------------------------------ MODULE Dispatcher ------------------------------
(***************************************************************************)
(* The message broker of dispatcher.py, with the SQLite write queue it     *)
(* awaits (dispatch_persistence.py, storage/persistence.py), the sweeps    *)
(* that touch the same state (sweeper.py) and its restart (__main__.py).   *)
(*                                                                         *)
(* Every handler is a coroutine on one event loop, so it runs alone until  *)
(* it awaits.  It awaits in three places: to acquire the FIFO lock _lock   *)
(* when the lock is taken, to have a transaction committed, and to be      *)
(* woken by a message.  One action stands for one stretch between awaits,  *)
(* and `running' is the task that has not come to an await yet.  dispatch, *)
(* broadcast and bot_emit hold the lock while they await their             *)
(* transaction; every other handler releases it before it awaits.          *)
(*                                                                         *)
(* A call's number is its command id and its created_at: calls are         *)
(* numbered in the order they start.                                       *)
(***************************************************************************)
EXTENDS ConversationStore, FiniteSets, Sequences

CONSTANTS Workers,         \* instances registered as workers
          Handlers,        \* bots that handle the message types they subscribe to
          Observers,       \* bots that get a copy of everything
          System,          \* the sender of broker notices, "agora-system"
          Allowed,         \* comm-matrix: the permitted <<source, target>> pairs
          MaxInboxDepth,   \* --max-inbox-depth (0 reaches the dispatcher as 10^9)
          NamedConvs,      \* conversation ids chosen by callers
          Requests,        \* the calls clients may make (see RequestType)
          Daemons,         \* the background events that may happen
          RestoreModes,    \* whether --restore is given: TRUE, FALSE or either
          MaxRestarts      \* bound: how often the process is restarted

ConvId == Call \cup NamedConvs
Sender == Ids \cup {System}
MaybeCall == Call \cup {None}

(***************************************************************************)
(* A call to the broker.  op: the handler; src: the caller (the instance,  *)
(* for flush and wait); tgt: the target, or None for schema routing; cc:   *)
(* the list of the observers that the caller names, which nobody searches  *)
(* for duplicates; subs: the handlers that subscribe to the payload's      *)
(* message type; conv and irt: conversation_id and in_reply_to (for cancel *)
(* the command, for the thread operations the conversation); er:           *)
(* expect_result; only: flush's from_sources.                              *)
(***************************************************************************)
SenderOps == {"dispatch", "broadcast", "emit"}
Op == {"dispatch", "reply", "broadcast", "emit", "flush", "wait", "notify",
       "cancel", "close_thread", "operator_close", "shutdown"}

RequestType == [op : Op, src : Sender, tgt : Sender \cup {None},
                cc : Seq(Workers), subs : SUBSET Handlers,
                conv : ConvId \cup {None}, irt : MaybeCall,
                er : BOOLEAN, closing : BOOLEAN, only : SUBSET Sender]

\* clients call under the name they registered, which is never the broker's; only
\* bots emit; a notice is for somebody, and a thread is closed by its id
WellFormed(r) ==
  /\ r.op # "notify" => r.src \in Ids
  /\ r.op = "emit" => r.src \in Handlers \cup Observers
  /\ r.op = "notify" => r.tgt \in Ids
  /\ r.op \in {"close_thread", "operator_close"} => r.conv \in ConvId

\* A notice the deadline sweep makes is stamped with the last call started
\* before it, and is about a silent target of command irt.  The conversation of
\* a notice is only informative: None where it has one of its own.  The nth of a
\* copy for somebody named in cc is its place there, of any other message 0: only
\* it tells apart the copies that a command sends to an instance named twice.
Envelope == [cmd : Call, source : Sender, target : Ids,
             conv : ConvId \cup {None}, as : {"primary", "cc", "subscribed"},
             er : BOOLEAN, irt : MaybeCall, about : Ids \cup {None}, nth : Nat]

Edge == [from : Ids, cmd : Call, to : Ids]
Inbound == [cmd : Call, source : Sender, conv : ConvId \cup {None}]

\* what a suspended coroutine keeps in its local variables
Local == [conv : ConvId \cup {None}, isNew : BOOLEAN, born : 0..MaxCalls,
          parent : 0..MaxCalls, todo : SUBSET Ids]
NoLocal == [conv |-> None, isNew |-> FALSE, born |-> 0, parent |-> 0, todo |-> {}]

Txn == [by : Call, kind : {"dispatch", "marks", "status"}, conv : ConvId \cup {None},
        isNew : BOOLEAN, status : Status, envs : SUBSET Envelope,
        marks : SUBSET (Call \X Ids \X Nat)]

Finished == {"done", "refused", "failed", "dead"}
Waiting == {"lock", "write", "mark", "written", "unwritten", "blocked",
            "timedout", "report", "loop"}

AllDaemons == {"expire", "ttl", "gc", "restart", "write_error"}

ASSUME DispatcherAssumption ==
  /\ IsFiniteSet(Ids)
  /\ Ids = Workers \cup Handlers \cup Observers
  /\ Workers \cap (Handlers \cup Observers) = {}
  /\ None \notin Sender \cup ConvId \cup RequestType
  /\ System \notin Ids
  /\ NamedConvs \cap Call = {}
  /\ MaxInboxDepth \in Nat \ {0}
  /\ Requests \subseteq {r \in RequestType : WellFormed(r)}
  /\ Daemons \subseteq AllDaemons
  /\ MaxRestarts \in Nat
  /\ RestoreModes \subseteq BOOLEAN

VARIABLES
  pc,           \* where each call is
  req,          \* its (effective) arguments
  res,          \* its local variables
  running,      \* the task that runs until its next await, or 0
  lockQ,        \* _lock: the holder, then the tasks waiting in FIFO order
  queues,       \* _queues
  waiters,      \* _waiters: the calls whose future is registered
  lastInbound,  \* _last_inbound
  inFlight,     \* _in_flight, as a set of edges
  deadlines,    \* the keys of _deadlines
  conv,         \* ConversationStore._conversations
  convOf,       \* ConversationStore._conversation_of
  closed,       \* _closed
  epoch,        \* how often the process has been restarted
  wq,           \* AsyncWriteQueue._queue
  rows,         \* table messages
  drained,      \* the keys of its rows whose drained_at is set
  dbConv,       \* table conversations: status by id
  hist          \* history: what happened to every envelope and every edge

tasks   == <<pc, req, res, running, lockQ>>
mail    == <<queues, waiters, lastInbound>>
flights == <<inFlight, deadlines>>
convs   == <<conv, convOf>>
disk    == <<wq, rows, drained, dbConv>>
life    == <<closed, epoch>>
vars    == <<tasks, mail, flights, convs, disk, life, hist>>

NoHist == [sent |-> {}, taken |-> {}, recalled |-> {},
           answered |-> {}, expired |-> {}, withdrawn |-> {}]

Init ==
  /\ pc = [t \in Call |-> "idle"]
  /\ req = [t \in Call |-> None]
  /\ res = [t \in Call |-> NoLocal]
  /\ running = 0
  /\ lockQ = <<>>
  /\ queues = [i \in Ids |-> {}]
  /\ waiters = [i \in Ids |-> {}]
  /\ lastInbound = [i \in Ids |-> None]
  /\ inFlight = {}
  /\ deadlines = {}
  /\ conv = [c \in ConvId |-> Absent]
  /\ convOf = [t \in Call |-> None]
  /\ closed = FALSE
  /\ epoch = 0
  /\ wq = <<>>
  /\ rows = {}
  /\ drained = {}
  /\ dbConv = [c \in ConvId |-> "absent"]
  /\ hist = NoHist

-------------------------------------------------------------------------------
(***************************************************************************)
(* Tasks and the lock.                                                     *)
(***************************************************************************)
Idle == {t \in Call : pc[t] = "idle"}
IsNextCall(t) == t \in Idle /\ \A u \in Idle : t <= u

\* call numbers set aside for the closing messages of running close_threads
Reserved == {p \in Call \X Ids : pc[p[1]] = "loop" /\ p[2] \in res[p[1]].todo}
HasSlots(n) == Cardinality(Idle) >= n + Cardinality(Reserved)

\* asyncio.Lock.acquire: a free lock is taken without giving up control
Acquire(t) == /\ lockQ' = Append(lockQ, t)
              /\ running' = IF lockQ = <<>> THEN t ELSE 0

\* mutant of Reacquire: asks again for the lock it still holds
ReacquireHeld(t) == lockQ' = Append(lockQ, t) /\ running' = 0

\* release, then acquire again: whoever waits goes first
Reacquire(t) == /\ lockQ' = Append(Tail(lockQ), t)
                /\ running' = IF Tail(lockQ) = <<>> THEN t ELSE 0

\* the task inside the lock that has the control
HasLock(t) == running \in {0, t} /\ lockQ # <<>> /\ Head(lockQ) = t
InLock(t, op) == HasLock(t) /\ pc[t] = "lock" /\ req[t].op = op

\* the call returns or raises while it holds the lock
Leave(t, how) == /\ pc' = [pc EXCEPT ![t] = how]
                 /\ lockQ' = Tail(lockQ)
                 /\ running' = 0
                 /\ UNCHANGED <<req, res>>

\* the call goes on awaiting its transaction without the lock
LeaveToWrite(t, write) ==
  /\ wq' = Append(wq, write)
  /\ Leave(t, "mark")

(***************************************************************************)
(* The end of a dispatch.  One that close_thread made goes on in           *)
(* close_thread's loop, which passes over a refusal (a ValueError) and     *)
(* does not catch DispatcherClosed or a failed write.                      *)
(***************************************************************************)
LeaveDispatch(t, how) ==
  LET p    == res[t].parent
      dies == how = "failed" \/ closed
  IN  /\ lockQ' = Tail(lockQ)
      /\ UNCHANGED <<req, res>>
      /\ IF p = 0 THEN /\ pc' = [pc EXCEPT ![t] = how]
                       /\ running' = 0
         ELSE IF how # "done" /\ dies
           THEN /\ pc' = [pc EXCEPT ![t] = how, ![p] = "failed"]
                /\ running' = 0
           ELSE /\ pc' = [pc EXCEPT ![t] = how]
                /\ running' = p

(***************************************************************************)
(* Mail.                                                                   *)
(***************************************************************************)
\* mutant of Room: off by one
RoomOffByOne(i) == Cardinality(queues[i]) <= MaxInboxDepth

\* the inbox is not full
Room(i) == Cardinality(queues[i]) < MaxInboxDepth
IsNotice(e) == e.source = System

\* mutant of Deliver: appends and does not wake
DeliverUnnoticed(envs) ==
  /\ queues' = [i \in Ids |-> queues[i] \cup {e \in envs : e.target = i}]
  /\ UNCHANGED waiters

\* queues[target].append and _wake, for every envelope
Deliver(envs) ==
  /\ queues' = [i \in Ids |-> queues[i] \cup {e \in envs : e.target = i}]
  /\ waiters' = [i \in Ids |-> IF \E e \in envs : e.target = i
                                 THEN {} ELSE waiters[i]]

\* make_envelope for the copies of call t addressed to the instances `to'
Copies(t, to, as, er) ==
  {[cmd |-> t, source |-> req[t].src, target |-> i, conv |-> res[t].conv,
    as |-> as, er |-> er, irt |-> req[t].irt, about |-> None, nth |-> 0] : i \in to}

\* ... and for the copies addressed to the places `at' of its cc
CcCopies(t, at, er) ==
  {[cmd |-> t, source |-> req[t].src, target |-> req[t].cc[n], conv |-> res[t].conv,
    as |-> "cc", er |-> er, irt |-> req[t].irt, about |-> None, nth |-> n] : n \in at}

\* What identifies a message.  A row is found by the first two, which no two rows
\* have in common; the copies that do are in no row (see Distinct).
Key(e) == <<e.cmd, e.target, e.nth>>
Undrained == {e \in rows : Key(e) \notin drained}

\* what the dispatcher knows of a command: memory first, then the disk
RowsOf(c) == {e \in rows : e.cmd = c}
Known(c) == c # None /\ (convOf[c] # None \/ RowsOf(c) # {})
ConvOfCommand(c) ==
  IF c = None THEN None
  ELSE IF convOf[c] # None THEN convOf[c]
  ELSE IF RowsOf(c) # {} THEN (CHOOSE e \in RowsOf(c) : TRUE).conv
  ELSE None

Resolve(t, r) ==
  ResolveConversationId(conv, r.conv, ConvOfCommand(r.irt), t)

-------------------------------------------------------------------------------
(***************************************************************************)
(* Entering a call: what a handler does before its first await.            *)
(***************************************************************************)
\* A caller can name a conversation that the lists in memory or on disk show, and
\* a command that is on disk or whose call is over (its answer has the id, and a
\* flush that returns it needs the lock that the sending call held).
Nameable(r) ==
  /\ r.conv \in Call => conv[r.conv].status # "absent" \/ dbConv[r.conv] # "absent"
  /\ r.irt # None => \/ RowsOf(r.irt) # {}
                     \/ pc[r.irt] \in Finished /\ Known(r.irt)

MayEnter(t) == running = 0 /\ IsNextCall(t) /\ HasSlots(1)

\* the call is turned down, or has nothing to do, before it takes the lock
EndAtOnce(t, r, how) ==
  /\ pc' = [pc EXCEPT ![t] = how]
  /\ req' = [req EXCEPT ![t] = r]
  /\ UNCHANGED <<res, running, lockQ>>

\* the call goes for the lock with these arguments and local variables
GoForLock(t, r, local) ==
  /\ pc' = [pc EXCEPT ![t] = "lock"]
  /\ req' = [req EXCEPT ![t] = r]
  /\ res' = [res EXCEPT ![t] = local]
  /\ Acquire(t)

Start(t, r, parent) ==
  LET where == Resolve(t, r)
  IN  [NoLocal EXCEPT !.conv = where.conv, !.isNew = where.isNew, !.parent = parent]

\* the checks dispatch makes on its arguments: registration and subscription
\* of the target, the comm-matrix for worker targets, a route if there is none
DispatchRefused(r) ==
  \/ r.tgt = None /\ r.subs = {}
  \/ r.tgt # None /\ r.tgt \notin Ids
  \/ r.tgt \in Handlers /\ r.tgt \notin r.subs
  \/ r.tgt \in Workers /\ <<r.src, r.tgt>> \notin Allowed

EnterDispatch(t, r) ==
  /\ r.op = "dispatch"
  /\ IF closed \/ DispatchRefused(r)
       THEN EndAtOnce(t, r, "refused")
       ELSE GoForLock(t, r, Start(t, r, 0))
  /\ UNCHANGED <<mail, flights, convs, disk, life, hist>>

\* reply: a dispatch whose target, in_reply_to and conversation are those of
\* the last primary message the caller drained
ReplyAsDispatch(r) ==
  LET last == lastInbound[r.src]
  IN  [r EXCEPT !.op = "dispatch", !.tgt = last.source,
                !.irt = last.cmd, !.conv = last.conv]

EnterReply(t, r) ==
  /\ r.op = "reply"
  /\ IF lastInbound[r.src] = None \/ closed
       THEN EndAtOnce(t, r, "refused")
       ELSE LET d == ReplyAsDispatch(r)
            IN  IF DispatchRefused(d) THEN EndAtOnce(t, d, "refused")
                ELSE GoForLock(t, d, Start(t, d, 0))
  /\ UNCHANGED <<mail, flights, convs, disk, life, hist>>

EnterBroadcast(t, r) ==
  /\ r.op = "broadcast"
  /\ IF closed THEN EndAtOnce(t, r, "refused")
               ELSE GoForLock(t, r, Start(t, r, 0))
  /\ UNCHANGED <<mail, flights, convs, disk, life, hist>>

\* bot_emit: with a target it is direct, with in_reply_to it goes to the
\* source of that command, with neither to the subscribers
EmitTarget(r) ==
  IF r.tgt # None THEN r.tgt
  ELSE IF Known(r.irt) THEN req[r.irt].src ELSE None

EnterEmit(t, r) ==
  /\ r.op = "emit"
  /\ IF closed \/ (r.tgt # None /\ (r.irt # None \/ r.tgt \notin Ids))
       THEN EndAtOnce(t, r, "refused")
       ELSE GoForLock(t, [r EXCEPT !.tgt = EmitTarget(r),
                                   !.subs = IF r.tgt = None /\ r.irt = None
                                              THEN r.subs ELSE {}],
                      Start(t, r, 0))
  /\ UNCHANGED <<mail, flights, convs, disk, life, hist>>

\* flush, wait_notify and system_notify only look at _closed first
EnterMailbox(t, r) ==
  /\ r.op \in {"flush", "wait", "notify"}
  /\ IF closed THEN EndAtOnce(t, r, "refused")
               ELSE GoForLock(t, r, NoLocal)
  /\ UNCHANGED <<mail, flights, convs, disk, life, hist>>

\* cancel: only the source of a known command may recall it
EnterCancel(t, r) ==
  /\ r.op = "cancel"
  /\ r.irt # None
  /\ IF req[r.irt].src # r.src THEN EndAtOnce(t, r, "refused")
                               ELSE GoForLock(t, r, NoLocal)
  /\ UNCHANGED <<mail, flights, convs, disk, life, hist>>

\* close_thread reads the participants once, before it sends anything
OtherPrimaries(c, who) == DeliveredPrimaries(conv[c]) \ {who}

EnterCloseThread(t, r) ==
  /\ r.op = "close_thread"
  /\ IF conv[r.conv].status \in {"absent", "closed"}
        \/ conv[r.conv].role[r.src] = "none"
       THEN EndAtOnce(t, r, "refused")
       ELSE /\ HasSlots(1 + Cardinality(OtherPrimaries(r.conv, r.src)))
            /\ pc' = [pc EXCEPT ![t] = "loop"]
            /\ req' = [req EXCEPT ![t] = r]
            /\ res' = [res EXCEPT ![t] =
                 [NoLocal EXCEPT !.conv = r.conv, !.born = conv[r.conv].born,
                                 !.todo = OtherPrimaries(r.conv, r.src)]]
            /\ running' = t
            /\ UNCHANGED lockQ
  /\ UNCHANGED <<mail, flights, convs, disk, life, hist>>

EnterOperatorClose(t, r) ==
  /\ r.op = "operator_close"
  /\ IF conv[r.conv].status \in {"absent", "closed"}
       THEN EndAtOnce(t, r, "refused")
       ELSE GoForLock(t, r, [NoLocal EXCEPT !.conv = r.conv,
                                            !.born = conv[r.conv].born])
  /\ UNCHANGED <<mail, flights, convs, disk, life, hist>>

\* close: the flag is set before the lock is asked for
EnterShutdown(t, r) ==
  /\ r.op = "shutdown"
  /\ closed' = TRUE
  /\ GoForLock(t, r, NoLocal)
  /\ UNCHANGED <<mail, flights, convs, disk, epoch, hist>>

-------------------------------------------------------------------------------
(***************************************************************************)
(* Sections that hold the lock.                                            *)
(***************************************************************************)
\* mutant of StateFor: every message starts the conversation anew
StateForgotten(t) == NewState(t)

\* the state the message goes into: as it is under the lock, or a new one
StateFor(t) ==
  IF res[t].isNew \/ conv[res[t].conv].status = "absent"
    THEN NewState(t) ELSE conv[res[t].conv]

\* put and record_command
Record(t, state) ==
  /\ conv' = [conv EXCEPT ![res[t].conv] = state]
  /\ convOf' = [convOf EXCEPT ![t] = res[t].conv]

\* mutant of SubmitDispatch: the status is read before the closing is recorded
SubmitEarlierStatus(t, state, envs) ==
  /\ wq' = Append(wq, [by |-> t, kind |-> "dispatch", conv |-> res[t].conv,
                       isNew |-> res[t].isNew, status |-> StateFor(t).status,
                       envs |-> envs, marks |-> {}])
  /\ pc' = [pc EXCEPT ![t] = "write"]
  /\ running' = 0
  /\ UNCHANGED <<req, res, lockQ, rows, drained, dbConv>>

\* mutant of SubmitDispatch: the transaction is awaited outside the lock
SubmitUnlocked(t, state, envs) ==
  /\ wq' = Append(wq, [by |-> t, kind |-> "dispatch", conv |-> res[t].conv,
                       isNew |-> res[t].isNew, status |-> state.status,
                       envs |-> envs, marks |-> {}])
  /\ pc' = [pc EXCEPT ![t] = "write"]
  /\ running' = 0
  /\ lockQ' = Tail(lockQ)
  /\ UNCHANGED <<req, res, rows, drained, dbConv>>

\* persist_dispatch_txn: the statements are built now, committed later
SubmitDispatch(t, state, envs) ==
  /\ wq' = Append(wq, [by |-> t, kind |-> "dispatch", conv |-> res[t].conv,
                       isNew |-> res[t].isNew, status |-> state.status,
                       envs |-> envs, marks |-> {}])
  /\ pc' = [pc EXCEPT ![t] = "write"]
  /\ running' = 0
  /\ UNCHANGED <<req, res, lockQ, rows, drained, dbConv>>

\* the edges call t adds to _in_flight by asking the instances `asked'
Ask(t, asked) == {[from |-> req[t].src, cmd |-> t, to |-> i] : i \in asked}

\* mutant of WithDeadline: only an explicit deadline_ts is kept
WithExplicitDeadline(t, asked) == deadlines

\* without an explicit one the deadline is now + the default timeout
WithDeadline(t, asked) == IF asked = {} THEN deadlines ELSE deadlines \cup {t}

\* mutant of Answers: takes the target of the reply for its author
AnswersOfTarget(t) ==
  IF req[t].irt # None /\ convOf[req[t].irt] # None
    THEN {x \in inFlight : x.cmd = req[t].irt /\ x.to = req[t].tgt}
    ELSE {}

\* _decrement_inflight_on_reply: any dispatch in reply to a command this
\* process knows counts as the caller's answer
Answers(t) ==
  IF req[t].irt # None /\ convOf[req[t].irt] # None
    THEN {x \in inFlight : x.cmd = req[t].irt /\ x.to = req[t].src}
    ELSE {}

DispatchLocked(t) ==
  /\ InLock(t, "dispatch")
  /\ ~closed
  /\ req[t].tgt # None => Room(req[t].tgt)
  /\ LET r     == req[t]
         to    == {r.tgt} \ {None}
         cc    == {n \in DOMAIN r.cc : r.cc[n] \notin {r.src, r.tgt}}
         ccIn  == {n \in cc : Room(r.cc[n])}
         subIn == {b \in r.subs \ to : Room(b)}
         obsIn == {b \in Observers \ (to \cup r.subs) : Room(b)}
         asked == IF r.er THEN (to \cap Workers) \ {r.src} ELSE {}
         envs  == UNION {Copies(t, to, "primary", r.er),
                         CcCopies(t, ccIn, r.er),
                         Copies(t, subIn, "subscribed", FALSE),
                         Copies(t, obsIn, "cc", FALSE)}
         named == AddParticipants(
                    AddParticipants(StateFor(t), {r.src} \cup to, "primary"),
                    {r.cc[n] : n \in cc} \cup subIn \cup obsIn, "cc")
         state == IF r.closing /\ named.role[r.src] \in {"primary", "missed"}
                    THEN PartyCloses(named, r.src) ELSE named
     IN  /\ Deliver(envs)
         /\ inFlight' = (inFlight \cup Ask(t, asked)) \ Answers(t)
         /\ deadlines' = WithDeadline(t, asked)
         /\ Record(t, state)
         /\ SubmitDispatch(t, state, envs)
         /\ hist' = [hist EXCEPT !.sent = @ \cup envs,
                                 !.answered = @ \cup Answers(t)]
  /\ UNCHANGED <<lastInbound, life>>

\* the server is shutting down, or the primary's inbox is full
DispatchTurnedDown(t) ==
  /\ InLock(t, "dispatch")
  /\ closed \/ (req[t].tgt # None /\ ~Room(req[t].tgt))
  /\ LeaveDispatch(t, "refused")
  /\ UNCHANGED <<mail, flights, convs, disk, life, hist>>

\* mutant of Permitted: no look at the matrix
EveryOtherWorker(src) == Workers \ {src}

\* the registered workers the comm-matrix lets src write to
Permitted(src) == {w \in Workers \ {src} : <<src, w>> \in Allowed}

\* broadcast: every worker the matrix permits is a primary; full inboxes are
\* passed over; bots get copies and stay out of the conversation
BroadcastLocked(t) ==
  /\ InLock(t, "broadcast")
  /\ ~closed
  /\ LET r     == req[t]
         to    == Permitted(r.src)
         wIn   == {w \in to : Room(w)}
         subIn == {b \in r.subs : Room(b)}
         obsIn == {b \in Observers \ r.subs : Room(b)}
         asked == IF r.er THEN wIn ELSE {}
         envs  == UNION {Copies(t, wIn, "primary", r.er),
                         Copies(t, subIn, "subscribed", FALSE),
                         Copies(t, obsIn, "cc", FALSE)}
         named == AddParticipants(
                    AddParticipants(StateFor(t), {r.src} \cup wIn, "primary"),
                    to \ wIn, "missed")
         state == IF r.closing
                    THEN [named EXCEPT !.status = "closed",
                            !.closedBy = {i \in Ids : named.role[i] # "none"}]
                    ELSE named
     IN  /\ Deliver(envs)
         /\ inFlight' = inFlight \cup Ask(t, asked)
         /\ deadlines' = WithDeadline(t, asked)
         /\ Record(t, state)
         /\ SubmitDispatch(t, state, envs)
         /\ hist' = [hist EXCEPT !.sent = @ \cup envs]
  /\ UNCHANGED <<lastInbound, life>>

\* bot_emit: the bot joins as cc, and a full inbox is passed over even when
\* it is the one replied to
EmitLocked(t) ==
  /\ InLock(t, "emit")
  /\ ~closed
  /\ LET r     == req[t]
         to    == {i \in {r.tgt} \ {None} : Room(i)}
         subIn == {b \in r.subs \ {r.tgt} : Room(b)}
         obsIn == {b \in Observers \ ({r.tgt} \cup r.subs) : Room(b)}
         envs  == UNION {Copies(t, to, "primary", FALSE),
                         Copies(t, subIn, "subscribed", FALSE),
                         Copies(t, obsIn, "cc", FALSE)}
         state == AddParticipants(
                    AddParticipants(
                      AddParticipants(StateFor(t), {r.src}, "cc"), to, "primary"),
                    subIn \cup obsIn, "cc")
     IN  /\ Deliver(envs)
         /\ Record(t, state)
         /\ SubmitDispatch(t, state, envs)
         /\ hist' = [hist EXCEPT !.sent = @ \cup envs]
  /\ UNCHANGED <<lastInbound, flights, life>>

\* the other handlers look at _closed again under the lock
TurnedDown(t) ==
  /\ \E op \in {"broadcast", "emit", "flush", "wait", "notify"} : InLock(t, op)
  /\ closed
  /\ Leave(t, "refused")
  /\ UNCHANGED <<mail, flights, convs, disk, life, hist>>

\* the transaction is over: the lock is released, the call returns or raises
Resume(t) ==
  /\ HasLock(t)
  /\ pc[t] \in {"written", "unwritten"}
  /\ LeaveDispatch(t, IF pc[t] = "written" THEN "done" ELSE "failed")
  /\ UNCHANGED <<mail, flights, convs, disk, life, hist>>

(***************************************************************************)
(* flush: the matching envelopes leave the queue; still without an await   *)
(* the newest primary becomes the context of reply; then drained_at is     *)
(* written, after the lock is released and as a best effort.               *)
(***************************************************************************)
Matches(r, e) == e.source \in r.only /\ (r.conv = None \/ e.conv = r.conv)

\* latest created_at; a notice was made after the command it is stamped with
Newer(e, f) == e.cmd > f.cmd \/ (e.cmd = f.cmd /\ IsNotice(e) /\ ~IsNotice(f))
Newest(envs) == {e \in envs : \A f \in envs : ~Newer(f, e)}

\* mutant of AsInbound: in_reply_to in place of the id
AsInboundOfReply(e) == [cmd |-> e.irt, source |-> e.source, conv |-> e.conv]

\* the context that reply uses
AsInbound(e) == [cmd |-> e.cmd, source |-> e.source, conv |-> e.conv]

\* mutant of MarksOf: the sender's rows are marked
MarksOfSender(envs) == {<<e.cmd, e.source, e.nth>> : e \in {f \in envs : ~IsNotice(f)}}

\* the rows whose drained_at is set; notices have no row
MarksOf(envs) == {Key(e) : e \in {f \in envs : ~IsNotice(f)}}
Marks(t, envs) == [by |-> t, kind |-> "marks", conv |-> None, isNew |-> FALSE,
                   status |-> "absent", envs |-> {}, marks |-> MarksOf(envs)]

\* mutant of Kept: a filtered flush empties the inbox
KeptNothing(i, taken) == {}

\* what a flush leaves in the inbox
Kept(i, taken) == queues[i] \ taken

FlushLocked(t) ==
  /\ InLock(t, "flush")
  /\ ~closed
  /\ LET i     == req[t].src
         taken == {e \in queues[i] : Matches(req[t], e)}
         prim  == {e \in taken : e.as = "primary"}
     IN  /\ queues' = [queues EXCEPT ![i] = Kept(i, taken)]
         /\ hist' = [hist EXCEPT !.taken = @ \cup taken]
         /\ IF prim = {} THEN UNCHANGED lastInbound
            ELSE \E e \in Newest(prim) :
                   lastInbound' = [lastInbound EXCEPT ![i] = AsInbound(e)]
         /\ IF taken = {} THEN Leave(t, "done") /\ UNCHANGED wq
                          ELSE LeaveToWrite(t, Marks(t, taken))
  /\ UNCHANGED <<waiters, flights, convs, rows, drained, dbConv, life>>

(***************************************************************************)
(* wait_notify: an empty queue registers a future and the call blocks on   *)
(* it; when it is woken or times out, the lock is taken again to report.   *)
(***************************************************************************)
WaitLocked(t) ==
  /\ InLock(t, "wait")
  /\ ~closed
  /\ LET i == req[t].src
     IN  IF queues[i] = {}
           THEN /\ waiters' = [waiters EXCEPT ![i] = @ \cup {t}]
                /\ Leave(t, "blocked")
           ELSE /\ pc' = [pc EXCEPT ![t] = "report"]
                /\ Reacquire(t)
                /\ UNCHANGED <<waiters, req, res>>
  /\ UNCHANGED <<queues, lastInbound, flights, convs, disk, life, hist>>

Woken(t) ==
  /\ running = 0
  /\ pc[t] = "blocked"
  /\ t \notin waiters[req[t].src]
  /\ pc' = [pc EXCEPT ![t] = "report"]
  /\ Acquire(t)
  /\ UNCHANGED <<req, res, mail, flights, convs, disk, life, hist>>

TimeOut(t) ==
  /\ running = 0
  /\ pc[t] = "blocked"
  /\ pc' = [pc EXCEPT ![t] = "timedout"]
  /\ Acquire(t)
  /\ UNCHANGED <<req, res, mail, flights, convs, disk, life, hist>>

TimedOutLocked(t) ==
  /\ HasLock(t)
  /\ pc[t] = "timedout"
  /\ waiters' = [waiters EXCEPT ![req[t].src] = @ \ {t}]
  /\ pc' = [pc EXCEPT ![t] = "report"]
  /\ Reacquire(t)
  /\ UNCHANGED <<req, res, queues, lastInbound, flights, convs, disk, life, hist>>

Report(t) ==
  /\ HasLock(t)
  /\ pc[t] = "report"
  /\ Leave(t, "done")
  /\ UNCHANGED <<mail, flights, convs, disk, life, hist>>

\* system_notify: no inbox limit, no conversation, nothing persisted
Notice(stamp, to, c, irt, about) ==
  [cmd |-> stamp, source |-> System, target |-> to, conv |-> c,
   as |-> "primary", er |-> FALSE, irt |-> irt, about |-> about, nth |-> 0]

NotifyLocked(t) ==
  /\ InLock(t, "notify")
  /\ ~closed
  /\ LET envs == {Notice(t, req[t].tgt, None, None, None)}
     IN  /\ Deliver(envs)
         /\ hist' = [hist EXCEPT !.sent = @ \cup envs]
  /\ Leave(t, "done")
  /\ UNCHANGED <<lastInbound, flights, convs, disk, life>>

\* cancel: what the targets have not drained yet is taken back
CancelLocked(t) ==
  /\ InLock(t, "cancel")
  /\ LET edges  == {x \in inFlight : x.from = req[t].src /\ x.cmd = req[t].irt}
         asked  == {x.to : x \in edges}
         Is(e)  == e.cmd = req[t].irt /\ ~IsNotice(e)
         back   == {e \in UNION {queues[i] : i \in asked} : Is(e)}
     IN  /\ queues' = [i \in Ids |-> queues[i] \ back]
         /\ inFlight' = inFlight \ edges
         /\ deadlines' = deadlines \ {req[t].irt}
         /\ hist' = [hist EXCEPT !.recalled = @ \cup back,
                                 !.withdrawn = @ \cup edges]
         /\ IF back = {} THEN Leave(t, "done") /\ UNCHANGED wq
                         ELSE LeaveToWrite(t, Marks(t, back))
  /\ UNCHANGED <<waiters, lastInbound, convs, rows, drained, dbConv, life>>

\* mutant of ShutdownLocked: the futures stay registered
ShutdownForgets(t) ==
  /\ InLock(t, "shutdown")
  /\ Leave(t, "done")
  /\ UNCHANGED <<mail, flights, convs, disk, life, hist>>

\* close: every registered future gets DispatcherClosed
ShutdownLocked(t) ==
  /\ InLock(t, "shutdown")
  /\ LET hung == {u \in UNION {waiters[i] : i \in Ids} : pc[u] = "blocked"}
     IN  pc' = [u \in Call |-> IF u = t THEN "done"
                               ELSE IF u \in hung THEN "refused" ELSE pc[u]]
  /\ waiters' = [i \in Ids |-> {}]
  /\ lockQ' = Tail(lockQ)
  /\ running' = 0
  /\ UNCHANGED <<req, res, queues, lastInbound, flights, convs, disk, life, hist>>

-------------------------------------------------------------------------------
(***************************************************************************)
(* close_thread: one closing dispatch per other primary, each a dispatch   *)
(* of its own that picks its conversation again, then the caller's own     *)
(* closing on the state that was read at the beginning.                    *)
(***************************************************************************)
ClosingMessage(t, to) ==
  [op |-> "dispatch", src |-> req[t].src, tgt |-> to, cc |-> <<>>, subs |-> {},
   conv |-> req[t].conv, irt |-> None, er |-> FALSE, closing |-> TRUE, only |-> {}]

NextClosing(t) ==
  /\ running = t
  /\ pc[t] = "loop"
  /\ \E to \in res[t].todo, u \in Call :
       LET r    == ClosingMessage(t, to)
           rest == [res EXCEPT ![t].todo = @ \ {to}]
       IN  /\ IsNextCall(u)
           /\ req' = [req EXCEPT ![u] = r]
           /\ IF closed
                THEN /\ pc' = [pc EXCEPT ![u] = "refused", ![t] = "failed"]
                     /\ res' = rest
                     /\ running' = 0
                     /\ UNCHANGED lockQ
              ELSE IF DispatchRefused(r)
                THEN /\ pc' = [pc EXCEPT ![u] = "refused"]
                     /\ res' = rest
                     /\ UNCHANGED <<running, lockQ>>
                ELSE /\ pc' = [pc EXCEPT ![u] = "lock"]
                     /\ res' = [rest EXCEPT ![u] = Start(u, r, t)]
                     /\ Acquire(u)
  /\ UNCHANGED <<mail, flights, convs, disk, life, hist>>

AllClosingsSent(t) ==
  /\ running = t
  /\ pc[t] = "loop"
  /\ res[t].todo = {}
  /\ pc' = [pc EXCEPT ![t] = "lock"]
  /\ Acquire(t)
  /\ UNCHANGED <<req, res, mail, flights, convs, disk, life, hist>>

\* the state a call read before it awaited: it changes the conversation only
\* while that state is the one in the table
Captured(t) == conv[res[t].conv].born = res[t].born

CloseThreadLocked(t) ==
  /\ InLock(t, "close_thread")
  /\ conv' = IF Captured(t)
               THEN [conv EXCEPT ![res[t].conv] = PartyCloses(@, req[t].src)]
               ELSE conv
  /\ Leave(t, "done")
  /\ UNCHANGED <<mail, flights, convOf, disk, life, hist>>

OperatorCloseLocked(t) ==
  /\ InLock(t, "operator_close")
  /\ conv' = IF Captured(t)
               THEN [conv EXCEPT ![res[t].conv].status = "closed",
                                 ![res[t].conv].closedBy = @ \cup {req[t].src}]
               ELSE conv
  /\ LeaveToWrite(t, [by |-> t, kind |-> "status", conv |-> res[t].conv,
                      isNew |-> FALSE, status |-> "closed", envs |-> {},
                      marks |-> {}])
  /\ UNCHANGED <<mail, flights, convOf, rows, drained, dbConv, life, hist>>

-------------------------------------------------------------------------------
(***************************************************************************)
(* The write queue's worker: one transaction at a time, all or nothing.    *)
(* A dispatch inserts its conversation only if it took it for new, the     *)
(* foreign key of its messages needs that row, and the primary key refuses *)
(* a second copy of a command for one target.                              *)
(***************************************************************************)
Distinct(envs) == \A e, f \in envs : e.target = f.target => e = f
HasConversation(x) == x.isNew \/ dbConv[x.conv] # "absent"
Applied(x) == x.kind = "dispatch" => HasConversation(x) /\ Distinct(x.envs)

\* mutant of Answer: an exception of the transaction is swallowed
AnswerSwallows(x, ok) ==
  pc' = [pc EXCEPT ![x.by] = IF x.kind = "dispatch" THEN "written" ELSE "done"]

\* the call that awaits the transaction goes on
Answer(x, ok) ==
  pc' = [pc EXCEPT ![x.by] =
           CASE x.kind = "dispatch" -> IF ok THEN "written" ELSE "unwritten"
             [] x.kind = "status"   -> IF ok THEN "done" ELSE "failed"
             [] x.kind = "marks"    -> "done"]

Commit ==
  /\ running = 0
  /\ wq # <<>>
  /\ LET x == Head(wq)
     IN  /\ Answer(x, Applied(x))
         /\ rows' = IF Applied(x) THEN rows \cup x.envs ELSE rows
         /\ drained' = drained \cup {k \in x.marks : \E e \in rows : Key(e) = k}
         /\ dbConv' = IF x.kind # "marks" /\ HasConversation(x) /\ Applied(x)
                        THEN [dbConv EXCEPT ![x.conv] = x.status]
                        ELSE dbConv
  /\ wq' = Tail(wq)
  /\ UNCHANGED <<req, res, running, lockQ, mail, flights, convs, life, hist>>

\* SQLite refuses the transaction (a full or locked disk): it is rolled back
WriteError ==
  /\ "write_error" \in Daemons
  /\ running = 0
  /\ wq # <<>>
  /\ Answer(Head(wq), FALSE)
  /\ wq' = Tail(wq)
  /\ UNCHANGED <<req, res, running, lockQ, mail, flights, convs,
                 rows, drained, dbConv, life, hist>>

-------------------------------------------------------------------------------
(***************************************************************************)
(* Background events.                                                      *)
(***************************************************************************)
LockIsHeld == lockQ # <<>> /\ pc[Head(lockQ)] \in {"write", "written", "unwritten"}
LastStarted == Cardinality(Call \ Idle)

\* _emit_timeout: whoever waits is told
TimeoutNotice(x) == Notice(LastStarted, x.from, convOf[x.cmd], x.cmd, x.to)

\* expire_overdue_deadlines, every 60 s.  The sweep queues for the lock like a
\* call and holds it without awaiting: it happens whenever nobody holds it.
ExpireDeadlines ==
  /\ "expire" \in Daemons
  /\ running = 0 /\ ~LockIsHeld /\ ~closed
  /\ \E due \in SUBSET deadlines \ {{}} :
       LET late == {x \in inFlight : x.cmd \in due}
           envs == {TimeoutNotice(x) : x \in late}
       IN  /\ Deliver(envs)
           /\ inFlight' = inFlight \ late
           /\ deadlines' = deadlines \ due
           /\ hist' = [hist EXCEPT !.sent = @ \cup envs, !.expired = @ \cup late]
  /\ UNCHANGED <<tasks, lastInbound, convs, disk, life>>

\* close_ttl_sweep: conversations quiet for longer than the time limit.  It
\* takes no lock; a conversation whose message is being written is not quiet.
Quiet == {c \in ConvId : \A k \in DOMAIN wq : wq[k].conv # c}

CloseTTL ==
  /\ "ttl" \in Daemons
  /\ running = 0
  /\ \E old \in SUBSET {c \in Quiet : conv[c].status = "half_closed"
                                      \/ dbConv[c] = "half_closed"} :
       /\ \E c \in old : conv[c].status = "half_closed"
       /\ conv' = [c \in ConvId |->
            IF c \in old /\ conv[c].status = "half_closed"
              THEN [conv[c] EXCEPT !.status = "closed"] ELSE conv[c]]
       /\ dbConv' = [c \in ConvId |->
            IF c \in old /\ dbConv[c] = "half_closed" THEN "closed" ELSE dbConv[c]]
  /\ UNCHANGED <<tasks, mail, flights, convOf, wq, rows, drained, life, hist>>

\* message_gc_sweep: the messages of conversations long closed on disk.  No
\* call is as old as that.
InUse == {res[t].conv : t \in {u \in Call : pc[u] \in Waiting}}

MessageGC ==
  /\ "gc" \in Daemons
  /\ running = 0
  /\ \E old \in SUBSET {c \in Quiet \ InUse : dbConv[c] = "closed"} \ {{}} :
       /\ rows' = {e \in rows : e.conv \notin old}
       /\ conv' = [c \in ConvId |-> IF c \in old THEN Absent ELSE conv[c]]
       /\ convOf' = [t \in Call |-> IF convOf[t] \in old THEN None ELSE convOf[t]]
  /\ UNCHANGED <<tasks, mail, flights, wq, drained, dbConv, life, hist>>

(***************************************************************************)
(* The process dies at any moment and starts again: what is in memory and  *)
(* in the write queue is gone.  With --restore the undrained messages of   *)
(* open conversations are queued again; without it they are dropped.       *)
(***************************************************************************)

\* mutant of Restorable: the rows that were read are selected, too
RestorableAgain == {e \in rows : dbConv[e.conv] # "closed"}

Restorable == {e \in Undrained : dbConv[e.conv] # "closed"}

\* the rows restore_in_flight_pending selects
ExpectsResult(e) == e.er /\ e.as = "primary"

\* the rows that were stored with a deadline: dispatch gives one to questions
\* that ask another worker
HasDeadline(e) == ExpectsResult(e) /\ e.target \in Workers \ {e.source}

EdgesOf(envs) == {[from |-> e.source, cmd |-> e.cmd, to |-> e.target] :
                    e \in {f \in envs : ExpectsResult(f)}}

\* mutant of RestoredEdges: the questions that were read are selected, too
RestoredEdgesOfAll(back) == EdgesOf(rows)

\* restore_in_flight_pending
RestoredEdges(back) == EdgesOf(back)

\* restore_from_persistence and drop_inflight_on_restart
Reload(back) ==
  /\ queues' = [i \in Ids |-> {e \in back : e.target = i}]
  /\ convOf' = [t \in Call |-> IF \E e \in back : e.cmd = t
                                 THEN (CHOOSE e \in back : e.cmd = t).conv
                                 ELSE None]
  /\ deadlines' = {e.cmd : e \in {f \in back : HasDeadline(f)}}
  /\ inFlight' = RestoredEdges(back)
  /\ drained' = drained \cup MarksOf(Undrained \ back)

\* the history goes on with what outlives the process: notices are in memory
\* only, and what is expected after the restart is expected anew
Letters == {e \in hist.sent : ~IsNotice(e)}
NextLife == [hist EXCEPT !.sent = Letters, !.taken = @ \cap Letters,
                         !.answered = {}, !.expired = {}, !.withdrawn = {}]

Restart ==
  /\ "restart" \in Daemons
  /\ epoch < MaxRestarts
  /\ epoch' = epoch + 1
  /\ closed' = FALSE
  /\ pc' = [t \in Call |-> IF pc[t] \in Waiting THEN "dead" ELSE pc[t]]
  /\ running' = 0
  /\ lockQ' = <<>>
  /\ wq' = <<>>
  /\ waiters' = [i \in Ids |-> {}]
  /\ lastInbound' = [i \in Ids |-> None]
  /\ conv' = [c \in ConvId |-> Absent]
  /\ \E restore \in RestoreModes : Reload(IF restore THEN Restorable ELSE {})
  /\ hist' = NextLife
  /\ UNCHANGED <<req, res, rows, dbConv>>

-------------------------------------------------------------------------------
EnterWith(t, r) ==
  \/ EnterDispatch(t, r)
  \/ EnterReply(t, r)
  \/ EnterBroadcast(t, r)
  \/ EnterEmit(t, r)
  \/ EnterMailbox(t, r)
  \/ EnterCancel(t, r)
  \/ EnterCloseThread(t, r)
  \/ EnterOperatorClose(t, r)
  \/ EnterShutdown(t, r)

Enter == \E t \in Call : /\ MayEnter(t)
                         /\ \E r \in Requests : Nameable(r) /\ EnterWith(t, r)

\* the steps of call t once it has started; none of them waits for a client
Step(t) ==
  \/ DispatchLocked(t)
  \/ DispatchTurnedDown(t)
  \/ BroadcastLocked(t)
  \/ EmitLocked(t)
  \/ TurnedDown(t)
  \/ Resume(t)
  \/ FlushLocked(t)
  \/ WaitLocked(t)
  \/ Woken(t)
  \/ TimedOutLocked(t)
  \/ Report(t)
  \/ NotifyLocked(t)
  \/ CancelLocked(t)
  \/ ShutdownLocked(t)
  \/ NextClosing(t)
  \/ AllClosingsSent(t)
  \/ CloseThreadLocked(t)
  \/ OperatorCloseLocked(t)

\* every call has returned, is blocked for mail, or is still to be made
Rest ==
  /\ running = 0 /\ lockQ = <<>> /\ wq = <<>>
  /\ \A t \in Call : pc[t] \in Finished \cup {"idle", "blocked"}
  /\ \A t \in Call : pc[t] = "blocked" => t \in waiters[req[t].src]
  /\ UNCHANGED vars

Next ==
  \/ Enter
  \/ \E t \in Call : Step(t)
  \/ \E t \in Call : TimeOut(t)
  \/ Commit
  \/ WriteError
  \/ ExpireDeadlines
  \/ CloseTTL
  \/ MessageGC
  \/ Restart
  \/ Rest

Spec == Init /\ [][Next]_vars

(***************************************************************************)
(* The event loop resumes every task that can go on, the write worker      *)
(* takes the next transaction, and the sweep loop runs every 60 s.  No     *)
(* client has to make a call, no wait has to time out (timeout_ms <= 0     *)
(* blocks without one), nothing has to fail.                               *)
(***************************************************************************)
Fairness == /\ \A t \in Call : WF_vars(Step(t))
            /\ WF_vars(Commit)
            /\ WF_vars(ExpireDeadlines)

FairSpec == Spec /\ Fairness

-------------------------------------------------------------------------------
(***************************************************************************)
(* Properties.                                                             *)
(***************************************************************************)
\* Every variable holds what the code's data structures can hold.
TypeOK ==
  /\ pc \in [Call -> Finished \cup Waiting \cup {"idle"}]
  /\ req \in [Call -> RequestType \cup {None}]
  /\ res \in [Call -> Local]
  /\ running \in 0..MaxCalls
  /\ lockQ \in Seq(Call)
  /\ queues \in [Ids -> SUBSET Envelope]
  /\ waiters \in [Ids -> SUBSET Call]
  /\ lastInbound \in [Ids -> Inbound \cup {None}]
  /\ inFlight \subseteq Edge
  /\ deadlines \subseteq Call
  /\ conv \in [ConvId -> ConvState]
  /\ convOf \in [Call -> ConvId \cup {None}]
  /\ closed \in BOOLEAN
  /\ epoch \in 0..MaxRestarts
  /\ wq \in Seq(Txn)
  /\ rows \subseteq Envelope
  /\ drained \subseteq Call \X Ids \X Nat
  /\ dbConv \in [ConvId -> Status]

\* A long-poll that is registered for an inbox finds it empty: mail that
\* arrives between wait_notify's look at the queue and its wait wakes it
\* (dispatcher.py:823-828 registers the future in the critical section that
\* sees the empty queue, and every append is followed by _wake).
NoLostWakeup == \A i \in Ids : waiters[i] # {} => queues[i] = {}

\* The calls that hold the lock while they await their transaction exclude
\* one another, so transactions are committed in the order in which the
\* commands were put in the inboxes.
InCriticalSection(t) == pc[t] \in {"write", "written", "unwritten"}
LockIsExclusive ==
  \A t \in Call : InCriticalSection(t) => lockQ # <<>> /\ Head(lockQ) = t

\* Every result expected of another worker can time out: the edge that coverage
\* and cancel read and the deadline that the sweep reads are two dicts, filled
\* and emptied by dispatch, broadcast, replies, cancel, the sweep and restore.
InFlightHasDeadline ==
  \A x \in inFlight : x.to \in Workers \ {x.from} => x.cmd \in deadlines

\* A worker that has answered is no longer waited for, whatever calls came
\* between the question and the answer, so the sweep cannot report it silent.
HasAnswered(x) == \E u \in Call : /\ convOf[u] # None
                                  /\ req[u].op = "dispatch"
                                  /\ req[u].irt = x.cmd
                                  /\ req[u].src = x.to
AnsweredIsSettled == \A x \in inFlight : ~HasAnswered(x)

\* An expected result that is still open has its question in the target's
\* inbox or in what the target has drained.
QuestionIsOut ==
  \A x \in inFlight : \E e \in queues[x.to] \cup hist.taken :
    e.cmd = x.cmd /\ e.target = x.to /\ e.er /\ e.as = "primary"

\* Inboxes are bounded by --max-inbox-depth, broker notices aside and but for the
\* copies of one command: dispatch tests for room once for every entry of cc and
\* appends afterwards (dispatcher.py:328-332, 387-390), so to an instance that cc
\* names twice it sends twice, and goes over the limit if one place was left.
\* That never adds up: without the copies of some one command, fewer messages
\* than the limit are in the inbox.
Fits(letters) == \E t \in 0..MaxCalls :
                   Cardinality({e \in letters : e.cmd # t}) < MaxInboxDepth
CapacityRespected == \A i \in Ids : Fits({e \in queues[i] : ~IsNotice(e)})

\* Once close() has run, nobody is left waiting and nobody starts to: a call
\* that passed the first test of _closed meets the second one.
NoWaiterAfterClose ==
  (closed /\ \A t \in Call : req[t] # None /\ req[t].op = "shutdown"
                               => pc[t] \in Finished)
    => \A i \in Ids : waiters[i] = {}

\* A message whose dispatch returned normally is on disk, whatever crashed or
\* failed since.
AcknowledgedIsDurable ==
  \A e \in hist.sent :
    ~IsNotice(e) /\ pc[e.cmd] = "done" => e \in rows

\* With no fault and nothing being written, the disk has what a restart
\* needs: its undrained rows are the queued messages, but for those of a call
\* that raised because its transaction was refused.
Unwritten(t) == pc[t] \in {"unwritten", "failed"}
DiskAgrees ==
  wq = <<>> =>
    Undrained = {e \in UNION {queues[i] : i \in Ids} :
                   ~IsNotice(e) /\ ~Unwritten(e.cmd)}

\* ... and every conversation in memory has its status there, with three
\* exceptions.  close_thread does not write the caller's own closing
\* (dispatcher.py:1081-1089).  While an operator's close waits for the lock,
\* another call may replace the state it is about: it then closes nothing in
\* memory and writes "closed" all the same (dispatcher.py:1107-1117).  And a
\* message whose transaction is refused leaves its conversation in memory as if
\* it had been written, until a later message is.
UnwrittenClosing(c) ==
  \E t \in Call : /\ pc[t] = "done" /\ req[t].op = "close_thread"
                 /\ res[t].conv = c /\ res[t].born = conv[c].born
MisplacedClosing(c) ==
  \E t \in Call : /\ pc[t] \in {"mark", "done"} /\ req[t].op = "operator_close"
                 /\ res[t].conv = c
                 /\ res[t].born < conv[c].born /\ conv[c].born < t
SendsTo(t, c) == /\ req[t] # None
                 /\ req[t].op \in SenderOps /\ res[t].conv = c
UnwrittenMessage(c) ==
  \E t \in Call : /\ SendsTo(t, c) /\ Unwritten(t)
                 /\ \A u \in Call : SendsTo(u, c) /\ pc[u] \in {"written", "done"} => u < t
StatusAgrees ==
  wq = <<>> => \A c \in ConvId :
    conv[c].status # "absent" =>
      \/ dbConv[c] = conv[c].status
      \/ UnwrittenClosing(c)
      \/ MisplacedClosing(c)
      \/ UnwrittenMessage(c)

\* Mail survives.  A message leaves an inbox only when it is read or recalled, but
\* for a restart: that loses the notices, the messages of calls that had not
\* returned and those of closed conversations, or all of them when it does not
\* restore.  And it brings back a message that was read or recalled only if the
\* flush or cancel that did so was still waiting for its mark.
RestartMayLose(e) == \/ IsNotice(e)
                     \/ pc[e.cmd] # "done"
                     \/ dbConv[e.conv] = "closed"
                     \/ FALSE \in RestoreModes /\ \A i \in Ids : queues'[i] = {}
NothingIsLost ==
  \A i \in Ids : \A e \in queues[i] \ queues'[i] :
    \/ epoch' = epoch /\ e \in hist'.taken \cup hist'.recalled
    \/ epoch' # epoch /\ RestartMayLose(e)
BeingMarked(e) == \E k \in DOMAIN wq : Key(e) \in wq[k].marks
NothingComesTwice ==
  \A i \in Ids : \A e \in queues'[i] \ queues[i] : e \in hist.sent => BeingMarked(e)
MailSurvives == [][NothingIsLost /\ NothingComesTwice]_vars

\* A worker that has mail of a conversation takes part in it, as long as the
\* conversation is in memory (bots stay out of the ones they only got a
\* broadcast of), so that close_thread by it is not turned down.  The exception
\* is a later call that took the conversation for new: after a restart, after
\* the retention sweep, or because it looked before the first call put it there
\* (dispatcher.py:318 and 334).
BegunAnew(e) == LET f == conv[e.conv].born IN e.cmd < f /\ res[f].isNew
ReceiversTakePart ==
  \A i \in Workers : \A e \in queues[i] :
    /\ ~IsNotice(e)
    /\ conv[e.conv].status # "absent"
    => conv[e.conv].role[i] # "none" \/ BegunAnew(e)

\* A conversation is closed by its last delivered primary, whichever handler
\* adds the parties and records their closings: half_closed means that the
\* closing of one of them is missing (or that nothing was delivered to any).
HalfClosedIsOwed ==
  \A c \in ConvId : conv[c].status = "half_closed" =>
    \/ DeliveredPrimaries(conv[c]) \ conv[c].closedBy # {}
    \/ DeliveredPrimaries(conv[c]) = {}

\* The comm-matrix: a worker gets no primary message from a worker that may
\* not write to it, whichever handler carries it.
MatrixIsRespected ==
  \A e \in hist.sent :
    e.as = "primary" /\ e.source \in Workers /\ e.target \in Workers
      => <<e.source, e.target>> \in Allowed

\* A message reaches an inbox of a conversation that is not closed.
NoEntryToClosed ==
  [][\A t \in Call : (pc[t] = "lock" /\ pc'[t] = "write") =>
       \/ res[t].isNew
       \/ conv[res[t].conv].status # "closed"]_vars

\* A message into a closed conversation, however late it comes, never opens it
\* again.  The one way back is a call that found no such conversation when it
\* started (the garbage collection had forgotten it) and finds it closed under
\* the lock: it stores a new state over it.
ClosedIsFinal ==
  [][\A c \in ConvId : conv[c].status = "closed" =>
       \/ conv'[c].status \in {"closed", "absent"}
       \/ \E t \in Call : /\ pc[t] = "lock" /\ pc'[t] = "write"
                          /\ res[t].conv = c /\ res[t].isNew]_vars

Mailbox == INSTANCE MessageLife
  WITH sent <- hist.sent,
       queued <- UNION {queues[i] : i \in Ids},
       taken <- hist.taken,
       recalled <- hist.recalled,
       open <- inFlight,
       answered <- hist.answered,
       expired <- hist.expired,
       withdrawn <- hist.withdrawn

\* The broker keeps the promises of MessageLife.
KeepsPromises == Mailbox!Spec

\* Every call to the broker returns, the waits for mail aside.
EveryCallReturns ==
  \A t \in Call : pc[t] \in Waiting \ {"blocked"}
                    ~> pc[t] \in Finished \cup {"blocked"}

\* A worker blocked in wait_notify returns once it has mail.
WaiterIsServed ==
  \A t \in Call :
    (pc[t] = "blocked" /\ queues[req[t].src] # {}) ~> pc[t] \in Finished

\* All the results a command expects are settled in the end, unless the broker
\* shuts down: a dead worker or a cycle of workers waiting for one another is
\* ended by the deadline (docs/backlog.md:207-208).
IsExpected(t) == \E x \in inFlight : x.cmd = t
EveryQuestionSettled ==
  \A t \in Call : IsExpected(t) ~> (~IsExpected(t) \/ closed)
=============================================================================
