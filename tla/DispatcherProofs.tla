---------------------------- MODULE DispatcherProofs ----------------------------
(***************************************************************************)
(* Theorems of Dispatcher for every set of instances, bots and requests,   *)
(* every comm-matrix, inbox limit and number of calls and restarts.        *)
(*                                                                         *)
(* TypeOK and InFlightHasDeadline are not inductive as they stand: a reply *)
(* to a command, its cancellation and its restoration from disk all read   *)
(* what another call left behind.  IInv adds what they may rely on: every  *)
(* call past its start has a well-formed request, and whatever is known of *)
(* a command, in memory, on disk or on its way there, agrees with it.      *)
(***************************************************************************)
EXTENDS Dispatcher, FiniteSetTheorems, SequenceTheorems, TLAPS

Started(t) == pc[t] # "idle"

\* what holds of a call that has started, whichever handler it is in
InvolvesConv == {"dispatch", "broadcast", "emit", "close_thread", "operator_close"}
CallOK(t) ==
  /\ req[t] \in RequestType
  /\ WellFormed(req[t])
  /\ pc[t] = "loop" => req[t].op = "close_thread"
  /\ pc[t] \in {"lock", "loop"} /\ req[t].op \in InvolvesConv
       => res[t].conv \in ConvId
  /\ pc[t] = "lock" /\ req[t].op \in {"dispatch", "emit"}
       => req[t].tgt \in Ids \cup {None}
  /\ pc[t] = "lock" /\ req[t].op = "cancel"
       => /\ req[t].irt \in Call
          /\ Started(req[t].irt)
          /\ req[req[t].irt].src = req[t].src

\* envelope e was sent by the call whose id it has
SentByItsCall(e) == /\ Started(e.cmd)
                    /\ e.source \in Ids
                    /\ req[e.cmd].src = e.source

\* a dispatch that close_thread makes
ParentsOK == \A t \in Call : res[t].parent # 0 => Started(res[t].parent)

CallsOK == ParentsOK /\ \A t \in Call : Started(t) => CallOK(t)
KnownOK == \A t \in Call : convOf[t] # None => Started(t) /\ req[t].src \in Ids
RowsOK  == \A e \in rows : SentByItsCall(e)
WritesOK == \A k \in DOMAIN wq : /\ Started(wq[k].by)
                                  /\ \A e \in wq[k].envs : SentByItsCall(e)
EdgesOK == \A x \in inFlight : Started(x.cmd) /\ req[x.cmd].src = x.from

IInv == TypeOK /\ CallsOK /\ KnownOK /\ RowsOK /\ WritesOK /\ EdgesOK

-------------------------------------------------------------------------------
(***************************************************************************)
(* Sequences: what Append and Tail do to the elements.                     *)
(***************************************************************************)
LEMMA AppendElements ==
  ASSUME NEW S, NEW s \in Seq(S), NEW x \in S
  PROVE  /\ Append(s, x) \in Seq(S)
         /\ \A k \in DOMAIN Append(s, x) :
              Append(s, x)[k] = x \/ \E j \in DOMAIN s : Append(s, x)[k] = s[j]
BY AppendProperties

\* Tail keeps the elements but the first.
LEMMA TailElements ==
  ASSUME NEW S, NEW s \in Seq(S), s # <<>>
  PROVE  /\ Tail(s) \in Seq(S)
         /\ Head(s) \in S
         /\ 1 \in DOMAIN s /\ Head(s) = s[1]
         /\ \A k \in DOMAIN Tail(s) : \E j \in DOMAIN s : Tail(s)[k] = s[j]
<1>1. /\ Head(s) \in S /\ Tail(s) \in Seq(S) /\ Len(Tail(s)) = Len(s) - 1
      /\ \A i \in 1..Len(Tail(s)) : Tail(s)[i] = s[i + 1]
  BY HeadTailProperties
<1>2. Len(s) \in Nat /\ Len(s) # 0 /\ DOMAIN s = 1..Len(s) /\ Head(s) = s[1]
  OBVIOUS
<1>3. DOMAIN Tail(s) = 1..Len(Tail(s))
  BY <1>1
<1>. QED
  BY <1>1, <1>2, <1>3

(***************************************************************************)
(* The operators of ConversationStore.                                     *)
(***************************************************************************)
LEMMA StateTypes ==
  /\ Absent \in ConvState
  /\ \A t \in Call : NewState(t) \in ConvState
BY MaxCallsAssumption DEF Absent, NewState, ConvState, Status, Role, Call

\* Adding parties to a conversation leaves a conversation.
LEMMA AddParticipantsType ==
  ASSUME NEW s \in ConvState, NEW who, NEW r \in Role
  PROVE  AddParticipants(s, who, r) \in ConvState
BY DEF AddParticipants, ConvState, Role

\* So does looking whether it closes.
LEMMA MaybeCloseType ==
  ASSUME NEW s \in ConvState
  PROVE  MaybeClose(s) \in ConvState
BY DEF MaybeClose, ConvState, Status

\* So does recording that a party closes.
LEMMA PartyClosesType ==
  ASSUME NEW s \in ConvState, NEW i \in Ids
  PROVE  PartyCloses(s, i) \in ConvState
<1>. DEFINE m == [s EXCEPT !.closedBy = @ \cup {i},
                           !.status = IF @ = "open" THEN "half_closed" ELSE @]
<1>1. m \in ConvState
  BY DEF ConvState, Status
<1>. QED
  BY <1>1, MaybeCloseType DEF PartyCloses

\* The conversation of a command is a conversation or None.
LEMMA ConvOfCommandType ==
  ASSUME TypeOK, NEW n \in MaybeCall
  PROVE  ConvOfCommand(n) \in ConvId \cup {None}
<1>1. CASE n # None /\ convOf[n] = None /\ RowsOf(n) # {}
  <2>1. (CHOOSE e \in RowsOf(n) : TRUE) \in RowsOf(n)
    BY <1>1
  <2>. QED
    BY <1>1, <2>1 DEF ConvOfCommand, RowsOf, TypeOK, Envelope, MaybeCall
<1>2. CASE ~(n # None /\ convOf[n] = None /\ RowsOf(n) # {})
  BY <1>2 DEF ConvOfCommand, TypeOK, MaybeCall
<1>. QED
  BY <1>1, <1>2

\* A new command is always given a conversation.
LEMMA ResolveType ==
  ASSUME TypeOK, NEW t \in Call, NEW r \in RequestType
  PROVE  Resolve(t, r).conv \in ConvId /\ Resolve(t, r).isNew \in BOOLEAN
<1>1. ConvOfCommand(r.irt) \in ConvId \cup {None} /\ r.conv \in ConvId \cup {None}
  BY ConvOfCommandType DEF RequestType
<1>2. t \in ConvId
  BY DEF ConvId
<1>. QED
  BY <1>1, <1>2 DEF Resolve, ResolveConversationId, Resolution

\* A call without local variables is well-typed.
LEMMA NoLocalType == NoLocal \in Local /\ NoLocal.parent = 0
BY MaxCallsAssumption DEF NoLocal, Local

\* So are the local variables a messaging call starts with.
LEMMA StartType ==
  ASSUME TypeOK, NEW t \in Call, NEW r \in RequestType, NEW p \in Call \cup {0}
  PROVE  /\ Start(t, r, p) \in Local
         /\ Start(t, r, p).conv \in ConvId
         /\ Start(t, r, p).parent = p
<1>. DEFINE w == Resolve(t, r)
<1>1. w.conv \in ConvId /\ w.isNew \in BOOLEAN
  BY ResolveType
<1>2. p \in 0..MaxCalls
  BY MaxCallsAssumption DEF Call
<1>3. NoLocal \in Local
  BY NoLocalType
<1>4. Start(t, r, p) = [NoLocal EXCEPT !.conv = w.conv, !.isNew = w.isNew, !.parent = p]
  BY DEF Start
<1>. HIDE DEF w, NoLocal
<1>. QED
  BY <1>1, <1>2, <1>3, <1>4 DEF Local

-------------------------------------------------------------------------------
(***************************************************************************)
(* Steps of the tasks.  Progress: a call that has started keeps its        *)
(* arguments and never starts again.                                       *)
(***************************************************************************)
TasksOK ==
  /\ pc \in [Call -> Finished \cup Waiting \cup {"idle"}]
  /\ req \in [Call -> RequestType \cup {None}]
  /\ res \in [Call -> Local]
  /\ running \in 0..MaxCalls
  /\ lockQ \in Seq(Call)

Progress == \A c \in Call : Started(c) => pc'[c] # "idle" /\ req'[c] = req[c]

\* What is known of a command stays true of it as the calls go on.
LEMMA SenderKept ==
  ASSUME Progress, NEW e \in Envelope, SentByItsCall(e)
  PROVE  SentByItsCall(e)'
BY DEF Envelope, SentByItsCall, Progress, Started

\* What is known of calls stays true when nothing is added to it.
LEMMA KnowledgeKept ==
  ASSUME IInv, Progress
  PROVE  /\ UNCHANGED convOf => KnownOK'
         /\ rows' \subseteq rows => RowsOK'
         /\ UNCHANGED wq => WritesOK'
         /\ inFlight' \subseteq inFlight => EdgesOK'
<1>1. UNCHANGED convOf => KnownOK'
  BY DEF IInv, TypeOK, KnownOK, Progress, Started
<1>2. rows' \subseteq rows => RowsOK'
  BY SenderKept DEF IInv, TypeOK, RowsOK
<1>3. UNCHANGED wq => WritesOK'
  <2>1. \A k \in DOMAIN wq : wq[k] \in Txn
    BY DEF IInv, TypeOK
  <2>. QED
    BY <2>1, SenderKept DEF IInv, WritesOK, Txn, Progress, Started
<1>4. inFlight' \subseteq inFlight => EdgesOK'
  BY DEF IInv, TypeOK, EdgesOK, Edge, Progress, Started
<1>. QED
  BY <1>1, <1>2, <1>3, <1>4

\* A step of the tasks alone preserves the invariant if the calls keep theirs.
LEMMA TasksStep ==
  ASSUME IInv, TasksOK', Progress, CallsOK', closed' \in BOOLEAN,
         UNCHANGED <<mail, flights, convs, disk, epoch>>
  PROVE  IInv'
<1>1. TypeOK'
  BY DEF IInv, TypeOK, TasksOK, mail, flights, convs, disk
<1>. QED
  BY <1>1, KnowledgeKept DEF IInv, convs, disk, flights

\* What a call relies on is not taken from it by a step that leaves its
\* arguments and conversation alone and moves it, if at all, to a stage that
\* relies on nothing more.
LEMMA CallKept ==
  ASSUME CallsOK, Progress, NEW c \in Call, Started(c),
         pc'[c] = pc[c] \/ pc'[c] \notin {"lock", "loop"},
         res'[c].conv = res[c].conv
  PROVE  CallOK(c)'
BY DEF CallsOK, CallOK, Progress, Started, WellFormed

\* So does what is known of the parents of dispatches.
LEMMA ParentsKept ==
  ASSUME IInv, Progress,
         \A c \in Call : res'[c].parent \in {res[c].parent, 0}
  PROVE  ParentsOK'
<1>. SUFFICES ASSUME NEW c \in Call, res'[c].parent # 0
              PROVE  pc'[res'[c].parent] # "idle"
  BY DEF ParentsOK, Started
<1>1. res'[c].parent = res[c].parent
  OBVIOUS
<1>2. res[c].parent \in Call /\ Started(res[c].parent)
  <2>1. res[c] \in Local
    BY DEF IInv, TypeOK
  <2>2. res[c].parent \in Call
    BY <1>1, <2>1, MaxCallsAssumption DEF Local, Call
  <2>. QED
    BY <1>1, <2>2 DEF IInv, CallsOK, ParentsOK
<1>. QED
  BY <1>1, <1>2 DEF Progress

\* the calls of a step that only moves calls on, none of them into the lock
MovesOn == \A c \in Call : /\ pc[c] = "idle" <=> pc'[c] = "idle"
                           /\ pc'[c] = pc[c] \/ pc'[c] \notin {"lock", "loop"}

\* A step that moves calls on leaves them well-formed.
LEMMA CallsMoveOn ==
  ASSUME IInv, MovesOn, UNCHANGED <<req, res>>
  PROVE  Progress /\ CallsOK'
<1>1. Progress
  BY DEF Progress, MovesOn, Started
<1>2. ParentsOK'
  BY <1>1, ParentsKept
<1>. QED
  BY <1>1, <1>2, CallKept DEF IInv, CallsOK, MovesOn, Started

\* A call that is turned down at once ends well-formed.
LEMMA EndsAtOnce ==
  ASSUME IInv, NEW t \in Call, pc[t] = "idle",
         NEW r \in RequestType, WellFormed(r), EndAtOnce(t, r, "refused")
  PROVE  TasksOK' /\ Progress /\ CallsOK'
<1>1. TasksOK' /\ Progress
  BY DEF IInv, TypeOK, TasksOK, Progress, Started, EndAtOnce, Finished
<1>2. ASSUME NEW c \in Call, Started(c)' PROVE CallOK(c)'
  <2>1. CASE c = t
    BY <2>1 DEF EndAtOnce, CallOK, IInv, TypeOK, WellFormed
  <2>2. CASE c # t
    BY <1>1, <1>2, <2>2, CallKept DEF EndAtOnce, IInv, TypeOK, Started
  <2>. QED
    BY <2>1, <2>2
<1>3. ParentsOK'
  BY <1>1, ParentsKept DEF EndAtOnce
<1>. QED
  BY <1>1, <1>2, <1>3 DEF CallsOK

\* Taking or queueing for the lock keeps the lock's queue well-typed.
LEMMA AcquireType ==
  ASSUME IInv, NEW t \in Call, Acquire(t)
  PROVE  lockQ' \in Seq(Call) /\ running' \in 0..MaxCalls
BY AppendProperties, MaxCallsAssumption DEF IInv, TypeOK, Acquire, Call

\* A call that goes for the lock is well-formed there.
LEMMA GoesForLock ==
  ASSUME IInv, NEW t \in Call, pc[t] = "idle",
         NEW r \in RequestType, WellFormed(r), NEW local \in Local,
         GoForLock(t, r, local), local.parent = 0,
         r.op \in InvolvesConv => local.conv \in ConvId,
         r.op \in {"dispatch", "emit"} => r.tgt \in Ids \cup {None},
         r.op = "cancel" => /\ r.irt \in Call
                            /\ Started(r.irt)
                            /\ req[r.irt].src = r.src
  PROVE  TasksOK' /\ Progress /\ CallsOK'
<1>1. TasksOK' /\ Progress
  BY AcquireType DEF IInv, TypeOK, TasksOK, Progress, Started, GoForLock, Waiting
<1>2. ASSUME NEW c \in Call, Started(c)' PROVE CallOK(c)'
  <2>1. CASE c = t
    <3>1. pc'[t] = "lock" /\ req'[t] = r /\ res'[t] = local
      BY DEF GoForLock, IInv, TypeOK
    <3>2. r.op = "cancel" => Started(r.irt)' /\ req'[r.irt].src = r.src
      BY <1>1 DEF Progress, Started
    <3>. QED
      BY <2>1, <3>1, <3>2 DEF CallOK, WellFormed
  <2>2. CASE c # t
    BY <1>1, <1>2, <2>2, CallKept DEF GoForLock, IInv, TypeOK, Started
  <2>. QED
    BY <2>1, <2>2
<1>3. ParentsOK'
  BY <1>1, ParentsKept DEF GoForLock, IInv, TypeOK
<1>. QED
  BY <1>1, <1>2, <1>3 DEF CallsOK

-------------------------------------------------------------------------------
(***************************************************************************)
(* Entering a call.                                                        *)
(***************************************************************************)
LEMMA RequestsOK ==
  ASSUME NEW r \in Requests
  PROVE  r \in RequestType /\ WellFormed(r)
BY DispatcherAssumption

\* A call that may enter has not started.
LEMMA NotYetStarted ==
  ASSUME NEW t \in Call, MayEnter(t)
  PROVE  pc[t] = "idle"
BY DEF MayEnter, IsNextCall, Idle

\* a dispatch that is let in has a target with an inbox, or none
LEMMA DispatchEnters ==
  ASSUME IInv, NEW t \in Call, pc[t] = "idle",
         NEW r \in RequestType, WellFormed(r), r.op = "dispatch",
         IF DispatchRefused(r) THEN EndAtOnce(t, r, "refused")
                               ELSE GoForLock(t, r, Start(t, r, 0))
  PROVE  TasksOK' /\ Progress /\ CallsOK'
<1>1. CASE DispatchRefused(r)
  BY <1>1, EndsAtOnce
<1>2. CASE ~DispatchRefused(r)
  <2>1. /\ Start(t, r, 0) \in Local
        /\ Start(t, r, 0).conv \in ConvId
        /\ Start(t, r, 0).parent = 0
    BY StartType DEF IInv
  <2>2. r.tgt \in Ids \cup {None}
    BY <1>2 DEF DispatchRefused
  <2>. QED
    BY <1>2, <2>1, <2>2, GoesForLock
<1>. QED
  BY <1>1, <1>2

\* EnterDispatch preserves the invariant.
LEMMA EnterDispatchOK ==
  ASSUME IInv, NEW t \in Call, pc[t] = "idle",
         NEW r \in RequestType, WellFormed(r), EnterDispatch(t, r)
  PROVE  IInv'
<1>1. TasksOK' /\ Progress /\ CallsOK'
  BY DispatchEnters, EndsAtOnce DEF EnterDispatch
<1>2. closed' \in BOOLEAN /\ UNCHANGED <<mail, flights, convs, disk, epoch>>
  BY DEF EnterDispatch, life, IInv, TypeOK
<1>. QED
  BY <1>1, <1>2, TasksStep

\* EnterReply preserves the invariant.
LEMMA EnterReplyOK ==
  ASSUME IInv, NEW t \in Call, pc[t] = "idle",
         NEW r \in RequestType, WellFormed(r), EnterReply(t, r)
  PROVE  IInv'
<1>. SUFFICES TasksOK' /\ Progress /\ CallsOK'
  BY TasksStep DEF EnterReply, life, IInv, TypeOK
<1>. DEFINE d == ReplyAsDispatch(r)
<1>1. CASE lastInbound[r.src] = None \/ closed
  BY <1>1, EndsAtOnce DEF EnterReply
<1>2. CASE ~(lastInbound[r.src] = None \/ closed)
  <2>1. r.src \in Ids /\ r.op = "reply"
    BY DEF EnterReply, WellFormed
  <2>2. lastInbound[r.src] \in Inbound
    BY <1>2, <2>1 DEF IInv, TypeOK
  <2>3. d \in RequestType /\ d.op = "dispatch" /\ d.src = r.src
    BY <2>2 DEF ReplyAsDispatch, RequestType, Inbound, MaybeCall, Op
  <2>4. WellFormed(d)
    BY <2>1, <2>3 DEF WellFormed
  <2>5. IF DispatchRefused(d) THEN EndAtOnce(t, d, "refused")
                              ELSE GoForLock(t, d, Start(t, d, 0))
    BY <1>2 DEF EnterReply
  <2>. HIDE DEF d
  <2>. QED
    BY <2>3, <2>4, <2>5, DispatchEnters
<1>. QED
  BY <1>1, <1>2

\* EnterBroadcast preserves the invariant.
LEMMA EnterBroadcastOK ==
  ASSUME IInv, NEW t \in Call, pc[t] = "idle",
         NEW r \in RequestType, WellFormed(r), EnterBroadcast(t, r)
  PROVE  IInv'
<1>. SUFFICES TasksOK' /\ Progress /\ CallsOK'
  BY TasksStep DEF EnterBroadcast, life, IInv, TypeOK
<1>1. CASE ~closed
  BY <1>1, GoesForLock, StartType DEF EnterBroadcast, IInv
<1>. QED
  BY <1>1, EndsAtOnce DEF EnterBroadcast

\* the command a bot replies to was sent by an instance, not by the broker
LEMMA EmitTargetType ==
  ASSUME IInv, NEW r \in RequestType, r.tgt # None => r.tgt \in Ids
  PROVE  EmitTarget(r) \in Ids \cup {None}
<1>1. ASSUME Known(r.irt) PROVE req[r.irt].src \in Ids
  <2>1. r.irt \in Call
    BY <1>1 DEF Known, RequestType, MaybeCall
  <2>2. CASE convOf[r.irt] # None
    BY <2>1, <2>2 DEF IInv, KnownOK
  <2>3. CASE RowsOf(r.irt) # {}
    BY <2>3 DEF RowsOf, IInv, RowsOK, SentByItsCall
  <2>. QED
    BY <1>1, <2>2, <2>3 DEF Known
<1>. QED
  BY <1>1 DEF EmitTarget

\* EnterEmit preserves the invariant.
LEMMA EnterEmitOK ==
  ASSUME IInv, NEW t \in Call, pc[t] = "idle",
         NEW r \in RequestType, WellFormed(r), EnterEmit(t, r)
  PROVE  IInv'
<1>. SUFFICES TasksOK' /\ Progress /\ CallsOK'
  BY TasksStep DEF EnterEmit, life, IInv, TypeOK
<1>. DEFINE out == closed \/ (r.tgt # None /\ (r.irt # None \/ r.tgt \notin Ids))
            d == [r EXCEPT !.tgt = EmitTarget(r),
                           !.subs = IF r.tgt = None /\ r.irt = None
                                      THEN r.subs ELSE {}]
<1>1. CASE out
  BY <1>1, EndsAtOnce DEF EnterEmit
<1>2. CASE ~out
  <2>1. EmitTarget(r) \in Ids \cup {None}
    BY <1>2, EmitTargetType
  <2>2. /\ d \in RequestType
        /\ d.op = r.op /\ d.src = r.src /\ d.tgt = EmitTarget(r)
    BY <2>1 DEF RequestType, Sender
  <2>3. WellFormed(d) /\ d.op = "emit"
    BY <2>2 DEF WellFormed, EnterEmit
  <2>4. GoForLock(t, d, Start(t, r, 0))
    BY <1>2 DEF EnterEmit
  <2>. HIDE DEF d, out
  <2>. QED
    BY <2>1, <2>2, <2>3, <2>4, GoesForLock, StartType DEF IInv
<1>. QED
  BY <1>1, <1>2


\* EnterMailbox preserves the invariant.
LEMMA EnterMailboxOK ==
  ASSUME IInv, NEW t \in Call, pc[t] = "idle",
         NEW r \in RequestType, WellFormed(r), EnterMailbox(t, r)
  PROVE  IInv'
<1>. SUFFICES TasksOK' /\ Progress /\ CallsOK'
  BY TasksStep DEF EnterMailbox, life, IInv, TypeOK
<1>1. NoLocal \in Local /\ NoLocal.parent = 0
  BY NoLocalType
<1>2. CASE ~closed
  BY <1>1, <1>2, GoesForLock DEF EnterMailbox, InvolvesConv
<1>. QED
  BY <1>2, EndsAtOnce DEF EnterMailbox

\* the command a caller may name has started
LEMMA NamedHasStarted ==
  ASSUME IInv, NEW r \in RequestType, Nameable(r), r.irt # None
  PROVE  r.irt \in Call /\ Started(r.irt)
<1>1. r.irt \in Call
  BY DEF RequestType, MaybeCall
<1>2. CASE RowsOf(r.irt) # {}
  BY <1>1, <1>2 DEF RowsOf, IInv, RowsOK, SentByItsCall
<1>3. CASE pc[r.irt] \in Finished
  BY <1>1, <1>3 DEF Started, Finished
<1>. QED
  BY <1>1, <1>2, <1>3 DEF Nameable

\* EnterCancel preserves the invariant.
LEMMA EnterCancelOK ==
  ASSUME IInv, NEW t \in Call, pc[t] = "idle",
         NEW r \in RequestType, WellFormed(r), Nameable(r), EnterCancel(t, r)
  PROVE  IInv'
<1>. SUFFICES TasksOK' /\ Progress /\ CallsOK'
  BY TasksStep DEF EnterCancel, life, IInv, TypeOK
<1>1. NoLocal \in Local /\ NoLocal.parent = 0
  BY NoLocalType
<1>2. r.irt \in Call /\ Started(r.irt)
  BY NamedHasStarted DEF EnterCancel
<1>3. CASE req[r.irt].src = r.src
  BY <1>1, <1>2, <1>3, GoesForLock DEF EnterCancel, InvolvesConv
<1>. QED
  BY <1>3, EndsAtOnce DEF EnterCancel

\* EnterCloseThread preserves the invariant.
LEMMA EnterCloseThreadOK ==
  ASSUME IInv, NEW t \in Call, pc[t] = "idle",
         NEW r \in RequestType, WellFormed(r), EnterCloseThread(t, r)
  PROVE  IInv'
<1>. SUFFICES TasksOK' /\ Progress /\ CallsOK'
  BY TasksStep DEF EnterCloseThread, life, IInv, TypeOK
<1>. DEFINE c == r.conv
            local == [NoLocal EXCEPT !.conv = c, !.born = conv[c].born,
                                     !.todo = OtherPrimaries(c, r.src)]
            goes == /\ pc' = [pc EXCEPT ![t] = "loop"]
                    /\ req' = [req EXCEPT ![t] = r]
                    /\ res' = [res EXCEPT ![t] = local]
                    /\ running' = t
                    /\ UNCHANGED lockQ
<1>1. ASSUME goes PROVE TasksOK' /\ Progress /\ CallsOK'
  <2>1. c \in ConvId
    BY DEF WellFormed, EnterCloseThread
  <2>2. local \in Local /\ local.conv = c /\ local.parent = 0
    <3>1. conv[c].born \in 0..MaxCalls
      BY <2>1 DEF IInv, TypeOK, ConvState
    <3>2. OtherPrimaries(c, r.src) \subseteq Ids
      BY DEF OtherPrimaries, DeliveredPrimaries
    <3>. QED
      BY <2>1, <3>1, <3>2, NoLocalType DEF Local, NoLocal
  <2>. HIDE DEF local
  <2>3. TasksOK' /\ Progress
    BY <1>1, <2>2, MaxCallsAssumption
    DEF IInv, TypeOK, TasksOK, Progress, Started, Waiting, Call
  <2>4. ASSUME NEW u \in Call, Started(u)' PROVE CallOK(u)'
    <3>1. CASE u = t
      BY <1>1, <2>1, <2>2, <3>1
      DEF CallOK, IInv, TypeOK, WellFormed, EnterCloseThread
    <3>2. CASE u # t
      BY <1>1, <2>3, <2>4, <3>2, CallKept DEF IInv, TypeOK, Started
    <3>. QED
      BY <3>1, <3>2
  <2>5. ParentsOK'
    BY <1>1, <2>2, <2>3, ParentsKept DEF IInv, TypeOK
  <2>. QED
    BY <2>3, <2>4, <2>5 DEF CallsOK
<1>. QED
  BY <1>1, EndsAtOnce DEF EnterCloseThread

\* EnterOperatorClose preserves the invariant.
LEMMA EnterOperatorCloseOK ==
  ASSUME IInv, NEW t \in Call, pc[t] = "idle",
         NEW r \in RequestType, WellFormed(r), EnterOperatorClose(t, r)
  PROVE  IInv'
<1>. SUFFICES TasksOK' /\ Progress /\ CallsOK'
  BY TasksStep DEF EnterOperatorClose, life, IInv, TypeOK
<1>. DEFINE local == [NoLocal EXCEPT !.conv = r.conv, !.born = conv[r.conv].born]
<1>1. r.conv \in ConvId
  BY DEF WellFormed, EnterOperatorClose
<1>2. local \in Local /\ local.conv = r.conv /\ local.parent = 0
  <2>1. conv[r.conv].born \in 0..MaxCalls
    BY <1>1 DEF IInv, TypeOK, ConvState
  <2>. QED
    BY <1>1, <2>1, NoLocalType DEF Local, NoLocal
<1>3. EndAtOnce(t, r, "refused") \/ GoForLock(t, r, local)
  BY DEF EnterOperatorClose
<1>. HIDE DEF local
<1>4. CASE GoForLock(t, r, local)
  BY <1>1, <1>2, <1>4, GoesForLock DEF EnterOperatorClose
<1>. QED
  BY <1>3, <1>4, EndsAtOnce

\* EnterShutdown preserves the invariant.
LEMMA EnterShutdownOK ==
  ASSUME IInv, NEW t \in Call, pc[t] = "idle",
         NEW r \in RequestType, WellFormed(r), EnterShutdown(t, r)
  PROVE  IInv'
<1>. SUFFICES TasksOK' /\ Progress /\ CallsOK'
  BY TasksStep DEF EnterShutdown
<1>1. NoLocal \in Local /\ NoLocal.parent = 0
  BY NoLocalType
<1>. QED
  BY <1>1, GoesForLock DEF EnterShutdown, InvolvesConv

\* Entering any call preserves the invariant.
LEMMA EnterOK ==
  ASSUME IInv, Enter
  PROVE  IInv'
<1>1. PICK t \in Call, r \in Requests :
        MayEnter(t) /\ Nameable(r) /\ EnterWith(t, r)
  BY DEF Enter
<1>2. pc[t] = "idle" /\ r \in RequestType /\ WellFormed(r)
  BY <1>1, NotYetStarted, RequestsOK
<1>. QED
  BY <1>1, <1>2, EnterDispatchOK, EnterReplyOK, EnterBroadcastOK, EnterEmitOK,
     EnterMailboxOK, EnterCancelOK, EnterCloseThreadOK, EnterOperatorCloseOK,
     EnterShutdownOK
  DEF EnterWith

-------------------------------------------------------------------------------
(***************************************************************************)
(* Steps that change the tasks only.                                       *)
(***************************************************************************)
LEMMA LockType ==
  ASSUME IInv, NEW t \in Call, lockQ # <<>>
  PROVE  /\ Tail(lockQ) \in Seq(Call)
         /\ Append(Tail(lockQ), t) \in Seq(Call)
BY TailElements, AppendElements DEF IInv, TypeOK

\* the call gives the lock up and ends, or goes on without it
LEMMA Leaves ==
  ASSUME IInv, NEW t \in Call, HasLock(t), pc[t] # "idle",
         NEW how \in Finished \cup {"mark", "blocked"}, Leave(t, how)
  PROVE  TasksOK' /\ Progress /\ CallsOK'
<1>1. MovesOn
  BY DEF MovesOn, Leave, Finished, IInv, TypeOK
<1>2. TasksOK'
  BY LockType, MaxCallsAssumption
  DEF TasksOK, Leave, HasLock, Waiting, IInv, TypeOK
<1>. QED
  BY <1>1, <1>2, CallsMoveOn DEF Leave

\* The end of a dispatch, of close_thread's as well, keeps the calls well-formed.
LEMMA LeavesDispatch ==
  ASSUME IInv, NEW t \in Call, HasLock(t), pc[t] # "idle",
         NEW how \in Finished, LeaveDispatch(t, how),
         res[t].parent # 0 => pc[res[t].parent] # "idle"
  PROVE  TasksOK' /\ Progress /\ CallsOK'
<1>1. res[t].parent \in 0..MaxCalls /\ 0 \in 0..MaxCalls
  BY MaxCallsAssumption DEF IInv, TypeOK, Local
<1>2. MovesOn
  BY DEF MovesOn, LeaveDispatch, Finished, IInv, TypeOK
<1>3. TasksOK'
  BY <1>1, LockType DEF TasksOK, LeaveDispatch, HasLock, Finished, IInv, TypeOK
<1>. QED
  BY <1>2, <1>3, CallsMoveOn DEF LeaveDispatch

\* a step of the tasks that leaves mail, flights, convs, disk and life alone
LEMMA TasksOnly ==
  ASSUME IInv, TasksOK' /\ Progress /\ CallsOK',
         UNCHANGED <<mail, flights, convs, disk, life>>
  PROVE  IInv'
<1>1. closed' \in BOOLEAN /\ UNCHANGED epoch
  BY DEF life, IInv, TypeOK
<1>. QED
  BY <1>1, TasksStep

\* The close_thread that made a dispatch has started.
LEMMA ParentHasStarted ==
  ASSUME IInv, NEW t \in Call
  PROVE  res[t].parent # 0 => pc[res[t].parent] # "idle"
BY DEF IInv, CallsOK, ParentsOK, Started

\* DispatchTurnedDown preserves the invariant.
LEMMA DispatchTurnedDownOK ==
  ASSUME IInv, NEW t \in Call, DispatchTurnedDown(t)
  PROVE  IInv'
<1>1. HasLock(t) /\ pc[t] # "idle" /\ LeaveDispatch(t, "refused")
  BY DEF DispatchTurnedDown, InLock
<1>. QED
  BY <1>1, ParentHasStarted, LeavesDispatch, TasksOnly
  DEF DispatchTurnedDown, Finished

\* Resume preserves the invariant.
LEMMA ResumeOK ==
  ASSUME IInv, NEW t \in Call, Resume(t)
  PROVE  IInv'
<1>1. PICK how \in {"done", "failed"} : LeaveDispatch(t, how)
  BY DEF Resume
<1>2. HasLock(t) /\ pc[t] # "idle" /\ how \in Finished
  BY DEF Resume, Finished
<1>. QED
  BY <1>1, <1>2, ParentHasStarted, LeavesDispatch, TasksOnly DEF Resume

\* TurnedDown preserves the invariant.
LEMMA TurnedDownOK ==
  ASSUME IInv, NEW t \in Call, TurnedDown(t)
  PROVE  IInv'
<1>1. HasLock(t) /\ pc[t] # "idle" /\ Leave(t, "refused") /\ "refused" \in Finished
  BY DEF TurnedDown, InLock, Finished
<1>. QED
  BY <1>1, Leaves, TasksOnly DEF TurnedDown

\* Report preserves the invariant.
LEMMA ReportOK ==
  ASSUME IInv, NEW t \in Call, Report(t)
  PROVE  IInv'
<1>1. HasLock(t) /\ pc[t] # "idle" /\ Leave(t, "done") /\ "done" \in Finished
  BY DEF Report, Finished
<1>. QED
  BY <1>1, Leaves, TasksOnly DEF Report

\* a wait that is over goes for the lock
LEMMA WaitEnds ==
  ASSUME IInv, NEW t \in Call, pc[t] = "blocked",
         NEW how \in {"report", "timedout"},
         pc' = [pc EXCEPT ![t] = how], Acquire(t),
         UNCHANGED <<req, res, mail, flights, convs, disk, life>>
  PROVE  IInv'
<1>1. MovesOn
  BY DEF MovesOn, IInv, TypeOK
<1>2. TasksOK'
  BY AcquireType DEF TasksOK, Waiting, IInv, TypeOK
<1>. QED
  BY <1>1, <1>2, CallsMoveOn, TasksOnly

\* Woken preserves the invariant.
LEMMA WokenOK ==
  ASSUME IInv, NEW t \in Call, Woken(t)
  PROVE  IInv'
BY WaitEnds DEF Woken

\* TimeOut preserves the invariant.
LEMMA TimeOutOK ==
  ASSUME IInv, NEW t \in Call, TimeOut(t)
  PROVE  IInv'
BY WaitEnds DEF TimeOut

\* AllClosingsSent preserves the invariant.
LEMMA AllClosingsSentOK ==
  ASSUME IInv, NEW t \in Call, AllClosingsSent(t)
  PROVE  IInv'
<1>1. /\ pc[t] = "loop" /\ pc' = [pc EXCEPT ![t] = "lock"]
      /\ Acquire(t) /\ UNCHANGED <<req, res>>
  BY DEF AllClosingsSent
<1>2. TasksOK'
  BY <1>1, AcquireType DEF TasksOK, Waiting, IInv, TypeOK
<1>3. Progress
  BY <1>1 DEF Progress, Started, IInv, TypeOK
<1>4. ASSUME NEW c \in Call, Started(c)' PROVE CallOK(c)'
  <2>1. CASE c = t
    BY <1>1, <2>1 DEF CallOK, CallsOK, InvolvesConv, Started, WellFormed, IInv, TypeOK
  <2>2. CASE c # t
    BY <1>1, <1>3, <1>4, <2>2, CallKept DEF Started, IInv, TypeOK
  <2>. QED
    BY <2>1, <2>2
<1>5. CallsOK'
  BY <1>1, <1>3, <1>4, ParentsKept DEF CallsOK
<1>. QED
  BY <1>2, <1>3, <1>5, TasksOnly DEF AllClosingsSent

\* NextClosing preserves the invariant.
LEMMA NextClosingOK ==
  ASSUME IInv, NEW t \in Call, NextClosing(t)
  PROVE  IInv'
<1>. DEFINE local(u, r) == Start(u, r, t)
<1>1. PICK to \in res[t].todo, u \in Call :
        LET r    == ClosingMessage(t, to)
            rest == [res EXCEPT ![t].todo = @ \ {to}]
        IN  /\ IsNextCall(u)
            /\ req' = [req EXCEPT ![u] = r]
            /\ \/ /\ pc' = [pc EXCEPT ![u] = "refused", ![t] = "failed"]
                  /\ res' = rest
                  /\ running' = 0
                  /\ UNCHANGED lockQ
               \/ /\ pc' = [pc EXCEPT ![u] = "refused"]
                  /\ res' = rest
                  /\ UNCHANGED <<running, lockQ>>
               \/ /\ ~DispatchRefused(r)
                  /\ pc' = [pc EXCEPT ![u] = "lock"]
                  /\ res' = [rest EXCEPT ![u] = local(u, r)]
                  /\ Acquire(u)
  BY DEF NextClosing
<1>. DEFINE r == ClosingMessage(t, to)
            rest == [res EXCEPT ![t].todo = @ \ {to}]
<1>2. pc[u] = "idle" /\ pc[t] = "loop" /\ u # t
  BY <1>1 DEF IsNextCall, Idle, NextClosing
<1>3. to \in Ids
  BY DEF IInv, TypeOK, Local
<1>4. req[t] \in RequestType /\ WellFormed(req[t]) /\ req[t].op = "close_thread"
  BY <1>2 DEF IInv, CallsOK, CallOK, Started
<1>5. r \in RequestType /\ WellFormed(r) /\ r.op = "dispatch" /\ r.tgt \in Ids
  BY <1>3, <1>4 DEF ClosingMessage, RequestType, WellFormed, Op, Sender, MaybeCall
<1>6. rest \in [Call -> Local] /\ \A c \in Call : rest[c].conv = res[c].conv
                                                  /\ rest[c].parent = res[c].parent
  <2>. DEFINE l == [res[t] EXCEPT !.todo = @ \ {to}]
  <2>1. res[t] \in Local /\ res \in [Call -> Local]
    BY DEF IInv, TypeOK
  <2>2. l \in Local /\ l.conv = res[t].conv /\ l.parent = res[t].parent
    BY <2>1 DEF Local
  <2>3. rest = [res EXCEPT ![t] = l]
    OBVIOUS
  <2>. HIDE DEF l
  <2>. QED
    BY <2>1, <2>2, <2>3
<1>7. local(u, r) \in Local /\ local(u, r).conv \in ConvId /\ local(u, r).parent = t
  BY <1>5, StartType DEF IInv
<1>. HIDE DEF r, rest, local
<1>8. /\ req' = [req EXCEPT ![u] = r]
      /\ pc'[u] \in {"refused", "lock"} /\ pc'[t] \in {"loop", "failed"}
      /\ \A c \in Call \ {t, u} : pc'[c] = pc[c]
      /\ \A c \in Call \ {u} : res'[c] = rest[c]
      /\ \/ pc'[u] = "refused" /\ res'[u] = rest[u]
         \/ pc'[u] = "lock" /\ res'[u] = local(u, r)
  BY <1>1, <1>2, <1>6 DEF r, rest, IInv, TypeOK
<1>9. TasksOK'
  <2>1. pc' \in [Call -> Finished \cup Waiting \cup {"idle"}]
    BY <1>1, <1>2 DEF Finished, Waiting, IInv, TypeOK
  <2>2. res' \in [Call -> Local] /\ req' \in [Call -> RequestType \cup {None}]
    <3>1. res' = rest \/ res' = [rest EXCEPT ![u] = local(u, r)]
      BY <1>1 DEF r, rest
    <3>. QED
      BY <1>5, <1>6, <1>7, <1>8, <3>1 DEF IInv, TypeOK
  <2>3. running' \in 0..MaxCalls /\ lockQ' \in Seq(Call)
    BY <1>1, AcquireType, MaxCallsAssumption DEF IInv, TypeOK
  <2>. QED
    BY <2>1, <2>2, <2>3 DEF TasksOK
<1>10. Progress
  BY <1>2, <1>8 DEF Progress, Started, IInv, TypeOK
<1>11. ASSUME NEW c \in Call, Started(c)' PROVE CallOK(c)'
  <2>1. CASE c = u
    BY <1>5, <1>7, <1>8, <2>1 DEF CallOK, WellFormed, IInv, TypeOK
  <2>2. CASE c # u
    <3>1. res'[c].conv = res[c].conv /\ Started(c)
      BY <1>2, <1>6, <1>8, <1>11, <2>2 DEF Started
    <3>2. pc'[c] = pc[c] \/ pc'[c] \notin {"lock", "loop"}
      BY <1>2, <1>8, <2>2
    <3>. QED
      BY <1>10, <3>1, <3>2, CallKept DEF IInv
  <2>. QED
    BY <2>1, <2>2
<1>12. ParentsOK'
  <2>1. ASSUME NEW c \in Call, res'[c].parent # 0, c # u
        PROVE  pc'[res'[c].parent] # "idle"
    <3>1. res'[c].parent = res[c].parent
      BY <1>6, <1>8, <2>1
    <3>2. res[c].parent \in Call /\ Started(res[c].parent)
      BY <2>1, <3>1, MaxCallsAssumption
      DEF IInv, TypeOK, Local, CallsOK, ParentsOK, Call
    <3>. QED
      BY <1>10, <3>1, <3>2 DEF Progress
  <2>2. ASSUME res'[u].parent # 0 PROVE pc'[res'[u].parent] # "idle"
    <3>1. CASE res'[u] = rest[u]
      <4>1. res'[u].parent = res[u].parent
        BY <1>6, <3>1
      <4>2. res[u].parent \in Call /\ Started(res[u].parent)
        BY <2>2, <4>1, MaxCallsAssumption
        DEF IInv, TypeOK, Local, CallsOK, ParentsOK, Call
      <4>. QED
        BY <1>10, <4>1, <4>2 DEF Progress
    <3>2. CASE res'[u] = local(u, r)
      BY <1>7, <1>8, <3>2
    <3>. QED
      BY <1>8, <3>1, <3>2
  <2>. QED
    BY <2>1, <2>2 DEF ParentsOK, Started
<1>. QED
  BY <1>9, <1>10, <1>11, <1>12, TasksOnly DEF CallsOK, NextClosing

-------------------------------------------------------------------------------
(***************************************************************************)
(* Sending: dispatch, broadcast and bot_emit have this much in common.     *)
(***************************************************************************)
MadeBy(t) == {e \in Envelope : e.cmd = t /\ e.source = req[t].src}

\* The copies a call makes are envelopes of that call.
LEMMA CopiesType ==
  ASSUME IInv, NEW t \in Call, req[t] \in RequestType,
         NEW to \in SUBSET Ids, NEW as \in {"primary", "cc", "subscribed"},
         NEW er \in BOOLEAN
  PROVE  Copies(t, to, as, er) \subseteq MadeBy(t)
<1>1. /\ req[t].src \in Sender
      /\ req[t].irt \in MaybeCall
      /\ res[t].conv \in ConvId \cup {None}
  BY DEF RequestType, IInv, TypeOK, Local
<1>. DEFINE copy(i) == [cmd |-> t, source |-> req[t].src, target |-> i,
                       conv |-> res[t].conv, as |-> as, er |-> er,
                       irt |-> req[t].irt, about |-> None, nth |-> 0]
<1>2. ASSUME NEW i \in to
      PROVE  copy(i) \in MadeBy(t)
  BY <1>1 DEF MadeBy, Envelope
<1>3. Copies(t, to, as, er) = {copy(i) : i \in to}
  BY DEF Copies
<1>. HIDE DEF copy
<1>. QED
  BY <1>2, <1>3

\* So are those for the workers named in its cc.
LEMMA CcCopiesType ==
  ASSUME IInv, NEW t \in Call, req[t] \in RequestType,
         NEW at \in SUBSET DOMAIN req[t].cc, NEW er \in BOOLEAN
  PROVE  CcCopies(t, at, er) \subseteq MadeBy(t)
<1>1. /\ req[t].src \in Sender /\ req[t].irt \in MaybeCall
      /\ req[t].cc \in Seq(Workers)
      /\ res[t].conv \in ConvId \cup {None}
  BY DEF RequestType, IInv, TypeOK, Local
<1>. DEFINE copy(n) == [cmd |-> t, source |-> req[t].src, target |-> req[t].cc[n],
                       conv |-> res[t].conv, as |-> "cc", er |-> er,
                       irt |-> req[t].irt, about |-> None, nth |-> n]
<1>2. ASSUME NEW n \in at
      PROVE  copy(n) \in MadeBy(t)
  <2>1. n \in Nat /\ req[t].cc[n] \in Ids
    BY <1>1, DispatcherAssumption
  <2>. QED
    BY <1>1, <2>1 DEF MadeBy, Envelope
<1>3. CcCopies(t, at, er) = {copy(n) : n \in at}
  BY DEF CcCopies
<1>. HIDE DEF copy
<1>. QED
  BY <1>2, <1>3

\* Delivering keeps inboxes and waiters well-typed.
LEMMA DeliverType ==
  ASSUME IInv, NEW envs \in SUBSET Envelope, Deliver(envs)
  PROVE  queues' \in [Ids -> SUBSET Envelope] /\ waiters' \in [Ids -> SUBSET Call]
BY DEF Deliver, IInv, TypeOK

\* The state a command starts from is a conversation.
LEMMA StateForType ==
  ASSUME IInv, NEW t \in Call, res[t].conv \in ConvId
  PROVE  StateFor(t) \in ConvState
BY StateTypes DEF StateFor, IInv, TypeOK

\* the write queue gets a transaction of a call
LEMMA SubmitsWrite ==
  ASSUME IInv, Progress, NEW x \in Txn, wq' = Append(wq, x), Started(x.by),
         \A e \in x.envs : SentByItsCall(e)'
  PROVE  wq' \in Seq(Txn) /\ WritesOK'
<1>1. wq \in Seq(Txn)
  BY DEF IInv, TypeOK
<1>2. /\ wq' \in Seq(Txn)
      /\ \A k \in DOMAIN wq' : wq'[k] = x \/ \E j \in DOMAIN wq : wq'[k] = wq[j]
  BY <1>1, AppendElements
<1>3. /\ \A j \in DOMAIN wq : /\ Started(wq[j].by)'
                              /\ \A e \in wq[j].envs : SentByItsCall(e)'
      /\ Started(x.by)'
  <2>1. \A j \in DOMAIN wq : wq[j] \in Txn
    BY <1>1
  <2>. QED
    BY <2>1, SenderKept DEF IInv, WritesOK, Txn, Progress, Started
<1>. QED
  BY <1>2, <1>3 DEF WritesOK, Started

\* A sending step preserves the invariant, whichever handler it is.
LEMMA Sends ==
  ASSUME IInv, NEW t \in Call, pc[t] = "lock",
         req[t].op \in {"dispatch", "broadcast", "emit"},
         NEW envs \in SUBSET MadeBy(t),
         NEW state \in ConvState, NEW asked \in SUBSET Ids,
         Deliver(envs), Record(t, state), SubmitDispatch(t, state, envs),
         inFlight' \subseteq inFlight \cup Ask(t, asked),
         deadlines' \in {deadlines, WithDeadline(t, asked)},
         UNCHANGED <<lastInbound, life>>
  PROVE  IInv'
<1>1. /\ CallOK(t) /\ req[t].src \in Ids /\ res[t].conv \in ConvId
      /\ Started(t)
  BY DEF IInv, CallsOK, CallOK, Started, WellFormed, InvolvesConv
<1>2. /\ pc' = [pc EXCEPT ![t] = "write"] /\ running' = 0
      /\ UNCHANGED <<req, res, lockQ, rows, drained, dbConv>>
  BY DEF SubmitDispatch
<1>3. MovesOn
  BY <1>2 DEF MovesOn, IInv, TypeOK
<1>4. Progress /\ CallsOK'
  BY <1>2, <1>3, CallsMoveOn
<1>5. TasksOK'
  BY <1>2, MaxCallsAssumption DEF TasksOK, Waiting, IInv, TypeOK
<1>6. envs \subseteq Envelope /\ \A e \in envs : SentByItsCall(e)'
  BY <1>1, <1>2, <1>4 DEF MadeBy, SentByItsCall, Progress, Started
<1>7. wq' \in Seq(Txn) /\ WritesOK'
  <2>. DEFINE x == [by |-> t, kind |-> "dispatch", conv |-> res[t].conv,
                    isNew |-> res[t].isNew, status |-> state.status,
                    envs |-> envs, marks |-> {}]
  <2>1. x \in Txn /\ x.by = t /\ x.envs = envs
    BY <1>1, <1>6 DEF Txn, ConvState, IInv, TypeOK, Local
  <2>2. wq' = Append(wq, x)
    BY DEF SubmitDispatch
  <2>. HIDE DEF x
  <2>. QED
    BY <1>1, <1>4, <1>6, <2>1, <2>2, SubmitsWrite
<1>8. Ask(t, asked) \subseteq Edge /\ \A y \in Ask(t, asked) : y.cmd = t /\ y.from = req[t].src
  BY <1>1 DEF Ask, Edge
<1>9. TypeOK'
  <2>1. inFlight' \subseteq Edge /\ deadlines' \subseteq Call
    BY <1>8 DEF WithDeadline, IInv, TypeOK
  <2>2. conv' \in [ConvId -> ConvState] /\ convOf' \in [Call -> ConvId \cup {None}]
    BY <1>1 DEF Record, IInv, TypeOK
  <2>. QED
    BY <1>2, <1>5, <1>6, <1>7, <2>1, <2>2, DeliverType DEF TypeOK, TasksOK, IInv, life
<1>10. KnownOK'
  BY <1>1, <1>2, <1>4 DEF KnownOK, Record, Progress, Started, IInv, TypeOK
<1>11. RowsOK'
  BY <1>2, <1>4, KnowledgeKept
<1>12. EdgesOK'
  <2>1. \A y \in inFlight : pc'[y.cmd] # "idle" /\ req'[y.cmd].src = y.from
    BY <1>4 DEF IInv, TypeOK, EdgesOK, Edge, Progress, Started
  <2>2. \A y \in Ask(t, asked) : pc'[y.cmd] # "idle" /\ req'[y.cmd].src = y.from
    BY <1>1, <1>4, <1>8 DEF Progress, Started
  <2>. QED
    BY <2>1, <2>2 DEF EdgesOK, Started
<1>. QED
  BY <1>4, <1>7, <1>9, <1>10, <1>11, <1>12 DEF IInv

\* DispatchLocked preserves the invariant.
LEMMA DispatchLockedOK ==
  ASSUME IInv, NEW t \in Call, DispatchLocked(t)
  PROVE  IInv'
<1>. DEFINE r     == req[t]
            to    == {r.tgt} \ {None}
            cc    == {n \in DOMAIN r.cc : r.cc[n] \notin {r.src, r.tgt}}
            ccIn  == {n \in cc : Room(r.cc[n])}
            subIn == {b \in r.subs \ to : Room(b)}
            obsIn == {b \in Observers \ (to \cup r.subs) : Room(b)}
            asked == IF r.er THEN (to \cap Workers) \ {r.src} ELSE {}
            envs  == UNION {Copies(t, to, "primary", r.er),
                            CcCopies(t, ccIn, r.er),
                            Copies(t, subIn, "subscribed", FALSE),
                            Copies(t, obsIn, "cc", FALSE)}
            with  == AddParticipants(StateFor(t), {r.src} \cup to, "primary")
            named == AddParticipants(with, {r.cc[n] : n \in cc} \cup subIn \cup obsIn, "cc")
            state == IF r.closing /\ named.role[r.src] \in {"primary", "missed"}
                       THEN PartyCloses(named, r.src) ELSE named
<1>1. pc[t] = "lock" /\ r.op = "dispatch"
  BY DEF DispatchLocked, InLock
<1>2. /\ CallOK(t) /\ r \in RequestType /\ r.src \in Ids
      /\ r.tgt \in Ids \cup {None} /\ res[t].conv \in ConvId
  BY <1>1 DEF IInv, CallsOK, CallOK, Started, WellFormed, InvolvesConv
<1>3. /\ to \subseteq Ids /\ ccIn \subseteq DOMAIN r.cc /\ subIn \subseteq Ids
      /\ obsIn \subseteq Ids /\ asked \subseteq Ids /\ r.er \in BOOLEAN
  BY <1>2, DispatcherAssumption DEF RequestType
<1>4. envs \subseteq MadeBy(t)
  <2>1. FALSE \in BOOLEAN
    OBVIOUS
  <2>2. /\ Copies(t, to, "primary", r.er) \subseteq MadeBy(t)
        /\ CcCopies(t, ccIn, r.er) \subseteq MadeBy(t)
        /\ Copies(t, subIn, "subscribed", FALSE) \subseteq MadeBy(t)
        /\ Copies(t, obsIn, "cc", FALSE) \subseteq MadeBy(t)
    <3>. HIDE DEF to, ccIn, subIn, obsIn
    <3>. QED
      BY <1>2, <1>3, <2>1, CopiesType, CcCopiesType
  <2>. QED
    BY <2>2
<1>5. state \in ConvState
  <2>1. with \in ConvState
    BY <1>2, StateForType, AddParticipantsType DEF Role
  <2>2. named \in ConvState
    BY <2>1, AddParticipantsType DEF Role
  <2>. HIDE DEF named
  <2>. QED
    BY <1>2, <2>2, PartyClosesType
<1>6. /\ Deliver(envs) /\ Record(t, state) /\ SubmitDispatch(t, state, envs)
      /\ inFlight' = (inFlight \cup Ask(t, asked)) \ Answers(t)
      /\ deadlines' = WithDeadline(t, asked)
      /\ UNCHANGED <<lastInbound, life>>
  BY DEF DispatchLocked
<1>. HIDE DEF envs, state, asked
<1>. QED
  BY <1>1, <1>3, <1>4, <1>5, <1>6, Sends

\* BroadcastLocked preserves the invariant.
LEMMA BroadcastLockedOK ==
  ASSUME IInv, NEW t \in Call, BroadcastLocked(t)
  PROVE  IInv'
<1>. DEFINE r     == req[t]
            to    == Permitted(r.src)
            wIn   == {w \in to : Room(w)}
            subIn == {b \in r.subs : Room(b)}
            obsIn == {b \in Observers \ r.subs : Room(b)}
            asked == IF r.er THEN wIn ELSE {}
            envs  == UNION {Copies(t, wIn, "primary", r.er),
                            Copies(t, subIn, "subscribed", FALSE),
                            Copies(t, obsIn, "cc", FALSE)}
            with  == AddParticipants(StateFor(t), {r.src} \cup wIn, "primary")
            named == AddParticipants(with, to \ wIn, "missed")
            state == IF r.closing
                       THEN [named EXCEPT !.status = "closed",
                               !.closedBy = {i \in Ids : named.role[i] # "none"}]
                       ELSE named
<1>1. pc[t] = "lock" /\ r.op = "broadcast"
  BY DEF BroadcastLocked, InLock
<1>2. /\ CallOK(t) /\ r \in RequestType /\ r.src \in Ids /\ res[t].conv \in ConvId
  BY <1>1 DEF IInv, CallsOK, CallOK, Started, WellFormed, InvolvesConv
<1>3. /\ wIn \subseteq Ids /\ subIn \subseteq Ids /\ obsIn \subseteq Ids
      /\ asked \subseteq Ids /\ r.er \in BOOLEAN
  BY <1>2, DispatcherAssumption DEF RequestType, Permitted
<1>4. envs \subseteq MadeBy(t)
  <2>1. FALSE \in BOOLEAN
    OBVIOUS
  <2>2. /\ Copies(t, wIn, "primary", r.er) \subseteq MadeBy(t)
        /\ Copies(t, subIn, "subscribed", FALSE) \subseteq MadeBy(t)
        /\ Copies(t, obsIn, "cc", FALSE) \subseteq MadeBy(t)
    <3>. HIDE DEF wIn, subIn, obsIn
    <3>. QED
      BY <1>2, <1>3, <2>1, CopiesType
  <2>. QED
    BY <2>2
<1>5. state \in ConvState
  <2>1. with \in ConvState
    BY <1>2, StateForType, AddParticipantsType DEF Role
  <2>2. named \in ConvState
    BY <2>1, AddParticipantsType DEF Role
  <2>. HIDE DEF named
  <2>. QED
    BY <2>2 DEF ConvState, Status
<1>6. /\ Deliver(envs) /\ Record(t, state) /\ SubmitDispatch(t, state, envs)
      /\ inFlight' = inFlight \cup Ask(t, asked)
      /\ deadlines' = WithDeadline(t, asked)
      /\ UNCHANGED <<lastInbound, life>>
  BY DEF BroadcastLocked
<1>. HIDE DEF envs, state, asked
<1>. QED
  BY <1>1, <1>3, <1>4, <1>5, <1>6, Sends

\* EmitLocked preserves the invariant.
LEMMA EmitLockedOK ==
  ASSUME IInv, NEW t \in Call, EmitLocked(t)
  PROVE  IInv'
<1>. DEFINE r     == req[t]
            to    == {i \in {r.tgt} \ {None} : Room(i)}
            subIn == {b \in r.subs \ {r.tgt} : Room(b)}
            obsIn == {b \in Observers \ ({r.tgt} \cup r.subs) : Room(b)}
            envs  == UNION {Copies(t, to, "primary", FALSE),
                            Copies(t, subIn, "subscribed", FALSE),
                            Copies(t, obsIn, "cc", FALSE)}
            bot   == AddParticipants(StateFor(t), {r.src}, "cc")
            with  == AddParticipants(bot, to, "primary")
            state == AddParticipants(with, subIn \cup obsIn, "cc")
<1>1. pc[t] = "lock" /\ r.op = "emit"
  BY DEF EmitLocked, InLock
<1>2. /\ CallOK(t) /\ r \in RequestType /\ r.tgt \in Ids \cup {None}
      /\ res[t].conv \in ConvId
  BY <1>1 DEF IInv, CallsOK, CallOK, Started, InvolvesConv
<1>3. to \subseteq Ids /\ subIn \subseteq Ids /\ obsIn \subseteq Ids
  BY <1>2, DispatcherAssumption DEF RequestType
<1>4. envs \subseteq MadeBy(t)
  <2>1. FALSE \in BOOLEAN
    OBVIOUS
  <2>2. /\ Copies(t, to, "primary", FALSE) \subseteq MadeBy(t)
        /\ Copies(t, subIn, "subscribed", FALSE) \subseteq MadeBy(t)
        /\ Copies(t, obsIn, "cc", FALSE) \subseteq MadeBy(t)
    <3>. HIDE DEF to, subIn, obsIn
    <3>. QED
      BY <1>2, <1>3, <2>1, CopiesType
  <2>. QED
    BY <2>2
<1>5. state \in ConvState
  BY <1>2, StateForType, AddParticipantsType DEF Role
<1>6. /\ Deliver(envs) /\ Record(t, state) /\ SubmitDispatch(t, state, envs)
      /\ inFlight' \subseteq inFlight \cup Ask(t, {})
      /\ deadlines' = deadlines
      /\ UNCHANGED <<lastInbound, life>>
  BY DEF EmitLocked, flights
<1>. HIDE DEF envs, state
<1>. QED
  BY <1>1, <1>4, <1>5, <1>6, Sends

-------------------------------------------------------------------------------
(***************************************************************************)
(* The other handlers under the lock.                                      *)
(***************************************************************************)
\* a step that moves mail and settles results, but learns nothing of commands
LEMMA MailStep ==
  ASSUME IInv, TasksOK', Progress, CallsOK',
         queues' \in [Ids -> SUBSET Envelope],
         waiters' \in [Ids -> SUBSET Call],
         lastInbound' \in [Ids -> Inbound \cup {None}],
         inFlight' \subseteq inFlight, deadlines' \subseteq deadlines,
         wq' \in Seq(Txn), WritesOK',
         UNCHANGED <<convs, rows, drained, dbConv, life>>
  PROVE  IInv'
<1>1. TypeOK'
  BY DEF IInv, TypeOK, TasksOK, convs, life
<1>2. KnownOK' /\ RowsOK' /\ EdgesOK'
  BY KnowledgeKept DEF convs
<1>. QED
  BY <1>1, <1>2 DEF IInv

\* A step that submits no transaction keeps the write queue sound.
LEMMA NothingWritten ==
  ASSUME IInv, Progress, UNCHANGED wq
  PROVE  wq' \in Seq(Txn) /\ WritesOK'
BY KnowledgeKept DEF IInv, TypeOK

\* So does one that submits marks or a status and awaits it without the lock.
LEMMA LeavesToWrite ==
  ASSUME IInv, NEW t \in Call, HasLock(t), pc[t] # "idle",
         NEW x \in Txn, x.by = t, x.envs = {}, LeaveToWrite(t, x)
  PROVE  TasksOK' /\ Progress /\ CallsOK' /\ wq' \in Seq(Txn) /\ WritesOK'
<1>1. TasksOK' /\ Progress /\ CallsOK'
  BY Leaves DEF LeaveToWrite
<1>. QED
  BY <1>1, SubmitsWrite DEF LeaveToWrite, Started

\* The marks of a flush or a cancel are a transaction.
LEMMA MarksType ==
  ASSUME NEW t \in Call, NEW envs \in SUBSET Envelope
  PROVE  Marks(t, envs) \in Txn /\ Marks(t, envs).by = t /\ Marks(t, envs).envs = {}
<1>1. MarksOf(envs) \subseteq Call \X Ids \X Nat
  BY DEF MarksOf, Key, Envelope
<1>. QED
  BY <1>1 DEF Marks, Txn, Status

\* FlushLocked preserves the invariant.
LEMMA FlushLockedOK ==
  ASSUME IInv, NEW t \in Call, FlushLocked(t)
  PROVE  IInv'
<1>. DEFINE i     == req[t].src
            taken == {e \in queues[i] : Matches(req[t], e)}
            prim  == {e \in taken : e.as = "primary"}
<1>1. HasLock(t) /\ pc[t] # "idle" /\ i \in Ids
  BY DEF FlushLocked, InLock, IInv, CallsOK, CallOK, Started, WellFormed
<1>2. taken \subseteq Envelope
  BY <1>1 DEF IInv, TypeOK
<1>3. queues' \in [Ids -> SUBSET Envelope]
  BY <1>1 DEF FlushLocked, Kept, IInv, TypeOK
<1>4. lastInbound' \in [Ids -> Inbound \cup {None}]
  <2>1. CASE lastInbound' = lastInbound
    BY <2>1 DEF IInv, TypeOK
  <2>2. ASSUME NEW e \in Newest(prim),
               lastInbound' = [lastInbound EXCEPT ![i] = AsInbound(e)]
        PROVE  lastInbound' \in [Ids -> Inbound \cup {None}]
    <3>1. e \in Envelope
      BY <1>2 DEF Newest
    <3>2. AsInbound(e) \in Inbound
      BY <3>1 DEF AsInbound, Inbound, Envelope
    <3>. QED
      BY <1>1, <2>2, <3>2 DEF IInv, TypeOK
  <2>. QED
    BY <2>1, <2>2 DEF FlushLocked
<1>5. TasksOK' /\ Progress /\ CallsOK' /\ wq' \in Seq(Txn) /\ WritesOK'
  <2>1. CASE Leave(t, "done") /\ UNCHANGED wq
    BY <1>1, <2>1, Leaves, NothingWritten DEF Finished
  <2>2. CASE LeaveToWrite(t, Marks(t, taken))
    BY <1>1, <1>2, <2>2, MarksType, LeavesToWrite
  <2>. QED
    BY <2>1, <2>2 DEF FlushLocked
<1>6. /\ UNCHANGED <<convs, rows, drained, dbConv, life>>
      /\ waiters' \in [Ids -> SUBSET Call]
      /\ inFlight' = inFlight /\ deadlines' = deadlines
  BY DEF FlushLocked, flights, IInv, TypeOK
<1>. QED
  BY <1>3, <1>4, <1>5, <1>6, MailStep

\* CancelLocked preserves the invariant.
LEMMA CancelLockedOK ==
  ASSUME IInv, NEW t \in Call, CancelLocked(t)
  PROVE  IInv'
<1>. DEFINE edges == {x \in inFlight : x.from = req[t].src /\ x.cmd = req[t].irt}
            asked == {x.to : x \in edges}
            back  == {e \in UNION {queues[i] : i \in asked} :
                        e.cmd = req[t].irt /\ ~IsNotice(e)}
<1>1. HasLock(t) /\ pc[t] # "idle"
  BY DEF CancelLocked, InLock
<1>2. back \subseteq Envelope
  BY DEF IInv, TypeOK, Edge
<1>3. TasksOK' /\ Progress /\ CallsOK' /\ wq' \in Seq(Txn) /\ WritesOK'
  <2>1. CASE Leave(t, "done") /\ UNCHANGED wq
    BY <1>1, <2>1, Leaves, NothingWritten DEF Finished
  <2>2. CASE LeaveToWrite(t, Marks(t, back))
    BY <1>1, <1>2, <2>2, MarksType, LeavesToWrite
  <2>. QED
    BY <2>1, <2>2 DEF CancelLocked
<1>4. /\ queues' = [i \in Ids |-> queues[i] \ back]
      /\ inFlight' = inFlight \ edges
      /\ deadlines' = deadlines \ {req[t].irt}
      /\ UNCHANGED <<waiters, lastInbound, convs, rows, drained, dbConv, life>>
  BY DEF CancelLocked
<1>. HIDE DEF back, edges
<1>5. /\ queues' \in [Ids -> SUBSET Envelope]
      /\ waiters' \in [Ids -> SUBSET Call]
      /\ lastInbound' \in [Ids -> Inbound \cup {None}]
  BY <1>4 DEF IInv, TypeOK
<1>. QED
  BY <1>3, <1>4, <1>5, MailStep

\* NotifyLocked preserves the invariant.
LEMMA NotifyLockedOK ==
  ASSUME IInv, NEW t \in Call, NotifyLocked(t)
  PROVE  IInv'
<1>. DEFINE e == Notice(t, req[t].tgt, None, None, None)
<1>1. HasLock(t) /\ pc[t] # "idle" /\ req[t].tgt \in Ids
  BY DEF NotifyLocked, InLock, IInv, CallsOK, CallOK, Started, WellFormed
<1>2. {e} \subseteq Envelope
  BY <1>1 DEF Notice, Envelope, Sender, MaybeCall
<1>3. Deliver({e}) /\ Leave(t, "done") /\ "done" \in Finished
  BY DEF NotifyLocked, Finished
<1>. HIDE DEF e
<1>4. queues' \in [Ids -> SUBSET Envelope] /\ waiters' \in [Ids -> SUBSET Call]
  BY <1>2, <1>3, DeliverType
<1>5. TasksOK' /\ Progress /\ CallsOK'
  BY <1>1, <1>3, Leaves
<1>6. /\ UNCHANGED <<lastInbound, convs, wq, rows, drained, dbConv, life>>
      /\ inFlight' = inFlight /\ deadlines' = deadlines
  BY DEF NotifyLocked, flights, disk
<1>7. lastInbound' \in [Ids -> Inbound \cup {None}]
  BY <1>6 DEF IInv, TypeOK
<1>. QED
  BY <1>4, <1>5, <1>6, <1>7, NothingWritten, MailStep

\* a wait takes its place in the line for the lock again
LEMMA Reports ==
  ASSUME IInv, NEW t \in Call, HasLock(t), pc[t] # "idle",
         pc' = [pc EXCEPT ![t] = "report"], Reacquire(t), UNCHANGED <<req, res>>
  PROVE  TasksOK' /\ Progress /\ CallsOK'
<1>1. MovesOn
  BY DEF MovesOn, IInv, TypeOK
<1>2. TasksOK'
  BY LockType, MaxCallsAssumption
  DEF TasksOK, Reacquire, HasLock, Waiting, IInv, TypeOK, Call
<1>. QED
  BY <1>1, <1>2, CallsMoveOn

\* WaitLocked preserves the invariant.
LEMMA WaitLockedOK ==
  ASSUME IInv, NEW t \in Call, WaitLocked(t)
  PROVE  IInv'
<1>1. HasLock(t) /\ pc[t] # "idle"
  BY DEF WaitLocked, InLock
<1>2. TasksOK' /\ Progress /\ CallsOK'
  BY <1>1, Leaves, Reports DEF WaitLocked
<1>3. waiters' \in [Ids -> SUBSET Call]
  <2>1. waiters \in [Ids -> SUBSET Call]
    BY DEF IInv, TypeOK
  <2>2. waiters' = waiters \/ \E i : waiters' = [waiters EXCEPT ![i] = @ \cup {t}]
    BY DEF WaitLocked
  <2>. QED
    BY <2>1, <2>2
<1>4. /\ UNCHANGED <<queues, lastInbound, convs, wq, rows, drained, dbConv, life>>
      /\ inFlight' = inFlight /\ deadlines' = deadlines
  BY DEF WaitLocked, flights, disk
<1>5. /\ queues' \in [Ids -> SUBSET Envelope]
      /\ lastInbound' \in [Ids -> Inbound \cup {None}]
  BY <1>4 DEF IInv, TypeOK
<1>. QED
  BY <1>2, <1>3, <1>4, <1>5, NothingWritten, MailStep

\* TimedOutLocked preserves the invariant.
LEMMA TimedOutLockedOK ==
  ASSUME IInv, NEW t \in Call, TimedOutLocked(t)
  PROVE  IInv'
<1>1. TasksOK' /\ Progress /\ CallsOK'
  BY Reports DEF TimedOutLocked
<1>2. waiters' \in [Ids -> SUBSET Call]
  BY DEF TimedOutLocked, IInv, TypeOK
<1>3. /\ UNCHANGED <<queues, lastInbound, convs, wq, rows, drained, dbConv, life>>
      /\ inFlight' = inFlight /\ deadlines' = deadlines
  BY DEF TimedOutLocked, flights, disk
<1>4. /\ queues' \in [Ids -> SUBSET Envelope]
      /\ lastInbound' \in [Ids -> Inbound \cup {None}]
  BY <1>3 DEF IInv, TypeOK
<1>. QED
  BY <1>1, <1>2, <1>3, <1>4, NothingWritten, MailStep

\* ShutdownLocked preserves the invariant.
LEMMA ShutdownLockedOK ==
  ASSUME IInv, NEW t \in Call, ShutdownLocked(t)
  PROVE  IInv'
<1>1. pc[t] = "lock" /\ lockQ # <<>> /\ UNCHANGED <<req, res>>
  BY DEF ShutdownLocked, InLock, HasLock
<1>2. \A u \in Call : \/ pc'[u] = pc[u]
                      \/ pc'[u] \in {"done", "refused"} /\ pc[u] # "idle"
  BY <1>1 DEF ShutdownLocked
<1>3. Progress /\ CallsOK'
  <2>1. MovesOn
    BY <1>2 DEF MovesOn
  <2>. QED
    BY <1>1, <2>1, CallsMoveOn
<1>4. TasksOK'
  <2>1. pc' \in [Call -> Finished \cup Waiting \cup {"idle"}]
    BY <1>2 DEF ShutdownLocked, Finished, IInv, TypeOK
  <2>2. lockQ' \in Seq(Call) /\ running' \in 0..MaxCalls
    BY <1>1, LockType, MaxCallsAssumption DEF ShutdownLocked
  <2>. QED
    BY <1>1, <2>1, <2>2 DEF TasksOK, IInv, TypeOK
<1>5. /\ UNCHANGED <<queues, lastInbound, convs, wq, rows, drained, dbConv, life>>
      /\ inFlight' = inFlight /\ deadlines' = deadlines
  BY DEF ShutdownLocked, flights, disk
<1>6. /\ queues' \in [Ids -> SUBSET Envelope]
      /\ lastInbound' \in [Ids -> Inbound \cup {None}]
      /\ waiters' \in [Ids -> SUBSET Call]
  BY <1>5 DEF ShutdownLocked, IInv, TypeOK
<1>. QED
  BY <1>3, <1>4, <1>5, <1>6, NothingWritten, MailStep

\* a step that changes conversations, but learns nothing of commands
LEMMA ConvStep ==
  ASSUME IInv, TasksOK', Progress, CallsOK',
         conv' \in [ConvId -> ConvState],
         wq' \in Seq(Txn), WritesOK',
         UNCHANGED <<mail, flights, convOf, rows, drained, dbConv, life>>
  PROVE  IInv'
<1>1. TypeOK'
  BY DEF IInv, TypeOK, TasksOK, mail, flights, life
<1>2. KnownOK' /\ RowsOK' /\ EdgesOK'
  BY KnowledgeKept DEF flights
<1>. QED
  BY <1>1, <1>2 DEF IInv

\* CloseThreadLocked preserves the invariant.
LEMMA CloseThreadLockedOK ==
  ASSUME IInv, NEW t \in Call, CloseThreadLocked(t)
  PROVE  IInv'
<1>. DEFINE c == res[t].conv
<1>1. /\ HasLock(t) /\ pc[t] = "lock" /\ req[t].op = "close_thread"
      /\ Leave(t, "done") /\ "done" \in Finished
  BY DEF CloseThreadLocked, InLock, Finished
<1>2. c \in ConvId /\ req[t].src \in Ids
  BY <1>1 DEF IInv, CallsOK, CallOK, Started, WellFormed, InvolvesConv
<1>3. PartyCloses(conv[c], req[t].src) \in ConvState
  BY <1>2, PartyClosesType DEF IInv, TypeOK
<1>4. conv' \in [ConvId -> ConvState]
  BY <1>2, <1>3 DEF CloseThreadLocked, IInv, TypeOK
<1>5. TasksOK' /\ Progress /\ CallsOK'
  BY <1>1, Leaves
<1>. QED
  BY <1>4, <1>5, NothingWritten, ConvStep DEF CloseThreadLocked, disk

\* OperatorCloseLocked preserves the invariant.
LEMMA OperatorCloseLockedOK ==
  ASSUME IInv, NEW t \in Call, OperatorCloseLocked(t)
  PROVE  IInv'
<1>. DEFINE c == res[t].conv
            x == [by |-> t, kind |-> "status", conv |-> c, isNew |-> FALSE,
                  status |-> "closed", envs |-> {}, marks |-> {}]
<1>1. /\ HasLock(t) /\ pc[t] = "lock" /\ req[t].op = "operator_close"
      /\ LeaveToWrite(t, x)
  BY DEF OperatorCloseLocked, InLock
<1>2. c \in ConvId /\ req[t].src \in Ids
  BY <1>1 DEF IInv, CallsOK, CallOK, Started, WellFormed, InvolvesConv
<1>3. x \in Txn /\ x.by = t /\ x.envs = {}
  BY <1>2 DEF Txn, Status
<1>4. conv' \in [ConvId -> ConvState]
  <2>. DEFINE s == [conv[c] EXCEPT !.status = "closed",
                                   !.closedBy = @ \cup {req[t].src}]
  <2>1. s \in ConvState
    <3>1. conv[c] \in ConvState
      BY <1>2 DEF IInv, TypeOK
    <3>. QED
      BY <1>2, <3>1 DEF ConvState, Status
  <2>2. conv' \in {conv, [conv EXCEPT ![c] = s]}
    BY <1>2 DEF OperatorCloseLocked, IInv, TypeOK
  <2>. HIDE DEF s
  <2>. QED
    BY <1>2, <2>1, <2>2 DEF IInv, TypeOK
<1>. HIDE DEF x
<1>5. TasksOK' /\ Progress /\ CallsOK' /\ wq' \in Seq(Txn) /\ WritesOK'
  BY <1>1, <1>3, LeavesToWrite
<1>. QED
  BY <1>4, <1>5, ConvStep DEF OperatorCloseLocked

-------------------------------------------------------------------------------
(***************************************************************************)
(* The write worker and the background events.                             *)
(***************************************************************************)
LEMMA AnswersWaiter ==
  ASSUME IInv, wq # <<>>, NEW ok \in BOOLEAN, Answer(Head(wq), ok),
         UNCHANGED <<req, res, running, lockQ>>
  PROVE  TasksOK' /\ Progress /\ CallsOK'
<1>. DEFINE x == Head(wq)
<1>1. x \in Txn /\ Started(x.by)
  BY TailElements DEF IInv, TypeOK, WritesOK
<1>2. PICK how \in {"written", "unwritten", "done", "failed"} :
        pc' = [pc EXCEPT ![x.by] = how]
  BY <1>1 DEF Answer, Txn
<1>3. MovesOn
  BY <1>1, <1>2 DEF MovesOn, Started, Txn, IInv, TypeOK
<1>4. TasksOK'
  BY <1>1, <1>2 DEF TasksOK, Finished, Waiting, Txn, IInv, TypeOK
<1>. QED
  BY <1>3, <1>4, CallsMoveOn

\* The write queue stays sound when its first transaction is taken.
LEMMA QueueShrinks ==
  ASSUME IInv, Progress, wq # <<>>, wq' = Tail(wq)
  PROVE  wq' \in Seq(Txn) /\ WritesOK'
<1>1. /\ wq' \in Seq(Txn)
      /\ \A k \in DOMAIN wq' : \E j \in DOMAIN wq : wq'[k] = wq[j]
  BY TailElements DEF IInv, TypeOK
<1>2. \A j \in DOMAIN wq : wq[j] \in Txn
  BY DEF IInv, TypeOK
<1>. QED
  BY <1>1, <1>2, SenderKept DEF IInv, WritesOK, Txn, Progress, Started

\* WriteError preserves the invariant.
LEMMA WriteErrorOK ==
  ASSUME IInv, WriteError
  PROVE  IInv'
<1>1. TasksOK' /\ Progress /\ CallsOK'
  BY AnswersWaiter DEF WriteError
<1>2. wq' \in Seq(Txn) /\ WritesOK'
  BY <1>1, QueueShrinks DEF WriteError
<1>. QED
  BY <1>1, <1>2, ConvStep DEF WriteError, convs, IInv, TypeOK

\* Commit preserves the invariant.
LEMMA CommitOK ==
  ASSUME IInv, Commit
  PROVE  IInv'
<1>. DEFINE x == Head(wq)
<1>1. wq # <<>> /\ Answer(x, Applied(x))
  BY DEF Commit
<1>2. x \in Txn /\ \A e \in x.envs : SentByItsCall(e)
  BY <1>1, TailElements DEF IInv, TypeOK, WritesOK
<1>3. Applied(x) \in BOOLEAN
  BY DEF Applied
<1>. HIDE DEF x
<1>4. TasksOK' /\ Progress /\ CallsOK'
  BY <1>1, <1>3, AnswersWaiter DEF Commit, x
<1>5. wq' \in Seq(Txn) /\ WritesOK'
  BY <1>4, QueueShrinks DEF Commit
<1>6. rows' \subseteq rows \cup x.envs
  BY DEF Commit, x
<1>7. x.envs \subseteq Envelope /\ x.marks \subseteq Call \X Ids \X Nat /\ x.status \in Status
  BY <1>2 DEF Txn
<1>8. rows' \subseteq Envelope /\ drained' \subseteq Call \X Ids \X Nat
  BY <1>6, <1>7 DEF Commit, x, IInv, TypeOK
<1>9. dbConv' \in [ConvId -> Status]
  BY <1>7 DEF Commit, x, IInv, TypeOK
<1>10. TypeOK'
  BY <1>4, <1>5, <1>8, <1>9 DEF IInv, TypeOK, TasksOK, Commit, mail, flights, convs, life
<1>11. RowsOK'
  BY <1>2, <1>4, <1>6, <1>7, SenderKept DEF IInv, TypeOK, RowsOK
<1>12. KnownOK' /\ EdgesOK'
  BY <1>4, KnowledgeKept DEF Commit, convs, flights
<1>. QED
  BY <1>4, <1>5, <1>10, <1>11, <1>12 DEF IInv

\* a background event leaves every call where it is
LEMMA CallsStay ==
  ASSUME IInv, UNCHANGED tasks
  PROVE  TasksOK' /\ Progress /\ CallsOK'
<1>1. MovesOn /\ UNCHANGED <<req, res>>
  BY DEF MovesOn, tasks
<1>. QED
  BY <1>1, CallsMoveOn DEF TasksOK, tasks, IInv, TypeOK

\* the sweep speaks up after some call has started
LEMMA LastStartedType ==
  ASSUME NEW c \in Call, Started(c)
  PROVE  LastStarted \in Call
<1>1. IsFiniteSet(Call) /\ Cardinality(Call) = MaxCalls
  BY FS_Interval, MaxCallsAssumption DEF Call
<1>2. /\ Call \ Idle \subseteq Call /\ c \in Call \ Idle
  BY DEF Idle, Started
<1>3. IsFiniteSet(Call \ Idle) /\ Cardinality(Call \ Idle) <= MaxCalls
  BY <1>1, <1>2, FS_Subset
<1>4. Cardinality(Call \ Idle) \in Nat /\ Cardinality(Call \ Idle) # 0
  BY <1>2, <1>3, FS_CardinalityType, FS_EmptySet
<1>. QED
  BY <1>3, <1>4, MaxCallsAssumption DEF LastStarted, Call

\* ExpireDeadlines preserves the invariant.
LEMMA ExpireDeadlinesOK ==
  ASSUME IInv, ExpireDeadlines
  PROVE  IInv'
<1>1. PICK due \in SUBSET deadlines :
        LET late == {x \in inFlight : x.cmd \in due}
            envs == {TimeoutNotice(x) : x \in late}
        IN  Deliver(envs) /\ inFlight' = inFlight \ late /\ deadlines' = deadlines \ due
  BY DEF ExpireDeadlines
<1>. DEFINE late == {x \in inFlight : x.cmd \in due}
            envs == {TimeoutNotice(x) : x \in late}
<1>2. ASSUME NEW x \in late PROVE TimeoutNotice(x) \in Envelope
  <2>1. x \in Edge /\ Started(x.cmd)
    BY DEF IInv, TypeOK, EdgesOK
  <2>2. LastStarted \in Call
    BY <2>1, LastStartedType DEF Edge
  <2>3. convOf[x.cmd] \in ConvId \cup {None}
    BY <2>1 DEF IInv, TypeOK, Edge
  <2>. QED
    BY <2>1, <2>2, <2>3 DEF TimeoutNotice, Notice, Envelope, Sender, Edge, MaybeCall
<1>3. envs \subseteq Envelope
  BY <1>2
<1>. HIDE DEF envs, late
<1>4. queues' \in [Ids -> SUBSET Envelope] /\ waiters' \in [Ids -> SUBSET Call]
  BY <1>1, <1>3, DeliverType DEF envs, late
<1>5. TasksOK' /\ Progress /\ CallsOK'
  BY CallsStay DEF ExpireDeadlines
<1>6. inFlight' \subseteq inFlight /\ deadlines' \subseteq deadlines
  BY <1>1
<1>7. lastInbound' \in [Ids -> Inbound \cup {None}]
  BY DEF ExpireDeadlines, IInv, TypeOK
<1>. QED
  BY <1>4, <1>5, <1>6, <1>7, NothingWritten, MailStep DEF ExpireDeadlines, disk

\* CloseTTL preserves the invariant.
LEMMA CloseTTLOK ==
  ASSUME IInv, CloseTTL
  PROVE  IInv'
<1>1. TasksOK' /\ Progress /\ CallsOK'
  BY CallsStay DEF CloseTTL
<1>2. PICK old :
        /\ conv' = [c \in ConvId |->
             IF c \in old /\ conv[c].status = "half_closed"
               THEN [conv[c] EXCEPT !.status = "closed"] ELSE conv[c]]
        /\ dbConv' = [c \in ConvId |->
             IF c \in old /\ dbConv[c] = "half_closed" THEN "closed" ELSE dbConv[c]]
  BY DEF CloseTTL
<1>3. conv' \in [ConvId -> ConvState]
  <2>1. \A c \in ConvId : [conv[c] EXCEPT !.status = "closed"] \in ConvState
    BY DEF IInv, TypeOK, ConvState, Status
  <2>. QED
    BY <1>2, <2>1 DEF IInv, TypeOK
<1>4. dbConv' \in [ConvId -> Status]
  BY <1>2 DEF IInv, TypeOK, Status
<1>5. UNCHANGED <<mail, flights, convOf, wq, rows, drained, life>>
  BY DEF CloseTTL
<1>6. TypeOK'
  BY <1>1, <1>3, <1>4, <1>5 DEF IInv, TypeOK, TasksOK, mail, flights, life
<1>. QED
  BY <1>1, <1>5, <1>6, KnowledgeKept DEF IInv, flights

\* MessageGC preserves the invariant.
LEMMA MessageGCOK ==
  ASSUME IInv, MessageGC
  PROVE  IInv'
<1>1. TasksOK' /\ Progress /\ CallsOK'
  BY CallsStay DEF MessageGC
<1>2. PICK old :
        /\ rows' = {e \in rows : e.conv \notin old}
        /\ conv' = [c \in ConvId |-> IF c \in old THEN Absent ELSE conv[c]]
        /\ convOf' = [t \in Call |-> IF convOf[t] \in old THEN None ELSE convOf[t]]
  BY DEF MessageGC
<1>3. UNCHANGED <<mail, flights, wq, drained, dbConv, life>>
  BY DEF MessageGC
<1>4. TypeOK'
  <2>1. conv' \in [ConvId -> ConvState]
    BY <1>2, StateTypes DEF IInv, TypeOK
  <2>2. convOf' \in [Call -> ConvId \cup {None}] /\ rows' \subseteq Envelope
    BY <1>2 DEF IInv, TypeOK
  <2>. QED
    BY <1>1, <1>3, <2>1, <2>2 DEF IInv, TypeOK, TasksOK, mail, flights, life
<1>5. KnownOK'
  BY <1>1, <1>2 DEF IInv, TypeOK, KnownOK, Progress, Started
<1>6. RowsOK' /\ WritesOK' /\ EdgesOK'
  BY <1>1, <1>2, <1>3, KnowledgeKept DEF flights
<1>. QED
  BY <1>1, <1>4, <1>5, <1>6 DEF IInv

\* what comes back from the disk was sent by the calls it names
LEMMA ReloadOK ==
  ASSUME IInv, Progress, NEW back \in SUBSET Undrained, Reload(back)
  PROVE  /\ queues' \in [Ids -> SUBSET Envelope]
         /\ convOf' \in [Call -> ConvId \cup {None}]
         /\ deadlines' \subseteq Call /\ inFlight' \subseteq Edge
         /\ drained' \subseteq Call \X Ids \X Nat
         /\ KnownOK' /\ EdgesOK'
<1>1. back \subseteq Envelope /\ \A e \in back : SentByItsCall(e) /\ SentByItsCall(e)'
  BY SenderKept DEF Undrained, IInv, TypeOK, RowsOK
<1>2. queues' \in [Ids -> SUBSET Envelope]
  BY <1>1 DEF Reload
<1>3. ASSUME NEW t \in Call
      PROVE  /\ convOf'[t] \in ConvId \cup {None}
             /\ convOf'[t] # None => \E e \in back : e.cmd = t
  <2>1. CASE \E e \in back : e.cmd = t
    <3>1. (CHOOSE e \in back : e.cmd = t) \in back
      BY <2>1
    <3>. QED
      BY <1>1, <2>1, <3>1 DEF Reload, Envelope
  <2>2. CASE ~\E e \in back : e.cmd = t
    BY <2>2 DEF Reload
  <2>. QED
    BY <2>1, <2>2
<1>4. convOf' \in [Call -> ConvId \cup {None}]
  BY <1>3 DEF Reload
<1>5. deadlines' \subseteq Call
  BY <1>1 DEF Reload, Envelope
<1>6. \A x \in inFlight' : \E e \in back : x = [from |-> e.source, cmd |-> e.cmd, to |-> e.target]
  BY DEF Reload, RestoredEdges, EdgesOf
<1>7. inFlight' \subseteq Edge
  BY <1>1, <1>6 DEF Edge, Envelope, SentByItsCall
<1>8. drained' \subseteq Call \X Ids \X Nat
  <2>1. drained' = drained \cup MarksOf(Undrained \ back)
    BY DEF Reload
  <2>2. Undrained \ back \subseteq Envelope
    BY DEF Undrained, IInv, TypeOK
  <2>3. MarksOf(Undrained \ back) \subseteq Call \X Ids \X Nat
    BY <2>2 DEF MarksOf, Key, Envelope
  <2>. QED
    BY <2>1, <2>3 DEF IInv, TypeOK
<1>9. KnownOK'
  BY <1>1, <1>3 DEF KnownOK, SentByItsCall
<1>10. EdgesOK'
  BY <1>1, <1>6 DEF EdgesOK, SentByItsCall
<1>. QED
  BY <1>2, <1>4, <1>5, <1>7, <1>8, <1>9, <1>10

\* Restart preserves the invariant.
LEMMA RestartOK ==
  ASSUME IInv, Restart
  PROVE  IInv'
<1>1. /\ pc' = [t \in Call |-> IF pc[t] \in Waiting THEN "dead" ELSE pc[t]]
      /\ running' = 0 /\ lockQ' = <<>> /\ wq' = <<>>
      /\ UNCHANGED <<req, res, rows, dbConv>>
  BY DEF Restart
<1>2. TasksOK'
  BY <1>1, MaxCallsAssumption DEF TasksOK, Finished, IInv, TypeOK
<1>3. MovesOn
  BY <1>1 DEF MovesOn, Waiting
<1>4. Progress /\ CallsOK'
  BY <1>1, <1>3, CallsMoveOn
<1>5. PICK back \in SUBSET Undrained : Reload(back)
  BY DEF Restart, Restorable
<1>6. /\ queues' \in [Ids -> SUBSET Envelope]
      /\ convOf' \in [Call -> ConvId \cup {None}]
      /\ deadlines' \subseteq Call /\ inFlight' \subseteq Edge
      /\ drained' \subseteq Call \X Ids \X Nat
      /\ KnownOK' /\ EdgesOK'
  BY <1>4, <1>5, ReloadOK
<1>7. /\ waiters' \in [Ids -> SUBSET Call]
      /\ lastInbound' \in [Ids -> Inbound \cup {None}]
      /\ conv' \in [ConvId -> ConvState]
      /\ closed' \in BOOLEAN
      /\ epoch' \in 0..MaxRestarts
  <2>1. epoch' = epoch + 1 /\ epoch < MaxRestarts /\ epoch \in 0..MaxRestarts
    BY DEF Restart, IInv, TypeOK
  <2>2. epoch' \in 0..MaxRestarts
    BY <2>1, DispatcherAssumption
  <2>. QED
    BY <2>2, StateTypes DEF Restart
<1>8. TypeOK'
  BY <1>1, <1>2, <1>6, <1>7 DEF IInv, TypeOK, TasksOK
<1>9. RowsOK'
  BY <1>1, <1>4, KnowledgeKept
<1>10. WritesOK'
  BY <1>1 DEF WritesOK
<1>. QED
  BY <1>4, <1>6, <1>8, <1>9, <1>10 DEF IInv

-------------------------------------------------------------------------------
(***************************************************************************)
(* The invariant.                                                          *)
(***************************************************************************)
\* The broker starts in the invariant.
LEMMA InitIInv == Init => IInv
<1>. SUFFICES ASSUME Init PROVE IInv
  OBVIOUS
<1>1. TypeOK
  <2>1. TasksOK
    BY NoLocalType, MaxCallsAssumption DEF Init, TasksOK
  <2>2. 0 \in 0..MaxRestarts /\ wq \in Seq(Txn)
    BY DispatcherAssumption DEF Init
  <2>3. /\ conv \in [ConvId -> ConvState]
        /\ convOf \in [Call -> ConvId \cup {None}]
        /\ dbConv \in [ConvId -> Status]
    BY StateTypes DEF Init, Status
  <2>4. /\ queues \in [Ids -> SUBSET Envelope]
        /\ waiters \in [Ids -> SUBSET Call]
        /\ lastInbound \in [Ids -> Inbound \cup {None}]
    BY DEF Init
  <2>. QED
    BY <2>1, <2>2, <2>3, <2>4 DEF Init, TasksOK, TypeOK
<1>2. CallsOK
  BY NoLocalType DEF Init, CallsOK, ParentsOK, Started
<1>. QED
  BY <1>1, <1>2 DEF Init, IInv, KnownOK, RowsOK, WritesOK, EdgesOK

\* Every step of a started call preserves the invariant.
LEMMA StepOK ==
  ASSUME IInv, NEW t \in Call, Step(t)
  PROVE  IInv'
BY DispatchLockedOK, DispatchTurnedDownOK, BroadcastLockedOK, EmitLockedOK,
   TurnedDownOK, ResumeOK, FlushLockedOK, WaitLockedOK, WokenOK, TimedOutLockedOK,
   ReportOK, NotifyLockedOK, CancelLockedOK, ShutdownLockedOK, NextClosingOK,
   AllClosingsSentOK, CloseThreadLockedOK, OperatorCloseLockedOK
DEF Step

\* A stuttering step preserves the invariant.
LEMMA StutterOK ==
  ASSUME IInv, UNCHANGED vars
  PROVE  IInv'
<1>1. TasksOK' /\ Progress /\ CallsOK'
  BY CallsStay DEF vars
<1>2. UNCHANGED <<mail, flights, convs, disk, life>>
  BY DEF vars
<1>. QED
  BY <1>1, <1>2, TasksOnly

\* Every step of every handler, sweep and restart preserves it.
LEMMA NextIInv == IInv /\ [Next]_vars => IInv'
<1>. SUFFICES ASSUME IInv, [Next]_vars PROVE IInv'
  OBVIOUS
<1>1. CASE Enter
  BY <1>1, EnterOK
<1>2. CASE \E t \in Call : Step(t)
  BY <1>2, StepOK
<1>3. CASE \E t \in Call : TimeOut(t)
  BY <1>3, TimeOutOK
<1>4. CASE Commit
  BY <1>4, CommitOK
<1>5. CASE WriteError
  BY <1>5, WriteErrorOK
<1>6. CASE ExpireDeadlines
  BY <1>6, ExpireDeadlinesOK
<1>7. CASE CloseTTL
  BY <1>7, CloseTTLOK
<1>8. CASE MessageGC
  BY <1>8, MessageGCOK
<1>9. CASE Restart
  BY <1>9, RestartOK
<1>10. CASE Rest \/ UNCHANGED vars
  BY <1>10, StutterOK DEF Rest
<1>. QED
  BY <1>1, <1>2, <1>3, <1>4, <1>5, <1>6, <1>7, <1>8, <1>9, <1>10 DEF Next

\* In every state of every run the invariant holds.
THEOREM InvariantHolds == Spec => []IInv
BY InitIInv, NextIInv, PTL DEF Spec

\* Every variable of the broker holds what the code's data structures can hold,
\* for any instances, requests, comm-matrix, inbox limit and number of calls.
THEOREM TypeCorrect == Spec => []TypeOK
<1>1. IInv => TypeOK
  BY DEF IInv
<1>. QED
  BY <1>1, InvariantHolds, PTL
===============================================================================
