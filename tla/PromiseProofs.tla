------------------------------ MODULE PromiseProofs ------------------------------
(***************************************************************************)
(* What the broker promises about messages, conversations and the disk,    *)
(* proved from the invariants of DispatcherProofs and MailProofs.  Each    *)
(* part adds the invariant that its properties rest on; the theorem about  *)
(* that stands at the end of the part.                                     *)
(***************************************************************************)
EXTENDS MailProofs, FunctionTheorems

(***************************************************************************)
(* How calls move.  A call is past its sending once it has delivered what  *)
(* it had to deliver, or has ended without; nothing takes it back.         *)
(***************************************************************************)
PastStages == {"write", "written", "unwritten"} \cup Finished
Past(t) == pc[t] \in PastStages

\* a call goes on from where it is, with the arguments it has
Forth(u) == /\ Started(u) => pc'[u] # "idle" /\ req'[u] = req[u]
            /\ Past(u) => pc'[u] \in PastStages

\* Entering a call leaves every other call where it is.
LEMMA EnterGoesForth ==
  ASSUME IInv, Enter, NEW u \in Call
  PROVE  Forth(u)
<1>1. PICK t \in Call, r \in Requests : MayEnter(t) /\ EnterWith(t, r)
  BY DEF Enter
<1>2. pc[t] = "idle"
  BY <1>1, NotYetStarted
<1>3. \/ \E q : EndAtOnce(t, q, "refused")
      \/ \E q, local : GoForLock(t, q, local)
      \/ pc' = [pc EXCEPT ![t] = "loop"] /\ req' = [req EXCEPT ![t] = r]
  <2>1. CASE EnterReply(t, r)
    <3>. DEFINE d == ReplyAsDispatch(r)
    <3>1. \/ EndAtOnce(t, r, "refused") \/ EndAtOnce(t, d, "refused")
          \/ GoForLock(t, d, Start(t, d, 0))
      BY <2>1 DEF EnterReply
    <3>. HIDE DEF d
    <3>. QED
      BY <3>1
  <2>. QED
    BY <1>1, <2>1 DEF EnterWith, EnterDispatch, EnterBroadcast, EnterEmit,
       EnterMailbox, EnterCancel, EnterCloseThread, EnterOperatorClose, EnterShutdown
<1>4. /\ \A v \in Call \ {t} : pc'[v] = pc[v] /\ req'[v] = req[v]
      /\ pc'[t] # "idle"
  BY <1>3 DEF EndAtOnce, GoForLock, IInv, TypeOK
<1>. QED
  BY <1>2, <1>4 DEF Forth, Past, PastStages, Started, Finished

\* So does every step of a call, its own way aside.
LEMMA StepGoesForth ==
  ASSUME IInv, NEW t \in Call, Step(t), NEW u \in Call
  PROVE  Forth(u)
<1>1. CASE \E stage : /\ pc' = [pc EXCEPT ![t] = stage] /\ UNCHANGED req
                      /\ stage # "idle"
                      /\ Past(t) => stage \in PastStages
  BY <1>1 DEF Forth, Past, Started, IInv, TypeOK
<1>2. CASE DispatchLocked(t) \/ BroadcastLocked(t) \/ EmitLocked(t)
  <2>1. pc' = [pc EXCEPT ![t] = "write"] /\ UNCHANGED req
    BY <1>2 DEF DispatchLocked, BroadcastLocked, EmitLocked, SubmitDispatch
  <2>. QED
    BY <1>1, <2>1 DEF PastStages
<1>3. CASE DispatchTurnedDown(t) \/ Resume(t)
  <2>1. PICK how \in {"refused", "done", "failed"} : LeaveDispatch(t, how)
    BY <1>3 DEF DispatchTurnedDown, Resume
  <2>2. /\ UNCHANGED req
        /\ \A v \in Call : \/ pc'[v] = pc[v]
                           \/ pc'[v] \in {"refused", "done", "failed"} /\ pc[v] # "idle"
    <3>1. pc[t] # "idle"
      BY <1>3 DEF DispatchTurnedDown, InLock, Resume
    <3>2. res[t].parent # 0 => pc[res[t].parent] # "idle"
      BY ParentHasStarted
    <3>. QED
      BY <2>1, <3>1, <3>2 DEF LeaveDispatch, IInv, TypeOK
  <2>. QED
    BY <2>2 DEF Forth, Past, PastStages, Started, Finished
<1>4. CASE \E how \in {"done", "refused", "blocked", "mark"} : Leave(t, how) /\ pc[t] \in Asking
  BY <1>1, <1>4 DEF Leave, Past, PastStages, Asking, Finished
<1>5. CASE \/ TurnedDown(t) \/ FlushLocked(t) \/ Report(t) \/ NotifyLocked(t)
           \/ CancelLocked(t) \/ CloseThreadLocked(t) \/ OperatorCloseLocked(t)
  <2>1. pc[t] \in Asking
    BY <1>5 DEF TurnedDown, FlushLocked, Report, NotifyLocked, CancelLocked,
       CloseThreadLocked, OperatorCloseLocked, InLock, Asking
  <2>2. \E how \in {"done", "refused", "mark"} : Leave(t, how)
    BY <1>5 DEF TurnedDown, FlushLocked, Report, NotifyLocked, CancelLocked,
       CloseThreadLocked, OperatorCloseLocked, LeaveToWrite
  <2>. QED
    BY <1>4, <2>1, <2>2
<1>6. CASE WaitLocked(t)
  <2>1. pc[t] = "lock"
    BY <1>6 DEF WaitLocked, InLock
  <2>2. Leave(t, "blocked") \/ (pc' = [pc EXCEPT ![t] = "report"] /\ UNCHANGED req)
    BY <1>6 DEF WaitLocked
  <2>. QED
    BY <1>1, <1>4, <2>1, <2>2 DEF Asking, Past, PastStages, Finished
<1>7. CASE Woken(t) \/ TimedOutLocked(t) \/ AllClosingsSent(t)
  <2>1. /\ pc[t] \in {"blocked", "timedout", "loop"} /\ UNCHANGED req
        /\ \E stage \in {"report", "lock"} : pc' = [pc EXCEPT ![t] = stage]
    BY <1>7 DEF Woken, TimedOutLocked, AllClosingsSent
  <2>. QED
    BY <1>1, <2>1 DEF Past, PastStages, Finished
<1>8. CASE ShutdownLocked(t)
  <2>1. /\ UNCHANGED req /\ pc[t] # "idle"
        /\ \A v \in Call : \/ pc'[v] = pc[v]
                           \/ pc'[v] \in {"refused", "done"} /\ pc[v] # "idle"
    BY <1>8 DEF ShutdownLocked, InLock
  <2>. QED
    BY <2>1 DEF Forth, Past, PastStages, Started, Finished
<1>9. CASE NextClosing(t)
  <2>. DEFINE Closes(v, r) ==
                /\ IsNextCall(v) /\ req' = [req EXCEPT ![v] = r]
                /\ \/ pc' = [pc EXCEPT ![v] = "refused", ![t] = "failed"]
                   \/ pc' = [pc EXCEPT ![v] = "refused"]
                   \/ pc' = [pc EXCEPT ![v] = "lock"]
  <2>0. PICK v \in Call : \E r : Closes(v, r)
    BY <1>9 DEF NextClosing
  <2>1. PICK r : Closes(v, r)
    BY <2>0
  <2>2. pc[v] = "idle" /\ pc[t] = "loop"
    BY <1>9, <2>1 DEF IsNextCall, Idle, NextClosing
  <2>3. /\ \A w \in Call \ {v} : req'[w] = req[w]
        /\ pc'[v] # "idle" /\ pc'[t] \in {"loop", "failed"}
        /\ \A w \in Call \ {v, t} : pc'[w] = pc[w]
    BY <2>1, <2>2 DEF IInv, TypeOK
  <2>. QED
    BY <2>2, <2>3 DEF Forth, Past, PastStages, Started, Finished
<1>. QED
  BY <1>2, <1>3, <1>5, <1>6, <1>7, <1>8, <1>9 DEF Step

\* Every call goes forth in every step of the broker.
LEMMA GoesForth ==
  ASSUME IInv, [Next]_vars, NEW u \in Call
  PROVE  Forth(u)
<1>1. CASE Enter
  BY <1>1, EnterGoesForth
<1>2. CASE \E t \in Call : Step(t)
  BY <1>2, StepGoesForth
<1>3. CASE \E t \in Call : TimeOut(t)
  BY <1>3 DEF TimeOut, Forth, Past, PastStages, Started, Finished, IInv, TypeOK
<1>4. CASE Commit \/ WriteError
  <2>1. wq # <<>> /\ \E ok \in BOOLEAN : Answer(Head(wq), ok)
    BY <1>4 DEF Commit, WriteError, Applied
  <2>2. Head(wq) \in Txn /\ Head(wq).by \in Call /\ Started(Head(wq).by)
    BY <2>1, FirstWrite DEF IInv, WritesOK
  <2>3. UNCHANGED req /\ \A v \in Call :
          \/ pc'[v] = pc[v]
          \/ pc'[v] \in {"written", "unwritten", "done", "failed"} /\ pc[v] # "idle"
    BY <1>4, <2>1, <2>2 DEF Commit, WriteError, Answer, Txn, Started, IInv, TypeOK
  <2>. QED
    BY <2>3 DEF Forth, Past, PastStages, Started, Finished
<1>5. CASE ExpireDeadlines \/ CloseTTL \/ MessageGC \/ Rest \/ UNCHANGED vars
  BY <1>5 DEF ExpireDeadlines, CloseTTL, MessageGC, Rest, vars, tasks, Forth, Past, Started
<1>6. CASE Restart
  BY <1>6 DEF Restart, Forth, Past, PastStages, Started, Waiting, Finished
<1>. QED
  BY <1>1, <1>2, <1>3, <1>4, <1>5, <1>6 DEF Next

(***************************************************************************)
(* Who is in the lock, or in close_thread's loop: a call that was let in   *)
(* by the checks of its handler, or one that was there before and has kept *)
(* what it knew.                                                           *)
(***************************************************************************)

\* what the checks have established when they let call u in, in this step
LetIn(u) ==
  LET r == req'[u]
      l == res'[u]
  IN  /\ r.op = "dispatch" => ~DispatchRefused(r)
      /\ r.op \in SenderOps => l.isNew \/ conv[l.conv].status # "absent"
      /\ r.op = "close_thread" => conv[r.conv].role[r.src] # "none"
      /\ r.op \in {"close_thread", "operator_close"} =>
           /\ l.conv = r.conv
           /\ l.born = conv[r.conv].born
           /\ conv[r.conv].status \notin {"absent", "closed"}

KeepsKnowledge(u) == /\ pc[u] = pc'[u] \/ (pc[u] = "loop" /\ pc'[u] = "lock")
                     /\ req'[u] = req[u]
                     /\ res'[u].conv = res[u].conv
                     /\ res'[u].isNew = res[u].isNew
                     /\ res'[u].born = res[u].born

\* The conversation that resolve_conversation_id picks is new or in memory.
LEMMA ResolvedIsNewOrThere ==
  ASSUME NEW t, NEW r, NEW p
  PROVE  Start(t, r, p).isNew \/ conv[Start(t, r, p).conv].status # "absent"
<1>. DEFINE w == Resolve(t, r)
<1>1. w.isNew \/ conv[w.conv].status # "absent"
  BY DEF Resolve, ResolveConversationId, Resolution
<1>2. Start(t, r, p) = [NoLocal EXCEPT !.conv = w.conv, !.isNew = w.isNew, !.parent = p]
  BY DEF Start
<1>. HIDE DEF w
<1>3. Start(t, r, p).isNew = w.isNew /\ Start(t, r, p).conv = w.conv
  BY <1>2 DEF NoLocal
<1>. QED
  BY <1>1, <1>3

\* Enter lets a call into the lock or the loop only by the checks of its handler.
LEMMA EnterLetsIn ==
  ASSUME IInv, NEW t \in Call, pc[t] = "idle",
         NEW r \in RequestType, EnterWith(t, r), pc'[t] \in {"lock", "loop"}
  PROVE  LetIn(t)
<1>1. ASSUME NEW q, EndAtOnce(t, q, "refused") PROVE FALSE
  BY <1>1 DEF EndAtOnce, IInv, TypeOK
<1>2. \A q, local : GoForLock(t, q, local) => req'[t] = q /\ res'[t] = local
  BY DEF GoForLock, IInv, TypeOK
<1>3. CASE EnterDispatch(t, r)
  BY <1>1, <1>2, <1>3, ResolvedIsNewOrThere DEF EnterDispatch, LetIn, SenderOps
<1>4. CASE EnterReply(t, r)
  <2>. DEFINE d == ReplyAsDispatch(r)
  <2>1. GoForLock(t, d, Start(t, d, 0)) /\ ~DispatchRefused(d)
    BY <1>1, <1>4 DEF EnterReply
  <2>2. d.op = "dispatch"
    BY DEF ReplyAsDispatch, RequestType
  <2>. HIDE DEF d
  <2>3. req'[t] = d /\ res'[t] = Start(t, d, 0)
    BY <1>2, <2>1
  <2>. QED
    BY <2>1, <2>2, <2>3, ResolvedIsNewOrThere DEF LetIn, SenderOps
<1>5. CASE EnterBroadcast(t, r)
  BY <1>1, <1>2, <1>5, ResolvedIsNewOrThere DEF EnterBroadcast, LetIn, SenderOps
<1>6. CASE EnterEmit(t, r)
  <2>. DEFINE d == [r EXCEPT !.tgt = EmitTarget(r),
                             !.subs = IF r.tgt = None /\ r.irt = None
                                        THEN r.subs ELSE {}]
  <2>1. GoForLock(t, d, Start(t, r, 0)) /\ r.op = "emit"
    BY <1>1, <1>6 DEF EnterEmit
  <2>2. d.op = r.op
    BY DEF RequestType
  <2>. HIDE DEF d
  <2>. QED
    BY <1>2, <2>1, <2>2, ResolvedIsNewOrThere DEF LetIn, SenderOps
<1>7. CASE EnterMailbox(t, r) \/ EnterCancel(t, r) \/ EnterShutdown(t, r)
  <2>1. req'[t].op \in {"flush", "wait", "notify", "cancel", "shutdown"}
    BY <1>1, <1>2, <1>7 DEF EnterMailbox, EnterCancel, EnterShutdown
  <2>. QED
    BY <2>1 DEF LetIn, SenderOps
<1>8. CASE EnterCloseThread(t, r)
  <2>. DEFINE local == [NoLocal EXCEPT !.conv = r.conv, !.born = conv[r.conv].born,
                                       !.todo = OtherPrimaries(r.conv, r.src)]
  <2>1. /\ conv[r.conv].status \notin {"absent", "closed"}
        /\ conv[r.conv].role[r.src] # "none" /\ r.op = "close_thread"
        /\ req' = [req EXCEPT ![t] = r] /\ res' = [res EXCEPT ![t] = local]
    BY <1>1, <1>8 DEF EnterCloseThread
  <2>2. local.conv = r.conv /\ local.born = conv[r.conv].born
    BY DEF NoLocal
  <2>. HIDE DEF local
  <2>3. req'[t] = r /\ res'[t] = local
    BY <2>1 DEF IInv, TypeOK
  <2>. QED
    BY <2>1, <2>2, <2>3 DEF LetIn, SenderOps
<1>9. CASE EnterOperatorClose(t, r)
  <2>. DEFINE local == [NoLocal EXCEPT !.conv = r.conv, !.born = conv[r.conv].born]
  <2>1. /\ conv[r.conv].status \notin {"absent", "closed"} /\ r.op = "operator_close"
        /\ GoForLock(t, r, local)
    BY <1>1, <1>9 DEF EnterOperatorClose
  <2>2. local.conv = r.conv /\ local.born = conv[r.conv].born
    BY DEF NoLocal
  <2>. HIDE DEF local
  <2>. QED
    BY <1>2, <2>1, <2>2 DEF LetIn, SenderOps
<1>. QED
  BY <1>3, <1>4, <1>5, <1>6, <1>7, <1>8, <1>9 DEF EnterWith

\* So does close_thread, with its next dispatch.
LEMMA ClosingLetsIn ==
  ASSUME IInv, NEW t \in Call, NextClosing(t), NEW u \in Call, pc[u] = "idle",
         pc'[u] \in {"lock", "loop"}
  PROVE  LetIn(u)
<1>1. PICK to \in res[t].todo, v \in Call :
        LET r    == ClosingMessage(t, to)
            rest == [res EXCEPT ![t].todo = @ \ {to}]
        IN  /\ IsNextCall(v)
            /\ req' = [req EXCEPT ![v] = r]
            /\ \/ pc' = [pc EXCEPT ![v] = "refused", ![t] = "failed"]
               \/ pc' = [pc EXCEPT ![v] = "refused"]
               \/ /\ ~DispatchRefused(r)
                  /\ pc' = [pc EXCEPT ![v] = "lock"]
                  /\ res' = [rest EXCEPT ![v] = Start(v, r, t)]
  BY DEF NextClosing
<1>. DEFINE r == ClosingMessage(t, to)
            rest == [res EXCEPT ![t].todo = @ \ {to}]
<1>2. pc[t] = "loop" /\ r.op = "dispatch"
  BY DEF NextClosing, ClosingMessage
<1>3. DOMAIN rest = Call /\ rest = [w \in Call |-> rest[w]]
  BY DEF IInv, TypeOK
<1>. HIDE DEF r, rest
<1>4. /\ v = u /\ ~DispatchRefused(r) /\ req'[u] = r
      /\ res' = [rest EXCEPT ![u] = Start(u, r, t)]
  BY <1>1, <1>2 DEF r, rest, IInv, TypeOK
<1>5. res'[u] = Start(u, r, t)
  BY <1>3, <1>4
<1>. QED
  BY <1>2, <1>4, <1>5, ResolvedIsNewOrThere DEF LetIn, SenderOps

\* Calls start by being entered, or are the next dispatch of a close_thread.
LEMMA NewcomersEnter ==
  ASSUME IInv, [Next]_vars, NEW u \in Call, pc[u] = "idle", pc'[u] # "idle"
  PROVE  Enter \/ \E t \in Call : NextClosing(t)
<1>1. ASSUME NEW t \in Call, Step(t), ~NextClosing(t) PROVE FALSE
  <2>1. pc[t] # "idle"
    BY <1>1 DEF Step, DispatchLocked, DispatchTurnedDown, BroadcastLocked, EmitLocked,
       TurnedDown, Resume, FlushLocked, WaitLocked, Woken, TimedOutLocked, Report,
       NotifyLocked, CancelLocked, ShutdownLocked, AllClosingsSent,
       CloseThreadLocked, OperatorCloseLocked, InLock
  <2>2. \/ \E stage : pc' = [pc EXCEPT ![t] = stage]
        \/ \E how : LeaveDispatch(t, how)
        \/ ShutdownLocked(t)
    BY <1>1 DEF Step, DispatchLocked, DispatchTurnedDown, BroadcastLocked, EmitLocked,
       TurnedDown, Resume, FlushLocked, WaitLocked, Woken, TimedOutLocked, Report,
       NotifyLocked, CancelLocked, AllClosingsSent, CloseThreadLocked,
       OperatorCloseLocked, Leave, LeaveToWrite, SubmitDispatch
  <2>3. CASE \E stage : pc' = [pc EXCEPT ![t] = stage]
    BY <2>1, <2>3 DEF IInv, TypeOK
  <2>4. CASE \E how : LeaveDispatch(t, how)
    <3>1. res[t].parent # u
      BY ParentHasStarted, MaxCallsAssumption DEF Call
    <3>. QED
      BY <2>1, <2>4, <3>1 DEF LeaveDispatch, IInv, TypeOK
  <2>5. CASE ShutdownLocked(t)
    BY <2>1, <2>5 DEF ShutdownLocked
  <2>. QED
    BY <2>2, <2>3, <2>4, <2>5
<1>2. CASE \E t \in Call : TimeOut(t)
  BY <1>2 DEF TimeOut, IInv, TypeOK
<1>3. CASE Commit \/ WriteError
  <2>1. wq # <<>> /\ Started(Head(wq).by) /\ Head(wq).by \in Call
    BY <1>3, FirstWrite DEF Commit, WriteError, IInv, WritesOK
  <2>. QED
    BY <1>3, <2>1 DEF Commit, WriteError, Answer, Started, IInv, TypeOK
<1>4. CASE ExpireDeadlines \/ CloseTTL \/ MessageGC \/ Rest \/ UNCHANGED vars
  BY <1>4 DEF ExpireDeadlines, CloseTTL, MessageGC, Rest, vars, tasks
<1>5. CASE Restart
  <2>1. pc'[u] = IF pc[u] \in Waiting THEN "dead" ELSE pc[u]
    BY <1>5 DEF Restart
  <2>. QED
    BY <2>1 DEF Waiting
<1>. QED
  BY <1>1, <1>2, <1>3, <1>4, <1>5 DEF Next

\* Whoever starts in this step is let in by the checks of its handler.
LEMMA NewcomersAreLetIn ==
  ASSUME IInv, [Next]_vars, NEW u \in Call, pc[u] = "idle",
         pc'[u] \in {"lock", "loop"}
  PROVE  LetIn(u) /\ UNCHANGED <<mail, flights, convs, disk, epoch, hist>>
<1>1. CASE Enter
  <2>1. PICK t \in Call, r \in Requests : MayEnter(t) /\ EnterWith(t, r)
    BY <1>1 DEF Enter
  <2>2. /\ \A v \in Call \ {t} : pc'[v] = pc[v]
        /\ UNCHANGED <<mail, flights, convs, disk, epoch, hist>>
    BY <2>1 DEF EnterWith, EnterDispatch, EnterReply, EnterBroadcast,
       EnterEmit, EnterMailbox, EnterCancel, EnterCloseThread, EnterOperatorClose,
       EnterShutdown, EndAtOnce, GoForLock, life, IInv, TypeOK
  <2>3. u = t /\ r \in RequestType
    BY <2>2, RequestsOK
  <2>. QED
    BY <2>1, <2>2, <2>3, EnterLetsIn
<1>2. ASSUME NEW t \in Call, NextClosing(t)
      PROVE  LetIn(u) /\ UNCHANGED <<mail, flights, convs, disk, epoch, hist>>
  BY <1>2, ClosingLetsIn DEF NextClosing, life
<1>. QED
  BY <1>1, <1>2, NewcomersEnter


\* what the others may do to a call that has started
LetBe(u) == /\ res'[u] = res[u]
            /\ \/ pc'[u] = pc[u]
               \/ pc[u] = "loop" /\ pc'[u] = "failed"
               \/ pc[u] = "blocked" /\ pc'[u] = "refused"

\* A step of one call leaves the others where they are, but for the close_thread
\* a failed dispatch ends and the waits that close() ends.
LEMMA OthersStay ==
  ASSUME IInv, OrderInv, NEW t \in Call, Step(t),
         NEW u \in Call, u # t, Started(u)
  PROVE  LetBe(u)
<1>1. CASE ShutdownLocked(t)
  BY <1>1 DEF ShutdownLocked, LetBe
<1>2. CASE NextClosing(t)
  <2>1. PICK v \in Call, to \in res[t].todo :
          /\ IsNextCall(v)
          /\ \/ pc' = [pc EXCEPT ![v] = "refused", ![t] = "failed"]
             \/ pc' = [pc EXCEPT ![v] = "refused"]
             \/ pc' = [pc EXCEPT ![v] = "lock"]
          /\ \/ res' = [res EXCEPT ![t].todo = @ \ {to}]
             \/ res' = [[res EXCEPT ![t].todo = @ \ {to}]
                          EXCEPT ![v] = Start(v, ClosingMessage(t, to), t)]
    BY <1>2 DEF NextClosing
  <2>2. u # v
    BY <2>1 DEF IsNextCall, Idle, Started
  <2>. QED
    BY <2>1, <2>2 DEF LetBe, IInv, TypeOK
<1>3. CASE DispatchTurnedDown(t) \/ Resume(t)
  <2>1. PICK how : LeaveDispatch(t, how)
    BY <1>3 DEF DispatchTurnedDown, Resume
  <2>2. pc[t] \in Active
    BY <1>3 DEF DispatchTurnedDown, Resume, InLock, Active
  <2>3. res[t].parent = u => pc[u] = "loop"
    BY <2>2, MaxCallsAssumption DEF OrderInv, ParentsWait, ChildOf, Call
  <2>. QED
    BY <2>1, <2>3 DEF LeaveDispatch, LetBe, IInv, TypeOK
<1>4. CASE ~(ShutdownLocked(t) \/ NextClosing(t) \/ DispatchTurnedDown(t) \/ Resume(t))
  <2>1. (\E stage : pc' = [pc EXCEPT ![t] = stage]) /\ UNCHANGED res
    BY <1>4 DEF Step, DispatchLocked, BroadcastLocked, EmitLocked, TurnedDown,
       FlushLocked, WaitLocked, Woken, TimedOutLocked, Report, NotifyLocked,
       CancelLocked, AllClosingsSent, CloseThreadLocked, OperatorCloseLocked, Leave,
       LeaveToWrite, SubmitDispatch
  <2>. QED
    BY <2>1 DEF LetBe, IInv, TypeOK
<1>. QED
  BY <1>1, <1>2, <1>3, <1>4

\* No background event touches a call that is in the lock or in the loop, but
\* the death of the process.
LEMMA EventsLetBe ==
  ASSUME IInv, OrderInv, [Next]_vars, \A t \in Call : ~Step(t),
         NEW u \in Call, pc[u] \in {"lock", "loop"}
  PROVE  Restart \/ (pc'[u] = pc[u] /\ res'[u] = res[u])
<1>1. CASE Enter
  <2>1. PICK t \in Call, r \in Requests : MayEnter(t) /\ EnterWith(t, r)
    BY <1>1 DEF Enter
  <2>2. u # t
    BY <2>1, NotYetStarted
  <2>. QED
    BY <2>1, <2>2 DEF EnterWith, EnterDispatch, EnterReply, EnterBroadcast,
       EnterEmit, EnterMailbox, EnterCancel, EnterCloseThread, EnterOperatorClose,
       EnterShutdown, EndAtOnce, GoForLock, IInv, TypeOK
<1>2. CASE \E t \in Call : TimeOut(t)
  BY <1>2 DEF TimeOut, IInv, TypeOK
<1>3. CASE Commit \/ WriteError
  <2>1. wq # <<>> /\ pc[Head(wq).by] \in {"write", "mark"} /\ Head(wq).by \in Call
    BY <1>3, FirstWrite DEF Commit, WriteError, OrderInv, WritesAwaited, AwaitedIn
  <2>. QED
    BY <1>3, <2>1 DEF Commit, WriteError, Answer, IInv, TypeOK
<1>4. CASE ExpireDeadlines \/ CloseTTL \/ MessageGC \/ Rest \/ UNCHANGED vars
  BY <1>4 DEF ExpireDeadlines, CloseTTL, MessageGC, Rest, vars, tasks
<1>. QED
  BY <1>1, <1>2, <1>3, <1>4 DEF Next

\* Whoever is in the lock or the loop after a step and had started before knows
\* what it knew.
LEMMA StayersKeepKnowledge ==
  ASSUME IInv, OrderInv, [Next]_vars, NEW u \in Call, pc[u] # "idle",
         pc'[u] \in {"lock", "loop"}
  PROVE  KeepsKnowledge(u)
<1>1. req'[u] = req[u]
  BY GoesForth DEF Forth, Started
<1>2. CASE Step(u)
  <2>1. CASE NextClosing(u)
    <3>1. PICK v \in Call, to \in res[u].todo :
            /\ IsNextCall(v)
            /\ \/ res' = [res EXCEPT ![u].todo = @ \ {to}]
               \/ res' = [[res EXCEPT ![u].todo = @ \ {to}]
                            EXCEPT ![v] = Start(v, ClosingMessage(u, to), u)]
            /\ \/ pc' = [pc EXCEPT ![v] = "refused", ![u] = "failed"]
               \/ pc' = [pc EXCEPT ![v] = "refused"]
               \/ pc' = [pc EXCEPT ![v] = "lock"]
      BY <2>1 DEF NextClosing
    <3>2. u # v
      BY <3>1 DEF IsNextCall, Idle
    <3>3. res'[u] = [res[u] EXCEPT !.todo = @ \ {to}] /\ pc'[u] \in {pc[u], "failed"}
      BY <3>1, <3>2 DEF IInv, TypeOK
    <3>4. res[u] \in Local
      BY DEF IInv, TypeOK
    <3>. QED
      BY <1>1, <3>3, <3>4 DEF KeepsKnowledge, Local
  <2>2. CASE AllClosingsSent(u)
    BY <1>1, <2>2 DEF AllClosingsSent, KeepsKnowledge, IInv, TypeOK
  <2>3. ASSUME ~NextClosing(u), ~AllClosingsSent(u) PROVE FALSE
    <3>1. \/ \E stage : pc' = [pc EXCEPT ![u] = stage] /\ stage \notin {"lock", "loop"}
          \/ (\E how \in Finished : LeaveDispatch(u, how)) /\ pc[u] \in Active
          \/ ShutdownLocked(u)
      BY <1>2, <2>3 DEF Step, DispatchLocked, DispatchTurnedDown, BroadcastLocked,
         EmitLocked, TurnedDown, Resume, FlushLocked, WaitLocked, Woken,
         TimedOutLocked, Report, NotifyLocked, CancelLocked, CloseThreadLocked,
         OperatorCloseLocked, Leave, LeaveToWrite, SubmitDispatch, Finished, Active,
         InLock
    <3>2. CASE (\E how \in Finished : LeaveDispatch(u, how)) /\ pc[u] \in Active
      <4>1. res[u].parent # u
        BY <3>2, MaxCallsAssumption DEF OrderInv, ParentsWait, ChildOf, Active, Call
      <4>. QED
        BY <3>2, <4>1 DEF LeaveDispatch, Finished, IInv, TypeOK
    <3>. QED
      BY <3>1, <3>2 DEF ShutdownLocked, IInv, TypeOK
  <2>. QED
    BY <2>1, <2>2, <2>3
<1>3. ASSUME NEW t \in Call, Step(t), t # u PROVE KeepsKnowledge(u)
  BY <1>1, <1>3, OthersStay DEF LetBe, KeepsKnowledge, Started
<1>4. ASSUME \A t \in Call : ~Step(t) PROVE KeepsKnowledge(u)
  <2>1. pc[u] \in {"lock", "loop"}
    <3>1. CASE \E t \in Call : TimeOut(t)
      BY <3>1 DEF TimeOut, IInv, TypeOK
    <3>2. CASE Enter
      BY <3>2 DEF Enter, MayEnter, IsNextCall, Idle, EnterWith, EnterDispatch,
         EnterReply, EnterBroadcast, EnterEmit, EnterMailbox, EnterCancel,
         EnterCloseThread, EnterOperatorClose, EnterShutdown, EndAtOnce, GoForLock,
         IInv, TypeOK
    <3>3. CASE Commit \/ WriteError
      <4>1. wq # <<>> /\ Head(wq) \in Txn
        BY <3>3, FirstWrite DEF Commit, WriteError
      <4>. QED
        BY <3>3, <4>1 DEF Commit, WriteError, Answer, Txn, IInv, TypeOK
    <3>4. CASE ExpireDeadlines \/ CloseTTL \/ MessageGC \/ Rest \/ UNCHANGED vars
      BY <3>4 DEF ExpireDeadlines, CloseTTL, MessageGC, Rest, vars, tasks
    <3>5. CASE Restart
      BY <3>5 DEF Restart, Waiting
    <3>. QED
      BY <1>4, <3>1, <3>2, <3>3, <3>4, <3>5 DEF Next
  <2>2. ~Restart
    BY <2>1 DEF Restart, Waiting
  <2>. QED
    BY <1>1, <1>4, <2>1, <2>2, EventsLetBe DEF KeepsKnowledge
<1>. QED
  BY <1>2, <1>3, <1>4

\* A call in the lock stays there until its own step takes it out, or the
\* process dies.
LEMMA LockIsLeftByOwnStep ==
  ASSUME IInv, OrderInv, [Next]_vars, NEW u \in Call, pc[u] = "lock"
  PROVE  pc'[u] = "lock" \/ Step(u) \/ Restart
BY OthersStay, EventsLetBe DEF LetBe, Started

-------------------------------------------------------------------------------
(***************************************************************************)
(* NoWaiterAfterClose: whoever set the closed flag is still on his way to  *)
(* the lock, or nobody waits any more; no wait begins in between.          *)
(***************************************************************************)
Closing(t) == pc[t] = "lock" /\ req[t].op = "shutdown"
Closers == closed => (\E t \in Call : Closing(t)) \/ \A i \in Ids : waiters[i] = {}

\* A wait begins only while the broker is open; other steps end waits.
LEMMA WaitsBeginOpen ==
  ASSUME IInv, [Next]_vars, closed, \A i \in Ids : waiters[i] = {}
  PROVE  \A i \in Ids : waiters'[i] = {}
<1>1. CASE UNCHANGED waiters
  BY <1>1
<1>2. CASE \E envs : Deliver(envs)
  BY <1>2 DEF Deliver
<1>3. ASSUME NEW t \in Call, TimedOutLocked(t)
      PROVE  \A i \in Ids : waiters'[i] = {}
  BY <1>3 DEF TimedOutLocked, IInv, TypeOK
<1>4. CASE Restart \/ \E t \in Call : ShutdownLocked(t)
  BY <1>4 DEF Restart, ShutdownLocked
<1>5. CASE Enter
  BY <1>1, <1>5 DEF Enter, EnterWith, EnterDispatch, EnterReply, EnterBroadcast,
     EnterEmit, EnterMailbox, EnterCancel, EnterCloseThread, EnterOperatorClose,
     EnterShutdown, mail
<1>6. ASSUME NEW t \in Call, Step(t)
      PROVE  \A i \in Ids : waiters'[i] = {}
  BY <1>1, <1>2, <1>3, <1>4, <1>6
  DEF Step, DispatchLocked, DispatchTurnedDown, BroadcastLocked, EmitLocked,
     TurnedDown, Resume, FlushLocked, WaitLocked, Woken, Report, NotifyLocked,
     CancelLocked, NextClosing, AllClosingsSent, CloseThreadLocked,
     OperatorCloseLocked, mail
<1>. QED
  BY <1>1, <1>2, <1>4, <1>5, <1>6
  DEF Next, TimeOut, Commit, WriteError, ExpireDeadlines, CloseTTL, MessageGC,
      Rest, vars, mail

\* Only close() itself sets the flag, and it goes for the lock then.
LEMMA CloserSetsFlag ==
  ASSUME IInv, [Next]_vars, ~closed, closed'
  PROVE  \E t \in Call : Closing(t)'
<1>1. Enter
  <2>1. ASSUME NEW t \in Call, Step(t) PROVE UNCHANGED closed
    <3>1. UNCHANGED life
      BY <2>1 DEF Step, DispatchLocked, DispatchTurnedDown, BroadcastLocked,
         EmitLocked, TurnedDown, Resume, FlushLocked, WaitLocked, Woken,
         TimedOutLocked, Report, NotifyLocked, CancelLocked, ShutdownLocked,
         NextClosing, AllClosingsSent, CloseThreadLocked, OperatorCloseLocked
    <3>. QED
      BY <3>1 DEF life
  <2>2. \/ \E t \in Call : TimeOut(t)
        \/ Commit \/ WriteError \/ ExpireDeadlines \/ CloseTTL \/ MessageGC
        \/ Restart \/ Rest \/ UNCHANGED vars
        => closed' \in {closed, FALSE}
    BY DEF TimeOut, Commit, WriteError, ExpireDeadlines, CloseTTL, MessageGC,
       Restart, Rest, vars, life
  <2>. QED
    BY <2>1, <2>2 DEF Next
<1>2. PICK t \in Call, r \in Requests : EnterWith(t, r)
  BY <1>1 DEF Enter
<1>3. EnterShutdown(t, r)
  BY <1>2 DEF EnterWith, EnterDispatch, EnterReply, EnterBroadcast, EnterEmit,
     EnterMailbox, EnterCancel, EnterCloseThread, EnterOperatorClose, life
<1>. QED
  BY <1>3 DEF EnterShutdown, GoForLock, Closing, IInv, TypeOK

\* Once close() has run nobody waits for mail and nobody starts to: a wait that
\* passed the first test of the flag meets the second one, under the lock.
THEOREM NobodyWaitsAfterClose == Spec => []NoWaiterAfterClose
<1>1. Init => Closers
  BY DEF Init, Closers
<1>2. IInv /\ OrderInv /\ Closers /\ [Next]_vars => Closers'
  <2>. SUFFICES ASSUME IInv, OrderInv, Closers, [Next]_vars, closed'
                PROVE  (\E t \in Call : Closing(t)') \/ \A i \in Ids : waiters'[i] = {}
    BY DEF Closers, Closing
  <2>1. CASE ~closed
    BY <2>1, CloserSetsFlag
  <2>2. CASE \A i \in Ids : waiters[i] = {}
    <3>1. CASE closed
      BY <2>2, <3>1, WaitsBeginOpen
    <3>. QED
      BY <2>1, <3>1
  <2>3. ASSUME closed, NEW t \in Call, Closing(t)
        PROVE  Closing(t)' \/ \A i \in Ids : waiters'[i] = {}
    <3>1. req'[t] = req[t]
      BY <2>3, GoesForth DEF Forth, Started, Closing
    <3>2. ~Restart
      BY DEF Restart
    <3>3. CASE Step(t)
      <4>1. ShutdownLocked(t)
        BY <2>3, <3>3 DEF Closing, Step, DispatchLocked, DispatchTurnedDown,
           BroadcastLocked, EmitLocked, TurnedDown, Resume, FlushLocked, WaitLocked,
           Woken, TimedOutLocked, Report, NotifyLocked, CancelLocked, NextClosing,
           AllClosingsSent, CloseThreadLocked, OperatorCloseLocked, InLock
      <4>. QED
        BY <4>1 DEF ShutdownLocked
    <3>. QED
      BY <2>3, <3>1, <3>2, <3>3, LockIsLeftByOwnStep DEF Closing
  <2>. QED
    BY <2>1, <2>2, <2>3 DEF Closers
<1>3. IInv /\ Closers => NoWaiterAfterClose
  BY DispatcherAssumption
  DEF IInv, CallsOK, CallOK, Started, Closers, Closing, NoWaiterAfterClose, Finished
<1>. QED
  BY <1>1, <1>2, <1>3, InvariantHolds, OrderHolds, PTL DEF Spec

-------------------------------------------------------------------------------
(***************************************************************************)
(* Sending.  What dispatch, broadcast and bot_emit have in common: under   *)
(* the lock each posts finitely many copies, never to a full inbox, and of *)
(* these at most one per instance but for those it names in cc; asks only  *)
(* those it sends a primary copy that expects a result; and settles at     *)
(* most what its caller was asked.                                         *)
(***************************************************************************)
HistType == hist \in [sent : SUBSET Envelope, taken : SUBSET Envelope,
                      recalled : SUBSET Envelope, answered : SUBSET Edge,
                      expired : SUBSET Edge, withdrawn : SUBSET Edge]

Settled(t) == IF req[t].op = "dispatch" THEN Answers(t) ELSE {}

\* what there is to say of the copies of call t
CopiesOfCall(t, envs) ==
  /\ envs \subseteq MadeBy(t)
  /\ \A e \in envs : Room(e.target) /\ e.irt = req[t].irt /\ e.conv = res[t].conv
  /\ \A e, f \in envs : Key(e) = Key(f) => e = f
  /\ IsFiniteSet(envs)

\* the workers a handler may address as primaries
Addressed(t) ==
  CASE req[t].op = "dispatch"  -> {req[t].tgt}
    [] req[t].op = "broadcast" -> Permitted(req[t].src)
    [] req[t].op = "emit"      -> Ids

Sending(t, envs, state, asked) ==
  /\ HasLock(t) /\ pc[t] = "lock" /\ req[t].op \in SenderOps /\ ~closed
  /\ CopiesOfCall(t, envs)
  /\ \A e \in envs : e.as = "primary" => e.target \in Addressed(t)
  /\ asked \subseteq Ids
  /\ \A i \in asked : \E e \in envs : e.target = i /\ e.as = "primary" /\ e.er
  /\ Deliver(envs) /\ Record(t, state) /\ SubmitDispatch(t, state, envs)
  /\ inFlight' = (inFlight \cup Ask(t, asked)) \ Settled(t)
  /\ deadlines' = WithDeadline(t, asked)
  /\ hist'.sent = hist.sent \cup envs
  /\ hist'.answered = hist.answered \cup Settled(t)
  /\ hist'.taken = hist.taken /\ hist'.recalled = hist.recalled
  /\ hist'.expired = hist.expired /\ hist'.withdrawn = hist.withdrawn
  /\ HistType'
  /\ UNCHANGED <<lastInbound, life>>

Copy(t, i, as, er) == [cmd |-> t, source |-> req[t].src, target |-> i,
                       conv |-> res[t].conv, as |-> as, er |-> er,
                       irt |-> req[t].irt, about |-> None, nth |-> 0]

\* `envs' is one copy of call t to each of the instances `to'
CopiesTo(t, to, as, er, envs) ==
  /\ \A e \in envs : /\ e.target \in to /\ e.as = as /\ e.er = er /\ e.nth = 0
                     /\ e.irt = req[t].irt /\ e.conv = res[t].conv
  /\ \A e, f \in envs : e.target = f.target => e = f
  /\ \A i \in to : \E e \in envs : e.target = i
  /\ IsFiniteSet(envs)

\* The values of a function on a finite set are finitely many.
LEMMA ValuesAreFinite ==
  ASSUME NEW S, IsFiniteSet(S), NEW f
  PROVE  IsFiniteSet({f[x] : x \in S})
<1>. DEFINE T == {f[x] : x \in S}
            g == [x \in S |-> f[x]]
<1>1. g \in Surjection(S, T)
  BY DEF Surjection
<1>. QED
  BY <1>1, FS_Surjection

\* One set of copies of a call.
LEMMA CopiesAre ==
  ASSUME NEW t, NEW to, to \subseteq Ids, NEW as, NEW er
  PROVE  CopiesTo(t, to, as, er, Copies(t, to, as, er))
<1>. DEFINE envs == Copies(t, to, as, er)
<1>1. envs = {Copy(t, i, as, er) : i \in to}
  BY DEF Copies, Copy
<1>. HIDE DEF envs
<1>2. \A i \in to : /\ Copy(t, i, as, er).target = i
                    /\ Copy(t, i, as, er).as = as /\ Copy(t, i, as, er).er = er
                    /\ Copy(t, i, as, er).nth = 0
                    /\ Copy(t, i, as, er).irt = req[t].irt
                    /\ Copy(t, i, as, er).conv = res[t].conv
  BY DEF Copy
<1>3. \A e \in envs : \E i \in to : e = Copy(t, i, as, er)
  BY <1>1
<1>4. ASSUME NEW e \in envs
      PROVE  /\ e.target \in to /\ e.as = as /\ e.er = er /\ e.nth = 0
             /\ e.irt = req[t].irt /\ e.conv = res[t].conv
             /\ e = Copy(t, e.target, as, er)
  <2>1. PICK i \in to : e = Copy(t, i, as, er)
    BY <1>3
  <2>. QED
    BY <1>2, <2>1
<1>5. \A e, f \in envs : e.target = f.target => e = f
  BY <1>4
<1>6. \A i \in to : \E e \in envs : e.target = i
  BY <1>1, <1>2
<1>7. IsFiniteSet(envs)
  <2>. DEFINE f == [i \in to |-> Copy(t, i, as, er)]
  <2>1. IsFiniteSet(to)
    BY FS_Subset, DispatcherAssumption
  <2>2. envs = {f[i] : i \in to}
    BY <1>1
  <2>. HIDE DEF f
  <2>. QED
    BY <2>1, <2>2, ValuesAreFinite
<1>. QED
  BY <1>4, <1>5, <1>6, <1>7 DEF CopiesTo, envs

\* `envs' is the copies of call t for the places `at' of its cc
CcCopiesAt(t, at, envs) ==
  /\ \A e \in envs : /\ e.nth \in at /\ e.target = req[t].cc[e.nth] /\ e.as = "cc"
                     /\ e.irt = req[t].irt /\ e.conv = res[t].conv
  /\ \A e, f \in envs : e.nth = f.nth => e = f
  /\ \A n \in at : \E e \in envs : e.nth = n /\ e.target = req[t].cc[n]
  /\ IsFiniteSet(envs)

\* The copies for those named in cc.
LEMMA CcCopiesAre ==
  ASSUME NEW t, NEW at, IsFiniteSet(at), NEW er
  PROVE  CcCopiesAt(t, at, CcCopies(t, at, er))
<1>. DEFINE copy(n) == [cmd |-> t, source |-> req[t].src, target |-> req[t].cc[n],
                       conv |-> res[t].conv, as |-> "cc", er |-> er,
                       irt |-> req[t].irt, about |-> None, nth |-> n]
            envs == CcCopies(t, at, er)
<1>1. envs = {copy(n) : n \in at}
  BY DEF CcCopies
<1>. HIDE DEF envs
<1>2. \A n \in at : /\ copy(n).target = req[t].cc[n] /\ copy(n).as = "cc"
                    /\ copy(n).irt = req[t].irt /\ copy(n).conv = res[t].conv
                    /\ copy(n).nth = n
  OBVIOUS
<1>. HIDE DEF copy
<1>3. ASSUME NEW e \in envs
      PROVE  /\ e.nth \in at /\ e.target = req[t].cc[e.nth] /\ e.as = "cc"
             /\ e.irt = req[t].irt /\ e.conv = res[t].conv
             /\ e = copy(e.nth)
  <2>1. PICK n \in at : e = copy(n)
    BY <1>1
  <2>. QED
    BY <1>2, <2>1
<1>4. \A e, f \in envs : e.nth = f.nth => e = f
  BY <1>3
<1>5. \A n \in at : \E e \in envs : e.nth = n /\ e.target = req[t].cc[n]
  BY <1>1, <1>2
<1>6. IsFiniteSet(envs)
  <2>. DEFINE f == [n \in at |-> copy(n)]
  <2>1. envs = {f[n] : n \in at}
    BY <1>1
  <2>. HIDE DEF f
  <2>. QED
    BY <2>1, ValuesAreFinite
<1>. QED
  BY <1>3, <1>4, <1>5, <1>6 DEF CcCopiesAt, envs

\* primary copies to A, copies for the places `at' of its cc, to the subscribers C
\* and the observers D, all of which have room
Parts(t, A, at, C, D, er, envs) ==
  /\ A \subseteq Ids /\ at \subseteq DOMAIN req[t].cc /\ C \subseteq Ids /\ D \subseteq Ids
  /\ er \in BOOLEAN
  /\ A \cap C = {} /\ A \cap D = {} /\ C \cap D = {}
  /\ \A i \in A \cup C \cup D : Room(i)
  /\ \A n \in at : Room(req[t].cc[n])
  /\ envs = UNION {Copies(t, A, "primary", er), CcCopies(t, at, er),
                   Copies(t, C, "subscribed", FALSE), Copies(t, D, "cc", FALSE)}

\* Such a union of copies has what a sender needs.
LEMMA UnionOfCopies ==
  ASSUME IInv, NEW t \in Call, req[t] \in RequestType,
         NEW A, NEW at, NEW C, NEW D, NEW er, NEW envs,
         Parts(t, A, at, C, D, er, envs)
  PROVE  /\ CopiesOfCall(t, envs)
         /\ \A e \in envs : e.as = "primary" => e.target \in A
         /\ \A i \in A : \E e \in envs : e.target = i /\ e.as = "primary" /\ e.er = er
<1>. USE DEF Parts
<1>1. FALSE \in BOOLEAN
  OBVIOUS
<1>2. PICK a : /\ a = Copies(t, A, "primary", er) /\ a \subseteq MadeBy(t)
               /\ CopiesTo(t, A, "primary", er, a)
  BY CopiesAre, CopiesType
<1>3. PICK b : /\ b = CcCopies(t, at, er) /\ b \subseteq MadeBy(t)
               /\ CcCopiesAt(t, at, b) /\ at \subseteq Nat \ {0}
  <2>1. req[t].cc \in Seq(Workers)
    BY DEF RequestType
  <2>2. DOMAIN req[t].cc = 1..Len(req[t].cc) /\ Len(req[t].cc) \in Nat
    BY <2>1
  <2>3. IsFiniteSet(1..Len(req[t].cc))
    BY <2>2, FS_Interval
  <2>4. IsFiniteSet(at) /\ at \subseteq Nat \ {0}
    BY <2>2, <2>3, FS_Subset
  <2>. QED
    BY <2>4, CcCopiesAre, CcCopiesType
<1>4. PICK c : /\ c = Copies(t, C, "subscribed", FALSE) /\ c \subseteq MadeBy(t)
               /\ CopiesTo(t, C, "subscribed", FALSE, c)
  BY <1>1, CopiesAre, CopiesType
<1>5. PICK d : /\ d = Copies(t, D, "cc", FALSE) /\ d \subseteq MadeBy(t)
               /\ CopiesTo(t, D, "cc", FALSE, d)
  BY <1>1, CopiesAre, CopiesType
<1>6. \A e : e \in envs <=> e \in a \/ e \in b \/ e \in c \/ e \in d
  BY <1>2, <1>3, <1>4, <1>5
<1>7. CopiesOfCall(t, envs)
  <2>1. envs \subseteq MadeBy(t)
    BY <1>2, <1>3, <1>4, <1>5, <1>6
  <2>2. \A e \in envs : Room(e.target) /\ e.irt = req[t].irt /\ e.conv = res[t].conv
    <3>. SUFFICES ASSUME NEW e \in envs
                  PROVE  Room(e.target) /\ e.irt = req[t].irt /\ e.conv = res[t].conv
      OBVIOUS
    <3>1. CASE e \in a
      BY <1>2, <3>1 DEF CopiesTo
    <3>2. CASE e \in b
      <4>1. e.nth \in at /\ e.target = req[t].cc[e.nth]
        BY <1>3, <3>2 DEF CcCopiesAt
      <4>2. Room(req[t].cc[e.nth])
        BY <4>1
      <4>. QED
        BY <1>3, <3>2, <4>1, <4>2 DEF CcCopiesAt
    <3>3. CASE e \in c
      BY <1>4, <3>3 DEF CopiesTo
    <3>4. CASE e \in d
      BY <1>5, <3>4 DEF CopiesTo
    <3>. QED
      BY <1>6, <3>1, <3>2, <3>3, <3>4
  <2>3. \A e, f \in envs : e.target = f.target /\ e.nth = f.nth => e = f
    <3>1. /\ \A e \in a : e.target \in A /\ e.target \notin C \cup D /\ e.nth = 0
          /\ \A e \in c : e.target \in C /\ e.target \notin A \cup D /\ e.nth = 0
          /\ \A e \in d : e.target \in D /\ e.target \notin A \cup C /\ e.nth = 0
          /\ \A e \in b : e.nth # 0
      BY <1>2, <1>3, <1>4, <1>5 DEF CopiesTo, CcCopiesAt
    <3>2. ASSUME NEW e \in envs, NEW f \in envs, e.target = f.target, e.nth = f.nth
          PROVE  \/ e \in a /\ f \in a
                 \/ e \in b /\ f \in b
                 \/ e \in c /\ f \in c
                 \/ e \in d /\ f \in d
      BY <1>6, <3>1, <3>2
    <3>3. /\ \A e, f \in a : e.target = f.target => e = f
          /\ \A e, f \in b : e.nth = f.nth => e = f
          /\ \A e, f \in c : e.target = f.target => e = f
          /\ \A e, f \in d : e.target = f.target => e = f
      BY <1>2, <1>3, <1>4, <1>5 DEF CopiesTo, CcCopiesAt
    <3>. QED
      BY <3>2, <3>3
  <2>4. IsFiniteSet(envs)
    <3>1. envs = ((a \cup b) \cup c) \cup d
      BY <1>6
    <3>2. IsFiniteSet(a) /\ IsFiniteSet(b) /\ IsFiniteSet(c) /\ IsFiniteSet(d)
      BY <1>2, <1>3, <1>4, <1>5 DEF CopiesTo, CcCopiesAt
    <3>3. IsFiniteSet(a \cup b)
      BY <3>2, FS_Union
    <3>4. IsFiniteSet((a \cup b) \cup c)
      BY <3>2, <3>3, FS_Union
    <3>5. IsFiniteSet(((a \cup b) \cup c) \cup d)
      BY <3>2, <3>4, FS_Union
    <3>. QED
      BY <3>1, <3>5
  <2>. QED
    BY <2>1, <2>2, <2>3, <2>4 DEF CopiesOfCall, Key
<1>8. \A e \in envs : e.as = "primary" => e.target \in A
  BY <1>2, <1>3, <1>4, <1>5, <1>6 DEF CopiesTo, CcCopiesAt
<1>9. \A i \in A : \E e \in envs : e.target = i /\ e.as = "primary" /\ e.er = er
  BY <1>2, <1>6 DEF CopiesTo
<1>. QED
  BY <1>7, <1>8, <1>9

\* What a step adds to the history of messages and of answers.
LEMMA HistorySends ==
  ASSUME HistType, NEW envs \in SUBSET Envelope, NEW done \in SUBSET Edge,
         \/ hist' = [hist EXCEPT !.sent = @ \cup envs, !.answered = @ \cup done]
         \/ hist' = [hist EXCEPT !.sent = @ \cup envs] /\ done = {}
  PROVE  /\ hist'.sent = hist.sent \cup envs
         /\ hist'.answered = hist.answered \cup done
         /\ hist'.taken = hist.taken /\ hist'.recalled = hist.recalled
         /\ hist'.expired = hist.expired /\ hist'.withdrawn = hist.withdrawn
         /\ HistType'
BY DEF HistType

\* dispatch sends.
LEMMA DispatchSends ==
  ASSUME IInv, HistType, NEW t \in Call, DispatchLocked(t)
  PROVE  \E envs, state, asked : Sending(t, envs, state, asked)
<1>. DEFINE r     == req[t]
            to    == {r.tgt} \ {None}
            cc    == {n \in DOMAIN r.cc : r.cc[n] \notin {r.src, r.tgt}}
            ccIn  == {n \in cc : Room(r.cc[n])}
            subIn == {b \in r.subs \ to : Room(b)}
            obsIn == {b \in Observers \ (to \cup r.subs) : Room(b)}
            asked == IF r.er THEN (to \cap Workers) \ {r.src} ELSE {}
            envs  == UNION {Copies(t, to, "primary", r.er),
                            CcCopies(t, ccIn, r.er),
                            Copies(t, subIn, "subscribed", FALSE),
                            Copies(t, obsIn, "cc", FALSE)}
            named == AddParticipants(
                       AddParticipants(StateFor(t), {r.src} \cup to, "primary"),
                       {r.cc[n] : n \in cc} \cup subIn \cup obsIn, "cc")
            state == IF r.closing /\ named.role[r.src] \in {"primary", "missed"}
                       THEN PartyCloses(named, r.src) ELSE named
<1>1. HasLock(t) /\ pc[t] = "lock" /\ r.op = "dispatch" /\ ~closed
  BY DEF DispatchLocked, InLock
<1>2. r \in RequestType /\ r.tgt \in Ids \cup {None}
  BY <1>1 DEF IInv, CallsOK, CallOK, Started
<1>3. /\ to \in SUBSET Ids /\ ccIn \in SUBSET DOMAIN r.cc /\ subIn \in SUBSET Ids
      /\ obsIn \in SUBSET Ids /\ asked \subseteq to /\ r.er \in BOOLEAN
      /\ (asked # {} => r.er)
  BY <1>2, DispatcherAssumption DEF RequestType
<1>4. to \cap subIn = {} /\ to \cap obsIn = {} /\ subIn \cap obsIn = {}
  BY <1>2, DispatcherAssumption DEF RequestType
<1>5. /\ \A i \in to \cup subIn \cup obsIn : Room(i)
      /\ \A n \in ccIn : Room(r.cc[n])
  BY DEF DispatchLocked
<1>6. /\ CopiesOfCall(t, envs)
      /\ \A e \in envs : e.as = "primary" => e.target \in to
      /\ \A i \in to : \E e \in envs : e.target = i /\ e.as = "primary" /\ e.er = r.er
  <2>1. Parts(t, to, ccIn, subIn, obsIn, r.er, envs)
    BY <1>3, <1>4, <1>5 DEF Parts
  <2>. HIDE DEF to, ccIn, subIn, obsIn, envs
  <2>. QED
    BY <1>2, <2>1, UnionOfCopies
<1>7. /\ Deliver(envs) /\ Record(t, state) /\ SubmitDispatch(t, state, envs)
      /\ inFlight' = (inFlight \cup Ask(t, asked)) \ Answers(t)
      /\ deadlines' = WithDeadline(t, asked)
      /\ hist' = [hist EXCEPT !.sent = @ \cup envs, !.answered = @ \cup Answers(t)]
      /\ UNCHANGED <<lastInbound, life>>
  BY DEF DispatchLocked
<1>8. Settled(t) = Answers(t) /\ Answers(t) \subseteq Edge /\ Addressed(t) = {r.tgt}
  BY <1>1 DEF Settled, Answers, Addressed, IInv, TypeOK
<1>9. envs \subseteq Envelope
  BY <1>6 DEF CopiesOfCall, MadeBy
<1>. HIDE DEF envs, state, asked, r
<1>10. /\ hist'.sent = hist.sent \cup envs
       /\ hist'.answered = hist.answered \cup Answers(t)
       /\ hist'.taken = hist.taken /\ hist'.recalled = hist.recalled
       /\ hist'.expired = hist.expired /\ hist'.withdrawn = hist.withdrawn
       /\ HistType'
  BY <1>7, <1>8, <1>9, HistorySends
<1>11. \A i \in asked : \E e \in envs : e.target = i /\ e.as = "primary" /\ e.er
  BY <1>3, <1>6
<1>12. Sending(t, envs, state, asked)
  BY <1>1, <1>3, <1>6, <1>7, <1>8, <1>10, <1>11 DEF Sending, SenderOps, r
<1>. QED
  BY <1>12

\* Without observers named by the caller there are three sets of copies.
LEMMA ThreeParts ==
  ASSUME NEW t, NEW A \in SUBSET Ids, NEW C \in SUBSET Ids, NEW D \in SUBSET Ids,
         NEW er \in BOOLEAN, A \cap C = {}, A \cap D = {}, C \cap D = {},
         \A i \in A \cup C \cup D : Room(i)
  PROVE  Parts(t, A, {}, C, D, er,
               UNION {Copies(t, A, "primary", er),
                      Copies(t, C, "subscribed", FALSE), Copies(t, D, "cc", FALSE)})
<1>1. CcCopies(t, {}, er) = {}
  BY DEF CcCopies
<1>. QED
  BY <1>1 DEF Parts

\* broadcast sends.
LEMMA BroadcastSends ==
  ASSUME IInv, HistType, NEW t \in Call, BroadcastLocked(t)
  PROVE  \E envs, state, asked : Sending(t, envs, state, asked)
<1>. DEFINE r     == req[t]
            to    == Permitted(r.src)
            wIn   == {w \in to : Room(w)}
            subIn == {b \in r.subs : Room(b)}
            obsIn == {b \in Observers \ r.subs : Room(b)}
            asked == IF r.er THEN wIn ELSE {}
            envs  == UNION {Copies(t, wIn, "primary", r.er),
                            Copies(t, subIn, "subscribed", FALSE),
                            Copies(t, obsIn, "cc", FALSE)}
            named == AddParticipants(
                       AddParticipants(StateFor(t), {r.src} \cup wIn, "primary"),
                       to \ wIn, "missed")
            state == IF r.closing
                       THEN [named EXCEPT !.status = "closed",
                               !.closedBy = {i \in Ids : named.role[i] # "none"}]
                       ELSE named
<1>1. HasLock(t) /\ pc[t] = "lock" /\ r.op = "broadcast" /\ ~closed
  BY DEF BroadcastLocked, InLock
<1>2. r \in RequestType
  BY <1>1 DEF IInv, CallsOK, CallOK, Started
<1>3. /\ wIn \in SUBSET Ids /\ subIn \in SUBSET Ids /\ obsIn \in SUBSET Ids
      /\ asked \subseteq wIn /\ r.er \in BOOLEAN /\ (asked # {} => r.er)
  BY <1>2, DispatcherAssumption DEF RequestType, Permitted
<1>4. wIn \cap subIn = {} /\ wIn \cap obsIn = {} /\ subIn \cap obsIn = {}
  BY <1>2, DispatcherAssumption DEF RequestType, Permitted
<1>5. \A i \in wIn \cup subIn \cup obsIn : Room(i)
  OBVIOUS
<1>6. /\ CopiesOfCall(t, envs)
      /\ \A e \in envs : e.as = "primary" => e.target \in wIn
      /\ \A i \in wIn : \E e \in envs : e.target = i /\ e.as = "primary" /\ e.er = r.er
  <2>1. Parts(t, wIn, {}, subIn, obsIn, r.er, envs)
    <3>1. CcCopies(t, {}, r.er) = {}
      BY DEF CcCopies
    <3>. HIDE DEF wIn, subIn, obsIn
    <3>. QED
      BY <1>3, <1>4, <1>5, <3>1 DEF Parts
  <2>. HIDE DEF wIn, subIn, obsIn, envs
  <2>. QED
    BY <1>2, <2>1, UnionOfCopies
<1>7. /\ Deliver(envs) /\ Record(t, state) /\ SubmitDispatch(t, state, envs)
      /\ inFlight' = inFlight \cup Ask(t, asked)
      /\ deadlines' = WithDeadline(t, asked)
      /\ hist' = [hist EXCEPT !.sent = @ \cup envs]
      /\ UNCHANGED <<lastInbound, life>>
  BY DEF BroadcastLocked
<1>8. Settled(t) = {} /\ Settled(t) \subseteq Edge /\ wIn \subseteq Addressed(t)
  BY <1>1 DEF Settled, Addressed
<1>9. envs \subseteq Envelope
  BY <1>6 DEF CopiesOfCall, MadeBy
<1>. HIDE DEF envs, state, asked, r
<1>10. /\ hist'.sent = hist.sent \cup envs
       /\ hist'.answered = hist.answered \cup Settled(t)
       /\ hist'.taken = hist.taken /\ hist'.recalled = hist.recalled
       /\ hist'.expired = hist.expired /\ hist'.withdrawn = hist.withdrawn
       /\ HistType'
  BY <1>7, <1>8, <1>9, HistorySends
<1>11. \A i \in asked : \E e \in envs : e.target = i /\ e.as = "primary" /\ e.er
  BY <1>3, <1>6
<1>12. Sending(t, envs, state, asked)
  BY <1>1, <1>3, <1>6, <1>7, <1>8, <1>10, <1>11 DEF Sending, SenderOps, r
<1>. QED
  BY <1>12

\* bot_emit sends, and asks for nothing.
LEMMA EmitSends ==
  ASSUME IInv, HistType, NEW t \in Call, EmitLocked(t)
  PROVE  \E envs, state, asked : Sending(t, envs, state, asked)
<1>. DEFINE r     == req[t]
            to    == {i \in {r.tgt} \ {None} : Room(i)}
            subIn == {b \in r.subs \ {r.tgt} : Room(b)}
            obsIn == {b \in Observers \ ({r.tgt} \cup r.subs) : Room(b)}
            envs  == UNION {Copies(t, to, "primary", FALSE),
                            Copies(t, subIn, "subscribed", FALSE),
                            Copies(t, obsIn, "cc", FALSE)}
            state == AddParticipants(
                       AddParticipants(
                         AddParticipants(StateFor(t), {r.src}, "cc"), to, "primary"),
                       subIn \cup obsIn, "cc")
<1>1. HasLock(t) /\ pc[t] = "lock" /\ r.op = "emit" /\ ~closed
  BY DEF EmitLocked, InLock
<1>2. r \in RequestType /\ r.tgt \in Ids \cup {None}
  BY <1>1 DEF IInv, CallsOK, CallOK, Started
<1>3. to \in SUBSET Ids /\ subIn \in SUBSET Ids /\ obsIn \in SUBSET Ids /\ FALSE \in BOOLEAN
  BY <1>2, DispatcherAssumption DEF RequestType
<1>4. to \cap subIn = {} /\ to \cap obsIn = {} /\ subIn \cap obsIn = {}
  BY <1>2 DEF RequestType
<1>5. \A i \in to \cup subIn \cup obsIn : Room(i)
  OBVIOUS
<1>6. /\ CopiesOfCall(t, envs)
      /\ \A e \in envs : e.as = "primary" => e.target \in to
  <2>1. Parts(t, to, {}, subIn, obsIn, FALSE, envs)
    <3>. HIDE DEF to, subIn, obsIn
    <3>. QED
      BY <1>3, <1>4, <1>5, ThreeParts
  <2>. HIDE DEF to, subIn, obsIn, envs
  <2>. QED
    BY <1>2, <2>1, UnionOfCopies
<1>7. /\ Deliver(envs) /\ Record(t, state) /\ SubmitDispatch(t, state, envs)
      /\ UNCHANGED <<inFlight, deadlines>>
      /\ hist' = [hist EXCEPT !.sent = @ \cup envs]
      /\ UNCHANGED <<lastInbound, life>>
  BY DEF EmitLocked, flights
<1>8. Settled(t) = {} /\ Settled(t) \subseteq Edge /\ to \subseteq Addressed(t)
  BY <1>1, <1>3 DEF Settled, Addressed
<1>9. envs \subseteq Envelope
  BY <1>6 DEF CopiesOfCall, MadeBy
<1>. HIDE DEF envs, state, r
<1>10. /\ hist'.sent = hist.sent \cup envs
       /\ hist'.answered = hist.answered \cup Settled(t)
       /\ hist'.taken = hist.taken /\ hist'.recalled = hist.recalled
       /\ hist'.expired = hist.expired /\ hist'.withdrawn = hist.withdrawn
       /\ HistType'
  BY <1>7, <1>8, <1>9, HistorySends
<1>11. Ask(t, {}) = {} /\ WithDeadline(t, {}) = deadlines
  BY DEF Ask, WithDeadline
<1>12. Sending(t, envs, state, {})
  BY <1>1, <1>3, <1>6, <1>7, <1>8, <1>10, <1>11 DEF Sending, SenderOps, r
<1>. QED
  BY <1>12

\* The three handlers that send, all in one.
SendStep(t) == DispatchLocked(t) \/ BroadcastLocked(t) \/ EmitLocked(t)

\* Each of them does what Sending says.
LEMMA SendersSend ==
  ASSUME IInv, HistType, NEW t \in Call, SendStep(t)
  PROVE  \E envs, state, asked : Sending(t, envs, state, asked)
BY DispatchSends, BroadcastSends, EmitSends DEF SendStep

-------------------------------------------------------------------------------
(***************************************************************************)
(* What a step does to messages, expected results and their history.  Six  *)
(* kinds of step touch them; the others leave them alone.                  *)
(***************************************************************************)
Uneventful == UNCHANGED <<queues, inFlight, hist, epoch>>

HistoryIs(sent, taken, recalled, answered, expired, withdrawn) ==
  /\ hist'.sent = sent /\ hist'.taken = taken /\ hist'.recalled = recalled
  /\ hist'.answered = answered /\ hist'.expired = expired
  /\ hist'.withdrawn = withdrawn

\* a flush of call t takes these messages
Taking(t, got) ==
  /\ req[t].src \in Ids /\ got \subseteq queues[req[t].src]
  /\ queues' = [queues EXCEPT ![req[t].src] = @ \ got]
  /\ HistoryIs(hist.sent, hist.taken \cup got, hist.recalled,
               hist.answered, hist.expired, hist.withdrawn)
  /\ UNCHANGED <<inFlight, epoch>>

\* call t has these messages marked as drained
Marking(t, got) == /\ wq' = IF got = {} THEN wq ELSE Append(wq, Marks(t, got))
                   /\ UNCHANGED <<rows, drained, dbConv>>

\* a cancel by call t takes back every expected result of a command, and these
\* messages of it
Recalling(t, back) ==
  LET edges == {x \in inFlight : x.cmd = req[t].irt}
  IN  /\ back = {e \in UNION {queues[i] : i \in {x.to : x \in edges}} :
                   e.cmd = req[t].irt /\ ~IsNotice(e)}
      /\ queues' = [i \in Ids |-> queues[i] \ back]
      /\ inFlight' = inFlight \ edges
      /\ HistoryIs(hist.sent, hist.taken, hist.recalled \cup back,
                   hist.answered, hist.expired, hist.withdrawn \cup edges)
      /\ UNCHANGED epoch

\* call t posts a notice
Noticing(t, e) ==
  /\ pc[t] = "lock" /\ pc'[t] = "done"
  /\ e = Notice(t, req[t].tgt, None, None, None) /\ e \in Envelope
  /\ Deliver({e})
  /\ HistoryIs(hist.sent \cup {e}, hist.taken, hist.recalled,
               hist.answered, hist.expired, hist.withdrawn)
  /\ UNCHANGED <<inFlight, epoch>>

\* the sweep gives up these expected results
Expiring(late) ==
  LET envs == {TimeoutNotice(x) : x \in late}
  IN  /\ late \subseteq inFlight
      /\ envs \subseteq Envelope
      /\ Deliver(envs)
      /\ inFlight' = inFlight \ late
      /\ HistoryIs(hist.sent \cup envs, hist.taken, hist.recalled,
                   hist.answered, hist.expired \cup late, hist.withdrawn)
      /\ UNCHANGED epoch

\* Every step is of one of these kinds.
LEMMA StepKinds ==
  ASSUME [Next]_vars
  PROVE  \/ Uneventful
         \/ \E t \in Call : SendStep(t)
         \/ \E t \in Call : FlushLocked(t) \/ CancelLocked(t) \/ NotifyLocked(t)
         \/ ExpireDeadlines
         \/ Restart
<1>1. CASE Enter
  <2>1. UNCHANGED <<mail, flights, hist, epoch>>
    BY <1>1 DEF Enter, EnterWith, EnterDispatch, EnterReply, EnterBroadcast,
       EnterEmit, EnterMailbox, EnterCancel, EnterCloseThread, EnterOperatorClose,
       EnterShutdown, life
  <2>. QED
    BY <2>1 DEF mail, flights, Uneventful
<1>2. ASSUME NEW t \in Call, Step(t)
      PROVE  Uneventful \/ SendStep(t) \/ FlushLocked(t) \/ CancelLocked(t)
             \/ NotifyLocked(t)
  BY <1>2 DEF Step, SendStep, Uneventful, DispatchTurnedDown, TurnedDown, Resume,
     WaitLocked, Woken, TimedOutLocked, Report, ShutdownLocked, NextClosing,
     AllClosingsSent, CloseThreadLocked, OperatorCloseLocked, mail, flights, life
<1>. QED
  BY <1>1, <1>2 DEF Next, Uneventful, TimeOut, Commit, WriteError, CloseTTL, MessageGC,
     Rest, vars, mail, flights, life

\* A flush takes messages and has them marked.
LEMMA FlushTakes ==
  ASSUME IInv, HistType, NEW t \in Call, FlushLocked(t)
  PROVE  HistType' /\ \E got : Taking(t, got) /\ Marking(t, got)
<1>. DEFINE got == {e \in queues[req[t].src] : Matches(req[t], e)}
<1>1. req[t].src \in Ids
  BY DEF FlushLocked, InLock, IInv, CallsOK, CallOK, Started, WellFormed
<1>2. /\ queues' = [queues EXCEPT ![req[t].src] = Kept(req[t].src, got)]
      /\ hist' = [hist EXCEPT !.taken = @ \cup got]
      /\ UNCHANGED <<flights, life>>
  BY DEF FlushLocked
<1>3. got \subseteq queues[req[t].src] /\ got \subseteq Envelope
  BY <1>1 DEF IInv, TypeOK
<1>. HIDE DEF got
<1>4. queues' = [queues EXCEPT ![req[t].src] = @ \ got]
  BY <1>1, <1>2 DEF Kept
<1>5. /\ HistoryIs(hist.sent, hist.taken \cup got, hist.recalled,
                   hist.answered, hist.expired, hist.withdrawn)
      /\ HistType'
  BY <1>2, <1>3 DEF HistType, HistoryIs
<1>6. Marking(t, got)
  BY DEF FlushLocked, LeaveToWrite, Marking, got
<1>. QED
  BY <1>1, <1>2, <1>3, <1>4, <1>5, <1>6 DEF Taking, flights, life

\* A cancel recalls, and has marked what it takes back; all the results expected
\* of a command are its sender's.
LEMMA CancelRecalls ==
  ASSUME IInv, HistType, NEW t \in Call, CancelLocked(t)
  PROVE  HistType' /\ \E back : Recalling(t, back) /\ Marking(t, back)
<1>. DEFINE edges == {x \in inFlight : x.cmd = req[t].irt}
            back  == {e \in UNION {queues[i] : i \in {x.to : x \in edges}} :
                        e.cmd = req[t].irt /\ ~IsNotice(e)}
<1>1. req[req[t].irt].src = req[t].src
  BY DEF CancelLocked, InLock, IInv, CallsOK, CallOK, Started
<1>2. edges = {x \in inFlight : x.from = req[t].src /\ x.cmd = req[t].irt}
  BY <1>1 DEF IInv, EdgesOK
<1>3. /\ queues' = [i \in Ids |-> queues[i] \ back]
      /\ inFlight' = inFlight \ edges
      /\ hist' = [hist EXCEPT !.recalled = @ \cup back, !.withdrawn = @ \cup edges]
      /\ UNCHANGED life
  BY <1>2 DEF CancelLocked
<1>4. edges \subseteq Edge /\ back \subseteq Envelope
  BY DEF IInv, TypeOK, Edge
<1>5. /\ HistoryIs(hist.sent, hist.taken, hist.recalled \cup back,
                   hist.answered, hist.expired, hist.withdrawn \cup edges)
      /\ HistType'
  <2>. HIDE DEF edges, back
  <2>. QED
    BY <1>3, <1>4 DEF HistType, HistoryIs
<1>6. Recalling(t, back)
  BY <1>3, <1>5 DEF Recalling, life
<1>7. Marking(t, back)
  <2>1. back = {e \in UNION {queues[i] : i \in
                  {x.to : x \in {y \in inFlight : y.from = req[t].src /\ y.cmd = req[t].irt}}} :
                    e.cmd = req[t].irt /\ ~IsNotice(e)}
    BY <1>2
  <2>. HIDE DEF back
  <2>. QED
    BY <2>1 DEF CancelLocked, LeaveToWrite, Marking
<1>. QED
  BY <1>5, <1>6, <1>7

\* system_notify posts one notice.
LEMMA NotifyPosts ==
  ASSUME IInv, HistType, NEW t \in Call, NotifyLocked(t)
  PROVE  HistType' /\ \E e : Noticing(t, e)
<1>. DEFINE e == Notice(t, req[t].tgt, None, None, None)
<1>1. req[t].tgt \in Ids /\ pc[t] = "lock"
  BY DEF NotifyLocked, InLock, IInv, CallsOK, CallOK, Started, WellFormed
<1>2. /\ Deliver({e}) /\ hist' = [hist EXCEPT !.sent = @ \cup {e}]
      /\ Leave(t, "done") /\ UNCHANGED <<flights, life>>
  BY DEF NotifyLocked
<1>3. e \in Envelope
  BY <1>1 DEF Notice, Envelope, Sender, MaybeCall
<1>4. pc'[t] = "done"
  BY <1>2 DEF Leave, IInv, TypeOK
<1>. HIDE DEF e
<1>5. /\ HistoryIs(hist.sent \cup {e}, hist.taken, hist.recalled,
                   hist.answered, hist.expired, hist.withdrawn)
      /\ HistType'
  BY <1>2, <1>3 DEF HistType, HistoryIs
<1>6. Noticing(t, e)
  BY <1>1, <1>2, <1>3, <1>4, <1>5 DEF Noticing, flights, life, e
<1>. QED
  BY <1>5, <1>6

\* The sweep gives results up and tells whoever waits.
LEMMA SweepExpires ==
  ASSUME IInv, HistType, ExpireDeadlines
  PROVE  HistType' /\ \E late : Expiring(late)
<1>1. PICK late \in SUBSET inFlight :
        LET envs == {TimeoutNotice(x) : x \in late}
        IN  /\ Deliver(envs) /\ inFlight' = inFlight \ late
            /\ hist' = [hist EXCEPT !.sent = @ \cup envs, !.expired = @ \cup late]
  <2>1. PICK due \in SUBSET deadlines :
          LET late == {x \in inFlight : x.cmd \in due}
              envs == {TimeoutNotice(x) : x \in late}
          IN  /\ Deliver(envs) /\ inFlight' = inFlight \ late
              /\ hist' = [hist EXCEPT !.sent = @ \cup envs, !.expired = @ \cup late]
    BY DEF ExpireDeadlines
  <2>. DEFINE late == {x \in inFlight : x.cmd \in due}
  <2>2. late \in SUBSET inFlight
    OBVIOUS
  <2>. QED
    BY <2>1, <2>2
<1>. DEFINE envs == {TimeoutNotice(x) : x \in late}
<1>2. ASSUME NEW x \in late PROVE TimeoutNotice(x) \in Envelope
  <2>1. x \in Edge /\ Started(x.cmd)
    BY DEF IInv, TypeOK, EdgesOK
  <2>2. LastStarted \in Call
    BY <2>1, LastStartedType DEF Edge
  <2>3. convOf[x.cmd] \in ConvId \cup {None}
    BY <2>1 DEF IInv, TypeOK, Edge
  <2>. QED
    BY <2>1, <2>2, <2>3 DEF TimeoutNotice, Notice, Envelope, Sender, Edge, MaybeCall
<1>3. envs \subseteq Envelope /\ late \subseteq Edge
  BY <1>2 DEF IInv, TypeOK
<1>4. /\ Deliver(envs) /\ inFlight' = inFlight \ late
      /\ hist' = [hist EXCEPT !.sent = @ \cup envs, !.expired = @ \cup late]
      /\ UNCHANGED life
  BY <1>1 DEF ExpireDeadlines
<1>5. /\ HistoryIs(hist.sent \cup envs, hist.taken, hist.recalled,
                   hist.answered, hist.expired \cup late, hist.withdrawn)
      /\ HistType'
  <2>. HIDE DEF envs
  <2>. QED
    BY <1>3, <1>4 DEF HistType, HistoryIs
<1>6. Expiring(late)
  BY <1>3, <1>4, <1>5 DEF Expiring, life
<1>. QED
  BY <1>5, <1>6

\* The history after a restart is that of the letters; of what was expected
\* nothing is left.
LEMMA RestartForgets ==
  ASSUME HistType, Restart
  PROVE  /\ HistType'
         /\ HistoryIs(Letters, hist.taken \cap Letters, hist.recalled, {}, {}, {})
         /\ Letters' = Letters
<1>1. Letters \subseteq Envelope
  BY DEF HistType, Letters
<1>2. /\ HistType'
      /\ HistoryIs(Letters, hist.taken \cap Letters, hist.recalled, {}, {}, {})
  BY <1>1 DEF Restart, NextLife, HistType, HistoryIs
<1>. QED
  BY <1>2 DEF HistoryIs, Letters, IsNotice

\* The history is a history of envelopes and edges.
LEMMA HistTypeStays == IInv /\ HistType /\ [Next]_vars => HistType'
<1>. SUFFICES ASSUME IInv, HistType, [Next]_vars PROVE HistType'
  OBVIOUS
<1>1. CASE Uneventful \/ Restart
  BY <1>1, RestartForgets DEF Uneventful, HistType
<1>2. ASSUME NEW t \in Call, SendStep(t) PROVE HistType'
  BY <1>2, SendersSend DEF Sending
<1>. QED
  BY <1>1, <1>2, StepKinds, FlushTakes, CancelRecalls, NotifyPosts, SweepExpires

-------------------------------------------------------------------------------
(***************************************************************************)
(* QuestionIsOut: an expected result has its question with its target.     *)
(***************************************************************************)
Asks(e, x) == e.cmd = x.cmd /\ e.target = x.to /\ e.er /\ e.as = "primary"

\* A question that nobody takes back stays with its target.
LEMMA QuestionKept ==
  ASSUME QuestionIsOut, NEW x \in inFlight,
         \A e \in queues[x.to] : Asks(e, x) => e \in queues'[x.to] \cup hist'.taken,
         hist.taken \subseteq hist'.taken
  PROVE  \E e \in queues'[x.to] \cup hist'.taken : Asks(e, x)
BY DEF QuestionIsOut, Asks

\* QuestionIsOut is kept by every step.
LEMMA QuestionStays == IInv /\ HistType /\ QuestionIsOut /\ [Next]_vars => QuestionIsOut'
<1>. SUFFICES ASSUME IInv, HistType, QuestionIsOut, [Next]_vars, NEW x \in inFlight'
              PROVE  \E e \in queues'[x.to] \cup hist'.taken : Asks(e, x)
  BY DEF QuestionIsOut, Asks
<1>0. inFlight \subseteq Edge /\ \A y \in Edge : y.to \in Ids
  BY DEF IInv, TypeOK, Edge
<1>1. CASE Uneventful
  BY <1>1, QuestionKept DEF Uneventful
<1>2. ASSUME NEW t \in Call, SendStep(t)
      PROVE  \E e \in queues'[x.to] \cup hist'.taken : Asks(e, x)
  <2>1. PICK envs, state, asked : Sending(t, envs, state, asked)
    BY <1>2, SendersSend
  <2>2. /\ queues' = [i \in Ids |-> queues[i] \cup {e \in envs : e.target = i}]
        /\ hist'.taken = hist.taken
        /\ inFlight' \subseteq inFlight \cup Ask(t, asked)
    BY <2>1 DEF Sending, Deliver
  <2>3. CASE x \in inFlight
    BY <1>0, <2>2, <2>3, QuestionKept
  <2>4. CASE x \in Ask(t, asked)
    <3>1. PICK i \in asked : x = [from |-> req[t].src, cmd |-> t, to |-> i]
      BY <2>4 DEF Ask
    <3>2. PICK e \in envs : e.target = i /\ e.as = "primary" /\ e.er
      BY <2>1 DEF Sending
    <3>3. e.cmd = t /\ i \in Ids
      BY <2>1 DEF Sending, CopiesOfCall, MadeBy
    <3>. QED
      BY <2>2, <3>1, <3>2, <3>3 DEF Asks
  <2>. QED
    BY <2>2, <2>3, <2>4
<1>3. ASSUME NEW t \in Call, FlushLocked(t)
      PROVE  \E e \in queues'[x.to] \cup hist'.taken : Asks(e, x)
  <2>1. PICK got : Taking(t, got)
    BY <1>3, FlushTakes
  <2>2. /\ x \in inFlight /\ hist'.taken = hist.taken \cup got
        /\ queues' = [queues EXCEPT ![req[t].src] = @ \ got]
    BY <2>1 DEF Taking, HistoryIs
  <2>3. \A e \in queues[x.to] : e \in queues'[x.to] \cup hist'.taken
    BY <1>0, <2>2 DEF IInv, TypeOK
  <2>. QED
    BY <2>2, <2>3, QuestionKept
<1>4. ASSUME NEW t \in Call, CancelLocked(t)
      PROVE  \E e \in queues'[x.to] \cup hist'.taken : Asks(e, x)
  <2>1. PICK back : Recalling(t, back)
    BY <1>4, CancelRecalls
  <2>2. /\ x \in inFlight /\ x.cmd # req[t].irt /\ hist'.taken = hist.taken
        /\ queues' = [i \in Ids |-> queues[i] \ back]
        /\ \A e \in back : e.cmd = req[t].irt
    BY <2>1 DEF Recalling, HistoryIs
  <2>3. \A e \in queues[x.to] : Asks(e, x) => e \in queues'[x.to]
    BY <1>0, <2>2 DEF Asks
  <2>. QED
    BY <2>2, <2>3, QuestionKept
<1>5. ASSUME NEW t \in Call, NotifyLocked(t)
      PROVE  \E e \in queues'[x.to] \cup hist'.taken : Asks(e, x)
  <2>1. PICK e : Noticing(t, e)
    BY <1>5, NotifyPosts
  <2>. QED
    BY <1>0, <2>1, QuestionKept DEF Noticing, HistoryIs, Deliver
<1>6. CASE ExpireDeadlines
  <2>1. PICK late : Expiring(late)
    BY <1>6, SweepExpires
  <2>2. /\ x \in inFlight /\ hist'.taken = hist.taken
        /\ \A i \in Ids : queues[i] \subseteq queues'[i]
    BY <2>1 DEF Expiring, HistoryIs, Deliver
  <2>. QED
    BY <1>0, <2>2, QuestionKept
<1>7. CASE Restart
  <2>1. PICK back \in SUBSET Undrained : Reload(back)
    BY <1>7 DEF Restart, Restorable
  <2>2. PICK e \in back : /\ ExpectsResult(e)
                          /\ x = [from |-> e.source, cmd |-> e.cmd, to |-> e.target]
    BY <2>1 DEF Reload, RestoredEdges, EdgesOf
  <2>3. e.target \in Ids
    BY DEF Undrained, IInv, TypeOK, Envelope
  <2>4. e \in queues'[x.to]
    BY <2>1, <2>2, <2>3 DEF Reload
  <2>. QED
    BY <2>2, <2>4 DEF ExpectsResult, Asks
<1>. QED
  BY <1>1, <1>2, <1>3, <1>4, <1>5, <1>6, <1>7, StepKinds

\* An expected result that is still open has its question in the target's inbox
\* or in what the target has drained, whatever was cancelled, swept or restored.
THEOREM QuestionsAreOut == Spec => []QuestionIsOut
<1>1. Init => HistType /\ QuestionIsOut
  BY DEF Init, HistType, NoHist, QuestionIsOut
<1>. QED
  BY <1>1, QuestionStays, HistTypeStays, InvariantHolds, PTL DEF Spec

-------------------------------------------------------------------------------
(***************************************************************************)
(* Letters and notices.  A letter is a message of a call, which has passed *)
(* its sending; inboxes, disk and write queue hold nothing else, notices   *)
(* in the inboxes aside.  A notice is of a system_notify that is over, or  *)
(* of a result that has timed out.                                         *)
(***************************************************************************)
InboxesOK == \A i \in Ids : \A e \in queues[i] : e.target = i /\ e \in hist.sent
LettersOK ==
  \A e \in Letters : /\ Past(e.cmd) /\ req[e.cmd].src = e.source
                     /\ \A f \in Letters : Key(e) = Key(f) => e = f
StoredOK == /\ rows \subseteq Letters
            /\ \A k \in DOMAIN wq : wq[k].envs \subseteq Letters
TiedUp(e) == IF e.irt = None THEN Past(e.cmd)
             ELSE [from |-> e.target, cmd |-> e.irt, to |-> e.about] \in hist.expired
NoticesOK == \A e \in hist.sent : IsNotice(e) => TiedUp(e)
ExpectedOK ==
  \A x \in inFlight \cup hist.answered \cup hist.expired \cup hist.withdrawn : Past(x.cmd)
HandledOK == hist.taken \subseteq hist.sent /\ hist.recalled \subseteq Letters

PostOK == /\ HistType /\ InboxesOK /\ LettersOK /\ StoredOK
          /\ NoticesOK /\ ExpectedOK /\ HandledOK

\* A copy of a sending call is a letter of it, and the call is past afterwards.
LEMMA SendingIsPast ==
  ASSUME IInv, NEW t \in Call, NEW envs, NEW state, NEW asked,
         Sending(t, envs, state, asked)
  PROVE  /\ pc[t] = "lock" /\ pc'[t] = "write" /\ req'[t] = req[t] /\ ~Past(t)
         /\ Started(t) /\ req[t].src \in Ids
         /\ Letters' = Letters \cup envs
         /\ \A e \in envs : /\ e.cmd = t /\ e.source = req[t].src /\ ~IsNotice(e)
                            /\ e \in Envelope
<1>1. /\ pc[t] = "lock" /\ req[t].op \in SenderOps
      /\ pc' = [pc EXCEPT ![t] = "write"] /\ UNCHANGED req
      /\ envs \subseteq MadeBy(t) /\ hist'.sent = hist.sent \cup envs
  BY DEF Sending, SubmitDispatch, CopiesOfCall
<1>2. req[t].src \in Ids
  BY <1>1 DEF IInv, CallsOK, CallOK, Started, WellFormed, SenderOps
<1>3. \A e \in envs : /\ e.cmd = t /\ e.source = req[t].src /\ ~IsNotice(e)
                      /\ e \in Envelope
  BY <1>1, <1>2, DispatcherAssumption DEF MadeBy, IsNotice
<1>4. Letters' = Letters \cup envs
  BY <1>1, <1>3 DEF Letters, IsNotice
<1>. QED
  BY <1>1, <1>2, <1>3, <1>4 DEF Past, PastStages, Started, Finished, IInv, TypeOK

\* Only sending makes letters.
LEMMA LettersGrow ==
  ASSUME IInv, HistType, [Next]_vars
  PROVE  \/ Letters' = Letters
         \/ \E t \in Call : \E envs, state, asked :
              /\ SendStep(t) /\ Sending(t, envs, state, asked)
              /\ Letters' = Letters \cup envs
<1>1. CASE Uneventful \/ Restart
  BY <1>1, RestartForgets DEF Uneventful, Letters
<1>2. ASSUME NEW t \in Call, SendStep(t)
      PROVE  \E envs, state, asked :
               Sending(t, envs, state, asked) /\ Letters' = Letters \cup envs
  BY <1>2, SendersSend, SendingIsPast
<1>3. CASE \E t \in Call : FlushLocked(t) \/ CancelLocked(t)
  <2>1. hist'.sent = hist.sent
    BY <1>3, FlushTakes, CancelRecalls DEF Taking, Recalling, HistoryIs
  <2>. QED
    BY <2>1 DEF Letters
<1>4. ASSUME NEW t \in Call, NotifyLocked(t) PROVE Letters' = Letters
  <2>1. PICK e : Noticing(t, e)
    BY <1>4, NotifyPosts
  <2>2. hist'.sent = hist.sent \cup {e} /\ IsNotice(e)
    BY <2>1 DEF Noticing, HistoryIs, IsNotice, Notice
  <2>. QED
    BY <2>2 DEF Letters, IsNotice
<1>5. CASE ExpireDeadlines
  <2>1. PICK late : Expiring(late)
    BY <1>5, SweepExpires
  <2>2. /\ hist'.sent = hist.sent \cup {TimeoutNotice(x) : x \in late}
        /\ \A x \in late : TimeoutNotice(x).source = System
    BY <2>1 DEF Expiring, HistoryIs, TimeoutNotice, Notice
  <2>. QED
    BY <2>2 DEF Letters, IsNotice
<1>. QED
  BY <1>1, <1>2, <1>3, <1>4, <1>5, StepKinds

\* Whoever is past stays past, with the arguments it has.
LEMMA PastStays ==
  ASSUME IInv, [Next]_vars, NEW u \in Call, Past(u)
  PROVE  Past(u)' /\ req'[u] = req[u]
<1>1. Started(u)
  BY DEF Past, PastStages, Started, Finished
<1>. QED
  BY <1>1, GoesForth DEF Forth, Past, PastStages, Finished

\* LettersOK is kept.
LEMMA LettersStay == IInv /\ HistType /\ LettersOK /\ [Next]_vars => LettersOK'
<1>. SUFFICES ASSUME IInv, HistType, LettersOK, [Next]_vars PROVE LettersOK'
  OBVIOUS
<1>1. \A e \in Letters : e.cmd \in Call
  BY DEF Letters, HistType, Envelope
<1>2. \A e \in Letters : Past(e.cmd)' /\ req'[e.cmd].src = e.source
  BY <1>1, PastStays DEF LettersOK
<1>3. CASE Letters' = Letters
  BY <1>2, <1>3 DEF LettersOK, Key
<1>4. ASSUME NEW t \in Call, NEW envs, NEW state, NEW asked,
             Sending(t, envs, state, asked), Letters' = Letters \cup envs
      PROVE  LettersOK'
  <2>1. /\ ~Past(t) /\ pc'[t] = "write" /\ req'[t] = req[t]
        /\ \A e \in envs : e.cmd = t /\ e.source = req[t].src
    BY <1>4, SendingIsPast
  <2>2. \A e \in Letters : e.cmd # t
    BY <2>1 DEF LettersOK
  <2>3. \A e, f \in envs : Key(e) = Key(f) => e = f
    BY <1>4 DEF Sending, CopiesOfCall, Key
  <2>4. \A e, f \in Letters' : Key(e) = Key(f) => e = f
    BY <1>4, <2>1, <2>2, <2>3 DEF LettersOK, Key
  <2>5. \A e \in Letters' : Past(e.cmd)' /\ req'[e.cmd].src = e.source
    BY <1>2, <1>4, <2>1 DEF Past, PastStages
  <2>. QED
    BY <2>4, <2>5 DEF LettersOK, Key
<1>. QED
  BY <1>3, <1>4, LettersGrow

\* A transaction of the write queue was there before, or carries no messages, or
\* carries those that are sent in this step.
LEMMA WritesCome ==
  ASSUME IInv, HistType, [Next]_vars, NEW k \in DOMAIN wq'
  PROVE  \/ \E j \in DOMAIN wq : wq'[k] = wq[j]
         \/ wq'[k].envs = {}
         \/ \E t \in Call : \E envs, state, asked :
              Sending(t, envs, state, asked) /\ wq'[k].envs = envs
<1>1. wq \in Seq(Txn)
  BY DEF IInv, TypeOK
<1>2. CASE UNCHANGED wq
  BY <1>2
<1>3. CASE wq # <<>> /\ wq' = Tail(wq)
  BY <1>1, <1>3, TailElements
<1>4. ASSUME NEW x \in Txn, wq' = Append(wq, x)
      PROVE  wq'[k] = x \/ \E j \in DOMAIN wq : wq'[k] = wq[j]
  BY <1>1, <1>4, AppendElements
<1>5. ASSUME NEW t \in Call, SendStep(t)
      PROVE  \/ \E j \in DOMAIN wq : wq'[k] = wq[j]
             \/ \E envs, state, asked :
                  Sending(t, envs, state, asked) /\ wq'[k].envs = envs
  <2>1. PICK envs, state, asked : Sending(t, envs, state, asked)
    BY <1>5, SendersSend
  <2>. DEFINE x == [by |-> t, kind |-> "dispatch", conv |-> res[t].conv,
                    isNew |-> res[t].isNew, status |-> state.status,
                    envs |-> envs, marks |-> {}]
  <2>2. wq' = Append(wq, x) /\ x.envs = envs
    BY <2>1 DEF Sending, SubmitDispatch
  <2>. HIDE DEF x
  <2>3. wq'[k] = x \/ \E j \in DOMAIN wq : wq'[k] = wq[j]
    <3>1. wq \in Seq(Txn \cup {x})
      BY <1>1
    <3>2. x \in Txn \cup {x}
      OBVIOUS
    <3>. QED
      BY <2>2, <3>1, <3>2, AppendElements
  <2>. QED
    BY <2>1, <2>2, <2>3
<1>6. ASSUME NEW t \in Call,
             FlushLocked(t) \/ CancelLocked(t) \/ OperatorCloseLocked(t)
      PROVE  (\E j \in DOMAIN wq : wq'[k] = wq[j]) \/ wq'[k].envs = {}
  <2>1. \/ UNCHANGED wq
        \/ \E x : x.envs = {} /\ wq' = Append(wq, x)
    BY <1>6 DEF FlushLocked, CancelLocked, OperatorCloseLocked, LeaveToWrite, Marks
  <2>2. ASSUME NEW x, x.envs = {}, wq' = Append(wq, x)
        PROVE  (\E j \in DOMAIN wq : wq'[k] = wq[j]) \/ wq'[k].envs = {}
    <3>1. wq \in Seq(Txn \cup {x})
      BY <1>1
    <3>2. x \in Txn \cup {x}
      OBVIOUS
    <3>. QED
      BY <2>2, <3>1, <3>2, AppendElements
  <2>. QED
    BY <2>1, <2>2
<1>7. CASE Enter
  <2>1. UNCHANGED disk
    BY <1>7 DEF Enter, EnterWith, EnterDispatch, EnterReply, EnterBroadcast,
       EnterEmit, EnterMailbox, EnterCancel, EnterCloseThread, EnterOperatorClose,
       EnterShutdown
  <2>. QED
    BY <1>2, <2>1 DEF disk
<1>8. ASSUME NEW t \in Call, Step(t)
      PROVE  \/ UNCHANGED wq \/ SendStep(t)
             \/ FlushLocked(t) \/ CancelLocked(t) \/ OperatorCloseLocked(t)
  BY <1>8 DEF Step, SendStep, DispatchTurnedDown, TurnedDown, Resume, WaitLocked,
     Woken, TimedOutLocked, Report, ShutdownLocked, NextClosing, NotifyLocked,
     AllClosingsSent, CloseThreadLocked, disk
<1>9. CASE Restart
  BY <1>9 DEF Restart
<1>. QED
  BY <1>2, <1>3, <1>5, <1>6, <1>7, <1>8, <1>9 DEF Next, TimeOut, Commit, WriteError,
     ExpireDeadlines, CloseTTL, MessageGC, Rest, vars, disk

\* Rows come from the write queue.
LEMMA RowsCome ==
  ASSUME IInv, [Next]_vars
  PROVE  \/ rows' \subseteq rows
         \/ Commit /\ wq # <<>> /\ rows' \subseteq rows \cup Head(wq).envs
<1>1. CASE Enter
  BY <1>1 DEF Enter, EnterWith, EnterDispatch, EnterReply, EnterBroadcast,
     EnterEmit, EnterMailbox, EnterCancel, EnterCloseThread, EnterOperatorClose,
     EnterShutdown, disk
<1>2. ASSUME NEW t \in Call, Step(t) PROVE UNCHANGED rows
  BY <1>2 DEF Step, DispatchLocked, BroadcastLocked, EmitLocked, FlushLocked,
     CancelLocked, OperatorCloseLocked, DispatchTurnedDown, TurnedDown, Resume,
     WaitLocked, Woken, TimedOutLocked, Report, ShutdownLocked, NextClosing,
     NotifyLocked, AllClosingsSent, CloseThreadLocked, SubmitDispatch, disk
<1>. QED
  BY <1>1, <1>2 DEF Next, TimeOut, Commit, WriteError, ExpireDeadlines, CloseTTL,
     MessageGC, Restart, Rest, vars, disk

\* StoredOK is kept.
LEMMA StoredStays == IInv /\ HistType /\ StoredOK /\ [Next]_vars => StoredOK'
<1>. SUFFICES ASSUME IInv, HistType, StoredOK, [Next]_vars PROVE StoredOK'
  OBVIOUS
<1>1. Letters \subseteq Letters'
  BY LettersGrow
<1>2. rows' \subseteq Letters'
  BY <1>1, RowsCome, FirstWrite DEF StoredOK
<1>3. ASSUME NEW k \in DOMAIN wq' PROVE wq'[k].envs \subseteq Letters'
  BY <1>1, WritesCome, SendingIsPast DEF StoredOK
<1>. QED
  BY <1>2, <1>3 DEF StoredOK

\* InboxesOK is kept: what is in an inbox was posted, to that inbox.
LEMMA InboxesStay ==
  IInv /\ HistType /\ InboxesOK /\ StoredOK /\ [Next]_vars => InboxesOK'
<1>. SUFFICES ASSUME IInv, HistType, InboxesOK, StoredOK, [Next]_vars PROVE InboxesOK'
  OBVIOUS
<1>1. CASE Uneventful
  BY <1>1 DEF Uneventful, InboxesOK
<1>2. ASSUME NEW envs, Deliver(envs), hist'.sent = hist.sent \cup envs
      PROVE  InboxesOK'
  BY <1>2 DEF InboxesOK, Deliver
<1>3. ASSUME hist'.sent = hist.sent, \A i \in Ids : queues'[i] \subseteq queues[i]
      PROVE  InboxesOK'
  BY <1>3 DEF InboxesOK
<1>4. ASSUME NEW t \in Call, SendStep(t) PROVE InboxesOK'
  <2>1. \E envs : Deliver(envs) /\ hist'.sent = hist.sent \cup envs
    BY <1>4, SendersSend DEF Sending
  <2>. QED
    BY <1>2, <2>1
<1>5. ASSUME NEW t \in Call, FlushLocked(t) PROVE InboxesOK'
  <2>1. PICK got : Taking(t, got)
    BY <1>5, FlushTakes
  <2>2. hist'.sent = hist.sent /\ queues' = [queues EXCEPT ![req[t].src] = @ \ got]
    BY <2>1 DEF Taking, HistoryIs
  <2>. QED
    BY <1>3, <2>2 DEF IInv, TypeOK
<1>6. ASSUME NEW t \in Call, CancelLocked(t) PROVE InboxesOK'
  <2>1. PICK back : Recalling(t, back)
    BY <1>6, CancelRecalls
  <2>. QED
    BY <1>3, <2>1 DEF Recalling, HistoryIs
<1>7. ASSUME NEW t \in Call, NotifyLocked(t) PROVE InboxesOK'
  BY <1>2, <1>7, NotifyPosts DEF Noticing, HistoryIs
<1>8. CASE ExpireDeadlines
  <2>1. PICK late : Expiring(late)
    BY <1>8, SweepExpires
  <2>. QED
    BY <1>2, <2>1 DEF Expiring, HistoryIs
<1>9. CASE Restart
  <2>1. PICK back \in SUBSET rows : Reload(back)
    BY <1>9 DEF Restart, Restorable, Undrained
  <2>2. back \subseteq hist'.sent
    BY <1>9, <2>1, RestartForgets DEF StoredOK, HistoryIs
  <2>. QED
    BY <2>1, <2>2 DEF Reload, InboxesOK
<1>. QED
  BY <1>1, <1>4, <1>5, <1>6, <1>7, <1>8, <1>9, StepKinds

\* HandledOK is kept: what was taken or recalled was in an inbox.
LEMMA HandledStays ==
  IInv /\ HistType /\ InboxesOK /\ HandledOK /\ [Next]_vars => HandledOK'
<1>. SUFFICES ASSUME IInv, HistType, InboxesOK, HandledOK, [Next]_vars PROVE HandledOK'
  OBVIOUS
<1>0. Letters \subseteq Letters'
  BY LettersGrow
<1>1. CASE Uneventful \/ Restart
  BY <1>0, <1>1, RestartForgets DEF Uneventful, HistoryIs, HandledOK
<1>2. ASSUME hist.sent \subseteq hist'.sent, hist'.taken = hist.taken,
             hist'.recalled = hist.recalled
      PROVE  HandledOK'
  BY <1>0, <1>2 DEF HandledOK
<1>3. ASSUME NEW t \in Call, SendStep(t) PROVE HandledOK'
  <2>1. PICK envs, state, asked : Sending(t, envs, state, asked)
    BY <1>3, SendersSend
  <2>. QED
    BY <1>2, <2>1 DEF Sending
<1>4. ASSUME NEW t \in Call, FlushLocked(t) PROVE HandledOK'
  <2>1. PICK got : Taking(t, got)
    BY <1>4, FlushTakes
  <2>2. got \subseteq hist.sent
    BY <2>1 DEF Taking, InboxesOK
  <2>. QED
    BY <1>0, <2>1, <2>2 DEF Taking, HistoryIs, HandledOK
<1>5. ASSUME NEW t \in Call, CancelLocked(t) PROVE HandledOK'
  <2>1. PICK back : Recalling(t, back)
    BY <1>5, CancelRecalls
  <2>2. back \subseteq Letters
    <3>1. \A y \in inFlight : y.to \in Ids
      BY DEF IInv, TypeOK, Edge
    <3>2. \A e \in back : ~IsNotice(e) /\ \E i \in Ids : e \in queues[i]
      BY <2>1, <3>1 DEF Recalling
    <3>. QED
      BY <3>2 DEF InboxesOK, Letters
  <2>. QED
    BY <1>0, <2>1, <2>2 DEF Recalling, HistoryIs, HandledOK
<1>6. ASSUME NEW t \in Call, NotifyLocked(t) PROVE HandledOK'
  <2>1. PICK e : Noticing(t, e)
    BY <1>6, NotifyPosts
  <2>. QED
    BY <1>2, <2>1 DEF Noticing, HistoryIs
<1>7. CASE ExpireDeadlines
  <2>1. PICK late : Expiring(late)
    BY <1>7, SweepExpires
  <2>. QED
    BY <1>2, <2>1 DEF Expiring, HistoryIs
<1>. QED
  BY <1>1, <1>3, <1>4, <1>5, <1>6, <1>7, StepKinds

\* The edges of a step are old ones, ones the step asks for, or come from rows.
Edges == inFlight \cup hist.answered \cup hist.expired \cup hist.withdrawn

\* No edge comes from anywhere else.
LEMMA EdgesCome ==
  ASSUME IInv, HistType, [Next]_vars, NEW x \in Edges'
  PROVE  \/ x \in Edges
         \/ \E t \in Call : \E envs, state, asked :
              Sending(t, envs, state, asked) /\ x.cmd = t
         \/ \E e \in rows : x.cmd = e.cmd
<1>1. CASE Uneventful
  BY <1>1 DEF Uneventful, Edges
<1>2. ASSUME NEW t \in Call, SendStep(t)
      PROVE  x \in Edges \/ \E envs, state, asked :
                              Sending(t, envs, state, asked) /\ x.cmd = t
  <2>1. PICK envs, state, asked : Sending(t, envs, state, asked)
    BY <1>2, SendersSend
  <2>2. \A y \in Ask(t, asked) : y.cmd = t
    BY DEF Ask
  <2>3. Settled(t) \subseteq inFlight
    BY DEF Settled, Answers
  <2>. QED
    BY <2>1, <2>2, <2>3 DEF Sending, Edges
<1>3. ASSUME NEW t \in Call, FlushLocked(t) PROVE x \in Edges
  BY <1>3, FlushTakes DEF Taking, HistoryIs, Edges
<1>4. ASSUME NEW t \in Call, CancelLocked(t) PROVE x \in Edges
  <2>1. PICK back : Recalling(t, back)
    BY <1>4, CancelRecalls
  <2>. QED
    BY <2>1 DEF Recalling, HistoryIs, Edges
<1>5. ASSUME NEW t \in Call, NotifyLocked(t) PROVE x \in Edges
  BY <1>5, NotifyPosts DEF Noticing, HistoryIs, Edges
<1>6. CASE ExpireDeadlines
  <2>1. PICK late : Expiring(late)
    BY <1>6, SweepExpires
  <2>. QED
    BY <2>1 DEF Expiring, HistoryIs, Edges
<1>7. CASE Restart
  <2>1. PICK back \in SUBSET rows : Reload(back)
    BY <1>7 DEF Restart, Restorable, Undrained
  <2>2. \A y \in inFlight' : \E e \in back :
          y = [from |-> e.source, cmd |-> e.cmd, to |-> e.target]
    BY <2>1 DEF Reload, RestoredEdges, EdgesOf
  <2>3. hist'.answered = {} /\ hist'.expired = {} /\ hist'.withdrawn = {}
    BY <1>7, RestartForgets DEF HistoryIs
  <2>. QED
    BY <2>2, <2>3 DEF Edges
<1>. QED
  BY <1>1, <1>2, <1>3, <1>4, <1>5, <1>6, <1>7, StepKinds

\* ExpectedOK is kept: results are expected of commands that were sent.
LEMMA ExpectedStays ==
  IInv /\ HistType /\ StoredOK /\ LettersOK /\ ExpectedOK /\ [Next]_vars => ExpectedOK'
<1>. SUFFICES ASSUME IInv, HistType, StoredOK, LettersOK, ExpectedOK, [Next]_vars,
                     NEW x \in Edges'
              PROVE  Past(x.cmd)'
  BY DEF ExpectedOK, Edges
<1>1. CASE x \in Edges
  <2>1. Past(x.cmd) /\ x.cmd \in Call
    BY <1>1 DEF ExpectedOK, Edges, IInv, TypeOK, HistType, Edge
  <2>. QED
    BY <2>1, PastStays
<1>2. CASE \E t \in Call : \E envs, state, asked :
             Sending(t, envs, state, asked) /\ x.cmd = t
  BY <1>2, SendingIsPast DEF Past, PastStages
<1>3. CASE \E e \in rows : x.cmd = e.cmd
  <2>1. Past(x.cmd) /\ x.cmd \in Call
    BY <1>3 DEF StoredOK, LettersOK, Letters, HistType, Envelope
  <2>. QED
    BY <2>1, PastStays
<1>. QED
  BY <1>1, <1>2, <1>3, EdgesCome

\* NoticesOK is kept.
LEMMA NoticesStay == IInv /\ HistType /\ NoticesOK /\ [Next]_vars => NoticesOK'
<1>. SUFFICES ASSUME IInv, HistType, NoticesOK, [Next]_vars,
                     NEW e \in hist'.sent, IsNotice(e)
              PROVE  TiedUp(e)'
  BY DEF NoticesOK, IsNotice
<1>0. hist.sent \subseteq Envelope
  BY DEF HistType
<1>1. ASSUME e \in hist.sent, hist.expired \subseteq hist'.expired PROVE TiedUp(e)'
  <2>1. TiedUp(e) /\ e.cmd \in Call
    BY <1>0, <1>1 DEF NoticesOK, Envelope
  <2>. QED
    BY <1>1, <2>1, PastStays DEF TiedUp
<1>2. CASE Uneventful
  BY <1>1, <1>2 DEF Uneventful
<1>7. ~Restart
  BY RestartForgets DEF HistoryIs, Letters
<1>3. ASSUME NEW t \in Call, SendStep(t) PROVE TiedUp(e)'
  <2>1. PICK envs, state, asked : Sending(t, envs, state, asked)
    BY <1>3, SendersSend
  <2>2. e \in hist.sent /\ hist'.expired = hist.expired
    BY <2>1, SendingIsPast DEF Sending
  <2>. QED
    BY <1>1, <2>2
<1>4. ASSUME NEW t \in Call, FlushLocked(t) \/ CancelLocked(t) PROVE TiedUp(e)'
  <2>1. e \in hist.sent /\ hist'.expired = hist.expired
    BY <1>4, FlushTakes, CancelRecalls DEF Taking, Recalling, HistoryIs
  <2>. QED
    BY <1>1, <2>1
<1>5. ASSUME NEW t \in Call, NotifyLocked(t) PROVE TiedUp(e)'
  <2>1. PICK f : Noticing(t, f)
    BY <1>5, NotifyPosts
  <2>2. hist'.sent = hist.sent \cup {f} /\ hist'.expired = hist.expired
    BY <2>1 DEF Noticing, HistoryIs
  <2>3. f.irt = None /\ f.cmd = t /\ pc'[t] = "done"
    BY <2>1 DEF Noticing, Notice
  <2>. QED
    BY <1>1, <2>2, <2>3 DEF TiedUp, Past, PastStages, Finished
<1>6. CASE ExpireDeadlines
  <2>1. PICK late : Expiring(late)
    BY <1>6, SweepExpires
  <2>2. /\ hist'.sent = hist.sent \cup {TimeoutNotice(x) : x \in late}
        /\ hist'.expired = hist.expired \cup late /\ late \subseteq inFlight
    BY <2>1 DEF Expiring, HistoryIs
  <2>3. CASE \E x \in late : e = TimeoutNotice(x)
    <3>1. PICK x \in late : e = TimeoutNotice(x)
      BY <2>3
    <3>2. x \in Edge
      BY <2>2 DEF IInv, TypeOK
    <3>3. x = [from |-> e.target, cmd |-> e.irt, to |-> e.about] /\ e.irt \in Call
      BY <3>1, <3>2 DEF TimeoutNotice, Notice, Edge
    <3>4. e.irt # None
      BY <3>3, DispatcherAssumption DEF ConvId
    <3>. QED
      BY <2>2, <3>1, <3>3, <3>4 DEF TiedUp
  <2>. QED
    BY <1>1, <2>2, <2>3
<1>. QED
  BY <1>2, <1>3, <1>4, <1>5, <1>6, <1>7, StepKinds

\* All of PostOK holds at the beginning.
LEMMA PostInit == Init => PostOK
BY DEF Init, NoHist, PostOK, HistType, InboxesOK, LettersOK, Letters, StoredOK,
   NoticesOK, ExpectedOK, HandledOK

\* ... and is kept.
LEMMA PostStays == IInv /\ PostOK /\ [Next]_vars => PostOK'
BY HistTypeStays, InboxesStay, LettersStay, StoredStays, NoticesStay, ExpectedStays,
   HandledStays DEF PostOK

\* Whatever is in an inbox, on disk or on its way there was posted by the call
\* whose id it has, one per call and target.
THEOREM PostHolds == Spec => []PostOK
BY PostInit, PostStays, InvariantHolds, PTL DEF Spec

-------------------------------------------------------------------------------
(***************************************************************************)
(* MatrixIsRespected: the matrix is looked at when a dispatch starts, the  *)
(* message goes out when it has the lock.                                  *)
(***************************************************************************)
AskedAllowed ==
  \A t \in Call : pc[t] = "lock" /\ req[t].op = "dispatch" /\ req[t].tgt \in Workers
                    => <<req[t].src, req[t].tgt>> \in Allowed

\* A dispatch that waits for the lock has passed the matrix.
LEMMA AskedAllowedStays ==
  IInv /\ OrderInv /\ AskedAllowed /\ [Next]_vars => AskedAllowed'
<1>. SUFFICES ASSUME IInv, OrderInv, AskedAllowed, [Next]_vars, NEW t \in Call,
                     pc'[t] = "lock", req'[t].op = "dispatch", req'[t].tgt \in Workers
              PROVE  <<req'[t].src, req'[t].tgt>> \in Allowed
  BY DEF AskedAllowed
<1>1. CASE pc[t] = "idle"
  BY <1>1, NewcomersAreLetIn DEF LetIn, DispatchRefused
<1>2. CASE pc[t] # "idle"
  <2>1. KeepsKnowledge(t)
    BY <1>2, StayersKeepKnowledge
  <2>2. pc[t] = "loop" => req[t].op = "close_thread"
    BY DEF IInv, CallsOK, CallOK, Started
  <2>. QED
    BY <2>1, <2>2 DEF KeepsKnowledge, AskedAllowed
<1>. QED
  BY <1>1, <1>2

\* A primary message of a sending worker goes where the matrix lets it.
LEMMA SendingIsAllowed ==
  ASSUME IInv, AskedAllowed, NEW t \in Call, NEW envs, NEW state, NEW asked,
         Sending(t, envs, state, asked), NEW e \in envs,
         e.as = "primary", e.source \in Workers, e.target \in Workers
  PROVE  <<e.source, e.target>> \in Allowed
<1>1. /\ pc[t] = "lock" /\ req[t].op \in SenderOps /\ e.source = req[t].src
      /\ e.target \in Addressed(t)
  BY DEF Sending, CopiesOfCall, MadeBy
<1>2. CASE req[t].op = "dispatch"
  BY <1>1, <1>2 DEF Addressed, AskedAllowed
<1>3. CASE req[t].op = "broadcast"
  BY <1>1, <1>3 DEF Addressed, Permitted
<1>4. CASE req[t].op = "emit"
  BY <1>1, <1>4, DispatcherAssumption DEF IInv, CallsOK, CallOK, Started, WellFormed
<1>. QED
  BY <1>1, <1>2, <1>3, <1>4 DEF SenderOps

\* A worker gets no primary message from a worker that may not write to it,
\* whichever handler carries it: dispatch and reply, which ask the matrix before
\* they wait for the lock, broadcast, which asks under it, close_thread's dispatches.
THEOREM MatrixHolds == Spec => []MatrixIsRespected
<1>1. Init => AskedAllowed /\ MatrixIsRespected
  BY DEF Init, NoHist, AskedAllowed, MatrixIsRespected
<1>2. IInv /\ OrderInv /\ HistType /\ AskedAllowed /\ MatrixIsRespected /\ [Next]_vars
        => MatrixIsRespected'
  <2>. SUFFICES ASSUME IInv, OrderInv, HistType, AskedAllowed, MatrixIsRespected,
                       [Next]_vars, NEW e \in hist'.sent, e.as = "primary",
                       e.source \in Workers, e.target \in Workers
                PROVE  <<e.source, e.target>> \in Allowed
    BY DEF MatrixIsRespected
  <2>1. e \in Letters'
    BY DispatcherAssumption DEF Letters, IsNotice
  <2>2. CASE e \in Letters
    BY <2>2 DEF MatrixIsRespected, Letters
  <2>. QED
    BY <2>1, <2>2, LettersGrow, SendingIsAllowed
<1>. QED
  BY <1>1, <1>2, AskedAllowedStays, HistTypeStays, PostInit, InvariantHolds,
     OrderHolds, PostHolds, PTL DEF Spec, PostOK

-------------------------------------------------------------------------------
(***************************************************************************)
(* KeepsPromises: the broker implements MessageLife.  A step that touches  *)
(* messages or expected results is a Post, Take, Recall, Expire or Restart *)
(* of MessageLife; every other one stutters.                               *)
(***************************************************************************)
Boxes == UNION {queues[i] : i \in Ids}

OnceOnly == inFlight \cap (hist.answered \cup hist.expired \cup hist.withdrawn) = {}

\* A result is expected, or was answered, timed out or was withdrawn: one of them.
LEMMA OnceOnlyStays ==
  IInv /\ PostOK /\ OnceOnly /\ [Next]_vars => OnceOnly'
<1>. SUFFICES ASSUME IInv, PostOK, OnceOnly, [Next]_vars PROVE OnceOnly'
  OBVIOUS
<1>0. HistType
  BY DEF PostOK
<1>1. CASE Uneventful
  BY <1>1 DEF Uneventful, OnceOnly
<1>2. ASSUME NEW t \in Call, SendStep(t) PROVE OnceOnly'
  <2>1. PICK envs, state, asked : Sending(t, envs, state, asked)
    BY <1>0, <1>2, SendersSend
  <2>2. \A x \in Ask(t, asked) : x.cmd = t
    BY DEF Ask
  <2>3. ~Past(t) /\ Settled(t) \subseteq inFlight
    BY <2>1, SendingIsPast DEF Settled, Answers
  <2>4. \A x \in Edges : x.cmd # t
    BY <2>3 DEF PostOK, ExpectedOK, Edges
  <2>5. Ask(t, asked) \cap Edges = {}
    BY <2>2, <2>4
  <2>. QED
    BY <2>1, <2>3, <2>5 DEF Sending, OnceOnly, Edges
<1>3. ASSUME NEW t \in Call, FlushLocked(t) PROVE OnceOnly'
  BY <1>0, <1>3, FlushTakes DEF Taking, HistoryIs, OnceOnly
<1>4. ASSUME NEW t \in Call, CancelLocked(t) PROVE OnceOnly'
  <2>1. PICK back : Recalling(t, back)
    BY <1>0, <1>4, CancelRecalls
  <2>. QED
    BY <2>1 DEF Recalling, HistoryIs, OnceOnly
<1>5. ASSUME NEW t \in Call, NotifyLocked(t) PROVE OnceOnly'
  BY <1>0, <1>5, NotifyPosts DEF Noticing, HistoryIs, OnceOnly
<1>6. CASE ExpireDeadlines
  <2>1. PICK late : Expiring(late)
    BY <1>0, <1>6, SweepExpires
  <2>. QED
    BY <2>1 DEF Expiring, HistoryIs, OnceOnly
<1>7. CASE Restart
  BY <1>0, <1>7, RestartForgets DEF HistoryIs, OnceOnly
<1>. QED
  BY <1>1, <1>2, <1>3, <1>4, <1>5, <1>6, <1>7, StepKinds

\* What is delivered comes on top of what is in the inboxes.
LEMMA DeliverFillsBoxes ==
  ASSUME NEW envs \in SUBSET Envelope, Deliver(envs)
  PROVE  Boxes' = Boxes \cup envs
<1>1. \A e \in envs : e.target \in Ids
  BY DEF Envelope
<1>2. queues' = [i \in Ids |-> queues[i] \cup {e \in envs : e.target = i}]
  BY DEF Deliver
<1>. QED
  BY <1>1, <1>2 DEF Boxes

\* There are finitely many edges.
LEMMA EdgesAreFinite == IsFiniteSet(Edge)
<1>1. IsFiniteSet(Call)
  BY FS_Interval, MaxCallsAssumption DEF Call
<1>2. IsFiniteSet(Call \X Ids)
  BY <1>1, DispatcherAssumption, FS_Product
<1>3. IsFiniteSet(Ids \X (Call \X Ids))
  BY <1>2, DispatcherAssumption, FS_Product
<1>. DEFINE S == Ids \X (Call \X Ids)
            g == [p \in S |-> [from |-> p[1], cmd |-> p[2][1], to |-> p[2][2]]]
<1>4. g \in [S -> Edge]
  BY DEF Edge
<1>5. ASSUME NEW x \in Edge PROVE \E p \in S : g[p] = x
  <2>1. <<x.from, <<x.cmd, x.to>>>> \in S /\ x = [from |-> x.from, cmd |-> x.cmd, to |-> x.to]
    BY DEF Edge
  <2>2. g[<<x.from, <<x.cmd, x.to>>>>] = [from |-> x.from, cmd |-> x.cmd, to |-> x.to]
    BY <2>1
  <2>. QED
    BY <2>1, <2>2
<1>6. g \in Surjection(S, Edge)
  BY <1>4, <1>5, Fun_IsSurj
<1>. QED
  BY <1>3, <1>6, FS_Surjection

\* The notices of different results that time out are different.
LEMMA NoticesCount ==
  ASSUME NEW late \in SUBSET Edge
  PROVE  /\ IsFiniteSet({TimeoutNotice(x) : x \in late})
         /\ Cardinality({TimeoutNotice(x) : x \in late}) = Cardinality(late)
<1>. DEFINE T == {TimeoutNotice(x) : x \in late}
            f == [x \in late |-> TimeoutNotice(x)]
<1>1. IsFiniteSet(late)
  BY EdgesAreFinite, FS_Subset
<1>2. \A x \in late : /\ x = [from |-> x.from, cmd |-> x.cmd, to |-> x.to]
                      /\ TimeoutNotice(x).target = x.from
                      /\ TimeoutNotice(x).irt = x.cmd
                      /\ TimeoutNotice(x).about = x.to
  BY DEF TimeoutNotice, Notice, Edge
<1>3. \A x, y \in late : TimeoutNotice(x) = TimeoutNotice(y) => x = y
  BY <1>2
<1>4. f \in [late -> T] /\ \A x \in late : f[x] = TimeoutNotice(x)
  OBVIOUS
<1>5. \A e \in T : \E x \in late : e = f[x]
  BY <1>4
<1>. HIDE DEF T, f
<1>6. f \in Surjection(late, T) /\ f \in Injection(late, T)
  BY <1>3, <1>4, <1>5, Fun_IsSurj, Fun_IsInj
<1>. QED
  BY <1>1, <1>6, FS_Surjection DEF T

\* A sending step posts.
LEMMA SendingPosts ==
  ASSUME IInv, PostOK, NEW t \in Call, SendStep(t)
  PROVE  Mailbox!Post
<1>1. PICK envs, state, asked : Sending(t, envs, state, asked)
  BY SendersSend DEF PostOK
<1>2. /\ ~Past(t) /\ req[t].src \in Ids
      /\ \A e \in envs : /\ e.cmd = t /\ e.source = req[t].src /\ ~IsNotice(e)
                         /\ e \in Envelope
  BY <1>1, SendingIsPast
<1>3. \A e \in hist.sent : e \notin envs
  BY <1>2 DEF PostOK, LettersOK, Letters
<1>4. hist'.sent \ hist.sent = envs
  BY <1>1, <1>3 DEF Sending
<1>5. Boxes' = Boxes \cup envs
  BY <1>1, <1>2, DeliverFillsBoxes DEF Sending
<1>6. inFlight \ inFlight' = Settled(t)
  <2>1. \A x \in Ask(t, asked) : x.cmd = t
    BY DEF Ask
  <2>2. Settled(t) \subseteq inFlight
    BY DEF Settled, Answers
  <2>. QED
    BY <1>1, <2>2 DEF Sending
<1>7. \A x \in inFlight' \ inFlight : /\ x.cmd = t /\ x.from = req[t].src
                                      /\ x.to \in asked
  BY <1>1 DEF Sending, Ask
<1>8. envs \cap (hist.taken \cup hist.recalled) = {}
  BY <1>3 DEF PostOK, HandledOK, Letters
<1>9. ASSUME NEW x \in inFlight' \ inFlight
      PROVE  /\ \E m \in envs : /\ m.cmd = x.cmd /\ m.target = x.to
                                /\ m.source = x.from /\ m.er
             /\ x \notin hist.answered \cup hist.expired \cup hist.withdrawn
  <2>1. \E m \in envs : m.target = x.to /\ m.er
    BY <1>1, <1>7 DEF Sending
  <2>2. x \notin hist.answered \cup hist.expired \cup hist.withdrawn
    BY <1>2, <1>7 DEF PostOK, ExpectedOK
  <2>. QED
    BY <1>2, <1>7, <2>1, <2>2
<1>10. \A m \in envs, x \in inFlight \ inFlight' : m.source = x.to /\ m.irt = x.cmd
  <2>1. \A x \in Settled(t) : x.to = req[t].src /\ x.cmd = req[t].irt
    BY DEF Settled, Answers
  <2>2. \A m \in envs : m.irt = req[t].irt
    BY <1>1 DEF Sending, CopiesOfCall
  <2>. QED
    BY <1>2, <1>6, <2>1, <2>2
<1>. QED
  BY <1>1, <1>4, <1>5, <1>6, <1>8, <1>9, <1>10
  DEF Sending, Boxes, Mailbox!Post, Mailbox!New, Mailbox!NewlyAsked,
      Mailbox!NoLongerAsked, Mailbox!AskedBy

\* So does a notice.
LEMMA NotifyingPosts ==
  ASSUME IInv, PostOK, NEW t \in Call, NotifyLocked(t)
  PROVE  Mailbox!Post
<1>1. PICK e : Noticing(t, e)
  BY NotifyPosts DEF PostOK
<1>2. e \notin hist.sent
  <2>1. IsNotice(e) /\ e.irt = None /\ e.cmd = t
    BY <1>1 DEF Noticing, Notice, IsNotice
  <2>2. ~Past(t)
    BY <1>1 DEF Noticing, Past, PastStages, Finished
  <2>. QED
    BY <2>1, <2>2 DEF PostOK, NoticesOK, TiedUp
<1>3. hist'.sent \ hist.sent = {e} /\ e \notin hist.taken \cup hist.recalled
  BY <1>1, <1>2 DEF Noticing, HistoryIs, PostOK, HandledOK, Letters
<1>4. Boxes' = Boxes \cup {e}
  BY <1>1, DeliverFillsBoxes DEF Noticing
<1>. QED
  BY <1>1, <1>3, <1>4 DEF Noticing, HistoryIs, Boxes, Mailbox!Post, Mailbox!New,
     Mailbox!NewlyAsked, Mailbox!NoLongerAsked

\* What a flush takes leaves the inboxes.
LEMMA TakenLeaves ==
  ASSUME IInv, InboxesOK, NEW t \in Call, NEW got, Taking(t, got)
  PROVE  Boxes' = Boxes \ got /\ got \subseteq Boxes
<1>2. /\ req[t].src \in Ids /\ got \subseteq queues[req[t].src]
      /\ \A i \in Ids : queues'[i] = IF i = req[t].src THEN queues[i] \ got ELSE queues[i]
  BY DEF Taking, IInv, TypeOK
<1>3. \A i \in Ids : \A e \in queues[i] : e.target = i
  BY DEF InboxesOK
<1>4. Boxes' = Boxes \ got /\ got \subseteq Boxes
  <2>1. /\ \A e : e \in Boxes <=> \E i \in Ids : e \in queues[i]
        /\ \A e : e \in Boxes' <=> \E i \in Ids : e \in queues'[i]
    BY DEF Boxes
  <2>2. ASSUME NEW i \in Ids, NEW e
        PROVE  e \in queues'[i] <=> e \in queues[i] /\ e \notin got
    <3>1. CASE i = req[t].src
      BY <1>2, <3>1
    <3>2. CASE i # req[t].src
      <4>1. queues'[i] = queues[i] /\ (e \in queues[i] => e.target = i)
        BY <1>2, <1>3, <3>2
      <4>2. e \in got => e.target = req[t].src
        BY <1>2, <1>3
      <4>. QED
        BY <3>2, <4>1, <4>2
    <3>. QED
      BY <3>1, <3>2
  <2>. HIDE DEF Boxes
  <2>. QED
    BY <1>2, <2>1, <2>2
<1>. QED
  BY <1>4

\* A flush takes.
LEMMA FlushingTakes ==
  ASSUME IInv, PostOK, NEW t \in Call, FlushLocked(t)
  PROVE  Mailbox!Take
<1>1. PICK got : Taking(t, got)
  BY FlushTakes DEF PostOK
<1>2. Boxes' = Boxes \ got /\ got \subseteq Boxes
  BY <1>1, TakenLeaves DEF PostOK
<1>. QED
  BY <1>1, <1>2 DEF Taking, HistoryIs, Boxes, Mailbox!Take

\* What a cancel recalls leaves the inboxes.
LEMMA RecalledLeaves ==
  ASSUME IInv, NEW t \in Call, NEW back, Recalling(t, back)
  PROVE  Boxes' = Boxes \ back /\ back \subseteq Boxes
BY DEF Recalling, Boxes, IInv, TypeOK, Edge

\* A cancel recalls.
LEMMA CancellingRecalls ==
  ASSUME IInv, PostOK, NEW t \in Call, CancelLocked(t)
  PROVE  Mailbox!Recall
<1>1. PICK back : Recalling(t, back)
  BY CancelRecalls DEF PostOK
<1>. DEFINE edges == {x \in inFlight : x.cmd = req[t].irt}
<1>2. /\ \A e \in back : /\ e.cmd = req[t].irt
                         /\ \E x \in edges : e \in queues[x.to]
      /\ queues' = [i \in Ids |-> queues[i] \ back]
      /\ inFlight' = inFlight \ edges
  BY <1>1 DEF Recalling
<1>3. \A x \in inFlight : x.to \in Ids
  BY DEF IInv, TypeOK, Edge
<1>4. \A i \in Ids : \A e \in queues[i] : e.target = i
  BY DEF PostOK, InboxesOK
<1>5. Boxes' = Boxes \ back /\ back \subseteq Boxes
  BY <1>1, RecalledLeaves
<1>6. \A e \in back : \E x \in edges : e.cmd = x.cmd /\ e.target = x.to
  BY <1>2, <1>3, <1>4
<1>7. inFlight \ inFlight' = edges
  BY <1>2
<1>. QED
  BY <1>1, <1>5, <1>6, <1>7 DEF Recalling, HistoryIs, Boxes, Mailbox!Recall,
     Mailbox!NoLongerAsked

\* A sweep expires: one notice for each result.
LEMMA SweepingExpires ==
  ASSUME IInv, PostOK, OnceOnly, ExpireDeadlines
  PROVE  Mailbox!Expire
<1>1. PICK late : Expiring(late)
  BY SweepExpires DEF PostOK
<1>. DEFINE envs == {TimeoutNotice(x) : x \in late}
<1>2. /\ late \subseteq inFlight /\ late \subseteq Edge /\ envs \subseteq Envelope
      /\ Deliver(envs) /\ inFlight' = inFlight \ late
      /\ HistoryIs(hist.sent \cup envs, hist.taken, hist.recalled,
                   hist.answered, hist.expired \cup late, hist.withdrawn)
  BY <1>1 DEF Expiring, IInv, TypeOK
<1>3. ASSUME NEW x \in late
      PROVE  /\ TimeoutNotice(x) \notin hist.sent
             /\ TimeoutNotice(x).source = System
             /\ TimeoutNotice(x).target = x.from
             /\ TimeoutNotice(x).irt = x.cmd
             /\ TimeoutNotice(x).about = x.to
  <2>1. /\ TimeoutNotice(x).source = System
        /\ TimeoutNotice(x).target = x.from
        /\ TimeoutNotice(x).irt = x.cmd
        /\ TimeoutNotice(x).about = x.to
    BY DEF TimeoutNotice, Notice
  <2>2. x \in Edge /\ x \notin hist.expired
    BY <1>2 DEF OnceOnly
  <2>3. x = [from |-> x.from, cmd |-> x.cmd, to |-> x.to] /\ x.cmd # None
    BY <2>2, DispatcherAssumption DEF Edge, ConvId
  <2>. QED
    BY <2>1, <2>2, <2>3 DEF PostOK, NoticesOK, IsNotice, TiedUp
<1>4. /\ \A e \in envs : e \notin hist.sent /\ e.source = System
      /\ \A x \in late : \E e \in envs : e.target = x.from /\ e.irt = x.cmd
                                         /\ e.about = x.to
  BY <1>3
<1>5. Cardinality(envs) = Cardinality(late)
  BY <1>2, NoticesCount
<1>. HIDE DEF envs
<1>6. hist'.sent \ hist.sent = envs /\ inFlight \ inFlight' = late
  BY <1>2, <1>4 DEF HistoryIs
<1>7. Boxes' = Boxes \cup envs
  BY <1>2, DeliverFillsBoxes
<1>8. /\ Cardinality(hist'.sent \ hist.sent) = Cardinality(inFlight \ inFlight')
      /\ \A m \in hist'.sent \ hist.sent : m.source = System
      /\ \A x \in inFlight \ inFlight' : \E m \in hist'.sent \ hist.sent :
           m.target = x.from /\ m.irt = x.cmd /\ m.about = x.to
  <2>1. Cardinality(hist'.sent \ hist.sent) = Cardinality(inFlight \ inFlight')
    BY <1>5, <1>6
  <2>. QED
    BY <1>4, <1>6, <2>1
<1>9. /\ hist.sent \subseteq hist'.sent /\ inFlight' \subseteq inFlight
      /\ hist'.expired = hist.expired \cup (inFlight \ inFlight')
      /\ Boxes' = Boxes \cup (hist'.sent \ hist.sent)
  BY <1>2, <1>6, <1>7 DEF HistoryIs
<1>10. \A S : Mailbox!Cardinality(S) = Cardinality(S)
  BY DEF Cardinality, Mailbox!Cardinality, IsFiniteSet, Mailbox!IsFiniteSet
<1>. QED
  BY <1>2, <1>8, <1>9, <1>10 DEF HistoryIs, Boxes, Mailbox!Expire, Mailbox!New,
     Mailbox!NoLongerAsked

\* What a restart puts back are rows: letters, each in its target's inbox.
LEMMA RestartPutsBack ==
  ASSUME IInv, PostOK, Restart
  PROVE  \E back : /\ back \subseteq Undrained /\ Reload(back)
                   /\ Boxes' = back
<1>1. PICK back : back \subseteq Undrained /\ Reload(back)
  <2>1. PICK restore \in RestoreModes : Reload(IF restore THEN Restorable ELSE {})
    BY DEF Restart
  <2>. DEFINE back == IF restore THEN Restorable ELSE {}
  <2>2. back \subseteq Undrained
    BY DEF Restorable
  <2>. HIDE DEF back
  <2>3. Reload(back)
    BY <2>1 DEF back
  <2>. QED
    BY <2>2, <2>3
<1>2. queues' = [i \in Ids |-> {e \in back : e.target = i}]
  BY <1>1 DEF Reload
<1>3. \A e \in back : e.target \in Ids
  BY <1>1 DEF Undrained, IInv, TypeOK, Envelope
<1>4. Boxes' = back
  BY <1>2, <1>3 DEF Boxes
<1>. QED
  BY <1>1, <1>4

\* A restart of the broker is a restart of MessageLife: what is expected again is
\* asked for by what was put back.
LEMMA RestartingRestarts ==
  ASSUME IInv, PostOK, Restart
  PROVE  Mailbox!Restart
<1>1. PICK back : back \subseteq Undrained /\ Reload(back) /\ Boxes' = back
  BY RestartPutsBack
<1>2. HistoryIs(Letters, hist.taken \cap Letters, hist.recalled, {}, {}, {})
  BY RestartForgets DEF PostOK
<1>3. /\ Mailbox!Letters(hist.sent) = Letters
      /\ Mailbox!Letters(hist.taken) = hist.taken \cap Letters
  BY DEF Mailbox!Letters, Letters, IsNotice, PostOK, HandledOK
<1>4. Boxes' \subseteq hist'.sent
  BY <1>1, <1>2 DEF Undrained, PostOK, StoredOK, HistoryIs
<1>5. \A x \in inFlight' : Mailbox!AskedBy(x, Boxes')
  BY <1>1 DEF Reload, RestoredEdges, EdgesOf, ExpectsResult, Mailbox!AskedBy
<1>. QED
  BY <1>2, <1>3, <1>4, <1>5 DEF HistoryIs, Boxes, Mailbox!Restart

\* Every message that is posted is taken or recalled at most once while the process
\* lives, every result that is asked for is answered, times out or is withdrawn at
\* most once, and whoever waits for one that times out gets exactly one notice; a
\* restart, with --restore or without, brings back nothing that was not posted and
\* expects nothing that what it brings back does not ask for: the broker implements
\* MessageLife.
THEOREM BrokerKeepsPromises == Spec => KeepsPromises
<1>1. Init => Mailbox!Init /\ OnceOnly
  BY DEF Init, NoHist, Mailbox!Init, OnceOnly
<1>2. IInv /\ PostOK /\ OnceOnly /\ [Next]_vars => [Mailbox!Next]_(Mailbox!vars)
  <2>. SUFFICES ASSUME IInv, PostOK, OnceOnly, [Next]_vars
                PROVE  [Mailbox!Next]_(Mailbox!vars)
    OBVIOUS
  <2>1. CASE Uneventful
    BY <2>1 DEF Uneventful, Mailbox!vars
  <2>. QED
    BY <2>1, StepKinds, SendingPosts, NotifyingPosts, FlushingTakes,
       CancellingRecalls, SweepingExpires, RestartingRestarts DEF Mailbox!Next
<1>. QED
  BY <1>1, <1>2, OnceOnlyStays, InvariantHolds, PostHolds, PTL
  DEF Spec, KeepsPromises, Mailbox!Spec

-------------------------------------------------------------------------------
(***************************************************************************)
(* CapacityRespected: a handler looks for room before it delivers, and     *)
(* nobody else delivers in between.  So before the copies of the call that *)
(* delivered last, the inbox was not full.  The inboxes stay finite, so    *)
(* that their sizes are numbers.  What a restart restores follows once it  *)
(* is known what is on disk.                                               *)
(***************************************************************************)
LettersIn(i) == {e \in queues[i] : ~IsNotice(e)}
Bounded == \A i \in Ids : IsFiniteSet(queues[i]) /\ Fits(LettersIn(i))

\* Part of what fits fits.
LEMMA PartFits ==
  ASSUME NEW S, IsFiniteSet(S), Fits(S), NEW T, T \subseteq S
  PROVE  IsFiniteSet(T) /\ Fits(T)
<1>1. PICK t \in 0..MaxCalls : Cardinality({e \in S : e.cmd # t}) < MaxInboxDepth
  BY DEF Fits
<1>. DEFINE U == {e \in S : e.cmd # t}
            V == {e \in T : e.cmd # t}
<1>2. IsFiniteSet(T) /\ IsFiniteSet(U) /\ V \subseteq U
  BY FS_Subset
<1>. HIDE DEF U, V
<1>3. IsFiniteSet(V) /\ Cardinality(V) <= Cardinality(U)
  BY <1>2, FS_Subset
<1>4. Cardinality(V) \in Nat /\ Cardinality(U) \in Nat
  BY <1>2, <1>3, FS_CardinalityType
<1>5. Cardinality(U) < MaxInboxDepth
  BY <1>1 DEF U
<1>6. Cardinality(V) < MaxInboxDepth
  BY <1>3, <1>4, <1>5, DispatcherAssumption
<1>. QED
  BY <1>2, <1>6 DEF Fits, V

\* Nothing fits.
LEMMA NoneFits == IsFiniteSet({}) /\ Fits({})
<1>1. 0 \in 0..MaxCalls
  BY MaxCallsAssumption
<1>2. {e \in {} : e.cmd # 0} = {}
  OBVIOUS
<1>. QED
  BY <1>1, <1>2, FS_EmptySet, DispatcherAssumption DEF Fits

\* An inbox that loses messages stays within its limit.
LEMMA InboxShrinks ==
  ASSUME NEW i, IsFiniteSet(queues[i]), Fits(LettersIn(i)), queues'[i] \subseteq queues[i]
  PROVE  IsFiniteSet(queues'[i]) /\ Fits(LettersIn(i)')
<1>1. IsFiniteSet(queues'[i]) /\ IsFiniteSet(LettersIn(i))
      /\ LettersIn(i)' \subseteq LettersIn(i)
  BY FS_Subset DEF LettersIn, IsNotice
<1>. QED
  BY <1>1, PartFits

\* The copies that a call sends to an inbox with room fit into it.
LEMMA InboxTakesCopies ==
  ASSUME NEW i, IsFiniteSet(queues[i]), Room(i), NEW t \in Call,
         NEW new, IsFiniteSet(new), \A e \in new : e.cmd = t,
         queues'[i] = queues[i] \cup new
  PROVE  IsFiniteSet(queues'[i]) /\ Fits(LettersIn(i)')
<1>. DEFINE U == {e \in LettersIn(i)' : e.cmd # t}
<1>1. IsFiniteSet(queues'[i])
  BY FS_Union
<1>2. U \subseteq queues[i]
  BY DEF LettersIn
<1>. HIDE DEF U
<1>3. IsFiniteSet(U) /\ Cardinality(U) <= Cardinality(queues[i])
  BY <1>2, FS_Subset
<1>4. Cardinality(U) \in Nat /\ Cardinality(queues[i]) \in Nat
  BY <1>3, FS_CardinalityType
<1>5. Cardinality(U) < MaxInboxDepth
  BY <1>3, <1>4, DispatcherAssumption DEF Room
<1>6. t \in 0..MaxCalls
  BY MaxCallsAssumption DEF Call
<1>. QED
  BY <1>1, <1>5, <1>6 DEF Fits, U

\* Notices do not count.
LEMMA InboxTakesNotices ==
  ASSUME NEW i \in Ids, IsFiniteSet(queues[i]),
         Fits(LettersIn(i)),
         NEW envs, IsFiniteSet(envs), \A e \in envs : IsNotice(e), Deliver(envs)
  PROVE  IsFiniteSet(queues'[i]) /\ Fits(LettersIn(i)')
<1>1. queues'[i] = queues[i] \cup {e \in envs : e.target = i}
  BY DEF Deliver
<1>2. IsFiniteSet({e \in envs : e.target = i})
  BY FS_Subset
<1>3. LettersIn(i)' = LettersIn(i)
  BY <1>1 DEF LettersIn, IsNotice
<1>. QED
  BY <1>1, <1>2, <1>3, FS_Union

\* The inboxes stay within their limit, if what a restart restores does.
LEMMA BoundedStays ==
  IInv /\ HistType /\ Bounded /\ [Next]_vars /\ (Restart => Bounded') => Bounded'
<1>. SUFFICES ASSUME IInv, HistType, Bounded, [Next]_vars, Restart => Bounded',
                     NEW i \in Ids
              PROVE  IsFiniteSet(queues'[i]) /\ Fits(LettersIn(i)')
  BY DEF Bounded
<1>0. IsFiniteSet(queues[i]) /\ Fits(LettersIn(i))
  BY DEF Bounded
<1>1. CASE queues'[i] \subseteq queues[i]
  BY <1>0, <1>1, InboxShrinks
<1>2. ASSUME NEW t \in Call, SendStep(t)
      PROVE  IsFiniteSet(queues'[i]) /\ Fits(LettersIn(i)')
  <2>1. PICK envs, state, asked : Sending(t, envs, state, asked)
    BY <1>2, SendersSend
  <2>. DEFINE new == {e \in envs : e.target = i}
  <2>2. queues'[i] = queues[i] \cup new
    BY <2>1 DEF Sending, Deliver
  <2>3. (\A e \in new : e.cmd = t) /\ (new # {} => Room(i))
    BY <2>1 DEF Sending, CopiesOfCall, MadeBy
  <2>6. IsFiniteSet(new)
    BY <2>1, FS_Subset DEF Sending, CopiesOfCall
  <2>. HIDE DEF new
  <2>4. CASE new = {}
    BY <1>1, <2>2, <2>4
  <2>5. CASE new # {}
    BY <1>0, <2>2, <2>3, <2>5, <2>6, InboxTakesCopies
  <2>. QED
    BY <2>4, <2>5
<1>3. ASSUME NEW t \in Call, FlushLocked(t) PROVE queues'[i] \subseteq queues[i]
  <2>1. PICK got : Taking(t, got)
    BY <1>3, FlushTakes
  <2>. QED
    BY <2>1 DEF Taking, IInv, TypeOK
<1>4. ASSUME NEW t \in Call, CancelLocked(t) PROVE queues'[i] \subseteq queues[i]
  <2>1. PICK back : Recalling(t, back)
    BY <1>4, CancelRecalls
  <2>. QED
    BY <2>1 DEF Recalling
<1>5. ASSUME NEW t \in Call, NotifyLocked(t)
      PROVE  IsFiniteSet(queues'[i]) /\ Fits(LettersIn(i)')
  <2>1. PICK e : Noticing(t, e)
    BY <1>5, NotifyPosts
  <2>2. Deliver({e}) /\ IsNotice(e)
    BY <2>1 DEF Noticing, Notice, IsNotice
  <2>. QED
    BY <1>0, <2>2, InboxTakesNotices, FS_Singleton
<1>6. ASSUME ExpireDeadlines
      PROVE  IsFiniteSet(queues'[i]) /\ Fits(LettersIn(i)')
  <2>1. PICK late : Expiring(late)
    BY <1>6, SweepExpires
  <2>. DEFINE envs == {TimeoutNotice(x) : x \in late}
  <2>2. late \in SUBSET Edge /\ Deliver(envs)
    BY <2>1 DEF Expiring, IInv, TypeOK
  <2>3. IsFiniteSet(envs) /\ \A e \in envs : IsNotice(e)
    <3>1. \A x \in late : IsNotice(TimeoutNotice(x))
      BY DEF TimeoutNotice, Notice, IsNotice
    <3>. QED
      BY <2>2, <3>1, NoticesCount
  <2>. HIDE DEF envs
  <2>. QED
    BY <1>0, <2>2, <2>3, InboxTakesNotices
<1>7. CASE Restart
  BY <1>7 DEF Bounded
<1>8. CASE Uneventful
  BY <1>1, <1>8 DEF Uneventful
<1>. QED
  BY <1>1, <1>2, <1>3, <1>4, <1>5, <1>6, <1>7, <1>8, StepKinds

\* A restart that restores nothing leaves empty inboxes.
LEMMA NothingRestored ==
  ASSUME "restart" \notin Daemons \/ TRUE \notin RestoreModes, Bounded, Restart
  PROVE  Bounded'
<1>. SUFFICES ASSUME NEW i \in Ids
              PROVE  IsFiniteSet(queues'[i]) /\ Fits(LettersIn(i)')
  BY DEF Bounded
<1>1. Reload({})
  BY DispatcherAssumption DEF Restart
<1>2. queues'[i] \subseteq queues[i]
  BY <1>1 DEF Reload
<1>. QED
  BY <1>2, InboxShrinks DEF Bounded

\* The inboxes are empty at first.
LEMMA BoundedFirst == Init => Bounded
<1>. SUFFICES ASSUME Init, NEW i \in Ids
              PROVE  IsFiniteSet(queues[i]) /\ Fits(LettersIn(i))
  BY DEF Bounded
<1>1. queues[i] = {} /\ LettersIn(i) = {}
  BY DEF Init, LettersIn
<1>. QED
  BY <1>1, NoneFits

-------------------------------------------------------------------------------
(***************************************************************************)
(* AcknowledgedIsDurable: a dispatch that returns normally was resumed by  *)
(* the commit of its own transaction, which holds all its letters.  The    *)
(* garbage collection, which deletes rows on purpose, is left out.         *)
(***************************************************************************)
Durable ==
  \A e \in Letters :
    /\ pc[e.cmd] \in {"written", "done"} => e \in rows
    /\ pc[e.cmd] = "write" => \E k \in DOMAIN wq : wq[k].by = e.cmd /\ e \in wq[k].envs

\* how a call that is past its sending moves
PastMove(u) ==
  \/ pc'[u] = pc[u]
  \/ pc[u] = "write" /\ (Commit \/ WriteError) /\ Head(wq).by = u
  \/ pc[u] = "written" /\ pc'[u] = "done"
  \/ pc[u] = "unwritten" /\ pc'[u] = "failed"
  \/ Restart /\ pc'[u] = "dead"

\* A call that awaits its transaction moves when the worker has done with it.
LEMMA PastMoves ==
  ASSUME IInv, OrderInv, [Next]_vars, NEW u \in Call, Past(u)
  PROVE  PastMove(u)
<1>0. Started(u) /\ pc[u] \notin {"loop", "blocked", "lock", "timedout", "report"}
  BY DEF Past, PastStages, Started, Finished
<1>1. ASSUME Step(u) PROVE PastMove(u)
  <2>1. Resume(u)
    BY <1>0, <1>1 DEF Step, DispatchLocked, DispatchTurnedDown, BroadcastLocked,
       EmitLocked, TurnedDown, FlushLocked, WaitLocked, Woken, TimedOutLocked,
       Report, NotifyLocked, CancelLocked, ShutdownLocked, NextClosing,
       AllClosingsSent, CloseThreadLocked, OperatorCloseLocked, InLock
  <2>2. res[u].parent # u
    BY <1>0, <2>1, MaxCallsAssumption DEF Resume, Active, OrderInv, ParentsWait,
       ChildOf, Call
  <2>. QED
    BY <2>1, <2>2 DEF Resume, LeaveDispatch, PastMove, IInv, TypeOK
<1>2. ASSUME NEW t \in Call, Step(t), t # u PROVE PastMove(u)
  BY <1>0, <1>2, OthersStay DEF LetBe, PastMove
<1>3. CASE Enter
  <2>1. PICK t \in Call, r \in Requests : MayEnter(t) /\ EnterWith(t, r)
    BY <1>3 DEF Enter
  <2>2. u # t
    BY <1>0, <2>1, NotYetStarted DEF Started
  <2>3. pc'[u] = pc[u]
    BY <2>1, <2>2 DEF EnterWith, EnterDispatch, EnterReply, EnterBroadcast,
       EnterEmit, EnterMailbox, EnterCancel, EnterCloseThread, EnterOperatorClose,
       EnterShutdown, EndAtOnce, GoForLock, IInv, TypeOK
  <2>. QED
    BY <2>3 DEF PastMove
<1>4. CASE \E t \in Call : TimeOut(t)
  BY <1>0, <1>4 DEF TimeOut, PastMove, IInv, TypeOK
<1>5. CASE Commit \/ WriteError
  <2>1. wq # <<>> /\ pc[Head(wq).by] \in {"write", "mark"} /\ Head(wq).by \in Call
    BY <1>5, FirstWrite DEF Commit, WriteError, OrderInv, WritesAwaited, AwaitedIn
  <2>2. \/ u # Head(wq).by /\ pc'[u] = pc[u]
        \/ u = Head(wq).by /\ pc[u] = "write"
    BY <1>0, <1>5, <2>1 DEF Commit, WriteError, Answer, Past, PastStages, Finished,
       IInv, TypeOK
  <2>. QED
    BY <1>5, <2>2 DEF PastMove
<1>6. CASE ExpireDeadlines \/ CloseTTL \/ MessageGC \/ Rest \/ UNCHANGED vars
  BY <1>6 DEF ExpireDeadlines, CloseTTL, MessageGC, Rest, vars, tasks, PastMove
<1>7. CASE Restart
  BY <1>7 DEF Restart, PastMove
<1>. QED
  BY <1>1, <1>2, <1>3, <1>4, <1>5, <1>6, <1>7 DEF Next

\* A transaction that was submitted waits until the worker takes it.
LEMMA WritesWait ==
  ASSUME IInv, [Next]_vars, ~Commit, ~WriteError, ~Restart, NEW k \in DOMAIN wq
  PROVE  k \in DOMAIN wq' /\ wq'[k] = wq[k]
<1>1. CASE UNCHANGED wq
  BY <1>1
<1>2. CASE \E x : wq' = Append(wq, x)
  <2>1. PICK x : wq' = Append(wq, x)
    BY <1>2
  <2>. DEFINE S == Txn \cup {x}
  <2>2. wq \in Seq(S) /\ x \in S
    BY WriteTypes
  <2>. HIDE DEF S
  <2>. QED
    BY <2>1, <2>2, AppendPlaces
<1>3. CASE Enter
  <2>1. UNCHANGED disk
    BY <1>3 DEF Enter, EnterWith, EnterDispatch, EnterReply, EnterBroadcast,
       EnterEmit, EnterMailbox, EnterCancel, EnterCloseThread, EnterOperatorClose,
       EnterShutdown
  <2>. QED
    BY <1>1, <2>1 DEF disk
<1>4. ASSUME NEW t \in Call, Step(t) PROVE UNCHANGED wq \/ \E x : wq' = Append(wq, x)
  BY <1>4 DEF Step, DispatchLocked, BroadcastLocked, EmitLocked, FlushLocked,
     CancelLocked, OperatorCloseLocked, DispatchTurnedDown, TurnedDown, Resume,
     WaitLocked, Woken, TimedOutLocked, Report, ShutdownLocked, NextClosing,
     NotifyLocked, AllClosingsSent, CloseThreadLocked, SubmitDispatch, LeaveToWrite,
     disk
<1>. QED
  BY <1>1, <1>2, <1>3, <1>4 DEF Next, TimeOut, ExpireDeadlines, CloseTTL, MessageGC,
     Rest, vars, disk

\* Rows stay, the garbage collection aside.
LEMMA RowsStay ==
  ASSUME [Next]_vars, ~MessageGC
  PROVE  rows \subseteq rows'
<1>1. CASE Enter
  BY <1>1 DEF Enter, EnterWith, EnterDispatch, EnterReply, EnterBroadcast,
     EnterEmit, EnterMailbox, EnterCancel, EnterCloseThread, EnterOperatorClose,
     EnterShutdown, disk
<1>2. ASSUME NEW t \in Call, Step(t) PROVE UNCHANGED rows
  BY <1>2 DEF Step, DispatchLocked, BroadcastLocked, EmitLocked, FlushLocked,
     CancelLocked, OperatorCloseLocked, DispatchTurnedDown, TurnedDown, Resume,
     WaitLocked, Woken, TimedOutLocked, Report, ShutdownLocked, NextClosing,
     NotifyLocked, AllClosingsSent, CloseThreadLocked, SubmitDispatch, disk
<1>. QED
  BY <1>1, <1>2 DEF Next, TimeOut, Commit, WriteError, ExpireDeadlines, CloseTTL,
     Restart, Rest, vars, disk

\* The worker takes a transaction: its call goes on as the outcome is, the others
\* of the queue move up.
LEMMA WorkerTakes ==
  ASSUME IInv, OrderInv, Commit \/ WriteError
  PROVE  /\ wq # <<>> /\ Head(wq) \in Txn /\ Head(wq).by \in Call
         /\ Head(wq).kind = "dispatch" => pc'[Head(wq).by] \in {"written", "unwritten"}
         /\ pc'[Head(wq).by] = "written" => Head(wq).envs \subseteq rows'
         /\ \A k \in DOMAIN wq :
              IF wq[k].by = Head(wq).by THEN wq[k] = Head(wq)
              ELSE \E j \in DOMAIN wq' : wq'[j] = wq[k]
<1>1. wq # <<>> /\ wq' = Tail(wq)
  BY DEF Commit, WriteError
<1>2. /\ Head(wq) \in Txn /\ Head(wq).by \in Call
      /\ 1 \in DOMAIN wq /\ Head(wq) = wq[1] /\ wq \in Seq(Txn)
  BY <1>1, FirstWrite, WriteTypes
<1>3. /\ Head(wq).kind = "dispatch" => pc'[Head(wq).by] \in {"written", "unwritten"}
      /\ pc'[Head(wq).by] = "written" => Head(wq).envs \subseteq rows'
  <2>1. ASSUME Commit
        PROVE  /\ pc'[Head(wq).by] =
                    IF Head(wq).kind = "dispatch"
                      THEN IF Applied(Head(wq)) THEN "written" ELSE "unwritten"
                      ELSE IF Head(wq).kind = "status"
                        THEN IF Applied(Head(wq)) THEN "done" ELSE "failed" ELSE "done"
               /\ Applied(Head(wq)) => Head(wq).envs \subseteq rows'
    <3>1. Head(wq).kind \in {"dispatch", "status", "marks"}
      BY <1>2 DEF Txn
    <3>. HIDE DEF Applied
    <3>. QED
      BY <1>2, <2>1, <3>1 DEF Commit, Answer, IInv, TypeOK
  <2>2. ASSUME WriteError
        PROVE  /\ pc'[Head(wq).by] # "written"
               /\ Head(wq).kind = "dispatch" => pc'[Head(wq).by] = "unwritten"
    <3>1. Head(wq).kind \in {"dispatch", "status", "marks"}
      BY <1>2 DEF Txn
    <3>. QED
      BY <1>2, <2>2, <3>1 DEF WriteError, Answer, IInv, TypeOK
  <2>. QED
    BY <2>1, <2>2
<1>4. ASSUME NEW k \in DOMAIN wq
      PROVE  IF wq[k].by = Head(wq).by THEN wq[k] = Head(wq)
             ELSE \E j \in DOMAIN wq' : wq'[j] = wq[k]
  <2>1. /\ Len(wq) \in Nat \ {0} /\ DOMAIN wq = 1..Len(wq)
        /\ DOMAIN wq' = 1..(Len(wq) - 1)
        /\ \A j \in 1..(Len(wq) - 1) : wq'[j] = wq[j + 1]
    BY <1>1, <1>2, TailPlaces
  <2>2. wq[k].by = Head(wq).by => k = 1
    BY <1>2 DEF OrderInv, WritesAwaited
  <2>3. k # 1 => k - 1 \in DOMAIN wq' /\ wq'[k - 1] = wq[k]
    BY <2>1
  <2>. QED
    BY <1>2, <2>2, <2>3
<1>. QED
  BY <1>1, <1>2, <1>3, <1>4

\* Durable is kept.
LEMMA DurableStays ==
  IInv /\ OrderInv /\ PostOK /\ Durable /\ [Next]_vars /\ ~MessageGC => Durable'
<1>. SUFFICES ASSUME IInv, OrderInv, PostOK, Durable, [Next]_vars, ~MessageGC,
                     NEW e \in Letters'
              PROVE  /\ pc'[e.cmd] \in {"written", "done"} => e \in rows'
                     /\ pc'[e.cmd] = "write" =>
                          \E k \in DOMAIN wq' : wq'[k].by = e.cmd /\ e \in wq'[k].envs
  BY DEF Durable
<1>1. CASE e \in Letters
  <2>1. Past(e.cmd) /\ e.cmd \in Call
    BY <1>1 DEF PostOK, LettersOK, Letters, HistType, Envelope
  <2>2. rows \subseteq rows' /\ PastMove(e.cmd)
    BY <2>1, RowsStay, PastMoves
  <2>3. CASE pc'[e.cmd] = pc[e.cmd]
    <3>1. pc[e.cmd] \in {"written", "done"} => e \in rows'
      BY <1>1, <2>2 DEF Durable
    <3>2. ASSUME pc[e.cmd] = "write"
          PROVE  \E k \in DOMAIN wq' : wq'[k].by = e.cmd /\ e \in wq'[k].envs
      <4>1. PICK k \in DOMAIN wq : wq[k].by = e.cmd /\ e \in wq[k].envs
        BY <1>1, <3>2 DEF Durable
      <4>2. CASE Commit \/ WriteError
        <5>1. Head(wq).by # e.cmd
          <6>1. ASSUME Head(wq).by = e.cmd PROVE FALSE
            <7>1. wq # <<>> /\ wq[k] = Head(wq) /\ Head(wq) = wq[1] /\ 1 \in DOMAIN wq
              BY <4>1, <4>2, <6>1, WorkerTakes, FirstWrite
            <7>2. Head(wq).kind = "dispatch"
              BY <3>2, <6>1, <7>1 DEF OrderInv, WritesAwaited, AwaitedIn
            <7>. QED
              BY <2>3, <3>2, <4>2, <6>1, <7>2, WorkerTakes
          <6>. QED
            BY <6>1
        <5>. QED
          BY <4>1, <4>2, <5>1, WorkerTakes
      <4>3. CASE ~Commit /\ ~WriteError
        <5>1. ~Restart
          BY <2>1, <2>3, <3>2 DEF Restart, Waiting, IInv, TypeOK
        <5>. QED
          BY <4>1, <4>3, <5>1, WritesWait
      <4>. QED
        BY <4>2, <4>3
    <3>. QED
      BY <2>3, <3>1, <3>2
  <2>4. CASE pc[e.cmd] = "write" /\ (Commit \/ WriteError) /\ Head(wq).by = e.cmd
    <3>1. PICK k \in DOMAIN wq : wq[k].by = e.cmd /\ e \in wq[k].envs
      BY <1>1, <2>4 DEF Durable
    <3>2. wq[k] = Head(wq) /\ wq # <<>>
      BY <2>4, <3>1, WorkerTakes
    <3>3. Head(wq).kind = "dispatch"
      BY <2>4, <3>2, FirstWrite DEF OrderInv, WritesAwaited, AwaitedIn
    <3>. QED
      BY <2>4, <3>1, <3>2, <3>3, WorkerTakes
  <2>5. CASE pc[e.cmd] = "written" /\ pc'[e.cmd] = "done"
    BY <1>1, <2>2, <2>5 DEF Durable
  <2>. QED
    BY <2>2, <2>3, <2>4, <2>5 DEF PastMove
<1>2. ASSUME NEW t \in Call, NEW envs, NEW state, NEW asked,
             Sending(t, envs, state, asked), e \in envs
      PROVE  /\ e.cmd = t /\ pc'[t] = "write"
             /\ \E k \in DOMAIN wq' : wq'[k].by = t /\ e \in wq'[k].envs
  <2>1. e.cmd = t /\ pc'[t] = "write"
    BY <1>2, SendingIsPast
  <2>. DEFINE x == [by |-> t, kind |-> "dispatch", conv |-> res[t].conv,
                    isNew |-> res[t].isNew, status |-> state.status,
                    envs |-> envs, marks |-> {}]
              S == Txn \cup {x}
  <2>2. wq' = Append(wq, x) /\ x.by = t /\ x.envs = envs
    BY <1>2 DEF Sending, SubmitDispatch
  <2>3. wq \in Seq(S) /\ x \in S
    BY WriteTypes
  <2>. HIDE DEF x, S
  <2>4. /\ Len(wq) \in Nat /\ DOMAIN wq' = 1..(Len(wq) + 1) /\ wq'[Len(wq) + 1] = x
    BY <2>2, <2>3, AppendPlaces
  <2>. QED
    BY <1>2, <2>1, <2>2, <2>4
<1>3. HistType
  BY DEF PostOK
<1>4. e \in Letters \/ \E t \in Call : \E envs, state, asked :
                         Sending(t, envs, state, asked) /\ e \in envs
  BY <1>3, LettersGrow
<1>. QED
  BY <1>1, <1>2, <1>4

\* A message whose dispatch returned normally is on disk, whatever crashed or
\* failed since.
THEOREM AcknowledgedMailIsDurable ==
  ASSUME "gc" \notin Daemons
  PROVE  Spec => []AcknowledgedIsDurable
<1>1. Init => Durable
  BY DEF Init, NoHist, Letters, Durable
<1>2. IInv /\ OrderInv /\ PostOK /\ Durable /\ [Next]_vars => Durable'
  BY DurableStays DEF MessageGC
<1>3. Durable => AcknowledgedIsDurable
  BY DEF Durable, AcknowledgedIsDurable, Letters
<1>. QED
  BY <1>1, <1>2, <1>3, InvariantHolds, OrderHolds, PostHolds, PTL DEF Spec

-------------------------------------------------------------------------------
(***************************************************************************)
(* Conversations: ClosedIsFinal and HalfClosedIsOwed.  Owed is what keeps  *)
(* HalfClosedIsOwed inductive: the closings of a conversation that is not  *)
(* closed are by parties of it, so that a party that joins later has not   *)
(* closed yet.  close_thread and operator_close act on a state they read   *)
(* before they waited: `born' tells whether it is still the one.           *)
(***************************************************************************)
Joined(s) == {i \in Ids : s.role[i] # "none"}

Owed(s) ==
  s.status \in {"open", "half_closed"} =>
    /\ s.closedBy \subseteq Joined(s)
    /\ s.status = "half_closed" => \/ DeliveredPrimaries(s) \ s.closedBy # {}
                                   \/ DeliveredPrimaries(s) = {}

\* s2 is a later state of the conversation that s is a state of
Later(s, s2) == /\ s2.born = s.born
                /\ s.status = "closed" => s2.status = "closed"
                /\ s.status # "absent" => s2.status # "absent"
                /\ Joined(s) \subseteq Joined(s2)

\* ... and if something is owed in s, then in s2
Onward(s, s2) == s2 \in ConvState /\ Later(s, s2) /\ (Owed(s) => Owed(s2))

\* Parties are added.
LEMMA AddingIsOnward ==
  ASSUME NEW s \in ConvState, NEW who, NEW role \in Role
  PROVE  Onward(s, AddParticipants(s, who, role))
<1>. DEFINE s2 == AddParticipants(s, who, role)
<1>1. /\ s2.status = s.status /\ s2.closedBy = s.closedBy /\ s2.born = s.born
      /\ \A i \in Ids : s2.role[i] = IF i \in who /\ s.role[i] = "none"
                                       THEN role ELSE s.role[i]
  BY DEF AddParticipants, ConvState
<1>2. s2 \in ConvState
  BY AddParticipantsType
<1>. HIDE DEF s2
<1>3. Joined(s) \subseteq Joined(s2)
  BY <1>1 DEF Joined
<1>4. /\ DeliveredPrimaries(s) \subseteq DeliveredPrimaries(s2)
      /\ DeliveredPrimaries(s2) \cap Joined(s) \subseteq DeliveredPrimaries(s)
  BY <1>1 DEF DeliveredPrimaries, Joined
<1>5. Owed(s) => Owed(s2)
  BY <1>1, <1>3, <1>4 DEF Owed
<1>. QED
  BY <1>1, <1>2, <1>3, <1>5 DEF Onward, Later, s2

\* A party closes: the last one closes the conversation.
LEMMA ClosingIsOnward ==
  ASSUME NEW s \in ConvState, NEW who \in Joined(s)
  PROVE  Onward(s, PartyCloses(s, who))
<1>. DEFINE s2 == PartyCloses(s, who)
            st == IF s.status = "open" THEN "half_closed" ELSE s.status
            by == s.closedBy \cup {who}
            over == DeliveredPrimaries(s) # {} /\ DeliveredPrimaries(s) \subseteq by
<1>1. who \in Ids
  BY DEF Joined
<1>2. s2 \in ConvState
  BY <1>1, PartyClosesType
<1>3. /\ s2.role = s.role /\ s2.born = s.born /\ s2.closedBy = by
      /\ s2.status = IF over THEN "closed" ELSE st
  BY DEF PartyCloses, MaybeClose, DeliveredPrimaries, ConvState
<1>. HIDE DEF s2
<1>4. Joined(s2) = Joined(s) /\ DeliveredPrimaries(s2) = DeliveredPrimaries(s)
  BY <1>3 DEF Joined, DeliveredPrimaries
<1>5. s.status \in Status
  BY DEF ConvState
<1>6. Owed(s) => Owed(s2)
  BY <1>3, <1>4, <1>5 DEF Owed, Status
<1>7. Later(s, s2)
  BY <1>3, <1>4, <1>5 DEF Later, Status
<1>. QED
  BY <1>2, <1>6, <1>7 DEF Onward, s2

\* A conversation that is closed at once owes nothing.
LEMMA ClosedIsOnward ==
  ASSUME NEW s \in ConvState, NEW s2 \in ConvState, s2.status = "closed",
         s2.role = s.role, s2.born = s.born
  PROVE  Onward(s, s2)
BY DEF Onward, Later, Owed, Joined

\* One step after another.
LEMMA OnwardGoesOn ==
  ASSUME NEW s, NEW s2, NEW s3, Onward(s, s2), Onward(s2, s3)
  PROVE  Onward(s, s3)
BY DEF Onward, Later

\* The three senders put a later state of the conversation in the table.
LEMMA SendersGoOnward ==
  ASSUME IInv, NEW t \in Call, SendStep(t)
  PROVE  /\ pc[t] = "lock" /\ pc'[t] = "write" /\ req[t].op \in SenderOps
         /\ res[t].conv \in ConvId
         /\ \E state : Record(t, state) /\ Onward(StateFor(t), state)
<1>1. /\ pc[t] = "lock" /\ pc'[t] = "write"
      /\ req[t].op \in SenderOps
  BY DEF SendStep, DispatchLocked, BroadcastLocked, EmitLocked, InLock,
     SubmitDispatch, IInv, TypeOK, SenderOps
<1>2. req[t] \in RequestType /\ res[t].conv \in ConvId
  BY <1>1 DEF IInv, CallsOK, CallOK, Started, InvolvesConv, SenderOps
<1>3. StateFor(t) \in ConvState
  BY <1>2, StateForType
<1>4. ASSUME DispatchLocked(t)
      PROVE  \E state : Record(t, state) /\ Onward(StateFor(t), state)
  <2>1. PICK who, others :
          LET named == AddParticipants(AddParticipants(StateFor(t), who, "primary"),
                                       others, "cc")
              state == IF req[t].closing /\ named.role[req[t].src] \in {"primary", "missed"}
                         THEN PartyCloses(named, req[t].src) ELSE named
          IN  Record(t, state)
    BY <1>4 DEF DispatchLocked
  <2>. DEFINE first == AddParticipants(StateFor(t), who, "primary")
              named == AddParticipants(first, others, "cc")
              state == IF req[t].closing /\ named.role[req[t].src] \in {"primary", "missed"}
                         THEN PartyCloses(named, req[t].src) ELSE named
  <2>2. "primary" \in Role /\ "cc" \in Role
    BY DEF Role
  <2>3. Onward(StateFor(t), first) /\ first \in ConvState
    BY <1>3, <2>2, AddingIsOnward DEF Onward
  <2>4. Onward(first, named) /\ named \in ConvState
    <3>. HIDE DEF first
    <3>. QED
      BY <2>2, <2>3, AddingIsOnward DEF Onward
  <2>5. Onward(StateFor(t), named)
    <3>. HIDE DEF first, named
    <3>. QED
      BY <2>3, <2>4, OnwardGoesOn
  <2>6. Onward(StateFor(t), state)
    <3>. HIDE DEF first, named
    <3>1. CASE req[t].closing /\ named.role[req[t].src] \in {"primary", "missed"}
      <4>1. req[t].src \in Joined(named)
        BY <1>1, <3>1 DEF Joined, IInv, CallsOK, CallOK, Started, WellFormed, SenderOps
      <4>2. Onward(named, PartyCloses(named, req[t].src))
        BY <2>4, <4>1, ClosingIsOnward
      <4>3. state = PartyCloses(named, req[t].src)
        BY <3>1
      <4>. QED
        BY <2>5, <4>2, <4>3, OnwardGoesOn
    <3>2. CASE ~(req[t].closing /\ named.role[req[t].src] \in {"primary", "missed"})
      <4>1. state = named
        BY <3>2
      <4>. QED
        BY <2>5, <4>1
    <3>. QED
      BY <3>1, <3>2
  <2>. QED
    BY <2>1, <2>6
<1>5. ASSUME BroadcastLocked(t)
      PROVE  \E state : Record(t, state) /\ Onward(StateFor(t), state)
  <2>1. PICK who, others :
          LET named == AddParticipants(AddParticipants(StateFor(t), who, "primary"),
                                       others, "missed")
              state == IF req[t].closing
                         THEN [named EXCEPT !.status = "closed",
                                 !.closedBy = {i \in Ids : named.role[i] # "none"}]
                         ELSE named
          IN  Record(t, state)
    BY <1>5 DEF BroadcastLocked
  <2>. DEFINE first == AddParticipants(StateFor(t), who, "primary")
              named == AddParticipants(first, others, "missed")
              ended == [named EXCEPT !.status = "closed",
                          !.closedBy = {i \in Ids : named.role[i] # "none"}]
  <2>2. "primary" \in Role /\ "missed" \in Role
    BY DEF Role
  <2>3. Onward(StateFor(t), first) /\ first \in ConvState
    BY <1>3, <2>2, AddingIsOnward DEF Onward
  <2>4. Onward(first, named) /\ named \in ConvState
    <3>. HIDE DEF first
    <3>. QED
      BY <2>2, <2>3, AddingIsOnward DEF Onward
  <2>5. Onward(StateFor(t), named)
    <3>. HIDE DEF first, named
    <3>. QED
      BY <2>3, <2>4, OnwardGoesOn
  <2>6. Onward(named, ended)
    <3>. HIDE DEF first, named
    <3>1. ended \in ConvState /\ ended.status = "closed" /\ ended.role = named.role
          /\ ended.born = named.born
      BY <2>4 DEF ConvState, Status
    <3>. QED
      BY <2>4, <3>1, ClosedIsOnward
  <2>7. Onward(StateFor(t), ended)
    <3>. HIDE DEF first, named, ended
    <3>. QED
      BY <2>5, <2>6, OnwardGoesOn
  <2>. QED
    BY <2>1, <2>5, <2>7
<1>6. ASSUME EmitLocked(t)
      PROVE  \E state : Record(t, state) /\ Onward(StateFor(t), state)
  <2>1. PICK who, others :
          Record(t, AddParticipants(
                      AddParticipants(
                        AddParticipants(StateFor(t), {req[t].src}, "cc"), who, "primary"),
                      others, "cc"))
    BY <1>6 DEF EmitLocked
  <2>. DEFINE first  == AddParticipants(StateFor(t), {req[t].src}, "cc")
              second == AddParticipants(first, who, "primary")
              third  == AddParticipants(second, others, "cc")
  <2>2. "primary" \in Role /\ "cc" \in Role
    BY DEF Role
  <2>3. Onward(StateFor(t), first) /\ first \in ConvState
    BY <1>3, <2>2, AddingIsOnward DEF Onward
  <2>4. Onward(first, second) /\ second \in ConvState
    <3>. HIDE DEF first
    <3>. QED
      BY <2>2, <2>3, AddingIsOnward DEF Onward
  <2>5. Onward(second, third)
    <3>. HIDE DEF first, second
    <3>. QED
      BY <2>2, <2>4, AddingIsOnward
  <2>6. Onward(StateFor(t), third)
    <3>. HIDE DEF first, second, third
    <3>1. Onward(StateFor(t), second)
      BY <2>3, <2>4, OnwardGoesOn
    <3>. QED
      BY <2>5, <3>1, OnwardGoesOn
  <2>. QED
    BY <2>1, <2>6
<1>. QED
  BY <1>1, <1>2, <1>4, <1>5, <1>6 DEF SendStep

(***************************************************************************)
(* ThreadsOK: what is owed, who made each state, and what a close_thread   *)
(* or an operator_close that waits knows of the state it read.             *)
(***************************************************************************)
CloserOps == {"close_thread", "operator_close"}
BornOK(s) == IF s.status = "absent" THEN s.born = 0 ELSE s.born \in Call /\ Past(s.born)
CloserOK(t) ==
  /\ res[t].born \in Call /\ Past(res[t].born)
  /\ req[t].op = "close_thread" /\ Captured(t) => req[t].src \in Joined(conv[res[t].conv])

ThreadsOK ==
  /\ \A c \in ConvId : Owed(conv[c]) /\ BornOK(conv[c])
  /\ \A t \in Call : pc[t] \in {"loop", "lock"} /\ req[t].op \in CloserOps => CloserOK(t)

\* call t puts a state it made itself in the table, for conversation c
Founds(t, c) == /\ SendStep(t) /\ pc[t] = "lock" /\ pc'[t] = "write"
                /\ res[t].conv = c
                /\ res[t].isNew \/ conv[c].status = "absent"
                /\ Onward(NewState(t), conv'[c])

\* what a step does to a conversation: nothing, or it is forgotten, or it goes
\* on, or it begins
ConvMove(c) == \/ conv'[c] = conv[c]
               \/ conv'[c] = Absent /\ (MessageGC \/ Restart)
               \/ conv[c].status # "absent" /\ Onward(conv[c], conv'[c])
               \/ \E t \in Call : Founds(t, c)

\* A sender goes on with the conversation in the table or begins it.
LEMMA SendersMoveConv ==
  ASSUME IInv, NEW t \in Call, SendStep(t), NEW c \in ConvId
  PROVE  ConvMove(c)
<1>1. PICK state : Record(t, state) /\ Onward(StateFor(t), state)
  BY SendersGoOnward
<1>2. pc[t] = "lock" /\ pc'[t] = "write"
  BY SendersGoOnward
<1>3. conv'[c] = IF c = res[t].conv THEN state ELSE conv[c]
  BY <1>1 DEF Record, IInv, TypeOK
<1>4. CASE c # res[t].conv
  BY <1>3, <1>4 DEF ConvMove
<1>5. CASE c = res[t].conv /\ (res[t].isNew \/ conv[c].status = "absent")
  <2>1. StateFor(t) = NewState(t)
    BY <1>5 DEF StateFor
  <2>. QED
    BY <1>1, <1>2, <1>3, <1>5, <2>1 DEF ConvMove, Founds
<1>6. CASE c = res[t].conv /\ ~(res[t].isNew \/ conv[c].status = "absent")
  <2>1. StateFor(t) = conv[c]
    BY <1>6 DEF StateFor
  <2>. QED
    BY <1>1, <1>3, <1>6, <2>1 DEF ConvMove
<1>. QED
  BY <1>4, <1>5, <1>6

\* close_thread goes on with the state it read, if that is still the one.
LEMMA CloseThreadMovesConv ==
  ASSUME IInv, ThreadsOK, NEW t \in Call, CloseThreadLocked(t), NEW c \in ConvId
  PROVE  ConvMove(c)
<1>. DEFINE d == res[t].conv
            s == PartyCloses(conv[d], req[t].src)
<1>1. /\ pc[t] = "lock" /\ req[t].op = "close_thread"
      /\ conv' = IF Captured(t) THEN [conv EXCEPT ![d] = s] ELSE conv
  BY DEF CloseThreadLocked, InLock
<1>2. CloserOK(t) /\ d \in ConvId
  BY <1>1 DEF ThreadsOK, CloserOps, IInv, CallsOK, CallOK, Started, InvolvesConv
<1>. HIDE DEF s
<1>3. CASE ~(Captured(t) /\ c = d)
  BY <1>1, <1>3 DEF ConvMove, IInv, TypeOK
<1>4. CASE Captured(t) /\ c = d
  <2>1. conv'[c] = s /\ conv[d] \in ConvState
    BY <1>1, <1>2, <1>4 DEF IInv, TypeOK
  <2>2. req[t].src \in Joined(conv[d])
    BY <1>1, <1>2, <1>4 DEF CloserOK
  <2>3. Onward(conv[d], s)
    BY <2>1, <2>2, ClosingIsOnward DEF s
  <2>4. conv[d].status # "absent"
    BY <1>2, <1>4, MaxCallsAssumption DEF Captured, CloserOK, ThreadsOK, BornOK, Call
  <2>. QED
    BY <1>4, <2>1, <2>3, <2>4 DEF ConvMove
<1>. QED
  BY <1>3, <1>4

\* operator_close ends the state it read, if that is still the one.
LEMMA OperatorCloseMovesConv ==
  ASSUME IInv, ThreadsOK, NEW t \in Call, OperatorCloseLocked(t), NEW c \in ConvId
  PROVE  ConvMove(c)
<1>. DEFINE d == res[t].conv
            s == [conv[d] EXCEPT !.status = "closed",
                                 !.closedBy = @ \cup {req[t].src}]
<1>1. pc[t] = "lock" /\ req[t].op = "operator_close"
  BY DEF OperatorCloseLocked, InLock
<1>2. CloserOK(t) /\ d \in ConvId /\ req[t].src \in Ids
  BY <1>1 DEF ThreadsOK, CloserOps, IInv, CallsOK, CallOK, Started, InvolvesConv,
     WellFormed
<1>3. conv' = IF Captured(t) THEN [conv EXCEPT ![d] = s] ELSE conv
  BY <1>2 DEF OperatorCloseLocked, IInv, TypeOK
<1>4. /\ conv[d] \in ConvState /\ s \in ConvState /\ s.status = "closed"
      /\ s.role = conv[d].role /\ s.born = conv[d].born
  <2>1. conv[d] \in ConvState
    BY <1>2 DEF IInv, TypeOK
  <2>. QED
    BY <1>2, <2>1 DEF ConvState, Status
<1>. HIDE DEF s
<1>5. CASE ~(Captured(t) /\ c = d)
  BY <1>3, <1>5 DEF ConvMove, IInv, TypeOK
<1>6. CASE Captured(t) /\ c = d
  <2>1. conv'[c] = s
    BY <1>2, <1>3, <1>6 DEF IInv, TypeOK
  <2>2. Onward(conv[d], s)
    BY <1>4, ClosedIsOnward
  <2>3. conv[d].status # "absent"
    BY <1>2, <1>6, MaxCallsAssumption DEF Captured, CloserOK, ThreadsOK, BornOK, Call
  <2>. QED
    BY <1>6, <2>1, <2>2, <2>3 DEF ConvMove
<1>. QED
  BY <1>5, <1>6

\* The sweep that closes quiet conversations ends them.
LEMMA CloseTTLMovesConv ==
  ASSUME IInv, CloseTTL, NEW c \in ConvId
  PROVE  ConvMove(c)
<1>. DEFINE s == [conv[c] EXCEPT !.status = "closed"]
<1>1. conv'[c] = conv[c] \/ (conv'[c] = s /\ conv[c].status = "half_closed")
  BY DEF CloseTTL
<1>2. /\ conv[c] \in ConvState /\ s \in ConvState /\ s.status = "closed"
      /\ s.role = conv[c].role /\ s.born = conv[c].born
  BY DEF IInv, TypeOK, ConvState, Status
<1>. HIDE DEF s
<1>. QED
  BY <1>1, <1>2, ClosedIsOnward DEF ConvMove

\* No step does anything else to a conversation.
LEMMA ConvMoves ==
  ASSUME IInv, ThreadsOK, [Next]_vars, NEW c \in ConvId
  PROVE  ConvMove(c)
<1>1. CASE UNCHANGED conv
  BY <1>1 DEF ConvMove
<1>2. CASE \E t \in Call : SendStep(t) \/ CloseThreadLocked(t) \/ OperatorCloseLocked(t)
  BY <1>2, SendersMoveConv, CloseThreadMovesConv, OperatorCloseMovesConv
<1>3. CASE CloseTTL
  BY <1>3, CloseTTLMovesConv
<1>4. CASE MessageGC \/ Restart
  <2>1. conv'[c] \in {conv[c], Absent}
    BY <1>4 DEF MessageGC, Restart
  <2>. QED
    BY <1>4, <2>1 DEF ConvMove
<1>5. CASE Enter
  BY <1>1, <1>5 DEF Enter, EnterWith, EnterDispatch, EnterReply, EnterBroadcast,
     EnterEmit, EnterMailbox, EnterCancel, EnterCloseThread, EnterOperatorClose,
     EnterShutdown, convs
<1>6. ASSUME NEW t \in Call, Step(t)
      PROVE  \/ UNCHANGED conv
             \/ SendStep(t) \/ CloseThreadLocked(t) \/ OperatorCloseLocked(t)
  BY <1>6 DEF Step, SendStep, DispatchTurnedDown, TurnedDown, Resume, FlushLocked,
     WaitLocked, Woken, TimedOutLocked, Report, NotifyLocked, CancelLocked,
     ShutdownLocked, NextClosing, AllClosingsSent, convs
<1>. QED
  BY <1>1, <1>2, <1>3, <1>4, <1>5, <1>6 DEF Next, TimeOut, Commit, WriteError,
     ExpireDeadlines, Rest, vars, convs

\* A state that a call begins with owes nothing.
LEMMA NothingOwedYet ==
  ASSUME NEW t
  PROVE  Owed(NewState(t)) /\ Owed(Absent)
BY DEF Owed, NewState, Absent, Joined

\* ThreadsOK is kept.
LEMMA ThreadsStay ==
  ASSUME IInv, OrderInv, ThreadsOK, [Next]_vars
  PROVE  ThreadsOK'
<1>1. ASSUME NEW c \in ConvId PROVE (Owed(conv[c]) /\ BornOK(conv[c]))'
  <2>1. ConvMove(c) /\ Owed(conv[c]) /\ BornOK(conv[c])
    BY ConvMoves DEF ThreadsOK
  <2>2. \A u \in Call : Past(u) => Past(u)'
    BY PastStays
  <2>3. CASE conv'[c] = conv[c]
    BY <2>1, <2>2, <2>3 DEF Owed, BornOK, Joined, DeliveredPrimaries
  <2>4. CASE conv'[c] = Absent
    BY <2>4 DEF Owed, BornOK, Absent
  <2>5. CASE conv[c].status # "absent" /\ Onward(conv[c], conv'[c])
    BY <2>1, <2>2, <2>5 DEF Onward, Later, BornOK
  <2>6. ASSUME NEW t \in Call, Founds(t, c) PROVE (Owed(conv[c]) /\ BornOK(conv[c]))'
    <3>1. Onward(NewState(t), conv'[c]) /\ pc'[t] = "write"
      BY <2>6 DEF Founds
    <3>2. Owed(conv'[c]) /\ conv'[c].born = t /\ conv'[c].status # "absent"
      BY <3>1, NothingOwedYet DEF Onward, Later, NewState
    <3>. QED
      BY <3>1, <3>2 DEF BornOK, Past, PastStages
  <2>. QED
    BY <2>1, <2>3, <2>4, <2>5, <2>6 DEF ConvMove
<1>2. ASSUME NEW t \in Call, pc'[t] \in {"loop", "lock"}, req'[t].op \in CloserOps
      PROVE  CloserOK(t)'
  <2>1. \A u \in Call : Past(u) => Past(u)'
    BY PastStays
  <2>2. CASE pc[t] = "idle"
    <3>1. LetIn(t) /\ UNCHANGED convs
      BY <1>2, <2>2, NewcomersAreLetIn
    <3>2. /\ res'[t].conv = req'[t].conv /\ res'[t].born = conv[req'[t].conv].born
          /\ conv[req'[t].conv].status # "absent"
          /\ req'[t].op = "close_thread" => conv[req'[t].conv].role[req'[t].src] # "none"
          /\ conv' = conv
      BY <1>2, <3>1 DEF LetIn, CloserOps, convs
    <3>3. req'[t].conv \in ConvId /\ req'[t].src \in Ids
      <4>1. IInv'
        BY NextIInv
      <4>. QED
        BY <1>2, <4>1 DEF IInv, CallsOK, CallOK, Started, WellFormed, CloserOps
    <3>4. BornOK(conv[req'[t].conv])
      BY <3>3 DEF ThreadsOK
    <3>. QED
      BY <2>1, <3>2, <3>3, <3>4 DEF CloserOK, BornOK, Joined
  <2>3. CASE pc[t] # "idle"
    <3>1. KeepsKnowledge(t)
      BY <1>2, <2>3, StayersKeepKnowledge
    <3>2. /\ pc[t] \in {"loop", "lock"} /\ req'[t] = req[t]
          /\ res'[t].conv = res[t].conv /\ res'[t].born = res[t].born
      BY <1>2, <3>1 DEF KeepsKnowledge
    <3>3. CloserOK(t)
      BY <1>2, <3>2 DEF ThreadsOK
    <3>. DEFINE c == res[t].conv
    <3>4. c \in ConvId
      BY <1>2, <3>2 DEF IInv, CallsOK, CallOK, Started, InvolvesConv, CloserOps
    <3>5. ASSUME conv'[c].born = res[t].born
          PROVE  conv[c].born = res[t].born /\ Joined(conv[c]) \subseteq Joined(conv'[c])
      <4>1. ConvMove(c)
        BY <3>4, ConvMoves
      <4>2. res[t].born # 0
        BY <3>3, MaxCallsAssumption DEF CloserOK, Call
      <4>3. conv'[c] # Absent
        BY <3>5, <4>2 DEF Absent
      <4>4. ASSUME NEW u \in Call, Founds(u, c) PROVE FALSE
        <5>1. pc[u] = "lock" /\ Later(NewState(u), conv'[c])
          BY <4>4 DEF Founds, Onward
        <5>2. conv'[c].born = u
          BY <5>1 DEF Later, NewState
        <5>3. Past(u)
          BY <3>3, <3>5, <5>2 DEF CloserOK
        <5>. QED
          BY <5>1, <5>3 DEF Past, PastStages, Finished
      <4>. QED
        BY <3>5, <4>1, <4>3, <4>4 DEF ConvMove, Onward, Later
    <3>. HIDE DEF c
    <3>. QED
      BY <2>1, <3>2, <3>3, <3>5 DEF CloserOK, Captured, c
  <2>. QED
    BY <2>2, <2>3
<1>. QED
  BY <1>1, <1>2 DEF ThreadsOK

\* ThreadsOK holds in every reachable state.
THEOREM ThreadsHold == Spec => []ThreadsOK
<1>1. ASSUME Init PROVE ThreadsOK
  <2>1. ASSUME NEW c \in ConvId PROVE Owed(conv[c]) /\ BornOK(conv[c])
    <3>1. conv[c] = Absent
      BY <1>1 DEF Init
    <3>. QED
      BY <3>1, NothingOwedYet DEF BornOK, Absent
  <2>2. \A t \in Call : pc[t] = "idle"
    BY <1>1 DEF Init
  <2>. QED
    BY <2>1, <2>2 DEF ThreadsOK
<1>. QED
  BY <1>1, ThreadsStay, InvariantHolds, OrderHolds, PTL DEF Spec

\* A conversation is closed by its last delivered primary: half_closed means
\* that the closing of one of them is missing, whichever handler recorded the
\* others and whenever the parties joined.
THEOREM HalfClosedAreOwed == Spec => []HalfClosedIsOwed
<1>1. ThreadsOK => HalfClosedIsOwed
  BY DEF ThreadsOK, Owed, HalfClosedIsOwed
<1>. QED
  BY <1>1, ThreadsHold, PTL

\* A message into a closed conversation never opens it again, but for a call
\* that took it for new.
THEOREM ClosedStaysClosed == Spec => ClosedIsFinal
<1>. DEFINE Final(c) == conv[c].status = "closed" =>
       \/ conv'[c].status \in {"closed", "absent"}
       \/ \E t \in Call : /\ pc[t] = "lock" /\ pc'[t] = "write"
                          /\ res[t].conv = c /\ res[t].isNew
<1>1. ASSUME IInv, ThreadsOK, [Next]_vars, NEW c \in ConvId
      PROVE  Final(c)
  BY <1>1, ConvMoves DEF ConvMove, Founds, Onward, Later, Absent
<1>2. IInv /\ ThreadsOK /\ [Next]_vars => [\A c \in ConvId : Final(c)]_vars
  BY <1>1
<1>. QED
  BY <1>2, InvariantHolds, ThreadsHold, PTL DEF Spec, ClosedIsFinal

-------------------------------------------------------------------------------
(***************************************************************************)
(* The write queue: whose transactions wait in it, and what they carry.    *)
(***************************************************************************)
Proper(x) ==
  /\ x.kind # "marks" => x.conv \in ConvId /\ x.status # "absent"
  /\ x.kind = "dispatch" => SendsTo(x.by, x.conv)
  /\ \A e \in x.envs : x.kind = "dispatch" /\ e.cmd = x.by
WritersOK == \A k \in DOMAIN wq : Proper(wq[k])

\* Every step leaves the disk and the inboxes alone, or is one of these.
LEMMA DiskKinds ==
  ASSUME [Next]_vars, "write_error" \notin Daemons
  PROVE  \/ UNCHANGED <<queues, disk, hist>>
         \/ \E t \in Call : \/ SendStep(t) \/ FlushLocked(t) \/ CancelLocked(t)
                            \/ NotifyLocked(t) \/ OperatorCloseLocked(t)
         \/ Commit \/ ExpireDeadlines \/ CloseTTL \/ MessageGC \/ Restart
<1>1. CASE Enter
  <2>1. UNCHANGED <<mail, disk, hist>>
    BY <1>1 DEF Enter, EnterWith, EnterDispatch, EnterReply, EnterBroadcast,
       EnterEmit, EnterMailbox, EnterCancel, EnterCloseThread, EnterOperatorClose,
       EnterShutdown
  <2>. QED
    BY <2>1 DEF mail
<1>2. ASSUME NEW t \in Call, Step(t)
      PROVE  \/ UNCHANGED <<queues, disk, hist>>
             \/ SendStep(t) \/ FlushLocked(t) \/ CancelLocked(t)
             \/ NotifyLocked(t) \/ OperatorCloseLocked(t)
  BY <1>2 DEF Step, SendStep, DispatchTurnedDown, TurnedDown, Resume, WaitLocked,
     Woken, TimedOutLocked, Report, ShutdownLocked, NextClosing, AllClosingsSent,
     CloseThreadLocked, mail
<1>. QED
  BY <1>1, <1>2 DEF Next, TimeOut, WriteError, Rest, vars, mail

\* Whoever is past its sending keeps its local variables.
LEMMA LocalsStay ==
  ASSUME IInv, [Next]_vars, NEW u \in Call, pc[u] \notin {"idle", "loop"}
  PROVE  res'[u] = res[u]
<1>1. CASE Enter
  <2>1. PICK t \in Call, r \in Requests : MayEnter(t) /\ EnterWith(t, r)
    BY <1>1 DEF Enter
  <2>2. res' = res \/ \E local : res' = [res EXCEPT ![t] = local]
    BY <2>1 DEF EnterWith, EnterDispatch, EnterReply, EnterBroadcast,
       EnterEmit, EnterMailbox, EnterCancel, EnterCloseThread, EnterOperatorClose,
       EnterShutdown, EndAtOnce, GoForLock
  <2>3. t # u
    BY <2>1, NotYetStarted
  <2>. QED
    BY <2>2, <2>3 DEF IInv, TypeOK
<1>2. ASSUME NEW t \in Call, NextClosing(t) PROVE res'[u] = res[u]
  <2>1. PICK to \in res[t].todo, v \in Call :
          LET r    == ClosingMessage(t, to)
              rest == [res EXCEPT ![t].todo = @ \ {to}]
          IN  /\ IsNextCall(v)
              /\ \/ res' = rest
                 \/ res' = rest
                 \/ res' = [rest EXCEPT ![v] = Start(v, r, t)]
    BY <1>2 DEF NextClosing
  <2>. DEFINE rest == [res EXCEPT ![t].todo = @ \ {to}]
  <2>2. v # u /\ t # u
    BY <1>2, <2>1 DEF NextClosing, IsNextCall, Idle
  <2>3. /\ DOMAIN rest = Call /\ rest = [w \in Call |-> rest[w]]
        /\ rest[u] = res[u]
    BY <2>2 DEF IInv, TypeOK
  <2>4. res' = rest \/ \E local : res' = [rest EXCEPT ![v] = local]
    BY <2>1
  <2>. HIDE DEF rest
  <2>. QED
    BY <2>2, <2>3, <2>4
<1>3. ASSUME NEW t \in Call, Step(t), ~NextClosing(t) PROVE res' = res
  BY <1>3 DEF Step, DispatchLocked, DispatchTurnedDown, BroadcastLocked, EmitLocked,
     TurnedDown, Resume, FlushLocked, WaitLocked, Woken, TimedOutLocked, Report,
     NotifyLocked, CancelLocked, ShutdownLocked, AllClosingsSent, CloseThreadLocked,
     OperatorCloseLocked, Leave, LeaveToWrite, LeaveDispatch, SubmitDispatch
<1>. QED
  BY <1>1, <1>2, <1>3 DEF Next, TimeOut, Commit, WriteError, ExpireDeadlines, CloseTTL,
     MessageGC, Restart, Rest, vars, tasks

\* A sender submits the status that it leaves behind, for its conversation.
LEMMA SendersSubmit ==
  ASSUME IInv, HistType, NEW t \in Call, SendStep(t)
  PROVE  \E x : /\ wq' = Append(wq, x) /\ x.kind = "dispatch"
                /\ x.conv = res[t].conv /\ x.conv \in ConvId
                /\ x.status = conv'[res[t].conv].status /\ x.status # "absent"
                /\ Proper(x)' /\ UNCHANGED <<dbConv, req, res>>
<1>1. PICK envs, state, asked : Sending(t, envs, state, asked)
  BY SendersSend
<1>. DEFINE x == [by |-> t, kind |-> "dispatch", conv |-> res[t].conv,
                  isNew |-> res[t].isNew, status |-> state.status,
                  envs |-> envs, marks |-> {}]
<1>2. /\ wq' = Append(wq, x) /\ UNCHANGED <<dbConv, req, res>>
      /\ req[t].op \in SenderOps /\ Record(t, state)
  BY <1>1 DEF Sending, SubmitDispatch
<1>3. /\ x.kind = "dispatch" /\ x.by = t /\ x.conv = res[t].conv /\ x.envs = envs
      /\ x.status = state.status
  OBVIOUS
<1>. HIDE DEF x
<1>4. res[t].conv \in ConvId
  BY SendersGoOnward
<1>5. conv'[res[t].conv] = state
  BY <1>2, <1>4 DEF Record, IInv, TypeOK
<1>6. state.status # "absent"
  <2>1. PICK state2 : Record(t, state2) /\ Onward(StateFor(t), state2)
    BY SendersGoOnward
  <2>2. state = state2
    BY <1>4, <1>5, <2>1 DEF Record, IInv, TypeOK
  <2>3. StateFor(t).status # "absent"
    BY DEF StateFor, NewState
  <2>. QED
    BY <2>1, <2>2, <2>3 DEF Onward, Later
<1>7. \A e \in envs : e.cmd = t
  BY <1>1, SendingIsPast
<1>8. SendsTo(t, res[t].conv)'
  <2>1. req[t] # None
    BY <1>1, SendingIsPast, DispatcherAssumption DEF IInv, CallsOK, CallOK
  <2>. QED
    BY <1>2, <2>1 DEF SendsTo
<1>9. PICK y : y = x
  OBVIOUS
<1>10. Proper(y)'
  <2>1. y.kind = "dispatch" /\ y.by = t /\ y.conv \in ConvId /\ y.status # "absent"
    BY <1>3, <1>4, <1>6, <1>9
  <2>2. \A e \in y.envs : e.cmd = y.by
    BY <1>3, <1>7, <1>9
  <2>3. SendsTo(y.by, y.conv)'
    BY <1>2, <1>3, <1>8, <1>9 DEF SendsTo
  <2>. QED
    BY <2>1, <2>2, <2>3 DEF Proper
<1>. QED
  BY <1>2, <1>3, <1>4, <1>5, <1>6, <1>9, <1>10

\* WritersOK is kept.
LEMMA WritersStay ==
  IInv /\ OrderInv /\ HistType /\ WritersOK /\ [Next]_vars => WritersOK'
<1>. SUFFICES ASSUME IInv, OrderInv, HistType, WritersOK, [Next]_vars PROVE WritersOK'
  OBVIOUS
<1>0. wq \in Seq(Txn) /\ \A k \in DOMAIN wq : wq[k] \in Txn /\ wq[k].by \in Call
  BY WriteTypes DEF Txn
<1>1. ASSUME NEW x, NEW k \in DOMAIN wq, x = wq[k] PROVE Proper(x)'
  <2>1. Proper(x)
    BY <1>1 DEF WritersOK
  <2>2. ASSUME x.kind = "dispatch" PROVE SendsTo(x.by, x.conv)'
    <3>1. PICK u \in Call : u = x.by
      BY <1>0, <1>1
    <3>2. pc[u] = "write" /\ Past(u)
      BY <1>1, <2>2, <3>1 DEF OrderInv, WritesAwaited, AwaitedIn, Past, PastStages
    <3>3. req'[u] = req[u] /\ res'[u] = res[u]
      BY <3>2, PastStays, LocalsStay
    <3>. QED
      BY <2>1, <2>2, <3>1, <3>3 DEF Proper, SendsTo
  <2>. QED
    BY <2>1, <2>2 DEF Proper
<1>2. CASE UNCHANGED wq
  BY <1>1, <1>2 DEF WritersOK, Proper
<1>3. CASE wq # <<>> /\ wq' = Tail(wq)
  <2>1. \A k \in DOMAIN wq' : \E j \in DOMAIN wq : wq'[k] = wq[j]
    BY <1>0, <1>3, TailElements
  <2>. QED
    BY <1>1, <2>1 DEF WritersOK, Proper
<1>4. ASSUME NEW x, wq' = Append(wq, x), Proper(x)' PROVE WritersOK'
  <2>. DEFINE S == Txn \cup {x}
  <2>1. wq \in Seq(S) /\ x \in S
    BY <1>0
  <2>. HIDE DEF S
  <2>2. \A k \in DOMAIN wq' : wq'[k] = x \/ \E j \in DOMAIN wq : wq'[k] = wq[j]
    BY <1>4, <2>1, AppendElements
  <2>. QED
    BY <1>1, <1>4, <2>2 DEF WritersOK, Proper
<1>5. ASSUME NEW t \in Call, SendStep(t) PROVE WritersOK'
  BY <1>4, <1>5, SendersSubmit
<1>6. ASSUME NEW t \in Call, FlushLocked(t) \/ CancelLocked(t) PROVE WritersOK'
  <2>1. PICK got : Marking(t, got)
    BY <1>6, FlushTakes, CancelRecalls
  <2>2. ASSUME NEW x, x = Marks(t, got) PROVE Proper(x)'
    BY <2>2 DEF Proper, Marks
  <2>. QED
    BY <1>2, <1>4, <2>1, <2>2 DEF Marking
<1>7. ASSUME NEW t \in Call, OperatorCloseLocked(t) PROVE WritersOK'
  <2>1. PICK x : /\ wq' = Append(wq, x) /\ x.kind = "status" /\ x.conv = res[t].conv
                 /\ x.status = "closed" /\ x.envs = {}
    BY <1>7 DEF OperatorCloseLocked, LeaveToWrite
  <2>2. res[t].conv \in ConvId
    BY <1>7 DEF OperatorCloseLocked, InLock, IInv, CallsOK, CallOK, Started, InvolvesConv
  <2>3. Proper(x)'
    BY <2>1, <2>2 DEF Proper
  <2>. QED
    BY <1>4, <2>1, <2>3
<1>8. CASE Enter
  <2>1. UNCHANGED disk
    BY <1>8 DEF Enter, EnterWith, EnterDispatch, EnterReply, EnterBroadcast,
       EnterEmit, EnterMailbox, EnterCancel, EnterCloseThread, EnterOperatorClose,
       EnterShutdown
  <2>. QED
    BY <1>2, <2>1 DEF disk
<1>9. ASSUME NEW t \in Call, Step(t)
      PROVE  \/ UNCHANGED wq \/ SendStep(t)
             \/ FlushLocked(t) \/ CancelLocked(t) \/ OperatorCloseLocked(t)
  BY <1>9 DEF Step, SendStep, DispatchTurnedDown, TurnedDown, Resume, WaitLocked,
     Woken, TimedOutLocked, Report, ShutdownLocked, NextClosing, NotifyLocked,
     AllClosingsSent, CloseThreadLocked, disk
<1>10. CASE Restart
  <2>1. wq' = <<>>
    BY <1>10 DEF Restart
  <2>. QED
    BY <2>1 DEF WritersOK
<1>. QED
  BY <1>2, <1>3, <1>5, <1>6, <1>7, <1>8, <1>9, <1>10 DEF Next, TimeOut, Commit, WriteError,
     ExpireDeadlines, CloseTTL, MessageGC, Rest, vars, disk

\* WritersOK holds in every reachable state.
LEMMA WritersHold == Spec => []WritersOK
<1>1. Init => WritersOK
  BY DEF Init, WritersOK
<1>2. IInv /\ OrderInv /\ PostOK /\ WritersOK /\ [Next]_vars => WritersOK'
  BY WritersStay DEF PostOK
<1>. QED
  BY <1>1, <1>2, InvariantHolds, OrderHolds, PostHolds, PTL DEF Spec

-------------------------------------------------------------------------------
(***************************************************************************)
(* MailSurvives.  What is in an inbox is not marked, even when writes fail *)
(* or are refused: so a restart finds it unread, if its row is there.      *)
(***************************************************************************)
Stored == rows \cup UNION {wq[k].envs : k \in DOMAIN wq}
Marked == drained \cup UNION {wq[k].marks : k \in DOMAIN wq}

MarkedOK == \A q \in Marked : \E e \in Letters : Key(e) = q
Unmarked == \A e \in Letters : e \in Boxes => Key(e) \notin Marked
NoStrays == \A e \in Stored : Key(e) \notin Marked => e \in Boxes

\* A transaction is submitted: what it carries is on its way.
LEMMA SubmitFiles ==
  ASSUME IInv, NEW x, wq' = Append(wq, x), UNCHANGED <<rows, drained>>
  PROVE  Stored' = Stored \cup x.envs /\ Marked' = Marked \cup x.marks
<1>. DEFINE S == Txn \cup {x}
<1>1. wq \in Seq(S) /\ x \in S
  BY WriteTypes
<1>. HIDE DEF S
<1>2. /\ Len(wq) \in Nat /\ DOMAIN wq = 1..Len(wq)
      /\ DOMAIN wq' = 1..(Len(wq) + 1) /\ wq'[Len(wq) + 1] = x
      /\ \A i \in 1..Len(wq) : wq'[i] = wq[i]
  BY <1>1, AppendPlaces
<1>3. \A k : k \in DOMAIN wq' <=> k \in DOMAIN wq \/ k = Len(wq) + 1
  BY <1>2
<1>. QED
  BY <1>2, <1>3 DEF Stored, Marked

\* The worker marks nothing that was not on its way to be marked.
LEMMA WorkerMarks ==
  ASSUME IInv, Commit \/ WriteError
  PROVE  Marked' \subseteq Marked
<1>1. /\ wq # <<>> /\ wq' = Tail(wq) /\ wq \in Seq(Txn)
      /\ drained' \subseteq drained \cup Head(wq).marks
  BY WriteTypes DEF Commit, WriteError
<1>2. /\ 1 \in DOMAIN wq /\ Head(wq) = wq[1]
      /\ \A k \in DOMAIN wq' : \E j \in DOMAIN wq : wq'[k] = wq[j]
  BY <1>1, TailElements
<1>. QED
  BY <1>1, <1>2 DEF Marked

\* Only a flush, a cancel or a restart marks messages.
LEMMA MarksCome ==
  ASSUME IInv, HistType, [Next]_vars, ~Restart,
         \A t \in Call : ~FlushLocked(t) /\ ~CancelLocked(t)
  PROVE  Marked' \subseteq Marked
<1>1. CASE UNCHANGED <<wq, drained>>
  BY <1>1 DEF Marked
<1>2. ASSUME NEW x, wq' = Append(wq, x), x.marks = {}, UNCHANGED <<rows, drained>>
      PROVE  Marked' \subseteq Marked
  BY <1>2, SubmitFiles
<1>3. ASSUME NEW t \in Call, SendStep(t) PROVE Marked' \subseteq Marked
  <2>1. PICK envs, state, asked : Sending(t, envs, state, asked)
    BY <1>3, SendersSend
  <2>2. PICK x : wq' = Append(wq, x) /\ x.marks = {} /\ UNCHANGED <<rows, drained>>
    BY <2>1 DEF Sending, SubmitDispatch
  <2>. QED
    BY <1>2, <2>2
<1>4. ASSUME NEW t \in Call, OperatorCloseLocked(t) PROVE Marked' \subseteq Marked
  <2>1. PICK x : wq' = Append(wq, x) /\ x.marks = {} /\ UNCHANGED <<rows, drained>>
    BY <1>4 DEF OperatorCloseLocked, LeaveToWrite
  <2>. QED
    BY <1>2, <2>1
<1>5. CASE Enter
  <2>1. UNCHANGED disk
    BY <1>5 DEF Enter, EnterWith, EnterDispatch, EnterReply, EnterBroadcast,
       EnterEmit, EnterMailbox, EnterCancel, EnterCloseThread, EnterOperatorClose,
       EnterShutdown
  <2>. QED
    BY <1>1, <2>1 DEF disk
<1>6. ASSUME NEW t \in Call, Step(t)
      PROVE  UNCHANGED disk \/ SendStep(t) \/ OperatorCloseLocked(t)
  BY <1>6 DEF Step, SendStep, DispatchTurnedDown, TurnedDown, Resume, WaitLocked,
     Woken, TimedOutLocked, Report, ShutdownLocked, NextClosing, NotifyLocked,
     AllClosingsSent, CloseThreadLocked
<1>. QED
  BY <1>1, <1>3, <1>4, <1>5, <1>6, WorkerMarks
  DEF Next, TimeOut, ExpireDeadlines, CloseTTL, MessageGC, Rest, vars, disk

\* Letters come; letters are taken or recalled, and only these are marked.
Handles(new, gone) ==
  /\ Letters' = Letters \cup new /\ new \cap Letters = {}
  /\ \A e \in Letters' : e \in Boxes' => (e \in Boxes /\ e \notin gone) \/ e \in new
  /\ gone \cap new = {} /\ \A e \in gone : ~IsNotice(e) => e \in Letters
  /\ Marked' \subseteq Marked \cup MarksOf(gone)

\* MarkedOK and Unmarked are kept by such a step.
LEMMA HandlesWell ==
  ASSUME PostOK, PostOK', MarkedOK, Unmarked, NEW new, NEW gone, Handles(new, gone)
  PROVE  MarkedOK' /\ Unmarked'
<1>. USE DEF Handles
<1>1. \A q \in MarksOf(gone) : \E e \in gone : ~IsNotice(e) /\ e \in Letters /\ Key(e) = q
  BY DEF MarksOf
<1>2. \A e, f \in Letters' : Key(e) = Key(f) => e = f
  BY DEF PostOK, LettersOK, Key
<1>3. MarkedOK'
  BY <1>1 DEF MarkedOK, Key
<1>4. ASSUME NEW e \in Letters', e \in Boxes' PROVE Key(e) \notin Marked'
  <2>1. CASE e \in new
    BY <1>1, <1>2, <2>1 DEF MarkedOK
  <2>2. CASE e \in Boxes /\ e \notin gone /\ e \notin new
    <3>1. e \in Letters /\ Key(e) \notin Marked
      BY <2>2 DEF Unmarked
    <3>2. Key(e) \notin MarksOf(gone)
      BY <1>1, <1>2, <2>2, <3>1
    <3>. QED
      BY <3>1, <3>2
  <2>. QED
    BY <1>4, <2>1, <2>2
<1>. QED
  BY <1>3, <1>4 DEF Unmarked, Key

\* MarkedOK and Unmarked are kept, whatever fails.
LEMMA UnmarkedStays ==
  IInv /\ PostOK /\ PostOK' /\ MarkedOK /\ Unmarked /\ [Next]_vars
    => MarkedOK' /\ Unmarked'
<1>. SUFFICES ASSUME IInv, PostOK, PostOK', MarkedOK, Unmarked, [Next]_vars
              PROVE  MarkedOK' /\ Unmarked'
  OBVIOUS
<1>0. HistType /\ MarksOf({}) = {}
  BY DEF PostOK, MarksOf
<1>1. CASE Restart
  <2>1. PICK back : back \subseteq Undrained /\ Reload(back) /\ Boxes' = back
    BY <1>1, RestartPutsBack
  <2>2. /\ drained' = drained \cup MarksOf(Undrained \ back)
        /\ wq' = <<>>
    BY <1>1, <2>1 DEF Reload, Restart
  <2>3. Letters' = Letters /\ Marked' = drained' /\ drained \subseteq Marked
    BY <1>0, <1>1, <2>2, RestartForgets DEF Marked
  <2>4. Undrained \subseteq Letters /\ \A e, f \in Letters : Key(e) = Key(f) => e = f
    BY DEF PostOK, StoredOK, LettersOK, Undrained
  <2>5. \A q \in MarksOf(Undrained \ back) : \E e \in Undrained \ back : Key(e) = q
    BY DEF MarksOf
  <2>6. MarkedOK'
    BY <2>2, <2>3, <2>4, <2>5 DEF MarkedOK, Key
  <2>7. ASSUME NEW e \in back PROVE Key(e) \notin drained'
    BY <2>1, <2>2, <2>4, <2>5 DEF Undrained
  <2>. QED
    BY <2>1, <2>3, <2>6, <2>7 DEF Unmarked, Key
<1>2. ASSUME NEW new, NEW gone, Handles(new, gone) PROVE MarkedOK' /\ Unmarked'
  BY <1>2, HandlesWell
<1>3. ASSUME NEW t \in Call, SendStep(t), Marked' \subseteq Marked
      PROVE  \E new : Handles(new, {})
  <2>1. PICK envs, state, asked : Sending(t, envs, state, asked)
    BY <1>0, <1>3, SendersSend
  <2>2. /\ ~Past(t) /\ Letters' = Letters \cup envs
        /\ \A e \in envs : e.cmd = t /\ ~IsNotice(e) /\ e \in Envelope
    BY <2>1, SendingIsPast
  <2>3. envs \cap Letters = {}
    BY <2>2 DEF PostOK, LettersOK
  <2>4. Boxes' = Boxes \cup envs
    BY <2>1, <2>2, DeliverFillsBoxes DEF Sending
  <2>. QED
    BY <1>0, <1>3, <2>2, <2>3, <2>4 DEF Handles
<1>4. ASSUME NEW t \in Call, NEW got, Marking(t, got), got \subseteq Boxes,
             Boxes' = Boxes \ got, hist'.sent = hist.sent
      PROVE  Handles({}, got)
  <2>1. Letters' = Letters
    BY <1>4 DEF Letters, IsNotice
  <2>2. \A e \in got : ~IsNotice(e) => e \in Letters
    BY <1>4 DEF Boxes, PostOK, InboxesOK, Letters
  <2>3. Marked' \subseteq Marked \cup MarksOf(got)
    <3>1. CASE got = {}
      BY <1>4, <3>1 DEF Marking, Marked
    <3>2. CASE got # {}
      <4>. DEFINE x == Marks(t, got)
      <4>1. wq' = Append(wq, x) /\ UNCHANGED <<rows, drained>>
        BY <1>4, <3>2 DEF Marking
      <4>2. x.marks = MarksOf(got)
        BY DEF Marks
      <4>. HIDE DEF x
      <4>. QED
        BY <4>1, <4>2, SubmitFiles
    <3>. QED
      BY <3>1, <3>2
  <2>. QED
    BY <1>4, <2>1, <2>2, <2>3 DEF Handles
<1>5. ASSUME NEW t \in Call, FlushLocked(t) PROVE \E got : Handles({}, got)
  <2>1. PICK got : Taking(t, got) /\ Marking(t, got)
    BY <1>0, <1>5, FlushTakes
  <2>2. Boxes' = Boxes \ got /\ got \subseteq Boxes /\ hist'.sent = hist.sent
    BY <2>1, TakenLeaves DEF PostOK, Taking, HistoryIs
  <2>. QED
    BY <1>4, <2>1, <2>2
<1>6. ASSUME NEW t \in Call, CancelLocked(t) PROVE \E got : Handles({}, got)
  <2>1. PICK back : Recalling(t, back) /\ Marking(t, back)
    BY <1>0, <1>6, CancelRecalls
  <2>2. Boxes' = Boxes \ back /\ back \subseteq Boxes
    BY <2>1, RecalledLeaves
  <2>3. hist'.sent = hist.sent
    BY <2>1 DEF Recalling, HistoryIs
  <2>. QED
    BY <1>4, <2>1, <2>2, <2>3
<1>7. ASSUME NEW envs \in SUBSET Envelope, Deliver(envs), \A e \in envs : IsNotice(e),
             hist'.sent = hist.sent \cup envs, Marked' \subseteq Marked
      PROVE  Handles({}, {})
  <2>1. Boxes' = Boxes \cup envs
    BY <1>7, DeliverFillsBoxes
  <2>2. Letters' = Letters /\ \A e \in Letters : e \notin envs
    BY <1>7 DEF Letters, IsNotice
  <2>. QED
    BY <1>0, <1>7, <2>1, <2>2 DEF Handles
<1>8. ASSUME NEW t \in Call, NotifyLocked(t), Marked' \subseteq Marked
      PROVE  Handles({}, {})
  <2>1. PICK e : Noticing(t, e)
    BY <1>0, <1>8, NotifyPosts
  <2>2. /\ {e} \in SUBSET Envelope /\ Deliver({e}) /\ IsNotice(e)
        /\ hist'.sent = hist.sent \cup {e}
    BY <2>1 DEF Noticing, HistoryIs, Notice, IsNotice
  <2>. QED
    BY <1>7, <1>8, <2>2
<1>9. ASSUME ExpireDeadlines, Marked' \subseteq Marked PROVE Handles({}, {})
  <2>1. PICK late : Expiring(late)
    BY <1>0, <1>9, SweepExpires
  <2>. DEFINE envs == {TimeoutNotice(x) : x \in late}
  <2>2. /\ envs \in SUBSET Envelope /\ Deliver(envs)
        /\ \A e \in envs : IsNotice(e)
        /\ hist'.sent = hist.sent \cup envs
    BY <2>1 DEF Expiring, HistoryIs, TimeoutNotice, Notice, IsNotice
  <2>. HIDE DEF envs
  <2>. QED
    BY <1>7, <1>9, <2>2
<1>10. ASSUME Uneventful, Marked' \subseteq Marked PROVE Handles({}, {})
  BY <1>0, <1>10 DEF Uneventful, Handles, Letters, IsNotice, Boxes
<1>11. CASE \E t \in Call : FlushLocked(t) \/ CancelLocked(t)
  BY <1>2, <1>5, <1>6, <1>11
<1>12. CASE ~Restart /\ \A t \in Call : ~FlushLocked(t) /\ ~CancelLocked(t)
  <2>1. Marked' \subseteq Marked
    BY <1>0, <1>12, MarksCome
  <2>2. \E new, gone : Handles(new, gone)
    BY <1>3, <1>8, <1>9, <1>10, <1>12, <2>1, StepKinds
  <2>. QED
    BY <1>2, <2>2
<1>. QED
  BY <1>1, <1>11, <1>12

\* What leaves an inbox was read, recalled, or lost as a restart may lose it.
LEMMA LosesNothing ==
  ASSUME IInv, PostOK, Unmarked, Durable, [Next]_vars
  PROVE  NothingIsLost
<1>. SUFFICES ASSUME NEW i \in Ids, NEW e \in queues[i], e \notin queues'[i]
              PROVE  \/ epoch' = epoch /\ e \in hist'.taken \cup hist'.recalled
                     \/ epoch' # epoch /\ RestartMayLose(e)
  BY DEF NothingIsLost
<1>0. HistType
  BY DEF PostOK
<1>1. CASE Restart
  <2>1. epoch' # epoch
    <3>1. epoch' = epoch + 1 /\ epoch \in Nat
      BY <1>1 DEF Restart, IInv, TypeOK
    <3>. QED
      BY <3>1
  <2>2. ASSUME ~IsNotice(e), pc[e.cmd] = "done", dbConv[e.conv] # "closed"
        PROVE  FALSE \in RestoreModes /\ \A j \in Ids : queues'[j] = {}
    <3>1. e \in Letters /\ e \in Boxes /\ e.target = i
      BY <2>2 DEF PostOK, InboxesOK, Letters, Boxes
    <3>2. e \in rows /\ Key(e) \notin drained
      BY <2>2, <3>1 DEF Durable, Unmarked, Marked
    <3>3. e \in Restorable
      BY <2>2, <3>2 DEF Restorable, Undrained
    <3>4. PICK restore \in RestoreModes : Reload(IF restore THEN Restorable ELSE {})
      BY <1>1 DEF Restart
    <3>5. restore = FALSE
      <4>1. ASSUME restore = TRUE PROVE FALSE
        BY <3>1, <3>3, <3>4, <4>1 DEF Reload
      <4>. QED
        BY <4>1, DispatcherAssumption
    <3>6. Reload({})
      BY <3>4, <3>5
    <3>. QED
      BY <3>4, <3>5, <3>6 DEF Reload
  <2>. QED
    BY <2>1, <2>2 DEF RestartMayLose
<1>2. CASE \A envs : ~Deliver(envs)
  <2>1. ASSUME NEW t \in Call, FlushLocked(t)
        PROVE  epoch' = epoch /\ e \in hist'.taken
    <3>1. PICK got : Taking(t, got)
      BY <1>0, <2>1, FlushTakes
    <3>. QED
      BY <3>1 DEF Taking, HistoryIs, IInv, TypeOK
  <2>2. ASSUME NEW t \in Call, CancelLocked(t)
        PROVE  epoch' = epoch /\ e \in hist'.recalled
    <3>1. PICK back : Recalling(t, back)
      BY <1>0, <2>2, CancelRecalls
    <3>. QED
      BY <3>1 DEF Recalling, HistoryIs
  <2>3. ASSUME NEW t \in Call, SendStep(t) PROVE FALSE
    BY <1>0, <1>2, <2>3, SendersSend DEF Sending
  <2>4. ASSUME NEW t \in Call, NotifyLocked(t) PROVE FALSE
    BY <1>0, <1>2, <2>4, NotifyPosts DEF Noticing
  <2>5. ~ExpireDeadlines
    <3>1. ASSUME NEW late, Expiring(late) PROVE FALSE
      BY <1>2, <3>1 DEF Expiring
    <3>. QED
      BY <1>0, <3>1, SweepExpires
  <2>6. ~Uneventful
    BY DEF Uneventful
  <2>. QED
    BY <1>1, <2>1, <2>2, <2>3, <2>4, <2>5, <2>6, StepKinds
<1>3. ASSUME NEW envs, Deliver(envs) PROVE FALSE
  BY <1>3 DEF Deliver
<1>. QED
  BY <1>2, <1>3

\* MarkedOK and Unmarked hold, whatever fails.
LEMMA MarksHold == Spec => [](MarkedOK /\ Unmarked)
<1>1. Init => MarkedOK /\ Unmarked
  BY DEF Init, NoHist, Letters, MarkedOK, Marked, Unmarked
<1>. QED
  BY <1>1, UnmarkedStays, InvariantHolds, PostHolds, PTL DEF Spec

\* Durable, MarkedOK and Unmarked are kept as long as nothing is collected.
LEMMA MailHolds ==
  ASSUME "gc" \notin Daemons
  PROVE  Spec => [](Durable /\ MarkedOK /\ Unmarked)
<1>1. Init => Durable
  BY DEF Init, NoHist, Letters, Durable
<1>2. IInv /\ OrderInv /\ PostOK /\ Durable /\ [Next]_vars => Durable'
  BY DurableStays DEF MessageGC
<1>. QED
  BY <1>1, <1>2, MarksHold, InvariantHolds, OrderHolds, PostHolds, PTL DEF Spec

\* Whatever crashes and whatever write fails: a message whose call has returned
\* leaves its inbox only when it is read or recalled, or with its closed
\* conversation, or because the operator did not want it restored.
THEOREM MailIsNotLost ==
  ASSUME "gc" \notin Daemons
  PROVE  Spec => [][NothingIsLost]_vars
<1>1. IInv /\ PostOK /\ Durable /\ Unmarked /\ [Next]_vars => [NothingIsLost]_vars
  BY LosesNothing
<1>. QED
  BY <1>1, MailHolds, InvariantHolds, PostHolds, PTL DEF Spec

-------------------------------------------------------------------------------
(***************************************************************************)
(* CapacityRespected through restarts.  Unread(n): the rows that a restart *)
(* finds undrained if it comes when n more transactions are on disk.       *)
(* Once all are, these are messages that are in an inbox (NoStrays).  So   *)
(* what fits into the inboxes fits again, however much of the queue is     *)
(* lost.                                                                   *)
(***************************************************************************)
StoredBy(n) == rows \cup UNION {wq[k].envs : k \in 1..n}
MarkedBy(n) == drained \cup UNION {wq[k].marks : k \in 1..n}
Unread(n) == {e \in StoredBy(n) : Key(e) \notin MarkedBy(n)}

LateMarks ==
  \A j, k \in DOMAIN wq : j <= k => \A e \in wq[k].envs : Key(e) \notin wq[j].marks
UnreadFits ==
  \A n \in 0..Len(wq) : \A i \in Ids :
    LET there == {e \in Unread(n) : e.target = i}
    IN  IsFiniteSet(there) /\ Fits(there)

\* All that is stored and marked is so once the whole queue is on disk.
LEMMA WholeQueue ==
  ASSUME IInv
  PROVE  /\ Len(wq) \in Nat /\ DOMAIN wq = 1..Len(wq)
         /\ StoredBy(Len(wq)) = Stored /\ MarkedBy(Len(wq)) = Marked
         /\ \A e : e \in Unread(Len(wq)) <=> e \in Stored /\ Key(e) \notin Marked
<1>1. Len(wq) \in Nat /\ DOMAIN wq = 1..Len(wq)
  BY WriteTypes
<1>. QED
  BY <1>1 DEF StoredBy, MarkedBy, Stored, Marked, Unread

\* The same disk, the same unread rows.
LEMMA UnreadStays ==
  ASSUME NoStrays, LateMarks, UnreadFits, UNCHANGED <<wq, drained>>, rows' \subseteq rows,
         Boxes \subseteq Boxes'
  PROVE  (NoStrays /\ LateMarks /\ UnreadFits)'
<1>1. Stored' \subseteq Stored /\ Marked' = Marked
  BY DEF Stored, Marked
<1>2. NoStrays'
  BY <1>1 DEF NoStrays, Key
<1>3. LateMarks'
  BY DEF LateMarks, Key
<1>4. ASSUME NEW n \in 0..Len(wq'), NEW i \in Ids
      PROVE  LET there == {e \in Unread(n)' : e.target = i}
             IN  IsFiniteSet(there) /\ Fits(there)
  <2>1. n \in 0..Len(wq) /\ Unread(n)' \subseteq Unread(n)
    BY <1>4 DEF Unread, StoredBy, MarkedBy, Key
  <2>2. {e \in Unread(n)' : e.target = i} \subseteq {e \in Unread(n) : e.target = i}
    BY <2>1
  <2>3. /\ IsFiniteSet({e \in Unread(n) : e.target = i})
        /\ Fits({e \in Unread(n) : e.target = i})
    BY <2>1 DEF UnreadFits
  <2>. QED
    BY <2>2, <2>3, PartFits
<1>. QED
  BY <1>2, <1>3, <1>4 DEF UnreadFits

\* A transaction is submitted with what has just come into the inboxes, or gone.
LEMMA UnreadGrows ==
  ASSUME IInv, IInv', PostOK, PostOK', MarkedOK, Bounded', NoStrays, LateMarks, UnreadFits,
         NEW x, wq' = Append(wq, x), UNCHANGED <<rows, drained>>,
         \A e \in x.envs : e \in Letters' /\ e \notin Letters,
         Letters \subseteq Letters', x.envs = {} \/ x.marks = {},
         \A e \in Stored \cup x.envs : Key(e) \notin Marked \cup x.marks => e \in Boxes'
  PROVE  (NoStrays /\ LateMarks /\ UnreadFits)'
<1>. DEFINE S == Txn \cup {x}
<1>0. wq \in Seq(S) /\ x \in S
  BY WriteTypes
<1>. HIDE DEF S
<1>1. /\ Len(wq) \in Nat /\ DOMAIN wq = 1..Len(wq) /\ Len(wq') = Len(wq) + 1
      /\ DOMAIN wq' = 1..(Len(wq) + 1) /\ wq'[Len(wq) + 1] = x
      /\ \A k \in 1..Len(wq) : wq'[k] = wq[k]
  BY <1>0, AppendPlaces, AppendProperties
<1>2. Stored' = Stored \cup x.envs /\ Marked' = Marked \cup x.marks
  BY SubmitFiles
<1>3. NoStrays'
  BY <1>2 DEF NoStrays, Key
<1>4. ASSUME NEW e \in x.envs PROVE Key(e) \notin Marked
  <2>1. ASSUME NEW f \in Letters, Key(f) = Key(e) PROVE FALSE
    <3>1. e \in Letters' /\ f \in Letters' /\ e # f
      BY <2>1
    <3>. QED
      BY <2>1, <3>1 DEF PostOK, LettersOK, Key
  <2>. QED
    BY <2>1 DEF MarkedOK
<1>5. LateMarks'
  <2>. SUFFICES ASSUME NEW j \in DOMAIN wq', NEW k \in DOMAIN wq', j <= k,
                       NEW e \in wq'[k].envs
                PROVE  Key(e) \notin wq'[j].marks
    BY DEF LateMarks, Key
  <2>1. CASE k \in DOMAIN wq
    BY <1>1, <2>1 DEF LateMarks
  <2>2. CASE k = Len(wq) + 1
    <3>1. e \in x.envs /\ x.marks = {}
      BY <1>1, <2>2
    <3>2. CASE j \in DOMAIN wq
      BY <1>1, <1>4, <3>1, <3>2 DEF Marked
    <3>3. CASE j = Len(wq) + 1
      BY <1>1, <3>1, <3>3
    <3>. QED
      BY <1>1, <3>2, <3>3
  <2>. QED
    BY <1>1, <2>1, <2>2
<1>6. ASSUME NEW n \in 0..Len(wq'), NEW i \in Ids
      PROVE  LET there == {e \in Unread(n)' : e.target = i}
             IN  IsFiniteSet(there) /\ Fits(there)
  <2>1. CASE n \in 0..Len(wq)
    <3>1. \A k \in 1..n : wq'[k] = wq[k]
      BY <1>1, <2>1
    <3>2. StoredBy(n)' = StoredBy(n) /\ MarkedBy(n)' = MarkedBy(n)
      BY <3>1 DEF StoredBy, MarkedBy
    <3>3. Unread(n)' = Unread(n)
      BY <3>2 DEF Unread, Key
    <3>. QED
      BY <2>1, <3>3 DEF UnreadFits
  <2>2. CASE n = Len(wq')
    <3>. DEFINE there == {e \in Unread(n)' : e.target = i}
    <3>1. \A e : e \in Unread(n)' <=> e \in Stored' /\ Key(e) \notin Marked'
      BY <1>1, <2>2 DEF Unread, StoredBy, MarkedBy, Stored, Marked, Key
    <3>2. \A e \in Stored' : e \in Letters' /\ ~IsNotice(e)
      BY DEF Stored, PostOK, StoredOK, Letters, IsNotice
    <3>3. \A e \in Boxes' : e.target = i => e \in queues'[i]
      BY DEF Boxes, PostOK, InboxesOK
    <3>4. there \subseteq LettersIn(i)'
      BY <1>3, <3>1, <3>2, <3>3 DEF NoStrays, LettersIn, IsNotice, Key
    <3>5. IsFiniteSet(LettersIn(i)') /\ Fits(LettersIn(i)')
      BY FS_Subset DEF Bounded, LettersIn
    <3>. HIDE DEF there
    <3>6. IsFiniteSet(there) /\ Fits(there)
      BY <3>4, <3>5, PartFits
    <3>. QED
      BY <3>6 DEF there
  <2>. QED
    BY <1>1, <2>1, <2>2
<1>. QED
  BY <1>3, <1>5, <1>6 DEF UnreadFits

\* The worker carries out the first transaction: there is no row to come for a
\* mark that finds none.
LEMMA UnreadCommits ==
  ASSUME IInv, IInv', NoStrays, LateMarks, UnreadFits, Commit
  PROVE  (NoStrays /\ LateMarks /\ UnreadFits)'
<1>. DEFINE x == Head(wq)
<1>1. wq # <<>> /\ wq' = Tail(wq) /\ wq \in Seq(Txn)
  BY WriteTypes DEF Commit
<1>2. /\ Len(wq) \in Nat \ {0} /\ DOMAIN wq = 1..Len(wq) /\ x = wq[1]
      /\ DOMAIN wq' = 1..(Len(wq) - 1) /\ Len(wq') = Len(wq) - 1
      /\ \A k \in 1..(Len(wq) - 1) : wq'[k] = wq[k + 1]
  BY <1>1, TailPlaces
<1>3. /\ rows \subseteq rows' /\ rows' \subseteq rows \cup x.envs
      /\ drained' = drained \cup {q \in x.marks : \E e \in rows : Key(e) = q}
      /\ queues' = queues
  BY DEF Commit, mail
<1>. HIDE DEF x
<1>4. \A k \in DOMAIN wq : \A e \in wq[k].envs : Key(e) \notin x.marks
  BY <1>2 DEF LateMarks
<1>5. ASSUME NEW n \in 0..Len(wq') PROVE n + 1 \in 0..Len(wq) /\ Unread(n)' \subseteq Unread(n + 1)
  <2>1. n + 1 \in 0..Len(wq) /\ 1 \in 1..(n + 1)
    BY <1>2
  <2>2. \A k \in 1..n : k + 1 \in 1..(n + 1) /\ wq'[k] = wq[k + 1] /\ k + 1 \in DOMAIN wq
    BY <1>2
  <2>3. \A k \in 1..(n + 1) : k = 1 \/ (k - 1 \in 1..n /\ wq'[k - 1] = wq[k])
    BY <1>2
  <2>. SUFFICES ASSUME NEW e \in Unread(n)' PROVE e \in Unread(n + 1)
    BY <2>1
  <2>4. e \in StoredBy(n)' /\ Key(e) \notin MarkedBy(n)'
    BY DEF Unread, Key
  <2>5. e \in rows \/ \E k \in 1..(n + 1) : k \in DOMAIN wq /\ e \in wq[k].envs
    <3>1. CASE e \in rows'
      BY <1>2, <1>3, <2>1, <3>1
    <3>2. ASSUME NEW k \in 1..n, e \in wq'[k].envs
          PROVE  \E j \in 1..(n + 1) : j \in DOMAIN wq /\ e \in wq[j].envs
      BY <2>2, <3>2
    <3>. QED
      BY <2>4, <3>1, <3>2 DEF StoredBy
  <2>6. Key(e) \notin drained /\ (e \in rows => Key(e) \notin x.marks)
    BY <1>3, <2>4 DEF MarkedBy
  <2>7. Key(e) \notin x.marks
    BY <1>4, <2>5, <2>6
  <2>8. \A k \in 1..(n + 1) : Key(e) \notin wq[k].marks
    BY <1>2, <2>3, <2>4, <2>7 DEF MarkedBy
  <2>. QED
    BY <2>5, <2>6, <2>8 DEF Unread, StoredBy, MarkedBy
<1>6. NoStrays'
  <2>. SUFFICES ASSUME NEW e \in Stored', Key(e) \notin Marked', NEW n, n = Len(wq')
                PROVE  e \in Boxes'
    BY DEF NoStrays, Key
  <2>1. n \in 0..Len(wq') /\ n + 1 = Len(wq) /\ DOMAIN wq' = 1..n
    BY <1>2
  <2>2. e \in Unread(n)'
    BY <2>1 DEF Unread, StoredBy, MarkedBy, Stored, Marked, Key
  <2>3. e \in Unread(n + 1)
    BY <1>5, <2>1, <2>2
  <2>4. e \in Stored /\ Key(e) \notin Marked
    BY <2>1, <2>3, WholeQueue
  <2>. QED
    BY <1>3, <2>4 DEF NoStrays, Boxes
<1>7. LateMarks'
  <2>1. \A k \in DOMAIN wq' : k + 1 \in DOMAIN wq /\ wq'[k] = wq[k + 1] /\ k \in Nat
    BY <1>2
  <2>2. ASSUME NEW m \in DOMAIN wq', NEW k \in DOMAIN wq', m <= k,
               NEW e \in wq'[k].envs
        PROVE  Key(e) \notin wq'[m].marks
    <3>1. m + 1 <= k + 1 /\ e \in wq[k + 1].envs
      BY <2>1, <2>2
    <3>. QED
      BY <2>1, <3>1 DEF LateMarks
  <2>. QED
    BY <2>2 DEF LateMarks, Key
<1>8. ASSUME NEW n \in 0..Len(wq'), NEW i \in Ids
      PROVE  LET there == {e \in Unread(n)' : e.target = i}
             IN  IsFiniteSet(there) /\ Fits(there)
  <2>1. n + 1 \in 0..Len(wq)
        /\ {e \in Unread(n)' : e.target = i} \subseteq {e \in Unread(n + 1) : e.target = i}
    BY <1>5
  <2>2. /\ IsFiniteSet({e \in Unread(n + 1) : e.target = i})
        /\ Fits({e \in Unread(n + 1) : e.target = i})
    BY <2>1 DEF UnreadFits
  <2>. QED
    BY <2>1, <2>2, PartFits
<1>. QED
  BY <1>6, <1>7, <1>8 DEF UnreadFits

\* What a restart restores fits, and so does what it leaves on disk.
LEMMA UnreadRestarts ==
  ASSUME IInv, PostOK, PostOK', UnreadFits, Restart
  PROVE  Bounded' /\ (NoStrays /\ LateMarks /\ UnreadFits)'
<1>1. PICK back : back \subseteq Undrained /\ Reload(back) /\ Boxes' = back
  BY RestartPutsBack
<1>2. /\ drained' = drained \cup MarksOf(Undrained \ back)
      /\ wq' = <<>> /\ rows' = rows
  BY <1>1 DEF Reload, Restart
<1>3. \A e \in rows : ~IsNotice(e)
  BY DEF PostOK, StoredOK, Letters
<1>4. NoStrays'
  <2>. SUFFICES ASSUME NEW e \in Stored', Key(e) \notin Marked' PROVE e \in back
    BY <1>1 DEF NoStrays, Key
  <2>1. e \in rows /\ Key(e) \notin drained /\ Key(e) \notin MarksOf(Undrained \ back)
    BY <1>2 DEF Stored, Marked
  <2>2. e \in Undrained
    BY <2>1 DEF Undrained
  <2>. QED
    BY <1>3, <2>1, <2>2 DEF MarksOf
<1>5. LateMarks'
  BY <1>2 DEF LateMarks
<1>6. 0 \in 0..Len(wq) /\ \A e : e \in Unread(0) <=> e \in Undrained
  <2>1. Len(wq) \in Nat
    BY WriteTypes
  <2>. QED
    BY <2>1 DEF Unread, StoredBy, MarkedBy, Undrained
<1>7. ASSUME NEW i \in Ids
      PROVE  /\ IsFiniteSet({e \in Undrained : e.target = i})
             /\ Fits({e \in Undrained : e.target = i})
  <2>1. {e \in Undrained : e.target = i} = {e \in Unread(0) : e.target = i}
    BY <1>6
  <2>. QED
    BY <1>6, <2>1 DEF UnreadFits
<1>8. ASSUME NEW n \in 0..Len(wq'), NEW i \in Ids
      PROVE  LET there == {e \in Unread(n)' : e.target = i}
             IN  IsFiniteSet(there) /\ Fits(there)
  <2>1. n = 0
    BY <1>2
  <2>2. \A e \in Unread(n)' : e \in Undrained
    BY <1>2, <2>1 DEF Unread, StoredBy, MarkedBy, Undrained, Key
  <2>3. {e \in Unread(n)' : e.target = i} \subseteq {e \in Undrained : e.target = i}
    BY <2>2
  <2>. QED
    BY <1>7, <2>3, PartFits
<1>9. ASSUME NEW i \in Ids
      PROVE  IsFiniteSet(queues'[i]) /\ Fits(LettersIn(i)')
  <2>1. queues'[i] \subseteq {e \in Undrained : e.target = i}
    BY <1>1 DEF Boxes, PostOK, InboxesOK
  <2>2. LettersIn(i)' \subseteq {e \in Undrained : e.target = i}
    BY <2>1 DEF LettersIn
  <2>. QED
    BY <1>7, <2>1, <2>2, PartFits
<1>. QED
  BY <1>4, <1>5, <1>8, <1>9 DEF Bounded, UnreadFits

UnreadOK == MarkedOK /\ Unmarked /\ NoStrays /\ LateMarks /\ UnreadFits

\* These are kept as long as no write fails.
LEMMA UnreadOKStays ==
  ASSUME IInv, IInv', PostOK, PostOK', Bounded', UnreadOK, [Next]_vars,
         "write_error" \notin Daemons
  PROVE  UnreadOK'
<1>0. HistType
  BY DEF PostOK
<1>. SUFFICES (NoStrays /\ LateMarks /\ UnreadFits)'
  BY UnmarkedStays DEF UnreadOK
<1>1. ASSUME UNCHANGED <<wq, drained>>, rows' \subseteq rows, Boxes \subseteq Boxes'
      PROVE  (NoStrays /\ LateMarks /\ UnreadFits)'
  BY <1>1, UnreadStays DEF UnreadOK
<1>2. ASSUME UNCHANGED <<queues, disk>> PROVE (NoStrays /\ LateMarks /\ UnreadFits)'
  BY <1>1, <1>2 DEF disk, Boxes
<1>3. ASSUME NEW x, wq' = Append(wq, x), UNCHANGED <<rows, drained>>,
             \A e \in x.envs : e \in Letters' /\ e \notin Letters,
             Letters \subseteq Letters', x.envs = {} \/ x.marks = {},
             \A e \in Stored \cup x.envs : Key(e) \notin Marked \cup x.marks => e \in Boxes'
      PROVE  (NoStrays /\ LateMarks /\ UnreadFits)'
  BY <1>3, UnreadGrows DEF UnreadOK
<1>4. ASSUME NEW t \in Call, SendStep(t) PROVE (NoStrays /\ LateMarks /\ UnreadFits)'
  <2>1. PICK envs, state, asked : Sending(t, envs, state, asked)
    BY <1>0, <1>4, SendersSend
  <2>. DEFINE x == [by |-> t, kind |-> "dispatch", conv |-> res[t].conv,
                    isNew |-> res[t].isNew, status |-> state.status,
                    envs |-> envs, marks |-> {}]
  <2>2. wq' = Append(wq, x) /\ UNCHANGED <<rows, drained>>
    BY <2>1 DEF Sending, SubmitDispatch
  <2>3. x.envs = envs /\ x.marks = {}
    OBVIOUS
  <2>. HIDE DEF x
  <2>4. /\ ~Past(t) /\ Letters' = Letters \cup envs
        /\ \A e \in envs : e.cmd = t /\ e \in Envelope
    BY <2>1, SendingIsPast
  <2>5. \A e \in envs : e \notin Letters
    BY <2>4 DEF PostOK, LettersOK
  <2>6. Boxes' = Boxes \cup envs
    BY <2>1, <2>4, DeliverFillsBoxes DEF Sending
  <2>7. \A e \in Stored \cup envs : Key(e) \notin Marked => e \in Boxes'
    BY <2>6 DEF UnreadOK, NoStrays
  <2>. QED
    BY <1>3, <2>2, <2>3, <2>4, <2>5, <2>7
<1>5. ASSUME NEW t, NEW got, Marking(t, got), Boxes' = Boxes \ got,
             hist'.sent = hist.sent
      PROVE  (NoStrays /\ LateMarks /\ UnreadFits)'
  <2>1. Letters' = Letters /\ \A e \in Stored : ~IsNotice(e)
    BY <1>5 DEF Letters, IsNotice, Stored, PostOK, StoredOK
  <2>2. CASE got = {}
    BY <1>2, <1>1, <1>5, <2>2 DEF Marking
  <2>3. CASE got # {}
    <3>. DEFINE x == Marks(t, got)
    <3>1. wq' = Append(wq, x) /\ UNCHANGED <<rows, drained>>
      BY <1>5, <2>3 DEF Marking
    <3>2. x.envs = {} /\ x.marks = MarksOf(got)
      BY DEF Marks
    <3>. HIDE DEF x
    <3>3. \A e \in Stored : Key(e) \notin Marked \cup MarksOf(got) => e \in Boxes'
      BY <1>5, <2>1 DEF UnreadOK, NoStrays, MarksOf
    <3>. QED
      BY <1>3, <2>1, <3>1, <3>2, <3>3
  <2>. QED
    BY <2>2, <2>3
<1>6. ASSUME NEW t \in Call, FlushLocked(t) PROVE (NoStrays /\ LateMarks /\ UnreadFits)'
  <2>1. PICK got : Taking(t, got) /\ Marking(t, got)
    BY <1>0, <1>6, FlushTakes
  <2>2. Boxes' = Boxes \ got /\ hist'.sent = hist.sent
    BY <2>1, TakenLeaves DEF PostOK, Taking, HistoryIs
  <2>. QED
    BY <1>5, <2>1, <2>2
<1>7. ASSUME NEW t \in Call, CancelLocked(t) PROVE (NoStrays /\ LateMarks /\ UnreadFits)'
  <2>1. PICK back : Recalling(t, back) /\ Marking(t, back)
    BY <1>0, <1>7, CancelRecalls
  <2>2. Boxes' = Boxes \ back
    BY <2>1, RecalledLeaves
  <2>3. hist'.sent = hist.sent
    BY <2>1 DEF Recalling, HistoryIs
  <2>. QED
    BY <1>5, <2>1, <2>2, <2>3
<1>8. ASSUME NEW t \in Call, OperatorCloseLocked(t)
      PROVE  (NoStrays /\ LateMarks /\ UnreadFits)'
  <2>1. PICK x : /\ wq' = Append(wq, x) /\ x.envs = {} /\ x.marks = {}
                 /\ UNCHANGED <<queues, rows, drained, hist>>
    BY <1>8 DEF OperatorCloseLocked, LeaveToWrite, mail
  <2>2. Letters' = Letters /\ Boxes' = Boxes
    BY <2>1 DEF Letters, IsNotice, Boxes
  <2>. QED
    BY <1>3, <2>1, <2>2 DEF UnreadOK, NoStrays
<1>9. ASSUME NEW envs, Deliver(envs), UNCHANGED disk
      PROVE  (NoStrays /\ LateMarks /\ UnreadFits)'
  <2>1. Boxes \subseteq Boxes'
    BY <1>9 DEF Deliver, Boxes
  <2>. QED
    BY <1>1, <1>9, <2>1 DEF disk
<1>10. ASSUME NEW t \in Call, NotifyLocked(t) PROVE (NoStrays /\ LateMarks /\ UnreadFits)'
  BY <1>9, <1>10 DEF NotifyLocked
<1>11. CASE ExpireDeadlines
  <2>1. PICK late : Expiring(late)
    BY <1>0, <1>11, SweepExpires
  <2>2. Deliver({TimeoutNotice(x) : x \in late}) /\ UNCHANGED disk
    BY <1>11, <2>1 DEF Expiring, ExpireDeadlines
  <2>. QED
    BY <1>9, <2>2
<1>12. CASE Commit
  BY <1>12, UnreadCommits DEF UnreadOK
<1>13. CASE CloseTTL
  BY <1>1, <1>13 DEF CloseTTL, mail, Boxes
<1>14. CASE MessageGC
  BY <1>1, <1>14 DEF MessageGC, mail, Boxes
<1>15. CASE Restart
  BY <1>15, UnreadRestarts DEF UnreadOK
<1>. QED
  BY <1>2, <1>4, <1>6, <1>7, <1>8, <1>10, <1>11, <1>12, <1>13, <1>14, <1>15, DiskKinds

\* The inboxes stay within their limit, if a restart restores nothing, ...
LEMMA BoundedUnrestored ==
  ASSUME "restart" \notin Daemons \/ TRUE \notin RestoreModes
  PROVE  Spec => []Bounded
<1>1. IInv /\ PostOK /\ Bounded /\ [Next]_vars => Bounded'
  BY BoundedStays, NothingRestored DEF PostOK
<1>. QED
  BY <1>1, BoundedFirst, InvariantHolds, PostHolds, PTL DEF Spec

\* ... or restores what was there and no mark of it was lost.
LEMMA BoundedRestored ==
  ASSUME "write_error" \notin Daemons
  PROVE  Spec => [](Bounded /\ UnreadOK)
<1>1. Init => UnreadOK
  <2>. SUFFICES ASSUME Init PROVE UnreadOK
    OBVIOUS
  <2>1. rows = {} /\ wq = <<>> /\ Letters = {} /\ drained = {}
    BY DEF Init, NoHist, Letters
  <2>2. \A n \in 0..Len(wq) : Unread(n) = {}
    BY <2>1 DEF Unread, StoredBy
  <2>3. UnreadFits
    <3>1. ASSUME NEW n \in 0..Len(wq), NEW i \in Ids
          PROVE  {e \in Unread(n) : e.target = i} = {}
      BY <2>2
    <3>. QED
      BY <3>1, NoneFits DEF UnreadFits
  <2>. QED
    BY <2>1, <2>3 DEF UnreadOK, MarkedOK, Marked, Unmarked, NoStrays, Stored, LateMarks
<1>2. IInv /\ IInv' /\ PostOK /\ PostOK' /\ Bounded /\ UnreadOK /\ [Next]_vars
        => Bounded' /\ UnreadOK'
  <2>. SUFFICES ASSUME IInv, IInv', PostOK, PostOK', Bounded, UnreadOK, [Next]_vars
                PROVE  Bounded' /\ UnreadOK'
    OBVIOUS
  <2>1. Bounded'
    BY BoundedStays, UnreadRestarts DEF PostOK, UnreadOK
  <2>. QED
    BY <2>1, UnreadOKStays
<1>. QED
  BY <1>1, <1>2, BoundedFirst, InvariantHolds, PostHolds, PTL DEF Spec

\* But for the copies of one command, of which an instance gets as many as cc names
\* it, fewer letters than --max-inbox-depth are in an inbox, however sends, flushes
\* and cancels interleave and whenever the process dies: a restart with --restore,
\* which does not look at the limit, finds no more than was there.  (Once a write
\* error has lost the marks of a flush it does find more.)
THEOREM InboxesAreBounded ==
  ASSUME \/ "restart" \notin Daemons
         \/ TRUE \notin RestoreModes
         \/ "write_error" \notin Daemons
  PROVE  Spec => []CapacityRespected
<1>1. Bounded => CapacityRespected
  BY DEF Bounded, CapacityRespected, LettersIn
<1>2. CASE "write_error" \notin Daemons
  <2>1. Spec => [](Bounded /\ UnreadOK)
    BY <1>2, BoundedRestored
  <2>. QED
    BY <1>1, <2>1, PTL
<1>3. CASE "restart" \notin Daemons \/ TRUE \notin RestoreModes
  <2>1. Spec => []Bounded
    BY <1>3, BoundedUnrestored
  <2>. QED
    BY <1>1, <2>1, PTL
<1>. QED
  BY <1>2, <1>3

-------------------------------------------------------------------------------
(***************************************************************************)
(* MailSurvives and DiskAgrees: with no failed write, the unmarked rows    *)
(* are mail.  LettersFare: how the call of a letter stands.  It was not    *)
(* turned down; if the letter is a row, its transaction was carried out;   *)
(* and a letter that is still in an inbox after the process died with its  *)
(* call came back from its row.                                            *)
(***************************************************************************)
LettersFare ==
  /\ \A e \in Letters : pc[e.cmd] # "refused"
  /\ \A e \in rows : pc[e.cmd] \in {"written", "done", "dead"}
  /\ \A e \in Letters : e \in Boxes /\ pc[e.cmd] = "dead" => e \in rows

\* What comes into an inbox is new, or comes back with a restart.
LEMMA OnlyNewCome ==
  ASSUME IInv, PostOK, OnceOnly, [Next]_vars, ~Restart, NEW e \in Boxes', e \in hist.sent
  PROVE  e \in Boxes
<1>. SUFFICES ASSUME e \notin Boxes PROVE FALSE
  OBVIOUS
<1>3. ASSUME Boxes' \subseteq Boxes \cup (hist'.sent \ hist.sent) PROVE FALSE
  BY <1>3
<1>4. ASSUME NEW t \in Call, SendStep(t) \/ NotifyLocked(t) PROVE FALSE
  <2>1. Mailbox!Post
    BY <1>4, SendingPosts, NotifyingPosts
  <2>. QED
    BY <1>3, <2>1 DEF Mailbox!Post, Mailbox!New, Boxes
<1>5. ASSUME NEW t \in Call, FlushLocked(t) PROVE FALSE
  <2>1. PICK got : Taking(t, got)
    BY <1>5, FlushTakes DEF PostOK
  <2>2. Boxes' = Boxes \ got
    BY <2>1, TakenLeaves DEF PostOK
  <2>. QED
    BY <2>2
<1>6. ASSUME NEW t \in Call, CancelLocked(t) PROVE FALSE
  <2>1. PICK back : Recalling(t, back)
    BY <1>6, CancelRecalls DEF PostOK
  <2>2. Boxes' = Boxes \ back
    BY <2>1, RecalledLeaves
  <2>. QED
    BY <2>2
<1>7. ~ExpireDeadlines
  <2>1. ASSUME ExpireDeadlines PROVE Mailbox!Expire
    BY <2>1, SweepingExpires
  <2>. QED
    BY <1>3, <2>1 DEF Mailbox!Expire, Mailbox!New, Boxes
<1>8. ~Uneventful
  BY DEF Uneventful, Boxes
<1>. QED
  BY <1>4, <1>5, <1>6, <1>7, <1>8, StepKinds

\* What comes into an inbox is new, or was waiting to be marked.
LEMMA BringsBackUnread ==
  ASSUME IInv, PostOK, PostOK', OnceOnly, NoStrays, [Next]_vars
  PROVE  NothingComesTwice
<1>. SUFFICES ASSUME NEW i \in Ids, NEW e \in queues'[i], e \notin queues[i],
                     e \in hist.sent
              PROVE  BeingMarked(e)
  BY DEF NothingComesTwice
<1>1. e \in Boxes' /\ e \notin Boxes
  <2>1. e.target = i
    BY DEF PostOK, InboxesOK
  <2>. QED
    BY <2>1 DEF PostOK, InboxesOK, Boxes
<1>2. Restart
  BY <1>1, OnlyNewCome
<1>3. e \in Undrained
  BY <1>1, <1>2, RestartPutsBack
<1>4. e \in rows /\ Key(e) \notin drained
  BY <1>3 DEF Undrained
<1>5. Key(e) \in Marked
  BY <1>1, <1>4 DEF NoStrays, Stored
<1>. QED
  BY <1>4, <1>5 DEF Marked, BeingMarked

\* With no failed write, moreover, no message that a flush has handed out, or a
\* cancel has taken back, comes again once that call has returned.
THEOREM MailIsSafe ==
  ASSUME "write_error" \notin Daemons, "gc" \notin Daemons
  PROVE  Spec => MailSurvives
<1>1. Init => OnceOnly
  BY DEF Init, NoHist, OnceOnly
<1>2. IInv /\ PostOK /\ PostOK' /\ OnceOnly /\ UnreadOK /\ Durable /\ Unmarked
      /\ [Next]_vars => [NothingIsLost /\ NothingComesTwice]_vars
  BY LosesNothing, BringsBackUnread DEF UnreadOK
<1>. QED
  BY <1>1, <1>2, OnceOnlyStays, MailHolds, BoundedRestored, InvariantHolds, PostHolds,
     PTL DEF Spec, MailSurvives

\* LettersFare is kept.
LEMMA FareStays ==
  ASSUME IInv, OrderInv, PostOK, PostOK', OnceOnly, WritersOK, LettersFare, [Next]_vars,
         ~MessageGC
  PROVE  LettersFare'
<1>0. HistType /\ rows \subseteq rows' /\ rows \subseteq Letters
  BY RowsStay DEF PostOK, StoredOK
<1>1. ASSUME NEW e \in Letters
      PROVE  /\ pc'[e.cmd] # "refused"
             /\ pc[e.cmd] \in {"written", "done", "dead"}
                  => pc'[e.cmd] \in {"written", "done", "dead"}
             /\ pc'[e.cmd] = "dead" => Restart \/ pc[e.cmd] = "dead"
  <2>1. e.cmd \in Call /\ Past(e.cmd) /\ pc[e.cmd] # "refused"
    BY DEF PostOK, LettersOK, Letters, HistType, Envelope, LettersFare
  <2>2. PastMove(e.cmd)
    BY <2>1, PastMoves
  <2>3. CASE pc[e.cmd] = "write" /\ (Commit \/ WriteError) /\ Head(wq).by = e.cmd
    <3>1. wq # <<>> /\ Head(wq).kind = "dispatch"
      <4>1. wq # <<>> /\ 1 \in DOMAIN wq /\ Head(wq) = wq[1]
        BY <2>3, WorkerTakes, FirstWrite
      <4>2. pc[Head(wq).by] = AwaitedIn(Head(wq))
        BY <4>1 DEF OrderInv, WritesAwaited
      <4>. QED
        BY <2>3, <4>1, <4>2 DEF AwaitedIn
    <3>. QED
      BY <2>3, <3>1, WorkerTakes
  <2>. QED
    BY <2>1, <2>2, <2>3 DEF PastMove
<1>2. ASSUME NEW t \in Call, NEW envs, NEW state, NEW asked,
             Sending(t, envs, state, asked), NEW e \in envs
      PROVE  pc'[e.cmd] = "write"
  BY <1>2, SendingIsPast
<1>3. ASSUME NEW e \in Letters' PROVE e \in Letters \/ pc'[e.cmd] = "write"
  <2>1. CASE Letters' = Letters
    BY <2>1
  <2>2. ASSUME NEW t \in Call, NEW envs, NEW state, NEW asked,
               Sending(t, envs, state, asked), Letters' = Letters \cup envs
        PROVE  e \in Letters \/ pc'[e.cmd] = "write"
    BY <1>2, <2>2
  <2>. QED
    BY <1>0, <2>1, <2>2, LettersGrow
<1>4. ASSUME NEW e \in rows' PROVE pc'[e.cmd] \in {"written", "done", "dead"}
  <2>1. CASE e \in rows
    BY <1>0, <1>1, <2>1 DEF LettersFare
  <2>2. CASE e \notin rows
    <3>1. Commit /\ wq # <<>> /\ e \in Head(wq).envs
      BY <2>2, RowsCome
    <3>2. Applied(Head(wq))
      BY <2>2, <3>1 DEF Commit
    <3>3. Head(wq).kind = "dispatch" /\ e.cmd = Head(wq).by /\ Head(wq).by \in Call
      BY <3>1, FirstWrite DEF WritersOK, Proper
    <3>4. pc' = [pc EXCEPT ![Head(wq).by] = "written"]
      <4>. HIDE DEF Applied
      <4>. QED
        BY <3>1, <3>2, <3>3 DEF Commit, Answer
    <3>. QED
      BY <3>3, <3>4 DEF IInv, TypeOK
  <2>. QED
    BY <2>1, <2>2
<1>5. ASSUME NEW e \in Letters', e \in Boxes', pc'[e.cmd] = "dead" PROVE e \in rows'
  <2>1. e \in Letters /\ e \in hist.sent
    BY <1>3, <1>5 DEF Letters
  <2>2. CASE Restart
    <3>1. e \in Undrained
      BY <1>5, <2>2, RestartPutsBack
    <3>. QED
      BY <1>0, <3>1 DEF Undrained
  <2>3. CASE ~Restart
    <3>1. e \in Boxes /\ pc[e.cmd] = "dead"
      BY <1>1, <1>5, <2>1, <2>3, OnlyNewCome
    <3>. QED
      BY <1>0, <2>1, <3>1 DEF LettersFare
  <2>. QED
    BY <2>2, <2>3
<1>. QED
  BY <1>1, <1>3, <1>4, <1>5 DEF LettersFare

\* With no failed write and no garbage collection, whenever the write queue is
\* empty the undrained rows on disk are the letters in the inboxes, which is what
\* a restart restores, but for those of calls whose transaction was refused: its cc
\* names somebody twice, or its conversation began with such a message.
THEOREM DiskHoldsTheMail ==
  ASSUME "write_error" \notin Daemons, "gc" \notin Daemons
  PROVE  Spec => []DiskAgrees
<1>1. Init => OnceOnly /\ LettersFare
  BY DEF Init, NoHist, OnceOnly, LettersFare, Letters
<1>2. IInv /\ OrderInv /\ PostOK /\ PostOK' /\ OnceOnly /\ WritersOK /\ LettersFare
      /\ [Next]_vars => LettersFare'
  BY FareStays DEF MessageGC
<1>3. ASSUME PostOK, UnreadOK, Durable, LettersFare PROVE DiskAgrees
  <2>. SUFFICES ASSUME wq = <<>>, NEW e
                PROVE  e \in Undrained <=>
                         e \in Boxes /\ ~IsNotice(e) /\ ~Unwritten(e.cmd)
    BY DEF DiskAgrees, Boxes
  <2>1. Stored = rows /\ Marked = drained /\ DOMAIN wq = {}
    BY DEF Stored, Marked
  <2>2. rows \subseteq Letters /\ \A f \in Letters : ~IsNotice(f)
    BY <1>3 DEF PostOK, StoredOK, Letters
  <2>3. ASSUME e \in Undrained PROVE e \in Boxes /\ ~IsNotice(e) /\ ~Unwritten(e.cmd)
    <3>1. e \in rows /\ Key(e) \notin drained
      BY <2>3 DEF Undrained
    <3>2. pc[e.cmd] \in {"written", "done", "dead"}
      BY <1>3, <3>1 DEF LettersFare
    <3>. QED
      BY <1>3, <2>1, <2>2, <3>1, <3>2 DEF UnreadOK, NoStrays, Unwritten
  <2>4. ASSUME e \in Boxes, ~IsNotice(e), ~Unwritten(e.cmd) PROVE e \in Undrained
    <3>1. e \in Letters
      BY <1>3, <2>4 DEF PostOK, InboxesOK, Boxes, Letters
    <3>2. pc[e.cmd] \in {"write", "written", "done", "dead"}
      BY <1>3, <2>4, <3>1 DEF PostOK, LettersOK, Past, PastStages, Finished, Unwritten,
         LettersFare
    <3>3. e \in rows
      BY <1>3, <2>1, <2>4, <3>1, <3>2 DEF Durable, LettersFare
    <3>4. Key(e) \notin drained
      BY <1>3, <2>1, <2>4, <3>1 DEF UnreadOK, Unmarked
    <3>. QED
      BY <3>3, <3>4 DEF Undrained
  <2>. QED
    BY <2>3, <2>4
<1>. QED
  BY <1>1, <1>2, <1>3, OnceOnlyStays, MailHolds, BoundedRestored, WritersHold,
     InvariantHolds, OrderHolds, PostHolds, PTL DEF Spec

-------------------------------------------------------------------------------
(***************************************************************************)
(* AnsweredIsSettled: an answer names a command that is past its sending   *)
(* by the time the answer takes its turn, so no question is asked after    *)
(* its answer, and the answer settles what is open under the lock.         *)
(***************************************************************************)
RepliesTo(u, v) == req[u].op = "dispatch" /\ req[u].irt = v
Answering(u) == pc[u] = "lock" \/ convOf[u] # None

ExpectedKnown == \A x \in inFlight : convOf[x.cmd] # None
InboundPast ==
  \A i \in Ids : \/ lastInbound[i] = None
                 \/ lastInbound[i].source = System
                 \/ Past(lastInbound[i].cmd)
RepliesLate == \A u, v \in Call : Answering(u) /\ RepliesTo(u, v) => Past(v)

AnswersOK == ExpectedKnown /\ InboundPast /\ RepliesLate /\ AnsweredIsSettled

\* The last message drained is a notice or of a call that is past its sending.
LEMMA InboundStays == IInv /\ PostOK /\ InboundPast /\ [Next]_vars => InboundPast'
<1>. SUFFICES ASSUME IInv, PostOK, InboundPast, [Next]_vars, NEW i \in Ids,
                     lastInbound'[i] # None, lastInbound'[i].source # System
              PROVE  pc'[lastInbound'[i].cmd] \in PastStages
  BY DEF InboundPast, Past
<1>0. ASSUME NEW u \in Call, Past(u) PROVE pc'[u] \in PastStages
  BY <1>0, PastStays DEF Past
<1>1. CASE lastInbound'[i] = lastInbound[i]
  <2>1. lastInbound[i].cmd \in Call /\ Past(lastInbound[i].cmd)
    BY <1>1 DEF InboundPast, IInv, TypeOK, Inbound
  <2>. QED
    BY <1>0, <1>1, <2>1
<1>2. ASSUME NEW t \in Call, FlushLocked(t), lastInbound'[i] # lastInbound[i]
      PROVE  pc'[lastInbound'[i].cmd] \in PastStages
  <2>1. PICK e \in queues[req[t].src] :
          lastInbound' = [lastInbound EXCEPT ![req[t].src] = AsInbound(e)]
    BY <1>2 DEF FlushLocked, Newest
  <2>2. i = req[t].src /\ lastInbound'[i] = AsInbound(e)
    BY <1>2, <2>1 DEF IInv, TypeOK
  <2>3. e \in Letters
    BY <2>2 DEF AsInbound, PostOK, InboxesOK, Letters, IsNotice
  <2>4. e.cmd \in Call /\ Past(e.cmd)
    BY <2>3 DEF PostOK, LettersOK, HistType, Letters, Envelope
  <2>. QED
    BY <1>0, <2>2, <2>4 DEF AsInbound
<1>3. CASE Restart
  BY <1>3 DEF Restart
<1>4. ASSUME NEW t \in Call, Step(t), ~FlushLocked(t) PROVE UNCHANGED lastInbound
  BY <1>4 DEF Step, DispatchLocked, DispatchTurnedDown, BroadcastLocked, EmitLocked,
     TurnedDown, Resume, WaitLocked, Woken, TimedOutLocked, Report, NotifyLocked,
     CancelLocked, ShutdownLocked, NextClosing, AllClosingsSent, CloseThreadLocked,
     OperatorCloseLocked, mail
<1>5. CASE Enter
  BY <1>1, <1>5 DEF Enter, EnterWith, EnterDispatch, EnterReply, EnterBroadcast,
     EnterEmit, EnterMailbox, EnterCancel, EnterCloseThread, EnterOperatorClose,
     EnterShutdown, mail
<1>. QED
  BY <1>1, <1>2, <1>3, <1>4, <1>5 DEF Next, TimeOut, Commit, WriteError,
     ExpireDeadlines, CloseTTL, MessageGC, Rest, vars, mail

\* A caller can name only commands that are past their sending.
LEMMA NamedIsPast ==
  ASSUME PostOK, NEW r, Nameable(r), r.irt \in Call
  PROVE  Past(r.irt)
<1>1. r.irt # None
  BY DispatcherAssumption DEF ConvId
<1>2. CASE RowsOf(r.irt) # {}
  BY <1>2 DEF RowsOf, PostOK, StoredOK, LettersOK
<1>. QED
  BY <1>1, <1>2 DEF Nameable, Past, PastStages

\* So a dispatch that goes for the lock is in reply to such a command: one its
\* caller names, or for reply the one its caller drained last.
LEMMA EntersLate ==
  ASSUME IInv, PostOK, InboundPast, NEW t \in Call, pc[t] = "idle",
         NEW r \in RequestType, WellFormed(r), Nameable(r), EnterWith(t, r),
         pc'[t] = "lock", NEW v \in Call, RepliesTo(t, v)'
  PROVE  Past(v)
<1>1. ASSUME NEW q, EndAtOnce(t, q, "refused") PROVE FALSE
  BY <1>1 DEF EndAtOnce, IInv, TypeOK
<1>2. \A q, local : GoForLock(t, q, local) => req'[t] = q
  BY DEF GoForLock, IInv, TypeOK
<1>3. CASE EnterDispatch(t, r)
  BY <1>1, <1>2, <1>3, NamedIsPast DEF EnterDispatch, RepliesTo
<1>4. CASE EnterReply(t, r)
  <2>. DEFINE d == ReplyAsDispatch(r)
  <2>1. GoForLock(t, d, Start(t, d, 0)) /\ ~DispatchRefused(d)
        /\ r.op = "reply" /\ lastInbound[r.src] # None
    BY <1>1, <1>4 DEF EnterReply
  <2>2. d.tgt = lastInbound[r.src].source /\ d.irt = lastInbound[r.src].cmd
    BY DEF ReplyAsDispatch, RequestType
  <2>. HIDE DEF d
  <2>3. r.src \in Ids /\ lastInbound[r.src] \in Inbound /\ v = d.irt
    BY <1>2, <2>1 DEF WellFormed, RepliesTo, IInv, TypeOK
  <2>4. d.tgt # System
    BY <2>1, <2>2, <2>3, DispatcherAssumption DEF DispatchRefused, Inbound
  <2>. QED
    BY <2>1, <2>2, <2>3, <2>4 DEF InboundPast
<1>5. CASE \/ EnterBroadcast(t, r) \/ EnterEmit(t, r) \/ EnterMailbox(t, r)
           \/ EnterCancel(t, r) \/ EnterOperatorClose(t, r) \/ EnterShutdown(t, r)
  <2>1. \E q, local : GoForLock(t, q, local) /\ q.op # "dispatch"
    <3>1. CASE EnterEmit(t, r)
      <4>. DEFINE d == [r EXCEPT !.tgt = EmitTarget(r),
                                 !.subs = IF r.tgt = None /\ r.irt = None
                                            THEN r.subs ELSE {}]
      <4>1. GoForLock(t, d, Start(t, r, 0)) /\ r.op = "emit"
        BY <1>1, <3>1 DEF EnterEmit
      <4>2. d.op = r.op
        BY DEF RequestType
      <4>. HIDE DEF d
      <4>. QED
        BY <4>1, <4>2
    <3>. QED
      BY <1>1, <1>5, <3>1 DEF EnterBroadcast, EnterMailbox, EnterCancel,
         EnterOperatorClose, EnterShutdown
  <2>. QED
    BY <1>2, <2>1 DEF RepliesTo
<1>6. CASE EnterCloseThread(t, r)
  BY <1>1, <1>6 DEF EnterCloseThread, IInv, TypeOK
<1>. QED
  BY <1>3, <1>4, <1>5, <1>6 DEF EnterWith

\* Whoever starts in this step replies to a command past its sending, if to any.
LEMMA NewcomersReplyLate ==
  ASSUME IInv, PostOK, InboundPast, [Next]_vars, NEW u \in Call, pc[u] = "idle",
         pc'[u] = "lock", NEW v \in Call, RepliesTo(u, v)'
  PROVE  Past(v)
<1>1. CASE Enter
  <2>1. PICK t \in Call, r \in Requests :
          MayEnter(t) /\ Nameable(r) /\ EnterWith(t, r)
    BY <1>1 DEF Enter
  <2>2. \A w \in Call \ {t} : pc'[w] = pc[w]
    BY <2>1 DEF EnterWith, EnterDispatch, EnterReply, EnterBroadcast,
       EnterEmit, EnterMailbox, EnterCancel, EnterCloseThread, EnterOperatorClose,
       EnterShutdown, EndAtOnce, GoForLock, IInv, TypeOK
  <2>3. u = t
    BY <2>2
  <2>. QED
    BY <2>1, <2>3, RequestsOK, EntersLate
<1>2. ASSUME NEW t \in Call, NextClosing(t) PROVE FALSE
  <2>1. PICK to \in res[t].todo, w \in Call :
          /\ req' = [req EXCEPT ![w] = ClosingMessage(t, to)] /\ pc[t] = "loop"
          /\ \/ pc' = [pc EXCEPT ![w] = "refused", ![t] = "failed"]
             \/ pc' = [pc EXCEPT ![w] = "refused"]
             \/ pc' = [pc EXCEPT ![w] = "lock"]
    BY <1>2 DEF NextClosing
  <2>2. req'[u] = ClosingMessage(t, to)
    BY <2>1 DEF IInv, TypeOK
  <2>. QED
    BY <2>2, DispatcherAssumption DEF ClosingMessage, RepliesTo, ConvId
<1>. QED
  BY <1>1, <1>2, NewcomersEnter

\* A command becomes known when it is sent, and stays known.
LEMMA KnownMoves ==
  ASSUME IInv, HistType, [Next]_vars, "gc" \notin Daemons, "restart" \notin Daemons,
         NEW u \in Call
  PROVE  convOf'[u] = convOf[u] \/ (SendStep(u) /\ convOf'[u] # None)
<1>1. ASSUME NEW t \in Call, SendStep(t)
      PROVE  convOf'[u] = convOf[u] \/ (SendStep(u) /\ convOf'[u] # None)
  <2>1. PICK envs, state, asked : Sending(t, envs, state, asked)
    BY <1>1, SendersSend
  <2>2. convOf' = [convOf EXCEPT ![t] = res[t].conv]
    BY <2>1 DEF Sending, Record
  <2>3. res[t].conv # None
    BY <2>1, DispatcherAssumption
    DEF Sending, SenderOps, InvolvesConv, IInv, CallsOK, CallOK, Started
  <2>. QED
    BY <1>1, <2>2, <2>3 DEF IInv, TypeOK
<1>2. ASSUME NEW t \in Call, Step(t), ~SendStep(t) PROVE UNCHANGED convOf
  BY <1>2 DEF Step, SendStep, DispatchTurnedDown, TurnedDown, Resume, FlushLocked,
     WaitLocked, Woken, TimedOutLocked, Report, NotifyLocked, CancelLocked,
     ShutdownLocked, NextClosing, AllClosingsSent, CloseThreadLocked,
     OperatorCloseLocked, convs
<1>3. CASE Enter
  BY <1>3 DEF Enter, EnterWith, EnterDispatch, EnterReply, EnterBroadcast, EnterEmit,
     EnterMailbox, EnterCancel, EnterCloseThread, EnterOperatorClose, EnterShutdown,
     convs
<1>. QED
  BY <1>1, <1>2, <1>3 DEF Next, TimeOut, Commit, WriteError, ExpireDeadlines,
     CloseTTL, MessageGC, Restart, Rest, vars, convs

\* What this process may be asked to settle it knows, and answers come late.
LEMMA RepliesStayLate ==
  IInv /\ OrderInv /\ PostOK /\ InboundPast /\ RepliesLate /\ [Next]_vars
  /\ "gc" \notin Daemons /\ "restart" \notin Daemons => RepliesLate'
<1>. SUFFICES ASSUME IInv, OrderInv, PostOK, InboundPast, RepliesLate, [Next]_vars,
                     "gc" \notin Daemons, "restart" \notin Daemons,
                     NEW u \in Call, NEW v \in Call, Answering(u)', RepliesTo(u, v)'
              PROVE  Past(v)
  BY PastStays DEF RepliesLate
<1>1. CASE pc'[u] = "lock" /\ pc[u] = "idle"
  BY <1>1, NewcomersReplyLate
<1>2. CASE pc'[u] = "lock" /\ pc[u] # "idle"
  <2>1. KeepsKnowledge(u)
    BY <1>2, StayersKeepKnowledge
  <2>2. pc[u] = "loop" => req[u].op = "close_thread"
    BY DEF IInv, CallsOK, CallOK, Started
  <2>. QED
    BY <1>2, <2>1, <2>2 DEF KeepsKnowledge, RepliesTo, Answering, RepliesLate
<1>3. CASE convOf'[u] # None
  <2>1. convOf[u] # None \/ SendStep(u)
    BY <1>3, KnownMoves DEF PostOK
  <2>2. Answering(u) /\ Started(u)
    BY <2>1 DEF Answering, SendStep, DispatchLocked, BroadcastLocked, EmitLocked,
       InLock, IInv, KnownOK, Started
  <2>. QED
    BY <2>2, GoesForth DEF Forth, RepliesTo, RepliesLate
<1>. QED
  BY <1>1, <1>2, <1>3 DEF Answering

\* A result that is expected after a step was expected before and is not settled
\* by it, or is asked for in it.
LEMMA ExpectedCome ==
  ASSUME IInv, HistType, [Next]_vars, "restart" \notin Daemons, NEW x \in inFlight'
  PROVE  \/ /\ x \in inFlight
            /\ \A u \in Call : SendStep(u) => x \notin Settled(u)
         \/ \E t \in Call : /\ SendStep(t) /\ x.cmd = t
                            /\ ~Past(t) /\ convOf'[t] # None
<1>1. ASSUME NEW t \in Call, SendStep(t)
      PROVE  \/ x \in inFlight /\ x \notin Settled(t)
             \/ SendStep(t) /\ x.cmd = t /\ ~Past(t) /\ convOf'[t] # None
  <2>1. PICK envs, state, asked : Sending(t, envs, state, asked)
    BY <1>1, SendersSend
  <2>2. \A y \in Ask(t, asked) : y.cmd = t
    BY DEF Ask
  <2>3. convOf'[t] = res[t].conv
    BY <2>1 DEF Sending, Record, IInv, TypeOK
  <2>4. res[t].conv # None
    BY <2>1, DispatcherAssumption
    DEF Sending, SenderOps, InvolvesConv, IInv, CallsOK, CallOK, Started
  <2>. QED
    BY <1>1, <2>1, <2>2, <2>3, <2>4, SendingIsPast DEF Sending
<1>2. ASSUME NEW t \in Call, NEW u \in Call, SendStep(t), SendStep(u) PROVE t = u
  <2>1. Head(lockQ) = t /\ Head(lockQ) = u
    BY <1>2 DEF SendStep, DispatchLocked, BroadcastLocked, EmitLocked, InLock, HasLock
  <2>. QED
    BY <2>1
<1>3. CASE \E t \in Call : SendStep(t)
  BY <1>1, <1>2, <1>3
<1>4. ASSUME \A t \in Call : ~SendStep(t) PROVE x \in inFlight
  <2>1. CASE Uneventful
    BY <2>1 DEF Uneventful
  <2>2. ASSUME NEW t \in Call, FlushLocked(t) \/ CancelLocked(t) \/ NotifyLocked(t)
        PROVE  x \in inFlight
    BY <2>2, FlushTakes, CancelRecalls, NotifyPosts DEF Taking, Recalling, Noticing
  <2>3. CASE ExpireDeadlines
    BY <2>3, SweepExpires DEF Expiring
  <2>. QED
    BY <1>4, <2>1, <2>2, <2>3, StepKinds DEF Restart
<1>. QED
  BY <1>3, <1>4

\* Every expected result is of a command this process knows.
LEMMA ExpectedStayKnown ==
  IInv /\ PostOK /\ ExpectedKnown /\ [Next]_vars
  /\ "gc" \notin Daemons /\ "restart" \notin Daemons => ExpectedKnown'
<1>. SUFFICES ASSUME IInv, PostOK, ExpectedKnown, [Next]_vars,
                     "gc" \notin Daemons, "restart" \notin Daemons, NEW x \in inFlight'
              PROVE  convOf'[x.cmd] # None
  BY DEF ExpectedKnown
<1>1. HistType
  BY DEF PostOK
<1>2. CASE x \in inFlight
  <2>1. x.cmd \in Call /\ convOf[x.cmd] # None
    BY <1>2 DEF ExpectedKnown, IInv, TypeOK, Edge
  <2>. QED
    BY <1>1, <2>1, KnownMoves
<1>. QED
  BY <1>1, <1>2, ExpectedCome

\* No expected result is of a worker that has answered.
LEMMA SettledStay ==
  IInv /\ PostOK /\ AnswersOK /\ [Next]_vars
  /\ "gc" \notin Daemons /\ "restart" \notin Daemons => AnsweredIsSettled'
<1>. SUFFICES ASSUME IInv, PostOK, AnswersOK, [Next]_vars,
                     "gc" \notin Daemons, "restart" \notin Daemons,
                     NEW x \in inFlight', NEW u \in Call, convOf'[u] # None,
                     RepliesTo(u, x.cmd)', req'[u].src = x.to
              PROVE  FALSE
  BY DEF AnsweredIsSettled, HasAnswered, RepliesTo
<1>1. convOf[u] # None \/ SendStep(u)
  BY KnownMoves DEF PostOK
<1>2. Answering(u) /\ Started(u)
  BY <1>1 DEF Answering, SendStep, DispatchLocked, BroadcastLocked, EmitLocked,
     InLock, IInv, KnownOK, Started
<1>3. RepliesTo(u, x.cmd) /\ req[u].src = x.to
  BY <1>2, GoesForth DEF Forth, RepliesTo
<1>4. x.cmd \in Call => Past(x.cmd)
  BY <1>2, <1>3 DEF AnswersOK, RepliesLate
<1>5. x \in inFlight /\ (SendStep(u) => x \notin Settled(u))
  BY <1>4, ExpectedCome DEF PostOK
<1>6. x.cmd \in Call /\ convOf[x.cmd] # None
  BY <1>5 DEF AnswersOK, ExpectedKnown, IInv, TypeOK, Edge
<1>7. x.cmd # None
  BY <1>6, DispatcherAssumption DEF ConvId
<1>8. CASE convOf[u] # None
  BY <1>3, <1>5, <1>8 DEF AnswersOK, AnsweredIsSettled, HasAnswered, RepliesTo
<1>9. CASE SendStep(u)
  BY <1>3, <1>5, <1>6, <1>7, <1>9 DEF Settled, Answers, RepliesTo
<1>. QED
  BY <1>1, <1>8, <1>9

\* As long as the process lives and forgets no command, a worker that has
\* answered is no longer waited for: nobody can answer a question that is not
\* out yet, and the answer settles the question under the lock.  (A restart with
\* --restore waits again for a worker that answered without draining the
\* question, whose row is still undrained.)
THEOREM AnsweredIsNotAwaited ==
  ASSUME "gc" \notin Daemons, "restart" \notin Daemons
  PROVE  Spec => []AnsweredIsSettled
<1>1. Init => AnswersOK
  BY DispatcherAssumption
  DEF Init, AnswersOK, ExpectedKnown, InboundPast, RepliesLate, AnsweredIsSettled,
      Answering
<1>2. IInv /\ OrderInv /\ PostOK /\ AnswersOK /\ [Next]_vars => AnswersOK'
  BY InboundStays, RepliesStayLate, ExpectedStayKnown, SettledStay DEF AnswersOK
<1>3. AnswersOK => AnsweredIsSettled
  BY DEF AnswersOK
<1>. QED
  BY <1>1, <1>2, <1>3, InvariantHolds, OrderHolds, PostHolds, PTL DEF Spec
-------------------------------------------------------------------------------
(***************************************************************************)
(* ReceiversTakePart.  Calls are numbered as they start, they start by     *)
(* asking for the lock, and the lock is FIFO: of two senders that wait for *)
(* it the one with the smaller number is in front, so that a letter is     *)
(* always of an earlier call than the sender that is still to come.  A     *)
(* state that a sender begins under the lock is then newer than every      *)
(* letter that is there.                                                   *)
(***************************************************************************)
\* close_thread asks after its messages, the others when they start
TakesTurn(t) == pc[t] = "lock" /\ req[t].op # "close_thread"
SenderAsks(t) == pc[t] = "lock" /\ req[t].op \in SenderOps

StartedInOrder == \A t, u \in Call : t < u /\ Started(u) => Started(t)
InTurn ==
  \A t, u \in Call : \A j, k \in DOMAIN lockQ :
    /\ j < k /\ lockQ[j] = t /\ lockQ[k] = u
    /\ TakesTurn(t) /\ TakesTurn(u)
    => t < u
SentInTurn == \A e \in Letters, t \in Call : SenderAsks(t) => e.cmd < t
TurnsOK == StartedInOrder /\ InTurn /\ SentInTurn

\* A call that starts in this step is the next one.
LEMMA StartsNext ==
  ASSUME IInv, [Next]_vars, NEW u \in Call, pc[u] = "idle", pc'[u] # "idle"
  PROVE  IsNextCall(u)
<1>1. CASE Enter
  <2>1. PICK t \in Call, r \in Requests : MayEnter(t) /\ EnterWith(t, r)
    BY <1>1 DEF Enter
  <2>2. \A v \in Call \ {t} : pc'[v] = pc[v]
    BY <2>1 DEF EnterWith, EnterDispatch, EnterReply, EnterBroadcast,
       EnterEmit, EnterMailbox, EnterCancel, EnterCloseThread, EnterOperatorClose,
       EnterShutdown, EndAtOnce, GoForLock, life, IInv, TypeOK
  <2>. QED
    BY <2>1, <2>2 DEF MayEnter
<1>2. ASSUME NEW t \in Call, NextClosing(t)
      PROVE  IsNextCall(u)
  <2>1. PICK v \in Call : /\ IsNextCall(v)
                          /\ \/ pc' = [pc EXCEPT ![v] = "refused", ![t] = "failed"]
                             \/ pc' = [pc EXCEPT ![v] = "refused"]
                             \/ pc' = [pc EXCEPT ![v] = "lock"]
    BY <1>2 DEF NextClosing
  <2>2. pc[t] = "loop"
    BY <1>2 DEF NextClosing
  <2>. QED
    BY <2>1, <2>2 DEF IInv, TypeOK
<1>. QED
  BY <1>1, <1>2, NewcomersEnter

\* Calls start in the order of their numbers.
LEMMA OrderOfStarts == IInv /\ [Next]_vars /\ StartedInOrder => StartedInOrder'
<1>. SUFFICES ASSUME IInv, [Next]_vars, StartedInOrder,
                     NEW t \in Call, NEW u \in Call, t < u, pc'[u] # "idle"
              PROVE  pc'[t] # "idle"
  BY DEF StartedInOrder, Started
<1>1. Forth(t)
  BY GoesForth
<1>2. CASE Started(u)
  BY <1>1, <1>2 DEF StartedInOrder, Forth
<1>3. CASE ~Started(u)
  <2>1. IsNextCall(u)
    BY <1>3, StartsNext DEF Started
  <2>2. ~(u <= t)
    BY MaxCallsAssumption DEF Call
  <2>. QED
    BY <1>1, <2>1, <2>2 DEF IsNextCall, Idle, Forth, Started
<1>. QED
  BY <1>2, <1>3

\* A call that starts is behind all that have.
LEMMA NewcomersAreLast ==
  ASSUME IInv, [Next]_vars, StartedInOrder, NEW u \in Call, pc[u] = "idle",
         pc'[u] # "idle", NEW t \in Call, t # u, pc'[t] # "idle"
  PROVE  Started(t) /\ t < u
<1>1. IsNextCall(u)
  BY StartsNext
<1>2. Started(t)
  <2>1. ASSUME pc[t] = "idle" PROVE FALSE
    <3>1. IsNextCall(t)
      BY <2>1, StartsNext
    <3>2. t <= u /\ u <= t
      BY <1>1, <2>1, <3>1 DEF IsNextCall, Idle
    <3>. QED
      BY <3>2, MaxCallsAssumption DEF Call
  <2>. QED
    BY <2>1 DEF Started
<1>3. ~(u < t)
  BY <1>2 DEF StartedInOrder, Started
<1>. QED
  BY <1>2, <1>3, MaxCallsAssumption DEF Call

\* The line after a step: it moves up, is lost with the process, or somebody
\* joins it who starts now or takes no turn.
LineIs(q) == \/ lockQ' = q
             \/ \E x \in Call : /\ lockQ' = Append(q, x)
                                /\ pc[x] = "idle" \/ ~TakesTurn(x)'

\* So it is for the steps of one call.
LEMMA StepMovesLine ==
  ASSUME IInv, NEW t \in Call, Step(t)
  PROVE  LineIs(lockQ) \/ (lockQ # <<>> /\ LineIs(Tail(lockQ)))
<1>1. CASE SendStep(t)
  BY <1>1 DEF SendStep, DispatchLocked, BroadcastLocked, EmitLocked, SubmitDispatch, LineIs
<1>2. CASE DispatchTurnedDown(t) \/ Resume(t)
  BY <1>2 DEF DispatchTurnedDown, Resume, LeaveDispatch, InLock, HasLock, LineIs
<1>3. CASE TurnedDown(t) \/ FlushLocked(t) \/ NotifyLocked(t) \/ CancelLocked(t)
           \/ Report(t) \/ CloseThreadLocked(t) \/ OperatorCloseLocked(t) \/ ShutdownLocked(t)
  <2>1. lockQ # <<>> /\ lockQ' = Tail(lockQ)
    BY <1>3 DEF TurnedDown, FlushLocked, NotifyLocked, CancelLocked, Report,
       CloseThreadLocked, OperatorCloseLocked, ShutdownLocked, Leave, LeaveToWrite,
       InLock, HasLock
  <2>. QED
    BY <2>1 DEF LineIs
<1>4. CASE WaitLocked(t) \/ TimedOutLocked(t)
  <2>1. lockQ # <<>>
    BY <1>4 DEF WaitLocked, TimedOutLocked, InLock, HasLock
  <2>2. \/ lockQ' = Tail(lockQ)
        \/ lockQ' = Append(Tail(lockQ), t) /\ pc' = [pc EXCEPT ![t] = "report"]
    BY <1>4 DEF WaitLocked, TimedOutLocked, Leave, Reacquire
  <2>. QED
    BY <2>1, <2>2 DEF LineIs, TakesTurn, IInv, TypeOK
<1>5. CASE Woken(t) \/ AllClosingsSent(t)
  <2>1. /\ lockQ' = Append(lockQ, t)
        /\ \/ pc' = [pc EXCEPT ![t] = "report"]
           \/ pc[t] = "loop" /\ req' = req
    BY <1>5 DEF Woken, AllClosingsSent, Acquire
  <2>2. pc[t] = "loop" => req[t].op = "close_thread"
    BY DEF IInv, CallsOK, CallOK, Started
  <2>. QED
    BY <2>1, <2>2 DEF LineIs, TakesTurn, IInv, TypeOK
<1>6. CASE NextClosing(t)
  <2>1. PICK u \in Call : IsNextCall(u) /\ (lockQ' = lockQ \/ lockQ' = Append(lockQ, u))
    BY <1>6 DEF NextClosing, Acquire
  <2>. QED
    BY <2>1 DEF LineIs, IsNextCall, Idle
<1>. QED
  BY <1>1, <1>2, <1>3, <1>4, <1>5, <1>6 DEF Step, SendStep

\* ... and for every step of the broker.
LEMMA LineMoves ==
  ASSUME IInv, [Next]_vars
  PROVE  LineIs(lockQ) \/ (lockQ # <<>> /\ LineIs(Tail(lockQ))) \/ lockQ' = <<>>
<1>1. CASE Enter
  <2>1. PICK t \in Call, r \in Requests : MayEnter(t) /\ EnterWith(t, r)
    BY <1>1 DEF Enter
  <2>2. lockQ' = lockQ \/ lockQ' = Append(lockQ, t)
    BY <2>1 DEF EnterWith, EnterDispatch, EnterReply, EnterBroadcast,
       EnterEmit, EnterMailbox, EnterCancel, EnterCloseThread, EnterOperatorClose,
       EnterShutdown, EndAtOnce, GoForLock, Acquire
  <2>. QED
    BY <2>1, <2>2, NotYetStarted DEF LineIs
<1>2. ASSUME NEW t \in Call, TimeOut(t) PROVE LineIs(lockQ)
  <2>1. lockQ' = Append(lockQ, t) /\ pc'[t] # "lock"
    BY <1>2 DEF TimeOut, Acquire, IInv, TypeOK
  <2>. QED
    BY <2>1 DEF LineIs, TakesTurn
<1>3. CASE Commit \/ WriteError \/ ExpireDeadlines \/ CloseTTL \/ MessageGC \/ Rest
           \/ UNCHANGED vars
  <2>1. lockQ' = lockQ
    BY <1>3 DEF Commit, WriteError, ExpireDeadlines, CloseTTL, MessageGC, Rest, vars, tasks
  <2>. QED
    BY <2>1 DEF LineIs
<1>4. CASE Restart
  BY <1>4 DEF Restart
<1>. QED
  BY <1>1, <1>2, <1>3, <1>4, StepMovesLine DEF Next

\* Whoever has a turn to take after a step had it before, or starts now.
LEMMA AskersStay ==
  ASSUME IInv, OrderInv, [Next]_vars, NEW t \in Call, pc'[t] = "lock",
         req'[t].op # "close_thread"
  PROVE  TakesTurn(t) \/ pc[t] = "idle"
<1>. SUFFICES ASSUME pc[t] # "idle" PROVE TakesTurn(t)
  OBVIOUS
<1>1. KeepsKnowledge(t)
  BY StayersKeepKnowledge
<1>2. pc[t] = "loop" => req[t].op = "close_thread"
  BY DEF IInv, CallsOK, CallOK, Started
<1>. QED
  BY <1>1, <1>2 DEF KeepsKnowledge, TakesTurn

\* So it is with senders.
LEMMA SendersStay ==
  ASSUME IInv, OrderInv, [Next]_vars, NEW t \in Call, pc'[t] = "lock",
         req'[t].op \in SenderOps
  PROVE  SenderAsks(t) \/ pc[t] = "idle"
<1>. SUFFICES ASSUME pc[t] # "idle" PROVE SenderAsks(t)
  OBVIOUS
<1>1. req'[t] = req[t]
  BY GoesForth DEF Forth, Started
<1>. QED
  BY <1>1, AskersStay DEF TakesTurn, SenderAsks, SenderOps

\* Nobody overtakes: a place in the line after a step was one in the same order
\* before, unless it is that of a newcomer at the end.
LEMMA NobodyOvertakes ==
  ASSUME IInv, OrderInv, [Next]_vars, NEW u \in Call, pc[u] # "idle",
         pc'[u] = "lock", req'[u].op # "close_thread",
         NEW j \in DOMAIN lockQ', NEW k \in DOMAIN lockQ', j < k, lockQ'[k] = u
  PROVE  \E m, n \in DOMAIN lockQ : m < n /\ lockQ[m] = lockQ'[j] /\ lockQ[n] = u
<1>. DEFINE Found == \E m, n \in DOMAIN lockQ :
                       m < n /\ lockQ[m] = lockQ'[j] /\ lockQ[n] = u
<1>1. ASSUME NEW q \in Seq(Call), LineIs(q)
      PROVE  j \in DOMAIN q /\ k \in DOMAIN q /\ q[j] = lockQ'[j] /\ q[k] = u
  <2>1. CASE lockQ' = q
    BY <2>1
  <2>2. ASSUME NEW x \in Call, lockQ' = Append(q, x), x # u
        PROVE  j \in DOMAIN q /\ k \in DOMAIN q /\ q[j] = lockQ'[j] /\ q[k] = u
    <3>1. /\ DOMAIN q = 1..Len(q) /\ Len(q) \in Nat
          /\ DOMAIN lockQ' = 1..(Len(q) + 1)
          /\ \A i \in 1..Len(q) : lockQ'[i] = q[i]
          /\ lockQ'[Len(q) + 1] = x
      BY <2>2, AppendPlaces
    <3>. QED
      BY <2>2, <3>1
  <2>. QED
    BY <1>1, <2>1, <2>2 DEF LineIs, TakesTurn
<1>2. lockQ \in Seq(Call)
  BY DEF IInv, TypeOK
<1>3. CASE LineIs(lockQ)
  BY <1>1, <1>2, <1>3
<1>4. CASE lockQ # <<>> /\ LineIs(Tail(lockQ))
  <2>1. /\ Tail(lockQ) \in Seq(Call)
        /\ Len(lockQ) \in Nat \ {0} /\ DOMAIN lockQ = 1..Len(lockQ)
        /\ DOMAIN Tail(lockQ) = 1..(Len(lockQ) - 1)
        /\ \A i \in 1..(Len(lockQ) - 1) : Tail(lockQ)[i] = lockQ[i + 1]
    BY <1>2, <1>4, TailPlaces
  <2>2. j \in DOMAIN Tail(lockQ) /\ k \in DOMAIN Tail(lockQ)
        /\ Tail(lockQ)[j] = lockQ'[j] /\ Tail(lockQ)[k] = u
    BY <1>1, <1>4, <2>1
  <2>3. j + 1 \in DOMAIN lockQ /\ k + 1 \in DOMAIN lockQ /\ j + 1 < k + 1
    BY <2>1, <2>2
  <2>. QED
    BY <2>1, <2>2, <2>3
<1>5. lockQ' # <<>>
  OBVIOUS
<1>. QED
  BY <1>3, <1>4, <1>5, LineMoves

\* Turns are taken in the order of the numbers.
LEMMA TurnsStay ==
  ASSUME IInv, OrderInv, [Next]_vars, StartedInOrder, InTurn
  PROVE  InTurn'
<1>. SUFFICES ASSUME NEW t \in Call, NEW u \in Call,
                     NEW j \in DOMAIN lockQ', NEW k \in DOMAIN lockQ', j < k,
                     lockQ'[j] = t, lockQ'[k] = u,
                     TakesTurn(t)', TakesTurn(u)'
              PROVE  t < u
  BY DEF InTurn
<1>1. /\ pc'[t] = "lock" /\ req'[t].op # "close_thread"
      /\ pc'[u] = "lock" /\ req'[u].op # "close_thread"
  BY DEF TakesTurn
<1>2. OrderInv'
  BY NextOrder
<1>3. IInv'
  BY NextIInv
<1>4. t # u
  <2>1. j \in Int /\ k \in Int
    BY <1>3 DEF IInv, TypeOK
  <2>2. j # k
    BY <2>1
  <2>. QED
    BY <1>2, <2>2 DEF OrderInv, LineOK
<1>5. CASE pc[u] = "idle"
  BY <1>1, <1>4, <1>5, NewcomersAreLast
<1>6. CASE pc[u] # "idle"
  <2>1. PICK m, n \in DOMAIN lockQ : m < n /\ lockQ[m] = t /\ lockQ[n] = u
    BY <1>1, <1>6, NobodyOvertakes
  <2>2. pc[t] # "idle"
    BY <2>1 DEF OrderInv, LineOK, InLine, Asking
  <2>3. TakesTurn(t) /\ TakesTurn(u)
    BY <1>1, <1>6, <2>2, AskersStay
  <2>. QED
    BY <2>1, <2>3 DEF InTurn
<1>. QED
  BY <1>5, <1>6

\* A letter is of an earlier call than every sender that is still to come.
LEMMA SentInTurnStays ==
  ASSUME IInv, OrderInv, HistType, LettersOK, TurnsOK, [Next]_vars
  PROVE  SentInTurn'
<1>. SUFFICES ASSUME NEW e \in Letters', NEW t \in Call, SenderAsks(t)'
              PROVE  e.cmd < t
  BY DEF SentInTurn
<1>1. pc'[t] = "lock" /\ req'[t].op \in SenderOps
  BY DEF SenderAsks
<1>2. SenderAsks(t) \/ pc[t] = "idle"
  BY <1>1, SendersStay
<1>3. ASSUME NEW s \in Call, Started(s), pc[t] = "idle" PROVE s < t
  <2>1. pc'[s] # "idle" /\ s # t /\ pc'[t] # "idle"
    BY <1>1, <1>3, GoesForth DEF Forth, Started
  <2>. QED
    BY <1>3, <2>1, NewcomersAreLast DEF TurnsOK
<1>4. CASE e \in Letters
  <2>1. e.cmd \in Call /\ Started(e.cmd)
    BY <1>4 DEF LettersOK, Letters, HistType, Envelope, Past, PastStages, Finished, Started
  <2>. QED
    BY <1>2, <1>3, <1>4, <2>1 DEF TurnsOK, SentInTurn
<1>5. CASE e \notin Letters
  <2>0. PICK s \in Call : \E envs, state, asked :
          Sending(s, envs, state, asked) /\ Letters' = Letters \cup envs
    BY <1>5, LettersGrow
  <2>1. PICK envs, state, asked :
          Sending(s, envs, state, asked) /\ Letters' = Letters \cup envs
    BY <2>0
  <2>2. /\ e.cmd = s /\ pc[s] = "lock" /\ pc'[s] = "write" /\ Started(s)
    BY <1>5, <2>1, SendingIsPast
  <2>3. SenderAsks(s) /\ lockQ # <<>> /\ Head(lockQ) = s
    BY <2>1 DEF Sending, SenderAsks, HasLock
  <2>4. CASE SenderAsks(t)
    <3>1. PICK k \in DOMAIN lockQ : lockQ[k] = t
      BY <2>4 DEF SenderAsks, OrderInv, LineOK, InLine, Asking
    <3>2. /\ DOMAIN lockQ = 1..Len(lockQ) /\ Len(lockQ) \in Nat \ {0} /\ lockQ[1] = s
      BY <2>3, TailPlaces DEF IInv, TypeOK
    <3>3. s # t
      BY <1>1, <2>2
    <3>4. 1 \in DOMAIN lockQ /\ 1 < k
      BY <3>1, <3>2, <3>3
    <3>. QED
      BY <2>2, <2>3, <2>4, <3>1, <3>2, <3>4 DEF TurnsOK, InTurn, SenderAsks, TakesTurn,
         SenderOps
  <2>. QED
    BY <1>2, <1>3, <2>2, <2>4
<1>. QED
  BY <1>4, <1>5

(***************************************************************************)
(* ReceiversOK: a sender that found its conversation finds it again under  *)
(* the lock, and the receiver of a letter takes part in the conversation   *)
(* if that is in memory and still the one.                                 *)
(***************************************************************************)
KnowsConv ==
  \A t \in Call : SenderAsks(t) /\ ~res[t].isNew => conv[res[t].conv].status # "absent"
TakesPart(e) ==
  conv[e.conv].status # "absent" =>
    conv[e.conv].role[e.target] # "none" \/ BegunAnew(e)
LettersTakePart ==
  \A e \in Letters : e.conv \in ConvId /\ (e.target \in Workers => TakesPart(e))
ReceiversOK == TurnsOK /\ KnowsConv /\ LettersTakePart

\* KnowsConv is kept: the retention sweep passes over conversations in use.
LEMMA KnowledgeStays ==
  ASSUME IInv, OrderInv, ThreadsOK, KnowsConv, [Next]_vars
  PROVE  KnowsConv'
<1>. SUFFICES ASSUME NEW t \in Call, SenderAsks(t)', ~res'[t].isNew
              PROVE  conv'[res'[t].conv].status # "absent"
  BY DEF KnowsConv
<1>1. pc'[t] = "lock" /\ req'[t].op \in SenderOps
  BY DEF SenderAsks
<1>2. CASE pc[t] = "idle"
  <2>1. LetIn(t) /\ UNCHANGED convs
    BY <1>1, <1>2, NewcomersAreLetIn
  <2>. QED
    BY <1>1, <2>1 DEF LetIn, convs
<1>3. CASE SenderAsks(t)
  <2>1. res'[t] = res[t]
    BY <1>3, LocalsStay DEF SenderAsks
  <2>. DEFINE c == res[t].conv
  <2>2. c \in ConvId
    BY <1>3 DEF SenderAsks, SenderOps, IInv, CallsOK, CallOK, Started, InvolvesConv
  <2>3. conv[c].status # "absent"
    BY <1>3, <2>1 DEF KnowsConv
  <2>4. ~Restart
    BY <1>1, <1>3 DEF Restart, SenderAsks, Waiting
  <2>5. ASSUME MessageGC PROVE conv'[c] = conv[c]
    <3>1. c \in InUse
      BY <1>3 DEF SenderAsks, InUse, Waiting
    <3>. QED
      BY <2>2, <2>5, <3>1 DEF MessageGC
  <2>6. ConvMove(c)
    BY <2>2, ConvMoves
  <2>7. ASSUME NEW u \in Call, Founds(u, c) PROVE conv'[c].status # "absent"
    BY <2>7 DEF Founds, Onward, Later, NewState
  <2>8. conv'[c].status # "absent"
    BY <2>3, <2>4, <2>5, <2>6, <2>7 DEF ConvMove, Onward, Later
  <2>. QED
    BY <2>1, <2>8
<1>. QED
  BY <1>1, <1>2, <1>3, SendersStay

\* Who is added to a conversation takes part in it.
LEMMA AddedJoin ==
  ASSUME NEW s \in ConvState, NEW who, NEW role \in Role \ {"none"}
  PROVE  /\ AddParticipants(s, who, role) \in ConvState
         /\ Joined(s) \cup (who \cap Ids) \subseteq Joined(AddParticipants(s, who, role))
<1>1. AddParticipants(s, who, role) \in ConvState
  BY AddParticipantsType
<1>2. \A i \in Ids : AddParticipants(s, who, role).role[i] =
                       IF i \in who /\ s.role[i] = "none" THEN role ELSE s.role[i]
  BY DEF AddParticipants, ConvState
<1>. QED
  BY <1>1, <1>2 DEF Joined

\* A closing leaves the participants alone.
LEMMA CloserStaysJoined ==
  ASSUME NEW s \in ConvState, NEW who
  PROVE  Joined(PartyCloses(s, who)) = Joined(s)
BY DEF Joined, PartyCloses, MaybeClose, ConvState

\* Every worker a sender delivers to takes part in the conversation then.
LEMMA ReceiversJoin ==
  ASSUME IInv, HistType, NEW t \in Call, SendStep(t),
         NEW e \in hist'.sent, e \notin hist.sent, e.target \in Workers
  PROVE  e.target \in Joined(conv'[res[t].conv])
<1>1. /\ pc[t] = "lock" /\ req[t].op \in SenderOps
      /\ res[t].conv \in ConvId
  BY SendersGoOnward
<1>2. StateFor(t) \in ConvState
  BY <1>1, StateForType
<1>3. \A state : Record(t, state) => conv'[res[t].conv] = state
  BY <1>1 DEF Record, IInv, TypeOK
<1>4. "primary" \in Role \ {"none"} /\ "cc" \in Role \ {"none"} /\ "missed" \in Role \ {"none"}
  BY DEF Role
<1>5. e.target \in Ids /\ e.target \notin Handlers \cup Observers
  BY DispatcherAssumption
<1>6. ASSUME NEW to, NEW as, NEW er, NEW f \in Copies(t, to, as, er)
      PROVE  f.target \in to
  <2>1. PICK i \in to : f = Copy(t, i, as, er)
    BY <1>6 DEF Copies, Copy
  <2>. QED
    BY <2>1 DEF Copy
<1>11. ASSUME NEW at, NEW er, NEW f \in CcCopies(t, at, er)
       PROVE  \E n \in at : f.target = req[t].cc[n]
  BY <1>11 DEF CcCopies
<1>7. ASSUME NEW envs, \/ hist' = [hist EXCEPT !.sent = @ \cup envs]
                       \/ \E done : hist' = [hist EXCEPT !.sent = @ \cup envs,
                                                         !.answered = @ \cup done]
      PROVE  e \in envs
  BY <1>7 DEF HistType
<1>8. ASSUME DispatchLocked(t) PROVE e.target \in Joined(conv'[res[t].conv])
  <2>. DEFINE r     == req[t]
              to    == {r.tgt} \ {None}
              cc    == {n \in DOMAIN r.cc : r.cc[n] \notin {r.src, r.tgt}}
              ccIn  == {n \in cc : Room(r.cc[n])}
              subIn == {b \in r.subs \ to : Room(b)}
              obsIn == {b \in Observers \ (to \cup r.subs) : Room(b)}
              envs  == UNION {Copies(t, to, "primary", r.er),
                              CcCopies(t, ccIn, r.er),
                              Copies(t, subIn, "subscribed", FALSE),
                              Copies(t, obsIn, "cc", FALSE)}
              others == {r.cc[n] : n \in cc} \cup subIn \cup obsIn
              first == AddParticipants(StateFor(t), {r.src} \cup to, "primary")
              named == AddParticipants(first, others, "cc")
              state == IF r.closing /\ named.role[r.src] \in {"primary", "missed"}
                         THEN PartyCloses(named, r.src) ELSE named
  <2>1. /\ Record(t, state)
        /\ hist' = [hist EXCEPT !.sent = @ \cup envs, !.answered = @ \cup Answers(t)]
    BY <1>8 DEF DispatchLocked
  <2>2. e.target \in to \cup others
    <3>. HIDE DEF to, cc, subIn, obsIn, envs
    <3>1. e \in envs
      BY <1>7, <2>1
    <3>2. ccIn \subseteq cc
      OBVIOUS
    <3>. HIDE DEF ccIn
    <3>3. \/ e \in Copies(t, to, "primary", r.er) \/ e \in CcCopies(t, ccIn, r.er)
          \/ e \in Copies(t, subIn, "subscribed", FALSE)
          \/ e \in Copies(t, obsIn, "cc", FALSE)
      BY <3>1 DEF envs
    <3>4. e \in CcCopies(t, ccIn, r.er) => \E n \in cc : e.target = r.cc[n]
      BY <1>11, <3>2
    <3>. QED
      BY <1>6, <3>3, <3>4
  <2>. HIDE DEF others, to
  <2>3. first \in ConvState /\ ({r.src} \cup to) \cap Ids \subseteq Joined(first)
    BY <1>2, <1>4, AddedJoin
  <2>4. /\ named \in ConvState
        /\ Joined(first) \cup (others \cap Ids) \subseteq Joined(named)
    <3>. HIDE DEF first
    <3>. QED
      BY <1>4, <2>3, AddedJoin
  <2>5. e.target \in Joined(named)
    <3>. HIDE DEF first, named
    <3>. QED
      BY <1>5, <2>2, <2>3, <2>4
  <2>6. state \in {named, PartyCloses(named, r.src)} /\ conv'[res[t].conv] = state
    BY <1>3, <2>1
  <2>. HIDE DEF named, state
  <2>. QED
    BY <2>4, <2>5, <2>6, CloserStaysJoined
<1>9. ASSUME BroadcastLocked(t) PROVE e.target \in Joined(conv'[res[t].conv])
  <2>. DEFINE r     == req[t]
              to    == Permitted(r.src)
              wIn   == {w \in to : Room(w)}
              subIn == {b \in r.subs : Room(b)}
              obsIn == {b \in Observers \ r.subs : Room(b)}
              envs  == UNION {Copies(t, wIn, "primary", r.er),
                              Copies(t, subIn, "subscribed", FALSE),
                              Copies(t, obsIn, "cc", FALSE)}
              first == AddParticipants(StateFor(t), {r.src} \cup wIn, "primary")
              named == AddParticipants(first, to \ wIn, "missed")
              ended == [named EXCEPT !.status = "closed",
                          !.closedBy = {i \in Ids : named.role[i] # "none"}]
              state == IF r.closing THEN ended ELSE named
  <2>1. Record(t, state) /\ hist' = [hist EXCEPT !.sent = @ \cup envs]
    BY <1>9 DEF BroadcastLocked
  <2>2. e.target \in wIn
    <3>1. subIn \subseteq Handlers /\ obsIn \subseteq Observers
      BY <1>1 DEF IInv, CallsOK, CallOK, Started, RequestType
    <3>. HIDE DEF r, wIn, subIn, obsIn, envs
    <3>2. e \in envs
      BY <1>7, <2>1
    <3>3. \/ e \in Copies(t, wIn, "primary", r.er)
          \/ e \in Copies(t, subIn, "subscribed", FALSE)
          \/ e \in Copies(t, obsIn, "cc", FALSE)
      BY <3>2 DEF envs
    <3>. QED
      BY <1>5, <1>6, <3>1, <3>3
  <2>. HIDE DEF wIn, to
  <2>3. first \in ConvState /\ ({r.src} \cup wIn) \cap Ids \subseteq Joined(first)
    BY <1>2, <1>4, AddedJoin
  <2>4. named \in ConvState /\ Joined(first) \subseteq Joined(named)
    <3>. HIDE DEF first
    <3>. QED
      BY <1>4, <2>3, AddedJoin
  <2>5. Joined(ended) = Joined(named)
    <3>. HIDE DEF first, named
    <3>. QED
      BY <2>4 DEF ConvState, Joined
  <2>6. state \in {named, ended} /\ conv'[res[t].conv] = state
    BY <1>3, <2>1
  <2>. HIDE DEF first, named, ended, state
  <2>. QED
    BY <1>5, <2>2, <2>3, <2>4, <2>5, <2>6
<1>10. ASSUME EmitLocked(t) PROVE e.target \in Joined(conv'[res[t].conv])
  <2>. DEFINE r      == req[t]
              to     == {i \in {r.tgt} \ {None} : Room(i)}
              subIn  == {b \in r.subs \ {r.tgt} : Room(b)}
              obsIn  == {b \in Observers \ ({r.tgt} \cup r.subs) : Room(b)}
              envs   == UNION {Copies(t, to, "primary", FALSE),
                               Copies(t, subIn, "subscribed", FALSE),
                               Copies(t, obsIn, "cc", FALSE)}
              first  == AddParticipants(StateFor(t), {r.src}, "cc")
              second == AddParticipants(first, to, "primary")
              state  == AddParticipants(second, subIn \cup obsIn, "cc")
  <2>1. Record(t, state) /\ hist' = [hist EXCEPT !.sent = @ \cup envs]
    BY <1>10 DEF EmitLocked
  <2>. HIDE DEF to, subIn, obsIn
  <2>2. e.target \in to \cup subIn \cup obsIn
    <3>. HIDE DEF r, envs
    <3>1. e \in envs
      BY <1>7, <2>1
    <3>2. \/ e \in Copies(t, to, "primary", FALSE)
          \/ e \in Copies(t, subIn, "subscribed", FALSE)
          \/ e \in Copies(t, obsIn, "cc", FALSE)
      BY <3>1 DEF envs
    <3>. QED
      BY <1>6, <3>2
  <2>3. first \in ConvState
    BY <1>2, <1>4, AddedJoin
  <2>4. second \in ConvState /\ to \cap Ids \subseteq Joined(second)
    <3>. HIDE DEF first
    <3>. QED
      BY <1>4, <2>3, AddedJoin
  <2>5. Joined(second) \cup ((subIn \cup obsIn) \cap Ids) \subseteq Joined(state)
    <3>. HIDE DEF second
    <3>. QED
      BY <1>4, <2>4, AddedJoin
  <2>6. conv'[res[t].conv] = state
    BY <1>3, <2>1
  <2>. HIDE DEF second, state
  <2>. QED
    BY <1>5, <2>2, <2>4, <2>5, <2>6
<1>. QED
  BY <1>8, <1>9, <1>10 DEF SendStep

\* Whoever has got a letter takes part after every step, too.
LEMMA ReceiversStay ==
  ASSUME IInv, PostOK, ThreadsOK, ReceiversOK, [Next]_vars
  PROVE  LettersTakePart'
<1>. SUFFICES ASSUME NEW e \in Letters'
              PROVE  /\ e.conv \in ConvId
                     /\ e.target \in Workers /\ conv'[e.conv].status # "absent" =>
                          \/ conv'[e.conv].role[e.target] # "none"
                          \/ LET f == conv'[e.conv].born IN e.cmd < f /\ res'[f].isNew
  BY DEF LettersTakePart, TakesPart, BegunAnew
<1>. DEFINE c == e.conv
<1>1. CASE e \in Letters
  <2>1. c \in ConvId /\ (e.target \in Workers => TakesPart(e))
    BY <1>1 DEF ReceiversOK, LettersTakePart
  <2>2. e.target \in Ids
    BY <1>1 DEF Letters, PostOK, HistType, Envelope
  <2>3. ConvMove(c)
    BY <2>1, ConvMoves
  <2>4. ASSUME conv[c].status # "absent", conv'[c].born = conv[c].born,
               Joined(conv[c]) \subseteq Joined(conv'[c]), e.target \in Workers
        PROVE  \/ conv'[c].role[e.target] # "none"
               \/ LET f == conv'[c].born IN e.cmd < f /\ res'[f].isNew
    <3>1. conv[c].born \in Call /\ Past(conv[c].born)
      BY <2>1, <2>4 DEF ThreadsOK, BornOK
    <3>2. res'[conv[c].born] = res[conv[c].born]
      BY <3>1, LocalsStay DEF Past, PastStages, Finished
    <3>. QED
      BY <2>1, <2>2, <2>4, <3>2 DEF TakesPart, BegunAnew, Joined
  <2>5. ASSUME NEW t \in Call, Founds(t, c)
        PROVE  conv'[c].born = t /\ e.cmd < t /\ res'[t].isNew
    <3>1. /\ SendStep(t) /\ pc[t] = "lock" /\ res[t].conv = c
          /\ res[t].isNew \/ conv[c].status = "absent"
          /\ conv'[c].born = t
      BY <2>5 DEF Founds, Onward, Later, NewState
    <3>2. SenderAsks(t)
      BY <3>1, SendersGoOnward DEF SenderAsks
    <3>3. res[t].isNew
      BY <3>1, <3>2 DEF ReceiversOK, KnowsConv
    <3>4. res'[t] = res[t]
      BY <3>1, LocalsStay
    <3>. QED
      BY <1>1, <3>1, <3>2, <3>3, <3>4 DEF ReceiversOK, TurnsOK, SentInTurn
  <2>6. conv'[c] = Absent => conv'[c].status = "absent"
    BY DEF Absent
  <2>. QED
    BY <2>1, <2>3, <2>4, <2>5, <2>6 DEF ConvMove, Onward, Later
<1>2. CASE e \notin Letters
  <2>0. PICK t \in Call : \E envs, state, asked :
          /\ SendStep(t) /\ Sending(t, envs, state, asked)
          /\ Letters' = Letters \cup envs
    BY <1>2, LettersGrow DEF PostOK
  <2>1. PICK envs, state, asked :
          /\ SendStep(t) /\ Sending(t, envs, state, asked)
          /\ Letters' = Letters \cup envs
    BY <2>0
  <2>2. e \in envs /\ e.conv = res[t].conv /\ e \in Envelope
    BY <1>2, <2>1, SendingIsPast DEF Sending, CopiesOfCall
  <2>3. e \in hist'.sent /\ e \notin hist.sent
    BY <1>2, <2>1, <2>2, SendingIsPast DEF Letters
  <2>4. res[t].conv \in ConvId
    BY <2>1, SendersGoOnward
  <2>5. e.target \in Workers => e.target \in Joined(conv'[res[t].conv])
    BY <2>1, <2>3, ReceiversJoin DEF PostOK
  <2>. QED
    BY <2>2, <2>4, <2>5 DEF Joined
<1>. QED
  BY <1>1, <1>2

\* ReceiversOK holds in every reachable state.
LEMMA ReceiversHold == Spec => []ReceiversOK
<1>1. Init => ReceiversOK
  <2>. SUFFICES ASSUME Init PROVE ReceiversOK
    OBVIOUS
  <2>1. (\A t \in Call : pc[t] = "idle") /\ Letters = {}
    BY DEF Init, Letters, NoHist
  <2>. QED
    BY <2>1 DEF ReceiversOK, TurnsOK, StartedInOrder, InTurn, SentInTurn, KnowsConv,
       LettersTakePart, SenderAsks, TakesTurn, Started
<1>2. IInv /\ OrderInv /\ PostOK /\ ThreadsOK /\ ReceiversOK /\ [Next]_vars => ReceiversOK'
  <2>. SUFFICES ASSUME IInv, OrderInv, PostOK, ThreadsOK, ReceiversOK, [Next]_vars
                PROVE  ReceiversOK'
    OBVIOUS
  <2>1. StartedInOrder' /\ InTurn'
    BY OrderOfStarts, TurnsStay DEF ReceiversOK, TurnsOK
  <2>2. SentInTurn'
    BY SentInTurnStays DEF ReceiversOK, PostOK
  <2>3. KnowsConv'
    BY KnowledgeStays DEF ReceiversOK
  <2>4. LettersTakePart'
    BY ReceiversStay
  <2>. QED
    BY <2>1, <2>2, <2>3, <2>4 DEF ReceiversOK, TurnsOK
<1>. QED
  BY <1>1, <1>2, InvariantHolds, OrderHolds, PostHolds, ThreadsHold, PTL DEF Spec

\* A worker with mail of a conversation takes part in it as long as it is the
\* one the mail was sent in, whichever handler delivered the mail and whatever
\* calls waited for the lock at the time: close_thread by it is not turned down.
THEOREM ReceiversParticipate == Spec => []ReceiversTakePart
<1>1. PostOK /\ ReceiversOK => ReceiversTakePart
  <2>. SUFFICES ASSUME PostOK, ReceiversOK, NEW i \in Workers, NEW e \in queues[i],
                       ~IsNotice(e), conv[e.conv].status # "absent"
                PROVE  conv[e.conv].role[i] # "none" \/ BegunAnew(e)
    BY DEF ReceiversTakePart
  <2>1. e \in Letters /\ e.target = i
    BY DispatcherAssumption DEF PostOK, InboxesOK, Letters
  <2>2. TakesPart(e)
    BY <2>1 DEF ReceiversOK, LettersTakePart
  <2>. QED
    BY <2>1, <2>2 DEF TakesPart
<1>. QED
  BY <1>1, PostHolds, ReceiversHold, PTL

-------------------------------------------------------------------------------
(***************************************************************************)
(* The order in which sends are written.  SendersInPlace: a sender waits   *)
(* for the lock or is past its sending.  SentFirst: who still waits is a   *)
(* later call than any that has sent.  WrittenFirst: so is who waits for   *)
(* its transaction, of those whose transaction was applied.                *)
(***************************************************************************)
IsSender(t) == Started(t) /\ req[t].op \in SenderOps
HasSent(t) == IsSender(t) /\ pc[t] \in {"write", "written", "done"}
HasWritten(t) == IsSender(t) /\ pc[t] \in {"written", "done"}

SendersInPlace == \A t \in Call : IsSender(t) => pc[t] = "lock" \/ Past(t)
SentFirst == \A t, u \in Call : SenderAsks(t) /\ HasSent(u) => u < t
WrittenFirst ==
  \A t, u \in Call : IsSender(t) /\ pc[t] = "write" /\ HasWritten(u) => u < t
SendsInOrder == SendersInPlace /\ SentFirst /\ WrittenFirst

\* the worker applies the transaction of call t's send
Applies(t) == /\ Commit /\ Head(wq).by = t
              /\ Head(wq).kind = "dispatch" /\ Applied(Head(wq))

\* how a sender moves
SenderMove(t) ==
  \/ pc'[t] = pc[t]
  \/ pc[t] = "lock" /\ pc'[t] = "write" /\ SendStep(t)
  \/ pc[t] = "write" /\ pc'[t] = "written" /\ Applies(t)
  \/ pc[t] = "written" /\ pc'[t] = "done"
  \/ pc'[t] \in {"refused", "failed", "unwritten", "dead"}

\* A call that starts goes for the lock or into close_thread's loop, or is over.
LEMMA NewcomersArrive ==
  ASSUME IInv, [Next]_vars, NEW u \in Call, pc[u] = "idle", pc'[u] # "idle"
  PROVE  pc'[u] \in {"lock", "loop", "refused"}
<1>1. CASE Enter
  <2>1. PICK t \in Call, r \in Requests : MayEnter(t) /\ EnterWith(t, r)
    BY <1>1 DEF Enter
  <2>2. \E stage \in {"lock", "loop", "refused"} : pc' = [pc EXCEPT ![t] = stage]
    BY <2>1 DEF EnterWith, EnterDispatch, EnterReply, EnterBroadcast,
       EnterEmit, EnterMailbox, EnterCancel, EnterCloseThread, EnterOperatorClose,
       EnterShutdown, EndAtOnce, GoForLock
  <2>. QED
    BY <2>2 DEF IInv, TypeOK
<1>2. ASSUME NEW t \in Call, NextClosing(t)
      PROVE  pc'[u] \in {"lock", "loop", "refused"}
  <2>1. pc[t] = "loop"
    BY <1>2 DEF NextClosing
  <2>2. PICK v \in Call : \/ pc' = [pc EXCEPT ![v] = "refused", ![t] = "failed"]
                          \/ pc' = [pc EXCEPT ![v] = "refused"]
                          \/ pc' = [pc EXCEPT ![v] = "lock"]
    BY <1>2 DEF NextClosing
  <2>. QED
    BY <2>1, <2>2 DEF IInv, TypeOK
<1>. QED
  BY <1>1, <1>2, NewcomersEnter

\* A sender in the lock sends, is turned down, or stays, as long as the process
\* lives.
LEMMA AskersMove ==
  ASSUME IInv, OrderInv, [Next]_vars, NEW t \in Call, SenderAsks(t)
  PROVE  SenderMove(t)
<1>1. /\ pc[t] = "lock" /\ req[t].op \in {"dispatch", "broadcast", "emit"}
      /\ t \in Nat /\ t > 0
  BY MaxCallsAssumption DEF SenderAsks, SenderOps, Call
<1>2. CASE Restart
  BY <1>1, <1>2 DEF Restart, SenderMove, Waiting
<1>3. ASSUME Step(t) PROVE SenderMove(t)
  <2>1. SendStep(t) \/ DispatchTurnedDown(t) \/ TurnedDown(t)
    BY <1>1, <1>3 DEF Step, SendStep, Resume, FlushLocked, WaitLocked, Woken,
       TimedOutLocked, Report, NotifyLocked, CancelLocked, ShutdownLocked, NextClosing,
       AllClosingsSent, CloseThreadLocked, OperatorCloseLocked, InLock
  <2>2. CASE SendStep(t)
    BY <1>1, <2>2, SendersGoOnward DEF SenderMove
  <2>3. CASE DispatchTurnedDown(t)
    <3>1. res[t].parent # t
      BY <1>1 DEF Active, OrderInv, ParentsWait, ChildOf
    <3>2. LeaveDispatch(t, "refused")
      BY <2>3 DEF DispatchTurnedDown
    <3>3. pc'[t] = "refused"
      BY <3>1, <3>2 DEF LeaveDispatch, IInv, TypeOK
    <3>. QED
      BY <3>3 DEF SenderMove
  <2>4. CASE TurnedDown(t)
    <3>1. pc'[t] = "refused"
      BY <2>4 DEF TurnedDown, Leave, IInv, TypeOK
    <3>. QED
      BY <3>1 DEF SenderMove
  <2>. QED
    BY <2>1, <2>2, <2>3, <2>4
<1>. QED
  BY <1>1, <1>2, <1>3, LockIsLeftByOwnStep DEF SenderMove

\* A sender that has delivered waits for its transaction, then returns or raises.
LEMMA DeliveredMove ==
  ASSUME IInv, OrderInv, [Next]_vars, "write_error" \notin Daemons,
         NEW t \in Call, Past(t)
  PROVE  SenderMove(t)
<1>1. PastMove(t) /\ ~WriteError
  BY PastMoves DEF WriteError
<1>2. ASSUME pc[t] = "write", Commit, Head(wq).by = t PROVE SenderMove(t)
  <2>. DEFINE x == Head(wq)
  <2>1. wq # <<>> /\ pc[x.by] = AwaitedIn(x) /\ x \in Txn
    BY <1>2, FirstWrite DEF Commit, OrderInv, WritesAwaited
  <2>2. x.kind = "dispatch"
    BY <1>2, <2>1 DEF AwaitedIn
  <2>3. Answer(x, Applied(x))
    BY <1>2 DEF Commit
  <2>4. x.by = t
    BY <1>2
  <2>. HIDE DEF x
  <2>5. pc'[t] = IF Applied(x) THEN "written" ELSE "unwritten"
    <3>. HIDE DEF Applied
    <3>. QED
      BY <2>2, <2>3, <2>4 DEF Answer, IInv, TypeOK
  <2>. QED
    BY <1>2, <2>2, <2>5 DEF SenderMove, Applies, x
<1>. QED
  BY <1>1, <1>2 DEF PastMove, SenderMove

\* Whoever sends after a step did so before, or is waiting since this step.
LEMMA SendersMove ==
  ASSUME IInv, OrderInv, SendersInPlace, [Next]_vars, "write_error" \notin Daemons,
         NEW t \in Call, IsSender(t)'
  PROVE  \/ pc[t] = "idle" /\ pc'[t] \in {"lock", "refused"}
         \/ IsSender(t) /\ (SenderAsks(t) \/ Past(t)) /\ SenderMove(t)
<1>1. CASE pc[t] = "idle"
  <2>1. pc'[t] \in {"lock", "loop", "refused"}
    BY <1>1, NewcomersArrive DEF IsSender, Started
  <2>2. pc'[t] # "loop"
    <3>1. IInv'
      BY NextIInv
    <3>. QED
      BY <3>1 DEF IsSender, SenderOps, IInv, CallsOK, CallOK
  <2>. QED
    BY <1>1, <2>1, <2>2
<1>2. CASE pc[t] # "idle"
  <2>1. IsSender(t)
    BY <1>2, GoesForth DEF Forth, IsSender, Started
  <2>2. SenderAsks(t) \/ Past(t)
    BY <2>1 DEF SendersInPlace, SenderAsks, IsSender
  <2>. QED
    BY <2>1, <2>2, AskersMove, DeliveredMove
<1>. QED
  BY <1>1, <1>2

\* SendersInPlace is kept.
LEMMA PlacesStay ==
  ASSUME IInv, OrderInv, SendersInPlace, [Next]_vars, "write_error" \notin Daemons
  PROVE  SendersInPlace'
<1>. SUFFICES ASSUME NEW t \in Call, IsSender(t)' PROVE pc'[t] = "lock" \/ Past(t)'
  BY DEF SendersInPlace
<1>. QED
  BY SendersMove DEF SenderMove, SenderAsks, Past, PastStages, Finished

\* SentFirst is kept: who sends is first in the line of those that wait.
LEMMA SentFirstStays ==
  ASSUME IInv, OrderInv, TurnsOK, SendsInOrder, [Next]_vars, "write_error" \notin Daemons
  PROVE  SentFirst'
<1>. SUFFICES ASSUME NEW t \in Call, NEW u \in Call, SenderAsks(t)', HasSent(u)'
              PROVE  u < t
  BY DEF SentFirst
<1>1. /\ pc'[t] = "lock" /\ req'[t].op \in SenderOps /\ u # t
      /\ pc'[u] \in {"write", "written", "done"}
  BY DEF SenderAsks, HasSent
<1>2. SenderAsks(t) \/ pc[t] = "idle"
  BY <1>1, SendersStay
<1>3. IsSender(u) /\ (SenderAsks(u) \/ Past(u)) /\ SenderMove(u)
  BY <1>1, SendersMove DEF HasSent, SendsInOrder
<1>4. CASE pc[t] = "idle"
  BY <1>1, <1>3, <1>4, NewcomersAreLast DEF TurnsOK
<1>5. CASE SenderAsks(t) /\ HasSent(u)
  BY <1>5 DEF SendsInOrder, SentFirst
<1>6. CASE SenderAsks(t) /\ ~HasSent(u)
  <2>1. SendStep(u) /\ pc[u] = "lock"
    BY <1>1, <1>3, <1>6 DEF SenderMove, HasSent
  <2>2. SenderAsks(u) /\ lockQ # <<>> /\ Head(lockQ) = u
    BY <1>3, <2>1 DEF SendStep, DispatchLocked, BroadcastLocked, EmitLocked, InLock,
       HasLock, SenderAsks, IsSender
  <2>3. PICK k \in DOMAIN lockQ : lockQ[k] = t
    BY <1>6 DEF SenderAsks, OrderInv, LineOK, InLine, Asking
  <2>4. /\ DOMAIN lockQ = 1..Len(lockQ) /\ Len(lockQ) \in Nat \ {0} /\ lockQ[1] = u
    BY <2>2, TailPlaces DEF IInv, TypeOK
  <2>5. 1 \in DOMAIN lockQ /\ 1 < k
    BY <1>1, <2>3, <2>4
  <2>. QED
    BY <1>6, <2>2, <2>3, <2>4, <2>5 DEF TurnsOK, InTurn, SenderAsks, TakesTurn, SenderOps
<1>. QED
  BY <1>2, <1>4, <1>5, <1>6

\* WrittenFirst is kept: one call at a time waits for its transaction.
LEMMA WrittenFirstStays ==
  ASSUME IInv, OrderInv, SendsInOrder, [Next]_vars, "write_error" \notin Daemons
  PROVE  WrittenFirst'
<1>. SUFFICES ASSUME NEW t \in Call, NEW u \in Call,
                     IsSender(t)', pc'[t] = "write", HasWritten(u)'
              PROVE  u < t
  BY DEF WrittenFirst
<1>1. pc'[u] \in {"written", "done"} /\ IsSender(u)'
  BY DEF HasWritten
<1>2. /\ IsSender(t) /\ (SenderAsks(t) \/ Past(t)) /\ SenderMove(t)
      /\ IsSender(u) /\ (SenderAsks(u) \/ Past(u)) /\ SenderMove(u)
  BY <1>1, SendersMove DEF SendsInOrder
<1>3. HasWritten(u) \/ (pc[u] = "write" /\ pc'[u] = "written")
  BY <1>1, <1>2 DEF SenderMove, HasWritten
<1>4. pc[t] = "write" \/ SenderAsks(t)
  BY <1>2 DEF SenderMove, SenderAsks, IsSender
<1>5. CASE SenderAsks(t)
  <2>1. HasSent(u)
    BY <1>2, <1>3 DEF HasSent, HasWritten
  <2>. QED
    BY <1>5, <2>1 DEF SendsInOrder, SentFirst
<1>6. CASE pc[t] = "write" /\ HasWritten(u)
  BY <1>2, <1>6 DEF SendsInOrder, WrittenFirst
<1>7. CASE pc[t] = "write" /\ pc[u] = "write"
  <2>1. PICK j, k \in DOMAIN lockQ : lockQ[j] = t /\ lockQ[k] = u
    BY <1>7 DEF OrderInv, LineOK, InLine
  <2>2. j = 1 /\ k = 1
    BY <1>7, <2>1 DEF OrderInv, LineOK, Asking
  <2>. QED
    BY <1>1, <2>1, <2>2
<1>. QED
  BY <1>3, <1>4, <1>5, <1>6, <1>7

-------------------------------------------------------------------------------
(***************************************************************************)
(* StatusAgrees.  StatusFollows: the last write of the queue about a       *)
(* conversation has the status that it has in memory, or the table has it  *)
(* and nothing about the conversation is on its way there, or one of the   *)
(* exceptions applies, that of a message which was refused while no other  *)
(* is on its way.  RowsFollow: a conversation in memory has its row, or    *)
(* the message that brings it is on its way or was refused.  BornBefore:   *)
(* no state in memory is as new as a call that still waits for its turn.   *)
(* A close by the operator that finds another state than the one it read   *)
(* finds a newer one, and one of an earlier call, which is what its        *)
(* exception says.                                                         *)
(***************************************************************************)
About(x, c) == x.kind # "marks" /\ x.conv = c
Brings(x, c) == x.kind = "dispatch" /\ x.conv = c
OnItsWay(c) == \E k \in DOMAIN wq : Brings(wq[k], c)
Latest(c, s) ==
  \/ \E k \in DOMAIN wq : /\ About(wq[k], c) /\ wq[k].status = s
                          /\ \A j \in DOMAIN wq : j > k => ~About(wq[j], c)
  \/ dbConv[c] = s /\ \A j \in DOMAIN wq : ~About(wq[j], c)
Excused(c) == \/ UnwrittenClosing(c)
              \/ MisplacedClosing(c)
              \/ UnwrittenMessage(c) /\ ~OnItsWay(c)

StatusFollows ==
  \A c \in ConvId : conv[c].status # "absent" => Latest(c, conv[c].status) \/ Excused(c)
RowsFollow ==
  \A c \in ConvId : conv[c].status # "absent" /\ dbConv[c] = "absent" =>
    UnwrittenMessage(c) \/ OnItsWay(c)
BornBefore ==
  \A t \in Call : TakesTurn(t) =>
    /\ \A c \in ConvId : conv[c].born < t
    /\ req[t].op = "operator_close" => res[t].born <= conv[res[t].conv].born
StatusOK == SendsInOrder /\ BornBefore /\ RowsFollow /\ StatusFollows

\* The commit that may end the exception of a refused message.
BringsIt(c) == Commit /\ Brings(Head(wq), c)

\* A message that could not be written is the last of its conversation until a
\* later one is.
LEMMA UnwrittenStays ==
  ASSUME IInv, OrderInv, WritersOK, SendsInOrder, [Next]_vars,
         "write_error" \notin Daemons, ~Restart, NEW c \in ConvId,
         ~(BringsIt(c) /\ Applied(Head(wq))), UnwrittenMessage(c)
  PROVE  UnwrittenMessage(c)'
<1>1. PICK t \in Call :
        /\ SendsTo(t, c) /\ Unwritten(t)
        /\ \A u \in Call : SendsTo(u, c) /\ pc[u] \in {"written", "done"} => u < t
  BY DEF UnwrittenMessage
<1>2. Past(t) /\ pc[t] \in {"unwritten", "failed"}
  BY <1>1 DEF Unwritten, Past, PastStages, Finished
<1>3. SendsTo(t, c)' /\ Unwritten(t)'
  <2>1. PastMove(t)
    BY <1>2, PastMoves
  <2>2. pc'[t] \in {"unwritten", "failed"}
    BY <1>2, <2>1 DEF PastMove
  <2>3. req'[t] = req[t] /\ res'[t] = res[t]
    BY <1>2, PastStays, LocalsStay
  <2>. QED
    BY <1>1, <2>2, <2>3 DEF SendsTo, Unwritten
<1>4. ASSUME NEW u \in Call, SendsTo(u, c)', pc'[u] \in {"written", "done"}
      PROVE  u < t
  <2>1. IsSender(u)'
    BY <1>4 DEF SendsTo, IsSender, Started
  <2>2. IsSender(u) /\ (SenderAsks(u) \/ Past(u)) /\ SenderMove(u)
    BY <1>4, <2>1, SendersMove DEF SendsInOrder
  <2>3. \/ pc[u] \in {"written", "done"}
        \/ pc[u] = "write" /\ Applies(u)
    BY <1>4, <2>2 DEF SenderMove
  <2>4. req'[u] = req[u] /\ res'[u] = res[u]
    <3>1. Past(u)
      BY <2>3 DEF Past, PastStages, Finished
    <3>. QED
      BY <2>3, <3>1, PastStays, LocalsStay
  <2>5. SendsTo(u, c)
    BY <1>4, <2>4 DEF SendsTo
  <2>6. ~Applies(u)
    <3>. SUFFICES ASSUME Applies(u) PROVE FALSE
      OBVIOUS
    <3>1. wq # <<>> /\ Proper(Head(wq)) /\ Head(wq).kind = "dispatch" /\ Head(wq).by = u
      BY FirstWrite DEF Applies, Commit, WritersOK
    <3>2. Head(wq).conv = c
      BY <2>5, <3>1 DEF Proper, SendsTo
    <3>. QED
      BY <3>2 DEF Applies, BringsIt, Brings
  <2>. QED
    BY <1>1, <2>3, <2>5, <2>6
<1>. QED
  BY <1>3, <1>4 DEF UnwrittenMessage

\* A message that is refused is the last of its conversation.
LEMMA RefusedIsUnwritten ==
  ASSUME IInv, OrderInv, WritersOK, SendsInOrder, NEW c \in ConvId,
         BringsIt(c), ~Applied(Head(wq))
  PROVE  UnwrittenMessage(c)'
<1>0. Head(wq).by \in Call /\ Proper(Head(wq)) /\ pc[Head(wq).by] = AwaitedIn(Head(wq))
  BY FirstWrite DEF BringsIt, Commit, WritersOK, OrderInv, WritesAwaited
<1>1. PICK x : x = Head(wq)
  OBVIOUS
<1>. DEFINE t == x.by
<1>. HIDE DEF t
<1>2. t \in Call /\ SendsTo(t, c) /\ pc[t] = "write" /\ UNCHANGED <<req, res>>
  BY <1>0, <1>1 DEF BringsIt, Brings, Commit, Proper, AwaitedIn, t
<1>3. pc' = [pc EXCEPT ![t] = "unwritten"]
  <2>1. Answer(x, Applied(x)) /\ ~Applied(x) /\ x.kind = "dispatch" /\ x.by = t
    BY <1>1 DEF BringsIt, Brings, Commit, t
  <2>. HIDE DEF Applied
  <2>. QED
    BY <2>1 DEF Answer
<1>4. pc'[t] = "unwritten" /\ \A u \in Call : u # t => pc'[u] = pc[u]
  BY <1>2, <1>3 DEF IInv, TypeOK
<1>5. SendsTo(t, c)' /\ Unwritten(t)'
  BY <1>2, <1>4 DEF SendsTo, Unwritten
<1>6. ASSUME NEW u \in Call, SendsTo(u, c)', pc'[u] \in {"written", "done"}
      PROVE  u < t
  <2>1. HasWritten(u)
    BY <1>2, <1>4, <1>6 DEF HasWritten, IsSender, Started, SendsTo
  <2>2. IsSender(t)
    BY <1>2 DEF IsSender, Started, SendsTo
  <2>. QED
    BY <1>2, <2>1, <2>2 DEF SendsInOrder, WrittenFirst
<1>. QED
  BY <1>2, <1>5, <1>6 DEF UnwrittenMessage

\* What is in the queue after a step was in it before, is no message, or is one
\* that is sent in this step.
LEMMA MessagesCome ==
  ASSUME IInv, HistType, [Next]_vars, "write_error" \notin Daemons,
         NEW c \in ConvId, OnItsWay(c)', \A t \in Call : SendStep(t) => res[t].conv # c
  PROVE  OnItsWay(c)
<1>1. PICK k \in DOMAIN wq' : Brings(wq'[k], c)
  BY DEF OnItsWay, Brings
<1>2. CASE UNCHANGED wq
  BY <1>2 DEF OnItsWay, Brings
<1>3. CASE wq # <<>> /\ wq' = Tail(wq)
  <2>1. \E j \in DOMAIN wq : wq'[k] = wq[j]
    BY <1>3, WriteTypes, TailElements
  <2>. QED
    BY <1>1, <2>1 DEF OnItsWay
<1>4. ASSUME NEW x, wq' = Append(wq, x), ~Brings(x, c) PROVE OnItsWay(c)
  <2>. DEFINE S == Txn \cup {x}
  <2>1. wq \in Seq(S) /\ x \in S
    BY WriteTypes
  <2>. HIDE DEF S
  <2>2. wq'[k] = x \/ \E j \in DOMAIN wq : wq'[k] = wq[j]
    BY <1>4, <2>1, AppendElements
  <2>. QED
    BY <1>1, <1>4, <2>2 DEF OnItsWay
<1>5. ASSUME NEW t \in Call, SendStep(t) PROVE OnItsWay(c)
  <2>1. PICK x : wq' = Append(wq, x) /\ x.conv = res[t].conv
    BY <1>5, SendersSubmit
  <2>2. ~Brings(x, c)
    BY <1>5, <2>1 DEF Brings
  <2>. QED
    BY <1>4, <2>1, <2>2
<1>6. ASSUME NEW t \in Call, FlushLocked(t) \/ CancelLocked(t) PROVE OnItsWay(c)
  <2>1. PICK got : Marking(t, got)
    BY <1>6, FlushTakes, CancelRecalls
  <2>2. ASSUME NEW x, x = Marks(t, got) PROVE ~Brings(x, c)
    BY <2>2 DEF Brings, Marks
  <2>. QED
    BY <1>2, <1>4, <2>1, <2>2 DEF Marking
<1>7. ASSUME NEW t \in Call, OperatorCloseLocked(t) PROVE OnItsWay(c)
  <2>1. PICK x : wq' = Append(wq, x) /\ x.kind = "status"
    BY <1>7 DEF OperatorCloseLocked, LeaveToWrite
  <2>2. ~Brings(x, c)
    BY <2>1 DEF Brings
  <2>. QED
    BY <1>4, <2>1, <2>2
<1>8. CASE Restart
  BY <1>1, <1>8 DEF Restart
<1>. QED
  BY <1>2, <1>3, <1>5, <1>6, <1>7, <1>8, DiskKinds
  DEF disk, NotifyLocked, Commit, ExpireDeadlines, CloseTTL, MessageGC

\* A message on its way stays there until the worker takes it.
LEMMA MessagesWait ==
  ASSUME IInv, [Next]_vars, "write_error" \notin Daemons, ~Restart,
         NEW c \in ConvId, ~BringsIt(c), OnItsWay(c)
  PROVE  OnItsWay(c)'
<1>1. PICK k \in DOMAIN wq : Brings(wq[k], c)
  BY DEF OnItsWay
<1>2. PICK x : x = wq[k] /\ Brings(x, c)
  BY <1>1
<1>3. CASE ~Commit
  <2>1. ~WriteError
    BY DEF WriteError
  <2>2. k \in DOMAIN wq' /\ wq'[k] = x
    BY <1>2, <1>3, <2>1, WritesWait
  <2>. QED
    BY <1>2, <2>2 DEF OnItsWay, Brings
<1>4. CASE Commit
  <2>1. wq # <<>> /\ wq' = Tail(wq)
    BY <1>4 DEF Commit
  <2>2. /\ Head(wq) = wq[1] /\ Len(wq) \in Nat \ {0} /\ DOMAIN wq = 1..Len(wq)
        /\ DOMAIN wq' = 1..(Len(wq) - 1)
        /\ \A j \in 1..(Len(wq) - 1) : wq'[j] = wq[j + 1]
    BY <2>1, WriteTypes, TailPlaces
  <2>3. k # 1
    BY <1>1, <1>4, <2>2 DEF BringsIt
  <2>4. k - 1 \in DOMAIN wq' /\ wq'[k - 1] = x
    BY <1>2, <2>2, <2>3
  <2>. QED
    BY <1>2, <2>4 DEF OnItsWay, Brings
<1>. QED
  BY <1>3, <1>4

\* What the worker writes.
LEMMA WorkerWrites ==
  ASSUME IInv, WritersOK, Commit, NEW c \in ConvId
  PROVE  /\ Head(wq).kind \in {"dispatch", "status", "marks"}
         /\ About(Head(wq), c) => Head(wq).status # "absent"
         /\ dbConv'[c] = IF /\ About(Head(wq), c) /\ Applied(Head(wq))
                            /\ HasConversation(Head(wq))
                           THEN Head(wq).status ELSE dbConv[c]
<1>1. PICK x : x = Head(wq)
  OBVIOUS
<1>2. x \in Txn /\ Proper(x)
  BY <1>1, FirstWrite DEF Commit, WritersOK
<1>3. dbConv' = IF x.kind # "marks" /\ HasConversation(x) /\ Applied(x)
                  THEN [dbConv EXCEPT ![x.conv] = x.status] ELSE dbConv
  BY <1>1 DEF Commit
<1>4. x.kind # "marks" => x.conv \in ConvId /\ x.status # "absent"
  BY <1>2 DEF Proper
<1>5. dbConv'[c] = IF About(x, c) /\ Applied(x) /\ HasConversation(x)
                     THEN x.status ELSE dbConv[c]
  <2>. HIDE DEF HasConversation, Applied
  <2>. QED
    BY <1>3, <1>4 DEF About, IInv, TypeOK
<1>. QED
  BY <1>1, <1>2, <1>4, <1>5 DEF Txn, About

\* A row is there from the time it is first written.
LEMMA RowsRemain ==
  ASSUME IInv, HistType, WritersOK, [Next]_vars, "write_error" \notin Daemons,
         NEW c \in ConvId, dbConv'[c] = "absent"
  PROVE  dbConv[c] = "absent"
<1>1. CASE Commit
  BY <1>1, WorkerWrites
<1>2. CASE CloseTTL
  BY <1>2 DEF CloseTTL
<1>3. ASSUME NEW t \in Call, SendStep(t) PROVE UNCHANGED dbConv
  BY <1>3, SendersSubmit
<1>. QED
  BY <1>1, <1>2, <1>3, DiskKinds DEF disk, FlushLocked, CancelLocked, NotifyLocked,
     OperatorCloseLocked, ExpireDeadlines, MessageGC, Restart

\* RowsFollow is kept.
LEMMA RowsFollowStay ==
  ASSUME IInv, OrderInv, HistType, ThreadsOK, WritersOK, SendsInOrder, RowsFollow,
         [Next]_vars, "write_error" \notin Daemons
  PROVE  RowsFollow'
<1>. SUFFICES ASSUME NEW c \in ConvId, conv'[c].status # "absent", dbConv'[c] = "absent"
              PROVE  (UnwrittenMessage(c) \/ OnItsWay(c))'
  BY DEF RowsFollow
<1>1. ~Restart
  BY DEF Restart, Absent
<1>2. dbConv[c] = "absent"
  BY RowsRemain
<1>3. ASSUME NEW t \in Call, SendStep(t), res[t].conv = c PROVE OnItsWay(c)'
  <2>1. PICK x : wq' = Append(wq, x) /\ x.kind = "dispatch" /\ x.conv = c
    BY <1>3, SendersSubmit
  <2>. DEFINE S == Txn \cup {x}
  <2>2. wq \in Seq(S) /\ x \in S
    BY WriteTypes
  <2>. HIDE DEF S
  <2>3. Len(wq) + 1 \in DOMAIN wq' /\ wq'[Len(wq) + 1] = x
    BY <2>1, <2>2, AppendPlaces
  <2>. QED
    BY <2>1, <2>3 DEF OnItsWay, Brings
<1>4. CASE conv[c].status # "absent"
  <2>1. BringsIt(c) => ~Applied(Head(wq))
    <3>1. BringsIt(c) /\ Applied(Head(wq)) => HasConversation(Head(wq))
      BY DEF BringsIt, Brings, Applied
    <3>. QED
      BY <3>1, WorkerWrites DEF BringsIt, Brings, About
  <2>2. UnwrittenMessage(c) \/ OnItsWay(c)
    BY <1>2, <1>4 DEF RowsFollow
  <2>3. CASE BringsIt(c)
    BY <2>1, <2>3, RefusedIsUnwritten
  <2>4. CASE ~BringsIt(c)
    BY <1>1, <2>2, <2>4, UnwrittenStays, MessagesWait
  <2>. QED
    BY <2>3, <2>4
<1>5. CASE conv[c].status = "absent"
  BY <1>1, <1>3, <1>5, ConvMoves DEF ConvMove, Founds, Absent
<1>. QED
  BY <1>4, <1>5

\* What a write changes about what was written last.
LEMMA LatestSubmitted ==
  ASSUME IInv, NEW x, wq' = Append(wq, x), UNCHANGED dbConv, NEW c, NEW s
  PROVE  /\ About(x, c) => Latest(c, x.status)'
         /\ ~About(x, c) /\ Latest(c, s) => Latest(c, s)'
<1>. DEFINE S == Txn \cup {x}
<1>1. wq \in Seq(S) /\ x \in S
  BY WriteTypes
<1>. HIDE DEF S
<1>2. /\ DOMAIN wq = 1..Len(wq) /\ Len(wq) \in Nat
      /\ DOMAIN wq' = 1..(Len(wq) + 1)
      /\ \A k \in 1..Len(wq) : wq'[k] = wq[k]
      /\ wq'[Len(wq) + 1] = x
  BY <1>1, AppendPlaces
<1>3. ASSUME About(x, c) PROVE Latest(c, x.status)'
  <2>1. /\ Len(wq) + 1 \in DOMAIN wq' /\ About(wq'[Len(wq) + 1], c)
        /\ \A j \in DOMAIN wq' : ~(j > Len(wq) + 1)
    BY <1>2, <1>3
  <2>. QED
    BY <1>2, <2>1 DEF Latest, About
<1>4. ASSUME ~About(x, c), Latest(c, s) PROVE Latest(c, s)'
  <2>1. \A j \in DOMAIN wq' : About(wq'[j], c) => j \in DOMAIN wq /\ wq'[j] = wq[j]
    BY <1>2, <1>4
  <2>2. ASSUME NEW k \in DOMAIN wq, About(wq[k], c), wq[k].status = s,
               \A j \in DOMAIN wq : j > k => ~About(wq[j], c)
        PROVE  Latest(c, s)'
    <3>1. k \in DOMAIN wq' /\ wq'[k] = wq[k]
      BY <1>2
    <3>2. \A j \in DOMAIN wq' : j > k => ~About(wq'[j], c)
      BY <2>1, <2>2
    <3>. QED
      BY <2>2, <3>1, <3>2 DEF Latest, About
  <2>3. ASSUME dbConv[c] = s, \A j \in DOMAIN wq : ~About(wq[j], c) PROVE Latest(c, s)'
    BY <2>1, <2>3 DEF Latest, About
  <2>. QED
    BY <1>4, <2>2, <2>3 DEF Latest
<1>. QED
  BY <1>3, <1>4

\* The worker takes the writes in their order; one that it could not apply is that
\* of a message, or about a conversation whose message it could not.
LEMMA LatestCommitted ==
  ASSUME IInv, OrderInv, WritersOK, SendsInOrder, RowsFollow, [Next]_vars,
         "write_error" \notin Daemons, ~Restart, Commit,
         NEW c \in ConvId, conv[c].status # "absent", NEW s, Latest(c, s)
  PROVE  (Latest(c, s) \/ Excused(c))'
<1>1. wq # <<>> /\ wq' = Tail(wq)
  BY DEF Commit
<1>2. /\ Head(wq) = wq[1] /\ Len(wq) \in Nat \ {0} /\ DOMAIN wq = 1..Len(wq)
      /\ DOMAIN wq' = 1..(Len(wq) - 1)
      /\ \A k \in 1..(Len(wq) - 1) : wq'[k] = wq[k + 1]
  BY <1>1, WriteTypes, TailPlaces
<1>. DEFINE w == wq[1]
            Done == Applied(w) /\ HasConversation(w)
<1>3. /\ w.kind \in {"dispatch", "status", "marks"}
      /\ dbConv'[c] = IF About(w, c) /\ Done THEN w.status ELSE dbConv[c]
  BY <1>2, WorkerWrites
<1>. HIDE DEF w, Done
<1>4. \A j \in DOMAIN wq' : j + 1 \in DOMAIN wq /\ wq'[j] = wq[j + 1]
  BY <1>2
<1>5. CASE dbConv[c] = s /\ \A j \in DOMAIN wq : ~About(wq[j], c)
  <2>1. ~About(w, c)
    BY <1>2, <1>5 DEF w
  <2>. QED
    BY <1>3, <1>4, <1>5, <2>1 DEF Latest, About
<1>6. ASSUME NEW k \in DOMAIN wq, About(wq[k], c), wq[k].status = s,
             \A j \in DOMAIN wq : j > k => ~About(wq[j], c)
      PROVE  (Latest(c, s) \/ Excused(c))'
  <2>1. CASE k = 1
    <3>1. \A j \in DOMAIN wq' : ~About(wq'[j], c)
      BY <1>2, <1>4, <1>6, <2>1
    <3>2. About(w, c) /\ w.status = s
      BY <1>6, <2>1 DEF w
    <3>3. CASE Done
      BY <1>3, <3>1, <3>2, <3>3 DEF Latest, About
    <3>4. CASE ~Done
      <4>1. UnwrittenMessage(c)'
        <5>1. CASE Brings(w, c)
          <6>1. BringsIt(c) /\ ~Applied(Head(wq))
            BY <1>2, <3>4, <5>1 DEF BringsIt, Done, w, Applied, Brings
          <6>. QED
            BY <6>1, RefusedIsUnwritten
        <5>2. CASE ~Brings(w, c)
          <6>1. w.kind = "status" /\ w.conv = c
            BY <1>3, <3>2, <5>2 DEF About, Brings
          <6>2. dbConv[c] = "absent"
            BY <3>4, <6>1 DEF Done, Applied, HasConversation
          <6>3. ~OnItsWay(c)
            BY <1>2, <1>6, <2>1, <5>2 DEF OnItsWay, Brings, About, w
          <6>4. UnwrittenMessage(c)
            BY <6>2, <6>3 DEF RowsFollow
          <6>5. ~BringsIt(c)
            BY <1>2, <5>2 DEF BringsIt, w
          <6>. QED
            BY <6>4, <6>5, UnwrittenStays
        <5>. QED
          BY <5>1, <5>2
      <4>2. ~OnItsWay(c)'
        BY <3>1 DEF OnItsWay, Brings, About
      <4>. QED
        BY <4>1, <4>2 DEF Excused
    <3>. QED
      BY <3>3, <3>4
  <2>2. CASE k # 1
    <3>1. k - 1 \in DOMAIN wq' /\ wq'[k - 1] = wq[k]
      BY <1>2, <2>2
    <3>2. \A j \in DOMAIN wq' : j > k - 1 => ~About(wq'[j], c)
      BY <1>2, <1>4, <1>6
    <3>. QED
      BY <1>6, <3>1, <3>2 DEF Latest, About
  <2>. QED
    BY <2>1, <2>2
<1>. QED
  BY <1>5, <1>6 DEF Latest

\* With no failed write a call that is over stays so, and one whose write is on
\* its way will be.
LEMMA WritersFinish ==
  ASSUME IInv, OrderInv, [Next]_vars, "write_error" \notin Daemons, ~Restart,
         NEW u \in Call, pc[u] \in {"mark", "done"}
  PROVE  /\ pc'[u] \in {pc[u], "done"}
         /\ req'[u] = req[u] /\ res'[u] = res[u]
<1>1. req'[u] = req[u] /\ res'[u] = res[u]
  BY GoesForth, LocalsStay DEF Forth, Started
<1>. SUFFICES pc'[u] \in {pc[u], "done"}
  BY <1>1
<1>2. ~Step(u)
  BY DEF Step, DispatchLocked, DispatchTurnedDown, BroadcastLocked,
     EmitLocked, TurnedDown, Resume, FlushLocked, WaitLocked, Woken, TimedOutLocked,
     Report, NotifyLocked, CancelLocked, ShutdownLocked, NextClosing,
     AllClosingsSent, CloseThreadLocked, OperatorCloseLocked, InLock
<1>3. ASSUME NEW t \in Call, Step(t) PROVE pc'[u] = pc[u]
  BY <1>2, <1>3, OthersStay DEF LetBe, Started
<1>4. CASE Enter
  <2>1. PICK t \in Call, r \in Requests : MayEnter(t) /\ EnterWith(t, r)
    BY <1>4 DEF Enter
  <2>2. u # t
    BY <2>1, NotYetStarted
  <2>3. pc'[u] = pc[u]
    BY <2>1, <2>2 DEF EnterWith, EnterDispatch, EnterReply, EnterBroadcast,
       EnterEmit, EnterMailbox, EnterCancel, EnterCloseThread, EnterOperatorClose,
       EnterShutdown, EndAtOnce, GoForLock, IInv, TypeOK
  <2>. QED
    BY <2>3
<1>5. CASE \E t \in Call : TimeOut(t)
  BY <1>5 DEF TimeOut, IInv, TypeOK
<1>6. CASE Commit
  <2>. DEFINE x == Head(wq)
  <2>1. wq # <<>> /\ pc[x.by] = AwaitedIn(x) /\ x.by \in Call /\ x \in Txn
    BY <1>6, FirstWrite DEF Commit, OrderInv, WritesAwaited
  <2>3. CASE u # x.by
    BY <1>6, <2>1, <2>3 DEF Commit, Answer, IInv, TypeOK
  <2>4. CASE u = x.by
    <3>1. x.kind = "marks" \/ x.kind = "status"
      BY <2>1, <2>4 DEF AwaitedIn, Txn
    <3>2. \A y : y.kind = "marks" \/ y.kind = "status" => Applied(y)
      BY DEF Applied
    <3>3. PICK ok \in BOOLEAN : ok /\ Answer(x, ok)
      <4>1. Applied(x) = TRUE
        BY <3>1, <3>2 DEF Applied
      <4>. QED
        BY <1>6, <4>1 DEF Commit
    <3>. HIDE DEF x
    <3>4. pc' = [pc EXCEPT ![x.by] = "done"]
      BY <3>1, <3>3 DEF Answer
    <3>. QED
      BY <2>1, <2>4, <3>4 DEF IInv, TypeOK
  <2>. QED
    BY <2>3, <2>4
<1>7. CASE ExpireDeadlines \/ CloseTTL \/ MessageGC \/ Rest \/ UNCHANGED vars
  BY <1>7 DEF ExpireDeadlines, CloseTTL, MessageGC, Rest, vars, tasks
<1>. QED
  BY <1>1, <1>3, <1>4, <1>5, <1>6, <1>7 DEF Next, WriteError

\* An exception lasts as long as the state it is about, and no new message is.
LEMMA ExcusesStay ==
  ASSUME IInv, OrderInv, WritersOK, SendsInOrder, [Next]_vars,
         "write_error" \notin Daemons, ~Restart, NEW c \in ConvId,
         conv'[c].born = conv[c].born, OnItsWay(c)' => OnItsWay(c), Excused(c)
  PROVE  Excused(c)'
<1>1. ASSUME NEW t \in Call, pc[t] = "done", req[t].op = "close_thread",
             res[t].conv = c, res[t].born = conv[c].born
      PROVE  UnwrittenClosing(c)'
  <2>1. pc'[t] = "done" /\ req'[t] = req[t] /\ res'[t] = res[t]
    BY <1>1, WritersFinish
  <2>. QED
    BY <1>1, <2>1 DEF UnwrittenClosing
<1>2. ASSUME NEW t \in Call, pc[t] \in {"mark", "done"}, req[t].op = "operator_close",
             res[t].conv = c, res[t].born < conv[c].born, conv[c].born < t
      PROVE  MisplacedClosing(c)'
  <2>1. pc'[t] \in {"mark", "done"} /\ req'[t] = req[t] /\ res'[t] = res[t]
    BY <1>2, WritersFinish
  <2>. QED
    BY <1>2, <2>1 DEF MisplacedClosing
<1>3. ASSUME UnwrittenMessage(c), ~OnItsWay(c) PROVE UnwrittenMessage(c)' /\ ~OnItsWay(c)'
  <2>1. ~BringsIt(c)
    BY <1>3, FirstWrite DEF BringsIt, Commit, OnItsWay
  <2>. QED
    BY <1>3, <2>1, UnwrittenStays
<1>. QED
  BY <1>1, <1>2, <1>3 DEF Excused, UnwrittenClosing, MisplacedClosing

\* BornBefore is kept: whoever puts a new state there has the lock, and the
\* others that wait for their turn are later calls.
LEMMA BornBeforeStays ==
  ASSUME IInv, OrderInv, ThreadsOK, StartedInOrder, InTurn, BornBefore, [Next]_vars
  PROVE  BornBefore'
<1>. SUFFICES ASSUME NEW t \in Call, TakesTurn(t)'
              PROVE  /\ \A c \in ConvId : conv'[c].born < t
                     /\ req'[t].op = "operator_close" =>
                          res'[t].born <= conv'[res'[t].conv].born
  BY DEF BornBefore
<1>1. pc'[t] = "lock" /\ req'[t].op # "close_thread" /\ t \in Nat /\ t > 0
  BY MaxCallsAssumption DEF TakesTurn, Call
<1>2. \A c \in ConvId : conv[c].born \in Nat
  BY MaxCallsAssumption DEF IInv, TypeOK, ConvState
<1>3. CASE pc[t] = "idle"
  <2>1. LetIn(t) /\ conv' = conv
    BY <1>1, <1>3, NewcomersAreLetIn DEF convs
  <2>2. ASSUME NEW c \in ConvId PROVE conv[c].born < t
    <3>1. CASE conv[c].status = "absent"
      BY <1>1, <3>1 DEF ThreadsOK, BornOK
    <3>2. CASE conv[c].status # "absent"
      <4>. DEFINE s == conv[c].born
      <4>1. s \in Call /\ Past(s)
        BY <3>2 DEF ThreadsOK, BornOK
      <4>. HIDE DEF s
      <4>2. Started(s) /\ s # t
        BY <1>3, <4>1 DEF Past, PastStages, Finished, Started
      <4>3. pc'[s] # "idle"
        BY <4>1, <4>2, GoesForth DEF Forth
      <4>4. s < t
        BY <1>1, <1>3, <4>1, <4>2, <4>3, NewcomersAreLast
      <4>. QED
        BY <4>4 DEF s
    <3>. QED
      BY <3>1, <3>2
  <2>3. req'[t].op = "operator_close" => res'[t].born = conv'[res'[t].conv].born
    BY <2>1 DEF LetIn
  <2>4. req'[t].op = "operator_close" => res'[t].conv \in ConvId
    <3>1. IInv'
      BY NextIInv
    <3>. QED
      BY <1>1, <3>1 DEF IInv, CallsOK, CallOK, Started, InvolvesConv
  <2>. QED
    BY <1>2, <2>1, <2>2, <2>3, <2>4
<1>4. CASE TakesTurn(t)
  <2>1. /\ pc[t] = "lock" /\ req[t].op # "close_thread"
        /\ res'[t] = res[t] /\ req'[t] = req[t]
    BY <1>4, LocalsStay, GoesForth DEF TakesTurn, Forth, Started
  <2>2. ASSUME NEW c \in ConvId, NEW u \in Call, Founds(u, c)
        PROVE  u < t /\ conv'[c].born = u /\ conv[c].born < u
    <3>1. /\ SendStep(u) /\ pc[u] = "lock" /\ pc'[u] = "write"
          /\ Onward(NewState(u), conv'[c])
      BY <2>2 DEF Founds
    <3>2. conv'[c].born = u
      BY <3>1 DEF Onward, Later, NewState
    <3>3. TakesTurn(u) /\ lockQ # <<>> /\ Head(lockQ) = u
      BY <3>1 DEF SendStep, DispatchLocked, BroadcastLocked, EmitLocked, InLock, HasLock,
         TakesTurn
    <3>4. PICK k \in DOMAIN lockQ : lockQ[k] = t
      BY <2>1 DEF OrderInv, LineOK, InLine, Asking
    <3>5. /\ DOMAIN lockQ = 1..Len(lockQ) /\ Len(lockQ) \in Nat \ {0} /\ lockQ[1] = u
      BY <3>3, TailPlaces DEF IInv, TypeOK
    <3>6. u # t
      BY <1>1, <3>1
    <3>7. 1 \in DOMAIN lockQ /\ 1 < k
      BY <3>4, <3>5, <3>6
    <3>8. u < t
      BY <1>4, <3>3, <3>4, <3>5, <3>7 DEF InTurn
    <3>. QED
      BY <3>2, <3>3, <3>8 DEF BornBefore
  <2>3. ASSUME NEW c \in ConvId PROVE conv'[c].born < t
    BY <1>1, <1>4, <2>2, ConvMoves DEF BornBefore, ConvMove, Onward, Later, Absent
  <2>4. ASSUME req[t].op = "operator_close"
        PROVE  res[t].born <= conv'[res[t].conv].born
    <3>. DEFINE c == res[t].conv
    <3>1. c \in ConvId /\ res[t].born \in Nat /\ res[t].born <= conv[c].born
      BY <1>4, <2>1, <2>4, MaxCallsAssumption DEF BornBefore, IInv, TypeOK, Local,
         CallsOK, CallOK, Started, InvolvesConv
    <3>2. MessageGC \/ Restart => conv'[c] = conv[c]
      <4>1. ~Restart
        BY <1>1, <2>1 DEF Restart, Waiting
      <4>2. c \in InUse
        BY <2>1 DEF InUse, Waiting
      <4>. QED
        BY <3>1, <4>1, <4>2 DEF MessageGC
    <3>3. ConvMove(c)
      BY <3>1, ConvMoves
    <3>4. ASSUME NEW u \in Call, Founds(u, c) PROVE res[t].born <= conv'[c].born
      <4>1. conv'[c].born = u /\ conv[c].born < u
        BY <2>2, <3>1, <3>4
      <4>2. u \in Nat
        BY MaxCallsAssumption DEF Call
      <4>. QED
        BY <1>2, <3>1, <4>1, <4>2
    <3>5. conv'[c] = conv[c] \/ Onward(conv[c], conv'[c]) => res[t].born <= conv'[c].born
      BY <3>1 DEF Onward, Later
    <3>. QED
      BY <3>2, <3>3, <3>4, <3>5 DEF ConvMove
  <2>. QED
    BY <2>1, <2>3, <2>4
<1>. QED
  BY <1>1, <1>3, <1>4, AskersStay

\* A conversation that a step leaves alone agrees as it did, if what was written
\* last about it is the same and no message into it was sent.
LEMMA LeftAlone ==
  ASSUME IInv, OrderInv, WritersOK, SendsInOrder, StatusFollows, [Next]_vars,
         "write_error" \notin Daemons, ~Restart,
         NEW c \in ConvId, conv'[c] = conv[c], conv'[c].status # "absent",
         OnItsWay(c)' => OnItsWay(c),
         \A s \in Status : Latest(c, s) => (Latest(c, s) \/ Excused(c))'
  PROVE  (Latest(c, conv[c].status) \/ Excused(c))'
<1>1. PICK s \in Status : s = conv[c].status
  BY DEF IInv, TypeOK, ConvState
<1>2. Latest(c, s) \/ Excused(c)
  BY <1>1 DEF StatusFollows
<1>3. CASE Latest(c, s)
  <2>1. (Latest(c, s) \/ Excused(c))'
    BY <1>3
  <2>. QED
    BY <1>1, <2>1 DEF Latest
<1>4. CASE Excused(c)
  BY <1>4, ExcusesStay
<1>. QED
  BY <1>2, <1>3, <1>4

\* A message or a close by the operator writes the status that it leaves behind,
\* unless the close is misplaced.
LEMMA WritersFollow ==
  ASSUME IInv, OrderInv, HistType, ThreadsOK, WritersOK, SendsInOrder, BornBefore,
         StatusFollows, [Next]_vars, "write_error" \notin Daemons, ~Restart,
         NEW t \in Call, SendStep(t) \/ OperatorCloseLocked(t),
         NEW c \in ConvId, conv'[c].status # "absent"
  PROVE  (Latest(c, conv[c].status) \/ Excused(c))'
<1>. DEFINE d == res[t].conv
<1>1. PICK x : /\ wq' = Append(wq, x) /\ x.kind # "marks" /\ x.conv = d
               /\ UNCHANGED dbConv
               /\ SendStep(t) => x.status = conv'[d].status
               /\ OperatorCloseLocked(t) => x.status = "closed"
  <2>1. CASE SendStep(t)
    <3>1. ~OperatorCloseLocked(t)
      BY <2>1 DEF OperatorCloseLocked, SendStep, DispatchLocked, BroadcastLocked,
         EmitLocked, InLock
    <3>2. PICK x : /\ wq' = Append(wq, x) /\ x.kind = "dispatch" /\ x.conv = d
                   /\ x.status = conv'[d].status /\ UNCHANGED dbConv
      BY <2>1, SendersSubmit
    <3>. QED
      BY <3>1, <3>2
  <2>2. CASE OperatorCloseLocked(t)
    <3>1. ~SendStep(t)
      BY <2>2 DEF OperatorCloseLocked, SendStep, DispatchLocked, BroadcastLocked,
         EmitLocked, InLock
    <3>. QED
      BY <2>2, <3>1 DEF OperatorCloseLocked, LeaveToWrite
  <2>. QED
    BY <2>1, <2>2
<1>2. \A s : /\ About(x, c) => Latest(c, x.status)'
             /\ ~About(x, c) /\ Latest(c, s) => Latest(c, s)'
  BY <1>1, LatestSubmitted
<1>3. d \in ConvId /\ pc[t] = "lock"
  <2>1. CASE SendStep(t)
    BY <2>1, SendersGoOnward
  <2>2. CASE OperatorCloseLocked(t)
    BY <2>2 DEF OperatorCloseLocked, InLock, IInv, CallsOK, CallOK, Started, InvolvesConv
  <2>. QED
    BY <2>1, <2>2
<1>4. CASE c # d
  <2>1. conv'[c] = conv[c]
    <3>1. CASE SendStep(t)
      <4>1. PICK state : Record(t, state)
        BY <3>1, SendersGoOnward
      <4>. QED
        BY <1>3, <1>4, <4>1 DEF Record, IInv, TypeOK
    <3>2. CASE OperatorCloseLocked(t)
      BY <1>3, <1>4, <3>2 DEF OperatorCloseLocked, IInv, TypeOK
    <3>. QED
      BY <3>1, <3>2
  <2>2. \A s \in Status : Latest(c, s) => Latest(c, s)'
    BY <1>1, <1>2, <1>4 DEF About
  <2>3. OnItsWay(c)' => OnItsWay(c)
    <3>1. SendStep(t) \/ OperatorCloseLocked(t)
      OBVIOUS
    <3>2. \A u \in Call : SendStep(u) => u = t
      BY <3>1 DEF OperatorCloseLocked, SendStep, DispatchLocked, BroadcastLocked,
         EmitLocked, InLock, HasLock
    <3>. QED
      BY <1>4, <3>2, MessagesCome
  <2>. QED
    BY <2>1, <2>2, <2>3, LeftAlone
<1>5. CASE c = d /\ conv'[c].status = x.status
  <2>1. Latest(c, x.status)'
    BY <1>1, <1>2, <1>5 DEF About
  <2>. QED
    BY <1>5, <2>1 DEF Latest
<1>6. CASE c = d /\ conv'[c].status # x.status
  <2>1. OperatorCloseLocked(t) /\ conv'[c].status # "closed"
    BY <1>1, <1>6
  <2>2. /\ req[t].op = "operator_close" /\ ~Captured(t)
        /\ conv' = conv /\ res' = res /\ req' = req /\ pc'[t] = "mark"
    BY <1>3, <1>6, <2>1 DEF OperatorCloseLocked, InLock, LeaveToWrite, Leave, IInv, TypeOK
  <2>3. /\ res[t].born <= conv[c].born /\ res[t].born # conv[c].born
        /\ conv[c].born < t
    BY <1>3, <1>6, <2>2 DEF BornBefore, TakesTurn, Captured
  <2>4. res[t].born < conv[c].born
    BY <1>3, <1>6, <2>3, MaxCallsAssumption DEF IInv, TypeOK, Local, ConvState
  <2>5. MisplacedClosing(c)'
    BY <1>6, <2>2, <2>3, <2>4 DEF MisplacedClosing
  <2>. QED
    BY <2>5 DEF Excused
<1>. QED
  BY <1>4, <1>5, <1>6

\* The last step of close_thread writes nothing, which is its exception.
LEMMA CloserIsExcused ==
  ASSUME IInv, OrderInv, WritersOK, SendsInOrder, StatusFollows, [Next]_vars,
         "write_error" \notin Daemons, ~Restart,
         NEW t \in Call, CloseThreadLocked(t),
         NEW c \in ConvId, conv'[c].status # "absent"
  PROVE  (Latest(c, conv[c].status) \/ Excused(c))'
<1>. DEFINE d == res[t].conv
            s == PartyCloses(conv[d], req[t].src)
<1>1. /\ pc[t] = "lock" /\ req[t].op = "close_thread" /\ UNCHANGED disk
      /\ conv' = IF Captured(t) THEN [conv EXCEPT ![d] = s] ELSE conv
      /\ res' = res /\ req' = req /\ pc'[t] = "done"
  BY DEF CloseThreadLocked, InLock, Leave, IInv, TypeOK
<1>2. d \in ConvId
  BY <1>1 DEF IInv, CallsOK, CallOK, Started, InvolvesConv
<1>3. conv[d].born = s.born
  <2>1. conv[d] \in ConvState
    BY <1>2 DEF IInv, TypeOK
  <2>. QED
    BY <2>1 DEF PartyCloses, MaybeClose, ConvState
<1>. HIDE DEF s
<1>4. CASE Captured(t) /\ c = d
  <2>1. conv'[c].born = res[t].born
    BY <1>1, <1>2, <1>3, <1>4 DEF Captured, IInv, TypeOK
  <2>2. UnwrittenClosing(c)'
    BY <1>1, <1>4, <2>1 DEF UnwrittenClosing
  <2>. QED
    BY <2>2 DEF Excused
<1>5. CASE ~(Captured(t) /\ c = d)
  <2>1. conv'[c] = conv[c]
    BY <1>1, <1>5 DEF IInv, TypeOK
  <2>2. \A r \in Status : Latest(c, r) => Latest(c, r)'
    BY <1>1 DEF Latest, disk
  <2>3. OnItsWay(c)' => OnItsWay(c)
    BY <1>1 DEF OnItsWay, disk
  <2>. QED
    BY <2>1, <2>2, <2>3, LeftAlone
<1>. QED
  BY <1>4, <1>5

\* The TTL sweep closes in memory and on disk what is quiet and half closed.
LEMMA SweptFollow ==
  ASSUME IInv, OrderInv, WritersOK, SendsInOrder, StatusFollows, [Next]_vars,
         "write_error" \notin Daemons, ~Restart,
         CloseTTL, NEW c \in ConvId, conv'[c].status # "absent"
  PROVE  (Latest(c, conv[c].status) \/ Excused(c))'
<1>1. PICK old \in SUBSET Quiet :
        /\ conv'[c] = IF c \in old /\ conv[c].status = "half_closed"
                        THEN [conv[c] EXCEPT !.status = "closed"] ELSE conv[c]
        /\ dbConv'[c] = IF c \in old /\ dbConv[c] = "half_closed"
                          THEN "closed" ELSE dbConv[c]
        /\ UNCHANGED wq
  BY DEF CloseTTL
<1>2. conv[c].status # "absent" /\ conv'[c].born = conv[c].born
  BY <1>1 DEF IInv, TypeOK, ConvState
<1>3. CASE Excused(c)
  <2>1. OnItsWay(c)' => OnItsWay(c)
    BY <1>1 DEF OnItsWay
  <2>. QED
    BY <1>2, <1>3, <2>1, ExcusesStay
<1>4. CASE Latest(c, conv[c].status) /\ c \notin old
  <2>1. conv'[c] = conv[c] /\ dbConv'[c] = dbConv[c] /\ wq' = wq
    BY <1>1, <1>4
  <2>. QED
    BY <1>4, <2>1 DEF Latest
<1>5. CASE Latest(c, conv[c].status) /\ c \in old
  <2>1. \A k \in DOMAIN wq : ~About(wq[k], c)
    BY <1>5 DEF Quiet, About
  <2>2. dbConv[c] = conv[c].status
    BY <1>5, <2>1 DEF Latest
  <2>3. dbConv'[c] = conv'[c].status
    BY <1>1, <1>5, <2>2 DEF IInv, TypeOK, ConvState
  <2>. QED
    BY <1>1, <2>1, <2>3 DEF Latest
<1>. QED
  BY <1>2, <1>3, <1>4, <1>5 DEF StatusFollows

\* Every step but these leaves the conversations alone, and what was written last.
LEMMA OthersLeaveAlone ==
  ASSUME IInv, OrderInv, HistType, WritersOK, SendsInOrder, RowsFollow, [Next]_vars,
         "write_error" \notin Daemons, ~Restart,
         ~CloseTTL, NEW c \in ConvId, conv'[c].status # "absent",
         \A t \in Call : ~(SendStep(t) \/ OperatorCloseLocked(t) \/ CloseThreadLocked(t))
  PROVE  /\ conv'[c] = conv[c]
         /\ OnItsWay(c)' => OnItsWay(c)
         /\ \A s \in Status : Latest(c, s) => (Latest(c, s) \/ Excused(c))'
<1>1. conv'[c] = conv[c]
  <2>1. CASE MessageGC
    BY <2>1 DEF MessageGC, Absent
  <2>2. CASE Enter
    BY <2>2 DEF Enter, EnterWith, EnterDispatch, EnterReply, EnterBroadcast,
       EnterEmit, EnterMailbox, EnterCancel, EnterCloseThread, EnterOperatorClose,
       EnterShutdown, convs
  <2>3. ASSUME NEW t \in Call, Step(t) PROVE conv' = conv
    BY <2>3 DEF Step, SendStep, DispatchTurnedDown, TurnedDown, Resume, FlushLocked,
       WaitLocked, Woken, TimedOutLocked, Report, NotifyLocked, CancelLocked,
       ShutdownLocked, NextClosing, AllClosingsSent, convs
  <2>. QED
    BY <2>1, <2>2, <2>3 DEF Next, TimeOut, Commit, WriteError, ExpireDeadlines, Rest,
       vars, convs
<1>0. OnItsWay(c)' => OnItsWay(c)
  BY MessagesCome
<1>. SUFFICES ASSUME NEW s \in Status, Latest(c, s) PROVE (Latest(c, s) \/ Excused(c))'
  BY <1>0, <1>1
<1>2. CASE UNCHANGED <<wq, dbConv>>
  BY <1>2 DEF Latest
<1>3. CASE Commit
  BY <1>1, <1>3, LatestCommitted
<1>4. ASSUME NEW t \in Call, FlushLocked(t) \/ CancelLocked(t)
      PROVE  (Latest(c, s) \/ Excused(c))'
  <2>1. PICK got : Marking(t, got)
    BY <1>4, FlushTakes, CancelRecalls
  <2>2. CASE wq' = Append(wq, Marks(t, got))
    <3>1. ~About(Marks(t, got), c) /\ UNCHANGED dbConv
      BY <2>1 DEF About, Marks, Marking
    <3>2. PICK x : x = Marks(t, got)
      OBVIOUS
    <3>. QED
      BY <2>2, <3>1, <3>2, LatestSubmitted
  <2>. QED
    BY <1>2, <2>1, <2>2 DEF Marking
<1>. QED
  BY <1>1, <1>2, <1>3, <1>4, DiskKinds DEF disk, NotifyLocked, ExpireDeadlines, MessageGC

\* StatusFollows is kept.
LEMMA StatusStays ==
  ASSUME IInv, OrderInv, HistType, ThreadsOK, WritersOK, SendsInOrder, BornBefore,
         RowsFollow, StatusFollows, [Next]_vars, "write_error" \notin Daemons
  PROVE  StatusFollows'
<1>. SUFFICES ASSUME NEW c \in ConvId, conv'[c].status # "absent"
              PROVE  (Latest(c, conv[c].status) \/ Excused(c))'
  BY DEF StatusFollows
<1>1. ~Restart
  BY DEF Restart, Absent
<1>2. CASE \E t \in Call : SendStep(t) \/ OperatorCloseLocked(t)
  BY <1>1, <1>2, WritersFollow
<1>3. CASE \E t \in Call : CloseThreadLocked(t)
  BY <1>1, <1>3, CloserIsExcused
<1>4. CASE CloseTTL
  BY <1>1, <1>4, SweptFollow
<1>5. CASE /\ ~CloseTTL
           /\ \A t \in Call :
                ~(SendStep(t) \/ OperatorCloseLocked(t) \/ CloseThreadLocked(t))
  <2>1. /\ conv'[c] = conv[c]
        /\ OnItsWay(c)' => OnItsWay(c)
        /\ \A s \in Status : Latest(c, s) => (Latest(c, s) \/ Excused(c))'
    BY <1>1, <1>5, OthersLeaveAlone
  <2>. QED
    BY <1>1, <2>1, LeftAlone
<1>. QED
  BY <1>2, <1>3, <1>4, <1>5

\* With no failed write, whenever the write queue is empty every conversation in
\* memory has its status on disk, but for a close_thread's own closing, for a close
\* by the operator that another call overtook, and for a conversation whose last
\* message was refused by the tables.
THEOREM StatusIsOnDisk ==
  ASSUME "write_error" \notin Daemons
  PROVE  Spec => []StatusAgrees
<1>1. Init => StatusOK
  <2>. SUFFICES ASSUME Init PROVE StatusOK
    OBVIOUS
  <2>1. (\A t \in Call : pc[t] = "idle") /\ \A c \in ConvId : conv[c].status = "absent"
    BY DEF Init, Absent
  <2>. QED
    BY <2>1 DEF StatusOK, SendsInOrder, SendersInPlace, SentFirst, WrittenFirst, IsSender,
       HasSent, HasWritten, Started, SenderAsks, BornBefore, RowsFollow, StatusFollows,
       TakesTurn
<1>2. /\ IInv /\ OrderInv /\ PostOK /\ ThreadsOK /\ ReceiversOK /\ WritersOK /\ StatusOK
      /\ [Next]_vars
      => StatusOK'
  BY PlacesStay, SentFirstStays, WrittenFirstStays, BornBeforeStays, RowsFollowStay,
     StatusStays DEF StatusOK, SendsInOrder, ReceiversOK, TurnsOK, PostOK
<1>3. StatusOK => StatusAgrees
  <2>. SUFFICES ASSUME StatusFollows, wq = <<>>, NEW c \in ConvId,
                       conv[c].status # "absent"
                PROVE  \/ dbConv[c] = conv[c].status
                       \/ UnwrittenClosing(c)
                       \/ MisplacedClosing(c)
                       \/ UnwrittenMessage(c)
    BY DEF StatusOK, StatusAgrees
  <2>. QED
    BY DEF StatusFollows, Latest, Excused
<1>. QED
  BY <1>1, <1>2, <1>3, InvariantHolds, OrderHolds, PostHolds, ThreadsHold,
     ReceiversHold, WritersHold, PTL
  DEF Spec
===============================================================================
