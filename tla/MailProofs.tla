------------------------------- MODULE MailProofs -------------------------------
(***************************************************************************)
(* The order of the broker's lock, and four promises of its bookkeeping    *)
(* that rest on it or on the invariant of DispatcherProofs: senders        *)
(* exclude one another, nobody is stuck, no long-poll sleeps over mail,    *)
(* and no worker is waited for without a deadline.                         *)
(***************************************************************************)
EXTENDS DispatcherProofs

(***************************************************************************)
(* The line for the lock.  Its first member holds the lock.  LineOK says   *)
(* that the line has exactly the calls that hold the lock or ask for it,   *)
(* each once, and that only its first member may be inside a critical      *)
(* section that awaits.  It is preserved together with two facts about     *)
(* who moves whom: a transaction in the write queue is awaited by its call *)
(* alone, and a close_thread waits for the dispatch it has made.           *)
(***************************************************************************)
Asking == {"lock", "timedout", "report"}
InLine == Asking \cup {"write", "written", "unwritten"}

LineOK ==
  /\ \A j, k \in DOMAIN lockQ : lockQ[j] = lockQ[k] => j = k
  /\ \A k \in DOMAIN lockQ : pc[lockQ[k]] \in InLine
  /\ \A k \in DOMAIN lockQ : k # 1 => pc[lockQ[k]] \in Asking
  /\ \A t \in Call : pc[t] \in InLine => \E k \in DOMAIN lockQ : lockQ[k] = t

AwaitedIn(x) == IF x.kind = "dispatch" THEN "write" ELSE "mark"
WritesAwaited ==
  /\ \A k \in DOMAIN wq : pc[wq[k].by] = AwaitedIn(wq[k])
  /\ \A j, k \in DOMAIN wq : wq[j].by = wq[k].by => j = k

Active == {"lock", "write", "written", "unwritten"}
ChildOf(t, p) == p # 0 /\ res[t].parent = p /\ pc[t] \in Active
ParentsWait ==
  /\ \A t \in Call : pc[t] = "loop" => res[t].parent = 0
  /\ \A t, p \in Call : ChildOf(t, p) => pc[p] = "loop" /\ running # p
  /\ \A t, u, p \in Call : ChildOf(t, p) /\ ChildOf(u, p) => t = u

OrderInv == LineOK /\ WritesAwaited /\ ParentsWait

\* what of another call's pc is of no concern to the line
Aside(u) == pc'[u] = pc[u] \/ (pc[u] \notin InLine /\ pc'[u] \notin InLine)

\* The place of an element after Append.
LEMMA AppendPlaces ==
  ASSUME NEW S, NEW s \in Seq(S), NEW x \in S
  PROVE  /\ Append(s, x) \in Seq(S)
         /\ DOMAIN s = 1..Len(s) /\ Len(s) \in Nat
         /\ DOMAIN Append(s, x) = 1..(Len(s) + 1)
         /\ \A k \in 1..Len(s) : Append(s, x)[k] = s[k]
         /\ Append(s, x)[Len(s) + 1] = x
BY AppendProperties

\* The place of an element after Tail.
LEMMA TailPlaces ==
  ASSUME NEW S, NEW s \in Seq(S), s # <<>>
  PROVE  /\ Tail(s) \in Seq(S)
         /\ Len(s) \in Nat \ {0} /\ DOMAIN s = 1..Len(s) /\ Head(s) = s[1]
         /\ DOMAIN Tail(s) = 1..(Len(s) - 1) /\ Len(Tail(s)) = Len(s) - 1
         /\ \A k \in 1..(Len(s) - 1) : Tail(s)[k] = s[k + 1]
<1>1. /\ Tail(s) \in Seq(S) /\ Len(Tail(s)) = Len(s) - 1
      /\ \A i \in 1..Len(Tail(s)) : Tail(s)[i] = s[i + 1]
  BY HeadTailProperties
<1>2. Len(s) \in Nat \ {0} /\ DOMAIN s = 1..Len(s) /\ Head(s) = s[1]
  OBVIOUS
<1>. QED
  BY <1>1, <1>2

\* A call that was not in line goes to its end.
LEMMA JoinsLine ==
  ASSUME IInv, LineOK, NEW t \in Call, pc[t] \notin InLine,
         lockQ' = Append(lockQ, t), pc'[t] \in Asking,
         \A u \in Call \ {t} : Aside(u)
  PROVE  LineOK'
<1>1. lockQ \in Seq(Call)
  BY DEF IInv, TypeOK
<1>2. /\ DOMAIN lockQ = 1..Len(lockQ) /\ Len(lockQ) \in Nat
      /\ DOMAIN lockQ' = 1..(Len(lockQ) + 1)
      /\ \A k \in 1..Len(lockQ) : lockQ'[k] = lockQ[k]
      /\ lockQ'[Len(lockQ) + 1] = t
  BY <1>1, AppendPlaces
<1>3. \A k \in DOMAIN lockQ : lockQ[k] \in Call \ {t} /\ pc'[lockQ[k]] = pc[lockQ[k]]
  BY <1>1 DEF LineOK, Aside
<1>4. \A j, k \in DOMAIN lockQ' : lockQ'[j] = lockQ'[k] => j = k
  BY <1>2, <1>3 DEF LineOK
<1>5. \A k \in DOMAIN lockQ' : pc'[lockQ'[k]] \in InLine /\ (k # 1 => pc'[lockQ'[k]] \in Asking)
  BY <1>2, <1>3 DEF LineOK, InLine
<1>6. ASSUME NEW u \in Call, pc'[u] \in InLine
      PROVE  \E k \in DOMAIN lockQ' : lockQ'[k] = u
  BY <1>2, <1>6 DEF LineOK, Aside
<1>. QED
  BY <1>4, <1>5, <1>6 DEF LineOK

\* The first in line goes away.
LEMMA LeavesLine ==
  ASSUME IInv, LineOK, NEW t \in Call, lockQ # <<>>, Head(lockQ) = t,
         lockQ' = Tail(lockQ), pc'[t] \notin InLine,
         \A u \in Call \ {t} : Aside(u)
  PROVE  LineOK'
<1>1. lockQ \in Seq(Call)
  BY DEF IInv, TypeOK
<1>2. /\ Len(lockQ) \in Nat \ {0} /\ DOMAIN lockQ = 1..Len(lockQ) /\ lockQ[1] = t
      /\ DOMAIN lockQ' = 1..(Len(lockQ) - 1)
      /\ \A k \in 1..(Len(lockQ) - 1) : lockQ'[k] = lockQ[k + 1]
  BY <1>1, TailPlaces
<1>3. \A k \in 2..Len(lockQ) : lockQ[k] \in Call \ {t} /\ pc'[lockQ[k]] = pc[lockQ[k]]
  BY <1>1, <1>2 DEF LineOK, Aside
<1>4. \A j, k \in DOMAIN lockQ' : lockQ'[j] = lockQ'[k] => j = k
  BY <1>2 DEF LineOK
<1>5. \A k \in DOMAIN lockQ' : pc'[lockQ'[k]] \in Asking
  BY <1>2, <1>3 DEF LineOK
<1>6. ASSUME NEW u \in Call, pc'[u] \in InLine
      PROVE  \E k \in DOMAIN lockQ' : lockQ'[k] = u
  <2>1. u # t /\ pc[u] \in InLine
    BY <1>6 DEF Aside
  <2>2. PICK k \in DOMAIN lockQ : lockQ[k] = u
    BY <2>1 DEF LineOK
  <2>3. k # 1 /\ k - 1 \in DOMAIN lockQ' /\ lockQ'[k - 1] = u
    BY <1>2, <2>1, <2>2
  <2>. QED
    BY <2>3
<1>. QED
  BY <1>4, <1>5, <1>6 DEF LineOK, InLine

\* The first in line goes back to its end.
LEMMA RejoinsLine ==
  ASSUME IInv, LineOK, NEW t \in Call, lockQ # <<>>, Head(lockQ) = t,
         lockQ' = Append(Tail(lockQ), t), pc'[t] \in Asking,
         \A u \in Call \ {t} : Aside(u)
  PROVE  LineOK'
<1>1. lockQ \in Seq(Call)
  BY DEF IInv, TypeOK
<1>2. /\ Tail(lockQ) \in Seq(Call) /\ Len(Tail(lockQ)) = Len(lockQ) - 1
      /\ Len(lockQ) \in Nat \ {0} /\ DOMAIN lockQ = 1..Len(lockQ) /\ lockQ[1] = t
      /\ \A k \in 1..(Len(lockQ) - 1) : Tail(lockQ)[k] = lockQ[k + 1]
  BY <1>1, TailPlaces
<1>3. /\ DOMAIN lockQ' = 1..Len(lockQ)
      /\ \A k \in 1..(Len(lockQ) - 1) : lockQ'[k] = lockQ[k + 1]
      /\ lockQ'[Len(lockQ)] = t
  BY <1>2, AppendPlaces
<1>4. \A k \in 2..Len(lockQ) : lockQ[k] \in Call \ {t} /\ pc'[lockQ[k]] = pc[lockQ[k]]
  BY <1>1, <1>2 DEF LineOK, Aside
<1>5. \A j, k \in DOMAIN lockQ' : lockQ'[j] = lockQ'[k] => j = k
  BY <1>2, <1>3, <1>4 DEF LineOK
<1>6. \A k \in DOMAIN lockQ' : pc'[lockQ'[k]] \in Asking
  BY <1>2, <1>3, <1>4 DEF LineOK
<1>7. ASSUME NEW u \in Call, pc'[u] \in InLine
      PROVE  \E k \in DOMAIN lockQ' : lockQ'[k] = u
  <2>1. CASE u = t
    BY <1>2, <1>3, <2>1
  <2>2. CASE u # t
    <3>1. PICK k \in DOMAIN lockQ : lockQ[k] = u
      BY <1>7, <2>2 DEF LineOK, Aside
    <3>2. k # 1 /\ k - 1 \in DOMAIN lockQ' /\ lockQ'[k - 1] = u
      BY <1>2, <1>3, <2>2, <3>1
    <3>. QED
      BY <3>2
  <2>. QED
    BY <2>1, <2>2
<1>. QED
  BY <1>5, <1>6, <1>7 DEF LineOK, InLine

\* Nobody moves in line; only its first member may go into, or through, a
\* critical section that awaits.
LEMMA StaysInLine ==
  ASSUME IInv, LineOK, UNCHANGED lockQ,
         \A u \in Call : \/ Aside(u)
                         \/ /\ pc[u] \in InLine /\ pc'[u] \in InLine
                            /\ lockQ # <<>> /\ Head(lockQ) = u
  PROVE  LineOK'
<1>1. lockQ \in Seq(Call)
  BY DEF IInv, TypeOK
<1>2. \A k \in DOMAIN lockQ : lockQ[k] \in Call
  BY <1>1
<1>3. lockQ # <<>> => Head(lockQ) = lockQ[1] /\ 1 \in DOMAIN lockQ
  BY <1>1, TailPlaces
<1>4. \A k \in DOMAIN lockQ : pc'[lockQ[k]] \in InLine
  BY <1>2 DEF LineOK, Aside
<1>5. \A k \in DOMAIN lockQ : k # 1 => pc'[lockQ[k]] \in Asking
  BY <1>2, <1>3 DEF LineOK, Aside
<1>6. \A u \in Call : pc'[u] \in InLine => pc[u] \in InLine
  BY DEF Aside
<1>. QED
  BY <1>4, <1>5, <1>6 DEF LineOK

\* The transactions of the write queue are transactions of calls.
LEMMA WriteTypes ==
  ASSUME IInv
  PROVE  wq \in Seq(Txn) /\ \A k \in DOMAIN wq : wq[k] \in Txn /\ wq[k].by \in Call
<1>1. wq \in Seq(Txn) /\ \A k \in DOMAIN wq : wq[k] \in Txn
  BY DEF IInv, TypeOK
<1>. QED
  BY <1>1 DEF Txn

\* A step that submits nothing and leaves the awaiting calls alone.
LEMMA WritesStay ==
  ASSUME IInv, WritesAwaited, UNCHANGED wq,
         \A u \in Call : pc[u] \in {"write", "mark"} => pc'[u] = pc[u]
  PROVE  WritesAwaited'
BY WriteTypes DEF WritesAwaited, AwaitedIn

\* A call that awaits nothing submits a transaction and awaits it.
LEMMA WritesGrow ==
  ASSUME IInv, WritesAwaited, NEW t \in Call, pc[t] \notin {"write", "mark"},
         NEW x, x.by = t, wq' = Append(wq, x), pc'[t] = AwaitedIn(x),
         \A u \in Call \ {t} : pc[u] \in {"write", "mark"} => pc'[u] = pc[u]
  PROVE  WritesAwaited'
<1>1. wq \in Seq(Txn \cup {x}) /\ \A k \in DOMAIN wq : wq[k].by \in Call
  BY WriteTypes
<1>2. /\ DOMAIN wq = 1..Len(wq) /\ Len(wq) \in Nat
      /\ DOMAIN wq' = 1..(Len(wq) + 1)
      /\ \A k \in 1..Len(wq) : wq'[k] = wq[k]
      /\ wq'[Len(wq) + 1] = x
  <2>. DEFINE S == Txn \cup {x}
  <2>1. wq \in Seq(S) /\ x \in S
    BY <1>1
  <2>. HIDE DEF S
  <2>. QED
    BY <2>1, AppendPlaces
<1>3. \A k \in DOMAIN wq : wq[k].by # t /\ pc'[wq[k].by] = AwaitedIn(wq[k])
  BY <1>1 DEF WritesAwaited, AwaitedIn
<1>. QED
  BY <1>2, <1>3 DEF WritesAwaited, AwaitedIn

\* The worker takes the first transaction and its call goes on.
LEMMA WritesShrink ==
  ASSUME IInv, WritesAwaited, wq # <<>>, wq' = Tail(wq),
         \A u \in Call \ {Head(wq).by} : pc'[u] = pc[u]
  PROVE  WritesAwaited'
<1>1. wq \in Seq(Txn) /\ \A k \in DOMAIN wq : wq[k].by \in Call
  BY WriteTypes
<1>2. /\ Len(wq) \in Nat \ {0} /\ DOMAIN wq = 1..Len(wq) /\ Head(wq) = wq[1]
      /\ DOMAIN wq' = 1..(Len(wq) - 1)
      /\ \A k \in 1..(Len(wq) - 1) : wq'[k] = wq[k + 1]
  BY <1>1, TailPlaces
<1>3. \A k \in 2..Len(wq) : wq[k].by # Head(wq).by
  BY <1>2 DEF WritesAwaited
<1>. QED
  BY <1>1, <1>2, <1>3 DEF WritesAwaited, AwaitedIn

\* One call moves, no close_thread, and makes no dispatch of another's.
LEMMA ParentsUnmoved ==
  ASSUME IInv, ParentsWait, NEW t \in Call, pc[t] # "loop", pc'[t] # "loop",
         pc'[t] \in Active => \/ res'[t].parent = 0
                              \/ pc[t] \in Active /\ res'[t].parent = res[t].parent,
         \A u \in Call \ {t} :
           /\ res'[u] = res[u]
           /\ \/ pc'[u] = pc[u]
              \/ pc[u] # "loop" /\ pc'[u] \notin Active \cup {"loop"},
         running' \in {0, t, running}
  PROVE  ParentsWait'
<1>1. \A u \in Call : pc'[u] = "loop" => res'[u].parent = 0
  BY DEF ParentsWait
<1>2. \A u, p \in Call : ChildOf(u, p)' => ChildOf(u, p)
  BY DEF ChildOf
<1>3. \A u, p \in Call : ChildOf(u, p)' => pc'[p] = "loop" /\ running' # p
  BY <1>2 DEF ParentsWait, ChildOf
<1>4. \A u, v, p \in Call : ChildOf(u, p)' /\ ChildOf(v, p)' => u = v
  BY <1>2 DEF ParentsWait
<1>. QED
  BY <1>1, <1>3, <1>4 DEF ParentsWait

(***************************************************************************)
(* The moves of a call, and what each does to the line and to those who    *)
(* wait for one another.                                                   *)
(***************************************************************************)
\* A call that is let in goes for the lock.
LEMMA OrderEnters ==
  ASSUME IInv, OrderInv, NEW t \in Call, pc[t] = "idle", running = 0,
         NEW r, NEW local, local.parent = 0,
         GoForLock(t, r, local), UNCHANGED wq
  PROVE  OrderInv'
<1>1. /\ pc' = [pc EXCEPT ![t] = "lock"] /\ res' = [res EXCEPT ![t] = local]
      /\ lockQ' = Append(lockQ, t) /\ running' \in {0, t}
  BY DEF GoForLock, Acquire
<1>2. pc'[t] = "lock" /\ res'[t] = local
      /\ \A u \in Call \ {t} : pc'[u] = pc[u] /\ res'[u] = res[u]
  BY <1>1 DEF IInv, TypeOK
<1>3. LineOK'
  BY <1>1, <1>2, JoinsLine DEF OrderInv, InLine, Asking, Aside
<1>4. WritesAwaited'
  BY <1>2, WritesStay DEF OrderInv
<1>5. ParentsWait'
  BY <1>1, <1>2, ParentsUnmoved DEF OrderInv
<1>. QED
  BY <1>3, <1>4, <1>5 DEF OrderInv

\* A call that is turned down at once never stands in line.
LEMMA OrderTurnedAway ==
  ASSUME IInv, OrderInv, NEW t \in Call, pc[t] = "idle",
         NEW r, EndAtOnce(t, r, "refused"), UNCHANGED wq
  PROVE  OrderInv'
<1>1. /\ pc'[t] = "refused" /\ UNCHANGED <<res, running, lockQ>>
      /\ \A u \in Call \ {t} : pc'[u] = pc[u]
  BY DEF EndAtOnce, IInv, TypeOK
<1>2. LineOK'
  BY <1>1, StaysInLine DEF OrderInv, InLine, Asking, Aside
<1>3. WritesAwaited'
  BY <1>1, WritesStay DEF OrderInv
<1>4. ParentsWait'
  BY <1>1, ParentsUnmoved DEF OrderInv, Active
<1>. QED
  BY <1>2, <1>3, <1>4 DEF OrderInv

\* The holder of the lock leaves and ends, blocks, or awaits what it submits.
LEMMA OrderLeaves ==
  ASSUME IInv, OrderInv, NEW t \in Call, HasLock(t),
         pc[t] \in Asking, NEW how, Leave(t, how),
         \/ how \in Finished \cup {"blocked"} /\ UNCHANGED wq
         \/ \E x : /\ how = "mark" /\ x.by = t /\ x.kind # "dispatch"
                   /\ wq' = Append(wq, x)
  PROVE  OrderInv'
<1>1. /\ pc'[t] = how /\ running' = 0 /\ lockQ' = Tail(lockQ)
      /\ UNCHANGED res
      /\ \A u \in Call \ {t} : pc'[u] = pc[u]
      /\ how \in Finished \cup {"blocked", "mark"}
  BY DEF Leave, IInv, TypeOK
<1>2. LineOK'
  BY <1>1, LeavesLine DEF OrderInv, HasLock, InLine, Asking, Finished, Aside
<1>3. WritesAwaited'
  <2>1. CASE UNCHANGED wq
    BY <1>1, <2>1, WritesStay DEF OrderInv, Asking
  <2>2. ASSUME NEW x, how = "mark", x.by = t, x.kind # "dispatch",
               wq' = Append(wq, x)
        PROVE  WritesAwaited'
    BY <1>1, <2>2, WritesGrow DEF OrderInv, Asking, AwaitedIn
  <2>. QED
    BY <2>1, <2>2
<1>4. ParentsWait'
  BY <1>1, ParentsUnmoved DEF OrderInv, Active, Asking, Finished
<1>. QED
  BY <1>2, <1>3, <1>4 DEF OrderInv

\* A wait_notify goes to the end of the line again, to report.
LEMMA OrderRejoins ==
  ASSUME IInv, OrderInv, NEW t \in Call, HasLock(t), pc[t] \in Asking,
         pc' = [pc EXCEPT ![t] = "report"], Reacquire(t), UNCHANGED <<res, wq>>
  PROVE  OrderInv'
<1>1. /\ pc'[t] = "report" /\ running' \in {0, t}
      /\ \A u \in Call \ {t} : pc'[u] = pc[u]
  BY DEF Reacquire, IInv, TypeOK
<1>2. LineOK'
  BY <1>1, RejoinsLine DEF OrderInv, HasLock, Reacquire, Asking, Aside
<1>3. WritesAwaited'
  BY <1>1, WritesStay DEF OrderInv, Asking
<1>4. ParentsWait'
  BY <1>1, ParentsUnmoved DEF OrderInv, Active, Asking
<1>. QED
  BY <1>2, <1>3, <1>4 DEF OrderInv

\* A call outside the line that no dispatch waits for joins it.
LEMMA OrderJoins ==
  ASSUME IInv, OrderInv, NEW t \in Call, pc[t] \in {"blocked", "loop"},
         pc[t] = "loop" => running = t,
         NEW how \in Asking, how = "lock" => pc[t] = "loop",
         pc' = [pc EXCEPT ![t] = how], Acquire(t), UNCHANGED <<res, wq>>
  PROVE  OrderInv'
<1>1. /\ pc'[t] = how /\ running' \in {0, t} /\ lockQ' = Append(lockQ, t)
      /\ \A u \in Call \ {t} : pc'[u] = pc[u]
  BY DEF Acquire, IInv, TypeOK
<1>2. LineOK'
  BY <1>1, JoinsLine DEF OrderInv, InLine, Asking, Aside
<1>3. WritesAwaited'
  BY <1>1, WritesStay DEF OrderInv
<1>4. ParentsWait'
  <2>1. \A u, p \in Call : ChildOf(u, p)' => ChildOf(u, p) /\ p # t
    BY <1>1 DEF OrderInv, ParentsWait, ChildOf, Active, Asking
  <2>2. \A u, p \in Call : ChildOf(u, p)' => pc'[p] = "loop" /\ running' # p
    BY <1>1, <2>1, MaxCallsAssumption DEF OrderInv, ParentsWait, ChildOf, Call
  <2>3. \A u, v, p \in Call : ChildOf(u, p)' /\ ChildOf(v, p)' => u = v
    BY <2>1 DEF OrderInv, ParentsWait
  <2>4. \A u \in Call : pc'[u] = "loop" => res'[u].parent = 0
    BY <1>1 DEF OrderInv, ParentsWait, Asking
  <2>. QED
    BY <2>2, <2>3, <2>4 DEF ParentsWait
<1>. QED
  BY <1>2, <1>3, <1>4 DEF OrderInv

\* A sender holds the lock while it awaits its transaction.
LEMMA OrderSubmits ==
  ASSUME IInv, OrderInv, NEW t \in Call, HasLock(t), pc[t] = "lock",
         NEW state, NEW envs, SubmitDispatch(t, state, envs)
  PROVE  OrderInv'
<1>. DEFINE x == [by |-> t, kind |-> "dispatch", conv |-> res[t].conv,
                  isNew |-> res[t].isNew, status |-> state.status,
                  envs |-> envs, marks |-> {}]
<1>1. /\ wq' = Append(wq, x) /\ pc'[t] = "write" /\ running' = 0
      /\ UNCHANGED <<res, lockQ>>
      /\ \A u \in Call \ {t} : pc'[u] = pc[u]
  BY DEF SubmitDispatch, IInv, TypeOK
<1>2. x.by = t /\ AwaitedIn(x) = "write"
  BY DEF AwaitedIn
<1>. HIDE DEF x
<1>3. LineOK'
  BY <1>1, StaysInLine DEF OrderInv, HasLock, InLine, Asking, Aside
<1>4. WritesAwaited'
  BY <1>1, <1>2, WritesGrow DEF OrderInv
<1>5. ParentsWait'
  BY <1>1, ParentsUnmoved DEF OrderInv, Active
<1>. QED
  BY <1>3, <1>4, <1>5 DEF OrderInv

\* A dispatch returns to its caller, or to the close_thread that made it, which
\* then goes on or fails.
LEMMA DispatchReturns ==
  ASSUME IInv, OrderInv, NEW t \in Call, pc[t] \in {"lock", "written", "unwritten"},
         NEW how \in Finished, LeaveDispatch(t, how)
  PROVE  LET p == res[t].parent
         IN  /\ lockQ' = Tail(lockQ) /\ UNCHANGED <<req, res>> /\ pc'[t] = how
             /\ \A u \in Call \ {t, p} : pc'[u] = pc[u]
             /\ p = 0 => running' = 0
             /\ p # 0 => /\ p \in Call /\ pc[p] = "loop" /\ p # t
                         /\ \/ pc'[p] = "loop" /\ running' = p
                            \/ pc'[p] = "failed" /\ running' = 0
<1>. DEFINE p == res[t].parent
<1>1. p \in 0..MaxCalls
  BY DEF IInv, TypeOK, Local
<1>2. p # 0 => p \in Call /\ pc[p] = "loop" /\ p # t
  BY <1>1, MaxCallsAssumption DEF OrderInv, ParentsWait, ChildOf, Active, Call
<1>3. pc = [u \in Call |-> pc[u]]
  BY DEF IInv, TypeOK
<1>4. /\ lockQ' = Tail(lockQ) /\ UNCHANGED <<req, res>>
      /\ \/ p = 0 /\ pc' = [pc EXCEPT ![t] = how] /\ running' = 0
         \/ p # 0 /\ pc' = [pc EXCEPT ![t] = how, ![p] = "failed"] /\ running' = 0
         \/ p # 0 /\ pc' = [pc EXCEPT ![t] = how] /\ running' = p
  BY DEF LeaveDispatch
<1>. HIDE DEF p
<1>5. CASE p = 0
  BY <1>3, <1>4, <1>5 DEF p
<1>6. CASE p # 0
  BY <1>2, <1>3, <1>4, <1>6 DEF p
<1>. QED
  BY <1>5, <1>6

\* A dispatch returns; the close_thread that made it, if any, goes on or fails.
LEMMA OrderReturns ==
  ASSUME IInv, OrderInv, NEW t \in Call, HasLock(t),
         pc[t] \in {"lock", "written", "unwritten"},
         NEW how \in Finished, LeaveDispatch(t, how), UNCHANGED wq
  PROVE  OrderInv'
<1>. DEFINE p == res[t].parent
<1>1. /\ lockQ' = Tail(lockQ) /\ UNCHANGED <<req, res>>
      /\ pc'[t] = how /\ running' \in {0, p}
      /\ \A u \in Call \ {t, p} : pc'[u] = pc[u]
      /\ p \in Call => /\ pc[p] = "loop" /\ p # t
                       /\ \/ pc'[p] = "loop"
                          \/ pc'[p] = "failed" /\ running' = 0
  BY DispatchReturns, MaxCallsAssumption DEF Call
<1>2. LineOK'
  BY <1>1, LeavesLine DEF OrderInv, HasLock, InLine, Asking, Finished, Aside
<1>3. WritesAwaited'
  BY <1>1, WritesStay DEF OrderInv
<1>4. ParentsWait'
  <2>1. \A u, q \in Call : ChildOf(u, q)' => ChildOf(u, q) /\ u # t
    BY <1>1 DEF ChildOf, Active, Finished
  <2>2. \A u, q \in Call : ChildOf(u, q)' => q # p
    BY <2>1 DEF OrderInv, ParentsWait, ChildOf, Active
  <2>3. \A u, q \in Call : ChildOf(u, q)' => pc'[q] = "loop" /\ running' # q
    BY <1>1, <2>1, <2>2, MaxCallsAssumption DEF OrderInv, ParentsWait, ChildOf, Call
  <2>4. \A u, v, q \in Call : ChildOf(u, q)' /\ ChildOf(v, q)' => u = v
    BY <2>1 DEF OrderInv, ParentsWait
  <2>5. \A u \in Call : pc'[u] = "loop" => res'[u].parent = 0
    BY <1>1 DEF OrderInv, ParentsWait, Finished
  <2>. QED
    BY <2>3, <2>4, <2>5 DEF ParentsWait
<1>. QED
  BY <1>2, <1>3, <1>4 DEF OrderInv

\* Whoever is in a critical section that awaits is the first in line.
LEMMA InsideIsFirst ==
  ASSUME IInv, LineOK, NEW t \in Call, pc[t] \in {"write", "written", "unwritten"}
  PROVE  lockQ # <<>> /\ Head(lockQ) = t
<1>1. PICK k \in DOMAIN lockQ : lockQ[k] = t
  BY DEF LineOK, InLine
<1>2. k = 1
  BY <1>1 DEF LineOK, Asking
<1>3. lockQ \in Seq(Call)
  BY DEF IInv, TypeOK
<1>. QED
  BY <1>1, <1>2, <1>3

\* The first transaction of the queue, and its call.
LEMMA FirstWrite ==
  ASSUME IInv, wq # <<>>
  PROVE  /\ Head(wq) \in Txn /\ Head(wq).by \in Call
         /\ 1 \in DOMAIN wq /\ Head(wq) = wq[1]
BY WriteTypes, TailElements

\* The worker answers the call that awaits the first transaction.
LEMMA OrderAnswers ==
  ASSUME IInv, OrderInv, wq # <<>>, NEW ok \in BOOLEAN, Answer(Head(wq), ok),
         wq' = Tail(wq), UNCHANGED <<res, running, lockQ>>
  PROVE  OrderInv'
<1>. DEFINE x == Head(wq)
<1>1. x \in Txn /\ x.by \in Call /\ pc[x.by] = AwaitedIn(x)
  BY FirstWrite DEF OrderInv, WritesAwaited
<1>2. /\ \/ x.kind = "dispatch" /\ pc'[x.by] \in {"written", "unwritten"}
         \/ x.kind # "dispatch" /\ pc'[x.by] \in {"done", "failed"}
      /\ \A u \in Call \ {x.by} : pc'[u] = pc[u]
  BY <1>1 DEF Answer, Txn, IInv, TypeOK
<1>3. LineOK'
  <2>1. CASE x.kind = "dispatch"
    <3>1. pc[x.by] = "write"
      BY <1>1, <2>1 DEF AwaitedIn
    <3>2. lockQ # <<>> /\ Head(lockQ) = x.by
      BY <1>1, <3>1, InsideIsFirst DEF OrderInv
    <3>. QED
      BY <1>1, <1>2, <2>1, <3>1, <3>2, StaysInLine DEF OrderInv, InLine, Aside
  <2>2. CASE x.kind # "dispatch"
    BY <1>1, <1>2, <2>2, StaysInLine DEF OrderInv, AwaitedIn, InLine, Asking, Aside
  <2>. QED
    BY <2>1, <2>2
<1>4. WritesAwaited'
  BY <1>2, WritesShrink DEF OrderInv
<1>5. ParentsWait'
  BY <1>1, <1>2, ParentsUnmoved DEF OrderInv, AwaitedIn, Active
<1>. QED
  BY <1>3, <1>4, <1>5 DEF OrderInv

\* close() leaves and turns the blocked calls away.
LEMMA OrderShutdown ==
  ASSUME IInv, OrderInv, NEW t \in Call, ShutdownLocked(t)
  PROVE  OrderInv'
<1>1. /\ HasLock(t) /\ pc[t] = "lock" /\ pc'[t] = "done"
      /\ \A u \in Call \ {t} : \/ pc'[u] = pc[u]
                               \/ pc[u] = "blocked" /\ pc'[u] = "refused"
      /\ lockQ' = Tail(lockQ) /\ running' = 0 /\ UNCHANGED <<res, wq>>
  BY DEF ShutdownLocked, InLock, disk
<1>2. LineOK'
  BY <1>1, LeavesLine DEF OrderInv, HasLock, InLine, Asking, Aside
<1>3. WritesAwaited'
  BY <1>1, WritesStay DEF OrderInv
<1>4. ParentsWait'
  BY <1>1, ParentsUnmoved DEF OrderInv, Active
<1>. QED
  BY <1>2, <1>3, <1>4 DEF OrderInv

\* close_thread begins: no dispatch of its own is under way.
LEMMA OrderBegins ==
  ASSUME IInv, OrderInv, NEW t \in Call, pc[t] = "idle", running = 0,
         pc' = [pc EXCEPT ![t] = "loop"], NEW local, local.parent = 0,
         res' = [res EXCEPT ![t] = local], running' = t, UNCHANGED <<lockQ, wq>>
  PROVE  OrderInv'
<1>1. /\ pc'[t] = "loop" /\ res'[t] = local
      /\ \A u \in Call \ {t} : pc'[u] = pc[u] /\ res'[u] = res[u]
  BY DEF IInv, TypeOK
<1>2. LineOK'
  BY <1>1, StaysInLine DEF OrderInv, InLine, Asking, Aside
<1>3. WritesAwaited'
  BY <1>1, WritesStay DEF OrderInv
<1>4. ParentsWait'
  <2>1. \A u, p \in Call : ChildOf(u, p)' => ChildOf(u, p)
    BY <1>1 DEF ChildOf, Active
  <2>2. \A u, p \in Call : ChildOf(u, p)' => pc'[p] = "loop" /\ running' # p
    BY <1>1, <2>1 DEF OrderInv, ParentsWait
  <2>. QED
    BY <1>1, <2>1, <2>2 DEF OrderInv, ParentsWait
<1>. QED
  BY <1>2, <1>3, <1>4 DEF OrderInv

\* close_thread makes its next dispatch, and waits for it if it is let in.
LEMMA OrderClosing ==
  ASSUME IInv, OrderInv, NEW t \in Call, NextClosing(t)
  PROVE  OrderInv'
<1>1. PICK to \in res[t].todo, u \in Call :
        LET r    == ClosingMessage(t, to)
            rest == [res EXCEPT ![t].todo = @ \ {to}]
        IN  /\ IsNextCall(u)
            /\ \/ /\ pc' = [pc EXCEPT ![u] = "refused", ![t] = "failed"]
                  /\ res' = rest
                  /\ running' = 0
                  /\ UNCHANGED lockQ
               \/ /\ pc' = [pc EXCEPT ![u] = "refused"]
                  /\ res' = rest
                  /\ UNCHANGED <<running, lockQ>>
               \/ /\ pc' = [pc EXCEPT ![u] = "lock"]
                  /\ res' = [rest EXCEPT ![u] = Start(u, r, t)]
                  /\ Acquire(u)
  BY DEF NextClosing
<1>2. /\ pc[u] = "idle" /\ pc[t] = "loop" /\ u # t /\ running = t
      /\ UNCHANGED wq
  BY <1>1 DEF IsNextCall, Idle, NextClosing, disk
<1>3. /\ \A v \in Call \ {u} : res'[v].parent = res[v].parent
      /\ \A v \in Call \ {u, t} : pc'[v] = pc[v]
      /\ \/ /\ pc'[u] = "refused" /\ UNCHANGED lockQ
            /\ \/ pc'[t] = "loop" /\ running' = t
               \/ pc'[t] = "failed" /\ running' = 0
         \/ /\ pc'[u] = "lock" /\ res'[u].parent = t /\ pc'[t] = "loop"
            /\ running' \in {0, u} /\ lockQ' = Append(lockQ, u)
  <2>. DEFINE rest == [res EXCEPT ![t].todo = @ \ {to}]
              local == Start(u, ClosingMessage(t, to), t)
  <2>1. rest = [v \in Call |-> rest[v]]
    BY DEF IInv, TypeOK
  <2>2. \A v \in Call : rest[v].parent = res[v].parent
    BY DEF IInv, TypeOK, Local
  <2>3. local.parent = t
    BY DEF Start, NoLocal
  <2>. HIDE DEF rest, local
  <2>. QED
    BY <1>1, <1>2, <2>1, <2>2, <2>3 DEF rest, local, Acquire, IInv, TypeOK
<1>4. LineOK'
  BY <1>2, <1>3, StaysInLine, JoinsLine DEF OrderInv, InLine, Asking, Aside
<1>5. WritesAwaited'
  BY <1>2, <1>3, WritesStay DEF OrderInv
<1>6. ParentsWait'
  <2>1. \A v \in Call : ~ChildOf(v, t)
    BY <1>2 DEF OrderInv, ParentsWait
  <2>2. \A v, p \in Call : ChildOf(v, p)' =>
          \/ ChildOf(v, p) /\ v # u /\ p # t
          \/ v = u /\ p = t /\ pc'[u] = "lock"
    BY <1>2, <1>3, <2>1 DEF ChildOf, Active
  <2>3. \A v, p \in Call : ChildOf(v, p)' => pc'[p] = "loop" /\ running' # p
    BY <1>2, <1>3, <2>2, MaxCallsAssumption DEF OrderInv, ParentsWait, Call
  <2>4. \A v, w, p \in Call : ChildOf(v, p)' /\ ChildOf(w, p)' => v = w
    BY <2>2 DEF OrderInv, ParentsWait
  <2>5. \A v \in Call : pc'[v] = "loop" => res'[v].parent = 0
    BY <1>2, <1>3 DEF OrderInv, ParentsWait
  <2>. QED
    BY <2>3, <2>4, <2>5 DEF ParentsWait
<1>. QED
  BY <1>4, <1>5, <1>6 DEF OrderInv

\* Entering any call keeps the order.
LEMMA OrderEnter ==
  ASSUME IInv, OrderInv, Enter
  PROVE  OrderInv'
<1>1. PICK t \in Call, r \in Requests : MayEnter(t) /\ EnterWith(t, r)
  BY DEF Enter
<1>2. pc[t] = "idle" /\ running = 0
  BY <1>1, NotYetStarted DEF MayEnter
<1>3. \A q : Start(t, q, 0).parent = 0
  BY DEF Start, NoLocal
<1>4. NoLocal.parent = 0
  BY DEF NoLocal
<1>5. UNCHANGED wq
  BY <1>1 DEF EnterWith, EnterDispatch, EnterReply, EnterBroadcast, EnterEmit,
     EnterMailbox, EnterCancel, EnterCloseThread, EnterOperatorClose,
     EnterShutdown, disk
<1>6. CASE \E q : EndAtOnce(t, q, "refused")
  BY <1>2, <1>5, <1>6, OrderTurnedAway
<1>7. CASE \E q, local : GoForLock(t, q, local) /\ local.parent = 0
  BY <1>2, <1>5, <1>7, OrderEnters
<1>8. CASE EnterDispatch(t, r)
  BY <1>3, <1>6, <1>7, <1>8 DEF EnterDispatch
<1>9. CASE EnterReply(t, r)
  <2>1. \/ EndAtOnce(t, r, "refused")
        \/ EndAtOnce(t, ReplyAsDispatch(r), "refused")
        \/ GoForLock(t, ReplyAsDispatch(r), Start(t, ReplyAsDispatch(r), 0))
    BY <1>9 DEF EnterReply
  <2>. QED
    BY <1>3, <1>6, <1>7, <2>1
<1>10. CASE EnterBroadcast(t, r)
  BY <1>3, <1>6, <1>7, <1>10 DEF EnterBroadcast
<1>11. CASE EnterEmit(t, r)
  <2>1. EndAtOnce(t, r, "refused") \/ \E q : GoForLock(t, q, Start(t, r, 0))
    BY <1>11 DEF EnterEmit
  <2>. QED
    BY <1>3, <1>6, <1>7, <2>1
<1>12. CASE EnterMailbox(t, r)
  BY <1>4, <1>6, <1>7, <1>12 DEF EnterMailbox
<1>13. CASE EnterCancel(t, r)
  BY <1>4, <1>6, <1>7, <1>13 DEF EnterCancel
<1>14. CASE EnterOperatorClose(t, r)
  <2>. DEFINE local == [NoLocal EXCEPT !.conv = r.conv, !.born = conv[r.conv].born]
  <2>1. local.parent = 0
    BY DEF NoLocal
  <2>2. EndAtOnce(t, r, "refused") \/ GoForLock(t, r, local)
    BY <1>14 DEF EnterOperatorClose
  <2>. HIDE DEF local
  <2>. QED
    BY <1>6, <1>7, <2>1, <2>2
<1>15. CASE EnterShutdown(t, r)
  BY <1>4, <1>7, <1>15 DEF EnterShutdown
<1>16. CASE EnterCloseThread(t, r)
  <2>. DEFINE local == [NoLocal EXCEPT !.conv = r.conv, !.born = conv[r.conv].born,
                                       !.todo = OtherPrimaries(r.conv, r.src)]
  <2>1. local.parent = 0
    BY DEF NoLocal
  <2>2. \/ EndAtOnce(t, r, "refused")
        \/ /\ pc' = [pc EXCEPT ![t] = "loop"]
           /\ res' = [res EXCEPT ![t] = local]
           /\ running' = t /\ UNCHANGED lockQ
    BY <1>16 DEF EnterCloseThread
  <2>. HIDE DEF local
  <2>. QED
    BY <1>2, <1>5, <1>6, <2>1, <2>2, OrderBegins
<1>. QED
  BY <1>1, <1>8, <1>9, <1>10, <1>11, <1>12, <1>13, <1>14, <1>15, <1>16 DEF EnterWith

\* Every step of a started call keeps the order.
LEMMA OrderStep ==
  ASSUME IInv, OrderInv, NEW t \in Call, Step(t)
  PROVE  OrderInv'
<1>1. CASE DispatchLocked(t) \/ BroadcastLocked(t) \/ EmitLocked(t)
  <2>1. HasLock(t) /\ pc[t] = "lock"
    BY <1>1 DEF DispatchLocked, BroadcastLocked, EmitLocked, InLock
  <2>2. \E state, envs : SubmitDispatch(t, state, envs)
    BY <1>1 DEF DispatchLocked, BroadcastLocked, EmitLocked
  <2>. QED
    BY <2>1, <2>2, OrderSubmits
<1>2. CASE DispatchTurnedDown(t)
  BY <1>2, OrderReturns DEF DispatchTurnedDown, InLock, disk, Finished
<1>3. CASE Resume(t)
  BY <1>3, OrderReturns DEF Resume, disk, Finished
<1>4. CASE TurnedDown(t)
  BY <1>4, OrderLeaves DEF TurnedDown, InLock, disk, Finished, Asking
<1>5. CASE Report(t)
  BY <1>5, OrderLeaves DEF Report, disk, Finished, Asking
<1>6. CASE FlushLocked(t) \/ CancelLocked(t)
  <2>1. HasLock(t) /\ pc[t] \in Asking
    BY <1>6 DEF FlushLocked, CancelLocked, InLock, Asking
  <2>2. \/ Leave(t, "done") /\ UNCHANGED wq
        \/ \E envs : LeaveToWrite(t, Marks(t, envs))
    BY <1>6 DEF FlushLocked, CancelLocked
  <2>3. \A envs : Marks(t, envs).by = t /\ Marks(t, envs).kind # "dispatch"
    BY DEF Marks
  <2>. QED
    BY <2>1, <2>2, <2>3, OrderLeaves DEF LeaveToWrite, Finished
<1>7. CASE OperatorCloseLocked(t)
  <2>. DEFINE x == [by |-> t, kind |-> "status", conv |-> res[t].conv,
                    isNew |-> FALSE, status |-> "closed", envs |-> {}, marks |-> {}]
  <2>1. HasLock(t) /\ pc[t] \in Asking /\ LeaveToWrite(t, x)
    BY <1>7 DEF OperatorCloseLocked, InLock, Asking
  <2>2. x.by = t /\ x.kind # "dispatch"
    OBVIOUS
  <2>. HIDE DEF x
  <2>. QED
    BY <2>1, <2>2, OrderLeaves DEF LeaveToWrite
<1>8. CASE CloseThreadLocked(t) \/ NotifyLocked(t)
  <2>1. HasLock(t) /\ pc[t] \in Asking /\ Leave(t, "done") /\ UNCHANGED wq
    BY <1>8 DEF CloseThreadLocked, NotifyLocked, InLock, Asking, disk
  <2>. QED
    BY <2>1, OrderLeaves DEF Finished
<1>9. CASE WaitLocked(t)
  <2>1. /\ HasLock(t) /\ pc[t] \in Asking /\ UNCHANGED wq
        /\ \/ Leave(t, "blocked")
           \/ /\ pc' = [pc EXCEPT ![t] = "report"]
              /\ Reacquire(t) /\ UNCHANGED res
    BY <1>9 DEF WaitLocked, InLock, Asking, disk
  <2>. QED
    BY <2>1, OrderLeaves, OrderRejoins
<1>10. CASE TimedOutLocked(t)
  BY <1>10, OrderRejoins DEF TimedOutLocked, Asking, disk
<1>11. CASE Woken(t)
  BY <1>11, OrderJoins DEF Woken, Asking, disk
<1>12. CASE AllClosingsSent(t)
  BY <1>12, OrderJoins DEF AllClosingsSent, Asking, disk
<1>13. CASE ShutdownLocked(t)
  BY <1>13, OrderShutdown
<1>14. CASE NextClosing(t)
  BY <1>14, OrderClosing
<1>. QED
  BY <1>1, <1>2, <1>3, <1>4, <1>5, <1>6, <1>7, <1>8, <1>9, <1>10, <1>11, <1>12,
     <1>13, <1>14 DEF Step

\* Nobody is in line or awaits anything after a restart.
LEMMA OrderRestart ==
  ASSUME IInv, OrderInv, Restart
  PROVE  OrderInv'
<1>1. /\ lockQ' = <<>> /\ wq' = <<>> /\ UNCHANGED res
      /\ \A t \in Call : pc'[t] \in Finished \cup {"idle"}
  BY DEF Restart, IInv, TypeOK, Waiting, Finished
<1>2. LineOK'
  BY <1>1 DEF LineOK, InLine, Asking, Finished
<1>3. WritesAwaited'
  BY <1>1 DEF WritesAwaited
<1>4. ParentsWait'
  BY <1>1 DEF ParentsWait, ChildOf, Active, Finished
<1>. QED
  BY <1>2, <1>3, <1>4 DEF OrderInv

\* A step that leaves the tasks and the write queue alone keeps the order.
LEMMA OrderStays ==
  ASSUME OrderInv, UNCHANGED <<tasks, wq>>
  PROVE  OrderInv'
BY DEF OrderInv, LineOK, WritesAwaited, ParentsWait, ChildOf, tasks

\* The order is kept by every step.
LEMMA NextOrder == IInv /\ OrderInv /\ [Next]_vars => OrderInv'
<1>. SUFFICES ASSUME IInv, OrderInv, [Next]_vars PROVE OrderInv'
  OBVIOUS
<1>1. CASE Enter
  BY <1>1, OrderEnter
<1>2. CASE \E t \in Call : Step(t)
  BY <1>2, OrderStep
<1>3. CASE \E t \in Call : TimeOut(t)
  BY <1>3, OrderJoins DEF TimeOut, Asking, disk
<1>4. CASE Commit
  BY <1>4, OrderAnswers DEF Commit, Applied
<1>5. CASE WriteError
  BY <1>5, OrderAnswers DEF WriteError
<1>6. CASE ExpireDeadlines \/ CloseTTL \/ MessageGC \/ Rest \/ UNCHANGED vars
  BY <1>6, OrderStays
  DEF ExpireDeadlines, CloseTTL, MessageGC, Rest, vars, disk, tasks
<1>7. CASE Restart
  BY <1>7, OrderRestart
<1>. QED
  BY <1>1, <1>2, <1>3, <1>4, <1>5, <1>6, <1>7 DEF Next

\* The line for the lock, the write queue and the waiting close_threads are in
\* order in every state.
THEOREM OrderHolds == Spec => []OrderInv
<1>1. Init => OrderInv
  BY DEF Init, OrderInv, LineOK, WritesAwaited, ParentsWait, ChildOf, InLine,
     Asking, Active
<1>. QED
  BY <1>1, NextOrder, InvariantHolds, PTL DEF Spec

\* The calls that await their transaction inside the lock exclude one another:
\* dispatch, broadcast and bot_emit commit in the order in which they delivered.
THEOREM SendersExcludeOneAnother == Spec => []LockIsExclusive
<1>1. IInv /\ OrderInv => LockIsExclusive
  BY InsideIsFirst DEF OrderInv, LockIsExclusive, InCriticalSection
<1>. QED
  BY <1>1, InvariantHolds, OrderHolds, PTL

-------------------------------------------------------------------------------
(***************************************************************************)
(* Nobody is stuck.  A call that awaits a transaction has one in the       *)
(* queue; a close_thread runs or waits for a dispatch of its own that is   *)
(* in line; and what runs is a close_thread or the first in line.          *)
(***************************************************************************)
WritesUnderWay ==
  \A t \in Call : pc[t] \in {"write", "mark"} => \E k \in DOMAIN wq : wq[k].by = t
LoopsGoOn == \A t \in Call : pc[t] = "loop" => running = t \/ \E u \in Call : ChildOf(u, t)
RunningIsFirst ==
  running # 0 => \/ pc[running] = "loop"
                 \/ lockQ # <<>> /\ Head(lockQ) = running /\ pc[running] \in Asking
ChildrenDispatch ==
  \A t \in Call : pc[t] \in Active /\ res[t].parent # 0 => req[t].op = "dispatch"

ProgressOK == WritesUnderWay /\ LoopsGoOn /\ RunningIsFirst /\ ChildrenDispatch

\* While a call is neither over nor blocked for mail, the writer has something
\* to do, or the first in line can, or a close_thread has the control.
SomebodyCanGoOn ==
  (\E t \in Call : pc[t] \in Waiting \ {"blocked"}) =>
     \/ running = 0 /\ wq # <<>>
     \/ \E t \in Call : HasLock(t) /\ pc[t] \in Asking \cup {"written", "unwritten"}
     \/ \E t \in Call : running = t /\ pc[t] = "loop"

\* the calls that await a transaction of the queue, t aside, still do
StillAwaited(t) ==
  \A k \in DOMAIN wq : wq[k].by # t => \E j \in DOMAIN wq' : wq'[j].by = wq[k].by

\* One call moves: no close_thread, and no dispatch to its end.
TaskMoves(t) ==
  /\ pc[t] # "loop" /\ pc'[t] # "loop"
  /\ \A u \in Call \ {t} : /\ res'[u] = res[u] /\ req'[u] = req[u]
                           /\ \/ pc'[u] = pc[u]
                              \/ pc[u] = "blocked" /\ pc'[u] = "refused"
  /\ pc[t] \in Active /\ req[t].op = "dispatch" => pc'[t] \in Active /\ res'[t] = res[t]
  /\ \/ pc'[t] \in Active => res'[t].parent = 0
     \/ pc[t] \in Active /\ res'[t] = res[t] /\ req'[t] = req[t]
  /\ running \in {0, t} /\ running' \in {0, t}
  /\ running' = t => lockQ' # <<>> /\ Head(lockQ') = t /\ pc'[t] \in Asking
  /\ pc'[t] \in {"write", "mark"} => \E k \in DOMAIN wq' : wq'[k].by = t
  /\ StillAwaited(t)

\* Such a move keeps the tasks going.
LEMMA TasksMove ==
  ASSUME IInv, OrderInv, ProgressOK, NEW t \in Call, TaskMoves(t)
  PROVE  ProgressOK'
<1>. USE DEF TaskMoves
<1>1. WritesUnderWay'
  <2>. SUFFICES ASSUME NEW u \in Call, pc'[u] \in {"write", "mark"}, u # t
                PROVE  \E j \in DOMAIN wq' : wq'[j].by = u
    BY DEF WritesUnderWay
  <2>1. PICK k \in DOMAIN wq : wq[k].by = u
    BY DEF ProgressOK, WritesUnderWay
  <2>. QED
    BY <2>1 DEF StillAwaited
<1>2. LoopsGoOn'
  <2>. SUFFICES ASSUME NEW u \in Call, pc'[u] = "loop"
                PROVE  \E v \in Call : ChildOf(v, u)'
    BY DEF LoopsGoOn
  <2>1. u # t /\ pc[u] = "loop" /\ running # u
    BY MaxCallsAssumption DEF Call
  <2>2. PICK v \in Call : ChildOf(v, u)
    BY <2>1 DEF ProgressOK, LoopsGoOn
  <2>3. pc[v] \in Active /\ res[v].parent # 0 /\ req[v].op = "dispatch"
    BY <2>2 DEF ChildOf, ProgressOK, ChildrenDispatch
  <2>. QED
    BY <2>2, <2>3 DEF ChildOf, Active
<1>3. RunningIsFirst'
  BY DEF RunningIsFirst
<1>4. ChildrenDispatch'
  BY DEF ProgressOK, ChildrenDispatch, Active
<1>. QED
  BY <1>1, <1>2, <1>3, <1>4 DEF ProgressOK

\* The writes of a call that submits one, or of none.
LEMMA WritesAdded ==
  ASSUME IInv, NEW x, wq' = Append(wq, x)
  PROVE  /\ \E k \in DOMAIN wq' : wq'[k] = x
         /\ \A k \in DOMAIN wq : \E j \in DOMAIN wq' : wq'[j] = wq[k]
<1>1. wq \in Seq(Txn \cup {x})
  BY WriteTypes
<1>2. /\ DOMAIN wq = 1..Len(wq) /\ Len(wq) \in Nat
      /\ DOMAIN wq' = 1..(Len(wq) + 1)
      /\ \A k \in 1..Len(wq) : wq'[k] = wq[k]
      /\ wq'[Len(wq) + 1] = x
  <2>. DEFINE S == Txn \cup {x}
  <2>1. wq \in Seq(S) /\ x \in S
    BY <1>1
  <2>. HIDE DEF S
  <2>. QED
    BY <2>1, AppendPlaces
<1>. QED
  BY <1>2

\* The head of an appended line, and of one of which the head is appended.
LEMMA FirstOfLine ==
  ASSUME NEW t \in Call, NEW s, s = <<>>
  PROVE  Append(s, t) # <<>> /\ Head(Append(s, t)) = t
<1>1. s \in Seq(Call) /\ Len(s) = 0
  OBVIOUS
<1>. DEFINE q == Append(s, t)
<1>2. q \in Seq(Call) /\ DOMAIN q = 1..1 /\ q[1] = t
  BY <1>1, AppendPlaces
<1>. HIDE DEF q
<1>3. q # <<>>
  BY <1>1, AppendProperties DEF q
<1>4. Head(q) = q[1]
  BY <1>2, <1>3, TailPlaces
<1>. QED
  BY <1>2, <1>3, <1>4 DEF q

\* A call that is let in goes for the lock.
LEMMA TaskEnters ==
  ASSUME IInv, OrderInv, ProgressOK, NEW t \in Call, pc[t] = "idle", running = 0,
         NEW r, NEW local, local.parent = 0,
         GoForLock(t, r, local), UNCHANGED wq
  PROVE  ProgressOK'
<1>1. /\ pc' = [pc EXCEPT ![t] = "lock"] /\ res' = [res EXCEPT ![t] = local]
      /\ req' = [req EXCEPT ![t] = r]
      /\ lockQ' = Append(lockQ, t) /\ running' = IF lockQ = <<>> THEN t ELSE 0
  BY DEF GoForLock, Acquire
<1>2. /\ pc'[t] = "lock" /\ res'[t] = local
      /\ \A u \in Call \ {t} : pc'[u] = pc[u] /\ res'[u] = res[u] /\ req'[u] = req[u]
  BY <1>1 DEF IInv, TypeOK
<1>3. running' = t => lockQ' # <<>> /\ Head(lockQ') = t
  BY <1>1, FirstOfLine, MaxCallsAssumption DEF Call
<1>4. TaskMoves(t)
  BY <1>1, <1>2, <1>3 DEF TaskMoves, Active, Asking, StillAwaited
<1>. QED
  BY <1>4, TasksMove

\* A call that is turned down at once never stands in line.
LEMMA TaskTurnedAway ==
  ASSUME IInv, OrderInv, ProgressOK, NEW t \in Call, pc[t] = "idle", running = 0,
         NEW r, EndAtOnce(t, r, "refused"), UNCHANGED wq
  PROVE  ProgressOK'
<1>1. /\ pc'[t] = "refused" /\ UNCHANGED <<res, running, lockQ>>
      /\ \A u \in Call \ {t} : pc'[u] = pc[u] /\ req'[u] = req[u]
  BY DEF EndAtOnce, IInv, TypeOK
<1>2. TaskMoves(t)
  BY <1>1, MaxCallsAssumption DEF TaskMoves, Active, StillAwaited, Call
<1>. QED
  BY <1>2, TasksMove

\* The holder of the lock leaves it, and is no dispatch.
LEMMA TaskLeaves ==
  ASSUME IInv, OrderInv, ProgressOK, NEW t \in Call, HasLock(t),
         pc[t] \in Asking, pc[t] # "lock" \/ req[t].op # "dispatch",
         NEW how, Leave(t, how),
         \/ how \in Finished \cup {"blocked"} /\ UNCHANGED wq
         \/ \E x : how = "mark" /\ x.by = t /\ wq' = Append(wq, x)
  PROVE  ProgressOK'
<1>1. /\ pc'[t] = how /\ running' = 0 /\ UNCHANGED <<req, res>>
      /\ \A u \in Call \ {t} : pc'[u] = pc[u]
  BY DEF Leave, IInv, TypeOK
<1>2. how \in Finished \cup {"blocked", "mark"}
  OBVIOUS
<1>3. StillAwaited(t) /\ (how = "mark" => \E k \in DOMAIN wq' : wq'[k].by = t)
  BY WritesAdded DEF StillAwaited, Finished
<1>4. running \in {0, t} /\ running' # t
  BY <1>1, MaxCallsAssumption DEF HasLock, Call
<1>5. TaskMoves(t)
  BY <1>1, <1>2, <1>3, <1>4 DEF TaskMoves, Active, Asking, Finished
<1>. QED
  BY <1>5, TasksMove

\* A wait_notify asks for the lock: it leaves it to report, or has blocked.
LEMMA TaskReports ==
  ASSUME IInv, OrderInv, ProgressOK, NEW t \in Call,
         \/ HasLock(t) /\ Reacquire(t) /\ pc[t] \in Asking
            /\ (pc[t] # "lock" \/ req[t].op # "dispatch")
         \/ running = 0 /\ pc[t] = "blocked" /\ Acquire(t),
         NEW how \in {"report", "timedout"}, pc' = [pc EXCEPT ![t] = how],
         UNCHANGED <<req, res, wq>>
  PROVE  ProgressOK'
<1>1. /\ pc'[t] = how
      /\ \A u \in Call \ {t} : pc'[u] = pc[u]
  BY DEF IInv, TypeOK
<1>2. running \in {0, t} /\ running' \in {0, t}
  BY DEF HasLock, Acquire, Reacquire
<1>3. running' = t => lockQ' # <<>> /\ Head(lockQ') = t
  BY FirstOfLine, MaxCallsAssumption DEF Acquire, Reacquire, Call
<1>4. TaskMoves(t)
  BY <1>1, <1>2, <1>3 DEF TaskMoves, Active, Asking, StillAwaited
<1>. QED
  BY <1>4, TasksMove

\* A sender holds the lock while it awaits its transaction.
LEMMA TaskSubmits ==
  ASSUME IInv, OrderInv, ProgressOK, NEW t \in Call, HasLock(t), pc[t] = "lock",
         NEW state, NEW envs, SubmitDispatch(t, state, envs)
  PROVE  ProgressOK'
<1>. DEFINE x == [by |-> t, kind |-> "dispatch", conv |-> res[t].conv,
                  isNew |-> res[t].isNew, status |-> state.status,
                  envs |-> envs, marks |-> {}]
<1>1. /\ wq' = Append(wq, x) /\ pc'[t] = "write" /\ running' = 0
      /\ UNCHANGED <<req, res, lockQ>>
      /\ \A u \in Call \ {t} : pc'[u] = pc[u]
  BY DEF SubmitDispatch, IInv, TypeOK
<1>2. x.by = t
  OBVIOUS
<1>. HIDE DEF x
<1>3. StillAwaited(t) /\ \E k \in DOMAIN wq' : wq'[k].by = t
  BY <1>1, <1>2, WritesAdded DEF StillAwaited
<1>4. running \in {0, t} /\ running' # t
  BY <1>1, MaxCallsAssumption DEF HasLock, Call
<1>5. TaskMoves(t)
  BY <1>1, <1>3, <1>4 DEF TaskMoves, Active
<1>. QED
  BY <1>5, TasksMove

\* The worker answers the call that awaits the first transaction.
LEMMA TaskAnswers ==
  ASSUME IInv, OrderInv, ProgressOK, wq # <<>>, NEW ok \in BOOLEAN, running = 0,
         Answer(Head(wq), ok), wq' = Tail(wq), UNCHANGED <<req, res, running, lockQ>>
  PROVE  ProgressOK'
<1>. DEFINE x == Head(wq)
<1>1. x \in Txn /\ x.by \in Call /\ pc[x.by] = AwaitedIn(x)
  BY FirstWrite DEF OrderInv, WritesAwaited
<1>2. /\ \/ x.kind = "dispatch" /\ pc'[x.by] \in {"written", "unwritten"}
         \/ x.kind # "dispatch" /\ pc'[x.by] \in {"done", "failed"}
      /\ \A u \in Call \ {x.by} : pc'[u] = pc[u]
  BY <1>1 DEF Answer, Txn, IInv, TypeOK
<1>3. StillAwaited(x.by)
  <2>1. /\ Len(wq) \in Nat \ {0} /\ DOMAIN wq = 1..Len(wq) /\ Head(wq) = wq[1]
        /\ DOMAIN wq' = 1..(Len(wq) - 1)
        /\ \A k \in 1..(Len(wq) - 1) : wq'[k] = wq[k + 1]
    BY WriteTypes, TailPlaces
  <2>. SUFFICES ASSUME NEW k \in DOMAIN wq, wq[k].by # x.by
                PROVE  \E j \in DOMAIN wq' : wq'[j] = wq[k]
    BY DEF StillAwaited
  <2>2. k # 1 /\ k - 1 \in DOMAIN wq' /\ wq'[k - 1] = wq[k]
    BY <2>1
  <2>. QED
    BY <2>2
<1>4. running' # x.by
  BY <1>1, MaxCallsAssumption DEF Call
<1>. HIDE DEF x
<1>5. TaskMoves(x.by)
  BY <1>1, <1>2, <1>3, <1>4 DEF TaskMoves, Active, AwaitedIn
<1>. QED
  BY <1>1, <1>5, TasksMove

\* close() leaves and turns the blocked calls away.
LEMMA TaskShutdown ==
  ASSUME IInv, OrderInv, ProgressOK, NEW t \in Call, ShutdownLocked(t)
  PROVE  ProgressOK'
<1>1. /\ HasLock(t) /\ pc[t] = "lock" /\ pc'[t] = "done" /\ req[t].op = "shutdown"
      /\ \A u \in Call \ {t} : \/ pc'[u] = pc[u]
                               \/ pc[u] = "blocked" /\ pc'[u] = "refused"
      /\ running' = 0 /\ UNCHANGED <<req, res, wq>>
  BY DEF ShutdownLocked, InLock, disk
<1>2. running \in {0, t} /\ running' # t
  BY <1>1, MaxCallsAssumption DEF HasLock, Call
<1>3. TaskMoves(t)
  BY <1>1, <1>2 DEF TaskMoves, Active, StillAwaited
<1>. QED
  BY <1>3, TasksMove

\* close_thread has sent all its closings and goes for the lock itself.
LEMMA TaskClosesLast ==
  ASSUME IInv, OrderInv, ProgressOK, NEW t \in Call, AllClosingsSent(t)
  PROVE  ProgressOK'
<1>1. /\ pc[t] = "loop" /\ running = t /\ pc'[t] = "lock" /\ Acquire(t)
      /\ UNCHANGED <<req, res, wq>>
      /\ \A u \in Call \ {t} : pc'[u] = pc[u]
  BY DEF AllClosingsSent, IInv, TypeOK, disk
<1>2. WritesUnderWay'
  BY <1>1 DEF ProgressOK, WritesUnderWay
<1>3. LoopsGoOn'
  <2>1. \A u, v \in Call : pc'[u] = "loop" /\ ChildOf(v, u) => ChildOf(v, u)'
    BY <1>1 DEF ChildOf, Active
  <2>. QED
    BY <1>1, <2>1 DEF ProgressOK, LoopsGoOn
<1>4. RunningIsFirst'
  <2>1. running' = t => lockQ' # <<>> /\ Head(lockQ') = t
    BY <1>1, FirstOfLine, MaxCallsAssumption DEF Acquire, Call
  <2>. QED
    BY <1>1, <2>1 DEF RunningIsFirst, Acquire, Asking
<1>5. ChildrenDispatch'
  BY <1>1 DEF ProgressOK, ChildrenDispatch, OrderInv, ParentsWait
<1>. QED
  BY <1>2, <1>3, <1>4, <1>5 DEF ProgressOK

\* A dispatch returns; the close_thread that made it, if any, goes on or fails.
LEMMA TaskReturns ==
  ASSUME IInv, OrderInv, ProgressOK, NEW t \in Call, HasLock(t),
         pc[t] \in {"lock", "written", "unwritten"},
         NEW how \in Finished, LeaveDispatch(t, how), UNCHANGED wq
  PROVE  ProgressOK'
<1>. DEFINE p == res[t].parent
<1>1. /\ UNCHANGED <<req, res>> /\ pc'[t] = how
      /\ \A u \in Call \ {t, p} : pc'[u] = pc[u]
      /\ p = 0 => running' = 0
      /\ p # 0 => /\ p \in Call /\ pc[p] = "loop" /\ p # t
                  /\ \/ pc'[p] = "loop" /\ running' = p
                     \/ pc'[p] = "failed" /\ running' = 0
  BY DispatchReturns
<1>2. running \in {0, t} /\ 0 \notin Call
  BY MaxCallsAssumption DEF HasLock, Call
<1>. HIDE DEF p
<1>3. WritesUnderWay'
  BY <1>1, <1>2 DEF ProgressOK, WritesUnderWay, Finished
<1>4. LoopsGoOn'
  <2>. SUFFICES ASSUME NEW u \in Call, pc'[u] = "loop", running' # u
                PROVE  \E v \in Call : ChildOf(v, u)'
    BY DEF LoopsGoOn
  <2>1. u # t /\ u # p /\ pc[u] = "loop" /\ running # u
    BY <1>1, <1>2 DEF Finished
  <2>2. PICK v \in Call : ChildOf(v, u)
    BY <2>1 DEF ProgressOK, LoopsGoOn
  <2>3. v # t /\ v # p
    BY <1>1, <1>2, <2>1, <2>2 DEF ChildOf, Active, p
  <2>. QED
    BY <1>1, <2>2, <2>3 DEF ChildOf
<1>5. RunningIsFirst'
  BY <1>1 DEF RunningIsFirst
<1>6. ChildrenDispatch'
  BY <1>1, <1>2 DEF ProgressOK, ChildrenDispatch, Finished, Active
<1>. QED
  BY <1>3, <1>4, <1>5, <1>6 DEF ProgressOK

\* close_thread begins: it has the control.
LEMMA TaskBegins ==
  ASSUME IInv, OrderInv, ProgressOK, NEW t \in Call, pc[t] = "idle", running = 0,
         pc' = [pc EXCEPT ![t] = "loop"], NEW local,
         res' = [res EXCEPT ![t] = local], NEW r, req' = [req EXCEPT ![t] = r],
         running' = t, UNCHANGED wq
  PROVE  ProgressOK'
<1>1. /\ pc'[t] = "loop" /\ 0 \notin Call
      /\ \A u \in Call \ {t} : pc'[u] = pc[u] /\ res'[u] = res[u] /\ req'[u] = req[u]
  BY MaxCallsAssumption DEF IInv, TypeOK, Call
<1>2. WritesUnderWay'
  BY <1>1 DEF ProgressOK, WritesUnderWay
<1>3. LoopsGoOn'
  <2>1. \A u, v \in Call : ChildOf(v, u) => ChildOf(v, u)'
    BY <1>1 DEF ChildOf, Active
  <2>. QED
    BY <1>1, <2>1 DEF ProgressOK, LoopsGoOn
<1>4. RunningIsFirst' /\ ChildrenDispatch'
  BY <1>1 DEF RunningIsFirst, ProgressOK, ChildrenDispatch, Active
<1>. QED
  BY <1>2, <1>3, <1>4 DEF ProgressOK

\* close_thread makes its next dispatch, and waits for it if it is let in.
LEMMA TaskClosing ==
  ASSUME IInv, OrderInv, ProgressOK, NEW t \in Call, NextClosing(t)
  PROVE  ProgressOK'
<1>1. PICK to \in res[t].todo, u \in Call :
        LET r    == ClosingMessage(t, to)
            rest == [res EXCEPT ![t].todo = @ \ {to}]
        IN  /\ IsNextCall(u)
            /\ req' = [req EXCEPT ![u] = r]
            /\ \/ /\ pc' = [pc EXCEPT ![u] = "refused", ![t] = "failed"]
                  /\ res' = rest
                  /\ running' = 0
               \/ /\ pc' = [pc EXCEPT ![u] = "refused"]
                  /\ res' = rest
                  /\ UNCHANGED running
               \/ /\ pc' = [pc EXCEPT ![u] = "lock"]
                  /\ res' = [rest EXCEPT ![u] = Start(u, r, t)]
                  /\ Acquire(u)
  BY DEF NextClosing
<1>2. /\ pc[u] = "idle" /\ pc[t] = "loop" /\ u # t /\ running = t
      /\ UNCHANGED wq /\ 0 \notin Call
  BY <1>1, MaxCallsAssumption DEF IsNextCall, Idle, NextClosing, disk, Call
<1>3. /\ \A v \in Call \ {u} : res'[v].parent = res[v].parent /\ req'[v] = req[v]
      /\ \A v \in Call \ {u, t} : pc'[v] = pc[v]
      /\ \/ /\ pc'[u] = "refused"
            /\ \/ pc'[t] = "loop" /\ running' = t
               \/ pc'[t] = "failed" /\ running' = 0
         \/ /\ pc'[u] = "lock" /\ res'[u].parent = t /\ pc'[t] = "loop"
            /\ req'[u].op = "dispatch" /\ Acquire(u)
  <2>. DEFINE rest == [res EXCEPT ![t].todo = @ \ {to}]
              r == ClosingMessage(t, to)
              local == Start(u, r, t)
  <2>1. rest = [v \in Call |-> rest[v]]
    BY DEF IInv, TypeOK
  <2>2. \A v \in Call : rest[v].parent = res[v].parent
    BY DEF IInv, TypeOK, Local
  <2>3. local.parent = t /\ r.op = "dispatch"
    BY DEF Start, NoLocal, ClosingMessage
  <2>. HIDE DEF rest, local, r
  <2>. QED
    BY <1>1, <1>2, <2>1, <2>2, <2>3 DEF rest, local, r, IInv, TypeOK
<1>4. WritesUnderWay'
  BY <1>2, <1>3 DEF ProgressOK, WritesUnderWay
<1>5. LoopsGoOn'
  <2>1. \A v, p \in Call : p # t /\ ChildOf(v, p) => ChildOf(v, p)'
    BY <1>2, <1>3 DEF ChildOf, Active, OrderInv, ParentsWait
  <2>2. pc'[t] = "loop" => running' = t \/ ChildOf(u, t)'
    BY <1>2, <1>3 DEF ChildOf, Active
  <2>. QED
    BY <1>2, <1>3, <2>1, <2>2 DEF ProgressOK, LoopsGoOn
<1>6. RunningIsFirst'
  <2>1. CASE Acquire(u)
    BY <1>2, <1>3, <2>1, FirstOfLine DEF Acquire, RunningIsFirst, Asking
  <2>2. CASE ~Acquire(u)
    BY <1>2, <1>3, <2>2 DEF RunningIsFirst
  <2>. QED
    BY <2>1, <2>2
<1>7. ChildrenDispatch'
  BY <1>2, <1>3 DEF ProgressOK, ChildrenDispatch, Active
<1>. QED
  BY <1>4, <1>5, <1>6, <1>7 DEF ProgressOK

\* Nobody waits for anything after a restart.
LEMMA TaskRestart ==
  ASSUME IInv, Restart
  PROVE  ProgressOK'
<1>1. /\ running' = 0 /\ \A t \in Call : pc'[t] \in Finished \cup {"idle"}
  BY DEF Restart, IInv, TypeOK, Waiting, Finished
<1>. QED
  BY <1>1 DEF ProgressOK, WritesUnderWay, LoopsGoOn, RunningIsFirst, ChildrenDispatch,
     Active, Finished

\* A step that leaves the tasks and the write queue alone.
LEMMA TaskStays ==
  ASSUME ProgressOK, UNCHANGED <<tasks, wq>>
  PROVE  ProgressOK'
BY DEF ProgressOK, WritesUnderWay, LoopsGoOn, RunningIsFirst, ChildrenDispatch, ChildOf,
   tasks

\* Entering any call.
LEMMA TaskEnter ==
  ASSUME IInv, OrderInv, ProgressOK, Enter
  PROVE  ProgressOK'
<1>1. PICK t \in Call, r \in Requests : MayEnter(t) /\ EnterWith(t, r)
  BY DEF Enter
<1>2. pc[t] = "idle" /\ running = 0
  BY <1>1, NotYetStarted DEF MayEnter
<1>3. /\ \A q : Start(t, q, 0).parent = 0
      /\ NoLocal.parent = 0
  BY DEF Start, NoLocal
<1>5. UNCHANGED wq
  BY <1>1 DEF EnterWith, EnterDispatch, EnterReply, EnterBroadcast, EnterEmit,
     EnterMailbox, EnterCancel, EnterCloseThread, EnterOperatorClose,
     EnterShutdown, disk
<1>6. CASE \E q : EndAtOnce(t, q, "refused")
  BY <1>2, <1>5, <1>6, TaskTurnedAway
<1>7. CASE \E q, local : GoForLock(t, q, local) /\ local.parent = 0
  BY <1>2, <1>5, <1>7, TaskEnters
<1>8. CASE EnterDispatch(t, r) \/ EnterBroadcast(t, r)
  BY <1>3, <1>6, <1>7, <1>8 DEF EnterDispatch, EnterBroadcast
<1>9. CASE EnterReply(t, r)
  <2>1. \/ EndAtOnce(t, r, "refused")
        \/ EndAtOnce(t, ReplyAsDispatch(r), "refused")
        \/ GoForLock(t, ReplyAsDispatch(r), Start(t, ReplyAsDispatch(r), 0))
    BY <1>9 DEF EnterReply
  <2>. QED
    BY <1>3, <1>6, <1>7, <2>1
<1>11. CASE EnterEmit(t, r)
  <2>1. EndAtOnce(t, r, "refused") \/ \E q : GoForLock(t, q, Start(t, r, 0))
    BY <1>11 DEF EnterEmit
  <2>. QED
    BY <1>3, <1>6, <1>7, <2>1
<1>12. CASE EnterMailbox(t, r) \/ EnterCancel(t, r) \/ EnterShutdown(t, r)
  BY <1>3, <1>6, <1>7, <1>12 DEF EnterMailbox, EnterCancel, EnterShutdown
<1>14. CASE EnterOperatorClose(t, r)
  <2>. DEFINE local == [NoLocal EXCEPT !.conv = r.conv, !.born = conv[r.conv].born]
  <2>1. local.parent = 0
    BY DEF NoLocal
  <2>2. EndAtOnce(t, r, "refused") \/ GoForLock(t, r, local)
    BY <1>14 DEF EnterOperatorClose
  <2>. HIDE DEF local
  <2>. QED
    BY <1>6, <1>7, <2>1, <2>2
<1>16. CASE EnterCloseThread(t, r)
  <2>. DEFINE local == [NoLocal EXCEPT !.conv = r.conv, !.born = conv[r.conv].born,
                                       !.todo = OtherPrimaries(r.conv, r.src)]
  <2>1. \/ EndAtOnce(t, r, "refused")
        \/ /\ pc' = [pc EXCEPT ![t] = "loop"]
           /\ res' = [res EXCEPT ![t] = local]
           /\ req' = [req EXCEPT ![t] = r]
           /\ running' = t
    BY <1>16 DEF EnterCloseThread
  <2>. HIDE DEF local
  <2>. QED
    BY <1>2, <1>5, <1>6, <2>1, TaskBegins
<1>. QED
  BY <1>1, <1>8, <1>9, <1>11, <1>12, <1>14, <1>16 DEF EnterWith

\* Every step of a started call.
LEMMA TaskStep ==
  ASSUME IInv, OrderInv, ProgressOK, NEW t \in Call, Step(t)
  PROVE  ProgressOK'
<1>1. CASE DispatchLocked(t) \/ BroadcastLocked(t) \/ EmitLocked(t)
  <2>1. HasLock(t) /\ pc[t] = "lock"
    BY <1>1 DEF DispatchLocked, BroadcastLocked, EmitLocked, InLock
  <2>2. \E state, envs : SubmitDispatch(t, state, envs)
    BY <1>1 DEF DispatchLocked, BroadcastLocked, EmitLocked
  <2>. QED
    BY <2>1, <2>2, TaskSubmits
<1>2. CASE DispatchTurnedDown(t)
  BY <1>2, TaskReturns DEF DispatchTurnedDown, InLock, disk, Finished
<1>3. CASE Resume(t)
  BY <1>3, TaskReturns DEF Resume, disk, Finished
<1>4. CASE TurnedDown(t)
  BY <1>4, TaskLeaves DEF TurnedDown, InLock, disk, Finished, Asking
<1>5. CASE Report(t)
  BY <1>5, TaskLeaves DEF Report, disk, Finished, Asking
<1>6. CASE FlushLocked(t) \/ CancelLocked(t)
  <2>1. HasLock(t) /\ pc[t] \in Asking /\ req[t].op # "dispatch"
    BY <1>6 DEF FlushLocked, CancelLocked, InLock, Asking
  <2>2. \/ Leave(t, "done") /\ UNCHANGED wq
        \/ \E envs : LeaveToWrite(t, Marks(t, envs))
    BY <1>6 DEF FlushLocked, CancelLocked
  <2>3. \A envs : Marks(t, envs).by = t
    BY DEF Marks
  <2>. QED
    BY <2>1, <2>2, <2>3, TaskLeaves DEF LeaveToWrite, Finished
<1>7. CASE OperatorCloseLocked(t)
  <2>. DEFINE x == [by |-> t, kind |-> "status", conv |-> res[t].conv,
                    isNew |-> FALSE, status |-> "closed", envs |-> {}, marks |-> {}]
  <2>1. /\ HasLock(t) /\ pc[t] \in Asking /\ LeaveToWrite(t, x)
        /\ req[t].op # "dispatch"
    BY <1>7 DEF OperatorCloseLocked, InLock, Asking
  <2>2. x.by = t
    OBVIOUS
  <2>. HIDE DEF x
  <2>. QED
    BY <2>1, <2>2, TaskLeaves DEF LeaveToWrite
<1>8. CASE CloseThreadLocked(t) \/ NotifyLocked(t)
  <2>1. /\ HasLock(t) /\ pc[t] \in Asking /\ Leave(t, "done") /\ UNCHANGED wq
        /\ req[t].op # "dispatch"
    BY <1>8 DEF CloseThreadLocked, NotifyLocked, InLock, Asking, disk
  <2>. QED
    BY <2>1, TaskLeaves DEF Finished
<1>9. CASE WaitLocked(t)
  <2>1. /\ HasLock(t) /\ pc[t] \in Asking /\ UNCHANGED wq /\ req[t].op # "dispatch"
        /\ \/ Leave(t, "blocked")
           \/ /\ pc' = [pc EXCEPT ![t] = "report"]
              /\ Reacquire(t) /\ UNCHANGED <<req, res>>
    BY <1>9 DEF WaitLocked, InLock, Asking, disk
  <2>. QED
    BY <2>1, TaskLeaves, TaskReports
<1>10. CASE TimedOutLocked(t) \/ Woken(t)
  BY <1>10, TaskReports DEF TimedOutLocked, Woken, Asking, disk
<1>12. CASE AllClosingsSent(t)
  BY <1>12, TaskClosesLast
<1>13. CASE ShutdownLocked(t)
  BY <1>13, TaskShutdown
<1>14. CASE NextClosing(t)
  BY <1>14, TaskClosing
<1>. QED
  BY <1>1, <1>2, <1>3, <1>4, <1>5, <1>6, <1>7, <1>8, <1>9, <1>10, <1>12, <1>13,
     <1>14 DEF Step

\* ProgressOK is kept by every step.
LEMMA TasksStay == IInv /\ OrderInv /\ ProgressOK /\ [Next]_vars => ProgressOK'
<1>. SUFFICES ASSUME IInv, OrderInv, ProgressOK, [Next]_vars PROVE ProgressOK'
  OBVIOUS
<1>1. CASE Enter
  BY <1>1, TaskEnter
<1>2. CASE \E t \in Call : Step(t)
  BY <1>2, TaskStep
<1>3. CASE \E t \in Call : TimeOut(t)
  BY <1>3, TaskReports DEF TimeOut, disk
<1>4. CASE Commit
  BY <1>4, TaskAnswers DEF Commit, Applied
<1>5. CASE WriteError
  BY <1>5, TaskAnswers DEF WriteError
<1>6. CASE ExpireDeadlines \/ CloseTTL \/ MessageGC \/ Rest \/ UNCHANGED vars
  BY <1>6, TaskStays
  DEF ExpireDeadlines, CloseTTL, MessageGC, Rest, vars, disk, tasks
<1>7. CASE Restart
  BY <1>7, TaskRestart
<1>. QED
  BY <1>1, <1>2, <1>3, <1>4, <1>5, <1>6, <1>7 DEF Next

\* Whoever is first in line, or has submitted a transaction, can go on.
LEMMA TasksGoOn ==
  ASSUME IInv, OrderInv, ProgressOK
  PROVE  SomebodyCanGoOn
<1>. SUFFICES ASSUME NEW t \in Call, pc[t] \in Waiting \ {"blocked"}
              PROVE  \/ running = 0 /\ wq # <<>>
                     \/ \E u \in Call :
                          HasLock(u) /\ pc[u] \in Asking \cup {"written", "unwritten"}
                     \/ \E u \in Call : running = u /\ pc[u] = "loop"
  BY DEF SomebodyCanGoOn
<1>1. CASE running # 0
  <2>1. running \in Call
    BY <1>1, MaxCallsAssumption DEF IInv, TypeOK, Call
  <2>. QED
    BY <1>1, <2>1 DEF ProgressOK, RunningIsFirst, HasLock
<1>2. CASE running = 0 /\ \E u \in Call : pc[u] \in {"write", "mark"}
  BY <1>2 DEF ProgressOK, WritesUnderWay
<1>3. CASE running = 0 /\ \A u \in Call : pc[u] \notin {"write", "mark"}
  <2>1. \E u \in Call : pc[u] \in InLine
    <3>1. CASE pc[t] = "loop"
      BY <1>3, <3>1, MaxCallsAssumption
      DEF ProgressOK, LoopsGoOn, ChildOf, Active, InLine, Asking, Call
    <3>2. CASE pc[t] # "loop"
      BY <1>3, <3>2 DEF Waiting, InLine, Asking
    <3>. QED
      BY <3>1, <3>2
  <2>2. lockQ # <<>> /\ lockQ \in Seq(Call)
    BY <2>1 DEF OrderInv, LineOK, IInv, TypeOK
  <2>3. 1 \in DOMAIN lockQ /\ Head(lockQ) = lockQ[1] /\ lockQ[1] \in Call
    BY <2>2
  <2>4. pc[lockQ[1]] \in InLine
    BY <2>3 DEF OrderInv, LineOK
  <2>. QED
    BY <1>3, <2>2, <2>3, <2>4 DEF HasLock, InLine
<1>. QED
  BY <1>1, <1>2, <1>3

\* No two calls wait for each other, and none waits for what nobody will do: the
\* lock, the write queue and close_thread's own dispatches cannot form a cycle
\* (dispatcher.py:320 releases the lock on every way out of a dispatch, and
\* persistence.py:511-521 answers every transaction that the writer takes).
THEOREM NobodyIsStuck == Spec => []SomebodyCanGoOn
<1>1. Init => ProgressOK
  BY MaxCallsAssumption DEF Init, ProgressOK, WritesUnderWay, LoopsGoOn, RunningIsFirst,
     ChildrenDispatch, Active
<1>. QED
  BY <1>1, TasksStay, TasksGoOn, InvariantHolds, OrderHolds, PTL DEF Spec

-------------------------------------------------------------------------------
(***************************************************************************)
(* NoLostWakeup is preserved by every step that leaves mail alone, that    *)
(* delivers with a wake, or that only empties inboxes and frees waiters.   *)
(***************************************************************************)
LEMMA DeliveredWakes ==
  ASSUME NoLostWakeup, NEW envs, Deliver(envs)
  PROVE  NoLostWakeup'
BY DEF NoLostWakeup, Deliver

\* Taking mail or waiters away loses no wake-up.
LEMMA MailShrinks ==
  ASSUME NoLostWakeup,
         \A i \in Ids : queues'[i] \subseteq queues[i] /\ waiters'[i] \subseteq waiters[i]
  PROVE  NoLostWakeup'
<1>1. ASSUME NEW i \in Ids, waiters'[i] # {} PROVE queues'[i] = {}
  BY <1>1 DEF NoLostWakeup
<1>. QED
  BY <1>1 DEF NoLostWakeup

\* wait_notify registers its future only for an empty inbox.
LEMMA WaitKeepsMail ==
  ASSUME IInv, NoLostWakeup, NEW t \in Call, WaitLocked(t)
  PROVE  NoLostWakeup'
<1>. DEFINE i == req[t].src
<1>1. UNCHANGED queues
  BY DEF WaitLocked
<1>2. CASE queues[i] = {}
  <2>1. waiters' = [waiters EXCEPT ![i] = @ \cup {t}]
    BY <1>2 DEF WaitLocked
  <2>2. \A j \in Ids : j # i => waiters'[j] = waiters[j]
    BY <2>1 DEF IInv, TypeOK
  <2>. QED
    BY <1>1, <1>2, <2>2 DEF NoLostWakeup
<1>3. CASE queues[i] # {}
  BY <1>1, <1>3 DEF WaitLocked, NoLostWakeup
<1>. QED
  BY <1>2, <1>3

\* No step of a started call loses a wake-up.
LEMMA StepKeepsMail ==
  ASSUME IInv, NoLostWakeup, NEW t \in Call, Step(t)
  PROVE  NoLostWakeup'
<1>1. CASE UNCHANGED mail
  BY <1>1 DEF mail, NoLostWakeup
<1>2. CASE DispatchLocked(t) \/ BroadcastLocked(t) \/ EmitLocked(t) \/ NotifyLocked(t)
  BY <1>2, DeliveredWakes DEF DispatchLocked, BroadcastLocked, EmitLocked, NotifyLocked
<1>3. CASE FlushLocked(t)
  <2>1. /\ waiters' = waiters
        /\ queues' = [queues EXCEPT ![req[t].src] =
             @ \ {e \in queues[req[t].src] : Matches(req[t], e)}]
    BY <1>3 DEF FlushLocked, Kept
  <2>. QED
    BY <2>1, MailShrinks DEF IInv, TypeOK
<1>4. CASE CancelLocked(t)
  <2>1. /\ waiters' = waiters
        /\ \E back : queues' = [i \in Ids |-> queues[i] \ back]
    BY <1>4 DEF CancelLocked
  <2>. QED
    BY <2>1, MailShrinks
<1>5. CASE TimedOutLocked(t)
  <2>1. queues' = queues /\ waiters' = [waiters EXCEPT ![req[t].src] = @ \ {t}]
    BY <1>5 DEF TimedOutLocked
  <2>. QED
    BY <2>1, MailShrinks DEF IInv, TypeOK
<1>6. CASE ShutdownLocked(t)
  BY <1>6 DEF ShutdownLocked, NoLostWakeup
<1>7. CASE WaitLocked(t)
  BY <1>7, WaitKeepsMail
<1>. QED
  BY <1>1, <1>2, <1>3, <1>4, <1>5, <1>6, <1>7
  DEF Step, DispatchTurnedDown, TurnedDown, Resume, Woken, Report, NextClosing,
      AllClosingsSent, CloseThreadLocked, OperatorCloseLocked

\* A long-poll that is registered for an inbox finds it empty, whatever calls,
\* sweeps and restarts come between its look at the queue and its wait.
THEOREM WakeupsAreNotLost == Spec => []NoLostWakeup
<1>1. Init => NoLostWakeup
  BY DEF Init, NoLostWakeup
<1>2. IInv /\ NoLostWakeup /\ [Next]_vars => NoLostWakeup'
  <2>. SUFFICES ASSUME IInv, NoLostWakeup, [Next]_vars PROVE NoLostWakeup'
    OBVIOUS
  <2>1. CASE UNCHANGED mail
    BY <2>1 DEF mail, NoLostWakeup
  <2>2. CASE Enter
    <3>1. UNCHANGED mail
      BY <2>2 DEF Enter, EnterWith, EnterDispatch, EnterReply, EnterBroadcast,
         EnterEmit, EnterMailbox, EnterCancel, EnterCloseThread,
         EnterOperatorClose, EnterShutdown
    <3>. QED
      BY <2>1, <3>1
  <2>3. CASE \E t \in Call : Step(t)
    BY <2>3, StepKeepsMail
  <2>4. CASE ExpireDeadlines
    BY <2>4, DeliveredWakes DEF ExpireDeadlines
  <2>5. CASE Restart
    BY <2>5 DEF Restart, NoLostWakeup
  <2>. QED
    BY <2>1, <2>2, <2>3, <2>4, <2>5
    DEF Next, TimeOut, Commit, WriteError, CloseTTL, MessageGC, Rest, vars
<1>. QED
  BY <1>1, <1>2, InvariantHolds, PTL DEF Spec

-------------------------------------------------------------------------------
(***************************************************************************)
(* InFlightHasDeadline: edges and deadlines are two dictionaries; a step   *)
(* that adds an edge or removes a deadline looks after the other.          *)
(***************************************************************************)
LEMMA AskedInTime ==
  ASSUME InFlightHasDeadline, NEW t \in Call, NEW asked,
         inFlight' \subseteq inFlight \cup Ask(t, asked),
         deadlines' = WithDeadline(t, asked)
  PROVE  InFlightHasDeadline'
<1>1. deadlines \subseteq deadlines' /\ (asked # {} => t \in deadlines')
  BY DEF WithDeadline
<1>2. \A x \in Ask(t, asked) : x.cmd = t /\ asked # {}
  BY DEF Ask
<1>. QED
  BY <1>1, <1>2 DEF InFlightHasDeadline

\* the questions of a command all come from its sender: when he takes the
\* command back, with its deadline, none of them is left
LEMMA CancelTakesAll ==
  ASSUME IInv, InFlightHasDeadline, NEW t \in Call, CancelLocked(t)
  PROVE  InFlightHasDeadline'
<1>1. req[req[t].irt].src = req[t].src
  BY DEF CancelLocked, InLock, IInv, CallsOK, CallOK, Started
<1>2. /\ inFlight' = inFlight \ {x \in inFlight : /\ x.from = req[t].src
                                                  /\ x.cmd = req[t].irt}
      /\ deadlines' = deadlines \ {req[t].irt}
  BY DEF CancelLocked
<1>3. \A x \in inFlight' : x \in inFlight /\ x.cmd # req[t].irt
  BY <1>1, <1>2 DEF IInv, EdgesOK
<1>. QED
  BY <1>2, <1>3 DEF InFlightHasDeadline

\* A restart gives every restored edge of a worker a deadline.
LEMMA RestoredInTime ==
  ASSUME NEW back, Reload(back)
  PROVE  InFlightHasDeadline'
<1>. SUFFICES ASSUME NEW x \in inFlight', x.to \in Workers \ {x.from}
              PROVE  x.cmd \in deadlines'
  BY DEF InFlightHasDeadline
<1>1. PICK e \in back : /\ ExpectsResult(e)
                        /\ x = [from |-> e.source, cmd |-> e.cmd, to |-> e.target]
  BY DEF Reload, RestoredEdges, EdgesOf
<1>2. HasDeadline(e)
  BY <1>1 DEF HasDeadline
<1>. QED
  BY <1>1, <1>2 DEF Reload

\* No step of a started call leaves an edge without its deadline.
LEMMA StepKeepsDeadlines ==
  ASSUME IInv, InFlightHasDeadline, NEW t \in Call, Step(t)
  PROVE  InFlightHasDeadline'
<1>1. CASE UNCHANGED flights
  BY <1>1 DEF flights, InFlightHasDeadline
<1>2. CASE DispatchLocked(t)
  <2>1. \E asked : /\ inFlight' = (inFlight \cup Ask(t, asked)) \ Answers(t)
                   /\ deadlines' = WithDeadline(t, asked)
    BY <1>2 DEF DispatchLocked
  <2>. QED
    BY <2>1, AskedInTime
<1>3. CASE BroadcastLocked(t)
  <2>1. \E asked : /\ inFlight' = inFlight \cup Ask(t, asked)
                   /\ deadlines' = WithDeadline(t, asked)
    BY <1>3 DEF BroadcastLocked
  <2>. QED
    BY <2>1, AskedInTime
<1>4. CASE CancelLocked(t)
  BY <1>4, CancelTakesAll
<1>. QED
  BY <1>1, <1>2, <1>3, <1>4
  DEF Step, EmitLocked, FlushLocked, WaitLocked, TimedOutLocked, NotifyLocked,
      ShutdownLocked, DispatchTurnedDown, TurnedDown, Resume, Woken, Report,
      NextClosing, AllClosingsSent, CloseThreadLocked, OperatorCloseLocked

\* Every result expected of another worker can time out: no reply, cancel,
\* sweep, restart or broadcast leaves an edge without its deadline.
THEOREM QuestionsHaveDeadlines == Spec => []InFlightHasDeadline
<1>1. Init => InFlightHasDeadline
  BY DEF Init, InFlightHasDeadline
<1>2. IInv /\ InFlightHasDeadline /\ [Next]_vars => InFlightHasDeadline'
  <2>. SUFFICES ASSUME IInv, InFlightHasDeadline, [Next]_vars
                PROVE  InFlightHasDeadline'
    OBVIOUS
  <2>1. CASE UNCHANGED flights
    BY <2>1 DEF flights, InFlightHasDeadline
  <2>2. CASE Enter
    <3>1. UNCHANGED flights
      BY <2>2 DEF Enter, EnterWith, EnterDispatch, EnterReply, EnterBroadcast,
         EnterEmit, EnterMailbox, EnterCancel, EnterCloseThread,
         EnterOperatorClose, EnterShutdown
    <3>. QED
      BY <2>1, <3>1
  <2>3. CASE \E t \in Call : Step(t)
    BY <2>3, StepKeepsDeadlines
  <2>4. CASE ExpireDeadlines
    <3>1. \E due : /\ inFlight' = inFlight \ {x \in inFlight : x.cmd \in due}
                   /\ deadlines' = deadlines \ due
      BY <2>4 DEF ExpireDeadlines
    <3>. QED
      BY <3>1 DEF InFlightHasDeadline
  <2>5. CASE Restart
    BY <2>5, RestoredInTime DEF Restart
  <2>. QED
    BY <2>1, <2>2, <2>3, <2>4, <2>5
    DEF Next, TimeOut, Commit, WriteError, CloseTTL, MessageGC, Rest, vars
<1>. QED
  BY <1>1, <1>2, InvariantHolds, PTL DEF Spec
===============================================================================
