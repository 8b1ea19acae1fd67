----------------------------- MODULE ClientsProofs -----------------------------
(***************************************************************************)
(* Proofs about Clients: its types, and that a bot answers a message once, *)
(* whatever batches it drains and wherever the broker dies.                *)
(*                                                                         *)
(* OneReply is about the message a bot finished last.  What makes it       *)
(* inductive is that the library's flag tells, at every moment, whether    *)
(* the handler has emitted for the message at hand.                        *)
(***************************************************************************)
EXTENDS Clients, SequenceTheorems, TLAPS

FlagIsTrue(b) == replies[b] = IF bot[b].emitted THEN {"direct"} ELSE {}

AtHand(b) == bot[b].pc \in {"handling", "handled"} => bot[b].batch # <<>>

IInv ==
  /\ TypeOK
  /\ \A b \in Bots : FlagIsTrue(b) /\ AtHand(b)
  /\ OneReply

\* what a bot is
BotState == [pc : BotPc, batch : Seq(Clients), emitted : BOOLEAN,
             outcome : Outcome, starts : 0 .. MaxStarts]
LastState == [outcome : Outcome, replies : SUBSET ReplyKind]

\* the invariant of one bot
BotOK(state, said, done) ==
  /\ state \in BotState
  /\ said = IF state.emitted THEN {"direct"} ELSE {}
  /\ state.pc \in {"handling", "handled"} => state.batch # <<>>
  /\ done \in LastState
  /\ done.outcome = "value" => done.replies \in {{"direct"}, {"auto"}}
  /\ done.outcome = "silent" => done.replies \subseteq {"direct"}
  /\ done.outcome = "raised" => "auto" \notin done.replies

BotsOK ==
  /\ bot = [b \in Bots |-> bot[b]]
  /\ replies = [b \in Bots |-> replies[b]]
  /\ last = [b \in Bots |-> last[b]]
  /\ \A b \in Bots : BotOK(bot[b], replies[b], last[b])

BrokerOK ==
  /\ up \in BOOLEAN /\ restarts \in 0 .. MaxRestarts /\ sent \in 0 .. MaxMessages
  /\ inbox \in [Clients -> Seq(Clients)]
  /\ registry \in [Clients -> Known] /\ session \subseteq Clients

WorkersOK ==
  /\ adapter \in [Workers -> [pc : AdapterPc, since : 0 .. Reemit - 1]]
  /\ host \in [Workers -> [alive : BOOLEAN, woken : BOOLEAN]]

\* IInv speaks of the broker, of the workers and of the bots separately.
LEMMA Parts == IInv <=> BrokerOK /\ WorkersOK /\ BotsOK
<1>1. IInv => BrokerOK /\ WorkersOK
  BY DEF IInv, TypeOK, BrokerOK, WorkersOK
<1>2. ASSUME IInv PROVE BotsOK
  <2>1. /\ bot \in [Bots -> BotState] /\ replies \in [Bots -> SUBSET ReplyKind]
        /\ last \in [Bots -> LastState]
    BY <1>2 DEF IInv, TypeOK, BotState, LastState
  <2>2. \A b \in Bots : last[b].outcome \in Outcome
    BY <2>1 DEF LastState
  <2> HIDE DEF BotState, LastState
  <2>3. \A b \in Bots : bot[b] \in BotState /\ last[b] \in LastState
    BY <2>1
  <2>4. \A b \in Bots :
          /\ last[b].outcome = "value" => last[b].replies \in {{"direct"}, {"auto"}}
          /\ last[b].outcome = "silent" => last[b].replies \subseteq {"direct"}
          /\ last[b].outcome = "raised" => "auto" \notin last[b].replies
    BY <1>2 DEF IInv, OneReply
  <2> QED
    BY <1>2, <2>1, <2>3, <2>4 DEF BotsOK, BotOK, IInv, FlagIsTrue, AtHand
<1>3. ASSUME BrokerOK, WorkersOK, BotsOK PROVE IInv
  <2>1. /\ bot \in [Bots -> BotState] /\ last \in [Bots -> LastState]
        /\ replies \in [Bots -> SUBSET ReplyKind]
    <3> HIDE DEF BotState, LastState
    <3> QED
      BY <1>3 DEF BotsOK, BotOK, ReplyKind
  <2>2. TypeOK
    BY <1>3, <2>1 DEF TypeOK, BrokerOK, WorkersOK, BotState, LastState
  <2>3. \A b \in Bots : FlagIsTrue(b) /\ AtHand(b)
    BY <1>3 DEF BotsOK, BotOK, FlagIsTrue, AtHand
  <2>4. OneReply
    <3>1. \A b \in Bots : last[b].outcome \in Outcome
      BY <2>1 DEF LastState
    <3> QED
      BY <1>3, <3>1 DEF BotsOK, BotOK, OneReply, Outcome
  <2> QED
    BY <2>2, <2>3, <2>4 DEF IInv
<1> QED
  BY <1>1, <1>2, <1>3

\* IInv holds at the start.
LEMMA InitIInv == Init => IInv
<1> SUFFICES ASSUME Init PROVE BrokerOK /\ WorkersOK /\ BotsOK
  BY Parts
<1>1. BrokerOK
  BY ClientsAssumption DEF Init, Known, BrokerOK
<1>2. WorkersOK
  BY ClientsAssumption DEF Init, WorkersOK, AdapterPc
<1>3. BotsOK
  BY ClientsAssumption
     DEF Init, BotsOK, BotOK, BotState, LastState, BotPc, Outcome, Nothing, ReplyKind
<1> QED
  BY <1>1, <1>2, <1>3

-------------------------------------------------------------------------------
\* The broker's side of a bot_emit or a dispatch.
LEMMA EnqueueOK ==
  ASSUME BrokerOK, NEW from \in Clients, NEW to, Enqueue(from, to)
  PROVE  sent' \in 0 .. MaxMessages /\ inbox' \in [Clients -> Seq(Clients)]
<1>1. \A c \in Clients : Append(inbox[c], from) \in Seq(Clients)
  BY DEF BrokerOK
<1> QED
  BY <1>1, ClientsAssumption DEF BrokerOK, Enqueue

\* One bot changes: to what is all right, if the rest is as it was.
LEMMA BotChanges ==
  ASSUME BotsOK, NEW b \in Bots, NEW state, NEW said, NEW done,
         BotOK(state, said, done),
         bot' = [bot EXCEPT ![b] = state],
         replies' = [replies EXCEPT ![b] = said],
         last' = [last EXCEPT ![b] = done]
  PROVE  BotsOK'
<1>1. \A c \in Bots : /\ bot'[c] = IF c = b THEN state ELSE bot[c]
                      /\ replies'[c] = IF c = b THEN said ELSE replies[c]
                      /\ last'[c] = IF c = b THEN done ELSE last[c]
  BY DEF BotsOK
<1>2. /\ bot' = [c \in Bots |-> bot'[c]] /\ replies' = [c \in Bots |-> replies'[c]]
      /\ last' = [c \in Bots |-> last'[c]]
  BY DEF BotsOK
<1>3. \A c \in Bots : BotOK(bot'[c], replies'[c], last'[c])
  <2> HIDE DEF BotOK
  <2> QED
    BY <1>1 DEF BotsOK
<1> QED
  BY <1>2, <1>3 DEF BotsOK

\* ... and nothing changes of it.
LEMMA BotsStay ==
  ASSUME BotsOK, UNCHANGED <<bot, replies, last>>
  PROVE  BotsOK'
BY DEF BotsOK

DoneOK(done) ==
  /\ done \in LastState
  /\ done.outcome = "value" => done.replies \in {{"direct"}, {"auto"}}
  /\ done.outcome = "silent" => done.replies \subseteq {"direct"}
  /\ done.outcome = "raised" => "auto" \notin done.replies

\* A step that records no outcome keeps the recorded ones.
LEMMA SameLast ==
  ASSUME BotsOK, NEW b \in Bots, UNCHANGED last
  PROVE  last' = [last EXCEPT ![b] = last[b]] /\ DoneOK(last[b])
BY DEF BotsOK, BotOK, DoneOK

\* The next batch, or the rest of this one.
LEMMA ServeOK ==
  ASSUME BotsOK, NEW b \in Bots, NEW batch \in Seq(Clients), Serve(b, batch),
         NEW done, DoneOK(done), last' = [last EXCEPT ![b] = done]
  PROVE  BotsOK'
<1> DEFINE state == [bot[b] EXCEPT !.pc = IF batch = <<>> THEN "waiting" ELSE "handling",
                                   !.batch = batch, !.emitted = FALSE,
                                   !.outcome = "silent"]
<1>1. bot[b] \in BotState
  BY DEF BotsOK, BotOK
<1>2. BotOK(state, {}, done)
  BY <1>1 DEF BotOK, DoneOK, BotState, BotPc, Outcome
<1>3. bot' = [bot EXCEPT ![b] = state] /\ replies' = [replies EXCEPT ![b] = {}]
  BY DEF Serve
<1> HIDE DEF state
<1> QED
  BY <1>2, <1>3, BotChanges

\* A bot that has handled nothing yet has nothing to answer for.
LEMMA NothingOK == DoneOK(Nothing)
BY DEF DoneOK, Nothing, LastState, Outcome, ReplyKind

\* A bot that ends leaves the others as they are.
LEMMA EndedOK ==
  ASSUME BotsOK, NEW b \in Bots, Ended(b)
  PROVE  BotsOK'
<1> DEFINE state == [bot[b] EXCEPT !.pc = "gone", !.batch = <<>>, !.emitted = FALSE,
                                   !.outcome = "silent"]
<1>1. bot[b] \in BotState
  BY DEF BotsOK, BotOK
<1>2. BotOK(state, {}, Nothing)
  <2>1. /\ state \in BotState /\ ~state.emitted
        /\ state.pc = "gone"
    <3>1. <<>> \in Seq(Clients) /\ "gone" \in BotPc /\ "silent" \in Outcome
      BY DEF BotPc, Outcome
    <3> HIDE DEF Clients, BotPc, Outcome
    <3> QED
      BY <1>1, <3>1 DEF BotState
  <2> QED
    BY <2>1, NothingOK DEF BotOK, DoneOK
<1>3. /\ bot' = [bot EXCEPT ![b] = state] /\ replies' = [replies EXCEPT ![b] = {}]
      /\ last' = [last EXCEPT ![b] = Nothing]
  BY DEF Ended
<1> HIDE DEF state
<1> QED
  BY <1>2, <1>3, BotChanges

\* What is done with a message that has been handled.
LEMMA FinishOK ==
  ASSUME BotsOK, NEW b \in Bots, bot[b].pc = "handled",
         NEW emission \in SUBSET ReplyKind, Finish(b, emission),
         DoneOK([outcome |-> bot[b].outcome, replies |-> replies[b] \cup emission])
  PROVE  BotsOK'
<1>1. bot[b] \in BotState /\ bot[b].batch # <<>>
  BY DEF BotsOK, BotOK
<1>2. bot[b].batch \in Seq(Clients)
  BY <1>1 DEF BotState
<1>3. Tail(bot[b].batch) \in Seq(Clients)
  BY <1>1, <1>2
<1> QED
  BY <1>3, ServeOK DEF Finish

-------------------------------------------------------------------------------
\* The broker's own steps keep IInv.
LEMMA BrokerSteps ==
  ASSUME IInv,
         \/ \E from \in Workers, to \in Clients : Send(from, to)
         \/ Crash \/ Boot
         \/ \E c \in Clients : Age(c) \/ Sweep(c)
  PROVE  IInv'
<1>0. BrokerOK /\ WorkersOK /\ BotsOK
  BY Parts
<1>1. UNCHANGED <<adapter, host, bot, replies, last>>
  BY DEF Send, Crash, Boot, Age, Sweep
<1>2. WorkersOK' /\ BotsOK'
  BY <1>0, <1>1, BotsStay DEF WorkersOK
<1>3. BrokerOK'
  <2>1. ASSUME NEW from \in Workers, NEW to \in Clients, Send(from, to) PROVE BrokerOK'
    <3>1. sent' \in 0 .. MaxMessages /\ inbox' \in [Clients -> Seq(Clients)]
      BY <1>0, <2>1, EnqueueOK DEF Send, Clients
    <3> QED
      BY <1>0, <2>1, <3>1 DEF Send, BrokerOK
  <2>2. CASE Crash
    <3>1. restarts' \in 0 .. MaxRestarts
      BY <1>0, <2>2, ClientsAssumption DEF Crash, BrokerOK
    <3>2. inbox' \in [Clients -> Seq(Clients)]
      BY <1>0, <2>2 DEF Crash, BrokerOK
    <3> QED
      BY <1>0, <2>2, <3>1, <3>2 DEF Crash, Known, BrokerOK
  <2>3. CASE Boot
    BY <1>0, <2>3 DEF Boot, BrokerOK
  <2>4. ASSUME NEW c \in Clients, Age(c) \/ Sweep(c) PROVE BrokerOK'
    BY <1>0, <2>4 DEF Age, Sweep, Known, BrokerOK
  <2> QED
    BY <2>1, <2>2, <2>3, <2>4
<1> QED
  BY <1>2, <1>3, Parts, PTL

\* So do those of the workers and their adapters.
LEMMA WorkerSteps ==
  ASSUME IInv, NEW w \in Workers,
         Request(w) \/ Drain(w) \/ Forget(w) \/ Exit(w) \/ AdapterNext(w)
  PROVE  IInv'
<1>0. BrokerOK /\ WorkersOK /\ BotsOK /\ w \in Clients
  BY Parts DEF Clients
<1>1. UNCHANGED <<bot, replies, last>>
  BY DEF Request, Drain, Forget, Exit, AdapterNext, Connect, BackOff, Wait, Pause, Emit,
         Peek, Eof, Unregister
<1>2. BotsOK'
  BY <1>0, <1>1, BotsStay
<1>3. BrokerOK'
  <2>1. CASE Request(w) \/ Forget(w) \/ Exit(w)
    BY <1>0, <2>1 DEF Request, Forget, Exit, Known, BrokerOK
  <2>3. CASE Drain(w)
    <3>1. inbox' \in [Clients -> Seq(Clients)]
      BY <1>0, <2>3 DEF Drain, BrokerOK
    <3> QED
      BY <1>0, <2>3, <3>1 DEF Drain, Known, BrokerOK
  <2>2. CASE AdapterNext(w)
    BY <1>0, <2>2
       DEF AdapterNext, Connect, BackOff, Wait, Pause, Emit, Peek, Eof, Unregister,
           Touched, Known, BrokerOK
  <2> QED
    BY <2>1, <2>2, <2>3
<1>4. WorkersOK'
  <2> USE ClientsAssumption DEF WorkersOK, AdapterPc, AdapterStep
  <2>0. adapter[w].since \in 0 .. Reemit - 1 /\ adapter[w].pc \in AdapterPc
    BY <1>0
  <2>1. CASE Request(w) \/ Drain(w) \/ Forget(w)
    <3>1. host' \in [Workers -> [alive : BOOLEAN, woken : BOOLEAN]]
      BY <1>0, <2>1 DEF Request, Drain, Forget
    <3>2. UNCHANGED adapter
      BY <2>1 DEF Request, Drain, Forget
    <3> QED
      BY <1>0, <3>1, <3>2
  <2>2. CASE Exit(w)
    BY <1>0, <2>2 DEF Exit
  <2>3. CASE Connect(w) \/ BackOff(w) \/ Wait(w) \/ Pause(w)
    <3>0. \A to \in AdapterPc : [adapter EXCEPT ![w].pc = to] \in
                                  [Workers -> [pc : AdapterPc, since : 0 .. Reemit - 1]]
      <4> HIDE DEF AdapterPc
      <4> QED
        BY <1>0
    <3>1. adapter' \in [Workers -> [pc : AdapterPc, since : 0 .. Reemit - 1]]
      <4>1. CASE Connect(w)
        <5>1. \E to \in AdapterPc : adapter' = [adapter EXCEPT ![w].pc = to]
          BY <4>1 DEF Connect
        <5> QED
          BY <3>0, <5>1
      <4>2. CASE BackOff(w) \/ Pause(w)
        BY <1>0, <3>0, <4>2 DEF BackOff, Pause
      <4>3. CASE Wait(w)
        <5>1. \/ \E to \in AdapterPc : adapter' = [adapter EXCEPT ![w].pc = to]
              \/ UNCHANGED adapter
          BY <4>3 DEF Wait
        <5>2. adapter \in [Workers -> [pc : AdapterPc, since : 0 .. Reemit - 1]]
          BY <1>0
        <5> HIDE DEF WorkersOK, AdapterPc
        <5> QED
          BY <3>0, <5>1, <5>2
      <4> QED
        BY <2>3, <4>1, <4>2, <4>3
    <3>2. UNCHANGED host
      BY <2>3 DEF Connect, BackOff, Wait, Pause
    <3> QED
      BY <1>0, <3>1, <3>2
  <2>4. CASE Emit(w)
    <3>1. adapter' \in [Workers -> [pc : AdapterPc, since : 0 .. Reemit - 1]]
      BY <1>0, <2>4 DEF Emit
    <3>2. host' \in [Workers -> [alive : BOOLEAN, woken : BOOLEAN]]
      <4>1. [host EXCEPT ![w].woken = TRUE] \in [Workers -> [alive : BOOLEAN, woken : BOOLEAN]]
        BY <1>0
      <4>2. host' = [host EXCEPT ![w].woken = TRUE] \/ UNCHANGED host
        BY <2>4 DEF Emit
      <4> QED
        BY <1>0, <4>1, <4>2
    <3> QED
      BY <3>1, <3>2
  <2>5. CASE Peek(w)
    BY <1>0, <2>5 DEF Peek
  <2>6. CASE Eof(w) \/ Unregister(w)
    BY <1>0, <2>6 DEF Eof, Unregister
  <2> QED
    BY <2>1, <2>2, <2>3, <2>4, <2>5, <2>6 DEF AdapterNext
<1> QED
  BY <1>2, <1>3, <1>4, Parts, PTL

\* So do those of the bots.
LEMMA BotSteps ==
  ASSUME IInv, NEW b \in Bots,
         Start(b) \/ DirectEmit(b) \/ Close(b) \/ Kill(b) \/ BotNext(b)
  PROVE  IInv'
<1>0. BrokerOK /\ WorkersOK /\ BotsOK /\ b \in Clients
  BY Parts DEF Clients
<1>1. /\ bot[b] \in BotState /\ replies[b] = IF bot[b].emitted THEN {"direct"} ELSE {}
      /\ bot[b].pc \in {"handling", "handled"} => bot[b].batch # <<>>
      /\ DoneOK(last[b])
  BY <1>0 DEF BotsOK, BotOK, DoneOK
<1>2. UNCHANGED <<adapter, host>>
  BY DEF Start, DirectEmit, Close, Kill, BotNext, BotWait, Flush, Skip, Settle, Return
<1>3. WorkersOK'
  BY <1>0, <1>2 DEF WorkersOK
<1>4. ASSUME BotEmit(b)
      PROVE  sent' \in 0 .. MaxMessages /\ inbox' \in [Clients -> Seq(Clients)]
  BY <1>0, <1>4, EnqueueOK DEF BotEmit, BrokerOK
<1>5. BrokerOK'
  <2>1. CASE Start(b) \/ Close(b) \/ Kill(b)
    BY <1>0, <2>1 DEF Start, Close, Kill, Known, BrokerOK
  <2>2. CASE DirectEmit(b)
    BY <1>0, <1>4, <2>2 DEF DirectEmit, BrokerOK
  <2>3. CASE Settle(b)
    <3>1. sent' \in 0 .. MaxMessages /\ inbox' \in [Clients -> Seq(Clients)]
      BY <1>0, <1>4, <2>3 DEF Settle, BrokerOK
    <3>2. session' \subseteq session
      BY <2>3 DEF Settle, Finish
    <3> QED
      BY <1>0, <2>3, <3>1, <3>2 DEF Settle, BrokerOK
  <2>4. CASE Flush(b)
    <3>1. inbox' \in [Clients -> Seq(Clients)]
      <4>1. inbox' = [inbox EXCEPT ![b] = <<>>] \/ UNCHANGED inbox
        BY <2>4 DEF Flush
      <4>2. <<>> \in Seq(Clients) /\ inbox \in [Clients -> Seq(Clients)]
        BY <1>0 DEF BrokerOK
      <4> QED
        BY <1>0, <4>1, <4>2
    <3>2. registry' \in [Clients -> Known] /\ session' \subseteq session
      BY <1>0, <2>4 DEF Flush, Touched, Known, BrokerOK
    <3> QED
      BY <1>0, <2>4, <3>1, <3>2 DEF Flush, BrokerOK
  <2>5. CASE BotWait(b) \/ Skip(b) \/ \E outcome \in Outcome : Return(b, outcome)
    BY <1>0, <2>5 DEF BotWait, Skip, Return, Touched, Known, BrokerOK
  <2> QED
    BY <2>1, <2>2, <2>3, <2>4, <2>5 DEF BotNext
<1>6. BotsOK'
  <2>1. CASE Start(b)
    <3> DEFINE state == [pc |-> "waiting", batch |-> <<>>, emitted |-> FALSE,
                         outcome |-> "silent", starts |-> bot[b].starts + 1]
    <3>1. BotOK(state, {}, last[b])
      BY <1>1, <2>1, ClientsAssumption DEF Start, BotOK, DoneOK, BotState, BotPc, Outcome
    <3>2. bot' = [bot EXCEPT ![b] = state] /\ replies' = [replies EXCEPT ![b] = {}]
      BY <2>1 DEF Start
    <3>3. last' = [last EXCEPT ![b] = last[b]]
      BY <1>0, <2>1, SameLast DEF Start
    <3> HIDE DEF state
    <3> QED
      BY <1>0, <3>1, <3>2, <3>3, BotChanges
  <2>2. CASE DirectEmit(b)
    <3> DEFINE state == [bot[b] EXCEPT !.emitted = TRUE]
    <3>1. BotOK(state, replies[b] \cup {"direct"}, Nothing)
      BY <1>1, <2>2, NothingOK DEF DirectEmit, BotOK, DoneOK, BotState
    <3>2. /\ bot' = [bot EXCEPT ![b] = state]
          /\ replies' = [replies EXCEPT ![b] = replies[b] \cup {"direct"}]
      BY <2>2 DEF DirectEmit
    <3>3. last' = [last EXCEPT ![b] = Nothing]
      BY <2>2 DEF DirectEmit
    <3> HIDE DEF state
    <3> QED
      BY <1>0, <3>1, <3>2, <3>3, BotChanges
  <2>3. CASE Close(b) \/ Kill(b)
    BY <1>0, <2>3, EndedOK DEF Close, Kill
  <2>4. CASE BotWait(b)
    <3> DEFINE state == [bot[b] EXCEPT !.pc = "flushing"]
    <3>1. BotOK(state, replies[b], Nothing)
      BY <1>1 DEF BotOK, BotState, BotPc, LastState, Outcome, Nothing, ReplyKind
    <3>2. /\ bot' = [bot EXCEPT ![b] = state] /\ replies' = [replies EXCEPT ![b] = replies[b]]
          /\ last' = [last EXCEPT ![b] = Nothing]
      BY <1>0, <2>4 DEF BotWait, BotsOK
    <3> HIDE DEF state
    <3> QED
      BY <1>0, <3>1, <3>2, BotChanges
  <2>5. CASE Flush(b)
    <3>1. CASE Ended(b)
      BY <1>0, <3>1, EndedOK
    <3>2. ASSUME NEW batch \in Seq(Clients), Serve(b, batch), UNCHANGED last PROVE BotsOK'
      BY <1>0, <1>1, <3>2, SameLast, ServeOK
    <3>3. inbox[b] \in Seq(Clients) /\ <<>> \in Seq(Clients)
      BY <1>0 DEF BrokerOK
    <3> QED
      BY <2>5, <3>1, <3>2, <3>3 DEF Flush
  <2>6. CASE Skip(b)
    <3>1. Tail(bot[b].batch) \in Seq(Clients)
      BY <1>1, <2>6 DEF Skip, BotState
    <3>2. last' = [last EXCEPT ![b] = Nothing]
      BY <2>6 DEF Skip
    <3> QED
      BY <1>0, <2>6, <3>1, <3>2, NothingOK, ServeOK DEF Skip
  <2>7. ASSUME NEW outcome \in Outcome, Return(b, outcome) PROVE BotsOK'
    <3> DEFINE state == [bot[b] EXCEPT !.pc = "handled", !.outcome = outcome]
    <3>1. BotOK(state, replies[b], Nothing)
      BY <1>1, <2>7, NothingOK DEF Return, BotOK, DoneOK, BotState, BotPc
    <3>2. bot' = [bot EXCEPT ![b] = state] /\ replies' = [replies EXCEPT ![b] = replies[b]]
      BY <1>0, <2>7 DEF Return, BotsOK
    <3>3. last' = [last EXCEPT ![b] = Nothing]
      BY <2>7 DEF Return
    <3> HIDE DEF state
    <3> QED
      BY <1>0, <3>1, <3>2, <3>3, BotChanges
  <2>8. CASE Settle(b)
    <3> DEFINE raised == bot[b].outcome = "raised"
               auto == bot[b].outcome = "value" /\ ~bot[b].emitted
    <3>0. bot[b].pc = "handled" /\ bot[b].outcome \in Outcome
      BY <1>1, <2>8 DEF Settle, BotState
    <3>1. CASE auto /\ Finish(b, {"auto"})
      <4>1. DoneOK([outcome |-> bot[b].outcome, replies |-> replies[b] \cup {"auto"}])
        BY <1>1, <3>1 DEF DoneOK, LastState, Outcome, ReplyKind
      <4> QED
        BY <1>0, <3>0, <3>1, <4>1, FinishOK DEF ReplyKind
    <3>2. CASE Ended(b)
      BY <1>0, <3>2, EndedOK
    <3>3. CASE raised /\ Finish(b, {"error"})
      <4>1. DoneOK([outcome |-> bot[b].outcome, replies |-> replies[b] \cup {"error"}])
        BY <1>1, <3>3 DEF DoneOK, LastState, Outcome, ReplyKind
      <4> QED
        BY <1>0, <3>0, <3>3, <4>1, FinishOK DEF ReplyKind
    <3>4. CASE ~auto /\ Finish(b, {})
      <4>1. DoneOK([outcome |-> bot[b].outcome, replies |-> replies[b] \cup {}])
        BY <1>1, <3>0, <3>4 DEF DoneOK, LastState, Outcome, ReplyKind
      <4> QED
        BY <1>0, <3>0, <3>4, <4>1, FinishOK
    <3> QED
      BY <2>8, <3>1, <3>2, <3>3, <3>4 DEF Settle
  <2> QED
    BY <2>1, <2>2, <2>3, <2>4, <2>5, <2>6, <2>7, <2>8 DEF BotNext
<1> QED
  BY <1>3, <1>5, <1>6, Parts, PTL

\* IInv is kept by every action.
LEMMA NextIInv == IInv /\ [Next]_vars => IInv'
<1> SUFFICES ASSUME IInv, [Next]_vars PROVE IInv'
  OBVIOUS
<1>1. CASE UNCHANGED vars
  BY <1>1 DEF vars, IInv, TypeOK, FlagIsTrue, AtHand, OneReply
<1>2. CASE Next
  BY <1>2, BrokerSteps, WorkerSteps, BotSteps DEF Next
<1> QED
  BY <1>1, <1>2

\* IInv holds in every reachable state.
THEOREM SpecIInv == Spec => []IInv
BY InitIInv, NextIInv, PTL DEF Spec

\* The broker's view, the adapters and the bots keep their types.
THEOREM TypeCorrect == Spec => []TypeOK
<1>1. IInv => TypeOK
  BY DEF IInv
<1> QED
  BY <1>1, SpecIInv, PTL

\* However many bots and messages there are, and wherever the broker dies, a
\* message that is answered by a value is answered once.
THEOREM AnsweredOnce == Spec => []OneReply
<1>1. IInv => OneReply
  BY DEF IInv
<1> QED
  BY <1>1, SpecIInv, PTL
===============================================================================
