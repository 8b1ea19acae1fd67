---------------------------- MODULE DashboardProofs ----------------------------
(***************************************************************************)
(* Proofs about Dashboard, for any number of pages, streams and messages:  *)
(* the queues stay bounded and each page's stream is its own, a page that  *)
(* is behind is still to learn of it, and what is acknowledged was shown.  *)
(*                                                                         *)
(* The argument for the second: an event that the hub puts into a queue    *)
(* leaves the others in it, or marks the queue as one that ran over; so    *)
(* the hook call that is owed becomes an event of every queue, and the     *)
(* event a request of the page.                                            *)
(***************************************************************************)
EXTENDS Dashboard, SequenceTheorems, TLAPS

HubOK(h) ==
  /\ h \in [Subs -> Subscriber \cup {None}]
  /\ \A s \in Subs : h[s] # None => Len(h[s].queue) <= MaxQueue

\* page u, if it has a stream, has one of its own in the hub
Linked(p, h, u) ==
  IF p.at \in {"asked", "sending", "streaming"}
  THEN p.sub # None /\ h[p.sub] # None /\ h[p.sub].user = u
  ELSE p.sub = None

PageOK ==
  /\ page \in [Viewers -> [at : {"down", "asked", "sending", "streaming"},
                           sub : Subs \cup {None}]]
  /\ \A u \in Viewers : Linked(page[u], hub, u)

MailOK ==
  /\ registered \subseteq Workers \cup Operators
  /\ state \in [Messages -> {"new", "written", "done"}]
  /\ to \in [Messages -> Seq(Targets)] /\ acked \subseteq Messages
  /\ posting \in [Viewers -> [left : Seq(Targets), m : Messages \cup {None}]]

CallsOK == publishing \in Seq([type : Types, target : Targets \cup {None}])

ViewOK ==
  /\ known \in [Viewers -> SUBSET Workers]
  /\ wants \in [Viewers -> SUBSET {"data", "inbox"}]
  /\ shown \in [Viewers -> SUBSET Messages]
  /\ acking \in [Viewers -> SUBSET Messages]

\* The types, one part per group of variables.
LEMMA TypeParts ==
  TypeOK <=> HubOK(hub) /\ PageOK /\ MailOK /\ CallsOK /\ ViewOK
BY DEF TypeOK, HubOK, PageOK, Linked, Attached, MailOK, CallsOK, ViewOK

-------------------------------------------------------------------------------
\* An event put into a queue leaves those that were there, unless it ran over.
LEMMA PushKeeps ==
  ASSUME NEW sub \in Subscriber, Len(sub.queue) <= MaxQueue, NEW evt \in Events
  PROVE  LET new == Push(sub, evt) IN
         /\ new \in Subscriber /\ new.user = sub.user
         /\ Len(new.queue) <= MaxQueue
         /\ \E i \in DOMAIN new.queue : new.queue[i] = evt
         /\ ~new.dropped =>
              /\ ~sub.dropped
              /\ \A i \in DOMAIN sub.queue :
                   \E j \in DOMAIN new.queue : new.queue[j] = sub.queue[i]
<1> DEFINE q == sub.queue
           full == Len(q) >= MaxQueue
           kept == IF full THEN Tail(q) ELSE q
           new == [sub EXCEPT !.queue = Append(kept, evt), !.dropped = @ \/ full]
<1>1. q \in Seq(Events) /\ Len(q) \in Nat /\ MaxQueue \in Nat \ {0}
  BY DashboardAssumption DEF Subscriber
<1>2. kept \in Seq(Events) /\ Len(kept) + 1 <= MaxQueue
  <2>1. CASE full
    <3>1. Len(q) = MaxQueue /\ q # <<>>
      BY <1>1, <2>1
    <3>2. Tail(q) \in Seq(Events) /\ Len(Tail(q)) = Len(q) - 1
      BY <1>1, <3>1, HeadTailProperties
    <3> QED
      BY <1>1, <2>1, <3>1, <3>2
  <2>2. CASE ~full
    BY <1>1, <2>2
  <2> QED
    BY <2>1, <2>2
<1>3. /\ Append(kept, evt) \in Seq(Events)
      /\ Len(Append(kept, evt)) = Len(kept) + 1
      /\ Append(kept, evt)[Len(kept) + 1] = evt
      /\ \A i \in 1 .. Len(kept) : Append(kept, evt)[i] = kept[i]
      /\ Len(kept) \in Nat
  BY <1>2, AppendProperties
<1>4. DOMAIN Append(kept, evt) = 1 .. Len(kept) + 1 /\ DOMAIN q = 1 .. Len(q)
  BY <1>1, <1>3
<1>5. Push(sub, evt) = new
  BY DEF Push
<1> HIDE DEF kept
<1>6. /\ new.queue = Append(kept, evt) /\ new.user = sub.user
      /\ new.dropped = (sub.dropped \/ full)
      /\ new \in Subscriber
  BY <1>3 DEF Subscriber
<1>7. \E i \in DOMAIN new.queue : new.queue[i] = evt
  BY <1>3, <1>4, <1>6
<1>8. ASSUME ~new.dropped
      PROVE  /\ ~sub.dropped
             /\ \A i \in DOMAIN q : \E j \in DOMAIN new.queue : new.queue[j] = q[i]
  <2>1. ~sub.dropped /\ ~full
    BY <1>6, <1>8
  <2>2. kept = q
    BY <2>1 DEF kept
  <2> QED
    BY <1>3, <1>4, <1>6, <2>1, <2>2
<1> QED
  BY <1>2, <1>3, <1>5, <1>6, <1>7, <1>8

\* The same of the hub: a queue that did not run over has what it had.
Carries(h, h2, s) ==
  /\ h[s] # None <=> h2[s] # None
  /\ h[s] # None =>
       /\ h2[s].user = h[s].user
       /\ ~h2[s].dropped =>
            /\ ~h[s].dropped
            /\ \A i \in DOMAIN h[s].queue :
                 \E j \in DOMAIN h2[s].queue : h2[s].queue[j] = h[s].queue[i]

\* Telling the streams of an event keeps what they were to be told, and adds it.
LEMMA ToldKeeps ==
  ASSUME NEW h, HubOK(h), NEW evt \in Events
  PROVE  /\ HubOK(Told(evt, h))
         /\ \A s \in Subs : Carries(h, Told(evt, h), s)
         /\ evt.operator = None =>
              \A s \in Subs : h[s] # None =>
                \E i \in DOMAIN Told(evt, h)[s].queue : Told(evt, h)[s].queue[i] = evt
<1> DEFINE h2 == Told(evt, h)
<1>1. \A s \in Subs : h2[s] = IF h[s] # None /\ evt.operator \in {None, h[s].user}
                             THEN Push(h[s], evt) ELSE h[s]
  BY DEF Told
<1>2. \A s \in Subs : h[s] # None => h[s] \in Subscriber /\ Len(h[s].queue) <= MaxQueue
  BY DEF HubOK
<1>3. ASSUME NEW s \in Subs
      PROVE  /\ h2[s] \in Subscriber \cup {None}
             /\ h2[s] # None => Len(h2[s].queue) <= MaxQueue
             /\ Carries(h, h2, s)
             /\ h[s] # None /\ evt.operator = None =>
                  \E i \in DOMAIN h2[s].queue : h2[s].queue[i] = evt
  <2>1. CASE h[s] # None /\ evt.operator \in {None, h[s].user}
    <3>1. h2[s] = Push(h[s], evt)
      BY <1>1, <2>1
    <3>2. h[s] \in Subscriber /\ Len(h[s].queue) <= MaxQueue
      BY <1>2, <2>1
    <3>3. /\ h2[s] \in Subscriber /\ h2[s].user = h[s].user
          /\ Len(h2[s].queue) <= MaxQueue
          /\ \E i \in DOMAIN h2[s].queue : h2[s].queue[i] = evt
          /\ ~h2[s].dropped =>
               /\ ~h[s].dropped
               /\ \A i \in DOMAIN h[s].queue :
                    \E j \in DOMAIN h2[s].queue : h2[s].queue[j] = h[s].queue[i]
      BY <3>1, <3>2, PushKeeps
    <3>4. h2[s] # None
      BY <3>3, DashboardAssumption
    <3> QED
      BY <2>1, <3>3, <3>4 DEF Carries
  <2>2. CASE h[s] # None /\ ~(evt.operator \in {None, h[s].user})
    <3>1. h2[s] = h[s]
      BY <1>1, <2>2
    <3> QED
      BY <1>2, <2>2, <3>1 DEF Carries
  <2>3. CASE h[s] = None
    BY <1>1, <2>3 DEF Carries
  <2> QED
    BY <2>1, <2>2, <2>3
<1>4. HubOK(h2)
  <2>1. h2 \in [Subs -> Subscriber \cup {None}]
    BY <1>3 DEF Told
  <2> QED
    BY <1>3, <2>1 DEF HubOK
<1> HIDE DEF h2
<1> QED
  BY <1>3, <1>4 DEF h2

\* What is kept in two steps is kept.
LEMMA CarriesIsTransitive ==
  ASSUME NEW h1, NEW h2, NEW h3, NEW s, Carries(h1, h2, s), Carries(h2, h3, s)
  PROVE  Carries(h1, h3, s)
BY DEF Carries

-------------------------------------------------------------------------------
\* A hook call tells every stream, and one of an operator's message his own.
LEMMA PublishTells ==
  ASSUME TypeOK, Publish
  PROVE  /\ HubOK(hub')
         /\ \A s \in Subs : Carries(hub, hub', s)
         /\ \A s \in Subs : hub[s] # None /\ ~hub'[s].dropped =>
              \E i \in DOMAIN hub'[s].queue :
                hub'[s].queue[i] = Event(Head(publishing).type)
         /\ Head(publishing) \in [type : Types, target : Targets \cup {None}]
<1> DEFINE call == Head(publishing)
           evt == Event(call.type)
           first == Told(evt, hub)
<1>0. HubOK(hub) /\ CallsOK
  BY TypeParts
<1>1. call \in [type : Types, target : Targets \cup {None}]
  BY <1>0, HeadTailProperties DEF Publish, CallsOK
<1>2. evt \in Events /\ evt.operator = None
  BY <1>1 DEF Event, Events
<1>3. /\ HubOK(first)
      /\ \A s \in Subs : Carries(hub, first, s)
      /\ \A s \in Subs : hub[s] # None =>
           \E i \in DOMAIN first[s].queue : first[s].queue[i] = evt
  <2> HIDE DEF evt
  <2> QED
    BY <1>0, <1>2, ToldKeeps
<1> HIDE DEF first, evt
<1>4. CASE call.target \in Operators
  <2> DEFINE inbox == InboxEvent(call.target)
  <2>1. inbox \in Events
    BY <1>4 DEF InboxEvent, Events
  <2>2. hub' = Told(inbox, first)
    BY <1>4 DEF Publish, first, evt
  <2> HIDE DEF inbox
  <2>3. HubOK(hub') /\ \A s \in Subs : Carries(first, hub', s)
    BY <1>3, <2>1, <2>2, ToldKeeps
  <2>4. \A s \in Subs : Carries(hub, hub', s)
    BY <1>3, <2>3, CarriesIsTransitive
  <2>5. \A s \in Subs : hub[s] # None /\ ~hub'[s].dropped =>
          \E i \in DOMAIN hub'[s].queue : hub'[s].queue[i] = evt
    <3>1. \A s \in Subs : hub[s] # None => first[s] # None
      BY <1>3 DEF Carries
    <3> QED
      BY <1>3, <2>3, <3>1 DEF Carries
  <2> QED
    BY <1>1, <2>3, <2>4, <2>5 DEF evt
<1>5. CASE call.target \notin Operators
  <2>1. hub' = first
    BY <1>5 DEF Publish, first, evt
  <2> QED
    BY <1>1, <1>3, <2>1 DEF evt
<1> QED
  BY <1>4, <1>5
-------------------------------------------------------------------------------
\* A viewer's own step on his page or his stream leaves the others' linked.
LEMMA OthersStayLinked ==
  ASSUME TypeOK, NEW u \in Viewers, NEW p \in [at : {"down", "asked", "sending", "streaming"},
                                               sub : Subs \cup {None}],
         page' = [page EXCEPT ![u] = p],
         HubOK(hub)',
         Linked(p, hub', u),
         \A v \in Viewers \ {u} : Linked(page[v], hub, v) => Linked(page[v], hub', v)
  PROVE  PageOK'
<1>1. PageOK
  BY TypeParts
<1>2. page' \in [Viewers -> [at : {"down", "asked", "sending", "streaming"},
                             sub : Subs \cup {None}]]
  BY <1>1 DEF PageOK
<1>3. ASSUME NEW v \in Viewers PROVE Linked(page'[v], hub', v)
  <2>1. CASE v = u
    <3>1. page'[v] = p
      BY <1>1, <2>1 DEF PageOK
    <3> QED
      BY <2>1, <3>1
  <2>2. CASE v # u
    <3>1. page'[v] = page[v] /\ Linked(page[v], hub, v)
      BY <1>1, <2>2 DEF PageOK
    <3> QED
      BY <2>2, <3>1
  <2> QED
    BY <2>1, <2>2
<1> QED
  BY <1>2, <1>3 DEF PageOK

\* What keeps the streams of all pages in the hub keeps the pages linked.
LEMMA SamePagesStayLinked ==
  ASSUME TypeOK, page' = page,
         \A s \in Subs : hub[s] # None => hub'[s] # None /\ hub'[s].user = hub[s].user
  PROVE  PageOK'
<1>1. PageOK
  BY TypeParts
<1>2. ASSUME NEW u \in Viewers PROVE Linked(page[u], hub', u)
  <2>1. Linked(page[u], hub, u) /\ page[u].sub \in Subs \cup {None}
    BY <1>1 DEF PageOK
  <2> QED
    BY <2>1 DEF Linked
<1> QED
  BY <1>1, <1>2 DEF PageOK

\* A stream takes the first event of its own queue.
LEMMA DeliverKeepsHub ==
  ASSUME TypeOK, NEW u \in Viewers, Deliver(u)
  PROVE  LET s == page[u].sub IN
         /\ s \in Subs /\ hub[s] # None /\ hub[s].user = u
         /\ hub[s].queue \in Seq(Events) /\ hub[s].queue # <<>>
         /\ hub'[s] = [hub[s] EXCEPT !.queue = Tail(@)]
         /\ \A t \in Subs \ {s} : hub'[t] = hub[t]
         /\ HubOK(hub)'
<1> DEFINE s == page[u].sub
<1>1. HubOK(hub) /\ PageOK
  BY TypeParts
<1>2. page[u].at = "streaming" /\ Linked(page[u], hub, u) /\ s \in Subs \cup {None}
  BY <1>1 DEF Deliver, PageOK
<1>3. s \in Subs /\ hub[s] # None /\ hub[s].user = u
  BY <1>2 DEF Linked
<1>4. hub[s] \in Subscriber /\ Len(hub[s].queue) <= MaxQueue
  BY <1>1, <1>3 DEF HubOK
<1>5. hub[s].queue \in Seq(Events) /\ hub[s].queue # <<>>
  BY <1>4 DEF Subscriber, Deliver
<1>6. /\ Tail(hub[s].queue) \in Seq(Events)
      /\ Len(Tail(hub[s].queue)) = Len(hub[s].queue) - 1
  BY <1>5, HeadTailProperties
<1>7. hub' = [hub EXCEPT ![s] = [hub[s] EXCEPT !.queue = Tail(hub[s].queue)]]
  BY <1>1, <1>3 DEF Deliver, HubOK
<1>8. hub'[s] = [hub[s] EXCEPT !.queue = Tail(@)] /\ \A t \in Subs \ {s} : hub'[t] = hub[t]
  BY <1>1, <1>3, <1>7 DEF HubOK
<1>9. hub'[s] \in Subscriber /\ Len(hub'[s].queue) <= MaxQueue
  <2>1. hub'[s].queue = Tail(hub[s].queue)
    BY <1>4, <1>8 DEF Subscriber
  <2>2. hub'[s] \in Subscriber
    BY <1>4, <1>6, <1>8 DEF Subscriber
  <2>3. MaxQueue \in Nat /\ Len(hub[s].queue) \in Nat
    BY <1>5, DashboardAssumption
  <2> QED
    BY <1>4, <1>6, <2>1, <2>2, <2>3
<1>10. HubOK(hub')
  BY <1>1, <1>3, <1>7, <1>8, <1>9 DEF HubOK
<1> QED
  BY <1>3, <1>5, <1>8, <1>10

\* Every action keeps the types of the hub and the pages.
LEMMA HubStep ==
  ASSUME TypeOK, Next
  PROVE  HubOK(hub)' /\ PageOK'
<1>0. HubOK(hub) /\ PageOK
  BY TypeParts
<1>1. CASE Publish
  <2>1. HubOK(hub') /\ \A s \in Subs : Carries(hub, hub', s)
    BY <1>1, PublishTells
  <2>2. page' = page
    BY <1>1 DEF Publish, view
  <2> QED
    BY <2>1, <2>2, SamePagesStayLinked DEF Carries
<1>2. ASSUME NEW u \in Viewers, Subscribe(u) PROVE HubOK(hub)' /\ PageOK'
  <2>1. PICK s \in Subs :
          /\ hub[s] = None
          /\ hub' = [hub EXCEPT ![s] = [user |-> u, queue |-> <<>>, dropped |-> FALSE]]
          /\ page' = [page EXCEPT ![u] = [at |-> "asked", sub |-> s]]
    BY <1>2 DEF Subscribe
  <2> DEFINE new == [user |-> u, queue |-> <<>>, dropped |-> FALSE]
  <2>2. new \in Subscriber /\ Len(new.queue) <= MaxQueue /\ new # None /\ s # None
    <3>1. <<>> \in Seq(Events) /\ Len(<<>>) = 0 /\ MaxQueue \in Nat
      BY DashboardAssumption
    <3>2. new \in [user : Viewers, queue : Seq(Events), dropped : BOOLEAN]
      BY <3>1
    <3>3. new \in Subscriber
      BY <3>2 DEF Subscriber
    <3>4. new # None /\ s # None
      BY <3>3, DashboardAssumption
    <3> QED
      BY <3>1, <3>3, <3>4
  <2>3. hub'[s] = new /\ \A t \in Subs \ {s} : hub'[t] = hub[t]
    BY <1>0, <2>1 DEF HubOK
  <2>4. HubOK(hub')
    BY <1>0, <2>1, <2>2, <2>3 DEF HubOK
  <2>5. Linked([at |-> "asked", sub |-> s], hub', u)
    BY <2>2, <2>3 DEF Linked
  <2>6. \A v \in Viewers : Linked(page[v], hub, v) => Linked(page[v], hub', v)
    <3>1. ASSUME NEW v \in Viewers, Linked(page[v], hub, v) PROVE Linked(page[v], hub', v)
      <4>1. page[v].sub \in Subs \cup {None}
        BY <1>0 DEF PageOK
      <4> QED
        BY <2>1, <2>3, <3>1, <4>1 DEF Linked
    <3> QED
      BY <3>1
  <2> QED
    BY <2>1, <2>4, <2>5, <2>6, OthersStayLinked
<1>3. ASSUME NEW u \in Viewers, Snapshot(u) \/ Stream(u) PROVE HubOK(hub)' /\ PageOK'
  <2>1. hub' = hub
    BY <1>3 DEF Snapshot, Stream, stream
  <2>2. PICK at \in {"sending", "streaming"} : page' = [page EXCEPT ![u].at = at]
    BY <1>3 DEF Snapshot, Stream
  <2>3. page[u].at \in {"asked", "sending"}
    BY <1>3 DEF Snapshot, Stream
  <2> DEFINE p == [page[u] EXCEPT !.at = at]
  <2>4. page' = [page EXCEPT ![u] = p]
    BY <1>0, <2>2 DEF PageOK
  <2>5. /\ p \in [at : {"down", "asked", "sending", "streaming"}, sub : Subs \cup {None}]
        /\ p.at = at /\ p.sub = page[u].sub
    BY <1>0 DEF PageOK
  <2>6. Linked(p, hub, u)
    BY <1>0, <2>3, <2>5 DEF PageOK, Linked
  <2> HIDE DEF p
  <2> QED
    BY <1>0, <2>1, <2>4, <2>5, <2>6, OthersStayLinked
<1>4. ASSUME NEW u \in Viewers, Deliver(u) PROVE HubOK(hub)' /\ PageOK'
  <2> DEFINE s == page[u].sub
  <2>1. /\ s \in Subs /\ hub[s] # None /\ hub[s].user = u
        /\ hub'[s] = [hub[s] EXCEPT !.queue = Tail(@)]
        /\ \A t \in Subs \ {s} : hub'[t] = hub[t]
        /\ HubOK(hub)'
    BY <1>4, DeliverKeepsHub
  <2>2. hub[s] \in Subscriber /\ hub'[s] \in Subscriber \cup {None}
    BY <1>0, <2>1 DEF HubOK
  <2>3. hub'[s].user = hub[s].user /\ hub'[s] # None
    <3>1. hub'[s].user = hub[s].user
      BY <2>1, <2>2 DEF Subscriber
    <3>2. hub[s].queue \in Seq(Events) /\ hub[s].queue # <<>>
      BY <1>4, DeliverKeepsHub
    <3>3. Tail(hub[s].queue) \in Seq(Events)
      BY <3>2, HeadTailProperties
    <3>4. hub'[s] \in Subscriber
      BY <2>1, <2>2, <3>3 DEF Subscriber
    <3> QED
      BY <3>1, <3>4, DashboardAssumption
  <2>4. page' = page
    BY <1>4 DEF Deliver
  <2> HIDE DEF s
  <2>5. \A t \in Subs : hub[t] # None => hub'[t] # None /\ hub'[t].user = hub[t].user
    BY <2>1, <2>3
  <2> QED
    BY <2>1, <2>4, <2>5, SamePagesStayLinked
<1>5. ASSUME NEW u \in Viewers, Drop(u) PROVE HubOK(hub)' /\ PageOK'
  <2> DEFINE s == page[u].sub
  <2>1. page' = [page EXCEPT ![u] = Down]
    BY <1>5 DEF Drop
  <2>2. HubOK(hub') /\ (hub' = hub \/ (page[u].at = "streaming"
                                      /\ hub' = [hub EXCEPT ![s] = None]))
    BY <1>0, <1>5 DEF Drop, HubOK
  <2>3. Linked(Down, hub', u)
    BY DEF Linked, Down
  <2>4. ASSUME NEW v \in Viewers \ {u}, Linked(page[v], hub, v)
        PROVE  Linked(page[v], hub', v)
    <3>1. Linked(page[u], hub, u) /\ page[v].sub \in Subs \cup {None}
      BY <1>0 DEF PageOK
    <3>2. page[u].at = "streaming" /\ page[v].at \in {"asked", "sending", "streaming"}
            => page[v].sub # s
      BY <2>4, <3>1 DEF Linked
    <3> QED
      BY <1>0, <2>2, <2>4, <3>1, <3>2 DEF Linked, HubOK
  <2>5. Down \in [at : {"down", "asked", "sending", "streaming"}, sub : Subs \cup {None}]
    BY DEF Down
  <2> QED
    BY <2>1, <2>2, <2>3, <2>4, <2>5, OthersStayLinked
<1>6. CASE Restart
  BY <1>6 DEF Restart, HubOK, PageOK, Linked, Down
<1>7. CASE UNCHANGED <<hub, page>>
  BY <1>0, <1>7 DEF PageOK
<1>8. \/ Publish \/ Restart \/ UNCHANGED <<hub, page>>
      \/ \E u \in Viewers : \/ Subscribe(u) \/ Snapshot(u) \/ Stream(u) \/ Deliver(u)
                           \/ Drop(u)
  BY DEF Next, Register, Unregister, Tell, Announce, Dispatch, Post, PostNext, Ack,
         PostRefused, Mark, Load, AnswerData, AnswerInbox, stream, view
<1> QED
  BY <1>1, <1>2, <1>3, <1>4, <1>5, <1>6, <1>7, <1>8
-------------------------------------------------------------------------------
\* Every action keeps the types of mail, messages and registry.
LEMMA MailStep ==
  ASSUME TypeOK, Next
  PROVE  MailOK'
<1>0. MailOK
  BY TypeParts
<1>1. ASSUME NEW w \in Workers, Register(w) PROVE MailOK'
  <2>1. registered' \subseteq Workers \cup Operators
    BY <1>0, <1>1 DEF Register, MailOK
  <2> QED
    BY <1>0, <1>1, <2>1 DEF Register, MailOK, mail
<1>2. ASSUME NEW i, Unregister(i) PROVE MailOK'
  BY <1>0, <1>2 DEF Unregister, MailOK, mail
<1>3. ASSUME NEW m \in Messages, NEW targets \in Lists, Dispatch(m, targets) PROVE MailOK'
  <2>1. targets \in Seq(Targets)
    BY DashboardAssumption
  <2> QED
    BY <1>0, <1>3, <2>1 DEF Dispatch, Write, MailOK, registry
<1>4. ASSUME NEW m \in Messages, Announce(m) PROVE MailOK'
  BY <1>0, <1>4 DEF Announce, MailOK, registry
<1>5. ASSUME NEW u \in Viewers, NEW targets \in Posts, Post(u, targets) PROVE MailOK'
  <2>1. targets \in Seq(Targets) /\ u \in Operators
    BY DashboardAssumption
  <2>2. registered' \subseteq Workers \cup Operators
    BY <1>0, <1>5, <2>1 DEF Post, MailOK
  <2>3. posting' \in [Viewers -> [left : Seq(Targets), m : Messages \cup {None}]]
    BY <1>0, <1>5, <2>1 DEF Post, MailOK
  <2> QED
    BY <1>0, <1>5, <2>2, <2>3 DEF Post, MailOK, mail
<1>6. ASSUME NEW u \in Viewers, NEW m \in Messages, PostNext(u, m) PROVE MailOK'
  <2>1. posting[u].left \in Seq(Targets) /\ posting[u].left # <<>>
    BY <1>0, <1>6 DEF MailOK, PostNext
  <2>2. Head(posting[u].left) \in Targets /\ Tail(posting[u].left) \in Seq(Targets)
    BY <2>1, HeadTailProperties
  <2>3. <<Head(posting[u].left)>> \in Seq(Targets)
    BY <2>2
  <2>4. to' \in [Messages -> Seq(Targets)] /\ state' \in [Messages -> {"new", "written", "done"}]
    BY <1>0, <1>6, <2>3 DEF MailOK, PostNext, Write
  <2>5. posting' \in [Viewers -> [left : Seq(Targets), m : Messages \cup {None}]]
    <3> DEFINE then == IF Len(posting[u].left) > 1 THEN m ELSE None
    <3>1. posting' = [posting EXCEPT ![u] = [left |-> Tail(posting[u].left), m |-> then]]
      BY <1>0, <1>6 DEF MailOK, PostNext
    <3>2. then \in Messages \cup {None}
      OBVIOUS
    <3> HIDE DEF then
    <3> QED
      BY <1>0, <2>2, <3>1, <3>2 DEF MailOK
  <2> QED
    BY <1>0, <1>6, <2>4, <2>5 DEF MailOK, PostNext, Write, registry
<1>7. ASSUME NEW u \in Viewers, PostRefused(u) PROVE MailOK'
  <2>1. posting[u].left \in Seq(Targets) /\ posting[u].left # <<>>
    BY <1>0, <1>7 DEF MailOK, PostRefused
  <2>2. Tail(posting[u].left) \in Seq(Targets)
    BY <2>1, HeadTailProperties
  <2>3. posting' = [posting EXCEPT ![u] = [left |-> Tail(posting[u].left), m |-> None]]
    BY <1>0, <1>7 DEF MailOK, PostRefused
  <2> QED
    BY <1>0, <1>7, <2>2, <2>3 DEF MailOK, PostRefused, registry, mail
<1>8. ASSUME NEW u \in Viewers, Mark(u) PROVE MailOK'
  <2>1. acking[u] \subseteq Messages
    BY TypeParts DEF ViewOK
  <2> QED
    BY <1>0, <1>8, <2>1 DEF Mark, MailOK, registry
<1>9. CASE Restart
  <2>1. NoPost \in [left : Seq(Targets), m : Messages \cup {None}]
    BY DEF NoPost
  <2>2. posting' \in [Viewers -> [left : Seq(Targets), m : Messages \cup {None}]]
    BY <1>9, <2>1 DEF Restart
  <2> QED
    BY <1>0, <1>9, <2>2 DEF Restart, MailOK
<1>10. CASE UNCHANGED <<registered, mail, posting>>
  BY <1>0, <1>10 DEF MailOK, mail
<1> DEFINE Same == UNCHANGED <<registered, mail, posting>>
<1>11. ASSUME NEW u \in Viewers,
              \/ \E ids \in SUBSET Messages : Ack(u, ids)
              \/ Load(u) \/ Subscribe(u) \/ Snapshot(u) \/ Stream(u) \/ Deliver(u)
              \/ Drop(u) \/ AnswerData(u) \/ AnswerInbox(u)
       PROVE  Same
  BY <1>11 DEF Ack, Load, Subscribe, Snapshot, Stream, Deliver, Drop, AnswerData, AnswerInbox,
               registry
<1>12. ASSUME Publish
       PROVE  Same
  BY <1>12 DEF Publish, registry
<1>13. ASSUME NEW type, Tell(type)
       PROVE  Same
  BY <1>13 DEF Tell
<1> HIDE DEF Same
<1>14. Same => MailOK'
  BY <1>10 DEF Same
<1>15. ASSUME NEW u \in Viewers,
              \/ \E targets \in Posts : Post(u, targets)
              \/ \E m \in Messages : PostNext(u, m)
              \/ \E ids \in SUBSET Messages : Ack(u, ids)
              \/ PostRefused(u) \/ Mark(u) \/ Load(u) \/ Subscribe(u) \/ Snapshot(u)
              \/ Stream(u) \/ Deliver(u) \/ Drop(u) \/ AnswerData(u) \/ AnswerInbox(u)
       PROVE  MailOK'
  BY <1>5, <1>6, <1>7, <1>8, <1>11, <1>14, <1>15
<1> QED
  BY <1>1, <1>2, <1>3, <1>4, <1>9, <1>12, <1>13, <1>14, <1>15 DEF Next

\* Every action keeps the types of the hook calls under way.
LEMMA CallsStep ==
  ASSUME TypeOK, Next
  PROVE  CallsOK'
<1> DEFINE Calls == [type : Types, target : Targets \cup {None}]
<1>0. CallsOK
  BY TypeParts
<1>1. CASE Publish
  <2>1. publishing' = Tail(publishing) /\ publishing # <<>>
    BY <1>1 DEF Publish
  <2> QED
    BY <1>0, <2>1, HeadTailProperties DEF CallsOK
<1>2. ASSUME NEW type \in Types, publishing' = <<Call(type, None)>> PROVE CallsOK'
  <2>1. Call(type, None) \in Calls
    BY DEF Call
  <2> QED
    BY <1>2, <2>1 DEF CallsOK
<1>3. ASSUME NEW m \in Messages, Announce(m) PROVE CallsOK'
  <2>1. to[m] \in Seq(Targets)
    BY TypeParts DEF MailOK
  <2>2. DOMAIN to[m] = 1 .. Len(to[m]) /\ Len(to[m]) \in Nat
    BY <2>1
  <2>3. \A i \in 1 .. Len(to[m]) : to[m][i] \in Targets
    BY <2>1, <2>2, ElementOfSeq
  <2>4. publishing' = [i \in 1 .. Len(to[m]) |-> Call("message_dispatched", to[m][i])]
    BY <1>3, <2>2 DEF Announce
  <2>5. publishing' \in [1 .. Len(to[m]) -> Calls]
    BY <2>3, <2>4 DEF Call, Types
  <2> HIDE DEF Calls
  <2>6. publishing' \in Seq(Calls)
    BY <2>2, <2>5
  <2> QED
    BY <2>6 DEF CallsOK, Calls
<1>4. CASE publishing' = <<>> \/ publishing' = publishing
  <2>1. CASE publishing' = publishing
    BY <1>0, <2>1 DEF CallsOK
  <2>2. CASE publishing' = <<>>
    <3>1. <<>> \in Seq(Calls)
      OBVIOUS
    <3> QED
      BY <2>2, <3>1 DEF CallsOK
  <2> QED
    BY <1>4, <2>1, <2>2
<1>5. \/ Publish \/ \E m \in Messages : Announce(m)
      \/ publishing' = <<>> \/ publishing' = publishing
      \/ \E type \in Types : publishing' = <<Call(type, None)>>
  BY DEF Next, Restart, Register, Unregister, Tell, Dispatch, Post, PostNext, PostRefused,
         Ack, Mark, Load, Subscribe, Snapshot, Stream, Deliver, Drop, AnswerData, AnswerInbox,
         Types, stream
<1> QED
  BY <1>1, <1>2, <1>3, <1>4, <1>5

\* Every action keeps the types of what operators have been shown.
LEMMA ViewStep ==
  ASSUME TypeOK, Next
  PROVE  ViewOK'
<1>0. ViewOK /\ MailOK
  BY TypeParts
<1>1. CASE Restart
  BY <1>0, <1>1 DEF Restart, ViewOK
<1>2. ASSUME NEW u \in Viewers, NEW ids, Ack(u, ids) PROVE ViewOK'
  BY <1>0, <1>2 DEF Ack, ViewOK
<1>3. ASSUME NEW u \in Viewers, Mark(u) \/ Load(u) \/ Deliver(u) PROVE ViewOK'
  <2>1. PICK ws \in SUBSET {"data", "inbox"} : wants' = [wants EXCEPT ![u] = @ \cup ws]
    BY <1>3 DEF Mark, Load, Deliver
  <2>2. wants' \in [Viewers -> SUBSET {"data", "inbox"}]
    BY <1>0, <2>1 DEF ViewOK
  <2>3. known' = known /\ shown' = shown /\ (acking' = acking \/ acking' = [acking EXCEPT ![u] = {}])
    BY <1>3 DEF Mark, Load, Deliver
  <2> QED
    BY <1>0, <2>2, <2>3 DEF ViewOK
<1>4. ASSUME NEW u \in Viewers, Snapshot(u) PROVE ViewOK'
  BY <1>0, <1>4 DEF Snapshot, ViewOK
<1>5. ASSUME NEW u \in Viewers, Drop(u) PROVE ViewOK'
  BY <1>0, <1>5 DEF Drop, ViewOK
<1>6. ASSUME NEW u \in Viewers, AnswerData(u) PROVE ViewOK'
  BY <1>0, <1>6 DEF AnswerData, ViewOK
<1>7. ASSUME NEW u \in Viewers, AnswerInbox(u) PROVE ViewOK'
  BY <1>0, <1>7 DEF AnswerInbox, ViewOK, Unread
<1>8. CASE UNCHANGED <<known, wants, shown, acking>>
  BY <1>0, <1>8 DEF ViewOK
<1>9. \/ Restart \/ UNCHANGED <<known, wants, shown, acking>>
      \/ \E u \in Viewers : \/ \E ids \in SUBSET Messages : Ack(u, ids)
                           \/ Mark(u) \/ Load(u) \/ Deliver(u) \/ Snapshot(u) \/ Drop(u)
                           \/ AnswerData(u) \/ AnswerInbox(u)
  BY DEF Next, Publish, Register, Unregister, Tell, Announce, Dispatch, Post, PostNext,
         PostRefused, Subscribe, Stream, view
<1> QED
  BY <1>1, <1>2, <1>3, <1>4, <1>5, <1>6, <1>7, <1>8, <1>9

-------------------------------------------------------------------------------
\* What NothingIsMissed asks of a page, for a queue and hook calls that are owed.
Reaches(u, k, reg, w, calls, queue) ==
  \/ k[u] = reg \cap Workers
  \/ "data" \in w[u]
  \/ \E i \in DOMAIN calls : Refreshing(calls[i])
  \/ \E i \in DOMAIN queue : Refreshing(queue[i])

IsTold(u) ==
  page[u].at \in {"sending", "streaming"} /\ ~hub[page[u].sub].dropped =>
    Reaches(u, known, registered, wants, publishing, hub[page[u].sub].queue)

\* Nothing is missed if no viewer misses anything.
LEMMA MissedParts == NothingIsMissed <=> \A u \in Viewers : IsTold(u)
BY DEF NothingIsMissed, IsTold, Reaches

\* a page that streams has a stream of its own
LEMMA StreamOf ==
  ASSUME TypeOK, NEW u \in Viewers, page[u].at \in {"asked", "sending", "streaming"}
  PROVE  /\ page[u].sub \in Subs /\ hub[page[u].sub] # None
         /\ hub[page[u].sub].user = u
<1>1. HubOK(hub) /\ PageOK
  BY TypeParts
<1>2. Linked(page[u], hub, u) /\ page[u].sub \in Subs \cup {None}
  BY <1>1 DEF PageOK
<1> QED
  BY <1>2 DEF Linked

\* A step that leaves the page and its stream alone, and makes no worker come
\* or go, is none that the page could miss.
LEMMA SameIsTold ==
  ASSUME TypeOK, NEW u \in Viewers, IsTold(u),
         page'[u] = page[u], known'[u] = known[u],
         page[u].at \in {"sending", "streaming"} => hub'[page[u].sub] = hub[page[u].sub],
         registered' \cap Workers = registered \cap Workers,
         "data" \in wants[u] => "data" \in wants'[u],
         publishing = <<>> \/ publishing' = publishing
  PROVE  IsTold(u)'
<1>1. SUFFICES ASSUME page[u].at \in {"sending", "streaming"}, ~hub[page[u].sub].dropped
               PROVE  Reaches(u, known', registered', wants', publishing',
                              hub[page[u].sub].queue)
  BY DEF IsTold
<1>2. Reaches(u, known, registered, wants, publishing, hub[page[u].sub].queue)
  BY <1>1 DEF IsTold
<1>3. (\E i \in DOMAIN publishing : Refreshing(publishing[i])) =>
        \E i \in DOMAIN publishing' : Refreshing(publishing'[i])
  <2>1. CASE publishing = <<>>
    BY <2>1
  <2>2. CASE publishing' = publishing
    BY <2>2
  <2> QED
    BY <2>1, <2>2
<1> QED
  BY <1>2, <1>3 DEF Reaches

\* A hook call puts into the queues what it takes off the way there.
LEMMA PublishIsTold ==
  ASSUME TypeOK, Publish, NEW u \in Viewers, IsTold(u)
  PROVE  IsTold(u)'
<1> DEFINE s == page[u].sub
<1>1. page' = page /\ known' = known /\ registered' = registered /\ wants' = wants
      /\ publishing' = Tail(publishing) /\ publishing # <<>>
  BY DEF Publish, registry, view
<1>2. SUFFICES ASSUME page[u].at \in {"sending", "streaming"}, ~hub'[s].dropped
               PROVE  Reaches(u, known, registered, wants, publishing', hub'[s].queue)
  BY <1>1 DEF IsTold
<1>3. s \in Subs /\ hub[s] # None
  BY <1>2, StreamOf
<1>4. /\ ~hub[s].dropped
      /\ \A i \in DOMAIN hub[s].queue :
           \E j \in DOMAIN hub'[s].queue : hub'[s].queue[j] = hub[s].queue[i]
      /\ \E i \in DOMAIN hub'[s].queue :
           hub'[s].queue[i] = Event(Head(publishing).type)
  BY <1>2, <1>3, PublishTells DEF Carries
<1>5. Reaches(u, known, registered, wants, publishing, hub[s].queue)
  BY <1>2, <1>4 DEF IsTold
<1> HIDE DEF s
<1>6. ASSUME NEW i \in DOMAIN publishing, Refreshing(publishing[i])
      PROVE  \/ \E j \in DOMAIN publishing' : Refreshing(publishing'[j])
             \/ \E j \in DOMAIN hub'[s].queue : Refreshing(hub'[s].queue[j])
  <2>1. publishing \in Seq([type : Types, target : Targets \cup {None}])
    BY TypeParts DEF CallsOK
  <2>2. /\ Len(publishing) \in Nat /\ DOMAIN publishing = 1 .. Len(publishing)
        /\ Head(publishing) = publishing[1]
        /\ Tail(publishing) \in Seq([type : Types, target : Targets \cup {None}])
        /\ Len(Tail(publishing)) = Len(publishing) - 1
        /\ \A j \in 1 .. Len(Tail(publishing)) : Tail(publishing)[j] = publishing[j + 1]
    BY <1>1, <2>1, HeadTailProperties
  <2>3. CASE i = 1
    <3>1. Event(publishing[1].type).type = publishing[1].type
      BY DEF Event
    <3>2. Refreshing(Event(Head(publishing).type))
      BY <1>6, <2>2, <2>3, <3>1 DEF Refreshing
    <3> QED
      BY <1>4, <3>2
  <2>4. CASE i # 1
    <3>1. i - 1 \in 1 .. Len(Tail(publishing)) /\ (i - 1) + 1 = i
      BY <2>2, <2>4
    <3>2. Tail(publishing)[i - 1] = publishing[i]
      BY <2>2, <3>1
    <3>3. DOMAIN Tail(publishing) = 1 .. Len(Tail(publishing))
      BY <2>2
    <3> QED
      BY <1>1, <1>6, <3>1, <3>2, <3>3
  <2> QED
    BY <2>3, <2>4
<1>7. (\E i \in DOMAIN hub[s].queue : Refreshing(hub[s].queue[i])) =>
        \E j \in DOMAIN hub'[s].queue : Refreshing(hub'[s].queue[j])
  BY <1>4
<1> QED
  BY <1>5, <1>6, <1>7 DEF Reaches

\* An event that is delivered is known to its page then.
LEMMA DeliverIsTold ==
  ASSUME TypeOK, NEW v \in Viewers, Deliver(v), NEW u \in Viewers, IsTold(u)
  PROVE  IsTold(u)'
<1> DEFINE s == page[v].sub
           q == hub[s].queue
<1>0. /\ s \in Subs /\ hub[s] # None /\ hub[s].user = v
      /\ q \in Seq(Events) /\ q # <<>>
      /\ hub'[s] = [hub[s] EXCEPT !.queue = Tail(@)]
      /\ \A t \in Subs \ {s} : hub'[t] = hub[t]
  BY DeliverKeepsHub
<1>1. page' = page /\ known' = known /\ registered' = registered /\ publishing' = publishing
  BY DEF Deliver, registry
<1>2. ViewOK /\ HubOK(hub)
  BY TypeParts
<1>3. SUFFICES ASSUME page[u].at \in {"sending", "streaming"}, ~hub'[page[u].sub].dropped
               PROVE  Reaches(u, known, registered, wants', publishing, hub'[page[u].sub].queue)
  BY <1>1 DEF IsTold
<1>4. page[u].sub \in Subs /\ hub[page[u].sub].user = u
  BY <1>3, StreamOf
<1>5. "data" \in wants[u] => "data" \in wants'[u]
  BY <1>2 DEF Deliver, ViewOK
<1>6. CASE u # v
  <2>1. hub'[page[u].sub] = hub[page[u].sub]
    BY <1>0, <1>4, <1>6
  <2> QED
    BY <1>3, <1>5, <2>1 DEF IsTold, Reaches
<1>7. CASE u = v
  <2>1. hub[s] \in Subscriber
    BY <1>0, <1>2 DEF HubOK
  <2>2. hub'[s].dropped = hub[s].dropped /\ hub'[s].queue = Tail(q)
    BY <1>0, <2>1 DEF Subscriber
  <2>3. Reaches(u, known, registered, wants, publishing, q)
    BY <1>3, <1>7, <2>2 DEF IsTold
  <2>4. ASSUME NEW i \in DOMAIN q, Refreshing(q[i])
        PROVE  "data" \in wants'[u] \/ \E j \in DOMAIN Tail(q) : Refreshing(Tail(q)[j])
    <3> HIDE DEF q
    <3>1. /\ Len(q) \in Nat /\ DOMAIN q = 1 .. Len(q) /\ Head(q) = q[1]
          /\ Tail(q) \in Seq(Events) /\ Len(Tail(q)) = Len(q) - 1
          /\ \A j \in 1 .. Len(Tail(q)) : Tail(q)[j] = q[j + 1]
      BY <1>0, HeadTailProperties
    <3>2. CASE i = 1
      <4>1. wants' = [wants EXCEPT ![u] = @ \cup {"data"}]
        BY <1>7, <2>4, <3>1, <3>2 DEF Deliver, q
      <4> QED
        BY <1>2, <4>1 DEF ViewOK
    <3>3. CASE i # 1
      <4>1. i - 1 \in 1 .. Len(Tail(q)) /\ (i - 1) + 1 = i
        BY <3>1, <3>3
      <4>2. Tail(q)[i - 1] = q[i] /\ DOMAIN Tail(q) = 1 .. Len(Tail(q))
        BY <3>1, <4>1
      <4> QED
        BY <2>4, <4>1, <4>2
    <3> QED
      BY <3>2, <3>3
  <2> HIDE DEF q, s
  <2> QED
    BY <1>5, <1>7, <2>2, <2>3, <2>4 DEF Reaches, s
<1> QED
  BY <1>6, <1>7

\* Opening, loading and dropping a page miss nothing.
LEMMA PageStepIsTold ==
  ASSUME TypeOK, NEW v \in Viewers,
         Subscribe(v) \/ Snapshot(v) \/ Stream(v) \/ Drop(v) \/ AnswerData(v),
         NEW u \in Viewers, IsTold(u)
  PROVE  IsTold(u)'
<1>0. PageOK /\ ViewOK /\ HubOK(hub)
  BY TypeParts
<1>1. registered' = registered /\ publishing' = publishing
  BY DEF Subscribe, Snapshot, Stream, Drop, AnswerData, registry, stream
<1>2. CASE u # v
  <2>1. page'[u] = page[u]
    BY <1>0, <1>2 DEF Subscribe, Snapshot, Stream, Drop, AnswerData, PageOK, Down
  <2>2. known'[u] = known[u] /\ wants'[u] = wants[u]
    BY <1>0, <1>2 DEF Subscribe, Snapshot, Stream, Drop, AnswerData, ViewOK
  <2>3. ASSUME page[u].at \in {"sending", "streaming"}
        PROVE  hub'[page[u].sub] = hub[page[u].sub]
    <3> DEFINE t == page[u].sub
    <3>1. t \in Subs /\ hub[t] # None /\ hub[t].user = u
      BY <2>3, StreamOf
    <3>2. CASE hub' = hub
      BY <3>2
    <3>3. CASE Subscribe(v)
      <4>1. PICK s \in Subs :
              /\ hub[s] = None
              /\ hub' = [hub EXCEPT ![s] = [user |-> v, queue |-> <<>>, dropped |-> FALSE]]
        BY <3>3 DEF Subscribe
      <4> QED
        BY <1>0, <3>1, <4>1 DEF HubOK
    <3>4. CASE Drop(v) /\ page[v].at = "streaming"
      <4>1. hub[page[v].sub].user = v
        BY <3>4, StreamOf
      <4>2. hub' = [hub EXCEPT ![page[v].sub] = None]
        BY <3>4 DEF Drop
      <4> QED
        BY <1>0, <1>2, <3>1, <4>1, <4>2 DEF HubOK
    <3> QED
      BY <3>2, <3>3, <3>4 DEF Snapshot, Stream, Drop, AnswerData, stream
  <2> QED
    BY <1>1, <2>1, <2>2, <2>3, SameIsTold
<1>3. CASE u = v
  <2>1. CASE Subscribe(v)
    <3>1. page'[v].at = "asked"
      BY <1>0, <2>1 DEF Subscribe, PageOK
    <3> QED
      BY <1>3, <3>1 DEF IsTold
  <2>2. CASE Snapshot(v) \/ AnswerData(v)
    <3>1. known'[v] = registered \cap Workers
      BY <1>0, <2>2 DEF Snapshot, AnswerData, ViewOK
    <3> QED
      BY <1>1, <1>3, <3>1 DEF IsTold, Reaches
  <2>3. CASE Stream(v)
    <3>1. page[v].at = "sending" /\ page'[v].sub = page[v].sub
      BY <1>0, <2>3 DEF Stream, PageOK
    <3>2. known' = known /\ wants' = wants /\ hub' = hub
      BY <2>3 DEF Stream, stream
    <3> QED
      BY <1>1, <1>3, <3>1, <3>2 DEF IsTold
  <2>4. CASE Drop(v)
    <3>1. page'[v].at = "down"
      BY <1>0, <2>4 DEF Drop, PageOK, Down
    <3> QED
      BY <1>3, <3>1 DEF IsTold
  <2> QED
    BY <2>1, <2>2, <2>3, <2>4
<1> QED
  BY <1>2, <1>3

\* Every action keeps NothingIsMissed.
LEMMA MissedStep ==
  ASSUME TypeOK, NothingIsMissed, Next
  PROVE  NothingIsMissed'
<1> SUFFICES ASSUME NEW u \in Viewers PROVE IsTold(u)'
  BY MissedParts DEF NothingIsMissed, IsTold, Reaches
<1>0. IsTold(u)
  BY MissedParts
<1>1. CASE Publish
  BY <1>0, <1>1, PublishIsTold
<1>2. CASE (\E w \in Workers : Register(w)) \/ (\E i \in Workers \cup Operators : Unregister(i))
  <2>1. PICK type \in {"instance_registered", "instance_unregistered"} :
          publishing' = <<Call(type, None)>>
    BY <1>2 DEF Register, Unregister
  <2>2. 1 \in DOMAIN publishing' /\ Refreshing(publishing'[1])
    BY <2>1 DEF Call, Refreshing
  <2> QED
    BY <2>2 DEF IsTold, Reaches
<1>3. ASSUME NEW type, Tell(type) PROVE IsTold(u)'
  BY <1>0, <1>3, SameIsTold DEF Tell, Free, view
<1>4. ASSUME NEW m \in Messages, Announce(m) \/ \E targets \in Lists : Dispatch(m, targets)
      PROVE  IsTold(u)'
  BY <1>0, <1>4, SameIsTold DEF Announce, Dispatch, Free, view, registry, stream
<1>6. ASSUME NEW v \in Viewers, NEW targets, Post(v, targets) PROVE IsTold(u)'
  <2>1. registered' \cap Workers = registered \cap Workers
    BY <1>6, DashboardAssumption DEF Post
  <2> QED
    BY <1>0, <1>6, <2>1, SameIsTold DEF Post, Free, view, stream
<1>7. ASSUME NEW v \in Viewers, NEW m, PostNext(v, m) \/ PostRefused(v) PROVE IsTold(u)'
  BY <1>0, <1>7, SameIsTold DEF PostNext, PostRefused, Free, view, registry, stream
<1>8. ASSUME NEW v \in Viewers, NEW ids, Ack(v, ids) PROVE IsTold(u)'
  BY <1>0, <1>8, SameIsTold DEF Ack, Free, registry, stream
<1>9. ASSUME NEW v \in Viewers, Mark(v) \/ Load(v) \/ AnswerInbox(v) PROVE IsTold(u)'
  <2>1. "data" \in wants[u] => "data" \in wants'[u]
    BY <1>9, TypeParts DEF Mark, Load, AnswerInbox, ViewOK
  <2> QED
    BY <1>0, <1>9, <2>1, SameIsTold DEF Mark, Load, AnswerInbox, registry, stream, Free
<1>10. ASSUME NEW v \in Viewers,
              Subscribe(v) \/ Snapshot(v) \/ Stream(v) \/ Drop(v) \/ AnswerData(v)
       PROVE  IsTold(u)'
  BY <1>0, <1>10, PageStepIsTold
<1>11. ASSUME NEW v \in Viewers, Deliver(v) PROVE IsTold(u)'
  BY <1>0, <1>11, DeliverIsTold
<1>12. CASE Restart
  BY <1>12 DEF Restart, IsTold, Down
<1> HIDE DEF IsTold
<1>13. CASE \E v \in Viewers :
             \/ \E targets \in Posts : Post(v, targets)
             \/ \E m \in Messages : PostNext(v, m)
             \/ \E ids \in SUBSET Messages : Ack(v, ids)
             \/ PostRefused(v) \/ Mark(v) \/ Load(v) \/ Subscribe(v) \/ Snapshot(v)
             \/ Stream(v) \/ Deliver(v) \/ Drop(v) \/ AnswerData(v) \/ AnswerInbox(v)
  BY <1>6, <1>7, <1>8, <1>9, <1>10, <1>11, <1>13
<1> QED
  BY <1>1, <1>2, <1>3, <1>4, <1>12, <1>13 DEF Next

-------------------------------------------------------------------------------
AckingWasShown == \A u \in Viewers : acking[u] \subseteq shown[u]

\* Every action acknowledges only what was shown.
LEMMA AckStep ==
  ASSUME TypeOK, AckedWasShown, AckingWasShown, Next
  PROVE  AckedWasShown' /\ AckingWasShown'
<1>0. ViewOK
  BY TypeParts
<1>1. ASSUME NEW u \in Viewers, NEW ids, Ack(u, ids) PROVE AckedWasShown' /\ AckingWasShown'
  BY <1>0, <1>1 DEF Ack, ViewOK, AckedWasShown, AckingWasShown, mail
<1>2. ASSUME NEW u \in Viewers, Mark(u) PROVE AckedWasShown' /\ AckingWasShown'
  BY <1>0, <1>2 DEF Mark, ViewOK, AckedWasShown, AckingWasShown
<1>3. ASSUME NEW u \in Viewers, AnswerInbox(u) PROVE AckedWasShown' /\ AckingWasShown'
  BY <1>0, <1>3 DEF AnswerInbox, ViewOK, AckedWasShown, AckingWasShown, mail
<1>4. CASE Restart
  BY <1>4 DEF Restart, AckedWasShown, AckingWasShown
<1>5. CASE UNCHANGED <<acked, shown, acking>>
  BY <1>5 DEF AckedWasShown, AckingWasShown
<1>6. \/ Restart \/ UNCHANGED <<acked, shown, acking>>
      \/ \E u \in Viewers : \/ \E ids \in SUBSET Messages : Ack(u, ids)
                           \/ Mark(u) \/ AnswerInbox(u)
  BY DEF Next, Publish, Register, Unregister, Tell, Announce, Dispatch, Write, Post,
         PostNext, PostRefused, Load, Subscribe, Snapshot, Stream, Deliver, Drop, AnswerData,
         mail, view
<1> QED
  BY <1>1, <1>2, <1>3, <1>4, <1>5, <1>6

-------------------------------------------------------------------------------
IInv == TypeOK /\ NothingIsMissed /\ AckedWasShown /\ AckingWasShown

\* IInv holds at the start.
LEMMA InitIInv == Init => IInv
<1> SUFFICES ASSUME Init PROVE IInv
  OBVIOUS
<1>1. NoPost \in [left : Seq(Targets), m : Messages \cup {None}]
  BY DEF NoPost
<1>2. MailOK
  <2>1. posting \in [Viewers -> [left : Seq(Targets), m : Messages \cup {None}]]
    BY <1>1 DEF Init
  <2>2. to \in [Messages -> Seq(Targets)]
    BY DEF Init
  <2> QED
    BY <2>1, <2>2 DEF Init, MailOK
<1>3. HubOK(hub) /\ PageOK
  BY DEF Init, HubOK, PageOK, Linked, Down
<1>4. CallsOK
  BY DEF Init, CallsOK
<1>5. ViewOK
  BY DEF Init, ViewOK
<1>7. NothingIsMissed
  BY DEF Init, Down, NothingIsMissed
<1>8. AckedWasShown /\ AckingWasShown
  BY DEF Init, AckedWasShown, AckingWasShown
<1> QED
  BY <1>2, <1>3, <1>4, <1>5, <1>7, <1>8, TypeParts DEF IInv

\* IInv is kept by every action.
LEMMA NextIInv == IInv /\ [Next]_vars => IInv'
<1> SUFFICES ASSUME IInv, [Next]_vars PROVE IInv'
  OBVIOUS
<1>1. CASE Next
  <2>1. TypeOK'
    <3>1. HubOK(hub)' /\ PageOK' /\ MailOK' /\ CallsOK' /\ ViewOK'
      BY <1>1, HubStep, MailStep, CallsStep, ViewStep DEF IInv
    <3> QED
      BY <3>1, TypeParts, PTL
  <2>2. NothingIsMissed'
    BY <1>1, MissedStep DEF IInv
  <2>3. AckedWasShown' /\ AckingWasShown'
    BY <1>1, AckStep DEF IInv
  <2> QED
    BY <2>1, <2>2, <2>3 DEF IInv
<1>2. CASE UNCHANGED vars
  <2>1. UNCHANGED <<registered, changes, state, to, acked, publishing, hub, page, known, wants,
                    shown, acking, posting>>
    BY <1>2 DEF vars, registry, mail, stream, view
  <2>2. TypeOK'
    BY <2>1 DEF IInv, TypeOK, Attached
  <2>3. NothingIsMissed' /\ AckedWasShown' /\ AckingWasShown'
    BY <2>1 DEF IInv, NothingIsMissed, AckedWasShown, AckingWasShown
  <2> QED
    BY <2>2, <2>3 DEF IInv
<1> QED
  BY <1>1, <1>2

\* The invariant that carries the results below.
THEOREM SpecIInv == Spec => []IInv
<1>1. Init => IInv
  BY InitIInv
<1>2. IInv /\ [Next]_vars => IInv'
  BY NextIInv
<1> QED
  BY <1>1, <1>2, PTL DEF Spec

\* The types of the hub and the pages, for any number of them:
\* no queue outgrows max_queue, and a page's stream is in the hub under its
\* operator (dashboard/events.py:45-69).
THEOREM TypeCorrect == Spec => []TypeOK
<1>1. IInv => TypeOK
  BY DEF IInv
<1> QED
  BY <1>1, SpecIInv, PTL

\* A page that is behind with the workers is still to learn of it, however the
\* subscription, the snapshot and the events fall (dashboard/routes.py:267-298).
THEOREM PagesAreTold == Spec => []NothingIsMissed
<1>1. IInv => NothingIsMissed
  BY DEF IInv
<1> QED
  BY <1>1, SpecIInv, PTL

\* Nothing is marked as read that no operator was shown (dashboard/routes.py:465-473).
THEOREM AcksAreOfTheShown == Spec => []AckedWasShown
<1>1. IInv => AckedWasShown
  BY DEF IInv
<1> QED
  BY <1>1, SpecIInv, PTL
===============================================================================
