------------------------------- MODULE Dashboard -------------------------------
(***************************************************************************)
(* The dashboard: the hub that turns the dispatcher's hooks into events    *)
(* (dashboard/events.py), the stream, the inbox and the actions of an      *)
(* operator (dashboard/routes.py), and the page that an operator has open  *)
(* (dashboard_static/js).                                                  *)
(*                                                                         *)
(* The hooks run to their end before anything else does: publishing holds  *)
(* the calls of them that are to come, and nothing else happens meanwhile. *)
(* A message is written, and announced when its dispatch goes on; what a   *)
(* bot emits is written and never announced.                               *)
(*                                                                         *)
(* A page keeps to what its handlers do: most events make it ask for       *)
(* /dashboard/data again, one for the inbox.  Requests that are not        *)
(* answered yet are kept by kind, and answers may reach the page in any    *)
(* order: shown is all that any answer carried.                            *)
(***************************************************************************)
EXTENDS Naturals, FiniteSets, Sequences

CONSTANTS Workers, Operators, Bots,
          Targets,      \* all of them
          Viewers,      \* operators who use a page
          Messages,     \* command ids
          Lists,        \* lists of targets a message may have
          Posts,        \* lists of targets an operator posts to
          Subs,         \* subscribers of the hub
          MaxQueue,     \* max_queue
          MaxChanges,   \* bound: registrations and removals, deadlines, matrix
                        \* edits and restarts of the broker
          None

\* the events, and a Subscriber of the hub
Types == {"instance_registered", "instance_unregistered", "message_dispatched",
          "deadline_expired", "comm_matrix_changed"}
Events == [type : Types \cup {"operator_inbox_message"}, operator : Operators \cup {None}]
Subscriber == [user : Viewers, queue : Seq(Events), dropped : BOOLEAN]

ASSUME DashboardAssumption ==
  /\ Targets = Workers \cup Operators \cup Bots
  /\ Workers \cap Operators = {}    \* the prefix operator: tells them apart
  /\ Viewers \subseteq Operators
  /\ Lists \subseteq Seq(Targets) /\ Posts \subseteq Seq(Targets)
  /\ MaxQueue \in Nat \ {0}
  /\ None \notin Subs \cup Subscriber

VARIABLES
  registered,   \* the instance registry
  state,        \* state[m]: "new", "written", and "done" when no hook will
                \* speak of it
  to,           \* to[m]: the list of its targets
  acked,        \* messages whose rows have acked_at
  publishing,   \* [type, target]: calls of the hub's hooks that are to come
  hub,          \* hub[s]: [user, queue, dropped], or None
  page,         \* page[u]: [at, sub]
  known,        \* known[u]: the workers when u's last data was computed
  wants,        \* wants[u]: requests of u's page that are to be answered
  shown,        \* shown[u]: messages that answers to u's page carried
  acking,       \* acking[u]: messages of an acknowledgement that is under way
  posting,      \* posting[u]: [left, m], the targets a running POST of u still
                \* dispatches to, and the message that went to the one before
  changes       \* counts what MaxChanges bounds

registry == <<registered, changes>>
mail == <<state, to, acked>>
stream == <<publishing, hub>>
view == <<page, known, wants, shown, acking>>
vars == <<registry, mail, stream, view, posting>>

Down == [at |-> "down", sub |-> None]
NoPost == [left |-> <<>>, m |-> None]

Init ==
  /\ registered = {} /\ changes = 0
  /\ state = [m \in Messages |-> "new"]
  /\ to = [m \in Messages |-> <<>>]
  /\ acked = {}
  /\ publishing = <<>>
  /\ hub = [s \in Subs |-> None]
  /\ page = [u \in Viewers |-> Down]
  /\ known = [u \in Viewers |-> {}]
  /\ wants = [u \in Viewers |-> {}]
  /\ shown = [u \in Viewers |-> {}]
  /\ acking = [u \in Viewers |-> {}]
  /\ posting = [u \in Viewers |-> NoPost]

Free == publishing = <<>>
Addressees(m) == {to[m][i] : i \in DOMAIN to[m]}

\* /dashboard/operator/inbox
Unread(u) == {m \in Messages : state[m] # "new" /\ u \in Addressees(m) /\ m \notin acked}

-------------------------------------------------------------------------------
(***************************************************************************)
(* The hub.                                                                *)
(***************************************************************************)
Event(type) == [type |-> type, operator |-> None]
InboxEvent(u) == [type |-> "operator_inbox_message", operator |-> u]

\* an event the page answers by asking for /dashboard/data
Refreshing(evt) ==
  evt.type \in {"instance_registered", "instance_unregistered",
                "message_dispatched", "deadline_expired"}

\* mutant of Push: a queue grows one longer
PushOneMore(sub, evt) ==
  LET full == Len(sub.queue) > MaxQueue IN
  [sub EXCEPT !.queue = Append(IF full THEN Tail(@) ELSE @, evt),
              !.dropped = @ \/ full]

\* _push: the oldest event makes room
Push(sub, evt) ==
  LET full == Len(sub.queue) >= MaxQueue IN
  [sub EXCEPT !.queue = Append(IF full THEN Tail(@) ELSE @, evt),
              !.dropped = @ \/ full]

\* publish: an event for one operator goes to that operator's streams
Told(evt, h) ==
  [s \in Subs |-> IF h[s] # None /\ evt.operator \in {None, h[s].user}
                 THEN Push(h[s], evt) ELSE h[s]]

\* _on_dispatch, _on_register, ...: a message for an operator is told twice
Publish ==
  LET call == Head(publishing)
      first == Told(Event(call.type), hub)
  IN
  /\ publishing # <<>>
  /\ hub' = IF call.target \in Operators THEN Told(InboxEvent(call.target), first)
                                          ELSE first
  /\ publishing' = Tail(publishing)
  /\ UNCHANGED <<registry, mail, view, posting>>

Call(type, target) == [type |-> type, target |-> target]

-------------------------------------------------------------------------------
(***************************************************************************)
(* What the hooks tell of.                                                 *)
(***************************************************************************)
\* a worker registers; its session may have had another name
Register(w) ==
  /\ Free /\ changes < MaxChanges
  /\ \E prior \in SUBSET (registered \cap Workers) :
       /\ Cardinality(prior) <= 1
       /\ registered' = (registered \ prior) \cup {w}
  /\ changes' = changes + 1
  /\ publishing' = <<Call("instance_registered", None)>>
  /\ UNCHANGED <<mail, hub, view, posting>>

\* a worker leaves or is swept, or an operator throws an instance out
Unregister(i) ==
  /\ Free /\ changes < MaxChanges
  /\ i \in registered
  /\ registered' = registered \ {i}
  /\ changes' = changes + 1
  /\ publishing' = <<Call("instance_unregistered", None)>>
  /\ UNCHANGED <<mail, hub, view, posting>>

\* a deadline expires, or the matrix is edited
Tell(type) ==
  /\ Free /\ changes < MaxChanges
  /\ changes' = changes + 1
  /\ publishing' = <<Call(type, None)>>
  /\ UNCHANGED <<registered, mail, hub, view, posting>>

Write(m, targets, how) ==
  /\ state[m] = "new"
  /\ state' = [state EXCEPT ![m] = how]
  /\ to' = [to EXCEPT ![m] = targets]
  /\ UNCHANGED acked

\* a worker dispatches, or a bot emits: the rows are written
Dispatch(m, targets) ==
  /\ Free
  /\ \A i \in DOMAIN targets : targets[i] \in registered \cup Bots
  /\ \E how \in {"written", "done"} : Write(m, targets, how)
  /\ UNCHANGED <<registry, stream, view, posting>>

\* the dispatch goes on and fires the hooks
Announce(m) ==
  /\ Free /\ state[m] = "written"
  /\ state' = [state EXCEPT ![m] = "done"]
  /\ publishing' = [i \in DOMAIN to[m] |-> Call("message_dispatched", to[m][i])]
  /\ UNCHANGED <<registry, to, acked, hub, view, posting>>

-------------------------------------------------------------------------------
(***************************************************************************)
(* The actions of an operator.                                             *)
(***************************************************************************)
\* POST /dashboard/dispatch and /dashboard/broadcast: the operator is
\* registered, without a word, and the targets are taken in turn
Post(u, targets) ==
  /\ Free /\ posting[u].left = <<>>
  /\ registered' = registered \cup {u}
  /\ posting' = [posting EXCEPT ![u] = [left |-> targets, m |-> None]]
  /\ UNCHANGED <<changes, mail, stream, view>>

\* the dispatch before has come to its end
Returned(u) == posting[u].m # None => state[posting[u].m] # "written"

PostNext(u, m) ==
  LET target == Head(posting[u].left) IN
  /\ Free /\ posting[u].left # <<>> /\ Returned(u)
  /\ target \in registered \cup Bots
  /\ Write(m, <<target>>, "written")
  /\ posting' = [posting EXCEPT ![u] = [left |-> Tail(@.left),
                                     m |-> IF Len(@.left) > 1 THEN m ELSE None]]
  /\ UNCHANGED <<registry, stream, view>>

\* an error is noted, and the next one is taken
PostRefused(u) ==
  /\ Free /\ posting[u].left # <<>> /\ Returned(u)
  /\ Head(posting[u].left) \notin registered \cup Bots
  /\ posting' = [posting EXCEPT ![u] = [left |-> Tail(@.left), m |-> None]]
  /\ UNCHANGED <<registry, mail, stream, view>>

\* the buttons ack and ack all
Ack(u, ids) ==
  /\ Free /\ acking[u] = {}
  /\ ids # {} /\ ids \subseteq shown[u]
  /\ acking' = [acking EXCEPT ![u] = ids]
  /\ UNCHANGED <<registry, mail, stream, page, known, wants, shown, posting>>

\* mutant of Mark: all that is unread when the update runs
MarkAll(u) ==
  /\ Free /\ acking[u] # {}
  /\ acked' = acked \cup Unread(u)
  /\ acking' = [acking EXCEPT ![u] = {}]
  /\ wants' = [wants EXCEPT ![u] = @ \cup {"inbox"}]
  /\ UNCHANGED <<registry, state, to, stream, page, known, shown, posting>>

\* mark_messages_acked runs in the write queue: the rows of a command, of
\* every recipient; the page asks for the inbox when it has the answer
Mark(u) ==
  /\ Free /\ acking[u] # {}
  /\ acked' = acked \cup acking[u]
  /\ acking' = [acking EXCEPT ![u] = {}]
  /\ wants' = [wants EXCEPT ![u] = @ \cup {"inbox"}]
  /\ UNCHANGED <<registry, state, to, stream, page, known, shown, posting>>

-------------------------------------------------------------------------------
(***************************************************************************)
(* The page and its stream.                                                *)
(***************************************************************************)
\* the page is opened or loaded again: before it connects it asks for the inbox
Load(u) ==
  /\ Free /\ page[u] = Down
  /\ wants' = [wants EXCEPT ![u] = @ \cup {"inbox"}]
  /\ UNCHANGED <<registry, mail, stream, page, known, shown, acking, posting>>

\* stream_endpoint
Subscribe(u) ==
  /\ Free /\ page[u] = Down
  /\ \E s \in {s \in Subs : hub[s] = None} :
       /\ hub' = [hub EXCEPT ![s] = [user |-> u, queue |-> <<>>, dropped |-> FALSE]]
       /\ page' = [page EXCEPT ![u] = [at |-> "asked", sub |-> s]]
  /\ UNCHANGED <<registry, mail, publishing, known, wants, shown, acking, posting>>

\* the generator starts: it makes a snapshot and sends it
Snapshot(u) ==
  /\ Free /\ page[u].at = "asked"
  /\ page' = [page EXCEPT ![u].at = "sending"]
  /\ known' = [known EXCEPT ![u] = registered \cap Workers]
  /\ UNCHANGED <<registry, mail, stream, wants, shown, acking, posting>>

\* mutant of Stream: the generator subscribes only when its snapshot is sent
StreamSubscribes(u) ==
  /\ Free /\ page[u].at = "sending"
  /\ page' = [page EXCEPT ![u].at = "streaming"]
  /\ hub' = [hub EXCEPT ![page[u].sub].queue = <<>>]
  /\ UNCHANGED <<registry, mail, publishing, known, wants, shown, acking, posting>>

\* it is sent, and the generator enters its loop
Stream(u) ==
  /\ Free /\ page[u].at = "sending"
  /\ page' = [page EXCEPT ![u].at = "streaming"]
  /\ UNCHANGED <<registry, mail, stream, known, wants, shown, acking, posting>>

\* an event: the page's handlers ask again
Deliver(u) ==
  LET s == page[u].sub
      evt == Head(hub[s].queue)
  IN
  /\ Free /\ page[u].at = "streaming" /\ hub[s].queue # <<>>
  /\ hub' = [hub EXCEPT ![s].queue = Tail(@)]
  /\ wants' = [wants EXCEPT ![u] = @ \cup
                 (IF Refreshing(evt) THEN {"data"}
                  ELSE IF evt.type = "operator_inbox_message" THEN {"inbox"} ELSE {})]
  /\ UNCHANGED <<registry, mail, publishing, page, known, shown, acking, posting>>

\* the connection breaks, or the page is left; only a generator that is in
\* its loop unsubscribes
Drop(u) ==
  LET s == page[u].sub IN
  /\ Free /\ page[u] # Down
  /\ page' = [page EXCEPT ![u] = Down]
  /\ hub' = IF page[u].at = "streaming" THEN [hub EXCEPT ![s] = None] ELSE hub
  /\ wants' = [wants EXCEPT ![u] = @ \ {"data"}]
  /\ known' = [known EXCEPT ![u] = {}]
  /\ UNCHANGED <<registry, mail, publishing, shown, acking, posting>>

\* GET /dashboard/data
AnswerData(u) ==
  /\ Free /\ "data" \in wants[u]
  /\ wants' = [wants EXCEPT ![u] = @ \ {"data"}]
  /\ known' = [known EXCEPT ![u] = registered \cap Workers]
  /\ UNCHANGED <<registry, mail, stream, page, shown, acking, posting>>

\* GET /dashboard/operator/inbox
AnswerInbox(u) ==
  /\ Free /\ "inbox" \in wants[u]
  /\ wants' = [wants EXCEPT ![u] = @ \ {"inbox"}]
  /\ shown' = [shown EXCEPT ![u] = @ \cup Unread(u)]
  /\ UNCHANGED <<registry, mail, stream, page, known, acking, posting>>

\* the broker dies and is started again
Restart ==
  /\ changes < MaxChanges
  /\ changes' = changes + 1
  /\ registered' = {}
  /\ publishing' = <<>>
  /\ hub' = [s \in Subs |-> None]
  /\ page' = [u \in Viewers |-> Down]
  /\ known' = [u \in Viewers |-> {}]
  /\ wants' = [u \in Viewers |-> {}]
  /\ acking' = [u \in Viewers |-> {}]
  /\ posting' = [u \in Viewers |-> NoPost]
  /\ state' = [m \in Messages |-> IF state[m] = "written" THEN "done" ELSE state[m]]
  /\ UNCHANGED <<to, acked, shown>>

-------------------------------------------------------------------------------
Next ==
  \/ Publish \/ Restart
  \/ \E w \in Workers : Register(w)
  \/ \E i \in Workers \cup Operators : Unregister(i)
  \/ \E type \in {"deadline_expired", "comm_matrix_changed"} : Tell(type)
  \/ \E m \in Messages : Announce(m) \/ \E targets \in Lists : Dispatch(m, targets)
  \/ \E u \in Viewers :
       \/ \E targets \in Posts : Post(u, targets)
       \/ \E m \in Messages : PostNext(u, m)
       \/ \E ids \in SUBSET Messages : Ack(u, ids)
       \/ PostRefused(u) \/ Mark(u) \/ Load(u) \/ Subscribe(u) \/ Snapshot(u) \/ Stream(u)
       \/ Deliver(u) \/ Drop(u) \/ AnswerData(u) \/ AnswerInbox(u)

Spec == Init /\ [][Next]_vars

-------------------------------------------------------------------------------
Attached(u) == page[u].at \in {"asked", "sending", "streaming"}

(***************************************************************************)
(* The types; no queue, of a stream that is read or of one that was left   *)
(* behind, is longer than max_queue, and a stream that is read is in the   *)
(* hub, under its operator (dashboard/events.py:61-69).                    *)
(***************************************************************************)
TypeOK ==
  /\ registered \subseteq Workers \cup Operators
  /\ state \in [Messages -> {"new", "written", "done"}]
  /\ to \in [Messages -> Seq(Targets)] /\ acked \subseteq Messages
  /\ publishing \in Seq([type : Types, target : Targets \cup {None}])
  /\ hub \in [Subs -> Subscriber \cup {None}]
  /\ \A s \in Subs : hub[s] # None => Len(hub[s].queue) <= MaxQueue
  /\ page \in [Viewers -> [at : {"down", "asked", "sending", "streaming"},
                            sub : Subs \cup {None}]]
  /\ \A u \in Viewers :
       IF Attached(u)
       THEN /\ page[u].sub # None /\ hub[page[u].sub] # None
            /\ hub[page[u].sub].user = u
       ELSE page[u].sub = None
  /\ known \in [Viewers -> SUBSET Workers]
  /\ wants \in [Viewers -> SUBSET {"data", "inbox"}]
  /\ shown \in [Viewers -> SUBSET Messages]
  /\ acking \in [Viewers -> SUBSET Messages]
  /\ posting \in [Viewers -> [left : Seq(Targets), m : Messages \cup {None}]]

(***************************************************************************)
(* Between the subscription and the snapshot, between the snapshot and the *)
(* first event, and ever after: when the workers are no longer those of    *)
(* the data a page has asked for, it is still to learn of it, or to have   *)
(* its answer, unless its queue ran over (dashboard/routes.py:267-290).    *)
(***************************************************************************)
NothingIsMissed ==
  \A u \in Viewers :
    page[u].at \in {"sending", "streaming"} /\ ~hub[page[u].sub].dropped =>
      \/ known[u] = registered \cap Workers
      \/ "data" \in wants[u]
      \/ \E i \in DOMAIN publishing : Refreshing(publishing[i])
      \/ \E i \in DOMAIN hub[page[u].sub].queue : Refreshing(hub[page[u].sub].queue[i])

(***************************************************************************)
(* A message is marked as read only if it is in an inbox that was shown:   *)
(* one that arrives while the operator acknowledges all he sees stays      *)
(* unread (dashboard_static/js/inbox.js:36-46, persistence.py:458-474).    *)
(***************************************************************************)
AckedWasShown == \A m \in acked : \E u \in Viewers : m \in shown[u]
===============================================================================
