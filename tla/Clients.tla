-------------------------------- MODULE Clients --------------------------------
(***************************************************************************)
(* The two programs that wait on a broker for someone else: the channel    *)
(* adapter (channel_adapter.py), which wakes a worker when mail arrives    *)
(* for it, and the bot library (bot.py), which drains and handles the mail *)
(* of a bot.  Between them and Dispatcher are GET /channel/wait            *)
(* (http/channel_routes.py), the HTTP helpers (_broker_http.py) and the    *)
(* tools agora.peek, agora.flush and agora.bot_emit.                       *)
(*                                                                         *)
(* The broker is what the clients see of it: it is up or down, it has an   *)
(* inbox per client and knows who is registered and who was seen lately.   *)
(* It may die at any moment; a restart ends every MCP session, forgets     *)
(* the registrations and, without --restore, the inboxes.                  *)
(*                                                                         *)
(* A notification reaches the worker or does not: the host may drop it, be *)
(* in the middle of something or have compacted it away.  Time is not      *)
(* modelled but where the code compares two durations: the adapter counts  *)
(* the polls since its last notification, and a client may be forgotten    *)
(* (dead_session_timeout, 30 minutes) only where it can spend so long      *)
(* without calling a function that touches last_seen.                      *)
(***************************************************************************)
EXTENDS Naturals, Sequences

CONSTANTS Workers,       \* ids of workers, each with its adapter
          Bots,          \* ids of bots
          Observers,     \* the bots in observer mode
          MaxMessages,   \* bound: messages that enter an inbox
          MaxRestarts,   \* bound: deaths of the broker
          MaxStarts,     \* bound: starts of a bot
          Reemit,        \* reemit_interval_s in polls of drain_poll_s
          Restore        \* the broker is started with --restore

ASSUME ClientsAssumption ==
  /\ Workers \cap Bots = {}
  /\ Observers \subseteq Bots
  /\ {MaxMessages, MaxRestarts, MaxStarts} \subseteq Nat
  /\ Reemit \in Nat \ {0}
  /\ Restore \in BOOLEAN

Clients == Workers \cup Bots

VARIABLES
  up,           \* the broker runs
  restarts,     \* how often it has died
  inbox,        \* the queue of each client: who sent the messages in it
  sent,         \* how many messages have entered an inbox
  registry,     \* what the registries know of each client: nothing, or how
                \* long ago it was heard
  session,      \* who holds an MCP session the broker still knows
  adapter,      \* [pc, since] of the adapter of each worker
  host,         \* [alive, woken]: the worker itself
  bot,          \* [pc, batch, emitted, outcome, starts] of each bot
  replies,      \* history: what each bot emitted for the message at hand
  last          \* history: [outcome, replies] of the last message it finished,
                \* until its next step

vars == <<up, restarts, inbox, sent, registry, session,
          adapter, host, bot, replies, last>>

AdapterPc == {"connecting", "backingOff", "waiting", "pausing", "emitting",
              "polling", "stopping", "gone"}
\* not registered; registered, but last_seen is not set yet; heard within
\* dead_session_timeout; not heard for longer
Known == {"none", "unseen", "seen", "old"}
BotPc == {"gone", "waiting", "flushing", "handling", "handled"}
Outcome == {"value", "silent", "raised"}
ReplyKind == {"direct", "auto", "error"}
Nothing == [outcome |-> "silent", replies |-> {}]

Init ==
  /\ up = TRUE /\ restarts = 0 /\ sent = 0
  /\ inbox = [c \in Clients |-> <<>>]
  /\ registry = [c \in Clients |-> "none"] /\ session = {}
  /\ adapter = [w \in Workers |-> [pc |-> "connecting", since |-> 0]]
  /\ host = [w \in Workers |-> [alive |-> TRUE, woken |-> FALSE]]
  /\ bot = [b \in Bots |-> [pc |-> "gone", batch |-> <<>>, emitted |-> FALSE,
                            outcome |-> "silent", starts |-> 0]]
  /\ replies = [b \in Bots |-> {}]
  /\ last = [b \in Bots |-> Nothing]

-------------------------------------------------------------------------------
(***************************************************************************)
(* The broker.                                                             *)
(***************************************************************************)
registered == {c \in Clients : registry[c] # "none"}

\* _touch_last_seen: of someone who is registered
Touched(c) == IF c \in registered THEN [registry EXCEPT ![c] = "seen"] ELSE registry

\* a message and its copies to the observers
Enqueue(from, to) ==
  /\ sent < MaxMessages
  /\ sent' = sent + 1
  /\ inbox' = [c \in Clients |->
       IF c \in {to} \cup (Observers \cap registered)
       THEN Append(inbox[c], from) ELSE inbox[c]]

\* dispatch of a worker to someone who is registered
Send(from, to) ==
  /\ up /\ {from, to} \subseteq registered
  /\ Enqueue(from, to)
  /\ UNCHANGED <<up, restarts, registry, session, adapter, host, bot, replies, last>>

\* the process dies, and with it the sessions, the registries and all inboxes
\* that are not on disk
Crash ==
  /\ up /\ restarts < MaxRestarts
  /\ up' = FALSE /\ restarts' = restarts + 1
  /\ registry' = [c \in Clients |-> "none"] /\ session' = {}
  /\ inbox' = IF Restore THEN inbox ELSE [c \in Clients |-> <<>>]
  /\ UNCHANGED <<sent, adapter, host, bot, replies, last>>

Boot ==
  /\ ~up
  /\ up' = TRUE
  /\ UNCHANGED <<restarts, inbox, sent, registry, session, adapter, host, bot,
                 replies, last>>

\* where a client may stay for 30 minutes without a wait or a flush: the
\* adapter polls agora.peek for as long as its worker does not drain, and a
\* bot runs its handler
Unheard(c) ==
  IF c \in Workers THEN adapter[c].pc \in {"polling", "gone"}
                   ELSE bot[c].pc \in {"handling", "gone"}

Age(c) ==
  /\ up /\ registry[c] = "seen" /\ Unheard(c)
  /\ registry' = [registry EXCEPT ![c] = "old"]
  /\ UNCHANGED <<up, restarts, inbox, sent, session, adapter, host, bot, replies,
                 last>>

\* dead_session_sweep, dead_bot_sweep; the inbox stays.  Who was never heard
\* is passed over.
Sweep(c) ==
  /\ up /\ registry[c] = "old"
  /\ registry' = [registry EXCEPT ![c] = "none"]
  /\ UNCHANGED <<up, restarts, inbox, sent, session, adapter, host, bot, replies,
                 last>>

-------------------------------------------------------------------------------
(***************************************************************************)
(* The worker.  Every request of its host carries the headers the          *)
(* auto-register middleware reads: the worker is registered with it when   *)
(* it is not, and again when its headers or its session have changed.  A   *)
(* registration knows of no earlier last_seen.                             *)
(***************************************************************************)
Request(w) ==
  /\ up /\ host[w].alive /\ registry[w] # "unseen"
  /\ registry' = [registry EXCEPT ![w] = "unseen"]
  /\ UNCHANGED <<up, restarts, inbox, sent, session, adapter, host, bot, replies,
                 last>>

\* a turn that flushes: because of a notification, or of its own
Drain(w) ==
  /\ up /\ host[w].alive
  /\ registry' = [registry EXCEPT ![w] = "seen"]
  /\ inbox' = [inbox EXCEPT ![w] = <<>>]
  /\ host' = [host EXCEPT ![w].woken = FALSE]
  /\ UNCHANGED <<up, restarts, sent, session, adapter, bot, replies, last>>

\* a notification that leads to no flush
Forget(w) ==
  /\ host[w].alive /\ host[w].woken
  /\ host' = [host EXCEPT ![w].woken = FALSE]
  /\ UNCHANGED <<up, restarts, inbox, sent, registry, session, adapter, bot,
                 replies, last>>

\* the host ends, or is killed together with its adapter
Exit(w) ==
  /\ host[w].alive
  /\ host' = [host EXCEPT ![w] = [alive |-> FALSE, woken |-> FALSE]]
  /\ \/ UNCHANGED <<session, adapter>>
     \/ /\ adapter' = [adapter EXCEPT ![w].pc = "gone", ![w].since = 0]
        /\ session' = session \ {w}
  /\ UNCHANGED <<up, restarts, inbox, sent, registry, bot, replies, last>>

-------------------------------------------------------------------------------
(***************************************************************************)
(* The channel adapter: watch_loop inside the reconnect loop of            *)
(* _run_watch_emit.  GET /channel/wait and emit are plain requests;        *)
(* agora.peek needs the MCP session.                                       *)
(***************************************************************************)
AdapterStep(w, from, to) ==
  /\ adapter[w].pc = from
  /\ adapter' = [adapter EXCEPT ![w].pc = to]

Connect(w) ==
  /\ adapter[w].pc = "connecting"
  /\ IF up THEN /\ adapter' = [adapter EXCEPT ![w].pc = "waiting"]
                /\ session' = session \cup {w}
           ELSE /\ adapter' = [adapter EXCEPT ![w].pc = "backingOff"]
                /\ UNCHANGED session
  /\ UNCHANGED <<up, restarts, inbox, sent, registry, host, bot, replies, last>>

BackOff(w) ==
  /\ AdapterStep(w, "backingOff", "connecting")
  /\ UNCHANGED <<up, restarts, inbox, sent, registry, session, host, bot, replies,
                 last>>

\* the long-poll returns: with mail, at its timeout, or with an error when
\* the broker is away.  It needs no registration.
Wait(w) ==
  /\ \/ up /\ inbox[w] # <<>> /\ AdapterStep(w, "waiting", "emitting")
     \/ up /\ inbox[w] = <<>> /\ adapter[w].pc = "waiting" /\ UNCHANGED adapter
     \/ ~up /\ AdapterStep(w, "waiting", "pausing")
  /\ registry' = IF up THEN Touched(w) ELSE registry
  /\ UNCHANGED <<up, restarts, inbox, sent, session, host, bot, replies,
                 last>>

Pause(w) ==
  /\ AdapterStep(w, "pausing", "waiting")
  /\ UNCHANGED <<up, restarts, inbox, sent, registry, session, host, bot, replies,
                 last>>

\* the notification; a closed write stream cancels the watch
Emit(w) ==
  /\ adapter[w].pc = "emitting"
  /\ IF host[w].alive
     THEN /\ adapter' = [adapter EXCEPT ![w].pc = "polling"]
          /\ host' = [host EXCEPT ![w].woken = TRUE]
     ELSE /\ adapter' = [adapter EXCEPT ![w].pc = "stopping"]
          /\ UNCHANGED host
  /\ UNCHANGED <<up, restarts, inbox, sent, registry, session, bot, replies, last>>

\* what agora.peek tells: nothing of the inbox of someone who is not registered
Depth(w) == IF w \in registered THEN Len(inbox[w]) ELSE 0

\* mutant of Peek: a notification is never repeated
PeekOnce(w) ==
  /\ adapter[w].pc = "polling"
  /\ \/ /\ ~up \/ w \notin session
        /\ adapter' = [adapter EXCEPT ![w].pc = "backingOff"]
     \/ /\ up /\ w \in session /\ Depth(w) = 0
        /\ adapter' = [adapter EXCEPT ![w].pc = "waiting"]
     \/ up /\ w \in session /\ Depth(w) > 0 /\ UNCHANGED adapter
  /\ session' = IF adapter'[w].pc = "backingOff" THEN session \ {w} ELSE session
  /\ UNCHANGED <<up, restarts, inbox, sent, registry, host, bot, replies, last>>

\* one round of the inner loop of watch_loop
Peek(w) ==
  /\ adapter[w].pc = "polling"
  /\ \/ /\ ~up \/ w \notin session
        /\ adapter' = [adapter EXCEPT ![w].pc = "backingOff", ![w].since = 0]
     \/ /\ up /\ w \in session /\ Depth(w) = 0
        /\ adapter' = [adapter EXCEPT ![w].pc = "waiting", ![w].since = 0]
     \/ /\ up /\ w \in session /\ Depth(w) > 0
        /\ LET due == adapter[w].since + 1 >= Reemit IN
             adapter' = [adapter EXCEPT ![w].pc = IF due THEN "emitting" ELSE @,
                                        ![w].since = IF due THEN 0 ELSE @ + 1]
  /\ session' = IF adapter'[w].pc = "backingOff" THEN session \ {w} ELSE session
  /\ UNCHANGED <<up, restarts, inbox, sent, registry, host, bot, replies, last>>

\* mutant of Eof: the watch is left alone while its long-poll is out
EofBetweenPolls(w) ==
  /\ ~host[w].alive /\ adapter[w].pc \notin {"waiting", "stopping", "gone"}
  /\ adapter' = [adapter EXCEPT ![w].pc = "stopping", ![w].since = 0]
  /\ UNCHANGED <<up, restarts, inbox, sent, registry, session, host, bot, replies,
                 last>>

\* stdin is at its end: server.run returns and the watch is cancelled,
\* wherever it is
Eof(w) ==
  /\ ~host[w].alive /\ adapter[w].pc \notin {"stopping", "gone"}
  /\ adapter' = [adapter EXCEPT ![w].pc = "stopping", ![w].since = 0]
  /\ UNCHANGED <<up, restarts, inbox, sent, registry, session, host, bot, replies,
                 last>>

\* _unregister_from_broker calls agora.unregister in a session of its own, and
\* the tool unregisters the holder of that session: nobody.  Nothing changes,
\* and the registration is left to the sweeper.
Unregister(w) ==
  /\ AdapterStep(w, "stopping", "gone")
  /\ session' = session \ {w}
  /\ UNCHANGED <<up, restarts, inbox, sent, registry, host, bot, replies, last>>

-------------------------------------------------------------------------------
(***************************************************************************)
(* The bot: run, _dispatch and the life cycle of the context manager.      *)
(***************************************************************************)
Reachable(b) == up /\ b \in session

\* __aenter__: connect and register_bot
Start(b) ==
  /\ up /\ bot[b].pc = "gone" /\ bot[b].starts < MaxStarts
  /\ bot' = [bot EXCEPT ![b] = [pc |-> "waiting", batch |-> <<>>, emitted |-> FALSE,
                                outcome |-> "silent", starts |-> @.starts + 1]]
  /\ registry' = [registry EXCEPT ![b] = "seen"]
  /\ session' = session \cup {b}
  /\ replies' = [replies EXCEPT ![b] = {}]
  /\ UNCHANGED <<up, restarts, inbox, sent, adapter, host, last>>

Ended(b) ==
  /\ bot' = [bot EXCEPT ![b].pc = "gone", ![b].batch = <<>>, ![b].emitted = FALSE,
                        ![b].outcome = "silent"]
  /\ replies' = [replies EXCEPT ![b] = {}]
  /\ last' = [last EXCEPT ![b] = Nothing]

\* _http_wait, whatever it returns
BotWait(b) ==
  /\ bot[b].pc = "waiting"
  /\ bot' = [bot EXCEPT ![b].pc = "flushing"]
  /\ registry' = IF up THEN Touched(b) ELSE registry
  /\ last' = [last EXCEPT ![b] = Nothing]
  /\ UNCHANGED <<up, restarts, inbox, sent, session, adapter, host,
                 replies>>

\* mutant of Serve: _emitted is not cleared for the next message
ServeOn(b, batch) ==
  /\ bot' = [bot EXCEPT ![b].pc = IF batch = <<>> THEN "waiting" ELSE "handling",
                        ![b].batch = batch, ![b].outcome = "silent"]
  /\ replies' = [replies EXCEPT ![b] = {}]

\* a batch is handled message by message; then the bot waits again
Serve(b, batch) ==
  /\ bot' = [bot EXCEPT ![b].pc = IF batch = <<>> THEN "waiting" ELSE "handling",
                        ![b].batch = batch, ![b].emitted = FALSE,
                        ![b].outcome = "silent"]
  /\ replies' = [replies EXCEPT ![b] = {}]

\* agora.flush: without a session the call raises and ends run, and with it
\* the bot; who is no longer registered gets an error, which run takes for an
\* empty batch
Flush(b) ==
  /\ bot[b].pc = "flushing"
  /\ \/ /\ ~Reachable(b)
        /\ Ended(b) /\ session' = session \ {b}
        /\ UNCHANGED <<inbox, registry>>
     \/ /\ Reachable(b) /\ b \notin registered
        /\ Serve(b, <<>>)
        /\ UNCHANGED <<inbox, registry, session, last>>
     \/ /\ Reachable(b) /\ b \in registered
        /\ Serve(b, inbox[b])
        /\ inbox' = [inbox EXCEPT ![b] = <<>>]
        /\ registry' = Touched(b)
        /\ UNCHANGED <<session, last>>
  /\ UNCHANGED <<up, restarts, sent, adapter, host>>

\* an observer's own message comes back to it and is passed over
Skip(b) ==
  /\ bot[b].pc = "handling" /\ Head(bot[b].batch) = b
  /\ Serve(b, Tail(bot[b].batch))
  /\ last' = [last EXCEPT ![b] = Nothing]
  /\ UNCHANGED <<up, restarts, inbox, sent, registry, session, adapter, host>>

\* agora.bot_emit in reply to the message at hand: delivered, or refused
\* (not registered, schema, comm-matrix, full inbox), which is only printed
BotEmit(b) ==
  \/ b \in registered /\ Enqueue(b, Head(bot[b].batch))
  \/ UNCHANGED <<inbox, sent>>

\* the handler calls self.emit
DirectEmit(b) ==
  /\ bot[b].pc = "handling" /\ Head(bot[b].batch) # b
  /\ Reachable(b) /\ BotEmit(b)
  /\ bot' = [bot EXCEPT ![b].emitted = TRUE]
  /\ replies' = [replies EXCEPT ![b] = @ \cup {"direct"}]
  /\ last' = [last EXCEPT ![b] = Nothing]
  /\ UNCHANGED <<up, restarts, registry, session, adapter, host>>

\* the handler returns a value or None, or raises
Return(b, outcome) ==
  /\ bot[b].pc = "handling" /\ Head(bot[b].batch) # b
  /\ bot' = [bot EXCEPT ![b].pc = "handled", ![b].outcome = outcome]
  /\ last' = [last EXCEPT ![b] = Nothing]
  /\ UNCHANGED <<up, restarts, inbox, sent, registry, session, adapter, host, replies>>

\* the message at hand is done with, after a last emission or none
Finish(b, emission) ==
  /\ Serve(b, Tail(bot[b].batch))
  /\ last' = [last EXCEPT ![b] = [outcome |-> bot[b].outcome,
                                  replies |-> replies[b] \cup emission]]
  /\ UNCHANGED session

\* what _dispatch does after the handler, and the next message of the batch
Settle(b) ==
  LET raised == bot[b].outcome = "raised"
      auto == bot[b].outcome = "value" /\ ~bot[b].emitted
  IN
  /\ bot[b].pc = "handled"
  /\ \/ auto /\ Reachable(b) /\ BotEmit(b) /\ Finish(b, {"auto"})
     \/ /\ auto /\ ~Reachable(b)                 \* the call raises and ends run
        /\ Ended(b) /\ session' = session \ {b}
        /\ UNCHANGED <<inbox, sent>>
     \/ raised /\ Reachable(b) /\ BotEmit(b) /\ Finish(b, {"error"})
     \/ /\ ~auto /\ (raised => ~Reachable(b))     \* _emit_error is suppressed
        /\ Finish(b, {})
        /\ UNCHANGED <<inbox, sent>>
  /\ UNCHANGED <<up, restarts, registry, adapter, host>>

\* Ctrl-C or an exception out of run: __aexit__ unregisters, if it still can
Close(b) ==
  /\ bot[b].pc # "gone"
  /\ Ended(b)
  /\ registry' = IF Reachable(b) THEN [registry EXCEPT ![b] = "none"] ELSE registry
  /\ session' = session \ {b}
  /\ UNCHANGED <<up, restarts, inbox, sent, adapter, host>>

\* kill -9: the registration is left to the sweeper
Kill(b) ==
  /\ bot[b].pc # "gone"
  /\ Ended(b)
  /\ session' = session \ {b}
  /\ UNCHANGED <<up, restarts, inbox, sent, registry, adapter, host>>

-------------------------------------------------------------------------------
AdapterNext(w) ==
  \/ Connect(w) \/ BackOff(w) \/ Wait(w) \/ Pause(w) \/ Emit(w) \/ Peek(w)
  \/ Eof(w) \/ Unregister(w)

BotNext(b) ==
  \/ BotWait(b) \/ Flush(b) \/ Skip(b) \/ Settle(b)
  \/ \E outcome \in Outcome : Return(b, outcome)

Next ==
  \/ \E from \in Workers, to \in Clients : Send(from, to)
  \/ Crash \/ Boot
  \/ \E c \in Clients : Age(c) \/ Sweep(c)
  \/ \E w \in Workers : Request(w) \/ Drain(w) \/ Forget(w) \/ Exit(w) \/ AdapterNext(w)
  \/ \E b \in Bots : Start(b) \/ DirectEmit(b) \/ Close(b) \/ Kill(b) \/ BotNext(b)

(***************************************************************************)
(* Fairness: the event loops of the programs run, a handler ends, the      *)
(* broker is started again and its sweeps go round.  Of the worker it is   *)
(* assumed that it does not ignore every notification for ever.            *)
(***************************************************************************)
Fairness ==
  /\ WF_vars(Boot)
  /\ \A c \in Clients : WF_vars(Age(c)) /\ WF_vars(Sweep(c))
  /\ \A w \in Workers :
       /\ WF_vars(AdapterNext(w)) /\ WF_vars(Eof(w))
       /\ SF_vars(host[w].woken /\ Drain(w))
  /\ \A b \in Bots : WF_vars(BotNext(b))

Spec == Init /\ [][Next]_vars
FairSpec == Spec /\ Fairness

-------------------------------------------------------------------------------
(***************************************************************************)
(* The type invariant of the broker's view, the adapters and the bots.     *)
(***************************************************************************)
TypeOK ==
  /\ up \in BOOLEAN /\ restarts \in 0 .. MaxRestarts /\ sent \in 0 .. MaxMessages
  /\ inbox \in [Clients -> Seq(Clients)]
  /\ registry \in [Clients -> Known] /\ session \subseteq Clients
  /\ adapter \in [Workers -> [pc : AdapterPc, since : 0 .. Reemit - 1]]
  /\ host \in [Workers -> [alive : BOOLEAN, woken : BOOLEAN]]
  /\ bot \in [Bots -> [pc : BotPc, batch : Seq(Clients), emitted : BOOLEAN,
                       outcome : Outcome, starts : 0 .. MaxStarts]]
  /\ replies \in [Bots -> SUBSET ReplyKind]
  /\ last \in [Bots -> [outcome : Outcome, replies : SUBSET ReplyKind]]

(***************************************************************************)
(* A message a handler answered by its value is answered once: by the      *)
(* value, unless the handler emitted something itself; one it answered by  *)
(* None or by an exception never gets a value (bot.py:164-185).            *)
(***************************************************************************)
OneReply ==
  \A b \in Bots :
    CASE last[b].outcome = "value"  -> last[b].replies \in {{"direct"}, {"auto"}}
      [] last[b].outcome = "silent" -> last[b].replies \subseteq {"direct"}
      [] last[b].outcome = "raised" -> "auto" \notin last[b].replies

Attended(c) ==
  IF c \in Workers THEN host[c].alive ELSE bot[c].pc # "gone" /\ c \in registered

(***************************************************************************)
(* Mail is drained, whatever notifications get lost and whenever the       *)
(* broker dies, unless the worker ends, or the bot ends or is no longer    *)
(* registered: the adapter announces what is left again                    *)
(* (channel_adapter.py:116-129).                                           *)
(***************************************************************************)
MailIsDrained ==
  \A c \in Clients : inbox[c] # <<>> ~> (inbox[c] = <<>> \/ ~Attended(c))

(***************************************************************************)
(* A worker that has ended leaves the registry for good, although its      *)
(* adapter has no way of unregistering it (channel_adapter.py:345-364):    *)
(* unless it was never heard since it was registered, for the sweep passes *)
(* over an instance without a last_seen (sweeper.py:87-88).                *)
(***************************************************************************)
GoneWorkersLeave ==
  \A w \in Workers :
    (~host[w].alive /\ registry[w] # "unseen") ~> [](registry[w] = "none")
===============================================================================
