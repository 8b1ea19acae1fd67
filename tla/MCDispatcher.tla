----------------------------- MODULE MCDispatcher -----------------------------
(***************************************************************************)
(* Small instances of Dispatcher.  A configuration picks one of the sets   *)
(* of requests below; every request may be made at any time, by any number *)
(* of overlapping calls, up to MaxCalls.  A request that names call 1 or 2 *)
(* is a reply to it, or cancels it, and can be made once that command is   *)
(* known.                                                                  *)
(***************************************************************************)
EXTENDS Dispatcher

CONSTANTS a, b, c,   \* workers
          h,         \* a handler bot
          o,         \* an observer bot
          k          \* a conversation id chosen by the clients

Bots == {h, o}

Plain(op, src) ==
  [op |-> op, src |-> src, tgt |-> None, cc |-> <<>>, subs |-> {}, conv |-> None,
   irt |-> None, er |-> FALSE, closing |-> FALSE, only |-> {}]

Tell(x, y)      == [Plain("dispatch", x) EXCEPT !.tgt = y]
Ask1(x, y)      == [Tell(x, y) EXCEPT !.er = TRUE]
AnswerTo(x, y, n) == [Tell(x, y) EXCEPT !.irt = n]
Close(x, y, id) == [Tell(x, y) EXCEPT !.conv = id, !.closing = TRUE]
TellIn(x, y, id) == [Tell(x, y) EXCEPT !.conv = id]
Flush(x)        == [Plain("flush", x) EXCEPT !.only = Sender]
FlushFrom(x, from) == [Plain("flush", x) EXCEPT !.only = from]
Wait(x)         == Plain("wait", x)
Cancel(x, n)    == [Plain("cancel", x) EXCEPT !.irt = n]
Notify(x)       == [Plain("notify", System) EXCEPT !.tgt = x]
Reply(x)        == Plain("reply", x)
Thread(op, x, id) == [Plain(op, x) EXCEPT !.conv = id]

AllPairs == Workers \X Workers

\* a asks b, b answers, both read and wait, a may give up
QuestionRequests ==
  {Ask1(a, b), AnswerTo(b, a, 1), Flush(a), Flush(b), Wait(a), Wait(b),
   Cancel(a, 1), Reply(b), FlushFrom(b, {System})}

\* messages for bots: routed by type, broadcast, emitted, observed; b and the
\* observer run into the inbox limit, c is named twice in one cc
Routed(x, types)  == [Plain("dispatch", x) EXCEPT !.subs = types]
TellCc(x, y, list) == [Tell(x, y) EXCEPT !.cc = list]
Announce(x, types, ask) ==
  [Plain("broadcast", x) EXCEPT !.subs = types, !.er = ask]
EmitReply(x, n)   == [Plain("emit", x) EXCEPT !.irt = n]
EmitTo(x, y)      == [Plain("emit", x) EXCEPT !.tgt = y]
EmitTyped(x, types) == [Plain("emit", x) EXCEPT !.subs = types]

BotRequests ==
  {Routed(a, {h}), TellCc(a, b, <<c, c>>), TellCc(a, b, <<c>>), [Ask1(a, h) EXCEPT !.subs = {h}], Ask1(b, o),
   Announce(a, {h}, TRUE), EmitReply(h, 1), EmitTo(h, b), EmitTyped(o, {h}),
   Flush(b), Flush(h), AnswerTo(b, a, 1), Notify(b)}

\* c may not write to a, and nobody but b to c
SomePairs == (Workers \X Workers) \ {<<c, a>>, <<a, c>>}

\* conversations: parties join, close, and are closed from outside, in one that
\* the clients name and may begin twice; one closing cannot be written, for its
\* cc names c twice
Announcement(x, id) ==
  [Plain("broadcast", x) EXCEPT !.conv = id, !.closing = TRUE]

ThreadRequests ==
  {Tell(a, b), TellIn(a, b, k), TellIn(b, c, k), Close(a, b, k), Close(b, a, k),
   Close(c, a, k), [Close(a, b, k) EXCEPT !.cc = <<c, c>>], Announcement(a, k), AnswerTo(b, a, 1),
   Thread("operator_close", c, k), Thread("close_thread", b, k)}

\* what a restart finds: questions to a worker and to a bot, asked or drained,
\* in conversations that are open or closed, and what could not be written
RestoreRequests ==
  {Ask1(a, b), [Ask1(a, h) EXCEPT !.subs = {h}], Flush(b), Flush(h),
   Announcement(b, 1), AnswerTo(b, a, 1), Cancel(a, 1),
   [Routed(a, {h}) EXCEPT !.cc = <<b, b>>]}

\* calls of every kind that may be under way when the broker shuts down
ShutdownRequests ==
  {Ask1(a, b), Flush(b), Wait(b), Thread("close_thread", a, 1),
   Plain("shutdown", a)}

\* a conversation is closed while another message is on its way into it
EntryRequests == {TellIn(a, b, k), Announcement(a, k)}
=============================================================================
