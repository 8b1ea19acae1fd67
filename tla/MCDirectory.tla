------------------------------ MODULE MCDirectory ------------------------------
(***************************************************************************)
(* Small instances of Directory: two client sessions and a dashboard, two  *)
(* ids of bots, one of them the id of a worker as well, an operator, one   *)
(* shipped message type and one that clients register, with two bodies.    *)
(***************************************************************************)
EXTENDS Directory, TLC

CONSTANTS s1, s2,     \* client sessions
          x, y,       \* ids of workers and bots
          op,         \* operator:<user>
          p, q,       \* message types; p is shipped
          b1, b2      \* bodies

OneShipped == [n \in Schemas |->
  IF n = p THEN [body |-> b1, kind |-> "bot-task"] ELSE None]

NoInline == [n \in Schemas |-> None]
Bot(mode, subs, inline) == [mode |-> mode, subs |-> subs, inline |-> inline]
With(n, body) == [NoInline EXCEPT ![n] = body]

\* handlers of the shipped type, of the other one with and without its body,
\* one with a body that is no schema, and an observer
SomeBots ==
  {Bot("handler", {q}, With(q, b1)), Bot("handler", {q}, With(q, b2)),
   Bot("handler", {p, q}, NoInline), Bot("handler", {p}, With(q, Invalid)),
   Bot("observer", {}, NoInline)}

SomeSchemas ==
  {[name |-> q, body |-> b1, kind |-> "bot-task"],
   [name |-> q, body |-> b2, kind |-> "conversation"]}

\* the client sessions are interchangeable
ClientSymmetry == Permutations({s1, s2})

\* bots that register again without the body of what they subscribe to
ReturningBots == {Bot("handler", {q}, With(q, b1)), Bot("handler", {q}, NoInline)}
=============================================================================
