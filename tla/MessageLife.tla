------------------------------ MODULE MessageLife ------------------------------
(***************************************************************************)
(* What the broker promises about one message and one expected result,     *)
(* with no calls, lock, conversations or disk: a message that was posted   *)
(* waits in its inbox until it is either taken by a flush or recalled by   *)
(* its sender, once; a result that is asked for stays expected until it    *)
(* is answered, times out or is withdrawn, once; and whoever waits for a   *)
(* result that times out is told, by exactly one notice.                   *)
(*                                                                         *)
(* A restart of the broker ends every expectation and empties the inboxes. *)
(* It can put messages back that were posted before, read or unread, and   *)
(* expects again only what those ask for; no notice survives it.           *)
(*                                                                         *)
(* The steps are written over the sets of the messages and expectations    *)
(* in each stage of their life, so that no step has to guess them.         *)
(***************************************************************************)
EXTENDS FiniteSets

CONSTANT System  \* the sender of notices

VARIABLES sent,       \* every message ever posted, but for notices before a restart
          queued,     \* those in an inbox
          taken,      \* those a flush has returned
          recalled,   \* those a cancel took back
          open,       \* the expected results, [from, cmd, to]
          answered,   \* those that were replied to since the last restart
          expired,    \* those that timed out since then
          withdrawn   \* those whose command was cancelled since then

vars == <<sent, queued, taken, recalled, open, answered, expired, withdrawn>>

Init == /\ sent = {} /\ queued = {} /\ taken = {} /\ recalled = {}
        /\ open = {} /\ answered = {} /\ expired = {} /\ withdrawn = {}

New == sent' \ sent
NewlyAsked == open' \ open
NoLongerAsked == open \ open'

\* the result is expected of a target that gets one of these messages, asking for it
AskedBy(x, mail) == \E m \in mail : /\ m.cmd = x.cmd /\ m.target = x.to
                                    /\ m.source = x.from /\ m.er

\* a call posts its messages and may settle what its caller was asked
Post ==
  /\ sent \subseteq sent'
  /\ New \cap (taken \cup recalled) = {}
  /\ queued' = queued \cup New
  /\ \A x \in NewlyAsked : AskedBy(x, New) /\ x \notin answered \cup expired \cup withdrawn
  /\ answered' = answered \cup NoLongerAsked
  /\ \A m \in New, x \in NoLongerAsked : m.source = x.to /\ m.irt = x.cmd
  /\ UNCHANGED <<taken, recalled, expired, withdrawn>>

\* a flush: what leaves an inbox has been taken
Take ==
  /\ queued' \subseteq queued
  /\ taken' = taken \cup (queued \ queued')
  /\ UNCHANGED <<sent, recalled, open, answered, expired, withdrawn>>

\* a cancel: the messages taken back asked for results now withdrawn
Recall ==
  /\ queued' \subseteq queued
  /\ recalled' = recalled \cup (queued \ queued')
  /\ open' \subseteq open
  /\ withdrawn' = withdrawn \cup NoLongerAsked
  /\ \A m \in queued \ queued' :
       \E x \in NoLongerAsked : m.cmd = x.cmd /\ m.target = x.to
  /\ UNCHANGED <<sent, taken, answered, expired>>

\* a timeout: one notice to whoever waited, for every result given up
Expire ==
  /\ open' \subseteq open
  /\ expired' = expired \cup NoLongerAsked
  /\ sent \subseteq sent'
  /\ queued' = queued \cup New
  /\ \A m \in New : m.source = System
  /\ Cardinality(New) = Cardinality(NoLongerAsked)
  /\ \A x \in NoLongerAsked : \E m \in New :
       m.target = x.from /\ m.irt = x.cmd /\ m.about = x.to
  /\ UNCHANGED <<taken, recalled, answered, withdrawn>>

\* the messages that are no notices
Letters(mail) == {m \in mail : m.source # System}

\* a restart: notices are gone; what is expected afterwards is asked for by what
\* was put back, and may be answered, time out or be withdrawn (again)
Restart ==
  /\ sent' = Letters(sent) /\ taken' = Letters(taken) /\ UNCHANGED recalled
  /\ queued' \subseteq sent'
  /\ \A x \in open' : AskedBy(x, queued')
  /\ answered' = {} /\ expired' = {} /\ withdrawn' = {}

Next == Post \/ Take \/ Recall \/ Expire \/ Restart

Spec == Init /\ [][Next]_vars
=============================================================================
