--------------------------------- MODULE Names ---------------------------------
(***************************************************************************)
(* What a registry promises: a session has at most one name and a name at  *)
(* most one session.  The last one to claim a name has it; claiming one    *)
(* gives up the name the session had.                                      *)
(***************************************************************************)
CONSTANTS Sessions, Ids, None

VARIABLE name  \* the name of each session, or None

Init == name = [s \in Sessions |-> None]

Claim(s, i) ==
  name' = [t \in Sessions |-> IF t = s THEN i
                              ELSE IF name[t] = i THEN None ELSE name[t]]

GiveUp(gone) == name' = [s \in Sessions |-> IF s \in gone THEN None ELSE name[s]]

Next == \/ \E s \in Sessions, i \in Ids : Claim(s, i)
        \/ \E gone \in SUBSET Sessions : GiveUp(gone)

Spec == Init /\ [][Next]_name
=============================================================================
