-------------------------------- MODULE MCFiles --------------------------------
(***************************************************************************)
(* Small instances of FileShare: two workers and a name; a policy allows   *)
(* both to upload it and the first one to download it.                     *)
(***************************************************************************)
EXTENDS FileShare

CONSTANTS w1, w2,   \* workers
          n1,       \* a name
          f1, f2,   \* uuids
          c1, c2    \* calls

Entry(who, r, w) == [who |-> who, r |-> r, w |-> w]
Anything == [active |-> FALSE, entries |-> {}]

\* two entries match w1, and what either allows is allowed
SomePolicies ==
  {Anything,
   [active |-> TRUE, entries |-> {Entry({w1, w2}, {}, {n1}), Entry({w1}, {n1}, {})}]}
===============================================================================
