------------------------------ MODULE MCDashboard ------------------------------
(***************************************************************************)
(* A small instance of Dashboard: a worker and an operator with a page.    *)
(***************************************************************************)
EXTENDS Dashboard, TLC

CONSTANTS w1, u1, m1, m2, s1, s2

SomeTargets == {w1, u1}
SomeLists == {<<u1, w1>>}
SomePosts == {<<w1, w1>>}

Symmetric == Permutations({m1, m2}) \cup Permutations({s1, s2})
===============================================================================
