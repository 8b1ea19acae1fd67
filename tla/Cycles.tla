-------------------------------- MODULE Cycles --------------------------------
(***************************************************************************)
(* CommMatrix.cycles(): the diagnosis the dashboard shows beside the       *)
(* matrix, Tarjan's strongly connected components of the graph of its      *)
(* patterns, and the reference it is checked against.                      *)
(***************************************************************************)
EXTENDS CommMatrix

\* a column that is no row is no node of the graph
EdgeOf(m, from, to) ==
  /\ {from, to} \subseteq Rows(m)
  /\ from \in DOMAIN m.weights[to]
  /\ m.weights[to][from] > 0

Adjacent(m, v) == SetToSeq({w \in Rows(m) : EdgeOf(m, v, w)})

\* the locals of cycles(): index[v] is 0 while v is not visited, and the counter
\* is one ahead of the code's
Fresh(m) == [index   |-> [v \in Rows(m) |-> 0],
             low     |-> [v \in Rows(m) |-> 0],
             stack   |-> <<>>,
             counter |-> 1,
             sccs    |-> {}]

Least(a, b) == IF a < b THEN a ELSE b

Visit(s, v) ==
  [s EXCEPT !.index[v] = s.counter, !.low[v] = s.counter,
            !.counter = @ + 1, !.stack = Append(@, v)]

\* pops the stack down to v
Component(s, v) ==
  LET from == Position(v, s.stack)
  IN [s EXCEPT !.stack = SubSeq(@, 1, from - 1),
               !.sccs = IF from = Len(s.stack) THEN @
                        ELSE @ \cup {ToSet(SubSeq(s.stack, from, Len(s.stack)))}]

\* mutant of OnStack: every node that was visited counts
Visited(s, w) == s.index[w] # 0

OnStack(s, w) == w \in ToSet(s.stack)

RECURSIVE StrongConnect(_, _, _)
StrongConnect(m, v, state) ==
  LET Follow(s, w) ==
        IF s.index[w] = 0
        THEN LET below == StrongConnect(m, w, s)
             IN [below EXCEPT !.low[v] = Least(@, below.low[w])]
        ELSE IF OnStack(s, w) THEN [s EXCEPT !.low[v] = Least(@, s.index[w])]
        ELSE s
      end == FoldLeft(Follow, Visit(state, v), Adjacent(m, v))
  IN IF end.low[v] = end.index[v] THEN Component(end, v) ELSE end

\* sccs + self_loops, as sets
CyclesOf(m) ==
  LET Enter(s, v) == IF s.index[v] = 0 THEN StrongConnect(m, v, s) ELSE s
      end == FoldLeft(Enter, Fresh(m), SetToSeq(Rows(m)))
  IN IF ~m.active THEN {}
     ELSE end.sccs \cup {{v} : v \in {v \in Rows(m) : EdgeOf(m, v, v)}}

\* Reference: w is reached from v when no set of patterns that holds v and is
\* closed under the edges leaves w out.  A class is a largest set of patterns
\* that reach each other.
Classes(m) ==
  LET edges == {e \in Rows(m) \X Rows(m) : EdgeOf(m, e[1], e[2])}
      closed == {S \in SUBSET Rows(m) : \A e \in edges : e[1] \in S => e[2] \in S}
      Reached(v) == {w \in Rows(m) : \A S \in closed : v \in S => w \in S}
      reached == [v \in Rows(m) |-> Reached(v)]
      class == [v \in Rows(m) |-> {w \in reached[v] : v \in reached[w]}]
  IN {c \in {class[v] : v \in Rows(m)} : Cardinality(c) > 1}

\* The diagnosis names exactly the groups of patterns that can pass work round
\* among themselves, and the patterns that may dispatch to themselves.
CyclesAreFound ==
  CyclesOf(matrix) =
    IF matrix.active
    THEN Classes(matrix) \cup {{v} : v \in {v \in Rows(matrix) : EdgeOf(matrix, v, v)}}
    ELSE {}
=============================================================================
