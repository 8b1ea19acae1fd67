------------------------------- MODULE MCMatrix -------------------------------
(***************************************************************************)
(* Small instances of CommMatrix: three ids, of which two make teams; the  *)
(* pattern .*, one that matches two ids, one that matches every id and the *)
(* text of the former, one that does not compile and one with a comma; and *)
(* an id and a pattern with whitespace around them.                        *)
(***************************************************************************)
EXTENDS Cycles, TLC

CONSTANTS a, b, c,       \* ids of workers
          op,            \* an operator
          any,           \* .*
          pair,          \* a|b
          group,         \* a|b|c|a.b : matches every id, and the text a|b
          open,          \* (
          range,         \* a{1,2}
          padded,        \* c with a blank
          line,          \* a|b with a line break at the end
          spaced         \* ( with a blank

Matched == (a :> {a}) @@ (b :> {b}) @@ (c :> {c})
           @@ (any :> {a, b, c, op, any, pair, group, open, range, padded,
                      spaced})
           @@ (pair :> {a, b}) @@ (group :> {a, b, c, pair}) @@ (open :> {})
           @@ (range :> {a}) @@ (padded :> {padded}) @@ (line :> {a})
           @@ (spaced :> {})

Bare == [t \in Token |-> CASE t = padded -> c [] t = line -> pair
                            [] t = spaced -> open [] OTHER -> t]

Entry(id, allow) == [id |-> id, allow |-> allow, whole |-> TRUE]

Allow == {allow \in SUBSET {a, c, Star, pair, group} : Cardinality(allow) <= 2}

\* two members, with and without whitespace in what they allow; a member that
\* allows what no matrix can hold; and what is no team
SomeManifests ==
  {<<Entry(a, s), Entry(b, t)>> : s \in Allow, t \in {{}, {c}, {pair}}}
  \cup {<<Entry(a, s), Entry(b, t)>> : s \in {{padded}, {line}, {padded, line}},
                                       t \in {{}, {c}}}
  \cup {<<Entry(b, {t})>> : t \in {open, range, spaced}}
  \cup {<<>>, <<Entry(a, {}), Entry(a, {Star})>>, <<Entry(op, {})>>,
        <<[id |-> a, allow |-> {}, whole |-> FALSE]>>}

Csv(header, data) == [header |-> header, data |-> data]

\* good ones, one with a header twice, and one of each kind that is refused
SomeCsvs ==
  {Csv(<<a, b>>, <<<<0, x>>, <<y, 0>>>>) : x, y \in 0..2}
  \cup {Csv(<<a, b, a>>, <<<<0, 1, 0>>, <<2, 0, 1>>, <<0, 1, 2>>>>),
        Csv(<<>>, <<>>), Csv(<<a, b>>, <<<<0, 1>>>>), Csv(<<a>>, <<<<0, 1>>>>),
        Csv(<<open>>, <<<<1>>>>), Csv(<<padded, c>>, <<<<1, 0>>, <<0, 2>>>>), Csv(<<a, b>>, <<<<0, Bad>>, <<1, 0>>>>)}

Nodes3 == {a, b, pair}

\* every graph over three patterns with one self-loop or none, tables that are
\* not square, the empty one, and those that are refused
SomeMatrices ==
  {[t \in Nodes3 |-> [f \in Nodes3 |->
      IF <<f, t>> \in edges THEN 1 ELSE 0]] :
   edges \in SUBSET ({e \in Nodes3 \X Nodes3 : e[1] # e[2]} \cup {<<a, a>>})}
  \cup {[t \in {a} |-> [f \in {b, any} |-> 1]], <<>>,
        [t \in {a} |-> [f \in {} |-> 0]],
        [t \in {a} |-> [f \in {open} |-> 1]], [t \in {a} |-> [f \in {b} |-> Bad]]}

Body(m, csv, active) == [matrix |-> m, csv |-> csv, active |-> active]

SomeBodies ==
  {Body(m, None, None) : m \in SomeMatrices}
  \cup {Body(<<>>, None, TRUE), Body([t \in {a} |-> [f \in {b} |-> 1]], None, FALSE)}
  \cup {Body(None, csv, None) : csv \in SomeCsvs}
  \cup {Body(None, None, active) : active \in BOOLEAN}
=============================================================================
