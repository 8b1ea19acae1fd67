----------------------------- MODULE MatrixProofs -----------------------------
(***************************************************************************)
(* Proofs about CommMatrix: the matrix is well formed whatever is posted   *)
(* and whatever the file holds, and one that agora-init drew grants what   *)
(* the team's allow lists ask for, to members only; a refused request      *)
(* leaves the matrix as it was.                                            *)
(*                                                                         *)
(* The argument is about one CSV: its header names every node of the team, *)
(* load_csv puts into the cell of two headers what BuildCsv wrote for two  *)
(* tokens that are these when they are stripped, which are those tokens if *)
(* the team reads back, and a member's id matches its own column only.     *)
(***************************************************************************)
EXTENDS CommMatrix, FiniteSetTheorems, SequenceTheorems, WellFoundedInduction, TLAPS

\* a team after validate
NormalOK(team) ==
  /\ team \in Seq([id : Workers, allow : SUBSET Token])
  /\ \A i \in DOMAIN team : IsFiniteSet(team[i].allow)

DrawnFrom(csv, team) ==
  team # None =>
    NormalOK(team) /\ \E nodes \in NodeLists(team) : csv = BuildCsv(team, nodes)

\* the weights are those of a CSV drawn from the team
Grants(weights, team) ==
  /\ NormalOK(team)
  /\ \E nodes \in NodeLists(team) : weights = CsvWeights(BuildCsv(team, nodes))

IInv ==
  /\ TypeOK
  /\ file # None => CsvOK(file)
  /\ DrawnFrom(file, drawn)
  /\ asked # None => Grants(matrix.weights, asked)

-------------------------------------------------------------------------------
\* A set of numbers up to n that is not empty has a greatest one.
LEMMA GreatestExists ==
  ASSUME NEW n \in Nat, NEW S \in SUBSET (1..n), S # {}
  PROVE  Max(S) \in S /\ \A i \in S : Max(S) >= i
<1> DEFINE T == {k \in Nat : n - k \in S}
<1>1. T \subseteq Nat /\ T # {}
  <2>1. PICK i \in S : TRUE
    OBVIOUS
  <2>2. n - i \in T
    BY <2>1
  <2> QED
    BY <2>2
<1>2. PICK k \in T : \A l \in T : ~(<<l, k>> \in OpToRel(<, Nat))
  <2> HIDE DEF T
  <2> QED
    BY <1>1, WFMin, NatLessThanWellFounded
<1>3. \A l \in T : ~(l < k)
  BY <1>1, <1>2 DEF OpToRel
<1>4. n - k \in S /\ \A i \in S : n - k >= i
  <2>1. SUFFICES ASSUME NEW i \in S PROVE n - k >= i
    OBVIOUS
  <2>2. n - i \in T /\ n - i \in Nat /\ k \in Nat
    OBVIOUS
  <2> QED
    BY <1>3, <2>2
<1> QED
  BY <1>4 DEF Max

\* The position of a header of a CSV is one of its places.
LEMMA PositionOK ==
  ASSUME NEW header \in Seq(Token), NEW h \in ToSet(header)
  PROVE  /\ Position(h, header) \in 1..Len(header)
         /\ header[Position(h, header)] = h
<1> DEFINE S == {i \in DOMAIN header : header[i] = h}
<1>1. S \in SUBSET (1..Len(header)) /\ S # {}
  BY DEF ToSet
<1>2. Max(S) \in S
  <2> HIDE DEF S
  <2>1. Len(header) \in Nat
    OBVIOUS
  <2> QED
    BY <1>1, <2>1, GreatestExists
<1> QED
  BY <1>1, <1>2 DEF Position

\* A list of the members of a finite set has them all.
LEMMA ListOK ==
  ASSUME NEW S, IsFiniteSet(S), NEW s \in SetToSeqs(S)
  PROVE  s \in Seq(S) /\ ToSet(s) = S
<1> DEFINE n == Cardinality(S)
<1>1. n \in Nat
  BY FS_CardinalityType
<1>2. s \in Injection(1..n, S)
  BY DEF SetToSeqs, Injection, IsInjective
<1>3. IsFiniteSet(1..n) /\ Cardinality(1..n) = n
  BY <1>1, FS_Interval
<1>4. s \in Surjection(1..n, S)
  BY <1>2, <1>3, FS_Injection
<1>5. s \in [1..n -> S]
  BY <1>2 DEF Injection
<1> QED
  BY <1>1, <1>4, <1>5 DEF Surjection, ToSet

\* What the members of a team are.
LEMMA TeamFields ==
  ASSUME NEW team, NormalOK(team)
  PROVE  /\ Len(team) \in Nat /\ DOMAIN team = 1..Len(team)
         /\ \A i \in 1..Len(team) : team[i].id \in Workers /\ team[i].allow \subseteq Token
<1>1. team \in Seq([id : Workers, allow : SUBSET Token])
  BY DEF NormalOK
<1>2. Len(team) \in Nat /\ DOMAIN team = 1..Len(team)
  BY <1>1
<1>3. \A i \in 1..Len(team) : team[i] \in [id : Workers, allow : SUBSET Token]
  BY <1>1, <1>2, ElementOfSeq
<1> QED
  BY <1>2, <1>3

\* The allow entries of a team are finitely many.
LEMMA FiniteAllow ==
  ASSUME NEW team, NormalOK(team)
  PROVE  IsFiniteSet(AllTokens(team))
<1> DEFINE f == [i \in DOMAIN team |-> team[i].allow]
           T == {team[i].allow : i \in DOMAIN team}
<1>1. IsFiniteSet(DOMAIN team)
  <2>1. Len(team) \in Nat /\ DOMAIN team = 1..Len(team)
    BY DEF NormalOK
  <2> QED
    BY <2>1, FS_Interval
<1>2. f \in Surjection(DOMAIN team, T)
  BY DEF Surjection
<1>3. IsFiniteSet(T)
  <2> HIDE DEF f, T
  <2> QED
    BY <1>1, <1>2, FS_Surjection
<1>4. \A S \in T : IsFiniteSet(S)
  BY DEF NormalOK
<1> HIDE DEF T
<1>5. IsFiniteSet(UNION T)
  BY <1>3, <1>4, FS_UNION
<1> QED
  BY <1>5 DEF T, AllTokens

\* The header of BuildCsv names every member and every allow entry.
LEMMA NodesOK ==
  ASSUME NEW team, NormalOK(team), NEW nodes \in NodeLists(team)
  PROVE  /\ nodes \in Seq(Token)
         /\ ToSet(nodes) = Members(team) \cup AllTokens(team)
<1> DEFINE ids == [i \in DOMAIN team |-> team[i].id]
           extra == AllTokens(team) \ Members(team)
<1>5. PICK tail \in SetToSeqs(extra) : nodes = ids \o tail
  BY DEF NodeLists
<1>0. /\ Len(team) \in Nat /\ DOMAIN team = 1..Len(team)
      /\ \A i \in 1..Len(team) : team[i].id \in Token /\ team[i].allow \subseteq Token
  BY TeamFields DEF Token
<1>1. ids \in Seq(Token) /\ ToSet(ids) = Members(team)
  <2>1. ids \in [1..Len(team) -> Token]
    BY <1>0
  <2>2. ToSet(ids) = Members(team)
    BY DEF ToSet, Members
  <2> QED
    BY <1>0, <2>1, <2>2
<1>2. IsFiniteSet(extra)
  BY FiniteAllow, FS_Subset
<1>3. extra \subseteq Token
  BY <1>0 DEF AllTokens
<1>4. tail \in Seq(Token) /\ ToSet(tail) = extra
  <2> HIDE DEF extra
  <2>1. tail \in Seq(extra) /\ ToSet(tail) = extra
    BY <1>2, ListOK
  <2>2. tail \in Seq(Token)
    BY <1>3, <2>1
  <2> QED
    BY <2>1, <2>2
<1> HIDE DEF ids
<1>6. ToSet(ids \o tail) = ToSet(ids) \cup ToSet(tail)
  <2>1. Len(ids \o tail) = Len(ids) + Len(tail)
    BY <1>1, <1>4
  <2>2. \A i \in 1..Len(ids) : (ids \o tail)[i] = ids[i]
    BY <1>1, <1>4
  <2>3. \A i \in 1..Len(tail) : (ids \o tail)[Len(ids) + i] = tail[i]
    BY <1>1, <1>4
  <2>4. \A i \in (1..Len(ids \o tail)) \ (1..Len(ids)) :
           i - Len(ids) \in 1..Len(tail) /\ i = Len(ids) + (i - Len(ids))
    BY <1>1, <1>4, <2>1
  <2>5. ToSet(ids \o tail) \subseteq ToSet(ids) \cup ToSet(tail)
    <3>1. SUFFICES ASSUME NEW i \in 1..Len(ids \o tail)
                   PROVE  (ids \o tail)[i] \in ToSet(ids) \cup ToSet(tail)
      BY <1>1, <1>4 DEF ToSet
    <3>2. CASE i \in 1..Len(ids)
      BY <2>2, <3>2, <1>1 DEF ToSet
    <3>3. CASE i \notin 1..Len(ids)
      <4>1. (ids \o tail)[i] = tail[i - Len(ids)] /\ i - Len(ids) \in 1..Len(tail)
        BY <2>3, <2>4, <3>3
      <4> QED
        BY <4>1, <1>4 DEF ToSet
    <3> QED
      BY <3>2, <3>3
  <2>6. ToSet(ids) \subseteq ToSet(ids \o tail)
    <3>1. SUFFICES ASSUME NEW i \in 1..Len(ids) PROVE ids[i] \in ToSet(ids \o tail)
      BY <1>1 DEF ToSet
    <3>2. i \in 1..Len(ids \o tail) /\ (ids \o tail)[i] = ids[i]
      BY <2>1, <2>2, <1>1, <1>4
    <3> QED
      BY <3>2, <1>1, <1>4 DEF ToSet
  <2>7. ToSet(tail) \subseteq ToSet(ids \o tail)
    <3>1. SUFFICES ASSUME NEW i \in 1..Len(tail) PROVE tail[i] \in ToSet(ids \o tail)
      BY <1>4 DEF ToSet
    <3>2. Len(ids) + i \in 1..Len(ids \o tail) /\ (ids \o tail)[Len(ids) + i] = tail[i]
      BY <2>1, <2>3, <1>1, <1>4
    <3> QED
      BY <3>2, <1>1, <1>4 DEF ToSet
  <2> QED
    BY <2>5, <2>6, <2>7
<1>7. ids \o tail \in Seq(Token)
  BY <1>1, <1>4
<1> QED
  BY <1>1, <1>4, <1>5, <1>6, <1>7

\* Headers are tokens when they are stripped, too.
LEMMA StrippedOK ==
  ASSUME NEW header \in Seq(Token)
  PROVE  /\ Stripped(header) \in Seq(Token) /\ Len(Stripped(header)) = Len(header)
         /\ \A i \in 1..Len(header) : Stripped(header)[i] = Strip[header[i]]
         /\ ToSet(Stripped(header)) = {Strip[t] : t \in ToSet(header)}
<1>1. Len(header) \in Nat /\ DOMAIN header = 1..Len(header)
  OBVIOUS
<1>2. \A i \in 1..Len(header) : Strip[header[i]] \in Token
  BY MatrixAssumption
<1>3. Stripped(header) = [i \in 1..Len(header) |-> Strip[header[i]]]
  BY <1>1 DEF Stripped
<1>4. Stripped(header) \in [1..Len(header) -> Token]
  BY <1>2, <1>3
<1>5. Stripped(header) \in Seq(Token) /\ Len(Stripped(header)) = Len(header)
  BY <1>1, <1>4
<1> QED
  BY <1>1, <1>3, <1>5 DEF ToSet

\* BuildCsv draws a CSV, and load_csv reads off it who may dispatch to whom:
\* what was written for two tokens that are the headers when they are stripped.
LEMMA DrawnOK ==
  ASSUME NEW team, NormalOK(team), NEW nodes \in NodeLists(team)
  PROVE  LET weights == CsvWeights(BuildCsv(team, nodes))
             tokens == Members(team) \cup AllTokens(team)
             names == {Strip[t] : t \in tokens}
         IN /\ CsvOK(BuildCsv(team, nodes))
            /\ DOMAIN weights = names
            /\ \A t, f \in names :
                 /\ DOMAIN weights[t] = names
                 /\ \E s, g \in tokens :
                      /\ Strip[s] = t /\ Strip[g] = f
                      /\ weights[t][f] = IF Edge(team, g, s) THEN 1 ELSE 0
<1> DEFINE csv == BuildCsv(team, nodes)
           tokens == Members(team) \cup AllTokens(team)
           names == {Strip[t] : t \in tokens}
           header == Stripped(nodes)
<1>1. nodes \in Seq(Token) /\ ToSet(nodes) = tokens
  BY NodesOK
<1>2. Len(nodes) \in Nat /\ DOMAIN nodes = 1..Len(nodes)
  BY <1>1
<1>3. csv.header = nodes
  BY DEF BuildCsv
<1>4. csv.data = [i \in 1..Len(nodes) |-> [j \in 1..Len(nodes) |->
                    IF Edge(team, nodes[j], nodes[i]) THEN 1 ELSE 0]]
  BY <1>2 DEF BuildCsv
<1>5. CsvOK(csv)
  <2> HIDE DEF csv
  <2>1. \A i \in 1..Len(nodes) : csv.data[i] \in Seq(Nat \cup {Bad})
    <3>1. SUFFICES ASSUME NEW i \in 1..Len(nodes)
                   PROVE  csv.data[i] \in Seq(Nat \cup {Bad})
      OBVIOUS
    <3>2. csv.data[i] \in [1..Len(nodes) -> Nat \cup {Bad}]
      BY <1>4
    <3> QED
      BY <1>2, <3>2
  <2>2. csv.data \in [1..Len(nodes) -> Seq(Nat \cup {Bad})]
    BY <1>4, <2>1
  <2>3. csv.data \in Seq(Seq(Nat \cup {Bad}))
    BY <1>2, <2>2
  <2> QED
    BY <1>1, <1>3, <2>3 DEF CsvOK
<1>6. /\ header \in Seq(Token) /\ Len(header) = Len(nodes) /\ ToSet(header) = names
      /\ \A i \in 1..Len(nodes) : header[i] = Strip[nodes[i]] /\ nodes[i] \in tokens
  <2>1. \A i \in 1..Len(nodes) : nodes[i] \in ToSet(nodes)
    BY <1>2 DEF ToSet
  <2> HIDE DEF header, tokens
  <2> QED
    BY <1>1, <2>1, StrippedOK DEF header
<1> HIDE DEF csv, names, tokens, header
<1>7. \A h \in names : /\ Position(h, header) \in 1..Len(nodes)
                       /\ header[Position(h, header)] = h
  BY <1>6, PositionOK
<1>8. CsvWeights(csv) = [t \in names |-> [f \in names |->
                           csv.data[Position(t, header)][Position(f, header)]]]
  BY <1>3, <1>6 DEF CsvWeights, header
<1>9. ASSUME NEW t \in names, NEW f \in names
      PROVE  \E s, g \in tokens :
               /\ Strip[s] = t /\ Strip[g] = f
               /\ CsvWeights(csv)[t][f] = IF Edge(team, g, s) THEN 1 ELSE 0
  <2> DEFINE i == Position(t, header)
             j == Position(f, header)
  <2>1. i \in 1..Len(nodes) /\ j \in 1..Len(nodes) /\ header[i] = t /\ header[j] = f
    BY <1>7
  <2>2. CsvWeights(csv)[t][f] = csv.data[i][j]
    BY <1>8
  <2> HIDE DEF i, j
  <2>3. csv.data[i][j] = IF Edge(team, nodes[j], nodes[i]) THEN 1 ELSE 0
    BY <1>4, <2>1
  <2>4. /\ nodes[i] \in tokens /\ nodes[j] \in tokens
        /\ Strip[nodes[i]] = t /\ Strip[nodes[j]] = f
    BY <1>6, <2>1
  <2> QED
    BY <2>2, <2>3, <2>4
<1>10. /\ DOMAIN CsvWeights(csv) = names
       /\ \A t \in names : DOMAIN CsvWeights(csv)[t] = names
  BY <1>8
<1> QED
  BY <1>5, <1>9, <1>10 DEF csv, names, tokens

-------------------------------------------------------------------------------
\* What load_csv takes is what load_matrix takes.
LEMMA CsvIsMatrix ==
  ASSUME NEW csv, CsvOK(csv), ~CsvIsRefused(csv)
  PROVE  /\ WeightsOK(CsvWeights(csv))
         /\ ~RowsAreRefused(CsvWeights(csv))
<1> DEFINE n == Len(csv.header)
           header == Stripped(csv.header)
           names == ToSet(header)
           weights == CsvWeights(csv)
<1>1. csv.header \in Seq(Token) /\ csv.data \in Seq(Seq(Nat \cup {Bad}))
  BY DEF CsvOK
<1>2. names \subseteq Token \ Broken /\ Len(csv.data) = n /\ n \in Nat
  <2>1. header \in Seq(Token)
    BY <1>1, StrippedOK
  <2>2. names \cap Broken = {} /\ Len(csv.data) = n
    BY DEF CsvIsRefused
  <2> HIDE DEF header
  <2>3. names \subseteq Token
    BY <2>1 DEF ToSet
  <2> QED
    BY <1>1, <2>2, <2>3
<1>3. \A i \in 1..n : Len(csv.data[i]) = n /\ Bad \notin ToSet(csv.data[i])
  <2>1. \A row \in ToSet(csv.data) : Len(row) = n /\ Bad \notin ToSet(row)
    BY DEF CsvIsRefused
  <2>2. \A i \in 1..n : csv.data[i] \in ToSet(csv.data)
    BY <1>1, <1>2 DEF ToSet
  <2> QED
    BY <2>1, <2>2
<1>4. \A i, j \in 1..n : csv.data[i][j] \in Nat
  <2>1. TAKE i, j \in 1..n
  <2>2. csv.data[i] \in Seq(Nat \cup {Bad}) /\ Len(csv.data[i]) = n
    BY <1>1, <1>2, <1>3
  <2>3. csv.data[i][j] \in Nat \cup {Bad} /\ csv.data[i][j] \in ToSet(csv.data[i])
    BY <2>2, <1>2 DEF ToSet
  <2> QED
    BY <1>3, <2>3
<1>5. \A h \in names : Position(h, header) \in 1..n
  <2>1. header \in Seq(Token) /\ Len(header) = n
    BY <1>1, StrippedOK
  <2> HIDE DEF header
  <2> QED
    BY <2>1, PositionOK
<1>6. weights = [t \in names |-> [f \in names |->
                   csv.data[Position(t, header)][Position(f, header)]]]
  BY DEF CsvWeights
<1> HIDE DEF n, names, weights
<1>7. \A t, f \in names : weights[t][f] \in Nat
  BY <1>4, <1>5, <1>6
<1>8. DOMAIN weights = names /\ \A t \in names : DOMAIN weights[t] = names
  BY <1>6
<1>9. Columns(weights) \subseteq names
  BY <1>8 DEF Columns
<1>10. WeightsOK(weights)
  <2>1. weights = [t \in DOMAIN weights |-> weights[t]]
    BY <1>6
  <2> QED
    BY <1>2, <1>7, <1>8, <1>9, <2>1 DEF WeightsOK
<1>11. ~RowsAreRefused(weights)
  BY <1>2, <1>7, <1>8, <1>9, MatrixAssumption DEF RowsAreRefused
<1> QED
  BY <1>10, <1>11 DEF weights

\* Both loaders leave a well-formed matrix.
LEMMA LoadedOK ==
  ASSUME NEW weights, WeightsOK(weights), ~RowsAreRefused(weights)
  PROVE  MatrixOK(Loaded(weights))
BY DEF WeightsOK, RowsAreRefused, MatrixOK, Loaded, Rows

\* A drawn matrix grants what is asked, and to members only.
LEMMA DrawnGrants ==
  ASSUME NEW team, NEW m, m.active, Grants(m.weights, team),
         NEW from \in Workers, NEW to \in Workers
  PROVE  /\ ReadsBack(team) /\ Wants(team, from, to) => IsAllowed(m, from, to)
         /\ IsAllowed(m, from, to) => \E n \in Members(team) : from = Strip[n]
<1> DEFINE tokens == Members(team) \cup AllTokens(team)
           names == {Strip[t] : t \in tokens}
           S == {0} \cup Cells(m, from, to)
<1>0. PICK nodes \in NodeLists(team) :
        NormalOK(team) /\ m.weights = CsvWeights(BuildCsv(team, nodes))
  BY DEF Grants
<1>1. Rows(m) = names /\ \A t \in names : DOMAIN m.weights[t] = names
  BY <1>0, DrawnOK DEF Rows
<1>2. ASSUME NEW t \in names, NEW f \in names
      PROVE  \E s, g \in tokens :
               /\ Strip[s] = t /\ Strip[g] = f
               /\ m.weights[t][f] = IF Edge(team, g, s) THEN 1 ELSE 0
  <2>1. \A u, h \in names :
          \E s, g \in tokens :
            /\ Strip[s] = u /\ Strip[g] = h
            /\ CsvWeights(BuildCsv(team, nodes))[u][h] = IF Edge(team, g, s) THEN 1 ELSE 0
    BY <1>0, DrawnOK
  <2> HIDE DEF tokens, names
  <2> QED
    BY <1>0, <2>1
<1> HIDE DEF tokens, names
<1>3. \A x \in Cells(m, from, to) :
        \E t, f \in names : /\ x = m.weights[t][f]
                            /\ to \in FullMatch[t] /\ from \in FullMatch[f]
  BY <1>1 DEF Cells
<1>4. S \subseteq {0, 1}
  BY <1>2, <1>3
<1>5. Max(S) = IF 1 \in S THEN 1 ELSE 0
  <2> HIDE DEF S
  <2>1. CASE 1 \in S
    <3>1. \A x \in S : 1 >= x
      BY <1>4
    <3>2. \A x \in S : x >= 1 => x = 1
      BY <1>4
    <3> QED
      BY <2>1, <3>1, <3>2 DEF Max
  <2>2. CASE 1 \notin S
    <3>1. S = {0}
      BY <1>4, <2>2 DEF S
    <3> QED
      BY <3>1, <2>2 DEF Max
  <2> QED
    BY <2>1, <2>2
<1>6. IsAllowed(m, from, to) <=> 1 \in Cells(m, from, to)
  <2>1. {from, to} \cap Operators = {}
    BY MatrixAssumption
  <2>2. WeightOf(m, from, to) = Max(S)
    BY DEF WeightOf
  <2> QED
    BY <1>5, <2>1, <2>2 DEF IsAllowed
<1>7. ASSUME ReadsBack(team), Wants(team, from, to) PROVE 1 \in Cells(m, from, to)
  <2>1. PICK t \in AllowOf(team, from) : to \in FullMatch[Strip[t]]
    BY <1>7 DEF Wants
  <2>2. from \in Members(team) /\ t \in tokens /\ from \in tokens
    BY <2>1 DEF AllowOf, Members, AllTokens, tokens
  <2>3. Edge(team, from, t)
    BY <2>1, <2>2 DEF Edge, Allows
  <2>4. Strip[from] = from /\ \A s \in tokens : Strip[s] = Strip[t] => s = t
    BY <1>7, <2>2 DEF ReadsBack, tokens
  <2>5. \A g \in tokens : Strip[g] = from => g = from
    BY <1>7, <2>2, <2>4 DEF ReadsBack, tokens
  <2>6. Strip[t] \in names /\ from \in names
    BY <2>2, <2>4 DEF names
  <2>7. m.weights[Strip[t]][from] = 1
    BY <1>2, <2>3, <2>4, <2>5, <2>6
  <2>8. from \in FullMatch[from]
    BY MatrixAssumption
  <2> QED
    BY <1>1, <2>1, <2>6, <2>7, <2>8 DEF Cells
<1>8. ASSUME 1 \in Cells(m, from, to) PROVE \E n \in Members(team) : from = Strip[n]
  <2>1. PICK t, f \in names : 1 = m.weights[t][f] /\ from \in FullMatch[f]
    BY <1>3, <1>8
  <2>2. PICK s, g \in tokens : Strip[g] = f /\ Edge(team, g, s)
    BY <1>2, <2>1
  <2>3. g \in Members(team)
    BY <2>2 DEF Edge
  <2>4. \A i \in DOMAIN team : team[i].id \in Workers
    BY <1>0, TeamFields
  <2>5. f \in Workers
    BY <2>2, <2>3, <2>4, MatrixAssumption DEF Members
  <2> QED
    BY <2>1, <2>2, <2>3, <2>5, MatrixAssumption
<1> QED
  BY <1>6, <1>7, <1>8

\* validate leaves teams of workers, tokens and finite lists.
LEMMA NormalisedOK ==
  ASSUME NEW manifest, TeamOK(manifest), ~ManifestIsRefused(manifest)
  PROVE  NormalOK(Normalised(manifest))
<1> DEFINE team == Normalised(manifest)
           Norm(t) == IF t = Star THEN All ELSE t
<1>1. /\ Len(manifest) \in Nat /\ DOMAIN manifest = 1..Len(manifest)
      /\ DOMAIN team = 1..Len(manifest)
  BY DEF TeamOK, Normalised
<1>2. \A i \in DOMAIN manifest :
        /\ manifest[i].id \in Workers
        /\ manifest[i].allow \subseteq Token \cup {Star}
        /\ IsFiniteSet(manifest[i].allow)
  <2> DEFINE R == [id : Endpoint, allow : SUBSET (Token \cup {Star}), whole : BOOLEAN]
  <2>1. \A i \in DOMAIN manifest : manifest[i] \in R /\ IsFiniteSet(manifest[i].allow)
    <3>1. manifest \in Seq(R)
      BY DEF TeamOK
    <3> HIDE DEF R
    <3> QED
      BY <1>1, <3>1, ElementOfSeq DEF TeamOK
  <2>2. \A i \in DOMAIN manifest : manifest[i].id \in Workers
    BY DEF ManifestIsRefused
  <2> QED
    BY <2>1, <2>2
<1>3. \A i \in DOMAIN manifest :
        {Norm(t) : t \in manifest[i].allow} \subseteq Token
  <2>1. All \in Token
    BY MatrixAssumption DEF Token
  <2> HIDE DEF Token
  <2> QED
    BY <1>2, <2>1
<1>4. \A i \in DOMAIN manifest : IsFiniteSet({Norm(t) : t \in manifest[i].allow})
  <2>1. TAKE i \in DOMAIN manifest
  <2> DEFINE A == manifest[i].allow
             B == {Norm(t) : t \in A}
             f == [t \in A |-> Norm(t)]
  <2>2. f \in Surjection(A, B)
    BY DEF Surjection
  <2>3. IsFiniteSet(A)
    BY <1>2
  <2> HIDE DEF A, B, f
  <2>4. IsFiniteSet(B)
    BY <2>2, <2>3, FS_Surjection
  <2> QED
    BY <2>4 DEF A, B
<1>5. team \in Seq([id : Workers, allow : SUBSET Token])
  <2> DEFINE R == [id : Workers, allow : SUBSET Token]
             n == Len(manifest)
  <2>1. \A i \in 1..n : team[i] \in R
    BY <1>1, <1>2, <1>3 DEF Normalised
  <2>2. team = [i \in 1..n |-> team[i]] /\ n \in Nat
    BY <1>1 DEF Normalised
  <2> HIDE DEF team, R, n
  <2>3. team \in [1..n -> R]
    BY <2>1, <2>2
  <2>4. team \in Seq(R)
    BY <2>2, <2>3
  <2> QED
    BY <2>4 DEF R
<1>6. \A i \in DOMAIN team : IsFiniteSet(team[i].allow)
  BY <1>1, <1>4 DEF Normalised
<1> QED
  BY <1>5, <1>6 DEF NormalOK

-------------------------------------------------------------------------------
\* The inactive matrix is well formed.
LEMMA InactiveOK == MatrixOK(Inactive)
BY DEF MatrixOK, Inactive, Empty, Rows, Columns

\* IInv holds at the start.
LEMMA InitIInv == Init => IInv
BY InactiveOK, MatrixAssumption DEF Init, IInv, TypeOK, Reply, DrawnFrom

\* One CSV, posted or read at a start.
LEMMA PostCsvKeeps ==
  ASSUME IInv, NEW csv, CsvOK(csv), NEW team, DrawnFrom(csv, team), PostCsv(csv, team)
  PROVE  /\ MatrixOK(matrix')
         /\ reply' \in Reply
         /\ asked' # None => Grants(matrix'.weights, asked')
<1>1. CASE CsvIsRefused(csv)
  BY <1>1 DEF IInv, TypeOK, PostCsv, Reply
<1>2. CASE ~CsvIsRefused(csv)
  <2>1. matrix' = Loaded(CsvWeights(csv)) /\ reply' \in Reply /\ asked' = team
    BY <1>2 DEF PostCsv, Reply
  <2>2. MatrixOK(matrix')
    BY <1>2, <2>1, CsvIsMatrix, LoadedOK
  <2>3. matrix'.weights = CsvWeights(csv)
    BY <2>1 DEF Loaded
  <2> QED
    BY <2>1, <2>2, <2>3 DEF DrawnFrom, Grants
<1> QED
  BY <1>1, <1>2

\* IInv is kept by every action.
LEMMA NextIInv == IInv /\ [Next]_vars => IInv'
<1> SUFFICES ASSUME IInv, [Next]_vars PROVE IInv'
  OBVIOUS
<1> USE DEF DrawnFrom
<1>c. ASSUME Changing PROVE changes' \in 0..MaxChanges
  BY <1>c, MatrixAssumption DEF IInv, TypeOK, Changing
<1>1. CASE AdminPost
  <2>1. PICK csv \in Csvs : PostCsv(csv, None)
    BY <1>1 DEF AdminPost
  <2>2. CsvOK(csv) /\ DrawnFrom(csv, None)
    BY MatrixAssumption
  <2> HIDE DEF DrawnFrom
  <2>3. /\ MatrixOK(matrix') /\ reply' \in Reply
        /\ asked' # None => Grants(matrix'.weights, asked')
    BY <2>1, <2>2, PostCsvKeeps
  <2> QED
    BY <1>1, <1>c, <2>3 DEF AdminPost, IInv, TypeOK, DrawnFrom
<1>2. CASE Provision
  <2>1. PICK manifest \in Manifests :
          IF ManifestIsRefused(manifest)
          THEN reply' = "refused" /\ UNCHANGED <<matrix, file, drawn, asked>>
          ELSE Generate(Normalised(manifest))
    BY <1>2 DEF Provision
  <2>2. CASE ManifestIsRefused(manifest)
    BY <1>2, <1>c, <2>1, <2>2 DEF Provision, IInv, TypeOK, Reply
  <2>3. CASE ~ManifestIsRefused(manifest)
    <3> DEFINE team == Normalised(manifest)
    <3>1. NormalOK(team)
      BY <2>3, NormalisedOK, MatrixAssumption
    <3> HIDE DEF team
    <3>2. Generate(team)
      BY <2>1, <2>3 DEF team
    <3>. PICK nodes \in NodeLists(team) :
           /\ drawn' = team /\ file' = BuildCsv(team, nodes)
           /\ \/ reply' = "none" /\ UNCHANGED <<matrix, asked>>
              \/ up /\ PostCsv(BuildCsv(team, nodes), team)
      BY <3>2 DEF Generate
    <3>3. CsvOK(BuildCsv(team, nodes)) /\ DrawnFrom(BuildCsv(team, nodes), team)
      BY <3>1, DrawnOK
    <3>4. /\ MatrixOK(matrix') /\ reply' \in Reply
          /\ asked' # None => Grants(matrix'.weights, asked')
      <4>1. CASE PostCsv(BuildCsv(team, nodes), team)
        BY <3>3, <4>1, PostCsvKeeps
      <4>2. CASE reply' = "none" /\ UNCHANGED <<matrix, asked>>
        BY <4>2 DEF IInv, TypeOK, Reply
      <4> QED
        BY <4>1, <4>2
    <3>5. up = TRUE \/ UNCHANGED matrix
      BY <1>2, <3>2 DEF Provision, Generate, IInv, TypeOK
    <3> QED
      BY <1>2, <1>c, <3>3, <3>4, <3>5 DEF Provision, IInv, TypeOK
  <2> QED
    BY <2>2, <2>3
<1>3. ASSUME NEW body \in Bodies, DashboardPost(body) PROVE IInv'
  <2> DEFINE m == Replacement(body)
             refused == body.active = TRUE /\ CannotActivate(m)
             active == IF body.active = None \/ refused THEN m.active ELSE body.active
  <2>1. BodyOK(body)
    BY MatrixAssumption
  <2>2. CASE /\ reply' = "refused" /\ UNCHANGED <<matrix, asked>>
    BY <1>3, <1>c, <2>2 DEF DashboardPost, IInv, TypeOK, Reply
  <2>3. CASE /\ ~ReplacementIsRefused(body)
             /\ matrix' = [m EXCEPT !.active = active]
             /\ reply' = IF refused THEN "refused" ELSE "ok"
             /\ asked' = IF body.matrix = None /\ body.csv = None THEN asked ELSE None
    <3>1. MatrixOK(m) /\ (body.matrix = None /\ body.csv = None => m = matrix)
      <4>1. CASE body.matrix # None
        BY <2>1, <2>3, <4>1, LoadedOK DEF BodyOK, ReplacementIsRefused, Replacement
      <4>2. CASE body.matrix = None /\ body.csv # None
        BY <2>1, <2>3, <4>2, CsvIsMatrix, LoadedOK
           DEF BodyOK, ReplacementIsRefused, Replacement
      <4>3. CASE body.matrix = None /\ body.csv = None
        BY <4>3 DEF Replacement, IInv, TypeOK
      <4> QED
        BY <4>1, <4>2, <4>3
    <3>2. active \in BOOLEAN
      BY <2>1, <3>1 DEF BodyOK, MatrixOK
    <3>3. MatrixOK(matrix') /\ matrix'.weights = m.weights
      <4>0. \/ body.matrix # None /\ m = Loaded(body.matrix)
            \/ body.csv # None /\ m = Loaded(CsvWeights(body.csv))
            \/ m = matrix
        BY DEF Replacement
      <4> HIDE DEF m, active
      <4>1. CASE m = matrix
        BY <2>3, <3>1, <3>2, <4>1 DEF MatrixOK, Rows
      <4>2. CASE m # matrix
        BY <2>3, <3>1, <3>2, <4>0, <4>2 DEF MatrixOK, Rows, Loaded
      <4> QED
        BY <4>1, <4>2
    <3>4. asked' # None => Grants(matrix'.weights, asked')
      BY <2>3, <3>1, <3>3 DEF IInv
    <3>5. reply' \in Reply
      BY <2>3 DEF Reply
    <3> HIDE DEF m, active, refused
    <3> QED
      BY <1>3, <1>c, <3>3, <3>4, <3>5 DEF DashboardPost, IInv, TypeOK
  <2> QED
    BY <1>3, <2>2, <2>3 DEF DashboardPost
<1>4. CASE Edit
  BY <1>4, <1>c, MatrixAssumption DEF Edit, IInv, TypeOK, Reply
<1>5. CASE Stop
  <2>1. MatrixOK(matrix')
    BY <1>5, InactiveOK DEF Stop
  <2> QED
    BY <1>5, <2>1, MatrixAssumption DEF Stop, IInv, TypeOK, Reply
<1>6. CASE Start
  <2>1. CASE file = None
    BY <1>6, <2>1 DEF Start, IInv, TypeOK, Reply
  <2>2. CASE file # None
    <3>1. CsvOK(file) /\ DrawnFrom(file, drawn) /\ PostCsv(file, drawn)
      BY <1>6, <2>2 DEF Start, IInv
    <3> HIDE DEF DrawnFrom
    <3>2. /\ MatrixOK(matrix') /\ reply' \in Reply
          /\ asked' # None => Grants(matrix'.weights, asked')
      BY <3>1, PostCsvKeeps
    <3>3. up' \in BOOLEAN /\ (~up' => matrix' = matrix)
      BY <1>6, <2>2, <3>1 DEF Start, PostCsv
    <3>4. matrix = Inactive
      BY <1>6 DEF Start, IInv, TypeOK
    <3> QED
      BY <1>6, <2>2, <3>2, <3>3, <3>4 DEF Start, IInv, TypeOK, DrawnFrom
  <2> QED
    BY <2>1, <2>2
<1>7. CASE UNCHANGED vars
  BY <1>7 DEF vars, IInv, TypeOK, MatrixOK, Rows, CsvOK
<1> QED
  BY <1>1, <1>2, <1>3, <1>4, <1>5, <1>6, <1>7 DEF Next

\* IInv holds in every reachable state.
THEOREM SpecIInv == Spec => []IInv
BY InitIInv, NextIInv, PTL DEF Spec

\* The matrix is well formed: weight_of finds every pattern it looks up.
THEOREM TypeCorrect == Spec => []TypeOK
<1>1. IInv => TypeOK
  BY DEF IInv
<1> QED
  BY <1>1, SpecIInv, PTL

\* For every team and every relation of matching: a drawn matrix grants what
\* the team's allow lists ask for, and to members only.
THEOREM ProvisionedMatrixGrants == Spec => []AsProvisioned
<1>1. IInv => AsProvisioned
  BY DrawnGrants DEF IInv, AsProvisioned
<1> QED
  BY <1>1, SpecIInv, PTL

-------------------------------------------------------------------------------
(***************************************************************************)
(* RefusedIsUndone.  The second half of the dashboard's post assigns to    *)
(* the matrix in place: it leaves one it does not activate as it is, since *)
(* the matrix always has its three fields.                                 *)
(***************************************************************************)
Shaped == matrix = [weights  |-> matrix.weights,
                    compiled |-> matrix.compiled,
                    active   |-> matrix.active]

\* Every action leaves a matrix of that shape.
LEMMA ShapedStays == Shaped /\ [Next]_vars => Shaped'
<1>. SUFFICES ASSUME Shaped, [Next]_vars PROVE Shaped'
  OBVIOUS
<1>1. CASE UNCHANGED matrix
  BY <1>1 DEF Shaped
<1>2. CASE \E csv, team : PostCsv(csv, team)
  BY <1>1, <1>2 DEF PostCsv, Loaded, Shaped
<1>3. ASSUME NEW body \in Bodies, DashboardPost(body) PROVE Shaped'
  <2>1. PICK active : \/ UNCHANGED matrix
                      \/ matrix' = [Replacement(body) EXCEPT !.active = active]
    BY <1>3 DEF DashboardPost
  <2>2. \/ Replacement(body) = matrix
        \/ \E w : Replacement(body) = Loaded(w)
    BY DEF Replacement
  <2>. QED
    BY <1>1, <2>1, <2>2 DEF Loaded, Shaped
<1>4. CASE Stop
  BY <1>4 DEF Stop, Inactive, Shaped
<1>. QED
  BY <1>1, <1>2, <1>3, <1>4 DEF Next, AdminPost, Provision, Generate, Edit, Start, vars

\* A replacement that cannot be activated is the empty matrix: a CSV that is
\* taken has a row.
LEMMA IdleReplacement ==
  ASSUME NEW body \in Bodies, ~ReplacementIsRefused(body),
         CannotActivate(Replacement(body))
  PROVE  \/ Replacement(body) = matrix
         \/ body.matrix = Empty /\ Replacement(body) = Loaded(Empty)
<1>1. CASE body.matrix # None
  <2>1. body.matrix = [t \in DOMAIN body.matrix |-> body.matrix[t]]
    BY <1>1, MatrixAssumption DEF BodyOK, WeightsOK
  <2>2. DOMAIN body.matrix = {}
    BY <1>1 DEF CannotActivate, Replacement, Loaded, Rows
  <2>3. body.matrix = Empty
    BY <2>1, <2>2 DEF Empty
  <2>. QED
    BY <1>1, <2>3 DEF Replacement
<1>2. CASE body.matrix = None /\ body.csv # None
  <2>1. ToSet(Stripped(body.csv.header)) = {}
    BY <1>2 DEF CannotActivate, Replacement, Loaded, Rows, CsvWeights
  <2>2. body.csv.header \in Seq(Token) /\ Len(body.csv.header) # 0
    BY <1>2, MatrixAssumption DEF ReplacementIsRefused, CsvIsRefused, BodyOK, CsvOK
  <2>3. 1 \in DOMAIN body.csv.header
    BY <2>2
  <2>4. ToSet(body.csv.header) = {}
    <3>1. ToSet(Stripped(body.csv.header)) = {Strip[t] : t \in ToSet(body.csv.header)}
      BY <2>2, StrippedOK
    <3> QED
      BY <2>1, <3>1
  <2>. QED
    BY <2>3, <2>4 DEF ToSet
<1>. QED
  BY <1>1, <1>2 DEF Replacement

\* A request that is refused has not changed the matrix, whichever endpoint it
\* came to, unless it is a body of the dashboard with an empty matrix and active
\* set: the empty matrix is in force when it is refused.
THEOREM RefusalsAreUndone == Spec => RefusedIsUndone
<1>. DEFINE Undone ==
              \/ UNCHANGED matrix
              \/ \E body \in Bodies :
                   /\ DashboardPost(body) /\ body.matrix = Empty /\ body.active = TRUE
                   /\ matrix' = Loaded(Empty)
<1>1. Init => Shaped
  BY DEF Init, Inactive, Shaped
<1>2. ASSUME Shaped, [Next]_vars, reply' = "refused"
      PROVE  Undone \/ UNCHANGED vars
  <2>1. CASE \E csv, team : PostCsv(csv, team)
    BY <1>2, <2>1 DEF PostCsv
  <2>2. ASSUME NEW body \in Bodies, DashboardPost(body) PROVE Undone
    <3>. DEFINE m == Replacement(body)
    <3>1. CASE UNCHANGED matrix
      BY <3>1
    <3>2. CASE ~UNCHANGED matrix
      <4>1. /\ ~ReplacementIsRefused(body) /\ CannotActivate(m) /\ body.active = TRUE
            /\ matrix' = [m EXCEPT !.active = m.active]
        BY <1>2, <2>2, <3>2 DEF DashboardPost
      <4>2. m = matrix \/ (body.matrix = Empty /\ m = Loaded(Empty))
        BY <4>1, IdleReplacement
      <4>. HIDE DEF m
      <4>3. matrix' = m
        BY <1>2, <4>1, <4>2 DEF Shaped, Loaded
      <4>. QED
        BY <2>2, <3>2, <4>1, <4>2, <4>3
    <3>. QED
      BY <3>1, <3>2
  <2>3. CASE Stop
    BY <1>2, <2>3 DEF Stop
  <2>4. CASE UNCHANGED matrix
    BY <2>4
  <2>. HIDE DEF Undone
  <2>. QED
    BY <1>2, <2>1, <2>2, <2>3, <2>4
    DEF Next, AdminPost, Provision, Generate, Edit, Start
<1>4. RefusedIsUndone <=> [][reply' = "refused" => Undone]_vars
  BY PTL DEF RefusedIsUndone
<1>. HIDE DEF Undone
<1>3. Shaped /\ [Next]_vars => [reply' = "refused" => Undone]_vars
  BY <1>2
<1>. QED
  BY <1>1, <1>3, <1>4, ShapedStays, PTL DEF Spec
=============================================================================
