------------------------------ MODULE CommMatrix ------------------------------
(***************************************************************************)
(* Who may dispatch to whom: the comm matrix (comm_matrix.py), the two     *)
(* endpoints that replace it (/admin/comm-matrix of http/admin_routes.py,  *)
(* /dashboard/comm-matrix of dashboard/routes.py), the file it is loaded   *)
(* from at the start, and agora-init, which draws that file from the allow *)
(* lists of a team (provisioning/manifest.py, provisioning/matrix.py).     *)
(*                                                                         *)
(* Rows (receivers) and columns (senders) are regular expressions.  A      *)
(* token is the text of one: FullMatch says which ids, and which texts of  *)
(* other tokens, it matches.  The id of a worker is a token that matches   *)
(* itself.  A cell that is no integer, or a negative one, is Bad.          *)
(*                                                                         *)
(* A CSV is text: whitespace around a header is part of the token that was *)
(* written and not of the one that is read, and a comma or a line break in *)
(* a token divides it.                                                     *)
(*                                                                         *)
(* No handler awaits after it has read its request, so each is one step.   *)
(***************************************************************************)
EXTENDS Naturals, Sequences, FiniteSets, SequencesExt, FiniteSetsExt

CONSTANTS Workers,     \* ids of workers
          Operators,   \* ids of the form operator:<user>
          Patterns,    \* tokens that are no ids
          All,         \* the token .*
          Broken,      \* tokens that do not compile
          Commas,      \* tokens with a comma, or a line break before their end
          Breaks,      \* the other ones that end in a line break
          Strip,       \* Strip[t]: t without the whitespace around it
          FullMatch,   \* FullMatch[t]: the ids and tokens t matches
          Star,        \* the allow entry "*"
          Bad,         \* a cell that is refused
          None,
          Manifests,   \* the team.json files agora-init is run on
          Csvs,        \* the CSVs written or posted by hand
          Bodies,      \* the JSON bodies the dashboard posts
          MaxChanges   \* bound: changes of the matrix or of its file

Token == Workers \cup Patterns
Endpoint == Workers \cup Operators

\* a CSV: its first line, split, and the other ones
CsvOK(csv) ==
  /\ csv.header \in Seq(Token)
  /\ csv.data \in Seq(Seq(Nat \cup {Bad}))

Columns(weights) == UNION {DOMAIN weights[t] : t \in DOMAIN weights}

\* {to: {from: weight}}
WeightsOK(weights) ==
  /\ weights = [t \in DOMAIN weights |-> weights[t]]
  /\ DOMAIN weights \cup Columns(weights) \subseteq Token
  /\ \A t \in DOMAIN weights : \A f \in DOMAIN weights[t] :
       weights[t][f] \in Nat \cup {Bad}

BodyOK(body) ==
  /\ body.matrix # None => WeightsOK(body.matrix)
  /\ body.csv # None => CsvOK(body.csv)
  /\ body.active \in BOOLEAN \cup {None}

TeamOK(team) ==
  /\ team \in Seq([id : Endpoint, allow : SUBSET (Token \cup {Star}), whole : BOOLEAN])
  /\ \A i \in DOMAIN team : IsFiniteSet(team[i].allow)

ASSUME MatrixAssumption ==
  /\ Workers \cap (Patterns \cup Operators) = {}
  /\ All \in Patterns /\ Broken \cup Commas \subseteq Patterns
  /\ Breaks \subseteq Token
  /\ Strip \in [Token -> Token] /\ \A w \in Workers : Strip[w] \in Workers
  /\ FullMatch \in [Token -> SUBSET (Endpoint \cup Token)]
  /\ \A w \in Workers : FullMatch[w] = {w}
  /\ \A t \in Broken : FullMatch[t] = {}
  /\ Token \ (Commas \cup Breaks) \subseteq FullMatch[All]
  /\ Star \notin Token
  /\ Bad \notin Nat
  /\ None \notin BOOLEAN
  /\ \A csv \in Csvs : CsvOK(csv)
  /\ \A body \in Bodies : BodyOK(body)
  /\ \A team \in Manifests : TeamOK(team)
  /\ MaxChanges \in Nat

VARIABLES matrix,    \* the CommMatrix: [weights, compiled, active]
          file,      \* .agentagora/comm-matrix.csv, or None
          up,        \* the server runs
          reply,     \* the answer to the last request: "none", "ok", "refused"
          changes,   \* counts the changes
          drawn,     \* history: the team the file was drawn from, or None
          asked      \* history: the team the matrix was drawn from, or None

vars == <<matrix, file, up, reply, changes, drawn, asked>>

Empty == <<>>
Inactive == [weights |-> Empty, compiled |-> {}, active |-> FALSE]

-------------------------------------------------------------------------------
(***************************************************************************)
(* CommMatrix.                                                             *)
(***************************************************************************)
Rows(m) == DOMAIN m.weights

\* the headers as load_csv reads them
Stripped(header) == [i \in DOMAIN header |-> Strip[header[i]]]

\* load_csv refuses: no rows, a header that is not as long as there are rows or
\* a row that is not as long as the header, a header that does not compile, a
\* cell that is not a natural number.  A header with a comma is two headers, and
\* a line break, but for one at the end of the line, ends the first row.
CsvIsRefused(csv) ==
  LET n == Len(csv.header) IN
    \/ n = 0 \/ Len(csv.data) # n
    \/ ToSet(csv.header) \cap Commas # {}
    \/ \E i \in 1..(n - 1) : csv.header[i] \in Breaks
    \/ ToSet(Stripped(csv.header)) \cap Broken # {}
    \/ \E row \in ToSet(csv.data) : Len(row) # n \/ Bad \in ToSet(row)

\* a header that comes twice: the later row and column win
Position(h, header) == Max({i \in DOMAIN header : header[i] = h})

CsvWeights(csv) ==
  LET header == Stripped(csv.header)
  IN [t \in ToSet(header) |-> [f \in ToSet(header) |->
        csv.data[Position(t, header)][Position(f, header)]]]

\* load_matrix refuses a cell and a row or column the same way
RowsAreRefused(weights) ==
  \/ (DOMAIN weights \cup Columns(weights)) \cap Broken # {}
  \/ \E t \in DOMAIN weights : \E f \in DOMAIN weights[t] : weights[t][f] = Bad

\* the last lines of load_csv and of load_matrix
Loaded(weights) ==
  [weights  |-> weights,
   compiled |-> DOMAIN weights \cup Columns(weights),
   active   |-> TRUE]

\* set_active, which refuses to activate an empty matrix
CannotActivate(m) == Rows(m) = {}

\* the cells of the rows that match the receiver and the columns that match
\* the sender
Cells(m, from, to) ==
  LET row(t) == {f \in DOMAIN m.weights[t] : from \in FullMatch[f]}
  IN UNION {{m.weights[t][f] : f \in row(t)} :
            t \in {t \in Rows(m) : to \in FullMatch[t]}}

WeightOf(m, from, to) ==
  IF m.active THEN Max({0} \cup Cells(m, from, to)) ELSE 0

IsAllowed(m, from, to) ==
  \/ {from, to} \cap Operators # {}
  \/ ~m.active
  \/ WeightOf(m, from, to) > 0

-------------------------------------------------------------------------------
(***************************************************************************)
(* agora-init.  An entry of a team is [id, allow, whole]; whole says that  *)
(* its other fields are as they must be.                                   *)
(***************************************************************************)
\* validate: every entry is whole, with an id that may be one and is not taken,
\* and with allow entries that are not empty
ManifestIsRefused(team) ==
  \/ team = <<>>
  \/ \E i \in DOMAIN team :
       \/ ~team[i].whole
       \/ team[i].id \notin Workers
       \/ \E j \in 1..(i - 1) : team[j].id = team[i].id

\* ... and "*" becomes ".*"
Normalised(team) ==
  [i \in DOMAIN team |->
     [id |-> team[i].id,
      allow |-> {IF t = Star THEN All ELSE t : t \in team[i].allow}]]

Members(team) == {team[i].id : i \in DOMAIN team}
AllowOf(team, id) == UNION {team[i].allow : i \in {i \in DOMAIN team : team[i].id = id}}

AllTokens(team) == UNION {team[i].allow : i \in DOMAIN team}

\* _nodes: the ids, and the other tokens in the order in which they come
NodeLists(team) ==
  {[i \in DOMAIN team |-> team[i].id] \o extra :
     extra \in SetToSeqs(AllTokens(team) \ Members(team))}

\* _allows: the text of a row is looked up in an allow list
Allows(to, allow) == to \in allow \/ \E p \in allow : to \in FullMatch[p]

\* mutant of Edge: the columns that are no members get what anyone is allowed
EdgeOfAnyone(team, from, to) ==
  \E m \in Members(team) : m \in FullMatch[from] /\ Allows(to, AllowOf(team, m))

Edge(team, from, to) == from \in Members(team) /\ Allows(to, AllowOf(team, from))

BuildCsv(team, nodes) ==
  [header |-> nodes,
   data   |-> [i \in DOMAIN nodes |-> [j \in DOMAIN nodes |->
                 IF Edge(team, nodes[j], nodes[i]) THEN 1 ELSE 0]]]

-------------------------------------------------------------------------------
Init ==
  /\ matrix = Inactive
  /\ file = None
  /\ up = TRUE
  /\ reply = "none"
  /\ changes = 0
  /\ drawn = None /\ asked = None

Changing == changes < MaxChanges /\ changes' = changes + 1

\* mutant of PostCsv: the headers are compiled into the matrix one by one
PostCsvInPlace(csv, team) ==
  IF CsvIsRefused(csv)
  THEN /\ reply' = "refused"
       /\ matrix' = [matrix EXCEPT !.compiled = ToSet(csv.header) \ Broken]
       /\ UNCHANGED asked
  ELSE /\ reply' = "ok"
       /\ matrix' = Loaded(CsvWeights(csv))
       /\ asked' = team

\* POST /admin/comm-matrix
PostCsv(csv, team) ==
  IF CsvIsRefused(csv)
  THEN reply' = "refused" /\ UNCHANGED <<matrix, asked>>
  ELSE /\ reply' = "ok"
       /\ matrix' = Loaded(CsvWeights(csv))
       /\ asked' = team

AdminPost ==
  /\ up /\ Changing
  /\ \E csv \in Csvs : PostCsv(csv, None)
  /\ UNCHANGED <<file, up, drawn>>

\* agora-init writes the file and, when it has a token and the server answers,
\* posts it
Generate(team) ==
  /\ drawn' = team
  /\ \E nodes \in NodeLists(team) :
       /\ file' = BuildCsv(team, nodes)
       /\ \/ reply' = "none" /\ UNCHANGED <<matrix, asked>>
          \/ up /\ PostCsv(BuildCsv(team, nodes), team)

Provision ==
  /\ Changing
  /\ \E manifest \in Manifests :
       IF ManifestIsRefused(manifest)
       THEN reply' = "refused" /\ UNCHANGED <<matrix, file, drawn, asked>>
       ELSE Generate(Normalised(manifest))
  /\ UNCHANGED up

\* the first half of POST /dashboard/comm-matrix; a body has a matrix, a csv or
\* neither of them, and active or not
Replacement(body) ==
  IF body.matrix # None THEN Loaded(body.matrix)
  ELSE IF body.csv # None THEN Loaded(CsvWeights(body.csv))
  ELSE matrix

ReplacementIsRefused(body) ==
  IF body.matrix # None THEN RowsAreRefused(body.matrix)
  ELSE body.csv # None /\ CsvIsRefused(body.csv)

\* the second half works on what the first half made of the matrix
DashboardPost(body) ==
  LET m == Replacement(body)
      refused == body.active = TRUE /\ CannotActivate(m)
      active == IF body.active = None \/ refused THEN m.active ELSE body.active
  IN /\ up /\ Changing
     /\ \/ /\ ReplacementIsRefused(body)
           /\ reply' = "refused" /\ UNCHANGED <<matrix, asked>>
        \/ /\ ~ReplacementIsRefused(body)
           /\ matrix' = [m EXCEPT !.active = active]
           /\ reply' = IF refused THEN "refused" ELSE "ok"
           /\ asked' = IF body.matrix = None /\ body.csv = None THEN asked ELSE None
     /\ UNCHANGED <<file, up, drawn>>

\* somebody edits the file
Edit ==
  /\ Changing
  /\ file' \in Csvs
  /\ drawn' = None
  /\ reply' = "none"
  /\ UNCHANGED <<matrix, up, asked>>

Stop ==
  /\ up
  /\ up' = FALSE
  /\ matrix' = Inactive /\ asked' = None
  /\ reply' = "none"
  /\ UNCHANGED <<file, changes, drawn>>

\* load_comm_matrix; a file that is refused ends the start
Start ==
  /\ ~up
  /\ IF file = None
     THEN up' = TRUE /\ reply' = "none" /\ UNCHANGED <<matrix, asked>>
     ELSE /\ PostCsv(file, drawn)
          /\ up' = ~CsvIsRefused(file)
  /\ UNCHANGED <<file, changes, drawn>>

Next ==
  \/ AdminPost
  \/ Provision
  \/ \E body \in Bodies : DashboardPost(body)
  \/ Edit
  \/ Stop
  \/ Start

Spec == Init /\ [][Next]_vars

-------------------------------------------------------------------------------
(***************************************************************************)
(* Properties.                                                             *)
(***************************************************************************)
Reply == {"none", "ok", "refused"}

\* Every row and column is a token that compiles and has been compiled, since
\* weight_of looks each of them up (a missing one is a KeyError in dispatch);
\* the cells are natural numbers.
MatrixOK(m) ==
  /\ m.active \in BOOLEAN
  /\ m.compiled = Rows(m) \cup Columns(m.weights)
  /\ m.compiled \subseteq Token \ Broken
  /\ \A t \in Rows(m) : \A f \in DOMAIN m.weights[t] : m.weights[t][f] \in Nat

TypeOK ==
  /\ MatrixOK(matrix)
  /\ up \in BOOLEAN
  /\ reply \in Reply
  /\ changes \in 0..MaxChanges
  /\ ~up => matrix = Inactive

\* what the team file says: member m wants to reach x
Wants(team, m, x) == \E t \in AllowOf(team, m) : x \in FullMatch[Strip[t]]

\* the tokens of a team are still told apart, and its members named as before,
\* when the whitespace around them is gone
ReadsBack(team) ==
  /\ \A s, t \in Members(team) \cup AllTokens(team) : Strip[s] = Strip[t] => s = t
  /\ \A m \in Members(team) : Strip[m] = m

\* While the matrix is the one agora-init drew, by a post or from the file at a
\* start, every member reaches whomever a token of its allow list matches, with
\* or without whitespace around it; but for a team in which a token is that of
\* another one with whitespace around it, of which the matrix keeps one row and
\* one column.  And somebody who is no member of the team reaches no worker,
\* whichever patterns match its id.
AsProvisioned ==
  (asked # None /\ matrix.active) =>
     \A from, to \in Workers :
       /\ ReadsBack(asked) /\ Wants(asked, from, to) => IsAllowed(matrix, from, to)
       /\ IsAllowed(matrix, from, to) => \E m \in Members(asked) : from = Strip[m]

\* A request that is refused has not changed the matrix; but for one: a body
\* that replaces the matrix with an empty one and activates it in the same
\* breath is answered 422 after the replacement.
RefusedIsUndone ==
  [][reply' = "refused" =>
       \/ UNCHANGED matrix
       \/ \E body \in Bodies :
            /\ DashboardPost(body) /\ body.matrix = Empty /\ body.active = TRUE
            /\ matrix' = Loaded(Empty)]_vars
=============================================================================
