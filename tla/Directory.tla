------------------------------- MODULE Directory -------------------------------
(***************************************************************************)
(* Who is registered and which message types exist: the registries of      *)
(* workers and bots (Registry.tla), the schema registry of                 *)
(* storage/schemas.py, and the calls that change them: the tools of        *)
(* server.py, the auto-register middleware, the dashboard, the sweeps of   *)
(* the dead and the operator's unregister.                                 *)
(*                                                                         *)
(* None of the handlers awaits between its first and its last change of    *)
(* this state, so each is one step.  A call that is refused before it has  *)
(* changed anything is no step; the notice that register_bot and           *)
(* register_schema then send about a schema conflict is Dispatcher's       *)
(* "notify".  The tables schemas and bot_subscriptions are never read back *)
(* and are left out; so a restart begins with an empty directory.          *)
(***************************************************************************)
EXTENDS Registry, FiniteSets

CONSTANTS Operators,       \* ids of the form operator:<user>
          Bodies,          \* bodies that are valid JSON schemas with a msgtype
          Invalid,         \* a body that SchemaRegistry.register turns down
          Shipped,         \* what is loaded at the start: an entry, or None
          WorkerIds,       \* the ids clients register workers under
          BotIds,          \* the ids clients register bots under
          BotRequests,     \* the register_bot calls clients make
          SchemaRequests   \* the register_schema calls clients make

\* the dashboard acts for operator:u under the session dashboard:u; that
\* session is written like the operator's id
Clients == Sessions \ Operators
Holders == Ids \cup Sessions

Kind == {"conversation", "bot-task"}
Entry == [body : Bodies, kind : Kind]
BotRequestType == [mode : {"handler", "observer"}, subs : SUBSET Schemas,
                   inline : [Schemas -> Bodies \cup {Invalid, None}]]
SchemaRequestType == [name : Schemas, body : Bodies, kind : Kind]

ASSUME DirectoryAssumption ==
  /\ Operators \subseteq Ids \cap Sessions
  /\ Sessions \cap Ids = Operators
  /\ None \notin Info \cup Entry \cup Bodies \cup Ids
  /\ Invalid \notin Bodies \cup {None}
  /\ Shipped \in [Schemas -> Entry \cup {None}]
  /\ WorkerIds \cup BotIds \subseteq Ids
  /\ BotRequests \subseteq BotRequestType
  /\ SchemaRequests \subseteq SchemaRequestType

Permanent == {n \in Schemas : Shipped[n] # None}

VARIABLES workers,   \* InstanceRegistry
          bots,      \* BotRegistry
          table      \* SchemaRegistry: its entries, and the holders of each

vars == <<workers, bots, table>>

SchemaTable == [entry : [Schemas -> Entry \cup {None}],
                refs  : [Schemas -> SUBSET Holders]]

Init ==
  /\ workers = EmptyRegistry
  /\ bots = EmptyRegistry
  /\ table = [entry |-> Shipped, refs |-> [n \in Schemas |-> {}]]

-------------------------------------------------------------------------------
(***************************************************************************)
(* The schema registry.                                                    *)
(***************************************************************************)
\* register, for every name that is offered an entry: a new name gets it, a
\* known one keeps its own, and `who' holds all but the permanent ones
AddHolder(t, offered, who) ==
  [entry |-> [n \in Schemas |-> IF t.entry[n] = None THEN offered[n] ELSE t.entry[n]],
   refs  |-> [n \in Schemas |->
                IF offered[n] # None /\ n \notin Permanent
                  THEN t.refs[n] \cup {who} ELSE t.refs[n]]]

\* acquire_ref, for every name in `names'
AcquireRefs(t, names, who) ==
  [t EXCEPT !.refs = [n \in Schemas |->
     IF n \in names \ Permanent /\ t.entry[n] # None
       THEN t.refs[n] \cup {who} ELSE t.refs[n]]]

\* mutant of ReleaseHolders: what nobody holds any more stays
ReleaseRefsOnly(t, who) ==
  [t EXCEPT !.refs = [n \in Schemas |-> t.refs[n] \ who]]

\* release_holder, for every holder in `who': a schema goes with its last one
ReleaseHolders(t, who) ==
  [entry |-> [n \in Schemas |-> IF t.refs[n] # {} /\ t.refs[n] \subseteq who
                                  THEN None ELSE t.entry[n]],
   refs  |-> [n \in Schemas |-> t.refs[n] \ who]]

-------------------------------------------------------------------------------
(***************************************************************************)
(* Registering.                                                            *)
(***************************************************************************)
WorkerInfo(s, i) ==
  [id |-> i, session |-> s, mode |-> "worker", subs |-> {}, seen |-> "never"]

\* agora.register
Register(s, i) ==
  /\ workers' = RegisterInfo(workers, WorkerInfo(s, i))
  /\ UNCHANGED <<bots, table>>

\* the middleware registers the id in the headers of a request unless its
\* session has it already (with other metadata it registers all the same,
\* which is what Register does)
AutoRegister(s, i) ==
  /\ NameIn(workers)[s] # i
  /\ workers' = RegisterInfo(workers, WorkerInfo(s, i))
  /\ UNCHANGED <<bots, table>>

\* the dashboard registers its user on the first message
RegisterOperator(o) ==
  /\ workers.byInstance[o] = None
  /\ workers' = RegisterInfo(workers, WorkerInfo(o, o))
  /\ UNCHANGED <<bots, table>>

\* mutant of HolderOf: only a registered session holds anything
HolderIfRegistered(s) ==
  IF NameIn(workers)[s] # None THEN NameIn(workers)[s] ELSE NameIn(bots)[s]

\* who will hold a schema that is registered from this session
HolderOf(s) ==
  IF NameIn(workers)[s] # None THEN NameIn(workers)[s]
  ELSE IF NameIn(bots)[s] # None THEN NameIn(bots)[s]
  ELSE s

RegisterSchema(s, r) ==
  /\ table.entry[r.name] # None => table.entry[r.name].body = r.body
  /\ table' = AddHolder(table,
                [n \in Schemas |-> IF n = r.name
                                     THEN [body |-> r.body, kind |-> r.kind]
                                     ELSE None],
                HolderOf(s))
  /\ UNCHANGED <<workers, bots>>

\* mutant of Acceptable: the bodies are not compared
AcceptableUnseen(b) ==
  /\ b.mode = "handler" => b.subs # {}
  /\ b.mode = "handler" => \A n \in b.subs :
       IF table.entry[n] # None THEN table.entry[n].kind = "bot-task"
                                ELSE b.inline[n] # None

\* the checks register_bot makes before it changes anything
Acceptable(b) ==
  /\ b.mode = "handler" => b.subs # {}
  /\ \A n \in Schemas : b.inline[n] # None /\ table.entry[n] # None
                          => table.entry[n].body = b.inline[n]
  /\ b.mode = "handler" => \A n \in b.subs :
       IF table.entry[n] # None THEN table.entry[n].kind = "bot-task"
                                ELSE b.inline[n] # None

BotInfo(s, i, b) ==
  [id |-> i, session |-> s, mode |-> b.mode,
   subs |-> IF b.mode = "handler" THEN b.subs ELSE {}, seen |-> "recent"]

\* the references of the bot that is registered under the id
WithoutPrior(i) ==
  IF bots.byInstance[i] = None THEN table ELSE ReleaseHolders(table, {i})

InlineEntries(b) ==
  [n \in Schemas |-> IF b.inline[n] = None THEN None
                     ELSE [body |-> b.inline[n], kind |-> "bot-task"]]

RegisterBot(s, i, b) ==
  /\ Acceptable(b)
  /\ \A n \in Schemas : b.inline[n] # Invalid
  /\ LET info == BotInfo(s, i, b)
     IN  /\ bots' = RegisterInfo(bots, info)
         /\ table' = AcquireRefs(AddHolder(WithoutPrior(i), InlineEntries(b), i),
                                 info.subs, i)
  /\ UNCHANGED workers

\* An inline body turns out to be no schema after the references of the prior
\* registration are released: those of the call itself are released as well.
RegisterBotFails(s, i, b) ==
  /\ Acceptable(b)
  /\ \E n \in Schemas : b.inline[n] = Invalid
  /\ table' = ReleaseHolders(table, {i})
  /\ UNCHANGED <<workers, bots>>

-------------------------------------------------------------------------------
(***************************************************************************)
(* Leaving.                                                                *)
(***************************************************************************)
\* agora.unregister: the worker and the bot of the session
Unregister(s) ==
  /\ table' = ReleaseHolders(table,
                {NameIn(workers)[s], NameIn(bots)[s]} \ {None})
  /\ workers' = UnregisterSession(workers, s)
  /\ bots' = UnregisterSession(bots, s)

\* operator_unregister: the references of the id, and whatever its session has;
\* an id that is a worker and a bot is looked for among the workers
OperatorUnregister(i) ==
  /\ workers.byInstance[i] # None \/ bots.byInstance[i] # None
  /\ LET s == IF workers.byInstance[i] # None THEN workers.byInstance[i].session
                                              ELSE bots.byInstance[i].session
     IN  /\ workers' = UnregisterSession(workers, s)
         /\ bots' = UnregisterSession(bots, s)
  /\ table' = ReleaseHolders(table, {i})

\* flush and wait_notify: of an id that is both, the bot is the one seen
Touch(i) ==
  /\ IF bots.byInstance[i] # None
       THEN bots' = SetSeen(bots, i, "recent") /\ UNCHANGED workers
       ELSE workers' = SetSeen(workers, i, "recent") /\ UNCHANGED bots
  /\ UNCHANGED table

\* the dead-session timeout passes
Forget(i) ==
  /\ \/ /\ workers.byInstance[i] # None
        /\ workers.byInstance[i].seen = "recent"
        /\ workers' = SetSeen(workers, i, "old")
        /\ UNCHANGED bots
     \/ /\ bots.byInstance[i] # None
        /\ bots.byInstance[i].seen = "recent"
        /\ bots' = SetSeen(bots, i, "old")
        /\ UNCHANGED workers
  /\ UNCHANGED table

\* dead_session_sweep leaves alone operators and workers never seen
DeadSessions == {x \in Listed(workers) : x.id \notin Operators /\ x.seen = "old"}

\* dead_bot_sweep goes by registered_at for bots never seen
DeadBots == {x \in Listed(bots) : x.seen = "old"}

\* one round of the 60-second loop
Sweep ==
  /\ DeadSessions \cup DeadBots # {}
  /\ workers' = Detach(workers, DeadSessions)
  /\ bots' = Detach(bots, DeadBots)
  /\ table' = ReleaseHolders(table, {x.id : x \in DeadSessions \cup DeadBots})

\* the process restarts: nothing of this is restored
Restart ==
  /\ workers' = EmptyRegistry
  /\ bots' = EmptyRegistry
  /\ table' = [entry |-> Shipped, refs |-> [n \in Schemas |-> {}]]

Next ==
  \/ \E s \in Clients, i \in WorkerIds : Register(s, i)
  \/ \E s \in Clients, i \in WorkerIds : AutoRegister(s, i)
  \/ \E o \in Operators : RegisterOperator(o)
  \/ \E s \in Clients, r \in SchemaRequests : RegisterSchema(s, r)
  \/ \E s \in Clients, i \in BotIds, b \in BotRequests : RegisterBot(s, i, b)
  \/ \E s \in Clients, i \in BotIds, b \in BotRequests : RegisterBotFails(s, i, b)
  \/ \E s \in Clients : Unregister(s)
  \/ \E i \in Ids : OperatorUnregister(i)
  \/ \E i \in Ids : Touch(i)
  \/ \E i \in Ids : Forget(i)
  \/ Sweep
  \/ Restart

Spec == Init /\ [][Next]_vars

-------------------------------------------------------------------------------
(***************************************************************************)
(* Properties.                                                             *)
(***************************************************************************)
\* Every variable holds what the code's data structures can hold.
TypeOK ==
  /\ workers \in RegistryState
  /\ bots \in RegistryState
  /\ table \in SchemaTable

\* The two dictionaries of each registry describe the same registrations, after
\* any sequence of registrations that take an id or a session from one another.
RegistriesAgree == TwoViews(workers) /\ TwoViews(bots)

\* The fan-out of a message type goes to the registered handlers that subscribe
\* to it, and the copies to the registered observers: the indexes that routing
\* reads follow every replacement, unregister and sweep.
RoutesAgree == Indexed(bots) /\ Indexed(workers)

\* A schema that somebody registered lives as long as it has a holder, and the
\* shipped ones always: nothing stays without a holder, nothing held is gone.
SchemasAreHeld ==
  /\ \A n \in Permanent : table.entry[n] = Shipped[n] /\ table.refs[n] = {}
  /\ \A n \in Schemas \ Permanent : table.entry[n] # None <=> table.refs[n] # {}

\* The body of a schema never changes under those who use it, also when one call
\* releases it, registers it again and holds it once more.
BodiesAreImmutable ==
  [][\A n \in Schemas : table.entry[n] # None /\ table'.entry[n] # None
       => \/ table'.entry[n].body = table.entry[n].body
          \/ Restart]_vars

\* Every message type a registered handler subscribes to exists and is for bots
\* (server.py:275, docs/schemas-and-bots.md).
SubscriptionsAreServed ==
  \A i \in Ids : bots.byInstance[i] # None =>
    \A n \in bots.byInstance[i].subs :
      table.entry[n] # None /\ table.entry[n].kind = "bot-task"

WorkerNames == INSTANCE Names WITH name <- NameIn(workers)
BotNames == INSTANCE Names WITH name <- NameIn(bots)

\* Each registry keeps the promise of Names: one name a session, one session a
\* name, and the last to claim it has it.
LastClaimWins == WorkerNames!Spec /\ BotNames!Spec
=============================================================================
