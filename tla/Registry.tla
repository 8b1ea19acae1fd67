------------------------------- MODULE Registry -------------------------------
(***************************************************************************)
(* The two-way registry of registry/core.py: who is registered, by session *)
(* and by instance id, in two dictionaries, with the two indexes of bots   *)
(* that registry/bot.py keeps beside them.  The operations are operators   *)
(* on one registry value; every one of them runs under the registry's own  *)
(* lock without an await.  Directory.tla has a registry of workers and one *)
(* of bots, and the calls that change them.                                *)
(*                                                                         *)
(* The base class does not know bots from workers: the hooks do nothing    *)
(* for an entry of mode "worker", and a registry of workers never puts     *)
(* anything into the two indexes.                                          *)
(*                                                                         *)
(* Abstracted: role, description, cwd, wait_mode, emit_schemas and         *)
(* registered_at.  `seen' is what the sweeps make of last_seen_at:         *)
(* unset, within the dead-session timeout, or past it.                     *)
(***************************************************************************)
CONSTANTS Sessions,   \* MCP session ids
          Ids,        \* instance ids
          Schemas,    \* message types
          None        \* Python's None

Info == [id : Ids, session : Sessions, mode : {"worker", "handler", "observer"},
         subs : SUBSET Schemas, seen : {"never", "recent", "old"}]

RegistryState == [bySession   : [Sessions -> Info \cup {None}],
                  byInstance  : [Ids -> Info \cup {None}],
                  subscribers : [Schemas -> SUBSET Ids],
                  observers   : SUBSET Ids]

EmptyRegistry == [bySession   |-> [s \in Sessions |-> None],
                  byInstance  |-> [i \in Ids |-> None],
                  subscribers |-> [n \in Schemas |-> {}],
                  observers   |-> {}]

\* list_instances, list_bots
Listed(reg) == {reg.byInstance[i] : i \in Ids} \ {None}

\* resolve_session: the name of each session
NameIn(reg) == [s \in Sessions |-> IF reg.bySession[s] = None THEN None
                                                 ELSE reg.bySession[s].id]

\* mutant of Detach: the indexes of the bots are left as they are
DetachUnindexed(reg, gone) ==
  [reg EXCEPT
    !.bySession  = [s \in Sessions |->
                      IF \E x \in gone : x.session = s THEN None ELSE @[s]],
    !.byInstance = [i \in Ids |->
                      IF \E x \in gone : x.id = i THEN None ELSE @[i]]]

\* _detach_locked with _on_detach_locked, for every entry of `gone'
Detach(reg, gone) ==
  [bySession   |-> [s \in Sessions |->
                      IF \E x \in gone : x.session = s THEN None ELSE reg.bySession[s]],
   byInstance  |-> [i \in Ids |->
                      IF \E x \in gone : x.id = i THEN None ELSE reg.byInstance[i]],
   subscribers |-> [n \in Schemas |->
                      reg.subscribers[n] \ {x.id : x \in {y \in gone : n \in y.subs}}],
   observers   |-> reg.observers \ {x.id : x \in gone}]

\* both dictionaries and _on_store_locked
Store(reg, info) ==
  [bySession   |-> [reg.bySession EXCEPT ![info.session] = info],
   byInstance  |-> [reg.byInstance EXCEPT ![info.id] = info],
   subscribers |-> [n \in Schemas |->
                      IF info.mode = "handler" /\ n \in info.subs
                        THEN reg.subscribers[n] \cup {info.id}
                        ELSE reg.subscribers[n]],
   observers   |-> IF info.mode = "observer"
                     THEN reg.observers \cup {info.id} ELSE reg.observers]

\* mutant of RegisterInfo: the session keeps the id it had
RegisterOverSession(reg, info) ==
  Store(Detach(reg, {reg.byInstance[info.id]} \ {None}), info)

\* mutant of RegisterInfo: the id may be had by several sessions
RegisterOverId(reg, info) ==
  Store(Detach(reg, {reg.bySession[info.session]} \ {None}), info)

\* register_info: whoever had the id goes first, then whatever the session had
RegisterInfo(reg, info) ==
  LET freed == Detach(reg, {reg.byInstance[info.id]} \ {None})
  IN  Store(Detach(freed, {freed.bySession[info.session]} \ {None}), info)

\* unregister_session
UnregisterSession(reg, session) ==
  Detach(reg, {reg.bySession[session]} \ {None})

\* _replace_and_store_locked, as touch_last_seen uses it
SetSeen(reg, who, seen) ==
  IF reg.byInstance[who] = None THEN reg
  ELSE LET updated == [reg.byInstance[who] EXCEPT !.seen = seen]
       IN  [reg EXCEPT !.byInstance[who] = updated,
                       !.bySession[updated.session] = updated]

(***************************************************************************)
(* What keeps a registry sound.                                            *)
(***************************************************************************)
\* the two dictionaries are two views of one set of entries
TwoViews(reg) ==
  /\ \A s \in Sessions : reg.bySession[s] # None =>
       /\ reg.bySession[s].session = s
       /\ reg.byInstance[reg.bySession[s].id] = reg.bySession[s]
  /\ \A i \in Ids : reg.byInstance[i] # None =>
       /\ reg.byInstance[i].id = i
       /\ reg.bySession[reg.byInstance[i].session] = reg.byInstance[i]

\* the indexes list the registered bots, and them only
Indexed(reg) ==
  /\ \A n \in Schemas : reg.subscribers[n] =
       {i \in Ids : /\ reg.byInstance[i] # None
                    /\ reg.byInstance[i].mode = "handler"
                    /\ n \in reg.byInstance[i].subs}
  /\ reg.observers = {i \in Ids : /\ reg.byInstance[i] # None
                                  /\ reg.byInstance[i].mode = "observer"}
=============================================================================
