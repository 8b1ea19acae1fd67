---------------------------- MODULE DirectoryProofs ----------------------------
(***************************************************************************)
(* Proofs about Directory: the registries stay sound whatever sequence of  *)
(* registrations, sweeps and unregisters they go through, a schema lives   *)
(* as long as it is held, and each registry implements Names.              *)
(*                                                                         *)
(* The argument is about one registry value: Detach keeps it sound when    *)
(* what goes is what both dictionaries have, Store when its id and its     *)
(* session are free, and every operation is made of the two.               *)
(***************************************************************************)
EXTENDS Directory, TLAPS

Sound(reg) == reg \in RegistryState /\ TwoViews(reg) /\ Indexed(reg)

\* what may be detached: entries both dictionaries have
Present(reg, gone) ==
  \A x \in gone : /\ x \in Info
                  /\ reg.byInstance[x.id] = x
                  /\ reg.bySession[x.session] = x

-------------------------------------------------------------------------------
\* An entry is never None.
LEMMA InfoIsSome == \A x \in Info : x # None
  BY DirectoryAssumption

\* A name is never None.
LEMMA IdIsSome == \A i \in Ids : i # None
  BY DirectoryAssumption

\* An empty registry is sound.
LEMMA EmptySound == Sound(EmptyRegistry)
  BY DEF Sound, EmptyRegistry, RegistryState, TwoViews, Indexed

\* What one dictionary has, both have.
LEMMA FoundBySession ==
  ASSUME NEW reg, Sound(reg), NEW s \in Sessions
  PROVE  Present(reg, {reg.bySession[s]} \ {None})
  BY DEF Sound, TwoViews, Present, RegistryState

\* What the registry has under an id, both dictionaries have.
LEMMA FoundByInstance ==
  ASSUME NEW reg, Sound(reg), NEW i \in Ids
  PROVE  Present(reg, {reg.byInstance[i]} \ {None})
  BY DEF Sound, TwoViews, Present, RegistryState

\* What the registry lists, both dictionaries have.
LEMMA FoundInList ==
  ASSUME NEW reg, Sound(reg), NEW gone, gone \subseteq Listed(reg)
  PROVE  Present(reg, gone)
  BY DEF Sound, TwoViews, Present, RegistryState, Listed

\* Detaching keeps a registry sound.
LEMMA DetachSound ==
  ASSUME NEW reg, Sound(reg), NEW gone, Present(reg, gone)
  PROVE  Sound(Detach(reg, gone))
<1> DEFINE new == Detach(reg, gone)
<1>1. /\ reg.bySession \in [Sessions -> Info \cup {None}]
      /\ reg.byInstance \in [Ids -> Info \cup {None}]
      /\ reg.subscribers \in [Schemas -> SUBSET Ids]
      /\ reg.observers \in SUBSET Ids
  BY DEF Sound, RegistryState
<1>2. new \in RegistryState
  BY <1>1 DEF Detach, RegistryState
<1>3. /\ \A s \in Sessions : new.bySession[s] =
           IF \E x \in gone : x.session = s THEN None ELSE reg.bySession[s]
      /\ \A i \in Ids : new.byInstance[i] =
           IF \E x \in gone : x.id = i THEN None ELSE reg.byInstance[i]
      /\ \A n \in Schemas : new.subscribers[n] =
           reg.subscribers[n] \ {x.id : x \in {y \in gone : n \in y.subs}}
      /\ new.observers = reg.observers \ {x.id : x \in gone}
  BY DEF Detach
<1> HIDE DEF new
<1>4. ASSUME NEW s \in Sessions, new.bySession[s] # None
      PROVE  /\ new.bySession[s].session = s
             /\ new.byInstance[new.bySession[s].id] = new.bySession[s]
  <2> DEFINE e == reg.bySession[s]
  <2>1. e \in Info /\ e.session = s /\ reg.byInstance[e.id] = e /\ e.id \in Ids
    BY <1>1, <1>3, <1>4 DEF Sound, TwoViews, Info
  <2>2. new.bySession[s] = e /\ ~\E x \in gone : x.session = s
    BY <1>3, <1>4
  <2>3. ~\E x \in gone : x.id = e.id
    BY <2>1, <2>2 DEF Present
  <2> QED BY <1>3, <2>1, <2>2, <2>3
<1>5. ASSUME NEW i \in Ids, new.byInstance[i] # None
      PROVE  /\ new.byInstance[i].id = i
             /\ new.bySession[new.byInstance[i].session] = new.byInstance[i]
  <2> DEFINE e == reg.byInstance[i]
  <2>1. e \in Info /\ e.id = i /\ reg.bySession[e.session] = e /\ e.session \in Sessions
    BY <1>1, <1>3, <1>5 DEF Sound, TwoViews, Info
  <2>2. new.byInstance[i] = e /\ ~\E x \in gone : x.id = i
    BY <1>3, <1>5
  <2>3. ~\E x \in gone : x.session = e.session
    BY <2>1, <2>2 DEF Present
  <2> QED BY <1>3, <2>1, <2>2, <2>3
<1>6. TwoViews(new)
  BY <1>4, <1>5 DEF TwoViews
<1>7. Indexed(new)
  <2>1. ASSUME NEW n \in Schemas, NEW i \in Ids
        PROVE  i \in new.subscribers[n] <=>
                 /\ new.byInstance[i] # None
                 /\ new.byInstance[i].mode = "handler"
                 /\ n \in new.byInstance[i].subs
    <3>1. i \in reg.subscribers[n] <=>
            /\ reg.byInstance[i] # None
            /\ reg.byInstance[i].mode = "handler"
            /\ n \in reg.byInstance[i].subs
      BY DEF Sound, Indexed
    <3>2. CASE \E x \in gone : x.id = i
      BY <1>3, <3>1, <3>2 DEF Present
    <3>3. CASE ~\E x \in gone : x.id = i
      BY <1>3, <3>1, <3>3
    <3> QED BY <3>2, <3>3
  <2>2. ASSUME NEW i \in Ids
        PROVE  i \in new.observers <=>
                 new.byInstance[i] # None /\ new.byInstance[i].mode = "observer"
    BY <1>3 DEF Sound, Indexed
  <2>3. \A n \in Schemas : new.subscribers[n] \subseteq Ids
    BY <1>2 DEF RegistryState
  <2>4. new.observers \subseteq Ids
    BY <1>2 DEF RegistryState
  <2> QED BY <2>1, <2>2, <2>3, <2>4 DEF Indexed
<1> QED BY <1>2, <1>6, <1>7 DEF Sound, new

\* Storing an entry whose id and session are free keeps a registry sound.
LEMMA StoreSound ==
  ASSUME NEW reg, Sound(reg), NEW info \in Info,
         reg.byInstance[info.id] = None, reg.bySession[info.session] = None
  PROVE  Sound(Store(reg, info))
<1> DEFINE new == Store(reg, info)
<1>1. /\ reg.bySession \in [Sessions -> Info \cup {None}]
      /\ reg.byInstance \in [Ids -> Info \cup {None}]
      /\ reg.subscribers \in [Schemas -> SUBSET Ids]
      /\ reg.observers \in SUBSET Ids
  BY DEF Sound, RegistryState
<1>2. info.id \in Ids /\ info.session \in Sessions /\ info # None
  BY InfoIsSome DEF Info
<1>3. new \in RegistryState
  BY <1>1, <1>2 DEF Store, RegistryState
<1>4. /\ \A s \in Sessions : new.bySession[s] =
           IF s = info.session THEN info ELSE reg.bySession[s]
      /\ \A i \in Ids : new.byInstance[i] =
           IF i = info.id THEN info ELSE reg.byInstance[i]
      /\ \A n \in Schemas : new.subscribers[n] =
           IF info.mode = "handler" /\ n \in info.subs
             THEN reg.subscribers[n] \cup {info.id} ELSE reg.subscribers[n]
      /\ new.observers = IF info.mode = "observer"
                           THEN reg.observers \cup {info.id} ELSE reg.observers
  BY <1>1, <1>2 DEF Store
<1> HIDE DEF new
<1>5. ASSUME NEW s \in Sessions, new.bySession[s] # None
      PROVE  /\ new.bySession[s].session = s
             /\ new.byInstance[new.bySession[s].id] = new.bySession[s]
  <2>1. CASE s = info.session
    BY <1>2, <1>4, <2>1
  <2>2. CASE s # info.session
    <3> DEFINE e == reg.bySession[s]
    <3>1. new.bySession[s] = e
      BY <1>4, <2>2
    <3>2. e \in Info /\ e.session = s /\ reg.byInstance[e.id] = e /\ e.id \in Ids
      BY <1>1, <1>5, <3>1 DEF Sound, TwoViews, Info
    <3>3. e.id # info.id
      BY <3>2, InfoIsSome
    <3> QED BY <1>4, <3>1, <3>2, <3>3
  <2> QED BY <2>1, <2>2
<1>6. ASSUME NEW i \in Ids, new.byInstance[i] # None
      PROVE  /\ new.byInstance[i].id = i
             /\ new.bySession[new.byInstance[i].session] = new.byInstance[i]
  <2>1. CASE i = info.id
    BY <1>2, <1>4, <2>1
  <2>2. CASE i # info.id
    <3> DEFINE e == reg.byInstance[i]
    <3>1. new.byInstance[i] = e
      BY <1>4, <2>2
    <3>2. e \in Info /\ e.id = i /\ reg.bySession[e.session] = e /\ e.session \in Sessions
      BY <1>1, <1>6, <3>1 DEF Sound, TwoViews, Info
    <3>3. e.session # info.session
      BY <3>2, InfoIsSome
    <3> QED BY <1>4, <3>1, <3>2, <3>3
  <2> QED BY <2>1, <2>2
<1>7. TwoViews(new)
  BY <1>5, <1>6 DEF TwoViews
<1>8. Indexed(new)
  <2>1. ASSUME NEW n \in Schemas, NEW i \in Ids
        PROVE  i \in new.subscribers[n] <=>
                 /\ new.byInstance[i] # None
                 /\ new.byInstance[i].mode = "handler"
                 /\ n \in new.byInstance[i].subs
    <3>1. i \in reg.subscribers[n] <=>
            /\ reg.byInstance[i] # None
            /\ reg.byInstance[i].mode = "handler"
            /\ n \in reg.byInstance[i].subs
      BY DEF Sound, Indexed
    <3>2. CASE i = info.id
      BY <1>2, <1>4, <3>1, <3>2
    <3>3. CASE i # info.id
      <4>1. new.byInstance[i] = reg.byInstance[i]
        BY <1>4, <3>3
      <4>2. i \in new.subscribers[n] <=> i \in reg.subscribers[n]
        <5>1. new.subscribers[n] = IF info.mode = "handler" /\ n \in info.subs
                                     THEN reg.subscribers[n] \cup {info.id}
                                     ELSE reg.subscribers[n]
          BY <1>4
        <5>2. CASE info.mode = "handler" /\ n \in info.subs
          BY <3>3, <5>1, <5>2
        <5>3. CASE ~(info.mode = "handler" /\ n \in info.subs)
          <6>1. new.subscribers[n] = reg.subscribers[n]
            BY <5>1, <5>3
          <6> QED BY <6>1
        <5> QED BY <5>2, <5>3
      <4> QED BY <3>1, <4>1, <4>2
    <3> QED BY <3>2, <3>3
  <2>2. ASSUME NEW i \in Ids
        PROVE  i \in new.observers <=>
                 new.byInstance[i] # None /\ new.byInstance[i].mode = "observer"
    <3>1. i \in reg.observers <=>
            reg.byInstance[i] # None /\ reg.byInstance[i].mode = "observer"
      BY DEF Sound, Indexed
    <3> QED BY <1>2, <1>4, <3>1
  <2>3. \A n \in Schemas : new.subscribers[n] \subseteq Ids
    BY <1>3 DEF RegistryState
  <2>4. new.observers \subseteq Ids
    BY <1>3 DEF RegistryState
  <2> QED BY <2>1, <2>2, <2>3, <2>4 DEF Indexed
<1> QED BY <1>3, <1>7, <1>8 DEF Sound, new

(***************************************************************************)
(* register_info: detach whoever has the id, detach whatever the session   *)
(* has, store.  What it does to the names follows from the same two steps. *)
(***************************************************************************)
Freed(reg, info) == Detach(reg, {reg.byInstance[info.id]} \ {None})
Free(reg, info) ==
  LET freed == Freed(reg, info)
  IN  Detach(freed, {freed.bySession[info.session]} \ {None})

\* Before it stores, RegisterInfo has made the id and the session free.
LEMMA FreeIsFree ==
  ASSUME NEW reg, Sound(reg), NEW info \in Info
  PROVE  /\ Sound(Freed(reg, info))
         /\ Sound(Free(reg, info))
         /\ Free(reg, info).byInstance[info.id] = None
         /\ Free(reg, info).bySession[info.session] = None
<1> DEFINE freed == Freed(reg, info)
<1>1. info.id \in Ids /\ info.session \in Sessions
  BY DEF Info
<1>2. Sound(freed)
  BY <1>1, FoundByInstance, DetachSound DEF Freed
<1>3. Sound(Free(reg, info))
  <2> HIDE DEF freed
  <2>1. Sound(Detach(freed, {freed.bySession[info.session]} \ {None}))
    BY <1>1, <1>2, FoundBySession, DetachSound
  <2> QED BY <2>1 DEF Free, freed
<1>4. freed.byInstance[info.id] = None
  <2>1. reg.byInstance[info.id] # None => reg.byInstance[info.id].id = info.id
    BY <1>1 DEF Sound, TwoViews
  <2> QED BY <1>1, <2>1 DEF Freed, Detach
<1>5. freed.bySession[info.session] # None
        => freed.bySession[info.session].session = info.session
  BY <1>1, <1>2 DEF Sound, TwoViews
<1>6. Free(reg, info).byInstance[info.id] = None
  <2> HIDE DEF freed
  <2>1. Detach(freed, {freed.bySession[info.session]} \ {None}).byInstance[info.id] = None
    BY <1>1, <1>4 DEF Detach
  <2> QED BY <2>1 DEF Free, freed
<1>7. Free(reg, info).bySession[info.session] = None
  <2> HIDE DEF freed
  <2>1. Detach(freed, {freed.bySession[info.session]} \ {None}).bySession[info.session] = None
    BY <1>1, <1>5 DEF Detach
  <2> QED BY <2>1 DEF Free, freed
<1> QED BY <1>2, <1>3, <1>6, <1>7

\* Registering keeps a registry sound.
LEMMA RegisterSound ==
  ASSUME NEW reg, Sound(reg), NEW info \in Info
  PROVE  Sound(RegisterInfo(reg, info))
<1>1. Sound(Store(Free(reg, info), info))
  BY FreeIsFree, StoreSound
<1> QED BY <1>1 DEF RegisterInfo, Free, Freed

\* Unregistering a session keeps a registry sound.
LEMMA UnregisterSound ==
  ASSUME NEW reg, Sound(reg), NEW s \in Sessions
  PROVE  Sound(UnregisterSession(reg, s))
  BY FoundBySession, DetachSound DEF UnregisterSession

\* A new last_seen keeps a registry sound.
LEMMA SetSeenSound ==
  ASSUME NEW reg, Sound(reg), NEW i \in Ids, NEW seen \in {"recent", "old"}
  PROVE  Sound(SetSeen(reg, i, seen))
<1>1. CASE reg.byInstance[i] = None
  BY <1>1 DEF SetSeen
<1>2. CASE reg.byInstance[i] # None
  <2> DEFINE old == reg.byInstance[i]
             info == [old EXCEPT !.seen = seen]
             new == SetSeen(reg, i, seen)
  <2>1. /\ reg.bySession \in [Sessions -> Info \cup {None}]
        /\ reg.byInstance \in [Ids -> Info \cup {None}]
    BY DEF Sound, RegistryState
  <2>2. old \in Info /\ old.id = i /\ old.session \in Sessions /\ reg.bySession[old.session] = old
    BY <1>2, <2>1 DEF Sound, TwoViews, Info
  <2>3. /\ info \in Info /\ info # None
        /\ info.id = i /\ info.session = old.session
        /\ info.mode = old.mode /\ info.subs = old.subs
    BY <2>2, InfoIsSome DEF Info
  <2>4. /\ new \in RegistryState
        /\ \A s \in Sessions : new.bySession[s] =
             IF s = old.session THEN info ELSE reg.bySession[s]
        /\ \A j \in Ids : new.byInstance[j] = IF j = i THEN info ELSE reg.byInstance[j]
        /\ new.subscribers = reg.subscribers
        /\ new.observers = reg.observers
    <3> HIDE DEF info
    <3>1. new = [reg EXCEPT !.byInstance[i] = info, !.bySession[info.session] = info]
      BY <1>2 DEF SetSeen, info
    <3> HIDE DEF new, old
    <3>2. reg \in RegistryState
      BY DEF Sound
    <3>3. /\ new.byInstance = [reg.byInstance EXCEPT ![i] = info]
          /\ new.bySession = [reg.bySession EXCEPT ![old.session] = info]
          /\ new.subscribers = reg.subscribers
          /\ new.observers = reg.observers
      BY <2>3, <3>1, <3>2 DEF RegistryState
    <3>4. new \in RegistryState
      <4>1. /\ new.byInstance \in [Ids -> Info \cup {None}]
            /\ new.bySession \in [Sessions -> Info \cup {None}]
        BY <2>1, <2>3, <3>3
      <4>2. new = [bySession |-> new.bySession, byInstance |-> new.byInstance,
                   subscribers |-> new.subscribers, observers |-> new.observers]
        BY <3>1, <3>2 DEF RegistryState
      <4> QED BY <3>2, <3>3, <4>1, <4>2 DEF RegistryState
    <3> QED BY <2>1, <2>2, <2>3, <3>3, <3>4
  <2> HIDE DEF old, info, new
  <2>5. TwoViews(new)
    <3>1. ASSUME NEW s \in Sessions, new.bySession[s] # None
          PROVE  /\ new.bySession[s].session = s
                 /\ new.byInstance[new.bySession[s].id] = new.bySession[s]
      <4>1. CASE s = old.session
        BY <2>3, <2>4, <4>1
      <4>2. CASE s # old.session
        <5>1. /\ new.bySession[s] = reg.bySession[s]
              /\ reg.bySession[s].session = s
              /\ reg.byInstance[reg.bySession[s].id] = reg.bySession[s]
              /\ reg.bySession[s].id \in Ids
          BY <2>1, <2>4, <3>1, <4>2 DEF Sound, TwoViews, Info
        <5>2. reg.bySession[s].id # i
          BY <4>2, <5>1 DEF old
        <5> QED BY <2>4, <5>1, <5>2
      <4> QED BY <4>1, <4>2
    <3>2. ASSUME NEW j \in Ids, new.byInstance[j] # None
          PROVE  /\ new.byInstance[j].id = j
                 /\ new.bySession[new.byInstance[j].session] = new.byInstance[j]
      <4>1. CASE j = i
        BY <2>2, <2>3, <2>4, <4>1
      <4>2. CASE j # i
        <5>1. /\ new.byInstance[j] = reg.byInstance[j]
              /\ reg.byInstance[j].id = j
              /\ reg.bySession[reg.byInstance[j].session] = reg.byInstance[j]
              /\ reg.byInstance[j].session \in Sessions
          BY <2>1, <2>4, <3>2, <4>2 DEF Sound, TwoViews, Info
        <5>2. reg.byInstance[j].session # old.session
          BY <2>2, <4>2, <5>1
        <5> QED BY <2>4, <5>1, <5>2
      <4> QED BY <4>1, <4>2
    <3> QED BY <3>1, <3>2 DEF TwoViews
  <2>6. Indexed(new)
    <3>1. \A j \in Ids : /\ new.byInstance[j] # None <=> reg.byInstance[j] # None
                         /\ new.byInstance[j] # None =>
                              /\ new.byInstance[j].mode = reg.byInstance[j].mode
                              /\ new.byInstance[j].subs = reg.byInstance[j].subs
      BY <1>2, <2>3, <2>4 DEF old
    <3> QED BY <2>4, <3>1 DEF Sound, Indexed
  <2> QED BY <2>4, <2>5, <2>6 DEF Sound, new
<1> QED BY <1>1, <1>2
-------------------------------------------------------------------------------
(***************************************************************************)
(* What the operations do to the names of the sessions.                    *)
(***************************************************************************)
\* The name of a session is an instance id or None.
LEMMA NameType ==
  ASSUME NEW reg, Sound(reg), NEW s \in Sessions
  PROVE  /\ NameIn(reg)[s] \in Ids \cup {None}
         /\ NameIn(reg)[s] # None <=> reg.bySession[s] # None
         /\ reg.bySession[s] # None => NameIn(reg)[s] = reg.bySession[s].id
<1>1. reg.bySession[s] \in Info \cup {None}
  BY DEF Sound, RegistryState
<1>2. reg.bySession[s] # None => reg.bySession[s].id \in Ids
  BY <1>1 DEF Info
<1> QED BY <1>1, <1>2, IdIsSome DEF NameIn

\* Detaching takes the names of the detached sessions, and no other.
LEMMA DetachNames ==
  ASSUME NEW reg, NEW gone
  PROVE  NameIn(Detach(reg, gone)) =
           [s \in Sessions |-> IF \E x \in gone : x.session = s
                                 THEN None ELSE NameIn(reg)[s]]
  BY DEF NameIn, Detach

\* Storing gives the session the id.
LEMMA StoreNames ==
  ASSUME NEW reg, Sound(reg), NEW info \in Info
  PROVE  NameIn(Store(reg, info)) =
           [s \in Sessions |-> IF s = info.session THEN info.id ELSE NameIn(reg)[s]]
<1>1. reg.bySession \in [Sessions -> Info \cup {None}]
  BY DEF Sound, RegistryState
<1>2. \A s \in Sessions : Store(reg, info).bySession[s] =
        IF s = info.session THEN info ELSE reg.bySession[s]
  BY <1>1 DEF Store
<1> QED BY <1>2, InfoIsSome DEF NameIn

\* Registering is Claim: the session has the id, and who had it has none.
LEMMA RegisterClaims ==
  ASSUME NEW reg, Sound(reg), NEW info \in Info
  PROVE  NameIn(RegisterInfo(reg, info)) =
           [s \in Sessions |-> IF s = info.session THEN info.id
                               ELSE IF NameIn(reg)[s] = info.id THEN None
                               ELSE NameIn(reg)[s]]
<1> DEFINE freed == Freed(reg, info)
           free  == Free(reg, info)
<1>1. info.id \in Ids /\ info.session \in Sessions
  BY DEF Info
<1>2. Sound(freed) /\ Sound(free)
  BY FreeIsFree
<1>3. ASSUME NEW s \in Sessions
      PROVE  NameIn(freed)[s] = IF NameIn(reg)[s] = info.id THEN None ELSE NameIn(reg)[s]
  <2> DEFINE holder == reg.byInstance[info.id]
  <2>1. NameIn(freed)[s] = IF \E x \in {holder} \ {None} : x.session = s
                             THEN None ELSE NameIn(reg)[s]
    BY DetachNames DEF Freed
  <2>2. NameIn(reg)[s] = info.id <=> holder # None /\ holder.session = s
    <3>1. NameIn(reg)[s] = info.id => holder # None /\ holder.session = s
      BY <1>1, NameType, IdIsSome DEF Sound, TwoViews
    <3>2. holder # None /\ holder.session = s => NameIn(reg)[s] = info.id
      BY <1>1, NameType DEF Sound, TwoViews
    <3> QED BY <3>1, <3>2
  <2> QED BY <2>1, <2>2
<1>4. ASSUME NEW s \in Sessions, s # info.session
      PROVE  NameIn(free)[s] = NameIn(freed)[s]
  <2>1. freed.bySession[info.session] # None
          => freed.bySession[info.session].session = info.session
    BY <1>1, <1>2 DEF Sound, TwoViews
  <2> HIDE DEF freed
  <2>2. NameIn(Detach(freed, {freed.bySession[info.session]} \ {None}))[s]
          = NameIn(freed)[s]
    BY <1>4, <2>1, DetachNames
  <2> QED BY <2>2 DEF Free, freed
<1>5. NameIn(RegisterInfo(reg, info)) =
        [s \in Sessions |-> IF s = info.session THEN info.id ELSE NameIn(free)[s]]
  <2>1. RegisterInfo(reg, info) = Store(free, info)
    BY DEF RegisterInfo, Free, Freed
  <2> HIDE DEF free
  <2> QED BY <1>2, <2>1, StoreNames
<1> HIDE DEF freed, free
<1> QED BY <1>3, <1>4, <1>5

\* A new last_seen changes no name.
LEMMA SetSeenNames ==
  ASSUME NEW reg, Sound(reg), NEW i \in Ids, NEW seen \in {"recent", "old"}
  PROVE  NameIn(SetSeen(reg, i, seen)) = NameIn(reg)
<1>1. CASE reg.byInstance[i] = None
  BY <1>1 DEF SetSeen
<1>2. CASE reg.byInstance[i] # None
  <2> DEFINE old == reg.byInstance[i]
             info == [old EXCEPT !.seen = seen]
  <2>1. /\ reg.bySession \in [Sessions -> Info \cup {None}]
        /\ reg.byInstance \in [Ids -> Info \cup {None}]
        /\ reg \in RegistryState
    BY DEF Sound, RegistryState
  <2>2. /\ old \in Info /\ old.session \in Sessions
        /\ reg.bySession[old.session] = old
    BY <1>2, <2>1 DEF Sound, TwoViews, Info
  <2>3. info \in Info /\ info # None /\ info.id = old.id /\ info.session = old.session
    BY <2>2, InfoIsSome DEF Info
  <2>4. SetSeen(reg, i, seen)
          = [reg EXCEPT !.byInstance[i] = info, !.bySession[info.session] = info]
    BY <1>2 DEF SetSeen
  <2> HIDE DEF info, old
  <2>5. SetSeen(reg, i, seen).bySession = [reg.bySession EXCEPT ![old.session] = info]
    BY <2>1, <2>3, <2>4 DEF RegistryState
  <2>6. \A s \in Sessions : SetSeen(reg, i, seen).bySession[s] =
          IF s = old.session THEN info ELSE reg.bySession[s]
    BY <2>1, <2>5
  <2> QED BY <2>2, <2>3, <2>6, InfoIsSome DEF NameIn
<1> QED BY <1>1, <1>2

-------------------------------------------------------------------------------
(***************************************************************************)
(* The schema table.                                                       *)
(***************************************************************************)
HeldTable(t) ==
  /\ t \in SchemaTable
  /\ \A n \in Permanent : t.entry[n] = Shipped[n] /\ t.refs[n] = {}
  /\ \A n \in Schemas \ Permanent : t.entry[n] # None <=> t.refs[n] # {}

\* The table as it is loaded.
LEMMA ShippedHeld == HeldTable([entry |-> Shipped, refs |-> [n \in Schemas |-> {}]])
  BY DirectoryAssumption DEF HeldTable, SchemaTable, Permanent, Holders

\* Releasing drops exactly what nobody else holds.
LEMMA ReleaseHeld ==
  ASSUME NEW t, HeldTable(t), NEW who
  PROVE  HeldTable(ReleaseHolders(t, who))
<1> DEFINE new == ReleaseHolders(t, who)
<1>1. /\ t.entry \in [Schemas -> Entry \cup {None}]
      /\ t.refs \in [Schemas -> SUBSET Holders]
  BY DEF HeldTable, SchemaTable
<1>2. /\ new \in SchemaTable
      /\ \A n \in Schemas :
           /\ new.entry[n] = IF t.refs[n] # {} /\ t.refs[n] \subseteq who
                               THEN None ELSE t.entry[n]
           /\ new.refs[n] = t.refs[n] \ who
  BY <1>1 DEF ReleaseHolders, SchemaTable
<1> HIDE DEF new
<1>3. \A n \in Permanent : new.entry[n] = Shipped[n] /\ new.refs[n] = {}
  BY <1>2 DEF HeldTable, Permanent
<1>4. ASSUME NEW n \in Schemas \ Permanent
      PROVE  new.entry[n] # None <=> new.refs[n] # {}
  BY <1>2 DEF HeldTable
<1> QED BY <1>2, <1>3, <1>4 DEF HeldTable, new

\* A holder of a new entry or of an old one keeps the table consistent.
LEMMA AddHeld ==
  ASSUME NEW t, HeldTable(t), NEW offered \in [Schemas -> Entry \cup {None}],
         NEW who \in Holders
  PROVE  HeldTable(AddHolder(t, offered, who))
<1> DEFINE new == AddHolder(t, offered, who)
<1>1. /\ t.entry \in [Schemas -> Entry \cup {None}]
      /\ t.refs \in [Schemas -> SUBSET Holders]
  BY DEF HeldTable, SchemaTable
<1>2. /\ new \in SchemaTable
      /\ \A n \in Schemas :
           /\ new.entry[n] = IF t.entry[n] = None THEN offered[n] ELSE t.entry[n]
           /\ new.refs[n] = IF offered[n] # None /\ n \notin Permanent
                              THEN t.refs[n] \cup {who} ELSE t.refs[n]
  BY <1>1 DEF AddHolder, SchemaTable
<1> HIDE DEF new
<1>3. \A n \in Permanent : new.entry[n] = Shipped[n] /\ new.refs[n] = {}
  BY <1>2 DEF HeldTable, Permanent
<1>4. ASSUME NEW n \in Schemas \ Permanent
      PROVE  new.entry[n] # None <=> new.refs[n] # {}
  <2>1. CASE offered[n] # None
    BY <1>2, <2>1 DEF HeldTable
  <2>2. CASE offered[n] = None
    BY <1>2, <2>2 DEF HeldTable
  <2> QED BY <2>1, <2>2
<1> QED BY <1>2, <1>3, <1>4 DEF HeldTable, new

\* A subscriber's reference keeps the table consistent.
LEMMA AcquireHeld ==
  ASSUME NEW t, HeldTable(t), NEW names \in SUBSET Schemas, NEW who \in Holders
  PROVE  HeldTable(AcquireRefs(t, names, who))
<1> DEFINE new == AcquireRefs(t, names, who)
<1>1. /\ t.entry \in [Schemas -> Entry \cup {None}]
      /\ t.refs \in [Schemas -> SUBSET Holders]
      /\ t \in SchemaTable
  BY DEF HeldTable, SchemaTable
<1>2. /\ new.entry = t.entry
      /\ new.refs = [n \in Schemas |-> IF n \in names \ Permanent /\ t.entry[n] # None
                                         THEN t.refs[n] \cup {who} ELSE t.refs[n]]
      /\ new = [entry |-> new.entry, refs |-> new.refs]
  <2> DEFINE R == [n \in Schemas |-> IF n \in names \ Permanent /\ t.entry[n] # None
                                       THEN t.refs[n] \cup {who} ELSE t.refs[n]]
  <2>1. new = [t EXCEPT !.refs = R]
    BY DEF AcquireRefs
  <2> HIDE DEF R, new
  <2>2. new.entry = t.entry /\ new.refs = R /\ new = [entry |-> new.entry, refs |-> new.refs]
    BY <1>1, <2>1 DEF SchemaTable
  <2> QED BY <2>2 DEF R
<1> HIDE DEF new
<1>3. new \in SchemaTable
  <2>1. new.refs \in [Schemas -> SUBSET Holders]
    BY <1>1, <1>2
  <2> QED BY <1>1, <1>2, <2>1 DEF SchemaTable
<1>4. \A n \in Permanent : new.entry[n] = Shipped[n] /\ new.refs[n] = {}
  BY <1>2 DEF HeldTable, Permanent
<1>5. ASSUME NEW n \in Schemas \ Permanent
      PROVE  new.entry[n] # None <=> new.refs[n] # {}
  BY <1>2 DEF HeldTable
<1> QED BY <1>3, <1>4, <1>5 DEF HeldTable, new
-------------------------------------------------------------------------------
(***************************************************************************)
(* The inductive invariant, and the steps.                                 *)
(***************************************************************************)
IInv == Sound(workers) /\ Sound(bots) /\ HeldTable(table)

\* a step of Names, or none
NameStep(old, new) ==
  \/ new = old
  \/ \E s \in Sessions, i \in Ids :
       new = [t \in Sessions |-> IF t = s THEN i
                                 ELSE IF old[t] = i THEN None ELSE old[t]]
  \/ \E gone \in SUBSET Sessions :
       new = [s \in Sessions |-> IF s \in gone THEN None ELSE old[s]]

\* a registry stays sound and takes a step of Names
RegistryStep(old, new) == Sound(new) /\ NameStep(NameIn(old), NameIn(new))

\* Registering is a step of Names.
LEMMA RegisterStep ==
  ASSUME NEW reg, Sound(reg), NEW info \in Info
  PROVE  RegistryStep(reg, RegisterInfo(reg, info))
<1>1. info.id \in Ids /\ info.session \in Sessions
  BY DEF Info
<1> QED BY <1>1, RegisterSound, RegisterClaims DEF RegistryStep, NameStep

\* Detaching registered entries is a step of Names.
LEMMA DetachStep ==
  ASSUME NEW reg, Sound(reg), NEW gone, Present(reg, gone)
  PROVE  RegistryStep(reg, Detach(reg, gone))
<1> DEFINE sessions == {s \in Sessions : \E x \in gone : x.session = s}
<1>1. NameIn(Detach(reg, gone)) =
        [s \in Sessions |-> IF s \in sessions THEN None ELSE NameIn(reg)[s]]
  BY DetachNames
<1>2. sessions \in SUBSET Sessions
  OBVIOUS
<1>3. NameStep(NameIn(reg), NameIn(Detach(reg, gone)))
  BY <1>1, <1>2 DEF NameStep
<1> QED BY <1>3, DetachSound DEF RegistryStep

\* So is unregistering a session.
LEMMA UnregisterStep ==
  ASSUME NEW reg, Sound(reg), NEW s \in Sessions
  PROVE  RegistryStep(reg, UnregisterSession(reg, s))
  BY FoundBySession, DetachStep DEF UnregisterSession

\* A new last_seen is a stutter of Names.
LEMMA SetSeenStep ==
  ASSUME NEW reg, Sound(reg), NEW i \in Ids, NEW seen \in {"recent", "old"}
  PROVE  RegistryStep(reg, SetSeen(reg, i, seen))
  BY SetSeenSound, SetSeenNames DEF RegistryStep, NameStep

\* So is leaving the registry alone.
LEMMA IdleStep ==
  ASSUME NEW reg, Sound(reg)
  PROVE  RegistryStep(reg, reg)
  BY DEF RegistryStep, NameStep

\* A restart gives up every name.
LEMMA RestartStep ==
  ASSUME NEW reg, Sound(reg)
  PROVE  RegistryStep(reg, EmptyRegistry)
<1>1. NameIn(EmptyRegistry) =
        [s \in Sessions |-> IF s \in Sessions THEN None ELSE NameIn(reg)[s]]
  BY DEF NameIn, EmptyRegistry
<1> QED BY <1>1, EmptySound DEF RegistryStep, NameStep

\* Whoever registers a schema is known by an id or by the session.
LEMMA HolderType ==
  ASSUME IInv, NEW s \in Sessions
  PROVE  HolderOf(s) \in Holders
  BY NameType DEF IInv, HolderOf, Holders

\* The steps of every action, as one fact.
Preserved == /\ RegistryStep(workers, workers')
             /\ RegistryStep(bots, bots')
             /\ HeldTable(table')

\* Every action keeps both registries and the table sound, and maps to a step or
\* a stutter of Names.
LEMMA NextPreserves ==
  ASSUME IInv, [Next]_vars
  PROVE  Preserved
<1> USE DEF IInv, Preserved
<1>1. ASSUME NEW s \in Clients, NEW i \in WorkerIds, Register(s, i) \/ AutoRegister(s, i)
      PROVE  Preserved
  <2>1. WorkerInfo(s, i) \in Info
    BY DirectoryAssumption DEF WorkerInfo, Info, Clients
  <2> QED BY <1>1, <2>1, RegisterStep, IdleStep DEF Register, AutoRegister
<1>2. ASSUME NEW o \in Operators, RegisterOperator(o)
      PROVE  Preserved
  <2>1. WorkerInfo(o, o) \in Info
    BY DirectoryAssumption DEF WorkerInfo, Info
  <2> QED BY <1>2, <2>1, RegisterStep, IdleStep DEF RegisterOperator
<1>3. ASSUME NEW s \in Clients, NEW r \in SchemaRequests, RegisterSchema(s, r)
      PROVE  Preserved
  <2> DEFINE offered == [n \in Schemas |-> IF n = r.name
                                             THEN [body |-> r.body, kind |-> r.kind]
                                             ELSE None]
  <2>1. r.body \in Bodies /\ r.kind \in Kind
    BY DirectoryAssumption DEF SchemaRequestType
  <2>2. offered \in [Schemas -> Entry \cup {None}]
    BY <2>1 DEF Entry
  <2>3. HolderOf(s) \in Holders
    BY HolderType DEF Clients
  <2>4. table' = AddHolder(table, offered, HolderOf(s))
    BY <1>3 DEF RegisterSchema
  <2> HIDE DEF offered
  <2>5. HeldTable(table')
    BY <2>2, <2>3, <2>4, AddHeld
  <2> QED BY <1>3, <2>5, IdleStep DEF RegisterSchema
<1>4. ASSUME NEW s \in Clients, NEW i \in BotIds, NEW b \in BotRequests,
             RegisterBot(s, i, b)
      PROVE  Preserved
  <2> DEFINE info  == BotInfo(s, i, b)
             freed == WithoutPrior(i)
             added == AddHolder(freed, InlineEntries(b), i)
  <2>1. b \in BotRequestType /\ i \in Ids /\ s \in Sessions /\ i \in Holders
    BY DirectoryAssumption DEF Clients, Holders
  <2>2. info \in Info /\ info.subs \in SUBSET Schemas
    BY <2>1 DEF BotInfo, Info, BotRequestType
  <2>3. InlineEntries(b) \in [Schemas -> Entry \cup {None}]
    <3>1. \A n \in Schemas : b.inline[n] \in Bodies \cup {None}
      BY <1>4, <2>1 DEF RegisterBot, BotRequestType
    <3> QED BY <3>1 DEF InlineEntries, Entry, Kind
  <2>4. HeldTable(freed)
    BY ReleaseHeld DEF WithoutPrior
  <2>5. /\ bots' = RegisterInfo(bots, info)
        /\ table' = AcquireRefs(added, info.subs, i)
        /\ workers' = workers
    BY <1>4 DEF RegisterBot
  <2> HIDE DEF info, freed
  <2>6. HeldTable(added)
    BY <2>1, <2>3, <2>4, AddHeld
  <2> HIDE DEF added
  <2>7. HeldTable(table')
    BY <2>1, <2>2, <2>5, <2>6, AcquireHeld
  <2> QED BY <2>2, <2>5, <2>7, RegisterStep, IdleStep
<1>5. ASSUME NEW s \in Clients, NEW i \in BotIds, NEW b \in BotRequests,
             RegisterBotFails(s, i, b)
      PROVE  Preserved
  BY <1>5, ReleaseHeld, IdleStep DEF RegisterBotFails
<1>6. ASSUME NEW s \in Clients, Unregister(s)
      PROVE  Preserved
  BY <1>6, ReleaseHeld, UnregisterStep DEF Unregister, Clients
<1>7. ASSUME NEW i \in Ids, OperatorUnregister(i)
      PROVE  Preserved
  <2> DEFINE s == IF workers.byInstance[i] # None THEN workers.byInstance[i].session
                                                  ELSE bots.byInstance[i].session
  <2>1. s \in Sessions
    BY <1>7 DEF OperatorUnregister, Sound, RegistryState, Info
  <2>2. /\ workers' = UnregisterSession(workers, s)
        /\ bots' = UnregisterSession(bots, s)
        /\ table' = ReleaseHolders(table, {i})
    BY <1>7 DEF OperatorUnregister
  <2> HIDE DEF s
  <2> QED BY <2>1, <2>2, ReleaseHeld, UnregisterStep
<1>8. ASSUME NEW i \in Ids, Touch(i)
      PROVE  Preserved
  BY <1>8, SetSeenStep, IdleStep DEF Touch
<1>9. ASSUME NEW i \in Ids, Forget(i)
      PROVE  Preserved
  BY <1>9, SetSeenStep, IdleStep DEF Forget
<1>10. ASSUME Sweep
       PROVE  Preserved
  <2>1. Present(workers, DeadSessions) /\ Present(bots, DeadBots)
    BY FoundInList DEF DeadSessions, DeadBots
  <2> QED BY <1>10, <2>1, DetachStep, ReleaseHeld DEF Sweep
<1>11. ASSUME Restart
       PROVE  Preserved
  BY <1>11, RestartStep, ShippedHeld DEF Restart
<1>12. ASSUME UNCHANGED vars
       PROVE  Preserved
  BY <1>12, IdleStep DEF vars
<1> QED BY <1>1, <1>2, <1>3, <1>4, <1>5, <1>6, <1>7, <1>8, <1>9, <1>10, <1>11, <1>12
        DEF Next

\* The invariant is inductive.
LEMMA NextIInv ==
  ASSUME IInv, [Next]_vars
  PROVE  IInv'
  BY NextPreserves DEF Preserved, RegistryStep, IInv

\* It holds at the start.
LEMMA InitIInv == Init => IInv
  BY EmptySound, ShippedHeld DEF Init, IInv

\* The invariant holds in every reachable state.
THEOREM InvariantHolds == Spec => []IInv
<1>1. IInv /\ [Next]_vars => IInv'
  BY NextIInv
<1> QED BY InitIInv, <1>1, PTL DEF Spec

\* Type correctness of the registries and of the schema table.
THEOREM DirectoryTypeCorrect == Spec => []TypeOK
<1>1. IInv => TypeOK
  BY DEF IInv, Sound, HeldTable, TypeOK
<1> QED BY InvariantHolds, <1>1, PTL

\* The two dictionaries of each registry agree for ever: no sequence of
\* registrations, unregisters and sweeps leaves one with an entry of its own.
THEOREM RegistriesStayAgreed == Spec => []RegistriesAgree
<1>1. IInv => RegistriesAgree
  BY DEF IInv, Sound, RegistriesAgree
<1> QED BY InvariantHolds, <1>1, PTL

\* Routing reads indexes that list the registered bots and nobody else.
THEOREM RoutesStayAgreed == Spec => []RoutesAgree
<1>1. IInv => RoutesAgree
  BY DEF IInv, Sound, RoutesAgree
<1> QED BY InvariantHolds, <1>1, PTL

\* A schema exists exactly as long as it has a holder, or is a shipped one.
THEOREM SchemasStayHeld == Spec => []SchemasAreHeld
<1>1. IInv => SchemasAreHeld
  BY DEF IInv, HeldTable, SchemasAreHeld
<1> QED BY InvariantHolds, <1>1, PTL

\* Both registries implement Names: the last session to claim an id has it.
THEOREM RegistriesImplementNames == Spec => LastClaimWins
<1>1. Init => WorkerNames!Init /\ BotNames!Init
  BY DEF Init, WorkerNames!Init, BotNames!Init, NameIn, EmptyRegistry
<1>2. IInv /\ [Next]_vars => [WorkerNames!Next]_(NameIn(workers))
  <2> SUFFICES ASSUME IInv, [Next]_vars
               PROVE  [WorkerNames!Next]_(NameIn(workers))
    OBVIOUS
  <2>1. NameStep(NameIn(workers), NameIn(workers'))
    BY NextPreserves DEF Preserved, RegistryStep
  <2> QED BY <2>1 DEF NameStep, WorkerNames!Next, WorkerNames!Claim, WorkerNames!GiveUp
<1>3. IInv /\ [Next]_vars => [BotNames!Next]_(NameIn(bots))
  <2> SUFFICES ASSUME IInv, [Next]_vars
               PROVE  [BotNames!Next]_(NameIn(bots))
    OBVIOUS
  <2>1. NameStep(NameIn(bots), NameIn(bots'))
    BY NextPreserves DEF Preserved, RegistryStep
  <2> QED BY <2>1 DEF NameStep, BotNames!Next, BotNames!Claim, BotNames!GiveUp
<1> QED BY InvariantHolds, <1>1, <1>2, <1>3, PTL
        DEF Spec, LastClaimWins, WorkerNames!Spec, BotNames!Spec

\* A step changes the body of no schema that exists before and after it.
LEMMA NextKeepsBodies ==
  ASSUME Next, NEW n \in Schemas,
         table.entry[n] # None, table'.entry[n] # None, ~Restart
  PROVE  table'.entry[n].body = table.entry[n].body
<1>1. ASSUME NEW who, NEW t
      PROVE  /\ ReleaseHolders(t, who).entry[n] \in {None, t.entry[n]}
  BY DEF ReleaseHolders
<1>2. ASSUME NEW who, NEW t, NEW offered
      PROVE  AddHolder(t, offered, who).entry[n]
               = IF t.entry[n] = None THEN offered[n] ELSE t.entry[n]
  BY DEF AddHolder
<1>3. ASSUME NEW s \in Clients, NEW r \in SchemaRequests, RegisterSchema(s, r)
      PROVE  table'.entry[n].body = table.entry[n].body
  BY <1>2, <1>3 DEF RegisterSchema
<1>4. ASSUME NEW s \in Clients, NEW i \in BotIds, NEW b \in BotRequests,
             RegisterBot(s, i, b)
      PROVE  table'.entry[n].body = table.entry[n].body
  <2> DEFINE freed == WithoutPrior(i)
             added == AddHolder(freed, InlineEntries(b), i)
  <2>1. freed.entry[n] \in {None, table.entry[n]}
    BY <1>1 DEF WithoutPrior
  <2>2. table'.entry[n] = added.entry[n]
    <3>1. table' = AcquireRefs(added, BotInfo(s, i, b).subs, i)
      BY <1>4 DEF RegisterBot
    <3>2. AcquireRefs(added, BotInfo(s, i, b).subs, i).entry = added.entry
      BY DEF AcquireRefs, AddHolder
    <3> QED BY <3>1, <3>2
  <2>3. added.entry[n] = IF freed.entry[n] = None THEN InlineEntries(b)[n]
                                                   ELSE freed.entry[n]
    BY <1>2
  <2> HIDE DEF freed, added
  <2>4. CASE freed.entry[n] = None
    <3>1. InlineEntries(b)[n] # None /\ table'.entry[n] = InlineEntries(b)[n]
      BY <2>2, <2>3, <2>4
    <3>2. b.inline[n] # None /\ table'.entry[n].body = b.inline[n]
      BY <3>1 DEF InlineEntries
    <3> QED BY <1>4, <3>2 DEF RegisterBot, Acceptable
  <2>5. CASE freed.entry[n] # None
    BY <2>1, <2>2, <2>3, <2>5
  <2> QED BY <2>4, <2>5
<1>5. ASSUME NEW s \in Clients, NEW i \in BotIds, NEW b \in BotRequests,
             RegisterBotFails(s, i, b)
      PROVE  table'.entry[n].body = table.entry[n].body
  BY <1>1, <1>5 DEF RegisterBotFails
<1>6. ASSUME NEW s \in Clients, Unregister(s)
      PROVE  table'.entry[n].body = table.entry[n].body
  BY <1>1, <1>6 DEF Unregister
<1>7. ASSUME NEW i \in Ids, OperatorUnregister(i)
      PROVE  table'.entry[n].body = table.entry[n].body
  BY <1>1, <1>7 DEF OperatorUnregister
<1>8. ASSUME Sweep
      PROVE  table'.entry[n].body = table.entry[n].body
  BY <1>1, <1>8 DEF Sweep
<1>9. ASSUME table' = table
      PROVE  table'.entry[n].body = table.entry[n].body
  BY <1>9
<1> QED BY <1>3, <1>4, <1>5, <1>6, <1>7, <1>8, <1>9
        DEF Next, Register, AutoRegister, RegisterOperator, Touch, Forget

\* The body of a schema never changes under those who use it.
THEOREM BodiesStay == Spec => BodiesAreImmutable
<1>1. [Next]_vars => [\A n \in Schemas :
        table.entry[n] # None /\ table'.entry[n] # None
          => \/ table'.entry[n].body = table.entry[n].body
             \/ Restart]_vars
  BY NextKeepsBodies
<1> QED BY <1>1, PTL DEF Spec, BodiesAreImmutable
=============================================================================
