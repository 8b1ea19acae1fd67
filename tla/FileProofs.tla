------------------------------ MODULE FileProofs ------------------------------
(***************************************************************************)
(* Proofs about FileShare, for any number of files, calls and faults: the  *)
(* types with the bound of max_bytes, that what the table lists is on the  *)
(* disk until it expires, and that file.get replaces nothing.              *)
(*                                                                         *)
(* The first two need to say what the disk is in the middle of: an upload  *)
(* whose id is not listed yet, and whose bytes are there when its row is   *)
(* next, or the end of a file that has expired.                            *)
(***************************************************************************)
EXTENDS FileShare, SequenceTheorems, TLAPS

Uploading(id) ==
  /\ storing \in Calls /\ victims = {}
  /\ calls[storing].pc = "sending" /\ calls[storing].total = calls[storing].size
  /\ rows[id] = None
  /\ \/ disk = StoreOps(id)
     \/ disk = <<[do |-> "insert", id |-> id]>> /\ id \in bytes

Reclaiming(id) ==
  /\ storing = None
  /\ id \in old \ victims
  /\ disk = Reclaim(id) \/ disk = <<[do |-> "delete", id |-> id]>>

Working ==
  \/ disk = <<>> /\ storing = None
  \/ \E id \in FileIds : Uploading(id) \/ Reclaiming(id)

IInv == TypeOK /\ ListedIsThere /\ Working /\ old \subseteq expired

-------------------------------------------------------------------------------
\* Only the end of an upload or of a reclaim is under way.
LEMMA WhatIsUnderWay ==
  ASSUME IInv, disk # <<>>
  PROVE  \E id \in FileIds :
           \/ Uploading(id) /\ disk = <<[do |-> "write", id |-> id], [do |-> "insert", id |-> id]>>
           \/ Uploading(id) /\ disk = <<[do |-> "insert", id |-> id]>> /\ id \in bytes
           \/ Reclaiming(id) /\ disk = <<[do |-> "unlink", id |-> id], [do |-> "delete", id |-> id]>>
           \/ Reclaiming(id) /\ disk = <<[do |-> "delete", id |-> id]>>
BY DEF IInv, Working, Uploading, Reclaiming, StoreOps, Reclaim

\* The disk has nothing left to do after one operation.
LEMMA LastOperation ==
  ASSUME NEW op
  PROVE  Head(<<op>>) = op /\ Len(<<op>>) = 1 /\ Tail(<<op>>) = <<>>
OBVIOUS

\* The bytes of an upload are written.
LEMMA WriteStep ==
  ASSUME IInv, Operate, NEW id \in FileIds, Uploading(id),
         disk = <<[do |-> "write", id |-> id], [do |-> "insert", id |-> id]>>
  PROVE  IInv'
<1>1. /\ bytes' = bytes \cup {id} /\ disk' = <<[do |-> "insert", id |-> id]>>
      /\ UNCHANGED <<up, faults, policy, rows, old, handed, expired, victims, storing, calls, local>>
  BY DEF Operate
<1>2. TypeOK'
  BY <1>1 DEF IInv, TypeOK, Op
<1>3. ListedIsThere'
  BY <1>1 DEF IInv, ListedIsThere
<1>4. Uploading(id)'
  BY <1>1 DEF Uploading
<1> QED
  BY <1>1, <1>2, <1>3, <1>4 DEF IInv, Working

\* Its row is inserted, and the id is handed out.
LEMMA InsertStep ==
  ASSUME IInv, Operate, NEW id \in FileIds, Uploading(id),
         disk = <<[do |-> "insert", id |-> id]>>, id \in bytes
  PROVE  IInv'
<1> DEFINE call == calls[storing]
           row == [name |-> call.name, size |-> call.size]
<1>0. Head(disk) = [do |-> "insert", id |-> id] /\ Len(disk) = 1 /\ Tail(disk) = <<>>
  BY LastOperation
<1>1. storing \in Calls /\ storing # None /\ call \in Sending /\ call.total = call.size
  BY FilesAssumption DEF IInv, TypeOK, Uploading, Idle, Getting
<1>2. row \in Row
  BY <1>1 DEF Sending, Row
<1> HIDE DEF row
<1>3. /\ rows' = [rows EXCEPT ![id] = row] /\ disk' = <<>> /\ storing' = None
      /\ handed' = handed \cup {id} /\ calls' = [calls EXCEPT ![storing] = Idle]
      /\ UNCHANGED <<up, faults, policy, bytes, old, expired, victims, local>>
  <2>1. rows' = [rows EXCEPT ![id] = row] /\ bytes' = bytes /\ old' = old
    <3>1. Head(disk).do = "insert" /\ Head(disk).id = id
      BY <1>0
    <3>2. rows' = [rows EXCEPT ![id] = row]
      BY <3>1 DEF Operate, row
    <3>3. bytes' = bytes
      BY <3>1 DEF Operate
    <3>4. old' = old
      BY <3>1 DEF Operate
    <3> QED
      BY <3>2, <3>3, <3>4
  <2>2. /\ disk' = <<>> /\ handed' = handed \cup {id}
        /\ calls' = [calls EXCEPT ![storing] = Idle] /\ storing' = None
    BY <1>1, <1>0 DEF Operate
  <2>3. UNCHANGED <<up, faults, policy, expired, victims, local>>
    BY DEF Operate
  <2> QED
    BY <2>1, <2>2, <2>3
<1>4. id \notin old
  BY DEF IInv, TypeOK, Uploading
<1>5. rows' \in [FileIds -> Row \cup {None}] /\ \A i \in old : rows'[i] # None
  BY <1>2, <1>3, <1>4 DEF IInv, TypeOK
<1>6. /\ calls' \in [Calls -> {Idle} \cup Sending \cup Getting]
      /\ \A c \in Calls : calls'[c].pc = "sending" => calls'[c].total <= calls'[c].size
  BY <1>1, <1>3 DEF IInv, TypeOK, Idle
<1>7. TypeOK'
  BY <1>3, <1>5, <1>6 DEF IInv, TypeOK
<1>8. ListedIsThere'
  <2>1. row # None
    BY <1>2, FilesAssumption DEF Row
  <2>2. rows'[id] = row /\ \A i \in FileIds \ {id} : rows'[i] = rows[i]
    BY <1>3 DEF IInv, TypeOK
  <2> QED
    BY <1>3, <2>1, <2>2 DEF IInv, TypeOK, ListedIsThere
<1> QED
  BY <1>3, <1>7, <1>8 DEF IInv, Working

\* The bytes of a file that has expired are removed.
LEMMA UnlinkStep ==
  ASSUME IInv, Operate, NEW id \in FileIds, Reclaiming(id),
         disk = <<[do |-> "unlink", id |-> id], [do |-> "delete", id |-> id]>>
  PROVE  IInv'
<1>1. /\ bytes' = bytes \ {id} /\ disk' = <<[do |-> "delete", id |-> id]>>
      /\ UNCHANGED <<up, faults, policy, rows, old, handed, expired, victims, storing, calls, local>>
  BY DEF Operate
<1>2. TypeOK'
  BY <1>1 DEF IInv, TypeOK, Op
<1>3. ListedIsThere'
  BY <1>1 DEF IInv, ListedIsThere, Reclaiming
<1>4. Reclaiming(id)'
  BY <1>1 DEF Reclaiming
<1> QED
  BY <1>1, <1>2, <1>3, <1>4 DEF IInv, Working

\* Its row is removed.
LEMMA DeleteStep ==
  ASSUME IInv, Operate, NEW id \in FileIds, Reclaiming(id),
         disk = <<[do |-> "delete", id |-> id]>>
  PROVE  IInv'
<1>0. Head(disk) = [do |-> "delete", id |-> id] /\ Len(disk) = 1 /\ Tail(disk) = <<>>
  BY LastOperation
<1>1. /\ rows' = [rows EXCEPT ![id] = None] /\ old' = old \ {id} /\ disk' = <<>>
      /\ storing = None
      /\ UNCHANGED <<up, faults, policy, bytes, handed, expired, victims, storing, calls, local>>
  <2>1. rows' = [rows EXCEPT ![id] = None] /\ bytes' = bytes /\ old' = old \ {id}
    <3>1. Head(disk).do = "delete" /\ Head(disk).id = id
      BY <1>0
    <3>2. rows' = [rows EXCEPT ![id] = None]
      BY <3>1 DEF Operate
    <3>3. bytes' = bytes
      BY <3>1 DEF Operate
    <3>4. old' = old \ {id}
      BY <3>1 DEF Operate
    <3> QED
      BY <3>2, <3>3, <3>4
  <2>2. storing = None
    BY DEF Reclaiming
  <2>3. disk' = <<>> /\ UNCHANGED <<handed, calls, storing>>
    BY <1>0, <2>2 DEF Operate
  <2>4. UNCHANGED <<up, faults, policy, expired, victims, local>>
    BY DEF Operate
  <2> QED
    BY <2>1, <2>2, <2>3, <2>4
<1>2. id \in expired /\ victims \subseteq old \ {id} /\ \A i \in old \ {id} : rows'[i] = rows[i]
  BY <1>1 DEF IInv, TypeOK, Reclaiming
<1>3. TypeOK'
  BY <1>1, <1>2 DEF IInv, TypeOK
<1>4. ListedIsThere'
  <2>1. \A i \in FileIds \ {id} : rows'[i] = rows[i]
    BY <1>1 DEF IInv, TypeOK
  <2>2. rows'[id] = None
    BY <1>1 DEF IInv, TypeOK
  <2> QED
    BY <1>1, <1>2, <2>1, <2>2 DEF IInv, ListedIsThere, Reclaiming
<1> QED
  BY <1>1, <1>3, <1>4 DEF IInv, Working

\* Every operation on the disk keeps IInv.
LEMMA OperateStep ==
  ASSUME IInv, Operate
  PROVE  IInv'
<1>1. disk # <<>>
  BY DEF Operate
<1> QED
  BY <1>1, WhatIsUnderWay, WriteStep, InsertStep, UnlinkStep, DeleteStep

-------------------------------------------------------------------------------
\* The handlers run while nothing is under way, but for Open and Save, which
\* are of calls that store nothing.
LEMMA IdleDisk ==
  ASSUME IInv, Free
  PROVE  disk = <<>> /\ victims = {} /\ storing = None
BY DEF IInv, Free, Working, Uploading, Reclaiming, StoreOps, Reclaim

\* A call that is not being stored may change its own stage.
LEMMA CallStep ==
  ASSUME IInv, NEW c \in Calls, NEW call \in {Idle} \cup Sending \cup Getting,
         c # storing,
         call.pc = "sending" => call.total <= call.size,
         calls' = [calls EXCEPT ![c] = call],
         local' \in [Workers -> [Names -> FileIds \cup {None}]],
         UNCHANGED <<up, faults, policy, bytes, rows, old, handed, expired, disk, victims, storing>>
  PROVE  IInv'
<1>1. /\ calls' \in [Calls -> {Idle} \cup Sending \cup Getting]
      /\ \A d \in Calls : calls'[d].pc = "sending" => calls'[d].total <= calls'[d].size
      /\ storing # None => calls'[storing] = calls[storing]
  BY DEF IInv, TypeOK
<1>2. TypeOK'
  BY <1>1 DEF IInv, TypeOK
<1>3. ListedIsThere'
  BY DEF IInv, ListedIsThere
<1>4. Working'
  <2>1. CASE disk = <<>> /\ storing = None
    BY <2>1 DEF Working
  <2>2. ASSUME NEW id \in FileIds, Uploading(id) PROVE Uploading(id)'
    BY <1>1, <2>2, FilesAssumption DEF Uploading
  <2>3. ASSUME NEW id \in FileIds, Reclaiming(id) PROVE Reclaiming(id)'
    BY <2>3 DEF Reclaiming
  <2> QED
    BY <2>1, <2>2, <2>3 DEF IInv, Working
<1> QED
  BY <1>2, <1>3, <1>4 DEF IInv

\* Uploads and downloads on their way keep IInv.
LEMMA TransferStep ==
  ASSUME IInv, NEW c \in Calls,
         \/ \E w \in Workers, name \in Names, size \in Sizes : Put(c, w, name, size)
         \/ Receive(c)
         \/ \E w \in Workers, id \in FileIds : Get(c, w, id)
         \/ Open(c) \/ Save(c)
  PROVE  IInv'
<1>0. local \in [Workers -> [Names -> FileIds \cup {None}]]
      /\ calls \in [Calls -> {Idle} \cup Sending \cup Getting]
  BY DEF IInv, TypeOK
<1>1. ASSUME NEW w \in Workers, NEW name \in Names, NEW size \in Sizes, Put(c, w, name, size)
      PROVE  IInv'
  <2> DEFINE call == [pc |-> "sending", name |-> name, size |-> size, total |-> 0]
  <2>1. call \in Sending /\ call.total <= call.size
    BY FilesAssumption DEF Sending
  <2>2. c # storing
    BY <1>1, IdleDisk, FilesAssumption DEF Put
  <2>3. calls' = [calls EXCEPT ![c] = call]
    BY <1>1 DEF Put
  <2> HIDE DEF call
  <2> QED
    BY <1>0, <1>1, <2>1, <2>2, <2>3, CallStep DEF Put
<1>2. CASE Receive(c)
  <2> DEFINE call == [calls[c] EXCEPT !.total = @ + 1]
  <2>1. calls[c] \in Sending /\ calls[c].total < calls[c].size
    BY <1>0, <1>2 DEF Receive, Idle, Getting
  <2>2. c # storing
    BY <1>2, IdleDisk, FilesAssumption DEF Receive
  <2>3. CASE calls[c].total + 1 > MaxBytes
    <3>1. calls' = [calls EXCEPT ![c] = Idle]
      BY <1>2, <2>3 DEF Receive
    <3>2. Idle.pc # "sending"
      BY DEF Idle
    <3> QED
      BY <1>0, <1>2, <2>2, <3>1, <3>2, CallStep DEF Receive
  <2>4. CASE ~(calls[c].total + 1 > MaxBytes)
    <3>1. calls' = [calls EXCEPT ![c] = call]
      BY <1>0, <1>2, <2>4 DEF Receive
    <3>2. call \in Sending /\ call.total <= call.size
      BY <2>1, <2>4, FilesAssumption DEF Sending
    <3> HIDE DEF call
    <3> QED
      BY <1>0, <1>2, <2>2, <3>1, <3>2, CallStep DEF Receive
  <2> QED
    BY <2>3, <2>4
<1>3. ASSUME NEW w \in Workers, NEW id \in FileIds, Get(c, w, id) PROVE IInv'
  <2> DEFINE call == [pc |-> "serving", worker |-> w, name |-> rows[id].name, id |-> id]
  <2>1. rows[id].name \in Names
    BY <1>3 DEF IInv, TypeOK, Get, Row
  <2>2. call \in Getting /\ call.pc # "sending"
    BY <2>1 DEF Getting
  <2>3. c # storing
    BY <1>3, IdleDisk, FilesAssumption DEF Get
  <2>4. calls' = [calls EXCEPT ![c] = call]
    BY <1>3 DEF Get
  <2> HIDE DEF call
  <2> QED
    BY <1>0, <1>3, <2>2, <2>3, <2>4, CallStep DEF Get
<1>4. CASE Open(c)
  <2>1. calls[c] \in Getting /\ calls[c].pc = "serving"
    BY <1>0, <1>4 DEF Open, Idle, Sending
  <2>2. c # storing
    BY <2>1, FilesAssumption DEF IInv, TypeOK
  <2>3. PICK call \in {Idle, [calls[c] EXCEPT !.pc = "saving"]} :
          calls' = [calls EXCEPT ![c] = call]
    BY <1>0, <1>4 DEF Open
  <2>4. call \in {Idle} \cup Getting /\ call.pc # "sending"
    BY <2>1 DEF Getting, Idle
  <2> QED
    BY <1>0, <1>4, <2>2, <2>3, <2>4, CallStep DEF Open
<1>5. CASE Save(c)
  <2>1. calls[c] \in Getting
    BY <1>0, <1>5 DEF Save, Idle, Sending
  <2>2. c # storing
    BY <1>5, FilesAssumption DEF IInv, TypeOK, Save
  <2>3. local' \in [Workers -> [Names -> FileIds \cup {None}]]
    BY <1>0, <1>5, <2>1 DEF Save, Getting
  <2>4. Idle.pc # "sending"
    BY DEF Idle
  <2> QED
    BY <1>5, <2>2, <2>3, <2>4, CallStep DEF Save
<1> QED
  BY <1>1, <1>2, <1>3, <1>4, <1>5
-------------------------------------------------------------------------------
\* An upload that has arrived goes to the disk under an unused id.
LEMMA StoreStep ==
  ASSUME IInv, NEW c \in Calls, Store(c)
  PROVE  IInv'
<1>0. victims = {}
  BY IdleDisk DEF Store
<1>a. calls[c].total \in 0 .. MaxBytes
  BY DEF Store, IInv, TypeOK, Idle, Sending, Getting
<1>b. ~(calls[c].total > MaxBytes)
  BY <1>a, FilesAssumption
<1>1. PICK id \in Unused : disk' = StoreOps(id)
  BY <1>b DEF Store
<1>2. /\ id \in FileIds /\ rows[id] = None /\ storing' = c /\ calls[c].pc = "sending"
      /\ UNCHANGED <<up, faults, policy, bytes, rows, old, handed, expired, victims, calls, local>>
  BY <1>b, <1>1 DEF Store, Unused
<1>3. StoreOps(id) \in Seq(Op)
  BY <1>2 DEF StoreOps, Op
<1>4. TypeOK'
  BY <1>1, <1>2, <1>3 DEF IInv, TypeOK
<1>5. ListedIsThere'
  BY <1>2 DEF IInv, ListedIsThere
<1>6. Uploading(id)'
  <2>1. calls[c].total = calls[c].size
    BY DEF Store
  <2>2. StoreOps(id)' = StoreOps(id)
    BY DEF StoreOps
  <2> QED
    BY <1>0, <1>1, <1>2, <2>1, <2>2 DEF Uploading
<1> QED
  BY <1>2, <1>4, <1>5, <1>6 DEF IInv, Working

\* The sweep goes on with the next file.
LEMMA VictimStep ==
  ASSUME IInv, NEW id \in FileIds, NextVictim(id)
  PROVE  IInv'
<1>1. /\ id \in victims /\ victims' = victims \ {id} /\ disk' = Reclaim(id) /\ disk = <<>>
      /\ UNCHANGED <<up, faults, policy, bytes, rows, old, handed, expired, storing, calls, local>>
  BY DEF NextVictim
<1>2. storing = None
  BY <1>1 DEF IInv, Working, Uploading, Reclaiming, StoreOps, Reclaim
<1>3. Reclaim(id) \in Seq(Op)
  BY DEF Reclaim, Op
<1>4. TypeOK'
  BY <1>1, <1>3 DEF IInv, TypeOK
<1>5. ListedIsThere'
  BY <1>1 DEF IInv, ListedIsThere
<1>6. id \in old
  BY <1>1 DEF IInv, TypeOK
<1>7. Reclaiming(id)'
  <2>1. Reclaim(id)' = Reclaim(id)
    BY DEF Reclaim
  <2> QED
    BY <1>1, <1>2, <1>6, <2>1 DEF Reclaiming
<1> QED
  BY <1>1, <1>4, <1>5, <1>7 DEF IInv, Working

\* A new policy and a new start keep IInv.
LEMMA PolicyStep ==
  ASSUME IInv, Replace \/ Boot
  PROVE  IInv'
<1>1. UNCHANGED <<faults, bytes, rows, old, handed, expired, disk, victims, storing, calls, local>>
  BY DEF Replace, Boot
<1>2. up' \in BOOLEAN /\ policy' \in Policies
  BY FilesAssumption DEF Replace, Boot, IInv, TypeOK
<1>3. TypeOK'
  BY <1>1, <1>2 DEF IInv, TypeOK
<1>4. ListedIsThere'
  BY <1>1 DEF IInv, ListedIsThere
<1>5. Working'
  <2>1. \A id : (Uploading(id) => Uploading(id)') /\ (Reclaiming(id) => Reclaiming(id)')
    BY <1>1 DEF Uploading, Reclaiming, StoreOps, Reclaim
  <2> QED
    BY <1>1, <2>1 DEF IInv, Working
<1> QED
  BY <1>1, <1>3, <1>4, <1>5 DEF IInv

\* Files that get old, and a sweep that starts, keep IInv.
LEMMA ExpireStep ==
  ASSUME IInv, Gc \/ \E id \in FileIds : Expire(id)
  PROVE  IInv'
<1>1. disk = <<>> /\ victims = {} /\ storing = None
  BY IdleDisk DEF Gc, Expire
<1>2. /\ UNCHANGED <<up, faults, policy, bytes, rows, handed, disk, storing, calls, local>>
      /\ old \subseteq old' /\ old' \subseteq expired' /\ expired \subseteq expired'
      /\ old' \subseteq FileIds /\ expired' \subseteq FileIds /\ victims' \subseteq old'
      /\ \A id \in old' : rows[id] # None
  BY <1>1 DEF Gc, Expire, IInv, TypeOK
<1>3. TypeOK'
  BY <1>2 DEF IInv, TypeOK
<1>4. ListedIsThere'
  BY <1>2 DEF IInv, ListedIsThere
<1> QED
  BY <1>1, <1>2, <1>3, <1>4 DEF IInv, Working

\* A failed operation and a crash end what is under way.
LEMMA FaultStep ==
  ASSUME IInv, Fail \/ Crash
  PROVE  IInv'
<1>1. disk' = <<>> /\ victims' = {} /\ storing' = None
      /\ UNCHANGED <<policy, rows, old, handed, expired, local>>
  BY DEF Fail, Crash
<1>2. up' \in BOOLEAN /\ faults' \in 0 .. MaxFaults
  <2>1. up' \in BOOLEAN
    BY DEF Fail, Crash, IInv, TypeOK
  <2>2. faults < MaxFaults /\ faults' = faults + 1
    BY DEF Fail, Crash
  <2>3. faults \in 0 .. MaxFaults /\ MaxFaults \in Nat
    BY FilesAssumption DEF IInv, TypeOK
  <2>4. faults' \in 0 .. MaxFaults
    BY <2>2, <2>3
  <2> QED
    BY <2>1, <2>4
<1>3. bytes \subseteq bytes' /\ bytes' \subseteq FileIds
  <2>1. CASE Fail
    <3>1. disk \in Seq(Op) /\ disk # <<>>
      BY <2>1 DEF Fail, IInv, TypeOK
    <3>2. Head(disk) \in Op
      BY <3>1, HeadTailProperties
    <3> QED
      BY <2>1, <3>2 DEF Fail, IInv, TypeOK, Op
  <2>2. CASE Crash
    BY <2>2 DEF Crash, IInv, TypeOK
  <2> QED
    BY <2>1, <2>2
<1>4. /\ calls' \in [Calls -> {Idle} \cup Sending \cup Getting]
      /\ \A c \in Calls : calls'[c] = Idle \/ calls'[c] = calls[c]
  BY DEF Fail, Crash, IInv, TypeOK
<1>5. \A c \in Calls : calls'[c].pc = "sending" => calls'[c].total <= calls'[c].size
  BY <1>4 DEF IInv, TypeOK, Idle
<1>6. <<>> \in Seq(Op)
  OBVIOUS
<1>7. TypeOK'
  BY <1>1, <1>2, <1>3, <1>4, <1>5, <1>6 DEF IInv, TypeOK
<1>8. ListedIsThere'
  BY <1>1, <1>3 DEF IInv, ListedIsThere
<1> QED
  BY <1>1, <1>7, <1>8 DEF IInv, Working

-------------------------------------------------------------------------------
\* IInv holds at the start.
LEMMA InitIInv == Init => IInv
<1> SUFFICES ASSUME Init PROVE IInv
  OBVIOUS
<1>1. <<>> \in Seq(Op)
  OBVIOUS
<1>2. TypeOK
  BY <1>1, FilesAssumption DEF Init, TypeOK, Idle
<1> QED
  BY <1>2 DEF Init, IInv, ListedIsThere, Working

\* IInv is kept by every action.
LEMMA NextIInv == IInv /\ [Next]_vars => IInv'
<1> SUFFICES ASSUME IInv, [Next]_vars PROVE IInv'
  OBVIOUS
<1>1. CASE Next
  BY <1>1, OperateStep, StoreStep, VictimStep, TransferStep, PolicyStep, ExpireStep, FaultStep
     DEF Next
<1>2. CASE UNCHANGED vars
  <2>1. UNCHANGED <<up, faults, policy, bytes, rows, old, handed, expired, disk, victims, storing, calls,
                    local>>
    BY <1>2 DEF vars
  <2>2. TypeOK' /\ ListedIsThere'
    BY <2>1 DEF IInv, TypeOK, ListedIsThere
  <2>3. \A id : (Uploading(id) => Uploading(id)') /\ (Reclaiming(id) => Reclaiming(id)')
    BY <2>1 DEF Uploading, Reclaiming, StoreOps, Reclaim
  <2> QED
    BY <2>1, <2>2, <2>3 DEF IInv, Working
<1> QED
  BY <1>1, <1>2

\* The invariant that carries the results below.
THEOREM SpecIInv == Spec => []IInv
<1>1. Init => IInv
  BY InitIInv
<1>2. IInv /\ [Next]_vars => IInv'
  BY NextIInv
<1> QED
  BY <1>1, <1>2, PTL DEF Spec

\* The types; what is stored is no longer than max_bytes, declared or not
\* (files/routes.py:36-50).
THEOREM TypeCorrect == Spec => []TypeOK
<1>1. IInv => TypeOK
  BY DEF IInv
<1> QED
  BY <1>1, SpecIInv, PTL

\* What the table lists is on the disk until it expires, for any number of
\* crashes and failing operations (files/store.py:60-67 and 82-89).
THEOREM ListedFilesAreThere == Spec => []ListedIsThere
<1>1. IInv => ListedIsThere
  BY DEF IInv
<1> QED
  BY <1>1, SpecIInv, PTL

\* file.get replaces no file that a worker has (channel_adapter.py:249-256).
THEOREM SavedFilesStay == Spec => NothingIsOverwritten
<1> DEFINE Kept == \A w \in Workers, n \in Names :
                     local[w][n] # None => local'[w][n] = local[w][n]
<1>1. IInv /\ [Next]_vars => [Kept]_vars
  <2> SUFFICES ASSUME IInv, Next PROVE Kept
    OBVIOUS
  <2>1. ASSUME NEW c \in Calls, Save(c) PROVE Kept
    <3>1. calls[c] \in Getting
      BY <2>1 DEF Save, IInv, TypeOK, Idle, Sending
    <3> QED
      BY <2>1, <3>1 DEF Save, IInv, TypeOK, Getting
  <2>2. CASE UNCHANGED local
    BY <2>2
  <2>3. UNCHANGED local \/ \E c \in Calls : Save(c)
    BY DEF Next, Replace, Operate, Fail, Gc, Crash, Boot, Expire, NextVictim, Put, Receive, Store,
           Get, Open
  <2> QED
    BY <2>1, <2>2, <2>3
<1>2. NothingIsOverwritten <=> [][Kept]_vars
  BY PTL DEF NothingIsOverwritten
<1> QED
  BY <1>1, <1>2, SpecIInv, PTL DEF Spec
===============================================================================
