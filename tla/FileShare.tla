------------------------------- MODULE FileShare -------------------------------
(***************************************************************************)
(* The files workers share: POST and GET /files (files/routes.py), the     *)
(* store and its policy (files/store.py, files/policy.py), the files table *)
(* (storage/persistence.py), the sweep of the expired (sweeper.py) and the *)
(* tools file.put and file.get of the channel adapter.                     *)
(*                                                                         *)
(* An upload awaits the chunks of its body and a download awaits the       *)
(* opening of the file it found; between those the broker does not yield.  *)
(* But what it does to the disk is several operations, and the process may *)
(* die, or one of them may fail, between any two: disk holds those that    *)
(* are still to be done.                                                   *)
(*                                                                         *)
(* A policy entry is the set of ids its key matches and the sets of names  *)
(* its r and w patterns match.  A size is a number of chunks.              *)
(***************************************************************************)
EXTENDS Naturals, Sequences

CONSTANTS Workers,       \* ids of workers
          Names,         \* names of files
          FileIds,       \* the uuids
          Calls,         \* file.put and file.get calls that may be out at once
          MaxBytes,      \* max_bytes
          Sizes,         \* the sizes of the files workers put
          Policies,      \* the policies that may be in force
          PolicyFile,    \* the one that is loaded at the start
          MaxFaults,     \* bound: crashes and failing disk operations
          None

ASSUME FilesAssumption ==
  /\ None \notin FileIds \cup Calls \cup [name : Names, size : 0 .. MaxBytes]
  /\ MaxBytes \in Nat /\ Sizes \subseteq Nat /\ MaxFaults \in Nat
  /\ \A policy \in Policies : \A e \in policy.entries :
       e.who \subseteq Workers /\ e.r \subseteq Names /\ e.w \subseteq Names
  /\ PolicyFile \in Policies

VARIABLES
  up,       \* the broker runs
  faults,   \* counts crashes and failures
  policy,   \* the FilePolicy: [active, entries]
  bytes,    \* the files in .agentagora/files
  rows,     \* the files table: [name, size] by id, or None
  old,      \* rows whose created_at is before the cutoff
  handed,   \* history: files whose handle has been returned
  expired,  \* history: files that were in the table and got old
  disk,     \* what the running handler or sweep still does to the disk
  victims,  \* the files the running sweep comes to after that
  storing,  \* the call it does it for, or None
  calls,    \* [pc, name, size, total] of a put, [pc, worker, name, id] of a get
  local     \* local[w][n]: the file worker w has saved under n, or None

vars == <<up, faults, policy, bytes, rows, old, handed, expired, disk, victims, storing, calls, local>>

Idle == [pc |-> "idle"]
Row == [name : Names, size : 0 .. MaxBytes]
Op == [do : {"write", "insert", "unlink", "delete"}, id : FileIds]

Init ==
  /\ up = TRUE /\ faults = 0
  /\ policy = PolicyFile
  /\ bytes = {} /\ old = {} /\ handed = {} /\ expired = {}
  /\ rows = [id \in FileIds |-> None]
  /\ disk = <<>> /\ victims = {} /\ storing = None
  /\ calls = [c \in Calls |-> Idle]
  /\ local = [w \in Workers |-> [n \in Names |-> None]]

\* the event loop runs other handlers
Free == up /\ disk = <<>> /\ victims = {}

\* a uuid that has not been drawn: nothing of it is left, or was handed out
Unused == {id \in FileIds : id \notin bytes \cup handed /\ rows[id] = None}

-------------------------------------------------------------------------------
(***************************************************************************)
(* FilePolicy: a worker that no entry matches may do anything, another one *)
(* what one of its entries allows.                                         *)
(***************************************************************************)
Matching(w) == IF policy.active THEN {e \in policy.entries : w \in e.who} ELSE {}

CanUpload(w, name) == Matching(w) = {} \/ \E e \in Matching(w) : name \in e.w
CanDownload(w, name) == Matching(w) = {} \/ \E e \in Matching(w) : name \in e.r

\* POST /admin/file-policy
Replace ==
  /\ Free
  /\ policy' \in {p \in Policies : p.active}
  /\ UNCHANGED <<up, faults, bytes, rows, old, handed, expired, disk, victims, storing, calls, local>>

-------------------------------------------------------------------------------
(***************************************************************************)
(* file.put.  What POST /files turns down changes nothing and is no step,  *)
(* but for a body that proves too long while it arrives.                   *)
(***************************************************************************)
\* the headers: policy, and Content-Length if there is one
Put(c, w, name, size) ==
  /\ Free /\ calls[c] = Idle
  /\ CanUpload(w, name)
  /\ \E declared \in BOOLEAN :
       /\ declared => size <= MaxBytes
       /\ calls' = [calls EXCEPT ![c] = [pc |-> "sending", name |-> name,
                                         size |-> size, total |-> 0]]
  /\ UNCHANGED <<up, faults, policy, bytes, rows, old, handed, expired, disk, victims, storing, local>>

\* mutant of Receive: only Content-Length is looked at
ReceiveAll(c) ==
  /\ Free /\ calls[c].pc = "sending" /\ calls[c].total < calls[c].size
  /\ calls' = [calls EXCEPT ![c].total = @ + 1]
  /\ UNCHANGED <<up, faults, policy, bytes, rows, old, handed, expired, disk, victims, storing, local>>

\* a chunk
Receive(c) ==
  /\ Free /\ calls[c].pc = "sending" /\ calls[c].total < calls[c].size
  /\ calls' = IF calls[c].total + 1 > MaxBytes
              THEN [calls EXCEPT ![c] = Idle]
              ELSE [calls EXCEPT ![c].total = @ + 1]
  /\ UNCHANGED <<up, faults, policy, bytes, rows, old, handed, expired, disk, victims, storing, local>>

\* mutant of StoreOps: the row is there before the bytes
StoreRowFirst(id) == <<[do |-> "insert", id |-> id], [do |-> "write", id |-> id]>>

\* store_bytes and _record, once the length is found right a second time
StoreOps(id) == <<[do |-> "write", id |-> id], [do |-> "insert", id |-> id]>>

Store(c) ==
  /\ Free /\ calls[c].pc = "sending" /\ calls[c].total = calls[c].size
  /\ IF calls[c].total > MaxBytes
     THEN calls' = [calls EXCEPT ![c] = Idle] /\ UNCHANGED <<disk, storing>>
     ELSE /\ \E id \in Unused : disk' = StoreOps(id)
          /\ storing' = c
          /\ UNCHANGED calls
  /\ UNCHANGED <<up, faults, policy, bytes, rows, old, handed, expired, victims, local>>

-------------------------------------------------------------------------------
(***************************************************************************)
(* The disk.                                                               *)
(***************************************************************************)
\* one operation; with the last one of an upload its handle is returned
Operate ==
  LET op == Head(disk)
      last == Len(disk) = 1
  IN
  /\ up /\ disk # <<>>
  /\ bytes' = CASE op.do = "write" -> bytes \cup {op.id}
                [] op.do = "unlink" -> bytes \ {op.id}
                [] OTHER -> bytes
  /\ rows' = CASE op.do = "insert" ->
                    [rows EXCEPT ![op.id] = [name |-> calls[storing].name,
                                             size |-> calls[storing].size]]
               [] op.do = "delete" -> [rows EXCEPT ![op.id] = None]
               [] OTHER -> rows
  /\ old' = IF op.do = "delete" THEN old \ {op.id} ELSE old
  /\ disk' = Tail(disk)
  /\ IF last /\ storing # None
     THEN /\ handed' = handed \cup {op.id}
          /\ calls' = [calls EXCEPT ![storing] = Idle]
          /\ storing' = None
     ELSE UNCHANGED <<handed, calls, storing>>
  /\ UNCHANGED <<up, faults, policy, expired, victims, local>>

\* the operation raises, a write perhaps half way, and the handler or the
\* sweep ends
Fail ==
  /\ up /\ disk # <<>> /\ faults < MaxFaults
  /\ faults' = faults + 1
  /\ bytes' \in {bytes, IF Head(disk).do = "write" THEN bytes \cup {Head(disk).id}
                                                   ELSE bytes}
  /\ disk' = <<>> /\ victims' = {}
  /\ calls' = IF storing # None THEN [calls EXCEPT ![storing] = Idle] ELSE calls
  /\ storing' = None
  /\ UNCHANGED <<up, policy, rows, old, handed, expired, local>>

\* file_retention_days pass
Expire(id) ==
  /\ Free /\ rows[id] # None /\ id \notin old
  /\ old' = old \cup {id} /\ expired' = expired \cup {id}
  /\ UNCHANGED <<up, faults, policy, bytes, rows, handed, disk, victims, storing, calls, local>>

\* mutant of Reclaim: the row goes first
ReclaimRowFirst(id) == <<[do |-> "delete", id |-> id], [do |-> "unlink", id |-> id]>>

Reclaim(id) == <<[do |-> "unlink", id |-> id], [do |-> "delete", id |-> id]>>

\* file_gc_sweep takes the ids of the expired from the table ...
Gc ==
  /\ Free /\ old # {}
  /\ victims' = old
  /\ UNCHANGED <<up, faults, policy, bytes, rows, old, handed, expired, disk, storing, calls, local>>

\* ... and reclaims one after the other
NextVictim(id) ==
  /\ up /\ disk = <<>> /\ id \in victims
  /\ disk' = Reclaim(id)
  /\ victims' = victims \ {id}
  /\ UNCHANGED <<up, faults, policy, bytes, rows, old, handed, expired, storing, calls, local>>

\* the process dies; an answer that has arrived is not lost
Crash ==
  /\ up /\ faults < MaxFaults
  /\ up' = FALSE /\ faults' = faults + 1
  /\ disk' = <<>> /\ victims' = {} /\ storing' = None
  /\ calls' = [c \in Calls |-> IF calls[c].pc = "saving" THEN calls[c] ELSE Idle]
  /\ UNCHANGED <<policy, bytes, rows, old, handed, expired, local>>

Boot ==
  /\ ~up
  /\ up' = TRUE
  /\ policy' = PolicyFile
  /\ UNCHANGED <<faults, bytes, rows, old, handed, expired, disk, victims, storing, calls, local>>

-------------------------------------------------------------------------------
(***************************************************************************)
(* file.get.                                                               *)
(***************************************************************************)
\* GET /files/<id> up to the FileResponse: the row, the policy, the path
Get(c, w, id) ==
  /\ Free /\ calls[c] = Idle
  /\ id \in handed
  /\ rows[id] # None /\ CanDownload(w, rows[id].name) /\ id \in bytes
  /\ calls' = [calls EXCEPT ![c] = [pc |-> "serving", worker |-> w,
                                    name |-> rows[id].name, id |-> id]]
  /\ UNCHANGED <<up, faults, policy, bytes, rows, old, handed, expired, disk, victims, storing, local>>

\* the response opens the file, in a thread: a sweep may be under way or over
Open(c) ==
  /\ up /\ calls[c].pc = "serving"
  /\ calls' = IF calls[c].id \in bytes THEN [calls EXCEPT ![c].pc = "saving"]
                                       ELSE [calls EXCEPT ![c] = Idle]
  /\ UNCHANGED <<up, faults, policy, bytes, rows, old, handed, expired, disk, victims, storing, local>>

\* mutant of Save: what is there is not looked at
SaveOver(c) ==
  /\ calls[c].pc = "saving"
  /\ local' = [local EXCEPT ![calls[c].worker][calls[c].name] = calls[c].id]
  /\ calls' = [calls EXCEPT ![c] = Idle]
  /\ UNCHANGED <<up, faults, policy, bytes, rows, old, handed, expired, disk, victims, storing>>

\* the adapter writes it to agora-inbox/<name>, or says file_exists
Save(c) ==
  LET w == calls[c].worker
      name == calls[c].name
  IN
  /\ calls[c].pc = "saving"
  /\ local' = IF local[w][name] = None
              THEN [local EXCEPT ![w][name] = calls[c].id] ELSE local
  /\ calls' = [calls EXCEPT ![c] = Idle]
  /\ UNCHANGED <<up, faults, policy, bytes, rows, old, handed, expired, disk, victims, storing>>

-------------------------------------------------------------------------------
Next ==
  \/ Replace \/ Operate \/ Fail \/ Gc \/ Crash \/ Boot
  \/ \E id \in FileIds : Expire(id) \/ NextVictim(id)
  \/ \E c \in Calls :
       \/ \E w \in Workers, name \in Names, size \in Sizes : Put(c, w, name, size)
       \/ Receive(c) \/ Store(c)
       \/ \E w \in Workers, id \in FileIds : Get(c, w, id)
       \/ Open(c) \/ Save(c)

(***************************************************************************)
(* Fairness: the process is started again, goes on with what it does and   *)
(* comes to the sweep (a message_gc_sweep that raises puts it off by a     *)
(* day, not for ever).                                                     *)
(***************************************************************************)
Fairness ==
  /\ WF_vars(Boot) /\ WF_vars(Operate) /\ SF_vars(Gc)
  /\ \A id \in FileIds : WF_vars(NextVictim(id))

Spec == Init /\ [][Next]_vars
FairSpec == Spec /\ Fairness

-------------------------------------------------------------------------------
Sending == [pc : {"sending"}, name : Names, size : Nat, total : 0 .. MaxBytes]
Getting == [pc : {"serving", "saving"}, worker : Workers, name : Names, id : FileIds]

(***************************************************************************)
(* The types; what is stored is no longer than max_bytes, whether its      *)
(* length was declared or not (files/routes.py:36-50).                     *)
(***************************************************************************)
TypeOK ==
  /\ up \in BOOLEAN /\ faults \in 0 .. MaxFaults
  /\ policy \in Policies
  /\ bytes \subseteq FileIds /\ handed \subseteq FileIds /\ expired \subseteq FileIds
  /\ rows \in [FileIds -> Row \cup {None}]
  /\ victims \subseteq old /\ old \subseteq FileIds
  /\ \A id \in old : rows[id] # None
  /\ disk \in Seq(Op)
  /\ storing \in Calls \cup {None}
  /\ calls \in [Calls -> {Idle} \cup Sending \cup Getting]
  /\ \A c \in Calls : calls[c].pc = "sending" => calls[c].total <= calls[c].size
  /\ storing # None => calls[storing].pc = "sending"
  /\ local \in [Workers -> [Names -> FileIds \cup {None}]]

(***************************************************************************)
(* What the table lists can be downloaded until it expires, and a handle   *)
(* that was returned is in the table until then, whenever the process dies *)
(* or a write fails, and whatever a sweep has to reclaim at the time       *)
(* (files/store.py:60-67 and 82-89).                                       *)
(***************************************************************************)
ListedIsThere ==
  \A id \in FileIds :
    /\ rows[id] # None /\ id \notin old => id \in bytes
    /\ id \in handed /\ id \notin expired => rows[id] # None

(***************************************************************************)
(* file.get never replaces a file the worker has, although the name it     *)
(* saves to is known only when the answer is there, and another get may    *)
(* have saved to it meanwhile (channel_adapter.py:249-256).                *)
(***************************************************************************)
NothingIsOverwritten ==
  [][\A w \in Workers, n \in Names :
       local[w][n] # None => local'[w][n] = local[w][n]]_vars

(***************************************************************************)
(* A file that has expired is gone in the end, its row and its bytes, even *)
(* if a sweep dies or fails between the two (files/store.py:82-89).        *)
(***************************************************************************)
ExpiredIsReclaimed ==
  \A id \in FileIds : id \in old ~> (id \notin bytes /\ rows[id] = None)
===============================================================================
