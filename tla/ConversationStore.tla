-------------------------- MODULE ConversationStore --------------------------
(***************************************************************************)
(* The conversation life cycle of conversation_store.py: the state record  *)
(* of one conversation, the operations the dispatcher applies to it while  *)
(* it holds its lock, and the rule that picks the conversation of a new    *)
(* command.  The store has no lock and no tasks of its own, so this module *)
(* has operators and no variables; Dispatcher.tla keeps the table of       *)
(* conversations and interleaves the calls.                                *)
(*                                                                         *)
(* Abstracted: the kind, the timestamps and the message count.  `born' is  *)
(* the call that created the record.  The Python code keeps references to  *)
(* the state dict across awaits, and two dicts stored one after the other  *)
(* under one id are told apart by it.                                      *)
(***************************************************************************)
EXTENDS Integers

CONSTANTS Ids,        \* every instance id: workers and bots
          None,       \* Python's None
          MaxCalls    \* bound: the number of calls made to the broker

ASSUME MaxCallsAssumption == MaxCalls \in Nat

Call == 1..MaxCalls

(***************************************************************************)
(* A participant is a primary the closing protocol waits for, a primary    *)
(* whose inbox was full when it was addressed ("missed": delivered=False,  *)
(* which MaybeClose leaves out), or a cc observer.                         *)
(***************************************************************************)
Role == {"none", "primary", "missed", "cc"}
Status == {"absent", "open", "half_closed", "closed"}

ConvState == [status   : Status,
              role     : [Ids -> Role],
              closedBy : SUBSET Ids,
              born     : 0..MaxCalls]

Absent == [status |-> "absent", role |-> [i \in Ids |-> "none"],
           closedBy |-> {}, born |-> 0]

\* new_state and put: call t stores a fresh state
NewState(t) == [status |-> "open", role |-> [i \in Ids |-> "none"],
                closedBy |-> {}, born |-> t]

\* add_participant: the first role an instance is given is the one it keeps
AddParticipants(state, who, role) ==
  [state EXCEPT !.role =
     [i \in Ids |-> IF i \in who /\ state.role[i] = "none"
                      THEN role ELSE state.role[i]]]

DeliveredPrimaries(state) == {i \in Ids : state.role[i] = "primary"}

\* maybe_close: closed once every delivered primary has sent closing
MaybeClose(state) ==
  IF /\ DeliveredPrimaries(state) # {}
     /\ DeliveredPrimaries(state) \subseteq state.closedBy
    THEN [state EXCEPT !.status = "closed"]
    ELSE state

\* mutant of PartyCloses: nobody checks whether this was the last closing
PartyClosesUnchecked(state, who) ==
  [state EXCEPT !.closedBy = @ \cup {who},
                !.status   = IF @ = "open" THEN "half_closed" ELSE @]

\* one party's closing: it is recorded, an open conversation is half closed,
\* and the last primary to do so closes it
PartyCloses(state, who) ==
  MaybeClose([state EXCEPT
    !.closedBy = @ \cup {who},
    !.status   = IF @ = "open" THEN "half_closed" ELSE @])

(***************************************************************************)
(* resolve_conversation_id.  `inherited' is the conversation of the        *)
(* command replied to, looked up in memory and then on disk (None when     *)
(* unknown or when nothing is replied to); `fresh' stands for a new uuid.  *)
(* The answer is the conversation and whether the caller must create it.   *)
(***************************************************************************)
Resolution(c, new) == [conv |-> c, isNew |-> new]

ResolveConversationId(table, given, inherited, fresh) ==
  LET Live(c) == Resolution(c, table[c].status = "absent")
      wanted  == IF given # None THEN given ELSE inherited
  IN  IF wanted = None THEN Resolution(fresh, TRUE)
      ELSE IF table[wanted].status = "closed" THEN Resolution(fresh, TRUE)
      ELSE Live(wanted)
=============================================================================
