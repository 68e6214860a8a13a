----------------------------- MODULE Registers -----------------------------
(***************************************************************************)
(* One decision register and the sessions that read and write it           *)
(* (otaman_core/registry_access.py).                                       *)
(*                                                                         *)
(* A session loads the whole register, changes its copy through            *)
(* create_record and apply_transition only, and saves the copy whole.      *)
(* save_register opens the file for writing in place, so that for a while  *)
(* the file is empty, or the first part of what is being written, and the  *)
(* loaders read such a file without complaint; a session that dies in      *)
(* between leaves it so.  Two that have the file open at once write their  *)
(* bytes over each other's, and may leave a mixture for good.              *)
(***************************************************************************)
EXTENDS Integers, Sequences, SequencesExt

CONSTANTS
  Session, Id,
  Status,       \* values of a record's status
  Field, Value, \* the other fields a transition sets, and what they hold
  Unset,        \* "the field was not there"
  NoRecord, NoApproval,
  Call,         \* the transitions that are asked for
  Born,         \* the statuses that records are created with
  MaxLog,       \* bound of a record's transitions
  MaxTorn       \* bound of the loads of an unfinished file

APPROVAL_REQUIRED_ACTIONS == {"accept-cost", "choose", "reject-cost"}
APPROVAL_VIA == {"hitl", "roster-role", "hat"}

(* An approval as far as _validate_approval looks at it: a blank "by" or   *)
(* hat is a string of spaces, "dated" says that at and spec are there.     *)
Approval ==
  [by : {"human", "blank"}, via : APPROVAL_VIA \union {"other"}, dated : BOOLEAN,
   hat : {"none", "named", "blank"}] \union {NoApproval}

(* to is Unset for a transition that moves no status; so is each field it  *)
(* does not set.                                                           *)
Fields == [Field -> Value \union {Unset}]
Entry == [action : STRING, from : Status \union {Unset}, to : Status \union {Unset},
          old : Fields, new : Fields, approval : Approval]
Record == [status : Status, fields : Fields, transitions : Seq(Entry)]
Records == [Id -> Record \union {NoRecord}]

ASSUME RegisterAssumption ==
  /\ Call \subseteq [action : STRING, to : Status \union {Unset}, fields : Fields,
                     approval : Approval]
  /\ Born \subseteq Status
  /\ Unset \notin Status \union Value
  /\ NoRecord \notin Record
  /\ MaxLog \in Nat /\ MaxTorn \in Nat

VARIABLES
  file,      \* the register on disk: its records, and whether it is annotated
  garbled,   \* does the file fail to parse
  phase,     \* [Session -> "idle", "loaded", or "opened" (save_register)]
  mem,       \* [Session -> its copy]
  readOnly,  \* [Session -> is its copy from read_register_fast]
  shared,    \* the sessions that had the file open when another had, and still do
  whole,     \* history variable: is the file what one save has finished writing
  latest,    \* history variable: what that save has written
  stale,     \* history variable: the sessions whose copy is not of the latest
  torn       \* history variable: how often an unfinished file was loaded

fileVars == <<file, garbled, shared, whole, latest>>
sessionVars == <<phase, mem, readOnly>>
vars == <<fileVars, sessionVars, stale, torn>>

(* What an empty or missing file reads as *)
EmptyRegister == [records |-> [i \in Id |-> NoRecord], annotated |-> FALSE]

(* The register of a program has annotations, and no record yet. *)
Init ==
  /\ file = [EmptyRegister EXCEPT !.annotated = TRUE]
  /\ garbled = FALSE
  /\ phase = [s \in Session |-> "idle"]
  /\ mem = [s \in Session |-> EmptyRegister]
  /\ readOnly = [s \in Session |-> FALSE]
  /\ shared = {}
  /\ whole = TRUE /\ latest = file
  /\ stale = {} /\ torn = 0

----------------------------------------------------------------------------
(* Loading *)

LoadAs(s, register, fast) ==
  /\ phase[s] = "idle" /\ ~garbled
  /\ whole \/ torn < MaxTorn
  /\ phase' = [phase EXCEPT ![s] = "loaded"]
  /\ mem' = [mem EXCEPT ![s] = register]
  /\ readOnly' = [readOnly EXCEPT ![s] = fast]
  /\ stale' = IF whole THEN stale \ {s} ELSE stale \union {s}
  /\ torn' = IF whole THEN torn ELSE torn + 1
  /\ UNCHANGED fileVars

(* load_register keeps comments and quotes *)
LoadRegister(s) == LoadAs(s, file, FALSE)

(* read_register_fast drops them, and marks the copy *)
ReadRegisterFast(s) == LoadAs(s, [file EXCEPT !.annotated = FALSE], TRUE)

----------------------------------------------------------------------------
(* The write contract, on the copy *)

InMemory(s, i, record) ==
  /\ mem' = [mem EXCEPT ![s].records[i] = record]
  /\ UNCHANGED <<fileVars, phase, readOnly, stale, torn>>

(* A record starts with its status; a second one of the id is refused. *)
CreateRecord(s, i, status) ==
  /\ phase[s] = "loaded"
  /\ mem[s].records[i] = NoRecord
  /\ InMemory(s, i, [status |-> status, fields |-> [f \in Field |-> Unset],
                     transitions |-> <<>>])

ValidApproval(approval) ==
  /\ approval # NoApproval
  /\ approval.by = "human"
  /\ approval.via \in APPROVAL_VIA
  /\ approval.dated
  /\ approval.hat # "blank"

(* The audit entry of a call on a record: where it moves the status from,  *)
(* and the old value of each field it sets.                                *)
EntryOf(record, call) ==
  [action   |-> call.action,
   from     |-> IF call.to = Unset THEN Unset ELSE record.status,
   to       |-> call.to,
   old      |-> [f \in Field |->
                   IF call.fields[f] = Unset THEN Unset ELSE record.fields[f]],
   new      |-> call.fields,
   approval |-> call.approval]

SlipAuditAfter(record, call) ==
  LET moved == [record EXCEPT !.status = IF call.to = Unset THEN @ ELSE call.to,
                              !.fields = [f \in Field |-> IF call.fields[f] = Unset
                                            THEN @[f] ELSE call.fields[f]]]
  IN  [moved EXCEPT !.transitions = Append(@, EntryOf(moved, call))]

SlipCollapse(record, call) ==
  [status      |-> IF call.to = Unset THEN record.status ELSE call.to,
   fields      |-> [f \in Field |-> IF call.fields[f] = Unset
                                    THEN record.fields[f] ELSE call.fields[f]],
   transitions |-> IF record.transitions # <<>> /\ Last(record.transitions).to = call.to
                   THEN Front(record.transitions) \o <<EntryOf(record, call)>>
                   ELSE Append(record.transitions, EntryOf(record, call))]

Transitioned(record, call) ==
  [status      |-> IF call.to = Unset THEN record.status ELSE call.to,
   fields      |-> [f \in Field |-> IF call.fields[f] = Unset
                                    THEN record.fields[f] ELSE call.fields[f]],
   transitions |-> Append(record.transitions, EntryOf(record, call))]

ApplyTransition(s, i, call) ==
  /\ phase[s] = "loaded"
  /\ mem[s].records[i] # NoRecord
  /\ call.action \in APPROVAL_REQUIRED_ACTIONS => ValidApproval(call.approval)
  /\ Len(mem[s].records[i].transitions) < MaxLog
  /\ InMemory(s, i, Transitioned(mem[s].records[i], call))

----------------------------------------------------------------------------
(* Saving *)

Forget(s) ==
  /\ phase' = [phase EXCEPT ![s] = "idle"]
  /\ mem' = [mem EXCEPT ![s] = EmptyRegister]
  /\ readOnly' = [readOnly EXCEPT ![s] = FALSE]

(* The session does not save, has a copy save_register refuses, or dies. *)
Drop(s) ==
  /\ phase[s] = "loaded"
  /\ Forget(s)
  /\ stale' = stale \ {s}
  /\ UNCHANGED <<fileVars, torn>>

(* open(path, "w") empties the file, whoever else is writing it. *)
SaveOpen(s) ==
  LET writing == {t \in Session : phase[t] = "opened"}
  IN  /\ phase[s] = "loaded" /\ ~readOnly[s]
      /\ phase' = [phase EXCEPT ![s] = "opened"]
      /\ shared' = IF writing = {} THEN shared ELSE shared \union writing \union {s}
      /\ file' = EmptyRegister /\ garbled' = FALSE /\ whole' = FALSE
      /\ stale' = stale \union {t \in Session : t # s /\ phase[t] # "idle"}
      /\ UNCHANGED <<latest, mem, readOnly, torn>>

(* What the loaders make of a text that is head up to somewhere in record  *)
(* i, and tail from there on: the log of that record begins as the one and *)
(* ends as the other.  The records written before it are head's.           *)
LogOf(record) == IF record = NoRecord THEN <<>> ELSE record.transitions
Spliced(head, tail, before, i, n) ==
  LET log == LogOf(tail.records[i])
      parted == [head.records[i] EXCEPT !.transitions =
                   SubSeq(@, 1, n) \o SubSeq(log, n + 1, Len(log))]
  IN  [head EXCEPT !.records = [j \in Id |-> IF j = i THEN parted
                                            ELSE IF j \in before THEN head.records[j]
                                            ELSE tail.records[j]]]

(* What is in the file is no save: a part of the dump, and behind it or    *)
(* before it what another has put there.                                   *)
Unfinished(s) ==
  /\ whole' = FALSE
  /\ \/ garbled' = TRUE /\ file' = EmptyRegister
     \/ /\ garbled' = FALSE
        /\ \E head, tail \in {mem[s], IF s \in shared THEN file ELSE EmptyRegister} :
           \E i \in {j \in Id : head.records[j] # NoRecord} :
           \E before \in SUBSET Id, n \in 0..Len(head.records[i].transitions) :
             file' = Spliced(head, tail, before, i, n) /\ file' # mem[s]

(* A part of the dump reaches the file: it ends in the middle of a record, *)
(* or of a line.                                                           *)
SaveChunk(s) ==
  /\ phase[s] = "opened"
  /\ Unfinished(s)
  /\ UNCHANGED <<shared, latest, sessionVars, stale, torn>>

(* The rest of it does, and the session goes on with its copy.  One that   *)
(* shared the file may not have covered all that the others put there, or  *)
(* not from the first byte on.                                             *)
SaveClose(s) ==
  /\ phase[s] = "opened"
  /\ phase' = [phase EXCEPT ![s] = "loaded"]
  /\ shared' = shared \ {s}
  /\ \/ /\ file' = mem[s] /\ garbled' = FALSE
        /\ whole' = TRUE /\ latest' = mem[s]
        /\ stale' = {t \in Session : phase[t] # "idle"} \ {s}
     \/ /\ s \in shared
        /\ Unfinished(s) /\ UNCHANGED latest
        /\ stale' = {t \in Session : phase[t] # "idle"}
  /\ UNCHANGED <<mem, readOnly, torn>>

(* A session dies; another one may begin in its place. *)
Die(s) ==
  /\ phase[s] = "opened"
  /\ Forget(s)
  /\ shared' = shared \ {s}
  /\ stale' = stale \ {s}
  /\ UNCHANGED <<file, garbled, whole, latest, torn>>

(* Whoever finds that the register is damaged puts it back from git. *)
Restore ==
  /\ ~whole /\ \A s \in Session : phase[s] = "idle"
  /\ file' = latest /\ garbled' = FALSE /\ whole' = TRUE
  /\ UNCHANGED <<shared, latest, sessionVars, stale, torn>>

----------------------------------------------------------------------------

Next ==
  \/ \E s \in Session :
       \/ LoadRegister(s) \/ ReadRegisterFast(s)
       \/ \E i \in Id, status \in Born : CreateRecord(s, i, status)
       \/ \E i \in Id, call \in Call : ApplyTransition(s, i, call)
       \/ Drop(s)
       \/ SaveOpen(s) \/ SaveChunk(s) \/ SaveClose(s)
       \/ Die(s)
  \/ Restore

Spec == Init /\ [][Next]_vars

----------------------------------------------------------------------------

(* Type invariant *)
Register == [records : Records, annotated : BOOLEAN]

TypeOK ==
  /\ file \in Register /\ latest \in Register
  /\ garbled \in BOOLEAN /\ whole \in BOOLEAN /\ torn \in 0..MaxTorn
  /\ whole => ~garbled /\ file = latest
  /\ phase \in [Session -> {"idle", "loaded", "opened"}]
  /\ mem \in [Session -> Register]
  /\ readOnly \in [Session -> BOOLEAN]
  /\ \A s \in Session : phase[s] = "idle" => mem[s] = EmptyRegister
  /\ shared \subseteq Session /\ stale \subseteq Session

(* The transitions at places follow each other, from what one leaves to    *)
(* what the next one finds, and the last one leaves what is there now.     *)
Follow(places, found, left, now) ==
  /\ \A i \in places : (\A j \in places : j <= i) => left[i] = now
  /\ \A i, j \in places :
       i < j /\ (\A k \in places : k <= i \/ j <= k) => found[j] = left[i]

Told(record) ==
  LET log == record.transitions
      places == DOMAIN log
  IN  /\ Follow({i \in places : log[i].to # Unset},
                [i \in places |-> log[i].from], [i \in places |-> log[i].to],
                record.status)
      /\ \A f \in Field :
           Follow({i \in places : log[i].new[f] # Unset},
                  [i \in places |-> log[i].old[f]], [i \in places |-> log[i].new[f]],
                  record.fields[f])
      /\ \A i \in places : log[i].action \in APPROVAL_REQUIRED_ACTIONS
                             => log[i].approval # NoApproval

AllTold(register) ==
  \A i \in Id : register.records[i] # NoRecord => Told(register.records[i])

(* "The audit is reconstructable" (apply_transition, lines 285-312): in    *)
(* every copy, and in the file whenever it is what one save has finished   *)
(* writing, the transitions of a record tell its status and its fields,    *)
(* how they came to be so, and on whose authority, whichever saves came    *)
(* after which; until a session loads a file that is the work of a save    *)
(* unfinished, or of several at once.                                      *)
AuditTells ==
  torn = 0 => /\ whole => AllTold(file)
              /\ \A s \in Session : AllTold(mem[s])

Extends(records, older) ==
  \A i \in Id : older[i] # NoRecord =>
    records[i] # NoRecord /\ IsPrefix(older[i].transitions, records[i].transitions)

(* "Append-only, never in-place" (module docstring): a session that saves  *)
(* a copy of the latest register takes no transition and no record away.   *)
AppendsOnly ==
  \A s \in Session :
    phase[s] \in {"loaded", "opened"} /\ s \notin stale
      => Extends(mem[s].records, latest.records)

(* save_register (lines 141-145): it does not save a copy that has lost    *)
(* the annotations of the register it was loaded from.                     *)
AnnotationsSurvive ==
  \A s \in Session :
    phase[s] = "opened" /\ s \notin stale => (latest.annotated => mem[s].annotated)

(* What a session saves is the register it loaded and more: no record,     *)
(* transition or comment is lost by it.                                    *)
SavesOnlyAdd == AppendsOnly /\ AnnotationsSurvive
=============================================================================
