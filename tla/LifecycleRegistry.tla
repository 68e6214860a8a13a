-------------------------- MODULE LifecycleRegistry --------------------------
(***************************************************************************)
(* The program lifecycle registry (otaman_core/lifecycle.py): one YAML     *)
(* file per org that maps a program to its state and to the append-only    *)
(* history of its transitions.  record_transition loads the file, appends, *)
(* and writes the whole registry back over a temp file, with no lock.      *)
(* Services read the file through read_program_state.                      *)
(*                                                                         *)
(* Writers are operating-system processes that run one call after another  *)
(* and may die between any two system calls.  Arguments that               *)
(* record_transition rejects (an unknown state, an empty "by") leave       *)
(* everything as it was and are not enumerated.                            *)
(***************************************************************************)
EXTENDS Naturals, Sequences, SequencesExt

CONSTANTS
  Writer,    \* processes that call record_transition
  Service,   \* processes that call read_program_state
  Program,
  State,     \* LIFECYCLE_STATES
  Default,   \* DEFAULT_STATE, "active"
  MaxCalls,  \* bound: calls of record_transition in one behaviour
  MayBreak,  \* may a hand edit leave the file unparsable
  Absent, Empty, Garbled,
  NoAnswer,
  NoJob

ASSUME LifecycleAssumption ==
  /\ Default \in State
  /\ MaxCalls \in Nat
  /\ MayBreak \in BOOLEAN
  /\ NoAnswer \notin State

VARIABLES
  live, tmp, at,  \* lifecycle.yaml, lifecycle.yaml.tmp, the writers' inodes
  pc,             \* [Writer -> where its record_transition is]
  job,            \* [Writer -> the program and state it was called with]
  view,           \* [Writer -> the registry it loaded]
  clock,          \* the time the next record is stamped with
  reading,        \* [Service -> has it found the file, not yet read it]
  answer,         \* [Service -> what read_program_state returned last]
  asked,          \* [Service -> the program it asked about]
  recorded,       \* history variable: the records whose call returned
  overlapped,     \* history variable: have two calls ever run at once
  damaged         \* history variable: has a hand edit ever broken the file

fileVars == <<live, tmp, at>>
callVars == <<pc, job, view, clock>>
readVars == <<reading, answer, asked>>
ghosts == <<recorded, overlapped, damaged>>
vars == <<fileVars, callVars, readVars, ghosts>>

(* One transition of a program's history: its state, and "since" for the   *)
(* fields that identify it (since, by, reason).                            *)
Record == [state : State, since : Nat]

(* What a parsable lifecycle.yaml says.  A program without an entry has no *)
(* history; an entry's current state mirrors the last record.              *)
Registry == [Program -> Seq(Record)]
NoOverrides == [p \in Program |-> <<>>]

(* a file without content is no registry *)
ASSUME MarkAssumption == {Absent, Empty, Garbled} \cap Registry = {}

File == INSTANCE TempReplace WITH Content <- Registry

Job == [program : Program, state : State]
Place == {"idle", "loaded", "opened", "flushed", "dead"}

(* load_lifecycle: absent, empty and unparsable files all read as "no      *)
(* overrides"; a present, readable one as what it says.                    *)
Loaded(f) == IF File!Readable(f) THEN f ELSE NoOverrides

(* get_state: no entry means active *)
CurrentState(reg, p) == IF reg[p] = <<>> THEN Default ELSE Last(reg[p]).state

Init ==
  /\ File!FileInit(Absent)
  /\ pc = [w \in Writer |-> "idle"]
  /\ job = [w \in Writer |-> NoJob]
  /\ view = [w \in Writer |-> NoOverrides]
  /\ clock = 0
  /\ reading = [s \in Service |-> FALSE]
  /\ answer = [s \in Service |-> NoAnswer]
  /\ asked \in [Service -> Program]
  /\ recorded = NoOverrides
  /\ overlapped = FALSE /\ damaged = FALSE

(* The call is over, its locals are gone. *)
Finish(w, how) ==
  /\ pc' = [pc EXCEPT ![w] = how]
  /\ job' = [job EXCEPT ![w] = NoJob]
  /\ view' = [view EXCEPT ![w] = NoOverrides]

InCall(w) == pc[w] \notin {"idle", "dead"}

----------------------------------------------------------------------------
(* record_transition *)

(* registry = load_lifecycle(path) *)
Load(w) ==
  /\ pc[w] = "idle"
  /\ pc' = [pc EXCEPT ![w] = "loaded"]
  /\ \E j \in Job : job' = [job EXCEPT ![w] = j]
  /\ view' = [view EXCEPT ![w] = Loaded(live)]
  /\ overlapped' = (overlapped \/ \E v \in Writer \ {w} : InCall(v))
  /\ UNCHANGED <<fileVars, clock, readVars, recorded, damaged>>

(* A Slip... operator is a plausible mistake that some property must see.  *)

(* The record is stamped with the clock ... *)
NewRecord(w) == [state |-> job[w].state, since |-> clock]

(* starting the program's history afresh *)
SlipDropHistory(w) ==
  /\ pc[w] = "loaded"
  /\ clock < MaxCalls
  /\ pc' = [pc EXCEPT ![w] = "opened"]
  /\ view' = [view EXCEPT ![w][job[w].program] = <<NewRecord(w)>>]
  /\ clock' = clock + 1
  /\ File!OpenTmp(w)
  /\ UNCHANGED <<job, readVars, ghosts>>

(* opening lifecycle.yaml itself for writing *)
SlipWriteInPlace(w) ==
  /\ pc[w] = "loaded"
  /\ clock < MaxCalls
  /\ pc' = [pc EXCEPT ![w] = "opened"]
  /\ view' = [view EXCEPT ![w][job[w].program] = Append(@, NewRecord(w))]
  /\ clock' = clock + 1
  /\ live' = Empty
  /\ at' = [at EXCEPT ![w] = "live"]
  /\ UNCHANGED <<tmp, job, readVars, ghosts>>

(* ... and appended to the program's prior history; the other entries are  *)
(* carried over, and _write_registry opens the temp file.                  *)
AppendRecord(w) ==
  /\ pc[w] = "loaded"
  /\ clock < MaxCalls
  /\ pc' = [pc EXCEPT ![w] = "opened"]
  /\ view' = [view EXCEPT ![w][job[w].program] = Append(@, NewRecord(w))]
  /\ clock' = clock + 1
  /\ File!OpenTmp(w)
  /\ UNCHANGED <<job, readVars, ghosts>>

(* tmp.write_text(yaml.safe_dump(payload)) *)
WriteTmp(w) ==
  /\ pc[w] = "opened"
  /\ pc' = [pc EXCEPT ![w] = "flushed"]
  /\ File!FlushTmp(w, view[w])
  /\ UNCHANGED <<job, view, clock, readVars, ghosts>>

(* os.replace(tmp, path), and the call returns its entry; it changes       *)
(* nothing in between, so that dying there is dying after the return.      *)
Publish(w) ==
  /\ pc[w] = "flushed"
  /\ Finish(w, "idle")
  /\ File!ReplaceLive
  /\ recorded' = [recorded EXCEPT ![job[w].program] = Append(@, Last(view[w][job[w].program]))]
  /\ UNCHANGED <<clock, readVars, overlapped, damaged>>

(* chmod (ignored) and os.replace find no temp file: the call raises *)
PublishFails(w) ==
  /\ pc[w] = "flushed"
  /\ Finish(w, "idle")
  /\ File!ReplaceMissing
  /\ UNCHANGED <<clock, readVars, ghosts>>

Die(w) ==
  /\ pc[w] # "dead"
  /\ Finish(w, "dead")
  /\ File!DropFd(w)
  /\ UNCHANGED <<clock, readVars, ghosts>>

----------------------------------------------------------------------------
(* read_program_state *)

(* path.is_file(): an absent file answers at once *)
ReadAbsent(s) ==
  /\ ~reading[s]
  /\ live = Absent
  /\ \E p \in Program : asked' = [asked EXCEPT ![s] = p]
  /\ answer' = [answer EXCEPT ![s] = Default]
  /\ UNCHANGED <<fileVars, callVars, reading, ghosts>>

ReadBegin(s) ==
  /\ ~reading[s]
  /\ live # Absent
  /\ \E p \in Program : asked' = [asked EXCEPT ![s] = p]
  /\ reading' = [reading EXCEPT ![s] = TRUE]
  /\ answer' = [answer EXCEPT ![s] = NoAnswer]
  /\ UNCHANGED <<fileVars, callVars, ghosts>>

(* falling back to a temp file that a crashed writer left behind *)
SlipRecoverTmp(s) ==
  /\ reading[s]
  /\ reading' = [reading EXCEPT ![s] = FALSE]
  /\ answer' = [answer EXCEPT ![s] =
       CurrentState(IF File!Readable(live) THEN live ELSE Loaded(tmp), asked[s])]
  /\ UNCHANGED <<fileVars, callVars, asked, ghosts>>

ReadReturn(s) ==
  /\ reading[s]
  /\ reading' = [reading EXCEPT ![s] = FALSE]
  /\ answer' = [answer EXCEPT ![s] = CurrentState(Loaded(live), asked[s])]
  /\ UNCHANGED <<fileVars, callVars, asked, ghosts>>

(* A hand edit is saved half done: the file does not parse any more. *)
Break ==
  /\ MayBreak
  /\ File!Readable(live)
  /\ live' = Garbled
  /\ damaged' = TRUE
  /\ UNCHANGED <<tmp, at, callVars, readVars, recorded, overlapped>>

----------------------------------------------------------------------------

Next ==
  \/ \E w \in Writer :
       \/ Load(w) \/ AppendRecord(w) \/ WriteTmp(w)
       \/ Publish(w) \/ PublishFails(w) \/ Die(w)
  \/ \E s \in Service : ReadAbsent(s) \/ ReadBegin(s) \/ ReadReturn(s)
  \/ Break

Spec == Init /\ [][Next]_vars

----------------------------------------------------------------------------
(* Properties *)

TypeOK ==
  /\ File!FileTypeOK
  /\ pc \in [Writer -> Place]
  /\ job \in [Writer -> Job \cup {NoJob}]
  /\ view \in [Writer -> Registry]
  /\ clock \in Nat
  /\ reading \in [Service -> BOOLEAN]
  /\ answer \in [Service -> State \cup {NoAnswer}]
  /\ asked \in [Service -> Program]
  /\ recorded \in Registry
  /\ overlapped \in BOOLEAN /\ damaged \in BOOLEAN

(* As long as no two calls overlap and nobody breaks the file, what the    *)
(* registry says is exactly what the calls that returned have recorded, in *)
(* order, for every program: crashes at any point of a call neither lose a *)
(* record nor leave half of one (lines 190-247).                           *)
RecordedIsDurable == ~overlapped /\ ~damaged => Loaded(live) = recorded

(* "Every per-org service SHALL resolve state through this so there is     *)
(* exactly one notion of program lifecycle" (lines 165-172): under the     *)
(* same condition a service is told the state the last completed           *)
(* transition gave the program, and never falls back to "active" because   *)
(* it caught the file half written.                                        *)
ReadTellsRecorded ==
  [][\A s \in Service :
       reading[s] /\ ~reading'[s] /\ ~overlapped /\ ~damaged
         => answer'[s] = CurrentState(recorded, asked[s])]_vars

(* load_lifecycle (lines 140-156) treats an unreadable registry as "no     *)
(* overrides": a broken file may let a program run, but it never makes a   *)
(* service stop one.  What a service is told other than "active" is what   *)
(* the last completed transition of that program recorded, broken edits    *)
(* and the writes that follow them included.                               *)
RestrictionIsReal ==
  [][\A s \in Service :
       /\ reading[s] /\ ~reading'[s] /\ ~overlapped
       /\ answer'[s] # Default
       => answer'[s] = CurrentState(recorded, asked[s])]_vars

(* record_transition's docstring (lines 201-203): "History is append-only  *)
(* ... Other programs are preserved".  Whatever step replaces the file,    *)
(* the history of every program grows at its end or stays.                 *)
HistoryAppendOnly ==
  [][\A p \in Program : IsPrefix(Loaded(live)[p], Loaded(live')[p])]_vars
==============================================================================
