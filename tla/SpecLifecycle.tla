---------------------------- MODULE SpecLifecycle ----------------------------
(***************************************************************************)
(* One change's .openspec.yaml under the acts that rewrite it and the      *)
(* dispatch gate that consults it (otaman_core/spec_lifecycle.py).         *)
(*                                                                         *)
(* Every act is a read-modify-write without a lock: set_stage inside the   *)
(* module, the others in the surfaces (cli, console) that read with        *)
(* read_openspec, apply one of the module's pure writers and save.  So an  *)
(* act is two steps, and acts of several surfaces interleave.  The temp    *)
(* file they share is in LifecycleRegistry, which writes the same way.     *)
(*                                                                         *)
(* The surfaces move a change forward only, mint "spec-approved" only by   *)
(* the approval act, and consult the gates before a stage past it; a bare  *)
(* set_stage, to any stage of Forced, consults nothing.                    *)
(***************************************************************************)
EXTENDS SpecGates

CONSTANTS
  Surface,          \* processes that act on the change
  Enforcement,      \* the spec_policy.enforcement modes a program may have
  DeliveryDefault,  \* the program's delivery_default
  Delta,            \* does the change touch a capability delta
  Forced,           \* stages set by a bare set_stage
  MayBreak          \* may a hand edit leave the file unparsable

ASSUME SpecAssumption ==
  /\ Enforcement \subseteq ENFORCEMENT
  /\ DeliveryDefault \in DELIVERY
  /\ Delta \in BOOLEAN /\ MayBreak \in BOOLEAN
  /\ Forced \subseteq Stage

VARIABLES
  mode,      \* the program's enforcement mode, which no act changes
  kind,      \* the file: "absent", "parsed", or "broken" (present, unparsable)
  change,    \* what the file says, or would say if it parsed
  act,       \* [Surface -> the act it is in, or "none"]
  draft,     \* [Surface -> the change it is about to write]
  looking,   \* the dispatch consult: "no", "present", "parsed"
  verdict,   \* its last answer: "none" or a decision's name
  neverRead, \* history variable: has the file been unparsable throughout it
  bare       \* history variable: has a bare set_stage ever begun

fileVars == <<kind, change>>
actVars == <<act, draft>>
gateVars == <<looking, verdict, neverRead>>
vars == <<mode, fileVars, actVars, gateVars, bare>>

Act == {"none", "scr", "ratify", "approve", "advance", "force", "auto-archive"}

(* read_openspec: {} for an absent or unparsable file *)
ReadOpenspec == IF kind = "parsed" THEN change ELSE EmptyChange

Init ==
  /\ mode \in Enforcement
  /\ \/ kind = "absent" /\ change = EmptyChange
     \/ /\ kind = "parsed"
        /\ \E s \in {"pre-proposal", "proposed"} :
             change = [EmptyChange EXCEPT !.stage = s]
  /\ act = [a \in Surface |-> "none"]
  /\ draft = [a \in Surface |-> EmptyChange]
  /\ looking = "no" /\ verdict = "none" /\ neverRead = FALSE
  /\ bare = FALSE

----------------------------------------------------------------------------
(* Acts: read and prepare *)

Begin(a, name, c) ==
  /\ act[a] = "none"
  /\ act' = [act EXCEPT ![a] = name]
  /\ draft' = [draft EXCEPT ![a] = c]
  /\ bare' = (bare \/ name = "force")
  /\ UNCHANGED <<mode, fileVars, gateVars>>

(* the authorization to author: scr_approved_by *)
BeginScr(a) == Begin(a, "scr", [ReadOpenspec EXCEPT !.scr = TRUE])

BeginRatify(a) == Begin(a, "ratify", ApplyRatification(ReadOpenspec))

BeginApprove(a) ==
  /\ ValidSpecApproval(ReadOpenspec, TRUE)
  /\ Begin(a, "approve", ApplySpecApproved(ReadOpenspec))

SlipAdvanceUngated(a, to) ==
  /\ IsForward(ReadOpenspec.stage, to)
  /\ to # "spec-approved"
  /\ AtLeast(to, "dispatched") => ~IsResearch(ReadOpenspec)
  /\ Begin(a, "advance", [ReadOpenspec EXCEPT !.stage = to])

(* set_stage to a later stage, behind the gate of that stage; a research   *)
(* change dispatches nothing                                               *)
Advance(a, to) ==
  LET c == ReadOpenspec
  IN  /\ IsForward(c.stage, to)
      /\ to # "spec-approved"
      /\ AtLeast(to, "dispatched")
           => ~IsResearch(c) /\ DispatchGate(c, mode).allowed
      /\ to = "archived" => ArchiveGate(c, mode, Delta).allowed
      /\ Begin(a, "advance", [c EXCEPT !.stage = to])

(* set_stage(path, stage): _rewrite_yaml_key loads, and sets the one key *)
ForceStage(a, to) ==
  /\ to \in Forced
  /\ Begin(a, "force", [ReadOpenspec EXCEPT !.stage = to])

BeginAutoArchive(a) ==
  LET c == ReadOpenspec
  IN  /\ AutoArchive(c, DeliveryDefault, ArchiveGate(c, mode, Delta))
      /\ Begin(a, "auto-archive", ApplyAutoArchive(c))

(* Acts: write *)

Finish(a) ==
  /\ act' = [act EXCEPT ![a] = "none"]
  /\ draft' = [draft EXCEPT ![a] = EmptyChange]

(* the whole mapping replaces the file *)
Write(a) ==
  /\ act[a] # "none"
  /\ kind' = "parsed"
  /\ change' = draft[a]
  /\ neverRead' = FALSE
  /\ Finish(a)
  /\ UNCHANGED <<mode, bare, looking, verdict>>

(* the surface dies before it has written *)
Abandon(a) ==
  /\ act[a] # "none"
  /\ Finish(a)
  /\ UNCHANGED <<mode, bare, fileVars, gateVars>>

(* A hand edit: an unquoted colon, and later the quotes. *)
Break ==
  /\ MayBreak
  /\ kind = "parsed"
  /\ kind' = "broken"
  /\ UNCHANGED <<mode, bare, change, actVars, gateVars>>

Repair ==
  /\ kind = "broken"
  /\ kind' = "parsed"
  /\ neverRead' = FALSE
  /\ UNCHANGED <<mode, bare, change, actVars, looking, verdict>>

----------------------------------------------------------------------------
(* check_dispatch_gate_at: three looks at the file *)

Name(d) == IF ~d.allowed THEN "refuse" ELSE IF d.waived THEN "waive" ELSE "allow"

(* path.is_file(): no file, no gate *)
LookAbsent ==
  /\ looking = "no" /\ kind = "absent"
  /\ verdict' = "allow"
  /\ UNCHANGED <<mode, bare, fileVars, actVars, looking, neverRead>>

LookPresent ==
  /\ looking = "no" /\ kind # "absent"
  /\ looking' = "present"
  /\ verdict' = "none"
  /\ neverRead' = (kind = "broken")
  /\ UNCHANGED <<mode, bare, fileVars, actVars>>

(* openspec_is_unreadable: fail closed in every mode *)
LookUnparsable ==
  /\ looking = "present" /\ kind = "broken"
  /\ looking' = "no"
  /\ verdict' = "refuse"
  /\ UNCHANGED <<mode, bare, fileVars, actVars, neverRead>>

LookParsed ==
  /\ looking = "present" /\ kind # "broken"
  /\ looking' = "parsed"
  /\ UNCHANGED <<mode, bare, fileVars, actVars, verdict, neverRead>>

(* check_dispatch_gate(read_openspec(path), policy) *)
LookDecide ==
  /\ looking = "parsed"
  /\ looking' = "no"
  /\ verdict' = Name(DispatchGate(ReadOpenspec, mode))
  /\ UNCHANGED <<mode, bare, fileVars, actVars, neverRead>>

----------------------------------------------------------------------------

Next ==
  \/ \E a \in Surface :
       \/ BeginScr(a) \/ BeginRatify(a) \/ BeginApprove(a) \/ BeginAutoArchive(a)
       \/ \E to \in Stage : Advance(a, to) \/ ForceStage(a, to)
       \/ Write(a) \/ Abandon(a)
  \/ Break \/ Repair
  \/ LookAbsent \/ LookPresent \/ LookUnparsable \/ LookParsed \/ LookDecide

Spec == Init /\ [][Next]_vars

----------------------------------------------------------------------------
(* Properties *)

TypeOK ==
  /\ mode \in ENFORCEMENT /\ bare \in BOOLEAN
  /\ kind \in {"absent", "parsed", "broken"}
  /\ change \in Change
  /\ act \in [Surface -> Act]
  /\ draft \in [Surface -> Change]
  /\ looking \in {"no", "present", "parsed"}
  /\ verdict \in {"none", "allow", "waive", "refuse"}
  /\ neverRead \in BOOLEAN

Attested(c) == SpecApprovedReached(c) => HasApproval(c)

(* Under enforcement "block", as long as no stage was set past the gates,  *)
(* no interleaving of acts, lost update, death or broken file leaves a     *)
(* change at or past spec-approved without approved_by, the disagreement   *)
(* that check_merge_gate refuses in every mode (lines 477-487).            *)
AttestedPastReview == mode = "block" /\ ~bare => Attested(change)

(* A change that archived itself had an approval, or is one no gate is     *)
(* for, in every enforcement mode: it may have passed dispatch and review  *)
(* under a waiver, but not the archive gate (lines 807-844).               *)
AutoArchiveApproved ==
  \A a \in Surface :
    act[a] = "auto-archive" => HasApproval(draft[a]) \/ draft[a].research \/ ~Delta

(* openspec_is_unreadable (lines 167-181): a consult during which the file *)
(* never parsed does not let a dispatch through, in any enforcement mode.  *)
UnparsableRefused == looking = "no" /\ neverRead => verdict = "refuse"

(* A lenient enforcement mode waives a gate and nothing else: not the      *)
(* archive gate of an automatic archive, and not a file that no one could  *)
(* read.                                                                   *)
LeniencyHasBounds == AutoArchiveApproved /\ UnparsableRefused
==============================================================================
