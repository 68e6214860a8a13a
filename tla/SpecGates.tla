------------------------------ MODULE SpecGates ------------------------------
(***************************************************************************)
(* The pure part of otaman_core/spec_lifecycle.py: the stage model, the    *)
(* three gates under an enforcement mode, the writers that ratify,         *)
(* spec-approve and auto-archive a change, and the resolution of a policy. *)
(*                                                                         *)
(* A change is what its .openspec.yaml says, reduced to what the gates     *)
(* read.  approved_by is kept by its writer: "spec-approve" for the text   *)
(* of apply_spec_approved, "ratify" for the marker of apply_ratification,  *)
(* "" for missing or blank.  The ratified fields only word a refusal of    *)
(* the dispatch gate and are left out.                                     *)
(***************************************************************************)
EXTENDS Naturals, Sequences, SequencesExt

STAGES == <<"pre-proposal", "proposed", "approved", "authored", "spec-approved",
            "dispatched", "implemented", "verified", "archived">>
Stage == ToSet(STAGES)

(* no stage: key, and a stage: that is not one of STAGES *)
NoStage == "none"
BadStage == "bogus"

StageIndex(s) == CHOOSE i \in 1..Len(STAGES) : STAGES[i] = s

IsForward(from, to) ==
  from \in Stage /\ to \in Stage /\ StageIndex(to) > StageIndex(from)

AtLeast(s, floor) == s \in Stage /\ StageIndex(s) >= StageIndex(floor)

ENFORCEMENT == {"block", "warn", "self-waive"}
LEVELS == <<"spec-first", "solutions", "outcomes", "verified">>
DELIVERY == {"hitl", "auto"}

Change ==
  [stage : Stage \cup {NoStage, BadStage},
   research : BOOLEAN,               \* skip_specs or research is truthy
   scr : BOOLEAN,                    \* scr_approved_by is not blank
   approvedBy : {"", "spec-approve", "ratify"},
   delivery : DELIVERY \cup {"unset"},
   outcome : BOOLEAN]                \* an outcome link is there

(* what read_openspec returns for an absent or unparsable file: {} *)
EmptyChange ==
  [stage |-> NoStage, research |-> FALSE, scr |-> FALSE, approvedBy |-> "",
   delivery |-> "unset", outcome |-> FALSE]

IsResearch(c) == c.stage = "pre-proposal" \/ c.research

SpecApprovedReached(c) == AtLeast(c.stage, "spec-approved")

HasApproval(c) == c.approvedBy # ""

-----------------------------------------------------------------------------
(* Decisions *)

Clean == [allowed |-> TRUE, waived |-> FALSE]
Waived == [allowed |-> TRUE, waived |-> TRUE]
Refused == [allowed |-> FALSE, waived |-> FALSE]

Decide(mode, violated) ==
  IF ~violated THEN Clean ELSE IF mode = "block" THEN Refused ELSE Waived

(* _outcome_violation: ok is the caller's verdict on the outcome, which may *)
(* be "unknown" (None)                                                      *)
OutcomeViolated(c, jtbd, ok) == jtbd /\ (~c.outcome \/ ok = "no")

(* The two disagreements of stage and approved_by that no mode waives *)
Disagree(c) == SpecApprovedReached(c) # HasApproval(c)

SlipMergeLenient(c, mode, delta, jtbd, ok) ==
  IF IsResearch(c) \/ ~delta THEN Clean
  ELSE Decide(mode, \/ Disagree(c)
                    \/ ~SpecApprovedReached(c) /\ ~c.scr
                    \/ OutcomeViolated(c, jtbd, ok))

MergeGate(c, mode, delta, jtbd, ok) ==
  IF IsResearch(c) \/ ~delta THEN Clean
  ELSE IF Disagree(c) THEN Refused
  ELSE Decide(mode, \/ ~SpecApprovedReached(c) /\ ~c.scr
                    \/ OutcomeViolated(c, jtbd, ok))

DispatchGate(c, mode) ==
  IF IsResearch(c) THEN Clean ELSE Decide(mode, ~SpecApprovedReached(c))

ArchiveGate(c, mode, delta) ==
  IF IsResearch(c) \/ ~delta THEN Clean ELSE Decide(mode, ~HasApproval(c))

-----------------------------------------------------------------------------
(* The acts *)

(* apply_ratification: a floor at "approved" *)
ApplyRatification(c) ==
  [c EXCEPT !.stage = IF AtLeast(@, "approved") THEN @ ELSE "approved",
            !.approvedBy = "ratify"]

(* validate_spec_approved_transition; eligible: an approver has resolved *)
ValidSpecApproval(c, eligible) ==
  ~IsResearch(c) /\ c.stage = "authored" /\ eligible

(* apply_spec_approved *)
ApplySpecApproved(c) ==
  [c EXCEPT !.stage = "spec-approved", !.approvedBy = "spec-approve"]

ResolveDelivery(c, default) == IF c.delivery = "unset" THEN default ELSE c.delivery

SlipAutoArchiveWaived(c, default, gate) ==
  /\ ResolveDelivery(c, default) = "auto"
  /\ c.stage = "verified"
  /\ gate.allowed

(* auto_archive_decision: a waived archive gate is not a clean one *)
AutoArchive(c, default, gate) ==
  /\ ResolveDelivery(c, default) = "auto"
  /\ c.stage = "verified"
  /\ gate.allowed /\ ~gate.waived

ApplyAutoArchive(c) == [c EXCEPT !.stage = "archived"]

-----------------------------------------------------------------------------
(* spec_policy: "unset" is an absent or null key, "bogus" an invalid value; *)
(* process is a mapping with a level, or "unset", or not a mapping at all.  *)

PolicyBlock ==
  [enforcement : ENFORCEMENT \cup {"unset", "bogus"},
   level : ToSet(LEVELS) \cup {"unset", "bogus", "not-a-mapping"},
   delivery : DELIVERY \cup {"unset", "bogus"}]

Override(org, program) == IF program = "unset" THEN org ELSE program

Valid(value, values, default) == IF value \in values THEN value ELSE default

(* process merges per key: a program's process that is no mapping, or has   *)
(* no level, leaves the org's level in force                                *)
MergedLevel(org, program) ==
  IF program \in {"unset", "not-a-mapping"} THEN org ELSE program

ResolvePolicy(org, program) ==
  [enforcement |-> Valid(Override(org.enforcement, program.enforcement), ENFORCEMENT, "warn"),
   level |-> Valid(MergedLevel(org.level, program.level), ToSet(LEVELS), "spec-first"),
   delivery |-> Valid(Override(org.delivery, program.delivery), DELIVERY, "hitl")]

LevelIndex(l) == CHOOSE i \in 1..Len(LEVELS) : LEVELS[i] = l

(* solutions_stage_required; trigger: impact, estimate or repos ask for it *)
SolutionsRequired(level, trigger) == level # "spec-first" /\ trigger
==============================================================================
