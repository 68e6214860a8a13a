------------------------------- MODULE Review -------------------------------
(***************************************************************************)
(* What a reviewer goes by: which messages must be seen (review_policy.py) *)
(* and the free lint of a proposal (spec_gate.py), the proposal that a     *)
(* spec change request and its .openspec.yaml make, its findings and its   *)
(* score.                                                                  *)
(*                                                                         *)
(* A block is [declared, stray, mandatory, auto_triage, opt_in], sets of   *)
(* message types; declared is FALSE for a program that has none.           *)
(*                                                                         *)
(* A text is "" (empty), "TODO" (a placeholder) or "text".  A request is   *)
(* [subject, sections, clauses, secret]: clauses are those of the first    *)
(* sentence of its routing section, each the first word and the other repo *)
(* slugs of the clause, and secret says where a secret is, "none",         *)
(* "section" or "outside" (outside of every section).  .openspec.yaml is   *)
(* [found, outcome_id, outcome], each an id, "" or "prose".                *)
(***************************************************************************)
EXTENDS Integers, FiniteSets, SequencesExt

CONSTANTS
  RepoSlugs,      \* the words that have the form of a repo's name
  OutcomeIds      \* the words that have the form of an outcome's id

(* An empty text has no form of an id, nor has a placeholder.              *)
ASSUME OutcomeIdsAssumption == {"", "TODO"} \cap OutcomeIds = {}

DEFAULT_MANDATORY ==
  {"decision-required", "spec-change-request", "spec-approval-pending", "request-human-review",
   "outcome-proposal"}
DEFAULT_AUTO_TRIAGE ==
  {"task-complete", "info", "announce", "outcome-status-changed", "solution-status-changed",
   "lifecycle-change", "agent-registry-change", "post-commit-review"}

ReviewPolicyError(block) ==
  block.declared /\ (block.stray \/ block.mandatory \cap block.auto_triage # {})

ParseReviewPolicy(block) ==
  IF block.declared
  THEN [mandatory |-> block.mandatory, auto_triage |-> block.auto_triage, source |-> "program"]
  ELSE [mandatory |-> DEFAULT_MANDATORY, auto_triage |-> DEFAULT_AUTO_TRIAGE,
        source |-> "shipped-default"]

Classify(policy, type, priority) ==
  IF priority = "urgent" \/ type \in policy.mandatory THEN "mandatory"
  ELSE IF type \in policy.auto_triage THEN "auto-triage" ELSE "opt-in"

-----------------------------------------------------------------------------
SECTION_KEYS ==
  {"problem", "evidence", "impact", "direction", "scope", "routing", "workaround"}
TEXT_FIELDS == {"title"} \cup SECTION_KEYS

ReposFromRouting(clauses) == {c.head : c \in ToSet(clauses)} \cap RepoSlugs

OutcomeOf(openspec) ==
  CASE ~openspec.found -> ""
    [] openspec.found /\ openspec.outcome_id # "" -> openspec.outcome_id
    [] OTHER -> openspec.outcome

ProposalFromScr(scr, openspec) ==
  [text |-> [f \in TEXT_FIELDS |-> IF f = "title" THEN scr.subject ELSE scr.sections[f]],
   outcome |-> OutcomeOf(openspec), affected_repos |-> ReposFromRouting(scr.clauses),
   change_id |-> "", secrets |-> {scr.secret} \ {"none"}]

-----------------------------------------------------------------------------
(* lint_proposal: a finding is <<code, what>>.  platform, outcomes and     *)
(* changes are the repos, ids and changes that resolve.                    *)
MissingFields(proposal) ==
  {f \in TEXT_FIELDS : proposal.text[f] = ""}
  \cup {f \in {"outcome"} : proposal.outcome = ""}
  \cup {f \in {"affected_repos"} : proposal.affected_repos = {}}

OutcomeFindings(proposal, outcomes) ==
  CASE proposal.outcome = "" -> {}
    [] proposal.outcome \notin OutcomeIds \cup {""} -> {"malformed-outcome"}
    [] OTHER -> IF proposal.outcome \in outcomes THEN {} ELSE {"unresolved-outcome"}

Placeholders(proposal) ==
  {f \in TEXT_FIELDS : proposal.text[f] = "TODO"}
  \cup {f \in {"outcome"} : proposal.outcome = "TODO"}

LintFindings(proposal, platform, outcomes, changes) ==
  ({"missing-field"} \X MissingFields(proposal))
  \cup (OutcomeFindings(proposal, outcomes) \X {"outcome"})
  \cup ({"unresolved-citation"} \X ({proposal.change_id} \ (changes \cup {""})))
  \cup ({"secret-in-body"} \X proposal.secrets)
  \cup ({"placeholder-in-field"} \X Placeholders(proposal))
  \cup ({"unknown-repo"} \X (proposal.affected_repos \ platform))

IsWarning(finding) == finding[1] = "malformed-outcome"
LintErrors(findings) == {f \in findings : ~IsWarning(f)}

(* A score starts at 100 and loses 25 for each error and 10 for a warning. *)
LintScore(findings) ==
  LET errors == LintErrors(findings)
      taken == 25 * Cardinality(errors) + 10 * Cardinality(findings \ errors)
  IN  IF taken > 100 THEN 0 ELSE 100 - taken

ScoreTier(score) ==
  CASE score >= 90 -> "excellent"
    [] score \in 75..89 -> "strong"
    [] score \in 50..74 -> "adequate"
    [] score \in 25..49 -> "weak"
    [] score < 25 -> "failing"
=============================================================================
