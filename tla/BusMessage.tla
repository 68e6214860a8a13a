----------------------------- MODULE BusMessage -----------------------------
(***************************************************************************)
(* A message of the bus between its sender and its recipients: the         *)
(* validator (validate_message.py), the recipients (bus/dispatch.py) and   *)
(* the copies (bus/cc_fanout.py).  A message is the record of the fields   *)
(* these read.  `to` is the sequence of the names the field splits into,   *)
(* or of the YAML list it may also be.  The optional fields with a         *)
(* vocabulary of their own are one, "ok" or "bad".                         *)
(***************************************************************************)
EXTENDS OwnerPaths

PRIVILEGED_TYPES ==
  {"human-decision", "spec-change-approved", "spec-change-rejected", "emergency-halt"}
BROADCAST_TYPES ==
  {"contract-change", "emergency-halt", "agent-registry-change", "lifecycle-change",
   "spec-change-approved", "announce"}
PATH_ELIGIBLE_TYPES ==
  {"task-assignment", "task-complete", "spec-change-request", "contract-change"}
MACHINE_EMITTED_TYPES ==
  {"outcome-estimate-requested", "outcome-estimates-ready", "outcome-cost-accepted",
   "outcome-cost-rejected", "outcome-status-changed", "solution-status-changed",
   "solution-recommendation", "agent-registry-change", "security-gate-report",
   "post-commit-review", "spec-approval-pending", "request-human-review"}
VALID_TYPES ==
  PRIVILEGED_TYPES \cup BROADCAST_TYPES \cup PATH_ELIGIBLE_TYPES \cup MACHINE_EMITTED_TYPES
    \cup {"info", "question", "spec-change", "review-request", "proposal",
          "outcome-proposal", "decision-required"}

(* The field `to` is compared as the text it is.                           *)
ToIs(m, name) == ~m.toList /\ m.to = <<name>>

-----------------------------------------------------------------------------
(* validate_message_content: the faults it names.  A list in `to` breaks   *)
(* the check of the names, which only known agents call for.               *)
Crashes(m, known) == known # {} /\ m.toList /\ m.to # <<>>

SlipPathUnchecked(m, known) ==
  LET faults ==
        [required |-> m.absent # {},
         privileged |-> m.type \in PRIVILEGED_TYPES /\ m.from # "human",
         repo |-> m.path.shape # "absent" /\ m.repo = "",
         recipient |-> known # {} /\ ~ToIs(m, "all")
                         /\ ~(ToSet(m.to) \subseteq known \cup {"human", "all"}),
         broadcast |-> ToIs(m, "all") /\ m.type \notin BROADCAST_TYPES]
  IN  {f \in DOMAIN faults : faults[f]}

Faults(m, known) ==
  LET faults ==
        [required |-> m.absent # {},
         timestamp |-> "timestamp" \notin m.absent /\ ~m.dated,
         type |-> "type" \notin m.absent /\ m.type \notin VALID_TYPES,
         privileged |-> m.type \in PRIVILEGED_TYPES /\ m.from # "human",
         decision |-> m.type = "decision-required" /\ ~m.decides,
         optional |-> m.optional = "bad",
         expects |-> m.expects = "bad" \/ (m.expects = "no" /\ m.type = "task-assignment"),
         pathType |-> m.path.shape # "absent" /\ "type" \notin m.absent
                        /\ m.type \notin PATH_ELIGIBLE_TYPES,
         path |-> \/ m.path.shape = "other"
                  \/ m.path.shape \in {"text", "list"}
                       /\ (m.path.paths = <<>> \/ <<>> \in ToSet(m.path.paths)),
         repo |-> m.path.shape # "absent" /\ m.repo = "",
         recipient |-> known # {} /\ ~ToIs(m, "all")
                         /\ ~(ToSet(m.to) \subseteq known \cup {"human", "all"}),
         broadcast |-> ToIs(m, "all") /\ "type" \notin m.absent
                         /\ m.type \notin BROADCAST_TYPES,
         subject |-> ~m.subject]
  IN  {f \in DOMAIN faults : faults[f]}

(* validate_message_before_write, which every writer asks.                 *)
Valid(m, known) == ~Crashes(m, known) /\ Faults(m, known) = {}

-----------------------------------------------------------------------------
(* dispatch: by the field `to`, or by the owners of the paths.             *)
DispatchError == [ok |-> FALSE, mode |-> "none", recipients |-> <<>>]

Dispatch(m, platform) ==
  LET paths == IF m.path.shape = "list" THEN ToSet(m.path.paths) \ {<<>>} ELSE ToSet(m.path.paths)
      owners == {ResolveOwner(platform, m.repo, p) : p \in paths}
  IN  IF m.path.shape = "absent" THEN [ok |-> TRUE, mode |-> "to", recipients |-> m.to]
      ELSE IF \/ m.repo = "" \/ m.path.shape = "other" \/ paths = {}
              \/ GetRepo(platform, m.repo) = {}
      THEN DispatchError
      ELSE [ok |-> TRUE, mode |-> IF Cardinality(owners) > 1 THEN "multicast" ELSE "path",
            recipients |-> SetToSeq(owners)]

-----------------------------------------------------------------------------
(* A routing rule is [known, to, priority, types, cc], each constraint     *)
(* either Unset or the set of the values it allows; a rule with a key the    *)
(* evaluator does not know is skipped.                                     *)
Unset == {"any"}
Allows(constraint, value) == constraint = Unset \/ value \in constraint

Applies(rule, to, priority, type) ==
  /\ rule.known
  /\ rule.to = Unset \/ \E name \in rule.to : to = <<name>>
  /\ Allows(rule.priority, priority)
  /\ Allows(rule.types, type)

EvaluateRules(rules, to, priority, type) ==
  UNION {rules[i].cc : i \in {j \in DOMAIN rules : Applies(rules[j], to, priority, type)}}

SlipNotPrimary(to, priority, explicit, rules, type) ==
  explicit \o SetToSeq(EvaluateRules(rules, to, priority, type) \ ToSet(explicit))

(* The copies, by the place of their name among the candidates.            *)
EffectiveCc(to, priority, explicit, rules, type) ==
  LET candidates == explicit \o SetToSeq(EvaluateRules(rules, to, priority, type))
      seen(i) == {candidates[j] : j \in 1..(i - 1)}
      kept == {i \in DOMAIN candidates : to # <<candidates[i]>> /\ candidates[i] \notin seen(i)}
  IN  [i \in kept |-> candidates[i]]

(* The frontmatter is a sequence of <<key, value>>: YAML keeps the last    *)
(* value of a key.  inject_x_cc adds a line at its end; without any line   *)
(* its expression does not match and the text stays as it is.              *)
Field(fm, key) ==
  LET lines == {i \in DOMAIN fm : fm[i][1] = key}
  IN  IF lines = {} THEN "absent" ELSE fm[Max(lines)][2]

InjectXCc(fm) == IF fm = <<>> THEN fm ELSE Append(fm, <<"x-cc", "true">>)
IsCcCopy(fm) == Field(fm, "x-cc") \in {"true", "TRUE"}
=============================================================================
