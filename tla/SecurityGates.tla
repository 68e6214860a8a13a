---------------------------- MODULE SecurityGates ----------------------------
(***************************************************************************)
(* The ladder of security gates (security_gates.py) and the report of one  *)
(* run of it (security_gate_report.py).                                    *)
(*                                                                         *)
(* A layer as it is written is [stray, tools, blocking, timeout, cost_cap, *)
(* pair, opt_in]: blocking and opt_in are "yes", "no" or "unset", an unset *)
(* number is NoNumber and an unset pair NoPair.                            *)
(***************************************************************************)
EXTENDS Integers, SequencesExt, FiniteSetsExt

LAYERS == <<"pre-commit", "ci-fast", "ci-medium", "ci-slow", "llm-observer">>
DefaultBlocking(layer) == layer \in {"pre-commit", "ci-fast", "ci-medium"}
SCANNERS == {"trivy", "grype", "osv-scanner"}
NoNumber == -1
NoPair == <<>>

PairOK(pair) == Len(pair) = 2 /\ pair[1] # pair[2] /\ ToSet(pair) \subseteq SCANNERS

LayerError(name, raw, allowOptIn) ==
  \/ name \notin ToSet(LAYERS) \/ raw.stray
  \/ raw.timeout < NoNumber \/ raw.cost_cap < NoNumber
  \/ raw.pair # NoPair /\ (name # "ci-medium" \/ ~PairOK(raw.pair))
  \/ raw.opt_in # "unset" /\ (name # "ci-slow" \/ ~allowOptIn)

LayerGate(name, raw) ==
  [tools |-> raw.tools, timeout |-> raw.timeout, cost_cap |-> raw.cost_cap, pair |-> raw.pair,
   blocking |-> IF raw.blocking = "unset" THEN DefaultBlocking(name) ELSE raw.blocking = "yes",
   opt_in |-> raw.opt_in = "yes"]

HasNumbers(raws) ==
  \A name \in DOMAIN raws : raws[name].timeout \in Int /\ raws[name].cost_cap \in Int

LayerSetError(raws, allowOptIn) ==
  \E name \in DOMAIN raws : LayerError(name, raws[name], allowOptIn)
LayerSet(raws) == [name \in DOMAIN raws |-> LayerGate(name, raws[name])]

(* A block is [languages, repos], a repo [opt_out, languages, layers].     *)
SecurityGatesError(block) ==
  \/ \E la \in DOMAIN block.languages : LayerSetError(block.languages[la], FALSE)
  \/ \E repo \in DOMAIN block.repos : LayerSetError(block.repos[repo].layers, TRUE)

ParseSecurityGates(block) ==
  [languages |-> [la \in DOMAIN block.languages |-> LayerSet(block.languages[la])],
   repos |-> [repo \in DOMAIN block.repos |->
                [block.repos[repo] EXCEPT !.layers = LayerSet(block.repos[repo].layers)]]]

-----------------------------------------------------------------------------
(* _merge_layer: fold a layer across languages, then lay the repo's over.  *)
(* parts is a function from the places of the languages that have it.      *)
FoldLanguages(name, parts) ==
  LET numbers(field) == {parts[i][field] : i \in DOMAIN parts} \ {NoNumber}
      paired == {i \in DOMAIN parts : parts[i].pair # NoPair}
  IN  [tools |-> UNION {parts[i].tools : i \in DOMAIN parts},
       timeout |-> IF numbers("timeout") = {} THEN NoNumber ELSE Max(numbers("timeout")),
       cost_cap |-> IF numbers("cost_cap") = {} THEN NoNumber ELSE Min(numbers("cost_cap")),
       pair |-> IF paired = {} THEN NoPair ELSE parts[Min(paired)].pair,
       blocking |-> IF DOMAIN parts = {} THEN DefaultBlocking(name)
                    ELSE \E i \in DOMAIN parts : parts[i].blocking,
       opt_in |-> FALSE]

(* override is the set of the repo's own gate for the layer, if it has one *)
MergeLayer(name, parts, override) ==
  LET folded == FoldLanguages(name, parts)
      own == CHOOSE o \in override : TRUE
  IN  IF override = {} THEN folded
      ELSE [tools |-> IF own.tools = {} THEN folded.tools ELSE own.tools,
            timeout |-> IF own.timeout = NoNumber THEN folded.timeout ELSE own.timeout,
            cost_cap |-> IF own.cost_cap = NoNumber THEN folded.cost_cap ELSE own.cost_cap,
            pair |-> IF own.pair = NoPair THEN folded.pair ELSE own.pair,
            blocking |-> own.blocking, opt_in |-> own.opt_in]

(* resolve_repo_gates: the layers a repo has, none when it opted out.      *)
NoEntry == [opt_out |-> FALSE, languages |-> <<>>, layers |-> <<>>]

ResolveRepoGates(config, repo, detected) ==
  LET entry == IF repo \in DOMAIN config.repos THEN config.repos[repo] ELSE NoEntry
      langs == IF entry.languages = <<>> THEN detected ELSE entry.languages
      having(name) == {i \in DOMAIN langs : /\ langs[i] \in DOMAIN config.languages
                                           /\ name \in DOMAIN config.languages[langs[i]]}
      parts(name) == [i \in having(name) |-> config.languages[langs[i]][name]]
      own(name) == IF name \in DOMAIN entry.layers THEN {entry.layers[name]} ELSE {}
      names == {name \in ToSet(LAYERS) : having(name) # {} \/ own(name) # {}}
  IN  IF entry.opt_out THEN [opt_out |-> TRUE, layers |-> <<>>]
      ELSE [opt_out |-> FALSE,
            layers |-> [name \in names |-> MergeLayer(name, parts(name), own(name))]]

-----------------------------------------------------------------------------
(* A report is [layers, disagreements, suppressions].  In a payload what a *)
(* report leaves empty may be missing: a field is then the empty set, and  *)
(* else the set of its value.                                              *)
IsReport(r) ==
  /\ r = [layers |-> r.layers, disagreements |-> r.disagreements,
          suppressions |-> r.suppressions]
  /\ r.layers \in Seq(ToSet(r.layers)) /\ r.disagreements \in Seq(ToSet(r.disagreements))
  /\ r.suppressions \in Seq(ToSet(r.suppressions))
  /\ \A la \in ToSet(r.layers) :
       la = [layer |-> la.layer, verdict |-> la.verdict, findings |-> la.findings]
  /\ \A d \in ToSet(r.disagreements) : d = [tool |-> d.tool, layer |-> d.layer]
  /\ \A s \in ToSet(r.suppressions) :
       s = [justified |-> s.justified, justification |-> s.justification]

VERDICTS == {"pass", "fail", "advisory", "skipped", "not-run"}

Written(value, none) == IF value = none THEN {} ELSE {value}
ReadAs(field, none) == IF field = {} THEN none ELSE CHOOSE value \in field : TRUE

IsBlocked(report) ==
  \/ \E la \in ToSet(report.layers) : la.verdict = "fail"
  \/ \E s \in ToSet(report.suppressions) : ~s.justified

ReportToDict(report) ==
  [blocked |-> IsBlocked(report),
   layers |-> [i \in DOMAIN report.layers |->
                 [report.layers[i] EXCEPT !.findings = Written(@, <<>>)]],
   disagreements |-> [i \in DOMAIN report.disagreements |->
                        [report.disagreements[i] EXCEPT !.layer = Written(@, "")]],
   suppressions |-> [i \in DOMAIN report.suppressions |->
                       [report.suppressions[i] EXCEPT !.justified = {@},
                                                      !.justification = Written(@, "")]]]

PayloadError(data) ==
  \E la \in ToSet(data.layers) : la.layer \notin ToSet(LAYERS) \/ la.verdict \notin VERDICTS

Report(data, justified) ==
  [layers |-> [i \in DOMAIN data.layers |->
                 [data.layers[i] EXCEPT !.findings = ReadAs(@, <<>>)]],
   disagreements |-> [i \in DOMAIN data.disagreements |->
                        [data.disagreements[i] EXCEPT !.layer = ReadAs(@, "")]],
   suppressions |-> [i \in DOMAIN data.suppressions |->
                       [data.suppressions[i] EXCEPT !.justified = ReadAs(@, justified),
                                                    !.justification = ReadAs(@, "")]]]

SlipJustifiedByDefault(data) == Report(data, TRUE)

ReportFromDict(data) == Report(data, FALSE)
=============================================================================
