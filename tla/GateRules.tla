------------------------------ MODULE GateRules ------------------------------
(***************************************************************************)
(* What the gates owe those who rely on them: the three gates of a change  *)
(* and its spec_policy, the choice of critics, the security ladder and its *)
(* report, what a reviewer sees, the policy packs, the changelog, the      *)
(* router of model calls and the roster of humans.  Each state is one      *)
(* input, of one of them, and the first step gives it.                     *)
(***************************************************************************)
EXTENDS SpecGates, VerificationGates, SecurityGates, Review, PolicyEngine, Changelog,
        LlmRouter, HumanRoster

CONSTANTS
  Hooks, Contexts,             \* configurations of a hook, and what is selected for
  Ladders, Detected,           \* security-gates blocks, and sequences of languages
  Reports, Payloads,
  ReviewBlocks, MessageTypes,
  Requests, Openspecs, PlatformRepos, Outcomes,
  PolicyFolders, Selections,
  ChangedPaths, PrNumbers,
  Piles,                       \* sequences of piles, each as the next cut sees it
  Routers, AgentLists, Classes,
  Rosters, AccountLists

(* An input is what a YAML file or a payload is once it has been read: the *)
(* fields it has, numbers where numbers are read, and lists.               *)
IsList(s) == s \in Seq(ToSet(s))
ASSUME AskAssumption ==
  /\ \A r \in Rosters : IsList(r)
  /\ \A langs \in Detected : IsList(langs)
  /\ \A piles \in Piles :
       IsList(piles) /\ \A i \in DOMAIN piles : \A f \in piles[i] : f.name # ""
  /\ \A b \in Ladders :
       /\ \A la \in DOMAIN b.languages : HasNumbers(b.languages[la])
       /\ \A repo \in DOMAIN b.repos :
            LET r == b.repos[repo]
            IN  /\ r = [opt_out |-> r.opt_out, languages |-> r.languages, layers |-> r.layers]
                /\ IsList(r.languages) /\ HasNumbers(r.layers)
  /\ \A r \in Reports : IsReport(r) /\ \A s \in ToSet(r.suppressions) : s.justified \in BOOLEAN
  /\ \A d \in Payloads :
       IsReport(d) /\ \A s \in ToSet(d.suppressions) : s.justified \subseteq BOOLEAN
  /\ \A r \in Requests : IsList(r.clauses)
  /\ \A f \in PolicyFolders :
       f = [index_ok |-> f.index_ok, narrow_only |-> f.narrow_only, files |-> f.files]
  /\ \A s \in Selections : s = [program |-> s.program, repo |-> s.repo, agent |-> s.agent]

VARIABLE asked
askVars == <<asked>>

Nothing == [kind |-> "nothing"]
AskInit == asked = Nothing

AskChange ==
  \E c \in Change, d \in BOOLEAN, j \in BOOLEAN, ok \in {"yes", "no", "unknown"} :
    asked' = [kind |-> "change", change |-> c, delta |-> d, jtbd |-> j, ok |-> ok]
AskBlocks ==
  \E org, program \in PolicyBlock : asked' = [kind |-> "blocks", org |-> org, program |-> program]

AskCritics ==
  \E h \in Hooks, ctx \in Contexts : asked' = [kind |-> "critics", config |-> h, ctx |-> ctx]
AskLadder ==
  \E b \in Ladders, langs \in Detected, la \in {"py", "js"} :
    asked' = [kind |-> "ladder", block |-> b, langs |-> langs, more |-> la]
AskReport ==
  \/ \E r \in Reports : asked' = [kind |-> "report", report |-> r]
  \/ \E d \in Payloads : asked' = [kind |-> "payload", data |-> d]
AskReview ==
  \E b \in ReviewBlocks, t \in MessageTypes, p \in {"urgent", "high", ""} :
    asked' = [kind |-> "review", block |-> b, type |-> t, priority |-> p]
AskLint ==
  \E r \in Requests, o \in Openspecs : asked' = [kind |-> "lint", scr |-> r, openspec |-> o]
AskPolicy ==
  \E f \in PolicyFolders, s \in Selections :
    asked' = [kind |-> "policy", folder |-> f, selection |-> s]
AskMerge ==
  \E paths \in SUBSET ChangedPaths, more \in ChangedPaths, pr \in PrNumbers, e \in BOOLEAN :
    asked' = [kind |-> "merge", paths |-> paths, more |-> more, pr |-> pr, exempt |-> e]
AskCuts == \E piles \in Piles : asked' = [kind |-> "cuts", piles |-> piles]
AskRoute ==
  \E r \in Routers, as \in AgentLists, c \in SUBSET Classes :
    asked' = [kind |-> "route", router |-> r, agents |-> as, classes |-> c]
AskHuman ==
  \E r \in Rosters, as \in AccountLists :
    asked' = [kind |-> "human", roster |-> r, accounts |-> as]

AskNext ==
  /\ asked = Nothing
  /\ \/ AskChange \/ AskBlocks \/ AskCritics \/ AskLadder \/ AskReport \/ AskReview
     \/ AskLint \/ AskPolicy \/ AskMerge \/ AskCuts \/ AskRoute \/ AskHuman

AskSpec == AskInit /\ [][AskNext]_askVars

Asks(kind) == asked.kind = kind

-----------------------------------------------------------------------------
(* The three gates of a change.                                            *)
Merge(mode) == MergeGate(asked.change, mode, asked.delta, asked.jtbd, asked.ok)
Dispatch(c, mode) == DispatchGate(c, mode)
Archive(c, mode) == ArchiveGate(c, mode, asked.delta)

(* check_merge_gate (lines 458-464): a mode other than block lets a change *)
(* through with a waiver where block refuses it, and grants nothing else;  *)
(* a stage and an approved_by that disagree are refused in every mode.     *)
ModeOnlyWaives ==
  Asks("change") =>
    \A mode \in ENFORCEMENT \ {"block"} :
      LET m == Merge(mode)
          b == Merge("block")
          disagree == Disagree(asked.change)
      IN  /\ b.allowed => m = b
          /\ ~b.allowed => m.waived \/ (m = Refused /\ disagree)
          /\ disagree /\ asked.delta /\ ~IsResearch(asked.change) => m = Refused

(* The three gates tell one story (lines 438-612): a change past its       *)
(* review that merges cleanly dispatches and archives cleanly too, so that *)
(* no surface is left with a change one gate passed and the next refuses.  *)
CleanMergeCarriesOn ==
  Asks("change") =>
    \A mode \in ENFORCEMENT :
      Merge(mode) = Clean /\ SpecApprovedReached(asked.change)
        => Dispatch(asked.change, mode) = Clean /\ Archive(asked.change, mode) = Clean

(* apply_ratification (lines 653-660): ratifying never moves a change back *)
(* and never opens the dispatch gate, which waits for spec approval.       *)
RatifyIsFloor ==
  Asks("change") =>
    LET c == asked.change
        r == ApplyRatification(c)
    IN  /\ ~IsForward(r.stage, c.stage)
        /\ AtLeast(r.stage, "approved")
        /\ \A mode \in ENFORCEMENT : Dispatch(r, mode) = Clean => Dispatch(c, mode) = Clean

(* apply_spec_approved (lines 743-769) writes every field the gates read:  *)
(* a valid approval leaves a change that the merge gate faults at most for *)
(* its outcome, and that dispatches and archives cleanly.                  *)
ApprovalOpensGates ==
  Asks("change") /\ ValidSpecApproval(asked.change, TRUE) =>
    LET a == ApplySpecApproved(asked.change)
        merge(mode) == MergeGate(a, mode, asked.delta, asked.jtbd, asked.ok)
    IN  \A mode \in ENFORCEMENT :
          /\ Dispatch(a, mode) = Clean /\ Archive(a, mode) = Clean
          /\ merge(mode) = Clean \/ OutcomeViolated(a, asked.jtbd, asked.ok)

(* auto_archive_decision (lines 807-831): "auto skips the human-acceptance *)
(* stop, never a gate".  Whether a change archives itself does not depend  *)
(* on how lenient the enforcement mode is.                                 *)
AutoArchiveIgnoresMode ==
  Asks("change") =>
    \A mode \in ENFORCEMENT, default \in DELIVERY :
      AutoArchive(asked.change, default, Archive(asked.change, mode))
        <=> AutoArchive(asked.change, default, Archive(asked.change, "block"))

(* The gates of spec_lifecycle.py judge one change alike: no enforcement   *)
(* mode grants what block does not, none passes what the next one then     *)
(* refuses, ratifying opens nothing, approving opens all of them, and none *)
(* is what an automatic archive goes by.                                   *)
GatesAgree ==
  /\ ModeOnlyWaives /\ CleanMergeCarriesOn /\ RatifyIsFloor
  /\ ApprovalOpensGates /\ AutoArchiveIgnoresMode

(* SpecPolicy (lines 266-269): the levels only add.  What a level requires *)
(* of a change every heavier level requires too, and the lightest nothing. *)
LevelsOnlyAdd ==
  Asks("blocks") =>
    LET l == ResolvePolicy(asked.org, asked.program).level
    IN  \A m \in ToSet(LEVELS), trigger \in BOOLEAN :
          /\ LevelIndex(l) <= LevelIndex(m) /\ SolutionsRequired(l, trigger)
               => SolutionsRequired(m, trigger)
          /\ ~SolutionsRequired("spec-first", trigger)

(* resolve_spec_policy (lines 328-354): what a program leaves unsaid it    *)
(* inherits from the org, key by key, whatever else it sets; a process     *)
(* that is no mapping says nothing.                                        *)
SilentKeyInherits ==
  Asks("blocks") =>
    LET program == asked.program
        mine == ResolvePolicy(asked.org, program)
        orgs == ResolvePolicy(asked.org,
                  [enforcement |-> "unset", level |-> "unset", delivery |-> "unset"])
    IN  /\ program.enforcement = "unset" => mine.enforcement = orgs.enforcement
        /\ program.level \in {"unset", "not-a-mapping"} => mine.level = orgs.level
        /\ program.delivery = "unset" => mine.delivery = orgs.delivery

-----------------------------------------------------------------------------
(* The gates only ever run with a configuration that their parse accepts.  *)
Selects == Asks("critics") /\ ~VerificationGatesError(asked.config)

(* "A proposer never reviews their own proposal" and "sensitive content    *)
(* never reaches an uncleared critic, whatever policy chose it"            *)
(* (verification_gates.py, select_critics): through override, fallback and *)
(* whatever the caller supplies.                                           *)
IndependentAndCleared ==
  Selects =>
    LET result == SelectCritics(asked.config, asked.ctx)
    IN  /\ asked.ctx.proposer \notin result.critics
        /\ asked.ctx.sensitivity # Absent
             => result.critics \subseteq ClearedFor(asked.config, asked.ctx.sensitivity)

(* "Visible, never silent" (SelectionResult): whom the recorded policy     *)
(* picks is a critic, a dropped one, or the proposer with the exclusion    *)
(* recorded; and nobody is a critic whom the recorded policy did not pick. *)
PickedAreAccountedFor ==
  Selects =>
    LET result == SelectCritics(asked.config, asked.ctx)
        picked == RunPolicy(result.policy, asked.config, asked.ctx,
                            TargetRole(asked.config, asked.ctx)).picked
        rest == picked \ (result.critics \cup result.dropped_uncleared)
    IN  /\ rest \subseteq {asked.ctx.proposer}
        /\ rest # {} => result.excluded_proposer
        /\ result.critics \cup result.dropped_uncleared \subseteq picked

(* Configuration-completeness (parse_verification_gates): a hook the parse *)
(* accepts is never one that could not be evaluated, and whoever proposes  *)
(* it finds a critic from the configuration alone, when anybody else holds *)
(* the hook's role.                                                        *)
CompleteConfigSelects ==
  Selects =>
    LET result == SelectCritics(asked.config, asked.ctx)
        ctx == asked.ctx
        others == WithRole(asked.config.roles, asked.config.target_role) \ {ctx.proposer}
    IN  /\ result.could_not_evaluate = {}
        /\ (/\ ctx.sensitivity = Absent /\ DOMAIN ctx.agent_roles = {} /\ ctx.target_role = Absent
            /\ others # {})
             => result.critics # {}

(* select_critics and the parse of its configuration: a selection leaves   *)
(* the proposer and the uncleared out, says so, and finds whom it can.     *)
SelectionIsSound == IndependentAndCleared /\ PickedAreAccountedFor /\ CompleteConfigSelects

-----------------------------------------------------------------------------
(* _merge_layer: a repo that gains a language loses no gate by it.  No     *)
(* tool goes, nothing stops blocking, no time is cut and no cap raised.    *)
LanguagesOnlyTighten ==
  Asks("ladder") /\ ~SecurityGatesError(asked.block) =>
    LET config == ParseSecurityGates(asked.block)
        before == ResolveRepoGates(config, "r1", asked.langs)
        after == ResolveRepoGates(config, "r1", Append(asked.langs, asked.more))
    IN  /\ before.opt_out = after.opt_out
        /\ (DOMAIN before.layers) \subseteq DOMAIN after.layers
        /\ \A name \in DOMAIN before.layers :
             LET b == before.layers[name]
                 a == after.layers[name]
             IN  /\ b.tools \subseteq a.tools /\ (b.blocking => a.blocking)
                 /\ b.timeout <= a.timeout /\ b.pair \in {NoPair, a.pair}
                 /\ b.cost_cap # NoNumber => a.cost_cap \in 0..b.cost_cap

(* "The emitter (plugin) and the renderer (cli) cannot disagree on whether *)
(* a report blocks" (security_gate_report.py): a report reads back as it   *)
(* was written, and a suppression of which a payload does not say that it  *)
(* is justified blocks.                                                    *)
ReportReadsBack ==
  /\ Asks("report") =>
       LET read == ReportFromDict(ReportToDict(asked.report))
       IN  read = asked.report /\ IsBlocked(read) = ReportToDict(asked.report).blocked
  /\ (/\ Asks("payload") /\ ~PayloadError(asked.data)
      /\ \E s \in ToSet(asked.data.suppressions) : TRUE \notin s.justified)
       => IsBlocked(ReportFromDict(asked.data))

(* "An urgent item is never collapsed" (classify), and what a program says *)
(* must be seen stays up at every priority; without a declared policy no   *)
(* type of the floor collapses.                                            *)
MustSeeStaysUp ==
  Asks("review") /\ ~ReviewPolicyError(asked.block) =>
    LET policy == ParseReviewPolicy(asked.block)
        class == Classify(policy, asked.type, asked.priority)
    IN  /\ asked.priority = "urgent" => class = "mandatory"
        /\ asked.block.declared /\ asked.type \in asked.block.mandatory => class = "mandatory"
        /\ ~asked.block.declared /\ asked.type \in DEFAULT_MANDATORY => class = "mandatory"
        /\ class = "auto-triage" => asked.type \notin policy.mandatory

-----------------------------------------------------------------------------
Linted == LintFindings(ProposalFromScr(asked.scr, asked.openspec), PlatformRepos, Outcomes, {})

(* The five tiers "reviewers triage by" (spec_gate.py): a tier bounds the  *)
(* errors of a proposal, so that the best one has none.                    *)
TierBoundsErrors ==
  Asks("lint") =>
    LET tier == ScoreTier(LintScore(Linted))
        errors == Cardinality(LintErrors(Linted))
    IN  /\ tier = "excellent" => errors = 0
        /\ tier = "strong" => errors = 1
        /\ tier = "adequate" => errors \in {1, 2}
        /\ tier = "weak" => errors \in {2, 3}
        /\ tier = "failing" => errors >= 4 \/ (errors = 3 /\ Linted # LintErrors(Linted))

(* proposal_from_scr, "lint meets the corpus where it is": a request that  *)
(* fills its sections, leads each routing clause with a known repo (of the *)
(* form the routing is read by) and has a known outcome-id scores 100,     *)
(* whatever else its routing prose names and whatever text the outcome key *)
(* of .openspec.yaml holds.                                                *)
HonestRequestScoresFull ==
  (/\ Asks("lint") /\ asked.scr.secret = "none" /\ asked.scr.subject = "text"
   /\ \A key \in SECTION_KEYS : asked.scr.sections[key] = "text"
   /\ asked.scr.clauses # <<>>
   /\ \A c \in ToSet(asked.scr.clauses) : c.head \in PlatformRepos \cap RepoSlugs
   /\ asked.openspec.found /\ asked.openspec.outcome_id \in Outcomes \cap OutcomeIds)
    => LintScore(Linted) = 100

(* The secret scan reads the whole request, what stands outside of its     *)
(* sections too: a request with a secret is never strong but for that one  *)
(* error, and never excellent.                                             *)
SecretIsFound ==
  Asks("lint") /\ asked.scr.secret # "none" => LintScore(Linted) <= 75

(* Nothing a reviewer goes by hides what it stands for: not the collapsing *)
(* of messages, not a report read back, not the lint of a request.         *)
ReviewerSeesAll ==
  /\ MustSeeStaysUp /\ ReportReadsBack /\ SecretIsFound
  /\ TierBoundsErrors /\ HonestRequestScoresFull

-----------------------------------------------------------------------------
(* effective_narrow_only: "a program may only ADD narrow-only rules, never *)
(* drop a shipped one".  What is in force without index.yaml is in force   *)
(* with any that loads and composes.                                       *)
IndexOnlyAdds ==
  Asks("policy") =>
    LET with == EffectivePolicy(asked.folder, "git", asked.selection)
        without == EffectivePolicy([asked.folder EXCEPT !.narrow_only = {}], "git",
                                   asked.selection)
        own == asked.folder.narrow_only
    IN  with.ok /\ without.ok =>
          \A rule \in (DOMAIN without.rules) \cap (GIT_PACK_NARROW_ONLY \cup own) :
            without.rules[rule] = "true" => with.rules[rule] = "true"

(* compose, "a lower layer MAY tighten and MAY NOT loosen": a narrow-only  *)
(* rule that the program's layer sets holds under any selection of a repo  *)
(* and an agent, and each of these that says otherwise is reported.        *)
NearerOnlyTightens ==
  Asks("policy") =>
    LET all == EffectivePolicy(asked.folder, "git", asked.selection)
        base == EffectivePolicy(asked.folder, "git",
                                [asked.selection EXCEPT !.repo = "", !.agent = ""])
        own == asked.folder.narrow_only
    IN  all.ok =>
          \A rule \in (DOMAIN base.rules) \cap (GIT_PACK_NARROW_ONLY \cup own) :
            base.rules[rule] = "true" =>
              /\ all.rules[rule] = "true"
              /\ \A layer \in {"repo", "agent"} :
                   LET name == asked.selection[layer]
                   IN  (/\ name # "" /\ rule \in DOMAIN LoadedRules(asked.folder, name)
                        /\ LoadedRules(asked.folder, name)[rule] = "false")
                         => <<layer, rule>> \in all.violations

(* The three configurations in layers (spec_policy, the security ladder,   *)
(* the policy packs) compose one way: a level, a language, an index or a   *)
(* nearer layer adds requirements and takes none, and silence inherits.    *)
LayersOnlyTighten ==
  /\ LevelsOnlyAdd /\ SilentKeyInherits /\ LanguagesOnlyTighten
  /\ IndexOnlyAdds /\ NearerOnlyTightens

-----------------------------------------------------------------------------
(* The check "fails toward REQUIRING a fragment" (changelog_fragment.py):  *)
(* a pull request it refuses stays refused when it changes one more file   *)
(* that is no fragment, and none that it lets through over code is without *)
(* a fragment or the marker.                                               *)
RefusalSticks ==
  Asks("merge") =>
    LET code(paths) == ExitCode(TRUE, Evaluate(paths, TRUE, asked.pr, asked.exempt))
    IN  /\ code(asked.paths) = 3 /\ ~IsFragment(asked.more)
             => code(asked.paths \cup {asked.more}) = 3
        /\ code(asked.paths) = 0 /\ Shipped(asked.paths) # {}
             => asked.exempt \/ Fragments(asked.paths) # {}

(* "It is carried exactly once, in the release that first consumed it"     *)
(* (changelog_manifest.py): over any sequence of piles, with edited notes, *)
(* lagging clears and re-created files, each fragment a cut meets is in    *)
(* the manifest of one release.                                            *)
CarriedOnce ==
  Asks("cuts") =>
    LET n == Len(asked.piles)
        record[i \in 0..n] ==
          IF i = 0 THEN <<>> ELSE Append(record[i - 1], Cut(i, asked.piles[i], record[i - 1]))
        keys(i) == Keys(ManifestFromDict(record[n][i]))
    IN  /\ \A i, j \in 1..n : i # j => keys(i) \cap keys(j) = {}
        /\ UNION {keys(i) : i \in 1..n}
             = UNION {{RecordFragment(f) : f \in asked.piles[i]} : i \in 1..n}

(* The two halves of the changelog's path: what must have a fragment, and  *)
(* where a fragment ends up.                                               *)
FragmentsAreKept == RefusalSticks /\ CarriedOnce

-----------------------------------------------------------------------------
(* guard_route, "a cloud route for guarded content is a conformance        *)
(* defect, so this never returns None for it": of a router and a route     *)
(* that parse, guarded content passes only on a route declared local.      *)
GuardKeepsLocal ==
  Asks("route") /\ ~RouterError(asked.router) =>
    LET route == EffectiveRoute(asked.agents, "agent")
        target == Resolve(SelectBackend(asked.router), route)
    IN  (/\ ~RouteError(route) /\ ~GuardRefuses(asked.router, target, asked.classes)
         /\ asked.router.declared /\ asked.router.local_only \cap asked.classes # {})
          => route.form = "mapping" /\ route.local

(* "`roman`, `roman@x.com`, and the name-slug all match one person"        *)
(* (accounts.py): where no two humans share an identity, every form of one *)
(* resolves to that one, so to one config_dir; and the live approval path  *)
(* that the doctor faults with no error has an approver that resolves.     *)
FormsAgree ==
  Asks("human") /\ ~ConfigError(asked.roster) =>
    LET people == ToSet(asked.roster)
        forms(e) == ({e.name, SlugOf[e.name]}
                       \cup (IF e.email = "" THEN {} ELSE {e.email, LocalOf[e.email]})) \ {""}
        distinct == \A d, e \in people : d # e => forms(d) \cap forms(e) = {}
    IN  distinct =>
          /\ \A e \in people : \A f \in forms(e) :
               /\ ResolveRosterHuman(asked.roster, f) = {e}
               /\ ConfigDirByRoster(asked.accounts, asked.roster, f)
                    = ConfigDirByRoster(asked.accounts, asked.roster, e.name)
          /\ (\A found \in ApproverFindings(asked.roster, TRUE) : found[1] # "error")
               => \E e \in people : \E f \in forms(e) : ResolveApprover(asked.roster, f) # {}
=============================================================================
