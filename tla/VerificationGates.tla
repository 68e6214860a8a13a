-------------------------- MODULE VerificationGates --------------------------
(***************************************************************************)
(* Who reviews (verification_gates.py): the configuration of one hook,     *)
(* what its parse refuses, the four policies, and the selection.  Critics  *)
(* are sets: their order is the order they are listed in.                  *)
(*                                                                         *)
(* A configuration is [clearances, roles, primary, fallback, overrides,    *)
(* target_role, stray]: clearances and roles are functions from the agents *)
(* they name to sets, overrides one from the classes it names to policies, *)
(* and stray says that some key is not known.  A context is [candidates,   *)
(* sensitivity, owners, consumers, agent_roles, target_role, proposer],    *)
(* owners being those of the affected repos that have one.                 *)
(***************************************************************************)
EXTENDS FiniteSets, Functions

POLICIES == {"sensitivity-scoped", "stakeholder-affected", "consumer-chain", "role-based"}
Absent == "absent"

NamesPolicies(raw) ==
  /\ raw.primary \in POLICIES /\ raw.fallback \in POLICIES \cup {Absent}
  /\ Range(raw.overrides) \subseteq POLICIES

(* A pairing that cannot select for the owner of the one affected repo.    *)
IncompletePairing(raw) ==
  \/ "role-based" \notin {raw.primary, raw.fallback}
  \/ DOMAIN raw.roles = {} \/ raw.target_role = Absent

VerificationGatesError(raw) ==
  raw.stray \/ ~NamesPolicies(raw) \/ raw.target_role = "" \/ IncompletePairing(raw)

ClearedFor(config, class) ==
  {a \in DOMAIN config.clearances : class \in config.clearances[a]}

WithRole(roles, role) == {a \in DOMAIN roles : role \in roles[a]}

-----------------------------------------------------------------------------
(* _run_policy: whom it picks, and the inputs nobody declared.             *)
EffectiveRoles(config, ctx) == IF DOMAIN ctx.agent_roles = {} THEN config.roles ELSE ctx.agent_roles

RunPolicy(policy, config, ctx, role) ==
  LET roles == EffectiveRoles(config, ctx)
      missing ==
        IF policy # "role-based" THEN {}
        ELSE {m \in {"roles", "target_role"} : \/ m = "roles" /\ DOMAIN roles = {}
                                               \/ m = "target_role" /\ role = Absent}
  IN  [missing |-> missing,
       picked |->
         CASE policy = "sensitivity-scoped" ->
                IF ctx.sensitivity = Absent THEN {}
                ELSE ctx.candidates \cap ClearedFor(config, ctx.sensitivity)
           [] policy = "stakeholder-affected" -> ctx.owners
           [] policy = "consumer-chain" -> ctx.consumers
           [] policy = "role-based" -> IF missing = {} THEN WithRole(roles, role) ELSE {}]

(* select_critics                                                          *)
TargetRole(config, ctx) ==
  IF ctx.target_role \in {Absent, ""} THEN config.target_role ELSE ctx.target_role

Overridden(config, ctx) ==
  ctx.sensitivity # Absent /\ ctx.sensitivity \in DOMAIN config.overrides

FirstPolicy(config, ctx) ==
  IF Overridden(config, ctx) THEN config.overrides[ctx.sensitivity] ELSE config.primary

SlipKeepTheOnlyOne(picked, ctx) ==
  IF picked = {ctx.proposer} THEN picked ELSE picked \ {ctx.proposer}

Independent(picked, ctx) == picked \ {ctx.proposer}

ExcludedProposer(first, last, ctx) == ctx.proposer \in first.picked \cup last.picked

SelectCritics(config, ctx) ==
  LET run(policy) == RunPolicy(policy, config, ctx, TargetRole(config, ctx))
      first == FirstPolicy(config, ctx)
      fellBack == Independent(run(first).picked, ctx) = {} /\ config.fallback # Absent
      policy == IF fellBack THEN config.fallback ELSE first
      critics == Independent(run(policy).picked, ctx)
      cleared == IF ctx.sensitivity = Absent THEN critics
                 ELSE critics \cap ClearedFor(config, ctx.sensitivity)
  IN  [policy |-> policy, critics |-> cleared, fell_back |-> fellBack,
       sensitivity_override |-> Overridden(config, ctx),
       dropped_uncleared |-> critics \ cleared,
       excluded_proposer |-> ExcludedProposer(run(first), run(policy), ctx),
       could_not_evaluate |-> IF cleared = {} THEN run(policy).missing ELSE {}]
=============================================================================
