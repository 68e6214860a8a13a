---------------------------- MODULE PolicyEngine ----------------------------
(***************************************************************************)
(* The governance packs (policy.py): which named policies apply, and how   *)
(* their layers compose.                                                   *)
(*                                                                         *)
(* The policy folder is [index_ok, narrow_only, files]: the narrow-only    *)
(* rules that index.yaml registers for the pack (none when it is absent),  *)
(* and a function from the names of the pack's policies to [ok, rules].    *)
(* A policy's rules are a function from rules to "true", "false" or "text".*)
(* A selection is [program, repo, agent], "" where nothing is selected.    *)
(***************************************************************************)
EXTENDS Integers, SequencesExt, FiniteSetsExt

GIT_PACK_NARROW_ONLY ==
  {"force_push_forbidden", "owner_admission_required",
   "agents_merge_human_owned_branch_forbidden", "require_status_checks",
   "require_changelog_fragment"}
GIT_STANDARD_RULES ==
  [rule \in GIT_PACK_NARROW_ONLY \cup {"agent_self_merge_on_owned_repo", "branch_owner_convention"}
     |-> IF rule = "branch_owner_convention" THEN "text" ELSE "true"]

ShippedNarrowOnly(pack) == IF pack = "git" THEN GIT_PACK_NARROW_ONLY ELSE {}

EffectiveNarrowOnly(folder, pack) == folder.narrow_only \cup ShippedNarrowOnly(pack)

(* The layers that select a policy, by their place: nearer ones are later. *)
POLICY_LAYERS == <<"program", "repo", "agent">>

SelectPolicyNames(selection) ==
  LET selects == {i \in 1..3 : i = 1 \/ selection[POLICY_LAYERS[i]] # ""}
      name(i) == selection[POLICY_LAYERS[i]]
  IN  [i \in selects |-> <<POLICY_LAYERS[i], IF name(i) = "" THEN "standard" ELSE name(i)>>]

(* Loading one policy: there is none, it is unreadable, or it has rules.   *)
Loadable(folder, pack, name) ==
  IF name \in DOMAIN folder.files THEN folder.files[name].ok
  ELSE name = "standard" /\ pack = "git"

LoadedRules(folder, name) ==
  IF name \in DOMAIN folder.files THEN folder.files[name].rules ELSE GIT_STANDARD_RULES

-----------------------------------------------------------------------------
(* compose: layers are <<layer, rules>>, the broadest first.               *)
Saying(layers, rule) == {i \in DOMAIN layers : rule \in DOMAIN layers[i][2]}

ComposeError(layers, narrow) ==
  \E rule \in narrow : \E i \in Saying(layers, rule) : layers[i][2][rule] \notin {"true", "false"}

LooseningViolations(layers, narrow) ==
  {<<layers[at[1]][1], at[2]>> : at \in
     {at \in (DOMAIN layers) \X narrow :
        /\ at[1] \in Saying(layers, at[2]) /\ layers[at[1]][2][at[2]] = "false"
        /\ \E j \in Saying(layers, at[2]) : j < at[1] /\ layers[j][2][at[2]] = "true"}}

SlipNearestWins(layers, narrow, rule) == layers[Max(Saying(layers, rule))][2][rule]

ComposedValue(layers, narrow, rule) ==
  IF rule \in narrow
  THEN IF \E i \in Saying(layers, rule) : layers[i][2][rule] = "true" THEN "true" ELSE "false"
  ELSE layers[Max(Saying(layers, rule))][2][rule]

PolicyError == [ok |-> FALSE, rules |-> <<>>, violations |-> {}]

EffectivePolicy(folder, pack, selection) ==
  LET names == SelectPolicyNames(selection)
      layers == [i \in DOMAIN names |-> <<names[i][1], LoadedRules(folder, names[i][2])>>]
      narrow == EffectiveNarrowOnly(folder, pack)
  IN  IF \/ ~folder.index_ok
         \/ \E i \in DOMAIN names : ~Loadable(folder, pack, names[i][2])
         \/ ComposeError(layers, narrow)
      THEN PolicyError
      ELSE [ok |-> TRUE, violations |-> LooseningViolations(layers, narrow),
            rules |-> [rule \in UNION {DOMAIN layers[i][2] : i \in DOMAIN layers}
                         |-> ComposedValue(layers, narrow, rule)]]
=============================================================================
