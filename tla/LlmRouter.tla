------------------------------ MODULE LlmRouter ------------------------------
(***************************************************************************)
(* Where a model call goes, and the guard of what may not leave the tenant *)
(* (llm_router.py).                                                        *)
(*                                                                         *)
(* A router block is [declared, stray, backend, base_url, local_only], ""  *)
(* for a text that is not given.  The agents are a sequence of [name,      *)
(* route] in the order a lookup meets them, in both forms of the block;    *)
(* a route is [form, family, model, local, stray], form "none", "text"     *)
(* (only its family) or "mapping".                                         *)
(***************************************************************************)
EXTENDS Integers, SequencesExt

LITELLM_PROXY == "litellm-proxy"

RouterError(router) ==
  /\ router.declared
  /\ \/ router.stray
     \/ router.backend \notin {"", LITELLM_PROXY}
     \/ router.backend = LITELLM_PROXY /\ router.base_url = ""

RouteError(route) ==
  \/ route.form # "none" /\ route.family = ""
  \/ route.form = "mapping" /\ route.stray

LocalOnly(router) == IF router.declared THEN router.local_only ELSE {}

(* select_backend: the address of the proxy, or "" for the native path.    *)
SelectBackend(router) == IF router.declared /\ router.backend # "" THEN router.base_url ELSE ""

(* effective_route: the first entry of the agent's name.                   *)
NoRoute == [form |-> "none", family |-> "", model |-> "", local |-> FALSE, stray |-> FALSE]

EffectiveRoute(agents, agent) ==
  LET named == SelectSeq(agents, LAMBDA a : a.name = agent)
  IN  IF named = <<>> THEN NoRoute ELSE named[1].route

IsLocal(route) == route.form = "mapping" /\ route.local

SlipUnroutedIsLocal(base_url, route) ==
  [family |-> IF route.form = "none" THEN "anthropic" ELSE route.family, base_url |-> base_url,
   model |-> route.model, local |-> IsLocal(route) \/ (route.form = "none" /\ base_url # "")]

Resolve(base_url, route) ==
  [family |-> IF route.form = "none" THEN "anthropic" ELSE route.family, base_url |-> base_url,
   model |-> route.model, local |-> IsLocal(route)]

RouteLeavesTenant(target) == ~target.local

GuardRefuses(router, target, classes) ==
  RouteLeavesTenant(target) /\ LocalOnly(router) \cap classes # {}
=============================================================================
