------------------------------- MODULE Stores -------------------------------
(***************************************************************************)
(* The parts that share nothing: the knowledge directory, the ledger of    *)
(* confirmations, the file of blocked entries, the secret and tokens of    *)
(* web authentication, the validator of bearer tokens and the git host.  A *)
(* behaviour is one of one of them, the one that `part` names; the others  *)
(* stand as they began.                                                    *)
(***************************************************************************)
EXTENDS Knowledge, Confirmations, BlockedEntries, WebAuth, GitHosts

VARIABLE part

vars == <<part, knowledgeVars, ledgerVars, blockedVars, authVars, hostsVars, oidcVars>>

Init ==
  /\ part \in {"knowledge", "ledger", "blocked", "auth", "hosts", "oidc"}
  /\ KnowledgeInit /\ LedgerInit /\ BlockedInit /\ AuthInit /\ HostsInit /\ OidcInit
  /\ part # "knowledge" => notes = CHOOSE found \in Found : TRUE
  /\ part # "auth" => authConfig = CHOOSE c \in Configs : TRUE
  /\ part # "hosts" => provider = CHOOSE p \in Providers : TRUE
  /\ part # "oidc" => published = {CHOOSE kid \in Kid : TRUE}

Next ==
  /\ UNCHANGED part
  /\ \/ /\ part = "knowledge" /\ KnowledgeNext
        /\ UNCHANGED <<ledgerVars, blockedVars, authVars, hostsVars, oidcVars>>
     \/ /\ part = "ledger" /\ LedgerNext
        /\ UNCHANGED <<knowledgeVars, blockedVars, authVars, hostsVars, oidcVars>>
     \/ /\ part = "blocked" /\ BlockedNext
        /\ UNCHANGED <<knowledgeVars, ledgerVars, authVars, hostsVars, oidcVars>>
     \/ /\ part = "auth" /\ AuthNext
        /\ UNCHANGED <<knowledgeVars, ledgerVars, blockedVars, hostsVars, oidcVars>>
     \/ /\ part = "hosts" /\ HostsNext
        /\ UNCHANGED <<knowledgeVars, ledgerVars, blockedVars, authVars, oidcVars>>
     \/ /\ part = "oidc" /\ OidcNext
        /\ UNCHANGED <<knowledgeVars, ledgerVars, blockedVars, authVars, hostsVars>>

Spec == Init /\ [][Next]_vars
=============================================================================
