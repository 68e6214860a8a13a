----------------------------- MODULE HumanRoster -----------------------------
(***************************************************************************)
(* The humans of a program (human_roster.py) and the accounts of its org   *)
(* (accounts.py).  An entry is [name, email, roles], "" for a missing      *)
(* email, and an account [human, config_dir]; human "" is no text at all.  *)
(* An identity compares without case, so it stands for all its spellings.  *)
(***************************************************************************)
EXTENDS Integers, SequencesExt, FiniteSetsExt

CONSTANTS
  SlugOf,    \* the slug of each name
  LocalOf    \* the local part of each email

APPROVER_ROLE == "approver"

ConfigError(roster) ==
  \E entry \in ToSet(roster) : entry.name = "" \/ entry.roles = {} \/ "" \in entry.roles

SlipWholeEmail(entry) == {entry.name, SlugOf[entry.name], entry.email} \ {""}

IdentityCandidates(entry) ==
  ({entry.name, SlugOf[entry.name]}
     \cup (IF entry.email = "" THEN {} ELSE {entry.email, LocalOf[entry.email]})) \ {""}

(* At most one entry, as a set.                                            *)
ResolveRosterHuman(roster, human) ==
  LET fits == {i \in DOMAIN roster : human \in IdentityCandidates(roster[i])}
  IN  IF human = "" \/ fits = {} THEN {} ELSE {roster[Min(fits)]}

IsApprover(entry) == APPROVER_ROLE \in entry.roles

ResolveApprover(roster, human) == {e \in ResolveRosterHuman(roster, human) : IsApprover(e)}

(* check_approver_config: live says that adapters are configured or that   *)
(* proposals are pending.                                                  *)
ApproverFindings(roster, live) ==
  LET approvers == {e \in ToSet(roster) : IsApprover(e)}
  IN  (IF live /\ approvers = {} THEN {<<"error", "">>} ELSE {})
      \cup {<<"warn", e.name>> : e \in {a \in approvers : a.email = ""}}

-----------------------------------------------------------------------------
(* resolve_human_config_dir, with the program's roster                     *)
ConfigDirByRoster(accounts, roster, sub) ==
  LET target == ResolveRosterHuman(roster, sub)
      fits == {i \in DOMAIN accounts : ResolveRosterHuman(roster, accounts[i].human) = target}
  IN  IF target = {} \/ fits = {} THEN "" ELSE accounts[Min(fits)].config_dir
=============================================================================
