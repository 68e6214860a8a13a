----------------------------- MODULE OwnerPaths -----------------------------
(***************************************************************************)
(* Who owns a path of a repo (owner_paths.py).  A path is the sequence of  *)
(* its segments.  A pattern is a sequence of segments, "*" and "**", with  *)
(* the number of slashes around it, which count in its length only.        *)
(* Every segment is one character long, which is also what "?" stands for. *)
(***************************************************************************)
EXTENDS Integers, SequencesExt, FiniteSetsExt

(* A repo is [name, owner, owner_paths, path]: owner_paths a sequence of   *)
(* [pattern, agent] and path a set, of the one directory it lies in if it  *)
(* says.  A platform is a sequence of repos.                               *)
Nobody == "nobody"
Wild(p) == \E t \in ToSet(p.tokens) : t \in {"*", "**"}

GetRepo(platform, name) ==
  {platform[i] : i \in {j \in DOMAIN platform :
     platform[j].name = name /\ \A k \in 1..(j - 1) : platform[k].name # name}}

(* _glob_to_regex and its match: what is left of the pattern from token i  *)
(* on matches what is left of the path from segment j on.                  *)
GlobMatches(path, tokens) ==
  LET Left[i \in 1..(Len(tokens) + 1), j \in 1..(Len(path) + 1)] ==
        IF i > Len(tokens) THEN j > Len(path)
        ELSE IF tokens[i] = "**"
        THEN IF i = Len(tokens) THEN i = 1 \/ j <= Len(path)
             ELSE \E k \in j..(Len(path) + 1) : Left[i + 1, k]
        ELSE j <= Len(path) /\ tokens[i] \in {"*", path[j]} /\ Left[i + 1, j + 1]
  IN  Left[1, 1]

(* A pattern of slashes alone matches nothing. *)
PathMatches(path, p) ==
  /\ p.tokens # <<>>
  /\ IF Wild(p) THEN GlobMatches(path, p.tokens) ELSE IsPrefix(p.tokens, path)

Length(p) ==
  p.pad + 2 * Len(p.tokens) - 1 + Cardinality({i \in DOMAIN p.tokens : p.tokens[i] = "**"})

-----------------------------------------------------------------------------
(* The longest pattern that matches owns the path, the first declared of   *)
(* several, and the repo's owner where none does.                          *)
SlipLastOfTies(repo, path) ==
  LET ps == repo.owner_paths
      matching == {i \in DOMAIN ps : PathMatches(path, ps[i].pattern)}
  IN  IF matching = {} THEN repo.owner
      ELSE ps[Max({i \in matching : \A j \in matching :
                     Length(ps[j].pattern) <= Length(ps[i].pattern)})].agent

OwnerOf(repo, path) ==
  LET ps == repo.owner_paths
      matching == {i \in DOMAIN ps : PathMatches(path, ps[i].pattern)}
      longest == {i \in matching : \A j \in matching :
                    Length(ps[j].pattern) <= Length(ps[i].pattern)}
  IN  IF matching = {} THEN repo.owner ELSE ps[Min(longest)].agent

ResolveOwner(platform, name, path) ==
  OwnerOf(CHOOSE r \in GetRepo(platform, name) : TRUE, path)

(* _owner_for_target: the first repo whose directory encloses the target,  *)
(* its root being the path ".".                                            *)
OwnerForTarget(platform, target) ==
  LET around == {i \in DOMAIN platform : \E at \in platform[i].path : IsPrefix(at, target)}
      i == Min(around)
      at == CHOOSE d \in platform[i].path : TRUE
      inside == SubSeq(target, Len(at) + 1, Len(target))
  IN  IF around = {} THEN Nobody
      ELSE ResolveOwner(platform, platform[i].name, IF inside = <<>> THEN <<".">> ELSE inside)

(* resolve_owner_for_cwd: a session in a linked worktree, whose main tree  *)
(* lies in main, is asked for the main tree where its own place has no     *)
(* repo.                                                                   *)
SlipLastRepo(platform, cwd, main) ==
  LET direct == OwnerForTarget(platform, cwd)
  IN  IF direct # Nobody \/ main = {} \/ platform = <<>> THEN direct
      ELSE Last(platform).owner

OwnerForCwd(platform, cwd, main) ==
  LET direct == OwnerForTarget(platform, cwd)
  IN  IF direct # Nobody \/ main = {} THEN direct
      ELSE OwnerForTarget(platform, CHOOSE m \in main : TRUE)

-----------------------------------------------------------------------------
(* validate_owner_paths: agents nobody declared, and pairs of one length   *)
(* of which the second also matches a sample of the first.                 *)
UnknownOwners(platform, known) ==
  (UNION {{e.agent : e \in ToSet(platform[i].owner_paths)} : i \in DOMAIN platform}) \ known

Sample(p) == [i \in DOMAIN p.tokens |-> IF p.tokens[i] \in {"*", "**"} THEN "x" ELSE p.tokens[i]]

Overlaps(repo) ==
  LET ps == repo.owner_paths
      collide(p, q) == /\ Length(p) = Length(q)
                       /\ PathMatches(Sample(p), p) /\ PathMatches(Sample(p), q)
  IN  {pair \in (DOMAIN ps) \X (DOMAIN ps) :
         pair[1] < pair[2] /\ collide(ps[pair[1]].pattern, ps[pair[2]].pattern)}
=============================================================================
