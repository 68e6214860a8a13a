----------------------------- MODULE Resolution -----------------------------
(***************************************************************************)
(* Where a session is and whom it acts for: the workspace root             *)
(* (_resolve.py), the identity (identity.py) and the program               *)
(* (program_context.py).  A place is the sequence of directory names from  *)
(* the root of the file system, which no walk looks into.  A tree maps     *)
(* each place to                                                           *)
(*   [otaman, maestro : marker, program, bus, repo : BOOLEAN,              *)
(*    main, platform]                                                      *)
(* whether it holds platform.yaml, .agents/ and a .git entry, the main     *)
(* checkout that a .git file leads to, as a set, and its repos.  A marker  *)
(* is [shape, lines], the lines of a directory those of its agent file; a  *)
(* line is [key, value], the value a set, empty if nothing is written: for *)
(* a root a place and whether _safe_marker_path lets it pass.              *)
(* An environment is [otaman, maestro, agent : set, test : BOOLEAN].       *)
(***************************************************************************)
EXTENDS OwnerPaths

CONSTANTS Tmp,      \* the place of the OS temp tree
          OrgOrder  \* the organisations as sorted() lists them

Found(at) == [ok |-> TRUE, at |-> at]
RootResolutionError == [ok |-> FALSE, at |-> {}]

(* The walk from a directory up to the first of the places.                *)
Nearest(cwd, places) ==
  LET up == {k \in DOMAIN cwd : SubSeq(cwd, 1, k) \in places}
  IN  IF up = {} THEN {} ELSE {SubSeq(cwd, 1, Max(up))}

(* parse_marker_fields: the first line of a key counts, and every line     *)
(* that is none of the known keys is a legacy root.                        *)
FieldOf(lines, key) ==
  LET known == {"otaman_root", "maestro_root", "expected_account", "agent"}
      of == {i \in DOMAIN lines :
               lines[i].key = key \/ (key = "maestro_root" /\ lines[i].key \notin known)}
  IN  IF of = {} THEN {} ELSE lines[Min(of)].value

RootField(lines) ==
  LET rel == FieldOf(lines, "otaman_root")
  IN  IF rel # {} THEN rel ELSE FieldOf(lines, "maestro_root")

MarkerAt(tree, d) ==
  IF tree[d].otaman.shape = "file" THEN tree[d].otaman.lines
  ELSE IF tree[d].maestro.shape = "file" THEN tree[d].maestro.lines ELSE <<>>

Roots(tree) == {d \in DOMAIN tree : tree[d].program \/ tree[d].bus}
Pointed(tree, d) == {rel.at : rel \in {r \in RootField(MarkerAt(tree, d)) :
                                         r.safe /\ r.at \in Roots(tree)}}
Pointing(tree) == {d \in DOMAIN tree : Pointed(tree, d) # {}}

-----------------------------------------------------------------------------
(* _find_maestro_root_from: markers, then the environment, then the walk.  *)
SlipEnvFirst(tree, env, origin) ==
  LET marked == Nearest(origin, Pointing(tree))
      named == IF env.otaman # {} THEN env.otaman ELSE env.maestro
  IN  IF named # {} /\ \A d \in named : d \in DOMAIN tree /\ tree[d].program
      THEN Found(named)
      ELSE IF marked # {} THEN Found(UNION {Pointed(tree, d) : d \in marked})
      ELSE IF named = {} THEN Found(Nearest(origin, Roots(tree)))
      ELSE RootResolutionError

FindFrom(tree, env, origin) ==
  LET marked == Nearest(origin, Pointing(tree))
      named == IF env.otaman # {} THEN env.otaman ELSE env.maestro
  IN  IF marked # {} THEN Found(UNION {Pointed(tree, d) : d \in marked})
      ELSE IF named = {} THEN Found(Nearest(origin, Roots(tree)))
      ELSE IF \A d \in named : d \in DOMAIN tree /\ tree[d].program THEN Found(named)
      ELSE RootResolutionError

(* _enforce_test_sentinel.                                                 *)
Sentinel(env, r) ==
  IF env.test /\ \E d \in r.at : ~IsPrefix(Tmp, d) THEN RootResolutionError ELSE r

(* resolve_worktree_main: the nearest .git entry decides, whatever it is.  *)
WorktreeMain(tree, path) ==
  UNION {tree[d].main : d \in Nearest(path, {d \in DOMAIN tree : tree[d].repo})}

FindRoot(tree, env, origin) ==
  LET direct == FindFrom(tree, env, origin)
      main == WorktreeMain(tree, origin)
  IN  IF ~direct.ok \/ direct.at # {} \/ main = {} THEN Sentinel(env, direct)
      ELSE Sentinel(env, FindFrom(tree, env, CHOOSE m \in main : TRUE))

-----------------------------------------------------------------------------
(* read_agent: markers that name nobody are walked past.                   *)
ReadAgent(tree, cwd) ==
  LET agent(d) == FieldOf(tree[d].otaman.lines, "agent")
  IN  UNION {agent(d) : d \in Nearest(cwd, {d \in DOMAIN tree : agent(d) # {}})}

(* resolve_enforcement_identity, with the root lookup of its audit entry.  *)
EnforcementIdentity(tree, env, cwd) ==
  IF FindRoot(tree, env, cwd).ok THEN Found(ReadAgent(tree, cwd)) ELSE RootResolutionError

(* resolve_agent_identity: the owner of the place, else OTAMAN_AGENT.      *)
AgentIdentity(tree, env, cwd) ==
  LET root == FindRoot(tree, env, cwd)
      owners == {OwnerForCwd(tree[d].platform, cwd, WorktreeMain(tree, cwd)) : d \in root.at}
  IN  IF ~root.ok THEN root
      ELSE Found(IF owners \subseteq {Nobody} THEN env.agent ELSE owners)

-----------------------------------------------------------------------------
(* Programs lie at .../orgs/<org>/programs/<program>, and hold a directory *)
(* with a platform.yaml.                                                   *)
HasProgramMarker(tree, d) ==
  \E c \in DOMAIN tree : Len(c) = Len(d) + 1 /\ IsPrefix(d, c) /\ tree[c].program

IsProgramDir(tree, d) ==
  /\ Len(d) > 3 /\ d[Len(d) - 1] = "programs" /\ d[Len(d) - 3] = "orgs"
  /\ HasProgramMarker(tree, d)

ProgramOfPath(tree, cwd) == Nearest(cwd, {d \in DOMAIN tree : IsProgramDir(tree, d)})

EnumeratePrograms(tree, root) ==
  {d \in DOMAIN tree : /\ Len(d) = Len(root) + 4 /\ IsPrefix(root, d)
                       /\ d[Len(root) + 1] = "orgs" /\ d[Len(root) + 3] = "programs"
                       /\ HasProgramMarker(tree, d)}

(* resolve_program: the name asked for, else the place, else the picker,   *)
(* of whose choice pick is the set, else a refusal with its advice.        *)
Refuse(advice) == [ok |-> FALSE, at |-> {}, advice |-> advice]
Chosen(d) == [ok |-> TRUE, at |-> {d}, advice |-> "none"]

SlipPlaceFirst(tree, explicit, cwd, root, pick) ==
  LET programs == UNION {EnumeratePrograms(tree, r) : r \in root}
      named == {d \in programs : Last(d) \in explicit}
      here == UNION {ProgramOfPath(tree, d) : d \in cwd}
  IN  IF here # {} THEN Chosen(CHOOSE d \in here : TRUE)
      ELSE IF explicit # {}
      THEN IF named = {} THEN Refuse("name") ELSE Chosen(CHOOSE d \in named : TRUE)
      ELSE IF pick # {} THEN Chosen(CHOOSE d \in pick : TRUE)
      ELSE Refuse(IF programs = {} THEN "init" ELSE "program")

ResolveProgram(tree, explicit, cwd, root, pick) ==
  LET programs == UNION {EnumeratePrograms(tree, r) : r \in root}
      org(d) == CHOOSE i \in DOMAIN OrgOrder : OrgOrder[i] = d[Len(d) - 2]
      named == {d \in programs : Last(d) \in explicit}
      here == UNION {ProgramOfPath(tree, d) : d \in cwd}
  IN  IF explicit # {}
      THEN IF named = {} THEN Refuse("name")
           ELSE Chosen(CHOOSE d \in named : \A e \in named : org(d) <= org(e))
      ELSE IF here # {} THEN Chosen(CHOOSE d \in here : TRUE)
      ELSE IF pick # {} THEN Chosen(CHOOSE d \in pick : TRUE)
      ELSE Refuse(IF programs = {} THEN "init" ELSE "program")
=============================================================================
