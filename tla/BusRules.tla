------------------------------ MODULE BusRules ------------------------------
(***************************************************************************)
(* What the rules of the bus owe each other, over every input of small     *)
(* sets: each state is one input, and the first step gives it.             *)
(***************************************************************************)
EXTENDS BusMessage, BusNames, DeliveryEnvelope, Resolution

CONSTANTS
  Messages, KnownAgents,  \* the messages and the sets of known agents
  Platforms, Routed,      \* the platforms, each a sequence of repos, and those for messages
  Paths, Places,          \* the paths asked for; the directories and main trees of sessions
  Sends,                  \* the messages to be copied: [to, priority, type, explicit, rules]
  Frontmatters,           \* sequences of <<key, value>>
  Senders, Recipients, Slugs, KnownNames,
  Addresses, Locals,      \* addresses as written, and the contexts they are read in
  Envelopes,              \* sequences of items
  Trees, Envs, Cwds,      \* file systems, environments and the places of sessions
  Machines, Requests      \* trees of programs; [explicit, cwd, root, pick]

(* An input is what a file or a call is once it has been read: lists, the  *)
(* fields it has, and at most one of what may be missing.  A place is in   *)
(* one main checkout, which has a .git directory of its own, and a program *)
(* lies in an organisation that is listed.                                 *)
IsList(s) == s \in Seq(ToSet(s))
IsName(name) == IsList(name) /\ \A i \in DOMAIN name : name[i] \in [by : {"-", "/"}, word : STRING]
OwnsIn(repo, name) == name \in {repo.owner} \cup {e.agent : e \in ToSet(repo.owner_paths)}
IsPlatform(platform) ==
  /\ IsList(platform)
  /\ \A r \in ToSet(platform) :
       /\ r = [name |-> r.name, owner |-> r.owner, owner_paths |-> r.owner_paths,
               path |-> r.path]
       /\ IsList(r.owner_paths)
       /\ \A e \in ToSet(r.owner_paths) : IsList(e.pattern.tokens) /\ e.pattern.pad \in Nat
       /\ ~OwnsIn(r, Nobody)
       /\ \A at \in r.path : r.path = {at}
ASSUME BusAssumption ==
  /\ \A platform \in Platforms \cup Routed : IsPlatform(platform)
  /\ \A path \in Paths : IsList(path)
  /\ \A m \in Messages :
       /\ IsList(m.to) /\ m.toList \in BOOLEAN /\ IsList(m.path.paths)
       /\ m.path.shape \in {"absent", "other", "text", "list"}
  /\ \A place \in Places : \A main \in place.main : place.main = {main}
  /\ \A s \in Sends :
       /\ IsList(s.to) /\ IsList(s.explicit) /\ IsList(s.rules)
       /\ \A rule \in ToSet(s.rules) : IsFiniteSet(rule.cc)
  /\ \A fm \in Frontmatters : IsList(fm)
  /\ \A name \in Senders \cup Recipients : IsName(name) /\ name # <<>>
  /\ \A slug \in Slugs : IsName(slug) /\ Slashless(slug)
  /\ \A known \in KnownNames : \A name \in known : IsList(name)
  /\ \A items \in Envelopes :
       IsList(items) /\ \A item \in ToSet(items) : item.targets \subseteq Target
  /\ \A cwd \in Cwds : IsList(cwd)
  /\ \A env \in Envs :
       env = [otaman |-> env.otaman, maestro |-> env.maestro, agent |-> env.agent,
              test |-> env.test]
  /\ \A tree \in Trees : \A d \in DOMAIN tree : \A main \in tree[d].main :
       /\ tree[d].main = {main} /\ IsList(main) /\ main # <<>>
       /\ main \in DOMAIN tree /\ tree[main].repo /\ tree[main].main = {}
  /\ \A tree \in Machines : \A d \in DOMAIN tree :
       /\ IsList(d)
       /\ IsProgramDir(tree, d) => d[Len(d) - 2] \in ToSet(OrgOrder)
  /\ \A q \in Requests : \A d \in q.cwd : q.cwd = {d} /\ IsList(d)
  /\ \A q \in Requests : \A root \in q.root : q.root = {root} /\ IsList(root)
  /\ IsList(OrgOrder)

VARIABLE given
giveVars == <<given>>

Nothing == [kind |-> "nothing"]
GiveInit == given = Nothing

GiveMessage ==
  \E m \in Messages, known \in KnownAgents, platform \in Routed :
    given' = [kind |-> "message", m |-> m, known |-> known, platform |-> platform]
GivePath ==
  \E platform \in Platforms, path \in Paths, repo \in {"r1", "r2"} :
    /\ GetRepo(platform, repo) # {}
    /\ given' = [kind |-> "path", platform |-> platform, path |-> path, repo |-> repo]
GiveSession ==
  \E platform \in Platforms, place \in Places :
    given' = [kind |-> "session", platform |-> platform, cwd |-> place.cwd, main |-> place.main]
GiveSend == \E s \in Sends : given' = [kind |-> "send", s |-> s]
GiveFrontmatter == \E fm \in Frontmatters : given' = [kind |-> "frontmatter", fm |-> fm]
GiveStem ==
  \E s \in Senders, r \in Recipients, slug \in Slugs, known \in KnownNames :
    given' = [kind |-> "stem", sender |-> s, recipient |-> r, slug |-> slug, known |-> known]
GiveAddress ==
  \E raw \in Addresses, here \in Locals, there \in Locals :
    given' = [kind |-> "address", raw |-> raw, here |-> here, there |-> there]
GiveEnvelope == \E items \in Envelopes : given' = [kind |-> "envelope", items |-> items]
GivePlace ==
  \E tree \in Trees, env \in Envs, cwd \in Cwds :
    given' = [kind |-> "place", tree |-> tree, env |-> env, cwd |-> cwd]
GiveRequest ==
  \E tree \in Machines, q \in Requests : given' = [kind |-> "request", tree |-> tree, q |-> q]

GiveNext ==
  /\ given = Nothing
  /\ \/ GiveMessage \/ GivePath \/ GiveSession \/ GiveSend \/ GiveFrontmatter
     \/ GiveStem \/ GiveAddress \/ GiveEnvelope \/ GivePlace \/ GiveRequest

GiveSpec == GiveInit /\ [][GiveNext]_giveVars

Is(kind) == given.kind = kind

-----------------------------------------------------------------------------
(* "Once a message is past the validator, every recipient in the result    *)
(* list is a legitimate delivery target" (bus/dispatch.py, dispatch): with *)
(* an agents file and a platform whose owners it knows, a message past the *)
(* validator goes to nobody the fleet does not have, by `to` or by path.   *)
RecipientsAreKnown ==
  Is("message") =>
    LET m == given.m
        fleet == given.known \cup {"human", "all"}
    IN  /\ given.known # {} /\ Valid(m, given.known)
        /\ UnknownOwners(given.platform, fleet) = {}
        /\ \A i \in DOMAIN given.platform : given.platform[i].owner \in fleet
        => ToSet(Dispatch(m, given.platform).recipients) \subseteq fleet

(* The validator and the dispatcher read `path` and `repo` each in its own *)
(* way (validate_message_content, dispatch): what the one lets through the *)
(* other can deliver, unless the platform has no such repo, and every      *)
(* owner of a path is among the recipients.                                *)
ValidDelivers ==
  Is("message") =>
    LET m == given.m
        d == Dispatch(m, given.platform)
    IN  Valid(m, given.known) =>
          /\ d.ok <=> m.path.shape = "absent" \/ GetRepo(given.platform, m.repo) # {}
          /\ d.ok /\ m.path.shape # "absent" =>
               /\ d.recipients # <<>>
               /\ \A p \in ToSet(m.path.paths) :
                    ResolveOwner(given.platform, m.repo, p) \in ToSet(d.recipients)

(* validate_message_content and dispatch go together: what is let through  *)
(* is delivered, and to agents that exist.                                 *)
DeliveryIsTotal == RecipientsAreKnown /\ ValidDelivers

(* resolve_owner_for_path over patterns without wildcards: the owner of a  *)
(* path is that of its nearest listed ancestor, itself included, in        *)
(* whatever order the patterns are written and with a slash at one end or  *)
(* none.  (Slashes count: at both ends they make a pattern as long as one  *)
(* that lies a segment of one character deeper.)                           *)
NearestOwns ==
  Is("path") =>
    LET repo == CHOOSE r \in GetRepo(given.platform, given.repo) : TRUE
        ps == ToSet(repo.owner_paths)
        above == {k \in 1..Len(given.path) :
                    \E e \in ps : e.pattern.tokens = SubSeq(given.path, 1, k)}
        owner == ResolveOwner(given.platform, given.repo, given.path)
    IN  (\A e \in ps : ~Wild(e.pattern) /\ e.pattern.pad <= 1) =>
          IF above = {} THEN owner = repo.owner
          ELSE \E e \in ps : /\ e.pattern.tokens = SubSeq(given.path, 1, Max(above))
                             /\ e.agent = owner

(* The order of declaration decides between patterns of one length only,   *)
(* and then for the first (resolve_owner_for_path).                        *)
OrderBreaksTies ==
  Is("path") =>
    LET repo == CHOOSE r \in GetRepo(given.platform, given.repo) : TRUE
        turned == [repo EXCEPT !.owner_paths = Reverse(@)]
        owner == OwnerOf(repo, given.path)
    IN  owner # OwnerOf(turned, given.path) =>
          \E i, j \in DOMAIN repo.owner_paths :
            LET p == repo.owner_paths[i]
                q == repo.owner_paths[j]
            IN  /\ i < j /\ Length(p.pattern) = Length(q.pattern)
                /\ PathMatches(given.path, p.pattern) /\ PathMatches(given.path, q.pattern)
                /\ owner = p.agent

(* validate_owner_paths warns of a pair only where turning the two round   *)
(* does change an owner: that of the sample, unless a longer pattern or    *)
(* an earlier tie takes it from both.                                      *)
WarningsAreReal ==
  Is("path") =>
    LET repo == CHOOSE r \in GetRepo(given.platform, given.repo) : TRUE
        ps == repo.owner_paths
    IN  \A pair \in Overlaps(repo) :
          LET i == pair[1]
              j == pair[2]
              sample == Sample(ps[i].pattern)
              turned == [repo EXCEPT !.owner_paths = [@ EXCEPT ![i] = ps[j], ![j] = ps[i]]]
          IN  /\ ps[i].agent # ps[j].agent
              /\ \A k \in DOMAIN ps \ {i, j} : ~PathMatches(sample, ps[k].pattern)
              => OwnerOf(repo, sample) # OwnerOf(turned, sample)

(* An owner is a matter of the longest pattern (resolve_owner_for_path);   *)
(* where the order matters it is that of equals, and only of such a pair   *)
(* is one warned.  Not of every such pair, though the warning is for       *)
(* "overlapping globs of equal specificity": "a/*" and "*/b" share a/b,    *)
(* but a/x, the sample of the first, is the first's alone.                 *)
LongestPatternOwns == NearestOwns /\ OrderBreaksTies /\ WarningsAreReal

(* resolve_owner_for_cwd: a session in a repo, or else in a linked         *)
(* worktree of one, never comes back without an owner, for the caller      *)
(* would fall through to an OTAMAN_AGENT that may be stale; and where no   *)
(* two repos have one name, the owner has a part in a repo around its      *)
(* place, or around its main tree where its place has none.                *)
WorktreeHasOwner ==
  Is("session") =>
    LET around(places) == {r \in ToSet(given.platform) :
                             \E place \in places, at \in r.path : IsPrefix(at, place)}
        home == IF around({given.cwd}) # {} THEN around({given.cwd}) ELSE around(given.main)
        owner == OwnerForCwd(given.platform, given.cwd, given.main)
    IN  home # {} =>
          /\ owner # Nobody
          /\ (\A i, j \in DOMAIN given.platform :
                given.platform[i].name = given.platform[j].name => i = j)
             => \E r \in home : OwnsIn(r, owner)

(* "... so a worktree session is owned by its repo just like a session in  *)
(* the main checkout" (resolve_owner_for_cwd).  Violated: the main tree is *)
(* asked for its root, so the owner_paths of the place do not apply.       *)
WorktreeLikeMain ==
  Is("session") =>
    \A main \in given.main :
      given.cwd[1] = "w" =>
        OwnerForCwd(given.platform, given.cwd, given.main) =
          OwnerForCwd(given.platform, main \o Tail(given.cwd), {})

-----------------------------------------------------------------------------
(* compute_effective_cc, whose asymmetry between transports once lost a    *)
(* copy: every name the sender or a matching rule asks for gets one copy,  *)
(* but for the one that is alone in `to`, and nobody else does.  So one of *)
(* several addressees gets a copy beside the message when asked for: a     *)
(* name is compared with the whole of `to`.                                *)
CopiesReachOnce ==
  Is("send") =>
    LET s == given.s
        copies == EffectiveCc(s.to, s.priority, s.explicit, s.rules, s.type)
        asked == ToSet(s.explicit) \cup EvaluateRules(s.rules, s.to, s.priority, s.type)
    IN  \A name \in asked \cup ToSet(s.to) \cup ToSet(copies) :
          Cardinality({i \in DOMAIN copies : copies[i] = name}) =
            IF name \in asked /\ s.to # <<name>> THEN 1 ELSE 0

(* evaluate_routing_rules takes the union of the rules that match, not the *)
(* first: a rule more, anywhere, takes nobody's copy away.                 *)
RulesOnlyAdd ==
  Is("send") =>
    LET s == given.s
        all == EvaluateRules(s.rules, s.to, s.priority, s.type)
    IN  \A i \in DOMAIN s.rules :
          EvaluateRules(RemoveAt(s.rules, i), s.to, s.priority, s.type) \subseteq all

(* inject_x_cc and is_cc_copy (frontmatter.py) agree: the copy of a        *)
(* message reads as a copy whatever x-cc its sender wrote, and every other *)
(* field as in the original.                                               *)
CopyIsMarked ==
  Is("frontmatter") =>
    LET copy == InjectXCc(given.fm)
    IN  /\ given.fm # <<>> => IsCcCopy(copy)
        /\ \A line \in ToSet(given.fm) :
             line[1] # "x-cc" => Field(copy, line[1]) = Field(given.fm, line[1])

(* The copies of a message (cc_fanout.py, frontmatter.py): to whom each    *)
(* goes, what a rule may change of that, and how it is told from the       *)
(* original.                                                               *)
CopiesAreSound == CopiesReachOnce /\ RulesOnlyAdd /\ CopyIsMarked

(* parse_stem reads back what build_stem wrote, to a recipient it knows,   *)
(* exactly when neither end has a slash in its name (_safe writes the      *)
(* hyphen of another name), the sender no "to" inside it, and no longer    *)
(* known name begins recipient and slug alike.                             *)
StemRoundTrip ==
  Is("stem") =>
    LET parsed == ParseStem(BuildStem(given.sender, given.recipient, given.slug), given.known)
        inside == \E i \in 2..Len(given.sender) : given.sender[i] = ToWord
        longer == \E name \in given.known : /\ Len(name) > Len(given.recipient)
                                            /\ IsPrefix(name, given.recipient \o given.slug)
    IN  given.recipient \in given.known =>
          (parsed = [sender |-> given.sender, recipient |-> given.recipient,
                     slug |-> given.slug] <=>
             /\ Slashless(given.sender) /\ Slashless(given.recipient)
             /\ ~inside /\ ~longer)

(* canonicalize (bus/uri.py): what an address means does not depend on     *)
(* where its canonical form is read, nor on which of its three forms was   *)
(* written, and another organisation is always another program.            *)
CanonicalAnywhere ==
  Is("address") =>
    LET uri == ParseAddress(given.raw, given.here)
    IN  uri # BusUriError =>
          /\ ParseAddress(Written(uri), given.there) = uri
          /\ ~IsCrossOrg(uri, given.here)
               => ParseAddress([Written(uri) EXCEPT !.form = "short"], given.here) = uri
          /\ ~IsCrossProgram(uri, given.here)
               => ParseAddress([Written(uri) EXCEPT !.form = "bare"], given.here) = uri
          /\ given.raw.form = "short" => uri.program = given.raw.program
          /\ IsCrossOrg(uri, given.here) => IsCrossProgram(uri, given.here)

(* The two written forms of an agent, the stem of a message file and the   *)
(* address, read back as what was written.                                 *)
NamesReadBack == StemRoundTrip /\ CanonicalAnywhere

(* parse_envelope and proceeds_without_prompt: an action goes ahead when   *)
(* one item, read alone, lets it, in whatever order and company the items  *)
(* are written, and only a class the runtime was measured to honor.        *)
EnvelopeIsUnion ==
  Is("envelope") =>
    LET items == given.items
        whole == ParseEnvelope(items)
    IN  \A class \in DOMAIN ClassRegistry \cup Floor, target \in Target \cup {NoTarget} :
          /\ Proceeds(whole, class, target) <=>
               \E i \in DOMAIN items : Proceeds(ParseEnvelope(<<items[i]>>), class, target)
          /\ Proceeds(whole, class, target) /\ EnvelopeError(items) = "none"
               => ClassRegistry[class] = "yes" /\ EnvelopeError(Reverse(items)) = "none"
-----------------------------------------------------------------------------
(* find_maestro_root: below a marker that leads to a root no variable      *)
(* changes what is found, in a worktree as in the main checkout.           *)
MarkerBeatsEnv ==
  Is("place") =>
    LET quiet == [given.env EXCEPT !.otaman = {}, !.maestro = {}]
    IN  Nearest(given.cwd, Pointing(given.tree)) # {} =>
          FindRoot(given.tree, given.env, given.cwd) = FindRoot(given.tree, quiet, given.cwd)

(* "a poisoned OTAMAN_ROOT cannot create a rogue bus root" (_find_maestro_ *)
(* root_from): where a variable changes what is found, to something other  *)
(* than a refusal, that is a program root; a bare .agents/ or an org is    *)
(* neither accepted nor skipped.                                           *)
EnvMakesNoBus ==
  Is("place") =>
    LET quiet == [given.env EXCEPT !.otaman = {}, !.maestro = {}]
        found == FindRoot(given.tree, given.env, given.cwd)
    IN  found # FindRoot(given.tree, quiet, given.cwd) /\ found.ok =>
          \E d \in found.at : given.tree[d].program

(* find_maestro_root: a session in a linked worktree that itself lies      *)
(* nowhere near a root is where a session in its main checkout is.         *)
WorktreeFindsMain ==
  Is("place") =>
    LET ups == {SubSeq(given.cwd, 1, k) : k \in DOMAIN given.cwd}
        quiet == [given.env EXCEPT !.otaman = {}, !.maestro = {}, !.test = FALSE]
    IN  ups \intersect (Pointing(given.tree) \cup Roots(given.tree)) = {} =>
          \A main \in WorktreeMain(given.tree, given.cwd) :
            FindRoot(given.tree, quiet, given.cwd) = FindRoot(given.tree, quiet, main)

(* _enforce_test_sentinel: a test never gets a root outside the OS temp    *)
(* tree, by whichever of the six ways it was found.                        *)
TestsStayInTmp ==
  Is("place") =>
    \A d \in FindRoot(given.tree, given.env, given.cwd).at :
      given.env.test => IsPrefix(Tmp, d)

(* resolve_agent_identity: "a poisoned or stale env var cannot override    *)
(* the real owner of the directory the session is actually in", below a    *)
(* marker whichever variable it is; and the identity enforcement trusts    *)
(* is the same in every environment that does not refuse the root.         *)
OwnerBeatsEnv ==
  Is("place") =>
    LET quiet == [given.env EXCEPT !.otaman = {}, !.maestro = {}, !.agent = {}]
        owner == AgentIdentity(given.tree, quiet, given.cwd)
        enforced == EnforcementIdentity(given.tree, given.env, given.cwd)
    IN  /\ owner.at # {} /\ Nearest(given.cwd, Pointing(given.tree)) # {}
             => AgentIdentity(given.tree, given.env, given.cwd) = owner
        /\ enforced.ok /\ EnforcementIdentity(given.tree, quiet, given.cwd).ok
             => enforced = EnforcementIdentity(given.tree, quiet, given.cwd)

(* The environment is the last thing the resolution of roots (_resolve.py) *)
(* and agents (identity.py) believes.                                      *)
EnvComesLast == MarkerBeatsEnv /\ EnvMakesNoBus /\ TestsStayInTmp /\ OwnerBeatsEnv

(* A session in a linked worktree is owned by someone of the repo it is    *)
(* of (owner_paths.py) and finds the root that its main checkout finds     *)
(* (_resolve.py).                                                          *)
WorktreeIsHome == WorktreeHasOwner /\ WorktreeFindsMain

(* Where the programs of a workspace lie: the enumeration looks there, and *)
(* the walk takes a program that lies anywhere else too.                   *)
LaidOut(root, d) == IsPrefix(root, d) /\ Len(d) = Len(root) + 4

(* program_context has two ways to tell a program from debris, a walk and  *)
(* an enumeration (cli #258: "enumerate reported 3 where 1 exists"): the   *)
(* program a session is in is the one that its name names, wherever else   *)
(* the name is given, if no other organisation has a program so named.     *)
ExplicitIsTheWalked ==
  Is("request") =>
    LET q == given.q
        walked == UNION {ProgramOfPath(given.tree, d) : d \in q.cwd}
    IN  \A root \in q.root, d \in walked :
          /\ LaidOut(root, d)
          /\ \A e \in EnumeratePrograms(given.tree, root) : Last(e) = Last(d) => e = d
          => \A elsewhere \in DOMAIN given.tree :
               ResolveProgram(given.tree, {Last(d)}, {elsewhere}, q.root, q.pick) =
                 ResolveProgram(given.tree, {}, q.cwd, q.root, q.pick)

(* init-advice-only-at-zero (program_context.py): who is told to run       *)
(* `otaman init` has no place in a program that lies where programs of the *)
(* workspace do, nor is in any other program.                              *)
InitOnlyAtZero ==
  Is("request") =>
    LET q == given.q
    IN  ResolveProgram(given.tree, q.explicit, q.cwd, q.root, q.pick).advice = "init" =>
          /\ \A root \in q.root, d \in DOMAIN given.tree :
               \A program \in ProgramOfPath(given.tree, d) : ~LaidOut(root, program)
          /\ \A d \in q.cwd : ProgramOfPath(given.tree, d) = {}

(* The walk, the enumeration and the advice of program_context.py agree on *)
(* what is a program.                                                      *)
ProgramsAgree == ExplicitIsTheWalked /\ InitOnlyAtZero
=============================================================================
