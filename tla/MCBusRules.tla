----------------------------- MODULE MCBusRules -----------------------------
(* Inputs for the rules of the bus: every field takes each value some rule *)
(* tells apart, two or three of them together where rules meet.            *)
EXTENDS BusRules, TLC

Core == "core-agent"
Web == "web-agent"

MCKnownAgents == {{}, {Core, Web}}

(* One type of each class the sets of types make.                          *)
MCTypes == {"info", "announce", "human-decision", "emergency-halt", "contract-change",
            "task-assignment", "decision-required", "nonsense"}
MCPathFields ==
  {[shape |-> "absent", paths |-> <<>>], [shape |-> "other", paths |-> <<>>],
   [shape |-> "text", paths |-> << <<"a", "b">> >>], [shape |-> "text", paths |-> << <<>> >>],
   [shape |-> "list", paths |-> <<>>],
   [shape |-> "list", paths |-> << <<"a", "b">>, <<"c">> >>],
   [shape |-> "list", paths |-> << <<"c">>, <<>> >>]}
Plain ==
  [absent |-> {}, type |-> "info", from |-> Core, to |-> <<Web>>, toList |-> FALSE,
   dated |-> TRUE, decides |-> FALSE, optional |-> "ok", expects |-> "absent",
   path |-> [shape |-> "absent", paths |-> <<>>], repo |-> "", subject |-> TRUE]
MCMessages ==
  {[Plain EXCEPT !.type = t, !.from = f, !.to = to, !.toList = l, !.path = p, !.repo = r] :
     t \in MCTypes, f \in {"human", Core}, l \in BOOLEAN, p \in MCPathFields,
     to \in {<<>>, <<"all">>, <<Web>>, <<Core, "all">>, <<"human", "ghost">>},
     r \in {"", "r1", " r1"}}
  \cup {[Plain EXCEPT !.absent = a, !.dated = d, !.decides = c, !.expects = e, !.subject = s,
                      !.optional = o, !.type = t, !.to = IF "to" \in a THEN <<>> ELSE <<"all">>] :
     a \in {{}, {"to"}, {"id"}}, d \in BOOLEAN, c \in BOOLEAN, s \in BOOLEAN,
     e \in {"absent", "yes", "no", "bad"}, o \in {"ok", "bad"},
     t \in {"announce", "task-assignment", "decision-required"}}

P(tokens, pad) == [tokens |-> tokens, pad |-> pad]
MCPatterns ==
  {P(<<"a">>, 0), P(<<"a">>, 1), P(<<"a", "b">>, 0), P(<<"a", "*">>, 0), P(<<"*", "b">>, 0),
   P(<<"a", "**">>, 0), P(<<"**", "b">>, 0), P(<<"a", "**", "b">>, 0), P(<<>>, 2)}
MCBlocks ==
  {<<>>} \cup {<<[pattern |-> p, agent |-> Web]>> : p \in MCPatterns}
  \cup {<<[pattern |-> pq[1], agent |-> Web], [pattern |-> pq[2], agent |-> x]>> :
          x \in {"api-agent", "ghost"}, pq \in {pq \in MCPatterns \X MCPatterns : pq[1] # pq[2]}}
MCPlatforms ==
  {<<[name |-> "r1", owner |-> Core, owner_paths |-> block, path |-> {<<"p", "r1">>}],
     [name |-> "r2", owner |-> Web, owner_paths |-> <<>>, path |-> at]>> :
     block \in MCBlocks, at \in {{}, {<<"p">>}}}
MCRouted ==
  {<<[name |-> "r1", owner |-> Core, path |-> {},
      owner_paths |-> <<[pattern |-> P(<<"a">>, 0), agent |-> x]>>]>> : x \in {Core, Web, "ghost"}}
MCSegments == {"a", "b", "c"}
MCPaths == UNION {[1..n -> MCSegments] : n \in 1..3}
MCPlaces ==
  [cwd : {<<"w">>, <<"w", "a">>, <<"w", "a", "b">>}, main : {{}, {<<"p", "r1">>}, {<<"q">>}}]
  \cup [cwd : {<<"p", "r1">>, <<"p", "r1", "a">>, <<"p", "r2">>, <<"q">>}, main : {{}}]

MCRules ==
  [known : BOOLEAN, to : {Unset, {Web}}, priority : {Unset, {"high", "urgent"}},
   types : {Unset, {"info"}}, cc : {{Core}, {Web, "api-agent"}}]
MCSends ==
  [to : {<<Web>>, <<Core, Web>>, <<"all">>}, priority : {"high", "low"}, type : {"info", "none"},
   explicit : {<<>>, <<Core>>, <<Web, Core, Web>>},
   rules : {<<>>} \cup {<<r>> : r \in MCRules} \cup {<<r, s>> : r, s \in MCRules}]

MCLines == {"x-cc", "to"} \X {"true", "TRUE", "false"}
MCFrontmatters == UNION {[1..n -> MCLines] : n \in 0..3}

MCWords == {"to", "core", "agent"}
Name(words) == [i \in DOMAIN words |-> Word(words[i])]
Slashed == <<Word("core"), [by |-> "/", word |-> "agent"]>>
CoreName == Name(<<"core">>)
CoreAgent == Name(<<"core", "agent">>)
MCSenders == {Name(w) : w \in UNION {[1..n -> MCWords] : n \in 1..3}} \cup {Slashed}
MCRecipients == {Name(w) : w \in UNION {[1..n -> MCWords] : n \in 1..2}} \cup {Slashed}
MCSlugs == {Name(w) : w \in {<<"agent">>, <<"to">>, <<"to", "core">>, <<"agent", "core">>}}
MCKnownNames ==
  {{}, {CoreName}, {CoreName, CoreAgent},
   {Name(<<"to">>), Name(<<"core", "agent", "agent">>)},
   {CoreAgent, Name(<<"core", "agent", "to">>)},
   {Slashed}, {Slashed, CoreName}, {Slashed, CoreAgent}}

MCAddresses ==
  [form : {"bare", "short", "full"}, org : {"o1", "o2", ""}, program : {"p1", "p2", "Bad!"},
   agent : {Core, "human", "Bad!"}]
MCLocals == [org : {"o1", "o2"}, program : {"p1", "p2"}]

MCClassRegistry == "release" :> "yes" @@ "hooks" :> "yes" @@ "schema" :> "limited"
MCFloor == {"history-rewrite"}
MCItems ==
  [class : {"release", "hooks", "schema", "history-rewrite", "invented"}, scoped : {TRUE},
   targets : SUBSET {"t1", "t2"}]
  \cup [class : {"release", "schema", "history-rewrite"}, scoped : {FALSE}, targets : {{}}]
MCEnvelopes == UNION {[1..n -> MCItems] : n \in 0..2}

NoMarker == [shape |-> "absent", lines |-> <<>>]
File(lines) == [shape |-> "file", lines |-> lines]
Line(key, value) == [key |-> key, value |-> {value}]
To(at, safe) == [at |-> at, safe |-> safe]
Empty ==
  [otaman |-> NoMarker, maestro |-> NoMarker, program |-> FALSE, bus |-> FALSE,
   repo |-> FALSE, main |-> {}, platform |-> <<>>]
Meta == <<"o">>
Bare == <<"x">>    \* a .agents/ and nothing else
TestMeta == <<"tmp", "o">>
MCTmp == <<"tmp">>
MCOrgOrder == <<"o1", "o2">>

(* A main checkout m with a directory a, its linked worktree h/k, and the  *)
(* places they may lead to.                                                *)
Tree(m, legacy, a, k, program, parent) ==
  LET m_a == <<"m", "a">>
  IN  <<"m">> :> [Empty EXCEPT !.otaman = m, !.maestro = legacy, !.repo = TRUE]
      @@ m_a :> [Empty EXCEPT !.otaman = a]
      @@ <<"h">> :> [Empty EXCEPT !.bus = parent]
      @@ <<"h", "k">> :> [Empty EXCEPT !.otaman = k, !.repo = TRUE, !.main = {<<"m">>}]
      @@ <<"h", "k", "a">> :> Empty
      @@ Bare :> [Empty EXCEPT !.bus = TRUE]
      @@ TestMeta :> [Empty EXCEPT !.program = TRUE]
      @@ Meta :> [Empty EXCEPT !.bus = TRUE, !.program = program,
                    !.platform = IF program THEN
                      <<[name |-> "r1", owner |-> Core, path |-> {<<"m">>},
                         owner_paths |-> <<[pattern |-> P(<<"a">>, 0), agent |-> Web]>>]>>
                      ELSE <<>>]
MCTrees ==
  {Tree(m, legacy, a, k, program, parent) :
     m \in {NoMarker, File(<<Line("otaman_root", To(Meta, TRUE))>>),
            File(<<Line("other", To(Meta, TRUE))>>),
            File(<<Line("otaman_root", To(Meta, FALSE)), Line("agent", Core)>>),
            File(<<[key |-> "otaman_root", value |-> {}], Line("maestro_root", To(Bare, TRUE))>>)},
     legacy \in {NoMarker, File(<<Line("other", To(Meta, TRUE))>>)},
     a \in {NoMarker, [shape |-> "dir", lines |-> <<Line("agent", "human")>>],
            File(<<Line("agent", Web), Line("otaman_root", To(TestMeta, TRUE))>>)},
     k \in {NoMarker, File(<<Line("otaman_root", To(Meta, TRUE))>>)},
     program \in BOOLEAN, parent \in BOOLEAN}
MCEnvs ==
  [otaman : {{}, {Meta}, {Bare}, {TestMeta}}, maestro : {{}, {Meta}, {Bare}},
   agent : {{}, {"ghost"}}, test : BOOLEAN]
MCCwds == {<<"m">>, <<"m", "a">>, <<"h", "k">>, <<"h", "k", "a">>}

(* Three programs of two organisations and one that lies elsewhere in the  *)
(* workspace, each with its meta folder or without, which makes it         *)
(* debris; p1 is a name of both organisations.                             *)
ProgramAt(org, name) == <<"w", "orgs", org, "programs", name>>
Nested == <<"w", "x", "orgs", "o1", "programs", "p3">>
MCPrograms == {ProgramAt("o1", "p1"), ProgramAt("o2", "p1"), ProgramAt("o2", "p2"), Nested}
Machine(metas) ==
  LET places == {<<"w">>, <<"w", "orgs">>} \cup MCPrograms
                \cup {Append(d, "meta") : d \in MCPrograms}
                \cup {Append(d, "repo") : d \in MCPrograms}
  IN  [d \in places |-> [Empty EXCEPT !.program = d \in {Append(p, "meta") : p \in metas}]]
MCMachines == {Machine(metas) : metas \in SUBSET MCPrograms}
MCRequests ==
  [explicit : {{}, {"p1"}, {"p2"}}, root : {{}, {<<"w">>}}, pick : {{}, {ProgramAt("o1", "p1")}},
   cwd : {{}} \cup {{d} : d \in DOMAIN Machine({})}]
=============================================================================
