---------------------------- MODULE MCGateRules ----------------------------
(* Inputs for the rules of the gates: every field takes each value that    *)
(* some rule tells apart, and those that meet take them together.          *)
EXTENDS GateRules, TLC

UpTo(n, S) == UNION {[1..k -> S] : k \in 0..n}

MCHooks ==
  [clearances : {<<>>, "core" :> {"conf"} @@ "web" :> {}},
   roles : {<<>>, "core" :> {"sec"}, "core" :> {"sec"} @@ "web" :> {"sec", "ops"}},
   primary : POLICIES, fallback : {Absent, "role-based", "stakeholder-affected"},
   overrides : {<<>>, "conf" :> "consumer-chain"},
   target_role : {Absent, "", "sec"}, stray : {FALSE}]
  \cup [clearances : {<<>>}, roles : {"core" :> {"sec"}}, primary : {"role-based", "vote"},
        fallback : {Absent, "vote"}, overrides : {<<>>, "conf" :> "vote"},
        target_role : {"sec"}, stray : BOOLEAN]
MCContexts ==
  [candidates : {{}, {"core", "web"}}, sensitivity : {Absent, "conf"}, owners : {{}, {"core"}},
   consumers : {{}, {"core", "web"}}, agent_roles : {<<>>, "web" :> {"sec"}},
   target_role : {Absent, "ops"}, proposer : {"core", "web"}]

Raw == [stray |-> FALSE, tools |-> {}, blocking |-> "unset", timeout |-> NoNumber,
        cost_cap |-> NoNumber, pair |-> NoPair, opt_in |-> "unset"]
MCRaws ==
  [stray : {FALSE}, tools : {{}, {"semgrep"}}, blocking : {"unset", "no"},
   timeout : {NoNumber, 5}, cost_cap : {NoNumber, 7}, pair : {NoPair, <<"trivy", "grype">>},
   opt_in : {"unset"}]
Tight == [Raw EXCEPT !.tools = {"bandit"}, !.timeout = 9, !.cost_cap = 3,
                     !.pair = <<"grype", "osv-scanner">>]
MCOwn ==
  {<<>>, "ci-medium" :> [Tight EXCEPT !.blocking = "no"], "ci-medium" :> Raw,
   "ci-slow" :> [Raw EXCEPT !.opt_in = "yes"], "ci-slow" :> [Raw EXCEPT !.opt_in = "no"]}
MCBadLayers ==
  {"nightly" :> Raw, "ci-fast" :> [Raw EXCEPT !.stray = TRUE],
   "ci-fast" :> [Raw EXCEPT !.timeout = -2], "ci-fast" :> [Raw EXCEPT !.cost_cap = -2],
   "ci-fast" :> Tight, "ci-fast" :> [Raw EXCEPT !.opt_in = "yes"],
   "ci-medium" :> [Raw EXCEPT !.pair = <<"trivy", "snyk">>],
   "ci-medium" :> [Raw EXCEPT !.pair = <<"trivy", "trivy">>]}
Block(py, js, own, out, langs) ==
  [languages |-> "py" :> py @@ "js" :> js,
   repos |-> "r1" :> [opt_out |-> out, languages |-> langs, layers |-> own]]
MCLadders ==
  {Block("ci-medium" :> raw, js, own, FALSE, langs) :
     raw \in MCRaws, own \in MCOwn, langs \in {<<>>, <<"py">>},
     js \in {<<>>, "ci-medium" :> Raw, "ci-medium" :> Tight, "ci-slow" :> Raw}}
  \cup {Block(py, <<>>, own, FALSE, <<>>) : py \in MCBadLayers \cup MCOwn,
          own \in MCBadLayers \cup MCOwn}
  \cup {Block("ci-fast" :> Raw, <<>>, own, TRUE, <<>>) : own \in MCOwn}
MCDetected == {<<>>, <<"py">>, <<"js", "py">>}

MCLayers == [layer : {"ci-fast", "llm-observer"}, verdict : {"pass", "fail"},
             findings : {<<>>, <<"f">>}]
MCReports ==
  [layers : UpTo(2, MCLayers),
   disagreements : UpTo(1, [tool : {"trivy"}, layer : {"", "ci-medium"}]),
   suppressions : UpTo(2, [justified : BOOLEAN, justification : {"", "why"}])]
MCPayloads ==
  [layers : UpTo(1, [layer : {"ci-fast", "nightly"}, verdict : {"pass", "maybe"},
                     findings : {{}, {<<"f">>}}]),
   disagreements : UpTo(1, [tool : {"trivy"}, layer : {{}, {"ci-medium"}}]),
   suppressions : UpTo(2, [justified : {{}, {TRUE}, {FALSE}}, justification : {{}, {"why"}}])]

MCMessageTypes == {"decision-required", "task-complete", "human-decision", "own-type"}
MCReviewBlocks ==
  [declared : {TRUE}, stray : BOOLEAN, mandatory : SUBSET MCMessageTypes,
   auto_triage : SUBSET MCMessageTypes, opt_in : {{}, {"info"}}]
  \cup [declared : {FALSE}, stray : {FALSE}, mandatory : {{}}, auto_triage : {{}}, opt_in : {{}}]

MCRepoSlugs == {"core-api", "web-app", "ghost"}
MCPlatformRepos == {"core-api", "web-app"}
MCOutcomeIds == {"jtbd-1", "jtbd-9"}
MCOutcomes == {"jtbd-1"}
Texts == {"", "TODO", "text"}
MCSections ==
  {[key \in SECTION_KEYS |-> IF key \in DOMAIN some THEN some[key] ELSE rest] :
     some \in [{"problem", "scope"} -> Texts], rest \in {"", "text"}}
MCClauses ==
  LET clauses == [head : {"core-api", "ghost", "the"}, others : {{}, {"web-app"}, {"ghost"}}]
  IN  UpTo(1, clauses)
      \cup {<<[head |-> "core-api", others |-> {"ghost"}], c>> : c \in clauses}
MCRequests ==
  [subject : Texts, sections : MCSections, clauses : MCClauses,
   secret : {"none", "section", "outside"}]
MCOpenspecs ==
  [found : {TRUE}, outcome_id : {"", "jtbd-1", "jtbd-9"}, outcome : {"", "TODO", "jtbd-1", "prose"}]
  \cup [found : {FALSE}, outcome_id : {""}, outcome : {""}]

RuleSets ==
  UNION {[some -> {"true", "false"}] : some \in SUBSET {"force_push_forbidden", "own_rule"}}
  \cup {[rule \in {"own_rule"} |-> "text"]}
Files == [ok : {TRUE}, rules : RuleSets]
Unreadable == [ok |-> FALSE, rules |-> <<>>]
MCPolicyFolders ==
  [index_ok : BOOLEAN, narrow_only : {{}, {"own_rule"}},
   files : {"lax" :> lax @@ "strict" :> strict : lax \in Files \cup {Unreadable}, strict \in Files}
           \cup {"lax" :> lax @@ "standard" :> standard : lax, standard \in Files}]
MCSelections ==
  [program : {"", "strict"}, repo : {"", "lax"}, agent : {"", "strict", "ghost"}]

Path(area, doc, parts) == [area |-> area, doc |-> doc, parts |-> parts]
MCChangedPaths ==
  {Path("src", FALSE, <<"app", "py">>), Path("src", TRUE, <<"app", "py">>),
   Path("src", FALSE, <<"note", "md">>), Path("root", TRUE, <<"README", "rst">>),
   Path("root", FALSE, <<"", "gitignore">>), Path("root", FALSE, <<"setup", "py">>),
   Path("tests", FALSE, <<"t", "py">>), Path("pile", FALSE, <<"12", "fix", "md">>),
   Path("pile", FALSE, <<"34", "fix", "md">>), Path("pile", FALSE, <<"12", "oops", "md">>)}
MCPrNumbers == {"", "12"}

Pile ==
  {{f \in [repo : {"r1", "r2"}, name : {"12.fix.md", "34.fix.md"}, content : {"a", "b"}] :
      <<f.repo, f.name, f.content>> \in files} :
     files \in {{<<r[1], r[2], of[r]>> : r \in {x \in DOMAIN of : of[x] # ""}} :
                  of \in [{<<"r1", "12.fix.md">>, <<"r1", "34.fix.md">>, <<"r2", "12.fix.md">>}
                            -> {"", "a", "b"}]}}
MCPiles == UpTo(2, Pile) \cup {<<p, {}, q>> : p, q \in Pile}

MCClasses == {"pii", "finance"}
MCRouters ==
  [declared : {TRUE}, stray : {FALSE}, backend : {"", LITELLM_PROXY}, base_url : {"", "http"},
   local_only : SUBSET MCClasses]
  \cup [declared : BOOLEAN, stray : BOOLEAN, backend : {"", "other"}, base_url : {""},
        local_only : {{}}]
MCRoutes ==
  {NoRoute}
  \cup [form : {"text"}, family : {"", "openai"}, model : {""}, local : {FALSE}, stray : {FALSE}]
  \cup [form : {"mapping"}, family : {"", "ollama"}, model : {"", "m"}, local : BOOLEAN,
        stray : BOOLEAN]
MCAgentLists ==
  {<<>>} \cup {<<[name |-> n, route |-> r]>> : n \in {"agent", "other"}, r \in MCRoutes}
  \cup {<<[name |-> n, route |-> r], [name |-> "agent", route |-> s]>> :
          n \in {"agent", "other"}, r, s \in MCRoutes}

MCSlugOf == "roman k" :> "roman-k" @@ "rk" :> "rk" @@ "ann" :> "ann" @@ "" :> ""
MCLocalOf == "rk@x" :> "rk" @@ "ann@x" :> "ann"
MCEntries ==
  [name : {"roman k", "rk", "ann"}, email : {"", "rk@x", "ann@x"},
   roles : {{"approver"}, {"viewer"}}]
MCRosters ==
  UpTo(2, MCEntries)
  \cup {<<e>> : e \in [name : {"", "ann"}, email : {""}, roles : {{}, {""}, {"viewer"}}]}
Account == [human : {"roman-k", "rk", "ann@x", ""}, config_dir : {"d1", "d2"}]
MCAccountLists ==
  UpTo(1, Account) \cup {<<[human |-> "rk@x", config_dir |-> "d3"], a>> : a \in Account}
=============================================================================
