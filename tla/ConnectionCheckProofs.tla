----------------------- MODULE ConnectionCheckProofs -----------------------
(***************************************************************************)
(* For any sessions, connections, targets and ssh config, over every       *)
(* interleaving, every death of a session or an agent and every overlap of *)
(* two persists: the registry and the store of reports stay true.          *)
(*                                                                         *)
(* Neither property is inductive.  An entry saved now was found in the     *)
(* config, and a report written now was given, several steps before.       *)
(* WorkInv says what each stage of a session's work has in hand;           *)
(* RegistryInv carries the properties of the file over to the copies from  *)
(* which it is saved; StoreInv says of a persist under way that what it    *)
(* read is what the store says and what it writes is one report more.      *)
(***************************************************************************)
EXTENDS ConnectionCheck, FiniteSetTheorems, WellFoundedInduction, TLAPS

(* The least of a set of numbers is one of them.                           *)
LEMMA LeastByRelation ==
  ASSUME NEW R, \A y, z \in Nat : y < z => <<y, z>> \in R,
         NEW set \in SUBSET Nat, NEW x \in set, \A y \in set : ~(<<y, x>> \in R)
  PROVE  Min(set) \in set
<1>1. \A y \in set : x =< y
  <2>1. TAKE y \in set
  <2>2. x \in Nat /\ y \in Nat /\ ~(y < x)
    OBVIOUS
  <2> QED
    BY ONLY <2>2
<1> QED
  BY <1>1 DEF Min

LEMMA LeastIsIn ==
  ASSUME NEW set \in SUBSET Nat, set # {}
  PROVE  Min(set) \in set
<1>1. \E x \in set : \A y \in set : ~(<<y, x>> \in OpToRel(<, Nat))
  BY NatLessThanWellFounded, WFMin
<1>2. \A y, z \in Nat : y < z => <<y, z>> \in OpToRel(<, Nat)
  BY DEF OpToRel
<1> QED
  BY <1>1, <1>2, LeastByRelation, Zenon

(* The entry that _key_locator finds in the config for an alias            *)
FromConfig(alias, key) ==
  \E h, i \in DOMAIN SshConfig :
    /\ h < i /\ IsHost(SshConfig[h]) /\ alias \in SshConfig[h].names
    /\ \A j \in (h + 1)..i : ~IsHost(SshConfig[j])
    /\ SshConfig[i].key = key

LEMMA IdentityIsFromConfig ==
  ASSUME NEW alias, Identity(alias) # None
  PROVE  Identity(alias) \in Key /\ FromConfig(alias, Identity(alias))
<1> DEFINE Under(i) ==
             /\ ~IsHost(SshConfig[i])
             /\ \E h \in 1..(i - 1) :
                  /\ IsHost(SshConfig[h]) /\ alias \in SshConfig[h].names
                  /\ \A j \in (h + 1)..(i - 1) : ~IsHost(SshConfig[j])
           under == [i \in DOMAIN SshConfig |-> Under(i)]
           set == {i \in 1..Len(under) : under[i]}
<1>1. SshConfig \in Seq(ConfigLine) /\ Len(SshConfig) \in Nat
      /\ DOMAIN SshConfig = 1..Len(SshConfig)
  BY ConnectionAssumption
<1>2. Len(under) = Len(SshConfig)
  BY <1>1
<1>3. LET found == IF set # {} THEN Min(set) ELSE 0
      IN  Identity(alias) = IF found = 0 THEN None ELSE SshConfig[found].key
  BY DEF Identity, SelectInSeq
<1>4. set # {} /\ Min(set) \in set /\ Identity(alias) = SshConfig[Min(set)].key
  <2>1. set # {}
    BY <1>3
  <2>2. set \in SUBSET Nat /\ 0 \notin set
    BY <1>1, <1>2
  <2>3. Min(set) \in set
    BY <2>1, <2>2, LeastIsIn
  <2> QED
    BY <1>3, <2>1, <2>2, <2>3
<1>5. PICK i \in DOMAIN SshConfig : Under(i) /\ Identity(alias) = SshConfig[i].key
  BY <1>1, <1>2, <1>4
<1>6. PICK h \in 1..(i - 1) :
        /\ IsHost(SshConfig[h]) /\ alias \in SshConfig[h].names
        /\ \A j \in (h + 1)..(i - 1) : ~IsHost(SshConfig[j])
  BY <1>5
<1>7. h \in DOMAIN SshConfig /\ h < i /\ \A j \in (h + 1)..i : ~IsHost(SshConfig[j])
  BY <1>1, <1>5, <1>6
<1>8. SshConfig[i].key \in Key
  BY <1>1, <1>5 DEF ConfigLine, IsHost
<1> QED
  BY <1>5, <1>6, <1>7, <1>8 DEF FromConfig

-----------------------------------------------------------------------------
(* Where a session is with its check, and what it has for it               *)
Healing(s) == pc[s] \in {"heal", "register", "load"}
Reporting(s) == pc[s] \in {"report", "merge", "replace"}
Good == {"ok", "fixed"}

AtWork(s) ==
  /\ Healing(s) => conn[s] \in SSH_TYPES /\ cache[s] \in Entries
  /\ pc[s] = "register" => KeyLocator(cache[s], conn[s]) # None
  /\ Reporting(s) =>
       /\ conn[s] \in Conn /\ verdict[s] \in Status
       /\ conn[s] \in SSH_TYPES /\ Dangling(conn[s]) => verdict[s] \notin Good

WorkInv == TypeOK /\ \A s \in Session : AtWork(s)

(* A locator is the ssh_ref or from the config, an entry a locator.        *)
Located(t, key) == key \in {None, SshRef[t]} \/ FromConfig(SshRef[t], key)

LEMMA LocatorIsLocated ==
  ASSUME NEW entries \in Entries, NEW t \in SSH_TYPES
  PROVE  /\ KeyLocator(entries, t) \in Key \union Alias \union {None}
         /\ Located(t, entries[t]) => Located(t, KeyLocator(entries, t))
         /\ entries[t] # None => KeyLocator(entries, t) # None
<1>1. SshRef[t] \in Alias \union {None}
  BY ConnectionAssumption
<1>2. Identity(SshRef[t]) # None =>
        Identity(SshRef[t]) \in Key /\ FromConfig(SshRef[t], Identity(SshRef[t]))
  BY IdentityIsFromConfig
<1> QED
  BY <1>1, <1>2 DEF KeyLocator, Located, Entries

LEMMA WorkInvInit == Init => WorkInv
<1> SUFFICES ASSUME Init
             PROVE  WorkInv
  OBVIOUS
<1> USE DEF Init
<1>1. disk \in Entries
  BY ConnectionAssumption DEF Entries
<1>2. NoReports \in Reports
  BY DEF NoReports, Reports
<1>3. /\ socket \in [SSH_TYPES -> {"none", "live", "stale"}]
      /\ holding \subseteq SSH_TYPES /\ loose \subseteq SSH_TYPES
      /\ cache \in [Session -> Entries \union {None}]
      /\ current \subseteq Session
  OBVIOUS
<1>4. /\ pc \in [Session ->
             {"idle", "heal", "register", "load", "report", "merge", "replace"}]
      /\ conn \in [Session -> Conn \union {None}]
      /\ verdict \in [Session -> Status \union {None}]
      /\ \A s \in Session : pc[s] = "idle" /\ conn[s] = None
  OBVIOUS
<1>5. /\ {store, last} \subseteq [Program -> Reports]
      /\ view \in [Session -> [Program -> Reports]]
  BY <1>2
<1>6. checks \in 0..MaxChecks
  <2>1. checks = 0 /\ MaxChecks \in Nat
    BY ConnectionAssumption
  <2> QED
    BY ONLY <2>1
<1>7. spoiled \in BOOLEAN /\ crossed \in BOOLEAN
  OBVIOUS
<1> QED
  BY <1>1, <1>3, <1>4, <1>5, <1>6, <1>7 DEF WorkInv, TypeOK, AtWork, Healing, Reporting

(* What is saved is of the type of the registry.                           *)
LEMMA SaveKeeps ==
  ASSUME TypeOK, NEW s \in Session, NEW entries \in Entries, Save(s, entries)
  PROVE  /\ disk' \in Entries /\ cache' \in [Session -> Entries \union {None}]
         /\ current' \subseteq Session /\ spoiled' \in BOOLEAN
         /\ cache'[s] = entries /\ \A x \in Session \ {s} : cache'[x] = cache[x]
<1>1. /\ cache' = [cache EXCEPT ![s] = entries] /\ disk' = entries
      /\ spoiled' = (spoiled \/ s \notin current) /\ current' = {s}
  BY DEF Save
<1>2. spoiled' \in BOOLEAN
  BY <1>1 DEF TypeOK
<1> QED
  BY <1>1, <1>2 DEF TypeOK

(* prune_dead and remove take entries out of the copy.                     *)
LEMMA PruneWork ==
  ASSUME WorkInv, NEW s \in Session, PruneDead(s)
  PROVE  WorkInv'
<1> DEFINE Dead(t) == cache[s][t] # None /\ socket[t] # "live"
           left == [t \in SSH_TYPES |-> IF Dead(t) THEN None ELSE cache[s][t]]
<1>1. pc[s] = "idle" /\ cache[s] # None /\ Save(s, left)
      /\ UNCHANGED <<agents, pc, conn, verdict, checks, reporting>>
  BY DEF PruneDead
<1>2. cache[s] \in Entries
  BY <1>1 DEF WorkInv, TypeOK
<1>3. left \in Entries
  BY <1>2 DEF Entries
<1> HIDE DEF left
<1>4. TypeOK'
  BY <1>1, <1>3, SaveKeeps DEF WorkInv, TypeOK, agents, reporting
<1>5. \A x \in Session : AtWork(x)'
  <2> TAKE x \in Session
  <2>1. CASE x = s
    BY <1>1, <2>1 DEF AtWork, Healing, Reporting
  <2>2. CASE x # s
    <3>1. cache'[x] = cache[x]
      BY <1>1, <1>3, <2>2, SaveKeeps DEF WorkInv
    <3> QED
      BY <1>1, <3>1 DEF WorkInv, AtWork, Healing, Reporting, KeyLocator
  <2> QED
    BY <2>1, <2>2
<1> QED
  BY <1>4, <1>5 DEF WorkInv

LEMMA RemoveWork ==
  ASSUME WorkInv, NEW s \in Session, NEW t \in SSH_TYPES, RemoveEntry(s, t)
  PROVE  WorkInv'
<1> DEFINE left == [cache[s] EXCEPT ![t] = None]
<1>1. /\ pc[s] = "idle" /\ cache[s] # None /\ Save(s, left) /\ loose' = loose \union {t}
      /\ UNCHANGED <<socket, holding, pc, conn, verdict, checks, reporting>>
  BY DEF RemoveEntry
<1>2. cache[s] \in Entries
  BY <1>1 DEF WorkInv, TypeOK
<1>3. left \in Entries
  BY <1>2 DEF Entries
<1> HIDE DEF left
<1>4. TypeOK'
  BY <1>1, <1>3, SaveKeeps DEF WorkInv, TypeOK, reporting
<1>5. \A x \in Session : AtWork(x)'
  <2> TAKE x \in Session
  <2>1. CASE x = s
    BY <1>1, <2>1 DEF AtWork, Healing, Reporting
  <2>2. CASE x # s
    <3>1. cache'[x] = cache[x]
      BY <1>1, <1>3, <2>2, SaveKeeps DEF WorkInv
    <3> QED
      BY <1>1, <3>1 DEF WorkInv, AtWork, Healing, Reporting, KeyLocator
  <2> QED
    BY <2>1, <2>2
<1> QED
  BY <1>4, <1>5 DEF WorkInv

(* A check that ends with a verdict                                        *)
LEMMA ConcludeWork ==
  ASSUME WorkInv, NEW s \in Session, NEW status \in Status, Conclude(s, status),
         conn' \in [Session -> Conn \union {None}], conn'[s] \in Conn,
         cache' \in [Session -> Entries \union {None}], current' \subseteq Session,
         \A x \in Session \ {s} : conn'[x] = conn[x] /\ cache'[x] = cache[x],
         conn'[s] \in SSH_TYPES /\ Dangling(conn'[s]) => status \notin Good,
         checks' \in 0..MaxChecks, holding' \subseteq SSH_TYPES,
         UNCHANGED <<socket, loose, disk, spoiled, reporting>>
  PROVE  WorkInv'
<1>1. /\ pc' = [pc EXCEPT ![s] = "report"] /\ verdict' = [verdict EXCEPT ![s] = status]
  BY DEF Conclude
<1>2. TypeOK'
  <2>1. /\ pc' \in [Session ->
              {"idle", "heal", "register", "load", "report", "merge", "replace"}]
        /\ verdict' \in [Session -> Status \union {None}]
        /\ \A x \in Session \ {s} : pc'[x] = pc[x]
        /\ pc'[s] = "report"
    BY <1>1 DEF WorkInv, TypeOK
  <2>2. conn'[s] # None
    BY ConnectionAssumption
  <2>3. \A x \in Session : pc'[x] = "idle" <=> conn'[x] = None
    BY <2>1, <2>2 DEF WorkInv, TypeOK
  <2> QED
    BY <2>1, <2>3 DEF WorkInv, TypeOK, reporting
<1>3. \A x \in Session : AtWork(x)'
  <2> TAKE x \in Session
  <2>1. CASE x = s
    BY <1>1, <2>1 DEF WorkInv, TypeOK, AtWork, Healing, Reporting, Dangling, HasHost
  <2>2. CASE x # s
    BY <1>1, <2>2 DEF WorkInv, TypeOK, AtWork, Healing, Reporting, KeyLocator
  <2> QED
    BY <2>1, <2>2
<1> QED
  BY <1>2, <1>3 DEF WorkInv

LEMMA NetworkWork ==
  ASSUME WorkInv, NEW s \in Session, NEW c \in Conn \ SSH_TYPES, CheckNetwork(s, c)
  PROVE  WorkInv'
<1>1. PICK reachable \in BOOLEAN : Conclude(s, NetworkProbe(c, reachable))
  BY DEF CheckNetwork
<1>2. /\ checks < MaxChecks /\ checks' = checks + 1 /\ conn' = [conn EXCEPT ![s] = c]
      /\ UNCHANGED <<agents, registry, reporting>>
  BY DEF CheckNetwork
<1>3. NetworkProbe(c, reachable) \in Status
  BY DEF NetworkProbe, Status
<1>4. checks' \in 0..MaxChecks
  BY <1>2, ConnectionAssumption DEF WorkInv, TypeOK
<1>5. /\ conn' \in [Session -> Conn \union {None}] /\ conn'[s] = c
      /\ \A x \in Session \ {s} : conn'[x] = conn[x]
  BY <1>2 DEF WorkInv, TypeOK
<1>6. /\ cache' = cache /\ cache \in [Session -> Entries \union {None}]
      /\ current' \subseteq Session /\ holding' \subseteq SSH_TYPES
      /\ UNCHANGED <<socket, loose, disk, spoiled, reporting>>
  BY <1>2 DEF WorkInv, TypeOK, agents, registry
<1> QED
  BY <1>1, <1>3, <1>4, <1>5, <1>6, ConcludeWork

LEMMA LoadedCopy ==
  ASSUME TypeOK, NEW s \in Session, EnsureLoaded(s)
  PROVE  /\ cache' \in [Session -> Entries \union {None}] /\ current' \subseteq Session
         /\ cache'[s] \in Entries
         /\ cache'[s] \in {disk, NoEntries} \/ (cache[s] # None /\ cache'[s] = cache[s])
         /\ \A x \in Session \ {s} : cache'[x] = cache[x]
         /\ (\A x \in current : cache[x] = disk) => \A x \in current' : cache'[x] = disk
<1>1. NoEntries \in Entries
  BY DEF NoEntries, Entries
<1>2. CASE cache[s] # None /\ cache' = cache /\ current' = current
  BY <1>2 DEF TypeOK
<1>3. CASE cache[s] = None /\ cache' = [cache EXCEPT ![s] = disk]
           /\ current' = current \union {s}
  BY <1>3 DEF TypeOK
<1>4. CASE cache[s] = None /\ cache' = [cache EXCEPT ![s] = NoEntries] /\ current' = current
  BY <1>1, <1>4, ConnectionAssumption DEF TypeOK
<1> QED
  BY <1>2, <1>3, <1>4 DEF EnsureLoaded

LEMMA ProbeStatus ==
  ASSUME NEW entries, NEW t \in SSH_TYPES
  PROVE  /\ SshProbe(entries, t) \in Status
         /\ Dangling(t) => SshProbe(entries, t) = "unreachable"
BY DEF SshProbe, Status

LEMMA CheckWork ==
  ASSUME WorkInv, NEW s \in Session, NEW t \in SSH_TYPES, NEW fix \in BOOLEAN,
         CheckSsh(s, t, fix)
  PROVE  WorkInv'
<1> DEFINE status == SshProbe(cache'[s], t)
<1>1. /\ pc[s] = "idle" /\ checks < MaxChecks /\ checks' = checks + 1
      /\ conn' = [conn EXCEPT ![s] = t] /\ EnsureLoaded(s)
      /\ IF fix /\ status # "ok"
         THEN pc' = [pc EXCEPT ![s] = "heal"] /\ verdict' = verdict
         ELSE Conclude(s, status)
      /\ UNCHANGED <<agents, disk, spoiled, reporting>>
  BY DEF CheckSsh
<1>2. /\ cache' \in [Session -> Entries \union {None}] /\ current' \subseteq Session
      /\ cache'[s] \in Entries /\ \A x \in Session \ {s} : cache'[x] = cache[x]
  BY <1>1, LoadedCopy DEF WorkInv
<1>3. checks' \in 0..MaxChecks
  BY <1>1, ConnectionAssumption DEF WorkInv, TypeOK
<1>4. t \in Conn /\ t # None
  BY ConnectionAssumption
<1>5. /\ conn' \in [Session -> Conn \union {None}] /\ conn'[s] = t
      /\ \A x \in Session \ {s} : conn'[x] = conn[x]
  BY <1>1, <1>4 DEF WorkInv, TypeOK
<1>6. status \in Status /\ (Dangling(t) => status \notin Good)
  BY ProbeStatus DEF Good
<1> HIDE DEF status
<1>7. /\ holding' \subseteq SSH_TYPES
      /\ UNCHANGED <<socket, loose, disk, spoiled, reporting>>
  BY <1>1 DEF WorkInv, TypeOK, agents
<1>8. CASE fix /\ status # "ok"
  <2>1. pc' = [pc EXCEPT ![s] = "heal"] /\ verdict' = verdict
    BY <1>1, <1>8
  <2>2. TypeOK'
    BY <1>2, <1>3, <1>4, <1>5, <1>7, <2>1 DEF WorkInv, TypeOK, reporting
  <2>3. \A x \in Session : AtWork(x)'
    BY <1>2, <1>5, <2>1 DEF WorkInv, TypeOK, AtWork, Healing, Reporting, KeyLocator
  <2> QED
    BY <2>2, <2>3 DEF WorkInv
<1>9. CASE ~(fix /\ status # "ok")
  BY <1>1, <1>2, <1>3, <1>4, <1>5, <1>6, <1>7, <1>9, ConcludeWork
<1> QED
  BY <1>8, <1>9

(* Steps of a heal and of a report leave what the session works on alone.  *)
LEMMA StepWork ==
  ASSUME WorkInv, NEW s \in Session,
         NEW at \in {"heal", "register", "load", "report", "merge", "replace"},
         pc[s] # "idle", pc' = [pc EXCEPT ![s] = at],
         conn' = conn, verdict' = verdict, checks' = checks, TypeOK /\ crossed' \in BOOLEAN,
         socket' \in [SSH_TYPES -> {"none", "live", "stale"}],
         cache' \in [Session -> Entries \union {None}], disk' \in Entries,
         current' \subseteq Session, spoiled' \in BOOLEAN,
         \A x \in Session \ {s} : cache'[x] = cache[x],
         view' \in [Session -> [Program -> Reports]], store' = store, last' = last,
         holding' = holding, loose' = loose, AtWork(s)'
  PROVE  WorkInv'
<1>1. /\ pc' \in [Session ->
            {"idle", "heal", "register", "load", "report", "merge", "replace"}]
      /\ pc'[s] # "idle" /\ \A x \in Session \ {s} : pc'[x] = pc[x]
  BY DEF TypeOK
<1>2. TypeOK'
  BY <1>1 DEF TypeOK
<1>3. \A x \in Session \ {s} : AtWork(x)'
  BY <1>1 DEF WorkInv, AtWork, Healing, Reporting, KeyLocator
<1> QED
  BY <1>2, <1>3 DEF WorkInv

LEMMA HealFailsWork ==
  ASSUME WorkInv, NEW s \in Session, HealFails(s)
  PROVE  WorkInv'
<1>1. /\ pc[s] = "heal" /\ Conclude(s, "unreachable")
      /\ UNCHANGED <<agents, registry, conn, checks, reporting>>
  BY DEF HealFails
<1>2. /\ conn'[s] \in Conn /\ conn' = conn /\ conn' \in [Session -> Conn \union {None}]
      /\ cache' = cache /\ cache' \in [Session -> Entries \union {None}]
      /\ current' \subseteq Session /\ checks' \in 0..MaxChecks /\ holding' \subseteq SSH_TYPES
      /\ UNCHANGED <<socket, loose, disk, spoiled, reporting>>
  BY <1>1, ConnectionAssumption DEF WorkInv, TypeOK, AtWork, Healing, agents, registry
<1>3. "unreachable" \in Status /\ "unreachable" \notin Good
  BY DEF Status, Good
<1> QED
  BY <1>1, <1>2, <1>3, ConcludeWork

LEMMA SpawnWork ==
  ASSUME WorkInv, NEW s \in Session, SpawnAgent(s)
  PROVE  WorkInv'
<1>1. /\ pc[s] = "heal" /\ KeyLocator(cache[s], conn[s]) # None
      /\ socket' = [socket EXCEPT ![conn[s]] = "live"]
      /\ pc' = [pc EXCEPT ![s] = "register"]
      /\ UNCHANGED <<holding, loose, registry, conn, verdict, checks, reporting>>
  BY DEF SpawnAgent
<1>2. AtWork(s)'
  BY <1>1 DEF WorkInv, TypeOK, AtWork, Healing, Reporting, KeyLocator, registry
<1>3. socket' \in [SSH_TYPES -> {"none", "live", "stale"}]
  BY <1>1 DEF WorkInv, TypeOK
<1> QED
  BY <1>1, <1>2, <1>3, StepWork DEF WorkInv, TypeOK, registry, reporting

LEMMA RegisterWork ==
  ASSUME WorkInv, NEW s \in Session, Register(s)
  PROVE  WorkInv'
<1> DEFINE key == KeyLocator(cache[s], conn[s])
           entries == [cache[s] EXCEPT ![conn[s]] = key]
<1>1. /\ pc[s] = "register" /\ Save(s, entries) /\ pc' = [pc EXCEPT ![s] = "load"]
      /\ UNCHANGED <<agents, conn, verdict, checks, reporting>>
  BY DEF Register
<1>2. conn[s] \in SSH_TYPES /\ cache[s] \in Entries
  BY <1>1 DEF WorkInv, AtWork, Healing
<1>3. key \in Key \union Alias \union {None}
  BY <1>2, LocatorIsLocated
<1>4. entries \in Entries
  BY <1>2, <1>3 DEF Entries
<1> HIDE DEF entries
<1>5. /\ disk' \in Entries /\ cache' \in [Session -> Entries \union {None}]
      /\ current' \subseteq Session /\ spoiled' \in BOOLEAN
      /\ cache'[s] = entries /\ \A x \in Session \ {s} : cache'[x] = cache[x]
  BY <1>1, <1>4, SaveKeeps DEF WorkInv
<1>6. AtWork(s)'
  BY <1>1, <1>2, <1>4, <1>5 DEF WorkInv, TypeOK, AtWork, Healing, Reporting
<1> QED
  BY <1>1, <1>5, <1>6, StepWork DEF WorkInv, TypeOK, agents, reporting

LEMMA LoadWork ==
  ASSUME WorkInv, NEW s \in Session, LoadKeyAndProbe(s)
  PROVE  WorkInv'
<1> DEFINE again == SshProbe(cache[s], conn[s])
           status == IF again = "ok" THEN "fixed" ELSE again
<1>1. /\ pc[s] = "load"
      /\ holding' = holding \union {conn[s]} \/ holding' = holding
      /\ Conclude(s, status)
      /\ UNCHANGED <<socket, loose, registry, conn, checks, reporting>>
  BY DEF LoadKeyAndProbe
<1>2. conn[s] \in SSH_TYPES
  BY <1>1 DEF WorkInv, AtWork, Healing
<1>3. status \in Status /\ (Dangling(conn[s]) => status \notin Good)
  BY <1>2, ProbeStatus DEF Good, Status
<1> HIDE DEF status
<1>4. /\ conn'[s] \in Conn /\ conn' = conn /\ conn' \in [Session -> Conn \union {None}]
      /\ cache' = cache /\ cache' \in [Session -> Entries \union {None}]
      /\ current' \subseteq Session /\ checks' \in 0..MaxChecks /\ holding' \subseteq SSH_TYPES
      /\ UNCHANGED <<socket, loose, disk, spoiled, reporting>>
  BY <1>1, <1>2, ConnectionAssumption DEF WorkInv, TypeOK, registry
<1> QED
  BY <1>1, <1>3, <1>4, ConcludeWork

LEMMA EnvelopeWork ==
  ASSUME WorkInv, NEW s \in Session, LoadEnvelope(s)
  PROVE  WorkInv'
<1>1. /\ pc[s] = "report" /\ pc' = [pc EXCEPT ![s] = "merge"]
      /\ \/ /\ view' = [view EXCEPT ![s] = store]
            /\ crossed' = (crossed \/ \E x \in Session : Persisting(x))
         \/ view' = [view EXCEPT ![s] = [p \in Program |-> NoReports]] /\ crossed' = TRUE
      /\ UNCHANGED <<agents, registry, conn, verdict, checks, store, last>>
  BY DEF LoadEnvelope
<1>2. view' \in [Session -> [Program -> Reports]]
  <2>1. NoReports \in Reports
    BY DEF NoReports, Reports
  <2> QED
    BY <1>1, <2>1 DEF WorkInv, TypeOK
<1>3. crossed' \in BOOLEAN
  BY <1>1 DEF WorkInv, TypeOK
<1>4. AtWork(s)'
  BY <1>1 DEF WorkInv, TypeOK, AtWork, Healing, Reporting
<1> QED
  BY <1>1, <1>2, <1>3, <1>4, StepWork DEF WorkInv, TypeOK, agents, registry

LEMMA ReportsWork ==
  ASSUME WorkInv, NEW s \in Session, LoadReports(s)
  PROVE  WorkInv'
<1> DEFINE p == ProgramOf[s]
           reports == Merged(s, store[p])
<1>1. /\ pc[s] = "merge" /\ pc' = [pc EXCEPT ![s] = "replace"]
      /\ view' = [view EXCEPT ![s][p] = reports]
      /\ UNCHANGED <<agents, registry, conn, verdict, checks, store, last, crossed>>
  BY DEF LoadReports
<1>2. p \in Program
  BY ConnectionAssumption
<1>3. reports \in Reports
  <2>1. conn[s] \in Conn /\ verdict[s] \in Status /\ store[p] \in Reports
    BY <1>1, <1>2 DEF WorkInv, TypeOK, AtWork, Reporting
  <2> QED
    BY <2>1 DEF Merged, Reports
<1> HIDE DEF reports
<1>4. view' \in [Session -> [Program -> Reports]]
  BY <1>1, <1>2, <1>3 DEF WorkInv, TypeOK
<1>5. AtWork(s)'
  BY <1>1 DEF WorkInv, TypeOK, AtWork, Healing, Reporting
<1> QED
  BY <1>1, <1>4, <1>5, StepWork DEF WorkInv, TypeOK, agents, registry

(* A session that is done with a check, or dead, is at nothing.            *)
LEMMA LeaveWork ==
  ASSUME WorkInv, NEW s \in Session, Leave(s),
         store' \in [Program -> Reports], last' \in [Program -> Reports],
         cache' \in [Session -> Entries \union {None}], current' \subseteq Session,
         \A x \in Session \ {s} : cache'[x] = cache[x], loose' \subseteq SSH_TYPES,
         UNCHANGED <<socket, holding, disk, spoiled, checks, crossed>>
  PROVE  WorkInv'
<1>1. /\ pc' = [pc EXCEPT ![s] = "idle"]
      /\ conn' = [conn EXCEPT ![s] = None] /\ verdict' = [verdict EXCEPT ![s] = None]
      /\ view' = [view EXCEPT ![s] = [p \in Program |-> NoReports]]
  BY DEF Leave
<1>2. TypeOK'
  <2>1. view' \in [Session -> [Program -> Reports]]
    <3>1. NoReports \in Reports
      BY DEF NoReports, Reports
    <3> QED
      BY <1>1, <3>1 DEF WorkInv, TypeOK
  <2>2. /\ pc' \in [Session ->
              {"idle", "heal", "register", "load", "report", "merge", "replace"}]
        /\ conn' \in [Session -> Conn \union {None}]
        /\ verdict' \in [Session -> Status \union {None}]
        /\ \A x \in Session : pc'[x] = "idle" <=> conn'[x] = None
    BY <1>1 DEF WorkInv, TypeOK
  <2> QED
    BY <2>1, <2>2 DEF WorkInv, TypeOK
<1>3. \A x \in Session : AtWork(x)'
  <2> TAKE x \in Session
  <2>1. CASE x = s
    BY <1>1, <2>1 DEF WorkInv, TypeOK, AtWork, Healing, Reporting
  <2>2. CASE x # s
    BY <1>1, <2>2 DEF WorkInv, TypeOK, AtWork, Healing, Reporting, KeyLocator
  <2> QED
    BY <2>1, <2>2
<1> QED
  BY <1>2, <1>3 DEF WorkInv

LEMMA ReplaceWork ==
  ASSUME WorkInv, NEW s \in Session, ReplaceStore(s)
  PROVE  WorkInv'
<1>1. /\ pc[s] = "replace" /\ store' = view[s] /\ Leave(s)
      /\ last' = [last EXCEPT ![ProgramOf[s]][conn[s]] = verdict[s]]
      /\ UNCHANGED <<agents, registry, checks, crossed>>
  BY DEF ReplaceStore
<1>2. /\ conn[s] \in Conn /\ verdict[s] \in Status /\ ProgramOf[s] \in Program
  BY <1>1, ConnectionAssumption DEF WorkInv, AtWork, Reporting
<1>3. last' \in [Program -> Reports]
  BY <1>1, <1>2 DEF WorkInv, TypeOK, Reports
<1> QED
  BY <1>1, <1>3, LeaveWork DEF WorkInv, TypeOK, agents, registry

LEMMA DieWork ==
  ASSUME WorkInv, NEW s \in Session, Die(s)
  PROVE  WorkInv'
<1>1. /\ cache' = [cache EXCEPT ![s] = None] /\ current' = current \ {s}
      /\ loose' = IF pc[s] = "register" THEN loose \union {conn[s]} ELSE loose
      /\ Leave(s)
      /\ UNCHANGED <<socket, holding, disk, spoiled, checks, store, last, crossed>>
  BY DEF Die
<1>2. loose' \subseteq SSH_TYPES
  BY <1>1 DEF WorkInv, TypeOK, AtWork, Healing
<1> QED
  BY <1>1, <1>2, LeaveWork DEF WorkInv, TypeOK

LEMMA AgentDiesWork ==
  ASSUME WorkInv, NEW t \in SSH_TYPES, AgentDies(t)
  PROVE  WorkInv'
<1>1. /\ \E left \in {"none", "stale"} : socket' = [socket EXCEPT ![t] = left]
      /\ holding' = holding \ {t} /\ loose' = loose \ {t}
      /\ UNCHANGED <<registry, pc, conn, verdict, checks, reporting>>
  BY DEF AgentDies
<1>2. TypeOK'
  BY <1>1 DEF WorkInv, TypeOK, registry, reporting
<1>3. \A x \in Session : AtWork(x)'
  BY <1>1 DEF WorkInv, AtWork, Healing, Reporting, KeyLocator, registry
<1> QED
  BY <1>2, <1>3 DEF WorkInv

LEMMA WorkInvariant == WorkInv /\ [Next]_vars => WorkInv'
<1>1. WorkInv /\ UNCHANGED vars => WorkInv'
  BY DEF WorkInv, TypeOK, AtWork, Healing, Reporting, KeyLocator, vars, agents, registry, reporting
<1> QED
  BY <1>1, PruneWork, RemoveWork, CheckWork, NetworkWork, HealFailsWork, SpawnWork, RegisterWork,
     LoadWork, EnvelopeWork, ReportsWork, ReplaceWork, DieWork, AgentDiesWork DEF Next

-----------------------------------------------------------------------------
(* The copies that are current are what was saved, and every copy holds    *)
(* what a heal may have put there.                                         *)
RegistryInv ==
  /\ RegistryKnowsAgents
  /\ \A x \in current : cache[x] = disk
  /\ \A t \in SSH_TYPES : Located(t, disk[t])
  /\ \A x \in Session : cache[x] # None \/ Healing(x) =>
       \A t \in SSH_TYPES : Located(t, cache[x][t])

LEMMA RegistryInvInit == Init => RegistryInv
BY DEF Init, RegistryInv, RegistryKnowsAgents, Located, Healing

(* A save gives away no entry of an agent that is alive and to be known.   *)
LEMMA SaveRegistry ==
  ASSUME WorkInv, RegistryInv, NEW s \in Session, NEW entries \in Entries, Save(s, entries),
         \A t \in SSH_TYPES : Located(t, entries[t]),
         \A x \in Session \ {s} : pc'[x] = pc[x], conn' = conn, socket' = socket,
         loose \subseteq loose',
         pc[s] = "register" => entries[conn[s]] # None,
         \A t \in SSH_TYPES : cache[s][t] # None /\ entries[t] = None =>
           socket[t] # "live" \/ t \in loose'
  PROVE  RegistryInv'
<1>1. /\ disk' = entries /\ spoiled' = (spoiled \/ s \notin current) /\ current' = {s}
      /\ cache'[s] = entries /\ \A x \in Session \ {s} : cache'[x] = cache[x]
  BY SaveKeeps DEF Save, WorkInv
<1>2. RegistryKnowsAgents'
  <2> SUFFICES ASSUME ~spoiled', NEW t \in SSH_TYPES, socket[t] = "live",
                      disk'[t] = None, t \notin loose'
               PROVE  \E x \in Session : pc'[x] = "register" /\ conn[x] = t
    BY DEF RegistryKnowsAgents
  <2>1. ~spoiled /\ cache[s] = disk
    BY <1>1 DEF RegistryInv
  <2>2. disk[t] = None
    BY <1>1, <2>1
  <2>3. PICK x \in Session : pc[x] = "register" /\ conn[x] = t
    BY <2>1, <2>2 DEF RegistryInv, RegistryKnowsAgents
  <2>4. x # s
    BY <1>1, <2>3
  <2> QED
    BY <2>3, <2>4
<1>3. \A x \in Session : cache'[x] # None \/ Healing(x)' =>
        \A t \in SSH_TYPES : Located(t, cache'[x][t])
  BY <1>1 DEF RegistryInv, Healing
<1> QED
  BY <1>1, <1>2, <1>3 DEF RegistryInv, Located

(* Steps that save nothing: the registry is as it was, and each copy too.  *)
LEMMA KeepRegistry ==
  ASSUME RegistryInv, UNCHANGED registry,
         \A x \in Session : Healing(x)' => Healing(x),
         \A t \in SSH_TYPES : socket'[t] = "live" /\ t \notin loose' =>
           \/ \E x \in Session : pc'[x] = "register" /\ conn'[x] = t
           \/ /\ socket[t] = "live" /\ t \notin loose
              /\ ~\E x \in Session : pc[x] = "register" /\ conn[x] = t
  PROVE  RegistryInv'
<1>1. disk' = disk /\ cache' = cache /\ current' = current /\ spoiled' = spoiled
  BY DEF registry
<1>2. RegistryKnowsAgents'
  BY <1>1 DEF RegistryInv, RegistryKnowsAgents
<1> QED
  BY <1>1, <1>2 DEF RegistryInv, Located

LEMMA RegistryStep ==
  ASSUME WorkInv, RegistryInv, Next
  PROVE  RegistryInv'
<1>1. ASSUME NEW s \in Session, PruneDead(s)
      PROVE  RegistryInv'
  <2> DEFINE Dead(t) == cache[s][t] # None /\ socket[t] # "live"
             left == [t \in SSH_TYPES |-> IF Dead(t) THEN None ELSE cache[s][t]]
  <2>1. /\ pc[s] = "idle" /\ cache[s] # None /\ Save(s, left)
        /\ pc' = pc /\ conn' = conn /\ socket' = socket /\ loose' = loose
    BY <1>1 DEF PruneDead, agents
  <2>2. cache[s] \in Entries /\ left \in Entries
    BY <2>1 DEF WorkInv, TypeOK, Entries
  <2>3. \A t \in SSH_TYPES : Located(t, left[t])
    BY <2>1 DEF RegistryInv, Located
  <2>4. \A t \in SSH_TYPES : cache[s][t] # None /\ left[t] = None => socket[t] # "live"
    OBVIOUS
  <2> HIDE DEF left
  <2> QED
    BY <2>1, <2>2, <2>3, <2>4, SaveRegistry
<1>2. ASSUME NEW s \in Session, NEW t \in SSH_TYPES, RemoveEntry(s, t)
      PROVE  RegistryInv'
  <2> DEFINE left == [cache[s] EXCEPT ![t] = None]
  <2>1. /\ pc[s] = "idle" /\ cache[s] # None /\ Save(s, left)
        /\ pc' = pc /\ conn' = conn /\ socket' = socket /\ loose' = loose \union {t}
    BY <1>2 DEF RemoveEntry
  <2>2. cache[s] \in Entries /\ left \in Entries
    BY <2>1 DEF WorkInv, TypeOK, Entries
  <2>3. \A u \in SSH_TYPES : Located(u, left[u])
    BY <2>1, <2>2 DEF RegistryInv, Located, Entries
  <2>4. \A u \in SSH_TYPES : cache[s][u] # None /\ left[u] = None => u = t
    BY <2>2 DEF Entries
  <2> HIDE DEF left
  <2> QED
    BY <2>1, <2>2, <2>3, <2>4, SaveRegistry
<1>3. ASSUME NEW s \in Session, NEW t \in SSH_TYPES, NEW fix \in BOOLEAN, CheckSsh(s, t, fix)
      PROVE  RegistryInv'
  <2>1. /\ pc[s] = "idle" /\ EnsureLoaded(s) /\ conn' = [conn EXCEPT ![s] = t]
        /\ \/ pc' = [pc EXCEPT ![s] = "heal"] \/ pc' = [pc EXCEPT ![s] = "report"]
        /\ socket' = socket /\ loose' = loose /\ disk' = disk /\ spoiled' = spoiled
    BY <1>3 DEF CheckSsh, Conclude, agents
  <2>2. /\ cache'[s] \in {disk, NoEntries} \/ (cache[s] # None /\ cache'[s] = cache[s])
        /\ \A x \in Session \ {s} : cache'[x] = cache[x]
        /\ \A x \in current' : cache'[x] = disk
    BY <2>1, LoadedCopy DEF WorkInv, RegistryInv
  <2>3. \A x \in Session \ {s} : pc'[x] = pc[x] /\ conn'[x] = conn[x]
    BY <2>1 DEF WorkInv, TypeOK
  <2>4. RegistryKnowsAgents'
    <3> SUFFICES ASSUME ~spoiled, NEW u \in SSH_TYPES, socket[u] = "live",
                        disk[u] = None, u \notin loose
                 PROVE  \E x \in Session : pc'[x] = "register" /\ conn'[x] = u
      BY <2>1 DEF RegistryKnowsAgents
    <3>1. PICK x \in Session : pc[x] = "register" /\ conn[x] = u
      BY DEF RegistryInv, RegistryKnowsAgents
    <3>2. x # s
      BY <2>1, <3>1
    <3> QED
      BY <2>3, <3>1, <3>2
  <2>5. \A u \in SSH_TYPES : Located(u, cache'[s][u])
    BY <2>2 DEF RegistryInv, Located, NoEntries
  <2>6. \A x \in Session : cache'[x] # None \/ Healing(x)' =>
          \A u \in SSH_TYPES : Located(u, cache'[x][u])
    BY <2>2, <2>3, <2>5 DEF RegistryInv, Healing
  <2> QED
    BY <2>1, <2>2, <2>4, <2>6 DEF RegistryInv, Located
<1>4. ASSUME NEW s \in Session, NEW c \in Conn \ SSH_TYPES, CheckNetwork(s, c)
      PROVE  RegistryInv'
  <2>1. /\ pc[s] = "idle" /\ conn' = [conn EXCEPT ![s] = c]
        /\ pc' = [pc EXCEPT ![s] = "report"]
        /\ socket' = socket /\ loose' = loose /\ UNCHANGED registry
    BY <1>4 DEF CheckNetwork, Conclude, agents
  <2>2. \A x \in Session : pc[x] = "register" => pc'[x] = "register" /\ conn'[x] = conn[x]
    BY <2>1 DEF WorkInv, TypeOK
  <2>3. \A x \in Session : Healing(x)' => Healing(x)
    BY <2>1 DEF Healing, WorkInv, TypeOK
  <2> QED
    BY <2>1, <2>2, <2>3, KeepRegistry
<1>5. ASSUME NEW s \in Session, HealFails(s)
      PROVE  RegistryInv'
  <2>1. /\ pc[s] = "heal" /\ conn' = conn /\ pc' = [pc EXCEPT ![s] = "report"]
        /\ socket' = socket /\ loose' = loose /\ UNCHANGED registry
    BY <1>5 DEF HealFails, Conclude, agents
  <2>2. \A x \in Session : pc[x] = "register" => pc'[x] = "register"
    BY <2>1 DEF WorkInv, TypeOK
  <2>3. \A x \in Session : Healing(x)' => Healing(x)
    BY <2>1 DEF Healing, WorkInv, TypeOK
  <2> QED
    BY <2>1, <2>2, <2>3, KeepRegistry
<1>6. ASSUME NEW s \in Session, SpawnAgent(s)
      PROVE  RegistryInv'
  <2>1. /\ pc[s] = "heal" /\ conn' = conn /\ pc' = [pc EXCEPT ![s] = "register"]
        /\ socket' = [socket EXCEPT ![conn[s]] = "live"] /\ loose' = loose /\ UNCHANGED registry
    BY <1>6 DEF SpawnAgent
  <2>2. /\ pc'[s] = "register"
        /\ \A x \in Session : pc[x] = "register" => pc'[x] = "register"
    BY <2>1 DEF WorkInv, TypeOK
  <2>3. \A x \in Session : Healing(x)' => Healing(x)
    BY <2>1 DEF Healing, WorkInv, TypeOK
  <2>4. \A t \in SSH_TYPES : t # conn[s] => socket'[t] = socket[t]
    BY <2>1 DEF WorkInv, TypeOK
  <2> QED
    BY <2>1, <2>2, <2>3, <2>4, KeepRegistry
<1>7. ASSUME NEW s \in Session, Register(s)
      PROVE  RegistryInv'
  <2> DEFINE key == KeyLocator(cache[s], conn[s])
             entries == [cache[s] EXCEPT ![conn[s]] = key]
  <2>1. /\ pc[s] = "register" /\ Save(s, entries) /\ pc' = [pc EXCEPT ![s] = "load"]
        /\ conn' = conn /\ socket' = socket /\ loose' = loose
    BY <1>7 DEF Register, agents
  <2>2. conn[s] \in SSH_TYPES /\ cache[s] \in Entries /\ key # None
    BY <2>1 DEF WorkInv, AtWork, Healing
  <2>3. \A t \in SSH_TYPES : Located(t, cache[s][t])
    BY <2>1 DEF RegistryInv, Healing
  <2>4. key \in Key \union Alias \union {None} /\ Located(conn[s], key)
    BY <2>2, <2>3, LocatorIsLocated
  <2> HIDE DEF key
  <2>5. /\ entries \in Entries /\ entries[conn[s]] = key
        /\ \A t \in SSH_TYPES : t # conn[s] => entries[t] = cache[s][t]
    BY <2>2, <2>4 DEF Entries
  <2> HIDE DEF entries
  <2>6. \A t \in SSH_TYPES : Located(t, entries[t])
    BY <2>3, <2>4, <2>5
  <2>7. \A x \in Session \ {s} : pc'[x] = pc[x]
    BY <2>1 DEF WorkInv, TypeOK
  <2> QED
    BY <2>1, <2>2, <2>5, <2>6, <2>7, SaveRegistry
<1>8. ASSUME NEW s \in Session, LoadKeyAndProbe(s)
      PROVE  RegistryInv'
  <2>1. /\ pc[s] = "load" /\ conn' = conn /\ pc' = [pc EXCEPT ![s] = "report"]
        /\ socket' = socket /\ loose' = loose /\ UNCHANGED registry
    BY <1>8 DEF LoadKeyAndProbe, Conclude
  <2>2. \A x \in Session : pc[x] = "register" => pc'[x] = "register"
    BY <2>1 DEF WorkInv, TypeOK
  <2>3. \A x \in Session : Healing(x)' => Healing(x)
    BY <2>1 DEF Healing, WorkInv, TypeOK
  <2> QED
    BY <2>1, <2>2, <2>3, KeepRegistry
<1>9. ASSUME NEW s \in Session, LoadEnvelope(s) \/ LoadReports(s)
      PROVE  RegistryInv'
  <2>1. /\ pc[s] \in {"report", "merge"} /\ conn' = conn
        /\ pc' = [pc EXCEPT ![s] = "merge"] \/ pc' = [pc EXCEPT ![s] = "replace"]
        /\ socket' = socket /\ loose' = loose /\ UNCHANGED registry
    BY <1>9 DEF LoadEnvelope, LoadReports, agents
  <2>2. \A x \in Session : pc[x] = "register" => pc'[x] = "register"
    BY <2>1 DEF WorkInv, TypeOK
  <2>3. \A x \in Session : Healing(x)' => Healing(x)
    BY <2>1 DEF Healing, WorkInv, TypeOK
  <2> QED
    BY <2>1, <2>2, <2>3, KeepRegistry
<1>10. ASSUME NEW s \in Session, ReplaceStore(s)
       PROVE  RegistryInv'
  <2>1. /\ pc[s] = "replace" /\ conn' = [conn EXCEPT ![s] = None]
        /\ pc' = [pc EXCEPT ![s] = "idle"]
        /\ socket' = socket /\ loose' = loose /\ UNCHANGED registry
    BY <1>10 DEF ReplaceStore, Leave, agents
  <2>2. \A x \in Session : pc[x] = "register" => pc'[x] = "register" /\ conn'[x] = conn[x]
    BY <2>1 DEF WorkInv, TypeOK
  <2>3. \A x \in Session : Healing(x)' => Healing(x)
    BY <2>1 DEF Healing, WorkInv, TypeOK
  <2> QED
    BY <2>1, <2>2, <2>3, KeepRegistry
<1>11. ASSUME NEW s \in Session, Die(s)
       PROVE  RegistryInv'
  <2>1. /\ cache' = [cache EXCEPT ![s] = None] /\ current' = current \ {s}
        /\ loose' = (IF pc[s] = "register" THEN loose \union {conn[s]} ELSE loose)
        /\ pc' = [pc EXCEPT ![s] = "idle"] /\ conn' = [conn EXCEPT ![s] = None]
        /\ socket' = socket /\ disk' = disk /\ spoiled' = spoiled
    BY <1>11 DEF Die, Leave
  <2>2. /\ \A x \in Session \ {s} : pc'[x] = pc[x] /\ conn'[x] = conn[x] /\ cache'[x] = cache[x]
        /\ cache'[s] = None /\ pc'[s] = "idle"
        /\ current \subseteq Session
    BY <2>1 DEF WorkInv, TypeOK
  <2>3. RegistryKnowsAgents'
    <3> SUFFICES ASSUME ~spoiled, NEW t \in SSH_TYPES, socket[t] = "live",
                        disk[t] = None, t \notin loose'
                 PROVE  \E x \in Session : pc'[x] = "register" /\ conn'[x] = t
      BY <2>1 DEF RegistryKnowsAgents
    <3>1. PICK x \in Session : pc[x] = "register" /\ conn[x] = t
      BY <2>1 DEF RegistryInv, RegistryKnowsAgents
    <3>2. x # s
      BY <2>1, <3>1
    <3> QED
      BY <2>2, <3>1, <3>2
  <2>4. \A x \in Session : cache'[x] # None \/ Healing(x)' =>
          \A t \in SSH_TYPES : Located(t, cache'[x][t])
    BY <2>2 DEF RegistryInv, Healing
  <2>5. \A x \in current' : cache'[x] = disk'
    BY <2>1, <2>2 DEF RegistryInv
  <2> QED
    BY <2>1, <2>3, <2>4, <2>5 DEF RegistryInv, Located
<1>12. ASSUME NEW t \in SSH_TYPES, AgentDies(t)
       PROVE  RegistryInv'
  <2>1. /\ \E left \in {"none", "stale"} : socket' = [socket EXCEPT ![t] = left]
        /\ loose' = loose \ {t} /\ UNCHANGED registry /\ pc' = pc /\ conn' = conn
    BY <1>12 DEF AgentDies
  <2>2. \A u \in SSH_TYPES : socket'[u] = "live" => u # t /\ socket[u] = "live"
    BY <2>1 DEF WorkInv, TypeOK
  <2>3. \A x \in Session : Healing(x)' => Healing(x)
    BY <2>1 DEF Healing
  <2> QED
    BY <2>1, <2>2, <2>3, KeepRegistry
<1> QED
  BY <1>1, <1>2, <1>3, <1>4, <1>5, <1>6, <1>7, <1>8, <1>9, <1>10, <1>11, <1>12 DEF Next

-----------------------------------------------------------------------------
(* What a persist has read and is about to write.  Those that overlap or   *)
(* misread are out of the count.                                           *)
StoreInv ==
  /\ \A t \in SSH_TYPES : Dangling(t) =>
       \A p \in Program :
         store[p][t] \notin Good /\ \A s \in Session : view[s][p][t] \notin Good
  /\ ~crossed =>
       /\ store = last
       /\ \A s, x \in Session : Persisting(s) /\ Persisting(x) => s = x
       /\ \A s \in Session :
            /\ pc[s] = "merge" => view[s] = store
            /\ pc[s] = "replace" =>
                 view[s] = [store EXCEPT ![ProgramOf[s]][conn[s]] = verdict[s]]

LEMMA StoreInvInit == Init => StoreInv
<1>1. \A c \in Conn : NoReports[c] \notin Good
  BY ConnectionAssumption DEF NoReports, Good, Status
<1>2. SSH_TYPES \subseteq Conn
  BY ConnectionAssumption
<1> QED
  BY <1>1, <1>2 DEF Init, StoreInv, Persisting

(* Steps before the report touch no store and no view.                     *)
LEMMA KeepStore ==
  ASSUME StoreInv, UNCHANGED reporting,
         \A x \in Session :
           IF Persisting(x) THEN pc'[x] = pc[x] /\ conn'[x] = conn[x] /\ verdict'[x] = verdict[x]
                            ELSE ~Persisting(x)'
  PROVE  StoreInv'
<1>1. store' = store /\ view' = view /\ last' = last /\ crossed' = crossed
  BY DEF reporting
<1> QED
  BY <1>1 DEF StoreInv, Persisting, Dangling, HasHost

LEMMA StoreStep ==
  ASSUME WorkInv, StoreInv, Next
  PROVE  StoreInv'
<1>0. SSH_TYPES \subseteq Conn /\ \A c \in Conn : NoReports[c] \notin Good
  BY ConnectionAssumption DEF NoReports, Good, Status
<1>1. ASSUME NEW s \in Session,
             \/ PruneDead(s)
             \/ \E t \in SSH_TYPES, fix \in BOOLEAN : RemoveEntry(s, t) \/ CheckSsh(s, t, fix)
             \/ \E c \in Conn \ SSH_TYPES : CheckNetwork(s, c)
             \/ HealFails(s) \/ SpawnAgent(s) \/ Register(s) \/ LoadKeyAndProbe(s)
      PROVE  StoreInv'
  <2>1. UNCHANGED reporting
    BY <1>1 DEF PruneDead, RemoveEntry, CheckSsh, CheckNetwork, HealFails, SpawnAgent, Register,
         LoadKeyAndProbe
  <2>2. /\ ~Persisting(s)
        /\ \/ pc' = pc
           \/ \E at \in {"heal", "register", "load", "report"} : pc' = [pc EXCEPT ![s] = at]
        /\ conn' = conn \/ \E c \in Conn : conn' = [conn EXCEPT ![s] = c]
        /\ verdict' = verdict \/ \E v : verdict' = [verdict EXCEPT ![s] = v]
    BY <1>0, <1>1 DEF PruneDead, RemoveEntry, CheckSsh, CheckNetwork, HealFails, SpawnAgent,
         Register, LoadKeyAndProbe, Conclude, Persisting
  <2>3. \A x \in Session :
          IF Persisting(x) THEN pc'[x] = pc[x] /\ conn'[x] = conn[x] /\ verdict'[x] = verdict[x]
                           ELSE ~Persisting(x)'
    BY <2>2 DEF WorkInv, TypeOK, Persisting
  <2> QED
    BY <2>1, <2>3, KeepStore
<1>2. ASSUME NEW s \in Session, LoadEnvelope(s)
      PROVE  StoreInv'
  <2>1. /\ pc[s] = "report" /\ pc' = [pc EXCEPT ![s] = "merge"]
        /\ \/ /\ view' = [view EXCEPT ![s] = store]
              /\ crossed' = (crossed \/ \E x \in Session : Persisting(x))
           \/ view' = [view EXCEPT ![s] = [p \in Program |-> NoReports]] /\ crossed' = TRUE
        /\ conn' = conn /\ verdict' = verdict /\ store' = store /\ last' = last
    BY <1>2 DEF LoadEnvelope
  <2>2. /\ pc'[s] = "merge" /\ \A x \in Session \ {s} : pc'[x] = pc[x] /\ view'[x] = view[x]
        /\ view'[s] = store \/ view'[s] = [p \in Program |-> NoReports]
        /\ ~crossed' => view'[s] = store /\ ~crossed /\ \A x \in Session : ~Persisting(x)
    BY <2>1 DEF WorkInv, TypeOK
  <2>3. \A t \in SSH_TYPES : Dangling(t) =>
          \A p \in Program :
            store'[p][t] \notin Good /\ \A x \in Session : view'[x][p][t] \notin Good
    BY <1>0, <2>1, <2>2 DEF StoreInv
  <2>4. ~crossed' => StoreInv'
    BY <2>1, <2>2, <2>3 DEF StoreInv, Persisting, Dangling, HasHost
  <2> QED
    BY <2>3, <2>4 DEF StoreInv, Dangling, HasHost
<1>3. ASSUME NEW s \in Session, LoadReports(s)
      PROVE  StoreInv'
  <2> DEFINE p == ProgramOf[s]
             reports == Merged(s, store[p])
  <2>1. /\ pc[s] = "merge" /\ pc' = [pc EXCEPT ![s] = "replace"]
        /\ view' = [view EXCEPT ![s][p] = reports]
        /\ conn' = conn /\ verdict' = verdict /\ store' = store /\ last' = last
        /\ crossed' = crossed
    BY <1>3 DEF LoadReports
  <2>2. /\ p \in Program /\ conn[s] \in Conn /\ verdict[s] \in Status
        /\ conn[s] \in SSH_TYPES /\ Dangling(conn[s]) => verdict[s] \notin Good
        /\ store \in [Program -> Reports] /\ view[s] \in [Program -> Reports]
    BY <2>1, ConnectionAssumption DEF WorkInv, TypeOK, AtWork, Reporting
  <2>3. reports = [store[p] EXCEPT ![conn[s]] = verdict[s]]
    BY DEF Merged
  <2>4. /\ pc'[s] = "replace" /\ \A x \in Session \ {s} : pc'[x] = pc[x] /\ view'[x] = view[x]
        /\ view'[s] = [view[s] EXCEPT ![p] = reports]
    BY <2>1 DEF WorkInv, TypeOK
  <2>5. \A t \in SSH_TYPES : Dangling(t) => reports[t] \notin Good
    BY <1>0, <2>2, <2>3 DEF StoreInv, Reports
  <2> HIDE DEF reports
  <2>6. \A t \in SSH_TYPES : Dangling(t) =>
          \A q \in Program :
            store'[q][t] \notin Good /\ \A x \in Session : view'[x][q][t] \notin Good
    BY <2>1, <2>2, <2>4, <2>5 DEF StoreInv
  <2>7. view[s] = store => view'[s] = [store EXCEPT ![p][conn[s]] = verdict[s]]
    BY <2>2, <2>3, <2>4
  <2>8. ~crossed' => StoreInv'
    BY <2>1, <2>4, <2>6, <2>7 DEF StoreInv, Persisting, Dangling, HasHost
  <2> QED
    BY <2>6, <2>8 DEF StoreInv, Dangling, HasHost
<1>4. ASSUME NEW s \in Session, Leave(s), crossed' = crossed,
             IF pc[s] = "replace" /\ store' # store
             THEN store' = view[s] /\ last' = [last EXCEPT ![ProgramOf[s]][conn[s]] = verdict[s]]
             ELSE store' = store /\ (~crossed => last' = last)
      PROVE  StoreInv'
  <2>1. /\ pc' = [pc EXCEPT ![s] = "idle"]
        /\ conn' = [conn EXCEPT ![s] = None] /\ verdict' = [verdict EXCEPT ![s] = None]
        /\ view' = [view EXCEPT ![s] = [p \in Program |-> NoReports]]
    BY <1>4 DEF Leave
  <2>2. /\ pc'[s] = "idle" /\ view'[s] = [p \in Program |-> NoReports]
        /\ \A x \in Session \ {s} : /\ pc'[x] = pc[x] /\ view'[x] = view[x]
                                   /\ conn'[x] = conn[x] /\ verdict'[x] = verdict[x]
    BY <2>1 DEF WorkInv, TypeOK
  <2>3. \A t \in SSH_TYPES : Dangling(t) =>
          \A q \in Program :
            store'[q][t] \notin Good /\ \A x \in Session : view'[x][q][t] \notin Good
    BY <1>0, <1>4, <2>2 DEF StoreInv
  <2>4. ASSUME ~crossed
        PROVE  /\ store' = last'
               /\ \A x \in Session : Persisting(x)' => x # s /\ Persisting(x) /\ store' = store
    <3>1. CASE pc[s] = "replace" /\ store' # store
      BY <1>4, <2>2, <2>4, <3>1 DEF StoreInv, Persisting
    <3>2. CASE ~(pc[s] = "replace" /\ store' # store)
      BY <1>4, <2>2, <2>4, <3>2 DEF StoreInv, Persisting
    <3> QED
      BY <3>1, <3>2
  <2>5. ~crossed' => StoreInv'
    BY <1>4, <2>2, <2>3, <2>4 DEF StoreInv, Persisting, Dangling, HasHost
  <2> QED
    BY <2>3, <2>5 DEF StoreInv, Dangling, HasHost
<1>5. ASSUME NEW s \in Session, ReplaceStore(s)
      PROVE  StoreInv'
  <2>1. /\ pc[s] = "replace" /\ store' = view[s] /\ Leave(s) /\ crossed' = crossed
        /\ last' = [last EXCEPT ![ProgramOf[s]][conn[s]] = verdict[s]]
    BY <1>5 DEF ReplaceStore
  <2>2. ~crossed => store' = last'
    BY <2>1 DEF StoreInv
  <2>3. ~crossed /\ store' = store => last' = last
    BY <2>2 DEF StoreInv
  <2> QED
    BY <1>4, <2>1, <2>3
<1>6. ASSUME NEW s \in Session, Die(s)
      PROVE  StoreInv'
  <2>1. Leave(s) /\ crossed' = crossed /\ store' = store /\ last' = last
    BY <1>6 DEF Die
  <2> QED
    BY <1>4, <2>1
<1>7. ASSUME NEW t \in SSH_TYPES, AgentDies(t)
      PROVE  StoreInv'
  BY <1>7, KeepStore DEF AgentDies, Persisting
<1> QED
  BY <1>1, <1>2, <1>3, <1>5, <1>6, <1>7 DEF Next

-----------------------------------------------------------------------------

ConnectionInv == WorkInv /\ RegistryInv /\ StoreInv

LEMMA ConnectionInvariant == Spec => []ConnectionInv
<1>1. Init => ConnectionInv
  BY WorkInvInit, RegistryInvInit, StoreInvInit DEF ConnectionInv
<1>2. RegistryInv /\ UNCHANGED vars => RegistryInv'
  BY DEF RegistryInv, RegistryKnowsAgents, Located, Healing, vars, agents, registry
<1>3. StoreInv /\ UNCHANGED vars => StoreInv'
  BY DEF StoreInv, Persisting, Dangling, HasHost, vars, reporting
<1>4. ConnectionInv /\ [Next]_vars => ConnectionInv'
  BY <1>2, <1>3, WorkInvariant, RegistryStep, StoreStep DEF ConnectionInv
<1> QED
  BY <1>1, <1>4, PTL DEF Spec

(* RegistryIsTrue: for any sessions, connections, targets and config, over *)
(* every interleaving and every death, a live agent has an entry unless a  *)
(* stale copy was saved, and an entry is what the config says.             *)
THEOREM RegistryStaysTrue == Spec => []RegistryIsTrue
<1>1. ConnectionInv => RegistryIsTrue
  <2>1. ASSUME ConnectionInv
        PROVE  KeyFromConfig
    BY <2>1 DEF ConnectionInv, RegistryInv, Located, FromConfig, KeyFromConfig
  <2> QED
    BY <2>1 DEF ConnectionInv, WorkInv, RegistryInv, RegistryIsTrue
<1> QED
  BY <1>1, ConnectionInvariant, PTL

(* StoreIsTrue: for any of these, no report of a target whose Host dangles *)
(* is good, whatever was healed, and persists one by one lose none.        *)
THEOREM StoreStaysTrue == Spec => []StoreIsTrue
<1>1. ConnectionInv => StoreIsTrue
  BY DEF ConnectionInv, StoreInv, StoreIsTrue, DanglingNeverOk, StoreKeepsLast, Good
<1> QED
  BY <1>1, ConnectionInvariant, PTL
=============================================================================
