-------------------------- MODULE ConnectionCheck --------------------------
(***************************************************************************)
(* "otaman connection check [--fix]": the registry of per-target agents    *)
(* (otaman_core/ssh_registry.py), the probes, the self-heal and the store  *)
(* of the last reports (otaman_core/connection_check.py).                  *)
(*                                                                         *)
(* A session is a process with one SshAgentRegistry: it reads the registry *)
(* once, works on that copy, and writes the copy back whole.  Sessions die *)
(* anywhere, agents too.  A save (temp file and os.replace) is one step    *)
(* here; what a shared temp file does is in Credentials.                   *)
(***************************************************************************)
EXTENDS Integers, Sequences, SequencesExt

CONSTANTS
  Session, Conn,
  SSH_TYPES,   \* the connections of an ssh type
  Keyed,       \* of the others: no secret needed, or its key is listed
  Alias, SshRef,        \* [SSH_TYPES -> the Host alias or None]
  Key, SshConfig,       \* lines of ~/.ssh/config: Host names or IdentityFile
  Program, ProgramOf,   \* [Session -> the program it checks]
  MaxChecks,   \* bound of the checks
  None

ConfigLine == [names : SUBSET Alias] \union [key : Key]
Status == {"ok", "fixed", "socket-dead", "unreachable", "auth-failed"}
Entries == [SSH_TYPES -> Key \union Alias \union {None}]
Reports == [Conn -> Status \union {None}]

ASSUME ConnectionAssumption ==
  /\ SSH_TYPES \subseteq Conn /\ Keyed \subseteq Conn \ SSH_TYPES
  /\ SshRef \in [SSH_TYPES -> Alias \union {None}]
  /\ SshConfig \in Seq(ConfigLine)
  /\ ProgramOf \in [Session -> Program]
  /\ MaxChecks \in Nat
  /\ None \notin Key \union Alias \union Status \union Conn \union Entries

VARIABLES
  socket,   \* [SSH_TYPES -> "none", a "live" agent's or a dead one's: "stale"]
  holding,  \* the targets whose agent has the key
  disk,     \* the registry: [target -> key locator of its entry or None]
  cache,    \* [Session -> its copy, or None before it has read]
  pc, conn, verdict,  \* [Session -> where it is, with which connection, what]
  checks,
  store,    \* the report store: [Program -> Reports]
  view,     \* [Session -> the envelope it has read]
  current,  \* history variable: the sessions whose copy is what was saved
  spoiled,  \* history variable: has a copy that is not current been saved
  loose,    \* history variable: targets whose agent nobody is to know of
  last,     \* history variable: [Program -> the last reports persisted]
  crossed   \* history variable: have two persists overlapped, or misread

registry == <<disk, cache, current, spoiled>>
agents == <<socket, holding, loose>>
reporting == <<store, view, last, crossed>>
vars == <<agents, registry, pc, conn, verdict, checks, reporting>>

NoEntries == [t \in SSH_TYPES |-> None]
NoReports == [c \in Conn |-> None]

Init ==
  /\ socket \in [SSH_TYPES -> {"none", "live", "stale"}]
  /\ disk \in [SSH_TYPES -> {None}] \union {[t \in SSH_TYPES |-> SshRef[t]]}
  /\ \A t \in SSH_TYPES : socket[t] = "live" => disk[t] # None
  /\ holding = {t \in SSH_TYPES : socket[t] = "live"}
  /\ cache = [s \in Session |-> None]
  /\ pc = [s \in Session |-> "idle"]
  /\ conn = [s \in Session |-> None] /\ verdict = [s \in Session |-> None]
  /\ checks = 0
  /\ store = [p \in Program |-> NoReports] /\ last = store
  /\ view = [s \in Session |-> [p \in Program |-> NoReports]]
  /\ current = {} /\ spoiled = FALSE /\ loose = {} /\ crossed = FALSE

----------------------------------------------------------------------------
(* ~/.ssh/config *)

IsHost(line) == "names" \in DOMAIN line

HasHost(alias) ==
  \E i \in DOMAIN SshConfig : IsHost(SshConfig[i]) /\ alias \in SshConfig[i].names

(* The first IdentityFile whose nearest Host line above names the alias *)
Identity(alias) ==
  LET Under(i) ==
        /\ ~IsHost(SshConfig[i])
        /\ \E h \in 1..(i - 1) :
             /\ IsHost(SshConfig[h]) /\ alias \in SshConfig[h].names
             /\ \A j \in (h + 1)..(i - 1) : ~IsHost(SshConfig[j])
      found == SelectInSeq([i \in DOMAIN SshConfig |-> Under(i)], LAMBDA u : u)
  IN  IF found = 0 THEN None ELSE SshConfig[found].key

Dangling(t) == SshRef[t] # None /\ ~HasHost(SshRef[t])

(* _key_locator: the entry's key, the config's IdentityFile, the ssh_ref *)
KeyLocator(entries, t) ==
  IF entries[t] # None THEN entries[t]
  ELSE IF SshRef[t] # None /\ Identity(SshRef[t]) # None THEN Identity(SshRef[t])
  ELSE SshRef[t]

----------------------------------------------------------------------------
(* The registry *)

(* _ensure_loaded; a registry that cannot be read or parsed is empty. *)
EnsureLoaded(s) ==
  \/ cache[s] # None /\ UNCHANGED <<cache, current>>
  \/ cache[s] = None /\ cache' = [cache EXCEPT ![s] = disk] /\ current' = current \union {s}
  \/ /\ cache[s] = None /\ disk # NoEntries
     /\ cache' = [cache EXCEPT ![s] = NoEntries] /\ UNCHANGED current

SlipSaveUnlisted(s, entries) ==
  /\ cache' = [cache EXCEPT ![s] = entries]
  /\ disk' = cache[s]
  /\ spoiled' = (spoiled \/ s \notin current)
  /\ current' = {s}

(* save: the copy of this session is the registry. *)
Save(s, entries) ==
  /\ cache' = [cache EXCEPT ![s] = entries]
  /\ disk' = entries
  /\ spoiled' = (spoiled \/ s \notin current)
  /\ current' = {s}

PruneDead(s) ==
  /\ pc[s] = "idle" /\ cache[s] # None
  /\ LET Dead(t) == cache[s][t] # None /\ socket[t] # "live"
     IN  /\ \E t \in SSH_TYPES : Dead(t)
         /\ Save(s, [t \in SSH_TYPES |-> IF Dead(t) THEN None ELSE cache[s][t]])
  /\ UNCHANGED <<agents, pc, conn, verdict, checks, reporting>>

(* remove: the agent goes on without an entry. *)
RemoveEntry(s, t) ==
  /\ pc[s] = "idle" /\ cache[s] # None /\ cache[s][t] # None
  /\ Save(s, [cache[s] EXCEPT ![t] = None])
  /\ loose' = loose \union {t}
  /\ UNCHANGED <<socket, holding, pc, conn, verdict, checks, reporting>>

----------------------------------------------------------------------------
(* ConnectionChecker.check *)

(* SshProber.probe with _status_for: the Host, the entry, the socket *)
SshProbe(entries, t) ==
  IF Dangling(t) \/ entries[t] = None THEN "unreachable"
  ELSE IF socket[t] = "live" THEN "ok" ELSE "socket-dead"

(* NetworkProber.probe with _status_for: without an answer nothing is      *)
(* authenticated, without a key nothing is either.                         *)
NetworkProbe(c, reachable) ==
  IF ~reachable THEN "unreachable" ELSE IF c \in Keyed THEN "ok" ELSE "auth-failed"

Conclude(s, status) ==
  /\ pc' = [pc EXCEPT ![s] = "report"]
  /\ verdict' = [verdict EXCEPT ![s] = status]

CheckNetwork(s, c) ==
  /\ pc[s] = "idle" /\ checks < MaxChecks
  /\ checks' = checks + 1
  /\ conn' = [conn EXCEPT ![s] = c]
  /\ \E reachable \in BOOLEAN : Conclude(s, NetworkProbe(c, reachable))
  /\ UNCHANGED <<agents, registry, reporting>>

CheckSsh(s, t, fix) ==
  /\ pc[s] = "idle" /\ checks < MaxChecks
  /\ checks' = checks + 1
  /\ conn' = [conn EXCEPT ![s] = t]
  /\ EnsureLoaded(s)
  /\ LET status == SshProbe(cache'[s], t)
     IN  IF fix /\ status # "ok"
         THEN pc' = [pc EXCEPT ![s] = "heal"] /\ UNCHANGED verdict
         ELSE Conclude(s, status)
  /\ UNCHANGED <<agents, disk, spoiled, reporting>>

(* heal: no locator, or ssh-agent fails, which it does when the fixed      *)
(* socket path is there, a dead agent's included.                          *)
HealFails(s) ==
  /\ pc[s] = "heal"
  /\ KeyLocator(cache[s], conn[s]) # None => socket[conn[s]] # "none"
  /\ Conclude(s, "unreachable")
  /\ UNCHANGED <<agents, registry, conn, checks, reporting>>

SpawnAgent(s) ==
  /\ pc[s] = "heal" /\ KeyLocator(cache[s], conn[s]) # None
  /\ socket[conn[s]] = "none"
  /\ socket' = [socket EXCEPT ![conn[s]] = "live"]
  /\ pc' = [pc EXCEPT ![s] = "register"]
  /\ UNCHANGED <<holding, loose, registry, conn, verdict, checks, reporting>>

Register(s) ==
  /\ pc[s] = "register"
  /\ Save(s, [cache[s] EXCEPT ![conn[s]] = KeyLocator(cache[s], conn[s])])
  /\ pc' = [pc EXCEPT ![s] = "load"]
  /\ UNCHANGED <<agents, conn, verdict, checks, reporting>>

(* load_key: ssh-add may fail, and heal does not look at that; then the    *)
(* connection is probed again.                                             *)
LoadKeyAndProbe(s) ==
  /\ pc[s] = "load"
  /\ \/ socket[conn[s]] = "live" /\ holding' = holding \union {conn[s]}
     \/ UNCHANGED holding
  /\ LET again == SshProbe(cache[s], conn[s])
     IN  Conclude(s, IF again = "ok" THEN "fixed" ELSE again)
  /\ UNCHANGED <<socket, loose, registry, conn, checks, reporting>>

----------------------------------------------------------------------------
(* persist_reports: the store is read for the envelope, read again for the *)
(* reports of the program, and replaced.                                   *)

Persisting(s) == pc[s] \in {"merge", "replace"}

(* A store that is there and cannot be read or parsed is empty. *)
LoadEnvelope(s) ==
  /\ pc[s] = "report"
  /\ pc' = [pc EXCEPT ![s] = "merge"]
  /\ \/ view' = [view EXCEPT ![s] = store]
        /\ crossed' = (crossed \/ \E x \in Session : Persisting(x))
     \/ view' = [view EXCEPT ![s] = [p \in Program |-> NoReports]] /\ crossed' = TRUE
  /\ UNCHANGED <<agents, registry, conn, verdict, checks, store, last>>

SlipOnlyNew(s, reports) == [NoReports EXCEPT ![conn[s]] = verdict[s]]
Merged(s, reports) == [reports EXCEPT ![conn[s]] = verdict[s]]

LoadReports(s) ==
  /\ pc[s] = "merge"
  /\ pc' = [pc EXCEPT ![s] = "replace"]
  /\ view' = [view EXCEPT ![s][ProgramOf[s]] = Merged(s, store[ProgramOf[s]])]
  /\ UNCHANGED <<agents, registry, conn, verdict, checks, store, last, crossed>>

Leave(s) ==
  /\ pc' = [pc EXCEPT ![s] = "idle"]
  /\ conn' = [conn EXCEPT ![s] = None] /\ verdict' = [verdict EXCEPT ![s] = None]
  /\ view' = [view EXCEPT ![s] = [p \in Program |-> NoReports]]

ReplaceStore(s) ==
  /\ pc[s] = "replace"
  /\ store' = view[s]
  /\ last' = [last EXCEPT ![ProgramOf[s]][conn[s]] = verdict[s]]
  /\ Leave(s)
  /\ UNCHANGED <<agents, registry, checks, crossed>>

----------------------------------------------------------------------------
(* What happens to sessions and agents *)

Die(s) ==
  /\ cache[s] # None \/ pc[s] # "idle"
  /\ cache' = [cache EXCEPT ![s] = None] /\ current' = current \ {s}
  /\ loose' = IF pc[s] = "register" THEN loose \union {conn[s]} ELSE loose
  /\ Leave(s)
  /\ UNCHANGED <<socket, holding, disk, spoiled, checks, store, last, crossed>>

AgentDies(t) ==
  /\ socket[t] = "live"
  /\ \E left \in {"none", "stale"} : socket' = [socket EXCEPT ![t] = left]
  /\ holding' = holding \ {t} /\ loose' = loose \ {t}
  /\ UNCHANGED <<registry, pc, conn, verdict, checks, reporting>>

Next ==
  \/ \E s \in Session :
       \/ PruneDead(s)
       \/ \E t \in SSH_TYPES, fix \in BOOLEAN : RemoveEntry(s, t) \/ CheckSsh(s, t, fix)
       \/ \E c \in Conn \ SSH_TYPES : CheckNetwork(s, c)
       \/ HealFails(s) \/ SpawnAgent(s) \/ Register(s) \/ LoadKeyAndProbe(s)
       \/ LoadEnvelope(s) \/ LoadReports(s) \/ ReplaceStore(s)
       \/ Die(s)
  \/ \E t \in SSH_TYPES : AgentDies(t)

Spec == Init /\ [][Next]_vars

----------------------------------------------------------------------------

TypeOK ==
  /\ socket \in [SSH_TYPES -> {"none", "live", "stale"}]
  /\ holding \subseteq SSH_TYPES /\ loose \subseteq SSH_TYPES
  /\ disk \in Entries /\ cache \in [Session -> Entries \union {None}]
  /\ pc \in [Session ->
       {"idle", "heal", "register", "load", "report", "merge", "replace"}]
  /\ conn \in [Session -> Conn \union {None}]
  /\ verdict \in [Session -> Status \union {None}]
  /\ \A s \in Session : pc[s] = "idle" <=> conn[s] = None
  /\ {store, last} \subseteq [Program -> Reports]
  /\ view \in [Session -> [Program -> Reports]]
  /\ checks \in 0..MaxChecks
  /\ current \subseteq Session /\ spoiled \in BOOLEAN /\ crossed \in BOOLEAN

(* spawn_agent (ssh_registry.py lines 193-213): as long as no session has  *)
(* saved a copy that was not what was last saved, every live agent has an  *)
(* entry, but for those between the spawn and the save, and those let go   *)
(* by remove or by a death right there.                                    *)
RegistryKnowsAgents ==
  ~spoiled =>
    \A t \in SSH_TYPES : socket[t] = "live" =>
      \/ disk[t] # None \/ t \in loose
      \/ \E s \in Session : pc[s] = "register" /\ conn[s] = t

(* "A dangling Host is a config defect the check must name, and no amount  *)
(* of socket healing fixes it": whatever agents its healing has started,   *)
(* no report of it in the store says ok or fixed.                          *)
DanglingNeverOk ==
  \A t \in SSH_TYPES : Dangling(t) =>
    \A p \in Program : store[p][t] \notin {"ok", "fixed"}

(* What an entry is registered with is the ssh_ref, or else the key that an*)
(* exact Host line of the config stands directly above of.                 *)
KeyFromConfig ==
  \A t \in SSH_TYPES : disk[t] \notin {None, SshRef[t]} =>
    \E h, i \in DOMAIN SshConfig :
      /\ h < i /\ IsHost(SshConfig[h]) /\ SshRef[t] \in SshConfig[h].names
      /\ \A j \in (h + 1)..i : ~IsHost(SshConfig[j])
      /\ SshConfig[i].key = disk[t]

(* persist_reports (lines 367-395): "Other connections in the program AND  *)
(* other programs in the tenant file are preserved": as long as persists   *)
(* neither overlap nor misread, load_reports gives for each connection of  *)
(* each program the last report that was persisted.                        *)
StoreKeepsLast == ~crossed => store = last

(* The registry of agents (ssh_registry.py): a live agent has an entry, a  *)
(* healed one that of the key ssh would use.                               *)
RegistryIsTrue == TypeOK /\ RegistryKnowsAgents /\ KeyFromConfig

(* The store of reports (connection_check.py): the last report of each     *)
(* connection, and none that calls a dangling one good.                    *)
StoreIsTrue == DanglingNeverOk /\ StoreKeepsLast
=============================================================================
