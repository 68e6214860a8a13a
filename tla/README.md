# otaman-core: specifications, model checking and proofs

`otaman_core` is a Python library that the Otaman command line, launcher and
console share. It has no server of its own. Its state is files: small YAML and
JSON files, markdown logs, sockets, an flock. The processes that call it are
many (sessions of agents, an operator's shell, services), they run at the same
time, and they are killed. Most of what can go wrong is therefore in the order
in which calls of several processes read and write the same file, in what a
crash leaves on disk, and in rules that several functions must tell the same
way (the gates of a change, a policy and its overrides, a credential and its
origin).

All paths below are relative to the repository (`src/src/otaman_core/` here).

## Inventory

| Component | State | Operations | Interacts with | What is hard | What makes it correct |
|---|---|---|---|---|---|
| `acting_lock.py` | lock file and its flock, `.info`, `.preempt`, their `.tmp` | acquire, release, probe, preempt marker | sessions of one identity, the kernel | interleaving of system calls, kill -9, a shared temp name, late unlinks | one acting session; sidecars of a live holder are its own; calls return |
| `lifecycle.py` | `lifecycle.yaml` | record_transition, load, read_program_state | every service of the org | read-modify-write without a lock, crash, unparsable file | history append-only; readers told the last recorded state |
| `spec_lifecycle.py` | `.openspec.yaml` of a change; the policy blocks | stages, three gates, ratify, spec-approve, auto-archive, set_stage, dispatch consult | cli, console, bus dispatch | rules that must agree, stale reads, unparsable file, waivers | no change past review without approval; a mode only waives |
| `registry_access.py` | outcome registers (YAML/JSON) | load, create_record, apply_transition, save | outcome tooling, pm_sync | whole-file save, caller-supplied fields | transitions append-only, status equals last transition, approvals present |
| `task_complete.py`, `release_gate.py` | task-complete messages, `tasks.md` | filed completions, untick time, effective completion, cut eligibility | bus messages, git history of a tasks file | ordering of filings and unticks, a moving archive | an untick after the last filing reopens; a cut waits for every open obligation |
| `ssh_registry.py`, `connection_check.py` | agent registry, sockets, report store | load/save, reattach, prune, spawn, load_key; probe, heal, persist | ssh-agent, ssh, several checks | a cached copy written back whole, a death after the spawn, dead sockets, dangling Hosts | a live agent keeps its entry; the store keeps the last report of each connection; a dangling Host is never ok |
| `confirmations.py` | append-only ledger | append, verify | the human's confirmations, bus files | writes cut short | a verified confirmation was appended; a cut costs the record and the next |
| `_secrets.py`, `connections.py` | `.env` layers | cascade, provenance, inventory, sources, upsert | every consumer of a credential | read-modify-write over one temp name, four walks over the same layers | the walks name one layer; an upsert is read back and leaves the rest |
| `web_auth.py`, `auth_oidc.py` | hmac secret, tokens; key cache | login, issue, verify, attach; validate | web console, identity provider | check-then-create, restarts, expiry; rotation, outage | tokens survive restarts and end; a rotation costs nobody a request |
| `knowledge.py`, `wiki/` | entries, one file each | write, amend, mark_accessed, set_state | agents | overlapping rewrites, torn files, edges | an entry is what the calls made of it; an edge has a target |
| `blocked_entries.py` | blocks of a markdown file | parse, render, find, tombstone, stale | blocked work | identical blocks, nested comments | a clear takes what its reference names and no other |
| `verification_gates.py`, `security_gates.py`, `security_gate_report.py`, `review_policy.py`, `spec_gate.py` | none | critic selection, ladder, report, triage, lint | dispatch, review, CI | order of override, exclusion, fallback, clearance; merges of layers | critics independent and cleared; a language only tightens |
| `bus/`, `bus_stem.py`, `delivery_envelope.py`, `validate_message.py`, `frontmatter.py` | messages | validate, dispatch, copy, name, authorise | every agent | several readers of one field | what the validator passes the dispatcher delivers; each addressee once |
| `owner_paths.py`, `changelog_fragment.py`, `changelog_manifest.py` | manifests | owner of a path or place; obligation of a change; cuts | CI, sessions | ties, worktrees, re-created fragments | the nearest owns; a fragment is released once |
| `policy.py`, `human_roster.py`, `accounts.py` | configuration | select, load, compose; look a human up | gates, doctor | layers, many spellings | a nearer layer only tightens; every form of a name is one human |
| `_resolve.py`, `identity.py`, `program_context.py` | none (the tree, the environment) | root, worktree, marker; identity; program | every session | stale environment, worktrees, test runs | the place beats the environment |
| `git_host.py` and five adapters | none (the host's) | list, look up, comment, create, delete, validate a token | remote hosts | a list that moves between pages, five dialects | nothing open is missed where an order was asked for; the adapters agree |
| `llm_router.py` | configuration | parse, route, guard | model calls | two backends, unrouted agents | guarded content stays local |
| `pm_sync.py`, `harness_registry.py`, `plugin_wiring.py`, `spawn.py`, `scr_template.py`, `validate_platform.py`, `testing.py` | configuration | declare, look up, render | adapters outside the repository | none | see "Not modelled" |

PROJECT.json lists the hazards of these components, each at its line, with the
properties that watch it and, in a note, what they leave out.

## Modules

`TempReplace` is the idiom "write `<file>.tmp`, then `os.replace` it": the live
path, the temp path, and for each writer where the inode it has open is now. It
is instantiated by the modules whose code repeats the idiom. Because two writers
of a file share one temp name, the second truncates the inode the first is still
writing, a rename moves an inode somebody has open, and the loser of two renames
finds no file. `Overlay` says what the later bytes leave of the earlier ones.

`IdentityLock` is the abstract promise of the acting lock: a set of actors, at
most one, taken by acquire and left by release or death.

`ActingLock` models `acting_lock.py` for one key. `pc` says where a process is in
`acquire`, `release`, `probe` or `write_preempt_marker`; each system call is one
action (`AcquireOpen`, `AcquireFlock`, ... in the order of the code). `flock` is
the kernel's set of holders; death and close clear it. `.info` and its temp file
hold the pid of whoever wrote them; `.preempt` goes through `TempReplace`. Its
refinement mapping to `IdentityLock` is `actors <- Acting`: a process acts from
the return of `acquire` to the close in `release`, or its death. The sessions
(the launcher) are not in the repository; which of them calls what is taken from
the docstrings and mapped as external where no line of the library does it.

`LifecycleRegistry` models `record_transition` as load, append and open of the
temp file, write, and replace, with death between any two, and
`read_program_state` as its two looks at the file (is it there, what does it
say). A history is a sequence of records; a record is its state and its stamp,
which identifies it. `recorded` and `overlapped` are history variables, as is `damaged`: the
records of the calls that returned, whether two calls were ever open together,
and whether a hand edit ever broke the file.

`SpecGates` has the pure part of `spec_lifecycle.py` as operators over a change
record: the gates as decisions `Clean`, `Waived`, `Refused`, the writers as
functions from change to change, the policy resolution over two blocks.
`GateRules` states what the operators owe each other. `SpecLifecycle` puts one
change file under several surfaces that read, change and write it, an operator's
hand edits, and the three looks of `check_dispatch_gate_at`.

`TaskComplete` models a reader of the bus, `filed_complete_by_change` message by
message and one task of `is_effectively_complete` at a time, against agents that
file, a sweep that moves messages and commits that tick and un-tick. `filed` is
the reader's map; a filing time is a number, with one below all times for a
filing without a time and one below that for none, the order in which
`_merge_newest` keeps the newest and the comparison with the un-tick comes out.
`Covers` says which other ids the pattern of an id matches. `known` (the bus when
the scan began) and `unread` (the commits git failed to show) are history
variables. The two callers are `Cut` (release_gate.py) and `Consult` (dispatch,
outside the repository, as the docstrings describe it).

`Registers` models one register file and the sessions that load it, change their
copy through `create_record` and `apply_transition`, and save it whole and in
place: `SaveOpen` truncates, `SaveChunk` leaves a first part on disk, `SaveClose`
the rest. What a loader makes of a file in between is the code's (an empty one
is an empty register). Sessions that have the file open together (`shared`) write
their bytes over each other's: a chunk, and a close too, may leave a text that
does not parse, or one that begins as one dump and ends as another (`Spliced`),
whose record no history explains. `whole`, `latest`, `stale` and `torn` are
history variables: whether the file is what one save has finished writing, what
that save wrote, which sessions hold a copy of something else, and how often a
file that is not whole was loaded. A damaged file is put back from git by somebody (`Restore`), which is
external. `Field` is fields other than `id`, `status` and `transitions`: the code
does not stop a caller from passing one of those.

`Credentials` models `_secrets.py` and `connections.py`. The four stores are
sequences of lines; `upsert_dotenv_secret` is read, open, write and replace over
one temp name (`TempReplace` again), by several writers that die and that may
fail to read, which the code takes for an empty file. The cascade, provenance,
inventory and source chain are operators over the same stores. `OthersPreserved`
speaks of places: a line no call was about stands where it stood.

`ConnectionCheck` models a session's cached registry of ssh agents (load,
reattach, prune, spawn, register, save), the probers, the heal, and the report
store (read, merge, replace), against sessions and agents that die anywhere.
Network answers are external.

`Stores` holds six parts that share nothing, one of which a behaviour is about:
`Knowledge` (entries opened, filled, amended, rewritten by agents that die),
`Confirmations` (lines without their end, which the next append continues),
`BlockedEntries` (blocks of one text, tombstones inside comments), `WebAuth`
(two of the parts: hosts that start and stop, the secret, session and attach
tokens; the key cache of the OIDC validator against the provider) and `GitHosts`
(one adapter that reads page after page while pull requests open and close: the
host lists them newest first to an adapter that asks for it, `AskNewestFirst`;
the lists of Bitbucket and Azure set no order, and each page of theirs is any
set of the right size).
Keeping them in one specification costs nothing, since states of different parts
do not multiply: the others stand still.

`BusRules` gives one input of one kind in its one step, and states what the
operators of these modules owe each other: `OwnerPaths` (`owner_paths.py`),
`BusMessage` (`validate_message.py`, `bus/dispatch.py`, `bus/cc_fanout.py`,
`frontmatter.py`), `BusNames` (`bus_stem.py`, `bus/uri.py`; a name is a sequence
of words, each with the hyphen or slash before it), `DeliveryEnvelope`
and `Resolution` (`_resolve.py`, `identity.py`, `program_context.py`: a tree is
a function from places to what lies there, an environment a record). `Crashes`
of `BusMessage` says on which messages the validator raises.

`GateRules` does the same for `SpecGates`, `VerificationGates`, `SecurityGates`
(the ladder and its report), `Review` (`review_policy.py` and `spec_gate.py`),
`PolicyEngine`, `Changelog`, `LlmRouter` and `HumanRoster`; `Changelog` runs a sequence of cuts with `RecordFragment`, `IsConsumed` and `BuildManifest`,
each manifest written and read back.

`MC*` modules give the constants of the runs; those of `acting_lock` and
`spec_change` are short enough for their .cfg files. `*Proofs` modules hold theorems.
Operators named `Slip*` are plausible wrong versions of their neighbours; no
specification uses them, and with one in the place of its neighbour the run
finds the property violated that PROJECT.json lists beside it.

A property of a run is one idea. Where the code keeps it in several places, it
is a conjunction of parts that are stated and commented one by one before it:
`GatesAgree`, for instance, is `ModeOnlyWaives`, `CleanMergeCarriesOn`,
`RatifyIsFloor`, `ApprovalOpensGates` and `AutoArchiveIgnoresMode`. The type
invariants of `Credentials`, `ConnectionCheck`, `Knowledge`, `Confirmations` and
`GitHosts` are parts of such a conjunction; those of `ActingLock`, `LifecycleRegistry`,
`SpecLifecycle`, `TaskComplete` and `Registers` are proved for every value of
the constants, and no run repeats them.

## Runs

Passing runs:

| Run | Instance | Shows |
|---|---|---|
| `acting_lock` | 1 background and 2 interactive sessions, with fairness | mutual exclusion, ownership of `.info`, the abstract lock implemented, every call returns |
| `lifecycle` | 2 writers, 1 service, 2 programs, 2 states, 3 calls, hand edits | without overlap nothing recorded is lost, readers are told it, and a broken file never restricts a program |
| `completion` | 2 tasks (one id a prefix of the other), 2 messages, 2 commits, clock 0..1 | no filing missed, retractions and finished tasks judged by the newest filing and un-tick, a cut is per task |
| `registers` | 2 sessions, 1 record with 1 field, 2 transitions | the audit tells every record of a file that one save finished, a save of the latest copy only adds, comments survive |
| `spec_change` | 2 surfaces, block or warn, one stage set by hand, hand edits | an approval is never missing past review, auto-archive needs one, an unparsable file is refused |
| `gate_rules` | every abstract change, mode and policy pair; small sets of configurations, reports, requests, paths, piles, routers and rosters | gates, writers and policy agree; critics are independent and cleared; languages and layers only tighten; guarded content stays local; a fragment is carried once |
| `credentials` | 2 writers (symmetric), 2 keys, 2 upserts, 12 mixes of stores | what was stored is read back, other lines stand, the four walks agree |
| `connections` | 2 sessions in 2 programs, 3 connections (one dangling), 2 checks | agents keep entries, dangling Hosts never ok, keys from the right stanza, last reports kept |
| `stores` | see below | the six parts of `Stores` |
| `bus_rules` | small sets of messages, platforms, paths, trees and environments | what the validator passes is delivered, owners, copies, names, envelopes; the place beats the environment |

Runs that end in a violation show where the code and its documentation differ;
PROJECT.json quotes the lines. `record_transition` has no lock and one temp name
for all callers: of two that have it open, one publishes it, and what the other
then writes goes into the published file, over the record that was there
(`lifecycle_v_lost`). In a worktree the owner of
the main tree's root is taken for that of every place in it
(`owners_v_worktree`).

### Bounds

Three processes are the least with which a holder, its successor and a third
that looks on can meet; every interaction in `acting_lock.py` is between the
process that moves and the one that holds or held the lock. Calls are not
counted there: a process calls as often as it likes and the state is finite.
`MaxCalls = 3` bounds the transitions of `LifecycleRegistry`: two may overlap
and a third reads what they left. Two programs show that other programs are
carried along; two states (the default and another) are enough, since the code
compares a state with nothing but the list of states. The change gates in
`gate_rules` have no bound: their inputs are all the abstract inputs there are.
In `completion`, `MaxTime = 1` gives a filing before, at and after an un-tick;
two commits and `ScanBound = 1` give an un-tick in and one beyond the scan, and
`ThreeDrafts` a line that is ticked, un-ticked, and one that comes late. Two
messages let a filing of a task race a broadcast or an older one of its own.
In `registers`, `MaxLog = 2` is the least with which transitions follow each
other, `MaxTorn = 1` lets one load of an unfinished file happen, and one record
is enough since the records of a register touch each other only in a mixture of
two saves, whose place in the text is within some record. The calls are a choice with
its approval and without, and a promotion that sets the field too. Two surfaces show every race of
a read-modify-write pair; one stage in `Forced` lets a bare `set_stage` jump to "verified",
past every gate at once.

In `credentials` two writers and `MaxUpserts = 2` show every race over the temp
file; the mixes of stores have a key twice, blank, only in the legacy file, and
nowhere. In `connections` `MaxChecks = 2` lets a second check work on what a
first left behind, dead or alive. In `stores`: two agents, two stems, three
writes and two days, so that an amend, a rewrite and a death overlap; three
appends, so that a cut line has a neighbour on both sides; two blocks, of one
text or not, and two clears; two hosts, three secrets, three tokens with the
lifetimes 1 and 3 on a clock of 3, so that an attach token outlives its session
and a restart; five pull requests on pages of two with `MaxPages = 2` for the
code's 20, so that one opened moves another over the border and a third page
meets the cap, under each of the five providers; two signing keys, `CacheTtl = 2` for 300 seconds and a clock of
3, so that a retired key is met before and after its expiry.

The inputs of `bus_rules` and `gate_rules` are sets of `MCBusRules` and
`MCGateRules`, chosen so that each clause of the code decides some input: owner
patterns with and without wildcards and slashes, in both orders; recipients that
are prefixes of each other, and one with a slash in its name; `to` as a text and as a list; trees with markers,
legacy markers, unsafe markers, worktrees, bare `.agents/`, programs in two
organisations and one elsewhere in the workspace; configurations with unset, blank and contradictory keys. The
pure operators have no state, so a larger set adds inputs and no interleavings.

### Fairness and deadlock

`FairSpec` of `ActingLock` assumes weak fairness of the steps inside a call (a
live process executes its next system call; none of them blocks, since the flock
is taken with `LOCK_NB`) and of `Demote` (the background holder polls the
marker, as the docstring of `write_preempt_marker` says). Nobody is obliged to
begin a call, to release or to stay alive. Runs turn deadlock checking off only
where a system may really stop: all processes of `ActingLock` and
`LifecycleRegistry` may be dead, counted calls, writes or clocks of the stores
run out, and `GateRules` and `BusRules` take one step. The specifications of the
stores state no fairness: no agent, host or operator there is obliged to go on.

## Proofs

TLAPS proves, for any sets of processes, writers, services, programs or
surfaces and any inputs:

* `ActingLockProofs`: type correctness, mutual exclusion, the two parts of
  `SidecarIsTrue`, and that `ActingLock` implements `IdentityLock`. Mutual exclusion
  speaks only of processes that act; the inductive `LockInv` adds that the flock
  is held by exactly the processes at the places `Holding` (between the flock
  and the return of acquire, acting, and inside a probe), by one of them at
  most, and that the one between writing and replacing `.info` wrote the temp
  file. A step to `acting` then comes from a holder, and nobody else holds.
* `LifecycleRegistryProofs`: type correctness, `RecordedIsDurable`,
  `ReadTellsRecorded` and `RestrictionIsReal`. `Serial` is the strengthening: as
  long as no two calls have overlapped, at most one writer is in a call, what it
  loaded tells what was recorded, what it is to publish is that and one record
  more, and the temp file is its own. "Tells" is equality until a hand edit
  breaks the file, and from then on: a program is forgotten, or its last record
  is the last one recorded. Death may leave the temp file behind; the next
  writer truncates it.
* `GateProofs`, for the life of a change: type correctness, `AttestedPastReview`
  and `LeniencyHasBounds`. `SpecInv`
  adds that every draft is attested too, which is what makes lost updates
  harmless for this property: whatever was read was attested when it was read.
  The lemma `PastReview` computes the order of the nine stages once. For
  `LeniencyHasBounds`, `CleanArchive` says that what the archive gate calls clean
  has an approval, which the draft then carries, and `NeverReadInv` that a
  consult that never saw the file parse did not come to the question that a mode
  could waive.
* `GateProofs`, for the rules: the seven properties of `gate_rules`, for any
  input sets. A behaviour of `GateRules` gives one input, so the invariant is
  `AskTypes` (the input is one of its kind), and the rest are lemmas about the
  operators:
  * `GatesAgree` is by cases over stages, modes and grants; `SelectionIsSound`
    and `GuardKeepsLocal` follow the order in which the code applies its steps.
  * `LayersOnlyTighten`: a merge over a list of languages is what its members say
    (the union of tools, the greatest timeout, the least cap, since a finite set
    of numbers has these), so one language more can only tighten; a
    narrow-only rule is true as soon as one policy layer says so, whatever a
    nearer one says.
  * `FragmentsAreKept`: a cut carries its notes less what the manifests so far
    have (`CutListsNew`), since a manifest reads back as its records
    (`ManifestReadsBack`). That the manifests recorded after each cut exist and
    are one for each cut (`RecordsAreThere`, `OneForEachCut`) is shown on the least
    cut that fails, which `LeastIsLeast` gives: it stands where an induction over
    the cuts would.
  * `ReviewerSeesAll`: a report is a list of records that a payload keeps field
    by field, and a score is 25 an error and 10 a warning, so what a tier says of
    the errors is arithmetic on two cardinalities.
  * `FormsAgree`: the form of a human is a candidate of that human alone, so the
    first position of the roster that matches it is theirs.
* `BusProofs`, for tasks: type correctness and the four properties of `completion`,
  for any tasks, messages, patterns and scan bound. The strengthening of
  `NoFilingMissed` says where a filing known at the start is during the scan:
  read already, still to be read in the directory being read, or ahead of the
  reader. It holds because the scan reads active/ first and the sweep moves that
  way. `AnswerInv` says that a time in `filed` comes from a message on the
  bus, that commits do not go back in time, and that without --all a complete
  task was filed by itself; the three action properties follow from it at the
  steps that judge and cut.
* `BusProofs`, for the rules: the eight properties of `bus_rules`, for any input
  sets that `BusAssumption` allows. The invariant is `GiveTypes`, as `AskTypes`
  is above; a lemma for each part of a property reduces it to what the operators
  compute:
  * `LongestPatternOwns`: of finitely many patterns that match one is longest
    (`SomeGreatest`), and the owner is the first of those (`OwnerIs`). A warning
    is proved to be right, not that there is one wherever the order decides. Plain
    patterns that match a path are its beginnings, so two that are as long are
    one; `OrderBreaksTies` turns the list round, position by position.
  * `DeliveryIsTotal`: what the validator lets through has the fields the
    dispatcher asks for (`ValidMeans`), and whom it sends to has a part in a repo
    (`OwnersHaveParts`), so a platform without strangers reaches none.
  * `CopiesAreSound`: the copies are the first places of their names among the
    candidates, and a set written as a list has each of its elements once
    (`SetAsList`). So whoever is asked for has one, but for a name that is the
    whole of `to`, and nobody else; of several addressees one that is asked for
    has one too.
  * `NamesReadBack`: the first "to" behind the first segment is the one that was
    written, unless the sender has one inside; then the tail is recipient and
    slug, and the longest known name it begins with is the recipient unless a
    longer one begins it too. What `_safe` has written has no slash (`SafeIs`), so
    a name with one does not come back. Both directions are proved, so the three
    exceptions (a slash in either end, "to" inside the sender, a longer known
    name) are the only ones for a recipient that is known.
  * `EnvelopeIsUnion`: what an envelope authorizes is a union over its items, and
    it is refused when one of them is.
  * `EnvComesLast`, `WorktreeIsHome`: a search that finds a marker, and an owner
    that is found, is the same search without the names of roots in the
    environment (`MarkersDecide`, `NoNameIsQuiet`); of a worktree's places the
    nearest lies in the main checkout (`MainIsMain`). A place within a repo has an
    owner, of that repo unless another has its name (`PlacesHaveOwners`), and
    `WorktreeOwned` asks that of the place, or else of the main tree.
  * `ProgramsAgree`: a program found by walking up (`WalkedIs`) lies at one depth
    below the root, where the enumeration looks (`LaidOutIsListed`).
* `RegistersProofs`: type correctness, `AuditTells` and the two parts of
  `SavesOnlyAdd`.
  A file that two sessions wrote at once is as unfinished as one that a death cut
  short: `whole` is false until the text of one save is all there is, or
  somebody restores it, and nothing is claimed of a copy loaded from it.
  `AuditInv` is `AuditTells` of the last finished file too, which `Restore`
  brings back; `TransitionTells` is its step, from two lemmas on how a longer log
  follows. `AppendInv` says of every session whose copy is not stale, saving or
  not, that it extends the last finished file.
* `ConnectionCheckProofs`: `RegistryIsTrue` and `StoreIsTrue`. `WorkInv` says
  what each stage of a check has in hand (the type of its verdict, that no good
  one is of a dangling target, that a key to register is there). `RegistryInv`
  extends the properties of the file to the copies it is saved from: the current
  copies equal the file, and every copy holds only entries that a heal may have
  found. That a heal finds them is `IdentityIsFromConfig`, over the least index
  at which the config answers. `StoreInv` is the `Serial` of the report store.
* `CredentialsProofs`: `UpsertIsLocal` and `WalksAgree`. `Serial` again: the one
  open call has read what the store says, and its temp file says that with one
  key changed; `ReplaceKeeps` then needs only what such a change does to a text
  (`UpsertedLines`, `UpsertedReads`). That the cascade, the provenance, the list
  of keys and the source chain agree needs no history: the lemmas reduce each of
  them to what the two or three layers say.
* `StoresProofs`, in the composition `Stores`:
  * `LoginsLastAsGiven` and `KeysFollowProvider` of `WebAuth`. A token is good at
    every host because of what happens before there are any tokens: `OneSecret`
    says that without a race the host that creates the secret is alone, nobody
    is up before the file has it, and from then on every token and every host
    that is up has that secret. `CacheInv` says that a retired key is not
    published and that the cache is as old as the last fetch.
  * `LedgerTells` of `Confirmations`. `LedgerInv` says that the message and the
    hash of a line, where it has both, are those of one append (a line that ran
    together takes the two from one side or loses one), and bounds what is
    confirmed and does not verify by what the cuts so far have paid for, with one
    or two records still owed while the last line lacks its end (`Debt`).
  * `KnowledgeAsMeant` of `Knowledge`. `KnowledgeInv` says that calls that did not
    overlap come one by one, that the writer of a file still has in hand what was
    meant, and that what a call is about to supersede is there (`Anchored`):
    entries are never removed, so an edge once anchored stays so.
  * `ReadsAreTrue` of `GitHosts`. `HostsInv` says where each request that stood
    throughout is during a listing: among the items, or on a page still to come
    (`ToCome`). The rank lemmas make that a matter of counting: a request has as
    many above it as it has places before it, a new one is above all others, so
    the others only move to later pages. Of an adapter that asks for no order
    it says so only while one page holds all (`Complete`).
  * `BlocksAreReached` of `BlockedEntries`. Each replacement looks through what
    the ones before it left of the file (`Runs`). Where no title is twice the text
    of a live block is within that block alone (`OwnPlace`), so after k blocks
    those found among the first k are comments and all else is as it was
    (`TombstoneClears`).

The proofs assume what the `ASSUME`s of the modules say and nothing else:
`ProcAssumption` (the marks for "no file", "truncated" and "garbled" are no
pids), `LifecycleAssumption` and `MarkAssumption`, `SpecAssumption`, `TaskAssumption`,
`RegisterAssumption`, `ConnectionAssumption`, `CredentialAssumption`,
`WebAuthAssumption`, `OidcAssumption`, `LedgerAssumption`, `HostAssumption`,
`AskAssumption` and `BusAssumption` (an input is what its file is once it has been
read: records with their fields, lists, numbers where numbers are read; no owner
is the mark for none, a slug has no slash; a
worktree's main checkout is there and is none itself, a program lies in an
organisation that is listed), `OutcomeIdsAssumption` (an
outcome id is neither blank nor the placeholder) and
`KnowledgeAssumption` (a directory that is found has no dangling edge of its own,
since what was there before is not the work of these calls).

Every invariant and action property of a passing run is proved. Only
model-checked is liveness (`EveryCallReturns`), since TLAPS does not reason about
fairness and ENABLED. Where an operator runs along a list (the cuts of a
changelog, the blocks that a clear wraps one after the other) it is written as a
recursive function over the positions; that there is such a function, and what
it says at each position, is shown on the least position that fails
(`WrapsAreThere`, `Onward`).

## Not modelled, and why

Formatting and parsing of YAML, JSON and markdown beyond "whole, truncated,
garbled"; globs, slugs and hashes character by character; the structural errors
of `parse_lifecycle`, which raise before anything is written; `check_lifecycle`,
the drift findings of `policy.py`, `validate_register` and the other reports;
I/O errors other than the ones above (a full disk, permissions). Power loss is
not modelled: the code calls no fsync, and a process that dies leaves its
completed writes to the kernel.

Of whole files: `wiki/` extracts text from source trees; `scr_template.py` and
`testing.py` are templates and fixtures; `spawn.py` and `pm_sync.py` declare
records and protocols for backends outside the repository;
`harness_registry.py`, `plugin_wiring.py`, and the account and routing reads of
`_resolve.py` look one key of a configuration up; `validate_platform.py` makes
one independent complaint per key. None of them keeps state or combines two
decisions, so a model would repeat the lines. Of the git hosts, comments,
creation and deletion of repositories and token validation are single requests
whose errors all raise; remote URLs are text.

## Observations

What the models follow the code in, and a reader may not expect. No run is
spent on these, since each is visible in one function or shown by a property's
exception.

* `acting_lock.py`: `release` closes before it unlinks, so a predecessor removes
  the `.info` of its successor and a probe then answers None under a live holder;
  a probe holds the lock it probes, so that a second probe may name a holder
  that crashed before.
* `spec_lifecycle.py`: `set_stage` writes an empty mapping back for a file that
  does not parse; `apply_ratification` writes `approved_by` below spec-approved.
* `task_complete.py`: an un-tick of 1.7-bis counts for 1.7.
* `blocked_entries.py`: the second of two blocks of one text can not be cleared.
* `knowledge.py`: a correction with the day and title of the entry it corrects
  supersedes itself.
* `validate_message.py`: a list of recipients raises where the known agents are
  given, though `dispatch` accepts one; a list, or `core-agent, all`, passes the
  broadcast rule.
* `security_gates.py`: an override that leaves `blocking` out resets it to the
  layer's default. `security_gate_report.py`: a "fail" of `llm-observer` or
  `ci-slow` blocks, whatever the ladder says of them.
* `review_policy.py`: a block with only `auto-triage` loses the default
  mandatory set. `verification_gates.py`: a fallback is not tried again when
  clearance leaves nobody.
* `changelog_fragment.py`: a path that begins with the name of a document is one
  (`notices/app.py`); any fragment suffices. `changelog_manifest.py`: a clear by
  filename that lags removes a note edited in between.
* `_resolve.py`: in a worktree without a marker `OTAMAN_ROOT` beats the marker of
  the main checkout; `read_expected_routing` asks for a field the parser does
  not know. `identity.py`: the audit entry, which must not block, lets
  `RootResolutionError` through.
* `program_context.py`: an explicit name takes the first organisation's program;
  a program that lies elsewhere in the workspace than `orgs/<org>/programs/` is
  found by walking up and is not enumerated.
* `owner_paths.py`: slashes are stripped to match a pattern and counted for its
  length, so `/a/` is as long as `a/b` and may own what lies in it. The docstring
  of `validate_owner_paths` (lines 370-372) announces a warning for overlapping
  globs of one length; `a/*` and `*/b` overlap at `a/b`, where their order decides,
  and there is none, since the sample of the first, `a/x`, is not matched by the
  second. Of two repos of one name the first gives both their owner.
* `registry_access.py`: two saves at once may leave a mixture that parses, and the
  loaders take it for a register.
* `bus/cc_fanout.py`: a name is compared with the whole of `to`, so that of a
  message to `a, b` each of the two who is asked for in `cc` or by a rule gets a
  copy as well, though the docstring excludes the primary recipient.
* `bus_stem.py`: `org/team` is written as `org-team`, so that neither end of a
  stem reads back with its slash.
* git hosts: only GitHub leaves out a fork's branch of the same name, Gitea looks
  at one page. A pull request closed while a list is read may hide another, and
  under Bitbucket and Azure, whose list requests set no order, one may be missed
  with nothing closed once there is more than one page.
* `auth_oidc.py`: in an outage a good token of a new key is refused as a bad one.

## Plan

The components of the inventory that decide anything are modelled, and what the
runs check of their safety is proved. What is left, in order of importance:

1. Refinement of the serial lifecycle registry to an abstract append-only log, and
   of `Confirmations` to a set of confirmed messages without cuts.
2. The operations of the git hosts that are single requests (comments, creation,
   deletion), should they come to be retried; `validate_platform.py`, should its
   complaints come to depend on each other.
