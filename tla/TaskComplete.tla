---------------------------- MODULE TaskComplete ----------------------------
(***************************************************************************)
(* Which tasks of one change are complete (otaman_core/task_complete.py),  *)
(* and whether a release may ship the change (release_gate.py).            *)
(*                                                                         *)
(* Agents file task-complete messages on the bus, a sweep moves messages   *)
(* from active/ to archive/, and commits of tasks.md tick and un-tick its  *)
(* lines.  A reader lists active/ and reads it message by message, then    *)
(* archive/, then asks git about each task, while all of that goes on.     *)
(*                                                                         *)
(* Only the reader is in this repository.  A bus message is a member of    *)
(* Message and belongs to the change; a task id is a member of Task.       *)
(***************************************************************************)
EXTENDS Integers, Sequences, FiniteSetsExt

CONSTANTS
  Task,        \* the ids of task lines
  All,         \* COMPLETED_ALL
  Covers,      \* [Task -> the ids that its pattern "<id>\b" matches]
  Message,
  ScanBound,   \* UNTICK_SCAN_COMMITS
  Drafts,      \* what tasks.md may say, as far as ticks go
  MaxTime,     \* bound of the clock
  MaxCommits   \* bound of the commits

ASSUME TaskAssumption ==
  /\ All \notin Task
  /\ Covers \in [Task -> SUBSET Task]
  /\ \A t \in Task : t \in Covers[t]
  /\ Drafts \subseteq [Task -> {"none", "open", "done"}]
  /\ ScanBound \in Nat \ {0} /\ MaxTime \in Nat /\ MaxCommits \in Nat

(* A filing time: none was filed, filed without a readable timestamp, or   *)
(* the time.  The order is the one _merge_newest keeps the newest by.      *)
Absent == -2
Undated == -1
Time == 0..MaxTime
Stamp == {Absent, Undated} \union Time

Key == Task \union {All}
Completed == {{All}} \union ((SUBSET Task) \ {{}})   \* of a **Completed**: line
Line == {"none", "open", "done"}

VARIABLES
  clock,
  place,     \* [Message -> where on the bus it is]
  filing,    \* [Message -> the keys it names, and its timestamp]
  line,      \* [Task -> its line in tasks.md]
  history,   \* the commits of tasks.md, oldest first
  reader,    \* "idle", the directory it reads, or "judge"
  honorAll,  \* does the reader take an --all filing for a task's own
  asked,     \* the tasks the reader is asked about
  todo,      \* the messages it has listed and not read
  filed,     \* [Key -> the newest filing time it has read]
  complete,  \* [Task -> "unknown", "yes" or "no"]
  status,    \* of the last cut: "none" or a status of CutVerdict
  known,     \* history variable: the messages on the bus when it began
  unread     \* history variable: the commits git did not show it just now

busVars == <<place, filing>>
gitVars == <<line, history>>
readerVars == <<reader, honorAll, asked, todo, filed, complete, status, known, unread>>
vars == <<clock, busVars, gitVars, readerVars>>

OnBus == {m \in Message : place[m] # "unsent"}
NothingFiled == [k \in Key |-> Absent]
NothingJudged == [t \in Task |-> "unknown"]

Init ==
  /\ clock = 0
  /\ place = [m \in Message |-> "unsent"]
  /\ filing = [m \in Message |-> [ids |-> {}, at |-> Undated]]
  /\ line \in Drafts
  /\ history = <<>>
  /\ reader = "idle" /\ honorAll = FALSE /\ asked = {} /\ todo = {}
  /\ filed = NothingFiled /\ complete = NothingJudged /\ status = "none"
  /\ known = {} /\ unread = {}

----------------------------------------------------------------------------
(* The agents, the sweep, the owner of tasks.md *)

Tick ==
  /\ clock < MaxTime
  /\ clock' = clock + 1
  /\ UNCHANGED <<busVars, gitVars, readerVars>>

File(m, ids, at) ==
  /\ place[m] = "unsent"
  /\ at \in {clock, Undated}
  /\ place' = [place EXCEPT ![m] = "active"]
  /\ filing' = [filing EXCEPT ![m] = [ids |-> ids, at |-> at]]
  /\ UNCHANGED <<clock, gitVars, readerVars>>

Sweep(m) ==
  /\ place[m] = "active"
  /\ place' = [place EXCEPT ![m] = "archive"]
  /\ UNCHANGED <<clock, filing, gitVars, readerVars>>

(* Of the diff of a commit, the ticked lines it removes and the open lines *)
(* it adds.                                                                *)
Commit(new) ==
  /\ Len(history) < MaxCommits
  /\ new # line
  /\ line' = new
  /\ history' = Append(history,
       [at      |-> clock,
        dropped |-> {t \in Task : line[t] = "done" /\ new[t] # "done"},
        opened  |-> {t \in Task : line[t] # "open" /\ new[t] = "open"}])
  /\ UNCHANGED <<clock, busVars, readerVars>>

----------------------------------------------------------------------------
(* filed_complete_by_change: one pass over the bus *)

SlipArchiveFirst == <<"archive", "active">>
Directories == <<"active", "archive">>

Listing(directory) == {m \in Message : place[m] = directory}

Begin ==
  /\ reader = "idle"
  /\ reader' = Directories[1]
  /\ todo' = Listing(Directories[1])
  /\ known' = OnBus
  /\ status' = "none"
  /\ UNCHANGED <<clock, busVars, gitVars, honorAll, asked, filed, complete, unread>>

MergeNewest(old, when) == IF when > old THEN when ELSE old

(* A message that has left the directory since fails to open, and is skipped. *)
ReadMessage(m) ==
  /\ m \in todo
  /\ todo' = todo \ {m}
  /\ filed' = [k \in Key |->
       IF place[m] = reader /\ k \in filing[m].ids
       THEN MergeNewest(filed[k], filing[m].at) ELSE filed[k]]
  /\ UNCHANGED <<clock, busVars, gitVars, reader, honorAll, asked, complete, status,
                 known, unread>>

ScanSecond ==
  /\ reader = Directories[1] /\ todo = {}
  /\ reader' = Directories[2]
  /\ todo' = Listing(Directories[2])
  /\ UNCHANGED <<clock, busVars, gitVars, honorAll, asked, filed, complete, status,
                 known, unread>>

----------------------------------------------------------------------------
(* is_effectively_complete and cut_eligibility *)

(* The tasks are the caller's: a cut asks about all it has read in         *)
(* tasks.md, before this scan or since.                                    *)
Ask(all, tasks) ==
  /\ reader = Directories[2] /\ todo = {}
  /\ reader' = "judge"
  /\ honorAll' = all /\ asked' = tasks
  /\ UNCHANGED <<clock, busVars, gitVars, todo, filed, complete, status, known, unread>>

Scanned == {i \in 1..Len(history) : i > Len(history) - ScanBound}

(* The patterns of last_untick_at look for the id and a word boundary in   *)
(* the removed and in the added lines of a commit.                         *)
Unticks(c, t) == c.dropped \intersect Covers[t] # {} /\ c.opened \intersect Covers[t] # {}

(* None is a time before every other *)
LastUntickAt(t, lost) ==
  LET hits == {i \in Scanned \ lost : Unticks(history[i], t)}
  IN  IF hits = {} THEN Absent ELSE history[Max(hits)].at

(* The key whose filing speaks for the task *)
SlipAlwaysAll(t) == IF filed[t] # Absent THEN {t} ELSE {All}
Speaks(t) == IF filed[t] # Absent THEN {t} ELSE IF honorAll THEN {All} ELSE {}

SlipUndatedIsFresh(t, lost) ==
  \E k \in Speaks(t) :
    filed[k] = Undated \/ (filed[k] # Absent /\ filed[k] >= LastUntickAt(t, lost))

SlipSameTimeIsStale(t, lost) ==
  \E k \in Speaks(t) : filed[k] # Absent /\ filed[k] > LastUntickAt(t, lost)

IsEffectivelyComplete(t, lost) ==
  \E k \in Speaks(t) :
    /\ filed[k] # Absent
    /\ filed[k] >= LastUntickAt(t, lost)

(* git log or git show may fail: what they do not show counts as no un-tick *)
Judge(t, lost) ==
  /\ reader = "judge"
  /\ t \in asked /\ complete[t] = "unknown"
  /\ complete' = [complete EXCEPT ![t] = IF IsEffectivelyComplete(t, lost) THEN "yes" ELSE "no"]
  /\ unread' = lost
  /\ UNCHANGED <<clock, busVars, gitVars, reader, honorAll, asked, todo, filed, status, known>>

Judged == reader = "judge" /\ \A t \in asked : complete[t] # "unknown"

(* nothing is kept from one call to the next *)
Rest ==
  /\ reader' = "idle"
  /\ honorAll' = FALSE /\ asked' = {} /\ known' = {} /\ unread' = {}
  /\ filed' = NothingFiled /\ complete' = NothingJudged
  /\ UNCHANGED <<clock, busVars, gitVars, todo>>

(* A cut demands a filing of each task's own *)
Cut(gatePassed) ==
  /\ Judged /\ ~honorAll
  /\ status' = IF \E t \in asked : complete[t] = "no" THEN "tasks-outstanding"
               ELSE IF gatePassed THEN "eligible" ELSE "gate-unpassed"
  /\ Rest

(* The dispatch consult takes an --all filing *)
Consult ==
  /\ Judged /\ honorAll
  /\ UNCHANGED status
  /\ Rest

----------------------------------------------------------------------------

Next ==
  \/ Tick
  \/ \E m \in Message :
       \/ \E ids \in Completed, at \in Stamp : File(m, ids, at)
       \/ Sweep(m)
       \/ ReadMessage(m)
  \/ \E new \in Drafts : Commit(new)
  \/ Begin
  \/ ScanSecond
  \/ \E all \in BOOLEAN, tasks \in SUBSET Task : Ask(all, tasks)
  \/ \E t \in Task, lost \in SUBSET Scanned : Judge(t, lost)
  \/ \E gatePassed \in BOOLEAN : Cut(gatePassed)
  \/ Consult

Spec == Init /\ [][Next]_vars

----------------------------------------------------------------------------

(* Type invariant.  A reader has listed only messages on the bus, and an   *)
(* idle one keeps nothing of the scan before.                              *)
TypeOK ==
  /\ clock \in Time
  /\ place \in [Message -> {"unsent", "active", "archive"}]
  /\ filing \in [Message -> [ids : Completed \union {{}}, at : Time \union {Undated}]]
  /\ line \in [Task -> Line]
  /\ history \in Seq([at : Time, dropped : SUBSET Task, opened : SUBSET Task])
  /\ reader \in {"idle", "active", "archive", "judge"}
  /\ honorAll \in BOOLEAN
  /\ asked \subseteq Task
  /\ todo \subseteq OnBus
  /\ reader \in {"idle", "judge"} => todo = {}
  /\ filed \in [Key -> Stamp]
  /\ complete \in [Task -> {"unknown", "yes", "no"}]
  /\ reader = "idle" => filed = NothingFiled
  /\ reader # "judge" => complete = NothingJudged
  /\ status \in {"none", "eligible", "tasks-outstanding", "gate-unpassed"}
  /\ known \subseteq OnBus
  /\ unread \subseteq 1..Len(history)

(* filed_complete_by_change (lines 144-163): a filing that was on the bus  *)
(* when the scan began is in its result, and no older one in its place,    *)
(* though the sweep moves it while the scan runs and the messages come in  *)
(* any order.                                                              *)
NoFilingMissed ==
  reader = "judge" =>
    \A m \in known : \A k \in filing[m].ids : filed[k] >= filing[m].at

(* is_effectively_complete (lines 270-277): a task judged complete has a   *)
(* filing, its own or a broadcast, that is not older than any un-tick of   *)
(* its line git has shown within the scan bound.                           *)
RetractionHolds ==
  [][\A t \in Task : complete[t] = "unknown" /\ complete'[t] = "yes" =>
       \E m \in OnBus :
         /\ {t, All} \intersect filing[m].ids # {}
         /\ \A i \in Scanned \ unread' :
              t \in history[i].dropped \intersect history[i].opened
                => filing[m].at >= history[i].at]_vars

(* is_effectively_complete: a task filed by itself before the scan began,  *)
(* and un-ticked by no later commit, is not given out again, whatever      *)
(* broadcasts and older filings are on the bus and wherever its tick is.   *)
FinishedStaysFinished ==
  [][\A t \in Task : complete[t] = "unknown" /\ complete'[t] = "no" =>
       \A m \in known :
         t \in filing[m].ids =>
           \E i \in 1..Len(history) :
             Unticks(history[i], t) /\ history[i].at > filing[m].at]_vars

(* cut_eligibility (release_gate.py lines 98-106): a change is found       *)
(* eligible only if each task it was asked about has a filing of its       *)
(* own; a broadcast of one agent closes no task of another.                *)
CutIsPerTask ==
  [][status' = "eligible" /\ reader = "judge" /\ ~honorAll /\ reader' = "idle" =>
       \A t \in asked : \E m \in OnBus : t \in filing[m].ids]_vars
=============================================================================
