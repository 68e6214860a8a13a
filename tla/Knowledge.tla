----------------------------- MODULE Knowledge -----------------------------
(***************************************************************************)
(* The knowledge directory (otaman_core/knowledge.py): one markdown file   *)
(* per entry, named after the entry's stem, written in place.  An entry    *)
(* is its stem (created date and slug of the title), the fact it records   *)
(* and the fields the operations change.  Agents work on the directory     *)
(* without a lock and may die between opening a file and filling it.       *)
(***************************************************************************)
EXTENDS Integers, FiniteSets

CONSTANTS
  Agent, Stem, Fact,
  NoStem,     \* no supersedes pointer
  Missing,    \* no such file
  Torn,       \* a file that is empty or no entry
  Found,      \* what the directory may hold at first
  MaxDay, MaxWrites   \* bounds

STATES == {"active", "dormant", "retired"}
V1 == "v1"    \* the state of an entry without the field
Entry == [stem : Stem, fact : Fact, state : STATES \union {V1},
          supersedes : Stem \union {NoStem}, accessed : 0..MaxDay]

ASSUME KnowledgeAssumption ==
  /\ Found \subseteq [Stem -> Entry \union {Missing}]
  /\ {Missing, Torn} \intersect Entry = {} /\ Missing # Torn /\ NoStem \notin Stem
  /\ MaxDay \in Nat /\ MaxWrites \in Nat
  /\ \A found \in Found : \A s \in Stem :   \* amend_entry alone writes an edge
       found[s] # Missing /\ found[s].supersedes # NoStem
         => found[found[s].supersedes] # Missing

VARIABLES
  notes,   \* [Stem -> the file of that name]
  npc, njob,   \* [Agent -> where it is, the entry it is to write]
  writes,
  meant,   \* history variable: [Stem -> the entry it should be by now]
  intent,  \* history variable: [Agent -> what its call makes of which entry]
  tidy,    \* history variable: was each file found named after its entry
  clashed  \* history variable: have two calls overlapped or a writer died

knowledgeVars == <<notes, npc, njob, writes, meant, intent, tidy, clashed>>

(* parse_entry: no state field is the active state *)
Parsed(f) == IF f.state = V1 THEN [f EXCEPT !.state = "active"] ELSE f

IsEntry(s) == notes[s] \in Entry
LoadEntries == {Parsed(notes[s]) : s \in {t \in Stem : IsEntry(t)}}
ActiveEntries == {e \in LoadEntries : e.state = "active"}
SupersededBy(s) == {e.stem : e \in {x \in LoadEntries : x.supersedes = s}}

NoIntent == [of |-> NoStem, entry |-> Missing]

KnowledgeInit ==
  /\ notes \in Found
  /\ npc = [a \in Agent |-> "idle"]
  /\ njob = [a \in Agent |-> Missing] /\ intent = [a \in Agent |-> NoIntent]
  /\ writes = 0
  /\ meant = [s \in Stem |-> IF IsEntry(s) THEN Parsed(notes[s]) ELSE Missing]
  /\ tidy = (\A s \in Stem : IsEntry(s) => notes[s].stem = s)
  /\ clashed = FALSE

----------------------------------------------------------------------------

(* The first half of every call: what is to be written is settled from what*)
(* is read now.  `of` and `entry` are what the caller means.               *)
Begin(a, entry, of, wanted) ==
  /\ npc[a] = "idle" /\ writes < MaxWrites
  /\ writes' = writes + 1
  /\ npc' = [npc EXCEPT ![a] = "open"]
  /\ njob' = [njob EXCEPT ![a] = entry]
  /\ intent' = [intent EXCEPT ![a] = [of |-> of, entry |-> wanted]]
  /\ clashed' = (clashed \/ \E x \in Agent \ {a} : npc[x] # "idle")
  /\ UNCHANGED <<notes, meant, tidy>>

New(s, fact, old) ==
  [stem |-> s, fact |-> fact, state |-> "active", supersedes |-> old, accessed |-> 0]

AddEntry(a, s, fact) == Begin(a, New(s, fact, NoStem), s, New(s, fact, NoStem))

(* amend_entry: the entry that is corrected has to be there. *)
AmendEntry(a, old, s, fact) ==
  /\ IsEntry(old)
  /\ Begin(a, New(s, fact, old), s, New(s, fact, old))

With(e, field, value) == IF e = Missing THEN Missing ELSE [e EXCEPT ![field] = value]

SlipForgetsEdge(a, s, field, value) ==
  /\ IsEntry(s)
  /\ Begin(a, With([Parsed(notes[s]) EXCEPT !.supersedes = NoStem], field, value), s,
           With(meant[s], field, value))

(* mark_accessed and set_state read the file of the name they are given and*)
(* write the one of the entry's own stem.                                  *)
Rewrite(a, s, field, value) ==
  /\ IsEntry(s)
  /\ Begin(a, With(Parsed(notes[s]), field, value), s, With(meant[s], field, value))

MarkAccessed(a, s, day) == Rewrite(a, s, "accessed", day)
SetState(a, s, state) == Rewrite(a, s, "state", state)

(* write_entry opens the file, which empties it, ... *)
OpenNote(a) ==
  /\ npc[a] = "open"
  /\ npc' = [npc EXCEPT ![a] = "fill"]
  /\ notes' = [notes EXCEPT ![njob[a].stem] = Torn]
  /\ UNCHANGED <<njob, writes, meant, intent, tidy, clashed>>

LeaveNote(a) ==
  /\ npc' = [npc EXCEPT ![a] = "idle"] /\ njob' = [njob EXCEPT ![a] = Missing]
  /\ intent' = [intent EXCEPT ![a] = NoIntent]

(* ... and writes the text; of two texts in one file neither may be left.  *)
FillNote(a) ==
  /\ npc[a] = "fill"
  /\ LET s == njob[a].stem
         shared == \E x \in Agent \ {a} : npc[x] = "fill" /\ njob[x].stem = s
     IN  \E text \in {njob[a]} \union IF shared THEN {Torn} ELSE {} :
           notes' = [notes EXCEPT ![s] = text]
  /\ meant' = [meant EXCEPT ![intent[a].of] = intent[a].entry]
  /\ LeaveNote(a)
  /\ UNCHANGED <<writes, tidy, clashed>>

AgentDiesWriting(a) ==
  /\ npc[a] # "idle" /\ LeaveNote(a)
  /\ clashed' = TRUE
  /\ UNCHANGED <<notes, writes, meant, tidy>>

KnowledgeNext ==
  \E a \in Agent :
    \/ \E s \in Stem :
         \/ \E f \in Fact : AddEntry(a, s, f) \/ \E old \in Stem : AmendEntry(a, old, s, f)
         \/ \E day \in 1..MaxDay : MarkAccessed(a, s, day)
         \/ \E state \in STATES : SetState(a, s, state)
    \/ OpenNote(a) \/ FillNote(a) \/ AgentDiesWriting(a)

----------------------------------------------------------------------------

KnowledgeTypeOK ==
  /\ notes \in [Stem -> Entry \union {Missing, Torn}]
  /\ meant \in [Stem -> Entry \union {Missing}]
  /\ npc \in [Agent -> {"idle", "open", "fill"}]
  /\ njob \in [Agent -> Entry \union {Missing}]
  /\ \A a \in Agent : npc[a] = "idle" <=> njob[a] = Missing
  /\ writes \in 0..MaxWrites /\ tidy \in BOOLEAN /\ clashed \in BOOLEAN

(* mark_accessed and set_state (lines 376-400): "metadata, not content":   *)
(* in a directory whose files are named after their entries, while calls   *)
(* do not overlap and no writer dies, every entry is what the calls made of*)
(* it one by one: its fact and its edge are those it was recorded with.    *)
EntriesAsMeant ==
  tidy /\ ~clashed =>
    \A s \in Stem :
      \/ \E a \in Agent : npc[a] = "fill" /\ njob[a].stem = s
      \/ IF IsEntry(s) THEN Parsed(notes[s]) = meant[s] ELSE notes[s] = meant[s]

(* amend_entry (line 341): "an edge to nothing is the silent-dangling-     *)
(* pointer this forbids": what an entry supersedes is a file of the        *)
(* directory, whoever overlaps or dies.                                    *)
EdgeHasTarget == \A s \in Stem : SupersededBy(s) # {} => notes[s] # Missing

(* The index: an entry that a call put to rest is not in it, and one that  *)
(* nobody put to rest is, under the conditions of EntriesAsMeant.          *)
IndexIsActive ==
  tidy /\ ~clashed /\ (\A a \in Agent : npc[a] # "fill") =>
    {e.stem : e \in ActiveEntries} =
      {s \in Stem : meant[s] # Missing /\ meant[s].state = "active"}

(* The directory of knowledge.py is what its calls were to make of it:     *)
(* content, edges and index.                                               *)
KnowledgeAsMeant == KnowledgeTypeOK /\ EntriesAsMeant /\ EdgeHasTarget /\ IndexIsActive
=============================================================================
