-------------------------- MODULE BlockedEntries --------------------------
(***************************************************************************)
(* blocked.md: the "## Blocked:" blocks of otaman_core/blocked_entries.py, *)
(* how they are found, cleared by their reference and reported as stale.   *)
(* A block is told from another by its text: its title, its fields, and the*)
(* newlines it ends in; a malformed title is a title like any other.       *)
(***************************************************************************)
EXTENDS Integers, Sequences, SequencesExt

CONSTANTS Title, Ref, NoRef, MaxBlocks, MaxClears

KINDS == {"awaiting-approval", "awaiting-dependency"}
Block == [title : Title, proposal : Ref \union {NoRef}, change : Ref \union {NoRef},
          kind : KINDS \union {"unsaid"}, newlines : 0..2, tombstoned : BOOLEAN]

ASSUME BlockedAssumption == NoRef \notin Ref /\ MaxBlocks \in Nat /\ MaxClears \in Nat

VARIABLES blocks, clears
blockedVars == <<blocks, clears>>

BlockedInit == blocks = <<>> /\ clears = 0

(* BlockedEntry.ref and .kind: an entry of before the field with a proposal*)
(* waits for an approval.                                                  *)
RefOfBlock(b) == IF b.proposal # NoRef THEN b.proposal ELSE b.change
KindOf(b) ==
  IF b.kind \in KINDS THEN b.kind
  ELSE IF b.proposal # NoRef THEN "awaiting-approval" ELSE "awaiting-dependency"

(* parse_entries: where the live ones stand, malformed or not *)
ParseEntries(text) == {i \in DOMAIN text : ~text[i].tombstoned}

SlipAnyRef(text, ref, kinds) ==
  {i \in ParseEntries(text) :
     ref \in {text[i].proposal, text[i].change} /\ KindOf(text[i]) \in kinds}

FindByRef(text, ref, kinds) ==
  {i \in ParseEntries(text) : RefOfBlock(text[i]) = ref /\ KindOf(text[i]) \in kinds}

StaleEntry(b, known) == RefOfBlock(b) \notin known

(* Is the text of entry e within block b?  A tombstone goes on with one    *)
(* newline and the trailer; an entry without fields begins one that has.   *)
Bare(b) == b.proposal = NoRef /\ b.change = NoRef /\ b.kind = "unsaid"
SameFields(e, b) == e.proposal = b.proposal /\ e.change = b.change /\ e.kind = b.kind
Within(e, b) ==
  /\ e.title = b.title
  /\ \/ SameFields(e, b) /\ e.newlines <= IF b.tombstoned THEN 1 ELSE b.newlines
     \/ Bare(e) /\ ~Bare(b) /\ e.newlines <= 1

(* str.replace(..., 1): the first block that holds the text is commented   *)
(* out, again if it is already.                                            *)
TombstoneOne(text, e) ==
  LET holds == {i \in DOMAIN text : Within(e, text[i])}
  IN  IF holds = {} THEN text ELSE [text EXCEPT ![Min(holds)].tombstoned = TRUE]

(* What was found is wrapped block after block, each in what the ones      *)
(* before it left of the text.                                             *)
Tombstone(text, found) ==
  LET out[i \in 0..Len(text)] ==
        IF i = 0 THEN text
        ELSE IF i \in found THEN TombstoneOne(out[i - 1], text[i]) ELSE out[i - 1]
  IN  out[Len(text)]

(* render_entry at the end of the file; or a block written by hand *)
AppendBlock(b) ==
  /\ Len(blocks) < MaxBlocks
  /\ blocks # <<>> => Last(blocks).newlines > 0   \* else it is no line of its own
  /\ blocks' = Append(blocks, b)
  /\ UNCHANGED clears

ClearRef(ref, kinds) ==
  /\ clears < MaxClears /\ clears' = clears + 1
  /\ blocks' = Tombstone(blocks, FindByRef(blocks, ref, kinds))

BlockedNext ==
  \/ \E b \in Block : ~b.tombstoned /\ AppendBlock(b)
  \/ \E ref \in Ref, kinds \in {KINDS, {"awaiting-approval"}, {"awaiting-dependency"}} :
       ClearRef(ref, kinds)

----------------------------------------------------------------------------

DistinctTexts(text) ==
  \A i, j \in DOMAIN text : i # j => text[i].title # text[j].title

(* find_by_ref and tombstone (lines 198-256): where no title is twice in   *)
(* the file, clearing a reference tombstones the live entries of it and of *)
(* the kinds asked for, every one, and none of another reference, kind, or *)
(* already cleared.                                                        *)
ClearTakesItsOwn ==
  \A ref \in Ref, kinds \in SUBSET KINDS :
    ClearRef(ref, kinds) /\ DistinctTexts(blocks) =>
      \A i \in DOMAIN blocks :
        blocks'[i].tombstoned <=>
          \/ blocks[i].tombstoned
          \/ /\ KindOf(blocks[i]) \in kinds
             /\ ref = IF blocks[i].proposal # NoRef THEN blocks[i].proposal
                      ELSE blocks[i].change

(* stale_entries: nothing that can be found by a known reference is        *)
(* reported as stale, and nothing live is neither stale nor found.         *)
StaleOrFound ==
  \A known \in SUBSET Ref : \A i \in ParseEntries(blocks) :
    StaleEntry(blocks[i], known) <=> \A ref \in known : i \notin FindByRef(blocks, ref, KINDS)

(* What is blocked can be reached and told: a clear takes what it names    *)
(* and no other, and what no clear can name any more is called stale.      *)
BlocksAreReached == [][ClearTakesItsOwn /\ StaleOrFound']_blockedVars
=============================================================================
