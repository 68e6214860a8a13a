----------------------------- MODULE GateProofs ------------------------------
(***************************************************************************)
(* The gates, proved for every set of surfaces and every input.            *)
(*                                                                         *)
(* The life of a change (SpecLifecycle) comes first.  AttestedPastReview   *)
(* is about the file alone and so is not inductive: an act writes what it  *)
(* prepared earlier, from a file that may have changed since.  SpecInv     *)
(* adds that every draft is attested too.                                  *)
(*                                                                         *)
(* The rules of the gates (GateRules) follow, one part for each of their   *)
(* properties.  A state of that specification is one input: AskTypes, that *)
(* it is an input of its kind, is the invariant, and what remains is what  *)
(* the operators compute.                                                  *)
(***************************************************************************)
EXTENDS SpecLifecycle, GateRules, FiniteSetTheorems, SequenceTheorems, WellFoundedInduction,
        TLAPS

Blocked == mode = "block" /\ ~bare

SpecInv ==
  /\ TypeOK
  /\ Blocked => Attested(change)
  /\ Blocked => \A a \in Surface : Attested(draft[a])

----------------------------------------------------------------------------
(* The order of the stages *)

(* The stages and their places in the order, by name. *)
LEMMA StageOrder ==
  /\ Stage = {"pre-proposal", "proposed", "approved", "authored", "spec-approved",
              "dispatched", "implemented", "verified", "archived"}
  /\ StageIndex("pre-proposal") = 1 /\ StageIndex("proposed") = 2
  /\ StageIndex("approved") = 3 /\ StageIndex("authored") = 4
  /\ StageIndex("spec-approved") = 5 /\ StageIndex("dispatched") = 6
  /\ StageIndex("implemented") = 7 /\ StageIndex("verified") = 8
  /\ StageIndex("archived") = 9
<1>1. /\ DOMAIN STAGES = 1..9 /\ Len(STAGES) = 9
      /\ STAGES[1] = "pre-proposal" /\ STAGES[2] = "proposed" /\ STAGES[3] = "approved"
      /\ STAGES[4] = "authored" /\ STAGES[5] = "spec-approved"
      /\ STAGES[6] = "dispatched" /\ STAGES[7] = "implemented"
      /\ STAGES[8] = "verified" /\ STAGES[9] = "archived"
  BY DEF STAGES
<1>2. Stage = {STAGES[i] : i \in 1..9}
  BY <1>1 DEF Stage, ToSet
<1>3. Stage = {"pre-proposal", "proposed", "approved", "authored", "spec-approved",
               "dispatched", "implemented", "verified", "archived"}
  BY <1>1, <1>2
<1>4. ASSUME NEW i \in 1..9
      PROVE  StageIndex(STAGES[i]) = i
  <2>1. \A j \in 1..9 : STAGES[j] = STAGES[i] => j = i
    BY <1>1
  <2> QED
    BY <1>1, <2>1 DEF StageIndex
<1> QED
  BY <1>1, <1>3, <1>4

(* The stages past the review, by name. *)
LEMMA PastReview ==
  /\ Stage = {"pre-proposal", "proposed", "approved", "authored", "spec-approved",
              "dispatched", "implemented", "verified", "archived"}
  /\ \A s \in Stage :
       AtLeast(s, "spec-approved") <=>
         s \in {"spec-approved", "dispatched", "implemented", "verified", "archived"}
  /\ \A s \in Stage :
       AtLeast(s, "dispatched") <=>
         s \in {"dispatched", "implemented", "verified", "archived"}
BY StageOrder DEF AtLeast

----------------------------------------------------------------------------
(* What the acts prepare *)

LEMMA ReadType ==
  ASSUME TypeOK
  PROVE  ReadOpenspec \in Change
<1>1. EmptyChange \in Change
  BY PastReview DEF EmptyChange, Change, NoStage
<1> QED
  BY <1>1 DEF TypeOK, ReadOpenspec

LEMMA ReadAttested ==
  ASSUME TypeOK, Attested(change)
  PROVE  Attested(ReadOpenspec)
<1>1. ~SpecApprovedReached(EmptyChange)
  BY PastReview DEF EmptyChange, SpecApprovedReached, AtLeast, NoStage
<1> QED
  BY <1>1 DEF ReadOpenspec, Attested

(* The stages that the writers name are stages. *)
LEMMA WriterTypes ==
  ASSUME NEW c \in Change
  PROVE  /\ [c EXCEPT !.scr = TRUE] \in Change
         /\ ApplyRatification(c) \in Change
         /\ ApplySpecApproved(c) \in Change
         /\ ApplyAutoArchive(c) \in Change
         /\ \A to \in Stage : [c EXCEPT !.stage = to] \in Change
BY PastReview DEF Change, ApplyRatification, ApplySpecApproved, ApplyAutoArchive

(* A ratified change and a spec-approved one carry an approved_by. *)
LEMMA WritersAttest ==
  ASSUME NEW c \in Change
  PROVE  Attested(ApplyRatification(c)) /\ Attested(ApplySpecApproved(c))
BY DEF Change, Attested, HasApproval, ApplyRatification, ApplySpecApproved

(* Authorizing the author changes neither side of Attested. *)
LEMMA ScrAttested ==
  ASSUME NEW c \in Change, Attested(c)
  PROVE  Attested([c EXCEPT !.scr = TRUE])
BY DEF Change, Attested, HasApproval, SpecApprovedReached

(* Under "block" the dispatch gate keeps a change that is not attested     *)
(* short of "dispatched", and "spec-approved" itself is not advanced to.   *)
LEMMA AdvanceAttested ==
  ASSUME NEW c \in Change, Attested(c), NEW to \in Stage,
         to # "spec-approved",
         AtLeast(to, "dispatched")
           => ~IsResearch(c) /\ DispatchGate(c, "block").allowed
  PROVE  Attested([c EXCEPT !.stage = to])
<1> DEFINE d == [c EXCEPT !.stage = to]
<1>1. d.stage = to /\ d.approvedBy = c.approvedBy
  BY DEF Change
<1>2. SUFFICES ASSUME SpecApprovedReached(d)
               PROVE  HasApproval(d)
  BY DEF Attested
<1>3. AtLeast(to, "dispatched")
  BY <1>1, <1>2, PastReview DEF SpecApprovedReached
<1>4. SpecApprovedReached(c)
  BY <1>3 DEF DispatchGate, Decide, Refused
<1> QED
  BY <1>1, <1>4 DEF Attested, HasApproval

(* A verified change is past its review, so that its approval is there to  *)
(* be carried into the archive.                                            *)
LEMMA ArchiveAttested ==
  ASSUME NEW c \in Change, Attested(c), c.stage = "verified"
  PROVE  Attested(ApplyAutoArchive(c))
<1>1. SpecApprovedReached(c)
  BY PastReview DEF SpecApprovedReached
<1> QED
  BY <1>1 DEF Change, Attested, HasApproval, ApplyAutoArchive

----------------------------------------------------------------------------

LEMMA SpecInvInit == Init => SpecInv
<1> SUFFICES ASSUME Init
             PROVE  SpecInv
  OBVIOUS
<1>1. EmptyChange \in Change
  BY PastReview DEF EmptyChange, Change, NoStage
<1>2. ~SpecApprovedReached(EmptyChange)
  BY PastReview DEF EmptyChange, SpecApprovedReached, AtLeast, NoStage
<1>3. change \in Change /\ ~SpecApprovedReached(change)
  <2>1. CASE change = EmptyChange
    BY <1>1, <1>2, <2>1
  <2>2. ASSUME NEW s \in {"pre-proposal", "proposed"},
               change = [EmptyChange EXCEPT !.stage = s]
        PROVE  change \in Change /\ ~SpecApprovedReached(change)
    <3>1. change = [stage |-> s, research |-> FALSE, scr |-> FALSE, approvedBy |-> "",
                    delivery |-> "unset", outcome |-> FALSE]
      BY <2>2 DEF EmptyChange
    <3>2. change.stage = s
      BY <3>1
    <3> QED
      BY <3>1, <3>2, PastReview DEF Change, DELIVERY, SpecApprovedReached
  <2> QED
    BY <2>1, <2>2 DEF Init
<1>4. TypeOK
  BY <1>1, <1>3, SpecAssumption DEF Init, TypeOK, Act
<1> QED
  BY <1>2, <1>3, <1>4 DEF Init, SpecInv, Attested

(* An act that prepares an attested change of the right type keeps the     *)
(* invariant: the file stays as it was.                                    *)
LEMMA BeginKeeps ==
  ASSUME SpecInv, NEW a \in Surface, NEW name \in Act, NEW c \in Change,
         Blocked /\ name # "force" => Attested(c),
         Begin(a, name, c)
  PROVE  SpecInv'
<1>1. TypeOK'
  BY DEF SpecInv, TypeOK, Begin, fileVars, gateVars
<1>2. Blocked' => Blocked /\ name # "force"
  BY DEF Begin, Blocked, SpecInv, TypeOK
<1>3. Blocked => Attested(change')
  BY DEF SpecInv, Begin, fileVars
<1>4. Blocked /\ name # "force" => \A b \in Surface : Attested(draft'[b])
  BY DEF SpecInv, TypeOK, Begin
<1> QED
  BY <1>1, <1>2, <1>3, <1>4 DEF SpecInv, Attested, SpecApprovedReached, HasApproval

LEMMA SpecInvStep == SpecInv /\ [Next]_vars => SpecInv'
<1> SUFFICES ASSUME SpecInv, [Next]_vars
             PROVE  SpecInv'
  OBVIOUS
<1> DEFINE c == ReadOpenspec
<1>1. c \in Change
  BY ReadType DEF SpecInv
<1>2. Blocked => Attested(c)
  BY ReadAttested DEF SpecInv
<1>3. ASSUME NEW a \in Surface, BeginScr(a)
      PROVE  SpecInv'
  BY <1>1, <1>2, <1>3, WriterTypes, ScrAttested, BeginKeeps DEF BeginScr, Act
<1>4. ASSUME NEW a \in Surface, BeginRatify(a)
      PROVE  SpecInv'
  BY <1>1, <1>4, WriterTypes, WritersAttest, BeginKeeps DEF BeginRatify, Act
<1>5. ASSUME NEW a \in Surface, BeginApprove(a)
      PROVE  SpecInv'
  BY <1>1, <1>5, WriterTypes, WritersAttest, BeginKeeps DEF BeginApprove, Act
<1>6. ASSUME NEW a \in Surface, BeginAutoArchive(a)
      PROVE  SpecInv'
  <2>1. c.stage = "verified"
    BY <1>6 DEF BeginAutoArchive, AutoArchive
  <2> QED
    BY <1>1, <1>2, <1>6, <2>1, WriterTypes, ArchiveAttested, BeginKeeps
    DEF BeginAutoArchive, Act
<1>7. ASSUME NEW a \in Surface, NEW to \in Stage, Advance(a, to)
      PROVE  SpecInv'
  <2>1. Blocked => Attested([c EXCEPT !.stage = to])
    BY <1>1, <1>2, <1>7, AdvanceAttested DEF Advance, Blocked
  <2> QED
    BY <1>1, <1>7, <2>1, WriterTypes, BeginKeeps DEF Advance, Act
<1>8. ASSUME NEW a \in Surface, NEW to \in Stage, ForceStage(a, to)
      PROVE  SpecInv'
  BY <1>1, <1>8, WriterTypes, BeginKeeps DEF ForceStage, Act
<1>9. ASSUME NEW a \in Surface, Write(a) \/ Abandon(a)
      PROVE  SpecInv'
  <2>1. EmptyChange \in Change /\ Attested(EmptyChange)
    BY PastReview DEF EmptyChange, Change, NoStage, Attested, SpecApprovedReached, AtLeast
  <2>2. TypeOK'
    BY <1>9, <2>1 DEF SpecInv, TypeOK, Write, Abandon, Finish, Act, fileVars, gateVars
  <2>3. Blocked => Attested(change')
    BY <1>9 DEF SpecInv, Write, Abandon, fileVars
  <2>4. Blocked => \A b \in Surface : Attested(draft'[b])
    BY <1>9, <2>1 DEF SpecInv, TypeOK, Write, Abandon, Finish
  <2>5. UNCHANGED <<mode, bare>>
    BY <1>9 DEF Write, Abandon
  <2> QED
    BY <2>2, <2>3, <2>4, <2>5 DEF SpecInv, Attested, SpecApprovedReached, HasApproval, Blocked
<1>10. CASE \/ Break \/ Repair \/ LookAbsent \/ LookPresent \/ LookUnparsable
            \/ LookParsed \/ LookDecide \/ UNCHANGED vars
  <2>1. UNCHANGED <<change, draft, act, mode, bare>>
    BY <1>10 DEF Break, Repair, LookAbsent, LookPresent, LookUnparsable, LookParsed,
                 LookDecide, vars, fileVars, actVars
  <2>2. /\ kind' \in {"absent", "parsed", "broken"}
        /\ looking' \in {"no", "present", "parsed"}
        /\ neverRead' \in BOOLEAN
    BY <1>10 DEF SpecInv, TypeOK, Break, Repair, LookAbsent, LookPresent, LookUnparsable,
                 LookParsed, LookDecide, vars, fileVars, gateVars, actVars
  <2>3. verdict' \in {"none", "allow", "waive", "refuse"}
    BY <1>10 DEF SpecInv, TypeOK, Break, Repair, LookAbsent, LookPresent, LookUnparsable,
                 LookParsed, LookDecide, Name, vars, gateVars
  <2> QED
    BY <2>1, <2>2, <2>3
    DEF SpecInv, TypeOK, Attested, SpecApprovedReached, HasApproval, Blocked
<1> QED
  BY <1>3, <1>4, <1>5, <1>6, <1>7, <1>8, <1>9, <1>10 DEF Next

(* SpecInv holds in every reachable state. *)
THEOREM SpecInvariant == Spec => []SpecInv
BY SpecInvInit, SpecInvStep, PTL DEF Spec

(* Every change, draft and answer keeps its type, whatever the acts write. *)
THEOREM SpecTypeCorrect == Spec => []TypeOK
<1>1. SpecInv => TypeOK
  BY DEF SpecInv
<1> QED
  BY <1>1, SpecInvariant, PTL

(* In a program with enforcement "block", until a stage is set past the    *)
(* gates, a change at or past spec-approved has an approved_by, for any     *)
(* number of surfaces and any interleaving of their reads and writes.      *)
THEOREM ReviewIsAttested == Spec => []AttestedPastReview
<1>1. SpecInv => AttestedPastReview
  BY DEF SpecInv, AttestedPastReview, Blocked
<1> QED
  BY <1>1, SpecInvariant, PTL

----------------------------------------------------------------------------
(* What leniency may not waive.  A surface is told "clean" by the archive  *)
(* gate before it prepares its draft, so the approval is in the draft; and *)
(* a consult that never saw the file parse has not come to the question    *)
(* that a mode could waive.                                                *)

NeverReadInv ==
  neverRead => /\ kind = "broken" /\ looking # "parsed"
               /\ looking = "no" => verdict = "refuse"

(* What archives itself carries an approval, or no gate is for it.         *)
Archivable(c) == HasApproval(c) \/ c.research \/ ~Delta

LEMMA CleanArchive ==
  ASSUME NEW c \in Change, AutoArchive(c, DeliveryDefault, ArchiveGate(c, mode, Delta))
  PROVE  Archivable(ApplyAutoArchive(c))
<1>1. /\ ApplyAutoArchive(c).approvedBy = c.approvedBy
      /\ ApplyAutoArchive(c).research = c.research
  BY DEF Change, ApplyAutoArchive
<1>2. ~IsResearch(c) /\ Delta => HasApproval(c)
  BY DEF AutoArchive, ArchiveGate, Decide, Clean, Waived, Refused
<1>3. IsResearch(c) => c.research
  BY DEF AutoArchive, IsResearch
<1> QED
  BY <1>1, <1>2, <1>3 DEF Archivable, HasApproval

LEMMA ArchivesStep ==
  ASSUME TypeOK, AutoArchiveApproved, [Next]_vars
  PROVE  AutoArchiveApproved'
<1> USE DEF AutoArchiveApproved, HasApproval
<1>1. ASSUME NEW a \in Surface, NEW name \in Act \ {"auto-archive"}, NEW c,
             Begin(a, name, c)
      PROVE  AutoArchiveApproved'
  BY <1>1 DEF Begin, TypeOK
<1>2. ASSUME NEW a \in Surface, BeginAutoArchive(a)
      PROVE  AutoArchiveApproved'
  <2> DEFINE c == ReadOpenspec
  <2>1. c \in Change
    BY ReadType
  <2>2. AutoArchive(c, DeliveryDefault, ArchiveGate(c, mode, Delta))
    BY <1>2 DEF BeginAutoArchive
  <2>3. Archivable(ApplyAutoArchive(c))
    BY <2>1, <2>2, CleanArchive
  <2>4. /\ draft' = [draft EXCEPT ![a] = ApplyAutoArchive(c)]
        /\ act' = [act EXCEPT ![a] = "auto-archive"]
    BY <1>2 DEF BeginAutoArchive, Begin
  <2> QED
    BY <2>3, <2>4 DEF TypeOK, Archivable
<1>3. ASSUME NEW a \in Surface, Write(a) \/ Abandon(a)
      PROVE  AutoArchiveApproved'
  BY <1>3 DEF Write, Abandon, Finish, TypeOK
<1>4. CASE UNCHANGED actVars
  BY <1>4 DEF actVars
<1>5. ASSUME NEW a \in Surface, BeginScr(a) \/ BeginRatify(a) \/ BeginApprove(a)
      PROVE  AutoArchiveApproved'
  BY <1>1, <1>5 DEF BeginScr, BeginRatify, BeginApprove, Act
<1>6. ASSUME NEW a \in Surface, NEW to \in Stage, Advance(a, to) \/ ForceStage(a, to)
      PROVE  AutoArchiveApproved'
  BY <1>1, <1>6 DEF Advance, ForceStage, Act
<1>7. CASE \/ Break \/ Repair \/ LookAbsent \/ LookPresent \/ LookUnparsable
           \/ LookParsed \/ LookDecide \/ UNCHANGED vars
  BY <1>4, <1>7 DEF Break, Repair, LookAbsent, LookPresent, LookUnparsable, LookParsed,
                    LookDecide, vars
<1> QED
  BY <1>2, <1>3, <1>5, <1>6, <1>7 DEF Next

LEMMA NeverReadStep ==
  ASSUME NeverReadInv, [Next]_vars
  PROVE  NeverReadInv'
<1> USE DEF NeverReadInv
<1>1. ASSUME NEW a \in Surface, Write(a)
      PROVE  NeverReadInv'
  BY <1>1 DEF Write
<1>2. CASE UNCHANGED <<kind, gateVars>>
  BY <1>2 DEF gateVars
<1>3. ASSUME NEW a \in Surface, NEW name, NEW c, Begin(a, name, c)
      PROVE  NeverReadInv'
  BY <1>2, <1>3 DEF Begin, fileVars
<1>4. ASSUME NEW a \in Surface,
             BeginScr(a) \/ BeginRatify(a) \/ BeginApprove(a) \/ BeginAutoArchive(a)
      PROVE  NeverReadInv'
  BY <1>3, <1>4 DEF BeginScr, BeginRatify, BeginApprove, BeginAutoArchive
<1>5. ASSUME NEW a \in Surface, NEW to \in Stage, Advance(a, to) \/ ForceStage(a, to)
      PROVE  NeverReadInv'
  BY <1>3, <1>5 DEF Advance, ForceStage
<1>6. ASSUME NEW a \in Surface, Abandon(a)
      PROVE  NeverReadInv'
  BY <1>2, <1>6 DEF Abandon, fileVars
<1>7. CASE Break \/ Repair
  BY <1>7 DEF Break, Repair, gateVars
<1>8. CASE LookAbsent \/ LookPresent \/ LookUnparsable \/ LookParsed \/ LookDecide
  BY <1>8 DEF LookAbsent, LookPresent, LookUnparsable, LookParsed, LookDecide, fileVars
<1>9. CASE UNCHANGED vars
  BY <1>2, <1>9 DEF vars, fileVars
<1> QED
  BY <1>1, <1>4, <1>5, <1>6, <1>7, <1>8, <1>9 DEF Next

(* LeniencyHasBounds: in every enforcement mode, for any surfaces that act *)
(* at the same time and any hand edits, a change that archives itself was  *)
(* approved or is one no gate is for, and a file that never parsed during  *)
(* a consult is refused dispatch.                                          *)
THEOREM LeniencyIsBounded == Spec => []LeniencyHasBounds
<1>1. Init => AutoArchiveApproved /\ NeverReadInv
  BY DEF Init, AutoArchiveApproved, NeverReadInv
<1>2. TypeOK /\ AutoArchiveApproved /\ NeverReadInv /\ [Next]_vars
        => (AutoArchiveApproved /\ NeverReadInv)'
  BY ArchivesStep, NeverReadStep
<1>3. AutoArchiveApproved /\ NeverReadInv => LeniencyHasBounds
  BY DEF NeverReadInv, LeniencyHasBounds, UnparsableRefused
<1> QED
  BY <1>1, <1>2, <1>3, SpecTypeCorrect, PTL DEF Spec

(***************************************************************************)
(* What is asked about is an input of its kind.                            *)
(***************************************************************************)
AskTypes ==
  /\ Asks("change") => /\ asked.change \in Change /\ asked.delta \in BOOLEAN
                       /\ asked.jtbd \in BOOLEAN /\ asked.ok \in {"yes", "no", "unknown"}
  /\ Asks("blocks") => asked.org \in PolicyBlock /\ asked.program \in PolicyBlock
  /\ Asks("ladder") => asked.block \in Ladders /\ asked.langs \in Detected
  /\ Asks("policy") => asked.folder \in PolicyFolders /\ asked.selection \in Selections
  /\ Asks("human") => asked.roster \in Rosters
  /\ Asks("cuts") => asked.piles \in Piles
  /\ Asks("lint") => asked.scr \in Requests /\ asked.openspec \in Openspecs
  /\ Asks("report") => asked.report \in Reports
  /\ Asks("payload") => asked.data \in Payloads

LEMMA AskedIsTyped == AskSpec => []AskTypes
<1>1. AskInit => AskTypes
  BY DEF AskInit, Nothing, AskTypes, Asks
<1>2. AskTypes /\ [AskNext]_askVars => AskTypes'
  <2> SUFFICES ASSUME AskTypes, [AskNext]_askVars
               PROVE  AskTypes'
    OBVIOUS
  <2>1. CASE AskChange
    BY <2>1 DEF AskChange, AskTypes, Asks
  <2>2. CASE AskBlocks
    BY <2>2 DEF AskBlocks, AskTypes, Asks
  <2>3. CASE AskCritics
    BY <2>3 DEF AskCritics, AskTypes, Asks
  <2>4. CASE AskLadder
    BY <2>4 DEF AskLadder, AskTypes, Asks
  <2>5. CASE AskReport
    BY <2>5 DEF AskReport, AskTypes, Asks
  <2>6. CASE AskReview
    <3>1. asked'.kind = "review"
      <4>1. PICK b \in ReviewBlocks, t \in MessageTypes, p \in {"urgent", "high", ""} :
                asked' = [kind |-> "review", block |-> b, type |-> t, priority |-> p]
        BY <2>6 DEF AskReview
      <4> QED
        BY <4>1
    <3> QED
      BY <3>1 DEF AskTypes, Asks
  <2>7. CASE AskLint
    BY <2>7 DEF AskLint, AskTypes, Asks
  <2>8. CASE AskPolicy
    BY <2>8 DEF AskPolicy, AskTypes, Asks
  <2>9. CASE AskMerge
    BY <2>9 DEF AskMerge, AskTypes, Asks
  <2>10. CASE AskCuts
    BY <2>10 DEF AskCuts, AskTypes, Asks
  <2>11. CASE AskRoute
    BY <2>11 DEF AskRoute, AskTypes, Asks
  <2>12. CASE AskHuman
    BY <2>12 DEF AskHuman, AskTypes, Asks
  <2>13. CASE UNCHANGED askVars
    <3>1. asked' = asked
      BY <2>13 DEF askVars
    <3> QED
      BY <3>1 DEF AskTypes, Asks
  <2> QED
    BY <2>1, <2>2, <2>3, <2>4, <2>5, <2>6, <2>7, <2>8, <2>9, <2>10, <2>11, <2>12, <2>13
    DEF AskNext
<1> QED
  BY <1>1, <1>2, PTL DEF AskSpec

----------------------------------------------------------------------------
(* The three gates *)

LEMMA WaiverOnly ==
  ASSUME NEW c \in Change, NEW delta \in BOOLEAN, NEW jtbd \in BOOLEAN, NEW ok,
         NEW enf \in ENFORCEMENT \ {"block"}
  PROVE  LET m == MergeGate(c, enf, delta, jtbd, ok)
             b == MergeGate(c, "block", delta, jtbd, ok)
         IN  /\ b.allowed => m = b
             /\ ~b.allowed => m.waived \/ (m = Refused /\ Disagree(c))
             /\ Disagree(c) /\ delta /\ ~IsResearch(c) => m = Refused
<1>1. Refused # Clean /\ Refused # Waived /\ Clean # Waived
  BY DEF Clean, Waived, Refused
<1>2. Clean.allowed /\ ~Clean.waived /\ Waived.allowed /\ Waived.waived
      /\ ~Refused.allowed /\ ~Refused.waived
  BY DEF Clean, Waived, Refused
<1> QED
  BY <1>1, <1>2 DEF MergeGate, Decide

LEMMA CleanCarries ==
  ASSUME NEW c \in Change, NEW delta \in BOOLEAN, NEW jtbd \in BOOLEAN, NEW ok,
         NEW enf \in ENFORCEMENT,
         MergeGate(c, enf, delta, jtbd, ok) = Clean, SpecApprovedReached(c)
  PROVE  DispatchGate(c, enf) = Clean /\ ArchiveGate(c, enf, delta) = Clean
<1>1. Refused # Clean
  BY DEF Clean, Refused
<1> QED
  BY <1>1 DEF MergeGate, DispatchGate, ArchiveGate, Decide, Disagree

LEMMA RatifyFloors ==
  ASSUME NEW c \in Change
  PROVE  LET r == ApplyRatification(c)
         IN  /\ ~IsForward(r.stage, c.stage)
             /\ AtLeast(r.stage, "approved")
             /\ \A enf \in ENFORCEMENT :
                  DispatchGate(r, enf) = Clean => DispatchGate(c, enf) = Clean
<1> DEFINE r == ApplyRatification(c)
<1>1. r = [c EXCEPT !.stage = IF AtLeast(c.stage, "approved") THEN c.stage ELSE "approved",
                    !.approvedBy = "ratify"]
  BY DEF ApplyRatification
<1>2. /\ r.stage = IF AtLeast(c.stage, "approved") THEN c.stage ELSE "approved"
      /\ r.research = c.research
  BY <1>1 DEF Change
<1> HIDE DEF r
<1>3. c.stage \in Stage \cup {NoStage, BadStage}
  BY DEF Change
<1>4. Refused # Clean /\ Waived # Clean
  BY DEF Clean, Waived, Refused
<1>5. CASE AtLeast(c.stage, "approved")
  <2>1. r.stage = c.stage
    BY <1>2, <1>5
  <2>2. ~IsForward(r.stage, c.stage)
    BY <1>3, <2>1, StageOrder DEF IsForward
  <2>3. ASSUME NEW enf \in ENFORCEMENT
        PROVE  DispatchGate(r, enf) = DispatchGate(c, enf)
    BY <1>2, <2>1 DEF DispatchGate, IsResearch, SpecApprovedReached
  <2> QED
    BY <1>5, <2>1, <2>2, <2>3 DEF r
<1>6. CASE ~AtLeast(c.stage, "approved")
  <2>1. r.stage = "approved"
    BY <1>2, <1>6
  <2>2. "approved" \in Stage /\ StageIndex("approved") = 3 /\ StageIndex("spec-approved") = 5
    BY StageOrder
  <2>3. ~IsForward(r.stage, c.stage)
    BY <1>3, <1>6, <2>1, <2>2, StageOrder DEF IsForward, AtLeast
  <2>4. ~AtLeast("approved", "spec-approved")
    BY <2>2 DEF AtLeast
  <2>5. ASSUME NEW enf \in ENFORCEMENT, DispatchGate(r, enf) = Clean
        PROVE  DispatchGate(c, enf) = Clean
    <3>1. IsResearch(r)
      BY <1>4, <2>1, <2>4, <2>5 DEF DispatchGate, Decide, SpecApprovedReached
    <3>2. c.research
      BY <1>2, <2>1, <3>1 DEF IsResearch
    <3> QED
      BY <3>2 DEF DispatchGate, IsResearch
  <2>6. AtLeast(r.stage, "approved")
    BY <2>1, <2>2 DEF AtLeast
  <2> QED
    BY <2>3, <2>5, <2>6 DEF r
<1> QED
  BY <1>5, <1>6

LEMMA ApprovalOpens ==
  ASSUME NEW c \in Change, ValidSpecApproval(c, TRUE), NEW enf \in ENFORCEMENT,
         NEW delta \in BOOLEAN, NEW jtbd \in BOOLEAN, NEW ok
  PROVE  LET a == ApplySpecApproved(c)
         IN  /\ DispatchGate(a, enf) = Clean /\ ArchiveGate(a, enf, delta) = Clean
             /\ MergeGate(a, enf, delta, jtbd, ok) = Clean \/ OutcomeViolated(a, jtbd, ok)
<1> DEFINE a == ApplySpecApproved(c)
<1>1. a.stage = "spec-approved" /\ a.approvedBy = "spec-approve"
  BY DEF ApplySpecApproved, Change
<1> HIDE DEF a
<1>2. SpecApprovedReached(a) /\ HasApproval(a)
  BY <1>1, StageOrder DEF SpecApprovedReached, AtLeast, HasApproval
<1>3. ~Disagree(a)
  BY <1>2 DEF Disagree
<1> QED
  BY <1>2, <1>3 DEF a, DispatchGate, ArchiveGate, MergeGate, Decide

LEMMA AutoArchiveSame ==
  ASSUME NEW c \in Change, NEW delta \in BOOLEAN, NEW default, NEW enf \in ENFORCEMENT
  PROVE  AutoArchive(c, default, ArchiveGate(c, enf, delta))
           <=> AutoArchive(c, default, ArchiveGate(c, "block", delta))
<1>1. Clean.allowed /\ ~Clean.waived /\ Waived.allowed /\ Waived.waived
      /\ ~Refused.allowed /\ ~Refused.waived
  BY DEF Clean, Waived, Refused
<1> QED
  BY <1>1 DEF AutoArchive, ArchiveGate, Decide

(* The three gates of a change (check_merge_gate, check_dispatch_gate,     *)
(* check_archive_gate) and its writers judge it alike, whatever the change *)
(* and the mode.                                                           *)
THEOREM GatesStayAgreed == AskSpec => []GatesAgree
<1>1. ASSUME AskTypes
      PROVE  GatesAgree
  <2>1. ModeOnlyWaives
    <3> SUFFICES ASSUME Asks("change"), NEW mode_1 \in ENFORCEMENT \ {"block"}
                 PROVE  LET m == Merge(mode_1)
                            b == Merge("block")
                        IN  /\ b.allowed => m = b
                            /\ ~b.allowed => m.waived \/ (m = Refused /\ Disagree(asked.change))
                            /\ Disagree(asked.change) /\ asked.delta /\ ~IsResearch(asked.change)
                                 => m = Refused
      BY DEF ModeOnlyWaives
    <3> QED
      BY <1>1, WaiverOnly DEF AskTypes, Merge
  <2>2. CleanMergeCarriesOn
    BY <1>1, CleanCarries DEF AskTypes, CleanMergeCarriesOn, Merge, Dispatch, Archive
  <2>3. RatifyIsFloor
    BY <1>1, RatifyFloors DEF AskTypes, RatifyIsFloor, Dispatch
  <2>4. ApprovalOpensGates
    BY <1>1, ApprovalOpens DEF AskTypes, ApprovalOpensGates, Dispatch, Archive
  <2>5. AutoArchiveIgnoresMode
    BY <1>1, AutoArchiveSame DEF AskTypes, AutoArchiveIgnoresMode, Archive
  <2> QED
    BY <2>1, <2>2, <2>3, <2>4, <2>5 DEF GatesAgree
<1> QED
  BY <1>1, AskedIsTyped, PTL

----------------------------------------------------------------------------
(* The levels of a spec_policy *)

LEMMA LevelOrder ==
  /\ ToSet(LEVELS) = {"spec-first", "solutions", "outcomes", "verified"}
  /\ LevelIndex("spec-first") = 1 /\ LevelIndex("solutions") = 2
  /\ LevelIndex("outcomes") = 3 /\ LevelIndex("verified") = 4
<1>1. /\ DOMAIN LEVELS = 1..4 /\ Len(LEVELS) = 4
      /\ LEVELS[1] = "spec-first" /\ LEVELS[2] = "solutions"
      /\ LEVELS[3] = "outcomes" /\ LEVELS[4] = "verified"
  BY DEF LEVELS
<1>2. ToSet(LEVELS) = {"spec-first", "solutions", "outcomes", "verified"}
  BY <1>1 DEF ToSet
<1>3. ASSUME NEW i \in 1..4
      PROVE  LevelIndex(LEVELS[i]) = i
  <2>1. \A j \in 1..4 : LEVELS[j] = LEVELS[i] => j = i
    BY <1>1
  <2> QED
    BY <1>1, <2>1 DEF LevelIndex
<1> QED
  BY <1>1, <1>2, <1>3

LEMMA LevelsAdd == AskTypes => LevelsOnlyAdd
<1> SUFFICES ASSUME AskTypes, Asks("blocks")
             PROVE  LET l == ResolvePolicy(asked.org, asked.program).level
                    IN  \A m \in ToSet(LEVELS), trigger \in BOOLEAN :
                          /\ LevelIndex(l) <= LevelIndex(m) /\ SolutionsRequired(l, trigger)
                               => SolutionsRequired(m, trigger)
                          /\ ~SolutionsRequired("spec-first", trigger)
  BY DEF LevelsOnlyAdd
<1> DEFINE l == ResolvePolicy(asked.org, asked.program).level
<1>1. l \in ToSet(LEVELS)
  BY LevelOrder DEF ResolvePolicy, Valid
<1> HIDE DEF l
<1> SUFFICES ASSUME NEW m \in ToSet(LEVELS), NEW trigger \in BOOLEAN
             PROVE  /\ LevelIndex(l) <= LevelIndex(m) /\ SolutionsRequired(l, trigger)
                         => SolutionsRequired(m, trigger)
                    /\ ~SolutionsRequired("spec-first", trigger)
  BY DEF l
<1> QED
  BY <1>1, LevelOrder DEF SolutionsRequired

LEMMA SilenceInherits == SilentKeyInherits
BY DEF SilentKeyInherits, ResolvePolicy, Override, MergedLevel

----------------------------------------------------------------------------

(***************************************************************************)
(* A selection, part by part: what the first and the last policy pick.     *)
(***************************************************************************)
FirstRun(config, ctx) ==
  RunPolicy(FirstPolicy(config, ctx), config, ctx, TargetRole(config, ctx))
FellBack(config, ctx) ==
  Independent(FirstRun(config, ctx).picked, ctx) = {} /\ config.fallback # Absent
LastPolicy(config, ctx) ==
  IF FellBack(config, ctx) THEN config.fallback ELSE FirstPolicy(config, ctx)
LastRun(config, ctx) == RunPolicy(LastPolicy(config, ctx), config, ctx, TargetRole(config, ctx))
Kept(config, ctx) == Independent(LastRun(config, ctx).picked, ctx)
ClearedOf(config, ctx) ==
  IF ctx.sensitivity = Absent THEN Kept(config, ctx)
  ELSE Kept(config, ctx) \cap ClearedFor(config, ctx.sensitivity)

LEMMA SelectionByParts ==
  ASSUME NEW config, NEW ctx
  PROVE  /\ SelectCritics(config, ctx).policy = LastPolicy(config, ctx)
         /\ SelectCritics(config, ctx).critics = ClearedOf(config, ctx)
         /\ SelectCritics(config, ctx).dropped_uncleared
              = Kept(config, ctx) \ ClearedOf(config, ctx)
         /\ SelectCritics(config, ctx).excluded_proposer
              = ExcludedProposer(FirstRun(config, ctx), LastRun(config, ctx), ctx)
         /\ SelectCritics(config, ctx).could_not_evaluate
              = IF ClearedOf(config, ctx) = {} THEN LastRun(config, ctx).missing ELSE {}
<1>1. SelectCritics(config, ctx) =
        [policy |-> LastPolicy(config, ctx), critics |-> ClearedOf(config, ctx),
         fell_back |-> FellBack(config, ctx),
         sensitivity_override |-> Overridden(config, ctx),
         dropped_uncleared |-> Kept(config, ctx) \ ClearedOf(config, ctx),
         excluded_proposer |-> ExcludedProposer(FirstRun(config, ctx), LastRun(config, ctx), ctx),
         could_not_evaluate |->
           IF ClearedOf(config, ctx) = {} THEN LastRun(config, ctx).missing ELSE {}]
  BY Zenon DEF SelectCritics, LastPolicy, FellBack, LastRun, FirstRun, Kept, ClearedOf
<1> QED
  BY <1>1

LEMMA ChosenAreSound == IndependentAndCleared /\ PickedAreAccountedFor
<1> DEFINE config == asked.config
           ctx == asked.ctx
           result == SelectCritics(config, ctx)
           picked == LastRun(config, ctx).picked
           cleared == ClearedOf(config, ctx)
           rest == picked \ (result.critics \cup result.dropped_uncleared)
<1>1. /\ result.critics = cleared
      /\ result.dropped_uncleared = Kept(config, ctx) \ cleared
      /\ result.excluded_proposer
           = ExcludedProposer(FirstRun(config, ctx), LastRun(config, ctx), ctx)
      /\ result.policy = LastPolicy(config, ctx)
  BY SelectionByParts
<1>2. /\ Kept(config, ctx) = picked \ {ctx.proposer}
      /\ cleared \subseteq Kept(config, ctx)
      /\ ctx.sensitivity # Absent => cleared \subseteq ClearedFor(config, ctx.sensitivity)
  BY DEF Kept, Independent, ClearedOf
<1>3. ctx.proposer \in picked => result.excluded_proposer
  BY <1>1 DEF ExcludedProposer
<1>4. RunPolicy(result.policy, config, ctx, TargetRole(config, ctx)).picked = picked
  BY <1>1 DEF LastRun
<1> HIDE DEF result, picked, cleared
<1>5. rest \subseteq {ctx.proposer} /\ (rest # {} => result.excluded_proposer)
  BY <1>1, <1>2, <1>3
<1>6. result.critics \cup result.dropped_uncleared \subseteq picked
  BY <1>1, <1>2
<1>7. IndependentAndCleared
  BY <1>1, <1>2 DEF IndependentAndCleared, result
<1>8. PickedAreAccountedFor
  BY <1>4, <1>5, <1>6, Zenon DEF PickedAreAccountedFor, result
<1> QED
  BY <1>7, <1>8

LEMMA CompleteSelects == CompleteConfigSelects
<1> DEFINE config == asked.config
           ctx == asked.ctx
           role == TargetRole(config, ctx)
           result == SelectCritics(config, ctx)
           others == WithRole(config.roles, config.target_role) \ {ctx.proposer}
<1> SUFFICES ASSUME Selects
             PROVE  /\ result.could_not_evaluate = {}
                    /\ (/\ ctx.sensitivity = Absent /\ DOMAIN ctx.agent_roles = {}
                        /\ ctx.target_role = Absent /\ others # {})
                         => result.critics # {}
  BY Zenon DEF CompleteConfigSelects
<1>1. /\ config.primary \in POLICIES /\ config.fallback \in POLICIES \cup {Absent}
      /\ Range(config.overrides) \subseteq POLICIES
      /\ config.target_role # "" /\ "role-based" \in {config.primary, config.fallback}
      /\ DOMAIN config.roles # {} /\ config.target_role # Absent
  BY DEF Selects, VerificationGatesError, NamesPolicies, IncompletePairing
<1>2. role # Absent
  BY <1>1 DEF TargetRole
<1>3. DOMAIN EffectiveRoles(config, ctx) # {}
  BY <1>1 DEF EffectiveRoles
<1>4. ASSUME NEW p
      PROVE  RunPolicy(p, config, ctx, role).missing = {}
  BY <1>2, <1>3 DEF RunPolicy
<1>5. result.could_not_evaluate = {}
  <2>1. LastRun(config, ctx).missing = {}
    BY <1>4 DEF LastRun
  <2> QED
    BY <2>1, SelectionByParts
<1>6. ASSUME ctx.sensitivity = Absent, DOMAIN ctx.agent_roles = {}, ctx.target_role = Absent,
             others # {}
      PROVE  result.critics # {}
  <2>1. result.critics = Kept(config, ctx)
    BY <1>6, SelectionByParts DEF ClearedOf
  <2>2. RunPolicy("role-based", config, ctx, role).picked
          = WithRole(config.roles, config.target_role)
    <3>1. EffectiveRoles(config, ctx) = config.roles /\ role = config.target_role
      BY <1>6 DEF EffectiveRoles, TargetRole
    <3> QED
      BY <1>1, <3>1 DEF RunPolicy
  <2>3. FirstPolicy(config, ctx) = config.primary
    BY <1>6 DEF FirstPolicy, Overridden
  <2>4. "role-based" # Absent
    BY DEF Absent
  <2> HIDE DEF result
  <2>5. CASE LastPolicy(config, ctx) = "role-based"
    <3>1. Kept(config, ctx) = others
      BY <2>2, <2>5 DEF Kept, Independent, LastRun
    <3> QED
      BY <1>6, <2>1, <3>1
  <2>6. CASE LastPolicy(config, ctx) # "role-based"
    <3>1. ~FellBack(config, ctx)
      <4>1. CASE config.primary = "role-based"
        <5>1. Independent(FirstRun(config, ctx).picked, ctx) = others
          BY <2>2, <2>3, <4>1 DEF FirstRun, Independent
        <5> QED
          BY <1>6, <5>1 DEF FellBack
      <4>2. CASE config.fallback = "role-based"
        BY <2>6, <4>2 DEF LastPolicy
      <4> QED
        BY <1>1, <4>1, <4>2
    <3>2. config.primary # "role-based"
      BY <2>3, <2>6, <3>1 DEF LastPolicy
    <3>3. config.fallback # Absent
      BY <1>1, <2>4, <3>2
    <3>4. LastRun(config, ctx) = FirstRun(config, ctx)
      BY <3>1 DEF LastRun, LastPolicy, FirstRun
    <3>5. Kept(config, ctx) # {}
      BY <3>1, <3>3, <3>4 DEF FellBack, Kept
    <3> QED
      BY <2>1, <3>5
  <2> QED
    BY <2>5, <2>6
<1> QED
  BY <1>5, <1>6

(* select_critics: whatever the configuration and the context, proposer and *)
(* uncleared are out and accounted for, and a complete hook finds somebody. *)
THEOREM SelectionStaysSound == AskSpec => []SelectionIsSound
<1>1. SelectionIsSound
  BY ChosenAreSound, CompleteSelects DEF SelectionIsSound
<1> QED
  BY <1>1, PTL

----------------------------------------------------------------------------
(* The guard of model calls *)

(* guard_route: guarded content passes only on a route declared local,     *)
(* whatever the router, the agents and the classes of the content.         *)
THEOREM GuardAlwaysKeepsLocal == AskSpec => []GuardKeepsLocal
<1>1. GuardKeepsLocal
  <2> DEFINE route == EffectiveRoute(asked.agents, "agent")
             target == Resolve(SelectBackend(asked.router), route)
  <2> SUFFICES ASSUME ~RouteError(route), ~GuardRefuses(asked.router, target, asked.classes),
                      asked.router.declared, asked.router.local_only \cap asked.classes # {}
               PROVE  route.form = "mapping" /\ route.local
    BY Zenon DEF GuardKeepsLocal
  <2>1. LocalOnly(asked.router) \cap asked.classes # {}
    BY DEF LocalOnly
  <2>2. target.local
    BY <2>1 DEF GuardRefuses, RouteLeavesTenant
  <2>3. target.local = IsLocal(route)
    BY Zenon DEF Resolve
  <2> QED
    BY <2>2, <2>3 DEF IsLocal
<1> QED
  BY <1>1, PTL

----------------------------------------------------------------------------
(* What a pull request owes *)

LEMMA RefusalStays == RefusalSticks
<1> DEFINE judged(paths) == Evaluate(paths, TRUE, asked.pr, asked.exempt)
           code(paths) == ExitCode(TRUE, judged(paths))
<1>1. ASSUME NEW paths
      PROVE  /\ code(paths) \in {0, 3}
             /\ code(paths) = 0 <=> (Shipped(paths) = {} \/ Fragments(paths) # {} \/ asked.exempt)
  <2> DEFINE lets == Shipped(paths) = {} \/ Fragments(paths) # {} \/ asked.exempt
  <2>1. (lets => judged(paths).ok) /\ (~lets => ~judged(paths).ok)
    BY Zenon DEF Evaluate, TouchesCode
  <2>2. (judged(paths).ok => code(paths) = 0) /\ (~judged(paths).ok => code(paths) = 3)
    BY Zenon DEF ExitCode
  <2> HIDE DEF judged, code
  <2> QED
    BY <2>1, <2>2
<1>2. ASSUME NEW paths, NEW p, ~IsFragment(p)
      PROVE  /\ Fragments(paths \cup {p}) = Fragments(paths)
             /\ Shipped(paths) \subseteq Shipped(paths \cup {p})
  BY <1>2 DEF Fragments, Shipped
<1> HIDE DEF judged, code
<1>3. ASSUME code(asked.paths) = 3, ~IsFragment(asked.more)
      PROVE  code(asked.paths \cup {asked.more}) = 3
  <2>1. Shipped(asked.paths) # {} /\ Fragments(asked.paths) = {} /\ ~asked.exempt
    BY <1>1, <1>3
  <2> QED
    BY <1>1, <1>2, <1>3, <2>1
<1>4. ASSUME code(asked.paths) = 0, Shipped(asked.paths) # {}
      PROVE  asked.exempt \/ Fragments(asked.paths) # {}
  BY <1>1, <1>4
<1> QED
  BY <1>3, <1>4, Zenon DEF RefusalSticks, code, judged

----------------------------------------------------------------------------
(* Numbers: the least of a set, the greatest of finitely many              *)

LEMMA LeastIsLeast ==
  ASSUME NEW set \in SUBSET Nat, set # {}
  PROVE  Min(set) \in set /\ \A y \in set : Min(set) <= y
<1>1. \E x \in set : \A y \in set : x <= y
  <2>1. \E x \in set : \A y \in set : ~(<<y, x>> \in OpToRel(<, Nat))
    BY NatLessThanWellFounded, WFMin
  <2>2. \A y, z \in Nat : y < z => <<y, z>> \in OpToRel(<, Nat)
    BY DEF OpToRel
  <2>3. PICK x \in set : \A y \in set : ~(<<y, x>> \in OpToRel(<, Nat))
    BY <2>1
  <2>4. ASSUME NEW y \in set PROVE x <= y
    <3>1. x \in Nat /\ y \in Nat /\ ~(y < x)
      BY <2>2, <2>3, Zenon
    <3> QED
      BY ONLY <3>1
  <2> QED
    BY <2>4
<1> QED
  BY <1>1 DEF Min

----------------------------------------------------------------------------
(* The roster of humans                                                    *)

LEMMA PlacesAreNumbers == \A n \in Nat : 1..n \subseteq Nat
OBVIOUS

LEMMA OneFits ==
  ASSUME NEW roster, roster \in Seq(ToSet(roster)), NEW human, NEW e \in ToSet(roster),
         human # "", human \in IdentityCandidates(e),
         \A d \in ToSet(roster) : human \in IdentityCandidates(d) => d = e
  PROVE  ResolveRosterHuman(roster, human) = {e}
<1> DEFINE fits == {i \in DOMAIN roster : human \in IdentityCandidates(roster[i])}
<1>1. DOMAIN roster = 1..Len(roster)
  BY LenProperties
<1>2. PICK i \in DOMAIN roster : roster[i] = e
  BY DEF ToSet
<1>3. fits # {} /\ fits \in SUBSET Nat
  <2>1. i \in fits
    <3>1. human \in IdentityCandidates(roster[i])
      BY <1>2
    <3> QED
      BY <3>1
  <2>2. DOMAIN roster \subseteq Nat
    <3>1. Len(roster) \in Nat
      BY LenProperties
    <3> QED
      BY <1>1, <3>1, PlacesAreNumbers
  <2> QED
    BY <2>1, <2>2
<1>4. Min(fits) \in fits
  BY <1>3, LeastIsLeast, Zenon
<1>5. roster[Min(fits)] = e
  BY <1>4 DEF ToSet
<1> QED
  BY <1>3, <1>5 DEF ResolveRosterHuman

LEMMA FormsResolve ==
  ASSUME Asks("human") => asked.roster \in Rosters
  PROVE  FormsAgree
<1> DEFINE roster == asked.roster
           people == ToSet(roster)
           forms(e) == ({e.name, SlugOf[e.name]}
                          \cup (IF e.email = "" THEN {} ELSE {e.email, LocalOf[e.email]})) \ {""}
           distinct == \A d, e \in people : d # e => forms(d) \cap forms(e) = {}
<1> SUFFICES ASSUME Asks("human"), ~ConfigError(roster), distinct
             PROVE  /\ \A e \in people : \A f \in forms(e) :
                         /\ ResolveRosterHuman(roster, f) = {e}
                         /\ ConfigDirByRoster(asked.accounts, roster, f)
                              = ConfigDirByRoster(asked.accounts, roster, e.name)
                    /\ (\A found \in ApproverFindings(roster, TRUE) : found[1] # "error")
                         => \E e \in people : \E f \in forms(e) : ResolveApprover(roster, f) # {}
  BY Zenon DEF FormsAgree
<1>1. roster \in Seq(people)
  BY AskAssumption DEF IsList
<1>2. ASSUME NEW e
      PROVE  forms(e) = IdentityCandidates(e)
  BY DEF IdentityCandidates
<1> HIDE DEF forms
<1>3. ASSUME NEW e \in people, NEW f \in forms(e)
      PROVE  ResolveRosterHuman(roster, f) = {e}
  <2>1. f # "" /\ f \in IdentityCandidates(e)
    BY <1>2 DEF IdentityCandidates
  <2>2. \A d \in people : f \in IdentityCandidates(d) => d = e
    BY <1>2, <2>1
  <2> QED
    BY <1>1, <2>1, <2>2, OneFits
<1>4. ASSUME NEW e \in people
      PROVE  e.name \in forms(e)
  <2>1. e.name # ""
    BY DEF ConfigError
  <2> QED
    BY <2>1 DEF forms
<1>5. ASSUME NEW e \in people, NEW f \in forms(e)
      PROVE  ConfigDirByRoster(asked.accounts, roster, f)
               = ConfigDirByRoster(asked.accounts, roster, e.name)
  <2>1. ResolveRosterHuman(roster, f) = ResolveRosterHuman(roster, e.name)
    BY <1>3, <1>4
  <2> QED
    BY <2>1, Zenon DEF ConfigDirByRoster
<1>6. ASSUME \A found \in ApproverFindings(roster, TRUE) : found[1] # "error"
      PROVE  \E e \in people : \E f \in forms(e) : ResolveApprover(roster, f) # {}
  <2>1. PICK e \in people : IsApprover(e)
    <3>1. CASE {e \in people : IsApprover(e)} = {}
      <4>1. <<"error", "">> \in ApproverFindings(roster, TRUE)
        BY <3>1 DEF ApproverFindings
      <4> QED
        BY <1>6, <4>1
    <3> QED
      BY <3>1
  <2>2. e \in ResolveApprover(roster, e.name)
    BY <1>3, <1>4, <2>1 DEF ResolveApprover
  <2> QED
    BY <1>4, <2>2
<1> QED
  BY <1>3, <1>5, <1>6

(* resolve_roster_human and resolve_human_config_dir: where no two humans  *)
(* share an identity, every form of one resolves to that one, whatever the *)
(* length of the roster.                                                   *)
THEOREM FormsStayOne == AskSpec => []FormsAgree
<1>1. AskTypes => FormsAgree
  BY FormsResolve, Zenon DEF AskTypes
<1> QED
  BY <1>1, AskedIsTyped, PTL

----------------------------------------------------------------------------
(***************************************************************************)
(* The policy packs                                                        *)
(***************************************************************************)
ProgramPolicy(selection) == IF selection.program = "" THEN "standard" ELSE selection.program

LEMMA ThreePlaces == 1..3 = {1, 2, 3}
OBVIOUS

LEMMA PairParts ==
  ASSUME NEW a, NEW b, NEW pair, pair = <<a, b>>
  PROVE  pair[1] = a /\ pair[2] = b
OBVIOUS

LEMMA Layering ==
  ASSUME NEW selection
  PROVE  LET names == SelectPolicyNames(selection)
         IN  /\ DOMAIN names \subseteq {1, 2, 3} /\ 1 \in DOMAIN names
             /\ selection["repo"] # "" <=> 2 \in DOMAIN names
             /\ selection["agent"] # "" <=> 3 \in DOMAIN names
             /\ names[1][1] = "program" /\ names[1][2] = ProgramPolicy(selection)
             /\ 2 \in DOMAIN names => names[2][1] = "repo" /\ names[2][2] = selection["repo"]
             /\ 3 \in DOMAIN names => names[3][1] = "agent" /\ names[3][2] = selection["agent"]
<1> DEFINE names == SelectPolicyNames(selection)
           name(i) == selection[POLICY_LAYERS[i]]
<1>1. POLICY_LAYERS[1] = "program" /\ POLICY_LAYERS[2] = "repo" /\ POLICY_LAYERS[3] = "agent"
  BY DEF POLICY_LAYERS
<1>2. DOMAIN names = {i \in 1..3 : i = 1 \/ name(i) # ""}
  BY DEF SelectPolicyNames
<1>3. ASSUME NEW i \in DOMAIN names
      PROVE  /\ names[i][1] = POLICY_LAYERS[i]
             /\ names[i][2] = IF name(i) = "" THEN "standard" ELSE name(i)
  <2>1. names[i] = <<POLICY_LAYERS[i], IF name(i) = "" THEN "standard" ELSE name(i)>>
    BY Zenon DEF SelectPolicyNames
  <2> DEFINE a == POLICY_LAYERS[i]
             b == IF name(i) = "" THEN "standard" ELSE name(i)
  <2> HIDE DEF names, a, b
  <2>2. names[i][1] = a /\ names[i][2] = b
    <3>1. names[i] = <<a, b>>
      BY <2>1, Zenon DEF a, b
    <3> QED
      BY <3>1, PairParts, Zenon
  <2> QED
    BY <2>2 DEF a, b
<1> HIDE DEF names
<1>4. /\ DOMAIN names \subseteq {1, 2, 3} /\ 1 \in DOMAIN names
      /\ selection["repo"] # "" <=> 2 \in DOMAIN names
      /\ selection["agent"] # "" <=> 3 \in DOMAIN names
  BY <1>1, <1>2, ThreePlaces
<1>5. names[1][1] = "program" /\ names[1][2] = ProgramPolicy(selection)
  BY <1>1, <1>3, <1>4, Zenon DEF ProgramPolicy
<1>6. 2 \in DOMAIN names => names[2][1] = "repo" /\ names[2][2] = selection["repo"]
  BY <1>1, <1>3, <1>4
<1>7. 3 \in DOMAIN names => names[3][1] = "agent" /\ names[3][2] = selection["agent"]
  BY <1>1, <1>3, <1>4
<1> QED
  BY <1>4, <1>5, <1>6, <1>7 DEF names

(* the layers of a selection, as EffectivePolicy composes them *)
Layers(folder, selection) ==
  [i \in DOMAIN SelectPolicyNames(selection) |->
     <<SelectPolicyNames(selection)[i][1],
       LoadedRules(folder, SelectPolicyNames(selection)[i][2])>>]

LEMMA LayersOf ==
  ASSUME NEW folder, NEW selection
  PROVE  LET layers == Layers(folder, selection)
         IN  /\ DOMAIN layers = DOMAIN SelectPolicyNames(selection)
             /\ DOMAIN layers \subseteq {1, 2, 3} /\ 1 \in DOMAIN layers
             /\ selection["repo"] # "" <=> 2 \in DOMAIN layers
             /\ selection["agent"] # "" <=> 3 \in DOMAIN layers
             /\ layers[1] = <<"program", LoadedRules(folder, ProgramPolicy(selection))>>
             /\ 2 \in DOMAIN layers =>
                  layers[2] = <<"repo", LoadedRules(folder, selection["repo"])>>
             /\ 3 \in DOMAIN layers =>
                  layers[3] = <<"agent", LoadedRules(folder, selection["agent"])>>
<1> DEFINE names == SelectPolicyNames(selection)
           layers == Layers(folder, selection)
<1>1. DOMAIN layers = DOMAIN names
  BY DEF Layers
<1>2. ASSUME NEW i \in DOMAIN names
      PROVE  layers[i] = <<names[i][1], LoadedRules(folder, names[i][2])>>
  BY Zenon DEF Layers
<1>3. /\ DOMAIN names \subseteq {1, 2, 3} /\ 1 \in DOMAIN names
      /\ selection["repo"] # "" <=> 2 \in DOMAIN names
      /\ selection["agent"] # "" <=> 3 \in DOMAIN names
      /\ names[1][1] = "program" /\ names[1][2] = ProgramPolicy(selection)
      /\ 2 \in DOMAIN names => names[2][1] = "repo" /\ names[2][2] = selection["repo"]
      /\ 3 \in DOMAIN names => names[3][1] = "agent" /\ names[3][2] = selection["agent"]
  BY Layering, Zenon
<1> HIDE DEF names, layers
<1>4. layers[1] = <<"program", LoadedRules(folder, ProgramPolicy(selection))>>
  BY <1>2, <1>3, Zenon
<1>5. 2 \in DOMAIN layers => layers[2] = <<"repo", LoadedRules(folder, selection["repo"])>>
  BY <1>1, <1>2, <1>3, Zenon
<1>6. 3 \in DOMAIN layers => layers[3] = <<"agent", LoadedRules(folder, selection["agent"])>>
  BY <1>1, <1>2, <1>3, Zenon
<1> QED
  BY <1>1, <1>3, <1>4, <1>5, <1>6, Zenon DEF names, layers

ComposedRules(layers, narrow) ==
  [rule \in UNION {DOMAIN layers[i][2] : i \in DOMAIN layers} |->
     ComposedValue(layers, narrow, rule)]

LEMMA EffectiveByParts ==
  ASSUME NEW folder, NEW selection
  PROVE  LET policy == EffectivePolicy(folder, "git", selection)
             layers == Layers(folder, selection)
             narrow == EffectiveNarrowOnly(folder, "git")
         IN  \/ ~policy.ok /\ DOMAIN policy.rules = {}
             \/ /\ policy.ok
                /\ policy.violations = LooseningViolations(layers, narrow)
                /\ policy.rules = ComposedRules(layers, narrow)
<1> DEFINE layers == Layers(folder, selection)
           narrow == EffectiveNarrowOnly(folder, "git")
           policy == [ok |-> TRUE, violations |-> LooseningViolations(layers, narrow),
                      rules |-> ComposedRules(layers, narrow)]
<1>1. \/ EffectivePolicy(folder, "git", selection) = PolicyError
      \/ EffectivePolicy(folder, "git", selection) = policy
  BY Zenon DEF EffectivePolicy, Layers, ComposedRules
<1>2. ~PolicyError.ok /\ DOMAIN PolicyError.rules = {}
  BY DEF PolicyError
<1>3. /\ policy.ok /\ policy.violations = LooseningViolations(layers, narrow)
      /\ policy.rules = ComposedRules(layers, narrow)
  OBVIOUS
<1> HIDE DEF policy
<1> QED
  BY <1>1, <1>2, <1>3

LEMMA GreatestIsIn ==
  ASSUME NEW set \in SUBSET {1, 2, 3}, set # {}
  PROVE  Max(set) \in set
<1>1. \E x \in set : \A y \in set : x >= y
  <2>1. CASE 3 \in set
    BY <2>1
  <2>2. CASE 3 \notin set /\ 2 \in set
    <3>1. set \subseteq {1, 2}
      BY <2>2
    <3>2. \A y \in set : 2 >= y
      BY <3>1
    <3> QED
      BY <2>2, <3>2
  <2>3. CASE 3 \notin set /\ 2 \notin set
    <3>1. set = {1}
      BY <2>3
    <3> QED
      BY <3>1
  <2> QED
    BY <2>1, <2>2, <2>3
<1> QED
  BY <1>1 DEF Max

LEMMA SomeLayerSays ==
  ASSUME NEW layers, DOMAIN layers \subseteq {1, 2, 3}, NEW narrow,
         NEW rule \in UNION {DOMAIN layers[i][2] : i \in DOMAIN layers},
         ComposedValue(layers, narrow, rule) = "true"
  PROVE  \E i \in Saying(layers, rule) : layers[i][2][rule] = "true"
<1>1. Saying(layers, rule) \in SUBSET {1, 2, 3} /\ Saying(layers, rule) # {}
  BY DEF Saying
<1>2. Max(Saying(layers, rule)) \in Saying(layers, rule)
  BY <1>1, GreatestIsIn
<1>3. CASE rule \in narrow
  BY <1>3 DEF ComposedValue
<1>4. CASE rule \notin narrow
  BY <1>2, <1>4 DEF ComposedValue
<1> QED
  BY <1>3, <1>4

LEMMA IndexAdds ==
  ASSUME Asks("policy") => asked.folder \in PolicyFolders /\ asked.selection \in Selections
  PROVE  IndexOnlyAdds
<1> DEFINE folder == asked.folder
           bare_1 == [folder EXCEPT !.narrow_only = {}]
           selection == asked.selection
           with == EffectivePolicy(folder, "git", selection)
           without == EffectivePolicy(bare_1, "git", selection)
           own == folder.narrow_only
           layers == Layers(folder, selection)
<1> SUFFICES ASSUME Asks("policy"), with.ok, without.ok,
                    NEW rule \in (DOMAIN without.rules) \cap (GIT_PACK_NARROW_ONLY \cup own),
                    without.rules[rule] = "true"
             PROVE  with.rules[rule] = "true"
  BY Zenon DEF IndexOnlyAdds
<1>1. bare_1.files = folder.files /\ bare_1.narrow_only = {}
  <2>1. folder = [index_ok |-> folder.index_ok, narrow_only |-> folder.narrow_only,
                  files |-> folder.files]
    BY AskAssumption
  <2> QED
    BY <2>1
<1> HIDE DEF bare_1
<1>2. Layers(bare_1, selection) = layers
  BY <1>1, Zenon DEF Layers, LoadedRules
<1>3. DOMAIN layers \subseteq {1, 2, 3}
  BY LayersOf, Zenon
<1>4. without.rules = ComposedRules(layers, GIT_PACK_NARROW_ONLY)
  <2>1. EffectiveNarrowOnly(bare_1, "git") = GIT_PACK_NARROW_ONLY
    BY <1>1 DEF EffectiveNarrowOnly, ShippedNarrowOnly
  <2> QED
    BY <1>2, <2>1, EffectiveByParts, Zenon
<1>5. with.rules = ComposedRules(layers, GIT_PACK_NARROW_ONLY \cup own)
  <2>1. EffectiveNarrowOnly(folder, "git") = GIT_PACK_NARROW_ONLY \cup own
    BY DEF EffectiveNarrowOnly, ShippedNarrowOnly
  <2> QED
    BY <2>1, EffectiveByParts, Zenon
<1> HIDE DEF layers
<1>6. rule \in UNION {DOMAIN layers[i][2] : i \in DOMAIN layers}
      /\ ComposedValue(layers, GIT_PACK_NARROW_ONLY, rule) = "true"
  BY <1>4, Zenon DEF ComposedRules
<1>7. \E i \in Saying(layers, rule) : layers[i][2][rule] = "true"
  BY <1>3, <1>6, SomeLayerSays, Zenon
<1>8. ComposedValue(layers, GIT_PACK_NARROW_ONLY \cup own, rule) = "true"
  BY <1>7 DEF ComposedValue
<1> QED
  BY <1>5, <1>6, <1>8, Zenon DEF ComposedRules

LEMMA LooseningIsReported ==
  ASSUME NEW layers, NEW narrow, NEW rule \in narrow,
         1 \in Saying(layers, rule), layers[1][2][rule] = "true",
         DOMAIN layers \subseteq {1, 2, 3},
         NEW i \in DOMAIN layers, i # 1, NEW layer, NEW rules, layers[i] = <<layer, rules>>,
         rule \in DOMAIN rules, rules[rule] = "false"
  PROVE  <<layer, rule>> \in LooseningViolations(layers, narrow)
<1>1. layers[i][1] = layer /\ layers[i][2] = rules /\ 1 < i
  OBVIOUS
<1>2. i \in Saying(layers, rule)
  BY <1>1 DEF Saying
<1>3. <<i, rule>> \in {at \in (DOMAIN layers) \X narrow :
          /\ at[1] \in Saying(layers, at[2]) /\ layers[at[1]][2][at[2]] = "false"
          /\ \E j \in Saying(layers, at[2]) : j < at[1] /\ layers[j][2][at[2]] = "true"}
  BY <1>1, <1>2
<1> QED
  BY <1>1, <1>3 DEF LooseningViolations

(* A selection, and the one of its program's layer alone. *)
LEMMA ProgramsLayerHolds ==
  ASSUME NEW folder, NEW selection, NEW alone,
         alone["program"] = selection["program"], alone["repo"] = "", alone["agent"] = "",
         EffectivePolicy(folder, "git", selection).ok,
         NEW rule \in DOMAIN EffectivePolicy(folder, "git", alone).rules,
         rule \in EffectiveNarrowOnly(folder, "git"),
         EffectivePolicy(folder, "git", alone).rules[rule] = "true"
  PROVE  /\ EffectivePolicy(folder, "git", selection).rules[rule] = "true"
         /\ rule \in DOMAIN Layers(folder, selection)[1][2]
         /\ Layers(folder, selection)[1][2][rule] = "true"
<1> DEFINE layers == Layers(folder, selection)
           first == Layers(folder, alone)
           narrow == EffectiveNarrowOnly(folder, "git")
<1>1. DOMAIN first = {1} /\ first[1] = layers[1]
  <2>1. /\ DOMAIN first \subseteq {1, 2, 3} /\ 1 \in DOMAIN first
        /\ alone["repo"] # "" <=> 2 \in DOMAIN first
        /\ alone["agent"] # "" <=> 3 \in DOMAIN first
        /\ first[1] = <<"program", LoadedRules(folder, ProgramPolicy(alone))>>
    BY LayersOf, Zenon
  <2>2. layers[1] = <<"program", LoadedRules(folder, ProgramPolicy(selection))>>
    BY LayersOf, Zenon
  <2>3. ProgramPolicy(alone) = ProgramPolicy(selection)
    BY DEF ProgramPolicy
  <2> HIDE DEF first, layers
  <2> QED
    BY <2>1, <2>2, <2>3
<1>2. EffectivePolicy(folder, "git", alone).rules = ComposedRules(first, narrow)
  BY EffectiveByParts
<1>3. EffectivePolicy(folder, "git", selection).rules = ComposedRules(layers, narrow)
  BY EffectiveByParts
<1>4. 1 \in DOMAIN layers
  BY LayersOf, Zenon
<1>5. rule \in narrow
  OBVIOUS
<1>6. rule \in DOMAIN ComposedRules(first, narrow) /\ ComposedRules(first, narrow)[rule] = "true"
  BY <1>2
<1>7. EffectivePolicy(folder, "git", selection).rules[rule] = ComposedRules(layers, narrow)[rule]
  BY <1>3
<1> HIDE DEF layers, first, narrow
<1>8. ComposedValue(first, narrow, rule) = "true"
  BY <1>6, Zenon DEF ComposedRules
<1>9. \E i \in Saying(first, rule) : first[i][2][rule] = "true"
  BY <1>5, <1>8 DEF ComposedValue
<1>10. rule \in DOMAIN layers[1][2] /\ layers[1][2][rule] = "true"
  BY <1>1, <1>9 DEF Saying
<1>11. 1 \in Saying(layers, rule)
  BY <1>4, <1>10 DEF Saying
<1>12. ComposedValue(layers, narrow, rule) = "true"
  BY <1>5, <1>10, <1>11 DEF ComposedValue
<1>13. rule \in UNION {DOMAIN layers[i][2] : i \in DOMAIN layers}
  BY <1>4, <1>10
<1>14. EffectivePolicy(folder, "git", selection).rules[rule] = "true"
  BY <1>7, <1>12, <1>13, Zenon DEF ComposedRules
<1> QED
  BY <1>10, <1>14 DEF layers

LEMMA NearerTightens ==
  ASSUME Asks("policy") => asked.folder \in PolicyFolders /\ asked.selection \in Selections
  PROVE  NearerOnlyTightens
<1> DEFINE folder == asked.folder
           selection == asked.selection
           alone == [selection EXCEPT !.repo = "", !.agent = ""]
           all == EffectivePolicy(folder, "git", selection)
           base == EffectivePolicy(folder, "git", alone)
           own == folder.narrow_only
           narrow == EffectiveNarrowOnly(folder, "git")
           layers == Layers(folder, selection)
<1> SUFFICES ASSUME Asks("policy"), all.ok,
                    NEW rule \in (DOMAIN base.rules) \cap (GIT_PACK_NARROW_ONLY \cup own),
                    base.rules[rule] = "true"
             PROVE  /\ all.rules[rule] = "true"
                    /\ \A layer \in {"repo", "agent"} :
                         (/\ selection[layer] # ""
                          /\ rule \in DOMAIN LoadedRules(folder, selection[layer])
                          /\ LoadedRules(folder, selection[layer])[rule] = "false")
                           => <<layer, rule>> \in all.violations
  BY Zenon DEF NearerOnlyTightens
<1>1. rule \in narrow
  BY DEF EffectiveNarrowOnly, ShippedNarrowOnly
<1>2. alone["program"] = selection["program"] /\ alone["repo"] = "" /\ alone["agent"] = ""
  <2>1. selection = [program |-> selection.program, repo |-> selection.repo,
                     agent |-> selection.agent]
    BY AskAssumption
  <2> QED
    BY <2>1
<1> HIDE DEF alone
<1>3. all.rules[rule] = "true" /\ rule \in DOMAIN layers[1][2] /\ layers[1][2][rule] = "true"
  BY <1>1, <1>2, ProgramsLayerHolds
<1>4. 1 \in DOMAIN layers /\ DOMAIN layers \subseteq {1, 2, 3}
  BY LayersOf, Zenon
<1>5. all.violations = LooseningViolations(layers, narrow)
  BY EffectiveByParts, Zenon
<1>6. 1 \in Saying(layers, rule)
  BY <1>3, <1>4 DEF Saying
<1>7. ASSUME NEW layer \in {"repo", "agent"}, selection[layer] # "",
             rule \in DOMAIN LoadedRules(folder, selection[layer]),
             LoadedRules(folder, selection[layer])[rule] = "false"
      PROVE  <<layer, rule>> \in all.violations
  <2> DEFINE at == IF layer = "repo" THEN 2 ELSE 3
             rules == LoadedRules(folder, selection[layer])
  <2>1. at \in DOMAIN layers /\ at # 1 /\ layers[at] = <<layer, rules>>
    <3>1. CASE layer = "repo"
      <4>1. selection["repo"] # ""
        BY <1>7, <3>1
      <4>2. 2 \in DOMAIN layers /\ layers[2] = <<"repo", LoadedRules(folder, selection["repo"])>>
        BY <4>1, LayersOf, Zenon
      <4> QED
        BY <3>1, <4>2
    <3>2. CASE layer = "agent"
      <4>1. selection["agent"] # ""
        BY <1>7, <3>2
      <4>2. /\ selection["agent"] # "" <=> 3 \in DOMAIN layers
            /\ 3 \in DOMAIN layers
                 => layers[3] = <<"agent", LoadedRules(folder, selection["agent"])>>
        BY LayersOf, Zenon
      <4>3. 3 \in DOMAIN layers /\ layers[3] = <<"agent", LoadedRules(folder, selection["agent"])>>
        <5> HIDE DEF layers, selection
        <5> QED
          BY <4>1, <4>2
      <4> QED
        BY <3>2, <4>3
    <3> QED
      BY <3>1, <3>2
  <2> HIDE DEF at, layers, narrow
  <2>2. rule \in DOMAIN rules /\ rules[rule] = "false"
    BY <1>7
  <2> HIDE DEF rules
  <2>3. <<layer, rule>> \in LooseningViolations(layers, narrow)
    BY <1>1, <1>3, <1>4, <1>6, <2>1, <2>2, LooseningIsReported
  <2> QED
    BY <1>5, <2>3 DEF layers, narrow
<1> QED
  BY <1>3, <1>7

----------------------------------------------------------------------------
LEMMA PlacesBound ==
  ASSUME NEW n \in Nat, NEW set \in SUBSET Nat, NEW f,
         \A x \in set : \E i \in 1..n : f[i] = x
  PROVE  \E b \in Nat : \A x \in set : x <= b
<1> DEFINE Within(k, b) == \A x \in set : (\E i \in 1..k : f[i] = x) => x <= b
           open == {k \in 0..n : ~\E b \in Nat : Within(k, b)}
<1>1. open \in SUBSET Nat /\ open \subseteq 0..n
  OBVIOUS
<1>2. ASSUME open # {} PROVE FALSE
  <2> DEFINE k == Min(open)
  <2>1. k \in open /\ \A y \in open : k <= y
    BY <1>1, <1>2, LeastIsLeast, Zenon
  <2> HIDE DEF k
  <2>2. k # 0
    <3>1. Within(0, 0)
      OBVIOUS
    <3> QED
      BY <2>1, <3>1
  <2>3. k \in 1..n /\ k - 1 \in 0..n /\ k - 1 \notin open
    <3>1. k \in 0..n /\ (k - 1 \in open => k <= k - 1)
      BY <1>1, <2>1
    <3> QED
      BY ONLY n \in Nat, <2>2, <3>1
  <2>4. PICK b \in Nat : Within(k - 1, b)
    BY <2>3
  <2>5. 1..k = (1..(k - 1)) \cup {k}
    BY <2>3
  <2>6. CASE f[k] \in set
    <3>1. f[k] \in Nat
      BY <2>6
    <3>2. PICK c \in Nat : b <= c /\ f[k] <= c
      BY ONLY <3>1, b \in Nat
    <3>3. Within(k, c)
      <4> SUFFICES ASSUME NEW x \in set, NEW i \in 1..k, f[i] = x
                   PROVE  x <= c
        OBVIOUS
      <4>1. CASE i = k
        BY <3>2, <4>1
      <4>2. CASE i \in 1..(k - 1)
        <5>1. x <= b /\ x \in Nat
          BY <2>4, <4>2
        <5> QED
          BY ONLY <3>2, <5>1, b \in Nat, c \in Nat
      <4> QED
        BY <2>5, <4>1, <4>2
    <3> QED
      BY <2>1, <3>3
  <2>7. CASE f[k] \notin set
    <3>1. Within(k, b)
      BY <2>4, <2>5, <2>7
    <3> QED
      BY <2>1, <3>1
  <2> QED
    BY <2>6, <2>7
<1>3. n \in 0..n /\ n \notin open
  <2> HIDE DEF open
  <2> QED
    BY <1>2
<1> QED
  BY <1>3

LEMMA GreatestIsGreatest ==
  ASSUME NEW n \in Nat, NEW set \in SUBSET Nat, set # {}, NEW f,
         \A x \in set : \E i \in 1..n : f[i] = x
  PROVE  Max(set) \in set /\ \A y \in set : y <= Max(set)
<1> DEFINE bounds == {b \in Nat : \A x \in set : x <= b}
           m == Min(bounds)
<1>1. bounds # {} /\ bounds \in SUBSET Nat
  <2>1. \E b \in Nat : \A x \in set : x <= b
    BY PlacesBound
  <2> QED
    BY <2>1
<1>2. m \in bounds /\ \A b \in bounds : m <= b
  BY <1>1, LeastIsLeast, Zenon
<1> HIDE DEF m
<1>3. m \in set
  <2> SUFFICES ASSUME m \notin set PROVE FALSE
    OBVIOUS
  <2>1. \A x \in set : x < m
    BY <1>2
  <2>2. PICK x \in set : x < m
    BY <2>1
  <2>3. m - 1 \in bounds
    BY <1>2, <2>1, <2>2
  <2> QED
    BY <1>2, <2>3
<1>4. m \in set /\ \A y \in set : m >= y
  BY <1>2, <1>3
<1>5. Max(set) \in set /\ \A y \in set : Max(set) >= y
  BY <1>4, Zenon DEF Max
<1> QED
  BY <1>5

----------------------------------------------------------------------------
(* The gates of a layer: numbers as the parse leaves them                  *)
Number == Nat \cup {NoNumber}
Measured(gate) == gate["timeout"] \in Number /\ gate["cost_cap"] \in Number

(* what a gate a is to a gate b that it may only tighten                   *)
Tightens(a, b) ==
  /\ b["tools"] \subseteq a["tools"] /\ b["timeout"] <= a["timeout"]
  /\ b["pair"] \in {NoPair, a["pair"]}
  /\ b["cost_cap"] # NoNumber => a["cost_cap"] \in 0..b["cost_cap"]

(* the fields of a folded gate *)
Numbers(parts, field) == {parts[i][field] : i \in DOMAIN parts} \ {NoNumber}
Paired(parts) == {i \in DOMAIN parts : parts[i]["pair"] # NoPair}

LEMMA FoldByFields ==
  ASSUME NEW name, NEW parts
  PROVE  LET gate == FoldLanguages(name, parts)
         IN  /\ gate["tools"] = UNION {parts[i]["tools"] : i \in DOMAIN parts}
             /\ gate["timeout"] = IF Numbers(parts, "timeout") = {} THEN NoNumber
                                  ELSE Max(Numbers(parts, "timeout"))
             /\ gate["cost_cap"] = IF Numbers(parts, "cost_cap") = {} THEN NoNumber
                                   ELSE Min(Numbers(parts, "cost_cap"))
             /\ gate["pair"] = IF Paired(parts) = {} THEN NoPair
                               ELSE parts[Min(Paired(parts))]["pair"]
             /\ DOMAIN parts # {}
                  => gate["blocking"] = (\E i \in DOMAIN parts : parts[i]["blocking"])
BY Zenon DEF FoldLanguages, Numbers, Paired

(* few the parts that a layer has of some languages, many of one more      *)
Extends(n, few, many) ==
  /\ DOMAIN few \subseteq DOMAIN many /\ DOMAIN many \subseteq 1..n
  /\ \A i \in DOMAIN few : many[i] = few[i]
  /\ \A i \in DOMAIN few, j \in DOMAIN many \ DOMAIN few : i < j
  /\ \A i \in DOMAIN many : Measured(many[i])

LEMMA LongestStays ==
  ASSUME NEW n \in Nat, NEW few, NEW many, Extends(n, few, many), NEW name
  PROVE  FoldLanguages(name, few)["timeout"] <= FoldLanguages(name, many)["timeout"]
<1> DEFINE less == Numbers(few, "timeout")
           more == Numbers(many, "timeout")
           field == [i \in DOMAIN many |-> many[i]["timeout"]]
<1>1. less \subseteq more /\ more \in SUBSET Nat
  BY DEF Extends, Numbers, Measured, Number
<1>2. \A x \in more : \E i \in 1..n : field[i] = x
  BY DEF Extends, Numbers
<1>3. FoldLanguages(name, few)["timeout"] = IF less = {} THEN NoNumber ELSE Max(less)
  BY FoldByFields, Zenon
<1>4. FoldLanguages(name, many)["timeout"] = IF more = {} THEN NoNumber ELSE Max(more)
  BY FoldByFields, Zenon
<1>5. more # {} => Max(more) \in more /\ \A y \in more : y <= Max(more)
  <2> HIDE DEF more, field
  <2> QED
    BY <1>1, <1>2, GreatestIsGreatest, Zenon
<1>6. less # {} => Max(less) \in less
  <2>1. less \in SUBSET Nat /\ \A x \in less : \E i \in 1..n : field[i] = x
    BY <1>1, <1>2
  <2> HIDE DEF less, field
  <2> QED
    BY <2>1, GreatestIsGreatest, Zenon
<1>7. NoNumber \in Int /\ \A x \in Nat : NoNumber <= x
  BY DEF NoNumber
<1> HIDE DEF less, more
<1>8. CASE less = {}
  <2>1. FoldLanguages(name, few)["timeout"] = NoNumber
    BY <1>3, <1>8, Zenon
  <2>2. FoldLanguages(name, many)["timeout"] \in Nat \cup {NoNumber}
    BY <1>1, <1>4, <1>5
  <2> QED
    BY ONLY <1>7, <2>1, <2>2
<1>9. CASE less # {}
  <2>1. FoldLanguages(name, few)["timeout"] = Max(less) /\ Max(less) \in more /\ more # {}
    BY <1>1, <1>3, <1>6, <1>9
  <2>2. FoldLanguages(name, many)["timeout"] = Max(more) /\ \A y \in more : y <= Max(more)
    BY <1>4, <1>5, <2>1, Zenon
  <2> QED
    BY <2>1, <2>2, Zenon
<1> QED
  BY <1>8, <1>9

LEMMA LowestStays ==
  ASSUME NEW n \in Nat, NEW few, NEW many, Extends(n, few, many), NEW name,
         FoldLanguages(name, few)["cost_cap"] # NoNumber
  PROVE  /\ FoldLanguages(name, few)["cost_cap"] \in Nat
         /\ FoldLanguages(name, many)["cost_cap"] \in 0..FoldLanguages(name, few)["cost_cap"]
<1> DEFINE less == Numbers(few, "cost_cap")
           more == Numbers(many, "cost_cap")
<1>1. less \subseteq more /\ more \in SUBSET Nat
  BY DEF Extends, Numbers, Measured, Number
<1>2. FoldLanguages(name, few)["cost_cap"] = IF less = {} THEN NoNumber ELSE Min(less)
  BY FoldByFields, Zenon
<1>3. FoldLanguages(name, many)["cost_cap"] = IF more = {} THEN NoNumber ELSE Min(more)
  BY FoldByFields, Zenon
<1> HIDE DEF less, more
<1>4. less # {} /\ more # {} /\ less \in SUBSET Nat
  BY <1>1, <1>2
<1>5. Min(less) \in less /\ Min(more) \in more /\ \A y \in more : Min(more) <= y
  BY <1>1, <1>4, LeastIsLeast
<1>6. /\ FoldLanguages(name, few)["cost_cap"] = Min(less)
      /\ FoldLanguages(name, many)["cost_cap"] = Min(more)
  BY <1>2, <1>3, <1>4, Zenon
<1>7. Min(less) \in Nat /\ Min(more) \in Nat /\ Min(more) <= Min(less)
  BY <1>1, <1>5
<1> HIDE DEF Numbers
<1>8. Min(more) \in 0..Min(less)
  BY ONLY <1>7
<1> QED
  BY <1>6, <1>7, <1>8, Zenon

LEMMA FirstPairStays ==
  ASSUME NEW n \in Nat, NEW few, NEW many, Extends(n, few, many), NEW name
  PROVE  FoldLanguages(name, few)["pair"] \in {NoPair, FoldLanguages(name, many)["pair"]}
<1> DEFINE less == Paired(few)
           more == Paired(many)
<1>1. less \subseteq more /\ more \in SUBSET Nat
  <2>1. 1..n \subseteq Nat
    OBVIOUS
  <2> QED
    BY <2>1 DEF Extends, Paired
<1>2. \A i \in less, j \in more \ less : i < j
  BY DEF Extends, Paired
<1>3. FoldLanguages(name, few)["pair"] = IF less = {} THEN NoPair ELSE few[Min(less)]["pair"]
  BY FoldByFields, Zenon
<1>4. FoldLanguages(name, many)["pair"] = IF more = {} THEN NoPair ELSE many[Min(more)]["pair"]
  BY FoldByFields, Zenon
<1>5. \A i \in less : many[i] = few[i]
  BY DEF Extends, Paired
<1> HIDE DEF less, more
<1>6. CASE less = {}
  BY <1>3, <1>6
<1>7. CASE less # {}
  <2>1. Min(less) \in less /\ \A y \in less : Min(less) <= y
    BY <1>1, <1>7, LeastIsLeast
  <2>2. Min(more) \in more /\ \A y \in more : Min(more) <= y
    BY <1>1, <1>7, LeastIsLeast
  <2>3. Min(more) = Min(less)
    <3>1. Min(more) <= Min(less) /\ Min(more) \in Nat /\ Min(less) \in Nat
      BY <1>1, <2>1, <2>2
    <3>2. CASE Min(more) \in less
      <4>1. Min(less) <= Min(more)
        BY <2>1, <3>2
      <4> QED
        BY ONLY <3>1, <4>1
    <3>3. CASE Min(more) \notin less
      <4>1. Min(less) < Min(more)
        BY <1>2, <2>1, <2>2, <3>3
      <4> QED
        BY ONLY <3>1, <4>1
    <3> QED
      BY <3>2, <3>3
  <2> QED
    BY <1>1, <1>3, <1>4, <1>5, <1>7, <2>1, <2>3
<1> QED
  BY <1>6, <1>7

LEMMA FoldTightens ==
  ASSUME NEW n \in Nat, NEW few, NEW many, Extends(n, few, many), NEW name
  PROVE  /\ Tightens(FoldLanguages(name, many), FoldLanguages(name, few))
         /\ DOMAIN few # {} /\ FoldLanguages(name, few)["blocking"]
              => FoldLanguages(name, many)["blocking"]
<1> DEFINE b == FoldLanguages(name, few)
           a == FoldLanguages(name, many)
<1>1. b["tools"] \subseteq a["tools"]
  <2>1. b["tools"] = UNION {few[i]["tools"] : i \in DOMAIN few}
    BY FoldByFields, Zenon
  <2>2. a["tools"] = UNION {many[i]["tools"] : i \in DOMAIN many}
    BY FoldByFields, Zenon
  <2> HIDE DEF a, b
  <2> QED
    BY <2>1, <2>2 DEF Extends
<1>2. DOMAIN few # {} /\ b["blocking"] => a["blocking"]
  <2> SUFFICES ASSUME DOMAIN few # {}, b["blocking"] PROVE a["blocking"]
    OBVIOUS
  <2>1. b["blocking"] = (\E i \in DOMAIN few : few[i]["blocking"])
    BY FoldByFields, Zenon
  <2>2. DOMAIN many # {}
    BY DEF Extends
  <2>3. a["blocking"] = (\E i \in DOMAIN many : many[i]["blocking"])
    BY <2>2, FoldByFields, Zenon
  <2>4. PICK i \in DOMAIN few : few[i]["blocking"]
    BY <2>1
  <2>5. i \in DOMAIN many /\ many[i] = few[i]
    BY <2>4, Zenon DEF Extends
  <2> HIDE DEF a, b
  <2> QED
    BY <2>3, <2>4, <2>5, Zenon
<1>3. b["timeout"] <= a["timeout"]
  BY LongestStays, Zenon
<1>4. b["cost_cap"] # NoNumber => a["cost_cap"] \in 0..b["cost_cap"]
  BY LowestStays, Zenon
<1>5. b["pair"] \in {NoPair, a["pair"]}
  BY FirstPairStays, Zenon
<1> QED
  BY <1>1, <1>2, <1>3, <1>4, <1>5, Zenon DEF Tightens

(* gate is what override, the set of the repo's own gate, makes of folded  *)
Overlays(gate, folded, override) ==
  LET own == CHOOSE o \in override : TRUE
  IN  /\ override = {} => gate = folded
      /\ override # {} =>
           /\ gate["tools"] = IF own["tools"] = {} THEN folded["tools"] ELSE own["tools"]
           /\ gate["timeout"] = IF own["timeout"] = NoNumber THEN folded["timeout"]
                                ELSE own["timeout"]
           /\ gate["cost_cap"] = IF own["cost_cap"] = NoNumber THEN folded["cost_cap"]
                                 ELSE own["cost_cap"]
           /\ gate["pair"] = IF own["pair"] = NoPair THEN folded["pair"] ELSE own["pair"]
           /\ gate["blocking"] = own["blocking"]

LEMMA MergeOverlays ==
  ASSUME NEW name, NEW parts, NEW override
  PROVE  Overlays(MergeLayer(name, parts, override), FoldLanguages(name, parts), override)
BY Zenon DEF MergeLayer, Overlays

(* b may block only where a does too *)
BlocksAs(a, b) == b["blocking"] => a["blocking"]

LEMMA OverlayTightens ==
  ASSUME NEW a, NEW b, NEW fa, NEW fb, NEW override, \A o \in override : Measured(o),
         Overlays(a, fa, override), Overlays(b, fb, override), Tightens(fa, fb)
  PROVE  Tightens(a, b) /\ (override # {} \/ BlocksAs(fa, fb) => BlocksAs(a, b))
<1> DEFINE own == CHOOSE o \in override : TRUE
<1>2. CASE override = {}
  <2>1. b = fb /\ a = fa
    BY <1>2 DEF Overlays
  <2> QED
    BY <1>2, <2>1
<1>3. CASE override # {}
  <2>1. own \in override /\ Measured(own)
    BY <1>3
  <2>2. /\ b["tools"] = IF own["tools"] = {} THEN fb["tools"] ELSE own["tools"]
        /\ b["timeout"] = IF own["timeout"] = NoNumber THEN fb["timeout"] ELSE own["timeout"]
        /\ b["cost_cap"] = IF own["cost_cap"] = NoNumber THEN fb["cost_cap"] ELSE own["cost_cap"]
        /\ b["pair"] = IF own["pair"] = NoPair THEN fb["pair"] ELSE own["pair"]
        /\ b["blocking"] = own["blocking"]
    BY <1>3, Zenon DEF Overlays
  <2>3. /\ a["tools"] = IF own["tools"] = {} THEN fa["tools"] ELSE own["tools"]
        /\ a["timeout"] = IF own["timeout"] = NoNumber THEN fa["timeout"] ELSE own["timeout"]
        /\ a["cost_cap"] = IF own["cost_cap"] = NoNumber THEN fa["cost_cap"] ELSE own["cost_cap"]
        /\ a["pair"] = IF own["pair"] = NoPair THEN fa["pair"] ELSE own["pair"]
        /\ a["blocking"] = own["blocking"]
    BY <1>3, Zenon DEF Overlays
  <2>4. BlocksAs(a, b)
    BY <2>2, <2>3, Zenon DEF BlocksAs
  <2> HIDE DEF own
  <2>5. b["tools"] \subseteq a["tools"]
    BY <2>2, <2>3 DEF Tightens
  <2>6. b["timeout"] <= a["timeout"]
    <3>1. CASE own["timeout"] = NoNumber
      BY <2>2, <2>3, <3>1, Zenon DEF Tightens
    <3>2. CASE own["timeout"] # NoNumber
      <4>1. b["timeout"] = own["timeout"] /\ a["timeout"] = own["timeout"]
        BY <2>2, <2>3, <3>2, Zenon
      <4>2. own["timeout"] \in Int
        BY <2>1 DEF Measured, Number, NoNumber
      <4> QED
        BY ONLY <4>1, <4>2
    <3> QED
      BY <3>1, <3>2
  <2>7. b["pair"] \in {NoPair, a["pair"]}
    BY <2>2, <2>3 DEF Tightens
  <2>8. ASSUME b["cost_cap"] # NoNumber
        PROVE  a["cost_cap"] \in 0..b["cost_cap"]
    <3>1. CASE own["cost_cap"] = NoNumber
      BY <2>2, <2>3, <2>8, <3>1, Zenon DEF Tightens
    <3>2. CASE own["cost_cap"] # NoNumber
      <4>1. b["cost_cap"] = own["cost_cap"] /\ a["cost_cap"] = own["cost_cap"]
        BY <2>2, <2>3, <3>2, Zenon
      <4>2. own["cost_cap"] \in Nat
        BY <2>1, <3>2 DEF Measured, Number
      <4> QED
        BY ONLY <4>1, <4>2
    <3> QED
      BY <3>1, <3>2
  <2>9. Tightens(a, b)
    BY <2>5, <2>6, <2>7, <2>8, Zenon DEF Tightens
  <2> QED
    BY <2>4, <2>9
<1> QED
  BY <1>2, <1>3

LEMMA MergeTightens ==
  ASSUME NEW n \in Nat, NEW few, NEW many, Extends(n, few, many), NEW name,
         NEW override, \A o \in override : Measured(o),
         DOMAIN few # {} \/ override # {}
  PROVE  /\ Tightens(MergeLayer(name, many, override), MergeLayer(name, few, override))
         /\ BlocksAs(MergeLayer(name, many, override), MergeLayer(name, few, override))
<1>1. /\ Tightens(FoldLanguages(name, many), FoldLanguages(name, few))
      /\ DOMAIN few # {} => BlocksAs(FoldLanguages(name, many), FoldLanguages(name, few))
  BY FoldTightens, Zenon DEF BlocksAs
<1> QED
  BY <1>1, MergeOverlays, OverlayTightens, Zenon

----------------------------------------------------------------------------
(* A repo's ladder, part by part *)
EntryOf(config, repo) == IF repo \in DOMAIN config.repos THEN config.repos[repo] ELSE NoEntry
LangsOf(entry, detected) == IF entry["languages"] = <<>> THEN detected ELSE entry["languages"]
Having(languages, langs, name) ==
  {i \in DOMAIN langs : langs[i] \in DOMAIN languages /\ name \in DOMAIN languages[langs[i]]}
PartsOf(languages, langs, name) ==
  [i \in Having(languages, langs, name) |-> languages[langs[i]][name]]
OwnOf(entry, name) == IF name \in DOMAIN entry["layers"] THEN {entry["layers"][name]} ELSE {}
NamesOf(languages, langs, entry) ==
  {name \in ToSet(LAYERS) : Having(languages, langs, name) # {} \/ OwnOf(entry, name) # {}}
LadderOf(languages, langs, entry) ==
  [name \in NamesOf(languages, langs, entry) |->
     MergeLayer(name, PartsOf(languages, langs, name), OwnOf(entry, name))]

Resolved(entry, gates, languages, langs) ==
  \/ entry["opt_out"] /\ gates["opt_out"] = TRUE /\ DOMAIN gates["layers"] = {}
  \/ /\ ~entry["opt_out"] /\ gates["opt_out"] = FALSE
     /\ gates["layers"] = LadderOf(languages, langs, entry)

LEMMA ResolvedByParts ==
  ASSUME NEW config, NEW repo, NEW detected
  PROVE  Resolved(EntryOf(config, repo), ResolveRepoGates(config, repo, detected),
                  config["languages"], LangsOf(EntryOf(config, repo), detected))
<1> DEFINE entry == EntryOf(config, repo)
           gates == ResolveRepoGates(config, repo, detected)
<1>1. entry["opt_out"] => gates = [opt_out |-> TRUE, layers |-> <<>>]
  BY Zenon DEF ResolveRepoGates, EntryOf
<1>2. ~entry["opt_out"] =>
        gates = [opt_out |-> FALSE,
                 layers |-> LadderOf(config["languages"], LangsOf(entry, detected), entry)]
  BY Zenon DEF ResolveRepoGates, EntryOf, LadderOf, NamesOf, OwnOf, PartsOf, Having, LangsOf
<1>3. DOMAIN <<>> = {}
  OBVIOUS
<1> HIDE DEF entry, gates
<1>4. CASE entry["opt_out"]
  <2>1. gates["opt_out"] = TRUE /\ gates["layers"] = <<>>
    BY <1>1, <1>4
  <2> QED
    BY <1>3, <1>4, <2>1 DEF entry, gates, Resolved
<1>5. CASE ~entry["opt_out"]
  <2> DEFINE ladder == LadderOf(config["languages"], LangsOf(entry, detected), entry)
  <2> HIDE DEF ladder
  <2>1. gates["opt_out"] = FALSE /\ gates["layers"] = ladder
    BY <1>2, <1>5 DEF ladder
  <2> QED
    BY <1>5, <2>1, Zenon DEF entry, gates, ladder, Resolved
<1> QED
  BY <1>4, <1>5

(* what the parse leaves of a layer set has numbers *)
LEMMA ParsedIsMeasured ==
  ASSUME NEW raws, HasNumbers(raws), NEW allowed, ~LayerSetError(raws, allowed),
         NEW name \in DOMAIN raws
  PROVE  name \in DOMAIN LayerSet(raws) /\ Measured(LayerSet(raws)[name])
<1>1. /\ raws[name].timeout \in Int /\ raws[name].cost_cap \in Int
      /\ ~(raws[name].timeout < NoNumber) /\ ~(raws[name].cost_cap < NoNumber)
  BY Zenon DEF HasNumbers, LayerSetError, LayerError
<1>2. /\ LayerSet(raws)[name] = LayerGate(name, raws[name]) /\ name \in DOMAIN LayerSet(raws)
      /\ LayerGate(name, raws[name])["timeout"] = raws[name].timeout
      /\ LayerGate(name, raws[name])["cost_cap"] = raws[name].cost_cap
  BY Zenon DEF LayerSet, LayerGate
<1>3. \A x \in Int : ~(x < NoNumber) => x \in Number
  BY DEF Number, NoNumber
<1> QED
  BY <1>1, <1>2, <1>3, Zenon DEF Measured

LEMMA LongerPlaces ==
  ASSUME NEW S, NEW langs \in Seq(S), NEW more
  PROVE  /\ Len(langs) \in Nat /\ DOMAIN langs = 1..Len(langs)
         /\ DOMAIN Append(langs, more) = 1..(Len(langs) + 1)
         /\ \A i \in 1..Len(langs) : Append(langs, more)[i] = langs[i]
<1>1. langs \in Seq(S \cup {more}) /\ more \in S \cup {more}
  OBVIOUS
<1>2. Len(langs) \in Nat /\ DOMAIN langs = 1..Len(langs)
  BY LenProperties
<1>3. /\ Append(langs, more) \in Seq(S \cup {more}) /\ Len(Append(langs, more)) = Len(langs) + 1
      /\ \A i \in 1..Len(langs) : Append(langs, more)[i] = langs[i]
  BY <1>1, AppendProperties
<1>4. DOMAIN Append(langs, more) = 1..Len(Append(langs, more))
  BY <1>3, LenProperties
<1> QED
  BY <1>2, <1>3, <1>4

(* la the languages lb, or those and one more *)
Longer(n, lb, la) ==
  /\ DOMAIN lb \subseteq DOMAIN la /\ DOMAIN la \subseteq 1..n
  /\ \A i \in DOMAIN lb : la[i] = lb[i]
  /\ \A i \in DOMAIN lb, j \in DOMAIN la \ DOMAIN lb : i < j

LEMMA OneMoreIsLonger ==
  ASSUME NEW lb, IsList(lb), NEW la, NEW more, la = lb \/ la = Append(lb, more)
  PROVE  \E n \in Nat : Longer(n, lb, la)
<1>1. /\ Len(lb) \in Nat /\ DOMAIN lb = 1..Len(lb)
      /\ DOMAIN Append(lb, more) = 1..(Len(lb) + 1)
      /\ \A i \in 1..Len(lb) : Append(lb, more)[i] = lb[i]
  BY LongerPlaces DEF IsList
<1> DEFINE n == Len(lb)
<1> HIDE DEF n
<1>2. n \in Nat /\ DOMAIN lb = 1..n
  BY <1>1 DEF n
<1>3. CASE la = lb
  <2>1. Longer(n, lb, la)
    BY <1>2, <1>3 DEF Longer
  <2> QED
    BY <1>2, <2>1
<1>4. CASE la = Append(lb, more)
  <2>1. DOMAIN la = 1..(n + 1) /\ \A i \in 1..n : la[i] = lb[i]
    BY <1>1, <1>4 DEF n
  <2>2. /\ n + 1 \in Nat /\ 1..n \subseteq 1..(n + 1)
        /\ \A i \in 1..n, j \in (1..(n + 1)) \ (1..n) : i < j
    BY <1>2
  <2>3. Longer(n + 1, lb, la)
    BY <1>2, <2>1, <2>2 DEF Longer
  <2> QED
    BY <2>2, <2>3
<1> QED
  BY <1>3, <1>4

LEMMA PartsExtend ==
  ASSUME NEW languages,
         \A la \in DOMAIN languages : \A name \in DOMAIN languages[la] :
           Measured(languages[la][name]),
         NEW n, NEW lb, NEW la, Longer(n, lb, la), NEW name
  PROVE  /\ Extends(n, PartsOf(languages, lb, name), PartsOf(languages, la, name))
         /\ Having(languages, lb, name) \subseteq Having(languages, la, name)
         /\ DOMAIN PartsOf(languages, lb, name) = Having(languages, lb, name)
<1> DEFINE few == PartsOf(languages, lb, name)
           many == PartsOf(languages, la, name)
<1>1. DOMAIN few = Having(languages, lb, name) /\ DOMAIN many = Having(languages, la, name)
  BY DEF PartsOf
<1>2. /\ \A i \in DOMAIN few : few[i] = languages[lb[i]][name]
      /\ \A i \in DOMAIN many : many[i] = languages[la[i]][name]
  BY DEF PartsOf
<1>3. /\ Having(languages, lb, name) \subseteq Having(languages, la, name)
      /\ Having(languages, la, name) \subseteq 1..n
      /\ \A i \in Having(languages, lb, name), j \in Having(languages, la, name)
                   \ Having(languages, lb, name) : i < j
      /\ \A i \in Having(languages, lb, name) : i \in DOMAIN lb
      /\ \A i \in Having(languages, la, name) :
           la[i] \in DOMAIN languages /\ name \in DOMAIN languages[la[i]]
  BY DEF Having, Longer
<1> HIDE DEF few, many
<1>4. \A i \in DOMAIN few : many[i] = few[i]
  BY <1>1, <1>2, <1>3 DEF Longer
<1>5. \A i \in DOMAIN many : Measured(many[i])
  BY <1>1, <1>2, <1>3
<1>6. Extends(n, few, many)
  BY <1>1, <1>3, <1>4, <1>5, Zenon DEF Extends
<1> QED
  BY <1>1, <1>3, <1>6 DEF few, many

LEMMA LadderTightens ==
  ASSUME NEW languages,
         \A la \in DOMAIN languages : \A name \in DOMAIN languages[la] :
           Measured(languages[la][name]),
         NEW entry, \A name : \A o \in OwnOf(entry, name) : Measured(o),
         NEW lb, NEW la, NEW n \in Nat, Longer(n, lb, la)
  PROVE  LET before == LadderOf(languages, lb, entry)
             after == LadderOf(languages, la, entry)
         IN  /\ DOMAIN before \subseteq DOMAIN after
             /\ \A name \in DOMAIN before :
                  Tightens(after[name], before[name]) /\ BlocksAs(after[name], before[name])
<1> DEFINE before == LadderOf(languages, lb, entry)
           after == LadderOf(languages, la, entry)
           merge(langs, name) ==
             MergeLayer(name, PartsOf(languages, langs, name), OwnOf(entry, name))
<1>1. DOMAIN before = NamesOf(languages, lb, entry) /\ DOMAIN after = NamesOf(languages, la, entry)
  BY DEF LadderOf
<1>2. /\ \A name \in DOMAIN before : before[name] = merge(lb, name)
      /\ \A name \in DOMAIN after : after[name] = merge(la, name)
  BY DEF LadderOf
<1> HIDE DEF before, after
<1>3. DOMAIN before \subseteq DOMAIN after
  BY <1>1, PartsExtend DEF NamesOf
<1>4. ASSUME NEW name \in DOMAIN before
      PROVE  /\ Tightens(merge(la, name), merge(lb, name))
             /\ BlocksAs(merge(la, name), merge(lb, name))
  <2>1. Having(languages, lb, name) # {} \/ OwnOf(entry, name) # {}
    BY <1>1 DEF NamesOf
  <2>2. /\ Extends(n, PartsOf(languages, lb, name), PartsOf(languages, la, name))
        /\ DOMAIN PartsOf(languages, lb, name) = Having(languages, lb, name)
    BY PartsExtend, Zenon
  <2> QED
    BY <2>1, <2>2, MergeTightens, Zenon
<1>5. \A name \in DOMAIN before :
        Tightens(after[name], before[name]) /\ BlocksAs(after[name], before[name])
  BY <1>2, <1>3, <1>4, Zenon
<1> QED
  BY <1>3, <1>5, Zenon DEF before, after

LEMMA ParsedBlock ==
  ASSUME NEW block \in Ladders, ~SecurityGatesError(block)
  PROVE  LET config == ParseSecurityGates(block)
             entry == EntryOf(config, "r1")
         IN  /\ \A la \in DOMAIN config["languages"] : \A name \in DOMAIN config["languages"][la] :
                  Measured(config["languages"][la][name])
             /\ \A name : \A o \in OwnOf(entry, name) : Measured(o)
             /\ IsList(entry["languages"])
<1> DEFINE config == ParseSecurityGates(block)
           entry == EntryOf(config, "r1")
           languages == config["languages"]
<1>1. languages = [la \in DOMAIN block.languages |-> LayerSet(block.languages[la])]
  BY DEF ParseSecurityGates
<1>2. config["repos"] = [repo \in DOMAIN block.repos |->
         [block.repos[repo] EXCEPT !.layers = LayerSet(block.repos[repo].layers)]]
  BY DEF ParseSecurityGates
<1> HIDE DEF config
<1>3. ASSUME NEW la \in DOMAIN languages, NEW name \in DOMAIN languages[la]
      PROVE  Measured(languages[la][name])
  <2> DEFINE raws == block.languages[la]
  <2>1. la \in DOMAIN block.languages /\ languages[la] = LayerSet(raws)
    BY <1>1
  <2>2. HasNumbers(raws)
    BY <2>1, AskAssumption, Zenon
  <2>3. ~LayerSetError(raws, FALSE)
    BY <2>1, Zenon DEF SecurityGatesError
  <2>4. name \in DOMAIN raws
    BY <2>1 DEF LayerSet
  <2>5. Measured(LayerSet(raws)[name])
    BY <2>2, <2>3, <2>4, ParsedIsMeasured, Zenon
  <2> QED
    BY <2>1, <2>5, Zenon
<1>4. CASE "r1" \in DOMAIN block.repos
  <2> DEFINE r == block.repos["r1"]
  <2>1. r = [opt_out |-> r.opt_out, languages |-> r.languages, layers |-> r.layers]
    BY <1>4, AskAssumption, Zenon
  <2>2. IsList(r.languages) /\ HasNumbers(r.layers)
    BY <1>4, AskAssumption, Zenon
  <2>3. ~LayerSetError(r.layers, TRUE)
    BY <1>4, Zenon DEF SecurityGatesError
  <2>4. config.repos = config["repos"] /\ "r1" \in DOMAIN config.repos
        /\ config.repos["r1"] = [r EXCEPT !.layers = LayerSet(r.layers)]
    BY <1>2, <1>4
  <2>5. entry = [r EXCEPT !.layers = LayerSet(r.layers)]
    BY <2>4, Zenon DEF EntryOf
  <2> HIDE DEF entry, r
  <2>6. entry["languages"] = r.languages /\ entry["layers"] = LayerSet(r.layers)
    BY <2>1, <2>5
  <2>7. ASSUME NEW name, NEW o \in OwnOf(entry, name)
        PROVE  Measured(o)
    <3>1. name \in DOMAIN r.layers /\ o = LayerSet(r.layers)[name]
      BY <2>6, <2>7 DEF OwnOf, LayerSet
    <3> QED
      BY <2>2, <2>3, <3>1, ParsedIsMeasured, Zenon
  <2>8. \A name : \A o \in OwnOf(entry, name) : Measured(o)
    BY <2>7, Zenon
  <2> QED
    BY <1>3, <2>2, <2>6, <2>8, Zenon DEF entry, config
<1>5. CASE "r1" \notin DOMAIN block.repos
  <2>1. entry = NoEntry
    BY <1>2, <1>5 DEF EntryOf
  <2> HIDE DEF entry
  <2>2. entry["languages"] = <<>> /\ DOMAIN entry["layers"] = {}
    BY <2>1 DEF NoEntry
  <2>3. IsList(entry["languages"])
    BY <2>2 DEF IsList
  <2>4. \A name : \A o \in OwnOf(entry, name) : Measured(o)
    BY <2>2 DEF OwnOf
  <2> QED
    BY <1>3, <2>3, <2>4, Zenon DEF entry, config
<1> QED
  BY <1>4, <1>5

LEMMA LanguagesTighten ==
  ASSUME Asks("ladder") => asked.block \in Ladders /\ asked.langs \in Detected
  PROVE  LanguagesOnlyTighten
<1> DEFINE config == ParseSecurityGates(asked.block)
           entry == EntryOf(config, "r1")
           before == ResolveRepoGates(config, "r1", asked.langs)
           after == ResolveRepoGates(config, "r1", Append(asked.langs, asked.more))
           lb == LangsOf(entry, asked.langs)
           la == LangsOf(entry, Append(asked.langs, asked.more))
<1> SUFFICES ASSUME Asks("ladder"), ~SecurityGatesError(asked.block)
             PROVE  /\ before["opt_out"] = after["opt_out"]
                    /\ (DOMAIN before["layers"]) \subseteq DOMAIN after["layers"]
                    /\ \A name \in DOMAIN before["layers"] :
                         /\ Tightens(after["layers"][name], before["layers"][name])
                         /\ BlocksAs(after["layers"][name], before["layers"][name])
  BY Zenon DEF LanguagesOnlyTighten, Tightens, BlocksAs
<1>1. asked.block \in Ladders /\ asked.langs \in Detected /\ IsList(asked.langs)
  BY AskAssumption
<1>2. /\ \A l \in DOMAIN config["languages"] : \A name \in DOMAIN config["languages"][l] :
            Measured(config["languages"][l][name])
      /\ \A name : \A o \in OwnOf(entry, name) : Measured(o)
      /\ IsList(entry["languages"])
  BY <1>1, ParsedBlock, Zenon
<1>3. IsList(lb) /\ (la = lb \/ la = Append(lb, asked.more))
  BY <1>1, <1>2, Zenon DEF LangsOf
<1>4. PICK n \in Nat : Longer(n, lb, la)
  BY <1>3, OneMoreIsLonger, Zenon
<1>5. /\ Resolved(entry, before, config["languages"], lb)
      /\ Resolved(entry, after, config["languages"], la)
  BY ResolvedByParts, Zenon
<1> HIDE DEF config, entry, before, after, lb, la
<1> DEFINE b == LadderOf(config["languages"], lb, entry)
           a == LadderOf(config["languages"], la, entry)
<1>6. /\ DOMAIN b \subseteq DOMAIN a
      /\ \A name \in DOMAIN b : Tightens(a[name], b[name]) /\ BlocksAs(a[name], b[name])
  BY <1>2, <1>4, LadderTightens, Zenon
<1>7. \/ before["opt_out"] = TRUE /\ after["opt_out"] = TRUE /\ DOMAIN before["layers"] = {}
      \/ /\ before["opt_out"] = FALSE /\ after["opt_out"] = FALSE
         /\ before["layers"] = b /\ after["layers"] = a
  BY <1>5, Zenon DEF Resolved
<1> HIDE DEF a, b
<1> QED
  BY <1>6, <1>7

(* resolve_spec_policy, _merge_layer, compose: a heavier level, one more   *)
(* language, an index or a nearer layer takes no requirement away.         *)
THEOREM LayersAlwaysTighten == AskSpec => []LayersOnlyTighten
<1>1. AskTypes => LayersOnlyTighten
  BY LevelsAdd, SilenceInherits, LanguagesTighten, IndexAdds, NearerTightens, Zenon
  DEF AskTypes, LayersOnlyTighten
<1> QED
  BY <1>1, AskedIsTyped, PTL

----------------------------------------------------------------------------
(* What is written of a manifest is read back.                             *)
FileEntry(f) == [filename |-> f.filename, sha256 |-> f.content_hash]
Restored(repo, e) == [repo |-> repo, filename |-> e.filename, content_hash |-> e.sha256]
EntriesOf(new, repo) == {FileEntry(f) : f \in {g \in new : g.repo = repo}}
Grouped(new) == [repo \in {f.repo : f \in new} |-> EntriesOf(new, repo)]
Ungrouped(groups) ==
  UNION {{Restored(repo, e) : e \in {x \in groups[repo] : x.filename # ""}} :
           repo \in DOMAIN groups}

LEMMA GroupsReadBack ==
  ASSUME NEW new,
         \A r \in new : FileEntry(r).filename # "" /\ Restored(r.repo, FileEntry(r)) = r
  PROVE  Ungrouped(Grouped(new)) = new
<1> DEFINE groups == Grouped(new)
<1>1. /\ \A r \in new : r.repo \in DOMAIN groups /\ FileEntry(r) \in groups[r.repo]
      /\ \A repo \in DOMAIN groups : \A e \in groups[repo] :
           \E r \in new : r.repo = repo /\ e = FileEntry(r)
  BY DEF Grouped, EntriesOf
<1> HIDE DEF groups
<1>2. new \subseteq Ungrouped(groups)
  <2> SUFFICES ASSUME NEW r \in new PROVE r \in Ungrouped(groups)
    OBVIOUS
  <2> DEFINE restored(repo) == {Restored(repo, e) : e \in {x \in groups[repo] : x.filename # ""}}
  <2>1. r.repo \in DOMAIN groups /\ FileEntry(r) \in groups[r.repo]
    BY <1>1, Zenon
  <2>2. FileEntry(r).filename # "" /\ Restored(r.repo, FileEntry(r)) = r
    BY Zenon
  <2>3. r \in restored(r.repo)
    BY <2>1, <2>2, Zenon
  <2>4. Ungrouped(groups) = UNION {restored(repo) : repo \in DOMAIN groups}
    BY Zenon DEF Ungrouped
  <2> HIDE DEF restored
  <2> QED
    BY <2>1, <2>3, <2>4
<1>3. Ungrouped(groups) \subseteq new
  <2> SUFFICES ASSUME NEW x \in Ungrouped(groups)
               PROVE  x \in new
    OBVIOUS
  <2>1. PICK repo \in DOMAIN groups : \E e \in groups[repo] : x = Restored(repo, e)
    <3> DEFINE restored(repo) ==
                 {Restored(repo, e) : e \in {y \in groups[repo] : y.filename # ""}}
    <3>1. Ungrouped(groups) = UNION {restored(repo) : repo \in DOMAIN groups}
      BY Zenon DEF Ungrouped
    <3>2. PICK repo \in DOMAIN groups : x \in restored(repo)
      <4> HIDE DEF restored
      <4> QED
        BY <3>1
    <3> QED
      BY <3>2
  <2>2. PICK e \in groups[repo] : x = Restored(repo, e)
    BY <2>1
  <2>3. PICK r \in new : r.repo = repo /\ e = FileEntry(r)
    BY <1>1
  <2> QED
    BY <2>2, <2>3, Zenon
<1> QED
  BY <1>2, <1>3 DEF groups

LEMMA ManifestReadsBack ==
  ASSUME NEW release, NEW files, \A f \in files : f.name # "",
         NEW new, new \subseteq {RecordFragment(f) : f \in files}
  PROVE  Keys(ManifestFromDict(ManifestToDict(BuildManifest(release, new)))) = new
<1> DEFINE manifest == BuildManifest(release, new)
           data == ManifestToDict(manifest)
<1>1. Keys(manifest) = new
  BY DEF Keys, BuildManifest
<1>2. data.fragments = Grouped(Keys(manifest))
  BY DEF ManifestToDict, Grouped, EntriesOf, FileEntry
<1>3. Keys(ManifestFromDict(data)) = Ungrouped(data.fragments)
  <2> HIDE DEF data
  <2> QED
    BY Zenon DEF Keys, ManifestFromDict, BuildManifest, Ungrouped, Restored
<1>4. ASSUME NEW r \in new
      PROVE  FileEntry(r).filename # "" /\ Restored(r.repo, FileEntry(r)) = r
  <2>1. PICK f \in files : r = RecordFragment(f)
    OBVIOUS
  <2>2. f.name # ""
    OBVIOUS
  <2> QED
    BY <2>1, <2>2 DEF RecordFragment, FileEntry, Restored
<1> QED
  BY <1>1, <1>2, <1>3, <1>4, GroupsReadBack, Zenon

----------------------------------------------------------------------------
(* The manifests recorded after each cut, as CarriedOnce lists them.       *)
Recorded(piles) ==
  CHOOSE record :
    record = [i \in 0..Len(piles) |->
                IF i = 0 THEN <<>> ELSE Append(record[i - 1], Cut(i, piles[i], record[i - 1]))]

(* r lists what has been recorded after each of the first k cuts           *)
Records(piles, r, k) ==
  /\ r = [i \in 0..k |-> r[i]] /\ r[0] = <<>>
  /\ \A i \in 1..k : r[i] = Append(r[i - 1], Cut(i, piles[i], r[i - 1]))

LEMMA RecordsAreThere ==
  ASSUME NEW piles, NEW n \in Nat
  PROVE  \E r : Records(piles, r, n)
<1> DEFINE open == {k \in 0..n : ~\E r : Records(piles, r, k)}
<1>1. open \in SUBSET Nat /\ open \subseteq 0..n
  OBVIOUS
<1>2. ASSUME open # {} PROVE FALSE
  <2> DEFINE k == Min(open)
  <2>1. k \in open /\ \A y \in open : k <= y
    BY <1>1, <1>2, LeastIsLeast, Zenon
  <2> HIDE DEF k
  <2>2. k # 0
    <3> DEFINE r == [i \in 0..0 |-> <<>>]
    <3>1. Records(piles, r, 0)
      <4>1. 0..0 = {0} /\ 1..0 = {}
        OBVIOUS
      <4> QED
        BY <4>1 DEF Records
    <3>2. \E g : Records(piles, g, 0)
      BY <3>1, Zenon
    <3>3. ASSUME k = 0 PROVE FALSE
      BY <2>1, <3>2, <3>3, Zenon
    <3> QED
      BY <3>3
  <2>3. k \in 1..n /\ k - 1 \in 0..n /\ k - 1 \notin open
    <3>1. k \in 0..n /\ (k - 1 \in open => k <= k - 1)
      BY <1>1, <2>1
    <3> QED
      BY ONLY n \in Nat, <2>2, <3>1
  <2>4. PICK g : Records(piles, g, k - 1)
    BY <2>3, Zenon
  <2> DEFINE next == Append(g[k - 1], Cut(k, piles[k], g[k - 1]))
             r == [i \in 0..k |-> IF i = k THEN next ELSE g[i]]
  <2> HIDE DEF next
  <2>5. k \in Nat /\ k >= 1
    BY <2>3
  <2>6. r = [i \in 0..k |-> r[i]] /\ r[0] = <<>>
    BY <2>4, <2>5 DEF Records
  <2>7. ASSUME NEW i \in 1..k
        PROVE  r[i] = Append(r[i - 1], Cut(i, piles[i], r[i - 1]))
    <3>1. i \in 0..k /\ i - 1 \in 0..k /\ i - 1 # k
      BY <2>5
    <3>2. r[i - 1] = g[i - 1]
      BY <3>1
    <3>3. CASE i = k
      BY <3>1, <3>2, <3>3 DEF next
    <3>4. CASE i # k
      <4>1. i \in 1..(k - 1)
        BY <2>5, <3>4
      <4>2. r[i] = g[i]
        BY <3>1, <3>4
      <4> QED
        BY <2>4, <3>2, <4>1, <4>2 DEF Records
    <3> QED
      BY <3>3, <3>4
  <2> HIDE DEF r
  <2>8. Records(piles, r, k)
    BY <2>6, <2>7 DEF Records
  <2> QED
    BY <2>1, <2>8, Zenon
<1>3. n \in 0..n /\ n \notin open
  <2> HIDE DEF open
  <2> QED
    BY <1>2
<1> QED
  BY <1>3

LEMMA RecordedIsRecord ==
  ASSUME NEW piles, Len(piles) \in Nat
  PROVE  Records(piles, Recorded(piles), Len(piles))
<1> DEFINE n == Len(piles)
           step(record, i) ==
             IF i = 0 THEN <<>> ELSE Append(record[i - 1], Cut(i, piles[i], record[i - 1]))
<1>1. PICK g : Records(piles, g, n)
  BY RecordsAreThere, Zenon
<1>2. g = [i \in 0..n |-> step(g, i)]
  <2>1. \A i \in 0..n : g[i] = step(g, i)
    <3>1. \A i \in 0..n : i = 0 \/ i \in 1..n
      OBVIOUS
    <3> QED
      BY <1>1, <3>1, Zenon DEF Records
  <2>2. g = [i \in 0..n |-> g[i]]
    BY <1>1, Zenon DEF Records
  <2> HIDE DEF step
  <2>3. [i \in 0..n |-> g[i]] = [i \in 0..n |-> step(g, i)]
    BY <2>1
  <2> QED
    BY <2>2, <2>3, Zenon
<1> DEFINE r == Recorded(piles)
<1>3. r = [i \in 0..n |-> step(r, i)]
  BY <1>2, Zenon DEF Recorded
<1> HIDE DEF r
<1>4. 0 \in 0..n /\ \A i \in 1..n : i \in 0..n /\ i # 0
  OBVIOUS
<1>5. r[0] = step(r, 0) /\ \A i \in 1..n : r[i] = step(r, i)
  <2> HIDE DEF step
  <2> QED
    BY <1>3, <1>4
<1>6. r = [i \in 0..n |-> r[i]]
  <2> HIDE DEF step
  <2> QED
    BY <1>3
<1> QED
  BY <1>4, <1>5, <1>6, Zenon DEF Records, r

(* after k cuts there is one manifest of each *)
LEMMA OneForEachCut ==
  ASSUME NEW piles, NEW n \in Nat, NEW r, Records(piles, r, n)
  PROVE  \A k \in 0..n :
           /\ DOMAIN r[k] = 1..k
           /\ \A i \in 1..k : r[k][i] = Cut(i, piles[i], r[i - 1])
<1> DEFINE cuts == {Cut(i, piles[i], r[i - 1]) : i \in 1..n}
           Holds(k) == /\ r[k] \in Seq(cuts) /\ Len(r[k]) = k
                       /\ \A i \in 1..k : r[k][i] = Cut(i, piles[i], r[i - 1])
           open == {k \in 0..n : ~Holds(k)}
<1>1. open \in SUBSET Nat /\ open \subseteq 0..n
  <2> HIDE DEF Holds
  <2> QED
    OBVIOUS
<1>2. ASSUME open # {} PROVE FALSE
  <2> DEFINE k == Min(open)
  <2>1. k \in open /\ \A y \in open : k <= y
    BY <1>1, <1>2, LeastIsLeast, Zenon
  <2> HIDE DEF k
  <2>2. ~Holds(k) /\ k \in 0..n
    <3> HIDE DEF Holds
    <3> QED
      BY <2>1
  <2>3. k # 0
    <3>1. r[0] = <<>>
      BY DEF Records
    <3>2. Holds(0)
      <4>1. <<>> \in Seq(cuts) /\ Len(<<>>) = 0 /\ 1..0 = {}
        <5> HIDE DEF cuts
        <5> QED
          OBVIOUS
      <4> HIDE DEF cuts
      <4> QED
        BY <3>1, <4>1
    <3> HIDE DEF Holds
    <3> QED
      BY <2>2, <3>2
  <2>4. k \in 1..n /\ k - 1 \in 0..n /\ k - 1 \notin open
    <3>1. k \in 0..n /\ (k - 1 \in open => k <= k - 1)
      BY <2>1, <2>2
    <3> QED
      BY ONLY n \in Nat, <2>3, <3>1
  <2>5. Holds(k - 1)
    <3> HIDE DEF Holds
    <3> QED
      BY <2>4
  <2> DEFINE next == Cut(k, piles[k], r[k - 1])
             m == k - 1
  <2>6. next \in cuts /\ r[k] = Append(r[m], next)
    BY <2>4 DEF Records
  <2>7. /\ r[m] \in Seq(cuts) /\ Len(r[m]) = m
        /\ \A i \in 1..m : r[m][i] = Cut(i, piles[i], r[i - 1])
    BY <2>5
  <2>8. next = Cut(k, piles[k], r[k - 1])
    OBVIOUS
  <2> HIDE DEF next, cuts
  <2>9. m \in Nat /\ k = m + 1 /\ 1..k = (1..m) \cup {k}
    BY <2>4
  <2> HIDE DEF m
  <2>10. /\ Append(r[m], next) \in Seq(cuts) /\ Len(Append(r[m], next)) = m + 1
         /\ \A i \in 1..m : Append(r[m], next)[i] = r[m][i]
         /\ Append(r[m], next)[m + 1] = next
    BY <2>6, <2>7, AppendProperties
  <2>11. r[k] \in Seq(cuts) /\ Len(r[k]) = k
    BY <2>6, <2>9, <2>10, Zenon
  <2>12. ASSUME NEW i \in 1..k PROVE r[k][i] = Cut(i, piles[i], r[i - 1])
    <3>1. CASE i \in 1..m
      BY <2>6, <2>7, <2>10, <3>1, Zenon
    <3>2. CASE i = k
      BY <2>6, <2>8, <2>9, <2>10, <3>2, Zenon
    <3> QED
      BY <2>9, <3>1, <3>2
  <2> QED
    BY <2>2, <2>11, <2>12, Zenon
<1>3. ASSUME NEW k \in 0..n PROVE Holds(k)
  <2> HIDE DEF Holds
  <2> QED
    BY <1>2
<1> SUFFICES ASSUME NEW k \in 0..n
             PROVE  /\ DOMAIN r[k] = 1..k
                    /\ \A i \in 1..k : r[k][i] = Cut(i, piles[i], r[i - 1])
  OBVIOUS
<1>4. r[k] \in Seq(cuts) /\ Len(r[k]) = k
  BY <1>3
<1>5. DOMAIN r[k] = 1..k
  <2> HIDE DEF cuts
  <2> QED
    BY <1>4, LenProperties, Zenon
<1> QED
  BY <1>3, <1>5

----------------------------------------------------------------------------
LEMMA ConsumedSoFar ==
  ASSUME NEW recorded
  PROVE  ConsumedIndex([i \in DOMAIN recorded |-> ManifestFromDict(recorded[i])])
           = UNION {Keys(ManifestFromDict(recorded[i])) : i \in DOMAIN recorded}
<1> DEFINE read == [i \in DOMAIN recorded |-> ManifestFromDict(recorded[i])]
<1>1. ToSet(read) = {ManifestFromDict(recorded[i]) : i \in DOMAIN recorded}
  BY DEF ToSet
<1> QED
  BY <1>1 DEF ConsumedIndex

(* What a cut lists: what of its pile no earlier manifest has.             *)
LEMMA CutListsNew ==
  ASSUME NEW release, NEW pile, \A f \in pile : f.name # "", NEW recorded
  PROVE  Keys(ManifestFromDict(Cut(release, pile, recorded)))
           = {RecordFragment(f) : f \in pile}
               \ UNION {Keys(ManifestFromDict(recorded[i])) : i \in DOMAIN recorded}
<1> DEFINE index == ConsumedIndex([i \in DOMAIN recorded |-> ManifestFromDict(recorded[i])])
           new == {r \in {RecordFragment(f) : f \in pile} : ~IsConsumed(r, index)}
<1>1. Cut(release, pile, recorded) = ManifestToDict(BuildManifest(release, new))
  BY Zenon DEF Cut
<1>2. new \subseteq {RecordFragment(f) : f \in pile}
  OBVIOUS
<1>3. Keys(ManifestFromDict(ManifestToDict(BuildManifest(release, new)))) = new
  <2> HIDE DEF new
  <2> QED
    BY <1>2, ManifestReadsBack, Zenon
<1>4. new = {RecordFragment(f) : f \in pile} \ index
  BY DEF IsConsumed
<1> QED
  BY <1>1, <1>3, <1>4, ConsumedSoFar, Zenon

LEMMA CarriesOnce ==
  ASSUME Asks("cuts") => asked.piles \in Piles
  PROVE  CarriedOnce
<1> DEFINE piles == asked.piles
           n == Len(piles)
           r == Recorded(piles)
           keys(i) == Keys(ManifestFromDict(r[n][i]))
           notes(i) == {RecordFragment(f) : f \in piles[i]}
<1> SUFFICES ASSUME Asks("cuts")
             PROVE  /\ \A i, j \in 1..n : i # j => keys(i) \cap keys(j) = {}
                    /\ UNION {keys(i) : i \in 1..n} = UNION {notes(i) : i \in 1..n}
  BY Zenon DEF CarriedOnce, Recorded
<1>1. /\ piles \in Seq(ToSet(piles))
      /\ \A i \in DOMAIN piles : \A f \in piles[i] : f.name # ""
  BY AskAssumption, Zenon DEF IsList
<1>2. n \in Nat /\ DOMAIN piles = 1..n
  BY <1>1, LenProperties
<1>3. Records(piles, r, n)
  BY <1>2, RecordedIsRecord, Zenon
<1> HIDE DEF n, r, piles
<1>4. \A k \in 0..n : /\ DOMAIN r[k] = 1..k
                     /\ \A i \in 1..k : r[k][i] = Cut(i, piles[i], r[i - 1])
  BY <1>2, <1>3, OneForEachCut, Zenon
<1>5. ASSUME NEW i \in 1..n
      PROVE  keys(i) = notes(i) \ UNION {keys(j) : j \in 1..(i - 1)}
  <2>1. n \in 0..n /\ i - 1 \in 0..n /\ \A j \in 1..(i - 1) : j \in 1..n
    BY <1>2
  <2>2. r[n][i] = Cut(i, piles[i], r[i - 1]) /\ DOMAIN r[i - 1] = 1..(i - 1)
    BY <1>4, <2>1
  <2>3. \A j \in 1..(i - 1) : r[i - 1][j] = r[n][j]
    BY <1>4, <2>1
  <2>4. Keys(ManifestFromDict(Cut(i, piles[i], r[i - 1])))
          = notes(i) \ UNION {Keys(ManifestFromDict(r[i - 1][j])) : j \in DOMAIN r[i - 1]}
    <3>1. \A f \in piles[i] : f.name # ""
      BY <1>1, <1>2, Zenon
    <3> DEFINE pile == piles[i]
               recorded == r[i - 1]
    <3>2. Keys(ManifestFromDict(Cut(i, pile, recorded)))
            = {RecordFragment(f) : f \in pile}
                \ UNION {Keys(ManifestFromDict(recorded[j])) : j \in DOMAIN recorded}
      <4> HIDE DEF pile, recorded
      <4>1. \A f \in pile : f.name # ""
        BY <3>1 DEF pile
      <4> QED
        BY <4>1, CutListsNew
    <3> QED
      BY <3>2
  <2>5. {Keys(ManifestFromDict(r[i - 1][j])) : j \in DOMAIN r[i - 1]} = {keys(j) : j \in 1..(i - 1)}
    BY <2>2, <2>3
  <2> QED
    BY <2>2, <2>4, <2>5, Zenon
<1> HIDE DEF keys, notes
<1>6. ASSUME NEW i \in 1..n, NEW j \in 1..n, i < j
      PROVE  keys(i) \cap keys(j) = {}
  <2>1. i \in 1..(j - 1)
    BY <1>2, <1>6
  <2> QED
    BY <1>5, <2>1
<1>7. ASSUME NEW i \in 1..n, NEW j \in 1..n, i # j
      PROVE  keys(i) \cap keys(j) = {}
  <2>1. i < j \/ j < i
    BY <1>2, <1>7
  <2> QED
    BY <1>6, <2>1
<1>8. ASSUME NEW i \in 1..n
      PROVE  keys(i) \subseteq notes(i) /\ notes(i) \subseteq UNION {keys(j) : j \in 1..n}
  <2>1. \A j \in 1..(i - 1) : j \in 1..n
    BY <1>2
  <2> QED
    BY <1>5, <2>1
<1>9. UNION {keys(i) : i \in 1..n} = UNION {notes(i) : i \in 1..n}
  BY <1>8
<1> QED
  BY <1>7, <1>9

(* evaluate, is_consumed: a refused pull request stays refused, and over    *)
(* any number of cuts each fragment is in the manifest of one release.     *)
THEOREM FragmentsStayKept == AskSpec => []FragmentsAreKept
<1>1. AskTypes => FragmentsAreKept
  BY RefusalStays, CarriesOnce, Zenon DEF AskTypes, FragmentsAreKept
<1> QED
  BY <1>1, AskedIsTyped, PTL

----------------------------------------------------------------------------
(* What must be seen, and a report read back                               *)
LEMMA MustBeSeen == MustSeeStaysUp
<1> DEFINE policy == ParseReviewPolicy(asked.block)
           class == Classify(policy, asked.type, asked.priority)
<1> SUFFICES ASSUME Asks("review"), ~ReviewPolicyError(asked.block)
             PROVE  /\ asked.priority = "urgent" => class = "mandatory"
                    /\ asked.block.declared /\ asked.type \in asked.block.mandatory
                         => class = "mandatory"
                    /\ ~asked.block.declared /\ asked.type \in DEFAULT_MANDATORY
                         => class = "mandatory"
                    /\ class = "auto-triage" => asked.type \notin policy.mandatory
  BY Zenon DEF MustSeeStaysUp
<1>1. /\ asked.block.declared => policy.mandatory = asked.block.mandatory
      /\ ~asked.block.declared => policy.mandatory = DEFAULT_MANDATORY
  BY DEF ParseReviewPolicy
<1>2. /\ asked.priority = "urgent" \/ asked.type \in policy.mandatory => class = "mandatory"
      /\ class = "auto-triage" => asked.type \notin policy.mandatory
  <2> HIDE DEF policy
  <2> QED
    BY DEF Classify
<1> HIDE DEF policy, class
<1> QED
  BY <1>1, <1>2

LEMMA WrittenIsRead ==
  ASSUME NEW value, NEW none
  PROVE  ReadAs(Written(value, none), none) = value
<1>1. CASE value = none
  BY <1>1 DEF ReadAs, Written
<1>2. CASE value # none
  <2>1. Written(value, none) = {value}
    BY <1>2 DEF Written
  <2>2. (CHOOSE v \in {value} : TRUE) = value
    OBVIOUS
  <2> QED
    BY <2>1, <2>2 DEF ReadAs
<1> QED
  BY <1>1, <1>2

LEMMA ListIsFunction ==
  ASSUME NEW s, s \in Seq(ToSet(s))
  PROVE  s = [i \in DOMAIN s |-> s[i]] /\ \A i \in DOMAIN s : s[i] \in ToSet(s)
<1>1. s \in [1..Len(s) -> ToSet(s)] /\ DOMAIN s = 1..Len(s)
  BY LenProperties
<1> QED
  BY <1>1 DEF ToSet

(* one entry of each list, written and read *)
LayerBack(la) == LET w == [la EXCEPT !.findings = Written(@, <<>>)]
                 IN  [w EXCEPT !.findings = ReadAs(@, <<>>)]
DisagreementBack(d) == LET w == [d EXCEPT !.layer = Written(@, "")]
                       IN  [w EXCEPT !.layer = ReadAs(@, "")]
SuppressionBack(s) ==
  LET w == [s EXCEPT !.justified = {@}, !.justification = Written(@, "")]
  IN  [w EXCEPT !.justified = ReadAs(@, FALSE), !.justification = ReadAs(@, "")]

LEMMA LayerReadsBack ==
  ASSUME NEW la, la = [layer |-> la.layer, verdict |-> la.verdict, findings |-> la.findings]
  PROVE  LayerBack(la) = la
<1>1. ASSUME NEW a, NEW b, NEW c
      PROVE  LayerBack([layer |-> a, verdict |-> b, findings |-> c])
               = [layer |-> a, verdict |-> b, findings |-> c]
  <2> DEFINE full == [layer |-> a, verdict |-> b, findings |-> c]
             written == [layer |-> a, verdict |-> b, findings |-> Written(c, <<>>)]
  <2>1. [full EXCEPT !.findings = Written(@, <<>>)] = written
    OBVIOUS
  <2>2. [written EXCEPT !.findings = ReadAs(@, <<>>)] = full
    BY WrittenIsRead
  <2> HIDE DEF full, written
  <2>3. LayerBack(full) = full
    BY <2>1, <2>2, Zenon DEF LayerBack
  <2> QED
    BY <2>3 DEF full
<1> QED
  BY <1>1, Zenon

LEMMA DisagreementParts ==
  ASSUME NEW a, NEW b, NEW w
  PROVE  /\ [[tool |-> a, layer |-> b] EXCEPT !.layer = w] = [tool |-> a, layer |-> w]
         /\ [tool |-> a, layer |-> b].layer = b
OBVIOUS

LEMMA SuppressionParts ==
  ASSUME NEW a, NEW b, NEW v, NEW w
  PROVE  /\ [[justified |-> a, justification |-> b] EXCEPT !.justified = v, !.justification = w]
              = [justified |-> v, justification |-> w]
         /\ [justified |-> a, justification |-> b].justified = a
         /\ [justified |-> a, justification |-> b].justification = b
<1> DEFINE r == [justified |-> a, justification |-> b]
           x == [r EXCEPT !.justified = v, !.justification = w]
<1>1. r.justified = a /\ r.justification = b
  OBVIOUS
<1>2. DOMAIN r = {"justified", "justification"} /\ DOMAIN x = DOMAIN r
  OBVIOUS
<1>3. x["justified"] = v
  OBVIOUS
<1>4. x["justification"] = w
  OBVIOUS
<1>5. x = [f \in DOMAIN r |-> x[f]]
  OBVIOUS
<1>6. x = [justified |-> v, justification |-> w]
  <2> HIDE DEF x, r
  <2> QED
    BY <1>2, <1>3, <1>4, <1>5
<1> QED
  BY <1>1, <1>6

LEMMA DisagreementReadsBack ==
  ASSUME NEW d, d = [tool |-> d.tool, layer |-> d.layer]
  PROVE  DisagreementBack(d) = d
<1>1. ASSUME NEW a, NEW b
      PROVE  DisagreementBack([tool |-> a, layer |-> b]) = [tool |-> a, layer |-> b]
  <2>1. ReadAs(Written(b, ""), "") = b
    BY WrittenIsRead, Zenon
  <2> QED
    BY <2>1, DisagreementParts, Zenon DEF DisagreementBack
<1> QED
  BY <1>1, Zenon

LEMMA SuppressionReadsBack ==
  ASSUME NEW s, s = [justified |-> s.justified, justification |-> s.justification]
  PROVE  SuppressionBack(s) = s
<1>1. ASSUME NEW a, NEW b
      PROVE  SuppressionBack([justified |-> a, justification |-> b])
               = [justified |-> a, justification |-> b]
  <2>1. ReadAs(Written(b, ""), "") = b
    BY WrittenIsRead, Zenon
  <2>2. ReadAs({a}, FALSE) = a
    BY DEF ReadAs
  <2> QED
    BY <2>1, <2>2, SuppressionParts, Zenon DEF SuppressionBack
<1> QED
  BY <1>1, Zenon

LEMMA ReadByLists ==
  ASSUME NEW r
  PROVE  ReportFromDict(ReportToDict(r)) =
           [layers |-> [i \in DOMAIN r.layers |-> LayerBack(r.layers[i])],
            disagreements |-> [i \in DOMAIN r.disagreements |->
                                 DisagreementBack(r.disagreements[i])],
            suppressions |-> [i \in DOMAIN r.suppressions |-> SuppressionBack(r.suppressions[i])]]
<1> DEFINE data == ReportToDict(r)
           read == ReportFromDict(data)
           la(i) == [r.layers[i] EXCEPT !.findings = Written(@, <<>>)]
           d(i) == [r.disagreements[i] EXCEPT !.layer = Written(@, "")]
           s(i) == [r.suppressions[i] EXCEPT !.justified = {@}, !.justification = Written(@, "")]
<1>1. /\ data.layers = [i \in DOMAIN r.layers |-> la(i)]
      /\ data.disagreements = [i \in DOMAIN r.disagreements |-> d(i)]
      /\ data.suppressions = [i \in DOMAIN r.suppressions |-> s(i)]
  BY DEF ReportToDict
<1> HIDE DEF data
<1>2. read = [layers |-> [i \in DOMAIN data.layers |->
                            [data.layers[i] EXCEPT !.findings = ReadAs(@, <<>>)]],
              disagreements |-> [i \in DOMAIN data.disagreements |->
                                   [data.disagreements[i] EXCEPT !.layer = ReadAs(@, "")]],
              suppressions |-> [i \in DOMAIN data.suppressions |->
                                  [data.suppressions[i] EXCEPT !.justified = ReadAs(@, FALSE),
                                     !.justification = ReadAs(@, "")]]]
  BY DEF ReportFromDict, Report
<1>3. [i \in DOMAIN data.layers |-> [data.layers[i] EXCEPT !.findings = ReadAs(@, <<>>)]]
        = [i \in DOMAIN r.layers |-> LayerBack(r.layers[i])]
  BY <1>1 DEF LayerBack
<1>4. [i \in DOMAIN data.disagreements |-> [data.disagreements[i] EXCEPT !.layer = ReadAs(@, "")]]
        = [i \in DOMAIN r.disagreements |-> DisagreementBack(r.disagreements[i])]
  BY <1>1 DEF DisagreementBack
<1>5. [i \in DOMAIN data.suppressions |->
         [data.suppressions[i] EXCEPT !.justified = ReadAs(@, FALSE),
                                      !.justification = ReadAs(@, "")]]
        = [i \in DOMAIN r.suppressions |-> SuppressionBack(r.suppressions[i])]
  BY <1>1 DEF SuppressionBack
<1> HIDE DEF read
<1> QED
  BY <1>2, <1>3, <1>4, <1>5, Zenon DEF read, data

LEMMA ReportIsReadBack ==
  ASSUME NEW r, IsReport(r)
  PROVE  ReportFromDict(ReportToDict(r)) = r
<1>1. r = [layers |-> r.layers, disagreements |-> r.disagreements,
           suppressions |-> r.suppressions]
  BY DEF IsReport
<1>2. [i \in DOMAIN r.layers |-> LayerBack(r.layers[i])] = r.layers
  <2> DEFINE list == r.layers
  <2>1. list = [i \in DOMAIN list |-> list[i]] /\ \A i \in DOMAIN list : list[i] \in ToSet(list)
    BY ListIsFunction, Zenon DEF IsReport
  <2>2. \A la \in ToSet(list) : LayerBack(la) = la
    BY LayerReadsBack, Zenon DEF IsReport
  <2> HIDE DEF list
  <2>3. [i \in DOMAIN list |-> LayerBack(list[i])] = list
    BY <2>1, <2>2
  <2> QED
    BY <2>3 DEF list
<1>3. [i \in DOMAIN r.disagreements |-> DisagreementBack(r.disagreements[i])] = r.disagreements
  <2> DEFINE list == r.disagreements
  <2>1. list = [i \in DOMAIN list |-> list[i]] /\ \A i \in DOMAIN list : list[i] \in ToSet(list)
    BY ListIsFunction, Zenon DEF IsReport
  <2>2. \A d \in ToSet(list) : DisagreementBack(d) = d
    BY DisagreementReadsBack, Zenon DEF IsReport
  <2> HIDE DEF list
  <2>3. [i \in DOMAIN list |-> DisagreementBack(list[i])] = list
    BY <2>1, <2>2
  <2> QED
    BY <2>3 DEF list
<1>4. [i \in DOMAIN r.suppressions |-> SuppressionBack(r.suppressions[i])] = r.suppressions
  <2> DEFINE list == r.suppressions
  <2>1. list = [i \in DOMAIN list |-> list[i]] /\ \A i \in DOMAIN list : list[i] \in ToSet(list)
    BY ListIsFunction, Zenon DEF IsReport
  <2>2. \A x \in ToSet(list) : SuppressionBack(x) = x
    BY SuppressionReadsBack, Zenon DEF IsReport
  <2> HIDE DEF list
  <2>3. [i \in DOMAIN list |-> SuppressionBack(list[i])] = list
    BY <2>1, <2>2
  <2> QED
    BY <2>3 DEF list
<1> QED
  BY <1>1, <1>2, <1>3, <1>4, ReadByLists, Zenon

LEMMA UnjustifiedBlocks ==
  ASSUME NEW data, IsReport(data), NEW s \in ToSet(data.suppressions),
         s.justified \subseteq BOOLEAN, TRUE \notin s.justified
  PROVE  IsBlocked(ReportFromDict(data))
<1> DEFINE list == data.suppressions
           read == ReportFromDict(data)
           back(i) == [list[i] EXCEPT !.justified = ReadAs(@, FALSE),
                                      !.justification = ReadAs(@, "")]
<1>1. PICK i \in DOMAIN list : list[i] = s
  BY DEF ToSet
<1>2. read.suppressions = [j \in DOMAIN list |-> back(j)]
  BY DEF ReportFromDict, Report
<1>3. s = [justified |-> s.justified, justification |-> s.justification]
  BY Zenon DEF IsReport
<1>4. ReadAs(s.justified, FALSE) = FALSE
  BY DEF ReadAs
<1>5. back(i).justified = FALSE
  <2>1. back(i) = [s EXCEPT !.justified = ReadAs(s.justified, FALSE),
                            !.justification = ReadAs(s.justification, "")]
    BY <1>1, Zenon
  <2>2. \A a, b, v, w : [[justified |-> a, justification |-> b]
                          EXCEPT !.justified = v, !.justification = w].justified = v
    OBVIOUS
  <2> QED
    BY <1>3, <1>4, <2>1, <2>2, Zenon
<1> HIDE DEF back, read, list
<1>6. read.suppressions[i] = back(i) /\ i \in DOMAIN read.suppressions
  BY <1>1, <1>2
<1>7. read.suppressions[i] \in ToSet(read.suppressions)
  BY <1>6 DEF ToSet
<1>8. ~read.suppressions[i].justified
  BY <1>5, <1>6
<1> QED
  BY <1>7, <1>8, Zenon DEF IsBlocked, read

LEMMA ReportReads ==
  ASSUME Asks("report") => asked.report \in Reports, Asks("payload") => asked.data \in Payloads
  PROVE  ReportReadsBack
<1>1. ASSUME Asks("report")
      PROVE  LET read == ReportFromDict(ReportToDict(asked.report))
             IN  read = asked.report /\ IsBlocked(read) = ReportToDict(asked.report).blocked
  <2>1. IsReport(asked.report)
    BY <1>1, AskAssumption, Zenon
  <2>2. ReportFromDict(ReportToDict(asked.report)) = asked.report
    BY <2>1, ReportIsReadBack, Zenon
  <2>3. ReportToDict(asked.report).blocked = IsBlocked(asked.report)
    BY Zenon DEF ReportToDict
  <2> QED
    BY <2>2, <2>3, Zenon
<1>2. ASSUME Asks("payload"), NEW s \in ToSet(asked.data.suppressions), TRUE \notin s.justified
      PROVE  IsBlocked(ReportFromDict(asked.data))
  <2>1. IsReport(asked.data) /\ s.justified \subseteq BOOLEAN
    BY <1>2, AskAssumption, Zenon
  <2> QED
    BY <1>2, <2>1, UnjustifiedBlocks, Zenon
<1> QED
  BY <1>1, <1>2, Zenon DEF ReportReadsBack

----------------------------------------------------------------------------
(* The lint of a request                                                   *)
Proposed == ProposalFromScr(asked.scr, asked.openspec)

LEMMA ProposedByFields ==
  /\ Proposed.text = [f \in TEXT_FIELDS |-> IF f = "title" THEN asked.scr.subject
                                           ELSE asked.scr.sections[f]]
  /\ Proposed.outcome = OutcomeOf(asked.openspec)
  /\ Proposed.affected_repos = ReposFromRouting(asked.scr.clauses)
  /\ Proposed.change_id = "" /\ Proposed.secrets = {asked.scr.secret} \ {"none"}
BY DEF Proposed, ProposalFromScr

(* the findings, one kind after the other *)
Found ==
  ({"missing-field"} \X MissingFields(Proposed))
  \cup (OutcomeFindings(Proposed, Outcomes) \X {"outcome"})
  \cup ({"secret-in-body"} \X Proposed.secrets)
  \cup ({"placeholder-in-field"} \X Placeholders(Proposed))
  \cup ({"unknown-repo"} \X (Proposed.affected_repos \ PlatformRepos))

LEMMA LintedIsFound == Linted = Found
<1>1. ({Proposed.change_id} \ ({} \cup {""})) = {}
  BY ProposedByFields
<1>2. {"unresolved-citation"} \X {} = {}
  OBVIOUS
<1>3. Linted = ({"missing-field"} \X MissingFields(Proposed))
               \cup (OutcomeFindings(Proposed, Outcomes) \X {"outcome"})
               \cup ({"unresolved-citation"} \X ({Proposed.change_id} \ ({} \cup {""})))
               \cup ({"secret-in-body"} \X Proposed.secrets)
               \cup ({"placeholder-in-field"} \X Placeholders(Proposed))
               \cup ({"unknown-repo"} \X (Proposed.affected_repos \ PlatformRepos))
  BY Zenon DEF Linted, LintFindings, Proposed
<1> QED
  BY <1>1, <1>2, <1>3 DEF Found

LEMMA HeadsAreFinite ==
  ASSUME NEW clauses, clauses \in Seq(ToSet(clauses))
  PROVE  IsFiniteSet(ReposFromRouting(clauses))
<1> DEFINE heads == {c.head : c \in ToSet(clauses)}
           n == Len(clauses)
           f == [i \in 1..n |-> clauses[i].head]
<1>1. n \in Nat /\ DOMAIN clauses = 1..n
  BY LenProperties
<1>2. f \in Surjection(1..n, heads)
  <2>1. \A i \in 1..n : clauses[i] \in ToSet(clauses)
    BY <1>1 DEF ToSet
  <2>2. f \in [1..n -> heads]
    BY <2>1
  <2>3. \A h \in heads : \E i \in 1..n : f[i] = h
    BY <1>1 DEF ToSet
  <2> HIDE DEF f, heads
  <2> QED
    BY <2>2, <2>3 DEF Surjection
<1>3. IsFiniteSet(heads)
  <2>1. IsFiniteSet(1..n)
    BY <1>1, FS_Interval
  <2> HIDE DEF f, heads, n
  <2> QED
    BY <1>2, <2>1, FS_Surjection
<1>4. ReposFromRouting(clauses) \subseteq heads
  BY DEF ReposFromRouting
<1> HIDE DEF heads
<1> QED
  BY <1>3, <1>4, FS_Subset

LEMMA FieldsAreFinite == IsFiniteSet(TEXT_FIELDS \cup {"outcome", "affected_repos"})
<1> DEFINE fields == <<"title", "problem", "evidence", "impact", "direction", "scope", "routing",
                       "workaround", "outcome", "affected_repos">>
           set == TEXT_FIELDS \cup {"outcome", "affected_repos"}
<1>1. set = {fields[i] : i \in 1..10}
  BY DEF TEXT_FIELDS, SECTION_KEYS
<1> DEFINE f == [i \in 1..10 |-> fields[i]]
<1> HIDE DEF fields, set
<1>2. f \in Surjection(1..10, set)
  BY <1>1 DEF Surjection
<1>3. IsFiniteSet(1..10)
  <2>1. \A n \in Nat : IsFiniteSet(1..n)
    BY FS_Interval
  <2>2. 10 \in Nat
    OBVIOUS
  <2> QED
    BY <2>1, <2>2, Zenon
<1> QED
  BY <1>2, <1>3, FS_Surjection DEF set

LEMMA LintedIsFinite ==
  ASSUME Asks("lint") => asked.scr \in Requests, Asks("lint")
  PROVE  IsFiniteSet(Linted)
<1> DEFINE fields == TEXT_FIELDS \cup {"outcome", "affected_repos"}
<1>1. IsFiniteSet(MissingFields(Proposed)) /\ IsFiniteSet(Placeholders(Proposed))
  <2>1. MissingFields(Proposed) \subseteq fields /\ Placeholders(Proposed) \subseteq fields
    BY DEF MissingFields, Placeholders
  <2> HIDE DEF fields
  <2> QED
    BY <2>1, FieldsAreFinite, FS_Subset DEF fields
<1>2. IsFiniteSet(OutcomeFindings(Proposed, Outcomes))
  <2>1. \/ OutcomeFindings(Proposed, Outcomes) = {}
        \/ \E code : OutcomeFindings(Proposed, Outcomes) = {code}
    BY DEF OutcomeFindings
  <2> QED
    BY <2>1, FS_EmptySet, FS_Singleton
<1>3. IsFiniteSet(Proposed.secrets)
  <2>1. Proposed.secrets = {} \/ Proposed.secrets = {asked.scr.secret}
    BY ProposedByFields
  <2> QED
    BY <2>1, FS_EmptySet, FS_Singleton
<1>4. IsFiniteSet(Proposed.affected_repos \ PlatformRepos)
  <2>1. IsFiniteSet(Proposed.affected_repos)
    <3>1. IsList(asked.scr.clauses)
      BY AskAssumption
    <3>2. IsFiniteSet(ReposFromRouting(asked.scr.clauses))
      BY <3>1, HeadsAreFinite, Zenon DEF IsList
    <3> QED
      BY <3>2, ProposedByFields, Zenon
  <2> QED
    BY <2>1, FS_Subset
<1>5. \A code : IsFiniteSet({code})
  BY FS_Singleton
<1>6. IsFiniteSet(Found)
  <2> DEFINE a == {"missing-field"} \X MissingFields(Proposed)
             b == OutcomeFindings(Proposed, Outcomes) \X {"outcome"}
             c == {"secret-in-body"} \X Proposed.secrets
             d == {"placeholder-in-field"} \X Placeholders(Proposed)
             e == {"unknown-repo"} \X (Proposed.affected_repos \ PlatformRepos)
  <2>1. IsFiniteSet(a) /\ IsFiniteSet(b) /\ IsFiniteSet(c) /\ IsFiniteSet(d) /\ IsFiniteSet(e)
    BY <1>1, <1>2, <1>3, <1>4, <1>5, FS_Product, Zenon
  <2>2. Found = a \cup b \cup c \cup d \cup e
    BY DEF Found
  <2> HIDE DEF a, b, c, d, e
  <2>3. IsFiniteSet(a \cup b \cup c \cup d \cup e)
    BY <2>1, FS_Union, Zenon
  <2> QED
    BY <2>2, <2>3
<1> QED
  BY <1>6, LintedIsFound

(* at most one warning, and the score counts *)
LEMMA OneWarning ==
  Linted \ LintErrors(Linted) \subseteq {<<"malformed-outcome", "outcome">>}
<1> SUFFICES ASSUME NEW x \in Linted \ LintErrors(Linted)
             PROVE  x = <<"malformed-outcome", "outcome">>
  OBVIOUS
<1>1. x[1] = "malformed-outcome" /\ x \in Found
  BY LintedIsFound DEF LintErrors, IsWarning
<1>2. \/ \E y : x = <<"missing-field", y>> \/ x = <<"secret-in-body", y>>
             \/ x = <<"placeholder-in-field", y>> \/ x = <<"unknown-repo", y>>
      \/ \E y : x = <<y, "outcome">>
  BY <1>1 DEF Found
<1>3. PICK y : x = <<y, "outcome">>
  BY <1>1, <1>2
<1> QED
  BY <1>1, <1>3

LEMMA ScoreCounts ==
  ASSUME IsFiniteSet(Linted)
  PROVE  \E e \in Nat, w \in {0, 1} :
           /\ e = Cardinality(LintErrors(Linted))
           /\ w = 0 <=> Linted = LintErrors(Linted)
           /\ LintScore(Linted) = IF 25 * e + 10 * w > 100 THEN 0 ELSE 100 - (25 * e + 10 * w)
           /\ e = 0 <=> LintErrors(Linted) = {}
<1> DEFINE errors == LintErrors(Linted)
           rest == Linted \ errors
<1>1. errors \subseteq Linted /\ IsFiniteSet(errors) /\ IsFiniteSet(rest)
  <2>1. errors \subseteq Linted
    BY DEF LintErrors
  <2> QED
    BY <2>1, FS_Subset
<1>2. rest = {} \/ rest = {<<"malformed-outcome", "outcome">>}
  BY OneWarning
<1>3. /\ Cardinality(errors) \in Nat /\ Cardinality(rest) \in {0, 1}
      /\ Cardinality(errors) = 0 <=> errors = {}
      /\ Cardinality(rest) = 0 <=> rest = {}
  <2>1. /\ \A S : IsFiniteSet(S) => (Cardinality(S) = 0 <=> S = {})
        /\ \A y : Cardinality({y}) = 1
    BY FS_EmptySet, FS_Singleton
  <2>2. Cardinality(errors) \in Nat
    BY <1>1, FS_CardinalityType, Zenon
  <2> HIDE DEF errors, rest
  <2>3. Cardinality(rest) \in {0, 1}
    BY <1>1, <1>2, <2>1
  <2> QED
    BY <1>1, <2>1, <2>2, <2>3, Zenon
<1>4. LintScore(Linted) = LET taken == 25 * Cardinality(errors) + 10 * Cardinality(rest)
                          IN  IF taken > 100 THEN 0 ELSE 100 - taken
  BY Zenon DEF LintScore
<1>5. rest = {} <=> Linted = errors
  BY <1>1
<1> QED
  BY <1>3, <1>4, <1>5, Zenon

LEMMA TiersBound ==
  ASSUME IsFiniteSet(Linted)
  PROVE  LET tier == ScoreTier(LintScore(Linted))
             errors == Cardinality(LintErrors(Linted))
         IN  /\ tier = "excellent" => errors = 0
             /\ tier = "strong" => errors = 1
             /\ tier = "adequate" => errors \in {1, 2}
             /\ tier = "weak" => errors \in {2, 3}
             /\ tier = "failing" => errors >= 4 \/ (errors = 3 /\ Linted # LintErrors(Linted))
<1> DEFINE score == LintScore(Linted)
           tier == ScoreTier(score)
           errors == Cardinality(LintErrors(Linted))
           clean == Linted = LintErrors(Linted)
<1>1. PICK e \in Nat, w \in {0, 1} :
        /\ e = errors /\ (w = 0 <=> clean)
        /\ score = IF 25 * e + 10 * w > 100 THEN 0 ELSE 100 - (25 * e + 10 * w)
  BY ScoreCounts, Zenon
<1>2. /\ score \in Nat /\ (score >= 90 => e = 0)
      /\ score \in 75..89 => e = 1
      /\ score \in 50..74 => e \in {1, 2}
      /\ score \in 25..49 => e \in {2, 3}
      /\ score < 25 => e >= 4 \/ (e = 3 /\ w = 1)
  <2> HIDE DEF score
  <2> QED
    BY <1>1
<1> HIDE DEF score
<1>3. /\ tier = "excellent" => score >= 90
      /\ tier = "strong" => score \in 75..89
      /\ tier = "adequate" => score \in 50..74
      /\ tier = "weak" => score \in 25..49
      /\ tier = "failing" => score < 25
  <2>1. \/ score >= 90 \/ score \in 75..89 \/ score \in 50..74 \/ score \in 25..49 \/ score < 25
    BY <1>2
  <2>2. /\ score >= 90 => tier = "excellent"
        /\ score \in 75..89 => tier = "strong"
        /\ score \in 50..74 => tier = "adequate"
        /\ score \in 25..49 => tier = "weak"
        /\ score < 25 => tier = "failing"
    BY <1>2 DEF ScoreTier
  <2> HIDE DEF tier
  <2> QED
    BY <2>1, <2>2
<1> HIDE DEF tier, errors, clean
<1>4. w = 1 => ~clean
  BY <1>1
<1> QED
  BY <1>1, <1>2, <1>3, <1>4 DEF tier, errors, clean, score

LEMMA SecretCosts ==
  ASSUME IsFiniteSet(Linted), asked.scr.secret # "none"
  PROVE  LintScore(Linted) <= 75
<1> DEFINE secret == <<"secret-in-body", asked.scr.secret>>
<1>1. secret \in Linted
  BY ProposedByFields, LintedIsFound DEF Found
<1>2. ~IsWarning(secret)
  BY DEF IsWarning
<1>3. LintErrors(Linted) # {}
  BY <1>1, <1>2 DEF LintErrors
<1>4. PICK e \in Nat, w \in {0, 1} :
        /\ LintScore(Linted) = IF 25 * e + 10 * w > 100 THEN 0 ELSE 100 - (25 * e + 10 * w)
        /\ e = 0 <=> LintErrors(Linted) = {}
  BY ScoreCounts, Zenon
<1>5. e >= 1
  BY <1>3, <1>4
<1> QED
  BY <1>4, <1>5

LEMMA HonestScores ==
  ASSUME Asks("lint") => asked.scr \in Requests
  PROVE  HonestRequestScoresFull
<1> SUFFICES ASSUME Asks("lint"), asked.scr.secret = "none", asked.scr.subject = "text",
                    \A key \in SECTION_KEYS : asked.scr.sections[key] = "text",
                    asked.scr.clauses # <<>>,
                    \A c \in ToSet(asked.scr.clauses) : c.head \in PlatformRepos \cap RepoSlugs,
                    asked.openspec.found, asked.openspec.outcome_id \in Outcomes \cap OutcomeIds
             PROVE  LintScore(Linted) = 100
  BY SMT DEF HonestRequestScoresFull
<1> DEFINE p == Proposed
           clauses == asked.scr.clauses
<1>1. \A f \in TEXT_FIELDS : p.text[f] = "text"
  BY ProposedByFields DEF TEXT_FIELDS
<1>2. /\ p.outcome \in Outcomes /\ p.outcome \in OutcomeIds
      /\ p.outcome # "" /\ p.outcome # "TODO"
  <2>1. "" \notin OutcomeIds /\ "TODO" \notin OutcomeIds
    BY OutcomeIdsAssumption
  <2>2. asked.openspec.outcome_id # ""
    BY <2>1
  <2>3. OutcomeOf(asked.openspec) = asked.openspec.outcome_id
    BY <2>2 DEF OutcomeOf
  <2>4. p.outcome = asked.openspec.outcome_id
    BY <2>3, ProposedByFields, Zenon
  <2> HIDE DEF p
  <2> QED
    BY <2>1, <2>4
<1>3. p.affected_repos # {} /\ p.affected_repos \ PlatformRepos = {}
  <2>1. p.affected_repos = {c.head : c \in ToSet(clauses)} \cap RepoSlugs
    BY ProposedByFields DEF ReposFromRouting
  <2>2. ToSet(clauses) # {}
    <3>1. clauses \in Seq(ToSet(clauses))
      BY AskAssumption DEF IsList
    <3>2. Len(clauses) # 0 /\ Len(clauses) \in Nat /\ DOMAIN clauses = 1..Len(clauses)
      BY <3>1, EmptySeq, LenProperties
    <3>3. 1 \in DOMAIN clauses
      BY <3>2
    <3> QED
      BY <3>3 DEF ToSet
  <2> QED
    BY <2>1, <2>2
<1> HIDE DEF p, clauses
<1>4. MissingFields(p) = {} /\ Placeholders(p) = {} /\ OutcomeFindings(p, Outcomes) = {}
  <2>1. MissingFields(p) = {}
    BY <1>1, <1>2, <1>3 DEF MissingFields
  <2>2. Placeholders(p) = {}
    BY <1>1, <1>2 DEF Placeholders
  <2>3. OutcomeFindings(p, Outcomes) = {}
    BY <1>2 DEF OutcomeFindings
  <2> QED
    BY <2>1, <2>2, <2>3
<1>5. p.secrets = {}
  BY ProposedByFields DEF p
<1>6. Linted = {}
  <2>1. Found = {}
    BY <1>3, <1>4, <1>5 DEF Found, p
  <2> QED
    BY <2>1, LintedIsFound
<1>7. IsFiniteSet(Linted) /\ LintErrors(Linted) = {}
  BY <1>6, FS_EmptySet DEF LintErrors
<1>8. PICK e \in Nat, w \in {0, 1} :
        /\ w = 0 <=> Linted = LintErrors(Linted)
        /\ LintScore(Linted) = IF 25 * e + 10 * w > 100 THEN 0 ELSE 100 - (25 * e + 10 * w)
        /\ e = 0 <=> LintErrors(Linted) = {}
  BY <1>7, ScoreCounts, Zenon
<1>9. e = 0 /\ w = 0
  BY <1>6, <1>7, <1>8
<1> QED
  BY <1>8, <1>9

(* classify, report_from_dict, lint_proposal: what must be seen stays up,  *)
(* a report reads back as it was written, and the tier of a request bounds *)
(* its errors, however many there are.                                     *)
THEOREM ReviewersSeeAll == AskSpec => []ReviewerSeesAll
<1>1. AskTypes => ReviewerSeesAll
  <2> SUFFICES ASSUME AskTypes PROVE ReviewerSeesAll
    OBVIOUS
  <2>1. Asks("lint") => asked.scr \in Requests /\ IsFiniteSet(Linted)
    BY LintedIsFinite, Zenon DEF AskTypes
  <2>2. TierBoundsErrors
    BY <2>1, TiersBound, Zenon DEF TierBoundsErrors
  <2>3. SecretIsFound
    BY <2>1, SecretCosts, Zenon DEF SecretIsFound
  <2>4. HonestRequestScoresFull
    BY <2>1, HonestScores, Zenon
  <2>5. ReportReadsBack
    BY ReportReads, Zenon DEF AskTypes
  <2> QED
    BY <2>2, <2>3, <2>4, <2>5, MustBeSeen, Zenon DEF ReviewerSeesAll
<1> QED
  BY <1>1, AskedIsTyped, PTL
==============================================================================
