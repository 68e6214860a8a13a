------------------------------ MODULE BusProofs ------------------------------
(***************************************************************************)
(* The bus, proved for every set of messages, tasks and inputs.            *)
(*                                                                         *)
(* The completion of tasks (TaskComplete) comes first.  NoFilingMissed     *)
(* speaks of a finished scan; ScanInv says how it gets there: while        *)
(* active/ is read, a message of the beginning is read, still to be read,  *)
(* or has moved to archive/, which is listed afterwards; while archive/ is *)
(* read, it is read or still to be read there.                             *)
(*                                                                         *)
(* The rules of the bus (BusRules) follow, one part for each of their      *)
(* properties.  A state of that specification is one input: GiveTypes says *)
(* that it is an input of its kind and is the invariant, and what remains  *)
(* is what the operators compute.                                          *)
(***************************************************************************)
EXTENDS TaskComplete, BusRules, FiniteSetTheorems, SequenceTheorems, WellFoundedInduction,
        TLAPS

Covered(m) == \A k \in filing[m].ids : filed[k] >= filing[m].at

ScanInv ==
  /\ reader = "active" =>
       \A m \in known : m \in todo \/ place[m] = "archive" \/ Covered(m)
  /\ reader = "archive" =>
       \A m \in known : (m \in todo /\ place[m] = "archive") \/ Covered(m)
  /\ reader = "judge" => \A m \in known : Covered(m)

----------------------------------------------------------------------------
(* Types *)

(* The types of the constants and of what is made of them. *)
LEMMA Stamps ==
  /\ Stamp \subseteq Int /\ Time \subseteq Stamp /\ Time \subseteq Nat
  /\ Absent \in Stamp /\ Undated \in Stamp
  /\ {All} \in Completed /\ UNION Completed \subseteq Key
  /\ Task \subseteq Key
BY TaskAssumption DEF Stamp, Time, Absent, Undated, Completed, Key

(* The commits are records with a time. *)
LEMMA CommitTypes ==
  TypeOK => \A i \in 1..Len(history) : history[i].at \in Nat
<1> DEFINE Commits == [at : Time, dropped : SUBSET Task, opened : SUBSET Task]
<1> SUFFICES ASSUME TypeOK, NEW i \in 1..Len(history) PROVE history[i].at \in Nat
  OBVIOUS
<1>1. history \in Seq(Commits)
  BY DEF TypeOK
<1>2. history[i] \in Commits
  <2> HIDE DEF Commits
  <2> QED
    BY <1>1, ElementOfSeq
<1> QED
  BY <1>2, Stamps

(* Every step keeps the types. *)
LEMMA TypeStep == TypeOK /\ [Next]_vars => TypeOK'
<1> SUFFICES ASSUME TypeOK, [Next]_vars PROVE TypeOK'
  OBVIOUS
<1> USE TaskAssumption, Stamps DEF TypeOK
<1>1. CASE Tick
  BY <1>1 DEF Tick, busVars, gitVars, readerVars, OnBus, Time
<1>2. ASSUME NEW m \in Message, NEW ids \in Completed, NEW at \in Stamp, File(m, ids, at)
      PROVE  TypeOK'
  <2>1. at \in Time \union {Undated}
    BY <1>2 DEF File
  <2>2. filing' \in [Message -> [ids : Completed \union {{}}, at : Time \union {Undated}]]
    BY <1>2, <2>1 DEF File
  <2>3. place' \in [Message -> {"unsent", "active", "archive"}] /\ OnBus \subseteq OnBus'
    BY <1>2 DEF File, OnBus
  <2> QED
    BY <1>2, <2>2, <2>3 DEF File, gitVars, readerVars
<1>3. ASSUME NEW m \in Message, Sweep(m)
      PROVE  TypeOK'
  <2>1. place' \in [Message -> {"unsent", "active", "archive"}] /\ OnBus \subseteq OnBus'
    BY <1>3 DEF Sweep, OnBus
  <2> QED
    BY <1>3, <2>1 DEF Sweep, gitVars, readerVars
<1>4. ASSUME NEW new \in Drafts, Commit(new)
      PROVE  TypeOK'
  <2>1. line' \in [Task -> Line]
    BY <1>4 DEF Commit, Line
  <2>2. history' \in Seq([at : Time, dropped : SUBSET Task, opened : SUBSET Task])
    BY <1>4 DEF Commit
  <2>3. unread' \subseteq 1..Len(history')
    BY <1>4 DEF Commit, readerVars
  <2> QED
    BY <1>4, <2>1, <2>2, <2>3 DEF Commit, busVars, readerVars, OnBus
<1>5. CASE Begin
  BY <1>5 DEF Begin, Directories, Listing, OnBus, busVars, gitVars
<1>6. ASSUME NEW m \in Message, ReadMessage(m)
      PROVE  TypeOK'
  <2>1. filed' \in [Key -> Stamp]
    <3> SUFFICES ASSUME NEW k \in Key
                 PROVE  (IF place[m] = reader /\ k \in filing[m].ids
                         THEN MergeNewest(filed[k], filing[m].at) ELSE filed[k]) \in Stamp
      BY <1>6 DEF ReadMessage
    <3>1. filing[m].at \in Stamp /\ filed[k] \in Stamp
      OBVIOUS
    <3> QED
      BY <3>1 DEF MergeNewest
  <2>2. reader \notin {"idle", "judge"}
    BY <1>6 DEF ReadMessage
  <2> QED
    BY <1>6, <2>1, <2>2 DEF ReadMessage, busVars, gitVars, OnBus
<1>7. CASE ScanSecond
  BY <1>7 DEF ScanSecond, Directories, Listing, OnBus, busVars, gitVars
<1>8. ASSUME NEW all \in BOOLEAN, NEW tasks \in SUBSET Task, Ask(all, tasks)
      PROVE  TypeOK'
  BY <1>8 DEF Ask, Directories, busVars, gitVars, OnBus
<1>9. ASSUME NEW t \in Task, NEW lost \in SUBSET Scanned, Judge(t, lost)
      PROVE  TypeOK'
  <2>1. lost \subseteq 1..Len(history)
    BY <1>9 DEF Scanned
  <2> QED
    BY <1>9, <2>1 DEF Judge, busVars, gitVars, OnBus
<1>10. ASSUME NEW gatePassed \in BOOLEAN, Cut(gatePassed)
       PROVE  TypeOK'
  BY <1>10 DEF Cut, Judged, Rest, NothingFiled, NothingJudged, busVars, gitVars, OnBus
<1>11. CASE Consult
  BY <1>11 DEF Consult, Judged, Rest, NothingFiled, NothingJudged, busVars, gitVars, OnBus
<1>12. CASE UNCHANGED vars
  BY <1>12 DEF vars, busVars, gitVars, readerVars, OnBus
<1> QED
  BY <1>1, <1>2, <1>3, <1>4, <1>5, <1>6, <1>7, <1>8, <1>9, <1>10, <1>11, <1>12 DEF Next

(* The reader, the bus and the answers keep their types, for any tasks and *)
(* messages.                                                               *)
THEOREM CompletionTypeCorrect == Spec => []TypeOK
<1>1. Init => TypeOK
  <2> SUFFICES ASSUME Init PROVE TypeOK
    OBVIOUS
  <2>1. /\ clock \in Time
        /\ place \in [Message -> {"unsent", "active", "archive"}]
        /\ filing \in [Message -> [ids : Completed \union {{}}, at : Time \union {Undated}]]
    BY TaskAssumption DEF Init, Time
  <2>2. /\ line \in [Task -> Line]
        /\ history \in Seq([at : Time, dropped : SUBSET Task, opened : SUBSET Task])
    BY TaskAssumption DEF Init, Line
  <2>3. filed \in [Key -> Stamp] /\ complete \in [Task -> {"unknown", "yes", "no"}]
    BY Stamps DEF Init, NothingFiled, NothingJudged
  <2> QED
    BY <2>1, <2>2, <2>3 DEF Init, TypeOK
<1> QED
  BY <1>1, TypeStep, PTL DEF Spec

----------------------------------------------------------------------------
(* The scan *)

(* Every step keeps ScanInv. *)
LEMMA ScanStep == TypeOK /\ ScanInv /\ [Next]_vars => ScanInv'
<1> SUFFICES ASSUME TypeOK, ScanInv, [Next]_vars PROVE ScanInv'
  OBVIOUS
<1> USE TaskAssumption, Stamps DEF ScanInv, Covered
<1>1. CASE Tick
  BY <1>1 DEF Tick, busVars, readerVars
<1>2. ASSUME NEW m \in Message, NEW ids \in Completed, NEW at \in Stamp, File(m, ids, at)
      PROVE  ScanInv'
  <2>1. m \notin known
    BY <1>2 DEF File, TypeOK, OnBus
  <2>2. \A n \in known : n \in Message /\ filing'[n] = filing[n] /\ place'[n] = place[n]
    BY <1>2, <2>1 DEF File, TypeOK, OnBus
  <2> QED
    BY <1>2, <2>2 DEF File, readerVars
<1>3. ASSUME NEW m \in Message, Sweep(m)
      PROVE  ScanInv'
  <2>1. \A n \in known : place'[n] = place[n] \/ place'[n] = "archive"
    BY <1>3 DEF Sweep, TypeOK, OnBus
  <2>2. \A n \in known : place[n] = "archive" => place'[n] = "archive"
    BY <1>3 DEF Sweep, TypeOK, OnBus
  <2>3. reader = "active" \/ reader = "archive" \/ reader = "judge" \/ reader = "idle"
    BY DEF TypeOK
  <2> QED
    BY <1>3, <2>1, <2>2, <2>3 DEF Sweep, readerVars
<1>4. ASSUME NEW new \in Drafts, Commit(new)
      PROVE  ScanInv'
  BY <1>4 DEF Commit, busVars, readerVars
<1>5. CASE Begin
  <2>1. reader' = "active" /\ known' = OnBus /\ place' = place
    BY <1>5 DEF Begin, Directories, busVars
  <2>2. \A m \in OnBus : m \in todo' \/ place[m] = "archive"
    BY <1>5 DEF Begin, Directories, Listing, OnBus, TypeOK
  <2> QED
    BY <2>1, <2>2
<1>6. ASSUME NEW m \in Message, ReadMessage(m)
      PROVE  ScanInv'
  <2>1. ASSUME NEW k \in Key
        PROVE  filed'[k] >= filed[k]
    <3>1. filed[k] \in Int /\ filing[m].at \in Int
      BY DEF TypeOK
    <3>2. filed'[k] = IF place[m] = reader /\ k \in filing[m].ids
                      THEN MergeNewest(filed[k], filing[m].at) ELSE filed[k]
      BY <1>6 DEF ReadMessage
    <3> QED
      BY <3>1, <3>2 DEF MergeNewest
  <2>2. \A n \in known : Covered(n) => Covered(n)'
    <3> SUFFICES ASSUME NEW n \in known, Covered(n), NEW k \in filing[n].ids
                 PROVE  filed'[k] >= filing[n].at
      BY <1>6 DEF ReadMessage, busVars
    <3>1. n \in Message /\ k \in Key
      BY DEF TypeOK, OnBus
    <3>2. filed[k] \in Int /\ filed'[k] \in Int /\ filing[n].at \in Int
      BY <3>1, <1>6, TypeStep DEF TypeOK
    <3> QED
      BY <2>1, <3>1, <3>2
  <2>3. place[m] = reader => Covered(m)'
    <3> SUFFICES ASSUME place[m] = reader, NEW k \in filing[m].ids
                 PROVE  filed'[k] >= filing[m].at
      BY <1>6 DEF ReadMessage, busVars
    <3>1. k \in Key
      BY DEF TypeOK
    <3>2. filed[k] \in Int /\ filing[m].at \in Int
      BY <3>1 DEF TypeOK
    <3>3. filed'[k] = MergeNewest(filed[k], filing[m].at)
      BY <1>6, <3>1 DEF ReadMessage
    <3> QED
      BY <3>2, <3>3 DEF MergeNewest
  <2>4. /\ reader' = reader /\ known' = known /\ place' = place
        /\ todo' = todo \ {m} /\ m \in todo
        /\ reader \in {"active", "archive"}
    BY <1>6 DEF ReadMessage, busVars, TypeOK
  <2>5. place[m] \in {"active", "archive"}
    BY <2>4 DEF TypeOK, OnBus
  <2>6. CASE reader = "active"
    BY <2>2, <2>3, <2>4, <2>5, <2>6
  <2>7. CASE reader = "archive"
    BY <2>2, <2>3, <2>4, <2>5, <2>7
  <2> QED
    BY <2>4, <2>6, <2>7
<1>7. CASE ScanSecond
  <2>1. /\ reader = "active" /\ todo = {} /\ reader' = "archive"
        /\ known' = known /\ UNCHANGED <<place, filing, filed>>
        /\ \A m \in Message : place[m] = "archive" => m \in todo'
    BY <1>7 DEF ScanSecond, Directories, Listing, busVars
  <2>2. known \subseteq Message
    BY DEF TypeOK, OnBus
  <2> QED
    BY <2>1, <2>2
<1>8. ASSUME NEW all \in BOOLEAN, NEW tasks \in SUBSET Task, Ask(all, tasks)
      PROVE  ScanInv'
  BY <1>8 DEF Ask, Directories, busVars
<1>9. ASSUME NEW t \in Task, NEW lost \in SUBSET Scanned, Judge(t, lost)
      PROVE  ScanInv'
  BY <1>9 DEF Judge, busVars
<1>10. ASSUME NEW gatePassed \in BOOLEAN, Cut(gatePassed)
       PROVE  ScanInv'
  BY <1>10 DEF Cut, Rest
<1>11. CASE Consult
  BY <1>11 DEF Consult, Rest
<1>12. CASE UNCHANGED vars
  BY <1>12 DEF vars, busVars, readerVars
<1> QED
  BY <1>1, <1>2, <1>3, <1>4, <1>5, <1>6, <1>7, <1>8, <1>9, <1>10, <1>11, <1>12 DEF Next

(* filed_complete_by_change: a filing on the bus when the scan began is in *)
(* its result, and no older one in its place.                              *)
THEOREM EveryFilingIsRead == Spec => []NoFilingMissed
<1>1. Init => ScanInv
  BY DEF Init, ScanInv
<1>2. ScanInv => NoFilingMissed
  BY DEF ScanInv, NoFilingMissed, Covered
<1> QED
  BY <1>1, <1>2, ScanStep, CompletionTypeCorrect, PTL DEF Spec

----------------------------------------------------------------------------
(* Retractions *)

(* The newest of a nonempty set of commits exists. *)
LEMMA Newest ==
  ASSUME NEW n \in Nat, NEW S \in SUBSET (1..n), S # {}
  PROVE  Max(S) \in S /\ \A i \in S : Max(S) >= i
<1> DEFINE Bounds == {b \in Nat : \A i \in S : b >= i}
<1>1. n \in Bounds
  OBVIOUS
<1>2. PICK b \in Bounds : \A c \in Bounds : b <= c
  <2>1. PICK b \in Bounds : \A c \in Bounds : ~(<<c, b>> \in OpToRel(<, Nat))
    <3>1. Bounds \subseteq Nat /\ Bounds # {}
      BY <1>1
    <3> HIDE DEF Bounds
    <3> QED
      BY <3>1, NatLessThanWellFounded, WFMin, Zenon
  <2>2. \A c \in Bounds : ~(c < b)
    BY <2>1 DEF OpToRel
  <2> QED
    BY <2>2
<1>3. b \in S
  <2> SUFFICES ASSUME b \notin S PROVE FALSE
    OBVIOUS
  <2>1. \A i \in S : b - 1 >= i
    BY <1>2
  <2>2. PICK i \in S : TRUE
    OBVIOUS
  <2>3. b >= i /\ i >= 1
    BY <1>2
  <2>4. b - 1 \in Nat
    BY <2>3
  <2> QED
    BY <1>2, <2>1, <2>4
<1> QED
  BY <1>2, <1>3 DEF Max

(* What the answers rest on: whatever was read was filed, time goes        *)
(* forward from commit to commit, and without --all a task judged complete *)
(* was filed by itself.                                                    *)
FiledInv ==
  \A k \in Key :
    filed[k] # Absent => \E m \in OnBus : k \in filing[m].ids /\ filing[m].at = filed[k]

TimeInv ==
  \A i \in 1..Len(history) :
    /\ history[i].at <= clock
    /\ \A j \in 1..i : history[j].at <= history[i].at

PerTaskInv ==
  ~honorAll =>
    \A t \in Task : complete[t] = "yes" => \E m \in OnBus : t \in filing[m].ids

AnswerInv == FiledInv /\ TimeInv /\ PerTaskInv

(* What is on the bus stays there, as it was filed. *)
LEMMA BusGrows ==
  TypeOK /\ [Next]_vars =>
    /\ OnBus \subseteq OnBus'
    /\ \A m \in OnBus : filing'[m] = filing[m]
<1> SUFFICES ASSUME TypeOK, [Next]_vars
             PROVE  OnBus \subseteq OnBus' /\ \A m \in OnBus : filing'[m] = filing[m]
  OBVIOUS
<1>1. ASSUME NEW m \in Message, NEW ids \in Completed, NEW at \in Stamp, File(m, ids, at)
      PROVE  OnBus \subseteq OnBus' /\ \A n \in OnBus : filing'[n] = filing[n]
  BY <1>1 DEF File, TypeOK, OnBus
<1>2. ASSUME NEW m \in Message, Sweep(m)
      PROVE  OnBus \subseteq OnBus' /\ \A n \in OnBus : filing'[n] = filing[n]
  BY <1>2 DEF Sweep, TypeOK, OnBus
<1>3. CASE UNCHANGED busVars
  BY <1>3 DEF busVars, OnBus
<1> QED
  BY <1>1, <1>2, <1>3 DEF Next, vars, busVars, Tick, Commit, Begin, ReadMessage, ScanSecond,
     Ask, Judge, Cut, Consult, Rest

(* Only reading a message changes what was filed, to what it says. *)
LEMMA FiledStep == TypeOK /\ FiledInv /\ [Next]_vars => FiledInv'
<1> SUFFICES ASSUME TypeOK, FiledInv, [Next]_vars, NEW k \in Key, filed'[k] # Absent
             PROVE  \E m \in OnBus' : k \in filing'[m].ids /\ filing'[m].at = filed'[k]
  BY DEF FiledInv
<1>1. CASE filed'[k] = filed[k]
  BY <1>1, BusGrows DEF FiledInv
<1>2. ASSUME NEW m \in Message, ReadMessage(m), filed'[k] # filed[k]
      PROVE  \E n \in OnBus' : k \in filing'[n].ids /\ filing'[n].at = filed'[k]
  <2>1. k \in filing[m].ids /\ filed'[k] = filing[m].at /\ m \in OnBus
    BY <1>2 DEF ReadMessage, MergeNewest, TypeOK
  <2> QED
    BY <2>1, BusGrows
<1>3. CASE Rest
  BY <1>3 DEF Rest, NothingFiled
<1> QED
  BY <1>1, <1>2, <1>3 DEF Next, vars, readerVars, Tick, File, Sweep, Commit, Begin,
     ScanSecond, Ask, Judge, Cut, Consult

(* Only a commit adds to the history, at the time of the clock. *)
LEMMA TimeStep == TypeOK /\ TimeInv /\ [Next]_vars => TimeInv'
<1> SUFFICES ASSUME TypeOK, TimeInv, [Next]_vars PROVE TimeInv'
  OBVIOUS
<1>1. clock \in Nat /\ \A i \in 1..Len(history) : history[i].at \in Nat
  BY CommitTypes, Stamps DEF TypeOK
<1>2. CASE Tick
  BY <1>1, <1>2 DEF Tick, TimeInv, gitVars
<1>3. ASSUME NEW new \in Drafts, Commit(new)
      PROVE  TimeInv'
  <2>1. Len(history') = Len(history) + 1
    BY <1>3 DEF Commit, TypeOK
  <2>2. \A i \in 1..Len(history) : history'[i] = history[i]
    BY <1>3 DEF Commit, TypeOK
  <2>3. history'[Len(history) + 1].at = clock /\ clock' = clock
    BY <1>3 DEF Commit, TypeOK
  <2>4. Len(history) \in Nat
    BY DEF TypeOK
  <2>5. ASSUME NEW i \in 1..Len(history'), NEW j \in 1..i
        PROVE  history'[j].at <= history'[i].at /\ history'[i].at <= clock'
    <3>1. CASE i = Len(history) + 1 /\ j = i
      BY <1>1, <2>3, <3>1
    <3>2. CASE i = Len(history) + 1 /\ j # i
      <4>1. j \in 1..Len(history)
        BY <2>4, <3>2
      <4> QED
        BY <1>1, <2>2, <2>3, <3>2, <4>1 DEF TimeInv
    <3>3. CASE i # Len(history) + 1
      <4>1. i \in 1..Len(history) /\ j \in 1..Len(history) /\ j \in 1..i
        BY <2>1, <2>4, <3>3
      <4> QED
        BY <2>2, <2>3, <4>1 DEF TimeInv
    <3> QED
      BY <3>1, <3>2, <3>3
  <2>6. ASSUME NEW i \in 1..Len(history')
        PROVE  i \in 1..i
    BY <2>1, <2>4
  <2> QED
    BY <2>5, <2>6 DEF TimeInv
<1>4. CASE UNCHANGED <<clock, history>>
  BY <1>4 DEF TimeInv
<1> QED
  BY <1>2, <1>3, <1>4 DEF Next, vars, gitVars, readerVars, File, Sweep, Begin, ReadMessage,
     ScanSecond, Ask, Judge, Cut, Consult, Rest

(* Without --all, only its own filing speaks for a task. *)
LEMMA PerTaskStep == TypeOK /\ AnswerInv /\ [Next]_vars => PerTaskInv'
<1> SUFFICES ASSUME TypeOK, AnswerInv, [Next]_vars, ~honorAll',
                    NEW t \in Task, complete'[t] = "yes"
             PROVE  \E m \in OnBus' : t \in filing'[m].ids
  BY DEF PerTaskInv
<1>1. CASE honorAll' = honorAll /\ complete'[t] = complete[t]
  BY <1>1, BusGrows DEF AnswerInv, PerTaskInv
<1>2. ASSUME NEW u \in Task, NEW lost \in SUBSET Scanned, Judge(u, lost),
             complete'[t] # complete[t]
      PROVE  \E m \in OnBus' : t \in filing'[m].ids
  <2>1. t = u /\ IsEffectivelyComplete(t, lost) /\ ~honorAll
    BY <1>2 DEF Judge, TypeOK, readerVars
  <2>2. filed[t] # Absent
    BY <2>1 DEF IsEffectivelyComplete, Speaks
  <2>3. t \in Key
    BY Stamps
  <2> QED
    BY <2>2, <2>3, BusGrows DEF AnswerInv, FiledInv
<1>3. ASSUME NEW all \in BOOLEAN, NEW tasks \in SUBSET Task, Ask(all, tasks)
      PROVE  \E m \in OnBus' : t \in filing'[m].ids
  BY <1>3 DEF Ask, TypeOK, Directories, NothingJudged
<1>4. CASE Rest
  BY <1>4 DEF Rest, NothingJudged
<1> QED
  BY <1>1, <1>2, <1>3, <1>4 DEF Next, vars, readerVars, Tick, File, Sweep, Commit, Begin,
     ReadMessage, ScanSecond, Judge, Cut, Consult

(* The history and the answers keep what the theorems rest on. *)
LEMMA AnswersSound == Spec => [](TypeOK /\ ScanInv /\ AnswerInv)
<1>1. Init => ScanInv /\ AnswerInv
  BY DEF Init, ScanInv, AnswerInv, FiledInv, TimeInv, PerTaskInv, NothingFiled, NothingJudged
<1>2. TypeOK /\ AnswerInv /\ [Next]_vars => AnswerInv'
  BY FiledStep, TimeStep, PerTaskStep DEF AnswerInv
<1> QED
  BY <1>1, <1>2, ScanStep, CompletionTypeCorrect, PTL DEF Spec

(* The commit last_untick_at finds is as new as any it looks at. *)
LEMMA UntickIsNewest ==
  ASSUME TypeOK, TimeInv, NEW t \in Task, NEW lost, NEW i \in Scanned \ lost,
         Unticks(history[i], t)
  PROVE  LastUntickAt(t, lost) \in Int /\ LastUntickAt(t, lost) >= history[i].at
<1> DEFINE hits == {j \in Scanned \ lost : Unticks(history[j], t)}
<1>1. hits \in SUBSET (1..Len(history)) /\ i \in hits /\ Len(history) \in Nat
  BY DEF Scanned, TypeOK
<1>2. Max(hits) \in hits /\ Max(hits) >= i
  <2> HIDE DEF hits
  <2> QED
    BY <1>1, Newest
<1>3. LastUntickAt(t, lost) = history[Max(hits)].at
  BY <1>1 DEF LastUntickAt
<1>4. Max(hits) \in 1..Len(history) /\ i \in 1..Max(hits)
  <2> HIDE DEF hits
  <2>1. Max(hits) \in 1..Len(history) /\ i \in 1..Len(history)
    BY <1>1, <1>2
  <2> QED
    BY <1>1, <1>2, <2>1
<1>5. history[Max(hits)].at \in Int
  <2> HIDE DEF hits
  <2> QED
    BY <1>4, CommitTypes
<1> QED
  BY <1>3, <1>4, <1>5 DEF TimeInv

(* An un-tick it reports is one of the history. *)
LEMMA UntickIsReal ==
  ASSUME TypeOK, NEW t \in Task, NEW lost, LastUntickAt(t, lost) # Absent
  PROVE  \E i \in 1..Len(history) :
           Unticks(history[i], t) /\ history[i].at = LastUntickAt(t, lost)
<1> DEFINE hits == {j \in Scanned \ lost : Unticks(history[j], t)}
<1>1. hits # {} /\ LastUntickAt(t, lost) = history[Max(hits)].at
  BY DEF LastUntickAt
<1>2. hits \in SUBSET (1..Len(history)) /\ Len(history) \in Nat
  BY DEF Scanned, TypeOK
<1>3. Max(hits) \in hits
  <2> HIDE DEF hits
  <2> QED
    BY <1>1, <1>2, Newest
<1> QED
  BY <1>1, <1>2, <1>3

(* An answer comes from Judge alone. *)
LEMMA OnlyJudgeAnswers ==
  ASSUME TypeOK, [Next]_vars, NEW t \in Task,
         complete[t] = "unknown", complete'[t] # "unknown"
  PROVE  \E lost \in SUBSET Scanned : Judge(t, lost)
<1>1. ASSUME NEW u \in Task, NEW lost \in SUBSET Scanned, Judge(u, lost)
      PROVE  Judge(t, lost)
  BY <1>1 DEF Judge, TypeOK
<1>2. ~Rest
  BY DEF Rest, NothingJudged
<1>3. ~UNCHANGED complete
  OBVIOUS
<1> QED
  BY <1>1, <1>2, <1>3 DEF Next, vars, readerVars, Tick, File, Sweep, Commit, Begin,
     ReadMessage, ScanSecond, Ask, Cut, Consult

(* is_effectively_complete: a task judged complete has a filing that no    *)
(* un-tick git has shown is younger than, for any number of commits and    *)
(* any scan bound.                                                         *)
THEOREM RetractionsHold == Spec => RetractionHolds
<1>1. ASSUME TypeOK, AnswerInv, [Next]_vars, NEW t \in Task,
             complete[t] = "unknown", complete'[t] = "yes"
      PROVE  \E m \in OnBus :
               /\ {t, All} \intersect filing[m].ids # {}
               /\ \A i \in Scanned \ unread' :
                    t \in history[i].dropped \intersect history[i].opened
                      => filing[m].at >= history[i].at
  <2>1. PICK lost \in SUBSET Scanned : Judge(t, lost)
    BY <1>1, OnlyJudgeAnswers
  <2>2. unread' = lost /\ IsEffectivelyComplete(t, lost)
    BY <1>1, <2>1 DEF Judge, TypeOK
  <2>3. PICK k \in Speaks(t) : filed[k] # Absent /\ filed[k] >= LastUntickAt(t, lost)
    BY <2>2 DEF IsEffectivelyComplete
  <2>4. k \in {t, All} /\ k \in Key
    BY <2>3 DEF Speaks, Key
  <2>5. PICK m \in OnBus : k \in filing[m].ids /\ filing[m].at = filed[k]
    BY <1>1, <2>3, <2>4 DEF AnswerInv, FiledInv
  <2>6. ASSUME NEW i \in Scanned \ lost,
               t \in history[i].dropped \intersect history[i].opened
        PROVE  filing[m].at >= history[i].at
    <3>1. Unticks(history[i], t)
      BY <2>6, TaskAssumption DEF Unticks
    <3>2. LastUntickAt(t, lost) \in Int /\ LastUntickAt(t, lost) >= history[i].at
      BY <1>1, <3>1, UntickIsNewest DEF AnswerInv
    <3>3. filed[k] \in Int
      BY <1>1, <2>4, Stamps DEF TypeOK
    <3>4. history[i].at \in Int
      BY <1>1, CommitTypes DEF Scanned
    <3> QED
      BY <2>3, <2>5, <3>2, <3>3, <3>4
  <2> QED
    BY <2>2, <2>4, <2>5, <2>6
<1>2. TypeOK /\ AnswerInv /\ [Next]_vars =>
        [\A t \in Task : complete[t] = "unknown" /\ complete'[t] = "yes" =>
           \E m \in OnBus :
             /\ {t, All} \intersect filing[m].ids # {}
             /\ \A i \in Scanned \ unread' :
                  t \in history[i].dropped \intersect history[i].opened
                    => filing[m].at >= history[i].at]_vars
  BY <1>1
<1> QED
  BY <1>2, AnswersSound, PTL DEF Spec, RetractionHolds

(* is_effectively_complete: a task filed by itself before the scan, and    *)
(* un-ticked by no later commit, is not given out again.                   *)
THEOREM FinishedTasksStay == Spec => FinishedStaysFinished
<1>1. ASSUME TypeOK, ScanInv, [Next]_vars, NEW t \in Task,
             complete[t] = "unknown", complete'[t] = "no",
             NEW m \in known, t \in filing[m].ids
      PROVE  \E i \in 1..Len(history) :
               Unticks(history[i], t) /\ history[i].at > filing[m].at
  <2>1. PICK lost \in SUBSET Scanned : Judge(t, lost)
    BY <1>1, OnlyJudgeAnswers
  <2>2. reader = "judge" /\ ~IsEffectivelyComplete(t, lost)
    BY <1>1, <2>1 DEF Judge, TypeOK
  <2>3. filed[t] >= filing[m].at
    BY <1>1, <2>2 DEF ScanInv, Covered
  <2>4. /\ filed[t] \in Int /\ filing[m].at \in Int /\ filing[m].at # Absent
        /\ filing[m].at >= Undated
    <3>1. filing[m].at \in Time \union {Undated} /\ t \in Key
      BY <1>1, Stamps DEF TypeOK, OnBus
    <3>2. filed[t] \in Int
      BY <1>1, <3>1, Stamps DEF TypeOK
    <3>3. filing[m].at \in Nat \/ filing[m].at = -1
      BY <3>1, Stamps DEF Undated
    <3> QED
      BY <3>2, <3>3 DEF Absent, Undated
  <2>5. filed[t] # Absent
    BY <2>3, <2>4 DEF Absent, Undated
  <2>6. ~(filed[t] >= LastUntickAt(t, lost))
    BY <2>2, <2>5 DEF IsEffectivelyComplete, Speaks
  <2>7. LastUntickAt(t, lost) # Absent
    BY <2>3, <2>4, <2>6 DEF Absent, Undated
  <2>8. PICK i \in 1..Len(history) :
          Unticks(history[i], t) /\ history[i].at = LastUntickAt(t, lost)
    BY <1>1, <2>7, UntickIsReal
  <2>9. history[i].at \in Nat
    BY <1>1, CommitTypes
  <2> QED
    BY <2>3, <2>4, <2>6, <2>8, <2>9
<1>2. TypeOK /\ ScanInv /\ [Next]_vars =>
        [\A t \in Task : complete[t] = "unknown" /\ complete'[t] = "no" =>
           \A m \in known :
             t \in filing[m].ids =>
               \E i \in 1..Len(history) :
                 Unticks(history[i], t) /\ history[i].at > filing[m].at]_vars
  BY <1>1
<1> QED
  BY <1>2, AnswersSound, PTL DEF Spec, FinishedStaysFinished

(* cut_eligibility: a change is found eligible only if every task asked    *)
(* about was filed by itself.                                              *)
THEOREM CutsArePerTask == Spec => CutIsPerTask
<1>1. ASSUME TypeOK, AnswerInv, [Next]_vars,
             status' = "eligible", reader = "judge", ~honorAll, reader' = "idle",
             NEW t \in asked
      PROVE  \E m \in OnBus : t \in filing[m].ids
  <2>1. PICK gatePassed \in BOOLEAN : Cut(gatePassed)
    BY <1>1 DEF Next, vars, readerVars, Tick, File, Sweep, Commit, Begin, ReadMessage,
       ScanSecond, Ask, Judge, Consult, Directories
  <2>2. t \in Task /\ complete[t] # "unknown" /\ complete[t] # "no"
    BY <1>1, <2>1 DEF Cut, Judged, TypeOK
  <2>3. complete[t] = "yes"
    BY <1>1, <2>2 DEF TypeOK
  <2> QED
    BY <1>1, <2>2, <2>3 DEF AnswerInv, PerTaskInv
<1>2. TypeOK /\ AnswerInv /\ [Next]_vars =>
        [status' = "eligible" /\ reader = "judge" /\ ~honorAll /\ reader' = "idle" =>
           \A t \in asked : \E m \in OnBus : t \in filing[m].ids]_vars
  BY <1>1
<1> QED
  BY <1>2, AnswersSound, PTL DEF Spec, CutIsPerTask

----------------------------------------------------------------------------
(* The inputs *)

(* What a given input is taken from.                                       *)
GiveTypes ==
  /\ Is("message") =>
       given.m \in Messages /\ given.known \in KnownAgents /\ given.platform \in Routed
  /\ Is("path") =>
       /\ given.platform \in Platforms /\ given.path \in Paths
       /\ GetRepo(given.platform, given.repo) # {}
  /\ Is("session") =>
       /\ given.platform \in Platforms
       /\ \E spot \in Places : given.cwd = spot.cwd /\ given.main = spot.main
  /\ Is("send") => given.s \in Sends
  /\ Is("frontmatter") => given.fm \in Frontmatters
  /\ Is("stem") => given.sender \in Senders /\ given.recipient \in Recipients
                     /\ given.slug \in Slugs /\ given.known \in KnownNames
  /\ Is("address") => given.raw \in Addresses /\ given.here \in Locals /\ given.there \in Locals
  /\ Is("envelope") => given.items \in Envelopes
  /\ Is("place") => given.tree \in Trees /\ given.env \in Envs /\ given.cwd \in Cwds
  /\ Is("request") => given.tree \in Machines /\ given.q \in Requests

LEMMA GivenIsTyped == GiveSpec => []GiveTypes
<1>1. GiveInit => GiveTypes
  BY DEF GiveInit, Nothing, GiveTypes, Is
<1>2. GiveTypes /\ [GiveNext]_giveVars => GiveTypes'
  <2> SUFFICES ASSUME GiveTypes, [GiveNext]_giveVars
               PROVE  GiveTypes'
    OBVIOUS
  <2>1. CASE GiveMessage
    BY <2>1 DEF GiveMessage, GiveTypes, Is
  <2>2. CASE GivePath
    BY <2>2 DEF GivePath, GiveTypes, Is
  <2>3. CASE GiveSession
    BY <2>3 DEF GiveSession, GiveTypes, Is
  <2>4. CASE GiveSend
    BY <2>4 DEF GiveSend, GiveTypes, Is
  <2>5. CASE GiveFrontmatter
    BY <2>5 DEF GiveFrontmatter, GiveTypes, Is
  <2>6. CASE GiveStem
    BY <2>6 DEF GiveStem, GiveTypes, Is
  <2>7. CASE GiveAddress
    BY <2>7 DEF GiveAddress, GiveTypes, Is
  <2>8. CASE GiveEnvelope
    BY <2>8 DEF GiveEnvelope, GiveTypes, Is
  <2>9. CASE GivePlace
    BY <2>9 DEF GivePlace, GiveTypes, Is
  <2>10. CASE GiveRequest
    BY <2>10 DEF GiveRequest, GiveTypes, Is
  <2>11. CASE UNCHANGED giveVars
    <3>1. given' = given
      BY <2>11 DEF giveVars
    <3> QED
      BY <3>1 DEF GiveTypes, Is
  <2> QED
    BY <2>1, <2>2, <2>3, <2>4, <2>5, <2>6, <2>7, <2>8, <2>9, <2>10, <2>11 DEF GiveNext
<1> QED
  BY <1>1, <1>2, PTL DEF GiveSpec

----------------------------------------------------------------------------
(* Numbers, lists and sets *)

LEMMA LeastIsLeast ==
  ASSUME NEW set \in SUBSET Nat, set # {}
  PROVE  Min(set) \in set /\ \A y \in set : Min(set) <= y
<1>1. \E x \in set : \A y \in set : x <= y
  <2>1. \E x \in set : \A y \in set : ~(<<y, x>> \in OpToRel(<, Nat))
    BY NatLessThanWellFounded, WFMin
  <2>2. \A y, z \in Nat : y < z => <<y, z>> \in OpToRel(<, Nat)
    BY DEF OpToRel
  <2>3. PICK x \in set : \A y \in set : ~(<<y, x>> \in OpToRel(<, Nat))
    BY <2>1
  <2>4. ASSUME NEW y \in set PROVE x <= y
    <3>1. x \in Nat /\ y \in Nat /\ ~(y < x)
      BY <2>2, <2>3, Zenon
    <3> QED
      BY ONLY <3>1
  <2> QED
    BY <2>4
<1> QED
  BY <1>1 DEF Min

(* A list has a length and its places are numbered.                        *)
LEMMA Lists ==
  ASSUME NEW s, IsList(s)
  PROVE  /\ Len(s) \in Nat /\ DOMAIN s = 1..Len(s)
         /\ \A i \in 1..Len(s) : s[i] \in ToSet(s)
         /\ s = [i \in 1..Len(s) |-> s[i]]
         /\ (s = <<>>) <=> (Len(s) = 0)
<1>1. s \in Seq(ToSet(s))
  BY DEF IsList
<1> QED
  BY <1>1, LenProperties, EmptySeq DEF ToSet

(* What is a function on 1..n is a list.                                   *)
LEMMA ListOf ==
  ASSUME NEW n \in Nat, NEW s, s = [i \in 1..n |-> s[i]]
  PROVE  IsList(s) /\ Len(s) = n /\ DOMAIN s = 1..n /\ ToSet(s) = {s[i] : i \in 1..n}
<1>1. DOMAIN s = 1..n
  OBVIOUS
<1>2. s \in [1..n -> ToSet(s)]
  BY <1>1 DEF ToSet
<1>3. s \in Seq(ToSet(s))
  BY <1>2, SeqDef
<1> QED
  BY <1>1, <1>3, LenProperties DEF IsList, ToSet

(* Two lists are equal that have one length and the same at every place.   *)
LEMMA SameLists ==
  ASSUME NEW s, NEW t, IsList(s), IsList(t), Len(s) = Len(t),
         \A i \in 1..Len(s) : s[i] = t[i]
  PROVE  s = t
BY Lists

(* The beginning and the end of a list.                                    *)
LEMMA PartOf ==
  ASSUME NEW s, IsList(s), NEW m \in Nat, NEW n \in Nat, 1 <= m, n <= Len(s)
  PROVE  /\ IsList(SubSeq(s, m, n))
         /\ Len(SubSeq(s, m, n)) = IF m <= n THEN n - m + 1 ELSE 0
         /\ \A i \in 1..(n - m + 1) : SubSeq(s, m, n)[i] = s[m + i - 1]
<1>1. \A i \in m..n : s[i] \in ToSet(s)
  BY Lists
<1>2. /\ SubSeq(s, m, n) \in Seq(ToSet(s))
      /\ Len(SubSeq(s, m, n)) = IF m <= n THEN n - m + 1 ELSE 0
      /\ \A i \in 1..(n - m + 1) : SubSeq(s, m, n)[i] = s[m + i - 1]
  BY <1>1, SubSeqProperties
<1>3. /\ Len(SubSeq(s, m, n)) \in Nat
      /\ SubSeq(s, m, n) = [i \in 1..Len(SubSeq(s, m, n)) |-> SubSeq(s, m, n)[i]]
  BY <1>2, LenProperties
<1> QED
  BY <1>2, <1>3, ListOf

(* A prefix is what a list has at its first places.                        *)
LEMMA PrefixIs ==
  ASSUME NEW s, NEW t, IsList(s), IsList(t)
  PROVE  /\ IsPrefix(s, t) <=> Len(s) <= Len(t) /\ \A i \in 1..Len(s) : s[i] = t[i]
         /\ IsPrefix(s, t) <=> Len(s) <= Len(t) /\ s = SubSeq(t, 1, Len(s))
<1>1. SubSeq(s, 1, Len(s)) = s
  BY SubSeqFull DEF IsList
<1>2. ASSUME Len(s) <= Len(t)
      PROVE  s = SubSeq(t, 1, Len(s)) <=> \A i \in 1..Len(s) : s[i] = t[i]
  <2> DEFINE r == SubSeq(t, 1, Len(s))
  <2>1. /\ IsList(r)
        /\ Len(r) = IF 1 <= Len(s) THEN Len(s) - 1 + 1 ELSE 0
        /\ \A i \in 1..(Len(s) - 1 + 1) : r[i] = t[1 + i - 1]
    BY <1>2, Lists, PartOf
  <2>2. Len(r) = Len(s) /\ \A i \in 1..Len(s) : r[i] = t[i]
    BY <2>1, Lists
  <2> HIDE DEF r
  <2>3. (\A i \in 1..Len(s) : s[i] = t[i]) => s = r
    BY <2>1, <2>2, SameLists
  <2> QED
    BY <2>2, <2>3 DEF r
<1> QED
  BY <1>1, <1>2 DEF IsPrefix

(* One list put behind another.                                            *)
LEMMA Joined ==
  ASSUME NEW s, NEW t, IsList(s), IsList(t)
  PROVE  /\ IsList(s \o t) /\ Len(s \o t) = Len(s) + Len(t)
         /\ \A i \in 1..Len(s) : (s \o t)[i] = s[i]
         /\ \A i \in 1..Len(t) : (s \o t)[Len(s) + i] = t[i]
         /\ ToSet(s \o t) = ToSet(s) \cup ToSet(t)
<1> DEFINE both == ToSet(s) \cup ToSet(t)
<1>1. s \in Seq(both) /\ t \in Seq(both)
  BY SeqMonotonic DEF IsList
<1>2. /\ s \o t \in Seq(both)
      /\ Len(s \o t) = Len(s) + Len(t)
      /\ \A i \in 1..(Len(s) + Len(t)) :
           (s \o t)[i] = IF i <= Len(s) THEN s[i] ELSE t[i - Len(s)]
  BY <1>1, ConcatProperties
<1>3. /\ Len(s) \in Nat /\ Len(t) \in Nat
      /\ DOMAIN s = 1..Len(s) /\ DOMAIN t = 1..Len(t)
  BY Lists
<1>4. s \o t = [i \in 1..(Len(s) + Len(t)) |-> (s \o t)[i]]
  BY <1>2, LenProperties
<1>5. IsList(s \o t) /\ DOMAIN (s \o t) = 1..(Len(s) + Len(t))
  BY <1>3, <1>4, ListOf
<1> HIDE DEF both
<1>6. \A i \in 1..Len(s) : i \in 1..(Len(s) + Len(t)) /\ (s \o t)[i] = s[i]
  BY <1>2, <1>3
<1>7. \A i \in 1..Len(t) :
        Len(s) + i \in 1..(Len(s) + Len(t)) /\ (s \o t)[Len(s) + i] = t[i]
  BY <1>2, <1>3
<1>8. ToSet(s) \cup ToSet(t) \subseteq ToSet(s \o t)
  BY <1>3, <1>5, <1>6, <1>7 DEF ToSet
<1>9. ASSUME NEW i \in 1..(Len(s) + Len(t)) PROVE (s \o t)[i] \in ToSet(s) \cup ToSet(t)
  <2>1. CASE i <= Len(s)
    BY <1>2, <1>3, <2>1 DEF ToSet
  <2>2. CASE ~(i <= Len(s))
    <3>1. i - Len(s) \in 1..Len(t) /\ (s \o t)[i] = t[i - Len(s)]
      BY <1>2, <1>3, <2>2
    <3> QED
      BY <1>3, <3>1 DEF ToSet
  <2> QED
    BY <2>1, <2>2
<1>10. ToSet(s \o t) \subseteq ToSet(s) \cup ToSet(t)
  BY <1>5, <1>9 DEF ToSet
<1> QED
  BY <1>2, <1>5, <1>6, <1>7, <1>8, <1>10

(* A finite set as a list has each of its elements once.                   *)
LEMMA SetAsList ==
  ASSUME NEW S, IsFiniteSet(S)
  PROVE  /\ IsList(SetToSeq(S)) /\ Len(SetToSeq(S)) = Cardinality(S) /\ ToSet(SetToSeq(S)) = S
         /\ \A i, j \in DOMAIN SetToSeq(S) : SetToSeq(S)[i] = SetToSeq(S)[j] => i = j
<1> DEFINE n == Cardinality(S)
           f == SetToSeq(S)
<1>1. n \in Nat /\ ExistsBijection(1..n, S)
  BY FS_CardinalityType
<1>2. \E g \in [1..n -> S] : IsInjective(g)
  BY <1>1 DEF ExistsBijection, Bijection, Injection
<1>3. f \in [1..n -> S] /\ IsInjective(f)
  BY <1>2 DEF SetToSeq
<1>4. f \in Injection(1..n, S)
  BY <1>3 DEF Injection
<1>5. f \in Surjection(1..n, S)
  <2>1. IsFiniteSet(1..n) /\ Cardinality(1..n) = n
    BY <1>1, FS_Interval
  <2> QED
    BY <1>4, <2>1, FS_Injection
<1> HIDE DEF f
<1>6. f = [i \in 1..n |-> f[i]]
  BY <1>3
<1>7. IsList(f) /\ Len(f) = n /\ DOMAIN f = 1..n /\ ToSet(f) = {f[i] : i \in 1..n}
  BY <1>1, <1>6, ListOf
<1>8. {f[i] : i \in 1..n} = S
  BY <1>3, <1>5 DEF Surjection
<1> QED
  BY <1>3, <1>7, <1>8 DEF IsInjective, f

(* What a finite list has is a finite set. *)
LEMMA ListIsFinite ==
  ASSUME NEW s, IsList(s)
  PROVE  IsFiniteSet(ToSet(s))
<1>1. Len(s) \in Nat /\ DOMAIN s = 1..Len(s)
  BY Lists
<1>2. s \in Surjection(1..Len(s), ToSet(s))
  BY <1>1, Lists DEF Surjection, ToSet
<1>3. IsFiniteSet(1..Len(s))
  BY <1>1, FS_Interval
<1> QED
  BY <1>2, <1>3, FS_Surjection

----------------------------------------------------------------------------
(* Owners of paths *)

(* Of finitely many there is one for which a number is greatest: one with  *)
(* fewest above it.                                                        *)
LEMMA SomeGreatest ==
  ASSUME NEW S, IsFiniteSet(S), S # {}, NEW f \in [S -> Int]
  PROVE  \E x \in S : \A y \in S : f[y] <= f[x]
<1> DEFINE Above(x) == {y \in S : f[y] > f[x]}
           counts == {Cardinality(Above(x)) : x \in S}
<1>1. \A x \in S : IsFiniteSet(Above(x)) /\ Cardinality(Above(x)) \in Nat
  <2> SUFFICES ASSUME NEW x \in S PROVE IsFiniteSet(Above(x)) /\ Cardinality(Above(x)) \in Nat
    OBVIOUS
  <2>1. Above(x) \in SUBSET S
    OBVIOUS
  <2> QED
    BY <2>1, FS_Subset, FS_CardinalityType
<1>2. counts \in SUBSET Nat /\ counts # {}
  BY <1>1
<1>3. PICK x \in S : Cardinality(Above(x)) = Min(counts)
  <2>1. Min(counts) \in counts
    <3> HIDE DEF counts
    <3> QED
      BY <1>2, LeastIsLeast
  <2> QED
    BY <2>1
<1>4. \A y \in S : Cardinality(Above(x)) <= Cardinality(Above(y))
  <2>1. \A c \in counts : Min(counts) <= c
    <3> HIDE DEF counts
    <3> QED
      BY <1>2, LeastIsLeast
  <2> QED
    BY <1>3, <2>1
<1>5. ASSUME NEW y \in S, ~(f[y] <= f[x]) PROVE FALSE
  <2>1. Above(y) \in SUBSET Above(x) /\ y \in Above(x) /\ y \notin Above(y)
    BY <1>5
  <2>2. Cardinality(Above(y)) < Cardinality(Above(x))
    <3>1. Cardinality(Above(y)) <= Cardinality(Above(x))
      BY <1>1, <2>1, FS_Subset
    <3>2. Cardinality(Above(x)) # Cardinality(Above(y))
      BY <1>1, <2>1, FS_Subset
    <3> QED
      BY <1>1, <3>1, <3>2
  <2> HIDE DEF Above
  <2> QED
    BY <1>1, <1>4, <2>2
<1> QED
  BY <1>5

(* The owner paths of a repo, and those of them that match a path.         *)
AreOwnerPaths(ps) ==
  IsList(ps) /\ \A i \in 1..Len(ps) : IsList(ps[i].pattern.tokens) /\ ps[i].pattern.pad \in Nat
Matching(ps, path) == {i \in DOMAIN ps : PathMatches(path, ps[i].pattern)}

(* The length of a pattern is a number, and counts its slashes.            *)
LEMMA Lengths ==
  ASSUME NEW p, IsList(p.tokens), p.pad \in Nat
  PROVE  /\ Length(p) \in Int
         /\ ~Wild(p) => Length(p) = p.pad + 2 * Len(p.tokens) - 1
<1> DEFINE stars == {i \in DOMAIN p.tokens : p.tokens[i] = "**"}
<1>1. Len(p.tokens) \in Nat /\ DOMAIN p.tokens = 1..Len(p.tokens)
  BY Lists
<1>2. Cardinality(stars) \in Nat
  <2>1. IsFiniteSet(1..Len(p.tokens)) /\ stars \in SUBSET (1..Len(p.tokens))
    BY <1>1, FS_Interval
  <2> QED
    BY <2>1, FS_Subset, FS_CardinalityType
<1>3. ~Wild(p) => stars = {}
  BY DEF Wild, ToSet
<1>4. Cardinality({}) = 0
  BY FS_EmptySet
<1>5. Length(p) = p.pad + 2 * Len(p.tokens) - 1 + Cardinality(stars)
  BY DEF Length
<1>6. p.pad + 2 * Len(p.tokens) - 1 \in Int
  BY <1>1
<1> HIDE DEF stars
<1>7. Length(p) \in Int
  BY <1>1, <1>2, <1>5
<1>8. ASSUME ~Wild(p) PROVE Length(p) = p.pad + 2 * Len(p.tokens) - 1
  <2>1. Cardinality(stars) = 0
    BY <1>3, <1>4, <1>8
  <2> QED
    BY <1>5, <1>6, <2>1
<1> QED
  BY <1>7, <1>8

(* The owner of a path is that of a pattern which matches, none of those   *)
(* that match being longer nor as long and before it, else the repo's.     *)
LEMMA OwnerIs ==
  ASSUME NEW repo, NEW path, AreOwnerPaths(repo.owner_paths)
  PROVE  LET ps == repo.owner_paths
             matching == Matching(ps, path)
         IN  IF matching = {} THEN OwnerOf(repo, path) = repo.owner
             ELSE \E i \in matching :
                    /\ OwnerOf(repo, path) = ps[i].agent
                    /\ \A j \in matching :
                         /\ Length(ps[j].pattern) <= Length(ps[i].pattern)
                         /\ Length(ps[j].pattern) = Length(ps[i].pattern) => i <= j
<1> DEFINE ps == repo.owner_paths
           matching == Matching(ps, path)
           longest == {i \in matching : \A j \in matching :
                         Length(ps[j].pattern) <= Length(ps[i].pattern)}
<1>1. /\ Len(ps) \in Nat /\ DOMAIN ps = 1..Len(ps)
      /\ \A i \in 1..Len(ps) : Length(ps[i].pattern) \in Int
  BY Lists, Lengths DEF AreOwnerPaths
<1>2. OwnerOf(repo, path) = IF matching = {} THEN repo.owner ELSE ps[Min(longest)].agent
  BY DEF OwnerOf, Matching
<1>3. matching \in SUBSET (1..Len(ps)) /\ IsFiniteSet(matching)
  <2>1. matching \in SUBSET (1..Len(ps))
    BY <1>1 DEF Matching
  <2>2. IsFiniteSet(1..Len(ps))
    <3>1. Len(ps) \in Int /\ 1 \in Int
      BY <1>1
    <3> HIDE DEF ps
    <3> QED
      BY ONLY <3>1, FS_Interval
  <2> QED
    BY <2>1, <2>2, FS_Subset
<1> HIDE DEF matching, ps
<1>4. ASSUME matching # {} PROVE longest # {}
  <2> DEFINE f == [i \in matching |-> Length(ps[i].pattern)]
  <2>1. f \in [matching -> Int]
    BY <1>1, <1>3
  <2> HIDE DEF f
  <2>2. \E i \in matching : \A j \in matching : f[j] <= f[i]
    BY <1>3, <1>4, <2>1, SomeGreatest
  <2>3. \A i \in matching : f[i] = Length(ps[i].pattern)
    BY DEF f
  <2> QED
    BY <2>2, <2>3
<1>5. ASSUME matching # {}
      PROVE  /\ Min(longest) \in longest
             /\ \A i \in longest : Min(longest) <= i
  <2>1. longest \in SUBSET Nat /\ longest # {}
    <3>1. \A i \in longest : i \in 1..Len(ps)
      BY <1>3
    <3>2. longest # {}
      BY <1>4, <1>5
    <3> HIDE DEF longest
    <3> QED
      BY <3>1, <3>2
  <2> HIDE DEF longest
  <2> QED
    BY <2>1, LeastIsLeast
<1>6. ASSUME matching # {}
      PROVE  \E i \in matching :
               /\ OwnerOf(repo, path) = ps[i].agent
               /\ \A j \in matching :
                    /\ Length(ps[j].pattern) <= Length(ps[i].pattern)
                    /\ Length(ps[j].pattern) = Length(ps[i].pattern) => i <= j
  <2>1. /\ Min(longest) \in matching
        /\ \A j \in matching : Length(ps[j].pattern) <= Length(ps[Min(longest)].pattern)
    BY <1>5, <1>6
  <2>2. ASSUME NEW j \in matching, Length(ps[j].pattern) = Length(ps[Min(longest)].pattern)
        PROVE  Min(longest) <= j
    <3>1. j \in longest
      BY <2>1, <2>2
    <3> HIDE DEF longest
    <3> QED
      BY <1>5, <1>6, <3>1
  <2> HIDE DEF longest
  <2> QED
    BY <1>2, <1>6, <2>1, <2>2
<1> QED
  BY <1>2, <1>6 DEF matching, ps

(* What a repo that is found is.                                           *)
LEMMA FoundRepo ==
  ASSUME NEW platform, IsPlatform(platform), NEW name, NEW r \in GetRepo(platform, name)
  PROVE  /\ r \in ToSet(platform) /\ r.name = name
         /\ AreOwnerPaths(r.owner_paths)
         /\ r = [name |-> r.name, owner |-> r.owner, owner_paths |-> r.owner_paths,
                 path |-> r.path]
<1>1. r \in ToSet(platform) /\ r.name = name
  BY DEF GetRepo, ToSet
<1>2. \A e \in ToSet(r.owner_paths) : IsList(e.pattern.tokens) /\ e.pattern.pad \in Nat
  BY <1>1 DEF IsPlatform
<1>3. IsList(r.owner_paths)
  BY <1>1 DEF IsPlatform
<1>4. AreOwnerPaths(r.owner_paths)
  BY <1>2, <1>3, Lists DEF AreOwnerPaths
<1> QED
  BY <1>1, <1>4 DEF IsPlatform

(* A pattern without wildcards matches what lies at it or below it.        *)
LEMMA PlainMatches ==
  ASSUME NEW p, NEW path, IsList(p.tokens), IsList(path), ~Wild(p)
  PROVE  PathMatches(path, p) <=>
           /\ Len(p.tokens) \in 1..Len(path)
           /\ p.tokens = SubSeq(path, 1, Len(p.tokens))
<1>1. Len(p.tokens) \in Nat /\ Len(path) \in Nat /\ (p.tokens = <<>> <=> Len(p.tokens) = 0)
  BY Lists
<1>2. PathMatches(path, p) <=> p.tokens # <<>> /\ IsPrefix(p.tokens, path)
  BY DEF PathMatches
<1>3. IsPrefix(p.tokens, path) <=>
        Len(p.tokens) <= Len(path) /\ p.tokens = SubSeq(path, 1, Len(p.tokens))
  BY PrefixIs
<1> QED
  BY <1>1, <1>2, <1>3

LEMMA NearestIsOwner == GiveTypes => NearestOwns
<1> SUFFICES ASSUME GiveTypes, Is("path") PROVE NearestOwns
  BY DEF NearestOwns
<1> DEFINE repo == CHOOSE r \in GetRepo(given.platform, given.repo) : TRUE
           ops == repo.owner_paths
           ps == ToSet(ops)
           path == given.path
           above == {k \in 1..Len(path) : \E e \in ps : e.pattern.tokens = SubSeq(path, 1, k)}
           owner == ResolveOwner(given.platform, given.repo, path)
           matching == Matching(ops, path)
<1> SUFFICES ASSUME \A e \in ps : ~Wild(e.pattern) /\ e.pattern.pad <= 1
             PROVE  IF above = {} THEN owner = repo.owner
                    ELSE \E e \in ps : /\ e.pattern.tokens = SubSeq(path, 1, Max(above))
                                       /\ e.agent = owner
  BY DEF NearestOwns
<1>1. IsPlatform(given.platform) /\ IsList(path) /\ GetRepo(given.platform, given.repo) # {}
  BY BusAssumption DEF GiveTypes
<1>2. AreOwnerPaths(ops)
  BY <1>1, FoundRepo
<1>3. /\ IsList(ops) /\ Len(ops) \in Nat /\ DOMAIN ops = 1..Len(ops)
      /\ \A i \in DOMAIN ops : /\ ops[i] \in ps /\ IsList(ops[i].pattern.tokens)
                               /\ ops[i].pattern.pad \in Nat
  BY <1>2, Lists DEF AreOwnerPaths
<1>4. owner = OwnerOf(repo, path)
  BY DEF ResolveOwner
<1>5. Len(path) \in Nat
  BY <1>1, Lists
<1> DEFINE depth(i) == Len(ops[i].pattern.tokens)
<1>6. \A i \in matching : /\ i \in DOMAIN ops /\ depth(i) \in above
                          /\ ops[i].pattern.tokens = SubSeq(path, 1, depth(i))
  <2> SUFFICES ASSUME NEW i \in matching
               PROVE  /\ i \in DOMAIN ops /\ depth(i) \in above
                      /\ ops[i].pattern.tokens = SubSeq(path, 1, depth(i))
    OBVIOUS
  <2>1. i \in DOMAIN ops /\ PathMatches(path, ops[i].pattern)
    BY DEF Matching
  <2>2. ops[i] \in ps /\ IsList(ops[i].pattern.tokens) /\ ~Wild(ops[i].pattern)
    BY <1>3, <2>1
  <2>3. depth(i) \in 1..Len(path) /\ ops[i].pattern.tokens = SubSeq(path, 1, depth(i))
    BY <1>1, <2>1, <2>2, PlainMatches
  <2> HIDE DEF ps, ops
  <2> QED
    BY <2>1, <2>2, <2>3
<1>7. \A k \in above : \E i \in matching : depth(i) = k
  <2> SUFFICES ASSUME NEW k \in above
               PROVE  \E i \in matching : depth(i) = k
    OBVIOUS
  <2>1. PICK i \in DOMAIN ops : ops[i].pattern.tokens = SubSeq(path, 1, k)
    BY DEF ToSet
  <2>2. k \in 1..Len(path) /\ Len(SubSeq(path, 1, k)) = k
    BY <1>1, <1>5, PartOf
  <2>3. depth(i) = k
    BY <2>1, <2>2
  <2>4. PathMatches(path, ops[i].pattern)
    BY <1>1, <1>3, <2>1, <2>2, <2>3, PlainMatches
  <2> QED
    BY <2>1, <2>3, <2>4 DEF Matching
<1>8. \A i \in matching : /\ ops[i].pattern.pad \in 0..1 /\ depth(i) \in Nat
                          /\ Length(ops[i].pattern) = ops[i].pattern.pad + 2 * depth(i) - 1
  <2> SUFFICES ASSUME NEW i \in matching
               PROVE  /\ ops[i].pattern.pad \in 0..1 /\ depth(i) \in Nat
                      /\ Length(ops[i].pattern) = ops[i].pattern.pad + 2 * depth(i) - 1
    OBVIOUS
  <2>1. /\ ops[i] \in ps /\ IsList(ops[i].pattern.tokens) /\ ops[i].pattern.pad \in Nat
    BY <1>3, <1>6
  <2>2. ~Wild(ops[i].pattern) /\ ops[i].pattern.pad <= 1
    BY <2>1
  <2>3. Length(ops[i].pattern) = ops[i].pattern.pad + 2 * depth(i) - 1
    BY <2>1, <2>2, Lengths
  <2>4. depth(i) \in Nat
    BY <2>1, Lists
  <2>5. ops[i].pattern.pad \in 0..1
    <3> HIDE DEF ops
    <3> QED
      BY <2>1, <2>2
  <2> QED
    BY <2>3, <2>4, <2>5
<1>9. CASE above = {}
  <2>1. matching = {}
    BY <1>6, <1>9
  <2> HIDE DEF repo, matching
  <2> QED
    BY <1>2, <1>4, <1>9, <2>1, OwnerIs DEF matching
<1>10. CASE above # {}
  <2>1. Max(above) \in above /\ \A k \in above : Max(above) >= k
    <3>1. above \in SUBSET (1..Len(path))
      OBVIOUS
    <3> HIDE DEF above
    <3> QED
      BY <1>5, <1>10, <3>1, Newest
  <2>2. PICK top \in matching : depth(top) = Max(above)
    BY <1>7, <2>1
  <2>3. PICK i \in matching :
          /\ OwnerOf(repo, path) = ops[i].agent
          /\ \A j \in matching : Length(ops[j].pattern) <= Length(ops[i].pattern)
    <3> HIDE DEF repo
    <3> QED
      BY <1>2, <2>2, OwnerIs
  <2>4. depth(i) = Max(above)
    <3>1. Length(ops[top].pattern) <= Length(ops[i].pattern)
      BY <2>3
    <3>2. depth(i) <= depth(top)
      BY <1>6, <2>1, <2>2
    <3> HIDE DEF depth, ops, above
    <3>3. depth(i) = depth(top)
      BY <1>8, <3>1, <3>2
    <3> QED
      BY <2>2, <3>3
  <2>5. ops[i] \in ps /\ ops[i].pattern.tokens = SubSeq(path, 1, Max(above))
    <3>1. ops[i].pattern.tokens = SubSeq(path, 1, depth(i))
      BY <1>6
    <3>2. ops[i] \in ps
      BY <1>3, <1>6
    <3> HIDE DEF above, ops, ps
    <3> QED
      BY <2>4, <3>1, <3>2
  <2> HIDE DEF above, ps, ops
  <2> QED
    BY <1>4, <1>10, <2>3, <2>5
<1> QED
  BY <1>9, <1>10

(* A list turned round has the same at places counted from its end.        *)
LEMMA TurnedRound ==
  ASSUME NEW s, IsList(s)
  PROVE  /\ IsList(Reverse(s)) /\ Len(Reverse(s)) = Len(s)
         /\ \A i \in 1..Len(s) : /\ Len(s) + 1 - i \in 1..Len(s)
                                 /\ Reverse(s)[i] = s[Len(s) + 1 - i]
<1>1. Len(s) \in Nat
  BY Lists
<1>2. Reverse(s) = [i \in 1..Len(s) |-> s[(Len(s) - i) + 1]]
  BY DEF Reverse
<1>3. Reverse(s) = [i \in 1..Len(s) |-> Reverse(s)[i]]
  BY <1>2
<1>4. IsList(Reverse(s)) /\ Len(Reverse(s)) = Len(s)
  BY <1>1, <1>3, ListOf
<1>5. \A i \in 1..Len(s) : Len(s) + 1 - i \in 1..Len(s) /\ (Len(s) - i) + 1 = Len(s) + 1 - i
  BY <1>1
<1> QED
  BY <1>2, <1>4, <1>5

LEMMA TiesGoFirst == GiveTypes => OrderBreaksTies
<1> SUFFICES ASSUME GiveTypes, Is("path") PROVE OrderBreaksTies
  BY DEF OrderBreaksTies
<1> DEFINE repo == CHOOSE r \in GetRepo(given.platform, given.repo) : TRUE
           turned == [repo EXCEPT !.owner_paths = Reverse(@)]
           path == given.path
           ps == repo.owner_paths
           qs == turned.owner_paths
           n == Len(ps)
<1> SUFFICES ASSUME OwnerOf(repo, path) # OwnerOf(turned, path)
             PROVE  \E i, j \in DOMAIN ps :
                      /\ i < j /\ Length(ps[i].pattern) = Length(ps[j].pattern)
                      /\ PathMatches(path, ps[i].pattern) /\ PathMatches(path, ps[j].pattern)
                      /\ OwnerOf(repo, path) = ps[i].agent
  BY DEF OrderBreaksTies
<1>1. IsPlatform(given.platform) /\ GetRepo(given.platform, given.repo) # {}
  BY BusAssumption DEF GiveTypes
<1>2. /\ AreOwnerPaths(ps)
      /\ repo = [name |-> repo.name, owner |-> repo.owner, owner_paths |-> repo.owner_paths,
                 path |-> repo.path]
  BY <1>1, FoundRepo
<1>3. qs = Reverse(ps) /\ turned.owner = repo.owner
  <2> HIDE DEF repo
  <2> QED
    BY <1>2
<1> HIDE DEF repo, turned
<1>4. n \in Nat /\ IsList(ps) /\ DOMAIN ps = 1..n
  BY <1>2, Lists DEF AreOwnerPaths
<1>5. /\ IsList(qs) /\ Len(qs) = n
      /\ \A i \in 1..n : n + 1 - i \in 1..n /\ qs[i] = ps[n + 1 - i]
  BY <1>3, <1>4, TurnedRound
<1>6. DOMAIN qs = 1..n
  BY <1>5, Lists
<1>7. AreOwnerPaths(qs)
  BY <1>2, <1>5 DEF AreOwnerPaths
<1> HIDE DEF ps, qs
<1>8. \A i \in 1..n : /\ i \in Matching(ps, path) <=> n + 1 - i \in Matching(qs, path)
                      /\ i \in Matching(qs, path) <=> n + 1 - i \in Matching(ps, path)
  <2> SUFFICES ASSUME NEW i \in 1..n
               PROVE  /\ i \in Matching(ps, path) <=> n + 1 - i \in Matching(qs, path)
                      /\ i \in Matching(qs, path) <=> n + 1 - i \in Matching(ps, path)
    OBVIOUS
  <2>1. n + 1 - i \in 1..n /\ n + 1 - (n + 1 - i) = i
    BY <1>4
  <2>2. qs[i] = ps[n + 1 - i] /\ qs[n + 1 - i] = ps[i]
    BY <1>5, <2>1
  <2> QED
    BY <1>4, <1>6, <2>1, <2>2 DEF Matching
<1>9. Matching(ps, path) \subseteq 1..n /\ Matching(qs, path) \subseteq 1..n
  BY <1>4, <1>6 DEF Matching
<1>10. Matching(ps, path) # {} /\ Matching(qs, path) # {}
  <2>1. CASE Matching(ps, path) = {}
    <3>1. Matching(qs, path) = {}
      BY <1>8, <1>9, <2>1
    <3>2. OwnerOf(repo, path) = repo.owner
      BY <1>2, <2>1, OwnerIs DEF ps
    <3>3. OwnerOf(turned, path) = turned.owner
      BY <1>7, <3>1, OwnerIs DEF qs
    <3> QED
      BY <1>3, <3>2, <3>3
  <2> QED
    BY <1>8, <1>9, <2>1
<1>11. PICK i \in Matching(ps, path) :
         /\ OwnerOf(repo, path) = ps[i].agent
         /\ \A j \in Matching(ps, path) :
              /\ Length(ps[j].pattern) <= Length(ps[i].pattern)
              /\ Length(ps[j].pattern) = Length(ps[i].pattern) => i <= j
  BY <1>2, <1>10, OwnerIs DEF ps
<1>12. PICK k \in Matching(qs, path) :
         /\ OwnerOf(turned, path) = qs[k].agent
         /\ \A j \in Matching(qs, path) : Length(qs[j].pattern) <= Length(qs[k].pattern)
  BY <1>7, <1>10, OwnerIs DEF qs
<1> DEFINE j == n + 1 - k
<1>13. j \in Matching(ps, path) /\ qs[k] = ps[j]
  BY <1>5, <1>8, <1>9, <1>12
<1>14. Length(ps[i].pattern) <= Length(ps[j].pattern)
  <2>1. n + 1 - i \in Matching(qs, path) /\ qs[n + 1 - i] = ps[i]
    <3>1. i \in 1..n /\ n + 1 - i \in 1..n /\ n + 1 - (n + 1 - i) = i
      BY <1>4, <1>9
    <3> QED
      BY <1>5, <1>8, <3>1
  <2> QED
    BY <1>12, <1>13, <2>1
<1>15. Length(ps[i].pattern) \in Int /\ Length(ps[j].pattern) \in Int
  BY <1>2, <1>9, <1>13, Lengths DEF AreOwnerPaths, ps
<1> HIDE DEF j
<1>16. Length(ps[i].pattern) = Length(ps[j].pattern) /\ i <= j
  BY <1>11, <1>13, <1>14, <1>15
<1>17. i # j
  BY <1>11, <1>12, <1>13
<1>18. i < j /\ i \in DOMAIN ps /\ j \in DOMAIN ps
  BY <1>4, <1>9, <1>13, <1>16, <1>17
<1> QED
  BY <1>11, <1>13, <1>16, <1>18 DEF Matching, ps

LEMMA WarnedIsReal == GiveTypes => WarningsAreReal
<1> SUFFICES ASSUME GiveTypes, Is("path") PROVE WarningsAreReal
  BY DEF WarningsAreReal
<1> DEFINE repo == CHOOSE r \in GetRepo(given.platform, given.repo) : TRUE
           ps == repo.owner_paths
<1> SUFFICES ASSUME NEW pair \in Overlaps(repo),
                    ps[pair[1]].agent # ps[pair[2]].agent,
                    \A k \in DOMAIN ps \ {pair[1], pair[2]} :
                      ~PathMatches(Sample(ps[pair[1]].pattern), ps[k].pattern)
             PROVE  OwnerOf(repo, Sample(ps[pair[1]].pattern)) #
                      OwnerOf([repo EXCEPT !.owner_paths =
                                 [@ EXCEPT ![pair[1]] = ps[pair[2]], ![pair[2]] = ps[pair[1]]]],
                              Sample(ps[pair[1]].pattern))
  BY DEF WarningsAreReal
<1> DEFINE i == pair[1]
           j == pair[2]
           sample == Sample(ps[i].pattern)
           turned == [repo EXCEPT !.owner_paths = [@ EXCEPT ![i] = ps[j], ![j] = ps[i]]]
           qs == turned.owner_paths
<1>1. IsPlatform(given.platform) /\ GetRepo(given.platform, given.repo) # {}
  BY BusAssumption DEF GiveTypes
<1>2. /\ AreOwnerPaths(ps)
      /\ repo = [name |-> repo.name, owner |-> repo.owner, owner_paths |-> repo.owner_paths,
                 path |-> repo.path]
  BY <1>1, FoundRepo
<1>3. /\ i \in DOMAIN ps /\ j \in DOMAIN ps /\ i < j
      /\ Length(ps[i].pattern) = Length(ps[j].pattern)
      /\ PathMatches(sample, ps[i].pattern) /\ PathMatches(sample, ps[j].pattern)
  BY DEF Overlaps
<1>4. qs = [ps EXCEPT ![i] = ps[j], ![j] = ps[i]]
  <2> HIDE DEF repo, i, j
  <2> QED
    BY <1>2
<1>5. IsList(ps) /\ Len(ps) \in Nat /\ DOMAIN ps = 1..Len(ps)
  BY <1>2, Lists DEF AreOwnerPaths
<1> HIDE DEF repo, turned, i, j, sample
<1>6. /\ DOMAIN qs = 1..Len(ps) /\ qs = [k \in 1..Len(ps) |-> qs[k]]
      /\ qs[i] = ps[j] /\ qs[j] = ps[i]
      /\ \A k \in DOMAIN ps \ {i, j} : qs[k] = ps[k]
  <2> HIDE DEF ps, qs
  <2> QED
    BY <1>3, <1>4, <1>5
<1>7. AreOwnerPaths(qs)
  <2>1. IsList(qs) /\ Len(qs) = Len(ps)
    BY <1>5, <1>6, ListOf
  <2>2. \A k \in 1..Len(ps) : IsList(ps[k].pattern.tokens) /\ ps[k].pattern.pad \in Nat
    BY <1>2 DEF AreOwnerPaths
  <2> HIDE DEF ps, qs
  <2>3. \A k \in 1..Len(ps) : qs[k] = ps[k] \/ qs[k] = ps[i] \/ qs[k] = ps[j]
    BY <1>5, <1>6
  <2>4. i \in 1..Len(ps) /\ j \in 1..Len(ps)
    BY <1>3, <1>5
  <2> QED
    BY <2>1, <2>2, <2>3, <2>4 DEF AreOwnerPaths
<1>8. \A k \in DOMAIN ps : PathMatches(sample, ps[k].pattern) => k \in {i, j}
  BY DEF sample, i, j
<1>9. Matching(ps, sample) = {i, j}
  BY <1>3, <1>8 DEF Matching
<1>10. Matching(qs, sample) = {i, j}
  BY <1>3, <1>5, <1>6, <1>8 DEF Matching
<1>11. i \in Int /\ j \in Int
  BY <1>3, <1>5
<1>12. OwnerOf(repo, sample) = ps[i].agent
  <2>1. PICK k \in {i, j} :
          /\ OwnerOf(repo, sample) = ps[k].agent
          /\ \A l \in {i, j} : Length(ps[l].pattern) = Length(ps[k].pattern) => k <= l
    BY <1>2, <1>9, OwnerIs
  <2>2. k <= i
    BY <1>3, <2>1
  <2>3. k = i
    BY <1>3, <1>11, <2>2
  <2> QED
    BY <2>1, <2>3
<1>13. OwnerOf(turned, sample) = ps[j].agent
  <2>1. PICK k \in {i, j} :
          /\ OwnerOf(turned, sample) = qs[k].agent
          /\ \A l \in {i, j} : Length(qs[l].pattern) = Length(qs[k].pattern) => k <= l
    BY <1>7, <1>10, OwnerIs
  <2>2. k <= i
    BY <1>3, <1>6, <2>1
  <2>3. k = i
    BY <1>3, <1>11, <2>2
  <2> QED
    BY <1>6, <2>1, <2>3
<1>14. ps[i].agent # ps[j].agent
  BY DEF i, j
<1>15. OwnerOf(repo, sample) # OwnerOf(turned, sample)
  BY <1>12, <1>13, <1>14
<1> QED
  BY <1>15 DEF sample, turned, i, j

(* The longest pattern owns, the first of several, and a warning is given  *)
(* only where the order matters, though not wherever it does: for all      *)
(* platforms and paths.                                                    *)
THEOREM LongestOwns == GiveSpec => []LongestPatternOwns
<1>1. GiveTypes => LongestPatternOwns
  BY NearestIsOwner, TiesGoFirst, WarnedIsReal DEF LongestPatternOwns
<1> QED
  BY <1>1, GivenIsTyped, PTL

----------------------------------------------------------------------------
(* Recipients *)

(* A name of the platform is that of some repo, and of the first of them.  *)
LEMMA SomeRepo ==
  ASSUME NEW platform, IsList(platform), NEW k \in DOMAIN platform
  PROVE  GetRepo(platform, platform[k].name) # {}
<1> DEFINE named == {j \in 1..Len(platform) : platform[j].name = platform[k].name}
<1>1. Len(platform) \in Nat /\ DOMAIN platform = 1..Len(platform)
  BY Lists
<1>2. named \in SUBSET Nat /\ named # {}
  BY <1>1
<1>3. Min(named) \in named /\ \A j \in named : Min(named) <= j
  <2> HIDE DEF named
  <2> QED
    BY <1>2, LeastIsLeast
<1> DEFINE i == Min(named)
<1>4. i \in 1..Len(platform) /\ platform[i].name = platform[k].name
  BY <1>3
<1>5. ASSUME NEW j \in 1..(i - 1) PROVE platform[j].name # platform[k].name
  <2>1. j \in 1..Len(platform) /\ ~(i <= j)
    BY <1>1, <1>4
  <2> HIDE DEF i
  <2> QED
    BY <1>3, <2>1 DEF i
<1> HIDE DEF named, i
<1>6. platform[i] \in GetRepo(platform, platform[k].name)
  BY <1>1, <1>4, <1>5 DEF GetRepo
<1> QED
  BY <1>6

(* Who owns something in a repo has a part in it.                          *)
HasPart(platform, name) == \E r \in ToSet(platform) : OwnsIn(r, name)

LEMMA OwnersHaveParts ==
  ASSUME NEW platform, IsPlatform(platform), NEW name, NEW path,
         GetRepo(platform, name) # {}
  PROVE  /\ \E r \in GetRepo(platform, name) : OwnsIn(r, ResolveOwner(platform, name, path))
         /\ HasPart(platform, ResolveOwner(platform, name, path))
<1> DEFINE repo == CHOOSE r \in GetRepo(platform, name) : TRUE
           ps == repo.owner_paths
<1>1. /\ repo \in GetRepo(platform, name) /\ repo \in ToSet(platform)
      /\ AreOwnerPaths(ps)
  BY FoundRepo
<1>2. ResolveOwner(platform, name, path) = OwnerOf(repo, path)
  BY DEF ResolveOwner
<1> HIDE DEF repo
<1>3. OwnsIn(repo, OwnerOf(repo, path))
  <2>1. CASE Matching(ps, path) = {}
    <3>1. OwnerOf(repo, path) = repo.owner
      BY <1>1, <2>1, OwnerIs
    <3> QED
      BY <3>1 DEF OwnsIn
  <2>2. CASE Matching(ps, path) # {}
    <3>1. PICK i \in Matching(ps, path) : OwnerOf(repo, path) = ps[i].agent
      BY <1>1, <2>2, OwnerIs
    <3>2. ps[i] \in ToSet(ps)
      BY <3>1 DEF Matching, ToSet
    <3> QED
      BY <3>1, <3>2 DEF OwnsIn
  <2> QED
    BY <2>1, <2>2
<1> QED
  BY <1>1, <1>2, <1>3 DEF HasPart

(* What the validator makes sure of.                                       *)
LEMMA ValidMeans ==
  ASSUME NEW m, NEW roster, Valid(m, roster)
  PROVE  /\ roster # {} /\ ~ToIs(m, "all") => ToSet(m.to) \subseteq roster \cup {"human", "all"}
         /\ m.path.shape # "absent" => m.repo # ""
         /\ m.path.shape # "other"
         /\ m.path.shape \in {"text", "list"} =>
              m.path.paths # <<>> /\ <<>> \notin ToSet(m.path.paths)
<1> DEFINE faults ==
        [required |-> m.absent # {},
         timestamp |-> "timestamp" \notin m.absent /\ ~m.dated,
         type |-> "type" \notin m.absent /\ m.type \notin VALID_TYPES,
         privileged |-> m.type \in PRIVILEGED_TYPES /\ m.from # "human",
         decision |-> m.type = "decision-required" /\ ~m.decides,
         optional |-> m.optional = "bad",
         expects |-> m.expects = "bad" \/ (m.expects = "no" /\ m.type = "task-assignment"),
         pathType |-> m.path.shape # "absent" /\ "type" \notin m.absent
                        /\ m.type \notin PATH_ELIGIBLE_TYPES,
         path |-> \/ m.path.shape = "other"
                  \/ m.path.shape \in {"text", "list"}
                       /\ (m.path.paths = <<>> \/ <<>> \in ToSet(m.path.paths)),
         repo |-> m.path.shape # "absent" /\ m.repo = "",
         recipient |-> roster # {} /\ ~ToIs(m, "all")
                         /\ ~(ToSet(m.to) \subseteq roster \cup {"human", "all"}),
         broadcast |-> ToIs(m, "all") /\ "type" \notin m.absent
                         /\ m.type \notin BROADCAST_TYPES,
         subject |-> ~m.subject]
<1>1. \A f \in DOMAIN faults : ~faults[f]
  BY Zenon DEF Valid, Faults
<1>2. /\ "path" \in DOMAIN faults /\ "repo" \in DOMAIN faults /\ "recipient" \in DOMAIN faults
  OBVIOUS
<1>3. ~faults["path"] /\ ~faults["repo"] /\ ~faults["recipient"]
  <2> HIDE DEF faults
  <2> QED
    BY <1>1, <1>2
<1>4. /\ faults["path"] = (\/ m.path.shape = "other"
                           \/ m.path.shape \in {"text", "list"}
                                /\ (m.path.paths = <<>> \/ <<>> \in ToSet(m.path.paths)))
      /\ faults["repo"] = (m.path.shape # "absent" /\ m.repo = "")
      /\ faults["recipient"] = (roster # {} /\ ~ToIs(m, "all")
                                  /\ ~(ToSet(m.to) \subseteq roster \cup {"human", "all"}))
  OBVIOUS
<1> HIDE DEF faults
<1> QED
  BY <1>3, <1>4

(* The paths of a message that are asked for an owner.                     *)
AskedPaths(m) ==
  IF m.path.shape = "list" THEN ToSet(m.path.paths) \ {<<>>} ELSE ToSet(m.path.paths)

(* The recipients of a message by path are the owners of its paths.        *)
LEMMA RecipientsAreOwners ==
  ASSUME NEW m, NEW platform, IsList(m.path.paths), m.path.shape # "absent",
         Dispatch(m, platform).ok
  PROVE  /\ GetRepo(platform, m.repo) # {} /\ AskedPaths(m) # {}
         /\ ToSet(Dispatch(m, platform).recipients) =
              {ResolveOwner(platform, m.repo, p) : p \in AskedPaths(m)}
<1> DEFINE paths == AskedPaths(m)
           owners == {ResolveOwner(platform, m.repo, p) : p \in paths}
           wrong == \/ m.repo = "" \/ m.path.shape = "other" \/ paths = {}
                    \/ GetRepo(platform, m.repo) = {}
<1>1. IsFiniteSet(owners)
  <2>1. IsFiniteSet(paths)
    <3>1. IsFiniteSet(ToSet(m.path.paths)) /\ paths \in SUBSET ToSet(m.path.paths)
      BY ListIsFinite DEF AskedPaths
    <3> QED
      BY <3>1, FS_Subset
  <2> DEFINE f == [p \in paths |-> ResolveOwner(platform, m.repo, p)]
  <2>2. f \in Surjection(paths, owners)
    BY DEF Surjection
  <2> HIDE DEF f, paths, owners
  <2> QED
    BY <2>1, <2>2, FS_Surjection
<1>2. Dispatch(m, platform) =
        IF wrong THEN DispatchError
        ELSE [ok |-> TRUE, mode |-> IF Cardinality(owners) > 1 THEN "multicast" ELSE "path",
              recipients |-> SetToSeq(owners)]
  BY DEF Dispatch, AskedPaths
<1>3. ~wrong
  <2>1. ~DispatchError.ok
    BY DEF DispatchError
  <2> HIDE DEF wrong, owners
  <2> QED
    BY <1>2, <2>1
<1>4. Dispatch(m, platform).recipients = SetToSeq(owners)
  <2> HIDE DEF wrong, owners
  <2> QED
    BY <1>2, <1>3
<1>5. ToSet(SetToSeq(owners)) = owners
  <2> HIDE DEF owners
  <2> QED
    BY <1>1, SetAsList
<1> QED
  BY <1>3, <1>4, <1>5

(* A platform whose owners are all known names nobody else.                *)
LEMMA NoStrangers ==
  ASSUME NEW platform, NEW roster, UnknownOwners(platform, roster) = {},
         NEW k \in DOMAIN platform, NEW d \in ToSet(platform[k].owner_paths)
  PROVE  d.agent \in roster
<1> DEFINE named == UNION {{e.agent : e \in ToSet(platform[i].owner_paths)} :
                             i \in DOMAIN platform}
<1>1. UnknownOwners(platform, roster) = named \ roster
  BY DEF UnknownOwners
<1>2. d.agent \in named
  OBVIOUS
<1> HIDE DEF named
<1> QED
  BY <1>1, <1>2

LEMMA KnownRecipients == GiveTypes => RecipientsAreKnown
<1> SUFFICES ASSUME GiveTypes, Is("message") PROVE RecipientsAreKnown
  BY DEF RecipientsAreKnown
<1> DEFINE m == given.m
           platform == given.platform
           fleet == given.known \cup {"human", "all"}
<1> SUFFICES ASSUME given.known # {}, Valid(m, given.known),
                    UnknownOwners(platform, fleet) = {},
                    \A i \in DOMAIN platform : platform[i].owner \in fleet
             PROVE  ToSet(Dispatch(m, platform).recipients) \subseteq fleet
  BY DEF RecipientsAreKnown
<1>1. IsPlatform(platform) /\ m \in Messages /\ IsList(m.path.paths)
  BY BusAssumption DEF GiveTypes
<1>2. \A name : HasPart(platform, name) => name \in fleet
  <2>1. \A r \in ToSet(platform) : r.owner \in fleet
    BY DEF ToSet
  <2>2. \A r \in ToSet(platform) : \A e \in ToSet(r.owner_paths) : e.agent \in fleet
    BY NoStrangers DEF ToSet
  <2> QED
    BY <2>1, <2>2 DEF HasPart, OwnsIn
<1>3. CASE m.path.shape = "absent"
  <2>1. Dispatch(m, platform).recipients = m.to
    BY <1>3 DEF Dispatch
  <2>2. CASE ToIs(m, "all")
    <3>1. m.to = <<"all">>
      BY <2>2 DEF ToIs
    <3>2. ToSet(<<"all">>) = {"all"}
      BY DEF ToSet
    <3> QED
      BY <2>1, <3>1, <3>2
  <2>3. CASE ~ToIs(m, "all")
    BY <2>1, <2>3, ValidMeans
  <2> QED
    BY <2>2, <2>3
<1>4. CASE m.path.shape # "absent" /\ Dispatch(m, platform).ok
  <2>1. /\ GetRepo(platform, m.repo) # {}
        /\ ToSet(Dispatch(m, platform).recipients) =
             {ResolveOwner(platform, m.repo, p) : p \in AskedPaths(m)}
    BY <1>1, <1>4, RecipientsAreOwners
  <2> SUFFICES ASSUME NEW p
               PROVE  ResolveOwner(platform, m.repo, p) \in fleet
    BY <2>1
  <2> HIDE DEF fleet, platform, m
  <2> QED
    BY <1>1, <1>2, <2>1, OwnersHaveParts
<1>5. CASE m.path.shape # "absent" /\ ~Dispatch(m, platform).ok
  <2>1. Dispatch(m, platform).recipients = <<>>
    BY <1>5 DEF Dispatch, DispatchError
  <2>2. ToSet(<<>>) = {}
    BY DEF ToSet
  <2> QED
    BY <2>1, <2>2
<1> QED
  BY <1>3, <1>4, <1>5

LEMMA ValidIsDelivered == GiveTypes => ValidDelivers
<1> SUFFICES ASSUME GiveTypes, Is("message"), Valid(given.m, given.known) PROVE ValidDelivers
  BY DEF ValidDelivers
<1> DEFINE m == given.m
           platform == given.platform
           d == Dispatch(m, platform)
           paths == AskedPaths(m)
<1>1. /\ IsList(m.path.paths) /\ m.path.shape \in {"absent", "other", "text", "list"}
  BY BusAssumption DEF GiveTypes
<1>2. CASE m.path.shape = "absent"
  <2>1. d.ok
    BY <1>2 DEF Dispatch
  <2> QED
    BY <1>2, <2>1 DEF ValidDelivers
<1>3. CASE m.path.shape # "absent"
  <2>1. /\ m.repo # "" /\ m.path.shape # "other"
        /\ m.path.paths # <<>> /\ <<>> \notin ToSet(m.path.paths)
    BY <1>1, <1>3, ValidMeans
  <2>2. paths = ToSet(m.path.paths) /\ paths # {}
    <3>1. Len(m.path.paths) \in Nat /\ Len(m.path.paths) # 0
      BY <1>1, <2>1, Lists
    <3>2. 1 \in DOMAIN m.path.paths
      BY <1>1, <3>1, Lists
    <3>3. m.path.paths[1] \in ToSet(m.path.paths)
      BY <3>2 DEF ToSet
    <3>4. paths = ToSet(m.path.paths)
      BY <2>1 DEF AskedPaths
    <3> QED
      BY <3>3, <3>4
  <2>3. d.ok <=> GetRepo(platform, m.repo) # {}
    <3>1. CASE GetRepo(platform, m.repo) = {}
      BY <1>3, <3>1 DEF Dispatch, DispatchError
    <3>2. CASE GetRepo(platform, m.repo) # {}
      BY <1>3, <2>1, <2>2, <3>2 DEF Dispatch, AskedPaths
    <3> QED
      BY <3>1, <3>2
  <2>4. ASSUME d.ok
        PROVE  /\ d.recipients # <<>>
               /\ \A p \in ToSet(m.path.paths) :
                    ResolveOwner(platform, m.repo, p) \in ToSet(d.recipients)
    <3>1. ToSet(d.recipients) = {ResolveOwner(platform, m.repo, p) : p \in AskedPaths(m)}
      <4> HIDE DEF m, platform
      <4> QED
        BY <1>1, <1>3, <2>4, RecipientsAreOwners
    <3>2. ToSet(<<>>) = {}
      BY DEF ToSet
    <3> QED
      BY <2>2, <3>1, <3>2
  <2> QED
    BY <1>3, <2>3, <2>4 DEF ValidDelivers
<1> QED
  BY <1>2, <1>3

(* Every message that the validator lets through is delivered, and to      *)
(* agents that exist: for all messages, platforms and known agents.        *)
THEOREM ValidIsDeliverable == GiveSpec => []DeliveryIsTotal
<1>1. GiveTypes => DeliveryIsTotal
  BY KnownRecipients, ValidIsDelivered DEF DeliveryIsTotal
<1> QED
  BY <1>1, GivenIsTyped, PTL

----------------------------------------------------------------------------
(* Worktrees *)

(* The repos whose directory encloses a place, and what the owner of that  *)
(* place is to them.                                                       *)
Enclosing(platform, target) ==
  {r \in ToSet(platform) : \E at \in r.path : IsPrefix(at, target)}
NamesDistinct(platform) ==
  \A i, j \in DOMAIN platform : platform[i].name = platform[j].name => i = j

LEMMA PlacesHaveOwners ==
  ASSUME NEW platform, IsPlatform(platform), NEW target
  PROVE  LET owner == OwnerForTarget(platform, target)
         IN  IF Enclosing(platform, target) = {} THEN owner = Nobody
             ELSE /\ owner # Nobody
                  /\ NamesDistinct(platform) =>
                       \E r \in Enclosing(platform, target) : OwnsIn(r, owner)
<1> DEFINE around == {i \in DOMAIN platform : \E at \in platform[i].path : IsPrefix(at, target)}
           i == Min(around)
           at == CHOOSE d \in platform[i].path : TRUE
           inside == SubSeq(target, Len(at) + 1, Len(target))
           owner == OwnerForTarget(platform, target)
<1>1. IsList(platform) /\ DOMAIN platform = 1..Len(platform) /\ Len(platform) \in Nat
  BY Lists DEF IsPlatform
<1>2. around = {} <=> Enclosing(platform, target) = {}
  BY DEF Enclosing, ToSet
<1>3. CASE around = {}
  BY <1>2, <1>3 DEF OwnerForTarget
<1>4. CASE around # {}
  <2>1. i \in around
    <3>1. around \in SUBSET Nat
      <4>1. \A k \in around : k \in 1..Len(platform)
        BY <1>1
      <4> HIDE DEF around
      <4> QED
        BY <4>1
    <3> HIDE DEF around
    <3> QED
      BY <1>4, <3>1, LeastIsLeast
  <2>2. owner = ResolveOwner(platform, platform[i].name,
                             IF inside = <<>> THEN <<".">> ELSE inside)
    BY <1>4 DEF OwnerForTarget
  <2>3. i \in DOMAIN platform /\ platform[i] \in Enclosing(platform, target)
    <3>1. i \in DOMAIN platform /\ \E d \in platform[i].path : IsPrefix(d, target)
      BY <2>1
    <3> HIDE DEF i
    <3> QED
      BY <3>1 DEF Enclosing, ToSet
  <2> HIDE DEF i, inside, owner, around
  <2>4. GetRepo(platform, platform[i].name) # {}
    BY <1>1, <2>3, SomeRepo
  <2>5. PICK r \in GetRepo(platform, platform[i].name) : OwnsIn(r, owner)
    BY <2>2, <2>4, OwnersHaveParts
  <2>6. PICK j \in DOMAIN platform : r = platform[j] /\ platform[j].name = platform[i].name
    BY <2>5 DEF GetRepo
  <2>7. owner # Nobody
    <3>1. r \in ToSet(platform)
      BY <2>6 DEF ToSet
    <3> QED
      BY <2>5, <3>1 DEF IsPlatform
  <2>8. ASSUME NamesDistinct(platform)
        PROVE  \E q \in Enclosing(platform, target) : OwnsIn(q, owner)
    <3>1. j = i
      BY <2>3, <2>6, <2>8 DEF NamesDistinct
    <3> QED
      BY <2>3, <2>5, <2>6, <3>1
  <2> QED
    BY <1>2, <1>4, <2>7, <2>8 DEF owner
<1> QED
  BY <1>3, <1>4

LEMMA WorktreeOwned == GiveTypes => WorktreeHasOwner
<1> SUFFICES ASSUME GiveTypes, Is("session") PROVE WorktreeHasOwner
  BY DEF WorktreeHasOwner
<1> DEFINE platform == given.platform
           direct == OwnerForTarget(platform, given.cwd)
           around(places) == {r \in ToSet(platform) :
                                \E p \in places, at \in r.path : IsPrefix(at, p)}
           home == IF around({given.cwd}) # {} THEN around({given.cwd}) ELSE around(given.main)
           owner == OwnerForCwd(platform, given.cwd, given.main)
<1> SUFFICES ASSUME home # {}
             PROVE  /\ owner # Nobody
                    /\ NamesDistinct(platform) => \E r \in home : OwnsIn(r, owner)
  BY DEF WorktreeHasOwner, NamesDistinct
<1>1. IsPlatform(platform) /\ \A main \in given.main : given.main = {main}
  BY BusAssumption DEF GiveTypes
<1>2. \A p : around({p}) = Enclosing(platform, p)
  BY DEF Enclosing
<1> HIDE DEF platform, around
<1>3. CASE Enclosing(platform, given.cwd) # {}
  <2>1. direct # Nobody
    BY <1>1, <1>3, PlacesHaveOwners
  <2>2. owner = direct /\ home = Enclosing(platform, given.cwd)
    BY <1>2, <1>3, <2>1 DEF OwnerForCwd
  <2> QED
    BY <1>1, <1>3, <2>1, <2>2, PlacesHaveOwners
<1>4. CASE Enclosing(platform, given.cwd) = {}
  <2>1. direct = Nobody
    BY <1>1, <1>4, PlacesHaveOwners
  <2>2. home = around(given.main)
    BY <1>2, <1>4
  <2>3. PICK main \in given.main : TRUE
    BY <2>2 DEF around
  <2>4. given.main = {main} /\ (CHOOSE m \in given.main : TRUE) = main
    BY <1>1, <2>3
  <2>5. owner = OwnerForTarget(platform, main)
    BY <2>1, <2>4 DEF OwnerForCwd
  <2>6. home = Enclosing(platform, main)
    BY <1>2, <2>2, <2>4
  <2> HIDE DEF home, owner
  <2> QED
    BY <1>1, <2>5, <2>6, PlacesHaveOwners
<1> QED
  BY <1>3, <1>4

(* The nearest of some places at or above a directory is one of them, and  *)
(* none of those that lie deeper is.                                       *)
LEMMA NearestIs ==
  ASSUME NEW cwd, IsList(cwd), NEW places
  PROVE  LET up == {k \in 1..Len(cwd) : SubSeq(cwd, 1, k) \in places}
         IN  IF up = {} THEN Nearest(cwd, places) = {}
             ELSE \E k \in up : /\ Nearest(cwd, places) = {SubSeq(cwd, 1, k)}
                                /\ \A j \in up : j <= k
<1> DEFINE up == {k \in 1..Len(cwd) : SubSeq(cwd, 1, k) \in places}
<1>1. Len(cwd) \in Nat /\ DOMAIN cwd = 1..Len(cwd)
  BY Lists
<1>2. Nearest(cwd, places) = IF up = {} THEN {} ELSE {SubSeq(cwd, 1, Max(up))}
  BY <1>1 DEF Nearest
<1>3. ASSUME up # {} PROVE Max(up) \in up /\ \A j \in up : j <= Max(up)
  <2>1. up \in SUBSET (1..Len(cwd))
    OBVIOUS
  <2> HIDE DEF up
  <2>2. Max(up) \in up /\ \A j \in up : Max(up) >= j
    BY <1>1, <1>3, <2>1, Newest
  <2> QED
    BY <1>1, <2>1, <2>2
<1> HIDE DEF up
<1>4. IF up = {} THEN Nearest(cwd, places) = {}
      ELSE \E k \in up : /\ Nearest(cwd, places) = {SubSeq(cwd, 1, k)}
                         /\ \A j \in up : j <= k
  BY <1>2, <1>3
<1> QED
  BY <1>4 DEF up

LEMMA NearestAmong ==
  ASSUME NEW cwd, IsList(cwd), NEW places
  PROVE  \A d \in Nearest(cwd, places) :
           /\ d \in places /\ Nearest(cwd, places) = {d}
           /\ \E k \in 1..Len(cwd) : d = SubSeq(cwd, 1, k)
<1> DEFINE up == {k \in 1..Len(cwd) : SubSeq(cwd, 1, k) \in places}
<1>1. IF up = {} THEN Nearest(cwd, places) = {}
      ELSE \E k \in up : Nearest(cwd, places) = {SubSeq(cwd, 1, k)}
  BY NearestIs
<1> QED
  BY <1>1

LEMMA NearestOfNone ==
  ASSUME NEW cwd, IsList(cwd), NEW places,
         \A k \in 1..Len(cwd) : SubSeq(cwd, 1, k) \notin places
  PROVE  Nearest(cwd, places) = {}
<1> DEFINE up == {k \in 1..Len(cwd) : SubSeq(cwd, 1, k) \in places}
<1>1. up = {}
  OBVIOUS
<1> QED
  BY <1>1, NearestIs

(* What is one of the places itself is its own nearest.                    *)
LEMMA NearestIsItself ==
  ASSUME NEW d, IsList(d), d # <<>>, NEW places, d \in places
  PROVE  Nearest(d, places) = {d}
<1> DEFINE up == {k \in 1..Len(d) : SubSeq(d, 1, k) \in places}
<1>1. Len(d) \in Nat /\ Len(d) # 0
  BY Lists
<1>2. Len(d) \in up /\ SubSeq(d, 1, Len(d)) = d
  <2>1. Len(d) \in 1..Len(d)
    BY ONLY <1>1
  <2>2. SubSeq(d, 1, Len(d)) = d
    BY SubSeqFull DEF IsList
  <2> QED
    BY <2>1, <2>2
<1>3. PICK k \in up : Nearest(d, places) = {SubSeq(d, 1, k)} /\ \A j \in up : j <= k
  BY <1>2, NearestIs
<1>4. k = Len(d)
  <2>1. Len(d) <= k /\ k \in 1..Len(d)
    BY <1>2, <1>3
  <2> QED
    BY ONLY <1>1, <2>1
<1> QED
  BY <1>2, <1>3, <1>4

(* A main checkout is one, has a .git directory and is no worktree.        *)
LEMMA MainIsMain ==
  ASSUME NEW tree \in Trees, NEW cwd \in Cwds, NEW main \in WorktreeMain(tree, cwd)
  PROVE  /\ WorktreeMain(tree, cwd) = {main} /\ IsList(main)
         /\ WorktreeMain(tree, main) = {}
<1> DEFINE repos == {d \in DOMAIN tree : tree[d].repo}
<1>1. IsList(cwd)
  BY BusAssumption
<1>2. PICK d \in Nearest(cwd, repos) : main \in tree[d].main
  BY DEF WorktreeMain
<1>3. d \in DOMAIN tree /\ Nearest(cwd, repos) = {d}
  BY <1>1, <1>2, NearestAmong
<1>4. /\ tree[d].main = {main} /\ IsList(main) /\ main # <<>>
      /\ main \in DOMAIN tree /\ tree[main].repo /\ tree[main].main = {}
  BY <1>2, <1>3, BusAssumption
<1>5. WorktreeMain(tree, cwd) = {main}
  BY <1>3, <1>4 DEF WorktreeMain
<1>6. main \in repos
  BY <1>4
<1>7. Nearest(main, repos) = {main}
  <2> HIDE DEF repos
  <2> QED
    BY <1>4, <1>6, NearestIsItself
<1>8. WorktreeMain(tree, main) = {}
  BY <1>4, <1>7 DEF WorktreeMain
<1> QED
  BY <1>4, <1>5, <1>8

LEMMA WorktreeRooted == GiveTypes => WorktreeFindsMain
<1> SUFFICES ASSUME GiveTypes, Is("place") PROVE WorktreeFindsMain
  BY DEF WorktreeFindsMain
<1> DEFINE tree == given.tree
           cwd == given.cwd
           quiet == [given.env EXCEPT !.otaman = {}, !.maestro = {}, !.test = FALSE]
<1> SUFFICES ASSUME {SubSeq(cwd, 1, k) : k \in DOMAIN cwd}
                      \intersect (Pointing(tree) \cup Roots(tree)) = {},
                    NEW main \in WorktreeMain(tree, cwd)
             PROVE  FindRoot(tree, quiet, cwd) = FindRoot(tree, quiet, main)
  BY DEF WorktreeFindsMain
<1>1. tree \in Trees /\ cwd \in Cwds /\ given.env \in Envs
  BY DEF GiveTypes
<1>2. IsList(cwd) /\ DOMAIN cwd = 1..Len(cwd)
  BY <1>1, BusAssumption, Lists
<1>3. quiet.otaman = {} /\ quiet.maestro = {} /\ ~quiet.test
  <2>1. given.env = [otaman |-> given.env.otaman, maestro |-> given.env.maestro,
                     agent |-> given.env.agent, test |-> given.env.test]
    BY <1>1, BusAssumption
  <2> QED
    BY <2>1
<1> HIDE DEF quiet
<1>4. /\ WorktreeMain(tree, cwd) = {main} /\ WorktreeMain(tree, main) = {}
  BY <1>1, MainIsMain
<1>5. Nearest(cwd, Pointing(tree)) = {} /\ Nearest(cwd, Roots(tree)) = {}
  <2>1. \A k \in 1..Len(cwd) :
          SubSeq(cwd, 1, k) \notin Pointing(tree) /\ SubSeq(cwd, 1, k) \notin Roots(tree)
    BY <1>2
  <2> QED
    BY <1>2, <2>1, NearestOfNone
<1>6. FindFrom(tree, quiet, cwd) = Found({})
  BY <1>3, <1>5 DEF FindFrom
<1>7. \A r : Sentinel(quiet, r) = r
  BY <1>3 DEF Sentinel
<1>8. FindRoot(tree, quiet, cwd) = FindFrom(tree, quiet, main)
  <2>1. (CHOOSE m \in {main} : TRUE) = main
    OBVIOUS
  <2>2. ~(~Found({}).ok \/ Found({}).at # {} \/ {main} = {})
    BY DEF Found
  <2> QED
    BY <1>4, <1>6, <1>7, <2>1, <2>2 DEF FindRoot
<1>9. FindRoot(tree, quiet, main) = FindFrom(tree, quiet, main)
  BY <1>4, <1>7 DEF FindRoot
<1> QED
  BY <1>8, <1>9

(* A session in a linked worktree of a repo has an owner with a part in    *)
(* that repo, where no two repos have one name, and finds the root that    *)
(* its main checkout finds: on every platform and in every file system.    *)
THEOREM WorktreesBelong == GiveSpec => []WorktreeIsHome
<1>1. GiveTypes => WorktreeIsHome
  BY WorktreeOwned, WorktreeRooted DEF WorktreeIsHome
<1> QED
  BY <1>1, GivenIsTyped, PTL

----------------------------------------------------------------------------
(* The environment *)

(* An environment and what remains of it without the names of roots.       *)
Quieter(env, quiet) == quiet.otaman = {} /\ quiet.maestro = {} /\ quiet.test = env.test

(* Below a marker that leads to a root, the markers decide.                *)
LEMMA MarkersDecide ==
  ASSUME NEW tree, NEW env, NEW quiet, NEW cwd, IsList(cwd), Quieter(env, quiet),
         Nearest(cwd, Pointing(tree)) # {}
  PROVE  FindRoot(tree, env, cwd) = FindRoot(tree, quiet, cwd)
<1> DEFINE marked == Nearest(cwd, Pointing(tree))
           root == Found(UNION {Pointed(tree, d) : d \in marked})
<1>1. FindFrom(tree, env, cwd) = root /\ FindFrom(tree, quiet, cwd) = root
  BY DEF FindFrom
<1>2. root.ok /\ root.at # {}
  <2>1. PICK d \in marked : d \in Pointing(tree)
    BY NearestAmong
  <2>2. Pointed(tree, d) # {}
    BY <2>1 DEF Pointing
  <2>3. root.at = UNION {Pointed(tree, e) : e \in marked} /\ root.ok
    BY DEF Found
  <2> HIDE DEF root
  <2> QED
    BY <2>2, <2>3
<1> HIDE DEF root
<1>3. FindRoot(tree, env, cwd) = Sentinel(env, root)
  BY <1>1, <1>2 DEF FindRoot
<1>4. FindRoot(tree, quiet, cwd) = Sentinel(quiet, root)
  BY <1>1, <1>2 DEF FindRoot
<1>5. Sentinel(env, root) = Sentinel(quiet, root)
  BY DEF Sentinel, Quieter
<1> QED
  BY <1>3, <1>4, <1>5

(* The types of a place that is given.                                     *)
LEMMA PlaceGiven ==
  GiveTypes /\ Is("place") =>
    LET quiet == [given.env EXCEPT !.otaman = {}, !.maestro = {}]
        silent == [given.env EXCEPT !.otaman = {}, !.maestro = {}, !.agent = {}]
    IN  /\ IsList(given.cwd)
        /\ Quieter(given.env, quiet) /\ Quieter(given.env, silent) /\ silent.agent = {}
<1> SUFFICES ASSUME GiveTypes, Is("place")
             PROVE  LET quiet == [given.env EXCEPT !.otaman = {}, !.maestro = {}]
                        silent == [given.env EXCEPT !.otaman = {}, !.maestro = {}, !.agent = {}]
                    IN  /\ IsList(given.cwd)
                        /\ Quieter(given.env, quiet) /\ Quieter(given.env, silent)
                        /\ silent.agent = {}
  OBVIOUS
<1>1. IsList(given.cwd)
  BY BusAssumption DEF GiveTypes
<1>2. given.env = [otaman |-> given.env.otaman, maestro |-> given.env.maestro,
                   agent |-> given.env.agent, test |-> given.env.test]
  BY BusAssumption DEF GiveTypes
<1> QED
  BY <1>1, <1>2 DEF Quieter

LEMMA MarkerFirst == GiveTypes => MarkerBeatsEnv
<1> SUFFICES ASSUME GiveTypes, Is("place"), Nearest(given.cwd, Pointing(given.tree)) # {}
             PROVE  FindRoot(given.tree, given.env, given.cwd) =
                      FindRoot(given.tree, [given.env EXCEPT !.otaman = {}, !.maestro = {}],
                               given.cwd)
  BY DEF MarkerBeatsEnv
<1> QED
  BY PlaceGiven, MarkersDecide

(* Without a name in the environment the search is that of the quiet one.  *)
LEMMA NoNameIsQuiet ==
  ASSUME NEW tree, NEW env, NEW quiet, NEW cwd, Quieter(env, quiet),
         env.otaman = {}, env.maestro = {}
  PROVE  FindRoot(tree, env, cwd) = FindRoot(tree, quiet, cwd)
<1>1. \A origin : FindFrom(tree, env, origin) = FindFrom(tree, quiet, origin)
  BY DEF FindFrom, Quieter
<1>2. \A r : Sentinel(env, r) = Sentinel(quiet, r)
  BY DEF Sentinel, Quieter
<1> QED
  BY <1>1, <1>2 DEF FindRoot

LEMMA NoRogueBus == GiveTypes => EnvMakesNoBus
<1> SUFFICES ASSUME GiveTypes, Is("place") PROVE EnvMakesNoBus
  BY DEF EnvMakesNoBus
<1> DEFINE tree == given.tree
           env == given.env
           cwd == given.cwd
           quiet == [env EXCEPT !.otaman = {}, !.maestro = {}]
           named == IF env.otaman # {} THEN env.otaman ELSE env.maestro
           found == FindRoot(tree, env, cwd)
<1> SUFFICES ASSUME found # FindRoot(tree, quiet, cwd), found.ok
             PROVE  \E d \in found.at : tree[d].program
  BY DEF EnvMakesNoBus
<1>1. IsList(cwd) /\ Quieter(env, quiet)
  BY PlaceGiven
<1> HIDE DEF quiet
<1>2. Nearest(cwd, Pointing(tree)) = {}
  BY <1>1, MarkersDecide
<1>3. named # {}
  BY <1>1, NoNameIsQuiet
<1>4. FindFrom(tree, env, cwd) =
        IF \A d \in named : d \in DOMAIN tree /\ tree[d].program THEN Found(named)
        ELSE RootResolutionError
  BY <1>2, <1>3 DEF FindFrom
<1> HIDE DEF named
<1>5. CASE \A d \in named : d \in DOMAIN tree /\ tree[d].program
  <2>1. FindFrom(tree, env, cwd) = Found(named) /\ Found(named).at = named
    BY <1>4, <1>5 DEF Found
  <2>2. found = Sentinel(env, Found(named))
    BY <1>3, <2>1 DEF FindRoot
  <2>3. ~RootResolutionError.ok
    BY DEF RootResolutionError
  <2>4. found = Found(named)
    BY <2>2, <2>3 DEF Sentinel
  <2> QED
    BY <1>3, <1>5, <2>1, <2>4
<1>6. CASE ~\A d \in named : d \in DOMAIN tree /\ tree[d].program
  <2>1. FindFrom(tree, env, cwd) = RootResolutionError /\ ~RootResolutionError.ok
    BY <1>4, <1>6 DEF RootResolutionError
  <2>2. found = Sentinel(env, RootResolutionError)
    BY <2>1 DEF FindRoot
  <2>3. found = RootResolutionError
    BY <2>2 DEF Sentinel
  <2> QED
    BY <2>1, <2>3
<1> QED
  BY <1>5, <1>6

LEMMA TestsHaveTmp == TestsStayInTmp
<1> SUFFICES ASSUME NEW d \in FindRoot(given.tree, given.env, given.cwd).at, given.env.test
             PROVE  IsPrefix(Tmp, d)
  BY DEF TestsStayInTmp
<1>1. \E r : FindRoot(given.tree, given.env, given.cwd) = Sentinel(given.env, r)
  BY DEF FindRoot
<1>2. PICK r : FindRoot(given.tree, given.env, given.cwd) = Sentinel(given.env, r)
  BY <1>1
<1>3. CASE \E e \in r.at : ~IsPrefix(Tmp, e)
  <2>1. FindRoot(given.tree, given.env, given.cwd) = RootResolutionError
    BY <1>2, <1>3 DEF Sentinel
  <2>2. RootResolutionError.at = {}
    BY DEF RootResolutionError
  <2> QED
    BY <2>1, <2>2
<1>4. CASE \A e \in r.at : IsPrefix(Tmp, e)
  <2>1. FindRoot(given.tree, given.env, given.cwd) = r
    BY <1>2, <1>4 DEF Sentinel
  <2> QED
    BY <1>4, <2>1
<1> QED
  BY <1>3, <1>4

LEMMA OwnerFirst == GiveTypes => OwnerBeatsEnv
<1> SUFFICES ASSUME GiveTypes, Is("place") PROVE OwnerBeatsEnv
  BY DEF OwnerBeatsEnv
<1> DEFINE tree == given.tree
           env == given.env
           cwd == given.cwd
           quiet == [env EXCEPT !.otaman = {}, !.maestro = {}, !.agent = {}]
           owner == AgentIdentity(tree, quiet, cwd)
<1>1. IsList(cwd) /\ Quieter(env, quiet) /\ quiet.agent = {}
  BY PlaceGiven
<1> HIDE DEF quiet
<1>2. ASSUME owner.at # {}, Nearest(cwd, Pointing(tree)) # {}
      PROVE  AgentIdentity(tree, env, cwd) = owner
  <2> DEFINE root == FindRoot(tree, quiet, cwd)
             owners == {OwnerForCwd(tree[d].platform, cwd, WorktreeMain(tree, cwd)) :
                          d \in root.at}
  <2>1. FindRoot(tree, env, cwd) = root
    BY <1>1, <1>2, MarkersDecide
  <2>2. owner = IF ~root.ok THEN root
                ELSE Found(IF owners \subseteq {Nobody} THEN quiet.agent ELSE owners)
    BY DEF AgentIdentity
  <2>3. AgentIdentity(tree, env, cwd) =
          IF ~root.ok THEN root
          ELSE Found(IF owners \subseteq {Nobody} THEN env.agent ELSE owners)
    BY <2>1 DEF AgentIdentity
  <2>4. Found({}).at = {}
    BY DEF Found
  <2> HIDE DEF owners, root
  <2> QED
    BY <1>1, <1>2, <2>2, <2>3, <2>4
<1>3. ASSUME EnforcementIdentity(tree, env, cwd).ok, EnforcementIdentity(tree, quiet, cwd).ok
      PROVE  EnforcementIdentity(tree, env, cwd) = EnforcementIdentity(tree, quiet, cwd)
  <2>1. ~RootResolutionError.ok
    BY DEF RootResolutionError
  <2> QED
    BY <1>3, <2>1 DEF EnforcementIdentity
<1> QED
  BY <1>2, <1>3 DEF OwnerBeatsEnv, quiet

(* No variable of the environment overrules a marker, makes a bus or       *)
(* replaces an owner, whatever the file system and the environment are.    *)
THEOREM EnvironmentComesLast == GiveSpec => []EnvComesLast
<1>1. GiveTypes => EnvComesLast
  BY MarkerFirst, NoRogueBus, TestsHaveTmp, OwnerFirst DEF EnvComesLast
<1> QED
  BY <1>1, GivenIsTyped, PTL

----------------------------------------------------------------------------
(* Copies *)

(* The names that rules ask for are finitely many.                         *)
LEMMA RulesAreFinite ==
  ASSUME NEW rules, IsList(rules), NEW to, NEW priority, NEW type,
         \A rule \in ToSet(rules) : IsFiniteSet(rule.cc)
  PROVE  IsFiniteSet(EvaluateRules(rules, to, priority, type))
<1> DEFINE applied == {j \in DOMAIN rules : Applies(rules[j], to, priority, type)}
           lists == {rules[i].cc : i \in applied}
<1>1. Len(rules) \in Nat /\ DOMAIN rules = 1..Len(rules)
  BY Lists
<1>2. IsFiniteSet(applied)
  <2>1. IsFiniteSet(1..Len(rules)) /\ applied \in SUBSET (1..Len(rules))
    BY <1>1, FS_Interval
  <2> HIDE DEF applied
  <2> QED
    BY <2>1, FS_Subset
<1>3. IsFiniteSet(lists)
  <2> DEFINE f == [i \in applied |-> rules[i].cc]
  <2>1. f \in Surjection(applied, lists)
    BY DEF Surjection
  <2> HIDE DEF f, applied, lists
  <2> QED
    BY <1>2, <2>1, FS_Surjection
<1>4. \A cc \in lists : IsFiniteSet(cc)
  BY DEF ToSet
<1>5. IsFiniteSet(UNION lists)
  <2> HIDE DEF lists
  <2> QED
    BY <1>3, <1>4, FS_UNION
<1> QED
  BY <1>5 DEF EvaluateRules

LEMMA OneCopyEach == GiveTypes => CopiesReachOnce
<1> SUFFICES ASSUME GiveTypes, Is("send") PROVE CopiesReachOnce
  BY DEF CopiesReachOnce
<1> DEFINE s == given.s
           ruled == EvaluateRules(s.rules, s.to, s.priority, s.type)
           candidates == s.explicit \o SetToSeq(ruled)
           seen(i) == {candidates[j] : j \in 1..(i - 1)}
           kept == {i \in DOMAIN candidates :
                      s.to # <<candidates[i]>> /\ candidates[i] \notin seen(i)}
           copies == EffectiveCc(s.to, s.priority, s.explicit, s.rules, s.type)
           wanted == ToSet(s.explicit) \cup ruled
<1>1. /\ IsList(s.to) /\ IsList(s.explicit) /\ IsList(s.rules)
      /\ \A rule \in ToSet(s.rules) : IsFiniteSet(rule.cc)
  BY BusAssumption DEF GiveTypes
<1>2. IsFiniteSet(ruled)
  BY <1>1, RulesAreFinite
<1>3. copies = [i \in kept |-> candidates[i]]
  BY DEF EffectiveCc
<1> HIDE DEF copies, ruled
<1>4. IsList(candidates) /\ ToSet(candidates) = wanted
  <2>1. IsList(SetToSeq(ruled)) /\ ToSet(SetToSeq(ruled)) = ruled
    BY <1>2, SetAsList
  <2> QED
    BY <1>1, <2>1, Joined
<1> HIDE DEF candidates
<1>5. Len(candidates) \in Nat /\ DOMAIN candidates = 1..Len(candidates)
  BY <1>4, Lists
<1>7. \A name : {i \in DOMAIN copies : copies[i] = name} = {i \in kept : candidates[i] = name}
  BY <1>3
<1>8. ASSUME NEW name
      PROVE  Cardinality({i \in DOMAIN copies : copies[i] = name}) =
               IF name \in wanted /\ s.to # <<name>> THEN 1 ELSE 0
  <2> DEFINE places == {i \in kept : candidates[i] = name}
  <2>1. CASE ~(name \in wanted /\ s.to # <<name>>)
    <3>1. places = {}
      BY <1>4, <2>1 DEF ToSet
    <3> HIDE DEF places
    <3> QED
      BY <1>7, <2>1, <3>1, FS_EmptySet DEF places
  <2>2. CASE name \in wanted /\ s.to # <<name>>
    <3> DEFINE all == {i \in 1..Len(candidates) : candidates[i] = name}
               first == Min(all)
    <3>1. all # {} /\ all \in SUBSET Nat
      <4>1. PICK i \in DOMAIN candidates : candidates[i] = name
        BY <1>4, <2>2 DEF ToSet
      <4>2. \A j \in all : j \in Nat
        BY <1>5
      <4>3. i \in all
        BY <1>5, <4>1
      <4> HIDE DEF all
      <4> QED
        BY <4>2, <4>3
    <3>2. first \in all /\ \A i \in all : first <= i
      <4> HIDE DEF all
      <4> QED
        BY <3>1, LeastIsLeast
    <3>3. first \in 1..Len(candidates) /\ candidates[first] = name
      BY <3>2
    <3> HIDE DEF first
    <3>4. name \notin seen(first)
      <4> SUFFICES ASSUME NEW j \in 1..(first - 1), candidates[j] = name PROVE FALSE
        OBVIOUS
      <4>1. j \in all /\ j < first
        BY <1>5, <3>3
      <4> QED
        BY <1>5, <3>2, <3>3, <4>1
    <3>6. first \in places
      BY <1>5, <2>2, <3>3, <3>4
    <3>7. ASSUME NEW i \in places PROVE i = first
      <4>1. i \in all /\ name \notin seen(i)
        BY <1>5
      <4>2. first <= i
        BY <3>2, <4>1
      <4>3. ~(first \in 1..(i - 1))
        BY <3>3, <4>1
      <4> QED
        BY <1>5, <3>3, <4>1, <4>2, <4>3
    <3>8. places = {first}
      <4> HIDE DEF places
      <4> QED
        BY <3>6, <3>7
    <3>9. {i \in DOMAIN copies : copies[i] = name} = {first}
      BY <1>7, <3>8
    <3> QED
      BY <2>2, <3>9, FS_Singleton
  <2> QED
    BY <2>1, <2>2
<1> QED
  BY <1>8 DEF CopiesReachOnce, copies, ruled

(* Taking one out of a list leaves only what was in it.                    *)
LEMMA RemovedIsLess ==
  ASSUME NEW s, IsList(s), NEW i \in DOMAIN s
  PROVE  IsList(RemoveAt(s, i)) /\ ToSet(RemoveAt(s, i)) \subseteq ToSet(s)
<1>1. Len(s) \in Nat /\ DOMAIN s = 1..Len(s) /\ i \in 1..Len(s)
  BY Lists
<1> DEFINE before == SubSeq(s, 1, i - 1)
           after == SubSeq(s, i + 1, Len(s))
<1>2. \A m \in Nat, n \in Nat : 1 <= m /\ n <= Len(s) =>
        IsList(SubSeq(s, m, n)) /\ ToSet(SubSeq(s, m, n)) \subseteq ToSet(s)
  <2> SUFFICES ASSUME NEW m \in Nat, NEW n \in Nat, 1 <= m, n <= Len(s)
               PROVE  IsList(SubSeq(s, m, n)) /\ ToSet(SubSeq(s, m, n)) \subseteq ToSet(s)
    OBVIOUS
  <2> DEFINE part == SubSeq(s, m, n)
  <2>1. /\ IsList(part) /\ Len(part) = IF m <= n THEN n - m + 1 ELSE 0
        /\ \A k \in 1..(n - m + 1) : part[k] = s[m + k - 1]
    BY PartOf
  <2> HIDE DEF part
  <2>2. DOMAIN part = 1..Len(part)
    BY <2>1, Lists
  <2>3. \A k \in DOMAIN part : part[k] \in ToSet(s)
    <3> SUFFICES ASSUME NEW k \in DOMAIN part PROVE part[k] \in ToSet(s)
      OBVIOUS
    <3>1. k \in 1..(n - m + 1) /\ m + k - 1 \in 1..Len(s)
      BY <1>1, <2>1, <2>2
    <3> QED
      BY <1>1, <2>1, <3>1 DEF ToSet
  <2>4. ToSet(part) \subseteq ToSet(s)
    BY <2>3 DEF ToSet
  <2> QED
    BY <2>1, <2>4 DEF part
<1>3. IsList(before) /\ ToSet(before) \subseteq ToSet(s)
  BY <1>1, <1>2
<1>4. IsList(after) /\ ToSet(after) \subseteq ToSet(s)
  BY <1>1, <1>2
<1>5. RemoveAt(s, i) = before \o after
  BY DEF RemoveAt
<1> HIDE DEF before, after
<1> QED
  BY <1>3, <1>4, <1>5, Joined

LEMMA NoRuleTakes == GiveTypes => RulesOnlyAdd
<1> SUFFICES ASSUME GiveTypes, Is("send") PROVE RulesOnlyAdd
  BY DEF RulesOnlyAdd
<1> DEFINE s == given.s
           all == EvaluateRules(s.rules, s.to, s.priority, s.type)
<1> SUFFICES ASSUME NEW i \in DOMAIN s.rules
             PROVE  EvaluateRules(RemoveAt(s.rules, i), s.to, s.priority, s.type) \subseteq all
  BY DEF RulesOnlyAdd
<1> DEFINE fewer == RemoveAt(s.rules, i)
<1>1. IsList(s.rules)
  BY BusAssumption DEF GiveTypes
<1>2. ToSet(fewer) \subseteq ToSet(s.rules)
  BY <1>1, RemovedIsLess
<1> HIDE DEF fewer
<1> SUFFICES ASSUME NEW j \in DOMAIN fewer, Applies(fewer[j], s.to, s.priority, s.type),
                    NEW name \in fewer[j].cc
             PROVE  name \in all
  BY DEF EvaluateRules, fewer
<1>3. PICK k \in DOMAIN s.rules : s.rules[k] = fewer[j]
  BY <1>2 DEF ToSet
<1> QED
  BY <1>3 DEF EvaluateRules

LEMMA CopiesAreMarked == GiveTypes => CopyIsMarked
<1> SUFFICES ASSUME GiveTypes, Is("frontmatter") PROVE CopyIsMarked
  BY DEF CopyIsMarked
<1> DEFINE fm == given.fm
           mark == <<"x-cc", "true">>
           copy == InjectXCc(fm)
           n == Len(fm)
<1>1. IsList(fm) /\ n \in Nat /\ DOMAIN fm = 1..n /\ (fm = <<>> <=> n = 0)
  BY BusAssumption, Lists DEF GiveTypes
<1>2. ASSUME fm # <<>>
      PROVE  /\ DOMAIN copy = 1..(n + 1) /\ copy[n + 1] = mark
             /\ \A i \in 1..n : copy[i] = fm[i]
  <2>1. copy = Append(fm, mark)
    BY <1>2 DEF InjectXCc
  <2>2. fm \in Seq(ToSet(fm) \cup {mark}) /\ mark \in ToSet(fm) \cup {mark}
    BY <1>1, SeqMonotonic DEF IsList
  <2>3. /\ Append(fm, mark) \in Seq(ToSet(fm) \cup {mark})
        /\ Len(Append(fm, mark)) = n + 1
        /\ \A i \in 1..n : Append(fm, mark)[i] = fm[i]
        /\ Append(fm, mark)[n + 1] = mark
    BY <2>2, AppendProperties
  <2> HIDE DEF copy, mark
  <2> QED
    BY <2>1, <2>3, LenProperties
<1> HIDE DEF copy
<1>3. mark[1] = "x-cc" /\ mark[2] = "true"
  OBVIOUS
<1> HIDE DEF mark
<1>4. ASSUME fm # <<>> PROVE IsCcCopy(copy)
  <2> DEFINE lines == {i \in DOMAIN copy : copy[i][1] = "x-cc"}
  <2>1. lines \in SUBSET (1..(n + 1)) /\ n + 1 \in lines
    BY <1>1, <1>2, <1>3, <1>4
  <2>2. Max(lines) \in lines /\ \A i \in lines : Max(lines) >= i
    <3>1. n + 1 \in Nat
      BY <1>1
    <3> HIDE DEF lines
    <3> QED
      BY <2>1, <3>1, Newest
  <2>3. Max(lines) = n + 1
    <3>1. Max(lines) \in 1..(n + 1) /\ Max(lines) >= n + 1
      BY <2>1, <2>2
    <3> QED
      BY <1>1, <3>1
  <2>4. Field(copy, "x-cc") = "true"
    <3>1. Field(copy, "x-cc") = IF lines = {} THEN "absent" ELSE copy[Max(lines)][2]
      BY DEF Field
    <3> HIDE DEF lines
    <3> QED
      BY <1>2, <1>3, <1>4, <2>1, <2>3, <3>1
  <2> QED
    BY <2>4 DEF IsCcCopy
<1>5. ASSUME NEW row \in ToSet(fm), row[1] # "x-cc"
      PROVE  Field(copy, row[1]) = Field(fm, row[1])
  <2> DEFINE lines == {i \in DOMAIN fm : fm[i][1] = row[1]}
  <2>1. PICK k \in DOMAIN fm : fm[k] = row
    BY DEF ToSet
  <2>2. fm # <<>> /\ lines # {} /\ lines \in SUBSET (1..n)
    BY <1>1, <2>1
  <2>3. {i \in DOMAIN copy : copy[i][1] = row[1]} = lines
    <3>1. \A i \in 1..(n + 1) : i \in 1..n \/ i = n + 1
      BY <1>1
    <3>2. 1..n \subseteq 1..(n + 1)
      BY <1>1
    <3> QED
      BY <1>1, <1>2, <1>3, <1>5, <2>2, <3>1, <3>2
  <2> HIDE DEF lines
  <2>4. Max(lines) \in 1..n
    BY <1>1, <2>2, Newest
  <2>5. Field(fm, row[1]) = fm[Max(lines)][2]
    BY <2>2 DEF Field, lines
  <2>6. Field(copy, row[1]) = copy[Max(lines)][2]
    BY <2>2, <2>3 DEF Field
  <2> QED
    BY <1>2, <2>2, <2>4, <2>5, <2>6
<1> QED
  BY <1>4, <1>5 DEF CopyIsMarked, copy

(* Who is asked for gets one copy unless the message is to them alone, no  *)
(* rule takes one away and each is told from the original: for all         *)
(* messages, rules and frontmatters.                                       *)
THEOREM CopiesStaySound == GiveSpec => []CopiesAreSound
<1>1. GiveTypes => CopiesAreSound
  BY OneCopyEach, NoRuleTakes, CopiesAreMarked DEF CopiesAreSound
<1> QED
  BY <1>1, GivenIsTyped, PTL

----------------------------------------------------------------------------
(* Envelopes *)

(* What an item says of itself.                                            *)
LEMMA ItemAlone ==
  ASSUME NEW item
  PROVE  ParseEnvelope(<<item>>) =
           [class \in {item.class} |-> IF ~item.scoped THEN Everywhere ELSE item.targets]
<1> DEFINE items == <<item>>
<1>1. DOMAIN items = {1} /\ items[1] = item
  OBVIOUS
<1> HIDE DEF items
<1>2. {items[i].class : i \in DOMAIN items} = {item.class}
  BY <1>1
<1>3. {i \in DOMAIN items : items[i].class = item.class} = {1}
  BY <1>1
<1>4. UNION {items[i].targets : i \in {1}} = item.targets
  BY <1>1
<1>5. (\E i \in {1} : ~items[i].scoped) <=> ~item.scoped
  BY <1>1
<1>6. ParseEnvelope(items) =
        [class \in {item.class} |-> IF ~item.scoped THEN Everywhere ELSE item.targets]
  BY <1>2, <1>3, <1>4, <1>5 DEF ParseEnvelope
<1> QED
  BY <1>6 DEF items

LEMMA ItemsAddUp == GiveTypes => EnvelopeIsUnion
<1> SUFFICES ASSUME GiveTypes, Is("envelope") PROVE EnvelopeIsUnion
  BY DEF EnvelopeIsUnion
<1> DEFINE items == given.items
           whole == ParseEnvelope(items)
           alone(i) == ParseEnvelope(<<items[i]>>)
<1> SUFFICES ASSUME NEW class, NEW target
             PROVE  /\ Proceeds(whole, class, target) <=>
                         \E i \in DOMAIN items : Proceeds(alone(i), class, target)
                    /\ Proceeds(whole, class, target) /\ EnvelopeError(items) = "none"
                         => /\ ClassRegistry[class] = "yes"
                            /\ EnvelopeError(Reverse(items)) = "none"
  BY DEF EnvelopeIsUnion
<1>1. IsList(items) /\ \A item \in ToSet(items) : item.targets \subseteq Target
  BY BusAssumption DEF GiveTypes
<1>2. DOMAIN items = 1..Len(items) /\ Len(items) \in Nat
  BY <1>1, Lists
<1> DEFINE ofClass == {i \in DOMAIN items : items[i].class = class}
           scope == IF \E i \in ofClass : ~items[i].scoped THEN Everywhere
                    ELSE UNION {items[i].targets : i \in ofClass}
           goes(S) == S = Everywhere \/ target \in S
           may == /\ class \notin Floor /\ class \in DOMAIN ClassRegistry
                  /\ ClassRegistry[class] = "yes"
<1>3. Proceeds(whole, class, target) <=> may /\ ofClass # {} /\ goes(scope)
  <2>1. DOMAIN whole = {items[i].class : i \in DOMAIN items}
    BY DEF ParseEnvelope
  <2>2. class \in DOMAIN whole <=> ofClass # {}
    BY <2>1
  <2>3. ASSUME class \in DOMAIN whole PROVE whole[class] = scope
    BY <2>1, <2>3 DEF ParseEnvelope
  <2> HIDE DEF whole, scope, ofClass
  <2> QED
    BY <2>2, <2>3 DEF Proceeds
<1>4. \A i \in DOMAIN items :
        Proceeds(alone(i), class, target) <=>
          may /\ i \in ofClass /\ goes(IF ~items[i].scoped THEN Everywhere ELSE items[i].targets)
  <2> SUFFICES ASSUME NEW i \in DOMAIN items
               PROVE  Proceeds(alone(i), class, target) <=>
                        /\ may /\ i \in ofClass
                        /\ goes(IF ~items[i].scoped THEN Everywhere ELSE items[i].targets)
    OBVIOUS
  <2> DEFINE own == IF ~items[i].scoped THEN Everywhere ELSE items[i].targets
  <2>1. alone(i) = [c \in {items[i].class} |-> own]
    BY ItemAlone
  <2>2. DOMAIN alone(i) = {items[i].class} /\ (class = items[i].class => alone(i)[class] = own)
    BY <2>1
  <2>3. i \in ofClass <=> class = items[i].class
    OBVIOUS
  <2> HIDE DEF alone, own, ofClass
  <2> QED
    BY <2>2, <2>3 DEF Proceeds, own
<1>5. \A i \in ofClass : items[i].targets # Everywhere
  <2> SUFFICES ASSUME NEW i \in ofClass, items[i].targets = Everywhere PROVE FALSE
    OBVIOUS
  <2>1. items[i].targets \subseteq Target
    BY <1>1 DEF ToSet
  <2> QED
    BY <2>1, RegistryAssumption DEF Everywhere
<1>6. UNION {items[i].targets : i \in ofClass} # Everywhere
  <2> SUFFICES ASSUME UNION {items[i].targets : i \in ofClass} = Everywhere PROVE FALSE
    OBVIOUS
  <2>1. "everywhere" \in UNION {items[i].targets : i \in ofClass}
    BY DEF Everywhere
  <2>2. PICK i \in ofClass : "everywhere" \in items[i].targets
    BY <2>1
  <2>3. items[i].targets \subseteq Target
    BY <1>1 DEF ToSet
  <2> QED
    BY <2>2, <2>3, RegistryAssumption DEF Everywhere
<1>7. ofClass # {} /\ goes(scope) <=>
        \E i \in ofClass : goes(IF ~items[i].scoped THEN Everywhere ELSE items[i].targets)
  <2>1. CASE \E i \in ofClass : ~items[i].scoped
    <3>1. scope = Everywhere
      BY <2>1
    <3> HIDE DEF scope, ofClass
    <3> QED
      BY <2>1, <3>1
  <2>2. CASE \A i \in ofClass : items[i].scoped
    <3>1. scope = UNION {items[i].targets : i \in ofClass}
      BY <2>2
    <3>2. goes(scope) <=> \E i \in ofClass : target \in items[i].targets
      <4> HIDE DEF scope, ofClass
      <4> QED
        BY <1>6, <3>1
    <3>3. \A i \in ofClass : goes(IF ~items[i].scoped THEN Everywhere ELSE items[i].targets)
                               <=> target \in items[i].targets
      <4> HIDE DEF ofClass
      <4> QED
        BY <1>5, <2>2
    <3> HIDE DEF scope, ofClass, goes
    <3> QED
      BY <3>2, <3>3
  <2> QED
    BY <2>1, <2>2
<1>8. Proceeds(whole, class, target) <=>
        \E i \in DOMAIN items : Proceeds(alone(i), class, target)
  <2>1. ofClass \subseteq DOMAIN items
    OBVIOUS
  <2> HIDE DEF whole, alone, may, ofClass, scope, goes
  <2> QED
    BY <1>3, <1>4, <1>7, <2>1
<1>9. {items[i].class : i \in DOMAIN items}
        = {Reverse(items)[i].class : i \in DOMAIN Reverse(items)}
  <2> DEFINE turned == Reverse(items)
  <2>1. /\ IsList(turned) /\ Len(turned) = Len(items)
        /\ \A i \in 1..Len(items) : /\ Len(items) + 1 - i \in 1..Len(items)
                                    /\ turned[i] = items[Len(items) + 1 - i]
    BY <1>1, TurnedRound
  <2> HIDE DEF turned
  <2>2. DOMAIN turned = 1..Len(items)
    BY <2>1, Lists
  <2>3. \A i \in 1..Len(items) : items[i] = turned[Len(items) + 1 - i]
    <3> SUFFICES ASSUME NEW i \in 1..Len(items)
                 PROVE  items[i] = turned[Len(items) + 1 - i]
      OBVIOUS
    <3>1. /\ Len(items) + 1 - i \in 1..Len(items)
          /\ Len(items) + 1 - (Len(items) + 1 - i) = i
      BY <1>2
    <3> QED
      BY <2>1, <3>1
  <2> HIDE DEF items
  <2>4. {items[i].class : i \in DOMAIN items} \subseteq {turned[i].class : i \in DOMAIN turned}
    <3> SUFFICES ASSUME NEW i \in DOMAIN items
                 PROVE  \E j \in DOMAIN turned : items[i].class = turned[j].class
      OBVIOUS
    <3>1. Len(items) + 1 - i \in DOMAIN turned /\ items[i] = turned[Len(items) + 1 - i]
      BY <1>2, <2>1, <2>2, <2>3
    <3> QED
      BY <3>1, Zenon
  <2>5. {turned[i].class : i \in DOMAIN turned} \subseteq {items[i].class : i \in DOMAIN items}
    <3> SUFFICES ASSUME NEW i \in DOMAIN turned
                 PROVE  \E j \in DOMAIN items : turned[i].class = items[j].class
      OBVIOUS
    <3>1. Len(items) + 1 - i \in DOMAIN items /\ turned[i] = items[Len(items) + 1 - i]
      BY <1>2, <2>1, <2>2
    <3> QED
      BY <3>1, Zenon
  <2> QED
    BY <2>4, <2>5 DEF turned
<1>10. EnvelopeError(Reverse(items)) = EnvelopeError(items)
  <2> DEFINE classes == {items[i].class : i \in DOMAIN items}
             verdict == IF classes \cap Floor # {} THEN "floor"
                        ELSE IF ~(classes \subseteq DOMAIN ClassRegistry) THEN "unknown class"
                        ELSE "none"
  <2>1. EnvelopeError(items) = verdict
    BY DEF EnvelopeError
  <2>2. EnvelopeError(Reverse(items)) = verdict
    BY <1>9 DEF EnvelopeError
  <2> HIDE DEF verdict
  <2> QED
    BY <2>1, <2>2
<1>11. Proceeds(whole, class, target) => ClassRegistry[class] = "yes"
  BY DEF Proceeds
<1> QED
  BY <1>8, <1>10, <1>11

(* An envelope authorizes what its items do one by one, in any order, and  *)
(* only a class that was measured: for all envelopes and registries.       *)
THEOREM EnvelopesAddUp == GiveSpec => []EnvelopeIsUnion
<1> QED
  BY ItemsAddUp, GivenIsTyped, PTL

----------------------------------------------------------------------------
(* Programs *)

(* What the walk finds is a program above or at the place.                 *)
LEMMA WalkedIs ==
  ASSUME NEW tree \in Machines, NEW spot, IsList(spot), NEW d \in ProgramOfPath(tree, spot)
  PROVE  /\ ProgramOfPath(tree, spot) = {d} /\ d \in DOMAIN tree /\ IsProgramDir(tree, d)
         /\ IsList(d)
<1>1. /\ ProgramOfPath(tree, spot) = {d}
      /\ d \in {e \in DOMAIN tree : IsProgramDir(tree, e)}
  BY NearestAmong DEF ProgramOfPath
<1> QED
  BY <1>1, BusAssumption

(* A program that lies where those of a workspace do is enumerated.        *)
LEMMA LaidOutIsListed ==
  ASSUME NEW tree, NEW root, NEW d \in DOMAIN tree, IsProgramDir(tree, d), LaidOut(root, d),
         IsList(root)
  PROVE  d \in EnumeratePrograms(tree, root)
<1>1. Len(root) \in Nat /\ Len(d) = Len(root) + 4
  BY Lists DEF LaidOut
<1>2. Len(d) - 1 = Len(root) + 3 /\ Len(d) - 3 = Len(root) + 1
  BY <1>1
<1>3. /\ d[Len(root) + 3] = "programs" /\ d[Len(root) + 1] = "orgs"
      /\ HasProgramMarker(tree, d)
  BY <1>2 DEF IsProgramDir
<1> QED
  BY <1>1, <1>3 DEF LaidOut, EnumeratePrograms

LEMMA NameFindsPlace == GiveTypes => ExplicitIsTheWalked
<1> SUFFICES ASSUME GiveTypes, Is("request") PROVE ExplicitIsTheWalked
  BY DEF ExplicitIsTheWalked
<1> DEFINE tree == given.tree
           q == given.q
           walked == UNION {ProgramOfPath(tree, d) : d \in q.cwd}
<1> SUFFICES ASSUME NEW root \in q.root, NEW d \in walked, LaidOut(root, d),
                    \A e \in EnumeratePrograms(tree, root) : Last(e) = Last(d) => e = d,
                    NEW elsewhere
             PROVE  ResolveProgram(tree, {Last(d)}, {elsewhere}, q.root, q.pick) =
                      ResolveProgram(tree, {}, q.cwd, q.root, q.pick)
  BY DEF ExplicitIsTheWalked
<1>1. /\ tree \in Machines /\ q \in Requests
      /\ q.root = {root} /\ IsList(root)
  BY BusAssumption DEF GiveTypes
<1>2. PICK c \in q.cwd : d \in ProgramOfPath(tree, c)
  OBVIOUS
<1>3. q.cwd = {c} /\ IsList(c)
  BY <1>1, BusAssumption
<1>4. /\ ProgramOfPath(tree, c) = {d} /\ d \in DOMAIN tree /\ IsProgramDir(tree, d)
  BY <1>1, <1>2, <1>3, WalkedIs
<1>5. walked = {d}
  BY <1>3, <1>4
<1> DEFINE programs == UNION {EnumeratePrograms(tree, r) : r \in q.root}
           named == {e \in programs : Last(e) \in {Last(d)}}
           org(e) == CHOOSE i \in DOMAIN OrgOrder : OrgOrder[i] = e[Len(e) - 2]
<1>6. programs = EnumeratePrograms(tree, root)
  BY <1>1
<1>7. d \in EnumeratePrograms(tree, root)
  BY <1>1, <1>4, LaidOutIsListed
<1>8. named = {d}
  <2> HIDE DEF programs
  <2> QED
    BY <1>6, <1>7
<1>9. org(d) \in Nat
  <2>1. d[Len(d) - 2] \in ToSet(OrgOrder) /\ IsList(OrgOrder)
    BY <1>1, <1>4, BusAssumption
  <2>2. DOMAIN OrgOrder = 1..Len(OrgOrder) /\ Len(OrgOrder) \in Nat
    BY <2>1, Lists
  <2>3. \E i \in DOMAIN OrgOrder : OrgOrder[i] = d[Len(d) - 2]
    BY <2>1 DEF ToSet
  <2>4. org(d) \in DOMAIN OrgOrder
    BY <2>3
  <2> HIDE DEF org
  <2> QED
    BY <2>2, <2>4
<1>10. (CHOOSE x \in named : \A e \in named : org(x) <= org(e)) = d
  <2>1. \A e \in {d} : org(d) <= org(e)
    <3> HIDE DEF org
    <3> QED
      BY <1>9
  <2> HIDE DEF org, named
  <2> QED
    BY <1>8, <2>1
<1>11. ResolveProgram(tree, {Last(d)}, {elsewhere}, q.root, q.pick) = Chosen(d)
  <2>1. ResolveProgram(tree, {Last(d)}, {elsewhere}, q.root, q.pick) =
          IF named = {} THEN Refuse("name")
          ELSE Chosen(CHOOSE x \in named : \A e \in named : org(x) <= org(e))
    BY DEF ResolveProgram
  <2> HIDE DEF named, org
  <2> QED
    BY <1>8, <1>10, <2>1
<1>12. ResolveProgram(tree, {}, q.cwd, q.root, q.pick) = Chosen(d)
  <2>1. (CHOOSE e \in {d} : TRUE) = d
    OBVIOUS
  <2>2. walked # {} => ResolveProgram(tree, {}, q.cwd, q.root, q.pick) =
                         Chosen(CHOOSE e \in walked : TRUE)
    BY DEF ResolveProgram
  <2> HIDE DEF walked
  <2> QED
    BY <1>5, <2>1, <2>2
<1> QED
  BY <1>11, <1>12

LEMMA InitMeansNone == GiveTypes => InitOnlyAtZero
<1> SUFFICES ASSUME GiveTypes, Is("request") PROVE InitOnlyAtZero
  BY DEF InitOnlyAtZero
<1> DEFINE tree == given.tree
           q == given.q
           programs == UNION {EnumeratePrograms(tree, r) : r \in q.root}
           here == UNION {ProgramOfPath(tree, d) : d \in q.cwd}
<1> SUFFICES ASSUME ResolveProgram(tree, q.explicit, q.cwd, q.root, q.pick).advice = "init"
             PROVE  /\ \A root \in q.root, d \in DOMAIN tree :
                         \A program \in ProgramOfPath(tree, d) : ~LaidOut(root, program)
                    /\ \A d \in q.cwd : ProgramOfPath(tree, d) = {}
  BY DEF InitOnlyAtZero
<1>1. tree \in Machines /\ q \in Requests
  BY DEF GiveTypes
<1>2. here = {} /\ programs = {}
  <2> DEFINE org(d) == CHOOSE i \in DOMAIN OrgOrder : OrgOrder[i] = d[Len(d) - 2]
             named == {d \in programs : Last(d) \in q.explicit}
             byName == CHOOSE d \in named : \A e \in named : org(d) <= org(e)
  <2>1. ResolveProgram(tree, q.explicit, q.cwd, q.root, q.pick) =
          IF q.explicit # {}
          THEN IF named = {} THEN Refuse("name") ELSE Chosen(byName)
          ELSE IF here # {} THEN Chosen(CHOOSE d \in here : TRUE)
          ELSE IF q.pick # {} THEN Chosen(CHOOSE d \in q.pick : TRUE)
          ELSE Refuse(IF programs = {} THEN "init" ELSE "program")
    BY DEF ResolveProgram
  <2>2. /\ \A d : Chosen(d).advice = "none"
        /\ \A advice : Refuse(advice).advice = advice
    BY DEF Chosen, Refuse
  <2> HIDE DEF programs, here, named, byName
  <2> QED
    BY <2>1, <2>2
<1>3. ASSUME NEW root \in q.root, NEW d \in DOMAIN tree,
             NEW program \in ProgramOfPath(tree, d), LaidOut(root, program)
      PROVE  FALSE
  <2>1. IsList(d) /\ IsList(root)
    BY <1>1, BusAssumption
  <2>2. program \in DOMAIN tree /\ IsProgramDir(tree, program)
    BY <1>1, <2>1, WalkedIs
  <2>3. program \in EnumeratePrograms(tree, root)
    BY <1>3, <2>1, <2>2, LaidOutIsListed
  <2> QED
    BY <1>2, <2>3
<1>4. \A d \in q.cwd : ProgramOfPath(tree, d) = {}
  BY <1>2
<1> QED
  BY <1>3, <1>4

(* The walk, the enumeration and the advice agree on what is a program, on *)
(* every machine and for every request.                                    *)
THEOREM ProgramsAlwaysAgree == GiveSpec => []ProgramsAgree
<1>1. GiveTypes => ProgramsAgree
  BY NameFindsPlace, InitMeansNone DEF ProgramsAgree
<1> QED
  BY <1>1, GivenIsTyped, PTL

----------------------------------------------------------------------------
(* Names *)

(* What stands behind another list is found after that list's length.      *)
LEMMA Behind ==
  ASSUME NEW s, NEW t, IsList(s), IsList(t)
  PROVE  \A i \in 1..Len(t) : (s \o t)[Len(s) + i] = t[i]
BY Joined

(* Of two lists in a row the first is the beginning, the second the rest.  *)
LEMMA JoinedApart ==
  ASSUME NEW s, NEW t, IsList(s), IsList(t)
  PROVE  /\ SubSeq(s \o t, 1, Len(s)) = s
         /\ SubSeq(s \o t, Len(s) + 1, Len(s \o t)) = t
<1> DEFINE both == ToSet(s) \cup ToSet(t)
<1>1. s \in Seq(both) /\ t \in Seq(both)
  BY SeqMonotonic DEF IsList
<1>2. /\ Len(s) \in Nat /\ Len(t) \in Nat /\ Len(s \o t) = Len(s) + Len(t)
      /\ (s = <<>> <=> Len(s) = 0) /\ (t = <<>> <=> Len(t) = 0)
  BY Lists, Joined
<1>3. SubSeq(s, 1, Len(s)) = s /\ SubSeq(t, 1, Len(t)) = t
  BY <1>1, SubSeqFull
<1> HIDE DEF both
<1>4. SubSeq(s \o t, 1, Len(s)) = s
  <2>1. CASE Len(s) = 0
    <3>1. SubSeq(s \o t, 1, 0) = <<>>
      BY SubSeqEmpty
    <3> QED
      BY <1>2, <2>1, <3>1
  <2>2. CASE Len(s) # 0
    <3>1. 1 \in 1..Len(s) /\ Len(s) \in 1..Len(s)
      BY <1>2, <2>2
    <3>2. SubSeq(s \o t, 1, Len(s)) = SubSeq(s, 1, Len(s))
      BY <1>1, <3>1, SubSeqOfConcat1
    <3> QED
      BY <1>3, <3>2
  <2> QED
    BY <2>1, <2>2
<1>5. SubSeq(s \o t, Len(s) + 1, Len(s) + Len(t)) = t
  <2>1. CASE Len(t) = 0
    <3>1. SubSeq(s \o t, Len(s) + 1, Len(s)) = <<>>
      BY <1>2, SubSeqEmpty
    <3>2. Len(s) + Len(t) = Len(s)
      BY <1>2, <2>1
    <3> QED
      BY <1>2, <2>1, <3>1, <3>2
  <2>2. CASE Len(t) # 0
    <3>1. /\ Len(s) + 1 \in Len(s) + 1..Len(s) + Len(t)
          /\ Len(s) + Len(t) \in Len(s) + 1..Len(s) + Len(t)
          /\ Len(s) + 1 - Len(s) = 1 /\ Len(s) + Len(t) - Len(s) = Len(t)
      BY <1>2, <2>2
    <3>2. SubSeq(s \o t, Len(s) + 1, Len(s) + Len(t)) =
            SubSeq(t, Len(s) + 1 - Len(s), Len(s) + Len(t) - Len(s))
      BY <1>1, <3>1, SubSeqOfConcat2
    <3> QED
      BY <1>3, <3>1, <3>2
  <2> QED
    BY <2>1, <2>2
<1> QED
  BY <1>2, <1>4, <1>5

(* _split_recipient takes the longest of the names that fit.               *)
LEMMA LongestName ==
  ASSUME NEW tail, IsList(tail), NEW roster, \A name \in roster : IsList(name),
         \E name \in roster : IsPrefix(name, tail)
  PROVE  \E best \in roster :
           /\ IsPrefix(best, tail)
           /\ \A name \in roster : IsPrefix(name, tail) => Len(name) <= Len(best)
           /\ SplitRecipient(tail, roster) =
                [recipient |-> best, slug |-> SubSeq(tail, Len(best) + 1, Len(tail))]
<1> DEFINE fits == {name \in roster : IsPrefix(name, tail)}
           sizes == {Len(name) + 1 : name \in fits}
           best == CHOOSE name \in fits : \A n \in fits : Len(n) <= Len(name)
<1>1. /\ Len(tail) \in Nat
      /\ \A name \in fits : Len(name) \in Nat /\ Len(name) <= Len(tail)
  BY Lists DEF IsPrefix
<1>2. fits # {}
  OBVIOUS
<1>3. Len(tail) + 1 \in Nat /\ sizes \in SUBSET (1..(Len(tail) + 1)) /\ sizes # {}
  BY <1>1, <1>2
<1>4. Max(sizes) \in sizes /\ \A k \in sizes : Max(sizes) >= k
  <2> HIDE DEF sizes
  <2> QED
    BY <1>3, Newest
<1>5. PICK top \in fits : Len(top) + 1 = Max(sizes)
  BY <1>4
<1>6. \A n \in fits : Len(n) <= Len(top)
  <2> SUFFICES ASSUME NEW n \in fits PROVE Len(n) <= Len(top)
    OBVIOUS
  <2>1. Len(n) + 1 <= Len(top) + 1
    <3>1. Len(n) + 1 \in sizes
      OBVIOUS
    <3>2. Max(sizes) >= Len(n) + 1
      BY <1>4, <3>1
    <3> HIDE DEF sizes, fits
    <3> QED
      BY <1>1, <1>5, <3>2
  <2>2. Len(n) \in Nat /\ Len(top) \in Nat
    BY <1>1
  <2> QED
    BY ONLY <2>1, <2>2
<1>7. best \in fits /\ \A n \in fits : Len(n) <= Len(best)
  <2> HIDE DEF fits
  <2> QED
    BY <1>6
<1>8. SplitRecipient(tail, roster) =
        [recipient |-> best, slug |-> SubSeq(tail, Len(best) + 1, Len(tail))]
  BY <1>2 DEF SplitRecipient
<1> HIDE DEF best
<1> QED
  BY <1>7, <1>8

(* How lists are joined makes no difference.                               *)
LEMMA ThreeInARow ==
  ASSUME NEW a, NEW b, NEW c, IsList(a), IsList(b), IsList(c)
  PROVE  (a \o b) \o c = a \o (b \o c)
<1> DEFINE S == ToSet(a) \cup ToSet(b) \cup ToSet(c)
<1>1. a \in Seq(S) /\ b \in Seq(S) /\ c \in Seq(S)
  BY SeqMonotonic DEF IsList
<1> HIDE DEF S
<1> QED
  BY <1>1, ConcatAssociative

(* One list and then another; named, so that a chain of them stays as it   *)
(* is written.                                                             *)
Then(s, t) == s \o t

LEMMA ThenThen ==
  ASSUME NEW a, NEW b, NEW c, IsList(a), IsList(b), IsList(c)
  PROVE  Then(Then(a, b), c) = Then(a, Then(b, c)) /\ IsList(Then(a, b))
<1>1. (a \o b) \o c = a \o (b \o c)
  BY ThreeInARow
<1>2. IsList(a \o b)
  BY Joined
<1> QED
  BY <1>1, <1>2, Zenon DEF Then

LEMMA FourInARow ==
  ASSUME NEW a, NEW b, NEW c, NEW d, IsList(a), IsList(b), IsList(c), IsList(d)
  PROVE  Then(Then(Then(a, b), c), d) = Then(a, Then(b, Then(c, d)))
<1>1. IsList(Then(a, b)) /\ IsList(Then(c, d))
  BY ThenThen
<1>2. Then(Then(Then(a, b), c), d) = Then(Then(a, b), Then(c, d))
  BY <1>1, ThenThen
<1>3. Then(Then(a, b), Then(c, d)) = Then(a, Then(b, Then(c, d)))
  BY <1>1, ThenThen
<1> QED
  BY <1>2, <1>3

(* A stem whose ends have no slash in their names is read back but for a   *)
(* "to" inside the sender and a longer name that fits.                     *)
LEMMA SlashlessReadsBack ==
  ASSUME NEW sender, NEW recipient, NEW slug, NEW roster,
         IsList(sender), sender # <<>>, IsList(recipient), recipient # <<>>, IsList(slug),
         \A name \in roster : IsList(name), recipient \in roster
  PROVE  LET parsed == ParseStem(sender \o <<ToWord>> \o recipient \o slug, roster)
             inside == \E i \in 2..Len(sender) : sender[i] = ToWord
             longer == \E name \in roster : /\ Len(name) > Len(recipient)
                                           /\ IsPrefix(name, recipient \o slug)
         IN  parsed = [sender |-> sender, recipient |-> recipient, slug |-> slug]
               <=> ~inside /\ ~longer
<1> DEFINE stem == sender \o <<ToWord>> \o recipient \o slug
           parsed == ParseStem(stem, roster)
           inside == \E i \in 2..Len(sender) : sender[i] = ToWord
           longer == \E name \in roster : /\ Len(name) > Len(recipient)
                                         /\ IsPrefix(name, recipient \o slug)
<1>1. /\ IsList(sender) /\ sender # <<>> /\ IsList(recipient) /\ recipient # <<>>
      /\ IsList(slug) /\ \A name \in roster : IsList(name)
  OBVIOUS
<1> DEFINE word == <<ToWord>>
           full == recipient \o slug
           rest == word \o full
           here == Len(sender) + 1
           routes == {i \in 2..(Len(stem) - 1) : stem[i] = ToWord}
<1>2. IsList(word) /\ Len(word) = 1 /\ word[1] = ToWord
  <2>1. word = [i \in 1..1 |-> word[i]]
    OBVIOUS
  <2> QED
    BY <2>1, ListOf
<1>3. stem = sender \o rest
  <2>1. stem = ((sender \o word) \o recipient) \o slug
    OBVIOUS
  <2> HIDE DEF stem, word
  <2>2. ((sender \o word) \o recipient) \o slug = sender \o (word \o (recipient \o slug))
    <3>1. Then(Then(Then(sender, word), recipient), slug) =
            Then(sender, Then(word, Then(recipient, slug)))
      BY <1>1, <1>2, FourInARow
    <3> QED
      BY <3>1, Zenon DEF Then
  <2> QED
    BY <2>1, <2>2
<1> HIDE DEF stem, word
<1>4. /\ IsList(full) /\ Len(full) = Len(recipient) + Len(slug)
      /\ Len(sender) \in Nat \ {0} /\ Len(recipient) \in Nat \ {0} /\ Len(slug) \in Nat
  BY <1>1, Lists, Joined
<1> HIDE DEF full
<1>5. /\ IsList(rest) /\ Len(rest) = 1 + Len(full) /\ rest[1] = ToWord
      /\ SubSeq(rest, 2, Len(rest)) = full
  <2>0. Len(word \o full) = Len(word) + Len(full)
    BY <1>2, <1>4, Joined
  <2>1. IsList(word \o full)
    BY <1>2, <1>4, Joined
  <2>4. \A i \in 1..Len(word) : (word \o full)[i] = word[i]
    BY <1>2, <1>4, Joined, Zenon
  <2>2. SubSeq(rest, 1 + 1, Len(rest)) = full
    BY <1>2, <1>4, JoinedApart
  <2>6. SubSeq(rest, 2, Len(rest)) = full
    <3>1. 1 + 1 = 2
      OBVIOUS
    <3> HIDE DEF rest
    <3> QED
      BY <2>2, <3>1, Zenon
  <2>5. Len(rest) = Len(word) + Len(full) /\ \A i \in 1..Len(word) : rest[i] = word[i]
    BY <2>0, <2>4
  <2> HIDE DEF rest
  <2>3. rest[1] = ToWord
    BY <1>2, <2>5
  <2> QED
    <3>1. Len(rest) = 1 + Len(full)
      BY <1>2, <2>5
    <3>2. IsList(rest)
      BY <2>1 DEF rest
    <3> QED
      BY <2>3, <2>6, <3>1, <3>2, Zenon
<1> HIDE DEF rest
<1>6. /\ IsList(stem) /\ Len(stem) = Len(sender) + Len(rest)
      /\ \A i \in 1..Len(sender) : stem[i] = sender[i]
      /\ stem[here] = ToWord
      /\ SubSeq(stem, 1, Len(sender)) = sender
      /\ SubSeq(stem, here, Len(stem)) = rest
  <2>4. IsList(sender \o rest)
    BY <1>1, <1>5, Joined
  <2>5. Len(sender \o rest) = Len(sender) + Len(rest)
    BY <1>1, <1>5, Joined
  <2>6. \A i \in 1..Len(sender) : (sender \o rest)[i] = sender[i]
    BY <1>1, <1>5, Joined, Zenon
  <2>7. \A i \in 1..Len(rest) : (sender \o rest)[Len(sender) + i] = rest[i]
    BY <1>1, <1>5, Behind, Zenon
  <2>1. /\ IsList(stem) /\ Len(stem) = Len(sender) + Len(rest)
        /\ \A i \in 1..Len(sender) : stem[i] = sender[i]
        /\ \A i \in 1..Len(rest) : stem[Len(sender) + i] = rest[i]
    BY <1>3, <2>4, <2>5, <2>6, <2>7, Zenon
  <2>2. SubSeq(stem, 1, Len(sender)) = sender /\ SubSeq(stem, here, Len(stem)) = rest
    BY <1>1, <1>3, <1>5, JoinedApart
  <2>3. stem[here] = ToWord
    <3>1. 1 \in 1..Len(rest)
      BY <1>4, <1>5
    <3> QED
      BY <1>5, <2>1, <3>1
  <2> QED
    BY <2>1, <2>2, <2>3
<1>7. here \in routes /\ routes \in SUBSET Nat
  <2>1. here \in 2..(Len(stem) - 1)
    BY <1>4, <1>5, <1>6
  <2>2. \A i \in routes : i \in Nat
    BY <1>4, <1>5, <1>6
  <2>3. here \in routes
    BY <1>6, <2>1
  <2> HIDE DEF routes
  <2> QED
    BY <2>2, <2>3
<1> DEFINE route == Min(routes)
           tail == SubSeq(stem, route + 1, Len(stem))
           split == SplitRecipient(tail, roster)
<1>8. route \in routes /\ \A i \in routes : route <= i
  <2> HIDE DEF routes
  <2> QED
    BY <1>7, LeastIsLeast
<1>9. parsed = [sender |-> SubSeq(stem, 1, route - 1), recipient |-> split.recipient,
                slug |-> split.slug]
  <2>1. routes # {}
    BY <1>7
  <2> QED
    BY <2>1 DEF ParseStem
<1> HIDE DEF parsed, route, split
<1>10. /\ route \in 2..(Len(stem) - 1) /\ stem[route] = ToWord /\ route <= here
  BY <1>7, <1>8
<1>11. inside <=> route # here
  <2>1. ASSUME NEW i \in 2..Len(sender), sender[i] = ToWord PROVE route # here
    <3>1. i \in routes /\ i < here
      BY <1>4, <1>5, <1>6, <2>1
    <3> HIDE DEF routes
    <3>2. route <= i
      BY <1>8, <3>1
    <3> QED
      BY <1>4, <1>10, <3>1, <3>2
  <2>2. ASSUME route # here PROVE inside
    <3>1. route \in 2..Len(sender)
      <4>1. Len(stem) \in Nat /\ Len(sender) \in Nat
        BY <1>4, <1>6, Lists
      <4>2. route \in Int /\ 2 <= route
        BY <1>10, <4>1
      <4>3. route <= Len(sender) + 1 /\ route # Len(sender) + 1
        BY <1>10, <2>2
      <4> QED
        BY ONLY <4>1, <4>2, <4>3
    <3>2. route \in 1..Len(sender)
      BY <1>4, <3>1
    <3>3. stem[route] = sender[route]
      BY <1>6, <3>2, Zenon
    <3>4. stem[route] = ToWord
      BY <1>10, Zenon
    <3> QED
      BY <3>1, <3>3, <3>4
  <2> QED
    BY <2>1, <2>2
<1>12. ASSUME route # here PROVE parsed.sender # sender
  <2>1. Len(SubSeq(stem, 1, route - 1)) = route - 1
    <3>1. route - 1 \in Nat /\ 1 <= route - 1 /\ route - 1 <= Len(stem)
      BY <1>4, <1>5, <1>6, <1>10
    <3>2. Len(SubSeq(stem, 1, route - 1)) =
            IF 1 <= route - 1 THEN (route - 1) - 1 + 1 ELSE 0
      BY <1>6, <3>1, PartOf
    <3> QED
      BY <3>1, <3>2
  <2>2. route - 1 # Len(sender)
    BY <1>4, <1>10, <1>12
  <2> QED
    BY <1>9, <2>1, <2>2
<1>13. ASSUME route = here
       PROVE  /\ parsed.sender = sender
              /\ \E best \in roster :
                   /\ IsPrefix(best, full)
                   /\ \A name \in roster : IsPrefix(name, full) => Len(name) <= Len(best)
                   /\ parsed.recipient = best
                   /\ parsed.slug = SubSeq(full, Len(best) + 1, Len(full))
  <2>1. route - 1 = Len(sender)
    BY <1>4, <1>13
  <2>2. tail = full
    <3>1. tail = SubSeq(rest, 2, Len(rest))
      <4>1. stem = sender \o rest /\ Len(stem) = Len(sender) + Len(rest)
        BY <1>3, <1>6
      <4>2. /\ Len(rest) \in Nat /\ 2 <= Len(rest)
            /\ Len(sender) + 2 - Len(sender) = 2
            /\ Len(sender) + Len(rest) - Len(sender) = Len(rest)
            /\ Len(sender) + 2 \in Len(sender) + 1..Len(sender) + Len(rest)
            /\ Len(sender) + Len(rest) \in Len(sender) + 1..Len(sender) + Len(rest)
        BY <1>4, <1>5
      <4>3. sender \in Seq(ToSet(sender) \cup ToSet(rest))
            /\ rest \in Seq(ToSet(sender) \cup ToSet(rest))
        BY <1>1, <1>5, SeqMonotonic DEF IsList
      <4>4. SubSeq(sender \o rest, Len(sender) + 2, Len(sender) + Len(rest)) =
              SubSeq(rest, Len(sender) + 2 - Len(sender), Len(sender) + Len(rest) - Len(sender))
        BY <4>2, <4>3, SubSeqOfConcat2
      <4>5. route + 1 = Len(sender) + 2
        BY <1>4, <1>13
      <4> QED
        BY <4>1, <4>2, <4>4, <4>5
    <3> QED
      BY <1>5, <3>1
  <2>3. IsPrefix(recipient, full)
    <3>1. SubSeq(full, 1, Len(recipient)) = recipient
      BY <1>1, JoinedApart DEF full
    <3> QED
      BY <1>1, <1>4, <3>1, PrefixIs
  <2>4. PICK best \in roster :
          /\ IsPrefix(best, full)
          /\ \A name \in roster : IsPrefix(name, full) => Len(name) <= Len(best)
          /\ split = [recipient |-> best, slug |-> SubSeq(full, Len(best) + 1, Len(full))]
    <3>1. \E name \in roster : IsPrefix(name, full)
      BY <2>3
    <3> QED
      BY <1>1, <1>4, <2>2, <3>1, LongestName DEF split
  <2> QED
    BY <1>6, <1>9, <2>1, <2>4
<1>14. ASSUME parsed = [sender |-> sender, recipient |-> recipient, slug |-> slug]
       PROVE  ~inside /\ ~longer
  <2>1. route = here
    BY <1>12, <1>14
  <2>2. \A name \in roster : IsPrefix(name, full) => Len(name) <= Len(recipient)
    BY <1>13, <1>14, <2>1
  <2>3. \A name \in roster : Len(name) \in Nat
    BY <1>1, Lists
  <2>4. ~longer
    BY <1>4, <2>2, <2>3 DEF full
  <2> QED
    BY <1>11, <2>1, <2>4
<1>15. ASSUME ~inside, ~longer
       PROVE  parsed = [sender |-> sender, recipient |-> recipient, slug |-> slug]
  <2>1. route = here
    BY <1>11, <1>15
  <2>2. PICK best \in roster :
          /\ IsPrefix(best, full)
          /\ \A name \in roster : IsPrefix(name, full) => Len(name) <= Len(best)
          /\ parsed.recipient = best
          /\ parsed.slug = SubSeq(full, Len(best) + 1, Len(full))
    BY <1>13, <2>1
  <2>3. IsPrefix(recipient, full) /\ SubSeq(full, 1, Len(recipient)) = recipient
        /\ SubSeq(full, Len(recipient) + 1, Len(full)) = slug
    <3>1. SubSeq(full, 1, Len(recipient)) = recipient
          /\ SubSeq(full, Len(recipient) + 1, Len(full)) = slug
      BY <1>1, JoinedApart DEF full
    <3> QED
      BY <1>1, <1>4, <3>1, PrefixIs
  <2>4. Len(best) = Len(recipient)
    <3>1. Len(best) \in Nat /\ recipient \in roster
      BY <1>1, Lists
    <3>2. Len(recipient) <= Len(best)
      BY <2>2, <2>3, <3>1
    <3>3. ~(Len(best) > Len(recipient))
      BY <1>15, <2>2 DEF full
    <3> QED
      BY <1>4, <3>1, <3>2, <3>3
  <2>5. best = recipient
    BY <1>1, <1>4, <2>2, <2>3, <2>4, PrefixIs
  <2>6. parsed.sender = sender /\ parsed.recipient = recipient /\ parsed.slug = slug
    BY <1>13, <2>1, <2>2, <2>3, <2>5
  <2> QED
    BY <1>9, <2>6
<1> QED
  BY <1>14, <1>15 DEF parsed, stem, full

(* _safe changes a name exactly where it has a slash, and leaves none.     *)
LEMMA SafeIs ==
  ASSUME NEW name, IsName(name)
  PROVE  /\ IsList(Safe(name)) /\ Slashless(Safe(name))
         /\ Slashless(name) => Safe(name) = name
<1>1. /\ Len(name) \in Nat /\ DOMAIN name = 1..Len(name)
      /\ name = [i \in 1..Len(name) |-> name[i]]
  BY Lists DEF IsName
<1>2. Safe(name) = [i \in 1..Len(name) |-> Safe(name)[i]]
  BY <1>1 DEF Safe
<1>3. IsList(Safe(name))
  BY <1>1, <1>2, ListOf
<1>4. Slashless(Safe(name))
  BY DEF Safe, Slashless, Word
<1>5. ASSUME Slashless(name) PROVE Safe(name) = name
  <2>1. ASSUME NEW i \in DOMAIN name PROVE Word(name[i].word) = name[i]
    BY <1>5, <2>1 DEF IsName, Slashless, Word
  <2>2. Safe(name) = [i \in 1..Len(name) |-> name[i]]
    BY <1>1, <2>1 DEF Safe
  <2> QED
    BY <1>1, <2>2
<1> QED
  BY <1>3, <1>4, <1>5

(* Names in a row have no slash if none of them does.                      *)
LEMMA SlashlessJoined ==
  ASSUME NEW s, NEW t, IsList(s), IsList(t), Slashless(s), Slashless(t)
  PROVE  IsList(s \o t) /\ Slashless(s \o t)
<1>1. /\ Len(s) \in Nat /\ Len(t) \in Nat
      /\ DOMAIN s = 1..Len(s) /\ DOMAIN t = 1..Len(t)
  BY Lists
<1>2. /\ IsList(s \o t) /\ Len(s \o t) = Len(s) + Len(t)
      /\ \A i \in 1..Len(s) : (s \o t)[i] = s[i]
  BY Joined, Zenon
<1>3. \A i \in 1..Len(t) : (s \o t)[Len(s) + i] = t[i]
  BY Behind, Zenon
<1>4. DOMAIN (s \o t) = 1..(Len(s) + Len(t))
  BY <1>2, Lists
<1>5. ASSUME NEW i \in DOMAIN (s \o t) PROVE (s \o t)[i].by = "-"
  <2>1. CASE i <= Len(s)
    <3>1. i \in 1..Len(s)
      BY <1>1, <1>4, <1>5, <2>1
    <3>2. s[i].by = "-"
      BY <1>1, <3>1 DEF Slashless
    <3> QED
      BY <1>2, <3>1, <3>2
  <2>2. CASE ~(i <= Len(s))
    <3>1. i - Len(s) \in 1..Len(t) /\ Len(s) + (i - Len(s)) = i
      BY <1>1, <1>4, <1>5, <2>2
    <3>2. t[i - Len(s)].by = "-"
      BY <1>1, <3>1 DEF Slashless
    <3>3. (s \o t)[Len(s) + (i - Len(s))] = t[i - Len(s)]
      BY <1>3, <3>1
    <3> QED
      BY <3>1, <3>2, <3>3
  <2> QED
    BY <2>1, <2>2
<1> QED
  BY <1>2, <1>5 DEF Slashless

(* What is read from a stem without a slash has none.                      *)
LEMMA PartIsSlashless ==
  ASSUME NEW s, IsList(s), Slashless(s), NEW m \in Nat, NEW n \in Nat, 1 <= m, n <= Len(s)
  PROVE  IsList(SubSeq(s, m, n)) /\ Slashless(SubSeq(s, m, n))
<1> DEFINE part == SubSeq(s, m, n)
<1>1. Len(s) \in Nat /\ DOMAIN s = 1..Len(s)
  BY Lists
<1>2. /\ IsList(part) /\ Len(part) = IF m <= n THEN n - m + 1 ELSE 0
      /\ \A i \in 1..(n - m + 1) : part[i] = s[m + i - 1]
  BY PartOf
<1>3. DOMAIN part = 1..Len(part)
  BY <1>2, Lists
<1> HIDE DEF part
<1>4. ASSUME NEW i \in DOMAIN part PROVE part[i].by = "-"
  <2>1. i \in 1..(n - m + 1) /\ m + i - 1 \in DOMAIN s
    BY <1>1, <1>2, <1>3, <1>4
  <2> QED
    BY <1>2, <2>1 DEF Slashless
<1> QED
  BY <1>2, <1>4 DEF Slashless, part

LEMMA NothingIsSlashless == Slashless(None)
BY DEF Slashless, None

LEMMA ReadSlashless ==
  ASSUME NEW stem, IsList(stem), Slashless(stem), NEW roster, \A name \in roster : IsList(name)
  PROVE  LET parsed == ParseStem(stem, roster)
         IN  Slashless(parsed.sender) /\ Slashless(parsed.recipient)
<1> DEFINE parsed == ParseStem(stem, roster)
           routes == {i \in 2..(Len(stem) - 1) : stem[i] = ToWord}
           route == Min(routes)
           tail == SubSeq(stem, route + 1, Len(stem))
           fits == {name \in roster : IsPrefix(name, tail)}
           split == SplitRecipient(tail, roster)
<1> SUFFICES Slashless(parsed.sender) /\ Slashless(parsed.recipient)
  OBVIOUS
<1>1. Len(stem) \in Nat
  BY Lists
<1>2. CASE routes = {}
  <2>1. parsed.sender = None /\ parsed.recipient = None
    BY <1>2 DEF ParseStem
  <2> QED
    BY <2>1, NothingIsSlashless
<1>3. CASE routes # {}
  <2>1. route \in 2..(Len(stem) - 1)
    <3>1. \A i \in routes : i \in 2..(Len(stem) - 1) /\ i \in Nat
      BY <1>1
    <3> HIDE DEF routes
    <3>2. routes \in SUBSET Nat
      BY <3>1
    <3> QED
      BY <1>3, <3>1, <3>2, LeastIsLeast
  <2>2. /\ parsed.sender = SubSeq(stem, 1, route - 1) /\ parsed.recipient = split.recipient
    BY <1>3 DEF ParseStem
  <2> HIDE DEF parsed, route
  <2>3. Slashless(SubSeq(stem, 1, route - 1))
    BY <1>1, <2>1, PartIsSlashless
  <2>4. IsList(tail) /\ Slashless(tail)
    BY <1>1, <2>1, PartIsSlashless
  <2> HIDE DEF tail
  <2>5. CASE fits = {}
    <3>1. split.recipient = None
      BY <2>5 DEF SplitRecipient
    <3> QED
      BY <2>2, <2>3, <3>1, NothingIsSlashless
  <2>6. CASE fits # {}
    <3>1. \E name \in roster : IsPrefix(name, tail)
      BY <2>6
    <3>2. PICK best \in roster :
            /\ IsPrefix(best, tail)
            /\ split = [recipient |-> best, slug |-> SubSeq(tail, Len(best) + 1, Len(tail))]
      BY <2>4, <3>1, LongestName
    <3>3. IsList(best) /\ Len(best) \in Nat /\ Len(best) <= Len(tail)
          /\ best = SubSeq(tail, 1, Len(best))
      BY <2>4, <3>2, PrefixIs, Lists
    <3>4. Slashless(SubSeq(tail, 1, Len(best)))
      BY <2>4, <3>3, PartIsSlashless
    <3>5. split.recipient = best
      BY <3>2
    <3> QED
      BY <2>2, <2>3, <3>3, <3>4, <3>5
  <2> QED
    BY <2>5, <2>6
<1> QED
  BY <1>2, <1>3

LEMMA StemReadsBack == GiveTypes => StemRoundTrip
<1> SUFFICES ASSUME GiveTypes, Is("stem"), given.recipient \in given.known
             PROVE  StemRoundTrip
  BY DEF StemRoundTrip
<1> DEFINE sender == given.sender
           recipient == given.recipient
           slug == given.slug
           roster == given.known
           stem == BuildStem(sender, recipient, slug)
           parsed == ParseStem(stem, roster)
           whole == [sender |-> sender, recipient |-> recipient, slug |-> slug]
           inside == \E i \in 2..Len(sender) : sender[i] = ToWord
           longer == \E name \in roster : /\ Len(name) > Len(recipient)
                                         /\ IsPrefix(name, recipient \o slug)
           bare == Slashless(sender) /\ Slashless(recipient)
<1> SUFFICES parsed = whole <=> bare /\ ~inside /\ ~longer
  BY DEF StemRoundTrip
<1>1. /\ IsName(sender) /\ sender # <<>> /\ IsName(recipient) /\ recipient # <<>>
      /\ IsName(slug) /\ Slashless(slug) /\ \A name \in roster : IsList(name)
      /\ recipient \in roster
  BY BusAssumption DEF GiveTypes
<1>2. IsList(sender) /\ IsList(recipient) /\ IsList(slug)
  BY <1>1 DEF IsName
<1> HIDE DEF sender, recipient, slug, roster
<1>3. CASE bare
  <2>1. Safe(sender) = sender /\ Safe(recipient) = recipient
    BY <1>1, <1>3, SafeIs
  <2>2. stem = sender \o <<ToWord>> \o recipient \o slug
    BY <2>1 DEF BuildStem
  <2> HIDE DEF stem
  <2>3. ParseStem(sender \o <<ToWord>> \o recipient \o slug, roster) = whole
          <=> ~inside /\ ~longer
    BY <1>1, <1>2, SlashlessReadsBack
  <2> QED
    BY <1>3, <2>2, <2>3
<1>4. CASE ~bare
  <2> DEFINE word == <<ToWord>>
             front == Safe(sender) \o word
             ends == front \o Safe(recipient)
  <2>1. IsList(Safe(sender)) /\ Slashless(Safe(sender))
    BY <1>1, SafeIs
  <2>2. IsList(Safe(recipient)) /\ Slashless(Safe(recipient))
    BY <1>1, SafeIs
  <2>3. IsList(word) /\ Slashless(word)
    <3>1. word = [i \in 1..1 |-> word[i]]
      OBVIOUS
    <3>2. Slashless(word)
      BY DEF Slashless, ToWord, Word
    <3> QED
      BY <3>1, <3>2, ListOf
  <2>4. stem = ends \o slug
    BY DEF BuildStem
  <2> HIDE DEF word, stem
  <2>5. IsList(front) /\ Slashless(front)
    BY <2>1, <2>3, SlashlessJoined
  <2> HIDE DEF front
  <2>6. IsList(ends) /\ Slashless(ends)
    BY <2>2, <2>5, SlashlessJoined
  <2> HIDE DEF ends
  <2>7. IsList(stem) /\ Slashless(stem)
    BY <1>1, <1>2, <2>4, <2>6, SlashlessJoined
  <2>8. Slashless(parsed.sender) /\ Slashless(parsed.recipient)
    BY <1>1, <2>7, ReadSlashless
  <2>9. whole.sender = sender /\ whole.recipient = recipient
    OBVIOUS
  <2> HIDE DEF parsed, whole
  <2>10. parsed # whole
    BY <1>4, <2>8, <2>9
  <2> QED
    BY <1>4, <2>10
<1> QED
  BY <1>3, <1>4

(* An address is read part by part, and refused for a part that is none.   *)
LEMMA AddressIs ==
  ASSUME NEW raw, NEW local
  PROVE  LET org == IF raw.form = "full" THEN raw.org ELSE local.org
             program == IF raw.form = "bare" THEN local.program ELSE raw.program
         IN  ParseAddress(raw, local) =
               IF org \in BadSlug \/ program \in BadSlug \/ raw.agent \in BadSlug
               THEN BusUriError ELSE [org |-> org, program |-> program, agent |-> raw.agent]
<1> DEFINE org == IF raw.form = "full" THEN raw.org ELSE local.org
           program == IF raw.form = "bare" THEN local.program ELSE raw.program
           uri == [org |-> org, program |-> program, agent |-> raw.agent]
<1>1. ParseAddress(raw, local) =
        IF \E part \in DOMAIN uri : uri[part] \in BadSlug THEN BusUriError ELSE uri
  BY DEF ParseAddress
<1>2. /\ DOMAIN uri = {"org", "program", "agent"}
      /\ uri["org"] = org /\ uri["program"] = program /\ uri["agent"] = raw.agent
  OBVIOUS
<1> HIDE DEF uri
<1>3. (\E part \in DOMAIN uri : uri[part] \in BadSlug)
        <=> org \in BadSlug \/ program \in BadSlug \/ raw.agent \in BadSlug
  BY <1>2
<1> QED
  BY <1>1, <1>3 DEF uri

LEMMA AddressReadsBack == CanonicalAnywhere
<1> SUFFICES ASSUME Is("address") PROVE CanonicalAnywhere
  BY DEF CanonicalAnywhere
<1> DEFINE raw == given.raw
           spot == given.here
           there == given.there
           uri == ParseAddress(raw, spot)
<1> SUFFICES ASSUME uri # BusUriError
             PROVE  /\ ParseAddress(Written(uri), there) = uri
                    /\ ~IsCrossOrg(uri, spot)
                         => ParseAddress([Written(uri) EXCEPT !.form = "short"], spot) = uri
                    /\ ~IsCrossProgram(uri, spot)
                         => ParseAddress([Written(uri) EXCEPT !.form = "bare"], spot) = uri
                    /\ raw.form = "short" => uri.program = raw.program
                    /\ IsCrossOrg(uri, spot) => IsCrossProgram(uri, spot)
  BY DEF CanonicalAnywhere
<1> DEFINE org == IF raw.form = "full" THEN raw.org ELSE spot.org
           program == IF raw.form = "bare" THEN spot.program ELSE raw.program
<1>1. /\ uri = [org |-> org, program |-> program, agent |-> raw.agent]
      /\ org \notin BadSlug /\ program \notin BadSlug /\ raw.agent \notin BadSlug
  BY AddressIs
<1>2. uri.org = org /\ uri.program = program /\ uri.agent = raw.agent
  BY <1>1
<1>3. uri = [org |-> uri.org, program |-> uri.program, agent |-> uri.agent]
  BY <1>1, <1>2
<1>4. raw.form = "short" => uri.program = raw.program
  BY <1>2
<1> HIDE DEF uri
<1>5. uri.org \notin BadSlug /\ uri.program \notin BadSlug /\ uri.agent \notin BadSlug
  BY <1>1, <1>2
<1> DEFINE written(form) ==
             [form |-> form, org |-> uri.org, program |-> uri.program, agent |-> uri.agent]
<1>6. ParseAddress(written("full"), there) = uri
  <2>1. /\ written("full").form = "full" /\ written("full").org = uri.org
        /\ written("full").program = uri.program /\ written("full").agent = uri.agent
    OBVIOUS
  <2> HIDE DEF written
  <2> QED
    BY <1>3, <1>5, <2>1, AddressIs
<1>7. ASSUME uri.org = spot.org PROVE ParseAddress(written("short"), spot) = uri
  <2>1. /\ written("short").form = "short"
        /\ written("short").program = uri.program /\ written("short").agent = uri.agent
    OBVIOUS
  <2> HIDE DEF written
  <2> QED
    BY <1>3, <1>5, <1>7, <2>1, AddressIs
<1>8. ASSUME uri.org = spot.org, uri.program = spot.program
      PROVE  ParseAddress(written("bare"), spot) = uri
  <2>1. written("bare").form = "bare" /\ written("bare").agent = uri.agent
    OBVIOUS
  <2> HIDE DEF written
  <2> QED
    BY <1>3, <1>5, <1>8, <2>1, AddressIs
<1>9. /\ Written(uri) = written("full")
      /\ [Written(uri) EXCEPT !.form = "short"] = written("short")
      /\ [Written(uri) EXCEPT !.form = "bare"] = written("bare")
  BY DEF Written
<1> QED
  BY <1>4, <1>6, <1>7, <1>8, <1>9 DEF IsCrossOrg, IsCrossProgram

(* A stem is read back as it was written just when no end has a slash in   *)
(* its name and nothing in it can be taken for something else, and an      *)
(* address wherever it is read: for all names.                             *)
THEOREM NamesAlwaysReadBack == GiveSpec => []NamesReadBack
<1>1. GiveTypes => NamesReadBack
  BY StemReadsBack, AddressReadsBack DEF NamesReadBack
<1> QED
  BY <1>1, GivenIsTyped, PTL
==============================================================================
