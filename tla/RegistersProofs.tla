--------------------------- MODULE RegistersProofs ---------------------------
(***************************************************************************)
(* The audit of a register survives whatever its sessions do to its file,  *)
(* for every set of sessions, records, statuses and fields.                *)
(*                                                                         *)
(* A save writes what a session has in memory, so the invariants of the    *)
(* file are invariants of every copy first.  AuditInv and AppendInv say so *)
(* for each copy, and for the last file a save has finished, which a       *)
(* restore brings back.                                                    *)
(***************************************************************************)
EXTENDS Registers, SequenceTheorems, TLAPS

AuditInv ==
  torn = 0 =>
    /\ whole => AllTold(file)
    /\ AllTold(latest)
    /\ \A s \in Session : AllTold(mem[s])

AppendInv ==
  \A s \in Session :
    phase[s] \in {"loaded", "opened"} /\ s \notin stale
      => /\ Extends(mem[s].records, latest.records)
         /\ ~readOnly[s] => (latest.annotated => mem[s].annotated)

FastInv == \A s \in Session : phase[s] = "opened" => ~readOnly[s]

----------------------------------------------------------------------------
(* Types *)

LEMMA EmptyIsRegister == EmptyRegister \in Register
BY DEF EmptyRegister, Register, Records

(* A transition makes a record of a record. *)
LEMMA TransitionedIsRecord ==
  ASSUME NEW r \in Record, NEW call \in Call
  PROVE  Transitioned(r, call) \in Record /\ EntryOf(r, call) \in Entry
<1>1. /\ call.action \in STRING /\ call.to \in Status \union {Unset}
      /\ call.fields \in Fields /\ call.approval \in Approval
  BY RegisterAssumption
<1>2. r.status \in Status /\ r.fields \in Fields /\ r.transitions \in Seq(Entry)
  BY DEF Record
<1>3. [f \in Field |-> IF call.fields[f] = Unset THEN Unset ELSE r.fields[f]] \in Fields
  BY <1>1, <1>2 DEF Fields
<1>4. [f \in Field |-> IF call.fields[f] = Unset THEN r.fields[f] ELSE call.fields[f]]
        \in Fields
  BY <1>1, <1>2 DEF Fields
<1>5. EntryOf(r, call) \in Entry
  BY <1>1, <1>2, <1>3 DEF EntryOf, Entry
<1>6. Append(r.transitions, EntryOf(r, call)) \in Seq(Entry)
  BY <1>2, <1>5
<1> QED
  BY <1>1, <1>2, <1>4, <1>5, <1>6 DEF Transitioned, Record

(* A text that goes over from one register to another reads as one too. *)
LEMMA SplicedIsRegister ==
  ASSUME NEW head \in Register, NEW tail \in Register,
         NEW i \in Id, head.records[i] # NoRecord,
         NEW before, NEW n \in 0..Len(head.records[i].transitions)
  PROVE  Spliced(head, tail, before, i, n) \in Register
<1> DEFINE log == LogOf(tail.records[i])
           rest == SubSeq(log, n + 1, Len(log))
           begin == SubSeq(head.records[i].transitions, 1, n)
<1>1. head.records[i] \in Record /\ head.records \in Records /\ tail.records \in Records
  BY DEF Register, Records
<1>2. log \in Seq(Entry)
  BY <1>1 DEF LogOf, Records, Record
<1>3. head.records[i].transitions \in Seq(Entry) /\ n \in Nat
  BY <1>1 DEF Record
<1>4. begin \in Seq(Entry)
  BY <1>3
<1>5. rest \in Seq(Entry)
  BY <1>2, <1>3
<1> HIDE DEF log
<1>6. begin \o rest \in Seq(Entry)
  BY <1>4, <1>5
<1> HIDE DEF begin, rest
<1> DEFINE parted == [head.records[i] EXCEPT !.transitions = begin \o rest]
           records == [j \in Id |-> IF j = i THEN parted
                                   ELSE IF j \in before THEN head.records[j]
                                   ELSE tail.records[j]]
<1>7. parted \in Record
  BY <1>1, <1>6 DEF Record
<1> HIDE DEF parted
<1>8. records \in Records
  BY <1>1, <1>7 DEF Records
<1> HIDE DEF records
<1>9. [head EXCEPT !.records = records] \in Register
  BY <1>8 DEF Register
<1>10. Spliced(head, tail, before, i, n) = [head EXCEPT !.records = records]
  BY DEF Spliced, records, parted, begin, rest, log
<1> QED
  BY <1>9, <1>10

(* So does what an unfinished save leaves. *)
LEMMA UnfinishedIsRegister ==
  ASSUME TypeOK, NEW s \in Session, Unfinished(s)
  PROVE  file' \in Register /\ garbled' \in BOOLEAN /\ whole' = FALSE
<1>1. file \in Register /\ mem[s] \in Register /\ EmptyRegister \in Register
  BY EmptyIsRegister DEF TypeOK
<1>2. ASSUME NEW head \in {mem[s], file, EmptyRegister}, NEW tail \in {mem[s], file, EmptyRegister},
             NEW i \in Id, head.records[i] # NoRecord,
             NEW before, NEW n \in 0..Len(head.records[i].transitions),
             file' = Spliced(head, tail, before, i, n)
      PROVE  file' \in Register
  <2>1. head \in Register /\ tail \in Register
    BY <1>1
  <2> QED
    BY <1>2, <2>1, SplicedIsRegister
<1>3. CASE garbled' = TRUE /\ file' = EmptyRegister
  BY <1>1, <1>3 DEF Unfinished
<1>4. CASE ~(garbled' = TRUE /\ file' = EmptyRegister)
  <2>1. PICK head \in {mem[s], file, EmptyRegister}, tail \in {mem[s], file, EmptyRegister} :
          \E i \in {j \in Id : head.records[j] # NoRecord} :
          \E before \in SUBSET Id, n \in 0..Len(head.records[i].transitions) :
            file' = Spliced(head, tail, before, i, n)
    BY <1>4 DEF Unfinished
  <2> QED
    BY <1>2, <1>4, <2>1 DEF Unfinished
<1> QED
  BY <1>3, <1>4

(* Every step keeps the types. *)
LEMMA TypeStep == TypeOK /\ [Next]_vars => TypeOK'
<1> SUFFICES ASSUME TypeOK, [Next]_vars PROVE TypeOK'
  OBVIOUS
<1> USE RegisterAssumption, EmptyIsRegister DEF TypeOK
<1>1. ASSUME NEW s \in Session, LoadRegister(s)
      PROVE  TypeOK'
  BY <1>1 DEF LoadRegister, LoadAs, fileVars
<1>2. ASSUME NEW s \in Session, ReadRegisterFast(s)
      PROVE  TypeOK'
  <2>1. [file EXCEPT !.annotated = FALSE] \in Register
    BY DEF Register
  <2> QED
    BY <1>2, <2>1 DEF ReadRegisterFast, LoadAs, fileVars
<1>3. ASSUME NEW s \in Session, NEW i \in Id, NEW r \in Record,
             phase[s] = "loaded", InMemory(s, i, r)
      PROVE  TypeOK'
  <2>1. mem' \in [Session -> Register]
    <3>1. mem[s] \in Register
      OBVIOUS
    <3>2. [mem[s].records EXCEPT ![i] = r] \in Records
      BY <3>1 DEF Register, Records
    <3>3. [mem[s] EXCEPT !.records = [mem[s].records EXCEPT ![i] = r]] \in Register
      BY <3>1, <3>2 DEF Register
    <3> QED
      BY <1>3, <3>3 DEF InMemory
  <2>2. \A t \in Session : phase[t] = "idle" => mem'[t] = mem[t]
    BY <1>3 DEF InMemory
  <2> QED
    BY <1>3, <2>1, <2>2 DEF InMemory, fileVars
<1>4. ASSUME NEW s \in Session, NEW i \in Id, NEW status \in Born, CreateRecord(s, i, status)
      PROVE  TypeOK'
  <2>1. [status |-> status, fields |-> [f \in Field |-> Unset], transitions |-> <<>>] \in Record
    BY DEF Record, Fields
  <2> QED
    BY <1>3, <1>4, <2>1 DEF CreateRecord
<1>5. ASSUME NEW s \in Session, NEW i \in Id, NEW call \in Call, ApplyTransition(s, i, call)
      PROVE  TypeOK'
  <2>1. mem[s].records[i] \in Record
    BY <1>5 DEF ApplyTransition, Register, Records
  <2> QED
    BY <1>3, <1>5, <2>1, TransitionedIsRecord DEF ApplyTransition
<1>6. ASSUME NEW s \in Session, Drop(s) \/ Die(s)
      PROVE  TypeOK'
  <2>1. /\ Forget(s) /\ UNCHANGED <<file, garbled, whole, latest, torn>>
        /\ shared' \subseteq Session /\ stale' \subseteq Session
    BY <1>6 DEF Drop, Die, fileVars
  <2>2. mem' \in [Session -> Register] /\ readOnly' \in [Session -> BOOLEAN]
    BY <2>1 DEF Forget
  <2>3. phase' \in [Session -> {"idle", "loaded", "opened"}]
    BY <2>1 DEF Forget
  <2>4. \A t \in Session : phase'[t] = "idle" => mem'[t] = EmptyRegister
    BY <2>1 DEF Forget
  <2> QED
    BY <2>1, <2>2, <2>3, <2>4
<1>7. ASSUME NEW s \in Session, SaveOpen(s)
      PROVE  TypeOK'
  BY <1>7 DEF SaveOpen
<1>8. ASSUME NEW s \in Session, SaveChunk(s)
      PROVE  TypeOK'
  BY <1>8, UnfinishedIsRegister DEF SaveChunk, sessionVars
<1>9. ASSUME NEW s \in Session, SaveClose(s)
      PROVE  TypeOK'
  <2>1. /\ phase' = [phase EXCEPT ![s] = "loaded"] /\ shared' = shared \ {s}
        /\ UNCHANGED <<mem, readOnly, torn>>
    BY <1>9 DEF SaveClose
  <2>2. \/ /\ file' = mem[s] /\ garbled' = FALSE
           /\ whole' = TRUE /\ latest' = mem[s]
           /\ stale' = {t \in Session : phase[t] # "idle"} \ {s}
        \/ /\ Unfinished(s) /\ UNCHANGED latest
           /\ stale' = {t \in Session : phase[t] # "idle"}
    BY <1>9 DEF SaveClose
  <2>3. mem[s] \in Register
    OBVIOUS
  <2>4. /\ file' \in Register /\ latest' \in Register
        /\ garbled' \in BOOLEAN /\ whole' \in BOOLEAN
        /\ whole' => ~garbled' /\ file' = latest'
        /\ stale' \subseteq Session
    BY <2>2, <2>3, UnfinishedIsRegister
  <2> QED
    BY <2>1, <2>4
<1>10. CASE Restore
  BY <1>10 DEF Restore, sessionVars
<1>11. CASE UNCHANGED vars
  BY <1>11 DEF vars, fileVars, sessionVars
<1> QED
  BY <1>1, <1>2, <1>4, <1>5, <1>6, <1>7, <1>8, <1>9, <1>10, <1>11 DEF Next

(* The file, the copies and their marks keep their types, for any sessions *)
(* and records.                                                            *)
THEOREM RegistersTypeCorrect == Spec => []TypeOK
<1>1. Init => TypeOK
  <2>1. [EmptyRegister EXCEPT !.annotated = TRUE] \in Register
    BY DEF EmptyRegister, Register, Records
  <2> QED
    <3> SUFFICES ASSUME Init PROVE TypeOK
      OBVIOUS
    <3>1. file \in Register /\ latest \in Register /\ torn \in 0..MaxTorn
      BY <2>1, RegisterAssumption DEF Init
    <3>2. mem \in [Session -> Register] /\ readOnly \in [Session -> BOOLEAN]
      BY EmptyIsRegister DEF Init
    <3> QED
      BY <3>1, <3>2 DEF Init, TypeOK
<1> QED
  BY <1>1, TypeStep, PTL DEF Spec

----------------------------------------------------------------------------
(* The audit of one record *)

(* What n places found and left, a longer log still says. *)
Kept(n, places, found, left, found2, left2) ==
  /\ n \in Nat /\ places \subseteq 1..n
  /\ \A i \in places : found2[i] = found[i] /\ left2[i] = left[i]

(* A new place that finds what there was leaves what there is. *)
LEMMA FollowOn ==
  ASSUME NEW n, NEW places, NEW found, NEW left, NEW now, NEW found2, NEW left2, NEW now2,
         Kept(n, places, found, left, found2, left2),
         Follow(places, found, left, now),
         found2[n + 1] = now, left2[n + 1] = now2
  PROVE  Follow(places \union {n + 1}, found2, left2, now2)
<1> DEFINE more == places \union {n + 1}
<1> USE DEF Kept
<1>1. ASSUME NEW i \in more, \A j \in more : j <= i
      PROVE  left2[i] = now2
  <2>1. i = n + 1
    BY <1>1
  <2> QED
    BY <2>1
<1>2. ASSUME NEW i \in more, NEW j \in more, i < j, \A k \in more : k <= i \/ j <= k
      PROVE  found2[j] = left2[i]
  <2>1. i \in places
    BY <1>2
  <2>2. CASE j = n + 1
    <3>1. \A k \in places : k <= i
      BY <1>2, <2>2
    <3>2. left[i] = now
      BY <2>1, <3>1 DEF Follow
    <3> QED
      BY <2>1, <2>2, <3>2
  <2>3. CASE j # n + 1
    <3>1. j \in places
      BY <2>3
    <3>2. found[j] = left[i]
      BY <1>2, <2>1, <3>1 DEF Follow
    <3> QED
      BY <2>1, <3>1, <3>2
  <2> QED
    BY <2>2, <2>3
<1> QED
  BY <1>1, <1>2 DEF Follow

(* Places that nothing is added to keep following each other. *)
LEMMA FollowSame ==
  ASSUME NEW places, NEW found, NEW left, NEW now, Follow(places, found, left, now),
         NEW found2, NEW left2,
         \A i \in places : found2[i] = found[i] /\ left2[i] = left[i]
  PROVE  Follow(places, found2, left2, now)
BY DEF Follow

(* A transition leaves a told record told. *)
LEMMA TransitionTells ==
  ASSUME NEW r \in Record, Told(r), NEW call \in Call,
         call.action \in APPROVAL_REQUIRED_ACTIONS => ValidApproval(call.approval)
  PROVE  Told(Transitioned(r, call))
<1> DEFINE log == r.transitions
           e == EntryOf(r, call)
           log2 == Append(log, e)
           n == Len(log)
<1>1. /\ log \in Seq(Entry) /\ n \in Nat
      /\ Len(log2) = n + 1 /\ DOMAIN log = 1..n /\ DOMAIN log2 = 1..(n + 1)
      /\ \A i \in 1..n : log2[i] = log[i]
      /\ log2[n + 1] = e
  BY TransitionedIsRecord DEF Record
<1>2. call.fields \in Fields /\ e.to = call.to /\ e.new = call.fields
      /\ e.action = call.action /\ e.approval = call.approval
  BY RegisterAssumption DEF EntryOf
<1>3. Follow({i \in 1..(n + 1) : log2[i].to # Unset},
             [i \in 1..(n + 1) |-> log2[i].from], [i \in 1..(n + 1) |-> log2[i].to],
             Transitioned(r, call).status)
  <2> DEFINE places == {i \in 1..n : log[i].to # Unset}
             found == [i \in 1..n |-> log[i].from]
             left == [i \in 1..n |-> log[i].to]
             places2 == {i \in 1..(n + 1) : log2[i].to # Unset}
             found2 == [i \in 1..(n + 1) |-> log2[i].from]
             left2 == [i \in 1..(n + 1) |-> log2[i].to]
  <2>1. Follow(places, found, left, r.status)
    BY <1>1 DEF Told
  <2>2. \A i \in places : found2[i] = found[i] /\ left2[i] = left[i]
    BY <1>1
  <2>3. ASSUME call.to = Unset
        PROVE  Follow(places2, found2, left2, Transitioned(r, call).status)
    <3>1. places2 = places
      BY <1>1, <1>2, <2>3
    <3>2. Transitioned(r, call).status = r.status
      BY <2>3 DEF Transitioned
    <3> HIDE DEF places, found, left, places2, found2, left2
    <3> QED
      BY <2>1, <2>2, <3>1, <3>2, FollowSame
  <2>4. ASSUME call.to # Unset
        PROVE  Follow(places2, found2, left2, Transitioned(r, call).status)
    <3>1. places2 = places \union {n + 1}
      BY <1>1, <1>2, <2>4
    <3>2. Transitioned(r, call).status = call.to /\ e.from = r.status
      BY <2>4 DEF Transitioned, EntryOf
    <3>3. found2[n + 1] = r.status /\ left2[n + 1] = call.to
      BY <1>1, <1>2, <3>2
    <3>4. Kept(n, places, found, left, found2, left2)
      BY <1>1, <2>2 DEF Kept
    <3> HIDE DEF places, found, left, places2, found2, left2, n
    <3>5. Follow(places \union {n + 1}, found2, left2, call.to)
      BY <2>1, <3>3, <3>4, FollowOn
    <3> QED
      BY <3>1, <3>2, <3>5
  <2> QED
    BY <2>3, <2>4
<1>4. ASSUME NEW f \in Field
      PROVE  Follow({i \in 1..(n + 1) : log2[i].new[f] # Unset},
                    [i \in 1..(n + 1) |-> log2[i].old[f]],
                    [i \in 1..(n + 1) |-> log2[i].new[f]],
                    Transitioned(r, call).fields[f])
  <2> DEFINE places == {i \in 1..n : log[i].new[f] # Unset}
             found == [i \in 1..n |-> log[i].old[f]]
             left == [i \in 1..n |-> log[i].new[f]]
             places2 == {i \in 1..(n + 1) : log2[i].new[f] # Unset}
             found2 == [i \in 1..(n + 1) |-> log2[i].old[f]]
             left2 == [i \in 1..(n + 1) |-> log2[i].new[f]]
  <2>1. Follow(places, found, left, r.fields[f])
    BY <1>1 DEF Told
  <2>2. \A i \in places : found2[i] = found[i] /\ left2[i] = left[i]
    BY <1>1
  <2>3. ASSUME call.fields[f] = Unset
        PROVE  Follow(places2, found2, left2, Transitioned(r, call).fields[f])
    <3>1. places2 = places
      BY <1>1, <1>2, <2>3
    <3>2. Transitioned(r, call).fields[f] = r.fields[f]
      BY <2>3 DEF Transitioned
    <3> HIDE DEF places, found, left, places2, found2, left2
    <3> QED
      BY <2>1, <2>2, <3>1, <3>2, FollowSame
  <2>4. ASSUME call.fields[f] # Unset
        PROVE  Follow(places2, found2, left2, Transitioned(r, call).fields[f])
    <3>1. places2 = places \union {n + 1}
      BY <1>1, <1>2, <2>4
    <3>2. Transitioned(r, call).fields[f] = call.fields[f] /\ e.old[f] = r.fields[f]
      BY <2>4 DEF Transitioned, EntryOf
    <3>3. found2[n + 1] = r.fields[f] /\ left2[n + 1] = call.fields[f]
      BY <1>1, <1>2, <3>2
    <3>4. Kept(n, places, found, left, found2, left2)
      BY <1>1, <2>2 DEF Kept
    <3> HIDE DEF places, found, left, places2, found2, left2, n
    <3>5. Follow(places \union {n + 1}, found2, left2, call.fields[f])
      BY <2>1, <3>3, <3>4, FollowOn
    <3> QED
      BY <3>1, <3>2, <3>5
  <2> QED
    BY <2>3, <2>4
<1>5. \A i \in 1..(n + 1) : log2[i].action \in APPROVAL_REQUIRED_ACTIONS
                              => log2[i].approval # NoApproval
  BY <1>1, <1>2 DEF Told, ValidApproval
<1>6. Transitioned(r, call).transitions = log2
  BY DEF Transitioned
<1> HIDE DEF log2, n
<1> QED
  BY <1>1, <1>3, <1>4, <1>5, <1>6 DEF Told

(* A new record is told: nothing has happened to it. *)
LEMMA NewRecordTold ==
  ASSUME NEW status
  PROVE  Told([status |-> status, fields |-> [f \in Field |-> Unset], transitions |-> <<>>])
BY DEF Told, Follow

----------------------------------------------------------------------------
(* The audit of every copy *)

(* To be told depends on the records only. *)
LEMMA EmptyTold == AllTold(EmptyRegister)
BY DEF AllTold, EmptyRegister

(* A told record in place of another leaves a copy told. *)
LEMMA PutTold ==
  ASSUME TypeOK, NEW s \in Session, AllTold(mem[s]),
         NEW i \in Id, NEW record, Told(record)
  PROVE  AllTold([mem[s] EXCEPT !.records[i] = record])
<1>1. mem[s].records \in Records /\ mem[s] \in Register
  BY DEF TypeOK, Register
<1>2. /\ [mem[s] EXCEPT !.records[i] = record].records[i] = record
      /\ \A j \in Id \ {i} :
           [mem[s] EXCEPT !.records[i] = record].records[j] = mem[s].records[j]
  BY <1>1 DEF Records, Register
<1> QED
  BY <1>2 DEF AllTold

(* Every step leaves the copies and the finished files told. *)
LEMMA AuditStep == TypeOK /\ AuditInv /\ [Next]_vars => AuditInv'
<1> SUFFICES ASSUME TypeOK, AuditInv, [Next]_vars, torn' = 0
             PROVE  /\ whole' => AllTold(file')
                    /\ AllTold(latest')
                    /\ \A t \in Session : AllTold(mem'[t])
  BY DEF AuditInv, AllTold
<1> DEFINE Goal == /\ whole' => AllTold(file')
                   /\ AllTold(latest')
                   /\ \A t \in Session : AllTold(mem'[t])
<1>types. /\ mem \in [Session -> Register] /\ torn \in Nat
          /\ whole => file = latest
  BY RegisterAssumption DEF TypeOK
<1>1. ASSUME NEW s \in Session, NEW register, NEW fast, LoadAs(s, register, fast),
             register.records = file.records
      PROVE  Goal
  <2>1. whole /\ torn = 0
    BY <1>1, <1>types DEF LoadAs
  <2>2. AllTold(file) /\ AllTold(latest) /\ \A t \in Session : AllTold(mem[t])
    BY <2>1 DEF AuditInv
  <2>3. AllTold(register)
    BY <1>1, <2>2 DEF AllTold
  <2>4. mem' = [mem EXCEPT ![s] = register] /\ UNCHANGED fileVars
    BY <1>1 DEF LoadAs
  <2> HIDE DEF AllTold
  <2> QED
    BY <1>types, <2>1, <2>2, <2>3, <2>4 DEF fileVars
<1>2. ASSUME NEW s \in Session, LoadRegister(s)
      PROVE  Goal
  BY <1>1, <1>2 DEF LoadRegister
<1>3. ASSUME NEW s \in Session, ReadRegisterFast(s)
      PROVE  Goal
  <2>1. [file EXCEPT !.annotated = FALSE].records = file.records
    BY DEF TypeOK, Register
  <2> QED
    BY <1>1, <1>3, <2>1 DEF ReadRegisterFast
<1>4. torn = 0 => /\ whole => AllTold(file)
                  /\ AllTold(latest)
                  /\ \A t \in Session : AllTold(mem[t])
  BY DEF AuditInv
<1>5. ASSUME NEW s \in Session, NEW i \in Id, NEW record, Told(record),
             InMemory(s, i, record)
      PROVE  Goal
  <2>1. mem' = [mem EXCEPT ![s] = [mem[s] EXCEPT !.records[i] = record]]
    BY <1>5 DEF InMemory
  <2>2. UNCHANGED <<fileVars, torn>>
    BY <1>5 DEF InMemory
  <2>3. AllTold([mem[s] EXCEPT !.records[i] = record])
    BY <1>4, <1>5, <2>2, PutTold
  <2> QED
    BY <1>types, <1>4, <2>1, <2>2, <2>3 DEF fileVars
<1>6. ASSUME NEW s \in Session, NEW i \in Id, NEW status \in Born, CreateRecord(s, i, status)
      PROVE  Goal
  BY <1>5, <1>6, NewRecordTold DEF CreateRecord
<1>7. ASSUME NEW s \in Session, NEW i \in Id, NEW call \in Call, ApplyTransition(s, i, call)
      PROVE  Goal
  <2>1. InMemory(s, i, Transitioned(mem[s].records[i], call)) /\ mem[s].records[i] # NoRecord
    BY <1>7 DEF ApplyTransition
  <2>2. torn = 0
    BY <2>1 DEF InMemory
  <2>3. mem[s].records[i] \in Record
    BY <1>types, <2>1 DEF Register, Records
  <2>4. Told(mem[s].records[i])
    BY <1>4, <2>1, <2>2 DEF AllTold
  <2>5. Told(Transitioned(mem[s].records[i], call))
    BY <1>7, <2>3, <2>4, TransitionTells DEF ApplyTransition
  <2> QED
    BY <1>5, <2>1, <2>5
<1>8. ASSUME NEW s \in Session, Drop(s) \/ Die(s)
      PROVE  Goal
  <2>1. /\ mem' = [mem EXCEPT ![s] = EmptyRegister]
        /\ UNCHANGED <<file, whole, latest, torn>>
    BY <1>8 DEF Drop, Die, Forget, fileVars
  <2> QED
    BY <1>types, <1>4, <2>1, EmptyTold
<1>9. ASSUME NEW s \in Session, SaveOpen(s) \/ SaveChunk(s)
      PROVE  Goal
  <2>1. ~whole' /\ UNCHANGED <<latest, mem, torn>>
    BY <1>9 DEF SaveOpen, SaveChunk, Unfinished, sessionVars
  <2> QED
    BY <1>4, <2>1
<1>10. ASSUME NEW s \in Session, SaveClose(s)
      PROVE  Goal
  <2>1. UNCHANGED <<mem, torn>>
    BY <1>10 DEF SaveClose
  <2>2. \/ file' = mem[s] /\ latest' = mem[s]
        \/ ~whole' /\ UNCHANGED latest
    BY <1>10 DEF SaveClose, Unfinished
  <2> QED
    BY <1>4, <2>1, <2>2
<1>11. CASE Restore
  <2>1. file' = latest /\ UNCHANGED <<latest, mem, torn>>
    BY <1>11 DEF Restore, sessionVars
  <2> QED
    BY <1>4, <2>1
<1>12. CASE UNCHANGED vars
  BY <1>4, <1>12 DEF vars, fileVars, sessionVars
<1> QED
  BY <1>2, <1>3, <1>6, <1>7, <1>8, <1>9, <1>10, <1>11, <1>12 DEF Next

(* AuditTells, for any sessions, records, fields and calls: whatever the   *)
(* order of loads, transitions, saves and deaths, until someone loads a    *)
(* file that no save has finished, or that several have written at once,   *)
(* every record is explained by its transitions.                           *)
THEOREM AuditsTell == Spec => []AuditTells
<1>1. Init => AuditInv
  <2> SUFFICES ASSUME Init
               PROVE  AllTold(file) /\ AllTold(latest) /\ \A s \in Session : AllTold(mem[s])
    BY DEF AuditInv
  <2>1. file.records = EmptyRegister.records /\ latest = file
    BY DEF Init, EmptyRegister
  <2>2. AllTold(file) /\ AllTold(latest)
    BY <2>1, EmptyTold DEF AllTold
  <2>3. \A s \in Session : mem[s] = EmptyRegister
    BY DEF Init
  <2> QED
    BY <2>2, <2>3, EmptyTold
<1>2. AuditInv => AuditTells
  BY DEF AuditInv, AuditTells
<1> QED
  BY <1>1, <1>2, AuditStep, RegistersTypeCorrect, PTL DEF Spec

----------------------------------------------------------------------------
(* What a save keeps *)

(* A sequence is a prefix of itself, and stays one of a longer one. *)
LEMMA PrefixItself == ASSUME NEW t PROVE IsPrefix(t, t)
BY DEF IsPrefix

LEMMA PrefixAppend ==
  ASSUME NEW S, NEW s \in Seq(S), NEW t \in Seq(S), NEW e \in S, IsPrefix(s, t)
  PROVE  IsPrefix(s, Append(t, e))
<1>1. /\ Len(s) \in Nat /\ Len(t) \in Nat /\ Len(s) <= Len(t)
      /\ SubSeq(s, 1, Len(s)) = SubSeq(t, 1, Len(s))
  BY DEF IsPrefix
<1>2. /\ Append(t, e) \in Seq(S) /\ Len(Append(t, e)) = Len(t) + 1
      /\ \A i \in 1..Len(t) : Append(t, e)[i] = t[i]
  BY AppendProperties
<1>3. SubSeq(Append(t, e), 1, Len(s)) = SubSeq(t, 1, Len(s))
  <2>1. \A i \in 1..Len(s) : t[i] \in S /\ Append(t, e)[i] = t[i]
    BY <1>1, <1>2
  <2>2. /\ SubSeq(t, 1, Len(s)) \in Seq(S) /\ Len(SubSeq(t, 1, Len(s))) = Len(s)
        /\ \A i \in 1..Len(s) : SubSeq(t, 1, Len(s))[i] = t[i]
    BY <1>1, <2>1
  <2>3. /\ SubSeq(Append(t, e), 1, Len(s)) \in Seq(S)
        /\ Len(SubSeq(Append(t, e), 1, Len(s))) = Len(s)
        /\ \A i \in 1..Len(s) : SubSeq(Append(t, e), 1, Len(s))[i] = Append(t, e)[i]
    BY <1>1, <1>2, <2>1
  <2> QED
    BY <1>1, <2>1, <2>2, <2>3, SeqEqual
<1> QED
  BY <1>1, <1>2, <1>3 DEF IsPrefix

LEMMA ExtendsItself == ASSUME NEW records PROVE Extends(records, records)
BY PrefixItself DEF Extends

(* A new record, and a transition of one, extend what there was. *)
LEMMA CreateExtends ==
  ASSUME NEW records \in Records, NEW older, Extends(records, older),
         NEW i \in Id, records[i] = NoRecord, NEW record
  PROVE  Extends([records EXCEPT ![i] = record], older)
BY DEF Extends, Records

LEMMA TransitionExtends ==
  ASSUME NEW records \in Records, NEW older \in Records, Extends(records, older),
         NEW i \in Id, records[i] # NoRecord, NEW call \in Call
  PROVE  Extends([records EXCEPT ![i] = Transitioned(records[i], call)], older)
<1> DEFINE now == Transitioned(records[i], call)
<1>1. records[i] \in Record /\ now \in Record /\ now # NoRecord
  BY TransitionedIsRecord, RegisterAssumption DEF Records
<1>2. ASSUME older[i] # NoRecord
      PROVE  IsPrefix(older[i].transitions, now.transitions)
  <2>1. /\ older[i].transitions \in Seq(Entry) /\ records[i].transitions \in Seq(Entry)
        /\ EntryOf(records[i], call) \in Entry
    BY <1>1, <1>2, TransitionedIsRecord DEF Records, Record
  <2>2. IsPrefix(older[i].transitions, records[i].transitions)
    BY <1>2 DEF Extends
  <2>3. now.transitions = Append(records[i].transitions, EntryOf(records[i], call))
    BY DEF Transitioned
  <2> QED
    BY <2>1, <2>2, <2>3, PrefixAppend
<1> HIDE DEF now
<1>3. \A j \in Id : [records EXCEPT ![i] = now][j] = IF j = i THEN now ELSE records[j]
  BY DEF Records
<1>4. Extends([records EXCEPT ![i] = now], older)
  BY <1>1, <1>2, <1>3 DEF Extends
<1> QED
  BY <1>4 DEF now

(* A session whose copy is not stale has all of the latest register. *)
Covers(s) ==
  /\ Extends(mem[s].records, latest.records)
  /\ ~readOnly[s] => (latest.annotated => mem[s].annotated)

(* Every step leaves it so. *)
LEMMA AppendStep == TypeOK /\ AppendInv /\ FastInv /\ [Next]_vars => AppendInv' /\ FastInv'
<1> SUFFICES ASSUME TypeOK, AppendInv, FastInv, [Next]_vars
             PROVE  AppendInv' /\ FastInv'
  OBVIOUS
<1>types. /\ mem \in [Session -> Register] /\ phase \in [Session -> {"idle", "loaded", "opened"}]
          /\ readOnly \in [Session -> BOOLEAN] /\ latest \in Register
          /\ whole => file = latest
  BY DEF TypeOK
<1>inv. \A t \in Session : phase[t] # "idle" /\ t \notin stale => Covers(t)
  BY <1>types DEF AppendInv, Covers
<1>goal. ASSUME \A t \in Session : phase'[t] # "idle" /\ t \notin stale' => Covers(t)',
                \A t \in Session : phase'[t] = "opened" => ~readOnly'[t]
         PROVE  AppendInv' /\ FastInv'
  BY <1>goal DEF AppendInv, FastInv, Covers
<1>1. ASSUME NEW s \in Session, NEW register, NEW fast \in BOOLEAN, LoadAs(s, register, fast),
             register.records = file.records,
             ~fast => register.annotated = file.annotated
      PROVE  AppendInv' /\ FastInv'
  <2>1. /\ phase' = [phase EXCEPT ![s] = "loaded"] /\ mem' = [mem EXCEPT ![s] = register]
        /\ readOnly' = [readOnly EXCEPT ![s] = fast] /\ latest' = latest
        /\ stale' = IF whole THEN stale \ {s} ELSE stale \union {s}
    BY <1>1 DEF LoadAs, fileVars
  <2>2. ASSUME s \notin stale'
        PROVE  Covers(s)'
    <3>1. file = latest
      BY <1>types, <2>1, <2>2
    <3> QED
      BY <1>1, <1>types, <2>1, <3>1, ExtendsItself DEF Covers
  <2>3. ASSUME NEW t \in Session \ {s}, phase'[t] # "idle", t \notin stale'
        PROVE  Covers(t)'
    <3>1. phase[t] # "idle" /\ t \notin stale
      BY <1>types, <2>1, <2>3
    <3> QED
      BY <1>types, <1>inv, <2>1, <3>1 DEF Covers
  <2>4. \A t \in Session : phase'[t] = "opened" => ~readOnly'[t]
    BY <1>types, <2>1 DEF FastInv
  <2> QED
    BY <1>goal, <2>2, <2>3, <2>4
<1>2. ASSUME NEW s \in Session, LoadRegister(s)
      PROVE  AppendInv' /\ FastInv'
  BY <1>1, <1>2 DEF LoadRegister
<1>3. ASSUME NEW s \in Session, ReadRegisterFast(s)
      PROVE  AppendInv' /\ FastInv'
  <2>1. [file EXCEPT !.annotated = FALSE].records = file.records
    BY DEF TypeOK, Register
  <2> QED
    BY <1>1, <1>3, <2>1 DEF ReadRegisterFast
<1>4. ASSUME NEW s \in Session, NEW i \in Id, NEW record, InMemory(s, i, record),
             Extends(mem[s].records, latest.records)
               => Extends([mem[s].records EXCEPT ![i] = record], latest.records)
      PROVE  AppendInv' /\ FastInv'
  <2>1. /\ mem' = [mem EXCEPT ![s] = [mem[s] EXCEPT !.records[i] = record]]
        /\ latest' = latest /\ UNCHANGED <<phase, readOnly, stale>>
    BY <1>4 DEF InMemory, fileVars
  <2>2. /\ mem'[s].records = [mem[s].records EXCEPT ![i] = record]
        /\ mem'[s].annotated = mem[s].annotated
        /\ \A t \in Session \ {s} : mem'[t] = mem[t]
    BY <1>types, <2>1 DEF Register
  <2>3. \A t \in Session : Covers(t) => Covers(t)'
    BY <1>4, <2>1, <2>2 DEF Covers
  <2> QED
    BY <1>goal, <1>inv, <2>1, <2>3 DEF FastInv
<1>5. ASSUME NEW s \in Session, NEW i \in Id, NEW status \in Born, CreateRecord(s, i, status)
      PROVE  AppendInv' /\ FastInv'
  BY <1>4, <1>5, <1>types, CreateExtends DEF CreateRecord, Register
<1>6. ASSUME NEW s \in Session, NEW i \in Id, NEW call \in Call, ApplyTransition(s, i, call)
      PROVE  AppendInv' /\ FastInv'
  <2>1. mem[s].records \in Records /\ latest.records \in Records
    BY <1>types DEF Register
  <2>2. /\ InMemory(s, i, Transitioned(mem[s].records[i], call))
        /\ mem[s].records[i] # NoRecord
    BY <1>6 DEF ApplyTransition
  <2> QED
    BY <1>4, <2>1, <2>2, TransitionExtends
<1>7. ASSUME NEW s \in Session, Drop(s) \/ Die(s)
      PROVE  AppendInv' /\ FastInv'
  <2>1. /\ phase' = [phase EXCEPT ![s] = "idle"] /\ stale' = stale \ {s}
        /\ mem' = [mem EXCEPT ![s] = EmptyRegister]
        /\ readOnly' = [readOnly EXCEPT ![s] = FALSE] /\ latest' = latest
    BY <1>7 DEF Drop, Die, Forget, fileVars
  <2>2. ASSUME NEW t \in Session, phase'[t] # "idle", t \notin stale'
        PROVE  Covers(t)'
    <3>1. t # s /\ phase[t] # "idle" /\ t \notin stale
      BY <1>types, <2>1, <2>2
    <3> QED
      BY <1>types, <1>inv, <2>1, <3>1 DEF Covers
  <2>3. \A t \in Session : phase'[t] = "opened" => ~readOnly'[t]
    BY <1>types, <2>1 DEF FastInv
  <2> QED
    BY <1>goal, <2>2, <2>3
<1>8. ASSUME NEW s \in Session, SaveOpen(s)
      PROVE  AppendInv' /\ FastInv'
  <2>1. /\ phase[s] = "loaded" /\ ~readOnly[s] /\ phase' = [phase EXCEPT ![s] = "opened"]
        /\ stale \subseteq stale' /\ UNCHANGED <<latest, mem, readOnly>>
    BY <1>8 DEF SaveOpen
  <2>2. \A t \in Session : phase'[t] # "idle" => phase[t] # "idle"
    BY <1>types, <2>1
  <2>3. \A t \in Session : Covers(t)' <=> Covers(t)
    BY <2>1 DEF Covers
  <2>4. \A t \in Session : phase'[t] = "opened" => ~readOnly'[t]
    BY <1>types, <2>1 DEF FastInv
  <2> QED
    BY <1>goal, <1>inv, <2>1, <2>2, <2>3, <2>4
<1>9. ASSUME UNCHANGED <<phase, stale, latest, mem, readOnly>>
      PROVE  AppendInv' /\ FastInv'
  BY <1>9 DEF AppendInv, FastInv
<1>10. ASSUME NEW s \in Session, SaveChunk(s)
       PROVE  AppendInv' /\ FastInv'
  BY <1>9, <1>10 DEF SaveChunk, sessionVars
<1>11. ASSUME NEW s \in Session, SaveClose(s)
       PROVE  AppendInv' /\ FastInv'
  <2>1. /\ phase[s] = "opened" /\ phase' = [phase EXCEPT ![s] = "loaded"]
        /\ UNCHANGED <<mem, readOnly>>
    BY <1>11 DEF SaveClose
  <2>2. \/ latest' = mem[s] /\ stale' = {t \in Session : phase[t] # "idle"} \ {s}
        \/ stale' = {t \in Session : phase[t] # "idle"}
    BY <1>11 DEF SaveClose
  <2>3. ASSUME NEW t \in Session, phase'[t] # "idle", t \notin stale'
        PROVE  Covers(t)'
    <3>1. phase[t] # "idle"
      BY <1>types, <2>1, <2>3
    <3>2. t = s /\ latest' = mem[s]
      BY <2>2, <2>3, <3>1
    <3> QED
      BY <2>1, <3>2, ExtendsItself DEF Covers
  <2>4. \A t \in Session : phase'[t] = "opened" => ~readOnly'[t]
    BY <1>types, <2>1 DEF FastInv
  <2> QED
    BY <1>goal, <2>3, <2>4
<1>12. CASE Restore
  BY <1>9, <1>12 DEF Restore, sessionVars
<1>13. CASE UNCHANGED vars
  BY <1>9, <1>13 DEF vars, fileVars, sessionVars
<1> QED
  BY <1>2, <1>3, <1>5, <1>6, <1>7, <1>8, <1>10, <1>11, <1>12, <1>13 DEF Next

LEMMA AppendInvariant == Spec => [](AppendInv /\ FastInv)
<1>1. Init => AppendInv /\ FastInv
  BY DEF Init, AppendInv, FastInv
<1> QED
  BY <1>1, AppendStep, RegistersTypeCorrect, PTL DEF Spec

(* AppendsOnly: no save of a session that has the latest register shortens *)
(* a log or removes a record.                                              *)
THEOREM RegistersAppendOnly == Spec => []AppendsOnly
<1>1. AppendInv => AppendsOnly
  BY DEF AppendInv, AppendsOnly
<1> QED
  BY <1>1, AppendInvariant, PTL

(* AnnotationsSurvive: nor does it drop the comments.  The copies of       *)
(* read_register_fast are the ones without, and no session saves those.    *)
THEOREM SavesKeepAnnotations == Spec => []AnnotationsSurvive
<1>1. AppendInv /\ FastInv => AnnotationsSurvive
  BY DEF AppendInv, FastInv, AnnotationsSurvive
<1> QED
  BY <1>1, AppendInvariant, PTL

(* Both of them: a save only adds to the register.                         *)
THEOREM SavesAlwaysAdd == Spec => []SavesOnlyAdd
<1>1. AppendsOnly /\ AnnotationsSurvive => SavesOnlyAdd
  BY DEF SavesOnlyAdd
<1> QED
  BY <1>1, RegistersAppendOnly, SavesKeepAnnotations, PTL
=============================================================================
