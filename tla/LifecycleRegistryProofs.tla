----------------------- MODULE LifecycleRegistryProofs -----------------------
(***************************************************************************)
(* For any writers, services, programs and states: the registry is type    *)
(* correct, and as long as its calls do not overlap no crash loses a       *)
(* recorded transition and no service is told a state that was not the     *)
(* last one recorded, but "active" once a hand edit broke the file.        *)
(*                                                                         *)
(* RecordedIsDurable compares the file with the calls that returned.  It   *)
(* is not inductive: a call publishes what it loaded and appended to some  *)
(* steps earlier.  Serial follows that call from the load to the replace:  *)
(* what it has loaded tells what was recorded, what it is about to publish *)
(* is that and one record more, and the temp file is its own.              *)
(***************************************************************************)
EXTENDS LifecycleRegistry, TLAPS

LEMMA LastOfAppend ==
  ASSUME NEW s \in Seq(Record), NEW r \in Record
  PROVE  /\ Append(s, r) \in Seq(Record)
         /\ Append(s, r) # <<>>
         /\ Last(Append(s, r)) = r
BY DEF Last

(* A call has its arguments, and from the append on a record to publish. *)
Calls ==
  \A w \in Writer :
    /\ InCall(w) => job[w] \in Job
    /\ pc[w] \in {"opened", "flushed"} => view[w][job[w].program] # <<>>

(* A registry may have forgotten a program, after a hand edit, but what it *)
(* says of one is the last transition recorded.                            *)
TellsOf(reg, p) ==
  reg[p] # <<>> => recorded[p] # <<>> /\ Last(reg[p]) = Last(recorded[p])

Tells(reg) ==
  /\ ~damaged => reg = recorded
  /\ \A p \in Program : TellsOf(reg, p)

(* What a writer that has appended is about to publish *)
OneMore(w) ==
  /\ ~damaged =>
       \E r \in Record : view[w] = [recorded EXCEPT ![job[w].program] = Append(@, r)]
  /\ \A p \in Program \ {job[w].program} : TellsOf(view[w], p)

Alone == \A v, w \in Writer : InCall(v) /\ InCall(w) => v = w

OnTrack(w) ==
  /\ at[w] = IF pc[w] = "opened" THEN "tmp" ELSE "closed"
  /\ pc[w] = "loaded" => Tells(view[w])
  /\ pc[w] = "opened" => tmp = Empty
  /\ pc[w] = "flushed" => tmp = view[w]
  /\ pc[w] \in {"opened", "flushed"} => OneMore(w)

Serial ==
  ~overlapped =>
    /\ Tells(Loaded(live))
    /\ Alone
    /\ \A w \in Writer : OnTrack(w)

LifecycleInv == TypeOK /\ Calls /\ Serial

----------------------------------------------------------------------------
(* Types *)

LEMMA Marks ==
  /\ Absent \notin Registry /\ Empty \notin Registry /\ Garbled \notin Registry
  /\ NoOverrides \in Registry
BY MarkAssumption DEF Registry, NoOverrides

LEMMA LoadedType ==
  ASSUME NEW f
  PROVE  Loaded(f) \in Registry
BY Marks DEF Loaded, File!Readable

LEMMA StateType ==
  ASSUME NEW reg \in Registry, NEW p \in Program
  PROVE  CurrentState(reg, p) \in State
<1>1. reg[p] \in Seq(Record)
  BY DEF Registry
<1>2. reg[p] # <<>> => Last(reg[p]) \in Record
  BY <1>1 DEF Last
<1> QED
  BY <1>2, LifecycleAssumption DEF CurrentState, Record

LEMMA FinishType ==
  ASSUME TypeOK, NEW w \in Writer, NEW how \in Place, Finish(w, how)
  PROVE  /\ pc' \in [Writer -> Place]
         /\ job' \in [Writer -> Job \cup {NoJob}]
         /\ view' \in [Writer -> Registry]
BY Marks DEF TypeOK, Finish

LEMMA TypeInit == Init => TypeOK
<1> SUFFICES ASSUME Init
             PROVE  TypeOK
  OBVIOUS
<1>1. File!FileTypeOK
  BY DEF Init, File!FileInit, File!FileTypeOK, File!OnDisk, File!Place
<1>2. pc \in [Writer -> Place] /\ job \in [Writer -> Job \cup {NoJob}]
  BY DEF Init, Place
<1>3. view \in [Writer -> Registry] /\ recorded \in Registry
  BY Marks DEF Init
<1>4. clock \in Nat /\ reading \in [Service -> BOOLEAN] /\ asked \in [Service -> Program]
  BY DEF Init
<1>5. /\ answer \in [Service -> State \cup {NoAnswer}]
      /\ overlapped \in BOOLEAN /\ damaged \in BOOLEAN
  BY DEF Init
<1> QED
  BY <1>1, <1>2, <1>3, <1>4, <1>5 DEF TypeOK

LEMMA FileSteps ==
  ASSUME TypeOK, NEW w \in Writer,
         \/ File!OpenTmp(w) \/ File!FlushTmp(w, view[w]) \/ File!ReplaceLive
         \/ File!ReplaceMissing \/ File!DropFd(w)
  PROVE  File!FileTypeOK'
<1> USE DEF File!FileTypeOK, File!OnDisk, File!Place
<1>1. CASE File!OpenTmp(w)
  BY <1>1 DEF TypeOK, File!OpenTmp
<1>2. CASE File!FlushTmp(w, view[w])
  <2>1. \A f : File!Overlay(f, view[w]) \subseteq File!OnDisk
    BY DEF TypeOK, File!Overlay
  <2> QED
    BY <1>2, <2>1 DEF TypeOK, File!FlushTmp
<1>3. CASE File!ReplaceLive
  <2>1. at' \in [Writer -> File!Place]
    BY <1>3 DEF TypeOK, File!ReplaceLive
  <2> QED
    BY <1>3, <2>1 DEF TypeOK, File!ReplaceLive
<1>4. CASE File!ReplaceMissing
  BY <1>4 DEF TypeOK, File!ReplaceMissing, File!fileVars
<1>5. CASE File!DropFd(w)
  BY <1>5 DEF TypeOK, File!DropFd
<1> QED
  BY <1>1, <1>2, <1>3, <1>4, <1>5

----------------------------------------------------------------------------
(* One writer's call *)

(* What AppendRecord puts into the view *)
Appended(w) == Append(view[w][job[w].program], NewRecord(w))

LEMMA AppendStep ==
  ASSUME TypeOK, Calls, NEW w \in Writer, AppendRecord(w)
  PROVE  /\ job[w] \in Job
         /\ NewRecord(w) \in Record
         /\ Appended(w) \in Seq(Record) /\ Appended(w) # <<>>
         /\ view' = [view EXCEPT ![w] = [@ EXCEPT ![job[w].program] = Appended(w)]]
         /\ view' \in [Writer -> Registry]
         /\ clock' \in Nat
<1>1. job[w] \in Job
  BY DEF Calls, AppendRecord, InCall
<1>2. NewRecord(w) \in Record
  BY <1>1 DEF TypeOK, Job, Record, NewRecord
<1>3. view[w][job[w].program] \in Seq(Record)
  BY <1>1 DEF TypeOK, Job, Registry
<1>4. Appended(w) \in Seq(Record) /\ Appended(w) # <<>>
  BY <1>2, <1>3, LastOfAppend DEF Appended
<1>5. view' = [view EXCEPT ![w] = [@ EXCEPT ![job[w].program] = Appended(w)]]
  BY DEF AppendRecord, Appended, NewRecord
<1>6. view' \in [Writer -> Registry]
  <2>1. \A p \in Program, h \in Seq(Record), reg \in Registry :
          [reg EXCEPT ![p] = h] \in Registry
    BY DEF Registry
  <2>2. [view[w] EXCEPT ![job[w].program] = Appended(w)] \in Registry
    BY <1>1, <1>4, <2>1 DEF TypeOK, Job
  <2> QED
    BY <1>5, <2>2 DEF TypeOK
<1>7. clock' \in Nat
  BY DEF AppendRecord, TypeOK
<1> QED
  BY <1>1, <1>2, <1>4, <1>5, <1>6, <1>7

LEMMA PublishedRecord ==
  ASSUME TypeOK, Calls, NEW w \in Writer, pc[w] = "flushed"
  PROVE  /\ job[w] \in Job
         /\ Last(view[w][job[w].program]) \in Record
<1>1. job[w] \in Job
  BY DEF Calls, InCall
<1>2. view[w][job[w].program] \in Seq(Record) /\ view[w][job[w].program] # <<>>
  BY <1>1 DEF TypeOK, Job, Registry, Calls
<1> QED
  BY <1>1, <1>2 DEF Last

LEMMA TypeStep == TypeOK /\ Calls /\ [Next]_vars => TypeOK'
<1> SUFFICES ASSUME TypeOK, Calls, [Next]_vars
             PROVE  TypeOK'
  OBVIOUS
<1> USE DEF vars, fileVars, callVars, readVars, ghosts
<1>1. ASSUME NEW w \in Writer, Load(w)
      PROVE  TypeOK'
  <2>1. view' \in [Writer -> Registry]
    BY <1>1, LoadedType DEF TypeOK, Load
  <2>2. pc' \in [Writer -> Place] /\ job' \in [Writer -> Job \cup {NoJob}]
    BY <1>1 DEF TypeOK, Load, Place
  <2>3. overlapped' \in BOOLEAN
    BY <1>1 DEF TypeOK, Load
  <2> QED
    BY <1>1, <2>1, <2>2, <2>3 DEF TypeOK, Load, File!FileTypeOK
<1>2. ASSUME NEW w \in Writer, AppendRecord(w)
      PROVE  TypeOK'
  <2>1. File!FileTypeOK'
    BY <1>2, FileSteps DEF AppendRecord
  <2> QED
    BY <1>2, <2>1, AppendStep DEF TypeOK, AppendRecord, Place
<1>3. ASSUME NEW w \in Writer, WriteTmp(w)
      PROVE  TypeOK'
  <2>1. File!FileTypeOK'
    BY <1>3, FileSteps DEF WriteTmp
  <2> QED
    BY <1>3, <2>1 DEF TypeOK, WriteTmp, Place
<1>4. ASSUME NEW w \in Writer, Publish(w)
      PROVE  TypeOK'
  <2>1. File!FileTypeOK'
    BY <1>4, FileSteps DEF Publish
  <2>2. recorded' \in Registry
    BY <1>4, PublishedRecord DEF TypeOK, Publish, Registry, Job
  <2> QED
    BY <1>4, <2>1, <2>2, FinishType DEF TypeOK, Publish, Place
<1>5. ASSUME NEW w \in Writer, PublishFails(w)
      PROVE  TypeOK'
  <2>1. File!FileTypeOK'
    BY <1>5, FileSteps DEF PublishFails
  <2> QED
    BY <1>5, <2>1, FinishType DEF TypeOK, PublishFails, Place
<1>6. ASSUME NEW w \in Writer, Die(w)
      PROVE  TypeOK'
  <2>1. File!FileTypeOK'
    BY <1>6, FileSteps DEF Die
  <2> QED
    BY <1>6, <2>1, FinishType DEF TypeOK, Die, Place
<1>7. ASSUME NEW s \in Service, ReadAbsent(s) \/ ReadBegin(s)
      PROVE  TypeOK'
  <2>1. answer' \in [Service -> State \cup {NoAnswer}]
    BY <1>7, LifecycleAssumption DEF TypeOK, ReadAbsent, ReadBegin
  <2> QED
    BY <1>7, <2>1 DEF TypeOK, ReadAbsent, ReadBegin, File!FileTypeOK
<1>8. ASSUME NEW s \in Service, ReadReturn(s)
      PROVE  TypeOK'
  <2>1. CurrentState(Loaded(live), asked[s]) \in State
    BY LoadedType, StateType DEF TypeOK
  <2> QED
    BY <1>8, <2>1 DEF TypeOK, ReadReturn, File!FileTypeOK
<1>9. CASE Break
  BY <1>9 DEF TypeOK, Break, File!FileTypeOK, File!OnDisk
<1>10. CASE UNCHANGED vars
  BY <1>10 DEF TypeOK, File!FileTypeOK
<1> QED
  BY <1>1, <1>2, <1>3, <1>4, <1>5, <1>6, <1>7, <1>8, <1>9, <1>10 DEF Next

LEMMA CallsStep == TypeOK /\ Calls /\ [Next]_vars => Calls'
<1> SUFFICES ASSUME TypeOK, Calls, [Next]_vars
             PROVE  Calls'
  OBVIOUS
<1> USE DEF Calls, InCall
<1>1. ASSUME NEW w \in Writer, Load(w)
      PROVE  Calls'
  BY <1>1 DEF TypeOK, Load
<1>2. ASSUME NEW w \in Writer, AppendRecord(w)
      PROVE  Calls'
  <2>1. \A v \in Writer \ {w} : view'[v] = view[v] /\ pc'[v] = pc[v] /\ job'[v] = job[v]
    BY <1>2, AppendStep DEF TypeOK, AppendRecord
  <2>2. job'[w] = job[w] /\ job[w] \in Job /\ job[w].program \in Program
    BY <1>2, AppendStep DEF AppendRecord, Job
  <2>3. view'[w] = [view[w] EXCEPT ![job[w].program] = Appended(w)]
    BY <1>2, AppendStep DEF TypeOK
  <2>4. view'[w][job[w].program] = Appended(w)
    BY <2>2, <2>3 DEF TypeOK, Registry
  <2> QED
    BY <1>2, <2>1, <2>2, <2>4, AppendStep
<1>3. ASSUME NEW w \in Writer, WriteTmp(w)
      PROVE  Calls'
  BY <1>3 DEF TypeOK, WriteTmp
<1>4. ASSUME NEW w \in Writer, NEW how \in {"idle", "dead"}, Finish(w, how)
      PROVE  Calls'
  BY <1>4 DEF TypeOK, Finish
<1>5. CASE UNCHANGED <<pc, job, view>>
  BY <1>5
<1> QED
  BY <1>1, <1>2, <1>3, <1>4, <1>5
  DEF Next, Publish, PublishFails, Die, ReadAbsent, ReadBegin, ReadReturn, Break,
      vars, callVars

----------------------------------------------------------------------------
(* The one call that runs *)

(* Loaded(f) is f when f is a registry. *)
LEMMA LoadedRegistry ==
  ASSUME NEW reg \in Registry
  PROVE  Loaded(reg) = reg
BY DEF Loaded, File!Readable

LEMMA SerialInit == Init => Serial
<1> SUFFICES ASSUME Init
             PROVE  Serial
  OBVIOUS
<1>1. Loaded(live) = NoOverrides /\ recorded = NoOverrides
  BY Marks DEF Init, File!FileInit, Loaded, File!Readable
<1>2. Tells(Loaded(live))
  BY <1>1 DEF Tells, TellsOf, NoOverrides
<1>3. \A w \in Writer : pc[w] = "idle" /\ at[w] = "closed"
  BY DEF Init, File!FileInit
<1> QED
  BY <1>2, <1>3 DEF Serial, Alone, OnTrack, InCall

(* The end of a call: every other writer was idle or dead and stays so.    *)
LEMMA FinishSerial ==
  ASSUME TypeOK, Alone, \A v \in Writer : OnTrack(v),
         NEW w \in Writer, NEW how \in {"idle", "dead"}, InCall(w),
         Finish(w, how),
         \A v \in Writer : at'[v] = "closed"
  PROVE  Alone' /\ \A v \in Writer : OnTrack(v)'
<1>1. \A v \in Writer : pc'[v] \in {"idle", "dead"}
  BY DEF TypeOK, Alone, InCall, Finish, Place
<1> QED
  BY <1>1 DEF Alone, OnTrack, InCall

(* The append keeps what the view says of the other programs. *)
LEMMA AppendSerial ==
  ASSUME TypeOK, Calls, NEW w \in Writer, AppendRecord(w), Tells(view[w])
  PROVE  OneMore(w)'
<1> DEFINE p == job[w].program
<1>1. /\ job' = job /\ recorded' = recorded /\ damaged' = damaged
      /\ p \in Program
      /\ view'[w] = [view[w] EXCEPT ![p] = Append(view[w][p], NewRecord(w))]
      /\ NewRecord(w) \in Record
  BY AppendStep DEF AppendRecord, TypeOK, Appended, Job, ghosts
<1>2. ~damaged => view'[w] = [recorded EXCEPT ![p] = Append(@, NewRecord(w))]
  BY <1>1 DEF Tells
<1>3. \A q \in Program \ {p} : view'[w][q] = view[w][q]
  BY <1>1 DEF TypeOK, Registry
<1>4. \A q \in Program \ {p} : TellsOf(view'[w], q)
  BY <1>3 DEF Tells, TellsOf
<1> QED
  BY <1>1, <1>2, <1>4 DEF OneMore, TellsOf

(* The replace makes the one record more a recorded one. *)
LEMMA PublishSerial ==
  ASSUME TypeOK, Calls, NEW w \in Writer, Publish(w), tmp = view[w], OneMore(w)
  PROVE  Tells(Loaded(live))'
<1> DEFINE p == job[w].program
           r == Last(view[w][p])
<1>1. /\ p \in Program /\ r \in Record /\ recorded[p] \in Seq(Record)
      /\ recorded' = [recorded EXCEPT ![p] = Append(recorded[p], r)]
      /\ damaged' = damaged
  BY PublishedRecord DEF Publish, Job, TypeOK, Registry, ghosts
<1>2. Loaded(live') = view[w]
  <2>1. live' = view[w]
    BY DEF Publish, File!ReplaceLive
  <2> QED
    BY <2>1, LoadedRegistry DEF TypeOK
<1>3. ~damaged => view[w] = recorded'
  <2> SUFFICES ASSUME ~damaged
               PROVE  view[w] = recorded'
    OBVIOUS
  <2>1. PICK x \in Record : view[w] = [recorded EXCEPT ![p] = Append(@, x)]
    BY DEF OneMore
  <2>2. view[w][p] = Append(recorded[p], x)
    BY <1>1, <2>1 DEF TypeOK, Registry
  <2>3. r = x
    BY <1>1, <2>2, LastOfAppend
  <2> QED
    BY <1>1, <2>1, <2>3
<1>4. \A q \in Program : view[w][q] # <<>>
                          => recorded'[q] # <<>> /\ Last(view[w][q]) = Last(recorded'[q])
  <2>1. recorded'[p] # <<>> /\ Last(view[w][p]) = Last(recorded'[p])
    <3>1. recorded'[p] = Append(recorded[p], r)
      BY <1>1 DEF TypeOK, Registry
    <3> QED
      BY <1>1, <3>1, LastOfAppend
  <2>2. \A q \in Program \ {p} : recorded'[q] = recorded[q]
    BY <1>1 DEF TypeOK, Registry
  <2> QED
    BY <2>1, <2>2 DEF OneMore, TellsOf
<1> QED
  BY <1>1, <1>2, <1>3, <1>4 DEF Tells, TellsOf, Loaded, File!Readable, NoOverrides, Registry

LEMMA SerialStep == TypeOK /\ Calls /\ Serial /\ [Next]_vars => Serial'
<1> SUFFICES ASSUME TypeOK, Calls, Serial, [Next]_vars, ~overlapped'
             PROVE  Tells(Loaded(live))' /\ Alone' /\ \A w \in Writer : OnTrack(w)'
  BY DEF Serial
<1> USE DEF fileVars, callVars, readVars, ghosts
<1>1. ~overlapped
  BY DEF Next, vars, Load, AppendRecord, WriteTmp, Publish, PublishFails, Die, ReadAbsent,
         ReadBegin, ReadReturn, Break
<1>2. Tells(Loaded(live)) /\ Alone /\ \A w \in Writer : OnTrack(w)
  BY <1>1 DEF Serial
<1>3. ASSUME UNCHANGED <<live, recorded, damaged>>
      PROVE  Tells(Loaded(live))'
  BY <1>2, <1>3 DEF Tells, TellsOf, Loaded, File!Readable, NoOverrides, Registry
<1>4. ASSUME NEW w \in Writer, Load(w)
      PROVE  Alone' /\ (\A v \in Writer : OnTrack(v)') /\ Tells(Loaded(live))'
  <2>1. \A v \in Writer \ {w} : ~InCall(v) /\ pc'[v] = pc[v]
    BY <1>4, ~overlapped' DEF TypeOK, Load
  <2>2. pc'[w] = "loaded" /\ view'[w] = Loaded(live) /\ at'[w] = "closed"
    BY <1>2, <1>4 DEF TypeOK, Load, OnTrack
  <2>3. live' = live /\ recorded' = recorded /\ at' = at /\ damaged' = damaged
    BY <1>4 DEF Load
  <2>4. Tells(view[w])'
    BY <1>2, <2>2, <2>3 DEF Tells, TellsOf
  <2> QED
    BY <1>2, <1>3, <2>1, <2>2, <2>3, <2>4 DEF Alone, OnTrack, InCall
<1>5. ASSUME NEW w \in Writer, AppendRecord(w)
      PROVE  Alone' /\ (\A v \in Writer : OnTrack(v)') /\ Tells(Loaded(live))'
  <2>1. \A v \in Writer \ {w} : ~InCall(v) /\ pc'[v] = pc[v] /\ at'[v] = at[v]
    BY <1>2, <1>5 DEF TypeOK, AppendRecord, Alone, InCall, File!OpenTmp, File!FileTypeOK
  <2>2. pc'[w] = "opened" /\ at'[w] = "tmp" /\ tmp' = Empty
    BY <1>5 DEF TypeOK, AppendRecord, File!OpenTmp, File!FileTypeOK
  <2>3. Tells(view[w])
    BY <1>2, <1>5 DEF AppendRecord, OnTrack
  <2>4. OneMore(w)'
    BY <1>5, <2>3, AppendSerial
  <2>5. UNCHANGED <<live, recorded, damaged>>
    BY <1>5 DEF AppendRecord, File!OpenTmp
  <2> QED
    BY <1>2, <1>3, <2>1, <2>2, <2>4, <2>5 DEF Alone, OnTrack, InCall
<1>6. ASSUME NEW w \in Writer, WriteTmp(w)
      PROVE  Alone' /\ (\A v \in Writer : OnTrack(v)') /\ Tells(Loaded(live))'
  <2>1. \A v \in Writer \ {w} : ~InCall(v) /\ pc'[v] = pc[v] /\ at'[v] = at[v]
    BY <1>2, <1>6 DEF TypeOK, WriteTmp, Alone, InCall, File!FlushTmp, File!FileTypeOK
  <2>2. at[w] = "tmp" /\ tmp = Empty /\ OneMore(w)
    BY <1>2, <1>6 DEF WriteTmp, OnTrack
  <2>3. /\ pc'[w] = "flushed" /\ at'[w] = "closed" /\ tmp' = view[w]
        /\ UNCHANGED <<live, view, job, recorded, damaged>>
    BY <1>6, <2>2
    DEF TypeOK, WriteTmp, File!FlushTmp, File!Overlay, File!FileTypeOK
  <2>4. OneMore(w)'
    BY <2>2, <2>3 DEF OneMore, TellsOf
  <2> QED
    BY <1>2, <1>3, <2>1, <2>3, <2>4 DEF Alone, OnTrack, InCall
<1>7. ASSUME NEW w \in Writer, Publish(w)
      PROVE  Alone' /\ (\A v \in Writer : OnTrack(v)') /\ Tells(Loaded(live))'
  <2>1. tmp = view[w] /\ OneMore(w) /\ InCall(w) /\ at[w] = "closed"
    BY <1>2, <1>7 DEF Publish, OnTrack, InCall
  <2>2. \A v \in Writer : at[v] = "closed"
    BY <1>2, <2>1 DEF Alone, OnTrack, InCall
  <2>3. \A v \in Writer : at'[v] = "closed"
    BY <1>7, <2>2 DEF Publish, File!ReplaceLive
  <2>4. Tells(Loaded(live))'
    BY <1>7, <2>1, PublishSerial
  <2> QED
    BY <1>2, <1>7, <2>1, <2>3, <2>4, FinishSerial DEF Publish
<1>8. ASSUME NEW w \in Writer, PublishFails(w)
      PROVE  FALSE
  <2>1. tmp = view[w]
    BY <1>2, <1>8 DEF PublishFails, OnTrack
  <2> QED
    BY <1>8, <2>1, Marks DEF PublishFails, File!ReplaceMissing, TypeOK
<1>9. ASSUME NEW w \in Writer, Die(w)
      PROVE  Alone' /\ (\A v \in Writer : OnTrack(v)') /\ Tells(Loaded(live))'
  <2>1. UNCHANGED <<live, tmp, recorded, damaged>>
    BY <1>9 DEF Die, File!DropFd
  <2>2. at'[w] = "closed" /\ pc'[w] = "dead"
    BY <1>9 DEF Die, File!DropFd, Finish, TypeOK, File!FileTypeOK
  <2>3. \A v \in Writer \ {w} : /\ pc'[v] = pc[v] /\ at'[v] = at[v]
                                /\ job'[v] = job[v] /\ view'[v] = view[v]
    BY <1>9 DEF Die, File!DropFd, Finish, TypeOK, File!FileTypeOK
  <2>4. \A v \in Writer \ {w} : /\ OneMore(v) => OneMore(v)'
                                /\ Tells(view[v]) => Tells(view[v])'
    BY <2>1, <2>3 DEF OneMore, Tells, TellsOf
  <2> QED
    BY <1>2, <1>3, <2>1, <2>2, <2>3, <2>4 DEF Alone, OnTrack, InCall
<1>10. CASE Break
  <2>1. UNCHANGED <<tmp, at, pc, job, view, recorded>> /\ damaged'
    BY <1>10 DEF Break
  <2>2. Loaded(live') = NoOverrides
    BY <1>10, Marks DEF Break, Loaded, File!Readable
  <2>3. Tells(Loaded(live))'
    BY <2>1, <2>2 DEF Tells, TellsOf, NoOverrides, Loaded, File!Readable, Registry
  <2>4. \A v \in Writer : /\ OneMore(v) => OneMore(v)'
                          /\ Tells(view[v]) => Tells(view[v])'
    BY <2>1 DEF OneMore, Tells, TellsOf
  <2> QED
    BY <1>2, <2>1, <2>3, <2>4 DEF Alone, OnTrack, InCall
<1>11. CASE \/ \E s \in Service : ReadAbsent(s) \/ ReadBegin(s) \/ ReadReturn(s)
            \/ UNCHANGED vars
  <2>1. UNCHANGED <<live, tmp, at, pc, job, view, recorded, damaged>>
    BY <1>11 DEF ReadAbsent, ReadBegin, ReadReturn, vars
  <2>2. \A v \in Writer : /\ OneMore(v) => OneMore(v)'
                          /\ Tells(view[v]) => Tells(view[v])'
    BY <2>1 DEF OneMore, Tells, TellsOf
  <2> QED
    BY <1>2, <1>3, <2>1, <2>2 DEF Alone, OnTrack, InCall
<1> QED
  BY <1>4, <1>5, <1>6, <1>7, <1>8, <1>9, <1>10, <1>11 DEF Next

----------------------------------------------------------------------------

LEMMA CallsInit == Init => Calls
BY DEF Init, Calls, InCall

(* The invariant holds in every reachable state. *)
THEOREM LifecycleInvariant == Spec => []LifecycleInv
<1>1. Init => LifecycleInv
  BY TypeInit, CallsInit, SerialInit DEF LifecycleInv
<1>2. LifecycleInv /\ [Next]_vars => LifecycleInv'
  BY TypeStep, CallsStep, SerialStep DEF LifecycleInv
<1> QED
  BY <1>1, <1>2, PTL DEF Spec

(* The files, the calls and the answers keep their types. *)
THEOREM LifecycleTypeCorrect == Spec => []TypeOK
<1>1. LifecycleInv => TypeOK
  BY DEF LifecycleInv
<1> QED
  BY <1>1, LifecycleInvariant, PTL

(* Until a hand edit breaks the file, calls of record_transition that do   *)
(* not overlap lose no record, wherever their processes die.               *)
THEOREM Durability == Spec => []RecordedIsDurable
<1>1. LifecycleInv => RecordedIsDurable
  BY DEF LifecycleInv, Serial, Tells, RecordedIsDurable
<1> QED
  BY <1>1, LifecycleInvariant, PTL

(* A service that reads is answered from the file as it is. *)
LEMMA ReadFromFile ==
  ASSUME TypeOK, [Next]_vars, NEW s \in Service, reading[s], ~reading'[s]
  PROVE  answer'[s] = CurrentState(Loaded(live), asked[s])
<1>1. PICK t \in Service : ReadReturn(t)
  BY DEF TypeOK, Next, vars, readVars, Load, AppendRecord, WriteTmp, Publish, PublishFails,
         Die, ReadAbsent, ReadBegin, Break
<1>2. s = t
  BY <1>1 DEF TypeOK, ReadReturn
<1> QED
  BY <1>1, <1>2 DEF TypeOK, ReadReturn

(* Under the same conditions a service that has read the file is told the  *)
(* state of the last transition recorded.                                  *)
THEOREM ReadersAreTold == Spec => ReadTellsRecorded
<1>1. ASSUME LifecycleInv, [Next]_vars, NEW s \in Service,
             reading[s], ~reading'[s], ~overlapped, ~damaged
      PROVE  answer'[s] = CurrentState(recorded, asked[s])
  BY <1>1, ReadFromFile DEF LifecycleInv, Serial, Tells
<1>2. LifecycleInv /\ [Next]_vars
        => [\A s \in Service :
              reading[s] /\ ~reading'[s] /\ ~overlapped /\ ~damaged
                => answer'[s] = CurrentState(recorded, asked[s])]_vars
  BY <1>1
<1> QED
  BY <1>2, LifecycleInvariant, PTL DEF Spec, ReadTellsRecorded

(* Whatever hand edits do, a service that is told to restrict a program is *)
(* told what the last transition of that program recorded.                 *)
THEOREM RestrictionsAreRecorded == Spec => RestrictionIsReal
<1>1. ASSUME LifecycleInv, [Next]_vars, NEW s \in Service,
             reading[s], ~reading'[s], ~overlapped, answer'[s] # Default
      PROVE  answer'[s] = CurrentState(recorded, asked[s])
  <2>1. answer'[s] = CurrentState(Loaded(live), asked[s])
    BY <1>1, ReadFromFile DEF LifecycleInv
  <2>2. asked[s] \in Program
    BY <1>1 DEF LifecycleInv, TypeOK
  <2>3. TellsOf(Loaded(live), asked[s])
    BY <1>1, <2>2 DEF LifecycleInv, Serial, Tells
  <2> QED
    BY <1>1, <2>1, <2>3 DEF CurrentState, TellsOf
<1>2. LifecycleInv /\ [Next]_vars
        => [\A s \in Service :
              /\ reading[s] /\ ~reading'[s] /\ ~overlapped
              /\ answer'[s] # Default
              => answer'[s] = CurrentState(recorded, asked[s])]_vars
  BY <1>1
<1> QED
  BY <1>2, LifecycleInvariant, PTL DEF Spec, RestrictionIsReal
==============================================================================
