-------------------------- MODULE ActingLockProofs --------------------------
(***************************************************************************)
(* For any set of processes: the acting lock is type correct, keeps mutual *)
(* exclusion, never shows a live holder's sidecar under another name, and  *)
(* implements the abstract identity lock.                                  *)
(*                                                                         *)
(* MutualExclusion is not inductive: it says nothing of a process between  *)
(* the flock and the return of acquire, nor of a probe that holds the lock *)
(* for a moment.  LockInv ties the kernel's lock to every place in the     *)
(* code that holds it, and the temp file of .info to the one stager.       *)
(***************************************************************************)
EXTENDS ActingLock, TLAPS

(* The places at which a process's descriptor holds the flock *)
Holding == {"locked", "staged", "acting", "probeTook"}

HeldExactly == \A p \in Proc : p \in flock <=> pc[p] \in Holding

OneHolder == \A p, q \in flock : p = q

StagedIsOwn == \A p \in Proc : pc[p] = "staged" => infoTmp = p

PublishedIsOwn == \A p \in Proc : pc[p] = "acting" => info \in {p, NoOne}

LockInv ==
  /\ TypeOK
  /\ HeldExactly
  /\ OneHolder
  /\ StagedIsOwn
  /\ PublishedIsOwn

-----------------------------------------------------------------------------

(* The steps on the marker's files keep to their types. *)
LEMMA MarkerOpenType ==
  ASSUME Marker!FileTypeOK, NEW p \in Proc, Marker!OpenTmp(p)
  PROVE  Marker!FileTypeOK'
BY DEF Marker!FileTypeOK, Marker!OpenTmp, Marker!OnDisk, Marker!Place

LEMMA MarkerFlushType ==
  ASSUME Marker!FileTypeOK, NEW p \in Proc, Marker!FlushTmp(p, p)
  PROVE  Marker!FileTypeOK'
<1>1. \A f : Marker!Overlay(f, p) \subseteq Marker!OnDisk
  BY DEF Marker!Overlay, Marker!OnDisk
<1>2. QED
  BY <1>1 DEF Marker!FileTypeOK, Marker!FlushTmp, Marker!Place

LEMMA MarkerReplaceType ==
  ASSUME Marker!FileTypeOK, Marker!ReplaceLive \/ Marker!ReplaceMissing
  PROVE  Marker!FileTypeOK'
<1>1. CASE Marker!ReplaceLive
  <2>1. preemptAt' \in [Proc -> Marker!Place]
    BY <1>1 DEF Marker!FileTypeOK, Marker!ReplaceLive, Marker!Place
  <2>2. QED
    BY <1>1, <2>1 DEF Marker!FileTypeOK, Marker!ReplaceLive, Marker!OnDisk
<1>2. CASE Marker!ReplaceMissing
  BY <1>2 DEF Marker!FileTypeOK, Marker!ReplaceMissing, Marker!fileVars
<1>3. QED
  BY <1>1, <1>2

LEMMA MarkerUnlinkType ==
  ASSUME Marker!FileTypeOK, Marker!UnlinkLive
  PROVE  Marker!FileTypeOK'
<1>1. preemptAt' \in [Proc -> Marker!Place]
  BY DEF Marker!FileTypeOK, Marker!UnlinkLive, Marker!Place
<1>2. QED
  BY <1>1 DEF Marker!FileTypeOK, Marker!UnlinkLive, Marker!OnDisk

LEMMA MarkerDropType ==
  ASSUME Marker!FileTypeOK, NEW p \in Proc, Marker!DropFd(p)
  PROVE  Marker!FileTypeOK'
BY DEF Marker!FileTypeOK, Marker!DropFd, Marker!OnDisk, Marker!Place

LEMMA MarkerUnchangedType ==
  ASSUME Marker!FileTypeOK, UNCHANGED markVars
  PROVE  Marker!FileTypeOK'
BY DEF Marker!FileTypeOK, markVars

-----------------------------------------------------------------------------

(* Every step keeps the invariant. *)
LEMMA LockInvStep == LockInv /\ [Next]_vars => LockInv'
<1> SUFFICES ASSUME LockInv, [Next]_vars PROVE LockInv'
  OBVIOUS
<1> USE ProcAssumption
        DEF LockInv, TypeOK, HeldExactly, OneHolder, StagedIsOwn, PublishedIsOwn,
            Holding, Place, Goto, Reply, NoReply, Answer
<1>1. ASSUME NEW p \in Proc, AcquireOpen(p) PROVE LockInv'
  BY <1>1, MarkerUnchangedType DEF AcquireOpen
<1>2. ASSUME NEW p \in Proc, AcquireFlock(p) PROVE LockInv'
  BY <1>2, MarkerUnchangedType DEF AcquireFlock
<1>3. ASSUME NEW p \in Proc, AcquireRefused(p) PROVE LockInv'
  BY <1>3, MarkerUnchangedType DEF AcquireRefused
<1>4. ASSUME NEW p \in Proc, AcquireRaise(p) PROVE LockInv'
  BY <1>4, MarkerUnchangedType DEF AcquireRaise
<1>5. ASSUME NEW p \in Proc, AcquireStageInfo(p) PROVE LockInv'
  BY <1>5, MarkerUnchangedType DEF AcquireStageInfo
<1>6. ASSUME NEW p \in Proc, AcquirePublishInfo(p) PROVE LockInv'
  BY <1>6, MarkerUnchangedType DEF AcquirePublishInfo
<1>7. ASSUME NEW p \in Proc, ReleaseClose(p) PROVE LockInv'
  BY <1>7, MarkerUnchangedType DEF ReleaseClose
<1>8. ASSUME NEW p \in Proc, ReleaseUnlinkInfo(p) PROVE LockInv'
  BY <1>8, MarkerUnchangedType DEF ReleaseUnlinkInfo
<1>9. ASSUME NEW p \in Proc, ReleaseUnlinkPreempt(p) PROVE LockInv'
  BY <1>9, MarkerUnlinkType DEF ReleaseUnlinkPreempt
<1>10. ASSUME NEW p \in Proc, ProbeNoFile(p) \/ ProbeOpen(p) PROVE LockInv'
  BY <1>10, MarkerUnchangedType DEF ProbeNoFile, ProbeOpen
<1>11. ASSUME NEW p \in Proc, ProbeFlock(p) PROVE LockInv'
  BY <1>11, MarkerUnchangedType DEF ProbeFlock
<1>12. ASSUME NEW p \in Proc, ProbeUnlock(p) PROVE LockInv'
  BY <1>12, MarkerUnchangedType DEF ProbeUnlock
<1>13. ASSUME NEW p \in Proc, ProbeRefused(p) \/ ProbeReadInfo(p) PROVE LockInv'
  BY <1>13, MarkerUnchangedType DEF ProbeRefused, ProbeReadInfo
<1>14. ASSUME NEW p \in Proc, MarkerOpen(p) PROVE LockInv'
  BY <1>14, MarkerOpenType DEF MarkerOpen
<1>15. ASSUME NEW p \in Proc, MarkerFlush(p) PROVE LockInv'
  BY <1>15, MarkerFlushType DEF MarkerFlush
<1>16. ASSUME NEW p \in Proc, MarkerReplace(p) PROVE LockInv'
  BY <1>16, MarkerReplaceType DEF MarkerReplace
<1>17. ASSUME NEW p \in Proc, MarkerClear(p) PROVE LockInv'
  BY <1>17, MarkerUnlinkType DEF MarkerClear
<1>18. ASSUME NEW p \in Proc, Demote(p) PROVE LockInv'
  BY <1>18, <1>7 DEF Demote
<1>19. ASSUME NEW p \in Proc, Die(p) PROVE LockInv'
  BY <1>19, MarkerDropType DEF Die
<1>20. CASE UNCHANGED vars
  BY <1>20, MarkerUnchangedType DEF vars, markVars
<1>21. QED
  BY <1>1, <1>2, <1>3, <1>4, <1>5, <1>6, <1>7, <1>8, <1>9, <1>10, <1>11,
     <1>12, <1>13, <1>14, <1>15, <1>16, <1>17, <1>18, <1>19, <1>20
     DEF Next, CallBegin, CallStep

LEMMA LockInvInit == Init => LockInv
<1> SUFFICES ASSUME Init PROVE LockInv
  OBVIOUS
<1>1. NoReply \in Reply
  BY DEF NoReply, Reply
<1>2. Marker!FileTypeOK
  BY DEF Init, Marker!FileInit, Marker!FileTypeOK, Marker!OnDisk, Marker!Place
<1>3. TypeOK
  BY <1>1, <1>2 DEF Init, TypeOK, Place
<1>4. HeldExactly /\ OneHolder /\ StagedIsOwn /\ PublishedIsOwn
  BY DEF Init, HeldExactly, OneHolder, StagedIsOwn, PublishedIsOwn, Holding
<1>5. QED
  BY <1>3, <1>4 DEF LockInv

(* The invariant that carries the rest: the flock is held by exactly one   *)
(* process at most, and only at the four places of the code that hold it.  *)
THEOREM LockInvariant == Spec => []LockInv
BY LockInvInit, LockInvStep, PTL DEF Spec

(* Every variable of the lock keeps its type. *)
THEOREM TypeCorrect == Spec => []TypeOK
<1>1. LockInv => TypeOK
  BY DEF LockInv
<1>2. QED
  BY <1>1, LockInvariant, PTL

(* One acting session per identity, for any number of processes that       *)
(* acquire, release, probe, preempt and die in any order.                  *)
THEOREM OneActingSession == Spec => []MutualExclusion
<1>1. LockInv => MutualExclusion
  BY DEF LockInv, HeldExactly, OneHolder, Holding, MutualExclusion, Acting
<1>2. QED
  BY <1>1, LockInvariant, PTL

(* While a process acts, .info names it or is missing. *)
THEOREM SidecarNeverForeign == Spec => []InfoNeverForeign
<1>1. LockInv => InfoNeverForeign
  BY DEF LockInv, PublishedIsOwn, InfoNeverForeign, Acting
<1>2. QED
  BY <1>1, LockInvariant, PTL

(* The shared temp file of .info is only ever in use by the lock's holder. *)
THEOREM SidecarStagedByHolder == Spec => []InfoStagedByHolder
<1>1. LockInv => InfoStagedByHolder
  BY DEF LockInv, TypeOK, HeldExactly, OneHolder, StagedIsOwn, Holding,
         InfoStagedByHolder
<1>2. QED
  BY <1>1, LockInvariant, PTL

(* The sidecar is true: both facts about it, as the run checks them.       *)
THEOREM SidecarAlwaysTrue == Spec => []SidecarIsTrue
<1>1. InfoNeverForeign /\ InfoStagedByHolder => SidecarIsTrue
  BY DEF SidecarIsTrue
<1>2. QED
  BY <1>1, SidecarNeverForeign, SidecarStagedByHolder, PTL

(* The lock implements the abstract identity lock: a step either starts    *)
(* one process acting when none is, or ends the turn of the one that is,   *)
(* by its own release or death, or changes nothing of who acts.            *)
LEMMA ActingStep ==
  ASSUME LockInv, [Next]_vars
  PROVE  [Abstract!Next]_Acting
<1> USE DEF LockInv, TypeOK, HeldExactly, OneHolder, Holding, Goto, Acting
<1>1. ASSUME NEW p \in Proc, AcquirePublishInfo(p) PROVE Abstract!Take(p)
  BY <1>1 DEF AcquirePublishInfo, Abstract!Take
<1>2. ASSUME NEW p \in Proc, ReleaseClose(p) PROVE Abstract!Leave(p)
  BY <1>2 DEF ReleaseClose, Abstract!Leave
<1>3. ASSUME NEW p \in Proc, Demote(p) PROVE Abstract!Leave(p)
  BY <1>3, <1>2 DEF Demote
<1>4. ASSUME NEW p \in Proc, Die(p) PROVE Abstract!Leave(p) \/ UNCHANGED Acting
  BY <1>4 DEF Die, Abstract!Leave
<1>5. ASSUME NEW p \in Proc,
             \/ AcquireOpen(p) \/ AcquireFlock(p) \/ AcquireRefused(p)
             \/ AcquireRaise(p) \/ AcquireStageInfo(p)
      PROVE  UNCHANGED Acting
  BY <1>5 DEF AcquireOpen, AcquireFlock, AcquireRefused, AcquireRaise,
              AcquireStageInfo
<1>6. ASSUME NEW p \in Proc, ReleaseUnlinkInfo(p) \/ ReleaseUnlinkPreempt(p)
      PROVE  UNCHANGED Acting
  BY <1>6 DEF ReleaseUnlinkInfo, ReleaseUnlinkPreempt
<1>7. ASSUME NEW p \in Proc,
             \/ ProbeNoFile(p) \/ ProbeOpen(p) \/ ProbeFlock(p)
             \/ ProbeUnlock(p) \/ ProbeRefused(p) \/ ProbeReadInfo(p)
      PROVE  UNCHANGED Acting
  BY <1>7 DEF ProbeNoFile, ProbeOpen, ProbeFlock, ProbeUnlock, ProbeRefused,
              ProbeReadInfo
<1>8. ASSUME NEW p \in Proc,
             MarkerOpen(p) \/ MarkerFlush(p) \/ MarkerReplace(p) \/ MarkerClear(p)
      PROVE  UNCHANGED Acting
  BY <1>8 DEF MarkerOpen, MarkerFlush, MarkerReplace, MarkerClear
<1>9. CASE UNCHANGED vars
  BY <1>9 DEF vars
<1>10. QED
  BY <1>1, <1>2, <1>3, <1>4, <1>5, <1>6, <1>7, <1>8, <1>9
     DEF Next, CallBegin, CallStep, Abstract!Next

(* Refinement: what a caller of the library can rely on is IdentityLock.   *)
THEOREM Implementation == Spec => ImplementsIdentityLock
<1>1. Init => Abstract!Init
  BY DEF Init, Abstract!Init, Acting
<1>2. LockInv /\ [Next]_vars => [Abstract!Next]_Acting
  BY ActingStep
<1>3. QED
  BY <1>1, <1>2, LockInvariant, PTL DEF Spec, Abstract!Spec, ImplementsIdentityLock
=============================================================================
