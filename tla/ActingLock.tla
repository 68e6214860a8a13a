----------------------------- MODULE ActingLock -----------------------------
(***************************************************************************)
(* The identity lock of the acting session (otaman_core/acting_lock.py),   *)
(* for one lock key.  A process runs one library call at a time and every  *)
(* system call of it is a step, so that calls of different processes       *)
(* interleave and a process can die between any two steps.                 *)
(*                                                                         *)
(* The sessions that call the library (the cli and its launcher) are not   *)
(* in this repository.  Their part here is what the module's docstrings    *)
(* say of them: a session acquires, acts and releases; anyone probes; an   *)
(* interactive session drops the preempt marker, and a background holder   *)
(* that reads it gives the lock up.                                        *)
(***************************************************************************)

CONSTANTS
  Proc,         \* process ids, each one operating-system process
  Interactive,  \* the processes of mode "interactive"; the rest are "background"
  NoOne,        \* None: no metadata
  Empty,        \* a truncated file
  Garbled       \* a file two writers have overwritten

ASSUME ProcAssumption ==
  /\ Interactive \subseteq Proc
  /\ NoOne \notin Proc /\ Empty \notin Proc /\ Garbled \notin Proc
  /\ NoOne # Empty /\ NoOne # Garbled /\ Empty # Garbled

VARIABLES
  pc,           \* where each process is
  flock,        \* the processes whose descriptor holds LOCK_EX on the lock file
  lockFile,     \* does the lock file exist
  info,         \* the pid in <lock>.info, or NoOne
  infoTmp,      \* the pid in <lock>.info.tmp, or NoOne
  preempt,      \* <lock>.preempt: the preemptor's pid, or NoOne, Empty, Garbled
  preemptTmp,   \* <lock>.preempt.tmp
  preemptAt,    \* where the marker inode each process has open is
  reply         \* the last answer each process got from acquire or probe

markVars == <<preempt, preemptTmp, preemptAt>>
vars == <<pc, flock, lockFile, info, infoTmp, preempt, preemptTmp, preemptAt,
          reply>>

Marker == INSTANCE TempReplace
            WITH Writer <- Proc, Content <- Proc, Absent <- NoOne,
                 live <- preempt, tmp <- preemptTmp, at <- preemptAt

Background == Proc \ Interactive

(* acquire(): opened, refused, locked, staged, then acting.  release():    *)
(* closed, infoGone.  probe(): probing, probeTook, probeMissed.            *)
(* write_preempt_marker(): marking, marked.                                *)
Place == {"idle", "opened", "refused", "locked", "staged", "acting",
          "closed", "infoGone", "probing", "probeTook", "probeMissed",
          "marking", "marked", "dead"}

NoReply == [call |-> "none", holder |-> NoOne]
Reply == [call : {"none", "acquire", "probe"}, holder : Proc \cup {NoOne}]

Goto(p, from, to) ==
  /\ pc[p] = from
  /\ pc' = [pc EXCEPT ![p] = to]

Answer(p, call, holder) ==
  reply' = [reply EXCEPT ![p] = [call |-> call, holder |-> holder]]

Init ==
  /\ pc = [p \in Proc |-> "idle"]
  /\ flock = {}
  /\ lockFile = FALSE
  /\ info = NoOne /\ infoTmp = NoOne
  /\ Marker!FileInit(NoOne)
  /\ reply = [p \in Proc |-> NoReply]

----------------------------------------------------------------------------
(* acquire *)

(* Operators named Slip... are plausible mistakes: the runs show that the   *)
(* property each one is paired with would notice it.                       *)

(* os.open(path, O_RDWR | O_CREAT) *)
AcquireOpen(p) ==
  /\ Goto(p, "idle", "opened")
  /\ lockFile' = TRUE
  /\ reply' = [reply EXCEPT ![p] = NoReply]
  /\ UNCHANGED <<flock, info, infoTmp, markVars>>

(* flock(LOCK_EX | LOCK_NB) succeeds *)
AcquireFlock(p) ==
  /\ Goto(p, "opened", "locked")
  /\ flock = {}
  /\ flock' = {p}
  /\ UNCHANGED <<lockFile, info, infoTmp, markVars, reply>>

(* LOCK_NB forgotten: the call sleeps while the lock is held *)
SlipBlock(p) ==
  /\ pc[p] = "opened"
  /\ flock # {}
  /\ UNCHANGED vars

(* preempting by force: a refused interactive session takes over at once *)
SlipPreemptByForce(p) ==
  /\ p \in Interactive /\ pc[p] = "opened"
  /\ \E q \in Background :
       /\ pc[q] = "acting"
       /\ pc' = [pc EXCEPT ![p] = "acting", ![q] = "idle"]
  /\ flock' = {p} /\ info' = p
  /\ UNCHANGED <<lockFile, infoTmp, markVars, reply>>

(* ... or fails at once, and the descriptor is closed *)
AcquireRefused(p) ==
  /\ Goto(p, "opened", "refused")
  /\ flock # {}
  /\ UNCHANGED <<flock, lockFile, info, infoTmp, markVars, reply>>

(* raise ActingLockHeld(key, holder=_read_json(.info)) *)
AcquireRaise(p) ==
  /\ Goto(p, "refused", "idle")
  /\ Answer(p, "acquire", info)
  /\ UNCHANGED <<flock, lockFile, info, infoTmp, markVars>>

(* _write_json: the temp file is created and filled.  Only the holder of   *)
(* the flock gets here (InfoStagedByHolder), so one step is enough.        *)
AcquireStageInfo(p) ==
  /\ Goto(p, "locked", "staged")
  /\ infoTmp' = p
  /\ UNCHANGED <<flock, lockFile, info, markVars, reply>>

(* leaving a sidecar that is already there *)
SlipKeepOldInfo(p) ==
  /\ Goto(p, "staged", "acting")
  /\ info' = IF info = NoOne THEN infoTmp ELSE info
  /\ infoTmp' = NoOne
  /\ UNCHANGED <<flock, lockFile, markVars, reply>>

(* closing the descriptor when the call returns *)
SlipCloseOnReturn(p) ==
  /\ Goto(p, "staged", "acting")
  /\ flock' = flock \ {p}
  /\ info' = infoTmp
  /\ infoTmp' = NoOne
  /\ UNCHANGED <<lockFile, markVars, reply>>

(* os.replace(tmp, .info), and acquire() returns the lock *)
AcquirePublishInfo(p) ==
  /\ Goto(p, "staged", "acting")
  /\ info' = infoTmp
  /\ infoTmp' = NoOne
  /\ UNCHANGED <<flock, lockFile, markVars, reply>>

----------------------------------------------------------------------------
(* release *)

(* os.close(fd): the kernel frees the flock *)
ReleaseClose(p) ==
  /\ Goto(p, "acting", "closed")
  /\ flock' = flock \ {p}
  /\ UNCHANGED <<lockFile, info, infoTmp, markVars, reply>>

ReleaseUnlinkInfo(p) ==
  /\ Goto(p, "closed", "infoGone")
  /\ info' = NoOne
  /\ UNCHANGED <<flock, lockFile, infoTmp, markVars, reply>>

ReleaseUnlinkPreempt(p) ==
  /\ Goto(p, "infoGone", "idle")
  /\ Marker!UnlinkLive
  /\ UNCHANGED <<flock, lockFile, info, infoTmp, reply>>

----------------------------------------------------------------------------
(* probe *)

(* path.exists() is false: None *)
ProbeNoFile(p) ==
  /\ pc[p] = "idle"
  /\ ~lockFile
  /\ Answer(p, "probe", NoOne)
  /\ UNCHANGED <<pc, flock, lockFile, info, infoTmp, markVars>>

ProbeOpen(p) ==
  /\ Goto(p, "idle", "probing")
  /\ lockFile
  /\ reply' = [reply EXCEPT ![p] = NoReply]
  /\ UNCHANGED <<flock, lockFile, info, infoTmp, markVars>>

(* the non-blocking attempt succeeds: for a moment the probe holds the lock *)
ProbeFlock(p) ==
  /\ Goto(p, "probing", "probeTook")
  /\ flock = {}
  /\ flock' = {p}
  /\ UNCHANGED <<lockFile, info, infoTmp, markVars, reply>>

(* flock(LOCK_UN); return None *)
ProbeUnlock(p) ==
  /\ Goto(p, "probeTook", "idle")
  /\ flock' = flock \ {p}
  /\ Answer(p, "probe", NoOne)
  /\ UNCHANGED <<lockFile, info, infoTmp, markVars>>

ProbeRefused(p) ==
  /\ Goto(p, "probing", "probeMissed")
  /\ flock # {}
  /\ UNCHANGED <<flock, lockFile, info, infoTmp, markVars, reply>>

(* return _read_json(.info) *)
ProbeReadInfo(p) ==
  /\ Goto(p, "probeMissed", "idle")
  /\ Answer(p, "probe", info)
  /\ UNCHANGED <<flock, lockFile, info, infoTmp, markVars>>

----------------------------------------------------------------------------
(* The cooperative handoff *)

(* write_preempt_marker by an interactive session that was refused *)
MarkerOpen(p) ==
  /\ p \in Interactive
  /\ reply[p].call = "acquire"
  /\ Goto(p, "idle", "marking")
  /\ Marker!OpenTmp(p)
  /\ UNCHANGED <<flock, lockFile, info, infoTmp, reply>>

MarkerFlush(p) ==
  /\ Goto(p, "marking", "marked")
  /\ Marker!FlushTmp(p, p)
  /\ UNCHANGED <<flock, lockFile, info, infoTmp, reply>>

(* os.replace, or the FileNotFoundError it raises to the preemptor *)
MarkerReplace(p) ==
  /\ Goto(p, "marked", "idle")
  /\ Marker!ReplaceLive \/ Marker!ReplaceMissing
  /\ UNCHANGED <<flock, lockFile, info, infoTmp, reply>>

(* clear_preempt_marker by the interactive session that took over *)
MarkerClear(p) ==
  /\ p \in Interactive
  /\ pc[p] = "acting"
  /\ preempt # NoOne
  /\ Marker!UnlinkLive
  /\ UNCHANGED <<pc, flock, lockFile, info, infoTmp, reply>>

(* A background holder polls read_preempt_marker; None unless the file is  *)
(* whole.  It stops acting and begins release().                           *)
Demote(p) ==
  /\ p \in Background
  /\ Marker!Readable(preempt)
  /\ ReleaseClose(p)

(* kill -9, or exit without release(): the kernel closes every descriptor  *)
Die(p) ==
  /\ pc[p] # "dead"
  /\ pc' = [pc EXCEPT ![p] = "dead"]
  /\ flock' = flock \ {p}
  /\ Marker!DropFd(p)
  /\ reply' = [reply EXCEPT ![p] = NoReply]
  /\ UNCHANGED <<lockFile, info, infoTmp>>

----------------------------------------------------------------------------

(* The steps of a call that has begun *)
CallStep(p) ==
  \/ AcquireFlock(p) \/ AcquireRefused(p) \/ AcquireRaise(p)
  \/ AcquireStageInfo(p) \/ AcquirePublishInfo(p)
  \/ ReleaseUnlinkInfo(p) \/ ReleaseUnlinkPreempt(p)
  \/ ProbeFlock(p) \/ ProbeUnlock(p) \/ ProbeRefused(p) \/ ProbeReadInfo(p)
  \/ MarkerFlush(p) \/ MarkerReplace(p)

(* The calls a session chooses to make *)
CallBegin(p) ==
  \/ AcquireOpen(p) \/ ReleaseClose(p) \/ ProbeNoFile(p) \/ ProbeOpen(p)
  \/ MarkerOpen(p) \/ MarkerClear(p)

Next == \E p \in Proc : CallBegin(p) \/ CallStep(p) \/ Demote(p) \/ Die(p)

Spec == Init /\ [][Next]_vars

(* A live process gets on with the call it is in, and a background holder  *)
(* keeps polling the marker.  Nobody is obliged to begin a call.           *)
FairSpec ==
  /\ Spec
  /\ \A p \in Proc : WF_vars(CallStep(p)) /\ WF_vars(Demote(p))

----------------------------------------------------------------------------
(* Properties *)

TypeOK ==
  /\ pc \in [Proc -> Place]
  /\ flock \in SUBSET Proc
  /\ lockFile \in BOOLEAN
  /\ info \in Proc \cup {NoOne}
  /\ infoTmp \in Proc \cup {NoOne}
  /\ Marker!FileTypeOK
  /\ reply \in [Proc -> Reply]

Acting == {p \in Proc : pc[p] = "acting"}
Dead == {p \in Proc : pc[p] = "dead"}

(* "One acting session per resolved agent identity" (lines 3-6): whatever  *)
(* the interleaving of acquire, release, probe and kill -9, two processes  *)
(* never both hold a lock that acquire returned.                           *)
MutualExclusion == \A p, q \in Acting : p = q

(* acquire returns only after its own .info is in place, and nobody else   *)
(* writes one while the flock is held: under a live holder the sidecar     *)
(* names that holder or is missing, never a crashed predecessor and never  *)
(* a loser of the race (lines 181-222).                                    *)
InfoNeverForeign == \A p \in Acting : info \in {p, NoOne}

(* The temp file of .info is shared by every acquirer; only the holder of  *)
(* the flock may be between writing it and replacing it, so that what it   *)
(* publishes is what it wrote (lines 125-129, 207-221).                    *)
InfoStagedByHolder ==
  \A p \in Proc : pc[p] = "staged" => infoTmp = p /\ flock = {p}

(* The sidecar .info, whichever process was in the way of its writing,     *)
(* names the process that acts, and what is published was staged under the *)
(* lock.                                                                   *)
SidecarIsTrue == InfoNeverForeign /\ InfoStagedByHolder

(* acquire and probe never wait for the holder (LOCK_NB): every call that  *)
(* began returns or its process dies, however long the lock stays held.    *)
EveryCallReturns ==
  \A p \in Proc :
    pc[p] \notin {"idle", "acting", "dead"} ~> pc[p] \in {"idle", "acting", "dead"}

(* The lock implements the abstract one: acquire succeeds only when nobody *)
(* acts, and only the actor's own release or death ends its turn.          *)
Abstract == INSTANCE IdentityLock WITH actors <- Acting
ImplementsIdentityLock == Abstract!Spec
=============================================================================
