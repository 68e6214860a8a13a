----------------------------- MODULE TempReplace -----------------------------
(***************************************************************************)
(* The "write a temp file, then os.replace it over the live one" idiom     *)
(* that the package repeats wherever it saves a small file: acting_lock    *)
(* (_write_json), lifecycle (_write_registry), spec_lifecycle              *)
(* (_rewrite_yaml_key), connection_check (persist_reports) and _secrets    *)
(* (upsert_dotenv_secret).  All of them name the temp file after the live  *)
(* one (<file>.tmp), so two writers of one file share it.                  *)
(*                                                                         *)
(* A path names an inode.  A writer that has opened the temp file keeps    *)
(* writing to the inode it opened, wherever a rename has moved it since:   *)
(* at[w] says which path that inode has now.                               *)
(***************************************************************************)

CONSTANTS
  Writer,   \* processes that write the file
  Content,  \* what a whole file can say
  Absent,   \* no file at the path (the three marks are no Content)
  Empty,    \* a file just truncated by open(..., "w")
  Garbled   \* a file two writers have written over each other

VARIABLES
  live,     \* what the live path holds
  tmp,      \* what the temp path holds
  at        \* [Writer -> Place]: where the inode each writer has open is now

fileVars == <<live, tmp, at>>

Place == {"closed", "tmp", "live", "lost"}

OnDisk == Content \cup {Absent, Empty, Garbled}

FileTypeOK ==
  /\ live \in OnDisk
  /\ tmp \in OnDisk
  /\ at \in [Writer -> Place]

FileInit(c) ==
  /\ live = c
  /\ tmp = Absent
  /\ at = [w \in Writer |-> "closed"]

(* A reader gets the content only when the file is whole. *)
Readable(f) == f \in Content

(* open(tmp, "w"): create or truncate.  A second opener truncates the very *)
(* inode the first one is still writing.                                   *)
OpenTmp(w) ==
  /\ tmp' = Empty
  /\ at' = [at EXCEPT ![w] = "tmp"]
  /\ UNCHANGED live

(* The bytes land on the inode.  Over an inode another writer filled       *)
(* meanwhile they overlay its bytes from offset 0: a text at least as long *)
(* covers the old one, a shorter one leaves the old tail behind.           *)
Overlay(old, c) == IF old = Empty THEN {c} ELSE {c, Garbled}

FlushTmp(w, c) ==
  /\ at' = [at EXCEPT ![w] = "closed"]
  /\ \/ at[w] = "tmp" /\ tmp' \in Overlay(tmp, c) /\ UNCHANGED live
     \/ at[w] = "live" /\ live' \in Overlay(live, c) /\ UNCHANGED tmp
     \/ at[w] = "lost" /\ UNCHANGED <<live, tmp>>

(* os.replace(tmp, live), for when the temp path exists: whoever still has *)
(* the temp inode open is now writing the live file.                       *)
ReplaceLive ==
  /\ tmp # Absent
  /\ live' = tmp
  /\ tmp' = Absent
  /\ at' = [w \in Writer |->
              CASE at[w] = "tmp" -> "live"
                [] at[w] = "live" -> "lost"
                [] OTHER -> at[w]]

(* os.replace raises FileNotFoundError: another writer's replace took the  *)
(* shared temp file.                                                       *)
ReplaceMissing ==
  /\ tmp = Absent
  /\ UNCHANGED fileVars

(* unlink(live); OSError is swallowed, so an absent file is no error. *)
UnlinkLive ==
  /\ live' = Absent
  /\ at' = [w \in Writer |-> IF at[w] = "live" THEN "lost" ELSE at[w]]
  /\ UNCHANGED tmp

(* The writer's process dies: its descriptor goes, both files stay. *)
DropFd(w) ==
  /\ at' = [at EXCEPT ![w] = "closed"]
  /\ UNCHANGED <<live, tmp>>
==============================================================================
