---------------------------- MODULE Credentials ----------------------------
(***************************************************************************)
(* Credentials: the dotenv stores of the program, the org and the tenant,  *)
(* the chain of sources that resolves a secret, the cascade over the       *)
(* stores (otaman_core/_secrets.py), and the inventory of connections      *)
(* that point at keys of those stores (otaman_core/connections.py).        *)
(*                                                                         *)
(* Everything reads; the one writer is upsert_dotenv_secret, which reads   *)
(* a store, replaces or appends the line of one key and puts the whole     *)
(* text back over a temp file.  Several processes may be in it, and may    *)
(* die in it.  The calls that upsert_dotenv_secret rejects (a key with "=" *)
(* or a space, a value with a newline) change nothing and are left out.    *)
(***************************************************************************)
EXTENDS Integers, Sequences, SequencesExt

CONSTANTS
  Writer, Key, Value,
  Comment,    \* the "key" of a line that is a comment or blank
  Blank,      \* no value: "KEY=" with nothing after it, and no answer
  Quoted,     \* the values with a ' at each end that nothing else quotes
  Bare,       \* [Quoted -> the value between the quotes]
  Env, Keyring,  \* [Key -> value]: the two sources that are no files
  Target,     \* the store that is written: "program", "org" or "tenant"
  Drafts,     \* what the stores may say at first
  Mixture,    \* what a text that two writers mixed up reads as
  Name, Unlisted, NoRef,  \* connections; not in the file; without secret_ref
  Malformed,  \* a connections.yaml that is refused
  Inventories,\* what the three connections.yaml may say
  MaxUpserts, \* bound of the calls
  Absent, Empty, Garbled

Line == [key : Key \union {Comment}, value : Value \union {Blank}]
Content == Seq(Line)
CREDENTIAL_LAYERS == <<"program", "org", "tenant">>  \* nearest first
Layer == {"program", "org", "tenant"}
Path == Layer \union {"legacy"}                      \* legacy: .maestro
ConnFile == [Name -> Key \union {Unlisted, NoRef}] \union {Malformed, Absent}

ASSUME CredentialAssumption ==
  /\ Comment \notin Key /\ Blank \notin Value
  /\ Quoted \subseteq Value /\ Bare \in [Quoted -> Value \ Quoted]
  /\ {Env, Keyring} \subseteq [Key -> Value \union {Blank}]
  /\ Target \in Layer /\ Mixture \in Content
  /\ Drafts \subseteq [Path -> Content \union {Absent}]
  /\ Inventories \subseteq [Layer -> ConnFile]
  /\ Key \intersect {Unlisted, NoRef} = {} /\ Unlisted # NoRef
  /\ {Malformed, Absent} \intersect [Name -> Key \union {Unlisted, NoRef}] = {}
  /\ {Absent, Empty, Garbled} \intersect Content = {}
  /\ MaxUpserts \in Nat

VARIABLES
  live, tmp, at,  \* the target store, its .tmp, the writers' inodes
  others,    \* [Path -> the other stores]
  org,       \* the org: "named" by the caller, "found" from the path, "none"
  inventory, \* [Layer -> its connections.yaml]
  pc, job, view,  \* [Writer -> where it is, what it was asked, what it read]
  calls,
  kept,      \* history variable: [Key -> what the last call has stored]
  overlapped,\* history variable: have two calls been open together
  unread     \* history variable: has a read of the store failed in a call

fileVars == <<live, tmp, at>>
worldVars == <<others, org, inventory>>
vars == <<fileVars, worldVars, pc, job, view, calls, kept, overlapped, unread>>

File == INSTANCE TempReplace

NoJob == [key |-> Comment, value |-> Blank]

Init ==
  /\ \E draft \in Drafts : others = draft /\ File!FileInit(draft[Target])
  /\ org \in {"named", "found", "none"}
  /\ inventory \in Inventories
  /\ pc = [w \in Writer |-> "idle"]
  /\ job = [w \in Writer |-> NoJob]
  /\ view = [w \in Writer |-> <<>>]
  /\ calls = 0
  /\ kept = [k \in Key |-> Blank]
  /\ overlapped = FALSE /\ unread = FALSE

----------------------------------------------------------------------------
(* Reading a store *)

Lines(f) == IF f \in Content THEN f ELSE IF f = Garbled THEN Mixture ELSE <<>>

(* _read_dotenv_value: the first line of the key decides. *)
ValueIn(lines, k) ==
  LET i == SelectInSeq(lines, LAMBDA l : l.key = k)
  IN  IF i = 0 THEN Blank ELSE lines[i].value

FirstValue(f, k) == ValueIn(Lines(f), k)

DotenvKeys(f) == {Lines(f)[i].key : i \in DOMAIN Lines(f)} \ {Comment}

Stored(p) == IF p = Target THEN live ELSE others[p]

(* The store of a layer; the program's has a legacy place, which is looked *)
(* at while the new one is not there.                                      *)
StoreOf(layer) ==
  IF layer = "program" /\ Stored("program") = Absent THEN Stored("legacy") ELSE Stored(layer)

(* credential_layer_paths: the layers that apply, nearest first *)
Applicable == IF org = "none" THEN <<"program", "tenant">> ELSE CREDENTIAL_LAYERS

FirstNonBlank(values) ==
  LET i == SelectInSeq(values, LAMBDA v : v # Blank)
  IN  IF i = 0 THEN Blank ELSE values[i]

ResolveCascade(k) ==
  FirstNonBlank([i \in DOMAIN Applicable |-> FirstValue(StoreOf(Applicable[i]), k)])

(* credential_provenance: farthest first, so that a nearer layer overwrites *)
Overwrite(won, layer, k) ==
  IF layer \in Range(Applicable) /\ k \in DotenvKeys(StoreOf(layer)) THEN layer ELSE won

SlipNearestFirst(k) ==
  Overwrite(Overwrite(Overwrite("none", "program", k), "org", k), "tenant", k)
Provenance(k) ==
  Overwrite(Overwrite(Overwrite("none", "tenant", k), "org", k), "program", k)

ListKeys == UNION {DotenvKeys(StoreOf(Applicable[i])) : i \in DOMAIN Applicable}

(* DotenvSource: of the org it knows what the caller names *)
SourceValue(source, k) ==
  CASE source = "env" -> Env[k]
    [] source = "keyring" -> Keyring[k]
    [] source = "org" -> IF org = "named" THEN FirstValue(StoreOf("org"), k) ELSE Blank
    [] OTHER -> FirstValue(StoreOf(source), k)

(* resolve: the first source of the chain that has a value *)
ResolveRef(sources, k) ==
  FirstNonBlank([i \in DOMAIN sources |-> SourceValue(sources[i], k)])

----------------------------------------------------------------------------
(* connections.yaml *)

(* resolve: per name, the nearest file that lists it; a malformed one is   *)
(* refused with an error for all.                                          *)
RefOf(name) ==
  LET listing == [i \in DOMAIN Applicable |->
                    LET f == inventory[Applicable[i]]
                    IN  IF f = Absent THEN Unlisted ELSE f[name]]
      i == SelectInSeq(listing, LAMBDA r : r # Unlisted)
  IN  IF i = 0 THEN Unlisted ELSE listing[i]

Resolvable == \A i \in DOMAIN Applicable : inventory[Applicable[i]] # Malformed

MissingSecretRefs ==
  {n \in Name : RefOf(n) \notin ListKeys \union {Unlisted, NoRef}}

----------------------------------------------------------------------------
(* upsert_dotenv_secret *)

InCall(w) == pc[w] # "idle"

(* What the reader makes of the line that _render_dotenv_value wrote *)
Rendered(v) == IF v \in Quoted THEN Bare[v] ELSE v

SlipAppendOnly(lines, k, v) == Append(lines, [key |-> k, value |-> Rendered(v)])
Upserted(lines, k, v) ==
  LET new == [key |-> k, value |-> Rendered(v)]
  IN  IF \E i \in DOMAIN lines : lines[i].key = k
      THEN [i \in DOMAIN lines |-> IF lines[i].key = k THEN new ELSE lines[i]]
      ELSE Append(lines, new)

(* A store that is there and cannot be read counts as empty. *)
ReadStore(w, k, v) ==
  /\ pc[w] = "idle" /\ calls < MaxUpserts
  /\ pc' = [pc EXCEPT ![w] = "read"]
  /\ calls' = calls + 1
  /\ job' = [job EXCEPT ![w] = [key |-> k, value |-> v]]
  /\ \/ view' = [view EXCEPT ![w] = Lines(live)] /\ UNCHANGED unread
     \/ live # Absent /\ view' = [view EXCEPT ![w] = <<>>] /\ unread' = TRUE
  /\ overlapped' = (overlapped \/ \E x \in Writer \ {w} : InCall(x))
  /\ UNCHANGED <<fileVars, worldVars, kept>>

(* tmp.write_text: open, then write *)
OpenTmp(w) ==
  /\ pc[w] = "read"
  /\ pc' = [pc EXCEPT ![w] = "opened"]
  /\ File!OpenTmp(w)
  /\ UNCHANGED <<worldVars, job, view, calls, kept, overlapped, unread>>

WriteTmp(w) ==
  /\ pc[w] = "opened"
  /\ pc' = [pc EXCEPT ![w] = "written"]
  /\ File!FlushTmp(w, Upserted(view[w], job[w].key, job[w].value))
  /\ UNCHANGED <<worldVars, job, view, calls, kept, overlapped, unread>>

Leave(w) ==
  /\ pc' = [pc EXCEPT ![w] = "idle"]
  /\ job' = [job EXCEPT ![w] = NoJob]
  /\ view' = [view EXCEPT ![w] = <<>>]

(* os.replace, the end of the call *)
ReplaceStore(w) ==
  /\ pc[w] = "written"
  /\ \/ File!ReplaceLive /\ kept' = [kept EXCEPT ![job[w].key] = job[w].value]
     \/ File!ReplaceMissing /\ UNCHANGED kept
  /\ Leave(w)
  /\ UNCHANGED <<worldVars, calls, overlapped, unread>>

(* The process dies; another one may call. *)
Die(w) ==
  /\ InCall(w)
  /\ File!DropFd(w)
  /\ Leave(w)
  /\ UNCHANGED <<worldVars, calls, kept, overlapped, unread>>

Next ==
  \E w \in Writer :
    \/ \E k \in Key, v \in Value : ReadStore(w, k, v)
    \/ OpenTmp(w) \/ WriteTmp(w) \/ ReplaceStore(w)
    \/ Die(w)

Spec == Init /\ [][Next]_vars

----------------------------------------------------------------------------

TypeOK ==
  /\ File!FileTypeOK
  /\ others \in [Path -> Content \union {Absent}]
  /\ org \in {"named", "found", "none"} /\ inventory \in Inventories
  /\ pc \in [Writer -> {"idle", "read", "opened", "written"}]
  /\ job \in [Writer -> Line] /\ view \in [Writer -> Content]
  /\ \A w \in Writer : pc[w] = "idle" => job[w] = NoJob /\ at[w] = "closed"
  /\ calls \in 0..MaxUpserts
  /\ kept \in [Key -> Value \union {Blank}]
  /\ overlapped \in BOOLEAN /\ unread \in BOOLEAN

(* upsert_dotenv_secret (lines 424-470), "the sole, format-owning writer": *)
(* as long as calls do not overlap and reads do not fail, each key that    *)
(* was stored is read back from the store as the last call stored it,      *)
(* whatever lines of the key the file had and wherever a writer died (a    *)
(* value in single quotes, which comes back without them, excepted).       *)
UpsertIsRead ==
  ~overlapped =>
    \A k \in Key :
      kept[k] \notin Quoted \union {Blank} /\ ~unread => FirstValue(live, k) = kept[k]

(* "Preserving every other key, comment, and blank line": under the same   *)
(* conditions the lines no call was about stand as they stood at first, at *)
(* their places, and no other such line is there.                          *)
OthersPreserved ==
  LET first == Lines(others[Target])
      now == Lines(live)
      Untouched(l) == l.key = Comment \/ kept[l.key] = Blank
  IN  ~overlapped /\ ~unread =>
        /\ \A i \in DOMAIN first : Untouched(first[i]) => i \in DOMAIN now /\ now[i] = first[i]
        /\ \A i \in DOMAIN now : Untouched(now[i]) => i \in DOMAIN first /\ now[i] = first[i]

(* credential_provenance against resolve_cascade (lines 319-365): the layer*)
(* named for a key is the one the value comes from, or a nearer one that   *)
(* has the key with no value; and no value is of a key without provenance. *)
ProvenanceNamesSource ==
  \A k \in Key :
    LET won == Provenance(k)
        value == ResolveCascade(k)
    IN  /\ value # Blank => won # "none"
        /\ won # "none" =>
             LET here == FirstValue(StoreOf(won), k)
             IN  here \in {value, Blank}

(* missing_secret_refs (connections.py lines 162-175) over list_keys: a    *)
(* connection that is listed as missing its secret has none in any store   *)
(* the cascade reads.                                                      *)
MissingNeverResolves ==
  Resolvable => \A n \in MissingSecretRefs : ResolveCascade(RefOf(n)) = Blank

(* "These are the same three layers resolve_cascade merges" (DotenvSource):*)
(* a chain of the three scopes gives what the cascade gives, as long as    *)
(* the caller names the org or there is none.                              *)
ChainIsCascade ==
  org # "found" => \A k \in Key : ResolveRef(CREDENTIAL_LAYERS, k) = ResolveCascade(k)

(* upsert_dotenv_secret changes the lines of its key and nothing else, and *)
(* what it stored is what a read finds.                                    *)
UpsertIsLocal == TypeOK /\ UpsertIsRead /\ OthersPreserved

(* The four readers of the cascade (resolve_cascade, credential_provenance,*)
(* list_keys and a chain of sources) tell the same of every key.           *)
WalksAgree == ProvenanceNamesSource /\ MissingNeverResolves /\ ChainIsCascade
=============================================================================
