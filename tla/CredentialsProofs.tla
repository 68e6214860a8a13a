-------------------------- MODULE CredentialsProofs --------------------------
(***************************************************************************)
(* For any writers, keys, values, stores and files of connections: the     *)
(* module is type correct, an upsert changes the lines of its key and      *)
(* nothing else and is read back, and the four readers of the cascade      *)
(* agree.                                                                  *)
(*                                                                         *)
(* That an upsert is local is not inductive: a call replaces the store by  *)
(* a text made some steps earlier.  Serial follows the one open call: what *)
(* it has read is what the store says, and the temp file is its own and    *)
(* says that with one key changed.  UpsertedLines and UpsertedReads tell   *)
(* what such a change does to a text, over the least place of each key.    *)
(***************************************************************************)
EXTENDS Credentials, WellFoundedInduction, TLAPS

(* The least of a set of numbers is one of them, and below the others.     *)
LEMMA LeastByRelation ==
  ASSUME NEW R, \A y, z \in Nat : y < z => <<y, z>> \in R,
         NEW set \in SUBSET Nat, NEW x \in set, \A y \in set : ~(<<y, x>> \in R)
  PROVE  Min(set) \in set /\ \A y \in set : Min(set) =< y
<1>1. \A y \in set : x =< y
  <2>1. TAKE y \in set
  <2>2. x \in Nat /\ y \in Nat /\ ~(y < x)
    OBVIOUS
  <2> QED
    BY ONLY <2>2
<1> QED
  BY <1>1 DEF Min

LEMMA LeastIsIn ==
  ASSUME NEW set \in SUBSET Nat, set # {}
  PROVE  Min(set) \in set /\ \A y \in set : Min(set) =< y
<1>1. \E x \in set : \A y \in set : ~(<<y, x>> \in OpToRel(<, Nat))
  BY NatLessThanWellFounded, WFMin
<1>2. \A y, z \in Nat : y < z => <<y, z>> \in OpToRel(<, Nat)
  BY DEF OpToRel
<1> QED
  BY <1>1, <1>2, LeastByRelation, Zenon

----------------------------------------------------------------------------
(* Lines *)

(* The places of a key in a text *)
Seen(lines, k) == {i \in DOMAIN lines : lines[i].key = k}

(* The first value of a key is on the least of its places. *)
LEMMA FirstIsLeast ==
  ASSUME NEW lines \in Content, NEW k
  PROVE  /\ Seen(lines, k) = {} => ValueIn(lines, k) = Blank
         /\ Seen(lines, k) # {} =>
              /\ Min(Seen(lines, k)) \in Seen(lines, k)
              /\ ValueIn(lines, k) = lines[Min(Seen(lines, k))].value
<1> DEFINE least == Min(Seen(lines, k))
           place == SelectInSeq(lines, LAMBDA l : l.key = k)
<1>1. DOMAIN lines = 1..Len(lines) /\ Len(lines) \in Nat
  BY DEF Content
<1>2. place = IF Seen(lines, k) # {} THEN least ELSE 0
  BY <1>1 DEF SelectInSeq, Seen
<1>3. Seen(lines, k) \in SUBSET Nat
  BY <1>1 DEF Seen
<1>4. Seen(lines, k) # {} => least \in Seen(lines, k)
  BY <1>3, LeastIsIn
<1>5. 0 \notin Seen(lines, k)
  BY <1>1 DEF Seen
<1>6. ValueIn(lines, k) = IF place = 0 THEN Blank ELSE lines[place].value
  BY DEF ValueIn
<1> HIDE DEF least, place
<1>7. Seen(lines, k) # {} => place = least /\ place # 0
  BY <1>2, <1>4, <1>5
<1>8. Seen(lines, k) = {} => place = 0
  BY <1>2
<1> QED
  BY <1>4, <1>6, <1>7, <1>8 DEF least

LEMMA LinesType ==
  ASSUME NEW f
  PROVE  Lines(f) \in Content
<1>1. <<>> \in Content
  BY DEF Content
<1> QED
  BY <1>1, CredentialAssumption DEF Lines

LEMMA RenderedType ==
  ASSUME NEW v \in Value
  PROVE  /\ Rendered(v) \in Value
         /\ v \notin Quoted => Rendered(v) = v
BY CredentialAssumption DEF Rendered

(* An upsert is of its key's lines only. *)
LEMMA UpsertedLines ==
  ASSUME NEW lines \in Content, NEW k \in Key, NEW v \in Value
  PROVE  LET text == Upserted(lines, k, v)
         IN  /\ text \in Content
             /\ Seen(text, k) # {}
             /\ \A i \in Seen(text, k) : text[i].value = Rendered(v)
             /\ \A i \in DOMAIN lines :
                  i \in DOMAIN text /\ (lines[i].key # k => text[i] = lines[i])
             /\ \A i \in DOMAIN text :
                  text[i].key # k => i \in DOMAIN lines /\ text[i] = lines[i]
<1> DEFINE new == [key |-> k, value |-> Rendered(v)]
           text == Upserted(lines, k, v)
<1>1. new \in Line /\ new.key = k /\ new.value = Rendered(v)
  BY RenderedType DEF Line
<1> HIDE DEF new
<1>2. /\ DOMAIN lines = 1..Len(lines) /\ Len(lines) \in Nat
      /\ \A i \in DOMAIN lines : lines[i] \in Line
  BY DEF Content
<1>3. CASE \E i \in DOMAIN lines : lines[i].key = k
  <2>1. text = [i \in DOMAIN lines |-> IF lines[i].key = k THEN new ELSE lines[i]]
    BY <1>3 DEF Upserted, new
  <2>2. text \in Content
    <3>1. text \in [1..Len(lines) -> Line]
      BY <1>1, <1>2, <2>1
    <3> QED
      BY <1>2, <3>1 DEF Content
  <2> HIDE DEF text
  <2> QED
    BY <1>1, <1>3, <2>1, <2>2 DEF Seen, text
<1>4. CASE ~\E i \in DOMAIN lines : lines[i].key = k
  <2>1. text = Append(lines, new)
    BY <1>4 DEF Upserted, new
  <2>2. /\ text \in Content
        /\ DOMAIN text = DOMAIN lines \union {Len(lines) + 1}
        /\ text[Len(lines) + 1] = new
        /\ \A i \in DOMAIN lines : text[i] = lines[i]
    BY <1>1, <1>2, <2>1 DEF Content
  <2> HIDE DEF text
  <2>3. Seen(text, k) = {Len(lines) + 1}
    BY <1>1, <1>4, <2>2 DEF Seen
  <2> QED
    BY <1>1, <1>4, <2>2, <2>3 DEF text
<1> QED
  BY <1>3, <1>4

(* What was stored is read, and every other key reads as before. *)
LEMMA UpsertedReads ==
  ASSUME NEW lines \in Content, NEW k \in Key, NEW v \in Value
  PROVE  /\ ValueIn(Upserted(lines, k, v), k) = Rendered(v)
         /\ \A other : other # k => ValueIn(Upserted(lines, k, v), other) = ValueIn(lines, other)
<1> DEFINE text == Upserted(lines, k, v)
<1>1. /\ text \in Content
      /\ Seen(text, k) # {}
      /\ \A i \in Seen(text, k) : text[i].value = Rendered(v)
      /\ \A i \in DOMAIN lines : i \in DOMAIN text /\ (lines[i].key # k => text[i] = lines[i])
      /\ \A i \in DOMAIN text : text[i].key # k => i \in DOMAIN lines /\ text[i] = lines[i]
  BY UpsertedLines
<1> HIDE DEF text
<1>2. ValueIn(text, k) = Rendered(v)
  BY <1>1, FirstIsLeast
<1>3. ASSUME NEW other, other # k
      PROVE  ValueIn(text, other) = ValueIn(lines, other)
  <2>1. Seen(text, other) = Seen(lines, other)
    BY <1>1, <1>3 DEF Seen
  <2>2. \A i \in Seen(lines, other) : text[i] = lines[i]
    BY <1>1, <1>3 DEF Seen
  <2> QED
    BY <1>1, <2>1, <2>2, FirstIsLeast
<1> QED
  BY <1>2, <1>3 DEF text

----------------------------------------------------------------------------
(* The invariant *)

(* A call knows what it stores, and only an opened temp file is held open. *)
Calls ==
  \A w \in Writer :
    /\ InCall(w) => job[w] \in [key : Key, value : Value]
    /\ pc[w] # "opened" => at[w] = "closed"

Alone == \A v, w \in Writer : InCall(v) /\ InCall(w) => v = w

(* A call publishes what it read of the store, one key changed. *)
OnTrack(w) ==
  /\ InCall(w) => view[w] = Lines(live)
  /\ pc[w] = "opened" => at[w] = "tmp" /\ tmp = Empty
  /\ pc[w] = "written" => tmp = Upserted(view[w], job[w].key, job[w].value)

Serial ==
  ~overlapped /\ ~unread =>
    /\ UpsertIsRead
    /\ OthersPreserved
    /\ Alone
    /\ \A w \in Writer : OnTrack(w)

CredentialInv == TypeOK /\ Calls /\ Serial

----------------------------------------------------------------------------
(* Types *)

LEMMA TypeInit == Init => TypeOK
<1> SUFFICES ASSUME Init
             PROVE  TypeOK
  OBVIOUS
<1>1. PICK draft \in Drafts : others = draft /\ File!FileInit(draft[Target])
  BY DEF Init
<1>2. draft \in [Path -> Content \union {Absent}] /\ Target \in Path
  BY CredentialAssumption DEF Path, Layer
<1>3. File!FileTypeOK
  BY <1>1, <1>2 DEF File!FileInit, File!FileTypeOK, File!OnDisk, File!Place
<1>4. at = [w \in Writer |-> "closed"]
  BY <1>1 DEF File!FileInit
<1>5. NoJob \in Line /\ <<>> \in Content
  BY DEF NoJob, Line, Content
<1>6. /\ pc \in [Writer -> {"idle", "read", "opened", "written"}]
      /\ job \in [Writer -> Line] /\ view \in [Writer -> Content]
      /\ \A w \in Writer : pc[w] = "idle" => job[w] = NoJob /\ at[w] = "closed"
  BY <1>4, <1>5 DEF Init
<1>7. calls \in 0..MaxUpserts
  BY CredentialAssumption DEF Init
<1>8. kept \in [Key -> Value \union {Blank}] /\ overlapped \in BOOLEAN /\ unread \in BOOLEAN
  BY DEF Init
<1>9. org \in {"named", "found", "none"} /\ inventory \in Inventories
  BY DEF Init
<1> QED
  BY <1>1, <1>2, <1>3, <1>6, <1>7, <1>8, <1>9 DEF TypeOK

LEMMA FileSteps ==
  ASSUME TypeOK, NEW w \in Writer, NEW text \in Content,
         \/ File!OpenTmp(w) \/ File!FlushTmp(w, text) \/ File!ReplaceLive
         \/ File!ReplaceMissing \/ File!DropFd(w)
  PROVE  File!FileTypeOK'
<1> USE DEF File!FileTypeOK, File!OnDisk, File!Place
<1>1. CASE File!OpenTmp(w)
  BY <1>1 DEF TypeOK, File!OpenTmp
<1>2. CASE File!FlushTmp(w, text)
  <2>1. \A f : File!Overlay(f, text) \subseteq File!OnDisk
    BY DEF File!Overlay
  <2> QED
    BY <1>2, <2>1 DEF TypeOK, File!FlushTmp
<1>3. CASE File!ReplaceLive
  <2>1. at' \in [Writer -> File!Place]
    BY <1>3 DEF TypeOK, File!ReplaceLive
  <2> QED
    BY <1>3, <2>1 DEF TypeOK, File!ReplaceLive
<1>4. CASE File!ReplaceMissing
  BY <1>4 DEF TypeOK, File!ReplaceMissing, File!fileVars
<1>5. CASE File!DropFd(w)
  BY <1>5 DEF TypeOK, File!DropFd
<1> QED
  BY <1>1, <1>2, <1>3, <1>4, <1>5

(* What a writer in a call puts into the temp file *)
LEMMA TextType ==
  ASSUME TypeOK, Calls, NEW w \in Writer, InCall(w)
  PROVE  /\ job[w].key \in Key /\ job[w].value \in Value
         /\ view[w] \in Content
         /\ Upserted(view[w], job[w].key, job[w].value) \in Content
<1>1. job[w].key \in Key /\ job[w].value \in Value /\ view[w] \in Content
  BY DEF TypeOK, Calls
<1> QED
  BY <1>1, UpsertedLines

LEMMA LeaveType ==
  ASSUME TypeOK, NEW w \in Writer, Leave(w)
  PROVE  /\ pc' \in [Writer -> {"idle", "read", "opened", "written"}]
         /\ job' \in [Writer -> Line] /\ view' \in [Writer -> Content]
         /\ pc'[w] = "idle" /\ job'[w] = NoJob
         /\ \A x \in Writer \ {w} :
              pc'[x] = pc[x] /\ job'[x] = job[x] /\ view'[x] = view[x]
<1>1. NoJob \in Line /\ <<>> \in Content
  BY DEF NoJob, Line, Content
<1> QED
  BY <1>1 DEF TypeOK, Leave

LEMMA TypeNext ==
  ASSUME TypeOK, Calls, [Next]_vars
  PROVE  TypeOK' /\ Calls'
<1> USE DEF InCall
<1>1. ASSUME NEW w \in Writer, NEW k \in Key, NEW v \in Value, ReadStore(w, k, v)
      PROVE  TypeOK' /\ Calls'
  <2>1. File!FileTypeOK' /\ at' = at
    BY <1>1 DEF TypeOK, ReadStore, fileVars, File!FileTypeOK, File!OnDisk, File!Place
  <2> DEFINE asked == [key |-> k, value |-> v]
  <2>2. asked \in Line /\ asked \in [key : Key, value : Value]
    BY DEF Line
  <2>3. job' = [job EXCEPT ![w] = asked] /\ pc' = [pc EXCEPT ![w] = "read"] /\ pc[w] = "idle"
    BY <1>1 DEF ReadStore
  <2> HIDE DEF asked
  <2>4. view' \in [Writer -> Content]
    <3>1. <<>> \in Content /\ Lines(live) \in Content
      BY LinesType DEF Content
    <3> QED
      BY <1>1, <3>1 DEF ReadStore, TypeOK
  <2>5. calls' \in 0..MaxUpserts
    BY <1>1, CredentialAssumption DEF ReadStore, TypeOK
  <2>6. overlapped' \in BOOLEAN
    BY <1>1 DEF ReadStore, TypeOK
  <2>7. unread' \in BOOLEAN
    BY <1>1 DEF ReadStore, TypeOK
  <2>8. /\ others \in [Path -> Content \union {Absent}] /\ others' = others
        /\ org' = org /\ inventory' = inventory /\ kept' = kept
    BY <1>1 DEF ReadStore, TypeOK, worldVars
  <2>9. /\ pc' \in [Writer -> {"idle", "read", "opened", "written"}]
        /\ job' \in [Writer -> Line]
        /\ \A x \in Writer : pc'[x] = "idle" => job'[x] = NoJob /\ at'[x] = "closed"
    BY <2>1, <2>2, <2>3 DEF TypeOK
  <2>10. Calls'
    BY <2>1, <2>2, <2>3 DEF TypeOK, Calls
  <2> QED
    BY <2>1, <2>4, <2>5, <2>6, <2>7, <2>8, <2>9, <2>10 DEF TypeOK
<1>2. ASSUME NEW w \in Writer, OpenTmp(w)
      PROVE  TypeOK' /\ Calls'
  <2>1. File!FileTypeOK' /\ at' = [at EXCEPT ![w] = "tmp"] /\ at \in [Writer -> File!Place]
    <3>1. <<>> \in Content
      BY DEF Content
    <3> QED
      BY <1>2, <3>1, FileSteps DEF OpenTmp, File!OpenTmp, TypeOK, File!FileTypeOK
  <2>2. pc[w] = "read" /\ pc' = [pc EXCEPT ![w] = "opened"]
    BY <1>2 DEF OpenTmp
  <2>3. UNCHANGED <<worldVars, job, view, calls, kept, overlapped, unread>>
    BY <1>2 DEF OpenTmp
  <2> QED
    BY <2>1, <2>2, <2>3 DEF TypeOK, Calls, worldVars
<1>3. ASSUME NEW w \in Writer, WriteTmp(w)
      PROVE  TypeOK' /\ Calls'
  <2>1. File!FileTypeOK' /\ at' = [at EXCEPT ![w] = "closed"] /\ at \in [Writer -> File!Place]
    BY <1>3, FileSteps, TextType DEF WriteTmp, File!FlushTmp, TypeOK, File!FileTypeOK
  <2>2. pc[w] = "opened" /\ pc' = [pc EXCEPT ![w] = "written"]
    BY <1>3 DEF WriteTmp
  <2>3. UNCHANGED <<worldVars, job, view, calls, kept, overlapped, unread>>
    BY <1>3 DEF WriteTmp
  <2> QED
    BY <2>1, <2>2, <2>3 DEF TypeOK, Calls, worldVars
<1>4. ASSUME NEW w \in Writer, ReplaceStore(w)
      PROVE  TypeOK' /\ Calls'
  <2>1. File!FileTypeOK' /\ \A x \in Writer : at[x] = "closed" => at'[x] = "closed"
    <3>1. <<>> \in Content
      BY DEF Content
    <3>2. CASE File!ReplaceLive
      BY <3>1, <3>2, FileSteps DEF File!ReplaceLive
    <3>3. CASE File!ReplaceMissing
      BY <3>1, <3>3, FileSteps DEF File!ReplaceMissing, File!fileVars
    <3> QED
      BY <1>4, <3>2, <3>3 DEF ReplaceStore
  <2>2. pc[w] = "written" /\ Leave(w)
    BY <1>4 DEF ReplaceStore
  <2>3. kept' \in [Key -> Value \union {Blank}]
    BY <1>4, <2>2, TextType DEF ReplaceStore, TypeOK
  <2>4. UNCHANGED <<worldVars, calls, overlapped, unread>>
    BY <1>4 DEF ReplaceStore
  <2> QED
    BY <2>1, <2>2, <2>3, <2>4, LeaveType DEF TypeOK, Calls, worldVars
<1>5. ASSUME NEW w \in Writer, Die(w)
      PROVE  TypeOK' /\ Calls'
  <2>1. File!FileTypeOK' /\ at' = [at EXCEPT ![w] = "closed"] /\ at \in [Writer -> File!Place]
    <3>1. <<>> \in Content
      BY DEF Content
    <3> QED
      BY <1>5, <3>1, FileSteps DEF Die, File!DropFd, TypeOK, File!FileTypeOK
  <2>2. Leave(w) /\ UNCHANGED <<worldVars, calls, kept, overlapped, unread>>
    BY <1>5 DEF Die
  <2> QED
    BY <2>1, <2>2, LeaveType DEF TypeOK, Calls, worldVars
<1>6. CASE UNCHANGED vars
  BY <1>6 DEF vars, fileVars, worldVars, TypeOK, Calls, File!FileTypeOK, File!OnDisk, File!Place
<1> QED
  BY <1>1, <1>2, <1>3, <1>4, <1>5, <1>6 DEF Next

----------------------------------------------------------------------------
(* The store *)

LEMMA InitInv == Init => CredentialInv
<1> SUFFICES ASSUME Init
             PROVE  CredentialInv
  OBVIOUS
<1>1. TypeOK
  BY TypeInit
<1>2. PICK draft \in Drafts : others = draft /\ File!FileInit(draft[Target])
  BY DEF Init
<1>3. live = others[Target] /\ \A w \in Writer : at[w] = "closed"
  BY <1>2 DEF File!FileInit
<1>4. UpsertIsRead /\ OthersPreserved
  BY <1>3 DEF Init, UpsertIsRead, OthersPreserved
<1>5. Calls /\ Alone /\ \A w \in Writer : OnTrack(w)
  BY <1>3 DEF Init, Calls, Alone, OnTrack, InCall
<1> QED
  BY <1>1, <1>4, <1>5 DEF CredentialInv, Serial

(* A text that a call has written keeps what the calls have stored. *)
LEMMA ReplaceKeeps ==
  ASSUME CredentialInv, ~overlapped, ~unread, NEW w \in Writer, ReplaceStore(w)
  PROVE  UpsertIsRead' /\ OthersPreserved' /\ pc'[w] = "idle"
<1> DEFINE k == job[w].key
           v == job[w].value
           text == Upserted(Lines(live), k, v)
<1>1. pc[w] = "written" /\ InCall(w)
  BY DEF ReplaceStore, InCall
<1>2. /\ k \in Key /\ v \in Value /\ v # Blank
      /\ Lines(live) \in Content /\ text \in Content
  BY <1>1, LinesType, TextType, UpsertedLines, CredentialAssumption DEF CredentialInv
<1>3. tmp = text
  BY <1>1 DEF CredentialInv, Serial, OnTrack
<1>4. tmp # Absent
  BY <1>2, <1>3, CredentialAssumption
<1>5. /\ live' = text /\ kept' = [kept EXCEPT ![k] = v] /\ others' = others
      /\ pc'[w] = "idle"
  BY <1>3, <1>4, LeaveType
     DEF CredentialInv, ReplaceStore, File!ReplaceLive, File!ReplaceMissing, worldVars
<1>6. Lines(live') = text
  BY <1>2, <1>5 DEF Lines
<1>7. kept \in [Key -> Value \union {Blank}]
  BY DEF CredentialInv, TypeOK
<1>8. /\ ValueIn(text, k) = Rendered(v)
      /\ \A other : other # k => ValueIn(text, other) = ValueIn(Lines(live), other)
      /\ v \notin Quoted => Rendered(v) = v
  BY <1>2, UpsertedReads, RenderedType
<1>9. /\ \A i \in DOMAIN Lines(live) :
           i \in DOMAIN text /\ (Lines(live)[i].key # k => text[i] = Lines(live)[i])
      /\ \A i \in DOMAIN text :
           text[i].key # k => i \in DOMAIN Lines(live) /\ text[i] = Lines(live)[i]
  BY <1>2, UpsertedLines
<1> HIDE DEF k, v, text
<1>10. UpsertIsRead'
  <2>1. \A x \in Key : kept[x] \notin Quoted \union {Blank} => ValueIn(Lines(live), x) = kept[x]
    BY DEF CredentialInv, Serial, UpsertIsRead, FirstValue
  <2>2. \A x \in Key : kept'[x] \notin Quoted \union {Blank} => ValueIn(text, x) = kept'[x]
    BY <1>2, <1>5, <1>7, <1>8, <2>1
  <2>3. \A x \in Key : FirstValue(live', x) = ValueIn(text, x)
    BY <1>6 DEF FirstValue
  <2> QED
    BY <2>2, <2>3 DEF UpsertIsRead
<1>11. OthersPreserved'
  <2> DEFINE first == Lines(others[Target])
             Untouched(l) == l.key = Comment \/ kept[l.key] = Blank
             Still(l) == l.key = Comment \/ kept'[l.key] = Blank
  <2>1. /\ \A i \in DOMAIN first :
             Untouched(first[i]) => i \in DOMAIN Lines(live) /\ Lines(live)[i] = first[i]
        /\ \A i \in DOMAIN Lines(live) :
             Untouched(Lines(live)[i]) => i \in DOMAIN first /\ Lines(live)[i] = first[i]
    BY DEF CredentialInv, Serial, OthersPreserved
  <2>2. first \in Content
    BY LinesType
  <2>3. \A l \in Line : Still(l) => Untouched(l) /\ l.key # k
    BY <1>2, <1>5, <1>7, CredentialAssumption DEF Line
  <2>4. /\ \A i \in DOMAIN first : first[i] \in Line
        /\ \A i \in DOMAIN text : text[i] \in Line
    BY <1>2, <2>2 DEF Content
  <2> HIDE DEF first, Untouched, Still
  <2>5. \A i \in DOMAIN first : Still(first[i]) => i \in DOMAIN text /\ text[i] = first[i]
    BY <1>9, <2>1, <2>3, <2>4
  <2>6. \A i \in DOMAIN text : Still(text[i]) => i \in DOMAIN first /\ text[i] = first[i]
    BY <1>9, <2>1, <2>3, <2>4
  <2> QED
    BY <1>5, <1>6, <2>5, <2>6 DEF OthersPreserved, first, Still
<1> QED
  BY <1>5, <1>10, <1>11

LEMMA SerialNext ==
  ASSUME CredentialInv, [Next]_vars
  PROVE  Serial'
<1> SUFFICES ASSUME ~overlapped', ~unread'
             PROVE  UpsertIsRead' /\ OthersPreserved' /\ Alone' /\ \A x \in Writer : OnTrack(x)'
  BY DEF Serial
<1> USE DEF InCall
<1>1. ~overlapped /\ ~unread
  BY DEF Next, vars, ReadStore, OpenTmp, WriteTmp, ReplaceStore, Die, CredentialInv, TypeOK
<1>2. /\ UpsertIsRead /\ OthersPreserved
      /\ \A x, y \in Writer : InCall(x) /\ InCall(y) => x = y
      /\ \A x \in Writer : OnTrack(x)
  BY <1>1 DEF CredentialInv, Serial, Alone
<1>3. /\ pc \in [Writer -> {"idle", "read", "opened", "written"}]
      /\ job \in [Writer -> Line] /\ view \in [Writer -> Content]
      /\ at \in [Writer -> File!Place]
  BY DEF CredentialInv, TypeOK, File!FileTypeOK
<1>4. ASSUME NEW w \in Writer, pc' = [pc EXCEPT ![w] = pc'[w]],
             \A x \in Writer : InCall(x) => x = w
      PROVE  Alone' /\ \A x \in Writer \ {w} : OnTrack(x)'
  BY <1>3, <1>4 DEF Alone, OnTrack
<1>5. ASSUME live' = live, kept' = kept, others' = others
      PROVE  UpsertIsRead' /\ OthersPreserved'
  BY <1>1, <1>2, <1>5 DEF UpsertIsRead, OthersPreserved
<1>6. ASSUME NEW w \in Writer, NEW k \in Key, NEW v \in Value, ReadStore(w, k, v)
      PROVE  UpsertIsRead' /\ OthersPreserved' /\ Alone' /\ \A x \in Writer : OnTrack(x)'
  <2>1. /\ live' = live /\ kept' = kept /\ others' = others
        /\ pc' = [pc EXCEPT ![w] = "read"] /\ pc[w] = "idle"
    BY <1>6 DEF ReadStore, fileVars, worldVars
  <2>2. \A x \in Writer : InCall(x) => x = w
    BY <1>6 DEF ReadStore
  <2>3. view' = [view EXCEPT ![w] = Lines(live)]
    BY <1>6 DEF ReadStore
  <2>4. OnTrack(w)'
    BY <1>3, <2>1, <2>3 DEF OnTrack
  <2> QED
    BY <1>3, <1>4, <1>5, <2>1, <2>2, <2>4
<1>7. ASSUME NEW w \in Writer, OpenTmp(w)
      PROVE  UpsertIsRead' /\ OthersPreserved' /\ Alone' /\ \A x \in Writer : OnTrack(x)'
  <2>1. /\ live' = live /\ kept' = kept /\ others' = others /\ view' = view
        /\ pc' = [pc EXCEPT ![w] = "opened"] /\ pc[w] = "read"
        /\ tmp' = Empty /\ at' = [at EXCEPT ![w] = "tmp"]
    BY <1>7 DEF OpenTmp, File!OpenTmp, worldVars
  <2>2. OnTrack(w)'
    BY <1>2, <1>3, <2>1 DEF OnTrack
  <2> QED
    BY <1>2, <1>3, <1>4, <1>5, <2>1, <2>2
<1>8. ASSUME NEW w \in Writer, WriteTmp(w)
      PROVE  UpsertIsRead' /\ OthersPreserved' /\ Alone' /\ \A x \in Writer : OnTrack(x)'
  <2> DEFINE text == Upserted(view[w], job[w].key, job[w].value)
  <2>1. /\ kept' = kept /\ others' = others /\ view' = view /\ job' = job
        /\ pc' = [pc EXCEPT ![w] = "written"] /\ pc[w] = "opened"
        /\ File!FlushTmp(w, text)
    BY <1>8 DEF WriteTmp, worldVars
  <2> HIDE DEF text
  <2>2. at[w] = "tmp" /\ tmp = Empty
    BY <1>2, <2>1 DEF OnTrack
  <2>3. live' = live /\ tmp' = text
    BY <2>1, <2>2 DEF File!FlushTmp, File!Overlay
  <2>4. OnTrack(w)'
    BY <1>2, <1>3, <2>1, <2>3 DEF OnTrack, text
  <2> QED
    BY <1>2, <1>3, <1>4, <1>5, <2>1, <2>3, <2>4
<1>9. ASSUME NEW w \in Writer, ReplaceStore(w)
      PROVE  UpsertIsRead' /\ OthersPreserved' /\ Alone' /\ \A x \in Writer : OnTrack(x)'
  <2>1. UpsertIsRead' /\ OthersPreserved' /\ pc'[w] = "idle"
    BY <1>1, <1>9, ReplaceKeeps
  <2>2. pc[w] = "written" /\ pc' = [pc EXCEPT ![w] = "idle"]
    BY <1>9 DEF ReplaceStore, Leave
  <2>3. OnTrack(w)'
    BY <2>1 DEF OnTrack
  <2> QED
    BY <1>2, <1>3, <1>4, <2>1, <2>2, <2>3
<1>10. ASSUME NEW w \in Writer, Die(w)
      PROVE  UpsertIsRead' /\ OthersPreserved' /\ Alone' /\ \A x \in Writer : OnTrack(x)'
  <2>1. /\ live' = live /\ kept' = kept /\ others' = others
        /\ pc' = [pc EXCEPT ![w] = "idle"] /\ pc[w] # "idle"
    BY <1>10 DEF Die, File!DropFd, Leave, worldVars
  <2>2. OnTrack(w)'
    BY <1>3, <2>1 DEF OnTrack
  <2> QED
    BY <1>2, <1>3, <1>4, <1>5, <2>1, <2>2
<1>11. CASE UNCHANGED vars
  <2>1. /\ live' = live /\ tmp' = tmp /\ at' = at /\ kept' = kept /\ others' = others
        /\ pc' = pc /\ view' = view /\ job' = job
    BY <1>11 DEF vars, fileVars, worldVars
  <2> QED
    BY <1>2, <1>5, <2>1 DEF Alone, OnTrack
<1> QED
  BY <1>6, <1>7, <1>8, <1>9, <1>10, <1>11 DEF Next

LEMMA CredentialInvariant == Spec => []CredentialInv
<1>1. CredentialInv /\ [Next]_vars => CredentialInv'
  BY TypeNext, SerialNext DEF CredentialInv
<1> QED
  BY InitInv, <1>1, PTL DEF Spec

(* For any writers, keys, values and first texts: upsert_dotenv_secret     *)
(* changes the lines of its key and nothing else, and what it stored is    *)
(* what a read finds.                                                      *)
THEOREM UpsertStaysLocal == Spec => []UpsertIsLocal
<1>1. CredentialInv => UpsertIsLocal
  BY DEF CredentialInv, Serial, UpsertIsLocal, UpsertIsRead, OthersPreserved
<1> QED
  BY CredentialInvariant, <1>1, PTL

----------------------------------------------------------------------------
(* The four readers *)

LEMMA FirstNonBlankIs ==
  ASSUME NEW S, NEW values \in Seq(S)
  PROVE  \/ /\ FirstNonBlank(values) = Blank
            /\ \A i \in DOMAIN values : values[i] = Blank
         \/ \E i \in DOMAIN values :
              /\ values[i] # Blank /\ FirstNonBlank(values) = values[i]
              /\ \A j \in DOMAIN values : j < i => values[j] = Blank
<1> DEFINE given == {i \in DOMAIN values : values[i] # Blank}
           place == SelectInSeq(values, LAMBDA v : v # Blank)
<1>1. DOMAIN values = 1..Len(values) /\ Len(values) \in Nat
  OBVIOUS
<1>2. place = IF given # {} THEN Min(given) ELSE 0
  BY <1>1 DEF SelectInSeq
<1>3. FirstNonBlank(values) = IF place = 0 THEN Blank ELSE values[place]
  BY DEF FirstNonBlank
<1>4. given \in SUBSET Nat /\ 0 \notin given
  BY <1>1
<1>5. given # {} => Min(given) \in given /\ \A i \in given : Min(given) =< i
  BY <1>4, LeastIsIn
<1> HIDE DEF place
<1>6. CASE given = {}
  BY <1>2, <1>3, <1>6
<1>7. CASE given # {}
  <2> DEFINE least == Min(given)
  <2>1. place = least /\ least # 0 /\ least \in given /\ \A i \in given : least =< i
    BY <1>2, <1>4, <1>5, <1>7
  <2>2. \A j \in DOMAIN values : j < least => j \notin given
    <3>1. \A j \in given : j \in Nat
      BY <1>4
    <3> HIDE DEF given
    <3> QED
      BY <2>1, <3>1
  <2> QED
    BY <1>3, <2>1, <2>2
<1> QED
  BY <1>6, <1>7

LEMMA FirstOfTwo ==
  ASSUME NEW a, NEW b
  PROVE  FirstNonBlank(<<a, b>>) = IF a # Blank THEN a ELSE b
<1> DEFINE values == <<a, b>>
<1>1. /\ values \in Seq({a, b})
      /\ DOMAIN values = {1, 2} /\ values[1] = a /\ values[2] = b
  OBVIOUS
<1> HIDE DEF values
<1>2. FirstNonBlank(values) = IF a # Blank THEN a ELSE b
  <2>1. \/ FirstNonBlank(values) = Blank /\ a = Blank /\ b = Blank
        \/ a # Blank /\ FirstNonBlank(values) = a
        \/ b # Blank /\ FirstNonBlank(values) = b /\ a = Blank
    BY <1>1, FirstNonBlankIs
  <2> QED
    BY <2>1
<1> QED
  BY <1>2 DEF values

LEMMA FirstOfThree ==
  ASSUME NEW a, NEW b, NEW c
  PROVE  FirstNonBlank(<<a, b, c>>) = IF a # Blank THEN a ELSE IF b # Blank THEN b ELSE c
<1> DEFINE values == <<a, b, c>>
<1>1. /\ values \in Seq({a, b, c})
      /\ DOMAIN values = {1, 2, 3} /\ values[1] = a /\ values[2] = b /\ values[3] = c
  OBVIOUS
<1> HIDE DEF values
<1>2. FirstNonBlank(values) = IF a # Blank THEN a ELSE IF b # Blank THEN b ELSE c
  <2>1. \/ FirstNonBlank(values) = Blank /\ a = Blank /\ b = Blank /\ c = Blank
        \/ a # Blank /\ FirstNonBlank(values) = a
        \/ b # Blank /\ FirstNonBlank(values) = b /\ a = Blank
        \/ c # Blank /\ FirstNonBlank(values) = c /\ a = Blank /\ b = Blank
    BY <1>1, FirstNonBlankIs
  <2> QED
    BY <2>1
<1> QED
  BY <1>2 DEF values

(* What a layer says of a key *)
Says(layer, k) == FirstValue(StoreOf(layer), k)

LEMMA ApplicableAre ==
  /\ org = "none" => /\ Applicable = <<"program", "tenant">>
                     /\ Range(Applicable) = {"program", "tenant"}
  /\ org # "none" =>
       /\ Applicable = <<"program", "org", "tenant">>
       /\ Range(Applicable) = {"program", "org", "tenant"}
BY DEF Applicable, CREDENTIAL_LAYERS, Range

LEMMA CascadeIs ==
  ASSUME NEW k
  PROVE  ResolveCascade(k) =
           IF Says("program", k) # Blank THEN Says("program", k)
           ELSE IF org # "none" /\ Says("org", k) # Blank THEN Says("org", k)
           ELSE Says("tenant", k)
<1> DEFINE values == [i \in DOMAIN Applicable |-> FirstValue(StoreOf(Applicable[i]), k)]
<1>1. ResolveCascade(k) = FirstNonBlank(values)
  BY DEF ResolveCascade
<1>2. CASE org = "none"
  <2>1. values = <<Says("program", k), Says("tenant", k)>>
    BY <1>2, ApplicableAre DEF Says
  <2> QED
    BY <1>1, <1>2, <2>1, FirstOfTwo
<1>3. CASE org # "none"
  <2>1. values = <<Says("program", k), Says("org", k), Says("tenant", k)>>
    BY <1>3, ApplicableAre DEF Says
  <2> QED
    BY <1>1, <1>3, <2>1, FirstOfThree
<1> QED
  BY <1>2, <1>3

(* A store that does not list a key has no value for it. *)
LEMMA UnlistedIsBlank ==
  ASSUME NEW f, NEW k, k # Comment, k \notin DotenvKeys(f)
  PROVE  FirstValue(f, k) = Blank
<1>1. Lines(f) \in Content
  BY LinesType
<1>2. Seen(Lines(f), k) = {}
  BY DEF Seen, DotenvKeys
<1> QED
  BY <1>1, <1>2, FirstIsLeast DEF FirstValue

LEMMA NamedIsSource == ProvenanceNamesSource
<1> SUFFICES ASSUME NEW k \in Key
             PROVE  /\ ResolveCascade(k) # Blank => Provenance(k) # "none"
                    /\ Provenance(k) # "none" =>
                         Says(Provenance(k), k) \in {ResolveCascade(k), Blank}
  BY DEF ProvenanceNamesSource, Says
<1> DEFINE lists(layer) == layer \in Range(Applicable) /\ k \in DotenvKeys(StoreOf(layer))
<1>1. Provenance(k) =
        IF lists("program") THEN "program"
        ELSE IF lists("org") THEN "org"
        ELSE IF lists("tenant") THEN "tenant" ELSE "none"
  BY DEF Provenance, Overwrite
<1>2. \A layer \in Range(Applicable) : ~lists(layer) => Says(layer, k) = Blank
  BY UnlistedIsBlank, CredentialAssumption DEF Says
<1>3. lists("org") => org # "none"
  BY ApplicableAre
<1>4. "program" \in Range(Applicable) /\ "tenant" \in Range(Applicable)
  BY ApplicableAre
<1>5. org # "none" => "org" \in Range(Applicable)
  BY ApplicableAre
<1> HIDE DEF lists
<1>6. ResolveCascade(k) # Blank => Provenance(k) # "none"
  BY <1>1, <1>2, <1>4, <1>5, CascadeIs
<1>7. CASE lists("program")
  BY <1>1, <1>6, <1>7, CascadeIs
<1>8. CASE ~lists("program") /\ lists("org")
  BY <1>1, <1>2, <1>3, <1>4, <1>6, <1>8, CascadeIs
<1>9. CASE ~lists("program") /\ ~lists("org")
  BY <1>1, <1>2, <1>4, <1>5, <1>6, <1>9, CascadeIs
<1> QED
  BY <1>7, <1>8, <1>9

(* What a connection refers to is a key, when the files can be read. *)
LEMMA RefIsKey ==
  ASSUME TypeOK, Resolvable, NEW name \in Name
  PROVE  RefOf(name) \in Key \union {Unlisted, NoRef}
<1> DEFINE listing == [i \in DOMAIN Applicable |->
                         LET f == inventory[Applicable[i]]
                         IN  IF f = Absent THEN Unlisted ELSE f[name]]
           place == SelectInSeq(listing, LAMBDA r : r # Unlisted)
           listed == {i \in DOMAIN listing : listing[i] # Unlisted}
           Refs == Key \union {Unlisted, NoRef}
<1>1. /\ DOMAIN Applicable = 1..Len(Applicable) /\ Len(Applicable) \in Nat
      /\ \A i \in DOMAIN Applicable : Applicable[i] \in Layer
  <2>1. <<"program", "tenant">> \in Seq(Layer) /\ <<"program", "org", "tenant">> \in Seq(Layer)
    BY DEF Layer
  <2>2. Applicable \in Seq(Layer)
    BY <2>1, ApplicableAre
  <2> QED
    BY <2>2
<1>2. \A i \in DOMAIN Applicable : listing[i] \in Refs
  <2>1. TAKE i \in DOMAIN Applicable
  <2>2. inventory[Applicable[i]] \in ConnFile \ {Malformed}
    BY <1>1, CredentialAssumption DEF TypeOK, Resolvable
  <2>3. inventory[Applicable[i]] # Absent => inventory[Applicable[i]] \in [Name -> Refs]
    BY <2>2 DEF ConnFile
  <2> QED
    BY <2>3
<1>3. listing \in Seq(Refs)
  <2>1. listing \in [1..Len(Applicable) -> Refs]
    BY <1>1, <1>2
  <2> QED
    BY <1>1, <2>1
<1>4. RefOf(name) = IF place = 0 THEN Unlisted ELSE listing[place]
  BY DEF RefOf
<1> HIDE DEF listing
<1>5. DOMAIN listing = 1..Len(listing) /\ Len(listing) \in Nat
  BY <1>3
<1>6. place = IF listed # {} THEN Min(listed) ELSE 0
  BY <1>5 DEF SelectInSeq
<1>7. listed # {} => Min(listed) \in listed
  <2>1. listed \in SUBSET Nat
    BY <1>5
  <2> QED
    BY <2>1, LeastIsIn
<1>8. \A i \in DOMAIN listing : listing[i] \in Refs
  BY <1>3
<1> HIDE DEF place
<1> QED
  BY <1>4, <1>6, <1>7, <1>8

LEMMA MissingIsBlank == TypeOK => MissingNeverResolves
<1> SUFFICES ASSUME TypeOK, Resolvable, NEW name \in MissingSecretRefs
             PROVE  ResolveCascade(RefOf(name)) = Blank
  BY DEF MissingNeverResolves
<1> DEFINE k == RefOf(name)
<1>1. k \in Key /\ k \notin ListKeys
  BY RefIsKey DEF MissingSecretRefs
<1> HIDE DEF k
<1>2. \A layer \in Range(Applicable) : k \notin DotenvKeys(StoreOf(layer))
  BY <1>1 DEF ListKeys, Range
<1>3. \A layer \in Range(Applicable) : Says(layer, k) = Blank
  BY <1>1, <1>2, UnlistedIsBlank, CredentialAssumption DEF Says
<1> QED
  BY <1>3, ApplicableAre, CascadeIs DEF k

LEMMA ChainIs == TypeOK => ChainIsCascade
<1> SUFFICES ASSUME TypeOK, org # "found", NEW k \in Key
             PROVE  ResolveRef(CREDENTIAL_LAYERS, k) = ResolveCascade(k)
  BY DEF ChainIsCascade
<1> DEFINE values == [i \in DOMAIN CREDENTIAL_LAYERS |-> SourceValue(CREDENTIAL_LAYERS[i], k)]
<1>1. ResolveRef(CREDENTIAL_LAYERS, k) = FirstNonBlank(values)
  BY DEF ResolveRef
<1>2. /\ SourceValue("program", k) = Says("program", k)
      /\ SourceValue("tenant", k) = Says("tenant", k)
      /\ SourceValue("org", k) = IF org = "named" THEN Says("org", k) ELSE Blank
  BY DEF SourceValue, Says
<1>3. values = <<SourceValue("program", k), SourceValue("org", k), SourceValue("tenant", k)>>
  BY DEF CREDENTIAL_LAYERS
<1>4. org = "named" \/ org = "none"
  BY DEF TypeOK
<1> HIDE DEF values
<1> QED
  BY <1>1, <1>2, <1>3, <1>4, FirstOfThree, CascadeIs

(* For any stores and connections: the four readers of the cascade tell    *)
(* the same of every key.                                                  *)
THEOREM WalksAlwaysAgree == Spec => []WalksAgree
<1>1. CredentialInv => WalksAgree
  BY NamedIsSource, MissingIsBlank, ChainIs DEF CredentialInv, WalksAgree
<1> QED
  BY CredentialInvariant, <1>1, PTL
============================================================================
