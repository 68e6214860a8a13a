---------------------------- MODULE StoresProofs ----------------------------
(***************************************************************************)
(* For any hosts, users, keys, clocks and lifetimes: a login lasts as it   *)
(* was given, the cached keys follow the provider's, the ledger and the    *)
(* knowledge directory tell what was written, the list of pull requests    *)
(* what was open, and a clear of what is blocked takes what it names.      *)
(*                                                                         *)
(* TokensSurvive speaks of the tokens and of the hosts that are up.  It    *)
(* rests on what happens before there are any: OneSecret says that without *)
(* a race the secret is created once, since the host that creates it is    *)
(* alone, nobody is up before the file has it, and from then on it is the  *)
(* secret of every token and of every host that is up.                     *)
(*                                                                         *)
(* The properties of the key cache are about the answer just given; they   *)
(* need that a retired key is not published, and that the cache, if there  *)
(* is one, is as old as the last fetch.                                    *)
(*                                                                         *)
(* A line with a message and a hash has both from one record, whatever was *)
(* joined before or behind them: the ledger is sound if each such line was *)
(* attempted.  What a cut costs is paid in two parts, its own record and   *)
(* the next: Debt is the part still to come.                               *)
(*                                                                         *)
(* The knowledge directory needs to know of each call underway that what   *)
(* it holds in hand is what is meant (OneByOne), and of each entry, in a   *)
(* file or in hand, that what it supersedes is there (Anchored).           *)
(*                                                                         *)
(* A pull request is at the page of its rank among those open; while none  *)
(* is closed the rank only grows, so that what is not yet read is on a page*)
(* still to come (ToCome).                                                 *)
(*                                                                         *)
(* A clear wraps block after block, each in what the ones before left: its *)
(* texts exist and are what they should be one after the other (Onward).   *)
(***************************************************************************)
EXTENDS Stores, FiniteSetTheorems, SequenceTheorems, WellFoundedInduction, TLAPS

(* A login and its exchanges, and when they end                            *)
Given(t) ==
  /\ t.type \in {"session", "attach"}
  /\ t.exp \in Nat /\ t.since \in Nat
  /\ t.exp <= t.since + SessionTtl + (IF t.type = "session" THEN 0 ELSE AttachTtl)

AllGiven == now \in Nat /\ \A t \in tokens : Given(t)

OneSecret ==
  ~raced =>
    /\ \A h, i \in Host : Creating(h) /\ Creating(i) => h = i
    /\ secretFile = NoSecret => tokens = {} /\ \A h \in Host : hpc[h] # "up"
    /\ secretFile # NoSecret =>
         /\ \A h \in Host : ~Creating(h) /\ (hpc[h] = "up" => hsecret[h] = secretFile)
         /\ \A t \in tokens : t.secret = secretFile

(* A host that is about to write the secret has one to write.              *)
HasSecret ==
  /\ hpc \in [Host -> {"down", "generate", "write", "up"}]
  /\ hsecret \in [Host -> Secret \cup {NoSecret}]
  /\ generated \in Nat /\ secretFile \in Secret \cup {NoSecret}
  /\ \A h \in Host : hpc[h] = "write" => hsecret[h] # NoSecret

AuthInv == AllGiven /\ HasSecret /\ OneSecret

LEMMA AuthInvInit == Init => AuthInv
BY WebAuthAssumption
DEF Init, AuthInit, AuthInv, AllGiven, HasSecret, OneSecret, Creating

(* A token that is given by a host that is up is signed with its secret.   *)
LEMMA GiveKeeps ==
  ASSUME AuthInv, NEW h \in Host, hpc[h] = "up", NEW t, Given(t), t.secret = hsecret[h], Give(h, t)
  PROVE  AuthInv'
<1>1. AllGiven'
  BY DEF AuthInv, AllGiven, Give, Given
<1>2. HasSecret'
  BY DEF AuthInv, HasSecret, Give
<1>3. OneSecret'
  BY DEF AuthInv, OneSecret, Give, Creating
<1>4. QED
  BY <1>1, <1>2, <1>3 DEF AuthInv

LEMMA AuthStep ==
  ASSUME AuthInv, AuthNext
  PROVE  AuthInv'
<1> USE WebAuthAssumption DEF AuthInv
<1>1. ASSUME NEW h \in Host, StartHost(h)
      PROVE  AuthInv'
  <2>1. AllGiven'
    BY <1>1 DEF StartHost, AllGiven, Given
  <2>2. HasSecret' /\ OneSecret'
    <3>1. CASE secretFile # NoSecret
      <4>1. secretFile' = secretFile /\ tokens' = tokens /\ raced' = raced
            /\ hpc' = [hpc EXCEPT ![h] = "up"] /\ hsecret' = [hsecret EXCEPT ![h] = secretFile]
            /\ generated' = generated /\ hpc[h] = "down"
        BY <1>1, <3>1 DEF StartHost
      <4>2. secretFile \in Secret
        BY <3>1 DEF HasSecret
      <4> QED
        BY <3>1, <4>1, <4>2 DEF HasSecret, OneSecret, Creating
    <3>2. CASE secretFile = NoSecret
      <4>1. secretFile' = secretFile /\ tokens' = tokens /\ hsecret' = hsecret
            /\ raced' = (raced \/ \E x \in Host : Creating(x))
            /\ hpc' = [hpc EXCEPT ![h] = "generate"]
            /\ generated' = generated /\ hpc[h] = "down"
        BY <1>1, <3>2 DEF StartHost
      <4> QED
        BY <3>2, <4>1 DEF HasSecret, OneSecret, Creating
    <3> QED
      BY <3>1, <3>2
  <2> QED
    BY <2>1, <2>2
<1>2. ASSUME NEW h \in Host, GenerateSecret(h)
      PROVE  AuthInv'
  <2>1. AllGiven'
    BY <1>2 DEF GenerateSecret, AllGiven, Given
  <2>2. HasSecret'
    BY <1>2 DEF GenerateSecret, HasSecret, Secret
  <2>3. OneSecret'
    BY <1>2 DEF GenerateSecret, HasSecret, OneSecret, Creating
  <2> QED
    BY <2>1, <2>2, <2>3
<1>3. ASSUME NEW h \in Host, WriteSecret(h)
      PROVE  AuthInv'
  <2>1. AllGiven'
    BY <1>3 DEF WriteSecret, AllGiven, Given
  <2>2. HasSecret'
    BY <1>3 DEF WriteSecret, HasSecret
  <2>3. OneSecret'
    BY <1>3 DEF WriteSecret, HasSecret, OneSecret, Creating
  <2> QED
    BY <2>1, <2>2, <2>3
<1>4. ASSUME NEW h \in Host, StopHost(h)
      PROVE  AuthInv'
  <2>1. AllGiven'
    BY <1>4 DEF StopHost, AllGiven, Given
  <2>2. HasSecret'
    BY <1>4 DEF StopHost, HasSecret
  <2>3. OneSecret'
    BY <1>4 DEF StopHost, HasSecret, OneSecret, Creating
  <2> QED
    BY <2>1, <2>2, <2>3
<1>5. ASSUME NEW h \in Host, NEW u \in User, IssueSession(h, u)
      PROVE  AuthInv'
  <2> DEFINE t == [type |-> "session", sub |-> u, role |-> hconfig[h][u], mode |-> "none",
                   exp |-> now + SessionTtl, secret |-> hsecret[h], since |-> now]
  <2>1. Given(t)
    BY DEF Given, AllGiven
  <2>2. hpc[h] = "up" /\ Give(h, t) /\ t.secret = hsecret[h]
    BY <1>5 DEF IssueSession
  <2> QED
    BY <2>1, <2>2, GiveKeeps
<1>6. ASSUME NEW h \in Host, NEW s \in tokens, AttachToken(h, s)
      PROVE  AuthInv'
  <2>1. now < s.exp /\ s.type = "session" /\ hpc[h] = "up" /\ Give(h, AttachFor(h, s))
    BY <1>6 DEF AttachToken, Verifies, Decodes
  <2>2. now \in Nat /\ s.exp \in Nat /\ s.since \in Nat /\ s.exp <= s.since + SessionTtl
    BY <2>1 DEF AllGiven, Given
  <2>3. Given(AttachFor(h, s)) /\ AttachFor(h, s).secret = hsecret[h]
    BY <2>1, <2>2 DEF Given, AttachFor
  <2> QED
    BY <2>1, <2>3, GiveKeeps
<1>7. ASSUME NEW c, EditPlatform(c)
      PROVE  AuthInv'
  BY <1>7 DEF EditPlatform, AllGiven, Given, HasSecret, OneSecret, Creating
<1>8. ASSUME TickAuth
      PROVE  AuthInv'
  BY <1>8 DEF TickAuth, AllGiven, Given, HasSecret, OneSecret, Creating
<1> QED
  BY <1>1, <1>2, <1>3, <1>4, <1>5, <1>6, <1>7, <1>8 DEF AuthNext

LEMMA AuthInvariant == Spec => []AuthInv
<1>1. AuthInv /\ UNCHANGED authVars => AuthInv'
  BY DEF AuthInv, AllGiven, Given, HasSecret, OneSecret, Creating, authVars
<1>2. AuthInv /\ [Next]_vars => AuthInv'
  BY <1>1, AuthStep DEF Next, vars
<1> QED
  BY <1>2, AuthInvInit, PTL DEF Spec

(* LoginsLastAsGiven: for any hosts that start, stop and die anywhere, a   *)
(* token is good at each of them for as long as it was given for, unless   *)
(* two created the secret together, and no exchange prolongs a login.      *)
THEOREM LoginsLast == Spec => []LoginsLastAsGiven
<1>1. AuthInv => TokensSurvive
  BY DEF AuthInv, AllGiven, Given, OneSecret, TokensSurvive, UserToken, Decodes
<1>2. AuthInv => AccessEnds
  BY WebAuthAssumption DEF AuthInv, AllGiven, Given, AccessEnds
<1> QED
  BY <1>1, <1>2, AuthInvariant, PTL DEF LoginsLastAsGiven

-----------------------------------------------------------------------------
(* A retired key is not published, and the cache is as old as the fetch.   *)
CacheInv ==
  /\ published \cap retired = {}
  /\ published \subseteq Kid /\ clock \in Nat
  /\ jwks \in [has : BOOLEAN, keys : SUBSET Kid, at : Nat]
  /\ IF jwks.has THEN fetched = {jwks.at} ELSE fetched = {}

OidcInv == CacheInv /\ KeysFollowProvider

LEMMA OidcInvInit == Init => OidcInv
BY DEF Init, OidcInit, OidcInv, CacheInv, NoResult, KeysFollowProvider, RotationIsSeamless,
       RetiredKeyExpires, OutageAnswers

(* No result, no claim.                                                    *)
LEMMA NoResultKeeps ==
  ASSUME result' = NoResult
  PROVE  KeysFollowProvider'
BY DEF NoResult, KeysFollowProvider, RotationIsSeamless, RetiredKeyExpires, OutageAnswers

LEMMA OidcStep ==
  ASSUME OidcInv, OidcNext
  PROVE  OidcInv'
<1>1. CASE PublishKey
  <2>1. CacheInv'
    BY <1>1 DEF PublishKey, OidcInv, CacheInv
  <2> QED
    BY <1>1, <2>1, NoResultKeeps DEF PublishKey, OidcInv
<1>2. CASE RetireKey
  <2>1. CacheInv'
    BY <1>2 DEF RetireKey, OidcInv, CacheInv
  <2> QED
    BY <1>2, <2>1, NoResultKeeps DEF RetireKey, OidcInv
<1>3. CASE OidcTick
  <2>1. CacheInv'
    BY <1>3 DEF OidcTick, OidcInv, CacheInv
  <2> QED
    BY <1>3, <2>1, NoResultKeeps DEF OidcTick, OidcInv
<1>4. CASE Validate
  <2>0. PICK token \in Token, first \in BOOLEAN, again \in BOOLEAN :
        LET cache == KeyForKid(token.kid, first, again)
            looked == Jwks(jwks, FALSE, first)
            came == \/ first /\ (~jwks.has \/ clock - jwks.at >= CacheTtl)
                    \/ again /\ looked.has /\ token.kid \notin looked.keys
        IN  /\ jwks' = cache
            /\ fetched' = IF came THEN {clock} ELSE fetched
            /\ result' = [token |-> token, up |-> first /\ again,
                          answer |-> IF ~cache.has THEN "raised"
                                     ELSE IF token.kid \in cache.keys /\ Admitted(token)
                                     THEN "accepted" ELSE "refused"]
            /\ UNCHANGED <<published, retired, clock>>
    BY <1>4 DEF Validate
  <2> DEFINE looked == Jwks(jwks, FALSE, first)
             cache == KeyForKid(token.kid, first, again)
             fresh == [has |-> TRUE, keys |-> published, at |-> clock]
             stale == ~jwks.has \/ clock - jwks.at >= CacheTtl
             unknown == looked.has /\ token.kid \notin looked.keys
             came == (first /\ stale) \/ (again /\ unknown)
             answer == IF ~cache.has THEN "raised"
                       ELSE IF token.kid \in cache.keys /\ Admitted(token)
                       THEN "accepted" ELSE "refused"
  <2>1. /\ jwks' = cache
        /\ fetched' = IF came THEN {clock} ELSE fetched
        /\ result' = [token |-> token, up |-> first /\ again, answer |-> answer]
        /\ published' = published /\ retired' = retired /\ clock' = clock
    BY <2>0
  <2>2. /\ published \cap retired = {} /\ published \subseteq Kid /\ clock \in Nat
        /\ jwks \in [has : BOOLEAN, keys : SUBSET Kid, at : Nat]
        /\ IF jwks.has THEN fetched = {jwks.at} ELSE fetched = {}
    BY DEF OidcInv, CacheInv
  <2>. fresh \in [has : BOOLEAN, keys : SUBSET Kid, at : Nat] /\ fresh.has
       /\ fresh.keys = published /\ fresh.at = clock
    BY <2>2
  <2> HIDE DEF fresh
  <2>3. looked = IF first /\ stale THEN fresh ELSE jwks
    BY <2>2, OidcAssumption DEF Jwks, fresh
  <2>4. cache = IF again /\ unknown THEN fresh ELSE looked
    BY <2>3 DEF KeyForKid, Jwks, fresh
  <2>5. came => jwks' = fresh /\ fetched' = {clock}
    BY <2>1, <2>3, <2>4
  <2>6. ~came => jwks' = jwks /\ fetched' = fetched
    BY <2>1, <2>3, <2>4
  <2>7. result'.answer = answer /\ result'.up = (first /\ again) /\ result'.token = token
    BY <2>1
  <2>8. /\ answer = "raised" <=> ~jwks'.has
        /\ answer = "accepted" <=> jwks'.has /\ token.kid \in jwks'.keys /\ Admitted(token)
    BY <2>1
  <2> HIDE DEF came, answer
  <2>9. CacheInv'
    <3>1. CASE came
      BY <2>1, <2>2, <2>5, <3>1 DEF CacheInv
    <3>2. CASE ~came
      BY <2>1, <2>2, <2>6, <3>2 DEF CacheInv
    <3> QED
      BY <3>1, <3>2
  <2>10. RotationIsSeamless'
    <3> SUFFICES ASSUME first /\ again, token.kid \in published, Admitted(token)
                 PROVE  answer = "accepted"
      BY <2>1, <2>7 DEF RotationIsSeamless, Admitted, Decoded
    <3>1. looked.has
      BY <2>2, <2>3
    <3>2. cache.has /\ token.kid \in cache.keys
      BY <2>3, <2>4, <3>1
    <3> QED
      BY <2>1, <2>8, <3>2
  <2>11. RetiredKeyExpires'
    <3> SUFFICES ASSUME answer = "accepted", token.kid \in retired, first /\ again
                 PROVE  \E at \in fetched' : clock - at < CacheTtl
      BY <2>1, <2>7 DEF RetiredKeyExpires
    <3>1. jwks'.has /\ token.kid \in jwks'.keys
      BY <2>8
    <3>2. ~came
      BY <2>2, <2>5, <3>1
    <3>3. jwks.has /\ clock - jwks.at < CacheTtl
      <4>1. jwks.has /\ ~(clock - jwks.at >= CacheTtl)
        BY <2>6, <3>1, <3>2 DEF came
      <4>2. clock \in Nat /\ jwks.at \in Nat
        BY <2>2
      <4> QED
        BY <4>1, <4>2, OidcAssumption
    <3> QED
      BY <2>2, <2>6, <3>2, <3>3
  <2>12. OutageAnswers'
    BY <2>2, <2>5, <2>6, <2>7, <2>8 DEF OutageAnswers
  <2> QED
    BY <2>9, <2>10, <2>11, <2>12 DEF OidcInv, KeysFollowProvider
<1> QED
  BY <1>1, <1>2, <1>3, <1>4 DEF OidcNext

LEMMA OidcInvariant == Spec => []OidcInv
<1>1. OidcInv /\ UNCHANGED oidcVars => OidcInv'
  BY DEF OidcInv, CacheInv, KeysFollowProvider, RotationIsSeamless, RetiredKeyExpires,
         OutageAnswers, Admitted, Decoded, oidcVars
<1>2. OidcInv /\ [Next]_vars => OidcInv'
  BY <1>1, OidcStep DEF Next, vars
<1> QED
  BY <1>2, OidcInvInit, PTL DEF Spec

(* KeysFollowProvider: for any keys, tokens, clock and lifetime of the     *)
(* cache, over every rotation and outage, the signing keys the service     *)
(* caches answer for those the provider publishes.                         *)
THEOREM KeysAlwaysFollow == Spec => []KeysFollowProvider
<1>1. OidcInv => KeysFollowProvider
  BY DEF OidcInv
<1> QED
  BY <1>1, OidcInvariant, PTL

-----------------------------------------------------------------------------
(* A line that can verify at all is of one record, one that was appended,  *)
(* however many writes it is made of.                                      *)
Sound(line, told) ==
  line.id \in Message /\ line.hash \in Hash => <<line.id, line.hash>> \in told

AllSound(lines, told) == \A i \in DOMAIN lines : Sound(lines[i], told)

(* What was confirmed and does not verify, and what the line left open may *)
(* still cost: the next record, and its own if it is complete by now.      *)
Unverified == {c \in confirmed : ~VerifyConfirmation(c[1], c[2])}
Debt == IF ~LineOpen THEN 0 ELSE IF Last(ledger).fields = N_FIELDS THEN 2 ELSE 1

LedgerInv ==
  /\ LedgerTypeOK
  /\ AllSound(ledger, attempted)
  /\ IsFiniteSet(Unverified) /\ Cardinality(Unverified) + Debt <= 2 * cuts

(* Joined takes both fields from one of the two, or loses one of them.     *)
LEMMA JoinedLine ==
  ASSUME NEW p \in LedgerLine, NEW q \in LedgerLine
  PROVE  Joined(p, q) \in LedgerLine
BY DEF Joined, LedgerLine

LEMMA JoinedSound ==
  ASSUME NEW p \in LedgerLine, NEW q \in LedgerLine, NEW told,
         Sound(p, told), Sound(q, told)
  PROVE  Sound(Joined(p, q), told)
BY LedgerAssumption DEF Joined, Sound, LedgerLine

(* The next append: to a line of its own or to the one left open.          *)
LEMMA WrittenLines ==
  ASSUME ledger \in Seq(LedgerLine), NEW text \in LedgerLine
  PROVE  LET n == Len(ledger) IN
         /\ Written(text) \in Seq(LedgerLine)
         /\ LineOpen => /\ n \in DOMAIN ledger /\ DOMAIN Written(text) = 1..n
                        /\ \A i \in 1..(n - 1) : Written(text)[i] = ledger[i]
                        /\ Written(text)[n] = Joined(ledger[n], text)
         /\ ~LineOpen => /\ DOMAIN Written(text) = 1..(n + 1)
                         /\ \A i \in 1..n : Written(text)[i] = ledger[i]
                         /\ Written(text)[n + 1] = text
<1> DEFINE n == Len(ledger)
<1>1. CASE LineOpen
  <2> DEFINE rest == Front(ledger)
             line == Joined(ledger[n], text)
  <2>1. ledger \in Seq(LedgerLine) /\ n \in Nat \ {0} /\ n \in DOMAIN ledger
    BY <1>1 DEF LineOpen
  <2>2. /\ rest \in Seq(LedgerLine) /\ Len(rest) = n - 1
        /\ \A i \in 1..(n - 1) : rest[i] = ledger[i]
    <3>1. \A i \in 1..(n - 1) : ledger[i] \in LedgerLine
      BY <2>1
    <3>2. /\ SubSeq(ledger, 1, n - 1) \in Seq(LedgerLine)
          /\ Len(SubSeq(ledger, 1, n - 1)) = IF 1 <= n - 1 THEN n - 1 - 1 + 1 ELSE 0
          /\ \A i \in 1..(n - 1 - 1 + 1) : SubSeq(ledger, 1, n - 1)[i] = ledger[1 + i - 1]
      BY <2>1, <3>1, SubSeqProperties
    <3>3. n - 1 - 1 + 1 = n - 1 /\ \A i \in 1..(n - 1) : 1 + i - 1 = i
      BY <2>1
    <3>4. rest = SubSeq(ledger, 1, n - 1)
      BY DEF Front
    <3> QED
      BY <2>1, <3>2, <3>3, <3>4
  <2>3. line \in LedgerLine
    BY <2>1, JoinedLine
  <2>4. Written(text) = Append(rest, line)
    BY <1>1 DEF Written, Last
  <2> HIDE DEF rest, line
  <2>5. /\ Append(rest, line) \in Seq(LedgerLine) /\ DOMAIN Append(rest, line) = 1..n
        /\ \A i \in 1..(n - 1) : Append(rest, line)[i] = ledger[i]
        /\ Append(rest, line)[n] = line
    BY <2>1, <2>2, <2>3
  <2> QED
    BY <1>1, <2>1, <2>4, <2>5 DEF line
<1>2. CASE ~LineOpen
  <2>1. Written(text) = Append(ledger, text)
    BY <1>2 DEF Written
  <2>2. /\ Append(ledger, text) \in Seq(LedgerLine)
        /\ DOMAIN Append(ledger, text) = 1..(n + 1)
        /\ \A i \in 1..n : Append(ledger, text)[i] = ledger[i]
        /\ Append(ledger, text)[n + 1] = text
    OBVIOUS
  <2> QED
    BY <1>2, <2>1, <2>2
<1> QED
  BY <1>1, <1>2

(* Both leave a sound ledger sound, ...                                    *)
LEMMA WrittenSound ==
  ASSUME ledger \in Seq(LedgerLine), NEW told, AllSound(ledger, told),
         NEW text \in LedgerLine, Sound(text, told)
  PROVE  AllSound(Written(text), told)
<1> DEFINE n == Len(ledger)
<1>1. CASE LineOpen
  <2>1. n \in DOMAIN ledger
    BY <1>1, WrittenLines
  <2>2. Sound(Joined(ledger[n], text), told)
    BY <2>1, JoinedSound DEF AllSound
  <2>3. ASSUME NEW i \in DOMAIN Written(text)
        PROVE  Sound(Written(text)[i], told)
    <3>1. i \in 1..n /\ n \in Nat
      BY <1>1, WrittenLines
    <3>2. CASE i = n
      BY <1>1, <2>2, <3>2, WrittenLines
    <3>3. CASE i # n
      <4>1. i \in 1..(n - 1) /\ i \in DOMAIN ledger
        BY <3>1, <3>3
      <4> QED
        BY <1>1, <4>1, WrittenLines DEF AllSound
    <3> QED
      BY <3>2, <3>3
  <2> QED
    BY <2>3 DEF AllSound
<1>2. CASE ~LineOpen
  BY <1>2, WrittenLines DEF AllSound, Sound
<1> QED
  BY <1>1, <1>2

(* ... and of what verified they take back the open line at most.          *)
LEMMA WrittenVerifies ==
  ASSUME ledger \in Seq(LedgerLine), NEW text \in LedgerLine, ledger' = Written(text),
         NEW id, NEW hash
  PROVE  /\ VerifyConfirmation(id, hash) =>
              VerifyConfirmation(id, hash)' \/ (LineOpen /\ Matches(Last(ledger), id, hash))
         /\ ~LineOpen /\ Matches(text, id, hash) => VerifyConfirmation(id, hash)'
<1> DEFINE n == Len(ledger)
<1>1. CASE LineOpen
  <2>1. ASSUME NEW i \in DOMAIN ledger, Matches(ledger[i], id, hash), i # n
        PROVE  VerifyConfirmation(id, hash)'
    <3>1. i \in 1..(n - 1)
      BY <2>1
    <3>2. i \in DOMAIN ledger' /\ ledger'[i] = ledger[i]
      BY <1>1, <3>1, WrittenLines
    <3> QED
      BY <2>1, <3>2 DEF VerifyConfirmation, Matches
  <2> QED
    BY <1>1, <2>1 DEF VerifyConfirmation, Last
<1>2. CASE ~LineOpen
  <2>1. /\ DOMAIN ledger' = 1..(n + 1) /\ n \in Nat /\ DOMAIN ledger = 1..n
        /\ \A i \in 1..n : ledger'[i] = ledger[i]
        /\ ledger'[n + 1] = text
    BY <1>2, WrittenLines
  <2>2. ASSUME NEW i \in DOMAIN ledger, Matches(ledger[i], id, hash)
        PROVE  VerifyConfirmation(id, hash)'
    <3>1. i \in DOMAIN ledger' /\ ledger'[i] = ledger[i]
      BY <2>1
    <3> QED
      BY <2>2, <3>1 DEF VerifyConfirmation, Matches
  <2>3. ASSUME Matches(text, id, hash)
        PROVE  VerifyConfirmation(id, hash)'
    <3>1. n + 1 \in DOMAIN ledger'
      BY <2>1
    <3> QED
      BY <2>1, <2>3, <3>1 DEF VerifyConfirmation, Matches
  <2> QED
    BY <1>2, <2>2, <2>3 DEF VerifyConfirmation
<1> QED
  BY <1>1, <1>2

(* Whether a line is open, and what there is to lose, is up to the last.   *)
LEMMA WrittenDebt ==
  ASSUME ledger \in Seq(LedgerLine), NEW text \in LedgerLine, ledger' = Written(text)
  PROVE  /\ Debt' \in {0, 1, 2} /\ Debt \in {0, 1, 2}
         /\ text.ended => Debt' = 0
         /\ ~LineOpen /\ text.fields # N_FIELDS => Debt' \in {0, 1}
<1> DEFINE n == Len(ledger)
<1>1. /\ n \in Nat /\ ledger' \in Seq(LedgerLine)
      /\ LineOpen => n # 0 /\ Len(ledger') = n /\ ledger'[n] = Joined(ledger[n], text)
      /\ ~LineOpen => Len(ledger') = n + 1 /\ ledger'[n + 1] = text
  BY WrittenLines
<1>2. Last(ledger').ended = text.ended
  BY <1>1 DEF Last, Joined
<1>3. ~LineOpen => Last(ledger') = text
  BY <1>1 DEF Last
<1> QED
  BY <1>2, <1>3 DEF Debt, LineOpen, N_FIELDS

LEMMA AddsOne ==
  ASSUME NEW S, IsFiniteSet(S), NEW x, NEW T, T \subseteq S \cup {x}
  PROVE  IsFiniteSet(T) /\ Cardinality(T) <= Cardinality(S) + 1
<1>1. /\ IsFiniteSet(S \cup {x}) /\ Cardinality(S \cup {x}) \in Nat /\ Cardinality(S) \in Nat
      /\ Cardinality(S \cup {x}) = IF x \in S THEN Cardinality(S) ELSE Cardinality(S) + 1
  BY FS_AddElement, FS_CardinalityType
<1>2. IsFiniteSet(T) /\ Cardinality(T) \in Nat /\ Cardinality(T) <= Cardinality(S \cup {x})
  BY <1>1, FS_Subset, FS_CardinalityType
<1> QED
  BY <1>1, <1>2

(* What a write costs at most: the record it was to append, and the one the*)
(* open line held.                                                         *)
LEMMA WriteCosts ==
  ASSUME LedgerInv, NEW id \in Message, NEW hash \in Hash,
         NEW text \in LedgerLine, ledger' = Written(text),
         confirmed' \in {confirmed, confirmed \cup {<<id, hash>>}}
  PROVE  LET cost == Cardinality(Unverified') - Cardinality(Unverified) IN
         /\ IsFiniteSet(Unverified')
         /\ Cardinality(Unverified') \in Nat /\ Cardinality(Unverified) \in Nat
         /\ cost <= 2
         /\ Debt # 2 => cost <= 1
         /\ ~LineOpen /\ Matches(text, id, hash) => cost <= 0
<1> DEFINE new == <<id, hash>>
           open == Last(ledger)
           old == <<open.id, open.hash>>
<1>1. ledger \in Seq(LedgerLine) /\ IsFiniteSet(Unverified) /\ confirmed \subseteq Message \X Hash
  BY DEF LedgerInv, LedgerTypeOK
<1>2. ASSUME NEW c \in Unverified', c \notin Unverified, c # new
      PROVE  LineOpen /\ open.fields = N_FIELDS /\ c = old
  <2>1. c \in confirmed /\ c = <<c[1], c[2]>> /\ VerifyConfirmation(c[1], c[2])
    BY <1>1, <1>2 DEF Unverified
  <2>2. ~VerifyConfirmation(c[1], c[2])'
    BY <1>2 DEF Unverified
  <2>3. LineOpen /\ Matches(open, c[1], c[2])
    BY <1>1, <2>1, <2>2, WrittenVerifies
  <2> QED
    BY <2>1, <2>3 DEF Matches
<1>3. Unverified' \subseteq (Unverified \cup {new}) \cup {old}
  BY <1>2
<1>4. IsFiniteSet(Unverified \cup {new})
      /\ Cardinality(Unverified \cup {new}) <= Cardinality(Unverified) + 1
  BY <1>1, AddsOne
<1>5. IsFiniteSet(Unverified')
      /\ Cardinality(Unverified') <= Cardinality(Unverified \cup {new}) + 1
  BY <1>3, <1>4, AddsOne
<1>6. /\ Cardinality(Unverified') \in Nat /\ Cardinality(Unverified) \in Nat
      /\ Cardinality(Unverified \cup {new}) \in Nat
  BY <1>1, <1>4, <1>5, FS_CardinalityType
<1>7. ASSUME Debt # 2
      PROVE  Cardinality(Unverified') <= Cardinality(Unverified) + 1
  <2>1. ~(LineOpen /\ open.fields = N_FIELDS)
    BY <1>7 DEF Debt
  <2>2. Unverified' \subseteq Unverified \cup {new}
    BY <1>2, <2>1
  <2> QED
    BY <1>1, <2>2, AddsOne
<1>8. ASSUME ~LineOpen, Matches(text, id, hash)
      PROVE  Cardinality(Unverified') <= Cardinality(Unverified)
  <2>1. VerifyConfirmation(id, hash)'
    BY <1>1, <1>8, WrittenVerifies
  <2>2. new \notin Unverified'
    BY <2>1 DEF Unverified
  <2>3. Unverified' \subseteq Unverified
    BY <1>2, <1>8, <2>2
  <2> QED
    BY <1>1, <2>3, FS_Subset
<1> QED
  BY <1>4, <1>5, <1>6, <1>7, <1>8

(* A record, and what is left of one that is cut short                     *)
LEMMA Records ==
  ASSUME NEW id \in Message, NEW hash \in Hash
  PROVE  /\ \A n \in 1..N_FIELDS :
              /\ Cut(id, hash, n) \in LedgerLine /\ Sound(Cut(id, hash, n), {<<id, hash>>})
              /\ ~Cut(id, hash, n).ended /\ Cut(id, hash, n).fields = n
              /\ n = N_FIELDS => Matches(Cut(id, hash, n), id, hash)
         /\ Whole(id, hash) \in LedgerLine /\ Sound(Whole(id, hash), {<<id, hash>>})
         /\ Whole(id, hash).ended /\ Matches(Whole(id, hash), id, hash)
<1>1. \A n \in 1..N_FIELDS :
        /\ Cut(id, hash, n) \in LedgerLine /\ Sound(Cut(id, hash, n), {<<id, hash>>})
        /\ ~Cut(id, hash, n).ended /\ Cut(id, hash, n).fields = n
        /\ n = N_FIELDS => Matches(Cut(id, hash, n), id, hash)
  BY LedgerAssumption DEF Cut, N_FIELDS, LedgerLine, Sound, Matches
<1>2. /\ Whole(id, hash) \in LedgerLine /\ Whole(id, hash).ended
      /\ Whole(id, hash).fields = N_FIELDS
      /\ Whole(id, hash).id = id /\ Whole(id, hash).hash = hash
  <2> DEFINE c == Cut(id, hash, N_FIELDS)
  <2>1. c \in LedgerLine /\ c.fields = N_FIELDS /\ c.id = id /\ c.hash = hash
    BY <1>1 DEF Matches, N_FIELDS
  <2>2. Whole(id, hash) = [c EXCEPT !.ended = TRUE]
    BY DEF Whole
  <2> HIDE DEF c
  <2>3. [c EXCEPT !.ended = TRUE] \in LedgerLine
    BY <2>1 DEF LedgerLine
  <2>4. /\ [c EXCEPT !.ended = TRUE].fields = c.fields
        /\ [c EXCEPT !.ended = TRUE].id = c.id /\ [c EXCEPT !.ended = TRUE].hash = c.hash
    BY <2>1 DEF LedgerLine
  <2>5. [c EXCEPT !.ended = TRUE].ended
    BY <2>1 DEF LedgerLine
  <2> QED
    BY <2>1, <2>2, <2>3, <2>4, <2>5
<1> QED
  BY <1>1, <1>2 DEF Sound, Matches

LEMMA LedgerStep ==
  ASSUME LedgerInv, LedgerNext
  PROVE  LedgerInv'
<1> PICK id \in Message, hash \in Hash : AppendConfirmation(id, hash)
  BY DEF LedgerNext
<1> DEFINE pair == <<id, hash>>
<1>1. /\ appends < MaxAppends /\ appends' = appends + 1
      /\ attempted' = attempted \cup {pair}
  BY DEF AppendConfirmation
<1>2. /\ ledger \in Seq(LedgerLine) /\ appends \in 0..MaxAppends /\ cuts \in 0..appends
      /\ confirmed \subseteq attempted /\ attempted \subseteq Message \X Hash
      /\ MaxAppends \in Nat
  BY LedgerAssumption DEF LedgerInv, LedgerTypeOK
<1>3. AllSound(ledger, attempted')
  BY <1>1 DEF LedgerInv, AllSound, Sound
<1>4. attempted' \subseteq Message \X Hash /\ appends' \in 0..MaxAppends
  BY <1>1, <1>2
<1>5. IsFiniteSet(Unverified) /\ Cardinality(Unverified) + Debt <= 2 * cuts
  BY DEF LedgerInv
<1>6. ASSUME NEW text \in LedgerLine, Sound(text, {pair}), ledger' = Written(text)
      PROVE  ledger' \in Seq(LedgerLine) /\ AllSound(ledger, attempted)'
  <2>1. Sound(text, attempted')
    BY <1>1, <1>6 DEF Sound
  <2> QED
    BY <1>2, <1>3, <1>6, <2>1, WrittenLines, WrittenSound DEF AllSound, Sound
<1>7. ASSUME ledger' = Written(Whole(id, hash)), confirmed' = confirmed \cup {pair},
             cuts' = cuts
      PROVE  LedgerInv'
  <2> DEFINE text == Whole(id, hash)
  <2>1. text \in LedgerLine /\ Sound(text, {pair}) /\ text.ended /\ Matches(text, id, hash)
    BY Records
  <2> HIDE DEF text
  <2>2. ledger' = Written(text) /\ confirmed' \in {confirmed, confirmed \cup {pair}}
    BY <1>7 DEF text
  <2>3. LedgerTypeOK' /\ AllSound(ledger, attempted)'
    <3>1. ledger' \in Seq(LedgerLine) /\ AllSound(ledger, attempted)'
      BY <1>6, <2>1, <2>2
    <3>2. cuts' \in 0..appends'
      BY <1>1, <1>2, <1>7
    <3>3. confirmed' \subseteq attempted'
      BY <1>1, <1>2, <1>7
    <3> QED
      BY <1>4, <3>1, <3>2, <3>3 DEF LedgerTypeOK
  <2>4. Debt' = 0 /\ Debt \in {0, 1, 2}
    BY <1>2, <2>1, <2>2, WrittenDebt
  <2>5. /\ IsFiniteSet(Unverified')
        /\ Cardinality(Unverified') \in Nat /\ Cardinality(Unverified) \in Nat
        /\ Cardinality(Unverified') <= Cardinality(Unverified) + Debt
    <3>1. ~LineOpen => Debt = 0
      BY DEF Debt
    <3>2. LineOpen => Debt # 0
      BY DEF Debt
    <3> QED
      BY <2>1, <2>2, <2>4, <3>1, <3>2, WriteCosts
  <2> QED
    BY <1>2, <1>5, <1>7, <2>3, <2>4, <2>5 DEF LedgerInv
<1>8. ASSUME NEW n \in 1..N_FIELDS, ledger' = Written(Cut(id, hash, n)),
             confirmed' \in {confirmed, confirmed \cup {pair}}, cuts' = cuts + 1
      PROVE  LedgerInv'
  <2> DEFINE text == Cut(id, hash, n)
  <2>1. /\ text \in LedgerLine /\ Sound(text, {pair}) /\ text.fields = n
        /\ n = N_FIELDS => Matches(text, id, hash)
    BY Records
  <2> HIDE DEF text
  <2>2. ledger' = Written(text)
    BY <1>8 DEF text
  <2>3. LedgerTypeOK' /\ AllSound(ledger, attempted)'
    <3>1. ledger' \in Seq(LedgerLine) /\ AllSound(ledger, attempted)'
      BY <1>6, <2>1, <2>2
    <3>2. cuts' \in 0..appends'
      BY <1>1, <1>2, <1>8
    <3>3. confirmed' \subseteq attempted'
      BY <1>1, <1>2, <1>8
    <3> QED
      BY <1>4, <3>1, <3>2, <3>3 DEF LedgerTypeOK
  <2>4. /\ Debt' \in {0, 1, 2} /\ Debt \in {0, 1, 2}
        /\ ~LineOpen /\ n # N_FIELDS => Debt' \in {0, 1}
    BY <1>2, <2>1, <2>2, WrittenDebt
  <2>5. /\ IsFiniteSet(Unverified')
        /\ Cardinality(Unverified') \in Nat /\ Cardinality(Unverified) \in Nat
        /\ Cardinality(Unverified') <= Cardinality(Unverified) + 2
        /\ Debt # 2 => Cardinality(Unverified') <= Cardinality(Unverified) + 1
        /\ ~LineOpen /\ n = N_FIELDS => Cardinality(Unverified') <= Cardinality(Unverified)
    BY <1>8, <2>1, <2>2, WriteCosts
  <2>6. LineOpen => Debt # 0
    BY DEF Debt
  <2>7. Cardinality(Unverified') + Debt' <= Cardinality(Unverified) + Debt + 2
    BY <2>4, <2>5, <2>6
  <2> QED
    BY <1>2, <1>5, <1>8, <2>3, <2>4, <2>5, <2>7 DEF LedgerInv
<1>9. ASSUME ledger' = ledger, confirmed' = confirmed, cuts' = cuts
      PROVE  LedgerInv'
  <2>1. LedgerTypeOK' /\ AllSound(ledger, attempted)'
    BY <1>1, <1>2, <1>3, <1>4, <1>9 DEF LedgerTypeOK, AllSound, Sound
  <2>2. Unverified' = Unverified /\ Debt' = Debt
    BY <1>9 DEF Unverified, VerifyConfirmation, Matches, Debt, LineOpen
  <2> QED
    BY <1>5, <1>9, <2>1, <2>2 DEF LedgerInv
<1> QED
  BY <1>7, <1>8, <1>9 DEF AppendConfirmation

LEMMA LedgerInvariant == Spec => []LedgerInv
<1>1. Init => LedgerInv
  <2> SUFFICES ASSUME Init
               PROVE  LedgerInv
    OBVIOUS
  <2>1. /\ ledger = <<>> /\ confirmed = {} /\ appends = 0 /\ attempted = {} /\ cuts = 0
    BY DEF Init, LedgerInit
  <2>2. Unverified = {} /\ Debt = 0 /\ AllSound(ledger, attempted)
    BY <2>1 DEF Unverified, Debt, LineOpen, AllSound
  <2>3. LedgerTypeOK
    BY <2>1, LedgerAssumption DEF LedgerTypeOK
  <2> QED
    BY <2>1, <2>2, <2>3, FS_EmptySet DEF LedgerInv
<1>2. LedgerInv /\ UNCHANGED ledgerVars => LedgerInv'
  BY DEF LedgerInv, LedgerTypeOK, Unverified, VerifyConfirmation, Matches, Debt, LineOpen,
         AllSound, Sound, ledgerVars
<1>3. LedgerInv /\ [Next]_vars => LedgerInv'
  BY <1>2, LedgerStep DEF Next, vars
<1> QED
  BY <1>1, <1>3, PTL DEF Spec

(* LedgerTells: over any number of appends, any of which may be cut short  *)
(* anywhere, no two pieces of records make one that verifies and that      *)
(* nobody confirmed, and what was confirmed verifies, but for two records  *)
(* a cut at most.                                                          *)
THEOREM LedgerAlwaysTells == Spec => []LedgerTells
<1> SUFFICES ASSUME LedgerInv
             PROVE  LedgerTells
  BY LedgerInvariant, PTL
<1>1. VerifiedWasAppended
  BY DEF LedgerInv, AllSound, Sound, VerifiedWasAppended, VerifyConfirmation, Matches
<1>2. CutsCostTwo
  <2>1. Debt \in {0, 1, 2}
    BY DEF Debt
  <2>2. Cardinality(Unverified) \in Nat /\ cuts \in Nat
    BY LedgerAssumption, FS_CardinalityType DEF LedgerInv, LedgerTypeOK
  <2>3. Cardinality(Unverified) <= 2 * cuts
    BY <2>1, <2>2 DEF LedgerInv
  <2> QED
    BY <2>3 DEF CutsCostTwo, Unverified
<1> QED
  BY <1>1, <1>2 DEF LedgerInv, LedgerTells

-----------------------------------------------------------------------------
(* A call is underway in one agent at most, each file is named after its   *)
(* entry, and what is about to be written is what the call is to make of   *)
(* the entry that is there.                                                *)
InHand(a) == /\ njob[a] = intent[a].entry /\ intent[a].of = njob[a].stem
             /\ njob[a].state # V1

AsMeant(s) == IF IsEntry(s) THEN Parsed(notes[s]) = meant[s] ELSE notes[s] = meant[s]
Filling(s) == \E a \in Agent : npc[a] = "fill" /\ njob[a].stem = s

OneByOne ==
  /\ \A a, b \in Agent : npc[a] # "idle" /\ npc[b] # "idle" => a = b
  /\ \A s \in Stem : IsEntry(s) => notes[s].stem = s
  /\ \A a \in Agent : npc[a] # "idle" => InHand(a)
  /\ \A s \in Stem : Filling(s) \/ AsMeant(s)

(* What an entry supersedes is there.                                      *)
Anchored(f) == f \in Entry /\ f.supersedes # NoStem => notes[f.supersedes] # Missing

KnowledgeInv ==
  /\ KnowledgeTypeOK
  /\ \A s \in Stem : meant[s] \in Entry => meant[s].state # V1
  /\ \A a \in Agent : npc[a] # "idle" =>
       /\ njob[a] \in Entry /\ intent[a].of \in Stem
       /\ intent[a].entry \in Entry \union {Missing}
       /\ intent[a].entry \in Entry => intent[a].entry.state # V1
  /\ DOMAIN intent = Agent
  /\ \A s \in Stem : Anchored(notes[s])
  /\ \A a \in Agent : Anchored(njob[a])
  /\ tidy /\ ~clashed => OneByOne

(* A rewrite of one field and the reading of an old entry leave the name   *)
(* and the edge of an entry as they are.                                   *)
SameNote(e, f) ==
  e \in Entry /\ e.stem = f.stem /\ e.supersedes = f.supersedes /\ e.state # V1

LEMMA ParsedNote ==
  ASSUME NEW f \in Entry
  PROVE  SameNote(Parsed(f), f) /\ (f.state # V1 => Parsed(f) = f)
<1>1. CASE f.state = V1
  <2>1. Parsed(f) = [stem |-> f.stem, fact |-> f.fact, state |-> "active",
                     supersedes |-> f.supersedes, accessed |-> f.accessed]
    BY <1>1 DEF Parsed, Entry
  <2> QED
    BY <1>1, <2>1 DEF SameNote, Entry, STATES, V1
<1>2. CASE f.state # V1
  BY <1>2 DEF Parsed, SameNote
<1> QED
  BY <1>1, <1>2

LEMMA WithField ==
  ASSUME NEW f \in Entry, f.state # V1
  PROVE  /\ \A day \in 1..MaxDay : SameNote(With(f, "accessed", day), f)
         /\ \A state \in STATES : SameNote(With(f, "state", state), f)
<1>0. f # Missing
  BY KnowledgeAssumption
<1>1. ASSUME NEW day \in 1..MaxDay
      PROVE  SameNote(With(f, "accessed", day), f)
  <2>1. With(f, "accessed", day) = [stem |-> f.stem, fact |-> f.fact, state |-> f.state,
                                    supersedes |-> f.supersedes, accessed |-> day]
    BY <1>0 DEF With, Entry
  <2> QED
    BY <2>1, KnowledgeAssumption DEF SameNote, Entry
<1>2. ASSUME NEW state \in STATES
      PROVE  SameNote(With(f, "state", state), f)
  <2>1. With(f, "state", state) = [stem |-> f.stem, fact |-> f.fact, state |-> state,
                                   supersedes |-> f.supersedes, accessed |-> f.accessed]
    BY <1>0 DEF With, Entry
  <2> QED
    BY <2>1 DEF SameNote, Entry, STATES, V1
<1> QED
  BY <1>1, <1>2

LEMMA NewNote ==
  ASSUME NEW s \in Stem, NEW fact \in Fact, NEW old \in Stem \union {NoStem}
  PROVE  /\ New(s, fact, old) \in Entry
         /\ New(s, fact, old).stem = s /\ New(s, fact, old).supersedes = old
         /\ New(s, fact, old).state # V1
BY KnowledgeAssumption DEF New, Entry, STATES, V1

LEMMA KnowledgeInvInit == Init => KnowledgeInv
<1> SUFFICES ASSUME Init
             PROVE  KnowledgeInv
  OBVIOUS
<1> USE DEF Init, KnowledgeInit
<1>1. notes \in [Stem -> Entry \union {Missing}] /\ notes \in Found
  BY KnowledgeAssumption
<1>2. \A s \in Stem : IsEntry(s) => Parsed(notes[s]) \in Entry /\ Parsed(notes[s]).state # V1
  BY ParsedNote DEF SameNote, IsEntry
<1>3. /\ meant \in [Stem -> Entry \union {Missing}]
      /\ \A s \in Stem : meant[s] \in Entry => meant[s].state # V1
  BY <1>2, KnowledgeAssumption
<1>4. KnowledgeTypeOK
  <2>1. writes \in 0..MaxWrites /\ clashed \in BOOLEAN
    <3>1. writes = 0 /\ clashed = FALSE
      OBVIOUS
    <3>2. MaxWrites \in Nat
      BY KnowledgeAssumption
    <3>3. writes \in 0..MaxWrites
      BY ONLY <3>1, <3>2
    <3>4. clashed \in BOOLEAN
      BY ONLY <3>1
    <3> QED
      BY <3>3, <3>4
  <2>2. tidy \in BOOLEAN
    <3>1. tidy = (\A s \in Stem : IsEntry(s) => notes[s].stem = s)
      OBVIOUS
    <3> QED
      BY ONLY <3>1
  <2>3. npc \in [Agent -> {"idle", "open", "fill"}] /\ njob \in [Agent -> Entry \union {Missing}]
        /\ \A a \in Agent : npc[a] = "idle" <=> njob[a] = Missing
    OBVIOUS
  <2>4. notes \in [Stem -> Entry \union {Missing, Torn}]
    BY <1>1
  <2> QED
    BY <1>3, <2>1, <2>2, <2>3, <2>4 DEF KnowledgeTypeOK
<1>5. \A s \in Stem : Anchored(notes[s])
  BY <1>1, KnowledgeAssumption DEF Anchored
<1>6. (\A a \in Agent : Anchored(njob[a])) /\ (\A a \in Agent : npc[a] = "idle")
  BY KnowledgeAssumption DEF Anchored
<1>7. tidy => OneByOne
  BY <1>1 DEF OneByOne, AsMeant, IsEntry
<1> QED
  BY <1>3, <1>4, <1>5, <1>6, <1>7 DEF KnowledgeInv

(* Every call begins alike: with an entry whose edge, if it has one, has a *)
(* target, and which is what the caller means if calls go one by one.      *)
LEMMA BeginKeeps ==
  ASSUME KnowledgeInv, NEW a \in Agent, NEW entry \in Entry, NEW of \in Stem,
         NEW wanted \in Entry \union {Missing}, Begin(a, entry, of, wanted),
         Anchored(entry), entry.state # V1, wanted \in Entry => wanted.state # V1,
         tidy /\ (\A s \in Stem : AsMeant(s)) /\ (\A s \in Stem : IsEntry(s) => notes[s].stem = s)
           => entry = wanted /\ of = entry.stem
  PROVE  KnowledgeInv'
<1> USE DEF Begin, KnowledgeInv, KnowledgeTypeOK
<1>0. entry # Missing
  BY KnowledgeAssumption
<1>1. KnowledgeTypeOK'
  BY <1>0, KnowledgeAssumption
<1>2. \A b \in Agent : npc'[b] # "idle" =>
        /\ njob'[b] \in Entry /\ intent'[b].of \in Stem
        /\ intent'[b].entry \in Entry \union {Missing}
        /\ intent'[b].entry \in Entry => intent'[b].entry.state # V1
  OBVIOUS
<1>3. (\A s \in Stem : Anchored(notes[s]))' /\ (\A b \in Agent : Anchored(njob[b]))'
  BY DEF Anchored
<1>4. ASSUME tidy', ~clashed'
      PROVE  OneByOne'
  <2>1. \A b \in Agent : npc[b] = "idle"
    BY <1>4
  <2>2. OneByOne /\ \A s \in Stem : AsMeant(s)
    BY <1>4, <2>1 DEF OneByOne, Filling
  <2>3. InHand(a)'
    BY <1>4, <2>2 DEF InHand, OneByOne
  <2>4. \A s \in Stem : AsMeant(s)'
    BY <2>2 DEF AsMeant, IsEntry
  <2> QED
    BY <2>1, <2>2, <2>3, <2>4 DEF OneByOne, InHand, IsEntry
<1> QED
  BY <1>1, <1>2, <1>3, <1>4

LEMMA RewriteKeeps ==
  ASSUME KnowledgeInv, NEW a \in Agent, NEW s \in Stem, NEW field, NEW value,
         \A e \in Entry : e.state # V1 => SameNote(With(e, field, value), e),
         Rewrite(a, s, field, value)
  PROVE  KnowledgeInv'
<1> DEFINE e == With(Parsed(notes[s]), field, value)
           w == With(meant[s], field, value)
<1>1. notes[s] \in Entry /\ Begin(a, e, s, w)
  BY DEF Rewrite, IsEntry
<1>2. SameNote(Parsed(notes[s]), notes[s])
  BY <1>1, ParsedNote
<1>3. SameNote(e, notes[s])
  BY <1>2 DEF SameNote
<1>4. meant[s] \in Entry \union {Missing} /\ (meant[s] \in Entry => meant[s].state # V1)
  BY DEF KnowledgeInv, KnowledgeTypeOK
<1>5. w \in Entry \union {Missing} /\ (w \in Entry => w.state # V1)
  <2>1. CASE meant[s] \in Entry
    BY <1>4, <2>1 DEF SameNote
  <2>2. CASE meant[s] = Missing
    BY <2>2, KnowledgeAssumption DEF With
  <2> QED
    BY <1>4, <2>1, <2>2
<1>6. e \in Entry /\ e.state # V1 /\ Anchored(e)
  BY <1>1, <1>3 DEF SameNote, Anchored, KnowledgeInv
<1>7. (\A t \in Stem : AsMeant(t)) /\ (\A t \in Stem : IsEntry(t) => notes[t].stem = t)
        => e = w /\ s = e.stem
  BY <1>1, <1>3 DEF AsMeant, IsEntry, SameNote
<1> HIDE DEF e, w
<1> QED
  BY <1>1, <1>5, <1>6, <1>7, BeginKeeps

(* While calls go one by one, the one underway is the only one.            *)
LEMMA OnlyCall ==
  ASSUME KnowledgeInv, NEW a \in Agent, npc[a] # "idle", tidy, ~clashed
  PROVE  OneByOne /\ InHand(a) /\ \A b \in Agent \ {a} : npc[b] = "idle"
BY DEF KnowledgeInv, OneByOne

LEMMA OpenKeeps ==
  ASSUME KnowledgeInv, NEW a \in Agent, OpenNote(a)
  PROVE  KnowledgeInv'
<1> DEFINE s == njob[a].stem
<1>0. /\ npc[a] = "open" /\ npc' = [npc EXCEPT ![a] = "fill"]
      /\ notes' = [notes EXCEPT ![s] = Torn]
      /\ njob' = njob /\ meant' = meant /\ intent' = intent /\ tidy' = tidy
      /\ clashed' = clashed /\ writes' = writes
  BY DEF OpenNote
<1>1. njob[a] \in Entry /\ s \in Stem
  BY <1>0 DEF KnowledgeInv, Entry
<1>2. KnowledgeTypeOK'
  BY <1>0 DEF KnowledgeInv, KnowledgeTypeOK
<1>3. \A t \in Stem : notes[t] # Missing => notes'[t] # Missing
  BY <1>0, KnowledgeAssumption DEF KnowledgeInv, KnowledgeTypeOK
<1>4. ASSUME NEW f, Anchored(f)
      PROVE  Anchored(f)'
  BY <1>3, <1>4 DEF Anchored, Entry
<1>5. \A t \in Stem : Anchored(notes[t])'
  <2>1. Anchored(Torn)'
    BY KnowledgeAssumption DEF Anchored
  <2> QED
    BY <1>0, <1>4, <2>1 DEF KnowledgeInv, KnowledgeTypeOK, Anchored
<1>6. \A b \in Agent : Anchored(njob[b])'
  BY <1>0, <1>4 DEF KnowledgeInv, Anchored
<1>7. ASSUME tidy', ~clashed'
      PROVE  OneByOne'
  <2>1. OneByOne /\ InHand(a) /\ \A b \in Agent \ {a} : npc[b] = "idle"
    BY <1>0, <1>7, OnlyCall
  <2>2. \A t \in Stem : IsEntry(t)' => notes'[t].stem = t
    BY <1>0, <1>1, <2>1, KnowledgeAssumption DEF OneByOne, IsEntry, KnowledgeInv, KnowledgeTypeOK
  <2>3. \A t \in Stem : (Filling(t) \/ AsMeant(t))'
    <3>1. TAKE t \in Stem
    <3>2. CASE t = s
      BY <1>0, <3>2 DEF Filling, KnowledgeInv, KnowledgeTypeOK
    <3>3. CASE t # s
      BY <1>0, <2>1, <3>3 DEF Filling, AsMeant, IsEntry, OneByOne, KnowledgeInv, KnowledgeTypeOK
    <3> QED
      BY <3>2, <3>3
  <2> QED
    BY <1>0, <2>1, <2>2, <2>3 DEF OneByOne, InHand, KnowledgeInv, KnowledgeTypeOK
<1> QED
  BY <1>0, <1>2, <1>5, <1>6, <1>7 DEF KnowledgeInv, KnowledgeTypeOK

(* The call is over: its entry is in the file, what was there before, or   *)
(* neither.                                                                *)
LEMMA FillKeeps ==
  ASSUME KnowledgeInv, NEW a \in Agent, FillNote(a)
  PROVE  KnowledgeInv'
<1> DEFINE s == njob[a].stem
           of == intent[a].of
           shared == \E x \in Agent \ {a} : npc[x] = "fill" /\ njob[x].stem = s
<1>0. PICK text \in {njob[a]} \union IF shared THEN {Torn} ELSE {} :
        notes' = [notes EXCEPT ![s] = text]
  BY DEF FillNote
<1>1. /\ npc[a] = "fill" /\ npc' = [npc EXCEPT ![a] = "idle"]
      /\ njob' = [njob EXCEPT ![a] = Missing] /\ intent' = [intent EXCEPT ![a] = NoIntent]
      /\ meant' = [meant EXCEPT ![of] = intent[a].entry]
      /\ tidy' = tidy /\ clashed' = clashed /\ writes' = writes
  BY DEF FillNote, LeaveNote
<1>2. /\ njob[a] \in Entry /\ s \in Stem /\ of \in Stem
      /\ intent[a].entry \in Entry \union {Missing}
      /\ intent[a].entry \in Entry => intent[a].entry.state # V1
  BY <1>1 DEF KnowledgeInv, Entry
<1>3. text = njob[a] \/ (text = Torn /\ shared)
  BY <1>0
<1>4. KnowledgeTypeOK' /\ \A t \in Stem : meant'[t] \in Entry => meant'[t].state # V1
  BY <1>0, <1>1, <1>2, <1>3, KnowledgeAssumption DEF KnowledgeInv, KnowledgeTypeOK
<1>5. \A t \in Stem : notes[t] # Missing => notes'[t] # Missing
  BY <1>0, <1>2, <1>3, KnowledgeAssumption DEF KnowledgeInv, KnowledgeTypeOK
<1>6. ASSUME NEW f, Anchored(f)
      PROVE  Anchored(f)'
  BY <1>5, <1>6 DEF Anchored, Entry
<1>7. \A t \in Stem : Anchored(notes[t])'
  <2>1. Anchored(text)'
    BY <1>3, <1>6, KnowledgeAssumption DEF Anchored, KnowledgeInv
  <2> QED
    BY <1>0, <1>6, <2>1 DEF KnowledgeInv, KnowledgeTypeOK, Anchored
<1>8. \A b \in Agent : Anchored(njob[b])'
  <2>1. Anchored(Missing)'
    BY KnowledgeAssumption DEF Anchored
  <2> QED
    BY <1>1, <1>6, <2>1 DEF KnowledgeInv, KnowledgeTypeOK, Anchored
<1>9. ASSUME tidy', ~clashed'
      PROVE  OneByOne'
  <2>1. OneByOne /\ InHand(a) /\ \A b \in Agent \ {a} : npc[b] = "idle"
    BY <1>1, <1>9, OnlyCall
  <2>2. text = njob[a] /\ njob[a] = intent[a].entry /\ of = s /\ njob[a].state # V1
    BY <1>3, <2>1 DEF InHand
  <2>3. /\ notes' = [notes EXCEPT ![s] = njob[a]] /\ meant' = [meant EXCEPT ![s] = njob[a]]
        /\ Parsed(njob[a]) = njob[a]
    BY <1>0, <1>1, <1>2, <2>2, ParsedNote
  <2>4. \A b \in Agent : npc'[b] = "idle"
    BY <1>1, <2>1 DEF KnowledgeInv, KnowledgeTypeOK
  <2>5. \A t \in Stem : IsEntry(t)' => notes'[t].stem = t
    BY <1>2, <2>1, <2>3 DEF OneByOne, IsEntry, KnowledgeInv, KnowledgeTypeOK
  <2>6. \A t \in Stem : AsMeant(t)'
    <3>1. TAKE t \in Stem
    <3>2. CASE t = s
      BY <1>2, <2>3, <3>2 DEF AsMeant, IsEntry, KnowledgeInv, KnowledgeTypeOK
    <3>3. CASE t # s
      <4>1. AsMeant(t)
        BY <2>1, <3>3 DEF OneByOne, Filling
      <4> QED
        BY <2>3, <3>3, <4>1 DEF AsMeant, IsEntry, KnowledgeInv, KnowledgeTypeOK
    <3> QED
      BY <3>2, <3>3
  <2> QED
    BY <2>4, <2>5, <2>6 DEF OneByOne
<1>10. \A b \in Agent : npc'[b] # "idle" => b # a /\ npc[b] # "idle"
  BY <1>1 DEF KnowledgeInv, KnowledgeTypeOK
<1>11. /\ DOMAIN intent' = Agent
       /\ \A b \in Agent : npc'[b] # "idle" => njob'[b] = njob[b] /\ intent'[b] = intent[b]
  BY <1>1, <1>10 DEF KnowledgeInv, KnowledgeTypeOK
<1> QED
  BY <1>4, <1>7, <1>8, <1>9, <1>10, <1>11 DEF KnowledgeInv

LEMMA DyingKeeps ==
  ASSUME KnowledgeInv, NEW a \in Agent, AgentDiesWriting(a)
  PROVE  KnowledgeInv'
<1>1. /\ npc' = [npc EXCEPT ![a] = "idle"] /\ njob' = [njob EXCEPT ![a] = Missing]
      /\ intent' = [intent EXCEPT ![a] = NoIntent] /\ clashed' = TRUE
      /\ notes' = notes /\ writes' = writes /\ meant' = meant /\ tidy' = tidy
  BY DEF AgentDiesWriting, LeaveNote
<1>2. KnowledgeTypeOK'
  BY <1>1 DEF KnowledgeInv, KnowledgeTypeOK
<1>3. \A b \in Agent : Anchored(njob[b])'
  <2>1. Anchored(Missing)'
    BY KnowledgeAssumption DEF Anchored
  <2> QED
    BY <1>1, <2>1 DEF KnowledgeInv, KnowledgeTypeOK, Anchored
<1>4. \A b \in Agent : npc'[b] # "idle" =>
        npc[b] # "idle" /\ njob'[b] = njob[b] /\ intent'[b] = intent[b]
  BY <1>1 DEF KnowledgeInv, KnowledgeTypeOK
<1> QED
  BY <1>1, <1>2, <1>3, <1>4 DEF KnowledgeInv, Anchored

LEMMA KnowledgeStep ==
  ASSUME KnowledgeInv, KnowledgeNext
  PROVE  KnowledgeInv'
<1> PICK a \in Agent :
      \/ \E s \in Stem :
           \/ \E f \in Fact : AddEntry(a, s, f) \/ \E old \in Stem : AmendEntry(a, old, s, f)
           \/ \E day \in 1..MaxDay : MarkAccessed(a, s, day)
           \/ \E state \in STATES : SetState(a, s, state)
      \/ OpenNote(a) \/ FillNote(a) \/ AgentDiesWriting(a)
  BY DEF KnowledgeNext
<1>1. ASSUME NEW s \in Stem, NEW f \in Fact, AddEntry(a, s, f)
      PROVE  KnowledgeInv'
  <2> DEFINE e == New(s, f, NoStem)
  <2>1. e \in Entry /\ e.stem = s /\ e.supersedes = NoStem /\ e.state # V1
    BY NewNote
  <2>2. Begin(a, e, s, e)
    BY <1>1 DEF AddEntry
  <2> HIDE DEF e
  <2>3. Anchored(e)
    BY <2>1 DEF Anchored
  <2> QED
    BY <2>1, <2>2, <2>3, BeginKeeps
<1>2. ASSUME NEW s \in Stem, NEW f \in Fact, NEW old \in Stem, AmendEntry(a, old, s, f)
      PROVE  KnowledgeInv'
  <2> DEFINE e == New(s, f, old)
  <2>1. e \in Entry /\ e.stem = s /\ e.supersedes = old /\ e.state # V1
    BY NewNote
  <2>2. Begin(a, e, s, e) /\ IsEntry(old)
    BY <1>2 DEF AmendEntry
  <2> HIDE DEF e
  <2>3. Anchored(e)
    BY <2>1, <2>2, KnowledgeAssumption DEF Anchored, IsEntry
  <2> QED
    BY <2>1, <2>2, <2>3, BeginKeeps
<1>3. ASSUME NEW s \in Stem, NEW day \in 1..MaxDay, MarkAccessed(a, s, day)
      PROVE  KnowledgeInv'
  BY <1>3, WithField, RewriteKeeps DEF MarkAccessed
<1>4. ASSUME NEW s \in Stem, NEW state \in STATES, SetState(a, s, state)
      PROVE  KnowledgeInv'
  BY <1>4, WithField, RewriteKeeps DEF SetState
<1> QED
  BY <1>1, <1>2, <1>3, <1>4, OpenKeeps, FillKeeps, DyingKeeps

LEMMA KnowledgeInvariant == Spec => []KnowledgeInv
<1>1. KnowledgeInv /\ UNCHANGED knowledgeVars => KnowledgeInv'
  BY DEF KnowledgeInv, KnowledgeTypeOK, OneByOne, InHand, AsMeant, IsEntry, Filling, Anchored,
         knowledgeVars
<1>2. KnowledgeInv /\ [Next]_vars => KnowledgeInv'
  BY <1>1, KnowledgeStep DEF Next, vars
<1> QED
  BY <1>2, KnowledgeInvInit, PTL DEF Spec

(* KnowledgeAsMeant: for any agents, entries and calls, overlapping or cut *)
(* short, no edge dangles, and while calls go one by one the directory and *)
(* its index are what they were to make of it.                             *)
THEOREM KnowledgeStays == Spec => []KnowledgeAsMeant
<1> SUFFICES ASSUME KnowledgeInv
             PROVE  KnowledgeAsMeant
  BY KnowledgeInvariant, PTL
<1>1. KnowledgeTypeOK
  BY DEF KnowledgeInv
<1>2. EntriesAsMeant
  BY DEF KnowledgeInv, OneByOne, Filling, AsMeant, EntriesAsMeant
<1>3. \A s \in Stem : IsEntry(s) => SameNote(Parsed(notes[s]), notes[s])
  BY ParsedNote DEF IsEntry
<1>4. EdgeHasTarget
  <2> SUFFICES ASSUME NEW s \in Stem, NEW t \in Stem, IsEntry(t), Parsed(notes[t]).supersedes = s
               PROVE  notes[s] # Missing
    BY DEF EdgeHasTarget, SupersededBy, LoadEntries
  <2> QED
    BY <1>3, KnowledgeAssumption DEF SameNote, IsEntry, KnowledgeInv, Anchored
<1>5. IndexIsActive
  <2> SUFFICES ASSUME tidy, ~clashed, \A a \in Agent : npc[a] # "fill"
               PROVE  {e.stem : e \in ActiveEntries} =
                        {s \in Stem : meant[s] # Missing /\ meant[s].state = "active"}
    BY DEF IndexIsActive
  <2>1. /\ \A s \in Stem : AsMeant(s)
        /\ \A s \in Stem : IsEntry(s) => Parsed(notes[s]).stem = s
    BY <1>3 DEF KnowledgeInv, OneByOne, Filling, SameNote
  <2>2. \A s \in Stem : meant[s] # Missing <=> IsEntry(s)
    BY <1>1, <1>3, <2>1, KnowledgeAssumption DEF AsMeant, IsEntry, KnowledgeTypeOK, SameNote
  <2>3. \A s \in Stem : IsEntry(s) => meant[s] = Parsed(notes[s])
    BY <2>1 DEF AsMeant
  <2>4. ASSUME NEW s, s \in {e.stem : e \in ActiveEntries}
        PROVE  s \in Stem /\ meant[s] # Missing /\ meant[s].state = "active"
    <3>1. PICK t \in Stem : IsEntry(t) /\ Parsed(notes[t]).state = "active"
                            /\ Parsed(notes[t]).stem = s
      BY <2>4 DEF ActiveEntries, LoadEntries
    <3> QED
      BY <2>1, <2>2, <2>3, <3>1
  <2>5. ASSUME NEW s \in Stem, meant[s] # Missing, meant[s].state = "active"
        PROVE  s \in {e.stem : e \in ActiveEntries}
    <3>1. IsEntry(s) /\ Parsed(notes[s]).state = "active" /\ Parsed(notes[s]).stem = s
      BY <2>1, <2>2, <2>3, <2>5
    <3>2. Parsed(notes[s]) \in ActiveEntries
      BY <3>1 DEF ActiveEntries, LoadEntries
    <3> QED
      BY <3>1, <3>2
  <2> QED
    BY <2>4, <2>5
<1> QED
  BY <1>1, <1>2, <1>4, <1>5 DEF KnowledgeAsMeant

-----------------------------------------------------------------------------
(* The place of a number in a list that goes down                          *)
Rank(n, set) == Cardinality({m \in set : m >= n})

LEMMA RankIsPlace ==
  ASSUME NEW set \in SUBSET Nat, IsFiniteSet(set)
  PROVE  /\ Cardinality(set) \in Nat
         /\ \A n \in set : Rank(n, set) \in 1..Cardinality(set)
         /\ \A n, m \in set : n < m => Rank(m, set) < Rank(n, set)
<1> DEFINE above(n) == {x \in set : x >= n}
<1>1. \A n \in set : IsFiniteSet(above(n)) /\ Cardinality(above(n)) <= Cardinality(set)
  BY FS_Subset
<1>2. \A n \in set : Cardinality(above(n)) \in Nat \ {0}
  <2> TAKE n \in set
  <2>1. n \in above(n)
    OBVIOUS
  <2> QED
    BY <1>1, <2>1, FS_CardinalityType, FS_EmptySet
<1>3. ASSUME NEW n \in set, NEW m \in set, n < m
      PROVE  Cardinality(above(m)) < Cardinality(above(n))
  <2>0. n \in Nat /\ m \in Nat /\ \A x \in set : x \in Nat
    OBVIOUS
  <2>1. above(m) \subseteq above(n) /\ n \in above(n) /\ n \notin above(m)
    <3>1. n >= n /\ ~(n >= m) /\ \A x \in set : x >= m => x >= n
      BY <1>3, <2>0
    <3> QED
      BY <3>1
  <2>2. Cardinality(above(m)) <= Cardinality(above(n))
        /\ Cardinality(above(m)) # Cardinality(above(n))
    BY <1>1, <2>1, FS_Subset
  <2> QED
    BY <1>2, <2>2
<1> QED
  BY <1>1, <1>2, <1>3, FS_CardinalityType DEF Rank

(* NewestFirst lists the whole set, each number at its place.              *)
LEMMA NewestFirstLists ==
  ASSUME NEW set \in SUBSET Nat, IsFiniteSet(set)
  PROVE  /\ NewestFirst(set) \in Seq(set) /\ Len(NewestFirst(set)) = Cardinality(set)
         /\ \A n \in set : NewestFirst(set)[Rank(n, set)] = n
         /\ \A i \in 1..Cardinality(set) : Rank(NewestFirst(set)[i], set) = i
<1> DEFINE size == Cardinality(set)
           rank == [n \in set |-> Rank(n, set)]
           all == NewestFirst(set)
<1>1. size \in Nat /\ rank \in [set -> 1..size]
  BY RankIsPlace
<1>2. \A n, m \in set : rank[n] = rank[m] => n = m
  BY <1>1, RankIsPlace
<1>3. rank \in Injection(set, 1..size)
  BY <1>1, <1>2 DEF Injection, IsInjective
<1>4. IsFiniteSet(1..size) /\ Cardinality(1..size) = size
  BY <1>1, FS_Interval
<1>5. rank \in Surjection(set, 1..size)
  BY <1>3, <1>4, FS_Injection
<1>6. \A i \in 1..size : \E n \in set : rank[n] = i
  BY <1>5 DEF Surjection
<1>7. all = [i \in 1..size |-> CHOOSE n \in set : Rank(n, set) = i]
  BY DEF NewestFirst, Rank
<1>8. \A i \in 1..size : all[i] \in set /\ rank[all[i]] = i
  <2> TAKE i \in 1..size
  <2>1. \E n \in set : Rank(n, set) = i
    BY <1>6
  <2>2. all[i] = CHOOSE n \in set : Rank(n, set) = i
    BY <1>7
  <2> QED
    BY <2>1, <2>2
<1>9. DOMAIN all = 1..size
  BY <1>7
<1>10. all \in [1..size -> set]
  BY <1>7, <1>8
<1>11. all \in Seq(set) /\ Len(all) = size
  BY <1>1, <1>10
<1>12. \A n \in set : all[rank[n]] = n
  BY <1>1, <1>2, <1>8
<1> QED
  BY <1>8, <1>11, <1>12

LEMMA LeastOfTwo ==
  ASSUME NEW x \in Int, NEW y \in Int
  PROVE  Min({x, y}) = IF x <= y THEN x ELSE y
<1>1. \E z \in {x, y} : \A w \in {x, y} : z =< w
  <2>1. CASE x <= y
    BY <2>1
  <2>2. CASE ~(x <= y)
    BY <2>2
  <2> QED
    BY <2>1, <2>2
<1>2. Min({x, y}) \in {x, y} /\ \A w \in {x, y} : Min({x, y}) =< w
  BY <1>1 DEF Min
<1> QED
  BY <1>2

(* The greatest of a finite set is one of it.                              *)
LEMMA GreatestIsIn ==
  ASSUME NEW set \in SUBSET Nat, IsFiniteSet(set), set # {}
  PROVE  Max(set) \in set
<1> DEFINE top == NewestFirst(set)[1]
<1>1. Cardinality(set) \in Nat /\ Cardinality(set) # 0
  BY FS_EmptySet, FS_CardinalityType
<1>2. top \in set /\ Rank(top, set) = 1
  BY <1>1, NewestFirstLists
<1>3. ASSUME NEW n \in set
      PROVE  top >= n
  <2>1. ~(top < n)
    <3>1. Rank(n, set) \in 1..Cardinality(set) /\ (top < n => Rank(n, set) < Rank(top, set))
      BY <1>2, RankIsPlace
    <3> QED
      BY <1>1, <1>2, <3>1
  <2>2. top \in Nat /\ n \in Nat
    BY <1>2
  <2> HIDE DEF top
  <2> QED
    BY <2>1, <2>2
<1> QED
  BY <1>2, <1>3 DEF Max

(* A page holds the numbers of its places.                                 *)
LEMMA PageHolds ==
  ASSUME prs \in SUBSET Nat, IsFiniteSet(prs), NEW req, req.open, req.page \in Nat \ {0}
  PROVE  /\ PageOf(req) \in Seq(prs)
         /\ Len(PageOf(req)) \in Nat /\ Len(PageOf(req)) <= Cardinality(prs)
         /\ Matching(req) = NewestFirst(prs)
         /\ req.page = 1 /\ ~HasNext(req) => Len(PageOf(req)) = Cardinality(prs)
         /\ HasNext(req) <=> Cardinality(prs) > req.page * PerPage
         /\ \A n \in prs : /\ Rank(n, prs) > (req.page - 1) * PerPage
                           /\ Rank(n, prs) <= req.page * PerPage
                           => n \in ToSet(PageOf(req))
<1> DEFINE all == NewestFirst(prs)
           size == Cardinality(prs)
           low == (req.page - 1) * PerPage
           high == req.page * PerPage
           last == IF high <= size THEN high ELSE size
<1>1. all \in Seq(prs) /\ Len(all) = size /\ size \in Nat /\ Matching(req) = all
  BY NewestFirstLists, RankIsPlace DEF Matching
<1>2. PerPage \in Nat \ {0}
  BY HostAssumption
<1>3. low \in Nat /\ high \in Nat
  <2>1. \A p, q \in Nat : p * q \in Nat
    OBVIOUS
  <2> QED
    BY <1>2, <2>1
<1> HIDE DEF low, high, size, all
<1>4. Min({high, size}) = last
  BY <1>1, <1>3, LeastOfTwo
<1>5. PageOf(req) = SubSeq(all, low + 1, last)
  BY <1>1, <1>4 DEF PageOf, low, high
<1>6. last \in Nat /\ last <= size /\ last <= high
  BY <1>1, <1>3
<1> HIDE DEF last
<1>7. \A i \in (low + 1)..last : all[i] \in prs
  BY <1>1, <1>3, <1>6
<1>8. /\ SubSeq(all, low + 1, last) \in Seq(prs)
      /\ Len(SubSeq(all, low + 1, last)) = IF low + 1 <= last THEN last - (low + 1) + 1 ELSE 0
      /\ \A i \in 1..(last - (low + 1) + 1) : SubSeq(all, low + 1, last)[i] = all[low + 1 + i - 1]
  BY <1>1, <1>3, <1>6, <1>7, SubSeqProperties
<1>9. ASSUME NEW n \in prs, Rank(n, prs) > low, Rank(n, prs) <= high
      PROVE  n \in ToSet(PageOf(req))
  <2> DEFINE i == Rank(n, prs) - low
  <2>1. Rank(n, prs) \in 1..size /\ all[Rank(n, prs)] = n
    BY RankIsPlace, NewestFirstLists DEF size, all
  <2>2. Rank(n, prs) <= last
    BY <1>9, <2>1, <1>1, <1>3 DEF last
  <2>3. i \in 1..(last - (low + 1) + 1) /\ low + 1 + i - 1 = Rank(n, prs)
    BY <1>3, <1>6, <1>9, <2>1, <2>2
  <2>4. i \in DOMAIN PageOf(req) /\ PageOf(req)[i] = n
    BY <1>3, <1>5, <1>6, <1>8, <2>1, <2>3
  <2> QED
    BY <2>4 DEF ToSet
<1>10. HasNext(req) <=> size > high
  BY <1>1 DEF HasNext, high
<1>11. /\ Len(PageOf(req)) = IF low + 1 <= last THEN last - low ELSE 0
       /\ Len(PageOf(req)) \in Nat /\ Len(PageOf(req)) <= size
  BY <1>1, <1>3, <1>5, <1>6, <1>8
<1>12. ASSUME req.page = 1, ~HasNext(req)
       PROVE  Len(PageOf(req)) = size
  <2>1. low = 0
    BY <1>2, <1>12 DEF low
  <2>2. last = size
    BY <1>1, <1>3, <1>10, <1>12 DEF last
  <2> QED
    BY <1>1, <1>11, <2>1, <2>2
<1>13. Matching(req) = NewestFirst(prs)
  BY <1>1 DEF all
<1> QED
  BY <1>5, <1>8, <1>9, <1>10, <1>11, <1>12, <1>13 DEF low, high, size

LEMMA SeqOfMore ==
  ASSUME NEW S, NEW T, S \subseteq T, NEW s \in Seq(S)
  PROVE  s \in Seq(T)
<1>1. s \in [1..Len(s) -> S] /\ Len(s) \in Nat
  OBVIOUS
<1>2. s \in [1..Len(s) -> T]
  BY <1>1
<1> QED
  BY <1>1, <1>2

(* Whatever the order, a page holds pull requests that are open: those of  *)
(* its places, if it is asked for, or all, if it is the only one.          *)
LEMMA PageRead ==
  ASSUME prs \in SUBSET Nat, IsFiniteSet(prs), NEW req, req.open, req.page \in Nat \ {0},
         NEW page \in Pages(req)
  PROVE  /\ page \in Seq(prs)
         /\ provider \in AskNewestFirst => page = PageOf(req)
         /\ req.page = 1 /\ ~HasNext(req) => prs \subseteq ToSet(page)
<1> DEFINE long == Len(PageOf(req))
<1>1. /\ PageOf(req) \in Seq(prs) /\ long \in Nat
      /\ Matching(req) = NewestFirst(prs)
      /\ req.page = 1 /\ ~HasNext(req) => long = Cardinality(prs)
      /\ HasNext(req) <=> Cardinality(prs) > req.page * PerPage
      /\ \A n \in prs : /\ Rank(n, prs) > (req.page - 1) * PerPage
                        /\ Rank(n, prs) <= req.page * PerPage
                        => n \in ToSet(PageOf(req))
  BY PageHolds
<1> HIDE DEF long
<1>2. Cardinality(prs) \in Nat /\ \A n \in prs : Rank(n, prs) \in 1..Cardinality(prs)
  BY RankIsPlace, FS_CardinalityType
<1>3. CASE provider \in AskNewestFirst
  <2>1. page = PageOf(req)
    BY <1>3 DEF Pages
  <2>2. ASSUME req.page = 1, ~HasNext(req), NEW n \in prs
        PROVE  n \in ToSet(page)
    <3>1. (req.page - 1) * PerPage = 0 /\ req.page * PerPage = PerPage /\ PerPage \in Nat
      BY <2>2, HostAssumption
    <3>2. Rank(n, prs) > 0 /\ Rank(n, prs) <= PerPage
      BY <1>1, <1>2, <2>2, <3>1
    <3> QED
      BY <1>1, <2>1, <3>1, <3>2
  <2> QED
    BY <1>1, <2>1, <2>2
<1>4. CASE provider \notin AskNewestFirst
  <2>1. ToSet(NewestFirst(prs)) \subseteq prs
    BY NewestFirstLists DEF ToSet
  <2>2. PICK set \in kSubset(long, ToSet(NewestFirst(prs))) : page = NewestFirst(set)
    BY <1>1, <1>4 DEF Pages, long
  <2>3. set \subseteq prs /\ Cardinality(set) = long
    BY <2>1, <2>2 DEF kSubset
  <2>4. IsFiniteSet(set) /\ set \in SUBSET Nat
    BY <2>3, FS_Subset
  <2>5. page \in Seq(set) /\ \A n \in set : n \in ToSet(page)
    <3>1. page \in Seq(set) /\ Len(page) = Cardinality(set)
          /\ \A n \in set : page[Rank(n, set)] = n /\ Rank(n, set) \in 1..Cardinality(set)
      BY <2>2, <2>4, NewestFirstLists, RankIsPlace
    <3>2. DOMAIN page = 1..Cardinality(set)
      BY <3>1
    <3> QED
      BY <3>1, <3>2 DEF ToSet
  <2>6. page \in Seq(prs)
    BY <2>3, <2>5, SeqOfMore
  <2>7. ASSUME req.page = 1, ~HasNext(req)
        PROVE  prs \subseteq ToSet(page)
    <3>1. Cardinality(set) = Cardinality(prs)
      BY <1>1, <2>3, <2>7
    <3>2. set = prs
      BY <2>3, <3>1, FS_Subset
    <3> QED
      BY <2>5, <3>2
  <2> QED
    BY <1>4, <2>6, <2>7
<1> QED
  BY <1>3, <1>4

(* While a call reads, what stood from its beginning was read or is still  *)
(* to come, as long as only new ones moved it.                             *)
ToCome(n) == Rank(n, prs) > (request.page - 1) * PerPage

HostsInv ==
  /\ HostsTypeOK /\ request.open
  /\ prs \subseteq were /\ stood \subseteq prs
  /\ ToSet(items) \subseteq were
  /\ reply = "reading" /\ ~shrunk /\ Complete
       => \A n \in stood : n \in ToSet(items) \/ ToCome(n)
  /\ NoneMissed

LEMMA PrsFinite ==
  ASSUME HostsTypeOK
  PROVE  prs \in SUBSET Nat /\ IsFiniteSet(prs) /\ created \in Nat
<1>1. created \in Nat /\ prs \subseteq 1..created
  BY HostAssumption DEF HostsTypeOK
<1>2. IsFiniteSet(1..created)
  BY <1>1, FS_Interval
<1>3. IsFiniteSet(prs)
  BY <1>1, <1>2, FS_Subset
<1>4. prs \in SUBSET Nat
  BY <1>1
<1> QED
  BY <1>1, <1>3, <1>4

LEMMA HostsInvInit == Init => HostsInv
<1> SUFFICES ASSUME Init
             PROVE  HostsInv
  OBVIOUS
<1>1. /\ provider \in Providers /\ created = 0 /\ prs = {}
      /\ request = [page |-> 1, open |-> TRUE] /\ reply = "none"
      /\ items = <<>> /\ were = {} /\ stood = {} /\ shrunk = FALSE /\ cut = FALSE
  BY DEF Init, HostsInit
<1>2. /\ created \in 0..MaxPrs /\ request \in [page : 1..MaxPages, open : BOOLEAN]
      /\ items \in Seq(1..created)
  BY <1>1, HostAssumption
<1>3. ToSet(items) = {}
  BY <1>1 DEF ToSet
<1> QED
  BY <1>1, <1>2, <1>3 DEF HostsInv, HostsTypeOK, NoneMissed

(* A new one moves the others down the list, never up.                     *)
LEMMA OpenPrKeeps ==
  ASSUME HostsInv, OpenPr
  PROVE  HostsInv'
<1> USE DEF HostsInv
<1>1. /\ created < MaxPrs /\ created' = created + 1 /\ prs' = prs \cup {created + 1}
      /\ were' = were \cup {created + 1}
      /\ provider' = provider /\ request' = request /\ reply' = reply /\ items' = items
      /\ stood' = stood /\ shrunk' = shrunk /\ cut' = cut
  BY DEF OpenPr
<1>2. prs \in SUBSET Nat /\ IsFiniteSet(prs) /\ created \in Nat
  BY PrsFinite
<1>3. HostsTypeOK'
  <2>1. /\ created' \in 0..MaxPrs /\ 1..created \subseteq 1..created'
        /\ created + 1 \in 1..created'
    BY <1>1, <1>2, HostAssumption
  <2>2. items' \in Seq(1..created')
    <3>1. items \in Seq(1..created)
      BY DEF HostsTypeOK
    <3> QED
      BY <1>1, <2>1, <3>1, SeqOfMore
  <2> QED
    BY <1>1, <2>1, <2>2 DEF HostsTypeOK
<1>4. prs' \in SUBSET Nat /\ IsFiniteSet(prs')
  BY <1>1, <1>2, FS_AddElement
<1>5. ASSUME NEW n \in prs
      PROVE  Rank(n, prs) <= Rank(n, prs')
  <2> DEFINE before == {m \in prs : m >= n}
             after == {m \in prs' : m >= n}
  <2>1. IsFiniteSet(after) /\ before \subseteq after
    BY <1>1, <1>4, FS_Subset
  <2>2. Cardinality(before) <= Cardinality(after)
    BY <2>1, FS_Subset
  <2> QED
    BY <2>2 DEF Rank
<1>6. ASSUME NEW n \in stood, ToCome(n)
      PROVE  ToCome(n)'
  <2>1. n \in prs /\ n \in prs'
    BY <1>1
  <2>2. Rank(n, prs) \in Nat /\ Rank(n, prs') \in Nat /\ Rank(n, prs) <= Rank(n, prs')
    <3>1. Rank(n, prs) \in 1..Cardinality(prs) /\ Cardinality(prs) \in Nat
      BY <1>2, <2>1, RankIsPlace
    <3>2. Rank(n, prs') \in 1..Cardinality(prs') /\ Cardinality(prs') \in Nat
      BY <1>4, <2>1, RankIsPlace
    <3> QED
      BY <1>5, <2>1, <3>1, <3>2
  <2>3. (request.page - 1) * PerPage \in Int
    BY HostAssumption DEF HostsTypeOK
  <2> QED
    BY <1>1, <1>6, <2>2, <2>3 DEF ToCome
<1>7. ToSet(items)' = ToSet(items)
  BY <1>1 DEF ToSet
<1> QED
  BY <1>1, <1>3, <1>6, <1>7 DEF NoneMissed, Complete

LEMMA ClosePrKeeps ==
  ASSUME HostsInv, ClosePr
  PROVE  HostsInv'
<1> USE DEF HostsInv
<1>1. PICK n \in prs :
        /\ prs' = prs \ {n} /\ stood' = stood \ {n} /\ shrunk' = TRUE
        /\ provider' = provider /\ created' = created /\ request' = request
        /\ reply' = reply /\ items' = items /\ were' = were /\ cut' = cut
  BY DEF ClosePr
<1>2. HostsTypeOK'
  BY <1>1 DEF HostsTypeOK
<1>3. ToSet(items)' = ToSet(items)
  BY <1>1 DEF ToSet
<1> QED
  BY <1>1, <1>2, <1>3 DEF NoneMissed

LEMMA ListKeeps ==
  ASSUME HostsInv, ListOpenPrs
  PROVE  HostsInv'
<1> USE DEF HostsInv
<1>1. /\ request' = [page |-> 1, open |-> TRUE] /\ reply' = "reading" /\ items' = <<>>
      /\ were' = prs /\ stood' = prs /\ shrunk' = FALSE /\ cut' = FALSE
      /\ provider' = provider /\ created' = created /\ prs' = prs
  BY DEF ListOpenPrs
<1>2. request' \in [page : 1..MaxPages, open : BOOLEAN] /\ request'.open /\ request'.page = 1
  BY <1>1, HostAssumption
<1>3. HostsTypeOK'
  <2>1. items' \in Seq(1..created')
    BY <1>1
  <2>2. {shrunk', cut'} \subseteq BOOLEAN
    BY <1>1
  <2>3. /\ provider' \in Providers /\ created' \in 0..MaxPrs /\ prs' \subseteq 1..created'
        /\ reply' \in {"none", "reading", "listed", "raised"}
        /\ were' \subseteq 1..created' /\ stood' \subseteq were'
    BY <1>1 DEF HostsTypeOK
  <2> QED
    BY <1>2, <2>1, <2>2, <2>3 DEF HostsTypeOK
<1>4. ToSet(items') = {}
  BY <1>1 DEF ToSet
<1>5. \A n \in prs : Rank(n, prs) > (1 - 1) * PerPage
  <2>1. \A n \in prs : Rank(n, prs) \in 1..Cardinality(prs) /\ Cardinality(prs) \in Nat
    BY PrsFinite, RankIsPlace
  <2>2. (1 - 1) * PerPage = 0
    BY HostAssumption
  <2> QED
    BY <2>1, <2>2
<1>6. \A n \in stood' : ToCome(n)'
  BY <1>1, <1>2, <1>5 DEF ToCome
<1> QED
  BY <1>1, <1>2, <1>3, <1>4, <1>6 DEF NoneMissed

LEMMA ReadPageKeeps ==
  ASSUME HostsInv, ReadPage
  PROVE  HostsInv'
<1> USE DEF HostsInv
<1> DEFINE more == HasNext(request) /\ request.page < MaxPages
<1>0. PICK page \in Pages(request) : items' = items \o page
  BY DEF ReadPage
<1>1. /\ reply = "reading" /\ items' = items \o page
      /\ IF more THEN request' = Follow(request) /\ reply' = reply
                 ELSE reply' = "listed" /\ request' = request
      /\ cut' = (HasNext(request) /\ request.page = MaxPages)
      /\ provider' = provider /\ created' = created /\ prs' = prs /\ were' = were
      /\ stood' = stood /\ shrunk' = shrunk
  BY <1>0 DEF ReadPage
<1>2. /\ request \in [page : 1..MaxPages, open : BOOLEAN] /\ request.open
      /\ request.page \in Nat \ {0} /\ MaxPages \in Nat
      /\ items \in Seq(1..created) /\ prs \subseteq 1..created /\ PerPage \in Nat
  BY HostAssumption DEF HostsTypeOK
<1>3. prs \in SUBSET Nat /\ IsFiniteSet(prs)
  BY PrsFinite
<1>4. /\ page \in Seq(prs)
      /\ HasNext(request) <=> Cardinality(prs) > request.page * PerPage
      /\ \A n \in prs : /\ provider \in AskNewestFirst
                        /\ Rank(n, prs) > (request.page - 1) * PerPage
                        /\ Rank(n, prs) <= request.page * PerPage
                        => n \in ToSet(page)
      /\ request.page = 1 /\ ~HasNext(request) => prs \subseteq ToSet(page)
  BY <1>0, <1>2, <1>3, PageHolds, PageRead
<1>5. items' \in Seq(1..created) /\ ToSet(items') = ToSet(items) \cup ToSet(page)
  <2>1. page \in Seq(1..created)
    BY <1>2, <1>4, SeqOfMore
  <2>2. /\ items' \in Seq(1..created) /\ Len(items') = Len(items) + Len(page)
        /\ Len(items) \in Nat /\ Len(page) \in Nat
        /\ DOMAIN items = 1..Len(items) /\ DOMAIN page = 1..Len(page)
        /\ DOMAIN items' = 1..(Len(items) + Len(page))
        /\ \A i \in 1..Len(items) : items'[i] = items[i]
        /\ \A i \in 1..Len(page) : items'[Len(items) + i] = page[i]
    BY <1>1, <1>2, <2>1
  <2>3. ToSet(items') \subseteq ToSet(items) \cup ToSet(page)
    <3> SUFFICES ASSUME NEW i \in 1..(Len(items) + Len(page))
                 PROVE  items'[i] \in ToSet(items) \cup ToSet(page)
      BY <2>2 DEF ToSet
    <3>1. CASE i <= Len(items)
      BY <2>2, <3>1 DEF ToSet
    <3>2. CASE i > Len(items)
      <4>1. i - Len(items) \in 1..Len(page) /\ Len(items) + (i - Len(items)) = i
        BY <2>2, <3>2
      <4> QED
        BY <2>2, <4>1 DEF ToSet
    <3> QED
      BY <2>2, <3>1, <3>2
  <2>4. ToSet(items) \subseteq ToSet(items')
    <3> SUFFICES ASSUME NEW i \in 1..Len(items)
                 PROVE  items[i] \in ToSet(items')
      BY <2>2 DEF ToSet
    <3>1. i \in DOMAIN items' /\ items'[i] = items[i]
      BY <2>2
    <3> QED
      BY <3>1 DEF ToSet
  <2>5. ToSet(page) \subseteq ToSet(items')
    <3> SUFFICES ASSUME NEW i \in 1..Len(page)
                 PROVE  page[i] \in ToSet(items')
      BY <2>2 DEF ToSet
    <3>1. Len(items) + i \in DOMAIN items' /\ items'[Len(items) + i] = page[i]
      BY <2>2
    <3> QED
      BY <3>1 DEF ToSet
  <2> QED
    BY <2>2, <2>3, <2>4, <2>5
<1>6. ToSet(page) \subseteq prs
  BY <1>4 DEF ToSet
<1>7. request' \in [page : 1..MaxPages, open : BOOLEAN] /\ request'.open
      /\ (more => request'.page = request.page + 1)
  <2>1. CASE more
    <3> DEFINE next == [request EXCEPT !.page = @ + 1]
    <3>1. request' = next \/ request' = [page |-> request.page + 1, open |-> TRUE]
      BY <1>1, <2>1 DEF Follow, FollowLink, FollowBody, FollowToken, HostsTypeOK, Providers
    <3>2. request.page + 1 \in 1..MaxPages
      BY <1>2, <2>1
    <3>3. next \in [page : 1..MaxPages, open : BOOLEAN]
      BY <1>2, <3>2
    <3>4. next.open = request.open
      BY <1>2
    <3>5. next.page = request.page + 1
      BY <1>2
    <3> HIDE DEF next
    <3> QED
      BY <1>2, <2>1, <3>1, <3>2, <3>3, <3>4, <3>5
  <2>2. CASE ~more
    BY <1>1, <1>2, <2>2
  <2> QED
    BY <2>1, <2>2
<1>8. HostsTypeOK'
  BY <1>1, <1>5, <1>7 DEF HostsTypeOK
<1>9. ASSUME ~shrunk, provider \in AskNewestFirst, NEW n \in stood, n \notin ToSet(items')
      PROVE  /\ Rank(n, prs) \in 1..Cardinality(prs) /\ Cardinality(prs) \in Nat
             /\ Rank(n, prs) > request.page * PerPage
  <2>1. n \in prs /\ ToCome(n)
    BY <1>1, <1>5, <1>9 DEF Complete
  <2>2. Rank(n, prs) \in 1..Cardinality(prs) /\ Cardinality(prs) \in Nat
    BY <1>3, <2>1, RankIsPlace
  <2>3. ~(Rank(n, prs) <= request.page * PerPage)
    BY <1>4, <1>5, <1>9, <2>1 DEF ToCome
  <2>4. request.page * PerPage \in Int
    BY <1>2
  <2> QED
    BY <2>2, <2>3, <2>4
<1>10. ASSUME reply' = "reading", ~shrunk, Complete', NEW n \in stood, n \notin ToSet(items')
       PROVE  ToCome(n)'
  <2>1. more /\ request'.page - 1 = request.page /\ request'.page # 1
    BY <1>1, <1>2, <1>7, <1>10
  <2>2. provider \in AskNewestFirst
    BY <1>1, <1>10, <2>1 DEF Complete
  <2> QED
    BY <1>1, <1>9, <1>10, <2>1, <2>2 DEF ToCome
<1>11. NoneMissed'
  <2> SUFFICES ASSUME reply' = "listed", ~shrunk, ~cut', Complete',
                      NEW n \in stood, n \notin ToSet(items')
               PROVE  FALSE
    BY <1>1 DEF NoneMissed
  <2>1. ~HasNext(request) /\ request' = request
    BY <1>1, <1>2
  <2>2. ~(Cardinality(prs) > request.page * PerPage) /\ request.page * PerPage \in Int
    BY <1>2, <1>4, <2>1
  <2>3. CASE provider \in AskNewestFirst
    BY <1>9, <2>2, <2>3
  <2>4. CASE provider \notin AskNewestFirst
    <3>1. request.page = 1
      BY <1>1, <2>1, <2>4 DEF Complete
    <3> QED
      BY <1>4, <1>5, <2>1, <3>1
  <2> QED
    BY <2>3, <2>4
<1> QED
  BY <1>1, <1>5, <1>6, <1>7, <1>8, <1>10, <1>11

LEMMA RaiseKeeps ==
  ASSUME HostsInv, RaisesGitHostError
  PROVE  HostsInv'
<1> USE DEF HostsInv
<1>1. /\ reply' = "raised" /\ items' = <<>> /\ provider' = provider /\ created' = created
      /\ prs' = prs /\ request' = request /\ were' = were /\ stood' = stood
      /\ shrunk' = shrunk /\ cut' = cut
  BY DEF RaisesGitHostError
<1>2. HostsTypeOK' /\ ToSet(items') = {}
  BY <1>1 DEF HostsTypeOK, ToSet
<1> QED
  BY <1>1, <1>2 DEF NoneMissed

LEMMA HostsInvariant == Spec => []HostsInv
<1>1. HostsInv /\ HostsNext => HostsInv'
  BY OpenPrKeeps, ClosePrKeeps, ListKeeps, ReadPageKeeps, RaiseKeeps DEF HostsNext
<1>2. HostsInv /\ UNCHANGED hostsVars => HostsInv'
  <2> SUFFICES ASSUME HostsInv, UNCHANGED hostsVars
               PROVE  HostsInv'
    OBVIOUS
  <2>1. HostsTypeOK' /\ ToSet(items)' = ToSet(items) /\ (Complete' <=> Complete)
    BY DEF HostsInv, HostsTypeOK, Complete, ToSet, hostsVars
  <2>2. NoneMissed'
    BY <2>1 DEF HostsInv, NoneMissed, hostsVars
  <2>3. \A n : ToCome(n)' <=> ToCome(n)
    BY DEF ToCome, Rank, hostsVars
  <2> QED
    BY <2>1, <2>2, <2>3 DEF HostsInv, hostsVars
<1>3. HostsInv /\ [Next]_vars => HostsInv'
  BY <1>1, <1>2 DEF Next, vars
<1> QED
  BY <1>3, HostsInvInit, PTL DEF Spec

(* The adapters look for the newest among the same pull requests.          *)
LEMMA SameLookup ==
  ASSUME HostsInv
  PROVE  AdaptersAgree
<1> SUFFICES ASSUME NEW b, FromBranch(b) \intersect Forked = {}, Cardinality(prs) <= PerPage
             PROVE  /\ GitLabPrForBranch(b) = GitHubPrForBranch(b)
                    /\ BitbucketPrForBranch(b) = GitHubPrForBranch(b)
                    /\ GiteaPrForBranch(b) = GitHubPrForBranch(b)
                    /\ GitHubPrForBranch(b) \subseteq AzurePrForBranch(b)
  BY DEF AdaptersAgree
<1> DEFINE from == FromBranch(b)
           first == [page |-> 1, open |-> TRUE]
<1>1. from \ Forked = from /\ from \subseteq prs
  BY DEF FromBranch
<1>2. prs \in SUBSET Nat /\ IsFiniteSet(prs)
  BY PrsFinite DEF HostsInv
<1>3. prs \subseteq ToSet(PageOf(first))
  <2> SUFFICES ASSUME NEW n \in prs
               PROVE  n \in ToSet(PageOf(first))
    OBVIOUS
  <2>1. first.open /\ first.page = 1
    OBVIOUS
  <2>2. PerPage \in Nat /\ (1 - 1) * PerPage = 0 /\ 1 * PerPage = PerPage
    BY HostAssumption
  <2>3. Rank(n, prs) \in 1..Cardinality(prs) /\ Cardinality(prs) \in Nat
    BY <1>2, RankIsPlace
  <2>4. Rank(n, prs) > 0 /\ Rank(n, prs) <= PerPage
    BY <2>2, <2>3
  <2> HIDE DEF first
  <2> QED
    BY <1>2, <2>1, <2>2, <2>4, PageHolds
<1>4. from \intersect ToSet(PageOf(first)) = from
  BY <1>1, <1>3
<1>5. Newest(from) \subseteq from
  <2>1. from \in SUBSET Nat /\ IsFiniteSet(from)
    BY <1>1, <1>2, FS_Subset
  <2> QED
    BY <2>1, GreatestIsIn DEF Newest
<1> QED
  BY <1>1, <1>4, <1>5 DEF GitHubPrForBranch, GitLabPrForBranch, BitbucketPrForBranch,
       GiteaPrForBranch, AzurePrForBranch

(* ReadsAreTrue: for any number of pull requests, size of the pages and cap*)
(* of their number, while others are opened and closed, the listing holds  *)
(* what was open, all of it unless one was closed, the cap was reached or  *)
(* the adapter asked for no order and needed a second page; and the        *)
(* adapters find the same for a branch.                                    *)
THEOREM ReadsStayTrue == Spec => []ReadsAreTrue
<1>1. HostsInv => ReadsAreTrue
  BY SameLookup DEF HostsInv, ReadsAreTrue, ListedWereOpen
<1> QED
  BY <1>1, HostsInvariant, PTL

-----------------------------------------------------------------------------
(* What is blocked                                                         *)

(* What tombstone makes of a text, block after block: out[k] is the text   *)
(* when the first k blocks have been seen to.                              *)
StepOf(text, found, out, i) ==
  IF i = 0 THEN text
  ELSE IF i \in found THEN TombstoneOne(out[i - 1], text[i]) ELSE out[i - 1]

Wraps(text, found, out, k) == out = [i \in 0..k |-> StepOf(text, found, out, i)]

(* What goes from 0 step by step to n holds of n, as there would be a first *)
(* place where it was lost.                                                *)
LEMMA Onward ==
  ASSUME NEW n \in Nat, NEW S, 0 \in S, \A k \in 1..n : k - 1 \in S => k \in S
  PROVE  n \in S
<1> DEFINE bad == {k \in 0..n : k \notin S}
<1>1. ASSUME bad # {} PROVE FALSE
  <2>1. PICK k \in bad : \A j \in bad : ~(<<j, k>> \in OpToRel(<, Nat))
    <3>1. bad \subseteq Nat
      OBVIOUS
    <3> HIDE DEF bad
    <3> QED
      BY <1>1, <3>1, NatLessThanWellFounded, WFMin, Zenon
  <2>2. \A y, z \in Nat : y < z => <<y, z>> \in OpToRel(<, Nat)
    BY DEF OpToRel
  <2>3. k \in 1..n /\ k - 1 \in 0..n /\ k - 1 \in Nat /\ k \in Nat /\ k - 1 < k
    OBVIOUS
  <2>4. k - 1 \notin bad
    BY <2>1, <2>2, <2>3
  <2> QED
    BY <2>3, <2>4
<1> QED
  BY <1>1

(* There is such a text after every block.                                 *)
LEMMA WrapsAreThere ==
  ASSUME NEW text, NEW found, NEW n \in Nat
  PROVE  \E out : Wraps(text, found, out, n)
<1> DEFINE S == {k \in Nat : \E out : Wraps(text, found, out, k)}
<1>1. 0 \in S
  <2> DEFINE out == [i \in 0..0 |-> text]
  <2>1. Wraps(text, found, out, 0)
    <3>1. \A i \in 0..0 : StepOf(text, found, out, i) = text
      BY DEF StepOf
    <3> QED
      BY <3>1 DEF Wraps
  <2> HIDE DEF out
  <2> QED
    BY <2>1
<1>2. ASSUME NEW k \in 1..n, k - 1 \in S PROVE k \in S
  <2>1. PICK g : Wraps(text, found, g, k - 1)
    BY <1>2
  <2> DEFINE next == StepOf(text, found, g, k)
             out == [i \in 0..k |-> IF i = k THEN next ELSE g[i]]
  <2> HIDE DEF next
  <2>2. ASSUME NEW i \in 0..k PROVE out[i] = StepOf(text, found, out, i)
    <3>1. i # 0 => i - 1 \in 0..k /\ out[i - 1] = g[i - 1]
      OBVIOUS
    <3>2. StepOf(text, found, out, i) = StepOf(text, found, g, i)
      <4> HIDE DEF out
      <4> QED
        BY <3>1 DEF StepOf
    <3>3. CASE i = k
      BY <3>2, <3>3 DEF next
    <3>4. CASE i # k
      <4>1. i \in 0..(k - 1) /\ out[i] = g[i]
        BY <3>4
      <4>2. g[i] = StepOf(text, found, g, i)
        BY <2>1, <4>1 DEF Wraps
      <4> QED
        BY <3>2, <4>1, <4>2
    <3> QED
      BY <3>3, <3>4
  <2>3. out = [i \in 0..k |-> out[i]]
    OBVIOUS
  <2> HIDE DEF out
  <2>4. Wraps(text, found, out, k)
    BY <2>2, <2>3 DEF Wraps
  <2> QED
    BY <2>4
<1> HIDE DEF S
<1>3. n \in S
  BY <1>1, <1>2, Onward
<1> QED
  BY <1>3 DEF S

LEMMA TombstoneWraps ==
  ASSUME NEW text, NEW found, Len(text) \in Nat
  PROVE  \E out : Wraps(text, found, out, Len(text)) /\ Tombstone(text, found) = out[Len(text)]
<1> DEFINE out == CHOOSE o : Wraps(text, found, o, Len(text))
<1>1. \E o : Wraps(text, found, o, Len(text))
  BY WrapsAreThere
<1>2. Wraps(text, found, out, Len(text))
  BY <1>1
<1>3. Tombstone(text, found) = out[Len(text)]
  BY DEF Tombstone, Wraps, StepOf
<1> QED
  BY <1>2, <1>3

(* Step by step.                                                           *)
LEMMA WrapSteps ==
  ASSUME NEW text, NEW found, NEW n \in Nat, NEW out, Wraps(text, found, out, n)
  PROVE  /\ out[0] = text
         /\ \A k \in 1..n :
              out[k] = IF k \in found THEN TombstoneOne(out[k - 1], text[k]) ELSE out[k - 1]
<1>1. \A k \in 0..n : out[k] = StepOf(text, found, out, k)
  BY DEF Wraps
<1> QED
  BY <1>1 DEF StepOf

(* The texts on the way to what tombstone answers.                         *)
Runs(text, found, out) ==
  /\ Tombstone(text, found) = out[Len(text)] /\ out[0] = text
  /\ \A k \in 1..Len(text) :
       out[k] = IF k \in found THEN TombstoneOne(out[k - 1], text[k]) ELSE out[k - 1]

LEMMA TombstoneRuns ==
  ASSUME NEW text, NEW found, Len(text) \in Nat
  PROVE  \E out : Runs(text, found, out)
<1>1. PICK out : Wraps(text, found, out, Len(text)) /\ Tombstone(text, found) = out[Len(text)]
  BY TombstoneWraps
<1>2. /\ out[0] = text
      /\ \A k \in 1..Len(text) :
           out[k] = IF k \in found THEN TombstoneOne(out[k - 1], text[k]) ELSE out[k - 1]
  BY <1>1, WrapSteps
<1> QED
  BY <1>1, <1>2 DEF Runs

(* One more block commented out keeps the text one of blocks.              *)
LEMMA OneKeepsTypes ==
  ASSUME NEW text \in Seq(Block), NEW e
  PROVE  TombstoneOne(text, e) \in Seq(Block) /\ Len(TombstoneOne(text, e)) = Len(text)
<1> DEFINE holds == {i \in DOMAIN text : Within(e, text[i])}
           i == Min(holds)
           after == [text EXCEPT ![i].tombstoned = TRUE]
<1>1. TombstoneOne(text, e) = IF holds = {} THEN text ELSE after
  BY DEF TombstoneOne
<1> HIDE DEF i, holds
<1>2. text \in [1..Len(text) -> Block] /\ Len(text) \in Nat
  BY LenProperties
<1>3. after \in [1..Len(text) -> Block]
  <2>1. \A b \in Block : [b EXCEPT !.tombstoned = TRUE] \in Block
    BY DEF Block
  <2> QED
    BY <1>2, <2>1
<1> HIDE DEF after
<1>4. after \in Seq(Block) /\ Len(after) = Len(text)
  BY <1>2, <1>3, SeqDef, LenProperties
<1> QED
  BY <1>1, <1>4

LEMMA TombstoneTypes ==
  ASSUME NEW text \in Seq(Block), NEW found
  PROVE  Tombstone(text, found) \in Seq(Block)
<1>1. Len(text) \in Nat
  BY LenProperties
<1>2. PICK out : Runs(text, found, out)
  BY <1>1, TombstoneRuns
<1>3. /\ out[0] = text
      /\ \A k \in 1..Len(text) :
           out[k] = IF k \in found THEN TombstoneOne(out[k - 1], text[k]) ELSE out[k - 1]
  BY <1>2 DEF Runs
<1> DEFINE S == {k \in Nat : out[k] \in Seq(Block)}
<1>4. 0 \in S
  BY <1>3
<1>5. ASSUME NEW k \in 1..Len(text), k - 1 \in S PROVE k \in S
  BY <1>3, <1>5, OneKeepsTypes
<1> HIDE DEF S
<1>6. Len(text) \in S
  BY <1>1, <1>4, <1>5, Onward
<1> QED
  BY <1>2, <1>6 DEF S, Runs

(* The text with the blocks at some places commented out.                  *)
Cleared(text, places) ==
  [i \in 1..Len(text) |-> IF i \in places THEN [text[i] EXCEPT !.tombstoned = TRUE] ELSE text[i]]

(* Where no title is twice, a live block is held by itself alone.          *)
LEMMA OwnPlace ==
  ASSUME NEW text \in Seq(Block), DistinctTexts(text), NEW places, NEW k \in 1..Len(text),
         k \notin places, ~text[k].tombstoned
  PROVE  TombstoneOne(Cleared(text, places), text[k]) = Cleared(text, places \cup {k})
<1> DEFINE t == Cleared(text, places)
           holds == {i \in DOMAIN t : Within(text[k], t[i])}
<1>1. Len(text) \in Nat /\ DOMAIN text = 1..Len(text) /\ \A i \in 1..Len(text) : text[i] \in Block
  BY LenProperties, ElementOfSeq
<1>2. DOMAIN t = 1..Len(text)
  BY DEF Cleared
<1>3. \A i \in 1..Len(text) : t[i].title = text[i].title
  BY <1>1 DEF Cleared, Block
<1>4. t[k] = text[k]
  BY DEF Cleared
<1> HIDE DEF t
<1>5. \A i \in holds : i = k
  BY <1>1, <1>2, <1>3 DEF Within, DistinctTexts
<1>6. k \in holds
  <2>1. text[k].newlines <= text[k].newlines
    BY <1>1 DEF Block
  <2> QED
    BY <1>2, <1>4, <2>1 DEF Within, SameFields
<1>7. holds = {k}
  BY <1>5, <1>6
<1>8. Min({k}) = k
  BY DEF Min
<1>9. TombstoneOne(t, text[k]) = [t EXCEPT ![k].tombstoned = TRUE]
  <2>1. TombstoneOne(t, text[k]) =
          IF holds = {} THEN t ELSE [t EXCEPT ![Min(holds)].tombstoned = TRUE]
    BY DEF TombstoneOne
  <2> HIDE DEF holds
  <2> QED
    BY <1>7, <1>8, <2>1
<1>10. [t EXCEPT ![k].tombstoned = TRUE] = Cleared(text, places \cup {k})
  BY <1>4, <1>1 DEF Cleared, t
<1> QED
  BY <1>9, <1>10 DEF t

(* So what is found in such a text is commented out and nothing else.      *)
LEMMA TombstoneClears ==
  ASSUME NEW text \in Seq(Block), DistinctTexts(text), NEW found,
         \A k \in found : ~text[k].tombstoned
  PROVE  Tombstone(text, found) = Cleared(text, found)
<1>1. Len(text) \in Nat
  BY LenProperties
<1>2. PICK out : Runs(text, found, out)
  BY <1>1, TombstoneRuns
<1>3. /\ out[0] = text
      /\ \A k \in 1..Len(text) :
           out[k] = IF k \in found THEN TombstoneOne(out[k - 1], text[k]) ELSE out[k - 1]
  BY <1>2 DEF Runs
<1> DEFINE upto(k) == found \cap (1..k)
           S == {k \in 0..Len(text) : out[k] = Cleared(text, upto(k))}
<1>4. 0 \in S
  <2>1. upto(0) = {} /\ 0 \in 0..Len(text)
    BY <1>1
  <2>2. text = Cleared(text, {})
    BY LenProperties DEF Cleared
  <2> HIDE DEF upto
  <2> QED
    BY <1>3, <2>1, <2>2
<1>5. ASSUME NEW k \in 1..Len(text), k - 1 \in S PROVE k \in S
  <2>1. k \in 0..Len(text) /\ k - 1 \in 0..Len(text) /\ out[k - 1] = Cleared(text, upto(k - 1))
    BY <1>1, <1>5
  <2>2. CASE k \in found
    <3>1. k \notin upto(k - 1) /\ upto(k) = upto(k - 1) \cup {k}
      BY <1>1, <2>2
    <3> HIDE DEF upto, S
    <3>2. TombstoneOne(Cleared(text, upto(k - 1)), text[k]) = Cleared(text, upto(k - 1) \cup {k})
      BY <2>2, <3>1, OwnPlace
    <3>3. out[k] = TombstoneOne(out[k - 1], text[k])
      BY <1>3, <2>2
    <3> QED
      BY <2>1, <3>1, <3>2, <3>3 DEF S
  <2>3. CASE k \notin found
    <3>1. upto(k) = upto(k - 1)
      BY <1>1, <2>3
    <3>2. out[k] = out[k - 1]
      BY <1>3, <2>3
    <3> HIDE DEF upto
    <3> QED
      BY <2>1, <3>1, <3>2
  <2> QED
    BY <2>2, <2>3
<1> HIDE DEF S
<1>6. Len(text) \in S
  BY <1>1, <1>4, <1>5, Onward
<1>7. Cleared(text, upto(Len(text))) = Cleared(text, found)
  BY DEF Cleared
<1> QED
  BY <1>2, <1>6, <1>7 DEF S, Runs

(* The file is a text of blocks.                                           *)
BlocksTyped == blocks \in Seq(Block)

LEMMA BlocksStayTyped == BlocksTyped /\ [BlockedNext]_blockedVars => BlocksTyped'
<1> SUFFICES ASSUME BlocksTyped, [BlockedNext]_blockedVars PROVE BlocksTyped'
  OBVIOUS
<1>1. ASSUME NEW b \in Block, AppendBlock(b) PROVE BlocksTyped'
  BY <1>1, AppendProperties DEF BlocksTyped, AppendBlock
<1>2. ASSUME NEW ref, NEW kinds, ClearRef(ref, kinds) PROVE BlocksTyped'
  BY <1>2, TombstoneTypes DEF BlocksTyped, ClearRef
<1>3. CASE UNCHANGED blockedVars
  BY <1>3 DEF BlocksTyped, blockedVars
<1> QED
  BY <1>1, <1>2, <1>3 DEF BlockedNext

LEMMA ClearsAreExact == BlocksTyped => ClearTakesItsOwn
<1> SUFFICES ASSUME BlocksTyped, NEW ref \in Ref, NEW kinds \in SUBSET KINDS,
                    ClearRef(ref, kinds), DistinctTexts(blocks), NEW i \in DOMAIN blocks
             PROVE  blocks'[i].tombstoned <=>
                      \/ blocks[i].tombstoned
                      \/ /\ KindOf(blocks[i]) \in kinds
                         /\ ref = IF blocks[i].proposal # NoRef THEN blocks[i].proposal
                                  ELSE blocks[i].change
  BY DEF ClearTakesItsOwn
<1> DEFINE found == FindByRef(blocks, ref, kinds)
<1>1. blocks \in Seq(Block) /\ i \in 1..Len(blocks) /\ blocks[i] \in Block
  BY LenProperties, ElementOfSeq DEF BlocksTyped
<1>2. \A k \in found : ~blocks[k].tombstoned
  BY DEF FindByRef, ParseEntries
<1>3. blocks' = Tombstone(blocks, found)
  BY DEF ClearRef
<1>4. i \in found <=> /\ ~blocks[i].tombstoned /\ RefOfBlock(blocks[i]) = ref
                      /\ KindOf(blocks[i]) \in kinds
  BY DEF FindByRef, ParseEntries
<1> HIDE DEF found
<1>5. blocks' = Cleared(blocks, found)
  BY <1>1, <1>2, <1>3, TombstoneClears
<1>6. blocks'[i].tombstoned = IF i \in found THEN TRUE ELSE blocks[i].tombstoned
  BY <1>1, <1>5 DEF Cleared, Block
<1>7. blocks[i].tombstoned \in BOOLEAN
  BY <1>1 DEF Block
<1>8. RefOfBlock(blocks[i]) = IF blocks[i].proposal # NoRef THEN blocks[i].proposal
                              ELSE blocks[i].change
  BY DEF RefOfBlock
<1> QED
  BY <1>4, <1>6, <1>7, <1>8

LEMMA StaleIsNotFound == StaleOrFound
<1> SUFFICES ASSUME NEW known \in SUBSET Ref, NEW i \in ParseEntries(blocks)
             PROVE  StaleEntry(blocks[i], known) <=>
                      \A ref \in known : i \notin FindByRef(blocks, ref, KINDS)
  BY DEF StaleOrFound
<1>1. KindOf(blocks[i]) \in KINDS
  BY DEF KindOf, KINDS
<1>2. \A ref : i \in FindByRef(blocks, ref, KINDS) <=> RefOfBlock(blocks[i]) = ref
  BY <1>1 DEF FindByRef
<1> QED
  BY <1>2 DEF StaleEntry

LEMMA BlocksInvariant == Spec => []BlocksTyped
<1>1. Init => BlocksTyped
  BY EmptySeq DEF Init, BlockedInit, BlocksTyped
<1>2. BlocksTyped /\ UNCHANGED blockedVars => BlocksTyped'
  BY DEF BlocksTyped, blockedVars
<1>3. BlocksTyped /\ BlockedNext => BlocksTyped'
  BY BlocksStayTyped
<1>4. BlocksTyped /\ [Next]_vars => BlocksTyped'
  BY <1>2, <1>3 DEF Next, vars
<1> QED
  BY <1>1, <1>4, PTL DEF Spec

(* BlocksAreReached: in a file of any length without a title that is twice *)
(* in it, clearing a reference comments out the live blocks of it and of   *)
(* the kinds asked for and no other, and a live block is called stale just *)
(* when no known reference finds it.                                       *)
THEOREM BlocksStayReached == Spec => BlocksAreReached
<1>1. StaleOrFound'
  BY StaleIsNotFound, PTL
<1>2. BlocksTyped => [ClearTakesItsOwn /\ StaleOrFound']_blockedVars
  BY <1>1, ClearsAreExact
<1> QED
  BY <1>2, BlocksInvariant, PTL DEF BlocksAreReached
=============================================================================
