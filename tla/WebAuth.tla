------------------------------ MODULE WebAuth ------------------------------
(***************************************************************************)
(* The two authentications of the bridge, which share nothing but the      *)
(* place they are used in.                                                 *)
(*                                                                         *)
(* Local (web_auth.py).  Hosts of one state directory read or create the   *)
(* secret when they start, and take the users from platform.yaml; a        *)
(* session token is given for a password or to a known user, an attach     *)
(* token for a session token.  A token is what it claims and the secret it *)
(* is signed with.                                                         *)
(*                                                                         *)
(* OIDC (auth_oidc.py).  The validator of bearer tokens and its cache of   *)
(* the keys the identity provider publishes, against a provider that       *)
(* rotates them and is at times out of reach.  A key that was retired does *)
(* not return.  A bearer token is [kid, exp, ours, roles], ours for        *)
(* signature, iss and aud.                                                 *)
(***************************************************************************)
EXTENDS Integers, FiniteSets

CONSTANTS
  Host, User, Configs,  \* Configs: what platform.yaml may say
  Disabled,             \* local_auth not enabled, or no platform.yaml
  NoSecret,
  MaxSecrets,           \* bound of the generated secrets
  MaxNow,               \* bound of the clock
  MaxTokens,            \* bound of the tokens
  SessionTtl, AttachTtl

CONSTANTS
  Kid,           \* the keys the provider ever publishes
  Roles,
  RequiredRole,  \* the role the service asks for, as a set
  CacheTtl, Leeway,
  MaxClock       \* bound of the clock

Role == {"developer", "admin", "observer", "guest"}
Config == [User -> Role \union {"unknown"}] \union {Disabled}
Secret == 1..MaxSecrets

ASSUME WebAuthAssumption ==
  /\ Configs \subseteq Config /\ NoSecret \notin Secret
  /\ {MaxSecrets, MaxNow, MaxTokens, SessionTtl, AttachTtl} \subseteq Nat

ASSUME OidcAssumption ==
  /\ RequiredRole \subseteq Roles
  /\ CacheTtl \in Nat /\ Leeway \in Nat /\ MaxClock \in Nat

VARIABLES
  secretFile,  \* a secret, or NoSecret: absent or empty
  authConfig,  \* platform.yaml
  hpc,         \* [Host -> "down", "generate", "write" or "up"]
  hsecret, hconfig,  \* [Host -> the secret and the users it has read]
  generated, now,
  tokens,      \* the tokens that were given out
  raced        \* history variable: have two hosts been creating the secret

authVars == <<secretFile, authConfig, hpc, hsecret, hconfig, generated, now, tokens, raced>>

AuthInit ==
  /\ secretFile = NoSecret /\ authConfig \in Configs
  /\ hpc = [h \in Host |-> "down"]
  /\ hsecret = [h \in Host |-> NoSecret] /\ hconfig = [h \in Host |-> Disabled]
  /\ generated = 0 /\ now = 0 /\ tokens = {} /\ raced = FALSE

Creating(h) == hpc[h] \in {"generate", "write"}

SlipAlwaysNew(h) ==
  /\ hpc[h] = "down" /\ generated < MaxSecrets
  /\ hpc' = [hpc EXCEPT ![h] = "generate"]
  /\ hconfig' = [hconfig EXCEPT ![h] = authConfig]
  /\ UNCHANGED <<secretFile, authConfig, hsecret, generated, now, tokens, raced>>

(* from_platform_yaml: the secret of the file, if there is one *)
StartHost(h) ==
  /\ hpc[h] = "down"
  /\ hconfig' = [hconfig EXCEPT ![h] = authConfig]
  /\ IF secretFile # NoSecret
     THEN /\ hpc' = [hpc EXCEPT ![h] = "up"]
          /\ hsecret' = [hsecret EXCEPT ![h] = secretFile]
          /\ UNCHANGED raced
     ELSE /\ generated < MaxSecrets
          /\ hpc' = [hpc EXCEPT ![h] = "generate"]
          /\ raced' = (raced \/ \E x \in Host : Creating(x))
          /\ UNCHANGED hsecret
  /\ UNCHANGED <<secretFile, authConfig, generated, now, tokens>>

(* A new secret; write_text empties the file, then writes. *)
GenerateSecret(h) ==
  /\ hpc[h] = "generate" /\ generated < MaxSecrets
  /\ generated' = generated + 1
  /\ hsecret' = [hsecret EXCEPT ![h] = generated']
  /\ secretFile' = NoSecret
  /\ hpc' = [hpc EXCEPT ![h] = "write"]
  /\ UNCHANGED <<authConfig, hconfig, now, tokens, raced>>

WriteSecret(h) ==
  /\ hpc[h] = "write"
  /\ secretFile' = hsecret[h]
  /\ hpc' = [hpc EXCEPT ![h] = "up"]
  /\ UNCHANGED <<authConfig, hsecret, hconfig, generated, now, tokens, raced>>

StopHost(h) ==
  /\ hpc[h] # "down"
  /\ hpc' = [hpc EXCEPT ![h] = "down"]
  /\ hsecret' = [hsecret EXCEPT ![h] = NoSecret] /\ hconfig' = [hconfig EXCEPT ![h] = Disabled]
  /\ UNCHANGED <<secretFile, authConfig, generated, now, tokens, raced>>

EditPlatform(c) ==
  /\ authConfig' = c
  /\ UNCHANGED <<secretFile, hpc, hsecret, hconfig, generated, now, tokens, raced>>

TickAuth ==
  /\ now < MaxNow /\ now' = now + 1
  /\ UNCHANGED <<secretFile, authConfig, hpc, hsecret, hconfig, generated, tokens, raced>>

----------------------------------------------------------------------------

Mode(role) == IF role \in {"developer", "admin"} THEN "write" ELSE "read"

(* verify_session_token, verify_attach_token and verify_user_token: signed *)
(* with my secret, not expired, of the type, of either.                    *)
Decodes(h, t) == hpc[h] = "up" /\ t.secret = hsecret[h] /\ now < t.exp
Verifies(h, t, type) == Decodes(h, t) /\ t.type = type
UserToken(h, t) == Decodes(h, t) /\ t.type \in {"session", "attach"}

Give(h, t) ==
  /\ Cardinality(tokens) < MaxTokens
  /\ tokens' = tokens \union {t}
  /\ UNCHANGED <<secretFile, authConfig, hpc, hsecret, hconfig, generated, now, raced>>

(* login and issue_session_token: `since` is the history of the token, when*)
(* its user was last looked up.                                            *)
IssueSession(h, u) ==
  /\ hpc[h] = "up" /\ hconfig[h] # Disabled /\ hconfig[h][u] # "unknown"
  /\ Give(h, [type |-> "session", sub |-> u, role |-> hconfig[h][u], mode |-> "none",
              exp |-> now + SessionTtl, secret |-> hsecret[h], since |-> now])

AttachFor(h, t) ==
  [type |-> "attach", sub |-> t.sub, role |-> t.role, mode |-> Mode(t.role),
   exp |-> now + AttachTtl, secret |-> hsecret[h], since |-> t.since]

AttachToken(h, t) == Verifies(h, t, "session") /\ Give(h, AttachFor(h, t))

AuthNext ==
  \/ \E h \in Host :
       \/ StartHost(h) \/ GenerateSecret(h) \/ WriteSecret(h) \/ StopHost(h)
       \/ \E u \in User : IssueSession(h, u)
       \/ \E t \in tokens : AttachToken(h, t)
  \/ \E c \in Configs \ {authConfig} : EditPlatform(c)
  \/ TickAuth

----------------------------------------------------------------------------

(* _load_or_create_hmac_secret (line 86): "persisted so attach JWTs survive*)
(* host restarts within their TTL": unless two hosts have been creating the*)
(* secret together, a token that has not expired tells its user at every   *)
(* host that is up, whichever gave it and however often they restarted.    *)
TokensSurvive ==
  ~raced => \A t \in tokens, h \in Host : hpc[h] = "up" /\ now < t.exp => UserToken(h, t)

(* attach_token (line 234): no chain of exchanges outlives the look-up of  *)
(* its user by more than the two lifetimes.                                *)
AccessEnds == \A t \in tokens : t.exp <= t.since + SessionTtl + AttachTtl

(* A login of web_auth.py is good at every host for as long as it was      *)
(* given for, and no longer by any exchange.                               *)
LoginsLastAsGiven == TokensSurvive /\ AccessEnds

-----------------------------------------------------------------------------
(* The validator of bearer tokens.                                         *)
VARIABLES
  published,  \* the keys of the JWKS document now
  retired,    \* those it once held
  clock,
  jwks,       \* the cache: [has, keys, at]
  result,     \* what validate has just answered, of what and over what:
              \* [answer, token, up]
  fetched     \* history variable: when the document last came, if it did

oidcVars == <<published, retired, clock, jwks, result, fetched>>

Token == [kid : Kid, exp : 0..MaxClock, ours : BOOLEAN, roles : SUBSET Roles]
NoResult == [answer |-> "none"]

OidcInit ==
  /\ \E kid \in Kid : published = {kid}
  /\ retired = {} /\ clock = 0
  /\ jwks = [has |-> FALSE, keys |-> {}, at |-> 0]
  /\ result = NoResult /\ fetched = {}

-----------------------------------------------------------------------------
(* The provider and the time.                                              *)
PublishKey ==
  /\ \E kid \in Kid \ (published \cup retired) : published' = published \cup {kid}
  /\ result' = NoResult
  /\ UNCHANGED <<retired, clock, jwks, fetched>>
RetireKey ==
  \E kid \in published :
    /\ published # {kid}
    /\ published' = published \ {kid} /\ retired' = retired \cup {kid}
    /\ result' = NoResult
    /\ UNCHANGED <<clock, jwks, fetched>>
OidcTick ==
  /\ clock < MaxClock
  /\ clock' = clock + 1
  /\ result' = NoResult
  /\ UNCHANGED <<published, retired, jwks, fetched>>

-----------------------------------------------------------------------------
(* _jwks: the cache if it is fresh, else the document, else the cache      *)
(* again; up says whether the provider answers.  Without either it raises, *)
(* here a cache that still has nothing.                                    *)
SlipFreshAnyway(cache, force, up) ==
  IF ~force /\ cache.has /\ clock - cache.at < CacheTtl THEN cache
  ELSE IF up THEN [has |-> TRUE, keys |-> published, at |-> clock]
  ELSE [cache EXCEPT !.at = clock]

Jwks(cache, force, up) ==
  IF ~force /\ cache.has /\ clock - cache.at < CacheTtl THEN cache
  ELSE IF up THEN [has |-> TRUE, keys |-> published, at |-> clock]
  ELSE cache

(* _key_for_kid: a key that is not there is looked for once more in a      *)
(* document fetched for it.                                                *)
KeyForKid(kid, first, again) ==
  LET cache == Jwks(jwks, FALSE, first)
  IN  IF ~cache.has \/ kid \in cache.keys THEN cache ELSE Jwks(cache, TRUE, again)

(* jwt.decode of PyJWT, and the check of the role.                         *)
Decoded(token) == token.ours /\ token.exp > clock - Leeway
Admitted(token) == Decoded(token) /\ RequiredRole \subseteq token.roles

Validate ==
  \E token \in Token, first \in BOOLEAN, again \in BOOLEAN :
    LET cache == KeyForKid(token.kid, first, again)
        looked == Jwks(jwks, FALSE, first)
        came == \/ first /\ (~jwks.has \/ clock - jwks.at >= CacheTtl)
                \/ again /\ looked.has /\ token.kid \notin looked.keys
    IN  /\ jwks' = cache
        /\ fetched' = IF came THEN {clock} ELSE fetched
        /\ result' = [token |-> token, up |-> first /\ again,
                      answer |-> IF ~cache.has THEN "raised"
                                 ELSE IF token.kid \in cache.keys /\ Admitted(token)
                                 THEN "accepted" ELSE "refused"]
        /\ UNCHANGED <<published, retired, clock>>

OidcNext == PublishKey \/ RetireKey \/ OidcTick \/ Validate

-----------------------------------------------------------------------------
(* validate, _key_for_kid: a rotation costs nobody a request.  While the   *)
(* provider answers, a good token signed with a key it publishes goes      *)
(* through, however old the cache is.                                      *)
RotationIsSeamless ==
  /\ result.answer # "none" /\ result.up
  /\ result.token.kid \in published /\ Admitted(result.token)
  => result.answer = "accepted"

(* "Fetches and caches the JWKS document for 5 minutes": a key that the    *)
(* provider has retired is good for that long, counted from the moment the *)
(* document came, and longer only if the provider is out of reach.         *)
RetiredKeyExpires ==
  result.answer = "accepted" /\ result.token.kid \in retired =>
    ~result.up \/ \E at \in fetched : clock - at < CacheTtl

(* "Refresh failures use the stale cache if available; otherwise raise"    *)
(* (_jwks): once it has had the document, the validator answers.           *)
OutageAnswers == result.answer = "raised" => fetched = {}

(* The cached keys of auth_oidc.py follow the provider's: a new one at     *)
(* once, a retired one within the lifetime of the cache, and an outage     *)
(* stops nothing.                                                          *)
KeysFollowProvider == RotationIsSeamless /\ RetiredKeyExpires /\ OutageAnswers
=============================================================================
