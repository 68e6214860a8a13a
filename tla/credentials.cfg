SPECIFICATION Spec
CONSTANTS
  w1 = w1
  w2 = w2
  k1 = k1
  k2 = k2
  v1 = v1
  v2 = v2
  q = q
  n1 = n1
  Writer <- MCWriter
  Key <- MCKey
  Value <- MCValue
  Comment = Comment
  Blank = Blank
  Quoted = {q}
  Bare <- MCBare
  Env <- MCEnv
  Keyring <- MCKeyring
  Target = "program"
  Drafts <- MCDrafts
  Mixture <- MCMixture
  Name <- MCName
  Unlisted = Unlisted
  NoRef = NoRef
  Malformed = Malformed
  Inventories <- MCInventories
  MaxUpserts = 2
  Absent = Absent
  Empty = Empty
  Garbled = Garbled
SYMMETRY Writers
CHECK_DEADLOCK FALSE
INVARIANTS
  UpsertIsLocal
  WalksAgree
