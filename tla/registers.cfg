SPECIFICATION Spec
CONSTANTS
  s1 = s1
  s2 = s2
  id = id
  field = field
  v1 = v1
  v2 = v2
  Session <- MCSession
  Id <- MCId
  Status <- MCStatus
  Born <- MCBorn
  Field <- MCField
  Value <- MCValue
  Unset = Unset
  NoRecord = NoRecord
  NoApproval = NoApproval
  Call <- MCCall
  MaxLog = 2
  MaxTorn = 1
SYMMETRY Sessions
INVARIANTS
  AuditTells
  SavesOnlyAdd
