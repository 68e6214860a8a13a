SPECIFICATION Spec
CONSTANTS
  Surface = {a1, a2}
  Enforcement = {"block", "warn"}
  DeliveryDefault = "auto"
  Delta = TRUE
  Forced = {"verified"}
  MayBreak = TRUE
INVARIANTS
  AttestedPastReview
  LeniencyHasBounds
