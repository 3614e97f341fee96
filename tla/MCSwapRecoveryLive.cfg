CONSTANTS
  r1 = r1
  r2 = r2
  t1 = t1
  None = None
  Recoveries <- MCOne
  Transfers <- MCNone
  Chain <- MCSame
  Origin <- MCOrigin
SPECIFICATION LiveSpec
PROPERTIES
  RecoveryEnds
