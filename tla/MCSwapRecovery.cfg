CONSTANTS
  r1 = r1
  r2 = r2
  t1 = t1
  None = None
  Recoveries <- MCTwo
  Transfers <- MCTransfer
  Chain <- MCSame
  Origin <- MCOrigin
SPECIFICATION Spec
INVARIANTS
  OneRecoveryPerChain
  NeverRacesFunding
  OutIsReserved
PROPERTIES
  RecoveryAuthorized
  ContractKept
CONSTRAINT Bounded
