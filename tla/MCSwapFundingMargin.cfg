CONSTANTS
  a = a
  t = t
  None = None
  Swaps <- MCSwap
  Transfers <- MCNoTransfer
  Chain <- MCChain
SPECIFICATION Spec
PROPERTIES
  DepositInTime
