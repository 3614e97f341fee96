CONSTANTS
  a = a
  t = t
  None = None
  Swaps <- MCSwap
  Transfers <- MCNoTransfer
  Chain <- MCChain
SPECIFICATION LiveSpec
PROPERTIES
  NeverStuck
  DepositIsNoticed
  OutcomeIsSeen
  MissedIsRepaired
