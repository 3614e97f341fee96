CONSTANTS
  a = a
  t = t
  None = None
  Swaps <- MCSwap
  Transfers <- MCTransfer
  Chain <- MCChain
SPECIFICATION Spec
INVARIANTS
  OneDebitPerChain
  EvidenceIsTrue
PROPERTIES
  NothingUnauthorized
  PromiseKept
  ContractKept
