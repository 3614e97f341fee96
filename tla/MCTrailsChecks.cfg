CONSTANTS
  native = native
  token = token
  owner = owner
  elsewhere = elsewhere
  None = None
  SwapIds <- MCSwapIds
  Intents <- MCIntents
  Inputs <- MCInputs
  Policy <- MCPolicy
  Wallet = "wallet"
  Outputs <- MCOutputs
  Assets <- MCAssets
  Native <- native
  Owner <- owner
  Elsewhere <- elsewhere
  Amounts <- MCAmounts
  MaxCalls = 2
  Envelopes <- MCEnvelopes
SPECIFICATION Spec
INVARIANTS
  FundedAsAsked
  LossIsBounded
  OneSwapPerIntent
  HonestIsAccepted
  NeverMoreThanReviewed
  SweepIsRefunded
PROPERTIES
  RefundsAreAccepted
CHECK_DEADLOCK FALSE
