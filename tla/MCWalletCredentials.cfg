CONSTANTS
  c1 = c1
  c2 = c2
  w1 = w1
  w2 = w2
  o1 = o1
  None = None
  Credentials <- MCCredentials
  Wallets <- MCTwoWallets
  Others <- MCOthers
  Calling <- MCCalling
SPECIFICATION LiveSpec
INVARIANTS
  OneCreation
PROPERTIES
  RetainedKeyRevoked
  WalletKept
  DisabledOnlyRevokes
  CreatedIsAdopted
CONSTRAINT Bounded
