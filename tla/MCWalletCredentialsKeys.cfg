CONSTANTS
  c1 = c1
  c2 = c2
  w1 = w1
  w2 = w2
  o1 = o1
  None = None
  Credentials <- MCCredentials
  Wallets <- MCWallets
  Others <- MCOthers
  Calling <- MCCalling
SPECIFICATION Spec
PROPERTIES
  NoLiveKeyDropped
