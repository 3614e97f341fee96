CONSTANTS
  t1 = t1
  s1 = s1
  Ids <- MCIds
  SigningIds <- MCSigningIds
SPECIFICATION LiveSpec
INVARIANTS
  AtMostOnce
  VerdictsAgree
  Listed
PROPERTIES
  PromiseKept
  OutcomeLearned
