CONSTANTS
  t1 = t1
  c1 = c1
  c2 = c2
  NoOne = NoOne
  Ids <- MCIds
  SigningIds <- MCSigningIds
  Slots <- MCSlots
SPECIFICATION LiveWorkspace
INVARIANTS
  NothingUnlisted
  ShownIsTrue
PROPERTIES
  OutcomeShown
CONSTRAINT Bounded
