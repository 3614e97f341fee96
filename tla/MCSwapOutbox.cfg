CONSTANTS
  a = a
  b = b
  Swaps <- MCSwaps
  Limit = 1
  Hosts = {"worker", "node"}
  MaxVersion <- MCMax
  MaxLate <- MCLate
SPECIFICATION LiveSpec
INVARIANTS WorkIsScheduled CleanIsProjected
PROPERTIES SummaryNeverGoesBack DueIsAdvanced IsProjected
