CONSTANTS
  Sheet <- MCSheet
  Cached = {"brk", "ibm"}
  MaxSteps = 2
  Ceiling = 2
  Costs = {0, 1, 2}
  MaxCalls = 2
  MaxRuns = 4
SPECIFICATION FairSpec
INVARIANTS
  MarkedInOrder
  MarksAreEarned
  BudgetHolds
  EveryCallAnswered
PROPERTY RunsEnd
