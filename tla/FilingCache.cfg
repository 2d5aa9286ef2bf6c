CONSTANTS
  Procs = {p1, p2}
  Docs = {d1, d2}
  Paths = {f1, f2}
  Bodies = {b1, b2}
  Busy = Busy
  None = None
SPECIFICATION Spec
SYMMETRY Symmetric
INVARIANTS
  ListedIsStored
  IndexLoads
  EntriesMatchFiles
  ReadsAreAnswers
PROPERTY EntriesSurvive
