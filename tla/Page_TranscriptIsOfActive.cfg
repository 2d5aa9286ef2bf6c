CONSTANTS
  Past = {p1, p2}
  MaxRuns = 2
  MaxLoads = 2
  NoSession = NoSession
SPECIFICATION PageSpec
INVARIANT TranscriptIsOfActive
