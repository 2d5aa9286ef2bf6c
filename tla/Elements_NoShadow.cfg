CONSTANTS
  PageTexts <- MCPageTexts
  UserTexts <- MCUserTexts
  Goal <- MCGoal
  Citations <- MCCitations
  MinEvidence = 2
  MaxSteps = 4
  Wording = Wording
  Nodes <- MCNodes
  Role <- MCRole
  Root <- MCRoot
  FirstNodes = {"field", "select", "option"}
  Reattach = TRUE
  Offsets = {0, 1}
  Limit = 2
  NoTag = NoTag
  MaxMoves = 2
SPECIFICATION MCSpec
INVARIANT NoShadow
