CONSTANTS
  Sessions = {s1, s2, s3, s4}
  Capacity = 2
  MaxQuestions = 5
  Past = {p1, p2}
  MaxRuns = 3
  MaxLoads = 2
  NoSession = NoSession
SPECIFICATION MCSpec
INVARIANTS
  TypeOK
  SlotAccounting
  NoLostWakeup
  BrowsersBounded
  AnswerMatchesQuestion
  OneQuestionUnderWay
  AnswerGoesToItsRun
PROPERTIES
  NoOvertaking
  NoStarvation
  RefinesFifoPool
  QuestionsReturn
