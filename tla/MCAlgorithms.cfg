CONSTANTS
  Texts <- MCTexts
  Caches <- MCCaches
  Requests <- MCRequests
  Hops = {0, 1, 2}
  Limit = 2
  MaxAsked = 2
  Filings <- MCFilings
  TocEnds = {0, 2}
  Labellings <- MCLabellings
  Layouts <- MCLayouts
  Overrides <- MCOverrides
  Items = {"A", "B"}
  ShortBody = 5
  ShortIbr = 4
  HeadIbr = 3
  MinBody = 2
  MaxExhibits = 4
  Cleaned <- MCCleaned
  Thresholds = {0}
  Ranges <- MCRanges
  Contents <- MCContents
  Replied <- MCReplied
  MaxTexts = 2
  MaxCalls = 7
  Pages <- MCPages
  Writers = {1, 2, 3}
  Learned <- MCLearned
  MaxBytes = 5
  NoItem = NoItem
  Cost = 2
  Capacity = 4
  MaxTime = 8
  MaxSends = 6
SPECIFICATION Spec
CHECK_DEADLOCK FALSE
INVARIANTS
  PlanIsTheLoop
  ReportedIsSliced
  SlicesAreBodies
  SplitAsLabelled
  RangesHoldContent
  NewestIsKept
  DriftIsReported
  RateHolds
PROPERTY NextPlanMovesOn
