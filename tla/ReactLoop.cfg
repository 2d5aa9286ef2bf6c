CONSTANTS
  Settings <- MCSettings
  Texts <- MCTexts
  WallOf <- MCWallOf
  Elements <- MCElements
  Offsets = {0}
  ReadLimit = 2
  ListLimit = 1
  MaxHops = 3
  NoText = NoText
SPECIFICATION FairSpec
INVARIANTS
  MasksAreEarned
  WallStreakCounts
  PrintedOnThisPage
  TwoVainSearches
  ReadsAreNews
PROPERTY RunEnds
