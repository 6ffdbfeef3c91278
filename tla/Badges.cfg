SPECIFICATION FairBadgesSpec
CONSTANTS
  MaxGens = 2
  MaxIds = 2
  MaxBadges = 1
  DailyLimit = 1
  StaleAge = 1
  GcStaleAge = 1
  DayAge = 2
  WeekAge = 3
  Handlers <- MCHandlers
  NoHandler = NoHandler
  MaxFaults = 1
  h1 = h1
  h2 = h2
INVARIANTS HeldBadgeHasImage DailyLimitHolds NoOrphanImage
PROPERTIES UnheldIsCollected
