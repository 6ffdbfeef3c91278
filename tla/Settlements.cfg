SPECIFICATION FairSettlementsSpec
CONSTANTS
  NumUsers = 3
  Admins = {2}
  Capacity = 2
  MaxTotal = 1
  MaxRounds = 2
  MaxFaults = 1
  Writers = {1}
  Clients = {2}
  Named = {1, 3}
  MaxBusy = 2
  MaxAsks = 3
INVARIANTS CapacityHolds SharesAddUp SplitsAddUp NumberIsFree
PROPERTIES MarksAreKept RequestsEnd
CHECK_DEADLOCK FALSE
