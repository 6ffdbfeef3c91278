SPECIFICATION FairVerificationsSpec
CONSTANTS
  Meetups <- MCMeetups
  MaxTickets = 2
  MaxPending = 1
  MaxPerHour = 2
  ExpireAge = 2
  CollectAge = 3
  HourAge = 4
  Handlers <- MCHandlers
  NoHandler = NoHandler
  MaxFaults = 1
  m1 = m1
  m2 = m2
  h1 = h1
  h2 = h2
INVARIANTS PhotoKept NoOrphanPhoto
PROPERTIES ConsumedStays TicketsSettle
CHECK_DEADLOCK FALSE
