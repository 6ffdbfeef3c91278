SPECIFICATION RegistrationSpec
CONSTANTS
  MaxJobs = 2
  MaxAttempts = 1
  MaxFaults = 0
  Handlers <- MCHandlers
  Meetups <- MCMeetups
  Keys <- MCKeys
  KeyOf <- MCKeyOf
  Requests <- MCTwoRequests
  NoCall = NoCall
  NoMeetup = NoMeetup
  m1 = m1
  k1 = k1
  h1 = h1
  r1 = r1
  r2 = r2
INVARIANT OneSubmitPerMeetup
PROPERTY CancelStopsSubmit
