SPECIFICATION RegistrationSpec
CONSTANTS
  MaxJobs = 3
  MaxAttempts = 1
  MaxFaults = 1
  Handlers <- MCHandlers
  Meetups <- MCMeetups
  Keys <- MCKeys
  KeyOf <- MCKeyOf
  Requests <- MCOneRequest
  NoCall = NoCall
  NoMeetup = NoMeetup
  m1 = m1
  k1 = k1
  h1 = h1
  r1 = r1
  r2 = r2
INVARIANTS RetryIsSafe SubmittedIsCleanedUp
