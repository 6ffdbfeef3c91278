SPECIFICATION FairJobsSpec
CONSTANTS
  MaxJobs = 1
  MaxAttempts = 3
  Handlers <- MCHandlers
  NoCall = NoCall
  h1 = h1
  h2 = h2
INVARIANT AtMostOneTap
PROPERTIES ContractKept JobsSettle
