SPECIFICATION LiveSpec
CONSTANTS
  MaxJobs = 2
  Specs <- MCSpecs
  SpecOf <- MCSpecOfSite
  Domains <- MCDomains
  DomainsOf <- MCDomainsOf
  Concurrency = 2
  ListLimit = 3
  DedupeLimit = 3
  RecoverLimit = 3
  MaxAttempts = 2
  Clients = {}
  MaxRuns = 2
  MaxRestarts = 1
  FailingWrites = FALSE
  QuickExit = TRUE
  SweepLimit = 0
  CgroupStop = FALSE
INVARIANT RunningIsTracked
PROPERTY EveryJobEnds
