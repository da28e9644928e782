SPECIFICATION Spec
CONSTANTS
  MaxJobs = 2
  Specs <- MCSpecs
  SpecOf <- MCSpecOfSame
  Domains <- MCDomains
  DomainsOf <- MCDomainsOf
  Concurrency = 2
  ListLimit = 3
  DedupeLimit = 3
  RecoverLimit = 3
  MaxAttempts = 2
  Clients = {}
  MaxRuns = 2
  MaxRestarts = 1
  FailingWrites = TRUE
  QuickExit = FALSE
  SweepLimit = 1
  CgroupStop = FALSE
INVARIANT OneWaitingPerSpec
INVARIANT SuccessHasTree
PROPERTY AttemptsOnlyGrow
