SPECIFICATION Spec
CONSTANTS
  MaxJobs = 2
  Specs <- MCSpecs
  SpecOf <- MCSpecOfSite
  Domains <- MCDomains
  DomainsOf <- MCDomainsOf
  Concurrency = 2
  ListLimit = 3
  DedupeLimit = 3
  RecoverLimit = 3
  MaxAttempts = 2
  Clients = {c1}
  MaxRuns = 2
  MaxRestarts = 0
  FailingWrites = FALSE
  QuickExit = FALSE
  SweepLimit = 0
  CgroupStop = FALSE
INVARIANT TypeOK
INVARIANT RunningMapSound
INVARIANT UndeletedChildrenWithinLimits
PROPERTY CancelledOnlyByRequest
