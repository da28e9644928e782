SPECIFICATION LiveCrawlSpec
CONSTANTS
  Callers = {"loop"}
  Keys = {"a"}
  MaxConcurrent = 1
  MinInterval = 1
  Urls <- MCUrls
  Root = 1
  Webs <- MCWebs
  MaxPages = 6
  CrawlDepth = 2
  RateLimitRetries = 1
  MaxVariants = 2
  NoPath = "none"
CHECK_DEADLOCK FALSE
INVARIANT CrawlTypeOK
INVARIANT FrontierBestKnown
INVARIANT RedirectCapturedOnce
INVARIANT VariantBudget
INVARIANT FloorShare
PROPERTY KeepsPromise
PROPERTY CrawlEnds
