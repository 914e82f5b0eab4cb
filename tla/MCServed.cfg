SPECIFICATION ServedSpec
CONSTANTS
  Bids = {1, 2}
  Reads = {"hidden", "yours"}
  MaxRemoved = 1
  N = 5
  Elsewhere = {1, 3}
  FailingCards = {2}
  Linkable = {1, 3, 4}
  BatchSize = 3
  Passes <- MCPasses
  MaxErrors = 2
  StaleAfter = 1
  Old = 3
  MaxOutages = 1
  CommitEvery <- MCCommitEvery
  RetryAfter <- MCRetryAfter
  Texts = {12}
  Photos = {1, 3}
  Names = {4, 5}
  MatchOf <- MCMatchOf
  Sales <- MCSales
  BrokenPhotos = {1, 4}
  PhotoCap = 2
  MaxLots = 2
  MaxNames = 2
  PerCall = 2
  MaxAttempts = 2
  Hour = 2
  Cooldown = 1
  MaxTrouble = 1
INVARIANTS ServedTypeOK ResultHoldsEveryBid
PROPERTIES WithinLimits ServedInTheEnd
