SPECIFICATION DailySpec
CONSTANTS
  Cards = {"a", "b", "c"}
  Folders <- MCFolders
  AutoBinder <- MCAutoBinder
  AbortOneIn = 2
  AbortMinCards = 0
  MaxDay = 2
  JobCards = {"a"}
  SnapshotJobs = {"dex-sync", "price-refresh"}
  OtherJobs = {"poketrace-refresh", "set-sync"}
  MaxQty = 2
  DailyCap = 2
  FreshDays = 1
  PriceStaleAfter = 0
  PriceRetryAfter = 1
  PriceOld = 2
  Processes = {"p", "q"}
  Currencies = {"USD", "EUR"}
  CacheTtl = 2
  FailureTtl = 1
  RateOld = 4
  HistoryCards = {"a", "b"}
  ValuesOf <- MCValuesOf
  MaxSnapshots = 3
  TaggedCards = {"x", "y", "z", "w"}
  SetOf <- MCSetOf
  NoSet = 0
  PrintOf <- MCPrintOf
  NoPrint = "no print"
  SectionOf <- MCSectionOf
  RankOf <- MCRankOf
  Colls = {1, 2, 3}
  Status = {3}
  Leftovers <- MCLeftovers
  CopiesOf <- MCCopiesOf
  FolderNames = {"celebi", "dark celebi", "mew"}
  Tabs = {"t1", "t2"}
  LedgerCards = {"a", "b"}
  KindsOf <- MCKindsOf
  Untracked <- MCUntracked
  Market <- MCMarket
  RowPrices = {0, 2}
  RowDays = {1, 2}
  LedgerOrders = 2
  Bounds <- MCBounds
INVARIANTS DailyTypeOK GroupsAreComplete
PROPERTIES FollowsTheExport JobsDoAsLogged PriceHolds ChartAddsUp BooksAgree
