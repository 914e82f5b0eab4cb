SPECIFICATION ShopSpec
CONSTANTS
  Parts = {"orders", "won sale", "listings", "master sets", "checklists", "sets", "ranks"}
  Items = {"i1"}
  NoItem = "no item"
  Tabs = {t1, t2}
  NoTab = "no tab"
  Carts <- MCCarts
  MaxTx = 3
  MaxOrder = 3
  MaxEdits = 1
  MaxQuick = 1
  Cards = {"a", "b"}
  SaleItems = {"p", "q", "r"}
  PriceOf <- MCPriceOf
  NoPrice <- MCNoPrice
  MaxSales = 3
  MaxShipping = 3
  Ads = {l1, l2}
  NoAd = "no ad"
  SetPrints = {"m", "k", "b", "o"}
  TrackOf <- MCTrackOf
  OffList = "off list"
  Numbers = {1, 2}
  NumberOf <- MCNumberOf
  DexNumber <- MCDexNumber
  NoPrint = "no print"
  HasAd = {"b"}
  Lists = {"w"}
  MaxQty = 2
  DexCards = {1, 2}
  CardKey <- MCCardKey
  Catalogues <- MCCatalogues
  Official = 1
  MaxMatches = 1
  Pairs <- MCPairs
  Api <- MCApi
  HandRanks <- MCHandRanks
SYMMETRY MCSymmetry
CHECK_DEADLOCK FALSE
INVARIANTS ShopTypeOK ListsFollowHoldings SeedSettles SetsLinked
PROPERTIES OrdersStayWhole HandEntriesStay SoldOnceForGood
