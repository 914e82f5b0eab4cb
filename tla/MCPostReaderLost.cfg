SPECIFICATION Spec
CONSTANTS
  p1 = p1  p2 = p2  t1 = t1  t2 = t2
  Posts = {p1, p2}
  Tabs = {t1, t2}
  Asks <- MCClicks
  Holders <- MCHolders
  Limit <- MCLimit
  NoTab = NoTab
  NoSlot = NoSlot
  NoRead = NoRead
  NoAlarm = NoAlarm
  Gap = 1
  Loading = 1
  HiddenLimit = 2
  Cap = 3
  VisibleLimit = 5
  FinishMayLag = FALSE
  TabsMayFail = FALSE
  MaxStops = 0
PROPERTIES ClickIsNotLost
