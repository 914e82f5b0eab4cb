SPECIFICATION Spec
CONSTANTS
  scan = scan  read = read  here = here  more = more  new = new  auto = auto
  feed = feed  post = post  fresh = fresh
  Calls = {scan, read, here, more, new, auto}
  Tabs = {feed, post, fresh}
  Kind <- MCKind
  TabOf <- MCTabs
  Holders <- MCHolders
  Limit <- MCLimit
  NoTab = NoTab
  NoSlot = NoSlot
CONSTRAINT UntilLost
CHECK_DEADLOCK FALSE
INVARIANTS TypeOK OneTabTalks CalmSlotIsInUse
