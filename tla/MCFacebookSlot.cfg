SPECIFICATION FairSpec
CONSTANTS
  read = read  menu = menu  t1 = t1  t2 = t2
  Callers = {read, menu}
  Tabs = {t1, t2}
  OpensTab = {read}
  Holders <- MCHolders
  HolderOf <- MCHolderOf
  TabOf <- MCTabOf
  Limit <- MCLimit
  NoTab = NoTab
  NoSlot = NoSlot
  Nobody = Nobody
  NotRead = NotRead
INVARIANTS TypeOK OneActivity
PROPERTIES OwnerKeepsSlot AtomicSpec AskersAreAnswered SlotComesFree
