SPECIFICATION FairSpec
CONSTANTS
  MaxTrans = 3
  Entries = {e1, e2, e3}
  None = None
INVARIANTS EntriesConsistent EntryLocked WaitersFound
PROPERTIES DoomedNotJoined WaitersServed
CHECK_DEADLOCK FALSE
