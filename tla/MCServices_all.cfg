SPECIFICATION ServicesSpec
CONSTANTS
  Calls = {c1, c2}
  TTL = 2
  MaxTicks = 2
  MaxVersion = 1
  Gone = Gone
  Hits = {h1, h2, h3}
  Nil = Nil
  made = made
  signed = signed
  Events <- TwoEvents
  Other = other
  Slots = 3
  MaxSyncs = 2
INVARIANTS ServicesTypeOK OutageCostsTwoTimeouts CacheIsFresh SyncRepairs
PROPERTIES CallIsAnswered NoSessionComesBack StopsWhenTold LastCorrectStays
CHECK_DEADLOCK FALSE
