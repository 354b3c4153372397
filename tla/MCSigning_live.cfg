SPECIFICATION FairSpec
CONSTANTS
  Sends = {s1, s2}
  s1 = s1
  s2 = s2
  f1 = f1
  p1 = p1
  p2 = p2
  Parties = {p1, p2}
  MaxSigners = 1
  Forms = {f1}
  PartyLists <- OneSigner
  Invitable <- OneSigner
  Modes = {"email", "embedded"}
  Faults = {"send", "insert"}
  MaxCalls = 1
INVARIANT TypeOK
PROPERTIES VendorOutcomeReachesRow SignaturesAreCounted AskedLeadsToOut
CHECK_DEADLOCK FALSE
