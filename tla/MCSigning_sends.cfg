SPECIFICATION Spec
CONSTANTS
  Sends = {s1, s2}
  s1 = s1
  s2 = s2
  f1 = f1
  p1 = p1
  p2 = p2
  Parties = {p1, p2}
  MaxSigners = 2
  Forms = {f1}
  PartyLists <- EditedParties
  Invitable <- EditedInvitable
  Modes = {"embedded"}
  Faults = {"send"}
  MaxCalls = 1
SYMMETRY SendsAreAlike
INVARIANTS OneContractPerForm NoSignerWithoutARow InviteIdsAreTheInvites OutMeansAsked
PROPERTY ImplementsFormLife
CHECK_DEADLOCK FALSE
