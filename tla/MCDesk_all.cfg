SPECIFICATION DeskSpec
CONSTANTS
  Requests = {r1, r2, r3}
  Parties = {p1}
  Profile = agent
  Fields = {f1, f2}
  None = None
  Checks = {c1, c2, c3}
  form1 = form1
  form2 = form2
  form3 = form3
  deal1 = deal1
  deal2 = deal2
  Deals = {deal1, deal2}
  Papers = {form1, form2, form3}
  DealOf <- DealOfForms
  AttentionLimit = 2
  MaxFailures = 1
  Births <- BirthDays
  Unread = Unread
  Reach = 2
  Texts <- SomeTexts
  Widths <- TwoWidths
  FontSize = 9
  MinSize = 5
  MaxParties = 3
  MaxOrder = 3
  Unset = Unset
INVARIANTS DeskTypeOK SavesAreWhole ChangesSurvive BlockedByNewestVerdict GateAndFillAgree NothingIsDroppedUnsaid EachSignsTheirOwnLine ScanAnswersAreTrue
CHECK_DEADLOCK FALSE
