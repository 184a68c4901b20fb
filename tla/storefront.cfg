SPECIFICATION StorefrontSpec
CONSTANTS
  v1 = v1
  v2 = v2
  r1 = r1
  r2 = r2
  Parts = {"session", "codes", "reviews", "checkout",
           "listing", "camera", "catalogue", "locks",
           "assistant", "social", "audit"}
  Client = {"http"}
  Request = {1, 2}
  MaxVisits = 1
  MaxLost = 1
  OtpRequest = {r1, r2}
  MaxSends = 1
  MaxAttempts = 2
  MaxCodes = 3
  Voter = {v1, v2}
  ReviewRequest = {r1, r2}
  MaxRows = 3
  Offer <- ShopOffer
  Rows <- ShopRows
  Attempt = {1, 2}
  MaxLines = 2
  MaxEdits = 1
  MaxOrders = 2
  MaxFailures = 1
  Category = {"c1", "c2", "c3"}
  Good = {"g1"}
  Clerk = {1, 2}
  MaxSold = 1
  Forests <- ShopForests
  Lines <- OrderLines
  Slot = {1, 2}
  Ware = {"w1", "w2"}
  Invented = "w0"
  Price = {1, 2}
  MaxChanges = 1
  MaxQuestions = 1
  Filter = {"shirts", "all"}
  Pages <- ListPages
  Word = {"sa", "sar"}
  MaxNavigations = 3
  MaxTyped = 2
  Stream = {"s1", "s2", "s3"}
  MaxMoves = 7
  Share = {"r1", "r2"}
  MaxClicks = 2
  MaxTrouble = 1
  Sku = {"k1", "k2"}
  Opening <- AuditedRows
  MaxUnits = 2
  MaxTrades = 2
INVARIANTS
  StorefrontTypeOK
  NoFalseAlarm
  SessionHeld
  GuessesLimited
  SendsLimited
  HelpfulCountsVotes
  OneOrderPerCart
  NothingDangles
  DeadlocksAreKnown
  OnlyRealProducts
  ShownIsAsked
  CameraFollowsModal
  LogTellsTruth
  ReportIsEarned
PROPERTIES
  RequestsEnd
  CartKeptUntilOrdered
  RefusedOnlyIfEdited
  ButtonsComeBack
  TwoLevels
CHECK_DEADLOCK FALSE
