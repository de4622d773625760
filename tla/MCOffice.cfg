SPECIFICATION OfficeSpec
CONSTANTS
  None = None
  ann = ann
  bob = bob
  i1 = i1
  tee = tee
  t1 = t1
  q1 = q1
  x1 = x1
  d1 = d1
  Creators = {ann}
  Codes = {code}
  Rules <- SomeRules
  Sales = {s1, s2}
  Owners = {o1, o2}
  Price = 10
  MaxVersions = 2
  MaxPayouts = 2
  Answers = {a1, a2, a3}
  Batches = {b1, b2}
  Limit = 2
  MaxRotationFaults = 2
  Sessions = {x1}
  Quotes = {q1, q2}
  SessionOf <- SessionOfQuote
  CartTabs = {t1, t2}
  Orders = {o1, o2}
  Events = {e1, e2}
  Deliveries = {d1, d2}
  IssueCodes = {c1, c2, c3}
  TakenCodes = {c3}
  CodeAttempts = 2
  MaxOrderFaults = 1
  Panels = {t1, t2}
  Products = {tee}
  Questions = {q1}
  Mapped = {tee}
  Boot <- BootCatalog
  Asked = {}
  Calls = {1, 2}
  MaxPrice = 1
  MaxCatalogs = 3
  Issues = {i1, i2}
  Ids = {r1, r2}
  MaxDeskChoices = 2
  MaxFailures = 1
  StudioIssues = {i1, i2}
  MaxStudioChoices = 4
  Queries = {"all", "some"}
  Matches <- MatchesOf
  PageSize = 2
  MaxRequests = 4
  MaxChanges = 2
  Known = {ann, bob}
  New = eve
  MaxPanelPayouts = 2
  MaxPanelChoices = 3
  Headers <- FileHeaders
  Raws <- OneByte
  MaxBytes = 600
  MaxChunks = 6
  MaxRows = 1
CHECK_DEADLOCK FALSE
INVARIANTS
  ConsoleShowsChosen
  RequestsOnRecord
  OneCatalogIsServed
  
  AnswersStayReadable
  
  RowUndoesFilter
PROPERTIES
  PayoutsAreExact
