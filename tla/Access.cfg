SPECIFICATION AccessSpec
CONSTANTS
  Components = {"quotas", "routing", "scim", "certification", "drift", "attestations"}
  QuotaUsers = {u, v}
  QuotaRequests = {r, s}
  MaxQuotaOrders = 3
  PoolCapacity = 1
  MaxPerUser = 1
  MaxRetries = 0
  MaxDepth = 2
  Conditions <- SomeConditions
  People = {"m", "x", "y"}
  Manager = "m"
  Officer = {"y"}
  RoutingTypes <- SomeTypes
  Policies <- OnePolicy
  Contexts <- SomeContexts
  LinkLife = 1
  RoutingEnd = 1
  MaxDelegations = 1
  Bundles = {"b1"}
  AssignmentRules = {"r1"}
  BundleItems <- OneItem
  RuleGrants <- SalesOnly
  ScimTypes = {"vm"}
  ScimApproved = {}
  ScimAttributes = {"sales", "dev"}
  ScimSessions = {"s1", "s2"}
  JoinerEnabled = TRUE
  FirstLogin = FALSE
  ScimMaxOrders = 3
  ScimMaxRequests = 3
  ScimMaxEdits = 0
  ScimMaxCrashes = 0
  Campaigns = {"c1"}
  CertOrders = {"o1"}
  CertFacts <- OneFact
  CertContacts <- OneContact
  CertScopes <- OneScope
  NoReviewer = "-"
  CertAdmins = {"a"}
  CertReviewers = {"m"}
  CertOffsets = {1}
  CertDues = {1}
  CertEscalates = TRUE
  CertLastDay = 2
  CertMaxCrashes = 0
  DriftUsers = {"d"}
  WrittenAs <- ByMail
  Mailed = {"d"}
  BindUsers = {}
  DriftWorkers = {"w1", "w2"}
  MaxTampers = 2
  MaxAdFailures = 1
  MaxDriftCrashes = 1
  MaxDriftEdits = 0
  Runs = {"p", "q"}
  Acknowledgers = {"a1"}
  ReminderDays = 1
  Reminding = TRUE
  AttestDays = 2
  MaxAttestCrashes = 1
SYMMETRY AccessSymmetry
CHECK_DEADLOCK FALSE
INVARIANTS
  AccessTypeOK
  
  
  OneOpenFindingRace
PROPERTIES
  ScimRight
  
  
