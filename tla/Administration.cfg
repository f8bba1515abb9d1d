SPECIFICATION AdministrationSpec
CONSTANTS
  Components = {"users", "login", "tokens", "licence", "secrets", "backups", "contracts", "costs"}
  Admins = {ann, bob}
  TypeIds = {"t1", "t2"}
  FirstTypes = {"t1"}
  MaxAdminCalls = 4
  MaxTypeCalls = 1
  Browsers = {b1, b2}
  Threshold = 2
  Window = 2
  Rotation = 1
  LoginHorizon = 2
  TokenIds = {k1, k2}
  Lifetimes = {0, 1}
  PurgeAfter = 1
  TokenHorizon = 1
  LicUsers = {"u", "v", "w"}
  FreeTier = 1
  Licences <- SomeLicences
  TrustedKeys <- TwoKeys
  Grace = 1
  LastDay = 2
  MaxInstalls = 2
  SecretKeys = {"k1"}
  SecretProcesses = {"api"}
  SecretBackends = {"vault", "azurekv", "awssm", "conjur", "ccp"}
  SecretLeases = {1, 3}
  SecretTTL = 1
  MaxVersion = 2
  MaxEpoch = 1
  SecretHorizon = 2
  SecretMaxCrashes = 1
  MaxFiles = 3
  KeepLast = 1
  Encrypted = FALSE
  MaxData = 1
  MaxDeletes = 0
  BackupCrashes = 1
  RenewalDates = {2, 3, 5}
  Notice = 1
  HasAddress = TRUE
  ContractDays = 6
  MaxContractEdits = 2
  MaxContractCrashes = 1
  CostTypes = {"t", "s"}
  Prices = {1}
  SeatCounts = {1}
  MonthlyValue = 4
  MaxActive = 1
  Limits = {0, 1}
  QuietDays = 2
  Retention = 1
  CostDays = 2
  MaxCostEdits = 2
  MaxCostCrashes = 1
SYMMETRY AdministrationSymmetry
CHECK_DEADLOCK FALSE
INVARIANTS
  AdministrationTypeOK
  SecretsKept
  
  RenewalsKept
PROPERTIES
  AccountsKept
  CredentialsKept
  LicenceStands
  CostKept
