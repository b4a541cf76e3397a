SPECIFICATION PartsSpec
CONSTANTS
  Importers = {p1, p2}
  LastSource = 2
  SourceKeys <- MCSourceKeys
  DuplicateOf <- MCDuplicateOf
  MaxId = 4
  MaxRuns = 3
  MaxUses = 2
  Migrators = {p1, p2}
  Builds = {"old", "new", "fork"}
  Manifest <- MCManifest
  OldLedgers = {0, 1, 2}
  NoDigest = NoDigest
  MaxMigrations = 3
  Kinds = {"jumpit", "rallit", "worknet", "greenhouse", "demoday", "greeting"}
  HostsOf <- MCHosts
  RobotsFiles <- MCFiles
  RobotsTTL = 1
  BoardRowIds = {"r1", "r2", "r3"}
  TenantOf <- MCTenantOf
  Tenants = 2
  PageSize = 1
  MaxListingPages = 2
  ServerRows = 2
  Limits = {0, 1}
  MaxChanges = 1
  Raters = {p1, p2}
  Goals = {"g1", "g2"}
  RatingVersions = {"v1", "v2", "v3"}
  RatingKeys <- MCRatingKeys
  Results = {"rated", "failed"}
  MaxRatings = 3
  MaxDates = 2
  Guests = {p1, p2}
  Names <- MCNames
  Doors = {"login", "account", "signup"}
  MaxFailures = 2
  ThrottleWindow = 2
  MaxThrottled = 2
  PruneEvery = 1
  WorkSlots = 1
  MaxKnocks = 3
  BoardRows <- MCRows
  Profiles <- MCProfiles
  Extractions <- MCExtractions
  SignalLists <- MCSignals
  VerdictRows <- MCVerdicts
  Wording <- MCWording
INVARIANTS
  TargetSound
  CollectionSound
  ReadingsExact
  ThrottleHolds
  ScoreSound
  AnswersGrounded
PROPERTIES
  ImportWhole
  MigrationsExact
  ScoreMonotone
SYMMETRY MCSymmetry
CHECK_DEADLOCK FALSE
