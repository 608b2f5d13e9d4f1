SPECIFICATION Spec
CONSTANTS
  Parts = {"log", "tail", "table", "daemon", "deploy", "wrapper", "plan", "runtime", "upgrade", "permissions", "alerts", "tuning", "cron", "expr"}
  MaxLines = 3
  MaxSize = 1
  Retain = 3
  MaxRotations = 3
  SearchCap = 2
  Watches = {w1, w2}
  NoTail = NoTail
  Names = {"a", "b"}
  Joined = {"a", "b"}
  Followers = {"b"}
  Slots = {1, 2}
  MaxIds = 2
  MaxObjects = 3
  MaxBoots = 2
  MaxRequests = 3
  MaxDaemons = 3
  MaxCommands = 4
  MaxOverlap = 2
  Clients = {c1}
  Unit = Unit
  Commits = {"c1", "c2"}
  MaxDirs = 4
  MaxJobs = 3
  Retention = 1
  ReleasesKept = 2
  CloudNames = {"c1", "c2"}
  Total = 2
  MaxForks = 4
  Nodes = {1, 2, 3, 4}
  MaxDeps = 2
  Shared = {2}
  Apps = {1, 2, 3}
  Groups = {3, 9}
  Stems = {"api"}
  Launched = {"none", "bun"}
  Interpreters = {"none", "node"}
  Counts = {1, 3}
  MaxCalls = 3
  MaxVersion = 2
  MaxUpCalls = 3
  Categories = {"read", "net"}
  MaxEntries = 2
  MaxStated = 2
  MaxClock = 9
  Sustained = 2
  Heartbeat = 3
  Window = 3
  LoopCount = 3
  Meters = {"cpu", "mem"}
  AlertApps = {"api"}
  MaxAlertCalls = 3
  JobIds = {1, 2}
  MaxTime = 5
  Period = 2
  LateWindow = 2
  DogPeriod = 1
  MaxCronCalls = 3
  Hours = {0, 9, 23}
  Minutes = {0, 30}
  StepsWritten = {0, 1, 7, 23, 30, 59, 60}
INVARIANTS HostTypeOK LinesComeThrough IdsFresh RebootRestoresIntent DaemonIsInHand VerdictIsTrue IndexHeld PlanIsSound RuntimeIsKept UpgradeIsWhole ReadAsWritten ReloadKeepsConfig CronKeepsTime
PROPERTIES RotationLosesOnlyOldest EventsAreEarned
CHECK_DEADLOCK FALSE
