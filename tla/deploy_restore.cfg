\* The cloud names no commit: the source clone does.
SPECIFICATION DepSpec
CONSTANTS
  Commits = {"c1", "c2"}
  MaxDirs = 4
  MaxJobs = 3
  Retention = 1
  ReleasesKept = 2
  CloudNames = {}
INVARIANTS RestoreIsLive
CHECK_DEADLOCK FALSE
