\* A copy that fails after it has begun.
SPECIFICATION DepSpec
CONSTANTS
  Commits = {"c1", "c2"}
  MaxDirs = 4
  MaxJobs = 3
  Retention = 1
  ReleasesKept = 2
  CloudNames = {"c1", "c2"}
INVARIANTS NeverLeavesAHole
CHECK_DEADLOCK FALSE
