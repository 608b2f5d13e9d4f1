\* A job that gets a new schedule while it runs.
SPECIFICATION CronSpec
CONSTANTS
  JobIds = {1, 2}
  MaxTime = 5
  Period = 2
  LateWindow = 2
  DogPeriod = 1
  MaxCronCalls = 3
INVARIANTS SyncUpdatesSchedule
CHECK_DEADLOCK FALSE
