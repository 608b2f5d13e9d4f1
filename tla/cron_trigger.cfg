\* A one-shot that is run by hand before its time.
SPECIFICATION CronSpec
CONSTANTS
  JobIds = {1, 2}
  MaxTime = 5
  Period = 2
  LateWindow = 2
  DogPeriod = 1
  MaxCronCalls = 3
INVARIANTS TriggerKeepsSchedule
CHECK_DEADLOCK FALSE
