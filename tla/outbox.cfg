SPECIFICATION OutSpec
CONSTANTS
  MaxEvents = 2
  MaxFailures = 1
  Slots = {1, 2}
  OutboxMax = 1
  ReportMax = 1
INVARIANTS OutTypeOK OneReportPerCrash
PROPERTIES DeliversOrGivesUp
CHECK_DEADLOCK FALSE
