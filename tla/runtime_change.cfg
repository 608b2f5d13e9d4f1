SPECIFICATION UpSpec
CONSTANTS
  MaxVersion = 1
  MaxUpCalls = 2
PROPERTY RuntimeAnswersFirst
CHECK_DEADLOCK FALSE
