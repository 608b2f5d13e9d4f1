\* The stop job of the boot service fails under `daemon stop`.
SPECIFICATION DmnSpec
CONSTANTS
  MaxDaemons = 2
  MaxCommands = 2
  MaxOverlap = 1
  Clients = {c1}
  Unit = Unit
INVARIANTS StoppedIsStopped
CHECK_DEADLOCK FALSE
