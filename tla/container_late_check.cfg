\* A health check in flight while the operator stops the process.
SPECIFICATION Spec
CONSTANTS
    Children = {p1, p2}
    Calls = {c1}
    Null = Null
    MaxRestarts = 2
    Ops = {"start", "stop"}
    Features = {"health"}
    Faults = {}
PROPERTY NoSpawnAgainstIntent
