\* One operator who starts and stops; crashes.
SPECIFICATION Spec
CONSTANTS
    Children = {p1, p2}
    Calls = {c1}
    Null = Null
    MaxRestarts = 3
    Ops = {"start", "stop"}
    Features = {}
    Faults = {}
PROPERTY CrashIsReported
