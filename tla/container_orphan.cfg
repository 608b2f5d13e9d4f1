\* start, stop and start again by name, overlapping: two calls, no fault, no feature.
SPECIFICATION Spec
CONSTANTS
    Children = {p1, p2, p3}
    Calls = {c1, c2}
    Null = Null
    MaxRestarts = 2
    Ops = {"start", "stop"}
    Features = {}
    Faults = {}
INVARIANT EveryChildSupervised
