\* Two calls may overlap at every await; every part of start() may fail.
SPECIFICATION Spec
CONSTANTS
    Children = {p1, p2}
    Calls = {c1, c2}
    Null = Null
    MaxRestarts = 2
    Ops = {"start", "stop", "kill", "restart"}
    Features = {}
    Faults = {"spawn", "pidfile"}
SYMMETRY MCSymmetry
INVARIANTS TypeOK ProcessIsLive TransitionHasOwner WaitingHasTimer CrashLoopBounded
