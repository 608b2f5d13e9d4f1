\* One call at a time: operators, crashes, the crash-restart timer, watch, health,
\* memory and cron restarts, failing spawns.
SPECIFICATION FairSpec
CONSTANTS
    Children = {p1, p2}
    Calls = {c1}
    Null = Null
    MaxRestarts = 2
    Ops = {"start", "stop", "kill", "restart"}
    Features = {"watch", "health", "memory", "cron"}
    Faults = {"spawn"}
INVARIANTS EveryChildSupervised
PROPERTIES CrashRestartObeysStop RestartReplaces OwnKillIsNoCrash CallsReturn CrashRestarts
