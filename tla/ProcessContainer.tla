-------------------------- MODULE ProcessContainer --------------------------
(***************************************************************************)
(* One supervised process of the daemon: the class ProcessContainer        *)
(* (src/src/process-container.ts).  The daemon is single-threaded, but     *)
(* start(), stop() and restart() are async: every await lets another call, *)
(* a timer or the exit of an OS child run.  A call is a slot that walks    *)
(* through the stages between its awaits; everything between two awaits is *)
(* one action.                                                             *)
(*                                                                         *)
(* process and pid are always assigned together, so both are proc.         *)
(* isRestarting is raised and lowered within one turn of the event loop    *)
(* (restart() raises it, the synchronous head of stop() lowers it, or the  *)
(* microtask after stop()'s early return does), so no exit ever sees it    *)
(* raised and it is not a variable.                                        *)
(***************************************************************************)
EXTENDS Naturals, FiniteSets

CONSTANTS
    Children,     \* names for OS processes, reused once nothing refers to them
    Calls,        \* slots for the async calls that may be in flight together
    Null,         \* "no process", "no timer", "no event source"
    MaxRestarts,  \* config.maxRestarts
    Ops,          \* operator calls that are made, a subset of OperatorOps
    Features,     \* configured options, a subset of {"watch", "health", "memory", "cron"}
    Faults        \* parts of start() that may throw, a subset of {"spawn", "pidfile"}

OperatorOps == {"start", "stop", "kill", "restart"}
Running     == {"online", "launching", "waiting-restart"}
Statuses    == Running \cup {"stopped", "stopping", "errored"}
Sources     == {"user", "crash", "watch", "health", "memory", "cron"}
EventKinds  == {"start", "stop", "restart", "crashed", "errored", "finalExit"}
Stages      == {"idle", "launch", "pidfile", "term", "race", "kill", "reap", "exited"}

ASSUME ContainerAssumption ==
    /\ Null \notin Children
    /\ Null \notin Sources
    /\ MaxRestarts \in Nat \ {0}
    /\ Ops \subseteq OperatorOps
    /\ Features \subseteq {"watch", "health", "memory", "cron"}
    /\ Faults \subseteq {"spawn", "pidfile"}

VARIABLES
    (* fields of the container *)
    status, proc, autorestart, unstableRestarts, stopInitiated,
    suppressStopEvent, pendingRestartSource, restartTimer, monitorInterval,
    watchers,
    (* the event loop: pending timers and work in flight, by the spawn that *)
    (* created them                                                         *)
    timers,       \* crash-restart timers that are armed
    monitors,     \* metrics intervals that still tick
    debounces,    \* debounce timers of the file watchers
    schedules,    \* which of "health" and "cron" is scheduled for this id
    inflight,     \* checks ("health", "memory") that await a result
    (* calls in flight *)
    stage, op, wasAutoRestart, waitsOn,
    (* operating system *)
    live,         \* children that run
    signalled,    \* live children that pboss has sent a signal
    doomed,       \* live children that pboss has sent SIGKILL
    (* history, for the properties *)
    events,       \* events emitted by the last step
    intent,       \* what the operator asked for last, or "revived": an
                  \* autonomous restart came after "down"
    streak        \* crash restarts since the last resume or stable run

fields == <<status, proc, autorestart, unstableRestarts, stopInitiated,
            suppressStopEvent, pendingRestartSource>>
handles == <<restartTimer, monitorInterval, watchers, timers, monitors,
             debounces, schedules, inflight>>
callVars == <<stage, op, wasAutoRestart, waitsOn>>
osVars == <<live, signalled, doomed>>
history == <<events, intent, streak>>
vars == <<fields, handles, callVars, osVars, history>>

(* A name no child, timer, watcher or call refers to: the next PID. *)
Fresh(p) ==
    /\ p \notin live \cup timers \cup monitors \cup watchers \cup debounces
    /\ \A c \in Calls : waitsOn[c] # p

(***************************************************************************)
(* Promise continuations run before the next timer, RPC or child exit is   *)
(* served: while a call is at "exited" nothing but its continuation runs.  *)
(***************************************************************************)
Quiet == \A c \in Calls : stage[c] # "exited"

Init ==
    /\ status = "stopped" /\ proc = Null /\ autorestart = TRUE
    /\ unstableRestarts = 0 /\ stopInitiated = FALSE
    /\ suppressStopEvent = FALSE /\ pendingRestartSource = Null
    /\ restartTimer = Null /\ monitorInterval = Null /\ watchers = {}
    /\ timers = {} /\ monitors = {} /\ debounces = {}
    /\ schedules = {} /\ inflight = {}
    /\ stage = [c \in Calls |-> "idle"]
    /\ op = [c \in Calls |-> "start"]
    /\ wasAutoRestart = [c \in Calls |-> FALSE]
    /\ waitsOn = [c \in Calls |-> Null]
    /\ live = {} /\ signalled = {} /\ doomed = {}
    /\ events = {} /\ intent = "down" /\ streak = 0

-----------------------------------------------------------------------------
(* start() *)

(***************************************************************************)
(* The manager's resume path: a container that is not running gets its     *)
(* supervision back (or not: --no-autorestart), its unstable-restart debt  *)
(* is cleared and start() runs up to its first await.                      *)
(***************************************************************************)
CallStart(c, supervise) ==
    /\ Quiet /\ stage[c] = "idle"
    /\ "start" \in Ops /\ status \notin Running
    /\ status' = "launching"
    /\ autorestart' = supervise
    /\ unstableRestarts' = 0
    /\ stage' = [stage EXCEPT ![c] = "launch"]
    /\ op' = [op EXCEPT ![c] = "start"]
    /\ events' = {} /\ intent' = "up" /\ streak' = 0
    /\ UNCHANGED <<proc, stopInitiated, suppressStopEvent, pendingRestartSource,
                   handles, wasAutoRestart, waitsOn, osVars>>

(***************************************************************************)
(* The crash-restart timer armed by the exit of g fires: start("crash"),   *)
(* which returns at once when the container is already online.             *)
(***************************************************************************)
FireRestartTimer(g, c) ==
    /\ Quiet /\ g \in timers /\ stage[c] = "idle"
    /\ timers' = timers \ {g}
    /\ pendingRestartSource' = "crash"
    /\ IF status = "online"
       THEN UNCHANGED <<status, stage, op>>
       ELSE /\ status' = "launching"
            /\ stage' = [stage EXCEPT ![c] = "launch"]
            /\ op' = [op EXCEPT ![c] = "start"]
    /\ events' = {}
    /\ UNCHANGED <<proc, autorestart, unstableRestarts, stopInitiated,
                   suppressStopEvent, restartTimer, monitorInterval, watchers,
                   monitors, debounces, schedules, inflight,
                   wasAutoRestart, waitsOn, osVars, intent, streak>>

(***************************************************************************)
(* The log files exist and the command and environment are read: the child *)
(* is spawned and the container is online before the PID file is written.  *)
(***************************************************************************)
Spawn(c, p) ==
    /\ Quiet /\ stage[c] = "launch" /\ Fresh(p)
    /\ live' = live \cup {p}
    /\ proc' = p
    /\ status' = "online"
    /\ stage' = [stage EXCEPT ![c] = "pidfile"]
    /\ waitsOn' = [waitsOn EXCEPT ![c] = p]
    /\ events' = {}
    /\ UNCHANGED <<autorestart, unstableRestarts, stopInitiated, suppressStopEvent,
                   pendingRestartSource, handles, op, wasAutoRestart,
                   signalled, doomed, intent, streak>>

(* The PID file is written: timers and watchers are installed, the event is *)
(* emitted and the call returns.  Nothing is re-read: the child of this     *)
(* start may be gone by now.                                                *)
PidWritten(c) ==
    /\ Quiet /\ stage[c] = "pidfile"
    /\ LET g == waitsOn[c] IN
       /\ IF "memory" \in Features
          THEN monitors' = monitors \cup {g} /\ monitorInterval' = g
          ELSE UNCHANGED <<monitors, monitorInterval>>
       /\ watchers' = IF "watch" \in Features THEN watchers \cup {g} ELSE watchers
    /\ schedules' = Features \cap {"health", "cron"}
    /\ events' = {IF pendingRestartSource = Null THEN "start" ELSE "restart"}
    /\ pendingRestartSource' = Null
    /\ stage' = [stage EXCEPT ![c] = "idle"]
    /\ waitsOn' = [waitsOn EXCEPT ![c] = Null]
    /\ UNCHANGED <<status, proc, autorestart, unstableRestarts, stopInitiated,
                   suppressStopEvent, restartTimer, timers, debounces, inflight,
                   op, wasAutoRestart, osVars, intent, streak>>

StatusKept == status
StatusAfterFailure == "errored"

(* The catch block: part f of start() threw.  After a spawn the child is    *)
(* still running.                                                           *)
StartFails(c, f) ==
    /\ Quiet /\ f \in Faults
    /\ stage[c] = (IF f = "spawn" THEN "launch" ELSE "pidfile")
    /\ status' = StatusAfterFailure
    /\ pendingRestartSource' = Null
    /\ events' = {"errored"}
    /\ stage' = [stage EXCEPT ![c] = "idle"]
    /\ waitsOn' = [waitsOn EXCEPT ![c] = Null]
    /\ UNCHANGED <<proc, autorestart, unstableRestarts, stopInitiated,
                   suppressStopEvent, handles, op, wasAutoRestart, osVars,
                   intent, streak>>

-----------------------------------------------------------------------------
(* stop() and restart() *)

(* The handles stop() closes; a debounce timer or a check that already      *)
(* awaits its result is not among them.                                     *)
CancelRestart == timers' = timers \ {restartTimer} /\ restartTimer' = Null
CloseMonitor == monitors' = monitors \ {monitorInterval} /\ monitorInterval' = Null
CloseHandlesButTimer == UNCHANGED <<timers, restartTimer>> /\ CloseMonitor /\ watchers' = {}
CloseHandles == CancelRestart /\ CloseMonitor /\ watchers' = {}

(***************************************************************************)
(* The end of stop() in call c, in a container whose autorestart would     *)
(* then be auto: a restart goes on with the head of start() in the same    *)
(* turn.  A restart raises suppressStopEvent before its stop phase; one    *)
(* that awaited may find that an overlapping restart has lowered it.       *)
(***************************************************************************)
StillSuppressed == UNCHANGED suppressStopEvent
StopEventsAgain == suppressStopEvent' = FALSE

StopReturns(c, o, auto) ==
    /\ proc' = Null
    /\ waitsOn' = [waitsOn EXCEPT ![c] = Null]
    /\ autorestart' = auto
    /\ IF o = "restart"
       THEN /\ status' = "launching" /\ StopEventsAgain
            /\ stage' = [stage EXCEPT ![c] = "launch"]
            /\ events' = IF stage[c] = "idle" \/ suppressStopEvent THEN {} ELSE {"stop"}
       ELSE /\ status' = "stopped" /\ UNCHANGED suppressStopEvent
            /\ stage' = [stage EXCEPT ![c] = "idle"]
            /\ events' = IF suppressStopEvent THEN {} ELSE {"stop"}

(* stop(), and the stop phase of restart(), up to the first await. *)
StopHead(c, o) ==
    /\ status \in Running
    /\ stopInitiated' = TRUE
    /\ CloseHandles
    /\ IF proc = Null
       THEN /\ StopReturns(c, o, o = "restart" /\ autorestart)
            /\ UNCHANGED signalled
       ELSE /\ status' = "stopping"
            /\ autorestart' = FALSE
            /\ suppressStopEvent' = (o = "restart" \/ suppressStopEvent)
            /\ stage' = [stage EXCEPT ![c] = "term"]
            /\ signalled' = signalled \cup {proc}
            /\ events' = {}
            /\ UNCHANGED <<proc, waitsOn>>

CallStop(c, o) ==
    /\ Quiet /\ stage[c] = "idle"
    /\ o \in Ops \cap {"stop", "kill"}
    /\ op' = [op EXCEPT ![c] = o]
    /\ intent' = "down"
    /\ \/ StopHead(c, o) /\ schedules' = {}
       \/ /\ status \notin Running            \* stop() returns at once
          /\ events' = {}
          /\ UNCHANGED <<status, proc, autorestart, stopInitiated, suppressStopEvent,
                         timers, restartTimer, monitors, monitorInterval, watchers,
                         schedules, stage, waitsOn, signalled>>
    /\ UNCHANGED <<unstableRestarts, pendingRestartSource, debounces, inflight,
                   wasAutoRestart, live, doomed, streak>>

(* restart(source): a container that is not running goes straight to start(). *)
RestartHead(c, source) ==
    /\ Quiet /\ stage[c] = "idle"
    /\ op' = [op EXCEPT ![c] = "restart"]
    /\ wasAutoRestart' = [wasAutoRestart EXCEPT ![c] = autorestart]
    /\ pendingRestartSource' = source
    /\ \/ StopHead(c, "restart")
       \/ /\ status \notin Running
          /\ status' = "launching" /\ StopEventsAgain
          /\ stage' = [stage EXCEPT ![c] = "launch"]
          /\ events' = {}
          /\ UNCHANGED <<proc, autorestart, stopInitiated, timers, restartTimer,
                         monitors, monitorInterval, watchers, waitsOn, signalled>>
    /\ UNCHANGED <<unstableRestarts, live, doomed, streak>>

(* cleanupTimers() of the stop phase drops the schedules of this id. *)
SchedulesAfterHead == IF status \in Running THEN {} ELSE schedules

Revive == intent' = IF intent = "down" THEN "revived" ELSE intent

CallRestart(c) ==
    /\ "restart" \in Ops
    /\ RestartHead(c, "user")
    /\ schedules' = SchedulesAfterHead
    /\ intent' = "up"
    /\ UNCHANGED <<debounces, inflight>>

StopEndsUnsupervised(c) == StopReturns(c, op[c], autorestart)

(* What stop() finds when it is done waiting: in call c, with a process that *)
(* is gone, it ends.                                                         *)
StopEnds(c) ==
    StopReturns(c, op[c], IF op[c] = "restart" THEN wasAutoRestart[c] ELSE autorestart)

(* treeKill(SIGTERM) is done.  this.process is read afresh: it may be gone,  *)
(* or another child.                                                         *)
TermSent(c) ==
    /\ Quiet /\ stage[c] = "term"
    /\ \/ proc = Null /\ StopEnds(c) /\ UNCHANGED doomed
       \/ /\ proc # Null /\ op[c] = "kill"
          /\ stage' = [stage EXCEPT ![c] = "kill"]
          /\ doomed' = doomed \cup {proc}
          /\ events' = {}
          /\ UNCHANGED <<status, proc, autorestart, suppressStopEvent, waitsOn>>
       \/ /\ proc # Null /\ op[c] # "kill"
          /\ stage' = [stage EXCEPT ![c] = "race"]
          /\ waitsOn' = [waitsOn EXCEPT ![c] = proc]
          /\ events' = {}
          /\ UNCHANGED <<status, proc, autorestart, suppressStopEvent, doomed>>
    /\ signalled' = signalled \cup doomed'
    /\ UNCHANGED <<unstableRestarts, stopInitiated, pendingRestartSource, handles,
                   op, wasAutoRestart, live, intent, streak>>

NoKillTimeout(c) == FALSE

(* killTimeout elapsed first: SIGKILL to whatever this.process is now. *)
KillTimeout(c) ==
    /\ Quiet /\ stage[c] = "race"
    /\ \/ proc = Null /\ StopEnds(c) /\ UNCHANGED doomed
       \/ /\ proc # Null
          /\ stage' = [stage EXCEPT ![c] = "kill"]
          /\ doomed' = doomed \cup {proc}
          /\ waitsOn' = [waitsOn EXCEPT ![c] = Null]
          /\ events' = {}
          /\ UNCHANGED <<status, proc, autorestart, suppressStopEvent>>
    /\ signalled' = signalled \cup doomed'
    /\ UNCHANGED <<unstableRestarts, stopInitiated, pendingRestartSource, handles,
                   op, wasAutoRestart, live, intent, streak>>

KillSentNoReap(c) ==
    /\ Quiet /\ stage[c] = "kill" /\ StopEnds(c)
    /\ UNCHANGED <<unstableRestarts, stopInitiated, pendingRestartSource, handles,
                   op, wasAutoRestart, osVars, intent, streak>>

(* treeKill(SIGKILL) is done: await the exit of whatever this.process is now. *)
KillSent(c) ==
    /\ Quiet /\ stage[c] = "kill"
    /\ \/ proc = Null /\ StopEnds(c)
       \/ /\ proc # Null
          /\ stage' = [stage EXCEPT ![c] = "reap"]
          /\ waitsOn' = [waitsOn EXCEPT ![c] = proc]
          /\ events' = {}
          /\ UNCHANGED <<status, proc, autorestart, suppressStopEvent>>
    /\ UNCHANGED <<unstableRestarts, stopInitiated, pendingRestartSource, handles,
                   op, wasAutoRestart, osVars, intent, streak>>

(* The continuation of a call whose awaited child has exited. *)
ExitAwaited(c) ==
    /\ stage[c] = "exited"
    /\ StopEnds(c)
    /\ UNCHANGED <<unstableRestarts, stopInitiated, pendingRestartSource, handles,
                   op, wasAutoRestart, osVars, intent, streak>>

-----------------------------------------------------------------------------
(* handleExit() *)

Supervised == status = "online" /\ autorestart

(* The unstable-restart debt after one more short run; it is only compared   *)
(* with maxRestarts, so it saturates there.                                  *)
Debt == IF unstableRestarts < MaxRestarts THEN unstableRestarts + 1 ELSE MaxRestarts

GaveUpLate(stable) == Supervised /\ ~stable /\ Debt > MaxRestarts
GaveUp(stable) == Supervised /\ ~stable /\ Debt >= MaxRestarts

ForgetUnlessStopping == proc' = IF status = "stopping" THEN proc ELSE Null
ForgetProcess == proc' = Null

ArmRestartOnce(p) ==
    IF restartTimer = Null THEN timers' = timers \cup {p} /\ restartTimer' = p
                           ELSE UNCHANGED <<timers, restartTimer>>
ArmRestart(p) == timers' = timers \cup {p} /\ restartTimer' = p

(* The exit is a crash unless pboss initiated it; it is final when no        *)
(* restart follows.                                                          *)
ExitEventsAlways(gaveUp) ==
    {"crashed"} \cup (IF gaveUp THEN {"errored"} ELSE {})
                \cup (IF gaveUp \/ ~autorestart THEN {"finalExit"} ELSE {})
ExitEvents(gaveUp) == IF stopInitiated THEN {} ELSE ExitEventsAlways(gaveUp)

(***************************************************************************)
(* Child p exits, cleanly or not, after at least minUptime or not.  The    *)
(* watchers stay open.  Calls that await this very child continue in the   *)
(* same turn.                                                              *)
(***************************************************************************)
HandleExit(p, clean, stable) ==
    LET willRestart == Supervised /\ ~GaveUp(stable) IN
    /\ Quiet /\ p \in live
    /\ live' = live \ {p} /\ signalled' = signalled \ {p} /\ doomed' = doomed \ {p}
    /\ ForgetProcess
    /\ CloseMonitor /\ schedules' = {}
    /\ stopInitiated' = FALSE
    /\ unstableRestarts' = IF ~Supervised THEN unstableRestarts
                           ELSE IF stable THEN 0 ELSE Debt
    /\ status' = IF willRestart THEN "waiting-restart"
                 ELSE IF Supervised THEN "errored"
                 ELSE IF ~autorestart \/ clean THEN "stopped" ELSE "errored"
    /\ IF willRestart THEN ArmRestart(p) ELSE UNCHANGED <<timers, restartTimer>>
    /\ events' = ExitEvents(GaveUp(stable))
    /\ streak' = IF ~willRestart THEN streak ELSE IF stable THEN 0 ELSE streak + 1
    /\ stage' = [c \in Calls |-> IF stage[c] \in {"race", "reap"} /\ waitsOn[c] = p
                                 THEN "exited" ELSE stage[c]]
    /\ UNCHANGED <<autorestart, suppressStopEvent, pendingRestartSource, watchers,
                   debounces, inflight, op, wasAutoRestart, waitsOn, intent>>

-----------------------------------------------------------------------------
(* Restarts the supervisor decides on by itself *)

(* A watched file changes: every open watcher (re)arms its debounce timer. *)
FileChanged ==
    /\ Quiet /\ watchers # {}
    /\ debounces' = debounces \cup watchers
    /\ events' = {}
    /\ UNCHANGED <<fields, restartTimer, monitorInterval, watchers, timers, monitors,
                   schedules, inflight, callVars, osVars, intent, streak>>

FireDebounce(g, c) ==
    /\ g \in debounces
    /\ RestartHead(c, "watch")
    /\ debounces' = debounces \ {g}
    /\ schedules' = SchedulesAfterHead
    /\ Revive
    /\ UNCHANGED inflight

(* A health request that will be the last allowed failure, or a memory       *)
(* sample above the limit, is sent ...                                       *)
BeginCheck(k) ==
    /\ Quiet /\ k \notin inflight
    /\ \/ k = "health" /\ k \in schedules
       \/ k = "memory" /\ monitors # {} /\ proc # Null /\ status = "online"
    /\ inflight' = inflight \cup {k}
    /\ events' = {}
    /\ UNCHANGED <<fields, restartTimer, monitorInterval, watchers, timers, monitors,
                   debounces, schedules, callVars, osVars, intent, streak>>

(* ... and its result restarts the container, whatever happened meanwhile.   *)
FireCheck(k, c) ==
    /\ k \in inflight
    /\ RestartHead(c, k)
    /\ inflight' = inflight \ {k}
    /\ schedules' = SchedulesAfterHead
    /\ Revive
    /\ UNCHANGED debounces

(* The cron timer fires; the next occurrence is scheduled after the          *)
(* callback's synchronous part, which had cancelled it.                      *)
FireCron(c) ==
    /\ "cron" \in schedules
    /\ RestartHead(c, "cron")
    /\ schedules' = SchedulesAfterHead \cup {"cron"}
    /\ Revive
    /\ UNCHANGED <<debounces, inflight>>

-----------------------------------------------------------------------------
Operator(c) ==
    \/ \E supervise \in BOOLEAN : CallStart(c, supervise)
    \/ \E o \in {"stop", "kill"} : CallStop(c, o)
    \/ CallRestart(c)

Autonomous(c) ==
    \/ \E g \in Children : FireRestartTimer(g, c) \/ FireDebounce(g, c)
    \/ \E k \in {"health", "memory"} : FireCheck(k, c)
    \/ FireCron(c)

Progress(c) ==
    \/ \E p \in Children : Spawn(c, p)
    \/ PidWritten(c)
    \/ \E f \in {"spawn", "pidfile"} : StartFails(c, f)
    \/ TermSent(c) \/ KillTimeout(c) \/ KillSent(c) \/ ExitAwaited(c)

Environment ==
    \/ \E p \in Children, clean, stable \in BOOLEAN : HandleExit(p, clean, stable)
    \/ FileChanged
    \/ \E k \in {"health", "memory"} : BeginCheck(k)

Next == (\E c \in Calls : Operator(c) \/ Autonomous(c) \/ Progress(c)) \/ Environment

Spec == Init /\ [][Next]_vars

(***************************************************************************)
(* Fairness: the event loop runs every continuation and every timer, and a *)
(* child that was sent SIGKILL exits.  No operator call, no crash, no file *)
(* change and no failing check is ever assumed to happen.                  *)
(***************************************************************************)
Fairness ==
    /\ \A c \in Calls : WF_vars(Progress(c))
    /\ WF_vars(\E c \in Calls, g \in Children : FireRestartTimer(g, c))
    /\ \A p \in Children :
           WF_vars(p \in doomed /\ \E clean, stable \in BOOLEAN : HandleExit(p, clean, stable))

FairSpec == Spec /\ Fairness

-----------------------------------------------------------------------------
Typed ==
    /\ status \in Statuses
    /\ proc \in Children \cup {Null}
    /\ autorestart \in BOOLEAN
    /\ unstableRestarts \in 0..MaxRestarts
    /\ stopInitiated \in BOOLEAN
    /\ suppressStopEvent \in BOOLEAN
    /\ pendingRestartSource \in Sources \cup {Null}
    /\ restartTimer \in Children \cup {Null}
    /\ monitorInterval \in Children \cup {Null}
    /\ watchers \subseteq Children
    /\ timers \subseteq Children
    /\ monitors \subseteq Children
    /\ debounces \subseteq Children
    /\ schedules \subseteq {"health", "cron"}
    /\ inflight \subseteq {"health", "memory"}
    /\ stage \in [Calls -> Stages]
    /\ op \in [Calls -> OperatorOps]
    /\ wasAutoRestart \in [Calls -> BOOLEAN]
    /\ waitsOn \in [Calls -> Children \cup {Null}]
    /\ \A c \in Calls : stage[c] = "pidfile" => waitsOn[c] # Null
    /\ live \subseteq Children
    /\ signalled \subseteq Children
    /\ doomed \subseteq Children
    /\ events \subseteq EventKinds
    /\ intent \in {"up", "down", "revived"}
    /\ streak \in Nat

InStopPhase(c) == stage[c] \in {"term", "race", "kill", "reap", "exited"}
SuppressionHasOwner ==
    suppressStopEvent => \E c \in Calls : op[c] = "restart" /\ InStopPhase(c)

(* Every variable has its type, and the flag that silences the events of     *)
(* stop() is raised only while a restart is in its stop phase: no overlap of *)
(* calls leaves it raised for the stops that come later.                     *)
TypeOK == Typed /\ SuppressionHasOwner

(* Whatever overlaps, this.process is a child that still runs: neither       *)
(* stop() nor a metrics tick ever addresses a PID the OS may have given to   *)
(* another program, and an online container has a process.                   *)
ProcessIsLive ==
    /\ proc # Null => proc \in live
    /\ doomed \subseteq signalled /\ signalled \subseteq live
    /\ status = "online" => proc # Null

(* Whatever overlaps, a container never stays in a transitional status with  *)
(* no call left to move it on: "launching" belongs to a start() before its   *)
(* spawn, "stopping" to a stop() before its end.                             *)
TransitionHasOwner ==
    /\ status = "launching" => \E c \in Calls : stage[c] = "launch"
    /\ status = "stopping" =>
           \E c \in Calls : stage[c] \in {"term", "race", "kill", "reap", "exited"}

(* Whatever overlaps, a container that waits for its crash restart has the   *)
(* timer that will bring it back, and stop() holds the handle to cancel it.  *)
WaitingHasTimer == status = "waiting-restart" => restartTimer \in timers

(* Whatever overlaps, fewer than maxRestarts crash restarts are scheduled in *)
(* a row without a run of minUptime or a resume by the operator in between.  *)
CrashLoopBounded == streak < MaxRestarts

(* No child runs that stop() could not reach: every running child is         *)
(* this.process ("the daemon must keep supervising (and treeKill-ing) this   *)
(* process").                                                                *)
EveryChildSupervised == live \subseteq {proc}

(* A child is spawned only while the operator's last word was to run it:     *)
(* what was stopped stays stopped.                                           *)
NoSpawnAgainstIntent == [][live' \ live # {} => intent = "up"]_vars

(* A crash restart never brings back what the operator stopped; only a file  *)
(* change, check or schedule that was already under way can.                 *)
CrashRestartObeysStop ==
    [][live' \ live # {} => intent # "down"]_vars

(* restart() respawns only when the old process is gone, and it returns with *)
(* the supervision the container had before it.                              *)
RestartReplaces ==
    [][\A c \in Calls : op[c] = "restart" /\ stage[c] = "launch" /\ stage'[c] = "pidfile"
           => live = {} /\ autorestart = wasAutoRestart[c]]_vars

(* The exit of a child that pboss itself signalled is never reported as a    *)
(* crash and never as the final exit its namespace siblings react to.        *)
OwnKillIsNoCrash ==
    [][(live \ live') \cap signalled # {} => {"crashed", "finalExit"} \cap events' = {}]_vars

(* The exit of a child that pboss did not signal is reported as a crash.     *)
CrashIsReported ==
    [][(live \ live') \ signalled # {} => "crashed" \in events']_vars

(* Every call returns: the kill escalation of stop() needs no cooperation    *)
(* from the child.                                                           *)
CallsReturn == \A c \in Calls : stage[c] # "idle" ~> stage[c] = "idle"

(* A crashed container that supervision did not give up leaves               *)
(* "waiting-restart" without anybody's help.                                 *)
CrashRestarts == status = "waiting-restart" ~> status # "waiting-restart"
=============================================================================
