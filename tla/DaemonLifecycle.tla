---------------------------- MODULE DaemonLifecycle ----------------------------
(* The daemon process, its socket and PID file, the commands that bring it up *)
(* and down, and the boot service that restarts it (daemon.ts, api.ts,        *)
(* index.ts, daemon-probe.ts, startup-manager.ts). A file names the process   *)
(* that wrote it, 0 when there is none.                                       *)
EXTENDS Naturals, FiniteSets, FiniteSetsExt

CONSTANTS MaxDaemons,    \* bound: processes that are spawned
          MaxCommands,   \* bound: commands that are issued one at a time
          MaxOverlap,    \* bound: commands that are issued when they may overlap
          Clients,       \* command lines
          Unit           \* the boot service's own pboss kill

ASSUME DaemonAssumption == MaxDaemons \in Nat /\ Unit \notin Clients

Pid == 1..MaxDaemons
Actors == Clients \cup {Unit}

VARIABLES oneByOne,     \* commands and crashes come one at a time, and are waited for;
                        \* a unit that is removed has been stopped
          service,    \* a boot service controls this home
          dm,         \* where each daemon process is
          sockFile, pidFile,
          at, cmd,    \* where each command is, and which command it is
          unit,       \* the unit: [at, main, again]
          commands,   \* how many commands have been issued
          told       \* `daemon stop` has reported success: "down", or "warned" when
                     \* it had to warn that the service does not obey

files == <<sockFile, pidFile>>
dmnVars == <<oneByOne, service, dm, files, at, cmd, unit, commands, told>>

Booting == {"probing", "unlinking", "recording", "loading", "binding"}
Answering == {"serving", "stopping", "unrecording", "closing"}
Alive == Booting \cup Answering \cup {"exiting"}
Ended == {"gone", "conflict"}            \* conflict: exit code 81

DmnInit ==
  /\ oneByOne \in BOOLEAN /\ service \in BOOLEAN
  /\ dm = [p \in Pid |-> "unborn"] /\ sockFile = 0 /\ pidFile = 0
  /\ at = [a \in Actors |-> "idle"] /\ cmd = [a \in Actors |-> "none"]
  /\ unit = [at |-> "off", main |-> 0, again |-> FALSE]
  /\ commands = 0 /\ told = "none"

\* probeDaemon(): something answers on the socket.
Answers == sockFile # 0 /\ dm[sockFile] \in Answering
Unborn == {p \in Pid : dm[p] = "unborn"}
Settled == /\ \A a \in Actors : at[a] = "idle"
           /\ \A p \in Pid : dm[p] \in Ended \cup {"unborn", "serving"}
           /\ unit.at = "off" \/ (unit.at = "up" /\ dm[unit.main] \notin Ended)
Budget == IF oneByOne THEN MaxCommands ELSE MaxOverlap
Patient == oneByOne => \A p \in Pid : dm[p] \notin Booting

------------------------------------------------------------------------------
(* The process: Daemon.initialize, startServer, the kill handler.             *)
Steps(p, from, to) == dm[p] = from /\ dm' = [dm EXCEPT ![p] = to]

\* A live daemon owns the socket: exit 81. Otherwise its leftovers are taken over.
NoConflict == ~Answers

BootProbe(p) ==
  /\ \/ NoConflict /\ Steps(p, "probing", "unlinking")
     \/ ~NoConflict /\ Steps(p, "probing", "conflict")
  /\ UNCHANGED <<oneByOne, service, files, at, cmd, unit, commands, told>>

BootUnlink(p) ==
  /\ Steps(p, "unlinking", "recording")
  /\ sockFile' = 0
  /\ UNCHANGED <<oneByOne, service, pidFile, at, cmd, unit, commands, told>>

BootRecord(p) ==
  /\ Steps(p, "recording", "loading")
  /\ pidFile' = p
  /\ UNCHANGED <<oneByOne, service, sockFile, at, cmd, unit, commands, told>>

\* Modules, cron jobs and the cloud agent are loaded before the socket is bound.
BootLoad(p) ==
  /\ Steps(p, "loading", "binding")
  /\ UNCHANGED <<oneByOne, service, files, at, cmd, unit, commands, told>>

\* The node adapter unlinks what is there and listens; the others listen, and
\* fail when the name exists.
Bind(p) ==
  /\ Steps(p, "binding", "serving")
  /\ sockFile' = p
  /\ UNCHANGED <<oneByOne, service, pidFile, at, cmd, unit, commands, told>>

BindFails(p) ==
  /\ sockFile # 0
  /\ Steps(p, "binding", "gone")
  /\ UNCHANGED <<oneByOne, service, files, at, cmd, unit, commands, told>>

\* Every process is stopped; then the daemon removes its PID file, its socket, and exits.
StopAllDone(p) ==
  /\ Steps(p, "stopping", "unrecording")
  /\ UNCHANGED <<oneByOne, service, files, at, cmd, unit, commands, told>>

SocketFirst == "socket"                           \* mutant: the two removals swapped
FirstRemoved == "pid"

RemoveOwnFirst(p) ==
  /\ Steps(p, "unrecording", "closing")
  /\ IF FirstRemoved = "pid" THEN pidFile' = 0 /\ UNCHANGED sockFile
                             ELSE sockFile' = 0 /\ UNCHANGED pidFile
  /\ UNCHANGED <<oneByOne, service, at, cmd, unit, commands, told>>

RemoveOwnSecond(p) ==
  /\ Steps(p, "closing", "exiting")
  /\ IF FirstRemoved = "pid" THEN sockFile' = 0 /\ UNCHANGED pidFile
                             ELSE pidFile' = 0 /\ UNCHANGED sockFile
  /\ UNCHANGED <<oneByOne, service, at, cmd, unit, commands, told>>

ProcessExits(p) ==
  /\ Steps(p, "exiting", "gone")
  /\ UNCHANGED <<oneByOne, service, files, at, cmd, unit, commands, told>>

\* A crash, kill -9, or the SIGTERM of PBoss.stopDaemon(): the files stay.
Crash(p) ==
  /\ dm[p] \in Alive
  /\ oneByOne => Settled
  /\ dm' = [dm EXCEPT ![p] = "gone"]
  /\ UNCHANGED <<oneByOne, service, files, at, cmd, unit, commands, told>>

DaemonStep(p) ==
  \/ BootProbe(p) \/ BootUnlink(p) \/ BootRecord(p) \/ BootLoad(p) \/ Bind(p)
  \/ BindFails(p) \/ StopAllDone(p) \/ RemoveOwnFirst(p) \/ RemoveOwnSecond(p) \/ ProcessExits(p)

------------------------------------------------------------------------------
(* kill(): also what the unit runs before ExecStart and as ExecStop.          *)
Goes(a, to) == at' = [at EXCEPT ![a] = to]

Issue(c, what, first) ==
  /\ at[c] = "idle" /\ commands < Budget
  /\ oneByOne => Settled
  /\ commands' = commands + 1
  /\ Goes(c, first) /\ cmd' = [cmd EXCEPT ![c] = what]
  /\ told' = "none"
  /\ UNCHANGED <<oneByOne, service, dm, files, unit>>

KillProbe(a) ==
  /\ at[a] = "kill"
  /\ IF Answers
       THEN /\ dm' = IF dm[sockFile] = "serving"
                       THEN [dm EXCEPT ![sockFile] = "stopping"] ELSE dm
            /\ Goes(a, "wait")
       ELSE UNCHANGED dm /\ Goes(a, "rmSocket")
  /\ UNCHANGED <<oneByOne, service, files, cmd, unit, commands, told>>

\* At most ten seconds.
KillWaited(a) ==
  /\ at[a] = "wait"
  /\ ~Answers \/ ~oneByOne
  /\ Goes(a, "rmSocket")
  /\ UNCHANGED <<oneByOne, service, dm, files, cmd, unit, commands, told>>

RemoveSocket(a) ==
  /\ at[a] = "rmSocket"
  /\ sockFile' = 0
  /\ Goes(a, "rmPid")
  /\ UNCHANGED <<oneByOne, service, dm, pidFile, cmd, unit, commands, told>>

\* What follows the kill: nothing, a stand-down of the service, or a launch; after
\* an upgrade (realignDaemonAfterUpgrade) the service is installed again.
AfterKill(c) == CASE cmd[c] = "kill" -> "idle"
                  [] cmd[c] = "down" -> IF service THEN "standDown" ELSE "await"
                  [] cmd[c] = "restart" -> IF service THEN "restartUnit" ELSE "check"
                  [] cmd[c] = "realign" -> IF service THEN "install" ELSE "check"
                  [] OTHER -> "done"

RemovePid(a) ==
  /\ at[a] = "rmPid"
  /\ pidFile' = 0
  /\ Goes(a, AfterKill(a))
  /\ UNCHANGED <<oneByOne, service, dm, sockFile, cmd, unit, commands, told>>

\* daemonStopFlow, daemonRestartFlow and the realignment ask first: they kill a
\* daemon that answers, or, when there is no service to stop, to clean up.
Ask(c) ==
  /\ at[c] = "ask"
  /\ Goes(c, IF Answers \/ (cmd[c] = "down" /\ ~service) THEN "kill" ELSE AfterKill(c))
  /\ UNCHANGED <<oneByOne, service, dm, files, cmd, unit, commands, told>>

\* daemonStopFlow: success is reported as soon as nobody answers, also after a stop
\* job that failed and that was only warned about.
Await(c) ==
  /\ at[c] \in {"await", "awaitWarned"}
  /\ Goes(c, "idle")
  /\ told' = IF Answers THEN told ELSE IF at[c] = "await" THEN "down" ELSE "warned"
  /\ UNCHANGED <<oneByOne, service, dm, files, cmd, unit, commands>>

------------------------------------------------------------------------------
(* startDaemon(), launchDaemon(): also before any command that finds nobody.  *)
CheckAlive(c) ==
  /\ at[c] = "check"
  /\ Goes(c, IF pidFile # 0 /\ dm[pidFile] \in Alive /\ Answers THEN "idle" ELSE "probe")
  /\ UNCHANGED <<oneByOne, service, dm, files, cmd, unit, commands, told>>

LaunchProbe(c) ==
  /\ at[c] = "probe"
  /\ Goes(c, IF Answers THEN "idle" ELSE IF service THEN "startUnit" ELSE "spawn")
  /\ UNCHANGED <<oneByOne, service, dm, files, cmd, unit, commands, told>>

SpawnDaemon(c) ==
  /\ at[c] = "spawn" /\ Unborn # {}
  /\ dm' = [dm EXCEPT ![Min(Unborn)] = "probing"]
  /\ Goes(c, "poll")
  /\ UNCHANGED <<oneByOne, service, files, cmd, unit, commands, told>>

\* The daemon answers, or nothing does within thirty seconds.
Polled(c) ==
  /\ at[c] = "poll"
  /\ Answers \/ (Patient /\ (oneByOne => unit.at \in {"off", "up"}))
  /\ Goes(c, "idle")
  /\ UNCHANGED <<oneByOne, service, dm, files, cmd, unit, commands, told>>

------------------------------------------------------------------------------
(* The unit: ExecStartPre sweeps strays, ExecStart is the daemon, ExecStop is *)
(* pboss kill, Restart=always unless it exits with 81.                        *)
RunKill(what) == /\ at' = [at EXCEPT ![Unit] = "kill"]
               /\ cmd' = [cmd EXCEPT ![Unit] = what]

\* systemctl start: nothing to do for a unit that is active or activating. When
\* the manager cannot be reached the command line spawns the daemon itself.
StartUnit(c) ==
  /\ at[c] = "startUnit"
  /\ \/ /\ unit.at = "off"
        /\ unit' = [unit EXCEPT !.at = "pre"]
        /\ at' = [at EXCEPT ![Unit] = "kill", ![c] = "poll"]
        /\ cmd' = [cmd EXCEPT ![Unit] = "start"]
     \/ /\ unit.at # "off" /\ Goes(c, "poll")
        /\ UNCHANGED <<unit, cmd>>
     \/ Goes(c, "spawn") /\ UNCHANGED <<unit, cmd>>
  /\ UNCHANGED <<oneByOne, service, dm, files, commands, told>>

\* The session begins: the unit is wanted by default.target.
BootStarts ==
  /\ service /\ unit.at = "off" /\ at[Unit] = "idle"
  /\ commands < Budget /\ commands' = commands + 1
  /\ oneByOne => Settled
  /\ unit' = [unit EXCEPT !.at = "pre"] /\ RunKill("start")
  /\ told' = "none"
  /\ UNCHANGED <<oneByOne, service, dm, files>>

ExecStart ==
  /\ at[Unit] = "done" /\ unit.at = "pre" /\ Unborn # {}
  /\ dm' = [dm EXCEPT ![Min(Unborn)] = "probing"]
  /\ unit' = [at |-> "up", main |-> Min(Unborn), again |-> FALSE]
  /\ Goes(Unit, "idle")
  /\ UNCHANGED <<oneByOne, service, files, cmd, commands, told>>

MainExits ==
  /\ unit.at = "up" /\ dm[unit.main] \in Ended
  /\ unit' = [unit EXCEPT !.at = IF dm[unit.main] = "conflict" THEN "off" ELSE "backoff"]
  /\ UNCHANGED <<oneByOne, service, dm, files, at, cmd, commands, told>>

\* RestartSec.
RestartMain ==
  /\ unit.at = "backoff"
  /\ oneByOne => \A c \in Clients : at[c] \notin {"wait", "rmSocket", "rmPid"}
  /\ unit' = [unit EXCEPT !.at = "pre"] /\ RunKill("start")
  /\ UNCHANGED <<oneByOne, service, dm, files, commands, told>>

\* stopBootService(), restartBootService(): a stop job, then perhaps a start.
StopJob(c) ==
  /\ at[c] \in {"standDown", "restartUnit"}
  /\ unit' = [unit EXCEPT !.again = at[c] = "restartUnit",
                          !.at = IF unit.at = "up" THEN "stopping" ELSE "stopped"]
  /\ at' = [at EXCEPT ![c] = IF at[c] = "standDown" THEN "standingDown" ELSE "poll",
                      ![Unit] = IF unit.at = "up" THEN "kill" ELSE "idle"]
  /\ cmd' = [cmd EXCEPT ![Unit] = IF unit.at = "up" THEN "stop" ELSE "none"]
  /\ UNCHANGED <<oneByOne, service, dm, files, commands, told>>

\* The manager does not do it. `daemon stop` warns and goes on, the others end; an
\* uninstallation ends with the unit file gone and the unit running.
StopFails(c) ==
  /\ at[c] \in {"standDown", "restartUnit"}
  /\ cmd[c] = "uninstall" => ~oneByOne
  /\ service' = (service /\ cmd[c] # "uninstall")
  /\ Goes(c, IF cmd[c] = "down" THEN "awaitWarned" ELSE "idle")
  /\ UNCHANGED <<oneByOne, dm, files, cmd, unit, commands, told>>

\* systemd sends SIGTERM to a main process that ExecStop has left.
TermMain ==
  /\ unit.at = "stopping" /\ at[Unit] = "done"
  /\ dm' = IF dm[unit.main] \in Alive THEN [dm EXCEPT ![unit.main] = "gone"] ELSE dm
  /\ unit' = [unit EXCEPT !.at = "stopped"]
  /\ Goes(Unit, "idle")
  /\ UNCHANGED <<oneByOne, service, files, cmd, commands, told>>

UnitStopped ==
  /\ unit.at = "stopped"
  /\ IF unit.again
       THEN unit' = [unit EXCEPT !.at = "pre", !.again = FALSE] /\ RunKill("start")
       ELSE unit' = [unit EXCEPT !.at = "off"] /\ UNCHANGED <<at, cmd>>
  /\ UNCHANGED <<oneByOne, service, dm, files, commands, told>>

StoodDown(c) ==
  /\ at[c] = "standingDown" /\ unit.at = "off"
  /\ IF cmd[c] = "down" THEN Goes(c, "await") /\ UNCHANGED service
                        ELSE Goes(c, "idle") /\ service' = FALSE
  /\ UNCHANGED <<oneByOne, dm, files, cmd, unit, commands, told>>

\* `pboss startup install`: the unit file, a sweep that removes no files, a restart
\* job; `pboss startup uninstall`: a stop job, then the unit file goes.
InstallUnit(c) ==
  /\ at[c] = "install"
  /\ service' = TRUE
  /\ IF Answers THEN dm' = [dm EXCEPT ![sockFile] = IF @ = "serving" THEN "stopping" ELSE @]
                ELSE UNCHANGED dm
  /\ Goes(c, "sweep")
  /\ UNCHANGED <<oneByOne, files, cmd, unit, commands, told>>

StraySwept(c) ==
  /\ at[c] = "sweep" /\ (~Answers \/ ~oneByOne)
  /\ Goes(c, "restartUnit")
  /\ UNCHANGED <<oneByOne, service, dm, files, cmd, unit, commands, told>>

Command(c) ==
  \/ Issue(c, "up", "check") \/ Issue(c, "kill", "kill")
  \/ Issue(c, "down", "ask") \/ Issue(c, "restart", "ask")
  \/ Issue(c, "realign", "ask") \/ Issue(c, "install", "install")
  \/ service /\ Issue(c, "uninstall", "standDown")
  \/ InstallUnit(c) \/ StraySwept(c)
  \/ CheckAlive(c) \/ LaunchProbe(c) \/ SpawnDaemon(c) \/ Polled(c)
  \/ StartUnit(c) \/ StopJob(c) \/ StopFails(c) \/ StoodDown(c)
  \/ Ask(c) \/ Await(c)

DmnNext ==
  \/ \E p \in Pid : DaemonStep(p) \/ Crash(p)
  \/ \E c \in Clients : Command(c)
  \/ \E a \in Actors : KillProbe(a) \/ KillWaited(a) \/ RemoveSocket(a) \/ RemovePid(a)
  \/ BootStarts \/ ExecStart \/ MainExits \/ RestartMain \/ TermMain \/ UnitStopped

DmnSpec == DmnInit /\ [][DmnNext]_dmnVars

------------------------------------------------------------------------------
DmnTypeOK ==
  /\ oneByOne \in BOOLEAN /\ service \in BOOLEAN
  /\ dm \in [Pid -> Alive \cup Ended \cup {"unborn"}]
  /\ sockFile \in Pid \cup {0} /\ pidFile \in Pid \cup {0}
  /\ cmd \in [Actors -> {"none", "up", "kill", "down", "restart", "realign", "install",
                     "uninstall", "start", "stop"}]
  /\ unit.main \in Pid \cup {0} /\ unit.again \in BOOLEAN
  /\ unit.at \in {"off", "pre", "up", "backoff", "stopping", "stopped"}
  /\ told \in {"none", "down", "warned"}

\* When commands come one at a time and have all returned, a daemon that serves
\* is the one the socket and the PID file lead to: none runs on, with its
\* processes, where no command can reach it (Daemon.initialize, the kill handler, kill()).
ServingIsFound ==
  (oneByOne /\ unit.at \in {"off", "up"} /\ \A a \in Actors : at[a] = "idle") =>
  \A p \in Pid : dm[p] = "serving" => sockFile = p /\ pidFile = p

NoneIsLeft == \A p \in Pid : dm[p] \notin Alive \ {"exiting"}

\* When `pboss daemon stop` has succeeded without a warning, no daemon runs, and none
\* comes back by itself, with or without a boot service (daemonStopFlow, stopBootService).
DownStaysDown == oneByOne /\ told = "down" => NoneIsLeft

\* The daemon is in the user's hand: one that serves can be reached, one that
\* was stopped is gone.
DaemonIsInHand == ServingIsFound /\ DownStaysDown

\* '"stopped" must mean stopped' (index.ts:3306): whenever `pboss daemon stop` has
\* reported success no daemon runs or comes back, whether the service obeyed or not.
StoppedIsStopped == oneByOne /\ told # "none" => NoneIsLeft
=============================================================================
