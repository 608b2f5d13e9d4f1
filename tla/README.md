# TLA+ models of pboss

pboss is a process supervisor: a daemon that spawns, watches, restarts and stops
processes on behalf of a command line. The implementation is `src/src/` (62 TypeScript
files). This directory holds TLA+ modules of its core logic, the TLC configurations
that check them on small instances, and theorems about them that TLAPS checks for
every value of the constants.

The daemon is one JavaScript event loop. There are no threads, but nearly every
operation is `async`, and whatever it read before an `await` may have changed after
it: by another request on the socket, a timer, the exit of a child, a policy. That is
what most of the models are about.

## Modules and files

| File | Contents |
| --- | --- |
| `ProcessContainer.tla` | one supervised process: calls, timers, watchers, checks, exits |
| `MCProcessContainer.tla`, `container_*.cfg` | its instances |
| `ProcessContainerProofs.tla` | its theorems |
| `NamespaceOps.tla` | operations of the manager on namespaces: lock, dependencies, rollback, exit policy |
| `MCNamespaceOps.tla`, `namespace_*.cfg` | its instances |
| `NamespaceOpsProofs.tla` | its theorems |
| `CloudLink.tla` | the link of the daemon to the cloud: stream loops, requests, revocation |
| `MCCloudLink.tla`, `cloud_*.cfg` | its instances |
| `CloudLinkProofs.tla` | its theorems |
| `CloudOutbox.tla`, `EventChannel.tla`, `outbox.cfg` | how the agent delivers events, and the channel it implements |
| `CloudOutboxProofs.tla` | its theorems, the safety part of the refinement among them |
| `LogManager.tla` | buffer, appends, rotation, tails and search of one log |
| `ProcessTable.tla`, `ProcessTableProofs.tla` | the process list, its dump, shutdown and resurrection |
| `DaemonLifecycle.tla` | daemon processes, socket and pid file, commands, boot service |
| `DeployJob.tla` | deployments of one target |
| `ClusterWrapper.tla` | the node:cluster primary and its workers |
| `AppSideProofs.tla` | the theorems of the cluster wrapper and of the logs |
| `ThresholdMonitor.tla`, `AlertConfig.tla` | the alert machines; where their thresholds come from |
| `CronJobs.tla`, `CronExpr.tla` | scheduled jobs; what the friendly schedules mean |
| `DependencyPlan.tla` | order of starts, ecosystems, removals |
| `RuntimeChoice.tla`, `DenoPermissions.tla` | runtime, cluster model and port of an app; its Deno flags |
| `HostInputs.tla` | the two parsers of what users write, schedules and permissions |
| `Upgrade.tla` | `pboss upgrade` and `pboss runtime change` |
| `MCHost.tla`, `host.cfg` | the instance of `LogManager` to `Upgrade`, side by side |
| `table_*.cfg`, `daemon_*.cfg`, `deploy_*.cfg`, `cron_*.cfg`, `plan_*.cfg`, `runtime_*.cfg` | a question each about `ProcessTable`, `DaemonLifecycle`, `DeployJob`, `CronJobs`, `DependencyPlan` and `Upgrade`, on the module itself |
| `HostProofs.tla` | the theorems of deployments, alerts, cron jobs, upgrades, runtimes and daemon, permissions and schedules |
| `SeqFilter.tla`, `NaturalOrder.tla` | the members of a list that are in a set; lemmas about it, and about least and greatest numbers |
| `PROJECT.json` | components, runs, mutants, source lines of every definition, hazards, findings, theorems |

To check: `tlc -workers 2 -config container_serial.cfg MCProcessContainer` (likewise
for the others; `outbox.cfg` belongs to `CloudOutbox`, `cron_trigger.cfg` to `CronJobs`,
and so on, as in the table), `tlapm
ProcessContainerProofs.tla` (likewise for the other `*Proofs.tla`).

## Inventory of the system

| Component | State it keeps | Operations | Hard behaviour | What makes it correct |
| --- | --- | --- | --- | --- |
| **Process container** (`process-container.ts`) | status, process/pid, restart counters, `stopInitiated`, `pendingRestartSource`, handles of timers, monitor and watchers | `start`, `stop`, `kill`, `restart`, `handleExit`, metrics tick, watch callback | calls overlap at every await; kill timeout races the exit; timers and checks in flight outlive the stop that cancels them | no child runs unsupervised; what is stopped stays stopped; no status is stranded; crash loops are bounded; crash events are true |
| **Health checker, cron restarts** (`health-checker.ts`, `cron-manager.ts`) | interval or timer per process id | `start`, `stop`; `schedule`, `cancel` | a fetch in flight across a stop; a date in the past | as above |
| **Process manager** (`process-manager.ts`) | `processes` map, `nextId`, `nsLocks`, persist chain | start/stop/restart/delete/scale/reload of an id, name, namespace or all; `persist`, `resurrect`, `kill`, member-exit policy | group operations over many awaits; partial failure and rollback; policy reacting to exits meanwhile | one group operation at a time, in order; atomic starts; running members untouched; intent preserved |
| **Dependency engine** (`dependencies.ts`) | none between calls (registry of external services) | build graph, reject cycles, start in levels, order shutdown | a level starts concurrently and fails in part | every required dependency runs before its dependent; failures stop the start |
| **Process events** (`events.ts`) | listeners | emit | order and truth of lifecycle events | exactly the transitions that happened are announced |
| **Persistence** (manager and `daemon.ts`) | dump file, write chain | `persist`, `resurrect`, `shutdown` | crash between an operation and its dump; dump in the middle of a restart | what is resurrected is what the operator asked for |
| **Daemon** (`daemon.ts`, `daemon-lifecycle.ts`, `daemon-probe.ts`) | pid file, socket, runtime intent | start, probe, request dispatch, shutdown | two daemons, stale files, requests during shutdown | one daemon per home; a stop ends it |
| **Client and CLI** (`api.ts`, `index.ts`, ...) | connection | one request per command | daemon absent, versions differ | request and response match |
| **Cluster modes** (`cluster-manager.ts`, `node-cluster.ts`, `reuseport-cluster.ts`, `graceful-reload.ts`) | workers per index, backoff, retired ids, stopping flag | fork, respawn, rolling reload, shutdown | death during reload, boot failures, stop while respawning | one worker per index; reload never leaves zero |
| **Log manager** (`log-manager.ts`) | buffers, flush timers, write state per file, tails | append, flush, rotate, compress, tail | flush against rotate; retention with compression | lines neither lost, repeated nor reordered |
| **Cron jobs** (`cron-jobs.ts`, `cron-expr.ts`) | job list and file, wake timer, running set | add, remove, enable, wake, run, save | late wake-ups, overlap, removal during a run | each due time runs once, in range |
| **Threshold monitor** (`threshold-monitor.ts`) | phase and streak per rule | tick, config change | interrupted streaks, restarts of the subject | an alert was sustained for its streak; a recovery follows an alert |
| **Cloud agent** (`cloud.ts`, `cloud-auth.ts`) | link config, stream state, backoff, outbox, ledger of crashes | start, stop, reconnect, report, command, ack | reconnects, duplicated loops, unacknowledged events, revoke racing start | one loop; events at least once until their TTL |
| **Deployments** (`deploy-job.ts`, `deploy.ts`) | job record, releases, symlink | prepare, switch, restore, purge, cancel | failure or cancellation between two steps | a release is always reachable; the running one is not purged |
| **Boot services and installation** (`startup-manager.ts`, `install-mode.ts`, `upgrade.ts`, `postinstall.ts`) | unit files, the installed version | install, remove, upgrade | calls of system tools, the daemon killed or running | an upgrade that reports success has realigned the daemon; the runtime selected has its package |
| **Metrics and dashboards** (`monitor.ts`, `dashboard*.ts`) | samples | sample, render | none that others depend on | display |
| **Configuration and runtimes** (`runtime-config.ts`, `runtime/*`, ...) | config files, pinned runtimes | lookups, adapters | none | the runtime chosen is the one asked for; the permissions passed are those granted |

How they interact: the CLI sends one request per command over a Unix socket to the
daemon, which calls the process manager. The manager owns a container per process and
calls `start()`, `stop()`, `restart()` on it; a container calls back on final exit
(the member-exit policy) and emits events, which the cloud agent and socket
subscribers receive. Containers own their watchers and timers and share the daemon's
health checker, cron manager, monitor and log manager by process id. The manager
persists the table after operations; the daemon resurrects it. The cloud agent issues
the same manager operations remotely and runs deployments, cron jobs and thresholds on
a node.

`PROJECT.json` lists these components with their status and, under "hazards", every
place known to be hard to test, at its line, with the properties that cover it or the
reason none does.

## ProcessContainer

State. The container's fields keep their names; `process` and `pid` are assigned
together and are one variable `proc`. The event loop is explicit: armed timers
(`timers`), metrics intervals that tick (`monitors`), debounce timers (`debounces`),
entries of the health checker and cron manager for this id (`schedules`) and checks
that await a response (`inflight`). Handles (`restartTimer`, `monitorInterval`,
`watchers`) are separate from what they point at, because the code can overwrite a
handle whose timer still ticks. A call in flight is a slot of `Calls` with the stage
it awaits in. Children are names of generations: a name is used again only when
nothing refers to it any more, since the code tells generations apart by their process
objects.

| Stage of a call | It awaits | Next action |
| --- | --- | --- |
| `launch` | log files, environment, `.env` (160-260) | `Spawn`, `StartFails` |
| `pidfile` | the PID file, after the spawn | `PidWritten`, `StartFails` |
| `term` | `treeKill(SIGTERM)` | `TermSent` |
| `race` | `exited` or `killTimeout` | `HandleExit`, `KillTimeout` |
| `kill` | `treeKill(SIGKILL)` | `KillSent` |
| `reap` | `exited` | `HandleExit` |
| `exited` | its own continuation, which precedes everything else | `ExitAwaited` |

Everything between two awaits is one action; `Quiet` says that promise continuations
run before the next timer, request or exit. A `restart()` is a stop whose end
continues, in the same turn, with the head of `start()` (`StopReturns`).
`isRestarting` is raised and lowered within one turn of the loop, so it is no
variable.

Abstractions: counts of failed health checks, memory sizes and cron dates are
nondeterministic (a check that matters is one that will trigger); the unstable restart
debt saturates at `maxRestarts`, the only value it is compared with; the backoff delay
is left out, a timer fires at any moment. An exit is `clean` (code 0) or not, and
`stable` (at least `minUptime`) or not, at will. `events` (of the last step), `intent`
(the operator's last word), `streak`, `signalled` and `doomed` are history for the
properties and the fairness.

| Run | Asks | Bounds | Result |
| --- | --- | --- | --- |
| `container_serial` | one call at a time against crashes and every autonomous restart: are children supervised, do restarts replace and obey, does everything end? | 1 call slot, 2 children, `maxRestarts` 2, all operations and features, failing spawns | holds |
| `container_overlap` | what survives when two calls overlap at every await and every part of `start()` may throw? | 2 call slots and 2 children (both symmetric), `maxRestarts` 2, all operations | holds |
| `container_late_check` | can a check in flight undo a stop? | 1 call, 2 children, health checks | violated: yes |
| `container_orphan` | can overlapping start and stop lose a child? | 2 calls, 3 children | violated: yes |
| `container_silent_crash` | is every crash reported? | 1 call, 2 children, `maxRestarts` 3 | violated: no |

Why the bounds are enough: every field refers to at most one child and a call to one;
a restart needs an old and a new child, overlapping starts two. A third child, for
which overlapping restarts leave room, changes nothing in `container_overlap`, whose
properties are proved for any number. `maxRestarts` = 2 has both outcomes of the
comparison and both sides of its boundary. Two calls show every pair of stages. The
one-slot run is the regime in which an operator waits for each command and an
autonomous restart runs alone; exits, file changes and checks that are sent still come
between any two of its steps. Overlaps of operator calls with each other and with the
crash timer are the subject of `container_overlap`.

Properties, briefly: `EveryChildSupervised` (no orphan), `CrashRestartObeysStop` (what
was stopped is not crash-restarted; only an already pending change, check or schedule
may revive it, and that window is `container_late_check`), `RestartReplaces` (the old
child is gone before the new spawn, and supervision is what it was),
`OwnKillIsNoCrash`, `CallsReturn` and `CrashRestarts` (liveness); `ProcessIsLive`,
`TransitionHasOwner`, `WaitingHasTimer`, `CrashLoopBounded` hold whatever overlaps.

Fairness (`FairSpec`, used by `container_serial` alone). Weak fairness of each call's
progress: the event loop runs continuations, file operations end, kill timeouts are
real timers. Weak fairness of the crash-restart timers. Weak fairness of the exit of a
child that was sent SIGKILL: the operating system ends it. No operator, crash, file
change or failing check is assumed ever to happen, and a child may ignore SIGTERM for
ever.

## NamespaceOps

State. Per container what its manager sees: `status`, `autorestart`, whether it has a
process (`handle`), its crash-restart timer. Per namespace the promise chain of
`withNamespaceLock`: `tail` is whose gate is the entry of `nsLocks`, `prev` whose gate
an invocation awaits. Per invocation the locals of `startMembersAtomic`,
`stopNamespaceGroup` and `restartNamespaceGroup`: the group the target was resolved to
before the lock, what is left of the running loop, the dependencies still to be
satisfied, the `startedByInvocation` record, the remembered supervision. `lateStarts`
are the `start()` calls of a dependency level that `Promise.all` stopped awaiting when
another failed.

| Action | Code |
| --- | --- |
| `Request`, `Acquire`, `Finish` (`Unlock`, `DropEntry`) | `withNamespaceLock` around a group operation |
| `RequestOne` | `start`, `stop` by process name, which take no lock |
| `StopNext`, `StopsDone` | the stop loops, the turn from stop to start of a restart |
| `StartNext`, `DepsNext`, `MemberNext` | `startMembersAtomic`, `DependencyEngine` levels, the member's own start |
| `StartSucceeds`, `StartFails`, `LateStart` | outcomes of `start()` |
| `RollbackNext`, `RollbackScope` | the rollback, newest first |
| `Exit`, `PolicyStopEnds` | a child leaves; the exit policy stops the siblings with `onNsMemberExit: "exit"` |
| `FireTimer`, `TimerStart` | the crash restart |

Abstractions: a container's own races are the subject of ProcessContainer, so a
`start()` that would meet a `start()` or `stop()` in flight on the same container
waits (`Untangled`). The members of a namespace are a constant (`Members`, in the
order of the processes map): operations that change the table (`delete`, `scale`) are
not in this module. Persisting and events are left out. Cycles are rejected before
anything starts and external services are not processes of the daemon, so `Deps` holds
required dependencies between containers. `Needs`, the transitive dependencies, is a
least closed set rather than a recursion. `queue`, `steady` and `broughtUp` are
history for the properties.

| Run | Asks | Bounds | Result |
| --- | --- | --- | --- |
| `namespace_ops` | two operations at a time, failing starts, crashes, exit policy: is the lock a FIFO that is never wedged, are rollbacks complete and no broader than they should be? | namespace of 2 (`b` needs `a` and an outsider `d`), 2 operations, `b` and `d` may fail, `a` may crash, `b` follows | holds |
| `namespace_rollback` | does a failed level leave something behind? | 1 operation | violated: yes |
| `namespace_restart` | does a restart restore supervision? | 1 operation | violated: no |

Why the bounds are enough: the instance has a member with a level of two dependencies,
one inside and one outside the namespace, so that a level can fail in part, a rollback
can cross the namespace, and the loop over members has a first and a later one. Two
operations make a waiter and a holder; an entry that is replaced while a holder runs
needs only these. What a third waiter could change is proved for any number.
`namespace_ops` assumes no fairness: that nobody is left waiting is a safety property
(`WaiterIsServed`: whoever waits, waits for an unfinished operation).

## CloudLink

State. The agent's fields `running`, `cfg` (here `config`), `ws`, `streamState`,
`linkConfirmed`, `sawServerPing`; the report and watchdog intervals are armed and
cleared together (`ticking`). `disk` is the credential in `cloud.json`. Each running
`runStream()` is a slot of `Loops` with its local `cfg` (`dialled`), its local socket
and its hello timer; each request of the daemon that awaits is a slot of `Requests`.
The code compares config *objects*, so a config is a credential and a copy: loading
the file again gives another copy, a reconnect passes the same one.

| Action | Code |
| --- | --- |
| `RequestLink`, `Saved` | `cloudConnect` (`enroll`) and `cloudLink`: save, then `start()` |
| `RequestResume`, `Loaded` | `resumeFromDisk()` for `cloudStatus`; `cloudReconnect` without a config; the boot |
| `RequestReconnect` | `cloudReconnect` with a config |
| `RequestDisconnect`, `RevokeAnswered`, `Cleared` | `stop({revoke: true})`: up to the fetch, up to the removal of the file, the rest |
| `Start` (with `CloseSocket`) | `start()`, which runs `stop()` without a single await and the new loop up to its dial |
| `Wake`, `DialSucceeds`, `DialFails`, `Closes`, `Backoff` | the rounds of `runStream()` |
| `Closes` with 4001, `Unlinked` | `handleRevoked()` around its await |
| `Hello`, `Ping`, `HelloTimeout`, `WatchdogBites` | frames, hello deadline, inbound watchdog |
| `RevokedInDashboard`, `GoesSilent`, `Crash` | the cloud, the network, the end of the daemon and its boot |

A socket is open, greeted (hello has come), mute (its path is dead, or a proxy
answered in place of the cloud) or closing. Delays, the backoff ladder, retry counters
and the texts of errors are left out; a timer fires at any moment. Saving and loading
the file are one step each, at their end.

| Run | Asks | Bounds | Result |
| --- | --- | --- | --- |
| `cloud_link` | whatever loops earlier starts left, is the agent's socket the current link's, is a stopped agent silent, is only a saved credential dialled with, is a dead open given up? | 2 loops, 1 request at a time, 2 credentials and one that is refused, 3 config objects each, daemon crashes and revocations at any moment | holds |
| `cloud_two_sockets` | does the daemon keep one socket? | 2 loops, 1 credential | violated: no |

Why the bounds are enough: a hazard of the link needs the loop of the current start
and one that is left over, an old credential and a new one. Names of credentials and
config objects are used again when nothing holds them any more. The safety properties
are proved for any number of all of them.

Fairness: dials end (they have a deadline of 15 s), sleeps, hello timers and the
watchdog fire, `close()` of a socket is followed by its close event. Nothing is
assumed of the cloud, the network or the operator. `MirageIsLeft` speaks of a loop
that is alone: a loop left over that wakes up resets `linkConfirmed` under the other's
socket and switches its watchdog off, which is the finding of `cloud_two_sockets`
again.

## CloudOutbox, and the channel it implements

`EventChannel` is what the comment of `reportState` promises of an event: it is held
until it is delivered or given up, and while the machine stays linked it is not held
for ever. `CloudOutbox` is the code: the `process:crashed` listener and the diff of
snapshots that observe events, the outbox with its cap, the head of it that every
report carries, the acknowledgements. `reportState` awaits log tails; a call that does
occupies a slot, and calls overlap. The refinement mapping is `Fate`: an event is
delivered once the cloud has ingested it, given up once it expired, overflowed or was
unlinked, and otherwise held while a queue of the agent has it (`Queued`). The
refinement is the property `DeliversOrGivesUp`: `Channel!ChanSafety`, that an event
leaves the queues only to one of these fates, and the liveness of the channel.

| Run | Asks | Bounds | Result |
| --- | --- | --- | --- |
| `outbox` | is one crash one event; does the outbox implement the channel over a link that breaks and loses frames and acknowledgements? | 2 events, 1 failure, 2 overlapping reports, an outbox and a report of 1 event | holds |

Two events and a capacity of one are what displacement, overflow and a batch that
overlaps another need. One process is followed: the outbox is shared, but neither the
ledger of crashes nor the diff relates two processes.

Fairness (`OutFairness`): the report timer ticks and the reconnect loop dials (both
are timers of the daemon), a read of log tails ends. Strong fairness of a read while
the link is up, of ingestion and of acknowledgements says that a link which keeps
coming back now and then lasts long enough for one of them; without it a network that
cuts every frame off would hold every event for ever, and the code could do nothing
about it.

## The host: components side by side

The remaining modules keep state of their own and share none with each other, so one
instance checks them all: `part` says whose behaviour this is, and the state spaces
add up instead of multiplying. `host` assumes no fairness: all its properties are
about safety. It has no deadlock check, since a bounded number of requests, lines or
versions ends every behaviour.

A property that joins several is a conjunction of named ones, all of which were tried
against a change of the code of their own; the recorded mutant breaks one.

What the repository says of these components and the code does not keep has a config
of its own, with the specification of the component alone. These are not among the
runs of `PROJECT.json`; each ends with a counterexample to its one property
(`tlc -workers 2 -config daemon_stop.cfg DaemonLifecycle`), and "Findings" says what it
shows:

| Config | Asks | Bounds |
| --- | --- | --- |
| `table_shutdown` | does a shutdown leave the dump as it was? | 2 names, one in a namespace, 3 ids, 1 daemon, 4 requests |
| `daemon_stop` | does a reported stop last? | 2 daemons, 2 commands |
| `deploy_restore` | does a restored release hold the commit it is reported with? | the cloud names no commit (`CloudNames`) |
| `deploy_hole` | does a failed restoration put the live directory back? | as in `host` |
| `cron_trigger` | does a run by hand leave the schedule alone? | as in `host` |
| `cron_sync` | does a redefinition update the schedule in place? | as in `host` |
| `plan_prefix` | is every process of a name started after what it depends on? | 3 names, one of them shared by two processes |
| `plan_names` | is every ecosystem ordered by its dependencies? | 2 apps and a namespace spelt as one of them |
| `runtime_change` | must the new runtime answer before the selection moves? | 1 version, 2 calls |

**LogManager.** Lines are numbers; files are inodes, because an append opens a name
and a rename keeps the inode. Timers, appends in flight (opened, then written), each
round of the rotation's loop, its truncation, the background compression and tidy-up
are steps. `RotationLosesOnlyOldest` (uncompressed: see "Seen while modelling" for the
other), `LinesComeThrough` = `FlushIsComing` (no buffered line waits for another),
`OneTail` (one live interval per target, known to the table), `SearchIsHonest`. A
search reads the last `SearchCap` lines of each file (`SEARCH_LINE_CAP`), passes over
files that it cannot read (`unread`), and of `.i` and `.i.gz` takes the one that the
directory lists first (`gzFirst`); it stops at the limit of matches and then says
`truncated`. The property: while no rotation is under way, a search of an uncompressed
log that does not say so has every match on disk, apart from those in files it could
not read or beyond the cap of their file, of which the code says nothing. Bounds: 3
lines, files of 1 (one flush may still write several) and a cap of 2, 3 retained, 3
rotations, 2 tails; a rotation has an oldest, a middle and a live file.

**ProcessTable.** A request is a program of steps with an await each; `start` with
instances, scale down, start all, stop, delete, the live iteration of delete all
(`Sweep`), `save`, shutdown and `resurrect`. A process that ends by itself may call the
exit policy of its namespace (`Exits`): the stops of the siblings and the save of the
whole list are a program like any other (`PolicyStop`), which nobody awaits and which
runs during a shutdown too. The daemon ends anywhere; a dump whose write it cuts off is
old, new or torn. A write may also fail while the daemon runs (`SaveMissing`), or leave
a torn dump (`SaveTorn`): `persist()` swallows the error and the request still
succeeds. The dump lists the processes in the order of their ids. `IdsFresh` holds
whatever overlaps. `RebootRestoresIntent` is stated for requests that do not overlap,
those of the exit policy included (`serial`), because overlapping saves may land in
either order; `meant` is what the completed requests meant of a name. It promises
nothing ("any") of a name whose process ended by itself or failed to start, or whose
last request could not be saved, and of no name when the dump is torn, since then
nothing is resurrected. Bounds: 2 names in one namespace (`Joined`), one of which
takes its siblings down (`Followers`), 2 ids, 3 containers, 2 daemons, 3 requests, 2
at once; a crash is followed where another daemon comes after it.

**DaemonLifecycle.** Processes, the files they wrote, the commands `daemon start`,
`kill`, `daemon stop`, `restart`, the realignment of an upgrade, `startup install` and
`uninstall`, step by step between their awaits, and a systemd unit that runs its own
sweep, restarts what dies and waits for what it stops. A stop, a restart and a
realignment probe first (`Ask`) and kill only a daemon that answers. The service
manager may refuse the stop job (`StopFails`): `daemon stop` then warns and goes on as
if there were no service. `told` is what the user has read, "down" or "warned".
`DaemonIsInHand` = `ServingIsFound` (a daemon that serves is the one the files lead
to) and `DownStaysDown` (after a `daemon stop` that succeeded without a warning none
is left and none comes back; with the warning one may, which is `daemon_stop`). Both
are stated for commands that wait for each other (`oneByOne`): with two that overlap
the code keeps neither (see below). Bounds: 3 processes, 4 commands one at a time, or
2 that overlap; the unit is an actor beside the client.

**DeployJob.** A tree is the commit a directory holds and whether its build is
complete; directories with the commit each was named for (`named`), the `current`
link, backups with the name each is filed under, the process with the code it loaded.
A backup is named by what the cloud sent (`backupFromCommit`, one of `CloudNames`), or
else by HEAD of a checkout: in place its own, for releases that of the source clone,
which may be anything, or "live" when git does not answer. The checkout, the build,
the copy of a backup (which then leaves one without a tree), the relinking, the start,
and on the way back the relinking, the restart and the copy may each fail, and the job
may be cancelled; a job ends "ok", "failed", "reverted", or "stranded" when the way
back has failed too. Collection goes on after the job; the process may restart at any
moment on what its directory holds by then. `VerdictIsTrue` = `SuccessMeansLive` (a
deploy that succeeded runs the commit it names; a restoration, or a rollback to a
release that is there, what is filed under it) and `FailedDeployGoesBack`. Bounds: one
job at a time per target (`deployJobRunning` of the same deployment), 2 commits, 4
releases, 3 jobs, a retention of 1 backup, 2 releases kept.

**ClusterWrapper.** Forks, `appIndex`, the exit event apart from the end of the
process, respawn timers and polls, the rolling reload between its awaits, the
shutdown. `IndexHeld`: every index has a worker that is not being retired, or a fork
to come. Bounds: 2 indices, 4 forks.

**ThresholdMonitor** follows one machine (they share nothing) of each kind: level,
memory spike, handle growth, restart loop. Time is in report periods; a tick may be
late, a sample missing, a process gone. `EventsAreEarned`: an alert on a level was
sustained, however late the ticks, a recovery had an alert. **AlertConfig** is the
file and the live config, with writes in flight, torn files and restarts:
`ReloadKeepsConfig`, except after changes that overlap (`overlapped`). Bounds: 9
periods, 2 to be sustained, 3 for windows and heartbeat; 2 metrics, 1 override, 3
calls.

**CronJobs** has one wake timer for the earliest job, the watchdog, runs of any length
and `wake()` calls that overlap; a timer fires before time goes on, except where the
machine sleeps (`Jump`). A definition may replace that of a job that runs, and leaves a
disabled job disabled. **CronExpr** parses every word with every number and time of
its sets, and asks on which minutes of three months it fires. `CronKeepsTime` =
`NothingSkipped` (no due run is dropped for being late unless the machine slept),
`OneShotOnce`, `OneShotRuns`: a one-shot that is completed had its appointed run, or
was completed in one of the ways that the code has to do so without (`excuse`): too
late after a sleep, missed while it was disabled or the daemon down, or by the end of
a run by hand or under an earlier definition. The last two are what `cron_trigger` and
`cron_sync` are about. Of the schedules, `FiresAsWritten`. Bounds: 2 jobs, 6 ticks, a
period and a late window of 2; 24 and 25 as hours, 60 as a minute and the ends of
every range.

**DependencyPlan** answers one question per behaviour with the code's algorithms and
compares with definitions that search nothing: `PlanIsSound` = `StartsInOrder` (a
cycle is refused exactly when no order exists; levels are the earliest),
`EcosystemInOrder` (the same with units), `RemovalIsJudged` (a warning or refusal
names a real loss; the converse holds for a dependent of one plain name),
`ReportMatchesStart`. A name may match several processes (`Shared`), and the graph has
the dependencies of the first of them only (`OwnDeps`); `StartsInOrder` is about those,
`plan_prefix` about all. A unit is an app on its own or a namespace, and the code
compares their names only (`KeyOf`): `EcosystemInOrder` is stated where no app on its
own is spelt as a namespace (`KeysApart`), `plan_names` without. Bounds: all graphs of
4 names with up to 2 dependencies each, one of the names shared by two processes; all
ecosystems of 3 apps in up to 2 namespaces, one of which is spelt as an app; names
that differ in a suffix.

**RuntimeChoice** takes an operation as one step: pins, the machine default, the
runtime of the daemon, the cluster model that a start freezes, the port and the shim
of each instance. `RuntimeIsKept` = `PinBinds`, `NoPortFight`, `WrapperFindsNode`; the
last two while nothing that a spawn resolves to has changed since the start
(`steady`). Scaling to 0 deletes the instances and leaves the pin, which a delete
drops. Not in it: Windows. **DenoPermissions** checks all lists of 2 entries
against all command lines of 2 flags: `MinimalGrants`. **HostInputs** has both
parsers: `ReadAsWritten` = `FiresAsWritten`, `MinimalGrants`.

**Upgrade** has up to four copies of pboss on one machine, the stamp, `.runtime`, the
runtimes that are on PATH (`have`) or installed beside it (`hidden`), the registry with
Deno's supply-chain hold, the running daemon and the copy that the boot unit starts
(`bootUnit`); the commands are split where they wait, and the user installs and removes
copies at any moment. The old daemon is killed only when the probe finds it, and goes
in time or not (`KilledDaemon`); whenever none runs the service may bring one back from
its unit (`UnitRevives`); a realignment that fails may have rewritten the unit or not,
and leave a daemon or none (`RealignFails`). `UpgradeIsWhole` = `DenoStaysAlone`;
`DaemonIsRealigned`, that an old daemon that answers in the end is reported, and
answers a verified upgrade only when the old one could not be replaced (`undone`: it
did not answer or go, or the realignment failed) or another client spawned it
meanwhile (`raced`); and `SelectionHasPackage`. Other clients come up only during a
command. A machine has Node at first; snap behaves as brew; Windows, source checkouts
and a `.runtime` that does not parse are left out. Bounds: 2 versions, 3 calls.

## What is proved

TLAPS checks each theorem for every value of the constants. Assumptions: only the
`...Assumption` of each module, which says what its constants are, and which TLC
evaluates on every run. Four say more than a type: `ClusterAssumption` (as many forks
as indices), `LogAssumption` (`Retain` is at least 1, as the code needs for its live
file) and `CronAssumption`, that the watchdog looks more often than the window within
which a late run is still made up for (60 s and 120 s in `constants.ts:73-75`).
`RuntimeAssumption` names the runtimes the code knows and excludes a count of 0, which
`resolveInstances` turns into 1. `TableAssumption` has the slot of requests that a
boot resurrects in.

`ProcessContainerProofs` (any children, calls, options, failures, limit):

- `TypeCorrect`: `Spec => []TypeOK`. `TypeOK` is inductive; it records that a call at
  `pidfile` knows its child.
- `ProcessAlwaysLive`, `NoStrandedTransition`, `WaitingAlwaysHasTimer`: the three
  invariants are inductive only together (`Safe`): an exit is what makes `proc` and
  the status disagree, and the status is what tells that a call owns it.
- `CrashLoopAlwaysBounded`: from `StreakWithinDebt`, which relates the history counter
  to the debt the code keeps and to whether the container runs.
- `ChildAlwaysSupervised`, `CrashRestartAlwaysObeys`, `RestartAlwaysReplaces`,
  `OwnKillNeverCrash` are about the regime of `container_serial`: `OneAtATime`, one
  call slot and a PID file that can be written. Overlapping calls falsify them
  (finding 1), so the hypothesis is needed; features, operations, children and
  failing spawns remain arbitrary. Their invariant is `SerialInv`: nothing lives
  beside `proc`, and nothing at all where `start()` may spawn (`Alone`); a call's
  stage agrees with the status (`StagesAgree`); an armed timer is the one the handle
  knows (`TimerKnown`) and the operator wants the container up (`WantedUp`); what
  was signalled was signalled by a stop (`KillIsOurs`); a restart remembers the
  supervision that was (`Remembered`).

`NamespaceOpsProofs` (any fleet, dependencies, namespaces, number of operations):

- `LockIsFifo`, `WaitersAreServed`: from `LockInv`, that the queue of requests is
  exactly the invocations that have not finished (`QueueIsExact`) and that the promise
  chain is that queue (`ChainIsQueue`: each waits for the one before it, and `tail` is
  the last, or nobody when it is empty). The code has no queue; the proof is that its
  chain of promises is one. Most actions touch no lock and are carried by one lemma;
  `Request` and `Finish` have their own.
- `TypeCorrect`: needs `LockInv`, since a release takes the tail of a queue that must
  not be empty, and that a `member` phase still has its member at the head.
- `RollbackIsComplete`, `RollbackSparesTheRest`: from `RollbackInv`. What an
  invocation brought up and is still up is in its record, or in what is left of its
  rollback; nothing in either is steady. These fail as they stand: containers in
  flight must be known not to be steady, and only a failed start has a rollback.

`CloudLinkProofs` (any loops, requests, credentials, config objects):

- `TypeCorrect`: `TypeOK` is inductive as it stands.
- `StoppedAlwaysSilent`: `StoppedIsSilent` is inductive with it.
- `SocketAlwaysOfThisLink`: needs `UpIsServed`, that a loop with a live socket serves
  it, so that a loop that wakes up with a new config has none.
- `NeverZombie`: the action property `NoZombieRelink`, from `ConfigIsSaved`: a config
  in memory is that of the file, which every step that changes one of the two keeps.

`CloudOutboxProofs` (any events, failures, slots and capacities):

- `OutTypeCorrect`: `OutTypeOK` is inductive as it stands.
- `AlwaysOneReportPerCrash`: with `CrashInv`, that a failure nobody has seen yet, which
  the listener or a diff may still report, is that of no event. The window between a
  direct crash and the next report is where a second event could come from.
- `ChannelImplemented`: `Channel!ChanSafety`, the initial states and step by step.
  `QueueInv` says that every event made is ingested, dropped or queued; `QueueMoves` is
  what any step may do to the queues, one lemma per action, and the moves of `Fate`
  follow from it alone.

`AppSideProofs`, the logs (any lines, rotations, tails):

- `LinesAlwaysComeThrough`: all three of its parts. `FlushIsComing` has
  `EntryHasTimer` beside it, since the code asks
  the entry of `flushTimers`, not the timer, whether it must arm one; `OneTail` is
  inductive as it stands.
- `LogTypeCorrect`, `RotationAlwaysLosesOnlyOldest`: from `RotationInv`. The property
  spans a whole rotation, so the invariant says of each of its steps where the
  generations found at its beginning are by then (`FoundSurvives`), that the shift is
  in range (`ShiftInRange`), that the live file is no generation (`LiveIsApart`) and
  that files are uncompressed (`AllPlain`, the condition of the property).
- `SearchAlwaysHonest`, the third part, from `RotationInv`. Every line on disk is
  scanned, or is one that the search passes over (`ScannedOrOld`; this is where
  `AllPlain` is needed, since `.i` may hide `.i.gz`), and a search that stops at its
  limit without saying so has stopped at the very last line (`SearchGetsToTheEnd`).

`AppSideProofs`, the cluster wrapper (any number of indices and forks):

- `IndexAlwaysHeld`: `IndexHeld` is not inductive, because a retirement takes a worker
  away. `WrapInv` adds that while a roll awaits a successor its index is covered
  without the old worker (`OldIsSpare`), that the old worker has that index or none
  (`OldIsOfIndex`), and that a new fork has neither index nor retirement yet
  (`ForksInOrder`). `Spared` carries a cover over a step; replacement is the one step
  where one is exchanged for another (`ReplaceSpares`).

`ProcessTableProofs` (any names, requests, ids, containers, daemons):

- `TabTypeCorrect`, `IdsAlwaysFresh`: from `TabInv`, that requests, their remaining
  steps and the dump name only containers that were created and ids in range
  (`RequestsTyped`, `RestTyped`); otherwise a step that has waited could bring an id
  back.
- `RebootAlwaysRestoresIntent`: `RebootRestoresIntent` speaks of a daemon at rest, but
  a crash may come anywhere, so its invariant, `IntentInv`, follows the one request
  from step to step. The dump tells what the completed requests meant (`DumpTells`):
  its entries of a name are there and are down or not as the name is wanted, or it is
  torn and empty. Its ids are its own until a resurrection has placed them, except
  after a failed save of `delete all`, when other processes may have them and nothing
  is promised of any name (`AnyGoes`). The list stands as the request will have it,
  except for what its remaining steps still do (`ListStands`), and none of those steps
  works against the name it is about (`GoalFits`). A container moves only while the
  request awaits it, in its first step (`MovesAwaited`); else a container could be
  launching, or stopping, with nobody to bring it where it is due. And a snapshot whose
  write is in flight tells what will have been meant when it lands (`SaveTells`), which
  `DumpTells` becomes: one lemma for each way in which the write may end
  (`WrittenTells`, `TornTells`, `MissingTells`). There is one lemma per action
  (`...OnWay`) that the request stays on its way, so that the new request of an action
  meets a list at rest (`AtEase`, `Proposed`); the exit policy's is one of them
  (`PolicyProposed`), of a member whose own name is exempt from then on (`ExemptIs`).
  `serial` is a condition of the property: two saves in flight land in either order,
  and of those of a shutdown and the exit policy see finding 15.

`HostProofs`, each component with an invariant of its own:

- Deployments (any commits, directories, jobs, names the cloud sends):
  `DeployTypeCorrect`, `VerdictAlwaysTrue`. `DeployInv` follows a job: what kind of job
  is at which stage (`JobStaged`); from the checkout on, the tree of a deploy is of its
  commit unless it was collected, the tree of any other job is filed under its commit,
  and from the swap on the link names it (`TreeIsOfJob`); and the way back knows where
  the link was (`LinkGoesBack`).
- Thresholds (any meters, apps, changes): `ReloadAlwaysKeepsConfig`. `TuneInv`: while
  changes do not overlap, the file or the one write in flight holds the live config,
  and a config in force has every field, so that loading it is the identity.
- Alert machines (any clock, streak, window): `MonTypeCorrect`,
  `EventsAreAlwaysEarned`. `MonInv`: a phase that has begun began in the past
  (`WithinTime`), a streak that counts was not interrupted (`StreakIsWhole`), and a
  phase beyond an alert had one (`AlertPrecedes`). The steps of all kinds of machine
  are judged by one lemma per kind (`StepOK`).
- Cron jobs (any jobs, period, watchdog, time): `CronAlwaysKeepsTime`. `CronInv`: the
  earliest due run has a timer or a `wake()` under way (`TimerComes`), no due time is
  older than the watchdog allows (`InTime`), and a one-shot that has started is never
  due again (`StartedIsOver`). That a one-shot was completed by its appointed run or
  with an excuse (`OneShotRuns`) is inductive beside these.
- Upgrades (any versions, commands): `UpgradeAlwaysWhole`. `UpInv`: an upgrade of
  Deno's copy goes to a channel whose copy is there, since the stamps that win over it
  name brew, or the installer of a machine whose selection has a package
  (`SelectionFollows`, `NoSecondCopy`); between the kill and the report the daemon is
  down, new, revived by the service (whose unit is then written anew and restarted),
  somebody else's, or one that could not be replaced (`DaemonFollows`).
- Daemon (any clients and daemons): `DaemonAlwaysInHand`. `DmnInv`: at most one daemon
  is alive, apart from those with nothing left but to exit (`LoneDaemon`); on disk is
  what its stage has put there, unless the unit is ending it (`FilesNameIt`); each stage
  of the unit, and of a command, says whether a daemon may be alive and whose it is
  (`UnitFollows`, `CommandFollows`). The last is what the proof turns on: after a kill
  the unit may bring a daemon back while the command goes on, and the stop job, or the
  restart, that the command ends with must find it the unit's own.
- Runtimes (any instances and counts): `RuntimeAlwaysKept`. `RtInv`: a group that
  nothing has disturbed is numbered without a gap (`GroupIsWhole`; scaling appends at
  the number of members and removes by rank, so a gap would give a number twice), its
  members have resolved alike (`SpawnedAlike`), and the decision for the wrapper still
  holds (`WrapperIsNode`).
- Permissions (any categories, lists and flags of any length): `GrantsAlwaysMinimal`.
  There is one question and one answer; the proof is about two folds. One turns the
  list into flags, makes nothing up and loses no category that the list mentions; the
  other adds them to the user's flags, keeps those as a prefix, and adds nothing that
  is mentioned already (`Merged` is its invariant).
- Schedules (any hours, minutes and numbers): `AlwaysFiresAsWritten`. Hour 24 moves the
  day by one (`ShiftOf`); a weekday, a day of the month and a date that are moved
  along fire on the day after the one that is meant, or are refused. The calendar is
  that of the model, three months. `AlwaysReadAsWritten` joins the two.

`NaturalOrder` has what these rest on and the library lacks: least and greatest
elements of sets of numbers, what filtering a list keeps (`Among`), that a fold has a
value, and what two lists that are joined hold. The provers have no induction over an
operator; these are inductions over a set of numbers, which has a least element
(`ByCounting`).

Only model-checked:

- liveness (`CallsReturn`, `CrashRestarts`, `MirageIsLeft`, `DeliversOrGivesUp`), since
  fairness is out of the prover's reach;
- `PlanIsSound`: `DependencyPlan` writes the code's searches as recursive operators, and
  modules with these cannot be proved about; it compares them with reference
  definitions over bounded inputs;
- `HostTypeOK`, a conjunction over the parts of `MCHost`; those of the log, the table,
  the deployments, the daemon, the alert machines, the upgrades and the wrapper are
  established on the way to the theorems above; `TuneTyped` and `CronTyped` are the
  types that the proofs about thresholds and cron jobs need.

## Findings

1. `container_orphan` (`process-container.ts:684`): `stop()` of a container that is
   still launching finds no process and returns; the spawn goes ahead, and a later
   `start()` overwrites `this.process`. The first child runs on, unsupervised.
2. `container_silent_crash` (`process-container.ts:667`): `stop()` of a container that
   waits for its crash restart leaves `stopInitiated` set, with no exit to clear it;
   the next crash is reported to nobody.
3. `container_late_check` (`process-container.ts:196`): a health check in flight
   restarts a process that was stopped meanwhile.
4. `namespace_rollback` (`dependencies.ts:564`): a failed dependency level rolls back
   while the other starts of the level are in flight; what they bring up stays.
5. `namespace_restart` (`process-manager.ts:483`): restarting a stopped namespace
   leaves its members unsupervised, as the remembered supervision is the one the
   earlier stop had set to false.

6. `cloud_two_sockets` (`cloud.ts:1114`): a reconnect passes the same config object,
   so the loop of the previous start, dialling or asleep, goes on beside the new one,
   with a socket of its own.

These six are runs of `PROJECT.json`. The following are shown by the configs of "The
host", and each contradicts a comment of the code:

7. `cron_trigger` (`cron-jobs.ts:431`): `execute()` completes a one-shot at the end of
   whatever run it was, so that `trigger()` calls its appointed run off. Line 203: "Run
   a job immediately (does not advance its schedule)."
8. `cron_sync` (`cron-jobs.ts:431`): a run that began under an older definition
   completes the job when it ends, if the job has become a one-shot meanwhile: the
   appointed run never starts. Lines 232-233: "re-starting a config updates schedules
   in" place.
9. `daemon_stop` (`index.ts:3301`): when the stop job of the boot service fails the
   command warns, kills, and reports success at the first probe that nobody answers;
   the service starts the daemon again. Line 3306: '"stopped" must mean stopped.'
10. `deploy_restore` (`deploy-job.ts:403`): without a `backupFromCommit` the backup of
    a release is filed under HEAD of the source clone, not under the commit of the
    release, and its restoration reports that commit as live (629-721).
    `cloud.ts:544`: "The commit the backup HOLDS."
11. `deploy_hole` (`deploy-job.ts:700`): when `cp()` fails after it has created the
    directory, the displaced one cannot be renamed back onto it, and part of a backup
    stays in place of the live tree. Line 699: "never leave a hole".
12. `runtime_change` (`index.ts:2928`): "the new runtime must answer before the
    selection moves" (2927), but the test is of a promise that is not awaited
    (`runtime/core/types.ts:220`), and never fails.
13. `plan_prefix` (`dependencies.ts:501`): of the processes that a name matches, all of
    which are started (583-589), only `containers[0]` is asked for its own
    dependencies, which line 483 says are walked recursively.
14. `plan_names` (`dependencies.ts:852`): `addEdge` compares keys, and those of an app
    on its own and of a namespace of the same name are one string: the edge passes for
    one inside a unit. Line 846: "Unit edges: unit U depends on unit V when a member of
    U depends on a name belonging to V."
15. `table_shutdown` (`process-manager.ts:320`): the exit policy saves the list also
    while the stops of a shutdown are under way; what the shutdown has stopped by then
    goes down as stopped in the dump and stays down after the next boot. Lines
    1132-1134: "the dump must keep describing what SHOULD run so the next boot
    resurrects everything as it was."

## Seen while modelling

Behaviour that surprised, but that no statement of the repository contradicts, or that
the models name without a run of its own:

- Cloud link: a revocation or a disconnect that is still clearing the file removes the
  credential a new link has just saved (`Unlinked` and `Cleared` after `Saved`), and a
  superseded dial closes the agent's socket instead of the one it has opened.
- Outbox: a diff of more than 50 events drops the rest (`cloud.ts:726-791`); a direct
  crash hides a later transition to errored within one report interval; a batch whose
  log tails are awaited across a revocation is queued after it.
- Logs: with compression a rotation overwrites `.1.gz`, since only uncompressed files
  are shifted (`log-manager.ts:307-332`; `DOCS.md:1125` says the files are shifted up
  by one); `retain` N keeps N-1 rotated files; lines appended between rename and
  truncation are lost; searches ignore custom log paths, and pass over lines beyond the
  cap of a file (395-397, 479) and files that cannot be read (472-474) without saying
  `truncated`.
- Table: two saves land in either order; a torn dump resurrects nothing, and the next
  save makes that permanent; a start that fails leaves a container that is not saved;
  delete all removes what a concurrent start has just created and resets `nextId`; if
  its save fails, the next boot brings the deleted list back; the save of a start in
  flight, like that of the exit policy, may land during the stops of a shutdown.
- Daemon: two boots at once can both find no daemon and both take the socket
  (`daemon.ts:158-190`, `network.ts:113-124`; `api.ts:1294` says a duplicate cannot
  win it); `kill()` waits 10 s and then removes whatever files are there
  (`api.ts:1520-1532`), also a successor's; an uninstallation whose stop job fails
  removes the unit file of a unit that runs on (modelled for commands that overlap
  only).
- Deployments: `findReleaseForSha` picks a release whose build never finished
  (`deploy-job.ts:889-898`; the comment at 636 says a built release); a failed
  in-place build leaves its code in place; the fast path of a rollback and a restore
  have no way back when the start fails; what a failed copy has put in a backup stays
  under its name.
- Alerts: a baseline window that is never complete keeps `mem.spike` and handle growth
  from being evaluated (`threshold-monitor.ts:651-655`, 731-745); clearing that turns
  to watching and then normal emits no recovery (572-596), hence no liveness of
  recoveries; a patch of one process forgets its earlier override (320); overrides in
  the file are completed from the built-in values, not from the file's defaults (265).
- Cron: a crash before the save runs a one-shot again; a corrupted `cron.json` is
  overwritten; `on-date` on the last day of a month at 24:xx is refused.
- Cluster wrapper: a second SIGHUP within the stagger, or an old worker that dies
  while its replacement is awaited, doubles an index (306-352), hence no upper bound
  in `IndexHeld`; a worker that never comes online still retires the old one after 10
  s.
- Runtimes: the cluster model is frozen at the first start, so that a later pin makes
  the command throw (`cluster-manager.ts:262-272`); deleting one instance drops the
  app's pin; two pins written at once lose one.
- Upgrade: the check for npm tests a promise too (`index.ts:2905`); `--channel` writes
  the stamp even with `--check`; the messages compare with `latest` where the decision
  uses the held version, so that a held upgrade is reported as not upgraded; an npm
  install answered with Bun is upgraded through Bun, into a second copy.
- Dependencies: `dependentHits` stops at the first dependency that matches (640-652);
  `api-gateway` provides "api" by its prefix.

## Not modelled, and why

In ProcessContainer: the cluster branch of `start()` (its workers are ClusterWrapper),
`reload()` (no caller), `sendSignal` (no state), log-rotation ticks (LogManager
rotates). In NamespaceOps and ProcessTable: reload, reset, and the composition of the
two: the table of one is the other's constant. In CloudLink and CloudOutbox: the
results of remote commands, metrics backfill, the device-code handshake.
`GracefulReload` of processes without a wrapper is one straight line. `deploy.ts` runs
ssh and keeps nothing. Of the boot services only systemd is modelled; launchd and
Windows tasks do the same calls with other tools. Time zones and fields of cron
expressions are a library's. Metrics, dashboards, argument parsing, rendering and the
runtime adapters keep no state that another component depends on.

## Plan

1. ProcessTable under the lock of NamespaceOps, for a delete that was queued before a
   start.
