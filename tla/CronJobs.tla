-------------------------------- MODULE CronJobs --------------------------------
(* The standalone cron jobs of the daemon (cron-jobs.ts): a table of jobs, one *)
(* wake timer for the earliest of them, a watchdog that arms it again, and    *)
(* runs that take as long as they take. Timers fire before time passes.       *)
EXTENDS Naturals, FiniteSetsExt

CONSTANTS JobIds,
          MaxTime,       \* bound: how long a behaviour is followed
          Period,        \* a recurring job is due at its multiples
          LateWindow,    \* CRON_LATE_WINDOW_MS
          DogPeriod,     \* CRON_WATCHDOG_INTERVAL_MS
          MaxCronCalls   \* bound: calls of the RPC

\* A due run waits for the watchdog at most, and that is not yet too late.
ASSUME CronAssumption == /\ MaxTime \in Nat /\ LateWindow \in Nat
                         /\ Period \in Nat \ {0} /\ DogPeriod \in Nat \ {0} /\ DogPeriod <= LateWindow

VARIABLES jobs,          \* the table
          cronFile,      \* the table as it was saved last
          inRun,         \* runningIds
          wakes,         \* the due runs that each wake() waits for
          wakeAt,        \* when the wake timer fires, 0 when it is not armed
          dogAt,         \* when the watchdog fires next
          time,
          cronCalls,     \* calls of the RPC so far
          jumped,        \* the machine slept, or its clock was set
          (* history *)
          skipped,       \* a due run was dropped for being late
          fired,         \* one-shots that the schedule has started, since it was set
          runOf,         \* what a run in progress is: of the schedule, by hand, or of a
                         \* definition that is no longer the job's
          excuse         \* why a one-shot was completed without its appointed run

ledger == <<fired, runOf, excuse>>
cronVars == <<jobs, cronFile, inRun, wakes, wakeAt, dogAt, time, cronCalls,
              jumped, skipped, ledger>>

Absent == [there |-> FALSE, once |-> FALSE, at |-> 0, enabled |-> FALSE,
           done |-> FALSE, next |-> 0]

CronInit ==
  /\ jobs = [j \in JobIds |-> Absent] /\ cronFile = jobs
  /\ inRun = {} /\ wakes = {} /\ wakeAt = 0 /\ dogAt = DogPeriod /\ time = 0
  /\ cronCalls = 0 /\ jumped = FALSE /\ skipped = FALSE
  /\ fired = [j \in JobIds |-> 0]
  /\ runOf = [j \in JobIds |-> "none"] /\ excuse = [j \in JobIds |-> "none"]

NextRun(t) == Period * ((t \div Period) + 1)               \* nextCronRun

\* recomputeNext(job)
Recomputed(r) ==
  IF ~r.enabled THEN [r EXCEPT !.next = 0]
  ELSE IF r.once THEN [r EXCEPT !.next = IF r.at > time THEN r.at ELSE 0, !.done = r.at <= time]
  ELSE [r EXCEPT !.next = NextRun(time), !.done = FALSE]

\* scheduleWake(), for a table tab
Timed(tab) == {tab[j].next : j \in {i \in JobIds : tab[i].enabled /\ tab[i].next # 0}}
ScheduleWake(tab, now) ==
  wakeAt' = IF Timed(tab) = {} THEN 0 ELSE Max({now, Min(Timed(tab))})

Saves == cronFile' = jobs'
Calm == UNCHANGED <<dogAt, time, jumped, skipped>>

------------------------------------------------------------------------------
(* The RPC. The file is written before the timer is armed; nothing else of the *)
(* scheduler runs in between.                                                 *)
Called == cronCalls < MaxCronCalls /\ cronCalls' = cronCalls + 1

Defined(once, at, on) == Recomputed([there |-> TRUE, once |-> once, at |-> at, enabled |-> on,
                                     done |-> FALSE, next |-> 0])
\* A one-shot that is parsed lies in the future.
Schedules == {<<FALSE, 0>>} \cup {<<TRUE, t>> : t \in time + 1 .. MaxTime}

\* add(), and syncFromConfig() for a job that is there already, running or not.
\* Either may leave the job disabled.
Define(j) ==
  /\ Called /\ (j \in inRun => jobs[j].there)
  /\ \E s \in Schedules, on \in BOOLEAN : jobs' = [jobs EXCEPT ![j] = Defined(s[1], s[2], on)]
  /\ fired' = [fired EXCEPT ![j] = 0] /\ excuse' = [excuse EXCEPT ![j] = "none"]
  /\ runOf' = [runOf EXCEPT ![j] = IF j \in inRun THEN "redefined" ELSE "none"]
  /\ Saves /\ ScheduleWake(jobs', time) /\ Calm /\ UNCHANGED <<inRun, wakes>>

RemoveJob(j) ==
  /\ jobs[j].there /\ Called
  /\ jobs' = [jobs EXCEPT ![j] = Absent]
  /\ Saves /\ ScheduleWake(jobs', time) /\ Calm /\ UNCHANGED <<inRun, wakes, ledger>>

\* A one-shot that is enabled again after its time is completed: it was missed.
SetEnabled(j, on) ==
  /\ jobs[j].there /\ ~jobs[j].done /\ Called
  /\ jobs' = [jobs EXCEPT ![j] = Recomputed([jobs[j] EXCEPT !.enabled = on])]
  /\ excuse' = [excuse EXCEPT ![j] = IF jobs'[j].done /\ fired[j] = 0 THEN "missed" ELSE @]
  /\ Saves /\ ScheduleWake(jobs', time) /\ Calm /\ UNCHANGED <<inRun, wakes, fired, runOf>>

\* trigger() of a job that runs does no more than save.
Trigger(j) ==
  /\ jobs[j].there /\ Called /\ UNCHANGED jobs
  /\ \/ /\ j \notin inRun /\ inRun' = inRun \cup {j}
        /\ runOf' = [runOf EXCEPT ![j] = "hand"] /\ UNCHANGED cronFile
     \/ j \in inRun /\ Saves /\ UNCHANGED <<inRun, runOf>>
  /\ Calm /\ UNCHANGED <<wakes, wakeAt, fired, excuse>>

------------------------------------------------------------------------------
(* The scheduler.                                                             *)
Due == {j \in JobIds : jobs[j].enabled /\ jobs[j].next # 0 /\ jobs[j].next <= time
                       /\ j \notin inRun}
TooLate == {j \in Due : time - jobs[j].next > LateWindow}

\* wake() starts what is due, and waits for all of it; the timer stays unarmed.
\* When nothing is, it saves and arms the timer at once.
Wake ==
  /\ wakeAt # 0 /\ wakeAt <= time
  /\ jobs' = [j \in JobIds |-> IF j \in TooLate THEN Recomputed(jobs[j]) ELSE jobs[j]]
  /\ skipped' = (skipped \/ TooLate # {})
  /\ excuse' = [j \in JobIds |-> IF j \in TooLate /\ jobs[j].once THEN "late" ELSE excuse[j]]
  /\ LET starts == Due \ TooLate IN
       /\ inRun' = inRun \cup starts
       /\ runOf' = [j \in JobIds |-> IF j \in starts THEN "schedule" ELSE runOf[j]]
       /\ fired' = [j \in JobIds |-> IF j \in starts /\ jobs[j].once THEN fired[j] + 1 ELSE fired[j]]
       /\ IF starts = {} THEN Saves /\ ScheduleWake(jobs', time) /\ UNCHANGED wakes
          ELSE wakes' = wakes \cup {starts} /\ wakeAt' = 0 /\ UNCHANGED cronFile
  /\ UNCHANGED <<dogAt, time, cronCalls, jumped>>

\* The end of execute(): the schedule moves on, the timer is armed; the last run
\* of a wake(), or a run by hand, saves. A job that was removed is no more.
Finish(j) ==
  /\ j \in inRun /\ inRun' = inRun \ {j}
  /\ jobs' = [jobs EXCEPT ![j] = IF ~@.there THEN @
                                 ELSE IF @.once THEN [@ EXCEPT !.done = TRUE, !.next = 0]
                                 ELSE Recomputed(@)]
  /\ LET mine == {w \in wakes : j \in w} IN
       /\ wakes' = (wakes \ mine) \cup ({w \ {j} : w \in mine} \ {{}})
       /\ IF mine = {} \/ {j} \in mine THEN Saves ELSE UNCHANGED cronFile
  /\ runOf' = [runOf EXCEPT ![j] = "none"]
  /\ excuse' = [excuse EXCEPT ![j] =
        IF jobs[j].once /\ ~jobs[j].done /\ runOf[j] # "schedule" THEN runOf[j] ELSE @]
  /\ ScheduleWake(jobs', time) /\ Calm /\ UNCHANGED <<cronCalls, fired>>

NoDog == UNCHANGED wakeAt                                \* mutant: the watchdog arms nothing
DogArms == ScheduleWake(jobs, time)

Watchdog ==
  /\ dogAt <= time /\ dogAt' = time + DogPeriod
  /\ DogArms
  /\ UNCHANGED <<jobs, cronFile, inRun, wakes, time, cronCalls, jumped, skipped, ledger>>

\* A timer fires before time goes on, unless the wake would find nothing to do.
Tick ==
  /\ time < MaxTime /\ dogAt > time
  /\ ~(wakeAt # 0 /\ wakeAt <= time /\ Due # {})
  /\ time' = time + 1
  /\ UNCHANGED <<jobs, cronFile, inRun, wakes, wakeAt, dogAt, cronCalls, jumped, skipped, ledger>>

\* The machine sleeps for longer than the late window, or its clock is set.
Jump ==
  /\ ~jumped /\ jumped' = TRUE
  /\ time + LateWindow + 1 <= MaxTime /\ time' = time + LateWindow + 1
  /\ UNCHANGED <<jobs, cronFile, inRun, wakes, wakeAt, dogAt, cronCalls, skipped, ledger>>

\* The daemon is gone and another loads the file: recurring jobs are scheduled
\* from now, a one-shot that was missed by more than the window is completed.
Loaded(r) ==
  IF ~r.enabled \/ r.done \/ ~r.there THEN r
  ELSE IF ~r.once THEN [r EXCEPT !.next = NextRun(time)]
  ELSE IF r.at + LateWindow < time THEN [r EXCEPT !.done = TRUE, !.next = 0]
  ELSE r

Restarted ==
  /\ Called
  /\ jobs' = [j \in JobIds |-> Loaded(cronFile[j])]
  /\ Saves /\ ScheduleWake(jobs', time) /\ dogAt' = time + DogPeriod
  /\ inRun' = {} /\ wakes' = {} /\ runOf' = [j \in JobIds |-> "none"]
  /\ fired' = [j \in JobIds |-> IF cronFile[j].done THEN fired[j] ELSE 0]
  /\ excuse' = [j \in JobIds |-> IF cronFile[j].done THEN excuse[j]
                                 ELSE IF jobs'[j].done THEN "missed" ELSE "none"]
  /\ UNCHANGED <<time, jumped, skipped>>

CronNext ==
  \/ \E j \in JobIds : Define(j) \/ RemoveJob(j) \/ Trigger(j) \/ Finish(j)
                       \/ SetEnabled(j, TRUE) \/ SetEnabled(j, FALSE)
  \/ Wake \/ Watchdog \/ Tick \/ Jump \/ Restarted

CronSpec == CronInit /\ [][CronNext]_cronVars

------------------------------------------------------------------------------
JobRecord == [there : BOOLEAN, once : BOOLEAN, at : 0..MaxTime, enabled : BOOLEAN,
              done : BOOLEAN, next : 0..(MaxTime + Period)]

(* Every variable is in its domain.                                           *)
CronTypeOK ==
  /\ jobs \in [JobIds -> JobRecord] /\ cronFile \in [JobIds -> JobRecord]
  /\ inRun \subseteq JobIds /\ \A w \in wakes : w # {} /\ w \subseteq inRun
  /\ wakeAt \in 0..(MaxTime + Period) /\ dogAt \in Nat /\ time \in 0..MaxTime
  /\ jumped \in BOOLEAN /\ skipped \in BOOLEAN /\ fired \in [JobIds -> Nat]
  /\ runOf \in [JobIds -> {"none", "schedule", "hand", "redefined"}]
  /\ excuse \in [JobIds -> {"none", "late", "missed", "hand", "redefined"}]

(* While the daemon is up and the clock goes evenly, no due run is dropped for *)
(* being late: not when wake() waits for a long run of another job, not across *)
(* overlapping wakes, and not after a restart (cron-jobs.ts:310 drops runs     *)
(* "missed while the daemon was asleep").                                     *)
NothingSkipped == skipped => jumped

(* The schedule starts a one-shot job once, whatever wakes overlap while it    *)
(* runs and however it is disabled and enabled meanwhile.                     *)
OneShotOnce == \A j \in JobIds : fired[j] <= 1

(* A one-shot is completed by its appointed run, or by one of the ways that   *)
(* are known to complete it without: too late after a sleep, missed while it  *)
(* was disabled or the daemon was down, or the end of a run that was not its  *)
(* own (cron-jobs.ts:429-432), which the two properties below are about.      *)
OneShotRuns ==
  \A j \in JobIds : jobs[j].once /\ jobs[j].done => fired[j] = 1 \/ excuse[j] # "none"

(* A table of jobs keeps its time: all of the above.                          *)
CronKeepsTime == NothingSkipped /\ OneShotOnce /\ OneShotRuns

(* "Run a job immediately (does not advance its schedule)" (cron-jobs.ts:203): *)
(* an enabled one-shot that was run by hand still has its appointed run.      *)
TriggerKeepsSchedule == \A j \in JobIds : excuse[j] = "hand" => ~jobs[j].enabled

(* "Re-starting a config updates schedules in place" (cron-jobs.ts:233): the  *)
(* run that an enabled job's new schedule appoints is not called off by the   *)
(* end of a run of the old one.                                               *)
SyncUpdatesSchedule == \A j \in JobIds : excuse[j] = "redefined" => ~jobs[j].enabled
=============================================================================
