------------------------------- MODULE DeployJob -------------------------------
(* The deployments of one target (deploy-job.ts, the deploy.* commands of     *)
(* cloud.ts). A tree is the content of a directory: the commit it holds and   *)
(* whether its build is complete. Directory 0 is the working directory of an  *)
(* adopted process; the others are releases, numbered as they are created, each *)
(* named for the commit it was created for, which need not be what it holds.   *)
EXTENDS Naturals, FiniteSetsExt

CONSTANTS Commits,
          MaxDirs,       \* bound: releases that are created
          MaxJobs,       \* bound: jobs that are started
          Retention,     \* backupRetention of the payload
          ReleasesKept,  \* RELEASES_KEPT
          CloudNames     \* what the cloud may say the live commit is (backupFromCommit)

ASSUME DeployAssumption == /\ MaxDirs \in Nat /\ Commits # {} /\ CloudNames \subseteq Commits
                           /\ {"none", "live"} \cap Commits = {}

NoTree == [of |-> "none", ready |-> FALSE]
Dirs == 0..MaxDirs
Releases == 1..MaxDirs

VARIABLES strategy,      \* "release" or "inplace"
          dirs,          \* the tree in each directory
          named,         \* the commit that each release is named for
          current,       \* where the current link points
          backups,       \* [n, name, tree]; a copy that failed left one without a tree
          app,           \* the process: known to the manager, up, code it loaded
          job,           \* the job, or the one that ended last
          collecting,    \* garbage collections that a finished deploy left running
          made,          \* releases created so far
          jobsRun        \* how many jobs have been started

depVars == <<strategy, dirs, named, current, backups, app, job, collecting,
             made, jobsRun>>

NoJob == [at |-> "none", kind |-> "none", commit |-> "none", dir |-> 0,
          prior |-> 0, old |-> NoTree, cancelled |-> FALSE, from |-> "none"]
\* reverted: failed after the swap, and gone back; stranded: "rollback failed" as well.
JobEnded == {"none", "ok", "failed", "reverted", "stranded"}
JobRunning == job.at \notin JobEnded                    \* deployJobRunning

DepInit ==
  /\ strategy \in {"release", "inplace"}
  /\ LET live == [of |-> CHOOSE c \in Commits : TRUE, ready |-> TRUE] IN
       /\ dirs = [d \in Dirs |-> IF strategy = "inplace" /\ d = 0 THEN live ELSE NoTree]
       /\ app = IF strategy = "inplace" THEN [known |-> TRUE, up |-> TRUE, code |-> live]
                                        ELSE [known |-> FALSE, up |-> FALSE, code |-> NoTree]
  /\ named = [d \in Dirs |-> "none"]
  /\ current = 0 /\ backups = {} /\ job = NoJob
  /\ collecting = 0 /\ made = 0 /\ jobsRun = 0

\* Moves the job on, and says what else of its record changes with it.
Moves(from, new) == job.at = from /\ job' = new
To(at) == [job EXCEPT !.at = at]
Finishes(from, result) == Moves(from, To(result))
Still == UNCHANGED <<strategy, jobsRun>>

\* A directory is filled; a release gets its name when it is created.
Fills(d, tree) == /\ dirs' = [dirs EXCEPT ![d] = tree]
                  /\ named' = IF d = 0 THEN named ELSE [named EXCEPT ![d] = job.commit]
                  /\ made' = IF d = 0 THEN made ELSE d

------------------------------------------------------------------------------
(* The commands. A deployment that is running is not started again.           *)
Accept(kind, c, from) ==
  /\ jobsRun < MaxJobs
  /\ from # "none" => kind = "deploy" \/ kind = "rollback"
  /\ ~JobRunning
  /\ kind = "rollback" => strategy = "release"
  /\ job' = [NoJob EXCEPT !.at = IF kind = "purge" THEN "purge" ELSE "begin",
                          !.kind = kind, !.commit = c, !.from = from]
  /\ jobsRun' = jobsRun + 1
  /\ UNCHANGED <<strategy, dirs, named, current, backups, app, collecting, made>>

\* The flag is only looked at when a child of the job closes.
Cancel ==
  /\ JobRunning /\ job.kind # "purge" /\ ~job.cancelled
  /\ job' = [job EXCEPT !.cancelled = TRUE]
  /\ Still /\ UNCHANGED <<made, named, dirs, current, backups, app, collecting>>

\* A command that the job runs fails, or the job was cancelled while it ran.
ExecFails(from) ==
  /\ Finishes(from, "failed")
  /\ Still /\ UNCHANGED <<made, named, dirs, current, backups, app, collecting>>

\* findReleaseForSha: by name, whatever it holds.
ReleasesOf(c) == {d \in Releases : dirs[d] # NoTree /\ named[d] = c}
NextDir == made + 1

------------------------------------------------------------------------------
(* Deploy: where it begins, the backup, the new tree.                         *)
BeginDeploy ==
  /\ job.kind \in {"deploy", "rollback"}
  /\ LET reused == ReleasesOf(job.commit)
         fast == job.kind = "rollback" /\ reused # {}
     IN Moves("begin", [job EXCEPT !.at = IF fast THEN "flip" ELSE "backup",
                                        !.dir = IF fast THEN Max(reused) ELSE 0,
                                        !.kind = IF fast THEN "rollback" ELSE "deploy",
                                        !.prior = IF dirs[current] = NoTree THEN 0 ELSE current])
  /\ strategy = "inplace" => app.known
  /\ Still /\ UNCHANGED <<made, named, dirs, current, backups, app, collecting>>

\* Oldest first, beyond the retention, but none that is named for the live commit.
Pruned(keep) ==
  LET over == Cardinality(backups) + 1 - Retention
      spare == {b \in backups : keep = "live" \/ b.name # keep}
  IN {b \in spare : Cardinality({x \in spare : x.n < b.n}) < over}

\* The cloud says which commit is live, or HEAD of a checkout does: the directory's own
\* in place, which a checkout that was cut off has not moved; for a release the source
\* clone's, which is wherever the clone once left it. Or git fails.
BackupNames(live) ==
  IF job.from # "none" THEN {job.from}
  ELSE {"live"} \cup (IF strategy = "inplace" /\ live.ready THEN {live.of} ELSE Commits)

NewBackup(name, tree) == [n |-> IF backups = {} THEN 1 ELSE 1 + Max({b.n : b \in backups}),
                          name |-> name, tree |-> tree]

Backup ==
  /\ LET live == dirs[job.prior] IN
       \/ /\ job.prior = 0 /\ live = NoTree
          /\ Moves("backup", [job EXCEPT !.at = "fetch", !.from = "none"])
          /\ UNCHANGED backups
       \/ \E name \in BackupNames(live) :
            \/ /\ live # NoTree
               /\ backups' = (backups \ Pruned(name)) \cup {NewBackup(name, live)}
               /\ Moves("backup", [job EXCEPT !.at = "fetch", !.from = "none"])
            \/ /\ job.prior # 0 \/ live # NoTree        \* the copy fails
               /\ backups' = backups \cup {NewBackup(name, NoTree)}
               /\ Moves("backup", [job EXCEPT !.at = "failed", !.from = "none"])
  /\ Still /\ UNCHANGED <<made, named, dirs, current, app, collecting>>

\* git archive into a directory of its own, or git checkout -f in the live one;
\* either may have happened, or begun, by the time the command is found to fail.
Target == IF strategy = "inplace" THEN 0 ELSE NextDir

Checkout ==
  /\ Target \in Dirs
  /\ Fills(Target, [of |-> job.commit, ready |-> FALSE])
  /\ \/ Finishes("fetch", "failed")
     \/ /\ ~job.cancelled
        /\ Moves("fetch", [job EXCEPT !.at = "build", !.dir = Target])
  /\ Still /\ UNCHANGED <<current, backups, app, collecting>>

Build ==
  /\ ~job.cancelled /\ dirs[job.dir] # NoTree
  /\ dirs' = [dirs EXCEPT ![job.dir].ready = TRUE]
  /\ Moves("build", To(IF strategy = "inplace" THEN "stop" ELSE "flip"))
  /\ Still /\ UNCHANGED <<made, named, current, backups, app, collecting>>

------------------------------------------------------------------------------
(* The swap, and the restart on what the working directory now holds.         *)
\* Only a deploy goes back to the release that was current when it began.
NeverBack == FALSE                                 \* mutant: the catch around the swap dropped
GoesBack == /\ strategy = "release" /\ job.kind = "deploy"
               /\ dirs[job.prior] # NoTree
SwapFailed == IF GoesBack THEN "unflip" ELSE "failed"

\* The link cannot be made or moved; or the start command is not found, which a
\* rollback or a restoration looks up first.
Flip ==
  /\ \/ Moves("flip", To("stop")) /\ current' = job.dir
     \/ Moves("flip", To(SwapFailed)) /\ UNCHANGED current
  /\ Still /\ UNCHANGED <<made, named, dirs, backups, app, collecting>>

StopSkipped == UNCHANGED app                          \* mutant: start() without stop()
AppStopped == app' = [app EXCEPT !.up = FALSE]

Stop ==
  /\ Moves("stop", To("start"))
  /\ AppStopped
  /\ Still /\ UNCHANGED <<made, named, dirs, current, backups, collecting>>

\* start() leaves a process alone that is up.
Started == [known |-> TRUE, up |-> TRUE, code |-> IF app.up THEN app.code ELSE dirs[current]]

Start ==
  /\ app.up \/ dirs[current] # NoTree
  /\ app' = Started
  /\ \/ Finishes("start", "ok")
     \/ job.old # NoTree /\ Finishes("start", "failed")    \* what was moved aside stays
  /\ collecting' = collecting + (IF job.kind = "deploy" /\ strategy = "release" THEN 1 ELSE 0)
  /\ Still /\ UNCHANGED <<made, named, dirs, current, backups>>

StartFails ==
  /\ ~app.up /\ app' = [app EXCEPT !.known = TRUE]
  /\ Moves("start", To(SwapFailed))
  /\ Still /\ UNCHANGED <<made, named, dirs, current, backups, collecting>>

\* The link is put back by a command, which may fail, and which a cancelled job takes
\* for a failure.
Unflip ==
  /\ \/ current' = job.prior /\ ~job.cancelled /\ Moves("unflip", To("restop"))
     \/ current' \in {current, job.prior} /\ Finishes("unflip", "stranded")
  /\ Still /\ UNCHANGED <<made, named, dirs, backups, app, collecting>>

Restop ==
  /\ Moves("restop", To("restart")) /\ app' = [app EXCEPT !.up = FALSE]
  /\ Still /\ UNCHANGED <<made, named, dirs, current, backups, collecting>>

Restart ==
  /\ \/ dirs[current] # NoTree /\ app' = Started /\ Finishes("restart", "reverted")
     \/ UNCHANGED app /\ Finishes("restart", "stranded")
  /\ Still /\ UNCHANGED <<made, named, dirs, current, backups, collecting>>

------------------------------------------------------------------------------
(* Restore, and purge.                                                        *)
\* The newest release that carries the commit's name is reused, built or not. A copy
\* that fails leaves a release of that name.
Restore ==
  /\ job.kind = "restore" /\ job.at = "begin"
  /\ LET found == {b \in backups : b.name = job.commit /\ b.tree # NoTree}
         reused == ReleasesOf(job.commit)
     IN \/ found = {} /\ Finishes("begin", "failed") /\ UNCHANGED <<dirs, named, made>>
        \/ /\ found # {} /\ strategy = "release" /\ reused # {}
           /\ Moves("begin", [job EXCEPT !.at = "flip", !.dir = Max(reused)])
           /\ UNCHANGED <<dirs, named, made>>
        \/ /\ strategy = "release" /\ reused = {} /\ NextDir \in Dirs
           /\ \E b \in found :
                \/ /\ Fills(NextDir, b.tree)
                   /\ Moves("begin", [job EXCEPT !.at = "flip", !.dir = NextDir])
                \/ /\ Fills(NextDir, [b.tree EXCEPT !.ready = FALSE])
                   /\ Finishes("begin", "failed")
        \/ /\ strategy = "inplace" /\ found # {}      \* the live tree is moved aside
           /\ \/ /\ Moves("begin", [job EXCEPT !.at = "copy", !.old = dirs[0]])
                 /\ dirs' = [dirs EXCEPT ![0] = NoTree]
              \/ Finishes("begin", "failed") /\ UNCHANGED dirs
           /\ UNCHANGED <<named, made>>
  /\ Still /\ UNCHANGED <<current, backups, app, collecting>>

\* What was moved aside is put back in vain when the copy had begun.
CopyBack ==
  /\ \E b \in backups :
       /\ b.name = job.commit /\ b.tree # NoTree
       /\ \/ Fills(0, b.tree) /\ Moves("copy", To("stop"))
          \/ Fills(0, [b.tree EXCEPT !.ready = FALSE]) /\ Finishes("copy", "failed")
          \/ Fills(0, job.old) /\ Finishes("copy", "failed")
  /\ Still /\ UNCHANGED <<current, backups, app, collecting>>

PurgeBackups ==
  /\ backups' = {}
  /\ IF strategy = "release" THEN Moves("purge", To("delete"))
     ELSE Moves("purge", To("none"))
  /\ Still /\ UNCHANGED <<made, named, dirs, current, app, collecting>>

PurgeApp ==
  /\ Moves("delete", To("remove"))
  /\ app' = [known |-> FALSE, up |-> FALSE, code |-> NoTree]
  /\ Still /\ UNCHANGED <<made, named, dirs, current, backups, collecting>>

PurgeTree ==
  /\ Moves("remove", To("none"))
  /\ dirs' = [d \in Dirs |-> NoTree] /\ current' = 0
  /\ Still /\ UNCHANGED <<made, named, backups, app, collecting>>

------------------------------------------------------------------------------
(* What goes on beside the jobs.                                              *)
\* ls -dt | tail | rm, which no job waits for.
Collect ==
  /\ collecting > 0 /\ collecting' = collecting - 1
  /\ LET there == {d \in Releases : dirs[d] # NoTree} IN
       dirs' = [d \in Dirs |-> IF d \in there /\ Cardinality({e \in there : e > d}) >= ReleasesKept
                               THEN NoTree ELSE dirs[d]]
  /\ Still /\ UNCHANGED <<made, named, current, backups, app, job>>

\* The process exits and is restarted on whatever its directory holds by now.
AppRestarts ==
  /\ app.up /\ app.code # dirs[current]
  /\ app' = IF dirs[current] = NoTree THEN [app EXCEPT !.up = FALSE]
                                      ELSE [app EXCEPT !.code = dirs[current]]
  /\ Still /\ UNCHANGED <<made, named, dirs, current, backups, job, collecting>>

DepNext ==
  \/ Collect \/ AppRestarts
  \/ \E k \in {"deploy", "rollback", "restore", "purge"}, c \in Commits,
        from \in CloudNames \cup {"none"} : Accept(k, c, from)
  \/ Cancel \/ BeginDeploy \/ Backup \/ Checkout \/ Build
  \/ ExecFails("fetch") \/ ExecFails("build")
  \/ Flip \/ Stop \/ Start \/ StartFails \/ Unflip \/ Restop \/ Restart
  \/ Restore \/ CopyBack \/ PurgeBackups \/ PurgeApp \/ PurgeTree

DepSpec == DepInit /\ [][DepNext]_depVars

------------------------------------------------------------------------------
Trees == [of : Commits \cup {"none"}, ready : BOOLEAN]

(* Every variable is in its domain.                                           *)
DepTypeOK ==
  /\ strategy \in {"release", "inplace"}
  /\ dirs \in [Dirs -> Trees] /\ current \in Dirs
  /\ named \in [Dirs -> Commits \cup {"none"}]
  /\ \A b \in backups : b.n \in Nat /\ b.name \in Commits \cup {"live"} /\ b.tree \in Trees
  /\ app \in [known : BOOLEAN, up : BOOLEAN, code : Trees]
  /\ job.dir \in Dirs /\ job.prior \in Dirs /\ job.old \in Trees
  /\ collecting \in Nat /\ made \in Dirs /\ jobsRun \in Nat

(* A deploy that reported success left the process running the commit that it *)
(* reported; a restoration, or a rollback to a release that is there, what is  *)
(* filed under that commit's name; also after the process has crashed and come *)
(* back, or the garbage collection has run.                                    *)
RunsFiled == IF strategy = "release"
               THEN named[current] = job.commit /\ dirs[current] \in {app.code, NoTree}
               ELSE \E b \in backups : b.name = job.commit /\ b.tree = app.code
SuccessMeansLive ==
  job.at = "ok" => IF job.kind = "deploy" THEN app.code.of = job.commit ELSE RunsFiled

(* A deploy that failed, and did not report that going back failed as well,    *)
(* left the link on the release that was current before, when there was one,  *)
(* and after a swap it left the process running that release (deploy-job.ts:34, *)
(* "a failure AFTER the swap restores the previous state and restarts").       *)
FailedDeployGoesBack ==
  job.kind = "deploy" /\ job.at \in {"failed", "reverted"} /\ dirs[job.prior] # NoTree
  => current = job.prior /\ (job.at = "reverted" => app.up /\ app.code = dirs[job.prior])

(* What a job reports is what is there: a success runs what is filed under the *)
(* commit it names, a failure has gone back.                                   *)
VerdictIsTrue == SuccessMeansLive /\ FailedDeployGoesBack

(* "The commit the backup HOLDS" (cloud.ts:544): a restoration of a release     *)
(* that reported success left the process running the commit that it reported. *)
RestoreIsLive == job.at = "ok" /\ job.kind = "restore" /\ strategy = "release"
                 => app.code.of = job.commit

(* "put the live dir back before failing -- never leave a hole"                 *)
(* (deploy-job.ts:699): after a restoration that failed the directory of the    *)
(* process holds what it held, or all of the backup.                           *)
NeverLeavesAHole ==
  job.at = "failed" /\ job.kind = "restore" /\ job.old # NoTree
  => dirs[0] \in {job.old} \cup {b.tree : b \in backups}
=============================================================================
