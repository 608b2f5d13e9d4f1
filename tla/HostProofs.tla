------------------------------- MODULE HostProofs -------------------------------
(* Theorems about what keeps the host: deployments, the thresholds of the     *)
(* alerts and their file, the machine behind an alert, the cron jobs,         *)
(* upgrades, the runtimes of an app, the daemon with its boot service, and    *)
(* what pboss reads: the permissions of an app and friendly schedules.        *)
(* The components share no variable; each has an invariant of its own, proved *)
(* inductive for any constants.                                               *)
EXTENDS DeployJob, AlertConfig, ThresholdMonitor, CronJobs, Upgrade, RuntimeChoice,
        DaemonLifecycle, HostInputs, NaturalOrder, TLAPS

-----------------------------------------------------------------------------
(* Deployments *)

(* A tree is of a commit, or it is none; releases have no tree of their own. *)
IsTree(t) == t \in Trees /\ (t = NoTree \/ t.of \in Commits)
TreesTyped ==
  /\ \A d \in Dirs : IsTree(dirs[d])
  /\ IsTree(job.old)
  /\ \A b \in backups : IsTree(b.tree)
  /\ IsFiniteSet(backups)
  /\ strategy = "release" => dirs[0] = NoTree

(* How far a job has come, and what kind of job comes so far *)
Stages == {"begin", "backup", "fetch", "build", "flip", "stop", "start", "unflip", "restop",
           "restart", "copy", "purge", "delete", "remove"}
JobTyped == job \in [at : Stages \cup JobEnded, kind : {"none", "deploy", "rollback", "restore", "purge"},
                     commit : Commits \cup {"none"}, dir : Dirs, prior : Dirs, old : Trees,
                     cancelled : BOOLEAN, from : Commits \cup {"none"}]
JobStaged ==
  /\ JobTyped
  /\ job.at # "none" => job.commit \in Commits
  /\ job.kind = "rollback" => strategy = "release"
  /\ job.at \in {"backup", "fetch", "build"} => job.kind = "deploy"
  /\ job.at = "copy" => strategy = "inplace" /\ job.kind = "restore"
  /\ job.at \in {"flip", "unflip", "restop", "restart"} => strategy = "release"
  /\ strategy = "inplace" => current = 0 /\ job.dir = 0 /\ job.prior = 0
  /\ job.old # NoTree => job.kind = "restore"

(* From the checkout on the tree of a deploy is of its commit, unless it has  *)
(* been collected, and what another job takes is filed under its commit; after *)
(* the swap it is what the link names.                                        *)
Carries(d) == dirs[d] = NoTree \/ dirs[d].of = job.commit
IsFiled == IF strategy = "release" THEN named[current] = job.commit
           ELSE \E b \in backups : b.name = job.commit /\ b.tree = dirs[0]
TreeIsOfJob ==
  /\ job.kind = "deploy" => /\ job.at \in {"build", "flip"} => Carries(job.dir)
                            /\ job.at \in {"stop", "start"} => Carries(current)
  /\ job.kind # "deploy" => /\ job.at = "flip" => named[job.dir] = job.commit
                            /\ job.at \in {"stop", "start"} => IsFiled
  /\ job.at \in {"start", "restart"} => ~app.up
  /\ job.at = "ok" => dirs[current] \in {app.code, NoTree}
  /\ SuccessMeansLive

(* Where the link is, for a deploy that may have to go back *)
LinkGoesBack ==
  /\ job.kind = "deploy" /\ job.at \in {"backup", "fetch", "build", "flip"} =>
       current = job.prior \/ (strategy = "release" /\ job.prior = 0)
  /\ job.at \in {"restop", "restart"} => current = job.prior
  /\ FailedDeployGoesBack

DeployInv == DepTypeOK /\ TreesTyped /\ JobStaged /\ TreeIsOfJob /\ LinkGoesBack

(* The newest release of a commit is one of them. *)
LEMMA NewestRelease ==
  ASSUME NEW c, ReleasesOf(c) # {}
  PROVE  Max(ReleasesOf(c)) \in Releases /\ named[Max(ReleasesOf(c))] = c
<1> DEFINE S == ReleasesOf(c)
<1>1. S \subseteq Releases /\ \A d \in S : named[d] = c
  BY DEF ReleasesOf
<1>2. Releases \subseteq Nat /\ IsFiniteSet(Releases)
  <2>1. 1 \in Int /\ MaxDirs \in Int
    BY DeployAssumption
  <2>2. IsFiniteSet(1 .. MaxDirs)
    BY <2>1, FS_Interval
  <2> QED BY <2>2, DeployAssumption DEF Releases
<1> HIDE DEF S
<1>3. IsFiniteSet(S) /\ S \subseteq Nat
  BY <1>1, <1>2, FS_Subset
<1>4. S # {}
  BY DEF S
<1>5. PICK n \in S : \A m \in S : m <= n
  BY <1>3, <1>4, Greatest
<1>6. \A m \in S : n >= m
  BY <1>3, <1>5
<1>7. Max(S) \in S
  BY <1>6 DEF Max
<1> QED BY <1>1, <1>7 DEF S

(* The directories a job may work in *)
LEMMA DirsInRange ==
  ASSUME DepTypeOK
  PROVE  /\ 0 \in Dirs /\ Releases \subseteq Dirs /\ made \in Nat
         /\ NextDir \in Dirs => NextDir # 0 /\ NextDir \in Releases
BY DeployAssumption DEF DepTypeOK, Dirs, Releases, NextDir

(* Empty trees and the trees of commits are trees. *)
LEMMA TreesAre == /\ IsTree(NoTree) /\ NoTree.of \notin Commits
                  /\ \A c \in Commits, r \in BOOLEAN : IsTree([of |-> c, ready |-> r])
BY DeployAssumption DEF NoTree, Trees, IsTree

(* Part of a tree is a tree. *)
LEMMA PartOfTree == ASSUME NEW t, IsTree(t) PROVE IsTree([t EXCEPT !.ready = FALSE])
<1>1. CASE t = NoTree
  <2>1. NoTree \in Trees /\ NoTree.ready = FALSE
    BY DEF NoTree, Trees
  <2>2. ASSUME NEW s \in Trees, s.ready = FALSE PROVE [s EXCEPT !.ready = FALSE] = s
    BY <2>2 DEF Trees
  <2> QED BY <1>1, <2>1, <2>2, TreesAre
<1>2. CASE t.of \in Commits
  <2>1. [t EXCEPT !.ready = FALSE] \in Trees /\ [t EXCEPT !.ready = FALSE].of = t.of
    BY <1>2 DEF IsTree, Trees
  <2> QED BY <1>2, <2>1 DEF IsTree
<1> QED BY <1>1, <1>2 DEF IsTree

(* Moving a job on changes where it is. *)
LEMMA JobMoves ==
  ASSUME JobTyped, NEW stage \in Stages \cup JobEnded, job' = To(stage)
  PROVE  /\ JobTyped' /\ job'.at = stage
         /\ job'.kind = job.kind /\ job'.commit = job.commit /\ job'.dir = job.dir
         /\ job'.prior = job.prior /\ job'.old = job.old /\ job'.cancelled = job.cancelled
BY DEF JobTyped, To

(* Steps that only move the job on *)
LEMMA JobAdvances ==
  ASSUME DeployInv, NEW stage \in Stages \cup JobEnded, job' = To(stage),
         UNCHANGED <<strategy, dirs, named, current, backups, app, made, jobsRun>>, collecting' \in Nat,
         <<job.at, stage>> \in {<<"fetch", "failed">>, <<"build", "failed">>,
                             <<"begin", "failed">>},
         job.at = "begin" => job.kind = "restore"
  PROVE  DeployInv'
<1>1. /\ JobTyped' /\ job'.at = stage
      /\ job'.kind = job.kind /\ job'.commit = job.commit /\ job'.dir = job.dir
      /\ job'.prior = job.prior /\ job'.old = job.old /\ job'.cancelled = job.cancelled
  BY JobMoves DEF DeployInv, JobStaged
<1>2. DepTypeOK'
  BY <1>1 DEF DeployInv, DepTypeOK
<1>3. TreesTyped'
  BY <1>1 DEF DeployInv, TreesTyped
<1>4. JobStaged'
  BY <1>1 DEF DeployInv, JobStaged
<1>5. TreeIsOfJob'
  BY <1>1 DEF DeployInv, TreeIsOfJob, SuccessMeansLive
<1>6. LinkGoesBack'
  BY <1>1 DEF DeployInv, LinkGoesBack, FailedDeployGoesBack, TreesTyped
<1> QED BY <1>2, <1>3, <1>4, <1>5, <1>6 DEF DeployInv

(* A job that is accepted starts at its first stage, with no directory. *)
LEMMA AcceptInv ==
  ASSUME DeployInv, NEW k \in {"deploy", "rollback", "restore", "purge"}, NEW c \in Commits,
         NEW from \in CloudNames \cup {"none"}, Accept(k, c, from)
  PROVE  DeployInv'
<1>1. /\ JobTyped' /\ job'.at = (IF k = "purge" THEN "purge" ELSE "begin")
      /\ job'.kind = k /\ job'.commit = c /\ job'.dir = 0 /\ job'.prior = 0 /\ job'.old = NoTree
  BY DeployAssumption, TreesAre, DirsInRange DEF Accept, NoJob, JobTyped, Stages, DeployInv, IsTree
<1>2. UNCHANGED <<strategy, dirs, named, current, backups, app, collecting, made>> /\ jobsRun' = jobsRun + 1
      /\ (k = "rollback" => strategy = "release")
  BY DEF Accept
<1>3. DepTypeOK'
  BY <1>1, <1>2, TreesAre, DirsInRange DEF DeployInv, DepTypeOK, IsTree
<1>4. TreesTyped'
  BY <1>1, <1>2, TreesAre DEF DeployInv, TreesTyped
<1>5. JobStaged'
  BY <1>1, <1>2 DEF DeployInv, JobStaged
<1>6. TreeIsOfJob'
  BY <1>1 DEF TreeIsOfJob, SuccessMeansLive
<1>7. LinkGoesBack'
  BY <1>1 DEF LinkGoesBack, FailedDeployGoesBack
<1> QED BY <1>3, <1>4, <1>5, <1>6, <1>7 DEF DeployInv

(* A cancel changes nothing of a job but its mark. *)
LEMMA CancelInv ==
  ASSUME DeployInv, Cancel
  PROVE  DeployInv'
<1>1. /\ JobTyped' /\ job'.at = job.at /\ job.at \notin {"failed", "reverted"}
      /\ job'.kind = job.kind /\ job'.commit = job.commit /\ job'.dir = job.dir
      /\ job'.prior = job.prior /\ job'.old = job.old
  BY DEF Cancel, JobTyped, DeployInv, JobStaged, JobRunning, JobEnded
<1>2. UNCHANGED <<strategy, dirs, named, current, backups, app, collecting, made, jobsRun>>
  BY DEF Cancel, Still
<1>3. DepTypeOK'
  BY <1>1, <1>2 DEF DeployInv, DepTypeOK
<1>4. TreesTyped'
  BY <1>1, <1>2 DEF DeployInv, TreesTyped
<1>5. JobStaged'
  BY <1>1, <1>2 DEF DeployInv, JobStaged
<1>6. TreeIsOfJob'
  BY <1>1, <1>2 DEF DeployInv, TreeIsOfJob, SuccessMeansLive, Carries, IsFiled, RunsFiled
<1>7. LinkGoesBack'
  BY <1>1, <1>2 DEF DeployInv, LinkGoesBack, FailedDeployGoesBack
<1> QED BY <1>3, <1>4, <1>5, <1>6, <1>7 DEF DeployInv

(* A deploy remembers where the link is, in case it has to go back; a rollback *)
(* to a release that is still there takes the newest of its commit.          *)
LEMMA BeginDeployInv ==
  ASSUME DeployInv, BeginDeploy
  PROVE  DeployInv'
<1> DEFINE reused == ReleasesOf(job.commit)
           fast == job.kind = "rollback" /\ reused # {}
           dir == IF fast THEN Max(reused) ELSE 0
           prior == IF dirs[current] = NoTree THEN 0 ELSE current
<1>1. /\ job.at = "begin" /\ job.kind \in {"deploy", "rollback"}
      /\ job' = [job EXCEPT !.at = IF fast THEN "flip" ELSE "backup", !.dir = dir,
                            !.kind = IF fast THEN "rollback" ELSE "deploy", !.prior = prior]
      /\ UNCHANGED <<strategy, dirs, named, current, backups, app, collecting, made, jobsRun>>
  BY DEF BeginDeploy, Moves, Still
<1>2. /\ dir \in Dirs /\ (fast => named[dir] = job.commit) /\ prior \in Dirs
  BY NewestRelease, DirsInRange DEF DeployInv, DepTypeOK, JobStaged
<1> HIDE DEF dir, reused, prior
<1>3. /\ JobTyped' /\ job'.at = (IF fast THEN "flip" ELSE "backup")
      /\ job'.kind = (IF fast THEN "rollback" ELSE "deploy") /\ job'.commit = job.commit
      /\ job'.dir = dir /\ job'.prior = prior /\ job'.old = job.old
  BY <1>1, <1>2 DEF JobTyped, DeployInv, JobStaged, Stages
<1>4. DepTypeOK'
  BY <1>1, <1>2, <1>3 DEF DeployInv, DepTypeOK
<1>5. TreesTyped'
  BY <1>1, <1>3 DEF DeployInv, TreesTyped
<1>6. JobStaged'
  BY <1>1, <1>3 DEF DeployInv, JobStaged, dir, prior
<1>7. TreeIsOfJob'
  BY <1>1, <1>2, <1>3 DEF DeployInv, TreeIsOfJob, SuccessMeansLive, Carries
<1>8. LinkGoesBack'
  <2>1. prior = current \/ (strategy = "release" /\ prior = 0)
    BY DEF DeployInv, DepTypeOK, JobStaged, prior
  <2> QED BY <1>1, <1>3, <2>1 DEF LinkGoesBack, FailedDeployGoesBack
<1> QED BY <1>4, <1>5, <1>6, <1>7, <1>8 DEF DeployInv

(* Backups are numbered. *)
LEMMA NextNumber ==
  ASSUME DepTypeOK, TreesTyped
  PROVE  (IF backups = {} THEN 1 ELSE 1 + Max({b.n : b \in backups})) \in Nat
<1> DEFINE N == {b.n : b \in backups}
<1>1. ASSUME backups # {} PROVE Max(N) \in Nat
  <2> DEFINE numbers == [b \in backups |-> b.n]
  <2>1. numbers \in Surjection(backups, N)
    BY DEF Surjection
  <2>2. N \subseteq Nat /\ N # {}
    BY <1>1 DEF DepTypeOK
  <2>3. IsFiniteSet(backups)
    BY DEF TreesTyped
  <2> HIDE DEF N, numbers
  <2>4. IsFiniteSet(N)
    BY <2>1, <2>3, FS_Surjection
  <2>5. PICK n \in N : \A m \in N : m <= n
    BY <2>2, <2>4, Greatest
  <2>6. \A m \in N : n >= m
    BY <2>2, <2>5
  <2> QED BY <2>2, <2>6 DEF Max
<1> QED BY <1>1

(* A backup has a name and a tree, or none; nothing else moves. *)
LEMMA BackupInv ==
  ASSUME DeployInv, Backup
  PROVE  DeployInv'
<1> DEFINE live == dirs[job.prior]
<1>1. IsTree(live) /\ job.at = "backup" /\ job.kind = "deploy" /\ job.from \in Commits \cup {"none"}
  BY DEF DeployInv, DepTypeOK, TreesTyped, Backup, Moves, JobStaged, JobTyped
<1>2. PICK stage \in {"fetch", "failed"} : job' = [job EXCEPT !.at = stage, !.from = "none"]
  BY DEF Backup, Moves
<1>3. PICK more : backups' \subseteq backups \cup more /\ IsFiniteSet(more)
        /\ \A b \in more : b.n \in Nat /\ b.name \in Commits \cup {"live"} /\ IsTree(b.tree)
  <2>1. CASE UNCHANGED backups
    BY <2>1, FS_EmptySet
  <2>2. CASE \E name \in BackupNames(live), tree \in {live, NoTree} :
                 backups' \subseteq backups \cup {NewBackup(name, tree)}
    <3>1. PICK name \in BackupNames(live), tree \in {live, NoTree} :
            backups' \subseteq backups \cup {NewBackup(name, tree)}
      BY <2>2
    <3>2. name \in Commits \cup {"live"}
      <4>1. strategy = "inplace" /\ live.ready => live.of \in Commits
        BY <1>1 DEF IsTree, NoTree
      <4> QED BY <1>1, <3>1, <4>1 DEF BackupNames
    <3>3. IsTree(tree)
      BY <1>1, <3>1, TreesAre
    <3>4. NewBackup(name, tree).n \in Nat
      BY NextNumber DEF NewBackup, DeployInv
    <3>5. NewBackup(name, tree).name = name /\ NewBackup(name, tree).tree = tree
      BY DEF NewBackup
    <3>6. IsFiniteSet({NewBackup(name, tree)})
      BY FS_Singleton
    <3> HIDE DEF live
    <3> QED BY <3>1, <3>2, <3>3, <3>4, <3>5, <3>6
  <2>3. UNCHANGED backups \/ \E name \in BackupNames(live), tree \in {live, NoTree} :
                               backups' \subseteq backups \cup {NewBackup(name, tree)}
    BY DEF Backup
  <2> QED BY <2>1, <2>2, <2>3
<1>4. /\ JobTyped' /\ job'.at = stage
      /\ job'.kind = job.kind /\ job'.commit = job.commit /\ job'.dir = job.dir
      /\ job'.prior = job.prior /\ job'.old = job.old
  BY <1>2 DEF DeployInv, JobStaged, JobTyped, Stages, JobEnded
<1>5. UNCHANGED <<strategy, jobsRun, made, named, dirs, current, app, collecting>>
  BY DEF Backup, Still
<1>6. DepTypeOK'
  <2>1. \A b \in backups' : b.n \in Nat /\ b.name \in Commits \cup {"live"} /\ b.tree \in Trees
    BY <1>3 DEF DeployInv, DepTypeOK, IsTree
  <2> QED BY <1>4, <1>5, <2>1 DEF DeployInv, DepTypeOK
<1>7. TreesTyped'
  <2>1. IsFiniteSet(backups')
    <3>1. IsFiniteSet(backups \cup more)
      BY <1>3, FS_Union DEF DeployInv, TreesTyped
    <3> QED BY <1>3, <3>1, FS_Subset
  <2>2. \A b \in backups' : IsTree(b.tree)
    BY <1>3 DEF DeployInv, TreesTyped
  <2> QED BY <1>4, <1>5, <2>1, <2>2 DEF DeployInv, TreesTyped, IsTree
<1>8. JobStaged'
  BY <1>1, <1>4, <1>5 DEF DeployInv, JobStaged
<1>9. TreeIsOfJob'
  BY <1>1, <1>4, <1>5 DEF TreeIsOfJob, SuccessMeansLive
<1>10. LinkGoesBack'
  <2>1. strategy = "release" => dirs[0] = NoTree
    BY DEF DeployInv, TreesTyped
  <2> QED BY <1>1, <1>4, <1>5, <2>1 DEF DeployInv, LinkGoesBack, FailedDeployGoesBack
<1> QED BY <1>6, <1>7, <1>8, <1>9, <1>10 DEF DeployInv

(* A directory that is filled has the tree, and a release the name of the job. *)
LEMMA Filled ==
  ASSUME DeployInv, NEW d \in Dirs, NEW tree, IsTree(tree), Fills(d, tree), job.commit \in Commits,
         d = 0 => strategy = "inplace", strategy' = strategy
  PROVE  /\ dirs' \in [Dirs -> Trees] /\ \A e \in Dirs : IsTree(dirs'[e])
         /\ dirs'[d] = tree /\ \A e \in Dirs : e # d => dirs'[e] = dirs[e]
         /\ named' \in [Dirs -> Commits \cup {"none"}] /\ (d # 0 => named'[d] = job.commit)
         /\ made' \in Dirs
         /\ strategy' = "release" => dirs'[0] = NoTree
<1>1. 0 \in Dirs /\ dirs \in [Dirs -> Trees] /\ tree \in Trees /\ \A e \in Dirs : IsTree(dirs[e])
  BY DirsInRange DEF DeployInv, DepTypeOK, TreesTyped, IsTree
<1>2. dirs' = [dirs EXCEPT ![d] = tree]
  BY DEF Fills
<1>3. /\ dirs' \in [Dirs -> Trees] /\ dirs'[d] = tree
      /\ \A e \in Dirs : e # d => dirs'[e] = dirs[e]
  BY <1>1, <1>2
<1>4. \A e \in Dirs : IsTree(dirs'[e])
  BY <1>1, <1>3
<1>5. named' \in [Dirs -> Commits \cup {"none"}] /\ (d # 0 => named'[d] = job.commit) /\ made' \in Dirs
  BY DEF Fills, DeployInv, DepTypeOK
<1>6. strategy' = "release" => dirs'[0] = NoTree
  BY <1>1, <1>3 DEF DeployInv, TreesTyped
<1> QED BY <1>3, <1>4, <1>5, <1>6

(* The checkout makes the tree of the job one of its commit. *)
LEMMA CheckoutInv ==
  ASSUME DeployInv, Checkout
  PROVE  DeployInv'
<1> DEFINE tree == [of |-> job.commit, ready |-> FALSE]
<1>1. /\ Target \in Dirs /\ job.at = "fetch" /\ job.kind = "deploy" /\ job.commit \in Commits
      /\ Fills(Target, tree) /\ UNCHANGED <<strategy, jobsRun, current, backups, app, collecting>>
  BY DEF Checkout, Still, Finishes, Moves, DeployInv, JobStaged
<1>2. \/ job' = To("failed")
      \/ job' = [job EXCEPT !.at = "build", !.dir = Target]
  BY DEF Checkout, Finishes, Moves
<1>3. /\ JobTyped' /\ job'.at \in {"failed", "build"}
      /\ job'.at = "build" => job'.dir = Target
      /\ job'.dir \in {job.dir, Target}
      /\ job'.kind = job.kind /\ job'.commit = job.commit
      /\ job'.prior = job.prior /\ job'.old = job.old /\ job'.cancelled = job.cancelled
  BY <1>1, <1>2 DEF JobTyped, To, Stages, JobEnded, DeployInv, JobStaged
<1>4. IsTree(tree) /\ tree.of = job.commit
  BY <1>1, TreesAre
<1>5. Target = 0 => strategy = "inplace"
  BY <1>1, DirsInRange DEF Target, DeployInv
<1> HIDE DEF tree
<1>6. /\ dirs' \in [Dirs -> Trees] /\ \A e \in Dirs : IsTree(dirs'[e])
      /\ dirs'[Target] = tree /\ named' \in [Dirs -> Commits \cup {"none"}] /\ made' \in Dirs
      /\ strategy' = "release" => dirs'[0] = NoTree
  BY <1>1, <1>4, <1>5, Filled
<1>7. DepTypeOK'
  BY <1>1, <1>3, <1>6 DEF DeployInv, DepTypeOK
<1>8. TreesTyped'
  BY <1>1, <1>3, <1>6 DEF DeployInv, TreesTyped, IsTree
<1>9. JobStaged'
  BY <1>1, <1>3 DEF DeployInv, JobStaged, Target
<1>10. TreeIsOfJob'
  BY <1>1, <1>3, <1>4, <1>6 DEF TreeIsOfJob, SuccessMeansLive, Carries
<1>11. LinkGoesBack'
  BY <1>1, <1>3, <1>6 DEF DeployInv, LinkGoesBack, FailedDeployGoesBack
<1> QED BY <1>7, <1>8, <1>9, <1>10, <1>11 DEF DeployInv

(* A build makes the tree ready, or ends the job; its commit stays. *)
LEMMA BuildInv ==
  ASSUME DeployInv, Build
  PROVE  DeployInv'
<1> DEFINE stage == IF strategy = "inplace" THEN "stop" ELSE "flip"
           tree == [dirs[job.dir] EXCEPT !.ready = TRUE]
<1>1. /\ job.at = "build" /\ job.kind = "deploy" /\ job' = To(stage) /\ job.dir \in Dirs
      /\ dirs[job.dir] # NoTree /\ dirs[job.dir].of = job.commit /\ IsTree(dirs[job.dir])
      /\ job.commit \in Commits
      /\ dirs' = [dirs EXCEPT ![job.dir] = tree]
      /\ UNCHANGED <<strategy, jobsRun, named, current, backups, app, collecting, made>>
  BY DEF Build, Still, Moves, DeployInv, JobStaged, TreeIsOfJob, Carries, DepTypeOK, TreesTyped
<1>2. stage \in {"stop", "flip"} /\ (stage = "stop" => strategy = "inplace")
  OBVIOUS
<1>3. IsTree(tree) /\ tree.of = job.commit
  BY <1>1 DEF IsTree, Trees
<1> HIDE DEF tree, stage
<1>4. /\ JobTyped' /\ job'.at = stage
      /\ job'.kind = job.kind /\ job'.commit = job.commit /\ job'.dir = job.dir
      /\ job'.prior = job.prior /\ job'.old = job.old /\ job'.cancelled = job.cancelled
  BY <1>1, <1>2, JobMoves DEF DeployInv, JobStaged, Stages
<1>5. /\ dirs'[job.dir] = tree /\ \A d \in Dirs \ {job.dir} : dirs'[d] = dirs[d]
      /\ dirs' \in [Dirs -> Trees]
  BY <1>1, <1>3 DEF DeployInv, DepTypeOK, IsTree
<1>6. DepTypeOK'
  BY <1>1, <1>4, <1>5 DEF DeployInv, DepTypeOK
<1>7. TreesTyped'
  <2>1. strategy = "release" => job.dir # 0
    BY <1>1 DEF DeployInv, TreesTyped
  <2> QED BY <1>1, <1>3, <1>4, <1>5, <2>1, DirsInRange DEF DeployInv, TreesTyped, IsTree
<1>8. JobStaged'
  <2>1. stage = "flip" => strategy = "release"
    BY DEF DeployInv, DepTypeOK, stage
  <2> QED BY <1>1, <1>2, <1>4, <2>1 DEF DeployInv, JobStaged
<1>9. TreeIsOfJob'
  BY <1>1, <1>2, <1>3, <1>4, <1>5 DEF DeployInv, JobStaged, TreeIsOfJob, SuccessMeansLive, Carries
<1>10. LinkGoesBack'
  BY <1>1, <1>2, <1>4 DEF DeployInv, LinkGoesBack, FailedDeployGoesBack
<1> QED BY <1>6, <1>7, <1>8, <1>9, <1>10 DEF DeployInv

(* The link moves to the tree of the job before the process stops and starts. *)
LEMMA SwapInv ==
  ASSUME DeployInv, (Flip /\ job' = To("stop")) \/ Stop \/ (Start /\ job' = To("ok"))
  PROVE  DeployInv'
<1>1. PICK stage \in {"stop", "start", "ok"} :
        /\ <<job.at, stage>> \in {<<"flip", "stop">>, <<"stop", "start">>, <<"start", "ok">>}
        /\ job' = To(stage)
        /\ current' = IF stage = "stop" THEN job.dir ELSE current
        /\ app' = IF stage = "stop" THEN app ELSE IF stage = "start" THEN [app EXCEPT !.up = FALSE]
                  ELSE [known |-> TRUE, up |-> TRUE, code |-> dirs[current]]
        /\ stage = "ok" => dirs[current] # NoTree
        /\ collecting' \in {collecting, collecting + 1}
        /\ UNCHANGED <<strategy, jobsRun, dirs, named, backups, made>>
  <2>0. collecting \in Nat
    BY DEF DeployInv, DepTypeOK
  <2>1. CASE Flip /\ job' = To("stop")
    <3>1. job'.at = "stop" /\ SwapFailed # "stop"
      BY <2>1, JobMoves DEF DeployInv, JobStaged, Stages, SwapFailed
    <3>2. current' = job.dir
      BY <2>1, <3>1, JobMoves DEF Flip, Moves, SwapFailed, DeployInv, JobStaged, Stages, JobEnded
    <3> QED BY <2>1, <3>2 DEF Flip, Moves, Still
  <2>2. CASE Stop
    BY <2>2 DEF Stop, AppStopped, Moves, Still
  <2>3. CASE Start /\ job' = To("ok")
    <3>1. /\ job.at = "start" /\ ~app.up /\ dirs[current] # NoTree
          /\ app' = [known |-> TRUE, up |-> TRUE, code |-> dirs[current]]
          /\ UNCHANGED <<strategy, jobsRun, dirs, named, backups, made, current>>
      BY <2>3 DEF Start, Started, Finishes, Moves, Still, DeployInv, TreeIsOfJob
    <3>2. collecting' \in {collecting, collecting + 1}
      BY <2>0, <2>3 DEF Start
    <3> QED BY <2>3, <3>1, <3>2
  <2> QED BY <2>1, <2>2, <2>3
<1>2. /\ JobTyped' /\ job'.at = stage
      /\ job'.kind = job.kind /\ job'.commit = job.commit /\ job'.dir = job.dir
      /\ job'.prior = job.prior /\ job'.old = job.old /\ job'.cancelled = job.cancelled
  BY <1>1, JobMoves DEF DeployInv, JobStaged, Stages, JobEnded
<1>3. collecting' \in Nat /\ current' \in Dirs
  BY <1>1 DEF DeployInv, DepTypeOK
<1>4. app' \in [known : BOOLEAN, up : BOOLEAN, code : Trees] /\ (stage = "start" => ~app'.up)
  BY <1>1 DEF DeployInv, DepTypeOK
<1>5. DepTypeOK'
  BY <1>1, <1>2, <1>3, <1>4 DEF DeployInv, DepTypeOK
<1>6. TreesTyped'
  BY <1>1, <1>2 DEF DeployInv, TreesTyped
<1>7. JobStaged'
  BY <1>1, <1>2 DEF DeployInv, JobStaged
<1>8. TreeIsOfJob'
  <2>1. CASE job.kind = "deploy"
    <3>1. Carries(current)' /\ (stage = "ok" => app'.code.of = job.commit)
      BY <1>1, <1>2, <2>1 DEF DeployInv, TreeIsOfJob, Carries
    <3> QED BY <1>1, <1>2, <1>4, <2>1, <3>1 DEF TreeIsOfJob, SuccessMeansLive
  <2>2. CASE job.kind # "deploy"
    <3>1. IsFiled'
      <4>1. CASE stage = "stop"
        BY <1>1, <1>2, <2>2, <4>1 DEF DeployInv, JobStaged, TreeIsOfJob, IsFiled
      <4>2. CASE stage # "stop"
        BY <1>1, <1>2, <2>2, <4>2 DEF DeployInv, TreeIsOfJob, IsFiled
      <4> QED BY <4>1, <4>2
    <3>2. strategy # "release" => current = 0
      BY DEF DeployInv, DepTypeOK, JobStaged
    <3>3. stage = "ok" => RunsFiled' /\ dirs'[current'] = app'.code
      BY <1>1, <3>1, <3>2 DEF RunsFiled, IsFiled
    <3> QED BY <1>1, <1>2, <1>4, <2>2, <3>1, <3>3 DEF TreeIsOfJob, SuccessMeansLive
  <2> QED BY <2>1, <2>2
<1>9. LinkGoesBack'
  BY <1>1, <1>2 DEF LinkGoesBack, FailedDeployGoesBack
<1> QED BY <1>5, <1>6, <1>7, <1>8, <1>9 DEF DeployInv

(* A deploy that fails at the swap or after it puts the link back before it   *)
(* ends, starts what the link names, or says that it could not.               *)
LEMMA GoBackInv ==
  ASSUME DeployInv, \/ Flip /\ job' = To(SwapFailed) /\ UNCHANGED current
                    \/ StartFails \/ Unflip \/ Restop \/ Restart
  PROVE  DeployInv'
<1>1. PICK stage \in {"unflip", "restop", "restart", "failed", "reverted", "stranded"} :
        /\ <<job.at, stage>> \in {<<"flip", "unflip">>, <<"flip", "failed">>,
                 <<"start", "unflip">>, <<"start", "failed">>, <<"unflip", "restop">>,
                 <<"unflip", "stranded">>, <<"restop", "restart">>, <<"restart", "reverted">>,
                 <<"restart", "stranded">>}
        /\ job' = To(stage)
        /\ stage = "failed" => ~GoesBack
        /\ stage = "unflip" => strategy = "release"
        /\ current' \in {current, job.prior} /\ (job.at # "unflip" => current' = current)
        /\ stage = "restop" => current' = job.prior
        /\ app' \in {app, [app EXCEPT !.known = TRUE], [app EXCEPT !.up = FALSE], Started}
        /\ stage = "restart" => app' = [app EXCEPT !.up = FALSE]
        /\ stage = "reverted" => app' = Started /\ dirs[current] # NoTree
        /\ UNCHANGED <<strategy, jobsRun, dirs, named, backups, made, collecting>>
  <2>1. CASE StartFails
    BY <2>1 DEF StartFails, SwapFailed, GoesBack, Moves, Still
  <2>2. CASE Unflip
    BY <2>2 DEF Unflip, Moves, Finishes, Still
  <2>3. CASE Restop
    BY <2>3 DEF Restop, Moves, Still
  <2>4. CASE Restart
    BY <2>4 DEF Restart, Moves, Finishes, Still
  <2>5. CASE Flip /\ job' = To(SwapFailed) /\ UNCHANGED current
    BY <2>5 DEF Flip, SwapFailed, GoesBack, Moves, Still
  <2> QED BY <2>1, <2>2, <2>3, <2>4, <2>5
<1>2. /\ JobTyped' /\ job'.at = stage
      /\ job'.kind = job.kind /\ job'.commit = job.commit /\ job'.dir = job.dir
      /\ job'.prior = job.prior /\ job'.old = job.old /\ job'.cancelled = job.cancelled
  BY <1>1, JobMoves DEF DeployInv, JobStaged, Stages, JobEnded
<1>3. current' \in Dirs
  BY <1>1 DEF DeployInv, DepTypeOK
<1>4. app' \in [known : BOOLEAN, up : BOOLEAN, code : Trees] /\ (stage = "restart" => ~app'.up)
  <2>1. dirs[current] \in Trees
    BY DEF DeployInv, DepTypeOK
  <2>2. app \in [known : BOOLEAN, up : BOOLEAN, code : Trees]
    BY DEF DeployInv, DepTypeOK
  <2>3. Started \in [known : BOOLEAN, up : BOOLEAN, code : Trees]
    BY <2>1, <2>2 DEF Started
  <2> QED BY <1>1, <2>2, <2>3
<1>5. DepTypeOK'
  BY <1>1, <1>2, <1>3, <1>4 DEF DeployInv, DepTypeOK
<1>6. TreesTyped'
  BY <1>1, <1>2 DEF DeployInv, TreesTyped
<1>7. JobStaged'
  BY <1>1, <1>2 DEF DeployInv, JobStaged
<1>8. TreeIsOfJob'
  BY <1>1, <1>2, <1>4 DEF TreeIsOfJob, SuccessMeansLive
<1>9. LinkGoesBack'
  <2>1. stage = "failed" /\ job.kind = "deploy" /\ dirs[job.prior] # NoTree => current = job.prior
    BY <1>1 DEF GoesBack, DeployInv, DepTypeOK, JobStaged
  <2>2. stage = "reverted" => app'.up /\ app'.code = dirs[current] /\ current = job.prior
    BY <1>1 DEF Started, DeployInv, TreeIsOfJob, LinkGoesBack
  <2>3. stage = "restart" => current' = job.prior
    BY <1>1 DEF DeployInv, LinkGoesBack
  <2> QED BY <1>1, <1>2, <2>1, <2>2, <2>3 DEF LinkGoesBack, FailedDeployGoesBack
<1> QED BY <1>5, <1>6, <1>7, <1>8, <1>9 DEF DeployInv

(* A restoration in place that starts the process, and then fails. *)
LEMMA LeftAsideInv ==
  ASSUME DeployInv, Start, job' = To("failed"), job.old # NoTree
  PROVE  DeployInv'
<1>1. /\ job.at = "start" /\ app' = Started /\ collecting' \in Nat
      /\ UNCHANGED <<strategy, jobsRun, dirs, named, backups, made, current>>
  BY DEF Start, Finishes, Moves, Still, DeployInv, DepTypeOK
<1>2. /\ JobTyped' /\ job'.at = "failed"
      /\ job'.kind = job.kind /\ job'.commit = job.commit /\ job'.dir = job.dir
      /\ job'.prior = job.prior /\ job'.old = job.old
  BY JobMoves DEF DeployInv, JobStaged, JobEnded
<1>3. app' \in [known : BOOLEAN, up : BOOLEAN, code : Trees]
  BY <1>1 DEF Started, DeployInv, DepTypeOK
<1>4. DepTypeOK' /\ TreesTyped'
  BY <1>1, <1>2, <1>3 DEF DeployInv, DepTypeOK, TreesTyped
<1>5. JobStaged'
  BY <1>1, <1>2 DEF DeployInv, JobStaged
<1>6. TreeIsOfJob'
  BY <1>2 DEF TreeIsOfJob, SuccessMeansLive
<1>7. LinkGoesBack'
  <2>1. job.kind = "restore"
    BY DEF DeployInv, JobStaged
  <2> QED BY <1>2, <2>1 DEF LinkGoesBack, FailedDeployGoesBack
<1> QED BY <1>4, <1>5, <1>6, <1>7 DEF DeployInv

(* A restore goes to a release of the name asked for, or to a copy of a       *)
(* backup of that name.                                                       *)
LEMMA RestoreInv ==
  ASSUME DeployInv, Restore
  PROVE  DeployInv'
<1> DEFINE found == {b \in backups : b.name = job.commit /\ b.tree # NoTree}
           reused == ReleasesOf(job.commit)
<1>1. /\ job.kind = "restore" /\ job.at = "begin" /\ job.commit \in Commits
      /\ UNCHANGED <<strategy, jobsRun, current, backups, app, collecting>>
  BY DEF Restore, Still, DeployInv, JobStaged
<1>2. \A b \in backups : IsTree(b.tree) /\ IsTree([b.tree EXCEPT !.ready = FALSE])
  BY PartOfTree DEF DeployInv, TreesTyped
<1>3. ASSUME NEW stage \in {"flip", "copy", "failed"}, NEW d \in Dirs, NEW old, IsTree(old),
             job' = [job EXCEPT !.at = stage, !.dir = d, !.old = old],
             made' \in Dirs, dirs' \in [Dirs -> Trees], \A e \in Dirs : IsTree(dirs'[e]),
             named' \in [Dirs -> Commits \cup {"none"}],
             stage = "flip" => strategy = "release" /\ named'[d] = job.commit,
             stage = "copy" => strategy = "inplace",
             strategy = "inplace" => d = 0, strategy = "release" => dirs'[0] = NoTree
      PROVE  DeployInv'
  <2>1. /\ JobTyped' /\ job'.at = stage /\ job'.kind = "restore" /\ job'.commit = job.commit
        /\ job'.dir = d /\ job'.prior = job.prior /\ job'.old = old
    BY <1>1, <1>3 DEF JobTyped, Stages, JobEnded, DeployInv, JobStaged, IsTree
  <2>2. DepTypeOK'
    BY <1>1, <1>3, <2>1 DEF DeployInv, DepTypeOK, IsTree
  <2>3. TreesTyped'
    BY <1>1, <1>3, <2>1 DEF DeployInv, TreesTyped, IsTree
  <2>4. JobStaged'
    BY <1>1, <1>3, <2>1 DEF DeployInv, JobStaged
  <2>5. TreeIsOfJob'
    BY <1>3, <2>1 DEF TreeIsOfJob, SuccessMeansLive
  <2>6. LinkGoesBack'
    BY <1>3, <2>1 DEF LinkGoesBack, FailedDeployGoesBack
  <2> QED BY <2>2, <2>3, <2>4, <2>5, <2>6 DEF DeployInv
<1>4. /\ made \in Dirs /\ dirs \in [Dirs -> Trees] /\ \A e \in Dirs : IsTree(dirs[e])
      /\ named \in [Dirs -> Commits \cup {"none"}] /\ (strategy = "release" => dirs[0] = NoTree)
      /\ IsTree(job.old) /\ job.dir \in Dirs /\ (strategy = "inplace" => job.dir = 0)
      /\ 0 \in Dirs /\ Releases \subseteq Dirs
  BY DirsInRange DEF DeployInv, DepTypeOK, TreesTyped, JobStaged
<1>5. job = [job EXCEPT !.dir = job.dir, !.old = job.old]
  BY DEF DeployInv, JobStaged, JobTyped
<1>6. CASE job' = To("failed") /\ UNCHANGED <<dirs, named, made>>
  <2>1. job' = [job EXCEPT !.at = "failed", !.dir = job.dir, !.old = job.old]
    BY <1>6 DEF To, DeployInv, JobStaged, JobTyped
  <2> QED BY <1>3, <1>4, <1>6, <2>1
<1>7. CASE /\ strategy = "release" /\ reused # {}
           /\ job' = [job EXCEPT !.at = "flip", !.dir = Max(reused)] /\ UNCHANGED <<dirs, named, made>>
  <2>1. Max(reused) \in Releases /\ named[Max(reused)] = job.commit
    BY <1>7, NewestRelease
  <2> HIDE DEF reused
  <2>2. job' = [job EXCEPT !.at = "flip", !.dir = Max(reused), !.old = job.old]
    BY <1>7 DEF DeployInv, JobStaged, JobTyped
  <2>3. strategy # "inplace"
    BY <1>7
  <2> QED BY <1>3, <1>4, <1>7, <2>1, <2>2, <2>3
<1>8. CASE /\ strategy = "release" /\ NextDir \in Dirs
           /\ \E b \in found :
                \/ Fills(NextDir, b.tree) /\ job' = [job EXCEPT !.at = "flip", !.dir = NextDir]
                \/ Fills(NextDir, [b.tree EXCEPT !.ready = FALSE]) /\ job' = To("failed")
  <2>1. NextDir # 0 /\ strategy # "inplace"
    BY <1>8, DirsInRange DEF DeployInv
  <2>2. PICK b \in found :
                \/ Fills(NextDir, b.tree) /\ job' = [job EXCEPT !.at = "flip", !.dir = NextDir]
                \/ Fills(NextDir, [b.tree EXCEPT !.ready = FALSE]) /\ job' = To("failed")
    BY <1>8
  <2>3. /\ dirs' \in [Dirs -> Trees] /\ \A e \in Dirs : IsTree(dirs'[e])
        /\ named' \in [Dirs -> Commits \cup {"none"}] /\ named'[NextDir] = job.commit
        /\ made' \in Dirs /\ (strategy = "release" => dirs'[0] = NoTree)
    <3>1. CASE Fills(NextDir, b.tree)
      BY <1>1, <1>2, <1>8, <2>1, <3>1, Filled
    <3>2. CASE Fills(NextDir, [b.tree EXCEPT !.ready = FALSE])
      BY <1>1, <1>2, <1>8, <2>1, <3>2, Filled
    <3> QED BY <2>2, <3>1, <3>2
  <2>4. PICK stage \in {"flip", "failed"}, d \in Dirs :
          /\ job' = [job EXCEPT !.at = stage, !.dir = d, !.old = job.old]
          /\ stage = "flip" => d = NextDir
    <3>1. CASE job' = [job EXCEPT !.at = "flip", !.dir = NextDir]
      <4>1. job' = [job EXCEPT !.at = "flip", !.dir = NextDir, !.old = job.old]
        BY <3>1 DEF DeployInv, JobStaged, JobTyped
      <4> QED BY <1>8, <4>1
    <3>2. CASE job' = To("failed")
      <4>1. job' = [job EXCEPT !.at = "failed", !.dir = job.dir, !.old = job.old]
        BY <3>2 DEF To, DeployInv, JobStaged, JobTyped
      <4> QED BY <1>4, <4>1
    <3> QED BY <2>2, <3>1, <3>2
  <2> QED BY <1>3, <1>4, <1>8, <2>1, <2>3, <2>4
<1>9. CASE /\ strategy = "inplace"
           /\ job' = [job EXCEPT !.at = "copy", !.old = dirs[0]]
           /\ dirs' = [dirs EXCEPT ![0] = NoTree] /\ UNCHANGED <<named, made>>
  <2>1. dirs' \in [Dirs -> Trees] /\ \A e \in Dirs : IsTree(dirs'[e])
    BY <1>4, <1>9, TreesAre DEF IsTree
  <2>2. job' = [job EXCEPT !.at = "copy", !.dir = job.dir, !.old = dirs[0]]
    BY <1>9 DEF DeployInv, JobStaged, JobTyped
  <2>3. strategy # "release"
    BY <1>9
  <2> QED BY <1>3, <1>4, <1>9, <2>1, <2>2, <2>3
<1> HIDE DEF found, reused
<1>10. \/ job' = To("failed") /\ UNCHANGED <<dirs, named, made>>
       \/ /\ strategy = "release" /\ reused # {}
          /\ job' = [job EXCEPT !.at = "flip", !.dir = Max(reused)] /\ UNCHANGED <<dirs, named, made>>
       \/ /\ strategy = "release" /\ NextDir \in Dirs
          /\ \E b \in found :
               \/ Fills(NextDir, b.tree) /\ job' = [job EXCEPT !.at = "flip", !.dir = NextDir]
               \/ Fills(NextDir, [b.tree EXCEPT !.ready = FALSE]) /\ job' = To("failed")
       \/ /\ strategy = "inplace"
          /\ job' = [job EXCEPT !.at = "copy", !.old = dirs[0]]
          /\ dirs' = [dirs EXCEPT ![0] = NoTree] /\ UNCHANGED <<named, made>>
  BY DEF Restore, Finishes, Moves, found, reused
<1> QED BY <1>6, <1>7, <1>8, <1>9, <1>10

(* What is copied back in place bears the name of the job.                    *)
LEMMA CopyBackInv ==
  ASSUME DeployInv, CopyBack
  PROVE  DeployInv'
<1>1. /\ job.at = "copy" /\ job.kind = "restore" /\ strategy = "inplace" /\ current = 0
      /\ job.commit \in Commits
      /\ UNCHANGED <<strategy, jobsRun, current, backups, app, collecting>>
  BY DEF CopyBack, Still, Finishes, Moves, DeployInv, JobStaged
<1>2. PICK stage \in {"stop", "failed"}, tree \in Trees :
        /\ IsTree(tree) /\ Fills(0, tree) /\ job' = To(stage)
        /\ stage = "stop" => \E b \in backups : b.name = job.commit /\ b.tree = tree
  <2>1. \A b \in backups : IsTree(b.tree) /\ IsTree([b.tree EXCEPT !.ready = FALSE])
    BY PartOfTree DEF DeployInv, TreesTyped
  <2>2. IsTree(job.old)
    BY DEF DeployInv, TreesTyped
  <2>3. PICK b \in backups :
       /\ b.name = job.commit /\ b.tree # NoTree
       /\ \/ Fills(0, b.tree) /\ job' = To("stop")
          \/ Fills(0, [b.tree EXCEPT !.ready = FALSE]) /\ job' = To("failed")
          \/ Fills(0, job.old) /\ job' = To("failed")
    BY DEF CopyBack, Moves, Finishes
  <2>4. CASE Fills(0, b.tree) /\ job' = To("stop")
    BY <2>1, <2>3, <2>4 DEF IsTree
  <2>5. CASE Fills(0, [b.tree EXCEPT !.ready = FALSE]) /\ job' = To("failed")
    BY <2>1, <2>3, <2>5 DEF IsTree
  <2>6. CASE Fills(0, job.old) /\ job' = To("failed")
    BY <2>2, <2>6 DEF IsTree
  <2> QED BY <2>3, <2>4, <2>5, <2>6
<1>3. /\ JobTyped' /\ job'.at = stage
      /\ job'.kind = job.kind /\ job'.commit = job.commit /\ job'.dir = job.dir
      /\ job'.prior = job.prior /\ job'.old = job.old /\ job'.cancelled = job.cancelled
  BY <1>2, JobMoves DEF DeployInv, JobStaged, Stages, JobEnded
<1>4. /\ dirs' \in [Dirs -> Trees] /\ \A e \in Dirs : IsTree(dirs'[e])
      /\ dirs'[0] = tree /\ named' \in [Dirs -> Commits \cup {"none"}] /\ made' \in Dirs
  BY <1>1, <1>2, DirsInRange, Filled DEF DeployInv
<1>5. DepTypeOK'
  BY <1>1, <1>3, <1>4 DEF DeployInv, DepTypeOK
<1>6. TreesTyped'
  BY <1>1, <1>3, <1>4 DEF DeployInv, TreesTyped
<1>7. JobStaged'
  BY <1>1, <1>3 DEF DeployInv, JobStaged
<1>8. TreeIsOfJob'
  BY <1>1, <1>2, <1>3, <1>4 DEF TreeIsOfJob, SuccessMeansLive, IsFiled
<1>9. LinkGoesBack'
  BY <1>1, <1>3 DEF LinkGoesBack, FailedDeployGoesBack
<1> QED BY <1>5, <1>6, <1>7, <1>8, <1>9 DEF DeployInv

(* A purge takes away, and leaves the link where it is or nowhere. *)
LEMMA PurgeInv ==
  ASSUME DeployInv, PurgeBackups \/ PurgeApp \/ PurgeTree
  PROVE  DeployInv'
<1>1. PICK stage \in {"delete", "remove", "none"} :
        /\ job.at \in {"purge", "delete", "remove"} /\ job' = To(stage)
        /\ backups' \in {backups, {}}
        /\ app' \in {app, [known |-> FALSE, up |-> FALSE, code |-> NoTree]}
        /\ dirs' \in {dirs, [d \in Dirs |-> NoTree]} /\ current' \in {current, 0}
        /\ UNCHANGED <<strategy, jobsRun, made, named, collecting>>
  <2>1. CASE PurgeBackups
    BY <2>1 DEF PurgeBackups, Moves, Still
  <2>2. CASE PurgeApp
    BY <2>2 DEF PurgeApp, Moves, Still
  <2>3. CASE PurgeTree
    BY <2>3 DEF PurgeTree, Moves, Still
  <2> QED BY <2>1, <2>2, <2>3
<1>2. /\ JobTyped' /\ job'.at = stage
      /\ job'.kind = job.kind /\ job'.commit = job.commit /\ job'.dir = job.dir
      /\ job'.prior = job.prior /\ job'.old = job.old /\ job'.cancelled = job.cancelled
  BY <1>1, JobMoves DEF DeployInv, JobStaged, Stages, JobEnded
<1>3. IsTree(NoTree) /\ 0 \in Dirs
  BY TreesAre, DirsInRange DEF DeployInv
<1>4. /\ dirs' \in [Dirs -> Trees] /\ \A d \in Dirs : IsTree(dirs'[d])
      /\ strategy = "release" => dirs'[0] = NoTree
  <2>1. CASE dirs' = dirs
    BY <2>1 DEF DeployInv, DepTypeOK, TreesTyped
  <2>2. CASE dirs' = [d \in Dirs |-> NoTree]
    BY <1>3, <2>2 DEF IsTree
  <2> QED BY <1>1, <2>1, <2>2
<1>5. backups' \subseteq backups /\ IsFiniteSet(backups')
  BY <1>1, FS_EmptySet DEF DeployInv, TreesTyped
<1>6. app' \in [known : BOOLEAN, up : BOOLEAN, code : Trees]
  <2>1. app \in [known : BOOLEAN, up : BOOLEAN, code : Trees] /\ NoTree \in Trees
    BY <1>3 DEF IsTree, DeployInv, DepTypeOK
  <2>2. [known |-> FALSE, up |-> FALSE, code |-> NoTree] \in [known : BOOLEAN, up : BOOLEAN, code : Trees]
    BY <2>1
  <2> QED BY <1>1, <2>1, <2>2
<1>7. DepTypeOK'
  BY <1>1, <1>2, <1>3, <1>4, <1>5, <1>6 DEF DeployInv, DepTypeOK
<1>8. TreesTyped'
  BY <1>1, <1>2, <1>4, <1>5 DEF DeployInv, TreesTyped
<1>9. JobStaged'
  BY <1>1, <1>2 DEF DeployInv, JobStaged
<1>10. TreeIsOfJob'
  BY <1>1, <1>2 DEF TreeIsOfJob, SuccessMeansLive
<1>11. LinkGoesBack'
  BY <1>1, <1>2 DEF LinkGoesBack, FailedDeployGoesBack
<1> QED BY <1>7, <1>8, <1>9, <1>10, <1>11 DEF DeployInv

(* What happens beside a job only takes trees away, or restarts the process  *)
(* where it is.                                                              *)
LEMMA BesidesInv ==
  ASSUME DeployInv, Collect \/ AppRestarts
  PROVE  DeployInv'
<1>1. /\ \A d \in Dirs : dirs'[d] \in {dirs[d], NoTree}
      /\ dirs' \in [Dirs -> Trees]
  <2>1. CASE Collect
    <3>1. IsTree(NoTree)
      BY TreesAre
    <3> QED BY <2>1, <3>1 DEF Collect, DeployInv, DepTypeOK, IsTree
  <2>2. CASE AppRestarts
    BY <2>2 DEF AppRestarts, DeployInv, DepTypeOK
  <2> QED BY <2>1, <2>2
<1>2. UNCHANGED <<strategy, jobsRun, made, named, current, backups, job>>
  BY DEF Collect, AppRestarts, Still
<1>3. collecting' \in Nat
  BY DEF Collect, AppRestarts, DeployInv, DepTypeOK
<1>4. /\ app' \in [known : BOOLEAN, up : BOOLEAN, code : Trees]
      /\ app'.up => app.up
      /\ app.up /\ app.code = dirs[current] => app' = app
      /\ dirs[current] \in {app.code, NoTree} => app'.code = app.code
      /\ app'.code # app.code => app'.code = dirs[current] /\ dirs[current] # NoTree
  <2>1. dirs[current] \in Trees
    BY DEF DeployInv, DepTypeOK
  <2>2. app \in [known : BOOLEAN, up : BOOLEAN, code : Trees]
    BY DEF DeployInv, DepTypeOK
  <2>3. CASE Collect
    BY <2>2, <2>3 DEF Collect
  <2>4. CASE AppRestarts /\ dirs[current] = NoTree
    BY <2>2, <2>4 DEF AppRestarts
  <2>5. CASE AppRestarts /\ dirs[current] # NoTree
    BY <2>1, <2>2, <2>5 DEF AppRestarts
  <2> QED BY <2>3, <2>4, <2>5
<1>5. DepTypeOK'
  BY <1>1, <1>2, <1>3, <1>4 DEF DeployInv, DepTypeOK
<1>6. TreesTyped'
  BY <1>1, <1>2, TreesAre, DirsInRange DEF DeployInv, TreesTyped
<1>7. JobStaged'
  BY <1>2 DEF DeployInv, JobStaged, JobTyped
<1>8. TreeIsOfJob'
  <2>1. \A d \in Dirs : Carries(d) => Carries(d)'
    BY <1>1, <1>2 DEF Carries
  <2>2. current \in Dirs /\ job.dir \in Dirs
    BY DEF DeployInv, DepTypeOK
  <2>3. SuccessMeansLive'
    <3>1. job.at = "ok" => app'.code = app.code /\ dirs'[current] \in {dirs[current], NoTree}
      BY <1>1, <1>4, <2>2 DEF DeployInv, TreeIsOfJob
    <3> QED BY <1>2, <2>2, <3>1 DEF DeployInv, TreeIsOfJob, SuccessMeansLive, RunsFiled
  <2>4. job.at = "ok" => dirs'[current] \in {app'.code, NoTree}
    BY <1>1, <1>4, <2>2 DEF DeployInv, TreeIsOfJob
  <2>5. /\ (job.at = "start" \/ job.at = "restart") => ~app'.up
        /\ job.at \in {"stop", "start"} /\ job.kind # "deploy" => IsFiled'
    <3>1. CASE strategy = "release"
      BY <1>2, <1>4, <3>1 DEF DeployInv, TreeIsOfJob, IsFiled
    <3>2. CASE strategy # "release"
      <4>1. dirs'[0] = dirs[0]
        <5>1. CASE Collect
          BY <5>1, DirsInRange DEF Collect, Releases, Dirs, DeployInv, DepTypeOK
        <5>2. CASE AppRestarts
          BY <5>2 DEF AppRestarts
        <5> QED BY <5>1, <5>2
      <4> QED BY <1>2, <1>4, <3>2, <4>1 DEF DeployInv, TreeIsOfJob, IsFiled
    <3> QED BY <3>1, <3>2
  <2> QED BY <1>2, <2>1, <2>2, <2>3, <2>4, <2>5 DEF DeployInv, TreeIsOfJob
<1>9. LinkGoesBack'
  <2>1. job.prior \in Dirs
    BY DEF DeployInv, DepTypeOK
  <2>2. dirs'[job.prior] # NoTree => dirs'[job.prior] = dirs[job.prior]
    BY <1>1, <2>1
  <2>3. dirs'[job.prior] # NoTree /\ job.at = "reverted" /\ job.kind = "deploy"
        => app' = app /\ app.up /\ app.code = dirs[job.prior]
    BY <1>4, <2>2 DEF DeployInv, LinkGoesBack, FailedDeployGoesBack
  <2> QED BY <1>2, <2>2, <2>3 DEF DeployInv, LinkGoesBack, FailedDeployGoesBack
<1> QED BY <1>5, <1>6, <1>7, <1>8, <1>9 DEF DeployInv

(* Every step of a job, and beside it, keeps the invariant. *)
LEMMA DeployInvNext == DeployInv /\ [DepNext]_depVars => DeployInv'
<1> SUFFICES ASSUME DeployInv, [DepNext]_depVars PROVE DeployInv'
  OBVIOUS
<1>1. CASE Collect \/ AppRestarts
  BY <1>1, BesidesInv
<1>2. ASSUME NEW k \in {"deploy", "rollback", "restore", "purge"}, NEW c \in Commits,
             NEW from \in CloudNames \cup {"none"}
      PROVE  Accept(k, c, from) => DeployInv'
  BY <1>2, AcceptInv
<1>3. CASE Cancel
  BY <1>3, CancelInv
<1>4. CASE BeginDeploy
  BY <1>4, BeginDeployInv
<1>5. CASE Backup
  BY <1>5, BackupInv
<1>6. CASE Checkout
  BY <1>6, CheckoutInv
<1>7. CASE Build
  BY <1>7, BuildInv
<1>8. CASE ExecFails("fetch") \/ ExecFails("build")
  <2>1. /\ job.at \in {"fetch", "build"} /\ job' = To("failed")
        /\ UNCHANGED <<strategy, dirs, named, current, backups, app, made, jobsRun, collecting>>
    BY <1>8 DEF ExecFails, Finishes, Moves, Still
  <2>2. collecting' \in Nat
    BY <2>1 DEF DeployInv, DepTypeOK
  <2> QED BY <2>1, <2>2, JobAdvances DEF JobEnded
<1>9. CASE Flip \/ Stop \/ Start
  <2>1. \/ (Flip /\ job' = To("stop")) \/ Stop \/ (Start /\ job' = To("ok"))
        \/ Flip /\ job' = To(SwapFailed) /\ UNCHANGED current
        \/ Start /\ job' = To("failed") /\ job.old # NoTree
    BY <1>9 DEF Flip, Start, Moves, Finishes
  <2> QED BY <2>1, SwapInv, GoBackInv, LeftAsideInv
<1>10. CASE StartFails \/ Unflip \/ Restop \/ Restart
  BY <1>10, GoBackInv
<1>11. CASE Restore
  BY <1>11, RestoreInv
<1>12. CASE CopyBack
  BY <1>12, CopyBackInv
<1>13. CASE PurgeBackups \/ PurgeApp \/ PurgeTree
  BY <1>13, PurgeInv
<1>14. CASE UNCHANGED depVars
  <2>1. UNCHANGED <<strategy, dirs, named, current, backups, app, job, collecting, made, jobsRun>>
    BY <1>14 DEF depVars
  <2> QED BY <2>1 DEF DeployInv, DepTypeOK, TreesTyped, JobStaged, JobTyped, TreeIsOfJob, Carries,
                      SuccessMeansLive, IsFiled, RunsFiled, LinkGoesBack, FailedDeployGoesBack
<1> QED BY <1>1, <1>2, <1>3, <1>4, <1>5, <1>6, <1>7, <1>8, <1>9, <1>10, <1>11, <1>12, <1>13, <1>14
        DEF DepNext

(* At first there is no release and no job. *)
LEMMA DeployInvInit == DepInit => DeployInv
<1> SUFFICES ASSUME DepInit PROVE DeployInv
  OBVIOUS
<1> DEFINE live == [of |-> CHOOSE c \in Commits : TRUE, ready |-> TRUE]
<1>1. IsTree(live) /\ IsTree(NoTree) /\ 0 \in Dirs
  <2>1. (CHOOSE c \in Commits : TRUE) \in Commits
    BY DeployAssumption
  <2>2. IsTree(live) /\ IsTree(NoTree)
    BY <2>1, TreesAre
  <2>3. 0 \in Dirs
    BY DeployAssumption DEF Dirs
  <2> QED BY <2>2, <2>3
<1> HIDE DEF live
<1>2. /\ strategy \in {"release", "inplace"}
      /\ dirs = [d \in Dirs |-> IF strategy = "inplace" /\ d = 0 THEN live ELSE NoTree]
      /\ app = IF strategy = "inplace" THEN [known |-> TRUE, up |-> TRUE, code |-> live]
               ELSE [known |-> FALSE, up |-> FALSE, code |-> NoTree]
      /\ named = [d \in Dirs |-> "none"]
      /\ current = 0 /\ backups = {} /\ job = NoJob /\ collecting = 0 /\ made = 0 /\ jobsRun = 0
  BY DEF DepInit, live
<1>3. JobTyped
  BY <1>1, <1>2 DEF JobTyped, NoJob, JobEnded, IsTree
<1>4. dirs \in [Dirs -> Trees] /\ app \in [known : BOOLEAN, up : BOOLEAN, code : Trees]
  BY <1>1, <1>2 DEF IsTree
<1>5. DepTypeOK
  BY <1>1, <1>2, <1>4 DEF DepTypeOK, NoJob, IsTree
<1>6. TreesTyped
  BY <1>1, <1>2, FS_EmptySet DEF TreesTyped, NoJob
<1>7. JobStaged
  BY <1>2, <1>3 DEF JobStaged, NoJob
<1>8. TreeIsOfJob /\ LinkGoesBack
  BY <1>2 DEF TreeIsOfJob, LinkGoesBack, SuccessMeansLive, FailedDeployGoesBack, NoJob
<1> QED BY <1>5, <1>6, <1>7, <1>8 DEF DeployInv

(* Whatever jobs follow each other, fail, are cancelled or go on beside a    *)
(* collection and restarts of the process: every variable stays in its domain. *)
THEOREM DeployTypeCorrect == DepSpec => []DepTypeOK
<1>1. DeployInv => DepTypeOK
  BY DEF DeployInv
<1> QED BY <1>1, DeployInvInit, DeployInvNext, PTL DEF DepSpec

(* A deploy that reports success left its commit running, a rollback or a     *)
(* restoration what is filed under the commit it names; a deploy that reports *)
(* failure, and not that going back failed too, has the link where it was and *)
(* after a swap the process running what it names; for any number of commits, *)
(* jobs, releases and kept releases, whatever the cloud takes for live.       *)
THEOREM VerdictAlwaysTrue == DepSpec => []VerdictIsTrue
<1>1. DeployInv => VerdictIsTrue
  BY DEF DeployInv, TreeIsOfJob, LinkGoesBack, VerdictIsTrue
<1> QED BY <1>1, DeployInvInit, DeployInvNext, PTL DEF DepSpec

-----------------------------------------------------------------------------
(* Alert thresholds and their file *)

(* A threshold is a number once it is loaded; in a file a field may be unset. *)
Files == [sys : Triggers \cup {NotSet}, defaults : Partials, overrides : [AlertApps -> Partials]]
         \cup {Unreadable}
Configs == [sys : Triggers, defaults : [Meters -> Triggers],
            overrides : [AlertApps -> [Meters -> Triggers] \cup {NoOverride}]]

TuneTyped ==
  /\ tuned \in Configs /\ tuneFile \in Files
  /\ tuneSaves \in [1 .. MaxAlertCalls -> Configs \cup {Unreadable}]
  /\ loading \in {"off", "open"} /\ agentUp \in BOOLEAN /\ overlapped \in BOOLEAN
  /\ tuneCalls \in 0 .. MaxAlertCalls

(* No write is left behind by a daemon that is gone, none is begun while the *)
(* file is read, and a lone write in flight carries what is in force.        *)
FileFollows ==
  /\ ~agentUp => InFlight = {}
  /\ agentUp /\ ~overlapped /\ loading = "open" => InFlight = {}
  /\ agentUp /\ ~overlapped /\ loading = "off" =>
       \/ InFlight = {} /\ LoadedConfig(tuneFile) = tuned
       \/ \E i \in 1 .. MaxAlertCalls : InFlight = {i} /\ tuneSaves[i] = tuned

TuneInv == TuneTyped /\ FileFollows

(* A configuration that is in force has every field, so it is written and    *)
(* loaded without change.                                                    *)
LEMMA ConfigsAreFiles ==
  ASSUME NEW cfg \in Configs
  PROVE  cfg \in Files /\ cfg # Unreadable /\ LoadedConfig(cfg) = cfg
<1>1. NotSet \notin Triggers
  BY DEF NotSet, Triggers
<1>2. cfg.sys \in Triggers /\ cfg.defaults \in [Meters -> Triggers]
      /\ cfg.overrides \in [AlertApps -> [Meters -> Triggers] \cup {NoOverride}]
      /\ cfg = [sys |-> cfg.sys, defaults |-> cfg.defaults, overrides |-> cfg.overrides]
  BY DEF Configs
<1>3. cfg # Unreadable
  BY <1>1, <1>2 DEF Unreadable
<1>4. cfg \in Files
  <2>1. [Meters -> Triggers] \subseteq Partials /\ NoOverride \in Partials
    BY DEF Partials, NoOverride
  <2>2. cfg.overrides \in [AlertApps -> Partials]
    BY <1>2, <2>1
  <2> QED BY <1>2, <2>1, <2>2 DEF Files
<1>5. \A full \in [Meters -> Triggers] : \A dflt : MergeThresholds(full, dflt) = full
  BY <1>1 DEF MergeThresholds
<1>6. LoadedConfig(cfg) = [sys |-> cfg.sys, defaults |-> cfg.defaults, overrides |-> cfg.overrides]
  <2>1. MergeThresholds(cfg.defaults, Builtin.defaults) = cfg.defaults
    BY <1>2, <1>5
  <2>2. \A a \in AlertApps : (IF cfg.overrides[a] = NoOverride THEN NoOverride
                              ELSE MergeThresholds(cfg.overrides[a], Builtin.defaults))
                             = cfg.overrides[a]
    BY <1>2, <1>5
  <2>3. [a \in AlertApps |-> IF cfg.overrides[a] = NoOverride THEN NoOverride
                             ELSE MergeThresholds(cfg.overrides[a], Builtin.defaults)]
        = cfg.overrides
    BY <1>2, <2>2
  <2> QED BY <1>1, <1>2, <1>3, <2>1, <2>3 DEF LoadedConfig
<1> QED BY <1>2, <1>3, <1>4, <1>6

(* Merging over full thresholds gives full thresholds. *)
LEMMA MergedIsFull ==
  ASSUME NEW raw \in Partials, NEW dflt \in [Meters -> Triggers]
  PROVE  MergeThresholds(raw, dflt) \in [Meters -> Triggers]
BY DEF MergeThresholds, Partials

(* Whatever a file holds, what is loaded from it is a configuration. *)
LEMMA LoadedIsConfig ==
  /\ Builtin \in Configs
  /\ \A file \in Files : LoadedConfig(file) \in Configs
<1>1. Builtin \in Configs
  BY DEF Builtin, Configs, Triggers
<1>2. ASSUME NEW file \in Files, file # Unreadable PROVE LoadedConfig(file) \in Configs
  <2>1. file.sys \in Triggers \cup {NotSet} /\ file.defaults \in Partials
        /\ file.overrides \in [AlertApps -> Partials]
    BY <1>2 DEF Files
  <2>2. Builtin.defaults \in [Meters -> Triggers]
    BY DEF Builtin, Triggers
  <2>3. MergeThresholds(file.defaults, Builtin.defaults) \in [Meters -> Triggers]
        /\ \A a \in AlertApps :
             MergeThresholds(file.overrides[a], Builtin.defaults) \in [Meters -> Triggers]
    BY <2>1, <2>2, MergedIsFull
  <2>4. (IF file.sys = NotSet THEN 0 ELSE file.sys) \in Triggers
    BY <2>1 DEF Triggers
  <2> QED BY <1>2, <2>3, <2>4 DEF LoadedConfig, Configs
<1> QED BY <1>1, <1>2 DEF LoadedConfig

(* alertsSet and alertsReset make configurations of configurations. *)
LEMMA PatchedIsConfig ==
  ASSUME NEW cfg \in Configs
  PROVE  /\ \A t \in AlertApps \cup {"defaults"}, patch \in Partials : Patched(cfg, t, patch) \in Configs
         /\ \A v \in Triggers : [cfg EXCEPT !.sys = v] \in Configs
         /\ \A t \in AlertApps \cup {"system", "all"} : ResetConfig(cfg, t) \in Configs
<1>1. \A t \in AlertApps \cup {"defaults"}, patch \in Partials : Patched(cfg, t, patch) \in Configs
  <2> TAKE t \in AlertApps \cup {"defaults"}, patch \in Partials
  <2> DEFINE merged == MergeThresholds(patch, cfg.defaults)
  <2>1. merged \in [Meters -> Triggers]
    BY MergedIsFull DEF Configs
  <2> HIDE DEF merged
  <2>2. CASE t = "defaults"
    BY <2>1, <2>2 DEF Patched, Configs, merged
  <2>3. CASE t # "defaults"
    <3>1. [cfg EXCEPT !.overrides[t] = merged] \in Configs
      BY <2>1, <2>3 DEF Configs
    <3> QED BY <2>3, <3>1 DEF Patched, merged
  <2> QED BY <2>2, <2>3
<1>2. \A v \in Triggers : [cfg EXCEPT !.sys = v] \in Configs
  BY DEF Configs
<1>3. \A t \in AlertApps \cup {"system", "all"} : ResetConfig(cfg, t) \in Configs
  <2> TAKE t \in AlertApps \cup {"system", "all"}
  <2>1. 0 \in Triggers /\ Builtin.overrides \in [AlertApps -> [Meters -> Triggers] \cup {NoOverride}]
    BY DEF Triggers, Builtin
  <2>2. CASE t = "all"
    BY <2>1, <2>2 DEF ResetConfig, Configs
  <2>3. CASE t = "system"
    BY <2>1, <2>3 DEF ResetConfig, Configs
  <2>4. CASE t \notin {"all", "system"}
    <3>1. [cfg EXCEPT !.overrides[t] = NoOverride] \in Configs
      BY <2>4 DEF Configs
    <3> QED BY <2>4, <3>1 DEF ResetConfig
  <2> QED BY <2>2, <2>3, <2>4
<1> QED BY <1>1, <1>2, <1>3

(* A change is in force at once and its write is in flight. *)
LEMMA AdoptsInv ==
  ASSUME TuneInv, NEW cfg \in Configs, Adopts(cfg)
  PROVE  TuneInv'
<1>1. /\ agentUp /\ agentUp' = agentUp /\ tuned' = cfg /\ UNCHANGED <<tuneFile, loading>>
      /\ tuneCalls < MaxAlertCalls /\ tuneCalls' = tuneCalls + 1
      /\ tuneSaves' = [tuneSaves EXCEPT ![tuneCalls'] = cfg]
      /\ overlapped' = (overlapped \/ InFlight # {} \/ loading # "off")
  BY DEF Adopts, AlertCall
<1>2. tuneCalls' \in 1 .. MaxAlertCalls
  BY <1>1, AlertAssumption DEF TuneInv, TuneTyped
<1>3. overlapped' \in BOOLEAN
  BY <1>1 DEF TuneInv, TuneTyped
<1>4. TuneTyped'
  BY <1>1, <1>2, <1>3, AlertAssumption DEF TuneInv, TuneTyped
<1>5. ASSUME ~overlapped' PROVE InFlight' = {tuneCalls'} /\ tuneSaves'[tuneCalls'] = tuned' /\ loading' = "off"
  <2>1. InFlight = {} /\ loading = "off" /\ cfg # Unreadable
    BY <1>1, <1>5, ConfigsAreFiles
  <2>2. /\ DOMAIN tuneSaves = 1 .. MaxAlertCalls /\ DOMAIN tuneSaves' = 1 .. MaxAlertCalls
        /\ tuneSaves'[tuneCalls'] = cfg
        /\ \A i \in 1 .. MaxAlertCalls : i # tuneCalls' => tuneSaves'[i] = tuneSaves[i]
    BY <1>1, <1>2 DEF TuneInv, TuneTyped
  <2> QED BY <1>1, <1>2, <2>1, <2>2 DEF InFlight
<1>6. FileFollows'
  BY <1>1, <1>2, <1>5 DEF FileFollows
<1> QED BY <1>4, <1>6 DEF TuneInv

(* Every change, write, crash and start keeps the invariant. *)
LEMMA TuneInvNext == TuneInv /\ [TuneNext]_tuneVars => TuneInv'
<1> SUFFICES ASSUME TuneInv, [TuneNext]_tuneVars PROVE TuneInv'
  OBVIOUS
<1>0. tuned \in Configs /\ tuneFile \in Files /\ DOMAIN tuneSaves = 1 .. MaxAlertCalls
  BY DEF TuneInv, TuneTyped
<1>1. ASSUME NEW t \in AlertApps \cup {"defaults"}, AlertsSet(t) PROVE TuneInv'
  BY <1>0, <1>1, PatchedIsConfig, AdoptsInv DEF AlertsSet
<1>2. ASSUME NEW v \in Triggers, AlertsSetSystem(v) PROVE TuneInv'
  BY <1>0, <1>2, PatchedIsConfig, AdoptsInv DEF AlertsSetSystem
<1>3. ASSUME NEW t \in AlertApps \cup {"system", "all"}, AlertsReset(t) PROVE TuneInv'
  BY <1>0, <1>3, PatchedIsConfig, AdoptsInv DEF AlertsReset
<1>4. ASSUME NEW i \in 1 .. MaxAlertCalls, SaveLands(i) PROVE TuneInv'
  <2>1. /\ agentUp /\ i \in InFlight /\ tuneFile' = tuneSaves[i]
        /\ tuneSaves' = [tuneSaves EXCEPT ![i] = Unreadable]
        /\ UNCHANGED <<tuned, loading, agentUp, tuneCalls, overlapped>>
    BY <1>4 DEF SaveLands
  <2>2. tuneSaves[i] \in Configs /\ tuneSaves[i] \in Files
    <3>1. tuneSaves[i] \in Configs \cup {Unreadable} /\ tuneSaves[i] # Unreadable
      BY <2>1 DEF InFlight, TuneInv, TuneTyped
    <3> QED BY <3>1, ConfigsAreFiles
  <2>3. TuneTyped'
    BY <2>1, <2>2 DEF TuneInv, TuneTyped
  <2>4. InFlight' = InFlight \ {i}
    <3>1. DOMAIN tuneSaves' = 1 .. MaxAlertCalls /\ tuneSaves'[i] = Unreadable
          /\ \A j \in 1 .. MaxAlertCalls : j # i => tuneSaves'[j] = tuneSaves[j]
      BY <1>0, <2>1
    <3> QED BY <1>0, <3>1 DEF InFlight
  <2>5. ASSUME ~overlapped', loading' = "off"
        PROVE  InFlight' = {} /\ LoadedConfig(tuneFile') = tuned'
    <3>1. InFlight = {i} /\ tuneSaves[i] = tuned
      BY <2>1, <2>5 DEF TuneInv, FileFollows
    <3> QED BY <1>0, <2>1, <2>4, <3>1, ConfigsAreFiles
  <2>6. FileFollows'
    BY <2>1, <2>4, <2>5 DEF TuneInv, FileFollows
  <2> QED BY <2>3, <2>6 DEF TuneInv
<1>5. CASE AgentDies
  <2>1. /\ agentUp' = FALSE /\ loading' = "off" /\ tuned' = tuned
        /\ tuneSaves' = [i \in DOMAIN tuneSaves |-> Unreadable]
        /\ tuneCalls < MaxAlertCalls /\ tuneCalls' = tuneCalls + 1
        /\ overlapped' = (overlapped \/ InFlight # {})
    BY <1>5 DEF AgentDies, AlertCall
  <2>2. tuneFile' \in Files
    <3>1. \A i \in InFlight : tuneSaves[i] \in Files
      <4>1. \A i \in InFlight : tuneSaves[i] \in Configs
        BY DEF InFlight, TuneInv, TuneTyped
      <4> QED BY <4>1, ConfigsAreFiles
    <3> QED BY <1>0, <1>5, <3>1 DEF AgentDies, Files
  <2>3. tuneCalls' \in 0 .. MaxAlertCalls
    BY <2>1, AlertAssumption DEF TuneInv, TuneTyped
  <2>4. overlapped' \in BOOLEAN
    BY <2>1 DEF TuneInv, TuneTyped
  <2>5. TuneTyped'
    BY <2>1, <2>2, <2>3, <2>4 DEF TuneInv, TuneTyped
  <2>6. InFlight' = {}
    BY <2>1 DEF InFlight
  <2> QED BY <2>1, <2>5, <2>6 DEF TuneInv, FileFollows
<1>6. CASE HandEdit
  <2>1. /\ ~agentUp /\ tuneCalls < MaxAlertCalls /\ tuneCalls' = tuneCalls + 1
        /\ UNCHANGED <<tuned, loading, tuneSaves, agentUp, overlapped>>
    BY <1>6 DEF HandEdit, AlertCall
  <2>2. tuneFile' \in Files
    <3>1. PICK d \in Partials, o \in Partials, a \in AlertApps :
            tuneFile' = [sys |-> NotSet, defaults |-> d,
                         overrides |-> [Builtin.overrides EXCEPT ![a] = o]]
      BY <1>6 DEF HandEdit
    <3>2. [Builtin.overrides EXCEPT ![a] = o] \in [AlertApps -> Partials]
      BY DEF Builtin, NoOverride, Partials
    <3> QED BY <3>1, <3>2 DEF Files
  <2>3. tuneCalls' \in 0 .. MaxAlertCalls
    BY <2>1, AlertAssumption DEF TuneInv, TuneTyped
  <2>4. InFlight' = InFlight
    BY <2>1 DEF InFlight
  <2> QED BY <2>1, <2>2, <2>3, <2>4 DEF TuneInv, TuneTyped, FileFollows
<1>7. CASE AgentStarts
  <2>1. /\ ~agentUp /\ agentUp' = TRUE /\ tuned' = Builtin /\ loading' = "open" /\ overlapped' = FALSE
        /\ UNCHANGED <<tuneFile, tuneSaves, tuneCalls>>
    BY <1>7 DEF AgentStarts
  <2>2. InFlight' = {}
    BY <2>1 DEF TuneInv, FileFollows, InFlight
  <2> QED BY <2>1, <2>2, LoadedIsConfig DEF TuneInv, TuneTyped, FileFollows
<1>8. CASE LoadDone
  <2>1. /\ loading = "open" /\ tuned' = LoadedConfig(tuneFile) /\ loading' = "off"
        /\ UNCHANGED <<tuneFile, tuneSaves, agentUp, tuneCalls, overlapped>>
    BY <1>8 DEF LoadDone
  <2>2. InFlight' = InFlight
    BY <2>1 DEF InFlight
  <2> QED BY <1>0, <2>1, <2>2, LoadedIsConfig DEF TuneInv, TuneTyped, FileFollows
<1>9. CASE UNCHANGED tuneVars
  <2>1. UNCHANGED <<tuned, tuneFile, loading, tuneSaves, agentUp, tuneCalls, overlapped>>
    BY <1>9 DEF tuneVars
  <2>2. InFlight' = InFlight
    BY <2>1 DEF InFlight
  <2> QED BY <2>1, <2>2 DEF TuneInv, TuneTyped, FileFollows
<1> QED BY <1>1, <1>2, <1>3, <1>4, <1>5, <1>6, <1>7, <1>8, <1>9 DEF TuneNext

(* The first daemon finds no file and has the built-in thresholds. *)
LEMMA TuneInvInit == TuneInit => TuneInv
<1> SUFFICES ASSUME TuneInit PROVE TuneInv
  OBVIOUS
<1>1. InFlight = {}
  BY DEF TuneInit, InFlight
<1>2. TuneTyped
  <2>1. tuned \in Configs /\ tuneFile \in Files
    BY LoadedIsConfig DEF TuneInit, Files
  <2>2. tuneSaves \in [1 .. MaxAlertCalls -> Configs \cup {Unreadable}]
    BY DEF TuneInit
  <2>3. tuneCalls \in 0 .. MaxAlertCalls
    BY AlertAssumption DEF TuneInit
  <2> QED BY <2>1, <2>2, <2>3 DEF TuneInit, TuneTyped
<1> QED BY <1>1, <1>2 DEF TuneInit, TuneInv, FileFollows

(* For any metrics, processes and number of changes: unless a change         *)
(* overlapped a read or a write, a restart finds in the file the thresholds  *)
(* that are in force.                                                        *)
THEOREM ReloadAlwaysKeepsConfig == TuneSpec => []ReloadKeepsConfig
<1>1. TuneInv => ReloadKeepsConfig
  BY DEF TuneInv, FileFollows, ReloadKeepsConfig
<1> QED BY <1>1, TuneInvInit, TuneInvNext, PTL DEF TuneSpec

-----------------------------------------------------------------------------
(* Threshold monitor *)

Phases == {"normal", "watching", "triggered", "clearing"}
Level == metric \in {"process", "system"}

MachineOK ==
  /\ machine = [phase |-> machine.phase, since |-> machine.since,
                firedAt |-> machine.firedAt, base |-> machine.base]
  /\ machine.phase \in Phases /\ machine.since \in Nat /\ machine.firedAt \in Nat

(* The instants stay within the time that has passed. *)
WithinTime ==
  /\ clock \in Nat /\ 0 < clock /\ clock <= MaxClock
  /\ 0 < machine.since /\ machine.since <= clock /\ machine.firedAt <= clock
  /\ highSince \in Nat /\ highSince <= clock /\ lowSince \in Nat /\ lowSince <= clock

(* A streak that is being watched is not younger than the samples say. *)
StreakIsWhole ==
  /\ Level /\ machine.phase = "watching" => highSince # 0 /\ highSince <= machine.since
  /\ Level /\ machine.phase = "clearing" => lowSince # 0 /\ lowSince <= machine.since

AlertPrecedes == machine.phase \in {"triggered", "clearing"} => alertsOut

MonInv ==
  /\ metric \in Metrics /\ alertsOut \in BOOLEAN
  /\ emitted \in {"none", "alert", "heartbeat", "recovered"}
  /\ MachineOK /\ WithinTime /\ StreakIsWhole /\ AlertPrecedes

(* What a machine m and its events have in common on every metric: the fields *)
(* are those of m, an instant that changed is t, and the phase follows the    *)
(* event, so that none is triggered or clearing whose alert was not sent.     *)
StepOK(m, res, t) ==
  /\ res.to = [phase |-> res.to.phase, since |-> res.to.since,
               firedAt |-> res.to.firedAt, base |-> res.to.base]
  /\ res.to.phase \in Phases
  /\ res.to.since \in {m.since, t} /\ res.to.firedAt \in {m.firedAt, t}
  /\ res.event \in {"none", "alert", "heartbeat", "recovered"}
  /\ res.event = "recovered" => m.phase \in {"triggered", "clearing"} /\ res.to.phase = "normal"
  /\ res.event = "none" /\ res.to.phase \in {"triggered", "clearing"}
       => m.phase \in {"triggered", "clearing"}

(* Two fields of a machine change at once. *)
LEMMA BecomesIs ==
  ASSUME NEW p, NEW s, NEW f, NEW b, NEW q, NEW t,
         NEW m, m = [phase |-> p, since |-> s, firedAt |-> f, base |-> b]
  PROVE  Becomes(m, q, t) = [phase |-> q, since |-> t, firedAt |-> f, base |-> b]
<1>1. Becomes(m, q, t) = [[m EXCEPT !.phase = q] EXCEPT !.since = t]
  BY DEF Becomes
<1>2. [m EXCEPT !.phase = q] = [phase |-> q, since |-> s, firedAt |-> f, base |-> b]
  OBVIOUS
<1>3. [[phase |-> q, since |-> s, firedAt |-> f, base |-> b] EXCEPT !.since = t]
        = [phase |-> q, since |-> t, firedAt |-> f, base |-> b]
  OBVIOUS
<1> QED BY <1>1, <1>2, <1>3

(* The machine of a level: what it does with a sample, and when. *)
LEMMA LevelStepOK ==
  ASSUME NEW p \in Phases, NEW s \in Nat, NEW f \in Nat, NEW b,
         NEW x \in {"calm", "between", "crossed"}, NEW t \in Nat,
         NEW m, m = [phase |-> p, since |-> s, firedAt |-> f, base |-> b],
         NEW res, res = LevelStep(m, x, t)
  PROVE     /\ StepOK(m, res, t)
            /\ res.event = "alert" => p = "watching" /\ x = "crossed" /\ t - s >= Sustained
            /\ res.event = "recovered" => p = "clearing" /\ x # "crossed" /\ t - s >= Sustained
            /\ res.to.phase = "watching" =>
                 x = "crossed" /\ (res.to.since = t \/ (p = "watching" /\ res.to.since = s))
            /\ res.to.phase = "clearing" =>
                 x # "crossed" /\ (res.to.since = t \/ (p = "clearing" /\ res.to.since = s))
<1>0. /\ \A q : Becomes(m, q, t) = [phase |-> q, since |-> t, firedAt |-> f, base |-> b]
      /\ [m EXCEPT !.phase = "triggered", !.firedAt = t]
           = [phase |-> "triggered", since |-> s, firedAt |-> t, base |-> b]
  <2>1. ASSUME NEW q PROVE Becomes(m, q, t) = [phase |-> q, since |-> t, firedAt |-> f, base |-> b]
    BY BecomesIs
  <2>2. [m EXCEPT !.phase = "triggered", !.firedAt = t]
           = [phase |-> "triggered", since |-> s, firedAt |-> t, base |-> b]
    <3>1. [m EXCEPT !.phase = "triggered", !.firedAt = t]
            = [[m EXCEPT !.phase = "triggered"] EXCEPT !.firedAt = t]
      OBVIOUS
    <3>2. [m EXCEPT !.phase = "triggered"]
            = [phase |-> "triggered", since |-> s, firedAt |-> f, base |-> b]
      OBVIOUS
    <3>3. [[phase |-> "triggered", since |-> s, firedAt |-> f, base |-> b] EXCEPT !.firedAt = t]
            = [phase |-> "triggered", since |-> s, firedAt |-> t, base |-> b]
      OBVIOUS
    <3> QED BY <3>1, <3>2, <3>3
  <2> QED BY <2>1, <2>2
<1>1. CASE p = "normal"
  <2>1. res = IF x = "crossed"
              THEN [to |-> [phase |-> "watching", since |-> t, firedAt |-> f, base |-> b], event |-> "none"]
              ELSE [to |-> m, event |-> "none"]
    BY <1>0, <1>1 DEF LevelStep, Silent
  <2> QED BY <1>1, <2>1 DEF StepOK, Phases
<1>2. CASE p = "watching"
  <2>1. res = IF x # "crossed"
              THEN [to |-> [phase |-> "normal", since |-> s, firedAt |-> f, base |-> b], event |-> "none"]
              ELSE IF t - s >= Sustained
              THEN [to |-> [phase |-> "triggered", since |-> s, firedAt |-> t, base |-> b], event |-> "alert"]
              ELSE [to |-> m, event |-> "none"]
    BY <1>0, <1>2 DEF LevelStep, LevelWatching, Silent, Emits, Held
  <2> QED BY <1>2, <2>1 DEF StepOK, Phases
<1>3. CASE p = "triggered"
  <2>1. res = IF x = "calm"
              THEN [to |-> [phase |-> "clearing", since |-> t, firedAt |-> f, base |-> b], event |-> "none"]
              ELSE IF x = "crossed" /\ t - f >= Heartbeat
              THEN [to |-> [phase |-> p, since |-> s, firedAt |-> t, base |-> b], event |-> "heartbeat"]
              ELSE [to |-> m, event |-> "none"]
    BY <1>0, <1>3 DEF LevelStep, Silent, Emits
  <2> QED BY <1>3, <2>1 DEF StepOK, Phases
<1>4. CASE p = "clearing"
  <2>1. res = IF x = "crossed"
              THEN [to |-> [phase |-> "watching", since |-> t, firedAt |-> f, base |-> b], event |-> "none"]
              ELSE IF t - s >= Sustained
              THEN [to |-> [phase |-> "normal", since |-> s, firedAt |-> f, base |-> b], event |-> "recovered"]
              ELSE [to |-> m, event |-> "none"]
    BY <1>0, <1>4 DEF LevelStep, Silent, Emits, Held
  <2> QED BY <1>4, <2>1 DEF StepOK, Phases
<1> QED BY <1>1, <1>2, <1>3, <1>4 DEF Phases

(* The other machines keep the same discipline; what they take a baseline    *)
(* from, or count, does not matter to it.                                    *)
LEMMA MemStepOK ==
  ASSUME NEW p \in Phases, NEW s \in Nat, NEW f \in Nat, NEW b, NEW r, NEW v, NEW t \in Nat,
         NEW m, m = [phase |-> p, since |-> s, firedAt |-> f, base |-> b]
  PROVE  StepOK(m, MemStep(m, r, v, t), t)
<1>1. PICK risen, calmed \in BOOLEAN : MemStep(m, r, v, t) =
         CASE risen /\ p = "normal" -> Emits([m EXCEPT !.phase = "triggered"], "alert")
           [] calmed /\ p = "triggered" -> Emits([m EXCEPT !.phase = "normal"], "recovered")
           [] OTHER -> Silent(m)
  <2> DEFINE base == WindowBase(r, t)
             risen == base # 0 /\ v >= base + 2
             calmed == base # 0 /\ v <= base
  <2>1. MemStep(m, r, v, t) =
         CASE risen /\ p = "normal" -> Emits([m EXCEPT !.phase = "triggered"], "alert")
           [] calmed /\ p = "triggered" -> Emits([m EXCEPT !.phase = "normal"], "recovered")
           [] OTHER -> Silent(m)
    BY DEF MemStep
  <2> QED BY <2>1
<1>2. [m EXCEPT !.phase = "triggered"] = [phase |-> "triggered", since |-> s, firedAt |-> f, base |-> b]
      /\ [m EXCEPT !.phase = "normal"] = [phase |-> "normal", since |-> s, firedAt |-> f, base |-> b]
  OBVIOUS
<1> QED BY <1>1, <1>2 DEF StepOK, Phases, Emits, Silent

(* The frozen baseline is a field like any other. *)
LEMMA HandleStepOK ==
  ASSUME NEW p \in Phases, NEW s \in Nat, NEW f \in Nat, NEW b, NEW r, NEW v, NEW t \in Nat,
         NEW m0, m0 = [phase |-> p, since |-> s, firedAt |-> f, base |-> b]
  PROVE  StepOK(m0, HandleStep(m0, r, v, t), t)
<1> DEFINE base == BaseFor(m0, r, t)
           m == IF m0.phase = "normal" /\ base # 0 THEN [m0 EXCEPT !.base = base] ELSE m0
           elevated == v >= base + 2
           calmed == v <= base
<1>1. PICK c : m = [phase |-> p, since |-> s, firedAt |-> f, base |-> c]
  BY DEF BaseFor
<1>2. m.phase = p /\ m.since = s /\ m.firedAt = f
  BY <1>1
<1>3. /\ \A q : Becomes(m, q, t) = [phase |-> q, since |-> t, firedAt |-> f, base |-> c]
      /\ [m EXCEPT !.phase = "triggered", !.firedAt = t]
           = [phase |-> "triggered", since |-> s, firedAt |-> t, base |-> c]
      /\ [m EXCEPT !.phase = "normal"] = [phase |-> "normal", since |-> s, firedAt |-> f, base |-> c]
      /\ [m EXCEPT !.firedAt = t] = [phase |-> p, since |-> s, firedAt |-> t, base |-> c]
  <2> HIDE DEF m
  <2>1. ASSUME NEW q PROVE Becomes(m, q, t) = [phase |-> q, since |-> t, firedAt |-> f, base |-> c]
    BY <1>1, BecomesIs
  <2>2. [m EXCEPT !.phase = "triggered", !.firedAt = t]
           = [phase |-> "triggered", since |-> s, firedAt |-> t, base |-> c]
    <3>1. [m EXCEPT !.phase = "triggered", !.firedAt = t]
            = [[m EXCEPT !.phase = "triggered"] EXCEPT !.firedAt = t]
      OBVIOUS
    <3>2. [m EXCEPT !.phase = "triggered"]
            = [phase |-> "triggered", since |-> s, firedAt |-> f, base |-> c]
      BY <1>1
    <3>3. [[phase |-> "triggered", since |-> s, firedAt |-> f, base |-> c] EXCEPT !.firedAt = t]
            = [phase |-> "triggered", since |-> s, firedAt |-> t, base |-> c]
      OBVIOUS
    <3> QED BY <3>1, <3>2, <3>3
  <2> QED BY <1>1, <2>1, <2>2
<1> DEFINE res == HandleStep(m0, r, v, t)
<1>4. res = CASE base = 0 -> Silent(m)
       [] base # 0 /\ m.phase = "normal" /\ elevated -> Silent(Becomes(m, "watching", t))
       [] base # 0 /\ m.phase = "clearing" /\ calmed /\ Held(m, t) ->
            Emits([m EXCEPT !.phase = "normal"], "recovered")
       [] base # 0 /\ m.phase = "watching" /\ ~elevated -> Silent([m EXCEPT !.phase = "normal"])
       [] base # 0 /\ m.phase = "watching" /\ elevated /\ Held(m, t) ->
            Emits([m EXCEPT !.phase = "triggered", !.firedAt = t], "alert")
       [] base # 0 /\ m.phase = "triggered" /\ calmed -> Silent(Becomes(m, "clearing", t))
       [] base # 0 /\ m.phase = "triggered" /\ ~calmed /\ t - m.firedAt >= Heartbeat ->
            Emits([m EXCEPT !.firedAt = t], "heartbeat")
       [] OTHER -> Silent(m)
  BY DEF HandleStep
<1> HIDE DEF base, m, elevated, calmed, res
<1>5. \/ res = Silent(m)
      \/ p = "normal" /\ res = Silent(Becomes(m, "watching", t))
      \/ p = "clearing" /\ res = Emits([m EXCEPT !.phase = "normal"], "recovered")
      \/ p = "watching" /\ res = Silent([m EXCEPT !.phase = "normal"])
      \/ p = "watching" /\ res = Emits([m EXCEPT !.phase = "triggered", !.firedAt = t], "alert")
      \/ p = "triggered" /\ res = Silent(Becomes(m, "clearing", t))
      \/ p = "triggered" /\ res = Emits([m EXCEPT !.firedAt = t], "heartbeat")
  BY <1>2, <1>4
<1>6. StepOK(m0, res, t)
  <2>1. CASE res = Silent(m)
    BY <1>1, <2>1 DEF StepOK, Phases, Silent
  <2>2. CASE p = "normal" /\ res = Silent(Becomes(m, "watching", t))
    BY <1>3, <2>2 DEF StepOK, Phases, Silent
  <2>3. CASE p = "clearing" /\ res = Emits([m EXCEPT !.phase = "normal"], "recovered")
    BY <1>3, <2>3 DEF StepOK, Phases, Emits
  <2>4. CASE p = "watching" /\ res = Silent([m EXCEPT !.phase = "normal"])
    BY <1>3, <2>4 DEF StepOK, Phases, Silent
  <2>5. CASE p = "watching" /\ res = Emits([m EXCEPT !.phase = "triggered", !.firedAt = t], "alert")
    BY <1>3, <2>5 DEF StepOK, Phases, Emits
  <2>6. CASE p = "triggered" /\ res = Silent(Becomes(m, "clearing", t))
    BY <1>3, <2>6 DEF StepOK, Phases, Silent
  <2>7. CASE p = "triggered" /\ res = Emits([m EXCEPT !.firedAt = t], "heartbeat")
    BY <1>3, <2>7 DEF StepOK, Phases, Emits
  <2> QED BY <1>5, <2>1, <2>2, <2>3, <2>4, <2>5, <2>6, <2>7
<1> QED BY <1>6 DEF res

(* A counter that went back makes the machine normal, without an event. *)
LEMMA LoopStepOK ==
  ASSUME NEW p \in Phases, NEW s \in Nat, NEW f \in Nat, NEW b, NEW r, NEW v, NEW t \in Nat,
         NEW m0, m0 = [phase |-> p, since |-> s, firedAt |-> f, base |-> b]
  PROVE  StepOK(m0, LoopStep(m0, r, v), t)
<1> DEFINE q == IF v < m0.base THEN "normal" ELSE p
           m == [m0 EXCEPT !.base = v, !.phase = IF v < m0.base THEN "normal" ELSE @]
<1>1. m = [m0 EXCEPT !.base = v, !.phase = q]
  OBVIOUS
<1> HIDE DEF m, q
<1>2. m = [phase |-> q, since |-> s, firedAt |-> f, base |-> v]
  <2>1. m = [[m0 EXCEPT !.base = v] EXCEPT !.phase = q]
    BY <1>1
  <2>2. [m0 EXCEPT !.base = v] = [phase |-> p, since |-> s, firedAt |-> f, base |-> v]
    OBVIOUS
  <2>3. [[phase |-> p, since |-> s, firedAt |-> f, base |-> v] EXCEPT !.phase = q]
          = [phase |-> q, since |-> s, firedAt |-> f, base |-> v]
    OBVIOUS
  <2> QED BY <2>1, <2>2, <2>3
<1>3. q \in {p, "normal"}
  BY DEF q
<1>4. /\ [m EXCEPT !.phase = "triggered"]
           = [phase |-> "triggered", since |-> s, firedAt |-> f, base |-> v]
      /\ [m EXCEPT !.phase = "normal"] = [phase |-> "normal", since |-> s, firedAt |-> f, base |-> v]
  BY <1>2
<1> DEFINE res == LoopStep(m0, r, v)
<1>5. \/ res = Silent(m)
      \/ res = Emits([m EXCEPT !.phase = "triggered"], "alert")
      \/ res = Silent([m EXCEPT !.phase = "normal"])
  BY DEF LoopStep, m
<1> HIDE DEF res
<1>6. StepOK(m0, res, t)
  BY <1>2, <1>3, <1>4, <1>5 DEF StepOK, Phases, Emits, Silent
<1> QED BY <1>6 DEF res

(* What began no later has lasted no less. *)
LEMMA LongerHeld ==
  ASSUME NEW t \in Nat, NEW s \in Nat, NEW u \in Nat, NEW d \in Nat, u <= s, t - s >= d
  PROVE  t - u >= d
OBVIOUS

(* A machine that has moved as StepOK says stays within the time that passed. *)
LEMMA TakesKeeps ==
  ASSUME MonInv, NEW res, StepOK(machine, res, clock'), Takes(res),
         clock' \in Nat, clock <= clock', clock' <= MaxClock
  PROVE  /\ MachineOK' /\ AlertPrecedes' /\ alertsOut' \in BOOLEAN
         /\ emitted' \in {"none", "alert", "heartbeat", "recovered"}
         /\ emitted' = "recovered" => alertsOut
         /\ 0 < machine'.since /\ machine'.since <= clock' /\ machine'.firedAt <= clock'
<1>1. /\ machine' = [phase |-> machine'.phase, since |-> machine'.since,
                     firedAt |-> machine'.firedAt, base |-> machine'.base]
      /\ machine'.phase \in Phases
      /\ machine'.since \in {machine.since, clock'} /\ machine'.firedAt \in {machine.firedAt, clock'}
      /\ emitted' \in {"none", "alert", "heartbeat", "recovered"}
      /\ emitted' = "recovered" =>
           machine.phase \in {"triggered", "clearing"} /\ machine'.phase = "normal"
      /\ emitted' = "none" /\ machine'.phase \in {"triggered", "clearing"}
           => machine.phase \in {"triggered", "clearing"}
      /\ alertsOut' = (emitted' \in {"alert", "heartbeat"} \/ (alertsOut /\ emitted' = "none"))
  BY DEF StepOK, Takes
<1>2. machine.since \in Nat /\ machine.firedAt \in Nat /\ clock \in Nat /\ 0 < clock
      /\ 0 < machine.since /\ machine.since <= clock /\ machine.firedAt <= clock
  BY DEF MonInv, MachineOK, WithinTime
<1>3. machine'.since \in Nat /\ machine'.firedAt \in Nat
      /\ 0 < machine'.since /\ machine'.since <= clock' /\ machine'.firedAt <= clock'
  BY <1>1, <1>2
<1>4. machine.phase \in {"triggered", "clearing"} => alertsOut
  BY DEF MonInv, AlertPrecedes
<1>5. AlertPrecedes' /\ alertsOut' \in BOOLEAN
  BY <1>1, <1>4, Zenon DEF AlertPrecedes
<1>6. MachineOK'
  BY <1>1, <1>3 DEF MachineOK
<1>7. emitted' = "recovered" => alertsOut
  BY <1>1, <1>4
<1> QED BY <1>1, <1>3, <1>5, <1>6, <1>7

(* An evaluation of a level keeps the invariant, and its events are earned. *)
LEMMA LevelInv ==
  ASSUME MonInv, NEW d \in 1 .. 2, Later(d), NEW x \in {"calm", "between", "crossed"},
         EvaluateLevel(x), metric' = metric
  PROVE  /\ MonInv'
         /\ emitted' = "alert" => highSince' # 0 /\ clock' - highSince' >= Sustained
         /\ emitted' = "recovered" => lowSince' # 0 /\ clock' - lowSince' >= Sustained
         /\ emitted' = "recovered" => alertsOut
<1> DEFINE res == LevelStep(machine, x, clock')
<1>1. clock \in Nat /\ clock' \in Nat /\ 0 < clock /\ clock < clock' /\ clock' <= MaxClock
  BY MonitorAssumption DEF MonInv, WithinTime, Later
<1>2. /\ StepOK(machine, res, clock')
      /\ res.event = "alert" =>
           machine.phase = "watching" /\ x = "crossed" /\ clock' - machine.since >= Sustained
      /\ res.event = "recovered" =>
           machine.phase = "clearing" /\ x # "crossed" /\ clock' - machine.since >= Sustained
      /\ res.to.phase = "watching" =>
           x = "crossed" /\ (res.to.since = clock'
                             \/ (machine.phase = "watching" /\ res.to.since = machine.since))
      /\ res.to.phase = "clearing" =>
           x # "crossed" /\ (res.to.since = clock'
                             \/ (machine.phase = "clearing" /\ res.to.since = machine.since))
  <2>1. /\ machine.phase \in Phases /\ machine.since \in Nat /\ machine.firedAt \in Nat
        /\ machine = [phase |-> machine.phase, since |-> machine.since,
                      firedAt |-> machine.firedAt, base |-> machine.base]
    BY DEF MonInv, MachineOK
  <2> HIDE DEF res
  <2> QED BY <1>1, <2>1, LevelStepOK DEF res
<1>3. /\ Takes(res) /\ Noted(x) /\ metric \in {"process", "system"}
      /\ machine' = res.to /\ emitted' = res.event
  BY DEF EvaluateLevel, Takes
<1> HIDE DEF res
<1>4. /\ MachineOK' /\ AlertPrecedes' /\ alertsOut' \in BOOLEAN
      /\ emitted' \in {"none", "alert", "heartbeat", "recovered"}
      /\ emitted' = "recovered" => alertsOut
      /\ 0 < machine'.since /\ machine'.since <= clock' /\ machine'.firedAt <= clock'
  BY <1>1, <1>2, <1>3, TakesKeeps
<1>5. /\ highSince \in Nat /\ highSince <= clock /\ lowSince \in Nat /\ lowSince <= clock
      /\ machine.since \in Nat /\ machine.since <= clock
      /\ machine.phase = "watching" => highSince # 0 /\ highSince <= machine.since
      /\ machine.phase = "clearing" => lowSince # 0 /\ lowSince <= machine.since
  BY <1>3 DEF MonInv, WithinTime, StreakIsWhole, MachineOK, Level
<1>6. /\ highSince' = IF x # "crossed" THEN 0 ELSE IF highSince = 0 THEN clock' ELSE highSince
      /\ lowSince' = IF x = "crossed" THEN 0 ELSE IF lowSince = 0 THEN clock' ELSE lowSince
  BY <1>3 DEF Noted
<1>7. /\ highSince' \in Nat /\ highSince' <= clock' /\ lowSince' \in Nat /\ lowSince' <= clock'
      /\ machine'.phase = "watching" => highSince' # 0 /\ highSince' <= machine'.since
      /\ machine'.phase = "clearing" => lowSince' # 0 /\ lowSince' <= machine'.since
  BY <1>1, <1>2, <1>3, <1>5, <1>6
<1>8. /\ emitted' = "alert" => highSince' # 0 /\ clock' - highSince' >= Sustained
      /\ emitted' = "recovered" => lowSince' # 0 /\ clock' - lowSince' >= Sustained
  <2>1. emitted' = "alert" => highSince' = highSince /\ highSince # 0 /\ highSince <= machine.since
                              /\ clock' - machine.since >= Sustained
    BY <1>2, <1>3, <1>5, <1>6
  <2>2. emitted' = "recovered" => lowSince' = lowSince /\ lowSince # 0 /\ lowSince <= machine.since
                                  /\ clock' - machine.since >= Sustained
    BY <1>2, <1>3, <1>5, <1>6
  <2>3. \A u \in Nat : u <= machine.since /\ clock' - machine.since >= Sustained
                       => clock' - u >= Sustained
    BY <1>1, <1>5, MonitorAssumption, LongerHeld
  <2> QED BY <1>5, <2>1, <2>2, <2>3
<1>9. WithinTime' /\ StreakIsWhole'
  BY <1>1, <1>4, <1>7 DEF WithinTime, StreakIsWhole
<1>10. MonInv'
  BY <1>4, <1>9 DEF MonInv
<1> QED BY <1>4, <1>8, <1>10

(* The other metrics keep it too; they follow no streak. *)
LEMMA OtherInv ==
  ASSUME MonInv, NEW d \in 1 .. 2, Later(d), NEW x, EvaluateGrowth(x) \/ EvaluateLoop(x),
         metric' = metric
  PROVE  MonInv' /\ (emitted' = "recovered" => alertsOut)
<1>1. clock \in Nat /\ clock' \in Nat /\ 0 < clock /\ clock < clock' /\ clock' <= MaxClock
  BY MonitorAssumption DEF MonInv, WithinTime, Later
<1>2. /\ machine.phase \in Phases /\ machine.since \in Nat /\ machine.firedAt \in Nat
      /\ machine = [phase |-> machine.phase, since |-> machine.since,
                    firedAt |-> machine.firedAt, base |-> machine.base]
  BY DEF MonInv, MachineOK
<1>3. PICK res : Takes(res) /\ StepOK(machine, res, clock')
  <2>1. CASE EvaluateGrowth(x)
    BY <1>1, <1>2, <2>1, MemStepOK, HandleStepOK DEF EvaluateGrowth
  <2>2. CASE EvaluateLoop(x)
    BY <1>1, <1>2, <2>2, LoopStepOK DEF EvaluateLoop
  <2> QED BY <2>1, <2>2
<1>4. /\ MachineOK' /\ AlertPrecedes' /\ alertsOut' \in BOOLEAN
      /\ emitted' \in {"none", "alert", "heartbeat", "recovered"}
      /\ emitted' = "recovered" => alertsOut
      /\ 0 < machine'.since /\ machine'.since <= clock' /\ machine'.firedAt <= clock'
  BY <1>1, <1>3, TakesKeeps
<1>5. ~Level' /\ highSince' = highSince /\ lowSince' = lowSince /\ metric \in {"mem", "handles", "loop"}
  BY DEF EvaluateGrowth, EvaluateLoop, Level
<1>6. WithinTime' /\ StreakIsWhole'
  BY <1>1, <1>4, <1>5 DEF WithinTime, StreakIsWhole, MonInv
<1> QED BY <1>4, <1>5, <1>6 DEF MonInv

(* A step keeps the invariant, and sends only what was earned. *)
LEMMA MonInvNext ==
  ASSUME MonInv, MonNext
  PROVE  /\ MonInv'
         /\ Level /\ emitted' = "alert" => highSince' # 0 /\ clock' - highSince' >= Sustained
         /\ Level /\ emitted' = "recovered" => lowSince' # 0 /\ clock' - lowSince' >= Sustained
         /\ emitted' = "recovered" => alertsOut
<1>1. PICK d \in 1 .. 2 : Evaluate(d) \/ NotSampled(d) \/ Vanished(d)
  BY DEF MonNext
<1>2. CASE Evaluate(d)
  <2>1. PICK x \in Samples : EvaluateLevel(x) \/ EvaluateGrowth(x) \/ EvaluateLoop(x)
    BY <1>2 DEF Evaluate
  <2>2. Later(d) /\ metric' = metric
    BY <1>2 DEF Evaluate
  <2>3. CASE EvaluateLevel(x)
    <3>1. x \in {"calm", "between", "crossed"}
      BY <2>1, <2>3 DEF Samples, EvaluateLevel
    <3> QED BY <2>2, <2>3, <3>1, LevelInv
  <2>4. CASE EvaluateGrowth(x) \/ EvaluateLoop(x)
    <3>1. ~Level
      BY <2>4 DEF EvaluateGrowth, EvaluateLoop, Level
    <3> QED BY <2>2, <2>4, <3>1, OtherInv
  <2> QED BY <2>1, <2>3, <2>4
<1>3. CASE NotSampled(d)
  <2>1. clock \in Nat /\ clock' \in Nat /\ clock < clock' /\ clock' <= MaxClock
    BY <1>3, MonitorAssumption DEF MonInv, WithinTime, NotSampled, Later
  <2>2. emitted' = "none" /\ UNCHANGED <<metric, machine, alertsOut, highSince, lowSince>>
    BY <1>3 DEF NotSampled
  <2>3. WithinTime'
    BY <2>1, <2>2 DEF MonInv, WithinTime, MachineOK
  <2> QED BY <2>2, <2>3 DEF MonInv, MachineOK, StreakIsWhole, Level, AlertPrecedes
<1>4. CASE Vanished(d)
  <2>1. clock \in Nat /\ clock' \in Nat /\ clock < clock' /\ clock' <= MaxClock /\ 0 < clock
    BY <1>4, MonitorAssumption DEF MonInv, WithinTime, Vanished, Later
  <2>2. /\ emitted' = "none" /\ metric' = metric /\ alertsOut' = FALSE
        /\ machine' = [phase |-> "normal", since |-> clock', firedAt |-> 0, base |-> 0]
        /\ highSince' = 0 /\ lowSince' = 0
    BY <1>4 DEF Vanished, Fresh
  <2>3. WithinTime' /\ MachineOK'
    BY <2>1, <2>2 DEF WithinTime, MachineOK, Phases
  <2> QED BY <2>2, <2>3 DEF MonInv, StreakIsWhole, AlertPrecedes
<1> QED BY <1>1, <1>2, <1>3, <1>4

(* A new machine is in its normal phase. *)
LEMMA MonInvInit == MonInit => MonInv
<1> SUFFICES ASSUME MonInit PROVE MonInv
  OBVIOUS
<1>1. /\ machine = [phase |-> "normal", since |-> 1, firedAt |-> 0, base |-> 0]
      /\ clock = 1 /\ highSince = 0 /\ lowSince = 0 /\ alertsOut = FALSE /\ emitted = "none"
      /\ metric \in Metrics
  BY DEF MonInit, Fresh
<1>2. MachineOK /\ WithinTime
  BY <1>1, MonitorAssumption DEF MachineOK, WithinTime, Phases
<1> QED BY <1>1, <1>2 DEF MonInv, StreakIsWhole, AlertPrecedes

(* The machine, and the two instants that judge it, are well-formed. *)
THEOREM MonTypeCorrect == MonSpec => []MonTypeOK
<1>1. MonInv => MonTypeOK
  <2> SUFFICES ASSUME MonInv PROVE MonTypeOK
    OBVIOUS
  <2>1. clock \in 1 .. MaxClock /\ machine.since \in 1 .. MaxClock
        /\ machine.firedAt \in 0 .. MaxClock /\ highSince \in 0 .. clock /\ lowSince \in 0 .. clock
    BY MonitorAssumption DEF MonInv, WithinTime, MachineOK
  <2> QED BY <2>1 DEF MonInv, MonTypeOK, MachineOK, Phases
<1>2. MonInv /\ [MonNext]_monVars => MonInv'
  <2>1. MonInv /\ UNCHANGED monVars => MonInv'
    BY DEF MonInv, monVars, MachineOK, WithinTime, StreakIsWhole, Level, AlertPrecedes
  <2> QED BY <2>1, MonInvNext
<1> QED BY <1>1, <1>2, MonInvInit, PTL DEF MonSpec

(* For any sustained time, heartbeat, window and restart count, and for any  *)
(* number of ticks that come late: no alert and no recovery of a level whose *)
(* samples do not say so throughout, and no recovery without its alert.      *)
THEOREM EventsAreAlwaysEarned == MonSpec => EventsAreEarned
<1> DEFINE Earned == LET level == metric \in {"process", "system"} IN
              /\ level /\ emitted' = "alert" => highSince' # 0 /\ clock' - highSince' >= Sustained
              /\ level /\ emitted' = "recovered" => lowSince' # 0 /\ clock' - lowSince' >= Sustained
              /\ emitted' = "recovered" => alertsOut
<1>1. MonInv /\ [MonNext]_monVars => MonInv'
  <2>1. MonInv /\ UNCHANGED monVars => MonInv'
    BY DEF MonInv, monVars, MachineOK, WithinTime, StreakIsWhole, Level, AlertPrecedes
  <2> QED BY <2>1, MonInvNext
<1>2. MonInv /\ [MonNext]_monVars => [Earned]_monVars
  BY MonInvNext DEF Level
<1> QED BY <1>1, <1>2, MonInvInit, PTL DEF MonSpec, EventsAreEarned

-----------------------------------------------------------------------------
(* Cron jobs *)

CronJob == [there : BOOLEAN, once : BOOLEAN, at : Nat, enabled : BOOLEAN, done : BOOLEAN, next : Nat]

(* What is removed, done or disabled has no next run, and a one-shot has no  *)
(* other than its own.                                                       *)
IsCronJob(r) ==
  /\ r \in CronJob
  /\ ~r.there => ~r.enabled
  /\ r.done => r.once /\ r.next = 0
  /\ r.once => r.next \in {0, r.at}

Timers == wakeAt \in Nat /\ dogAt \in Nat /\ time \in Nat /\ jumped \in BOOLEAN /\ skipped \in BOOLEAN

CronTyped ==
  /\ \A j \in JobIds : IsCronJob(jobs[j]) /\ IsCronJob(cronFile[j])
  /\ jobs \in [JobIds -> CronJob] /\ cronFile \in [JobIds -> CronJob]
  /\ inRun \subseteq JobIds /\ fired \in [JobIds -> Nat] /\ Timers

Scheduled(j) == jobs[j].enabled /\ jobs[j].next # 0

(* The timer is armed for the earliest run, or has fired; while it is not    *)
(* armed, the watchdog comes within its period after each run that waits.    *)
TimerComes ==
  /\ dogAt <= time + DogPeriod
  /\ \A j \in JobIds : Scheduled(j) =>
       /\ wakeAt # 0 => wakeAt <= jobs[j].next \/ wakeAt <= time
       /\ wakeAt = 0 /\ j \notin inRun => dogAt <= jobs[j].next + DogPeriod

(* So no run that waits is too late, while the clock goes evenly.            *)
InTime ==
  /\ ~jumped => \A j \in JobIds \ inRun : Scheduled(j) => time <= jobs[j].next + LateWindow
  /\ NothingSkipped

(* A one-shot that was started is running, or has no run left.               *)
StartedIsOver ==
  \A j \in JobIds : fired[j] # 0 =>
    /\ fired[j] = 1
    /\ jobs[j].there => \/ jobs[j].done
                        \/ /\ jobs[j].once /\ jobs[j].at <= time
                           /\ j \in inRun \/ jobs[j].next = 0

CronInv == CronTyped /\ TimerComes /\ InTime /\ StartedIsOver

(* The next run of a recurring job lies in the future, at most a period off. *)
LEMMA NextRunIsNext ==
  ASSUME NEW t \in Nat
  PROVE  NextRun(t) \in Nat /\ t < NextRun(t) /\ NextRun(t) <= t + Period
<1>1. \A p \in Nat \ {0} : t \div p \in Nat /\ p * ((t \div p) + 1) > t
                           /\ p * ((t \div p) + 1) <= t + p /\ p * ((t \div p) + 1) \in Nat
  OBVIOUS
<1> QED BY <1>1, CronAssumption DEF NextRun

(* Arming the timer: it fires at the earliest run, or now. *)
LEMMA Arms ==
  ASSUME NEW tab \in [JobIds -> CronJob], NEW now \in Nat, ScheduleWake(tab, now)
  PROVE  /\ wakeAt' \in Nat
         /\ \A j \in JobIds : tab[j].enabled /\ tab[j].next # 0 =>
              wakeAt' # 0 /\ (wakeAt' <= tab[j].next \/ wakeAt' <= now)
<1> DEFINE S == Timed(tab)
<1>1. S \subseteq Nat \ {0}
  BY DEF Timed, CronJob
<1>2. \A j \in JobIds : tab[j].enabled /\ tab[j].next # 0 => tab[j].next \in S
  BY DEF Timed
<1>3. wakeAt' = IF S = {} THEN 0 ELSE Max({now, Min(S)})
  BY DEF ScheduleWake
<1> HIDE DEF S
<1>4. CASE S = {}
  BY <1>2, <1>3, <1>4
<1>5. CASE S # {}
  <2>1. PICK m \in S : \A n \in S : m <= n
    BY <1>1, <1>5, Least
  <2>2. Min(S) \in S /\ \A n \in S : Min(S) <= n
    BY <2>1 DEF Min
  <2> DEFINE low == Min(S)
  <2> HIDE DEF low
  <2>3. low \in Nat /\ low # 0
    BY <1>1, <2>2 DEF low
  <2>4. Max({now, low}) \in {now, low} /\ now <= Max({now, low}) /\ low <= Max({now, low})
    <3>1. \E x \in {now, low} : \A y \in {now, low} : x >= y
      BY <2>3
    <3> QED BY <2>3, <3>1 DEF Max
  <2>5. wakeAt' \in {now, low} /\ low <= wakeAt'
    BY <1>3, <1>5, <2>4 DEF low
  <2>6. \A n \in S : low <= n /\ n \in Nat
    BY <1>1, <2>2 DEF low
  <2> QED BY <1>2, <2>3, <2>5, <2>6
<1> QED BY <1>4, <1>5

(* A job that is scheduled anew is due in the future. *)
LEMMA RecomputedOK ==
  ASSUME NEW r \in CronJob, time \in Nat, ~r.there => ~r.enabled, r.done => r.once
  PROVE  /\ IsCronJob(Recomputed(r))
         /\ Recomputed(r).next # 0 => time < Recomputed(r).next
         /\ Recomputed(r).there = r.there /\ Recomputed(r).once = r.once /\ Recomputed(r).at = r.at
         /\ r.once /\ r.at <= time => Recomputed(r).next = 0
<1>1. CASE ~r.enabled
  <2>1. Recomputed(r) = [r EXCEPT !.next = 0]
    BY <1>1 DEF Recomputed
  <2> QED BY <1>1, <2>1 DEF IsCronJob, CronJob
<1>2. CASE r.enabled /\ r.once
  <2> DEFINE n == IF r.at > time THEN r.at ELSE 0
             e == r.at <= time
  <2>1. Recomputed(r) = [r EXCEPT !.next = n, !.done = e]
    BY <1>2 DEF Recomputed
  <2>2. n \in Nat /\ n \in {0, r.at} /\ (n # 0 => time < n)
    BY DEF CronJob
  <2>3. e \in BOOLEAN /\ (e => n = 0)
    BY DEF CronJob
  <2> HIDE DEF n, e
  <2>4. Recomputed(r) \in CronJob
    BY <2>1, <2>2, <2>3 DEF CronJob
  <2>5. /\ Recomputed(r).next = n /\ Recomputed(r).done = e
        /\ Recomputed(r).there = r.there /\ Recomputed(r).once = r.once
        /\ Recomputed(r).at = r.at /\ Recomputed(r).enabled = r.enabled
    BY <2>1 DEF CronJob
  <2>6. r.at <= time => n = 0
    BY DEF n, CronJob
  <2> QED BY <1>2, <2>2, <2>3, <2>4, <2>5, <2>6 DEF IsCronJob
<1>3. CASE r.enabled /\ ~r.once
  <2>1. Recomputed(r) = [r EXCEPT !.next = NextRun(time), !.done = FALSE]
    BY <1>3 DEF Recomputed
  <2>2. NextRun(time) \in Nat /\ time < NextRun(time)
    BY NextRunIsNext
  <2>3. Recomputed(r) \in CronJob
    BY <2>1, <2>2 DEF CronJob
  <2>4. /\ Recomputed(r).next = NextRun(time) /\ Recomputed(r).done = FALSE
        /\ Recomputed(r).there = r.there /\ Recomputed(r).once = r.once
        /\ Recomputed(r).at = r.at /\ Recomputed(r).enabled = r.enabled
    BY <2>1 DEF CronJob
  <2> QED BY <1>3, <2>2, <2>3, <2>4 DEF IsCronJob
<1> QED BY <1>1, <1>2, <1>3 DEF CronJob

(* What a call and the end of a run have in common: the table changes only    *)
(* to runs in the future, and the timer is armed for it.                      *)
LEMMA RearmedInv ==
  ASSUME CronInv, ScheduleWake(jobs', time), Calm,
         jobs' \in [JobIds -> CronJob], \A j \in JobIds : IsCronJob(jobs'[j]),
         cronFile' = jobs' \/ cronFile' = cronFile,
         inRun' \subseteq JobIds, fired' \in [JobIds -> Nat], StartedIsOver',
         \A j \in JobIds \ inRun' :
            \/ jobs'[j] = jobs[j] /\ j \notin inRun
            \/ jobs'[j].enabled /\ jobs'[j].next # 0 => time < jobs'[j].next
  PROVE  CronInv'
<1>1. /\ dogAt' = dogAt /\ time' = time /\ jumped' = jumped /\ skipped' = skipped
      /\ time \in Nat /\ dogAt \in Nat
  BY DEF Calm, CronInv, CronTyped, Timers
<1>2. /\ wakeAt' \in Nat
      /\ \A j \in JobIds : jobs'[j].enabled /\ jobs'[j].next # 0 =>
           wakeAt' # 0 /\ (wakeAt' <= jobs'[j].next \/ wakeAt' <= time)
  BY <1>1, Arms
<1>3. Timers'
  BY <1>1, <1>2 DEF CronInv, CronTyped, Timers
<1>4. CronTyped'
  BY <1>3 DEF CronInv, CronTyped
<1>5. TimerComes'
  BY <1>1, <1>2 DEF CronInv, TimerComes, Scheduled
<1>6. InTime'
  <2>1. NothingSkipped'
    BY <1>1 DEF CronInv, InTime, NothingSkipped
  <2>2. ASSUME ~jumped', NEW j \in JobIds \ inRun', Scheduled(j)'
        PROVE  time' <= jobs'[j].next + LateWindow
    <3>1. jobs'[j].next \in Nat /\ jobs'[j].next # 0
      BY <2>2 DEF CronJob, Scheduled
    <3>2. CASE jobs'[j] = jobs[j] /\ j \notin inRun
      BY <1>1, <2>2, <3>2 DEF CronInv, InTime, Scheduled
    <3>3. CASE time < jobs'[j].next
      BY <1>1, <3>1, <3>3, CronAssumption
    <3> QED BY <2>2, <3>1, <3>2, <3>3 DEF Scheduled
  <2> QED BY <2>1, <2>2 DEF InTime
<1> QED BY <1>4, <1>5, <1>6 DEF CronInv

(* A job that is defined, removed, enabled or disabled *)
LEMMA DefineInv ==
  ASSUME CronInv, NEW j \in JobIds, Define(j)
  PROVE  CronInv'
<1>1. PICK s \in Schedules, on \in BOOLEAN : jobs' = [jobs EXCEPT ![j] = Defined(s[1], s[2], on)]
  BY DEF Define
<1>2. /\ fired' = [fired EXCEPT ![j] = 0] /\ cronFile' = jobs' /\ inRun' = inRun
      /\ ScheduleWake(jobs', time) /\ Calm /\ time' = time
  BY DEF Define, Saves, Calm
<1>3. time \in Nat /\ jobs \in [JobIds -> CronJob] /\ fired \in [JobIds -> Nat]
      /\ \A i \in JobIds : IsCronJob(jobs[i])
  BY DEF CronInv, CronTyped, Timers
<1>4. s[1] \in BOOLEAN /\ s[2] \in Nat
  <2>1. s \in {<<FALSE, 0>>} \/ \E t \in time + 1 .. MaxTime : s = <<TRUE, t>>
    BY DEF Schedules
  <2>2. CASE s = <<FALSE, 0>>
    BY <2>2
  <2>3. CASE \E t \in time + 1 .. MaxTime : s = <<TRUE, t>>
    <3>1. PICK t \in time + 1 .. MaxTime : s = <<TRUE, t>>
      BY <2>3
    <3>2. t \in Nat
      BY <1>3, CronAssumption
    <3> QED BY <3>1, <3>2
  <2> QED BY <2>1, <2>2, <2>3
<1> DEFINE r == [there |-> TRUE, once |-> s[1], at |-> s[2], enabled |-> on,
                 done |-> FALSE, next |-> 0]
<1>5. r \in CronJob /\ r.there /\ ~r.done
  BY <1>4 DEF CronJob
<1>6. Defined(s[1], s[2], on) = Recomputed(r)
  BY DEF Defined
<1> HIDE DEF r
<1>7. jobs'[j] = Recomputed(r) /\ IsCronJob(jobs'[j]) /\ (jobs'[j].next # 0 => time < jobs'[j].next)
  BY <1>1, <1>3, <1>5, <1>6, RecomputedOK
<1>8. \A i \in JobIds : i # j => jobs'[i] = jobs[i] /\ fired'[i] = fired[i]
  BY <1>1, <1>2, <1>3
<1>9. jobs' \in [JobIds -> CronJob] /\ fired' \in [JobIds -> Nat] /\ fired'[j] = 0
  BY <1>1, <1>2, <1>3, <1>7 DEF IsCronJob
<1>10. StartedIsOver'
  BY <1>2, <1>8, <1>9 DEF CronInv, StartedIsOver
<1> QED BY <1>2, <1>3, <1>7, <1>8, <1>9, <1>10, RearmedInv DEF CronInv, CronTyped

(* A job that is removed while it runs is no more. *)
LEMMA RemoveInv ==
  ASSUME CronInv, NEW j \in JobIds, RemoveJob(j)
  PROVE  CronInv'
<1>1. /\ jobs' = [jobs EXCEPT ![j] = Absent] /\ cronFile' = jobs' /\ inRun' = inRun /\ fired' = fired
      /\ ScheduleWake(jobs', time) /\ Calm /\ time' = time
  BY DEF RemoveJob, Saves, Calm, ledger
<1>2. /\ jobs \in [JobIds -> CronJob] /\ fired \in [JobIds -> Nat] /\ inRun \subseteq JobIds
      /\ \A i \in JobIds : IsCronJob(jobs[i])
  BY DEF CronInv, CronTyped
<1>3. IsCronJob(Absent) /\ Absent \in CronJob /\ Absent.next = 0 /\ ~Absent.there
  BY DEF Absent, IsCronJob, CronJob
<1>4. jobs'[j] = Absent /\ jobs' \in [JobIds -> CronJob] /\ \A i \in JobIds : i # j => jobs'[i] = jobs[i]
  BY <1>1, <1>2, <1>3
<1>5. StartedIsOver'
  BY <1>1, <1>3, <1>4 DEF CronInv, StartedIsOver
<1> QED BY <1>1, <1>2, <1>3, <1>4, <1>5, RearmedInv

(* A one-shot that is enabled again after its time has no run left. *)
LEMMA EnableInv ==
  ASSUME CronInv, NEW j \in JobIds, NEW on \in BOOLEAN, SetEnabled(j, on)
  PROVE  CronInv'
<1> DEFINE r == [jobs[j] EXCEPT !.enabled = on]
<1>1. /\ jobs[j].there /\ ~jobs[j].done
      /\ jobs' = [jobs EXCEPT ![j] = Recomputed(r)] /\ cronFile' = jobs' /\ inRun' = inRun
      /\ fired' = fired /\ ScheduleWake(jobs', time) /\ Calm /\ time' = time
  BY DEF SetEnabled, Saves, Calm
<1>2. /\ jobs \in [JobIds -> CronJob] /\ fired \in [JobIds -> Nat] /\ inRun \subseteq JobIds
      /\ time \in Nat /\ \A i \in JobIds : IsCronJob(jobs[i])
  BY DEF CronInv, CronTyped, Timers
<1>3. r \in CronJob /\ r.there /\ ~r.done /\ r.once = jobs[j].once /\ r.at = jobs[j].at
  BY <1>1, <1>2 DEF CronJob
<1> HIDE DEF r
<1>4. /\ jobs'[j] = Recomputed(r) /\ IsCronJob(jobs'[j]) /\ (jobs'[j].next # 0 => time < jobs'[j].next)
      /\ jobs'[j].once = jobs[j].once /\ jobs'[j].at = jobs[j].at
      /\ (jobs[j].once /\ jobs[j].at <= time => jobs'[j].next = 0)
  BY <1>1, <1>2, <1>3, RecomputedOK
<1>5. jobs' \in [JobIds -> CronJob] /\ \A i \in JobIds : i # j => jobs'[i] = jobs[i]
  BY <1>1, <1>2, <1>4 DEF IsCronJob
<1>6. StartedIsOver'
  BY <1>1, <1>4, <1>5 DEF CronInv, StartedIsOver
<1> QED BY <1>1, <1>2, <1>4, <1>5, <1>6, RearmedInv

(* The end of a run moves a recurring job on, and completes a one-shot. *)
LEMMA FinishInv ==
  ASSUME CronInv, NEW j \in JobIds, Finish(j)
  PROVE  CronInv'
<1> DEFINE r == IF ~jobs[j].there THEN jobs[j]
                ELSE IF jobs[j].once THEN [jobs[j] EXCEPT !.done = TRUE, !.next = 0]
                ELSE Recomputed(jobs[j])
<1>0. /\ jobs \in [JobIds -> CronJob] /\ fired \in [JobIds -> Nat] /\ inRun \subseteq JobIds
      /\ time \in Nat /\ \A i \in JobIds : IsCronJob(jobs[i])
  BY DEF CronInv, CronTyped, Timers
<1>1. /\ jobs' = [jobs EXCEPT ![j] = r] /\ inRun' = inRun \ {j}
      /\ (cronFile' = jobs' \/ cronFile' = cronFile)
      /\ fired' = fired /\ ScheduleWake(jobs', time) /\ Calm /\ time' = time
  BY <1>0 DEF Finish, Saves, Calm
<1>2. /\ IsCronJob(r) /\ r.there = jobs[j].there /\ r.once = jobs[j].once /\ r.at = jobs[j].at
      /\ (r.enabled /\ r.next # 0 => time < r.next)
      /\ (r.there /\ r.once => r.done)
  <2>1. CASE ~jobs[j].there
    BY <1>0, <2>1 DEF IsCronJob
  <2>2. CASE jobs[j].there /\ jobs[j].once
    BY <1>0, <2>2 DEF IsCronJob, CronJob
  <2>3. CASE jobs[j].there /\ ~jobs[j].once
    <3>1. /\ jobs[j] \in CronJob /\ r = Recomputed(jobs[j]) /\ (jobs[j].done => jobs[j].once)
          /\ (~jobs[j].there => ~jobs[j].enabled)
      BY <1>0, <2>3 DEF IsCronJob
    <3> HIDE DEF r
    <3> QED BY <1>0, <2>3, <3>1, RecomputedOK
  <2> QED BY <2>1, <2>2, <2>3 DEF IsCronJob, CronJob
<1> HIDE DEF r
<1>4. jobs' \in [JobIds -> CronJob] /\ jobs'[j] = r /\ \A i \in JobIds : i # j => jobs'[i] = jobs[i]
  BY <1>0, <1>1, <1>2 DEF IsCronJob
<1>5. StartedIsOver'
  <2>1. ASSUME NEW i \in JobIds, i # j, fired[i] # 0
        PROVE  /\ fired[i] = 1
               /\ jobs[i].there => \/ jobs[i].done
                                   \/ /\ jobs[i].once /\ jobs[i].at <= time
                                      /\ i \in inRun' \/ jobs[i].next = 0
    BY <1>1, <2>1 DEF CronInv, StartedIsOver
  <2>2. fired[j] # 0 => fired[j] = 1 /\ (r.there => r.done)
    BY <1>0, <1>2 DEF CronInv, StartedIsOver, IsCronJob
  <2> QED BY <1>1, <1>4, <2>1, <2>2 DEF StartedIsOver
<1> QED BY <1>0, <1>1, <1>2, <1>4, <1>5, RearmedInv

(* A due run that starts leaves the timer unarmed until it ends; what waits   *)
(* beside it lies in the future.                                             *)
LEMMA WakeInv ==
  ASSUME CronInv, Wake
  PROVE  CronInv'
<1>0. /\ jobs \in [JobIds -> CronJob] /\ fired \in [JobIds -> Nat] /\ inRun \subseteq JobIds
      /\ time \in Nat /\ dogAt \in Nat /\ \A i \in JobIds : IsCronJob(jobs[i])
  BY DEF CronInv, CronTyped, Timers
<1> DEFINE starts == Due \ TooLate
<1>1. /\ wakeAt # 0 /\ wakeAt <= time
      /\ jobs' = [j \in JobIds |-> IF j \in TooLate THEN Recomputed(jobs[j]) ELSE jobs[j]]
      /\ skipped' = (skipped \/ TooLate # {})
      /\ inRun' = inRun \cup starts
      /\ fired' = [j \in JobIds |-> IF j \in starts /\ jobs[j].once THEN fired[j] + 1 ELSE fired[j]]
      /\ \/ starts = {} /\ cronFile' = jobs' /\ ScheduleWake(jobs', time)
         \/ starts # {} /\ cronFile' = cronFile /\ wakeAt' = 0
      /\ dogAt' = dogAt /\ time' = time /\ jumped' = jumped
  BY DEF Wake, Saves
<1>2. /\ TooLate \subseteq Due /\ Due \subseteq JobIds
      /\ \A j \in Due : jobs[j].enabled /\ jobs[j].next # 0 /\ jobs[j].next <= time /\ j \notin inRun
      /\ \A j \in JobIds \ Due : jobs[j].enabled /\ jobs[j].next # 0 /\ j \notin inRun
                                 => time < jobs[j].next
  BY <1>0 DEF TooLate, Due, IsCronJob, CronJob
<1>3. \A j \in TooLate : /\ IsCronJob(jobs'[j]) /\ (jobs'[j].next # 0 => time < jobs'[j].next)
                         /\ jobs'[j].there = jobs[j].there /\ jobs'[j].once = jobs[j].once
                         /\ jobs'[j].at = jobs[j].at
  BY <1>0, <1>1, <1>2, RecomputedOK DEF IsCronJob
<1>4. \A j \in JobIds \ TooLate : jobs'[j] = jobs[j]
  BY <1>1
<1>5. jobs' \in [JobIds -> CronJob] /\ \A j \in JobIds : IsCronJob(jobs'[j])
  <2>1. \A j \in JobIds : IsCronJob(jobs'[j])
    BY <1>0, <1>3, <1>4
  <2>2. DOMAIN jobs' = JobIds /\ jobs' = [j \in JobIds |-> jobs'[j]]
    BY <1>1
  <2> QED BY <2>1, <2>2 DEF IsCronJob
<1>6. fired' \in [JobIds -> Nat]
  BY <1>0, <1>1
<1>7. ~jumped => TooLate = {}
  BY <1>0, <1>2, CronAssumption DEF CronInv, InTime, TooLate, Scheduled, IsCronJob, CronJob
<1>8. StartedIsOver'
  <2> SUFFICES ASSUME NEW j \in JobIds, fired'[j] # 0
               PROVE  /\ fired'[j] = 1
                      /\ jobs'[j].there => \/ jobs'[j].done
                                           \/ /\ jobs'[j].once /\ jobs'[j].at <= time
                                              /\ j \in inRun' \/ jobs'[j].next = 0
    BY <1>1 DEF StartedIsOver
  <2>1. fired[j] # 0 => /\ fired[j] = 1
                        /\ jobs[j].there => \/ jobs[j].done
                                            \/ /\ jobs[j].once /\ jobs[j].at <= time
                                               /\ j \in inRun \/ jobs[j].next = 0
    BY DEF CronInv, StartedIsOver
  <2>2. CASE j \in starts /\ jobs[j].once
    <3>1. /\ jobs[j].there /\ jobs[j].next # 0 /\ jobs[j].next <= time /\ j \notin inRun
          /\ ~jobs[j].done
      BY <1>0, <1>2, <2>2 DEF IsCronJob
    <3>2. jobs[j].next = jobs[j].at
      BY <1>0, <2>2, <3>1 DEF IsCronJob
    <3>3. fired[j] = 0 /\ fired'[j] = 1
      BY <1>0, <1>1, <2>1, <2>2, <3>1
    <3> QED BY <1>1, <1>4, <2>2, <3>1, <3>2, <3>3
  <2>3. CASE ~(j \in starts /\ jobs[j].once)
    <3>1. fired'[j] = fired[j]
      BY <1>1, <2>3
    <3>2. CASE j \in TooLate
      BY <1>0, <1>2, <1>3, <2>1, <3>1, <3>2 DEF IsCronJob
    <3>3. CASE j \notin TooLate
      BY <1>1, <1>4, <2>1, <3>1, <3>3
    <3> QED BY <3>2, <3>3
  <2> QED BY <2>2, <2>3
<1>9. \A j \in JobIds \ inRun' : jobs'[j].enabled /\ jobs'[j].next # 0 => time < jobs'[j].next
  BY <1>1, <1>2, <1>3, <1>4
<1>10. wakeAt' \in Nat
  BY <1>0, <1>1, <1>5, Arms
<1>11. CronTyped'
  <2>1. skipped' \in BOOLEAN
    BY <1>1
  <2>2. Timers'
    BY <1>1, <1>10, <2>1 DEF CronInv, CronTyped, Timers
  <2> QED BY <1>0, <1>1, <1>2, <1>5, <1>6, <2>2 DEF CronInv, CronTyped
<1>12. TimerComes'
  <2>1. dogAt' <= time' + DogPeriod
    BY <1>1 DEF CronInv, TimerComes
  <2>2. CASE starts = {}
    <3>1. \A j \in JobIds : jobs'[j].enabled /\ jobs'[j].next # 0 =>
              wakeAt' # 0 /\ (wakeAt' <= jobs'[j].next \/ wakeAt' <= time)
      BY <1>0, <1>1, <1>5, <2>2, Arms
    <3> QED BY <1>1, <2>1, <3>1 DEF TimerComes, Scheduled
  <2>3. CASE starts # {}
    <3>1. \A j \in JobIds \ inRun' : Scheduled(j)' => dogAt' <= jobs'[j].next + DogPeriod
      <4> TAKE j \in JobIds \ inRun'
      <4>1. jobs'[j].next \in Nat
        BY <1>5 DEF CronJob
      <4>2. Scheduled(j)' => time < jobs'[j].next
        BY <1>9 DEF Scheduled
      <4> QED BY <1>0, <1>1, <2>1, <4>1, <4>2, CronAssumption
    <3>2. wakeAt' = 0
      BY <1>1, <2>3
    <3> QED BY <2>1, <3>1, <3>2 DEF TimerComes
  <2> QED BY <2>2, <2>3
<1>13. InTime'
  <2>1. \A j \in JobIds \ inRun' : Scheduled(j)' => time' <= jobs'[j].next + LateWindow
    <3> TAKE j \in JobIds \ inRun'
    <3>1. jobs'[j].next \in Nat
      BY <1>5 DEF CronJob
    <3>2. Scheduled(j)' => time < jobs'[j].next
      BY <1>9 DEF Scheduled
    <3> QED BY <1>0, <1>1, <3>1, <3>2, CronAssumption
  <2>2. NothingSkipped'
    BY <1>1, <1>7 DEF CronInv, InTime, NothingSkipped
  <2> QED BY <2>1, <2>2 DEF InTime
<1> QED BY <1>8, <1>11, <1>12, <1>13 DEF CronInv

(* The watchdog arms the timer for the table as it is. *)
LEMMA WatchdogInv ==
  ASSUME CronInv, Watchdog
  PROVE  CronInv'
<1>1. /\ dogAt' = time + DogPeriod /\ ScheduleWake(jobs, time)
      /\ UNCHANGED <<jobs, cronFile, inRun, time, jumped, skipped, fired>>
  BY DEF Watchdog, DogArms, ledger
<1>2. time \in Nat /\ jobs \in [JobIds -> CronJob]
  BY DEF CronInv, CronTyped, Timers
<1>3. /\ wakeAt' \in Nat
      /\ \A j \in JobIds : jobs[j].enabled /\ jobs[j].next # 0 =>
           wakeAt' # 0 /\ (wakeAt' <= jobs[j].next \/ wakeAt' <= time)
  BY <1>1, <1>2, Arms
<1>4. dogAt' \in Nat /\ dogAt' <= time' + DogPeriod
  BY <1>1, <1>2, CronAssumption
<1>5. TimerComes'
  BY <1>1, <1>3, <1>4 DEF TimerComes, Scheduled
<1>6. CronTyped'
  BY <1>1, <1>3, <1>4 DEF CronInv, CronTyped, Timers
<1> QED BY <1>1, <1>5, <1>6 DEF CronInv, InTime, Scheduled, NothingSkipped, StartedIsOver

(* While time goes on by one, nothing that waits becomes too late: the timer  *)
(* would have fired first, or the watchdog is still to come.                  *)
LEMMA TickInv ==
  ASSUME CronInv, Tick
  PROVE  CronInv'
<1>1. /\ dogAt > time /\ ~(wakeAt # 0 /\ wakeAt <= time /\ Due # {}) /\ time' = time + 1
      /\ UNCHANGED <<jobs, cronFile, inRun, wakeAt, dogAt, jumped, skipped, fired>>
  BY DEF Tick, ledger
<1>2. /\ time \in Nat /\ dogAt \in Nat /\ wakeAt \in Nat /\ jobs \in [JobIds -> CronJob]
      /\ DogPeriod \in Nat /\ LateWindow \in Nat /\ DogPeriod <= LateWindow
  BY CronAssumption DEF CronInv, CronTyped, Timers
<1>3. CronTyped'
  BY <1>1, <1>2 DEF CronInv, CronTyped, Timers
<1>4. TimerComes'
  <2>1. dogAt' <= time' + DogPeriod
    BY <1>1, <1>2 DEF CronInv, TimerComes
  <2>2. wakeAt <= time => wakeAt' <= time'
    BY <1>1, <1>2
  <2> QED BY <1>1, <2>1, <2>2 DEF CronInv, TimerComes, Scheduled
<1>5. InTime'
  <2>1. ASSUME ~jumped, NEW j \in JobIds \ inRun, Scheduled(j)
        PROVE  time + 1 <= jobs[j].next + LateWindow
    <3>1. jobs[j].next \in Nat
      BY <1>2 DEF CronJob
    <3>2. jobs[j].next <= time => j \in Due
      BY <2>1 DEF Due, Scheduled
    <3>3. /\ wakeAt # 0 => wakeAt <= jobs[j].next \/ wakeAt <= time
          /\ wakeAt = 0 => dogAt <= jobs[j].next + DogPeriod
      BY <2>1 DEF CronInv, TimerComes
    <3>4. CASE time < jobs[j].next
      BY <1>2, <3>1, <3>4
    <3>5. CASE jobs[j].next <= time
      <4>1. wakeAt = 0
        BY <1>1, <1>2, <3>1, <3>2, <3>3, <3>5
      <4> QED BY <1>1, <1>2, <3>1, <3>3, <4>1
    <3> QED BY <1>2, <3>1, <3>4, <3>5
  <2> QED BY <1>1, <2>1 DEF CronInv, InTime, Scheduled, NothingSkipped
<1>6. StartedIsOver'
  <2>1. \A j \in JobIds : jobs[j].at \in Nat
    BY <1>2 DEF CronJob
  <2> QED BY <1>1, <1>2, <2>1 DEF CronInv, StartedIsOver
<1> QED BY <1>3, <1>4, <1>5, <1>6 DEF CronInv

(* A jump makes runs late, and is noted. *)
LEMMA JumpInv ==
  ASSUME CronInv, Jump
  PROVE  CronInv'
<1>1. /\ jumped' = TRUE /\ time' = time + LateWindow + 1
      /\ UNCHANGED <<jobs, cronFile, inRun, wakeAt, dogAt, skipped, fired>>
  BY DEF Jump, ledger
<1>2. /\ time \in Nat /\ dogAt \in Nat /\ wakeAt \in Nat /\ jobs \in [JobIds -> CronJob]
      /\ DogPeriod \in Nat /\ LateWindow \in Nat
  BY CronAssumption DEF CronInv, CronTyped, Timers
<1>3. CronTyped'
  BY <1>1, <1>2 DEF CronInv, CronTyped, Timers
<1>4. TimerComes'
  <2>1. dogAt' <= time' + DogPeriod
    BY <1>1, <1>2 DEF CronInv, TimerComes
  <2>2. wakeAt <= time => wakeAt' <= time'
    BY <1>1, <1>2
  <2> QED BY <1>1, <2>1, <2>2 DEF CronInv, TimerComes, Scheduled
<1>5. InTime'
  BY <1>1 DEF InTime, NothingSkipped
<1>6. StartedIsOver'
  <2>1. \A j \in JobIds : jobs[j].at \in Nat
    BY <1>2 DEF CronJob
  <2> QED BY <1>1, <1>2, <2>1 DEF CronInv, StartedIsOver
<1> QED BY <1>3, <1>4, <1>5, <1>6 DEF CronInv

(* A daemon that starts schedules from now, and drops a one-shot only when it *)
(* is too late by the file.                                                  *)
LEMMA RestartedInv ==
  ASSUME CronInv, Restarted
  PROVE  CronInv'
<1>1. /\ jobs' = [j \in JobIds |-> Loaded(cronFile[j])] /\ cronFile' = jobs' /\ inRun' = {}
      /\ ScheduleWake(jobs', time) /\ dogAt' = time + DogPeriod
      /\ fired' = [j \in JobIds |-> IF cronFile[j].done THEN fired[j] ELSE 0]
      /\ UNCHANGED <<time, jumped, skipped>>
  BY DEF Restarted, Saves
<1>2. time \in Nat /\ \A j \in JobIds : IsCronJob(cronFile[j]) /\ cronFile[j] \in CronJob
  BY DEF CronInv, CronTyped, Timers
<1>3. ASSUME NEW j \in JobIds
      PROVE  /\ IsCronJob(jobs'[j]) /\ jobs'[j] \in CronJob
             /\ jobs'[j].enabled /\ jobs'[j].next # 0 => time <= jobs'[j].next + LateWindow
  <2> DEFINE r == cronFile[j]
  <2>0. IsCronJob(r) /\ r \in CronJob /\ jobs'[j] = Loaded(r)
    BY <1>1, <1>2
  <2> HIDE DEF r
  <2>1. CASE ~r.enabled \/ r.done \/ ~r.there
    <3>1. jobs'[j] = r
      BY <2>0, <2>1 DEF Loaded
    <3> QED BY <2>0, <2>1, <3>1 DEF IsCronJob
  <2>2. CASE r.enabled /\ ~r.done /\ r.there /\ ~r.once
    <3>1. jobs'[j] = [r EXCEPT !.next = NextRun(time)]
      BY <2>0, <2>2 DEF Loaded
    <3>2. NextRun(time) \in Nat /\ time < NextRun(time)
      BY <1>2, NextRunIsNext
    <3>3. jobs'[j] \in CronJob /\ jobs'[j].next = NextRun(time) /\ jobs'[j].there /\ ~jobs'[j].once
          /\ ~jobs'[j].done
      BY <2>0, <2>2, <3>1, <3>2 DEF CronJob
    <3> QED BY <1>2, <3>2, <3>3, CronAssumption DEF IsCronJob
  <2>3. CASE r.enabled /\ ~r.done /\ r.there /\ r.once /\ r.at + LateWindow < time
    <3> DEFINE r1 == [r EXCEPT !.done = TRUE]
    <3>1. jobs'[j] = [r1 EXCEPT !.next = 0]
      BY <2>0, <2>3 DEF Loaded
    <3>2. r1 \in CronJob /\ r1.there = r.there /\ r1.once = r.once
      BY <2>0 DEF CronJob
    <3> HIDE DEF r1
    <3>3. jobs'[j] \in CronJob /\ jobs'[j].next = 0 /\ jobs'[j].there = r1.there
          /\ jobs'[j].once = r1.once
      BY <3>1, <3>2 DEF CronJob
    <3>4. jobs'[j].there /\ jobs'[j].once
      BY <2>3, <3>2, <3>3
    <3> QED BY <3>3, <3>4 DEF IsCronJob
  <2>4. CASE r.enabled /\ ~r.done /\ r.there /\ r.once /\ ~(r.at + LateWindow < time)
    <3>1. jobs'[j] = r
      BY <2>0, <2>4 DEF Loaded
    <3>2. r.at \in Nat /\ (r.next # 0 => r.next = r.at)
      BY <2>0, <2>4 DEF IsCronJob, CronJob
    <3>3. time <= r.at + LateWindow
      BY <1>2, <2>4, <3>2, CronAssumption
    <3> QED BY <2>0, <3>1, <3>2, <3>3
  <2> QED BY <2>0, <2>1, <2>2, <2>3, <2>4 DEF CronJob
<1>4. jobs' \in [JobIds -> CronJob]
  BY <1>1, <1>3
<1>5. /\ wakeAt' \in Nat
      /\ \A j \in JobIds : jobs'[j].enabled /\ jobs'[j].next # 0 =>
           wakeAt' # 0 /\ (wakeAt' <= jobs'[j].next \/ wakeAt' <= time)
  BY <1>1, <1>2, <1>4, Arms
<1>6. dogAt' \in Nat /\ dogAt' <= time' + DogPeriod
  BY <1>1, <1>2, CronAssumption
<1>7. CronTyped'
  <2>1. fired' \in [JobIds -> Nat]
    BY <1>1 DEF CronInv, CronTyped
  <2> QED BY <1>1, <1>3, <1>4, <1>5, <1>6, <2>1 DEF CronInv, CronTyped, Timers
<1>8. TimerComes'
  BY <1>1, <1>5, <1>6 DEF TimerComes, Scheduled
<1>9. InTime'
  BY <1>1, <1>3 DEF CronInv, InTime, Scheduled, NothingSkipped
<1>10. StartedIsOver'
  <2> SUFFICES ASSUME NEW j \in JobIds, fired'[j] # 0 PROVE fired'[j] = 1 /\ jobs'[j].done
    BY DEF StartedIsOver
  <2>1. cronFile[j].done /\ fired'[j] = fired[j]
    BY <1>1
  <2>2. jobs'[j] = cronFile[j]
    BY <1>1, <2>1 DEF Loaded
  <2> QED BY <2>1, <2>2 DEF CronInv, StartedIsOver
<1> QED BY <1>7, <1>8, <1>9, <1>10 DEF CronInv

(* Every call, wake, tick, jump and restart keeps the invariant. *)
LEMMA CronInvNext == CronInv /\ [CronNext]_cronVars => CronInv'
<1> SUFFICES ASSUME CronInv, [CronNext]_cronVars PROVE CronInv'
  OBVIOUS
<1>1. ASSUME NEW j \in JobIds, Trigger(j) PROVE CronInv'
  <2>1. /\ inRun' = inRun \cup {j} /\ (cronFile' = cronFile \/ cronFile' = jobs)
        /\ UNCHANGED <<jobs, wakeAt, fired, dogAt, time, jumped, skipped>>
    BY <1>1 DEF Trigger, Calm, Saves
  <2> QED BY <2>1 DEF CronInv, CronTyped, Timers, TimerComes, InTime, NothingSkipped, StartedIsOver,
                      Scheduled
<1>2. CASE UNCHANGED cronVars
  BY <1>2 DEF cronVars, ledger, CronInv, CronTyped, Timers, TimerComes, InTime, NothingSkipped, StartedIsOver,
              Scheduled
<1> QED BY <1>1, <1>2, DefineInv, RemoveInv, EnableInv, FinishInv, WakeInv, WatchdogInv, TickInv,
           JumpInv, RestartedInv DEF CronNext

(* At first there are no jobs, and the watchdog is a period away. *)
LEMMA CronInvInit == CronInit => CronInv
<1> SUFFICES ASSUME CronInit PROVE CronInv
  OBVIOUS
<1>1. Absent \in CronJob /\ IsCronJob(Absent) /\ ~Absent.enabled /\ ~Absent.there
  BY DEF Absent, CronJob, IsCronJob
<1>2. CronTyped
  BY <1>1, CronAssumption DEF CronInit, CronTyped, Timers
<1> QED BY <1>1, <1>2, CronAssumption DEF CronInit, CronInv, TimerComes, InTime, NothingSkipped,
                                          StartedIsOver, Scheduled

(* What a one-shot that is completed has to show for it. *)
Shown(r, j) == r.once /\ r.done => fired[j] # 0 \/ excuse[j] # "none"

(* The table and the file show it, and a run of the schedule has been counted. *)
Accounts ==
  /\ runOf \in [JobIds -> {"none", "schedule", "hand", "redefined"}]
  /\ excuse \in [JobIds -> {"none", "late", "missed", "hand", "redefined"}]
  /\ \A j \in JobIds : Shown(jobs[j], j) /\ Shown(cronFile[j], j)
  /\ \A j \in inRun : /\ runOf[j] # "none"
                      /\ runOf[j] = "schedule" /\ jobs[j].there /\ jobs[j].once => fired[j] # 0

(* A step that takes back no run and no excuse, completes nothing and starts   *)
(* nothing keeps the accounts.                                                *)
LEMMA AccountsStay ==
  ASSUME CronInv, Accounts, UNCHANGED <<jobs, ledger>>, inRun' = inRun,
         cronFile' = cronFile \/ cronFile' = jobs
  PROVE  Accounts'
BY DEF Accounts, Shown, ledger

(* A job that is defined has nothing to show yet; a run in progress is not its. *)
LEMMA DefineAccounts ==
  ASSUME CronInv, Accounts, NEW j \in JobIds, Define(j)
  PROVE  Accounts'
<1>1. PICK s \in Schedules, on \in BOOLEAN : jobs' = [jobs EXCEPT ![j] = Defined(s[1], s[2], on)]
  BY DEF Define
<1>2. /\ fired' = [fired EXCEPT ![j] = 0] /\ excuse' = [excuse EXCEPT ![j] = "none"]
      /\ runOf' = [runOf EXCEPT ![j] = IF j \in inRun THEN "redefined" ELSE "none"]
      /\ cronFile' = jobs' /\ inRun' = inRun
  BY DEF Define, Saves
<1>3. /\ time \in Nat /\ jobs \in [JobIds -> CronJob] /\ fired \in [JobIds -> Nat]
      /\ inRun \subseteq JobIds
  BY DEF CronInv, CronTyped, Timers
<1>4. s[1] => s[2] \in Nat /\ s[2] > time
  <2>1. s \in {<<FALSE, 0>>} \/ \E t \in time + 1 .. MaxTime : s = <<TRUE, t>>
    BY DEF Schedules
  <2>2. CASE s = <<FALSE, 0>>
    BY <2>2
  <2>3. CASE \E t \in time + 1 .. MaxTime : s = <<TRUE, t>>
    BY <1>3, <2>3, CronAssumption
  <2> QED BY <2>1, <2>2, <2>3
<1> DEFINE r == [there |-> TRUE, once |-> s[1], at |-> s[2], enabled |-> on,
                 done |-> FALSE, next |-> 0]
<1>5. ~Defined(s[1], s[2], on).done
  <2>1. Defined(s[1], s[2], on) = Recomputed(r)
    BY DEF Defined
  <2>2. ~r.done /\ r.once = s[1] /\ r.at = s[2]
    OBVIOUS
  <2>3. Recomputed(r).done \in {r.done, FALSE} \/ (r.once /\ Recomputed(r).done = (r.at <= time))
    BY DEF Recomputed
  <2>4. ~(s[1] /\ s[2] <= time)
    BY <1>3, <1>4
  <2> HIDE DEF r
  <2> QED BY <2>1, <2>2, <2>3, <2>4
<1> HIDE DEF r
<1>6. jobs'[j] = Defined(s[1], s[2], on) /\ \A i \in JobIds : i # j =>
          jobs'[i] = jobs[i] /\ fired'[i] = fired[i] /\ excuse'[i] = excuse[i] /\ runOf'[i] = runOf[i]
  BY <1>1, <1>2, <1>3 DEF Accounts
<1>7. \A i \in JobIds : Shown(jobs[i], i)' /\ Shown(cronFile[i], i)'
  BY <1>2, <1>5, <1>6 DEF Accounts, Shown
<1>8. /\ runOf' \in [JobIds -> {"none", "schedule", "hand", "redefined"}]
      /\ excuse' \in [JobIds -> {"none", "late", "missed", "hand", "redefined"}]
      /\ j \in inRun => runOf'[j] = "redefined"
  BY <1>2 DEF Accounts
<1>9. \A i \in inRun' : /\ runOf'[i] # "none"
                        /\ runOf'[i] = "schedule" /\ jobs'[i].there /\ jobs'[i].once => fired'[i] # 0
  BY <1>2, <1>3, <1>6, <1>8 DEF Accounts
<1> QED BY <1>7, <1>8, <1>9 DEF Accounts

(* A one-shot that is enabled too late was missed. *)
LEMMA EnableAccounts ==
  ASSUME CronInv, Accounts, NEW j \in JobIds, NEW on \in BOOLEAN, SetEnabled(j, on)
  PROVE  Accounts'
<1> DEFINE r == [jobs[j] EXCEPT !.enabled = on]
<1>1. /\ jobs' = [jobs EXCEPT ![j] = Recomputed(r)] /\ cronFile' = jobs' /\ inRun' = inRun
      /\ excuse' = [excuse EXCEPT ![j] = IF jobs'[j].done /\ fired[j] = 0 THEN "missed" ELSE @]
      /\ UNCHANGED <<fired, runOf>> /\ ~jobs[j].done
  BY DEF SetEnabled, Saves
<1>2. jobs \in [JobIds -> CronJob] /\ inRun \subseteq JobIds /\ time \in Nat
  BY DEF CronInv, CronTyped, Timers
<1>3. r \in CronJob /\ r.once = jobs[j].once /\ r.there = jobs[j].there /\ ~r.done
      /\ (~r.there => ~r.enabled)
  BY <1>1, <1>2 DEF CronJob, SetEnabled
<1> HIDE DEF r
<1>4. Recomputed(r).once = r.once /\ Recomputed(r).there = r.there
  BY <1>2, <1>3, RecomputedOK
<1>5. /\ jobs'[j].once = jobs[j].once /\ jobs'[j].there = jobs[j].there
      /\ \A i \in JobIds : i # j => jobs'[i] = jobs[i]
  BY <1>1, <1>2, <1>3, <1>4
<1>6. /\ excuse' \in [JobIds -> {"none", "late", "missed", "hand", "redefined"}]
      /\ \A i \in JobIds : i # j => excuse'[i] = excuse[i]
      /\ jobs'[j].done => fired[j] # 0 \/ excuse'[j] # "none"
  BY <1>1 DEF Accounts
<1>7. \A i \in JobIds : Shown(jobs[i], i)'
  BY <1>1, <1>5, <1>6 DEF Accounts, Shown
<1>8. \A i \in inRun : jobs'[i].there = jobs[i].there /\ jobs'[i].once = jobs[i].once
  BY <1>2, <1>5
<1> QED BY <1>1, <1>6, <1>7, <1>8 DEF Accounts, Shown

(* The end of a run completes a one-shot: it was its own, or is the excuse. *)
LEMMA FinishAccounts ==
  ASSUME CronInv, Accounts, NEW j \in JobIds, Finish(j)
  PROVE  Accounts'
<1> DEFINE r == IF ~jobs[j].there THEN jobs[j]
                ELSE IF jobs[j].once THEN [jobs[j] EXCEPT !.done = TRUE, !.next = 0]
                ELSE Recomputed(jobs[j])
<1>0. /\ jobs \in [JobIds -> CronJob] /\ inRun \subseteq JobIds /\ time \in Nat
      /\ \A i \in JobIds : IsCronJob(jobs[i])
  BY DEF CronInv, CronTyped, Timers
<1>1. /\ jobs' = [jobs EXCEPT ![j] = r] /\ inRun' = inRun \ {j} /\ j \in inRun
      /\ (cronFile' = jobs' \/ cronFile' = cronFile)
      /\ runOf' = [runOf EXCEPT ![j] = "none"] /\ fired' = fired
      /\ excuse' = [excuse EXCEPT ![j] =
            IF jobs[j].once /\ ~jobs[j].done /\ runOf[j] # "schedule" THEN runOf[j] ELSE @]
  BY <1>0 DEF Finish, Saves
<1>2. ~jobs[j].once => ~r.once \/ ~r.done
  <2>1. CASE ~jobs[j].there
    BY <1>0, <2>1
  <2>2. CASE jobs[j].there /\ ~jobs[j].once
    <3>1. r = Recomputed(jobs[j]) /\ jobs[j] \in CronJob /\ (jobs[j].done => jobs[j].once)
      BY <1>0, <2>2 DEF IsCronJob
    <3> HIDE DEF r
    <3> QED BY <1>0, <2>2, <3>1, RecomputedOK
  <2> QED BY <2>1, <2>2
<1>3. jobs[j].once /\ ~jobs[j].there => r = jobs[j]
  OBVIOUS
<1> HIDE DEF r
<1>4. /\ jobs'[j] = r /\ \A i \in JobIds : i # j => jobs'[i] = jobs[i] /\ excuse'[i] = excuse[i]
                                                    /\ runOf'[i] = runOf[i]
      /\ excuse' \in [JobIds -> {"none", "late", "missed", "hand", "redefined"}]
      /\ runOf' \in [JobIds -> {"none", "schedule", "hand", "redefined"}]
      /\ excuse'[j] = "none" => excuse[j] = "none"
  BY <1>0, <1>1 DEF Accounts
<1>5. jobs[j].once /\ ~jobs[j].done => \/ excuse'[j] # "none"
                                      \/ runOf[j] = "schedule"
  BY <1>1 DEF Accounts
<1>6. Shown(jobs[j], j)'
  <2>1. CASE ~jobs[j].once
    BY <1>2, <1>4, <2>1 DEF Shown
  <2>2. CASE jobs[j].once /\ jobs[j].done
    BY <1>1, <1>4, <2>2 DEF Accounts, Shown
  <2>3. CASE jobs[j].once /\ ~jobs[j].done /\ jobs[j].there
    BY <1>1, <1>4, <1>5, <2>3 DEF Accounts, Shown
  <2>4. CASE jobs[j].once /\ ~jobs[j].done /\ ~jobs[j].there
    BY <1>3, <1>4, <2>4 DEF Shown
  <2> QED BY <2>1, <2>2, <2>3, <2>4
<1>7. \A i \in JobIds : Shown(jobs[i], i)'
  BY <1>1, <1>4, <1>6 DEF Accounts, Shown
<1>8. \A i \in JobIds : Shown(cronFile[i], i)'
  BY <1>1, <1>4, <1>7 DEF Accounts, Shown
<1>9. \A i \in inRun' : i \in JobIds /\ i # j /\ i \in inRun
  BY <1>0, <1>1
<1> QED BY <1>1, <1>4, <1>7, <1>8, <1>9 DEF Accounts

(* A wake counts the one-shots it starts, and notes the ones it drops. *)
LEMMA WakeAccounts ==
  ASSUME CronInv, Accounts, Wake
  PROVE  Accounts'
<1> DEFINE starts == Due \ TooLate
<1>0. /\ jobs \in [JobIds -> CronJob] /\ inRun \subseteq JobIds /\ time \in Nat
      /\ fired \in [JobIds -> Nat] /\ \A i \in JobIds : IsCronJob(jobs[i])
  BY DEF CronInv, CronTyped, Timers
<1>1. /\ jobs' = [j \in JobIds |-> IF j \in TooLate THEN Recomputed(jobs[j]) ELSE jobs[j]]
      /\ excuse' = [j \in JobIds |-> IF j \in TooLate /\ jobs[j].once THEN "late" ELSE excuse[j]]
      /\ runOf' = [j \in JobIds |-> IF j \in starts THEN "schedule" ELSE runOf[j]]
      /\ fired' = [j \in JobIds |-> IF j \in starts /\ jobs[j].once THEN fired[j] + 1 ELSE fired[j]]
      /\ inRun' = inRun \cup starts
      /\ (cronFile' = jobs' \/ cronFile' = cronFile)
  BY DEF Wake, Saves
<1>2. TooLate \subseteq Due /\ Due \subseteq JobIds /\ \A j \in Due : j \notin inRun
  BY DEF TooLate, Due
<1>3. ASSUME NEW j \in JobIds
      PROVE  /\ jobs'[j].once = jobs[j].once /\ jobs'[j].there = jobs[j].there
             /\ \/ jobs'[j] = jobs[j]
                \/ ~jobs[j].once /\ ~jobs'[j].done
                \/ excuse'[j] = "late"
  <2>1. CASE j \in TooLate
    <3>1. jobs'[j] = Recomputed(jobs[j]) /\ jobs[j] \in CronJob /\ IsCronJob(jobs[j])
      BY <1>0, <1>1, <2>1
    <3>2. /\ IsCronJob(jobs'[j]) /\ jobs'[j].once = jobs[j].once /\ jobs'[j].there = jobs[j].there
      BY <1>0, <3>1, RecomputedOK DEF IsCronJob
    <3>3. jobs[j].once => excuse'[j] = "late"
      BY <1>1, <2>1
    <3> QED BY <3>2, <3>3 DEF IsCronJob
  <2>2. CASE j \notin TooLate
    BY <1>1, <2>2
  <2> QED BY <2>1, <2>2
<1>4. ASSUME NEW j \in JobIds
      PROVE  /\ fired[j] # 0 => fired'[j] # 0
             /\ j \in starts /\ jobs[j].once => fired'[j] # 0
             /\ excuse[j] # "none" => excuse'[j] # "none"
  BY <1>0, <1>1
<1>5. \A j \in JobIds : Shown(jobs[j], j)'
  BY <1>3, <1>4 DEF Accounts, Shown
<1>6. \A j \in JobIds : Shown(cronFile[j], j)'
  BY <1>1, <1>4, <1>5 DEF Accounts, Shown
<1>7. \A j \in inRun' : /\ runOf'[j] # "none"
                        /\ runOf'[j] = "schedule" /\ jobs'[j].there /\ jobs'[j].once => fired'[j] # 0
  BY <1>0, <1>1, <1>2, <1>3, <1>4 DEF Accounts
<1>8. /\ runOf' \in [JobIds -> {"none", "schedule", "hand", "redefined"}]
      /\ excuse' \in [JobIds -> {"none", "late", "missed", "hand", "redefined"}]
  BY <1>1 DEF Accounts
<1> QED BY <1>5, <1>6, <1>7, <1>8 DEF Accounts

(* A daemon that starts keeps what the file shows, and notes what it drops. *)
LEMMA RestartedAccounts ==
  ASSUME CronInv, Accounts, Restarted
  PROVE  Accounts'
<1>1. /\ jobs' = [j \in JobIds |-> Loaded(cronFile[j])] /\ cronFile' = jobs' /\ inRun' = {}
      /\ runOf' = [j \in JobIds |-> "none"]
      /\ fired' = [j \in JobIds |-> IF cronFile[j].done THEN fired[j] ELSE 0]
      /\ excuse' = [j \in JobIds |-> IF cronFile[j].done THEN excuse[j]
                                     ELSE IF jobs'[j].done THEN "missed" ELSE "none"]
  BY DEF Restarted, Saves
<1>2. \A j \in JobIds : cronFile[j].done => jobs'[j] = cronFile[j]
  BY <1>1 DEF Loaded
<1>3. \A j \in JobIds : Shown(jobs[j], j)'
  BY <1>1, <1>2 DEF Accounts, Shown
<1>4. excuse' \in [JobIds -> {"none", "late", "missed", "hand", "redefined"}]
  BY <1>1 DEF Accounts
<1> QED BY <1>1, <1>3, <1>4 DEF Accounts, Shown

LEMMA AccountsNext == CronInv /\ Accounts /\ [CronNext]_cronVars => Accounts'
<1> SUFFICES ASSUME CronInv, Accounts, [CronNext]_cronVars PROVE Accounts'
  OBVIOUS
<1>1. ASSUME NEW j \in JobIds, Trigger(j) PROVE Accounts'
  <2>1. CASE j \in inRun
    <3>1. UNCHANGED <<jobs, ledger, inRun>> /\ (cronFile' = cronFile \/ cronFile' = jobs)
      BY <1>1, <2>1 DEF Trigger, Saves, ledger
    <3> QED BY <3>1, AccountsStay
  <2>2. CASE j \notin inRun
    <3>1. /\ UNCHANGED <<jobs, cronFile, fired, excuse>> /\ inRun' = inRun \cup {j}
          /\ runOf' = [runOf EXCEPT ![j] = "hand"] /\ inRun \subseteq JobIds
      BY <1>1, <2>2 DEF Trigger, CronInv, CronTyped
    <3> QED BY <2>2, <3>1 DEF Accounts, Shown
  <2> QED BY <2>1, <2>2
<1>2. ASSUME NEW j \in JobIds, RemoveJob(j) PROVE Accounts'
  <2>1. /\ jobs' = [jobs EXCEPT ![j] = Absent] /\ cronFile' = jobs' /\ UNCHANGED <<inRun, ledger>>
        /\ jobs \in [JobIds -> CronJob] /\ inRun \subseteq JobIds
    BY <1>2 DEF RemoveJob, Saves, CronInv, CronTyped
  <2>2. /\ ~Absent.there /\ ~Absent.done /\ jobs'[j] = Absent
        /\ \A i \in JobIds : i # j => jobs'[i] = jobs[i]
    BY <2>1 DEF Absent
  <2>3. UNCHANGED <<fired, runOf, excuse>>
    BY <2>1 DEF ledger
  <2>4. \A i \in JobIds : Shown(jobs[i], i)' /\ Shown(cronFile[i], i)'
    BY <2>1, <2>2, <2>3 DEF Accounts, Shown
  <2>5. \A i \in inRun : /\ runOf[i] # "none"
                         /\ runOf[i] = "schedule" /\ jobs'[i].there /\ jobs'[i].once => fired[i] # 0
    BY <2>1, <2>2 DEF Accounts
  <2> QED BY <2>1, <2>3, <2>4, <2>5 DEF Accounts
<1>3. CASE Watchdog \/ Tick \/ Jump
  BY <1>3, AccountsStay DEF Watchdog, Tick, Jump
<1>4. CASE UNCHANGED cronVars
  BY <1>4, AccountsStay DEF cronVars
<1> QED BY <1>1, <1>2, <1>3, <1>4, DefineAccounts, EnableAccounts, FinishAccounts, WakeAccounts,
           RestartedAccounts DEF CronNext

(* For any jobs, periods and length of the runs, and any restarts: unless the *)
(* machine slept or its clock was set, no due run is dropped for being late,  *)
(* given a late window no shorter than the period of the watchdog. Whatever   *)
(* wakes overlap, and whatever is run by hand, redefined, disabled, enabled   *)
(* or removed as it runs, jumps of the clock included: the schedule starts a  *)
(* one-shot once, and none is completed without its run in a way that the     *)
(* excuses do not name.                                                      *)
THEOREM CronAlwaysKeepsTime == CronSpec => []CronKeepsTime
<1>1. CronInv /\ Accounts => CronKeepsTime
  BY DEF CronInv, CronTyped, InTime, StartedIsOver, OneShotOnce, CronKeepsTime, OneShotRuns, Accounts,
         Shown
<1>2. CronInit => Accounts
  BY DEF CronInit, Accounts, Shown, Absent
<1> QED BY <1>1, <1>2, CronInvInit, CronInvNext, AccountsNext, PTL DEF CronSpec
-----------------------------------------------------------------------------
(* Upgrades *)

(* A command in progress: what it carries depends on how far it is.          *)
Idling == [step : {"idle"}]
Installing == [step : {"install"}, channel : Channels \cup {"universal"}, want : 1 .. MaxVersion,
               goal : 1 .. MaxVersion, rt : Runtimes3, bound : BOOLEAN]
Realigning == [step : {"verify", "run", "tell"}, want : 1 .. MaxVersion, stray : BOOLEAN,
               raced : BOOLEAN, undone : BOOLEAN, verified : BOOLEAN]
Changing == [step : {"ensure", "package", "commit"}, rt : Runtimes3]

UpTyped ==
  /\ UpTypeOK /\ upCmd \in Idling \cup Installing \cup Realigning \cup Changing
  /\ report \in [verified : BOOLEAN, told : {"none", "restarted", "old", "note"},
                 live : 0 .. MaxVersion, want : 0 .. MaxVersion, raced : BOOLEAN,
                 undone : BOOLEAN, stray : BOOLEAN]
  /\ upCmd # NoCommand => Present # {}

(* Which selection has a package: its own unless it was answered without     *)
(* one, and that of npm may stand for Deno's.                                *)
Backed(rt) == copies[ChannelOf(rt)] > 0
Runs(rt) == rt \in have \cup hidden /\ (Backed(rt) \/ (rt = "deno" /\ copies["npm"] > 0))
SelectionFollows ==
  /\ stamp.channel = "universal" /\ ~stamp.byHand => selection # "none"
  /\ ~unbacked /\ selection # "none" => Backed(selection)
  /\ moved # "none" => selection = moved /\ Runs(moved)
  /\ upCmd.step \in {"package", "commit"} => upCmd.rt \in have \cup hidden
  /\ upCmd.step = "commit" => Runs(upCmd.rt) /\ (~unbacked => Backed(upCmd.rt))

(* An upgrade of the deno copy goes to a channel that is there.              *)
NoSecondCopy ==
  /\ upCmd.step = "install" /\ upCmd.bound =>
       Manager(upCmd.channel, upCmd.rt) = "brew" \/ copies[Manager(upCmd.channel, upCmd.rt)] > 0
  /\ upCmd.step \in {"verify", "run", "tell"} => ~upCmd.stray
  /\ ~report.stray

(* Between the kill and the report the daemon is down, new, one that the boot*)
(* service revived and will restart, or one that another command spawned or  *)
(* that could not be replaced.                                               *)
DaemonFollows ==
  /\ upCmd.step \in {"run", "tell"} /\ upCmd.verified => copies[OnPath] >= upCmd.want
  /\ upCmd.step = "run" /\ ~upCmd.raced /\ ~upCmd.undone => daemonV = 0 \/ bootUnit # NoUnit
  /\ upCmd.step = "tell" /\ ~upCmd.undone => daemonV > 0
  /\ upCmd.step = "tell" /\ upCmd.verified /\ ~upCmd.raced /\ ~upCmd.undone
       => daemonV >= upCmd.want
  /\ DaemonIsRealigned

UpInv == UpTyped /\ SelectionFollows /\ NoSecondCopy /\ DaemonFollows

(* which("pboss") finds a copy when there is one.                            *)
LEMMA OnPathIsThere ==
  ASSUME Present # {} PROVE OnPath \in Present
<1>1. \E c \in Present : \A d \in Present : Order[c] <= Order[d]
  <2>1. Present \subseteq {"npm", "bun", "deno", "brew"}
    BY DEF Present, Channels
  <2>2. CASE "deno" \in Present
    BY <2>1, <2>2 DEF Order
  <2>3. CASE "deno" \notin Present /\ "npm" \in Present
    BY <2>1, <2>3 DEF Order
  <2>4. CASE "deno" \notin Present /\ "npm" \notin Present /\ "bun" \in Present
    BY <2>1, <2>4 DEF Order
  <2>5. CASE Present = {"brew"}
    BY <2>5 DEF Order
  <2> QED BY <2>1, <2>2, <2>3, <2>4, <2>5
<1> QED BY <1>1 DEF OnPath

(* What the registry offers.                                                 *)
LEMMA OfferTyped ==
  ASSUME UpTyped
  PROVE  /\ EffectiveLatest \in 0 .. latest /\ latest \in 1 .. MaxVersion
         /\ latest > 0 /\ MaxVersion \in Nat \ {0}
         /\ \A c \in Channels : copies[c] \in 0 .. MaxVersion
         /\ EffectiveLatest \in 0 .. MaxVersion
BY UpgradeAssumption DEF UpTyped, UpTypeOK, EffectiveLatest

(* Whatever runs pboss is a runtime.                                         *)
LEMMA ExecutingTyped ==
  ASSUME UpTyped, Present # {}, CanRun(OnPath)
  PROVE  OnPath \in Channels /\ copies[OnPath] > 0 /\ Executing(OnPath) \in Runtimes3
<1>1. OnPath \in Channels /\ copies[OnPath] > 0
  BY OnPathIsThere DEF Present
<1> HIDE DEF OnPath
<1> QED BY <1>1 DEF CanRun, Executing, UpTyped, UpTypeOK, Runtimes3

LEMMA IdleStep ==
  /\ NoCommand.step = "idle" /\ NoCommand \in Idling
  /\ Quiet \in [verified : BOOLEAN, told : {"none", "restarted", "old", "note"},
                live : 0 .. MaxVersion, want : 0 .. MaxVersion, raced : BOOLEAN,
                undone : BOOLEAN, stray : BOOLEAN]
  /\ Quiet.live = 0 /\ Quiet.stray = FALSE /\ Quiet.told = "none"
BY UpgradeAssumption DEF NoCommand, Idling, Quiet

(* While no command runs, one that was installed or removed by hand, or has  *)
(* just ended, nothing but the selection and the last report matters.        *)
LEMMA IdleInv ==
  ASSUME UpTyped', upCmd' = NoCommand, SelectionFollows', ~report'.stray, DaemonIsRealigned'
  PROVE  UpInv'
<1>1. upCmd'.step = "idle"
  BY IdleStep
<1> QED BY <1>1 DEF UpInv, NoSecondCopy, DaemonFollows

(* A copy that is added keeps what has a package backed.                     *)
LEMMA CopiesGrow ==
  ASSUME UpTyped, NEW c \in Channels, NEW v \in 1 .. MaxVersion,
         copies' = [copies EXCEPT ![c] = v], have \subseteq have', hidden' = hidden
  PROVE  /\ copies' \in [Channels -> 0 .. MaxVersion] /\ copies'[c] = v
         /\ Present' # {} /\ \A d \in Channels \ {c} : copies'[d] = copies[d]
         /\ \A rt \in Runtimes3 : Backed(rt) => Backed(rt)'
         /\ \A rt \in Runtimes3 : Runs(rt) => Runs(rt)'
<1>1. MaxVersion \in Nat
  BY UpgradeAssumption
<1>2. copies \in [Channels -> 0 .. MaxVersion]
  BY DEF UpTyped, UpTypeOK
<1>3. copies' \in [Channels -> 0 .. MaxVersion] /\ copies'[c] = v
      /\ \A d \in Channels \ {c} : copies'[d] = copies[d]
  BY <1>1, <1>2
<1>4. \A d \in Channels : copies[d] > 0 => copies'[d] > 0
  BY <1>1, <1>3
<1>5. \A rt \in Runtimes3 : ChannelOf(rt) \in Channels
  BY DEF Runtimes3, ChannelOf, Channels
<1>6. "npm" \in Channels
  BY DEF Channels
<1>7. c \in Present'
  BY <1>1, <1>3 DEF Present
<1> QED BY <1>3, <1>4, <1>5, <1>6, <1>7 DEF Backed, Runs

(* What the post-install step leaves as boot service and daemon.             *)
Units == [via : Channels \cup {"none"}, version : 0 .. MaxVersion]

LEMMA PostinstallTyped ==
  ASSUME NEW c \in Channels, Postinstall(c), copies' \in [Channels -> 0 .. MaxVersion],
         bootUnit \in Units, daemonV \in 0 .. MaxVersion
  PROVE  bootUnit' \in Units /\ daemonV' \in 0 .. MaxVersion
BY DEF Postinstall, Units

LEMMA InstallStampedInv ==
  ASSUME UpInv, NEW c \in {"npm", "bun", "brew"}, InstallStamped(c) PROVE UpInv'
<1>1. c \in Channels /\ latest \in 1 .. MaxVersion
  BY OfferTyped DEF UpInv, Channels
<1>2. /\ upCmd' = NoCommand /\ report' = Quiet /\ copies' = [copies EXCEPT ![c] = latest]
      /\ stamp' = [channel |-> c, byHand |-> FALSE] /\ have \subseteq have'
      /\ have' \subseteq have \cup {"node", "bun"}
      /\ UNCHANGED <<front, selection, hidden, latest, ripe, denoFlag, moved, unbacked>>
      /\ upCalls < MaxUpCalls /\ upCalls' = upCalls + 1
      /\ Postinstall(c)
  BY DEF InstallStamped, Starts
<1>3. /\ copies' \in [Channels -> 0 .. MaxVersion]
      /\ \A rt \in Runtimes3 : Backed(rt) => Backed(rt)'
      /\ \A rt \in Runtimes3 : Runs(rt) => Runs(rt)'
  BY <1>1, <1>2, CopiesGrow DEF UpInv
<1>4. UpTyped'
  <2>1. bootUnit' \in Units /\ daemonV' \in 0 .. MaxVersion
    BY <1>1, <1>2, <1>3, PostinstallTyped DEF UpInv, UpTyped, UpTypeOK, Units
  <2> QED BY <1>1, <1>2, <1>3, <2>1, IdleStep, UpgradeAssumption
      DEF UpInv, UpTyped, UpTypeOK, Runtimes3, Units
<1>5. SelectionFollows'
  BY <1>2, <1>3, IdleStep DEF UpInv, UpTyped, UpTypeOK, SelectionFollows, Channels
<1> QED BY <1>2, <1>4, <1>5, IdleStep, IdleInv DEF DaemonIsRealigned

LEMMA InstallDenoInv ==
  ASSUME UpInv, InstallDeno PROVE UpInv'
<1>1. "deno" \in Channels /\ EffectiveLatest \in 1 .. MaxVersion
  BY OfferTyped DEF UpInv, Channels, InstallDeno
<1>2. /\ upCmd' = NoCommand /\ report' = Quiet
      /\ copies' = [copies EXCEPT !["deno"] = EffectiveLatest]
      /\ have' = have \cup {"deno"}
      /\ UNCHANGED <<front, stamp, selection, hidden, latest, ripe, denoFlag, bootUnit, daemonV,
                     moved, unbacked>>
      /\ upCalls < MaxUpCalls /\ upCalls' = upCalls + 1
  BY DEF InstallDeno, Starts
<1> HIDE DEF EffectiveLatest
<1>3. /\ copies' \in [Channels -> 0 .. MaxVersion]
      /\ \A rt \in Runtimes3 : Backed(rt) => Backed(rt)'
      /\ \A rt \in Runtimes3 : Runs(rt) => Runs(rt)'
  BY <1>1, <1>2, CopiesGrow DEF UpInv
<1>4. UpTyped'
  BY <1>1, <1>2, <1>3, IdleStep, UpgradeAssumption DEF UpInv, UpTyped, UpTypeOK, Runtimes3
<1>5. SelectionFollows'
  BY <1>2, <1>3, IdleStep DEF UpInv, UpTyped, UpTypeOK, SelectionFollows
<1> QED BY <1>2, <1>4, <1>5, IdleStep, IdleInv DEF DaemonIsRealigned

LEMMA InstallUniversalInv ==
  ASSUME UpInv, NEW rt \in Runtimes3, InstallUniversal(rt) PROVE UpInv'
<1> DEFINE via == IF rt = "deno" /\ EffectiveLatest = 0 THEN "npm" ELSE ChannelOf(rt)
           version == IF via = "deno" THEN EffectiveLatest ELSE latest
<1>1. via \in Channels /\ version \in 1 .. MaxVersion
  BY OfferTyped DEF UpInv, Channels, Runtimes3, ChannelOf
<1>2. /\ upCmd' = NoCommand /\ report' = Quiet /\ copies' = [copies EXCEPT ![via] = version]
      /\ stamp' = [channel |-> "universal", byHand |-> FALSE] /\ selection' = rt
      /\ have \subseteq have' /\ have' \subseteq have \cup {rt, "node"}
      /\ moved' = "none" /\ unbacked' = (via # ChannelOf(rt))
      /\ UNCHANGED <<front, hidden, latest, ripe, denoFlag, bootUnit, daemonV>>
      /\ upCalls < MaxUpCalls /\ upCalls' = upCalls + 1
  BY DEF InstallUniversal, Starts
<1> HIDE DEF via, version
<1>3. copies' \in [Channels -> 0 .. MaxVersion] /\ copies'[via] = version
  BY <1>1, <1>2, CopiesGrow DEF UpInv
<1>4. UpTyped'
  BY <1>1, <1>2, <1>3, IdleStep, UpgradeAssumption
  DEF UpInv, UpTyped, UpTypeOK, Runtimes3, Channels
<1>5. ASSUME ~unbacked' PROVE Backed(rt)'
  <2>1. via = ChannelOf(rt)
    BY <1>2, <1>5, Zenon
  <2>2. version > 0
    BY <1>1, UpgradeAssumption
  <2> QED BY <1>3, <2>1, <2>2 DEF Backed
<1>6. SelectionFollows'
  BY <1>2, <1>5, IdleStep DEF SelectionFollows, Runtimes3
<1> QED BY <1>2, <1>4, <1>6, IdleStep, IdleInv DEF DaemonIsRealigned

LEMMA UninstallInv ==
  ASSUME UpInv, NEW c \in Channels, Uninstall(c) PROVE UpInv'
<1>1. /\ upCmd' = NoCommand /\ report' = Quiet /\ copies' = [copies EXCEPT ![c] = 0]
      /\ moved' = "none" /\ unbacked' = TRUE
      /\ UNCHANGED <<front, stamp, selection, have, hidden, latest, ripe, denoFlag, bootUnit, daemonV>>
      /\ upCalls < MaxUpCalls /\ upCalls' = upCalls + 1
  BY DEF Uninstall, Starts
<1>2. UpTyped'
  BY <1>1, IdleStep, UpgradeAssumption DEF UpInv, UpTyped, UpTypeOK
<1>3. SelectionFollows'
  BY <1>1, IdleStep DEF UpInv, SelectionFollows
<1> QED BY <1>1, <1>2, <1>3, IdleStep, IdleInv DEF DaemonIsRealigned

LEMMA FirstRunInv ==
  ASSUME UpInv, NEW rt \in Runtimes3, FirstRun(rt) PROVE UpInv'
<1>1. /\ upCmd = NoCommand /\ upCmd' = NoCommand /\ Present # {} /\ selection = "none"
      /\ selection' = rt
      /\ UNCHANGED <<copies, front, stamp, have, hidden, latest, ripe, denoFlag, bootUnit, daemonV,
                     report, moved, upCalls>>
  BY DEF FirstRun
<1>2. unbacked' \in BOOLEAN
  BY DEF FirstRun, UpInv, UpTyped, UpTypeOK
<1>3. ~unbacked' => Backed(rt)'
  <2>1. CASE OnPath = "deno"
    <3>1. "deno" \in Present /\ rt = "deno"
      BY <1>1, <2>1, OnPathIsThere DEF FirstRun
    <3> QED BY <1>1, <3>1 DEF Present, Backed, ChannelOf
  <2>2. CASE OnPath # "deno"
    <3>1. ~unbacked' => copies[ChannelOf(rt)] # 0
      BY <2>2 DEF FirstRun
    <3>2. copies[ChannelOf(rt)] \in Nat
      BY UpgradeAssumption DEF UpInv, UpTyped, UpTypeOK, Channels, ChannelOf, Runtimes3
    <3> QED BY <1>1, <3>1, <3>2 DEF Backed
  <2> QED BY <2>1, <2>2
<1>4. moved = "none"
  BY <1>1 DEF UpInv, UpTyped, UpTypeOK, SelectionFollows, Runtimes3
<1>5. UpTyped'
  BY <1>1, <1>2, IdleStep DEF UpInv, UpTyped, UpTypeOK
<1>6. SelectionFollows'
  BY <1>1, <1>3, <1>4, IdleStep DEF SelectionFollows, Runtimes3
<1> QED BY <1>1, <1>5, <1>6, IdleStep, IdleInv DEF UpInv, NoSecondCopy, DaemonFollows, DaemonIsRealigned

LEMMA StopsInv ==
  ASSUME UpInv, UpgradeStops \/ ChangeStops PROVE UpInv'
<1>1. /\ upCmd' = NoCommand
      /\ UNCHANGED <<copies, front, stamp, selection, have, hidden, latest, ripe, denoFlag,
                     bootUnit, daemonV, report, moved, unbacked, upCalls>>
  BY DEF UpgradeStops, ChangeStops
<1>2. UpTyped'
  BY <1>1, IdleStep DEF UpInv, UpTyped, UpTypeOK
<1>3. SelectionFollows'
  BY <1>1, IdleStep DEF UpInv, SelectionFollows, Backed, Runs
<1> QED BY <1>1, <1>2, <1>3, IdleStep, IdleInv DEF UpInv, NoSecondCopy, DaemonFollows, DaemonIsRealigned

(* The copy on PATH, when it is Deno's, is what an upgrade of it goes to:    *)
(* the only stamps that win over it name brew, or a machine of the universal *)
(* installer, whose selection has a package of its own.                      *)
LEMMA UpgradeBeginInv ==
  ASSUME UpInv, NEW by \in {"none", "npm", "universal"}, NEW dry \in BOOLEAN,
         NEW fetched \in BOOLEAN, UpgradeBegin(by, dry, fetched)
  PROVE  UpInv'
<1> DEFINE rt == Executing(OnPath)
           detected == Detected(StampBefore(by), rt)
           channel == UpgradeChannel(detected)
           goal == IF channel = "deno" THEN EffectiveLatest ELSE latest
           going == [step |-> "install", channel |-> channel, want |-> latest,
                     goal |-> goal, rt |-> rt,
                     bound |-> /\ OnPath = "deno" /\ ~stamp'.byHand
                               /\ stamp'.channel = "universal" => ~unbacked]
<1>1. /\ Present # {} /\ CanRun(OnPath) /\ report' = Quiet /\ upCmd = NoCommand
      /\ stamp' = (IF by = "none" THEN stamp ELSE [channel |-> by, byHand |-> TRUE])
      /\ UNCHANGED <<copies, front, selection, have, hidden, latest, ripe, denoFlag, bootUnit,
                     daemonV, moved, unbacked>>
      /\ upCalls < MaxUpCalls /\ upCalls' = upCalls + 1
  BY DEF UpgradeBegin, Starts
<1>2. OnPath \in Channels /\ copies[OnPath] > 0 /\ rt \in Runtimes3
  BY <1>1, ExecutingTyped DEF UpInv
<1>3. \/ upCmd' = NoCommand
      \/ upCmd' = going /\ channel # "none" /\ goal # 0
  BY <1>1 DEF UpgradeBegin, NothingToDo
<1>4. stamp' \in [channel : Channels \cup {"none", "universal"}, byHand : BOOLEAN]
  BY <1>1 DEF UpInv, UpTyped, UpTypeOK, Channels
<1>5. StampBefore(by) \in [channel : Channels \cup {"none", "universal"}, byHand : BOOLEAN]
  BY DEF UpInv, UpTyped, UpTypeOK, StampBefore, Channels
<1>6. detected \in Channels \cup {"none", "universal"}
  BY <1>5 DEF Detected, Channels
<1>7. selection \in Runtimes3 \cup {"none"}
  BY DEF UpInv, UpTyped, UpTypeOK
<1> HIDE DEF rt
<1>8. channel \in Channels \cup {"none", "universal"}
  BY <1>6, <1>7 DEF UpgradeChannel, ChannelOf, Channels, Runtimes3
<1> HIDE DEF detected
<1>9. goal # 0 => goal \in 1 .. MaxVersion
  BY OfferTyped DEF UpInv
<1>10. latest \in 1 .. MaxVersion
  BY OfferTyped DEF UpInv
<1>11. UpTyped'
  <2>1. upCmd' \in Idling \cup Installing
    <3>1. CASE upCmd' = NoCommand
      BY <3>1, IdleStep
    <3>2. CASE upCmd' = going /\ channel # "none" /\ goal # 0
      <4> HIDE DEF channel, goal
      <4>1. (OnPath = "deno" /\ ~stamp'.byHand /\ (stamp'.channel = "universal" => ~unbacked))
              \in BOOLEAN
        OBVIOUS
      <4> QED BY <1>2, <1>8, <1>9, <1>10, <3>2, <4>1 DEF Installing
    <3> QED BY <1>3, <3>1, <3>2
  <2> QED BY <1>1, <1>4, <2>1, IdleStep, UpgradeAssumption DEF UpInv, UpTyped, UpTypeOK, Present
<1>12. upCmd'.step \in {"idle", "install"}
  BY <1>3, IdleStep
<1>13. SelectionFollows'
  BY <1>1, <1>12 DEF UpInv, SelectionFollows, Backed, Runs
<1>14. ASSUME upCmd'.step = "install", upCmd'.bound
       PROVE  Manager(upCmd'.channel, upCmd'.rt) = "brew"
              \/ copies'[Manager(upCmd'.channel, upCmd'.rt)] > 0
  <2>1. /\ upCmd' = going /\ channel # "none" /\ OnPath = "deno" /\ ~stamp'.byHand
        /\ stamp'.channel = "universal" => ~unbacked
    BY <1>3, <1>14, IdleStep
  <2>2. by = "none" /\ stamp' = stamp /\ StampBefore(by) = stamp
    BY <1>1, <2>1 DEF StampBefore
  <2>3. rt = "deno"
    BY <2>1 DEF rt, Executing
  <2>4. CASE stamp.channel \notin {"universal", "brew"}
    <3>1. detected = "deno"
      BY <2>1, <2>2, <2>3, <2>4 DEF Detected, detected
    <3>2. channel = "deno"
      BY <3>1 DEF UpgradeChannel
    <3> QED BY <1>1, <1>2, <2>1, <3>2 DEF Manager
  <2>5. CASE stamp.channel = "brew"
    <3>1. channel = "brew"
      BY <2>2, <2>5 DEF Detected, detected, UpgradeChannel
    <3> QED BY <2>1, <3>1 DEF Manager
  <2>6. CASE stamp.channel = "universal"
    <3>1. selection # "none" /\ Backed(selection)
      BY <2>1, <2>2, <2>6 DEF UpInv, SelectionFollows
    <3>2. channel = ChannelOf(selection)
      BY <2>2, <2>6, <3>1 DEF Detected, detected, UpgradeChannel
    <3>3. channel # "universal"
      BY <1>7, <3>1, <3>2 DEF ChannelOf, Runtimes3
    <3> QED BY <1>1, <2>1, <3>1, <3>2, <3>3 DEF Manager, Backed
  <2> QED BY <2>4, <2>5, <2>6
<1>15. NoSecondCopy'
  BY <1>1, <1>12, <1>14, IdleStep DEF NoSecondCopy
<1>16. DaemonFollows'
  BY <1>1, <1>12, IdleStep DEF DaemonFollows, DaemonIsRealigned
<1> QED BY <1>11, <1>13, <1>15, <1>16 DEF UpInv

LEMMA UpgradeInstallInv ==
  ASSUME UpInv, UpgradeInstall PROVE UpInv'
<1> DEFINE c == Manager(upCmd.channel, upCmd.rt)
<1>1. upCmd \in Installing
  BY IdleStep DEF UpInv, UpTyped, UpgradeInstall, Idling, Realigning, Changing
<1>2. c \in Channels /\ upCmd.rt \in Runtimes3 /\ upCmd.want \in 1 .. MaxVersion
      /\ (upCmd.channel = "universal" => c = ChannelOf(upCmd.rt))
  BY <1>1 DEF Installing, Manager, ChannelOf, Channels, Runtimes3
<1>3. Delivered \in 1 .. MaxVersion
  BY <1>1, OfferTyped DEF UpInv, Installing, Delivered
<1> HIDE DEF Delivered
<1>4. /\ copies' = [copies EXCEPT ![c] = Delivered] /\ CanInstall(c)
      /\ stamp' = (IF upCmd.channel = "universal" THEN [channel |-> "universal", byHand |-> FALSE]
                   ELSE StampAfter(c))
      /\ IF upCmd.channel = "universal" THEN selection' = upCmd.rt /\ moved' = "none"
         ELSE UNCHANGED <<selection, moved>>
      /\ upCmd' = [step |-> "verify", want |-> upCmd.want,
                   stray |-> upCmd.bound /\ copies[c] = 0, raced |-> FALSE, undone |-> FALSE,
                   verified |-> FALSE]
      /\ UNCHANGED <<front, have, hidden, latest, ripe, denoFlag, report, unbacked, upCalls>>
      /\ upCmd.step = "install"
  BY DEF UpgradeInstall
<1>5. Postinstall(c)
  BY DEF UpgradeInstall
<1> HIDE DEF c
<1>6. /\ copies' \in [Channels -> 0 .. MaxVersion] /\ copies'[c] = Delivered /\ Present' # {}
      /\ \A rt \in Runtimes3 : Backed(rt) => Backed(rt)'
      /\ \A rt \in Runtimes3 : Runs(rt) => Runs(rt)'
  BY <1>2, <1>3, <1>4, CopiesGrow DEF UpInv
<1>7. ~(upCmd.bound /\ copies[c] = 0)
  <2>1. upCmd.bound => c = "brew" \/ copies[c] > 0
    BY <1>4 DEF UpInv, NoSecondCopy, c
  <2>2. c = "brew" => copies[c] > 0
    BY <1>4 DEF CanInstall, Present
  <2> QED BY <2>1, <2>2
<1>8. upCmd' \in Realigning /\ upCmd'.step = "verify" /\ ~upCmd'.stray /\ ~upCmd'.verified
  BY <1>2, <1>4, <1>7 DEF Realigning
<1>9. UpTyped'
  <2>1. daemonV' \in 0 .. MaxVersion /\ bootUnit' \in Units
    BY <1>2, <1>5, <1>6, PostinstallTyped DEF UpInv, UpTyped, UpTypeOK, Units
  <2>2. stamp' \in [channel : Channels \cup {"none", "universal"}, byHand : BOOLEAN]
    BY <1>2, <1>4 DEF UpInv, UpTyped, UpTypeOK, StampAfter, Channels
  <2>3. selection' \in Runtimes3 \cup {"none"} /\ moved' \in Runtimes3 \cup {"none"}
    BY <1>2, <1>4 DEF UpInv, UpTyped, UpTypeOK
  <2> QED BY <1>4, <1>6, <1>8, <2>1, <2>2, <2>3 DEF UpInv, UpTyped, UpTypeOK, Units
<1>10. SelectionFollows'
  <2>1. CASE upCmd.channel = "universal"
    <3> PICK rt \in Runtimes3 : rt = upCmd.rt
      BY <1>2
    <3>1. selection' = rt /\ moved' = "none"
      BY <1>4, <2>1
    <3>2. Backed(rt)'
      BY <1>2, <1>3, <1>6, <2>1, <3>1, UpgradeAssumption DEF Backed
    <3> QED BY <1>2, <1>8, <3>1, <3>2 DEF SelectionFollows, Runtimes3, Backed
  <2>2. CASE upCmd.channel # "universal"
    <3>1. UNCHANGED <<selection, moved>> /\ stamp' = StampAfter(c)
      BY <1>4, <2>2
    <3>2. stamp' = stamp \/ stamp'.channel # "universal"
      BY <1>2, <3>1 DEF StampAfter, Channels
    <3>3. selection \in Runtimes3 \cup {"none"}
      BY DEF UpInv, UpTyped, UpTypeOK
    <3>4. SelectionFollows /\ moved \in Runtimes3 \cup {"none"}
      BY DEF UpInv, UpTyped, UpTypeOK
    <3> QED BY <1>4, <1>6, <1>8, <3>1, <3>2, <3>3, <3>4 DEF SelectionFollows
  <2> QED BY <2>1, <2>2
<1>11. NoSecondCopy' /\ DaemonFollows'
  BY <1>4, <1>8 DEF UpInv, NoSecondCopy, DaemonFollows, DaemonIsRealigned
<1> QED BY <1>9, <1>10, <1>11 DEF UpInv

(* What a step of the command leaves alone.                                  *)
LEMMA SelectionKept ==
  ASSUME SelectionFollows, UNCHANGED <<copies, stamp, selection, have, hidden, moved, unbacked>>,
         upCmd'.step \notin {"package", "commit"}
  PROVE  SelectionFollows'
BY DEF SelectionFollows, Backed, Runs

LEMMA AfterKillTyped ==
  ASSUME UpInv, upCmd.step \in {"verify", "run", "tell"}
  PROVE  upCmd \in Realigning /\ Present # {} /\ OnPath \in Channels
         /\ copies[OnPath] \in 1 .. MaxVersion
<1>1. upCmd \in Realigning /\ Present # {}
  BY IdleStep DEF UpInv, UpTyped, Idling, Installing, Changing
<1>2. OnPath \in Present
  BY <1>1, OnPathIsThere
<1> HIDE DEF OnPath
<1> QED BY <1>1, <1>2, UpgradeAssumption DEF UpInv, UpTyped, UpTypeOK, Present

LEMMA UpgradeVerifyInv ==
  ASSUME UpInv, NEW answers \in BOOLEAN, NEW heard \in BOOLEAN, UpgradeVerify(answers, heard)
  PROVE  UpInv'
<1>1. upCmd \in Realigning /\ Present # {} /\ OnPath \in Channels
      /\ copies[OnPath] \in 1 .. MaxVersion
  BY AfterKillTyped DEF UpgradeVerify
<1>2. /\ upCmd' = [upCmd EXCEPT !.step = "run",
                                !.verified = answers /\ copies[OnPath] >= upCmd.want,
                                !.undone = ~heard /\ daemonV > 0]
      /\ daemonV' = (IF heard THEN 0 ELSE daemonV) /\ upCmd.step = "verify"
      /\ UNCHANGED <<copies, front, stamp, selection, have, hidden, latest, ripe, denoFlag,
                     bootUnit, report, moved, unbacked, upCalls>>
  BY DEF UpgradeVerify, KilledDaemon
<1>3. OnPath' = OnPath
  BY <1>2 DEF OnPath, Present
<1> HIDE DEF OnPath
<1>4. (answers /\ copies[OnPath] >= upCmd.want) \in BOOLEAN
      /\ (~heard /\ daemonV > 0) \in BOOLEAN
  OBVIOUS
<1>5. /\ upCmd' \in Realigning /\ upCmd'.step = "run" /\ upCmd'.want = upCmd.want
      /\ upCmd'.stray = upCmd.stray
      /\ upCmd'.verified = (answers /\ copies[OnPath] >= upCmd.want)
      /\ upCmd'.undone = (~heard /\ daemonV > 0)
  BY <1>1, <1>2, <1>4 DEF Realigning
<1>6. UpTyped'
  BY <1>1, <1>2, <1>5, UpgradeAssumption DEF UpInv, UpTyped, UpTypeOK, Present
<1>7. SelectionFollows'
  BY <1>2, <1>5, SelectionKept DEF UpInv
<1>8. upCmd'.verified => copies'[OnPath'] >= upCmd'.want
  BY <1>2, <1>3, <1>5
<1>9. daemonV' > 0 => upCmd'.undone
  <2>1. CASE heard
    BY <1>2, <2>1
  <2>2. ASSUME ~heard, daemonV > 0 PROVE upCmd'.undone
    BY <1>5, <2>2, Zenon
  <2> QED BY <1>2, <2>1, <2>2
<1>10. daemonV' = 0 \/ upCmd'.undone
  BY <1>6, <1>9, UpgradeAssumption DEF UpTyped, UpTypeOK
<1>11. NoSecondCopy' /\ DaemonFollows'
  BY <1>2, <1>5, <1>8, <1>10 DEF UpInv, NoSecondCopy, DaemonFollows, DaemonIsRealigned
<1> QED BY <1>6, <1>7, <1>11 DEF UpInv

LEMMA RealignInv ==
  ASSUME UpInv, RealignRun \/ RealignFails PROVE UpInv'
<1>1. upCmd \in Realigning /\ Present # {} /\ OnPath \in Channels
      /\ copies[OnPath] \in 1 .. MaxVersion
  BY AfterKillTyped DEF RealignRun, RealignFails
<1>2. /\ upCmd.step = "run" /\ bootUnit' \in {bootUnit, NoUnit, FreshUnit}
      /\ daemonV' \in {0, daemonV, copies[OnPath]}
      /\ UNCHANGED <<copies, front, stamp, selection, have, hidden, latest, ripe, denoFlag,
                     report, moved, unbacked, upCalls>>
      /\ \/ upCmd' = [upCmd EXCEPT !.step = "tell"] /\ RealignRun
         \/ upCmd' = [upCmd EXCEPT !.step = "tell", !.undone = TRUE]
  BY DEF RealignRun, RealignFails
<1>3. OnPath' = OnPath
  BY <1>2 DEF OnPath, Present
<1>4. FreshUnit \in Units /\ NoUnit \in Units
  BY <1>1, UpgradeAssumption DEF FreshUnit, NoUnit, Units
<1>5. /\ upCmd' \in Realigning /\ upCmd'.step = "tell" /\ upCmd'.want = upCmd.want
      /\ upCmd'.stray = upCmd.stray /\ upCmd'.verified = upCmd.verified
      /\ upCmd'.raced = upCmd.raced
      /\ \/ upCmd'.undone = TRUE
         \/ upCmd'.undone = upCmd.undone /\ RealignRun
  BY <1>1, <1>2 DEF Realigning
<1>6. UpTyped'
  BY <1>1, <1>2, <1>4, <1>5, UpgradeAssumption DEF UpInv, UpTyped, UpTypeOK, Present, Units
<1>7. SelectionFollows'
  BY <1>2, <1>5, SelectionKept DEF UpInv
<1>8. upCmd'.verified => copies'[OnPath'] >= upCmd'.want
  BY <1>2, <1>3, <1>5 DEF UpInv, DaemonFollows
<1>9. ASSUME ~upCmd'.undone
      PROVE  /\ daemonV' > 0
             /\ upCmd'.verified /\ ~upCmd'.raced => daemonV' >= upCmd'.want
  <2>1. ~upCmd.undone
        /\ daemonV' = (IF bootUnit # NoUnit \/ daemonV = 0 THEN copies[OnPath] ELSE daemonV)
    BY <1>5, <1>9 DEF RealignRun
  <2>2. daemonV \in 0 .. MaxVersion /\ MaxVersion \in Nat
    BY UpgradeAssumption DEF UpInv, UpTyped, UpTypeOK
  <2>3. ~upCmd.raced => daemonV' = copies[OnPath]
    BY <1>2, <2>1 DEF UpInv, DaemonFollows
  <2> HIDE DEF OnPath
  <2>4. daemonV' > 0
    BY <1>1, <2>1, <2>2
  <2> QED BY <1>2, <1>3, <1>5, <1>8, <2>3, <2>4
<1> HIDE DEF OnPath
<1>10. NoSecondCopy' /\ DaemonFollows'
  BY <1>2, <1>5, <1>8, <1>9 DEF UpInv, NoSecondCopy, DaemonFollows, DaemonIsRealigned
<1> QED BY <1>6, <1>7, <1>10 DEF UpInv

LEMMA UpgradeReportInv ==
  ASSUME UpInv, UpgradeReport PROVE UpInv'
<1>1. upCmd \in Realigning /\ upCmd.step = "tell"
  BY AfterKillTyped DEF UpgradeReport
<1>2. /\ report' = [verified |-> upCmd.verified, live |-> daemonV, want |-> upCmd.want,
                    raced |-> upCmd.raced, undone |-> upCmd.undone, stray |-> upCmd.stray,
                    told |-> IF daemonV = 0 THEN "note" ELSE DaemonLine(daemonV, upCmd.want)]
      /\ upCmd' = NoCommand
      /\ UNCHANGED <<copies, front, stamp, selection, have, hidden, latest, ripe, denoFlag,
                     bootUnit, daemonV, moved, unbacked, upCalls>>
  BY DEF UpgradeReport
<1>3. daemonV \in 0 .. MaxVersion /\ upCmd.want \in 0 .. MaxVersion
  BY <1>1, UpgradeAssumption DEF UpInv, UpTyped, UpTypeOK, Realigning
<1>4. report' \in [verified : BOOLEAN, told : {"none", "restarted", "old", "note"},
                   live : 0 .. MaxVersion, want : 0 .. MaxVersion, raced : BOOLEAN,
                   undone : BOOLEAN, stray : BOOLEAN]
  BY <1>1, <1>2, <1>3 DEF Realigning, DaemonLine
<1>5. UpTyped'
  BY <1>2, <1>4, IdleStep DEF UpInv, UpTyped, UpTypeOK
<1>6. SelectionFollows'
  BY <1>2, IdleStep, SelectionKept DEF UpInv
<1>7. ~report'.stray
  BY <1>1, <1>2 DEF UpInv, NoSecondCopy
<1>8. DaemonIsRealigned'
  <2>1. report'.live = daemonV /\ report'.want = upCmd.want /\ report'.verified = upCmd.verified
        /\ report'.raced = upCmd.raced /\ report'.undone = upCmd.undone
        /\ report'.told = (IF daemonV = 0 THEN "note" ELSE DaemonLine(daemonV, upCmd.want))
    BY <1>2
  <2>2. upCmd.verified /\ ~upCmd.raced /\ ~upCmd.undone => daemonV >= upCmd.want
    BY <1>1 DEF UpInv, DaemonFollows
  <2> QED BY <1>3, <2>1, <2>2 DEF DaemonIsRealigned, DaemonLine
<1> QED BY <1>2, <1>5, <1>6, <1>7, <1>8, IdleInv

LEMMA ChangeBeginInv ==
  ASSUME UpInv, NEW rt \in Runtimes3, ChangeBegin(rt) PROVE UpInv'
<1>1. /\ upCmd' = [step |-> "ensure", rt |-> rt] /\ report' = Quiet /\ Present # {}
      /\ UNCHANGED <<copies, front, stamp, selection, have, hidden, latest, ripe, denoFlag,
                     bootUnit, daemonV, moved, unbacked>>
      /\ upCalls < MaxUpCalls /\ upCalls' = upCalls + 1
  BY DEF ChangeBegin, Starts
<1>2. upCmd' \in Changing /\ upCmd'.step = "ensure"
  BY <1>1 DEF Changing
<1>3. UpTyped'
  BY <1>1, <1>2, IdleStep, UpgradeAssumption DEF UpInv, UpTyped, UpTypeOK, Present
<1>4. SelectionFollows'
  BY <1>1, <1>2, SelectionKept DEF UpInv
<1> QED BY <1>1, <1>2, <1>3, <1>4, IdleStep DEF UpInv, NoSecondCopy, DaemonFollows, DaemonIsRealigned

LEMMA ChangingTyped ==
  ASSUME UpInv, upCmd.step \in {"ensure", "package", "commit"}
  PROVE  upCmd \in Changing /\ Present # {}
BY IdleStep DEF UpInv, UpTyped, Idling, Installing, Realigning

LEMMA ChangeEnsureInv ==
  ASSUME UpInv, ChangeEnsure PROVE UpInv'
<1>1. /\ upCmd \in Changing /\ Present # {} /\ upCmd' = [upCmd EXCEPT !.step = "package"]
      /\ have \subseteq have' /\ have' \subseteq have \cup {upCmd.rt}
      /\ hidden \subseteq hidden' /\ hidden' \subseteq hidden \cup {upCmd.rt}
      /\ upCmd.rt \in have' \cup hidden'
      /\ UNCHANGED <<copies, front, stamp, selection, latest, ripe, denoFlag, bootUnit, daemonV,
                     report, moved, unbacked, upCalls>>
  BY ChangingTyped DEF ChangeEnsure
<1>2. upCmd' \in Changing /\ upCmd'.step = "package" /\ upCmd'.rt = upCmd.rt
      /\ upCmd.rt \in Runtimes3
  BY <1>1 DEF Changing
<1>3. UpTyped'
  BY <1>1, <1>2 DEF UpInv, UpTyped, UpTypeOK, Present
<1>4. SelectionFollows'
  BY <1>1, <1>2 DEF UpInv, SelectionFollows, Backed, Runs
<1> QED BY <1>1, <1>2, <1>3, <1>4 DEF UpInv, NoSecondCopy, DaemonFollows, DaemonIsRealigned

LEMMA ChangeInstallInv ==
  ASSUME UpInv, ChangeInstall PROVE UpInv'
<1>1. upCmd \in Changing /\ upCmd.step = "package"
  BY ChangingTyped DEF ChangeInstall
<1> PICK rt \in Runtimes3 : rt = upCmd.rt
  BY <1>1 DEF Changing
<1> DEFINE c == DeliveredBy(rt)
           version == IF c = "deno" THEN EffectiveLatest ELSE latest
<1>2. c \in Channels /\ (c = ChannelOf(rt) \/ (rt = "deno" /\ c = "npm"))
  BY DEF DeliveredBy, ChannelOf, Channels, Runtimes3
<1>3. version \in 1 .. MaxVersion
  BY OfferTyped DEF UpInv, DeliveredBy, ChannelOf, Runtimes3
<1> HIDE DEF version
<1>4. /\ copies' = [copies EXCEPT ![c] = version] /\ stamp' = StampAfter(c)
      /\ unbacked' = (unbacked \/ c # ChannelOf(rt))
      /\ upCmd' = [upCmd EXCEPT !.step = "commit"]
      /\ UNCHANGED <<front, selection, have, hidden, latest, ripe, denoFlag, report, moved, upCalls>>
  BY DEF ChangeInstall, version
<1>5. Postinstall(c)
  BY DEF ChangeInstall
<1> HIDE DEF c
<1>6. /\ copies' \in [Channels -> 0 .. MaxVersion] /\ copies'[c] = version /\ Present' # {}
      /\ \A r \in Runtimes3 : Backed(r) => Backed(r)'
      /\ \A r \in Runtimes3 : Runs(r) => Runs(r)'
  BY <1>2, <1>3, <1>4, CopiesGrow DEF UpInv
<1>7. upCmd' \in Changing /\ upCmd'.step = "commit" /\ upCmd'.rt = rt
  BY <1>1, <1>4 DEF Changing
<1>8. unbacked' \in BOOLEAN /\ (~unbacked' => ~unbacked /\ c = ChannelOf(rt))
  BY <1>4, Zenon DEF UpInv, UpTyped, UpTypeOK
<1>9. UpTyped'
  <2>1. daemonV' \in 0 .. MaxVersion /\ bootUnit' \in Units
    BY <1>2, <1>5, <1>6, PostinstallTyped DEF UpInv, UpTyped, UpTypeOK, Units
  <2>2. stamp' \in [channel : Channels \cup {"none", "universal"}, byHand : BOOLEAN]
    BY <1>2, <1>4 DEF UpInv, UpTyped, UpTypeOK, StampAfter, Channels
  <2> QED BY <1>4, <1>6, <1>7, <1>8, <2>1, <2>2 DEF UpInv, UpTyped, UpTypeOK, Units
<1>10. SelectionFollows'
  <2>1. copies'[c] > 0
    BY <1>3, <1>6, UpgradeAssumption
  <2>2. rt \in (have \cup hidden)'
    BY <1>1, <1>4 DEF UpInv, SelectionFollows
  <2>3. Runs(rt)' /\ (~unbacked' => Backed(rt)')
    BY <1>2, <1>8, <2>1, <2>2 DEF Runs, Backed
  <2>4. stamp' = stamp \/ stamp'.channel # "universal"
    BY <1>2, <1>4 DEF StampAfter, Channels
  <2>5. SelectionFollows /\ moved \in Runtimes3 \cup {"none"} /\ selection \in Runtimes3 \cup {"none"}
    BY DEF UpInv, UpTyped, UpTypeOK
  <2> QED BY <1>4, <1>6, <1>7, <1>8, <2>2, <2>3, <2>4, <2>5 DEF SelectionFollows
<1> QED BY <1>4, <1>7, <1>9, <1>10 DEF UpInv, NoSecondCopy, DaemonFollows, DaemonIsRealigned

LEMMA ChangeCommitInv ==
  ASSUME UpInv, ChangeCommit PROVE UpInv'
<1>1. /\ upCmd \in Changing /\ upCmd.step = "commit" /\ upCmd' = NoCommand
      /\ selection' = upCmd.rt /\ moved' = upCmd.rt
      /\ UNCHANGED <<copies, front, stamp, have, hidden, latest, ripe, denoFlag, bootUnit, daemonV,
                     report, unbacked, upCalls>>
  BY ChangingTyped DEF ChangeCommit
<1> PICK rt \in Runtimes3 : rt = upCmd.rt
  BY <1>1 DEF Changing
<1>2. UpTyped'
  BY <1>1, IdleStep DEF UpInv, UpTyped, UpTypeOK
<1>3. SelectionFollows'
  BY <1>1, IdleStep DEF UpInv, SelectionFollows, Backed, Runs, Runtimes3
<1> QED BY <1>1, <1>2, <1>3, IdleInv DEF UpInv, NoSecondCopy, DaemonFollows, DaemonIsRealigned

LEMMA OthersInv ==
  ASSUME UpInv,
         Publish \/ Ripen \/ \E copy \in Channels : ClientSpawns(copy)
  PROVE  UpInv'
<1>1. /\ UNCHANGED <<copies, front, stamp, selection, have, hidden, denoFlag, bootUnit,
                     report, moved, unbacked, upCalls>>
      /\ latest' \in 1 .. MaxVersion /\ ripe' \in 0 .. latest' /\ (denoFlag => ripe' = 1)
      /\ daemonV' \in 0 .. MaxVersion
  BY UpgradeAssumption
  DEF Publish, Ripen, ClientSpawns, Present, UpInv, UpTyped, UpTypeOK
<1>2. \/ upCmd' = upCmd /\ (daemonV' = daemonV \/ upCmd.step \notin {"run", "tell"})
      \/ /\ upCmd.step \in {"run", "tell"} /\ upCmd' = [upCmd EXCEPT !.raced = TRUE]
         /\ daemonV' > 0
  BY DEF Publish, Ripen, ClientSpawns, Present
<1>3. OnPath' = OnPath
  BY <1>1 DEF OnPath, Present
<1> HIDE DEF OnPath
<1>4. CASE upCmd' = upCmd /\ (daemonV' = daemonV \/ upCmd.step \notin {"run", "tell"})
  <2>1. UpTyped'
    BY <1>1, <1>4 DEF UpInv, UpTyped, UpTypeOK, Present
  <2>2. SelectionFollows'
    BY <1>1, <1>4 DEF UpInv, SelectionFollows, Backed, Runs
  <2> QED BY <1>1, <1>3, <1>4, <2>1, <2>2 DEF UpInv, NoSecondCopy, DaemonFollows, DaemonIsRealigned
<1>5. CASE /\ upCmd.step \in {"run", "tell"} /\ upCmd' = [upCmd EXCEPT !.raced = TRUE]
           /\ daemonV' > 0
  <2>1. upCmd \in Realigning
    BY <1>5, AfterKillTyped
  <2>2. /\ upCmd' \in Realigning /\ upCmd'.raced /\ upCmd'.step = upCmd.step
        /\ upCmd'.want = upCmd.want /\ upCmd'.stray = upCmd.stray
        /\ upCmd'.verified = upCmd.verified /\ upCmd'.undone = upCmd.undone
    BY <1>5, <2>1 DEF Realigning
  <2>3. UpTyped'
    BY <1>1, <1>5, <2>2, AfterKillTyped DEF UpInv, UpTyped, UpTypeOK, Present
  <2>4. SelectionFollows'
    BY <1>1, <1>5, <2>2, SelectionKept DEF UpInv
  <2> QED BY <1>1, <1>3, <1>5, <2>2, <2>3, <2>4 DEF UpInv, NoSecondCopy, DaemonFollows, DaemonIsRealigned
<1> QED BY <1>2, <1>4, <1>5

(* The boot service starts its daemon only where none runs.                  *)
LEMMA ReviveInv ==
  ASSUME UpInv, UnitRevives PROVE UpInv'
<1>1. /\ daemonV = 0 /\ UnitStarts > 0 /\ daemonV' = UnitStarts
      /\ UNCHANGED <<copies, front, stamp, selection, have, hidden, latest, ripe, denoFlag,
                     bootUnit, upCmd, report, moved, unbacked, upCalls>>
  BY DEF UnitRevives
<1>2. UnitStarts \in 0 .. MaxVersion
  BY DEF UnitStarts, UpInv, UpTyped, UpTypeOK, Channels
<1>3. bootUnit # NoUnit
  BY <1>1 DEF UnitStarts, NoUnit
<1>4. OnPath' = OnPath
  BY <1>1 DEF OnPath, Present
<1> HIDE DEF OnPath, UnitStarts
<1>5. UpTyped'
  BY <1>1, <1>2 DEF UpInv, UpTyped, UpTypeOK, Present
<1>6. SelectionFollows'
  BY <1>1 DEF UpInv, SelectionFollows, Backed, Runs
<1>7. upCmd.step = "tell" => upCmd.undone
  BY <1>1 DEF UpInv, DaemonFollows
<1> QED BY <1>1, <1>3, <1>4, <1>5, <1>6, <1>7
  DEF UpInv, NoSecondCopy, DaemonFollows, DaemonIsRealigned

LEMMA NewTerminalInv ==
  ASSUME UpInv, NewTerminal PROVE UpInv'
<1>1. /\ have' = have \cup hidden /\ hidden' = {} /\ upCmd = NoCommand
      /\ UNCHANGED <<copies, front, stamp, selection, latest, ripe, denoFlag, bootUnit,
                     daemonV, upCmd, report, moved, unbacked, upCalls>>
  BY DEF NewTerminal
<1>2. (have \cup hidden)' = have \cup hidden
  BY <1>1
<1>3. UpTyped'
  BY <1>1 DEF UpInv, UpTyped, UpTypeOK, Present
<1>4. SelectionFollows'
  BY <1>1, <1>2 DEF UpInv, SelectionFollows, Backed, Runs
<1> QED BY <1>1, <1>3, <1>4, IdleInv DEF UpInv, NoSecondCopy, DaemonFollows, DaemonIsRealigned

LEMMA UpInvInitially == UpInit => UpInv
<1> SUFFICES ASSUME UpInit PROVE UpInv
  OBVIOUS
<1>1. copies \in [Channels -> 0 .. MaxVersion]
  BY UpgradeAssumption DEF UpInit
<1>2. latest \in 1 .. MaxVersion /\ ripe \in 0 .. latest /\ daemonV \in 0 .. MaxVersion
      /\ upCalls \in 0 .. MaxUpCalls /\ (denoFlag => ripe = 1)
  BY UpgradeAssumption DEF UpInit
<1>3. UpTyped
  BY <1>1, <1>2, IdleStep DEF UpInit, UpTyped, UpTypeOK, Channels, NoStamp, NoUnit,
                           Runtimes3
<1> QED BY <1>3, IdleStep
  DEF UpInit, UpInv, SelectionFollows, NoSecondCopy, DaemonFollows, DaemonIsRealigned, NoStamp,
      Quiet

LEMMA UpInvInductive == UpInv /\ [UpNext]_upVars => UpInv'
<1> SUFFICES ASSUME UpInv, [UpNext]_upVars PROVE UpInv'
  OBVIOUS
<1>1. ASSUME NEW c \in {"npm", "bun", "brew"}, InstallStamped(c) PROVE UpInv'
  BY <1>1, InstallStampedInv
<1>2. CASE InstallDeno
  BY <1>2, InstallDenoInv
<1>3. ASSUME NEW c \in Channels, Uninstall(c) PROVE UpInv'
  BY <1>3, UninstallInv
<1>4. ASSUME NEW c \in Channels, ClientSpawns(c) PROVE UpInv'
  BY <1>4, OthersInv
<1>5. ASSUME NEW rt \in Runtimes3, InstallUniversal(rt) PROVE UpInv'
  BY <1>5, InstallUniversalInv
<1>6. ASSUME NEW rt \in Runtimes3, FirstRun(rt) PROVE UpInv'
  BY <1>6, FirstRunInv
<1>7. ASSUME NEW rt \in Runtimes3, ChangeBegin(rt) PROVE UpInv'
  BY <1>7, ChangeBeginInv
<1>8. ASSUME NEW by \in {"none", "npm", "universal"}, NEW dry \in BOOLEAN,
             NEW fetched \in BOOLEAN, UpgradeBegin(by, dry, fetched)
      PROVE  UpInv'
  BY <1>8, UpgradeBeginInv
<1>9. CASE UpgradeStops \/ ChangeStops
  BY <1>9, StopsInv
<1>10. CASE UpgradeInstall
  BY <1>10, UpgradeInstallInv
<1>11. ASSUME NEW answers \in BOOLEAN, NEW heard \in BOOLEAN, UpgradeVerify(answers, heard)
       PROVE  UpInv'
  BY <1>11, UpgradeVerifyInv
<1>12. CASE RealignRun \/ RealignFails
  BY <1>12, RealignInv
<1>13. CASE UpgradeReport
  BY <1>13, UpgradeReportInv
<1>14. CASE ChangeEnsure
  BY <1>14, ChangeEnsureInv
<1>15. CASE ChangeInstall
  BY <1>15, ChangeInstallInv
<1>16. CASE ChangeCommit
  BY <1>16, ChangeCommitInv
<1>17. CASE Publish \/ Ripen
  BY <1>17, OthersInv
<1>19. CASE UnitRevives
  BY <1>19, ReviveInv
<1>20. CASE NewTerminal
  BY <1>20, NewTerminalInv
<1>18. CASE UNCHANGED upVars
  <2>1. OnPath' = OnPath
    BY <1>18 DEF upVars, OnPath, Present
  <2> HIDE DEF OnPath
  <2>2. UpTyped'
    BY <1>18 DEF UpInv, UpTyped, UpTypeOK, Present, upVars
  <2> QED BY <1>18, <2>1, <2>2
    DEF UpInv, SelectionFollows, Backed, Runs, NoSecondCopy, DaemonFollows, DaemonIsRealigned,
        upVars
<1> QED BY Zenon, <1>1, <1>2, <1>3, <1>4, <1>5, <1>6, <1>7, <1>8, <1>9, <1>10, <1>11, <1>12,
     <1>13, <1>14, <1>15, <1>16, <1>17, <1>18, <1>19, <1>20 DEF UpNext

(* An upgrade of the copy of Deno adds no second pboss, an old daemon that   *)
(* answers afterwards is reported, and a changed runtime is there with a     *)
(* package that can run under it, whatever is installed, removed, published  *)
(* or spawned meanwhile (upgrade.ts, daemon-lifecycle.ts, `runtime change`). *)
THEOREM UpgradeAlwaysWhole == UpSpec => []UpgradeIsWhole
<1>1. UpInv => UpgradeIsWhole
  BY DEF UpInv, NoSecondCopy, DaemonFollows, SelectionFollows, Runs, Backed,
         UpgradeIsWhole, DenoStaysAlone, SelectionHasPackage
<1> QED BY <1>1, UpInvInitially, UpInvInductive, PTL DEF UpSpec

-----------------------------------------------------------------------------
(* Runtimes *)

Routes == Runtimes \cup Interpreters \cup {"python3", Unset, Failed}
Instance == [at : Nat, instances : Nat, mode : {"cluster", "fork"}, alone : BOOLEAN,
             up : BOOLEAN, ran : Routes, reuse : BOOLEAN, port : Nat,
             due : Runtimes \cup {Unset}]
RtTyped ==
  /\ pins \in [{"app", "eco"} -> Runtimes \cup {Unset}] /\ fallback \in Runtimes \cup {Unset}
  /\ model \in {"absent", "wrapper", "each"} /\ workers \subseteq Instance /\ IsFiniteSet(workers)
  /\ rtApp.stated \in Interpreters /\ rtApp.installed \subseteq Runtimes
  /\ daemonRt \in Runtimes \cup {Unset}
  /\ model = "absent" <=> workers = {}
  /\ model = "wrapper" => \E w \in workers : workers = {w}
  /\ \A w \in workers : w.up => w.ran \notin {Unset, Failed}
  /\ steady \in BOOLEAN

(* While nothing has changed what a spawn resolves to, the instances of a    *)
(* group are numbered without a gap, and each is one of several.             *)
Numbered(W, n) ==
  /\ \A w \in W : w.at \in Nat /\ w.at < n
  /\ \A i \in 0 .. (n - 1) : \E w \in W : w.at = i
  /\ \A v, w \in W : v.at = w.at => v = w
GroupIsWhole ==
  steady /\ model = "each" =>
    /\ \E n \in Nat : Numbered(workers, n)
    /\ \A w \in workers : w.mode = "cluster" /\ w.instances > 1

(* and those that run have resolved alike.                                   *)
Route == WorkerRoute("app")
Shares == Route \in Shimmed /\ verdicts[Route]
SpawnedAlike ==
  steady /\ model = "each" =>
    \A w \in workers : w.up => w.reuse = Shares /\ w.port = (IF Shares THEN 0 ELSE w.at)

WrapperIsNode == steady /\ model = "wrapper" => UsesNode(Unset)

RtInv == RtTyped /\ PinBinds /\ GroupIsWhole /\ SpawnedAlike /\ WrapperIsNode /\ WrapperFindsNode

(* All instances of an app resolve alike: only its base name carries a pin.  *)
LEMMA NamesAlike ==
  ASSUME RtTyped, NEW name \in {"app", "app-0", "app-1", "app-2"}
  PROVE  PinOf(name) = pins["app"] /\ Effective(name) = Effective("app")
         /\ WorkerRoute(name) = Route
<1>1. name \in DOMAIN pins => name = "app"
  BY DEF RtTyped
<1>2. PinOf(name) = pins["app"] /\ PinOf("app") = pins["app"]
  BY <1>1 DEF PinOf
<1>3. Effective(name) = Effective("app")
  BY <1>2 DEF Effective
<1> QED BY <1>2, <1>3 DEF WorkerRoute, JsRoute, Route

(* What the interpreter of a script can be.                                  *)
LEMMA RoutesTyped ==
  ASSUME RtTyped
  PROVE  /\ Effective("app") \in Runtimes \cup {Unset}
         /\ ScriptInterpreter \in Runtimes \cup {Failed}
         /\ JsRoute("app") \in Runtimes \cup {Failed}
         /\ Route \in Routes \ {Unset}
         /\ WrapperRoute \in {"node", Failed}
<1>1. PinOf("app") = pins["app"] /\ pins["app"] \in Runtimes \cup {Unset}
      /\ pins["eco"] \in Runtimes \cup {Unset}
  BY NamesAlike DEF RtTyped
<1>2. Effective("app") \in Runtimes \cup {Unset}
  BY <1>1 DEF Effective, RtTyped
<1>3. Discovered \in Runtimes \cup {Failed}
  BY DEF Discovered, Runtimes
<1>4. ScriptInterpreter \in Runtimes \cup {Failed}
  BY <1>3 DEF ScriptInterpreter, RtTyped
<1>5. JsRoute("app") \in Runtimes \cup {Failed}
  BY <1>2, <1>4 DEF JsRoute, CommandPrefix
<1>6. Route \in Routes \ {Unset}
  BY <1>4, <1>5 DEF Route, WorkerRoute, Routes, RtTyped, Runtimes, Unset, Failed
<1>7. WrapperRoute \in {"node", Failed}
  BY DEF WrapperRoute
<1> QED BY <1>2, <1>4, <1>5, <1>6, <1>7

(* A pinned app runs under its pin, or not at all.                           *)
LEMMA PinObeyed ==
  ASSUME RtTyped, pins["app"] # Unset, rtApp.stated = Unset, rtApp.ext = "js"
  PROVE  Route \in {pins["app"], Failed} /\ WrapperRoute \in {pins["app"], Failed}
<1>1. Effective("app") = pins["app"]
  BY NamesAlike DEF Effective
<1>2. JsRoute("app") \in {pins["app"], Failed}
  BY <1>1 DEF JsRoute, CommandPrefix
<1> QED BY <1>2 DEF Route, WorkerRoute, WrapperRoute, Failed

(* What was Node when the wrapper was chosen is Node when it is spawned.     *)
LEMMA NodeIsFound ==
  ASSUME RtTyped, UsesNode(Unset), WrapperRoute = Failed
  PROVE  "node" \notin rtApp.installed \cup {daemonRt}
<1>1. CASE rtApp.stated # Unset
  BY <1>1 DEF UsesNode, WrapperRoute, Failed
<1>2. CASE rtApp.stated = Unset /\ Effective("app") # Unset
  <2>1. Effective("app") = "node"
    BY <1>2 DEF UsesNode
  <2>2. JsRoute("app") = CommandPrefix("node")
    BY <1>2, <2>1 DEF JsRoute
  <2>3. CommandPrefix("node") # "node"
    BY <1>2, <2>2 DEF WrapperRoute, Failed
  <2> QED BY <2>3 DEF CommandPrefix, Found
<1>3. CASE rtApp.stated = Unset /\ Effective("app") = Unset
  BY <1>3 DEF UsesNode, WrapperRoute, JsRoute, Failed
<1> QED BY <1>1, <1>2, <1>3

(* One spawn.                                                                *)
LEMMA SpawnedOne ==
  ASSUME RtTyped, NEW w \in Instance
  PROVE  LET s == Spawned(w) IN
         /\ s \in Instance /\ s.at = w.at /\ s.instances = w.instances /\ s.mode = w.mode
         /\ s.up => s.ran \notin {Unset, Failed}
         /\ s.up /\ s.due # Unset /\ rtApp.stated = Unset /\ rtApp.ext = "js" => s.ran = s.due
         /\ model = "each" /\ w.mode = "cluster" /\ w.instances > 1 =>
              s.reuse = Shares /\ s.port = (IF Shares THEN 0 ELSE w.at)
         /\ model = "wrapper" /\ UsesNode(Unset) /\ s.ran = Failed =>
              "node" \notin rtApp.installed \cup {daemonRt}
<1> DEFINE s == Spawned(w)
           route == IF model = "wrapper" THEN WrapperRoute ELSE Route
           shared == Decorated(w, route)
<1>1. NameOf(w) \in {"app", "app-0", "app-1", "app-2"}
  BY DEF NameOf, InstanceName
<1>2. WorkerRoute(NameOf(w)) = Route
  BY <1>1, NamesAlike
<1> HIDE DEF Route
<1>3. s = [w EXCEPT !.up = route # Failed, !.ran = route, !.reuse = shared,
                    !.port = PortOf(w, shared), !.due = pins["app"]]
  BY <1>2 DEF Spawned
<1>4. route \in Routes \ {Unset} /\ pins["app"] \in Runtimes \cup {Unset}
  BY RoutesTyped DEF RtTyped, Routes, Runtimes, Unset, Failed
<1>5. shared \in BOOLEAN
  <2>1. shared = (route \in Shimmed /\ w.instances > 1 /\ verdicts[route])
    BY DEF Decorated
  <2> QED BY <2>1, Zenon
<1>6. PortOf(w, shared) \in Nat
  BY DEF PortOf, Instance
<1>7. (route # Failed) \in BOOLEAN
  OBVIOUS
<1> HIDE DEF s, route, shared
<1>8. /\ s \in Instance /\ s.at = w.at /\ s.instances = w.instances /\ s.mode = w.mode
      /\ s.up = (route # Failed) /\ s.ran = route /\ s.reuse = shared
      /\ s.port = PortOf(w, shared) /\ s.due = pins["app"]
  BY <1>3, <1>4, <1>5, <1>6, <1>7 DEF Instance
<1>9. pins["app"] # Unset /\ rtApp.stated = Unset /\ rtApp.ext = "js" => route \in {pins["app"], Failed}
  BY PinObeyed DEF route
<1>10. ASSUME model = "each", w.mode = "cluster", w.instances > 1
       PROVE  s.reuse = Shares /\ s.port = (IF Shares THEN 0 ELSE w.at)
  <2>1. route = Route
    BY <1>10 DEF route
  <2>2. shared = Shares
    BY <1>10, <2>1 DEF shared, Decorated, Shares
  <2> QED BY <1>8, <1>10, <2>2 DEF PortOf
<1>11. ASSUME model = "wrapper", UsesNode(Unset), s.ran = Failed
       PROVE  "node" \notin rtApp.installed \cup {daemonRt}
  BY <1>8, <1>11, NodeIsFound DEF route
<1>12. s.up => s.ran \notin {Unset, Failed}
  BY <1>4, <1>8
<1>13. s.up /\ s.due # Unset /\ rtApp.stated = Unset /\ rtApp.ext = "js" => s.ran = s.due
  BY <1>8, <1>9
<1> QED BY <1>8, <1>10, <1>11, <1>12, <1>13 DEF s

(* A group that is numbered without a gap has as many members as numbers.    *)
LEMMA NumberedCount ==
  ASSUME NEW W, NEW n \in Nat, Numbered(W, n)
  PROVE  IsFiniteSet(W) /\ Cardinality(W) = n
<1> DEFINE f == [i \in 0 .. (n - 1) |-> CHOOSE w \in W : w.at = i]
<1>1. \A i \in 0 .. (n - 1) : f[i] \in W /\ f[i].at = i
  BY DEF Numbered
<1>2. f \in Bijection(0 .. (n - 1), W)
  <2>1. f \in [0 .. (n - 1) -> W]
    BY <1>1
  <2>2. \A i, j \in 0 .. (n - 1) : f[i] = f[j] => i = j
    BY <1>1
  <2>3. \A w \in W : w.at \in 0 .. (n - 1)
    BY DEF Numbered
  <2>4. \A w \in W : \E i \in 0 .. (n - 1) : f[i] = w
    BY <1>1, <2>3 DEF Numbered
  <2> HIDE DEF f
  <2> QED BY <2>1, <2>2, <2>4 DEF Bijection, Injection, Surjection, IsInjective
<1>3. IsFiniteSet(0 .. (n - 1)) /\ Cardinality(0 .. (n - 1)) = n
  BY FS_Interval
<1>4. ExistsBijection(0 .. (n - 1), W)
  BY <1>2 DEF ExistsBijection
<1> QED BY <1>3, <1>4, FS_Bijection

LEMMA NumberedBelow ==
  ASSUME NEW W, NEW n \in Nat, Numbered(W, n), NEW k \in 0 .. n
  PROVE  Numbered({w \in W : w.at < k}, k)
BY DEF Numbered

(* What keeps the numbers keeps them without a gap.                          *)
LEMMA NumberedImage ==
  ASSUME NEW W, NEW n \in Nat, Numbered(W, n), NEW f, \A w \in W : f[w].at = w.at
  PROVE  Numbered({f[w] : w \in W}, n)
<1> DEFINE V == {f[w] : w \in W}
<1>1. \A v \in V : \E w \in W : v = f[w] /\ v.at = w.at
  OBVIOUS
<1>2. \A v \in V : v.at \in Nat /\ v.at < n
  BY <1>1 DEF Numbered
<1>3. \A i \in 0 .. (n - 1) : \E v \in V : v.at = i
  BY DEF Numbered
<1>4. \A u, v \in V : u.at = v.at => u = v
  BY <1>1 DEF Numbered
<1> QED BY <1>2, <1>3, <1>4 DEF Numbered

(* An operation that writes each instance anew, and its number as it was.    *)
LEMMA ImageTyped ==
  ASSUME RtTyped, NEW f, \A w \in workers : f[w] \in Instance,
         workers' = {f[w] : w \in workers}
  PROVE  /\ workers' \subseteq Instance /\ IsFiniteSet(workers')
         /\ (workers' = {} <=> workers = {})
         /\ (\E w \in workers : workers = {w}) => \E w \in workers' : workers' = {w}
<1> DEFINE g == [w \in workers |-> f[w]]
<1>1. g \in Surjection(workers, workers')
  BY DEF Surjection
<1>2. IsFiniteSet(workers')
  BY <1>1, FS_Surjection DEF RtTyped
<1> QED BY <1>2

LEMMA ImageWhole ==
  ASSUME RtTyped, GroupIsWhole, NEW f, workers' = {f[w] : w \in workers}, steady, model = "each",
         \A w \in workers : f[w].at = w.at /\ f[w].mode = w.mode /\ f[w].instances > 1
  PROVE  (\E n \in Nat : Numbered(workers', n))
         /\ \A w \in workers' : w.mode = "cluster" /\ w.instances > 1
<1>1. PICK n \in Nat : Numbered(workers, n)
  BY DEF GroupIsWhole
<1>2. Numbered(workers', n)
  BY <1>1, NumberedImage
<1> QED BY <1>2 DEF GroupIsWhole

(* While what a spawn rests on stays, so does what it resolves to.           *)
LEMMA ResolutionKept ==
  ASSUME UNCHANGED <<pins, fallback, rtApp, daemonRt>>
  PROVE  Route' = Route /\ UsesNode(Unset)' = UsesNode(Unset)
         /\ (verdicts' = verdicts => Shares' = Shares)
<1>1. Route' = Route
  BY DEF Route, WorkerRoute, JsRoute, Effective, PinOf, CommandPrefix, Found, ScriptInterpreter,
         Discovered
<1>2. UsesNode(Unset)' = UsesNode(Unset)
  BY DEF UsesNode, Effective, PinOf, ScriptInterpreter, Discovered, Found
<1> QED BY <1>1, <1>2 DEF Shares

(* Some of the instances are spawned.                                        *)
LEMMA SomeSpawned ==
  ASSUME RtInv, NEW some,
         workers' = {IF w \in some THEN Spawned(w) ELSE w : w \in workers},
         UNCHANGED <<pins, fallback, daemonRt, rtApp, model, verdicts, steady>>
  PROVE  RtInv'
<1> DEFINE f == [w \in workers |-> IF w \in some THEN Spawned(w) ELSE w]
<1>1. workers' = {f[w] : w \in workers}
  OBVIOUS
<1>2. \A w \in workers : w \in Instance
  BY DEF RtInv, RtTyped
<1>3. ASSUME NEW w \in workers
      PROVE  /\ f[w] \in Instance /\ f[w].at = w.at /\ f[w].mode = w.mode
             /\ f[w].instances = w.instances
             /\ f[w].up => f[w].ran \notin {Unset, Failed}
             /\ f[w].up /\ f[w].due # Unset /\ rtApp.stated = Unset /\ rtApp.ext = "js" =>
                  f[w].ran = f[w].due
             /\ steady /\ model = "each" /\ f[w].up =>
                  f[w].reuse = Shares /\ f[w].port = (IF Shares THEN 0 ELSE f[w].at)
             /\ steady /\ model = "wrapper" /\ f[w].ran = Failed =>
                  "node" \notin rtApp.installed \cup {daemonRt}
  <2>1. CASE w \in some
    <3>1. f[w] = Spawned(w)
      BY <2>1
    <3>2. steady /\ model = "each" => w.mode = "cluster" /\ w.instances > 1
      BY DEF RtInv, GroupIsWhole
    <3>3. steady /\ model = "wrapper" => UsesNode(Unset)
      BY DEF RtInv, WrapperIsNode
    <3> HIDE DEF f
    <3> QED BY <1>2, <3>1, <3>2, <3>3, SpawnedOne DEF RtInv
  <2>2. CASE w \notin some
    <3>1. f[w] = w
      BY <2>2
    <3> HIDE DEF f
    <3> QED BY <1>2, <3>1 DEF RtInv, RtTyped, PinBinds, SpawnedAlike, WrapperFindsNode
  <2> QED BY <2>1, <2>2
<1> HIDE DEF f
<1>4. RtTyped'
  <2>1. /\ workers' \subseteq Instance /\ IsFiniteSet(workers')
        /\ (workers' = {} <=> workers = {})
        /\ (\E w \in workers : workers = {w}) => \E w \in workers' : workers' = {w}
    BY <1>1, <1>3, ImageTyped DEF RtInv
  <2>2. \A w \in workers' : w.up => w.ran \notin {Unset, Failed}
    BY <1>1, <1>3
  <2> QED BY <2>1, <2>2 DEF RtInv, RtTyped
<1>5. PinBinds'
  BY <1>1, <1>3 DEF PinBinds
<1>6. GroupIsWhole'
  <2> SUFFICES ASSUME steady, model = "each"
               PROVE  (\E n \in Nat : Numbered(workers', n))
                      /\ \A w \in workers' : w.mode = "cluster" /\ w.instances > 1
    BY DEF GroupIsWhole
  <2>1. \A w \in workers : f[w].instances > 1
    BY <1>3 DEF RtInv, GroupIsWhole
  <2> QED BY <1>1, <1>3, <2>1, ImageWhole DEF RtInv
<1>7. Route' = Route /\ UsesNode(Unset)' = UsesNode(Unset) /\ Shares' = Shares
  BY ResolutionKept
<1>8. SpawnedAlike'
  BY <1>1, <1>3, <1>7 DEF SpawnedAlike
<1>9. WrapperIsNode' /\ WrapperFindsNode'
  BY <1>1, <1>3, <1>7 DEF RtInv, WrapperIsNode, WrapperFindsNode
<1> QED BY <1>4, <1>5, <1>6, <1>8, <1>9 DEF RtInv

LEMMA SpawnAllInv == ASSUME RtInv, SpawnAll PROVE RtInv'
<1> DEFINE some == {w \in workers : w.ran = Unset}
<1>1. workers' = {IF w \in some THEN Spawned(w) ELSE w : w \in workers}
  BY DEF SpawnAll
<1> HIDE DEF some
<1> QED BY <1>1, SomeSpawned DEF SpawnAll

LEMMA RestartSomeInv == ASSUME RtInv, RestartSome PROVE RtInv'
<1>1. PICK some : workers' = {IF w \in some THEN Spawned(w) ELSE w : w \in workers}
  BY DEF RestartSome
<1> QED BY <1>1, SomeSpawned DEF RestartSome

(* A new configuration is not running yet.                                   *)
LEMMA ConfigTyped ==
  ASSUME NEW i \in Nat, NEW n \in Nat \ {0}, NEW single \in BOOLEAN
  PROVE  LET c == Config(i, n, single) IN
         /\ c \in Instance /\ c.at = i /\ c.instances = n /\ ~c.up /\ c.ran = Unset
         /\ c.ran # Failed /\ c.mode = IF n > 1 THEN "cluster" ELSE "fork"
BY DEF Config, Instance, Routes, Unset, Failed

LEMMA StartNewInv == ASSUME RtInv, StartNew PROVE RtInv'
<1>1. PICK n \in Counts, launcher \in Launched, keeps \in BOOLEAN :
        /\ launcher = Unset => keeps
        /\ pins' = WrittenPin(launcher, keeps)
        /\ model' = IF n > 1 /\ UsesNode(launcher) THEN "wrapper" ELSE "each"
        /\ steady' = (keeps /\ n > 1)
        /\ workers' = {Config(i, n, n = 1 \/ model' = "wrapper") :
                         i \in IF model' = "wrapper" THEN {0} ELSE 0 .. (n - 1)}
  BY DEF StartNew
<1> DEFINE places == IF model' = "wrapper" THEN {0} ELSE 0 .. (n - 1)
           single == n = 1 \/ model' = "wrapper"
           h == [i \in places |-> Config(i, n, single)]
<1>2. n \in Nat \ {0} /\ launcher \in Runtimes \cup {Unset}
      /\ UNCHANGED <<fallback, daemonRt, rtApp, verdicts>>
  BY <1>1, RuntimeAssumption DEF StartNew, Runtimes, Unset
<1>3. single \in BOOLEAN /\ places \subseteq Nat /\ IsFiniteSet(places) /\ 0 \in places
      /\ model' \in {"wrapper", "each"}
  <2>1. IsFiniteSet(0 .. (n - 1))
    BY <1>2, FS_Interval
  <2>2. IsFiniteSet({0})
    BY FS_Singleton
  <2> QED BY <1>1, <1>2, <2>1, <2>2
<1>4. workers' = {h[i] : i \in places}
  BY <1>1
<1>5. \A i \in places : /\ h[i] \in Instance /\ h[i].at = i /\ h[i].instances = n /\ ~h[i].up
                        /\ h[i].ran = Unset /\ h[i].ran # Failed
                        /\ h[i].mode = IF n > 1 THEN "cluster" ELSE "fork"
  <2> TAKE i \in places
  <2>1. h[i] = Config(i, n, single) /\ i \in Nat
    BY <1>3
  <2> HIDE DEF h, single, places
  <2> QED BY <1>2, <1>3, <2>1, ConfigTyped
<1>6. workers' \subseteq Instance /\ IsFiniteSet(workers') /\ workers' # {}
      /\ (model' = "wrapper" => \E w \in workers' : workers' = {w})
  <2>1. h \in Surjection(places, workers')
    BY <1>4 DEF Surjection
  <2> HIDE DEF h
  <2>2. IsFiniteSet(workers')
    BY <1>3, <2>1, FS_Surjection
  <2>3. model' = "wrapper" => workers' = {h[0]}
    BY <1>4
  <2> HIDE DEF places
  <2> QED BY <1>3, <1>4, <1>5, <2>2, <2>3
<1> HIDE DEF h
<1>7. pins' \in [{"app", "eco"} -> Runtimes \cup {Unset}]
  BY <1>1, <1>2 DEF RtInv, RtTyped, WrittenPin
<1>8. RtTyped'
  <2>1. \A w \in workers' : ~w.up
    BY <1>4, <1>5
  <2> QED BY <1>1, <1>2, <1>3, <1>6, <1>7, <2>1 DEF RtInv, RtTyped
<1>9. PinBinds' /\ SpawnedAlike' /\ WrapperFindsNode'
  BY <1>4, <1>5 DEF PinBinds, SpawnedAlike, WrapperFindsNode
<1>10. ASSUME steady', model' = "each"
       PROVE  (\E k \in Nat : Numbered(workers', k))
              /\ \A w \in workers' : w.mode = "cluster" /\ w.instances > 1
  <2>1. n > 1 /\ places = 0 .. (n - 1)
    BY <1>1, <1>2, <1>10
  <2> HIDE DEF places
  <2>2. \A w \in workers' : \E i \in 0 .. (n - 1) : w = h[i] /\ w.at = i
    BY <1>4, <1>5, <2>1
  <2>3. \A i \in 0 .. (n - 1) : h[i] \in workers' /\ h[i].at = i
    BY <1>4, <1>5, <2>1
  <2>4. Numbered(workers', n)
    BY <1>2, <2>2, <2>3 DEF Numbered
  <2>5. \A w \in workers' : w.mode = "cluster" /\ w.instances > 1
    BY <1>2, <1>4, <1>5, <2>1
  <2> QED BY <1>2, <2>4, <2>5
<1>11. ASSUME steady', model' = "wrapper" PROVE UsesNode(Unset)'
  <2>1. keeps /\ UsesNode(launcher)
    BY <1>1, <1>11
  <2>2. CASE launcher = Unset
    <3>1. pins' = pins
      BY <1>1, <2>2 DEF WrittenPin
    <3> QED BY <1>2, <2>1, <2>2, <3>1, ResolutionKept
  <2>3. CASE launcher # Unset
    <3>1. pins'["app"] = launcher
      BY <1>1, <2>1, <2>3 DEF WrittenPin, RtInv, RtTyped
    <3>2. Effective("app")' = launcher
      BY <2>3, <3>1 DEF Effective, PinOf
    <3> QED BY <1>2, <2>1, <2>3, <3>2 DEF UsesNode
  <2> QED BY <2>2, <2>3
<1> QED BY <1>8, <1>9, <1>10, <1>11 DEF RtInv, GroupIsWhole, WrapperIsNode

(* An operation that spawns nothing: what runs ran before, and what is new   *)
(* or stopped has no result yet.                                             *)
Same(v, w) == /\ v.at = w.at /\ v.up = w.up /\ v.ran = w.ran /\ v.due = w.due
              /\ v.reuse = w.reuse /\ v.port = w.port
Waiting(v) == ~v.up /\ v.ran # Failed
LEMMA NothingSpawned ==
  ASSUME RtInv, \A v \in workers' : Waiting(v) \/ \E w \in workers : Same(v, w),
         rtApp' = rtApp, model' = model \/ workers' = {},
         steady' => steady /\ UNCHANGED <<pins, fallback, daemonRt>>
                    /\ (verdicts' = verdicts \/ \A v \in workers' : Waiting(v))
  PROVE  /\ PinBinds' /\ SpawnedAlike' /\ WrapperFindsNode'
         /\ (model' = model => WrapperIsNode')
         /\ \A v \in workers' : v.up => v.ran \notin {Unset, Failed}
<1>1. PinBinds' /\ \A v \in workers' : v.up => v.ran \notin {Unset, Failed}
  BY DEF RtInv, RtTyped, PinBinds, Same, Waiting
<1>2. SpawnedAlike'
  <2> SUFFICES ASSUME steady', model' = "each", NEW v \in workers', v.up
               PROVE  v.reuse = Shares' /\ v.port = (IF Shares' THEN 0 ELSE v.at)
    BY DEF SpawnedAlike
  <2>1. PICK w \in workers : Same(v, w)
    BY DEF Waiting
  <2>2. Shares' = Shares /\ model = "each" /\ steady
    BY ResolutionKept DEF Waiting
  <2> QED BY <2>1, <2>2 DEF RtInv, SpawnedAlike, Same
<1>3. WrapperFindsNode'
  BY DEF RtInv, WrapperFindsNode, Same, Waiting
<1>4. model' = model => WrapperIsNode'
  BY ResolutionKept DEF RtInv, WrapperIsNode
<1> QED BY <1>1, <1>2, <1>3, <1>4

(* A range of new instances.                                                 *)
LEMMA RangeTyped ==
  ASSUME NEW a \in Nat, NEW b \in Nat, NEW h, \A i \in a .. (b - 1) : h[i] \in Instance
  PROVE  /\ {h[i] : i \in a .. (b - 1)} \subseteq Instance
         /\ IsFiniteSet({h[i] : i \in a .. (b - 1)})
<1> DEFINE g == [i \in a .. (b - 1) |-> h[i]]
           V == {h[i] : i \in a .. (b - 1)}
<1>1. g \in Surjection(a .. (b - 1), V)
  BY DEF Surjection
<1>2. IsFiniteSet(a .. (b - 1))
  BY FS_Interval
<1>3. IsFiniteSet(V)
  BY <1>1, <1>2, FS_Surjection
<1> QED BY <1>3

LEMMA NumberedUnion ==
  ASSUME NEW V, NEW a \in Nat, Numbered(V, a), NEW b \in Nat, a <= b, NEW h,
         \A i \in a .. (b - 1) : h[i].at = i
  PROVE  Numbered(V \cup {h[i] : i \in a .. (b - 1)}, b)
<1> DEFINE U == {h[i] : i \in a .. (b - 1)}
<1>1. \A u \in U : \E i \in a .. (b - 1) : u = h[i] /\ u.at = i
  OBVIOUS
<1>2. \A i \in a .. (b - 1) : h[i] \in U /\ h[i].at = i
  OBVIOUS
<1> HIDE DEF U
<1>3. \A w \in V \cup U : w.at \in Nat /\ w.at < b
  BY <1>1 DEF Numbered
<1>4. \A i \in 0 .. (b - 1) : \E w \in V \cup U : w.at = i
  <2> TAKE i \in 0 .. (b - 1)
  <2>1. i \in 0 .. (a - 1) \/ i \in a .. (b - 1)
    OBVIOUS
  <2> QED BY <1>2, <2>1 DEF Numbered
<1>5. \A v, w \in V \cup U : v.at = w.at => v = w
  <2> TAKE v, w \in V \cup U
  <2>1. \A u \in U : u.at >= a
    BY <1>1
  <2>2. \A u \in V : u.at \in Nat /\ u.at < a
    BY DEF Numbered
  <2>3. CASE v \in V /\ w \in V
    BY <2>3 DEF Numbered
  <2>4. CASE v \in U /\ w \in U
    BY <1>1, <2>4
  <2>5. \A u \in U : u.at \in Nat
    BY <1>1
  <2> QED BY <2>1, <2>2, <2>3, <2>4, <2>5
<1> QED BY <1>3, <1>4, <1>5 DEF Numbered, U

LEMMA StartAgainInv == ASSUME RtInv, StartAgain PROVE RtInv'
<1>1. PICK n \in Counts, launcher \in Launched :
        /\ pins' = WrittenPin(launcher, TRUE)
        /\ IF model = "wrapper"
           THEN workers' = {IF w.up /\ w.instances = n THEN w
                            ELSE [w EXCEPT !.instances = n, !.up = FALSE, !.ran = Unset] :
                              w \in workers}
           ELSE workers' = {IF w.up THEN w ELSE [w EXCEPT !.ran = Unset] : w \in workers} \cup
                           {Config(i, n, FALSE) : i \in Cardinality(workers) .. (n - 1)}
        /\ steady' = (/\ steady /\ pins' = pins
                      /\ model = "wrapper" \/ n <= Cardinality(workers))
  BY DEF StartAgain
<1>2. /\ n \in Nat \ {0} /\ model \in {"wrapper", "each"} /\ workers # {}
      /\ UNCHANGED <<fallback, daemonRt, rtApp, model, verdicts>>
      /\ Cardinality(workers) \in Nat /\ \A w \in workers : w \in Instance
      /\ IsFiniteSet(workers)
  BY RuntimeAssumption, FS_CardinalityType DEF StartAgain, RtInv, RtTyped
<1>3. pins' \in [{"app", "eco"} -> Runtimes \cup {Unset}]
  <2>1. launcher \in Runtimes \cup {Unset}
    BY RuntimeAssumption DEF Runtimes, Unset
  <2> QED BY <1>1, <2>1 DEF RtInv, RtTyped, WrittenPin
<1>4. steady' \in BOOLEAN /\ (steady' => steady /\ pins' = pins)
  BY <1>1, Zenon
<1>5. CASE model = "wrapper"
  <2> DEFINE f == [w \in workers |->
                     IF w.up /\ w.instances = n THEN w
                     ELSE [w EXCEPT !.instances = n, !.up = FALSE, !.ran = Unset]]
  <2>1. workers' = {f[w] : w \in workers}
    BY <1>1, <1>5
  <2>2. \A w \in workers : /\ f[w] \in Instance
                           /\ Waiting(f[w]) \/ Same(f[w], w)
    <3> TAKE w \in workers
    <3>1. f[w] = IF w.up /\ w.instances = n THEN w
                 ELSE [w EXCEPT !.instances = n, !.up = FALSE, !.ran = Unset]
      OBVIOUS
    <3> HIDE DEF f
    <3>2. CASE f[w] = w
      BY <1>2, <3>2 DEF Same
    <3>3. CASE f[w] = [w EXCEPT !.instances = n, !.up = FALSE, !.ran = Unset]
      BY <1>2, <3>3 DEF Instance, Routes, Waiting, Unset, Failed
    <3> QED BY <3>1, <3>2, <3>3
  <2> HIDE DEF f
  <2>3. /\ workers' \subseteq Instance /\ IsFiniteSet(workers') /\ workers' # {}
        /\ \E w \in workers' : workers' = {w}
    BY <1>2, <1>5, <2>1, <2>2, ImageTyped DEF RtInv, RtTyped
  <2>4. \A v \in workers' : Waiting(v) \/ \E w \in workers : Same(v, w)
    BY <2>1, <2>2
  <2>5. /\ PinBinds' /\ SpawnedAlike' /\ WrapperFindsNode' /\ WrapperIsNode'
        /\ \A v \in workers' : v.up => v.ran \notin {Unset, Failed}
    BY <1>2, <1>4, <2>4, NothingSpawned
  <2>6. RtTyped'
    BY <1>2, <1>3, <1>4, <1>5, <2>3, <2>5 DEF RtInv, RtTyped
  <2> QED BY <1>2, <1>5, <2>5, <2>6 DEF RtInv, GroupIsWhole
<1>6. CASE model = "each"
  <2> DEFINE f == [w \in workers |-> IF w.up THEN w ELSE [w EXCEPT !.ran = Unset]]
             h == [i \in Cardinality(workers) .. (n - 1) |-> Config(i, n, FALSE)]
             kept == {f[w] : w \in workers}
             added == {h[i] : i \in Cardinality(workers) .. (n - 1)}
  <2>1. workers' = kept \cup added
    BY <1>1, <1>6
  <2>2. \A w \in workers : /\ f[w] \in Instance /\ f[w].at = w.at /\ f[w].mode = w.mode
                           /\ f[w].instances = w.instances
                           /\ Waiting(f[w]) \/ Same(f[w], w)
    BY <1>2 DEF Instance, Routes, Waiting, Same, Unset, Failed
  <2>3. \A i \in Cardinality(workers) .. (n - 1) : h[i] \in Instance /\ Waiting(h[i])
    <3> TAKE i \in Cardinality(workers) .. (n - 1)
    <3>1. h[i] = Config(i, n, FALSE) /\ i \in Nat
      BY <1>2
    <3>2. n \in Nat \ {0} /\ FALSE \in BOOLEAN
      BY <1>2
    <3> HIDE DEF h
    <3>3. Config(i, n, FALSE) \in Instance /\ Waiting(Config(i, n, FALSE))
      BY <3>1, <3>2, ConfigTyped, Zenon DEF Waiting
    <3> QED BY <3>1, <3>3
  <2>4. kept \subseteq Instance /\ IsFiniteSet(kept) /\ kept # {}
    <3>1. f \in Surjection(workers, kept)
      BY DEF Surjection
    <3> HIDE DEF f
    <3>2. IsFiniteSet(kept)
      BY <1>2, <3>1, FS_Surjection
    <3> QED BY <1>2, <2>2, <3>2
  <2>5. added \subseteq Instance /\ IsFiniteSet(added)
    <3> HIDE DEF h
    <3> QED BY <1>2, <2>3, RangeTyped
  <2>6. workers' \subseteq Instance /\ IsFiniteSet(workers') /\ workers' # {}
    <3> HIDE DEF kept, added
    <3> QED BY <2>1, <2>4, <2>5, FS_Union
  <2> HIDE DEF f, h
  <2>7. \A v \in workers' : Waiting(v) \/ \E w \in workers : Same(v, w)
    BY <2>1, <2>2, <2>3
  <2>8. /\ PinBinds' /\ SpawnedAlike' /\ WrapperFindsNode' /\ WrapperIsNode'
        /\ \A v \in workers' : v.up => v.ran \notin {Unset, Failed}
    BY <1>2, <1>4, <2>7, NothingSpawned
  <2>9. RtTyped'
    BY <1>2, <1>3, <1>4, <1>6, <2>6, <2>8 DEF RtInv, RtTyped
  <2>10. ASSUME steady'
         PROVE  (\E k \in Nat : Numbered(workers', k))
                /\ \A w \in workers' : w.mode = "cluster" /\ w.instances > 1
    <3>1. steady /\ n <= Cardinality(workers)
      BY <1>1, <1>6, <2>10
    <3>2. added = {}
      BY <1>2, <3>1
    <3>3. workers' = {f[w] : w \in workers}
      BY <2>1, <3>2
    <3>4. \A w \in workers : f[w].instances > 1
      BY <1>6, <2>2, <3>1 DEF RtInv, GroupIsWhole
    <3> HIDE DEF kept, added
    <3> QED BY <1>6, <2>2, <3>1, <3>3, <3>4, ImageWhole DEF RtInv
  <2> QED BY <2>8, <2>9, <2>10 DEF RtInv, GroupIsWhole
<1> QED BY <1>2, <1>5, <1>6

(* The instance that scale copies.                                           *)
LEMMA FirstIsOne ==
  ASSUME RtTyped, workers # {}
  PROVE  (CHOOSE w \in workers : \A v \in workers : w.at <= v.at) \in workers
<1> DEFINE S == {w.at : w \in workers}
<1>1. S \subseteq Nat /\ S # {}
  BY DEF RtTyped, Instance
<1>2. PICK n \in S : \A m \in S : n <= m
  BY <1>1, Least
<1>3. \E w \in workers : \A v \in workers : w.at <= v.at
  BY <1>2
<1> QED BY <1>3

(* Each instance told a new count, and nothing else.                         *)
LEMMA Recounted ==
  ASSUME NEW w \in Instance, NEW count \in Nat
  PROVE  LET v == [w EXCEPT !.instances = count] IN
         v \in Instance /\ Same(v, w) /\ v.mode = w.mode /\ v.instances = count
BY DEF Instance, Same

LEMMA ScaleToInv == ASSUME RtInv, ScaleTo PROVE RtInv'
<1> DEFINE size == Cardinality(workers)
           first == CHOOSE w \in workers : \A v \in workers : w.at <= v.at
           enough(count) == IF count = 0 THEN 1 ELSE count
           below(v) == {u \in workers : u.at < v.at}
<1>1. PICK count \in Counts \cup {0} :
        /\ model = "wrapper" \/ count # size
        /\ CASE model = "wrapper" ->
                  workers' = {[w EXCEPT !.instances = enough(count), !.up = FALSE, !.ran = Unset] :
                                w \in workers}
             [] model = "each" /\ count > size ->
                  workers' = {[w EXCEPT !.instances = count] : w \in workers} \cup
                             {Added(first, i, count) : i \in size .. (count - 1)}
             [] OTHER ->
                  workers' = {[w EXCEPT !.instances = enough(count)] : w \in
                                {v \in workers : Cardinality(below(v)) < count}}
        /\ steady' = (steady /\ (model = "wrapper" \/ count > 1))
        /\ model' = IF workers' = {} THEN "absent" ELSE model
  BY DEF ScaleTo
<1>2. /\ count \in Nat /\ enough(count) \in Nat \ {0} /\ model \in {"wrapper", "each"}
      /\ workers # {} /\ UNCHANGED <<pins, fallback, daemonRt, rtApp, verdicts>>
      /\ size \in Nat /\ (\A w \in workers : w \in Instance) /\ IsFiniteSet(workers)
  <2>1. count \in Nat /\ enough(count) \in Nat \ {0}
    BY RuntimeAssumption
  <2> HIDE DEF enough
  <2> QED BY <2>1, FS_CardinalityType DEF ScaleTo, RtInv, RtTyped
<1>3. steady' \in BOOLEAN /\ (steady' => steady /\ (model = "wrapper" \/ count > 1))
  BY <1>1, Zenon
<1>4. ASSUME workers' \subseteq Instance, IsFiniteSet(workers'),
             model = "wrapper" => \E w \in workers' : workers' = {w},
             \A v \in workers' : Waiting(v) \/ \E w \in workers : Same(v, w),
             steady' /\ model = "each" /\ workers' # {} =>
               (\E n \in Nat : Numbered(workers', n))
               /\ \A w \in workers' : w.mode = "cluster" /\ w.instances > 1
      PROVE  RtInv'
  <2>1. /\ PinBinds' /\ SpawnedAlike' /\ WrapperFindsNode'
        /\ (model' = model => WrapperIsNode')
        /\ \A v \in workers' : v.up => v.ran \notin {Unset, Failed}
    BY <1>1, <1>2, <1>3, <1>4, NothingSpawned
  <2>2. (model' = "absent" <=> workers' = {}) /\ (model' # "absent" => model' = model)
    BY <1>1, <1>2
  <2>3. RtTyped'
    BY <1>2, <1>3, <1>4, <2>1, <2>2 DEF RtInv, RtTyped
  <2>4. GroupIsWhole' /\ WrapperIsNode'
    BY <1>2, <1>4, <2>1, <2>2 DEF GroupIsWhole, WrapperIsNode
  <2> QED BY <2>1, <2>3, <2>4 DEF RtInv
<1>5. CASE model = "wrapper"
  <2> DEFINE f == [w \in workers |->
                     [w EXCEPT !.instances = enough(count), !.up = FALSE, !.ran = Unset]]
  <2>1. workers' = {f[w] : w \in workers}
    BY <1>1, <1>5
  <2>2. \A w \in workers : f[w] \in Instance /\ Waiting(f[w])
    <3> TAKE w \in workers
    <3> DEFINE e == enough(count)
    <3>1. f[w] = [w EXCEPT !.instances = e, !.up = FALSE, !.ran = Unset]
      OBVIOUS
    <3>2. w \in Instance /\ e \in Nat
      BY <1>2
    <3> HIDE DEF f, e
    <3> QED BY <3>1, <3>2 DEF Instance, Routes, Waiting, Unset, Failed
  <2> HIDE DEF f
  <2>3. /\ workers' \subseteq Instance /\ IsFiniteSet(workers')
        /\ \E w \in workers' : workers' = {w}
    BY <1>5, <2>1, <2>2, ImageTyped DEF RtInv, RtTyped
  <2> QED BY <1>4, <1>5, <2>1, <2>2, <2>3
<1>6. CASE model = "each" /\ count > size
  <2> DEFINE f == [w \in workers |-> [w EXCEPT !.instances = count]]
             h == [i \in size .. (count - 1) |-> Added(first, i, count)]
             kept == {f[w] : w \in workers}
             added == {h[i] : i \in size .. (count - 1)}
  <2>1. workers' = kept \cup added
    BY <1>1, <1>6
  <2>2. \A w \in workers : /\ f[w] \in Instance /\ Same(f[w], w) /\ f[w].mode = w.mode
                           /\ f[w].instances = count
    <3> TAKE w \in workers
    <3>1. f[w] = [w EXCEPT !.instances = count]
      OBVIOUS
    <3> HIDE DEF f
    <3> QED BY <1>2, <3>1, Recounted
  <2>3. first \in workers
    BY <1>2, FirstIsOne DEF RtInv
  <2> HIDE DEF first
  <2>4. \A i \in size .. (count - 1) :
          /\ h[i] \in Instance /\ Waiting(h[i]) /\ h[i].at = i /\ h[i].mode = first.mode
          /\ h[i].instances = count
    <3> TAKE i \in size .. (count - 1)
    <3>1. h[i] = [Config(i, count, FALSE) EXCEPT !.mode = first.mode] /\ i \in Nat
      BY <1>2 DEF Added
    <3>2. count \in Nat \ {0} /\ FALSE \in BOOLEAN /\ first.mode \in {"cluster", "fork"}
      BY <1>2, <1>6, <2>3 DEF Instance
    <3> DEFINE c == Config(i, count, FALSE)
    <3>3. c \in Instance /\ Waiting(c) /\ c.at = i /\ c.instances = count
      BY <3>1, <3>2, ConfigTyped, Zenon DEF Waiting
    <3> HIDE DEF h, c
    <3>4. h[i] = [c EXCEPT !.mode = first.mode]
      BY <3>1 DEF c
    <3> QED BY <3>2, <3>3, <3>4 DEF Instance, Waiting
  <2> HIDE DEF f, h
  <2>5. kept \subseteq Instance /\ IsFiniteSet(kept)
    <3> DEFINE g == [w \in workers |-> f[w]]
    <3>1. g \in Surjection(workers, kept)
      BY DEF Surjection
    <3> HIDE DEF g
    <3>2. IsFiniteSet(kept)
      BY <1>2, <3>1, FS_Surjection
    <3> QED BY <2>2, <3>2
  <2>6. added \subseteq Instance /\ IsFiniteSet(added)
    <3>1. \A i \in size .. (count - 1) : h[i] \in Instance
      BY <2>4
    <3> HIDE DEF size
    <3> QED BY <1>2, <3>1, RangeTyped
  <2>7. workers' \subseteq Instance /\ IsFiniteSet(workers')
    <3> HIDE DEF kept, added
    <3> QED BY <2>1, <2>5, <2>6, FS_Union
  <2>8. \A v \in workers' : Waiting(v) \/ \E w \in workers : Same(v, w)
    BY <2>1, <2>2, <2>4
  <2>9. ASSUME steady'
        PROVE  (\E n \in Nat : Numbered(workers', n))
               /\ \A w \in workers' : w.mode = "cluster" /\ w.instances > 1
    <3>1. steady /\ count > 1
      BY <1>3, <1>6, <2>9
    <3>2. PICK n \in Nat : Numbered(workers, n)
      BY <1>6, <3>1 DEF RtInv, GroupIsWhole
    <3>3. n = size
      BY <3>2, NumberedCount
    <3>4. Numbered(kept, size)
      BY <2>2, <3>2, <3>3, NumberedImage DEF Same
    <3>5. \A w \in workers : w.mode = "cluster"
      BY <1>6, <3>1 DEF RtInv, GroupIsWhole
    <3>6. \A w \in workers' : w.mode = "cluster" /\ w.instances > 1
      BY <2>1, <2>2, <2>3, <2>4, <3>1, <3>5
    <3>7. Numbered(workers', count)
      <4> HIDE DEF kept, size
      <4> QED BY <1>2, <1>6, <2>1, <2>4, <3>4, NumberedUnion
    <3> QED BY <1>2, <3>6, <3>7
  <2> QED BY <1>4, <1>6, <2>7, <2>8, <2>9
<1>7. CASE model = "each" /\ ~(count > size)
  <2> DEFINE stays == {v \in workers : Cardinality(below(v)) < count}
             f == [w \in stays |-> [w EXCEPT !.instances = enough(count)]]
  <2>1. workers' = {f[w] : w \in stays} /\ count # size
    BY <1>1, <1>7
  <2>2. \A w \in stays : /\ f[w] \in Instance /\ Same(f[w], w) /\ f[w].mode = w.mode
                         /\ f[w].instances = enough(count)
    <3> TAKE w \in stays
    <3>1. f[w] = [w EXCEPT !.instances = enough(count)] /\ w \in Instance
      BY <1>2
    <3> HIDE DEF f, enough
    <3> QED BY <1>2, <3>1, Recounted
  <2>3. workers' \subseteq Instance /\ IsFiniteSet(workers')
    <3>1. f \in Surjection(stays, workers')
      BY <2>1 DEF Surjection
    <3>2. stays \subseteq workers
      OBVIOUS
    <3> HIDE DEF f, stays
    <3>3. IsFiniteSet(stays)
      BY <1>2, <3>2, FS_Subset
    <3>4. IsFiniteSet(workers')
      BY <3>1, <3>3, FS_Surjection
    <3> QED BY <2>1, <2>2, <3>4
  <2> HIDE DEF f
  <2>4. \A v \in workers' : Waiting(v) \/ \E w \in workers : Same(v, w)
    BY <2>1, <2>2
  <2>5. ASSUME steady'
        PROVE  (\E n \in Nat : Numbered(workers', n))
               /\ \A w \in workers' : w.mode = "cluster" /\ w.instances > 1
    <3>1. steady /\ count > 1 /\ enough(count) = count
      BY <1>3, <1>7, <2>5
    <3>2. PICK n \in Nat : Numbered(workers, n)
      BY <1>7, <3>1 DEF RtInv, GroupIsWhole
    <3>3. n = size
      BY <3>2, NumberedCount
    <3>4. count \in 0 .. n
      BY <1>2, <1>7, <3>3
    <3>5. \A v \in workers : Cardinality(below(v)) = v.at
      <4> TAKE v \in workers
      <4>1. v.at \in 0 .. n /\ v.at \in Nat
        BY <3>2 DEF Numbered
      <4>2. Numbered(below(v), v.at)
        BY <3>2, <4>1, NumberedBelow
      <4> HIDE DEF below
      <4> QED BY <4>1, <4>2, NumberedCount
    <3> HIDE DEF below
    <3>6. stays = {v \in workers : v.at < count}
      BY <3>5
    <3>7. Numbered(stays, count)
      BY <3>2, <3>4, <3>6, NumberedBelow
    <3> HIDE DEF stays
    <3>8. Numbered(workers', count)
      BY <1>2, <2>1, <2>2, <3>7, NumberedImage DEF Same
    <3>9. \A w \in stays : w.mode = "cluster"
      BY <1>7, <3>1 DEF RtInv, GroupIsWhole, stays
    <3>10. \A w \in workers' : w.mode = "cluster" /\ w.instances > 1
      BY <2>1, <2>2, <3>1, <3>9
    <3> QED BY <1>2, <3>8, <3>10
  <2> QED BY <1>4, <1>7, <2>3, <2>4, <2>5
<1> QED BY <1>2, <1>5, <1>6, <1>7

LEMMA DeleteSomeInv == ASSUME RtInv, DeleteSome PROVE RtInv'
<1>1. PICK gone \in (SUBSET workers) \ {{}} :
        /\ workers' = workers \ gone
        /\ model' = IF workers' = {} THEN "absent" ELSE model
  BY DEF DeleteSome
<1>2. /\ UNCHANGED <<fallback, daemonRt, rtApp, verdicts>> /\ steady' = FALSE
      /\ pins' = [pins EXCEPT !["app"] = Unset] /\ workers' \subseteq workers
      /\ model \in {"wrapper", "each"}
  BY <1>1 DEF DeleteSome, RtInv, RtTyped
<1>3. model = "wrapper" => workers' = {}
  <2> SUFFICES ASSUME model = "wrapper" PROVE workers' = {}
    OBVIOUS
  <2>1. PICK w \in workers : workers = {w}
    BY DEF RtInv, RtTyped
  <2>2. PICK v \in gone : TRUE
    OBVIOUS
  <2>3. w \in gone
    BY <2>1, <2>2
  <2> QED BY <1>1, <2>1, <2>3
<1>4. \A v \in workers' : Waiting(v) \/ \E w \in workers : Same(v, w)
  BY <1>2 DEF Same
<1>5. /\ PinBinds' /\ SpawnedAlike' /\ WrapperFindsNode'
      /\ \A v \in workers' : v.up => v.ran \notin {Unset, Failed}
  BY <1>1, <1>2, <1>4, NothingSpawned
<1>6. IsFiniteSet(workers')
  BY <1>2, FS_Subset DEF RtInv, RtTyped
<1>7. RtTyped'
  BY <1>1, <1>2, <1>3, <1>5, <1>6 DEF RtInv, RtTyped
<1> QED BY <1>2, <1>5, <1>7 DEF RtInv, GroupIsWhole, WrapperIsNode

LEMMA ChangeOrPinInv == ASSUME RtInv, RuntimeChange \/ PinEcosystem PROVE RtInv'
<1>1. /\ UNCHANGED <<daemonRt, rtApp, model, workers, verdicts>> /\ steady' = FALSE
      /\ pins' \in [{"app", "eco"} -> Runtimes \cup {Unset}]
      /\ fallback' \in Runtimes \cup {Unset}
  BY RuntimeAssumption DEF RuntimeChange, PinEcosystem, RtInv, RtTyped, Runtimes, Unset
<1>2. RtTyped'
  BY <1>1 DEF RtInv, RtTyped
<1>3. PinBinds' /\ SpawnedAlike' /\ WrapperFindsNode'
  BY <1>1 DEF RtInv, PinBinds, SpawnedAlike, WrapperFindsNode
<1> QED BY <1>1, <1>2, <1>3 DEF RtInv, GroupIsWhole, WrapperIsNode

LEMMA RebootUnderInv == ASSUME RtInv, RebootUnder PROVE RtInv'
<1> DEFINE f == [w \in workers |-> [w EXCEPT !.up = FALSE, !.ran = Unset]]
<1>1. /\ daemonRt' \in Runtimes \cup {Unset} /\ workers' = {f[w] : w \in workers}
      /\ steady' = (steady /\ (model = "each" \/ daemonRt' = daemonRt))
      /\ UNCHANGED <<pins, fallback, rtApp, model>>
  BY DEF RebootUnder, RtInv, RtTyped
<1>2. steady' \in BOOLEAN /\ (steady' => steady /\ (model = "each" \/ daemonRt' = daemonRt))
  BY <1>1, Zenon
<1>3. \A w \in workers : /\ f[w] \in Instance /\ Waiting(f[w]) /\ f[w].at = w.at
                         /\ f[w].mode = w.mode /\ f[w].instances = w.instances
  <2> TAKE w \in workers
  <2>1. f[w] = [w EXCEPT !.up = FALSE, !.ran = Unset] /\ w \in Instance
    BY DEF RtInv, RtTyped
  <2> HIDE DEF f
  <2> QED BY <2>1 DEF Instance, Routes, Waiting, Unset, Failed
<1> HIDE DEF f
<1>4. \A v \in workers' : Waiting(v)
  BY <1>1, <1>3
<1>5. PinBinds' /\ SpawnedAlike' /\ WrapperFindsNode'
  BY <1>4 DEF PinBinds, SpawnedAlike, WrapperFindsNode, Waiting
<1>6. WrapperIsNode'
  BY <1>1, <1>2, ResolutionKept DEF RtInv, WrapperIsNode
<1>7. RtTyped'
  <2>1. /\ workers' \subseteq Instance /\ IsFiniteSet(workers')
        /\ (workers' = {} <=> workers = {})
        /\ (\E w \in workers : workers = {w}) => \E w \in workers' : workers' = {w}
    BY <1>1, <1>3, ImageTyped DEF RtInv
  <2> QED BY <1>1, <1>2, <1>4, <2>1 DEF RtInv, RtTyped, Waiting
<1>8. ASSUME steady', model' = "each"
      PROVE  (\E n \in Nat : Numbered(workers', n))
             /\ \A w \in workers' : w.mode = "cluster" /\ w.instances > 1
  <2>1. \A w \in workers : f[w].instances > 1
    BY <1>1, <1>2, <1>3, <1>8 DEF RtInv, GroupIsWhole
  <2> QED BY <1>1, <1>2, <1>3, <1>8, <2>1, ImageWhole DEF RtInv
<1> QED BY <1>5, <1>6, <1>7, <1>8 DEF RtInv, GroupIsWhole

LEMMA RtInvInitially == RtInit => RtInv
<1> SUFFICES ASSUME RtInit PROVE RtInv
  OBVIOUS
<1>1. workers = {} /\ IsFiniteSet(workers) /\ steady = FALSE
  BY FS_EmptySet DEF RtInit, NoGroup
<1>2. RtTyped
  BY <1>1 DEF RtInit, RtTyped, Runtimes, Unset
<1> QED BY <1>1, <1>2
  DEF RtInv, PinBinds, GroupIsWhole, SpawnedAlike, WrapperIsNode, WrapperFindsNode

LEMMA RtInvInductive == RtInv /\ [RtNext]_rtVars => RtInv'
<1> SUFFICES ASSUME RtInv, [RtNext]_rtVars PROVE RtInv'
  OBVIOUS
<1>1. CASE UNCHANGED rtVars
  <2>1. UsesNode(Unset)' = UsesNode(Unset) /\ Shares' = Shares
    BY <1>1, ResolutionKept DEF rtVars
  <2> QED BY <1>1, <2>1
    DEF rtVars, RtInv, RtTyped, PinBinds, GroupIsWhole, SpawnedAlike, WrapperIsNode,
        WrapperFindsNode
<1> QED BY <1>1, StartNewInv, SpawnAllInv, StartAgainInv, ScaleToInv, RestartSomeInv,
     DeleteSomeInv, ChangeOrPinInv, RebootUnderInv DEF RtNext

(* An instance spawned while its app is pinned runs under the pin, no two    *)
(* instances of an undisturbed group fight for a port, and the wrapper chosen*)
(* for Node finds it, for every sequence of starts, scalings, restarts,      *)
(* deletions and reboots (runtime-overrides.ts, process-manager.ts,          *)
(* cluster-manager.ts).                                                      *)
THEOREM RuntimeAlwaysKept == RtSpec => []RuntimeIsKept
<1>1. RtInv => NoPortFight
  <2> SUFFICES ASSUME RtInv, steady, NEW v \in workers, NEW w \in workers, v # w, v.up, w.up,
                      v.port = w.port
               PROVE  v.reuse /\ w.reuse
    BY DEF NoPortFight
  <2>1. model = "each"
    BY DEF RtInv, RtTyped
  <2>2. v.at # w.at
    BY <2>1 DEF RtInv, GroupIsWhole, Numbered
  <2> QED BY <2>1, <2>2 DEF RtInv, SpawnedAlike
<1>2. RtInv => RuntimeIsKept
  BY <1>1 DEF RtInv, RuntimeIsKept
<1> QED BY <1>2, RtInvInitially, RtInvInductive, PTL DEF RtSpec

-----------------------------------------------------------------------------
(* The daemon and its boot service *)

(* At most one daemon is alive, apart from those with nothing left but to exit. *)
Live == {p \in Pid : dm[p] \in Alive \ {"exiting"}}
LoneDaemon == \A p, q \in Live : p = q

(* What a daemon finds of its own on disk: the socket it has unlinked, the   *)
(* PID file it has written, the socket it has bound.  Only a unit that kills *)
(* its daemon in mid-boot takes them away under it, and then ends it.        *)
Holds(p) ==
  /\ dm[p] = "recording" => sockFile = 0
  /\ dm[p] \in {"loading", "binding"} => sockFile = 0 /\ pidFile = p
  /\ dm[p] \in Answering => sockFile = p
  /\ dm[p] \in Answering \ {"closing"} => pidFile = p
FilesNameIt == unit.at # "stopping" => \A p \in Live : Holds(p)

(* A unit that runs has the daemon; one that backs off has none, and one that *)
(* prepares to start has killed whoever answered by the time it does.        *)
UnitTyped == unit \in [at : {"off", "pre", "up", "backoff", "stopping", "stopped"},
                       main : Pid \cup {0}, again : BOOLEAN]
KillPhases == {"kill", "wait", "rmSocket", "rmPid", "done"}
UnitFollows ==
  /\ unit.at \in {"up", "stopping"} =>
       unit.main \in Pid /\ dm[unit.main] # "unborn" /\ Live \subseteq {unit.main}
  /\ unit.at = "backoff" => Live = {}
  /\ IF unit.at \in {"pre", "stopping"}
       THEN at[Unit] \in KillPhases /\ cmd[Unit] \in {"start", "stop"} ELSE at[Unit] = "idle"
  /\ unit.at = "pre" => /\ at[Unit] = "kill" => \A p \in Live : dm[p] \in Answering
                        /\ at[Unit] = "wait" => \A p \in Live : dm[p] \in Answering \ {"serving"}
                        /\ at[Unit] \in {"rmSocket", "rmPid", "done"} => Live = {}
  /\ unit.at = "stopped" /\ unit.again => Live = {}
  /\ unit.at # "off" => service

(* What a command finds when it begins, and what it has made of it where the *)
(* unit may come back beside it: a daemon that lives is then the unit's.     *)
Undisturbed ==
  /\ \A p \in Live : dm[p] = "serving"
  /\ unit.at = "off" \/ (unit.at = "up" /\ dm[unit.main] = "serving")
Replacing == unit.at \in {"off", "up", "backoff", "pre"} /\ (unit.at # "up" => Live = {})

(* What a command knows at each of its places                                *)
CommandFollows(c) ==
  /\ at[c] \in {"idle", "kill", "wait", "rmSocket", "rmPid", "standDown", "restartUnit", "check",
                "install", "probe", "spawn", "poll", "startUnit", "standingDown", "sweep", "ask",
                "await", "awaitWarned"}
  /\ cmd[c] \in {"up", "kill", "down", "restart", "realign", "install", "uninstall", "none"}
  /\ at[c] \in {"kill", "wait", "rmSocket", "rmPid"} => cmd[c] \in {"kill", "down", "restart", "realign"}
  /\ at[c] = "ask" => cmd[c] \in {"down", "restart", "realign"}
  /\ at[c] \in {"ask", "kill", "check"} => Undisturbed
  /\ at[c] = "wait" => \A p \in Live : dm[p] \in Answering \ {"serving"}
  /\ at[c] \in {"rmSocket", "rmPid"} => Live = {}
  /\ at[c] \in {"wait", "rmSocket", "rmPid"} => unit.at \in {"off", "up", "backoff"}
  /\ at[c] \in {"probe", "startUnit", "spawn", "await"} => Live = {} /\ unit.at = "off"
  /\ at[c] \in {"standDown", "restartUnit", "startUnit", "standingDown", "sweep"} => service
  /\ at[c] = "standDown" => cmd[c] \in {"down", "uninstall"}
  /\ at[c] = "standDown" => IF cmd[c] = "down" THEN Replacing ELSE Undisturbed
  /\ at[c] = "restartUnit" => Replacing
  /\ at[c] = "install" => Undisturbed \/ Replacing
  /\ at[c] = "sweep" => /\ unit.at \in {"off", "up", "backoff", "pre"}
                        /\ unit.at # "up" => \A p \in Live : dm[p] \in Answering
  /\ at[c] = "standingDown" =>
       /\ unit.at \in {"stopping", "stopped", "off"} /\ ~unit.again
       /\ cmd[c] = "down" /\ unit.at # "stopping" => Live = {}

(* A step of the unit leaves a command what it counts on.                    *)
KeepsTrack(c) ==
  /\ Undisturbed => Undisturbed'
  /\ Replacing => Replacing'
  /\ at[c] = "wait" => \A p \in Live' : dm'[p] \in Answering \ {"serving"}
  /\ at[c] \in {"rmSocket", "rmPid"} => Live' = {}
  /\ at[c] \in {"wait", "rmSocket", "rmPid"} => unit'.at \in {"off", "up", "backoff"}
  /\ at[c] \in {"probe", "startUnit", "spawn", "await"} => Live' = {} /\ unit'.at = "off"
  /\ at[c] = "sweep" => /\ unit'.at \in {"off", "up", "backoff", "pre"}
                        /\ unit'.at # "up" => \A p \in Live' : dm'[p] \in Answering
  /\ at[c] = "standingDown" => /\ unit'.at \in {"stopping", "stopped", "off"}
                               /\ cmd[c] = "down" /\ unit'.at # "stopping" => Live' = {}

(* Commands come one at a time, and one that has stopped the daemon is over. *)
LoneCommand == \A c, d \in Clients : at[c] # "idle" /\ at[d] # "idle" => c = d
Stopped == told = "down" => Live = {} /\ unit.at = "off" /\ \A c \in Clients : at[c] = "idle"

Places == {"idle", "kill", "wait", "rmSocket", "rmPid", "done", "standDown", "restartUnit",
           "check", "install", "probe", "spawn", "poll", "startUnit", "standingDown", "sweep", "ask",
           "await", "awaitWarned"}
DmnTyped == DmnTypeOK /\ UnitTyped /\ at \in [Actors -> Places]
CommandsFollow == \A c \in Clients : CommandFollows(c)
DmnCore == /\ LoneDaemon /\ FilesNameIt /\ UnitFollows /\ CommandsFollow
           /\ LoneCommand /\ Stopped
DmnInv == DmnTyped /\ (oneByOne => DmnCore)

(* The unit is no command line, and no process is called 0.                  *)
LEMMA Apart == 0 \notin Pid /\ Unit \notin Clients /\ IsFiniteSet(Pid) /\ Pid \subseteq Nat
<1>1. 1 \in Int /\ MaxDaemons \in Int
  BY DaemonAssumption
<1>2. IsFiniteSet(1 .. MaxDaemons)
  BY <1>1, FS_Interval
<1> QED BY <1>2, DaemonAssumption DEF Pid

(* DmnInv holds at first, and every step keeps it.                           *)
LEMMA DmnInitInv == DmnInit => DmnInv
BY DaemonAssumption DEF DmnInit, DmnInv, DmnTyped, DmnTypeOK, UnitTyped, Places, DmnCore, LoneDaemon,
   FilesNameIt, UnitFollows, CommandsFollow, CommandFollows, LoneCommand, Stopped,
   Live, Alive, Booting, Answering, Ended, Pid, Actors

(* The lone daemon takes a step of its own: what others know of it remains,  *)
(* since none has left it at a step that it only comes to.                   *)
LEMMA LoneSteps ==
  ASSUME DmnTyped, DmnCore, NEW p \in Live, NEW to \in Alive \cup Ended,
         dm' = [dm EXCEPT ![p] = to],
         dm[p] \in Booting => to \in Booting \cup {"serving"} \cup Ended,
         dm[p] \in Answering => /\ to \in (Answering \ {"serving"}) \cup {"exiting"}
                                /\ dm[p] # "serving",
         UNCHANGED <<oneByOne, service, at, cmd, unit, commands, told>>
  PROVE  /\ LoneDaemon' /\ UnitFollows' /\ CommandsFollow' /\ LoneCommand' /\ Stopped'
         /\ Live' \subseteq {p} /\ dm'[p] = to
<1>1. p \in Pid /\ dm[p] \in Booting \cup Answering /\ Live = {p} /\ dm'[p] = to
      /\ (\A q \in Pid : q # p => dm'[q] = dm[q])
  BY DEF Live, LoneDaemon, DmnCore, Alive, DmnTyped, DmnTypeOK
<1>2. Live' \subseteq {p}
  BY <1>1 DEF Live
<1>3. dm[p] # "serving" /\ to # "unborn"
  BY <1>1 DEF Booting, Answering, Alive, Ended
<1>4. LoneDaemon' /\ LoneCommand' /\ Stopped'
  BY <1>1, <1>2 DEF LoneDaemon, DmnCore, LoneCommand, Stopped
<1>5. UnitFollows'
  <2>1. UnitFollows /\ unit' = unit /\ at' = at /\ cmd' = cmd /\ service' = service
    BY DEF DmnCore
  <2>2. unit.at \in {"up", "stopping"} => dm'[unit.main] # "unborn" /\ Live' \subseteq {unit.main}
    BY <1>1, <1>2, <1>3, <2>1 DEF UnitFollows
  <2>3. unit.at \notin {"backoff"} /\ (unit.at = "stopped" => ~unit.again)
    BY <1>1, <2>1 DEF UnitFollows
  <2>4. unit.at = "pre" => /\ at[Unit] \notin {"rmSocket", "rmPid", "done"}
                           /\ dm[p] \in Answering
                           /\ Live' # {} => to \in Answering \ {"serving"}
    BY <1>1, <1>2, <1>3, <2>1 DEF UnitFollows, KillPhases, Live, Alive, Booting, Answering, Ended
  <2>5. unit.at = "pre" => \A q \in Live' : dm'[q] \in Answering \ {"serving"}
    BY <1>1, <1>2, <2>4
  <2> QED BY <2>1, <2>2, <2>3, <2>4, <2>5 DEF UnitFollows
<1>6. CommandsFollow'
  <2> SUFFICES ASSUME NEW c \in Clients PROVE CommandFollows(c)'
    BY DEF CommandsFollow
  <2>1. CommandFollows(c)
    BY DEF DmnCore, CommandsFollow
  <2>2. ~Undisturbed
    BY <1>1, <1>3 DEF Undisturbed
  <2>3. Replacing => Replacing'
    BY <1>1, <1>2 DEF Replacing
  <2>4. at[c] \notin {"kill", "check", "probe", "startUnit", "spawn", "rmSocket", "rmPid"}
    BY <1>1, <2>1, <2>2 DEF CommandFollows
  <2>5. /\ at[c] = "wait" => \A q \in Live' : dm'[q] \in Answering \ {"serving"}
        /\ at[c] = "sweep" /\ unit.at # "up" => \A q \in Live' : dm'[q] \in Answering
    BY <1>1, <1>2, <1>3, <2>1 DEF CommandFollows, Booting, Answering, Ended, Live, Alive
  <2>6. at[c] = "standingDown" /\ cmd[c] = "down" => unit.at = "stopping"
    BY <1>1, <2>1 DEF CommandFollows
  <2> HIDE DEF Undisturbed, Replacing
  <2> QED BY <2>1, <2>2, <2>3, <2>4, <2>5, <2>6 DEF CommandFollows
<1> QED BY <1>1, <1>2, <1>4, <1>5, <1>6

(* A new process has a number that nobody has.                               *)
LEMMA NewDaemon ==
  ASSUME Unborn # {}
  PROVE  Min(Unborn) \in Pid /\ dm[Min(Unborn)] = "unborn"
<1> DEFINE S == Unborn
<1>1. S \subseteq Nat /\ S # {}
  BY Apart DEF Unborn
<1> HIDE DEF S
<1>2. PICK n \in S : \A m \in S : n <= m
  BY <1>1, Least
<1>3. Min(S) \in S
  BY <1>2 DEF Min
<1> QED BY <1>3 DEF S, Unborn

LEMMA DmnTypeNext == ASSUME DmnTyped, DmnNext PROVE DmnTyped'
<1> USE DEF DmnTyped, DmnTypeOK
<1>1. ASSUME NEW p \in Pid, DaemonStep(p) \/ Crash(p) PROVE DmnTyped'
  <2>1. UNCHANGED <<oneByOne, service, at, cmd, unit, told>>
    BY <1>1 DEF DaemonStep, Crash, BootProbe, BootUnlink, BootRecord, BootLoad, Bind, BindFails,
       StopAllDone, RemoveOwnFirst, RemoveOwnSecond, ProcessExits
  <2>2. sockFile' \in {sockFile, p, 0} /\ pidFile' \in {pidFile, p, 0}
    BY <1>1 DEF DaemonStep, Crash, BootProbe, BootUnlink, BootRecord, BootLoad, Bind, BindFails,
       StopAllDone, RemoveOwnFirst, RemoveOwnSecond, ProcessExits, files
  <2>3. \E to \in Alive \cup Ended : dm' = [dm EXCEPT ![p] = to]
    BY <1>1 DEF DaemonStep, Crash, BootProbe, BootUnlink, BootRecord, BootLoad, Bind, BindFails,
       StopAllDone, RemoveOwnFirst, RemoveOwnSecond, ProcessExits, Steps, Alive, Booting,
       Answering, Ended
  <2> QED BY <2>1, <2>2, <2>3 DEF UnitTyped
<1>2. ASSUME NEW c \in Clients, Command(c) PROVE DmnTyped'
  <2>1. /\ UNCHANGED <<oneByOne, files>> /\ service' \in {service, TRUE, FALSE}
        /\ told' \in {told, "none", "down", "warned"}
    BY <1>2 DEF Command, Issue, InstallUnit, StraySwept, CheckAlive, LaunchProbe, SpawnDaemon,
       Polled, StartUnit, StopJob, StopFails, StoodDown, Ask, Await
  <2>2. at' \in [Actors -> Places]
    BY <1>2 DEF Command, Issue, InstallUnit, StraySwept, CheckAlive, LaunchProbe, SpawnDaemon,
       Polled, StartUnit, StopJob, StopFails, StoodDown, Ask, Await, AfterKill, Goes, Places, Actors
  <2>3. UnitTyped' /\ cmd' \in [Actors -> {"none", "up", "kill", "down", "restart", "realign", "install",
                     "uninstall", "start", "stop"}]
    BY <1>2 DEF Command, Issue, InstallUnit, StraySwept, CheckAlive, LaunchProbe, SpawnDaemon,
       Polled, StartUnit, StopJob, StopFails, StoodDown, Ask, Await, UnitTyped, Actors
  <2>4. dm' \in [Pid -> Alive \cup Ended \cup {"unborn"}]
    <3>1. CASE SpawnDaemon(c)
      BY <3>1, NewDaemon DEF SpawnDaemon, Alive, Booting
    <3>2. CASE ~SpawnDaemon(c)
      BY <1>2, <3>2 DEF Command, Issue, InstallUnit, StraySwept, CheckAlive, LaunchProbe,
         Polled, StartUnit, StopJob, StopFails, StoodDown, Ask, Await, Alive, Answering
    <3> QED BY <3>1, <3>2
  <2> QED BY <2>1, <2>2, <2>3, <2>4 DEF files, UnitTyped
<1>3. ASSUME NEW a \in Actors, KillProbe(a) \/ KillWaited(a) \/ RemoveSocket(a) \/ RemovePid(a)
      PROVE  DmnTyped'
  BY <1>3 DEF KillProbe, KillWaited, RemoveSocket, RemovePid, Goes, AfterKill, Places, files,
     Alive, Answering, UnitTyped
<1>4. CASE ExecStart
  BY <1>4, NewDaemon DEF ExecStart, Goes, Places, files, Alive, Booting, UnitTyped
<1>5. CASE BootStarts \/ MainExits \/ RestartMain \/ TermMain \/ UnitStopped
  <2>1. dm' \in [Pid -> Alive \cup Ended \cup {"unborn"}]
    BY <1>5 DEF BootStarts, MainExits, RestartMain, TermMain, UnitStopped, Ended
  <2>2. UnitTyped' /\ at' \in [Actors -> Places]
        /\ cmd' \in [Actors -> {"none", "up", "kill", "down", "restart", "realign", "install",
                     "uninstall", "start", "stop"}]
    BY <1>5 DEF BootStarts, MainExits, RestartMain, TermMain, UnitStopped, RunKill, Goes,
       UnitTyped, Actors, Places
  <2>3. UNCHANGED <<oneByOne, service, files>> /\ told' \in {told, "none"}
    BY <1>5 DEF BootStarts, MainExits, RestartMain, TermMain, UnitStopped
  <2> QED BY <2>1, <2>2, <2>3 DEF files, UnitTyped
<1> QED BY <1>1, <1>2, <1>3, <1>4, <1>5 DEF DmnNext

(* The steps of the process itself                                           *)
LEMMA DaemonStepCore ==
  ASSUME DmnTyped, DmnCore, NEW p \in Pid, DaemonStep(p)
  PROVE  DmnCore'
<1>1. UNCHANGED <<oneByOne, service, at, cmd, unit, commands, told>>
  BY DEF DaemonStep, BootProbe, BootUnlink, BootRecord, BootLoad, Bind, BindFails,
     StopAllDone, RemoveOwnFirst, RemoveOwnSecond, ProcessExits
<1>2. CASE ProcessExits(p)
  <2>1. dm[p] = "exiting" /\ dm' = [dm EXCEPT ![p] = "gone"] /\ UNCHANGED files
    BY <1>2 DEF ProcessExits, Steps
  <2>2. Live' = Live /\ p \notin Live /\ \A q \in Pid : q # p => dm'[q] = dm[q]
    BY <2>1 DEF Live, DmnTyped, DmnTypeOK, Alive, Booting, Answering
  <2>3. \A q \in Live : dm'[q] = dm[q]
    BY <2>2 DEF Live
  <2>4. Undisturbed => Undisturbed'
    BY <1>1, <2>1, <2>2, <2>3 DEF Undisturbed
  <2>5. Replacing' = Replacing
    BY <1>1, <2>2 DEF Replacing
  <2>6. LoneDaemon' /\ LoneCommand' /\ Stopped' /\ FilesNameIt'
    BY <1>1, <2>1, <2>2, <2>3 DEF DmnCore, LoneDaemon, LoneCommand, Stopped, FilesNameIt, Holds, files
  <2>7. UnitFollows'
    BY <1>1, <2>1, <2>2, <2>3 DEF DmnCore, UnitFollows, DmnTyped, DmnTypeOK
  <2>8. CommandsFollow'
    <3> HIDE DEF Undisturbed, Replacing
    <3> QED BY <1>1, <2>2, <2>3, <2>4, <2>5 DEF DmnCore, CommandsFollow, CommandFollows
  <2> QED BY <2>6, <2>7, <2>8 DEF DmnCore
<1>3. CASE ~ProcessExits(p)
  <2>1. p \in Live
    BY <1>3 DEF DaemonStep, BootProbe, BootUnlink, BootRecord, BootLoad, Bind, BindFails,
     StopAllDone, RemoveOwnFirst, RemoveOwnSecond, ProcessExits, Steps, Live, Alive, Booting, Answering
  <2>2. PICK to \in Alive \cup Ended : dm' = [dm EXCEPT ![p] = to]
    BY <1>3 DEF DaemonStep, BootProbe, BootUnlink, BootRecord, BootLoad, Bind, BindFails,
     StopAllDone, RemoveOwnFirst, RemoveOwnSecond, ProcessExits, Steps, Alive, Booting, Answering, Ended
  <2>3. dm'[p] = to
    BY <2>2 DEF DmnTyped, DmnTypeOK
  <2>4. /\ dm[p] \in Booting => to \in Booting \cup {"serving"} \cup Ended
        /\ dm[p] \in Answering => /\ to \in (Answering \ {"serving"}) \cup {"exiting"}
                                  /\ dm[p] # "serving"
    BY <1>3, <2>3 DEF DaemonStep, BootProbe, BootUnlink, BootRecord, BootLoad, Bind, BindFails,
     StopAllDone, RemoveOwnFirst, RemoveOwnSecond, ProcessExits, Steps, Alive, Booting, Answering, Ended,
     DmnTyped, DmnTypeOK
  <2>5. /\ LoneDaemon' /\ UnitFollows' /\ CommandsFollow' /\ LoneCommand' /\ Stopped'
        /\ Live' \subseteq {p}
    BY <1>1, <2>1, <2>2, <2>4, LoneSteps
  <2>6. ASSUME unit'.at # "stopping", p \in Live' PROVE Holds(p)'
    <3>1. Holds(p) /\ p # 0 /\ unit.at # "stopping"
      BY <1>1, <2>1, <2>6, Apart DEF DmnCore, FilesNameIt
    <3> QED BY <1>3, <2>3, <3>1 DEF DaemonStep, BootProbe, BootUnlink, BootRecord, BootLoad, Bind,
          BindFails, StopAllDone, RemoveOwnFirst, RemoveOwnSecond, ProcessExits, Steps, Holds,
          FirstRemoved, files, Booting, Answering, DmnTyped, DmnTypeOK
  <2>7. FilesNameIt'
    BY <2>5, <2>6 DEF FilesNameIt
  <2> QED BY <2>5, <2>7 DEF DmnCore
<1> QED BY <1>2, <1>3

(* Who answers is the lone daemon; when nobody does, none is in service.     *)
LEMMA WhoAnswers ==
  ASSUME DmnTyped, DmnCore
  PROVE  /\ Answers => Live = {sockFile} /\ sockFile \in Pid /\ dm[sockFile] \in Answering
         /\ ~Answers /\ unit.at # "stopping" => \A p \in Live : dm[p] \notin Answering
<1>1. Answers => sockFile \in Live /\ sockFile \in Pid /\ dm[sockFile] \in Answering
  BY DEF Answers, Live, DmnTyped, DmnTypeOK, Alive, Answering
<1>2. Answers => Live = {sockFile}
  BY <1>1 DEF DmnCore, LoneDaemon
<1>3. ASSUME unit.at # "stopping", NEW p \in Live, dm[p] \in Answering PROVE Answers
  BY <1>3, Apart DEF DmnCore, FilesNameIt, Holds, Answers, Live
<1> QED BY <1>1, <1>2, <1>3

(* What is left for a command to find when everything has settled            *)
LEMMA SettledIsCalm ==
  ASSUME DmnTyped, DmnCore, Settled
  PROVE  /\ Undisturbed /\ unit.at \in {"off", "up"}
         /\ \A p \in Pid : dm[p] \in Ended \cup {"unborn", "serving"}
         /\ \A a \in Actors : at[a] = "idle"
<1>1. \A p \in Live : dm[p] = "serving"
  BY DEF Settled, Live, Alive, Booting, Answering, Ended
<1>2. unit.at = "up" => unit.main \in Pid /\ dm[unit.main] # "unborn"
  BY DEF DmnCore, UnitFollows
<1>3. unit.at = "off" \/ (unit.at = "up" /\ dm[unit.main] = "serving")
  BY <1>2 DEF Settled
<1> QED BY <1>1, <1>3 DEF Undisturbed, Settled

(* A command that moves on and changes no daemon and not the unit            *)
LEMMA CommandMoves ==
  ASSUME DmnTyped, DmnCore, NEW c \in Clients, at[c] # "idle", NEW to \in Places,
         Goes(c, to), UNCHANGED <<oneByOne, dm, unit, cmd>>,
         service' = service \/ (unit.at = "off" /\ to = "idle"),
         told' = "down" => told = "down" \/ (Live = {} /\ unit.at = "off" /\ to = "idle"),
         UNCHANGED files \/ Live = {},
         CommandFollows(c)'
  PROVE  DmnCore'
<1>1. Live' = Live /\ at' = [at EXCEPT ![c] = to] /\ c \in Actors /\ Unit \in Actors /\ Unit # c
  BY Apart DEF Live, Goes, Actors
<1>2. at'[c] = to /\ at'[Unit] = at[Unit] /\ \A d \in Clients : d # c => at'[d] = at[d] /\ at[d] = "idle"
  BY <1>1 DEF DmnTyped, DmnCore, LoneCommand, Actors
<1>3. LoneDaemon' /\ LoneCommand'
  BY <1>1, <1>2 DEF DmnCore, LoneDaemon, LoneCommand
<1>4. FilesNameIt'
  <2>1. CASE Live = {}
    BY <1>1, <2>1 DEF FilesNameIt
  <2>2. CASE UNCHANGED files
    <3>1. FilesNameIt /\ dm' = dm /\ unit' = unit /\ sockFile' = sockFile /\ pidFile' = pidFile
      BY <2>2 DEF DmnCore, files
    <3> QED BY <1>1, <3>1 DEF FilesNameIt, Holds
  <2> QED BY <2>1, <2>2
<1>5. UnitFollows'
  BY <1>1, <1>2 DEF DmnCore, UnitFollows
<1>6. CommandsFollow'
  <2> SUFFICES ASSUME NEW d \in Clients, d # c PROVE CommandFollows(d)'
    BY DEF CommandsFollow
  <2>1. at'[d] = "idle" /\ cmd'[d] = cmd[d] /\ CommandFollows(d)
    BY <1>2 DEF DmnCore, CommandsFollow
  <2> QED BY <2>1 DEF CommandFollows
<1>7. Stopped'
  <2>1. told # "down"
    BY DEF DmnCore, Stopped
  <2> QED BY <1>1, <1>2, <2>1 DEF Stopped
<1> QED BY <1>3, <1>4, <1>5, <1>6, <1>7 DEF DmnCore

(* A request to stop reaches the lone daemon; it takes no other state.       *)
LEMMA KillReaches ==
  ASSUME DmnTyped, DmnCore, Answers,
         dm' = IF dm[sockFile] = "serving" THEN [dm EXCEPT ![sockFile] = "stopping"] ELSE dm
  PROVE  /\ Live' = {sockFile} /\ Live = {sockFile}
         /\ dm'[sockFile] \in Answering \ {"serving"}
         /\ \A p \in Pid : p # sockFile => dm'[p] = dm[p]
         /\ UNCHANGED <<unit, files>> => FilesNameIt'
<1>1. Live = {sockFile} /\ sockFile \in Pid /\ dm[sockFile] \in Answering
  BY WhoAnswers
<1>2. dm'[sockFile] \in Answering \ {"serving"} /\ \A p \in Pid : p # sockFile => dm'[p] = dm[p]
  BY <1>1 DEF DmnTyped, DmnTypeOK, Answering
<1>3. Live' = {sockFile}
  BY <1>1, <1>2 DEF Live, Alive, Answering
<1>4. ASSUME UNCHANGED <<unit, files>> PROVE FilesNameIt'
  <2> SUFFICES ASSUME NEW p \in Live', unit.at # "stopping" PROVE Holds(p)'
    BY <1>4 DEF FilesNameIt
  <2>1. p = sockFile /\ Holds(p)
    BY <1>1, <1>3 DEF DmnCore, FilesNameIt
  <2>2. dm'[p] = IF dm[p] = "serving" THEN "stopping" ELSE dm[p]
    BY <1>1, <2>1 DEF DmnTyped, DmnTypeOK
  <2> QED BY <1>1, <1>2, <1>4, <2>1, <2>2 DEF Holds, files, Answering
<1> QED BY <1>1, <1>2, <1>3, <1>4

(* The commands that only move on                                            *)
LEMMA CommandStepCore ==
  ASSUME DmnTyped, DmnCore, oneByOne, NEW c \in Clients,
         \/ CheckAlive(c) \/ LaunchProbe(c) \/ Polled(c) \/ StraySwept(c) \/ StoodDown(c)
         \/ KillWaited(c) \/ RemoveSocket(c) \/ RemovePid(c)
         \/ KillProbe(c) /\ ~Answers
         \/ Ask(c) \/ Await(c) \/ StopFails(c)
  PROVE  DmnCore'
<1>1. CommandFollows(c) /\ UnitFollows /\ c \in Actors
  BY DEF DmnCore, CommandsFollow, Actors
<1> DEFINE Leads(to) == /\ at[c] # "idle" /\ to \in Places /\ Goes(c, to)
                        /\ UNCHANGED <<oneByOne, dm, unit, cmd>>
                        /\ service' = service \/ (unit.at = "off" /\ to = "idle")
                        /\ told' = "down" => told = "down" \/ (Live = {} /\ unit.at = "off" /\ to = "idle")
                        /\ UNCHANGED files \/ Live = {}
           Kept(to) == /\ Goes(c, to) /\ UNCHANGED <<dm, unit, cmd, service>>
<1>2. ASSUME NEW to, Kept(to)
      PROVE  /\ at'[c] = to /\ Live' = Live /\ Undisturbed' = Undisturbed /\ Replacing' = Replacing
  BY <1>1, <1>2 DEF Goes, Live, Undisturbed, Replacing, DmnTyped
<1>3. CASE CheckAlive(c)
  <2>1. PICK to \in {"idle", "probe"} : Goes(c, to) /\ (to = "probe" =>
            ~(pidFile # 0 /\ dm[pidFile] \in Alive /\ Answers))
    BY <1>3 DEF CheckAlive
  <2>2. Leads(to) /\ Kept(to) /\ at[c] = "check"
    BY <1>3, <2>1 DEF CheckAlive, files, Places
  <2>3. to = "probe" => Live = {} /\ unit.at = "off"
    <3> SUFFICES ASSUME to = "probe", NEW p \in Live PROVE FALSE
      <4>1. Undisturbed /\ (unit.at = "up" => unit.main \in Live)
        BY <1>1, <2>2 DEF CommandFollows, Undisturbed, UnitFollows, Live, Alive, Answering
      <4> QED BY <4>1 DEF Undisturbed
    <3>1. dm[p] = "serving" /\ unit.at # "stopping" /\ p \in Pid
      BY <1>1, <2>2 DEF CommandFollows, Undisturbed, Live
    <3>2. Holds(p) /\ p # 0
      BY <3>1, Apart DEF DmnCore, FilesNameIt
    <3>3. sockFile = p /\ pidFile = p
      BY <3>1, <3>2 DEF Holds, Answering
    <3> QED BY <2>1, <3>1, <3>2, <3>3 DEF Answers, Alive, Answering
  <2>4. CommandFollows(c)'
    <3> HIDE DEF Undisturbed, Replacing, Leads, Kept
    <3> QED BY <1>1, <1>2, <1>3, <2>2, <2>3 DEF CommandFollows, CheckAlive
  <2> QED BY <2>2, <2>4, CommandMoves
<1>4. CASE LaunchProbe(c)
  <2>1. PICK to \in {"idle", "startUnit", "spawn"} : Goes(c, to) /\ (to = "startUnit" => service)
    BY <1>4 DEF LaunchProbe
  <2>2. Leads(to) /\ Kept(to) /\ at[c] = "probe"
    BY <1>4, <2>1 DEF LaunchProbe, files, Places
  <2>3. CommandFollows(c)'
    <3> HIDE DEF Undisturbed, Replacing
    <3> QED BY <1>1, <1>2, <1>4, <2>1, <2>2 DEF CommandFollows, LaunchProbe
  <2> QED BY <2>2, <2>3, CommandMoves
<1>5. CASE Polled(c)
  <2>1. Leads("idle") /\ Kept("idle")
    BY <1>5 DEF Polled, files, Places
  <2>2. CommandFollows(c)'
    BY <1>1, <1>2, <1>5, <2>1 DEF CommandFollows, Polled
  <2> QED BY <2>1, <2>2, CommandMoves
<1>6. CASE StraySwept(c)
  <2>1. Leads("restartUnit") /\ Kept("restartUnit") /\ at[c] = "sweep" /\ ~Answers
    BY <1>6 DEF StraySwept, files, Places
  <2>2. Replacing
    BY <1>1, <2>1, WhoAnswers DEF CommandFollows, Replacing
  <2>3. /\ at'[c] = "restartUnit" /\ Live' = Live /\ Replacing' = Replacing
        /\ UNCHANGED <<unit, cmd, service>>
    BY <1>2, <2>1
  <2>4. CommandFollows(c)'
    <3> HIDE DEF Undisturbed, Replacing
    <3> QED BY <1>1, <2>1, <2>2, <2>3 DEF CommandFollows
  <2> QED BY <2>1, <2>4, CommandMoves
<1>7. CASE StoodDown(c)
  <2>1. /\ at[c] = "standingDown" /\ unit.at = "off" /\ UNCHANGED <<oneByOne, dm, unit, cmd, files, told>>
        /\ Live' = Live
    BY <1>7 DEF StoodDown, Live
  <2>2. PICK to \in {"await", "idle"} :
          Goes(c, to) /\ (to = "await" => cmd[c] = "down" /\ service' = service)
    BY <1>7 DEF StoodDown
  <2>3. at'[c] = to /\ at[c] # "idle" /\ to \in Places
    BY <1>1, <2>1, <2>2 DEF Goes, DmnTyped, Places
  <2>4. CommandFollows(c)'
    <3>1. to = "await" => Live = {}
      BY <1>1, <2>1, <2>2 DEF CommandFollows
    <3> HIDE DEF Undisturbed, Replacing
    <3> QED BY <1>1, <2>1, <2>2, <2>3, <3>1 DEF CommandFollows
  <2>5. service' = service \/ (unit.at = "off" /\ to = "idle")
    BY <2>1, <2>2
  <2> QED BY <2>1, <2>2, <2>3, <2>4, <2>5, CommandMoves
<1>8. CASE KillWaited(c)
  <2>1. Leads("rmSocket") /\ Kept("rmSocket") /\ at[c] = "wait" /\ ~Answers
    BY <1>8 DEF KillWaited, files, Places
  <2>2. Live = {}
    BY <1>1, <2>1, WhoAnswers DEF CommandFollows
  <2>3. CommandFollows(c)'
    <3> HIDE DEF Undisturbed, Replacing
    <3> QED BY <1>1, <1>2, <2>1, <2>2 DEF CommandFollows
  <2> QED BY <2>1, <2>3, CommandMoves
<1>9. CASE KillProbe(c) /\ ~Answers
  <2>1. Leads("rmSocket") /\ Kept("rmSocket") /\ at[c] = "kill"
    BY <1>9 DEF KillProbe, files, Places
  <2>2. Live = {} /\ unit.at \in {"off", "up"}
    BY <1>1, <1>9, <2>1, WhoAnswers DEF CommandFollows, Undisturbed, Answering
  <2>3. /\ at'[c] = "rmSocket" /\ Live' = Live /\ Replacing' = Replacing
        /\ UNCHANGED <<unit, cmd, service>>
    BY <1>2, <2>1
  <2>4. CommandFollows(c)'
    <3> HIDE DEF Undisturbed, Replacing
    <3> QED BY <1>1, <2>1, <2>2, <2>3 DEF CommandFollows
  <2> QED BY <2>1, <2>4, CommandMoves
<1>10. CASE RemoveSocket(c)
  <2>1. at[c] = "rmSocket" /\ Live = {}
    BY <1>1, <1>10 DEF RemoveSocket, CommandFollows
  <2>2. Leads("rmPid") /\ Kept("rmPid")
    BY <1>10, <2>1 DEF RemoveSocket, Places
  <2>3. CommandFollows(c)'
    <3> HIDE DEF Undisturbed, Replacing
    <3> QED BY <1>1, <1>2, <2>1, <2>2 DEF CommandFollows
  <2> QED BY <2>2, <2>3, CommandMoves
<1>11. CASE RemovePid(c)
  <2>1. at[c] = "rmPid" /\ Live = {} /\ unit.at \in {"off", "up", "backoff"}
        /\ cmd[c] \in {"kill", "down", "restart", "realign"}
    BY <1>1, <1>11 DEF RemovePid, CommandFollows
  <2>2. PICK to \in {"idle", "await", "standDown", "restartUnit", "check", "install"} :
          /\ to = AfterKill(c) /\ Goes(c, to)
          /\ to \in {"standDown", "restartUnit"} => service
          /\ to \in {"check", "await"} => ~service
          /\ to = "standDown" => cmd[c] = "down"
    BY <1>11, <2>1 DEF RemovePid, AfterKill
  <2>3. ~service => unit.at = "off"
    BY <1>1 DEF UnitFollows
  <2>4. Leads(to) /\ Kept(to)
    BY <1>11, <2>1, <2>2 DEF RemovePid, Places
  <2>5. Replacing /\ (to = "check" => Undisturbed)
    BY <2>1, <2>2, <2>3 DEF Replacing, Undisturbed
  <2>6. CommandFollows(c)'
    <3> HIDE DEF Undisturbed, Replacing
    <3> QED BY <1>1, <1>2, <2>1, <2>2, <2>3, <2>4, <2>5 DEF CommandFollows
  <2> QED BY <2>4, <2>6, CommandMoves
<1>12. CASE Ask(c)
  <2>1. at[c] = "ask" /\ Undisturbed /\ cmd[c] \in {"down", "restart", "realign"}
    BY <1>1, <1>12 DEF Ask, CommandFollows
  <2>2. PICK to \in {"kill", "standDown", "restartUnit", "check", "install"} :
          /\ Goes(c, to)
          /\ to # "kill" => ~Answers
          /\ to \in {"standDown", "restartUnit"} => service
          /\ to = "check" => ~service
          /\ to = "standDown" => cmd[c] = "down"
    BY <1>12, <2>1 DEF Ask, AfterKill
  <2>3. Leads(to) /\ Kept(to)
    BY <1>12, <2>1, <2>2 DEF Ask, Places, files
  <2>4. to # "kill" => Replacing
    <3>1. unit.at # "stopping"
      BY <2>1 DEF Undisturbed
    <3>2. ~Answers => Live = {}
      BY <2>1, <3>1, WhoAnswers DEF Undisturbed, Answering
    <3> QED BY <2>1, <2>2, <3>2 DEF Replacing, Undisturbed
  <2>5. CommandFollows(c)'
    <3> HIDE DEF Undisturbed, Replacing
    <3> QED BY <1>1, <1>2, <2>1, <2>2, <2>3, <2>4 DEF CommandFollows
  <2> QED BY <2>3, <2>5, CommandMoves
<1>13. CASE Await(c)
  <2>1. at[c] \in {"await", "awaitWarned"} /\ Kept("idle") /\ UNCHANGED <<oneByOne, files>>
    BY <1>13 DEF Await
  <2>2. told' = "down" => told = "down" \/ (Live = {} /\ unit.at = "off")
    BY <1>1, <1>13, <2>1 DEF Await, CommandFollows
  <2>3. Leads("idle")
    BY <2>1, <2>2 DEF Places
  <2>4. CommandFollows(c)'
    <3> HIDE DEF Undisturbed, Replacing
    <3> QED BY <1>1, <1>2, <2>1 DEF CommandFollows
  <2> QED BY <2>3, <2>4, CommandMoves
<1>14. CASE StopFails(c)
  <2>1. PICK to \in {"awaitWarned", "idle"} : Goes(c, to)
    BY <1>14 DEF StopFails
  <2>2. /\ at[c] \in {"standDown", "restartUnit"} /\ service /\ service' = service
        /\ UNCHANGED <<oneByOne, dm, files, cmd, unit, commands, told>>
    BY <1>1, <1>14 DEF StopFails, CommandFollows
  <2>3. Kept(to) /\ Leads(to)
    BY <2>1, <2>2 DEF Places
  <2>4. CommandFollows(c)'
    <3> HIDE DEF Undisturbed, Replacing
    <3> QED BY <1>1, <1>2, <2>2, <2>3 DEF CommandFollows
  <2> QED BY <2>3, <2>4, CommandMoves
<1> QED BY <1>3, <1>4, <1>5, <1>6, <1>7, <1>8, <1>9, <1>10, <1>11, <1>12, <1>13, <1>14

(* What changes with a command when the others wait                          *)
LEMMA OthersIdle ==
  ASSUME DmnCore, NEW c \in Clients,
         \A d \in Clients : d # c => at[d] = "idle" /\ at'[d] = "idle" /\ cmd'[d] = cmd[d],
         CommandFollows(c)'
  PROVE  CommandsFollow' /\ LoneCommand'
<1>1. LoneCommand'
  BY DEF LoneCommand
<1>2. ASSUME NEW d \in Clients, d # c PROVE CommandFollows(d)'
  <2>1. at'[d] = "idle" /\ cmd'[d] = cmd[d] /\ CommandFollows(d)
    BY <1>2 DEF DmnCore, CommandsFollow
  <2> QED BY <2>1 DEF CommandFollows
<1> QED BY <1>1, <1>2 DEF CommandsFollow

LEMMA IssueCore ==
  ASSUME DmnTyped, DmnCore, oneByOne, NEW c \in Clients, NEW what, NEW first,
         Issue(c, what, first),
         \/ <<what, first>> \in {<<"up", "check">>, <<"kill", "kill">>, <<"down", "ask">>,
                 <<"restart", "ask">>, <<"realign", "ask">>, <<"install", "install">>}
         \/ <<what, first>> = <<"uninstall", "standDown">> /\ service
  PROVE  DmnCore'
<1>1. /\ Undisturbed /\ unit.at \in {"off", "up"} /\ c \in Actors /\ Unit # c /\ Unit \in Actors
      /\ \A a \in Actors : at[a] = "idle"
  BY SettledIsCalm, Apart DEF Issue, Actors
<1>2. /\ UNCHANGED <<oneByOne, service, dm, files, unit>> /\ told' = "none" /\ Live' = Live
      /\ at' = [at EXCEPT ![c] = first] /\ cmd' = [cmd EXCEPT ![c] = what]
  BY DEF Issue, Goes, Live
<1>3. at'[c] = first /\ cmd'[c] = what
      /\ \A a \in Actors : a # c => at'[a] = "idle" /\ at[a] = "idle" /\ cmd'[a] = cmd[a]
  BY <1>1, <1>2 DEF DmnTyped, DmnTypeOK
<1>4. Undisturbed'
  BY <1>1, <1>2 DEF Undisturbed
<1>5. CommandFollows(c)'
  <2> HIDE DEF Undisturbed, Replacing
  <2> QED BY <1>1, <1>2, <1>3, <1>4 DEF CommandFollows
<1>6. CommandsFollow' /\ LoneCommand'
  BY <1>3, <1>5, OthersIdle DEF Actors
<1>7. LoneDaemon' /\ Stopped'
  BY <1>2 DEF DmnCore, LoneDaemon, Stopped
<1>8. FilesNameIt'
  BY <1>2 DEF DmnCore, FilesNameIt, Holds, files
<1>9. UnitFollows'
  BY <1>1, <1>2, <1>3 DEF DmnCore, UnitFollows
<1> QED BY <1>6, <1>7, <1>8, <1>9 DEF DmnCore

(* The commands that reach a daemon, or make one                             *)
LEMMA KillReachesCore ==
  ASSUME DmnTyped, DmnCore, NEW c \in Clients, Answers, oneByOne, KillProbe(c) \/ InstallUnit(c)
  PROVE  DmnCore'
<1>1. /\ dm' = IF dm[sockFile] = "serving" THEN [dm EXCEPT ![sockFile] = "stopping"] ELSE dm
      /\ UNCHANGED <<oneByOne, files, cmd, unit, told>> /\ service' \in {service, TRUE}
  <2>1. CASE KillProbe(c)
    BY <2>1 DEF KillProbe
  <2>2. CASE InstallUnit(c)
    <3>1. dm' = [dm EXCEPT ![sockFile] = IF dm[sockFile] = "serving" THEN "stopping" ELSE dm[sockFile]]
      BY <2>2 DEF InstallUnit
    <3>2. dm[sockFile] # "serving" => dm' = dm
      BY <3>1 DEF DmnTyped, DmnTypeOK
    <3> QED BY <2>2, <3>1, <3>2 DEF InstallUnit
  <2> QED BY <2>1, <2>2
<1>2. PICK s \in Pid : s = sockFile
  BY WhoAnswers
<1>3. /\ Live' = {s} /\ Live = {s} /\ dm'[s] \in Answering \ {"serving"} /\ FilesNameIt'
      /\ \A p \in Pid : p # s => dm'[p] = dm[p]
  BY <1>1, <1>2, KillReaches
<1>4. PICK to \in {"wait", "sweep"} :
        /\ at' = [at EXCEPT ![c] = to] /\ (to = "wait" => at[c] = "kill")
        /\ (to = "sweep" => at[c] = "install" /\ service')
  BY DEF KillProbe, InstallUnit, Goes
<1>5. /\ at'[c] = to /\ at'[Unit] = at[Unit] /\ at[c] # "idle"
      /\ \A d \in Clients : d # c => at'[d] = at[d] /\ at[d] = "idle"
  BY <1>4, Apart DEF DmnTyped, DmnCore, LoneCommand, Actors
<1>6. CommandFollows(c) /\ UnitFollows
  BY DEF DmnCore, CommandsFollow
<1>7. unit.at \in {"off", "up"} /\ (unit.at = "up" => dm'[unit.main] # "unborn")
  <2>1. unit.at \in {"off", "up"}
    BY <1>3, <1>4, <1>6 DEF CommandFollows, Undisturbed, Replacing
  <2>2. unit.at = "up" => unit.main = s
    BY <1>3, <1>6 DEF UnitFollows
  <2> QED BY <1>3, <2>1, <2>2 DEF Answering
<1>8. CommandFollows(c)'
  <2> HIDE DEF Undisturbed, Replacing
  <2> QED BY <1>1, <1>3, <1>4, <1>5, <1>6, <1>7 DEF CommandFollows
<1>9. CommandsFollow' /\ LoneCommand'
  BY <1>1, <1>5, <1>8, OthersIdle
<1>10. UnitFollows'
  BY <1>1, <1>3, <1>5, <1>6, <1>7 DEF UnitFollows
<1>11. Stopped' /\ LoneDaemon'
  BY <1>1, <1>3, <1>5 DEF DmnCore, Stopped, LoneDaemon
<1> QED BY <1>3, <1>9, <1>10, <1>11 DEF DmnCore

LEMMA InstallCore ==
  ASSUME DmnTyped, DmnCore, NEW c \in Clients, ~Answers, InstallUnit(c)
  PROVE  DmnCore'
<1>1. /\ at[c] = "install" /\ at' = [at EXCEPT ![c] = "sweep"] /\ service'
      /\ UNCHANGED <<oneByOne, dm, files, cmd, unit, told>> /\ Live' = Live
  BY DEF InstallUnit, Goes, Live
<1>2. CommandFollows(c) /\ UnitFollows
  BY DEF DmnCore, CommandsFollow
<1>3. /\ at'[c] = "sweep" /\ at'[Unit] = at[Unit]
      /\ \A d \in Clients : d # c => at'[d] = at[d] /\ at[d] = "idle"
  BY <1>1, Apart DEF DmnTyped, DmnCore, LoneCommand, Actors
<1>4. unit.at \in {"off", "up", "backoff", "pre"} /\ (unit.at # "up" => Live = {})
  BY <1>1, <1>2, WhoAnswers DEF CommandFollows, Undisturbed, Replacing, Answering
<1>5. CommandFollows(c)'
  <2> HIDE DEF Undisturbed, Replacing
  <2> QED BY <1>1, <1>2, <1>3, <1>4 DEF CommandFollows
<1>6. CommandsFollow' /\ LoneCommand'
  BY <1>1, <1>3, <1>5, OthersIdle
<1>7. LoneDaemon' /\ Stopped'
  BY <1>1 DEF DmnCore, LoneDaemon, Stopped
<1>8. FilesNameIt'
  BY <1>1 DEF DmnCore, FilesNameIt, Holds, files
<1>9. UnitFollows'
  BY <1>1, <1>2, <1>3 DEF UnitFollows
<1> QED BY <1>6, <1>7, <1>8, <1>9 DEF DmnCore

LEMMA SpawnCore ==
  ASSUME DmnTyped, DmnCore, NEW c \in Clients, SpawnDaemon(c)
  PROVE  DmnCore'
<1> DEFINE n == Min(Unborn)
<1>1. n \in Pid /\ dm[n] = "unborn" /\ dm' = [dm EXCEPT ![n] = "probing"]
  BY NewDaemon DEF SpawnDaemon
<1> HIDE DEF n
<1>2. PICK p \in Pid : p = n
  BY <1>1
<1>3. /\ at[c] = "spawn" /\ at' = [at EXCEPT ![c] = "poll"]
      /\ UNCHANGED <<oneByOne, service, files, cmd, unit, commands, told>>
  BY DEF SpawnDaemon, Goes
<1>4. CommandFollows(c) /\ UnitFollows
  BY DEF DmnCore, CommandsFollow
<1>5. Live = {} /\ unit.at = "off"
  BY <1>3, <1>4 DEF CommandFollows
<1>6. dm'[p] = "probing" /\ \A q \in Pid : q # p => dm'[q] = dm[q]
  BY <1>1, <1>2 DEF DmnTyped, DmnTypeOK
<1>7. Live' \subseteq {p}
  BY <1>5, <1>6 DEF Live
<1>8. /\ at'[c] = "poll" /\ at'[Unit] = at[Unit]
      /\ \A d \in Clients : d # c => at'[d] = at[d] /\ at[d] = "idle"
  BY <1>3, Apart DEF DmnTyped, DmnCore, LoneCommand, Actors
<1>9. CommandFollows(c)'
  BY <1>3, <1>4, <1>8 DEF CommandFollows
<1>10. CommandsFollow' /\ LoneCommand'
  BY <1>3, <1>8, <1>9, OthersIdle
<1>11. UnitFollows'
  BY <1>3, <1>4, <1>5, <1>8 DEF UnitFollows
<1>12. LoneDaemon' /\ Stopped'
  BY <1>3, <1>7 DEF LoneDaemon, DmnCore, Stopped
<1>13. FilesNameIt'
  BY <1>6, <1>7 DEF FilesNameIt, Holds, Answering
<1> QED BY <1>10, <1>11, <1>12, <1>13 DEF DmnCore

(* What commands ask of the unit                                             *)
LEMMA StartUnitCore ==
  ASSUME DmnTyped, DmnCore, NEW c \in Clients, StartUnit(c)
  PROVE  DmnCore'
<1>1. /\ at[c] = "startUnit" /\ UNCHANGED <<oneByOne, service, dm, files, commands, told>>
      /\ Live' = Live /\ Unit # c /\ Unit \in Actors /\ c \in Actors
  BY Apart DEF StartUnit, Live, Actors
<1>2. CommandFollows(c) /\ UnitFollows /\ Live = {} /\ unit.at = "off" /\ service
  BY <1>1 DEF DmnCore, CommandsFollow, CommandFollows
<1>3. \/ /\ unit' = [unit EXCEPT !.at = "pre"]
         /\ at' = [at EXCEPT ![Unit] = "kill", ![c] = "poll"]
         /\ cmd' = [cmd EXCEPT ![Unit] = "start"]
      \/ Goes(c, "spawn") /\ UNCHANGED <<unit, cmd>>
  BY <1>2 DEF StartUnit
<1>4. CASE Goes(c, "spawn") /\ UNCHANGED <<unit, cmd>>
  <2>1. at'[c] = "spawn"
    BY <1>1, <1>4 DEF Goes, DmnTyped
  <2>2. CommandFollows(c)'
    BY <1>1, <1>2, <1>4, <2>1 DEF CommandFollows
  <2> QED BY <1>1, <1>2, <1>4, <2>2, CommandMoves DEF Places
<1>5. CASE unit' = [unit EXCEPT !.at = "pre"]
           /\ at' = [at EXCEPT ![Unit] = "kill", ![c] = "poll"]
           /\ cmd' = [cmd EXCEPT ![Unit] = "start"]
  <2>1. /\ at'[c] = "poll" /\ at'[Unit] = "kill" /\ cmd'[Unit] = "start" /\ cmd'[c] = cmd[c]
        /\ \A d \in Clients : d # c => at'[d] = at[d] /\ at[d] = "idle" /\ cmd'[d] = cmd[d]
    BY <1>1, <1>5, Apart DEF DmnTyped, DmnTypeOK, DmnCore, LoneCommand, Actors
  <2>2. unit'.at = "pre" /\ unit'.main = unit.main
    BY <1>5 DEF DmnTyped, UnitTyped
  <2>3. CommandFollows(c)'
    BY <1>2, <2>1 DEF CommandFollows
  <2>4. CommandsFollow' /\ LoneCommand'
    BY <2>1, <2>3, OthersIdle
  <2>5. UnitFollows'
    BY <1>1, <1>2, <2>1, <2>2 DEF UnitFollows, KillPhases
  <2>6. LoneDaemon' /\ Stopped' /\ FilesNameIt'
    BY <1>1, <1>2 DEF LoneDaemon, DmnCore, Stopped, FilesNameIt
  <2> QED BY <2>4, <2>5, <2>6 DEF DmnCore
<1> QED BY <1>3, <1>4, <1>5

LEMMA StopJobCore ==
  ASSUME DmnTyped, DmnCore, NEW c \in Clients, StopJob(c)
  PROVE  DmnCore'
<1>1. /\ at[c] \in {"standDown", "restartUnit"} /\ Unit # c /\ Unit \in Actors /\ c \in Actors
      /\ unit' = [unit EXCEPT !.again = at[c] = "restartUnit",
                              !.at = IF unit.at = "up" THEN "stopping" ELSE "stopped"]
      /\ at' = [at EXCEPT ![c] = IF at[c] = "standDown" THEN "standingDown" ELSE "poll",
                          ![Unit] = IF unit.at = "up" THEN "kill" ELSE "idle"]
      /\ cmd' = [cmd EXCEPT ![Unit] = IF unit.at = "up" THEN "stop" ELSE "none"]
      /\ UNCHANGED <<oneByOne, service, dm, files, commands, told>> /\ Live' = Live
  BY Apart DEF StopJob, Live, Actors
<1>2. CommandFollows(c) /\ UnitFollows
  BY DEF DmnCore, CommandsFollow
<1>3. /\ at'[c] = IF at[c] = "standDown" THEN "standingDown" ELSE "poll"
      /\ at'[Unit] = IF unit.at = "up" THEN "kill" ELSE "idle"
      /\ cmd'[c] = cmd[c] /\ cmd'[Unit] = IF unit.at = "up" THEN "stop" ELSE "none"
      /\ \A d \in Clients : d # c => at'[d] = at[d] /\ at[d] = "idle" /\ cmd'[d] = cmd[d]
  BY <1>1, Apart DEF DmnTyped, DmnTypeOK, DmnCore, LoneCommand, Actors
<1>4. /\ unit'.at = (IF unit.at = "up" THEN "stopping" ELSE "stopped")
      /\ unit'.main = unit.main /\ unit'.again = (at[c] = "restartUnit")
  BY <1>1 DEF DmnTyped, UnitTyped
<1>5. /\ unit.at \in {"off", "up", "backoff", "pre"} /\ service
      /\ at[c] = "restartUnit" \/ cmd[c] = "down" => (unit.at # "up" => Live = {})
  BY <1>1, <1>2 DEF CommandFollows, Replacing, Undisturbed
<1>6. CommandFollows(c)'
  <2>1. at[c] = "standDown" => unit'.again = FALSE
    BY <1>4
  <2>2. cmd[c] = "down" => (unit'.at # "stopping" => Live = {})
    BY <1>4, <1>5
  <2>3. at'[c] \in {"standingDown", "poll"} /\ (at'[c] = "standingDown" => at[c] = "standDown")
    BY <1>1, <1>3
  <2> HIDE DEF Undisturbed, Replacing
  <2> QED BY <1>1, <1>2, <1>3, <1>4, <1>5, <2>1, <2>2, <2>3 DEF CommandFollows
<1>7. CommandsFollow' /\ LoneCommand'
  BY <1>3, <1>6, OthersIdle
<1>8. UnitFollows'
  <2>1. CASE unit.at = "up"
    <3>1. unit'.at = "stopping" /\ at'[Unit] = "kill" /\ cmd'[Unit] = "stop" /\ unit'.main = unit.main
      BY <1>3, <1>4, <2>1
    <3>2. UnitFollows /\ dm' = dm /\ Live' = Live /\ service' = service
      BY <1>1, <1>2
    <3> QED BY <1>5, <2>1, <3>1, <3>2 DEF UnitFollows, KillPhases
  <2>2. CASE unit.at # "up"
    <3>1. unit'.at = "stopped" /\ at'[Unit] = "idle" /\ service' = service
      BY <1>1, <1>3, <1>4, <2>2
    <3>2. unit'.again => Live' = {}
      BY <1>1, <1>4, <1>5, <2>2
    <3> QED BY <1>5, <3>1, <3>2 DEF UnitFollows
  <2> QED BY <2>1, <2>2
<1>9. FilesNameIt'
  <2>1. unit'.at # "stopping" => FilesNameIt /\ unit.at # "stopping"
    BY <1>4, <1>5 DEF DmnCore
  <2> QED BY <1>1, <2>1 DEF FilesNameIt, Holds, files
<1>10. LoneDaemon' /\ Stopped'
  BY <1>1 DEF LoneDaemon, DmnCore, Stopped
<1> QED BY <1>7, <1>8, <1>9, <1>10 DEF DmnCore

(* A step of the unit: the commands see it where they look.                  *)
LEMMA UnitMoves ==
  ASSUME DmnTyped, DmnCore, UNCHANGED <<oneByOne, service>>, told' \in {told, "none"},
         \A c \in Clients : at'[c] = at[c] /\ cmd'[c] = cmd[c],
         LoneDaemon', FilesNameIt', UnitFollows', unit'.again => unit.again,
         told = "down" => told' = "none" \/ (Live' = {} /\ unit'.at = "off"),
         \A c \in Clients : at[c] # "idle" => KeepsTrack(c)
  PROVE  DmnCore'
<1>1. CommandsFollow'
  <2> SUFFICES ASSUME NEW c \in Clients PROVE CommandFollows(c)'
    BY DEF CommandsFollow
  <2>1. CommandFollows(c)
    BY DEF DmnCore, CommandsFollow
  <2> HIDE DEF Undisturbed, Replacing
  <2>2. CASE at[c] = "idle"
    BY <2>1, <2>2 DEF CommandFollows
  <2>3. CASE at[c] # "idle"
    BY <2>1, <2>3 DEF CommandFollows, KeepsTrack
  <2> QED BY <2>2, <2>3
<1>2. LoneCommand' /\ Stopped'
  BY DEF DmnCore, LoneCommand, Stopped
<1> QED BY <1>1, <1>2 DEF DmnCore

(* The unit's own kill                                                       *)
LEMMA UnitKillCore ==
  ASSUME DmnTyped, DmnCore, oneByOne,
         KillProbe(Unit) \/ KillWaited(Unit) \/ RemoveSocket(Unit) \/ RemovePid(Unit)
  PROVE  DmnCore'
<1>1. /\ at[Unit] \in {"kill", "wait", "rmSocket", "rmPid"} /\ Unit \in Actors /\ Unit \notin Clients
      /\ UNCHANGED <<oneByOne, service, cmd, unit>>
  BY Apart DEF KillProbe, KillWaited, RemoveSocket, RemovePid, Actors
<1>2. UnitFollows /\ unit.at \in {"pre", "stopping"} /\ cmd[Unit] \in {"start", "stop"}
  BY <1>1 DEF DmnCore, UnitFollows
<1>3. PICK to \in {"wait", "rmSocket", "rmPid", "done"} : at' = [at EXCEPT ![Unit] = to]
        /\ told' = told
        /\ \/ KillProbe(Unit) /\ Answers /\ to = "wait"
           \/ /\ dm' = dm /\ to # "wait" /\ (at[Unit] \in {"kill", "wait"} => ~Answers)
              /\ (at[Unit] \in {"kill", "wait"} => UNCHANGED files)
  BY <1>2 DEF KillProbe, KillWaited, RemoveSocket, RemovePid, Goes, AfterKill
<1>4. at'[Unit] = to /\ \A d \in Clients : at'[d] = at[d] /\ cmd'[d] = cmd[d]
  BY <1>1, <1>3 DEF DmnTyped, Actors
<1>5. told # "down"
  BY <1>2 DEF DmnCore, Stopped
<1>6. CASE KillProbe(Unit) /\ Answers /\ to = "wait"
  <2>1. /\ dm' = IF dm[sockFile] = "serving" THEN [dm EXCEPT ![sockFile] = "stopping"] ELSE dm
        /\ UNCHANGED files
    BY <1>6 DEF KillProbe
  <2>2. PICK s \in Pid : s = sockFile
    BY <1>6, WhoAnswers
  <2>3. /\ Live' = {s} /\ Live = {s} /\ dm'[s] \in Answering \ {"serving"} /\ FilesNameIt'
        /\ \A p \in Pid : p # s => dm'[p] = dm[p]
    BY <1>1, <1>6, <2>1, <2>2, KillReaches
  <2>4. UnitFollows'
    <3>1. unit.at = "stopping" => unit.main = s /\ dm'[unit.main] # "unborn"
      BY <1>2, <2>3 DEF UnitFollows, Answering
    <3> QED BY <1>1, <1>2, <1>4, <1>6, <2>3, <3>1 DEF UnitFollows, KillPhases
  <2>5. LoneDaemon'
    BY <2>3 DEF LoneDaemon
  <2>6. ~Undisturbed
    BY <1>2 DEF Undisturbed
  <2>7. ASSUME NEW c \in Clients, at[c] # "idle"
        PROVE  /\ Replacing => FALSE
               /\ at[c] \notin {"wait", "rmSocket", "rmPid", "probe", "startUnit", "spawn", "await"}
               /\ at[c] = "sweep" => unit.at = "pre"
               /\ at[c] = "standingDown" => unit.at = "stopping"
    BY <1>2, <2>3, <2>7 DEF DmnCore, CommandsFollow, CommandFollows, Replacing
  <2> HIDE DEF Undisturbed, Replacing
  <2>8. ASSUME NEW c \in Clients, at[c] # "idle"
        PROVE  KeepsTrack(c)
    BY <1>1, <2>3, <2>6, <2>7, <2>8 DEF KeepsTrack
  <2> QED BY <1>1, <1>3, <1>4, <1>5, <2>3, <2>4, <2>5, <2>8, UnitMoves
<1>7. CASE dm' = dm /\ to # "wait" /\ (at[Unit] \in {"kill", "wait"} => ~Answers)
           /\ (at[Unit] \in {"kill", "wait"} => UNCHANGED files)
  <2>1. Live' = Live /\ Undisturbed' = Undisturbed /\ Replacing' = Replacing
    BY <1>1, <1>7 DEF Live, Undisturbed, Replacing
  <2>2. unit.at = "pre" => Live = {}
    BY <1>1, <1>2, <1>7, WhoAnswers DEF UnitFollows
  <2>3. LoneDaemon'
    BY <2>1 DEF LoneDaemon, DmnCore
  <2>4. FilesNameIt'
    BY <1>1, <1>2, <2>1, <2>2 DEF FilesNameIt
  <2>5. UnitFollows'
    BY <1>1, <1>2, <1>4, <1>7, <2>1, <2>2 DEF UnitFollows, KillPhases
  <2> HIDE DEF Undisturbed, Replacing
  <2>6. ASSUME NEW c \in Clients, at[c] # "idle"
        PROVE  KeepsTrack(c)
    <3>1. CommandFollows(c)
      BY DEF DmnCore, CommandsFollow
    <3> QED BY <1>1, <1>2, <1>7, <2>1, <2>2, <3>1 DEF CommandFollows, KeepsTrack
  <2> QED BY <1>1, <1>3, <1>4, <1>5, <2>3, <2>4, <2>5, <2>6, UnitMoves
<1> QED BY <1>3, <1>6, <1>7

(* The steps of the service manager                                          *)
LEMMA UnitStepCore ==
  ASSUME DmnTyped, DmnCore, oneByOne,
         MainExits \/ RestartMain \/ UnitStopped \/ BootStarts
  PROVE  DmnCore'
<1>1. UNCHANGED <<oneByOne, service, dm, files>> /\ Live' = Live /\ Unit \in Actors /\ Unit \notin Clients
  BY Apart DEF MainExits, RestartMain, UnitStopped, BootStarts, Live, Actors
<1>2. UnitFollows /\ \A c \in Clients : CommandFollows(c)
  BY DEF DmnCore, CommandsFollow
<1>3. \A c \in Clients : at'[c] = at[c] /\ cmd'[c] = cmd[c]
  BY <1>1 DEF MainExits, RestartMain, UnitStopped, BootStarts, RunKill, DmnTyped, DmnTypeOK, Actors
<1>4. LoneDaemon'
  BY <1>1 DEF DmnCore, LoneDaemon
<1>5. CASE BootStarts
  <2>1. Undisturbed /\ \A a \in Actors : at[a] = "idle"
    BY <1>5, SettledIsCalm DEF BootStarts
  <2>2. /\ unit.at = "off" /\ unit'.at = "pre" /\ unit'.again = unit.again
        /\ at'[Unit] = "kill" /\ cmd'[Unit] = "start" /\ told' = "none" /\ service
    BY <1>1, <1>5 DEF BootStarts, RunKill, DmnTyped, DmnTypeOK, UnitTyped
  <2>3. UnitFollows'
    BY <1>1, <1>2, <2>1, <2>2 DEF UnitFollows, Undisturbed, Answering, KillPhases
  <2>4. FilesNameIt'
    BY <1>1, <2>2 DEF DmnCore, FilesNameIt, Holds, files
  <2> QED BY <1>1, <1>3, <1>4, <2>1, <2>2, <2>3, <2>4, UnitMoves DEF Actors
<1>6. CASE MainExits
  <2>1. unit.at = "up" /\ dm[unit.main] \in Ended /\ at'=at /\ told' = told
        /\ unit'.at \in {"off", "backoff"} /\ unit'.again = unit.again /\ unit'.main = unit.main
    BY <1>6 DEF MainExits, DmnTyped, UnitTyped
  <2>2. Live = {} /\ ~Undisturbed
    BY <1>2, <2>1 DEF UnitFollows, Live, Undisturbed, Ended, Alive, Booting, Answering
  <2>3. UnitFollows'
    BY <1>1, <1>2, <2>1, <2>2 DEF UnitFollows
  <2>4. FilesNameIt'
    BY <1>1, <2>2 DEF FilesNameIt
  <2>5. told # "down"
    BY <2>1 DEF DmnCore, Stopped
  <2>6. Replacing'
    BY <1>1, <2>1, <2>2 DEF Replacing
  <2>7. ASSUME NEW c \in Clients, at[c] # "idle" PROVE KeepsTrack(c)
    <3> HIDE DEF Undisturbed, Replacing
    <3> QED BY <1>1, <1>2, <2>1, <2>2, <2>6 DEF KeepsTrack, CommandFollows
  <2> QED BY <1>1, <1>3, <1>4, <2>1, <2>3, <2>4, <2>5, <2>7, UnitMoves
<1>7. CASE RestartMain
  <2>1. /\ unit.at = "backoff" /\ told' = told /\ at'[Unit] = "kill" /\ cmd'[Unit] = "start"
        /\ unit'.at = "pre" /\ unit'.again = unit.again
        /\ \A c \in Clients : at[c] \notin {"wait", "rmSocket", "rmPid"}
    BY <1>1, <1>7 DEF RestartMain, RunKill, DmnTyped, DmnTypeOK, UnitTyped
  <2>2. Live = {} /\ ~Undisturbed
    BY <1>2, <2>1 DEF UnitFollows, Undisturbed
  <2>3. UnitFollows'
    BY <1>1, <1>2, <2>1, <2>2 DEF UnitFollows, KillPhases
  <2>4. FilesNameIt'
    BY <1>1, <2>2 DEF FilesNameIt
  <2>5. told # "down"
    BY <2>1 DEF DmnCore, Stopped
  <2>6. Replacing'
    BY <1>1, <2>1, <2>2 DEF Replacing
  <2>7. ASSUME NEW c \in Clients, at[c] # "idle" PROVE KeepsTrack(c)
    <3> HIDE DEF Undisturbed, Replacing
    <3> QED BY <1>1, <1>2, <2>1, <2>2, <2>6 DEF KeepsTrack, CommandFollows
  <2> QED BY <1>1, <1>3, <1>4, <2>1, <2>3, <2>4, <2>5, <2>7, UnitMoves
<1>8. CASE UnitStopped
  <2>1. /\ unit.at = "stopped" /\ told' = told /\ unit'.main = unit.main
        /\ \/ /\ unit.again /\ unit'.at = "pre" /\ ~unit'.again
              /\ at'[Unit] = "kill" /\ cmd'[Unit] = "start"
           \/ ~unit.again /\ unit'.at = "off" /\ unit'.again = unit.again /\ at' = at
    <3>1. unit.at = "stopped" /\ told' = told
      BY <1>8 DEF UnitStopped
    <3>2. CASE unit.again
      <4>1. unit' = [unit EXCEPT !.at = "pre", !.again = FALSE] /\ RunKill("start")
        BY <1>8, <3>2 DEF UnitStopped
      <4>2. at'[Unit] = "kill" /\ cmd'[Unit] = "start"
        BY <1>1, <4>1 DEF RunKill, DmnTyped, DmnTypeOK
      <4>3. unit'.at = "pre" /\ ~unit'.again /\ unit'.main = unit.main
        BY <4>1 DEF DmnTyped, UnitTyped
      <4> QED BY <3>1, <3>2, <4>2, <4>3
    <3>3. CASE ~unit.again
      <4>1. unit' = [unit EXCEPT !.at = "off"] /\ at' = at
        BY <1>8, <3>3 DEF UnitStopped
      <4>2. unit'.at = "off" /\ unit'.again = unit.again /\ unit'.main = unit.main
        BY <4>1 DEF DmnTyped, UnitTyped
      <4> QED BY <3>1, <3>3, <4>1, <4>2
    <3> QED BY <3>2, <3>3
  <2>2. ~Undisturbed /\ ~Replacing
    BY <2>1 DEF Undisturbed, Replacing
  <2>3. UnitFollows'
    <3>1. CASE unit.again
      BY <1>1, <1>2, <2>1, <3>1 DEF UnitFollows, KillPhases
    <3>2. CASE ~unit.again
      BY <1>1, <1>2, <2>1, <3>2 DEF UnitFollows
    <3> QED BY <3>1, <3>2
  <2>4. FilesNameIt'
    BY <1>1, <2>1 DEF DmnCore, FilesNameIt, Holds, files
  <2>5. told # "down"
    BY <2>1 DEF DmnCore, Stopped
  <2>6. ASSUME NEW c \in Clients, at[c] # "idle" PROVE KeepsTrack(c)
    <3> HIDE DEF Undisturbed, Replacing
    <3> QED BY <1>1, <1>2, <2>1, <2>2 DEF KeepsTrack, CommandFollows
  <2> QED BY <1>1, <1>3, <1>4, <2>1, <2>3, <2>4, <2>5, <2>6, UnitMoves
<1> QED BY <1>5, <1>6, <1>7, <1>8

LEMMA ExecStartCore ==
  ASSUME DmnTyped, DmnCore, ExecStart
  PROVE  DmnCore'
<1> DEFINE n == Min(Unborn)
<1>1. /\ n \in Pid /\ dm[n] = "unborn" /\ dm' = [dm EXCEPT ![n] = "probing"]
      /\ unit' = [at |-> "up", main |-> n, again |-> FALSE]
  BY NewDaemon DEF ExecStart
<1> HIDE DEF n
<1>2. PICK p \in Pid : p = n
  BY <1>1
<1>3. /\ at[Unit] = "done" /\ unit.at = "pre" /\ at' = [at EXCEPT ![Unit] = "idle"]
      /\ UNCHANGED <<oneByOne, service, files, cmd, told>> /\ Unit \in Actors /\ Unit \notin Clients
  BY Apart DEF ExecStart, Goes, Actors
<1>4. UnitFollows /\ (\A c \in Clients : CommandFollows(c)) /\ told # "down"
  BY <1>3 DEF DmnCore, CommandsFollow, Stopped
<1>5. Live = {} /\ service
  BY <1>3, <1>4 DEF UnitFollows
<1>6. dm'[p] = "probing" /\ (\A q \in Pid : q # p => dm'[q] = dm[q]) /\ at'[Unit] = "idle"
      /\ \A c \in Clients : at'[c] = at[c]
  BY <1>1, <1>2, <1>3 DEF DmnTyped, DmnTypeOK, Actors
<1>7. Live' \subseteq {p} /\ unit'.at = "up" /\ unit'.main = p /\ ~unit'.again
  BY <1>1, <1>2, <1>5, <1>6 DEF Live
<1>8. LoneDaemon'
  BY <1>7 DEF LoneDaemon
<1>9. FilesNameIt'
  BY <1>6, <1>7 DEF FilesNameIt, Holds, Answering
<1>10. UnitFollows'
  BY <1>3, <1>5, <1>6, <1>7 DEF UnitFollows
<1>11. ~Undisturbed /\ Replacing'
  BY <1>3, <1>7 DEF Undisturbed, Replacing
<1>12. ASSUME NEW c \in Clients, at[c] # "idle" PROVE KeepsTrack(c)
  <2> HIDE DEF Undisturbed, Replacing
  <2> QED BY <1>3, <1>4, <1>7, <1>11 DEF KeepsTrack, CommandFollows
<1> QED BY <1>3, <1>4, <1>6, <1>7, <1>8, <1>9, <1>10, <1>12, UnitMoves

LEMMA TermMainCore ==
  ASSUME DmnTyped, DmnCore, TermMain
  PROVE  DmnCore'
<1>1. /\ unit.at = "stopping" /\ at[Unit] = "done"
      /\ dm' = IF dm[unit.main] \in Alive THEN [dm EXCEPT ![unit.main] = "gone"] ELSE dm
      /\ unit' = [unit EXCEPT !.at = "stopped"] /\ at' = [at EXCEPT ![Unit] = "idle"]
      /\ UNCHANGED <<oneByOne, service, files, cmd, told>> /\ Unit \in Actors /\ Unit \notin Clients
  BY Apart DEF TermMain, Goes, Actors
<1>2. UnitFollows /\ (\A c \in Clients : CommandFollows(c)) /\ told # "down"
  BY <1>1 DEF DmnCore, CommandsFollow, Stopped
<1>3. PICK m \in Pid : m = unit.main
  BY <1>1, <1>2 DEF UnitFollows
<1>4. Live \subseteq {m} /\ service
  BY <1>1, <1>2, <1>3 DEF UnitFollows
<1>5. dm'[m] \notin Alive /\ \A q \in Pid : q # m => dm'[q] = dm[q]
  BY <1>1, <1>3 DEF DmnTyped, DmnTypeOK, Alive, Booting, Answering
<1>6. Live' = {}
  BY <1>4, <1>5 DEF Live
<1>7. /\ unit'.at = "stopped" /\ unit'.again = unit.again /\ at'[Unit] = "idle"
      /\ \A c \in Clients : at'[c] = at[c]
  BY <1>1 DEF DmnTyped, UnitTyped, Actors
<1>8. LoneDaemon' /\ FilesNameIt'
  BY <1>6 DEF LoneDaemon, FilesNameIt
<1>9. UnitFollows'
  BY <1>1, <1>4, <1>6, <1>7 DEF UnitFollows
<1>10. ~Undisturbed /\ ~Replacing
  BY <1>1 DEF Undisturbed, Replacing
<1>11. ASSUME NEW c \in Clients, at[c] # "idle" PROVE KeepsTrack(c)
  <2> HIDE DEF Undisturbed, Replacing
  <2> QED BY <1>1, <1>2, <1>6, <1>7, <1>10 DEF KeepsTrack, CommandFollows
<1> QED BY <1>1, <1>2, <1>7, <1>8, <1>9, <1>11, UnitMoves

(* A crash finds nothing under way.                                          *)
LEMMA CrashCore ==
  ASSUME DmnTyped, DmnCore, oneByOne, NEW p \in Pid, Crash(p)
  PROVE  DmnCore'
<1>1. /\ Undisturbed /\ unit.at \in {"off", "up"} /\ \A a \in Actors : at[a] = "idle"
      /\ dm' = [dm EXCEPT ![p] = "gone"]
      /\ UNCHANGED <<oneByOne, service, files, at, cmd, unit, commands, told>>
  BY SettledIsCalm DEF Crash
<1>2. dm'[p] = "gone" /\ \A q \in Pid : q # p => dm'[q] = dm[q]
  BY <1>1 DEF DmnTyped, DmnTypeOK
<1>3. Live' \subseteq Live /\ p \notin Live' /\ Live \subseteq Pid
  BY <1>2 DEF Live, Alive, Booting, Answering
<1>4. CommandsFollow' /\ LoneCommand'
  BY <1>1 DEF DmnCore, CommandsFollow, CommandFollows, LoneCommand, Actors
<1>5. UnitFollows'
  BY <1>1, <1>2, <1>3, Apart DEF DmnCore, UnitFollows, Actors
<1>6. LoneDaemon' /\ Stopped'
  BY <1>1, <1>3 DEF DmnCore, LoneDaemon, Stopped
<1>7. FilesNameIt'
  <2> SUFFICES ASSUME NEW q \in Live' PROVE Holds(q)'
    BY DEF FilesNameIt
  <2>1. Holds(q) /\ dm'[q] = dm[q]
    BY <1>1, <1>2, <1>3 DEF DmnCore, FilesNameIt
  <2> QED BY <1>1, <2>1 DEF Holds, files
<1> QED BY <1>4, <1>5, <1>6, <1>7 DEF DmnCore

LEMMA DmnNextInv == ASSUME DmnInv, [DmnNext]_dmnVars PROVE DmnInv'
<1>1. CASE DmnNext
  <2>1. DmnTyped' /\ DmnTyped
    BY <1>1, DmnTypeNext DEF DmnInv
  <2>2. oneByOne' = oneByOne
    BY <1>1 DEF DmnNext, DaemonStep, Crash, BootProbe, BootUnlink, BootRecord, BootLoad, Bind,
       BindFails, StopAllDone, RemoveOwnFirst, RemoveOwnSecond, ProcessExits, Command, Issue,
       InstallUnit, StraySwept, CheckAlive, LaunchProbe, SpawnDaemon, Polled, StartUnit, StopJob,
       StopFails, StoodDown, Ask, Await, KillProbe, KillWaited, RemoveSocket, RemovePid, BootStarts,
       ExecStart, MainExits, RestartMain, TermMain, UnitStopped
  <2>3. ASSUME oneByOne PROVE DmnCore'
    <3>1. DmnCore
      BY <2>3 DEF DmnInv
    <3>2. ASSUME NEW p \in Pid, DaemonStep(p) \/ Crash(p) PROVE DmnCore'
      BY <2>1, <2>3, <3>1, <3>2, DaemonStepCore, CrashCore
    <3>3. ASSUME NEW c \in Clients, Command(c) PROVE DmnCore'
      <4>1. CASE InstallUnit(c)
        BY <2>1, <2>3, <3>1, <4>1, KillReachesCore, InstallCore
      <4>2. CASE SpawnDaemon(c) \/ StartUnit(c) \/ StopJob(c)
        BY <2>1, <3>1, <4>2, SpawnCore, StartUnitCore, StopJobCore
      <4>3. CASE \/ StraySwept(c) \/ CheckAlive(c) \/ LaunchProbe(c) \/ Polled(c)
                 \/ StoodDown(c) \/ StopFails(c) \/ Ask(c) \/ Await(c)
        BY <2>1, <2>3, <3>1, <4>3, CommandStepCore
      <4>4. ASSUME NEW what, NEW first, Issue(c, what, first),
                   \/ <<what, first>> \in {<<"up", "check">>, <<"kill", "kill">>,
                        <<"down", "ask">>, <<"restart", "ask">>, <<"realign", "ask">>,
                        <<"install", "install">>}
                   \/ <<what, first>> = <<"uninstall", "standDown">> /\ service
            PROVE  DmnCore'
        BY <2>1, <2>3, <3>1, <4>4, IssueCore
      <4> QED BY <3>3, <4>1, <4>2, <4>3, <4>4 DEF Command
    <3>4. ASSUME NEW a \in Actors, KillProbe(a) \/ KillWaited(a) \/ RemoveSocket(a) \/ RemovePid(a)
          PROVE  DmnCore'
      <4>1. CASE a = Unit
        BY <2>1, <2>3, <3>1, <3>4, <4>1, UnitKillCore
      <4>2. CASE a \in Clients
        BY <2>1, <2>3, <3>1, <3>4, <4>2, CommandStepCore, KillReachesCore
      <4> QED BY <4>1, <4>2 DEF Actors
    <3> QED BY <1>1, <2>1, <2>3, <3>1, <3>2, <3>3, <3>4, UnitStepCore, ExecStartCore,
               TermMainCore DEF DmnNext
  <2> QED BY <2>1, <2>2, <2>3 DEF DmnInv
<1>2. CASE UNCHANGED dmnVars
  <2>1. UNCHANGED <<oneByOne, service, dm, sockFile, pidFile, at, cmd, unit, commands, told>>
    BY <1>2 DEF dmnVars, files
  <2> QED BY <2>1 DEF DmnInv, DmnTyped, DmnTypeOK, UnitTyped, DmnCore, LoneDaemon, FilesNameIt,
        Holds, UnitFollows, CommandsFollow, CommandFollows, Undisturbed, Replacing, LoneCommand,
        Stopped, Live
<1> QED BY <1>1, <1>2

(* Whatever the commands, crashes and the boot service do one after the       *)
(* other: a daemon that serves is the one that the socket and the PID file    *)
(* lead to, and after a `pboss daemon stop` that the boot service obeys none  *)
(* is left, nor comes back.                                                  *)
THEOREM DaemonAlwaysInHand == DmnSpec => [](DmnTypeOK /\ DaemonIsInHand)
<1>1. DmnInv => DmnTypeOK /\ DaemonIsInHand
  <2> SUFFICES ASSUME DmnInv PROVE DmnTypeOK /\ DaemonIsInHand
    OBVIOUS
  <2>1. DmnTypeOK
    BY DEF DmnInv, DmnTyped
  <2>2. ServingIsFound
    <3> SUFFICES ASSUME oneByOne, unit.at \in {"off", "up"}, NEW p \in Pid, dm[p] = "serving"
                 PROVE  sockFile = p /\ pidFile = p
      BY DEF ServingIsFound
    <3>1. p \in Live
      BY DEF Live, Alive, Answering
    <3>2. Holds(p)
      BY <3>1 DEF DmnInv, DmnCore, FilesNameIt
    <3> QED BY <3>2 DEF Holds, Answering
  <2>3. DownStaysDown
    BY DEF DownStaysDown, NoneIsLeft, DmnInv, DmnCore, Stopped, Live
  <2> QED BY <2>1, <2>2, <2>3 DEF DaemonIsInHand
<1> QED BY <1>1, DmnInitInv, DmnNextInv, PTL DEF DmnSpec

-----------------------------------------------------------------------------
(* The permissions of a Deno app *)

(* What a list mentions, by its elements.                                     *)
LEMMA FlagsByElement ==
  ASSUME NEW T, NEW flags \in Seq(T)
  PROVE  /\ \A p : Mentions(flags, p) <=> \E x \in ToSet(flags) : SameStem(x, p)
         /\ \A e : Contains(flags, e) <=> e \in ToSet(flags)
         /\ HasAll(flags) <=> AllFlag \in ToSet(flags)
         /\ HasAllow(flags) <=> \E x \in ToSet(flags) : x \in Scoped /\ x.sort = "allow"
<1>1. DOMAIN flags = 1 .. Len(flags)
  BY LenProperties
<1> QED BY <1>1 DEF Mentions, Contains, HasAll, HasAllow, ToSet

(* One element more.                                                          *)
LEMMA AppendAdds ==
  ASSUME NEW T, NEW flags \in Seq(T), NEW p \in T
  PROVE  /\ Append(flags, p) \in Seq(T) /\ Len(Append(flags, p)) = Len(flags) + 1
         /\ ToSet(Append(flags, p)) = ToSet(flags) \cup {p}
         /\ \A i \in 1 .. Len(flags) : Append(flags, p)[i] = flags[i]
         /\ Append(flags, p)[Len(flags) + 1] = p
<1>1. /\ Append(flags, p) \in Seq(T) /\ Len(Append(flags, p)) = Len(flags) + 1
      /\ \A i \in 1 .. Len(flags) : Append(flags, p)[i] = flags[i]
      /\ Append(flags, p)[Len(flags) + 1] = p
  BY AppendProperties
<1>2. Len(flags) \in Nat /\ DOMAIN flags = 1 .. Len(flags)
  BY LenProperties
<1>3. DOMAIN Append(flags, p) = 1 .. Len(flags) + 1
  BY <1>1, LenProperties
<1>4. \A i \in 1 .. Len(flags) + 1 : i \in 1 .. Len(flags) \/ i = Len(flags) + 1
  BY <1>2
<1>5. Len(flags) + 1 \in 1 .. Len(flags) + 1 /\ 1 .. Len(flags) \subseteq 1 .. Len(flags) + 1
  BY <1>2
<1>6. ToSet(Append(flags, p)) = ToSet(flags) \cup {p}
  BY <1>1, <1>2, <1>3, <1>4, <1>5 DEF ToSet
<1> QED BY <1>1, <1>6

(* The sorts of flags are apart.                                              *)
LEMMA FlagSorts ==
  /\ AllFlag \notin Scoped /\ AllFlag \in Grants /\ Scoped \subseteq Grants
  /\ \A p \in Scoped : p.sort \in {"allow", "deny"} /\ SameStem(p, p)
  /\ NoneEntry \notin Grants /\ Garbage \notin Grants
  /\ ~IsDeny(AllFlag) /\ ~IsDeny(NoneEntry) /\ ~IsDeny(Garbage)
  /\ AllFlag.sort # "allow"
BY DEF AllFlag, Scoped, Grants, SameStem, NoneEntry, Garbage, IsDeny

(* normalizeDenoPermissions, one entry: its stem is mentioned, no other is    *)
(* lost, nothing is made up.                                                  *)
LEMMA AppendedKeeps ==
  ASSUME NEW flags \in Seq(Scoped), NEW p \in Scoped
  PROVE  /\ Appended(flags, p) \in Seq(Scoped)
         /\ ToSet(Appended(flags, p)) \subseteq ToSet(flags) \cup {p}
         /\ \A q : SameStem(p, q) \/ Mentions(flags, q) => Mentions(Appended(flags, p), q)
<1> DEFINE others == Among(flags, {q \in Scoped : ~SameStem(p, q)})
           next == Appended(flags, p)
<1>1. others \in Seq(Scoped) /\ ToSet(others) = ToSet(flags) \cap {q \in Scoped : ~SameStem(p, q)}
  BY AmongElements
<1>2. next = Append(others, p)
  BY DEF Appended
<1> HIDE DEF others, next
<1>3. next \in Seq(Scoped) /\ ToSet(next) = ToSet(others) \cup {p}
  BY <1>1, <1>2, AppendAdds
<1>4. ToSet(flags) \subseteq Scoped
  BY ElementOfSeq, LenProperties DEF ToSet
<1>5. ASSUME NEW q, SameStem(p, q) \/ Mentions(flags, q) PROVE Mentions(next, q)
  <2>1. CASE SameStem(p, q)
    BY <2>1, <1>3, FlagsByElement
  <2>2. CASE ~SameStem(p, q)
    <3>1. PICK x \in ToSet(flags) : SameStem(x, q)
      BY <1>5, <2>2, FlagsByElement
    <3>2. ~SameStem(p, x)
      BY <3>1, <2>2 DEF SameStem
    <3>3. x \in ToSet(next)
      BY <3>1, <3>2, <1>1, <1>3, <1>4
    <3> QED BY <3>1, <3>3, <1>3, FlagsByElement
  <2> QED BY <2>1, <2>2
<1> QED BY <1>1, <1>3, <1>5 DEF next

(* The fold of Appended is a chain of its steps.                              *)
LEMMA AppendedFold ==
  ASSUME NEW seq \in Seq(Scoped)
  PROVE  \E c : /\ FoldLeft(Appended, <<>>, seq) = c[Len(seq)] /\ c[0] = <<>>
                /\ \A i \in 1 .. Len(seq) : c[i] = Appended(c[i - 1], seq[i])
<1> DEFINE V == Seq(Scoped)
           step == [pr \in V \X Scoped |-> Appended(pr[1], pr[2])]
           Rec(it) == it = [s \in SUBSET DOMAIN seq |->
                              IF s = {} THEN <<>>
                              ELSE Appended(it[s \ {Max(s)}], seq[Max(s)])]
           it == CHOOSE it : Rec(it)
           c == [i \in 0 .. Len(seq) |-> it[1 .. i]]
<1>0. Len(seq) \in Nat /\ DOMAIN seq = 1 .. Len(seq) /\ \A i \in 1 .. Len(seq) : seq[i] \in Scoped
  BY LenProperties, ElementOfSeq
<1>1. <<>> \in V /\ step \in [V \X Scoped -> V]
  BY AppendedKeeps
<1>2. \A a \in V, x \in Scoped : step[<<a, x>>] = Appended(a, x)
  OBVIOUS
<1>3. PICK g : Solves(g, Len(seq), <<>>, step, seq, V)
  <2> HIDE DEF V, step
  <2> QED BY <1>1, FoldExists DEF V
<1>4. Rec(g)
  <2> HIDE DEF V, step
  <2>1. g = [s \in SUBSET DOMAIN seq |-> g[s]] /\ \A s \in SUBSET DOMAIN seq : g[s] \in V
    BY <1>0, <1>3 DEF Solves
  <2>2. ASSUME NEW s \in SUBSET DOMAIN seq
        PROVE  g[s] = IF s = {} THEN <<>> ELSE Appended(g[s \ {Max(s)}], seq[Max(s)])
    <3>1. g[s] = IF s = {} THEN <<>> ELSE step[<<g[s \ {Max(s)}], seq[Max(s)]>>]
      BY <1>0, <1>3 DEF Solves
    <3>2. CASE s # {}
      <4>1. Max(s) \in s
        BY <3>2, <1>0, MaxOf
      <4>2. g[s \ {Max(s)}] \in V /\ seq[Max(s)] \in Scoped
        BY <4>1, <1>0, <2>1
      <4> QED BY <3>1, <3>2, <4>2, <1>2
    <3> QED BY <3>1, <3>2
  <2> QED BY <2>1, <2>2
<1>5. Rec(it)
  <2> HIDE DEF Rec
  <2> QED BY <1>4
<1>6. FoldLeft(Appended, <<>>, seq) = it[DOMAIN seq]
  BY Zenon DEF FoldLeft, MapThenFoldSet
<1>7. \A s \in SUBSET DOMAIN seq :
        it[s] = IF s = {} THEN <<>> ELSE Appended(it[s \ {Max(s)}], seq[Max(s)])
  <2> HIDE DEF it
  <2> QED BY <1>5
<1> HIDE DEF it, Rec
<1>8. c[0] = <<>>
  <2>1. 1 .. 0 = {} /\ 0 \in 0 .. Len(seq)
    BY <1>0
  <2>2. c[0] = it[{}]
    BY <2>1
  <2>3. it[{}] = <<>>
    BY <1>7
  <2> QED BY <2>2, <2>3
<1>9. ASSUME NEW i \in 1 .. Len(seq) PROVE c[i] = Appended(c[i - 1], seq[i])
  <2>1. i \in Nat /\ i \in 0 .. Len(seq) /\ i - 1 \in 0 .. Len(seq) /\ i \in 1 .. i
        /\ 1 .. i \in SUBSET DOMAIN seq
    BY <1>0
  <2>2. Max(1 .. i) = i
    BY <2>1, MaxIs
  <2>3. (1 .. i) \ {i} = 1 .. i - 1
    BY <2>1
  <2>4. it[1 .. i] = Appended(it[1 .. i - 1], seq[i])
    BY <1>7, <2>1, <2>2, <2>3
  <2> QED BY <2>1, <2>4
<1>10. FoldLeft(Appended, <<>>, seq) = c[Len(seq)]
  BY <1>0, <1>6
<1> HIDE DEF c
<1> QED BY <1>8, <1>9, <1>10

(* normalizeDenoPermissions of scoped entries: each is mentioned, and nothing *)
(* else is in the result.                                                     *)
LEMMA FlagsOfEntries ==
  ASSUME NEW seq \in Seq(Scoped)
  PROVE  LET flags == FoldLeft(Appended, <<>>, seq) IN
         /\ flags \in Seq(Scoped) /\ ToSet(flags) \subseteq ToSet(seq)
         /\ \A p \in ToSet(seq) : Mentions(flags, p)
<1>1. PICK c : /\ FoldLeft(Appended, <<>>, seq) = c[Len(seq)] /\ c[0] = <<>>
               /\ \A i \in 1 .. Len(seq) : c[i] = Appended(c[i - 1], seq[i])
  BY AppendedFold
<1>0. Len(seq) \in Nat /\ DOMAIN seq = 1 .. Len(seq) /\ \A i \in 1 .. Len(seq) : seq[i] \in Scoped
  BY LenProperties, ElementOfSeq
<1> DEFINE P == {i \in 0 .. Len(seq) :
                   /\ c[i] \in Seq(Scoped) /\ ToSet(c[i]) \subseteq ToSet(seq)
                   /\ \A j \in 1 .. i : Mentions(c[i], seq[j])}
<1>2. 0 \in P
  <2>1. c[0] \in Seq(Scoped)
    BY <1>1
  <2>2. ToSet(c[0]) = {}
    BY <1>1 DEF ToSet
  <2>3. 1 .. 0 = {} /\ 0 \in 0 .. Len(seq)
    BY <1>0
  <2> QED BY <2>1, <2>2, <2>3
<1>3. ASSUME NEW i \in 1 .. Len(seq), i - 1 \in P PROVE i \in P
  <2>1. /\ c[i - 1] \in Seq(Scoped) /\ ToSet(c[i - 1]) \subseteq ToSet(seq)
        /\ \A j \in 1 .. i - 1 : Mentions(c[i - 1], seq[j])
    BY <1>3
  <2>2. /\ c[i] \in Seq(Scoped) /\ ToSet(c[i]) \subseteq ToSet(c[i - 1]) \cup {seq[i]}
        /\ \A q : SameStem(seq[i], q) \/ Mentions(c[i - 1], q) => Mentions(c[i], q)
    <3>1. c[i] = Appended(c[i - 1], seq[i]) /\ seq[i] \in Scoped
      BY <1>0, <1>1
    <3> DEFINE next == Appended(c[i - 1], seq[i])
    <3>2. /\ next \in Seq(Scoped) /\ ToSet(next) \subseteq ToSet(c[i - 1]) \cup {seq[i]}
          /\ \A q : SameStem(seq[i], q) \/ Mentions(c[i - 1], q) => Mentions(next, q)
      BY <2>1, <3>1, AppendedKeeps
    <3>3. c[i] = next
      BY <3>1
    <3> HIDE DEF next
    <3> QED BY <3>2, <3>3
  <2>3. ToSet(c[i]) \subseteq ToSet(seq)
    BY <1>0, <2>1, <2>2 DEF ToSet
  <2>4. ASSUME NEW j \in 1 .. i PROVE Mentions(c[i], seq[j])
    <3>1. CASE j = i
      BY <3>1, <1>0, <2>2, FlagSorts
    <3>2. CASE j # i
      <4>1. j \in 1 .. i - 1 BY <3>2
      <4> QED BY <4>1, <2>1, <2>2
    <3> QED BY <3>1, <3>2
  <2> QED BY <2>2, <2>3, <2>4
<1>4. Len(seq) \in P
  <2> HIDE DEF P
  <2>1. 0 .. Len(seq) \subseteq P
    BY <1>0, <1>2, <1>3, ByCounting
  <2> QED BY <1>0, <2>1
<1>5. \A p \in ToSet(seq) : \E j \in 1 .. Len(seq) : p = seq[j]
  BY <1>0 DEF ToSet
<1> QED BY <1>1, <1>4, <1>5

(* normalizeDenoPermissions: what a list becomes is in the list, and its      *)
(* denials are there.                                                         *)
LEMMA NormalizedIs ==
  ASSUME NEW entries \in Seq(Entries), Normalized(entries) # Refused
  PROVE  /\ Normalized(entries) \in Seq(Grants)
         /\ ToSet(Normalized(entries)) \subseteq ToSet(entries)
         /\ ~Contains(entries, NoneEntry) =>
              \A p \in ToSet(entries) \cap Scoped :
                IsDeny(p) => Mentions(Normalized(entries), p)
<1> DEFINE listed == Among(entries, Scoped)
           flags == FoldLeft(Appended, <<>>, listed)
           denials == Among(flags, {q \in Scoped : IsDeny(q)})
<1>1. listed \in Seq(Scoped) /\ ToSet(listed) = ToSet(entries) \cap Scoped
  <2>1. listed \in Seq(Entries) /\ ToSet(listed) = ToSet(entries) \cap Scoped
    BY AmongElements
  <2>2. \A i \in 1 .. Len(listed) : listed[i] \in Scoped
    BY <2>1, LenProperties DEF ToSet
  <2>3. listed = [i \in 1 .. Len(listed) |-> listed[i]] /\ Len(listed) \in Nat
    BY <2>1, LenProperties
  <2> HIDE DEF listed
  <2>4. listed \in Seq(Scoped)
    BY <2>2, <2>3
  <2> QED BY <2>1, <2>4
<1> HIDE DEF listed
<1>2. /\ flags \in Seq(Scoped) /\ ToSet(flags) \subseteq ToSet(entries)
      /\ \A p \in ToSet(entries) \cap Scoped : Mentions(flags, p)
  <2> HIDE DEF flags
  <2>1. /\ flags \in Seq(Scoped) /\ ToSet(flags) \subseteq ToSet(listed)
        /\ \A p \in ToSet(listed) : Mentions(flags, p)
    BY <1>1, FlagsOfEntries DEF flags
  <2> QED BY <1>1, <2>1
<1>3. Normalized(entries) = CASE Contains(entries, NoneEntry) -> <<>>
                              [] ~Contains(entries, NoneEntry) /\ Contains(entries, Garbage) -> Refused
                              [] OTHER -> IF ~HasAll(entries) THEN flags ELSE Append(denials, AllFlag)
  BY DEF Normalized, listed
<1> HIDE DEF flags
<1>4. /\ denials \in Seq(Scoped)
      /\ ToSet(denials) = ToSet(flags) \cap {q \in Scoped : IsDeny(q)}
  BY <1>2, AmongElements
<1> HIDE DEF denials
<1>5. CASE Contains(entries, NoneEntry)
  <2>1. Normalized(entries) = <<>> /\ <<>> \in Seq(Grants) /\ ToSet(<<>>) = {}
    BY <1>3, <1>5 DEF ToSet
  <2> QED BY <1>5, <2>1
<1>6. CASE ~Contains(entries, NoneEntry) /\ ~HasAll(entries)
  <2>1. Normalized(entries) = flags
    BY <1>3, <1>6
  <2> QED BY <1>2, <2>1, FlagSorts
<1>7. CASE ~Contains(entries, NoneEntry) /\ HasAll(entries)
  <2>1. Normalized(entries) = Append(denials, AllFlag)
    BY <1>3, <1>7
  <2>2. denials \in Seq(Grants)
    BY <1>4, FlagSorts
  <2>3. /\ Append(denials, AllFlag) \in Seq(Grants)
        /\ ToSet(Append(denials, AllFlag)) = ToSet(denials) \cup {AllFlag}
    BY <2>2, FlagSorts, AppendAdds
  <2>4. AllFlag \in ToSet(entries)
    BY <1>7, FlagsByElement
  <2>5. ASSUME NEW p \in ToSet(entries) \cap Scoped, IsDeny(p)
        PROVE  Mentions(Append(denials, AllFlag), p)
    <3>1. PICK x \in ToSet(flags) : SameStem(x, p)
      BY <1>2, FlagsByElement
    <3>2. x \in ToSet(denials)
      BY <1>4, <2>5, <3>1 DEF SameStem, IsDeny
    <3> QED BY <2>3, <3>1, <3>2, FlagsByElement
  <2> QED BY <1>2, <1>4, <2>1, <2>3, <2>4, <2>5
<1> QED BY <1>5, <1>6, <1>7

(* The fold of AddFlag is a chain of its steps.                               *)
LEMMA AddFlagFold ==
  ASSUME NEW base \in Seq(Grants), NEW seq \in Seq(Grants)
  PROVE  \E c : /\ FoldLeft(AddFlag, base, seq) = c[Len(seq)] /\ c[0] = base
                /\ \A i \in 1 .. Len(seq) : c[i] = AddFlag(c[i - 1], seq[i])
<1> DEFINE V == Seq(Grants)
           step == [pr \in V \X Grants |-> AddFlag(pr[1], pr[2])]
           Rec(it) == it = [s \in SUBSET DOMAIN seq |->
                              IF s = {} THEN base
                              ELSE AddFlag(it[s \ {Max(s)}], seq[Max(s)])]
           it == CHOOSE it : Rec(it)
           c == [i \in 0 .. Len(seq) |-> it[1 .. i]]
<1>0. Len(seq) \in Nat /\ DOMAIN seq = 1 .. Len(seq) /\ \A i \in 1 .. Len(seq) : seq[i] \in Grants
  BY LenProperties, ElementOfSeq
<1>1. step \in [V \X Grants -> V]
  <2>1. \A a \in V, x \in Grants : AddFlag(a, x) \in V
    BY AppendAdds DEF AddFlag
  <2> QED BY <2>1
<1>2. \A a \in V, x \in Grants : step[<<a, x>>] = AddFlag(a, x)
  OBVIOUS
<1>3. PICK g : Solves(g, Len(seq), base, step, seq, V)
  <2>1. base \in V OBVIOUS
  <2> HIDE DEF V, step
  <2> QED BY <1>1, <2>1, FoldExists DEF V
<1>4. Rec(g)
  <2> HIDE DEF V, step
  <2>1. g = [s \in SUBSET DOMAIN seq |-> g[s]] /\ \A s \in SUBSET DOMAIN seq : g[s] \in V
    BY <1>0, <1>3 DEF Solves
  <2>2. ASSUME NEW s \in SUBSET DOMAIN seq
        PROVE  g[s] = IF s = {} THEN base ELSE AddFlag(g[s \ {Max(s)}], seq[Max(s)])
    <3>1. g[s] = IF s = {} THEN base ELSE step[<<g[s \ {Max(s)}], seq[Max(s)]>>]
      BY <1>0, <1>3 DEF Solves
    <3>2. CASE s # {}
      <4>1. Max(s) \in s
        BY <3>2, <1>0, MaxOf
      <4>2. g[s \ {Max(s)}] \in V /\ seq[Max(s)] \in Grants
        BY <4>1, <1>0, <2>1
      <4> QED BY <3>1, <3>2, <4>2, <1>2
    <3> QED BY <3>1, <3>2
  <2> QED BY <2>1, <2>2
<1>5. Rec(it)
  <2> HIDE DEF Rec
  <2> QED BY <1>4
<1>6. FoldLeft(AddFlag, base, seq) = it[DOMAIN seq]
  BY Zenon DEF FoldLeft, MapThenFoldSet
<1>7. \A s \in SUBSET DOMAIN seq :
        it[s] = IF s = {} THEN base ELSE AddFlag(it[s \ {Max(s)}], seq[Max(s)])
  <2> HIDE DEF it
  <2> QED BY <1>5
<1> HIDE DEF it, Rec
<1>8. c[0] = base
  <2>1. 1 .. 0 = {} /\ 0 \in 0 .. Len(seq)
    BY <1>0
  <2>2. c[0] = it[{}]
    BY <2>1
  <2>3. it[{}] = base
    BY <1>7
  <2> QED BY <2>2, <2>3
<1>9. ASSUME NEW i \in 1 .. Len(seq) PROVE c[i] = AddFlag(c[i - 1], seq[i])
  <2>1. i \in Nat /\ i \in 0 .. Len(seq) /\ i - 1 \in 0 .. Len(seq) /\ i \in 1 .. i
        /\ 1 .. i \in SUBSET DOMAIN seq
    BY <1>0
  <2>2. Max(1 .. i) = i
    BY <2>1, MaxIs
  <2>3. (1 .. i) \ {i} = 1 .. i - 1
    BY <2>1
  <2>4. it[1 .. i] = AddFlag(it[1 .. i - 1], seq[i])
    BY <1>7, <2>1, <2>2, <2>3
  <2> QED BY <2>1, <2>4
<1>10. FoldLeft(AddFlag, base, seq) = c[Len(seq)]
  BY <1>0, <1>6
<1> HIDE DEF c
<1> QED BY <1>8, <1>9, <1>10

(* mergeDenoPermissions after the flags in done: what the user stated comes   *)
(* first, the rest was asked for; there is no conflict and no repetition that *)
(* was not stated, and no wider grant beside a stated one; denials are there. *)
Merged(m, stated, done) ==
  /\ m \in Seq(Grants) /\ Len(stated) <= Len(m)
  /\ \A i \in 1 .. Len(stated) : m[i] = stated[i]
  /\ ToSet(m) \subseteq ToSet(stated) \cup done
  /\ Conflict(m) => Conflict(stated)
  /\ HasAllow(stated) /\ ~HasAll(stated) => ~HasAll(m)
  /\ \A i, j \in 1 .. Len(m) : i < j /\ SameStem(m[i], m[j]) => j <= Len(stated)
  /\ \A p \in done : IsDeny(p) => Mentions(m, p)

LEMMA MergedBegins ==
  ASSUME NEW stated \in Seq(Grants)
  PROVE  Merged(stated, stated, {})
<1>1. Len(stated) \in Nat
  BY LenProperties
<1> QED BY <1>1 DEF Merged

LEMMA MergedGoesOn ==
  ASSUME NEW stated \in Seq(Grants), NEW m, NEW done, Merged(m, stated, done),
         NEW p \in Grants
  PROVE  Merged(AddFlag(m, p), stated, done \cup {p})
<1>0. m \in Seq(Grants) /\ Len(m) \in Nat /\ Len(stated) \in Nat /\ Len(stated) <= Len(m)
  BY LenProperties DEF Merged
<1>1. CASE Suppressed(m, p)
  <2>1. AddFlag(m, p) = m
    BY <1>1 DEF AddFlag
  <2>2. IsDeny(p) => Mentions(m, p)
    BY <1>1, FlagSorts DEF Suppressed, IsDeny
  <2> QED BY <2>1, <2>2 DEF Merged
<1>2. CASE ~Suppressed(m, p)
  <2> DEFINE next == AddFlag(m, p)
  <2>1. next = Append(m, p)
    BY <1>2 DEF AddFlag
  <2> HIDE DEF next
  <2>2. /\ next \in Seq(Grants) /\ Len(next) = Len(m) + 1
        /\ ToSet(next) = ToSet(m) \cup {p}
        /\ \A i \in 1 .. Len(m) : next[i] = m[i]
        /\ next[Len(m) + 1] = p
    BY <1>0, <2>1, AppendAdds
  <2>3. \A i \in 1 .. Len(stated) : next[i] = stated[i]
    BY <1>0, <2>2 DEF Merged
  <2>4. ToSet(next) \subseteq ToSet(stated) \cup (done \cup {p})
    BY <2>2 DEF Merged
  <2>5. p # AllFlag => p \in Scoped
    BY DEF Grants
  <2>6. \A q : Mentions(next, q) <=> SameStem(p, q) \/ Mentions(m, q)
    BY <1>0, <2>2, FlagsByElement
  <2>7. /\ HasAll(next) <=> p = AllFlag \/ HasAll(m)
        /\ HasAllow(next) <=> (p \in Scoped /\ p.sort = "allow") \/ HasAllow(m)
    BY <1>0, <2>2, FlagsByElement
  <2>8. Conflict(next) => Conflict(stated)
    BY <1>2, <2>5, <2>7, FlagSorts DEF Merged, Conflict, Suppressed
  <2>9. HasAllow(stated) /\ ~HasAll(stated) => ~HasAll(next)
    <3>1. HasAllow(stated) => HasAllow(m)
      <4>1. DOMAIN stated = 1 .. Len(stated) /\ DOMAIN m = 1 .. Len(m)
            /\ 1 .. Len(stated) \subseteq 1 .. Len(m)
        BY <1>0, LenProperties
      <4> QED BY <4>1 DEF Merged, HasAllow
    <3> QED BY <1>2, <2>7, <3>1 DEF Merged, Suppressed
  <2>10. ASSUME NEW i \in 1 .. Len(next), NEW j \in 1 .. Len(next), i < j,
                SameStem(next[i], next[j])
         PROVE  j <= Len(stated)
    <3>1. i \in 1 .. Len(m) /\ next[i] = m[i]
      BY <1>0, <2>2, <2>10
    <3>2. CASE j \in 1 .. Len(m)
      BY <1>0, <2>2, <2>10, <3>1, <3>2 DEF Merged
    <3>3. CASE j = Len(m) + 1
      <4>1. SameStem(m[i], p) /\ i \in DOMAIN m
        BY <1>0, <2>2, <2>10, <3>1, <3>3, LenProperties
      <4>2. Mentions(m, p) /\ p \in Scoped
        BY <4>1 DEF Mentions, SameStem
      <4> QED BY <1>2, <4>2, FlagSorts DEF Suppressed
    <3> QED BY <1>0, <2>2, <3>2, <3>3
  <2>11. \A q \in done \cup {p} : IsDeny(q) => Mentions(next, q)
    <3>1. IsDeny(p) => SameStem(p, p)
      BY <2>5, FlagSorts
    <3> QED BY <2>6, <3>1 DEF Merged
  <2>12. Len(stated) <= Len(next)
    BY <1>0, <2>2
  <2>13. Merged(next, stated, done \cup {p})
    BY <2>2, <2>3, <2>4, <2>8, <2>9, <2>10, <2>11, <2>12 DEF Merged
  <2> QED BY <2>13 DEF next
<1> QED BY <1>1, <1>2

LEMMA MergedInTheEnd ==
  ASSUME NEW stated \in Seq(Grants), NEW listed \in Seq(Grants)
  PROVE  Merged(FoldLeft(AddFlag, stated, listed), stated, ToSet(listed))
<1>1. PICK c : /\ FoldLeft(AddFlag, stated, listed) = c[Len(listed)] /\ c[0] = stated
               /\ \A i \in 1 .. Len(listed) : c[i] = AddFlag(c[i - 1], listed[i])
  BY AddFlagFold
<1>0. Len(listed) \in Nat /\ \A i \in 1 .. Len(listed) : listed[i] \in Grants
  BY LenProperties, ElementOfSeq
<1> DEFINE done(i) == {listed[j] : j \in 1 .. i}
           P == {i \in 0 .. Len(listed) : Merged(c[i], stated, done(i))}
<1>2. 0 \in P
  <2>1. done(0) = {} /\ 0 \in 0 .. Len(listed)
    BY <1>0
  <2>2. Merged(c[0], stated, {})
    BY <1>1, MergedBegins
  <2> HIDE DEF done
  <2> QED BY <2>1, <2>2
<1>3. ASSUME NEW i \in 1 .. Len(listed), i - 1 \in P PROVE i \in P
  <2>1. done(i) = done(i - 1) \cup {listed[i]}
    <3>1. 1 .. i = (1 .. i - 1) \cup {i}
      OBVIOUS
    <3> QED BY <3>1
  <2>2. Merged(c[i - 1], stated, done(i - 1))
    BY <1>3
  <2> HIDE DEF done
  <2>3. Merged(c[i], stated, done(i - 1) \cup {listed[i]})
    <3>1. c[i] = AddFlag(c[i - 1], listed[i]) /\ listed[i] \in Grants
      BY <1>0, <1>1
    <3>2. Merged(AddFlag(c[i - 1], listed[i]), stated, done(i - 1) \cup {listed[i]})
      BY <2>2, <3>1, MergedGoesOn
    <3> QED BY <3>1, <3>2
  <2>4. Merged(c[i], stated, done(i)) /\ i \in 0 .. Len(listed)
    BY <2>1, <2>3
  <2> QED BY <2>4
<1>4. Len(listed) \in P
  <2> HIDE DEF P
  <2>1. 0 .. Len(listed) \subseteq P
    BY <1>0, <1>2, <1>3, ByCounting
  <2> QED BY <1>0, <2>1
<1>5. done(Len(listed)) = ToSet(listed)
  BY LenProperties DEF ToSet
<1> HIDE DEF done
<1> QED BY <1>1, <1>4, <1>5

(* The command is that of the question, once there is one.                    *)
PermInv ==
  \/ permAsk = Unasked
  \/ /\ permAsk.stated \in Seq(Grants) /\ permAsk.entries \in Seq(Entries)
     /\ permCommand = MergedCommand(permAsk)

LEMMA SeqOfIsSeq ==
  ASSUME NEW T, NEW n \in Nat, NEW q \in SeqOf(T, n)
  PROVE  q \in Seq(T)
<1>1. PICK m \in 0 .. n : q \in [1 .. m -> T]
  BY DEF SeqOf
<1>2. m \in Nat
  OBVIOUS
<1> QED BY <1>1, <1>2

LEMMA PermInvInit == PermInit => PermInv
BY DEF PermInit, PermInv

LEMMA PermInvNext == PermInv /\ [PermNext]_permVars => PermInv'
<1> SUFFICES ASSUME PermInv, [PermNext]_permVars PROVE PermInv'
  OBVIOUS
<1>1. CASE PermNext
  <2>1. PICK rt \in {"deno", "bun"}, stated \in SeqOf(Grants, MaxStated), all \in BOOLEAN,
             entries \in SeqOf(Entries, MaxEntries) :
          /\ permAsk' = [runtime |-> rt, stated |-> stated, routeAll |-> all,
                         entries |-> entries]
          /\ permCommand' = MergedCommand(permAsk')
    BY <1>1 DEF PermNext
  <2>2. stated \in Seq(Grants) /\ entries \in Seq(Entries)
    BY SeqOfIsSeq, PermAssumption
  <2>3. permAsk'.stated = stated /\ permAsk'.entries = entries
    BY <2>1
  <2> QED BY <2>1, <2>2, <2>3 DEF PermInv
<1>2. CASE UNCHANGED permVars
  BY <1>2 DEF permVars, PermInv
<1> QED BY <1>1, <1>2

(* mergeDenoPermissions: for any categories and any lists and flags, of any   *)
(* length, a list of permissions neither breaks the command of the user nor   *)
(* widens what its flags and the list grant, and its denials are in force.    *)
THEOREM GrantsAlwaysMinimal == PermSpec => []MinimalGrants
<1>1. PermInv => MinimalGrants
  <2> SUFFICES ASSUME PermInv, permAsk.runtime = "deno", permAsk.entries # <<>>,
                      permCommand # Refused
               PROVE  MinimalGrants
    BY DEF MinimalGrants
  <2> DEFINE stated == permAsk.stated
             entries == permAsk.entries
             listed == Normalized(entries)
  <2>1. stated \in Seq(Grants) /\ entries \in Seq(Entries) /\ permCommand = MergedCommand(permAsk)
    BY DEF PermInv, Unasked
  <2>2. /\ listed # Refused
        /\ permCommand = FoldLeft(AddFlag, stated, listed)
    BY <2>1 DEF MergedCommand, Stripped
  <2> DEFINE m == permCommand
  <2>3. /\ listed \in Seq(Grants) /\ ToSet(listed) \subseteq ToSet(entries)
        /\ ~Contains(entries, NoneEntry) =>
             \A p \in ToSet(entries) \cap Scoped : IsDeny(p) => Mentions(listed, p)
    BY <2>1, <2>2, NormalizedIs
  <2> HIDE DEF listed, stated, entries, m
  <2>4. Merged(m, stated, ToSet(listed))
    BY <2>1, <2>2, <2>3, MergedInTheEnd DEF m
  <2>5. m \in Seq(Grants) /\ Len(stated) \in Nat /\ Len(m) \in Nat /\ Len(stated) <= Len(m)
        /\ DOMAIN m = 1 .. Len(m) /\ DOMAIN stated = 1 .. Len(stated)
        /\ DOMAIN entries = 1 .. Len(entries)
    BY <2>1, <2>4, LenProperties DEF Merged
  <2>6. IsPrefix(stated, m)
    <3>1. SubSeq(stated, 1, Len(stated)) = stated
      BY <2>1, <2>5
    <3>2. SubSeq(m, 1, Len(stated)) = stated
      <4>1. SubSeq(m, 1, Len(stated)) = [i \in 1 .. Len(stated) |-> m[i]]
        BY <2>5
      <4>2. stated = [i \in 1 .. Len(stated) |-> stated[i]]
        BY <2>1, <2>5
      <4>3. [i \in 1 .. Len(stated) |-> m[i]] = [i \in 1 .. Len(stated) |-> stated[i]]
        BY <2>4 DEF Merged
      <4> QED BY <4>1, <4>2, <4>3
    <3> QED BY <2>5, <3>1, <3>2 DEF IsPrefix
  <2>7. ASSUME NEW c \in Categories, Opens(m, c)
        PROVE  Opens(stated, c) \/ Opens(entries, c)
    <3>1. \A x \in ToSet(m) : x \in ToSet(stated) \/ x \in ToSet(entries)
      BY <2>3, <2>4 DEF Merged
    <3>2. CASE HasAll(m)
      <4>1. AllFlag \in ToSet(stated) \/ AllFlag \in ToSet(entries)
        BY <2>5, <3>1, <3>2, FlagsByElement
      <4> QED BY <4>1, <2>1, FlagsByElement DEF Opens
    <3>3. CASE \E i \in DOMAIN m : m[i].sort = "allow" /\ m[i].cat = c
      <4>1. PICK x \in ToSet(m) : x.sort = "allow" /\ x.cat = c
        BY <3>3 DEF ToSet
      <4> QED BY <3>1, <4>1 DEF Opens, ToSet
    <3> QED BY <2>7, <3>2, <3>3 DEF Opens
  <2>8. ASSUME NEW c \in Categories, Denied(entries, c), ~Contains(entries, NoneEntry)
        PROVE  Denied(m, c)
    <3>1. PICK p \in ToSet(entries) : IsDeny(p) /\ p.cat = c
      BY <2>8 DEF Denied, ToSet
    <3>2. p \in Scoped
      <4>1. p \in Entries
        BY <2>1, <2>5, ElementOfSeq DEF ToSet
      <4> QED BY <3>1, <4>1, FlagSorts DEF Entries, Grants
    <3>3. PICK x \in ToSet(listed) : SameStem(x, p)
      BY <2>3, <2>8, <3>1, <3>2, FlagsByElement
    <3>4. IsDeny(x) /\ x.cat = c
      BY <3>1, <3>3 DEF SameStem, IsDeny
    <3>5. PICK i \in DOMAIN m : SameStem(m[i], x)
      BY <2>4, <3>3, <3>4 DEF Merged, Mentions
    <3> QED BY <3>4, <3>5 DEF Denied, SameStem, IsDeny
  <2>9. ASSUME NEW i \in DOMAIN m, NEW j \in DOMAIN m, i < j, SameStem(m[i], m[j])
        PROVE  j <= Len(stated)
    BY <2>4, <2>5, <2>9 DEF Merged
  <2>10. /\ Conflict(m) => Conflict(stated)
         /\ HasAllow(stated) /\ ~HasAll(stated) => ~HasAll(m)
    BY <2>4 DEF Merged
  <2> QED BY <2>6, <2>7, <2>8, <2>9, <2>10 DEF MinimalGrants, stated, entries, m
<1> QED BY <1>1, PermInvInit, PermInvNext, PTL DEF PermSpec

-----------------------------------------------------------------------------
(* The friendly schedules *)

(* What was parsed is what was written.                                       *)
ExprInv ==
  \/ written.word = "none" /\ parsed = Failure
  \/ /\ written.word \in Words /\ written \in Written(written.word)
     /\ parsed = parseSchedule(written)

LEMMA ExprInvInit == ExprInit => ExprInv
BY DEF ExprInit, ExprInv

LEMMA ExprInvNext == ExprInv /\ [ExprNext]_exprVars => ExprInv'
<1> SUFFICES ASSUME ExprInv, [ExprNext]_exprVars PROVE ExprInv'
  OBVIOUS
<1>1. CASE ExprNext
  <2>1. PICK word \in Words : written' \in Written(word)
    BY <1>1 DEF ExprNext
  <2>2. written'.word = word /\ parsed' = parseSchedule(written')
    BY <1>1, <2>1 DEF ExprNext, Written
  <2> QED BY <2>1, <2>2 DEF ExprInv
<1>2. CASE UNCHANGED exprVars
  BY <1>2 DEF exprVars, ExprInv
<1> QED BY <1>1, <1>2

(* A time that is accepted moves its day by one at hour 24, and by nothing    *)
(* else; days, weekdays and numbers are in their ranges.                      *)
LEMMA ShiftIs == ASSUME NEW t PROVE ShiftOf(t) \in {0, 1}
BY DEF ShiftOf

LEMMA CalendarRanges ==
  ASSUME NEW d \in Days
  PROVE  /\ DayOfMonth(d) \in AnyDay /\ Weekday(d) \in AnyWeekday /\ MonthOf(d) \in {1, 2, 3}
         /\ d \in Nat /\ d <= 89
BY DEF Days, DayOfMonth, MonthOf, Weekday, AnyDay, AnyWeekday

LEMMA NumbersAre ==
  ASSUME NEW w, w.word \in Words, w \in Written(w.word)
  PROVE  /\ w.word = "weekday" => w.n \in 0 .. 6
         /\ w.word \in {"dom", "ondate"} => w.n \in 0 .. 32
BY DEF Written, Numbers, Words, Counted

(* At fires at the time of day, on the days of the month and the week.        *)
LEMMA AtFires ==
  ASSUME NEW t, NEW dom, NEW dow, NEW day, NEW h, NEW m
  PROVE  Fires(At(t, dom, dow), day, h, m) <=>
           /\ h = HourOf(t) /\ m = MinuteOf(t)
           /\ DayOfMonth(day) \in dom /\ Weekday(day) \in dow
BY DEF Fires, At, Cron

LEMMA OnceFires ==
  ASSUME NEW t, NEW d, NEW day, NEW h, NEW m
  PROVE  Fires(Once(d, t), day, h, m) <=> d = day /\ h = HourOf(t) /\ m = MinuteOf(t)
BY DEF Fires, Once

(* What is parsed, by the word: an error, a cron expression, or a moment.     *)
LEMMA Kinds ==
  /\ Failure.kind = "error"
  /\ \A t, dom, dow : At(t, dom, dow).kind = "cron"
  /\ \A t, d : Once(d, t).kind = "once" /\ Once(d, t).day = d
BY DEF Failure, At, Cron, Once

(* A day of the week or of the month, with a time.                            *)
LEMMA DatedFires ==
  ASSUME NEW w, w.word \in {"everyday", "everyweek", "weekday", "everymonth", "dom"},
         w.word = "weekday" => w.n \in 0 .. 6,
         w.word = "dom" => w.n \in 0 .. 32,
         Dated(w).kind # "error",
         NEW day \in Days \ {0}, NEW h, NEW m,
         w.word = "dom" => MonthOf(day - ShiftOf(w.time)) = MonthOf(day)
  PROVE  /\ Dated(w).kind = "cron"
         /\ Fires(Dated(w), day, h, m) <=>
              Meant(w, day - ShiftOf(w.time)) /\ h = HourOf(w.time) /\ m = MinuteOf(w.time)
<1> DEFINE t == w.time
           s == ShiftOf(t)
<1>0. s \in {0, 1} /\ ~TimeFails(t)
  BY ShiftIs, Kinds DEF Dated
<1>1. DayOfMonth(day) \in AnyDay /\ Weekday(day) \in AnyWeekday /\ day \in Nat
  BY CalendarRanges
<1> HIDE DEF t, s
<1>2. ASSUME NEW n \in AnyWeekday
      PROVE  Weekday(day) = (n + s) % 7 <=> Weekday(day - s) = n
  BY <1>0 DEF Days, Weekday, AnyWeekday
<1>3. ASSUME NEW n \in Int, MonthOf(day - s) = MonthOf(day)
      PROVE  DayOfMonth(day) = n + s <=> DayOfMonth(day - s) = n
  BY <1>0, <1>3 DEF Days, DayOfMonth, MonthOf
<1>4. CASE w.word = "everyday"
  <2>1. Dated(w) = At(t, AnyDay, AnyWeekday) /\ Meant(w, day - s)
    BY <1>0, <1>4 DEF Dated, Meant, t, s
  <2> QED BY <2>1, <1>1, AtFires, Kinds DEF t, s
<1>5. CASE w.word = "everyweek"
  <2>1. /\ Dated(w) = At(t, AnyDay, {ShiftedWeekday(0, t)})
        /\ Meant(w, day - s) <=> Weekday(day - s) = 0
    BY <1>0, <1>5 DEF Dated, Meant, t, s
  <2>2. Weekday(day) = ShiftedWeekday(0, t) <=> Weekday(day - s) = 0
    <3>1. 0 \in AnyWeekday /\ ShiftedWeekday(0, t) = (0 + s) % 7
      BY DEF ShiftedWeekday, AnyWeekday, s
    <3>2. Weekday(day) = (0 + s) % 7 <=> Weekday(day - s) = 0
      BY <1>2, <3>1
    <3> QED BY <3>1, <3>2
  <2> QED BY <2>1, <2>2, <1>1, AtFires, Kinds DEF t, s
<1>6. CASE w.word = "weekday"
  <2>1. /\ Dated(w) = At(t, AnyDay, {ShiftedWeekday(w.n, t)})
        /\ Meant(w, day - s) <=> Weekday(day - s) = w.n
    BY <1>0, <1>6 DEF Dated, Meant, t, s
  <2>2. Weekday(day) = ShiftedWeekday(w.n, t) <=> Weekday(day - s) = w.n
    <3>1. w.n \in AnyWeekday /\ ShiftedWeekday(w.n, t) = (w.n + s) % 7
      BY <1>6 DEF ShiftedWeekday, AnyWeekday, s
    <3>2. Weekday(day) = (w.n + s) % 7 <=> Weekday(day - s) = w.n
      BY <1>2, <3>1
    <3> QED BY <3>1, <3>2
  <2> QED BY <2>1, <2>2, <1>1, AtFires, Kinds DEF t, s
<1>7. CASE w.word = "everymonth"
  <2>1. /\ Dated(w) = IF s = 1 THEN Failure ELSE At(t, {1}, AnyWeekday)
        /\ Meant(w, day - s) <=> DayOfMonth(day - s) = 1
    BY <1>0, <1>7 DEF Dated, Meant, t, s
  <2>2. s = 0 /\ Dated(w) = At(t, {1}, AnyWeekday)
    BY <1>0, <2>1, Kinds
  <2>3. day - s = day
    BY <1>1, <2>2
  <2> QED BY <2>1, <2>2, <2>3, <1>1, AtFires, Kinds DEF t, s
<1>8. CASE w.word = "dom"
  <2>1. /\ Dated(w) = IF w.n + s > 31 THEN Failure ELSE At(t, {w.n + s}, AnyWeekday)
        /\ Meant(w, day - s) <=> DayOfMonth(day - s) = w.n
    BY <1>0, <1>8 DEF Dated, Meant, t, s
  <2>2. Dated(w) = At(t, {w.n + s}, AnyWeekday)
    BY <2>1, Kinds
  <2>3. DayOfMonth(day) = w.n + s <=> DayOfMonth(day - s) = w.n
    <3>1. w.n \in Int /\ MonthOf(day - s) = MonthOf(day)
      BY <1>8 DEF t, s
    <3> QED BY <1>3, <3>1
  <2> QED BY <2>1, <2>2, <2>3, <1>1, AtFires, Kinds DEF t, s
<1> QED BY <1>4, <1>5, <1>6, <1>7, <1>8

(* One moment, which is to come.                                              *)
LEMMA OneShotFires ==
  ASSUME NEW w, w.word \in {"today", "tomorrow", "ondate"},
         w.word = "ondate" => w.n \in 0 .. 32,
         OneShot(w).kind # "error"
  PROVE  /\ Future(OneShot(w).day, w.time)
         /\ \A day \in Days \ {0} : \A h, m :
              Fires(OneShot(w), day, h, m) <=>
                Meant(w, day - ShiftOf(w.time)) /\ h = HourOf(w.time) /\ m = MinuteOf(w.time)
<1> DEFINE t == w.time
           s == ShiftOf(t)
           d == CASE w.word = "tomorrow" -> Today + 1 + s
                  [] w.word = "today" -> Today + s
                  [] w.word = "ondate" -> w.n - 1 + s
<1>0. s \in {0, 1} /\ ~TimeFails(t) /\ (w.word # "ondate" => t # NoTime)
  <2>1. s \in {0, 1}
    BY ShiftIs
  <2>2. ~(t = NoTime /\ w.word # "ondate")
    BY Kinds DEF OneShot
  <2>3. ~TimeFails(t)
    BY <2>2, Kinds DEF OneShot
  <2> QED BY <2>1, <2>2, <2>3
<1> HIDE DEF t, s
<1>1. CASE w.word = "tomorrow"
  <2>1. OneShot(w) = Once(Today + 1 + s, t) /\ d = Today + 1 + s
    BY <1>0, <1>1 DEF OneShot, t, s
  <2>2. Future(Today + 1 + s, t)
    BY <1>0 DEF Future, Today
  <2>3. \A day \in Days \ {0} : Today + 1 + s = day <=> Meant(w, day - s)
    <3>1. \A x : Meant(w, x) <=> x = Today + 1
      BY <1>1 DEF Meant
    <3>2. \A day \in Days \ {0} : Today + 1 + s = day <=> day - s = Today + 1
      BY <1>0 DEF Today, Days
    <3> QED BY <3>1, <3>2
  <2> QED BY <2>1, <2>2, <2>3, OnceFires, Kinds DEF t, s
<1>2. CASE w.word = "today"
  <2>1. OneShot(w) = IF Future(Today + s, t) THEN Once(Today + s, t) ELSE Failure
    BY <1>0, <1>2 DEF OneShot, t, s
  <2>2. Future(Today + s, t) /\ OneShot(w) = Once(Today + s, t)
    BY <2>1, Kinds
  <2>3. \A day \in Days \ {0} : Today + s = day <=> Meant(w, day - s)
    <3>1. \A x : Meant(w, x) <=> x = Today
      BY <1>2 DEF Meant
    <3>2. \A day \in Days \ {0} : Today + s = day <=> day - s = Today
      BY <1>0 DEF Today, Days
    <3> QED BY <3>1, <3>2
  <2> QED BY <2>2, <2>3, OnceFires, Kinds DEF t, s
<1>3. CASE w.word = "ondate"
  <2> DEFINE x == w.n - 1 + s
  <2>1. OneShot(w) = IF x < MonthDays[1] /\ Future(x, t) THEN Once(x, t) ELSE Failure
    BY <1>0, <1>3 DEF OneShot, t, s
  <2> HIDE DEF x
  <2>2. x < MonthDays[1] /\ Future(x, t) /\ OneShot(w) = Once(x, t)
    BY <2>1, Kinds
  <2>3. \A day \in Days \ {0} : x = day <=> Meant(w, day - s)
    <3>1. \A y : Meant(w, y) <=> MonthOf(y) = 1 /\ DayOfMonth(y) = w.n
      BY <1>3 DEF Meant
    <3>2. w.n \in Int /\ w.n - 1 + s < MonthDays[1]
      BY <1>3, <2>2 DEF x
    <3>3. ASSUME NEW day \in Days \ {0}
          PROVE  x = day <=> MonthOf(day - s) = 1 /\ DayOfMonth(day - s) = w.n
      <4>1. w.n - 1 + s = day <=> MonthOf(day - s) = 1 /\ DayOfMonth(day - s) = w.n
        BY <1>0, <3>2 DEF Days, DayOfMonth, MonthOf, MonthDays
      <4> QED BY <4>1 DEF x
    <3> QED BY <3>1, <3>3
  <2> QED BY <2>2, <2>3, OnceFires, Kinds DEF t, s
<1> QED BY <1>1, <1>2, <1>3

(* The words that the property is about, after parseSchedule.                 *)
LEMMA ParsedIs ==
  ASSUME NEW w, w.word \in Words, parseSchedule(w).kind # "error"
  PROVE  /\ w.word \in {"today", "tomorrow", "ondate"} => parseSchedule(w) = OneShot(w)
         /\ w.word \in {"everyday", "everyweek", "weekday", "everymonth", "days", "dom"} =>
              parseSchedule(w) = Dated(w)
         /\ w.word \in {"everyhour", "everyminute", "everysecond", "seconds", "minutes", "hours"} =>
              parseSchedule(w) = Hourly(w)
BY Kinds DEF parseSchedule

(* Only a one-shot is a moment.                                               *)
LEMMA OthersRecur ==
  ASSUME NEW w, w.word \in Words \ {"today", "tomorrow", "ondate"}
  PROVE  parseSchedule(w).kind # "once"
<1>1. CASE w.word \in {"everyday", "everyweek", "weekday", "everymonth", "days", "dom"}
  <2>1. Dated(w).kind \in {"error", "cron"}
    BY <1>1, Kinds DEF Dated
  <2> QED BY <1>1, <2>1, Kinds DEF parseSchedule
<1>2. CASE w.word \in {"everyhour", "everyminute", "everysecond", "seconds", "minutes", "hours"}
  <2>1. \A a, b, c, d, e : Cron(a, b, c, d, e).kind = "cron"
    BY DEF Cron
  <2>2. Hourly(w).kind \in {"error", "cron"}
    BY <1>2, <2>1, Kinds DEF Hourly
  <2> QED BY <1>2, <2>2, Kinds DEF parseSchedule
<1> QED BY <1>1, <1>2 DEF Words

(* cron-expr.ts: whatever times are written, a schedule with a time of day    *)
(* that is accepted fires at that time on the days its words mean, and at no  *)
(* other, with 24:30 on the day after; a one-shot lies in the future.         *)
THEOREM AlwaysFiresAsWritten == ExprSpec => []FiresAsWritten
<1>1. ExprInv => FiresAsWritten
  <2> SUFFICES ASSUME ExprInv, parsed.kind # "error" PROVE FiresAsWritten
    BY DEF FiresAsWritten, Kinds
  <2>1. /\ written.word \in Words /\ written \in Written(written.word)
        /\ parsed = parseSchedule(written)
    BY Kinds DEF ExprInv
  <2>2. CASE written.word \in {"today", "tomorrow", "ondate"}
    <3>1. parsed = OneShot(written) /\ (written.word = "ondate" => written.n \in 0 .. 32)
      BY <2>1, <2>2, ParsedIs, NumbersAre
    <3> QED BY <2>2, <3>1, OneShotFires DEF FiresAsWritten
  <2>3. CASE written.word \in {"everyday", "everyweek", "weekday", "everymonth", "dom"}
    <3>1. /\ parsed = Dated(written)
          /\ written.word = "weekday" => written.n \in 0 .. 6
          /\ written.word = "dom" => written.n \in 0 .. 32
      BY <2>1, <2>3, ParsedIs, NumbersAre
    <3>2. parsed.kind # "once"
      BY <2>1, <2>3, OthersRecur
    <3> QED BY <2>3, <3>1, <3>2, DatedFires DEF FiresAsWritten
  <2>4. CASE written.word \in Counted \cup {"everyhour", "everyminute", "everysecond"}
    <3>1. parsed.kind # "once"
      BY <2>1, <2>4, OthersRecur DEF Counted
    <3> QED BY <2>4, <3>1 DEF FiresAsWritten
  <2> QED BY <2>1, <2>2, <2>3, <2>4 DEF Words, Counted
<1> QED BY <1>1, ExprInvInit, ExprInvNext, PTL DEF ExprSpec

(* Whatever is written, what pboss reads is what it says: both of the above,  *)
(* for any sequence of the steps of the two parsers.                         *)
THEOREM AlwaysReadAsWritten == PermSpec /\ ExprSpec => []ReadAsWritten
<1>1. FiresAsWritten /\ MinimalGrants => ReadAsWritten
  BY DEF ReadAsWritten
<1> QED BY <1>1, GrantsAlwaysMinimal, AlwaysFiresAsWritten, PTL
================================================================================
