------------------------------- MODULE Upgrade -------------------------------
(***************************************************************************)
(* pboss replacing itself: `pboss upgrade` (upgrade.ts, index.ts,          *)
(* realignDaemonAfterUpgrade of daemon-lifecycle.ts) and `pboss runtime    *)
(* change` (index.ts, runtime-config.ts) on a machine where several        *)
(* installs of pboss may be on PATH.  A version is its number; the         *)
(* commands are split where they wait for the registry, a package manager  *)
(* or the daemon.  Snap behaves as brew and is left out, so are Windows,   *)
(* compiled copies without a stamp and source checkouts.                   *)
(***************************************************************************)
EXTENDS Naturals, FiniteSets, FiniteSetsExt

CONSTANTS MaxVersion,   \* releases published
          MaxUpCalls    \* installs, removals and commands in a behaviour

ASSUME UpgradeAssumption == MaxVersion \in Nat \ {0} /\ MaxUpCalls \in Nat

VARIABLES
  copies,    \* channel -> version of the pboss it installed, 0 when none
  front,     \* the channel whose directory comes first on PATH
  stamp,     \* ~/.pboss/channel.json: [channel, byHand]
  selection, \* ~/.pboss/.runtime, "none" when absent; one that does not parse
             \* stops both commands before they do anything, and is left out
  have,      \* runtimes that PATH finds
  hidden,    \* runtimes in the directory of their installer, which is not on PATH
  latest,    \* the registry's latest
  ripe,      \* the newest that is out of Deno's supply-chain hold
  denoFlag,  \* the local deno knows --min-dep-age
  bootUnit,  \* the copy the boot service was written from: [via, version]
  daemonV,   \* version the running daemon executes, 0 when none runs
  upCmd,       \* the command in progress
  report,    \* what the last upgrade told the user
  moved,     \* history: the runtime `runtime change` committed last
  unbacked,  \* history: .runtime was answered, delivered by npm, or left behind by
             \* a removal, so that no package of its own may stand for it
  upCalls
upVars == <<copies, front, stamp, selection, have, hidden, latest, ripe, denoFlag, bootUnit,
            daemonV, upCmd, report, moved, unbacked, upCalls>>

Channels == {"npm", "bun", "deno", "brew"}
Runtimes3 == {"node", "bun", "deno"}
NoStamp == [channel |-> "none", byHand |-> FALSE]
NoCommand == [step |-> "idle"]
NoUnit == [via |-> "none", version |-> 0]
Quiet == [verified |-> FALSE, told |-> "none", live |-> 0, want |-> 0, raced |-> FALSE,
          undone |-> FALSE, stray |-> FALSE]

Present == {c \in Channels : copies[c] > 0}
Order == [deno |-> 1, npm |-> 2, bun |-> 3, brew |-> 4]
\* which("pboss")
OnPath == IF front \in Present THEN front
          ELSE CHOOSE c \in Present : \A d \in Present : Order[c] <= Order[d]

(* channelForRuntime                                                        *)
ChannelOf(rt) == IF rt = "node" THEN "npm" ELSE rt

(* The runtime that executes this copy: deno's shim is the entry itself, a  *)
(* brew binary has Bun inside, the wrapper of npm and Bun reads .runtime.   *)
Executing(copy) ==
  CASE copy = "deno" -> "deno" [] copy = "brew" -> "bun" [] OTHER -> selection

-----------------------------------------------------------------------------
(* Choosing the channel                                                     *)

(* detectChannel, for the copies that are modelled                          *)
Detected(st, rt) ==
  IF rt = "deno" /\ ~st.byHand /\ st.channel \notin {"universal", "brew"}
  THEN "deno"
  ELSE st.channel

(* resolveUpgradeChannel                                                    *)
UpgradeChannel(detected) ==
  IF selection # "none" /\ detected \in {"npm", "bun", "universal"}
  THEN ChannelOf(selection)
  ELSE detected

(* fetchDenoEligibility and the deno window: what the plan calls the        *)
(* latest; 0 when no version can be resolved                                *)
EffectiveLatest == IF denoFlag THEN latest ELSE ripe

-----------------------------------------------------------------------------
(* What is done by hand, outside pboss                                      *)

(* The unit names the files of the copy it was written from: npm and Bun     *)
(* install over them, a new Deno or brew version lies beside the old.        *)
UnitStarts ==
  IF bootUnit.via \in {"npm", "bun"} THEN copies[bootUnit.via] ELSE bootUnit.version

(* postinstall installs the boot service where it can, which starts the     *)
(* daemon from the package just installed                                   *)
Postinstall(c) ==
  \/ UNCHANGED <<bootUnit, daemonV>>
  \/ /\ c \in {"npm", "bun"}
     /\ bootUnit' = [via |-> c, version |-> copies'[c]]
     /\ daemonV' = copies'[c]

Starts == upCmd = NoCommand /\ upCalls < MaxUpCalls /\ upCalls' = upCalls + 1 /\ report' = Quiet

(* npm install -g, brew install: postinstall and post_install stamp it      *)
InstallStamped(c) ==
  /\ Starts /\ c \in {"npm", "bun", "brew"}
  /\ copies' = [copies EXCEPT ![c] = latest]
  /\ stamp' = [channel |-> c, byHand |-> FALSE]
  /\ Postinstall(c)
  /\ have' = have \cup (CASE c = "npm" -> {"node"} [] c = "bun" -> {"bun"} [] OTHER -> {})
  /\ UNCHANGED <<front, selection, hidden, latest, ripe, denoFlag, upCmd, moved, unbacked>>

(* deno install -g: no lifecycle script runs                                *)
InstallDeno ==
  /\ Starts /\ EffectiveLatest > 0
  /\ copies' = [copies EXCEPT !["deno"] = EffectiveLatest]
  /\ have' = have \cup {"deno"}
  /\ UNCHANGED <<front, stamp, selection, hidden, latest, ripe, denoFlag, bootUnit, daemonV,
                 upCmd, moved, unbacked>>

(* install.sh --runtime=rt; npm delivers when deno can resolve no version   *)
InstallUniversal(rt) ==
  LET via == IF rt = "deno" /\ EffectiveLatest = 0 THEN "npm" ELSE ChannelOf(rt)
  IN /\ Starts
     /\ copies' = [copies EXCEPT ![via] = IF via = "deno" THEN EffectiveLatest ELSE latest]
     /\ stamp' = [channel |-> "universal", byHand |-> FALSE]
     /\ selection' = rt
     /\ have' = have \cup {rt} \cup (IF via = "npm" THEN {"node"} ELSE {})
     /\ moved' = "none"
     /\ unbacked' = (via # ChannelOf(rt))
     /\ UNCHANGED <<front, hidden, latest, ripe, denoFlag, bootUnit, daemonV, upCmd>>

(* A copy is removed through its package manager; its stamp stays.          *)
Uninstall(c) ==
  /\ Starts /\ c \in Present
  /\ copies' = [copies EXCEPT ![c] = 0]
  /\ moved' = "none"
  /\ unbacked' = TRUE
  /\ UNCHANGED <<front, stamp, selection, have, hidden, latest, ripe, denoFlag, bootUnit,
                 daemonV, upCmd>>

(* The wrapper asks on the first run; a deno copy stamps itself.            *)
FirstRun(rt) ==
  /\ upCmd = NoCommand /\ Present # {} /\ selection = "none" /\ OnPath # "brew"
  /\ IF OnPath = "deno" THEN rt = "deno" /\ UNCHANGED unbacked
     ELSE rt \in have /\ unbacked' = (unbacked \/ copies[ChannelOf(rt)] = 0)
  /\ selection' = rt
  /\ UNCHANGED <<copies, front, stamp, have, hidden, latest, ripe, denoFlag, bootUnit, daemonV,
                 upCmd, report, moved, upCalls>>

-----------------------------------------------------------------------------
(* pboss upgrade                                                            *)

CanRun(copy) == copy \in {"deno", "brew"} \/ selection \in have

(* writeChannelStamp; the value this invocation goes on with has no `by`    *)
StampBefore(by) == IF by = "none" THEN stamp ELSE [channel |-> by, byHand |-> FALSE]

(* The registry did not answer, nothing is newer, nobody can run the plan, *)
(* or the user wanted --check                                               *)
NothingToDo(channel, goal, dry, fetched) ==
  ~fetched \/ dry \/ channel = "none" \/ goal = 0 \/ copies[OnPath] >= goal

(* cmdUpgrade up to the confirmation.  The deliberate stamp is written first*)
UpgradeBegin(by, dry, fetched) ==
  LET channel == UpgradeChannel(Detected(StampBefore(by), Executing(OnPath)))
      goal == IF channel = "deno" THEN EffectiveLatest ELSE latest
  IN /\ Starts /\ Present # {} /\ CanRun(OnPath)
     /\ stamp' = IF by = "none" THEN stamp ELSE [channel |-> by, byHand |-> TRUE]
     /\ \/ /\ NothingToDo(channel, goal, dry, fetched)
           /\ UNCHANGED upCmd
        \/ /\ ~NothingToDo(channel, goal, dry, fetched)
           /\ upCmd' = [step |-> "install", channel |-> channel, want |-> latest,
                        goal |-> goal, rt |-> Executing(OnPath),
                        bound |-> /\ OnPath = "deno" /\ ~stamp'.byHand
                                  /\ stamp'.channel = "universal" => ~unbacked]
     /\ UNCHANGED <<copies, front, selection, have, hidden, latest, ripe, denoFlag, bootUnit,
                    daemonV, moved, unbacked>>

(* The prompt is answered with no, or the channel's command fails.          *)
UpgradeStops ==
  /\ upCmd.step = "install"
  /\ upCmd' = NoCommand
  /\ UNCHANGED <<copies, front, stamp, selection, have, hidden, latest, ripe, denoFlag,
                 bootUnit, daemonV, report, moved, unbacked, upCalls>>

(* The universal installer runs under the runtime of this pboss, its pin is  *)
(* the version announced; npm, bun and brew take the registry's latest of   *)
(* this moment, deno the pin of the plan, or the latest when it is not held *)
Manager(c, rt) == IF c = "universal" THEN ChannelOf(rt) ELSE c
Delivered ==
  CASE upCmd.channel = "universal" -> upCmd.want
    [] upCmd.channel = "deno" /\ ~denoFlag -> upCmd.goal
    [] OTHER -> latest

(* postinstall stamps an npm or bun install, post_install a brew one        *)
StampAfter(c) == IF c = "deno" THEN stamp ELSE [channel |-> c, byHand |-> FALSE]

CanInstall(c) ==
  CASE c = "npm" -> "node" \in have [] c = "brew" -> "brew" \in Present [] OTHER -> c \in have

(* runUpgradePlan                                                           *)
UpgradeInstall ==
  LET c == Manager(upCmd.channel, upCmd.rt) IN
  /\ upCmd.step = "install" /\ CanInstall(c) /\ (c = "deno" => Delivered <= EffectiveLatest)
  /\ copies' = [copies EXCEPT ![c] = Delivered]
  /\ stamp' = IF upCmd.channel = "universal" THEN [channel |-> "universal", byHand |-> FALSE]
              ELSE StampAfter(c)
  /\ IF upCmd.channel = "universal" THEN selection' = upCmd.rt /\ moved' = "none"
     ELSE UNCHANGED <<selection, moved>>
  /\ Postinstall(c)
  /\ upCmd' = [step |-> "verify", want |-> upCmd.want, stray |-> upCmd.bound /\ copies[c] = 0,
               raced |-> FALSE, undone |-> FALSE, verified |-> FALSE]
  /\ UNCHANGED <<front, have, hidden, latest, ripe, denoFlag, report, unbacked, upCalls>>

\* mutant
LeavesDaemon(heard) == daemonV
(* realignDaemonAfterUpgrade: the old daemon is stopped first, when it       *)
(* answers the probe and is gone in time                                     *)
KilledDaemon(heard) == IF heard THEN 0 ELSE daemonV

(* verifyInstalledVersion: what the pboss on PATH prints, if it answers     *)
UpgradeVerify(answers, heard) ==
  /\ upCmd.step = "verify"
  /\ upCmd' = [upCmd EXCEPT !.step = "run",
                            !.verified = answers /\ copies[OnPath] >= upCmd.want,
                            !.undone = ~heard /\ daemonV > 0]
  /\ daemonV' = KilledDaemon(heard)
  /\ UNCHANGED <<copies, front, stamp, selection, have, hidden, latest, ripe, denoFlag,
                 bootUnit, report, moved, unbacked, upCalls>>

FreshUnit == [via |-> OnPath, version |-> copies[OnPath]]

(* The new pboss: `startup install` writes the unit anew and restarts the    *)
(* daemon through it, `resurrect` joins a daemon that answers and spawns one *)
(* when none does.                                                           *)
RealignRun ==
  /\ upCmd.step = "run" /\ CanRun(OnPath)
  /\ bootUnit' = IF bootUnit = NoUnit THEN NoUnit ELSE FreshUnit
  /\ daemonV' = IF bootUnit # NoUnit \/ daemonV = 0 THEN copies[OnPath] ELSE daemonV
  /\ upCmd' = [upCmd EXCEPT !.step = "tell"]
  /\ UNCHANGED <<copies, front, stamp, selection, have, hidden, latest, ripe, denoFlag,
                 report, moved, unbacked, upCalls>>

(* It cannot be run, exits with an error or is killed at its limit, before or*)
(* after it has written the unit, or no daemon answers in time.              *)
RealignFails ==
  /\ upCmd.step = "run"
  /\ bootUnit' \in {bootUnit} \cup {u \in {FreshUnit} : bootUnit # NoUnit}
  /\ daemonV' \in {daemonV, 0}
  /\ upCmd' = [upCmd EXCEPT !.step = "tell", !.undone = TRUE]
  /\ UNCHANGED <<copies, front, stamp, selection, have, hidden, latest, ripe, denoFlag,
                 report, moved, unbacked, upCalls>>

(* The line about the daemon                                                *)
DaemonLine(v, want) == IF v >= want THEN "restarted" ELSE "old"

UpgradeReport ==
  /\ upCmd.step = "tell"
  /\ report' = [verified |-> upCmd.verified, live |-> daemonV, want |-> upCmd.want,
                raced |-> upCmd.raced, undone |-> upCmd.undone, stray |-> upCmd.stray,
                told |-> IF daemonV = 0 THEN "note" ELSE DaemonLine(daemonV, upCmd.want)]
  /\ upCmd' = NoCommand
  /\ UNCHANGED <<copies, front, stamp, selection, have, hidden, latest, ripe, denoFlag,
                 bootUnit, daemonV, moved, unbacked, upCalls>>

-----------------------------------------------------------------------------
(* pboss runtime change                                                     *)

ChangeBegin(rt) ==
  /\ Starts /\ Present # {} /\ rt # selection /\ CanRun(OnPath)
  /\ upCmd' = [step |-> "ensure", rt |-> rt]
  /\ UNCHANGED <<copies, front, stamp, selection, have, hidden, latest, ripe, denoFlag,
                 bootUnit, daemonV, moved, unbacked>>

(* ensureRuntimeInstalled: a missing runtime is installed, and may be one that*)
(* PATH does not find yet                                                    *)
ChangeEnsure ==
  /\ upCmd.step = "ensure"
  /\ \/ upCmd.rt \in have \cup hidden /\ UNCHANGED <<have, hidden>>
     \/ /\ upCmd.rt \notin have \cup hidden
        /\ \/ have' = have \cup {upCmd.rt} /\ UNCHANGED hidden
           \/ hidden' = hidden \cup {upCmd.rt} /\ UNCHANGED have
  /\ upCmd' = [upCmd EXCEPT !.step = "package"]
  /\ UNCHANGED <<copies, front, stamp, selection, latest, ripe, denoFlag, bootUnit,
                 daemonV, report, moved, unbacked, upCalls>>

(* resolvePbossInstallArgv: npm delivers what Deno cannot resolve yet       *)
DeliveredBy(rt) == IF rt = "deno" /\ EffectiveLatest = 0 THEN "npm" ELSE ChannelOf(rt)

ChangeInstall ==
  LET c == DeliveredBy(upCmd.rt) IN
  /\ upCmd.step = "package" /\ CanInstall(c)
  /\ copies' = [copies EXCEPT ![c] = IF c = "deno" THEN EffectiveLatest ELSE latest]
  /\ stamp' = StampAfter(c)
  /\ Postinstall(c)
  /\ unbacked' = (unbacked \/ c # ChannelOf(upCmd.rt))
  /\ upCmd' = [upCmd EXCEPT !.step = "commit"]
  /\ UNCHANGED <<front, selection, have, hidden, latest, ripe, denoFlag, report, moved, upCalls>>

(* A runtime or package that cannot be installed, or an interrupted command *)
ChangeStops ==
  /\ upCmd.step \in {"ensure", "package", "commit"}
  /\ upCmd' = NoCommand
  /\ UNCHANGED <<copies, front, stamp, selection, have, hidden, latest, ripe, denoFlag,
                 bootUnit, daemonV, report, moved, unbacked, upCalls>>

(* writeRuntimeSelection.  The runtime is to answer first, but what is tested*)
(* is a promise that nobody awaits: it passes whatever PATH finds.           *)
ChangeCommit ==
  /\ upCmd.step = "commit"
  /\ selection' = upCmd.rt
  /\ moved' = upCmd.rt
  /\ upCmd' = NoCommand
  /\ UNCHANGED <<copies, front, stamp, have, hidden, latest, ripe, denoFlag, bootUnit, daemonV,
                 report, unbacked, upCalls>>

-----------------------------------------------------------------------------
(* The registry, and other uses of pboss                                    *)

Publish ==
  /\ latest < MaxVersion
  /\ latest' = latest + 1
  /\ UNCHANGED <<copies, front, stamp, selection, have, hidden, ripe, denoFlag, bootUnit,
                 daemonV, upCmd, report, moved, unbacked, upCalls>>

Ripen ==
  /\ ~denoFlag /\ ripe < latest
  /\ ripe' = ripe + 1
  /\ UNCHANGED <<copies, front, stamp, selection, have, hidden, latest, denoFlag, bootUnit,
                 daemonV, upCmd, report, moved, unbacked, upCalls>>

(* Any other command finds no daemon and spawns one from its own copy.      *)
ClientSpawns(copy) ==
  /\ upCmd # NoCommand /\ daemonV = 0 /\ copy \in Present /\ CanRun(copy)
  /\ daemonV' = copies[copy]
  /\ upCmd' = IF upCmd.step \in {"run", "tell"} THEN [upCmd EXCEPT !.raced = TRUE] ELSE upCmd
  /\ UNCHANGED <<copies, front, stamp, selection, have, hidden, latest, ripe, denoFlag,
                 bootUnit, report, moved, unbacked, upCalls>>

(* The boot service brings back a daemon that has gone.                      *)
UnitRevives ==
  /\ upCmd # NoCommand /\ daemonV = 0 /\ UnitStarts > 0
  /\ daemonV' = UnitStarts
  /\ UNCHANGED <<copies, front, stamp, selection, have, hidden, latest, ripe, denoFlag,
                 bootUnit, upCmd, report, moved, unbacked, upCalls>>

(* A new terminal: PATH finds what an installer has added to it.             *)
NewTerminal ==
  /\ upCmd = NoCommand /\ hidden # {}
  /\ have' = have \cup hidden
  /\ hidden' = {}
  /\ UNCHANGED <<copies, front, stamp, selection, latest, ripe, denoFlag, bootUnit,
                 daemonV, upCmd, report, moved, unbacked, upCalls>>

UpNext ==
  \/ \E c \in {"npm", "bun", "brew"} : InstallStamped(c)
  \/ InstallDeno
  \/ \E c \in Channels : Uninstall(c) \/ ClientSpawns(c)
  \/ \E rt \in Runtimes3 : InstallUniversal(rt) \/ FirstRun(rt) \/ ChangeBegin(rt)
  \/ \E by \in {"none", "npm", "universal"}, dry, fetched \in BOOLEAN :
       UpgradeBegin(by, dry, fetched)
  \/ UpgradeStops \/ UpgradeInstall
  \/ \E answers, heard \in BOOLEAN : UpgradeVerify(answers, heard)
  \/ RealignRun \/ RealignFails \/ UpgradeReport
  \/ ChangeEnsure \/ ChangeInstall \/ ChangeStops \/ ChangeCommit
  \/ Publish \/ Ripen \/ UnitRevives \/ NewTerminal

UpInit ==
  /\ copies = [c \in Channels |-> 0] /\ front \in {"npm", "deno"}
  /\ stamp = NoStamp /\ selection = "none" /\ have = {"node"} /\ hidden = {}
  /\ latest = 1 /\ ripe \in {0, 1} /\ denoFlag \in BOOLEAN
  /\ (denoFlag => ripe = 1)
  /\ bootUnit = NoUnit /\ daemonV = 0 /\ upCmd = NoCommand /\ report = Quiet
  /\ moved = "none" /\ unbacked = FALSE /\ upCalls = 0

UpSpec == UpInit /\ [][UpNext]_upVars

-----------------------------------------------------------------------------
UpTypeOK ==
  /\ copies \in [Channels -> 0..MaxVersion] /\ front \in Channels
  /\ stamp \in [channel : Channels \cup {"none", "universal"}, byHand : BOOLEAN]
  /\ selection \in Runtimes3 \cup {"none"} /\ have \subseteq Runtimes3 /\ hidden \subseteq Runtimes3
  /\ latest \in 1..MaxVersion /\ ripe \in 0..latest /\ denoFlag \in BOOLEAN
  /\ (denoFlag => ripe = 1)
  /\ bootUnit \in [via : Channels \cup {"none"}, version : 0..MaxVersion]
  /\ daemonV \in 0..MaxVersion /\ moved \in Runtimes3 \cup {"none"}
  /\ report.told \in {"none", "restarted", "old", "note"} /\ unbacked \in BOOLEAN
  /\ upCalls \in 0..MaxUpCalls

(* "A deno execution is never overridden": whatever stamp an npm install    *)
(* that is gone has left and whatever .runtime says, an upgrade of the deno *)
(* copy adds no second pboss to the machine, unless the channel was chosen  *)
(* by hand, or the universal installer owns a machine whose .runtime names a*)
(* runtime without a package of its own.                                    *)
DenoStaysAlone == ~report.stray

(* After an upgrade no old daemon runs unknowingly: when an old one answers *)
(* the user is told, and it can answer a verified upgrade only when the old  *)
(* one did not answer the probe or stop, when the restart failed, so that the*)
(* boot service may have revived it, or when another command spawned it      *)
(* between the kill and the restart.                                        *)
DaemonIsRealigned ==
  report.live > 0 /\ report.live < report.want =>
    /\ report.told = "old"
    /\ report.verified => report.raced \/ report.undone

(* `pboss runtime change` moves .runtime only to a runtime that is on the    *)
(* machine, with a package of pboss that can run under it.                   *)
SelectionHasPackage ==
  moved # "none" /\ upCmd = NoCommand =>
    /\ selection = moved /\ moved \in have \cup hidden
    /\ copies[ChannelOf(moved)] > 0 \/ (moved = "deno" /\ copies["npm"] > 0)

(* An upgrade or a change of the runtime is whole: no second pboss, no old    *)
(* daemon behind the user's back, no selection without a package.             *)
UpgradeIsWhole == DenoStaysAlone /\ DaemonIsRealigned /\ SelectionHasPackage

(* "The new runtime must answer before the selection moves" (index.ts): when *)
(* `runtime change` commits, PATH finds the runtime.                         *)
RuntimeAnswersFirst ==
  [][upCmd.step = "commit" /\ selection' # selection => selection' \in have]_upVars
=============================================================================
