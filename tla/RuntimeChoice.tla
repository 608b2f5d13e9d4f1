---------------------------- MODULE RuntimeChoice ----------------------------
(***************************************************************************)
(* Under which runtime, in which cluster model and on which port the       *)
(* instances of one app run: the pins of ~/.pboss/runtime-overrides        *)
(* (runtime-overrides.ts), the machine default .runtime, the runtime of    *)
(* the daemon itself, install-mode.ts's discovery, startInternal and scale *)
(* (process-manager.ts) and the commands of cluster-manager.ts.            *)
(*                                                                         *)
(* The app is called "app", its instances "app-0", "app-1", ...; it listens*)
(* on the port the daemon gives it in PORT, else on its base port, 0 here. *)
(* An operation is one step: the spawns of a request follow each other.    *)
(***************************************************************************)
EXTENDS Naturals, FiniteSets

CONSTANTS Launched,     \* values of --runtime that are tried
          Interpreters, \* values of --interpreter that are tried
          Counts,       \* values of --instances and of scale
          MaxCalls      \* operations in a behaviour

ASSUME RuntimeAssumption ==
  /\ Launched \subseteq {"bun", "deno", "node", "none"} /\ Counts \subseteq Nat \ {0}
  /\ MaxCalls \in Nat

VARIABLES
  pins,        \* runtime-overrides: name or ecosystem path -> runtime
  fallback,    \* .runtime, "none" when absent or corrupt
  daemonRt,    \* RUNTIME_NAME of the daemon; "none" of a compiled install
  rtApp,       \* the app: ext, stated interpreter, started from an ecosystem
  model,       \* "absent", "wrapper" (node:cluster) or "each"
  workers,     \* its containers: [at, instances, mode, up, ran, reuse, port, due]
  verdicts,    \* probeVerdicts: runtime -> whether the shim shares a port
  steady,      \* history: nothing has happened since the start that may
               \* change what a spawn resolves to, nor has the group been one
  rtCalls
rtVars == <<pins, fallback, daemonRt, rtApp, model, workers, verdicts, steady, rtCalls>>

Runtimes == {"bun", "deno", "node"}
Unset == "none"
Failed == "failed"
Shimmed == {"bun", "deno"}
NoGroup == {}

-----------------------------------------------------------------------------
(* Resolution                                                               *)

\* mutant
ExactNameOnly(name) == IF name = "app" THEN pins["app"] ELSE Unset

(* lookupRuntimeOverride: the instance name, then its base name             *)
PinOf(name) == IF name \in DOMAIN pins /\ pins[name] # Unset THEN pins[name] ELSE pins["app"]

(* effectiveProcessRuntime                                                  *)
Effective(name) ==
  CASE PinOf(name) # Unset -> PinOf(name)
    [] PinOf(name) = Unset /\ rtApp.eco /\ pins["eco"] # Unset -> pins["eco"]
    [] OTHER -> fallback

(* findBun, findDeno, findNode; under Node the daemon's own executable      *)
Found(rt) == rt \in rtApp.installed \cup ({daemonRt} \cap {"node"})

(* decideScriptInterpreter: Bun before Deno before Node                     *)
Discovered ==
  CASE Found("bun") -> "bun"
    [] Found("deno") /\ ~Found("bun") -> "deno"
    [] Found("node") /\ ~Found("bun") /\ ~Found("deno") -> "node"
    [] OTHER -> Failed

(* resolveScriptInterpreter: an unstated app inherits the daemon's runtime, *)
(* which a compiled install does not have                                   *)
ScriptInterpreter == IF daemonRt # Unset THEN daemonRt ELSE Discovered

(* runtimeCommandPrefix: a pinned runtime that is missing is an error       *)
CommandPrefix(rt) == IF Found(rt) THEN rt ELSE Failed

JsRoute(name) ==
  IF Effective(name) # Unset THEN CommandPrefix(Effective(name)) ELSE ScriptInterpreter

(* buildWorkerSpawn: the extensions it lists, then the rest, which the      *)
(* override chain does not reach                                            *)
WorkerRoute(name) ==
  CASE rtApp.stated # Unset -> rtApp.stated
    [] rtApp.stated = Unset /\ rtApp.ext = "js" -> JsRoute(name)
    [] rtApp.stated = Unset /\ rtApp.ext = "mts" -> ScriptInterpreter
    [] OTHER -> "python3"

(* buildNodeClusterCommand                                                  *)
WrapperRoute ==
  LET route == IF rtApp.stated # Unset THEN rtApp.stated ELSE JsRoute("app")
  IN IF route = "node" THEN route ELSE Failed

(* usesNodeRuntime, before the launcher's pin is written                    *)
UsesNode(launcher) ==
  IF rtApp.stated # Unset THEN rtApp.stated = "node"
  ELSE /\ rtApp.ext # "py"
       /\ LET rt == IF launcher # Unset THEN launcher ELSE Effective("app")
          IN IF rt # Unset THEN rt = "node" ELSE ScriptInterpreter = "node"

-----------------------------------------------------------------------------
(* Spawns                                                                   *)

InstanceName(i) == CASE i = 0 -> "app-0" [] i = 1 -> "app-1" [] OTHER -> "app-2"
NameOf(w) == IF w.alone \/ model = "wrapper" THEN "app" ELSE InstanceName(w.at)

(* buildWorkerSpawn: the shim goes before the script of a worker of several *)
(* whose runtime has passed the probe                                       *)
Decorated(w, route) == route \in Shimmed /\ w.instances > 1 /\ verdicts[route]

(* createWorkerEnv: PORT of a worker; outside cluster mode none is given    *)
PortOf(w, shared) ==
  IF w.mode = "cluster" /\ w.instances > 1 /\ model = "each" /\ ~shared THEN w.at ELSE 0

(* start(): startFork, startCluster or startNodeClusterWrapper              *)
Spawned(w) ==
  LET route == IF model = "wrapper" THEN WrapperRoute ELSE WorkerRoute(NameOf(w))
      shared == Decorated(w, route)
  IN [w EXCEPT !.up = route # Failed, !.ran = route, !.reuse = shared,
               !.port = PortOf(w, shared), !.due = pins["app"]]

(* buildConfig *)
Config(i, n, single) ==
  [at |-> i, instances |-> n, mode |-> IF n > 1 THEN "cluster" ELSE "fork", alone |-> single,
   up |-> FALSE, ran |-> Unset, reuse |-> FALSE, port |-> 0, due |-> Unset]

WithinCalls == rtCalls < MaxCalls /\ rtCalls' = rtCalls + 1
WrittenPin(launcher, written) ==
  IF launcher # Unset /\ written THEN [pins EXCEPT !["app"] = launcher] ELSE pins

(* startInternal of an app that is not in the table.  The spawn sees the    *)
(* pin this very start has written; a write that fails is passed over.      *)
StartNew ==
  /\ model = "absent" /\ WithinCalls
  /\ \E n \in Counts, launcher \in Launched, written \in BOOLEAN :
       /\ launcher = Unset => written
       /\ pins' = WrittenPin(launcher, written)
       /\ model' = IF n > 1 /\ UsesNode(launcher) THEN "wrapper" ELSE "each"
       /\ steady' = (written /\ n > 1)
       /\ workers' = {Config(i, n, n = 1 \/ model' = "wrapper") :
                        i \in IF model' = "wrapper" THEN {0} ELSE 0..(n - 1)}
  /\ UNCHANGED <<fallback, daemonRt, rtApp, verdicts>>

(* Their start(), one after the other; the first failure ends the request   *)
Comes == \E w \in workers : ~w.up /\ w.ran = Unset
SpawnAll ==
  /\ Comes
  /\ workers' = {IF w.ran = Unset THEN Spawned(w) ELSE w : w \in workers}
  /\ UNCHANGED <<pins, fallback, daemonRt, rtApp, model, verdicts, steady, rtCalls>>

(* startInternal of an app that is in the table: what is down starts, then  *)
(* instances are added; a wrapper gets the new count and is rolled.         *)
StartAgain ==
  /\ model # "absent" /\ ~Comes /\ WithinCalls
  /\ \E n \in Counts, launcher \in Launched :
       /\ pins' = WrittenPin(launcher, TRUE)
       /\ IF model = "wrapper"
          THEN workers' = {IF w.up /\ w.instances = n THEN w
                           ELSE [w EXCEPT !.instances = n, !.up = FALSE, !.ran = Unset] :
                             w \in workers}
          ELSE workers' = {IF w.up THEN w ELSE [w EXCEPT !.ran = Unset] : w \in workers} \cup
                          {Config(i, n, FALSE) : i \in Cardinality(workers)..(n - 1)}
       /\ steady' = (/\ steady /\ pins' = pins
                     /\ model = "wrapper" \/ n <= Cardinality(workers))
  /\ UNCHANGED <<fallback, daemonRt, rtApp, model, verdicts>>

(* scale: a new instance is a copy of the first one with the new count      *)
Added(first, i, count) == [Config(i, count, FALSE) EXCEPT !.mode = first.mode]

(* To 0 deletes them all, and leaves their pin.                             *)
ScaleTo ==
  /\ model # "absent" /\ ~Comes /\ WithinCalls
  /\ \E count \in Counts \cup {0} :
       LET have == Cardinality(workers)
           atLeastOne == IF count = 0 THEN 1 ELSE count
           first == CHOOSE w \in workers : \A v \in workers : w.at <= v.at
       IN /\ model = "wrapper" \/ count # have
          /\ CASE model = "wrapper" ->
                    workers' = {[w EXCEPT !.instances = atLeastOne, !.up = FALSE, !.ran = Unset] :
                                  w \in workers}
               [] model = "each" /\ count > have ->
                    workers' = {[w EXCEPT !.instances = count] : w \in workers} \cup
                               {Added(first, i, count) : i \in have..(count - 1)}
               [] OTHER ->
                    workers' = {[w EXCEPT !.instances = atLeastOne] : w \in
                                  {v \in workers :
                                     Cardinality({u \in workers : u.at < v.at}) < count}}
          /\ steady' = (steady /\ (model = "wrapper" \/ count > 1))
          /\ model' = IF workers' = {} THEN "absent" ELSE model
  /\ UNCHANGED <<pins, fallback, daemonRt, rtApp, verdicts>>

(* restart, a crash restart or a health restart of some instances           *)
RestartSome ==
  /\ ~Comes
  /\ \E some \in (SUBSET workers) \ {{}} :
       workers' = {IF w \in some THEN Spawned(w) ELSE w : w \in workers}
  /\ UNCHANGED <<pins, fallback, daemonRt, rtApp, model, verdicts, steady, rtCalls>>

(* delete of one instance or of all: the pin of the base name goes too      *)
DeleteSome ==
  /\ model # "absent" /\ ~Comes /\ WithinCalls
  /\ \E gone \in (SUBSET workers) \ {{}} :
       /\ workers' = workers \ gone
       /\ model' = IF workers' = {} THEN "absent" ELSE model
  /\ pins' = [pins EXCEPT !["app"] = Unset]
  /\ steady' = FALSE
  /\ UNCHANGED <<fallback, daemonRt, rtApp, verdicts>>

(* pboss runtime change, a start of the ecosystem file with --runtime, and  *)
(* a new daemon under another runtime, whose probes start over              *)
RuntimeChange ==
  /\ ~Comes /\ WithinCalls
  /\ \E rt \in Runtimes : rt # fallback /\ fallback' = rt
  /\ steady' = FALSE
  /\ UNCHANGED <<pins, daemonRt, rtApp, model, workers, verdicts>>

PinEcosystem ==
  /\ rtApp.eco /\ ~Comes /\ WithinCalls
  /\ \E rt \in Launched \ {Unset, pins["eco"]} : pins' = [pins EXCEPT !["eco"] = rt]
  /\ steady' = FALSE
  /\ UNCHANGED <<fallback, daemonRt, rtApp, model, workers, verdicts>>

Probes == {[rt \in Shimmed |-> ok] : ok \in BOOLEAN}
RebootUnder ==
  /\ ~Comes /\ WithinCalls
  /\ daemonRt' \in rtApp.installed \cup {Unset}
  /\ verdicts' \in Probes
  /\ workers' = {[w EXCEPT !.up = FALSE, !.ran = Unset] : w \in workers}
  /\ steady' = (steady /\ (model = "each" \/ daemonRt' = daemonRt))
  /\ UNCHANGED <<pins, fallback, rtApp, model>>

RtInit ==
  /\ pins = [k \in {"app", "eco"} |-> Unset] /\ fallback = Unset
  /\ rtApp \in [ext : {"js", "mts", "py"}, stated : Interpreters, eco : BOOLEAN,
              installed : {{"bun", "node"}, {"deno"}}]
  /\ daemonRt \in rtApp.installed \cup {Unset}
  /\ model = "absent" /\ workers = NoGroup /\ verdicts \in Probes
  /\ steady = FALSE /\ rtCalls = 0

RtNext == \/ StartNew \/ SpawnAll \/ StartAgain \/ ScaleTo \/ RestartSome \/ DeleteSome
          \/ RuntimeChange \/ PinEcosystem \/ RebootUnder

RtSpec == RtInit /\ [][RtNext]_rtVars

(* Type invariant.                                                          *)
RtTypeOK ==
  /\ pins \in [{"app", "eco"} -> Runtimes \cup {Unset}] /\ fallback \in Runtimes \cup {Unset}
  /\ model = "absent" <=> workers = {}
  /\ model = "wrapper" => Cardinality(workers) = 1
  /\ \A w \in workers : w.up => w.ran \notin {Unset, Failed}

-----------------------------------------------------------------------------
(* "The pin is persistent - restart, reload, a pboss reboot ... all keep    *)
(* using it" (runtime-overrides.ts 27-30): an instance that was spawned     *)
(* while its app was pinned runs under the pin, also one that scale or a    *)
(* later start added.  A stated interpreter goes before any pin, and of the *)
(* scripts only those whose extension buildWorkerSpawn lists are bound.     *)
PinBinds ==
  \A w \in workers : w.up /\ w.due # Unset /\ rtApp.stated = Unset /\ rtApp.ext = "js" =>
                       w.ran = w.due

(* Two instances of a group that has been a group since its start, and      *)
(* under the same resolution, are never left to fight for one port: either  *)
(* both carry the SO_REUSEPORT shim or their ports differ.                  *)
NoPortFight ==
  steady => \A v, w \in workers : v # w /\ v.up /\ w.up /\ v.port = w.port => v.reuse /\ w.reuse

(* The decision for node:cluster taken at the start and the command built   *)
(* at every spawn agree: while nothing it rests on changes, the wrapper is  *)
(* never refused for a runtime that is not Node.                            *)
WrapperFindsNode ==
  steady /\ model = "wrapper" =>
    \A w \in workers : w.ran = Failed => "node" \notin rtApp.installed \cup {daemonRt}

(* Every instance of an app runs under the runtime chosen for it, and the     *)
(* instances get along on one port.                                           *)
RuntimeIsKept == PinBinds /\ NoPortFight /\ WrapperFindsNode
=============================================================================
