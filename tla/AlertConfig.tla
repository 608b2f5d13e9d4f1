----------------------------- MODULE AlertConfig -----------------------------
(***************************************************************************)
(* ~/.pboss/alert-thresholds.json and the thresholds the monitor evaluates *)
(* (threshold-monitor.ts): built-in defaults, the `defaults` block of the  *)
(* file, an override per process, the fields of the process's own config.  *)
(* The agent starts on the built-in values and reads the file meanwhile    *)
(* (cloud.ts); `pboss alerts set` and `reset` change the live config at    *)
(* once and write the file afterwards, not through a rename.               *)
(***************************************************************************)
EXTENDS Naturals, FiniteSets

CONSTANTS Meters,       \* metrics that have a threshold
          AlertApps,    \* processes with overrides
          MaxAlertCalls \* sets, resets, restarts and edits in a behaviour

ASSUME AlertAssumption == MaxAlertCalls \in Nat

VARIABLES
  tuned,       \* the live config: [sys, defaults, overrides]
  tuneFile,    \* the file: a config, or Unreadable (absent, torn)
  loading,     \* the read of the constructor: "off", "open" or what it read
  tuneSaves,   \* writes in flight: call -> config
  agentUp, tuneCalls,
  overlapped   \* history: a change was made while a read or a write was in
               \* flight, or the daemon died during a write
tuneVars == <<tuned, tuneFile, loading, tuneSaves, agentUp, tuneCalls, overlapped>>

Triggers == {0, 1}      \* 0 is the built-in value
NotSet == 9             \* a field that is missing or no number
Unreadable == [sys |-> NotSet]
Partials == [Meters -> Triggers \cup {NotSet}]
NoOverride == [l \in Meters |-> NotSet]
Builtin == [sys |-> 0, defaults |-> [l \in Meters |-> 0],
            overrides |-> [a \in AlertApps |-> NoOverride]]

-----------------------------------------------------------------------------
(* num and the merges: a field that is set wins over the default            *)
MergeThresholds(raw, dflt) == [l \in Meters |-> IF raw[l] = NotSet THEN dflt[l] ELSE raw[l]]

(* loadThresholdConfig: an override is completed with the built-in values,  *)
(* not with the file's own defaults block                                   *)
LoadedConfig(file) ==
  IF file = Unreadable THEN Builtin
  ELSE [sys |-> IF file.sys = NotSet THEN 0 ELSE file.sys,
        defaults |-> MergeThresholds(file.defaults, Builtin.defaults),
        overrides |-> [a \in AlertApps |->
                         IF file.overrides[a] = NoOverride THEN NoOverride
                         ELSE MergeThresholds(file.overrides[a], Builtin.defaults)]]

\* mutant
StoresThePatch(cfg, target, patch) ==
  IF target = "defaults" THEN [cfg EXCEPT !.defaults = MergeThresholds(patch, cfg.defaults)]
  ELSE [cfg EXCEPT !.overrides[target] = patch]
(* patchThresholdConfig: what the patch leaves open is taken from the       *)
(* defaults of now; an earlier override of the process is forgotten         *)
Patched(cfg, target, patch) ==
  LET merged == MergeThresholds(patch, cfg.defaults)
  IN IF target = "defaults" THEN [cfg EXCEPT !.defaults = merged]
     ELSE [cfg EXCEPT !.overrides[target] = merged]

(* alertsReset: the system block returns to the built-in values with        *)
(* "system" and "all", an override is dropped; the defaults block stays     *)
ResetConfig(cfg, target) ==
  CASE target = "all" -> [cfg EXCEPT !.sys = 0, !.overrides = Builtin.overrides]
    [] target = "system" -> [cfg EXCEPT !.sys = 0]
    [] OTHER -> [cfg EXCEPT !.overrides[target] = NoOverride]

(* effectiveProcessThresholds: own is what the process's config states      *)
EffectiveThresholds(cfg, app, own) ==
  MergeThresholds(own, MergeThresholds(cfg.overrides[app], cfg.defaults))

-----------------------------------------------------------------------------
InFlight == {i \in DOMAIN tuneSaves : tuneSaves[i] # Unreadable}
AlertCall == tuneCalls < MaxAlertCalls /\ tuneCalls' = tuneCalls + 1

(* updateConfig, then saveThresholdConfig                                   *)
Adopts(cfg) ==
  /\ agentUp /\ AlertCall
  /\ tuned' = cfg
  /\ tuneSaves' = [tuneSaves EXCEPT ![tuneCalls'] = cfg]
  /\ overlapped' = (overlapped \/ InFlight # {} \/ loading # "off")
  /\ UNCHANGED <<tuneFile, loading, agentUp>>

AlertsSet(target) ==
  \E patch \in Partials \ {NoOverride} : Adopts(Patched(tuned, target, patch))
AlertsSetSystem(v) == Adopts([tuned EXCEPT !.sys = v])
AlertsReset(target) == Adopts(ResetConfig(tuned, target))

SaveLands(i) ==
  /\ agentUp /\ i \in InFlight
  /\ tuneFile' = tuneSaves[i]
  /\ tuneSaves' = [tuneSaves EXCEPT ![i] = Unreadable]
  /\ UNCHANGED <<tuned, loading, agentUp, tuneCalls, overlapped>>

(* The daemon ends; a write in flight lands, is lost or leaves a torn file. *)
AgentDies ==
  /\ agentUp /\ AlertCall
  /\ agentUp' = FALSE
  /\ tuneFile' \in {tuneFile} \cup (IF InFlight = {} THEN {} ELSE {Unreadable}) \cup
                   {tuneSaves[i] : i \in InFlight}
  /\ overlapped' = (overlapped \/ InFlight # {})
  /\ tuneSaves' = [i \in DOMAIN tuneSaves |-> Unreadable]
  /\ loading' = "off"
  /\ UNCHANGED tuned

(* The user edits the file while no daemon runs.                            *)
HandEdit ==
  /\ ~agentUp /\ AlertCall
  /\ \E d \in Partials, o \in Partials, a \in AlertApps :
       tuneFile' = [sys |-> NotSet, defaults |-> d,
                    overrides |-> [Builtin.overrides EXCEPT ![a] = o]]
  /\ UNCHANGED <<tuned, loading, tuneSaves, agentUp, overlapped>>

(* The constructor of the agent: built-in values until the read is done     *)
AgentStarts ==
  /\ ~agentUp
  /\ agentUp' = TRUE /\ tuned' = Builtin /\ loading' = "open" /\ overlapped' = FALSE
  /\ UNCHANGED <<tuneFile, tuneSaves, tuneCalls>>
LoadDone ==
  /\ loading = "open"
  /\ tuned' = LoadedConfig(tuneFile)
  /\ loading' = "off"
  /\ UNCHANGED <<tuneFile, tuneSaves, agentUp, tuneCalls, overlapped>>

TuneNext ==
  \/ \E t \in AlertApps \cup {"defaults"} : AlertsSet(t)
  \/ \E v \in Triggers : AlertsSetSystem(v)
  \/ \E t \in AlertApps \cup {"system", "all"} : AlertsReset(t)
  \/ \E i \in 1..MaxAlertCalls : SaveLands(i)
  \/ AgentDies \/ HandEdit \/ AgentStarts \/ LoadDone

TuneInit ==
  /\ tuned = Builtin /\ tuneFile = Unreadable /\ loading = "off"
  /\ tuneSaves = [i \in 1..MaxAlertCalls |-> Unreadable]
  /\ agentUp = FALSE /\ tuneCalls = 0 /\ overlapped = FALSE

TuneSpec == TuneInit /\ [][TuneNext]_tuneVars

TuneTypeOK ==
  /\ tuned.sys \in Triggers /\ tuned.defaults \in [Meters -> Triggers]
  /\ \A a \in AlertApps : tuned.overrides[a] \in [Meters -> Triggers] \cup {NoOverride}
  /\ loading \in {"off", "open"} /\ agentUp \in BOOLEAN /\ overlapped \in BOOLEAN
  /\ tuneCalls \in 0..MaxAlertCalls

(* A restart changes no alert: once the writes have landed, the thresholds  *)
(* that a new daemon would read from the file for any process, whatever its *)
(* own config states, are those in force.  Changes that overlap a read or a *)
(* write are excepted: those may land in either order.                      *)
ReloadKeepsConfig ==
  agentUp /\ loading = "off" /\ InFlight = {} /\ ~overlapped =>
    \A a \in AlertApps : \A own \in Partials :
      EffectiveThresholds(LoadedConfig(tuneFile), a, own) = EffectiveThresholds(tuned, a, own)
=============================================================================
