---------------------------- MODULE ThresholdMonitor ----------------------------
(* The alerts of the cloud agent (threshold-monitor.ts): one evaluation per   *)
(* report tick, and one state machine per process and metric. The machines    *)
(* share nothing, so a behaviour follows one of them; a sample is what the    *)
(* machine can tell apart. Time is counted in report periods, and a tick may  *)
(* come late.                                                                 *)
EXTENDS Naturals, SequencesExt

CONSTANTS MaxClock,      \* bound: how long a behaviour is followed
          Sustained,     \* sustainedSec of a level
          Heartbeat,     \* ALERT_HEARTBEAT_SEC
          Window,        \* windowSec, baselineWindowSec
          LoopCount      \* restartLoop.count

ASSUME MonitorAssumption == MaxClock \in Nat \ {0} /\ Sustained \in Nat

Metrics == {"process", "system", "mem", "handles", "loop"}

VARIABLES metric,        \* the machine that is followed
          clock,
          machine,       \* its phase, since, baseline; elevatedSince, lastEventAt
          ring,          \* samples of mem and handles; restart times of loop
          emitted,       \* the event of the last evaluation
          alertsOut,     \* an alert was sent, and no recovery since
          highSince,     \* since when every sample that was evaluated is crossed
          lowSince       \* since when none is

monVars == <<metric, clock, machine, ring, emitted, alertsOut, highSince, lowSince>>

Fresh(t) == [phase |-> "normal", since |-> t, firedAt |-> 0, base |-> 0]

MonInit ==
  /\ metric \in Metrics /\ clock = 1
  /\ machine = Fresh(1) /\ ring = <<>> /\ emitted = "none" /\ alertsOut = FALSE
  /\ highSince = 0 /\ lowSince = 0

------------------------------------------------------------------------------
(* Levels: cpu, event loop, memory against a limit, the system. A sample is   *)
(* "calm" under the clear level, "between", or "crossed" (thresholds from     *)
(* above and from below are the same machine).                                *)
Becomes(m, phase, t) == [m EXCEPT !.phase = phase, !.since = t]
Silent(m) == [to |-> m, event |-> "none"]
Emits(m, e) == [to |-> m, event |-> e]
Held(m, t) == t - m.since >= Sustained

\* mutant: a sample below the level does not end the streak
BlipIgnored(m, x, t) ==
  IF x = "crossed" /\ Held(m, t)
  THEN Emits([m EXCEPT !.phase = "triggered", !.firedAt = t], "alert") ELSE Silent(m)
LevelWatching(m, x, t) ==
  IF x # "crossed" THEN Silent([m EXCEPT !.phase = "normal"])
  ELSE IF Held(m, t) THEN Emits([m EXCEPT !.phase = "triggered", !.firedAt = t], "alert")
  ELSE Silent(m)

LevelStep(m, x, t) ==
  CASE m.phase \in {"normal", "clearing"} /\ x = "crossed" -> Silent(Becomes(m, "watching", t))
    [] m.phase = "clearing" /\ x # "crossed" /\ Held(m, t) ->
         Emits([m EXCEPT !.phase = "normal"], "recovered")
    [] m.phase = "watching" -> LevelWatching(m, x, t)
    [] m.phase = "triggered" /\ x = "calm" -> Silent(Becomes(m, "clearing", t))
    [] m.phase = "triggered" /\ x = "crossed" /\ t - m.firedAt >= Heartbeat ->
         Emits([m EXCEPT !.firedAt = t], "heartbeat")
    [] OTHER -> Silent(m)

------------------------------------------------------------------------------
(* Growth: the ring keeps the window, and never less than two samples. Its    *)
(* oldest sample counts when it is as old as the window.                      *)
Pushed(r, t, v) ==
  LET all == Append(r, [t |-> t, v |-> v])
      kept == {i \in DOMAIN all : i + 1 >= Len(all) \/ all[i].t + Window >= t}
  IN SubSeq(all, Min(kept), Len(all))

WindowBase(r, t) == IF r[1].t + Window <= t THEN r[1].v ELSE 0       \* 0: none yet

\* Memory: from 1 to 3 is a spike; the same or less is calm; from 1 to 2 neither.
MemStep(m, r, v, t) ==
  LET base == WindowBase(r, t) IN
    CASE base # 0 /\ m.phase = "normal" /\ v >= base + 2 ->
           Emits([m EXCEPT !.phase = "triggered"], "alert")
      [] base # 0 /\ m.phase = "triggered" /\ v <= base ->
           Emits([m EXCEPT !.phase = "normal"], "recovered")
      [] OTHER -> Silent(m)

\* Handles: the baseline is frozen while the machine is not in its normal phase.
BaseFor(m, r, t) == IF m.phase = "normal" THEN WindowBase(r, t) ELSE m.base

HandleStep(m0, r, v, t) ==
  LET base == BaseFor(m0, r, t)
      m == IF m0.phase = "normal" /\ base # 0 THEN [m0 EXCEPT !.base = base] ELSE m0
      elevated == v >= base + 2
      calmed == v <= base
  IN CASE base = 0 -> Silent(m)
       [] base # 0 /\ m.phase = "normal" /\ elevated -> Silent(Becomes(m, "watching", t))
       [] base # 0 /\ m.phase = "clearing" /\ calmed /\ Held(m, t) ->
            Emits([m EXCEPT !.phase = "normal"], "recovered")
       [] base # 0 /\ m.phase = "watching" /\ ~elevated -> Silent([m EXCEPT !.phase = "normal"])
       [] base # 0 /\ m.phase = "watching" /\ elevated /\ Held(m, t) ->
            Emits([m EXCEPT !.phase = "triggered", !.firedAt = t], "alert")
       [] base # 0 /\ m.phase = "triggered" /\ calmed -> Silent(Becomes(m, "clearing", t))
       [] base # 0 /\ m.phase = "triggered" /\ ~calmed /\ t - m.firedAt >= Heartbeat ->
            Emits([m EXCEPT !.firedAt = t], "heartbeat")
       [] OTHER -> Silent(m)

------------------------------------------------------------------------------
(* Restart loop: base is the restart counter seen last, 0 at first sight. A   *)
(* counter that went back begins anew.                                        *)
InWindow(r, t) == SelectSeq(r, LAMBDA u : u + Window >= t)
LoopRing(m, r, count, t) ==
  IF m.base = 0 \/ count < m.base THEN <<>>
  ELSE InWindow(r \o [i \in 1..(count - m.base) |-> t], t)

LoopStep(m0, r, count) ==
  LET m == [m0 EXCEPT !.base = count, !.phase = IF count < m0.base THEN "normal" ELSE @]
  IN CASE m.phase = "normal" /\ Len(r) >= LoopCount ->
            Emits([m EXCEPT !.phase = "triggered"], "alert")
       [] m.phase = "triggered" /\ Len(r) < LoopCount -> Silent([m EXCEPT !.phase = "normal"])
       [] OTHER -> Silent(m)

------------------------------------------------------------------------------
(* One pass over the report. A process that is not online is not sampled, but *)
(* its restarts are counted and its machines stay; what a report does not     *)
(* name is pruned.                                                            *)
Samples == CASE metric \in {"process", "system"} -> {"calm", "between", "crossed"}
             [] metric \in {"mem", "handles"} -> 1..3
             [] OTHER -> 1..3

Takes(res) == machine' = res.to /\ emitted' = res.event
              /\ alertsOut' = (res.event \in {"alert", "heartbeat"} \/ (alertsOut /\ res.event = "none"))
Later(d) == clock + d <= MaxClock /\ clock' = clock + d

Noted(x) ==
  /\ highSince' = IF x # "crossed" THEN 0 ELSE IF highSince = 0 THEN clock' ELSE highSince
  /\ lowSince' = IF x = "crossed" THEN 0 ELSE IF lowSince = 0 THEN clock' ELSE lowSince

EvaluateLevel(x) ==
  /\ metric \in {"process", "system"}
  /\ Takes(LevelStep(machine, x, clock')) /\ Noted(x) /\ UNCHANGED ring

EvaluateGrowth(v) ==
  /\ metric \in {"mem", "handles"}
  /\ ring' = Pushed(ring, clock', v)
  /\ Takes(IF metric = "mem" THEN MemStep(machine, ring', v, clock')
                             ELSE HandleStep(machine, ring', v, clock'))
  /\ UNCHANGED <<highSince, lowSince>>

EvaluateLoop(count) ==
  /\ metric = "loop"
  /\ ring' = LoopRing(machine, ring, count, clock')
  /\ Takes(LoopStep(machine, ring', count))
  /\ UNCHANGED <<highSince, lowSince>>

Evaluate(d) ==
  /\ Later(d)
  /\ \E x \in Samples : EvaluateLevel(x) \/ EvaluateGrowth(x) \/ EvaluateLoop(x)
  /\ UNCHANGED metric

NotSampled(d) ==
  /\ metric \notin {"system", "loop"} /\ Later(d) /\ emitted' = "none"
  /\ UNCHANGED <<metric, machine, ring, alertsOut, highSince, lowSince>>

Vanished(d) ==
  /\ metric # "system" /\ Later(d) /\ emitted' = "none"
  /\ machine' = Fresh(clock') /\ ring' = <<>> /\ alertsOut' = FALSE
  /\ highSince' = 0 /\ lowSince' = 0
  /\ UNCHANGED metric

MonNext == \E d \in 1..2 : Evaluate(d) \/ NotSampled(d) \/ Vanished(d)
MonSpec == MonInit /\ [][MonNext]_monVars

------------------------------------------------------------------------------
(* Every variable is in its domain.                                           *)
MonTypeOK ==
  /\ metric \in Metrics /\ clock \in 1..MaxClock /\ alertsOut \in BOOLEAN
  /\ machine.phase \in {"normal", "watching", "triggered", "clearing"}
  /\ machine.since \in 1..MaxClock /\ machine.firedAt \in 0..MaxClock
  /\ emitted \in {"none", "alert", "heartbeat", "recovered"}
  /\ highSince \in 0..clock /\ lowSince \in 0..clock

(* An alert on a level is only sent when every sample of the last `sustained` *)
(* was over the trigger level, and a recovery when none was, however late the *)
(* ticks came and however often the process was not sampled; on every machine *)
(* a recovery has an alert that it recovers from.                             *)
EventsAreEarned ==
  [][LET level == metric \in {"process", "system"} IN
       /\ level /\ emitted' = "alert" => highSince' # 0 /\ clock' - highSince' >= Sustained
       /\ level /\ emitted' = "recovered" => lowSince' # 0 /\ clock' - lowSince' >= Sustained
       /\ emitted' = "recovered" => alertsOut]_monVars
=============================================================================
