----------------------- MODULE ProcessContainerProofs -----------------------
(***************************************************************************)
(* What holds of ProcessContainer for any number of overlapping calls and  *)
(* of children, any configured features and any failing part of start().   *)
(***************************************************************************)
EXTENDS ProcessContainer, TLAPS

USE ContainerAssumption

(* The end of stop() keeps every field in its type.                         *)
LEMMA StopReturnsType ==
    ASSUME Typed, NEW c \in Calls, NEW o \in OperatorOps, NEW auto \in BOOLEAN,
           StopReturns(c, o, auto)
    PROVE  /\ status' \in Statuses /\ proc' \in Children \cup {Null}
           /\ autorestart' \in BOOLEAN /\ suppressStopEvent' \in BOOLEAN
           /\ stage' \in [Calls -> Stages] /\ waitsOn' \in [Calls -> Children \cup {Null}]
           /\ \A d \in Calls : stage'[d] = "pidfile" => waitsOn'[d] # Null
           /\ events' \subseteq EventKinds
BY DEF Typed, StopReturns, StopEventsAgain, Statuses, Running, Stages, EventKinds

(* So does its head.                                                        *)
LEMMA StopHeadType ==
    ASSUME Typed, NEW c \in Calls, NEW o \in OperatorOps, StopHead(c, o)
    PROVE  /\ status' \in Statuses /\ proc' \in Children \cup {Null}
           /\ autorestart' \in BOOLEAN /\ suppressStopEvent' \in BOOLEAN
           /\ stopInitiated' \in BOOLEAN /\ signalled' \subseteq Children
           /\ restartTimer' \in Children \cup {Null} /\ timers' \subseteq Children
           /\ monitorInterval' \in Children \cup {Null} /\ monitors' \subseteq Children
           /\ watchers' \subseteq Children
           /\ stage' \in [Calls -> Stages] /\ waitsOn' \in [Calls -> Children \cup {Null}]
           /\ \A d \in Calls : stage'[d] = "pidfile" => waitsOn'[d] # Null
           /\ events' \subseteq EventKinds
<1>1. /\ stopInitiated' \in BOOLEAN
      /\ restartTimer' \in Children \cup {Null} /\ timers' \subseteq Children
      /\ monitorInterval' \in Children \cup {Null} /\ monitors' \subseteq Children
      /\ watchers' \subseteq Children
  BY DEF StopHead, CloseHandles, CancelRestart, CloseMonitor, Typed
<1>2. CASE proc = Null
  <2>1. StopReturns(c, o, o = "restart" /\ autorestart) /\ UNCHANGED signalled
    BY <1>2 DEF StopHead
  <2>2. (o = "restart" /\ autorestart) \in BOOLEAN
    BY DEF Typed
  <2> QED BY <1>1, <2>1, <2>2, StopReturnsType DEF Typed
<1>3. CASE proc # Null
  <2>1. /\ status' = "stopping" /\ autorestart' = FALSE /\ UNCHANGED <<proc, waitsOn>>
        /\ suppressStopEvent' = (o = "restart" \/ suppressStopEvent)
        /\ stage' = [stage EXCEPT ![c] = "term"]
        /\ signalled' = signalled \cup {proc} /\ events' = {}
    BY <1>3 DEF StopHead
  <2>2. /\ stage' \in [Calls -> Stages]
        /\ \A d \in Calls : stage'[d] = "pidfile" => waitsOn'[d] # Null
    BY <2>1 DEF Typed, Stages
  <2> QED BY <1>1, <1>3, <2>1, <2>2 DEF Typed, Statuses
<1> QED BY <1>2, <1>3

(* So does the end of a stop() that awaited the exit.                       *)
LEMMA StopEndsType ==
    ASSUME Typed, NEW c \in Calls, StopEnds(c)
    PROVE  /\ status' \in Statuses /\ proc' \in Children \cup {Null}
           /\ autorestart' \in BOOLEAN /\ suppressStopEvent' \in BOOLEAN
           /\ stage' \in [Calls -> Stages] /\ waitsOn' \in [Calls -> Children \cup {Null}]
           /\ \A d \in Calls : stage'[d] = "pidfile" => waitsOn'[d] # Null
           /\ events' \subseteq EventKinds
<1>1. op[c] \in OperatorOps /\ wasAutoRestart[c] \in BOOLEAN /\ autorestart \in BOOLEAN
  BY DEF Typed
<1> QED BY <1>1, StopReturnsType DEF StopEnds

(* The head of restart(), with what its caller changes, keeps every type.   *)
LEMMA RestartHeadType ==
    ASSUME Typed, NEW c \in Calls, NEW source \in Sources, RestartHead(c, source),
           schedules' \subseteq {"health", "cron"}, inflight' \subseteq {"health", "memory"},
           debounces' \subseteq Children, intent' \in {"up", "down", "revived"}
    PROVE  Typed'
<1>1. /\ op' \in [Calls -> OperatorOps] /\ wasAutoRestart' \in [Calls -> BOOLEAN]
      /\ pendingRestartSource' \in Sources \cup {Null}
      /\ unstableRestarts' \in 0..MaxRestarts
      /\ live' \subseteq Children /\ doomed' \subseteq Children /\ streak' \in Nat
  BY DEF RestartHead, StopEventsAgain, Typed, OperatorOps
<1>2. CASE StopHead(c, "restart")
  BY <1>1, <1>2, StopHeadType DEF Typed, OperatorOps
<1>3. CASE ~StopHead(c, "restart")
  BY <1>1, <1>3 DEF RestartHead, StopEventsAgain, Typed, Statuses, Running, Stages, EventKinds
<1> QED BY <1>2, <1>3

(* Every variable keeps its type, whatever overlaps. *)
LEMMA TypingAlways == Spec => []Typed
<1>1. Init => Typed
  <2> SUFFICES ASSUME Init PROVE Typed
    OBVIOUS
  <2>1. 0 \in 0..MaxRestarts
    OBVIOUS
  <2> QED BY <2>1 DEF Init, Typed, Statuses, Running, Stages, OperatorOps
<1>2. Typed /\ [Next]_vars => Typed'
  <2> SUFFICES ASSUME Typed, [Next]_vars PROVE Typed'
    OBVIOUS
  <2>1. ASSUME NEW c \in Calls, NEW supervise \in BOOLEAN, CallStart(c, supervise)
        PROVE Typed'
    BY <2>1 DEF CallStart, Typed, handles, osVars, Statuses, Running, Stages, OperatorOps
  <2>2. ASSUME NEW c \in Calls, NEW o \in {"stop", "kill"}, CallStop(c, o)
        PROVE Typed'
    <3>1. CASE StopHead(c, o)
      <4>1. o \in OperatorOps
        BY DEF OperatorOps
      <4>2. /\ op' \in [Calls -> OperatorOps] /\ schedules' \subseteq {"health", "cron"}
            /\ intent' \in {"up", "down", "revived"}
        BY <2>2, <4>1 DEF CallStop, Typed
      <4> QED BY <2>2, <3>1, <4>1, <4>2, StopHeadType DEF CallStop, Typed
    <3>2. CASE ~StopHead(c, o)
      BY <2>2, <3>2 DEF CallStop, Typed, OperatorOps
    <3> QED BY <3>1, <3>2
  <2>3. ASSUME NEW c \in Calls, CallRestart(c) PROVE Typed'
    BY <2>3, RestartHeadType DEF CallRestart, SchedulesAfterHead, Sources, Typed
  <2>4. ASSUME NEW c \in Calls, NEW g \in Children, FireRestartTimer(g, c)
        PROVE Typed'
    BY <2>4 DEF FireRestartTimer, Typed, osVars, Statuses, Running, Stages, OperatorOps,
                Sources
  <2>5. ASSUME NEW c \in Calls, NEW g \in Children, FireDebounce(g, c) PROVE Typed'
    BY <2>5, RestartHeadType DEF FireDebounce, SchedulesAfterHead, Revive, Sources, Typed
  <2>6. ASSUME NEW c \in Calls, NEW k \in {"health", "memory"}, FireCheck(k, c)
        PROVE Typed'
    BY <2>6, RestartHeadType DEF FireCheck, SchedulesAfterHead, Revive, Sources, Typed
  <2>7. ASSUME NEW c \in Calls, FireCron(c) PROVE Typed'
    BY <2>7, RestartHeadType DEF FireCron, SchedulesAfterHead, Revive, Sources, Typed
  <2>8. ASSUME NEW c \in Calls, NEW p \in Children, Spawn(c, p) PROVE Typed'
    BY <2>8 DEF Spawn, Typed, handles, Statuses, Running, Stages
  <2>9. ASSUME NEW c \in Calls, PidWritten(c) PROVE Typed'
    BY <2>9 DEF PidWritten, Typed, osVars, Stages, EventKinds
  <2>10. ASSUME NEW c \in Calls, NEW f \in {"spawn", "pidfile"}, StartFails(c, f)
         PROVE Typed'
    BY <2>10 DEF StartFails, StatusAfterFailure, Typed, handles, osVars, Statuses,
                 Stages, EventKinds
  <2>11. ASSUME NEW c \in Calls, TermSent(c) PROVE Typed'
    <3>1. doomed' \subseteq Children /\ signalled' \subseteq Children
      BY <2>11 DEF TermSent, Typed
    <3>2. CASE StopEnds(c)
      BY <2>11, <3>1, <3>2, StopEndsType DEF TermSent, Typed, handles
    <3>3. CASE ~StopEnds(c)
      BY <2>11, <3>1, <3>3 DEF TermSent, Typed, handles, Stages
    <3> QED BY <3>2, <3>3
  <2>12. ASSUME NEW c \in Calls, KillTimeout(c) PROVE Typed'
    <3>1. doomed' \subseteq Children /\ signalled' \subseteq Children
      BY <2>12 DEF KillTimeout, Typed
    <3>2. CASE StopEnds(c)
      BY <2>12, <3>1, <3>2, StopEndsType DEF KillTimeout, Typed, handles
    <3>3. CASE ~StopEnds(c)
      BY <2>12, <3>1, <3>3 DEF KillTimeout, Typed, handles, Stages
    <3> QED BY <3>2, <3>3
  <2>13. ASSUME NEW c \in Calls, KillSent(c) PROVE Typed'
    <3>1. CASE StopEnds(c)
      BY <2>13, <3>1, StopEndsType DEF KillSent, Typed, handles, osVars
    <3>2. CASE ~StopEnds(c)
      BY <2>13, <3>2 DEF KillSent, Typed, handles, osVars, Stages
    <3> QED BY <3>1, <3>2
  <2>14. ASSUME NEW c \in Calls, ExitAwaited(c) PROVE Typed'
    BY <2>14, StopEndsType DEF ExitAwaited, Typed, handles, osVars
  <2>15. ASSUME NEW p \in Children, NEW clean \in BOOLEAN, NEW stable \in BOOLEAN,
                HandleExit(p, clean, stable)
         PROVE Typed'
    <3>1. unstableRestarts' \in 0..MaxRestarts /\ streak' \in Nat
      BY <2>15 DEF HandleExit, Debt, Typed
    <3>2. events' \subseteq EventKinds
      BY <2>15 DEF HandleExit, ExitEvents, ExitEventsAlways, EventKinds
    <3>3. /\ stage' \in [Calls -> Stages]
          /\ \A d \in Calls : stage'[d] = "pidfile" => waitsOn'[d] # Null
      BY <2>15 DEF HandleExit, Typed, Stages
    <3> QED BY <2>15, <3>1, <3>2, <3>3
            DEF HandleExit, ForgetProcess, CloseMonitor, ArmRestart, Typed, Statuses, Running
  <2>16. ASSUME FileChanged PROVE Typed'
    BY <2>16 DEF FileChanged, Typed, fields, callVars, osVars
  <2>17. ASSUME NEW k \in {"health", "memory"}, BeginCheck(k) PROVE Typed'
    BY <2>17 DEF BeginCheck, Typed, fields, callVars, osVars
  <2>18. CASE UNCHANGED vars
    BY <2>18 DEF Typed, vars, fields, handles, callVars, osVars, history
  <2> QED
    BY <2>1, <2>2, <2>3, <2>4, <2>5, <2>6, <2>7, <2>8, <2>9, <2>10, <2>11, <2>12,
       <2>13, <2>14, <2>15, <2>16, <2>17, <2>18
       DEF Next, Operator, Autonomous, Progress, Environment
<1> QED BY <1>1, <1>2, PTL DEF Spec

(* Suppression stays owned when a call c gets other than a stop phase ...    *)
LEMMA OwnerStays ==
    ASSUME Typed, SuppressionHasOwner, NEW c \in Calls, ~InStopPhase(c),
           \A d \in Calls \ {c} : stage'[d] = stage[d] /\ op'[d] = op[d],
           suppressStopEvent' => suppressStopEvent
    PROVE  SuppressionHasOwner'
BY DEF SuppressionHasOwner, InStopPhase

(* ... when a call goes from one part of its stop phase to another ...       *)
LEMMA OwnerGoesOn ==
    ASSUME Typed, SuppressionHasOwner, NEW c \in Calls, NEW s,
           s \in {"kill", "race", "reap"},
           stage' = [stage EXCEPT ![c] = s], UNCHANGED <<op, suppressStopEvent>>
    PROVE  SuppressionHasOwner'
BY DEF SuppressionHasOwner, InStopPhase, Typed

(* ... and when one leaves it: a restart lowers the flag, a stop never was   *)
(* the owner.                                                                *)
LEMMA OwnerLeaves ==
    ASSUME Typed, SuppressionHasOwner, NEW c \in Calls, StopEnds(c), UNCHANGED op
    PROVE  SuppressionHasOwner'
<1>1. CASE op[c] = "restart"
  BY <1>1 DEF StopEnds, StopReturns, StopEventsAgain, SuppressionHasOwner
<1>2. CASE op[c] # "restart"
  <2>1. /\ UNCHANGED suppressStopEvent
        /\ \A d \in Calls \ {c} : stage'[d] = stage[d]
    BY <1>2 DEF StopEnds, StopReturns, Typed
  <2> QED BY <1>2, <2>1 DEF SuppressionHasOwner, InStopPhase
<1> QED BY <1>1, <1>2

(* The head of stop() raises the flag only as a restart that goes on to wait. *)
LEMMA OwnerAtHead ==
    ASSUME Typed, SuppressionHasOwner, NEW c \in Calls, NEW o \in OperatorOps,
           stage[c] = "idle", op' = [op EXCEPT ![c] = o], StopHead(c, o)
    PROVE  SuppressionHasOwner'
<1>1. /\ op' \in [Calls -> OperatorOps] /\ op'[c] = o
      /\ \A d \in Calls \ {c} : op'[d] = op[d]
  BY DEF Typed
<1>2. ~InStopPhase(c)
  BY DEF InStopPhase
<1>3. CASE proc = Null
  <2>1. \A d \in Calls \ {c} : stage'[d] = stage[d]
    BY <1>3 DEF StopHead, StopReturns, Typed
  <2>2. suppressStopEvent' => suppressStopEvent
    BY <1>3 DEF StopHead, StopReturns, StopEventsAgain
  <2> QED BY <1>1, <1>2, <2>1, <2>2, OwnerStays
<1>4. CASE proc # Null
  <2>1. /\ suppressStopEvent' = (o = "restart" \/ suppressStopEvent)
        /\ stage'[c] = "term" /\ \A d \in Calls \ {c} : stage'[d] = stage[d]
    BY <1>4 DEF StopHead, Typed
  <2> QED BY <1>1, <1>2, <2>1 DEF SuppressionHasOwner, InStopPhase
<1> QED BY <1>3, <1>4

(* The head of restart() as well. *)
LEMMA OwnerAtRestart ==
    ASSUME Typed, SuppressionHasOwner, NEW c \in Calls, NEW source, RestartHead(c, source)
    PROVE  SuppressionHasOwner'
<1>1. stage[c] = "idle" /\ op' = [op EXCEPT ![c] = "restart"]
  BY DEF RestartHead
<1>2. CASE StopHead(c, "restart")
  BY <1>1, <1>2, OwnerAtHead DEF OperatorOps
<1>3. CASE ~StopHead(c, "restart")
  BY <1>3 DEF RestartHead, StopEventsAgain, SuppressionHasOwner
<1> QED BY <1>2, <1>3

(* Every step keeps the flag owned.                                          *)
LEMMA OwnerStep == Typed /\ SuppressionHasOwner /\ [Next]_vars => SuppressionHasOwner'
<1> SUFFICES ASSUME Typed, SuppressionHasOwner, [Next]_vars PROVE SuppressionHasOwner'
  OBVIOUS
<1> USE DEF InStopPhase
<1>1. ASSUME NEW c \in Calls, NEW supervise \in BOOLEAN, CallStart(c, supervise)
      PROVE SuppressionHasOwner'
  BY <1>1, OwnerStays DEF CallStart, Typed
<1>2. ASSUME NEW c \in Calls, NEW o \in {"stop", "kill"}, CallStop(c, o)
      PROVE SuppressionHasOwner'
  <2>1. o \in OperatorOps /\ stage[c] = "idle" /\ op' = [op EXCEPT ![c] = o]
    BY <1>2 DEF CallStop, OperatorOps
  <2>2. CASE StopHead(c, o)
    BY <2>1, <2>2, OwnerAtHead
  <2>3. CASE ~StopHead(c, o)
    BY <1>2, <2>1, <2>3, OwnerStays DEF CallStop, Typed
  <2> QED BY <2>2, <2>3
<1>3. ASSUME NEW c \in Calls, CallRestart(c) PROVE SuppressionHasOwner'
  BY <1>3, OwnerAtRestart DEF CallRestart
<1>4. ASSUME NEW c \in Calls, NEW g \in Children, FireRestartTimer(g, c)
      PROVE SuppressionHasOwner'
  BY <1>4, OwnerStays DEF FireRestartTimer, Typed
<1>5. ASSUME NEW c \in Calls, NEW g \in Children, FireDebounce(g, c)
      PROVE SuppressionHasOwner'
  BY <1>5, OwnerAtRestart DEF FireDebounce
<1>6. ASSUME NEW c \in Calls, NEW k \in {"health", "memory"}, FireCheck(k, c)
      PROVE SuppressionHasOwner'
  BY <1>6, OwnerAtRestart DEF FireCheck
<1>7. ASSUME NEW c \in Calls, FireCron(c) PROVE SuppressionHasOwner'
  BY <1>7, OwnerAtRestart DEF FireCron
<1>8. ASSUME NEW c \in Calls, NEW p \in Children, Spawn(c, p) PROVE SuppressionHasOwner'
  BY <1>8, OwnerStays DEF Spawn, Typed
<1>9. ASSUME NEW c \in Calls, PidWritten(c) PROVE SuppressionHasOwner'
  BY <1>9, OwnerStays DEF PidWritten, Typed
<1>10. ASSUME NEW c \in Calls, NEW f \in {"spawn", "pidfile"}, StartFails(c, f)
       PROVE SuppressionHasOwner'
  BY <1>10, OwnerStays DEF StartFails, Typed
<1>11. ASSUME NEW c \in Calls, TermSent(c) PROVE SuppressionHasOwner'
  <2>1. CASE StopEnds(c)
    BY <1>11, <2>1, OwnerLeaves DEF TermSent
  <2>2. CASE ~StopEnds(c)
    BY <1>11, <2>2, OwnerGoesOn DEF TermSent
  <2> QED BY <2>1, <2>2
<1>12. ASSUME NEW c \in Calls, KillTimeout(c) PROVE SuppressionHasOwner'
  <2>1. CASE StopEnds(c)
    BY <1>12, <2>1, OwnerLeaves DEF KillTimeout
  <2>2. CASE ~StopEnds(c)
    BY <1>12, <2>2, OwnerGoesOn DEF KillTimeout
  <2> QED BY <2>1, <2>2
<1>13. ASSUME NEW c \in Calls, KillSent(c) PROVE SuppressionHasOwner'
  <2>1. CASE StopEnds(c)
    BY <1>13, <2>1, OwnerLeaves DEF KillSent
  <2>2. CASE ~StopEnds(c)
    BY <1>13, <2>2, OwnerGoesOn DEF KillSent
  <2> QED BY <2>1, <2>2
<1>14. ASSUME NEW c \in Calls, ExitAwaited(c) PROVE SuppressionHasOwner'
  BY <1>14, OwnerLeaves DEF ExitAwaited
<1>15. ASSUME NEW p \in Children, NEW clean \in BOOLEAN, NEW stable \in BOOLEAN,
              HandleExit(p, clean, stable)
       PROVE SuppressionHasOwner'
  <2>1. /\ UNCHANGED <<op, suppressStopEvent>>
        /\ \A c \in Calls : InStopPhase(c) =>
               stage'[c] \in {"term", "race", "kill", "reap", "exited"}
    BY <1>15 DEF HandleExit
  <2> QED BY <2>1 DEF SuppressionHasOwner
<1>16. ASSUME FileChanged PROVE SuppressionHasOwner'
  BY <1>16 DEF FileChanged, SuppressionHasOwner, fields, callVars
<1>17. ASSUME NEW k \in {"health", "memory"}, BeginCheck(k) PROVE SuppressionHasOwner'
  BY <1>17 DEF BeginCheck, SuppressionHasOwner, fields, callVars
<1>18. CASE UNCHANGED vars
  BY <1>18 DEF SuppressionHasOwner, vars, fields, callVars
<1> QED
  BY <1>1, <1>2, <1>3, <1>4, <1>5, <1>6, <1>7, <1>8, <1>9, <1>10, <1>11, <1>12,
     <1>13, <1>14, <1>15, <1>16, <1>17, <1>18
     DEF Next, Operator, Autonomous, Progress, Environment

(* Every variable keeps its type, and stop events are suppressed only while  *)
(* a restart is in its stop phase, whatever overlaps.                        *)
THEOREM TypeCorrect == Spec => []TypeOK
<1>1. Init => SuppressionHasOwner
  BY DEF Init, SuppressionHasOwner
<1> QED BY <1>1, OwnerStep, TypingAlways, PTL DEF Spec, TypeOK

-----------------------------------------------------------------------------
(***************************************************************************)
(* Safety under any overlap.  The three invariants are inductive together: *)
(* the status a call leaves behind when it ends is what makes the handle,  *)
(* the timer and the owner agree again.                                    *)
(***************************************************************************)
Safe == ProcessIsLive /\ TransitionHasOwner /\ WaitingHasTimer

(* The end of stop() forgets the process and names no status it cannot own. *)
LEMMA StopReturnsSafe ==
    ASSUME Typed, NEW c \in Calls, NEW o, NEW auto, StopReturns(c, o, auto),
           doomed' \subseteq signalled', signalled' \subseteq live'
    PROVE  Safe'
<1>1. proc' = Null /\ status' \in {"launching", "stopped"}
      /\ (status' = "launching" => stage'[c] = "launch")
  BY DEF StopReturns, StopEventsAgain, Typed
<1> QED BY <1>1 DEF Safe, ProcessIsLive, TransitionHasOwner, WaitingHasTimer

(* The head of stop() leaves a live or no process, and an owner for its     *)
(* stopping.                                                                *)
LEMMA StopHeadSafe ==
    ASSUME Typed, Safe, NEW c \in Calls, NEW o, StopHead(c, o), UNCHANGED <<live, doomed>>
    PROVE  Safe'
<1>1. CASE proc = Null
  <2>1. doomed' \subseteq signalled' /\ signalled' \subseteq live'
    BY <1>1 DEF StopHead, Safe, ProcessIsLive
  <2> QED BY <1>1, <2>1, StopReturnsSafe DEF StopHead
<1>2. CASE proc # Null
  <2>1. /\ status' = "stopping" /\ UNCHANGED proc /\ stage'[c] = "term"
        /\ signalled' = signalled \cup {proc}
    BY <1>2 DEF StopHead, Typed
  <2> QED BY <1>2, <2>1 DEF Safe, ProcessIsLive, TransitionHasOwner, WaitingHasTimer
<1> QED BY <1>1, <1>2

(* The end of a stop() may leave the process of another call.               *)
LEMMA StopEndsSafe ==
    ASSUME Typed, NEW c \in Calls, StopEnds(c),
           doomed' \subseteq signalled', signalled' \subseteq live'
    PROVE  Safe'
BY StopReturnsSafe DEF StopEnds

(* The head of restart() is that of stop() with suppressed events.          *)
LEMMA RestartHeadSafe ==
    ASSUME Typed, Safe, NEW c \in Calls, NEW source, RestartHead(c, source)
    PROVE  Safe'
<1>1. CASE StopHead(c, "restart")
  BY <1>1, StopHeadSafe DEF RestartHead
<1>2. CASE ~StopHead(c, "restart")
  <2>1. /\ status' = "launching" /\ stage'[c] = "launch"
        /\ UNCHANGED <<proc, live, signalled, doomed>>
    BY <1>2 DEF RestartHead, StopEventsAgain, Typed
  <2> QED BY <2>1 DEF Safe, ProcessIsLive, TransitionHasOwner, WaitingHasTimer
<1> QED BY <1>1, <1>2

(* A call that goes on waiting disturbs nothing: it owned "stopping" before  *)
(* and does so after.                                                        *)
LEMMA StillStopping ==
    ASSUME Typed, Safe, NEW c \in Calls, NEW s \in {"race", "kill", "reap"},
           stage[c] \in {"term", "race", "kill"},
           stage' = [stage EXCEPT ![c] = s],
           UNCHANGED <<status, proc, live, restartTimer, timers>>,
           doomed' \subseteq signalled', signalled' \subseteq live'
    PROVE  Safe'
<1>1. ASSUME NEW d \in Calls, d # c PROVE stage'[d] = stage[d]
  BY <1>1 DEF Typed
<1>2. stage'[c] = s
  BY DEF Typed
<1>3. TransitionHasOwner'
  <2>1. CASE status = "launching"
    <3>1. PICK d \in Calls : stage[d] = "launch"
      BY <2>1 DEF Safe, TransitionHasOwner
    <3>2. d # c
      BY <3>1
    <3> QED BY <2>1, <3>1, <3>2, <1>1 DEF TransitionHasOwner
  <2>2. CASE status # "launching"
    BY <2>2, <1>2 DEF TransitionHasOwner
  <2> QED BY <2>1, <2>2
<1> QED BY <1>3 DEF Safe, ProcessIsLive, WaitingHasTimer

(* Every step keeps the process live, transitions owned and waiting timed.  *)
LEMMA SafeStep == Typed /\ Safe /\ [Next]_vars => Safe'
<1> SUFFICES ASSUME Typed, Safe, [Next]_vars PROVE Safe'
  OBVIOUS
<1>1. ASSUME NEW c \in Calls, NEW supervise \in BOOLEAN, CallStart(c, supervise)
      PROVE Safe'
  <2>1. /\ status' = "launching" /\ stage'[c] = "launch"
        /\ UNCHANGED <<proc, live, signalled, doomed>>
    BY <1>1 DEF CallStart, Typed, osVars
  <2> QED BY <2>1 DEF Safe, ProcessIsLive, TransitionHasOwner, WaitingHasTimer
<1>2. ASSUME NEW c \in Calls, NEW o \in {"stop", "kill"}, CallStop(c, o) PROVE Safe'
  <2>1. CASE StopHead(c, o)
    BY <1>2, <2>1, StopHeadSafe DEF CallStop
  <2>2. CASE ~StopHead(c, o)
    BY <1>2, <2>2
       DEF CallStop, Safe, ProcessIsLive, TransitionHasOwner, WaitingHasTimer
  <2> QED BY <2>1, <2>2
<1>3. ASSUME NEW c \in Calls, CallRestart(c) PROVE Safe'
  BY <1>3, RestartHeadSafe DEF CallRestart
<1>4. ASSUME NEW c \in Calls, NEW g \in Children, FireRestartTimer(g, c) PROVE Safe'
  <2>1. CASE status = "online"
    BY <1>4, <2>1
       DEF FireRestartTimer, osVars, Safe, ProcessIsLive, TransitionHasOwner, WaitingHasTimer
  <2>2. CASE status # "online"
    <3>1. /\ status' = "launching" /\ stage'[c] = "launch"
          /\ UNCHANGED <<proc, live, signalled, doomed>>
      BY <1>4, <2>2 DEF FireRestartTimer, Typed, osVars
    <3> QED BY <3>1 DEF Safe, ProcessIsLive, TransitionHasOwner, WaitingHasTimer
  <2> QED BY <2>1, <2>2
<1>5. ASSUME NEW c \in Calls, NEW g \in Children, FireDebounce(g, c) PROVE Safe'
  BY <1>5, RestartHeadSafe DEF FireDebounce
<1>6. ASSUME NEW c \in Calls, NEW k \in {"health", "memory"}, FireCheck(k, c) PROVE Safe'
  BY <1>6, RestartHeadSafe DEF FireCheck
<1>7. ASSUME NEW c \in Calls, FireCron(c) PROVE Safe'
  BY <1>7, RestartHeadSafe DEF FireCron
<1>8. ASSUME NEW c \in Calls, NEW p \in Children, Spawn(c, p) PROVE Safe'
  BY <1>8 DEF Spawn, Safe, ProcessIsLive, TransitionHasOwner, WaitingHasTimer
<1>9. ASSUME NEW c \in Calls, PidWritten(c) PROVE Safe'
  <2>1. /\ UNCHANGED <<status, proc, live, signalled, doomed, restartTimer, timers>>
        /\ \A d \in Calls : stage'[d] = stage[d] \/ stage[d] = "pidfile"
    BY <1>9 DEF PidWritten, Typed, osVars
  <2> QED BY <2>1 DEF Safe, ProcessIsLive, TransitionHasOwner, WaitingHasTimer
<1>10. ASSUME NEW c \in Calls, NEW f \in {"spawn", "pidfile"}, StartFails(c, f) PROVE Safe'
  BY <1>10 DEF StartFails, StatusAfterFailure, osVars, Safe, ProcessIsLive,
               TransitionHasOwner, WaitingHasTimer
<1>11. ASSUME NEW c \in Calls, TermSent(c) PROVE Safe'
  <2>1. /\ UNCHANGED <<live, restartTimer, timers>> /\ stage[c] = "term"
        /\ doomed' \subseteq signalled' /\ signalled' \subseteq live'
    BY <1>11 DEF TermSent, StopEnds, handles, Safe, ProcessIsLive
  <2>2. CASE StopEnds(c)
    BY <2>1, <2>2, StopEndsSafe
  <2>3. CASE ~StopEnds(c)
    <3>1. UNCHANGED <<status, proc>>
      BY <1>11, <2>3 DEF TermSent
    <3>2. PICK s \in {"race", "kill"} : stage' = [stage EXCEPT ![c] = s]
      BY <1>11, <2>3 DEF TermSent
    <3> QED BY <2>1, <3>1, <3>2, StillStopping
  <2> QED BY <2>2, <2>3
<1>12. ASSUME NEW c \in Calls, KillTimeout(c) PROVE Safe'
  <2>1. /\ UNCHANGED <<live, restartTimer, timers>> /\ stage[c] = "race"
        /\ doomed' \subseteq signalled' /\ signalled' \subseteq live'
    BY <1>12 DEF KillTimeout, StopEnds, handles, Safe, ProcessIsLive
  <2>2. CASE StopEnds(c)
    BY <2>1, <2>2, StopEndsSafe
  <2>3. CASE ~StopEnds(c)
    <3>1. UNCHANGED <<status, proc>> /\ stage' = [stage EXCEPT ![c] = "kill"]
      BY <1>12, <2>3 DEF KillTimeout
    <3> QED BY <2>1, <3>1, StillStopping
  <2> QED BY <2>2, <2>3
<1>13. ASSUME NEW c \in Calls, KillSent(c) PROVE Safe'
  <2>1. /\ UNCHANGED <<live, restartTimer, timers>> /\ stage[c] = "kill"
        /\ doomed' \subseteq signalled' /\ signalled' \subseteq live'
    BY <1>13 DEF KillSent, osVars, handles, Safe, ProcessIsLive
  <2>2. CASE StopEnds(c)
    BY <2>1, <2>2, StopEndsSafe
  <2>3. CASE ~StopEnds(c)
    <3>1. UNCHANGED <<status, proc>> /\ stage' = [stage EXCEPT ![c] = "reap"]
      BY <1>13, <2>3 DEF KillSent
    <3> QED BY <2>1, <3>1, StillStopping
  <2> QED BY <2>2, <2>3
<1>14. ASSUME NEW c \in Calls, ExitAwaited(c) PROVE Safe'
  BY <1>14, StopEndsSafe DEF ExitAwaited, osVars, Safe, ProcessIsLive
<1>15. ASSUME NEW p \in Children, NEW clean \in BOOLEAN, NEW stable \in BOOLEAN,
              HandleExit(p, clean, stable)
       PROVE Safe'
  <2>1. /\ proc' = Null /\ live' = live \ {p} /\ signalled' = signalled \ {p}
        /\ doomed' = doomed \ {p}
        /\ status' \in {"waiting-restart", "errored", "stopped"}
    BY <1>15 DEF HandleExit, ForgetProcess
  <2>2. status' = "waiting-restart" => restartTimer' \in timers'
    BY <1>15 DEF HandleExit, ArmRestart
  <2> QED BY <2>1, <2>2 DEF Safe, ProcessIsLive, TransitionHasOwner, WaitingHasTimer
<1>16. ASSUME FileChanged PROVE Safe'
  BY <1>16 DEF FileChanged, fields, callVars, osVars, Safe, ProcessIsLive,
               TransitionHasOwner, WaitingHasTimer
<1>17. ASSUME NEW k \in {"health", "memory"}, BeginCheck(k) PROVE Safe'
  BY <1>17 DEF BeginCheck, fields, callVars, osVars, Safe, ProcessIsLive,
               TransitionHasOwner, WaitingHasTimer
<1>18. CASE UNCHANGED vars
  BY <1>18 DEF vars, fields, handles, callVars, osVars, Safe, ProcessIsLive,
               TransitionHasOwner, WaitingHasTimer
<1> QED
  BY <1>1, <1>2, <1>3, <1>4, <1>5, <1>6, <1>7, <1>8, <1>9, <1>10, <1>11, <1>12,
     <1>13, <1>14, <1>15, <1>16, <1>17, <1>18
     DEF Next, Operator, Autonomous, Progress, Environment

(* So they hold in every reachable state.                                   *)
LEMMA SafeAlways == Spec => []Safe
<1>1. Init => Safe
  BY DEF Init, Safe, ProcessIsLive, TransitionHasOwner, WaitingHasTimer
<1> QED BY <1>1, SafeStep, TypingAlways, PTL DEF Spec

(* No call, timer or exit, in whatever order they overlap, leaves the        *)
(* container pointing at a process that is gone, or "online" without one.    *)
THEOREM ProcessAlwaysLive == Spec => []ProcessIsLive
<1>1. Safe => ProcessIsLive
  BY DEF Safe
<1> QED BY <1>1, SafeAlways, PTL

(* No overlap of calls strands the container in "launching" or "stopping".   *)
THEOREM NoStrandedTransition == Spec => []TransitionHasOwner
<1>1. Safe => TransitionHasOwner
  BY DEF Safe
<1> QED BY <1>1, SafeAlways, PTL

(* A container that waits for its crash restart always has the timer armed,  *)
(* and stop() holds its handle.                                              *)
THEOREM WaitingAlwaysHasTimer == Spec => []WaitingHasTimer
<1>1. Safe => WaitingHasTimer
  BY DEF Safe
<1> QED BY <1>1, SafeAlways, PTL

-----------------------------------------------------------------------------
(***************************************************************************)
(* The crash-loop bound.  The number of crash restarts in a row never runs *)
(* ahead of the debt the container counts, and a restart is scheduled only *)
(* while one more short run leaves the debt below maxRestarts.             *)
(***************************************************************************)
StreakWithinDebt == streak <= unstableRestarts /\ streak < MaxRestarts

(* One exit: both counters move together, or the debt alone.                *)
LEMMA ExitKeepsStreak ==
    ASSUME Typed, StreakWithinDebt, NEW p \in Children,
           NEW clean \in BOOLEAN, NEW stable \in BOOLEAN, HandleExit(p, clean, stable)
    PROVE  StreakWithinDebt'
<1> DEFINE willRestart == Supervised /\ ~GaveUp(stable)
<1>1. /\ streak \in Nat /\ unstableRestarts \in 0..MaxRestarts /\ MaxRestarts \in Nat \ {0}
      /\ streak <= unstableRestarts /\ streak < MaxRestarts
  BY DEF Typed, StreakWithinDebt
<1>2. unstableRestarts' = IF ~Supervised THEN unstableRestarts
                          ELSE IF stable THEN 0 ELSE Debt
  BY DEF HandleExit
<1>3. streak' = IF ~willRestart THEN streak ELSE IF stable THEN 0 ELSE streak + 1
  BY DEF HandleExit
<1>4. Debt \in Nat /\ Debt >= unstableRestarts
      /\ (Debt < MaxRestarts => Debt = unstableRestarts + 1)
  BY <1>1 DEF Debt
<1>5. CASE willRestart /\ ~stable
  <2>1. Debt < MaxRestarts
    BY <1>5, <1>1, <1>4 DEF GaveUp
  <2>2. unstableRestarts' = unstableRestarts + 1 /\ streak' = streak + 1
    BY <1>5, <1>2, <1>3, <1>4, <2>1
  <2> QED BY <1>1, <1>4, <2>1, <2>2 DEF StreakWithinDebt
<1>6. CASE stable /\ Supervised
  <2>1. unstableRestarts' = 0 /\ streak' = 0
    BY <1>6, <1>2, <1>3 DEF GaveUp
  <2> QED BY <1>1, <2>1 DEF StreakWithinDebt
<1>7. CASE ~willRestart
  <2>1. streak' = streak
    BY <1>7, <1>3
  <2>2. unstableRestarts' \in {unstableRestarts, Debt}
    BY <1>7, <1>2 DEF GaveUp
  <2> QED BY <1>1, <1>4, <2>1, <2>2 DEF StreakWithinDebt
<1> QED BY <1>5, <1>6, <1>7

(* However its exits, timers and calls interleave, a crashing process gets  *)
(* fewer than maxRestarts restarts in a row.                                *)
THEOREM CrashLoopAlwaysBounded == Spec => []CrashLoopBounded
<1>1. Init => StreakWithinDebt
  BY DEF Init, StreakWithinDebt
<1>2. Typed /\ StreakWithinDebt /\ [Next]_vars => StreakWithinDebt'
  <2> SUFFICES ASSUME Typed, StreakWithinDebt, [Next]_vars PROVE StreakWithinDebt'
    OBVIOUS
  <2>1. ASSUME NEW c \in Calls, NEW supervise \in BOOLEAN, CallStart(c, supervise)
        PROVE StreakWithinDebt'
    BY <2>1 DEF CallStart, StreakWithinDebt
  <2>2. ASSUME NEW p \in Children, NEW clean \in BOOLEAN, NEW stable \in BOOLEAN,
               HandleExit(p, clean, stable)
        PROVE StreakWithinDebt'
    BY <2>2, ExitKeepsStreak
  <2>3. CASE UNCHANGED <<streak, unstableRestarts>>
    BY <2>3 DEF StreakWithinDebt
  <2>4. \/ UNCHANGED <<streak, unstableRestarts>>
        \/ \E c \in Calls, supervise \in BOOLEAN : CallStart(c, supervise)
        \/ \E p \in Children, clean, stable \in BOOLEAN : HandleExit(p, clean, stable)
    <3>1. ASSUME NEW c \in Calls, Autonomous(c) PROVE UNCHANGED <<streak, unstableRestarts>>
      BY <3>1 DEF Autonomous, FireRestartTimer, FireDebounce, FireCheck, FireCron, RestartHead
    <3>2. ASSUME NEW c \in Calls, Progress(c) PROVE UNCHANGED <<streak, unstableRestarts>>
      BY <3>2 DEF Progress, Spawn, PidWritten, StartFails, TermSent, KillTimeout, KillSent,
                  ExitAwaited
    <3>3. ASSUME NEW c \in Calls, NEW o \in {"stop", "kill"}, CallStop(c, o) \/ CallRestart(c)
          PROVE UNCHANGED <<streak, unstableRestarts>>
      BY <3>3 DEF CallStop, CallRestart, RestartHead
    <3>4. ASSUME FileChanged \/ \E k \in {"health", "memory"} : BeginCheck(k)
          PROVE UNCHANGED <<streak, unstableRestarts>>
      BY <3>4 DEF FileChanged, BeginCheck, fields
    <3>5. CASE UNCHANGED vars
      BY <3>5 DEF vars, fields, history
    <3> QED BY <3>1, <3>2, <3>3, <3>4, <3>5 DEF Next, Operator, Environment
  <2> QED BY <2>1, <2>2, <2>3, <2>4
<1>3. StreakWithinDebt => CrashLoopBounded
  BY DEF StreakWithinDebt, CrashLoopBounded
<1> QED BY <1>1, <1>2, <1>3, TypingAlways, PTL DEF Spec
-----------------------------------------------------------------------------
(***************************************************************************)
(* The regime of the operator who waits for each command: one call at a    *)
(* time, in which an autonomous restart also waits for its turn, and a PID *)
(* file that can be written.  Exits, file changes and checks that are sent *)
(* still come between any two awaits of that call.                         *)
(***************************************************************************)
OneAtATime == (\A c, d \in Calls : c = d) /\ "pidfile" \notin Faults

StopStages == {"term", "race", "kill", "reap", "exited"}

(* Nothing runs beside proc, and nothing at all where start() may spawn.    *)
Alone ==
    /\ live \subseteq {proc}
    /\ status \notin {"online", "stopping"} => live = {}
    /\ \A c \in Calls : stage[c] \in {"launch", "exited"} => live = {}

(* The status says which stage the call can be in.                          *)
StagesAgree ==
    \A c \in Calls : /\ stage[c] = "launch" => status = "launching"
                     /\ stage[c] \in StopStages => status \notin Running

(* An armed crash-restart timer is the one whose handle stop() has.         *)
TimerKnown == timers \subseteq {restartTimer} /\ (timers # {} => status = "waiting-restart")

(* What runs, or is about to, was not stopped by the operator.              *)
WantedUp ==
    /\ status \in Running => intent # "down"
    /\ \A c \in Calls : stage[c] \in StopStages /\ op[c] = "restart" => intent # "down"

(* A child that is signalled, or about to be, exits under stopInitiated.    *)
KillIsOurs ==
    /\ signalled # {} => stopInitiated
    /\ \A c \in Calls : stage[c] \in StopStages /\ live # {} => stopInitiated

(* A restart that is about to spawn has given supervision back.             *)
Remembered ==
    \A c \in Calls : op[c] = "restart" /\ stage[c] = "launch"
                     => autorestart = wasAutoRestart[c]

SerialInv == Alone /\ StagesAgree /\ TimerKnown /\ WantedUp /\ KillIsOurs /\ Remembered

(* The end of a stop with nothing alive and no timer left.                  *)
LEMMA StopReturnsSerial ==
    ASSUME Typed, OneAtATime, NEW c \in Calls, NEW o, NEW auto,
           StopReturns(c, o, auto), live' = {}, signalled' = {}, timers' = {},
           op'[c] = o, o = "restart" => intent' # "down" /\ auto = wasAutoRestart'[c]
    PROVE  SerialInv'
<1>1. ASSUME NEW d \in Calls PROVE d = c
  BY DEF OneAtATime
<1>2. CASE o = "restart"
  <2>1. status' = "launching" /\ stage'[c] = "launch" /\ autorestart' = auto
    BY <1>2 DEF StopReturns, StopEventsAgain, Typed
  <2> QED BY <1>1, <1>2, <2>1 DEF SerialInv, Alone, StagesAgree, TimerKnown, WantedUp,
                                  KillIsOurs, Remembered, StopStages
<1>3. CASE o # "restart"
  <2>1. status' = "stopped" /\ stage'[c] = "idle"
    BY <1>3 DEF StopReturns, StopEventsAgain, Typed
  <2> QED BY <1>1, <1>3, <2>1 DEF SerialInv, Alone, StagesAgree, TimerKnown, WantedUp,
                                  KillIsOurs, Remembered, StopStages, Running
<1> QED BY <1>2, <1>3

(* The head of a stop ends it at once, or signals the only child there is.  *)
LEMMA StopHeadSerial ==
    ASSUME Typed, OneAtATime, Safe, SerialInv, NEW c \in Calls,
           NEW o \in {"stop", "kill", "restart"},
           StopHead(c, o), stage[c] = "idle", UNCHANGED <<live, doomed>>, op'[c] = o,
           o = "restart" => intent' # "down" /\ wasAutoRestart'[c] = autorestart
    PROVE  SerialInv'
<1>1. ASSUME NEW d \in Calls PROVE d = c
  BY DEF OneAtATime
<1>2. timers' = {}
  BY DEF StopHead, CloseHandles, CancelRestart, SerialInv, TimerKnown
<1>3. CASE proc = Null
  <2>1. live' = {} /\ signalled' = {}
    BY <1>3 DEF StopHead, SerialInv, Alone, Safe, ProcessIsLive, Typed
  <2>2. StopReturns(c, o, o = "restart" /\ autorestart)
    BY <1>3 DEF StopHead
  <2>3. o = "restart" => (o = "restart" /\ autorestart) = wasAutoRestart'[c]
    BY DEF Typed
  <2> QED BY <1>2, <2>1, <2>2, <2>3, StopReturnsSerial
<1>4. CASE proc # Null
  <2>1. /\ status' = "stopping" /\ stage'[c] = "term" /\ stopInitiated' = TRUE
        /\ UNCHANGED proc
    BY <1>4 DEF StopHead, Typed
  <2> QED BY <1>1, <1>2, <2>1 DEF SerialInv, Alone, StagesAgree, TimerKnown, WantedUp,
                                  KillIsOurs, Remembered, StopStages, Running
<1> QED BY <1>3, <1>4

(* A restart, whoever asks for it, stops what runs or goes on to start().   *)
LEMMA RestartHeadSerial ==
    ASSUME Typed, OneAtATime, Safe, SerialInv, NEW c \in Calls, NEW source,
           RestartHead(c, source), intent' # "down"
    PROVE  SerialInv'
<1>1. ASSUME NEW d \in Calls PROVE d = c
  BY DEF OneAtATime
<1>2. /\ stage[c] = "idle" /\ op'[c] = "restart" /\ wasAutoRestart'[c] = autorestart
      /\ UNCHANGED <<live, doomed>>
  BY DEF RestartHead, StopEventsAgain, Typed
<1>3. CASE StopHead(c, "restart")
  BY <1>2, <1>3, StopHeadSerial
<1>4. CASE ~StopHead(c, "restart")
  <2>1. /\ status \notin Running /\ status' = "launching" /\ stage'[c] = "launch"
        /\ UNCHANGED <<proc, autorestart, stopInitiated, timers, restartTimer, signalled>>
    BY <1>4 DEF RestartHead, StopEventsAgain, Typed
  <2>2. status # "stopping"
    BY <1>1, <1>2 DEF Safe, TransitionHasOwner
  <2>3. live = {} /\ timers = {}
    BY <2>1, <2>2 DEF SerialInv, Alone, TimerKnown, Running
  <2>4. signalled = {}
    BY <2>3 DEF Safe, ProcessIsLive
  <2> QED BY <1>1, <1>2, <2>1, <2>3, <2>4
          DEF SerialInv, Alone, StagesAgree, TimerKnown, WantedUp, KillIsOurs, Remembered,
              StopStages
<1> QED BY <1>3, <1>4

(* A stop that has waited ends with its child gone.                         *)
LEMMA StopEndsSerial ==
    ASSUME Typed, OneAtATime, Safe, SerialInv, NEW c \in Calls,
           stage[c] \in StopStages, StopEnds(c), proc = Null \/ stage[c] = "exited",
           UNCHANGED <<live, timers, op, wasAutoRestart, intent>>,
           signalled' \subseteq live'
    PROVE  SerialInv'
<1>1. live = {}
  BY DEF SerialInv, Alone, Typed
<1>2. timers = {}
  BY DEF SerialInv, TimerKnown, StagesAgree, Running
<1>3. op[c] = "restart" => intent # "down"
  BY DEF SerialInv, WantedUp
<1> DEFINE auto == IF op[c] = "restart" THEN wasAutoRestart[c] ELSE autorestart
<1>4. StopReturns(c, op[c], auto)
  BY DEF StopEnds
<1>5. op[c] = "restart" => auto = wasAutoRestart[c]
  OBVIOUS
<1> HIDE DEF auto
<1> QED BY <1>1, <1>2, <1>3, <1>4, <1>5, StopReturnsSerial

(* A stop that goes on waiting has what it signals supervised.              *)
LEMMA WaitingSerial ==
    ASSUME Typed, OneAtATime, SerialInv, NEW c \in Calls, NEW s \in {"race", "kill", "reap"},
           stage[c] \in {"term", "race", "kill"}, stage' = [stage EXCEPT ![c] = s],
           UNCHANGED <<status, proc, live, timers, restartTimer, op, stopInitiated, intent>>,
           signalled' \subseteq live'
    PROVE  SerialInv'
<1>1. ASSUME NEW d \in Calls PROVE d = c
  BY DEF OneAtATime
<1>2. stage'[c] = s
  BY DEF Typed
<1> QED BY <1>1, <1>2 DEF SerialInv, Alone, StagesAgree, TimerKnown, WantedUp, KillIsOurs,
                          Remembered, StopStages

(* An exit leaves nothing alive; only a supervised one arms the timer.      *)
LEMMA ExitSerial ==
    ASSUME Typed, OneAtATime, Safe, SerialInv, NEW p \in Children,
           NEW clean \in BOOLEAN, NEW stable \in BOOLEAN, HandleExit(p, clean, stable)
    PROVE  SerialInv'
<1> DEFINE willRestart == Supervised /\ ~GaveUp(stable)
<1>1. p \in live /\ live' = {} /\ proc' = Null
  BY DEF HandleExit, ForgetProcess, SerialInv, Alone
<1>2. signalled' = {}
  BY <1>1 DEF HandleExit, Safe, ProcessIsLive, SerialInv, Alone
<1>3. status \in {"online", "stopping"}
  BY <1>1 DEF SerialInv, Alone
<1>4. timers = {}
  BY <1>3 DEF SerialInv, TimerKnown
<1>5. /\ status' = "waiting-restart" => willRestart
      /\ status' \in {"waiting-restart", "errored", "stopped"}
      /\ willRestart => status' = "waiting-restart" /\ timers' = timers \cup {p}
                        /\ restartTimer' = p
      /\ ~willRestart => UNCHANGED <<timers, restartTimer>>
  BY DEF HandleExit, ArmRestart
<1>6. willRestart => status = "online"
  BY DEF Supervised
<1>7. ASSUME NEW c \in Calls
      PROVE  /\ stage[c] # "launch" /\ stage'[c] # "launch"
             /\ stage'[c] \in StopStages => stage[c] \in StopStages
  <2>1. stage[c] # "launch"
    BY <1>1 DEF SerialInv, Alone
  <2>2. stage'[c] = IF stage[c] \in {"race", "reap"} /\ waitsOn[c] = p THEN "exited"
                    ELSE stage[c]
    BY DEF HandleExit
  <2> QED BY <2>1, <2>2 DEF StopStages
<1>8. UNCHANGED <<op, intent>>
  BY DEF HandleExit
<1> HIDE DEF willRestart
<1>9. Alone'
  BY <1>1 DEF Alone
<1>10. StagesAgree'
  BY <1>3, <1>5, <1>6, <1>7 DEF StagesAgree, SerialInv, Running
<1>11. TimerKnown'
  BY <1>4, <1>5 DEF TimerKnown
<1>12. WantedUp'
  BY <1>5, <1>6, <1>7, <1>8 DEF WantedUp, SerialInv, Running
<1>13. KillIsOurs' /\ Remembered'
  BY <1>1, <1>2, <1>7 DEF KillIsOurs, Remembered
<1> QED BY <1>9, <1>10, <1>11, <1>12, <1>13 DEF SerialInv

(* Every step of the regime keeps the container in order.                   *)
LEMMA SerialStep ==
    ASSUME OneAtATime PROVE Typed /\ Safe /\ SerialInv /\ [Next]_vars => SerialInv'
<1> SUFFICES ASSUME Typed, Safe, SerialInv, [Next]_vars PROVE SerialInv'
  OBVIOUS
<1>a. ASSUME NEW c \in Calls, NEW d \in Calls PROVE d = c
  BY DEF OneAtATime
<1>1. ASSUME NEW c \in Calls, NEW supervise \in BOOLEAN, CallStart(c, supervise)
      PROVE SerialInv'
  <2>1. /\ status \notin Running /\ status' = "launching" /\ stage'[c] = "launch"
        /\ stage[c] = "idle" /\ op'[c] = "start" /\ intent' = "up"
        /\ UNCHANGED <<proc, live, signalled, timers, restartTimer, stopInitiated>>
    BY <1>1 DEF CallStart, Typed, osVars, handles
  <2>2. status # "stopping"
    BY <1>a, <2>1 DEF Safe, TransitionHasOwner
  <2>3. live = {} /\ timers = {}
    BY <2>1, <2>2 DEF SerialInv, Alone, TimerKnown, Running
  <2>4. signalled = {}
    BY <2>3 DEF Safe, ProcessIsLive
  <2> QED BY <1>a, <2>1, <2>3, <2>4
          DEF SerialInv, Alone, StagesAgree, TimerKnown, WantedUp, KillIsOurs, Remembered,
              StopStages
<1>2. ASSUME NEW c \in Calls, NEW o \in {"stop", "kill"}, CallStop(c, o) PROVE SerialInv'
  <2>1. stage[c] = "idle" /\ op'[c] = o /\ UNCHANGED <<live, doomed>>
    BY <1>2 DEF CallStop, Typed
  <2>2. CASE StopHead(c, o)
    BY <2>1, <2>2, StopHeadSerial
  <2>3. CASE ~StopHead(c, o)
    <3>1. /\ status \notin Running
          /\ UNCHANGED <<status, proc, live, signalled, timers, restartTimer, stopInitiated,
                         autorestart, stage, wasAutoRestart>>
      BY <1>2, <2>3 DEF CallStop
    <3> QED BY <1>a, <2>1, <3>1
            DEF SerialInv, Alone, StagesAgree, TimerKnown, WantedUp, KillIsOurs, Remembered,
                StopStages
  <2> QED BY <2>2, <2>3
<1>3. ASSUME NEW c \in Calls, CallRestart(c) PROVE SerialInv'
  BY <1>3, RestartHeadSerial DEF CallRestart
<1>b. ASSUME Revive PROVE intent' # "down"
  BY <1>b DEF Revive
<1>4. ASSUME NEW c \in Calls, NEW g \in Children, FireRestartTimer(g, c) PROVE SerialInv'
  <2>1. status = "waiting-restart" /\ timers' = {}
    BY <1>4 DEF FireRestartTimer, SerialInv, TimerKnown
  <2>2. live = {} /\ intent # "down"
    BY <2>1 DEF SerialInv, Alone, WantedUp, Running
  <2>3. /\ status' = "launching" /\ stage'[c] = "launch" /\ op'[c] = "start"
        /\ UNCHANGED <<proc, live, signalled, intent, stopInitiated>>
    BY <1>4, <2>1 DEF FireRestartTimer, Typed, osVars
  <2>4. signalled = {}
    BY <2>2 DEF Safe, ProcessIsLive
  <2> QED BY <1>a, <2>1, <2>2, <2>3, <2>4
          DEF SerialInv, Alone, StagesAgree, TimerKnown, WantedUp, KillIsOurs, Remembered,
              StopStages
<1>5. ASSUME NEW c \in Calls, NEW g \in Children, FireDebounce(g, c) PROVE SerialInv'
  BY <1>5, <1>b, RestartHeadSerial DEF FireDebounce
<1>6. ASSUME NEW c \in Calls, NEW k \in {"health", "memory"}, FireCheck(k, c) PROVE SerialInv'
  BY <1>6, <1>b, RestartHeadSerial DEF FireCheck
<1>7. ASSUME NEW c \in Calls, FireCron(c) PROVE SerialInv'
  BY <1>7, <1>b, RestartHeadSerial DEF FireCron
<1>8. ASSUME NEW c \in Calls, NEW p \in Children, Spawn(c, p) PROVE SerialInv'
  <2>1. /\ live = {} /\ status = "launching"
    BY <1>8 DEF Spawn, SerialInv, Alone, StagesAgree
  <2>2. timers = {} /\ intent # "down" /\ signalled = {}
    BY <2>1 DEF SerialInv, TimerKnown, WantedUp, Running, Safe, ProcessIsLive
  <2>3. /\ live' = {p} /\ proc' = p /\ status' = "online" /\ stage'[c] = "pidfile"
        /\ UNCHANGED <<signalled, timers, restartTimer, intent>>
    BY <1>8, <2>1 DEF Spawn, Typed, handles
  <2> QED BY <1>a, <2>2, <2>3
          DEF SerialInv, Alone, StagesAgree, TimerKnown, WantedUp, KillIsOurs, Remembered,
              StopStages
<1>9. ASSUME NEW c \in Calls, PidWritten(c) PROVE SerialInv'
  <2>1. /\ stage'[c] = "idle"
        /\ UNCHANGED <<proc, live, status, signalled, timers, restartTimer, intent,
                       stopInitiated>>
    BY <1>9 DEF PidWritten, Typed, osVars
  <2> QED BY <1>a, <2>1
          DEF SerialInv, Alone, StagesAgree, TimerKnown, WantedUp, KillIsOurs, Remembered,
              StopStages
<1>10. ASSUME NEW c \in Calls, NEW f \in {"spawn", "pidfile"}, StartFails(c, f)
       PROVE SerialInv'
  <2>1. stage[c] = "launch"
    BY <1>10 DEF StartFails, OneAtATime
  <2>2. live = {} /\ status = "launching"
    BY <2>1 DEF SerialInv, Alone, StagesAgree
  <2>3. timers = {} /\ signalled = {}
    BY <2>2 DEF SerialInv, TimerKnown, Safe, ProcessIsLive
  <2>4. /\ status' = "errored" /\ stage'[c] = "idle"
        /\ UNCHANGED <<proc, live, signalled, timers, restartTimer>>
    BY <1>10 DEF StartFails, StatusAfterFailure, Typed, handles, osVars
  <2> QED BY <1>a, <2>2, <2>3, <2>4
          DEF SerialInv, Alone, StagesAgree, TimerKnown, WantedUp, KillIsOurs, Remembered,
              StopStages, Running
<1>11. ASSUME NEW c \in Calls, TermSent(c) PROVE SerialInv'
  <2>1. /\ UNCHANGED <<live, restartTimer, timers, op, wasAutoRestart, stopInitiated, intent>>
        /\ stage[c] = "term" /\ signalled' \subseteq live'
    BY <1>11 DEF TermSent, StopEnds, handles, Safe, ProcessIsLive
  <2>2. CASE StopEnds(c) /\ proc = Null
    BY <2>1, <2>2, StopEndsSerial DEF StopStages
  <2>3. CASE ~(StopEnds(c) /\ proc = Null)
    <3>1. UNCHANGED <<status, proc>>
      BY <1>11, <2>3 DEF TermSent
    <3>2. PICK s \in {"race", "kill"} : stage' = [stage EXCEPT ![c] = s]
      BY <1>11, <2>3 DEF TermSent
    <3> QED BY <2>1, <3>1, <3>2, WaitingSerial
  <2> QED BY <2>2, <2>3
<1>12. ASSUME NEW c \in Calls, KillTimeout(c) PROVE SerialInv'
  <2>1. /\ UNCHANGED <<live, restartTimer, timers, op, wasAutoRestart, stopInitiated, intent>>
        /\ stage[c] = "race" /\ signalled' \subseteq live'
    BY <1>12 DEF KillTimeout, StopEnds, handles, Safe, ProcessIsLive
  <2>2. CASE StopEnds(c) /\ proc = Null
    BY <2>1, <2>2, StopEndsSerial DEF StopStages
  <2>3. CASE ~(StopEnds(c) /\ proc = Null)
    <3>1. UNCHANGED <<status, proc>> /\ stage' = [stage EXCEPT ![c] = "kill"]
      BY <1>12, <2>3 DEF KillTimeout
    <3> QED BY <2>1, <3>1, WaitingSerial
  <2> QED BY <2>2, <2>3
<1>13. ASSUME NEW c \in Calls, KillSent(c) PROVE SerialInv'
  <2>1. /\ UNCHANGED <<live, restartTimer, timers, op, wasAutoRestart, stopInitiated, intent>>
        /\ stage[c] = "kill" /\ signalled' \subseteq live'
    BY <1>13 DEF KillSent, osVars, handles, Safe, ProcessIsLive
  <2>2. CASE StopEnds(c) /\ proc = Null
    BY <2>1, <2>2, StopEndsSerial DEF StopStages
  <2>3. CASE ~(StopEnds(c) /\ proc = Null)
    <3>1. UNCHANGED <<status, proc>> /\ stage' = [stage EXCEPT ![c] = "reap"]
      BY <1>13, <2>3 DEF KillSent
    <3> QED BY <2>1, <3>1, WaitingSerial
  <2> QED BY <2>2, <2>3
<1>14. ASSUME NEW c \in Calls, ExitAwaited(c) PROVE SerialInv'
  <2>1. /\ stage[c] = "exited" /\ StopEnds(c) /\ signalled' \subseteq live'
        /\ UNCHANGED <<live, timers, op, wasAutoRestart, intent>>
    BY <1>14 DEF ExitAwaited, osVars, handles, Safe, ProcessIsLive
  <2> QED BY <2>1, StopEndsSerial DEF StopStages
<1>15. ASSUME NEW p \in Children, NEW clean \in BOOLEAN, NEW stable \in BOOLEAN,
              HandleExit(p, clean, stable)
       PROVE SerialInv'
  BY <1>15, ExitSerial
<1>16. ASSUME FileChanged PROVE SerialInv'
  BY <1>16 DEF FileChanged, fields, callVars, osVars, SerialInv, Alone, StagesAgree,
               TimerKnown, WantedUp, KillIsOurs, Remembered
<1>17. ASSUME NEW k \in {"health", "memory"}, BeginCheck(k) PROVE SerialInv'
  BY <1>17 DEF BeginCheck, fields, callVars, osVars, SerialInv, Alone, StagesAgree,
               TimerKnown, WantedUp, KillIsOurs, Remembered
<1>18. CASE UNCHANGED vars
  BY <1>18 DEF vars, fields, handles, callVars, osVars, history, SerialInv, Alone,
               StagesAgree, TimerKnown, WantedUp, KillIsOurs, Remembered
<1> QED
  BY <1>1, <1>2, <1>3, <1>4, <1>5, <1>6, <1>7, <1>8, <1>9, <1>10, <1>11, <1>12,
     <1>13, <1>14, <1>15, <1>16, <1>17, <1>18
     DEF Next, Operator, Autonomous, Progress, Environment

(* So it is in order in every reachable state.                              *)
LEMMA SerialAlways == ASSUME OneAtATime PROVE Spec => []SerialInv
<1>1. Init => SerialInv
  BY DEF Init, SerialInv, Alone, StagesAgree, TimerKnown, WantedUp, KillIsOurs, Remembered,
         StopStages, Running
<1>2. Typed /\ Safe /\ SerialInv /\ [Next]_vars => SerialInv'
  BY SerialStep
<1> QED BY <1>1, <1>2, TypingAlways, SafeAlways, PTL DEF Spec

(* One call at a time, no child ever runs that stop() could not reach:       *)
(* whichever exits, timers, changes and checks come between its awaits.      *)
THEOREM ChildAlwaysSupervised == ASSUME OneAtATime PROVE Spec => []EveryChildSupervised
<1>1. SerialInv => EveryChildSupervised
  BY DEF SerialInv, Alone, EveryChildSupervised
<1> QED BY <1>1, SerialAlways, PTL

(* A step in which a child appears is a spawn.                              *)
LEMMA OnlySpawnsAdd ==
    ASSUME [Next]_vars, live' \ live # {}
    PROVE  \E c \in Calls, p \in Children : Spawn(c, p)
<1> SUFFICES ASSUME ~\E c \in Calls, p \in Children : Spawn(c, p) PROVE live' \subseteq live
  OBVIOUS
<1>1. ASSUME NEW c \in Calls, Operator(c) \/ Autonomous(c) PROVE live' \subseteq live
  BY <1>1 DEF Operator, Autonomous, CallStart, CallStop, CallRestart, RestartHead,
              FireRestartTimer, FireDebounce, FireCheck, FireCron, osVars
<1>2. ASSUME NEW c \in Calls, Progress(c) PROVE live' \subseteq live
  BY <1>2 DEF Progress, PidWritten, StartFails, TermSent, KillTimeout, KillSent, ExitAwaited,
              osVars
<1>3. ASSUME Environment PROVE live' \subseteq live
  BY <1>3 DEF Environment, HandleExit, FileChanged, BeginCheck, osVars
<1>4. CASE UNCHANGED vars
  BY <1>4 DEF vars, osVars
<1> QED BY <1>1, <1>2, <1>3, <1>4 DEF Next

(* The crash-restart timer never brings back what the operator stopped.     *)
THEOREM CrashRestartAlwaysObeys == ASSUME OneAtATime PROVE Spec => CrashRestartObeysStop
<1>1. ASSUME SerialInv, [Next]_vars, live' \ live # {} PROVE intent # "down"
  <2>1. PICK c \in Calls, p \in Children : Spawn(c, p)
    BY <1>1, OnlySpawnsAdd
  <2> QED BY <1>1, <2>1 DEF Spawn, SerialInv, StagesAgree, WantedUp, Running
<1>2. SerialInv /\ [Next]_vars => [live' \ live # {} => intent # "down"]_vars
  BY <1>1
<1> QED BY <1>2, SerialAlways, PTL DEF Spec, CrashRestartObeysStop

(* A restart spawns when the old child is gone, and gives supervision back. *)
THEOREM RestartAlwaysReplaces == ASSUME OneAtATime PROVE Spec => RestartReplaces
<1> DEFINE Replaces == \A c \in Calls : op[c] = "restart" /\ stage[c] = "launch"
                       /\ stage'[c] = "pidfile" => live = {} /\ autorestart = wasAutoRestart[c]
<1>1. SerialInv => Replaces
  BY DEF SerialInv, Alone, Remembered
<1>2. SerialInv /\ [Next]_vars => [Replaces]_vars
  BY <1>1
<1> QED BY <1>2, SerialAlways, PTL DEF Spec, RestartReplaces

(* The exit of a child that pboss signalled is no crash and not final.      *)
THEOREM OwnKillNeverCrash == ASSUME OneAtATime PROVE Spec => OwnKillIsNoCrash
<1> DEFINE Quietly == (live \ live') \cap signalled # {}
                      => {"crashed", "finalExit"} \cap events' = {}
<1>1. ASSUME NEW p \in Children, NEW clean \in BOOLEAN, NEW stable \in BOOLEAN, SerialInv,
             HandleExit(p, clean, stable)
      PROVE  Quietly
  <2>1. CASE signalled # {}
    BY <1>1, <2>1 DEF SerialInv, KillIsOurs, HandleExit, ExitEvents
  <2>2. CASE signalled = {}
    BY <2>2
  <2> QED BY <2>1, <2>2
<1>2. ASSUME [Next]_vars, ~\E p \in Children, clean, stable \in BOOLEAN :
                               HandleExit(p, clean, stable)
      PROVE  live \subseteq live'
  <2>1. ASSUME NEW c \in Calls, Operator(c) \/ Autonomous(c) PROVE live \subseteq live'
    BY <2>1 DEF Operator, Autonomous, CallStart, CallStop, CallRestart, RestartHead,
                FireRestartTimer, FireDebounce, FireCheck, FireCron, osVars
  <2>2. ASSUME NEW c \in Calls, Progress(c) PROVE live \subseteq live'
    BY <2>2 DEF Progress, Spawn, PidWritten, StartFails, TermSent, KillTimeout, KillSent,
                ExitAwaited, osVars
  <2>3. ASSUME Environment PROVE live \subseteq live'
    BY <1>2, <2>3 DEF Environment, FileChanged, BeginCheck, osVars
  <2>4. CASE UNCHANGED vars
    BY <2>4 DEF vars, osVars
  <2> QED BY <1>2, <2>1, <2>2, <2>3, <2>4 DEF Next
<1>3. SerialInv /\ [Next]_vars => Quietly
  BY <1>1, <1>2
<1>4. SerialInv /\ [Next]_vars => [Quietly]_vars
  BY <1>3
<1> QED BY <1>4, SerialAlways, PTL DEF Spec, OwnKillIsNoCrash
=============================================================================
