---------------------------- MODULE NamespaceOps ----------------------------
(***************************************************************************)
(* The lifecycle operations of the process manager on namespaces           *)
(* (src/src/process-manager.ts): one lock per namespace, built from a      *)
(* chain of promises; atomic starts that first bring up the dependencies   *)
(* (src/src/dependencies.ts) and roll back what they started; best-effort  *)
(* stops; restarts; and the member-exit policy.                            *)
(*                                                                         *)
(* An invocation runs from await to await.  A container is seen from its   *)
(* manager: start() is in flight from its head to its outcome, stop() from *)
(* its head to the exit of the child.  What happens when a start() meets a *)
(* start() or stop() still in flight on the same container is the subject  *)
(* of ProcessContainer; here such a start waits (Untangled).               *)
(***************************************************************************)
EXTENDS Naturals, Sequences

CONSTANTS
    Procs,       \* containers of the fleet
    Namespaces,
    Members,     \* the containers of a namespace, in the order of the processes map
    Deps,        \* the required dependencies of a container
    Leaving,     \* containers with onNsMemberExit: "exit"
    Crashing,    \* containers whose child may exit on its own
    Failing,     \* containers whose start() may throw
    Invs,        \* slots for operations in flight
    Verbs,       \* group operations that are requested
    SingleVerbs, \* operations requested by process name, which take no lock
    None

ASSUME NamespaceAssumption ==
    /\ Members \in [Namespaces -> Seq(Procs)]
    /\ Deps \in [Procs -> SUBSET Procs]
    /\ Leaving \subseteq Procs /\ Crashing \subseteq Procs /\ Failing \subseteq Procs
    /\ Verbs \subseteq {"start", "stop", "restart"}
    /\ SingleVerbs \subseteq {"start", "stop"}
    /\ None \notin Namespaces \cup Invs

Running == {"online", "launching", "waiting-restart"}

VARIABLES
    (* the containers *)
    status, autorestart,
    handle,      \* containers with a process
    timer,       \* crash restart: "none", "armed" or "launching"
    policyStops, \* containers whose policy stop awaits the exit
    (* the promise chain of each namespace *)
    tail,        \* nsLocks: whose gate is the entry of the namespace, or None
    prev,        \* whose gate an invocation awaits, or None
    (* the invocations *)
    phase, verb, lockOf,
    group,       \* the containers the target resolved to
    left,        \* what remains of the running loop
    todo,        \* dependencies of Head(left) not yet satisfied
    awaits,      \* containers whose start() or stop() is awaited
    started,     \* startedByInvocation
    failed, intent,
    lateStarts,  \* <<o, c>>: a start() of o that nobody awaits any more
    (* history *)
    queue,       \* the requests of each namespace not yet finished, in order
    steady,      \* containers that ran when the invocation began, ever since
    broughtUp    \* containers that run because the invocation started them

containerVars == <<status, autorestart, handle, timer, policyStops>>
lockVars == <<tail, prev, queue>>
invVars == <<phase, verb, lockOf, group, left, todo, awaits, started, failed,
             intent, lateStarts>>
history == <<steady, broughtUp>>
vars == <<containerVars, lockVars, invVars, history>>

Init ==
    /\ status = [c \in Procs |-> "stopped"]
    /\ autorestart = [c \in Procs |-> TRUE]
    /\ handle = {} /\ policyStops = {}
    /\ timer = [c \in Procs |-> "none"]
    /\ tail = [n \in Namespaces |-> None]
    /\ prev = [o \in Invs |-> None]
    /\ queue = [n \in Namespaces |-> <<>>]
    /\ phase = [o \in Invs |-> "idle"]
    /\ verb = [o \in Invs |-> "stop"]
    /\ lockOf = [o \in Invs |-> None]
    /\ group = [o \in Invs |-> <<>>]
    /\ left = [o \in Invs |-> <<>>]
    /\ todo = [o \in Invs |-> {}]
    /\ awaits = [o \in Invs |-> {}]
    /\ started = [o \in Invs |-> <<>>]
    /\ failed = [o \in Invs |-> FALSE]
    /\ intent = [o \in Invs |-> [c \in Procs |-> TRUE]]
    /\ lateStarts = {}
    /\ steady = [o \in Invs |-> {}]
    /\ broughtUp = [o \in Invs |-> {}]

-----------------------------------------------------------------------------
(* Dependencies *)

(* c's dependencies, direct and transitive: what every closed set has.      *)
Needs(c) ==
    {d \in Procs : \A S \in SUBSET Procs :
                      Deps[c] \cup UNION {Deps[e] : e \in S} \subseteq S => d \in S}

(* The next topological level: what depends on nothing that is left.        *)
Level(rest) == {d \in rest : Deps[d] \cap rest = {}}

(* The containers whose start() the invocation calls next: the dependencies *)
(* of a level that do not run, or the member, for which start() itself only *)
(* returns early when it is online.                                         *)
NextStarts(o) ==
    IF todo[o] = {} THEN {Head(left[o])} \ {c \in Procs : status[c] = "online"}
                    ELSE {d \in Level(todo[o]) : status[d] \notin Running}

Untangled(c) ==
    /\ c \notin policyStops /\ timer[c] # "launching"
    /\ \A o \in Invs : c \notin awaits[o] /\ <<o, c>> \notin lateStarts

-----------------------------------------------------------------------------
(* Turns of the event loop *)

(* An invocation whose last await has resolved: it goes on before anything  *)
(* else is served.                                                          *)
Ready(o) ==
    /\ phase[o] # "idle" /\ awaits[o] = {}
    /\ phase[o] = "queued" => prev[o] = None
    /\ phase[o] = "deps" => \A c \in NextStarts(o) : Untangled(c)

Quiet == \A o \in Invs : ~Ready(o)

(* The synchronous part of stop() on the containers S, given the statuses   *)
(* st: a container with a process awaits its exit, one without is stopped   *)
(* at once, one that does not run is left alone.                            *)
StoppingAnyway(c) == "stopping"
DownStatus(c) == IF c \in handle THEN "stopping" ELSE "stopped"

StopHeads(S, st) ==
    LET hit == {c \in S : st[c] \in Running} IN
    /\ status' = [c \in Procs |-> IF c \notin hit THEN st[c] ELSE DownStatus(c)]
    /\ autorestart' = [c \in Procs |-> autorestart[c] /\ c \notin hit]
    /\ timer' = [c \in Procs |-> IF c \in hit /\ timer[c] = "armed" THEN "none"
                                 ELSE timer[c]]

(* Of S, the containers whose stop() then awaits the exit. *)
Awaited(S) == {c \in S : status[c] \in Running /\ c \in handle}

(* A container that goes down is no longer steady, nor up because of anyone. *)
StillUp(S) == {c \in S : status'[c] \in Running}
WentDown ==
    /\ steady' = [o \in Invs |-> StillUp(steady[o])]
    /\ broughtUp' = [o \in Invs |-> StillUp(broughtUp[o])]

-----------------------------------------------------------------------------
(* The lock *)

Enter(o, n, v, members) ==
    /\ phase[o] = "idle" /\ members # <<>>
    /\ \A c \in Procs : <<o, c>> \notin lateStarts
    /\ phase' = [phase EXCEPT ![o] = "queued"]
    /\ verb' = [verb EXCEPT ![o] = v]
    /\ lockOf' = [lockOf EXCEPT ![o] = n]
    /\ group' = [group EXCEPT ![o] = members]
    /\ left' = [left EXCEPT ![o] = members]
    /\ UNCHANGED <<containerVars, todo, awaits, started, failed, intent, lateStarts,
                   history>>

(* The target is resolved to its members before the lock is awaited; the    *)
(* gate of the new invocation becomes the entry of the namespace.           *)
Request(o, n, v) ==
    /\ Quiet /\ v \in Verbs
    /\ Enter(o, n, v, Members[n])
    /\ prev' = [prev EXCEPT ![o] = tail[n]]
    /\ tail' = [tail EXCEPT ![n] = o]
    /\ queue' = [queue EXCEPT ![n] = Append(@, o)]

(* start and stop by process name take no lock. *)
RequestOne(o, c, v) ==
    /\ Quiet /\ v \in SingleVerbs
    /\ Enter(o, None, v, <<c>>)
    /\ UNCHANGED lockVars

Acquire(o) ==
    /\ phase[o] = "queued" /\ prev[o] = None
    /\ phase' = [phase EXCEPT ![o] = IF verb[o] = "start" THEN "start" ELSE "stop"]
    /\ steady' = [steady EXCEPT ![o] = {c \in Procs : status[c] \in Running}]
    /\ UNCHANGED <<containerVars, lockVars, verb, lockOf, group, left, todo, awaits,
                   started, failed, intent, lateStarts, broughtUp>>

(* The entry goes when it is still the gate of o; whoever awaits it goes on. *)
DropEntryAlways(o, n) == [tail EXCEPT ![n] = None]
DropEntry(o, n) == IF tail[n] = o THEN [tail EXCEPT ![n] = None] ELSE tail

(* finally: the gate is opened, whether the operation succeeded or not. *)
Release(o) ==
    LET n == lockOf[o] IN
    IF n = None THEN UNCHANGED lockVars
    ELSE /\ tail' = DropEntry(o, n)
         /\ prev' = [q \in Invs |-> IF prev[q] = o THEN None ELSE prev[q]]
         /\ queue' = [queue EXCEPT ![n] = Tail(@)]

ReleaseOnSuccess(o) == IF failed[o] THEN UNCHANGED lockVars ELSE Release(o)
Unlock(o) == Release(o)

(* Its locals go with an invocation. *)
ResetFailure(o) == [failed EXCEPT ![o] = FALSE]

Forget(o) ==
    /\ verb' = [verb EXCEPT ![o] = "stop"]
    /\ lockOf' = [lockOf EXCEPT ![o] = None]
    /\ group' = [group EXCEPT ![o] = <<>>]
    /\ started' = [started EXCEPT ![o] = <<>>]
    /\ failed' = ResetFailure(o)
    /\ intent' = [intent EXCEPT ![o] = [c \in Procs |-> TRUE]]
    /\ steady' = [steady EXCEPT ![o] = {}]
    /\ broughtUp' = [broughtUp EXCEPT ![o] = {}]

Finish(o) ==
    /\ phase[o] \in {"stop", "start", "rollback"}
    /\ awaits[o] = {} /\ left[o] = <<>>
    /\ phase[o] = "stop" => verb[o] = "stop"
    /\ phase' = [phase EXCEPT ![o] = "idle"]
    /\ Unlock(o)
    /\ Forget(o)
    /\ UNCHANGED <<containerVars, left, todo, awaits, lateStarts>>

-----------------------------------------------------------------------------
(* The loops *)

(* One stop() of a stop loop.  A restart remembers the supervision each     *)
(* member has when its turn comes.                                          *)
StopNext(o) ==
    /\ phase[o] = "stop" /\ awaits[o] = {} /\ left[o] # <<>>
    /\ LET c == Head(left[o]) IN
       /\ StopHeads({c}, status)
       /\ awaits' = [awaits EXCEPT ![o] = Awaited({c})]
       /\ intent' = [intent EXCEPT ![o][c] = autorestart[c]]
    /\ left' = [left EXCEPT ![o] = Tail(@)]
    /\ WentDown
    /\ UNCHANGED <<handle, policyStops, lockVars, phase, verb, lockOf, group, todo,
                   started, failed, lateStarts>>

(* The start phase of a restart. *)
StopsDone(o) ==
    /\ phase[o] = "stop" /\ awaits[o] = {} /\ left[o] = <<>> /\ verb[o] = "restart"
    /\ phase' = [phase EXCEPT ![o] = "start"]
    /\ left' = [left EXCEPT ![o] = group[o]]
    /\ UNCHANGED <<containerVars, lockVars, verb, lockOf, group, todo, awaits, started,
                   failed, intent, lateStarts, history>>

(* A member that runs is skipped; for any other the dependencies come first. *)
StartNext(o) ==
    /\ phase[o] = "start" /\ left[o] # <<>>
    /\ LET c == Head(left[o]) IN
       IF status[c] \in Running
       THEN /\ left' = [left EXCEPT ![o] = Tail(@)]
            /\ UNCHANGED <<autorestart, phase, todo>>
       ELSE /\ phase' = [phase EXCEPT ![o] = "deps"]
            /\ todo' = [todo EXCEPT ![o] = Needs(c)]
            /\ autorestart' = IF lockOf[o] = None THEN [autorestart EXCEPT ![c] = TRUE]
                                                  ELSE autorestart
            /\ UNCHANGED left
    /\ UNCHANGED <<status, handle, timer, policyStops, lockVars, verb, lockOf, group,
                   awaits, started, failed, intent, lateStarts, history>>

(* The dependencies of one level are started together; the ones that run    *)
(* are satisfied.                                                           *)
DepsNext(o) ==
    /\ Ready(o) /\ phase[o] = "deps" /\ todo[o] # {}
    /\ awaits' = [awaits EXCEPT ![o] = NextStarts(o)]
    /\ status' = [c \in Procs |-> IF c \in NextStarts(o) THEN "launching" ELSE status[c]]
    /\ todo' = [todo EXCEPT ![o] = @ \ Level(@)]
    /\ UNCHANGED <<autorestart, handle, timer, policyStops, lockVars, phase, verb,
                   lockOf, group, left, started, failed, intent, lateStarts, history>>

Record(o, c) == IF \E i \in 1..Len(started[o]) : started[o][i] = c
                THEN started[o] ELSE Append(started[o], c)

(* The member's own start().  A member that came online while its           *)
(* dependencies were awaited is recorded all the same: start() is a no-op.  *)
MemberNext(o) ==
    /\ Ready(o) /\ phase[o] = "deps" /\ todo[o] = {}
    /\ LET c == Head(left[o]) IN
       /\ autorestart' = [autorestart EXCEPT ![c] =
                              IF lockOf[o] = None THEN @
                              ELSE IF verb[o] = "restart" THEN intent[o][c] ELSE TRUE]
       /\ IF status[c] = "online"
          THEN /\ phase' = [phase EXCEPT ![o] = "start"]
               /\ left' = [left EXCEPT ![o] = Tail(@)]
               /\ started' = [started EXCEPT ![o] = Record(o, c)]
               /\ UNCHANGED <<status, awaits>>
          ELSE /\ Untangled(c)
               /\ status' = [status EXCEPT ![c] = "launching"]
               /\ phase' = [phase EXCEPT ![o] = "member"]
               /\ awaits' = [awaits EXCEPT ![o] = {c}]
               /\ UNCHANGED <<left, started>>
    /\ UNCHANGED <<handle, timer, policyStops, lockVars, verb, lockOf, group, todo,
                   failed, intent, lateStarts, history>>

RollbackNext(o) ==
    /\ phase[o] = "rollback" /\ awaits[o] = {} /\ left[o] # <<>>
    /\ LET c == Head(left[o]) IN
       /\ StopHeads({c}, status)
       /\ awaits' = [awaits EXCEPT ![o] = Awaited({c})]
    /\ left' = [left EXCEPT ![o] = Tail(@)]
    /\ WentDown
    /\ UNCHANGED <<handle, policyStops, lockVars, phase, verb, lockOf, group, todo,
                   started, failed, intent, lateStarts>>

-----------------------------------------------------------------------------
(* Outcomes *)

Online(c) == status' = [status EXCEPT ![c] = "online"] /\ handle' = handle \cup {c}
Errored(c) == c \in Failing /\ status' = [status EXCEPT ![c] = "errored"] /\ UNCHANGED handle

RecordedMember(o, c) ==
    started' = IF phase[o] = "deps" THEN started
                                    ELSE [started EXCEPT ![o] = Record(o, c)]
Recorded(o, c) == started' = [started EXCEPT ![o] = Record(o, c)]

StartSucceeds(o, c) ==
    /\ Quiet /\ phase[o] \in {"deps", "member"} /\ c \in awaits[o]
    /\ Online(c)
    /\ Recorded(o, c)
    /\ awaits' = [awaits EXCEPT ![o] = @ \ {c}]
    /\ IF phase[o] = "member"
       THEN /\ phase' = [phase EXCEPT ![o] = "start"]
            /\ left' = [left EXCEPT ![o] = Tail(@)]
       ELSE UNCHANGED <<phase, left>>
    /\ broughtUp' = [broughtUp EXCEPT ![o] = @ \cup {c}]
    /\ UNCHANGED <<autorestart, timer, policyStops, lockVars, verb, lockOf, group,
                   todo, failed, intent, lateStarts, steady>>

RollbackOrder(o) == [i \in 1..Len(started[o]) |-> started[o][Len(started[o]) + 1 - i]]
RollbackEverything(o) == group[o] \o RollbackOrder(o)
RollbackScope(o) == RollbackOrder(o)

(* The first failure ends the invocation: what it recorded is rolled back,  *)
(* newest first.  Promise.all has rejected, so other starts of the same     *)
(* level run on with nobody waiting for them.                               *)
StartFails(o, c) ==
    /\ Quiet /\ phase[o] \in {"deps", "member"} /\ c \in awaits[o]
    /\ Errored(c)
    /\ phase' = [phase EXCEPT ![o] = "rollback"]
    /\ left' = [left EXCEPT ![o] = RollbackScope(o)]
    /\ failed' = [failed EXCEPT ![o] = TRUE]
    /\ lateStarts' = lateStarts \cup ({o} \X (awaits[o] \ {c}))
    /\ awaits' = [awaits EXCEPT ![o] = {}]
    /\ todo' = [todo EXCEPT ![o] = {}]
    /\ WentDown
    /\ UNCHANGED <<autorestart, timer, policyStops, lockVars, verb, lockOf, group,
                   started, intent>>

LateStart(o, c) ==
    /\ Quiet /\ <<o, c>> \in lateStarts
    /\ lateStarts' = lateStarts \ {<<o, c>>}
    /\ Online(c) \/ Errored(c)
    /\ WentDown
    /\ UNCHANGED <<autorestart, timer, policyStops, lockVars, phase, verb, lockOf,
                   group, left, todo, awaits, started, failed, intent>>

Stopped(c) ==
    /\ Quiet
    /\ status' = [status EXCEPT ![c] = "stopped"]
    /\ handle' = handle \ {c}
    /\ WentDown
    /\ UNCHANGED <<autorestart, timer, lockVars, phase, verb, lockOf, group, left, todo,
                   started, failed, intent, lateStarts>>

(* The child exits and the stop() of invocation o ends. *)
StopEnds(o, c) ==
    /\ phase[o] \in {"stop", "rollback"} /\ c \in awaits[o]
    /\ Stopped(c)
    /\ awaits' = [awaits EXCEPT ![o] = @ \ {c}]
    /\ UNCHANGED policyStops

PolicyStopEnds(c) ==
    /\ c \in policyStops
    /\ Stopped(c)
    /\ policyStops' = policyStops \ {c}
    /\ UNCHANGED awaits

(* The siblings that follow member c when it leaves for good. *)
InNs(c, n) == \E i \in 1..Len(Members[n]) : Members[n][i] = c
Followers(c) ==
    {s \in Leaving \ {c} : /\ status[s] \in Running
                          /\ \E n \in Namespaces : InNs(c, n) /\ InNs(s, n)}

(* A child exits on its own.  A supervised container waits for its restart; *)
(* an unsupervised one, or one supervision gives up, has left for good and  *)
(* its followers are stopped.                                               *)
Exit(c, gaveUp) ==
    /\ Quiet /\ c \in Crashing /\ status[c] = "online" /\ c \in handle
    /\ handle' = handle \ {c}
    /\ IF autorestart[c] /\ ~gaveUp
       THEN /\ status' = [status EXCEPT ![c] = "waiting-restart"]
            /\ timer' = [timer EXCEPT ![c] = "armed"]
            /\ UNCHANGED <<autorestart, policyStops, history>>
       ELSE LET down == IF autorestart[c] THEN "errored" ELSE "stopped" IN
            /\ StopHeads(Followers(c), [status EXCEPT ![c] = down])
            /\ policyStops' = policyStops \cup Awaited(Followers(c))
            /\ WentDown
    /\ UNCHANGED <<lockVars, invVars>>

(* The crash-restart timer fires: start() returns early when the container  *)
(* is online, and has an outcome otherwise.                                 *)
FireTimer(c) ==
    /\ Quiet /\ timer[c] = "armed"
    /\ IF status[c] = "online"
       THEN timer' = [timer EXCEPT ![c] = "none"] /\ UNCHANGED status
       ELSE /\ Untangled(c)
            /\ timer' = [timer EXCEPT ![c] = "launching"]
            /\ status' = [status EXCEPT ![c] = "launching"]
    /\ UNCHANGED <<autorestart, handle, policyStops, lockVars, invVars, history>>

TimerStart(c) ==
    /\ Quiet /\ timer[c] = "launching"
    /\ timer' = [timer EXCEPT ![c] = "none"]
    /\ Online(c) \/ Errored(c)
    /\ WentDown
    /\ UNCHANGED <<autorestart, policyStops, lockVars, invVars>>

-----------------------------------------------------------------------------
Turn(o) ==
    \/ Acquire(o) \/ StopNext(o) \/ StopsDone(o) \/ StartNext(o) \/ DepsNext(o)
    \/ MemberNext(o) \/ RollbackNext(o) \/ Finish(o)

Outcome(o) ==
    \E c \in Procs : StartSucceeds(o, c) \/ StartFails(o, c) \/ LateStart(o, c)
                     \/ StopEnds(o, c)

Container(c) ==
    PolicyStopEnds(c) \/ FireTimer(c) \/ TimerStart(c) \/ \E g \in BOOLEAN : Exit(c, g)

Next ==
    \/ \E o \in Invs :
           \/ \E v \in Verbs, n \in Namespaces : Request(o, n, v)
           \/ \E v \in SingleVerbs, c \in Procs : RequestOne(o, c, v)
           \/ Turn(o) \/ Outcome(o)
    \/ \E c \in Procs : Container(c)

Spec == Init /\ [][Next]_vars

-----------------------------------------------------------------------------
Phases == {"idle", "queued", "stop", "start", "deps", "member", "rollback"}

Typed ==
    /\ status \in [Procs -> Running \cup {"stopped", "stopping", "errored"}]
    /\ autorestart \in [Procs -> BOOLEAN]
    /\ handle \subseteq Procs /\ policyStops \subseteq Procs
    /\ timer \in [Procs -> {"none", "armed", "launching"}]
    /\ tail \in [Namespaces -> Invs \cup {None}]
    /\ prev \in [Invs -> Invs \cup {None}]
    /\ queue \in [Namespaces -> Seq(Invs)]
    /\ phase \in [Invs -> Phases]
    /\ verb \in [Invs -> {"start", "stop", "restart"}]
    /\ lockOf \in [Invs -> Namespaces \cup {None}]
    /\ group \in [Invs -> Seq(Procs)] /\ left \in [Invs -> Seq(Procs)]
    /\ todo \in [Invs -> SUBSET Procs] /\ awaits \in [Invs -> SUBSET Procs]
    /\ started \in [Invs -> Seq(Procs)]
    /\ failed = [o \in Invs |-> phase[o] = "rollback"]
    /\ intent \in [Invs -> [Procs -> BOOLEAN]]
    /\ lateStarts \subseteq Invs \X Procs
    /\ steady \in [Invs -> SUBSET Procs] /\ broughtUp \in [Invs -> SUBSET Procs]

StoppingIsAwaited ==
    \A c \in Procs : status[c] = "stopping" =>
        c \in policyStops \/ \E o \in Invs : phase[o] \in {"stop", "rollback"} /\ c \in awaits[o]

(* Every variable has its type, and no container is left "stopping": an      *)
(* operation or a policy stop awaits its exit, which moves it on (another     *)
(* stop() of it would return at once).                                       *)
TypeOK == Typed /\ StoppingIsAwaited

Holds(o, n) == lockOf[o] = n /\ phase[o] \notin {"idle", "queued"}

(* However requests, failures and releases interleave, one operation at a   *)
(* time works on a namespace, and operations run in the order they came.    *)
LockInOrder ==
    \A n \in Namespaces, o \in Invs :
        Holds(o, n) => queue[n] # <<>> /\ o = Head(queue[n])

(* Whoever waits for the lock waits for an operation on the same namespace   *)
(* that has yet to finish, and nobody else waits for that one: a failure     *)
(* never wedges the chain, and no two operations are let in together.        *)
WaiterIsServed ==
    \A q \in Invs : prev[q] # None =>
        LET o == prev[q] IN
        /\ phase[q] = "queued" /\ phase[o] # "idle" /\ lockOf[o] = lockOf[q]
        /\ \A r \in Invs : prev[r] = o => r = q

(* When a failed start has rolled back, nothing that came up because of it   *)
(* still runs: members, and dependencies of any depth or namespace.          *)
RollbackComplete ==
    [][\A o \in Invs : phase[o] = "rollback" /\ phase'[o] = "idle"
           => \A c \in broughtUp[o] : status[c] \notin Running]_vars

(* ... and nothing that it started is still on its way up ("only the         *)
(* containers THIS invocation started - members AND dependency starts - are  *)
(* stopped").                                                                *)
NoStartOutlivesRollback ==
    [][\A o \in Invs : phase[o] = "rollback" /\ phase'[o] = "idle"
           => \A c \in Procs : <<o, c>> \notin lateStarts]_vars

(* A rollback never stops a container that ran when the operation began and *)
(* has run ever since ("members already running are untouched").            *)
RollbackSparesRunning ==
    [][\A o \in Invs : phase[o] = "rollback" /\ left'[o] # left[o] /\ phase'[o] = "rollback"
           => Head(left[o]) \notin steady[o]]_vars

(* A member that a namespace restart brought back is supervised again ("the *)
(* user's pre-restart supervision intent, not the stop mechanism's false"). *)
RestartRestoresSupervision ==
    [][\A o \in Invs : verb[o] = "restart" /\ phase[o] = "member" /\ phase'[o] = "start"
           => autorestart'[Head(left[o])]]_vars
=============================================================================
