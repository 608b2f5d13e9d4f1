------------------------- MODULE NamespaceOpsProofs -------------------------
(***************************************************************************)
(* What holds of NamespaceOps for any fleet, any namespaces and            *)
(* dependencies, and any number of operations in flight.                   *)
(***************************************************************************)
EXTENDS NamespaceOps, SequenceTheorems, TLAPS

USE NamespaceAssumption

-----------------------------------------------------------------------------
(* Types *)

(* The synchronous part of stop() keeps the fields in their types.          *)
LEMMA StopHeadsType ==
    ASSUME NEW st \in [Procs -> Running \cup {"stopped", "stopping", "errored"}],
           Typed, NEW S \in SUBSET Procs, StopHeads(S, st)
    PROVE  /\ status' \in [Procs -> Running \cup {"stopped", "stopping", "errored"}]
           /\ autorestart' \in [Procs -> BOOLEAN]
           /\ timer' \in [Procs -> {"none", "armed", "launching"}]
<1>1. status' \in [Procs -> Running \cup {"stopped", "stopping", "errored"}]
  BY DEF StopHeads, DownStatus, Running
<1>2. autorestart' \in [Procs -> BOOLEAN]
  BY DEF StopHeads, DownStatus, Typed
<1>3. timer' \in [Procs -> {"none", "armed", "launching"}]
  BY DEF StopHeads, DownStatus, Typed
<1> QED BY <1>1, <1>2, <1>3

(* A container that goes down leaves the histories in their types.          *)
LEMMA WentDownType ==
    ASSUME Typed, WentDown
    PROVE  /\ steady' \in [Invs -> SUBSET Procs]
           /\ broughtUp' \in [Invs -> SUBSET Procs]
BY DEF WentDown, StillUp, Typed

(* Recording a container keeps the record a sequence without repetition of  *)
(* the old entries and the new one.                                         *)
LEMMA RecordType ==
    ASSUME Typed, NEW o \in Invs, NEW c \in Procs
    PROVE  /\ Record(o, c) \in Seq(Procs)
           /\ \A i \in 1..Len(Record(o, c)) :
                  \/ Record(o, c)[i] = c
                  \/ \E j \in 1..Len(started[o]) : Record(o, c)[i] = started[o][j]
           /\ \A j \in 1..Len(started[o]) :
                  \E i \in 1..Len(Record(o, c)) : Record(o, c)[i] = started[o][j]
           /\ \E i \in 1..Len(Record(o, c)) : Record(o, c)[i] = c
<1>1. started[o] \in Seq(Procs)
  BY DEF Typed
<1>2. CASE \E i \in 1..Len(started[o]) : started[o][i] = c
  BY <1>1, <1>2 DEF Record
<1>3. CASE ~ \E i \in 1..Len(started[o]) : started[o][i] = c
  <2>1. Record(o, c) = Append(started[o], c)
    BY <1>3 DEF Record
  <2> DEFINE r == Append(started[o], c)
  <2>2. /\ r \in Seq(Procs) /\ Len(r) = Len(started[o]) + 1
        /\ \A i \in 1..Len(started[o]) : r[i] = started[o][i]
        /\ r[Len(started[o]) + 1] = c
    BY <1>1, AppendProperties
  <2>3. Len(started[o]) \in Nat
    BY <1>1, LenProperties
  <2> HIDE DEF r
  <2> QED BY <2>1, <2>2, <2>3 DEF r
<1> QED BY <1>2, <1>3

(* The rollback goes through exactly the recorded containers.               *)
LEMMA RollbackScopeType ==
    ASSUME Typed, NEW o \in Invs
    PROVE  /\ RollbackScope(o) \in Seq(Procs)
           /\ \A i \in 1..Len(RollbackScope(o)) :
                  \E j \in 1..Len(started[o]) : RollbackScope(o)[i] = started[o][j]
           /\ \A j \in 1..Len(started[o]) :
                  \E i \in 1..Len(RollbackScope(o)) : RollbackScope(o)[i] = started[o][j]
<1> DEFINE n == Len(started[o])
<1>1. started[o] \in Seq(Procs) /\ n \in Nat
  BY LenProperties DEF Typed
<1>2. \A i \in 1..n : started[o][i] \in Procs
  BY <1>1, ElementOfSeq
<1>3. \A i \in 1..n : n + 1 - i \in 1..n
  BY <1>1
<1>4. RollbackScope(o) = [i \in 1..n |-> started[o][n + 1 - i]]
  BY DEF RollbackScope, RollbackOrder
<1>5. RollbackScope(o) \in Seq(Procs) /\ Len(RollbackScope(o)) = n
  BY <1>1, <1>2, <1>3, <1>4, IsASeq
<1>6. \A i \in 1..n : RollbackScope(o)[i] = started[o][n + 1 - i]
  BY <1>4
<1>7. ASSUME NEW j \in 1..n
      PROVE  RollbackScope(o)[n + 1 - j] = started[o][j]
  <2>1. n + 1 - j \in 1..n /\ n + 1 - (n + 1 - j) = j
    BY <1>1
  <2> QED BY <1>6, <2>1
<1> QED BY <1>1, <1>3, <1>5, <1>6, <1>7
-----------------------------------------------------------------------------
(* The lock *)

LockType ==
    /\ tail \in [Namespaces -> Invs \cup {None}]
    /\ prev \in [Invs -> Invs \cup {None}]
    /\ queue \in [Namespaces -> Seq(Invs)]
    /\ phase \in [Invs -> Phases]
    /\ lockOf \in [Invs -> Namespaces \cup {None}]

(* The queue of a namespace has, once each, the operations on it that have  *)
(* not finished.                                                            *)
QueueIsExact ==
    /\ \A n \in Namespaces : \A i, j \in 1..Len(queue[n]) :
           queue[n][i] = queue[n][j] => i = j
    /\ \A n \in Namespaces : \A i \in 1..Len(queue[n]) :
           lockOf[queue[n][i]] = n /\ phase[queue[n][i]] # "idle"
    /\ \A o \in Invs : phase[o] # "idle" /\ lockOf[o] # None
           => \E i \in 1..Len(queue[lockOf[o]]) : queue[lockOf[o]][i] = o

(* The promise chain is that queue: the entry is its last operation, each   *)
(* operation awaits the one before it, and only the first is let in.        *)
ChainIsQueue ==
    /\ \A n \in Namespaces :
           tail[n] = IF queue[n] = <<>> THEN None ELSE queue[n][Len(queue[n])]
    /\ \A n \in Namespaces : \A i \in 1..Len(queue[n]) :
           /\ i = 1 => prev[queue[n][i]] = None
           /\ i # 1 => prev[queue[n][i]] = queue[n][i - 1] /\ phase[queue[n][i]] = "queued"
    /\ \A o \in Invs : phase[o] = "idle" \/ lockOf[o] = None => prev[o] = None

LockInv == LockType /\ QueueIsExact /\ ChainIsQueue

(* What the steps that neither request nor release do to the lock: nothing; *)
(* and an operation stops waiting for it only when it awaits nobody.        *)
Carries ==
    /\ UNCHANGED <<tail, prev, queue, lockOf>>
    /\ phase' \in [Invs -> Phases]
    /\ \A o \in Invs : /\ phase'[o] = "idle" <=> phase[o] = "idle"
                       /\ phase[o] = "queued" /\ phase'[o] # "queued" => prev[o] = None

(* Requests and finishing operations aside, every step carries the lock     *)
(* over.                                                                    *)
LEMMA MostStepsCarry ==
    ASSUME LockType, [Next]_vars,
           ~ \E o \in Invs, n \in Namespaces, v \in Verbs : Request(o, n, v),
           ~ \E o \in Invs, c \in Procs, v \in SingleVerbs : RequestOne(o, c, v),
           ~ \E o \in Invs : Finish(o)
    PROVE  Carries
<1> USE DEF Carries, LockType, lockVars, invVars, containerVars, history
<1>1. ASSUME NEW o \in Invs, Turn(o) PROVE Carries
  <2>1. CASE Acquire(o)
    BY <2>1 DEF Acquire, Phases
  <2>2. CASE StopNext(o)
    BY <2>2 DEF StopNext
  <2>3. CASE StopsDone(o)
    BY <2>3 DEF StopsDone, Phases
  <2>4. CASE StartNext(o)
    BY <2>4 DEF StartNext, Phases
  <2>5. CASE DepsNext(o)
    BY <2>5 DEF DepsNext
  <2>6. CASE MemberNext(o)
    BY <2>6 DEF MemberNext, Phases
  <2>7. CASE RollbackNext(o)
    BY <2>7 DEF RollbackNext
  <2> QED BY <1>1, <2>1, <2>2, <2>3, <2>4, <2>5, <2>6, <2>7 DEF Turn
<1>2. ASSUME NEW o \in Invs, NEW c \in Procs, StartSucceeds(o, c) PROVE Carries
  BY <1>2 DEF StartSucceeds, Phases
<1>3. ASSUME NEW o \in Invs, NEW c \in Procs, StartFails(o, c) PROVE Carries
  BY <1>3 DEF StartFails, Phases
<1>4. ASSUME NEW o \in Invs, NEW c \in Procs, LateStart(o, c) PROVE Carries
  BY <1>4 DEF LateStart
<1>5. ASSUME NEW o \in Invs, NEW c \in Procs, StopEnds(o, c) PROVE Carries
  BY <1>5 DEF StopEnds, Stopped
<1>6. ASSUME NEW c \in Procs, Container(c) PROVE Carries
  BY <1>6 DEF Container, PolicyStopEnds, Stopped, FireTimer, TimerStart, Exit
<1>7. CASE UNCHANGED vars
  BY <1>7 DEF vars
<1> QED BY <1>1, <1>2, <1>3, <1>4, <1>5, <1>6, <1>7 DEF Next, Outcome

(* A step that carries the lock over keeps the chain and the queue alike.   *)
LEMMA CarriesLockInv ==
    ASSUME LockInv, Carries
    PROVE  LockInv'
<1>1. LockType'
  BY DEF LockInv, LockType, Carries
<1>2. QueueIsExact'
  BY DEF LockInv, LockType, QueueIsExact, Carries
<1>3. ChainIsQueue'
  <2>1. \A n \in Namespaces : \A i \in 1..Len(queue[n]) : queue[n][i] \in Invs
    BY ElementOfSeq DEF LockInv, LockType
  <2>2. ASSUME NEW n \in Namespaces, NEW i \in 1..Len(queue[n]), i # 1
        PROVE  phase'[queue[n][i]] = "queued"
    <3> DEFINE q == queue[n][i]
    <3>1. q \in Invs /\ phase[q] = "queued" /\ prev[q] = queue[n][i - 1]
      BY <2>1, <2>2 DEF LockInv, ChainIsQueue
    <3>2. i - 1 \in 1..Len(queue[n])
      BY <2>2, LenProperties DEF LockInv, LockType
    <3>3. prev[q] # None
      BY <2>1, <3>1, <3>2
    <3> QED BY <3>1, <3>3 DEF Carries
  <2> QED BY <2>2 DEF LockInv, ChainIsQueue, Carries
<1> QED BY <1>1, <1>2, <1>3 DEF LockInv

(* A request goes to the end of the queue.                                  *)
LEMMA RequestLockInv ==
    ASSUME LockInv, NEW o \in Invs, NEW n \in Namespaces, NEW v, Request(o, n, v)
    PROVE  LockInv'
<1> DEFINE s == queue[n]
           t == Append(s, o)
<1>1. /\ phase[o] = "idle" /\ phase' = [phase EXCEPT ![o] = "queued"]
      /\ lockOf' = [lockOf EXCEPT ![o] = n] /\ prev' = [prev EXCEPT ![o] = tail[n]]
      /\ tail' = [tail EXCEPT ![n] = o] /\ queue' = [queue EXCEPT ![n] = t]
  BY DEF Request, Enter
<1>2. /\ s \in Seq(Invs) /\ Len(s) \in Nat /\ t \in Seq(Invs) /\ Len(t) = Len(s) + 1
      /\ t # <<>> /\ \A i \in 1..Len(s) : t[i] = s[i]
      /\ t[Len(s) + 1] = o
  <2>1. s \in Seq(Invs)
    BY DEF LockInv, LockType
  <2>2. Len(s) \in Nat
    BY <2>1, LenProperties
  <2> HIDE DEF s
  <2> QED BY <2>1, <2>2, AppendProperties
<1>3. \A m \in Namespaces : \A i \in 1..Len(queue[m]) : queue[m][i] \in Invs \ {o}
  BY <1>1, ElementOfSeq DEF LockInv, LockType, QueueIsExact
<1>4. queue'[n] = t /\ \A m \in Namespaces \ {n} : queue'[m] = queue[m]
  BY <1>1 DEF LockInv, LockType
<1> HIDE DEF t
<1>5. LockType'
  BY <1>1, <1>2 DEF LockInv, LockType, Phases
<1>6. /\ phase'[o] = "queued" /\ lockOf'[o] = n /\ prev'[o] = tail[n]
      /\ \A p \in Invs \ {o} :
             phase'[p] = phase[p] /\ lockOf'[p] = lockOf[p] /\ prev'[p] = prev[p]
      /\ tail'[n] = o /\ \A m \in Namespaces \ {n} : tail'[m] = tail[m]
  BY <1>1 DEF LockInv, LockType
<1>7. QueueIsExact'
  <2>1. ASSUME NEW i \in 1..Len(t), NEW j \in 1..Len(t), t[i] = t[j]
        PROVE  i = j
    <3>1. \A k \in 1..Len(t) : k = Len(s) + 1 \/ k \in 1..Len(s)
      BY <1>2
    <3>2. CASE i \in 1..Len(s) /\ j \in 1..Len(s)
      BY <1>2, <2>1, <3>2 DEF LockInv, QueueIsExact
    <3>3. CASE i \in 1..Len(s) /\ j = Len(s) + 1
      BY <1>2, <1>3, <2>1, <3>3
    <3>4. CASE i = Len(s) + 1 /\ j \in 1..Len(s)
      BY <1>2, <1>3, <2>1, <3>4
    <3> QED BY <3>1, <3>2, <3>3, <3>4
  <2>2. \A m \in Namespaces : \A i, j \in 1..Len(queue'[m]) :
            queue'[m][i] = queue'[m][j] => i = j
    BY <1>4, <2>1 DEF LockInv, QueueIsExact
  <2>3. ASSUME NEW m \in Namespaces, NEW i \in 1..Len(queue'[m])
        PROVE  lockOf'[queue'[m][i]] = m /\ phase'[queue'[m][i]] # "idle"
    <3>1. CASE m = n /\ i = Len(s) + 1
      BY <1>2, <1>4, <1>6, <3>1
    <3>2. CASE m = n /\ i # Len(s) + 1
      <4>1. i \in 1..Len(s) /\ queue'[m][i] = s[i]
        BY <1>2, <1>4, <3>2
      <4>2. s[i] \in Invs \ {o} /\ lockOf[s[i]] = n /\ phase[s[i]] # "idle"
        BY <1>3, <4>1 DEF LockInv, QueueIsExact
      <4> QED BY <1>6, <3>2, <4>1, <4>2
    <3>3. CASE m # n
      <4>1. queue'[m] = queue[m] /\ queue[m][i] \in Invs \ {o}
        BY <1>3, <1>4, <3>3
      <4>2. lockOf[queue[m][i]] = m /\ phase[queue[m][i]] # "idle"
        BY <4>1 DEF LockInv, QueueIsExact
      <4> QED BY <1>6, <4>1, <4>2
    <3> QED BY <3>1, <3>2, <3>3
  <2>4. ASSUME NEW p \in Invs, phase'[p] # "idle", lockOf'[p] # None
        PROVE  \E i \in 1..Len(queue'[lockOf'[p]]) : queue'[lockOf'[p]][i] = p
    <3>1. CASE p = o
      <4>1. Len(s) + 1 \in 1..Len(t)
        BY <1>2
      <4> QED BY <1>2, <1>4, <1>6, <3>1, <4>1
    <3>2. CASE p # o
      <4>1. lockOf'[p] = lockOf[p] /\ lockOf[p] \in Namespaces
        BY <1>6, <2>4, <3>2 DEF LockInv, LockType
      <4>2. PICK i \in 1..Len(queue[lockOf[p]]) : queue[lockOf[p]][i] = p
        BY <1>6, <2>4, <3>2 DEF LockInv, QueueIsExact
      <4>3. i \in 1..Len(queue'[lockOf[p]]) /\ queue'[lockOf[p]][i] = p
        <5>1. CASE lockOf[p] = n
          BY <1>2, <1>4, <4>2, <5>1
        <5>2. CASE lockOf[p] # n
          BY <1>4, <4>1, <4>2, <5>2
        <5> QED BY <5>1, <5>2
      <4> QED BY <4>1, <4>3
    <3> QED BY <3>1, <3>2
  <2> QED BY <2>2, <2>3, <2>4 DEF QueueIsExact
<1>8. ChainIsQueue'
  <2>1. ASSUME NEW m \in Namespaces
        PROVE  tail'[m] = IF queue'[m] = <<>> THEN None ELSE queue'[m][Len(queue'[m])]
    <3>1. CASE m = n
      BY <1>2, <1>4, <1>6, <3>1
    <3>2. CASE m # n
      BY <1>4, <1>6, <3>2 DEF LockInv, ChainIsQueue
    <3> QED BY <3>1, <3>2
  <2>2. ASSUME NEW m \in Namespaces, NEW i \in 1..Len(queue'[m])
        PROVE  /\ i = 1 => prev'[queue'[m][i]] = None
               /\ i # 1 => /\ prev'[queue'[m][i]] = queue'[m][i - 1]
                           /\ phase'[queue'[m][i]] = "queued"
    <3>1. CASE m = n /\ i = Len(s) + 1
      <4>1. queue'[m][i] = o /\ prev'[o] = tail[n] /\ phase'[o] = "queued"
        BY <1>2, <1>4, <1>6, <3>1
      <4>2. CASE i = 1
        <5>1. s = <<>>
          BY <1>2, <3>1, <4>2, EmptySeq
        <5> QED BY <4>1, <4>2, <5>1 DEF LockInv, ChainIsQueue
      <4>3. CASE i # 1
        <5>1. s # <<>> /\ Len(s) \in 1..Len(s)
          BY <1>2, <3>1, <4>3, EmptySeq
        <5>2. tail[n] = s[Len(s)]
          BY <5>1 DEF LockInv, ChainIsQueue
        <5>3. queue'[m][i - 1] = s[Len(s)]
          <6>1. i - 1 = Len(s)
            BY <1>2, <3>1
          <6> QED BY <1>2, <1>4, <3>1, <5>1, <6>1
        <5> QED BY <4>1, <4>3, <5>2, <5>3
      <4> QED BY <4>2, <4>3
    <3>2. CASE m = n /\ i # Len(s) + 1
      <4>1. i \in 1..Len(s) /\ queue'[m][i] = s[i]
        BY <1>2, <1>4, <3>2
      <4>2. i # 1 => i - 1 \in 1..Len(s) /\ queue'[m][i - 1] = s[i - 1]
        <5> HAVE i # 1
        <5>1. i - 1 \in 1..Len(s)
          BY <1>2, <4>1
        <5> QED BY <1>2, <1>4, <3>2, <5>1
      <4> QED BY <1>3, <1>6, <3>2, <4>1, <4>2 DEF LockInv, ChainIsQueue
    <3>3. CASE m # n
      <4>1. queue'[m] = queue[m] /\ queue[m][i] \in Invs \ {o}
        BY <1>3, <1>4, <3>3
      <4>2. /\ i = 1 => prev[queue[m][i]] = None
            /\ i # 1 => prev[queue[m][i]] = queue[m][i - 1] /\ phase[queue[m][i]] = "queued"
        BY <4>1 DEF LockInv, ChainIsQueue
      <4> QED BY <1>6, <4>1, <4>2
    <3> QED BY <3>1, <3>2, <3>3
  <2>3. \A p \in Invs : phase'[p] = "idle" \/ lockOf'[p] = None => prev'[p] = None
    BY <1>6 DEF LockInv, ChainIsQueue
  <2> QED BY <2>1, <2>2, <2>3 DEF ChainIsQueue
<1> QED BY <1>5, <1>7, <1>8 DEF LockInv
(* A request by process name stays out of every queue.                      *)
LEMMA RequestOneLockInv ==
    ASSUME LockInv, NEW o \in Invs, NEW c \in Procs, NEW v, RequestOne(o, c, v)
    PROVE  LockInv'
<1>1. /\ phase[o] = "idle" /\ phase' = [phase EXCEPT ![o] = "queued"]
      /\ lockOf' = [lockOf EXCEPT ![o] = None]
      /\ UNCHANGED <<tail, prev, queue>>
  BY DEF RequestOne, Enter, lockVars
<1>2. \A m \in Namespaces : \A i \in 1..Len(queue[m]) : queue[m][i] \in Invs \ {o}
  BY <1>1, ElementOfSeq DEF LockInv, LockType, QueueIsExact
<1>3. LockType'
  BY <1>1 DEF LockInv, LockType, Phases
<1>4. /\ phase'[o] = "queued" /\ lockOf'[o] = None
      /\ \A p \in Invs \ {o} : phase'[p] = phase[p] /\ lockOf'[p] = lockOf[p]
  BY <1>1 DEF LockInv, LockType
<1>5. QueueIsExact'
  BY <1>1, <1>2, <1>4 DEF LockInv, QueueIsExact
<1>6. ChainIsQueue'
  BY <1>1, <1>2, <1>4 DEF LockInv, ChainIsQueue
<1> QED BY <1>3, <1>5, <1>6 DEF LockInv

(* An operation that is past its wait is the first of its queue.            *)
LEMMA HolderIsFirst ==
    ASSUME LockInv, NEW o \in Invs, phase[o] \notin {"idle", "queued"},
           lockOf[o] # None
    PROVE  /\ lockOf[o] \in Namespaces /\ queue[lockOf[o]] # <<>>
           /\ queue[lockOf[o]][1] = o
<1>1. lockOf[o] \in Namespaces /\ queue[lockOf[o]] \in Seq(Invs)
  BY DEF LockInv, LockType
<1>2. PICK i \in 1..Len(queue[lockOf[o]]) : queue[lockOf[o]][i] = o
  BY DEF LockInv, QueueIsExact
<1>3. i = 1
  BY <1>1, <1>2 DEF LockInv, ChainIsQueue
<1>4. queue[lockOf[o]] # <<>>
  BY <1>1, <1>2, <1>3, EmptySeq
<1> QED BY <1>1, <1>2, <1>3, <1>4

(* An operation that finishes is the first of its queue and lets the second *)
(* in.                                                                      *)
LEMMA FinishLockInv ==
    ASSUME LockInv, NEW o \in Invs, Finish(o)
    PROVE  LockInv'
<1>1. /\ phase[o] \notin {"idle", "queued"}
      /\ phase' = [phase EXCEPT ![o] = "idle"]
      /\ lockOf' = [lockOf EXCEPT ![o] = None]
      /\ Release(o)
  BY DEF Finish, Forget, Unlock
<1>2. /\ phase'[o] = "idle" /\ lockOf'[o] = None
      /\ \A p \in Invs \ {o} : phase'[p] = phase[p] /\ lockOf'[p] = lockOf[p]
  BY <1>1 DEF LockInv, LockType
<1>3. \A m \in Namespaces : \A i \in 1..Len(queue[m]) : queue[m][i] \in Invs
  BY ElementOfSeq DEF LockInv, LockType
<1>4. CASE lockOf[o] = None
  <2>1. UNCHANGED <<tail, prev, queue>>
    BY <1>1, <1>4 DEF Release, lockVars
  <2>2. \A m \in Namespaces : \A i \in 1..Len(queue[m]) : queue[m][i] \in Invs \ {o}
    BY <1>3, <1>4 DEF LockInv, QueueIsExact
  <2>3. LockType'
    BY <1>1, <2>1 DEF LockInv, LockType, Phases
  <2>4. QueueIsExact'
    <3>1. \A m \in Namespaces : \A i \in 1..Len(queue[m]) :
              lockOf'[queue[m][i]] = m /\ phase'[queue[m][i]] # "idle"
      BY <1>2, <2>2 DEF LockInv, QueueIsExact
    <3>2. \A p \in Invs : phase'[p] # "idle" /\ lockOf'[p] # None
              => \E i \in 1..Len(queue[lockOf'[p]]) : queue[lockOf'[p]][i] = p
      BY <1>2 DEF LockInv, QueueIsExact
    <3> QED BY <2>1, <3>1, <3>2 DEF LockInv, QueueIsExact
  <2>5. ChainIsQueue'
    <3>1. \A m \in Namespaces : \A i \in 1..Len(queue[m]) :
              /\ i = 1 => prev[queue[m][i]] = None
              /\ i # 1 => prev[queue[m][i]] = queue[m][i - 1] /\ phase'[queue[m][i]] = "queued"
      <4> TAKE m \in Namespaces
      <4> TAKE i \in 1..Len(queue[m])
      <4>1. phase'[queue[m][i]] = phase[queue[m][i]]
        BY <1>2, <2>2
      <4> QED BY <4>1 DEF LockInv, ChainIsQueue
    <3>2. \A p \in Invs : phase'[p] = "idle" \/ lockOf'[p] = None => prev[p] = None
      BY <1>2, <1>4 DEF LockInv, ChainIsQueue
    <3>3. \A m \in Namespaces :
              tail[m] = IF queue[m] = <<>> THEN None ELSE queue[m][Len(queue[m])]
      BY DEF LockInv, ChainIsQueue
    <3> QED BY <2>1, <3>1, <3>2, <3>3 DEF ChainIsQueue
  <2> QED BY <2>3, <2>4, <2>5 DEF LockInv
<1>5. CASE lockOf[o] # None
  <2> DEFINE n == lockOf[o]
             s == queue[n]
             t == Tail(s)
  <2>1. n \in Namespaces /\ s \in Seq(Invs) /\ s # <<>> /\ s[1] = o
    BY <1>1, <1>5, HolderIsFirst DEF LockInv, LockType
  <2>2. /\ Len(s) \in Nat \ {0} /\ t \in Seq(Invs) /\ Len(t) = Len(s) - 1
        /\ \A k \in 1..Len(t) : t[k] = s[k + 1]
    BY <2>1, HeadTailProperties, LenProperties, EmptySeq
  <2>3. /\ tail' = DropEntry(o, n) /\ queue' = [queue EXCEPT ![n] = t]
        /\ prev' = [q \in Invs |-> IF prev[q] = o THEN None ELSE prev[q]]
    BY <1>1, <1>5 DEF Release
  <2>4. queue'[n] = t /\ \A m \in Namespaces \ {n} : queue'[m] = queue[m]
    BY <2>1, <2>3 DEF LockInv, LockType
  <2>5. \A m \in Namespaces \ {n} : \A i \in 1..Len(queue[m]) :
            queue[m][i] \in Invs \ {o}
    BY <1>3 DEF LockInv, QueueIsExact
  <2>6. \A k \in 1..Len(t) : /\ k + 1 \in 1..Len(s) /\ k + 1 # 1 /\ t[k] = s[k + 1]
                             /\ t[k] \in Invs \ {o}
    <3> TAKE k \in 1..Len(t)
    <3>1. k + 1 \in 1..Len(s) /\ k + 1 # 1 /\ 1 \in 1..Len(s) /\ t[k] = s[k + 1]
      BY <2>2
    <3>2. s[k + 1] # s[1]
      BY <2>1, <3>1 DEF LockInv, QueueIsExact
    <3> QED BY <1>3, <2>1, <3>1, <3>2
  <2> HIDE DEF t
  <2>7. LockType'
    <3>1. queue' \in [Namespaces -> Seq(Invs)]
      BY <2>2, <2>3 DEF LockInv, LockType
    <3>2. tail' \in [Namespaces -> Invs \cup {None}]
      BY <2>1, <2>3 DEF DropEntry, LockInv, LockType
    <3>3. prev' \in [Invs -> Invs \cup {None}]
      BY <2>3 DEF LockInv, LockType
    <3> QED BY <1>1, <3>1, <3>2, <3>3 DEF LockInv, LockType, Phases
  <2>8. QueueIsExact'
    <3>1. ASSUME NEW m \in Namespaces, NEW i \in 1..Len(queue'[m]),
                 NEW j \in 1..Len(queue'[m]), queue'[m][i] = queue'[m][j]
          PROVE  i = j
      <4>1. CASE m = n
        <5>1. i + 1 \in 1..Len(s) /\ j + 1 \in 1..Len(s) /\ s[i + 1] = s[j + 1]
          BY <2>4, <2>6, <3>1, <4>1
        <5>2. i + 1 = j + 1
          BY <2>1, <5>1 DEF LockInv, QueueIsExact
        <5>3. i \in Int /\ j \in Int
          OBVIOUS
        <5> QED BY <5>2, <5>3
      <4>2. CASE m # n
        BY <2>4, <3>1, <4>2 DEF LockInv, QueueIsExact
      <4> QED BY <4>1, <4>2
    <3>2. ASSUME NEW m \in Namespaces, NEW i \in 1..Len(queue'[m])
          PROVE  lockOf'[queue'[m][i]] = m /\ phase'[queue'[m][i]] # "idle"
      <4>1. CASE m = n
        <5>1. /\ i + 1 \in 1..Len(s) /\ queue'[m][i] = s[i + 1]
              /\ queue'[m][i] \in Invs \ {o}
          BY <2>4, <2>6, <4>1
        <5>2. lockOf[s[i + 1]] = n /\ phase[s[i + 1]] # "idle"
          BY <2>1, <5>1 DEF LockInv, QueueIsExact
        <5> QED BY <1>2, <4>1, <5>1, <5>2
      <4>2. CASE m # n
        <5>1. queue'[m] = queue[m] /\ queue[m][i] \in Invs \ {o}
          BY <2>4, <2>5, <4>2
        <5>2. lockOf[queue[m][i]] = m /\ phase[queue[m][i]] # "idle"
          BY <5>1 DEF LockInv, QueueIsExact
        <5> QED BY <1>2, <5>1, <5>2
      <4> QED BY <4>1, <4>2
    <3>3. ASSUME NEW p \in Invs, phase'[p] # "idle", lockOf'[p] # None
          PROVE  \E i \in 1..Len(queue'[lockOf'[p]]) : queue'[lockOf'[p]][i] = p
      <4>1. p # o /\ lockOf'[p] = lockOf[p] /\ phase[p] # "idle" /\ lockOf[p] \in Namespaces
        BY <1>2, <3>3 DEF LockInv, LockType
      <4>2. PICK i \in 1..Len(queue[lockOf[p]]) : queue[lockOf[p]][i] = p
        BY <3>3, <4>1 DEF LockInv, QueueIsExact
      <4>3. CASE lockOf[p] = n
        <5>1. i # 1 /\ s[i] = p
          BY <2>1, <4>1, <4>2, <4>3
        <5>2. i - 1 \in 1..Len(t) /\ i - 1 + 1 = i
          BY <2>2, <4>2, <4>3, <5>1
        <5>3. t[i - 1] = p
          BY <2>2, <5>1, <5>2
        <5> QED BY <2>4, <4>1, <4>3, <5>2, <5>3
      <4>4. CASE lockOf[p] # n
        BY <2>4, <4>1, <4>2, <4>4
      <4> QED BY <4>3, <4>4
    <3> QED BY <3>1, <3>2, <3>3 DEF QueueIsExact
  <2>9. ChainIsQueue'
    <3>1. ASSUME NEW m \in Namespaces
          PROVE  tail'[m] = IF queue'[m] = <<>> THEN None ELSE queue'[m][Len(queue'[m])]
      <4>1. CASE m # n
        <5>1. tail'[m] = tail[m]
          BY <2>1, <2>3, <4>1 DEF DropEntry, LockInv, LockType
        <5> QED BY <2>4, <4>1, <5>1 DEF LockInv, ChainIsQueue
      <4>2. CASE m = n /\ Len(s) = 1
        <5>1. tail[n] = o /\ t = <<>>
          BY <2>1, <2>2, <4>2, EmptySeq DEF LockInv, ChainIsQueue
        <5>2. tail'[n] = None
          BY <2>1, <2>3, <5>1 DEF DropEntry, LockInv, LockType
        <5> QED BY <2>4, <4>2, <5>1, <5>2
      <4>3. CASE m = n /\ Len(s) # 1
        <5>1. Len(t) \in 1..Len(t) /\ Len(t) + 1 = Len(s) /\ t # <<>>
          <6>1. Len(t) \in Nat \ {0} /\ Len(t) + 1 = Len(s)
            BY <2>2, <4>3
          <6>2. t # <<>>
            BY <2>2, <6>1, EmptySeq
          <6> QED BY <6>1, <6>2
        <5>2. t[Len(t)] = s[Len(s)] /\ t[Len(t)] # o
          BY <2>6, <5>1
        <5>3. tail[n] = s[Len(s)]
          BY <2>1 DEF LockInv, ChainIsQueue
        <5>4. tail'[n] = tail[n]
          BY <2>3, <5>2, <5>3 DEF DropEntry
        <5> QED BY <2>4, <4>3, <5>1, <5>2, <5>3, <5>4
      <4> QED BY <4>1, <4>2, <4>3
    <3>2. ASSUME NEW m \in Namespaces, NEW i \in 1..Len(queue'[m])
          PROVE  /\ i = 1 => prev'[queue'[m][i]] = None
                 /\ i # 1 => /\ prev'[queue'[m][i]] = queue'[m][i - 1]
                             /\ phase'[queue'[m][i]] = "queued"
      <4>1. CASE m # n
        <5>1. queue'[m] = queue[m] /\ queue[m][i] \in Invs \ {o}
          BY <2>4, <2>5, <4>1
        <5>2. /\ i = 1 => prev[queue[m][i]] = None
              /\ i # 1 => prev[queue[m][i]] = queue[m][i - 1] /\ phase[queue[m][i]] = "queued"
          BY <5>1 DEF LockInv, ChainIsQueue
        <5>3. i # 1 => queue[m][i - 1] # o
          <6> HAVE i # 1
          <6>1. i - 1 \in 1..Len(queue[m])
            BY <2>4, <4>1, LenProperties DEF LockInv, LockType
          <6> QED BY <2>5, <4>1, <6>1
        <5> QED BY <1>2, <2>3, <5>1, <5>2, <5>3
      <4>2. CASE m = n
        <5>1. /\ i + 1 \in 1..Len(s) /\ i + 1 # 1 /\ t[i] = s[i + 1]
              /\ queue'[m][i] = t[i] /\ t[i] \in Invs \ {o}
          BY <2>4, <2>6, <4>2
        <5>2. prev[t[i]] = s[i + 1 - 1] /\ phase[t[i]] = "queued"
          BY <2>1, <5>1 DEF LockInv, ChainIsQueue
        <5>3. i + 1 - 1 = i
          OBVIOUS
        <5>4. i = 1 => prev'[t[i]] = None
          BY <2>1, <2>3, <5>1, <5>2, <5>3
        <5>5. i # 1 => prev'[t[i]] = t[i - 1]
          <6> HAVE i # 1
          <6>1. i - 1 \in 1..Len(t) /\ i - 1 + 1 = i
            BY <2>2, <2>4, <4>2
          <6>2. t[i - 1] = s[i] /\ t[i - 1] # o
            BY <2>6, <6>1
          <6> QED BY <2>3, <5>1, <5>2, <5>3, <6>2
        <5> QED BY <1>2, <2>4, <4>2, <5>1, <5>2, <5>4, <5>5
      <4> QED BY <4>1, <4>2
    <3>3. ASSUME NEW p \in Invs, phase'[p] = "idle" \/ lockOf'[p] = None
          PROVE  prev'[p] = None
      <4>1. CASE p = o
        <5>1. prev[o] = None
          <6>1. 1 \in 1..Len(s)
            BY <2>2
          <6>2. prev[s[1]] = None
            BY <2>1, <6>1 DEF LockInv, ChainIsQueue
          <6> QED BY <2>1, <6>2
        <5> QED BY <2>3, <4>1, <5>1
      <4>2. CASE p # o
        BY <1>2, <2>3, <3>3, <4>2 DEF LockInv, ChainIsQueue
      <4> QED BY <4>1, <4>2
    <3> QED BY <3>1, <3>2, <3>3 DEF ChainIsQueue
  <2> QED BY <2>7, <2>8, <2>9 DEF LockInv
<1> QED BY <1>4, <1>5

(* The chain of promises of a namespace always is its queue.                *)
LEMMA LockInvInductive == Spec => []LockInv
<1>1. Init => LockInv
  <2> SUFFICES ASSUME Init PROVE LockInv
    OBVIOUS
  <2>1. LockType
    BY EmptySeq DEF Init, LockType, Phases
  <2>2. \A n \in Namespaces : queue[n] = <<>> /\ Len(queue[n]) = 0
    BY EmptySeq DEF Init
  <2> QED BY <2>1, <2>2 DEF Init, LockInv, QueueIsExact, ChainIsQueue
<1>2. LockInv /\ [Next]_vars => LockInv'
  <2> SUFFICES ASSUME LockInv, [Next]_vars PROVE LockInv'
    OBVIOUS
  <2>1. CASE \E o \in Invs, n \in Namespaces, v \in Verbs : Request(o, n, v)
    BY <2>1, RequestLockInv
  <2>2. CASE \E o \in Invs, c \in Procs, v \in SingleVerbs : RequestOne(o, c, v)
    BY <2>2, RequestOneLockInv
  <2>3. CASE \E o \in Invs : Finish(o)
    BY <2>3, FinishLockInv
  <2> QED BY <2>1, <2>2, <2>3, MostStepsCarry, CarriesLockInv DEF LockInv
<1> QED BY <1>1, <1>2, PTL DEF Spec

(* One operation at a time works on a namespace, in the order of requests,  *)
(* whatever fails and however many wait.                                    *)
THEOREM LockIsFifo == Spec => []LockInOrder
<1>1. LockInv => LockInOrder
  <2> SUFFICES ASSUME LockInv, NEW n \in Namespaces, NEW o \in Invs, Holds(o, n)
               PROVE  queue[n] # <<>> /\ o = Head(queue[n])
    BY DEF LockInOrder
  <2>1. queue[n] # <<>> /\ queue[n][1] = o
    BY HolderIsFirst DEF Holds
  <2> QED BY <2>1
<1> QED BY <1>1, LockInvInductive, PTL

(* Nobody waits for an operation that is gone, and no two for the same one. *)
THEOREM WaitersAreServed == Spec => []WaiterIsServed
<1>1. LockInv => WaiterIsServed
  <2> SUFFICES ASSUME LockInv, NEW q \in Invs, prev[q] # None
               PROVE  /\ phase[q] = "queued" /\ phase[prev[q]] # "idle"
                      /\ lockOf[prev[q]] = lockOf[q]
                      /\ \A r \in Invs : prev[r] = prev[q] => r = q
    BY DEF WaiterIsServed
  <2>1. ASSUME NEW r \in Invs, prev[r] # None
        PROVE  /\ lockOf[r] \in Namespaces /\ phase[r] = "queued"
               /\ \E i \in 2..Len(queue[lockOf[r]]) :
                      /\ queue[lockOf[r]][i] = r /\ prev[r] = queue[lockOf[r]][i - 1]
                      /\ i - 1 \in 1..Len(queue[lockOf[r]])
    <3>1. lockOf[r] \in Namespaces /\ phase[r] # "idle" /\ lockOf[r] # None
      BY <2>1 DEF LockInv, LockType, ChainIsQueue
    <3>2. PICK i \in 1..Len(queue[lockOf[r]]) : queue[lockOf[r]][i] = r
      BY <3>1 DEF LockInv, QueueIsExact
    <3>3. i # 1 /\ prev[r] = queue[lockOf[r]][i - 1] /\ phase[r] = "queued"
      BY <2>1, <3>1, <3>2 DEF LockInv, ChainIsQueue
    <3>4. i \in 2..Len(queue[lockOf[r]]) /\ i - 1 \in 1..Len(queue[lockOf[r]])
      BY <3>1, <3>2, <3>3, LenProperties DEF LockInv, LockType
    <3> QED BY <3>1, <3>2, <3>3, <3>4
  <2>2. ASSUME NEW r \in Invs, prev[r] # None
        PROVE  phase[prev[r]] # "idle" /\ lockOf[prev[r]] = lockOf[r]
    <3>1. lockOf[r] \in Namespaces
      BY <2>1, <2>2
    <3>2. PICK i \in 2..Len(queue[lockOf[r]]) :
              /\ prev[r] = queue[lockOf[r]][i - 1]
              /\ i - 1 \in 1..Len(queue[lockOf[r]])
      BY <2>1, <2>2
    <3> QED BY <3>1, <3>2 DEF LockInv, QueueIsExact
  <2>3. ASSUME NEW r \in Invs, prev[r] = prev[q] PROVE r = q
    <3>1. lockOf[r] = lockOf[q]
      BY <2>2, <2>3
    <3>2. PICK i \in 2..Len(queue[lockOf[q]]) :
              /\ queue[lockOf[q]][i] = q /\ prev[q] = queue[lockOf[q]][i - 1]
              /\ i - 1 \in 1..Len(queue[lockOf[q]])
      BY <2>1
    <3>3. PICK j \in 2..Len(queue[lockOf[q]]) :
              /\ queue[lockOf[q]][j] = r /\ prev[r] = queue[lockOf[q]][j - 1]
              /\ j - 1 \in 1..Len(queue[lockOf[q]])
      BY <2>1, <2>3, <3>1
    <3>4. i - 1 = j - 1
      <4>1. lockOf[q] \in Namespaces
        BY <2>1
      <4>2. queue[lockOf[q]][i - 1] = queue[lockOf[q]][j - 1]
        BY <2>3, <3>2, <3>3
      <4> QED BY <3>2, <3>3, <4>1, <4>2 DEF LockInv, QueueIsExact
    <3>5. i = j
      BY <3>4
    <3> QED BY <3>2, <3>3, <3>5
  <2> QED BY <2>1, <2>2, <2>3
<1> QED BY <1>1, LockInvInductive, PTL
-----------------------------------------------------------------------------
(* Type correctness *)

(* Releasing the lock keeps the chain in its types.  Only an operation with *)
(* requests before it, or its own, releases.                                *)
LEMMA ReleaseType ==
    ASSUME Typed, NEW o \in Invs, Unlock(o),
           lockOf[o] # None => queue[lockOf[o]] # <<>>
    PROVE  /\ tail' \in [Namespaces -> Invs \cup {None}]
           /\ prev' \in [Invs -> Invs \cup {None}]
           /\ queue' \in [Namespaces -> Seq(Invs)]
<1>1. CASE lockOf[o] = None
  BY <1>1 DEF Unlock, Release, lockVars, Typed
<1>2. CASE lockOf[o] # None
  <2> DEFINE n == lockOf[o]
  <2>1. n \in Namespaces /\ queue[n] \in Seq(Invs) /\ queue[n] # <<>>
    BY <1>2 DEF Typed
  <2>2. Tail(queue[n]) \in Seq(Invs)
    BY <2>1, HeadTailProperties
  <2>3. /\ tail' = DropEntry(o, n)
        /\ prev' = [q \in Invs |-> IF prev[q] = o THEN None ELSE prev[q]]
        /\ queue' = [queue EXCEPT ![n] = Tail(@)]
    BY <1>2 DEF Unlock, Release
  <2> QED BY <2>1, <2>2, <2>3 DEF DropEntry, Typed
<1> QED BY <1>1, <1>2

(* While the dependencies of a member or the member itself are started, it  *)
(* heads what remains of the loop.                                          *)
MemberAtHead == \A o \in Invs : phase[o] \in {"deps", "member"} => left[o] # <<>>

(* A new request fills the fields of its slot.                              *)
LEMMA EnterType ==
    ASSUME Typed, NEW o \in Invs, NEW n \in Namespaces \cup {None},
           NEW v \in {"start", "stop", "restart"}, NEW members \in Seq(Procs),
           Enter(o, n, v, members), LockType'
    PROVE  Typed'
<1>1. /\ phase' \in [Invs -> Phases] /\ verb' \in [Invs -> {"start", "stop", "restart"}]
      /\ lockOf' \in [Invs -> Namespaces \cup {None}]
      /\ group' \in [Invs -> Seq(Procs)] /\ left' \in [Invs -> Seq(Procs)]
  BY DEF Enter, Typed, Phases
<1>2. failed' = [p \in Invs |-> phase'[p] = "rollback"]
  BY DEF Enter, Typed
<1> QED BY <1>1, <1>2 DEF Enter, LockType, Typed, containerVars, history

(* A turn of an operation keeps every type; it has to hold the lock to      *)
(* release it.                                                              *)
LEMMA TurnType ==
    ASSUME Typed, LockInv, MemberAtHead, NEW o \in Invs, Turn(o)
    PROVE  Typed'
<1> USE DEF containerVars, lockVars, history
<1>0. left[o] # <<>> => Head(left[o]) \in Procs /\ Tail(left[o]) \in Seq(Procs)
  BY HeadTailProperties DEF Typed
<1>1. CASE Acquire(o)
  <2>1. phase' \in [Invs -> Phases] /\ failed' = [p \in Invs |-> phase'[p] = "rollback"]
    BY <1>1 DEF Acquire, Typed, Phases
  <2>2. steady' \in [Invs -> SUBSET Procs]
    BY <1>1 DEF Acquire, Typed
  <2> QED BY <1>1, <2>1, <2>2 DEF Acquire, Typed
<1>2. CASE StopNext(o)
  <2> DEFINE c == Head(left[o])
  <2>1. /\ StopHeads({c}, status) /\ WentDown
        /\ awaits' = [awaits EXCEPT ![o] = Awaited({c})]
        /\ intent' = [intent EXCEPT ![o][c] = autorestart[c]]
        /\ left' = [left EXCEPT ![o] = Tail(@)]
        /\ c \in Procs /\ Tail(left[o]) \in Seq(Procs)
        /\ UNCHANGED <<handle, policyStops, lockVars, phase, verb, lockOf, group, todo,
                       started, failed, lateStarts>>
    BY <1>0, <1>2 DEF StopNext
  <2> HIDE DEF c
  <2>2. Awaited({c}) \subseteq Procs
    BY <2>1 DEF Awaited
  <2>3. awaits' \in [Invs -> SUBSET Procs] /\ left' \in [Invs -> Seq(Procs)]
    BY <2>1, <2>2 DEF Typed
  <2>4. intent' \in [Invs -> [Procs -> BOOLEAN]]
    BY <2>1 DEF Typed
  <2>5. /\ status' \in [Procs -> Running \cup {"stopped", "stopping", "errored"}]
        /\ autorestart' \in [Procs -> BOOLEAN]
        /\ timer' \in [Procs -> {"none", "armed", "launching"}]
    BY <2>1, StopHeadsType DEF Typed
  <2> QED BY <2>1, <2>3, <2>4, <2>5, WentDownType DEF Typed
<1>3. CASE StopsDone(o)
  <2>1. phase' \in [Invs -> Phases] /\ failed' = [p \in Invs |-> phase'[p] = "rollback"]
    BY <1>3 DEF StopsDone, Typed, Phases
  <2>2. left' \in [Invs -> Seq(Procs)]
    BY <1>3 DEF StopsDone, Typed
  <2> QED BY <1>3, <2>1, <2>2 DEF StopsDone, Typed
<1>4. CASE StartNext(o)
  <2> DEFINE c == Head(left[o])
  <2>1. CASE status[c] \in Running
    <3>1. left' = [left EXCEPT ![o] = Tail(@)] /\ Tail(left[o]) \in Seq(Procs)
      BY <1>0, <1>4, <2>1 DEF StartNext
    <3>2. left' \in [Invs -> Seq(Procs)]
      BY <3>1 DEF Typed
    <3> QED BY <1>4, <2>1, <3>2 DEF StartNext, Typed
  <2>2. CASE status[c] \notin Running
    <3>1. /\ phase' = [phase EXCEPT ![o] = "deps"] /\ phase[o] = "start"
          /\ todo' = [todo EXCEPT ![o] = Needs(c)]
          /\ autorestart' = IF lockOf[o] = None THEN [autorestart EXCEPT ![c] = TRUE]
                                                ELSE autorestart
          /\ UNCHANGED <<left, status, handle, timer, policyStops, lockVars, verb, lockOf,
                         group, awaits, started, failed, intent, lateStarts, history>>
      BY <1>4, <2>2 DEF StartNext
    <3>2. Needs(c) \subseteq Procs
      BY DEF Needs
    <3> HIDE DEF c
    <3>3. phase' \in [Invs -> Phases] /\ failed' = [p \in Invs |-> phase'[p] = "rollback"]
      BY <3>1 DEF Typed, Phases
    <3>4. todo' \in [Invs -> SUBSET Procs] /\ autorestart' \in [Procs -> BOOLEAN]
      BY <3>1, <3>2 DEF Typed
    <3> QED BY <3>1, <3>3, <3>4 DEF Typed
  <2> QED BY <2>1, <2>2
<1>5. CASE DepsNext(o)
  <2>1. NextStarts(o) \subseteq Procs
    BY <1>5 DEF DepsNext, NextStarts, Level, Typed
  <2>2. awaits' \in [Invs -> SUBSET Procs] /\ todo' \in [Invs -> SUBSET Procs]
    BY <1>5, <2>1 DEF DepsNext, Typed
  <2>3. status' \in [Procs -> Running \cup {"stopped", "stopping", "errored"}]
    BY <1>5 DEF DepsNext, Typed, Running
  <2> QED BY <1>5, <2>2, <2>3 DEF DepsNext, Typed
<1>6. CASE MemberNext(o)
  <2> DEFINE c == Head(left[o])
  <2>1. c \in Procs /\ Tail(left[o]) \in Seq(Procs) /\ phase[o] = "deps"
    BY <1>0, <1>6 DEF MemberNext, MemberAtHead
  <2>2. Record(o, c) \in Seq(Procs)
    BY <2>1, RecordType
  <2>3. /\ \E b \in BOOLEAN : autorestart' = [autorestart EXCEPT ![c] = b]
        /\ UNCHANGED <<handle, timer, policyStops, lockVars, verb, lockOf, group, todo,
                       failed, intent, lateStarts, history>>
    <3> DEFINE b == IF lockOf[o] = None THEN autorestart[c]
                    ELSE IF verb[o] = "restart" THEN intent[o][c] ELSE TRUE
    <3>1. b \in BOOLEAN
      <4>1. /\ autorestart \in [Procs -> BOOLEAN] /\ intent \in [Invs -> [Procs -> BOOLEAN]]
        BY DEF Typed
      <4>2. autorestart[c] \in BOOLEAN /\ intent[o][c] \in BOOLEAN
        BY <2>1, <4>1
      <4> QED BY <4>2
    <3>2. autorestart' = [autorestart EXCEPT ![c] = b]
      BY <1>6, <2>1 DEF MemberNext, Typed
    <3> QED BY <1>6, <3>1, <3>2 DEF MemberNext
  <2>4. autorestart' \in [Procs -> BOOLEAN]
    BY <2>3 DEF Typed
  <2>5. CASE status[c] = "online"
    <3>1. /\ phase' = [phase EXCEPT ![o] = "start"]
          /\ left' = [left EXCEPT ![o] = Tail(@)]
          /\ started' = [started EXCEPT ![o] = Record(o, c)]
          /\ UNCHANGED <<status, awaits>>
      BY <1>6, <2>5 DEF MemberNext
    <3>2. phase' \in [Invs -> Phases] /\ failed' = [p \in Invs |-> phase'[p] = "rollback"]
      BY <2>1, <2>3, <3>1 DEF Typed, Phases
    <3>3. left' \in [Invs -> Seq(Procs)] /\ started' \in [Invs -> Seq(Procs)]
      BY <2>1, <2>2, <3>1 DEF Typed
    <3> QED BY <2>3, <2>4, <3>1, <3>2, <3>3 DEF Typed
  <2>6. CASE status[c] # "online"
    <3>1. /\ status' = [status EXCEPT ![c] = "launching"]
          /\ phase' = [phase EXCEPT ![o] = "member"]
          /\ awaits' = [awaits EXCEPT ![o] = {c}]
          /\ UNCHANGED <<left, started>>
      BY <1>6, <2>6 DEF MemberNext
    <3> HIDE DEF c
    <3>2. phase' \in [Invs -> Phases] /\ failed' = [p \in Invs |-> phase'[p] = "rollback"]
      BY <2>1, <2>3, <3>1 DEF Typed, Phases
    <3>3. /\ awaits' \in [Invs -> SUBSET Procs]
          /\ status' \in [Procs -> Running \cup {"stopped", "stopping", "errored"}]
      BY <2>1, <3>1 DEF Typed, Running
    <3> QED BY <2>3, <2>4, <3>1, <3>2, <3>3 DEF Typed
  <2> QED BY <2>5, <2>6
<1>7. CASE RollbackNext(o)
  <2> DEFINE c == Head(left[o])
  <2>1. /\ StopHeads({c}, status) /\ WentDown
        /\ awaits' = [awaits EXCEPT ![o] = Awaited({c})]
        /\ left' = [left EXCEPT ![o] = Tail(@)]
        /\ c \in Procs /\ Tail(left[o]) \in Seq(Procs)
        /\ UNCHANGED <<handle, policyStops, lockVars, phase, verb, lockOf, group, todo,
                       started, failed, intent, lateStarts>>
    BY <1>0, <1>7 DEF RollbackNext
  <2> HIDE DEF c
  <2>2. Awaited({c}) \subseteq Procs
    BY <2>1 DEF Awaited
  <2>3. awaits' \in [Invs -> SUBSET Procs] /\ left' \in [Invs -> Seq(Procs)]
    BY <2>1, <2>2 DEF Typed
  <2>5. /\ status' \in [Procs -> Running \cup {"stopped", "stopping", "errored"}]
        /\ autorestart' \in [Procs -> BOOLEAN]
        /\ timer' \in [Procs -> {"none", "armed", "launching"}]
    BY <2>1, StopHeadsType DEF Typed
  <2> QED BY <2>1, <2>3, <2>5, WentDownType DEF Typed
<1>8. CASE Finish(o)
  <2>1. lockOf[o] # None => queue[lockOf[o]] # <<>>
    BY <1>8, HolderIsFirst DEF Finish
  <2>2. /\ tail' \in [Namespaces -> Invs \cup {None}]
        /\ prev' \in [Invs -> Invs \cup {None}]
        /\ queue' \in [Namespaces -> Seq(Invs)]
    BY <1>8, <2>1, ReleaseType DEF Finish
  <2>3. phase' \in [Invs -> Phases] /\ failed' = [p \in Invs |-> phase'[p] = "rollback"]
    BY <1>8 DEF Finish, Forget, ResetFailure, Typed, Phases
  <2>4. /\ verb' \in [Invs -> {"start", "stop", "restart"}]
        /\ lockOf' \in [Invs -> Namespaces \cup {None}]
        /\ group' \in [Invs -> Seq(Procs)] /\ started' \in [Invs -> Seq(Procs)]
        /\ intent' \in [Invs -> [Procs -> BOOLEAN]]
        /\ steady' \in [Invs -> SUBSET Procs] /\ broughtUp' \in [Invs -> SUBSET Procs]
    BY <1>8, EmptySeq DEF Finish, Forget, Typed
  <2> QED BY <1>8, <2>2, <2>3, <2>4 DEF Finish, Typed
<1> QED BY <1>1, <1>2, <1>3, <1>4, <1>5, <1>6, <1>7, <1>8 DEF Turn

(* So does the outcome of a start() or stop() of an operation,              *)
LEMMA OutcomeType ==
    ASSUME Typed, MemberAtHead, NEW o \in Invs, Outcome(o)
    PROVE  Typed'
<1> USE DEF containerVars, lockVars, history
<1>1. ASSUME NEW c \in Procs, StartSucceeds(o, c) PROVE Typed'
  <2>0. /\ phase[o] # "rollback" /\ UNCHANGED failed
        /\ \/ /\ phase' = [phase EXCEPT ![o] = "start"] /\ phase[o] = "member"
              /\ left' = [left EXCEPT ![o] = Tail(@)]
           \/ UNCHANGED <<phase, left>>
    BY <1>1 DEF StartSucceeds
  <2>1. left' \in [Invs -> Seq(Procs)]
    <3>1. CASE UNCHANGED <<phase, left>>
      BY <3>1 DEF Typed
    <3>2. CASE phase[o] = "member" /\ left' = [left EXCEPT ![o] = Tail(@)]
      <4>1. Tail(left[o]) \in Seq(Procs)
        BY <3>2, HeadTailProperties DEF MemberAtHead, Typed
      <4> QED BY <3>2, <4>1 DEF Typed
    <3> QED BY <2>0, <3>1, <3>2
  <2>2. started' \in [Invs -> Seq(Procs)]
    BY <1>1, RecordType DEF StartSucceeds, Recorded, Typed
  <2>3. phase' \in [Invs -> Phases] /\ failed' = [p \in Invs |-> phase'[p] = "rollback"]
    <3>1. CASE UNCHANGED <<phase, left>>
      BY <2>0, <3>1 DEF Typed
    <3>2. CASE phase' = [phase EXCEPT ![o] = "start"]
      BY <2>0, <3>2 DEF Typed, Phases
    <3> QED BY <2>0, <3>1, <3>2
  <2>4. /\ status' \in [Procs -> Running \cup {"stopped", "stopping", "errored"}]
        /\ handle' \subseteq Procs /\ awaits' \in [Invs -> SUBSET Procs]
        /\ broughtUp' \in [Invs -> SUBSET Procs]
    BY <1>1 DEF StartSucceeds, Online, Typed, Running
  <2> QED BY <1>1, <2>1, <2>2, <2>3, <2>4 DEF StartSucceeds, Typed
<1>2. ASSUME NEW c \in Procs, StartFails(o, c) PROVE Typed'
  <2>1. left' \in [Invs -> Seq(Procs)]
    BY <1>2, RollbackScopeType DEF StartFails, Typed
  <2>2. phase' \in [Invs -> Phases] /\ failed' = [p \in Invs |-> phase'[p] = "rollback"]
    BY <1>2 DEF StartFails, Typed, Phases
  <2>3. /\ status' \in [Procs -> Running \cup {"stopped", "stopping", "errored"}]
        /\ handle' \subseteq Procs
    BY <1>2 DEF StartFails, Errored, Typed
  <2>4. /\ awaits' \in [Invs -> SUBSET Procs] /\ todo' \in [Invs -> SUBSET Procs]
        /\ lateStarts' \subseteq Invs \X Procs
    BY <1>2 DEF StartFails, Typed
  <2> QED BY <1>2, <2>1, <2>2, <2>3, <2>4, WentDownType DEF StartFails, Typed
<1>3. ASSUME NEW c \in Procs, LateStart(o, c) PROVE Typed'
  <2>1. /\ status' \in [Procs -> Running \cup {"stopped", "stopping", "errored"}]
        /\ handle' \subseteq Procs /\ lateStarts' \subseteq Invs \X Procs
    BY <1>3 DEF LateStart, Online, Errored, Typed, Running
  <2> QED BY <1>3, <2>1, WentDownType DEF LateStart, Typed
<1>4. ASSUME NEW c \in Procs, StopEnds(o, c) PROVE Typed'
  <2>1. /\ status' \in [Procs -> Running \cup {"stopped", "stopping", "errored"}]
        /\ handle' \subseteq Procs /\ awaits' \in [Invs -> SUBSET Procs]
    BY <1>4 DEF StopEnds, Stopped, Typed
  <2> QED BY <1>4, <2>1, WentDownType DEF StopEnds, Stopped, Typed
<1> QED BY <1>1, <1>2, <1>3, <1>4 DEF Outcome

(* and what a container does by itself.                                     *)
LEMMA ContainerType ==
    ASSUME Typed, NEW c \in Procs, Container(c)
    PROVE  Typed'
<1> USE DEF containerVars, lockVars, invVars, history
<1>1. CASE PolicyStopEnds(c)
  <2>1. /\ status' \in [Procs -> Running \cup {"stopped", "stopping", "errored"}]
        /\ handle' \subseteq Procs /\ policyStops' \subseteq Procs
    BY <1>1 DEF PolicyStopEnds, Stopped, Typed
  <2> QED BY <1>1, <2>1, WentDownType DEF PolicyStopEnds, Stopped, Typed
<1>2. CASE FireTimer(c)
  <2>1. /\ status' \in [Procs -> Running \cup {"stopped", "stopping", "errored"}]
        /\ timer' \in [Procs -> {"none", "armed", "launching"}]
    BY <1>2 DEF FireTimer, Typed, Running
  <2> QED BY <1>2, <2>1 DEF FireTimer, Typed
<1>3. CASE TimerStart(c)
  <2>1. /\ status' \in [Procs -> Running \cup {"stopped", "stopping", "errored"}]
        /\ handle' \subseteq Procs /\ timer' \in [Procs -> {"none", "armed", "launching"}]
    BY <1>3 DEF TimerStart, Online, Errored, Typed, Running
  <2> QED BY <1>3, <2>1, WentDownType DEF TimerStart, Typed
<1>4. ASSUME NEW g \in BOOLEAN, Exit(c, g) PROVE Typed'
  <2>1. handle' \subseteq Procs
    BY <1>4 DEF Exit, Typed
  <2>2. CASE autorestart[c] /\ ~g
    <3>1. /\ status' \in [Procs -> Running \cup {"stopped", "stopping", "errored"}]
          /\ timer' \in [Procs -> {"none", "armed", "launching"}]
      BY <1>4, <2>2 DEF Exit, Typed, Running
    <3> QED BY <1>4, <2>1, <2>2, <3>1 DEF Exit, Typed
  <2>3. CASE ~(autorestart[c] /\ ~g)
    <3> DEFINE st == [status EXCEPT ![c] = IF autorestart[c] THEN "errored" ELSE "stopped"]
               S == Followers(c)
    <3>1. /\ StopHeads(S, st) /\ policyStops' = policyStops \cup Awaited(S) /\ WentDown
          /\ UNCHANGED <<lockVars, invVars>>
      BY <1>4, <2>3 DEF Exit
    <3>2. st \in [Procs -> Running \cup {"stopped", "stopping", "errored"}]
      BY DEF Typed
    <3>3. S \in SUBSET Procs
      BY DEF Followers
    <3> HIDE DEF st, S
    <3>4. /\ status' \in [Procs -> Running \cup {"stopped", "stopping", "errored"}]
          /\ autorestart' \in [Procs -> BOOLEAN]
          /\ timer' \in [Procs -> {"none", "armed", "launching"}]
      BY <3>1, <3>2, <3>3, StopHeadsType
    <3>5. policyStops' \subseteq Procs
      BY <3>1, <3>3 DEF Awaited, Typed
    <3> QED BY <2>1, <3>1, <3>4, <3>5, WentDownType DEF Typed
  <2> QED BY <2>2, <2>3
<1> QED BY <1>1, <1>2, <1>3, <1>4 DEF Container

(* Only a member that has its outcome leaves the loop.                      *)
LEMMA MemberAtHeadStep ==
    ASSUME Typed, MemberAtHead, [Next]_vars
    PROVE  MemberAtHead'
<1> USE DEF MemberAtHead, containerVars, lockVars, invVars, history
<1>1. ASSUME NEW o \in Invs, NEW n, NEW v, NEW m, Enter(o, n, v, m) PROVE MemberAtHead'
  BY <1>1 DEF Enter, Typed
<1>2. ASSUME NEW o \in Invs, Turn(o) PROVE MemberAtHead'
  <2>1. CASE Acquire(o)
    BY <2>1 DEF Acquire, Typed
  <2>2. CASE StopNext(o)
    BY <2>2 DEF StopNext, Typed
  <2>3. CASE StopsDone(o)
    BY <2>3 DEF StopsDone, Typed
  <2>4. CASE StartNext(o)
    BY <2>4 DEF StartNext, Typed
  <2>5. CASE DepsNext(o)
    BY <2>5 DEF DepsNext
  <2>6. CASE MemberNext(o)
    BY <2>6 DEF MemberNext, Typed
  <2>7. CASE RollbackNext(o)
    BY <2>7 DEF RollbackNext, Typed
  <2>8. CASE Finish(o)
    BY <2>8 DEF Finish, Typed
  <2> QED BY <1>2, <2>1, <2>2, <2>3, <2>4, <2>5, <2>6, <2>7, <2>8 DEF Turn
<1>3. ASSUME NEW o \in Invs, Outcome(o) PROVE MemberAtHead'
  BY <1>3 DEF Outcome, StartSucceeds, StartFails, LateStart, StopEnds, Stopped, Typed
<1>4. ASSUME NEW c \in Procs, Container(c) PROVE MemberAtHead'
  BY <1>4 DEF Container, PolicyStopEnds, Stopped, FireTimer, TimerStart, Exit
<1>5. CASE UNCHANGED vars
  BY <1>5 DEF vars
<1> QED BY <1>1, <1>2, <1>3, <1>4, <1>5 DEF Next, Request, RequestOne

(* Types, and the member at the head of the loop, are kept together.        *)
LEMMA TypesInductive == Spec => [](Typed /\ MemberAtHead)
<1>1. Init => Typed /\ MemberAtHead
  <2> SUFFICES ASSUME Init PROVE Typed /\ MemberAtHead
    OBVIOUS
  <2> QED BY EmptySeq DEF Init, Typed, MemberAtHead, Running, Phases
<1>2. Typed /\ MemberAtHead /\ LockInv /\ [Next]_vars => Typed' /\ MemberAtHead'
  <2> SUFFICES ASSUME Typed, MemberAtHead, LockInv, [Next]_vars PROVE Typed'
    BY MemberAtHeadStep
  <2>1. ASSUME NEW o \in Invs, NEW v \in Verbs, NEW n \in Namespaces, Request(o, n, v)
        PROVE  Typed'
    <3>1. LockType'
      BY <2>1, RequestLockInv DEF LockInv
    <3>2. Members[n] \in Seq(Procs) /\ v \in {"start", "stop", "restart"}
      OBVIOUS
    <3>3. Enter(o, n, v, Members[n])
      BY <2>1 DEF Request
    <3> QED BY <3>1, <3>2, <3>3, EnterType
  <2>2. ASSUME NEW o \in Invs, NEW v \in SingleVerbs, NEW c \in Procs,
               RequestOne(o, c, v)
        PROVE  Typed'
    <3>1. LockType'
      BY <2>2, RequestOneLockInv DEF LockInv
    <3>2. <<c>> \in Seq(Procs) /\ v \in {"start", "stop", "restart"}
      OBVIOUS
    <3>3. Enter(o, None, v, <<c>>) /\ None \in Namespaces \cup {None}
      BY <2>2 DEF RequestOne
    <3> DEFINE n == None
               members == <<c>>
    <3>4. /\ Enter(o, n, v, members) /\ n \in Namespaces \cup {None}
          /\ members \in Seq(Procs)
      BY <3>2, <3>3
    <3> HIDE DEF n, members
    <3> QED BY <3>1, <3>2, <3>4, EnterType
  <2>3. CASE UNCHANGED vars
    BY <2>3 DEF vars, containerVars, lockVars, invVars, history, Typed
  <2> QED BY <2>1, <2>2, <2>3, TurnType, OutcomeType, ContainerType DEF Next
<1> QED BY <1>1, <1>2, LockInvInductive, PTL DEF Spec

(* Every variable keeps its type, and an operation has failed exactly while *)
(* it rolls back.                                                           *)
LEMMA TypingAlways == Spec => []Typed
BY TypesInductive, PTL

Stopping == {"stop", "rollback"}

(* A step that leaves every container it finds stopping with who awaits it,  *)
(* and stops none, keeps the stopping awaited ...                            *)
LEMMA AwaitedStays ==
    ASSUME Typed, StoppingIsAwaited, policyStops \subseteq policyStops',
           \A c \in Procs : status'[c] = "stopping" => status[c] = "stopping",
           \A o \in Invs : phase[o] \in Stopping /\ awaits[o] # {} =>
               phase'[o] = phase[o] /\ awaits'[o] = awaits[o]
    PROVE  StoppingIsAwaited'
<1> SUFFICES ASSUME NEW c \in Procs, status'[c] = "stopping", c \notin policyStops'
             PROVE  \E o \in Invs : phase'[o] \in {"stop", "rollback"} /\ c \in awaits'[o]
  BY DEF StoppingIsAwaited
<1>1. PICK o \in Invs : phase[o] \in {"stop", "rollback"} /\ c \in awaits[o]
  BY DEF StoppingIsAwaited
<1>2. phase'[o] = phase[o] /\ awaits'[o] = awaits[o]
  BY <1>1 DEF Stopping
<1> QED BY <1>1, <1>2

(* ... as does the head of a stop() whose exits are awaited from then on by  *)
(* the loop of o ...                                                         *)
LEMMA AwaitedFromHere ==
    ASSUME Typed, StoppingIsAwaited, NEW o \in Invs, NEW S \in SUBSET Procs,
           phase[o] \in Stopping, awaits[o] = {}, StopHeads(S, status),
           awaits' = [awaits EXCEPT ![o] = Awaited(S)],
           UNCHANGED <<phase, policyStops>>
    PROVE  StoppingIsAwaited'
<1> SUFFICES ASSUME NEW c \in Procs, status'[c] = "stopping", c \notin policyStops'
             PROVE  \E p \in Invs : phase'[p] \in {"stop", "rollback"} /\ c \in awaits'[p]
  BY DEF StoppingIsAwaited
<1>1. CASE c \in S /\ status[c] \in Running
  <2>1. c \in Awaited(S)
    BY <1>1 DEF StopHeads, DownStatus, Awaited
  <2> QED BY <2>1 DEF Stopping, Typed
<1>2. CASE ~(c \in S /\ status[c] \in Running)
  <2>1. status[c] = "stopping"
    BY <1>2 DEF StopHeads, DownStatus
  <2>2. PICK p \in Invs : phase[p] \in {"stop", "rollback"} /\ c \in awaits[p]
    BY <2>1 DEF StoppingIsAwaited
  <2> QED BY <2>2 DEF Typed
<1> QED BY <1>1, <1>2

(* ... and an exit, which takes its container on.                            *)
LEMMA AwaitedExits ==
    ASSUME Typed, StoppingIsAwaited, NEW c \in Procs, Stopped(c), UNCHANGED phase,
           policyStops \ {c} \subseteq policyStops',
           \A o \in Invs : phase[o] \in Stopping => awaits[o] \ {c} \subseteq awaits'[o]
    PROVE  StoppingIsAwaited'
<1> SUFFICES ASSUME NEW d \in Procs, status'[d] = "stopping", d \notin policyStops'
             PROVE  \E o \in Invs : phase'[o] \in {"stop", "rollback"} /\ d \in awaits'[o]
  BY DEF StoppingIsAwaited
<1>1. d # c /\ status[d] = "stopping"
  BY DEF Stopped, Typed
<1>2. PICK o \in Invs : phase[o] \in {"stop", "rollback"} /\ d \in awaits[o]
  BY <1>1 DEF StoppingIsAwaited
<1> QED BY <1>1, <1>2 DEF Stopping

LEMMA AwaitedStep ==
    Typed /\ StoppingIsAwaited /\ [Next]_vars => StoppingIsAwaited'
<1> SUFFICES ASSUME Typed, StoppingIsAwaited, [Next]_vars PROVE StoppingIsAwaited'
  OBVIOUS
<1> USE DEF Stopping
<1>1. ASSUME NEW o \in Invs, NEW v \in Verbs, NEW n \in Namespaces, Request(o, n, v)
      PROVE  StoppingIsAwaited'
  BY <1>1, AwaitedStays DEF Request, Enter, containerVars, Typed
<1>2. ASSUME NEW o \in Invs, NEW v \in SingleVerbs, NEW c \in Procs, RequestOne(o, c, v)
      PROVE  StoppingIsAwaited'
  BY <1>2, AwaitedStays DEF RequestOne, Enter, containerVars, Typed
<1>3. ASSUME NEW o \in Invs, Turn(o) PROVE StoppingIsAwaited'
  <2>1. CASE Acquire(o)
    BY <2>1, AwaitedStays DEF Acquire, containerVars, Typed
  <2>2. CASE StopNext(o)
    <3>1. Head(left[o]) \in Procs
      BY <2>2, HeadTailProperties DEF StopNext, Typed
    <3> QED BY <2>2, <3>1, AwaitedFromHere DEF StopNext
  <2>3. CASE StopsDone(o)
    BY <2>3, AwaitedStays DEF StopsDone, containerVars, Typed
  <2>4. CASE StartNext(o)
    BY <2>4, AwaitedStays DEF StartNext, Typed
  <2>5. CASE DepsNext(o)
    BY <2>5, AwaitedStays DEF DepsNext, Typed
  <2>6. CASE MemberNext(o)
    <3>1. /\ phase[o] = "deps"
          /\ \A p \in Invs \ {o} : phase'[p] = phase[p] /\ awaits'[p] = awaits[p]
          /\ UNCHANGED policyStops
      BY <2>6 DEF MemberNext, Typed
    <3>2. \A c \in Procs : status'[c] = "stopping" => status[c] = "stopping"
      BY <2>6 DEF MemberNext, Typed
    <3> QED BY <3>1, <3>2, AwaitedStays
  <2>7. CASE RollbackNext(o)
    <3>1. Head(left[o]) \in Procs
      BY <2>7, HeadTailProperties DEF RollbackNext, Typed
    <3> QED BY <2>7, <3>1, AwaitedFromHere DEF RollbackNext
  <2>8. CASE Finish(o)
    BY <2>8, AwaitedStays DEF Finish, containerVars, Typed
  <2> QED BY <1>3, <2>1, <2>2, <2>3, <2>4, <2>5, <2>6, <2>7, <2>8 DEF Turn
<1>4. ASSUME NEW o \in Invs, NEW c \in Procs, StartSucceeds(o, c) PROVE StoppingIsAwaited'
  BY <1>4, AwaitedStays DEF StartSucceeds, Online, Typed
<1>5. ASSUME NEW o \in Invs, NEW c \in Procs, StartFails(o, c) PROVE StoppingIsAwaited'
  BY <1>5, AwaitedStays DEF StartFails, Errored, Typed
<1>6. ASSUME NEW o \in Invs, NEW c \in Procs, LateStart(o, c) PROVE StoppingIsAwaited'
  BY <1>6, AwaitedStays DEF LateStart, Online, Errored, Typed
<1>7. ASSUME NEW o \in Invs, NEW c \in Procs, StopEnds(o, c) PROVE StoppingIsAwaited'
  <2>1. /\ Stopped(c) /\ UNCHANGED <<phase, policyStops>>
        /\ awaits' = [awaits EXCEPT ![o] = @ \ {c}]
    BY <1>7 DEF StopEnds, Stopped
  <2> QED BY <2>1, AwaitedExits DEF Typed
<1>8. ASSUME NEW c \in Procs, PolicyStopEnds(c) PROVE StoppingIsAwaited'
  BY <1>8, AwaitedExits DEF PolicyStopEnds, Stopped
<1>9. ASSUME NEW c \in Procs, FireTimer(c) PROVE StoppingIsAwaited'
  BY <1>9, AwaitedStays DEF FireTimer, invVars, Typed
<1>10. ASSUME NEW c \in Procs, TimerStart(c) PROVE StoppingIsAwaited'
  BY <1>10, AwaitedStays DEF TimerStart, Online, Errored, invVars, Typed
<1>11. ASSUME NEW c \in Procs, NEW g \in BOOLEAN, Exit(c, g) PROVE StoppingIsAwaited'
  <2>1. UNCHANGED <<phase, awaits>> /\ policyStops \subseteq policyStops'
    BY <1>11 DEF Exit, invVars
  <2>2. CASE autorestart[c] /\ ~g
    BY <1>11, <2>1, <2>2, AwaitedStays DEF Exit, Typed
  <2>3. CASE ~(autorestart[c] /\ ~g)
    <3> DEFINE S == Followers(c)
               st == [status EXCEPT ![c] = IF autorestart[c] THEN "errored" ELSE "stopped"]
    <3>1. StopHeads(S, st) /\ policyStops' = policyStops \cup Awaited(S) /\ c \notin S
      BY <1>11, <2>3 DEF Exit, Followers
    <3>2. \A d \in Procs : status'[d] = "stopping" => status[d] = "stopping" \/ d \in Awaited(S)
      BY <3>1 DEF StopHeads, DownStatus, Awaited, Typed
    <3> HIDE DEF S, st
    <3> SUFFICES ASSUME NEW d \in Procs, status'[d] = "stopping", d \notin policyStops'
                 PROVE  \E o \in Invs : phase'[o] \in {"stop", "rollback"} /\ d \in awaits'[o]
      BY DEF StoppingIsAwaited
    <3>3. status[d] = "stopping" /\ d \notin policyStops
      BY <3>1, <3>2
    <3> QED BY <2>1, <3>3 DEF StoppingIsAwaited
  <2> QED BY <2>2, <2>3
<1>12. CASE UNCHANGED vars
  BY <1>12 DEF StoppingIsAwaited, vars, containerVars, invVars
<1> QED
  BY <1>1, <1>2, <1>3, <1>4, <1>5, <1>6, <1>7, <1>8, <1>9, <1>10, <1>11, <1>12
     DEF Next, Outcome, Container

(* Every variable keeps its type, an operation has failed exactly while it   *)
(* rolls back, and whatever is stopping has somebody that awaits its exit.   *)
THEOREM TypeCorrect == Spec => []TypeOK
<1>1. Init => StoppingIsAwaited
  BY DEF Init, StoppingIsAwaited
<1> QED BY <1>1, AwaitedStep, TypesInductive, PTL DEF Spec, TypeOK

-----------------------------------------------------------------------------
(* Rollback *)

(* What an operation found running, or brought up, runs.                    *)
UpInv == \A o \in Invs : steady[o] \cup broughtUp[o] \subseteq
                             {c \in Procs : status[c] \in Running}

(* What operation o starts did not run when it began; what it brought up is *)
(* in its record, and from a failure on in what is left to roll back.       *)
OpInv(o) ==
    /\ phase[o] \in {"idle", "queued"} => started[o] = <<>>
    /\ phase[o] \in {"idle", "queued", "start"} => awaits[o] = {}
    /\ phase[o] = "member" => awaits[o] \subseteq {Head(left[o])}
    /\ phase[o] \in {"deps", "member"} =>
           Head(left[o]) \notin steady[o] /\ awaits[o] \cap steady[o] = {}
    /\ \A i \in 1..Len(started[o]) : started[o][i] \notin steady[o]
    /\ phase[o] = "rollback" =>
           /\ \A i \in 1..Len(left[o]) : left[o][i] \notin steady[o]
           /\ \A c \in broughtUp[o] : \E i \in 1..Len(left[o]) : left[o][i] = c
    /\ phase[o] # "rollback" =>
           \A c \in broughtUp[o] : \E i \in 1..Len(started[o]) : started[o][i] = c

RollbackInv == UpInv /\ \A o \in Invs : OpInv(o)

(* A container that is on its way up or up stays so in a step that leaves   *)
(* the histories alone.                                                     *)
Rises == \A c \in Procs : status[c] \in Running => status'[c] \in Running

(* A container leaves both histories in the step that takes it down.        *)
LEMMA UpInvStep ==
    ASSUME Typed, UpInv, [Next]_vars
    PROVE  UpInv'
<1>1. ASSUME WentDown PROVE UpInv'
  BY <1>1 DEF WentDown, StillUp, UpInv, Typed
<1>2. ASSUME Rises, UNCHANGED history PROVE UpInv'
  BY <1>2 DEF Rises, UpInv, Typed, history
<1>3. ASSUME NEW o \in Invs, NEW n, NEW v, NEW m, Enter(o, n, v, m) PROVE UpInv'
  BY <1>2, <1>3 DEF Enter, Rises, containerVars
<1>4. ASSUME NEW o \in Invs, Turn(o) PROVE UpInv'
  <2>1. CASE Acquire(o)
    BY <2>1 DEF Acquire, UpInv, Typed, containerVars
  <2>2. CASE StopNext(o)
    BY <1>1, <2>2 DEF StopNext
  <2>3. CASE StopsDone(o)
    BY <1>2, <2>3 DEF StopsDone, Rises, containerVars
  <2>4. CASE StartNext(o)
    BY <1>2, <2>4 DEF StartNext, Rises
  <2>5. CASE DepsNext(o)
    <3>1. Rises /\ UNCHANGED history
      BY <2>5 DEF DepsNext, Rises, Running
    <3> QED BY <1>2, <3>1
  <2>6. CASE MemberNext(o)
    <3>1. Rises /\ UNCHANGED history
      BY <2>6 DEF MemberNext, Rises, Running, Typed
    <3> QED BY <1>2, <3>1
  <2>7. CASE RollbackNext(o)
    BY <1>1, <2>7 DEF RollbackNext
  <2>8. CASE Finish(o)
    BY <2>8 DEF Finish, Forget, UpInv, Typed, containerVars
  <2> QED BY <1>4, <2>1, <2>2, <2>3, <2>4, <2>5, <2>6, <2>7, <2>8 DEF Turn
<1>5. ASSUME NEW o \in Invs, Outcome(o) PROVE UpInv'
  <2>1. ASSUME NEW c \in Procs, StartSucceeds(o, c) PROVE UpInv'
    <3>1. /\ status' = [status EXCEPT ![c] = "online"] /\ UNCHANGED steady
          /\ broughtUp' = [broughtUp EXCEPT ![o] = @ \cup {c}]
      BY <2>1 DEF StartSucceeds, Online
    <3>2. status'[c] \in Running /\ \A e \in Procs : status[e] \in Running => status'[e] \in Running
      BY <3>1 DEF Typed, Running
    <3>3. \A p \in Invs : steady'[p] = steady[p] /\ broughtUp'[p] \subseteq broughtUp[p] \cup {c}
      BY <3>1 DEF Typed
    <3> QED BY <3>2, <3>3 DEF UpInv
  <2> QED BY <1>1, <1>5, <2>1 DEF Outcome, StartFails, LateStart, StopEnds, Stopped
<1>6. ASSUME NEW c \in Procs, Container(c) PROVE UpInv'
  <2>1. CASE FireTimer(c)
    <3>1. Rises /\ UNCHANGED history
      BY <2>1 DEF FireTimer, Rises, Running, Typed
    <3> QED BY <1>2, <3>1
  <2>2. ASSUME NEW g \in BOOLEAN, Exit(c, g) PROVE UpInv'
    <3>1. CASE autorestart[c] /\ ~g
      <4>1. Rises /\ UNCHANGED history
        BY <2>2, <3>1 DEF Exit, Rises, Running, Typed
      <4> QED BY <1>2, <4>1
    <3>2. CASE ~(autorestart[c] /\ ~g)
      BY <1>1, <2>2, <3>2 DEF Exit
    <3> QED BY <3>1, <3>2
  <2> QED BY <1>1, <1>6, <2>1, <2>2 DEF Container, PolicyStopEnds, Stopped, TimerStart
<1>7. CASE UNCHANGED vars
  BY <1>2, <1>7 DEF vars, containerVars, Rises
<1> QED BY <1>3, <1>4, <1>5, <1>6, <1>7 DEF Next, Request, RequestOne

(* What the steps of others and of the containers do to an operation.       *)
Untouched(p) ==
    /\ phase'[p] = phase[p] /\ left'[p] = left[p] /\ started'[p] = started[p]
    /\ awaits'[p] = awaits[p]
    /\ steady'[p] \subseteq steady[p] /\ broughtUp'[p] \subseteq broughtUp[p]

(* An operation keeps its invariant in every step that does not touch it.   *)
LEMMA UntouchedOpInv ==
    ASSUME NEW p \in Invs, OpInv(p), Untouched(p)
    PROVE  OpInv(p)'
<1>1. /\ phase'[p] \in {"idle", "queued"} => started'[p] = <<>>
      /\ phase'[p] \in {"idle", "queued", "start"} => awaits'[p] = {}
      /\ phase'[p] = "member" => awaits'[p] \subseteq {Head(left'[p])}
  BY DEF OpInv, Untouched
<1>2. phase'[p] \in {"deps", "member"} =>
          Head(left'[p]) \notin steady'[p] /\ awaits'[p] \cap steady'[p] = {}
  BY DEF OpInv, Untouched
<1>3. \A i \in 1..Len(started'[p]) : started'[p][i] \notin steady'[p]
  BY DEF OpInv, Untouched
<1>4. phase'[p] = "rollback" =>
          /\ \A i \in 1..Len(left'[p]) : left'[p][i] \notin steady'[p]
          /\ \A c \in broughtUp'[p] : \E i \in 1..Len(left'[p]) : left'[p][i] = c
  BY DEF OpInv, Untouched
<1>5. phase'[p] # "rollback" =>
          \A c \in broughtUp'[p] : \E i \in 1..Len(started'[p]) : started'[p][i] = c
  BY DEF OpInv, Untouched
<1> QED BY <1>1, <1>2, <1>3, <1>4, <1>5 DEF OpInv

(* The step of one operation touches no other.                              *)
LEMMA OthersUntouched ==
    ASSUME Typed, NEW o \in Invs, NEW p \in Invs \ {o},
           \/ \E n \in Namespaces \cup {None}, v \in {"start", "stop", "restart"},
                 m \in Seq(Procs) : Enter(o, n, v, m)
           \/ Turn(o)
           \/ Outcome(o)
    PROVE  Untouched(p)
<1> USE DEF Untouched
<1>1. ASSUME NEW n, NEW v, NEW m, Enter(o, n, v, m) PROVE Untouched(p)
  BY <1>1 DEF Enter, Typed, history
<1>2. ASSUME WentDown
      PROVE  steady'[p] \subseteq steady[p] /\ broughtUp'[p] \subseteq broughtUp[p]
  BY <1>2 DEF WentDown, StillUp
<1>3. ASSUME Turn(o) PROVE Untouched(p)
  <2>1. CASE Acquire(o)
    BY <2>1 DEF Acquire, Typed
  <2>2. CASE StopNext(o)
    BY <1>2, <2>2 DEF StopNext, Typed
  <2>3. CASE StopsDone(o)
    BY <2>3 DEF StopsDone, Typed, history
  <2>4. CASE StartNext(o)
    BY <2>4 DEF StartNext, Typed, history
  <2>5. CASE DepsNext(o)
    BY <2>5 DEF DepsNext, Typed, history
  <2>6. CASE MemberNext(o)
    BY <2>6 DEF MemberNext, Typed, history
  <2>7. CASE RollbackNext(o)
    BY <1>2, <2>7 DEF RollbackNext, Typed
  <2>8. CASE Finish(o)
    BY <2>8 DEF Finish, Forget, Typed
  <2> QED BY <1>3, <2>1, <2>2, <2>3, <2>4, <2>5, <2>6, <2>7, <2>8 DEF Turn
<1>4. ASSUME NEW c \in Procs, StartSucceeds(o, c) PROVE Untouched(p)
  BY <1>4 DEF StartSucceeds, Recorded, Typed
<1>5. ASSUME NEW c \in Procs, StartFails(o, c) PROVE Untouched(p)
  BY <1>2, <1>5 DEF StartFails, Typed
<1>6. ASSUME NEW c \in Procs, LateStart(o, c) PROVE Untouched(p)
  BY <1>2, <1>6 DEF LateStart
<1>7. ASSUME NEW c \in Procs, StopEnds(o, c) PROVE Untouched(p)
  BY <1>2, <1>7 DEF StopEnds, Stopped, Typed
<1> QED BY <1>1, <1>3, <1>4, <1>5, <1>6, <1>7 DEF Outcome

(* What a container does by itself touches no operation.                    *)
LEMMA ContainerUntouched ==
    ASSUME Typed, NEW c \in Procs, Container(c), NEW p \in Invs
    PROVE  Untouched(p)
<1> USE DEF Untouched, invVars, history
<1>1. ASSUME WentDown
      PROVE  steady'[p] \subseteq steady[p] /\ broughtUp'[p] \subseteq broughtUp[p]
  BY <1>1 DEF WentDown, StillUp
<1>2. CASE PolicyStopEnds(c)
  BY <1>1, <1>2 DEF PolicyStopEnds, Stopped
<1>3. CASE FireTimer(c)
  BY <1>3 DEF FireTimer
<1>4. CASE TimerStart(c)
  BY <1>1, <1>4 DEF TimerStart
<1>5. ASSUME NEW g \in BOOLEAN, Exit(c, g) PROVE Untouched(p)
  BY <1>1, <1>5 DEF Exit
<1> QED BY <1>2, <1>3, <1>4, <1>5 DEF Container
(* The turns of an operation keep its invariant: it starts only what is     *)
(* down.                                                                    *)
LEMMA OwnStep ==
    ASSUME Typed, MemberAtHead, UpInv, NEW o \in Invs, OpInv(o), Turn(o)
    PROVE  OpInv(o)'
<1>0. left[o] # <<>> => /\ Head(left[o]) = left[o][1] /\ Tail(left[o]) \in Seq(Procs)
                        /\ Len(left[o]) \in Nat /\ Len(Tail(left[o])) = Len(left[o]) - 1
                        /\ \A i \in 1..Len(Tail(left[o])) : Tail(left[o])[i] = left[o][i + 1]
  BY HeadTailProperties, LenProperties DEF Typed
<1>1. CASE Acquire(o)
  <2>1. /\ phase[o] = "queued" /\ phase'[o] \in {"start", "stop"}
        /\ UNCHANGED <<left, awaits, started, broughtUp>>
    BY <1>1 DEF Acquire, Typed
  <2>2. started[o] = <<>> /\ awaits[o] = {}
    BY <2>1 DEF OpInv
  <2>3. Len(started[o]) = 0
    BY <2>2, EmptySeq
  <2> QED BY <2>1, <2>2, <2>3 DEF OpInv
<1>2. CASE StopNext(o)
  <2>1. /\ phase[o] = "stop" /\ phase'[o] = "stop" /\ started'[o] = started[o]
        /\ steady'[o] \subseteq steady[o] /\ broughtUp'[o] \subseteq broughtUp[o]
    BY <1>2 DEF StopNext, WentDown, StillUp
  <2>2. \A i \in 1..Len(started[o]) : started[o][i] \notin steady'[o]
    BY <2>1 DEF OpInv
  <2>3. \A c \in broughtUp'[o] : \E i \in 1..Len(started[o]) : started[o][i] = c
    BY <2>1 DEF OpInv
  <2> QED BY <2>1, <2>2, <2>3 DEF OpInv
<1>3. CASE StopsDone(o)
  <2>1. /\ phase[o] = "stop" /\ phase'[o] = "start" /\ awaits[o] = {}
        /\ UNCHANGED <<awaits, started, steady, broughtUp>>
    BY <1>3 DEF StopsDone, Typed, history
  <2> QED BY <2>1 DEF OpInv
<1>4. CASE StartNext(o)
  <2> DEFINE c == Head(left[o])
  <2>1. /\ phase[o] = "start" /\ left[o] # <<>>
        /\ UNCHANGED <<awaits, started, steady, broughtUp>>
        /\ \/ phase' = phase
           \/ phase' = [phase EXCEPT ![o] = "deps"] /\ status[c] \notin Running
              /\ UNCHANGED left
    BY <1>4 DEF StartNext, history
  <2>2. awaits[o] = {}
    BY <2>1 DEF OpInv
  <2>3. CASE phase' = phase
    BY <2>1, <2>2, <2>3 DEF OpInv
  <2>4. CASE phase' = [phase EXCEPT ![o] = "deps"] /\ status[c] \notin Running /\ UNCHANGED left
    <3>1. c \notin steady[o]
      BY <2>4 DEF UpInv
    <3>2. phase'[o] = "deps"
      BY <2>4 DEF Typed
    <3> QED BY <2>1, <2>2, <2>4, <3>1, <3>2 DEF OpInv
  <2> QED BY <2>1, <2>3, <2>4
<1>5. CASE DepsNext(o)
  <2>1. /\ phase[o] = "deps" /\ UNCHANGED <<phase, left, started, steady, broughtUp>>
        /\ awaits'[o] = NextStarts(o) /\ todo[o] # {}
    BY <1>5 DEF DepsNext, Typed, history
  <2>2. \A c \in NextStarts(o) : status[c] \notin Running
    BY <2>1 DEF NextStarts
  <2>3. NextStarts(o) \cap steady[o] = {}
    BY <2>2 DEF UpInv
  <2> QED BY <2>1, <2>3 DEF OpInv
<1>6. CASE MemberNext(o)
  <2> DEFINE c == Head(left[o])
  <2>1. /\ phase[o] = "deps" /\ awaits[o] = {} /\ c \notin steady[o] /\ c \in Procs
        /\ UNCHANGED <<steady, broughtUp>>
        /\ \/ /\ phase' = [phase EXCEPT ![o] = "start"] /\ UNCHANGED awaits
              /\ started' = [started EXCEPT ![o] = Record(o, c)]
           \/ /\ phase' = [phase EXCEPT ![o] = "member"] /\ UNCHANGED <<left, started>>
              /\ awaits' = [awaits EXCEPT ![o] = {c}]
    BY <1>6, HeadTailProperties DEF MemberNext, Ready, OpInv, MemberAtHead, Typed, history
  <2>2. CASE started' = [started EXCEPT ![o] = Record(o, c)]
             /\ phase' = [phase EXCEPT ![o] = "start"] /\ UNCHANGED awaits
    <3>1. started'[o] = Record(o, c) /\ phase'[o] = "start" /\ awaits'[o] = {}
      BY <2>1, <2>2 DEF Typed
    <3> DEFINE r == Record(o, c)
    <3>2. /\ \A i \in 1..Len(r) :
                 r[i] = c \/ \E j \in 1..Len(started[o]) : r[i] = started[o][j]
          /\ \A j \in 1..Len(started[o]) : \E i \in 1..Len(r) : r[i] = started[o][j]
      <4>1. c \in Procs
        BY <2>1
      <4> HIDE DEF c
      <4> QED BY <4>1, RecordType
    <3>3. started'[o] = r
      BY <3>1
    <3> HIDE DEF r
    <3>4. \A i \in 1..Len(r) : r[i] \notin steady'[o]
      BY <2>1, <3>2 DEF OpInv
    <3>5. \A e \in broughtUp'[o] : \E i \in 1..Len(r) : r[i] = e
      <4> TAKE e \in broughtUp'[o]
      <4>1. PICK j \in 1..Len(started[o]) : started[o][j] = e
        BY <2>1 DEF OpInv
      <4> QED BY <3>2, <4>1
    <3> QED BY <3>1, <3>3, <3>4, <3>5 DEF OpInv
  <2>3. CASE /\ phase' = [phase EXCEPT ![o] = "member"] /\ UNCHANGED <<left, started>>
             /\ awaits' = [awaits EXCEPT ![o] = {c}]
    <3>1. phase'[o] = "member" /\ awaits'[o] = {c}
      BY <2>3 DEF Typed
    <3> QED BY <2>1, <2>3, <3>1 DEF OpInv
  <2> QED BY <2>1, <2>2, <2>3
<1>7. CASE RollbackNext(o)
  <2> DEFINE c == Head(left[o])
             t == Tail(left[o])
  <2>1. /\ phase[o] = "rollback" /\ UNCHANGED <<phase, started>> /\ left[o] # <<>>
        /\ left'[o] = t /\ StopHeads({c}, status) /\ WentDown
    BY <1>7 DEF RollbackNext, Typed
  <2>2. /\ steady'[o] \subseteq steady[o] /\ broughtUp'[o] = {e \in broughtUp[o] : status'[e] \in Running}
    BY <2>1 DEF WentDown, StillUp
  <2>3. c \notin broughtUp'[o]
    BY <2>1, <2>2 DEF StopHeads, DownStatus, Running, UpInv
  <2>4. \A i \in 1..Len(t) : i + 1 \in 1..Len(left[o]) /\ t[i] = left[o][i + 1]
    BY <1>0, <2>1
  <2>5. \A i \in 1..Len(t) : t[i] \notin steady'[o]
    BY <2>1, <2>2, <2>4 DEF OpInv
  <2>6. ASSUME NEW e \in broughtUp'[o] PROVE \E i \in 1..Len(t) : t[i] = e
    <3>1. PICK j \in 1..Len(left[o]) : left[o][j] = e
      BY <2>1, <2>2 DEF OpInv
    <3>2. j # 1
      BY <1>0, <2>1, <2>3, <3>1
    <3>3. j - 1 \in 1..Len(t) /\ j - 1 + 1 = j
      BY <1>0, <2>1, <3>1, <3>2
    <3> QED BY <2>4, <3>1, <3>3
  <2>7. \A i \in 1..Len(started[o]) : started[o][i] \notin steady'[o]
    BY <2>2 DEF OpInv
  <2> HIDE DEF t
  <2> QED BY <2>1, <2>5, <2>6, <2>7 DEF OpInv
<1>8. CASE Finish(o)
  <2>1. /\ phase'[o] = "idle" /\ started'[o] = <<>> /\ awaits'[o] = {}
        /\ steady'[o] = {} /\ broughtUp'[o] = {}
    BY <1>8 DEF Finish, Forget, Typed
  <2> QED BY <2>1 DEF OpInv
<1> QED BY <1>1, <1>2, <1>3, <1>4, <1>5, <1>6, <1>7, <1>8 DEF Turn

(* So do the outcomes of the start() and stop() calls it awaits.            *)
LEMMA OwnOutcome ==
    ASSUME Typed, MemberAtHead, UpInv, NEW o \in Invs, OpInv(o), Outcome(o)
    PROVE  OpInv(o)'
<1>1. ASSUME NEW c \in Procs, StartSucceeds(o, c) PROVE OpInv(o)'
  <2>1. /\ phase[o] \in {"deps", "member"} /\ c \in awaits[o] /\ c \notin steady[o]
        /\ started'[o] = Record(o, c) /\ awaits'[o] = awaits[o] \ {c}
        /\ UNCHANGED steady /\ broughtUp'[o] = broughtUp[o] \cup {c}
        /\ \/ phase[o] = "member" /\ phase'[o] = "start"
           \/ phase[o] = "deps" /\ UNCHANGED <<phase, left>>
    BY <1>1 DEF StartSucceeds, Recorded, OpInv, Typed
  <2> DEFINE r == Record(o, c)
  <2>2. /\ \A i \in 1..Len(r) :
               r[i] = c \/ \E j \in 1..Len(started[o]) : r[i] = started[o][j]
        /\ \A j \in 1..Len(started[o]) : \E i \in 1..Len(r) : r[i] = started[o][j]
        /\ \E i \in 1..Len(r) : r[i] = c
    BY RecordType
  <2>3. started'[o] = r
    BY <2>1
  <2> HIDE DEF r
  <2>4. \A i \in 1..Len(r) : r[i] \notin steady'[o]
    BY <2>1, <2>2 DEF OpInv
  <2>5. \A e \in broughtUp'[o] : \E i \in 1..Len(r) : r[i] = e
    <3> TAKE e \in broughtUp'[o]
    <3>1. CASE e = c
      BY <2>2, <3>1
    <3>2. CASE e \in broughtUp[o]
      <4>1. PICK j \in 1..Len(started[o]) : started[o][j] = e
        BY <2>1, <3>2 DEF OpInv
      <4> QED BY <2>2, <4>1
    <3> QED BY <2>1, <3>1, <3>2
  <2>6. CASE phase[o] = "member" /\ phase'[o] = "start"
    <3>1. awaits'[o] = {}
      BY <2>1, <2>6 DEF OpInv
    <3> QED BY <2>3, <2>4, <2>5, <2>6, <3>1 DEF OpInv
  <2>7. CASE phase[o] = "deps" /\ UNCHANGED <<phase, left>>
    <3>1. /\ phase'[o] = "deps" /\ left'[o] = left[o] /\ awaits'[o] \subseteq awaits[o]
          /\ steady'[o] = steady[o]
      BY <2>1, <2>7
    <3>2. Head(left'[o]) \notin steady'[o] /\ awaits'[o] \cap steady'[o] = {}
      BY <2>7, <3>1 DEF OpInv
    <3> QED BY <2>3, <2>4, <2>5, <3>1, <3>2 DEF OpInv
  <2> QED BY <2>1, <2>6, <2>7
<1>2. ASSUME NEW c \in Procs, StartFails(o, c) PROVE OpInv(o)'
  <2>1. /\ phase[o] # "rollback" /\ phase'[o] = "rollback" /\ left'[o] = RollbackScope(o)
        /\ UNCHANGED started
        /\ steady'[o] \subseteq steady[o] /\ broughtUp'[o] \subseteq broughtUp[o]
    BY <1>2 DEF StartFails, WentDown, StillUp, Typed
  <2> DEFINE r == RollbackScope(o)
  <2>2. /\ \A i \in 1..Len(r) : \E j \in 1..Len(started[o]) : r[i] = started[o][j]
        /\ \A j \in 1..Len(started[o]) : \E i \in 1..Len(r) : r[i] = started[o][j]
    BY RollbackScopeType
  <2>3. left'[o] = r
    BY <2>1
  <2> HIDE DEF r
  <2>4. \A i \in 1..Len(r) : r[i] \notin steady'[o]
    BY <2>1, <2>2 DEF OpInv
  <2>5. \A e \in broughtUp'[o] : \E i \in 1..Len(r) : r[i] = e
    <3> TAKE e \in broughtUp'[o]
    <3>1. PICK j \in 1..Len(started[o]) : started[o][j] = e
      BY <2>1 DEF OpInv
    <3> QED BY <2>2, <3>1
  <2>6. \A i \in 1..Len(started[o]) : started[o][i] \notin steady'[o]
    BY <2>1 DEF OpInv
  <2> QED BY <2>1, <2>3, <2>4, <2>5, <2>6 DEF OpInv
<1>3. ASSUME NEW c \in Procs, LateStart(o, c) PROVE OpInv(o)'
  <2>1. Untouched(o)
    BY <1>3 DEF LateStart, WentDown, StillUp, Untouched
  <2> QED BY <2>1, UntouchedOpInv
<1>4. ASSUME NEW c \in Procs, StopEnds(o, c) PROVE OpInv(o)'
  <2>1. /\ phase[o] \in {"stop", "rollback"} /\ UNCHANGED <<phase, left, started>>
        /\ steady'[o] \subseteq steady[o] /\ broughtUp'[o] \subseteq broughtUp[o]
    BY <1>4 DEF StopEnds, Stopped, WentDown, StillUp
  <2> QED BY <2>1 DEF OpInv
<1> QED BY <1>1, <1>2, <1>3, <1>4 DEF Outcome

(* A new request has started nothing.                                       *)
LEMMA EnterOpInv ==
    ASSUME Typed, NEW o \in Invs, OpInv(o), NEW n, NEW v, NEW m, Enter(o, n, v, m)
    PROVE  OpInv(o)'
<1>1. /\ phase[o] = "idle" /\ phase'[o] = "queued"
      /\ UNCHANGED <<awaits, started, steady, broughtUp>>
  BY DEF Enter, Typed, history
<1> QED BY <1>1 DEF OpInv

(* Records, histories and statuses agree in every reachable state.          *)
LEMMA RollbackInvInductive == Spec => []RollbackInv
<1>1. Init => RollbackInv
  <2> SUFFICES ASSUME Init PROVE RollbackInv
    OBVIOUS
  <2> QED BY EmptySeq DEF Init, RollbackInv, UpInv, OpInv
<1>2. Typed /\ MemberAtHead /\ RollbackInv /\ [Next]_vars => RollbackInv'
  <2> SUFFICES ASSUME Typed, MemberAtHead, RollbackInv, [Next]_vars, NEW p \in Invs
               PROVE  OpInv(p)'
    BY UpInvStep DEF RollbackInv
  <2>1. ASSUME NEW o \in Invs,
               \/ \E n \in Namespaces \cup {None}, v \in {"start", "stop", "restart"},
                     m \in Seq(Procs) : Enter(o, n, v, m)
               \/ Turn(o)
               \/ Outcome(o)
        PROVE  OpInv(p)'
    <3>1. CASE p = o
      BY <2>1, <3>1, EnterOpInv, OwnStep, OwnOutcome DEF RollbackInv
    <3>2. CASE p # o
      BY <2>1, <3>2, OthersUntouched, UntouchedOpInv DEF RollbackInv
    <3> QED BY <3>1, <3>2
  <2>2. ASSUME NEW o \in Invs, NEW v \in Verbs, NEW n \in Namespaces, Request(o, n, v)
        PROVE  OpInv(p)'
    <3>1. /\ Enter(o, n, v, Members[n]) /\ n \in Namespaces \cup {None}
          /\ v \in {"start", "stop", "restart"} /\ Members[n] \in Seq(Procs)
      BY <2>2 DEF Request
    <3> QED BY <2>1, <3>1
  <2>3. ASSUME NEW o \in Invs, NEW v \in SingleVerbs, NEW c \in Procs, RequestOne(o, c, v)
        PROVE  OpInv(p)'
    <3> DEFINE n == None
               m == <<c>>
    <3>1. /\ Enter(o, n, v, m) /\ n \in Namespaces \cup {None}
          /\ v \in {"start", "stop", "restart"} /\ m \in Seq(Procs)
      BY <2>3 DEF RequestOne
    <3> HIDE DEF n, m
    <3> QED BY <2>1, <3>1
  <2>4. ASSUME NEW c \in Procs, Container(c) PROVE OpInv(p)'
    BY <2>4, ContainerUntouched, UntouchedOpInv DEF RollbackInv
  <2>5. CASE UNCHANGED vars
    <3>1. Untouched(p)
      BY <2>5 DEF vars, invVars, history, Untouched
    <3> QED BY <3>1, UntouchedOpInv DEF RollbackInv
  <2> QED BY <2>1, <2>2, <2>3, <2>4, <2>5 DEF Next
<1> QED BY <1>1, <1>2, TypesInductive, PTL DEF Spec

(* Only the operation's own Finish takes it to idle, and only its own step  *)
(* of the rollback loop shortens what is left while it rolls back.          *)
LEMMA LeavingRollback ==
    ASSUME Typed, NEW o \in Invs, phase[o] = "rollback", [Next]_vars
    PROVE  /\ phase'[o] = "idle" => Finish(o)
           /\ left'[o] # left[o] /\ phase'[o] = "rollback" => RollbackNext(o)
<1>1. ASSUME Untouched(o)
      PROVE  phase'[o] = "rollback" /\ left'[o] = left[o]
  BY <1>1 DEF Untouched
<1>2. CASE \E q \in Invs : Turn(q) \/ Outcome(q)
  <2>1. PICK q \in Invs : Turn(q) \/ Outcome(q)
    BY <1>2
  <2>2. CASE q # o
    BY <1>1, <2>1, <2>2, OthersUntouched
  <2>3. CASE q = o /\ Turn(o)
    <3>1. RollbackNext(o) \/ Finish(o)
      BY <2>3 DEF Turn, Acquire, StopNext, StopsDone, StartNext, DepsNext, MemberNext
    <3>2. RollbackNext(o) => phase'[o] = "rollback"
      BY DEF RollbackNext
    <3>3. Finish(o) => phase'[o] = "idle"
      BY DEF Finish, Typed
    <3> QED BY <3>1, <3>2, <3>3
  <2>4. CASE q = o /\ Outcome(o)
    BY <2>4 DEF Outcome, StartSucceeds, StartFails, LateStart, StopEnds, Stopped
  <2> QED BY <2>1, <2>2, <2>3, <2>4
<1>3. ASSUME NEW q \in Invs, NEW n, NEW v, NEW m, Enter(q, n, v, m)
      PROVE  phase'[o] = "rollback" /\ left'[o] = left[o]
  BY <1>3 DEF Enter, Typed
<1>4. ASSUME NEW c \in Procs, Container(c)
      PROVE  phase'[o] = "rollback" /\ left'[o] = left[o]
  BY <1>1, <1>4, ContainerUntouched
<1>5. CASE UNCHANGED vars
  BY <1>5 DEF vars, invVars
<1> QED BY <1>2, <1>3, <1>4, <1>5 DEF Next, Request, RequestOne

(* When the rollback of a failed start is over, nothing that came up because *)
(* of it runs: of any fleet, dependencies and failures.                      *)
THEOREM RollbackIsComplete == Spec => RollbackComplete
<1>1. Typed /\ RollbackInv /\ [Next]_vars =>
          \A o \in Invs : phase[o] = "rollback" /\ phase'[o] = "idle"
              => \A c \in broughtUp[o] : status[c] \notin Running
  <2> SUFFICES ASSUME Typed, RollbackInv, [Next]_vars, NEW o \in Invs,
                      phase[o] = "rollback", phase'[o] = "idle"
               PROVE  broughtUp[o] = {}
    OBVIOUS
  <2>1. left[o] = <<>>
    BY LeavingRollback DEF Finish
  <2>2. Len(left[o]) = 0
    BY <2>1, EmptySeq
  <2> QED BY <2>2 DEF RollbackInv, OpInv
<1> QED BY <1>1, TypesInductive, RollbackInvInductive, PTL DEF Spec, RollbackComplete

(* A rollback stops nothing that ran when its operation began and ran on.   *)
THEOREM RollbackSparesTheRest == Spec => RollbackSparesRunning
<1>1. Typed /\ RollbackInv /\ [Next]_vars =>
          \A o \in Invs : phase[o] = "rollback" /\ left'[o] # left[o] /\ phase'[o] = "rollback"
              => Head(left[o]) \notin steady[o]
  <2> SUFFICES ASSUME Typed, RollbackInv, [Next]_vars, NEW o \in Invs,
                      phase[o] = "rollback", left'[o] # left[o], phase'[o] = "rollback"
               PROVE  Head(left[o]) \notin steady[o]
    OBVIOUS
  <2>1. left[o] # <<>> /\ left[o] \in Seq(Procs)
    BY LeavingRollback DEF RollbackNext, Typed
  <2>2. 1 \in 1..Len(left[o]) /\ Head(left[o]) = left[o][1]
    BY <2>1, LenProperties, EmptySeq
  <2> QED BY <2>2 DEF RollbackInv, OpInv
<1> QED BY <1>1, TypesInductive, RollbackInvInductive, PTL DEF Spec, RollbackSparesRunning
=============================================================================
