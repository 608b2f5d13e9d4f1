----------------------------- MODULE ProcessTable -----------------------------
(* The process list of the daemon and its dump on disk (process-manager.ts):  *)
(* start, resume, scale, stop, delete, shutdown and resurrect as programs of  *)
(* steps with an await each, the auto-save after every mutation, and the end  *)
(* of the daemon between any two of them.                                     *)
(* What a step does inside a container is the business of ProcessContainer:   *)
(* here a container is launching, online, stopping, waiting or at rest.       *)
EXTENDS Naturals, Sequences, SeqFilter

CONSTANTS Names,       \* applications (base names)
          Joined,      \* those of one namespace,
          Followers,   \* of which these stop when a member exits (onNsMemberExit)
          Slots,       \* bound: requests in flight
          MaxIds,      \* bound: process ids
          MaxObjects,  \* bound: containers one daemon ever creates
          MaxBoots,    \* bound: daemons in a row
          MaxRequests  \* bound: requests ever made, one that overlaps another counts twice,
                       \* the stops of the exit policy at one exit once

ASSUME TableAssumption == /\ Followers \subseteq Joined /\ Joined \subseteq Names
                          /\ {MaxIds, MaxObjects, MaxBoots} \subseteq Nat \ {0}
                          /\ MaxRequests \in Nat
                          /\ 1 \in Slots      \* the one a boot resurrects in

Id == 0..(MaxIds - 1)
Object == 1..MaxObjects
NoObject == 0

VARIABLES procs,    \* this.processes: the container each id refers to
          cont,     \* the containers: [name, id, st]
          nextId,
          ops,      \* what each request still has to do
          dump,     \* dump.json: its entries, whether it is intact
          boots,    \* daemons so far
          asked,    \* requests so far
          up,       \* a daemon is running
          meant,    \* history: what the completed requests want of each name
          serial    \* history: no two requests have overlapped

tabVars == <<procs, cont, nextId, ops, dump, boots, asked, up, meant, serial>>

Blank == [name |-> "none", id |-> 0, st |-> "unborn"]
NoRequest == [todo |-> <<>>, busy |-> NoObject, then |-> "none", rest |-> {}, saving |-> FALSE,
          data |-> <<>>, started |-> <<>>, tolerant |-> FALSE, policy |-> FALSE,
          goal |-> [n \in {} |-> ""]]

Listed == {procs[i] : i \in Id} \ {NoObject}
Of(n) == {k \in Listed : cont[k].name = n}
ById(S) == Among([j \in 1..MaxIds |-> procs[j - 1]], S)
Up(k) == cont[k].st \in {"online", "launching", "waiting"}
Step(do, k) == [do |-> do, k |-> k, name |-> "none", id |-> 0, stopped |-> FALSE]
Create(n) == [Step("create", NoObject) EXCEPT !.name = n]

TabInit ==
  /\ procs = [i \in Id |-> NoObject] /\ cont = [k \in Object |-> Blank] /\ nextId = 0
  /\ ops = [o \in Slots |-> NoRequest]
  /\ dump = [entries |-> <<>>, intact |-> TRUE]
  /\ boots = 1 /\ asked = 0 /\ up = TRUE
  /\ meant = [n \in Names |-> "absent"] /\ serial = TRUE

------------------------------------------------------------------------------
(* Requests. rest is what a live iteration over the map has seen (sweep).     *)
Quiescent == \A o \in Slots : ops[o] = NoRequest

Request(o, prog) ==
  /\ up /\ ops[o] = NoRequest /\ \A p \in Slots : ops[p] = NoRequest => o <= p
  /\ asked' = asked + (IF Quiescent THEN 1 ELSE 2) /\ asked' <= MaxRequests
  /\ ops' = [ops EXCEPT ![o] = prog]
  /\ serial' = (serial /\ Quiescent)
  /\ UNCHANGED <<procs, cont, nextId, dump, boots, up, meant>>

Want(S, w) == [n \in S |-> w]

\* start(options) with 1 or 2 instances: resume what exists, create the rest.
StartScript(o) ==
  \E n \in Names, count \in 1..2 :
    LET old == ById(Of(n))
    IN  Request(o, [NoRequest EXCEPT
          !.todo = [i \in DOMAIN old |-> Step("resume", old[i])]
                   \o [i \in 1..(IF Len(old) < count THEN count - Len(old) ELSE 0) |-> Create(n)],
          !.then = "save", !.goal = Want({n}, "run")])

\* scale() down: the surplus is stopped and deleted. (Scaling up creates, as above.)
ScaleDown(o) ==
  \E n \in Names :
    LET old == ById(Of(n))
    IN  /\ Len(old) = 2
        /\ Request(o, [NoRequest EXCEPT !.todo = <<Step("remove", old[2])>>, !.then = "save"])

\* startTarget("all"): every process that does not run, failures are collected.
StartAll(o) ==
  LET all == ById(Listed)
  IN  /\ Listed # {}
      /\ Request(o, [NoRequest EXCEPT
           !.todo = [i \in DOMAIN all |-> Step("resume", all[i])], !.then = "save",
           !.tolerant = TRUE, !.goal = Want({cont[k].name : k \in Listed}, "run")])

StopOne(o) ==
  \E n \in Names :
    LET all == ById(Of(n))
    IN  /\ Of(n) # {}
        /\ Request(o, [NoRequest EXCEPT !.todo = [i \in DOMAIN all |-> Step("stop", all[i])],
                                    !.then = "save", !.goal = Want({n}, "stop")])

Delete(o) ==
  \E n \in Names :
    LET all == ById(Of(n))
    IN  /\ Of(n) # {}
        /\ Request(o, [NoRequest EXCEPT !.todo = [i \in DOMAIN all |-> Step("remove", all[i])],
                                    !.then = "save", !.goal = Want({n}, "absent")])

\* stopAll() by the user, deleteAll(), and the shutdown of the daemon.
ShutdownSaves == "save"          \* mutant: persist
AfterShutdown == "exit"          \* stopAll({persist: false}), then process.exit

Sweep(o) ==
  \E w \in {"save", "clear", "exit"} :
    Request(o, [NoRequest EXCEPT !.rest = {NoObject},
                  !.then = IF w = "exit" THEN AfterShutdown ELSE w,
                  !.goal = CASE w = "save" -> Want({cont[k].name : k \in Listed}, "stop")
                             [] w = "clear" -> Want(Names, "absent")
                             [] OTHER -> Want({}, "")])

Items == IF dump.intact
           THEN [i \in DOMAIN dump.entries |->
                   [Step("item", NoObject) EXCEPT !.name = dump.entries[i].name,
                      !.id = dump.entries[i].id, !.stopped = dump.entries[i].stopped]]
           ELSE <<>>              \* readJSON throws: "Resurrect failed", []

Resurrection == [NoRequest EXCEPT !.todo = Items, !.tolerant = TRUE, !.then = "quiet"]

Resurrect(o) == Items # <<>> /\ Request(o, Resurrection)

------------------------------------------------------------------------------
(* Steps of a request: one begins, is awaited, ends. Requests do not work on  *)
(* one container at the same time (see ProcessContainer), except that a stop  *)
(* finds nothing to stop in a container that is launching.                    *)
Task(o) == ops[o].todo[1]
Pop(op) == [op EXCEPT !.todo = Tail(@), !.busy = NoObject]
Busy(k) == \E p \in Slots : ops[p].busy = k
Unused == {k \in Object : cont[k].st = "unborn"}
NewObject == CHOOSE k \in Unused : TRUE

ResumeBegins(o) ==
  LET k == Task(o).k
  IN  /\ Task(o).do = "resume" /\ ~Busy(k)
      /\ IF Up(k)
           THEN /\ ops' = [ops EXCEPT ![o] = Pop(@)] /\ UNCHANGED cont
           ELSE /\ cont' = [cont EXCEPT ![k].st = "launching"]
                /\ ops' = [ops EXCEPT ![o].busy = k]
      /\ UNCHANGED <<procs, nextId>>

\* new ProcessContainer, processes.set, start().
CreateBegins(o) ==
  /\ Task(o).do = "create" /\ Unused # {} /\ nextId \in Id
  /\ cont' = [cont EXCEPT ![NewObject] = [name |-> Task(o).name, id |-> nextId,
                                          st |-> "launching"]]
  /\ procs' = [procs EXCEPT ![nextId] = NewObject]
  /\ nextId' = nextId + 1
  /\ ops' = [ops EXCEPT ![o].busy = NewObject]

\* stop() up to its await; of a launching container it returns at once.
StopBegins(o) ==
  LET k == Task(o).k
  IN  /\ Task(o).do \in {"stop", "remove"}
      /\ cont[k].st = "launching" \/ ~Busy(k)
      /\ cont' = IF cont[k].st = "launching" THEN cont
                 ELSE [cont EXCEPT ![k].st = IF @ = "online" THEN "stopping" ELSE "stopped"]
      /\ IF cont[k].st = "online"
           THEN /\ ops' = [ops EXCEPT ![o].busy = k] /\ UNCHANGED procs
           ELSE /\ ops' = [ops EXCEPT ![o] = Pop(@)]
                /\ procs' = IF Task(o).do = "remove"
                              THEN [procs EXCEPT ![cont[k].id] = NoObject] ELSE procs
      /\ UNCHANGED nextId

\* One entry of the dump: replaces whatever does not run under its id.
IdNotBumped(id) == nextId        \* mutant
IdAfter(id) == IF id >= nextId THEN id + 1 ELSE nextId

PlaceItem(o) ==
  LET it == Task(o)
      there == procs[it.id]
      k == NewObject
  IN  /\ it.do = "item"
      /\ IF there # NoObject /\ cont[there].st \in {"online", "launching"}
           THEN /\ ops' = [ops EXCEPT ![o] = Pop(@)]
                /\ UNCHANGED <<cont, procs, nextId>>
           ELSE /\ Unused # {}
                /\ cont' = [cont EXCEPT ![k] = [name |-> it.name, id |-> it.id, st |-> "stopped"]]
                /\ procs' = [procs EXCEPT ![it.id] = k]
                /\ nextId' = IdAfter(it.id)
                /\ ops' = [ops EXCEPT ![o].todo =
                     IF it.stopped THEN Tail(@) ELSE Append(Tail(@), Step("resume", k))]

StepBegins(o) ==
  /\ up /\ ops[o].todo # <<>> /\ ops[o].busy = NoObject
  /\ ResumeBegins(o) \/ CreateBegins(o) \/ StopBegins(o) \/ PlaceItem(o)
  /\ UNCHANGED <<dump, boots, asked, up, meant, serial>>

\* start() returns: online, or it throws and the request is rolled back.
StartReturns(o) ==
  LET k == ops[o].busy
  IN  /\ up /\ k # NoObject /\ cont[k].st = "launching"
      /\ \/ /\ cont' = [cont EXCEPT ![k].st = "online"]
            /\ ops' = [ops EXCEPT ![o] = [Pop(@) EXCEPT !.started = <<k>> \o ops[o].started]]
            /\ UNCHANGED meant
         \/ /\ cont' = [cont EXCEPT ![k].st = "errored"]
            /\ IF ops[o].tolerant
                 THEN /\ ops' = [ops EXCEPT ![o] = Pop(@)]
                      /\ UNCHANGED meant
                 ELSE LET r == ops[o].started
                      IN  /\ ops' = [ops EXCEPT ![o] = [NoRequest EXCEPT
                               !.todo = [i \in DOMAIN r |-> Step("stop", r[i])], !.then = "quiet"]]
                          /\ meant' = [meant EXCEPT ![cont[k].name] = "any"]
      /\ UNCHANGED <<procs, nextId, dump, boots, asked, up, serial>>

StopReturns(o) ==
  LET k == ops[o].busy
  IN  /\ up /\ k # NoObject /\ cont[k].st = "stopping"
      /\ cont' = [cont EXCEPT ![k].st = "stopped"]
      /\ procs' = IF Task(o).do = "remove" THEN [procs EXCEPT ![cont[k].id] = NoObject] ELSE procs
      /\ ops' = [ops EXCEPT ![o] = Pop(@)]
      /\ UNCHANGED <<nextId, dump, boots, asked, up, meant, serial>>

\* The next container of a live iteration over the map, also one added meanwhile.
SweepNext(o) ==
  \E k \in Listed \ ops[o].rest :
    /\ up /\ ops[o].rest # {} /\ ops[o].todo = <<>> /\ ~ops[o].saving
    /\ \A j \in Listed \ ops[o].rest : cont[k].id <= cont[j].id
    /\ ops' = [ops EXCEPT ![o].todo = <<Step("stop", k)>>, ![o].rest = @ \cup {k}]
    /\ UNCHANGED <<procs, cont, nextId, dump, boots, asked, up, meant, serial>>

Done(o) == /\ up /\ ops[o] # NoRequest /\ ops[o].todo = <<>> /\ ~ops[o].saving
           /\ (ops[o].rest = {} \/ Listed \subseteq ops[o].rest)

\* save() up to the write: the snapshot of the list.
StoppedFlag(k) == cont[k].st = "stopped"
Snapshot(P) ==
  LET ids == Among([j \in 1..MaxIds |-> j - 1], {i \in Id : P[i] # NoObject})
  IN  [j \in 1..Len(ids) |-> [name |-> cont[P[ids[j]]].name, id |-> ids[j],
                              stopped |-> StoppedFlag(P[ids[j]])]]

SaveBegins(o) ==
  /\ Done(o) /\ ops[o].then \in {"save", "clear"}
  /\ procs' = IF ops[o].then = "clear" THEN [i \in Id |-> NoObject] ELSE procs
  /\ nextId' = IF ops[o].then = "clear" THEN 0 ELSE nextId
  /\ ops' = [ops EXCEPT ![o].saving = TRUE, ![o].data = Snapshot(procs')]
  /\ UNCHANGED <<cont, dump, boots, asked, up, meant, serial>>

Answered(goal) == [n \in Names |-> IF n \in DOMAIN goal THEN goal[n] ELSE meant[n]]

\* A write that fails has left the dump alone or torn it; persist() only warns, and
\* nothing is promised of the names the request was about, or of any in a torn dump.
SaveWritten(o) == /\ dump' = [entries |-> ops[o].data, intact |-> TRUE]
                  /\ meant' = Answered(ops[o].goal)
SaveTorn == /\ dump' = [entries |-> <<>>, intact |-> FALSE]
            /\ meant' = Want(Names, "any")
SaveMissing(o) == /\ UNCHANGED dump
                  /\ meant' = Answered(Want(DOMAIN ops[o].goal, "any"))

SaveEnds(o) ==
  /\ up /\ ops[o].saving
  /\ SaveWritten(o) \/ SaveTorn \/ SaveMissing(o)
  /\ ops' = [ops EXCEPT ![o] = NoRequest]
  /\ UNCHANGED <<procs, cont, nextId, boots, asked, up, serial>>

RequestEnds(o) ==
  /\ Done(o) /\ ops[o].then = "quiet"
  /\ ops' = [ops EXCEPT ![o] = NoRequest]
  /\ UNCHANGED <<procs, cont, nextId, dump, boots, asked, up, meant, serial>>

------------------------------------------------------------------------------
(* A child exits by itself, its crash restart, and the end of the daemon.     *)
(* (Bound: exits are looked at while requests do not overlap; NamespaceOps    *)
(* has those that do.)                                                        *)
\* onFinalExit: what runs of the namespace and follows its members.
Siblings(k) == {j \in Listed \ {k} : /\ cont[k].name \in Joined /\ cont[j].name \in Followers
                                     /\ Up(j)}
PolicyStop(j) ==
  [NoRequest EXCEPT !.todo = <<Step("stop", j)>>, !.then = "save", !.policy = TRUE,
     !.goal = Want({cont[j].name}, IF Of(cont[j].name) = {j} THEN "stop" ELSE "any")]

\* Each is stopped, and the list saved, by a program of its own that nobody awaits and
\* no lock holds back, whatever else is under way.
Jobs(told) ==
  {job \in [Slots -> told \cup {NoObject}] :
     /\ \A o \in Slots : job[o] # NoObject => ops[o] = NoRequest
     /\ \A j \in told : \E o \in Slots : job[o] = j /\ \A p \in Slots : job[p] = j => p = o
     /\ \A o, p \in Slots : job[p] # NoObject /\ ops[o] = NoRequest /\ job[o] = NoObject => p < o}

Exempt(op, n) == [op EXCEPT !.goal = [m \in DOMAIN @ |-> IF m = n THEN "any" ELSE @[m]]]

Exits(k) ==
  /\ up /\ cont[k].st = "online" /\ ~Busy(k) /\ serial
  /\ \E s \in {"waiting", "stopped", "errored"} :
       LET n == cont[k].name
           told == IF s = "waiting" THEN {} ELSE Siblings(k)
       IN  /\ cont' = [cont EXCEPT ![k].st = s]
           /\ meant' = IF s = "stopped" THEN [meant EXCEPT ![n] = "any"] ELSE meant
           /\ \E job \in Jobs(told) :
                ops' = [o \in Slots |->
                  LET op == IF job[o] = NoObject THEN ops[o] ELSE PolicyStop(job[o])
                  IN  IF s = "stopped" THEN Exempt(op, n) ELSE op]
           /\ serial' = (told = {} \/ (Quiescent /\ \A i, j \in told : i = j))
           /\ asked' = asked + (IF told = {} THEN 0 ELSE 1) /\ asked' <= MaxRequests
  /\ UNCHANGED <<procs, nextId, dump, boots, up>>

CrashRestart(k) ==
  /\ up /\ cont[k].st = "waiting" /\ ~Busy(k)
  /\ \E s \in {"online", "errored"} : cont' = [cont EXCEPT ![k].st = s]
  /\ UNCHANGED <<procs, nextId, ops, dump, boots, asked, up, meant, serial>>

\* A write the end of the daemon cuts off has happened, has not, or is half done.
Gone ==
  LET writing == {o \in Slots : ops[o].saving}
  IN  /\ up' = FALSE
      /\ procs' = [i \in Id |-> NoObject] /\ cont' = [k \in Object |-> Blank] /\ nextId' = 0
      /\ ops' = [o \in Slots |-> NoRequest]
      /\ \/ dump' = dump /\ meant' = meant
         \/ \E o \in writing : SaveWritten(o)
         \/ writing # {} /\ SaveTorn
      /\ UNCHANGED <<boots, asked, serial>>

DaemonExits == \E o \in Slots : Done(o) /\ ops[o].then = "exit" /\ Gone
\* (Bound: only where a next daemon follows.)
DaemonCrashes == up /\ boots < MaxBoots /\ serial /\ Gone

\* The next daemon, and the `pboss resurrect` that brings it up. (Bound: what follows an
\* overlap of requests is followed to the end of the daemon.)
Boot ==
  /\ ~up /\ boots < MaxBoots /\ serial
  /\ boots' = boots + 1 /\ up' = TRUE
  /\ ops' = [ops EXCEPT ![1] = Resurrection]
  /\ UNCHANGED <<procs, cont, nextId, dump, asked, meant, serial>>

TabNext ==
  \/ \E o \in Slots :
       \/ /\ up /\ ops[o] = NoRequest /\ asked < MaxRequests
          /\ \/ StartScript(o) \/ ScaleDown(o) \/ StartAll(o) \/ StopOne(o) \/ Delete(o)
             \/ Sweep(o) \/ Resurrect(o)
       \/ StepBegins(o) \/ StartReturns(o) \/ StopReturns(o) \/ SweepNext(o)
       \/ SaveBegins(o) \/ SaveEnds(o) \/ RequestEnds(o)
  \/ \E k \in Object : Exits(k) \/ CrashRestart(k)
  \/ DaemonExits \/ DaemonCrashes \/ Boot

TabSpec == TabInit /\ [][TabNext]_tabVars

------------------------------------------------------------------------------
TabTypeOK ==
  /\ procs \in [Id -> Object \cup {NoObject}] /\ nextId \in 0..MaxIds
  /\ \A k \in Object : /\ cont[k].name \in Names \cup {"none"} /\ cont[k].id \in Id
                       /\ cont[k].st \in {"unborn", "stopped", "launching", "online",
                                          "stopping", "waiting", "errored"}
  /\ \A o \in Slots : ops[o].then \in {"none", "save", "clear", "exit", "quiet"}
  /\ up \in BOOLEAN /\ boots \in 1..MaxBoots /\ asked \in 0..MaxRequests
  /\ serial \in BOOLEAN
  /\ meant \in [Names -> {"absent", "run", "stop", "any"}]

(* nextId, startInternal, scale, deleteAll, resurrect: whatever overlaps, the *)
(* id the next start takes is free and no listed process has it or a later    *)
(* one, so that no start ever overwrites an entry of the list.                *)
IdsFresh == \A i \in Id : procs[i] # NoObject => i < nextId /\ cont[procs[i]].id = i

(* save() and resurrect(): while requests do not overlap, after any shutdown  *)
(* or crash of the daemon the list is what the last completed requests meant: *)
(* started names are listed and were brought up, stopped names are listed and *)
(* down, deleted names are gone, and what the exit policy stopped stays down.  *)
(* A name is exempt once its process has ended by itself, its start has       *)
(* failed, or the save of its last request has; all are when the dump is torn *)
(* (README).                                                                  *)
RebootRestoresIntent ==
  (up /\ Quiescent /\ serial) =>
    \A n \in Names :
      /\ meant[n] = "run" => \E k \in Of(n) : cont[k].st # "stopped"
      /\ meant[n] = "stop" => Of(n) # {} /\ \A k \in Of(n) : cont[k].st = "stopped"
      /\ meant[n] = "absent" => Of(n) = {}

(* process-manager.ts:1132: "The daemon shutdown path ... opts OUT: the dump  *)
(* must keep describing what SHOULD run so the next boot resurrects           *)
(* everything as it was": while it stops the processes, and nobody but the    *)
(* exit policy asks for anything, no save takes one of them for stopped that  *)
(* the last request wants to run. Violated: when a member ends before its     *)
(* turn, its siblings are stopped and the whole list is saved.                *)
ShutsDown(o) == ops[o].then = "exit" /\ \A p \in Slots \ {o} : ops[p] = NoRequest \/ ops[p].policy
ShutdownKeepsDump ==
  [][\A o \in Slots : (ShutsDown(o) /\ up' /\ dump' # dump) =>
       \A i \in DOMAIN dump'.entries :
         meant'[dump'.entries[i].name] = "run" => ~dump'.entries[i].stopped]_tabVars
=============================================================================
