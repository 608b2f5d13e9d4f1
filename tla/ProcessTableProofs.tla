-------------------------- MODULE ProcessTableProofs ---------------------------
(***************************************************************************)
(* What holds of ProcessTable for any number of names, ids and requests.   *)
(***************************************************************************)
EXTENDS ProcessTable, NaturalOrder, TLAPS

-----------------------------------------------------------------------------
(* The process table *)

(* The words of a request: steps name containers that exist, entries of a    *)
(* dump have an id and a name.                                               *)
Created == {k \in Object : cont[k].st # "unborn"}
ContStates == {"unborn", "stopped", "launching", "online", "stopping", "waiting", "errored"}
Conts == [name : Names \cup {"none"}, id : Id, st : ContStates]
Wishes == {"absent", "run", "stop", "any"}
Goals == UNION {[S -> Wishes] : S \in SUBSET Names}
TabSteps(B) ==
  {s \in [do : {"resume", "create", "stop", "remove", "item"}, k : B \cup {NoObject},
          name : Names \cup {"none"}, id : Id, stopped : BOOLEAN] :
     IF s.do \in {"create", "item"} THEN s.name \in Names ELSE s.k \in B}
Entries == [name : Names, id : Id, stopped : BOOLEAN]
TabRequests(B) ==
  [todo : Seq(TabSteps(B)), busy : B \cup {NoObject},
   then : {"none", "save", "clear", "exit", "quiet"}, rest : SUBSET (Object \cup {NoObject}),
   saving : BOOLEAN, data : Seq(Entries), started : Seq(B), tolerant : BOOLEAN,
   policy : BOOLEAN, goal : Goals]

(* The list: its ids are below nextId, and under each is its own container,  *)
(* which has a name.                                                         *)
ListTyped ==
  /\ procs \in [Id -> Object \cup {NoObject}] /\ nextId \in 0 .. MaxIds
  /\ cont \in [Object -> Conts]
  /\ \A k \in Created : cont[k].name \in Names
  /\ \A i \in Id : procs[i] # NoObject => procs[i] \in Created
(* The requests: whoever awaits a container has the step it awaits it for.   *)
RequestsTyped ==
  /\ ops \in [Slots -> TabRequests(Created)]
  /\ \A o \in Slots : ops[o].busy # NoObject => ops[o].todo # <<>>
RestTyped ==
  /\ dump \in [entries : Seq(Entries), intact : BOOLEAN]
  /\ boots \in 1 .. MaxBoots /\ asked \in 0 .. MaxRequests
  /\ up \in BOOLEAN /\ serial \in BOOLEAN /\ meant \in [Names -> Wishes]

TabInv == ListTyped /\ IdsFresh /\ RequestsTyped /\ RestTyped

(* Words over a smaller set are words over a larger one.                     *)
LEMMA MoreCreated ==
  ASSUME NEW B, NEW C, B \subseteq C, NEW r \in TabRequests(B)
  PROVE  r \in TabRequests(C)
<1>1. TabSteps(B) \subseteq TabSteps(C)
  BY DEF TabSteps
<1>2. r.todo \in Seq(TabSteps(C)) /\ r.started \in Seq(C)
  <2>1. r.todo \in Seq(TabSteps(B)) /\ r.started \in Seq(B)
    BY DEF TabRequests
  <2> QED BY <1>1, <2>1, SeqMonotonic
<1> QED BY <1>2 DEF TabRequests

(* One field of a request changes within its type.                           *)
LEMMA FieldChanges ==
  ASSUME NEW B, NEW r \in TabRequests(B)
  PROVE  /\ \A x \in Seq(TabSteps(B)) : [r EXCEPT !.todo = x] \in TabRequests(B)
         /\ \A x \in B \cup {NoObject} : [r EXCEPT !.busy = x] \in TabRequests(B)
         /\ \A x \in {"none", "save", "clear", "exit", "quiet"} :
              [r EXCEPT !.then = x] \in TabRequests(B)
         /\ \A x \in SUBSET (Object \cup {NoObject}) : [r EXCEPT !.rest = x] \in TabRequests(B)
         /\ \A x \in BOOLEAN : [r EXCEPT !.saving = x] \in TabRequests(B)
         /\ \A x \in Seq(Entries) : [r EXCEPT !.data = x] \in TabRequests(B)
         /\ \A x \in Seq(B) : [r EXCEPT !.started = x] \in TabRequests(B)
         /\ \A x \in BOOLEAN : [r EXCEPT !.tolerant = x] \in TabRequests(B)
         /\ \A x \in Goals : [r EXCEPT !.goal = x] \in TabRequests(B)
BY DEF TabRequests

(* No request is one.                                                        *)
LEMMA NoRequestTyped ==
  ASSUME NEW B PROVE NoRequest \in TabRequests(B) /\ NoRequest.busy = NoObject
<1>1. [n \in {} |-> ""] \in Goals
  <2>1. [n \in {} |-> ""] \in [{} -> Wishes]
    OBVIOUS
  <2> QED BY <2>1 DEF Goals
<1>2. <<>> \in Seq(TabSteps(B)) /\ <<>> \in Seq(Entries) /\ <<>> \in Seq(B)
  BY EmptySeq
<1> QED BY <1>1, <1>2 DEF NoRequest, TabRequests

(* A slot takes a new request, or one that has changed.                      *)
LEMMA SlotChanges ==
  ASSUME RequestsTyped, NEW o \in Slots, NEW r, Created \subseteq Created',
         r \in TabRequests(Created'), r.busy # NoObject => r.todo # <<>>,
         ops' = [ops EXCEPT ![o] = r]
  PROVE  RequestsTyped'
<1>1. \A p \in Slots : ops[p] \in TabRequests(Created')
  BY MoreCreated DEF RequestsTyped
<1>2. ops' \in [Slots -> TabRequests(Created')]
  BY <1>1 DEF RequestsTyped
<1>3. \A p \in Slots : ops'[p].busy # NoObject => ops'[p].todo # <<>>
  BY DEF RequestsTyped
<1> QED BY <1>2, <1>3 DEF RequestsTyped

(* Single steps, and runs of them.                                           *)
LEMMA StepTyped ==
  ASSUME NEW B
  PROVE  /\ \A k \in B : \A do \in {"resume", "stop", "remove"} :
              Step(do, k) \in TabSteps(B)
         /\ \A n \in Names : Create(n) \in TabSteps(B)
<1>1. 0 \in Id
  BY TableAssumption DEF Id
<1> QED BY <1>1 DEF Step, Create, TabSteps

(* The first step of a request, and the request without it.                  *)
LEMMA TaskTyped ==
  ASSUME RequestsTyped, NEW o \in Slots, ops[o].todo # <<>>
  PROVE  /\ Task(o) \in TabSteps(Created)
         /\ Tail(ops[o].todo) \in Seq(TabSteps(Created))
         /\ Pop(ops[o]) \in TabRequests(Created) /\ Pop(ops[o]).busy = NoObject
<1>1. ops[o] \in TabRequests(Created)
  BY DEF RequestsTyped
<1>2. ops[o].todo \in Seq(TabSteps(Created))
  BY <1>1 DEF TabRequests
<1>3. Len(ops[o].todo) \in Nat \ {0}
  BY <1>2, EmptySeq
<1>4. ops[o].todo[1] \in TabSteps(Created)
  BY <1>2, <1>3, ElementOfSeq
<1>5. Tail(ops[o].todo) \in Seq(TabSteps(Created))
  BY <1>2, HeadTailProperties
<1>6. [ops[o] EXCEPT !.todo = Tail(ops[o].todo)] \in TabRequests(Created)
  BY <1>1, <1>5, FieldChanges
<1>7. Pop(ops[o]) = [[ops[o] EXCEPT !.todo = Tail(ops[o].todo)] EXCEPT !.busy = NoObject]
  BY <1>1 DEF Pop, TabRequests
<1>8. \A r \in TabRequests(Created) : [r EXCEPT !.busy = NoObject] \in TabRequests(Created)
  BY FieldChanges
<1>10. Pop(ops[o]) \in TabRequests(Created)
  BY <1>6, <1>7, <1>8
<1>9. Pop(ops[o]).busy = NoObject
  BY <1>6, <1>7 DEF TabRequests
<1> QED BY <1>4, <1>5, <1>10, <1>9 DEF Task

(* The list when containers change their state and entries leave it.         *)
LEMMA ListMoves ==
  ASSUME ListTyped, IdsFresh, nextId' = nextId,
         procs' = procs \/ \E i \in Id : procs' = [procs EXCEPT ![i] = NoObject],
         \/ cont' = cont
         \/ \E k \in Created : \E st \in ContStates \ {"unborn"} :
              cont' = [cont EXCEPT ![k].st = st]
  PROVE  ListTyped' /\ IdsFresh' /\ Created' = Created
<1>1. cont' \in [Object -> Conts]
  BY DEF ListTyped, Conts, Created
<1>2. /\ \A k \in Object : cont'[k].name = cont[k].name /\ cont'[k].id = cont[k].id
      /\ \A k \in Object : (cont'[k].st = "unborn") = (cont[k].st = "unborn")
  BY DEF ListTyped, Conts, Created
<1>3. Created' = Created
  BY <1>2 DEF Created
<1>4. /\ procs' \in [Id -> Object \cup {NoObject}]
      /\ \A i \in Id : procs'[i] # NoObject => procs'[i] = procs[i]
  BY DEF ListTyped
<1>5. ListTyped'
  BY <1>1, <1>2, <1>3, <1>4 DEF ListTyped, Created
<1>6. IdsFresh'
  BY <1>2, <1>3, <1>4 DEF IdsFresh, ListTyped, Created
<1> QED BY <1>3, <1>5, <1>6

(* The list when a new container takes the id nextId, or that of an entry,   *)
(* and nextId moves past it.                                                 *)
LEMMA ListGrows ==
  ASSUME ListTyped, IdsFresh, NEW k \in Unused, NEW i \in Id, NEW n \in Names,
         NEW st \in ContStates \ {"unborn"},
         cont' = [cont EXCEPT ![k] = [name |-> n, id |-> i, st |-> st]],
         procs' = [procs EXCEPT ![i] = k],
         nextId' \in 0 .. MaxIds, i < nextId', nextId <= nextId'
  PROVE  ListTyped' /\ IdsFresh' /\ Created' = Created \cup {k} /\ Created \subseteq Created'
<1>0. k \in Object /\ k \notin Created /\ k # NoObject
  BY DEF Unused, Created, Object, NoObject
<1>1. [name |-> n, id |-> i, st |-> st] \in Conts
  BY DEF Conts
<1>2. cont' \in [Object -> Conts]
  BY <1>1 DEF ListTyped
<1>3. /\ cont'[k] = [name |-> n, id |-> i, st |-> st]
      /\ \A j \in Object \ {k} : cont'[j] = cont[j]
  BY <1>0 DEF ListTyped
<1>4. Created' = Created \cup {k}
  BY <1>0, <1>3 DEF Created
<1>5. /\ procs' \in [Id -> Object \cup {NoObject}]
      /\ procs'[i] = k /\ \A j \in Id \ {i} : procs'[j] = procs[j]
  BY <1>0 DEF ListTyped
<1>6. \A j \in Created' : cont'[j].name \in Names
  <2>1. \A j \in Created : j \in Object \ {k}
    BY <1>0 DEF Created
  <2> QED BY <1>3, <1>4, <2>1 DEF ListTyped
<1>7. ListTyped'
  BY <1>2, <1>4, <1>5, <1>6 DEF ListTyped
<1>8. ASSUME NEW j \in Id, procs'[j] # NoObject
      PROVE  j < nextId' /\ cont'[procs'[j]].id = j
  <2>1. CASE j = i
    BY <2>1, <1>3, <1>5
  <2>2. CASE j # i
    <3>1. procs'[j] = procs[j] /\ procs[j] \in Created
      BY <2>2, <1>5, <1>8 DEF ListTyped
    <3>2. j < nextId /\ cont[procs[j]].id = j
      BY <3>1, <1>8 DEF IdsFresh
    <3>3. procs[j] \in Object \ {k}
      BY <3>1, <1>0 DEF Created
    <3> QED BY <3>1, <3>2, <3>3, <1>3 DEF ListTyped, Id
  <2> QED BY <2>1, <2>2
<1>9. IdsFresh'
  BY <1>8 DEF IdsFresh
<1> QED BY <1>4, <1>7, <1>9

(* A container not yet used, if there is one.                                *)
LEMMA NewUnused ==
  ASSUME Unused # {} PROVE NewObject \in Unused
BY DEF NewObject

(* What is listed exists and has a name; so does what ById lists of it.      *)
LEMMA ListedTyped ==
  ASSUME ListTyped
  PROVE  /\ Listed \subseteq Created /\ \A k \in Listed : cont[k].name \in Names
         /\ \A n : Of(n) \subseteq Listed
BY DEF ListTyped, Listed, Of

LEMMA ByIdTyped ==
  ASSUME ListTyped, NEW S, S \subseteq Created
  PROVE  ById(S) \in Seq(Created)
<1> DEFINE box == [j \in 1 .. MaxIds |-> procs[j - 1]]
<1> DEFINE res == Among(box, S)
<1>1. MaxIds \in Nat \ {0}
  BY TableAssumption
<1>2. \A j \in 1 .. MaxIds : j - 1 \in Id
  BY <1>1 DEF Id
<1>3. \A j \in 1 .. MaxIds : procs[j - 1] \in Object \cup {NoObject}
  BY <1>2 DEF ListTyped
<1>4. box \in Seq(Object \cup {NoObject})
  BY <1>1, <1>3, IsASeq
<1> HIDE DEF box
<1>5. res \in Seq(Object \cup {NoObject}) /\ ToSet(res) = ToSet(box) \cap S
  BY <1>4, AmongElements
<1> HIDE DEF res
<1>6. \A j \in 1 .. Len(res) : res[j] \in Created
  <2>1. DOMAIN res = 1 .. Len(res)
    BY <1>5, LenProperties
  <2> QED BY <1>5, <2>1 DEF ToSet
<1>7. res \in Seq(Created)
  <2>1. res = [j \in 1 .. Len(res) |-> res[j]] /\ Len(res) \in Nat
    BY <1>5, LenProperties
  <2> QED BY <1>6, <2>1, IsASeq
<1> QED BY <1>7 DEF res, box, ById

(* The snapshot of a save lists entries: whatever is listed has a name.      *)
LEMMA SnapshotTyped ==
  ASSUME ListTyped, NEW P \in [Id -> Object \cup {NoObject}],
         \A i \in Id : P[i] # NoObject => P[i] \in Created
  PROVE  Snapshot(P) \in Seq(Entries)
<1> DEFINE box == [j \in 1 .. MaxIds |-> j - 1]
<1> DEFINE used == {i \in Id : P[i] # NoObject}
<1> DEFINE ids == Among(box, used)
<1>1. box \in Seq(Id)
  <2>1. MaxIds \in Nat /\ \A j \in 1 .. MaxIds : j - 1 \in Id
    BY TableAssumption DEF Id
  <2> QED BY <2>1, IsASeq
<1> HIDE DEF box
<1>2. ids \in Seq(Id) /\ ToSet(ids) = ToSet(box) \cap used
  BY <1>1, AmongElements
<1> DEFINE snap == [j \in 1 .. Len(ids) |-> [name |-> cont[P[ids[j]]].name, id |-> ids[j],
                                             stopped |-> StoppedFlag(P[ids[j]])]]
<1>3. Snapshot(P) = snap
  BY DEF Snapshot, box
<1> HIDE DEF ids
<1>4. \A j \in 1 .. Len(ids) : ids[j] \in Id /\ P[ids[j]] \in Created
  <2>1. DOMAIN ids = 1 .. Len(ids)
    BY <1>2, LenProperties
  <2> QED BY <1>2, <2>1 DEF ToSet
<1>5. \A j \in 1 .. Len(ids) :
        [name |-> cont[P[ids[j]]].name, id |-> ids[j], stopped |-> StoppedFlag(P[ids[j]])]
          \in Entries
  BY <1>4 DEF ListTyped, Entries, StoppedFlag
<1>6. Len(ids) \in Nat
  BY <1>2, LenProperties
<1>7. snap \in Seq(Entries)
  BY <1>5, <1>6, IsASeq
<1> QED BY <1>3, <1>7

(* One step for each container of a sequence.                                *)
LEMMA StepsTyped ==
  ASSUME NEW B, NEW q \in Seq(B), NEW do \in {"resume", "stop", "remove"}
  PROVE  [i \in DOMAIN q |-> Step(do, q[i])] \in Seq(TabSteps(B))
<1>1. DOMAIN q = 1 .. Len(q) /\ Len(q) \in Nat /\ \A i \in 1 .. Len(q) : q[i] \in B
  BY LenProperties, ElementOfSeq
<1>2. \A i \in 1 .. Len(q) : Step(do, q[i]) \in TabSteps(B)
  BY <1>1, StepTyped
<1>3. [i \in 1 .. Len(q) |-> Step(do, q[i])] \in Seq(TabSteps(B))
  BY <1>1, <1>2, IsASeq
<1> QED BY <1>1, <1>3

LEMMA WantTyped ==
  ASSUME NEW S \in SUBSET Names, NEW w \in Wishes PROVE Want(S, w) \in Goals
BY DEF Want, Goals

(* The steps that resurrect what the dump lists.                             *)
LEMMA ItemsTyped ==
  ASSUME RestTyped PROVE Items \in Seq(TabSteps(Created))
<1> DEFINE q == dump.entries
<1> DEFINE item(i) == [Step("item", NoObject) EXCEPT !.name = dump.entries[i].name,
                         !.id = dump.entries[i].id, !.stopped = dump.entries[i].stopped]
<1>1. q \in Seq(Entries)
  BY DEF RestTyped
<1>2. DOMAIN q = 1 .. Len(q) /\ Len(q) \in Nat /\ \A i \in 1 .. Len(q) : q[i] \in Entries
  BY <1>1, LenProperties, ElementOfSeq
<1>3. ASSUME NEW e \in Entries
      PROVE  [Step("item", NoObject) EXCEPT !.name = e.name, !.id = e.id, !.stopped = e.stopped]
               \in TabSteps(Created)
  BY DEF Step, TabSteps, Entries
<1>4. \A i \in 1 .. Len(q) : item(i) \in TabSteps(Created)
  BY <1>2, <1>3
<1>5. [i \in 1 .. Len(q) |-> item(i)] \in Seq(TabSteps(Created))
  <2> HIDE DEF item, q
  <2> QED BY <1>2, <1>4, IsASeq
<1>6. [i \in DOMAIN dump.entries |-> item(i)] \in Seq(TabSteps(Created))
  BY <1>2, <1>5
<1>7. <<>> \in Seq(TabSteps(Created))
  BY EmptySeq
<1> QED BY <1>6, <1>7 DEF Items

LEMMA ResurrectionTyped ==
  ASSUME RestTyped
  PROVE  Resurrection \in TabRequests(Created) /\ Resurrection.busy = NoObject
<1>1. Items \in Seq(TabSteps(Created)) /\ NoRequest \in TabRequests(Created)
      /\ NoRequest.busy = NoObject
  BY ItemsTyped, NoRequestTyped
<1> HIDE DEF Items, NoRequest
<1>2. LET x == [NoRequest EXCEPT !.todo = Items, !.tolerant = TRUE, !.then = "quiet"]
      IN  x \in TabRequests(Created) /\ x.busy = NoObject
  BY <1>1 DEF TabRequests
<1> QED BY <1>2 DEF Resurrection

(* What a request leaves alone.                                              *)
LEMMA ListKept ==
  ASSUME ListTyped, IdsFresh, UNCHANGED <<procs, cont, nextId>>
  PROVE  ListTyped' /\ IdsFresh' /\ Created' = Created
BY ListMoves

LEMMA RestKept ==
  ASSUME RestTyped, UNCHANGED <<dump, boots, asked, up, meant, serial>>
  PROVE  RestTyped'
BY DEF RestTyped

LEMMA AnsweredTyped ==
  ASSUME RestTyped, NEW g \in Goals PROVE Answered(g) \in [Names -> Wishes]
BY DEF RestTyped, Goals, Answered

(* A request is made.                                                        *)
LEMMA RequestMade ==
  ASSUME TabInv, NEW o \in Slots, NEW prog \in TabRequests(Created), prog.busy = NoObject,
         Request(o, prog)
  PROVE  TabInv'
<1>1. ListTyped' /\ IdsFresh' /\ Created' = Created
  BY ListKept DEF TabInv, Request
<1>2. RequestsTyped'
  BY <1>1, SlotChanges DEF TabInv, Request
<1>3. RestTyped'
  BY TableAssumption DEF TabInv, RestTyped, Request
<1> QED BY <1>1, <1>2, <1>3 DEF TabInv

(* Each script asks for steps its containers and names exist for.            *)
LEMMA StartScriptKeeps ==
  ASSUME TabInv, NEW o \in Slots, StartScript(o) PROVE TabInv'
<1>1. PICK n \in Names, count \in 1 .. 2 :
        Request(o, [NoRequest EXCEPT
          !.todo = [i \in DOMAIN ById(Of(n)) |-> Step("resume", ById(Of(n))[i])]
                   \o [i \in 1..(IF Len(ById(Of(n))) < count
                                   THEN count - Len(ById(Of(n))) ELSE 0) |-> Create(n)],
          !.then = "save", !.goal = Want({n}, "run")])
  BY DEF StartScript
<1> DEFINE old == ById(Of(n))
<1> DEFINE more == IF Len(old) < count THEN count - Len(old) ELSE 0
<1> DEFINE first == [i \in DOMAIN old |-> Step("resume", old[i])]
<1> DEFINE new == [i \in 1 .. more |-> Create(n)]
<1> DEFINE todo == first \o new
<1> DEFINE goal == Want({n}, "run")
<1> DEFINE prog == [NoRequest EXCEPT !.todo = todo, !.then = "save", !.goal = goal]
<1>2. old \in Seq(Created)
  BY ListedTyped, ByIdTyped DEF TabInv
<1>3. first \in Seq(TabSteps(Created))
  <2> HIDE DEF old
  <2> QED BY <1>2, StepsTyped
<1>4. new \in Seq(TabSteps(Created))
  <2>1. more \in Nat
    <3> HIDE DEF old
    <3> QED BY <1>2, LenProperties
  <2>2. \A i \in 1 .. more : Create(n) \in TabSteps(Created)
    BY StepTyped
  <2> HIDE DEF more
  <2> QED BY <2>1, <2>2, IsASeq
<1>5. todo \in Seq(TabSteps(Created))
  <2> HIDE DEF first, new
  <2> QED BY <1>3, <1>4, ConcatProperties
<1>6. goal \in Goals
  BY WantTyped DEF Wishes
<1>7. Request(o, prog)
  BY <1>1
<1> HIDE DEF todo, goal
<1>8. NoRequest \in TabRequests(Created) /\ NoRequest.busy = NoObject
  BY NoRequestTyped
<1>9. prog \in TabRequests(Created) /\ prog.busy = NoObject
  <2> HIDE DEF NoRequest
  <2> QED BY <1>5, <1>6, <1>8 DEF TabRequests
<1> HIDE DEF prog
<1> QED BY <1>7, <1>9, RequestMade

LEMMA ScaleDownKeeps ==
  ASSUME TabInv, NEW o \in Slots, ScaleDown(o) PROVE TabInv'
<1>1. PICK n \in Names :
        /\ Len(ById(Of(n))) = 2
        /\ Request(o, [NoRequest EXCEPT !.todo = <<Step("remove", ById(Of(n))[2])>>,
                                        !.then = "save"])
  BY DEF ScaleDown
<1> DEFINE old == ById(Of(n))
<1> DEFINE todo == <<Step("remove", old[2])>>
<1> DEFINE prog == [NoRequest EXCEPT !.todo = todo, !.then = "save"]
<1>2. old \in Seq(Created)
  BY ListedTyped, ByIdTyped DEF TabInv
<1>3. old[2] \in Created
  <2> HIDE DEF old
  <2> QED BY <1>1, <1>2, ElementOfSeq DEF old
<1>4. todo \in Seq(TabSteps(Created))
  <2>1. Step("remove", old[2]) \in TabSteps(Created)
    BY <1>3, StepTyped
  <2> HIDE DEF old
  <2> DEFINE st == Step("remove", old[2])
  <2> HIDE DEF st
  <2>2. <<st>> \in Seq(TabSteps(Created))
    BY <2>1 DEF st
  <2> QED BY <2>2 DEF st
<1>5. Request(o, prog)
  BY <1>1
<1> HIDE DEF todo
<1>6. NoRequest \in TabRequests(Created) /\ NoRequest.busy = NoObject
  BY NoRequestTyped
<1>7. prog \in TabRequests(Created) /\ prog.busy = NoObject
  <2> HIDE DEF NoRequest
  <2> QED BY <1>4, <1>6 DEF TabRequests
<1> HIDE DEF prog
<1> QED BY <1>5, <1>7, RequestMade

LEMMA StartAllKeeps ==
  ASSUME TabInv, NEW o \in Slots, StartAll(o) PROVE TabInv'
<1> DEFINE all == ById(Listed)
<1> DEFINE todo == [i \in DOMAIN all |-> Step("resume", all[i])]
<1> DEFINE goal == Want({cont[k].name : k \in Listed}, "run")
<1> DEFINE prog == [NoRequest EXCEPT !.todo = todo, !.then = "save", !.tolerant = TRUE,
                                     !.goal = goal]
<1>1. Request(o, prog)
  BY DEF StartAll
<1>2. all \in Seq(Created)
  BY ListedTyped, ByIdTyped DEF TabInv
<1>3. todo \in Seq(TabSteps(Created))
  <2> HIDE DEF all
  <2> QED BY <1>2, StepsTyped
<1>4. goal \in Goals
  <2>1. {cont[k].name : k \in Listed} \in SUBSET Names
    BY ListedTyped DEF TabInv
  <2> QED BY <2>1, WantTyped DEF Wishes
<1> HIDE DEF todo, goal
<1>5. NoRequest \in TabRequests(Created) /\ NoRequest.busy = NoObject
  BY NoRequestTyped
<1>6. prog \in TabRequests(Created) /\ prog.busy = NoObject
  <2> HIDE DEF NoRequest
  <2> QED BY <1>3, <1>4, <1>5 DEF TabRequests
<1> HIDE DEF prog
<1> QED BY <1>1, <1>6, RequestMade

LEMMA StopOrDeleteKeeps ==
  ASSUME TabInv, NEW o \in Slots, StopOne(o) \/ Delete(o) PROVE TabInv'
<1>1. PICK n \in Names, do \in {"stop", "remove"}, w \in {"stop", "absent"} :
        Request(o, [NoRequest EXCEPT
          !.todo = [i \in DOMAIN ById(Of(n)) |-> Step(do, ById(Of(n))[i])],
          !.then = "save", !.goal = Want({n}, w)])
  <2>1. CASE StopOne(o)
    BY <2>1 DEF StopOne
  <2>2. CASE Delete(o)
    BY <2>2 DEF Delete
  <2> QED BY <2>1, <2>2
<1> DEFINE all == ById(Of(n))
<1> DEFINE todo == [i \in DOMAIN all |-> Step(do, all[i])]
<1> DEFINE goal == Want({n}, w)
<1> DEFINE prog == [NoRequest EXCEPT !.todo = todo, !.then = "save", !.goal = goal]
<1>2. all \in Seq(Created)
  BY ListedTyped, ByIdTyped DEF TabInv
<1>3. todo \in Seq(TabSteps(Created))
  <2> HIDE DEF all
  <2>1. do \in {"resume", "stop", "remove"}
    OBVIOUS
  <2> QED BY <1>2, <2>1, StepsTyped
<1>4. goal \in Goals
  BY WantTyped DEF Wishes
<1>5. Request(o, prog)
  BY <1>1
<1> HIDE DEF todo, goal
<1>6. NoRequest \in TabRequests(Created) /\ NoRequest.busy = NoObject
  BY NoRequestTyped
<1>7. prog \in TabRequests(Created) /\ prog.busy = NoObject
  <2> HIDE DEF NoRequest
  <2> QED BY <1>3, <1>4, <1>6 DEF TabRequests
<1> HIDE DEF prog
<1> QED BY <1>5, <1>7, RequestMade

LEMMA SweepOrResurrectKeeps ==
  ASSUME TabInv, NEW o \in Slots, Sweep(o) \/ Resurrect(o) PROVE TabInv'
<1>1. CASE Resurrect(o)
  BY <1>1, ResurrectionTyped, RequestMade DEF Resurrect, TabInv
<1>2. CASE Sweep(o)
  <2>1. PICK w \in {"save", "clear", "exit"} :
          Request(o, [NoRequest EXCEPT !.rest = {NoObject},
                  !.then = IF w = "exit" THEN AfterShutdown ELSE w,
                  !.goal = CASE w = "save" -> Want({cont[k].name : k \in Listed}, "stop")
                             [] w = "clear" -> Want(Names, "absent")
                             [] OTHER -> Want({}, "")])
    BY <1>2 DEF Sweep
  <2> DEFINE then == IF w = "exit" THEN AfterShutdown ELSE w
  <2> DEFINE goal == CASE w = "save" -> Want({cont[k].name : k \in Listed}, "stop")
                       [] w = "clear" -> Want(Names, "absent")
                       [] OTHER -> Want({}, "")
  <2> DEFINE prog == [NoRequest EXCEPT !.rest = {NoObject}, !.then = then, !.goal = goal]
  <2>2. then \in {"save", "clear", "exit"}
    BY DEF AfterShutdown
  <2>3. goal \in Goals
    <3>1. {cont[k].name : k \in Listed} \in SUBSET Names
      BY ListedTyped DEF TabInv
    <3>2. /\ Want({cont[k].name : k \in Listed}, "stop") \in Goals
          /\ Want(Names, "absent") \in Goals
      BY <3>1, WantTyped DEF Wishes
    <3>3. Want({}, "") \in Goals
      <4>1. Want({}, "") \in [{} -> Wishes]
        BY DEF Want
      <4> QED BY <4>1 DEF Goals
    <3> QED BY <3>2, <3>3
  <2>4. Request(o, prog)
    BY <2>1
  <2> HIDE DEF then, goal
  <2>5. NoRequest \in TabRequests(Created) /\ NoRequest.busy = NoObject
    BY NoRequestTyped
  <2>6. prog \in TabRequests(Created) /\ prog.busy = NoObject
    <3> HIDE DEF NoRequest
    <3> QED BY <2>2, <2>3, <2>5 DEF TabRequests
  <2> HIDE DEF prog
  <2> QED BY <2>4, <2>6, RequestMade
<1> QED BY <1>1, <1>2

(* The steps of a request. What it awaits next, and that it has the step.    *)
LEMMA StepBeginsKeeps ==
  ASSUME TabInv, NEW o \in Slots, StepBegins(o) PROVE TabInv'
<1>0. /\ Task(o) \in TabSteps(Created) /\ Tail(ops[o].todo) \in Seq(TabSteps(Created))
      /\ Pop(ops[o]) \in TabRequests(Created) /\ Pop(ops[o]).busy = NoObject
  BY TaskTyped DEF TabInv, StepBegins
<1>r. RestTyped'
  BY RestKept DEF TabInv, StepBegins
<1>o. ops[o] \in TabRequests(Created) /\ ops[o].todo # <<>> /\ ops[o].busy = NoObject
  BY DEF TabInv, RequestsTyped, StepBegins
<1>b. \A C : \A r \in TabRequests(C), k \in C :
        /\ [r EXCEPT !.busy = k] \in TabRequests(C)
        /\ [r EXCEPT !.busy = k].todo = r.todo
  BY DEF TabRequests
<1>1. CASE ResumeBegins(o)
  <2> DEFINE k == Task(o).k
  <2>1. k \in Created
    BY <1>0, <1>1 DEF ResumeBegins, TabSteps
  <2>2. \/ cont' = cont
        \/ cont' = [cont EXCEPT ![k].st = "launching"]
    BY <1>1 DEF ResumeBegins
  <2>3. ListTyped' /\ IdsFresh' /\ Created' = Created
    BY <1>1, <2>1, <2>2, ListMoves DEF ResumeBegins, TabInv, ContStates
  <2>4. \/ ops' = [ops EXCEPT ![o] = Pop(ops[o])]
        \/ ops' = [ops EXCEPT ![o] = [ops[o] EXCEPT !.busy = k]]
    BY <1>1 DEF ResumeBegins
  <2> HIDE DEF k
  <2>5. RequestsTyped'
    <3>1. CASE ops' = [ops EXCEPT ![o] = Pop(ops[o])]
      BY <3>1, <1>0, <2>3, SlotChanges DEF TabInv
    <3>2. CASE ops' = [ops EXCEPT ![o] = [ops[o] EXCEPT !.busy = k]]
      <4> DEFINE r == [ops[o] EXCEPT !.busy = k]
      <4>1. r \in TabRequests(Created) /\ r.todo # <<>>
        BY <1>b, <1>o, <2>1
      <4>2. ops' = [ops EXCEPT ![o] = r]
        BY <3>2
      <4> HIDE DEF r
      <4> QED BY <4>1, <4>2, <2>3, SlotChanges DEF TabInv
    <3> QED BY <2>4, <3>1, <3>2
  <2> QED BY <1>r, <2>3, <2>5 DEF TabInv
<1>2. CASE CreateBegins(o)
  <2> DEFINE k == NewObject
  <2>1. k \in Unused /\ nextId \in Id /\ Task(o).name \in Names
    BY <1>0, <1>2, NewUnused DEF CreateBegins, TabSteps
  <2>2. nextId + 1 \in 0 .. MaxIds /\ nextId < nextId + 1 /\ nextId <= nextId + 1
    BY <2>1, TableAssumption DEF Id
  <2>3. /\ cont' = [cont EXCEPT ![k] = [name |-> Task(o).name, id |-> nextId,
                                        st |-> "launching"]]
        /\ procs' = [procs EXCEPT ![nextId] = k] /\ nextId' = nextId + 1
        /\ ops' = [ops EXCEPT ![o] = [ops[o] EXCEPT !.busy = k]]
    BY <1>2 DEF CreateBegins
  <2> HIDE DEF k
  <2>4. "launching" \in ContStates \ {"unborn"}
    BY DEF ContStates
  <2>5. ListTyped' /\ IdsFresh' /\ Created' = Created \cup {k} /\ Created \subseteq Created'
    BY <2>1, <2>2, <2>3, <2>4, ListGrows DEF TabInv
  <2>6. RequestsTyped'
    <3> DEFINE r == [ops[o] EXCEPT !.busy = k]
    <3>1. ops[o] \in TabRequests(Created')
      BY <1>o, <2>5, MoreCreated
    <3>2. k \in Created'
      BY <2>5
    <3>3. r \in TabRequests(Created') /\ r.todo # <<>>
      BY <3>1, <3>2, <1>b, <1>o
    <3>4. ops' = [ops EXCEPT ![o] = r]
      BY <2>3
    <3> HIDE DEF r
    <3> QED BY <3>3, <3>4, <2>5, SlotChanges DEF TabInv
  <2> QED BY <1>r, <2>5, <2>6 DEF TabInv
<1>3. CASE StopBegins(o)
  <2> DEFINE k == Task(o).k
  <2>1. k \in Created
    BY <1>0, <1>3 DEF StopBegins, TabSteps
  <2>2. cont[k].id \in Id
    BY <2>1 DEF TabInv, ListTyped, Conts, Created
  <2>3. \/ cont' = cont
        \/ cont' = [cont EXCEPT ![k].st = "stopping"]
        \/ cont' = [cont EXCEPT ![k].st = "stopped"]
    BY <1>3, <2>1 DEF StopBegins, TabInv, ListTyped
  <2>4. /\ procs' = procs \/ procs' = [procs EXCEPT ![cont[k].id] = NoObject]
        /\ nextId' = nextId
    BY <1>3 DEF StopBegins
  <2>5. \/ ops' = [ops EXCEPT ![o] = Pop(ops[o])]
        \/ ops' = [ops EXCEPT ![o] = [ops[o] EXCEPT !.busy = k]]
    BY <1>3 DEF StopBegins
  <2> HIDE DEF k
  <2>6. ListTyped' /\ IdsFresh' /\ Created' = Created
    BY <2>1, <2>2, <2>3, <2>4, ListMoves DEF TabInv, ContStates
  <2>7. RequestsTyped'
    <3>1. CASE ops' = [ops EXCEPT ![o] = Pop(ops[o])]
      BY <3>1, <1>0, <2>6, SlotChanges DEF TabInv
    <3>2. CASE ops' = [ops EXCEPT ![o] = [ops[o] EXCEPT !.busy = k]]
      <4> DEFINE r == [ops[o] EXCEPT !.busy = k]
      <4>1. r \in TabRequests(Created) /\ r.todo # <<>>
        BY <1>b, <1>o, <2>1
      <4>2. ops' = [ops EXCEPT ![o] = r]
        BY <3>2
      <4> HIDE DEF r
      <4> QED BY <4>1, <4>2, <2>6, SlotChanges DEF TabInv
    <3> QED BY <2>5, <3>1, <3>2
  <2> QED BY <1>r, <2>6, <2>7 DEF TabInv
<1>4. CASE PlaceItem(o)
  <2> DEFINE it == Task(o)
  <2> DEFINE k == NewObject
  <2> DEFINE todo == IF it.stopped THEN Tail(ops[o].todo)
                     ELSE Append(Tail(ops[o].todo), Step("resume", k))
  <2>0. it.id \in Id /\ it.name \in Names
    BY <1>0, <1>4 DEF PlaceItem, TabSteps
  <2>1. CASE /\ ops' = [ops EXCEPT ![o] = Pop(ops[o])] /\ UNCHANGED <<cont, procs, nextId>>
    <3>1. ListTyped' /\ IdsFresh' /\ Created' = Created
      BY <2>1, ListKept DEF TabInv
    <3>2. RequestsTyped'
      BY <2>1, <1>0, <3>1, SlotChanges DEF TabInv
    <3> QED BY <1>r, <3>1, <3>2 DEF TabInv
  <2>2. CASE /\ Unused # {}
             /\ cont' = [cont EXCEPT ![k] = [name |-> it.name, id |-> it.id, st |-> "stopped"]]
             /\ procs' = [procs EXCEPT ![it.id] = k]
             /\ nextId' = IdAfter(it.id)
             /\ ops' = [ops EXCEPT ![o] = [ops[o] EXCEPT !.todo = todo]]
    <3>1. k \in Unused /\ "stopped" \in ContStates \ {"unborn"}
      BY <2>2, NewUnused DEF ContStates
    <3>2. IdAfter(it.id) \in 0 .. MaxIds /\ it.id < IdAfter(it.id) /\ nextId <= IdAfter(it.id)
      BY <2>0, TableAssumption DEF TabInv, ListTyped, Id, IdAfter
    <3>3. ListTyped' /\ IdsFresh' /\ Created' = Created \cup {k} /\ Created \subseteq Created'
      <4> HIDE DEF k, it
      <4> QED BY <2>0, <2>2, <3>1, <3>2, ListGrows DEF TabInv
    <3>4. todo \in Seq(TabSteps(Created'))
      <4>1. k \in Created'
        BY <3>3
      <4>2. Step("resume", k) \in TabSteps(Created')
        BY <4>1, StepTyped
      <4>3. TabSteps(Created) \subseteq TabSteps(Created')
        BY <3>3 DEF TabSteps
      <4>4. Tail(ops[o].todo) \in Seq(TabSteps(Created'))
        BY <1>0, <4>3, SeqMonotonic
      <4> QED BY <4>2, <4>4, AppendProperties
    <3>5. [ops[o] EXCEPT !.todo = todo] \in TabRequests(Created')
      <4>1. ops[o] \in TabRequests(Created')
        BY <1>o, <3>3, MoreCreated
      <4> HIDE DEF todo
      <4> QED BY <3>4, <4>1 DEF TabRequests
    <3>6. [ops[o] EXCEPT !.todo = todo].busy = NoObject
      BY <1>o DEF TabRequests
    <3>7. RequestsTyped'
      <4> DEFINE r == [ops[o] EXCEPT !.todo = todo]
      <4>1. r \in TabRequests(Created') /\ r.busy = NoObject /\ ops' = [ops EXCEPT ![o] = r]
        BY <2>2, <3>5, <3>6
      <4> HIDE DEF r
      <4> QED BY <4>1, <3>3, SlotChanges DEF TabInv
    <3> QED BY <1>r, <3>3, <3>7 DEF TabInv
  <2> QED BY <1>4, <2>1, <2>2 DEF PlaceItem
<1> QED BY <1>1, <1>2, <1>3, <1>4 DEF StepBegins

(* start() returns: online, or it throws, and what the request had started   *)
(* is stopped again.                                                         *)
LEMMA StartReturnsKeeps ==
  ASSUME TabInv, NEW o \in Slots, StartReturns(o) PROVE TabInv'
<1> DEFINE k == ops[o].busy
<1>1. ops[o] \in TabRequests(Created) /\ k \in Created /\ ops[o].todo # <<>>
  BY DEF TabInv, RequestsTyped, StartReturns, TabRequests
<1>2. Pop(ops[o]) \in TabRequests(Created) /\ Pop(ops[o]).busy = NoObject
  BY <1>1, TaskTyped DEF TabInv
<1>3. \/ cont' = [cont EXCEPT ![k].st = "online"]
      \/ cont' = [cont EXCEPT ![k].st = "errored"]
  BY DEF StartReturns
<1>4. UNCHANGED <<procs, nextId, dump, boots, asked, up, serial>>
  BY DEF StartReturns
<1>5. meant' = meant \/ meant' = [meant EXCEPT ![cont[k].name] = "any"]
  BY DEF StartReturns
<1> DEFINE r1 == [Pop(ops[o]) EXCEPT !.started = <<k>> \o ops[o].started]
<1> DEFINE todo == [i \in DOMAIN ops[o].started |-> Step("stop", ops[o].started[i])]
<1> DEFINE r2 == [NoRequest EXCEPT !.todo = todo, !.then = "quiet"]
<1>6. \/ ops' = [ops EXCEPT ![o] = r1]
      \/ ops' = [ops EXCEPT ![o] = Pop(ops[o])]
      \/ ops' = [ops EXCEPT ![o] = r2]
  BY Zenon DEF StartReturns
<1>7. r1 \in TabRequests(Created) /\ r1.busy = NoObject
  <2> HIDE DEF k, Pop
  <2>1. ops[o].started \in Seq(Created)
    BY <1>1 DEF TabRequests
  <2>2. <<k>> \o ops[o].started \in Seq(Created)
    BY <1>1, <2>1, ConcatProperties
  <2> QED BY <1>2, <2>2 DEF TabRequests
<1>8. r2 \in TabRequests(Created) /\ r2.busy = NoObject
  <2>1. ops[o].started \in Seq(Created)
    BY <1>1 DEF TabRequests
  <2>2. todo \in Seq(TabSteps(Created))
    BY <2>1, StepsTyped
  <2> HIDE DEF todo
  <2>3. NoRequest \in TabRequests(Created) /\ NoRequest.busy = NoObject
    BY NoRequestTyped
  <2> HIDE DEF NoRequest
  <2> QED BY <2>2, <2>3 DEF TabRequests
<1> HIDE DEF r1, r2, k
<1>9. ListTyped' /\ IdsFresh' /\ Created' = Created
  BY <1>1, <1>3, <1>4, ListMoves DEF TabInv, ContStates
<1>10. RequestsTyped'
  <2>1. PICK r \in TabRequests(Created) : r.busy = NoObject /\ ops' = [ops EXCEPT ![o] = r]
    BY <1>2, <1>6, <1>7, <1>8
  <2> QED BY <2>1, <1>9, SlotChanges DEF TabInv
<1>11. RestTyped'
  BY <1>4, <1>5 DEF TabInv, RestTyped, Wishes
<1> QED BY <1>9, <1>10, <1>11 DEF TabInv

LEMMA StopReturnsKeeps ==
  ASSUME TabInv, NEW o \in Slots, StopReturns(o) PROVE TabInv'
<1> DEFINE k == ops[o].busy
<1>1. ops[o] \in TabRequests(Created) /\ k \in Created /\ ops[o].todo # <<>>
  BY DEF TabInv, RequestsTyped, StopReturns, TabRequests
<1>2. Pop(ops[o]) \in TabRequests(Created) /\ Pop(ops[o]).busy = NoObject
  BY <1>1, TaskTyped DEF TabInv
<1>3. cont[k].id \in Id
  BY <1>1 DEF TabInv, ListTyped, Conts, Created
<1>4. /\ cont' = [cont EXCEPT ![k].st = "stopped"] /\ nextId' = nextId
      /\ procs' = procs \/ procs' = [procs EXCEPT ![cont[k].id] = NoObject]
      /\ ops' = [ops EXCEPT ![o] = Pop(ops[o])]
  BY DEF StopReturns
<1> HIDE DEF k
<1>5. ListTyped' /\ IdsFresh' /\ Created' = Created
  BY <1>1, <1>3, <1>4, ListMoves DEF TabInv, ContStates
<1>6. RequestsTyped'
  BY <1>2, <1>4, <1>5, SlotChanges DEF TabInv
<1>7. RestTyped'
  BY RestKept DEF TabInv, StopReturns
<1> QED BY <1>5, <1>6, <1>7 DEF TabInv

LEMMA SweepNextKeeps ==
  ASSUME TabInv, NEW o \in Slots, SweepNext(o) PROVE TabInv'
<1>1. PICK k \in Listed :
        ops' = [ops EXCEPT ![o].todo = <<Step("stop", k)>>, ![o].rest = @ \cup {k}]
  BY DEF SweepNext
<1>2. k \in Created /\ ops[o] \in TabRequests(Created)
  BY ListedTyped DEF TabInv, RequestsTyped
<1> DEFINE st == Step("stop", k)
<1>3. st \in TabSteps(Created)
  BY <1>2, StepTyped
<1> HIDE DEF st
<1>4. <<st>> \in Seq(TabSteps(Created)) /\ <<st>> # <<>>
  BY <1>3
<1> DEFINE todo == <<st>>
<1> DEFINE r == [ops[o] EXCEPT !.todo = todo, !.rest = @ \cup {k}]
<1>5. ops' = [ops EXCEPT ![o] = r]
  BY <1>1 DEF st, TabInv, RequestsTyped
<1> HIDE DEF todo
<1>6. k \in Object
  BY <1>2 DEF Created
<1>7. r \in TabRequests(Created) /\ r.todo = todo
  BY <1>2, <1>4, <1>6 DEF TabRequests, todo
<1> HIDE DEF r
<1>8. ListTyped' /\ IdsFresh' /\ Created' = Created
  BY ListKept DEF TabInv, SweepNext
<1>9. RequestsTyped'
  BY <1>4, <1>5, <1>7, <1>8, SlotChanges DEF TabInv, todo
<1>10. RestTyped'
  BY RestKept DEF TabInv, SweepNext
<1> QED BY <1>8, <1>9, <1>10 DEF TabInv

(* save() takes its snapshot; deleteAll() has emptied the list before that,  *)
(* and the ids begin again.                                                  *)
LEMMA SaveBeginsKeeps ==
  ASSUME TabInv, NEW o \in Slots, SaveBegins(o) PROVE TabInv'
<1>1. \/ procs' = procs /\ nextId' = nextId
      \/ procs' = [i \in Id |-> NoObject] /\ nextId' = 0
  BY DEF SaveBegins
<1>2. cont' = cont
  BY DEF SaveBegins
<1>3. ListTyped' /\ IdsFresh' /\ Created' = Created
  <2>1. CASE procs' = procs /\ nextId' = nextId
    BY <1>2, <2>1, ListKept DEF TabInv
  <2>2. CASE procs' = [i \in Id |-> NoObject] /\ nextId' = 0
    <3>1. Created' = Created
      BY <1>2 DEF Created
    <3>2. ListTyped'
      BY <1>2, <2>2, <3>1, TableAssumption DEF TabInv, ListTyped
    <3>3. IdsFresh'
      BY <2>2 DEF IdsFresh
    <3> QED BY <3>1, <3>2, <3>3
  <2> QED BY <1>1, <2>1, <2>2
<1>4. Snapshot(procs') \in Seq(Entries)
  <2>1. /\ procs' \in [Id -> Object \cup {NoObject}]
        /\ \A i \in Id : procs'[i] # NoObject => procs'[i] \in Created
    BY <1>3 DEF ListTyped
  <2>2. \A P \in [Id -> Object \cup {NoObject}] :
          (\A i \in Id : P[i] # NoObject => P[i] \in Created) => Snapshot(P) \in Seq(Entries)
    BY SnapshotTyped DEF TabInv
  <2> HIDE DEF Snapshot
  <2> QED BY <2>1, <2>2
<1>5. ops[o] \in TabRequests(Created) /\ (ops[o].busy # NoObject => ops[o].todo # <<>>)
  BY DEF TabInv, RequestsTyped
<1> DEFINE r == [ops[o] EXCEPT !.saving = TRUE, !.data = Snapshot(procs')]
<1>6. ops' = [ops EXCEPT ![o] = r]
  <2> HIDE DEF Snapshot
  <2> QED BY DEF SaveBegins, TabInv, RequestsTyped
<1>7. r \in TabRequests(Created) /\ r.busy = ops[o].busy /\ r.todo = ops[o].todo
  <2> HIDE DEF Snapshot
  <2> QED BY <1>4, <1>5 DEF TabRequests
<1> HIDE DEF r
<1>8. RequestsTyped'
  BY <1>3, <1>5, <1>6, <1>7, SlotChanges DEF TabInv
<1>9. RestTyped'
  BY RestKept DEF TabInv, SaveBegins
<1> QED BY <1>3, <1>8, <1>9 DEF TabInv

LEMMA TornTyped ==
  ASSUME SaveTorn
  PROVE  /\ dump' \in [entries : Seq(Entries), intact : BOOLEAN]
         /\ meant' \in [Names -> Wishes]
<1>1. <<>> \in Seq(Entries)
  BY EmptySeq
<1> QED BY <1>1 DEF SaveTorn, Want, Wishes

LEMMA RequestDone ==
  ASSUME TabInv, NEW o \in Slots, SaveEnds(o) \/ RequestEnds(o) PROVE TabInv'
<1>1. ops' = [ops EXCEPT ![o] = NoRequest] /\ UNCHANGED <<procs, cont, nextId>>
  BY DEF SaveEnds, RequestEnds
<1>2. ListTyped' /\ IdsFresh' /\ Created' = Created
  BY <1>1, ListKept DEF TabInv
<1>3. NoRequest \in TabRequests(Created) /\ NoRequest.busy = NoObject
  BY NoRequestTyped
<1>4. RequestsTyped'
  <2> HIDE DEF NoRequest
  <2> QED BY <1>1, <1>2, <1>3, SlotChanges DEF TabInv
<1>5. RestTyped'
  <2>1. CASE RequestEnds(o)
    BY <2>1, RestKept DEF TabInv, RequestEnds
  <2>2. CASE SaveEnds(o)
    <3>1. ops[o].data \in Seq(Entries) /\ ops[o].goal \in Goals
      BY DEF TabInv, RequestsTyped, TabRequests
    <3>2. /\ dump' \in [entries : Seq(Entries), intact : BOOLEAN]
          /\ meant' \in [Names -> Wishes]
      <4>1. CASE SaveWritten(o)
        <5>1. Answered(ops[o].goal) \in [Names -> Wishes]
          BY <3>1, AnsweredTyped DEF TabInv
        <5> QED BY <3>1, <4>1, <5>1 DEF SaveWritten
      <4>2. CASE SaveTorn
        BY <4>2, TornTyped
      <4>3. CASE SaveMissing(o)
        <5>1. Want(DOMAIN ops[o].goal, "any") \in Goals
          BY <3>1 DEF Want, Goals, Wishes
        <5>2. Answered(Want(DOMAIN ops[o].goal, "any")) \in [Names -> Wishes]
          BY <5>1, AnsweredTyped DEF TabInv
        <5> QED BY <4>3, <5>2 DEF SaveMissing, TabInv, RestTyped
      <4> QED BY <2>2, <4>1, <4>2, <4>3 DEF SaveEnds
    <3> QED BY <2>2, <3>2 DEF TabInv, RestTyped, SaveEnds
  <2> QED BY <2>1, <2>2
<1> QED BY <1>2, <1>4, <1>5 DEF TabInv

(* The exit policy stops one container; an exit exempts a name.              *)
LEMMA PolicyStopTyped ==
  ASSUME ListTyped, NEW j \in Created
  PROVE  PolicyStop(j) \in TabRequests(Created) /\ PolicyStop(j).busy = NoObject
<1>1. PICK q : q = <<Step("stop", j)>>
  OBVIOUS
<1>2. PICK g : g = Want({cont[j].name}, IF Of(cont[j].name) = {j} THEN "stop" ELSE "any")
  OBVIOUS
<1>3. q \in Seq(TabSteps(Created))
  <2>1. Step("stop", j) \in TabSteps(Created)
    BY StepTyped
  <2> QED BY <1>1, <2>1
<1>4. g \in Goals
  <2>1. {cont[j].name} \in SUBSET Names
    BY DEF ListTyped
  <2>2. g \in [{cont[j].name} -> Wishes]
    BY <1>2 DEF Want, Wishes
  <2> QED BY <2>1, <2>2 DEF Goals
<1>5. NoRequest \in TabRequests(Created) /\ NoRequest.busy = NoObject
  BY NoRequestTyped
<1> HIDE DEF NoRequest
<1>6. LET x == [NoRequest EXCEPT !.todo = q, !.then = "save", !.policy = TRUE, !.goal = g]
      IN  x \in TabRequests(Created) /\ x.busy = NoObject
  BY <1>3, <1>4, <1>5 DEF TabRequests
<1> QED BY <1>1, <1>2, <1>6 DEF PolicyStop

LEMMA ExemptTyped ==
  ASSUME NEW B, NEW op \in TabRequests(B), NEW n
  PROVE  /\ Exempt(op, n) \in TabRequests(B)
         /\ Exempt(op, n).busy = op.busy /\ Exempt(op, n).todo = op.todo
<1>1. PICK g : g = [m \in DOMAIN op.goal |-> IF m = n THEN "any" ELSE op.goal[m]]
  OBVIOUS
<1>2. g \in Goals
  BY <1>1 DEF TabRequests, Goals, Wishes
<1>3. LET x == [op EXCEPT !.goal = g]
      IN  x \in TabRequests(B) /\ x.busy = op.busy /\ x.todo = op.todo
  BY <1>2 DEF TabRequests
<1> QED BY <1>1, <1>3 DEF Exempt

(* What the requests are once an exit has set off the stops of the policy.   *)
Joining(job, p) == IF job[p] = NoObject THEN ops[p] ELSE PolicyStop(job[p])

ExitWith(k, s, told, job) ==
  /\ cont' = [cont EXCEPT ![k].st = s]
  /\ meant' = IF s = "stopped" THEN [meant EXCEPT ![cont[k].name] = "any"] ELSE meant
  /\ ops' = [p \in Slots |-> IF s = "stopped" THEN Exempt(Joining(job, p), cont[k].name)
                                             ELSE Joining(job, p)]
  /\ serial' = (told = {} \/ (Quiescent /\ \A i, j \in told : i = j))
  /\ asked' = asked + (IF told = {} THEN 0 ELSE 1) /\ asked' <= MaxRequests

LEMMA ExitIs ==
  ASSUME NEW k \in Object, Exits(k)
  PROVE  \E s \in {"waiting", "stopped", "errored"} :
           \E told \in SUBSET Siblings(k) : \E job \in Jobs(told) : ExitWith(k, s, told, job)
<1>1. PICK s \in {"waiting", "stopped", "errored"} :
        LET n == cont[k].name
            told == IF s = "waiting" THEN {} ELSE Siblings(k)
        IN  /\ cont' = [cont EXCEPT ![k].st = s]
            /\ meant' = IF s = "stopped" THEN [meant EXCEPT ![n] = "any"] ELSE meant
            /\ \E job \in Jobs(told) :
                 ops' = [o \in Slots |->
                   LET op == IF job[o] = NoObject THEN ops[o] ELSE PolicyStop(job[o])
                   IN  IF s = "stopped" THEN Exempt(op, n) ELSE op]
            /\ serial' = (told = {} \/ (Quiescent /\ \A i, j \in told : i = j))
            /\ asked' = asked + (IF told = {} THEN 0 ELSE 1) /\ asked' <= MaxRequests
  BY Zenon DEF Exits
<1>2. PICK told : told = IF s = "waiting" THEN {} ELSE Siblings(k)
  OBVIOUS
<1>3. told \in SUBSET Siblings(k)
  BY <1>2
<1>4. PICK job \in Jobs(told) :
        ops' = [o \in Slots |->
                 LET op == IF job[o] = NoObject THEN ops[o] ELSE PolicyStop(job[o])
                 IN  IF s = "stopped" THEN Exempt(op, cont[k].name) ELSE op]
  BY <1>1, <1>2, Zenon
<1>5. ops' = [p \in Slots |-> IF s = "stopped" THEN Exempt(Joining(job, p), cont[k].name)
                                              ELSE Joining(job, p)]
  BY <1>4, Zenon DEF Joining
<1>6. /\ cont' = [cont EXCEPT ![k].st = s]
      /\ meant' = IF s = "stopped" THEN [meant EXCEPT ![cont[k].name] = "any"] ELSE meant
      /\ serial' = (told = {} \/ (Quiescent /\ \A i, j \in told : i = j))
      /\ asked' = asked + (IF told = {} THEN 0 ELSE 1) /\ asked' <= MaxRequests
  BY <1>1, <1>2, Zenon
<1>7. ExitWith(k, s, told, job)
  BY <1>5, <1>6, Zenon DEF ExitWith
<1> QED BY <1>3, <1>7, Zenon

(* A child exits by itself, and is restarted.                                *)
LEMMA ExitsKeeps ==
  ASSUME TabInv, NEW k \in Object, Exits(k) PROVE TabInv'
<1>1. k \in Created
  BY DEF Exits, Created
<1>a. PICK s \in {"waiting", "stopped", "errored"} :
        \E told \in SUBSET Siblings(k) : \E job \in Jobs(told) : ExitWith(k, s, told, job)
  BY ExitIs, Zenon
<1>b. PICK told \in SUBSET Siblings(k) : \E job \in Jobs(told) : ExitWith(k, s, told, job)
  BY <1>a, Zenon
<1>c. PICK job \in Jobs(told) : ExitWith(k, s, told, job)
  BY <1>b, Zenon
<1>2. /\ cont' = [cont EXCEPT ![k].st = s]
      /\ meant' = IF s = "stopped" THEN [meant EXCEPT ![cont[k].name] = "any"] ELSE meant
      /\ ops' = [p \in Slots |-> IF s = "stopped" THEN Exempt(Joining(job, p), cont[k].name)
                                                 ELSE Joining(job, p)]
      /\ serial' = (told = {} \/ (Quiescent /\ \A i, j \in told : i = j))
      /\ asked' = asked + (IF told = {} THEN 0 ELSE 1) /\ asked' <= MaxRequests
  BY <1>c, Zenon DEF ExitWith
<1>3. ListTyped' /\ IdsFresh' /\ Created' = Created
  BY <1>1, <1>2, ListMoves DEF TabInv, ContStates, Exits
<1>4. ASSUME NEW p \in Slots
      PROVE  /\ Joining(job, p) \in TabRequests(Created)
             /\ Joining(job, p).busy # NoObject => Joining(job, p).todo # <<>>
  <2>1. job[p] # NoObject => job[p] \in Created
    BY ListedTyped DEF Jobs, Siblings, TabInv
  <2>2. CASE job[p] = NoObject
    BY <2>2 DEF Joining, TabInv, RequestsTyped
  <2>3. CASE job[p] # NoObject
    BY <2>1, <2>3, PolicyStopTyped DEF Joining, TabInv
  <2> QED BY <2>2, <2>3
<1>5. RequestsTyped'
  <2>1. ASSUME NEW p \in Slots
        PROVE  /\ ops'[p] \in TabRequests(Created)
               /\ ops'[p].busy # NoObject => ops'[p].todo # <<>>
    <3>1. PICK mid \in TabRequests(Created) :
            mid = Joining(job, p) /\ (mid.busy # NoObject => mid.todo # <<>>)
      BY <1>4
    <3>2. ops'[p] = IF s = "stopped" THEN Exempt(mid, cont[k].name) ELSE mid
      BY <1>2, <3>1
    <3> QED BY <3>1, <3>2, ExemptTyped
  <2>2. ops' \in [Slots -> TabRequests(Created)]
    <3>1. PICK f : f = [p \in Slots |-> IF s = "stopped" THEN Exempt(Joining(job, p), cont[k].name)
                                                        ELSE Joining(job, p)]
      OBVIOUS
    <3>2. ops' = f /\ f = [p \in Slots |-> f[p]]
      BY <1>2, <3>1
    <3> QED BY <2>1, <3>2
  <2> QED BY <1>3, <2>1, <2>2 DEF RequestsTyped
<1>6. RestTyped'
  <2>1. meant' \in [Names -> Wishes]
    BY <1>2 DEF TabInv, RestTyped, Wishes
  <2>2. asked' \in 0 .. MaxRequests /\ serial' \in BOOLEAN
    BY <1>2, TableAssumption DEF TabInv, RestTyped
  <2> QED BY <2>1, <2>2 DEF TabInv, RestTyped, Exits
<1> QED BY <1>3, <1>5, <1>6 DEF TabInv

LEMMA CrashRestartKeeps ==
  ASSUME TabInv, NEW k \in Object, CrashRestart(k) PROVE TabInv'
<1>1. k \in Created
  BY DEF CrashRestart, Created
<1>2. ListTyped' /\ IdsFresh' /\ Created' = Created
  BY <1>1, ListMoves DEF TabInv, ContStates, CrashRestart
<1>3. RequestsTyped' /\ RestTyped'
  BY <1>2, RestKept DEF TabInv, RequestsTyped, CrashRestart
<1> QED BY <1>2, <1>3 DEF TabInv

(* The daemon is gone and with it the list, its containers and requests.     *)
LEMMA GoneKeeps ==
  ASSUME TabInv, Gone PROVE TabInv'
<1>1. /\ up' = FALSE /\ procs' = [i \in Id |-> NoObject] /\ nextId' = 0
      /\ cont' = [k \in Object |-> Blank] /\ ops' = [o \in Slots |-> NoRequest]
  BY DEF Gone
<1>2. Created' = {}
  BY <1>1 DEF Created, Blank
<1>3. Blank \in Conts
  BY TableAssumption DEF Blank, Conts, ContStates, Id
<1>4. ListTyped' /\ IdsFresh'
  BY <1>1, <1>2, <1>3, TableAssumption DEF ListTyped, IdsFresh
<1>5. RequestsTyped'
  <2>1. NoRequest \in TabRequests(Created') /\ NoRequest.busy = NoObject
    BY NoRequestTyped
  <2> HIDE DEF NoRequest
  <2> QED BY <1>1, <2>1 DEF RequestsTyped
<1>6. /\ dump' \in [entries : Seq(Entries), intact : BOOLEAN]
      /\ meant' \in [Names -> Wishes]
  <2>1. CASE dump' = dump /\ meant' = meant
    BY <2>1 DEF TabInv, RestTyped
  <2>2. CASE \E o \in Slots : SaveWritten(o)
    <3>1. \A o \in Slots : ops[o].data \in Seq(Entries) /\ ops[o].goal \in Goals
      BY DEF TabInv, RequestsTyped, TabRequests
    <3>2. \A g \in Goals : Answered(g) \in [Names -> Wishes]
      BY AnsweredTyped DEF TabInv
    <3> QED BY <2>2, <3>1, <3>2 DEF SaveWritten
  <2>3. CASE SaveTorn
    BY <2>3, TornTyped
  <2> QED BY <2>1, <2>2, <2>3 DEF Gone
<1>7. RestTyped'
  BY <1>1, <1>6 DEF TabInv, RestTyped, Gone
<1> QED BY <1>4, <1>5, <1>7 DEF TabInv

LEMMA BootKeeps ==
  ASSUME TabInv, Boot PROVE TabInv'
<1>1. ListTyped' /\ IdsFresh' /\ Created' = Created
  BY ListKept DEF TabInv, Boot
<1>2. RequestsTyped'
  <2>1. Resurrection \in TabRequests(Created) /\ Resurrection.busy = NoObject
    BY ResurrectionTyped DEF TabInv
  <2>2. CASE 1 \in Slots
    <3> HIDE DEF Resurrection
    <3> QED BY <1>1, <2>1, <2>2, SlotChanges DEF TabInv, Boot
  <2>3. CASE 1 \notin Slots
    <3>1. ops' = ops
      BY <2>3 DEF TabInv, RequestsTyped, Boot
    <3> QED BY <1>1, <3>1 DEF TabInv, RequestsTyped
  <2> QED BY <2>2, <2>3
<1>3. RestTyped'
  BY TableAssumption DEF TabInv, RestTyped, Boot
<1> QED BY <1>1, <1>2, <1>3 DEF TabInv

LEMMA TabInitInv ==
  ASSUME TabInit PROVE TabInv
<1>1. Created = {}
  BY DEF TabInit, Created, Blank
<1>2. Blank \in Conts
  BY TableAssumption DEF Blank, Conts, ContStates, Id
<1>3. ListTyped /\ IdsFresh
  BY <1>1, <1>2, TableAssumption DEF TabInit, ListTyped, IdsFresh
<1>4. RequestsTyped
  <2>1. NoRequest \in TabRequests(Created) /\ NoRequest.busy = NoObject
    BY NoRequestTyped
  <2> HIDE DEF NoRequest
  <2> QED BY <2>1 DEF TabInit, RequestsTyped
<1>5. RestTyped
  <2>1. <<>> \in Seq(Entries)
    BY EmptySeq
  <2> QED BY <2>1, TableAssumption DEF TabInit, RestTyped, Wishes
<1> QED BY <1>3, <1>4, <1>5 DEF TabInv

LEMMA TabInvInductive ==
  ASSUME TabInv, [TabNext]_tabVars PROVE TabInv'
<1>1. CASE \E o \in Slots : StartScript(o) \/ ScaleDown(o) \/ StartAll(o) \/ StopOne(o)
                             \/ Delete(o) \/ Sweep(o) \/ Resurrect(o)
  BY <1>1, StartScriptKeeps, ScaleDownKeeps, StartAllKeeps, StopOrDeleteKeeps,
     SweepOrResurrectKeeps
<1>2. CASE \E o \in Slots : StepBegins(o) \/ StartReturns(o) \/ StopReturns(o) \/ SweepNext(o)
  BY <1>2, StepBeginsKeeps, StartReturnsKeeps, StopReturnsKeeps, SweepNextKeeps
<1>3. CASE \E o \in Slots : SaveBegins(o) \/ SaveEnds(o) \/ RequestEnds(o)
  BY <1>3, SaveBeginsKeeps, RequestDone
<1>4. CASE \E k \in Object : Exits(k) \/ CrashRestart(k)
  BY <1>4, ExitsKeeps, CrashRestartKeeps
<1>5. CASE DaemonExits \/ DaemonCrashes \/ Boot
  BY <1>5, GoneKeeps, BootKeeps DEF DaemonExits, DaemonCrashes
<1>6. CASE UNCHANGED tabVars
  <2>1. ListTyped' /\ IdsFresh' /\ Created' = Created
    BY <1>6, ListKept DEF TabInv, tabVars
  <2>2. RequestsTyped' /\ RestTyped'
    BY <1>6, <2>1, RestKept DEF TabInv, RequestsTyped, tabVars
  <2> QED BY <2>1, <2>2 DEF TabInv
<1> QED BY <1>1, <1>2, <1>3, <1>4, <1>5, <1>6 DEF TabNext

LEMMA TabInvAlways == TabSpec => []TabInv
<1>1. TabInit => TabInv
  BY TabInitInv
<1>2. TabInv /\ [TabNext]_tabVars => TabInv'
  BY TabInvInductive
<1> QED BY <1>1, <1>2, PTL DEF TabSpec

(* The list, its containers and its requests keep their types.               *)
THEOREM TabTypeCorrect == TabSpec => []TabTypeOK
<1>1. TabInv => TabTypeOK
  <2> SUFFICES ASSUME TabInv PROVE TabTypeOK
    OBVIOUS
  <2>1. \A k \in Object : cont[k] \in Conts
    BY DEF TabInv, ListTyped
  <2>2. \A o \in Slots : ops[o].then \in {"none", "save", "clear", "exit", "quiet"}
    BY DEF TabInv, RequestsTyped, TabRequests
  <2> QED BY <2>1, <2>2
        DEF TabInv, ListTyped, RestTyped, TabTypeOK, Conts, ContStates, Wishes
<1> QED BY <1>1, TabInvAlways, PTL

(* Whatever requests overlap, and whatever ends the daemon: the ids in use   *)
(* are below the next one, and each is that of its own process.              *)
THEOREM IdsAlwaysFresh == TabSpec => []IdsFresh
<1>1. TabInv => IdsFresh
  BY DEF TabInv
<1> QED BY <1>1, TabInvAlways, PTL

-----------------------------------------------------------------------------
(* What a reboot restores *)

(* What a request still has to do: its steps, which of them bring a container *)
(* of a name, what it will have meant when it is done.                        *)
StepsOf(op) == {op.todo[i] : i \in DOMAIN op.todo}
AppOf(s) == IF s.do \in {"create", "item"} THEN s.name ELSE cont[s.k].name
Has(op, do, k) == \E s \in StepsOf(op) : s.do = do /\ s.k = k
Brings(op, n) == \E s \in StepsOf(op) : s.do \in {"create", "item"} /\ s.name = n
Due(op) == Answered(op.goal)

(* A dump tells what was meant: its entries of a name are there, and down or  *)
(* not, as the name is wanted; an id is of one name.                          *)
EntriesOf(q) == {q[i] : i \in DOMAIN q}
Told(q, w) ==
  /\ \A n \in Names :
       /\ w[n] \in {"run", "stop"} => \E e \in EntriesOf(q) : e.name = n
       /\ \A e \in EntriesOf(q) :
            e.name = n => /\ w[n] = "run" => ~e.stopped
                          /\ w[n] = "stop" => e.stopped
                          /\ w[n] # "absent"
  /\ \A e, f \in EntriesOf(q) : e.id = f.id => e.name = f.name
(* What is listed under the id of an entry is of its name.                    *)
Placed(q) ==
  \A e \in EntriesOf(q) : procs[e.id] # NoObject => cont[procs[e.id]].name = e.name

(* The dump on disk tells what the completed requests meant, unless it is     *)
(* torn; its ids are taken, until a resurrection has placed them or while     *)
(* they begin again. (Once the save of a deleteAll() has failed they belong   *)
(* to others: then nothing is promised any more of what the dump has.)        *)
AnyGoes == \A n \in Names : meant[n] = "any"
InPlace(op) ==
  /\ Placed(dump.entries)
  /\ up => \A e \in EntriesOf(dump.entries) :
             \/ e.id < nextId
             \/ \E s \in StepsOf(op) : s.do = "item" /\ s.id = e.id
             \/ op.then = "clear" /\ op.saving
DumpTells(op) ==
  /\ Told(dump.entries, meant) /\ (~dump.intact => dump.entries = <<>>)
  /\ AnyGoes \/ InPlace(op)

(* A container moves only while the request awaits it, in its first step.     *)
MovesAwaited(op) ==
  /\ \A k \in Object : cont[k].st \in {"launching", "stopping"} => op.busy = k
  /\ op.busy # NoObject =>
       /\ cont[op.busy].st = IF op.todo[1].do \in {"resume", "create"} THEN "launching"
                             ELSE "stopping"
       /\ op.todo[1].do # "item"
       /\ IF op.todo[1].do = "create" THEN op.busy \in Of(op.todo[1].name)
                                      ELSE op.busy = op.todo[1].k

(* No step of a request works against what is due of its name.                *)
StepFits(op, s) ==
  /\ s.do \in {"resume", "create"} => /\ Due(op)[AppOf(s)] \in {"run", "any"}
                                      /\ op.then \in {"save", "quiet"}
  /\ s.do = "create" => op.then = "save"
  /\ s.do = "stop" /\ op.then \in {"save", "quiet"} => Due(op)[AppOf(s)] \in {"stop", "any"}
  /\ s.do = "remove" => /\ op.then = "save" /\ cont[s.k].id < nextId
                        /\ procs[cont[s.k].id] \in {s.k, NoObject}
  /\ s.do = "item" => /\ op.then = "quiet" /\ op.tolerant
                      /\ [name |-> s.name, id |-> s.id, stopped |-> s.stopped]
                           \in EntriesOf(dump.entries)
  /\ op.rest # {} => s.do = "stop"
  /\ ~op.tolerant /\ s.do \in {"resume", "create"} =>
       /\ DOMAIN op.goal = {AppOf(s)}
       /\ \A i \in DOMAIN op.started : cont[op.started[i]].name = AppOf(s)
GoalFits(op) ==
  /\ \A s \in StepsOf(op) : StepFits(op, s)
  /\ \A s, t \in StepsOf(op) :
       s.do \in {"stop", "remove"} => t.do \notin {"resume", "create", "item"}
  /\ op.then = "none" => StepsOf(op) = {}
  /\ op.rest # {} => op.then \in {"save", "clear", "exit"}
  /\ op.then \in {"none", "exit", "quiet"} => DOMAIN op.goal = {}
  /\ op.then = "clear" => /\ DOMAIN op.goal = Names
                          /\ \A n \in Names : Due(op)[n] \in {"absent", "any"}
  /\ op.rest # {} /\ op.then = "save" =>
       \A k \in Listed : Due(op)[cont[k].name] \in {"stop", "any"}

(* The list is as it is due, but for what the request still has to do.        *)
Stands(op, n) ==
  /\ Due(op)[n] \in {"run", "stop"} =>
       Brings(op, n) \/ \E k \in Of(n) : ~Has(op, "remove", k)
  /\ \A k \in Of(n) :
       /\ Due(op)[n] = "run" => \/ cont[k].st # "stopped"
                                \/ Has(op, "resume", k) \/ Has(op, "remove", k)
       /\ Due(op)[n] = "stop" => \/ cont[k].st = "stopped" \/ Has(op, "stop", k)
                                 \/ (op.rest # {} /\ k \notin op.rest)
       /\ Due(op)[n] = "absent" => Has(op, "remove", k)
ListStands(op) ==
  up /\ (op.then \in {"none", "save", "quiet"} \/ op.saving) => \A n \in Names : Stands(op, n)

(* The snapshot of a save in flight tells what will have been meant.          *)
SaveTells(op) ==
  op.saving => /\ op.then \in {"save", "clear"} /\ op.todo = <<>>
               /\ op.rest = {} \/ Listed \subseteq op.rest
               /\ Told(op.data, Due(op)) /\ Placed(op.data)
               /\ \A e \in EntriesOf(op.data) : e.id < nextId

OnItsWay(op) ==
  /\ DumpTells(op) /\ MovesAwaited(op) /\ GoalFits(op) /\ ListStands(op) /\ SaveTells(op)
  /\ ~up => op = NoRequest /\ \A i \in Id : procs[i] = NoObject
Alone(o) == \A p \in Slots \ {o} : ops[p] = NoRequest
IntentInv == serial => \E o \in Slots : Alone(o) /\ \E op \in {ops[o]} : OnItsWay(op)

(* The steps of a request are steps; its wishes, those of its goal or what was *)
(* meant before.                                                              *)
LEMMA StepsOfTyped ==
  ASSUME NEW B, NEW op \in TabRequests(B)
  PROVE  \A s \in StepsOf(op) : s \in TabSteps(B)
<1>1. op.todo \in Seq(TabSteps(B))
  BY DEF TabRequests
<1>2. \A i \in DOMAIN op.todo : op.todo[i] \in TabSteps(B)
  BY <1>1, LenProperties, ElementOfSeq
<1> QED BY <1>2 DEF StepsOf

LEMMA DueTyped ==
  ASSUME RestTyped, NEW B, NEW op \in TabRequests(B)
  PROVE  \A n \in Names : Due(op)[n] \in Wishes
<1>1. op.goal \in Goals
  BY DEF TabRequests
<1>2. Answered(op.goal) \in [Names -> Wishes]
  BY <1>1, AnsweredTyped
<1> QED BY <1>2 DEF Due

(* What is due of a name is its goal, or what was meant.                      *)
LEMMA DueIs ==
  ASSUME NEW op, NEW n \in Names
  PROVE  Due(op)[n] = IF n \in DOMAIN op.goal THEN op.goal[n] ELSE meant[n]
BY DEF Due, Answered

(* No request has no step and awaits nothing; it leaves what was meant due.   *)
LEMMA NothingToDo ==
  /\ StepsOf(NoRequest) = {} /\ NoRequest.todo = <<>> /\ NoRequest.busy = NoObject
  /\ NoRequest.then = "none" /\ NoRequest.rest = {} /\ ~NoRequest.saving
  /\ DOMAIN NoRequest.goal = {} /\ NoRequest.started = <<>> /\ ~NoRequest.tolerant
  /\ \A n \in Names : Due(NoRequest)[n] = meant[n]
<1>1. /\ NoRequest.todo = <<>> /\ NoRequest.busy = NoObject
      /\ NoRequest.then = "none" /\ NoRequest.rest = {} /\ ~NoRequest.saving
      /\ DOMAIN NoRequest.goal = {} /\ NoRequest.started = <<>> /\ ~NoRequest.tolerant
  BY DEF NoRequest
<1>2. StepsOf(NoRequest) = {}
  BY <1>1 DEF StepsOf
<1>3. \A n \in Names : Due(NoRequest)[n] = meant[n]
  BY <1>1, DueIs
<1> QED BY <1>1, <1>2, <1>3

(* A request goes on: it has the goal, the end and the sweep it had, and no   *)
(* step it did not have.                                                      *)
GoesOn(op, new) ==
  /\ new.goal = op.goal /\ new.then = op.then /\ new.saving = op.saving /\ new.rest = op.rest
  /\ new.tolerant = op.tolerant /\ new.data = op.data
  /\ StepsOf(new) \subseteq StepsOf(op)

(* Without its first step a request has the others.                           *)
LEMMA PopLeaves ==
  ASSUME NEW B, NEW op \in TabRequests(B), op.todo # <<>>, NEW new, new = Pop(op)
  PROVE  /\ GoesOn(op, new) /\ new.busy = NoObject /\ new.started = op.started
         /\ StepsOf(op) = StepsOf(new) \cup {op.todo[1]}
         /\ op.todo[1] \in TabSteps(B)
         /\ new.todo = Tail(op.todo)
<1>1. op.todo \in Seq(TabSteps(B))
  BY DEF TabRequests
<1>2. /\ new.todo = Tail(op.todo) /\ new.busy = NoObject /\ new.started = op.started
      /\ new.goal = op.goal /\ new.then = op.then /\ new.saving = op.saving
      /\ new.rest = op.rest /\ new.tolerant = op.tolerant /\ new.data = op.data
  BY DEF TabRequests, Pop
<1> DEFINE q == op.todo
<1> HIDE DEF q
<1>3. /\ q \in Seq(TabSteps(B)) /\ q # <<>>
      /\ Len(q) \in Nat \ {0} /\ DOMAIN q = 1 .. Len(q)
      /\ Len(Tail(q)) = Len(q) - 1 /\ DOMAIN Tail(q) = 1 .. Len(q) - 1
      /\ \A i \in 1 .. Len(q) - 1 : Tail(q)[i] = q[i + 1]
  <2>1. q \in Seq(TabSteps(B)) /\ q # <<>>
    BY <1>1 DEF q
  <2> QED BY <2>1, LenProperties, EmptySeq, HeadTailProperties
<1>4. {q[i] : i \in DOMAIN q} = {Tail(q)[i] : i \in DOMAIN Tail(q)} \cup {q[1]}
  <2>1. ASSUME NEW i \in DOMAIN q PROVE q[i] \in {Tail(q)[j] : j \in DOMAIN Tail(q)} \cup {q[1]}
    <3>1. CASE i = 1
      BY <3>1
    <3>2. CASE i # 1
      <4>1. i - 1 \in DOMAIN Tail(q) /\ Tail(q)[i - 1] = q[i]
        BY <3>2, <1>3
      <4> QED BY <4>1
    <3> QED BY <3>1, <3>2
  <2>2. ASSUME NEW j \in DOMAIN Tail(q) PROVE Tail(q)[j] \in {q[i] : i \in DOMAIN q}
    <3>1. j + 1 \in DOMAIN q /\ Tail(q)[j] = q[j + 1]
      BY <1>3
    <3> QED BY <3>1
  <2>3. q[1] \in {q[i] : i \in DOMAIN q}
    BY <1>3
  <2> QED BY <2>1, <2>2, <2>3
<1>5. StepsOf(op) = StepsOf(new) \cup {op.todo[1]}
  BY <1>2, <1>4 DEF StepsOf, q
<1>6. op.todo[1] \in TabSteps(B)
  BY <1>5, StepsOfTyped
<1> QED BY <1>2, <1>5, <1>6 DEF GoesOn

(* Which containers and names the steps that are left are about.              *)
LEMMA StepsLeft ==
  ASSUME NEW op, NEW new, NEW h, StepsOf(op) = StepsOf(new) \cup {h}
  PROVE  /\ \A do, k : Has(new, do, k) => Has(op, do, k)
         /\ \A do, k : Has(op, do, k) => Has(new, do, k) \/ (do = h.do /\ k = h.k)
         /\ \A n : Brings(new, n) => Brings(op, n)
         /\ \A n : Brings(op, n) => \/ Brings(new, n)
                                    \/ h.do \in {"create", "item"} /\ h.name = n
BY DEF Has, Brings

(* The containers keep their names; entries may leave the list.               *)
NamesStay == \A k \in Object : cont'[k].name = cont[k].name /\ cont'[k].id = cont[k].id
MayLeave == \A i \in Id : procs'[i] \in {procs[i], NoObject}

(* A container changes its state, and nothing else of it.                     *)
LEMMA StateChanges ==
  ASSUME ListTyped, NEW k \in Created, NEW st, cont' = [cont EXCEPT ![k].st = st]
  PROVE  /\ NamesStay /\ cont'[k].st = st
         /\ \A j \in Object : j # k => cont'[j].st = cont[j].st
BY DEF ListTyped, Conts, Created, NamesStay

(* The names of a list that may shrink.                                       *)
LEMMA OfStays ==
  ASSUME ListTyped, NamesStay, MayLeave
  PROVE  /\ Listed' \subseteq Listed
         /\ \A n : Of(n)' \subseteq Of(n)
         /\ procs' = procs => Listed' = Listed /\ \A n : Of(n)' = Of(n)
<1>1. Listed \subseteq Object
  BY ListedTyped DEF Created
<1>2. Listed' \subseteq Listed
  BY DEF Listed, MayLeave, NoObject
<1>3. procs' = procs => Listed' = Listed
  BY DEF Listed
<1>4. \A k \in Listed : cont'[k].name = cont[k].name
  BY <1>1 DEF NamesStay
<1>5. \A n : Of(n)' \subseteq Of(n)
  BY <1>2, <1>4 DEF Of
<1>6. procs' = procs => \A n : Of(n)' = Of(n)
  BY <1>3, <1>4 DEF Of
<1> QED BY <1>2, <1>3, <1>5, <1>6

(* The name a step works on stays.                                            *)
LEMMA AppStays ==
  ASSUME NEW B, B \subseteq Object, NamesStay
  PROVE  \A s \in TabSteps(B) : AppOf(s)' = AppOf(s)
BY DEF TabSteps, AppOf, NamesStay

LEMMA DueStays ==
  ASSUME NEW op, NEW new, new.goal = op.goal, meant' = meant
  PROVE  Due(new)' = Due(op)
BY DEF Due, Answered

(* A step fits that fitted, as the request goes on.                           *)
LEMMA GoalStays ==
  ASSUME ListTyped, NamesStay, MayLeave, nextId' = nextId, meant' = meant, dump' = dump,
         NEW op \in TabRequests(Created), NEW new, GoesOn(op, new), GoalFits(op),
         \A i \in DOMAIN new.started :
           \/ \E j \in DOMAIN op.started : new.started[i] = op.started[j]
           \/ /\ new.started[i] \in Object
              /\ \A s \in StepsOf(op) : ~op.tolerant /\ s.do \in {"resume", "create"}
                                          => cont[new.started[i]].name = AppOf(s)
  PROVE  GoalFits(new)'
<1>1. Due(new)' = Due(op)
  BY DueStays DEF GoesOn
<1>2. \A s \in StepsOf(new) : s \in StepsOf(op) /\ s \in TabSteps(Created)
                              /\ AppOf(s)' = AppOf(s)
  BY StepsOfTyped, AppStays DEF GoesOn, Created
<1>3. \A i \in DOMAIN op.started : op.started[i] \in Object
  <2>1. op.started \in Seq(Created)
    BY DEF TabRequests
  <2>2. DOMAIN op.started = 1 .. Len(op.started)
        /\ \A i \in 1 .. Len(op.started) : op.started[i] \in Created
    BY <2>1, LenProperties, ElementOfSeq
  <2> QED BY <2>2 DEF Created
<1>4. ASSUME NEW s \in StepsOf(new) PROVE StepFits(new, s)'
  <2>0. StepFits(op, s) /\ AppOf(s)' = AppOf(s) /\ s \in TabSteps(Created)
    BY <1>2 DEF GoalFits
  <2>1. /\ s.do \in {"resume", "create"} =>
             (Due(new)'[AppOf(s)'] \in {"run", "any"} /\ new.then \in {"save", "quiet"})
        /\ s.do = "create" => new.then = "save"
        /\ s.do = "stop" /\ new.then \in {"save", "quiet"} =>
             Due(new)'[AppOf(s)'] \in {"stop", "any"}
        /\ new.rest # {} => s.do = "stop"
    BY <1>1, <2>0 DEF StepFits, GoesOn
  <2>2. s.do = "remove" => /\ new.then = "save" /\ cont'[s.k].id < nextId'
                           /\ procs'[cont'[s.k].id] \in {s.k, NoObject}
    <3> SUFFICES ASSUME s.do = "remove"
                 PROVE  /\ new.then = "save" /\ cont'[s.k].id < nextId'
                        /\ procs'[cont'[s.k].id] \in {s.k, NoObject}
      OBVIOUS
    <3>1. s.k \in Object
      BY <2>0 DEF TabSteps, Created
    <3>2. cont'[s.k].id = cont[s.k].id /\ cont[s.k].id \in Id
      BY <3>1 DEF NamesStay, ListTyped, Conts
    <3> QED BY <2>0, <3>2 DEF StepFits, GoesOn, MayLeave
  <2>3. s.do = "item" => /\ new.then = "quiet" /\ new.tolerant
                         /\ [name |-> s.name, id |-> s.id, stopped |-> s.stopped]
                              \in EntriesOf(dump'.entries)
    BY <2>0 DEF StepFits, GoesOn
  <2>4. ~new.tolerant /\ s.do \in {"resume", "create"} =>
          /\ DOMAIN new.goal = {AppOf(s)'}
          /\ \A i \in DOMAIN new.started : cont'[new.started[i]].name = AppOf(s)'
    BY <2>0, <1>2, <1>3 DEF StepFits, GoesOn, NamesStay
  <2> QED BY <2>1, <2>2, <2>3, <2>4 DEF StepFits
<1>5. new.then \in {"none", "exit", "quiet"} => DOMAIN new.goal = {}
  BY DEF GoalFits, GoesOn
<1>6. new.then = "clear" => /\ DOMAIN new.goal = Names
                            /\ \A n \in Names : Due(new)'[n] \in {"absent", "any"}
  BY <1>1 DEF GoalFits, GoesOn
<1>7. new.rest # {} /\ new.then = "save" =>
        \A k \in Listed' : Due(new)'[cont'[k].name] \in {"stop", "any"}
  <2>1. Listed' \subseteq Listed /\ Listed \subseteq Object
    BY OfStays, ListedTyped DEF Created
  <2> QED BY <1>1, <2>1 DEF GoalFits, GoesOn, NamesStay
<1>8. new.then = "none" => StepsOf(new) = {}
  BY DEF GoalFits, GoesOn
<1>9. /\ new.rest # {} => new.then \in {"save", "clear", "exit"}
      /\ \A s, t \in StepsOf(new) :
           s.do \in {"stop", "remove"} => t.do \notin {"resume", "create", "item"}
  BY DEF GoalFits, GoesOn
<1> QED BY <1>4, <1>5, <1>6, <1>7, <1>8, <1>9 DEF GoalFits

(* What tells of a wish tells of it when nothing is asked any more.           *)
LEMMA ToldOfLess ==
  ASSUME NEW q, NEW v, NEW w, Told(q, w), \A n \in Names : v[n] \in {w[n], "any"}
  PROVE  Told(q, v)
BY DEF Told

LEMMA EntriesTyped ==
  ASSUME NEW q \in Seq(Entries) PROVE \A e \in EntriesOf(q) : e \in Entries
<1>1. \A i \in DOMAIN q : q[i] \in Entries
  BY LenProperties, ElementOfSeq
<1> QED BY <1>1 DEF EntriesOf

LEMMA PlacedStays ==
  ASSUME ListTyped, NamesStay, MayLeave, NEW q \in Seq(Entries), Placed(q)
  PROVE  Placed(q)'
<1>1. \A e \in EntriesOf(q) : e.id \in Id
  BY EntriesTyped DEF Entries
<1>2. ASSUME NEW e \in EntriesOf(q), procs'[e.id] # NoObject
      PROVE  cont'[procs'[e.id]].name = e.name
  <2>1. procs'[e.id] = procs[e.id] /\ procs[e.id] \in Object
    BY <1>1, <1>2 DEF MayLeave, ListTyped
  <2> QED BY <1>2, <2>1 DEF NamesStay, Placed
<1> QED BY <1>2 DEF Placed

(* The dump still tells, when ids are only taken, entries are only placed and *)
(* wishes are only dropped.                                                   *)
LEMMA DumpStays ==
  ASSUME ListTyped, RestTyped, NamesStay, MayLeave, nextId' = nextId, dump' = dump, up' = up,
         \A n \in Names : meant'[n] \in {meant[n], "any"},
         NEW op, NEW new, DumpTells(op),
         op.then = "clear" /\ op.saving => new.then = "clear" /\ new.saving,
         \A s \in StepsOf(op) : s.do = "item" => s \in StepsOf(new) \/ s.id < nextId
  PROVE  DumpTells(new)'
<1>1. Told(dump'.entries, meant') /\ (~dump'.intact => dump'.entries = <<>>)
  BY ToldOfLess DEF DumpTells
<1>2. CASE AnyGoes
  <2>1. AnyGoes'
    BY <1>2 DEF AnyGoes
  <2> QED BY <1>1, <2>1 DEF DumpTells
<1>3. CASE InPlace(op)
  <2>1. Placed(dump.entries)'
    <3>1. dump.entries \in Seq(Entries) /\ Placed(dump.entries)
      BY <1>3 DEF RestTyped, InPlace
    <3>2. PICK q \in Seq(Entries) : q = dump.entries
      BY <3>1
    <3>3. Placed(q)'
      BY <3>1, <3>2, PlacedStays
    <3> QED BY <3>2, <3>3 DEF Placed
  <2>2. ASSUME up', NEW e \in EntriesOf(dump'.entries)
        PROVE  \/ e.id < nextId'
               \/ \E s \in StepsOf(new) : s.do = "item" /\ s.id = e.id
               \/ new.then = "clear" /\ new.saving
    BY <1>3, <2>2 DEF InPlace
  <2>3. InPlace(new)'
    BY <2>1, <2>2 DEF InPlace
  <2> QED BY <1>1, <2>3 DEF DumpTells
<1> QED BY <1>2, <1>3 DEF DumpTells

(* The request in hand is the only one.                                       *)
LEMMA InHand ==
  ASSUME IntentInv, serial, NEW o \in Slots, ops[o] # NoRequest
  PROVE  Alone(o) /\ \E op \in {ops[o]} : OnItsWay(op)
BY DEF IntentInv, Alone

LEMMA SlotTakes ==
  ASSUME RequestsTyped, NEW o \in Slots, Alone(o), NEW new, ops' = [ops EXCEPT ![o] = new],
         OnItsWay(new)'
  PROVE  IntentInv'
<1>1. ops'[o] = new /\ \A p \in Slots \ {o} : ops'[p] = NoRequest
  BY DEF RequestsTyped, Alone
<1>2. Alone(o)'
  BY <1>1 DEF Alone
<1>3. \E op \in {ops'[o]} : OnItsWay(op)'
  BY <1>1
<1> QED BY <1>2, <1>3 DEF IntentInv

(* The first step h of a request begins or ends, and the list stands: a       *)
(* container goes down for a stop and comes up for a resume, it leaves the    *)
(* list for a removal, and when h is gone it has done what it is for.         *)
Moves(h) ==
  \A n : /\ Of(n)' \subseteq Of(n)
         /\ \A k \in Of(n) : k \notin Of(n)' => h.do = "remove" /\ h.k = k
         /\ \A k \in Of(n)' :
              /\ cont'[k].st = "stopped" /\ cont[k].st # "stopped" => h.do = "stop" /\ h.k = k
              /\ cont'[k].st # "stopped" /\ cont[k].st = "stopped" => h.do = "resume" /\ h.k = k
Acts(new, h) ==
  /\ h.do = "resume" => cont'[h.k].st # "stopped"
  /\ h.do = "stop" => cont'[h.k].st = "stopped"
  /\ h.do = "remove" => \A n : h.k \notin Of(n)'
  /\ h.do \in {"create", "item"} => \E k \in Of(h.name)' : ~Has(new, "remove", k)
LEMMA StandsStill ==
  ASSUME TabInv, NEW op \in TabRequests(Created), NEW new, NEW h \in TabSteps(Created),
         GoesOn(op, new), StepsOf(op) = StepsOf(new) \cup {h}, meant' = meant, up' = up,
         NamesStay, GoalFits(op), ListStands(op), ~op.saving,
         Moves(h), h \in StepsOf(new) \/ Acts(new, h)
  PROVE  ListStands(new)'
<1> SUFFICES ASSUME up', new.then \in {"none", "save", "quiet"} \/ new.saving, NEW n \in Names
             PROVE  Stands(new, n)'
  BY DEF ListStands
<1>1. Stands(op, n) /\ op.then \in {"none", "save", "quiet"}
  BY DEF ListStands, GoesOn
<1>2. Due(new)' = Due(op) /\ Due(op)[n] \in Wishes
  BY DueStays, DueTyped DEF GoesOn, TabInv
<1>3. /\ \A do, k : Has(new, do, k) => Has(op, do, k)
      /\ \A do, k : Has(op, do, k) => Has(new, do, k) \/ (do = h.do /\ k = h.k)
      /\ Brings(op, n) => Brings(new, n) \/ (h.do \in {"create", "item"} /\ h.name = n)
      /\ Has(op, h.do, h.k)
      /\ h \in StepsOf(new) => Has(new, h.do, h.k)
                               /\ (h.do \in {"create", "item"} => Brings(new, h.name))
  <2>1. Has(op, h.do, h.k)
    BY DEF Has
  <2>2. h \in StepsOf(new) => Has(new, h.do, h.k)
                              /\ (h.do \in {"create", "item"} => Brings(new, h.name))
    BY DEF Has, Brings
  <2> QED BY <2>1, <2>2, StepsLeft
<1>4. StepFits(op, h)
  BY DEF GoalFits
<1>5. \A k \in Of(n) : cont[k].name = n
  BY DEF Of
<1>6. \A k \in Of(n) : h.k = k =>
        /\ h.do = "resume" => Due(op)[n] \in {"run", "any"}
        /\ h.do = "stop" => Due(op)[n] \in {"stop", "any"}
  <2>1. op.then # "none"
    BY DEF GoalFits
  <2> QED BY <1>1, <1>4, <1>5, <2>1 DEF StepFits, AppOf
<1>7. Due(op)[n] \in {"run", "stop"} => Brings(new, n) \/ \E k \in Of(n)' : ~Has(new, "remove", k)
  <2> SUFFICES ASSUME Due(op)[n] \in {"run", "stop"}
               PROVE  Brings(new, n) \/ \E k \in Of(n)' : ~Has(new, "remove", k)
    OBVIOUS
  <2>1. CASE Brings(op, n)
    BY <2>1, <1>3 DEF Acts
  <2>2. CASE \E k \in Of(n) : ~Has(op, "remove", k)
    BY <2>2, <1>3 DEF Moves
  <2> QED BY <1>1, <2>1, <2>2 DEF Stands
<1>8. ASSUME NEW k \in Of(n)', Due(op)[n] = "run"
      PROVE  cont'[k].st # "stopped" \/ Has(new, "resume", k) \/ Has(new, "remove", k)
  <2>1. k \in Of(n) /\ (cont[k].st # "stopped" \/ Has(op, "resume", k) \/ Has(op, "remove", k))
    BY <1>1, <1>8 DEF Stands, Moves
  <2> QED BY <1>3, <1>6, <1>8, <2>1 DEF Moves, Acts
<1>9. ASSUME NEW k \in Of(n)', Due(op)[n] = "stop"
      PROVE  \/ cont'[k].st = "stopped" \/ Has(new, "stop", k)
             \/ (new.rest # {} /\ k \notin new.rest)
  <2>1. /\ k \in Of(n)
        /\ \/ cont[k].st = "stopped" \/ Has(op, "stop", k)
           \/ (new.rest # {} /\ k \notin new.rest)
    BY <1>1, <1>9 DEF Stands, Moves, GoesOn
  <2> QED BY <1>3, <1>6, <1>9, <2>1 DEF Moves, Acts
<1>10. ASSUME NEW k \in Of(n)', Due(op)[n] = "absent" PROVE Has(new, "remove", k)
  <2>1. k \in Of(n) /\ Has(op, "remove", k)
    BY <1>1, <1>10 DEF Stands, Moves
  <2> QED BY <1>3, <1>10, <2>1 DEF Acts
<1> QED BY <1>2, <1>7, <1>8, <1>9, <1>10 DEF Stands

(* A step of a request is taken, and the request is on its way as before.     *)
LEMMA StepTaken ==
  ASSUME TabInv, NEW op \in TabRequests(Created), NEW new, OnItsWay(op), up, ~op.saving,
         GoesOn(op, new), NamesStay, MayLeave,
         UNCHANGED <<nextId, dump, up, meant>>,
         \A s \in StepsOf(op) : s.do = "item" => s \in StepsOf(new) \/ s.id < nextId,
         \A i \in DOMAIN new.started :
           \/ \E j \in DOMAIN op.started : new.started[i] = op.started[j]
           \/ /\ new.started[i] \in Object
              /\ \A s \in StepsOf(op) : ~op.tolerant /\ s.do \in {"resume", "create"}
                                          => cont[new.started[i]].name = AppOf(s),
         MovesAwaited(new)', ListStands(new)'
  PROVE  OnItsWay(new)'
<1>1. GoalFits(new)'
  BY GoalStays DEF TabInv, OnItsWay
<1>2. DumpTells(new)'
  BY DumpStays DEF TabInv, OnItsWay, GoesOn
<1>3. SaveTells(new)'
  BY DEF SaveTells, GoesOn
<1> QED BY <1>1, <1>2, <1>3 DEF OnItsWay

(* The request turns to a container: it awaits it, with the steps it had.     *)
LEMMA Turns ==
  ASSUME NEW B, NEW op \in TabRequests(B), NEW k, NEW new, new = [op EXCEPT !.busy = k]
  PROVE  /\ GoesOn(op, new) /\ StepsOf(new) = StepsOf(op) /\ new.busy = k
         /\ new.todo = op.todo /\ new.started = op.started
<1>1. /\ new.todo = op.todo /\ new.busy = k /\ new.started = op.started
      /\ new.goal = op.goal /\ new.then = op.then /\ new.saving = op.saving
      /\ new.rest = op.rest /\ new.tolerant = op.tolerant /\ new.data = op.data
  BY DEF TabRequests
<1> QED BY <1>1 DEF GoesOn, StepsOf

(* What is not moved rests, what is awaited is one of the list.               *)
LEMMA StepBegun ==
  ASSUME NEW op, OnItsWay(op), op.todo # <<>>, op.busy = NoObject
  PROVE  /\ ~op.saving
         /\ \A k \in Object : cont[k].st \notin {"launching", "stopping"}
BY DEF OnItsWay, SaveTells, MovesAwaited, Object, NoObject

LEMMA Begun ==
  ASSUME TabInv, NEW o \in Slots, NEW op \in {ops[o]}, OnItsWay(op), StepBegins(o)
  PROVE  /\ op \in TabRequests(Created) /\ op.todo # <<>> /\ op.busy = NoObject /\ ~op.saving
         /\ Task(o) = op.todo[1] /\ op.todo[1] \in TabSteps(Created)
         /\ up /\ UNCHANGED <<dump, boots, asked, up, meant, serial>>
         /\ StepFits(op, op.todo[1])
         /\ \A k \in Object : cont[k].st \notin {"launching", "stopping"}
<1>1. /\ op \in TabRequests(Created) /\ op.todo # <<>> /\ op.busy = NoObject
      /\ Task(o) = op.todo[1] /\ up /\ UNCHANGED <<dump, boots, asked, up, meant, serial>>
  BY DEF TabInv, RequestsTyped, StepBegins, Task
<1>2. ~op.saving /\ \A k \in Object : cont[k].st \notin {"launching", "stopping"}
  BY <1>1, StepBegun
<1>3. op.todo[1] \in StepsOf(op) /\ op.todo[1] \in TabSteps(Created)
  BY <1>1, PopLeaves
<1>4. StepFits(op, op.todo[1])
  BY <1>3 DEF OnItsWay, GoalFits
<1> QED BY <1>1, <1>2, <1>3, <1>4

(* resume: a process that runs is passed over, another one is awaited.        *)
LEMMA ResumeOnWay ==
  ASSUME TabInv, NEW o \in Slots, NEW op \in {ops[o]}, OnItsWay(op), StepBegins(o),
         ResumeBegins(o)
  PROVE  \E new : ops' = [ops EXCEPT ![o] = new] /\ OnItsWay(new)'
<1>0. /\ op \in TabRequests(Created) /\ op.todo # <<>> /\ op.busy = NoObject /\ ~op.saving
      /\ Task(o) = op.todo[1] /\ op.todo[1] \in TabSteps(Created)
      /\ up /\ UNCHANGED <<dump, boots, asked, up, meant, serial>>
      /\ \A k \in Object : cont[k].st \notin {"launching", "stopping"}
  BY Begun
<1>1. PICK h : h = op.todo[1]
  OBVIOUS
<1>2. /\ h.do = "resume" /\ h.k \in Created /\ h \in TabSteps(Created)
      /\ UNCHANGED <<procs, nextId>>
      /\ IF Up(h.k)
           THEN /\ ops' = [ops EXCEPT ![o] = Pop(op)] /\ UNCHANGED cont
           ELSE /\ cont' = [cont EXCEPT ![h.k].st = "launching"]
                /\ ops' = [ops EXCEPT ![o] = [op EXCEPT !.busy = h.k]]
  BY <1>0, <1>1 DEF ResumeBegins, TabSteps
<1>3. CASE Up(h.k)
  <2>1. PICK new : new = Pop(op)
    OBVIOUS
  <2>2. /\ GoesOn(op, new) /\ new.busy = NoObject /\ new.started = op.started
        /\ StepsOf(op) = StepsOf(new) \cup {h}
    BY <1>0, <1>1, <2>1, PopLeaves
  <2>3. UNCHANGED cont /\ NamesStay /\ MayLeave
    BY <1>2, <1>3 DEF NamesStay, MayLeave
  <2>4. \A n : Of(n)' = Of(n)
    BY <1>2, <2>3 DEF Of, Listed
  <2>5. MovesAwaited(new)'
    BY <1>0, <2>2, <2>3 DEF MovesAwaited
  <2>6. cont'[h.k].st # "stopped"
    BY <1>3, <2>3 DEF Up
  <2>7. ListStands(new)'
    BY <1>0, <1>2, <2>2, <2>3, <2>4, <2>6, StandsStill DEF OnItsWay, Moves, Acts
  <2>8. OnItsWay(new)'
    BY <1>0, <1>2, <2>2, <2>3, <2>5, <2>7, StepTaken
  <2> QED BY <1>2, <1>3, <2>1, <2>8
<1>4. CASE ~Up(h.k)
  <2>1. PICK new : new = [op EXCEPT !.busy = h.k]
    OBVIOUS
  <2>2. /\ GoesOn(op, new) /\ new.busy = h.k /\ new.started = op.started
        /\ new.todo = op.todo /\ StepsOf(op) = StepsOf(new) /\ h \in StepsOf(new)
    <3>1. h \in StepsOf(op)
      BY <1>0, <1>1, PopLeaves
    <3> QED BY <1>0, <2>1, <3>1, Turns
  <2>3. /\ NamesStay /\ MayLeave /\ cont'[h.k].st = "launching"
        /\ \A j \in Object : j # h.k => cont'[j].st = cont[j].st
    BY <1>2, <1>4, StateChanges DEF MayLeave, TabInv
  <2>4. \A n : Of(n)' = Of(n) /\ Of(n) \subseteq Object
    BY <1>2, <2>3, OfStays, ListedTyped DEF TabInv, Created
  <2>5. MovesAwaited(new)'
    <3>1. h.k # NoObject
      BY <1>2 DEF Created, Object, NoObject
    <3> QED BY <1>0, <1>1, <1>2, <2>2, <2>3, <3>1 DEF MovesAwaited
  <2>6. \A n : \A k \in Of(n)' :
           /\ cont'[k].st = "stopped" => cont[k].st = "stopped"
           /\ cont'[k].st # "stopped" /\ cont[k].st = "stopped" => h.k = k
    BY <2>3, <2>4
  <2>7. ListStands(new)'
    BY <1>0, <1>2, <2>2, <2>3, <2>4, <2>6, StandsStill DEF OnItsWay, Moves, Acts
  <2>8. OnItsWay(new)'
    BY <1>0, <1>2, <2>2, <2>3, <2>5, <2>7, StepTaken
  <2> QED BY <1>2, <1>4, <2>1, <2>8
<1> QED BY <1>3, <1>4

(* An entry leaves the list for the removal of its container only.            *)
LEMMA Removed ==
  ASSUME TabInv, NEW op \in TabRequests(Created), NEW h \in StepsOf(op), h.do = "remove",
         StepFits(op, h), procs' = [procs EXCEPT ![cont[h.k].id] = NoObject], NamesStay
  PROVE  MayLeave /\ \A n : Of(n)' = Of(n) \ {h.k}
<1>1. h.k \in Created /\ cont[h.k].id \in Id
  BY StepsOfTyped DEF TabSteps, TabInv, ListTyped, Conts, Created
<1>2. /\ procs'[cont[h.k].id] = NoObject /\ procs[cont[h.k].id] \in {h.k, NoObject}
      /\ \A i \in Id : i # cont[h.k].id => procs'[i] = procs[i]
  BY <1>1 DEF TabInv, ListTyped, StepFits
<1>3. \A i \in Id : procs[i] = h.k => i = cont[h.k].id
  BY <1>1 DEF TabInv, IdsFresh, NoObject, Created, Object
<1>4. Listed' = Listed \ {h.k}
  BY <1>1, <1>2, <1>3 DEF Listed, NoObject, Created, Object
<1>5. \A k \in Listed : cont'[k].name = cont[k].name
  BY ListedTyped DEF TabInv, NamesStay, Created
<1>6. \A n : Of(n)' = Of(n) \ {h.k}
  BY <1>4, <1>5 DEF Of
<1>7. MayLeave
  BY <1>2 DEF MayLeave
<1> QED BY <1>6, <1>7

(* stop: an online process is awaited, any other is down at once; to remove   *)
(* it takes it off the list then.                                             *)
LEMMA StopOnWay ==
  ASSUME TabInv, NEW o \in Slots, NEW op \in {ops[o]}, OnItsWay(op), StepBegins(o),
         StopBegins(o)
  PROVE  \E new : ops' = [ops EXCEPT ![o] = new] /\ OnItsWay(new)'
<1>0. /\ op \in TabRequests(Created) /\ op.todo # <<>> /\ op.busy = NoObject /\ ~op.saving
      /\ Task(o) = op.todo[1] /\ op.todo[1] \in TabSteps(Created)
      /\ up /\ UNCHANGED <<dump, boots, asked, up, meant, serial>>
      /\ StepFits(op, op.todo[1])
      /\ \A k \in Object : cont[k].st \notin {"launching", "stopping"}
  BY Begun
<1>1. PICK h : h = op.todo[1]
  OBVIOUS
<1>2. /\ h.do \in {"stop", "remove"} /\ h.k \in Created /\ h \in TabSteps(Created)
      /\ StepFits(op, h) /\ h \in StepsOf(op)
  BY <1>0, <1>1, PopLeaves DEF StopBegins, TabSteps
<1>3. CASE cont[h.k].st = "online"
  <2>0. /\ cont' = [cont EXCEPT ![h.k].st = "stopping"] /\ UNCHANGED <<procs, nextId>>
        /\ ops' = [ops EXCEPT ![o] = [op EXCEPT !.busy = h.k]]
    BY <1>0, <1>1, <1>2, <1>3 DEF StopBegins, TabInv, ListTyped
  <2>1. PICK new : new = [op EXCEPT !.busy = h.k]
    OBVIOUS
  <2>2. /\ GoesOn(op, new) /\ new.busy = h.k /\ new.started = op.started
        /\ new.todo = op.todo /\ StepsOf(op) = StepsOf(new) /\ h \in StepsOf(new)
    BY <1>0, <1>2, <2>1, Turns
  <2>3. /\ NamesStay /\ MayLeave /\ cont'[h.k].st = "stopping"
        /\ \A j \in Object : j # h.k => cont'[j].st = cont[j].st
    BY <1>2, <2>0, StateChanges DEF MayLeave, TabInv
  <2>4. \A n : Of(n)' = Of(n) /\ Of(n) \subseteq Object
    BY <2>0, <2>3, OfStays, ListedTyped DEF TabInv, Created
  <2>5. MovesAwaited(new)'
    <3>1. h.k # NoObject
      BY <1>2 DEF Created, Object, NoObject
    <3> QED BY <1>0, <1>1, <1>2, <2>2, <2>3, <3>1 DEF MovesAwaited
  <2>6. \A n : \A k \in Of(n)' : (cont'[k].st = "stopped") = (cont[k].st = "stopped")
    BY <1>3, <2>3, <2>4
  <2>7. ListStands(new)'
    BY <1>0, <1>2, <2>2, <2>3, <2>4, <2>6, StandsStill DEF OnItsWay, Moves, Acts
  <2>8. OnItsWay(new)'
    BY <1>0, <1>2, <2>0, <2>2, <2>3, <2>5, <2>7, StepTaken
  <2> QED BY <2>0, <2>1, <2>8
<1>4. CASE cont[h.k].st # "online"
  <2>0. /\ cont' = [cont EXCEPT ![h.k].st = "stopped"] /\ UNCHANGED nextId
        /\ ops' = [ops EXCEPT ![o] = Pop(op)]
        /\ procs' = IF h.do = "remove" THEN [procs EXCEPT ![cont[h.k].id] = NoObject] ELSE procs
    <3>1. cont[h.k].st # "launching"
      BY <1>0, <1>2 DEF Created
    <3> QED BY <1>0, <1>1, <1>2, <1>4, <3>1 DEF StopBegins, TabInv, ListTyped
  <2>1. PICK new : new = Pop(op)
    OBVIOUS
  <2>2. /\ GoesOn(op, new) /\ new.busy = NoObject /\ new.started = op.started
        /\ StepsOf(op) = StepsOf(new) \cup {h}
    BY <1>0, <1>1, <2>1, PopLeaves
  <2>3. /\ NamesStay /\ cont'[h.k].st = "stopped"
        /\ \A j \in Object : j # h.k => cont'[j].st = cont[j].st
    BY <1>2, <2>0, StateChanges DEF TabInv
  <2>4. MayLeave /\ \A n : Of(n)' = IF h.do = "remove" THEN Of(n) \ {h.k} ELSE Of(n)
    <3>1. CASE h.do = "remove"
      BY <1>0, <1>2, <2>0, <2>3, <3>1, Removed
    <3>2. CASE h.do # "remove"
      <4>1. MayLeave
        BY <2>0, <3>2 DEF MayLeave
      <4> QED BY <2>0, <2>3, <3>2, <4>1, OfStays DEF TabInv
    <3> QED BY <3>1, <3>2
  <2>5. MovesAwaited(new)'
    BY <1>0, <2>2, <2>3 DEF MovesAwaited
  <2>6. \A n : \A k \in Of(n)' :
           /\ cont'[k].st = "stopped" /\ cont[k].st # "stopped" => h.do = "stop" /\ h.k = k
           /\ cont'[k].st # "stopped" => cont[k].st # "stopped"
    <3>1. \A n : Of(n) \subseteq Object
      BY ListedTyped DEF TabInv, Created
    <3> QED BY <1>2, <2>3, <2>4, <3>1
  <2>7. ListStands(new)'
    <3>1. Acts(new, h)
      BY <1>2, <2>3, <2>4 DEF Acts
    <3>2. Moves(h)
      BY <2>4, <2>6 DEF Moves
    <3>3. ListStands(op) /\ GoalFits(op)
      BY DEF OnItsWay
    <3> QED BY <1>0, <1>2, <2>2, <2>3, <3>1, <3>2, <3>3, StandsStill
  <2>8. OnItsWay(new)'
    BY <1>0, <1>2, <2>0, <2>2, <2>3, <2>4, <2>5, <2>7, StepTaken
  <2> QED BY <2>0, <2>1, <2>8
<1> QED BY <1>3, <1>4

(* A new container takes its place in the list, and perhaps that of another.  *)
Enters(k, i, n, st) ==
  /\ cont' = [cont EXCEPT ![k] = [name |-> n, id |-> i, st |-> st]]
  /\ procs' = [procs EXCEPT ![i] = k]

LEMMA Entered ==
  ASSUME TabInv, NEW k \in Unused, NEW i \in Id, NEW n, NEW st, Enters(k, i, n, st)
  PROVE  /\ cont'[k].name = n /\ cont'[k].id = i /\ cont'[k].st = st
         /\ k \in Object /\ k \notin Created /\ k # NoObject
         /\ \A j \in Object : j # k => cont'[j] = cont[j]
         /\ \A j \in Created : cont'[j] = cont[j]
         /\ procs'[i] = k /\ \A j \in Id : j # i => procs'[j] = procs[j]
         /\ \A m : Of(m)' = (Of(m) \ {procs[i]}) \cup (IF m = n THEN {k} ELSE {})
<1>0. k \in Object /\ k \notin Created /\ k # NoObject
  BY DEF Unused, Created, Object, NoObject
<1>1. /\ cont'[k].name = n /\ cont'[k].id = i /\ cont'[k].st = st
      /\ \A j \in Object : j # k => cont'[j] = cont[j]
  BY <1>0 DEF TabInv, ListTyped, Enters
<1>2. \A j \in Created : cont'[j] = cont[j]
  BY <1>0, <1>1 DEF Created
<1>3. procs'[i] = k /\ \A j \in Id : j # i => procs'[j] = procs[j]
  BY DEF TabInv, ListTyped, Enters
<1>4. \A j \in Id : procs[j] = procs[i] /\ procs[i] # NoObject => j = i
  BY DEF TabInv, IdsFresh
<1>5. Listed' = (Listed \ {procs[i]}) \cup {k}
  BY <1>0, <1>3, <1>4 DEF Listed
<1>6. k \notin Listed /\ Listed \subseteq Created
  BY <1>0, ListedTyped DEF TabInv
<1>7. \A m : Of(m)' = (Of(m) \ {procs[i]}) \cup (IF m = n THEN {k} ELSE {})
  BY <1>1, <1>2, <1>5, <1>6 DEF Of
<1> QED BY <1>0, <1>1, <1>2, <1>3, <1>7

(* A step fits still: it is about a container there was before, or a name.    *)
LEMMA FitsStill ==
  ASSUME TabInv, NEW k \in Unused, NEW i \in Id, NEW n, NEW st, Enters(k, i, n, st),
         nextId <= nextId', nextId' \in 0 .. MaxIds, meant' = meant, dump' = dump,
         NEW op \in TabRequests(Created), NEW new,
         new.goal = op.goal, new.then = op.then, new.rest = op.rest,
         new.tolerant = op.tolerant, new.started = op.started,
         NEW s \in StepsOf(op), StepFits(op, s), s.do = "remove" => i = nextId
  PROVE  StepFits(new, s)' /\ AppOf(s)' = AppOf(s)
<1>0. /\ \A j \in Created : cont'[j] = cont[j]
      /\ \A j \in Id : j # i => procs'[j] = procs[j]
  BY Entered
<1>1. s \in TabSteps(Created)
  BY StepsOfTyped
<1>2. Due(new)' = Due(op)
  BY DueStays
<1>3. AppOf(s)' = AppOf(s)
  BY <1>0, <1>1 DEF AppOf, TabSteps
<1>4. /\ s.do \in {"resume", "create"} =>
             (Due(new)'[AppOf(s)'] \in {"run", "any"} /\ new.then \in {"save", "quiet"})
      /\ s.do = "create" => new.then = "save"
      /\ s.do = "stop" /\ new.then \in {"save", "quiet"} =>
           Due(new)'[AppOf(s)'] \in {"stop", "any"}
      /\ new.rest # {} => s.do = "stop"
      /\ s.do = "item" => /\ new.then = "quiet" /\ new.tolerant
                          /\ [name |-> s.name, id |-> s.id, stopped |-> s.stopped]
                               \in EntriesOf(dump'.entries)
  BY <1>2, <1>3 DEF StepFits
<1>5. s.do = "remove" => /\ new.then = "save" /\ cont'[s.k].id < nextId'
                         /\ procs'[cont'[s.k].id] \in {s.k, NoObject}
  <2> SUFFICES ASSUME s.do = "remove"
               PROVE  /\ new.then = "save" /\ cont'[s.k].id < nextId'
                      /\ procs'[cont'[s.k].id] \in {s.k, NoObject}
    OBVIOUS
  <2>1. s.k \in Created /\ cont'[s.k] = cont[s.k]
    BY <1>0, <1>1 DEF TabSteps
  <2>2. cont[s.k].id \in Id /\ cont[s.k].id < nextId /\ nextId \in Nat /\ nextId' \in Nat
    BY <2>1 DEF StepFits, TabInv, ListTyped, Created, Conts
  <2>3. procs'[cont[s.k].id] = procs[cont[s.k].id]
    BY <1>0, <2>2
  <2>4. cont[s.k].id < nextId'
    BY <2>2 DEF Id
  <2> QED BY <2>1, <2>3, <2>4 DEF StepFits
<1>6. ~new.tolerant /\ s.do \in {"resume", "create"} =>
        /\ DOMAIN new.goal = {AppOf(s)'}
        /\ \A j \in DOMAIN new.started : cont'[new.started[j]].name = AppOf(s)'
  <2>1. \A j \in DOMAIN op.started : op.started[j] \in Created
    <3>1. op.started \in Seq(Created)
      BY DEF TabRequests
    <3> QED BY <3>1, LenProperties, ElementOfSeq
  <2> QED BY <1>0, <1>3, <2>1 DEF StepFits
<1> QED BY <1>3, <1>4, <1>5, <1>6 DEF StepFits

(* new ProcessContainer: it is listed and launching, under an id no dump has. *)
LEMMA CreateOnWay ==
  ASSUME TabInv, NEW o \in Slots, NEW op \in {ops[o]}, OnItsWay(op), StepBegins(o),
         CreateBegins(o)
  PROVE  \E new : ops' = [ops EXCEPT ![o] = new] /\ OnItsWay(new)'
<1>0. /\ op \in TabRequests(Created) /\ op.todo # <<>> /\ op.busy = NoObject /\ ~op.saving
      /\ Task(o) = op.todo[1] /\ op.todo[1] \in TabSteps(Created)
      /\ up /\ UNCHANGED <<dump, boots, asked, up, meant, serial>>
      /\ StepFits(op, op.todo[1])
      /\ \A k \in Object : cont[k].st \notin {"launching", "stopping"}
  BY Begun
<1>1. PICK h : h = op.todo[1]
  OBVIOUS
<1>2. PICK k \in Unused : k = NewObject
  BY NewUnused DEF CreateBegins
<1>3. PICK i \in Id : i = nextId
  BY DEF CreateBegins
<1>4. PICK new : new = [op EXCEPT !.busy = k]
  OBVIOUS
<1>5. /\ h.do = "create" /\ h \in TabSteps(Created) /\ h.name \in Names
      /\ StepFits(op, h) /\ h \in StepsOf(op) /\ AppOf(h) = h.name
      /\ Enters(k, i, h.name, "launching") /\ nextId' = nextId + 1
      /\ ops' = [ops EXCEPT ![o] = new]
  BY <1>0, <1>1, <1>2, <1>3, <1>4, PopLeaves DEF CreateBegins, TabSteps, Enters, AppOf
<1>6. /\ nextId \in Nat /\ nextId <= nextId' /\ nextId' \in 0 .. MaxIds
      /\ op.then = "save" /\ op.rest = {} /\ Due(op)[h.name] \in {"run", "any"}
  BY <1>3, <1>5, TableAssumption DEF StepFits, Id
<1>7. /\ GoesOn(op, new) /\ new.busy = k /\ new.started = op.started
      /\ new.todo = op.todo /\ StepsOf(new) = StepsOf(op)
  BY <1>0, <1>4, Turns
<1>8. /\ cont'[k].name = h.name /\ cont'[k].id = i /\ cont'[k].st = "launching"
      /\ k \in Object /\ k \notin Created /\ k # NoObject
      /\ \A j \in Object : j # k => cont'[j] = cont[j]
      /\ \A j \in Created : cont'[j] = cont[j]
      /\ procs'[i] = k /\ \A j \in Id : j # i => procs'[j] = procs[j]
      /\ \A m : Of(m)' = (Of(m) \ {procs[i]}) \cup (IF m = h.name THEN {k} ELSE {})
  BY <1>5, Entered
<1>9. procs[i] = NoObject /\ \A m : NoObject \notin Of(m)
  BY <1>3, <1>6 DEF TabInv, IdsFresh, Of, Listed
<1>10. \A m : Of(m)' = Of(m) \cup (IF m = h.name THEN {k} ELSE {})
  BY <1>8, <1>9
<1>11. MovesAwaited(new)'
  BY <1>0, <1>1, <1>5, <1>7, <1>8, <1>10 DEF MovesAwaited
<1>12. GoalFits(new)'
  <2>1. ASSUME NEW s \in StepsOf(new) PROVE StepFits(new, s)'
    <3>1. s \in StepsOf(op) /\ StepFits(op, s)
      BY <1>7 DEF OnItsWay, GoalFits
    <3> QED BY <1>0, <1>3, <1>5, <1>6, <1>7, <3>1, FitsStill DEF GoesOn
  <2>2. /\ new.then = "save" /\ new.rest = {}
        /\ \A s, t \in StepsOf(new) :
             s.do \in {"stop", "remove"} => t.do \notin {"resume", "create", "item"}
    BY <1>6, <1>7 DEF GoesOn, OnItsWay, GoalFits
  <2> QED BY <2>1, <2>2 DEF GoalFits
<1>13. DumpTells(new)'
  <2>1. Told(dump.entries, meant) /\ (~dump.intact => dump.entries = <<>>)
    BY DEF OnItsWay, DumpTells
  <2>2. CASE AnyGoes
    <3>1. AnyGoes'
      BY <1>0, <2>2 DEF AnyGoes
    <3> QED BY <1>0, <2>1, <3>1 DEF DumpTells
  <2>3. CASE InPlace(op)
    <3>1. \A s \in StepsOf(op) : s.do # "item"
      BY <1>6 DEF OnItsWay, GoalFits, StepFits
    <3>2. \A e \in EntriesOf(dump.entries) : e \in Entries /\ e.id < nextId
      BY <1>0, <2>3, <3>1, EntriesTyped DEF InPlace, TabInv, RestTyped
    <3>3. ASSUME NEW e \in EntriesOf(dump.entries), procs'[e.id] # NoObject
          PROVE  cont'[procs'[e.id]].name = e.name
      <4>1. e.id \in Id /\ e.id # i
        BY <1>3, <3>2 DEF Entries, Id
      <4>2. procs'[e.id] = procs[e.id] /\ procs[e.id] \in Created
        BY <1>8, <3>3, <4>1 DEF TabInv, ListTyped
      <4> QED BY <1>8, <2>3, <3>3, <4>2 DEF InPlace, Placed
    <3>4. Placed(dump.entries)'
      BY <1>0, <3>3 DEF Placed
    <3>5. \A e \in EntriesOf(dump.entries) : e.id < nextId'
      BY <1>5, <1>6, <3>2 DEF Entries, Id
    <3>6. InPlace(new)'
      BY <1>0, <3>4, <3>5 DEF InPlace
    <3> QED BY <1>0, <2>1, <3>6 DEF DumpTells
  <2> QED BY <2>2, <2>3 DEF OnItsWay, DumpTells
<1>14. ASSUME NEW n \in Names PROVE Stands(new, n)'
  <2>1. Stands(op, n) /\ Due(new)' = Due(op)
    BY <1>0, <1>6, <1>7, DueStays DEF OnItsWay, ListStands, GoesOn
  <2>2. /\ \A do, j : Has(new, do, j) = Has(op, do, j)
        /\ Brings(new, n) = Brings(op, n) /\ Brings(op, h.name)
    BY <1>5, <1>7 DEF Has, Brings
  <2>3. \A j \in Of(n) : j # k /\ cont'[j] = cont[j]
    BY <1>8, ListedTyped DEF TabInv
  <2>4. Due(op)[n] \in {"run", "stop"} =>
          Brings(new, n) \/ \E j \in Of(n)' : ~Has(new, "remove", j)
    BY <1>10, <2>1, <2>2 DEF Stands
  <2>5. ASSUME NEW j \in Of(n)'
        PROVE  /\ Due(op)[n] = "run" => \/ cont'[j].st # "stopped"
                                        \/ Has(new, "resume", j) \/ Has(new, "remove", j)
               /\ Due(op)[n] = "stop" => \/ cont'[j].st = "stopped" \/ Has(new, "stop", j)
                                         \/ (new.rest # {} /\ j \notin new.rest)
               /\ Due(op)[n] = "absent" => Has(new, "remove", j)
    <3>1. CASE j \in Of(n)
      BY <1>7, <2>1, <2>2, <2>3, <3>1 DEF Stands, GoesOn
    <3>2. CASE j \notin Of(n)
      <4>1. j = k /\ n = h.name
        BY <1>10, <2>5, <3>2
      <4> QED BY <1>6, <1>8, <4>1
    <3> QED BY <3>1, <3>2
  <2> QED BY <2>1, <2>4, <2>5 DEF Stands
<1>15. OnItsWay(new)'
  <2>1. ListStands(new)'
    BY <1>14 DEF ListStands
  <2>2. SaveTells(new)'
    BY <1>0, <1>7 DEF SaveTells, GoesOn
  <2> QED BY <1>0, <1>11, <1>12, <1>13, <2>1, <2>2 DEF OnItsWay
<1> QED BY <1>5, <1>15

(* A step more at the end of a request.                                       *)
LEMMA StepsOfAppend ==
  ASSUME NEW B, NEW x, NEW old, old.todo \in Seq(B), NEW op, op.todo = Append(old.todo, x)
  PROVE  StepsOf(op) = StepsOf(old) \cup {x}
<1>0. PICK q \in Seq(B) : q = old.todo
  OBVIOUS
<1>1. /\ Len(q) \in Nat /\ DOMAIN q = 1 .. Len(q)
      /\ DOMAIN Append(q, x) = 1 .. Len(q) + 1
      /\ \A i \in 1 .. Len(q) : Append(q, x)[i] = q[i]
      /\ Append(q, x)[Len(q) + 1] = x
  <2>1. q \in Seq(B \cup {x})
    BY SeqMonotonic
  <2> QED BY <2>1, LenProperties, AppendProperties
<1> DEFINE a == Append(q, x)
<1>2. {a[i] : i \in DOMAIN a} = {q[i] : i \in DOMAIN q} \cup {x}
  <2> HIDE DEF a
  <2>0. /\ Len(q) \in Nat /\ DOMAIN q = 1 .. Len(q) /\ DOMAIN a = 1 .. Len(q) + 1
        /\ \A i \in 1 .. Len(q) : a[i] = q[i]
        /\ a[Len(q) + 1] = x
    BY <1>1 DEF a
  <2>1. \A i \in DOMAIN a : i \in DOMAIN q \/ i = Len(q) + 1
    BY <2>0
  <2>2. \A i \in DOMAIN q : i \in DOMAIN a
    BY <2>0
  <2>3. Len(q) + 1 \in DOMAIN a
    BY <2>0
  <2> QED BY <2>0, <2>1, <2>2, <2>3
<1> QED BY <1>0, <1>2 DEF StepsOf, a

(* An entry of the dump: what runs under its id is left alone; what does not  *)
(* is replaced by a process of the same name, that is down, and resumed if    *)
(* the entry was not.                                                         *)
LEMMA PassOnWay ==
  ASSUME TabInv, NEW o \in Slots, NEW op \in {ops[o]}, OnItsWay(op), StepBegins(o),
         Task(o).do = "item", procs[Task(o).id] # NoObject,
         ops' = [ops EXCEPT ![o] = Pop(@)], UNCHANGED <<cont, procs, nextId>>
  PROVE  \E new : ops' = [ops EXCEPT ![o] = new] /\ OnItsWay(new)'
<1>0. /\ op \in TabRequests(Created) /\ op.todo # <<>> /\ op.busy = NoObject /\ ~op.saving
      /\ Task(o) = op.todo[1] /\ op.todo[1] \in TabSteps(Created)
      /\ up /\ UNCHANGED <<dump, boots, asked, up, meant, serial>>
      /\ StepFits(op, op.todo[1])
      /\ \A k \in Object : cont[k].st \notin {"launching", "stopping"}
  BY Begun
<1>1. PICK h : h = op.todo[1]
  OBVIOUS
<1>2. PICK new : new = Pop(op)
  OBVIOUS
<1>3. /\ h.do = "item" /\ h \in TabSteps(Created) /\ h.id \in Id /\ procs[h.id] # NoObject
      /\ StepFits(op, h) /\ op.then = "quiet" /\ ops' = [ops EXCEPT ![o] = new]
  BY <1>0, <1>1, <1>2 DEF TabSteps, StepFits
<1>4. /\ GoesOn(op, new) /\ new.busy = NoObject /\ new.started = op.started
      /\ StepsOf(op) = StepsOf(new) \cup {h}
  BY <1>0, <1>1, <1>2, PopLeaves
<1>5. NamesStay /\ MayLeave /\ \A n : Of(n)' = Of(n)
  BY DEF NamesStay, MayLeave, Of, Listed
<1>6. MovesAwaited(new)'
  BY <1>0, <1>4 DEF MovesAwaited
<1>7. h.id < nextId /\ (InPlace(op) => procs[h.id] \in Of(h.name))
  <2>1. InPlace(op) => cont[procs[h.id]].name = h.name
    BY <1>3 DEF StepFits, InPlace, Placed
  <2> QED BY <1>3, <2>1 DEF Of, Listed, TabInv, IdsFresh
<1>8. \A k : ~Has(new, "remove", k)
  BY <1>3, <1>4 DEF Has, OnItsWay, GoalFits, StepFits
<1>9. ListStands(new)'
  <2>1. CASE InPlace(op)
    <3>1. Moves(h) /\ Acts(new, h)
      BY <1>3, <1>5, <1>7, <1>8, <2>1 DEF Moves, Acts
    <3> QED BY <1>0, <1>3, <1>4, <1>5, <3>1, StandsStill DEF OnItsWay
  <2>2. CASE AnyGoes
    <3>1. DOMAIN new.goal = {}
      BY <1>3, <1>4 DEF OnItsWay, GoalFits, GoesOn
    <3>2. \A n \in Names : Due(new)'[n] = "any"
      BY <1>0, <2>2, <3>1 DEF Due, Answered, AnyGoes
    <3> QED BY <3>2 DEF ListStands, Stands
  <2> QED BY <2>1, <2>2 DEF OnItsWay, DumpTells
<1>10. OnItsWay(new)'
  BY <1>0, <1>4, <1>5, <1>6, <1>7, <1>9, StepTaken
<1> QED BY <1>3, <1>10

LEMMA PlaceOnWay ==
  ASSUME TabInv, NEW o \in Slots, NEW op \in {ops[o]}, OnItsWay(op), StepBegins(o),
         PlaceItem(o)
  PROVE  \E new : ops' = [ops EXCEPT ![o] = new] /\ OnItsWay(new)'
<1>0. /\ op \in TabRequests(Created) /\ op.todo # <<>> /\ op.busy = NoObject /\ ~op.saving
      /\ Task(o) = op.todo[1] /\ op.todo[1] \in TabSteps(Created)
      /\ up /\ UNCHANGED <<dump, boots, asked, up, meant, serial>>
      /\ StepFits(op, op.todo[1])
      /\ \A k \in Object : cont[k].st \notin {"launching", "stopping"}
  BY Begun
<1>1. CASE /\ procs[Task(o).id] # NoObject /\ ops' = [ops EXCEPT ![o] = Pop(@)]
           /\ UNCHANGED <<cont, procs, nextId>>
  BY <1>1, PassOnWay DEF PlaceItem
<1>2. CASE /\ Unused # {}
           /\ cont' = [cont EXCEPT ![NewObject] = [name |-> Task(o).name, id |-> Task(o).id,
                                                   st |-> "stopped"]]
           /\ procs' = [procs EXCEPT ![Task(o).id] = NewObject]
           /\ nextId' = IdAfter(Task(o).id)
           /\ ops' = [ops EXCEPT ![o].todo =
                 IF Task(o).stopped THEN Tail(@) ELSE Append(Tail(@), Step("resume", NewObject))]
  <2>1. PICK h : h = op.todo[1]
    OBVIOUS
  <2>2. PICK k \in Unused : k = NewObject
    BY <1>2, NewUnused
  <2>3. PICK i \in Id : i = h.id
    BY <1>0, <2>1 DEF TabSteps
  <2>4. PICK rest : rest = Pop(op)
    OBVIOUS
  <2>5. PICK todo : todo = IF h.stopped THEN Tail(op.todo)
                           ELSE Append(Tail(op.todo), Step("resume", k))
    OBVIOUS
  <2>6. PICK new : new = [op EXCEPT !.todo = todo]
    OBVIOUS
  <2>7. /\ h.do = "item" /\ h \in TabSteps(Created) /\ h.name \in Names /\ h.stopped \in BOOLEAN
        /\ StepFits(op, h) /\ h \in StepsOf(op) /\ op.then = "quiet" /\ op.tolerant
        /\ op.rest = {}
        /\ Enters(k, i, h.name, "stopped") /\ nextId' = IdAfter(i)
        /\ ops' = [ops EXCEPT ![o] = new]
    <3>1. h.do = "item" /\ h \in TabSteps(Created) /\ StepFits(op, h) /\ h \in StepsOf(op)
      BY <1>0, <2>1, PopLeaves DEF PlaceItem
    <3>2. h.name \in Names /\ h.stopped \in BOOLEAN /\ op.then = "quiet" /\ op.tolerant
          /\ op.rest = {}
      BY <3>1 DEF TabSteps, StepFits
    <3>3. Enters(k, i, h.name, "stopped") /\ nextId' = IdAfter(i)
      BY <1>0, <1>2, <2>1, <2>2, <2>3 DEF Enters
    <3>4. ops' = [ops EXCEPT ![o] = new]
      BY <1>0, <1>2, <2>1, <2>2, <2>5, <2>6
    <3> QED BY <3>1, <3>2, <3>3, <3>4
  <2>8. /\ nextId \in Nat /\ nextId <= nextId' /\ nextId' \in 0 .. MaxIds /\ i < nextId'
    BY <2>3, <2>7, TableAssumption DEF TabInv, ListTyped, Id, IdAfter
  <2>9. /\ new.goal = op.goal /\ new.then = op.then /\ new.saving = op.saving
        /\ new.rest = op.rest /\ new.tolerant = op.tolerant /\ new.data = op.data
        /\ new.started = op.started /\ new.busy = NoObject /\ new.todo = todo
    BY <1>0, <2>6 DEF TabRequests
  <2>10. PICK r : r = Step("resume", k)
    OBVIOUS
  <2>11. /\ StepsOf(op) = StepsOf(rest) \cup {h} /\ StepsOf(rest) \subseteq StepsOf(op)
         /\ StepsOf(new) = StepsOf(rest) \cup (IF h.stopped THEN {} ELSE {r})
    <3>1. /\ StepsOf(op) = StepsOf(rest) \cup {h} /\ StepsOf(rest) \subseteq StepsOf(op)
          /\ rest.todo = Tail(op.todo)
      BY <1>0, <2>1, <2>4, PopLeaves
    <3>2. CASE h.stopped
      <4>1. new.todo = rest.todo
        BY <2>5, <2>9, <3>1, <3>2
      <4>2. StepsOf(new) = StepsOf(rest)
        BY <4>1 DEF StepsOf
      <4> QED BY <3>1, <3>2, <4>2
    <3>3. CASE ~h.stopped
      <4>1. op.todo \in Seq(TabSteps(Created)) /\ op.todo # <<>>
        BY <1>0 DEF TabRequests
      <4>2. PICK B : B = TabSteps(Created)
        OBVIOUS
      <4>3. rest.todo \in Seq(B)
        BY <3>1, <4>1, <4>2, HeadTailProperties
      <4>4. new.todo = Append(rest.todo, r)
        BY <2>5, <2>9, <2>10, <3>1, <3>3
      <4>5. StepsOf(new) = StepsOf(rest) \cup {r}
        BY <4>3, <4>4, StepsOfAppend
      <4> QED BY <3>1, <3>3, <4>5
    <3> QED BY <3>1, <3>2, <3>3
  <2>12. r.do = "resume" /\ r.k = k
    BY <2>10 DEF Step
  <2>13. /\ cont'[k].name = h.name /\ cont'[k].id = i /\ cont'[k].st = "stopped"
         /\ k \in Object /\ k \notin Created /\ k # NoObject
         /\ \A j \in Object : j # k => cont'[j] = cont[j]
         /\ \A j \in Created : cont'[j] = cont[j]
         /\ procs'[i] = k /\ \A j \in Id : j # i => procs'[j] = procs[j]
         /\ \A m : Of(m)' = (Of(m) \ {procs[i]}) \cup (IF m = h.name THEN {k} ELSE {})
    BY <2>7, Entered
  <2>14. PICK e \in EntriesOf(dump.entries) :
           e.name = h.name /\ e.id = i /\ e.stopped = h.stopped
    BY <2>3, <2>7 DEF StepFits
  <2>15. /\ Told(dump.entries, meant) /\ (AnyGoes \/ InPlace(op))
         /\ \A n \in Names : Due(op)[n] = meant[n] /\ meant[n] \in Wishes
    <3>1. DOMAIN op.goal = {}
      BY <2>7 DEF OnItsWay, GoalFits
    <3>2. \A n \in Names : Due(op)[n] = meant[n] /\ meant[n] \in Wishes
      BY <3>1, DueIs DEF TabInv, RestTyped
    <3> QED BY <3>2 DEF OnItsWay, DumpTells
  <2>16. /\ meant[h.name] = "run" => ~h.stopped
         /\ meant[h.name] = "stop" => h.stopped
         /\ meant[h.name] # "absent"
    BY <2>7, <2>14, <2>15 DEF Told
  <2>17. \A s \in StepsOf(op) : s.do # "remove" /\ StepFits(op, s)
    BY <2>7 DEF OnItsWay, GoalFits, StepFits
  <2>18. MovesAwaited(new)'
    BY <1>0, <2>9, <2>13 DEF MovesAwaited
  <2>19. GoalFits(new)'
    <3>1. ASSUME NEW s \in StepsOf(rest) PROVE StepFits(new, s)'
      <4>1. s \in StepsOf(op) /\ StepFits(op, s) /\ s.do # "remove"
        BY <2>11, <2>17
      <4> QED BY <1>0, <2>7, <2>8, <2>9, <4>1, FitsStill
    <3>2. ~h.stopped => StepFits(new, r)'
      <4> SUFFICES ASSUME ~h.stopped PROVE StepFits(new, r)'
        OBVIOUS
      <4>1. AppOf(r)' = h.name
        BY <2>12, <2>13 DEF AppOf
      <4>2. Due(new)' = Due(op)
        BY <1>0, <2>9, DueStays
      <4>3. Due(new)'[AppOf(r)'] \in {"run", "any"}
        BY <2>7, <2>15, <2>16, <4>1, <4>2 DEF Wishes
      <4> QED BY <2>7, <2>9, <2>12, <4>3 DEF StepFits
    <3>3. \A s \in StepsOf(new) : StepFits(new, s)'
      BY <2>11, <3>1, <3>2
    <3>4. DOMAIN new.goal = {} /\ new.then = "quiet" /\ new.rest = {}
      BY <2>7, <2>9 DEF OnItsWay, GoalFits
    <3>5. \A s \in StepsOf(new) : s.do \notin {"stop", "remove"}
      BY <2>7, <2>11, <2>12 DEF OnItsWay, GoalFits
    <3> QED BY <3>3, <3>4, <3>5 DEF GoalFits
  <2>20. DumpTells(new)'
    <3>1. \A f \in EntriesOf(dump.entries) : f \in Entries /\ f.id \in Id
      BY EntriesTyped DEF TabInv, RestTyped, Entries
    <3>2. CASE AnyGoes
      <4>1. AnyGoes'
        BY <1>0, <3>2 DEF AnyGoes
      <4> QED BY <1>0, <4>1 DEF OnItsWay, DumpTells
    <3>3. CASE InPlace(op)
      <4>1. ASSUME NEW f \in EntriesOf(dump.entries), procs'[f.id] # NoObject
            PROVE  cont'[procs'[f.id]].name = f.name
        <5>1. CASE f.id = i
          BY <2>13, <2>14, <2>15, <5>1 DEF Told
        <5>2. CASE f.id # i
          <6>1. procs'[f.id] = procs[f.id] /\ procs[f.id] \in Created
            BY <2>13, <3>1, <4>1, <5>2 DEF TabInv, ListTyped
          <6> QED BY <2>13, <3>3, <4>1, <6>1 DEF InPlace, Placed
        <5> QED BY <5>1, <5>2
      <4>2. Placed(dump.entries)'
        BY <1>0, <4>1 DEF Placed
      <4>3. ASSUME NEW f \in EntriesOf(dump.entries)
            PROVE  f.id < nextId' \/ \E s \in StepsOf(new) : s.do = "item" /\ s.id = f.id
        <5>1. \/ f.id < nextId \/ \E s \in StepsOf(op) : s.do = "item" /\ s.id = f.id
          BY <1>0, <2>7, <3>3 DEF InPlace
        <5>2. CASE f.id < nextId
          BY <2>8, <3>1, <5>2 DEF Id
        <5>3. CASE \E s \in StepsOf(op) : s.do = "item" /\ s.id = f.id
          BY <2>3, <2>8, <2>11, <5>3
        <5> QED BY <5>1, <5>2, <5>3
      <4>4. InPlace(new)'
        BY <1>0, <4>2, <4>3 DEF InPlace
      <4> QED BY <1>0, <4>4 DEF OnItsWay, DumpTells
    <3> QED BY <2>15, <3>2, <3>3
  <2>21. ASSUME NEW n \in Names PROVE Stands(new, n)'
    <3>1. Stands(op, n) /\ Due(new)' = Due(op) /\ Due(op)[n] = meant[n]
      BY <1>0, <2>7, <2>9, <2>15, DueStays DEF OnItsWay, ListStands
    <3>2. /\ \A do, j : do # "item" /\ Has(op, do, j) => Has(new, do, j)
          /\ \A j : ~Has(new, "remove", j) /\ ~Has(op, "remove", j)
          /\ Brings(op, n) => Brings(new, n) \/ n = h.name
          /\ ~h.stopped => Has(new, "resume", k)
      BY <2>7, <2>11, <2>12, <2>17 DEF Has, Brings
    <3>3. \A j \in Of(n) : j # k /\ cont'[j] = cont[j]
      BY <2>13, ListedTyped DEF TabInv
    <3>4. Due(op)[n] \in {"run", "stop"} =>
            Brings(new, n) \/ \E j \in Of(n)' : ~Has(new, "remove", j)
      <4>1. CASE n = h.name
        BY <2>13, <3>2, <4>1
      <4>2. CASE n # h.name
        <5>1. InPlace(op) => procs[i] \notin Of(n)
          <6>1. InPlace(op) /\ procs[i] # NoObject => cont[procs[i]].name = h.name
            BY <2>14 DEF InPlace, Placed
          <6> QED BY <4>2, <6>1 DEF Of, Listed
        <5>2. AnyGoes => Due(op)[n] = "any"
          BY <3>1 DEF AnyGoes
        <5> QED BY <2>13, <2>15, <3>1, <3>2, <4>2, <5>1, <5>2 DEF Stands
      <4> QED BY <4>1, <4>2
    <3>5. ASSUME NEW j \in Of(n)'
          PROVE  /\ Due(op)[n] = "run" => \/ cont'[j].st # "stopped"
                                          \/ Has(new, "resume", j) \/ Has(new, "remove", j)
                 /\ Due(op)[n] = "stop" => \/ cont'[j].st = "stopped" \/ Has(new, "stop", j)
                                           \/ (new.rest # {} /\ j \notin new.rest)
                 /\ Due(op)[n] = "absent" => Has(new, "remove", j)
      <4>1. CASE j \in Of(n)
        BY <2>9, <3>1, <3>2, <3>3, <4>1 DEF Stands
      <4>2. CASE j \notin Of(n)
        <5>1. j = k /\ n = h.name
          BY <2>13, <3>5, <4>2
        <5> QED BY <2>13, <2>16, <3>1, <3>2, <5>1
      <4> QED BY <4>1, <4>2
    <3> QED BY <3>1, <3>4, <3>5 DEF Stands
  <2>22. ListStands(new)'
    BY <2>21 DEF ListStands
  <2>23. SaveTells(new)'
    BY <1>0, <2>9 DEF SaveTells
  <2>24. OnItsWay(new)'
    BY <1>0, <2>18, <2>19, <2>20, <2>22, <2>23 DEF OnItsWay
  <2> QED BY <2>7, <2>24
<1> QED BY <1>1, <1>2 DEF PlaceItem

(* A start or a stop is awaited for the first step, which is about it.        *)
LEMMA Awaiting ==
  ASSUME TabInv, NEW o \in Slots, NEW op \in {ops[o]}, OnItsWay(op),
         NEW k, k = op.busy, k # NoObject, NEW h, h = op.todo[1]
  PROVE  /\ op \in TabRequests(Created) /\ op.todo # <<>> /\ ~op.saving /\ k \in Created
         /\ h \in TabSteps(Created) /\ h \in StepsOf(op) /\ StepFits(op, h) /\ h.do # "item"
         /\ cont[k].st = IF h.do \in {"resume", "create"} THEN "launching" ELSE "stopping"
         /\ IF h.do = "create" THEN k \in Of(h.name) ELSE k = h.k
         /\ cont[k].name = AppOf(h)
         /\ \A j \in Object : j # k => cont[j].st \notin {"launching", "stopping"}
<1>1. op \in TabRequests(Created) /\ op.todo # <<>> /\ k \in Created
  BY DEF TabInv, RequestsTyped, TabRequests
<1>2. h \in TabSteps(Created) /\ h \in StepsOf(op)
  BY <1>1, PopLeaves
<1>3. StepFits(op, h) /\ ~op.saving
  BY <1>1, <1>2 DEF OnItsWay, GoalFits, SaveTells
<1>4. /\ h.do # "item"
      /\ cont[k].st = IF h.do \in {"resume", "create"} THEN "launching" ELSE "stopping"
      /\ IF h.do = "create" THEN k \in Of(h.name) ELSE k = h.k
      /\ \A j \in Object : j # k => cont[j].st \notin {"launching", "stopping"}
  BY DEF OnItsWay, MovesAwaited
<1>5. cont[k].name = AppOf(h)
  BY <1>4 DEF AppOf, Of
<1> QED BY <1>1, <1>2, <1>3, <1>4, <1>5

(* start() returns, and the request goes on.                                  *)
LEMMA StartedOnWay ==
  ASSUME TabInv, NEW o \in Slots, NEW op \in {ops[o]}, OnItsWay(op), StartReturns(o),
         NEW st \in {"online", "errored"}, cont' = [cont EXCEPT ![op.busy].st = st],
         meant' = meant, NEW new,
         \/ new = Pop(op)
         \/ new = [Pop(op) EXCEPT !.started = <<op.busy>> \o op.started]
  PROVE  OnItsWay(new)'
<1>1. PICK k : k = op.busy
  OBVIOUS
<1>2. PICK h : h = op.todo[1]
  OBVIOUS
<1>3. k # NoObject /\ cont[k].st = "launching" /\ up
      /\ UNCHANGED <<procs, nextId, dump, boots, asked, up, serial>>
  BY <1>1 DEF StartReturns
<1>4. /\ op \in TabRequests(Created) /\ op.todo # <<>> /\ ~op.saving /\ k \in Created
      /\ h \in TabSteps(Created) /\ h \in StepsOf(op) /\ StepFits(op, h)
      /\ h.do \in {"resume", "create"}
      /\ IF h.do = "create" THEN k \in Of(h.name) ELSE k = h.k
      /\ cont[k].name = AppOf(h)
      /\ \A j \in Object : j # k => cont[j].st \notin {"launching", "stopping"}
  BY <1>1, <1>2, <1>3, Awaiting
<1>5. PICK rest : rest = Pop(op)
  OBVIOUS
<1>6. /\ GoesOn(op, rest) /\ rest.busy = NoObject /\ rest.started = op.started
      /\ StepsOf(op) = StepsOf(rest) \cup {h}
  BY <1>2, <1>4, <1>5, PopLeaves
<1>7. /\ GoesOn(op, new) /\ new.busy = NoObject /\ StepsOf(op) = StepsOf(new) \cup {h}
      /\ new.started = rest.started \/ new.started = <<k>> \o op.started
  <2>1. CASE new = Pop(op)
    BY <1>5, <1>6, <2>1
  <2>2. CASE new = [Pop(op) EXCEPT !.started = <<op.busy>> \o op.started]
    <3>1. Pop(op) \in TabRequests(Created)
      BY <1>4, TaskTyped DEF TabInv
    <3>2. PICK r \in TabRequests(Created) : r = Pop(op)
      BY <3>1
    <3>3. PICK q : q = <<op.busy>> \o op.started
      OBVIOUS
    <3>4. new = [r EXCEPT !.started = q]
      BY <2>2, <3>2, <3>3
    <3>5. /\ new.started = q /\ new.busy = r.busy /\ new.todo = r.todo
          /\ new.goal = r.goal /\ new.then = r.then /\ new.saving = r.saving
          /\ new.rest = r.rest /\ new.tolerant = r.tolerant /\ new.data = r.data
      BY <3>4 DEF TabRequests
    <3>6. rest = r /\ q = <<k>> \o op.started
      BY <1>1, <1>5, <3>2, <3>3
    <3>7. new.started = <<k>> \o op.started
      BY <3>5, <3>6
    <3>8. GoesOn(op, new) /\ new.busy = NoObject /\ StepsOf(op) = StepsOf(new) \cup {h}
      <4>1. StepsOf(new) = StepsOf(rest)
        BY <3>5, <3>6 DEF StepsOf
      <4> QED BY <1>6, <3>5, <3>6, <4>1 DEF GoesOn
    <3> QED BY <3>7, <3>8
  <2> QED BY <2>1, <2>2
<1>8. /\ NamesStay /\ MayLeave /\ cont'[k].st = st
      /\ \A j \in Object : j # k => cont'[j].st = cont[j].st
  BY <1>1, <1>3, <1>4, StateChanges DEF MayLeave, TabInv
<1>9. \A n : Of(n)' = Of(n) /\ Of(n) \subseteq Object
  BY <1>3, <1>8, OfStays, ListedTyped DEF TabInv, Created
<1>10. MovesAwaited(new)'
  BY <1>4, <1>7, <1>8 DEF MovesAwaited
<1>11. ListStands(new)'
  <2>1. Moves(h)
    BY <1>3, <1>8, <1>9 DEF Moves
  <2>2. \A j : ~Has(new, "remove", j)
    BY <1>4, <1>7 DEF Has, OnItsWay, GoalFits
  <2>3. Acts(new, h)
    BY <1>4, <1>8, <1>9, <2>2 DEF Acts
  <2> QED BY <1>3, <1>4, <1>7, <1>8, <2>1, <2>3, StandsStill DEF OnItsWay
<1>12. \A s \in StepsOf(op) : ~op.tolerant /\ s.do \in {"resume", "create"}
                                => cont[k].name = AppOf(s)
  <2> TAKE s \in StepsOf(op)
  <2> HAVE ~op.tolerant /\ s.do \in {"resume", "create"}
  <2>1. StepFits(op, s)
    BY DEF OnItsWay, GoalFits
  <2>2. DOMAIN op.goal = {AppOf(s)} /\ DOMAIN op.goal = {AppOf(h)}
    BY <1>4, <2>1 DEF StepFits
  <2> QED BY <1>4, <2>2
<1>13. \A i \in DOMAIN new.started : new.started[i] = k
                                    \/ \E j \in DOMAIN op.started : new.started[i] = op.started[j]
  <2>1. op.started \in Seq(Created)
    BY <1>4 DEF TabRequests
  <2>2. CASE new.started = op.started
    BY <2>2
  <2>3. CASE new.started = <<k>> \o op.started
    <3>1. PICK q \in Seq(Created) : q = op.started
      BY <2>1
    <3>2. DOMAIN q = 1 .. Len(q) /\ Len(q) \in Nat
      BY LenProperties
    <3>3. \A i \in DOMAIN (<<k>> \o q) :
             (<<k>> \o q)[i] = k \/ \E j \in DOMAIN q : (<<k>> \o q)[i] = q[j]
      BY <1>4, <3>2
    <3> QED BY <2>3, <3>1, <3>3
  <2> QED BY <1>6, <1>7, <2>2, <2>3
<1>14. k \in Object /\ \A s \in StepsOf(op) : s.do = "item" => s \in StepsOf(new) \/ s.id < nextId
  BY <1>4, <1>7 DEF Created
<1>15. OnItsWay(new)'
  BY <1>3, <1>4, <1>7, <1>8, <1>10, <1>11, <1>12, <1>13, <1>14, StepTaken
<1> QED BY <1>15

(* One step for each container of a sequence.                                 *)
OneEach(op, do, q) ==
  /\ \A s \in StepsOf(op) : s.do = do /\ \E i \in DOMAIN q : s.k = q[i]
  /\ \A i \in DOMAIN q : Has(op, do, q[i])
LEMMA StepsOfEach ==
  ASSUME NEW op, NEW q, NEW do, op.todo = [i \in DOMAIN q |-> Step(do, q[i])]
  PROVE  OneEach(op, do, q)
<1>1. StepsOf(op) = {Step(do, q[i]) : i \in DOMAIN q}
  BY DEF StepsOf
<1>2. \A k : Step(do, k).do = do /\ Step(do, k).k = k
  BY DEF Step
<1> QED BY <1>1, <1>2 DEF Has, OneEach

(* What a failed start leaves behind is of the name nothing is asked of any   *)
(* more: what the request had started of it is to be stopped again.           *)
LEMMA RollbackOnWay ==
  ASSUME TabInv, NEW o \in Slots, NEW op \in {ops[o]}, OnItsWay(op), StartReturns(o),
         ~op.tolerant, cont' = [cont EXCEPT ![op.busy].st = "errored"],
         meant' = [meant EXCEPT ![cont[op.busy].name] = "any"], NEW new,
         new = [NoRequest EXCEPT
                  !.todo = [i \in DOMAIN op.started |-> Step("stop", op.started[i])],
                  !.then = "quiet"]
  PROVE  OnItsWay(new)'
<1>1. PICK k : k = op.busy
  OBVIOUS
<1>2. PICK h : h = op.todo[1]
  OBVIOUS
<1>3. k # NoObject /\ cont[k].st = "launching" /\ up
      /\ UNCHANGED <<procs, nextId, dump, boots, asked, up, serial>>
  BY <1>1 DEF StartReturns
<1>4. /\ op \in TabRequests(Created) /\ op.todo # <<>> /\ ~op.saving /\ k \in Created
      /\ h \in TabSteps(Created) /\ h \in StepsOf(op) /\ StepFits(op, h)
      /\ h.do \in {"resume", "create"} /\ cont[k].name = AppOf(h)
      /\ \A j \in Object : j # k => cont[j].st \notin {"launching", "stopping"}
  BY <1>1, <1>2, <1>3, Awaiting
<1>5. PICK app \in Names : app = cont[k].name
  BY <1>4 DEF TabInv, ListTyped
<1>6. /\ new.busy = NoObject /\ new.then = "quiet" /\ new.rest = {} /\ ~new.saving
      /\ DOMAIN new.goal = {} /\ new.started = <<>> /\ ~new.tolerant
      /\ new.todo = [i \in DOMAIN op.started |-> Step("stop", op.started[i])]
  BY DEF NoRequest
<1>7. \A s \in StepsOf(new) : s.do = "stop" /\ \E i \in DOMAIN op.started : s.k = op.started[i]
  <2>1. OneEach(new, "stop", op.started)
    BY <1>6, StepsOfEach, Zenon
  <2> QED BY <2>1, Zenon DEF OneEach
<1>8. /\ NamesStay /\ MayLeave /\ cont'[k].st = "errored"
      /\ \A j \in Object : j # k => cont'[j].st = cont[j].st
  BY <1>1, <1>3, <1>4, StateChanges DEF MayLeave, TabInv
<1>9. \A n : Of(n)' = Of(n) /\ Of(n) \subseteq Object
  BY <1>3, <1>8, OfStays, ListedTyped DEF TabInv, Created
<1>10. /\ DOMAIN op.goal = {app} /\ op.then \in {"save", "quiet"} /\ op.rest = {}
       /\ \A i \in DOMAIN op.started : cont[op.started[i]].name = app
  BY <1>4, <1>5 DEF StepFits
<1>11. \A n \in Names : meant'[n] = IF n = app THEN "any" ELSE meant[n]
  BY <1>1, <1>5 DEF TabInv, RestTyped
<1>12. \A n \in Names : Due(new)'[n] = meant'[n] /\ (n # app => Due(op)[n] = meant[n])
  <2>1. \A n \in Names : n # app => Due(op)[n] = meant[n]
    BY <1>10, DueIs
  <2>2. \A n \in Names : Due(new)'[n] = meant'[n]
    BY <1>6 DEF Due, Answered
  <2> QED BY <2>1, <2>2
<1>13. MovesAwaited(new)'
  BY <1>4, <1>6, <1>8 DEF MovesAwaited
<1>14. \A s \in StepsOf(op) : s.do \notin {"item", "stop", "remove"}
                              /\ (s.do \in {"resume", "create"} => AppOf(s) = app)
  <2>1. \A s \in StepsOf(op) : StepFits(op, s) /\ s.do \notin {"stop", "remove"}
    BY <1>4 DEF OnItsWay, GoalFits
  <2> QED BY <1>10, <2>1 DEF StepFits
<1>15. DumpTells(new)'
  BY <1>3, <1>4, <1>8, <1>11, <1>14, DumpStays DEF TabInv, OnItsWay
<1>16. GoalFits(new)'
  <2>1. \A i \in DOMAIN op.started : op.started[i] \in Object
    <3>1. op.started \in Seq(Created)
      BY <1>4 DEF TabRequests
    <3> QED BY <3>1, LenProperties, ElementOfSeq DEF Created
  <2>2. ASSUME NEW s \in StepsOf(new) PROVE StepFits(new, s)'
    <3>1. s.do = "stop" /\ s.k \in Object /\ cont[s.k].name = app
      BY <1>7, <1>10, <2>1
    <3>2. AppOf(s)' = app
      BY <1>8, <3>1 DEF AppOf, NamesStay
    <3>3. Due(new)'[app] = "any"
      BY <1>11, <1>12
    <3> QED BY <1>6, <3>1, <3>2, <3>3 DEF StepFits
  <2> QED BY <1>6, <1>7, <2>2 DEF GoalFits
<1>17. ASSUME NEW n \in Names PROVE Stands(new, n)'
  <2>1. CASE n = app
    <3>1. Due(new)'[n] = "any"
      BY <1>11, <1>12, <2>1
    <3> QED BY <3>1 DEF Stands
  <2>2. CASE n # app
    <3>1. Due(new)'[n] = Due(op)[n]
      BY <1>11, <1>12, <2>2
    <3>2. Stands(op, n)
      BY <1>3, <1>10 DEF OnItsWay, ListStands
    <3>3. ~Brings(op, n)
      BY <1>14, <2>2 DEF Brings, AppOf
    <3>4. \A j \in Of(n) : cont[j].name = n /\ j # k /\ cont'[j].st = cont[j].st
      BY <1>5, <1>8, <1>9, <2>2 DEF Of
    <3>5. \A j \in Of(n) : ~Has(op, "resume", j) /\ ~Has(op, "remove", j) /\ ~Has(op, "stop", j)
      BY <1>14, <2>2, <3>4 DEF Has, AppOf
    <3>6. \A j : ~Has(new, "remove", j)
      BY <1>7 DEF Has
    <3> QED BY <1>9, <1>10, <3>1, <3>2, <3>3, <3>4, <3>5, <3>6 DEF Stands
  <2> QED BY <2>1, <2>2
<1>18. ListStands(new)' /\ SaveTells(new)'
  BY <1>6, <1>17 DEF ListStands, SaveTells
<1> QED BY <1>3, <1>13, <1>15, <1>16, <1>18 DEF OnItsWay

LEMMA StartReturnsOnWay ==
  ASSUME TabInv, NEW o \in Slots, NEW op \in {ops[o]}, OnItsWay(op), StartReturns(o)
  PROVE  \E new : ops' = [ops EXCEPT ![o] = new] /\ OnItsWay(new)'
<1>1. op = ops[o]
  OBVIOUS
<1>2. PICK r1 : r1 = [Pop(op) EXCEPT !.started = <<op.busy>> \o op.started]
  OBVIOUS
<1>3. PICK r2 : r2 = Pop(op)
  OBVIOUS
<1>4. PICK r3 : r3 = [NoRequest EXCEPT
                        !.todo = [i \in DOMAIN op.started |-> Step("stop", op.started[i])],
                        !.then = "quiet"]
  OBVIOUS
<1>5. \/ /\ cont' = [cont EXCEPT ![op.busy].st = "online"] /\ meant' = meant
         /\ ops' = [ops EXCEPT ![o] = r1]
      \/ /\ cont' = [cont EXCEPT ![op.busy].st = "errored"] /\ meant' = meant
         /\ ops' = [ops EXCEPT ![o] = r2]
      \/ /\ cont' = [cont EXCEPT ![op.busy].st = "errored"] /\ ~op.tolerant
         /\ meant' = [meant EXCEPT ![cont[op.busy].name] = "any"]
         /\ ops' = [ops EXCEPT ![o] = r3]
  BY <1>1, <1>2, <1>3, <1>4, Zenon DEF StartReturns
<1>6. CASE cont' = [cont EXCEPT ![op.busy].st = "online"] /\ meant' = meant
           /\ ops' = [ops EXCEPT ![o] = r1]
  BY <1>2, <1>6, StartedOnWay
<1>7. CASE cont' = [cont EXCEPT ![op.busy].st = "errored"] /\ meant' = meant
           /\ ops' = [ops EXCEPT ![o] = r2]
  BY <1>3, <1>7, StartedOnWay
<1>8. CASE /\ cont' = [cont EXCEPT ![op.busy].st = "errored"] /\ ~op.tolerant
           /\ meant' = [meant EXCEPT ![cont[op.busy].name] = "any"]
           /\ ops' = [ops EXCEPT ![o] = r3]
  BY <1>4, <1>8, RollbackOnWay
<1> QED BY <1>5, <1>6, <1>7, <1>8

LEMMA StopReturnsOnWay ==
  ASSUME TabInv, NEW o \in Slots, NEW op \in {ops[o]}, OnItsWay(op), StopReturns(o)
  PROVE  \E new : ops' = [ops EXCEPT ![o] = new] /\ OnItsWay(new)'
<1>1. PICK k : k = op.busy
  OBVIOUS
<1>2. PICK h : h = op.todo[1]
  OBVIOUS
<1>3. /\ k # NoObject /\ cont[k].st = "stopping" /\ up
      /\ cont' = [cont EXCEPT ![k].st = "stopped"]
      /\ procs' = IF h.do = "remove" THEN [procs EXCEPT ![cont[k].id] = NoObject] ELSE procs
      /\ ops' = [ops EXCEPT ![o] = Pop(op)]
      /\ UNCHANGED <<nextId, dump, boots, asked, up, meant, serial>>
  BY <1>1, <1>2 DEF StopReturns, Task
<1>4. /\ op \in TabRequests(Created) /\ op.todo # <<>> /\ ~op.saving /\ k \in Created
      /\ h \in TabSteps(Created) /\ h \in StepsOf(op) /\ StepFits(op, h)
      /\ h.do \in {"stop", "remove"} /\ k = h.k
      /\ \A j \in Object : j # k => cont[j].st \notin {"launching", "stopping"}
  BY <1>1, <1>2, <1>3, Awaiting DEF TabSteps
<1>5. PICK new : new = Pop(op)
  OBVIOUS
<1>6. /\ GoesOn(op, new) /\ new.busy = NoObject /\ new.started = op.started
      /\ StepsOf(op) = StepsOf(new) \cup {h}
  BY <1>2, <1>4, <1>5, PopLeaves
<1>7. /\ NamesStay /\ cont'[k].st = "stopped"
      /\ \A j \in Object : j # k => cont'[j].st = cont[j].st
  BY <1>3, <1>4, StateChanges DEF TabInv
<1>8. MayLeave /\ \A n : Of(n)' = IF h.do = "remove" THEN Of(n) \ {k} ELSE Of(n)
  <2>1. CASE h.do = "remove"
    BY <1>3, <1>4, <1>7, <2>1, Removed
  <2>2. CASE h.do # "remove"
    <3>1. MayLeave
      BY <1>3, <2>2 DEF MayLeave
    <3> QED BY <1>3, <1>7, <2>2, <3>1, OfStays DEF TabInv
  <2> QED BY <2>1, <2>2
<1>9. MovesAwaited(new)'
  BY <1>4, <1>6, <1>7 DEF MovesAwaited
<1>10. ListStands(new)'
  <2>1. \A n : Of(n) \subseteq Object
    BY ListedTyped DEF TabInv, Created
  <2>2. Moves(h)
    BY <1>4, <1>7, <1>8, <2>1 DEF Moves
  <2>3. Acts(new, h)
    BY <1>4, <1>7, <1>8 DEF Acts
  <2> QED BY <1>3, <1>4, <1>6, <1>7, <2>2, <2>3, StandsStill DEF OnItsWay
<1>11. OnItsWay(new)'
  BY <1>3, <1>4, <1>6, <1>7, <1>8, <1>9, <1>10, StepTaken
<1> QED BY <1>3, <1>5, <1>11


(* The list is as w says of a name.                                           *)
Honoured(n, w) ==
  /\ w = "run" => Of(n) # {} /\ \A k \in Of(n) : cont[k].st # "stopped"
  /\ w = "stop" => Of(n) # {} /\ \A k \in Of(n) : cont[k].st = "stopped"
  /\ w = "absent" => Of(n) = {}

LEMMA NoStepLeft ==
  ASSUME NEW op, op.todo = <<>>
  PROVE  StepsOf(op) = {} /\ (\A do, k : ~Has(op, do, k)) /\ \A n : ~Brings(op, n)
<1>1. StepsOf(op) = {}
  BY DEF StepsOf
<1> QED BY <1>1 DEF Has, Brings

(* A request that has done its steps has brought the list to what is due.     *)
LEMMA DoneStands ==
  ASSUME NEW op, NEW n, Stands(op, n), op.todo = <<>>, op.rest = {} \/ Listed \subseteq op.rest
  PROVE  Honoured(n, Due(op)[n])
<1>1. (\A do, k : ~Has(op, do, k)) /\ ~Brings(op, n)
  BY NoStepLeft
<1>2. \A k \in Of(n) : ~(op.rest # {} /\ k \notin op.rest)
  BY DEF Of
<1> QED BY <1>1, <1>2 DEF Stands, Honoured

LEMMA RestsAgain ==
  ASSUME NEW n \in Names, NEW w, Honoured(n, w), meant'[n] = w, UNCHANGED <<procs, cont>>
  PROVE  Stands(NoRequest, n)'
<1>1. Of(n)' = Of(n)
  BY DEF Of, Listed
<1>2. Due(NoRequest)'[n] = w
  BY NothingToDo DEF Due, Answered
<1>3. (\A do, k : ~Has(NoRequest, do, k)) /\ ~Brings(NoRequest, n)
  BY NoStepLeft, NothingToDo
<1> QED BY <1>1, <1>2, <1>3 DEF Honoured, Stands

LEMMA NothingFits ==
  GoalFits(NoRequest)' /\ SaveTells(NoRequest)'
BY NothingToDo DEF GoalFits, SaveTells

(* A container is at rest when no request is about one.                       *)
LEMMA AtRest ==
  ASSUME TabInv, NEW o \in Slots, NEW op \in {ops[o]}, OnItsWay(op), op.todo = <<>>
  PROVE  /\ op \in TabRequests(Created) /\ op.busy = NoObject
         /\ \A k \in Object : cont[k].st \notin {"launching", "stopping"}
<1>1. op \in TabRequests(Created) /\ op.busy = NoObject
  BY DEF TabInv, RequestsTyped
<1>2. \A k \in Object : k # NoObject
  BY DEF Object, NoObject
<1> QED BY <1>1, <1>2 DEF OnItsWay, MovesAwaited

(* The sweep turns to the next container it has not seen.                     *)
LEMMA SweepOnWay ==
  ASSUME TabInv, NEW o \in Slots, NEW op \in {ops[o]}, OnItsWay(op), SweepNext(o)
  PROVE  \E new : ops' = [ops EXCEPT ![o] = new] /\ OnItsWay(new)'
<1>1. PICK k \in Listed \ op.rest :
        /\ up /\ op.rest # {} /\ op.todo = <<>> /\ ~op.saving
        /\ ops' = [ops EXCEPT ![o].todo = <<Step("stop", k)>>, ![o].rest = @ \cup {k}]
        /\ UNCHANGED <<procs, cont, nextId, dump, boots, asked, up, meant, serial>>
  BY DEF SweepNext
<1>2. /\ op \in TabRequests(Created) /\ op.busy = NoObject /\ k \in Created
      /\ cont[k].name \in Names
      /\ \A j \in Object : cont[j].st \notin {"launching", "stopping"}
  BY <1>1, AtRest, ListedTyped DEF TabInv
<1>3. PICK s : s = Step("stop", k)
  OBVIOUS
<1>4. PICK q : q = <<s>>
  OBVIOUS
<1>5. PICK new : new = [op EXCEPT !.todo = q, !.rest = @ \cup {k}]
  OBVIOUS
<1>6. ops' = [ops EXCEPT ![o] = new]
  BY <1>1, <1>3, <1>4, <1>5 DEF TabInv, RequestsTyped
<1>7. /\ new.todo = q /\ new.busy = NoObject /\ new.rest = op.rest \cup {k}
      /\ new.goal = op.goal /\ new.then = op.then /\ new.saving = op.saving
      /\ new.started = op.started /\ new.tolerant = op.tolerant
  BY <1>2, <1>5 DEF TabRequests
<1>8. StepsOf(new) = {s} /\ s.do = "stop" /\ s.k = k
  <2>1. DOMAIN q = {1} /\ q[1] = s
    BY <1>4
  <2>2. StepsOf(new) = {q[i] : i \in DOMAIN q}
    BY <1>7 DEF StepsOf
  <2>3. {q[i] : i \in DOMAIN q} = {s}
    BY <2>1
  <2>4. s.do = "stop" /\ s.k = k
    BY <1>3 DEF Step
  <2> QED BY <2>2, <2>3, <2>4
<1>9. op.then \in {"save", "clear", "exit"}
  BY <1>1 DEF OnItsWay, GoalFits
<1>10. Due(new)' = Due(op) /\ NamesStay /\ MayLeave
  BY <1>1, <1>7, DueStays DEF NamesStay, MayLeave
<1>11. \A n : Of(n)' = Of(n)
  BY <1>1 DEF Of, Listed
<1>12. DumpTells(new)'
  <2>1. StepsOf(op) = {}
    BY <1>1, NoStepLeft
  <2> QED BY <1>1, <1>10, <2>1, DumpStays DEF TabInv, OnItsWay, RestTyped
<1>13. MovesAwaited(new)'
  BY <1>1, <1>2, <1>7 DEF MovesAwaited
<1>14. op.then = "save" => Due(op)[cont[k].name] \in {"stop", "any"}
  BY <1>1 DEF OnItsWay, GoalFits
<1>15. GoalFits(new)'
  <2>1. AppOf(s)' = cont[k].name
    BY <1>1, <1>8 DEF AppOf
  <2>2. StepFits(new, s)'
    BY <1>7, <1>8, <1>9, <1>10, <1>14, <2>1 DEF StepFits
  <2>3. Listed' = Listed
    BY <1>1 DEF Listed
  <2>4. op.then = "save" => \A j \in Listed : Due(op)[cont[j].name] \in {"stop", "any"}
    BY <1>1 DEF OnItsWay, GoalFits
  <2>5. /\ op.then = "exit" => DOMAIN op.goal = {}
        /\ op.then = "clear" => /\ DOMAIN op.goal = Names
                                /\ \A n \in Names : Due(op)[n] \in {"absent", "any"}
    BY DEF OnItsWay, GoalFits
  <2> QED BY <1>1, <1>7, <1>8, <1>9, <1>10, <2>2, <2>3, <2>4, <2>5 DEF GoalFits
<1>16. ASSUME NEW n \in Names, op.then = "save" PROVE Stands(new, n)'
  <2>1. Stands(op, n)
    BY <1>1, <1>16 DEF OnItsWay, ListStands
  <2>2. (\A do, j : ~Has(op, do, j)) /\ ~Brings(op, n)
    BY <1>1, NoStepLeft
  <2>3. Has(new, "stop", k) /\ \A j : ~Has(new, "remove", j)
    BY <1>8 DEF Has
  <2>4. \A j : j \notin op.rest => j = k \/ j \notin new.rest
    BY <1>7
  <2>5. new.rest # {}
    BY <1>7
  <2>6. /\ Due(op)[n] \in {"run", "stop"} => Of(n) # {}
        /\ Due(op)[n] = "run" => \A j \in Of(n) : cont[j].st # "stopped"
        /\ Due(op)[n] = "stop" => \A j \in Of(n) : cont[j].st = "stopped" \/ j \notin op.rest
        /\ Due(op)[n] = "absent" => Of(n) = {}
    BY <2>1, <2>2 DEF Stands
  <2>7. \A j \in Of(n) : cont'[j].st = cont[j].st
    BY <1>1
  <2> QED BY <1>10, <1>11, <2>3, <2>4, <2>5, <2>6, <2>7 DEF Stands
<1>17. ListStands(new)' /\ SaveTells(new)'
  BY <1>1, <1>7, <1>9, <1>16 DEF ListStands, SaveTells
<1> QED BY <1>1, <1>6, <1>12, <1>13, <1>15, <1>17 DEF OnItsWay

(* A request without a save ends.                                             *)
LEMMA EndOnWay ==
  ASSUME TabInv, NEW o \in Slots, NEW op \in {ops[o]}, OnItsWay(op), RequestEnds(o)
  PROVE  \E new : ops' = [ops EXCEPT ![o] = new] /\ OnItsWay(new)'
<1>1. /\ up /\ op.todo = <<>> /\ ~op.saving /\ op.then = "quiet"
      /\ op.rest = {} \/ Listed \subseteq op.rest
      /\ ops' = [ops EXCEPT ![o] = NoRequest]
      /\ UNCHANGED <<procs, cont, nextId, dump, boots, asked, up, meant, serial>>
  BY DEF RequestEnds, Done
<1>2. /\ op.busy = NoObject
      /\ \A k \in Object : cont[k].st \notin {"launching", "stopping"}
  BY <1>1, AtRest
<1>3. NamesStay /\ MayLeave
  BY <1>1 DEF NamesStay, MayLeave
<1>4. DumpTells(NoRequest)'
  <2>1. StepsOf(op) = {}
    BY <1>1, NoStepLeft
  <2> QED BY <1>1, <1>3, <2>1, DumpStays DEF TabInv, OnItsWay, RestTyped
<1>5. MovesAwaited(NoRequest)'
  BY <1>1, <1>2, NothingToDo DEF MovesAwaited
<1>6. ASSUME NEW n \in Names PROVE Stands(NoRequest, n)'
  <2>1. Stands(op, n)
    BY <1>1 DEF OnItsWay, ListStands
  <2>2. Due(op)[n] = meant'[n]
    <3>1. DOMAIN op.goal = {}
      BY <1>1 DEF OnItsWay, GoalFits
    <3> QED BY <1>1, <3>1, DueIs
  <2>3. Honoured(n, meant'[n])
    BY <1>1, <2>1, <2>2, DoneStands
  <2> QED BY <1>1, <2>3, RestsAgain
<1>7. OnItsWay(NoRequest)'
  BY <1>1, <1>4, <1>5, <1>6, NothingFits DEF OnItsWay, ListStands
<1> QED BY <1>1, <1>7

(* The snapshot has an entry for every id in use, of the process under it.    *)
LEMMA SnapshotTells ==
  ASSUME ListTyped, NEW P \in [Id -> Object \cup {NoObject}], NEW q, q = Snapshot(P)
  PROVE  /\ \A e \in EntriesOf(q) : /\ e.id \in Id /\ P[e.id] # NoObject
                                    /\ e.name = cont[P[e.id]].name
                                    /\ e.stopped = (cont[P[e.id]].st = "stopped")
         /\ \A i \in Id : P[i] # NoObject => \E e \in EntriesOf(q) : e.id = i
<1>1. PICK box : box = [j \in 1 .. MaxIds |-> j - 1]
  OBVIOUS
<1>2. PICK used : used = {i \in Id : P[i] # NoObject}
  OBVIOUS
<1>3. PICK ids : ids = Among(box, used)
  OBVIOUS
<1>4. box \in Seq(Id) /\ Len(box) = MaxIds /\ MaxIds \in Nat
  <2>1. MaxIds \in Nat /\ \A j \in 1 .. MaxIds : j - 1 \in Id
    BY TableAssumption DEF Id
  <2> QED BY <1>1, <2>1, IsASeq
<1>5. \A i \in Id : i + 1 \in 1 .. MaxIds /\ box[i + 1] = i
  BY <1>1, <1>4 DEF Id
<1>6. ids \in Seq(Id) /\ ToSet(ids) = ToSet(box) \cap used
  BY <1>3, <1>4, AmongElements
<1>7. DOMAIN ids = 1 .. Len(ids) /\ DOMAIN box = 1 .. MaxIds
  BY <1>4, <1>6, LenProperties
<1>8. /\ \A j \in 1 .. Len(ids) : ids[j] \in Id /\ P[ids[j]] # NoObject
      /\ \A i \in Id : P[i] # NoObject => \E j \in 1 .. Len(ids) : ids[j] = i
  <2>1. \A j \in 1 .. Len(ids) : ids[j] \in used
    BY <1>6, <1>7 DEF ToSet
  <2>2. \A i \in Id : i \in ToSet(box)
    BY <1>5, <1>7 DEF ToSet
  <2>3. \A i \in used : i \in ToSet(ids)
    BY <1>2, <1>6, <2>2
  <2> QED BY <1>2, <1>7, <2>1, <2>3 DEF ToSet
<1>9. q = [j \in 1 .. Len(ids) |-> [name |-> cont[P[ids[j]]].name, id |-> ids[j],
                                     stopped |-> StoppedFlag(P[ids[j]])]]
  BY <1>1, <1>2, <1>3 DEF Snapshot
<1>10. /\ DOMAIN q = 1 .. Len(ids)
       /\ \A j \in 1 .. Len(ids) :
            /\ q[j].id = ids[j] /\ q[j].name = cont[P[ids[j]]].name
            /\ q[j].stopped = (cont[P[ids[j]]].st = "stopped")
  BY <1>9 DEF StoppedFlag
<1>11. ASSUME NEW e \in EntriesOf(q)
       PROVE  /\ e.id \in Id /\ P[e.id] # NoObject
              /\ e.name = cont[P[e.id]].name
              /\ e.stopped = (cont[P[e.id]].st = "stopped")
  <2>1. PICK j \in 1 .. Len(ids) : e = q[j]
    BY <1>10 DEF EntriesOf
  <2> QED BY <1>8, <1>10, <2>1
<1>12. ASSUME NEW i \in Id, P[i] # NoObject PROVE \E e \in EntriesOf(q) : e.id = i
  <2>1. PICK j \in 1 .. Len(ids) : ids[j] = i
    BY <1>8, <1>12
  <2>2. q[j] \in EntriesOf(q) /\ q[j].id = i
    BY <1>10, <2>1 DEF EntriesOf
  <2> QED BY <2>2
<1> QED BY <1>11, <1>12

(* A list that is as it is due makes a snapshot that tells so.                *)
LEMMA SnapshotOfDone ==
  ASSUME TabInv, NEW w, \A n \in Names : Honoured(n, w[n]), NEW q, q = Snapshot(procs)
  PROVE  Told(q, w) /\ Placed(q) /\ \A e \in EntriesOf(q) : e.id < nextId
<1>1. procs \in [Id -> Object \cup {NoObject}] /\ ListTyped
  BY DEF TabInv, ListTyped
<1>2. /\ \A e \in EntriesOf(q) : /\ e.id \in Id /\ procs[e.id] # NoObject
                                 /\ e.name = cont[procs[e.id]].name
                                 /\ e.stopped = (cont[procs[e.id]].st = "stopped")
      /\ \A i \in Id : procs[i] # NoObject => \E e \in EntriesOf(q) : e.id = i
  BY <1>1, SnapshotTells
<1>3. Placed(q)
  BY <1>2 DEF Placed
<1>4. \A e \in EntriesOf(q) : e.id < nextId
  BY <1>2 DEF TabInv, IdsFresh
<1>5. ASSUME NEW n \in Names, Of(n) # {} PROVE \E e \in EntriesOf(q) : e.name = n
  <2>1. PICK i \in Id : procs[i] # NoObject /\ cont[procs[i]].name = n
    BY <1>5 DEF Of, Listed
  <2> QED BY <1>2, <2>1
<1>6. ASSUME NEW n \in Names, NEW e \in EntriesOf(q), e.name = n
      PROVE  \E k \in Of(n) : e.stopped = (cont[k].st = "stopped")
  BY <1>2, <1>6 DEF Of, Listed
<1>7. \A e, f \in EntriesOf(q) : e.id = f.id => e.name = f.name
  BY <1>2
<1>8. Told(q, w)
  <2> SUFFICES ASSUME NEW n \in Names
               PROVE  /\ w[n] \in {"run", "stop"} => \E e \in EntriesOf(q) : e.name = n
                      /\ \A e \in EntriesOf(q) :
                           e.name = n => /\ w[n] = "run" => ~e.stopped
                                         /\ w[n] = "stop" => e.stopped
                                         /\ w[n] # "absent"
    BY <1>7 DEF Told
  <2>1. w[n] \in {"run", "stop"} => \E e \in EntriesOf(q) : e.name = n
    BY <1>5 DEF Honoured
  <2>2. ASSUME NEW e \in EntriesOf(q), e.name = n
        PROVE  (w[n] = "run" => ~e.stopped) /\ (w[n] = "stop" => e.stopped) /\ w[n] # "absent"
    <3>1. PICK k \in Of(n) : e.stopped = (cont[k].st = "stopped")
      BY <1>6, <2>2
    <3> QED BY <3>1 DEF Honoured
  <2> QED BY <2>1, <2>2
<1> QED BY <1>3, <1>4, <1>8

(* A snapshot of the empty list has no entry.                                 *)
LEMMA SnapshotOfNothing ==
  ASSUME ListTyped, NEW P \in [Id -> Object \cup {NoObject}], \A i \in Id : P[i] = NoObject,
         NEW q, q = Snapshot(P)
  PROVE  EntriesOf(q) = {}
BY SnapshotTells

(* save() takes its snapshot.                                                 *)
LEMMA SaveBeginsOnWay ==
  ASSUME TabInv, NEW o \in Slots, NEW op \in {ops[o]}, OnItsWay(op), SaveBegins(o)
  PROVE  \E new : ops' = [ops EXCEPT ![o] = new] /\ OnItsWay(new)'
<1>1. PICK q : q = Snapshot(procs')
  OBVIOUS
<1>2. /\ up /\ op.todo = <<>> /\ ~op.saving /\ op.then \in {"save", "clear"}
      /\ op.rest = {} \/ Listed \subseteq op.rest
      /\ procs' = IF op.then = "clear" THEN [i \in Id |-> NoObject] ELSE procs
      /\ nextId' = IF op.then = "clear" THEN 0 ELSE nextId
      /\ ops' = [ops EXCEPT ![o].saving = TRUE, ![o].data = q]
      /\ UNCHANGED <<cont, dump, boots, asked, up, meant, serial>>
  BY <1>1, Zenon DEF SaveBegins, Done
<1>3. /\ op \in TabRequests(Created) /\ op.busy = NoObject
      /\ \A k \in Object : cont[k].st \notin {"launching", "stopping"}
  BY <1>2, AtRest
<1>4. PICK new : new = [op EXCEPT !.saving = TRUE, !.data = q]
  OBVIOUS
<1>5. ops' = [ops EXCEPT ![o] = new]
  BY <1>2, <1>4 DEF TabInv, RequestsTyped
<1>6. /\ new.todo = <<>> /\ new.busy = NoObject /\ new.rest = op.rest /\ new.data = q
      /\ new.goal = op.goal /\ new.then = op.then /\ new.saving
  BY <1>2, <1>3, <1>4 DEF TabRequests
<1>7. /\ StepsOf(op) = {} /\ StepsOf(new) = {}
      /\ (\A do, k : ~Has(new, do, k)) /\ \A n : ~Brings(new, n)
  BY <1>2, <1>6, NoStepLeft
<1>8. Due(new)' = Due(op)
  BY <1>2, <1>6, DueStays
<1>9. NamesStay /\ MayLeave
  BY <1>2 DEF NamesStay, MayLeave
<1>10. Listed' \subseteq Listed /\ (procs' = procs => \A n : Of(n)' = Of(n))
  BY <1>9, OfStays DEF TabInv
<1>11. MovesAwaited(new)'
  BY <1>2, <1>3, <1>6 DEF MovesAwaited
<1>12. GoalFits(new)'
  <2>1. op.rest # {} /\ op.then = "save" =>
          \A k \in Listed' : Due(op)[cont'[k].name] \in {"stop", "any"}
    BY <1>2, <1>10 DEF OnItsWay, GoalFits
  <2>2. op.then = "clear" => /\ DOMAIN op.goal = Names
                             /\ \A n \in Names : Due(op)[n] \in {"absent", "any"}
    BY DEF OnItsWay, GoalFits
  <2> QED BY <1>2, <1>6, <1>7, <1>8, <2>1, <2>2 DEF GoalFits
<1>13. CASE op.then = "save"
  <2>1. procs' = procs /\ nextId' = nextId /\ q = Snapshot(procs)
    BY <1>1, <1>2, <1>13
  <2>2. \A n \in Names : Stands(op, n)
    BY <1>2, <1>13 DEF OnItsWay, ListStands
  <2>3. \A n \in Names : Honoured(n, Due(op)[n])
    BY <1>2, <2>2, DoneStands
  <2>4. Told(q, Due(op)) /\ Placed(q) /\ \A e \in EntriesOf(q) : e.id < nextId
    BY <2>1, <2>3, SnapshotOfDone
  <2>5. ASSUME NEW n \in Names PROVE Stands(new, n)'
    BY <1>2, <1>7, <1>8, <1>10, <2>1, <2>3 DEF Stands, Honoured
  <2>6. Placed(q)'
    BY <1>2, <2>1, <2>4 DEF Placed
  <2>7. SaveTells(new)'
    BY <1>2, <1>6, <1>8, <1>10, <2>1, <2>4, <2>6 DEF SaveTells
  <2>8. DumpTells(new)'
    BY <1>2, <1>7, <1>9, <2>1, DumpStays DEF TabInv, OnItsWay, RestTyped
  <2> QED BY <1>2, <1>5, <1>11, <1>12, <2>5, <2>7, <2>8 DEF OnItsWay, ListStands
<1>14. CASE op.then = "clear"
  <2>1. procs' = [i \in Id |-> NoObject]
    BY <1>2, <1>14
  <2>2. procs' \in [Id -> Object \cup {NoObject}] /\ \A i \in Id : procs'[i] = NoObject
    BY <2>1
  <2>3. EntriesOf(q) = {}
    <3>1. PICK P \in [Id -> Object \cup {NoObject}] : P = procs'
      BY <2>2
    <3> QED BY <1>1, <2>2, <3>1, SnapshotOfNothing DEF TabInv
  <2>4. \A n : Of(n)' = {}
    BY <2>2 DEF Of, Listed
  <2>5. \A n \in Names : Due(op)[n] \in {"absent", "any"}
    BY <1>14 DEF OnItsWay, GoalFits
  <2>6. ASSUME NEW n \in Names PROVE Stands(new, n)'
    BY <1>8, <2>4, <2>5 DEF Stands
  <2>7. Told(q, Due(op))
    BY <2>3, <2>5 DEF Told
  <2>8. Placed(q)'
    BY <2>3 DEF Placed
  <2>9. SaveTells(new)'
    BY <1>2, <1>6, <1>8, <1>10, <2>3, <2>7, <2>8 DEF SaveTells
  <2>10. DumpTells(new)'
    <3>1. Told(dump.entries, meant) /\ (~dump.intact => dump.entries = <<>>)
      BY DEF OnItsWay, DumpTells
    <3>2. CASE AnyGoes
      <4>1. AnyGoes'
        BY <1>2, <3>2 DEF AnyGoes
      <4> QED BY <1>2, <3>1, <4>1 DEF DumpTells
    <3>3. CASE InPlace(op)
      <4>1. dump.entries \in Seq(Entries) /\ Placed(dump.entries)
        BY <3>3 DEF InPlace, TabInv, RestTyped
      <4>2. PICK d \in Seq(Entries) : d = dump.entries
        BY <4>1
      <4>3. Placed(d)'
        BY <1>9, <4>1, <4>2, PlacedStays DEF TabInv
      <4>4. Placed(dump.entries)'
        BY <1>2, <4>2, <4>3 DEF Placed
      <4>5. InPlace(new)'
        BY <1>2, <1>6, <1>14, <4>4 DEF InPlace
      <4> QED BY <1>2, <3>1, <4>5 DEF DumpTells
    <3> QED BY <3>2, <3>3 DEF OnItsWay, DumpTells
  <2> QED BY <1>2, <1>5, <1>11, <1>12, <2>6, <2>9, <2>10 DEF OnItsWay, ListStands
<1> QED BY <1>2, <1>13, <1>14

(* What a write leaves on disk, or what there is when it has failed, tells    *)
(* what is meant then: what was due, or less.                                 *)
LEMMA WrittenTells ==
  ASSUME NEW op, up, OnItsWay(op), op.saving, UNCHANGED <<procs, cont, nextId>>,
         dump' = [entries |-> op.data, intact |-> TRUE], meant' = Answered(op.goal)
  PROVE  DumpTells(NoRequest)' /\ \A n \in Names : meant'[n] = Due(op)[n]
<1>1. Told(op.data, Due(op)) /\ Placed(op.data) /\ \A e \in EntriesOf(op.data) : e.id < nextId
  BY DEF OnItsWay, SaveTells
<1>2. dump'.entries = op.data /\ dump'.intact /\ meant' = Due(op)
  BY DEF Due
<1>3. Placed(dump.entries)'
  BY <1>1, <1>2 DEF Placed
<1>4. InPlace(NoRequest)'
  BY <1>1, <1>2, <1>3 DEF InPlace
<1> QED BY <1>1, <1>2, <1>4 DEF DumpTells

LEMMA TornTells ==
  ASSUME NEW op, SaveTorn
  PROVE  DumpTells(op)' /\ \A n \in Names : meant'[n] = "any"
<1>1. EntriesOf(<<>>) = {}
  BY DEF EntriesOf
<1>2. dump'.entries = <<>> /\ \A n \in Names : meant'[n] = "any"
  BY DEF SaveTorn, Want
<1>3. AnyGoes'
  BY <1>2 DEF AnyGoes
<1>4. Told(dump'.entries, meant')
  BY <1>1, <1>2 DEF Told
<1> QED BY <1>2, <1>3, <1>4 DEF DumpTells

LEMMA MissingTells ==
  ASSUME TabInv, NEW op, OnItsWay(op), op.saving, UNCHANGED <<procs, cont, nextId, dump, up>>,
         meant' = Answered(Want(DOMAIN op.goal, "any"))
  PROVE  DumpTells(NoRequest)' /\ \A n \in Names : meant'[n] \in {Due(op)[n], "any"}
<1>1. \A n \in Names : meant'[n] = IF n \in DOMAIN op.goal THEN "any" ELSE meant[n]
  BY DEF Answered, Want
<1>2. \A n \in Names : meant'[n] \in {Due(op)[n], "any"}
  BY <1>1, DueIs
<1>3. CASE op.then = "clear"
  <2>1. AnyGoes'
    BY <1>1, <1>3 DEF AnyGoes, OnItsWay, GoalFits
  <2>2. Told(dump.entries, meant) /\ (~dump.intact => dump.entries = <<>>)
    BY DEF OnItsWay, DumpTells
  <2>3. Told(dump'.entries, meant')
    BY <1>1, <2>2, ToldOfLess
  <2> QED BY <1>2, <2>1, <2>2, <2>3 DEF DumpTells
<1>4. CASE op.then # "clear"
  <2>1. op.todo = <<>>
    BY DEF OnItsWay, SaveTells
  <2>2. StepsOf(op) = {}
    BY <2>1, NoStepLeft
  <2>3. NamesStay /\ MayLeave /\ \A n \in Names : meant'[n] \in {meant[n], "any"}
    BY <1>1 DEF NamesStay, MayLeave
  <2>4. DumpTells(NoRequest)'
    BY <1>4, <2>2, <2>3, DumpStays DEF OnItsWay, TabInv
  <2> QED BY <1>2, <2>4
<1> QED BY <1>3, <1>4

(* The save has ended, well or not, and what is due, or less, is meant.       *)
LEMMA SaveEndsOnWay ==
  ASSUME TabInv, NEW o \in Slots, NEW op \in {ops[o]}, OnItsWay(op), SaveEnds(o)
  PROVE  \E new : ops' = [ops EXCEPT ![o] = new] /\ OnItsWay(new)'
<1>1. /\ up /\ op.saving /\ ops' = [ops EXCEPT ![o] = NoRequest]
      /\ UNCHANGED <<procs, cont, nextId, boots, asked, up, serial>>
  BY DEF SaveEnds
<1>2. op.todo = <<>> /\ (op.rest = {} \/ Listed \subseteq op.rest)
  BY <1>1 DEF OnItsWay, SaveTells
<1>3. /\ op.busy = NoObject
      /\ \A k \in Object : cont[k].st \notin {"launching", "stopping"}
  BY <1>2, AtRest
<1>4. DumpTells(NoRequest)' /\ \A n \in Names : meant'[n] \in {Due(op)[n], "any"}
  <2>1. CASE SaveWritten(o)
    BY <1>1, <2>1, WrittenTells DEF SaveWritten
  <2>2. CASE SaveTorn
    BY <2>2, TornTells
  <2>3. CASE SaveMissing(o)
    BY <1>1, <2>3, MissingTells DEF SaveMissing
  <2> QED BY <2>1, <2>2, <2>3 DEF SaveEnds
<1>5. MovesAwaited(NoRequest)'
  BY <1>1, <1>3, NothingToDo DEF MovesAwaited
<1>6. ASSUME NEW n \in Names PROVE Stands(NoRequest, n)'
  <2>1. Stands(op, n)
    BY <1>1 DEF OnItsWay, ListStands
  <2>2. Honoured(n, Due(op)[n]) /\ Honoured(n, "any")
    BY <1>2, <2>1, DoneStands DEF Honoured
  <2>3. Honoured(n, meant'[n])
    BY <1>4, <2>2
  <2>4. PICK w : w = meant'[n]
    OBVIOUS
  <2> QED BY <1>1, <2>3, <2>4, RestsAgain
<1>7. OnItsWay(NoRequest)'
  BY <1>1, <1>4, <1>5, <1>6, NothingFits DEF OnItsWay, ListStands
<1> QED BY <1>1, <1>7

(* A request is as it was, but that less may be due.                          *)
AsBefore(op, new) ==
  /\ new.todo = op.todo /\ new.busy = op.busy /\ new.then = op.then /\ new.rest = op.rest
  /\ new.saving = op.saving /\ new.data = op.data /\ new.started = op.started
  /\ new.tolerant = op.tolerant /\ DOMAIN new.goal = DOMAIN op.goal

(* A child that ends by itself, or is restarted, moves neither to nor from    *)
(* what is due, or nothing is due of its name any more.                       *)
LEMMA ChildOnWay ==
  ASSUME TabInv, NEW op \in TabRequests(Created), OnItsWay(op), up, NEW k \in Created, NEW st,
         cont[k].st \notin {"launching", "stopping"}, st \notin {"launching", "stopping"},
         cont' = [cont EXCEPT ![k].st = st], UNCHANGED <<procs, nextId, dump, up>>,
         \A n \in Names : meant'[n] \in {meant[n], "any"},
         NEW new, AsBefore(op, new), \A n \in Names : Due(new)'[n] \in {Due(op)[n], "any"},
         (cont[k].st = "stopped") = (st = "stopped") \/ Due(new)'[cont[k].name] = "any"
  PROVE  OnItsWay(new)'
<1>1. /\ NamesStay /\ MayLeave /\ cont'[k].st = st
      /\ \A j \in Object : j # k => cont'[j].st = cont[j].st
  BY StateChanges DEF MayLeave, TabInv
<1>2. /\ Listed' = Listed /\ (\A n : Of(n)' = Of(n) /\ Of(n) \subseteq Object)
      /\ Listed \subseteq Object
  BY <1>1, OfStays, ListedTyped DEF TabInv, Created
<1>3. StepsOf(new) = StepsOf(op)
  BY DEF StepsOf, AsBefore
<1>4. (\A do, j : Has(new, do, j) = Has(op, do, j)) /\ \A n : Brings(new, n) = Brings(op, n)
  BY <1>3 DEF Has, Brings
<1>5. \A s \in StepsOf(op) : /\ s \in TabSteps(Created) /\ AppOf(s)' = AppOf(s)
                             /\ AppOf(s) \in Names
  <2>1. \A s \in StepsOf(op) : s \in TabSteps(Created) /\ AppOf(s)' = AppOf(s)
    BY <1>1, StepsOfTyped, AppStays DEF Created
  <2>2. \A s \in TabSteps(Created) : AppOf(s) \in Names
    BY DEF TabSteps, AppOf, TabInv, ListTyped
  <2> QED BY <2>1, <2>2
<1>6. DumpTells(new)'
  BY <1>1, <1>3, DumpStays DEF TabInv, OnItsWay, AsBefore
<1>7. MovesAwaited(new)'
  <2>1. op.busy # NoObject => op.busy # k
    BY DEF OnItsWay, MovesAwaited
  <2>2. op.busy # NoObject => op.busy \in Object
    BY DEF TabRequests, Created
  <2> QED BY <1>1, <1>2, <2>1, <2>2 DEF OnItsWay, MovesAwaited, AsBefore
<1>8. GoalFits(new)'
  <2>1. ASSUME NEW s \in StepsOf(op) PROVE StepFits(new, s)'
    <3>1. StepFits(op, s) /\ AppOf(s)' = AppOf(s) /\ AppOf(s) \in Names /\ s \in TabSteps(Created)
      BY <1>5 DEF OnItsWay, GoalFits
    <3>2. Due(new)'[AppOf(s)] \in {Due(op)[AppOf(s)], "any"}
      BY <3>1
    <3>3. s.do = "remove" => s.k \in Object /\ cont'[s.k].id = cont[s.k].id
      BY <1>1, <3>1 DEF TabSteps, Created, NamesStay
    <3>4. \A i \in DOMAIN op.started : op.started[i] \in Object
      <4>1. op.started \in Seq(Created)
        BY DEF TabRequests
      <4> QED BY <4>1, LenProperties, ElementOfSeq DEF Created
    <3>5. \A i \in DOMAIN op.started : cont'[op.started[i]].name = cont[op.started[i]].name
      BY <1>1, <3>4 DEF NamesStay
    <3> QED BY <3>1, <3>2, <3>3, <3>5 DEF StepFits, AsBefore
  <2>2. op.then = "clear" => /\ DOMAIN op.goal = Names
                             /\ \A n \in Names : Due(new)'[n] \in {"absent", "any"}
    BY DEF OnItsWay, GoalFits
  <2>3. op.rest # {} /\ op.then = "save" =>
          \A j \in Listed : Due(new)'[cont'[j].name] \in {"stop", "any"}
    <3>1. \A j \in Listed : cont[j].name \in Names /\ cont'[j].name = cont[j].name
      BY <1>1, <1>2, ListedTyped DEF NamesStay, TabInv
    <3> QED BY <3>1 DEF OnItsWay, GoalFits
  <2>4. /\ op.then \in {"none", "exit", "quiet"} => DOMAIN op.goal = {}
        /\ op.then = "none" => StepsOf(op) = {}
        /\ op.rest # {} => op.then \in {"save", "clear", "exit"}
        /\ \A s, t \in StepsOf(op) :
             s.do \in {"stop", "remove"} => t.do \notin {"resume", "create", "item"}
    BY DEF OnItsWay, GoalFits
  <2> QED BY <1>2, <1>3, <2>1, <2>2, <2>3, <2>4 DEF GoalFits, AsBefore
<1>9. ASSUME NEW n \in Names, Stands(op, n) PROVE Stands(new, n)'
  <2>1. CASE Due(new)'[n] = "any"
    BY <2>1 DEF Stands
  <2>2. CASE Due(new)'[n] = Due(op)[n] /\ Due(op)[n] # "any"
    <3>1. \A j \in Of(n) : (cont'[j].st = "stopped") = (cont[j].st = "stopped")
      <4>1. \A j \in Of(n) : cont[j].name = n
        BY DEF Of
      <4> QED BY <1>1, <1>2, <2>2, <4>1
    <3> QED BY <1>2, <1>4, <1>9, <2>2, <3>1 DEF Stands, AsBefore
  <2> QED BY <2>1, <2>2
<1>10. ListStands(new)'
  BY <1>9 DEF OnItsWay, ListStands, AsBefore
<1>11. SaveTells(new)'
  <2>1. CASE op.saving
    <3>1. Told(op.data, Due(op)) /\ Placed(op.data) /\ op.data \in Seq(Entries)
      BY <2>1 DEF OnItsWay, SaveTells, TabRequests
    <3>2. PICK q \in Seq(Entries) : q = op.data
      BY <3>1
    <3>3. Placed(q)'
      BY <1>1, <3>1, <3>2, PlacedStays DEF TabInv
    <3>4. Told(q, Due(new)')
      BY <3>1, <3>2, ToldOfLess
    <3> QED BY <1>2, <2>1, <3>2, <3>3, <3>4 DEF OnItsWay, SaveTells, AsBefore
  <2>2. CASE ~op.saving
    BY <2>2 DEF SaveTells, AsBefore
  <2> QED BY <2>1, <2>2
<1> QED BY <1>6, <1>7, <1>8, <1>10, <1>11 DEF OnItsWay

(* The only request is the one there is, or none.                             *)
LEMMA SomeRequest ==
  ASSUME TabInv, IntentInv, serial
  PROVE  \E o \in Slots : /\ Alone(o) /\ OnItsWay(ops[o]) /\ ops[o] \in TabRequests(Created)
                          /\ \A p \in Slots : p # o => ops[p] = NoRequest
BY DEF IntentInv, Alone, TabInv, RequestsTyped

LEMMA CrashRestartOnWay ==
  ASSUME TabInv, IntentInv, NEW k \in Object, CrashRestart(k) PROVE IntentInv'
<1> SUFFICES ASSUME serial' PROVE IntentInv'
  BY DEF IntentInv
<1>1. /\ up /\ cont[k].st = "waiting" /\ k \in Created /\ serial
      /\ UNCHANGED <<procs, nextId, ops, dump, boots, asked, up, meant, serial>>
  BY DEF CrashRestart, Created
<1>2. PICK s \in {"online", "errored"} : cont' = [cont EXCEPT ![k].st = s]
  BY DEF CrashRestart
<1>3. PICK o \in Slots : Alone(o) /\ OnItsWay(ops[o]) /\ ops[o] \in TabRequests(Created)
  BY <1>1, SomeRequest
<1>4. PICK op \in TabRequests(Created) : op = ops[o]
  BY <1>3
<1>5. Due(op)' = Due(op) /\ AsBefore(op, op)
  BY <1>1, DueStays DEF AsBefore
<1>6. OnItsWay(op)'
  BY <1>1, <1>2, <1>3, <1>4, <1>5, ChildOnWay
<1>7. Alone(o)' /\ ops'[o] = op
  BY <1>1, <1>3, <1>4 DEF Alone
<1> QED BY <1>6, <1>7 DEF IntentInv

(* The daemon ends: the list is gone, and the dump, with what a write in      *)
(* flight has made of it, still tells what is meant.                          *)
LEMMA GoneOnWay ==
  ASSUME TabInv, IntentInv, up, Gone PROVE IntentInv'
<1> SUFFICES ASSUME serial' PROVE IntentInv'
  BY DEF IntentInv
<1>1. /\ serial /\ ~up' /\ procs' = [i \in Id |-> NoObject] /\ nextId' = 0
      /\ cont' = [k \in Object |-> Blank] /\ ops' = [o \in Slots |-> NoRequest]
  BY DEF Gone
<1>2. PICK o \in Slots : /\ OnItsWay(ops[o]) /\ ops[o] \in TabRequests(Created)
                         /\ \A p \in Slots : p # o => ops[p] = NoRequest
  BY <1>1, SomeRequest
<1>3. PICK op \in TabRequests(Created) : op = ops[o]
  BY <1>2
<1>4. \A p \in Slots : ops[p].saving => p = o
  BY <1>2, NothingToDo
<1>5. Told(dump'.entries, meant') /\ (~dump'.intact => dump'.entries = <<>>)
      /\ dump'.entries \in Seq(Entries)
  <2>1. CASE dump' = dump /\ meant' = meant
    BY <1>2, <2>1 DEF OnItsWay, DumpTells, TabInv, RestTyped
  <2>2. CASE ops[o].saving /\ SaveWritten(o)
    <3>1. Told(op.data, Due(op)) /\ op.data \in Seq(Entries)
      BY <1>2, <1>3, <2>2 DEF OnItsWay, SaveTells, TabRequests
    <3>2. dump' = [entries |-> op.data, intact |-> TRUE] /\ meant' = Due(op)
      BY <1>3, <2>2 DEF SaveWritten, Due
    <3> QED BY <3>1, <3>2
  <2>3. CASE SaveTorn
    <3>1. EntriesOf(<<>>) = {} /\ <<>> \in Seq(Entries)
      BY EmptySeq DEF EntriesOf
    <3>2. dump'.entries = <<>> /\ ~dump'.intact /\ \A n \in Names : meant'[n] = "any"
      BY <2>3 DEF SaveTorn, Want
    <3> QED BY <3>1, <3>2 DEF Told
  <2> QED BY <1>3, <1>4, <2>1, <2>2, <2>3 DEF Gone
<1>6. Placed(dump.entries)'
  <2>1. \A e \in EntriesOf(dump'.entries) : e.id \in Id
    BY <1>5, EntriesTyped DEF Entries
  <2>2. \A i \in Id : procs'[i] = NoObject
    BY <1>1
  <2> QED BY <2>1, <2>2 DEF Placed
<1>7. MovesAwaited(NoRequest)'
  BY <1>1, NothingToDo DEF MovesAwaited, Blank
<1>8. OnItsWay(NoRequest)'
  <2>1. DumpTells(NoRequest)'
    BY <1>1, <1>5, <1>6 DEF DumpTells, InPlace
  <2> QED BY <1>1, <1>7, <2>1, NothingFits DEF OnItsWay, ListStands
<1>9. Alone(o)' /\ ops'[o] = NoRequest
  BY <1>1 DEF Alone
<1> QED BY <1>8, <1>9 DEF IntentInv

(* A request as it is made: it fits what is meant, and it awaits nothing yet. *)
Proposed(op) ==
  /\ Told(dump.entries, meant) /\ (~dump.intact => dump.entries = <<>>)
  /\ \/ AnyGoes
     \/ /\ Placed(dump.entries)
        /\ \A e \in EntriesOf(dump.entries) :
             e.id < nextId \/ \E s \in StepsOf(op) : s.do = "item" /\ s.id = e.id
  /\ \A k \in Object : cont[k].st \notin {"launching", "stopping"}
  /\ op.busy = NoObject /\ ~op.saving /\ GoalFits(op)
  /\ op.then \in {"none", "save", "quiet"} => \A n \in Names : Stands(op, n)

(* Where nothing moves, what fits goes on fitting and what stands stands.     *)
LEMMA NothingMoves ==
  ASSUME NEW op, GoalFits(op), UNCHANGED <<procs, cont, nextId, dump, meant>>
  PROVE  /\ GoalFits(op)' /\ Due(op)' = Due(op)
         /\ Listed' = Listed /\ \A n : Of(n)' = Of(n)
         /\ \A n \in Names : Stands(op, n) => Stands(op, n)'
<1>1. Due(op)' = Due(op)
  BY DueStays
<1>2. Listed' = Listed /\ \A n : Of(n)' = Of(n)
  BY DEF Listed, Of
<1>3. GoalFits(op)'
  <2>1. ASSUME NEW s \in StepsOf(op) PROVE StepFits(op, s)'
    <3>1. AppOf(s)' = AppOf(s)
      BY DEF AppOf
    <3>2. StepFits(op, s)
      BY DEF GoalFits
    <3> QED BY <1>1, <3>1, <3>2 DEF StepFits
  <2> QED BY <1>1, <1>2, <2>1 DEF GoalFits
<1>4. \A n \in Names : Stands(op, n) => Stands(op, n)'
  BY <1>1, <1>2 DEF Stands
<1> QED BY <1>1, <1>2, <1>3, <1>4

LEMMA ProposedOnWay ==
  ASSUME NEW op, Proposed(op), up', UNCHANGED <<procs, cont, nextId, dump, meant>>
  PROVE  OnItsWay(op)'
<1>1. GoalFits(op)' /\ \A n \in Names : Stands(op, n) => Stands(op, n)'
  BY NothingMoves DEF Proposed
<1>2. Placed(dump.entries)' = Placed(dump.entries) /\ AnyGoes' = AnyGoes
  BY DEF Placed, AnyGoes
<1>3. DumpTells(op)'
  BY <1>2 DEF Proposed, DumpTells, InPlace
<1>4. MovesAwaited(op)'
  BY DEF Proposed, MovesAwaited
<1>5. ListStands(op)' /\ SaveTells(op)'
  BY <1>1 DEF Proposed, ListStands, SaveTells
<1> QED BY <1>1, <1>3, <1>4, <1>5 DEF OnItsWay

(* It is on its way from the start, if the daemon is up.                      *)
LEMMA ProposedGoes ==
  ASSUME NEW op, Proposed(op), up PROVE OnItsWay(op)
<1>1. DumpTells(op)
  BY DEF Proposed, DumpTells, InPlace
<1>2. MovesAwaited(op)
  BY DEF Proposed, MovesAwaited
<1>3. ListStands(op) /\ SaveTells(op)
  BY DEF Proposed, ListStands, SaveTells
<1> QED BY <1>1, <1>2, <1>3 DEF Proposed, OnItsWay

(* No request is under way: the dump and the list are what is meant.          *)
LEMMA AtEase ==
  ASSUME TabInv, IntentInv, serial, Quiescent
  PROVE  /\ Told(dump.entries, meant) /\ (~dump.intact => dump.entries = <<>>)
         /\ \/ AnyGoes
            \/ /\ Placed(dump.entries)
               /\ up => \A e \in EntriesOf(dump.entries) : e.id < nextId
         /\ \A k \in Object : cont[k].st \notin {"launching", "stopping"}
         /\ up => \A n \in Names : Honoured(n, meant[n])
         /\ ~up => \A i \in Id : procs[i] = NoObject
<1>1. OnItsWay(NoRequest)
  BY SomeRequest DEF Quiescent
<1>2. \A k \in Object : cont[k].st \notin {"launching", "stopping"}
  <2>1. \A k \in Object : k # NoObject
    BY DEF Object, NoObject
  <2> QED BY <1>1, <2>1, NothingToDo DEF OnItsWay, MovesAwaited
<1>3. ASSUME up, NEW n \in Names PROVE Honoured(n, meant[n])
  <2>1. Stands(NoRequest, n)
    BY <1>1, <1>3, NothingToDo DEF OnItsWay, ListStands
  <2>2. Honoured(n, Due(NoRequest)[n])
    BY <2>1, DoneStands, NothingToDo
  <2> QED BY <2>2, NothingToDo
<1>4. /\ Told(dump.entries, meant) /\ (~dump.intact => dump.entries = <<>>)
      /\ \/ AnyGoes
         \/ /\ Placed(dump.entries)
            /\ up => \A e \in EntriesOf(dump.entries) : e.id < nextId
  BY <1>1, NothingToDo DEF OnItsWay, DumpTells, InPlace
<1> QED BY <1>1, <1>2, <1>3, <1>4 DEF OnItsWay

LEMMA RequestOnWay ==
  ASSUME TabInv, IntentInv, NEW o \in Slots, NEW prog, Request(o, prog),
         serial /\ Quiescent => Proposed(prog)
  PROVE  IntentInv'
<1> SUFFICES ASSUME serial' PROVE IntentInv'
  BY DEF IntentInv
<1>1. /\ serial /\ Quiescent /\ up /\ ops' = [ops EXCEPT ![o] = prog]
      /\ UNCHANGED <<procs, cont, nextId, dump, boots, up, meant>>
  BY DEF Request
<1>2. OnItsWay(prog)'
  BY <1>1, ProposedOnWay
<1>3. Alone(o)
  BY <1>1 DEF Alone, Quiescent
<1> QED BY <1>1, <1>2, <1>3, SlotTakes DEF TabInv

(* What a request says nothing of stays as it is meant, if it removes none.   *)
LEMMA StandsAsMeant ==
  ASSUME NEW n \in Names, Honoured(n, meant[n]), NEW op, Due(op)[n] = meant[n],
         Of(n) # {} => \E k \in Of(n) : ~Has(op, "remove", k)
  PROVE  Stands(op, n)
BY DEF Stands, Honoured

(* What ById lists of a set of listed processes is that set.                  *)
LEMMA ByIdLists ==
  ASSUME ListTyped, NEW S, S \subseteq Listed, NEW q, q = ById(S)
  PROVE  /\ q \in Seq(Created) /\ DOMAIN q = 1 .. Len(q) /\ Len(q) \in Nat
         /\ \A i \in DOMAIN q : q[i] \in S
         /\ \A k \in S : \E i \in DOMAIN q : q[i] = k
<1>1. PICK box : box = [j \in 1 .. MaxIds |-> procs[j - 1]]
  OBVIOUS
<1>2. MaxIds \in Nat /\ \A j \in 1 .. MaxIds : j - 1 \in Id
  BY TableAssumption DEF Id
<1>3. box \in Seq(Object \cup {NoObject}) /\ DOMAIN box = 1 .. MaxIds
  <2>1. \A j \in 1 .. MaxIds : procs[j - 1] \in Object \cup {NoObject}
    BY <1>2 DEF ListTyped
  <2> QED BY <1>1, <1>2, <2>1, IsASeq
<1>4. q = Among(box, S)
  BY <1>1 DEF ById
<1>5. ToSet(q) = ToSet(box) \cap S
  BY <1>3, <1>4, AmongElements
<1>6. \A k \in S : k \in ToSet(box)
  <2> TAKE k \in S
  <2>1. PICK i \in Id : k = procs[i]
    BY DEF Listed
  <2>2. i + 1 \in 1 .. MaxIds /\ box[i + 1] = k
    BY <1>1, <1>2, <2>1 DEF Id
  <2> QED BY <1>3, <2>2 DEF ToSet
<1>7. q \in Seq(Created)
  <2>1. S \subseteq Created
    BY ListedTyped
  <2> QED BY <2>1, ByIdTyped
<1>8. DOMAIN q = 1 .. Len(q) /\ Len(q) \in Nat
  BY <1>7, LenProperties
<1>9. /\ \A i \in DOMAIN q : q[i] \in S
      /\ \A k \in S : \E i \in DOMAIN q : q[i] = k
  BY <1>5, <1>6 DEF ToSet
<1> QED BY <1>7, <1>8, <1>9

(* A list with two processes lists two different ones.                        *)
LEMMA ByIdDiffer ==
  ASSUME ListTyped, IdsFresh, NEW S, S \subseteq Listed, NEW q, q = ById(S), Len(q) = 2
  PROVE  q[1] \in S /\ q[2] \in S /\ q[1] # q[2]
<1>1. PICK box : box = [j \in 1 .. MaxIds |-> procs[j - 1]]
  OBVIOUS
<1>2. MaxIds \in Nat /\ \A j \in 1 .. MaxIds : j - 1 \in Id
  BY TableAssumption DEF Id
<1>3. box \in Seq(Object \cup {NoObject}) /\ Len(box) = MaxIds
  <2>1. \A j \in 1 .. MaxIds : procs[j - 1] \in Object \cup {NoObject}
    BY <1>2 DEF ListTyped
  <2> QED BY <1>1, <1>2, <2>1, IsASeq
<1>4. q = Among(box, S)
  BY <1>1 DEF ById
<1>5. PICK p : Picks(p, box, q, S, MaxIds)
  BY <1>3, <1>4, AmongPicks
<1>6. /\ p[1] \in 1 .. MaxIds /\ p[2] \in 1 .. MaxIds /\ p[1] # p[2]
      /\ q[1] = box[p[1]] /\ q[1] \in S /\ q[2] = box[p[2]] /\ q[2] \in S
  BY <1>5 DEF Picks
<1>7. /\ p[1] - 1 \in Id /\ p[2] - 1 \in Id /\ p[1] - 1 # p[2] - 1
      /\ q[1] = procs[p[1] - 1] /\ q[2] = procs[p[2] - 1]
  BY <1>1, <1>2, <1>6
<1>8. q[1] # NoObject /\ q[2] # NoObject
  BY <1>6 DEF Listed
<1>9. cont[q[1]].id = p[1] - 1 /\ cont[q[2]].id = p[2] - 1
  BY <1>7, <1>8 DEF IdsFresh
<1> QED BY <1>6, <1>7, <1>9

(* A new request is one as it is made, if it fits and the list stands for it.  *)
LEMMA NewProposed ==
  ASSUME TabInv, IntentInv, serial, Quiescent, up, NEW prog, prog.busy = NoObject, ~prog.saving,
         GoalFits(prog), prog.then \in {"none", "save", "quiet"} => \A n \in Names : Stands(prog, n)
  PROVE  Proposed(prog)
BY AtEase DEF Proposed

(* The wishes of a request of one name, or of all that are listed.            *)
WantsOne(op, n, w) ==
  /\ DOMAIN op.goal = {n} /\ Due(op)[n] = w
  /\ \A m \in Names : m # n => Due(op)[m] = meant[m]
LEMMA DueOfOne ==
  ASSUME NEW prog, NEW n \in Names, NEW w, prog.goal = Want({n}, w)
  PROVE  WantsOne(prog, n, w)
BY DEF Want, Due, Answered, WantsOne

LEMMA DueOfListed ==
  ASSUME TabInv, NEW prog, NEW w, prog.goal = Want({cont[k].name : k \in Listed}, w),
         NEW n \in Names
  PROVE  Due(prog)[n] = IF Of(n) # {} THEN w ELSE meant[n]
<1>1. n \in {cont[k].name : k \in Listed} <=> Of(n) # {}
  BY DEF Of
<1> QED BY <1>1 DEF Want, Due, Answered

LEMMA ConcatSteps ==
  ASSUME NEW B, NEW f \in Seq(B), NEW c \in Seq(B), NEW op, op.todo = f \o c
  PROVE  StepsOf(op) = {f[i] : i \in DOMAIN f} \cup {c[i] : i \in DOMAIN c}
<1>1. /\ DOMAIN f = 1 .. Len(f) /\ DOMAIN c = 1 .. Len(c) /\ Len(f) \in Nat /\ Len(c) \in Nat
  BY LenProperties
<1>2. PICK q : q = f \o c
  OBVIOUS
<1>3. /\ DOMAIN q = 1 .. Len(f) + Len(c)
      /\ \A i \in 1 .. Len(f) + Len(c) : q[i] = IF i <= Len(f) THEN f[i] ELSE c[i - Len(f)]
  BY <1>1, <1>2, ConcatProperties, LenProperties
<1>4. ASSUME NEW i \in DOMAIN q PROVE q[i] \in {f[j] : j \in DOMAIN f} \cup {c[j] : j \in DOMAIN c}
  <2>1. CASE i <= Len(f)
    <3>1. i \in DOMAIN f /\ q[i] = f[i]
      BY <1>1, <1>3, <2>1
    <3> QED BY <3>1
  <2>2. CASE ~(i <= Len(f))
    <3>1. i - Len(f) \in DOMAIN c /\ q[i] = c[i - Len(f)]
      BY <1>1, <1>3, <2>2
    <3> QED BY <3>1
  <2> QED BY <2>1, <2>2
<1>5. ASSUME NEW j \in DOMAIN f PROVE f[j] \in {q[i] : i \in DOMAIN q}
  <2>1. j \in DOMAIN q /\ q[j] = f[j]
    BY <1>1, <1>3
  <2> QED BY <2>1
<1>6. ASSUME NEW j \in DOMAIN c PROVE c[j] \in {q[i] : i \in DOMAIN q}
  <2>1. j + Len(f) \in DOMAIN q /\ q[j + Len(f)] = c[j]
    BY <1>1, <1>3
  <2> QED BY <2>1
<1>7. StepsOf(op) = {q[i] : i \in DOMAIN q}
  BY <1>2 DEF StepsOf
<1> QED BY <1>4, <1>5, <1>6, <1>7

(* start: what there is of the name comes up, and what is missing is created. *)
LEMMA StartScriptOnWay ==
  ASSUME TabInv, IntentInv, NEW o \in Slots, StartScript(o) PROVE IntentInv'
<1>1. PICK n \in Names, count \in 1 .. 2 :
        Request(o, [NoRequest EXCEPT
          !.todo = [i \in DOMAIN ById(Of(n)) |-> Step("resume", ById(Of(n))[i])]
                   \o [i \in 1..(IF Len(ById(Of(n))) < count
                                   THEN count - Len(ById(Of(n))) ELSE 0) |-> Create(n)],
          !.then = "save", !.goal = Want({n}, "run")])
  BY DEF StartScript
<1>2. PICK old : old = ById(Of(n))
  OBVIOUS
<1>3. PICK f : f = [i \in DOMAIN old |-> Step("resume", old[i])]
  OBVIOUS
<1>4. PICK more : more = IF Len(old) < count THEN count - Len(old) ELSE 0
  OBVIOUS
<1>5. PICK c : c = [i \in 1 .. more |-> Create(n)]
  OBVIOUS
<1>6. PICK goal : goal = Want({n}, "run")
  OBVIOUS
<1>7. PICK prog : prog = [NoRequest EXCEPT !.todo = f \o c, !.then = "save", !.goal = goal]
  OBVIOUS
<1>8. Request(o, prog)
  BY <1>1, <1>2, <1>3, <1>4, <1>5, <1>6, <1>7
<1> SUFFICES ASSUME serial, Quiescent PROVE Proposed(prog)
  BY <1>8, RequestOnWay
<1>9. up /\ \A m \in Names : Honoured(m, meant[m])
  BY <1>8, AtEase DEF Request
<1>10. /\ prog.todo = f \o c /\ prog.then = "save" /\ prog.goal = Want({n}, "run")
       /\ prog.rest = {} /\ ~prog.tolerant /\ prog.busy = NoObject /\ ~prog.saving
       /\ prog.started = <<>>
  BY <1>6, <1>7 DEF NoRequest
<1>11. /\ old \in Seq(Created) /\ DOMAIN old = 1 .. Len(old) /\ Len(old) \in Nat
       /\ \A i \in DOMAIN old : old[i] \in Of(n)
       /\ \A k \in Of(n) : \E i \in DOMAIN old : old[i] = k
  <2>1. Of(n) \subseteq Listed
    BY DEF Of
  <2> QED BY <1>2, <2>1, ByIdLists DEF TabInv
<1>12. f \in Seq(TabSteps(Created)) /\ more \in Nat /\ c \in Seq(TabSteps(Created))
  <2>1. f \in Seq(TabSteps(Created))
    BY <1>3, <1>11, StepsTyped
  <2>2. more \in Nat
    BY <1>4, <1>11
  <2>3. \A i \in 1 .. more : Create(n) \in TabSteps(Created)
    BY StepTyped
  <2> QED BY <1>5, <2>1, <2>2, <2>3, IsASeq
<1>13. StepsOf(prog) = {f[i] : i \in DOMAIN f} \cup {c[i] : i \in DOMAIN c}
  BY <1>10, <1>12, ConcatSteps
<1>14. /\ \A k : Step("resume", k).do = "resume" /\ Step("resume", k).k = k
       /\ Create(n).do = "create" /\ Create(n).name = n
  BY DEF Step, Create
<1>15. /\ DOMAIN f = DOMAIN old /\ \A i \in DOMAIN f : f[i] = Step("resume", old[i])
       /\ DOMAIN c = 1 .. more /\ \A i \in DOMAIN c : c[i] = Create(n)
  BY <1>3, <1>5
<1>16. ASSUME NEW s \in StepsOf(prog)
       PROVE  s.do \in {"resume", "create"} /\ AppOf(s) = n
  <2>1. CASE \E i \in DOMAIN f : s = f[i]
    <3>1. PICK i \in DOMAIN old : s = Step("resume", old[i])
      BY <1>15, <2>1
    <3>2. s.do = "resume" /\ s.k \in Of(n)
      BY <1>11, <1>14, <3>1
    <3> QED BY <3>2 DEF AppOf, Of
  <2>2. CASE \E i \in DOMAIN c : s = c[i]
    <3>1. s.do = "create" /\ s.name = n
      BY <1>14, <1>15, <2>2
    <3> QED BY <3>1 DEF AppOf
  <2> QED BY <1>13, <2>1, <2>2
<1>17. ASSUME NEW k \in Of(n) PROVE Has(prog, "resume", k)
  <2>1. PICK i \in DOMAIN f : f[i] = Step("resume", k)
    BY <1>11, <1>15
  <2>2. f[i] \in StepsOf(prog)
    BY <1>13
  <2> QED BY <1>14, <2>1, <2>2 DEF Has
<1>18. Of(n) = {} => Brings(prog, n)
  <2> SUFFICES ASSUME Of(n) = {} PROVE Brings(prog, n)
    OBVIOUS
  <2>1. Len(old) = 0
    <3>1. 1 \notin DOMAIN old
      BY <1>11
    <3> QED BY <1>11, <3>1
  <2>2. 1 \in DOMAIN c
    BY <1>4, <1>15, <2>1
  <2>3. c[1] \in StepsOf(prog) /\ c[1] = Create(n)
    BY <1>13, <1>15, <2>2
  <2> QED BY <1>14, <2>3 DEF Brings
<1>19. \A k : ~Has(prog, "remove", k)
  BY <1>16 DEF Has
<1>20. /\ DOMAIN prog.goal = {n} /\ Due(prog)[n] = "run"
       /\ \A m \in Names : m # n => Due(prog)[m] = meant[m]
  <2>1. WantsOne(prog, n, "run")
    BY <1>10, DueOfOne
  <2> QED BY <2>1 DEF WantsOne
<1>21. GoalFits(prog)
  <2>1. ASSUME NEW s \in StepsOf(prog) PROVE StepFits(prog, s)
    <3>1. s.do \in {"resume", "create"} /\ AppOf(s) = n
      BY <1>16
    <3>2. DOMAIN prog.started = {}
      BY <1>10
    <3> QED BY <1>10, <1>20, <3>1, <3>2 DEF StepFits
  <2> QED BY <1>10, <1>16, <2>1 DEF GoalFits
<1>22. ASSUME NEW m \in Names PROVE Stands(prog, m)
  <2>1. CASE m = n
    BY <1>17, <1>18, <1>19, <1>20, <2>1 DEF Stands
  <2>2. CASE m # n
    BY <1>9, <1>19, <1>20, <2>2, StandsAsMeant
  <2> QED BY <2>1, <2>2
<1> QED BY <1>9, <1>10, <1>21, <1>22, NewProposed

(* scale down: the one that stays is still what is meant.                     *)
LEMMA ScaleDownOnWay ==
  ASSUME TabInv, IntentInv, NEW o \in Slots, ScaleDown(o) PROVE IntentInv'
<1>1. PICK n \in Names :
        /\ Len(ById(Of(n))) = 2
        /\ Request(o, [NoRequest EXCEPT !.todo = <<Step("remove", ById(Of(n))[2])>>,
                                        !.then = "save"])
  BY DEF ScaleDown
<1>2. PICK old : old = ById(Of(n))
  OBVIOUS
<1>3. PICK s : s = Step("remove", old[2])
  OBVIOUS
<1>4. PICK q : q = <<s>>
  OBVIOUS
<1>5. PICK prog : prog = [NoRequest EXCEPT !.todo = q, !.then = "save"]
  OBVIOUS
<1>6. Request(o, prog) /\ Len(old) = 2
  BY <1>1, <1>2, <1>3, <1>4, <1>5
<1> SUFFICES ASSUME serial, Quiescent PROVE Proposed(prog)
  BY <1>6, RequestOnWay
<1>7. up /\ \A m \in Names : Honoured(m, meant[m])
  BY <1>6, AtEase DEF Request
<1>8. /\ prog.todo = q /\ prog.then = "save" /\ DOMAIN prog.goal = {}
      /\ prog.rest = {} /\ ~prog.tolerant /\ prog.busy = NoObject /\ ~prog.saving
  BY <1>5 DEF NoRequest
<1>9. /\ old[1] \in Of(n) /\ old[2] \in Of(n) /\ old[1] # old[2]
  <2>1. Of(n) \subseteq Listed
    BY DEF Of
  <2> QED BY <1>2, <1>6, <2>1, ByIdDiffer DEF TabInv
<1>10. s.do = "remove" /\ s.k = old[2]
  BY <1>3 DEF Step
<1>11. StepsOf(prog) = {s}
  <2>1. DOMAIN q = {1} /\ q[1] = s
    BY <1>4
  <2>2. StepsOf(prog) = {q[i] : i \in DOMAIN q}
    BY <1>8 DEF StepsOf
  <2> QED BY <2>1, <2>2
<1>12. \A m \in Names : Due(prog)[m] = meant[m]
  BY <1>8, DueIs
<1>13. cont[s.k].id < nextId /\ procs[cont[s.k].id] = s.k
  <2>1. PICK i \in Id : procs[i] = s.k /\ s.k # NoObject
    BY <1>9, <1>10 DEF Of, Listed
  <2> QED BY <2>1 DEF TabInv, IdsFresh
<1>14. GoalFits(prog)
  <2>1. StepFits(prog, s)
    BY <1>8, <1>10, <1>13 DEF StepFits
  <2> QED BY <1>8, <1>10, <1>11, <2>1 DEF GoalFits
<1>15. ASSUME NEW m \in Names PROVE Stands(prog, m)
  <2>1. \A k : Has(prog, "remove", k) => k = old[2]
    BY <1>10, <1>11 DEF Has
  <2>2. \A k \in Of(m) : k = old[2] => m = n
    BY <1>9 DEF Of
  <2>3. Of(m) # {} => \E k \in Of(m) : ~Has(prog, "remove", k)
    BY <1>9, <2>1, <2>2
  <2> QED BY <1>7, <1>12, <2>3, StandsAsMeant
<1> QED BY <1>7, <1>8, <1>14, <1>15, NewProposed

(* startTarget("all"): whatever is listed comes up.                           *)
LEMMA StartAllOnWay ==
  ASSUME TabInv, IntentInv, NEW o \in Slots, StartAll(o) PROVE IntentInv'
<1>1. PICK all : all = ById(Listed)
  OBVIOUS
<1>2. PICK q : q = [i \in DOMAIN all |-> Step("resume", all[i])]
  OBVIOUS
<1>3. PICK goal : goal = Want({cont[k].name : k \in Listed}, "run")
  OBVIOUS
<1>4. PICK prog : prog = [NoRequest EXCEPT !.todo = q, !.then = "save", !.tolerant = TRUE,
                                           !.goal = goal]
  OBVIOUS
<1>5. Request(o, prog)
  BY <1>1, <1>2, <1>3, <1>4, Zenon DEF StartAll
<1> SUFFICES ASSUME serial, Quiescent PROVE Proposed(prog)
  BY <1>5, RequestOnWay
<1>6. up /\ \A m \in Names : Honoured(m, meant[m])
  BY <1>5, AtEase DEF Request
<1>7. /\ prog.todo = q /\ prog.then = "save" /\ prog.goal = goal
      /\ prog.rest = {} /\ prog.tolerant /\ prog.busy = NoObject /\ ~prog.saving
  BY <1>4 DEF NoRequest
<1>8. /\ \A i \in DOMAIN all : all[i] \in Listed
      /\ \A k \in Listed : \E i \in DOMAIN all : all[i] = k
  BY <1>1, ByIdLists DEF TabInv
<1>9. OneEach(prog, "resume", all)
  BY <1>2, <1>7, StepsOfEach
<1>10. \A n \in Names : Due(prog)[n] = IF Of(n) # {} THEN "run" ELSE meant[n]
  BY <1>3, <1>7, DueOfListed
<1>11. ASSUME NEW s \in StepsOf(prog)
       PROVE  s.do = "resume" /\ s.k \in Listed /\ AppOf(s) \in Names /\ Of(AppOf(s)) # {}
  <2>1. s.do = "resume" /\ s.k \in Listed
    BY <1>8, <1>9 DEF OneEach
  <2>2. AppOf(s) = cont[s.k].name /\ cont[s.k].name \in Names
    BY <2>1, ListedTyped DEF AppOf, TabInv
  <2> QED BY <2>1, <2>2 DEF Of
<1>12. \A k \in Listed : Has(prog, "resume", k)
  BY <1>8, <1>9 DEF OneEach
<1>13. GoalFits(prog)
  <2>1. ASSUME NEW s \in StepsOf(prog) PROVE StepFits(prog, s)
    BY <1>7, <1>10, <1>11 DEF StepFits
  <2> QED BY <1>7, <1>11, <2>1 DEF GoalFits
<1>14. \A k : ~Has(prog, "remove", k)
  BY <1>11 DEF Has
<1>15. ASSUME NEW m \in Names PROVE Stands(prog, m)
  <2>1. CASE Of(m) = {}
    BY <1>6, <1>10, <2>1, StandsAsMeant
  <2>2. CASE Of(m) # {}
    <3>1. \A k \in Of(m) : Has(prog, "resume", k)
      BY <1>12 DEF Of
    <3> QED BY <1>10, <1>14, <2>2, <3>1 DEF Stands
  <2> QED BY <2>1, <2>2
<1> QED BY <1>6, <1>7, <1>13, <1>15, NewProposed

(* stop and delete: every process of the name goes down, or is removed.       *)
LEMMA StopOrDeleteOnWay ==
  ASSUME TabInv, IntentInv, NEW o \in Slots, StopOne(o) \/ Delete(o) PROVE IntentInv'
<1>1. PICK n \in Names, do \in {"stop", "remove"}, w \in {"stop", "absent"} :
        /\ (do = "stop") = (w = "stop") /\ Of(n) # {}
        /\ Request(o, [NoRequest EXCEPT
             !.todo = [i \in DOMAIN ById(Of(n)) |-> Step(do, ById(Of(n))[i])],
             !.then = "save", !.goal = Want({n}, w)])
  <2>1. CASE StopOne(o)
    BY <2>1 DEF StopOne
  <2>2. CASE Delete(o)
    BY <2>2 DEF Delete
  <2> QED BY <2>1, <2>2
<1>2. PICK all : all = ById(Of(n))
  OBVIOUS
<1>3. PICK q : q = [i \in DOMAIN all |-> Step(do, all[i])]
  OBVIOUS
<1>4. PICK goal : goal = Want({n}, w)
  OBVIOUS
<1>5. PICK prog : prog = [NoRequest EXCEPT !.todo = q, !.then = "save", !.goal = goal]
  OBVIOUS
<1>6. Request(o, prog)
  BY <1>1, <1>2, <1>3, <1>4, <1>5
<1> SUFFICES ASSUME serial, Quiescent PROVE Proposed(prog)
  BY <1>6, RequestOnWay
<1>7. up /\ \A m \in Names : Honoured(m, meant[m])
  BY <1>6, AtEase DEF Request
<1>8. /\ prog.todo = q /\ prog.then = "save" /\ prog.goal = goal
      /\ prog.rest = {} /\ ~prog.tolerant /\ prog.busy = NoObject /\ ~prog.saving
  BY <1>5 DEF NoRequest
<1>9. /\ \A i \in DOMAIN all : all[i] \in Of(n)
      /\ \A k \in Of(n) : \E i \in DOMAIN all : all[i] = k
  <2>1. Of(n) \subseteq Listed
    BY DEF Of
  <2> QED BY <1>2, <2>1, ByIdLists DEF TabInv
<1>10. OneEach(prog, do, all)
  BY <1>3, <1>8, StepsOfEach
<1>11. WantsOne(prog, n, w)
  BY <1>4, <1>8, DueOfOne
<1>12. ASSUME NEW s \in StepsOf(prog) PROVE s.do = do /\ s.k \in Of(n) /\ AppOf(s) = n
  <2>1. s.do = do /\ s.k \in Of(n)
    BY <1>9, <1>10 DEF OneEach
  <2> QED BY <2>1 DEF AppOf, Of
<1>13. \A k \in Of(n) : Has(prog, do, k)
  BY <1>9, <1>10 DEF OneEach
<1>14. \A k \in Listed : cont[k].id < nextId /\ procs[cont[k].id] = k
  <2> TAKE k \in Listed
  <2>1. PICK i \in Id : procs[i] = k /\ k # NoObject
    BY DEF Listed
  <2> QED BY <2>1 DEF TabInv, IdsFresh
<1>15. GoalFits(prog)
  <2>1. ASSUME NEW s \in StepsOf(prog) PROVE StepFits(prog, s)
    <3>1. s.do = do /\ s.k \in Of(n) /\ AppOf(s) = n
      BY <1>12
    <3>2. cont[s.k].id < nextId /\ procs[cont[s.k].id] = s.k
      BY <1>14, <3>1 DEF Of
    <3>3. do = "stop" => Due(prog)[n] = "stop"
      BY <1>1, <1>11 DEF WantsOne
    <3> QED BY <1>8, <3>1, <3>2, <3>3 DEF StepFits
  <2> QED BY <1>8, <1>12, <2>1 DEF GoalFits
<1>16. ASSUME NEW m \in Names PROVE Stands(prog, m)
  <2>1. CASE m = n
    <3>1. Due(prog)[n] = w
      BY <1>11 DEF WantsOne
    <3>2. w = "stop" => \A k : ~Has(prog, "remove", k)
      BY <1>1, <1>12 DEF Has
    <3> QED BY <1>1, <1>13, <2>1, <3>1, <3>2 DEF Stands
  <2>2. CASE m # n
    <3>1. \A k \in Of(m) : ~Has(prog, "remove", k)
      BY <1>12, <2>2 DEF Has, Of
    <3>2. Due(prog)[m] = meant[m]
      BY <1>11, <2>2 DEF WantsOne
    <3> QED BY <1>7, <3>1, <3>2, StandsAsMeant
  <2> QED BY <2>1, <2>2
<1> QED BY <1>7, <1>8, <1>15, <1>16, NewProposed

(* What the exit policy asks for fits, where nothing else is under way.        *)
LEMMA PolicyProposed ==
  ASSUME TabInv, IntentInv, serial, Quiescent, up, NEW j \in Listed, NEW prog,
         prog = PolicyStop(j)
  PROVE  Proposed(prog)
<1>1. PICK n \in Names : n = cont[j].name
  BY ListedTyped DEF TabInv
<1>2. PICK w : w = IF Of(n) = {j} THEN "stop" ELSE "any"
  OBVIOUS
<1>3. PICK goal : goal = Want({n}, w)
  OBVIOUS
<1>4. PICK q : q = <<Step("stop", j)>>
  OBVIOUS
<1>5. prog = [NoRequest EXCEPT !.todo = q, !.then = "save", !.policy = TRUE, !.goal = goal]
  BY <1>1, <1>2, <1>3, <1>4 DEF PolicyStop
<1>6. /\ prog.todo = q /\ prog.then = "save" /\ prog.goal = goal
      /\ prog.rest = {} /\ ~prog.tolerant /\ prog.busy = NoObject /\ ~prog.saving
  BY <1>5 DEF NoRequest
<1>7. StepsOf(prog) = {Step("stop", j)}
  BY <1>4, <1>6 DEF StepsOf
<1>8. \A s \in StepsOf(prog) : s.do = "stop" /\ s.k = j /\ AppOf(s) = n
  BY <1>1, <1>7 DEF Step, AppOf
<1>9. Has(prog, "stop", j) /\ \A k : ~Has(prog, "remove", k)
  <2>1. Step("stop", j) \in StepsOf(prog)
    BY <1>7
  <2> QED BY <1>8, <2>1 DEF Has
<1>10. WantsOne(prog, n, w)
  BY <1>3, <1>6, DueOfOne
<1>11. \A m \in Names : Honoured(m, meant[m])
  BY AtEase
<1>12. GoalFits(prog)
  <2>1. Due(prog)[n] \in {"stop", "any"}
    BY <1>2, <1>10 DEF WantsOne
  <2>2. ASSUME NEW s \in StepsOf(prog) PROVE StepFits(prog, s)
    BY <1>6, <1>8, <2>1 DEF StepFits
  <2> QED BY <1>6, <1>8, <2>2 DEF GoalFits
<1>13. ASSUME NEW m \in Names PROVE Stands(prog, m)
  <2>1. CASE m = n /\ w = "stop"
    <3>1. Of(n) = {j} /\ Due(prog)[n] = "stop"
      BY <1>2, <1>10, <2>1 DEF WantsOne
    <3> QED BY <1>9, <2>1, <3>1 DEF Stands
  <2>2. CASE m = n /\ w = "any"
    BY <1>10, <2>2 DEF WantsOne, Stands
  <2>3. CASE m # n
    <3>1. Due(prog)[m] = meant[m]
      BY <1>10, <2>3 DEF WantsOne
    <3> QED BY <1>9, <1>11, <3>1, StandsAsMeant
  <2> QED BY <1>2, <2>1, <2>2, <2>3
<1> QED BY <1>6, <1>12, <1>13, NewProposed

(* What is under way once the exit policy has had its say: the request there  *)
(* was, or the one stop it asks for.                                          *)
LEMMA JoinedOnWay ==
  ASSUME TabInv, IntentInv, serial, up, NEW k, NEW told \in SUBSET Siblings(k),
         NEW job \in Jobs(told), told = {} \/ (Quiescent /\ \A i, j \in told : i = j)
  PROVE  \E o \in Slots : /\ OnItsWay(Joining(job, o))
                          /\ Joining(job, o) \in TabRequests(Created)
                          /\ \A p \in Slots : p # o => Joining(job, p) = NoRequest
<1>1. /\ job \in [Slots -> told \cup {NoObject}]
      /\ \A j \in told : \E o \in Slots : job[o] = j /\ \A p \in Slots : job[p] = j => p = o
  BY DEF Jobs
<1>2. CASE told = {}
  <2>1. \A p \in Slots : Joining(job, p) = ops[p]
    BY <1>1, <1>2 DEF Joining
  <2>2. PICK o \in Slots : /\ OnItsWay(ops[o]) /\ ops[o] \in TabRequests(Created)
                           /\ \A p \in Slots : p # o => ops[p] = NoRequest
    BY SomeRequest
  <2>3. PICK op : op = ops[o]
    OBVIOUS
  <2>4. OnItsWay(op) /\ Joining(job, o) = op
    BY <2>1, <2>2, <2>3
  <2>5. OnItsWay(Joining(job, o))
    BY <2>4
  <2> QED BY <2>1, <2>2, <2>5
<1>3. CASE told # {} /\ Quiescent /\ \A i, j \in told : i = j
  <2>1. PICK j \in told : told = {j}
    BY <1>3
  <2>2. j \in Listed /\ j \in Created /\ j # NoObject
    <3>1. j \in Listed
      BY <2>1 DEF Siblings
    <3> QED BY <3>1, ListedTyped DEF TabInv, Listed
  <2>3. PICK o \in Slots : job[o] = j /\ \A p \in Slots : job[p] = j => p = o
    BY <1>1, <2>1
  <2>4. PICK prog : prog = PolicyStop(j)
    OBVIOUS
  <2>5. OnItsWay(prog) /\ prog \in TabRequests(Created)
    BY <1>3, <2>2, <2>4, PolicyProposed, ProposedGoes, PolicyStopTyped DEF TabInv
  <2>6. Joining(job, o) = prog
    BY <2>2, <2>3, <2>4 DEF Joining
  <2>7. \A p \in Slots : p # o => Joining(job, p) = NoRequest
    <3>1. \A p \in Slots : p # o => job[p] = NoObject
      BY <1>1, <2>1, <2>3
    <3> QED BY <1>3, <3>1 DEF Joining, Quiescent
  <2>8. OnItsWay(Joining(job, o))
    BY <2>5, <2>6
  <2> QED BY <2>5, <2>6, <2>7, <2>8
<1> QED BY <1>2, <1>3

(* To exempt a name leaves no request none, and a request what it does.       *)
LEMMA ExemptIs ==
  ASSUME NEW n
  PROVE  /\ Exempt(NoRequest, n) = NoRequest
         /\ \A op \in TabRequests(Created) :
              /\ AsBefore(op, Exempt(op, n))
              /\ \A m \in DOMAIN op.goal :
                   Exempt(op, n).goal[m] = IF m = n THEN "any" ELSE op.goal[m]
<1>1. Exempt(NoRequest, n) = NoRequest
  <2>1. DOMAIN NoRequest.goal = {} /\ NoRequest.goal = [m \in {} |-> ""]
    BY DEF NoRequest
  <2>2. [m \in DOMAIN NoRequest.goal |-> IF m = n THEN "any" ELSE NoRequest.goal[m]]
          = [m \in {} |-> ""]
    BY <2>1
  <2>3. PICK none : none = [m \in {} |-> ""]
    OBVIOUS
  <2>4. NoRequest \in TabRequests(Created) /\ NoRequest.goal = none
    BY <2>1, <2>3, NoRequestTyped
  <2>5. [NoRequest EXCEPT !.goal = none] = NoRequest
    BY <2>4 DEF TabRequests
  <2> QED BY <2>2, <2>3, <2>5 DEF Exempt
<1>2. ASSUME NEW op \in TabRequests(Created)
      PROVE  /\ AsBefore(op, Exempt(op, n))
             /\ \A m \in DOMAIN op.goal :
                  Exempt(op, n).goal[m] = IF m = n THEN "any" ELSE op.goal[m]
  <2>1. PICK g : g = [m \in DOMAIN op.goal |-> IF m = n THEN "any" ELSE op.goal[m]]
    OBVIOUS
  <2>2. PICK new : new = [op EXCEPT !.goal = g]
    OBVIOUS
  <2>3. AsBefore(op, new) /\ new.goal = g
    BY <2>1, <2>2 DEF AsBefore, TabRequests
  <2>4. Exempt(op, n) = new
    BY <2>1, <2>2 DEF Exempt
  <2> QED BY <2>1, <2>3, <2>4
<1> QED BY <1>1, <1>2

LEMMA ExitsOnWay ==
  ASSUME TabInv, IntentInv, NEW k \in Object, Exits(k) PROVE IntentInv'
<1> SUFFICES ASSUME serial' PROVE IntentInv'
  BY DEF IntentInv
<1>1. /\ up /\ cont[k].st = "online" /\ k \in Created /\ serial
      /\ UNCHANGED <<procs, nextId, dump, boots, up>>
  BY DEF Exits, Created
<1>2. PICK s \in {"waiting", "stopped", "errored"}, told \in SUBSET Siblings(k) :
        \E job \in Jobs(told) : ExitWith(k, s, told, job)
  BY ExitIs
<1>3. PICK job \in Jobs(told) : ExitWith(k, s, told, job)
  BY <1>2
<1>4. told = {} \/ (Quiescent /\ \A i, j \in told : i = j)
  BY <1>3 DEF ExitWith
<1>5. PICK o \in Slots : /\ OnItsWay(Joining(job, o))
                         /\ Joining(job, o) \in TabRequests(Created)
                         /\ \A p \in Slots : p # o => Joining(job, p) = NoRequest
  BY <1>1, <1>4, JoinedOnWay
<1>6. PICK op \in TabRequests(Created) : op = Joining(job, o) /\ OnItsWay(op)
  BY <1>5
<1>7. PICK app \in Names : app = cont[k].name
  BY <1>1 DEF TabInv, ListTyped
<1>8. /\ cont' = [cont EXCEPT ![k].st = s]
      /\ meant' = IF s = "stopped" THEN [meant EXCEPT ![app] = "any"] ELSE meant
      /\ ops' = [p \in Slots |-> IF s = "stopped" THEN Exempt(Joining(job, p), app)
                                                 ELSE Joining(job, p)]
  BY <1>3, <1>7 DEF ExitWith
<1>9. PICK new : new = IF s = "stopped" THEN Exempt(op, app) ELSE op
  OBVIOUS
<1>10. ops'[o] = new /\ Alone(o)'
  <2>1. Exempt(NoRequest, app) = NoRequest
    BY ExemptIs
  <2>2. \A p \in Slots \ {o} : ops'[p] = NoRequest
    BY <1>5, <1>8, <2>1
  <2> QED BY <1>6, <1>8, <1>9, <2>2 DEF Alone
<1>11. OnItsWay(new)'
  <2>1. CASE s # "stopped"
    <3>1. UNCHANGED meant /\ new = op
      BY <1>8, <1>9, <2>1
    <3>2. Due(op)' = Due(op) /\ AsBefore(op, op)
      BY <3>1, DueStays DEF AsBefore
    <3>3. OnItsWay(op)'
      BY <1>1, <1>2, <1>6, <1>8, <2>1, <3>1, <3>2, ChildOnWay
    <3> QED BY <3>1, <3>3
  <2>2. CASE s = "stopped"
    <3>1. AsBefore(op, new)
      BY <1>9, <2>2, ExemptIs
    <3>2. \A m \in DOMAIN op.goal : new.goal[m] = IF m = app THEN "any" ELSE op.goal[m]
      BY <1>9, <2>2, ExemptIs
    <3>3. \A n \in Names : meant'[n] = IF n = app THEN "any" ELSE meant[n]
      BY <1>8, <2>2 DEF TabInv, RestTyped
    <3>4. \A n \in Names : Due(new)'[n] = IF n = app THEN "any" ELSE Due(op)[n]
      <4>1. \A n \in Names : Due(new)'[n] = IF n \in DOMAIN new.goal THEN new.goal[n]
                                            ELSE meant'[n]
        BY DEF Due, Answered
      <4> QED BY <3>1, <3>2, <3>3, <4>1, DueIs DEF AsBefore
    <3>5. /\ \A n \in Names : Due(new)'[n] \in {Due(op)[n], "any"}
          /\ \A n \in Names : meant'[n] \in {meant[n], "any"}
      BY <3>3, <3>4
    <3>6. Due(new)'[cont[k].name] = "any"
      BY <1>7, <3>4
    <3>7. /\ cont[k].st \notin {"launching", "stopping"} /\ s \notin {"launching", "stopping"}
          /\ UNCHANGED <<procs, nextId, dump, up>> /\ cont' = [cont EXCEPT ![k].st = s]
      BY <1>1, <1>8, <2>2
    <3>8. (cont[k].st = "stopped") = (s = "stopped") \/ Due(new)'[cont[k].name] = "any"
      BY <3>6
    <3> QED BY <1>1, <1>6, <3>1, <3>5, <3>7, <3>8, ChildOnWay
  <2> QED BY <2>1, <2>2
<1> QED BY <1>10, <1>11 DEF IntentInv

(* A sweep has seen nothing yet.                                              *)
LEMMA SweepBeginsOnWay ==
  ASSUME TabInv, IntentInv, NEW o \in Slots, Sweep(o) PROVE IntentInv'
<1>1. PICK w \in {"save", "clear", "exit"} :
        Request(o, [NoRequest EXCEPT !.rest = {NoObject},
                  !.then = IF w = "exit" THEN AfterShutdown ELSE w,
                  !.goal = CASE w = "save" -> Want({cont[k].name : k \in Listed}, "stop")
                             [] w = "clear" -> Want(Names, "absent")
                             [] OTHER -> Want({}, "")])
  BY DEF Sweep
<1>2. PICK goal : goal = CASE w = "save" -> Want({cont[k].name : k \in Listed}, "stop")
                           [] w = "clear" -> Want(Names, "absent")
                           [] OTHER -> Want({}, "")
  OBVIOUS
<1>3. PICK prog : prog = [NoRequest EXCEPT !.rest = {NoObject}, !.then = w, !.goal = goal]
  OBVIOUS
<1>4. Request(o, prog)
  <2>1. (IF w = "exit" THEN AfterShutdown ELSE w) = w
    BY DEF AfterShutdown
  <2> QED BY <1>1, <1>2, <1>3, <2>1
<1> SUFFICES ASSUME serial, Quiescent PROVE Proposed(prog)
  BY <1>4, RequestOnWay
<1>5. up /\ \A m \in Names : Honoured(m, meant[m])
  BY <1>4, AtEase DEF Request
<1>6. /\ prog.todo = <<>> /\ prog.then = w /\ prog.goal = goal
      /\ prog.rest = {NoObject} /\ prog.busy = NoObject /\ ~prog.saving
  BY <1>3 DEF NoRequest
<1>7. /\ StepsOf(prog) = {} /\ (\A do, k : ~Has(prog, do, k)) /\ \A n : ~Brings(prog, n)
  BY <1>6, NoStepLeft
<1>8. w = "save" => \A n \in Names : Due(prog)[n] = IF Of(n) # {} THEN "stop" ELSE meant[n]
  <2> SUFFICES ASSUME w = "save", NEW n \in Names
               PROVE  Due(prog)[n] = IF Of(n) # {} THEN "stop" ELSE meant[n]
    OBVIOUS
  <2>1. prog.goal = Want({cont[k].name : k \in Listed}, "stop")
    BY <1>2, <1>6
  <2> QED BY <2>1, DueOfListed
<1>9. w = "clear" => /\ DOMAIN prog.goal = Names
                     /\ \A n \in Names : Due(prog)[n] = "absent"
  <2> SUFFICES ASSUME w = "clear"
               PROVE  DOMAIN prog.goal = Names /\ \A n \in Names : Due(prog)[n] = "absent"
    OBVIOUS
  <2>1. goal = Want(Names, "absent")
    BY <1>2
  <2>2. DOMAIN goal = Names /\ \A n \in Names : goal[n] = "absent"
    BY <2>1 DEF Want
  <2> QED BY <1>6, <2>2, DueIs
<1>10. w = "exit" => DOMAIN prog.goal = {}
  <2> SUFFICES ASSUME w = "exit" PROVE DOMAIN prog.goal = {}
    OBVIOUS
  <2>1. goal = Want({}, "")
    BY <1>2
  <2> QED BY <1>6, <2>1 DEF Want
<1>11. GoalFits(prog)
  <2>1. \A k \in Listed : cont[k].name \in Names /\ Of(cont[k].name) # {}
    BY ListedTyped DEF Of, TabInv
  <2>2. w = "save" => \A k \in Listed : Due(prog)[cont[k].name] \in {"stop", "any"}
    BY <1>8, <2>1
  <2> QED BY <1>6, <1>7, <1>9, <1>10, <2>2 DEF GoalFits
<1>12. ASSUME NEW n \in Names, w = "save" PROVE Stands(prog, n)
  <2>1. CASE Of(n) = {}
    BY <1>5, <1>8, <1>12, <2>1, StandsAsMeant
  <2>2. CASE Of(n) # {}
    <3>1. \A k \in Of(n) : k \notin prog.rest
      BY <1>6 DEF Of, Listed
    <3> QED BY <1>6, <1>7, <1>8, <1>12, <2>2, <3>1 DEF Stands
  <2> QED BY <2>1, <2>2
<1> QED BY <1>5, <1>6, <1>11, <1>12, NewProposed

(* Resurrection: each entry of the dump is a step, and tells what is meant of *)
(* its name.                                                                  *)
LEMMA ItemsTell ==
  ASSUME TabInv, ~dump.intact => dump.entries = <<>>, NEW op, op.todo = Items
  PROVE  /\ \A s \in StepsOf(op) :
              /\ s.do = "item" /\ s \in TabSteps(Created)
              /\ [name |-> s.name, id |-> s.id, stopped |-> s.stopped] \in EntriesOf(dump.entries)
         /\ \A e \in EntriesOf(dump.entries) :
              \E s \in StepsOf(op) : s.do = "item" /\ s.id = e.id /\ s.name = e.name
<1>1. PICK q \in Seq(Entries) : q = dump.entries
  BY DEF TabInv, RestTyped
<1>2. DOMAIN q = 1 .. Len(q) /\ Len(q) \in Nat /\ \A i \in DOMAIN q : q[i] \in Entries
  BY <1>1, LenProperties, ElementOfSeq
<1>3. PICK t : t = op.todo
  OBVIOUS
<1>4. t = IF dump.intact
            THEN [i \in DOMAIN q |->
                   [Step("item", NoObject) EXCEPT !.name = q[i].name, !.id = q[i].id,
                                                  !.stopped = q[i].stopped]]
            ELSE <<>>
  BY <1>1, <1>3, Zenon DEF Items
<1>5. ASSUME NEW e \in Entries, NEW s,
             s = [Step("item", NoObject) EXCEPT !.name = e.name, !.id = e.id,
                                                !.stopped = e.stopped]
      PROVE  /\ s.do = "item" /\ s.name = e.name /\ s.id = e.id /\ s.stopped = e.stopped
             /\ s \in TabSteps(Created)
             /\ [name |-> s.name, id |-> s.id, stopped |-> s.stopped] = e
  <2>1. s.do = "item" /\ s.name = e.name /\ s.id = e.id /\ s.stopped = e.stopped
    BY <1>5 DEF Step
  <2>2. s \in TabSteps(Created)
    BY <1>5 DEF Step, TabSteps, Entries
  <2>3. e = [name |-> e.name, id |-> e.id, stopped |-> e.stopped]
    BY DEF Entries
  <2> QED BY <2>1, <2>2, <2>3
<1>6. DOMAIN t = DOMAIN q
  <2>1. CASE dump.intact
    BY <1>4, <2>1
  <2>2. CASE ~dump.intact
    BY <1>1, <1>4, <2>2
  <2> QED BY <2>1, <2>2
<1>7. \A i \in DOMAIN q : t[i] = [Step("item", NoObject) EXCEPT !.name = q[i].name,
                                    !.id = q[i].id, !.stopped = q[i].stopped]
  <2>1. CASE dump.intact
    BY <1>4, <2>1
  <2>2. CASE ~dump.intact
    <3>1. DOMAIN q = {}
      BY <1>1, <2>2
    <3> QED BY <3>1
  <2> QED BY <2>1, <2>2
<1>8. StepsOf(op) = {t[i] : i \in DOMAIN t} /\ EntriesOf(dump.entries) = {q[i] : i \in DOMAIN q}
  BY <1>1, <1>3 DEF StepsOf, EntriesOf
<1>9. ASSUME NEW i \in DOMAIN q
      PROVE  /\ t[i].do = "item" /\ t[i].name = q[i].name /\ t[i].id = q[i].id
             /\ t[i] \in TabSteps(Created)
             /\ [name |-> t[i].name, id |-> t[i].id, stopped |-> t[i].stopped] = q[i]
  <2>1. PICK e \in Entries : e = q[i]
    BY <1>2
  <2>2. PICK s : s = t[i]
    OBVIOUS
  <2>3. s = [Step("item", NoObject) EXCEPT !.name = e.name, !.id = e.id, !.stopped = e.stopped]
    BY <1>7, <2>1, <2>2
  <2>4. /\ s.do = "item" /\ s.name = e.name /\ s.id = e.id /\ s \in TabSteps(Created)
        /\ [name |-> s.name, id |-> s.id, stopped |-> s.stopped] = e
    BY <1>5, <2>3
  <2> QED BY <2>1, <2>2, <2>4
<1>10. ASSUME NEW s \in StepsOf(op)
       PROVE  /\ s.do = "item" /\ s \in TabSteps(Created)
              /\ [name |-> s.name, id |-> s.id, stopped |-> s.stopped] \in EntriesOf(dump.entries)
  <2>1. PICK i \in DOMAIN q : s = t[i]
    BY <1>6, <1>8
  <2>2. q[i] \in EntriesOf(dump.entries)
    BY <1>8
  <2> QED BY <1>9, <2>1, <2>2
<1>11. ASSUME NEW e \in EntriesOf(dump.entries)
       PROVE  \E s \in StepsOf(op) : s.do = "item" /\ s.id = e.id /\ s.name = e.name
  <2>1. PICK i \in DOMAIN q : e = q[i]
    BY <1>8
  <2>2. t[i] \in StepsOf(op)
    BY <1>6, <1>8
  <2> QED BY <1>9, <2>1, <2>2
<1> QED BY <1>10, <1>11

LEMMA ResurrectionProposed ==
  ASSUME TabInv, IntentInv, serial, Quiescent, NEW prog, prog = Resurrection
  PROVE  Proposed(prog)
<1>1. /\ Told(dump.entries, meant) /\ (~dump.intact => dump.entries = <<>>)
      /\ AnyGoes \/ Placed(dump.entries)
      /\ \A k \in Object : cont[k].st \notin {"launching", "stopping"}
      /\ up => \A n \in Names : Honoured(n, meant[n])
      /\ ~up => \A i \in Id : procs[i] = NoObject
  BY AtEase
<1>2. PICK items : items = Items
  OBVIOUS
<1>3. prog = [NoRequest EXCEPT !.todo = items, !.tolerant = TRUE, !.then = "quiet"]
  BY <1>2 DEF Resurrection
<1>4. /\ prog.todo = items /\ prog.then = "quiet" /\ DOMAIN prog.goal = {}
      /\ prog.rest = {} /\ prog.tolerant /\ prog.busy = NoObject /\ ~prog.saving
  BY <1>3 DEF NoRequest
<1>5. /\ \A s \in StepsOf(prog) :
           /\ s.do = "item" /\ s \in TabSteps(Created)
           /\ [name |-> s.name, id |-> s.id, stopped |-> s.stopped] \in EntriesOf(dump.entries)
      /\ \A e \in EntriesOf(dump.entries) :
           \E s \in StepsOf(prog) : s.do = "item" /\ s.id = e.id /\ s.name = e.name
  BY <1>1, <1>2, <1>4, ItemsTell
<1>6. \A n \in Names : Due(prog)[n] = meant[n]
  BY <1>4, DueIs
<1>7. GoalFits(prog)
  <2>1. ASSUME NEW s \in StepsOf(prog) PROVE StepFits(prog, s)
    BY <1>4, <1>5 DEF StepFits
  <2> QED BY <1>4, <1>5, <2>1 DEF GoalFits
<1>8. ASSUME NEW n \in Names PROVE Stands(prog, n)
  <2>1. CASE up
    <3>1. \A k : ~Has(prog, "remove", k)
      BY <1>5 DEF Has
    <3> QED BY <1>1, <1>6, <2>1, <3>1, StandsAsMeant
  <2>2. CASE ~up
    <3>1. Of(n) = {}
      BY <1>1, <2>2 DEF Of, Listed
    <3>2. meant[n] \in {"run", "stop"} => Brings(prog, n)
      <4> SUFFICES ASSUME meant[n] \in {"run", "stop"} PROVE Brings(prog, n)
        OBVIOUS
      <4>1. PICK e \in EntriesOf(dump.entries) : e.name = n
        BY <1>1 DEF Told
      <4> QED BY <1>5, <4>1 DEF Brings
    <3> QED BY <1>6, <3>1, <3>2 DEF Stands
  <2> QED BY <2>1, <2>2
<1> QED BY <1>1, <1>4, <1>5, <1>7, <1>8 DEF Proposed

LEMMA ResurrectOnWay ==
  ASSUME TabInv, IntentInv, NEW o \in Slots, Resurrect(o) PROVE IntentInv'
BY ResurrectionProposed, RequestOnWay DEF Resurrect

(* The next daemon resurrects what the last one has left on disk.             *)
LEMMA BootOnWay ==
  ASSUME TabInv, IntentInv, Boot PROVE IntentInv'
<1>1. /\ ~up /\ serial /\ up' /\ ops' = [ops EXCEPT ![1] = Resurrection]
      /\ UNCHANGED <<procs, cont, nextId, dump, meant>>
  BY DEF Boot
<1>2. Quiescent
  <2>1. PICK o \in Slots : OnItsWay(ops[o]) /\ \A p \in Slots : p # o => ops[p] = NoRequest
    BY <1>1, SomeRequest
  <2>2. ops[o] = NoRequest
    BY <1>1, <2>1 DEF OnItsWay
  <2> QED BY <2>1, <2>2 DEF Quiescent
<1>3. PICK prog : prog = Resurrection
  OBVIOUS
<1>4. OnItsWay(prog)'
  <2>1. Proposed(prog)
    BY <1>1, <1>2, <1>3, ResurrectionProposed
  <2> QED BY <1>1, <2>1, ProposedOnWay
<1>5. 1 \in Slots /\ Alone(1)
  BY <1>2, TableAssumption DEF Quiescent, Alone
<1> QED BY <1>1, <1>3, <1>4, <1>5, SlotTakes DEF TabInv

(* The steps of the request in hand keep it on its way.                       *)
LEMMA InHandOnWay ==
  ASSUME TabInv, IntentInv, NEW o \in Slots, ops[o] # NoRequest,
         \/ StepBegins(o) \/ StartReturns(o) \/ StopReturns(o) \/ SweepNext(o)
         \/ SaveBegins(o) \/ SaveEnds(o) \/ RequestEnds(o)
  PROVE  IntentInv'
<1> SUFFICES ASSUME serial' PROVE IntentInv'
  BY DEF IntentInv
<1>1. serial
  BY DEF StepBegins, StartReturns, StopReturns, SweepNext, SaveBegins, SaveEnds, RequestEnds
<1>2. Alone(o) /\ \E op \in {ops[o]} : OnItsWay(op)
  BY <1>1, InHand
<1>3. PICK op \in {ops[o]} : OnItsWay(op)
  BY <1>2
<1>4. StepBegins(o) => ResumeBegins(o) \/ CreateBegins(o) \/ StopBegins(o) \/ PlaceItem(o)
  BY DEF StepBegins
<1>5. \E new : ops' = [ops EXCEPT ![o] = new] /\ OnItsWay(new)'
  <2>1. CASE StepBegins(o) /\ ResumeBegins(o)
    BY <1>3, <2>1, ResumeOnWay
  <2>2. CASE StepBegins(o) /\ CreateBegins(o)
    BY <1>3, <2>2, CreateOnWay
  <2>3. CASE StepBegins(o) /\ StopBegins(o)
    BY <1>3, <2>3, StopOnWay
  <2>4. CASE StepBegins(o) /\ PlaceItem(o)
    BY <1>3, <2>4, PlaceOnWay
  <2>5. CASE StartReturns(o)
    BY <1>3, <2>5, StartReturnsOnWay
  <2>6. CASE StopReturns(o)
    BY <1>3, <2>6, StopReturnsOnWay
  <2>7. CASE SweepNext(o)
    BY <1>3, <2>7, SweepOnWay
  <2>8. CASE SaveBegins(o)
    BY <1>3, <2>8, SaveBeginsOnWay
  <2>9. CASE SaveEnds(o)
    BY <1>3, <2>9, SaveEndsOnWay
  <2>10. CASE RequestEnds(o)
    BY <1>3, <2>10, EndOnWay
  <2> QED BY <1>4, <2>1, <2>2, <2>3, <2>4, <2>5, <2>6, <2>7, <2>8, <2>9, <2>10
<1>6. PICK new : ops' = [ops EXCEPT ![o] = new] /\ OnItsWay(new)'
  BY <1>5
<1> QED BY <1>2, <1>6, SlotTakes DEF TabInv

(* A step is of a request there is.                                           *)
LEMMA StepOfSome ==
  ASSUME NEW o \in Slots,
         \/ StepBegins(o) \/ StartReturns(o) \/ StopReturns(o) \/ SweepNext(o)
         \/ SaveBegins(o) \/ SaveEnds(o) \/ RequestEnds(o)
  PROVE  ops[o] # NoRequest
<1>1. \/ ops[o].todo # <<>> \/ ops[o].busy # NoObject \/ ops[o].rest # {} \/ ops[o].saving
      \/ ops[o] # NoRequest
  BY DEF StepBegins, StartReturns, StopReturns, SweepNext, SaveBegins, SaveEnds, RequestEnds, Done
<1> QED BY <1>1, NothingToDo

LEMMA IntentInitInv ==
  ASSUME TabInit PROVE IntentInv
<1>1. TabInv
  BY TabInitInv
<1>2. /\ procs = [i \in Id |-> NoObject] /\ cont = [k \in Object |-> Blank]
      /\ ops = [o \in Slots |-> NoRequest] /\ up /\ dump = [entries |-> <<>>, intact |-> TRUE]
      /\ meant = [n \in Names |-> "absent"]
  BY DEF TabInit
<1>3. EntriesOf(dump.entries) = {} /\ dump.intact
  BY <1>2 DEF EntriesOf
<1>4. \A n : Of(n) = {}
  BY <1>2 DEF Of, Listed
<1>5. DumpTells(NoRequest)
  <2>1. \A n \in Names : meant[n] = "absent"
    BY <1>2
  <2>2. Told(dump.entries, meant) /\ Placed(dump.entries)
    BY <1>3, <2>1 DEF Told, Placed
  <2> QED BY <1>3, <2>2 DEF DumpTells, InPlace
<1>6. MovesAwaited(NoRequest)
  BY <1>2, NothingToDo DEF MovesAwaited, Blank
<1>7. GoalFits(NoRequest) /\ SaveTells(NoRequest)
  BY NothingToDo DEF GoalFits, SaveTells
<1>8. ListStands(NoRequest)
  <2>1. \A n \in Names : Due(NoRequest)[n] = "absent"
    BY <1>2, NothingToDo
  <2> QED BY <1>4, <2>1 DEF ListStands, Stands
<1>9. OnItsWay(NoRequest)
  BY <1>2, <1>5, <1>6, <1>7, <1>8 DEF OnItsWay
<1>10. 1 \in Slots /\ \A o \in Slots : ops[o] = NoRequest
  BY <1>2, TableAssumption
<1> QED BY <1>9, <1>10 DEF IntentInv, Alone

(* A step that changes nothing.                                               *)
LEMMA SameOnWay ==
  ASSUME NEW op, OnItsWay(op), UNCHANGED <<procs, cont, nextId, dump, up, meant>>
  PROVE  OnItsWay(op)'
<1>1. /\ GoalFits(op)' /\ Due(op)' = Due(op)
      /\ Listed' = Listed /\ \A n : Of(n)' = Of(n)
      /\ \A n \in Names : Stands(op, n) => Stands(op, n)'
  BY NothingMoves DEF OnItsWay
<1>2. DumpTells(op)'
  <2>1. Placed(dump.entries)' = Placed(dump.entries) /\ AnyGoes' = AnyGoes
    BY DEF Placed, AnyGoes
  <2> QED BY <2>1 DEF OnItsWay, DumpTells, InPlace
<1>3. MovesAwaited(op)'
  BY <1>1 DEF OnItsWay, MovesAwaited
<1>4. ListStands(op)'
  BY <1>1 DEF OnItsWay, ListStands
<1>5. SaveTells(op)'
  BY <1>1 DEF OnItsWay, SaveTells, Placed
<1> QED BY <1>1, <1>2, <1>3, <1>4, <1>5 DEF OnItsWay

LEMMA IntentInvInductive ==
  ASSUME TabInv, IntentInv, [TabNext]_tabVars PROVE IntentInv'
<1>1. ASSUME NEW o \in Slots,
             StartScript(o) \/ ScaleDown(o) \/ StartAll(o) \/ StopOne(o) \/ Delete(o)
             \/ Sweep(o) \/ Resurrect(o)
      PROVE  IntentInv'
  BY <1>1, StartScriptOnWay, ScaleDownOnWay, StartAllOnWay, StopOrDeleteOnWay,
     SweepBeginsOnWay, ResurrectOnWay
<1>2. ASSUME NEW o \in Slots,
             \/ StepBegins(o) \/ StartReturns(o) \/ StopReturns(o) \/ SweepNext(o)
             \/ SaveBegins(o) \/ SaveEnds(o) \/ RequestEnds(o)
      PROVE  IntentInv'
  <2>1. ops[o] # NoRequest
    BY <1>2, StepOfSome
  <2> QED BY <1>2, <2>1, InHandOnWay
<1>3. CASE \E k \in Object : Exits(k) \/ CrashRestart(k)
  BY <1>3, ExitsOnWay, CrashRestartOnWay
<1>4. CASE DaemonExits \/ DaemonCrashes
  <2>1. up /\ Gone
    BY <1>4 DEF DaemonExits, DaemonCrashes, Done
  <2> QED BY <2>1, GoneOnWay
<1>5. CASE Boot
  BY <1>5, BootOnWay
<1>6. CASE UNCHANGED tabVars
  <2> SUFFICES ASSUME serial' PROVE IntentInv'
    BY DEF IntentInv
  <2>1. PICK o \in Slots : Alone(o) /\ OnItsWay(ops[o])
    BY <1>6, SomeRequest DEF tabVars
  <2>2. PICK op : op = ops[o]
    OBVIOUS
  <2>3. OnItsWay(op)'
    BY <1>6, <2>1, <2>2, SameOnWay DEF tabVars
  <2>4. Alone(o)' /\ ops'[o] = op
    BY <1>6, <2>1, <2>2 DEF tabVars, Alone
  <2> QED BY <2>3, <2>4 DEF IntentInv
<1> QED BY <1>1, <1>2, <1>3, <1>4, <1>5, <1>6 DEF TabNext

LEMMA IntentInvAlways == TabSpec => []IntentInv
<1>1. TabInit => IntentInv
  BY IntentInitInv
<1>2. TabInv /\ IntentInv /\ [TabNext]_tabVars => IntentInv'
  BY IntentInvInductive
<1> QED BY <1>1, <1>2, TabInvAlways, PTL DEF TabSpec

(* Whatever was asked, however often daemons ended and at which step of what: *)
(* a daemon with nothing left to do lists what the completed requests meant.  *)
THEOREM RebootAlwaysRestoresIntent == TabSpec => []RebootRestoresIntent
<1>1. TabInv /\ IntentInv => RebootRestoresIntent
  <2> SUFFICES ASSUME TabInv, IntentInv, up, Quiescent, serial, NEW n \in Names
               PROVE  /\ meant[n] = "run" => \E k \in Of(n) : cont[k].st # "stopped"
                      /\ meant[n] = "stop" =>
                           Of(n) # {} /\ \A k \in Of(n) : cont[k].st = "stopped"
                      /\ meant[n] = "absent" => Of(n) = {}
    BY DEF RebootRestoresIntent
  <2>1. Honoured(n, meant[n])
    BY AtEase
  <2> QED BY <2>1 DEF Honoured
<1> QED BY <1>1, TabInvAlways, IntentInvAlways, PTL
===============================================================================
