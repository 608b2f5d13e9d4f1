---------------------------- MODULE DependencyPlan ----------------------------
(***************************************************************************)
(* The decisions of src/src/dependencies.ts, one question a behaviour:     *)
(* in which order the dependencies of a process start, in which order an   *)
(* ecosystem starts, whom a stop or a delete leaves without a provider,    *)
(* and whether one dependency is satisfied.  The algorithms are the code's *)
(* (a colouring depth-first search, Kahn's levels); the properties compare *)
(* them with definitions that search nothing.                              *)
(*                                                                         *)
(* A name of a graph is a number.  Where the spelling of a name decides,   *)
(* it is a pair <<stem, tail>>: <<"api", "0">> is the cluster instance     *)
(* "api-0", <<"api", "gw">> the other process "api-gw", <<"api", "">> the  *)
(* name "api" itself.                                                      *)
(***************************************************************************)
EXTENDS Naturals, Sequences, FiniteSets, FiniteSetsExt, SequencesExt

CONSTANTS Nodes,        \* names of a process graph, numbers; 1 is started
          MaxDeps,      \* dependencies a process of that graph declares
          Shared,       \* names of that graph that two processes match
          Apps,         \* names of an ecosystem, numbers in declaration order
          Groups,       \* its namespaces; one may be spelt as an app is
          Stems         \* first halves of the names others depend on

VARIABLES question, answer
planVars == <<question, answer>>

Sorted(S) == SetToSortSeq(S, LAMBDA x, y : x < y)
NoQuestion == [kind |-> "none"]

-----------------------------------------------------------------------------
(* DependencyGraph.  graph[n] is the set of names n declares; DOMAIN graph  *)
(* is nodes, visited in the order of the numbers.  declared[n] is what the  *)
(* processes that match n declare, in the order of their ids.               *)

(* findCycle.visit: path is gray, black is finished; cycle # <<>> is found  *)
RECURSIVE Visit(_, _, _)
Visit(graph, path, black) ==
  LET name == path[Len(path)]
      Edge(found, dep) ==
        IF found.cycle # <<>> \/ dep \notin DOMAIN graph \/ dep \in found.black THEN found
        ELSE IF \E i \in DOMAIN path : path[i] = dep
             THEN LET from == CHOOSE i \in DOMAIN path : path[i] = dep
                  IN [found EXCEPT !.cycle = Append(SubSeq(path, from, Len(path)), dep)]
             ELSE Visit(graph, Append(path, dep), found.black)
      left == FoldLeft(Edge, [cycle |-> <<>>, black |-> black], Sorted(graph[name]))
  IN IF left.cycle # <<>> THEN left ELSE [left EXCEPT !.black = @ \cup {name}]

FindCycle(graph) ==
  FoldLeft(LAMBDA found, n : IF found.cycle # <<>> \/ n \in found.black THEN found
                             ELSE Visit(graph, <<n>>, found.black),
           [cycle |-> <<>>, black |-> {}], Sorted(DOMAIN graph)).cycle

(* The edges that count: between names that take part, exclude left out     *)
CountedEdges(graph, names, n) == graph[n] \cap names

(* levels(exclude): the frontier is what no unemitted name holds back       *)
RECURSIVE Peel(_, _, _)
Peel(graph, names, emitted) ==
  LET rest == names \ emitted
      frontier == {n \in rest : CountedEdges(graph, names, n) \subseteq emitted}
  IN IF rest = {} THEN <<>>
     ELSE IF frontier = {} THEN <<rest>>
     ELSE <<frontier>> \o Peel(graph, names, emitted \cup frontier)

Levels(graph, exclude) == Peel(graph, DOMAIN graph \ {exclude}, {})

(* What a name stands for in the graph: containers[0].config.dependsOn      *)
OwnDeps(declared, n) == declared[n][1]

(* buildGraph: the root's dependencies, theirs, and so on                   *)
RECURSIVE Walk(_, _)
Walk(declared, seen) ==
  LET more == UNION {OwnDeps(declared, n) : n \in seen} \ seen
  IN IF more = {} THEN seen ELSE Walk(declared, seen \cup more)

BuildGraph(declared, root) == [n \in Walk(declared, {root}) |-> OwnDeps(declared, n)]

(* ensureForStart up to the first lifecycle call                            *)
EnsureForStart(declared, root) ==
  LET graph == BuildGraph(declared, root)
      cycle == FindCycle(graph)
  IN [cycle |-> cycle, levels |-> IF cycle = <<>> THEN Levels(graph, root) ELSE <<>>]

-----------------------------------------------------------------------------
(* planEcosystemUnits: apps[n] = [ns, deps]; ns = 0 for an app of its own.   *)
(* Units are told apart by identity, but the edges between them by key, the *)
(* name of the namespace or of the app.                                     *)

UnitOf(apps, n) ==
  IF apps[n].ns = 0 THEN [key |-> n, alone |-> TRUE] ELSE [key |-> apps[n].ns, alone |-> FALSE]
UnitsOf(apps) == {UnitOf(apps, n) : n \in DOMAIN apps}
MembersOf(apps, unit) == {n \in DOMAIN apps : UnitOf(apps, n) = unit}
KeyOf(apps, n) == UnitOf(apps, n).key

NameGraph(apps) == [n \in DOMAIN apps |-> apps[n].deps]

\* mutant
ForwardUnits(apps) ==
  [k \in {KeyOf(apps, n) : n \in DOMAIN apps} |->
     {KeyOf(apps, n) : n \in {m \in DOMAIN apps : \E d \in apps[m].deps \cap DOMAIN apps :
                                                    KeyOf(apps, d) = k}} \ {k}]

(* addEdge: from = to is no edge, an external name has none                 *)
UnitGraph(apps) ==
  [k \in {KeyOf(apps, n) : n \in DOMAIN apps} |->
     {KeyOf(apps, d) : d \in UNION {apps[n].deps \cap DOMAIN apps :
                                      n \in {m \in DOMAIN apps : KeyOf(apps, m) = k}}} \ {k}]

(* The units, frontier by frontier.  The first frontier takes every unit of *)
(* its keys; a key that is unlocked later finds the first unit declared     *)
(* under it, and a second one is appended at the end.  Within a frontier the*)
(* code keeps the order in which edges were unlocked; here that of the      *)
(* declaration, which the order allows.                                     *)
Declared(apps, unit) == Min(MembersOf(apps, unit))

InOrder(apps) ==
  LET levels == Peel(UnitGraph(apps), {KeyOf(apps, n) : n \in DOMAIN apps}, {})
      Level(u) == CHOOSE i \in DOMAIN levels : u.key \in levels[i]
      Finds(u) == \A v \in UnitsOf(apps) : v.key = u.key => Declared(apps, u) <= Declared(apps, v)
      Frontier(u) == IF Level(u) = 1 \/ Finds(u) THEN Level(u) ELSE Len(levels) + 1
  IN SetToSortSeq(UnitsOf(apps),
                  LAMBDA u, v : \/ Frontier(u) < Frontier(v)
                                \/ /\ Frontier(u) = Frontier(v)
                                   /\ Declared(apps, u) < Declared(apps, v))

OrderMembers(apps, unit) ==
  FoldLeft(LAMBDA out, level : out \o Sorted(level), <<>>,
           Peel([n \in DOMAIN apps |-> apps[n].deps \ {n}], MembersOf(apps, unit), {}))

PlanEcosystem(apps) ==
  LET names == FindCycle(NameGraph(apps))
      cycle == IF names # <<>> THEN names ELSE FindCycle(UnitGraph(apps))
  IN [cycle |-> cycle,
      order |-> IF cycle # <<>> THEN <<>>
                ELSE FoldLeft(LAMBDA out, u : out \o OrderMembers(apps, u), <<>>, InOrder(apps))]

-----------------------------------------------------------------------------
(* Names, providers and the safety lookups                                  *)

Digits == {"0", "1"}
Providers == Stems \X (Digits \cup {"", "gw"})
ClusterBase(name) == IF name[2] \in Digits THEN <<name[1], "">> ELSE name
StartsWith(name, dep) == dep[2] = "" /\ name[1] = dep[1] /\ name[2] # ""
DepMatches(dep, name) == dep = name \/ StartsWith(name, dep) \/ ClusterBase(name) = dep

ContainersFor(live, dep) ==
  {c \in live : c = dep \/ StartsWith(c, dep) \/ c = ClusterBase(dep)}

(* dependentHits of one dependent: the first declared dependency that a     *)
(* victim matches; the loop breaks there                                    *)
Hits(deps, victims) ==
  {i \in DOMAIN deps : /\ \E v \in victims : DepMatches(deps[i], v)
                       /\ \A j \in 1..(i - 1) : ~\E v \in victims : DepMatches(deps[j], v)}

(* stopAffected                                                             *)
StopAffected(q) ==
  \E i \in Hits(q.deps, q.victims) :
    LET providers == ContainersFor(q.live, q.deps[i])
    IN providers \cap q.victims \cap q.up # {} /\ (providers \ q.victims) \cap q.up = {}

(* deleteAffected: what is down still provides                              *)
DeleteAffected(q) ==
  \E i \in Hits(q.deps, q.victims) :
    LET providers == ContainersFor(q.live, q.deps[i])
    IN providers # {} /\ providers \subseteq q.victims

-----------------------------------------------------------------------------
(* One dependency, on this host: the processes that match it (each running, *)
(* stopped, or stopped and not able to start), or else a systemd unit.      *)

ActiveStates == {"active", "reloading", "activating", "failed", "inactive",
                 "deactivating", "maintenance"}
MapActiveState(active) ==
  CASE active \in {"active", "reloading"} -> "active"
    [] active \in {"activating", "failed"} -> active
    [] active \in {"inactive", "deactivating"} -> "inactive"
    [] OTHER -> "unknown"

(* resolve: the first candidate unit that systemd has loaded                *)
Resolve(units) ==
  LET loaded == {i \in DOMAIN units : units[i] # "not-found"}
  IN IF loaded = {} THEN "missing"
     ELSE MapActiveState(units[CHOOSE i \in loaded : \A j \in loaded : i <= j])

External(d) == IF d.systemd THEN Resolve(d.units) ELSE "missing"

(* resolveOne, as pboss deps shows it                                       *)
ResolveOne(d) ==
  IF d.members # <<>>
  THEN LET ok == \A i \in DOMAIN d.members : d.members[i] = "up"
       IN [satisfied |-> ok, reason |-> IF ok THEN "" ELSE "dependency_not_running"]
  ELSE LET state == External(d)
       IN [satisfied |-> state = "active",
           reason |-> CASE state = "active" -> ""
                        [] state = "missing" -> "dependency_not_found"
                        [] OTHER -> "dependency_not_running"]

(* satisfy: members are started in turn; a required one that does not start *)
(* ends it, an optional one is passed over                                  *)
Satisfy(d) ==
  LET broken == {i \in DOMAIN d.members : d.members[i] = "broken"}
      reached == IF d.required /\ broken # {}
                 THEN 1..((CHOOSE i \in broken : \A j \in broken : i <= j) - 1)
                 ELSE DOMAIN d.members
      state == External(d)
  IN IF d.members # <<>>
     THEN [started |-> {i \in reached : d.members[i] = "down"},
           fails |-> IF d.required /\ broken # {} THEN "dependency_failed_to_start" ELSE ""]
     ELSE [started |-> {},
           fails |-> CASE state = "active" \/ ~d.required -> ""
                       [] state = "missing" /\ d.required -> "dependency_not_found"
                       [] OTHER -> "dependency_not_running"]

-----------------------------------------------------------------------------
(* The questions                                                            *)

Few(S, n) == {T \in SUBSET S : Cardinality(T) <= n}

PlanInit == question = NoQuestion /\ answer = NoQuestion

AskStart ==
  \E first \in [Nodes -> Few(Nodes, MaxDeps)], second \in [Shared -> Few(Nodes, 1)] :
    LET declared == [n \in Nodes |-> IF n \in Shared THEN <<first[n], second[n]>>
                                     ELSE <<first[n]>>]
    IN /\ question' = [kind |-> "start", declared |-> declared]
       /\ answer' = EnsureForStart(declared, 1)

AskEcosystem ==
  \E ns \in [Apps -> Groups \cup {0}], deps \in [Apps -> SUBSET Apps] :
    LET apps == [n \in Apps |-> [ns |-> ns[n], deps |-> deps[n]]]
    IN /\ question' = [kind |-> "ecosystem", apps |-> apps]
       /\ answer' = PlanEcosystem(apps)

AskRemoval ==
  \E live \in SUBSET Providers, deps \in SeqOf(Providers, 2) :
    \E up \in SUBSET live, victims \in SUBSET live :
      LET q == [kind |-> "removal", live |-> live, up |-> up, victims |-> victims, deps |-> deps]
      IN question' = q /\ answer' = [stop |-> StopAffected(q), delete |-> DeleteAffected(q)]

AskOne ==
  \E members \in SeqOf({"up", "down", "broken"}, 2), required, systemd \in BOOLEAN,
     units \in [1..2 -> ActiveStates \cup {"not-found"}] :
    LET d == [kind |-> "one", members |-> members, required |-> required,
              systemd |-> systemd, units |-> units]
    IN question' = d /\ answer' = [report |-> ResolveOne(d), start |-> Satisfy(d)]

PlanNext == question = NoQuestion /\ (AskStart \/ AskEcosystem \/ AskRemoval \/ AskOne)

PlanSpec == PlanInit /\ [][PlanNext]_planVars

(* Type invariant: a question is answered in the step that asks it.         *)
PlanTypeOK ==
  /\ question.kind \in {"none", "start", "ecosystem", "removal", "one"}
  /\ question.kind = "start" => answer.cycle \in Seq(Nodes) /\ answer.levels \in Seq(SUBSET Nodes)
  /\ question.kind = "ecosystem" => answer.order \in Seq(Apps)
  /\ question.kind = "removal" => answer \in [stop : BOOLEAN, delete : BOOLEAN]

-----------------------------------------------------------------------------
(* S can be emptied by taking away, each time, something that declares      *)
(* nothing of what is left                                                  *)
Orderable(graph) ==
  \A S \in SUBSET DOMAIN graph : S # {} => \E n \in S : graph[n] \cap S = {}

(* ensureForStart refuses exactly the graphs no order exists for, naming a  *)
(* real circle; otherwise every dependency is reached once, after all it    *)
(* depends on and no later than that allows (levels run concurrently).      *)
StartsInOrder ==
  question.kind = "start" =>
    LET graph == BuildGraph(question.declared, 1)
        level == answer.levels
        circle == answer.cycle
    IN IF Orderable(graph)
       THEN /\ circle = <<>>
            /\ \A n \in DOMAIN graph \ {1} :
                 \E k \in DOMAIN level :
                   /\ n \in level[k]
                   /\ \A j \in DOMAIN level : n \in level[j] => j = k
                   /\ graph[n] \subseteq UNION {level[j] : j \in 1..(k - 1)}
                   /\ k > 1 => graph[n] \cap level[k - 1] # {}
       ELSE /\ Len(circle) > 1 /\ circle[1] = circle[Len(circle)]
            /\ \A i \in 1..(Len(circle) - 1) : circle[i + 1] \in graph[circle[i]]

(* An ecosystem is refused exactly when no order of its apps puts every     *)
(* dependency first and keeps every namespace together; else the plan is    *)
(* such an order.  No app of its own may be spelt as a namespace: the next  *)
(* property shows what becomes of those.                                    *)
Proper(apps, order) ==
  /\ \A i, j \in DOMAIN order : order[j] \in apps[order[i]].deps => j < i
  /\ \A i, j, k \in DOMAIN order :
       i < j /\ j < k /\ UnitOf(apps, order[i]) = UnitOf(apps, order[k]) =>
         UnitOf(apps, order[j]) = UnitOf(apps, order[i])

PlannedRight(apps, plan) ==
  LET orders == SetToSeqs(DOMAIN apps)
  IN IF plan.cycle = <<>> THEN plan.order \in orders /\ Proper(apps, plan.order)
     ELSE ~\E order \in orders : Proper(apps, order)

KeysApart(apps) == \A u, v \in UnitsOf(apps) : u.key = v.key => u = v

EcosystemInOrder ==
  question.kind = "ecosystem" /\ KeysApart(question.apps) =>
    PlannedRight(question.apps, answer)

(* "Unit U depends on unit V when a member of U depends on a name belonging *)
(* to V" (dependencies.ts): so every dependency comes first, whatever the   *)
(* units are called.                                                        *)
AnyEcosystemInOrder == question.kind = "ecosystem" => PlannedRight(question.apps, answer)

(* "Walking each dependency's own dependsOn": what a start brings up for a  *)
(* name, each process that matches it, comes after all that this process    *)
(* declares, the one that is started and others of its own name apart.      *)
EveryProcessInOrder ==
  question.kind = "start" /\ answer.cycle = <<>> =>
    \A k \in DOMAIN answer.levels : \A n \in answer.levels[k] :
      \A i \in DOMAIN question.declared[n] :
        question.declared[n][i] \ {1, n} \subseteq UNION {answer.levels[j] : j \in 1..(k - 1)}

(* A stop warns only of a dependency whose last running provider it takes,  *)
(* a delete is refused only for one that would have none left; and a        *)
(* dependent that declares one plain name is never passed over.             *)
LastLost(q, dep) == LET p == ContainersFor(q.live, dep)
                IN p \cap q.up # {} /\ p \cap q.up \subseteq q.victims
AllGone(q, dep) == LET p == ContainersFor(q.live, dep) IN p # {} /\ p \subseteq q.victims

RemovalIsJudged ==
  question.kind = "removal" =>
    LET single == Len(question.deps) = 1 /\ question.deps[1][2] = ""
        Some(Bad(_, _)) == \E i \in DOMAIN question.deps : Bad(question, question.deps[i])
    IN /\ answer.stop => Some(LastLost)
       /\ answer.delete => Some(AllGone)
       /\ single => (Some(LastLost) => answer.stop) /\ (Some(AllGone) => answer.delete)

(* What pboss deps reports and what a start does agree: a dependency that   *)
(* is reported satisfied costs no start and no failure, and one that no     *)
(* process provides fails for the reported reason.                          *)
ReportMatchesStart ==
  question.kind = "one" =>
    /\ answer.report.satisfied => answer.start = [started |-> {}, fails |-> ""]
    /\ question.members = <<>> /\ question.required => answer.start.fails = answer.report.reason

(* The answers of the dependency engine agree with the graph they are about. *)
PlanIsSound == StartsInOrder /\ EcosystemInOrder /\ RemovalIsJudged /\ ReportMatchesStart
=============================================================================
