---------------------------- MODULE ClusterWrapper ----------------------------
(***************************************************************************)
(* The node:cluster primary of src/src/node-cluster.ts: one wrapper        *)
(* process forks Total workers, replaces those that die, rolls them over   *)
(* on SIGHUP (which graceful-reload.ts sends) and takes them down on       *)
(* SIGTERM.                                                                *)
(*                                                                         *)
(* Worker w is the w-th fork (cluster's worker.id).  A worker has an       *)
(* operating system process, owner[w] is its entry of appIndex, and        *)
(* isDead() turns true together with the removal of that entry, both in    *)
(* the 'exit' event.  The event may come after the process is gone, or,    *)
(* for a disconnected worker, before it.  MaxForks bounds the forks; the   *)
(* fork-rate breaker is a choice that sends a replacement to its timer.    *)
(***************************************************************************)
EXTENDS Naturals, FiniteSets

CONSTANTS Total, MaxForks

ASSUME ClusterAssumption == Total \in Nat \ {0} /\ MaxForks \in Nat /\ MaxForks >= Total

VARIABLES forks, owner, process, listened, parted, retiring, respawns, polls,
          roll, stopping, wrapper
wrapVars == <<forks, owner, process, listened, parted, retiring, respawns, polls,
              roll, stopping, wrapper>>

Workers == 1 .. MaxForks
Indices == 0 .. Total - 1
Unowned == Total
NoRoll == [at |-> "idle", olds |-> {}, old |-> 0, index |-> Unowned]

WrapTypeOK ==
  /\ forks \in 0 .. MaxForks
  /\ owner \in [Workers -> Indices \cup {Unowned}]
  /\ process \in [Workers -> {"none", "alive", "dead"}]
  /\ listened \subseteq Workers /\ parted \subseteq Workers /\ retiring \subseteq Workers
  /\ respawns \in [Indices -> Nat]
  /\ polls \subseteq Indices \X Workers
  /\ roll \in [at : {"idle", "turn", "online", "stagger"}, olds : SUBSET Workers,
               old : Workers \cup {0}, index : Indices \cup {Unowned}]
  /\ stopping \in BOOLEAN /\ wrapper \in {"up", "gone"}

WrapInit ==
  /\ forks = Total
  /\ owner = [w \in Workers |-> IF w <= Total THEN w - 1 ELSE Unowned]
  /\ process = [w \in Workers |-> IF w <= Total THEN "alive" ELSE "none"]
  /\ listened = {} /\ parted = {} /\ retiring = {}
  /\ respawns = [i \in Indices |-> 0]
  /\ polls = {}
  /\ roll = NoRoll
  /\ stopping = FALSE /\ wrapper = "up"

Running(w) == process[w] = "alive"
InApp(w) == owner[w] # Unowned        \* the entry in appIndex; ~isDead()
WrapUp == wrapper = "up"

(* forkWorker: from own, the appIndex the caller leaves *)
Forked(i, own) ==
  /\ forks < MaxForks
  /\ forks' = forks + 1
  /\ owner' = [own EXCEPT ![forks + 1] = i]
  /\ process' = [process EXCEPT ![forks + 1] = "alive"]

Unforked(own) == owner' = own /\ UNCHANGED <<forks, process>>

(* respawnLater *)
RespawnLater(i) == respawns' = [respawns EXCEPT ![i] = @ + 1]

(* The app of a worker: it listens, it dies. *)
Listens(w) ==
  /\ WrapUp /\ Running(w) /\ InApp(w) /\ w \notin listened
  /\ listened' = listened \cup {w}
  /\ UNCHANGED <<forks, owner, process, parted, retiring, respawns, polls, roll, stopping,
                 wrapper>>

Dies(w) ==
  /\ Running(w)
  /\ process' = [process EXCEPT ![w] = "dead"]
  /\ UNCHANGED <<forks, owner, listened, parted, retiring, respawns, polls, roll, stopping,
                 wrapper>>

(* replaceWorker: a poll while the pid lives, a timer if the breaker trips *)
Replace(i, w, own) ==
  \/ /\ Running(w)
     /\ polls' = polls \cup {<<i, w>>}
     /\ Unforked(own) /\ UNCHANGED respawns
  \/ /\ ~Running(w)
     /\ polls' = polls \ {<<i, w>>}
     /\ \/ Forked(i, own) /\ UNCHANGED respawns
        \/ Unforked(own) /\ RespawnLater(i)

RetiredIndex(w) == \E v \in retiring : owner[v] = owner[w]      \* mutant

(* retiring is kept by worker id *)
Retired(w) == w \in retiring

(* cluster.on("exit"); killWorkersHard when the last one leaves *)
ExitEvent(w) ==
  LET i == owner[w]
      own == [owner EXCEPT ![w] = Unowned]
      last == \A v \in Workers : own[v] = Unowned
  IN
  /\ WrapUp /\ InApp(w)
  /\ process[w] = "dead" \/ w \in parted
  /\ listened' = listened \ {w}
  /\ \/ /\ stopping
        /\ owner' = own
        /\ process' = [v \in Workers |-> IF last /\ Running(v) THEN "dead" ELSE process[v]]
        /\ wrapper' = IF last THEN "gone" ELSE wrapper
        /\ UNCHANGED <<forks, retiring, respawns, polls>>
     \/ /\ ~stopping /\ Retired(w)
        /\ retiring' = retiring \ {w}
        /\ Unforked(own) /\ UNCHANGED <<respawns, polls, wrapper>>
     \/ /\ ~stopping /\ ~Retired(w)      \* it listened or outlived the boot window
        /\ Replace(i, w, own)
        /\ UNCHANGED <<retiring, wrapper>>
     \/ /\ ~stopping /\ ~Retired(w) /\ w \notin listened      \* boot crash
        /\ Unforked(own) /\ RespawnLater(i)
        /\ UNCHANGED <<retiring, polls, wrapper>>
  /\ parted' = parted \ {w}
  /\ UNCHANGED <<roll, stopping>>

(* The timer of respawnLater; a tripped breaker arms it again. *)
RespawnFires(i) ==
  /\ WrapUp /\ respawns[i] > 0
  /\ respawns' = [respawns EXCEPT ![i] = @ - 1]
  /\ IF stopping THEN Unforked(owner) ELSE Forked(i, owner)
  /\ UNCHANGED <<listened, parted, retiring, polls, roll, stopping, wrapper>>

(* The 50 ms poll of replaceWorker *)
PollFires(i, w) ==
  /\ WrapUp /\ <<i, w>> \in polls
  /\ IF stopping
     THEN polls' = polls \ {<<i, w>>} /\ Unforked(owner) /\ UNCHANGED respawns
     ELSE Replace(i, w, owner)
  /\ UNCHANGED <<listened, parted, retiring, roll, stopping, wrapper>>

(* shutdown: SIGTERM or SIGINT *)
Shutdown ==
  /\ WrapUp /\ ~stopping
  /\ stopping' = TRUE
  /\ parted' = parted \cup {w \in Workers : InApp(w)}
  /\ UNCHANGED <<forks, owner, process, listened, retiring, respawns, polls, roll, wrapper>>

(* finish: the hard kill after the kill timeout, and the end of an event   *)
(* loop that only unreferenced timers are left in                          *)
WrapperEnds ==
  /\ WrapUp /\ stopping
  /\ \/ process' = [w \in Workers |-> IF Running(w) THEN "dead" ELSE process[w]]
     \/ /\ \A w \in Workers : ~InApp(w)
        /\ \A i \in Indices : respawns[i] = 0
        /\ polls = {} /\ UNCHANGED process
  /\ wrapper' = "gone"
  /\ UNCHANGED <<forks, owner, listened, parted, retiring, respawns, polls, roll, stopping>>

(* SIGHUP, as GracefulReload sends it: ignored while stopping or reloading *)
Reload ==
  /\ WrapUp /\ ~stopping /\ roll.at = "idle"
  /\ roll' = [NoRoll EXCEPT !.at = "turn", !.olds = {w \in Workers : InApp(w)}]
  /\ UNCHANGED <<forks, owner, process, listened, parted, retiring, respawns, polls,
                 stopping, wrapper>>

(* The head of the loop: abandoned by a stop, over, next, or a fork *)
Turn ==
  /\ WrapUp /\ roll.at = "turn"
  /\ \/ /\ stopping \/ roll.olds = {}
        /\ roll' = NoRoll /\ Unforked(owner)
     \/ \E old \in roll.olds :
          /\ ~stopping /\ \A w \in roll.olds : old <= w
          /\ IF InApp(old)
             THEN /\ Forked(owner[old], owner)
                  /\ roll' = [at |-> "online", olds |-> roll.olds \ {old}, old |-> old,
                              index |-> owner[old]]
             ELSE Unforked(owner) /\ roll' = [roll EXCEPT !.olds = @ \ {old}]
  /\ UNCHANGED <<listened, parted, retiring, respawns, polls, stopping, wrapper>>

(* The await is over, by 'online' or by RELOAD_ONLINE_TIMEOUT. *)
Retire ==
  /\ WrapUp /\ roll.at = "online"
  /\ IF stopping
     THEN roll' = NoRoll /\ UNCHANGED <<retiring, parted>>
     ELSE /\ retiring' = retiring \cup {roll.old}
          /\ parted' = parted \cup {roll.old}
          /\ roll' = [roll EXCEPT !.at = "stagger"]
  /\ UNCHANGED <<forks, owner, process, listened, respawns, polls, stopping, wrapper>>

Staggered ==
  /\ WrapUp /\ roll.at = "stagger"
  /\ roll' = [roll EXCEPT !.at = "turn", !.old = 0, !.index = Unowned]
  /\ UNCHANGED <<forks, owner, process, listened, parted, retiring, respawns, polls,
                 stopping, wrapper>>

WrapNext ==
  \/ \E w \in Workers : Listens(w) \/ Dies(w) \/ ExitEvent(w)
  \/ \E i \in Indices : RespawnFires(i)
  \/ \E i \in Indices, w \in Workers : PollFires(i, w)
  \/ Shutdown \/ WrapperEnds \/ Reload \/ Turn \/ Retire \/ Staggered

WrapSpec == WrapInit /\ [][WrapNext]_wrapVars

(* Whatever dies while a roll is under way - the old worker while its      *)
(* replacement is awaited, or the replacement itself - every index of the  *)
(* cluster keeps a worker that is not being retired, or a fork that is     *)
(* still to come: the exit handler, the backoff timer, the poll and the    *)
(* roll never leave an index to each other.                                *)
IndexHeld ==
  WrapUp /\ ~stopping =>
    \A i \in Indices :
      \/ \E w \in Workers : owner[w] = i /\ w \notin retiring
      \/ respawns[i] > 0
      \/ \E w \in Workers : <<i, w>> \in polls

=============================================================================
