--------------------------- MODULE AppSideProofs ----------------------------
(* Theorems about what runs beside an app: the primary of its cluster, for   *)
(* any number of indices and forks, and the log of its output, for any       *)
(* number of lines, rotations and tails. The two share no variable.          *)
EXTENDS ClusterWrapper, LogManager, NaturalOrder, TLAPS

-----------------------------------------------------------------------------
(* The cluster wrapper *)

USE ClusterAssumption

(* A worker besides those in out has index i, or one is to come.           *)
Spared(i, out) ==
  \/ \E w \in Workers : owner[w] = i /\ w \notin retiring /\ w \notin out
  \/ respawns[i] > 0
  \/ \E w \in Workers : <<i, w>> \in polls

(* Nobody after the last fork has an index or a retirement.                *)
ForksInOrder ==
  /\ \A w \in Workers : w > forks => owner[w] = Unowned
  /\ \A w \in retiring : w <= forks

(* While a roll awaits the successor of old, old is a worker of that index *)
(* or has left it.                                                         *)
OldIsOfIndex ==
  roll.at = "online" =>
    /\ roll.old \in Workers /\ roll.old <= forks /\ roll.index \in Indices
    /\ owner[roll.old] \in {roll.index, Unowned}

(* IndexHeld is not inductive: the retirement of old takes a worker away.  *)
(* What makes it harmless is that index has another cover already.         *)
OldIsSpare ==
  WrapUp /\ ~stopping /\ roll.at = "online" => Spared(roll.index, {roll.old})

Held == WrapUp /\ ~stopping => \A i \in Indices : Spared(i, {})

WrapInv == WrapTypeOK /\ ForksInOrder /\ OldIsOfIndex /\ OldIsSpare /\ Held

LEMMA TypeInit == WrapInit => WrapTypeOK
<1> SUFFICES ASSUME WrapInit PROVE WrapTypeOK
  OBVIOUS
<1>1. owner \in [Workers -> Indices \cup {Unowned}]
  BY DEF WrapInit, Workers, Indices, Unowned
<1>2. process \in [Workers -> {"none", "alive", "dead"}]
  BY DEF WrapInit
<1>3. roll \in [at : {"idle", "turn", "online", "stagger"}, olds : SUBSET Workers,
               old : Workers \cup {0}, index : Indices \cup {Unowned}]
  BY DEF WrapInit, NoRoll
<1>4. respawns \in [Indices -> Nat] /\ forks \in 0 .. MaxForks
  BY DEF WrapInit
<1> QED BY <1>1, <1>2, <1>3, <1>4 DEF WrapInit, WrapTypeOK

(* The two ways an operation leaves forks, owner and process.              *)
LEMMA ForkedType ==
    ASSUME WrapTypeOK, NEW i \in Indices, NEW own \in [Workers -> Indices \cup {Unowned}],
           Forked(i, own)
    PROVE  /\ forks' \in 0 .. MaxForks /\ forks' = forks + 1 /\ forks' \in Workers
           /\ owner' \in [Workers -> Indices \cup {Unowned}]
           /\ process' \in [Workers -> {"none", "alive", "dead"}]
           /\ owner'[forks'] = i /\ \A w \in Workers : w # forks' => owner'[w] = own[w]
BY DEF WrapTypeOK, Forked, Workers

LEMMA RespawnLaterType ==
    ASSUME WrapTypeOK, NEW i \in Indices, RespawnLater(i)
    PROVE  /\ respawns' \in [Indices -> Nat] /\ respawns'[i] > 0
           /\ \A j \in Indices : respawns'[j] >= respawns[j]
BY DEF WrapTypeOK, RespawnLater

LEMMA ReplaceType ==
    ASSUME WrapTypeOK, NEW i \in Indices, NEW w \in Workers,
           NEW own \in [Workers -> Indices \cup {Unowned}], Replace(i, w, own)
    PROVE  /\ forks' \in 0 .. MaxForks /\ forks' \in {forks, forks + 1}
           /\ owner' \in [Workers -> Indices \cup {Unowned}]
           /\ process' \in [Workers -> {"none", "alive", "dead"}]
           /\ respawns' \in [Indices -> Nat]
           /\ polls' \subseteq Indices \X Workers
           /\ \A j \in Indices : respawns'[j] >= respawns[j]
           /\ \A v \in Workers : v # forks + 1 \/ forks' = forks => owner'[v] = own[v]
           /\ polls \ {<<i, w>>} \subseteq polls'
           /\ \/ <<i, w>> \in polls'
              \/ respawns'[i] > 0
              \/ forks' = forks + 1 /\ forks' \in Workers /\ owner'[forks'] = i
<1>1. CASE Running(w)
  BY <1>1 DEF Replace, Unforked, WrapTypeOK
<1>2. CASE ~Running(w) /\ Forked(i, own) /\ UNCHANGED respawns /\ polls' = polls \ {<<i, w>>}
  BY <1>2, ForkedType DEF WrapTypeOK
<1>3. CASE ~Running(w) /\ Unforked(own) /\ RespawnLater(i) /\ polls' = polls \ {<<i, w>>}
  BY <1>3, RespawnLaterType DEF Unforked, WrapTypeOK
<1> QED BY <1>1, <1>2, <1>3 DEF Replace

(* What a step may do without losing the cover of an index.                *)
LEMMA SparedKept ==
    ASSUME WrapTypeOK, NEW j \in Indices, NEW out, Spared(j, out),
           \A v \in Workers : owner[v] = j /\ v \notin retiring /\ v \notin out => owner'[v] = j,
           retiring' \subseteq retiring,
           respawns'[j] \in Nat, respawns'[j] >= respawns[j],
           \A v \in Workers : <<j, v>> \in polls => <<j, v>> \in polls'
    PROVE  Spared(j, out)'
<1>1. respawns[j] \in Nat BY DEF WrapTypeOK
<1>2. CASE respawns[j] > 0 BY <1>1, <1>2 DEF Spared
<1>3. CASE ~(respawns[j] > 0) BY <1>3 DEF Spared
<1> QED BY <1>2, <1>3

(* A fork covers its index, and is nobody's old worker.                    *)
LEMMA SparedByFork ==
    ASSUME WrapTypeOK, ForksInOrder, NEW j, NEW out, forks' = forks + 1, forks' \in Workers,
           owner'[forks'] = j, retiring' \subseteq retiring, \A w \in out : w <= forks
    PROVE  Spared(j, out)'
<1>1. forks \in Nat BY DEF WrapTypeOK
<1>2. forks' \notin retiring' /\ forks' \notin out BY <1>1 DEF ForksInOrder
<1> QED BY <1>2 DEF Spared

(* A step that gives worker w's index, or no index, a new cover, and takes  *)
(* the index from nobody but w.                                             *)
LEMMA ReplaceSpares ==
    ASSUME WrapTypeOK, ForksInOrder, NEW i \in Indices, NEW w \in Workers,
           NEW own \in [Workers -> Indices \cup {Unowned}], Replace(i, w, own),
           \A v \in Workers : own[v] = owner[v] \/ (v = w /\ owner[w] = i),
           UNCHANGED retiring,
           NEW j \in Indices, NEW out, Spared(j, out), \A v \in out : v <= forks
    PROVE  Spared(j, out)'
<1>1. CASE j = i
  <2>1. CASE <<i, w>> \in polls' BY <1>1, <2>1 DEF Spared
  <2>2. CASE respawns'[i] > 0 BY <1>1, <2>2 DEF Spared
  <2>3. CASE forks' = forks + 1 /\ forks' \in Workers /\ owner'[forks'] = i
    BY <1>1, <2>3, SparedByFork
  <2> QED BY <2>1, <2>2, <2>3, ReplaceType
<1>2. CASE j # i
  <2>1. \A v \in Workers : owner[v] = j => owner'[v] = j
    <3> SUFFICES ASSUME NEW v \in Workers, owner[v] = j PROVE owner'[v] = j
      OBVIOUS
    <3>1. own[v] = j BY <1>2
    <3>2. v <= forks
      BY DEF ForksInOrder, WrapTypeOK, Workers, Indices, Unowned
    <3>3. v # forks + 1 BY <3>2 DEF WrapTypeOK, Workers
    <3> QED BY <3>1, <3>3, ReplaceType
  <2>2. \A v \in Workers : <<j, v>> \in polls => <<j, v>> \in polls'
    BY <1>2, ReplaceType
  <2>3. respawns'[j] \in Nat /\ respawns'[j] >= respawns[j] BY ReplaceType
  <2> QED BY <2>1, <2>2, <2>3, SparedKept
<1> QED BY <1>1, <1>2

LEMMA InvInit == WrapInit => WrapInv
<1> SUFFICES ASSUME WrapInit PROVE WrapInv
  OBVIOUS
<1>1. WrapTypeOK BY TypeInit
<1>2. ForksInOrder BY DEF WrapInit, ForksInOrder, Workers
<1>3. OldIsOfIndex /\ OldIsSpare BY DEF WrapInit, NoRoll, OldIsOfIndex, OldIsSpare
<1>4. Held
  <2> SUFFICES ASSUME NEW i \in Indices PROVE Spared(i, {})
    BY DEF Held
  <2>1. i + 1 \in Workers /\ i + 1 <= Total BY DEF Workers, Indices
  <2>2. owner[i + 1] = i BY <2>1 DEF WrapInit, Indices
  <2> QED BY <2>1, <2>2 DEF WrapInit, Spared
<1> QED BY <1>1, <1>2, <1>3, <1>4 DEF WrapInv

(* Steps that take the index from no worker that stays.                    *)
LEMMA InvQuiet ==
    ASSUME WrapInv, WrapTypeOK', UNCHANGED <<forks, owner, retiring, respawns, polls, roll>>,
           wrapper' = "up" /\ ~stopping' => WrapUp /\ ~stopping
    PROVE  WrapInv'
<1>1. ForksInOrder' /\ OldIsOfIndex' BY DEF WrapInv, ForksInOrder, OldIsOfIndex
<1>2. OldIsSpare' BY DEF WrapInv, OldIsSpare, Spared, WrapUp
<1>3. Held' BY DEF WrapInv, Held, Spared, WrapUp
<1> QED BY <1>1, <1>2, <1>3 DEF WrapInv

(* A step of the daemon proper leaves the roll; it may fork.               *)
LEMMA InvWhileRolling ==
    ASSUME WrapInv, WrapTypeOK', UNCHANGED <<roll, stopping>>, WrapUp,
           retiring' \subseteq retiring, forks' \in {forks, forks + 1},
           \A v \in Workers : owner'[v] = owner[v] \/ owner'[v] = Unowned \/ v = forks',
           forks' = forks => \A v \in Workers : owner'[v] = owner[v] \/ owner'[v] = Unowned,
           ~stopping => \A j \in Indices : \A out :
             Spared(j, out) /\ (\A v \in out : v <= forks) => Spared(j, out)'
    PROVE  WrapInv'
<1>1. forks \in Nat /\ forks' \in Nat BY DEF WrapInv, WrapTypeOK
<1>2. ForksInOrder'
  BY <1>1 DEF WrapInv, ForksInOrder, WrapTypeOK, Workers
<1>3. OldIsOfIndex'
  <2> SUFFICES ASSUME roll.at = "online"
               PROVE  /\ roll.old \in Workers /\ roll.old <= forks' /\ roll.index \in Indices
                      /\ owner'[roll.old] \in {roll.index, Unowned}
    BY DEF OldIsOfIndex
  <2>1. /\ roll.old \in Workers /\ roll.old <= forks /\ roll.index \in Indices
        /\ owner[roll.old] \in {roll.index, Unowned}
    BY DEF WrapInv, OldIsOfIndex
  <2>2. roll.old <= forks' /\ (forks' # forks => roll.old # forks')
    BY <1>1, <2>1 DEF Workers
  <2> QED BY <2>1, <2>2
<1>4. OldIsSpare'
  <2> SUFFICES ASSUME ~stopping, roll.at = "online"
               PROVE  Spared(roll.index, {roll.old})'
    BY DEF OldIsSpare
  <2>1. Spared(roll.index, {roll.old}) BY DEF WrapInv, OldIsSpare
  <2>2. roll.index \in Indices /\ roll.old <= forks BY DEF WrapInv, OldIsOfIndex
  <2> QED BY <2>1, <2>2 DEF Spared
<1>5. Held'
  <2> SUFFICES ASSUME ~stopping, NEW j \in Indices PROVE Spared(j, {})'
    BY DEF Held
  <2>1. Spared(j, {}) BY DEF WrapInv, Held
  <2> QED BY <2>1
<1> QED BY <1>2, <1>3, <1>4, <1>5 DEF WrapInv

LEMMA ExitEventKeeps ==
    ASSUME WrapInv, NEW w \in Workers, ExitEvent(w)
    PROVE  WrapInv'
<1> DEFINE i == owner[w]
           own == [owner EXCEPT ![w] = Unowned]
<1>1. /\ WrapTypeOK /\ ForksInOrder /\ WrapUp /\ i \in Indices
      /\ own \in [Workers -> Indices \cup {Unowned}]
      /\ UNCHANGED <<roll, stopping>>
      /\ listened' \subseteq Workers /\ parted' \subseteq Workers
  BY DEF WrapInv, WrapTypeOK, ExitEvent, InApp, Unowned, Indices
<1>2. CASE stopping
  <2>1. owner' = own /\ UNCHANGED <<forks, retiring, respawns, polls>>
    BY <1>2 DEF ExitEvent
  <2>2. process' \in [Workers -> {"none", "alive", "dead"}] /\ wrapper' \in {"up", "gone"}
    BY <1>1, <1>2 DEF ExitEvent, WrapTypeOK
  <2>3. WrapTypeOK' BY <1>1, <2>1, <2>2 DEF WrapTypeOK
  <2> QED BY <1>1, <1>2, <2>1, <2>3, InvWhileRolling
<1>3. CASE ~stopping /\ Retired(w) /\ retiring' = retiring \ {w} /\ Unforked(own)
           /\ UNCHANGED <<respawns, polls, wrapper>>
  <2>1. WrapTypeOK' BY <1>1, <1>3 DEF Unforked, WrapTypeOK
  <2>2. /\ owner' = own /\ UNCHANGED <<forks, respawns, polls>>
        /\ \A v \in Workers : v # w => own[v] = owner[v]
        /\ \A v \in Workers : own[v] = owner[v] \/ own[v] = Unowned
    BY <1>1, <1>3 DEF Unforked, WrapTypeOK
  <2>3. \A j \in Indices : \A out : Spared(j, out) => Spared(j, out)'
    BY <1>3, <2>2 DEF Spared, Retired
  <2> HIDE DEF own
  <2> QED BY <1>1, <1>3, <2>1, <2>2, <2>3, InvWhileRolling
<1>4. CASE ~stopping /\ Replace(i, w, own) /\ UNCHANGED <<retiring, wrapper>>
  <2>1. WrapTypeOK' BY <1>1, <1>4, ReplaceType DEF WrapTypeOK
  <2>2. \A v \in Workers : own[v] = owner[v] \/ (v = w /\ owner[w] = i)
    BY <1>1 DEF WrapTypeOK
  <2>3. \A v \in Workers : own[v] = owner[v] \/ own[v] = Unowned
    BY <1>1 DEF WrapTypeOK
  <2> HIDE DEF own, i
  <2>4. \A j \in Indices : \A out :
          Spared(j, out) /\ (\A v \in out : v <= forks) => Spared(j, out)'
    BY <1>1, <1>4, <2>2, ReplaceSpares
  <2>5. /\ forks' \in {forks, forks + 1}
        /\ \A v \in Workers : v # forks + 1 \/ forks' = forks => owner'[v] = own[v]
    BY <1>1, <1>4, ReplaceType
  <2> QED BY <1>1, <1>4, <2>1, <2>3, <2>4, <2>5, InvWhileRolling
<1>5. CASE ~stopping /\ Unforked(own) /\ RespawnLater(i) /\ UNCHANGED <<retiring, polls, wrapper>>
  <2>1. /\ respawns' \in [Indices -> Nat] /\ respawns'[i] > 0
        /\ \A j \in Indices : respawns'[j] >= respawns[j]
    BY <1>1, <1>5, RespawnLaterType
  <2>2. WrapTypeOK' BY <1>1, <1>5, <2>1 DEF Unforked, WrapTypeOK
  <2>3. ASSUME NEW j \in Indices, NEW out, Spared(j, out)
        PROVE  Spared(j, out)'
    <3>1. CASE j = i BY <3>1, <2>1 DEF Spared
    <3>2. CASE j # i
      <4>1. \A v \in Workers : owner[v] = j => owner'[v] = j
        BY <1>1, <1>5, <3>2 DEF Unforked, WrapTypeOK
      <4> QED BY <4>1, <1>1, <1>5, <2>1, <2>3, SparedKept
    <3> QED BY <3>1, <3>2
  <2> QED BY <1>1, <1>5, <2>2, <2>3, InvWhileRolling DEF Unforked
<1> QED BY <1>2, <1>3, <1>4, <1>5 DEF ExitEvent

LEMMA RespawnFiresKeeps ==
    ASSUME WrapInv, NEW i \in Indices, RespawnFires(i)
    PROVE  WrapInv'
<1>1. /\ WrapTypeOK /\ ForksInOrder /\ WrapUp /\ respawns[i] \in Nat /\ respawns[i] > 0
      /\ respawns' = [respawns EXCEPT ![i] = @ - 1]
      /\ UNCHANGED <<listened, parted, retiring, polls, roll, stopping, wrapper>>
  BY DEF WrapInv, WrapTypeOK, RespawnFires
<1>2. respawns' \in [Indices -> Nat] BY <1>1 DEF WrapTypeOK
<1>3. CASE stopping
  <2>1. UNCHANGED <<owner, forks, process>> BY <1>3 DEF RespawnFires, Unforked
  <2>2. WrapTypeOK' BY <1>1, <1>2, <2>1 DEF WrapTypeOK
  <2> QED BY <1>1, <1>3, <2>1, <2>2, InvWhileRolling
<1>4. CASE ~stopping
  <2>1. Forked(i, owner) BY <1>4 DEF RespawnFires
  <2>2. /\ forks' \in 0 .. MaxForks /\ forks' = forks + 1 /\ forks' \in Workers
        /\ owner' \in [Workers -> Indices \cup {Unowned}]
        /\ process' \in [Workers -> {"none", "alive", "dead"}]
        /\ owner'[forks'] = i /\ \A w \in Workers : w # forks' => owner'[w] = owner[w]
    BY <1>1, <2>1, ForkedType DEF WrapTypeOK
  <2>3. WrapTypeOK' BY <1>1, <1>2, <2>2 DEF WrapTypeOK
  <2>4. ASSUME NEW j \in Indices, NEW out, Spared(j, out), \A v \in out : v <= forks
        PROVE  Spared(j, out)'
    <3>1. CASE j = i BY <3>1, <1>1, <2>2, <2>4, SparedByFork
    <3>2. CASE j # i
      <4>1. \A v \in Workers : owner[v] = j => owner'[v] = j
        BY <1>1, <2>2 DEF ForksInOrder, WrapTypeOK, Workers, Indices, Unowned
      <4>2. respawns'[j] \in Nat /\ respawns'[j] >= respawns[j]
        BY <1>1, <1>2, <3>2 DEF WrapTypeOK
      <4> QED BY <4>1, <4>2, <1>1, <2>4, SparedKept
    <3> QED BY <3>1, <3>2
  <2> QED BY <1>1, <2>2, <2>3, <2>4, InvWhileRolling
<1> QED BY <1>3, <1>4

LEMMA PollFiresKeeps ==
    ASSUME WrapInv, NEW i \in Indices, NEW w \in Workers, PollFires(i, w)
    PROVE  WrapInv'
<1>1. /\ WrapTypeOK /\ ForksInOrder /\ WrapUp /\ owner \in [Workers -> Indices \cup {Unowned}]
      /\ UNCHANGED <<listened, parted, retiring, roll, stopping, wrapper>>
  BY DEF WrapInv, WrapTypeOK, PollFires
<1>2. CASE stopping
  <2>1. polls' \subseteq polls /\ UNCHANGED <<owner, forks, process, respawns>>
    BY <1>2 DEF PollFires, Unforked
  <2>2. WrapTypeOK' BY <1>1, <2>1 DEF WrapTypeOK
  <2> QED BY <1>1, <1>2, <2>1, <2>2, InvWhileRolling
<1>3. CASE ~stopping
  <2>1. Replace(i, w, owner) BY <1>3 DEF PollFires
  <2>2. WrapTypeOK' BY <1>1, <2>1, ReplaceType DEF WrapTypeOK
  <2>3. \A j \in Indices : \A out :
          Spared(j, out) /\ (\A v \in out : v <= forks) => Spared(j, out)'
    BY <1>1, <2>1, ReplaceSpares
  <2>4. /\ forks' \in {forks, forks + 1}
        /\ \A v \in Workers : v # forks + 1 \/ forks' = forks => owner'[v] = owner[v]
    BY <1>1, <2>1, ReplaceType
  <2> QED BY <1>1, <2>2, <2>3, <2>4, InvWhileRolling
<1> QED BY <1>2, <1>3

(* The head of the roll: an old worker that has its index gets a successor. *)
LEMMA TurnKeeps == ASSUME WrapInv, Turn PROVE WrapInv'
<1>1. /\ WrapTypeOK /\ ForksInOrder /\ WrapUp /\ forks \in Nat
      /\ owner \in [Workers -> Indices \cup {Unowned}]
      /\ UNCHANGED <<listened, parted, retiring, respawns, polls, stopping, wrapper>>
  BY DEF WrapInv, WrapTypeOK, Turn
<1>2. CASE /\ UNCHANGED <<owner, forks, process>> /\ roll'.at # "online"
           /\ roll' \in [at : {"idle", "turn", "online", "stagger"}, olds : SUBSET Workers,
                         old : Workers \cup {0}, index : Indices \cup {Unowned}]
  <2>1. WrapTypeOK' BY <1>1, <1>2 DEF WrapTypeOK
  <2>2. ForksInOrder' /\ OldIsOfIndex' /\ OldIsSpare'
    BY <1>1, <1>2 DEF ForksInOrder, OldIsOfIndex, OldIsSpare
  <2>3. Held' BY <1>1, <1>2 DEF WrapInv, Held, Spared, WrapUp
  <2> QED BY <2>1, <2>2, <2>3 DEF WrapInv
<1>3. ASSUME NEW old \in Workers, old \in roll.olds, ~stopping, InApp(old),
             Forked(owner[old], owner),
             roll' = [at |-> "online", olds |-> roll.olds \ {old}, old |-> old,
                      index |-> owner[old]]
      PROVE  WrapInv'
  <2>1. owner[old] \in Indices /\ old <= forks
    BY <1>1, <1>3 DEF InApp, ForksInOrder, Workers
  <2>2. /\ forks' \in 0 .. MaxForks /\ forks' = forks + 1 /\ forks' \in Workers
        /\ owner' \in [Workers -> Indices \cup {Unowned}]
        /\ process' \in [Workers -> {"none", "alive", "dead"}]
        /\ owner'[forks'] = owner[old] /\ \A w \in Workers : w # forks' => owner'[w] = owner[w]
    BY <1>1, <1>3, <2>1, ForkedType
  <2>3. /\ roll' \in [at : {"idle", "turn", "online", "stagger"}, olds : SUBSET Workers,
                     old : Workers \cup {0}, index : Indices \cup {Unowned}]
        /\ roll'.old = old /\ roll'.index = owner[old]
    BY <1>1, <1>3, <2>1 DEF WrapTypeOK
  <2>4. WrapTypeOK' BY <1>1, <2>2, <2>3 DEF WrapTypeOK
  <2>5. ForksInOrder' BY <1>1, <2>2 DEF ForksInOrder, Workers, WrapTypeOK
  <2>6. OldIsOfIndex' BY <1>1, <2>1, <2>2, <2>3 DEF OldIsOfIndex, Workers
  <2>7. Spared(roll.index, {roll.old})'
    <3>1. forks' \notin retiring' /\ forks' # old
      BY <1>1, <2>1, <2>2 DEF ForksInOrder
    <3> QED BY <3>1, <2>2, <2>3 DEF Spared
  <2>8. Held'
    <3> SUFFICES ASSUME NEW j \in Indices PROVE Spared(j, {})'
      BY DEF Held
    <3>1. Spared(j, {}) BY <1>1, <1>3 DEF WrapInv, Held
    <3>2. \A v \in Workers : owner[v] = j => owner'[v] = j
      BY <1>1, <2>2 DEF ForksInOrder, Workers, Indices, Unowned
    <3> QED BY <1>1, <3>1, <3>2 DEF Spared
  <2> QED BY <2>4, <2>5, <2>6, <2>7, <2>8 DEF WrapInv, OldIsSpare
<1>4. CASE (stopping \/ roll.olds = {}) /\ roll' = NoRoll /\ Unforked(owner)
  <2>1. /\ roll' \in [at : {"idle", "turn", "online", "stagger"}, olds : SUBSET Workers,
                     old : Workers \cup {0}, index : Indices \cup {Unowned}]
        /\ roll'.at # "online"
    BY <1>4 DEF NoRoll
  <2> QED BY <1>2, <1>4, <2>1 DEF Unforked
<1>5. ASSUME NEW old \in roll.olds, ~InApp(old), Unforked(owner),
             roll' = [roll EXCEPT !.olds = @ \ {old}]
      PROVE  WrapInv'
  <2>1. roll'.at # "online"
    BY <1>5 DEF Turn, WrapInv, WrapTypeOK
  <2>2. roll' \in [at : {"idle", "turn", "online", "stagger"}, olds : SUBSET Workers,
                  old : Workers \cup {0}, index : Indices \cup {Unowned}]
    BY <1>1, <1>5 DEF WrapTypeOK
  <2> QED BY <1>2, <1>5, <2>1, <2>2 DEF Unforked
<1>6. roll.olds \subseteq Workers BY <1>1 DEF WrapTypeOK
<1> QED BY <1>3, <1>4, <1>5, <1>6 DEF Turn

(* The retirement of old: index is covered without it.                      *)
LEMMA RetireKeeps == ASSUME WrapInv, Retire PROVE WrapInv'
<1>1. /\ WrapTypeOK /\ ForksInOrder /\ WrapUp /\ roll.at = "online"
      /\ roll.old \in Workers /\ roll.old <= forks /\ roll.index \in Indices
      /\ owner[roll.old] \in {roll.index, Unowned}
      /\ UNCHANGED <<forks, owner, process, listened, respawns, polls, stopping, wrapper>>
  BY DEF WrapInv, OldIsOfIndex, Retire
<1>2. CASE stopping
  <2>1. roll' = NoRoll /\ UNCHANGED <<retiring, parted>> BY <1>2 DEF Retire
  <2>2. WrapTypeOK' BY <1>1, <2>1 DEF WrapTypeOK, NoRoll
  <2>3. ForksInOrder' /\ OldIsOfIndex' /\ OldIsSpare' /\ Held'
    BY <1>1, <1>2, <2>1 DEF ForksInOrder, OldIsOfIndex, OldIsSpare, Held, NoRoll
  <2> QED BY <2>2, <2>3 DEF WrapInv
<1>3. CASE ~stopping
  <2>1. /\ retiring' = retiring \cup {roll.old} /\ parted' = parted \cup {roll.old}
        /\ roll' = [roll EXCEPT !.at = "stagger"]
    BY <1>3 DEF Retire
  <2>2. WrapTypeOK' BY <1>1, <2>1 DEF WrapTypeOK
  <2>3. roll'.at # "online" BY <1>1, <2>1 DEF WrapTypeOK
  <2>4. ForksInOrder' /\ OldIsOfIndex' /\ OldIsSpare'
    BY <1>1, <2>1, <2>3 DEF ForksInOrder, OldIsOfIndex, OldIsSpare
  <2>5. Held'
    <3> SUFFICES ASSUME NEW j \in Indices PROVE Spared(j, {})'
      BY DEF Held
    <3>1. CASE j = roll.index
      <4>1. Spared(j, {roll.old}) BY <1>1, <1>3, <3>1 DEF WrapInv, OldIsSpare
      <4> QED BY <4>1, <1>1, <2>1 DEF Spared
    <3>2. CASE j # roll.index
      <4>1. Spared(j, {}) BY <1>1, <1>3 DEF WrapInv, Held
      <4>2. owner[roll.old] # j BY <1>1, <3>2 DEF Indices, Unowned
      <4> QED BY <4>1, <4>2, <1>1, <2>1 DEF Spared
    <3> QED BY <3>1, <3>2
  <2> QED BY <2>2, <2>4, <2>5 DEF WrapInv
<1> QED BY <1>2, <1>3

LEMMA StaggeredKeeps == ASSUME WrapInv, Staggered PROVE WrapInv'
<1>1. /\ WrapTypeOK /\ roll.at = "stagger"
      /\ roll' = [roll EXCEPT !.at = "turn", !.old = 0, !.index = Unowned]
      /\ UNCHANGED <<forks, owner, process, listened, parted, retiring, respawns, polls,
                     stopping, wrapper>>
  BY DEF WrapInv, Staggered
<1>2. WrapTypeOK' /\ roll'.at # "online" BY <1>1 DEF WrapTypeOK
<1>3. ForksInOrder' /\ OldIsOfIndex' /\ OldIsSpare' /\ Held'
  BY <1>1, <1>2 DEF WrapInv, ForksInOrder, OldIsOfIndex, OldIsSpare, Held, Spared, WrapUp
<1> QED BY <1>2, <1>3 DEF WrapInv

LEMMA ReloadKeeps == ASSUME WrapInv, Reload PROVE WrapInv'
<1>1. /\ WrapTypeOK
      /\ roll' = [NoRoll EXCEPT !.at = "turn", !.olds = {w \in Workers : InApp(w)}]
      /\ UNCHANGED <<forks, owner, process, listened, parted, retiring, respawns, polls,
                     stopping, wrapper>>
  BY DEF WrapInv, Reload
<1>2. WrapTypeOK' /\ roll'.at # "online" BY <1>1 DEF WrapTypeOK, NoRoll
<1>3. ForksInOrder' /\ OldIsOfIndex' /\ OldIsSpare' /\ Held'
  BY <1>1, <1>2 DEF WrapInv, ForksInOrder, OldIsOfIndex, OldIsSpare, Held, Spared, WrapUp
<1> QED BY <1>2, <1>3 DEF WrapInv

LEMMA InvNext == WrapInv /\ [WrapNext]_wrapVars => WrapInv'
<1> SUFFICES ASSUME WrapInv, [WrapNext]_wrapVars PROVE WrapInv'
  OBVIOUS
<1>1. WrapTypeOK BY DEF WrapInv
<1>2. ASSUME NEW w \in Workers, Listens(w) PROVE WrapInv'
  <2>1. WrapTypeOK' BY <1>1, <1>2 DEF Listens, WrapTypeOK
  <2> QED BY <1>2, <2>1, InvQuiet DEF Listens, WrapUp
<1>3. ASSUME NEW w \in Workers, Dies(w) PROVE WrapInv'
  <2>1. WrapTypeOK' BY <1>1, <1>3 DEF Dies, WrapTypeOK
  <2> QED BY <1>3, <2>1, InvQuiet DEF Dies, WrapUp
<1>4. CASE Shutdown
  <2>1. WrapTypeOK' BY <1>1, <1>4 DEF Shutdown, WrapTypeOK
  <2> QED BY <1>4, <2>1, InvQuiet DEF Shutdown
<1>5. CASE WrapperEnds
  <2>1. WrapTypeOK' BY <1>1, <1>5 DEF WrapperEnds, WrapTypeOK
  <2> QED BY <1>5, <2>1, InvQuiet DEF WrapperEnds
<1>6. CASE UNCHANGED wrapVars
  <2>1. WrapTypeOK' BY <1>1, <1>6 DEF wrapVars, WrapTypeOK
  <2> QED BY <1>6, <2>1, InvQuiet DEF wrapVars, WrapUp
<1> QED BY <1>2, <1>3, <1>4, <1>5, <1>6, ExitEventKeeps, RespawnFiresKeeps, PollFiresKeeps,
           TurnKeeps, RetireKeeps, StaggeredKeeps, ReloadKeeps DEF WrapNext

(* node-cluster.ts: until it shuts down, the wrapper never leaves an index   *)
(* without a worker that stays or one that is to come, for any number of     *)
(* workers, deaths, respawns and reloads in any order.                       *)
THEOREM IndexAlwaysHeld == WrapSpec => []IndexHeld
<1>1. WrapInv => IndexHeld BY DEF WrapInv, Held, Spared, IndexHeld
<1> QED BY InvInit, InvNext, <1>1, PTL DEF WrapSpec

(* Every variable of the wrapper keeps its type.                             *)
THEOREM WrapTypeCorrect == WrapSpec => []WrapTypeOK
<1>1. WrapInv => WrapTypeOK BY DEF WrapInv
<1> QED BY InvInit, InvNext, <1>1, PTL DEF WrapSpec

-----------------------------------------------------------------------------
(* The log manager *)

(* A buffered line waits for a timer that runs. That is inductive together   *)
(* with what the code reads: an entry of flushTimers has a timer behind it,  *)
(* so that the first line after a flush arms one and no other needs to.      *)
EntryHasTimer == flushArmed => flushTimer
FlushInv == FlushIsComing /\ EntryHasTimer /\ flushTimer \in BOOLEAN

LEMMA FlushInvInit == LogInit => FlushInv
BY DEF LogInit, FlushInv, FlushIsComing, EntryHasTimer

(* The buffer and its timer belong to appendJSONLog and flushBuffer alone.   *)
LEMMA FlushInvElsewhere ==
    ASSUME FlushInv, UNCHANGED <<pending, flushVars>>
    PROVE  FlushInv'
BY DEF FlushInv, FlushIsComing, EntryHasTimer, flushVars

LEMMA FlushInvNext == FlushInv /\ [LogNext]_logVars => FlushInv'
<1> SUFFICES ASSUME FlushInv, [LogNext]_logVars
             PROVE  FlushInv'
  OBVIOUS
<1>1. CASE AppendLine
  <2>1. flushTimer' = TRUE /\ flushArmed' = TRUE
    BY <1>1 DEF AppendLine, FlushInv, EntryHasTimer
  <2> QED BY <2>1 DEF FlushInv, FlushIsComing, EntryHasTimer
<1>2. CASE FlushBuffer
  BY <1>2 DEF FlushBuffer, TimerAfterFlush, FlushInv, FlushIsComing, EntryHasTimer
<1>3. CASE OpenAppend \/ WriteAppend \/ AppendFails \/ FlushLogs
  <2>1. UNCHANGED <<pending, flushVars>>
    BY <1>3 DEF OpenAppend, WriteAppend, AppendFails, FlushLogs
  <2> QED BY <2>1, FlushInvElsewhere
<1>4. CASE RotateBegins \/ Shift \/ TruncateLive \/ TidyUp \/ Pack
  <2>1. UNCHANGED <<pending, flushVars>>
    BY <1>4 DEF RotateBegins, Shift, TruncateLive, TidyUp, Pack
  <2> QED BY <2>1, FlushInvElsewhere
<1>5. CASE TailNext
  <2>1. UNCHANGED <<pending, flushVars>>
    BY <1>5 DEF TailNext, WatchLogs, StopWatch
  <2> QED BY <2>1, FlushInvElsewhere
<1>6. CASE UNCHANGED logVars
  <2>1. UNCHANGED <<pending, flushVars>>
    BY <1>6 DEF logVars
  <2> QED BY <2>1, FlushInvElsewhere
<1> QED BY <1>1, <1>2, <1>3, <1>4, <1>5, <1>6 DEF LogNext, FileNext

(* appendJSONLog() and flushBuffer(): however lines, flushes, failed appends  *)
(* and rotations follow each other, no buffered line waits for another line.  *)
THEOREM FlushAlwaysComing == LogSpec => []FlushIsComing
<1>1. FlushInv => FlushIsComing BY DEF FlushInv
<1> QED BY FlushInvInit, FlushInvNext, <1>1, PTL DEF LogSpec

(* A stop function ends its own tail and forgets only its own entry.         *)
LEMMA OneTailNext == OneTail /\ [LogNext]_logVars => OneTail'
<1> SUFFICES ASSUME OneTail, [LogNext]_logVars
             PROVE  OneTail'
  OBVIOUS
<1>1. CASE WatchLogs
  <2>1. PICK w \in Watches : /\ tails' = (tails \ {tailEntry}) \cup {w}
                             /\ tailEntry' = w
    BY <1>1 DEF WatchLogs, StopTail
  <2>2. w # NoTail BY LogAssumption
  <2> QED BY <2>1, <2>2 DEF OneTail
<1>2. CASE StopWatch
  <2>1. PICK w \in Watches :
           /\ tails' = tails \ {w}
           /\ tailEntry' = IF tailEntry = w THEN NoTail ELSE tailEntry
    BY <1>2 DEF StopWatch, StopTail, EntryAfterStop
  <2> QED BY <2>1 DEF OneTail
<1>3. CASE FileNext
  <2>1. CASE AppendLine \/ FlushBuffer \/ OpenAppend \/ WriteAppend \/ AppendFails
    BY <2>1 DEF AppendLine, FlushBuffer, OpenAppend, WriteAppend, AppendFails, tailVars, OneTail
  <2>2. CASE FlushLogs \/ RotateBegins \/ Shift \/ TruncateLive \/ TidyUp \/ Pack
    BY <2>2 DEF FlushLogs, RotateBegins, Shift, TruncateLive, TidyUp, Pack, tailVars, OneTail
  <2> QED BY <1>3, <2>1, <2>2 DEF FileNext
<1>4. CASE UNCHANGED logVars
  BY <1>4 DEF logVars, tailVars, OneTail
<1> QED BY <1>1, <1>2, <1>3, <1>4 DEF LogNext, TailNext

(* watchLogs(): a target never has two live tails, and the table knows the    *)
(* one it has, however late the stop functions of replaced tails are called.  *)
THEOREM AlwaysOneTail == LogSpec => []OneTail
<1>1. LogInit => OneTail BY DEF LogInit, OneTail
<1> QED BY <1>1, OneTailNext, PTL DEF LogSpec

-----------------------------------------------------------------------------
(* What is in the files *)

AppendCall == [chunk : Seq(Line), at : Inode \cup {None}]
Task == [i : Suffix, at : {"read", "write", "unlink"}, data : Seq(Line)]

FilesTyped ==
    /\ content \in [Inode -> Seq(Line)] /\ live \in Inode \cup {None}
    /\ plain \in [Suffix -> Inode \cup {None}] /\ gz \in [Suffix -> Seq(Line)]
LogTyped ==
    /\ LogTypeOK
    /\ appends \subseteq AppendCall /\ packing \subseteq Task

(* The live file is no rotated one.                                          *)
LiveIsApart == live # None => \A j \in Suffix : plain[j] # live

(* Nothing is compressed when nothing is to be.                              *)
AllPlain == ~compress => packing = {} /\ \A i \in Suffix : gz[i] = <<>>

(* Where a line is that was on disk when the rotation began: before the round *)
(* of .i it is not in .i alone, which that round overwrites; after the last   *)
(* round it is in a rotated file, whatever becomes of the live one.           *)
InLive(l) == live # None /\ l \in ToSet(content[live])
InPlain(l, j) == plain[j] # None /\ l \in ToSet(content[plain[j]])
FoundSurvives == ~compress =>
    \A l \in found :
      /\ rot.at = "shift" /\ rot.i \in Suffix =>
           InLive(l) \/ \E j \in Suffix \ {rot.i} : InPlain(l, j)
      /\ rot.at = "tidy" \/ (rot.at = "shift" /\ rot.i \notin Suffix) =>
           \E j \in Suffix : InPlain(l, j)
ShiftInRange == rot.at = "shift" => rot.i \in 0 .. Retain - 1

RotationInv == LogTyped /\ LiveIsApart /\ AllPlain /\ FoundSurvives /\ ShiftInRange

(* Inodes, suffixes and lines are numbers, and there are fewer suffixes than *)
(* generations to keep.                                                      *)
LEMMA ConstantsAreNat ==
  /\ 0 \notin Inode /\ None \notin Inode /\ Inode \subseteq Nat /\ Suffix \subseteq Nat
  /\ IsFiniteSet(Inode) /\ IsFiniteSet(Suffix) /\ Cardinality(Suffix) < Retain
  /\ Line \subseteq Nat
<1>1. MaxRotations + 2 \in Int /\ Retain - 1 \in Int /\ 1 \in Int
  BY LogAssumption
<1>2. IsFiniteSet(1 .. MaxRotations + 2) /\ IsFiniteSet(1 .. Retain - 1)
      /\ Cardinality(1 .. Retain - 1) = IF 1 > Retain - 1 THEN 0 ELSE (Retain - 1) - 1 + 1
  <2>1. IsFiniteSet(1 .. MaxRotations + 2)
    BY <1>1, FS_Interval
  <2> DEFINE n == Retain - 1
  <2>2. n \in Int
    BY <1>1
  <2> HIDE DEF n
  <2>3. IsFiniteSet(1 .. n) /\ Cardinality(1 .. n) = IF 1 > n THEN 0 ELSE n - 1 + 1
    BY <1>1, <2>2, FS_Interval
  <2> QED BY <2>1, <2>3 DEF n
<1>3. Cardinality(Suffix) < Retain
  BY <1>1, <1>2, LogAssumption DEF Suffix
<1> QED BY <1>1, <1>2, <1>3, LogAssumption DEF Inode, Suffix, None, Line

(* A file that is created is one that no name refers to. *)
LEMMA FreshIsFresh ==
  ASSUME FilesTyped, FreshInode \in Inode
  PROVE  FreshInode # live /\ \A j \in Suffix : plain[j] # FreshInode
<1> DEFINE S == {0} \cup {n \in Inode : content[n] # <<>> \/ n = live
                             \/ n \in Range(plain) \/ \E a \in appends : a.at = n}
<1>1. S \subseteq Nat /\ IsFiniteSet(S) /\ S # {}
  <2>1. S \subseteq Inode \cup {0}
    OBVIOUS
  <2>2. IsFiniteSet(Inode \cup {0})
    BY ConstantsAreNat, FS_AddElement
  <2>3. IsFiniteSet(S)
    BY <2>1, <2>2, FS_Subset
  <2>4. 0 \in S
    OBVIOUS
  <2> HIDE DEF S
  <2> QED BY <2>1, <2>3, <2>4, ConstantsAreNat
<1>2. \A n \in Inode : n = live \/ (\E j \in Suffix : plain[j] = n) => n \in S
  BY DEF Range, FilesTyped
<1>3. FreshInode = Max(S) + 1
  BY DEF FreshInode
<1> HIDE DEF S
<1>4. PICK n \in S : \A m \in S : m <= n
  BY <1>1, Greatest
<1>5. Max(S) \in S /\ \A m \in S : Max(S) >= m
  <2>1. \A m \in S : n >= m
    BY <1>1, <1>4
  <2> QED BY <2>1 DEF Max
<1>6. Max(S) \in Nat
  BY <1>1, <1>5
<1>7. FreshInode \notin S
  <2> SUFFICES ASSUME FreshInode \in S PROVE FALSE
    OBVIOUS
  <2>1. Max(S) >= FreshInode
    BY <1>5
  <2> QED BY <1>3, <1>6, <2>1
<1> QED BY <1>2, <1>7

(* The lines of a file are lines.                                            *)
LEMMA LinesOf ==
  ASSUME NEW s \in Seq(Line)
  PROVE  ToSet(s) \subseteq Line /\ (s = <<>> => ToSet(s) = {})
BY DEF ToSet

(* What a step does to the files, as the invariant of the rotation sees it:   *)
(* it may add lines to files and put the live name to a new one.              *)
LEMMA AddsOnly ==
  ASSUME RotationInv, LogTyped', UNCHANGED <<compress, plain, gz, rot, packing, found>>,
         \A n \in Inode : ToSet(content[n]) \subseteq ToSet(content'[n]),
         \/ live' = live
         \/ live = None /\ \A j \in Suffix : plain[j] # live'
  PROVE  RotationInv'
<1>1. LiveIsApart'
  BY DEF RotationInv, LiveIsApart
<1>2. \A l : (InLive(l) => InLive(l)') /\ \A j \in Suffix : InPlain(l, j) => InPlain(l, j)'
  BY DEF InLive, InPlain, RotationInv, LogTyped, LogTypeOK, None
<1>3. FoundSurvives'
  BY <1>2 DEF RotationInv, FoundSurvives
<1> QED BY <1>1, <1>3 DEF RotationInv, AllPlain, ShiftInRange

(* A line that is printed is buffered.                                       *)
LEMMA AppendLineInv == ASSUME RotationInv, AppendLine PROVE RotationInv'
<1>1. /\ printed < MaxLines /\ printed' = printed + 1 /\ pending' = Append(pending, printed + 1)
      /\ flushArmed' = TRUE /\ flushTimer' \in BOOLEAN
      /\ UNCHANGED <<compress, appends, content, live, plain, gz, rot, packing, found, tails, tailEntry>>
  BY DEF AppendLine, fileVars, tailVars
<1>2. printed' \in 0 .. MaxLines /\ pending' \in Seq(Line)
  BY <1>1, LogAssumption DEF RotationInv, LogTyped, LogTypeOK, Line
<1>3. LogTyped'
  BY <1>1, <1>2 DEF RotationInv, LogTyped, LogTypeOK
<1> QED BY <1>1, <1>3, AddsOnly

(* What is buffered goes to an append.                                       *)
LEMMA FlushBufferInv == ASSUME RotationInv, FlushBuffer PROVE RotationInv'
<1>1. /\ appends' = appends \cup {[chunk |-> pending, at |-> None]} /\ pending' = <<>>
      /\ flushTimer' = FALSE /\ flushArmed' = FALSE
      /\ UNCHANGED <<compress, printed, content, live, plain, gz, rot, packing, found, tails, tailEntry>>
  BY DEF FlushBuffer, TimerAfterFlush, fileVars, tailVars
<1>2. [chunk |-> pending, at |-> None] \in AppendCall
  BY DEF AppendCall, RotationInv, LogTyped, LogTypeOK
<1>3. pending' \in Seq(Line)
  BY <1>1
<1>4. LogTyped'
  BY <1>1, <1>2, <1>3 DEF RotationInv, LogTyped, LogTypeOK, AppendCall
<1> QED BY <1>1, <1>4, AddsOnly

(* An append finds the live file, or makes a new one under the live name.    *)
LEMMA OpenAppendInv == ASSUME RotationInv, OpenAppend PROVE RotationInv'
<1>1. PICK a \in appends :
         /\ a.at = None
         /\ \/ live # None /\ live' = live
            \/ live = None /\ FreshInode \in Inode /\ live' = FreshInode
         /\ appends' = (appends \ {a}) \cup {[a EXCEPT !.at = live']}
         /\ UNCHANGED <<compress, printed, pending, flushArmed, flushTimer, content, plain, gz, rot,
                        packing, found, tails, tailEntry>>
  BY DEF OpenAppend, flushVars, tailVars
<1>2. live' \in Inode
  BY <1>1 DEF RotationInv, LogTyped, LogTypeOK
<1>3. [a EXCEPT !.at = live'] \in AppendCall
  BY <1>2 DEF RotationInv, LogTyped, AppendCall
<1>4. LogTyped'
  BY <1>1, <1>2, <1>3 DEF RotationInv, LogTyped, LogTypeOK, AppendCall
<1>5. live = None /\ FreshInode \in Inode => \A j \in Suffix : plain[j] # FreshInode
  BY FreshIsFresh DEF RotationInv, LogTyped, LogTypeOK, FilesTyped
<1> QED BY <1>1, <1>4, <1>5, AddsOnly

(* An append adds to the file it has opened, rotated since or not.           *)
LEMMA WriteAppendInv == ASSUME RotationInv, WriteAppend PROVE RotationInv'
<1>1. PICK a \in appends :
         /\ a.at # None
         /\ content' = [content EXCEPT ![a.at] = @ \o a.chunk] /\ appends' = appends \ {a}
         /\ UNCHANGED <<compress, printed, pending, flushArmed, flushTimer, live, plain, gz, rot,
                        packing, found, tails, tailEntry>>
  BY DEF WriteAppend, flushVars, tailVars
<1>2. a.at \in Inode /\ a.chunk \in Seq(Line) /\ content \in [Inode -> Seq(Line)]
  BY <1>1 DEF RotationInv, LogTyped, LogTypeOK, AppendCall
<1>3. /\ content[a.at] \o a.chunk \in Seq(Line)
      /\ ToSet(content[a.at]) \subseteq ToSet(content[a.at] \o a.chunk)
  BY <1>2, ConcatKeeps
<1>4. content' \in [Inode -> Seq(Line)]
      /\ \A n \in Inode : ToSet(content[n]) \subseteq ToSet(content'[n])
  BY <1>1, <1>2, <1>3
<1>5. LogTyped'
  BY <1>1, <1>4 DEF RotationInv, LogTyped, LogTypeOK
<1> QED BY <1>1, <1>4, <1>5, AddsOnly

(* An append that fails leaves the files alone.                              *)
LEMMA AppendFailsInv == ASSUME RotationInv, AppendFails PROVE RotationInv'
<1>1. /\ appends' \subseteq appends
      /\ UNCHANGED <<compress, printed, pending, flushArmed, flushTimer, content, live, plain, gz, rot,
                     packing, found, tails, tailEntry>>
  BY DEF AppendFails, flushVars, fileVars, tailVars
<1>2. LogTyped'
  BY <1>1 DEF RotationInv, LogTyped, LogTypeOK
<1> QED BY <1>1, <1>2, AddsOnly

(* A file that is emptied is the live one, or none. *)
LEMMA TruncatedIs ==
  ASSUME FilesTyped, LiveIsApart, Truncated
  PROVE  /\ content' \in [Inode -> Seq(Line)] /\ live' \in Inode
         /\ \A j \in Suffix : plain[j] # live' /\ (plain[j] # None => content'[plain[j]] = content[plain[j]])
         /\ content' = content \/ (live # None /\ live' = live)
<1>1. CASE live # None /\ content' = [content EXCEPT ![live] = <<>>] /\ live' = live
  <2>1. <<>> \in Seq(Line)
    OBVIOUS
  <2> QED BY <1>1, <2>1 DEF FilesTyped, LiveIsApart
<1>2. CASE live = None /\ FreshInode \in Inode /\ live' = FreshInode /\ content' = content
  BY <1>2, FreshIsFresh DEF FilesTyped
<1> QED BY <1>1, <1>2 DEF Truncated

(* flush empties the live file, and what it held is found no more. *)
LEMMA FlushLogsInv == ASSUME RotationInv, FlushLogs PROVE RotationInv'
<1>1. /\ Truncated /\ found' = IF live = None THEN found ELSE found \ ToSet(content[live])
      /\ UNCHANGED <<compress, printed, pending, flushArmed, flushTimer, appends, plain, gz, rot,
                     packing, tails, tailEntry>>
  BY DEF FlushLogs, flushVars, tailVars
<1>2. FilesTyped /\ LiveIsApart
  BY DEF RotationInv, LogTyped, LogTypeOK, FilesTyped
<1>3. /\ content' \in [Inode -> Seq(Line)] /\ live' \in Inode
      /\ \A j \in Suffix : plain[j] # live' /\ (plain[j] # None => content'[plain[j]] = content[plain[j]])
      /\ content' = content \/ (live # None /\ live' = live)
  BY <1>1, <1>2, TruncatedIs
<1>4. LogTyped'
  BY <1>1, <1>3 DEF RotationInv, LogTyped, LogTypeOK
<1>5. \A l : \A j \in Suffix : InPlain(l, j) => InPlain(l, j)'
  BY <1>1, <1>3 DEF InPlain
<1>6. \A l \in found' : l \in found /\ ~InLive(l)
  BY <1>1 DEF InLive
<1>7. FoundSurvives'
  BY <1>1, <1>5, <1>6 DEF RotationInv, FoundSurvives
<1>8. LiveIsApart'
  BY <1>1, <1>3 DEF LiveIsApart
<1> QED BY <1>1, <1>4, <1>7, <1>8 DEF RotationInv, AllPlain, ShiftInRange

(* A rotation begins: what it may lose is what its oldest file holds. *)
LEMMA RotateBeginsInv == ASSUME RotationInv, RotateBegins PROVE RotationInv'
<1>1. /\ live # None /\ found' = OnDisk \ Displaced /\ rot' = [at |-> "shift", i |-> Retain - 1]
      /\ UNCHANGED <<compress, printed, pending, flushArmed, flushTimer, appends, content, live, plain,
                     gz, packing, tails, tailEntry>>
  BY DEF RotateBegins, flushVars, fileVars, tailVars
<1>2. FilesTyped
  BY DEF RotationInv, LogTyped, LogTypeOK, FilesTyped
<1>3. found' \subseteq Line
  <2>1. OnDisk \subseteq Line
    <3>1. \A n \in Inode : ToSet(content[n]) \subseteq Line
      BY <1>2, LinesOf DEF FilesTyped
    <3>2. \A i \in Suffix : ToSet(gz[i]) \subseteq Line
      BY <1>2, LinesOf DEF FilesTyped
    <3>3. \A i \in Suffix : plain[i] # None => plain[i] \in Inode
      BY <1>2 DEF FilesTyped
    <3>4. live \in Inode
      BY <1>1, <1>2 DEF FilesTyped
    <3> SUFFICES ASSUME NEW l \in OnDisk PROVE l \in Line
      OBVIOUS
    <3>5. \/ l \in ToSet(content[live])
          \/ \E i \in Suffix : plain[i] # None /\ l \in ToSet(content[plain[i]])
          \/ \E i \in Suffix : l \in ToSet(gz[i])
      <4>1. l \in Archived \/ l \in ToSet(content[live])
        BY DEF OnDisk
      <4>2. l \in Archived => \E i \in Suffix : \/ plain[i] # None /\ l \in ToSet(content[plain[i]])
                                              \/ l \in ToSet(gz[i])
        BY DEF Archived
      <4> QED BY <4>1, <4>2
    <3> QED BY <3>1, <3>2, <3>3, <3>4, <3>5
  <2> QED BY <1>1, <2>1
<1>4. Retain - 1 \in 0 .. Retain /\ Retain - 1 \in 0 .. Retain - 1
  BY LogAssumption
<1>5. LogTyped'
  BY <1>1, <1>3, <1>4 DEF RotationInv, LogTyped, LogTypeOK
<1>6. ASSUME ~compress, NEW l \in found'
      PROVE  /\ Retain - 1 \in Suffix => InLive(l) \/ \E j \in Suffix \ {Retain - 1} : InPlain(l, j)
             /\ Retain - 1 \in Suffix
                \/ \E j \in Suffix : InPlain(l, j)
  <2>1. InLive(l) \/ \E j \in Suffix : InPlain(l, j)
    <3>1. \A i \in Suffix : ToSet(gz[i]) = {}
      BY <1>2, <1>6, LinesOf DEF RotationInv, AllPlain, FilesTyped
    <3> QED BY <1>1, <1>6, <3>1 DEF OnDisk, Archived, InLive, InPlain
  <2>2. CASE Retain = 1
    <3>1. Displaced = ToSet(content[live]) /\ Suffix = {}
      BY <1>1, <2>2 DEF Displaced, Oldest, Suffix
    <3> QED BY <1>1, <1>6, <2>1, <3>1 DEF InLive
  <2>3. CASE Retain # 1
    <3>1. Retain - 1 \in Suffix
      BY <2>3, LogAssumption DEF Suffix
    <3>2. ~InPlain(l, Retain - 1)
      BY <1>1, <1>6, <2>3 DEF Displaced, Oldest, InPlain
    <3> QED BY <2>1, <3>1, <3>2
  <2> QED BY <2>2, <2>3
<1>7. FoundSurvives'
  <2>1. rot'.at = "shift" /\ rot'.i = Retain - 1
    BY <1>1
  <2>2. \A l : (InLive(l)' <=> InLive(l)) /\ \A j : InPlain(l, j)' <=> InPlain(l, j)
    BY <1>1 DEF InLive, InPlain
  <2> QED BY <1>1, <1>6, <2>1, <2>2 DEF FoundSurvives
<1>8. ShiftInRange'
  BY <1>1, <1>4 DEF ShiftInRange
<1> QED BY <1>1, <1>5, <1>7, <1>8 DEF RotationInv, AllPlain, LiveIsApart

(* A round of the loop moves a file one name up, over one whose lines are     *)
(* elsewhere or may go.                                                      *)
LEMMA ShiftInv == ASSUME RotationInv, Shift PROVE RotationInv'
<1> DEFINE i == rot.i
           src == IF i = 1 THEN live ELSE plain[i - 1]
<1>1. /\ rot.at = "shift" /\ i \in Suffix
      /\ rot' = [rot EXCEPT !.i = i - 1]
      /\ UNCHANGED <<compress, printed, pending, flushArmed, flushTimer, appends, content, gz, found,
                     tails, tailEntry>>
  BY DEF Shift, ShiftOrder, flushVars, tailVars
<1>2. \/ src = None /\ UNCHANGED <<live, plain, packing>>
      \/ /\ src # None
         /\ plain' = IF i = 1 THEN [plain EXCEPT ![1] = src]
                     ELSE [plain EXCEPT ![i] = src, ![i - 1] = None]
         /\ live' = IF i = 1 THEN None ELSE live
         /\ packing' = IF compress THEN packing \cup {[i |-> i, at |-> "read", data |-> <<>>]}
                       ELSE packing
  BY DEF Shift
<1>3. FilesTyped /\ LiveIsApart
  BY DEF RotationInv, LogTyped, LogTypeOK, FilesTyped
<1>4. i \in Nat /\ i >= 1 /\ i - 1 \in 0 .. Retain /\ i - 1 \in 0 .. Retain - 1
      /\ (i # 1 => i - 1 \in Suffix) /\ (i - 1 \in Suffix => i # 1) /\ i - 1 # i
  BY <1>1, LogAssumption DEF Suffix
<1>5. src \in Inode \cup {None}
  BY <1>3, <1>4 DEF FilesTyped
<1> HIDE DEF i, src
<1>6. plain' \in [Suffix -> Inode \cup {None}] /\ live' \in Inode \cup {None}
  BY <1>1, <1>2, <1>3, <1>5 DEF FilesTyped
<1>7. packing' \subseteq Task
  <2>1. [i |-> i, at |-> "read", data |-> <<>>] \in Task
    BY <1>1 DEF Task
  <2> QED BY <1>2, <2>1 DEF RotationInv, LogTyped
<1>8. rot' \in [at : {"idle", "shift", "tidy"}, i : 0 .. Retain] /\ rot'.at = "shift" /\ rot'.i = i - 1
  BY <1>1, <1>4 DEF RotationInv, LogTyped, LogTypeOK
<1>9. LogTyped'
  BY <1>1, <1>6, <1>7, <1>8 DEF RotationInv, LogTyped, LogTypeOK
<1>10. /\ src # None => plain'[i] = src
       /\ \A j \in Suffix : j # i /\ (src # None => j # i - 1) => plain'[j] = plain[j]
       /\ src # None /\ i # 1 => plain'[i - 1] = None
       /\ src # None /\ i = 1 => live' = None
       /\ src = None => plain'[i] = plain[i]
       /\ src = None \/ i # 1 => live' = live
  BY <1>1, <1>2, <1>3, <1>4 DEF FilesTyped
<1>11. src = (IF i = 1 THEN live ELSE plain[i - 1])
  BY DEF src
<1>12. LiveIsApart'
  <2> SUFFICES ASSUME live' # None, NEW j \in Suffix PROVE plain'[j] # live'
    BY DEF LiveIsApart
  <2>1. live' = live /\ live # None /\ \A k \in Suffix : plain[k] # live
    BY <1>2, <1>3, <1>10 DEF LiveIsApart
  <2>2. CASE src = None
    BY <1>2, <2>1, <2>2
  <2>3. CASE src # None /\ i # 1
    BY <1>4, <1>10, <1>11, <2>1, <2>3 DEF None
  <2>4. CASE src # None /\ i = 1
    BY <1>10, <2>4
  <2> QED BY <2>2, <2>3, <2>4
<1>13. ASSUME ~compress, NEW l \in found
       PROVE  /\ i # 1 => InLive(l)' \/ \E j \in Suffix \ {i - 1} : InPlain(l, j)'
              /\ i = 1 => \E j \in Suffix : InPlain(l, j)'
  <2>1. InLive(l) \/ \E j \in Suffix \ {i} : InPlain(l, j)
    BY <1>1, <1>13 DEF RotationInv, FoundSurvives, i
  <2>2. CASE InLive(l) /\ i # 1
    BY <1>1, <1>2, <1>10, <2>2 DEF InLive
  <2>3. CASE InLive(l) /\ i = 1
    <3>1. src = live /\ src # None
      BY <1>11, <2>3 DEF InLive
    <3>2. plain'[i] = live
      BY <1>10, <3>1
    <3> QED BY <1>1, <2>3, <3>1, <3>2 DEF InLive, InPlain
  <2>4. ASSUME NEW j \in Suffix \ {i}, InPlain(l, j)
        PROVE  \E k \in Suffix \ {i - 1} : InPlain(l, k)'
    <3>1. plain[j] # None /\ l \in ToSet(content[plain[j]])
      BY <2>4 DEF InPlain
    <3>2. CASE j = i - 1
      <4>1. i # 1 /\ src = plain[j] /\ plain'[i] = src
        BY <1>4, <1>10, <1>11, <3>1, <3>2
      <4>2. plain'[i] # None /\ l \in ToSet(content'[plain'[i]])
        BY <1>1, <3>1, <4>1
      <4>3. i \in Suffix \ {i - 1}
        BY <1>1, <1>4
      <4> QED BY <4>2, <4>3 DEF InPlain
    <3>3. CASE j # i - 1
      <4>1. plain'[j] = plain[j]
        BY <1>10, <2>4, <3>3
      <4>2. InPlain(l, j)'
        BY <1>1, <3>1, <4>1 DEF InPlain
      <4> QED BY <2>4, <3>3, <4>2
    <3> QED BY <3>2, <3>3
  <2> QED BY <2>1, <2>2, <2>3, <2>4
<1>14. FoundSurvives'
  BY <1>1, <1>4, <1>8, <1>13 DEF FoundSurvives
<1>15. AllPlain'
  BY <1>1, <1>2 DEF RotationInv, AllPlain
<1> QED BY <1>4, <1>8, <1>9, <1>12, <1>14, <1>15 DEF RotationInv, ShiftInRange

(* After the last round the live file is emptied; what it took over is in .1. *)
LEMMA TruncateLiveInv == ASSUME RotationInv, TruncateLive PROVE RotationInv'
<1>1. /\ rot.at = "shift" /\ rot.i \notin Suffix /\ Truncated /\ rot' = [at |-> "tidy", i |-> 0]
      /\ UNCHANGED <<compress, printed, pending, flushArmed, flushTimer, appends, plain, gz, found,
                     packing, tails, tailEntry>>
  BY DEF TruncateLive, flushVars, tailVars
<1>2. FilesTyped /\ LiveIsApart
  BY DEF RotationInv, LogTyped, LogTypeOK, FilesTyped
<1>3. /\ content' \in [Inode -> Seq(Line)] /\ live' \in Inode
      /\ \A j \in Suffix : plain[j] # live' /\ (plain[j] # None => content'[plain[j]] = content[plain[j]])
  BY <1>1, <1>2, TruncatedIs
<1>4. 0 \in 0 .. Retain
  BY LogAssumption
<1>5. LogTyped'
  BY <1>1, <1>3, <1>4 DEF RotationInv, LogTyped, LogTypeOK
<1>6. \A l : \A j \in Suffix : InPlain(l, j) => InPlain(l, j)'
  BY <1>1, <1>3 DEF InPlain
<1>7. FoundSurvives'
  BY <1>1, <1>6 DEF RotationInv, FoundSurvives
<1>8. LiveIsApart'
  BY <1>1, <1>3 DEF LiveIsApart
<1> QED BY <1>1, <1>5, <1>7, <1>8 DEF RotationInv, AllPlain, ShiftInRange

(* The names are too few for a surplus, unless some are of compressed files. *)
LEMMA NoSurplus == ASSUME RotationInv, ~compress PROVE Surplus = {}
<1>1. Rotations \subseteq Suffix \X {0}
  <2> SUFFICES ASSUME NEW f \in Rotations PROVE f \in Suffix \X {0}
    OBVIOUS
  <2>1. f \in Suffix \X {0, 1} /\ (IF f[2] = 0 THEN plain[f[1]] # None ELSE gz[f[1]] # <<>>)
    BY DEF Rotations
  <2>2. f[1] \in Suffix /\ f[2] \in {0, 1} /\ f = <<f[1], f[2]>>
    BY <2>1
  <2>3. f[2] = 0
    BY <2>1, <2>2 DEF RotationInv, AllPlain
  <2> QED BY <2>2, <2>3
<1>2. IsFiniteSet({0}) /\ Cardinality({0}) = 1
  BY FS_Singleton
<1>3. IsFiniteSet(Suffix \X {0}) /\ Cardinality(Suffix \X {0}) = Cardinality(Suffix) * 1
  BY <1>2, ConstantsAreNat, FS_Product
<1>4. Cardinality(Suffix) \in Nat /\ Cardinality(Suffix) < Retain
  BY ConstantsAreNat, FS_CardinalityType
<1>5. ASSUME NEW f \in Rotations PROVE ~(Rank(f) > Retain)
  <2> DEFINE G == {g \in Rotations : g[1] > f[1] \/ (g[1] = f[1] /\ g[2] >= f[2])}
  <2>1. G \in SUBSET (Suffix \X {0})
    BY <1>1
  <2>2. Rank(f) = Cardinality(G)
    BY DEF Rank
  <2> HIDE DEF G
  <2>3. Cardinality(G) <= Cardinality(Suffix \X {0}) /\ IsFiniteSet(G)
    BY <1>3, <2>1, FS_Subset
  <2>4. Cardinality(G) \in Nat
    BY <2>3, FS_CardinalityType
  <2> QED BY <1>3, <1>4, <2>2, <2>3, <2>4, LogAssumption
<1> QED BY <1>5 DEF Surplus

(* Tidying up only takes names away.                                         *)
LEMMA TidyUpInv == ASSUME RotationInv, TidyUp PROVE RotationInv'
<1>1. /\ rot' = Idle
      /\ plain' = [i \in Suffix |-> IF <<i, 0>> \in Surplus THEN None ELSE plain[i]]
      /\ gz' = [i \in Suffix |-> IF <<i, 1>> \in Surplus THEN <<>> ELSE gz[i]]
      /\ UNCHANGED <<compress, printed, pending, flushArmed, flushTimer, appends, content, live, found,
                     packing, tails, tailEntry>>
  BY DEF TidyUp, flushVars, tailVars
<1>2. plain' \in [Suffix -> Inode \cup {None}] /\ gz' \in [Suffix -> Seq(Line)]
  <2>1. <<>> \in Seq(Line)
    OBVIOUS
  <2> QED BY <1>1, <2>1 DEF RotationInv, LogTyped, LogTypeOK
<1>3. rot' \in [at : {"idle", "shift", "tidy"}, i : 0 .. Retain] /\ rot'.at = "idle"
  BY <1>1, LogAssumption DEF Idle
<1>4. LogTyped'
  BY <1>1, <1>2, <1>3 DEF RotationInv, LogTyped, LogTypeOK
<1>5. LiveIsApart'
  BY <1>1 DEF RotationInv, LiveIsApart, None
<1>6. AllPlain'
  BY <1>1 DEF RotationInv, AllPlain
<1> QED BY <1>3, <1>4, <1>5, <1>6 DEF RotationInv, FoundSurvives, ShiftInRange

(* The compression of a file works beside, when there is one. *)
LEMMA PackInv == ASSUME RotationInv, Pack PROVE RotationInv'
<1>1. PICK t \in packing :
       \/ /\ t.at = "read" /\ plain[t.i] # None
          /\ packing' = (packing \ {t}) \cup {[t EXCEPT !.at = "write", !.data = content[plain[t.i]]]}
          /\ UNCHANGED <<plain, gz>>
       \/ /\ packing' = packing \ {t} /\ UNCHANGED <<plain, gz>>
       \/ /\ gz' = [gz EXCEPT ![t.i] = t.data] /\ plain' = plain
          /\ packing' = (packing \ {t}) \cup {[t EXCEPT !.at = "unlink", !.data = <<>>]}
       \/ /\ plain' = [plain EXCEPT ![t.i] = None] /\ gz' = gz
          /\ packing' = packing \ {t}
  BY DEF Pack
<1>2. UNCHANGED <<compress, printed, pending, flushArmed, flushTimer, appends, content, live, rot, found,
                  tails, tailEntry>>
  BY DEF Pack, flushVars, tailVars
<1>3. FilesTyped
  BY DEF RotationInv, LogTyped, LogTypeOK, FilesTyped
<1>4. t \in Task /\ t.i \in Suffix /\ t.data \in Seq(Line) /\ packing \subseteq Task
  BY DEF RotationInv, LogTyped, Task
<1>5. ASSUME NEW at \in {"read", "write", "unlink"}, NEW d \in Seq(Line)
      PROVE  [t EXCEPT !.at = at, !.data = d] \in Task
  BY <1>4 DEF Task
<1>6. plain[t.i] # None => content[plain[t.i]] \in Seq(Line)
  BY <1>3, <1>4 DEF FilesTyped
<1>7. <<>> \in Seq(Line)
  OBVIOUS
<1>8. packing' \subseteq Task
  <2>1. plain[t.i] # None => [t EXCEPT !.at = "write", !.data = content[plain[t.i]]] \in Task
    BY <1>5, <1>6
  <2>2. [t EXCEPT !.at = "unlink", !.data = <<>>] \in Task
    BY <1>5, <1>7
  <2> QED BY <1>1, <1>4, <2>1, <2>2
<1>9. plain' \in [Suffix -> Inode \cup {None}] /\ gz' \in [Suffix -> Seq(Line)]
      /\ \A j \in Suffix : plain'[j] \in {plain[j], None}
  BY <1>1, <1>3, <1>4 DEF FilesTyped
<1>10. LogTyped'
  BY <1>2, <1>8, <1>9 DEF RotationInv, LogTyped, LogTypeOK
<1>11. LiveIsApart'
  BY <1>2, <1>9 DEF RotationInv, LiveIsApart
<1>12. compress
  BY DEF RotationInv, AllPlain
<1> QED BY <1>2, <1>10, <1>11, <1>12 DEF RotationInv, AllPlain, FoundSurvives, ShiftInRange

(* Tails watch the files and leave them alone. *)
LEMMA TailInv == ASSUME RotationInv, TailNext PROVE RotationInv'
<1>1. UNCHANGED <<compress, printed, pending, flushArmed, flushTimer, appends, content, live, plain,
                  gz, rot, packing, found>>
  BY DEF TailNext, WatchLogs, StopWatch, flushVars, fileVars
<1>2. tails' \subseteq Watches /\ tailEntry' \in Watches \cup {NoTail}
  BY DEF TailNext, WatchLogs, StopWatch, StopTail, EntryAfterStop, RotationInv, LogTyped, LogTypeOK
<1>3. LogTyped'
  BY <1>1, <1>2 DEF RotationInv, LogTyped, LogTypeOK
<1> QED BY <1>1, <1>3, AddsOnly

(* Every step of the log keeps the invariant.                                *)
LEMMA RotationInvNext == RotationInv /\ [LogNext]_logVars => RotationInv'
<1> SUFFICES ASSUME RotationInv, [LogNext]_logVars PROVE RotationInv'
  OBVIOUS
<1>1. CASE UNCHANGED logVars
  <2>1. UNCHANGED <<compress, printed, pending, flushArmed, flushTimer, appends, content, live, plain,
                    gz, rot, packing, found, tails, tailEntry>>
    BY <1>1 DEF logVars, flushVars
  <2>2. LogTyped'
    BY <2>1 DEF RotationInv, LogTyped, LogTypeOK
  <2> QED BY <2>1, <2>2, AddsOnly
<1> QED BY <1>1, AppendLineInv, FlushBufferInv, OpenAppendInv, WriteAppendInv, AppendFailsInv,
           FlushLogsInv, RotateBeginsInv, ShiftInv, TruncateLiveInv, TidyUpInv, PackInv, TailInv
        DEF LogNext, FileNext

(* At first there are no files.                                              *)
LEMMA RotationInvInit == LogInit => RotationInv
<1> SUFFICES ASSUME LogInit PROVE RotationInv
  OBVIOUS
<1>1. <<>> \in Seq(Line) /\ 0 \in 0 .. MaxLines /\ 0 \in 0 .. Retain
  BY LogAssumption
<1>2. LogTypeOK
  BY <1>1 DEF LogInit, LogTypeOK, Idle
<1> QED BY <1>2 DEF LogInit, RotationInv, LogTyped, LiveIsApart, AllPlain, FoundSurvives,
                    ShiftInRange, Idle

(* Every file, buffer and task holds lines that were printed, and every name  *)
(* refers to a file or to none.                                              *)
THEOREM LogTypeCorrect == LogSpec => []LogTypeOK
<1>1. RotationInv => LogTypeOK
  BY DEF RotationInv, LogTyped
<1> QED BY <1>1, RotationInvInit, RotationInvNext, PTL DEF LogSpec

(* For any number of lines, generations, rotations and appends that cross a   *)
(* rename: an uncompressed rotation loses what its oldest file held, and no   *)
(* other line.                                                               *)
THEOREM RotationAlwaysLosesOnlyOldest == LogSpec => RotationLosesOnlyOldest
<1>1. ASSUME RotationInv, [LogNext]_logVars, rot.at = "tidy", rot'.at = "idle", ~compress
      PROVE  found \subseteq OnDisk'
  <2>1. TidyUp
    <3>1. rot' # rot
      BY <1>1
    <3>2. ~UNCHANGED logVars /\ ~TailNext /\ ~Pack /\ ~FlushLogs
      BY <3>1 DEF logVars, TailNext, WatchLogs, StopWatch, Pack, FlushLogs
    <3>3. ~AppendLine /\ ~FlushBuffer /\ ~OpenAppend /\ ~WriteAppend /\ ~AppendFails
      BY <3>1 DEF AppendLine, FlushBuffer, OpenAppend, WriteAppend, AppendFails
    <3>4. ~RotateBegins /\ ~Shift /\ ~TruncateLive
      BY <1>1 DEF RotateBegins, Shift, TruncateLive, Idle
    <3> QED BY <1>1, <3>2, <3>3, <3>4 DEF LogNext, FileNext
  <2>2. Surplus = {}
    BY <1>1, NoSurplus
  <2>3. content' = content /\ \A j \in Suffix : plain'[j] = plain[j]
    BY <2>1, <2>2 DEF TidyUp
  <2>4. \A l \in found : \E j \in Suffix : InPlain(l, j)
    BY <1>1 DEF RotationInv, FoundSurvives
  <2> QED BY <2>3, <2>4 DEF InPlain, OnDisk, Archived
<1>2. RotationInv /\ [LogNext]_logVars =>
        [(rot.at = "tidy" /\ rot'.at = "idle" /\ ~compress) => found \subseteq OnDisk']_logVars
  BY <1>1
<1> QED BY <1>2, RotationInvInit, RotationInvNext, PTL DEF LogSpec, RotationLosesOnlyOldest

-----------------------------------------------------------------------------
(* What a search finds *)

(* Every place where a line of s matches is in the part that is scanned, or is *)
(* passed over.                                                              *)
LEMMA ScannedOrOld ==
  ASSUME NEW s \in Seq(Line), NEW l \in ToSet(s), l \notin PassedOver(s, FALSE)
  PROVE  \E k \in Recent(s) : s[k] = l
<1>1. PICK k \in DOMAIN s : s[k] = l
  BY DEF ToSet
<1>2. k \in Recent(s)
  BY <1>1 DEF PassedOver
<1> QED BY <1>1, <1>2

(* What a name holds is a list of lines, and a name that is scanned is one of *)
(* finitely many.                                                            *)
LEMMA LinesTyped ==
  ASSUME FilesTyped, NEW g \in Expanded, NEW gzFirst \in SUBSET Suffix
  PROVE  Lines(g, gzFirst) \in Seq(Line)
<1>1. g = 0 \/ g \in Suffix
  BY LogAssumption DEF Expanded, Suffix
<1>2. 0 \notin Suffix
  BY DEF Suffix
<1> QED BY <1>1, <1>2 DEF FilesTyped, Lines

(* A search that is not truncated has every place that matches.              *)
LEMMA SearchGetsToTheEnd ==
  ASSUME FilesTyped, NEW hits, NEW max \in Nat, NEW unread, NEW gzFirst \in SUBSET Suffix,
         ~SearchLogs(hits, max, unread, gzFirst).truncated,
         NEW g \in Expanded \ unread, NEW k \in Recent(Lines(g, gzFirst)),
         Lines(g, gzFirst)[k] \in hits
  PROVE  Lines(g, gzFirst)[k] \in SearchLogs(hits, max, unread, gzFirst).matches
<1> DEFINE At(h) == {i \in Recent(Lines(h, gzFirst)) : Lines(h, gzFirst)[i] \in hits}
           Row(h) == {<<h, i>> : i \in At(h)}
           places == UNION {Row(h) : h \in Expanded \ unread}
           Before(x) == {y \in places : y[1] < x[1] \/ (y[1] = x[1] /\ y[2] < x[2])}
<1>1. /\ SearchLogs(hits, max, unread, gzFirst).matches =
           {Lines(x[1], gzFirst)[x[2]] : x \in {y \in places : Cardinality(Before(y)) < max}}
      /\ ~(Cardinality(places) >= max)
  BY DEF SearchLogs
<1>2. ASSUME NEW h \in Expanded \ unread PROVE IsFiniteSet(Row(h))
  <2>1. Lines(h, gzFirst) \in Seq(Line)
    BY <1>2, LinesTyped
  <2>2. Len(Lines(h, gzFirst)) \in Nat /\ DOMAIN Lines(h, gzFirst) = 1 .. Len(Lines(h, gzFirst))
    BY <2>1, LenProperties
  <2>3. IsFiniteSet(1 .. Len(Lines(h, gzFirst)))
    BY <2>2, FS_Interval
  <2>4. At(h) \subseteq 1 .. Len(Lines(h, gzFirst))
    BY <2>2 DEF Recent
  <2>5. IsFiniteSet(At(h))
    BY <2>3, <2>4, FS_Subset
  <2> HIDE DEF At
  <2>6. [i \in At(h) |-> <<h, i>>] \in Surjection(At(h), Row(h))
    BY DEF Surjection
  <2> QED BY <2>5, <2>6, FS_Surjection
<1>3. IsFiniteSet(places)
  <2>1. IsFiniteSet({Row(h) : h \in Expanded \ unread})
    <3>1. IsFiniteSet(Expanded \ unread)
      <4>1. IsFiniteSet(0 .. Retain - 1)
        BY LogAssumption, FS_Interval
      <4> QED BY <4>1, FS_Subset DEF Expanded
    <3> HIDE DEF Row
    <3>2. [h \in Expanded \ unread |-> Row(h)]
            \in Surjection(Expanded \ unread, {Row(h) : h \in Expanded \ unread})
      BY DEF Surjection
    <3> QED BY <3>1, <3>2, FS_Surjection
  <2>2. \A r \in {Row(h) : h \in Expanded \ unread} : IsFiniteSet(r)
    <3> HIDE DEF Row
    <3> QED BY <1>2
  <2> HIDE DEF Row
  <2> QED BY <2>1, <2>2, FS_UNION
<1>4. <<g, k>> \in places
  <2>1. k \in At(g)
    OBVIOUS
  <2>2. <<g, k>> \in Row(g)
    <3> HIDE DEF At
    <3> QED BY <2>1
  <2> HIDE DEF Row
  <2> QED BY <2>2
<1>5. Before(<<g, k>>) \subseteq places
  <2> HIDE DEF places
  <2> QED OBVIOUS
<1>6. /\ Cardinality(places) \in Nat /\ Cardinality(Before(<<g, k>>)) \in Nat
      /\ Cardinality(Before(<<g, k>>)) <= Cardinality(places)
  <2> HIDE DEF places, Before
  <2> QED BY <1>3, <1>5, FS_Subset, FS_CardinalityType
<1>7. Cardinality(Before(<<g, k>>)) < max
  <2> HIDE DEF places, Before
  <2> QED BY <1>1, <1>6
<1> HIDE DEF places, Before
<1> DEFINE x == <<g, k>>
<1>8. x \in {y \in places : Cardinality(Before(y)) < max} /\ x[1] = g /\ x[2] = k
  BY <1>4, <1>7
<1> HIDE DEF x
<1> QED BY <1>1, <1>8

(* searchLogFiles(): for any number of lines, generations and unreadable files *)
(* and any cap, the search of an uncompressed log between rotations finds what *)
(* is on disk in the part that it reads, or says that it is truncated.        *)
THEOREM SearchAlwaysHonest == LogSpec => []SearchIsHonest
<1>1. RotationInv => SearchIsHonest
  <2> SUFFICES ASSUME RotationInv, ~compress, NEW hits \in SUBSET OnDisk, NEW max \in 1 .. MaxLines,
                      NEW unread \in SUBSET (0 .. Retain - 1),
                      NEW gzFirst \in SUBSET {i \in Suffix : gz[i] # <<>>},
                      ~SearchLogs(hits, max, unread, gzFirst).truncated,
                      NEW l \in hits \ SearchLogs(hits, max, unread, gzFirst).matches
               PROVE  \/ live # None /\ l \in PassedOver(content[live], 0 \in unread)
                      \/ \E i \in Suffix : /\ plain[i] # None
                                           /\ l \in PassedOver(content[plain[i]], i \in unread)
    BY DEF SearchIsHonest
  <2>1. FilesTyped /\ gzFirst = {} /\ \A i \in Suffix : gz[i] = <<>>
    BY DEF RotationInv, LogTyped, LogTypeOK, FilesTyped, AllPlain
  <2>2. max \in Nat
    BY LogAssumption
  <2>3. ASSUME NEW g \in Expanded, l \in ToSet(Lines(g, gzFirst))
        PROVE  l \in PassedOver(Lines(g, gzFirst), g \in unread)
    <3>1. CASE g \in unread
      BY <2>3, <3>1 DEF PassedOver
    <3>2. CASE g \notin unread
      <4> SUFFICES ASSUME l \notin PassedOver(Lines(g, gzFirst), FALSE) PROVE FALSE
        BY <3>2 DEF PassedOver
      <4>1. Lines(g, gzFirst) \in Seq(Line)
        BY <2>1, LinesTyped
      <4>2. PICK k \in Recent(Lines(g, gzFirst)) : Lines(g, gzFirst)[k] = l
        BY <2>3, <4>1, ScannedOrOld
      <4>3. Lines(g, gzFirst)[k] \in SearchLogs(hits, max, unread, gzFirst).matches
        BY <2>1, <2>2, <3>2, <4>2, SearchGetsToTheEnd
      <4> QED BY <4>2, <4>3
    <3> QED BY <3>1, <3>2
  <2>4. CASE live # None /\ l \in ToSet(content[live])
    <3>1. 0 \in Expanded /\ Lines(0, gzFirst) = content[live]
      BY <2>4, LogAssumption DEF Expanded, Lines
    <3> QED BY <2>3, <2>4, <3>1
  <2>5. ASSUME NEW i \in Suffix, plain[i] # None, l \in ToSet(content[plain[i]])
        PROVE  l \in PassedOver(content[plain[i]], i \in unread)
    <3>1. i \in Expanded /\ i # 0
      BY LogAssumption DEF Expanded, Suffix
    <3>2. Lines(i, gzFirst) = content[plain[i]]
      BY <2>1, <2>5, <3>1 DEF Lines
    <3> QED BY <2>3, <2>5, <3>1, <3>2
  <2>6. l \in OnDisk /\ \A i \in Suffix : ToSet(gz[i]) = {}
    BY <2>1 DEF ToSet
  <2> QED BY <2>4, <2>5, <2>6 DEF OnDisk, Archived
<1> QED BY <1>1, RotationInvInit, RotationInvNext, PTL DEF LogSpec

(* Whatever appends, flushes, rotations and tails do, and in any order: what  *)
(* a process prints is flushed without waiting for the next line, sent once   *)
(* to a follower, and found by a search that reads it.                        *)
THEOREM LinesAlwaysComeThrough == LogSpec => []LinesComeThrough
<1>1. FlushIsComing /\ OneTail /\ SearchIsHonest => LinesComeThrough
  BY DEF LinesComeThrough
<1> QED BY <1>1, FlushAlwaysComing, AlwaysOneTail, SearchAlwaysHonest, PTL
=============================================================================
