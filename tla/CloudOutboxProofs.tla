-------------------------- MODULE CloudOutboxProofs ---------------------------
(***************************************************************************)
(* Proofs about CloudOutbox, for every number of events and failures, any  *)
(* set of overlapping calls and every cap of the queue and of a report.    *)
(*                                                                         *)
(* The first part is about queues and one observation of the process; the *)
(* second about the type, the events of a crash and the queue as a channel.*)
(***************************************************************************)
EXTENDS CloudOutbox, NaturalOrder, SequenceTheorems, TLAPS

-----------------------------------------------------------------------------
(* Cutting, joining and pruning queues *)

(* The head of a queue is part of it, and within the limit. *)
LEMMA UpToElements ==
  ASSUME NEW T, NEW s \in Seq(T), NEW n \in Nat
  PROVE  /\ UpTo(n, s) \in Seq(T)
         /\ Len(UpTo(n, s)) <= n /\ Len(UpTo(n, s)) <= Len(s)
         /\ \A i \in 1 .. Len(UpTo(n, s)) : UpTo(n, s)[i] = s[i]
         /\ ToSet(UpTo(n, s)) \subseteq ToSet(s)
<1> DEFINE m == IF n < Len(s) THEN n ELSE Len(s)
<1>1. Len(s) \in Nat /\ DOMAIN s = 1 .. Len(s) /\ \A i \in 1 .. Len(s) : s[i] \in T
  BY LenProperties, ElementOfSeq
<1>2. m \in Nat /\ m <= n /\ m <= Len(s)
  BY <1>1
<1> HIDE DEF m
<1>3. \A i \in 1 .. m : s[i] \in T
  BY <1>1, <1>2
<1> DEFINE r == SubSeq(s, 1, m)
<1>4. r \in Seq(T) /\ Len(r) = m /\ \A i \in 1 .. m : r[i] = s[i]
  <2>1. 1 \in Int /\ m \in Int BY <1>2
  <2>2. r \in Seq(T) /\ Len(r) = (IF 1 <= m THEN m - 1 + 1 ELSE 0)
        /\ \A i \in 1 .. m - 1 + 1 : r[i] = s[1 + i - 1]
    BY <2>1, <1>3, SubSeqProperties
  <2> QED BY <2>2, <1>2
<1>5. UpTo(n, s) = r
  BY DEF UpTo, m
<1> HIDE DEF r
<1>6. DOMAIN r = 1 .. m
  BY <1>4, LenProperties
<1>7. ToSet(r) \subseteq ToSet(s)
  BY <1>1, <1>2, <1>4, <1>6 DEF ToSet
<1> QED BY <1>2, <1>4, <1>5, <1>7

(* What is left after pruning was in the box. *)
LEMMA PrunedElements ==
  ASSUME NEW box \in Seq(Events), NEW kept \in Pruned(box)
  PROVE  kept \in Seq(Events) /\ ToSet(kept) \subseteq ToSet(box)
<1>1. PICK k : kept = LET young == Among(box, {e \in Events : e > k})
                      IN SubSeq(young, IF Len(young) > OutboxMax THEN Len(young) - OutboxMax + 1
                                       ELSE 1, Len(young))
  BY DEF Pruned
<1> DEFINE young == Among(box, {e \in Events : e > k})
           first == IF Len(young) > OutboxMax THEN Len(young) - OutboxMax + 1 ELSE 1
<1>2. young \in Seq(Events) /\ ToSet(young) \subseteq ToSet(box)
  BY AmongElements
<1> HIDE DEF young
<1>3. Len(young) \in Nat /\ DOMAIN young = 1 .. Len(young)
      /\ \A i \in 1 .. Len(young) : young[i] \in Events
  BY <1>2, LenProperties, ElementOfSeq
<1>4. first \in Int /\ first >= 1
  BY <1>3, OutboxAssumption
<1>5. kept = SubSeq(young, first, Len(young))
  BY <1>1 DEF young
<1> HIDE DEF first
<1>6. \A i \in first .. Len(young) : young[i] \in Events
  BY <1>3, <1>4
<1>7. /\ kept \in Seq(Events)
      /\ Len(kept) = (IF first <= Len(young) THEN Len(young) - first + 1 ELSE 0)
      /\ \A i \in 1 .. Len(young) - first + 1 : kept[i] = young[first + i - 1]
  BY <1>3, <1>4, <1>5, <1>6, SubSeqProperties
<1>8. DOMAIN kept = 1 .. Len(kept)
  BY <1>7, LenProperties
<1>9. \A i \in 1 .. Len(kept) : kept[i] = young[first + i - 1] /\ first + i - 1 \in 1 .. Len(young)
  BY <1>3, <1>4, <1>7
<1>10. ToSet(kept) \subseteq ToSet(young)
  BY <1>3, <1>8, <1>9 DEF ToSet
<1> QED BY <1>2, <1>7, <1>10

(* Joining two queues joins what they hold. *)
LEMMA ConcatElements ==
  ASSUME NEW T, NEW s \in Seq(T), NEW t \in Seq(T)
  PROVE  s \o t \in Seq(T) /\ ToSet(s \o t) = ToSet(s) \cup ToSet(t)
<1> DEFINE r == s \o t
<1>1. /\ r \in Seq(T) /\ Len(r) = Len(s) + Len(t)
      /\ \A i \in 1 .. Len(s) + Len(t) : r[i] = IF i <= Len(s) THEN s[i] ELSE t[i - Len(s)]
  BY ConcatProperties
<1> HIDE DEF r
<1>2. /\ DOMAIN s = 1 .. Len(s) /\ DOMAIN t = 1 .. Len(t) /\ DOMAIN r = 1 .. Len(r)
      /\ Len(s) \in Nat /\ Len(t) \in Nat
  BY <1>1, LenProperties
<1>3. ASSUME NEW i \in 1 .. Len(r) PROVE r[i] \in ToSet(s) \cup ToSet(t)
  <2>1. CASE i <= Len(s)
    BY <2>1, <1>1, <1>2 DEF ToSet
  <2>2. CASE i > Len(s)
    <3>1. i - Len(s) \in 1 .. Len(t) /\ r[i] = t[i - Len(s)]
      BY <2>2, <1>1, <1>2
    <3> QED BY <3>1, <1>2 DEF ToSet
  <2> QED BY <2>1, <2>2, <1>2
<1>4. ASSUME NEW i \in 1 .. Len(s) PROVE s[i] \in ToSet(r)
  BY <1>1, <1>2 DEF ToSet
<1>5. ASSUME NEW i \in 1 .. Len(t) PROVE t[i] \in ToSet(r)
  <2>1. PICK j \in Nat : j = i + Len(s)
    BY <1>2
  <2>2. j \in 1 .. Len(s) + Len(t) /\ j > Len(s) /\ j - Len(s) = i
    BY <2>1, <1>2
  <2>3. r[j] = t[i]
    BY <2>2, <1>1, <1>2
  <2> QED BY <2>2, <2>3, <1>1, <1>2 DEF ToSet
<1>6. ToSet(s) \cup ToSet(t) \subseteq ToSet(r)
  BY <1>2, <1>4, <1>5 DEF ToSet
<1>7. ToSet(r) \subseteq ToSet(s) \cup ToSet(t)
  BY <1>2, <1>3 DEF ToSet
<1> QED BY <1>1, <1>6, <1>7 DEF r

(* One event more in the queue *)
LEMMA AppendElements ==
  ASSUME NEW T, NEW s \in Seq(T), NEW x \in T
  PROVE  Append(s, x) \in Seq(T) /\ ToSet(Append(s, x)) = ToSet(s) \cup {x}
<1>1. <<x>> \in Seq(T) /\ ToSet(<<x>>) = {x}
  BY DEF ToSet
<1>2. Append(s, x) = s \o <<x>>
  BY AppendIsConcat
<1> DEFINE one == <<x>>
<1>3. one \in Seq(T) /\ ToSet(one) = {x} /\ Append(s, x) = s \o one
  BY <1>1, <1>2
<1> HIDE DEF one
<1>4. s \o one \in Seq(T) /\ ToSet(s \o one) = ToSet(s) \cup ToSet(one)
  BY <1>3, ConcatElements
<1> QED BY <1>3, <1>4

-----------------------------------------------------------------------------
(* One observation *)

(* One look at the process: its failure is in it once at most, and only if  *)
(* it has been errored since, unseen and unreported.                        *)
Unseen == status = "errored" /\ snapshot \in {"online", "stopped"} /\ ~fresh
Seen == Among(DiffEvents(snapshot, Shown), {n \in {0, failure} : NotDirect(n)})

(* diffEvents: only its first entry is a failure, and only for a process   *)
(* that has become errored.                                                  *)
LEMMA DiffHasOneFailure ==
  ASSUME OutTypeOK
  PROVE  LET d == DiffEvents(snapshot, Shown)
         IN /\ d \in Seq({0, failure})
            /\ \A i \in 1 .. Len(d) : d[i] # 0 => /\ i = 1 /\ status = "errored"
                                                 /\ snapshot \in {"online", "stopped"}
<1> DEFINE a == IF snapshot # "errored" /\ snapshot # "none" /\ Shown = "errored" THEN <<failure>>
                ELSE IF snapshot # Shown /\ ~(snapshot = "errored" /\ Shown = "stopped")
                     THEN <<0>> ELSE <<>>
           b == IF snapshot # "none" /\ restarted THEN <<0>> ELSE <<>>
           d == a \o b
<1>1. /\ a \in Seq({0, failure}) /\ Len(a) \in Nat /\ Len(a) <= 1
      /\ \A i \in 1 .. Len(a) : a[i] # 0 => /\ status = "errored"
                                           /\ snapshot \in {"online", "stopped"}
  <2>1. CASE a = <<failure>> /\ snapshot # "errored" /\ snapshot # "none" /\ Shown = "errored"
    <3>1. status = "errored" /\ snapshot \in {"online", "stopped"} /\ failure \in {0, failure}
      BY <2>1 DEF OutTypeOK, Shown
    <3> HIDE DEF a
    <3> QED BY <2>1, <3>1
  <2>2. CASE a = <<0>> \/ a = <<>>
    <3> HIDE DEF a
    <3>1. CASE a = <<0>> BY <3>1
    <3>2. CASE a = <<>> BY <3>2
    <3> QED BY <2>2, <3>1, <3>2
  <2> QED BY <2>1, <2>2
<1>2. b \in Seq({0, failure}) /\ Len(b) \in Nat /\ \A i \in 1 .. Len(b) : b[i] = 0
  OBVIOUS
<1> HIDE DEF a, b
<1>3. /\ d \in Seq({0, failure}) /\ Len(d) = Len(a) + Len(b)
      /\ \A i \in 1 .. Len(a) + Len(b) : d[i] = IF i <= Len(a) THEN a[i] ELSE b[i - Len(a)]
  BY <1>1, <1>2, ConcatProperties
<1> HIDE DEF d
<1>4. ASSUME NEW i \in 1 .. Len(d), d[i] # 0
      PROVE  i = 1 /\ status = "errored" /\ snapshot \in {"online", "stopped"}
  <2>1. i <= Len(a)
    <3>1. SUFFICES ASSUME i > Len(a) PROVE FALSE
      BY <1>1
    <3>2. i - Len(a) \in 1 .. Len(b) /\ d[i] = b[i - Len(a)]
      BY <1>1, <1>2, <1>3, <3>1
    <3> QED BY <3>2, <1>2, <1>4
  <2> QED BY <1>1, <1>3, <1>4, <2>1
<1>5. DiffEvents(snapshot, Shown) = d
  BY DEF DiffEvents, a, b, d
<1> QED BY <1>3, <1>4, <1>5

(* Without what the listener has reported: one failure at most, unseen. *)
LEMMA SeenHasOneFailure ==
  ASSUME OutTypeOK
  PROVE  /\ Seen \in Seq({0, failure})
         /\ \A i \in 1 .. Len(Seen) : Seen[i] # 0 => Unseen
         /\ \A i, j \in 1 .. Len(Seen) : Seen[i] # 0 /\ Seen[j] # 0 => i = j
<1> DEFINE d == DiffEvents(snapshot, Shown)
           S == {n \in {0, failure} : NotDirect(n)}
<1>1. /\ d \in Seq({0, failure})
      /\ \A i \in 1 .. Len(d) : d[i] # 0 => /\ i = 1 /\ status = "errored"
                                           /\ snapshot \in {"online", "stopped"}
  BY DiffHasOneFailure
<1>2. Seen = Among(d, S)
  BY DEF Seen
<1>3. \A n \in S : n # 0 => ~fresh
  BY DEF OutTypeOK, NotDirect
<1> HIDE DEF d, S
<1>4. Seen \in Seq({0, failure}) /\ Len(Seen) \in Nat
  <2>1. Seen \in Seq({0, failure}) BY <1>1, <1>2, AmongPicks
  <2> QED BY <2>1, LenProperties
<1>5. PICK p : Picks(p, d, Seen, S, Len(d))
  BY <1>1, <1>2, AmongPicks
<1>6. ASSUME NEW i \in 1 .. Len(Seen), Seen[i] # 0 PROVE p[i] = 1 /\ Unseen
  <2>1. Seen[i] = d[p[i]] /\ d[p[i]] \in S /\ p[i] \in 1 .. Len(d)
    BY <1>5 DEF Picks
  <2> QED BY <1>1, <1>3, <1>6, <2>1 DEF Unseen
<1>7. ASSUME NEW i \in 1 .. Len(Seen), NEW j \in 1 .. Len(Seen), Seen[i] # 0, Seen[j] # 0
      PROVE  i = j
  BY <1>5, <1>6, <1>7 DEF Picks
<1> QED BY <1>4, <1>6, <1>7

(* Neither an alert nor the bound on events adds a failure. *)
LEMMA ObservedHasOneFailure ==
  ASSUME OutTypeOK, NEW alert \in {<<>>, << 0 >>}
  PROVE  LET ns == UpTo(MaxEvents - made, Seen \o alert)
         IN /\ ns \in Seq({0, failure}) /\ Len(ns) \in Nat /\ Len(ns) <= MaxEvents - made
            /\ \A i \in 1 .. Len(ns) : ns[i] # 0 => Unseen
            /\ \A i, j \in 1 .. Len(ns) : ns[i] # 0 /\ ns[j] # 0 => i = j
<1> DEFINE all == Seen \o alert
           ns == UpTo(MaxEvents - made, all)
<1>1. /\ Seen \in Seq({0, failure}) /\ Len(Seen) \in Nat
      /\ \A i \in 1 .. Len(Seen) : Seen[i] # 0 => Unseen
      /\ \A i, j \in 1 .. Len(Seen) : Seen[i] # 0 /\ Seen[j] # 0 => i = j
  BY SeenHasOneFailure, LenProperties
<1>2. alert \in Seq({0, failure}) /\ Len(alert) \in Nat /\ \A i \in 1 .. Len(alert) : alert[i] = 0
  <2>1. CASE alert = <<>> BY <2>1
  <2>2. CASE alert = <<0>> BY <2>2
  <2> QED BY <2>1, <2>2
<1>3. /\ all \in Seq({0, failure}) /\ Len(all) = Len(Seen) + Len(alert)
      /\ \A i \in 1 .. Len(Seen) + Len(alert) :
           all[i] = IF i <= Len(Seen) THEN Seen[i] ELSE alert[i - Len(Seen)]
  BY <1>1, <1>2, ConcatProperties
<1> HIDE DEF all
<1>4. ASSUME NEW i \in 1 .. Len(all), all[i] # 0
      PROVE  i \in 1 .. Len(Seen) /\ all[i] = Seen[i]
  <2>1. i <= Len(Seen)
    <3>1. SUFFICES ASSUME i > Len(Seen) PROVE FALSE
      BY <1>1
    <3>2. i - Len(Seen) \in 1 .. Len(alert) /\ all[i] = alert[i - Len(Seen)]
      BY <1>1, <1>2, <1>3, <3>1
    <3> QED BY <3>2, <1>2, <1>4
  <2> QED BY <1>1, <1>3, <2>1
<1>5. MaxEvents - made \in Nat
  BY OutboxAssumption DEF OutTypeOK
<1>6. /\ ns \in Seq({0, failure})
      /\ Len(ns) <= MaxEvents - made /\ Len(ns) <= Len(all)
      /\ \A i \in 1 .. Len(ns) : ns[i] = all[i]
  BY <1>3, <1>5, UpToElements
<1>7. Len(ns) \in Nat
  BY <1>6, LenProperties
<1> HIDE DEF ns
<1>8. ASSUME NEW i \in 1 .. Len(ns), ns[i] # 0
      PROVE  i \in 1 .. Len(Seen) /\ Seen[i] = ns[i] /\ Unseen
  <2>1. i \in 1 .. Len(all) BY <1>1, <1>2, <1>3, <1>6, <1>7
  <2>2. i \in 1 .. Len(Seen) /\ all[i] = Seen[i] BY <1>4, <1>6, <1>8, <2>1
  <2> QED BY <2>2, <1>1, <1>6, <1>8
<1>9. ASSUME NEW i \in 1 .. Len(ns), NEW j \in 1 .. Len(ns), ns[i] # 0, ns[j] # 0
      PROVE  i = j
  BY <1>1, <1>8, <1>9
<1> QED BY <1>6, <1>7, <1>8, <1>9 DEF ns, all

-----------------------------------------------------------------------------
(* reportState *)

(* What reportState does up to its first await: it numbers what it has seen, *)
(* and either sends it at once or keeps it in a call.                        *)
Holds(new) ==
  \E s \in Slots, reads \in SUBSET Events :
    /\ call[s].at = "free"
    /\ call' = [call EXCEPT ![s] = [at |-> "tails", new |-> new, reads |-> reads]]
    /\ bare' \subseteq Events
    /\ UNCHANGED <<outbox, dropped, lastReport, wire>>

Observes(ns) ==
  /\ ns \in Seq({0, failure}) /\ Len(ns) \in Nat /\ Len(ns) <= MaxEvents - made
  /\ \A i \in 1 .. Len(ns) : ns[i] # 0 => Unseen
  /\ \A i, j \in 1 .. Len(ns) : ns[i] # 0 /\ ns[j] # 0 => i = j
  /\ made' = made + Len(ns) /\ Named(ns)
  /\ snapshot' = Shown /\ restarted' = FALSE /\ fresh' = FALSE

(* What is observed takes exactly the next numbers. *)
LEMMA NumberedElements ==
  ASSUME OutTypeOK, NEW ns, Observes(ns)
  PROVE  Numbered(ns) \in Seq(Events) /\ ToSet(Numbered(ns)) = made + 1 .. made'
<1> DEFINE new == Numbered(ns)
<1>1. /\ made \in Nat /\ MaxEvents \in Nat /\ made <= MaxEvents
      /\ Len(ns) \in Nat /\ made' = made + Len(ns) /\ made' <= MaxEvents
  BY OutboxAssumption DEF OutTypeOK, Observes
<1>2. new = [j \in 1 .. Len(ns) |-> made + j]
  BY DEF Numbered
<1>3. \A j \in 1 .. Len(ns) : made + j \in Events
  BY <1>1 DEF Events
<1>4. new \in Seq(Events) /\ Len(new) = Len(ns)
  BY <1>1, <1>2, <1>3, IsASeq, LenProperties
<1>5. ToSet(new) = {made + j : j \in 1 .. Len(ns)}
  BY <1>2 DEF ToSet
<1> HIDE DEF new
<1>6. ASSUME NEW e \in made + 1 .. made' PROVE \E j \in 1 .. Len(ns) : e = made + j
  <2>1. e - made \in 1 .. Len(ns) /\ e = made + (e - made)
    BY <1>1
  <2> QED BY <2>1
<1>7. ToSet(new) = made + 1 .. made'
  BY <1>1, <1>5, <1>6
<1> QED BY <1>4, <1>7 DEF new

(* Every report observes, and then completes or waits for the log tails. *)
LEMMA ReportObserves ==
  ASSUME OutTypeOK, NEW linkUp, ReportState(linkUp)
  PROVE  \E ns : /\ Observes(ns)
                 /\ \/ Completes(Numbered(ns), outbox, linkUp) /\ UNCHANGED <<bare, call>>
                    \/ Holds(Numbered(ns))
<1>1. PICK alert \in {<<>>, <<0>>} :
        LET ns == UpTo(MaxEvents - made, Seen \o alert)
            new == Numbered(ns)
            crashes == {e \in ToSet(new) : ns[e - made] > 0}
            reads == (bare \cap ToSet(outbox)) \cup crashes
            free == {s \in Slots : call[s].at = "free"}
        IN
        /\ snapshot' = Shown /\ restarted' = FALSE /\ fresh' = FALSE
        /\ made' = made + Len(ns) /\ Named(ns)
        /\ IF reads = {}
           THEN /\ Completes(new, outbox, linkUp)
                /\ UNCHANGED <<bare, call>>
           ELSE \E s \in free :
                  /\ \A r \in free : s <= r
                  /\ call' = [call EXCEPT ![s] = [at |-> "tails", new |-> new, reads |-> reads]]
                  /\ bare' = bare \cup crashes
                  /\ UNCHANGED <<outbox, dropped, lastReport, wire>>
  BY DEF ReportState, Seen
<1> DEFINE ns == UpTo(MaxEvents - made, Seen \o alert)
           new == Numbered(ns)
           crashes == {e \in ToSet(new) : ns[e - made] > 0}
           reads == (bare \cap ToSet(outbox)) \cup crashes
<1>2. /\ ns \in Seq({0, failure}) /\ Len(ns) \in Nat /\ Len(ns) <= MaxEvents - made
      /\ \A i \in 1 .. Len(ns) : ns[i] # 0 => Unseen
      /\ \A i, j \in 1 .. Len(ns) : ns[i] # 0 /\ ns[j] # 0 => i = j
  BY ObservedHasOneFailure
<1>3. Observes(ns)
  <2> HIDE DEF ns
  <2> QED BY <1>1, <1>2 DEF Observes, ns
<1> HIDE DEF ns
<1>4. new \in Seq(Events) /\ ToSet(new) = made + 1 .. made' /\ ToSet(new) \subseteq Events
  <2>1. new \in Seq(Events) /\ ToSet(new) = made + 1 .. made'
    BY <1>3, NumberedElements
  <2>2. made' <= MaxEvents /\ made \in Nat /\ made' \in Nat
    BY <1>3, OutboxAssumption DEF OutTypeOK, Observes
  <2>3. \A e \in made + 1 .. made' : e \in Events
    BY <2>2, OutboxAssumption DEF Events
  <2> HIDE DEF new
  <2> QED BY <2>1, <2>3
<1> HIDE DEF new
<1>5. crashes \subseteq Events /\ reads \in SUBSET Events
  BY <1>4 DEF OutTypeOK
<1>6. \/ Completes(new, outbox, linkUp) /\ UNCHANGED <<bare, call>>
      \/ \E s \in Slots :
           /\ call[s].at = "free"
           /\ call' = [call EXCEPT ![s] = [at |-> "tails", new |-> new, reads |-> reads]]
           /\ bare' = bare \cup crashes
           /\ UNCHANGED <<outbox, dropped, lastReport, wire>>
  BY <1>1 DEF ns, new
<1>7. (Completes(new, outbox, linkUp) /\ UNCHANGED <<bare, call>>) \/ Holds(new)
  <2> HIDE DEF crashes, reads
  <2> QED BY <1>5, <1>6 DEF Holds, OutTypeOK
<1> QED BY <1>3, <1>7 DEF new

(* reportState after the tails: what is left of the queue and of what is new *)
(* was in them, and the rest has been given up.                              *)
LEMMA CompletesQueue ==
  ASSUME NEW new \in Seq(Events), NEW box \in Seq(Events), NEW linkUp,
         Completes(new, box, linkUp)
  PROVE  /\ outbox' \in Seq(Events) /\ lastReport' \subseteq ToSet(outbox')
         /\ ToSet(outbox') \subseteq ToSet(box) \cup ToSet(new)
         /\ dropped' = dropped \cup ((ToSet(box) \cup ToSet(new)) \ ToSet(outbox'))
         /\ wire' \in {wire, wire \cup lastReport'}
<1>1. box \o new \in Seq(Events) /\ ToSet(box \o new) = ToSet(box) \cup ToSet(new)
  BY ConcatElements
<1>2. PICK kept \in Pruned(box \o new) :
        /\ outbox' = kept
        /\ dropped' = dropped \cup (ToSet(box \o new) \ ToSet(kept))
        /\ lastReport' = ToSet(UpTo(ReportMax, kept))
        /\ Sends(ToSet(UpTo(ReportMax, kept)), linkUp)
  BY DEF Completes, AfterSend
<1>3. kept \in Seq(Events) /\ ToSet(kept) \subseteq ToSet(box \o new)
  BY <1>1, PrunedElements
<1>4. ToSet(UpTo(ReportMax, kept)) \subseteq ToSet(kept)
  BY <1>3, UpToElements, OutboxAssumption
<1> QED BY <1>1, <1>2, <1>3, <1>4 DEF Sends

-----------------------------------------------------------------------------
(* Type correctness *)

(* What an observation makes of the events: no old one changes, one new one  *)
(* at most is a crash, and only of a failure that nobody had reported.        *)
LEMMA ObservesType ==
  ASSUME OutTypeOK, NEW ns, Observes(ns)
  PROVE  /\ made' \in 0 .. MaxEvents /\ made <= made' /\ crashOf' \in [Events -> Nat]
         /\ snapshot' \in {"none", "online", "stopped", "errored"}
         /\ fresh' = FALSE /\ restarted' = FALSE
         /\ \A e \in Events : IF e \in made + 1 .. made' THEN crashOf'[e] \in {0, failure}
                              ELSE crashOf'[e] = crashOf[e]
         /\ \A d, e \in made + 1 .. made' : crashOf'[d] # 0 /\ crashOf'[e] # 0 => d = e
         /\ \A e \in made + 1 .. made' : crashOf'[e] # 0 => Unseen
<1>1. /\ made \in Nat /\ MaxEvents \in Nat /\ made <= MaxEvents
      /\ Len(ns) \in Nat /\ made' = made + Len(ns) /\ made' <= MaxEvents
  BY OutboxAssumption DEF OutTypeOK, Observes
<1>2. \A i \in 1 .. Len(ns) : ns[i] \in {0, failure}
  BY ElementOfSeq DEF Observes
<1>3. \A e \in made + 1 .. made' : e - made \in 1 .. Len(ns) /\ e \in Events
  BY <1>1 DEF Events
<1>4. crashOf' = [e \in Events |-> IF e \in made + 1 .. made' THEN ns[e - made] ELSE crashOf[e]]
  BY <1>1 DEF Observes, Named
<1>5. /\ \A e \in made + 1 .. made' : crashOf'[e] = ns[e - made]
      /\ \A e \in Events \ (made + 1 .. made') : crashOf'[e] = crashOf[e]
  BY <1>3, <1>4
<1>6. crashOf' \in [Events -> Nat]
  <2>1. \A e \in Events : crashOf[e] \in Nat /\ failure \in Nat
    BY DEF OutTypeOK
  <2>2. \A e \in Events : (IF e \in made + 1 .. made' THEN ns[e - made] ELSE crashOf[e]) \in Nat
    BY <1>2, <1>3, <2>1
  <2> QED BY <1>4, <2>2
<1>7. ASSUME NEW d \in made + 1 .. made', NEW e \in made + 1 .. made',
             crashOf'[d] # 0, crashOf'[e] # 0
      PROVE  d = e
  <2>1. d - made = e - made
    BY <1>3, <1>5, <1>7 DEF Observes
  <2> QED BY <1>1, <2>1
<1>8. \A e \in made + 1 .. made' : crashOf'[e] # 0 => Unseen
  BY <1>3, <1>5 DEF Observes
<1>9. snapshot' \in {"none", "online", "stopped", "errored"}
  BY DEF Observes, Shown, OutTypeOK
<1> QED BY <1>1, <1>2, <1>3, <1>5, <1>6, <1>7, <1>8, <1>9 DEF Observes

(* Both ways through reportState keep the type. *)
LEMMA ReportStateType ==
  ASSUME OutTypeOK, NEW linkUp, ReportState(linkUp)
  PROVE  /\ made' \in 0 .. MaxEvents /\ crashOf' \in [Events -> Nat]
         /\ snapshot' \in {"none", "online", "stopped", "errored"}
         /\ fresh' \in BOOLEAN /\ restarted' \in BOOLEAN
         /\ outbox' \in Seq(Events) /\ bare' \subseteq Events
         /\ call' \in [Slots -> [at : {"free", "tails"}, new : Seq(Events), reads : SUBSET Events]]
         /\ lastReport' \subseteq Events /\ wire' \subseteq Events /\ dropped' \subseteq Events
<1>1. PICK ns : /\ Observes(ns)
                /\ \/ Completes(Numbered(ns), outbox, linkUp) /\ UNCHANGED <<bare, call>>
                   \/ Holds(Numbered(ns))
  BY ReportObserves
<1>2. Numbered(ns) \in Seq(Events)
  BY <1>1, NumberedElements
<1>3. CASE Completes(Numbered(ns), outbox, linkUp) /\ UNCHANGED <<bare, call>>
  <2>1. outbox \in Seq(Events) BY DEF OutTypeOK
  <2>2. /\ outbox' \in Seq(Events) /\ lastReport' \subseteq ToSet(outbox')
        /\ dropped' = dropped \cup ((ToSet(outbox) \cup ToSet(Numbered(ns))) \ ToSet(outbox'))
        /\ wire' \in {wire, wire \cup lastReport'}
    BY <1>2, <1>3, <2>1, CompletesQueue
  <2>3. \A s \in Seq(Events) : ToSet(s) \subseteq Events
    BY LenProperties, ElementOfSeq DEF ToSet
  <2> QED BY <1>1, <1>2, <1>3, <2>1, <2>2, <2>3, ObservesType DEF OutTypeOK
<1>4. CASE Holds(Numbered(ns))
  <2>1. PICK s \in Slots, reads \in SUBSET Events :
          /\ call' = [call EXCEPT ![s] = [at |-> "tails", new |-> Numbered(ns), reads |-> reads]]
          /\ bare' \subseteq Events
          /\ UNCHANGED <<outbox, dropped, lastReport, wire>>
    BY <1>4 DEF Holds
  <2>2. call' \in [Slots -> [at : {"free", "tails"}, new : Seq(Events), reads : SUBSET Events]]
    BY <1>2, <2>1 DEF OutTypeOK
  <2> QED BY <1>1, <2>1, <2>2, ObservesType DEF OutTypeOK
<1> QED BY <1>1, <1>3, <1>4

(* Every step keeps the type ... *)
LEMMA TypeNext == OutTypeOK /\ [OutNext]_outVars => OutTypeOK'
<1> SUFFICES ASSUME OutTypeOK, [OutNext]_outVars
             PROVE  OutTypeOK'
  OBVIOUS
<1>0. \A s \in Seq(Events) : ToSet(s) \subseteq Events
  BY LenProperties, ElementOfSeq DEF ToSet
<1>1. CASE Report
  BY <1>1, ReportStateType DEF Report, OutTypeOK
<1>2. CASE LinkUp
  BY <1>2, ReportStateType DEF LinkUp, OutTypeOK
<1>3. CASE Link
  BY <1>3, ReportStateType DEF Link, OutTypeOK
<1>4. CASE Restart
  <2>1. status' \in {"online", "errored"} /\ restarted' \in BOOLEAN /\ failure' \in Nat
    <3>1. failure \in Nat /\ restarted \in BOOLEAN
      BY DEF OutTypeOK
    <3>2. \/ status' = "online" /\ restarted' = TRUE /\ failure' = failure
          \/ status' = "errored" /\ failure' = failure + 1 /\ restarted' = restarted
      BY <1>4 DEF Restart
    <3>3. failure + 1 \in Nat
      BY <3>1
    <3>4. failure' \in Nat
      BY <3>1, <3>2, <3>3
    <3>5. restarted' \in BOOLEAN
      BY <3>1, <3>2
    <3> QED BY <3>2, <3>4, <3>5
  <2> QED BY <1>4, <2>1 DEF Restart, Quietly, netVars, OutTypeOK
<1>5. CASE Operate
  BY <1>5 DEF Operate, Quietly, netVars, OutTypeOK
<1>6. CASE CronOutcome \/ AlertsTest
  <2>1. made + 1 \in Events /\ made' \in 0 .. MaxEvents
    BY <1>6, OutboxAssumption DEF CronOutcome, AlertsTest, Events, OutTypeOK
  <2>2. outbox' \in Seq(Events)
    <3>1. Append(outbox, made + 1) \in Seq(Events)
      BY <2>1, AppendElements DEF OutTypeOK
    <3> QED BY <1>6, <3>1 DEF CronOutcome, AlertsTest
  <2>3. wire' \subseteq Events
    BY <1>6 DEF CronOutcome, AlertsTest, Sends, netVars, OutTypeOK
  <2> QED BY <1>6, <2>1, <2>2, <2>3 DEF CronOutcome, AlertsTest, procVars, netVars, OutTypeOK
<1>7. ASSUME NEW s \in Slots, TailsRead(s) PROVE OutTypeOK'
  <2>1. outbox \in Seq(Events) /\ call[s].new \in Seq(Events) BY DEF OutTypeOK
  <2>2. /\ outbox' \in Seq(Events) /\ lastReport' \subseteq ToSet(outbox')
        /\ dropped' = dropped \cup ((ToSet(outbox) \cup ToSet(call[s].new)) \ ToSet(outbox'))
        /\ wire' \in {wire, wire \cup lastReport'}
    BY <1>7, <2>1, CompletesQueue DEF TailsRead
  <2>3. dropped' \subseteq Events /\ lastReport' \subseteq Events /\ wire' \subseteq Events
    BY <1>0, <2>1, <2>2 DEF OutTypeOK
  <2>4. Free \in [at : {"free", "tails"}, new : Seq(Events), reads : SUBSET Events]
    BY DEF Free
  <2>5. call' \in [Slots -> [at : {"free", "tails"}, new : Seq(Events), reads : SUBSET Events]]
    BY <1>7, <2>4 DEF TailsRead, OutTypeOK
  <2>6. bare' \subseteq Events
    BY <1>7 DEF TailsRead, OutTypeOK
  <2> QED BY <1>7, <2>2, <2>3, <2>5, <2>6 DEF TailsRead, procVars, OutTypeOK
<1>8. ASSUME NEW next \in {"waiting", "errored", "stopped"}, Crash(next) PROVE OutTypeOK'
  <2>1. made + 1 \in Events /\ made + 1 \in 0 .. MaxEvents /\ failure + 1 \in Nat
    BY <1>8, OutboxAssumption DEF Crash, Events, OutTypeOK
  <2>2. Append(outbox, made + 1) \in Seq(Events)
    BY <2>1, AppendElements DEF OutTypeOK
  <2>3. /\ made' \in 0 .. MaxEvents /\ outbox' \in Seq(Events) /\ bare' \subseteq Events
        /\ crashOf' \in [Events -> Nat] /\ fresh' \in BOOLEAN
    BY <1>8, <2>1, <2>2 DEF Crash, ForwardCrash, OutTypeOK
  <2> QED BY <1>8, <2>1, <2>3 DEF Crash, netVars, OutTypeOK
<1>9. CASE LinkDown
  BY <1>9 DEF LinkDown, procVars, OutTypeOK
<1>10. ASSUME NEW e \in Events, Ingest(e) \/ HandleEventAck(e) PROVE OutTypeOK'
  <2>1. CASE Ingest(e)
    BY <2>1 DEF Ingest, procVars, OutTypeOK
  <2>2. CASE HandleEventAck(e)
    <3>1. outbox' \in Seq(Events)
      BY <2>2, AmongElements DEF HandleEventAck, OutTypeOK
    <3> QED BY <2>2, <3>1 DEF HandleEventAck, procVars, OutTypeOK
  <2> QED BY <1>10, <2>1, <2>2
<1>11. ASSUME NEW revoked \in BOOLEAN, Unlink(revoked) PROVE OutTypeOK'
  <2>1. <<>> \in Seq(Events) /\ ToSet(outbox) \subseteq Events
    BY <1>0 DEF OutTypeOK
  <2> QED BY <1>11, <2>1 DEF Unlink, procVars, OutTypeOK
<1>12. CASE UNCHANGED outVars
  BY <1>12 DEF outVars, OutTypeOK
<1> QED BY <1>1, <1>2, <1>3, <1>4, <1>5, <1>6, <1>7, <1>8, <1>9, <1>10, <1>11, <1>12 DEF OutNext

(* ... and the first state has it. *)
LEMMA TypeInit == OutInit => OutTypeOK
<1> SUFFICES ASSUME OutInit PROVE OutTypeOK
  OBVIOUS
<1>1. Free \in [at : {"free", "tails"}, new : Seq(Events), reads : SUBSET Events]
  BY DEF Free
<1>2. call \in [Slots -> [at : {"free", "tails"}, new : Seq(Events), reads : SUBSET Events]]
  BY <1>1 DEF OutInit
<1>3. outbox \in Seq(Events) /\ crashOf \in [Events -> Nat]
  BY DEF OutInit
<1>4. /\ status = "online" /\ restarted = FALSE /\ running = TRUE /\ up = FALSE /\ fresh = FALSE
      /\ snapshot \in {"none", "online"}
  BY DEF OutInit
<1>5. /\ made = 0 /\ failure = 0 /\ bare = {} /\ lastReport = {} /\ wire = {} /\ acks = {}
      /\ ingested = {} /\ dropped = {}
  BY DEF OutInit
<1>6. made \in 0 .. MaxEvents /\ failure \in Nat
  BY <1>5, OutboxAssumption
<1> QED BY <1>2, <1>3, <1>4, <1>5, <1>6 DEF OutTypeOK

(* Whatever calls overlap, the state of the agent is what its fields allow;  *)
(* in particular no event is numbered beyond the bound.                      *)
THEOREM OutTypeCorrect == OutSpec => []OutTypeOK
BY TypeInit, TypeNext, PTL DEF OutSpec

-----------------------------------------------------------------------------
(* One event per crash *)

(* The numbers that events carry are those of failures so far, a process is  *)
(* errored after one, and a failure that a report would still turn into an   *)
(* event has none yet: directCrashAt and lastSnapshot keep that between them. *)
CrashInv ==
  /\ \A e \in Events : crashOf[e] <= failure /\ (e > made => crashOf[e] = 0)
  /\ status = "errored" => failure > 0
  /\ Unseen => \A e \in Events : crashOf[e] # failure

OutboxInv == CrashInv /\ OneReportPerCrash

(* A report turns the failure into an event only if none has it. *)
LEMMA CrashInvReport ==
  ASSUME OutTypeOK, OutboxInv, NEW linkUp, ReportState(linkUp), UNCHANGED <<status, failure>>
  PROVE  OutboxInv'
<1>1. PICK ns : Observes(ns)
  BY ReportObserves
<1>2. /\ made' \in 0 .. MaxEvents /\ made <= made' /\ crashOf' \in [Events -> Nat]
      /\ \A e \in Events : IF e \in made + 1 .. made' THEN crashOf'[e] \in {0, failure}
                           ELSE crashOf'[e] = crashOf[e]
      /\ \A d, e \in made + 1 .. made' : crashOf'[d] # 0 /\ crashOf'[e] # 0 => d = e
      /\ \A e \in made + 1 .. made' : crashOf'[e] # 0 => Unseen
  BY <1>1, ObservesType
<1>3. ~Unseen'
  BY <1>1 DEF Observes, Unseen, Shown
<1>4. /\ made \in Nat /\ made' \in Nat /\ failure \in Nat /\ crashOf \in [Events -> Nat]
      /\ \A e \in 1 .. made' : e \in Events
      /\ Events \subseteq Nat \ {0}
  BY <1>2, OutboxAssumption DEF OutTypeOK, Events
<1>5. ASSUME NEW e \in Events PROVE crashOf'[e] <= failure /\ (e > made' => crashOf'[e] = 0)
  BY <1>2, <1>4 DEF OutboxInv, CrashInv
<1>6. CrashInv'
  BY <1>3, <1>5 DEF OutboxInv, CrashInv
<1>7. ASSUME NEW d \in 1 .. made', NEW e \in 1 .. made', crashOf'[d] > 0, crashOf'[d] = crashOf'[e]
      PROVE  d = e
  <2>1. d \in Events /\ e \in Events
    BY <1>4
  <2>2. CASE d \in made + 1 .. made' /\ e \in made + 1 .. made'
    BY <1>2, <1>4, <1>7, <2>2
  <2>3. CASE d \notin made + 1 .. made' /\ e \notin made + 1 .. made'
    <3>1. d \in 1 .. made /\ e \in 1 .. made /\ crashOf[d] = crashOf'[d] /\ crashOf[e] = crashOf'[e]
      BY <1>2, <1>4, <2>1, <2>3
    <3> QED BY <1>7, <3>1 DEF OutboxInv, OneReportPerCrash
  <2>4. CASE d \in made + 1 .. made' /\ e \notin made + 1 .. made'
    <3>1. crashOf'[d] = failure /\ Unseen /\ crashOf'[e] = crashOf[e]
      BY <1>2, <1>4, <1>7, <2>1, <2>4
    <3> QED BY <1>7, <2>1, <3>1 DEF OutboxInv, CrashInv
  <2>5. CASE d \notin made + 1 .. made' /\ e \in made + 1 .. made'
    <3>1. crashOf'[e] = failure /\ Unseen /\ crashOf'[d] = crashOf[d]
      BY <1>2, <1>4, <1>7, <2>1, <2>5
    <3> QED BY <1>7, <2>1, <3>1 DEF OutboxInv, CrashInv
  <2> QED BY <2>2, <2>3, <2>4, <2>5
<1>8. OneReportPerCrash'
  BY <1>7 DEF OneReportPerCrash
<1> QED BY <1>6, <1>8 DEF OutboxInv

(* An event that is no crash, and a failure that nobody reports *)
LEMMA CrashInvOther ==
  ASSUME OutTypeOK, OutboxInv,
         made' \in 0 .. MaxEvents, made <= made', failure' \in {failure, failure + 1},
         UNCHANGED <<crashOf, snapshot, fresh>>,
         status' = "errored" => status = "errored" \/ failure' = failure + 1
  PROVE  OutboxInv'
<1>1. /\ made \in Nat /\ made' \in Nat /\ failure \in Nat /\ crashOf \in [Events -> Nat]
      /\ Events \subseteq Nat \ {0} /\ failure <= failure'
      /\ \A e \in 1 .. made' : e \in Events
  BY OutboxAssumption DEF OutTypeOK, Events
<1>2. \A e \in Events : crashOf'[e] <= failure' /\ (e > made' => crashOf'[e] = 0)
  BY <1>1 DEF OutboxInv, CrashInv
<1>3. status' = "errored" => failure' > 0
  BY <1>1 DEF OutboxInv, CrashInv
<1>4. Unseen' => \A e \in Events : crashOf'[e] # failure'
  <2>1. CASE failure' = failure + 1
    BY <1>1, <2>1 DEF OutboxInv, CrashInv
  <2>2. CASE failure' = failure
    <3>1. failure + 1 # failure BY <1>1
    <3>2. Unseen' => Unseen BY <2>2, <3>1 DEF Unseen
    <3> QED BY <2>2, <3>2 DEF OutboxInv, CrashInv
  <2> QED BY <2>1, <2>2
<1>5. ASSUME NEW d \in 1 .. made', NEW e \in 1 .. made', crashOf[d] > 0, crashOf[d] = crashOf[e]
      PROVE  d = e
  <2>1. d \in Events /\ e \in Events
    BY <1>1
  <2>2. d <= made /\ e <= made
    BY <1>1, <1>5, <2>1 DEF OutboxInv, CrashInv
  <2>3. d \in 1 .. made /\ e \in 1 .. made
    BY <1>1, <2>2
  <2> QED BY <1>5, <2>3 DEF OutboxInv, OneReportPerCrash
<1>6. OneReportPerCrash'
  BY <1>5 DEF OneReportPerCrash
<1>7. CrashInv'
  BY <1>2, <1>3, <1>4 DEF CrashInv
<1> QED BY <1>6, <1>7 DEF OutboxInv

(* A crash is the next failure, and the listener's event its only one. *)
LEMMA CrashInvCrash ==
  ASSUME OutTypeOK, OutboxInv, NEW next, Crash(next)
  PROVE  OutboxInv'
<1>1. /\ made \in Nat /\ failure \in Nat /\ crashOf \in [Events -> Nat]
      /\ Events \subseteq Nat \ {0} /\ made + 1 \in Events /\ failure' = failure + 1
  BY OutboxAssumption DEF OutTypeOK, Events, Crash
<1>2. CASE running
  <2>1. /\ made' = made + 1 /\ crashOf' = [crashOf EXCEPT ![made + 1] = failure + 1]
        /\ fresh' = TRUE
    BY <1>2 DEF Crash, ForwardCrash
  <2>2. /\ crashOf'[made + 1] = failure + 1
        /\ \A e \in Events : e # made + 1 => crashOf'[e] = crashOf[e]
    BY <1>1, <2>1
  <2>3. \A e \in Events : crashOf[e] <= failure /\ (e > made => crashOf[e] = 0)
    BY DEF OutboxInv, CrashInv
  <2>4. \A e \in Events : crashOf'[e] <= failure' /\ (e > made' => crashOf'[e] = 0)
    <3> TAKE e \in Events
    <3>1. CASE e = made + 1 BY <3>1, <1>1, <2>1, <2>2
    <3>2. CASE e # made + 1 BY <3>2, <1>1, <2>1, <2>2, <2>3
    <3> QED BY <3>1, <3>2
  <2>5. ~Unseen'
    BY <2>1 DEF Unseen
  <2>6. failure' > 0
    BY <1>1
  <2>7. CrashInv'
    BY <2>4, <2>5, <2>6 DEF CrashInv
  <2>8. ASSUME NEW d \in 1 .. made', NEW e \in 1 .. made', crashOf'[d] > 0, crashOf'[d] = crashOf'[e]
        PROVE  d = e
    <3>1. /\ d = made + 1 \/ (d \in 1 .. made /\ d # made + 1)
          /\ e = made + 1 \/ (e \in 1 .. made /\ e # made + 1)
      BY <1>1, <2>1
    <3>2. \A x \in 1 .. made : x \in Events /\ crashOf[x] # failure + 1
      <4> TAKE x \in 1 .. made
      <4>1. x \in Events BY <1>1, OutboxAssumption DEF Events, OutTypeOK
      <4> QED BY <4>1, <1>1, <2>3
    <3> QED BY <2>2, <2>8, <3>1, <3>2 DEF OutboxInv, OneReportPerCrash
  <2>9. OneReportPerCrash'
    BY <2>8 DEF OneReportPerCrash
  <2> QED BY <2>7, <2>9 DEF OutboxInv
<1>3. CASE ~running
  <2>1. /\ UNCHANGED <<made, crashOf, fresh, snapshot>>
    BY <1>3 DEF Crash, ForwardCrash
  <2>2. made' \in 0 .. MaxEvents /\ made <= made'
    BY <1>1, <2>1 DEF OutTypeOK
  <2> QED BY <1>1, <2>1, <2>2, CrashInvOther
<1> QED BY <1>2, <1>3

(* Every step keeps the events of the failures apart. *)
LEMMA CrashInvNext == OutTypeOK /\ OutboxInv /\ [OutNext]_outVars => OutboxInv'
<1> SUFFICES ASSUME OutTypeOK, OutboxInv, [OutNext]_outVars
             PROVE  OutboxInv'
  OBVIOUS
<1>0. made \in Nat /\ made \in 0 .. MaxEvents /\ failure \in Nat /\ MaxEvents \in Nat
  BY OutboxAssumption DEF OutTypeOK
<1>1. ASSUME UNCHANGED <<made, crashOf, failure, snapshot, fresh, status>> PROVE OutboxInv'
  <2>1. made' \in 0 .. MaxEvents /\ made <= made'
    BY <1>0, <1>1
  <2> QED BY <1>1, <2>1, CrashInvOther
<1>2. CASE Report
  BY <1>2, CrashInvReport DEF Report
<1>3. CASE LinkUp
  BY <1>3, CrashInvReport DEF LinkUp
<1>4. CASE Link
  BY <1>4, CrashInvReport DEF Link
<1>5. CASE Restart \/ Operate
  <2>1. UNCHANGED <<made, crashOf, snapshot, fresh>>
    BY <1>5 DEF Restart, Operate, Quietly
  <2>2. made' \in 0 .. MaxEvents /\ made <= made'
    BY <1>0, <2>1
  <2>3. failure' \in {failure, failure + 1}
    BY <1>5 DEF Restart, Operate
  <2>4. status' = "errored" => status = "errored" \/ failure' = failure + 1
    BY <1>5 DEF Restart, Operate
  <2> QED BY <2>1, <2>2, <2>3, <2>4, CrashInvOther
<1>6. CASE CronOutcome \/ AlertsTest
  <2>1. UNCHANGED <<crashOf, snapshot, fresh, status, failure>>
    BY <1>6 DEF CronOutcome, AlertsTest, procVars
  <2>2. made' \in 0 .. MaxEvents /\ made <= made'
    BY <1>0, <1>6 DEF CronOutcome, AlertsTest
  <2> QED BY <2>1, <2>2, CrashInvOther
<1>7. ASSUME NEW s \in Slots, TailsRead(s) PROVE OutboxInv'
  BY <1>1, <1>7 DEF TailsRead, procVars
<1>8. ASSUME NEW next \in {"waiting", "errored", "stopped"}, Crash(next) PROVE OutboxInv'
  BY <1>8, CrashInvCrash
<1>9. CASE LinkDown
  BY <1>1, <1>9 DEF LinkDown, procVars
<1>10. ASSUME NEW e \in Events, Ingest(e) \/ HandleEventAck(e) PROVE OutboxInv'
  BY <1>1, <1>10 DEF Ingest, HandleEventAck, procVars
<1>11. ASSUME NEW revoked \in BOOLEAN, Unlink(revoked) PROVE OutboxInv'
  BY <1>1, <1>11 DEF Unlink, procVars
<1>12. CASE UNCHANGED outVars
  BY <1>1, <1>12 DEF outVars
<1> QED BY <1>2, <1>3, <1>4, <1>5, <1>6, <1>7, <1>8, <1>9, <1>10, <1>11, <1>12 DEF OutNext

(* At first there is no failure and no event. *)
LEMMA CrashInvInit == OutInit => OutboxInv
<1> SUFFICES ASSUME OutInit PROVE OutboxInv
  OBVIOUS
<1>1. made = 0 /\ failure = 0 /\ status = "online" /\ \A e \in Events : crashOf[e] = 0
  BY DEF OutInit
<1>2. CrashInv
  BY <1>1 DEF CrashInv, Unseen
<1>3. OneReportPerCrash
  BY <1>1 DEF OneReportPerCrash
<1> QED BY <1>2, <1>3 DEF OutboxInv

(* However reports, log reads, crashes and restarts overlap, no failure of   *)
(* the process is two events of the outbox: what the listener has reported   *)
(* the next snapshot passes over, and a snapshot reports a failure once.     *)
THEOREM AlwaysOneReportPerCrash == OutSpec => []OneReportPerCrash
<1>1. OutInit => OutTypeOK /\ OutboxInv
  BY TypeInit, CrashInvInit
<1>2. OutTypeOK /\ OutboxInv /\ [OutNext]_outVars => (OutTypeOK /\ OutboxInv)'
  BY TypeNext, CrashInvNext
<1>3. OutboxInv => OneReportPerCrash
  BY DEF OutboxInv
<1> QED BY <1>1, <1>2, <1>3, PTL DEF OutSpec


-----------------------------------------------------------------------------
(* The queue implements the channel *)

(* What any queue, frame or acknowledgement names has been observed, and    *)
(* only what the cloud has counted is acknowledged.                         *)
KnownEvents ==
  /\ \A e \in Events : Queued(e) => e <= made
  /\ \A e \in lastReport \cup wire \cup ingested \cup dropped : e <= made
  /\ acks \subseteq ingested
  /\ \A s \in Slots : call[s].at = "free" => ToSet(call[s].new) = {}

(* No queue has lost an event that was neither delivered nor given up.      *)
NoneLost == \A e \in Events : e <= made => e \in ingested \cup dropped \/ Queued(e)

QueueInv == KnownEvents /\ NoneLost

(* What one step may do to the queues and to the fate of an event *)
New(e) == made < e /\ e <= made'
QueueMoves ==
  /\ made <= made'
  /\ ingested \subseteq ingested' /\ ingested' \subseteq ingested \cup wire
  /\ dropped \subseteq dropped'
  /\ \A e \in dropped' : e \in dropped \/ Queued(e) \/ New(e)
  /\ \A e \in lastReport' : e \in lastReport \/ Queued(e) \/ New(e)
  /\ wire' \subseteq wire \cup lastReport \cup lastReport'
  /\ acks' \subseteq acks \cup ingested'
  /\ \A e \in Events : Queued(e)' => Queued(e) \/ New(e)
  /\ \A e \in Events : Queued(e) \/ New(e) => Queued(e)' \/ e \in ingested' \cup dropped'
  /\ \A s \in Slots : call'[s].at = "free" => ToSet(call'[s].new) = {}

(* A step that moves events so keeps them all and is one of the channel. *)
LEMMA QueueStep ==
  ASSUME OutTypeOK, OutTypeOK', QueueInv, QueueMoves
  PROVE  QueueInv' /\ Channel!ChanNext
<1>1. /\ made \in Nat /\ made' \in Nat /\ Events \subseteq Nat
      /\ lastReport' \subseteq Events /\ wire' \subseteq Events /\ wire \subseteq Events
      /\ ingested \subseteq Events /\ ingested' \subseteq Events
      /\ dropped \subseteq Events /\ dropped' \subseteq Events /\ lastReport \subseteq Events
  <2>1. made \in 0 .. MaxEvents /\ made' \in 0 .. MaxEvents
    BY DEF OutTypeOK
  <2>2. made \in Nat /\ made' \in Nat
    BY <2>1, OutboxAssumption
  <2>3. Events \subseteq Nat
    BY OutboxAssumption DEF Events
  <2> QED BY <2>2, <2>3 DEF OutTypeOK
<1>2. \A e \in Events : Queued(e) \/ New(e) \/ e \in lastReport \cup wire \cup ingested \cup dropped
                        => e <= made'
  BY <1>1 DEF QueueInv, KnownEvents, QueueMoves, New
<1>3. KnownEvents'
  <2>1. \A e \in Events : Queued(e)' => e <= made'
    BY <1>2 DEF QueueMoves
  <2>2. \A e \in lastReport' \cup wire' \cup ingested' \cup dropped' : e <= made'
    BY <1>1, <1>2 DEF QueueMoves
  <2>3. acks' \subseteq ingested'
    BY DEF QueueMoves, QueueInv, KnownEvents
  <2>4. \A s \in Slots : call'[s].at = "free" => ToSet(call'[s].new) = {}
    BY DEF QueueMoves
  <2> QED BY <2>1, <2>2, <2>3, <2>4 DEF KnownEvents
<1>4. ASSUME NEW e \in Events, e <= made'
      PROVE  e \in ingested' \cup dropped' \/ Queued(e)'
  <2>1. CASE e <= made
    BY <2>1 DEF QueueInv, NoneLost, QueueMoves
  <2>2. CASE ~(e <= made)
    <3>1. New(e) BY <1>1, <1>4, <2>2 DEF New
    <3> QED BY <3>1 DEF QueueMoves
  <2> QED BY <2>1, <2>2
<1>5. NoneLost'
  BY <1>4 DEF NoneLost
<1>6. ASSUME NEW e \in Events PROVE <<Fate(e), Fate(e)'>> \in Channel!Moves
  <2>1. Fate(e) \in Channel!Fates /\ Fate(e)' \in Channel!Fates
    BY DEF Fate, Channel!Fates
  <2>2. CASE Fate(e) = "none"
    <3>1. ~(e <= made)
      BY <2>2 DEF Fate, QueueInv, NoneLost
    <3>2. e \notin ingested'
      BY <3>1 DEF QueueMoves, QueueInv, KnownEvents
    <3>3. Fate(e)' # "delivered"
      BY <3>2 DEF Fate
    <3> QED BY <2>1, <2>2, <3>3 DEF Channel!Moves, Channel!Fates
  <2>3. CASE Fate(e) = "held"
    <3>1. Queued(e) /\ e <= made /\ e <= made'
      BY <1>2, <2>3 DEF Fate, QueueInv, KnownEvents
    <3>2. Fate(e)' # "none"
      BY <1>4, <3>1 DEF Fate
    <3> QED BY <2>1, <2>3, <3>2 DEF Channel!Moves, Channel!Fates
  <2>4. CASE Fate(e) = "delivered"
    <3>1. Fate(e)' = "delivered"
      BY <2>4 DEF Fate, QueueMoves
    <3> QED BY <2>4, <3>1 DEF Channel!Moves, Channel!Fates
  <2>5. CASE Fate(e) = "givenUp"
    <3>1. Fate(e)' \in {"givenUp", "delivered"}
      BY <2>5 DEF Fate, QueueMoves
    <3> QED BY <2>5, <3>1 DEF Channel!Moves, Channel!Fates
  <2> QED BY <2>1, <2>2, <2>3, <2>4, <2>5 DEF Channel!Fates
<1>7. Channel!ChanNext
  <2>1. \A e \in Events : [d \in Events |-> Fate(d)][e] = Fate(e)
    OBVIOUS
  <2>2. \A e \in Events : ([d \in Events |-> Fate(d)][e])' = Fate(e)'
    OBVIOUS
  <2> QED BY <1>6, <2>1, <2>2 DEF Channel!ChanNext
<1> QED BY <1>3, <1>5, <1>7 DEF QueueInv

(* reportState: what it has seen is in the outbox or given up, or in a call. *)
LEMMA ReportMoves ==
  ASSUME OutTypeOK, QueueInv, NEW linkUp, ReportState(linkUp), UNCHANGED <<acks, ingested>>
  PROVE  QueueMoves
<1>1. PICK ns : /\ Observes(ns)
                /\ \/ Completes(Numbered(ns), outbox, linkUp) /\ UNCHANGED <<bare, call>>
                   \/ Holds(Numbered(ns))
  BY ReportObserves
<1> DEFINE new == Numbered(ns)
<1>2. new \in Seq(Events) /\ ToSet(new) = made + 1 .. made'
  BY <1>1, NumberedElements
<1>3. \A e \in Events : e \in ToSet(new) <=> New(e)
  <2>1. made \in Nat /\ made' \in Nat /\ Events \subseteq Nat
    <3>1. made \in 0 .. MaxEvents /\ made' \in 0 .. MaxEvents
      BY <1>1, ObservesType DEF OutTypeOK
    <3> QED BY <3>1, OutboxAssumption DEF Events
  <2> QED BY <1>2, <2>1 DEF New
<1>4. made <= made'
  BY <1>1, ObservesType
<1>5. \A s \in Seq(Events) : ToSet(s) \subseteq Events
  BY LenProperties, ElementOfSeq DEF ToSet
<1>6. CASE Completes(new, outbox, linkUp) /\ UNCHANGED <<bare, call>>
  <2>1. outbox \in Seq(Events) BY DEF OutTypeOK
  <2>2. /\ outbox' \in Seq(Events) /\ lastReport' \subseteq ToSet(outbox')
        /\ ToSet(outbox') \subseteq ToSet(outbox) \cup ToSet(new)
        /\ dropped' = dropped \cup ((ToSet(outbox) \cup ToSet(new)) \ ToSet(outbox'))
        /\ wire' \in {wire, wire \cup lastReport'}
    BY <1>2, <1>6, <2>1, CompletesQueue
  <2>3. /\ \A e \in Events : Queued(e)' => Queued(e) \/ New(e)
        /\ \A e \in Events : Queued(e) \/ New(e) => Queued(e)' \/ e \in ingested' \cup dropped'
    BY <1>3, <1>6, <2>2 DEF Queued
  <2>4. ToSet(outbox) \cup ToSet(new) \subseteq Events
    BY <1>2, <1>5, <2>1
  <2>5. \A e \in ToSet(outbox) \cup ToSet(new) : Queued(e) \/ New(e)
    BY <1>3, <2>4 DEF Queued
  <2>6. \A s \in Slots : call'[s].at = "free" => ToSet(call'[s].new) = {}
    BY <1>6 DEF QueueInv, KnownEvents
  <2> QED BY <1>4, <2>2, <2>3, <2>5, <2>6 DEF QueueMoves
<1>7. CASE Holds(new)
  <2>1. PICK s \in Slots, reads \in SUBSET Events :
          /\ call[s].at = "free"
          /\ call' = [call EXCEPT ![s] = [at |-> "tails", new |-> new, reads |-> reads]]
          /\ UNCHANGED <<outbox, dropped, lastReport, wire>>
    BY <1>7 DEF Holds
  <2> HIDE DEF new
  <2>2. /\ call'[s].at = "tails" /\ call'[s].new = new
        /\ \A r \in Slots \ {s} : call'[r] = call[r]
        /\ ToSet(call[s].new) = {}
    BY <2>1 DEF OutTypeOK, QueueInv, KnownEvents
  <2>3. /\ \A e \in Events : Queued(e)' => Queued(e) \/ New(e)
        /\ \A e \in Events : Queued(e) \/ New(e) => Queued(e)' \/ e \in ingested' \cup dropped'
    BY <1>3, <2>1, <2>2 DEF Queued
  <2>4. \A r \in Slots : call'[r].at = "free" => ToSet(call'[r].new) = {}
    BY <2>2 DEF QueueInv, KnownEvents
  <2> QED BY <1>4, <2>1, <2>3, <2>4 DEF QueueMoves
<1> QED BY <1>1, <1>6, <1>7

(* A call that has its tails hands over what it kept. *)
LEMMA TailsMoves ==
  ASSUME OutTypeOK, QueueInv, NEW s \in Slots, TailsRead(s)
  PROVE  QueueMoves
<1> DEFINE new == call[s].new
<1>1. /\ outbox \in Seq(Events) /\ new \in Seq(Events) /\ Completes(new, outbox, up)
      /\ call' = [call EXCEPT ![s] = Free] /\ UNCHANGED <<made, acks, ingested>>
  BY DEF TailsRead, OutTypeOK
<1>2. /\ outbox' \in Seq(Events) /\ lastReport' \subseteq ToSet(outbox')
      /\ ToSet(outbox') \subseteq ToSet(outbox) \cup ToSet(new)
      /\ dropped' = dropped \cup ((ToSet(outbox) \cup ToSet(new)) \ ToSet(outbox'))
      /\ wire' \in {wire, wire \cup lastReport'}
  BY <1>1, CompletesQueue
<1>3. ToSet(<<>>) = {}
  BY DEF ToSet
<1>4. /\ call'[s].at = "free" /\ ToSet(call'[s].new) = {}
      /\ \A r \in Slots \ {s} : call'[r] = call[r]
  <2>1. call'[s] = Free /\ \A r \in Slots \ {s} : call'[r] = call[r]
    BY <1>1 DEF OutTypeOK
  <2> QED BY <1>3, <2>1 DEF Free
<1>5. \A e \in ToSet(outbox) \cup ToSet(new) : Queued(e)
  BY DEF Queued
<1> HIDE DEF new
<1>6. \A e \in Events : ~New(e)
  <2>1. made \in Nat /\ Events \subseteq Nat
    BY OutboxAssumption DEF OutTypeOK, Events
  <2> QED BY <1>1, <2>1 DEF New
<1>7. /\ \A e \in Events : Queued(e)' => Queued(e) \/ New(e)
      /\ \A e \in Events : Queued(e) \/ New(e) => Queued(e)' \/ e \in ingested' \cup dropped'
  <2>1. \A e \in Events : Queued(e) =>
          \/ e \in ToSet(outbox) \cup ToSet(new)
          \/ \E r \in Slots \ {s} : e \in ToSet(call[r].new)
    BY DEF Queued, new
  <2>2. \A e \in Events : Queued(e)' =>
          \/ e \in ToSet(outbox')
          \/ \E r \in Slots \ {s} : e \in ToSet(call[r].new)
    BY <1>4 DEF Queued
  <2>3. \A e \in Events : (\E r \in Slots \ {s} : e \in ToSet(call[r].new)) => Queued(e) /\ Queued(e)'
    BY <1>4 DEF Queued
  <2>4. \A e \in ToSet(outbox') : Queued(e)'
    BY DEF Queued
  <2> QED BY <1>2, <1>5, <1>6, <2>1, <2>2, <2>3, <2>4
<1>8. \A r \in Slots : call'[r].at = "free" => ToSet(call'[r].new) = {}
  BY <1>4 DEF QueueInv, KnownEvents
<1>9. made <= made'
  BY <1>1, OutboxAssumption DEF OutTypeOK
<1> QED BY <1>1, <1>2, <1>5, <1>7, <1>8, <1>9 DEF QueueMoves

(* One event more at the end of the outbox *)
LEMMA AppendMoves ==
  ASSUME OutTypeOK, QueueInv, made < MaxEvents, made' = made + 1,
         outbox' = Append(outbox, made + 1), wire' \subseteq wire \cup lastReport,
         UNCHANGED <<call, lastReport, acks, ingested, dropped>>
  PROVE  QueueMoves
<1>1. made \in Nat /\ MaxEvents \in Nat /\ Events \subseteq Nat /\ made + 1 \in Events
      /\ outbox \in Seq(Events)
  BY OutboxAssumption DEF OutTypeOK, Events
<1>2. ToSet(outbox') = ToSet(outbox) \cup {made + 1}
  BY <1>1, AppendElements
<1>3. \A e \in Events : New(e) <=> e = made + 1
  BY <1>1 DEF New
<1>4. \A e \in Events : Queued(e)' <=> Queued(e) \/ New(e)
  BY <1>2, <1>3 DEF Queued
<1>5. made <= made'
  BY <1>1
<1> QED BY <1>4, <1>5 DEF QueueMoves, QueueInv, KnownEvents

(* A step in which no event is observed and no call begins or ends *)
LEMMA QuietMoves ==
  ASSUME OutTypeOK, QueueInv, UNCHANGED <<made, call>>,
         ingested \subseteq ingested', ingested' \subseteq ingested \cup wire,
         dropped \subseteq dropped', dropped' \subseteq dropped \cup ToSet(outbox),
         ToSet(outbox') \subseteq ToSet(outbox),
         ToSet(outbox) \subseteq ToSet(outbox') \cup ingested' \cup dropped',
         UNCHANGED lastReport, wire' \subseteq wire \cup lastReport, acks' \subseteq acks \cup ingested'
  PROVE  QueueMoves
<1>1. made <= made'
  BY OutboxAssumption DEF OutTypeOK
<1>2. \A e \in ToSet(outbox) : Queued(e)
  BY DEF Queued
<1>3. \A e \in Events : Queued(e)' => Queued(e)
  BY DEF Queued
<1>4. \A e \in Events : Queued(e) => Queued(e)' \/ e \in ingested' \cup dropped'
  BY DEF Queued
<1>5. \A e \in Events : ~New(e)
  <2>1. made \in Nat /\ Events \subseteq Nat
    BY OutboxAssumption DEF OutTypeOK, Events
  <2> QED BY <2>1 DEF New
<1> QED BY <1>1, <1>2, <1>3, <1>4, <1>5 DEF QueueMoves, QueueInv, KnownEvents

(* Every step of the agent, the link and the cloud moves events so. *)
LEMMA QueueMovesNext == OutTypeOK /\ QueueInv /\ [OutNext]_outVars => QueueMoves
<1> SUFFICES ASSUME OutTypeOK, QueueInv, [OutNext]_outVars
             PROVE  QueueMoves
  OBVIOUS
<1>0. ASSUME UNCHANGED <<made, call, outbox, lastReport, dropped, ingested, acks, wire>>
      PROVE  QueueMoves
  BY <1>0, QuietMoves
<1>1. CASE Report
  BY <1>1, ReportMoves DEF Report
<1>2. CASE LinkUp
  BY <1>2, ReportMoves DEF LinkUp
<1>3. CASE Link
  BY <1>3, ReportMoves DEF Link
<1>4. CASE Restart \/ Operate
  BY <1>0, <1>4 DEF Restart, Operate, Quietly, netVars
<1>5. CASE CronOutcome \/ AlertsTest
  <2>1. wire' \subseteq wire \cup lastReport
    BY <1>5 DEF CronOutcome, AlertsTest, netVars, Sends
  <2>2. /\ made < MaxEvents /\ made' = made + 1 /\ outbox' = Append(outbox, made + 1)
        /\ UNCHANGED <<call, lastReport, acks, ingested, dropped>>
    <3>1. CASE CronOutcome BY <3>1 DEF CronOutcome, netVars
    <3>2. CASE AlertsTest BY <3>2 DEF AlertsTest
    <3> QED BY <1>5, <3>1, <3>2
  <2> QED BY <2>1, <2>2, AppendMoves
<1>6. ASSUME NEW s \in Slots, TailsRead(s) PROVE QueueMoves
  BY <1>6, TailsMoves
<1>7. ASSUME NEW next \in {"waiting", "errored", "stopped"}, Crash(next) PROVE QueueMoves
  <2>1. CASE running
    <3>1. /\ made < MaxEvents /\ made' = made + 1 /\ outbox' = Append(outbox, made + 1)
          /\ UNCHANGED <<call, lastReport, wire, acks, ingested, dropped>>
      BY <1>7, <2>1 DEF Crash, ForwardCrash, netVars
    <3>2. wire' \subseteq wire \cup lastReport
      BY <3>1
    <3> QED BY <3>1, <3>2, AppendMoves
  <2>2. CASE ~running
    BY <1>0, <1>7, <2>2 DEF Crash, ForwardCrash, netVars
  <2> QED BY <2>1, <2>2
<1>8. CASE LinkDown
  BY <1>8, QuietMoves DEF LinkDown
<1>9. ASSUME NEW e \in Events, Ingest(e) PROVE QueueMoves
  <2>1. /\ UNCHANGED <<made, call, outbox, lastReport, dropped>>
        /\ e \in wire /\ ingested' = ingested \cup {e} /\ wire' = wire \ {e} /\ acks' = acks \cup {e}
    BY <1>9 DEF Ingest
  <2>2. ingested \subseteq ingested' /\ ingested' \subseteq ingested \cup wire
        /\ wire' \subseteq wire \cup lastReport /\ acks' \subseteq acks \cup ingested'
    BY <2>1
  <2> QED BY <2>1, <2>2, QuietMoves
<1>10. ASSUME NEW e \in Events, HandleEventAck(e) PROVE QueueMoves
  <2>1. /\ UNCHANGED <<made, call, lastReport, dropped, ingested, wire>>
        /\ e \in acks /\ acks' = acks \ {e} /\ outbox' = Among(outbox, Events \ {e})
    BY <1>10 DEF HandleEventAck
  <2>2. outbox \in Seq(Events)
    BY DEF OutTypeOK
  <2>3. ToSet(outbox') = ToSet(outbox) \cap (Events \ {e})
    BY <2>1, <2>2, AmongElements
  <2>4. ToSet(outbox) \subseteq Events
    BY <2>2, LenProperties, ElementOfSeq DEF ToSet
  <2>5. e \in ingested
    BY <2>1 DEF QueueInv, KnownEvents
  <2>6. /\ ToSet(outbox') \subseteq ToSet(outbox)
        /\ ToSet(outbox) \subseteq ToSet(outbox') \cup ingested' \cup dropped'
        /\ acks' \subseteq acks \cup ingested'
    BY <2>1, <2>3, <2>4, <2>5
  <2> QED BY <2>1, <2>6, QuietMoves
<1>11. ASSUME NEW revoked \in BOOLEAN, Unlink(revoked) PROVE QueueMoves
  <2>1. /\ UNCHANGED <<made, call, lastReport, ingested>>
        /\ wire' = {} /\ acks' = {}
        /\ \/ outbox' = <<>> /\ dropped' = dropped \cup ToSet(outbox)
           \/ UNCHANGED <<outbox, dropped>>
    BY <1>11 DEF Unlink
  <2>2. ToSet(<<>>) = {}
    BY DEF ToSet
  <2>3. CASE outbox' = <<>> /\ dropped' = dropped \cup ToSet(outbox)
    <3>1. ToSet(outbox') = {}
      BY <2>2, <2>3
    <3> QED BY <2>1, <2>3, <3>1, QuietMoves
  <2>4. CASE UNCHANGED <<outbox, dropped>>
    BY <2>1, <2>4, QuietMoves
  <2> QED BY <2>1, <2>3, <2>4
<1>12. CASE UNCHANGED outVars
  BY <1>0, <1>12 DEF outVars
<1> QED BY <1>1, <1>2, <1>3, <1>4, <1>5, <1>6, <1>7, <1>8, <1>9, <1>10, <1>11, <1>12 DEF OutNext

(* At first nothing is observed and nothing is held. *)
LEMMA QueueInit == OutInit => QueueInv /\ Channel!ChanInit
<1> SUFFICES ASSUME OutInit PROVE QueueInv /\ Channel!ChanInit
  OBVIOUS
<1>1. ToSet(<<>>) = {}
  BY DEF ToSet
<1>2. \A e \in Events : ~Queued(e)
  BY <1>1 DEF OutInit, Queued, Free
<1>3. made = 0 /\ Events \subseteq Nat \ {0}
  BY OutboxAssumption DEF OutInit, Events
<1>4. KnownEvents
  BY <1>1, <1>2 DEF OutInit, KnownEvents, Free
<1>5. NoneLost
  BY <1>3 DEF NoneLost
<1>6. \A e \in Events : Fate(e) = "none"
  BY <1>2 DEF OutInit, Fate
<1>7. Channel!ChanInit
  BY <1>6 DEF Channel!ChanInit
<1> QED BY <1>4, <1>5, <1>7 DEF QueueInv

(* The agent implements the channel's promise for every number of events,    *)
(* of overlapping calls and every cap: an event leaves the queues only to be *)
(* counted by the cloud or to be given up.                                   *)
THEOREM ChannelImplemented == OutSpec => Channel!ChanSafety
<1>1. OutInit => OutTypeOK /\ QueueInv /\ Channel!ChanInit
  BY TypeInit, QueueInit
<1>2. OutTypeOK /\ QueueInv /\ [OutNext]_outVars
      => (OutTypeOK /\ QueueInv)' /\ [Channel!ChanNext]_([e \in Events |-> Fate(e)])
  BY TypeNext, QueueMovesNext, QueueStep
<1> QED BY <1>1, <1>2, PTL DEF OutSpec, Channel!ChanSafety

=============================================================================
