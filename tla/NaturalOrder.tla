----------------------------- MODULE NaturalOrder -----------------------------
(***************************************************************************)
(* Least and greatest elements of sets of natural numbers, what a filter,  *)
(* a fold and the joining of two sequences yield.  The first follow from   *)
(* the well-foundedness of strict inclusion between finite sets, not from  *)
(* an induction theorem, which would need an operator as parameter; and    *)
(* the others from them: a least counterexample would have a predecessor   *)
(* that is none.                                                           *)
(***************************************************************************)
EXTENDS Integers, FiniteSets, SequencesExt, SeqFilter, FiniteSetTheorems, WellFoundedInduction,
        SequenceTheorems, TLAPS

(* Among finite subsets of S a nonempty family has one that contains no other. *)
LEMMA SmallestSet ==
  ASSUME NEW S, NEW T, T \subseteq FiniteSubsetsOf(S), T # {}
  PROVE  \E A \in T : \A B \in T : B \subseteq A => B = A
<1>1. PICK A \in T : \A B \in T : <<B, A>> \notin StrictSubsetOrdering(S)
  <2>1. IsWellFoundedOn(StrictSubsetOrdering(S), FiniteSubsetsOf(S))
    BY FS_StrictSubsetOrderingWellFounded
  <2> QED BY <2>1, WFMin
<1>2. ASSUME NEW B \in T, B \subseteq A, B # A PROVE FALSE
  <2>1. A \in SUBSET S /\ B \in SUBSET S
    BY DEF FiniteSubsetsOf
  <2>2. <<B, A>> \in (SUBSET S) \X (SUBSET S)
    BY <2>1
  <2>3. <<B, A>> \in StrictSubsetOrdering(S)
    BY <1>2, <2>2 DEF StrictSubsetOrdering
  <2> QED BY <1>1, <2>3
<1> QED BY <1>2

(* A nonempty set of natural numbers has a least element. *)
LEMMA Least ==
  ASSUME NEW S, S \subseteq Nat, S # {}
  PROVE  \E n \in S : \A m \in S : n <= m
<1> DEFINE T == {0 .. n : n \in S}
<1>1. \A n \in S : IsFiniteSet(0 .. n) /\ 0 .. n \in SUBSET Nat
  <2> TAKE n \in S
  <2>1. 0 \in Int /\ n \in Int OBVIOUS
  <2>2. IsFiniteSet(0 .. n) BY <2>1, FS_Interval
  <2> QED BY <2>2
<1>2. T \subseteq FiniteSubsetsOf(Nat) /\ T # {}
  BY <1>1 DEF FiniteSubsetsOf
<1>3. PICK A \in T : \A B \in T : B \subseteq A => B = A
  <2> HIDE DEF T
  <2> QED BY <1>2, SmallestSet
<1>4. PICK n \in S : A = 0 .. n
  OBVIOUS
<1>5. ASSUME NEW m \in S, m < n PROVE FALSE
  <2>1. n \in 0 .. n /\ n \notin 0 .. m /\ 0 .. m \subseteq 0 .. n
    BY <1>5
  <2> QED BY <1>3, <1>4, <2>1
<1> QED BY <1>5

(* A finite nonempty set of natural numbers has a greatest element. *)
LEMMA Greatest ==
  ASSUME NEW S, S \subseteq Nat, S # {}, IsFiniteSet(S)
  PROVE  \E n \in S : \A m \in S : m <= n
<1> DEFINE above(n) == {m \in S : m > n}
           T == {above(n) : n \in S}
<1>1. \A n \in S : IsFiniteSet(above(n)) /\ above(n) \in SUBSET S
  BY FS_Subset
<1>2. T \subseteq FiniteSubsetsOf(S) /\ T # {}
  BY <1>1 DEF FiniteSubsetsOf
<1>3. PICK A \in T : \A B \in T : B \subseteq A => B = A
  <2> HIDE DEF T
  <2> QED BY <1>2, SmallestSet
<1>4. PICK n \in S : A = above(n)
  OBVIOUS
<1>5. ASSUME NEW m \in S, m > n PROVE FALSE
  <2>1. m \in Nat /\ n \in Nat
    OBVIOUS
  <2>2. m \in above(n) /\ m \notin above(m)
    BY <1>5, <2>1
  <2>3. \A k \in S : k \in Nat /\ (k > m => k > n)
    BY <1>5, <2>1
  <2>4. above(m) \subseteq above(n)
    BY <2>3
  <2>5. above(m) \in T
    OBVIOUS
  <2> QED BY <1>3, <1>4, <2>2, <2>4, <2>5
<1> QED BY <1>5

-----------------------------------------------------------------------------
(* The filter *)

(* The filter satisfies its own recursion, for a queue of any length. *)
LEMMA AmongRecurs ==
  ASSUME NEW box, Len(box) \in Nat, NEW S
  PROVE  \E f : /\ Among(box, S) = f[Len(box)]
                /\ \A i \in 0 .. Len(box) :
                     f[i] = IF i = 0 THEN <<>>
                            ELSE IF box[i] \in S THEN Append(f[i - 1], box[i]) ELSE f[i - 1]
<1> DEFINE Good(n, g) == g = [i \in 0 .. n |->
                                IF i = 0 THEN <<>>
                                ELSE IF box[i] \in S THEN Append(g[i - 1], box[i]) ELSE g[i - 1]]
           Bad == {n \in Nat : \A g : ~Good(n, g)}
           f == CHOOSE g : Good(Len(box), g)
<1>1. Bad = {}
  <2> SUFFICES ASSUME Bad # {} PROVE FALSE
    OBVIOUS
  <2>1. PICK n \in Bad : \A m \in Bad : n <= m
    <3>1. Bad \subseteq Nat OBVIOUS
    <3> HIDE DEF Bad
    <3> QED BY <3>1, Least
  <2>2. Good(0, [i \in 0 .. 0 |-> <<>>])
    OBVIOUS
  <2>3. n \in Nat \ {0} /\ n - 1 \in Nat /\ \A g : ~Good(n, g)
    <3>1. n \in Nat /\ \A g : ~Good(n, g)
      <4> HIDE DEF Good
      <4> QED OBVIOUS
    <3>2. n # 0
      <4> HIDE DEF Good, Bad
      <4> QED BY <2>2, <3>1
    <3> QED BY <3>1, <3>2
  <2>4. PICK g : Good(n - 1, g)
    <3>1. n - 1 \notin Bad
      <4> HIDE DEF Bad
      <4> QED BY <2>1, <2>3
    <3> HIDE DEF Good
    <3> QED BY <3>1, <2>3
  <2> DEFINE h == [i \in 0 .. n |-> IF i = n THEN IF box[n] \in S THEN Append(g[n - 1], box[n])
                                                  ELSE g[n - 1]
                                    ELSE g[i]]
  <2>5. \A i \in 0 .. n - 1 : h[i] = g[i]
    BY <2>3
  <2>6. \A i \in 0 .. n : h[i] = IF i = 0 THEN <<>>
                                 ELSE IF box[i] \in S THEN Append(h[i - 1], box[i]) ELSE h[i - 1]
    <3> TAKE i \in 0 .. n
    <3>1. CASE i = n
      BY <3>1, <2>3, <2>5
    <3>2. CASE i < n
      <4>1. i \in 0 .. n - 1 /\ (i # 0 => i - 1 \in 0 .. n - 1)
        BY <3>2, <2>3
      <4>2. g[i] = IF i = 0 THEN <<>>
                   ELSE IF box[i] \in S THEN Append(g[i - 1], box[i]) ELSE g[i - 1]
        BY <4>1, <2>4
      <4> HIDE DEF h
      <4> QED BY <4>1, <4>2, <2>5
    <3> QED BY <3>1, <3>2, <2>3
  <2>7. Good(n, h)
    <3>1. h = [i \in 0 .. n |-> h[i]] OBVIOUS
    <3> HIDE DEF h
    <3> QED BY <3>1, <2>6
  <2> HIDE DEF Good
  <2> QED BY <2>3, <2>7
<1>2. \E g : Good(Len(box), g)
  <2> HIDE DEF Good
  <2> QED BY <1>1
<1>3. Good(Len(box), f)
  <2> HIDE DEF Good
  <2> QED BY <1>2
<1>4. Among(box, S) = f[Len(box)]
  BY DEF Among
<1>5. \A i \in 0 .. Len(box) :
        f[i] = IF i = 0 THEN <<>>
               ELSE IF box[i] \in S THEN Append(f[i - 1], box[i]) ELSE f[i - 1]
  <2> HIDE DEF f
  <2> QED BY <1>3
<1> HIDE DEF f
<1> QED BY <1>4, <1>5

(* p says which elements were taken, and that none was taken twice. *)
Picks(p, box, res, S, n) ==
  /\ p \in [1 .. Len(res) -> 1 .. n]
  /\ \A j, k \in 1 .. Len(res) : p[j] = p[k] => j = k
  /\ \A j \in 1 .. Len(res) : res[j] = box[p[j]] /\ box[p[j]] \in S
  /\ \A x \in 1 .. n : box[x] \in S => \E j \in 1 .. Len(res) : p[j] = x

(* One element more: it is taken or passed over, and the rest stays. *)
LEMMA PicksNext ==
  ASSUME NEW T, NEW box \in Seq(T), NEW S, NEW res \in Seq(T),
         NEW i \in 1 .. Len(box), NEW p, Picks(p, box, res, S, i - 1)
  PROVE  LET next == IF box[i] \in S THEN Append(res, box[i]) ELSE res
         IN next \in Seq(T) /\ \E q : Picks(q, box, next, S, i)
<1>0. Len(res) \in Nat /\ Len(box) \in Nat /\ box[i] \in T
  BY ElementOfSeq, LenProperties
<1>1. CASE box[i] \notin S
  <2>1. Picks(p, box, res, S, i)
    BY <1>0, <1>1 DEF Picks
  <2> QED BY <1>1, <2>1
<1>2. CASE box[i] \in S
  <2> DEFINE next == Append(res, box[i])
             q == [j \in 1 .. Len(res) + 1 |-> IF j = Len(res) + 1 THEN i ELSE p[j]]
  <2>1. /\ next \in Seq(T) /\ Len(next) = Len(res) + 1
        /\ \A j \in 1 .. Len(res) : next[j] = res[j]
        /\ next[Len(res) + 1] = box[i]
    BY <1>0, AppendProperties
  <2>2. q \in [1 .. Len(next) -> 1 .. i]
    BY <1>0, <2>1 DEF Picks
  <2>3. /\ \A j \in 1 .. Len(res) : q[j] = p[j] /\ p[j] \in 1 .. i - 1
        /\ q[Len(res) + 1] = i
    BY <1>0 DEF Picks
  <2> HIDE DEF next, q
  <2>4. \A j \in 1 .. Len(next) : j \in 1 .. Len(res) \/ j = Len(res) + 1
    BY <1>0, <2>1
  <2>5. \A j, k \in 1 .. Len(next) : q[j] = q[k] => j = k
    BY SMTT(30), <1>0, <2>3, <2>4 DEF Picks
  <2>6. \A j \in 1 .. Len(next) : next[j] = box[q[j]] /\ box[q[j]] \in S
    BY <1>2, <2>1, <2>3, <2>4 DEF Picks
  <2>7. \A x \in 1 .. i : box[x] \in S => \E j \in 1 .. Len(next) : q[j] = x
    <3> TAKE x \in 1 .. i
    <3>1. CASE x = i
      BY <3>1, <1>0, <2>1, <2>3
    <3>2. CASE x # i
      <4>1. x \in 1 .. i - 1 BY <3>2
      <4>2. ASSUME box[x] \in S PROVE \E j \in 1 .. Len(res) : p[j] = x
        BY <4>1, <4>2 DEF Picks
      <4>3. \A j \in 1 .. Len(res) : j \in 1 .. Len(next) /\ q[j] = p[j]
        BY <1>0, <2>1, <2>3
      <4> QED BY <4>2, <4>3
    <3> QED BY <3>1, <3>2
  <2>8. Picks(q, box, next, S, i)
    BY <2>2, <2>5, <2>6, <2>7 DEF Picks
  <2> QED BY <1>2, <2>1, <2>8 DEF next
<1> QED BY <1>1, <1>2

(* The filter takes what is in S, each place of the queue once. *)
LEMMA AmongPicks ==
  ASSUME NEW T, NEW box \in Seq(T), NEW S
  PROVE  /\ Among(box, S) \in Seq(T)
         /\ \E p : Picks(p, box, Among(box, S), S, Len(box))
<1>0. Len(box) \in Nat
  BY LenProperties
<1>1. PICK f : /\ Among(box, S) = f[Len(box)]
               /\ \A i \in 0 .. Len(box) :
                    f[i] = IF i = 0 THEN <<>>
                           ELSE IF box[i] \in S THEN Append(f[i - 1], box[i]) ELSE f[i - 1]
  BY <1>0, AmongRecurs
<1> DEFINE Good(n) == f[n] \in Seq(T) /\ \E p : Picks(p, box, f[n], S, n)
           Bad == {n \in 0 .. Len(box) : ~Good(n)}
<1>2. Good(0)
  <2>1. f[0] = <<>> /\ <<>> \in Seq(T) /\ Len(<<>>) = 0
    BY <1>0, <1>1
  <2>2. Picks([j \in 1 .. 0 |-> 0], box, f[0], S, 0)
    BY <2>1 DEF Picks
  <2> QED BY <2>1, <2>2
<1>3. ASSUME NEW n \in 1 .. Len(box), Good(n - 1) PROVE Good(n)
  <2>1. f[n] = IF box[n] \in S THEN Append(f[n - 1], box[n]) ELSE f[n - 1]
    BY <1>0, <1>1
  <2>2. PICK p : Picks(p, box, f[n - 1], S, n - 1)
    BY <1>3
  <2>3. f[n - 1] \in Seq(T)
    BY <1>3
  <2> QED BY <2>1, <2>2, <2>3, PicksNext
<1>4. Bad = {}
  <2> SUFFICES ASSUME Bad # {} PROVE FALSE
    OBVIOUS
  <2>1. Bad \subseteq Nat OBVIOUS
  <2>2. PICK n \in Bad : \A m \in Bad : n <= m
    <3> HIDE DEF Bad
    <3> QED BY <2>1, Least
  <2>3. n \in 0 .. Len(box) /\ ~Good(n)
    <3> HIDE DEF Good
    <3> QED OBVIOUS
  <2> HIDE DEF Good
  <2>4. n \in 1 .. Len(box) /\ n - 1 \in 0 .. Len(box)
    BY <1>0, <1>2, <2>3
  <2>5. n - 1 \notin Bad
    <3> HIDE DEF Bad
    <3> QED BY <2>2, <2>4
  <2> QED BY <1>3, <2>3, <2>4, <2>5
<1>5. Good(Len(box))
  <2> HIDE DEF Good
  <2> QED BY <1>0, <1>4
<1> QED BY <1>1, <1>5

(* What is in the queue and in S is in the filtered queue, and nothing else. *)
LEMMA AmongElements ==
  ASSUME NEW T, NEW box \in Seq(T), NEW S
  PROVE  Among(box, S) \in Seq(T) /\ ToSet(Among(box, S)) = ToSet(box) \cap S
<1> DEFINE res == Among(box, S)
<1>1. PICK p : Picks(p, box, res, S, Len(box))
  BY AmongPicks
<1>2. res \in Seq(T)
  BY AmongPicks
<1> HIDE DEF res
<1>3. DOMAIN res = 1 .. Len(res) /\ DOMAIN box = 1 .. Len(box)
  BY <1>2, LenProperties
<1>4. ToSet(res) \subseteq ToSet(box) \cap S
  BY <1>1, <1>3 DEF Picks, ToSet
<1>5. ToSet(box) \cap S \subseteq ToSet(res)
  BY <1>1, <1>3 DEF Picks, ToSet
<1> QED BY <1>2, <1>4, <1>5 DEF res

-----------------------------------------------------------------------------
(* Folds *)

(* What holds at 0, and at i whenever it holds at i - 1, holds up to n. The   *)
(* statement is a set of numbers, and a least one outside it would have a     *)
(* predecessor that is none.                                                  *)
LEMMA ByCounting ==
  ASSUME NEW n \in Nat, NEW P, 0 \in P, \A i \in 1 .. n : i - 1 \in P => i \in P
  PROVE  0 .. n \subseteq P
<1> DEFINE bad == {i \in 0 .. n : i \notin P}
<1> SUFFICES ASSUME bad # {} PROVE FALSE
  OBVIOUS
<1>1. PICK i \in bad : \A j \in bad : i <= j
  <2>1. bad \subseteq Nat OBVIOUS
  <2> HIDE DEF bad
  <2> QED BY <2>1, Least
<1>2. i \in 1 .. n /\ i \notin P
  OBVIOUS
<1>3. i - 1 \in 0 .. n /\ ~(i <= i - 1)
  BY <1>2
<1>4. i - 1 \in P
  BY <1>1, <1>3
<1> QED BY <1>2, <1>4

(* The greatest of some numbers up to n, and of all of them.                  *)
LEMMA MaxOf ==
  ASSUME NEW n \in Nat, NEW s, s \subseteq 1 .. n, s # {}
  PROVE  Max(s) \in s /\ \A x \in s : x <= Max(s)
<1>1. IsFiniteSet(s) /\ s \subseteq Nat
  <2>1. 1 \in Int /\ n \in Int OBVIOUS
  <2>2. IsFiniteSet(1 .. n) BY <2>1, FS_Interval
  <2>3. IsFiniteSet(s) BY <2>2, FS_Subset
  <2> QED BY <2>3
<1>2. PICK m \in s : \A x \in s : x <= m
  BY <1>1, Greatest
<1>3. \A x \in s : x \in Nat
  BY <1>1
<1>4. \E x \in s : \A y \in s : x >= y
  BY <1>2, <1>3
<1>5. Max(s) \in s /\ \A y \in s : Max(s) >= y
  BY <1>4 DEF Max
<1> QED BY <1>3, <1>5

LEMMA MaxIs ==
  ASSUME NEW n \in Nat, NEW s, s \subseteq 1 .. n, n \in s
  PROVE  Max(s) = n
<1>1. Max(s) \in s /\ \A x \in s : x <= Max(s)
  BY MaxOf
<1>2. Max(s) \in 1 .. n /\ n <= Max(s)
  BY <1>1
<1> QED BY <1>2

(* The recursion by which FoldLeft is defined has a solution for a step that  *)
(* stays in V.                                                                *)
Solves(g, n, base, step, seq, V) ==
  /\ g \in [SUBSET (1 .. n) -> V]
  /\ \A s \in SUBSET (1 .. n) :
       g[s] = IF s = {} THEN base ELSE step[<<g[s \ {Max(s)}], seq[Max(s)]>>]

LEMMA SolvesNext ==
  ASSUME NEW V, NEW E, NEW step \in [V \X E -> V], NEW base \in V, NEW seq,
         NEW n \in Nat \ {0}, seq[n] \in E, NEW g, Solves(g, n - 1, base, step, seq, V)
  PROVE  \E h : Solves(h, n, base, step, seq, V)
<1> DEFINE h == [s \in SUBSET (1 .. n) |-> IF n \in s THEN step[<<g[s \ {n}], seq[n]>>] ELSE g[s]]
<1>1. \A s \in SUBSET (1 .. n) : /\ s \ {n} \in SUBSET (1 .. n - 1)
                                 /\ n \notin s => s \in SUBSET (1 .. n - 1)
  <2>1. \A i \in 1 .. n : i # n => i \in 1 .. n - 1
    OBVIOUS
  <2> QED BY <2>1
<1>2. \A s \in SUBSET (1 .. n - 1) : g[s] \in V /\ n \notin s /\ s \in SUBSET (1 .. n)
  <2>1. \A s \in SUBSET (1 .. n - 1) : n \notin s /\ s \in SUBSET (1 .. n)
    OBVIOUS
  <2>2. \A s \in SUBSET (1 .. n - 1) : g[s] \in V
    BY DEF Solves
  <2> QED BY <2>1, <2>2
<1>3. \A s \in SUBSET (1 .. n) : h[s] \in V
  BY <1>1, <1>2
<1>4. h \in [SUBSET (1 .. n) -> V]
  BY <1>3
<1>5. ASSUME NEW s \in SUBSET (1 .. n)
      PROVE  h[s] = IF s = {} THEN base ELSE step[<<h[s \ {Max(s)}], seq[Max(s)]>>]
  <2>1. CASE n \in s
    <3>1. Max(s) = n
      BY <2>1, MaxIs
    <3>2. h[s \ {n}] = g[s \ {n}] /\ h[s] = step[<<g[s \ {n}], seq[n]>>]
      BY <2>1, <1>1, <1>2
    <3> QED BY <2>1, <3>1, <3>2
  <2>2. CASE n \notin s
    <3>1. s \in SUBSET (1 .. n - 1) /\ h[s] = g[s]
      BY <2>2, <1>1
    <3>2. g[s] = IF s = {} THEN base ELSE step[<<g[s \ {Max(s)}], seq[Max(s)]>>]
      BY <3>1 DEF Solves
    <3>3. s \ {Max(s)} \in SUBSET (1 .. n - 1)
      BY <3>1
    <3>4. h[s \ {Max(s)}] = g[s \ {Max(s)}]
      BY <3>3, <1>2
    <3> HIDE DEF h
    <3> QED BY <3>1, <3>2, <3>4
  <2> QED BY <2>1, <2>2
<1> HIDE DEF h
<1> QED BY <1>4, <1>5 DEF Solves

LEMMA FoldExists ==
  ASSUME NEW V, NEW E, NEW step \in [V \X E -> V], NEW base \in V, NEW seq \in Seq(E)
  PROVE  \E g : Solves(g, Len(seq), base, step, seq, V)
<1> DEFINE P == {n \in 0 .. Len(seq) : \E g : Solves(g, n, base, step, seq, V)}
<1>0. Len(seq) \in Nat /\ \A i \in 1 .. Len(seq) : seq[i] \in E
  BY LenProperties, ElementOfSeq
<1>1. 0 \in P
  <2> DEFINE g == [s \in {{}} |-> base]
  <2>1. SUBSET (1 .. 0) = {{}}
    OBVIOUS
  <2>2. Solves(g, 0, base, step, seq, V)
    BY <2>1 DEF Solves
  <2> HIDE DEF g
  <2> QED BY <1>0, <2>2
<1>2. ASSUME NEW n \in 1 .. Len(seq), n - 1 \in P PROVE n \in P
  <2>1. PICK g : Solves(g, n - 1, base, step, seq, V)
    BY <1>2
  <2>2. n \in Nat \ {0} /\ seq[n] \in E
    BY <1>0
  <2>3. \E h : Solves(h, n, base, step, seq, V)
    BY <2>1, <2>2, SolvesNext
  <2> QED BY <2>3
<1>3. 0 .. Len(seq) \subseteq P
  <2> HIDE DEF P
  <2> QED BY <1>0, <1>1, <1>2, ByCounting
<1> QED BY <1>0, <1>3

-----------------------------------------------------------------------------
(* Sequences put together *)

(* What a sequence held, the longer one holds. *)
LEMMA ConcatKeeps ==
  ASSUME NEW T, NEW s \in Seq(T), NEW t \in Seq(T)
  PROVE  /\ s \o t \in Seq(T)
         /\ ToSet(s) \subseteq ToSet(s \o t) /\ ToSet(t) \subseteq ToSet(s \o t)
<1>1. \A k \in DOMAIN s : k \in DOMAIN (s \o t) /\ (s \o t)[k] = s[k]
  OBVIOUS
<1>2. \A k \in DOMAIN t : Len(s) + k \in DOMAIN (s \o t) /\ (s \o t)[Len(s) + k] = t[k]
  OBVIOUS
<1>3. s \o t \in Seq(T)
  OBVIOUS
<1>4. ToSet(s) \subseteq ToSet(s \o t)
  BY <1>1 DEF ToSet
<1>5. ToSet(t) \subseteq ToSet(s \o t)
  BY <1>2 DEF ToSet
<1> QED BY <1>3, <1>4, <1>5
=============================================================================
