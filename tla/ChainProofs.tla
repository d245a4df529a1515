---------------------------- MODULE ChainProofs -----------------------------
(***************************************************************************)
(* Proofs about the two chains a client walks: the claim campaigns of a    *)
(* publisher (CampaignPublishing) and the order chains of a purchase       *)
(* history (Purchases), for any sessions, campaigns, receipts and  *)
(* keys, and chains of any length.                                         *)
(*                                                                         *)
(* Both walks are recursive functions over rounds.  What they return after *)
(* every number of rounds is proved from the least-element principle of    *)
(* the numbers, as a set of rounds that contains 0 and each successor.     *)
(***************************************************************************)
EXTENDS CampaignPublishing, Purchases, FiniteSetTheorems, NaturalsInduction, TLAPS

(* Induction, over a set of numbers. *)
LEMMA Induction ==
  ASSUME NEW I, 0 \in I, \A n \in Nat : n \in I => n + 1 \in I
  PROVE  \A n \in Nat : n \in I
<1> DEFINE Rest == {n \in Nat : n \notin I}
<1> SUFFICES ASSUME Rest # {}  PROVE  FALSE
  OBVIOUS
<1>1. PICK m \in Rest : \A y \in Rest : ~(<<y, m>> \in OpToRel(<, Nat))
  BY NatLessThanWellFounded, WFMin
<1>2. \A y \in Rest : ~(y < m)
  BY <1>1 DEF OpToRel
<1>3. m # 0 /\ m - 1 \in Nat /\ m - 1 < m /\ m = (m - 1) + 1
  OBVIOUS
<1>4. m - 1 \in I
  BY <1>2, <1>3
<1>. QED  BY <1>3, <1>4

(* The first n steps of an iteration. *)
Begins(f, n, T, first, next) ==
  /\ f \in [0..n -> T]
  /\ f[0] = first
  /\ \A k \in Nat : k < n => f[k + 1] = next[f[k]]

(* A function on the numbers can be defined by its first value and by how  *)
(* each value follows from the one before.                                 *)
LEMMA Iteration ==
  ASSUME NEW T, NEW first \in T, NEW next \in [T -> T]
  PROVE  \E w \in [Nat -> T] :
           /\ w[0] = first
           /\ \A n \in Nat : w[n + 1] = next[w[n]]
<1> DEFINE Run(f, n) == Begins(f, n, T, first, next)
           Defined == {n \in Nat : \E f : Run(f, n)}
           Alike == {k \in Nat : \A m, n \in Nat : k <= m /\ k <= n =>
                       \A f, g : Run(f, m) /\ Run(g, n) => f[k] = g[k]}
<1>1. \A n \in Nat : n \in Defined
  <2>1. 0 \in Defined
    <3>1. Run([k \in 0..0 |-> first], 0)
      BY DEF Begins
    <3>. QED  BY <3>1
  <2>2. ASSUME NEW n \in Nat, n \in Defined
        PROVE  n + 1 \in Defined
    <3>1. PICK f : Run(f, n)
      BY <2>2
    <3> DEFINE g == [k \in 0..(n + 1) |-> IF k = n + 1 THEN next[f[n]] ELSE f[k]]
    <3>2. g \in [0..(n + 1) -> T]
      BY <3>1 DEF Begins
    <3>3. g[0] = first
      BY <3>1 DEF Begins
    <3>4. ASSUME NEW k \in Nat, k < n + 1  PROVE  g[k + 1] = next[g[k]]
      <4>1. CASE k = n
        BY <4>1
      <4>2. CASE k # n
        BY <3>1, <3>4, <4>2 DEF Begins
      <4>. QED  BY <4>1, <4>2
    <3>5. Run(g, n + 1)
      BY <3>2, <3>3, <3>4 DEF Begins
    <3> HIDE DEF g
    <3>. QED  BY <3>5
  <2>. HIDE DEF Defined
  <2>. QED  BY <2>1, <2>2, Induction
<1>2. \A k \in Nat : k \in Alike
  <2>1. 0 \in Alike
    BY DEF Begins
  <2>2. ASSUME NEW k \in Nat, k \in Alike
        PROVE  k + 1 \in Alike
    <3>1. ASSUME NEW m \in Nat, NEW n \in Nat, k + 1 <= m, k + 1 <= n,
                 NEW f, NEW g, Run(f, m), Run(g, n)
          PROVE  f[k + 1] = g[k + 1]
      <4>1. f[k] = g[k]
        BY <2>2, <3>1
      <4>. QED  BY <3>1, <4>1 DEF Begins
    <3> HIDE DEF Run
    <3>. QED  BY <3>1
  <2>. HIDE DEF Alike
  <2>. QED  BY <2>1, <2>2, Induction
<1> DEFINE some == [n \in Nat |-> CHOOSE f : Run(f, n)]
           w == [n \in Nat |-> some[n][n]]
<1>3. ASSUME NEW n \in Nat  PROVE  Run(some[n], n)
  <2>1. \E f : Run(f, n)
    BY <1>1
  <2> HIDE DEF Run
  <2>. QED  BY <2>1
<1> HIDE DEF some
<1>4. w \in [Nat -> T] /\ w[0] = first
  BY <1>3 DEF Begins
<1>5. ASSUME NEW n \in Nat  PROVE  w[n + 1] = next[w[n]]
  <2>1. Run(some[n], n) /\ Run(some[n + 1], n + 1)
    BY <1>3
  <2>2. some[n + 1][n] = some[n][n]
    <3>1. n \in Alike
      BY <1>2
    <3> HIDE DEF Run
    <3>. QED  BY <2>1, <3>1
  <2>3. some[n + 1][n + 1] = next[some[n + 1][n]]
    BY <2>1 DEF Begins
  <2>. QED  BY <2>2, <2>3
<1> HIDE DEF w
<1>. QED  BY <1>4, <1>5

(* A set that grows as long as the walk moves cannot outgrow S. *)
LEMMA MovesRunOut ==
  ASSUME NEW S, IsFiniteSet(S), NEW seen \in [Nat -> SUBSET S],
         NEW going \in SUBSET Nat, \A n \in Nat : n + 1 \in going => n \in going,
         seen[0] # {},
         \A n \in Nat : n \in going => seen[n] \subseteq seen[n + 1] /\ seen[n] # seen[n + 1]
  PROVE  Cardinality(S) \notin going
<1> DEFINE I == {n \in Nat : n \in going => Cardinality(seen[n]) >= n + 1}
<1>0. \A n \in Nat : IsFiniteSet(seen[n]) /\ Cardinality(seen[n]) \in Nat /\ Cardinality(seen[n]) <= Cardinality(S)
  BY FS_Subset, FS_CardinalityType
<1>1. 0 \in I
  BY <1>0, FS_EmptySet
<1>2. ASSUME NEW n \in Nat, n \in I  PROVE  n + 1 \in I
  <2> SUFFICES ASSUME n + 1 \in going  PROVE  Cardinality(seen[n + 1]) >= (n + 1) + 1
    OBVIOUS
  <2>1. n \in going /\ Cardinality(seen[n]) >= n + 1
    BY <1>2
  <2>2. seen[n] \in SUBSET seen[n + 1] /\ seen[n] # seen[n + 1]
    BY <2>1
  <2>3. Cardinality(seen[n]) <= Cardinality(seen[n + 1]) /\ Cardinality(seen[n]) # Cardinality(seen[n + 1])
    BY <1>0, <2>2, FS_Subset
  <2>. QED  BY <1>0, <2>1, <2>3
<1>3. \A n \in Nat : n \in I
  <2> HIDE DEF I
  <2>. QED  BY <1>1, <1>2, Induction
<1>4. Cardinality(S) \in Nat
  BY FS_CardinalityType
<1>. QED  BY <1>0, <1>3, <1>4

(* A finite set of numbers has a greatest one. *)
LEMMA GreatestExists ==
  ASSUME NEW S, IsFiniteSet(S), S # {}, NEW f \in [S -> Nat]
  PROVE  \E e \in S : \A x \in S : f[x] <= f[e]
<1>1. PICK n \in Nat : Surjection(1..n, S) # {}
  BY FS_NatSurjection DEF ExistsSurjection
<1>2. PICK g : g \in [1..n -> S] /\ \A x \in S : \E i \in 1..n : g[i] = x
  BY <1>1 DEF Surjection
<1> DEFINE I == {k \in Nat : k + 1 <= n => \E i \in 1..(k + 1) : \A j \in 1..(k + 1) : f[g[j]] <= f[g[i]]}
<1>3. 0 \in I
  BY <1>2
<1>4. ASSUME NEW k \in Nat, k \in I  PROVE  k + 1 \in I
  <2> SUFFICES ASSUME (k + 1) + 1 <= n
               PROVE  \E i \in 1..((k + 1) + 1) : \A j \in 1..((k + 1) + 1) : f[g[j]] <= f[g[i]]
    OBVIOUS
  <2>1. PICK i \in 1..(k + 1) : \A j \in 1..(k + 1) : f[g[j]] <= f[g[i]]
    BY <1>4
  <2>2. \A j \in 1..n : f[g[j]] \in Nat
    BY <1>2
  <2>3. k + 2 \in 1..n /\ i \in 1..n
    OBVIOUS
  <2>4. CASE f[g[k + 2]] <= f[g[i]]
    BY <2>1, <2>4
  <2>5. CASE ~(f[g[k + 2]] <= f[g[i]])
    <3>1. \A j \in 1..(k + 2) : f[g[j]] <= f[g[k + 2]]
      BY <2>1, <2>2, <2>3, <2>5
    <3>. QED  BY <3>1
  <2>. QED  BY <2>4, <2>5
<1>5. \A k \in Nat : k \in I
  <2> HIDE DEF I
  <2>. QED  BY <1>3, <1>4, Induction
<1>6. n # 0
  BY <1>2
<1>7. PICK i \in 1..n : \A j \in 1..n : f[g[j]] <= f[g[i]]
  <2>1. n - 1 \in I /\ (n - 1) + 1 = n /\ n - 1 \in Nat
    BY <1>5, <1>6
  <2>. QED  BY <2>1
<1>. QED  BY <1>2, <1>7

-----------------------------------------------------------------------------
(* The chain of an order.                                                  *)

(* What follows the place c of the walk, and the place after it. *)
Following(S, root, c) == IF c = NoEvent THEN {} ELSE Successors(S, root, c)

Forward(S, root, c) ==
  IF Following(S, root, c) = {} THEN c
  ELSE IF Cardinality(Following(S, root, c)) > 1 THEN NoEvent
  ELSE CHOOSE e \in Following(S, root, c) : TRUE

OrderWalk(w, S, root) ==
  /\ w \in [Nat -> S \cup {NoEvent}]
  /\ w[0] = root
  /\ \A n \in Nat : w[n + 1] = Forward(S, root, w[n])

(* A step of the walk stays, goes to the only successor, or finds a fork. *)
LEMMA ForwardCases ==
  ASSUME NEW S, IsFiniteSet(S), NEW root, NEW c
  PROVE  /\ Following(S, root, c) \subseteq S
         /\ IsFiniteSet(Following(S, root, c))
         /\ \/ Following(S, root, c) = {} /\ Forward(S, root, c) = c
            \/ \E e \in S : Following(S, root, c) = {e} /\ Forward(S, root, c) = e
            \/ /\ c # NoEvent /\ Forward(S, root, c) = NoEvent
               /\ Following(S, root, c) # {} /\ Cardinality(Following(S, root, c)) > 1
<1> DEFINE F == Following(S, root, c)
<1>1. F \subseteq S
  BY DEF Following, Successors
<1>2. IsFiniteSet(F) /\ Cardinality(F) \in Nat
  BY <1>1, FS_Subset, FS_CardinalityType
<1>4. CASE F = {}
  BY <1>1, <1>2, <1>4 DEF Forward
<1>5. CASE F # {} /\ ~(Cardinality(F) > 1)
  <2>1. Cardinality(F) = 1
    BY <1>2, <1>5, FS_EmptySet
  <2>2. PICK e : F = {e}
    BY <1>2, <2>1, FS_Singleton
  <2>3. (CHOOSE x \in {e} : TRUE) = e
    OBVIOUS
  <2>. QED  BY <1>1, <1>2, <1>5, <2>2, <2>3 DEF Forward
<1>6. CASE F # {} /\ Cardinality(F) > 1
  BY <1>1, <1>2, <1>6 DEF Forward, Following
<1>. QED  BY <1>4, <1>5, <1>6

(* The walk of the code is such a walk, as far as there are receipts. *)
LEMMA OrderWalkExists ==
  ASSUME NEW S, IsFiniteSet(S), NEW root \in S
  PROVE  \E w : OrderWalk(w, S, root) /\ WalkFrom(S, root) = w[Cardinality(S)]
<1> DEFINE T == S \cup {NoEvent}
           next == [c \in T |-> Forward(S, root, c)]
           Step(at) == [n \in Nat |-> IF n = 0 THEN root ELSE Forward(S, root, at[n - 1])]
           w == CHOOSE at : at = Step(at)
<1>1. next \in [T -> T]
  <2>1. ASSUME NEW c \in T  PROVE  Forward(S, root, c) \in T
    BY ForwardCases
  <2>. QED  BY <2>1
<1>2. PICK v \in [Nat -> T] : v[0] = root /\ \A n \in Nat : v[n + 1] = next[v[n]]
  <2>1. root \in T
    OBVIOUS
  <2> HIDE DEF T, next
  <2>. QED  BY <1>1, <2>1, Iteration
<1>3. v = Step(v)
  <2>1. ASSUME NEW n \in Nat, n # 0  PROVE  v[n] = Forward(S, root, v[n - 1])
    <3>1. n - 1 \in Nat /\ (n - 1) + 1 = n
      BY <2>1
    <3>. QED  BY <1>2, <3>1
  <2>. QED  BY <1>2, <2>1
<1>4. w = Step(w)
  <2> HIDE DEF Step
  <2>. QED  BY <1>3
<1> HIDE DEF w
<1>5. w[0] = root
  BY <1>4
<1>6. ASSUME NEW n \in Nat  PROVE  w[n + 1] = Forward(S, root, w[n])
  BY <1>4
<1>7. ASSUME NEW n \in Nat  PROVE  w[n] \in T
  <2> DEFINE I == {k \in Nat : w[k] \in T}
  <2>1. 0 \in I
    BY <1>5
  <2>2. ASSUME NEW k \in Nat, k \in I  PROVE  k + 1 \in I
    BY <1>1, <1>6, <2>2
  <2> HIDE DEF I
  <2>3. n \in I
    BY <2>1, <2>2, Induction
  <2>. QED  BY <2>3 DEF I
<1>8. OrderWalk(w, S, root)
  <2>1. w \in [Nat -> T]
    BY <1>4, <1>7
  <2>. QED  BY <1>5, <1>6, <2>1 DEF OrderWalk
<1>9. WalkFrom(S, root) = w[Cardinality(S)]
  BY DEF w, WalkFrom, Forward, Following
<1>. QED  BY <1>8, <1>9

(* The receipts of a chain are later and later, so the walk stops before   *)
(* it has made as many steps as there are receipts.                        *)
LEMMA OrderWalkSettles ==
  ASSUME NEW S, S \subseteq Receipts, IsFiniteSet(S), NEW root \in S,
         NEW w, OrderWalk(w, S, root)
  PROVE  Following(S, root, w[Cardinality(S)]) = {}
<1> DEFINE F(n) == Following(S, root, w[n])
           seen == [n \in Nat |-> {x \in S : w[n] = NoEvent \/ Rcpt[x].at <= Rcpt[w[n]].at}]
           going == {n \in Nat : F(n) # {}}
<1>1. seen \in [Nat -> SUBSET S] /\ going \in SUBSET Nat
  OBVIOUS
<1>2. \A x \in S : Rcpt[x].at \in Nat
  BY ReceiptsAssumption DEF ReceiptsAssumption, ReceiptContent
<1>3. \A n \in Nat : w[n] \in S \cup {NoEvent} /\ w[n + 1] = Forward(S, root, w[n])
  BY DEF OrderWalk
<1>4. \A n \in Nat : n + 1 \in going => n \in going
  <2> SUFFICES ASSUME NEW n \in Nat, F(n) = {}  PROVE  F(n + 1) = {}
    OBVIOUS
  <2>1. w[n + 1] = w[n]
    BY <1>3 DEF Forward
  <2>. QED  BY <2>1
<1>5. root \in seen[0]
  BY <1>2 DEF OrderWalk
<1>6. ASSUME NEW n \in Nat, n \in going
      PROVE  seen[n] \subseteq seen[n + 1] /\ seen[n] # seen[n + 1]
  <2>1. w[n] # NoEvent /\ w[n] \in S /\ F(n) = Successors(S, root, w[n])
    BY <1>3, <1>6 DEF Following
  <2>2. PICK e \in F(n) : w[n + 1] = e \/ w[n + 1] = NoEvent
    BY <1>3, <1>6, ForwardCases
  <2>3. e \in S /\ Rcpt[e].at > Rcpt[w[n]].at
    BY <2>1, <2>2 DEF Successors
  <2>4. e \notin seen[n] /\ e \in seen[n + 1]
    BY <1>2, <2>1, <2>2, <2>3
  <2>5. seen[n] \subseteq seen[n + 1]
    BY <1>2, <2>1, <2>2, <2>3
  <2>. QED  BY <2>4, <2>5
<1>7. Cardinality(S) \notin going
  <2> HIDE DEF seen, going
  <2>. QED  BY <1>1, <1>4, <1>5, <1>6, MovesRunOut
<1>. QED  BY <1>7, FS_CardinalityType

(* A walk that has found a fork stays there, and one that has not has      *)
(* found none before.                                                      *)
LEMMA OrderForkStays ==
  ASSUME NEW S, IsFiniteSet(S), NEW root \in S, NEW w, OrderWalk(w, S, root),
         NEW m \in Nat, w[m] # NoEvent
  PROVE  \A n \in Nat : n <= m => w[n] # NoEvent
<1> DEFINE I == {k \in Nat : k <= m => w[m - k] # NoEvent}
<1>1. 0 \in I
  OBVIOUS
<1>2. ASSUME NEW k \in Nat, k \in I  PROVE  k + 1 \in I
  <2> SUFFICES ASSUME k + 1 <= m, w[m - (k + 1)] = NoEvent  PROVE  FALSE
    OBVIOUS
  <2>1. m - (k + 1) \in Nat /\ (m - (k + 1)) + 1 = m - k
    OBVIOUS
  <2>2. w[m - k] = Forward(S, root, NoEvent)
    BY <2>1 DEF OrderWalk
  <2>. QED  BY <1>2, <2>2 DEF Forward, Following
<1>3. \A k \in Nat : k \in I
  <2> HIDE DEF I
  <2>. QED  BY <1>1, <1>2, Induction
<1>4. ASSUME NEW n \in Nat, n <= m  PROVE  w[n] # NoEvent
  <2>1. m - n \in I /\ m - (m - n) = n /\ m - n <= m
    BY <1>3, <1>4
  <2>. QED  BY <2>1
<1>. QED  BY <1>4

-----------------------------------------------------------------------------
(* The tip of an order, declaratively.                                     *)

(* The order has root as its only complete paid root, under the right key. *)
SoleRoot(S, root) ==
  /\ {r \in S : PaidRoot(r)} = {root}
  /\ (Rcpt[root].signer = PublisherOf[Rcpt[root].coord]) <=> (Rcpt[root].auth = NoEvent)

LEMMA PersistedTipIs ==
  ASSUME NEW S, IsFiniteSet(S)
  PROVE  \/ \E root \in S : SoleRoot(S, root) /\ PersistedTip(S) = WalkFrom(S, root)
         \/ PersistedTip(S) = NoEvent /\ \A root : ~SoleRoot(S, root)
<1> DEFINE roots == {r \in S : PaidRoot(r)}
           root == CHOOSE r \in roots : TRUE
<1>1. IsFiniteSet(roots)
  BY FS_Subset
<1>2. CASE Cardinality(roots) = 1
  <2>1. PICK r : roots = {r}
    BY <1>1, <1>2, FS_Singleton
  <2>2. root = r /\ r \in S
    BY <2>1
  <2> HIDE DEF roots, root
  <2>3. CASE SoleRoot(S, r)
    <3>1. PersistedTip(S) = WalkFrom(S, r)
      BY <1>1, <1>2, <2>2, <2>3 DEF PersistedTip, SoleRoot, roots, root
    <3>. QED  BY <2>2, <2>3, <3>1
  <2>4. CASE ~SoleRoot(S, r)
    <3>1. PersistedTip(S) = NoEvent
      BY <1>1, <1>2, <2>1, <2>2, <2>4 DEF PersistedTip, SoleRoot, roots, root
    <3>. QED  BY <2>1, <2>4, <3>1 DEF SoleRoot, roots
  <2>. QED  BY <2>3, <2>4
<1>3. CASE Cardinality(roots) # 1
  <2>1. PersistedTip(S) = NoEvent
    BY <1>1, <1>3 DEF PersistedTip
  <2>2. \A r : roots # {r}
    BY <1>1, <1>3, FS_Singleton
  <2>. QED  BY <2>1, <2>2 DEF SoleRoot
<1>. QED  BY <1>2, <1>3

(* Reached is the smallest set with the root that is closed under valid    *)
(* succession.                                                             *)
Closed(S, root, X) ==
  root \in X /\ \A e \in X : Successors(S, root, e) \subseteq X

LEMMA ReachedIsLeast ==
  ASSUME NEW S, NEW root \in S
  PROVE  /\ Closed(S, root, Reached(S, root))
         /\ Reached(S, root) \subseteq S
         /\ \A X \in SUBSET S : Closed(S, root, X) => Reached(S, root) \subseteq X
<1>1. Reached(S, root) = {e \in S : \A X \in SUBSET S : Closed(S, root, X) => e \in X}
  BY DEF Reached, Closed
<1>2. \A e : Successors(S, root, e) \subseteq S
  BY DEF Successors
<1>. QED  BY <1>1, <1>2 DEF Closed

(* The receipts of a walk that finds no fork are the receipts reached, and *)
(* each is followed by at most one.                                        *)
LEMMA WalkIsReached ==
  ASSUME NEW S, S \subseteq Receipts, IsFiniteSet(S), NEW root \in S,
         NEW w, OrderWalk(w, S, root)
  PROVE  /\ \A n \in Nat : w[n] # NoEvent => w[n] \in Reached(S, root)
         /\ w[Cardinality(S)] # NoEvent =>
              /\ Successors(S, root, w[Cardinality(S)]) = {}
              /\ \A e \in Reached(S, root) :
                   /\ \E n \in 0..Cardinality(S) : e = w[n]
                   /\ Cardinality(Successors(S, root, e)) <= 1
<1> DEFINE N == Cardinality(S)
<1>0. N \in Nat /\ NoEvent \notin S
  BY FS_CardinalityType, ReceiptsAssumption DEF ReceiptsAssumption
<1>1. \A n \in Nat : w[n] \in S \cup {NoEvent} /\ w[n + 1] = Forward(S, root, w[n])
  BY DEF OrderWalk
<1>2. \A n \in Nat : w[n] # NoEvent => w[n] \in Reached(S, root)
  <2> DEFINE I == {n \in Nat : w[n] # NoEvent => w[n] \in Reached(S, root)}
  <2>1. 0 \in I
    BY ReachedIsLeast DEF OrderWalk, Closed
  <2>2. ASSUME NEW n \in Nat, n \in I  PROVE  n + 1 \in I
    <3> SUFFICES ASSUME w[n + 1] # NoEvent  PROVE  w[n + 1] \in Reached(S, root)
      OBVIOUS
    <3>1. w[n] # NoEvent
      BY <1>1 DEF Forward, Following
    <3>2. w[n + 1] = w[n] \/ w[n + 1] \in Successors(S, root, w[n])
      BY <1>1, <3>1, ForwardCases DEF Following
    <3>. QED  BY <2>2, <3>1, <3>2, ReachedIsLeast DEF Closed
  <2>3. \A n \in Nat : n \in I
    <3> HIDE DEF I
    <3>. QED  BY <2>1, <2>2, Induction
  <2>. QED  BY <2>3
<1>3. ASSUME w[N] # NoEvent
      PROVE  /\ Successors(S, root, w[N]) = {}
             /\ \A e \in Reached(S, root) :
                  /\ \E n \in 0..N : e = w[n]
                  /\ Cardinality(Successors(S, root, e)) <= 1
  <2> DEFINE X == {w[n] : n \in 0..N}
  <2>1. Successors(S, root, w[N]) = {}
    BY <1>3, OrderWalkSettles DEF Following
  <2>2. \A n \in 0..N : w[n] # NoEvent /\ w[n] \in S
    BY <1>0, <1>1, <1>3, OrderForkStays
  <2>3. ASSUME NEW n \in 0..N
        PROVE  /\ Successors(S, root, w[n]) \subseteq X
               /\ Cardinality(Successors(S, root, w[n])) <= 1
    <3>0. Cardinality({}) = 0 /\ \A e : Cardinality({e}) = 1
      BY FS_EmptySet, FS_Singleton
    <3>1. CASE n = N
      BY <2>1, <3>0, <3>1
    <3>2. CASE n # N
      <4>1. n + 1 \in 0..N /\ n \in Nat
        BY <1>0, <3>2
      <4>2. w[n + 1] # NoEvent /\ w[n + 1] = Forward(S, root, w[n])
        BY <1>1, <2>2, <4>1
      <4>3. \/ Successors(S, root, w[n]) = {}
            \/ Successors(S, root, w[n]) = {w[n + 1]}
        BY <2>2, <4>2, ForwardCases DEF Following
      <4>4. w[n + 1] \in X
        BY <4>1
      <4> HIDE DEF X
      <4>5. CASE Successors(S, root, w[n]) = {}
        BY <3>0, <4>5
      <4>6. CASE Successors(S, root, w[n]) = {w[n + 1]}
        <5>1. Cardinality({w[n + 1]}) = 1
          BY <3>0
        <5>2. Cardinality(Successors(S, root, w[n])) = 1
          BY <4>6, <5>1
        <5>. QED  BY <4>4, <4>6, <5>2
      <4>. QED  BY <4>3, <4>5, <4>6
    <3>. QED  BY <3>1, <3>2
  <2>4. X \subseteq S
    BY <2>2
  <2>5. Closed(S, root, X)
    <3>1. root \in X
      BY <1>0 DEF OrderWalk
    <3>. QED  BY <2>3, <3>1 DEF Closed
  <2>6. Reached(S, root) \subseteq X
    <3> HIDE DEF X
    <3>. QED  BY <2>4, <2>5, ReachedIsLeast
  <2>. QED  BY <2>1, <2>3, <2>6
<1>. QED  BY <1>2, <1>3

(* The tip is a receipt of the order. *)
LEMMA TipIsStored ==
  ASSUME NEW S, IsFiniteSet(S), PersistedTip(S) # NoEvent
  PROVE  PersistedTip(S) \in S
<1>1. PICK root \in S : PersistedTip(S) = WalkFrom(S, root)
  BY PersistedTipIs
<1>2. PICK w : OrderWalk(w, S, root) /\ WalkFrom(S, root) = w[Cardinality(S)]
  BY OrderWalkExists
<1>3. Cardinality(S) \in Nat
  BY FS_CardinalityType
<1>. QED  BY <1>1, <1>2, <1>3 DEF OrderWalk

(* The walk finds the tip the reference definition picks, and none when    *)
(* that picks none.                                                        *)
LEMMA TipIsReferenceTip ==
  ASSUME NEW S, S \subseteq Receipts, IsFiniteSet(S), NEW t \in S
  PROVE  IsReferenceTip(S, t) <=> PersistedTip(S) = t
<1>0. NoEvent \notin S /\ Cardinality(S) \in Nat
  BY FS_CardinalityType, ReceiptsAssumption DEF ReceiptsAssumption
<1>1. CASE \A root : ~SoleRoot(S, root)
  <2>1. PersistedTip(S) # t
    BY <1>0, <1>1, PersistedTipIs
  <2>2. ~IsReferenceTip(S, t)
    BY <1>1 DEF IsReferenceTip, SoleRoot
  <2>. QED  BY <2>1, <2>2
<1>2. ASSUME NEW root \in S, SoleRoot(S, root)
      PROVE  IsReferenceTip(S, t) <=> PersistedTip(S) = t
  <2>1. \A r : SoleRoot(S, r) => r = root
    BY <1>2 DEF SoleRoot
  <2>2. PersistedTip(S) = WalkFrom(S, root)
    BY <1>2, <2>1, PersistedTipIs
  <2>3. PICK w : OrderWalk(w, S, root) /\ WalkFrom(S, root) = w[Cardinality(S)]
    BY OrderWalkExists
  <2>4. IsReferenceTip(S, t) <=>
          /\ \A e \in Reached(S, root) : Cardinality(Successors(S, root, e)) <= 1
          /\ t \in Reached(S, root) /\ Successors(S, root, t) = {}
    BY <1>2, <2>1 DEF IsReferenceTip, SoleRoot
  <2>5. ASSUME w[Cardinality(S)] = t  PROVE  IsReferenceTip(S, t)
    BY <1>0, <2>3, <2>4, <2>5, WalkIsReached
  <2>6. ASSUME IsReferenceTip(S, t)  PROVE  w[Cardinality(S)] = t
    <3>1. \A n \in Nat : w[n] # NoEvent
      <4> DEFINE I == {n \in Nat : w[n] # NoEvent}
      <4>1. 0 \in I
        BY <1>0, <2>3 DEF OrderWalk
      <4>2. ASSUME NEW n \in Nat, n \in I  PROVE  n + 1 \in I
        <5>1. w[n] \in Reached(S, root)
          BY <2>3, <4>2, WalkIsReached
        <5>2. ~(Cardinality(Successors(S, root, w[n])) > 1)
          <6>1. Cardinality(Successors(S, root, w[n])) \in Nat
            BY FS_Subset, FS_CardinalityType DEF Successors
          <6>. QED  BY <2>4, <2>6, <5>1, <6>1
        <5>. QED  BY <1>0, <2>3, <4>2, <5>2, ForwardCases DEF OrderWalk, Following
      <4>3. \A n \in Nat : n \in I
        <5> HIDE DEF I
        <5>. QED  BY <4>1, <4>2, Induction
      <4>. QED  BY <4>3
    <3>2. PICK n \in 0..Cardinality(S) : t = w[n]
      BY <1>0, <2>3, <2>4, <2>6, <3>1, WalkIsReached
    <3>3. ASSUME NEW m \in Nat  PROVE  w[n + m] = t
      <4> DEFINE I == {k \in Nat : w[n + k] = t}
      <4>1. 0 \in I
        BY <3>2
      <4>2. ASSUME NEW k \in Nat, k \in I  PROVE  k + 1 \in I
        <5>1. n + k \in Nat /\ (n + k) + 1 = n + (k + 1)
          BY <1>0
        <5>2. w[n + (k + 1)] = Forward(S, root, t)
          BY <2>3, <4>2, <5>1 DEF OrderWalk
        <5>. QED  BY <2>4, <2>6, <5>2 DEF Forward, Following
      <4>3. m \in I
        <5> HIDE DEF I
        <5>. QED  BY <4>1, <4>2, Induction
      <4>. QED  BY <4>3
    <3>4. Cardinality(S) - n \in Nat /\ n + (Cardinality(S) - n) = Cardinality(S)
      BY <1>0
    <3>. QED  BY <3>3, <3>4
  <2>. QED  BY <2>2, <2>3, <2>5, <2>6
<1>3. CASE \E root : SoleRoot(S, root)
  <2>1. PICK root \in S : SoleRoot(S, root)
    BY <1>3 DEF SoleRoot
  <2>. QED  BY <1>2, <2>1
<1>. QED  BY <1>1, <1>3

-----------------------------------------------------------------------------
(* Purchases.                                                              *)

(* More receipts leave the tip of an order where it is, if it is refunded, *)
(* or leave the order without one.                                         *)
LEMMA RefundedTipStays ==
  ASSUME NEW R, R \subseteq Receipts, IsFiniteSet(R), NEW S \in SUBSET R,
         PersistedTip(S) # NoEvent, Rcpt[PersistedTip(S)].status = "refunded",
         PersistedTip(R) # NoEvent
  PROVE  PersistedTip(R) = PersistedTip(S)
<1>0. IsFiniteSet(S) /\ S \subseteq Receipts
  BY FS_Subset
<1>1. PICK root \in S : SoleRoot(S, root) /\ PersistedTip(S) = WalkFrom(S, root)
  BY <1>0, PersistedTipIs
<1>2. PICK origin \in R : SoleRoot(R, origin) /\ PersistedTip(R) = WalkFrom(R, origin)
  BY PersistedTipIs
<1>3. origin = root
  BY <1>1, <1>2 DEF SoleRoot
<1> DEFINE t == PersistedTip(S)
           u == PersistedTip(R)
<1>4. t \in S /\ u \in R
  BY <1>0, TipIsStored
<1>5. IsReferenceTip(S, t) /\ IsReferenceTip(R, u)
  BY <1>0, <1>4, TipIsReferenceTip
<1>6. t \in Reached(S, root)
  BY <1>1, <1>5 DEF IsReferenceTip, SoleRoot
<1>7. Reached(S, root) \subseteq Reached(R, root)
  <2> DEFINE X == Reached(R, root) \cap S
  <2>1. Closed(R, root, Reached(R, root))
    BY <1>1, ReachedIsLeast
  <2>2. \A e : Successors(S, root, e) \subseteq Successors(R, root, e) \cap S
    BY DEF Successors
  <2>3. Closed(S, root, X)
    BY <1>1, <2>1, <2>2 DEF Closed
  <2>4. X \in SUBSET S
    OBVIOUS
  <2> HIDE DEF X
  <2>5. Reached(S, root) \subseteq X
    BY <1>1, <2>3, <2>4, ReachedIsLeast
  <2>. QED  BY <2>5 DEF X
<1>8. Successors(R, root, t) = {}
  BY DEF Successors
<1>9. IsReferenceTip(R, t)
  <2>1. /\ \A e \in Reached(R, root) : Cardinality(Successors(R, root, e)) <= 1
        /\ {r \in R : PaidRoot(r)} = {root}
        /\ (Rcpt[root].signer = PublisherOf[Rcpt[root].coord]) <=> (Rcpt[root].auth = NoEvent)
    BY <1>2, <1>3, <1>5 DEF IsReferenceTip, SoleRoot
  <2>. QED  BY <1>1, <1>6, <1>7, <1>8, <2>1 DEF IsReferenceTip
<1>. QED  BY <1>4, <1>9, TipIsReferenceTip

(* What follows the root of an order carries no payment of its own.        *)
LEMMA TipIsRootOrUnpaid ==
  ASSUME NEW S, S \subseteq Receipts, IsFiniteSet(S),
         PersistedTip(S) # NoEvent
  PROVE  /\ PersistedTip(S) \in S
         /\ \/ PaidRoot(PersistedTip(S))
            \/ Rcpt[PersistedTip(S)].pay = "none"
<1>1. PICK root \in S : SoleRoot(S, root) /\ PersistedTip(S) = WalkFrom(S, root)
  BY PersistedTipIs
<1> DEFINE t == PersistedTip(S)
           X == {e \in S : e = root \/ Rcpt[e].pay = "none"}
<1>2. t \in S
  BY TipIsStored
<1>3. t \in Reached(S, root)
  BY <1>1, <1>2, TipIsReferenceTip DEF IsReferenceTip, SoleRoot
<1>4. Closed(S, root, X) /\ X \in SUBSET S
  BY DEF Closed, Successors
<1>5. t \in X
  <2> HIDE DEF X
  <2>. QED  BY <1>3, <1>4, ReachedIsLeast
<1>. QED  BY <1>1, <1>5 DEF SoleRoot

(* The purchases table holds finitely many receipts. *)
PurchasesFit == purchases \subseteq Receipts /\ IsFiniteSet(purchases)

LEMMA PurchasesFitInit == PurchasesInit => PurchasesFit
BY FS_EmptySet DEF PurchasesInit, PurchasesFit

LEMMA PurchasesFitStep == PurchasesFit /\ [PurchasesNext]_purchases => PurchasesFit'
<1>1. ASSUME PurchasesFit, NEW r \in Receipts, UpsertReceipt(r)
      PROVE  PurchasesFit'
  BY <1>1, FS_AddElement DEF PurchasesFit, UpsertReceipt
<1>2. ASSUME PurchasesFit, UNCHANGED purchases
      PROVE  PurchasesFit'
  BY <1>2 DEF PurchasesFit
<1>. QED  BY <1>1, <1>2 DEF PurchasesNext

LEMMA PurchasesAlwaysFit == PurchasesSpec => []PurchasesFit
BY PurchasesFitInit, PurchasesFitStep, PTL DEF PurchasesSpec

(* The rows of an order are receipts, finitely many.                       *)
LEMMA OrderFits ==
  ASSUME NEW R, R \subseteq Receipts, IsFiniteSet(R), NEW k
  PROVE  /\ Order(R, k) \subseteq R
         /\ Order(R, k) \subseteq Receipts
         /\ IsFiniteSet(Order(R, k))
  BY FS_Subset DEF Order, OrderRows

(* For every set of receipts that may be stored, in whatever order they    *)
(* arrived, the tip of an order is the one the chain rules pick.           *)
THEOREM TipsMatchReference == PurchasesSpec => []TipMatchesReference
<1>1. PurchasesFit => TipMatchesReference
  BY OrderFits, TipIsReferenceTip DEF PurchasesFit, TipMatchesReference
<1>. QED  BY <1>1, PurchasesAlwaysFit, PTL

(* An order whose tip is refunded never grants ownership again. *)
THEOREM RefundsAreFinal == PurchasesSpec => RefundIsFinal
<1> DEFINE Final == \A k \in Orderings :
       LET tip == PersistedTip(Order(purchases, k)) IN
       (tip # NoEvent /\ Rcpt[tip].status = "refunded")
         => ~GrantsOwnership(Order(purchases', k))
<1>1. ASSUME PurchasesFit, PurchasesFit', [PurchasesNext]_purchases
      PROVE  Final
  <2> SUFFICES ASSUME NEW k \in Orderings,
                      PersistedTip(Order(purchases, k)) # NoEvent,
                      Rcpt[PersistedTip(Order(purchases, k))].status = "refunded",
                      GrantsOwnership(Order(purchases', k))
               PROVE  FALSE
    OBVIOUS
  <2>1. purchases \subseteq purchases'
    BY <1>1 DEF PurchasesNext, UpsertReceipt
  <2>2. Order(purchases, k) \subseteq Order(purchases', k)
    BY <2>1 DEF Order, OrderRows
  <2>3. Order(purchases', k) \subseteq Receipts /\ IsFiniteSet(Order(purchases', k))
    BY <1>1, OrderFits DEF PurchasesFit
  <2>4. PersistedTip(Order(purchases', k)) = PersistedTip(Order(purchases, k))
    BY <2>2, <2>3, RefundedTipStays DEF GrantsOwnership
  <2>. QED  BY <2>4 DEF GrantsOwnership
<1>2. PurchasesSpec => [][Final]_purchases
  BY <1>1, PurchasesAlwaysFit, PTL DEF PurchasesSpec
<1>. QED  BY <1>2 DEF RefundIsFinal

(* The purchase history never shows an order as active whose chain ends in *)
(* a refund or a dispute.                                                  *)
THEOREM HistoryHonoursTips == PurchasesSpec => []HistoryHonoursTip
<1>1. ASSUME PurchasesFit  PROVE  HistoryHonoursTip
  <2> SUFFICES ASSUME NEW k \in Orderings,
                      PersistedTip(Order(purchases, k)) # NoEvent,
                      ~GrantsOwnership(Order(purchases, k)),
                      NEW r \in LatestRow(Order(purchases, k))
               PROVE  ShownStatus(Order(purchases, k), r) # "active"
    BY DEF HistoryHonoursTip
  <2> DEFINE S == Order(purchases, k)
             t == PersistedTip(S)
  <2>1. t \in S /\ (PaidRoot(t) \/ Rcpt[t].pay = "none")
    BY <1>1, OrderFits, TipIsRootOrUnpaid DEF PurchasesFit
  <2>2. Rcpt[t].status \notin {"paid", "fulfilled"}
    BY DEF GrantsOwnership
  <2>3. StoredError(t)
    BY <2>1, <2>2 DEF StoredError, PaidRoot
  <2>. QED  BY <2>1, <2>3 DEF ShownStatus
<1>. QED  BY <1>1, PurchasesAlwaysFit, PTL

-----------------------------------------------------------------------------
(* The chain of a campaign.                                                *)

Tip(c) == c[Len(c)]

(* What may follow the chain c, and the chain one round later. *)
Admitted(S, c) == IF c = << >> THEN {} ELSE Admissible(S, c)

Extend(S, c) ==
  IF Admitted(S, c) = {} THEN c
  ELSE IF Cardinality(Admitted(S, c)) > 1 THEN << >>
  ELSE Append(c, CHOOSE e \in Admitted(S, c) : TRUE)

CampaignWalk(w, S, root) ==
  /\ w \in [Nat -> Seq(S)]
  /\ w[0] = <<root>>
  /\ \A n \in Nat : w[n + 1] = Extend(S, w[n])

(* Signed events carry the second they were signed in. *)
Dated(S) == IsFiniteSet(S) /\ \A e \in S : e.at \in Nat

LEMMA AppendFits ==
  ASSUME NEW S, NEW c \in Seq(S), NEW e \in S
  PROVE  /\ Append(c, e) \in Seq(S) /\ Append(c, e) # << >>
         /\ Len(Append(c, e)) = Len(c) + 1
         /\ Tip(Append(c, e)) = e
         /\ \A i \in 1..Len(c) : Append(c, e)[i] = c[i]
         /\ c # << >> => Append(c, e)[1] = c[1]
<1>1. Append(c, e) \in Seq(S) /\ Len(Append(c, e)) = Len(c) + 1 /\ Len(c) \in Nat
  OBVIOUS
<1>2. Append(c, e)[Len(c) + 1] = e
  OBVIOUS
<1>3. \A i \in 1..Len(c) : Append(c, e)[i] = c[i]
  OBVIOUS
<1>4. Append(c, e) # << >>
  BY <1>1
<1>5. c # << >> => 1 \in 1..Len(c)
  BY <1>1
<1>. QED  BY <1>1, <1>2, <1>3, <1>4, <1>5 DEF Tip

(* The tip of a chain is one of its events. *)
LEMMA TipFits ==
  ASSUME NEW S, NEW c \in Seq(S), c # << >>
  PROVE  Tip(c) \in S /\ Len(c) \in Nat \ {0}
BY DEF Tip

(* A round leaves the chain, lengthens it by its only admissible successor *)
(* or finds it forked.                                                     *)
LEMMA ExtendCases ==
  ASSUME NEW S, IsFiniteSet(S), NEW c \in Seq(S)
  PROVE  /\ Admitted(S, c) \subseteq S
         /\ \A e \in Admitted(S, c) : e.pred = Tip(c) /\ e.at > Tip(c).at /\ c # << >>
         /\ \/ Admitted(S, c) = {} /\ Extend(S, c) = c
            \/ \E e \in S : Admitted(S, c) = {e} /\ Extend(S, c) = Append(c, e)
            \/ Extend(S, c) = << >> /\ \E e, f \in Admitted(S, c) : e # f
<1> DEFINE A == Admitted(S, c)
<1>1. A \subseteq S /\ \A e \in A : e.pred = Tip(c) /\ e.at > Tip(c).at /\ c # << >>
  BY DEF Admitted, Admissible, Tip
<1>2. IsFiniteSet(A) /\ Cardinality(A) \in Nat
  BY <1>1, FS_Subset, FS_CardinalityType
<1>3. CASE A = {}
  BY <1>1, <1>3 DEF Extend
<1>4. CASE A # {} /\ ~(Cardinality(A) > 1)
  <2>1. Cardinality(A) = 1
    BY <1>2, <1>4, FS_EmptySet
  <2>2. PICK e : A = {e}
    BY <1>2, <2>1, FS_Singleton
  <2>3. (CHOOSE x \in {e} : TRUE) = e
    OBVIOUS
  <2>. QED  BY <1>1, <1>4, <2>2, <2>3 DEF Extend
<1>5. CASE A # {} /\ Cardinality(A) > 1
  <2>1. PICK e \in A : TRUE
    BY <1>5
  <2>2. A # {e}
    <3>1. Cardinality({e}) = 1
      BY FS_Singleton
    <3>. QED  BY <1>5, <3>1
  <2>3. PICK f \in A : f # e
    BY <2>1, <2>2
  <2>. QED  BY <1>1, <1>5, <2>1, <2>3 DEF Extend
<1>. QED  BY <1>1, <1>3, <1>4, <1>5

(* Two admissible successors are a fork. *)
LEMMA ForkEnds ==
  ASSUME NEW S, IsFiniteSet(S), NEW c \in Seq(S), NEW e \in Admitted(S, c),
         NEW f \in Admitted(S, c), e # f
  PROVE  Extend(S, c) = << >>
BY ExtendCases

LEMMA CampaignWalkExists ==
  ASSUME NEW S, IsFiniteSet(S), NEW root \in S
  PROVE  \E w : CampaignWalk(w, S, root) /\ ChainFrom(S, root) = w[Cardinality(S)]
<1> DEFINE T == Seq(S)
           first == <<root>>
           next == [c \in T |-> Extend(S, c)]
           Step(walk) == [n \in Nat |-> IF n = 0 THEN first ELSE Extend(S, walk[n - 1])]
           w == CHOOSE walk : walk = Step(walk)
<1>1. next \in [T -> T] /\ first \in T
  <2>1. ASSUME NEW c \in T  PROVE  Extend(S, c) \in T
    <3>1. << >> \in Seq(S)
      OBVIOUS
    <3>2. \/ Extend(S, c) \in {c, << >>}
          \/ \E e \in S : Extend(S, c) = Append(c, e)
      BY ExtendCases
    <3>. QED  BY <3>1, <3>2, AppendFits
  <2>. QED  BY <2>1
<1>2. PICK v \in [Nat -> T] : v[0] = first /\ \A n \in Nat : v[n + 1] = next[v[n]]
  <2> HIDE DEF T, next, first
  <2>. QED  BY <1>1, Iteration
<1>3. v = Step(v)
  <2>1. ASSUME NEW n \in Nat, n # 0  PROVE  v[n] = Extend(S, v[n - 1])
    <3>1. n - 1 \in Nat /\ (n - 1) + 1 = n
      BY <2>1
    <3>. QED  BY <1>2, <3>1
  <2>. QED  BY <1>2, <2>1
<1>4. w = Step(w)
  <2> HIDE DEF Step
  <2>. QED  BY <1>3
<1> HIDE DEF w
<1>5. w[0] = <<root>>
  BY <1>4
<1>6. ASSUME NEW n \in Nat  PROVE  w[n + 1] = Extend(S, w[n])
  <2>1. n + 1 \in Nat /\ n + 1 # 0 /\ (n + 1) - 1 = n
    OBVIOUS
  <2>2. w[n + 1] = Step(w)[n + 1]
    BY <1>4
  <2>. QED  BY <2>1, <2>2
<1>7. ASSUME NEW n \in Nat  PROVE  w[n] \in T
  <2> DEFINE I == {k \in Nat : w[k] \in T}
  <2>1. 0 \in I
    BY <1>1, <1>5
  <2>2. ASSUME NEW k \in Nat, k \in I  PROVE  k + 1 \in I
    <3>1. next[w[k]] \in T /\ next[w[k]] = Extend(S, w[k])
      BY <1>1, <2>2
    <3>2. w[k + 1] \in T
      <4> HIDE DEF next, T
      <4>. QED  BY <1>6, <3>1
    <3>. QED  BY <3>2
  <2> HIDE DEF I
  <2>3. n \in I
    BY <2>1, <2>2, Induction
  <2>. QED  BY <2>3 DEF I
<1>8. CampaignWalk(w, S, root)
  <2>1. w \in [Nat -> T]
    BY <1>4, <1>7
  <2>. QED  BY <1>5, <1>6, <2>1 DEF CampaignWalk
<1>9. ChainFrom(S, root) = w[Cardinality(S)]
  BY DEF w, ChainFrom, Extend, Admitted
<1>. QED  BY <1>8, <1>9

(* Once forked, always forked; and the tips are later and later. *)
LEMMA TipsGrow ==
  ASSUME NEW S, Dated(S), NEW root \in S, NEW w, CampaignWalk(w, S, root),
         NEW m \in Nat
  PROVE  \A k \in Nat : w[m + k] # << >> =>
           w[m] # << >> /\ Tip(w[m]).at <= Tip(w[m + k]).at
<1> DEFINE I == {k \in Nat : w[m + k] # << >> =>
                   w[m] # << >> /\ Tip(w[m]).at <= Tip(w[m + k]).at}
<1>1. \A n \in Nat : /\ w[n] \in Seq(S) /\ w[n + 1] = Extend(S, w[n])
                     /\ w[n] # << >> => Tip(w[n]).at \in Nat
  BY TipFits DEF CampaignWalk, Dated
<1>2. 0 \in I
  <2>1. m + 0 = m /\ (w[m] # << >> => Tip(w[m]).at \in Nat)
    BY <1>1
  <2>. QED  BY <2>1
<1>3. ASSUME NEW k \in Nat, k \in I  PROVE  k + 1 \in I
  <2> SUFFICES ASSUME w[m + (k + 1)] # << >>
               PROVE  w[m] # << >> /\ Tip(w[m]).at <= Tip(w[m + (k + 1)]).at
    OBVIOUS
  <2>1. m + k \in Nat /\ m + (k + 1) \in Nat /\ (m + k) + 1 = m + (k + 1)
    OBVIOUS
  <2> DEFINE c == w[m + k]
             d == w[m + (k + 1)]
  <2>2. c \in Seq(S) /\ d = Extend(S, c)
    BY <1>1, <2>1
  <2>3. c # << >> /\ (d = c \/ \E e \in S : d = Append(c, e) /\ e.at > Tip(c).at)
    <3>1. IsFiniteSet(S)
      BY DEF Dated
    <3>2. d # << >>
      OBVIOUS
    <3> HIDE DEF c, d
    <3>. QED  BY <2>2, <3>1, <3>2, ExtendCases
  <2>5. Tip(c).at \in Nat /\ Tip(d).at \in Nat
    BY <1>1, <2>1, <2>3
  <2>7. Tip(w[m]).at <= Tip(c).at /\ w[m] # << >>
    BY <1>3, <2>3
  <2>4. Tip(c).at <= Tip(d).at
    <3> HIDE DEF c, d
    <3>1. CASE d = c
      BY <2>5, <3>1
    <3>2. ASSUME NEW e \in S, d = Append(c, e), e.at > Tip(c).at
          PROVE  Tip(c).at <= Tip(d).at
      <4>1. Tip(d) = e
        BY <2>2, <3>2, AppendFits
      <4>. QED  BY <2>5, <3>2, <4>1
    <3>. QED  BY <2>3, <3>1, <3>2
  <2>6. Tip(w[m]).at \in Nat
    BY <1>1, <2>7
  <2>. QED  BY <2>4, <2>5, <2>6, <2>7
<1>4. \A k \in Nat : k \in I
  <2> HIDE DEF I
  <2>. QED  BY <1>2, <1>3, Induction
<1>. QED  BY <1>4

(* The walk stops before it has made as many rounds as there are events. *)
LEMMA CampaignWalkSettles ==
  ASSUME NEW S, Dated(S), NEW root \in S, NEW w, CampaignWalk(w, S, root)
  PROVE  Admitted(S, w[Cardinality(S)]) = {}
<1> DEFINE seen == [n \in Nat |-> {x \in S : w[n] = << >> \/ x.at <= Tip(w[n]).at}]
           going == {n \in Nat : Admitted(S, w[n]) # {}}
<1>1. seen \in [Nat -> SUBSET S] /\ going \in SUBSET Nat
  OBVIOUS
<1>2. \A n \in Nat : /\ w[n] \in Seq(S) /\ w[n + 1] = Extend(S, w[n])
                     /\ w[n] # << >> => Tip(w[n]).at \in Nat
  BY TipFits DEF CampaignWalk, Dated
<1>3. \A n \in Nat : n + 1 \in going => n \in going
  BY <1>2 DEF Extend
<1>4. root \in seen[0]
  <2>1. Tip(<<root>>) = root /\ root.at \in Nat
    BY DEF Tip, Dated
  <2>2. w[0] = <<root>>
    BY DEF CampaignWalk
  <2>3. root \in {x \in S : w[0] = << >> \/ x.at <= Tip(w[0]).at}
    BY <2>1, <2>2
  <2>. QED  BY <2>3
<1>5. ASSUME NEW n \in Nat, n \in going
      PROVE  seen[n] \subseteq seen[n + 1] /\ seen[n] # seen[n + 1]
  <2> DEFINE c == w[n]
             d == w[n + 1]
  <2>1. c \in Seq(S) /\ d = Extend(S, c) /\ Admitted(S, c) # {} /\ IsFiniteSet(S)
    BY <1>2, <1>5 DEF Dated
  <2>2. PICK e \in Admitted(S, c) : d = Append(c, e) \/ d = << >>
    <3> HIDE DEF c, d
    <3>. QED  BY <2>1, ExtendCases
  <2>3. c # << >> /\ e \in S /\ e.at > Tip(c).at
    <3> HIDE DEF c, d
    <3>. QED  BY <2>1, <2>2, ExtendCases
  <2>4. d = << >> \/ Tip(d) = e
    <3> HIDE DEF c, d
    <3>. QED  BY <2>1, <2>2, <2>3, AppendFits
  <2>5. Tip(c).at \in Nat /\ \A x \in S : x.at \in Nat
    BY <1>2, <2>3 DEF Dated
  <2>6. /\ \A x \in S : x \in seen[n] <=> (c = << >> \/ x.at <= Tip(c).at)
        /\ \A x \in S : x \in seen[n + 1] <=> (d = << >> \/ x.at <= Tip(d).at)
        /\ seen[n] \subseteq S
    OBVIOUS
  <2> HIDE DEF c, d, seen
  <2>7. e \notin seen[n] /\ e \in seen[n + 1]
    BY <2>3, <2>4, <2>5, <2>6
  <2>8. seen[n] \subseteq seen[n + 1]
    BY <2>3, <2>4, <2>5, <2>6
  <2>. QED  BY <2>7, <2>8
<1>6. Cardinality(S) \notin going
  <2>1. IsFiniteSet(S) /\ seen[0] # {}
    BY <1>4 DEF Dated
  <2> HIDE DEF seen, going
  <2>. QED  BY <1>1, <1>3, <1>5, <2>1, MovesRunOut
<1>. QED  BY <1>6, FS_CardinalityType DEF Dated

(* More events leave a chain as it is, fork it, or continue it at its end. *)
LEMMA WalkAmongMore ==
  ASSUME NEW R, IsFiniteSet(R), NEW S \in SUBSET R, NEW root \in S,
         NEW v, CampaignWalk(v, S, root), NEW w, CampaignWalk(w, R, root)
  PROVE  \A n \in Nat : \/ w[n] = << >>
                        \/ w[n] = v[n]
                        \/ v[n] # << >> /\ Admitted(S, v[n]) = {}
<1> DEFINE I == {n \in Nat : \/ w[n] = << >>
                             \/ w[n] = v[n]
                             \/ v[n] # << >> /\ Admitted(S, v[n]) = {}}
<1>0. IsFiniteSet(S)
  BY FS_Subset
<1>1. 0 \in I
  BY DEF CampaignWalk
<1>2. ASSUME NEW n \in Nat, n \in I  PROVE  n + 1 \in I
  <2> DEFINE c == v[n]
             d == w[n]
  <2>1. /\ c \in Seq(S) /\ v[n + 1] = Extend(S, c)
        /\ d \in Seq(R) /\ w[n + 1] = Extend(R, d)
    BY DEF CampaignWalk
  <2>2. \A x \in Seq(S) : Admitted(S, x) \subseteq Admitted(R, x)
    BY DEF Admitted, Admissible
  <2>3. d = << >> \/ d = c \/ (c # << >> /\ Admitted(S, c) = {})
    BY <1>2
  <2> HIDE DEF c, d
  <2>4. CASE d = << >>
    <3>1. w[n + 1] = << >>
      BY <2>1, <2>4 DEF Extend, Admitted
    <3>. QED  BY <3>1
  <2>5. CASE c # << >> /\ Admitted(S, c) = {}
    <3>1. v[n + 1] = c
      BY <2>1, <2>5 DEF Extend
    <3>. QED  BY <2>5, <3>1
  <2>6. CASE d = c /\ d # << >> /\ Admitted(S, c) # {}
    <3>1. CASE \E e, f \in Admitted(S, c) : e # f
      <4>1. w[n + 1] = << >>
        BY <2>1, <2>2, <2>6, <3>1, ForkEnds
      <4>. QED  BY <4>1
    <3>2. CASE ~\E e, f \in Admitted(S, c) : e # f
      <4>1. PICK e \in S : Admitted(S, c) = {e} /\ v[n + 1] = Append(c, e)
        BY <1>0, <2>1, <2>6, <3>2, ExtendCases
      <4>2. e \in Admitted(R, c)
        BY <2>1, <2>2, <4>1
      <4>3. w[n + 1] = << >> \/ w[n + 1] = Append(c, e)
        BY <2>1, <2>6, <4>2, ExtendCases
      <4>. QED  BY <4>1, <4>3
    <3>. QED  BY <3>1, <3>2
  <2>. QED  BY <2>3, <2>4, <2>5, <2>6
<1>3. \A n \in Nat : n \in I
  <2> HIDE DEF I
  <2>. QED  BY <1>1, <1>2, Induction
<1>. QED  BY <1>3

(* No event of S replaces or cancels e. *)
Unfollowed(S, e) == e.at \in Nat /\ \A x \in S : x.pred # e

(* The walks v over S and w over S and e besides. *)
OneMore(S, e, root, v, R, w) ==
  /\ Dated(S) /\ Unfollowed(S, e) /\ root \in S /\ R = S \cup {e}
  /\ CampaignWalk(v, S, root) /\ CampaignWalk(w, R, root)

(* The walk w is over, goes as v does, or has just added e to it. *)
Trails(S, e, v, w) ==
  \A n \in Nat : \/ w[n] = << >>
                 \/ w[n] = v[n]
                 \/ v[n] # << >> /\ w[n] = Append(v[n], e) /\ Admitted(S, v[n]) = {}

(* One event that nothing follows forks the chain or ends it. *)
LEMMA WalkWithOneMore ==
  ASSUME NEW S, NEW e, NEW root, NEW v, NEW R, NEW w, OneMore(S, e, root, v, R, w)
  PROVE  Trails(S, e, v, w)
<1> DEFINE I == {n \in Nat : \/ w[n] = << >>
                             \/ w[n] = v[n]
                             \/ /\ v[n] # << >> /\ w[n] = Append(v[n], e)
                                /\ Admitted(S, v[n]) = {}}
<1> USE DEF OneMore
<1>0. IsFiniteSet(S) /\ IsFiniteSet(R)
  BY FS_AddElement DEF Dated
<1>1. 0 \in I
  BY DEF CampaignWalk
<1>2. ASSUME NEW n \in Nat, n \in I  PROVE  n + 1 \in I
  <2> DEFINE c == v[n]
             d == w[n]
  <2>1. /\ c \in Seq(S) /\ c \in Seq(R) /\ v[n + 1] = Extend(S, c)
        /\ d \in Seq(R) /\ w[n + 1] = Extend(R, d)
    <3>1. c \in Seq(S) /\ v[n + 1] = Extend(S, c) /\ d \in Seq(R) /\ w[n + 1] = Extend(R, d)
      BY DEF CampaignWalk
    <3>2. c \in Seq(R)
      BY <3>1
    <3>. QED  BY <3>1, <3>2
  <2>2. Admitted(R, c) \in {Admitted(S, c), Admitted(S, c) \cup {e}}
    BY DEF Admitted, Admissible
  <2>3. d = << >> \/ d = c \/ (c # << >> /\ d = Append(c, e) /\ Admitted(S, c) = {})
    BY <1>2
  <2> HIDE DEF c, d
  <2>4. CASE d = << >>
    <3>1. w[n + 1] = << >>
      BY <2>1, <2>4 DEF Extend, Admitted
    <3>. QED  BY <3>1
  <2>5. CASE c # << >> /\ d = Append(c, e) /\ Admitted(S, c) = {}
    <3>1. v[n + 1] = c
      BY <2>1, <2>5 DEF Extend
    <3>2. Tip(d) = e
      BY <2>1, <2>5, AppendFits
    <3>3. Admitted(R, d) = {}
      <4>1. \A x \in Admitted(R, d) : x \in R /\ x.pred = e /\ x.at > e.at
        BY <1>0, <2>1, <3>2, ExtendCases
      <4>2. \A x \in R : ~(x.pred = e /\ x.at > e.at)
        BY DEF Unfollowed
      <4>. QED  BY <4>1, <4>2
    <3>4. w[n + 1] = d
      BY <2>1, <3>3 DEF Extend
    <3>. QED  BY <2>5, <3>1, <3>4
  <2>6. CASE d = c /\ c # << >>
    <3>1. CASE Admitted(R, c) = {}
      <4>1. v[n + 1] = c /\ w[n + 1] = c
        BY <2>1, <2>2, <2>6, <3>1 DEF Extend
      <4>. QED  BY <4>1
    <3>2. CASE \E x, y \in Admitted(R, c) : x # y
      <4>1. w[n + 1] = << >>
        BY <1>0, <2>1, <2>6, <3>2, ForkEnds
      <4>. QED  BY <4>1
    <3>3. ASSUME NEW x \in R, Admitted(R, c) = {x}, w[n + 1] = Append(c, x)
          PROVE  n + 1 \in I
      <4>1. CASE Admitted(S, c) = {}
        <5>1. x = e /\ v[n + 1] = c
          BY <2>1, <2>2, <3>3, <4>1 DEF Extend
        <5>. QED  BY <2>6, <3>3, <4>1, <5>1
      <4>2. CASE Admitted(S, c) # {}
        <5>1. Admitted(S, c) = {x}
          BY <2>2, <3>3, <4>2
        <5>2. v[n + 1] = Append(c, x)
          <6>1. PICK y \in S : Admitted(S, c) = {y} /\ Extend(S, c) = Append(c, y)
            <7>1. ~\E y, z \in Admitted(S, c) : y # z
              BY <5>1
            <7>2. \/ Admitted(S, c) = {} /\ Extend(S, c) = c
                  \/ \E y \in S : Admitted(S, c) = {y} /\ Extend(S, c) = Append(c, y)
                  \/ Extend(S, c) = << >> /\ \E y, z \in Admitted(S, c) : y # z
              BY <1>0, <2>1, ExtendCases
            <7>. QED  BY <4>2, <7>1, <7>2
          <6>2. y = x
            BY <5>1, <6>1
          <6>. QED  BY <2>1, <6>1, <6>2
        <5>3. w[n + 1] = v[n + 1]
          BY <3>3, <5>2
        <5>. QED  BY <5>3
      <4>. QED  BY <4>1, <4>2
    <3> HIDE DEF I
    <3>4. \/ Admitted(R, c) = {} /\ Extend(R, c) = c
          \/ \E x \in R : Admitted(R, c) = {x} /\ Extend(R, c) = Append(c, x)
          \/ Extend(R, c) = << >> /\ \E x, y \in Admitted(R, c) : x # y
      BY ONLY <1>0, <2>1, ExtendCases
    <3>. QED  BY <2>1, <2>6, <3>1, <3>2, <3>3, <3>4
  <2>. QED  BY <2>3, <2>4, <2>5, <2>6
<1>3. \A n \in Nat : n \in I
  <2> HIDE DEF I
  <2>. QED  BY <1>1, <1>2, Induction
<1>. QED  BY <1>3 DEF Trails

(* A chain that nothing may follow stays. *)
LEMMA SettledStays ==
  ASSUME NEW S, NEW root, NEW v, CampaignWalk(v, S, root), NEW N \in Nat,
         Admitted(S, v[N]) = {}
  PROVE  \A n \in Nat : N <= n => v[n] = v[N]
<1> DEFINE I == {k \in Nat : v[N + k] = v[N]}
<1>1. 0 \in I
  OBVIOUS
<1>2. ASSUME NEW k \in Nat, k \in I  PROVE  k + 1 \in I
  <2>1. N + k \in Nat /\ (N + k) + 1 = N + (k + 1)
    OBVIOUS
  <2>2. v[N + (k + 1)] = Extend(S, v[N])
    BY <1>2, <2>1 DEF CampaignWalk
  <2>. QED  BY <2>2 DEF Extend
<1>3. \A k \in Nat : k \in I
  <2> HIDE DEF I
  <2>. QED  BY <1>1, <1>2, Induction
<1>4. ASSUME NEW n \in Nat, N <= n  PROVE  v[n] = v[N]
  <2>1. n - N \in I /\ N + (n - N) = n
    BY <1>3, <1>4
  <2>. QED  BY <2>1
<1>. QED  BY <1>4

(* An event that replaces the tip of a resolved chain does not fork it.    *)
LEMMA WalkOnwards ==
  ASSUME NEW S, NEW e, NEW root, NEW v, NEW R, NEW w, OneMore(S, e, root, v, R, w),
         v[Cardinality(S)] # << >>, e.pred = Tip(v[Cardinality(S)])
  PROVE  \A n \in Nat : w[n] # << >>
<1>01. \A n \in Nat : \/ w[n] = << >>
                      \/ w[n] = v[n]
                      \/ v[n] # << >> /\ w[n] = Append(v[n], e) /\ Admitted(S, v[n]) = {}
  <2>1. Trails(S, e, v, w)
    BY WalkWithOneMore
  <2>. QED  BY ONLY <2>1 DEF Trails
<1> DEFINE N == Cardinality(S)
           I == {n \in Nat : w[n] # << >>}
<1> USE DEF OneMore
<1>0. IsFiniteSet(S) /\ IsFiniteSet(R) /\ N \in Nat
  BY FS_AddElement, FS_CardinalityType DEF Dated
<1>1. 0 \in I
  <2>1. w[0] = <<root>> /\ <<root>> # << >>
    BY DEF CampaignWalk
  <2>. QED  BY <2>1
<1>2. ASSUME NEW n \in Nat, n \in I, n + 1 \notin I  PROVE  FALSE
  <2> DEFINE c == v[n]
             d == w[n]
  <2>1. c \in Seq(S) /\ v[n + 1] = Extend(S, c) /\ d \in Seq(R) /\ w[n + 1] = Extend(R, d)
    BY DEF CampaignWalk
  <2>2. d # << >> /\ w[n + 1] = << >>
    BY <1>2
  <2>3. d = c \/ (c # << >> /\ d = Append(c, e) /\ Admitted(S, c) = {})
    <3>. QED  BY <1>01, <2>2
  <2>4. PICK x, y \in Admitted(R, d) : x # y
    <3> HIDE DEF c, d
    <3>1. \/ Admitted(R, d) = {} /\ Extend(R, d) = d
          \/ \E x \in R : Admitted(R, d) = {x} /\ Extend(R, d) = Append(d, x)
          \/ Extend(R, d) = << >> /\ \E x, y \in Admitted(R, d) : x # y
      BY ONLY <1>0, <2>1, ExtendCases
    <3>2. \A x \in R : Append(d, x) # << >>
      BY <2>1, AppendFits
    <3>3. Extend(R, d) = << >>
      BY <2>1, <2>2 DEF d
    <3>. QED  BY <2>2, <3>1, <3>2, <3>3
  <2>5. x \in R /\ y \in R /\ x.pred = Tip(d) /\ y.pred = Tip(d) /\ x.at > Tip(d).at /\ y.at > Tip(d).at
    <3> HIDE DEF c, d
    <3>. QED  BY <1>0, <2>1, <2>4, ExtendCases
  <2>8. n + 1 <= N => v[n + 1] # << >> /\ Tip(v[n + 1]).at <= Tip(v[N]).at
    <3>1. \A k \in Nat : v[(n + 1) + k] # << >> =>
             v[n + 1] # << >> /\ Tip(v[n + 1]).at <= Tip(v[(n + 1) + k]).at
      <4>1. n + 1 \in Nat
        OBVIOUS
      <4>. QED  BY <4>1, TipsGrow
    <3>2. v[N] # << >>
      OBVIOUS
    <3>3. ASSUME n + 1 <= N
          PROVE  N - (n + 1) \in Nat /\ (n + 1) + (N - (n + 1)) = N
      BY <1>0, <3>3
    <3> HIDE DEF N
    <3>. QED  BY <3>1, <3>2, <3>3
  <2>6. CASE c # << >> /\ d = Append(c, e) /\ Admitted(S, c) = {}
    <3>1. Tip(d) = e
      <4>1. c \in Seq(R)
        BY <2>1
      <4>. QED  BY <2>6, <4>1, AppendFits
    <3>2. \A z \in R : ~(z.pred = e /\ z.at > e.at)
      BY DEF Unfollowed
    <3> HIDE DEF c, d
    <3>. QED  BY <2>5, <3>1, <3>2
  <2>7. CASE d = c
    <3>1. Admitted(R, c) \subseteq Admitted(S, c) \cup {e}
      BY DEF Admitted, Admissible
    <3> HIDE DEF c, d
    <3>2. PICK z \in Admitted(S, c) : z = x \/ z = y
      BY <2>4, <2>7, <3>1
    <3>3. x = e \/ y = e
      <4>1. CASE \E f, g \in Admitted(S, c) : f # g
        <5>1. v[n + 1] = << >>
          BY <1>0, <2>1, <4>1, ForkEnds
        <5>2. CASE n + 1 <= N
          BY <2>8, <5>1, <5>2
        <5>3. CASE N <= n
          <6>1. Admitted(S, v[N]) = {}
            BY CampaignWalkSettles
          <6>2. v[n] = v[N]
            BY <1>0, <5>3, <6>1, SettledStays
          <6>. QED  BY <4>1, <6>1, <6>2 DEF c
        <5>. QED  BY <1>0, <5>2, <5>3
      <4>2. CASE ~\E f, g \in Admitted(S, c) : f # g
        <5>1. x \in Admitted(S, c) \cup {e} /\ y \in Admitted(S, c) \cup {e}
          BY <2>4, <2>7, <3>1
        <5>. QED  BY <2>4, <4>2, <5>1
      <4>. QED  BY <4>1, <4>2
    <3>4. Tip(c) = Tip(v[N])
      BY <2>5, <2>7, <3>3
    <3>5. CASE n + 1 <= N
      <4>1. v[n + 1] # << >> /\ Tip(v[n + 1]).at <= Tip(v[N]).at
        BY <2>8, <3>5
      <4>2. PICK f \in S : Admitted(S, c) = {f} /\ v[n + 1] = Append(c, f)
        <5>1. \/ Admitted(S, c) = {} /\ Extend(S, c) = c
              \/ \E f \in S : Admitted(S, c) = {f} /\ Extend(S, c) = Append(c, f)
              \/ Extend(S, c) = << >> /\ \E f, g \in Admitted(S, c) : f # g
          BY <1>0, <2>1, ExtendCases
        <5>. QED  BY <2>1, <3>2, <4>1, <5>1
      <4>3. Tip(v[n + 1]) = f
        BY <2>1, <4>2, AppendFits
      <4>4. f.at > Tip(c).at
        BY <1>0, <2>1, <4>2, ExtendCases
      <4>5. f.at \in Nat /\ Tip(v[N]).at \in Nat
        <5>1. v[N] \in Seq(S)
          BY <1>0 DEF CampaignWalk
        <5>. QED  BY <5>1, TipFits DEF Dated
      <4>. QED  BY <3>4, <4>1, <4>3, <4>4, <4>5
    <3>6. CASE N <= n
      <4>1. Admitted(S, v[N]) = {}
        BY CampaignWalkSettles
      <4>2. v[n] = v[N]
        BY <1>0, <3>6, <4>1, SettledStays
      <4>. QED  BY <3>2, <4>1, <4>2 DEF c
    <3>. QED  BY <1>0, <3>5, <3>6
  <2>. QED  BY <2>3, <2>6, <2>7
<1>3. \A n \in Nat : n \in I
  <2> HIDE DEF I
  <2>. QED  BY <1>1, <1>2, Induction
<1>. QED  BY <1>3

-----------------------------------------------------------------------------
(* What resolving a campaign returns.                                      *)

GoodRoot(r) == ~(r.starts >= r.ends) /\ ~(r.starts < r.at)

LEMMA ResolveIs ==
  ASSUME NEW S, Dated(S), S # {}
  PROVE  /\ \A r : CampaignRoots(S) = {r} /\ GoodRoot(r) => Resolve(S) = ChainFrom(S, r)
         /\ Resolve(S) # << >> => \E r \in S : CampaignRoots(S) = {r} /\ GoodRoot(r)
<1> DEFINE latest == CHOOSE t \in {e.at : e \in S} : \A e \in S : e.at <= t
           at == [e \in S |-> e.at]
           roots == CampaignRoots(S)
           root == CHOOSE r \in roots : TRUE
<1>1. \E e \in S : \A x \in S : x.at <= e.at
  <2>1. at \in [S -> Nat] /\ IsFiniteSet(S)
    BY DEF Dated
  <2>2. \E e \in S : \A x \in S : at[x] <= at[e]
    <3> HIDE DEF at
    <3>. QED  BY <2>1, GreatestExists
  <2>. QED  BY <2>2
<1>2. \A e \in S : e.at <= latest
  <2>1. \E t \in {e.at : e \in S} : \A e \in S : e.at <= t
    BY <1>1
  <2>. QED  BY <2>1
<1>3. {e \in S : e.at <= latest} = S
  BY <1>2
<1>4. Resolve(S) = ResolveAt(S, latest)
  BY DEF Resolve
<1>5. Resolve(S) = IF \/ Cardinality(roots) # 1 \/ root.starts >= root.ends
                      \/ root.starts < root.at
                   THEN << >> ELSE ChainFrom(S, root)
  <2> HIDE DEF latest
  <2>. QED  BY <1>3, <1>4 DEF ResolveAt
<1>6. IsFiniteSet(roots) /\ roots \subseteq S
  BY FS_Subset DEF Dated, CampaignRoots
<1> HIDE DEF latest, roots
<1>7. ASSUME NEW r, roots = {r}  PROVE  root = r /\ Cardinality(roots) = 1
  BY <1>6, <1>7, FS_Singleton
<1>8. ASSUME Resolve(S) # << >>  PROVE  \E r \in S : roots = {r} /\ GoodRoot(r)
  <2>1. Cardinality(roots) = 1
    BY <1>5, <1>8
  <2>2. PICK r : roots = {r}
    BY <1>6, <2>1, FS_Singleton
  <2>3. root = r
    BY <1>7, <2>2
  <2> HIDE DEF root
  <2>. QED  BY <1>5, <1>6, <1>8, <2>2, <2>3 DEF GoodRoot
<1>9. ASSUME NEW r, roots = {r}, GoodRoot(r)  PROVE  Resolve(S) = ChainFrom(S, r)
  <2>1. root = r /\ Cardinality(roots) = 1
    BY <1>7, <1>9
  <2> HIDE DEF root
  <2>. QED  BY <1>5, <1>9, <2>1 DEF GoodRoot
<1>. QED  BY <1>8, <1>9 DEF roots

(* The tip of a resolved chain is one of the events it was resolved from.  *)
LEMMA ResolvedFits ==
  ASSUME NEW S, Dated(S), Resolve(S) # << >>
  PROVE  /\ S # {}
         /\ Resolve(S) \in Seq(S)
         /\ Tip(Resolve(S)) \in S
         /\ \E r \in S : /\ CampaignRoots(S) = {r} /\ GoodRoot(r)
                         /\ \E w : /\ CampaignWalk(w, S, r)
                                   /\ Resolve(S) = w[Cardinality(S)]
<1>1. S # {}
  BY DEF Resolve
<1>2. PICK r \in S : CampaignRoots(S) = {r} /\ GoodRoot(r)
  BY <1>1, ResolveIs
<1>3. Resolve(S) = ChainFrom(S, r)
  BY <1>1, <1>2, ResolveIs
<1>4. PICK w : CampaignWalk(w, S, r) /\ ChainFrom(S, r) = w[Cardinality(S)]
  BY CampaignWalkExists DEF Dated
<1>5. w[Cardinality(S)] \in Seq(S)
  BY <1>4, FS_CardinalityType DEF Dated, CampaignWalk
<1>. QED  BY <1>1, <1>2, <1>3, <1>4, <1>5, TipFits

-----------------------------------------------------------------------------
(* What is on the relays.                                                  *)

(* NoPred stands for no event: it is none of those the commands build. *)
NoPredIsNone ==
  \A c, pred, at : /\ \A terms : ActiveEvent(c, pred, terms, at) # NoPred
                   /\ CancelEvent(c, pred, at) # NoPred

(* An event fit to be published among R: a valid root, or a successor of   *)
(* an event of R in a campaign that has a root.                            *)
Sound(e, R) ==
  /\ e.at \in Nat /\ e # NoPred
  /\ \/ e.pred = NoPred /\ e.kind = "root" /\ GoodRoot(e)
     \/ e.pred \in R /\ \E r \in R : r.campaign = e.campaign /\ r.pred = NoPred /\ r.kind = "root"

Published(R) == IsFiniteSet(R) /\ \A e \in R : Sound(e, R)

LEMMA SoundAmongMore ==
  ASSUME NEW R, NEW Q, R \subseteq Q, NEW e, Sound(e, R)
  PROVE  Sound(e, Q)
BY DEF Sound

LEMMA PublishedOne ==
  ASSUME NEW R, Published(R), NEW e, Sound(e, R)
  PROVE  Published(R \cup {e})
<1>1. IsFiniteSet(R \cup {e})
  BY FS_AddElement DEF Published
<1>2. ASSUME NEW f \in R \cup {e}  PROVE  Sound(f, R \cup {e})
  BY SoundAmongMore DEF Published
<1>. QED  BY <1>1, <1>2 DEF Published

(* The events of a campaign are dated, and one of them is a root. *)
LEMMA CampaignFits ==
  ASSUME NEW R, Published(R), NEW c
  PROVE  /\ Dated(OfCampaign(R, c)) /\ OfCampaign(R, c) \subseteq R /\ NoPred \notin R
         /\ OfCampaign(R, c) # {} => CampaignRoots(OfCampaign(R, c)) # {}
         /\ \A r \in CampaignRoots(OfCampaign(R, c)) : GoodRoot(r)
<1>1. OfCampaign(R, c) \in SUBSET R /\ NoPred \notin R
  BY DEF OfCampaign, Published, Sound
<1>2. Dated(OfCampaign(R, c))
  BY <1>1, FS_Subset DEF Published, Dated, Sound
<1>3. ASSUME NEW e \in OfCampaign(R, c)  PROVE  CampaignRoots(OfCampaign(R, c)) # {}
  BY <1>1 DEF Published, Sound, OfCampaign, CampaignRoots
<1>4. ASSUME NEW r \in CampaignRoots(OfCampaign(R, c))  PROVE  GoodRoot(r)
  BY <1>1 DEF Published, Sound, OfCampaign, CampaignRoots
<1>. QED  BY <1>1, <1>2, <1>3, <1>4

(* What a command signs after it has seen the events seen. *)
LEMMA PreparedFits ==
  ASSUME NoPredIsNone, now \in Nat, Published(relay), NEW seen, seen \subseteq relay,
         NEW cancel \in BOOLEAN, NEW c, NEW pred \in OfCampaign(relay, c) \cup {NoPred},
         NEW terms, PreparedCampaign(seen, cancel, c, pred, terms).ok
  PROVE  LET e == PreparedCampaign(seen, cancel, c, pred, terms).event
             chain == Resolve(OfCampaign(seen, c))
         IN  /\ Sound(e, relay) /\ e.campaign = c
             /\ chain = << >> => e.pred = NoPred /\ e.kind = "root" /\ GoodRoot(e)
             /\ chain # << >> => e.pred = Tip(chain)
<1> DEFINE e == IF cancel THEN CancelEvent(c, pred, now) ELSE ActiveEvent(c, pred, terms, now)
           S == OfCampaign(seen, c)
           chain == Resolve(S)
<1>1. PreparedCampaign(seen, cancel, c, pred, terms).event = e
  BY DEF PreparedCampaign
<1>2. e.at \in Nat /\ e.campaign = c /\ e.pred = pred /\ e # NoPred
  BY DEF ActiveEvent, CancelEvent, NoPredIsNone
<1>3. Dated(S) /\ S \subseteq relay
  <2>1. S \in SUBSET relay
    BY DEF OfCampaign
  <2>. QED  BY <2>1, FS_Subset DEF Dated, Published, Sound
<1> HIDE DEF e
<1>4. CASE chain = << >>
  <2>1. {chain[i] : i \in DOMAIN chain} = {}
    BY <1>4
  <2>2. Resolve({e}) # << >>
    <3>1. Resolve({chain[i] : i \in DOMAIN chain} \cup {e}) # << >>
      BY DEF PreparedCampaign, e
    <3>2. {chain[i] : i \in DOMAIN chain} \cup {e} = {e}
      BY <2>1
    <3>. QED  BY <3>1, <3>2
  <2>3. Dated({e})
    BY <1>2, FS_Singleton DEF Dated
  <2>4. PICK r \in {e} : CampaignRoots({e}) = {r} /\ GoodRoot(r)
    <3>1. {e} # {}
      OBVIOUS
    <3>2. \A T : Dated(T) /\ T # {} /\ Resolve(T) # << >>
                   => \E r \in T : CampaignRoots(T) = {r} /\ GoodRoot(r)
      BY ONLY ResolveIs
    <3>. QED  BY ONLY <2>2, <2>3, <3>1, <3>2
  <2>5. e.pred = NoPred /\ e.kind = "root" /\ GoodRoot(e)
    BY <2>4 DEF CampaignRoots
  <2>. QED  BY <1>1, <1>2, <1>4, <2>5 DEF Sound
<1>5. CASE chain # << >>
  <2>1. pred = chain[Len(chain)]
    BY <1>5 DEF PreparedCampaign
  <2>2. Tip(chain) \in S /\ \E r \in S : CampaignRoots(S) = {r}
    BY <1>3, <1>5, ResolvedFits
  <2>3. e.pred = Tip(chain)
    BY <1>2, <2>1 DEF Tip
  <2>4. Sound(e, relay)
    BY <1>2, <1>3, <2>2, <2>3 DEF Sound, CampaignRoots, OfCampaign
  <2>. QED  BY <1>1, <1>2, <1>5, <2>3, <2>4
<1>. QED  BY <1>4, <1>5

-----------------------------------------------------------------------------
(* Campaign publishing.                                                    *)

Publishes(s) == session[s].pc = "publish"

(* What holds of every publisher. *)
Inv ==
  /\ setup \in Setups /\ now \in Nat /\ Published(relay)
  /\ session = [s \in setup.sessions |-> session[s]]
  /\ \A s \in setup.sessions : Publishes(s) => Sound(session[s].event, relay)

(* An event that opens its campaign or follows its tip. *)
Follows(e, R) ==
  LET S == OfCampaign(R, e.campaign) IN
  \/ S = {} /\ e.pred = NoPred /\ e.kind = "root" /\ GoodRoot(e)
  \/ Resolve(S) # << >> /\ e.pred = Tip(Resolve(S))

Single == Cardinality(setup.sessions) = 1 /\ ~setup.partial

(* What holds besides of a publisher with one session that hears all. *)
SingleInv ==
  Single => /\ \A e \in relay : Chain(relay, e.campaign) # << >>
            /\ \A s \in setup.sessions : Publishes(s) => Follows(session[s].event, relay)

(* A step publishes the event of a session, signs one, or neither. *)
LEMMA StepCases ==
  ASSUME NoPredIsNone, Inv, [Next]_vars
  PROVE  /\ setup' = setup /\ now' \in Nat
         /\ session' = [s \in setup.sessions |-> session'[s]]
         /\ \/ /\ relay' = relay
               /\ \A s \in setup.sessions : Publishes(s)' => Publishes(s) /\ session'[s] = session[s]
            \/ /\ relay' = relay
               /\ \E s \in setup.sessions : \E cancel \in BOOLEAN, c \in setup.campaigns,
                    terms \in setup.terms, pointer \in WithPointers :
                    \E pred \in OfCampaign(relay, c) \cup {NoPred} :
                      SignCampaign(s, cancel, c, pred, terms, pointer)
            \/ \E s \in setup.sessions : PublishCampaign(s)
<1>1. CASE UNCHANGED vars
  BY <1>1 DEF vars, Inv, Publishes
<1>2. CASE Tick
  BY <1>2 DEF Tick, Inv, Publishes
<1>3. ASSUME NEW s \in setup.sessions, NEW cancel \in BOOLEAN, NEW pointer \in WithPointers,
             NEW c \in setup.campaigns, NEW terms \in setup.terms,
             NEW pred \in OfCampaign(relay, c) \cup {NoPred},
             SignCampaign(s, cancel, c, pred, terms, pointer)
      PROVE  /\ setup' = setup /\ now' \in Nat /\ relay' = relay
             /\ session' = [t \in setup.sessions |-> session'[t]]
  BY <1>3 DEF SignCampaign, Inv
<1>4. ASSUME NEW s \in setup.sessions, PublishCampaign(s)
      PROVE  /\ setup' = setup /\ now' \in Nat
             /\ session' = [t \in setup.sessions |-> session'[t]]
  BY <1>4 DEF PublishCampaign, Inv
<1>5. ASSUME NEW s \in setup.sessions,
             \/ \E root \in Roots, remove \in BOOLEAN : RequestPointer(s, root, remove)
             \/ SignListing(s) \/ PublishListing(s) \/ Abandon(s)
      PROVE  /\ setup' = setup /\ now' \in Nat /\ relay' = relay
             /\ session' = [t \in setup.sessions |-> session'[t]]
             /\ \A t \in setup.sessions : Publishes(t)' => Publishes(t) /\ session'[t] = session[t]
  <2>1. setup' = setup /\ now' = now /\ relay' = relay
    BY <1>5 DEF RequestPointer, SignListing, PublishListing, Abandon
  <2>2. PICK k : session' = [session EXCEPT ![s] = k] /\ k.pc # "publish"
    <3>1. ASSUME NEW root, NEW remove, RequestPointer(s, root, remove)
          PROVE  \E k : session' = [session EXCEPT ![s] = k] /\ k.pc # "publish"
      <4> DEFINE k == [pc |-> "pointer", root |-> root, remove |-> remove]
      <4>1. session' = [session EXCEPT ![s] = k] /\ k.pc # "publish"
        BY <3>1 DEF RequestPointer
      <4>. QED  BY <4>1
    <3>2. CASE SignListing(s)
      <4>1. PICK id \in 1..setup.listings :
              session' = [session EXCEPT ![s] =
                [pc |-> "listing", root |-> session[s].root, remove |-> session[s].remove,
                 listing |-> Listing(id, now, EditedPointers(Latest(listings).pointers,
                                session[s].root, session[s].remove))]]
        BY <3>2 DEF SignListing
      <4> DEFINE k == [pc |-> "listing", root |-> session[s].root, remove |-> session[s].remove,
                       listing |-> Listing(id, now, EditedPointers(Latest(listings).pointers,
                                     session[s].root, session[s].remove))]
      <4>2. session' = [session EXCEPT ![s] = k] /\ k.pc # "publish"
        BY <4>1
      <4> HIDE DEF k
      <4>. QED  BY <4>2
    <3>3. CASE PublishListing(s) \/ Abandon(s)
      <4>1. session' = [session EXCEPT ![s] = Idle] /\ Idle.pc # "publish"
        BY <3>3 DEF PublishListing, Abandon, Idle
      <4>. QED  BY <4>1
    <3>. QED  BY <1>5, <3>1, <3>2, <3>3
  <2>. QED  BY <2>1, <2>2 DEF Inv, Publishes
<1>. QED  BY <1>1, <1>2, <1>3, <1>4, <1>5 DEF Next

(* The session and the event of a step that signs. *)
LEMMA SignEffect ==
  ASSUME NoPredIsNone, Inv, NEW s \in setup.sessions, NEW cancel \in BOOLEAN, NEW pointer,
         NEW c, NEW terms, NEW pred \in OfCampaign(relay, c) \cup {NoPred},
         SignCampaign(s, cancel, c, pred, terms, pointer)
  PROVE  \E seen \in Fetched(relay) :
           /\ seen \subseteq relay
           /\ PreparedCampaign(seen, cancel, c, pred, terms).ok
           /\ session'[s].event = PreparedCampaign(seen, cancel, c, pred, terms).event
           /\ \A t \in setup.sessions \ {s} : session'[t] = session[t]
<1>1. \A seen \in Fetched(relay) : seen \subseteq relay
  BY DEF Fetched
<1>. QED  BY <1>1 DEF SignCampaign, Inv

LEMMA InvInit == Init => Inv
BY FS_EmptySet DEF Init, Inv, Published, Publishes, Idle

LEMMA InvStep == NoPredIsNone /\ Inv /\ [Next]_vars => Inv'
<1> SUFFICES ASSUME NoPredIsNone, Inv, [Next]_vars  PROVE  Inv'
  OBVIOUS
<1>1. /\ setup' = setup /\ now' \in Nat
      /\ session' = [s \in setup.sessions |-> session'[s]]
  BY StepCases
<1>2. CASE /\ relay' = relay
           /\ \A s \in setup.sessions : Publishes(s)' => Publishes(s) /\ session'[s] = session[s]
  BY <1>1, <1>2 DEF Inv
<1>3. ASSUME relay' = relay, NEW s \in setup.sessions, NEW cancel \in BOOLEAN,
             NEW c \in setup.campaigns, NEW terms \in setup.terms, NEW pointer \in WithPointers,
             NEW pred \in OfCampaign(relay, c) \cup {NoPred},
             SignCampaign(s, cancel, c, pred, terms, pointer)
      PROVE  Inv'
  <2>1. PICK seen : /\ seen \subseteq relay
                    /\ PreparedCampaign(seen, cancel, c, pred, terms).ok
                    /\ session'[s].event = PreparedCampaign(seen, cancel, c, pred, terms).event
                    /\ \A t \in setup.sessions \ {s} : session'[t] = session[t]
    BY <1>3, SignEffect
  <2>2. Sound(session'[s].event, relay)
    BY <2>1, PreparedFits DEF Inv
  <2>. QED  BY <1>1, <1>3, <2>1, <2>2 DEF Inv, Publishes
<1>4. ASSUME NEW s \in setup.sessions, PublishCampaign(s)
      PROVE  Inv'
  <2>1. relay' = relay \cup {session[s].event} /\ Sound(session[s].event, relay)
    BY <1>4 DEF PublishCampaign, Inv, Publishes
  <2>2. Published(relay')
    BY <2>1, PublishedOne DEF Inv
  <2>3. ASSUME NEW t \in setup.sessions, Publishes(t)'
        PROVE  Sound(session'[t].event, relay')
    <3>1. session'[s].pc # "publish"
      BY <1>4 DEF PublishCampaign, AfterPublish, Idle, Inv
    <3>2. t # s /\ session'[t] = session[t] /\ Publishes(t)
      BY <1>4, <2>3, <3>1 DEF PublishCampaign, Inv, Publishes
    <3>3. relay \subseteq relay'
      BY <2>1
    <3>. QED  BY <3>2, <3>3, SoundAmongMore DEF Inv
  <2>. QED  BY <1>1, <2>2, <2>3 DEF Inv
<1>. QED  BY <1>2, <1>3, <1>4, StepCases

LEMMA InvAlways ==
  ASSUME NoPredIsNone
  PROVE  Spec => []Inv
BY InvInit, InvStep, PTL DEF Spec

(* The event e is fit to join R, where its campaign resolves. *)
Joins(e, R) ==
  /\ Published(R) /\ Sound(e, R) /\ e \notin R
  /\ Resolve(OfCampaign(R, e.campaign)) # << >>

(* What one more event makes of a campaign that resolves: the same chain,  *)
(* a chain with that event at its end, or none.                            *)
LEMMA OneMoreEvent ==
  ASSUME NEW R, NEW e, Joins(e, R)
  PROVE  LET S == OfCampaign(R, e.campaign)
             Q == OfCampaign(R \cup {e}, e.campaign)
         IN  /\ Q = S \cup {e}
             /\ Resolve(Q) \in {<< >>, Resolve(S), Append(Resolve(S), e)}
             /\ e.pred = Tip(Resolve(S)) => Resolve(Q) # << >>
<1> DEFINE c == e.campaign
           S == OfCampaign(R, c)
           Q == OfCampaign(R \cup {e}, c)
           N == Cardinality(S)
<1>0. /\ Published(R) /\ Sound(e, R) /\ e \notin R /\ e.campaign = c
      /\ Resolve(OfCampaign(R, c)) # << >>
  BY DEF Joins
<1>1. Q = S \cup {e} /\ e \notin S /\ S \subseteq R
  BY <1>0 DEF OfCampaign
<1>2. Dated(S) /\ Dated(Q) /\ NoPred \notin R /\ Q # {}
  BY <1>0, <1>1, CampaignFits, PublishedOne
<1>3. Unfollowed(S, e)
  BY <1>0, <1>1 DEF Unfollowed, Sound, Published
<1>4. PICK r \in S : /\ CampaignRoots(S) = {r} /\ GoodRoot(r)
                     /\ \E w : CampaignWalk(w, S, r) /\ Resolve(S) = w[N]
  BY <1>0, <1>2, ResolvedFits
<1>5. PICK v : CampaignWalk(v, S, r) /\ Resolve(S) = v[N]
  BY <1>4
<1>6. PICK w : CampaignWalk(w, Q, r) /\ ChainFrom(Q, r) = w[Cardinality(Q)]
  BY <1>1, <1>2, CampaignWalkExists DEF Dated
<1>7. OneMore(S, e, r, v, Q, w)
  BY <1>1, <1>2, <1>3, <1>5, <1>6 DEF OneMore
<1>8. N \in Nat /\ Cardinality(Q) = N + 1
  <2>1. IsFiniteSet(S)
    BY <1>2 DEF Dated
  <2> HIDE DEF S, Q
  <2>2. Cardinality(S \cup {e}) = Cardinality(S) + 1
    BY ONLY <1>1, <2>1, FS_AddElement
  <2>. QED  BY ONLY <1>1, <2>1, <2>2, FS_CardinalityType
<1>9. v[N + 1] = v[N]
  <2>1. Admitted(S, v[N]) = {}
    BY <1>2, <1>5, CampaignWalkSettles
  <2>. QED  BY <1>5, <1>8, <2>1, SettledStays
<1>10. \/ Resolve(Q) = << >>
       \/ Resolve(Q) = w[N + 1]
  <2>1. CASE Resolve(Q) # << >>
    <3>1. PICK q \in Q : CampaignRoots(Q) = {q} /\ GoodRoot(q)
      BY <1>2, <2>1, ResolveIs
    <3>2. CampaignRoots(S) \subseteq CampaignRoots(Q)
      BY <1>1 DEF CampaignRoots
    <3>3. q = r
      BY <1>4, <3>1, <3>2
    <3>. QED  BY <1>2, <1>6, <1>8, <3>1, <3>3, ResolveIs
  <2>. QED  BY <2>1
<1>11. Resolve(Q) \in {<< >>, Resolve(S), Append(Resolve(S), e)}
  <2>1. \A n \in Nat : \/ w[n] = << >>
                       \/ w[n] = v[n]
                       \/ v[n] # << >> /\ w[n] = Append(v[n], e) /\ Admitted(S, v[n]) = {}
    <3>1. Trails(S, e, v, w)
      BY <1>7, WalkWithOneMore
    <3>. QED  BY ONLY <3>1 DEF Trails
  <2>2. \/ w[N + 1] = << >>
        \/ w[N + 1] = v[N]
        \/ w[N + 1] = Append(v[N], e)
    BY ONLY <1>8, <1>9, <2>1
  <2> HIDE DEF S, Q, N
  <2>. QED  BY <1>5, <1>10, <2>2
<1>12. ASSUME e.pred = Tip(Resolve(S))  PROVE  Resolve(Q) # << >>
  <2>1. e.pred \in S
    BY <1>0, <1>2, <1>12, ResolvedFits
  <2>2. CampaignRoots(Q) = {r}
    BY <1>0, <1>1, <1>2, <1>4, <2>1 DEF CampaignRoots
  <2>3. Resolve(Q) = w[N + 1]
    BY <1>2, <1>4, <1>6, <1>8, <2>2, ResolveIs
  <2>4. w[N + 1] # << >>
    BY <1>0, <1>5, <1>7, <1>8, <1>12, WalkOnwards
  <2>. QED  BY <2>3, <2>4
<1>. QED  BY <1>1, <1>11, <1>12

(* The first event of a campaign resolves. *)
LEMMA FirstEvent ==
  ASSUME NEW e, e.at \in Nat, e # NoPred, e.pred = NoPred, e.kind = "root", GoodRoot(e)
  PROVE  Resolve({e}) # << >>
<1>1. Dated({e}) /\ Cardinality({e}) = 1 /\ CampaignRoots({e}) = {e}
  BY FS_Singleton DEF Dated, CampaignRoots
<1>2. Resolve({e}) = ChainFrom({e}, e)
  BY <1>1, ResolveIs
<1>3. PICK w : CampaignWalk(w, {e}, e) /\ ChainFrom({e}, e) = w[1]
  BY <1>1, CampaignWalkExists DEF Dated
<1>4. Admitted({e}, <<e>>) = {}
  <2>1. \A x \in Admitted({e}, <<e>>) : x = e /\ x.pred = Tip(<<e>>)
    BY DEF Admitted, Admissible, Tip
  <2>2. Tip(<<e>>) = e
    BY DEF Tip
  <2>. QED  BY <2>1, <2>2
<1>5. w[1] = <<e>>
  <2>1. w[0] = <<e>> /\ w[0 + 1] = Extend({e}, w[0])
    BY <1>3 DEF CampaignWalk
  <2>. QED  BY <1>4, <2>1 DEF Extend
<1>6. <<e>> # << >>
  OBVIOUS
<1>. QED  BY <1>2, <1>3, <1>5, <1>6

(* A campaign that has forked, or has two roots, stays so. *)
LEMMA ForkedAmongMore ==
  ASSUME NEW R, NEW Q, Published(R), Published(Q), R \subseteq Q, NEW c,
         OfCampaign(R, c) # {}, Resolve(OfCampaign(R, c)) = << >>
  PROVE  Resolve(OfCampaign(Q, c)) = << >>
<1> DEFINE S == OfCampaign(R, c)
           T == OfCampaign(Q, c)
           N == Cardinality(S)
           M == Cardinality(T)
<1> SUFFICES ASSUME Resolve(T) # << >>  PROVE  FALSE
  OBVIOUS
<1>1. Dated(S) /\ Dated(T) /\ S \in SUBSET T
  <2>1. Dated(S)
    BY CampaignFits
  <2>2. Dated(T)
    BY CampaignFits
  <2>3. S \subseteq T
    BY DEF OfCampaign
  <2>. QED  BY <2>1, <2>2, <2>3
<1>2. PICK r \in T : /\ CampaignRoots(T) = {r} /\ GoodRoot(r)
                     /\ \E w : CampaignWalk(w, T, r) /\ Resolve(T) = w[M]
  BY <1>1, ResolvedFits
<1>3. PICK w : CampaignWalk(w, T, r) /\ Resolve(T) = w[M]
  BY <1>2
<1>4. CampaignRoots(S) = {r} /\ r \in S
  <2>1. CampaignRoots(S) # {}
    BY CampaignFits
  <2>2. CampaignRoots(S) \subseteq CampaignRoots(T) /\ CampaignRoots(S) \subseteq S
    BY <1>1 DEF CampaignRoots
  <2>. QED  BY <1>2, <2>1, <2>2
<1>5. PICK v : CampaignWalk(v, S, r) /\ ChainFrom(S, r) = v[N]
  BY <1>1, <1>4, CampaignWalkExists DEF Dated
<1>6. v[N] = << >>
  BY <1>1, <1>2, <1>4, <1>5, ResolveIs
<1>7. N \in Nat /\ M \in Nat /\ N <= M
  BY <1>1, FS_CardinalityType, FS_Subset DEF Dated
<1>8. w[N] = << >>
  <2>1. IsFiniteSet(T)
    BY <1>1 DEF Dated
  <2>2. \A n \in Nat : \/ w[n] = << >>
                       \/ w[n] = v[n]
                       \/ v[n] # << >> /\ Admitted(S, v[n]) = {}
    <3>1. S \in SUBSET T /\ r \in S /\ CampaignWalk(v, S, r) /\ CampaignWalk(w, T, r)
      BY <1>1, <1>3, <1>4, <1>5
    <3> HIDE DEF S, T
    <3>. QED  BY ONLY <2>1, <3>1, WalkAmongMore
  <2>. QED  BY ONLY <1>6, <1>7, <2>2
<1>9. w[M] = w[N]
  BY <1>3, <1>7, <1>8, SettledStays DEF Admitted
<1>. QED  BY <1>3, <1>8, <1>9

(* The only session of a publisher that has one. *)
LEMMA OnlySession ==
  ASSUME Inv, Single, NEW s \in setup.sessions, NEW t \in setup.sessions
  PROVE  s = t
<1>1. IsFiniteSet(setup.sessions)
  BY CampaignAssumption DEF Inv
<1>2. \E u : setup.sessions = {u}
  BY <1>1, FS_Singleton DEF Single
<1>. QED  BY <1>2

LEMMA SingleInit == Init => SingleInv
BY DEF Init, SingleInv, Publishes, Idle

(* Publishing an event that follows keeps every campaign resolving. *)
LEMMA ResolvesWithOneMore ==
  ASSUME NEW R, Published(R), NEW e, Sound(e, R), e \notin R, Follows(e, R),
         \A x \in R : Chain(R, x.campaign) # << >>
  PROVE  \A x \in R \cup {e} : Chain(R \cup {e}, x.campaign) # << >>
<1> SUFFICES ASSUME NEW x \in R \cup {e}  PROVE  Chain(R \cup {e}, x.campaign) # << >>
  OBVIOUS
<1> DEFINE c == x.campaign
           S == OfCampaign(R, c)
<1>1. CASE c # e.campaign
  <2>1. OfCampaign(R \cup {e}, c) = S /\ x \in R
    BY <1>1 DEF OfCampaign
  <2>. QED  BY <2>1 DEF Chain
<1>2. CASE c = e.campaign /\ Resolve(S) = << >>
  <2>1. S = {} /\ e.pred = NoPred /\ e.kind = "root" /\ GoodRoot(e)
    <3>1. \A y \in S : Resolve(S) # << >>
      BY DEF OfCampaign, Chain
    <3>. QED  BY <1>2, <3>1 DEF Follows
  <2>2. OfCampaign(R \cup {e}, c) = {e}
    BY <1>2, <2>1 DEF OfCampaign
  <2>3. e.at \in Nat /\ e # NoPred
    BY DEF Sound
  <2>4. Resolve({e}) # << >>
    BY <2>1, <2>3, FirstEvent
  <2>. QED  BY <2>2, <2>4 DEF Chain
<1>3. CASE c = e.campaign /\ Resolve(S) # << >>
  <2>1. e.pred = Tip(Resolve(S))
    <3>1. Resolve({}) = << >>
      BY DEF Resolve
    <3>. QED  BY <1>3, <3>1 DEF Follows
  <2>2. e.pred = Tip(Resolve(OfCampaign(R, c))) => Resolve(OfCampaign(R \cup {e}, c)) # << >>
    <3>1. Joins(e, R)
      BY <1>3 DEF Joins
    <3>. QED  BY <1>3, <3>1, OneMoreEvent
  <2>. QED  BY <2>1, <2>2 DEF Chain
<1>. QED  BY <1>1, <1>2, <1>3

LEMMA SingleStep == NoPredIsNone /\ Inv /\ SingleInv /\ [Next]_vars => SingleInv'
<1> SUFFICES ASSUME NoPredIsNone, Inv, SingleInv, [Next]_vars, Single'
             PROVE  /\ \A e \in relay' : Chain(relay', e.campaign) # << >>
                    /\ \A s \in setup'.sessions : Publishes(s)' => Follows(session'[s].event, relay')
  BY DEF SingleInv
<1>1. setup' = setup /\ session' = [s \in setup.sessions |-> session'[s]] /\ Single
  BY StepCases DEF Single
<1>2. /\ \A e \in relay : Chain(relay, e.campaign) # << >>
      /\ \A s \in setup.sessions : Publishes(s) => Follows(session[s].event, relay)
  BY <1>1 DEF SingleInv
<1>3. CASE /\ relay' = relay
           /\ \A s \in setup.sessions : Publishes(s)' => Publishes(s) /\ session'[s] = session[s]
  BY <1>1, <1>2, <1>3
<1>4. ASSUME relay' = relay, NEW s \in setup.sessions, NEW cancel \in BOOLEAN,
             NEW c \in setup.campaigns, NEW terms \in setup.terms, NEW pointer \in WithPointers,
             NEW pred \in OfCampaign(relay, c) \cup {NoPred},
             SignCampaign(s, cancel, c, pred, terms, pointer)
      PROVE  /\ \A e \in relay' : Chain(relay', e.campaign) # << >>
             /\ \A t \in setup'.sessions : Publishes(t)' => Follows(session'[t].event, relay')
  <2>1. PICK seen \in Fetched(relay) :
               /\ PreparedCampaign(seen, cancel, c, pred, terms).ok
               /\ session'[s].event = PreparedCampaign(seen, cancel, c, pred, terms).event
    BY <1>4, SignEffect
  <2>2. seen = relay
    BY <1>1 DEF Fetched, Single
  <2> DEFINE e == PreparedCampaign(relay, cancel, c, pred, terms).event
             chain == Resolve(OfCampaign(relay, c))
  <2>3. /\ e.campaign = c
        /\ chain = << >> => e.pred = NoPred /\ e.kind = "root" /\ GoodRoot(e)
        /\ chain # << >> => e.pred = Tip(chain)
    BY <2>1, <2>2, PreparedFits DEF Inv
  <2>4. chain = << >> => OfCampaign(relay, c) = {}
    BY <1>2 DEF Chain, OfCampaign
  <2>5. Follows(e, relay)
    <3> HIDE DEF e
    <3>. QED  BY <2>3, <2>4 DEF Follows
  <2>6. \A t \in setup.sessions : t = s
    BY <1>1, <1>4, OnlySession
  <2>. QED  BY <1>1, <1>2, <1>4, <2>1, <2>2, <2>5, <2>6
<1>5. ASSUME NEW s \in setup.sessions, PublishCampaign(s)
      PROVE  /\ \A e \in relay' : Chain(relay', e.campaign) # << >>
             /\ \A t \in setup'.sessions : Publishes(t)' => Follows(session'[t].event, relay')
  <2> DEFINE e == session[s].event
  <2>1. relay' = relay \cup {e} /\ Sound(e, relay) /\ Follows(e, relay)
    BY <1>2, <1>5 DEF PublishCampaign, Inv, Publishes
  <2>2. ~Publishes(s)'
    BY <1>5 DEF PublishCampaign, AfterPublish, Idle, Inv, Publishes
  <2>3. \A t \in setup.sessions : t = s
    BY <1>1, <1>5, OnlySession
  <2>4. \A x \in relay' : Chain(relay', x.campaign) # << >>
    <3> HIDE DEF e
    <3>1. CASE e \in relay
      <4>1. relay' = relay
        BY <2>1, <3>1
      <4>. QED  BY <1>2, <4>1
    <3>2. CASE e \notin relay
      <4>1. Published(relay)
        BY DEF Inv
      <4>2. \A x \in relay \cup {e} : Chain(relay \cup {e}, x.campaign) # << >>
        BY ONLY <1>2, <2>1, <3>2, <4>1, ResolvesWithOneMore
      <4>. QED  BY <2>1, <4>2
    <3>. QED  BY <3>1, <3>2
  <2>. QED  BY <1>1, <2>2, <2>3, <2>4
<1>. QED  BY <1>3, <1>4, <1>5, StepCases

(* A publisher with one session that hears all its relays never has a      *)
(* campaign that fails to resolve.                                         *)
THEOREM ChainsResolve ==
  ASSUME NoPredIsNone
  PROVE  Spec => []ChainResolves
<1>1. SingleInv => ChainResolves
  BY DEF SingleInv, Single, ChainResolves
<1>. QED  BY <1>1, InvAlways, SingleInit, InvInit, InvStep, SingleStep, PTL DEF Spec

(* What a step leaves on the relays. *)
LEMMA RelayStep ==
  ASSUME NoPredIsNone, Inv, [Next]_vars
  PROVE  /\ Published(relay) /\ Published(relay') /\ relay \subseteq relay'
         /\ \A e \in relay' \ relay : Sound(e, relay) /\ relay' = relay \cup {e}
<1>1. Published(relay) /\ Published(relay')
  BY InvStep DEF Inv
<1>2. \/ relay' = relay
      \/ \E e : Sound(e, relay) /\ relay' = relay \cup {e}
  <2>1. ASSUME NEW s \in setup.sessions, PublishCampaign(s)
        PROVE  Sound(session[s].event, relay) /\ relay' = relay \cup {session[s].event}
    BY <2>1 DEF PublishCampaign, Inv, Publishes
  <2>2. relay' = relay \/ \E s \in setup.sessions : PublishCampaign(s)
    BY StepCases
  <2>. QED  BY <2>1, <2>2
<1>. QED  BY <1>1, <1>2

(* A campaign that has forked or has two roots never resolves again.       *)
THEOREM ForksAreFinal ==
  ASSUME NoPredIsNone
  PROVE  Spec => ForkIsFinal
<1> DEFINE Final == \A c \in setup.campaigns :
                      OfCampaign(relay, c) # {} /\ Chain(relay, c) = << >>
                        => Chain(relay', c) = << >>
<1>1. Inv /\ [Next]_vars => Final
  <2> SUFFICES ASSUME Inv, [Next]_vars, NEW c \in setup.campaigns,
                      OfCampaign(relay, c) # {}, Chain(relay, c) = << >>
               PROVE  Chain(relay', c) = << >>
    OBVIOUS
  <2>1. Published(relay) /\ Published(relay') /\ relay \subseteq relay'
    BY RelayStep
  <2>. QED  BY <2>1, ForkedAmongMore DEF Chain
<1>2. [][Inv /\ [Next]_vars]_vars => [][Final]_vars
  BY <1>1, PTL
<1>. QED  BY <1>2, InvAlways, PTL DEF Spec, ForkIsFinal

(* The state at a second depends on the events stamped up to it. *)
LEMMA PastDecides ==
  ASSUME NEW A, NEW B, NEW t, {x \in A : x.at <= t} = {x \in B : x.at <= t}
  PROVE  ResolveAt(A, t) = ResolveAt(B, t)
<1> DEFINE root(N) == CHOOSE r \in CampaignRoots(N) : TRUE
           At(N) == IF Cardinality(CampaignRoots(N)) # 1 \/ root(N).starts >= root(N).ends
                         \/ root(N).starts < root(N).at
                    THEN << >>
                    ELSE ChainFrom(N, root(N))
           nodesA == {x \in A : x.at <= t}
           nodesB == {x \in B : x.at <= t}
<1>1. ResolveAt(A, t) = At(nodesA) /\ ResolveAt(B, t) = At(nodesB)
  BY Zenon DEF ResolveAt
<1>2. nodesA = nodesB
  OBVIOUS
<1> HIDE DEF At, nodesA, nodesB
<1>. QED  BY <1>1, <1>2

LEMMA LaterEventKeepsPast ==
  ASSUME NEW S, NEW chain \in Seq(S), NEW e, e.at \in Nat, NEW t \in Nat, t < e.at
  PROVE  ClaimableAt(Append(chain, e), t) = ClaimableAt(chain, t)
<1> DEFINE A == {chain[i] : i \in DOMAIN chain}
           B == {Append(chain, e)[i] : i \in DOMAIN Append(chain, e)}
<1>1. B = A \cup {e}
  <2>1. /\ DOMAIN chain = 1..Len(chain) /\ DOMAIN Append(chain, e) = 1..(Len(chain) + 1)
        /\ Len(chain) \in Nat
        /\ \A i \in 1..Len(chain) : Append(chain, e)[i] = chain[i]
        /\ Append(chain, e)[Len(chain) + 1] = e
    <3>1. chain \in Seq(S \cup {e}) /\ e \in S \cup {e}
      OBVIOUS
    <3> DEFINE T == S \cup {e}
    <3>2. chain \in Seq(T) /\ e \in T
      BY <3>1
    <3> HIDE DEF T
    <3>. QED  BY <3>2
  <2>2. 1..(Len(chain) + 1) = 1..Len(chain) \cup {Len(chain) + 1}
    BY <2>1
  <2>3. B = {Append(chain, e)[i] : i \in 1..Len(chain) \cup {Len(chain) + 1}}
    BY <2>1, <2>2
  <2>. QED  BY <2>1, <2>3
<1>2. {x \in B : x.at <= t} = {x \in A : x.at <= t}
  <2> HIDE DEF A, B
  <2>1. ~(e.at <= t)
    OBVIOUS
  <2>. QED  BY <1>1, <2>1
<1>3. ResolveAt(B, t) = ResolveAt(A, t)
  <2> HIDE DEF A, B
  <2>. QED  BY <1>2, PastDecides
<1>. QED  BY <1>3 DEF ClaimableAt

(* Publishing an event never changes whether its campaign was claimable in *)
(* a second before the event's.                                            *)
THEOREM EarlierIsKept ==
  ASSUME NoPredIsNone
  PROVE  Spec => PublishNeverRewritesEarlier
<1> DEFINE Kept == \A e \in relay' \ relay, t \in 0..MaxTime :
                     /\ t < e.at
                     /\ Chain(relay, e.campaign) # << >>
                     /\ Chain(relay', e.campaign) # << >>
                     => ClaimableAt(Chain(relay', e.campaign), t)
                          = ClaimableAt(Chain(relay, e.campaign), t)
<1>1. Inv /\ [Next]_vars => Kept
  <2> SUFFICES ASSUME Inv, [Next]_vars, NEW e \in relay' \ relay, NEW t \in 0..MaxTime,
                      t < e.at,
                      Chain(relay, e.campaign) # << >>, Chain(relay', e.campaign) # << >>
               PROVE  ClaimableAt(Chain(relay', e.campaign), t)
                        = ClaimableAt(Chain(relay, e.campaign), t)
    OBVIOUS
  <2> DEFINE S == OfCampaign(relay, e.campaign)
  <2>1. Sound(e, relay) /\ relay' = relay \cup {e} /\ Published(relay)
    BY RelayStep
  <2>2. Joins(e, relay)
    BY <2>1 DEF Joins, Chain
  <2>3. Chain(relay', e.campaign) \in {Resolve(S), Append(Resolve(S), e)}
    BY <2>1, <2>2, OneMoreEvent DEF Chain
  <2>4. Resolve(S) \in Seq(S)
    <3>1. Dated(S)
      BY <2>1, CampaignFits
    <3>. QED  BY <3>1, ResolvedFits DEF Chain
  <2>5. t \in Nat /\ e.at \in Nat
    BY <2>1 DEF Sound
  <2>6. ClaimableAt(Append(Resolve(S), e), t) = ClaimableAt(Resolve(S), t)
    <3> HIDE DEF S
    <3>. QED  BY <2>4, <2>5, LaterEventKeepsPast
  <2>. QED  BY <2>3, <2>6 DEF Chain
<1>2. [][Inv /\ [Next]_vars]_vars => [][Kept]_vars
  BY <1>1, PTL
<1>. QED  BY <1>2, InvAlways, PTL DEF Spec, PublishNeverRewritesEarlier
=============================================================================
