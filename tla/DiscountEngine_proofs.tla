------------------------ MODULE DiscountEngine_proofs ------------------------
(***************************************************************************)
(* Proofs about DiscountEngine: what an evaluation computes, for every     *)
(* reading of a version.  The engine folds over finite sets, so its facts  *)
(* are inductions; each is proved from a smallest counterexample.          *)
(***************************************************************************)
EXTENDS DiscountEngine, FiniteSetTheorems, TLAPS

-----------------------------------------------------------------------------
(* Finite sets *)

(* Induction on the subsets of a finite set: some bad subset has no smaller one. *)
LEMMA SmallestSubset ==
  ASSUME NEW S, IsFiniteSet(S), NEW Bad \in SUBSET (SUBSET S), Bad # {}
  PROVE  \E T \in Bad : \A U \in SUBSET T : U # T => U \notin Bad
<1>1. IsWellFoundedOn(StrictSubsetOrdering(S), FiniteSubsetsOf(S))
  BY FS_StrictSubsetOrderingWellFounded
<1>2. Bad \subseteq FiniteSubsetsOf(S)
  BY FS_Subset DEF FiniteSubsetsOf
<1>3. PICK T \in Bad : \A U \in Bad : <<U, T>> \notin StrictSubsetOrdering(S)
  BY <1>1, <1>2, WFMin
<1>4. ASSUME NEW U \in SUBSET T, U # T, U \in Bad PROVE FALSE
  BY <1>3, <1>4 DEF StrictSubsetOrdering
<1> QED
  BY <1>3, <1>4

(* A set of natural numbers has a least one. *)
LEMMA LeastNatural ==
  ASSUME NEW N \in SUBSET Nat, N # {}
  PROVE  \E n \in N : \A m \in N : n <= m
<1>1. IsWellFoundedOn(OpToRel(<, Nat), Nat)
  BY NatLessThanWellFounded
<1>2. PICK n \in N : \A m \in N : <<m, n>> \notin OpToRel(<, Nat)
  BY <1>1, WFMin
<1>3. \A m \in N : ~(m < n)
  BY <1>2 DEF OpToRel
<1> QED
  BY <1>3

(* The image of a finite set is finite. *)
LEMMA FiniteImage ==
  ASSUME NEW S, IsFiniteSet(S), NEW f
  PROVE  IsFiniteSet({f[x] : x \in S})
<1> DEFINE T == {f[x] : x \in S}
           g == [x \in S |-> f[x]]
<1>1. g \in Surjection(S, T)
  BY DEF Surjection
<1> QED
  BY <1>1, FS_Surjection

(* A finite set under a strict total order has a first element. *)
LEMMA FirstOfOrder ==
  ASSUME NEW S, IsFiniteSet(S), S # {}, NEW R,
         \A x, y \in S : x # y => <<x, y>> \in R \/ <<y, x>> \in R,
         \A x, y, z \in S : <<x, y>> \in R /\ <<y, z>> \in R => <<x, z>> \in R
  PROVE  \E x \in S : \A y \in S \ {x} : <<x, y>> \in R
<1> DEFINE First(x, T) == x \in T /\ \A y \in T \ {x} : <<x, y>> \in R
           Bad == {T \in SUBSET S : T # {} /\ \A x \in T : ~First(x, T)}
<1>1. SUFFICES ASSUME Bad # {} PROVE FALSE
  OBVIOUS
<1>2. PICK T \in Bad : \A U \in SUBSET T : U # T => U \notin Bad
  <2>1. Bad \in SUBSET (SUBSET S)
    OBVIOUS
  <2> HIDE DEF Bad
  <2> QED
    BY <1>1, <2>1, SmallestSubset
<1>3. PICK x \in T : TRUE
  OBVIOUS
<1>4. ~First(x, T)
  OBVIOUS
<1>5. T \ {x} \notin Bad /\ T \ {x} # {}
  <2>1. CASE T \ {x} = {}
    BY <1>4, <2>1
  <2>2. T \ {x} \in SUBSET T /\ T \ {x} # T
    OBVIOUS
  <2>3. T \ {x} \notin Bad
    <3> HIDE DEF Bad
    <3> QED
      BY <1>2, <2>2
  <2> QED
    BY <2>1, <2>3
<1>6. PICK l \in T \ {x} : First(l, T \ {x})
  BY <1>5
<1>7. CASE <<l, x>> \in R
  BY <1>6, <1>7
<1>8. CASE <<x, l>> \in R
  <2>1. \A y \in T \ {x, l} : <<l, y>> \in R
    BY <1>6
  <2>2. \A y \in T \ {x, l} : <<x, y>> \in R
    BY <1>8, <2>1
  <2> QED
    BY <1>4, <1>8, <2>2
<1> QED
  BY <1>6, <1>7, <1>8

-----------------------------------------------------------------------------
(* Folds *)

(* A fold over a finite set is a function: its choice removes an element of what is left. *)
FoldsTo(g, C, base, ch, step) ==
  \A s \in SUBSET C : g[s] = IF s = {} THEN base ELSE step[<<ch[s], g[s \ {ch[s]}]>>]

LEMMA FoldExists ==
  ASSUME NEW C, IsFiniteSet(C), NEW V, NEW base \in V, NEW ch, NEW step \in [C \X V -> V],
         \A s \in SUBSET C : s # {} => ch[s] \in s
  PROVE  \E g \in [SUBSET C -> V] : FoldsTo(g, C, base, ch, step)
<1> DEFINE Small(n) == {s \in SUBSET C : Cardinality(s) <= n}
           Follows(g, n) ==
             \A s \in Small(n) : g[s] = IF s = {} THEN base ELSE step[<<ch[s], g[s \ {ch[s]}]>>]
           Bad == {n \in Nat : ~\E g \in [Small(n) -> V] : Follows(g, n)}
<1>1. \A s \in SUBSET C : IsFiniteSet(s) /\ Cardinality(s) \in Nat
  BY FS_Subset, FS_CardinalityType
<1>2. \A s \in SUBSET C : s # {} =>
        /\ s \ {ch[s]} \in SUBSET C /\ ch[s] \in C
        /\ Cardinality(s \ {ch[s]}) = Cardinality(s) - 1
  BY <1>1, FS_RemoveElement
<1>3. Bad = {}
  <2>1. SUFFICES ASSUME Bad # {} PROVE FALSE
    OBVIOUS
  <2>2. PICK n \in Bad : \A m \in Bad : n <= m
    <3>1. Bad \in SUBSET Nat
      OBVIOUS
    <3> HIDE DEF Bad
    <3> QED
      BY <2>1, <3>1, LeastNatural
  <2>3. n # 0
    <3>1. SUFFICES ASSUME n = 0 PROVE FALSE
      OBVIOUS
    <3>2. \A s \in Small(0) : s = {}
      BY <1>1, FS_EmptySet
    <3>3. [s \in Small(0) |-> base] \in [Small(0) -> V] /\ Follows([s \in Small(0) |-> base], 0)
      BY <3>2
    <3> QED
      BY <3>1, <3>3
  <2>4. n - 1 \in Nat /\ n - 1 \notin Bad
    <3>1. n \in Nat
      OBVIOUS
    <3> HIDE DEF Bad
    <3> QED
      BY <2>2, <2>3, <3>1
  <2>5. PICK g \in [Small(n - 1) -> V] : Follows(g, n - 1)
    BY <2>4
  <2> DEFINE h == [s \in Small(n) |-> IF s = {} THEN base ELSE step[<<ch[s], g[s \ {ch[s]}]>>]]
  <2>6. \A s \in Small(n) : s # {} => s \ {ch[s]} \in Small(n - 1) /\ s \ {ch[s]} \in Small(n)
    BY <1>1, <1>2
  <2>7. \A s \in Small(n - 1) : s \in Small(n) /\ h[s] = g[s]
    <3>1. Small(n - 1) \subseteq Small(n)
      BY <1>1
    <3> QED
      BY <2>5, <3>1
  <2>8. \A s \in Small(n) : s # {} => g[s \ {ch[s]}] \in V
    BY <2>5, <2>6
  <2>9. h \in [Small(n) -> V]
    BY <1>2, <2>8
  <2>10. Follows(h, n)
    <3>1. ASSUME NEW s \in Small(n), s # {} PROVE h[s \ {ch[s]}] = g[s \ {ch[s]}]
      BY <2>6, <2>7, <3>1
    <3> QED
      BY <3>1
  <2> QED
    BY <2>9, <2>10
<1>4. Small(Cardinality(C)) = SUBSET C
  BY <1>1, FS_Subset
<1>5. Cardinality(C) \in Nat
  BY <1>1
<1>6. PICK g \in [Small(Cardinality(C)) -> V] : Follows(g, Cardinality(C))
  BY <1>3, <1>5
<1> QED
  BY <1>4, <1>6 DEF FoldsTo

-----------------------------------------------------------------------------
(* Sums *)

AnyOf(s) == CHOOSE x \in s : TRUE

(* A sum adds the values of a set one element at a time. *)
Adds(h, k, X) ==
  \A s \in SUBSET X : k[s] = IF s = {} THEN 0 ELSE h[AnyOf(s)] + k[s \ {AnyOf(s)}]

SumOf(h, X) == (CHOOSE k \in [SUBSET X -> Nat] : Adds(h, k, X))[X]

LEMMA AddsExists ==
  ASSUME NEW X, IsFiniteSet(X), NEW h, \A x \in X : h[x] \in Nat
  PROVE  \E k \in [SUBSET X -> Nat] : Adds(h, k, X)
<1> DEFINE ch == [s \in SUBSET X |-> AnyOf(s)]
           step == [p \in X \X Nat |-> h[p[1]] + p[2]]
<1>1. \A s \in SUBSET X : s # {} => ch[s] \in s
  BY DEF AnyOf
<1>2. step \in [X \X Nat -> Nat]
  OBVIOUS
<1>3. PICK k \in [SUBSET X -> Nat] : FoldsTo(k, X, 0, ch, step)
  <2> HIDE DEF ch, step
  <2> QED
    BY <1>1, <1>2, FoldExists
<1>4. ASSUME NEW s \in SUBSET X, s # {}
      PROVE  step[<<ch[s], k[s \ {ch[s]}]>>] = h[AnyOf(s)] + k[s \ {AnyOf(s)}]
  <2>1. ch[s] \in X /\ k[s \ {ch[s]}] \in Nat /\ ch[s] = AnyOf(s)
    BY <1>1, <1>4
  <2> QED
    BY <2>1
<1>5. Adds(h, k, X)
  <2> HIDE DEF ch, step
  <2> QED
    BY <1>3, <1>4 DEF FoldsTo, Adds
<1> QED
  BY <1>5

LEMMA AddsUnique ==
  ASSUME NEW X, IsFiniteSet(X), NEW Y, X \subseteq Y, NEW h, NEW j, NEW k, NEW l,
         \A x \in X : h[x] = j[x], Adds(h, k, X), Adds(j, l, Y)
  PROVE  k[X] = l[X]
<1> DEFINE Bad == {s \in SUBSET X : k[s] # l[s]}
<1>1. SUFFICES ASSUME Bad # {} PROVE FALSE
  OBVIOUS
<1>2. PICK T \in Bad : \A U \in SUBSET T : U # T => U \notin Bad
  <2>1. Bad \in SUBSET (SUBSET X)
    OBVIOUS
  <2> HIDE DEF Bad
  <2> QED
    BY <1>1, <2>1, SmallestSubset
<1>3. T # {}
  BY DEF Adds
<1>4. AnyOf(T) \in T
  BY <1>3 DEF AnyOf
<1>5. T \ {AnyOf(T)} \in SUBSET T /\ T \ {AnyOf(T)} # T
  BY <1>4
<1>6. k[T \ {AnyOf(T)}] = l[T \ {AnyOf(T)}]
  <2>1. T \ {AnyOf(T)} \notin Bad
    <3> HIDE DEF Bad
    <3> QED
      BY <1>2, <1>5
  <2> QED
    BY <1>5, <2>1
<1>7. k[T] = h[AnyOf(T)] + k[T \ {AnyOf(T)}] /\ l[T] = j[AnyOf(T)] + l[T \ {AnyOf(T)}]
  BY <1>3 DEF Adds
<1>8. h[AnyOf(T)] = j[AnyOf(T)]
  BY <1>4
<1> QED
  BY <1>6, <1>7, <1>8

(* What SumOf chooses adds, and agrees with whatever adds. *)
LEMMA SumIs ==
  ASSUME NEW X, IsFiniteSet(X), NEW h, \A x \in X : h[x] \in Nat
  PROVE  /\ SumOf(h, X) \in Nat
         /\ \A j, l, Y : X \subseteq Y /\ (\A x \in X : h[x] = j[x]) /\ Adds(j, l, Y)
                           => l[X] = SumOf(h, X)
<1> DEFINE K == CHOOSE k \in [SUBSET X -> Nat] : Adds(h, k, X)
<1>1. K \in [SUBSET X -> Nat] /\ Adds(h, K, X)
  <2>1. \E k \in [SUBSET X -> Nat] : Adds(h, k, X)
    BY AddsExists
  <2> QED
    BY <2>1
<1>2. SumOf(h, X) = K[X]
  BY DEF SumOf
<1> HIDE DEF K
<1>3. SumOf(h, X) \in Nat
  BY <1>1, <1>2
<1>4. ASSUME NEW j, NEW l, NEW Y, X \subseteq Y, \A x \in X : h[x] = j[x], Adds(j, l, Y)
      PROVE  l[X] = SumOf(h, X)
  BY <1>1, <1>2, <1>4, AddsUnique
<1> QED
  BY <1>3, <1>4

LEMMA SumOfNone ==
  ASSUME NEW h
  PROVE  SumOf(h, {}) = 0
<1>1. IsFiniteSet({}) /\ \A x \in {} : h[x] \in Nat
  BY FS_EmptySet
<1>2. PICK k \in [SUBSET {} -> Nat] : Adds(h, k, {})
  BY <1>1, AddsExists
<1>3. k[{}] = 0
  BY <1>2 DEF Adds
<1> QED
  BY <1>1, <1>2, <1>3, SumIs

(* A sum takes no notice of the order: any element may be split off. *)
LEMMA SumSplits ==
  ASSUME NEW X, IsFiniteSet(X), NEW h, \A x \in X : h[x] \in Nat, NEW e \in X
  PROVE  SumOf(h, X) = h[e] + SumOf(h, X \ {e})
<1> DEFINE Splits(s) == \A x \in s : SumOf(h, s) = h[x] + SumOf(h, s \ {x})
           Bad == {s \in SUBSET X : ~Splits(s)}
<1>1. \A s \in SUBSET X : IsFiniteSet(s) /\ SumOf(h, s) \in Nat /\ \A x \in s : h[x] \in Nat
  BY FS_Subset, SumIs
<1>2. \A s \in SUBSET X : s # {} => SumOf(h, s) = h[AnyOf(s)] + SumOf(h, s \ {AnyOf(s)})
  <2>1. PICK k \in [SUBSET X -> Nat] : Adds(h, k, X)
    BY AddsExists
  <2>2. \A s \in SUBSET X : k[s] = SumOf(h, s)
    BY <1>1, <2>1, SumIs
  <2>3. ASSUME NEW s \in SUBSET X, s # {}
        PROVE  k[s] = h[AnyOf(s)] + k[s \ {AnyOf(s)}]
    BY <2>1, <2>3 DEF Adds
  <2>4. \A s \in SUBSET X : s \ {AnyOf(s)} \in SUBSET X
    OBVIOUS
  <2> QED
    BY <2>2, <2>3, <2>4
<1>3. SUFFICES ASSUME Bad # {} PROVE FALSE
  OBVIOUS
<1>4. PICK T \in Bad : \A U \in SUBSET T : U # T => U \notin Bad
  <2>1. Bad \in SUBSET (SUBSET X)
    OBVIOUS
  <2> HIDE DEF Bad
  <2> QED
    BY <1>3, <2>1, SmallestSubset
<1>5. PICK x \in T : SumOf(h, T) # h[x] + SumOf(h, T \ {x})
  OBVIOUS
<1> DEFINE y == AnyOf(T)
<1>6. y \in T /\ SumOf(h, T) = h[y] + SumOf(h, T \ {y})
  BY <1>2 DEF AnyOf
<1>7. x # y
  BY <1>5, <1>6
<1>8. T \ {x} \notin Bad /\ T \ {y} \notin Bad
  <2>1. T \ {x} \in SUBSET T /\ T \ {x} # T /\ T \ {y} \in SUBSET T /\ T \ {y} # T
    BY <1>6
  <2> HIDE DEF Bad, y
  <2> QED
    BY <1>4, <2>1
<1> HIDE DEF y
<1>9. x \in T \ {y} /\ y \in T \ {x} /\ T \ {x} \in SUBSET X /\ T \ {y} \in SUBSET X
  BY <1>6, <1>7
<1> DEFINE rest == SumOf(h, (T \ {x}) \ {y})
<1>10. /\ SumOf(h, T \ {y}) = h[x] + SumOf(h, (T \ {y}) \ {x})
       /\ SumOf(h, T \ {x}) = h[y] + rest
  BY <1>8, <1>9
<1>11. (T \ {y}) \ {x} = (T \ {x}) \ {y} /\ (T \ {x}) \ {y} \in SUBSET X
  OBVIOUS
<1>12. SumOf(h, T \ {y}) = h[x] + rest
  BY <1>10, <1>11
<1>13. h[x] \in Nat /\ h[y] \in Nat /\ rest \in Nat
  BY <1>1, <1>9, <1>11
<1> HIDE DEF rest
<1> QED
  BY <1>5, <1>6, <1>10, <1>12, <1>13

(* The sums of the engine are such sums: of what applications take off, of what *)
(* lines come to, and of what lines may still be taken off.                     *)
Amounts(X) == [a \in X |-> a.amount]
Subtotals(line, X) == [i \in X |-> Subtotal(line[i])]
Headrooms(line, X) == [i \in X |-> Headroom(line[i])]

LEMMA AmountsAre ==
  ASSUME NEW X, IsFiniteSet(X), \A a \in X : a.amount \in Nat
  PROVE  AmountsOf(X) = SumOf(Amounts(X), X)
<1> DEFINE Body(g) == [s \in SUBSET X |->
             IF s = {} THEN 0
             ELSE (CHOOSE x \in s : TRUE).amount + g[s \ {CHOOSE x \in s : TRUE}]]
           K == CHOOSE g : g = Body(g)
<1>1. AmountsOf(X) = K[X]
  BY DEF AmountsOf, MapThenSumSet, MapThenFoldSet
<1>2. \A x \in X : Amounts(X)[x] \in Nat /\ Amounts(X)[x] = x.amount
  BY DEF Amounts
<1>3. PICK k \in [SUBSET X -> Nat] : Adds(Amounts(X), k, X)
  BY <1>2, AddsExists
<1>4. \A s \in SUBSET X : s # {} => AnyOf(s) \in X
  BY DEF AnyOf
<1>5. k = Body(k)
  <2>1. ASSUME NEW s \in SUBSET X
        PROVE  k[s] = IF s = {} THEN 0 ELSE AnyOf(s).amount + k[s \ {AnyOf(s)}]
    BY <1>2, <1>3, <1>4 DEF Adds
  <2> QED
    BY <2>1 DEF AnyOf
<1>6. K = Body(K)
  BY <1>5
<1> HIDE DEF K
<1>7. Adds(Amounts(X), K, X)
  <2>1. ASSUME NEW s \in SUBSET X
        PROVE  K[s] = IF s = {} THEN 0 ELSE AnyOf(s).amount + K[s \ {AnyOf(s)}]
    BY <1>6 DEF AnyOf
  <2>2. ASSUME NEW s \in SUBSET X, s # {} PROVE Amounts(X)[AnyOf(s)] = AnyOf(s).amount
    BY <1>2, <1>4, <2>2
  <2> QED
    BY <2>1, <2>2 DEF Adds
<1> QED
  BY <1>1, <1>2, <1>7, SumIs

LEMMA SubtotalsAre ==
  ASSUME NEW line, NEW X, IsFiniteSet(X), \A i \in X : Subtotal(line[i]) \in Nat
  PROVE  SumLines(line, X) = SumOf(Subtotals(line, X), X)
<1> DEFINE Body(g) == [s \in SUBSET X |->
             IF s = {} THEN 0
             ELSE Subtotal(line[CHOOSE x \in s : TRUE]) + g[s \ {CHOOSE x \in s : TRUE}]]
           K == CHOOSE g : g = Body(g)
<1>1. SumLines(line, X) = K[X]
  BY DEF SumLines, MapThenSumSet, MapThenFoldSet
<1>2. \A x \in X : Subtotals(line, X)[x] \in Nat /\ Subtotals(line, X)[x] = Subtotal(line[x])
  BY DEF Subtotals
<1>3. PICK k \in [SUBSET X -> Nat] : Adds(Subtotals(line, X), k, X)
  BY <1>2, AddsExists
<1>4. \A s \in SUBSET X : s # {} => AnyOf(s) \in X
  BY DEF AnyOf
<1>5. k = Body(k)
  <2>1. ASSUME NEW s \in SUBSET X
        PROVE  k[s] = IF s = {} THEN 0 ELSE Subtotal(line[AnyOf(s)]) + k[s \ {AnyOf(s)}]
    BY <1>2, <1>3, <1>4 DEF Adds
  <2> QED
    BY <2>1 DEF AnyOf
<1>6. K = Body(K)
  BY <1>5
<1> HIDE DEF K
<1>7. Adds(Subtotals(line, X), K, X)
  <2>1. ASSUME NEW s \in SUBSET X
        PROVE  K[s] = IF s = {} THEN 0 ELSE Subtotal(line[AnyOf(s)]) + K[s \ {AnyOf(s)}]
    BY <1>6 DEF AnyOf
  <2>2. ASSUME NEW s \in SUBSET X, s # {} PROVE Subtotals(line, X)[AnyOf(s)] = Subtotal(line[AnyOf(s)])
    BY <1>2, <1>4, <2>2
  <2> QED
    BY <2>1, <2>2 DEF Adds
<1> QED
  BY <1>1, <1>2, <1>7, SumIs

LEMMA HeadroomsAre ==
  ASSUME NEW line, NEW X, IsFiniteSet(X), \A i \in X : Headroom(line[i]) \in Nat
  PROVE  SumHeadroom(line, X) = SumOf(Headrooms(line, X), X)
<1> DEFINE Body(g) == [s \in SUBSET X |->
             IF s = {} THEN 0
             ELSE Headroom(line[CHOOSE x \in s : TRUE]) + g[s \ {CHOOSE x \in s : TRUE}]]
           K == CHOOSE g : g = Body(g)
<1>1. SumHeadroom(line, X) = K[X]
  BY DEF SumHeadroom, MapThenSumSet, MapThenFoldSet
<1>2. \A x \in X : Headrooms(line, X)[x] \in Nat /\ Headrooms(line, X)[x] = Headroom(line[x])
  BY DEF Headrooms
<1>3. PICK k \in [SUBSET X -> Nat] : Adds(Headrooms(line, X), k, X)
  BY <1>2, AddsExists
<1>4. \A s \in SUBSET X : s # {} => AnyOf(s) \in X
  BY DEF AnyOf
<1>5. k = Body(k)
  <2>1. ASSUME NEW s \in SUBSET X
        PROVE  k[s] = IF s = {} THEN 0 ELSE Headroom(line[AnyOf(s)]) + k[s \ {AnyOf(s)}]
    BY <1>2, <1>3, <1>4 DEF Adds
  <2> QED
    BY <2>1 DEF AnyOf
<1>6. K = Body(K)
  BY <1>5
<1> HIDE DEF K
<1>7. Adds(Headrooms(line, X), K, X)
  <2>1. ASSUME NEW s \in SUBSET X
        PROVE  K[s] = IF s = {} THEN 0 ELSE Headroom(line[AnyOf(s)]) + K[s \ {AnyOf(s)}]
    BY <1>6 DEF AnyOf
  <2>2. ASSUME NEW s \in SUBSET X, s # {} PROVE Headrooms(line, X)[AnyOf(s)] = Headroom(line[AnyOf(s)])
    BY <1>2, <1>4, <2>2
  <2> QED
    BY <2>1, <2>2 DEF Adds
<1> QED
  BY <1>1, <1>2, <1>7, SumIs

-----------------------------------------------------------------------------
(* What an evaluation reads *)

Actions == {"PERCENTAGE", "FIXED_AMOUNT", "SPECIAL_PRICE"}

IsLine(l) ==
  /\ l.quantity \in Nat
  /\ l.price \in Nat \cup {None} /\ l.floor \in Nat \cup {None}

IsRule(r) ==
  /\ r.action \in Actions /\ r.value \in Nat /\ r.priority \in Int
  /\ \A t \in r.tiers : t.from \in Nat /\ t.value \in Nat
  /\ r.condition = "ITEM_SET" => r.targets # {}

IsReading(in) ==
  /\ DOMAIN in.line \subseteq Nat /\ IsFiniteSet(DOMAIN in.line)
  /\ \A i \in DOMAIN in.line : IsLine(in.line[i])
  /\ DOMAIN in.rule \subseteq Nat /\ IsFiniteSet(DOMAIN in.rule)
  /\ \A p \in DOMAIN in.rule : IsRule(in.rule[p])
  /\ IsFiniteSet(in.held) /\ \A h \in in.held : h.amount \in Nat

LEMMA AtMostIs ==
  ASSUME NEW a \in Int, NEW b \in Int
  PROVE  AtMost(a, b) \in {a, b} /\ AtMost(a, b) <= a /\ AtMost(a, b) <= b
  BY DEF AtMost

LEMMA NotNegativeIs ==
  ASSUME NEW a \in Int
  PROVE  NotNegative(a) \in Nat /\ NotNegative(a) >= a /\ (NotNegative(a) > 0 => NotNegative(a) = a)
  BY DEF NotNegative

LEMMA ShareIs ==
  ASSUME NEW base \in Nat, NEW percentage \in Nat
  PROVE  Share(base, percentage) \in Nat
<1>1. base * percentage \in Nat
  OBVIOUS
<1> QED
  BY <1>1 DEF Share

LEMMA LineIs ==
  ASSUME NEW l, IsLine(l)
  PROVE  Subtotal(l) \in Nat /\ Headroom(l) \in Nat
<1>1. l.price # None => l.price * l.quantity \in Nat
  BY DEF IsLine
<1>2. l.floor # None => l.floor * l.quantity \in Nat
  BY DEF IsLine
<1>3. Subtotal(l) \in Nat
  BY <1>1 DEF Subtotal
<1>4. Subtotal(l) - (IF l.floor = None THEN 0 ELSE l.floor * l.quantity) \in Int
  BY <1>2, <1>3
<1> QED
  BY <1>3, <1>4, NotNegativeIs DEF Headroom

LEMMA SumsAre ==
  ASSUME NEW line, IsFiniteSet(DOMAIN line), \A i \in DOMAIN line : IsLine(line[i]),
         NEW items \in SUBSET DOMAIN line
  PROVE  SumLines(line, items) \in Nat /\ SumHeadroom(line, items) \in Nat
<1>1. IsFiniteSet(items)
  BY FS_Subset
<1>2. \A i \in items : Subtotal(line[i]) \in Nat /\ Headroom(line[i]) \in Nat
  BY LineIs
<1>3. \A i \in items : /\ Subtotals(line, items)[i] \in Nat
                       /\ Headrooms(line, items)[i] \in Nat
  BY <1>2 DEF Subtotals, Headrooms
<1> QED
  BY <1>1, <1>2, <1>3, SumIs, SubtotalsAre, HeadroomsAre

LEMMA AmountsSum ==
  ASSUME NEW X, IsFiniteSet(X), \A a \in X : a.amount \in Nat
  PROVE  AmountsOf(X) \in Nat
<1>1. \A a \in X : Amounts(X)[a] \in Nat
  BY DEF Amounts
<1> QED
  BY <1>1, SumIs, AmountsAre

LEMMA HeadroomRemains ==
  ASSUME NEW in, IsReading(in), NEW items \in SUBSET DOMAIN in.line
  PROVE  RemainingHeadroom(in, items) \in Nat
<1> DEFINE H == {h \in in.held : h.items \cap items # {}}
<1>1. IsFiniteSet(H) /\ \A h \in H : h.amount \in Nat
  BY FS_Subset DEF IsReading
<1>2. AmountsOf(H) \in Nat
  BY <1>1, AmountsSum
<1>3. SumHeadroom(in.line, items) \in Nat
  BY SumsAre DEF IsReading
<1> QED
  BY <1>2, <1>3, NotNegativeIs DEF RemainingHeadroom

LEMMA FigureIs ==
  ASSUME NEW r, IsRule(r), NEW quantity \in Nat
  PROVE  LineFigure(r, quantity) \in Nat \cup {None}
<1> DEFINE reached == {t \in r.tiers : t.from <= quantity}
           Highest(t) == t \in reached /\ \A u \in reached : u.from <= t.from
           tier == CHOOSE t \in reached : \A u \in reached : u.from <= t.from
<1>1. reached # {} => tier \in reached
  <2>1. SUFFICES ASSUME reached # {} PROVE \E t \in reached : Highest(t)
    OBVIOUS
  <2> DEFINE below == {quantity - t.from : t \in reached}
  <2>2. \A t \in reached : t.from \in Nat /\ quantity - t.from \in Nat
    BY DEF IsRule
  <2>3. below \in SUBSET Nat /\ below # {}
    BY <2>1, <2>2
  <2>4. PICK n \in below : \A m \in below : n <= m
    <3> HIDE DEF below
    <3> QED
      BY <2>3, LeastNatural
  <2>5. PICK t \in reached : n = quantity - t.from
    OBVIOUS
  <2>6. ASSUME NEW u \in reached PROVE u.from <= t.from
    <3>1. n <= quantity - u.from
      BY <2>4
    <3> QED
      BY <2>2, <2>5, <3>1
  <2> QED
    BY <2>6
<1>2. reached # {} => tier.value \in Nat
  BY <1>1 DEF IsRule
<1>3. r.value \in Nat
  BY DEF IsRule
<1> QED
  BY <1>2, <1>3 DEF LineFigure

LEMMA LineAmountIs ==
  ASSUME NEW r, IsRule(r), NEW value \in Nat, NEW l, IsLine(l)
  PROVE  LineAmount(r, value, l) \in Nat
<1>1. Subtotal(l) \in Nat /\ l.quantity \in Nat
  BY LineIs DEF IsLine
<1>2. value * l.quantity \in Nat
  BY <1>1
<1>3. Share(Subtotal(l), value) \in Nat
  BY <1>1, ShareIs
<1>4. NotNegative(Subtotal(l) - value * l.quantity) \in Nat
  BY <1>1, <1>2, NotNegativeIs
<1> QED
  BY <1>2, <1>3, <1>4 DEF LineAmount, IsRule, Actions

LEMMA BaseAmountIs ==
  ASSUME NEW action, NEW value \in Nat, NEW base \in Nat
  PROVE  BaseAmount(action, value, base) \in Nat
  BY ShareIs DEF BaseAmount

-----------------------------------------------------------------------------
(* Candidates *)

Scopes == {"ITEM", "ITEM_SET", "TOTAL"}

ApplicationRow(in) ==
  [promotion : DOMAIN in.rule, scope : Scopes, action : Actions, value : Nat, amount : Nat,
   items : SUBSET DOMAIN in.line]

(* An application has the scope and the action of its rule, and names lines for it. *)
IsApplication(in, a) ==
  /\ a \in ApplicationRow(in)
  /\ a.scope = ScopeOf(in.rule[a.promotion].condition)
  /\ a.scope = "TOTAL" <=> a.items = {}
  /\ a.scope = "ITEM" => \E i : a.items = {i}

(* Beside that, a candidate on lines takes something, and no more than is left there. *)
IsCandidate(in, c) ==
  /\ IsApplication(in, c) /\ c.items \subseteq PricedLines(in.line)
  /\ c.items # {} => c.amount > 0 /\ c.amount <= RemainingHeadroom(in, c.items)

(* The one candidate of a line rule on a line. *)
LineCandidate(in, p, i) ==
  LET figure == LineFigure(in.rule[p], in.line[i].quantity)
  IN Application(in, p, figure,
                 AtMost(LineAmount(in.rule[p], figure, in.line[i]), RemainingHeadroom(in, {i})), {i})

LEMMA LineCandidateIs ==
  ASSUME NEW in, IsReading(in), NEW p \in DOMAIN in.rule,
         in.rule[p].condition \notin {"ITEM_SET", "ON_TOTAL"}, NEW c \in LineCandidates(in, p)
  PROVE  /\ IsCandidate(in, c) /\ c.promotion = p
         /\ \E i \in DOMAIN in.line : c = LineCandidate(in, p, i) /\ c.items = {i}
<1>1. PICK i \in PricedLines(in.line) :
        /\ c = LineCandidate(in, p, i) /\ c.amount > 0
        /\ LineFigure(in.rule[p], in.line[i].quantity) # None
  BY DEF LineCandidates, LineCandidate
<1>2. i \in DOMAIN in.line /\ IsLine(in.line[i]) /\ IsRule(in.rule[p])
  BY DEF PricedLines, IsReading
<1> DEFINE figure == LineFigure(in.rule[p], in.line[i].quantity)
           left == RemainingHeadroom(in, {i})
<1>3. figure \in Nat
  BY <1>1, <1>2, FigureIs DEF IsLine
<1>4. left \in Nat
  BY <1>2, HeadroomRemains
<1>5. LineAmount(in.rule[p], figure, in.line[i]) \in Nat
  BY <1>2, <1>3, LineAmountIs
<1> DEFINE amount == AtMost(LineAmount(in.rule[p], figure, in.line[i]), left)
<1>6. amount \in Nat /\ amount <= left
  BY <1>4, <1>5, AtMostIs
<1>7. c = [promotion |-> p, scope |-> "ITEM", action |-> in.rule[p].action, value |-> figure,
           amount |-> amount, items |-> {i}]
  BY <1>1 DEF LineCandidate, Application, ScopeOf
<1> HIDE DEF figure, amount
<1>8. c \in ApplicationRow(in)
  BY <1>2, <1>3, <1>6, <1>7 DEF ApplicationRow, Scopes, IsRule
<1>9. IsApplication(in, c)
  BY <1>7, <1>8 DEF IsApplication, ScopeOf
<1>10. IsCandidate(in, c)
  BY <1>1, <1>6, <1>7, <1>9 DEF IsCandidate
<1>11. c.items = {i} /\ c.promotion = p /\ i \in DOMAIN in.line
  BY <1>2, <1>7
<1>12. c = LineCandidate(in, p, i)
  BY <1>1
<1> QED
  BY <1>10, <1>11, <1>12

LEMMA SetCandidateIs ==
  ASSUME NEW in, IsReading(in), NEW p \in DOMAIN in.rule,
         in.rule[p].condition = "ITEM_SET", NEW c \in SetCandidate(in, p)
  PROVE  IsCandidate(in, c) /\ c.promotion = p /\ SetCandidate(in, p) = {c}
<1> DEFINE r == in.rule[p]
           Found(t) == {i \in PricedLines(in.line) : Matches(t, in.line[i])}
           all == UNION {Found(t) : t \in r.targets}
           left == RemainingHeadroom(in, all)
           whole == BaseAmount(r.action, r.value, SumLines(in.line, all))
           amount == AtMost(whole, left)
<1>1. /\ c = Application(in, p, r.value, amount, all) /\ c.amount > 0
      /\ \A t \in r.targets : Found(t) # {}
      /\ SetCandidate(in, p) = {c}
  BY DEF SetCandidate
<1>2. IsRule(r)
  BY DEF IsReading
<1>3. all \in SUBSET DOMAIN in.line /\ all \in SUBSET PricedLines(in.line)
  BY DEF PricedLines
<1>4. all # {}
  <2>1. PICK t \in r.targets : TRUE
    BY <1>2 DEF IsRule
  <2>2. Found(t) # {}
    BY <1>1
  <2> QED
    BY <2>2
<1> HIDE DEF all
<1>5. left \in Nat
  BY <1>3, HeadroomRemains
<1>6. SumLines(in.line, all) \in Nat
  BY <1>3, SumsAre DEF IsReading
<1>7. whole \in Nat
  BY <1>2, <1>6, BaseAmountIs DEF IsRule
<1>8. amount \in Nat /\ amount <= left
  BY <1>5, <1>7, AtMostIs
<1>9. c = [promotion |-> p, scope |-> "ITEM_SET", action |-> r.action, value |-> r.value,
           amount |-> amount, items |-> all]
  BY <1>1 DEF Application, ScopeOf
<1> HIDE DEF amount
<1>10. c \in ApplicationRow(in)
  BY <1>2, <1>3, <1>8, <1>9 DEF ApplicationRow, Scopes, IsRule
<1>11. IsApplication(in, c)
  BY <1>4, <1>9, <1>10 DEF IsApplication, ScopeOf
<1> QED
  BY <1>1, <1>3, <1>8, <1>9, <1>11 DEF IsCandidate

LEMMA TotalCandidateIs ==
  ASSUME NEW in, IsReading(in), NEW p \in DOMAIN in.rule,
         in.rule[p].condition = "ON_TOTAL", NEW c \in TotalCandidate(in, p)
  PROVE  IsCandidate(in, c) /\ c.promotion = p /\ TotalCandidate(in, p) = {c}
<1> DEFINE r == in.rule[p]
           gross == SumLines(in.line, PricedLines(in.line))
           amount == BaseAmount(r.action, r.value, gross)
<1>1. c = Application(in, p, r.value, amount, {}) /\ TotalCandidate(in, p) = {c}
  BY DEF TotalCandidate
<1>2. IsRule(r)
  BY DEF IsReading
<1>3. PricedLines(in.line) \in SUBSET DOMAIN in.line
  BY DEF PricedLines
<1>4. gross \in Nat
  BY <1>3, SumsAre DEF IsReading
<1>5. amount \in Nat
  BY <1>2, <1>4, BaseAmountIs DEF IsRule
<1>6. c = [promotion |-> p, scope |-> "TOTAL", action |-> r.action, value |-> r.value,
           amount |-> amount, items |-> {}]
  BY <1>1 DEF Application, ScopeOf
<1> HIDE DEF amount
<1>7. c \in ApplicationRow(in)
  BY <1>2, <1>5, <1>6 DEF ApplicationRow, Scopes, IsRule
<1>8. IsApplication(in, c)
  BY <1>6, <1>7 DEF IsApplication, ScopeOf
<1> QED
  BY <1>1, <1>6, <1>8 DEF IsCandidate

LEMMA CandidateIs ==
  ASSUME NEW in, IsReading(in), NEW c \in Candidates(in)
  PROVE  /\ IsCandidate(in, c)
         /\ c.promotion \in DOMAIN in.rule /\ c \in CandidatesOf(in, c.promotion)
<1>1. PICK p \in DOMAIN in.rule : c \in CandidatesOf(in, p)
  BY DEF Candidates
<1>2. IsCandidate(in, c) /\ c.promotion = p
  <2>1. CASE in.rule[p].condition = "ITEM_SET"
    <3>1. c \in SetCandidate(in, p)
      BY <1>1, <2>1 DEF CandidatesOf
    <3> QED
      BY <2>1, <3>1, SetCandidateIs
  <2>2. CASE in.rule[p].condition = "ON_TOTAL"
    <3>1. c \in TotalCandidate(in, p)
      BY <1>1, <2>2 DEF CandidatesOf
    <3> QED
      BY <2>2, <3>1, TotalCandidateIs
  <2>3. CASE in.rule[p].condition \notin {"ITEM_SET", "ON_TOTAL"}
    <3>1. c \in LineCandidates(in, p)
      BY <1>1, <2>3 DEF CandidatesOf
    <3> QED
      BY <2>3, <3>1, LineCandidateIs
  <2> QED
    BY <2>1, <2>2, <2>3
<1> QED
  BY <1>1, <1>2

(* A promotion has one candidate on the version, or one for each line. *)
LEMMA OneCandidatePerKey ==
  ASSUME NEW in, IsReading(in), NEW c \in Candidates(in), NEW d \in Candidates(in),
         c.promotion = d.promotion, c.scope = "ITEM" => c.items = d.items
  PROVE  c = d
<1> DEFINE p == c.promotion
<1>1. /\ p \in DOMAIN in.rule /\ c \in CandidatesOf(in, p) /\ d \in CandidatesOf(in, p)
      /\ IsCandidate(in, c) /\ IsCandidate(in, d)
  BY CandidateIs
<1>2. c.scope = ScopeOf(in.rule[p].condition)
  BY <1>1 DEF IsCandidate, IsApplication
<1>3. CASE in.rule[p].condition = "ITEM_SET"
  <2>1. c \in SetCandidate(in, p) /\ d \in SetCandidate(in, p)
    BY <1>1, <1>3 DEF CandidatesOf
  <2> HIDE DEF p
  <2>2. SetCandidate(in, p) = {c}
    BY <1>1, <1>3, <2>1, SetCandidateIs
  <2> QED
    BY <2>1, <2>2
<1>4. CASE in.rule[p].condition = "ON_TOTAL"
  <2>1. c \in TotalCandidate(in, p) /\ d \in TotalCandidate(in, p)
    BY <1>1, <1>4 DEF CandidatesOf
  <2> HIDE DEF p
  <2>2. TotalCandidate(in, p) = {c}
    BY <1>1, <1>4, <2>1, TotalCandidateIs
  <2> QED
    BY <2>1, <2>2
<1>5. CASE in.rule[p].condition \notin {"ITEM_SET", "ON_TOTAL"}
  <2>1. c \in LineCandidates(in, p) /\ d \in LineCandidates(in, p)
    BY <1>1, <1>5 DEF CandidatesOf
  <2>2. c.items = d.items
    BY <1>2, <1>5 DEF ScopeOf
  <2> HIDE DEF p
  <2>3. PICK i \in DOMAIN in.line : c = LineCandidate(in, p, i) /\ c.items = {i}
    BY <1>1, <1>5, <2>1, LineCandidateIs
  <2>4. PICK j \in DOMAIN in.line : d = LineCandidate(in, p, j) /\ d.items = {j}
    BY <1>1, <1>5, <2>1, LineCandidateIs
  <2>5. i = j
    BY <2>2, <2>3, <2>4
  <2> QED
    BY <2>3, <2>4, <2>5
<1> QED
  BY <1>3, <1>4, <1>5

LEMMA CandidatesFinite ==
  ASSUME NEW in, IsReading(in)
  PROVE  IsFiniteSet(Candidates(in))
<1>1. ASSUME NEW p \in DOMAIN in.rule PROVE IsFiniteSet(CandidatesOf(in, p))
  <2>1. CASE in.rule[p].condition = "ITEM_SET"
    <3>1. SetCandidate(in, p) = {} \/ \E c : SetCandidate(in, p) = {c}
      BY <2>1, SetCandidateIs
    <3> QED
      BY <2>1, <3>1, FS_EmptySet, FS_Singleton DEF CandidatesOf
  <2>2. CASE in.rule[p].condition = "ON_TOTAL"
    <3>1. TotalCandidate(in, p) = {} \/ \E c : TotalCandidate(in, p) = {c}
      BY <2>2, TotalCandidateIs
    <3> QED
      BY <2>2, <3>1, FS_EmptySet, FS_Singleton DEF CandidatesOf
  <2>3. CASE in.rule[p].condition \notin {"ITEM_SET", "ON_TOTAL"}
    <3> DEFINE f == [i \in DOMAIN in.line |-> LineCandidate(in, p, i)]
               all == {f[i] : i \in DOMAIN in.line}
    <3>1. IsFiniteSet(all)
      <4> HIDE DEF f
      <4> QED
        BY FiniteImage DEF IsReading
    <3>2. LineCandidates(in, p) \in SUBSET all
      <4>1. ASSUME NEW c \in LineCandidates(in, p) PROVE c \in all
        <5>1. PICK i \in DOMAIN in.line : c = LineCandidate(in, p, i)
          BY <2>3, LineCandidateIs
        <5> QED
          BY <5>1
      <4> QED
        BY <4>1
    <3> HIDE DEF all
    <3>3. CandidatesOf(in, p) = LineCandidates(in, p)
      BY <2>3 DEF CandidatesOf
    <3> QED
      BY <3>1, <3>2, <3>3, FS_Subset
  <2> QED
    BY <2>1, <2>2, <2>3
<1> DEFINE f == [p \in DOMAIN in.rule |-> CandidatesOf(in, p)]
           all == {f[p] : p \in DOMAIN in.rule}
<1>2. IsFiniteSet(all)
  <2> HIDE DEF f
  <2> QED
    BY FiniteImage DEF IsReading
<1>3. \A T \in all : IsFiniteSet(T)
  BY <1>1
<1>4. Candidates(in) \in SUBSET UNION all
  BY DEF Candidates
<1>5. IsFiniteSet(UNION all)
  <2> HIDE DEF all
  <2> QED
    BY <1>2, <1>3, FS_UNION
<1> QED
  BY <1>4, <1>5, FS_Subset

-----------------------------------------------------------------------------
(* Ranks *)

LEMMA FirstLineIs ==
  ASSUME NEW in, IsReading(in), NEW a, a.items \in SUBSET DOMAIN in.line
  PROVE  FirstLine(a) \in Nat /\ \A i : a.items = {i} => FirstLine(a) = i
<1>1. CASE a.items = {}
  BY <1>1 DEF FirstLine
<1>2. CASE a.items # {}
  <2>1. a.items \in SUBSET Nat
    BY DEF IsReading
  <2>2. \E i \in a.items : \A j \in a.items : i <= j
    BY <1>2, <2>1, LeastNatural
  <2>3. FirstLine(a) \in a.items
    BY <1>2, <2>2 DEF FirstLine, Min
  <2> QED
    BY <2>1, <2>3
<1> QED
  BY <1>1, <1>2

LEMMA OutranksIs ==
  ASSUME NEW in, NEW a, NEW b
  PROVE  Outranks(in, a, b) <=>
           LET pa == in.rule[a.promotion].priority
               pb == in.rule[b.promotion].priority
           IN \/ pb < pa
              \/ pb = pa /\ b.amount < a.amount
              \/ pb = pa /\ b.amount = a.amount /\ a.promotion < b.promotion
              \/ /\ pb = pa /\ b.amount = a.amount /\ a.promotion = b.promotion
                 /\ FirstLine(a) < FirstLine(b)
<1> DEFINE before == <<in.rule[b.promotion].priority, b.amount, a.promotion, FirstLine(a)>>
           after == <<in.rule[a.promotion].priority, a.amount, b.promotion, FirstLine(b)>>
           Decides(n) == before[n] < after[n] /\ \A m \in 1..(n - 1) : before[m] = after[m]
<1>1. Outranks(in, a, b) <=> Decides(1) \/ Decides(2) \/ Decides(3) \/ Decides(4)
  <2>1. Outranks(in, a, b) <=> \E n \in 1..4 : Decides(n)
    BY DEF Outranks
  <2> HIDE DEF Decides
  <2> QED
    BY <2>1
<1>2. Decides(1) <=> before[1] < after[1]
  OBVIOUS
<1>3. Decides(2) <=> before[2] < after[2] /\ before[1] = after[1]
  <2>1. 1..(2 - 1) = {1}
    OBVIOUS
  <2> QED
    BY <2>1
<1>4. Decides(3) <=> before[3] < after[3] /\ before[1] = after[1] /\ before[2] = after[2]
  <2>1. 1..(3 - 1) = {1, 2}
    OBVIOUS
  <2> QED
    BY <2>1
<1>5. Decides(4) <=> /\ before[4] < after[4] /\ before[1] = after[1] /\ before[2] = after[2]
                     /\ before[3] = after[3]
  <2>1. 1..(4 - 1) = {1, 2, 3}
    OBVIOUS
  <2> QED
    BY <2>1
<1> HIDE DEF Decides
<1> QED
  BY <1>1, <1>2, <1>3, <1>4, <1>5

(* compareCandidates orders what it compares: of two candidates one outranks. *)
LEMMA RanksAreTotal ==
  ASSUME NEW in, IsReading(in), NEW c \in Candidates(in), NEW d \in Candidates(in), c # d
  PROVE  Outranks(in, c, d) \/ Outranks(in, d, c)
<1>1. IsCandidate(in, c) /\ IsCandidate(in, d) /\ c.promotion \in DOMAIN in.rule /\ d.promotion \in DOMAIN in.rule
  BY CandidateIs
<1>2. /\ c.items \in SUBSET DOMAIN in.line /\ d.items \in SUBSET DOMAIN in.line
      /\ c.amount \in Nat /\ d.amount \in Nat
  BY <1>1 DEF IsCandidate, IsApplication, ApplicationRow
<1>3. /\ in.rule[c.promotion].priority \in Int /\ in.rule[d.promotion].priority \in Int
      /\ c.promotion \in Nat /\ d.promotion \in Nat
  BY <1>1 DEF IsReading, IsRule
<1>4. FirstLine(c) \in Nat /\ FirstLine(d) \in Nat
  BY <1>2, FirstLineIs
<1>5. ASSUME c.promotion = d.promotion PROVE FirstLine(c) # FirstLine(d)
  <2>1. c.scope = "ITEM" /\ c.items # d.items
    BY <1>5, OneCandidatePerKey
  <2>2. d.scope = "ITEM"
    BY <1>1, <1>5, <2>1 DEF IsCandidate, IsApplication
  <2>3. PICK i : c.items = {i}
    BY <1>1, <2>1 DEF IsCandidate, IsApplication
  <2>4. PICK j : d.items = {j}
    BY <1>1, <2>2 DEF IsCandidate, IsApplication
  <2>5. FirstLine(c) = i /\ FirstLine(d) = j
    BY <1>2, <2>3, <2>4, FirstLineIs
  <2> QED
    BY <2>1, <2>3, <2>4, <2>5
<1> QED
  BY <1>2, <1>3, <1>4, <1>5, OutranksIs

LEMMA RanksAreTransitive ==
  ASSUME NEW in, IsReading(in),
         NEW c \in Candidates(in), NEW d \in Candidates(in), NEW e \in Candidates(in),
         Outranks(in, c, d), Outranks(in, d, e)
  PROVE  Outranks(in, c, e)
<1>1. \A x \in {c, d, e} : IsCandidate(in, x) /\ x.promotion \in DOMAIN in.rule
  BY CandidateIs
<1>2. \A x \in {c, d, e} : x.items \in SUBSET DOMAIN in.line /\ x.amount \in Nat
  BY <1>1 DEF IsCandidate, IsApplication, ApplicationRow
<1>3. \A x \in {c, d, e} : in.rule[x.promotion].priority \in Int /\ x.promotion \in Nat
  BY <1>1 DEF IsReading, IsRule
<1>4. \A x \in {c, d, e} : FirstLine(x) \in Nat
  BY <1>2, FirstLineIs
<1> QED
  BY <1>2, <1>3, <1>4, OutranksIs

(* So what is left of the candidates has a first and a last. *)
LEMMA RankedEnds ==
  ASSUME NEW in, IsReading(in), NEW cs \in SUBSET Candidates(in), cs # {}
  PROVE  /\ LowestRanked(in, cs) \in cs
         /\ \A d \in cs \ {LowestRanked(in, cs)} : Outranks(in, d, LowestRanked(in, cs))
         /\ HighestRanked(in, cs) \in cs
<1> DEFINE Up == {x \in cs \X cs : Outranks(in, x[1], x[2])}
           Down == {x \in cs \X cs : Outranks(in, x[2], x[1])}
<1>1. IsFiniteSet(cs)
  BY CandidatesFinite, FS_Subset
<1>2. \A c, d \in cs : (<<c, d>> \in Up <=> Outranks(in, c, d)) /\ (<<c, d>> \in Down <=> Outranks(in, d, c))
  OBVIOUS
<1> HIDE DEF Up, Down
<1>3. \A c, d \in cs : c # d => Outranks(in, c, d) \/ Outranks(in, d, c)
  BY RanksAreTotal
<1>4. \A c, d, e \in cs : Outranks(in, c, d) /\ Outranks(in, d, e) => Outranks(in, c, e)
  BY RanksAreTransitive
<1>5. \E c \in cs : \A d \in cs \ {c} : <<c, d>> \in Up
  BY <1>1, <1>2, <1>3, <1>4, FirstOfOrder
<1>6. \E c \in cs : \A d \in cs \ {c} : <<c, d>> \in Down
  BY <1>1, <1>2, <1>3, <1>4, FirstOfOrder
<1>7. \E c \in cs : \A d \in cs \ {c} : Outranks(in, c, d)
  BY <1>2, <1>5
<1>8. \E c \in cs : \A d \in cs \ {c} : Outranks(in, d, c)
  BY <1>2, <1>6
<1>9. HighestRanked(in, cs) \in cs
  BY <1>7 DEF HighestRanked
<1> QED
  BY <1>8, <1>9 DEF LowestRanked

-----------------------------------------------------------------------------
(* The resolution *)

Unresolved == [accepted |-> {}, pending |-> {}, alone |-> {}]

(* resolveCandidates, as a function of the candidates it has seen. *)
Resolves(in, k, C) ==
  \A s \in SUBSET C :
    k[s] = IF s = {} THEN Unresolved
           ELSE Resolved(in, LowestRanked(in, s), k[s \ {LowestRanked(in, s)}])

LEMMA ResolutionFolds ==
  ASSUME NEW in, IsReading(in), NEW C \in SUBSET Candidates(in)
  PROVE  \E k : Resolves(in, k, C) /\ ResolveCandidates(in, C) = Outcome(in, k[C])
<1> DEFINE Alone == {OnNet(in, {}, c) : c \in C}
           Stages == [accepted : SUBSET C, pending : SUBSET C, alone : SUBSET Alone]
           ch == [s \in SUBSET C |-> LowestRanked(in, s)]
           step == [x \in C \X Stages |-> Resolved(in, x[1], x[2])]
           Body(g) == [s \in SUBSET C |->
                         IF s = {} THEN Unresolved
                         ELSE Resolved(in, LowestRanked(in, s), g[s \ {LowestRanked(in, s)}])]
           K == CHOOSE g : g = Body(g)
<1>1. IsFiniteSet(C)
  BY CandidatesFinite, FS_Subset
<1>2. \A s \in SUBSET C : s # {} => LowestRanked(in, s) \in s
  BY RankedEnds
<1>3. \A s \in SUBSET C : s # {} => ch[s] \in s
  BY <1>2
<1>4. step \in [C \X Stages -> Stages]
  <2>1. ASSUME NEW c \in C, NEW x \in Stages PROVE Resolved(in, c, x) \in Stages
    <3>1. {t \in {OnNet(in, {}, c)} : /\ x.accepted = {} /\ t.amount > 0
                                      /\ ~\E u \in x.pending : Applies(in, {}, u)} \in SUBSET Alone
      OBVIOUS
    <3> HIDE DEF Alone
    <3> QED
      BY <3>1 DEF Resolved
  <2> HIDE DEF Stages
  <2> QED
    BY <2>1
<1>5. Unresolved \in Stages
  BY DEF Unresolved
<1>6. PICK k \in [SUBSET C -> Stages] : FoldsTo(k, C, Unresolved, ch, step)
  <2> HIDE DEF ch, step, Stages
  <2> QED
    BY <1>1, <1>3, <1>4, <1>5, FoldExists
<1>7. ASSUME NEW s \in SUBSET C, s # {}
      PROVE  k[s] = Resolved(in, LowestRanked(in, s), k[s \ {LowestRanked(in, s)}])
  <2>1. ch[s] = LowestRanked(in, s) /\ ch[s] \in C /\ s \ {ch[s]} \in SUBSET C
    BY <1>3, <1>7
  <2>2. k[s] = step[<<ch[s], k[s \ {ch[s]}]>>]
    <3> HIDE DEF ch, step, Stages
    <3> QED
      BY <1>6, <1>7 DEF FoldsTo
  <2>3. k[s \ {ch[s]}] \in Stages
    <3> HIDE DEF ch, Stages
    <3> QED
      BY <1>6, <2>1
  <2>4. <<ch[s], k[s \ {ch[s]}]>> \in C \X Stages
    <3> HIDE DEF ch, Stages
    <3> QED
      BY <2>1, <2>3
  <2>5. step[<<ch[s], k[s \ {ch[s]}]>>] = Resolved(in, ch[s], k[s \ {ch[s]}])
    <3> HIDE DEF ch, Stages
    <3> QED
      BY <2>4
  <2> HIDE DEF ch, step, Stages
  <2> QED
    BY <2>1, <2>2, <2>5
<1>8. k[{}] = Unresolved
  <2> HIDE DEF ch, step, Stages
  <2> QED
    BY <1>6 DEF FoldsTo
<1>9. k = Body(k)
  <2>1. ASSUME NEW s \in SUBSET C
        PROVE  k[s] = IF s = {} THEN Unresolved
                      ELSE Resolved(in, LowestRanked(in, s), k[s \ {LowestRanked(in, s)}])
    BY <1>7, <1>8
  <2>2. k \in [SUBSET C -> Stages]
    BY <1>6
  <2> HIDE DEF Stages
  <2> QED
    BY <2>1, <2>2
<1>10. K = Body(K)
  BY <1>9
<1>11. ResolveCandidates(in, C) = Outcome(in, K[C])
  BY DEF ResolveCandidates, MapThenFoldSet, Unresolved
<1> HIDE DEF K
<1>12. Resolves(in, K, C)
  BY <1>10 DEF Resolves
<1> QED
  BY <1>11, <1>12

(* Accepted candidates share no line, and whatever is neither accepted nor a total lost a *)
(* line to one that outranks it, unless an exclusive total ended the resolution.          *)
Apart(applications) == \A a, b \in applications : a # b => a.items \cap b.items = {}

LostTo(in, c, accepted) == \E d \in accepted : d.items \cap c.items # {} /\ Outranks(in, d, c)

StageIs(in, s, x) ==
  /\ x = [accepted |-> x.accepted, pending |-> x.pending, alone |-> x.alone]
  /\ x.accepted \in SUBSET s /\ x.pending \in SUBSET s
  /\ Apart(x.accepted) /\ \A a \in x.accepted : a.scope # "TOTAL"
  /\ \A u \in x.pending : u.scope = "TOTAL" /\ ~Exclusive(in, u)
  /\ \/ x.alone = {}
     \/ \E c \in s : /\ c.scope = "TOTAL" /\ Exclusive(in, c)
                     /\ TotalAmount(in, {}, c) > 0 /\ x.alone = {OnNet(in, {}, c)}
  /\ \A c \in s : c.scope # "TOTAL" =>
       x.alone # {} \/ c \in x.accepted \/ LostTo(in, c, x.accepted)

LEMMA StageGoesOn ==
  ASSUME NEW in, IsReading(in), NEW s \in SUBSET Candidates(in), NEW c \in s,
         \A d \in s \ {c} : Outranks(in, d, c), NEW x, StageIs(in, s \ {c}, x)
  PROVE  StageIs(in, s, Resolved(in, c, x))
<1>1. CASE x.alone # {}
  <2>1. Resolved(in, c, x) = x
    BY <1>1 DEF Resolved
  <2> QED
    BY <1>1, <2>1 DEF StageIs
<1>2. CASE x.alone = {} /\ c.scope # "TOTAL"
  <2>1. CASE Claims(c, x.accepted)
    <3>1. Resolved(in, c, x) = [x EXCEPT !.accepted = @ \cup {c}]
      BY <1>2, <2>1 DEF Resolved
    <3> DEFINE y == Resolved(in, c, x)
    <3>2. y = [accepted |-> x.accepted \cup {c}, pending |-> x.pending, alone |-> {}]
      BY <1>2, <3>1 DEF StageIs
    <3>3. \A a \in x.accepted : a.items \cap c.items = {}
      BY <2>1 DEF Claims, LinesOf
    <3> HIDE DEF y
    <3>4. Apart(y.accepted)
      BY <3>2, <3>3 DEF Apart, StageIs
    <3>5. \A d \in s : d.scope # "TOTAL" => d \in y.accepted \/ LostTo(in, d, y.accepted)
      BY <1>2, <3>2 DEF StageIs, LostTo
    <3>6. StageIs(in, s, y)
      BY <1>2, <3>2, <3>4, <3>5 DEF StageIs
    <3> QED
      BY <3>6 DEF y
  <2>2. CASE ~Claims(c, x.accepted)
    <3>1. Resolved(in, c, x) = x
      <4>1. Resolved(in, c, x) = IF Claims(c, x.accepted) THEN [x EXCEPT !.accepted = @ \cup {c}] ELSE x
        BY <1>2 DEF Resolved
      <4> QED
        BY <2>2, <4>1
    <3>2. PICK d \in x.accepted : d.items \cap c.items # {}
      BY <2>2 DEF Claims, LinesOf
    <3>3. Outranks(in, d, c)
      BY <3>2 DEF StageIs
    <3>4. LostTo(in, c, x.accepted)
      BY <3>2, <3>3 DEF LostTo
    <3> QED
      BY <1>2, <3>1, <3>4 DEF StageIs
  <2> QED
    BY <2>1, <2>2
<1>3. CASE x.alone = {} /\ c.scope = "TOTAL" /\ ~Exclusive(in, c)
  <2>1. Resolved(in, c, x) = [x EXCEPT !.pending = @ \cup {c}]
    BY <1>3 DEF Resolved
  <2> DEFINE y == Resolved(in, c, x)
  <2>2. y = [accepted |-> x.accepted, pending |-> x.pending \cup {c}, alone |-> {}]
    BY <1>3, <2>1 DEF StageIs
  <2> HIDE DEF y
  <2>3. StageIs(in, s, y)
    BY <1>3, <2>2 DEF StageIs
  <2> QED
    BY <2>3 DEF y
<1>4. CASE x.alone = {} /\ c.scope = "TOTAL" /\ Exclusive(in, c)
  <2> DEFINE found == {t \in {OnNet(in, {}, c)} : /\ x.accepted = {} /\ t.amount > 0
                                                  /\ ~\E u \in x.pending : Applies(in, {}, u)}
             y == Resolved(in, c, x)
  <2>1. y = [x EXCEPT !.alone = found]
    BY <1>4 DEF Resolved
  <2>2. y = [accepted |-> x.accepted, pending |-> x.pending, alone |-> found]
    BY <2>1 DEF StageIs
  <2>3. found = {} \/ (found = {OnNet(in, {}, c)} /\ OnNet(in, {}, c).amount > 0)
    OBVIOUS
  <2>4. OnNet(in, {}, c).amount = TotalAmount(in, {}, c)
    <3>1. c \in ApplicationRow(in)
      BY CandidateIs DEF IsCandidate, IsApplication
    <3> QED
      BY <3>1 DEF OnNet, ApplicationRow
  <2> HIDE DEF y, found
  <2>5. StageIs(in, s, y)
    BY <1>4, <2>2, <2>3, <2>4 DEF StageIs
  <2> QED
    BY <2>5 DEF y
<1> QED
  BY <1>1, <1>2, <1>3, <1>4

LEMMA StagesAre ==
  ASSUME NEW in, IsReading(in), NEW C \in SUBSET Candidates(in), NEW k, Resolves(in, k, C)
  PROVE  \A s \in SUBSET C : StageIs(in, s, k[s])
<1> DEFINE Bad == {s \in SUBSET C : ~StageIs(in, s, k[s])}
<1>1. SUFFICES ASSUME Bad # {} PROVE FALSE
  OBVIOUS
<1>2. IsFiniteSet(C)
  BY CandidatesFinite, FS_Subset
<1>3. PICK T \in Bad : \A U \in SUBSET T : U # T => U \notin Bad
  <2>1. Bad \in SUBSET (SUBSET C)
    OBVIOUS
  <2> HIDE DEF Bad
  <2> QED
    BY <1>1, <1>2, <2>1, SmallestSubset
<1>4. T # {}
  <2>1. StageIs(in, {}, Unresolved)
    BY DEF StageIs, Unresolved, Apart
  <2>2. k[{}] = Unresolved
    BY DEF Resolves
  <2> QED
    BY <2>1, <2>2
<1> DEFINE c == LowestRanked(in, T)
<1>5. c \in T /\ \A d \in T \ {c} : Outranks(in, d, c)
  BY <1>4, RankedEnds
<1>6. k[T] = Resolved(in, c, k[T \ {c}])
  BY <1>4 DEF Resolves
<1> HIDE DEF c
<1>7. StageIs(in, T \ {c}, k[T \ {c}])
  <2>1. T \ {c} \in SUBSET T /\ T \ {c} # T /\ T \ {c} \in SUBSET C
    BY <1>5
  <2>2. T \ {c} \notin Bad
    <3> HIDE DEF Bad
    <3> QED
      BY <1>3, <2>1
  <2> QED
    BY <2>1, <2>2
<1>8. T \in SUBSET Candidates(in)
  OBVIOUS
<1>9. StageIs(in, T, k[T])
  BY <1>5, <1>6, <1>7, <1>8, StageGoesOn
<1> QED
  BY <1>9

(* What a total takes off is a number, whatever was accepted before it. *)
LEMMA TotalAmountIs ==
  ASSUME NEW in, IsReading(in), NEW accepted, IsFiniteSet(accepted),
         \A a \in accepted : a.amount \in Nat, NEW c, c.value \in Nat
  PROVE  TotalAmount(in, accepted, c) \in Nat
<1> DEFINE exclusive == {a \in accepted : Exclusive(in, a)}
           locked == LinesOf(exclusive)
           open == PricedLines(in.line) \ locked
           taken == AmountsOf(accepted \ exclusive)
           held == {h \in in.held : h.items \cap locked = {}}
           named == {h \in held : h.items # {}}
           base == NotNegative(SumLines(in.line, open) - taken - AmountsOf(named))
           headroom == NotNegative(SumHeadroom(in.line, open) - taken - AmountsOf(held))
           least == in.rule[c.promotion].minTotal
<1>1. open \in SUBSET DOMAIN in.line
  BY DEF PricedLines
<1>2. SumLines(in.line, open) \in Nat /\ SumHeadroom(in.line, open) \in Nat
  <2> HIDE DEF open
  <2> QED
    BY <1>1, SumsAre DEF IsReading
<1>3. taken \in Nat
  <2>1. accepted \ exclusive \in SUBSET accepted
    OBVIOUS
  <2>2. IsFiniteSet(accepted \ exclusive)
    BY <2>1, FS_Subset
  <2> HIDE DEF exclusive
  <2> QED
    BY <2>1, <2>2, AmountsSum
<1>4. \A H \in SUBSET in.held : AmountsOf(H) \in Nat
  <2>1. \A H \in SUBSET in.held : IsFiniteSet(H) /\ \A h \in H : h.amount \in Nat
    BY FS_Subset DEF IsReading
  <2> QED
    BY <2>1, AmountsSum
<1>5. AmountsOf(held) \in Nat /\ AmountsOf(named) \in Nat
  <2>1. held \in SUBSET in.held /\ named \in SUBSET in.held
    OBVIOUS
  <2> HIDE DEF held, named
  <2> QED
    BY <1>4, <2>1
<1> HIDE DEF open, taken, held, named
<1>6. base \in Nat /\ headroom \in Nat
  BY <1>2, <1>3, <1>5, NotNegativeIs
<1> HIDE DEF base, headroom
<1>7. BaseAmount(c.action, c.value, base) \in Nat
  BY <1>6, BaseAmountIs
<1>8. AtMost(BaseAmount(c.action, c.value, base), headroom) \in Nat
  BY <1>6, <1>7, AtMostIs
<1>9. \/ TotalAmount(in, accepted, c) = 0
      \/ TotalAmount(in, accepted, c) = AtMost(BaseAmount(c.action, c.value, base), headroom)
  BY DEF TotalAmount, NetAmount, open, taken, held, named, base, headroom
<1> QED
  BY <1>8, <1>9

LEMMA OnNetIs ==
  ASSUME NEW in, IsReading(in), NEW accepted, IsFiniteSet(accepted),
         \A a \in accepted : a.amount \in Nat, NEW c \in Candidates(in)
  PROVE  LET a == OnNet(in, accepted, c)
         IN /\ IsApplication(in, a) /\ Key(a) = Key(c) /\ a.items = c.items /\ a.scope = c.scope
            /\ a.promotion = c.promotion /\ a.amount = TotalAmount(in, accepted, c)
<1> DEFINE a == OnNet(in, accepted, c)
<1>1. IsApplication(in, c)
  BY CandidateIs DEF IsCandidate
<1>2. TotalAmount(in, accepted, c) \in Nat
  BY <1>1, TotalAmountIs DEF IsApplication, ApplicationRow
<1>3. a = [promotion |-> c.promotion, scope |-> c.scope, action |-> c.action, value |-> c.value,
           amount |-> TotalAmount(in, accepted, c), items |-> c.items]
  BY <1>1 DEF OnNet, IsApplication, ApplicationRow
<1> HIDE DEF a
<1>4. a \in ApplicationRow(in)
  BY <1>1, <1>2, <1>3 DEF IsApplication, ApplicationRow
<1>5. Key(a) = Key(c)
  BY <1>3 DEF Key
<1>6. IsApplication(in, a)
  BY <1>1, <1>3, <1>4 DEF IsApplication
<1> QED
  BY <1>3, <1>5, <1>6 DEF a

(* What a resolution returns: applications of its candidates, no two on a line and no two *)
(* totals, an exclusive total alone, for every candidate on lines that it passes over one *)
(* that took a line from it or the whole quote, and a total on what the rest left.        *)
IsResolution(in, C, E) ==
  /\ IsFiniteSet(E) /\ \A a \in E : IsApplication(in, a)
  /\ \A a \in E : a.items # {} => a \in C
  /\ \A a \in E : \E c \in C : Key(a) = Key(c)
  /\ \A a, b \in E : a # b => a.items \cap b.items = {} /\ (a.items # {} \/ b.items # {})
  /\ \A a \in E : a.items = {} /\ Exclusive(in, a) => E = {a}
  /\ \A c \in C : c.scope # "TOTAL" =>
       c \in E \/ LostTo(in, c, E) \/ \E a \in E : a.items = {} /\ Exclusive(in, a)
  /\ \A a \in E : a.items = {} =>
       a.amount > 0 /\ \E c \in C : a.amount = TotalAmount(in, E \ {a}, c)

LEMMA Resolution ==
  ASSUME NEW in, IsReading(in), NEW C \in SUBSET Candidates(in)
  PROVE  IsResolution(in, C, ResolveCandidates(in, C))
<1> DEFINE E == ResolveCandidates(in, C)
<1>1. PICK k : Resolves(in, k, C) /\ E = Outcome(in, k[C])
  BY ResolutionFolds
<1> HIDE DEF E
<1> DEFINE x == k[C]
<1>2. StageIs(in, C, x)
  BY <1>1, StagesAre
<1>3. E = IF x.alone # {} THEN x.alone ELSE WithTotal(in, x)
  BY <1>1 DEF Outcome
<1> HIDE DEF x
<1>4. \A c \in C : IsApplication(in, c)
  BY CandidateIs DEF IsCandidate
<1>5. \A a \in x.accepted : a \in C /\ a.items # {} /\ a.amount \in Nat
  BY <1>2, <1>4 DEF StageIs, IsApplication, ApplicationRow
<1>6. IsFiniteSet(x.accepted)
  <2>1. IsFiniteSet(C) /\ x.accepted \in SUBSET C
    BY <1>2, CandidatesFinite, FS_Subset DEF StageIs
  <2> QED
    BY <2>1, FS_Subset
<1>7. CASE x.alone # {}
  <2>1. PICK c \in C : /\ c.scope = "TOTAL" /\ Exclusive(in, c)
                       /\ TotalAmount(in, {}, c) > 0 /\ x.alone = {OnNet(in, {}, c)}
    BY <1>2, <1>7 DEF StageIs
  <2> DEFINE a == OnNet(in, {}, c)
  <2>2. IsFiniteSet({}) /\ c \in Candidates(in)
    BY FS_EmptySet
  <2>3. /\ IsApplication(in, a) /\ Key(a) = Key(c) /\ a.items = c.items
        /\ a.promotion = c.promotion /\ a.amount = TotalAmount(in, {}, c)
    BY <2>2, OnNetIs
  <2>4. E = {a}
    BY <1>3, <1>7, <2>1
  <2>5. a.items = {} /\ Exclusive(in, a)
    BY <1>4, <2>1, <2>3 DEF IsApplication, Exclusive
  <2> HIDE DEF a
  <2>6. IsFiniteSet(E) /\ E \ {a} = {}
    BY <2>4, FS_Singleton
  <2> QED
    BY <2>1, <2>3, <2>4, <2>5, <2>6 DEF IsResolution, E
<1>8. CASE x.alone = {} /\ E = x.accepted
  <2>1. \A c \in C : c.scope # "TOTAL" => c \in E \/ LostTo(in, c, E)
    BY <1>2, <1>8 DEF StageIs
  <2> QED
    BY <1>2, <1>4, <1>5, <1>6, <1>8, <2>1 DEF IsResolution, E, StageIs, Apart
<1>9. CASE x.alone = {} /\ E # x.accepted
  <2> DEFINE viable == {c \in x.pending : Applies(in, x.accepted, c)}
             c == HighestRanked(in, viable)
             a == OnNet(in, x.accepted, c)
  <2>1. viable # {} /\ E = x.accepted \cup {a}
    BY <1>3, <1>9 DEF WithTotal
  <2>2. c \in viable /\ c \in C /\ c \in Candidates(in)
    <3>1. viable \in SUBSET C
      BY <1>2 DEF StageIs
    <3> HIDE DEF viable
    <3> QED
      BY <2>1, <3>1, RankedEnds
  <2>3. c.scope = "TOTAL" /\ ~Exclusive(in, c) /\ TotalAmount(in, x.accepted, c) > 0
    BY <1>2, <2>2 DEF StageIs, Applies
  <2> HIDE DEF viable, c
  <2>4. /\ IsApplication(in, a) /\ Key(a) = Key(c) /\ a.items = c.items
        /\ a.promotion = c.promotion /\ a.amount = TotalAmount(in, x.accepted, c)
    BY <1>5, <1>6, <2>2, OnNetIs
  <2>5. a.items = {} /\ ~Exclusive(in, a)
    BY <1>4, <2>2, <2>3, <2>4 DEF IsApplication, Exclusive
  <2> HIDE DEF a
  <2>6. E \ {a} = x.accepted /\ a \notin x.accepted
    BY <1>5, <2>1, <2>5
  <2>7. IsFiniteSet(E) /\ \A b \in E : IsApplication(in, b)
    BY <1>4, <1>5, <1>6, <2>1, <2>4, FS_AddElement
  <2>8. \A d \in C : d.scope # "TOTAL" => d \in E \/ LostTo(in, d, E)
    BY <1>2, <1>9, <2>1 DEF StageIs, LostTo
  <2>9. \A b, d \in E : b # d => b.items \cap d.items = {} /\ (b.items # {} \/ d.items # {})
    BY <1>2, <1>5, <2>1, <2>5 DEF StageIs, Apart
  <2>10. \A b \in E : b.items = {} => b = a
    BY <1>5, <2>1
  <2>11. \A b \in E : (b.items # {} => b \in C) /\ \E d \in C : Key(b) = Key(d)
    BY <1>5, <2>1, <2>2, <2>4, <2>5
  <2> QED
    BY <2>2, <2>3, <2>4, <2>5, <2>6, <2>7, <2>8, <2>9, <2>10, <2>11 DEF IsResolution, E
<1> QED
  BY <1>7, <1>8, <1>9

-----------------------------------------------------------------------------
(* More of sums *)

LEMMA SumSame ==
  ASSUME NEW X, IsFiniteSet(X), NEW h, NEW j, \A x \in X : h[x] \in Nat /\ h[x] = j[x]
  PROVE  SumOf(h, X) = SumOf(j, X)
<1>1. PICK l \in [SUBSET X -> Nat] : Adds(j, l, X)
  BY AddsExists
<1>2. l[X] = SumOf(j, X) /\ l[X] = SumOf(h, X)
  BY <1>1, SumIs
<1> QED
  BY <1>2

LEMMA SumOfUnion ==
  ASSUME NEW X, IsFiniteSet(X), NEW Y, IsFiniteSet(Y), X \cap Y = {}, NEW h,
         \A x \in X \cup Y : h[x] \in Nat
  PROVE  SumOf(h, X \cup Y) = SumOf(h, X) + SumOf(h, Y)
<1> DEFINE Bad == {s \in SUBSET X : SumOf(h, s \cup Y) # SumOf(h, s) + SumOf(h, Y)}
<1>1. SUFFICES ASSUME Bad # {} PROVE FALSE
  OBVIOUS
<1>2. PICK T \in Bad : \A U \in SUBSET T : U # T => U \notin Bad
  <2>1. Bad \in SUBSET (SUBSET X)
    OBVIOUS
  <2> HIDE DEF Bad
  <2> QED
    BY <1>1, <2>1, SmallestSubset
<1>3. \A s \in SUBSET X : /\ IsFiniteSet(s) /\ IsFiniteSet(s \cup Y)
                          /\ SumOf(h, s) \in Nat /\ SumOf(h, s \cup Y) \in Nat
  <2>1. \A s \in SUBSET X : IsFiniteSet(s) /\ IsFiniteSet(s \cup Y)
    BY FS_Subset, FS_Union
  <2> QED
    BY <2>1, SumIs
<1>4. SumOf(h, Y) \in Nat
  BY SumIs
<1>5. T # {}
  <2>1. SumOf(h, {} \cup Y) = SumOf(h, {}) + SumOf(h, Y)
    BY <1>4, SumOfNone
  <2> QED
    BY <2>1
<1>6. PICK x \in T : TRUE
  BY <1>5
<1>7. T \ {x} \in SUBSET T /\ T \ {x} # T /\ T \ {x} \in SUBSET X /\ T \in SUBSET X
  OBVIOUS
<1>8. SumOf(h, (T \ {x}) \cup Y) = SumOf(h, T \ {x}) + SumOf(h, Y)
  <2>1. T \ {x} \notin Bad
    <3> HIDE DEF Bad
    <3> QED
      BY <1>2, <1>7
  <2> QED
    BY <1>7, <2>1
<1>9. (T \ {x}) \cup Y = (T \cup Y) \ {x}
  BY <1>7
<1>10. SumOf(h, T) = h[x] + SumOf(h, T \ {x})
  BY <1>3, <1>7, SumSplits
<1>11. SumOf(h, T \cup Y) = h[x] + SumOf(h, (T \cup Y) \ {x})
  BY <1>3, <1>7, SumSplits
<1>12. h[x] \in Nat /\ SumOf(h, T \ {x}) \in Nat
  BY <1>3, <1>7
<1> DEFINE rest == SumOf(h, (T \ {x}) \cup Y)
<1>13. SumOf(h, T \cup Y) = h[x] + rest
  BY <1>9, <1>11
<1>14. SumOf(h, T \cup Y) = SumOf(h, T) + SumOf(h, Y)
  <2>1. rest = SumOf(h, T \ {x}) + SumOf(h, Y)
    BY <1>8
  <2> HIDE DEF rest
  <2> QED
    BY <1>4, <1>10, <1>12, <1>13, <2>1
<1> QED
  BY <1>14

LEMMA SumOfImage ==
  ASSUME NEW X, IsFiniteSet(X), NEW h, \A x \in X : h[x] \in Nat,
         NEW f, \A x, y \in X : f[x] = f[y] => x = y, NEW j, \A x \in X : j[f[x]] = h[x]
  PROVE  SumOf(j, {f[x] : x \in X}) = SumOf(h, X)
<1> DEFINE Image(s) == {f[x] : x \in s}
           Bad == {s \in SUBSET X : SumOf(j, Image(s)) # SumOf(h, s)}
<1>1. SUFFICES ASSUME Bad # {} PROVE FALSE
  OBVIOUS
<1>2. PICK T \in Bad : \A U \in SUBSET T : U # T => U \notin Bad
  <2>1. Bad \in SUBSET (SUBSET X)
    OBVIOUS
  <2> HIDE DEF Bad
  <2> QED
    BY <1>1, <2>1, SmallestSubset
<1>3. \A s \in SUBSET X : IsFiniteSet(s) /\ IsFiniteSet(Image(s)) /\ \A y \in Image(s) : j[y] \in Nat
  BY FS_Subset, FiniteImage
<1>4. T # {}
  <2>1. Image({}) = {}
    OBVIOUS
  <2> QED
    BY <2>1, SumOfNone
<1>5. PICK x \in T : TRUE
  BY <1>4
<1>6. T \ {x} \in SUBSET T /\ T \ {x} # T /\ T \ {x} \in SUBSET X /\ T \in SUBSET X
  OBVIOUS
<1>7. SumOf(j, Image(T \ {x})) = SumOf(h, T \ {x})
  <2>1. T \ {x} \notin Bad
    <3> HIDE DEF Bad
    <3> QED
      BY <1>2, <1>6
  <2> QED
    BY <1>6, <2>1
<1>8. Image(T \ {x}) = Image(T) \ {f[x]} /\ f[x] \in Image(T)
  BY <1>6
<1> HIDE DEF Image
<1>9. SumOf(j, Image(T)) = j[f[x]] + SumOf(j, Image(T) \ {f[x]})
  BY <1>3, <1>6, <1>8, SumSplits
<1>10. SumOf(h, T) = h[x] + SumOf(h, T \ {x})
  BY <1>3, <1>6, SumSplits
<1>11. j[f[x]] = h[x]
  BY <1>6
<1> QED
  BY <1>7, <1>8, <1>9, <1>10, <1>11

LEMMA NoAmounts ==
  /\ AmountsOf({}) = 0
  /\ \A a : a.amount \in Nat => AmountsOf({a}) = a.amount
<1>1. AmountsOf({}) = 0
  <2>1. IsFiniteSet({}) /\ \A a \in {} : a.amount \in Nat
    BY FS_EmptySet
  <2> QED
    BY <2>1, AmountsAre, SumOfNone
<1>2. ASSUME NEW a, a.amount \in Nat PROVE AmountsOf({a}) = a.amount
  <2>1. IsFiniteSet({a}) /\ \A b \in {a} : b.amount \in Nat /\ Amounts({a})[b] \in Nat
    BY <1>2, FS_Singleton DEF Amounts
  <2>2. SumOf(Amounts({a}), {a}) = Amounts({a})[a] + SumOf(Amounts({a}), {a} \ {a})
    BY <2>1, SumSplits
  <2>3. {a} \ {a} = {} /\ Amounts({a})[a] = a.amount
    BY DEF Amounts
  <2>4. AmountsOf({a}) = SumOf(Amounts({a}), {a})
    BY <2>1, AmountsAre
  <2> QED
    BY <1>2, <2>2, <2>3, <2>4, SumOfNone
<1> QED
  BY <1>1, <1>2

LEMMA AmountsUnion ==
  ASSUME NEW X, IsFiniteSet(X), NEW Y, IsFiniteSet(Y), X \cap Y = {},
         \A a \in X \cup Y : a.amount \in Nat
  PROVE  AmountsOf(X \cup Y) = AmountsOf(X) + AmountsOf(Y)
<1> DEFINE h == Amounts(X \cup Y)
<1>1. \A a \in X \cup Y : h[a] = a.amount /\ h[a] \in Nat
  BY DEF Amounts
<1>2. \A a \in X : Amounts(X)[a] = a.amount
  BY DEF Amounts
<1>3. \A a \in Y : Amounts(Y)[a] = a.amount
  BY DEF Amounts
<1> HIDE DEF h
<1>4. SumOf(h, X) = SumOf(Amounts(X), X) /\ SumOf(h, Y) = SumOf(Amounts(Y), Y)
  BY <1>1, <1>2, <1>3, SumSame
<1>5. AmountsOf(X \cup Y) = SumOf(h, X \cup Y)
  BY FS_Union, AmountsAre DEF h
<1>6. SumOf(h, X \cup Y) = SumOf(h, X) + SumOf(h, Y)
  BY <1>1, SumOfUnion
<1> QED
  BY <1>4, <1>5, <1>6, AmountsAre

LEMMA AmountsImage ==
  ASSUME NEW X, IsFiniteSet(X), \A a \in X : a.amount \in Nat,
         NEW f, \A a, b \in X : f[a] = f[b] => a = b, \A a \in X : f[a].amount = a.amount
  PROVE  AmountsOf({f[a] : a \in X}) = AmountsOf(X)
<1> DEFINE Y == {f[a] : a \in X}
<1>1. IsFiniteSet(Y)
  BY FiniteImage
<1>2. \A b \in Y : b.amount \in Nat
  OBVIOUS
<1>3. \A a \in X : Amounts(X)[a] = a.amount /\ Amounts(X)[a] \in Nat
  BY DEF Amounts
<1>4. \A a \in X : f[a] \in Y
  OBVIOUS
<1>5. \A a \in X : Amounts(Y)[f[a]] = Amounts(X)[a]
  <2> HIDE DEF Y
  <2> QED
    BY <1>3, <1>4 DEF Amounts
<1> DEFINE h == Amounts(X)
           j == Amounts(Y)
<1>6. SumOf(j, Y) = SumOf(h, X)
  <2>1. \A a \in X : j[f[a]] = h[a] /\ h[a] \in Nat
    BY <1>3, <1>5
  <2> HIDE DEF h, j
  <2> QED
    BY <2>1, SumOfImage
<1> HIDE DEF Y
<1>7. AmountsOf(Y) = SumOf(Amounts(Y), Y) /\ AmountsOf(X) = SumOf(Amounts(X), X)
  BY <1>1, <1>2, AmountsAre
<1> QED
  BY <1>6, <1>7 DEF Y

LEMMA HeadroomUnion ==
  ASSUME NEW line, IsFiniteSet(DOMAIN line), \A i \in DOMAIN line : IsLine(line[i]),
         NEW X \in SUBSET DOMAIN line, NEW Y \in SUBSET DOMAIN line, X \cap Y = {}
  PROVE  SumHeadroom(line, X \cup Y) = SumHeadroom(line, X) + SumHeadroom(line, Y)
<1> DEFINE h == Headrooms(line, X \cup Y)
<1>1. IsFiniteSet(X) /\ IsFiniteSet(Y) /\ IsFiniteSet(X \cup Y)
  BY FS_Subset, FS_Union
<1>2. \A i \in X \cup Y : Headroom(line[i]) \in Nat
  BY LineIs
<1>3. \A i \in X \cup Y : h[i] = Headroom(line[i]) /\ h[i] \in Nat
  BY <1>2 DEF Headrooms
<1>4. \A i \in X : Headrooms(line, X)[i] = Headroom(line[i])
  BY DEF Headrooms
<1>5. \A i \in Y : Headrooms(line, Y)[i] = Headroom(line[i])
  BY DEF Headrooms
<1>6. SumHeadroom(line, X \cup Y) = SumOf(h, X \cup Y)
  BY <1>1, <1>2, HeadroomsAre
<1> HIDE DEF h
<1>7. SumOf(h, X) = SumOf(Headrooms(line, X), X) /\ SumOf(h, Y) = SumOf(Headrooms(line, Y), Y)
  BY <1>1, <1>3, <1>4, <1>5, SumSame
<1>8. SumOf(h, X \cup Y) = SumOf(h, X) + SumOf(h, Y)
  BY <1>1, <1>3, SumOfUnion
<1>9. /\ SumHeadroom(line, X) = SumOf(Headrooms(line, X), X)
      /\ SumHeadroom(line, Y) = SumOf(Headrooms(line, Y), Y)
  BY <1>1, <1>2, HeadroomsAre
<1> QED
  BY <1>6, <1>7, <1>8, <1>9

-----------------------------------------------------------------------------
(* Floors *)

LEMMA DisjointAmounts ==
  ASSUME NEW line, IsFiniteSet(DOMAIN line), \A i \in DOMAIN line : IsLine(line[i]),
         NEW X, IsFiniteSet(X), Apart(X),
         \A a \in X : /\ a.amount \in Nat /\ a.items \in SUBSET DOMAIN line
                      /\ a.amount <= SumHeadroom(line, a.items)
  PROVE  AmountsOf(X) <= SumHeadroom(line, LinesOf(X))
<1> DEFINE Bad == {s \in SUBSET X : ~(AmountsOf(s) <= SumHeadroom(line, LinesOf(s)))}
<1>1. SUFFICES ASSUME Bad # {} PROVE FALSE
  OBVIOUS
<1>2. PICK T \in Bad : \A U \in SUBSET T : U # T => U \notin Bad
  <2>1. Bad \in SUBSET (SUBSET X)
    OBVIOUS
  <2> HIDE DEF Bad
  <2> QED
    BY <1>1, <2>1, SmallestSubset
<1>3. \A s \in SUBSET X : /\ IsFiniteSet(s) /\ AmountsOf(s) \in Nat
                          /\ LinesOf(s) \in SUBSET DOMAIN line /\ SumHeadroom(line, LinesOf(s)) \in Nat
  <2>1. \A s \in SUBSET X : IsFiniteSet(s) /\ \A a \in s : a.amount \in Nat
    BY FS_Subset
  <2>2. \A s \in SUBSET X : AmountsOf(s) \in Nat
    BY <2>1, AmountsSum
  <2>3. \A s \in SUBSET X : LinesOf(s) \in SUBSET DOMAIN line
    BY DEF LinesOf
  <2> QED
    BY <2>1, <2>2, <2>3, SumsAre
<1>4. T # {}
  <2>1. {} \in SUBSET X
    OBVIOUS
  <2>2. AmountsOf({}) = 0 /\ SumHeadroom(line, LinesOf({})) \in Nat
    BY <1>3, <2>1, NoAmounts
  <2>3. AmountsOf({}) <= SumHeadroom(line, LinesOf({}))
    BY <2>2
  <2> QED
    BY <2>3
<1>5. PICK a \in T : TRUE
  BY <1>4
<1>6. T \ {a} \in SUBSET T /\ T \ {a} # T /\ T \ {a} \in SUBSET X /\ T \in SUBSET X /\ a \in X
  OBVIOUS
<1>7. AmountsOf(T \ {a}) <= SumHeadroom(line, LinesOf(T \ {a}))
  <2>1. T \ {a} \notin Bad
    <3> HIDE DEF Bad
    <3> QED
      BY <1>2, <1>6
  <2> QED
    BY <1>6, <2>1
<1>8. AmountsOf(T) = AmountsOf(T \ {a}) + a.amount
  <2>1. IsFiniteSet({a}) /\ (T \ {a}) \cup {a} = T /\ (T \ {a}) \cap {a} = {}
    BY <1>6, FS_Singleton
  <2>2. IsFiniteSet(T \ {a}) /\ \A b \in (T \ {a}) \cup {a} : b.amount \in Nat
    BY <1>3, <1>6
  <2>3. AmountsOf((T \ {a}) \cup {a}) = AmountsOf(T \ {a}) + AmountsOf({a})
    BY <2>1, <2>2, AmountsUnion
  <2> QED
    BY <1>6, <2>1, <2>3, NoAmounts
<1>9. SumHeadroom(line, LinesOf(T)) = SumHeadroom(line, LinesOf(T \ {a})) + SumHeadroom(line, a.items)
  <2>1. LinesOf(T) = LinesOf(T \ {a}) \cup a.items
    BY <1>6 DEF LinesOf
  <2>2. LinesOf(T \ {a}) \cap a.items = {}
    BY <1>6 DEF LinesOf, Apart
  <2>3. LinesOf(T \ {a}) \in SUBSET DOMAIN line /\ a.items \in SUBSET DOMAIN line
    BY <1>3, <1>6
  <2> QED
    BY <2>1, <2>2, <2>3, HeadroomUnion
<1>10. a.amount \in Nat /\ a.amount <= SumHeadroom(line, a.items) /\ SumHeadroom(line, a.items) \in Nat
  BY <1>6, SumsAre
<1>11. /\ AmountsOf(T \ {a}) \in Nat /\ SumHeadroom(line, LinesOf(T \ {a})) \in Nat
  BY <1>3, <1>6
<1>12. AmountsOf(T) <= SumHeadroom(line, LinesOf(T))
  BY <1>7, <1>8, <1>9, <1>10, <1>11
<1> QED
  BY <1>12

(* An application on lines leaves their floors to what the seller took off beside it. *)
LEMMA LinesKeepFloors ==
  ASSUME NEW in, IsReading(in), NEW c \in Candidates(in), c.items # {}
  PROVE  c.amount + AmountsOf({h \in in.held : h.items \cap c.items # {}}) <= SumHeadroom(in.line, c.items)
<1> DEFINE held == {h \in in.held : h.items \cap c.items # {}}
<1>1. /\ c.amount \in Nat /\ c.items \in SUBSET DOMAIN in.line
      /\ c.amount > 0 /\ c.amount <= RemainingHeadroom(in, c.items)
  BY CandidateIs DEF IsCandidate, IsApplication, ApplicationRow
<1>2. IsFiniteSet(held) /\ \A h \in held : h.amount \in Nat
  BY FS_Subset DEF IsReading
<1>3. AmountsOf(held) \in Nat
  <2> HIDE DEF held
  <2> QED
    BY <1>2, AmountsSum
<1>4. SumHeadroom(in.line, c.items) \in Nat
  BY <1>1, SumsAre DEF IsReading
<1>5. RemainingHeadroom(in, c.items) = NotNegative(SumHeadroom(in.line, c.items) - AmountsOf(held))
  BY DEF RemainingHeadroom
<1> HIDE DEF held
<1>6. c.amount + AmountsOf(held) <= SumHeadroom(in.line, c.items)
  BY <1>1, <1>3, <1>4, <1>5, NotNegativeIs
<1> QED
  BY <1>6 DEF held

(* A total takes no more than the open lines have left beside what was accepted on them. *)
LEMMA TotalsKeepFloors ==
  ASSUME NEW in, IsReading(in), NEW accepted, IsFiniteSet(accepted),
         \A a \in accepted : a.amount \in Nat, NEW c, c.value \in Nat,
         TotalAmount(in, accepted, c) > 0
  PROVE  LET exclusive == {a \in accepted : Exclusive(in, a)}
         IN TotalAmount(in, accepted, c) + AmountsOf(accepted \ exclusive)
              <= SumHeadroom(in.line, PricedLines(in.line) \ LinesOf(exclusive))
<1> DEFINE exclusive == {a \in accepted : Exclusive(in, a)}
           locked == LinesOf(exclusive)
           open == PricedLines(in.line) \ locked
           taken == AmountsOf(accepted \ exclusive)
           held == {h \in in.held : h.items \cap locked = {}}
           base == NotNegative(SumLines(in.line, open) - taken - AmountsOf({h \in held : h.items # {}}))
           headroom == NotNegative(SumHeadroom(in.line, open) - taken - AmountsOf(held))
<1>1. SumHeadroom(in.line, open) \in Nat /\ SumLines(in.line, open) \in Nat
  <2>1. open \in SUBSET DOMAIN in.line
    BY DEF PricedLines
  <2> HIDE DEF open
  <2> QED
    BY <2>1, SumsAre DEF IsReading
<1>2. taken \in Nat
  <2>1. accepted \ exclusive \in SUBSET accepted
    OBVIOUS
  <2>2. IsFiniteSet(accepted \ exclusive)
    BY <2>1, FS_Subset
  <2> HIDE DEF exclusive
  <2> QED
    BY <2>1, <2>2, AmountsSum
<1>3. \A H \in SUBSET in.held : AmountsOf(H) \in Nat
  <2>1. \A H \in SUBSET in.held : IsFiniteSet(H) /\ \A h \in H : h.amount \in Nat
    BY FS_Subset DEF IsReading
  <2> QED
    BY <2>1, AmountsSum
<1>4. AmountsOf(held) \in Nat /\ AmountsOf({h \in held : h.items # {}}) \in Nat
  BY <1>3
<1> HIDE DEF open, taken, held
<1>5. base \in Nat
  BY <1>1, <1>2, <1>4, NotNegativeIs
<1>6. BaseAmount(c.action, c.value, base) \in Nat
  <2> HIDE DEF base
  <2> QED
    BY <1>5, BaseAmountIs
<1>7. headroom \in Nat /\ (headroom > 0 => headroom = SumHeadroom(in.line, open) - taken - AmountsOf(held))
  BY <1>1, <1>2, <1>4, NotNegativeIs
<1>8. TotalAmount(in, accepted, c) = AtMost(BaseAmount(c.action, c.value, base), headroom)
  BY DEF TotalAmount, NetAmount, open, taken, held
<1> HIDE DEF base, headroom
<1>9. TotalAmount(in, accepted, c) \in Nat /\ TotalAmount(in, accepted, c) <= headroom
  BY <1>6, <1>7, <1>8, AtMostIs
<1>10. TotalAmount(in, accepted, c) + taken <= SumHeadroom(in.line, open)
  BY <1>1, <1>2, <1>4, <1>7, <1>9
<1> QED
  BY <1>10 DEF open, taken

LEMMA EngineKeepsFloors ==
  ASSUME NEW in, IsReading(in), NEW C \in SUBSET Candidates(in), NEW E, IsResolution(in, C, E)
  PROVE  AmountsOf(E) <= SumHeadroom(in.line, PricedLines(in.line))
<1> DEFINE onLines == {a \in E : a.items # {}}
           priced == PricedLines(in.line)
<1>1. IsFiniteSet(onLines) /\ onLines \in SUBSET E /\ IsFiniteSet(E)
  BY FS_Subset DEF IsResolution
<1>2. \A a \in E : a.amount \in Nat /\ a.items \in SUBSET DOMAIN in.line
  BY DEF IsResolution, IsApplication, ApplicationRow
<1>3. \A a \in onLines : a.amount <= SumHeadroom(in.line, a.items) /\ a.items \in SUBSET priced
  <2>1. ASSUME NEW a \in onLines
        PROVE  a.amount <= SumHeadroom(in.line, a.items) /\ a.items \in SUBSET priced
    <3> DEFINE held == AmountsOf({h \in in.held : h.items \cap a.items # {}})
    <3>1. a \in Candidates(in) /\ a.items # {}
      BY DEF IsResolution
    <3>2. a.amount + held <= SumHeadroom(in.line, a.items)
      BY <3>1, LinesKeepFloors
    <3>3. held \in Nat
      <4>1. IsFiniteSet({h \in in.held : h.items \cap a.items # {}})
        BY FS_Subset DEF IsReading
      <4> QED
        BY <4>1, AmountsSum DEF IsReading
    <3>4. SumHeadroom(in.line, a.items) \in Nat
      BY <1>2, SumsAre DEF IsReading
    <3>5. a.items \in SUBSET priced
      BY <3>1, CandidateIs DEF IsCandidate
    <3> HIDE DEF held
    <3> QED
      BY <1>2, <3>2, <3>3, <3>4, <3>5
  <2> QED
    BY <2>1
<1>4. Apart(onLines)
  BY DEF IsResolution, Apart
<1>5. priced \in SUBSET DOMAIN in.line
  BY DEF PricedLines
<1>6. \A X \in SUBSET onLines : /\ IsFiniteSet(X) /\ AmountsOf(X) \in Nat
                                /\ LinesOf(X) \in SUBSET priced
                                /\ AmountsOf(X) <= SumHeadroom(in.line, LinesOf(X))
  <2>1. ASSUME NEW X \in SUBSET onLines
        PROVE  /\ IsFiniteSet(X) /\ AmountsOf(X) \in Nat /\ LinesOf(X) \in SUBSET priced
               /\ AmountsOf(X) <= SumHeadroom(in.line, LinesOf(X))
    <3>1. IsFiniteSet(X) /\ \A a \in X : a.amount \in Nat
      BY <1>1, <1>2, FS_Subset
    <3>2. AmountsOf(X) \in Nat
      BY <3>1, AmountsSum
    <3>3. LinesOf(X) \in SUBSET priced
      BY <1>3 DEF LinesOf
    <3>4. Apart(X)
      BY <1>4 DEF Apart
    <3>5. \A a \in X : a.items \in SUBSET DOMAIN in.line /\ a.amount <= SumHeadroom(in.line, a.items)
      BY <1>2, <1>3
    <3>6. AmountsOf(X) <= SumHeadroom(in.line, LinesOf(X))
      BY <3>1, <3>4, <3>5, DisjointAmounts DEF IsReading
    <3> QED
      BY <3>1, <3>2, <3>3, <3>6
  <2> QED
    BY <2>1
<1>7. \A X, Y \in SUBSET priced :
        /\ SumHeadroom(in.line, X) \in Nat
        /\ X \cap Y = {} => SumHeadroom(in.line, X \cup Y) = SumHeadroom(in.line, X) + SumHeadroom(in.line, Y)
  <2>1. \A X \in SUBSET priced : X \in SUBSET DOMAIN in.line
    BY <1>5
  <2> HIDE DEF priced
  <2> QED
    BY <2>1, SumsAre, HeadroomUnion DEF IsReading
<1> HIDE DEF priced
<1>8. CASE onLines = E
  <2> DEFINE named == LinesOf(E)
  <2>1. AmountsOf(E) \in Nat /\ AmountsOf(E) <= SumHeadroom(in.line, named) /\ named \in SUBSET priced
    BY <1>6, <1>8
  <2> HIDE DEF named
  <2>2. priced \ named \in SUBSET priced /\ priced \in SUBSET priced /\ named \cup (priced \ named) = priced
    BY <2>1
  <2>3. SumHeadroom(in.line, priced) = SumHeadroom(in.line, named) + SumHeadroom(in.line, priced \ named)
    <3>1. named \cap (priced \ named) = {}
      OBVIOUS
    <3>2. SumHeadroom(in.line, named \cup (priced \ named))
            = SumHeadroom(in.line, named) + SumHeadroom(in.line, priced \ named)
      BY <1>7, <2>1, <2>2, <3>1
    <3> QED
      BY <2>2, <3>2
  <2>4. SumHeadroom(in.line, named) \in Nat /\ SumHeadroom(in.line, priced \ named) \in Nat
    BY <1>7, <2>1, <2>2
  <2> QED
    BY <2>1, <2>3, <2>4 DEF priced
<1>9. CASE onLines # E
  <2>1. PICK t \in E : t.items = {}
    BY <1>9
  <2>2. E \ {t} = onLines /\ t \notin onLines
    BY <2>1 DEF IsResolution
  <2>3. PICK c \in C : t.amount > 0 /\ t.amount = TotalAmount(in, E \ {t}, c)
    BY <2>1 DEF IsResolution
  <2> DEFINE exclusive == {a \in onLines : Exclusive(in, a)}
             rest == onLines \ exclusive
             locked == LinesOf(exclusive)
             open == priced \ locked
  <2>4. t.amount + AmountsOf(rest) <= SumHeadroom(in.line, open)
    <3>1. c.value \in Nat
      BY CandidateIs DEF IsCandidate, IsApplication, ApplicationRow
    <3>2. TotalAmount(in, onLines, c) > 0 /\ \A a \in onLines : a.amount \in Nat
      BY <1>2, <2>2, <2>3
    <3> HIDE DEF onLines
    <3>3. TotalAmount(in, onLines, c) + AmountsOf(rest) <= SumHeadroom(in.line, open)
      BY <1>1, <3>1, <3>2, TotalsKeepFloors DEF priced
    <3> QED
      BY <2>2, <2>3, <3>3
  <2>5. /\ exclusive \in SUBSET onLines /\ rest \in SUBSET onLines
        /\ exclusive \cup rest = onLines /\ exclusive \cap rest = {}
    OBVIOUS
  <2>6. t.amount \in Nat /\ onLines \cup {t} = E /\ onLines \cap {t} = {}
    BY <1>1, <1>2, <2>2
  <2> HIDE DEF onLines
  <2>7. /\ IsFiniteSet(exclusive) /\ IsFiniteSet(rest) /\ locked \in SUBSET priced
        /\ AmountsOf(exclusive) <= SumHeadroom(in.line, locked)
        /\ AmountsOf(exclusive) \in Nat /\ AmountsOf(rest) \in Nat
    <3> HIDE DEF exclusive, rest
    <3> QED
      BY <1>6, <2>5
  <2>8. AmountsOf(onLines) = AmountsOf(exclusive) + AmountsOf(rest)
    <3> HIDE DEF exclusive, rest
    <3>1. \A a \in exclusive \cup rest : a.amount \in Nat
      BY <1>1, <1>2, <2>5
    <3>2. AmountsOf(exclusive \cup rest) = AmountsOf(exclusive) + AmountsOf(rest)
      BY <2>5, <2>7, <3>1, AmountsUnion
    <3> QED
      BY <2>5, <3>2
  <2>9. AmountsOf(E) = AmountsOf(onLines) + t.amount
    <3>1. IsFiniteSet({t}) /\ AmountsOf({t}) = t.amount
      BY <2>6, FS_Singleton, NoAmounts
    <3>2. \A a \in onLines \cup {t} : a.amount \in Nat
      BY <1>1, <1>2
    <3>3. AmountsOf(onLines \cup {t}) = AmountsOf(onLines) + AmountsOf({t})
      BY <1>1, <2>6, <3>1, <3>2, AmountsUnion
    <3> QED
      BY <2>6, <3>1, <3>3
  <2> HIDE DEF exclusive, rest, locked
  <2>10. SumHeadroom(in.line, priced) = SumHeadroom(in.line, locked) + SumHeadroom(in.line, open)
    <3>1. open \in SUBSET priced /\ locked \cap open = {} /\ locked \cup open = priced
      BY <2>7
    <3> HIDE DEF open
    <3>2. SumHeadroom(in.line, locked \cup open)
            = SumHeadroom(in.line, locked) + SumHeadroom(in.line, open)
      BY <1>7, <2>7, <3>1
    <3> QED
      BY <3>1, <3>2
  <2>11. SumHeadroom(in.line, locked) \in Nat /\ SumHeadroom(in.line, open) \in Nat
    BY <1>7, <2>7
  <2> HIDE DEF open
  <2> QED
    BY <2>4, <2>6, <2>7, <2>8, <2>9, <2>10, <2>11 DEF priced
<1> QED
  BY <1>8, <1>9

-----------------------------------------------------------------------------
(* What an evaluation returns *)

(* The candidates no suppression keeps out. *)
Standing(in) == {c \in Candidates(in) : Free(c, in.suppressed, Holding(in))}

LEMMA EvaluationIs ==
  ASSUME NEW in, IsReading(in)
  PROVE  IsResolution(in, Standing(in), EvaluateDiscounts(in))
<1>1. EvaluateDiscounts(in) = ResolveCandidates(in, Standing(in))
  BY DEF EvaluateDiscounts, EvaluateWith, Standing
<1>2. Standing(in) \in SUBSET Candidates(in)
  BY DEF Standing
<1> QED
  BY <1>1, <1>2, Resolution

(* An application is identified by its key among those of an evaluation. *)
LEMMA KeysIdentify ==
  ASSUME NEW in, IsReading(in), NEW C \in SUBSET Candidates(in), NEW E, IsResolution(in, C, E),
         NEW a \in E, NEW b \in E, Key(a) = Key(b)
  PROVE  a = b
<1>1. SUFFICES ASSUME a # b PROVE FALSE
  OBVIOUS
<1>2. a.items \cap b.items = {} /\ (a.items # {} \/ b.items # {})
  BY <1>1 DEF IsResolution
<1>3. IsApplication(in, a) /\ IsApplication(in, b) /\ a.promotion = b.promotion
  BY DEF IsResolution, Key
<1>4. a.scope = b.scope
  BY <1>3 DEF IsApplication
<1>5. a.scope = "ITEM" => a.items = b.items
  BY <1>4 DEF Key
<1>6. a.items # {} /\ b.items # {}
  BY <1>2, <1>3, <1>4 DEF IsApplication
<1>7. a \in Candidates(in) /\ b \in Candidates(in)
  BY <1>6 DEF IsResolution
<1> QED
  BY <1>1, <1>3, <1>5, <1>7, OneCandidatePerKey

=============================================================================
