---------------------------- MODULE PaymentProofs ----------------------------
(***************************************************************************)
(* Proofs about Payment, for any allocations, amounts, invoices and        *)
(* scripts: amounts are conserved, the requests the wallet makes balance,  *)
(* only what does not fit is left on an outpoint, and every output has an  *)
(* owner who can find it.                                                  *)
(*                                                                         *)
(* The sums come first.  They are folds over finite sets; the strict       *)
(* subsets of a finite set are well-founded, and that gives an induction   *)
(* in which a family of sets stands for the predicate.                     *)
(***************************************************************************)
EXTENDS Payment, FiniteSetTheorems, SequenceTheorems, WellFoundedInduction, TLAPS

\* The strict subsets of a finite set are well-founded: a family of its
\* subsets that is not empty has a minimal member.
LEMMA MinimalSubset ==
    ASSUME NEW S, IsFiniteSet(S), NEW W \in SUBSET SUBSET S, W # {}
    PROVE  \E T \in W : \A U \in W : U \subseteq T => U = T
<1>1. IsWellFoundedOn(StrictSubsetOrdering(S), FiniteSubsetsOf(S))
  BY FS_StrictSubsetOrderingWellFounded
<1>2. W \subseteq FiniteSubsetsOf(S)
  BY FS_FiniteSubsetsOfFinite
<1>3. PICK T \in W : \A U \in W : <<U, T>> \notin StrictSubsetOrdering(S)
  BY <1>1, <1>2, WFMin
<1>4. QED
  BY <1>3 DEF StrictSubsetOrdering

\* Induction over the subsets of a finite set, for a family Q of sets.
LEMMA SubsetInduction ==
    ASSUME NEW S, IsFiniteSet(S), NEW Q, {} \in Q,
           \A T \in SUBSET S : \A x \in S \ T : T \in Q => T \union {x} \in Q
    PROVE  S \in Q
<1> SUFFICES ASSUME S \notin Q PROVE FALSE
  OBVIOUS
<1> DEFINE W == (SUBSET S) \ Q
<1>1. PICK T \in W : \A U \in W : U \subseteq T => U = T
  <2>1. S \in W /\ W \in SUBSET SUBSET S
    OBVIOUS
  <2> HIDE DEF W
  <2>2. QED
    BY <2>1, MinimalSubset
<1>2. PICK x \in T : TRUE
  BY <1>1
<1>3. T \ {x} \in Q
  BY <1>1, <1>2
<1>4. QED
  BY <1>1, <1>2, <1>3

-----------------------------------------------------------------------------
\* The equation by which a sum is defined, for the subsets in D.
Chosen(T) == CHOOSE x \in T : TRUE

SumRule(g, f, D) ==
    g = [T \in D |-> IF T = {} THEN 0 ELSE f[Chosen(T)] + g[T \ {Chosen(T)}]]

\* The element a fold begins with.
LEMMA ChosenIn == \A T : T # {} => Chosen(T) \in T
  BY DEF Chosen

\* It has a solution: from one for subsets of size n to one for size n + 1.
LEMMA SumExists ==
    ASSUME NEW f, NEW S, IsFiniteSet(S)
    PROVE  \E g : SumRule(g, f, SUBSET S)
<1> DEFINE D(n) == {T \in SUBSET S : Cardinality(T) <= n}
           Q    == {T \in SUBSET S : \E g : SumRule(g, f, D(Cardinality(T)))}
<1>1. \A T \in SUBSET S : IsFiniteSet(T) /\ Cardinality(T) \in Nat
  BY FS_Subset, FS_CardinalityType
<1>2. ASSUME NEW n \in Nat, NEW g, SumRule(g, f, D(n))
      PROVE  \E h : SumRule(h, f, D(n + 1))
  <2> DEFINE h == [T \in D(n + 1) |-> IF T = {} THEN 0
                                       ELSE f[Chosen(T)] + g[T \ {Chosen(T)}]]
  <2>1. ASSUME NEW T \in D(n + 1), T # {}
        PROVE  h[T \ {Chosen(T)}] = g[T \ {Chosen(T)}]
    <3>1. Cardinality(T \ {Chosen(T)}) = Cardinality(T) - 1
      BY <1>1, <2>1, ChosenIn, FS_RemoveElement
    <3>2. T \ {Chosen(T)} \in D(n) /\ T \ {Chosen(T)} \in D(n + 1)
      BY <1>1, <2>1, <3>1
    <3>3. QED
      BY <1>2, <3>2 DEF SumRule
  <2>2. h = [T \in D(n + 1) |-> IF T = {} THEN 0
                                ELSE f[Chosen(T)] + h[T \ {Chosen(T)}]]
    BY <2>1
  <2>3. QED
    BY <2>2 DEF SumRule
<1>3. \E g : SumRule(g, f, D(0))
  <2> DEFINE g == [T \in D(0) |-> 0]
  <2>1. \A T \in D(0) : T = {}
    BY <1>1, FS_EmptySet
  <2>2. SumRule(g, f, D(0))
    BY <2>1 DEF SumRule
  <2>3. QED
    BY <2>2
<1>4. S \in Q
  <2>1. {} \in Q
    BY <1>3, FS_EmptySet
  <2>2. ASSUME NEW T \in SUBSET S, NEW x \in S \ T, T \in Q PROVE T \union {x} \in Q
    <3>1. Cardinality(T \union {x}) = Cardinality(T) + 1
      BY <1>1, <2>2, FS_AddElement
    <3> HIDE DEF D
    <3>2. QED
      BY <1>1, <1>2, <2>2, <3>1
  <2> HIDE DEF Q
  <2>3. QED
    BY <2>1, <2>2, SubsetInduction
<1>5. D(Cardinality(S)) = SUBSET S
  BY <1>1, FS_Subset
<1>6. QED
  BY <1>4, <1>5
\* The solutions for a finite set and for a subset of it agree on the latter.
LEMMA SumUnique ==
    ASSUME NEW f, NEW S, IsFiniteSet(S)
    PROVE  \A R \in SUBSET S : \A g, h :
               SumRule(g, f, SUBSET S) /\ SumRule(h, f, SUBSET R) => g[R] = h[R]
<1> SUFFICES ASSUME NEW R \in SUBSET S, NEW g, SumRule(g, f, SUBSET S),
                    NEW h, SumRule(h, f, SUBSET R)
             PROVE  g[R] = h[R]
  OBVIOUS
<1> DEFINE W == {T \in SUBSET R : g[T] # h[T]}
<1> SUFFICES ASSUME W # {} PROVE FALSE
  OBVIOUS
<1>1. PICK T \in W : \A U \in W : U \subseteq T => U = T
  <2>1. W \in SUBSET SUBSET R /\ IsFiniteSet(R)
    BY FS_Subset
  <2> HIDE DEF W
  <2>2. QED
    BY <2>1, MinimalSubset
<1>2. T \in SUBSET R /\ T \in SUBSET S /\ g[T] # h[T]
  BY <1>1
<1>3. T # {}
  BY <1>2 DEF SumRule
<1>4. g[T \ {Chosen(T)}] = h[T \ {Chosen(T)}]
  BY <1>1, <1>2, <1>3, ChosenIn
<1>5. QED
  BY <1>2, <1>3, <1>4 DEF SumRule

\* A sum is defined by what is left when some element is taken out.
LEMMA SumStep ==
    ASSUME NEW f, NEW S, IsFiniteSet(S)
    PROVE  /\ S = {} => SumFunctionOnSet(f, S) = 0
           /\ S # {} => SumFunctionOnSet(f, S)
                          = f[Chosen(S)] + SumFunctionOnSet(f, S \ {Chosen(S)})
<1> DEFINE Sum(T) == (CHOOSE g : SumRule(g, f, SUBSET T))[T]
<1>1. \A T : SumFunctionOnSet(f, T) = Sum(T)
  BY DEF SumFunctionOnSet, FoldFunctionOnSet, MapThenFoldSet, SumRule, Chosen
<1>2. PICK g : SumRule(g, f, SUBSET S)
  BY SumExists
<1>3. ASSUME NEW R \in SUBSET S PROVE Sum(R) = g[R]
  <2> DEFINE h == CHOOSE k : SumRule(k, f, SUBSET R)
  <2>1. IsFiniteSet(R)
    BY FS_Subset
  <2>2. SumRule(h, f, SUBSET R)
    BY <2>1, SumExists
  <2>3. Sum(R) = h[R]
    OBVIOUS
  <2> HIDE DEF Sum, h
  <2>4. \A k : SumRule(k, f, SUBSET R) => g[R] = k[R]
    BY <1>2, SumUnique
  <2>5. QED
    BY <2>2, <2>3, <2>4
<1>4. g[S] = IF S = {} THEN 0 ELSE f[Chosen(S)] + g[S \ {Chosen(S)}]
  BY <1>2 DEF SumRule
<1> HIDE DEF Sum
<1>5. QED
  BY <1>1, <1>3, <1>4

\* Whichever element is taken out.
LEMMA SumTakeOut ==
    ASSUME NEW f, NEW S, IsFiniteSet(S), \A x \in S : f[x] \in Nat
    PROVE  /\ SumFunctionOnSet(f, S) \in Nat
           /\ \A x \in S : SumFunctionOnSet(f, S) = f[x] + SumFunctionOnSet(f, S \ {x})
<1> DEFINE Sum(T) == SumFunctionOnSet(f, T)
           Good(T) == Sum(T) \in Nat /\ \A x \in T : Sum(T) = f[x] + Sum(T \ {x})
           W == {T \in SUBSET S : ~Good(T)}
<1>1. \A T \in SUBSET S : /\ T = {} => Sum(T) = 0
                          /\ T # {} => Sum(T) = f[Chosen(T)] + Sum(T \ {Chosen(T)})
  BY FS_Subset, SumStep
<1> HIDE DEF Sum
<1>2. SUFFICES ASSUME W # {} PROVE FALSE
  BY DEF Sum
<1>3. PICK T \in W : \A U \in W : U \subseteq T => U = T
  <2>1. W \in SUBSET SUBSET S
    OBVIOUS
  <2> HIDE DEF W
  <2>2. QED
    BY <1>2, <2>1, MinimalSubset
<1>4. T \in SUBSET S /\ ~Good(T)
  BY <1>3
<1>5. \A x \in T : Good(T \ {x})
  <2>1. \A x \in T : T \ {x} \notin W
    BY <1>3
  <2>2. QED
    BY <1>4, <2>1
<1>6. T # {}
  <2>1. ASSUME T = {} PROVE Good(T)
    <3>1. Sum(T) = 0
      BY <1>1, <2>1
    <3>2. \A x \in T : FALSE
      BY <2>1
    <3>3. QED
      BY <3>1, <3>2
  <2>2. QED
    BY <1>4, <2>1
<1> DEFINE y == Chosen(T)
<1>7. y \in T /\ Sum(T) = f[y] + Sum(T \ {y})
  BY <1>1, <1>4, <1>6, ChosenIn
<1> HIDE DEF y
<1>8. Sum(T) \in Nat
  BY <1>4, <1>5, <1>7
<1>9. ASSUME NEW x \in T, x # y PROVE Sum(T) = f[x] + Sum(T \ {x})
  <2> DEFINE R == (T \ {y}) \ {x}
  <2>1. Sum(T \ {y}) = f[x] + Sum(R)
    BY <1>5, <1>7, <1>9
  <2>2. y \in T \ {x} /\ (T \ {x}) \ {y} = R
    BY <1>7, <1>9
  <2>3. Sum(T \ {x}) = f[y] + Sum((T \ {x}) \ {y}) /\ Sum(T \ {x}) \in Nat
    BY <1>5, <2>2
  <2>4. f[x] \in Nat /\ f[y] \in Nat
    BY <1>4, <1>7
  <2>5. x \in T \ {y} /\ Good(T \ {y})
    BY <1>5, <1>7, <1>9
  <2>6. R \in W \/ Good(R)
    BY <1>4
  <2>7. R # T
    BY <1>7
  <2>8. Sum(R) \in Nat
    BY <1>3, <2>6, <2>7
  <2> HIDE DEF R, Good
  <2>9. Sum(T) = f[y] + (f[x] + Sum(R))
    BY <1>7, <2>1
  <2>10. Sum(T \ {x}) = f[y] + Sum(R)
    BY <2>2, <2>3
  <2>11. \A a, b, c \in Nat : a + (b + c) = b + (a + c)
    OBVIOUS
  <2>12. QED
    BY <2>4, <2>8, <2>9, <2>10, <2>11
<1>10. QED
  <2>1. ASSUME NEW x \in T PROVE Sum(T) = f[x] + Sum(T \ {x})
    BY <1>7, <1>9
  <2>2. QED
    BY <1>4, <1>8, <2>1

\* An element that was not among them is added.
LEMMA SumAdd ==
    ASSUME NEW f, NEW S, IsFiniteSet(S), NEW x, x \notin S, f[x] \in Nat,
           \A y \in S : f[y] \in Nat
    PROVE  SumFunctionOnSet(f, S \union {x}) = SumFunctionOnSet(f, S) + f[x]
<1>1. IsFiniteSet(S \union {x})
  BY FS_AddElement
<1>2. SumFunctionOnSet(f, S) \in Nat
  BY SumTakeOut
<1>3. SumFunctionOnSet(f, S \union {x})
        = f[x] + SumFunctionOnSet(f, (S \union {x}) \ {x})
  BY <1>1, SumTakeOut
<1>4. (S \union {x}) \ {x} = S
  OBVIOUS
<1>5. SumFunctionOnSet(f, S \union {x}) = f[x] + SumFunctionOnSet(f, S)
  BY <1>3, <1>4
<1>6. \A i, j \in Nat : i + j = j + i
  OBVIOUS
<1>7. QED
  BY <1>2, <1>5, <1>6

\* Sums of what is apart add up.
LEMMA SumUnion ==
    ASSUME NEW f, NEW A, NEW B, IsFiniteSet(A), IsFiniteSet(B), A \intersect B = {},
           \A x \in A \union B : f[x] \in Nat
    PROVE  SumFunctionOnSet(f, A \union B) = SumFunctionOnSet(f, A) + SumFunctionOnSet(f, B)
<1> DEFINE Sum(T) == SumFunctionOnSet(f, T)
           Q == {T \in SUBSET B : Sum(A \union T) = Sum(A) + Sum(T)}
<1>1. \A T \in SUBSET B : /\ IsFiniteSet(T) /\ IsFiniteSet(A \union T)
                          /\ \A x \in A \union T : f[x] \in Nat
  BY FS_Subset, FS_Union
<1>2. {} \in Q
  <2>1. Sum({}) = 0
    BY SumStep, FS_EmptySet
  <2>2. A \union {} = A /\ Sum(A) \in Nat
    BY SumTakeOut
  <2> HIDE DEF Sum
  <2>3. QED
    BY <2>1, <2>2
<1>3. ASSUME NEW T \in SUBSET B, NEW x \in B \ T, T \in Q PROVE T \union {x} \in Q
  <2>1. Sum(T \union {x}) = Sum(T) + f[x]
    BY <1>1, SumAdd
  <2>2. Sum((A \union T) \union {x}) = Sum(A \union T) + f[x]
    BY <1>1, SumAdd
  <2>3. Sum(A) \in Nat /\ Sum(T) \in Nat /\ f[x] \in Nat
    BY <1>1, SumTakeOut
  <2>4. (A \union T) \union {x} = A \union (T \union {x})
    OBVIOUS
  <2>5. Sum(A \union T) = Sum(A) + Sum(T)
    BY <1>3
  <2> HIDE DEF Sum
  <2>6. \A i, j, k \in Nat : (i + j) + k = i + (j + k)
    OBVIOUS
  <2>7. Sum(A \union (T \union {x})) = (Sum(A) + Sum(T)) + f[x]
    BY <2>2, <2>4, <2>5
  <2>8. Sum(A \union (T \union {x})) = Sum(A) + Sum(T \union {x})
    BY <2>1, <2>3, <2>6, <2>7
  <2>9. QED
    BY <1>3, <2>8
<1>4. B \in Q
  <2> HIDE DEF Q
  <2>1. QED
    BY <1>2, <1>3, SubsetInduction
<1>5. QED
  BY <1>4

\* The image of a finite set is finite.
LEMMA ImageFinite ==
    ASSUME NEW b, NEW S, IsFiniteSet(S)
    PROVE  IsFiniteSet({b[x] : x \in S})
<1> DEFINE Im(T) == {b[x] : x \in T}
           Q == {T \in SUBSET S : IsFiniteSet(Im(T))}
<1>1. {} \in Q
  <2>1. Im({}) = {}
    OBVIOUS
  <2>2. QED
    BY <2>1, FS_EmptySet
<1>2. ASSUME NEW T \in SUBSET S, NEW x \in S \ T, T \in Q PROVE T \union {x} \in Q
  <2>1. Im(T \union {x}) = Im(T) \union {b[x]} /\ T \union {x} \in SUBSET S
    OBVIOUS
  <2>2. IsFiniteSet(Im(T))
    BY <1>2
  <2> HIDE DEF Im
  <2>3. IsFiniteSet(Im(T) \union {b[x]})
    BY <2>2, FS_AddElement
  <2>4. QED
    BY <2>1, <2>3
<1>3. S \in Q
  <2> HIDE DEF Q
  <2>1. QED
    BY <1>1, <1>2, SubsetInduction
<1>4. QED
  BY <1>3

\* What is mapped one to one to something of the same value has the same sum.
LEMMA SumBijection ==
    ASSUME NEW f, NEW h, NEW S, NEW b, IsFiniteSet(S),
           \A x \in S : f[x] \in Nat /\ f[x] = h[b[x]],
           \A x, y \in S : b[x] = b[y] => x = y
    PROVE  SumFunctionOnSet(f, S) = SumFunctionOnSet(h, {b[x] : x \in S})
<1> DEFINE Im(T) == {b[x] : x \in T}
           Q == {T \in SUBSET S : SumFunctionOnSet(f, T) = SumFunctionOnSet(h, Im(T))}
<1>1. \A T \in SUBSET S : IsFiniteSet(T) /\ IsFiniteSet(Im(T))
  <2>1. ASSUME NEW T \in SUBSET S PROVE IsFiniteSet(T) /\ IsFiniteSet(Im(T))
    <3>1. IsFiniteSet(T)
      BY FS_Subset
    <3>2. QED
      BY <3>1, ImageFinite
  <2>2. QED
    BY <2>1
<1>2. {} \in Q
  <2>1. Im({}) = {}
    OBVIOUS
  <2>2. QED
    BY <2>1, SumStep, FS_EmptySet
<1>3. ASSUME NEW T \in SUBSET S, NEW x \in S \ T, T \in Q PROVE T \union {x} \in Q
  <2>1. SumFunctionOnSet(f, T \union {x}) = SumFunctionOnSet(f, T) + f[x]
    BY <1>1, SumAdd
  <2>2. Im(T \union {x}) = Im(T) \union {b[x]} /\ b[x] \notin Im(T)
    OBVIOUS
  <2>3. \A z \in Im(T) : h[z] \in Nat
    OBVIOUS
  <2>4. h[b[x]] \in Nat /\ f[x] = h[b[x]]
    OBVIOUS
  <2>5. IsFiniteSet(Im(T))
    BY <1>1
  <2> HIDE DEF Im
  <2>6. SumFunctionOnSet(h, Im(T) \union {b[x]}) = SumFunctionOnSet(h, Im(T)) + h[b[x]]
    BY <2>2, <2>3, <2>4, <2>5, SumAdd
  <2>7. QED
    BY <1>3, <2>1, <2>2, <2>4, <2>6
<1>4. S \in Q
  <2> HIDE DEF Q
  <2>1. QED
    BY <1>2, <1>3, SubsetInduction
<1>5. QED
  BY <1>4

\* A sum depends on nothing but the values that are added.
LEMMA SumCong ==
    ASSUME NEW f, NEW h, NEW S, IsFiniteSet(S), \A x \in S : f[x] \in Nat /\ f[x] = h[x]
    PROVE  SumFunctionOnSet(f, S) = SumFunctionOnSet(h, S)
<1> DEFINE b == [x \in S |-> x]
<1>1. {b[x] : x \in S} = S
  OBVIOUS
<1>2. SumFunctionOnSet(f, S) = SumFunctionOnSet(h, {b[x] : x \in S})
  <2>1. \A x \in S : f[x] \in Nat /\ f[x] = h[b[x]]
    OBVIOUS
  <2>2. \A x, y \in S : b[x] = b[y] => x = y
    OBVIOUS
  <2> HIDE DEF b
  <2>3. QED
    BY <2>1, <2>2, SumBijection
<1>3. QED
  BY <1>1, <1>2

-----------------------------------------------------------------------------
\* Sums of amounts.
LEMMA TotalNat ==
    ASSUME NEW S, IsFiniteSet(S), \A x \in S : x.amount \in Nat
    PROVE  Total(S) \in Nat
<1> DEFINE f == [x \in S |-> x.amount]
<1>1. \A x \in S : f[x] \in Nat
  OBVIOUS
<1>2. SumFunctionOnSet(f, S) \in Nat
  <2> HIDE DEF f
  <2>1. QED
    BY <1>1, SumTakeOut
<1>3. QED
  BY <1>2 DEF Total

\* Nothing sums up to nothing.
LEMMA TotalEmpty == Total({}) = 0
  BY SumStep, FS_EmptySet DEF Total

\* The amounts of some of what is in S.
LEMMA TotalSubset ==
    ASSUME NEW S, IsFiniteSet(S), \A x \in S : x.amount \in Nat, NEW A \in SUBSET S
    PROVE  SumFunctionOnSet([x \in S |-> x.amount], A) = Total(A)
<1> DEFINE f == [x \in S |-> x.amount]
           h == [x \in A |-> x.amount]
<1>1. \A x \in A : f[x] \in Nat /\ f[x] = h[x]
  OBVIOUS
<1>2. IsFiniteSet(A)
  BY FS_Subset
<1>3. SumFunctionOnSet(f, A) = SumFunctionOnSet(h, A)
  <2> HIDE DEF f, h
  <2>1. QED
    BY <1>1, <1>2, SumCong
<1>4. QED
  BY <1>3 DEF Total

\* Amounts that are apart add up.
LEMMA TotalUnion ==
    ASSUME NEW A, NEW B, IsFiniteSet(A), IsFiniteSet(B), A \intersect B = {},
           \A x \in A \union B : x.amount \in Nat
    PROVE  Total(A \union B) = Total(A) + Total(B)
<1> DEFINE S == A \union B
           f == [x \in S |-> x.amount]
<1>1. \A x \in A \union B : f[x] \in Nat
  OBVIOUS
<1>2. IsFiniteSet(S)
  BY FS_Union
<1>3. /\ A \in SUBSET S /\ B \in SUBSET S
      /\ \A x \in S : x.amount \in Nat
  OBVIOUS
<1>4. SumFunctionOnSet(f, A \union B) = SumFunctionOnSet(f, A) + SumFunctionOnSet(f, B)
  <2> HIDE DEF f
  <2>1. QED
    BY <1>1, SumUnion
<1>5. SumFunctionOnSet(f, A) = Total(A) /\ SumFunctionOnSet(f, B) = Total(B)
  <2> HIDE DEF S
  <2>1. QED
    BY <1>2, <1>3, TotalSubset
<1>6. SumFunctionOnSet(f, A \union B) = Total(A \union B)
  BY DEF Total
<1>7. QED
  BY <1>4, <1>5, <1>6

\* What is in A goes and what is in B comes.
LEMMA TotalReplace ==
    ASSUME NEW S, NEW A \in SUBSET S, NEW B, IsFiniteSet(S), IsFiniteSet(B),
           S \intersect B = {}, \A x \in S \union B : x.amount \in Nat,
           Total(A) = Total(B)
    PROVE  Total((S \ A) \union B) = Total(S)
<1> DEFINE R == S \ A
<1>1. /\ IsFiniteSet(A) /\ IsFiniteSet(R)
      /\ R \intersect A = {} /\ R \intersect B = {} /\ R \union A = S
      /\ \A x \in R \union A : x.amount \in Nat
      /\ \A x \in R \union B : x.amount \in Nat
  BY FS_Subset
<1> HIDE DEF R
<1>2. Total(R \union A) = Total(R) + Total(A)
  BY <1>1, TotalUnion
<1>3. Total(R \union B) = Total(R) + Total(B)
  BY <1>1, TotalUnion
<1>4. QED
  BY <1>1, <1>2, <1>3 DEF R

\* Whatever numbers the elements of T one to one sums up to the same.
LEMMA TotalImage ==
    ASSUME NEW f, NEW S, NEW b, NEW T, IsFiniteSet(S), T = {b[x] : x \in S},
           \A x \in S : f[x] \in Nat /\ f[x] = b[x].amount,
           \A x, y \in S : b[x] = b[y] => x = y
    PROVE  SumFunctionOnSet(f, S) = Total(T)
<1> DEFINE h == [y \in T |-> y.amount]
<1>1. \A x \in S : f[x] \in Nat /\ f[x] = h[b[x]]
  OBVIOUS
<1>2. SumFunctionOnSet(f, S) = SumFunctionOnSet(h, {b[x] : x \in S})
  <2> HIDE DEF h
  <2>1. QED
    BY <1>1, SumBijection
<1>3. QED
  BY <1>2 DEF Total

\* Assignments are numbered.
LEMMA SeqDomain ==
    ASSUME NEW s, s \in Seq(Range(s))
    PROVE  /\ Len(s) \in Nat /\ DOMAIN s = 1 .. Len(s)
           /\ IsFiniteSet(DOMAIN s)
<1>1. Len(s) \in Nat /\ DOMAIN s = 1 .. Len(s)
  OBVIOUS
<1>2. QED
  BY <1>1, FS_Interval

\* The outputs of an operation have the amounts of the assignments.
LEMMA OutputsTotal ==
    ASSUME NEW r, r.owned \in Seq(Range(r.owned)),
           \A i \in DOMAIN r.owned : r.owned[i].amount \in Nat,
           NEW op, NEW name
    PROVE  Total({x \in Outputs(r, op) : x.name = name}) = SumOut(r, name)
<1> DEFINE f == [i \in DOMAIN r.owned |-> r.owned[i].amount]
           S == {i \in DOMAIN r.owned : r.owned[i].name = name}
           b == [i \in S |-> [addr |-> <<tx, op, i>>, contract |-> r.contract,
                              name |-> r.owned[i].name, amount |-> r.owned[i].amount,
                              by |-> r.by, auth |-> Auth(r.contract, i, r.owned[i].seal)]]
           T == {x \in Outputs(r, op) : x.name = name}
<1>1. IsFiniteSet(S)
  BY SeqDomain, FS_Subset
<1>2. T = {b[i] : i \in S}
  <2>1. ASSUME NEW x \in T PROVE x \in {b[i] : i \in S}
    <3>1. PICK i \in DOMAIN r.owned :
              x = [addr |-> <<tx, op, i>>, contract |-> r.contract,
                   name |-> r.owned[i].name, amount |-> r.owned[i].amount,
                   by |-> r.by, auth |-> Auth(r.contract, i, r.owned[i].seal)]
      BY DEF Outputs
    <3>2. x.name = r.owned[i].name /\ x.name = name
      BY <3>1
    <3>3. i \in S
      BY <3>2
    <3>4. QED
      BY <3>1, <3>3
  <2>2. ASSUME NEW i \in S PROVE b[i] \in T
    BY DEF Outputs
  <2>3. QED
    BY <2>1, <2>2
<1>3. \A i \in S : f[i] \in Nat /\ f[i] = b[i].amount
  OBVIOUS
<1>4. \A i, j \in S : b[i] = b[j] => i = j
  <2>1. \A i \in S : b[i].addr = <<tx, op, i>>
    OBVIOUS
  <2> HIDE DEF b
  <2>2. QED
    BY <2>1
<1>5. SumOut(r, name) = SumFunctionOnSet(f, S)
  BY DEF SumOut
<1> HIDE DEF f, S, b, T
<1>6. SumFunctionOnSet(f, S) = Total(T)
  BY <1>1, <1>2, <1>3, <1>4, TotalImage
<1>7. QED
  BY <1>5, <1>6 DEF T

-----------------------------------------------------------------------------
\* The sum of one value.
LEMMA SumOne ==
    ASSUME NEW f, NEW i, f[i] \in Nat
    PROVE  SumFunctionOnSet(f, {i}) = f[i]
<1>1. SumFunctionOnSet(f, {}) = 0
  BY SumStep, FS_EmptySet
<1>2. SumFunctionOnSet(f, {} \union {i}) = SumFunctionOnSet(f, {}) + f[i]
  BY SumAdd, FS_EmptySet
<1>3. {} \union {i} = {i}
  OBVIOUS
<1>4. QED
  BY <1>1, <1>2, <1>3

\* The sum of two values.
LEMMA SumTwo ==
    ASSUME NEW f, NEW T, NEW i \in T, NEW j \in T, T \subseteq {i, j}, i # j,
           f[i] \in Nat, f[j] \in Nat
    PROVE  SumFunctionOnSet(f, T) = f[i] + f[j]
<1>1. SumFunctionOnSet(f, {i}) = f[i]
  BY SumOne
<1>2. IsFiniteSet({i})
  BY FS_Singleton
<1>3. j \notin {i} /\ \A k \in {i} : f[k] \in Nat
  OBVIOUS
<1>4. SumFunctionOnSet(f, {i} \union {j}) = SumFunctionOnSet(f, {i}) + f[j]
  BY <1>2, <1>3, SumAdd
<1>5. {i} \union {j} = {i, j}
  OBVIOUS
<1>6. QED
  BY <1>1, <1>4, <1>5

\* SetToSeq enumerates a finite set, each element once.
LEMMA SetToSeqFacts ==
    ASSUME NEW S, IsFiniteSet(S)
    PROVE  LET s == SetToSeq(S)
           IN  /\ s \in [1 .. Cardinality(S) -> S]
               /\ \A i, j \in DOMAIN s : s[i] = s[j] => i = j
               /\ \A x \in S : \E i \in DOMAIN s : s[i] = x
<1> DEFINE n == Cardinality(S)
           s == SetToSeq(S)
<1>1. n \in Nat /\ \E f \in [1 .. n -> S] : IsInjective(f)
  BY FS_CardinalityType DEF ExistsBijection, Bijection, Injection
<1>2. s \in [1 .. n -> S] /\ IsInjective(s)
  BY <1>1 DEF SetToSeq
<1>3. Cardinality(1 .. n) = n
  BY <1>1, FS_Interval
<1>4. s \in Injection(1 .. n, S)
  BY <1>2 DEF Injection
<1> HIDE DEF s
<1>5. s \in Surjection(1 .. n, S)
  BY <1>3, <1>4, FS_Injection
<1>6. \A x \in S : \E i \in 1 .. n : s[i] = x
  BY <1>5 DEF Surjection
<1>7. QED
  BY <1>2, <1>6 DEF IsInjective, s

\* A sequence given by a function.
LEMMA FunctionSeq ==
    ASSUME NEW n \in Nat, NEW s, DOMAIN s = 1 .. n, s = [i \in 1 .. n |-> s[i]]
    PROVE  s \in Seq(Range(s))
<1>1. s \in [1 .. n -> Range(s)]
  BY DEF Range
<1>2. QED
  BY <1>1

\* A sequence over S is one over what it holds.
LEMMA SeqRange ==
    ASSUME NEW S, NEW s \in Seq(S)
    PROVE  s \in Seq(Range(s))
<1>1. Len(s) \in Nat /\ DOMAIN s = 1 .. Len(s) /\ s \in [1 .. Len(s) -> S]
  OBVIOUS
<1>2. s = [i \in 1 .. Len(s) |-> s[i]]
  BY <1>1
<1>3. QED
  BY <1>1, <1>2, FunctionSeq

\* Two sequences of one element.
LEMMA TwoSeq == \A v, w : <<v>> \o <<w>> = <<v, w>>
<1> SUFFICES ASSUME NEW v, NEW w PROVE <<v>> \o <<w>> = <<v, w>>
  OBVIOUS
<1> DEFINE s == <<v>> \o <<w>>
<1>1. s \in Seq({v, w}) /\ Len(s) = 2 /\ s[1] = v /\ s[2] = w
  <2>1. <<v>> \in Seq({v, w}) /\ <<w>> \in Seq({v, w}) /\ Len(<<v>>) = 1 /\ Len(<<w>>) = 1
    OBVIOUS
  <2>2. QED
    BY <2>1, ConcatProperties
<1>2. <<v, w>> \in Seq({v, w}) /\ Len(<<v, w>>) = 2
  OBVIOUS
<1> DEFINE t == <<v, w>>
<1>3. t[1] = v /\ t[2] = w
  OBVIOUS
<1> HIDE DEF s, t
<1>4. t \in Seq({v, w}) /\ Len(t) = 2
  BY <1>2 DEF t
<1>5. Len(s) = Len(t) /\ \A i \in 1 .. Len(s) : s[i] = t[i]
  <2>1. \A i \in 1 .. 2 : i = 1 \/ i = 2
    OBVIOUS
  <2>2. QED
    BY <1>1, <1>3, <1>4, <2>1
<1>6. s = t
  BY <1>1, <1>4, <1>5, SeqEqual
<1>7. QED
  BY <1>6 DEF s, t

\* The first element of a sequence, and the others.
LEMMA SubSeqRange ==
    ASSUME NEW s, s \in Seq(Range(s)), s # <<>>
    PROVE  /\ Tail(s) \in Seq(Range(Tail(s)))
           /\ Head(s) = s[1] /\ 1 \in DOMAIN s
           /\ \A i \in DOMAIN Tail(s) : i + 1 \in DOMAIN s /\ Tail(s)[i] = s[i + 1]
           /\ \A i \in DOMAIN s :
                  i = 1 \/ (i - 1 \in DOMAIN Tail(s) /\ Tail(s)[i - 1] = s[i])
<1> DEFINE t == Tail(s)
           n == Len(s) - 1
<1>1. Len(s) \in Nat /\ DOMAIN s = 1 .. Len(s) /\ Len(s) > 0
  OBVIOUS
<1>2. n \in Nat /\ t \in Seq(Range(s)) /\ Len(t) = n
  BY <1>1
<1>3. DOMAIN t = 1 .. n /\ \A i \in 1 .. n : t[i] = s[i + 1]
  BY <1>1
<1>4. t \in Seq(Range(t))
  <2> HIDE DEF t
  <2>1. QED
    BY <1>2, SeqRange
<1>5. \A i \in DOMAIN t : i + 1 \in DOMAIN s /\ t[i] = s[i + 1]
  BY <1>1, <1>3
<1>6. ASSUME NEW i \in DOMAIN s, i # 1 PROVE i - 1 \in DOMAIN t /\ t[i - 1] = s[i]
  BY <1>1, <1>3, <1>6
<1>7. QED
  BY <1>1, <1>4, <1>5, <1>6

\* A request for an invoice: of state of one name, value to b and the rest to
\* change.
Invoiced(r, value, b) ==
    /\ IsFiniteSet(r.using)
    /\ \A x \in r.using : x.name = r.name /\ x.amount \in Nat
    /\ value \in Nat /\ value <= Total(r.using) /\ Total(r.using) <= U64Max
    /\ r.owned = <<Assign(r.name, value, b)>> \o Diff(r.name, Total(r.using) - value)

\* It balances.
LEMMA InvoicedBalances ==
    ASSUME NEW r, NEW value, NEW b, Invoiced(r, value, b)
    PROVE  /\ CheckRequest(r)
           /\ r.owned \in Seq(Range(r.owned))
           /\ \A i \in DOMAIN r.owned :
                  /\ r.owned[i].amount \in 0 .. U64Max
                  /\ i # 1 => r.owned[i].seal = Change
           /\ r.owned[1].seal = b
<1> DEFINE S == r.using
           name == r.name
<1>0. /\ IsFiniteSet(S) /\ U64Max \in Nat /\ value \in Nat
      /\ value <= Total(S) /\ Total(S) <= U64Max
      /\ \A x \in S : x.name = name /\ x.amount \in Nat
      /\ r.owned = <<Assign(name, value, b)>> \o Diff(name, Total(S) - value)
      /\ \A x \in r.using : x.name = name
  BY PaymentAssumption DEF Invoiced
<1> DEFINE d == Total(S) - value
<1>1. Total(S) \in Nat /\ d \in 0 .. U64Max
  <2>1. Total(S) \in Nat
    BY <1>0, TotalNat
  <2>2. QED
    BY <1>0, <2>1
<1>2. SumIn(r, name) = Total(S)
  <2>1. {x \in r.using : x.name = name} = S
    BY <1>0
  <2>2. QED
    BY <2>1 DEF SumIn
<1> HIDE DEF S, name
<1>3. CASE d = 0
  <2>1. r.owned = <<Assign(name, value, b)>>
    BY <1>0, <1>3 DEF Diff
  <2>2. /\ DOMAIN r.owned = {1} /\ r.owned[1].amount = value /\ r.owned[1].name = name
        /\ r.owned[1].seal = b
    BY <2>1 DEF Assign
  <2>3. SumOut(r, name) = value
    <3> DEFINE f == [i \in DOMAIN r.owned |-> r.owned[i].amount]
    <3>1. f[1] = value /\ {i \in DOMAIN r.owned : r.owned[i].name = name} = {1}
      BY <2>2
    <3>2. SumFunctionOnSet(f, {1}) = value
      <4> HIDE DEF f
      <4>1. QED
        BY <1>0, <3>1, SumOne
    <3>3. QED
      BY <3>1, <3>2 DEF SumOut
  <2>4. NamesOf(r) \subseteq {name}
    BY <1>0, <2>2 DEF NamesOf
  <2>5. r.owned \in Seq(Range(r.owned))
    <3>1. DOMAIN r.owned = 1 .. 1 /\ r.owned = [i \in 1 .. 1 |-> r.owned[i]]
      BY <2>1, <2>2
    <3>2. QED
      BY <3>1, FunctionSeq
  <2>6. value = Total(S) /\ value \in 0 .. U64Max
    BY <1>0, <1>1, <1>3
  <2>7. CheckRequest(r)
    BY <1>0, <1>2, <2>3, <2>4, <2>6 DEF CheckRequest
  <2>8. QED
    BY <2>2, <2>5, <2>6, <2>7
<1>4. CASE d # 0
  <2>1. r.owned = <<Assign(name, value, b), Assign(name, d, Change)>>
    <3>1. Diff(name, Total(S) - value) = <<Assign(name, d, Change)>>
      BY <1>4 DEF Diff
    <3> HIDE DEF d
    <3>2. QED
      BY <1>0, <3>1, TwoSeq
  <2>2. /\ DOMAIN r.owned = {1, 2}
        /\ r.owned[1].amount = value /\ r.owned[1].name = name /\ r.owned[1].seal = b
        /\ r.owned[2].amount = d /\ r.owned[2].name = name /\ r.owned[2].seal = Change
    BY <2>1 DEF Assign
  <2>3. SumOut(r, name) = value + d
    <3> DEFINE f == [i \in DOMAIN r.owned |-> r.owned[i].amount]
    <3>1. /\ f[1] = value /\ f[2] = d
          /\ {i \in DOMAIN r.owned : r.owned[i].name = name} = {1, 2}
      BY <2>2
    <3>2. SumFunctionOnSet(f, {1, 2}) = value + d
      <4> HIDE DEF f, d
      <4>1. 1 # 2 /\ f[1] \in Nat /\ f[2] \in Nat
        BY <1>0, <1>1, <3>1
      <4> DEFINE T == {1, 2}
      <4>2. T = {1, 2} /\ 1 \in T /\ 2 \in T /\ T \subseteq {1, 2}
        OBVIOUS
      <4> HIDE DEF T
      <4>3. SumFunctionOnSet(f, T) = f[1] + f[2]
        BY <4>1, <4>2, SumTwo
      <4>4. QED
        BY <3>1, <4>2, <4>3
    <3>3. QED
      BY <3>1, <3>2 DEF SumOut
  <2>4. NamesOf(r) \subseteq {name}
    BY <1>0, <2>2 DEF NamesOf
  <2>5. r.owned \in Seq(Range(r.owned))
    <3>1. DOMAIN r.owned = 1 .. 2 /\ r.owned = [i \in 1 .. 2 |-> r.owned[i]]
      BY <2>1, <2>2
    <3>2. QED
      BY <3>1, FunctionSeq
  <2>6. value + d = Total(S) /\ value \in 0 .. U64Max /\ d \in 0 .. U64Max
    BY <1>0, <1>1
  <2>7. CheckRequest(r)
    BY <1>0, <1>2, <2>3, <2>4, <2>6 DEF CheckRequest
  <2> HIDE DEF d
  <2>8. QED
    BY <2>2, <2>5, <2>6, <2>7
<1>5. QED
  BY <1>3, <1>4

-----------------------------------------------------------------------------
(***************************************************************************)
(* The inductive invariant.                                                *)
(***************************************************************************)
Running == job.at \in {"requests", "blanks"}

JobFields ==
    [at |-> job.at, todo |-> job.todo, asked |-> job.asked, closes |-> job.closes,
     contracts |-> job.contracts, change |-> job.change, ops |-> job.ops,
     astray |-> job.astray]

\* A call of bundle is described by all of its fields, and has nothing to do
\* when none runs.
JobShape ==
    /\ job = JobFields
    /\ job.todo \in Seq(Range(job.todo))
    /\ job.ops \in Nat
    /\ job.change \in {ChangeVout, NoVout}
    /\ ~Running => job.todo = <<>> /\ job.closes = {} /\ job.ops = 0 /\ ~job.astray
    /\ Running => tx <= MaxTx
    /\ job.asked \subseteq requests

\* The operation an address is of has been made.
Taken(a) ==
    \/ a[1] \in 0 .. tx - 1
    \/ a[1] = tx /\ a[2] \in 1 .. job.ops

\* Addresses are never given twice, and an output has one seal.
Addresses ==
    /\ IsFiniteSet(live)
    /\ \A x \in live \union made : Taken(x.addr)
    /\ \A y \in made : y.addr[3] \in Nat \ {0}
    /\ \A d \in defined : Taken(d[1])
    /\ \A d, e \in defined : d[1] = e[1] => d[2] = e[2]

\* The seal of an output is on an output of the transaction of its operation,
\* that of issued state on an outpoint of the wallet.
OwnSeals ==
    \A d \in defined :
        \/ d[1][1] = 0 /\ d[2] \in Utxos
        \/ d[2] \in {Out(d[1][1], PayeeVout), Out(d[1][1], ChangeVout)}

\* An outpoint of a transaction is known to the wallet once this is paid, and
\* what was issued is still on one.
OwnOutpoints ==
    /\ utxos \union spent \subseteq Utxos \union {Out(n, ChangeVout) : n \in paid}
    /\ \A x \in live : x.addr[1] = 0 => \E o \in utxos \union spent : Shown(x, o)

\* What is known of any request, resolved or not.
Sound(r) ==
    /\ r.contract \in ContractIds
    /\ IsFiniteSet(r.using)
    /\ r.closes \subseteq Existing
    /\ \A x \in r.using :
           /\ x.contract = r.contract /\ x.amount \in Nat
           /\ x.addr[1] \in {0} \union paid
    /\ r.owned \in Seq(Range(r.owned))
    /\ \A i \in DOMAIN r.owned : r.owned[i].amount \in 0 .. U64Max
    /\ r.by # "script" => CheckRequest(r)

\* State of the kind a request was made for, that is left on an outpoint it
\* spends, does not fit in.
Whole(r) ==
    \A x \in live :
        /\ x.contract = r.contract /\ x.name = r.name
        /\ \E o \in r.closes : Shown(x, o)
        => x \in r.using \/ ~Fits(r.using \union {x})

\* What is known of the requests that were made, however old.
Asked ==
    \A r \in requests :
        /\ Sound(r)
        /\ r.by \in {"fulfill", "script"}
        /\ \A j \in DOMAIN r.owned :
               \/ r.owned[j].seal = Change
               \/ r.owned[j].seal \in Beneficiaries /\ (r.by = "script" \/ j = 1)
        /\ r.by = "fulfill" => Whole(r)

\* The output of a resolved request is change of the wallet, or on an output
\* of the payee, or has a token of the payee.
Placed(r, i, change) ==
    LET seal == r.owned[i].seal
        auth == Auth(r.contract, i, seal)
    IN  \/ seal.to = "vout" /\ seal.vout = ChangeVout /\ change = ChangeVout
        \/ seal.to = "vout" /\ seal.vout = PayeeVout /\ auth \in PayeeTokens
        \/ seal.to = "token" /\ auth \in PayeeTokens /\ (r.by = "script" \/ i = 1)

\* What is known of the requests of a bundle that are still to be applied.
ToMake ==
    \A r \in Range(job.todo) :
        /\ Sound(r)
        /\ r.by \in IF job.at = "blanks" THEN {"blank"} ELSE {"fulfill", "script"}
        /\ \A j \in DOMAIN r.owned : Placed(r, j, job.change)

\* Blank requests are under as many contracts, so that none takes anything
\* from another.
Apart ==
    job.at = "blanks" =>
        /\ \A r \in Range(job.todo) : r.using \subseteq live
        /\ \A i, j \in DOMAIN job.todo :
               job.todo[i].contract = job.todo[j].contract => i = j

\* A request that was asked for is still to be applied, or what it uses is gone.
Applied ==
    \A r \in job.asked :
        \/ r.using \intersect live = {}
        \/ job.at = "requests" /\ \E q \in Range(job.todo) : q.using = r.using

\* An output of the transaction at hand has an owner: the payer by its seal, or
\* the payee by its seal or by its token.
Owned(x, S, change) ==
    \/ change = ChangeVout /\ <<x.addr, Out(tx, ChangeVout)>> \in S
    \/ /\ <<x.addr, Out(tx, PayeeVout)>> \in S
       /\ x.auth \in PayeeTokens /\ x.auth[1] = "seal"
    \/ /\ x.auth \in PayeeTokens /\ x.auth[1] = "token"
       /\ x.by = "script" \/ x.addr[3] = 1

MadePlaced == \A x \in live : x.addr[1] = tx => Owned(x, defined, job.change)

Inv ==
    /\ TypeOK /\ JobShape /\ Addresses /\ OwnSeals /\ OwnOutpoints
    /\ Asked /\ ToMake /\ Apart /\ Applied /\ MadePlaced
    /\ Conserved /\ Accounted

-----------------------------------------------------------------------------
\* What a sequence holds is its first element or in its tail.
LEMMA TailRange ==
    ASSUME NEW s, s \in Seq(Range(s)), s # <<>>
    PROVE  /\ Head(s) \in Range(s) /\ Range(Tail(s)) \subseteq Range(s)
           /\ \A r \in Range(s) : r = Head(s) \/ r \in Range(Tail(s))
<1>1. Head(s) \in Range(s) /\ Range(Tail(s)) \subseteq Range(s)
  BY SubSeqRange DEF Range
<1>2. ASSUME NEW r \in Range(s), r # Head(s) PROVE r \in Range(Tail(s))
  <2>1. PICK i \in DOMAIN s : r = s[i]
    BY DEF Range
  <2>2. i # 1
    BY <1>2, <2>1, SubSeqRange
  <2>3. i - 1 \in DOMAIN Tail(s) /\ Tail(s)[i - 1] = r
    BY <2>1, <2>2, SubSeqRange
  <2>4. QED
    BY <2>3 DEF Range
<1>3. QED
  BY <1>1, <1>2

\* A state is seen on one outpoint.
LEMMA ShownOnce ==
    ASSUME Addresses
    PROVE  \A x, o, p : Shown(x, o) /\ Shown(x, p) => o = p
  BY DEF Addresses, Shown

\* The wallet uses what it sees on an outpoint from there.
LEMMA SeatIs ==
    ASSUME Addresses, NEW x, NEW o \in Outpoints, Shown(x, o)
    PROVE  Seat(x) = o
<1>1. Shown(x, CHOOSE p \in Outpoints : Shown(x, p))
  OBVIOUS
<1>2. QED
  BY <1>1, ShownOnce DEF Seat

\* What is seen was issued, or made for a transaction that was paid, of which
\* there are the outpoints.
LEMMA ShownPaid ==
    ASSUME OwnSeals, NEW x, NEW o, Shown(x, o)
    PROVE  x.addr[1] \in {0} \union paid /\ o \in Existing
<1>1. <<x.addr, o>> \in defined /\ (o[1] = "tx" => o[2] \in paid)
  BY DEF Shown
<1>2. \/ x.addr[1] = 0 /\ o \in Utxos
      \/ o \in {Out(x.addr[1], PayeeVout), Out(x.addr[1], ChangeVout)}
  BY <1>1 DEF OwnSeals
<1>3. QED
  BY <1>1, <1>2 DEF Out, Existing

\* Transactions are paid for good, and with them the outpoints exist.
LEMMA SoundStays ==
    ASSUME paid \subseteq paid'
    PROVE  \A r : Sound(r) => Sound(r)'
BY DEF Sound, Existing

\* On outpoints that exist nothing appears any more.
LEMMA WholeStays ==
    ASSUME NEW r, Sound(r), Whole(r), \A x, o : o \in Existing /\ Shown(x, o)' => Shown(x, o)
    PROVE  Whole(r)'
BY DEF Sound, Whole, Shown

\* What state_own tells of an allocation, when no bundle is half way.
LEMMA OwnFacts ==
    ASSUME TypeOK, Addresses, OwnSeals, NEW c, NEW name, NEW x \in Own(c, name)
    PROVE  /\ x \in live /\ x.contract = c /\ x.name = name
           /\ x.amount \in Nat /\ x.addr[1] \in {0} \union paid
           /\ Seat(x) \in utxos /\ Seat(x) \in Existing /\ Shown(x, Seat(x))
<1>1. x \in live /\ x.contract = c /\ x.name = name
  BY DEF Own
<1>2. PICK o \in utxos : Shown(x, o)
  BY DEF Own
<1>3. Seat(x) = o
  BY <1>2, SeatIs DEF TypeOK
<1>4. x.amount \in Nat
  BY <1>1, PaymentAssumption DEF TypeOK
<1>5. x.addr[1] \in {0} \union paid /\ o \in Existing
  BY <1>2, ShownPaid
<1>6. QED
  BY <1>1, <1>2, <1>3, <1>4, <1>5

-----------------------------------------------------------------------------
\* At the beginning.
Issued(x) == [addr |-> x.addr, contract |-> x.contract, name |-> x.name,
              amount |-> x.amount, by |-> "issue", auth |-> <<"issued">>]

\* What was issued is what was issued.
LEMMA InitConserved == Init => Conserved
<1> SUFFICES ASSUME Init, NEW i \in Initial
             PROVE  Total({x \in live : x.contract = i.contract /\ x.name = i.name})
                      = Total({x \in Initial : x.contract = i.contract /\ x.name = i.name})
  BY DEF Conserved
<1> DEFINE S == {x \in Initial : x.contract = i.contract /\ x.name = i.name}
           T == {x \in live : x.contract = i.contract /\ x.name = i.name}
           f == [x \in S |-> x.amount]
           b == [x \in S |-> Issued(x)]
<1>1. IsFiniteSet(S)
  BY FS_Subset, PaymentAssumption
<1>2. T = {b[x] : x \in S}
  <2>1. live = {Issued(x) : x \in Initial}
    BY DEF Init, Issued
  <2>2. \A x \in Initial : Issued(x).contract = x.contract /\ Issued(x).name = x.name
    BY DEF Issued
  <2>3. QED
    BY <2>1, <2>2
<1>3. \A x \in S : f[x] \in Nat /\ f[x] = b[x].amount
  BY PaymentAssumption DEF Issued
<1>4. ASSUME NEW x \in S, NEW y \in S, b[x] = b[y] PROVE x = y
  <2>1. b[x].addr = x.addr /\ b[y].addr = y.addr
    BY DEF Issued
  <2>2. QED
    BY <1>4, <2>1, PaymentAssumption
<1>5. SumFunctionOnSet(f, S) = Total(S)
  BY DEF Total
<1> HIDE DEF S, T, f, b
<1>6. SumFunctionOnSet(f, S) = Total(T)
  BY <1>1, <1>2, <1>3, <1>4, TotalImage
<1>7. QED
  BY <1>5, <1>6 DEF S, T

\* The invariant holds at the beginning.
LEMMA InitInv == Init => Inv
<1> SUFFICES ASSUME Init PROVE Inv
  OBVIOUS
<1> USE PaymentAssumption
<1>1. live = {Issued(x) : x \in Initial}
  BY DEF Init, Issued
<1>2. \A x \in Initial : /\ Issued(x).addr = x.addr /\ Issued(x).contract = x.contract
                         /\ Issued(x).amount = x.amount /\ Issued(x).by = "issue"
  BY DEF Issued
<1>3. TypeOK
  BY <1>1, <1>2 DEF Init, TypeOK, Outpoints, ContractIds, Idle
<1>4. JobShape
  BY DEF Init, JobShape, JobFields, Idle, Running, Range
<1>5. Addresses
  <2>1. IsFiniteSet(live)
    <3> DEFINE b == [x \in Initial |-> Issued(x)]
    <3>1. IsFiniteSet({b[x] : x \in Initial})
      <4> HIDE DEF b
      <4>1. QED
        BY ImageFinite
    <3>2. QED
      BY <1>1, <3>1
  <2>2. QED
    BY <1>1, <1>2, <2>1 DEF Init, Addresses, Taken
<1>6. OwnSeals /\ OwnOutpoints
  <2>1. OwnSeals
    BY DEF Init, OwnSeals
  <2>2. ASSUME NEW x \in live PROVE \E o \in utxos \union spent : Shown(x, o)
    <3>1. PICK i \in Initial : x = Issued(i)
      BY <1>1
    <3>2. <<x.addr, i.on>> \in defined /\ i.on \in utxos /\ i.on[1] # "tx"
      BY <1>2, <3>1 DEF Init
    <3>3. QED
      BY <3>2 DEF Shown
  <2>3. QED
    BY <2>1, <2>2 DEF Init, OwnOutpoints
<1>7. Asked /\ ToMake /\ Apart /\ Applied
  BY DEF Init, Idle, Asked, ToMake, Apart, Applied, Range
<1>8. MadePlaced
  BY <1>1, <1>2 DEF Init, MadePlaced
<1>9. Accounted
  <2>1. \A x \in live : x.addr[1] = 0
    BY <1>1, <1>2
  <2>2. QED
    BY <1>6, <2>1 DEF Accounted, OwnOutpoints
<1>10. QED
  BY <1>3, <1>4, <1>5, <1>6, <1>7, <1>8, <1>9, InitConserved DEF Inv

-----------------------------------------------------------------------------
\* Nothing of the state changes: what is seen and found stays.
LEMMA StateStays ==
    ASSUME Inv, UNCHANGED <<live, made, defined, utxos, spent, paid>>
    PROVE  /\ OwnSeals' /\ OwnOutpoints' /\ Conserved' /\ Accounted'
           /\ \A r : Sound(r) => Sound(r)'
           /\ \A r : Whole(r) => Whole(r)'
<1>1. OwnSeals' /\ OwnOutpoints'
  BY DEF Inv, OwnSeals, OwnOutpoints, Shown
<1>2. Conserved' /\ Accounted'
  BY DEF Inv, Conserved, Accounted, Shown, Found, Consigned, ResolvedByPayee, Missed,
         RepeatsToken
<1>3. \A r : Sound(r) => Sound(r)'
  BY SoundStays
<1>4. \A r : Whole(r) => Whole(r)'
  BY DEF Whole, Shown
<1>5. QED
  BY <1>1, <1>2, <1>3, <1>4

\* A request is made: what it must be for the invariant to hold.
LEMMA AskInv ==
    ASSUME Inv, job = Idle, budget > 0, budget' = budget - 1, NEW r,
           requests' = requests \union {r},
           UNCHANGED <<live, made, defined, utxos, spent, paid, tx, job>>,
           Sound(r), r.by \in {"fulfill", "script"},
           \A j \in DOMAIN r.owned :
               \/ r.owned[j].seal = Change
               \/ r.owned[j].seal \in Beneficiaries /\ (r.by = "script" \/ j = 1),
           r.by = "fulfill" => Whole(r)
    PROVE  Inv'
<1>1. /\ OwnSeals' /\ OwnOutpoints' /\ Conserved' /\ Accounted'
      /\ \A q : Sound(q) => Sound(q)'
      /\ \A q : Whole(q) => Whole(q)'
  BY StateStays
<1>2. TypeOK'
  <2>1. budget' \in 0 .. MaxRequests
    BY PaymentAssumption DEF Inv, TypeOK
  <2>2. QED
    BY <2>1 DEF Inv, TypeOK, Outpoints
<1>3. JobShape' /\ Addresses'
  BY DEF Inv, JobShape, JobFields, Running, Addresses, Taken
<1>4. ToMake'
  BY <1>1 DEF Inv, ToMake, Placed
<1>5. Apart' /\ Applied' /\ MadePlaced'
  BY DEF Inv, Apart, Applied, MadePlaced, Owned
<1>6. Asked'
  BY <1>1 DEF Inv, Asked
<1>7. QED
  BY <1>1, <1>2, <1>3, <1>4, <1>5, <1>6 DEF Inv

\* fulfill: the change is what the selection and the others are in excess of
\* the value, and what is left of the outpoints did not fit.
LEMMA FulfillInv ==
    ASSUME Inv, NEW i \in Initial, NEW value \in 1 .. U64Max, NEW b \in Beneficiaries,
           Fulfill(i.contract, i.name, value, b)
    PROVE  Inv'
<1> DEFINE c == i.contract
           name == i.name
<1>1. PICK selected \in SUBSET Own(c, name), others \in SUBSET Own(c, name) :
          /\ selected # {}
          /\ Fits(selected)
          /\ Others(c, name, selected, others)
          /\ Total(selected \union others) >= value
          /\ requests' = requests \union
                {[by |-> "fulfill", contract |-> c, name |-> name,
                  using |-> selected \union others, closes |-> Seats(selected \union others),
                  owned |-> <<Assign(name, value, b)>>
                            \o DiffOfUsing(name, selected, selected \union others, value)]}
  BY DEF Fulfill
<1> DEFINE S == selected \union others
           r == [by |-> "fulfill", contract |-> c, name |-> name,
                 using |-> S, closes |-> Seats(S),
                 owned |-> <<Assign(name, value, b)>> \o Diff(name, Total(S) - value)]
<1>2. requests' = requests \union {r}
  BY <1>1 DEF DiffOfUsing
<1>3. /\ r.by = "fulfill" /\ r.contract = c /\ r.name = name
      /\ r.using = S /\ r.closes = Seats(S)
      /\ r.owned = <<Assign(name, value, b)>> \o Diff(name, Total(S) - value)
  OBVIOUS
<1>4. \A x \in S :
          /\ x \in live /\ x.contract = c /\ x.name = name
          /\ x.amount \in Nat /\ x.addr[1] \in {0} \union paid
          /\ Seat(x) \in utxos /\ Seat(x) \in Existing /\ Shown(x, Seat(x))
  BY OwnFacts DEF Inv
<1>5. IsFiniteSet(S) /\ S # {} /\ S \subseteq live
  BY <1>1, <1>4, FS_Subset DEF Inv, Addresses
<1>6. value <= Total(S) /\ Total(S) <= U64Max /\ value \in Nat /\ U64Max \in Nat
  <2>1. Total(S) \in Nat
    BY <1>4, <1>5, TotalNat
  <2>2. QED
    BY <1>1, <2>1, PaymentAssumption DEF Others, Fits
<1> HIDE DEF r
<1>7. /\ CheckRequest(r)
      /\ r.owned \in Seq(Range(r.owned))
      /\ \A j \in DOMAIN r.owned :
             /\ r.owned[j].amount \in 0 .. U64Max
             /\ j # 1 => r.owned[j].seal = Change
      /\ r.owned[1].seal = b
  <2>1. Invoiced(r, value, b)
    <3>1. \A x \in r.using : x.name = r.name /\ x.amount \in Nat
      BY <1>3, <1>4
    <3> HIDE DEF S
    <3>2. QED
      BY <1>3, <1>5, <1>6, <3>1 DEF Invoiced
  <2>2. QED
    BY <2>1, InvoicedBalances
<1>8. Sound(r)
  <2>1. r.closes \subseteq Existing
    BY <1>3, <1>4 DEF Seats
  <2>2. \A x \in r.using : /\ x.contract = r.contract /\ x.amount \in Nat
                           /\ x.addr[1] \in {0} \union paid
    BY <1>3, <1>4
  <2> HIDE DEF S
  <2>3. QED
    BY <1>3, <1>5, <1>7, <2>1, <2>2 DEF Sound, ContractIds
<1>9. Whole(r)
  <2> SUFFICES ASSUME NEW x \in live, x.contract = c, x.name = name,
                      NEW o \in Seats(S), Shown(x, o), x \notin S
               PROVE  ~Fits(S \union {x})
    BY <1>3 DEF Whole
  <2>1. o \in utxos /\ o \in Outpoints
    BY <1>4 DEF Seats, Inv, TypeOK
  <2>2. x \in Own(c, name) /\ Seat(x) = o
    BY <2>1, SeatIs DEF Own, Inv
  <2>3. o \in Seats(selected)
    BY <1>1 DEF Seats, Others, Beside
  <2>4. x \in Beside(c, name, selected) \ others
    BY <2>2, <2>3 DEF Beside
  <2>5. QED
    BY <1>1, <2>4 DEF Others
<1>10. QED
  <2>1. /\ job = Idle /\ budget > 0 /\ budget' = budget - 1
        /\ UNCHANGED <<live, made, defined, utxos, spent, paid, tx, job>>
    BY DEF Fulfill
  <2>2. \A j \in DOMAIN r.owned :
            \/ r.owned[j].seal = Change
            \/ r.owned[j].seal \in Beneficiaries /\ (r.by = "script" \/ j = 1)
    BY <1>7
  <2>3. r.by \in {"fulfill", "script"}
    BY <1>3
  <2> HIDE DEF S
  <2>4. QED
    BY <1>2, <1>8, <1>9, <2>1, <2>2, <2>3, AskInv

\* A script may ask for anything and use any state of one contract.
LEMMA ScriptInv ==
    ASSUME Inv, NEW s \in Scripts, Script(s)
    PROVE  Inv'
<1>1. PICK using \in SUBSET InState(s.contract), closes \in SUBSET Existing :
          requests' = requests \union
              {[by |-> "script", contract |-> s.contract, name |-> "",
                using |-> using, closes |-> closes, owned |-> s.owned]}
  BY DEF Script
<1> DEFINE r == [by |-> "script", contract |-> s.contract, name |-> "",
                 using |-> using, closes |-> closes, owned |-> s.owned]
<1>2. \A x \in using : /\ x \in live /\ x.contract = s.contract /\ x.amount \in Nat
                       /\ x.addr[1] \in {0} \union paid
  <2> SUFFICES ASSUME NEW x \in using
               PROVE  /\ x \in live /\ x.contract = s.contract /\ x.amount \in Nat
                      /\ x.addr[1] \in {0} \union paid
    OBVIOUS
  <2>1. x \in live /\ x.contract = s.contract /\ \E o \in Outpoints : Shown(x, o)
    BY <1>1 DEF InState
  <2>2. x.amount \in Nat
    BY <2>1, PaymentAssumption DEF Inv, TypeOK
  <2>3. QED
    BY <2>1, <2>2, ShownPaid DEF Inv
<1>3. IsFiniteSet(using)
  BY <1>2, FS_Subset DEF Inv, Addresses
<1>4. /\ r.by = "script" /\ r.contract = s.contract /\ r.owned = s.owned
      /\ r.using = using /\ r.closes = closes
  OBVIOUS
<1> HIDE DEF r
<1>5. Sound(r)
  BY <1>1, <1>2, <1>3, <1>4, PaymentAssumption DEF Sound
<1>6. \A j \in DOMAIN r.owned :
          r.owned[j].seal = Change \/ r.owned[j].seal \in Beneficiaries
  BY <1>4, PaymentAssumption
<1>7. QED
  <2>1. /\ job = Idle /\ budget > 0 /\ budget' = budget - 1
        /\ UNCHANGED <<live, made, defined, utxos, spent, paid, tx, job>>
    BY DEF Script
  <2>2. requests' = requests \union {r}
    BY <1>1 DEF r
  <2>3. QED
    BY <1>4, <1>5, <1>6, <2>1, <2>2, AskInv

-----------------------------------------------------------------------------
\* Whatever ends a bundle without the transaction.
LEMMA GiveUpInv ==
    ASSUME Inv, NEW at \in {"idle", "dead"}, Running, GiveUp(at)
    PROVE  Inv'
<1>1. /\ job' = [Idle EXCEPT !.at = at] /\ tx' = tx + 1
      /\ UNCHANGED <<live, made, defined, utxos, spent, paid, requests, budget>>
  BY DEF GiveUp
<1>2. /\ job'.at = at /\ job'.todo = <<>> /\ job'.asked = {} /\ job'.closes = {}
      /\ job'.contracts = {} /\ job'.change = NoVout /\ job'.ops = 0 /\ job'.astray = FALSE
  BY <1>1 DEF Idle
<1>3. tx \in 1 .. MaxTx /\ MaxTx \in Nat
  BY PaymentAssumption DEF Inv, TypeOK, JobShape
<1>4. TypeOK'
  <2>1. job'.astray \in BOOLEAN
    BY <1>2
  <2>2. tx' \in 1 .. MaxTx + 1 /\ paid' \subseteq 1 .. tx' - 1
    BY <1>1, <1>3 DEF Inv, TypeOK
  <2>3. Outpoints' = Outpoints
    BY DEF Outpoints
  <2>4. QED
    BY <1>1, <1>2, <2>1, <2>2, <2>3 DEF Inv, TypeOK
<1>5. JobShape'
  <2>1. <<>> \in Seq(Range(<<>>))
    OBVIOUS
  <2>2. (job = JobFields)'
    BY <1>1 DEF Idle, JobFields
  <2>3. ~Running' /\ ~job'.astray
    BY <1>2 DEF Running
  <2>4. job'.ops \in Nat /\ job'.change \in {ChangeVout, NoVout}
    BY <1>2
  <2>5. (job.todo \in Seq(Range(job.todo)))'
    BY <1>2, <2>1
  <2>6. QED
    BY <1>1, <1>2, <2>2, <2>3, <2>4, <2>5 DEF JobShape
<1>6. Addresses'
  <2>1. \A a : Taken(a) => Taken(a)'
    BY <1>1, <1>2, <1>3 DEF Taken
  <2>2. QED
    BY <1>1, <2>1 DEF Inv, Addresses
<1>7. /\ OwnSeals' /\ OwnOutpoints' /\ Conserved' /\ Accounted'
      /\ \A r : Sound(r) => Sound(r)'
      /\ \A r : Whole(r) => Whole(r)'
  BY <1>1, StateStays
<1>8. Asked' /\ ToMake' /\ Apart' /\ Applied'
  <2>1. Asked'
    BY <1>1, <1>7 DEF Inv, Asked
  <2>2. ToMake' /\ Apart' /\ Applied'
    BY <1>1, <1>2 DEF ToMake, Apart, Applied, Range
  <2>3. QED
    BY <2>1, <2>2
<1>9. MadePlaced'
  BY <1>1, <1>3 DEF Inv, MadePlaced, Addresses, Taken
<1>10. QED
  BY <1>4, <1>5, <1>6, <1>7, <1>8, <1>9 DEF Inv

-----------------------------------------------------------------------------
\* Noise that commits to an invoice is noise.
LEMMA WoutAuth ==
    ASSUME NEW w \in Wouts, NEW c, NEW no
    PROVE  Auth(c, no, [to |-> "vout", vout |-> PayeeVout, noise |-> WoutNoise(w)])
               \in PayeeTokens
<1> DEFINE seal == [to |-> "vout", vout |-> PayeeVout, noise |-> WoutNoise(w)]
<1>1. WoutNoise(w) # NoNoise
  BY DEF WoutNoise, NoNoise
<1>2. Noise(c, no, seal) = WoutNoise(w)
  BY <1>1 DEF Noise
<1>3. Auth(c, no, seal) = <<"seal", PayeeVout, WoutNoise(w)>>
  BY <1>2 DEF Auth
<1>4. QED
  BY <1>3 DEF PayeeTokens

\* resolve_seals changes nothing but the seals, and leaves none in the open.
LEMMA ResolvedFacts ==
    ASSUME Inv, NEW q \in requests,
           NEW resolver \in [Wouts -> {PayeeVout, NoVout}],
           NEW change \in {ChangeVout, NoVout},
           Resolvable(q, resolver, change)
    PROVE  LET r == Resolved(q, resolver, change)
           IN  /\ Sound(r) /\ r.by = q.by /\ r.using = q.using
               /\ \A j \in DOMAIN r.owned : Placed(r, j, change)
<1> DEFINE r == Resolved(q, resolver, change)
<1>1. /\ r.by = q.by /\ r.using = q.using /\ r.contract = q.contract /\ r.closes = q.closes
      /\ DOMAIN r.owned = DOMAIN q.owned
      /\ \A j \in DOMAIN q.owned :
             /\ r.owned[j].name = q.owned[j].name /\ r.owned[j].amount = q.owned[j].amount
             /\ r.owned[j].seal = PrefabSeal(q.owned[j].seal, resolver, change)
      /\ r.owned = [j \in DOMAIN q.owned |-> r.owned[j]]
  BY DEF Resolved
<1> HIDE DEF r
<1>2. Sound(q)
  BY DEF Inv, Asked
<1>3. CheckRequest(q) => CheckRequest(r)
  <2>1. /\ [j \in DOMAIN r.owned |-> r.owned[j].amount]
             = [j \in DOMAIN q.owned |-> q.owned[j].amount]
        /\ \A name : {j \in DOMAIN r.owned : r.owned[j].name = name}
                       = {j \in DOMAIN q.owned : q.owned[j].name = name}
    BY <1>1
  <2>2. \A name : SumOut(r, name) = SumOut(q, name) /\ SumIn(r, name) = SumIn(q, name)
    BY <1>1, <2>1 DEF SumOut, SumIn
  <2>3. NamesOf(r) = NamesOf(q)
    <3>1. \A n : n \in NamesOf(r) <=> \/ \E x \in r.using : n = x.name
                                     \/ \E j \in DOMAIN r.owned : n = r.owned[j].name
      BY DEF NamesOf
    <3>2. \A n : n \in NamesOf(q) <=> \/ \E x \in q.using : n = x.name
                                     \/ \E j \in DOMAIN q.owned : n = q.owned[j].name
      BY DEF NamesOf
    <3>3. /\ r.using = q.using /\ DOMAIN r.owned = DOMAIN q.owned
          /\ \A j \in DOMAIN q.owned : r.owned[j].name = q.owned[j].name
      BY <1>1
    <3>4. \A n : n \in NamesOf(r) <=> n \in NamesOf(q)
      BY <3>1, <3>2, <3>3
    <3>5. QED
      BY <3>4 DEF NamesOf
  <2>4. QED
    BY <2>2, <2>3 DEF CheckRequest
<1>4. r.owned \in Seq(Range(r.owned))
  <2>1. Len(q.owned) \in Nat /\ DOMAIN q.owned = 1 .. Len(q.owned)
    BY <1>2, SeqDomain DEF Sound
  <2>2. QED
    BY <1>1, <2>1, FunctionSeq
<1>5. Sound(r)
  BY <1>1, <1>2, <1>3, <1>4 DEF Sound
<1>6. ASSUME NEW j \in DOMAIN r.owned PROVE Placed(r, j, change)
  <2> DEFINE seal == q.owned[j].seal
  <2>1. \/ seal = Change
        \/ seal \in Beneficiaries /\ (r.by = "script" \/ j = 1)
    BY <1>1 DEF Inv, Asked
  <2>2. r.owned[j].seal = PrefabSeal(seal, resolver, change)
    BY <1>1
  <2>3. /\ seal.to = "wout" => resolver[seal.wout] # NoVout
        /\ seal.to = "change" => change # NoVout
    BY <1>1 DEF Resolvable
  <2> HIDE DEF seal
  <2>4. CASE seal = Change
    <3>1. seal.to = "change" /\ change = ChangeVout
      BY <2>3, <2>4 DEF Change
    <3>2. PrefabSeal(seal, resolver, change)
            = [to |-> "vout", vout |-> change, noise |-> NoNoise]
      BY <3>1 DEF PrefabSeal
    <3>3. QED
      BY <2>2, <3>1, <3>2 DEF Placed
  <2>5. ASSUME NEW w \in Wouts, seal = [to |-> "wout", wout |-> w],
               r.by = "script" \/ j = 1
        PROVE  Placed(r, j, change)
    <3>1. seal.to = "wout" /\ seal.wout = w /\ resolver[w] = PayeeVout
      BY <2>3, <2>5
    <3>2. PrefabSeal(seal, resolver, change)
            = [to |-> "vout", vout |-> PayeeVout, noise |-> WoutNoise(w)]
      BY <3>1 DEF PrefabSeal
    <3>3. QED
      BY <2>2, <2>5, <3>2, WoutAuth DEF Placed
  <2>6. ASSUME NEW t \in AuthTokens, seal = [to |-> "token", token |-> t],
               r.by = "script" \/ j = 1
        PROVE  Placed(r, j, change)
    <3>1. seal.to = "token" /\ seal.token = t
      BY <2>6
    <3>2. PrefabSeal(seal, resolver, change) = seal
      BY <3>1 DEF PrefabSeal
    <3>3. Auth(r.contract, j, seal) \in PayeeTokens
      BY <3>1 DEF Auth, PayeeTokens
    <3>4. QED
      BY <2>2, <2>6, <3>1, <3>2, <3>3 DEF Placed
  <2>7. QED
    BY <2>1, <2>4, <2>5, <2>6 DEF Beneficiaries
<1>7. QED
  BY <1>1, <1>5, <1>6 DEF r

\* A call of bundle begins.
LEMMA BeginInv ==
    ASSUME Inv, NEW chosen \in Selections, NEW resolver \in [Wouts -> {PayeeVout, NoVout}],
           NEW change \in {ChangeVout, NoVout}, BeginBundle(chosen, resolver, change)
    PROVE  Inv'
<1> DEFINE Res(q) == Resolved(q, resolver, change)
<1>1. /\ job = Idle /\ tx <= MaxTx
      /\ \A i \in DOMAIN chosen : Resolvable(chosen[i], resolver, change)
      /\ UNCHANGED <<live, made, defined, utxos, spent, paid, tx, requests, budget>>
  BY DEF BeginBundle
<1>2. job' = [at |-> "requests", todo |-> [i \in DOMAIN chosen |-> Res(chosen[i])],
              asked |-> {chosen[i] : i \in DOMAIN chosen}, closes |-> {}, contracts |-> {},
              change |-> change, ops |-> 0, astray |-> FALSE]
  BY DEF BeginBundle, Idle
<1> HIDE DEF Res
<1>3. /\ job'.at = "requests" /\ job'.todo = [i \in DOMAIN chosen |-> Res(chosen[i])]
      /\ job'.asked = {chosen[i] : i \in DOMAIN chosen}
      /\ job'.closes = {} /\ job'.contracts = {}
      /\ job'.change = change /\ job'.ops = 0 /\ job'.astray = FALSE
  BY <1>2
<1>4. PICK n \in 1 .. MaxRequests : chosen \in [1 .. n -> requests]
  BY DEF Selections
<1>5. /\ \A r \in Range(job'.todo) : \E i \in DOMAIN chosen : r = Res(chosen[i])
      /\ \A i \in DOMAIN chosen : Res(chosen[i]) \in Range(job'.todo)
      /\ \A i \in DOMAIN chosen : chosen[i] \in requests
  BY <1>3, <1>4 DEF Range
<1>6. job'.todo \in Seq(Range(job'.todo))
  <2>1. n \in Nat /\ DOMAIN chosen = 1 .. n
    BY <1>4
  <2>2. DOMAIN job'.todo = 1 .. n /\ job'.todo = [i \in 1 .. n |-> job'.todo[i]]
    BY <1>3, <2>1
  <2>3. QED
    BY <2>1, <2>2, FunctionSeq
<1>7. \A i \in DOMAIN chosen :
          LET r == Res(chosen[i])
          IN  /\ Sound(r) /\ r.by = chosen[i].by /\ r.using = chosen[i].using
              /\ \A j \in DOMAIN r.owned : Placed(r, j, change)
  BY <1>1, <1>5, ResolvedFacts DEF Res
<1>8. TypeOK'
  <2>1. job'.astray \in BOOLEAN
    BY <1>3
  <2>2. Outpoints' = Outpoints
    BY DEF Outpoints
  <2>3. QED
    BY <1>1, <1>3, <2>1, <2>2 DEF Inv, TypeOK
<1>9. JobShape'
  <2>1. (job = JobFields)'
    BY <1>2 DEF JobFields
  <2>2. job'.asked \subseteq requests'
    BY <1>1, <1>3, <1>5
  <2>3. QED
    BY <1>1, <1>3, <1>6, <2>1, <2>2 DEF Inv, JobShape, Running
<1>10. Addresses'
  BY <1>1, <1>3 DEF Inv, Addresses, Taken, Idle
<1>11. /\ OwnSeals' /\ OwnOutpoints' /\ Conserved' /\ Accounted'
       /\ \A r : Sound(r) => Sound(r)'
       /\ \A r : Whole(r) => Whole(r)'
  BY <1>1, StateStays
<1>12. Asked'
  BY <1>1, <1>11 DEF Inv, Asked
<1>13. ToMake'
  <2>1. ASSUME NEW r \in Range(job'.todo)
        PROVE  /\ Sound(r)' /\ r.by \in {"fulfill", "script"}
               /\ \A j \in DOMAIN r.owned : Placed(r, j, job'.change)
    BY <1>3, <1>5, <1>7, <1>11 DEF Inv, Asked
  <2>2. QED
    BY <1>3, <2>1 DEF ToMake, Placed
<1>14. Apart'
  BY <1>3 DEF Apart
<1>15. Applied'
  BY <1>3, <1>5, <1>7 DEF Applied
<1>16. MadePlaced'
  BY <1>1 DEF Inv, MadePlaced, Addresses, Taken, Idle
<1>17. QED
  BY <1>8, <1>9, <1>10, <1>11, <1>12, <1>13, <1>14, <1>15, <1>16 DEF Inv

-----------------------------------------------------------------------------
\* What an operation adds is new and has an owner.
NewOutputs(r, op) ==
    /\ IsFiniteSet(Outputs(r, op))
    /\ Outputs(r, op) \intersect (live \union made) = {}
    /\ \A x \in Outputs(r, op) :
           /\ x.addr[1] = tx /\ x.addr[2] = op /\ x.addr[3] \in Nat \ {0}
           /\ ~Taken(x.addr)
           /\ x.contract = r.contract /\ x.by = r.by /\ x.amount \in 0 .. U64Max
           /\ Owned(x, Seals(r, op), job.change)
    /\ \A d \in Seals(r, op) :
           /\ ~Taken(d[1]) /\ d[1][1] = tx /\ d[1][2] = op
           /\ d[2] \in {Out(tx, PayeeVout), Out(tx, ChangeVout)}
    /\ \A d, e \in Seals(r, op) : d[1] = e[1] => d[2] = e[2]

\* It is so for the operation prefab makes next.
LEMMA OutputFacts ==
    ASSUME Inv, Making
    PROVE  NewOutputs(Head(job.todo), job.ops + 1)
<1> DEFINE r  == Head(job.todo)
           op == job.ops + 1
<1>1. /\ r \in Range(job.todo) /\ Sound(r)
      /\ \A j \in DOMAIN r.owned : Placed(r, j, job.change)
  BY TailRange DEF Inv, JobShape, Making, ToMake
<1>2. /\ Len(r.owned) \in Nat /\ DOMAIN r.owned = 1 .. Len(r.owned)
      /\ IsFiniteSet(DOMAIN r.owned)
  BY <1>1, SeqDomain DEF Sound
<1>3. tx \in Nat /\ job.ops \in Nat
  BY DEF Inv, TypeOK, JobShape
<1>4. \A i : ~Taken(<<tx, op, i>>)
  BY <1>3 DEF Taken
<1> DEFINE b == [i \in DOMAIN r.owned |->
                    [addr |-> <<tx, op, i>>, contract |-> r.contract,
                     name |-> r.owned[i].name, amount |-> r.owned[i].amount, by |-> r.by,
                     auth |-> Auth(r.contract, i, r.owned[i].seal)]]
<1>5. Outputs(r, op) = {b[i] : i \in DOMAIN r.owned}
  BY DEF Outputs
<1>6. IsFiniteSet(Outputs(r, op))
  <2> HIDE DEF b
  <2>1. QED
    BY <1>2, <1>5, ImageFinite
<1>7. \A i \in DOMAIN r.owned :
          /\ b[i].addr = <<tx, op, i>> /\ b[i].contract = r.contract /\ b[i].by = r.by
          /\ b[i].amount = r.owned[i].amount
          /\ b[i].auth = Auth(r.contract, i, r.owned[i].seal)
  OBVIOUS
<1> HIDE DEF b, r
<1>8. ASSUME NEW x \in Outputs(r, op)
      PROVE  /\ x.addr[1] = tx /\ x.addr[2] = op /\ x.addr[3] \in Nat \ {0}
             /\ ~Taken(x.addr)
             /\ x.contract = r.contract /\ x.by = r.by /\ x.amount \in 0 .. U64Max
             /\ Owned(x, Seals(r, op), job.change)
  <2>1. PICK i \in DOMAIN r.owned : x = b[i]
    BY <1>5
  <2>2. /\ x.addr = <<tx, op, i>> /\ x.contract = r.contract /\ x.by = r.by
        /\ x.amount = r.owned[i].amount
        /\ x.auth = Auth(r.contract, i, r.owned[i].seal)
    BY <1>7, <2>1
  <2>3. i \in Nat \ {0}
    BY <1>2
  <2>4. x.amount \in 0 .. U64Max
    BY <1>1, <2>2 DEF Sound
  <2>5. Owned(x, Seals(r, op), job.change)
    <3> DEFINE seal == r.owned[i].seal
    <3>1. Placed(r, i, job.change)
      BY <1>1
    <3>2. seal.to = "vout" => <<x.addr, Out(tx, seal.vout)>> \in Seals(r, op)
      BY <2>2 DEF Seals
    <3>3. /\ seal.to = "vout" => x.auth[1] = "seal"
          /\ seal.to = "token" => x.auth[1] = "token"
      BY <2>2 DEF Auth
    <3> HIDE DEF seal
    <3>4. x.addr[3] = i
      BY <2>2
    <3>5. \/ seal.to = "vout" /\ seal.vout = ChangeVout /\ job.change = ChangeVout
          \/ seal.to = "vout" /\ seal.vout = PayeeVout /\ x.auth \in PayeeTokens
          \/ seal.to = "token" /\ x.auth \in PayeeTokens /\ (x.by = "script" \/ i = 1)
      BY <2>2, <3>1 DEF Placed, seal
    <3>6. QED
      BY <3>2, <3>3, <3>4, <3>5 DEF Owned
  <2>6. QED
    BY <1>4, <2>2, <2>3, <2>4, <2>5
<1>9. Outputs(r, op) \intersect (live \union made) = {}
  BY <1>8 DEF Inv, Addresses
<1>10. ASSUME NEW d \in Seals(r, op)
       PROVE  \E i \in DOMAIN r.owned :
                  /\ d[1] = <<tx, op, i>> /\ r.owned[i].seal.vout \in {PayeeVout, ChangeVout}
                  /\ d[2] = Out(tx, r.owned[i].seal.vout)
  <2>1. PICK i \in DOMAIN r.owned : /\ r.owned[i].seal.to = "vout"
                                    /\ d = <<<<tx, op, i>>, Out(tx, r.owned[i].seal.vout)>>
    BY DEF Seals
  <2>2. r.owned[i].seal.vout \in {PayeeVout, ChangeVout}
    <3>1. Placed(r, i, job.change)
      BY <1>1
    <3>2. QED
      BY <2>1, <3>1 DEF Placed
  <2>3. QED
    BY <2>1, <2>2
<1>11. \A d \in Seals(r, op) :
           /\ ~Taken(d[1]) /\ d[1][1] = tx /\ d[1][2] = op
           /\ d[2] \in {Out(tx, PayeeVout), Out(tx, ChangeVout)}
  <2>1. ASSUME NEW d \in Seals(r, op)
        PROVE  /\ ~Taken(d[1]) /\ d[1][1] = tx /\ d[1][2] = op
               /\ d[2] \in {Out(tx, PayeeVout), Out(tx, ChangeVout)}
    <3>1. PICK i \in DOMAIN r.owned :
              /\ d[1] = <<tx, op, i>> /\ r.owned[i].seal.vout \in {PayeeVout, ChangeVout}
              /\ d[2] = Out(tx, r.owned[i].seal.vout)
      BY <1>10
    <3>2. ~Taken(<<tx, op, i>>)
      BY <1>4
    <3>3. QED
      BY <3>1, <3>2
  <2>2. QED
    BY <2>1
<1>12. \A d, e \in Seals(r, op) : d[1] = e[1] => d[2] = e[2]
  <2>1. ASSUME NEW d \in Seals(r, op), NEW e \in Seals(r, op), d[1] = e[1]
        PROVE  d[2] = e[2]
    <3>1. PICK i \in DOMAIN r.owned :
              d[1] = <<tx, op, i>> /\ d[2] = Out(tx, r.owned[i].seal.vout)
      BY <1>10
    <3>2. PICK j \in DOMAIN r.owned :
              e[1] = <<tx, op, j>> /\ e[2] = Out(tx, r.owned[j].seal.vout)
      BY <1>10
    <3>3. i = j
      <4>1. d[1][3] = i /\ e[1][3] = j
        BY <3>1, <3>2
      <4>2. QED
        BY <2>1, <4>1
    <3>4. QED
      BY <3>1, <3>2, <3>3
  <2>2. QED
    BY <2>1
<1>13. QED
  BY <1>6, <1>8, <1>9, <1>11, <1>12 DEF NewOutputs, r

\* The state of a contract under a name.
Named(X, c, n) == {x \in X : x.contract = c /\ x.name = n}

\* An operation that passes the check takes and gives the same of each name.
LEMMA PrefabBalanced ==
    ASSUME Inv, Prefab, NEW c, NEW n
    PROVE  Total(Named(Head(job.todo).using, c, n))
             = Total(Named(Outputs(Head(job.todo), job.ops + 1), c, n))
<1> DEFINE r == Head(job.todo)
           O == Outputs(r, job.ops + 1)
           K(X) == Named(X, c, n)
<1>1. Making /\ CheckRequest(r)
  BY DEF Prefab
<1>2. \A x \in O : x.contract = r.contract
  BY <1>1, OutputFacts DEF NewOutputs
<1>3. r \in Range(job.todo) /\ Sound(r)
  BY <1>1, TailRange DEF Inv, JobShape, Making, ToMake
<1> HIDE DEF O
<1>4. \A x \in r.using : x.contract = r.contract
  BY <1>3 DEF Sound
<1>5. CASE c # r.contract
  <2>1. K(r.using) = {} /\ K(O) = {}
    BY <1>2, <1>4, <1>5 DEF Named
  <2>2. QED
    BY <2>1 DEF O
<1>6. CASE c = r.contract
  <2>1. K(O) = {x \in O : x.name = n}
    BY <1>2, <1>6 DEF Named
  <2>2. K(r.using) = {x \in r.using : x.name = n}
    BY <1>4, <1>6 DEF Named
  <2>3. Total(K(r.using)) = SumIn(r, n)
    BY <2>2 DEF SumIn
  <2>4. /\ r.owned \in Seq(Range(r.owned))
        /\ \A j \in DOMAIN r.owned : r.owned[j].amount \in Nat
    <3>1. \A a \in 0 .. U64Max : a \in Nat
      BY PaymentAssumption
    <3>2. QED
      BY <1>3, <3>1 DEF Sound
  <2>5. Total({x \in O : x.name = n}) = SumOut(r, n)
    <3> HIDE DEF r
    <3>1. QED
      BY <2>4, OutputsTotal DEF O
  <2>6. CASE n \in NamesOf(r)
    BY <1>1, <2>1, <2>3, <2>5, <2>6 DEF CheckRequest, O
  <2>7. CASE n \notin NamesOf(r)
    <3>1. {x \in r.using : x.name = n} = {}
      BY <2>7 DEF NamesOf
    <3>2. K(r.using) = {}
      BY <2>2, <3>1
    <3>3. {j \in DOMAIN r.owned : r.owned[j].name = n} = {}
      BY <2>7 DEF NamesOf
    <3>4. SumOut(r, n) = 0
      BY <3>3, SumStep, FS_EmptySet DEF SumOut
    <3>5. QED
      BY <2>1, <2>5, <3>2, <3>4, TotalEmpty DEF O
  <2>8. QED
    BY <2>6, <2>7
<1>7. QED
  BY <1>5, <1>6

\* So the sum of each kind of state stays what it was.
LEMMA PrefabConserved == Inv /\ Prefab => Conserved'
<1> SUFFICES ASSUME Inv, Prefab, NEW i \in Initial
             PROVE  Total({x \in live' : x.contract = i.contract /\ x.name = i.name})
                      = Total({x \in Initial : x.contract = i.contract /\ x.name = i.name})
  BY DEF Conserved
<1> DEFINE r == Head(job.todo)
           O == Outputs(r, job.ops + 1)
           K(X) == Named(X, i.contract, i.name)
<1>1. /\ Making /\ r.using \subseteq live
      /\ live' = (live \ r.using) \union O
  BY DEF Prefab
<1>2. \A a \in 0 .. U64Max : a \in Nat
  BY PaymentAssumption
<1>3. /\ IsFiniteSet(O) /\ O \intersect live = {}
      /\ \A x \in O : x.amount \in Nat
  <2>1. /\ IsFiniteSet(O) /\ O \intersect (live \union made) = {}
        /\ \A x \in O : x.amount \in 0 .. U64Max
    BY <1>1, OutputFacts DEF NewOutputs
  <2>2. QED
    BY <1>2, <2>1
<1>4. Total(K(r.using)) = Total(K(O))
  BY PrefabBalanced
<1> HIDE DEF O
<1>5. IsFiniteSet(live) /\ \A x \in live : x.amount \in Nat
  BY <1>2 DEF Inv, Addresses, TypeOK
<1>6. K(live') = (K(live) \ K(r.using)) \union K(O)
  BY <1>1 DEF Named
<1>7. IsFiniteSet(K(live)) /\ IsFiniteSet(K(O))
  BY <1>3, <1>5, FS_Subset DEF Named
<1>8. /\ K(r.using) \in SUBSET K(live) /\ K(live) \intersect K(O) = {}
      /\ \A x \in K(live) \union K(O) : x.amount \in Nat
  BY <1>1, <1>3, <1>5 DEF Named
<1>9. Total(K(live')) = Total(K(live))
  <2> HIDE DEF K, r
  <2>1. QED
    BY <1>4, <1>6, <1>7, <1>8, TotalReplace
<1>10. Total(K(live)) = Total(K(Initial))
  BY DEF Inv, Conserved, Named
<1>11. QED
  BY <1>9, <1>10 DEF Named

\* prefab applies a request of the bundle.
LEMMA PrefabInv == Inv /\ Prefab => Inv'
<1> SUFFICES ASSUME Inv, Prefab PROVE Inv'
  OBVIOUS
<1> DEFINE r == Head(job.todo)
           op == job.ops + 1
           O == Outputs(r, op)
           D == Seals(r, op)
<1>1. /\ Making /\ r.using \subseteq live
      /\ live' = (live \ r.using) \union O
      /\ made' = made \union O
      /\ defined' = defined \union D
      /\ UNCHANGED <<utxos, spent, paid, tx, requests, budget>>
  BY DEF Prefab
<1>2. job' = [at |-> job.at, todo |-> Tail(job.todo), asked |-> job.asked,
              closes |-> job.closes \union r.closes,
              contracts |-> job.contracts \union {r.contract},
              change |-> job.change, ops |-> op, astray |-> job.astray \/ ~Straight(r)]
  BY DEF Prefab, Inv, JobShape, JobFields
<1>3. /\ IsFiniteSet(O) /\ O \intersect (live \union made) = {}
      /\ \A x \in O :
             /\ x.addr[1] = tx /\ x.addr[2] = op /\ x.addr[3] \in Nat \ {0}
             /\ ~Taken(x.addr)
             /\ x.contract = r.contract /\ x.by = r.by /\ x.amount \in 0 .. U64Max
             /\ Owned(x, D, job.change)
      /\ \A d \in D :
             /\ ~Taken(d[1]) /\ d[1][1] = tx /\ d[1][2] = op
             /\ d[2] \in {Out(tx, PayeeVout), Out(tx, ChangeVout)}
      /\ \A d, e \in D : d[1] = e[1] => d[2] = e[2]
  BY <1>1, OutputFacts DEF NewOutputs
<1>4. /\ r \in Range(job.todo) /\ Range(Tail(job.todo)) \subseteq Range(job.todo)
      /\ \A q \in Range(job.todo) : q = r \/ q \in Range(Tail(job.todo))
      /\ Sound(r)
  BY <1>1, TailRange DEF Inv, JobShape, Making, ToMake
<1>5. Running /\ tx \in 1 .. MaxTx /\ tx \notin paid /\ job.ops \in Nat /\ MaxTx \in Nat
  BY <1>1, PaymentAssumption DEF Inv, TypeOK, JobShape, Running, Making
<1> HIDE DEF O, D, r
<1>6. /\ job'.at = job.at /\ job'.todo = Tail(job.todo) /\ job'.asked = job.asked
      /\ job'.closes = job.closes \union r.closes /\ job'.astray \in BOOLEAN
      /\ job'.contracts = job.contracts \union {r.contract}
      /\ job'.change = job.change /\ job'.ops = op
  BY <1>2 DEF Inv, TypeOK
<1>7. r.closes \subseteq Outpoints
  <2>1. paid \subseteq 1 .. MaxTx
    BY <1>5 DEF Inv, TypeOK
  <2>2. QED
    BY <1>4, <2>1 DEF Sound, Existing, Outpoints
<1>8. \A a : Taken(a) => Taken(a)'
  BY <1>1, <1>5, <1>6 DEF Taken
<1>9. \A x, o : Shown(x, o)' => x \in live \ r.using /\ Shown(x, o)
  <2> SUFFICES ASSUME NEW x, NEW o, Shown(x, o)'
               PROVE  x \in live \ r.using /\ Shown(x, o)
    OBVIOUS
  <2>1. x \in live' /\ <<x.addr, o>> \in defined' /\ (o[1] = "tx" => o[2] \in paid)
    BY <1>1 DEF Shown
  <2>2. <<x.addr, o>> \notin D
    <3>1. ASSUME <<x.addr, o>> \in D PROVE FALSE
      <4>1. o \in {Out(tx, PayeeVout), Out(tx, ChangeVout)}
        BY <1>3, <3>1
      <4>2. o[1] = "tx" /\ o[2] = tx
        BY <4>1 DEF Out
      <4>3. QED
        BY <1>5, <2>1, <4>2
    <3>2. QED
      BY <3>1
  <2>3. <<x.addr, o>> \in defined
    BY <1>1, <2>1, <2>2
  <2>4. Taken(x.addr)
    BY <2>3 DEF Inv, Addresses
  <2>5. x \notin O
    BY <1>3, <2>4
  <2>6. QED
    BY <1>1, <2>1, <2>3, <2>5 DEF Shown
<1>10. \A x, o : x \in live' /\ Shown(x, o) => Shown(x, o)'
  BY <1>1 DEF Shown
<1>11. TypeOK'
  <2>1. \A d \in D : d[2] \in Outpoints
    BY <1>3, <1>5 DEF Outpoints
  <2>2. /\ \A x \in live' : x.by = "issue" \/ x \in made'
        /\ \A x \in (live \union made)' :
               x.amount \in 0 .. U64Max /\ x.contract \in ContractIds
    BY <1>1, <1>3, <1>4 DEF Inv, TypeOK, Sound
  <2>3. \A d \in defined' : d[2] \in Outpoints
    BY <1>1, <2>1 DEF Inv, TypeOK
  <2>4. job'.closes \subseteq Outpoints /\ job'.contracts \subseteq ContractIds
    BY <1>4, <1>6, <1>7 DEF Inv, TypeOK, Sound
  <2>5. QED
    BY <1>1, <1>6, <2>2, <2>3, <2>4 DEF Inv, TypeOK, Outpoints
<1>12. JobShape'
  <2>1. (job = JobFields)'
      BY <1>2 DEF JobFields
  <2>2. Tail(job.todo) \in Seq(Range(Tail(job.todo)))
    BY <1>1, SubSeqRange DEF Inv, JobShape, Making
  <2>3. op \in Nat /\ Running'
    BY <1>5, <1>6 DEF Running
  <2> HIDE DEF op
  <2>4. QED
    BY <1>1, <1>5, <1>6, <2>1, <2>2, <2>3 DEF Inv, JobShape
<1>13. Addresses'
  <2>1. IsFiniteSet(live')
    BY <1>1, <1>3, FS_Subset, FS_Union DEF Inv, Addresses
  <2>2. \A a : a[1] = tx /\ a[2] = op => Taken(a)'
    BY <1>1, <1>5, <1>6 DEF Taken
  <2>3. \A x \in (live \union made)' : Taken(x.addr)'
    BY <1>1, <1>3, <1>8, <2>2 DEF Inv, Addresses
  <2>4. \A y \in made' : y.addr[3] \in Nat \ {0}
    BY <1>1, <1>3 DEF Inv, Addresses
  <2>5. \A d \in defined' : Taken(d[1])'
    BY <1>1, <1>3, <1>8, <2>2 DEF Inv, Addresses
  <2>6. \A d, e \in defined' : d[1] = e[1] => d[2] = e[2]
    BY <1>1, <1>3 DEF Inv, Addresses
  <2>7. QED
    BY <2>1, <2>3, <2>4, <2>5, <2>6 DEF Addresses
<1>14. OwnSeals' /\ OwnOutpoints'
  <2>1. OwnSeals'
    BY <1>1, <1>3 DEF Inv, OwnSeals
  <2>2. ASSUME NEW x \in live', x.addr[1] = 0
        PROVE  \E o \in utxos \union spent : Shown(x, o)'
    <3>1. x \in live
      BY <1>1, <1>3, <1>5, <2>2
    <3>2. QED
      BY <1>10, <2>2, <3>1 DEF Inv, OwnOutpoints
  <2>3. QED
    BY <1>1, <2>1, <2>2 DEF Inv, OwnOutpoints
<1>15. \A q : Sound(q) => Sound(q)'
  BY <1>1, SoundStays
<1>16. Asked'
  <2>1. \A q : Whole(q) => Whole(q)'
    BY <1>9 DEF Whole
  <2>2. QED
    BY <1>1, <1>15, <2>1 DEF Inv, Asked
<1>17. ToMake'
  BY <1>4, <1>6, <1>15 DEF Inv, ToMake
<1>18. Apart'
  <2> SUFFICES ASSUME job.at = "blanks"
               PROVE  /\ \A q \in Range(job'.todo) : q.using \subseteq live'
                      /\ \A i, j \in DOMAIN job'.todo :
                             job'.todo[i].contract = job'.todo[j].contract => i = j
    BY <1>6 DEF Apart
  <2>1. /\ job.todo \in Seq(Range(job.todo)) /\ job.todo # <<>>
        /\ \A i, j \in DOMAIN job.todo :
               job.todo[i].contract = job.todo[j].contract => i = j
        /\ \A q \in Range(job.todo) : q.using \subseteq live
    BY <1>1 DEF Inv, JobShape, Apart, Making
  <2> DEFINE s == job.todo
             t == Tail(s)
  <2>2. /\ r = s[1] /\ 1 \in DOMAIN s /\ DOMAIN s = 1 .. Len(s) /\ Len(s) \in Nat
        /\ DOMAIN t = 1 .. Len(t) /\ Len(t) \in Nat
        /\ \A i \in DOMAIN t : i + 1 \in DOMAIN s /\ t[i] = s[i + 1]
    BY <2>1, SubSeqRange, SeqDomain DEF r
  <2> HIDE DEF s, t
  <2>3. \A i, j \in DOMAIN t : t[i].contract = t[j].contract => i = j
    <3> SUFFICES ASSUME NEW i \in DOMAIN t, NEW j \in DOMAIN t,
                        t[i].contract = t[j].contract
                 PROVE  i = j
      OBVIOUS
    <3>1. i + 1 = j + 1
      BY <2>1, <2>2 DEF s
    <3>2. i \in Nat /\ j \in Nat
      BY <2>2
    <3>3. QED
      BY <3>1, <3>2
  <2>4. ASSUME NEW q \in Range(t) PROVE q.using \subseteq live'
    <3>1. PICK i \in DOMAIN t : q = t[i]
      BY DEF Range
    <3>2. q = s[i + 1] /\ i + 1 \in DOMAIN s /\ i + 1 # 1
      BY <2>2, <3>1
    <3>3. q.contract # r.contract
      BY <2>1, <2>2, <3>2 DEF s
    <3>4. q \in Range(job.todo) /\ Sound(q)
      BY <3>2 DEF Range, s, Inv, ToMake
    <3>5. q.using \intersect r.using = {}
      BY <1>4, <3>3, <3>4 DEF Sound
    <3>6. QED
      BY <1>1, <2>1, <3>4, <3>5
  <2>5. QED
    BY <1>6, <2>3, <2>4 DEF s, t
<1>19. Applied'
  <2> SUFFICES ASSUME NEW q \in job.asked
               PROVE  \/ q.using \intersect live' = {}
                      \/ job.at = "requests" /\ \E s \in Range(job'.todo) : s.using = q.using
    BY <1>6 DEF Applied
  <2>1. q.using \intersect O = {}
    <3>1. \A x \in q.using : x.addr[1] \in {0} \union paid
      BY DEF Inv, JobShape, Asked, Sound
    <3>2. tx \notin {0} \union paid
      BY <1>5
    <3>3. QED
      BY <1>3, <3>1, <3>2
  <2>2. CASE q.using \intersect live = {}
    BY <1>1, <2>1, <2>2
  <2>3. ASSUME job.at = "requests", NEW s \in Range(job.todo), s.using = q.using
        PROVE  \/ q.using \intersect live' = {}
               \/ \E p \in Range(job'.todo) : p.using = q.using
    <3>1. CASE s = r
      <4>1. q.using = r.using
        BY <2>3, <3>1
      <4>2. QED
        BY <1>1, <2>1, <4>1
    <3>2. CASE s # r
      BY <1>4, <1>6, <2>3, <3>2
    <3>3. QED
      BY <3>1, <3>2
  <2>4. QED
    BY <2>2, <2>3 DEF Inv, Applied
<1>20. MadePlaced'
  <2> SUFFICES ASSUME NEW x \in live', x.addr[1] = tx
               PROVE  Owned(x, defined', job.change)
    BY <1>1, <1>6 DEF MadePlaced, Owned
  <2>1. Owned(x, defined, job.change) \/ Owned(x, D, job.change)
    BY <1>1, <1>3 DEF Inv, MadePlaced
  <2>2. QED
    BY <1>1, <2>1 DEF Owned
<1>21. Accounted'
  <2> SUFFICES ASSUME NEW x \in live'
               PROVE  \/ \E o \in utxos \union spent : Shown(x, o)'
                      \/ x.addr[1] # 0 /\ x.addr[1] \notin paid
                      \/ Found(x)'
                      \/ Missed(x)'
    BY <1>1 DEF Accounted
  <2>1. CASE x \in O
    <3>1. x.addr[1] = tx
      BY <1>3, <2>1
    <3>2. tx # 0 /\ tx \notin paid
      BY <1>5
    <3>3. QED
      BY <3>1, <3>2
  <2>2. CASE x \in live
    <3>1. RepeatsToken(x) <=> RepeatsToken(x)'
      <4>1. \A y \in O : ~(y.addr[1] = x.addr[1] /\ y.addr[2] = x.addr[2])
        <5>1. Taken(x.addr)
          BY <2>2 DEF Inv, Addresses
        <5>2. QED
          BY <1>3, <5>1 DEF Taken
      <4>2. QED
        BY <1>1, <4>1 DEF RepeatsToken
    <3>2. \/ \E o \in utxos \union spent : Shown(x, o)
          \/ x.addr[1] # 0 /\ x.addr[1] \notin paid
          \/ Found(x)
          \/ Missed(x)
      BY <2>2 DEF Inv, Accounted
    <3>3. QED
      <4>1. (Found(x) => Found(x)') /\ (Missed(x) => Missed(x)')
        BY <1>1, <3>1 DEF Found, Consigned, ResolvedByPayee, Missed
      <4>2. QED
        BY <1>10, <2>2, <3>2, <4>1
  <2>3. QED
    BY <1>1, <2>1, <2>2
<1>22. QED
  BY <1>11, <1>12, <1>13, <1>14, <1>16, <1>17, <1>18, <1>19, <1>20, <1>21,
     PrefabConserved DEF Inv

-----------------------------------------------------------------------------
\* A blank request takes all that is on the outpoints and gives it to change.
LEMMA BlankFacts ==
    ASSUME Inv, job.at = "requests", ~BlankErr, NEW c \in BlankContracts
    PROVE  LET r == BlankRequest(c)
           IN  /\ r.by = "blank" /\ r.contract = c /\ Sound(r) /\ r.using \subseteq live
               /\ \A j \in DOMAIN r.owned : Placed(r, j, job.change)
<1> DEFINE r == BlankRequest(c)
           A == Affected(c)
           N == {n \in {x.name : x \in A} : Left(c, n) > 0}
           names == SetToSeq(N)
<1>1. \A x \in A : /\ x \in live /\ x.contract = c /\ x.amount \in Nat
                   /\ x.addr[1] \in {0} \union paid /\ Seat(x) \in Existing
  <2> SUFFICES ASSUME NEW x \in A
               PROVE  /\ x \in live /\ x.contract = c /\ x.amount \in Nat
                      /\ x.addr[1] \in {0} \union paid /\ Seat(x) \in Existing
    OBVIOUS
  <2>1. PICK o \in job.closes : Shown(x, o)
    BY DEF Affected
  <2>2. o \in Outpoints
    BY DEF Inv, TypeOK
  <2>3. Seat(x) = o
    BY <2>1, <2>2, SeatIs DEF Inv
  <2>4. x \in live /\ x.contract = c
    BY DEF Affected
  <2>5. x.amount \in Nat
    BY <2>4, PaymentAssumption DEF Inv, TypeOK
  <2>6. x.addr[1] \in {0} \union paid /\ o \in Existing
    BY <2>1, ShownPaid DEF Inv
  <2>7. QED
    BY <2>3, <2>4, <2>5, <2>6
<1>2. IsFiniteSet(A)
  BY <1>1, FS_Subset DEF Inv, Addresses
<1>3. IsFiniteSet(N)
  <2> DEFINE b == [x \in A |-> x.name]
  <2>1. IsFiniteSet({b[x] : x \in A})
    <3> HIDE DEF b, A
    <3>1. QED
      BY <1>2, ImageFinite
  <2>2. {b[x] : x \in A} = {x.name : x \in A}
    OBVIOUS
  <2> HIDE DEF b, A
  <2>3. QED
    BY <2>1, <2>2, FS_Subset
<1>4. \A n : Left(c, n) \in Nat
  <2> SUFFICES ASSUME NEW n PROVE Left(c, n) \in Nat
    OBVIOUS
  <2> DEFINE K == {x \in A : x.name = n}
  <2>1. IsFiniteSet(K) /\ \A x \in K : x.amount \in Nat
    BY <1>1, <1>2, FS_Subset
  <2>2. Total(K) \in Nat
    <3> HIDE DEF K
    <3>1. QED
      BY <2>1, TotalNat
  <2>3. QED
    BY <2>2 DEF Left
<1>5. \A n \in {x.name : x \in A} :
          Left(c, n) <= U64Max /\ (Left(c, n) > 0 => job.change = ChangeVout)
  <2>1. \A n \in {x.name : x \in A} :
            ~(Left(c, n) > U64Max) /\ ~(Left(c, n) > 0 /\ job.change = NoVout)
    BY DEF BlankErr
  <2>2. job.change \in {ChangeVout, NoVout} /\ U64Max \in Nat
    BY PaymentAssumption DEF Inv, JobShape
  <2> HIDE DEF A
  <2>3. QED
    BY <1>4, <2>1, <2>2
<1>6. /\ r.by = "blank" /\ r.contract = c
      /\ r.using = A /\ r.closes = Seats(A)
      /\ r.owned = [i \in DOMAIN names |->
                       Assign(names[i], Left(c, names[i]),
                              [to |-> "vout", vout |-> job.change,
                               noise |-> <<"seed", c, job.change, i>>])]
  BY DEF BlankRequest, BlankOwned
<1>7. /\ Cardinality(N) \in Nat /\ DOMAIN names = 1 .. Cardinality(N)
      /\ \A i \in DOMAIN names : names[i] \in N
      /\ \A i, j \in DOMAIN names : names[i] = names[j] => i = j
      /\ \A n \in N : \E i \in DOMAIN names : names[i] = n
  <2> HIDE DEF N
  <2>1. QED
    BY <1>3, SetToSeqFacts, FS_CardinalityType
<1> HIDE DEF r, names, A
<1>8. /\ DOMAIN r.owned = DOMAIN names
      /\ \A i \in DOMAIN names :
             /\ r.owned[i].name = names[i] /\ r.owned[i].amount = Left(c, names[i])
             /\ r.owned[i].seal.to = "vout" /\ r.owned[i].seal.vout = job.change
  BY <1>6 DEF Assign
<1>9. r.owned \in Seq(Range(r.owned))
  <2>1. /\ DOMAIN r.owned = 1 .. Cardinality(N)
        /\ r.owned = [i \in 1 .. Cardinality(N) |-> r.owned[i]]
    BY <1>6, <1>7, <1>8
  <2> HIDE DEF N
  <2>2. QED
    BY <1>7, <2>1, FunctionSeq
<1>10. \A i \in DOMAIN names : /\ Left(c, names[i]) \in 0 .. U64Max
                               /\ job.change = ChangeVout
  BY <1>4, <1>5, <1>7, PaymentAssumption
<1>11. CheckRequest(r)
  <2>1. NamesOf(r) \subseteq {x.name : x \in A}
    <3>1. ASSUME NEW x \in r.using PROVE x.name \in {y.name : y \in A}
      BY <1>6
    <3>2. ASSUME NEW i \in DOMAIN r.owned PROVE r.owned[i].name \in {x.name : x \in A}
      BY <1>7, <1>8
    <3>3. QED
      BY <3>1, <3>2 DEF NamesOf
  <2>2. ASSUME NEW n PROVE SumIn(r, n) = Left(c, n)
    <3>1. {x \in r.using : x.name = n} = {x \in A : x.name = n}
      BY <1>6
    <3>2. QED
      BY <3>1 DEF SumIn, Left, A
  <2>3. ASSUME NEW n \in {x.name : x \in A} PROVE SumOut(r, n) = Left(c, n)
    <3> DEFINE f == [i \in DOMAIN r.owned |-> r.owned[i].amount]
    <3>1. CASE Left(c, n) > 0
      <4>1. PICK i \in DOMAIN names : names[i] = n
        BY <1>7, <2>3, <3>1
      <4>2. {j \in DOMAIN r.owned : r.owned[j].name = n} = {i}
        BY <1>7, <1>8, <4>1
      <4>3. f[i] = Left(c, n)
        BY <1>8, <4>1
      <4>4. SumFunctionOnSet(f, {i}) = Left(c, n)
        <5> HIDE DEF f
        <5>1. QED
          BY <1>4, <4>3, SumOne
      <4>5. QED
        BY <4>2, <4>4 DEF SumOut
    <3>2. CASE ~(Left(c, n) > 0)
      <4>1. Left(c, n) = 0
        BY <1>4, <3>2
      <4>2. {j \in DOMAIN r.owned : r.owned[j].name = n} = {}
        BY <1>7, <1>8, <3>2
      <4>3. QED
        BY <4>1, <4>2, SumStep, FS_EmptySet DEF SumOut
    <3>3. QED
      BY <3>1, <3>2
  <2>4. QED
    BY <1>5, <2>1, <2>2, <2>3 DEF CheckRequest
<1>12. Sound(r)
  <2>1. c \in ContractIds
    BY DEF BlankContracts
  <2>2. IsFiniteSet(r.using) /\ r.closes \subseteq Existing
    BY <1>1, <1>2, <1>6 DEF Seats
  <2>3. \A x \in r.using : /\ x.contract = r.contract /\ x.amount \in Nat
                           /\ x.addr[1] \in {0} \union paid
    BY <1>1, <1>6
  <2>4. \A i \in DOMAIN r.owned : r.owned[i].amount \in 0 .. U64Max
    BY <1>8, <1>10
  <2>5. QED
    BY <1>6, <1>9, <1>11, <2>1, <2>2, <2>3, <2>4 DEF Sound
<1>13. \A j \in DOMAIN r.owned : Placed(r, j, job.change)
  BY <1>8, <1>10 DEF Placed
<1>14. r.using \subseteq live
  BY <1>1, <1>6
<1>15. QED
  BY <1>6, <1>12, <1>13, <1>14 DEF r

\* The contracts no request was for get a request each.
LEMMA BlanksInv == Inv /\ Blanks => Inv'
<1> SUFFICES ASSUME Inv, Blanks PROVE Inv'
  OBVIOUS
<1> DEFINE s == SetToSeq(BlankContracts)
<1>1. /\ job.at = "requests" /\ job.todo = <<>> /\ ~BlankErr
      /\ UNCHANGED <<live, made, defined, utxos, spent, paid, tx, requests, budget>>
  BY DEF Blanks
<1>2. job' = [at |-> "blanks", todo |-> [i \in DOMAIN s |-> BlankRequest(s[i])],
              asked |-> job.asked, closes |-> job.closes, contracts |-> job.contracts,
              change |-> job.change, ops |-> job.ops, astray |-> job.astray]
  BY DEF Blanks, Inv, JobShape, JobFields
<1>3. IsFiniteSet(BlankContracts)
  <2> DEFINE b == [x \in Initial |-> x.contract]
  <2>1. IsFiniteSet({b[x] : x \in Initial})
    <3> HIDE DEF b
    <3>1. QED
      BY PaymentAssumption, ImageFinite
  <2>2. {b[x] : x \in Initial} = ContractIds
    BY DEF ContractIds
  <2>3. BlankContracts \in SUBSET ContractIds
    BY DEF BlankContracts
  <2> HIDE DEF b
  <2>4. QED
    BY <2>1, <2>2, <2>3, FS_Subset
<1>4. /\ Cardinality(BlankContracts) \in Nat
      /\ DOMAIN s = 1 .. Cardinality(BlankContracts)
      /\ \A i \in DOMAIN s : s[i] \in BlankContracts
      /\ \A i, j \in DOMAIN s : s[i] = s[j] => i = j
  BY <1>3, SetToSeqFacts, FS_CardinalityType
<1> HIDE DEF s
<1>5. /\ job'.at = "blanks" /\ job'.asked = job.asked /\ job'.closes = job.closes
      /\ job'.contracts = job.contracts /\ job'.change = job.change /\ job'.ops = job.ops
      /\ job'.astray = job.astray
      /\ DOMAIN job'.todo = DOMAIN s
      /\ \A i \in DOMAIN s : job'.todo[i] = BlankRequest(s[i])
      /\ job'.todo = [i \in DOMAIN s |-> job'.todo[i]]
  BY <1>2
<1>6. \A c \in BlankContracts :
          LET r == BlankRequest(c)
          IN  /\ r.by = "blank" /\ r.contract = c /\ Sound(r) /\ r.using \subseteq live
              /\ \A j \in DOMAIN r.owned : Placed(r, j, job.change)
  BY <1>1, BlankFacts
<1>7. \A r \in Range(job'.todo) :
          /\ r.by = "blank" /\ Sound(r) /\ r.using \subseteq live
          /\ \A j \in DOMAIN r.owned : Placed(r, j, job.change)
  BY <1>4, <1>5, <1>6 DEF Range
<1>8. TypeOK'
  BY <1>1, <1>5 DEF Inv, TypeOK, Outpoints
<1>9. JobShape'
  <2>1. (job = JobFields)'
    BY <1>2 DEF JobFields
  <2>2. job'.todo \in Seq(Range(job'.todo))
    BY <1>4, <1>5, FunctionSeq
  <2>3. QED
    BY <1>1, <1>5, <2>1, <2>2 DEF Inv, JobShape, Running
<1>10. /\ Addresses' /\ OwnSeals' /\ OwnOutpoints' /\ Conserved' /\ Accounted'
       /\ \A r : Sound(r) => Sound(r)'
       /\ \A r : Whole(r) => Whole(r)'
  <2>1. Addresses'
    BY <1>1, <1>5 DEF Inv, Addresses, Taken
  <2>2. QED
    BY <1>1, <2>1, StateStays
<1>11. Asked'
  BY <1>1, <1>10 DEF Inv, Asked
<1>12. ToMake'
  BY <1>5, <1>7, <1>10 DEF ToMake
<1>13. Apart'
  <2>1. \A i, j \in DOMAIN job'.todo :
            job'.todo[i].contract = job'.todo[j].contract => i = j
    BY <1>4, <1>5, <1>6
  <2>2. QED
    BY <1>1, <1>7, <2>1 DEF Apart
<1>14. Applied'
  BY <1>1, <1>5 DEF Inv, Applied, Range
<1>15. MadePlaced'
  BY <1>1, <1>5 DEF Inv, MadePlaced, Owned
<1>16. QED
  BY <1>8, <1>9, <1>10, <1>11, <1>12, <1>13, <1>14, <1>15 DEF Inv

-----------------------------------------------------------------------------
\* The transaction of a bundle is paid.
LEMMA PayInv == Inv /\ Pay => Inv'
<1> SUFFICES ASSUME Inv, Pay PROVE Inv'
  OBVIOUS
<1> DEFINE new == IF job.change = NoVout THEN {} ELSE {Out(tx, job.change)}
<1>1. /\ Bundled /\ job.closes \subseteq utxos /\ paid' = paid \union {tx}
      /\ spent' = spent \union job.closes
      /\ utxos' = (utxos \ job.closes) \union new
      /\ tx' = tx + 1 /\ job' = Idle
      /\ UNCHANGED <<live, made, defined, requests, budget>>
  BY DEF Pay, Blocked
<1>2. /\ job'.at = "idle" /\ job'.todo = <<>> /\ job'.asked = {} /\ job'.closes = {}
      /\ job'.contracts = {} /\ job'.change = NoVout /\ job'.ops = 0 /\ job'.astray = FALSE
  BY <1>1 DEF Idle
<1>3. tx \in 1 .. MaxTx /\ tx \notin paid /\ MaxTx \in Nat /\ paid \subseteq 1 .. tx - 1
  BY <1>1, PaymentAssumption DEF Inv, TypeOK, JobShape, Running, Bundled
<1>4. /\ job.change = ChangeVout => new = {Out(tx, ChangeVout)}
      /\ new \subseteq {Out(tx, ChangeVout)}
  BY DEF Inv, JobShape, ChangeVout, NoVout
<1>5. Out(tx, ChangeVout) \notin utxos \union spent
  <2>1. \A n \in paid : n # tx
    BY <1>3
  <2>2. Out(tx, ChangeVout) \notin Utxos \union {Out(n, ChangeVout) : n \in paid}
    BY <2>1, PaymentAssumption DEF Out
  <2>3. QED
    BY <2>2 DEF Inv, OwnOutpoints
<1> HIDE DEF new
<1>6. TypeOK'
  <2>1. Out(tx, ChangeVout) \in Outpoints
    BY <1>3 DEF Outpoints
  <2>2. tx' \in 1 .. MaxTx + 1 /\ paid' \subseteq 1 .. tx' - 1
    BY <1>1, <1>3
  <2>3. utxos' \subseteq Outpoints /\ spent' \subseteq Outpoints /\ utxos' \intersect spent' = {}
    BY <1>1, <1>4, <1>5, <2>1 DEF Inv, TypeOK
  <2>4. Outpoints' = Outpoints
    BY DEF Outpoints
  <2>5. QED
    BY <1>1, <1>2, <2>2, <2>3, <2>4 DEF Inv, TypeOK
<1>7. JobShape'
  <2>1. <<>> \in Seq(Range(<<>>))
    OBVIOUS
  <2>2. (job = JobFields)'
    BY <1>1 DEF Idle, JobFields
  <2>3. ~Running'
    BY <1>2 DEF Running
  <2>4. QED
    BY <1>1, <1>2, <2>1, <2>2, <2>3 DEF JobShape
<1>8. Addresses'
  <2>1. \A a : Taken(a) => Taken(a)'
    BY <1>1, <1>2, <1>3 DEF Taken
  <2>2. QED
    BY <1>1, <2>1 DEF Inv, Addresses
<1>9. /\ OwnSeals' /\ OwnOutpoints' /\ utxos \union spent \subseteq (utxos \union spent)'
      /\ \A x, o : Shown(x, o) => Shown(x, o)'
      /\ \A x, o : o \in Existing /\ Shown(x, o)' => Shown(x, o)
  <2>1. OwnSeals'
    BY <1>1 DEF Inv, OwnSeals
  <2>2. \A x, o : Shown(x, o) => Shown(x, o)'
    BY <1>1 DEF Shown
  <2>3. utxos \union spent \subseteq (utxos \union spent)'
    BY <1>1
  <2>4. OwnOutpoints'
    BY <1>1, <1>4, <2>2, <2>3 DEF Inv, OwnOutpoints
  <2>5. ASSUME NEW x, NEW o \in Existing, Shown(x, o)' PROVE Shown(x, o)
    <3>1. o[1] = "tx" => o[2] \in paid
      BY PaymentAssumption DEF Existing, Out
    <3>2. QED
      BY <1>1, <2>5, <3>1 DEF Shown
  <2>6. QED
    BY <2>1, <2>2, <2>3, <2>4, <2>5
<1>10. Asked' /\ ToMake' /\ Apart' /\ Applied'
  <2>1. \A r \in requests : Sound(r)'
    BY <1>1, SoundStays DEF Inv, Asked
  <2>2. ASSUME NEW r \in requests, r.by = "fulfill" PROVE Whole(r)'
    BY <1>9, <2>2, WholeStays DEF Inv, Asked
  <2>3. Asked'
    BY <1>1, <2>1, <2>2 DEF Inv, Asked
  <2>4. ToMake' /\ Apart' /\ Applied'
    BY <1>1, <1>2 DEF ToMake, Apart, Applied, Range
  <2>5. QED
    BY <2>3, <2>4
<1>11. MadePlaced'
  BY <1>1, <1>3 DEF Inv, MadePlaced, Addresses, Taken
<1>12. Conserved'
  BY <1>1 DEF Inv, Conserved
<1>13. Accounted'
  <2> SUFFICES ASSUME NEW x \in live
               PROVE  \/ \E o \in (utxos \union spent)' : Shown(x, o)'
                      \/ x.addr[1] # 0 /\ x.addr[1] \notin paid'
                      \/ Found(x)'
                      \/ Missed(x)'
    BY <1>1 DEF Accounted
  <2>1. /\ Found(x) => Found(x)'
        /\ Missed(x) => Missed(x)'
    BY <1>1 DEF Found, Consigned, ResolvedByPayee, Missed, RepeatsToken
  <2>2. CASE x.addr[1] = tx
    <3>1. CASE job.change = ChangeVout /\ <<x.addr, Out(tx, ChangeVout)>> \in defined
      <4>1. PICK o : o = Out(tx, ChangeVout)
        OBVIOUS
      <4>2. o \in utxos'
        BY <1>1, <1>4, <3>1, <4>1
      <4>3. <<x.addr, o>> \in defined' /\ x \in live' /\ o[2] \in paid'
        BY <1>1, <3>1, <4>1 DEF Out
      <4>4. Shown(x, o)'
        BY <4>3 DEF Shown
      <4>5. QED
        BY <4>2, <4>4
    <3>2. CASE /\ <<x.addr, Out(tx, PayeeVout)>> \in defined
               /\ x.auth \in PayeeTokens /\ x.auth[1] = "seal"
      BY <2>1, <2>2, <3>2 DEF Found, Consigned
    <3>3. CASE /\ x.auth \in PayeeTokens /\ x.auth[1] = "token"
               /\ x.by = "script" \/ x.addr[3] = 1
      <4>1. x.addr[3] = 1 => ~RepeatsToken(x)
        BY DEF Inv, Addresses, RepeatsToken
      <4>2. QED
        BY <2>1, <3>3, <4>1 DEF Found, ResolvedByPayee, Missed
    <3>4. QED
      BY <2>2, <3>1, <3>2, <3>3 DEF Inv, MadePlaced, Owned
  <2>3. CASE x.addr[1] # tx
    BY <1>1, <1>9, <2>1, <2>3 DEF Inv, Accounted
  <2>4. QED
    BY <2>2, <2>3
<1>14. QED
  BY <1>6, <1>7, <1>8, <1>9, <1>10, <1>11, <1>12, <1>13 DEF Inv

-----------------------------------------------------------------------------
\* Every step keeps the invariant.
LEMMA NextInv == Inv /\ [Next]_vars => Inv'
<1> SUFFICES ASSUME Inv, [Next]_vars PROVE Inv'
  OBVIOUS
<1>1. ASSUME NEW x \in Initial, NEW value \in 1 .. U64Max, NEW b \in Beneficiaries,
             Fulfill(x.contract, x.name, value, b)
      PROVE  Inv'
  BY <1>1, FulfillInv
<1>2. ASSUME NEW s \in Scripts, Script(s) PROVE Inv'
  BY <1>2, ScriptInv
<1>3. ASSUME NEW chosen \in Selections, NEW resolver \in [Wouts -> {PayeeVout, NoVout}],
             NEW change \in {ChangeVout, NoVout}, BeginBundle(chosen, resolver, change)
      PROVE  Inv'
  BY <1>3, BeginInv
<1>4. CASE Prefab
  BY <1>4, PrefabInv
<1>5. CASE CheckErr \/ CallErr
  BY <1>5, GiveUpInv DEF CheckErr, CallErr, Making, Running
<1>6. CASE CheckPanics
  BY <1>6, GiveUpInv DEF CheckPanics, Making, Running
<1>7. CASE Blanks
  BY <1>7, BlanksInv
<1>8. CASE BlanksErr \/ Abandon
  BY <1>8, GiveUpInv DEF BlanksErr, Abandon, Bundled, Running
<1>9. CASE Pay
  BY <1>9, PayInv
<1>10. CASE UNCHANGED vars
  <2>1. UNCHANGED <<live, made, defined, utxos, spent, paid, tx, requests, budget, job>>
    BY <1>10 DEF vars
  <2>2. TypeOK' /\ JobShape' /\ Addresses'
    BY <2>1 DEF Inv, TypeOK, Outpoints, JobShape, JobFields, Running, Addresses, Taken
  <2>3. /\ OwnSeals' /\ OwnOutpoints' /\ Conserved' /\ Accounted'
        /\ \A r : Sound(r) => Sound(r)'
        /\ \A r : Whole(r) => Whole(r)'
    BY <2>1, StateStays
  <2>4. Asked' /\ ToMake'
    BY <2>1, <2>3 DEF Inv, Asked, ToMake
  <2>5. Apart' /\ Applied' /\ MadePlaced'
    BY <2>1 DEF Inv, Apart, Applied, MadePlaced, Owned
  <2>6. QED
    BY <2>2, <2>3, <2>4, <2>5 DEF Inv
<1>11. QED
  BY <1>1, <1>2, <1>3, <1>4, <1>5, <1>6, <1>7, <1>8, <1>9, <1>10 DEF Next

\* The invariant holds in every state.
LEMMA SpecInv == Spec => []Inv
<1>1. Init => Inv
  BY InitInv
<1>2. Inv /\ [Next]_vars => Inv'
  BY NextInv
<1>3. QED
  BY <1>1, <1>2, PTL DEF Spec

\* Types; an outpoint of the wallet is never both spent and to be spent, and
\* there are no amounts beyond a u64.
THEOREM PaymentTypeOK == Spec => []TypeOK
<1>1. Inv => TypeOK
  BY DEF Inv
<1>2. QED
  BY <1>1, SpecInv, PTL

\* Whatever is requested, fails, is blank or is paid, the amounts of each kind of
\* state sum up to what was issued: check_request balances every operation.
THEOREM PaymentConserved == Spec => []Conserved
<1>1. Inv => Conserved
  BY DEF Inv
<1>2. QED
  BY <1>1, SpecInv, PTL

\* The requests that fulfill and bundle make themselves pass check_request, and
\* the state a blank one moves is there when it is applied.
THEOREM PaymentMadeToPass == Spec => []MadeToPass
<1>1. Inv => MadeToPass
  <2> SUFFICES ASSUME Inv, NEW i \in DOMAIN job.todo
               PROVE  /\ job.todo[i].by # "script" => CheckRequest(job.todo[i])
                      /\ job.todo[i].by = "blank" => job.todo[i].using \subseteq live
    BY DEF MadeToPass
  <2>1. job.todo[i] \in Range(job.todo)
    BY DEF Range
  <2>2. Sound(job.todo[i]) /\ (job.todo[i].by = "blank" => job.at = "blanks")
    BY <2>1 DEF Inv, ToMake
  <2>3. QED
    BY <2>1, <2>2 DEF Inv, Apart, Sound
<1>2. QED
  BY <1>1, SpecInv, PTL

\* fulfill leaves state of its kind on an outpoint it spends only when the
\* calculation of the change would overflow, however late it is bundled.
THEOREM PaymentLeftOnlyOverflow == Spec => []LeftOnlyOverflow
<1>1. Inv => LeftOnlyOverflow
  <2> SUFFICES ASSUME Inv, Bundled, NEW r \in job.asked, r.by = "fulfill", NEW x \in live,
                      x.contract = r.contract, x.name = r.name,
                      \E o \in r.closes : Shown(x, o)
               PROVE  ~Fits(r.using \union {x})
    BY DEF LeftOnlyOverflow
  <2>1. Whole(r)
    BY DEF Inv, JobShape, Asked
  <2>2. x \notin r.using
    BY DEF Inv, Applied, Bundled
  <2>3. QED
    BY <2>1, <2>2 DEF Whole
<1>2. QED
  BY <1>1, SpecInv, PTL

\* Every live allocation is on an outpoint of the payer, waits for a transaction
\* or is found by the payee, unless the payee's resolver misses its token.
THEOREM PaymentAccounted == Spec => []Accounted
<1>1. Inv => Accounted
  BY DEF Inv
<1>2. QED
  BY <1>1, SpecInv, PTL

-----------------------------------------------------------------------------
(***************************************************************************)
(* Where the allocations are.                                              *)
(***************************************************************************)
\* The transaction at hand is neither the genesis nor paid.
LEMMA TxUnpaid == Inv => tx \in Nat \ {0} /\ tx \notin paid /\ paid \subseteq 1 .. tx - 1
  BY PaymentAssumption DEF Inv, TypeOK

\* A step that leaves the state and the outpoints alone moves nothing.
LEMMA FlowStutter ==
    ASSUME UNCHANGED <<live, defined, utxos, spent, paid, tx, job.closes, job.astray>>
    PROVE  UNCHANGED Flow!vars
  BY DEF Flow!vars, OnAny, Shown, Blocked

\* A transaction that is given up.
LEMMA FlowAbandon ==
    ASSUME Inv, NEW at, GiveUp(at)
    PROVE  Flow!Abandon
<1>1. /\ tx' = tx + 1 /\ UNCHANGED <<live, defined, utxos, spent, paid>>
      /\ job'.closes = {} /\ job'.astray = FALSE
  BY DEF GiveUp, Idle
<1>2. tx \in Nat \ {0} /\ tx \notin paid /\ paid \subseteq 1 .. tx - 1
  BY TxUnpaid
<1>3. {x \in live : x.addr[1] = tx}' = {}
  BY <1>1, <1>2 DEF Inv, Addresses, Taken
<1>4. {x \in live : x.addr[1] \in (1 .. tx - 1) \ paid}'
        = {x \in live : x.addr[1] \in (1 .. tx - 1) \ paid} \union {x \in live : x.addr[1] = tx}
  <2>1. (1 .. tx' - 1) \ paid = ((1 .. tx - 1) \ paid) \union {tx}
    BY <1>1, <1>2
  <2>2. QED
    BY <1>1, <2>1
<1>5. /\ UNCHANGED OnAny(utxos) /\ UNCHANGED OnAny(spent)
      /\ UNCHANGED ({x \in live : x.addr[1] \in paid} \ OnAny(utxos \union spent))
  BY <1>1 DEF OnAny, Shown
<1>6. ~Blocked' /\ ~job'.astray
  BY <1>1 DEF Blocked
<1>7. QED
  BY <1>3, <1>4, <1>5, <1>6 DEF Flow!Abandon

\* An operation takes what the contract shows, from the purse unless the bundle is
\* blocked or astray, and adds what is seen nowhere yet.
LEMMA FlowOperate ==
    ASSUME Inv, Prefab
    PROVE  Flow!Operate
<1> DEFINE r == Head(job.todo)
           I == r.using
           O == Outputs(r, job.ops + 1)
           D == Seals(r, job.ops + 1)
<1>1. /\ Making /\ I \subseteq live
      /\ live' = (live \ I) \union O
      /\ defined' = defined \union D
      /\ job'.closes = job.closes \union r.closes
      /\ job'.astray = (job.astray \/ ~Straight(r))
      /\ UNCHANGED <<utxos, spent, paid, tx>>
  BY DEF Prefab, Inv, JobShape, JobFields
<1>2. /\ O \intersect live = {}
      /\ \A x \in O : x.addr[1] = tx /\ ~Taken(x.addr)
      /\ \A d \in D : ~Taken(d[1])
  BY <1>1, OutputFacts DEF NewOutputs
<1>3. r \in Range(job.todo) /\ Sound(r)
  BY <1>1, TailRange DEF Inv, JobShape, Making, ToMake
<1>4. tx \in Nat \ {0} /\ tx \notin paid /\ paid \subseteq 1 .. tx - 1
  BY TxUnpaid
<1>5. \A x \in I : x.addr[1] \in {0} \union paid
  BY <1>3 DEF Sound
<1>6. Straight(r) /\ job'.closes \subseteq utxos => I \subseteq OnAny(utxos)
  BY <1>1 DEF Straight, OnAny
<1> HIDE DEF r, I, O, D
<1>7. ASSUME NEW x, NEW o \in utxos \union spent
      PROVE  Shown(x, o)' <=> x \notin I /\ Shown(x, o)
  <2>1. ASSUME Shown(x, o)' PROVE x \notin I /\ Shown(x, o)
    <3>1. x \in live' /\ <<x.addr, o>> \in defined' /\ (o[1] = "tx" => o[2] \in paid)
      BY <1>1, <2>1 DEF Shown
    <3>2. CASE <<x.addr, o>> \in defined
      <4>1. Taken(x.addr)
        BY <3>2 DEF Inv, Addresses
      <4>2. x \notin O
        BY <1>2, <4>1
      <4>3. QED
        BY <1>1, <3>1, <3>2, <4>2 DEF Shown
    <3>3. CASE <<x.addr, o>> \in D
      <4>1. ~Taken(x.addr)
        BY <1>2, <3>3
      <4>2. x \in O
        BY <1>1, <3>1, <4>1 DEF Inv, Addresses
      <4>3. x.addr[1] = tx /\ <<x.addr, o>> \in Seals(r, job.ops + 1)
        BY <1>2, <3>3, <4>2 DEF D
      <4>4. o \in {Out(tx, PayeeVout), Out(tx, ChangeVout)}
        BY <1>1, <4>3, OutputFacts DEF NewOutputs, r
      <4>5. QED
        BY <1>4, <3>1, <4>4 DEF Out
    <3>4. QED
      BY <1>1, <3>1, <3>2, <3>3
  <2>2. ASSUME x \notin I, Shown(x, o) PROVE Shown(x, o)'
    BY <1>1, <2>2 DEF Shown
  <2>3. QED
    BY <2>1, <2>2
<1>8. OnAny(utxos)' = OnAny(utxos) \ I /\ OnAny(spent)' = OnAny(spent) \ I
  BY <1>1, <1>7 DEF OnAny, Shown
<1>9. I \subseteq OnAny(utxos) \union OnAny(spent)
           \union ({x \in live : x.addr[1] \in paid} \ OnAny(utxos \union spent))
  <2> SUFFICES ASSUME NEW x \in I, x \notin OnAny(utxos \union spent)
               PROVE  x \in live /\ x.addr[1] \in paid
    BY <1>1 DEF OnAny
  <2>1. x.addr[1] # 0
    BY <1>1 DEF Inv, OwnOutpoints, OnAny
  <2>2. QED
    BY <1>1, <1>5, <2>1
<1>10. {x \in live : x.addr[1] = tx}' = {x \in live : x.addr[1] = tx} \union O
  BY <1>1, <1>2, <1>4, <1>5
<1>11. ({x \in live : x.addr[1] \in paid} \ OnAny(utxos \union spent))'
         = ({x \in live : x.addr[1] \in paid} \ OnAny(utxos \union spent)) \ I
  <2>1. OnAny(utxos \union spent)' = OnAny(utxos \union spent) \ I
    <3>1. (utxos \union spent)' = utxos \union spent
      BY <1>1
    <3>2. QED
      BY <1>1, <1>7, <3>1 DEF OnAny, Shown
  <2>2. \A x : x \in live' /\ x.addr[1] \in paid <=> x \in live \ I /\ x.addr[1] \in paid
    BY <1>1, <1>2, <1>4
  <2>3. QED
    BY <1>1, <2>1, <2>2
<1>12. {x \in live : x.addr[1] \in (1 .. tx - 1) \ paid}'
         = {x \in live : x.addr[1] \in (1 .. tx - 1) \ paid}
  BY <1>1, <1>2, <1>4, <1>5
<1>13. Flow!Balanced(I, O)
  <2> SUFFICES ASSUME NEW y \in I \union O
               PROVE  Total({x \in I : KindOf(x) = KindOf(y)})
                        = Total({x \in O : KindOf(x) = KindOf(y)})
    BY DEF Flow!Balanced
  <2>1. Total(Named(I, y.contract, y.name)) = Total(Named(O, y.contract, y.name))
    BY PrefabBalanced DEF I, O, r
  <2>2. /\ {x \in I : KindOf(x) = KindOf(y)} = Named(I, y.contract, y.name)
        /\ {x \in O : KindOf(x) = KindOf(y)} = Named(O, y.contract, y.name)
    BY DEF KindOf, Named
  <2>3. QED
    BY <2>1, <2>2
<1>14. {x \in live : x.addr[1] = tx}' \ {x \in live : x.addr[1] = tx} = O
  BY <1>2, <1>10
<1>15. O \intersect (OnAny(utxos)
          \union ({x \in live : x.addr[1] \in paid} \ OnAny(utxos \union spent))
          \union OnAny(spent) \union {x \in live : x.addr[1] \in (1 .. tx - 1) \ paid}) = {}
  BY <1>2 DEF OnAny
<1>16. /\ I \subseteq OnAny(utxos) \/ Blocked' \/ job'.astray
       /\ Blocked => Blocked'
       /\ job.astray => job'.astray
  BY <1>1, <1>6 DEF Blocked
<1>17. QED
  BY <1>8, <1>9, <1>10, <1>11, <1>12, <1>13, <1>14, <1>15, <1>16 DEF Flow!Operate

\* A transaction that is paid: its change is seen on an outpoint that is new,
\* and what was left on the outpoints it closes stays there.
LEMMA FlowDeliver ==
    ASSUME Inv, Pay
    PROVE  Flow!Deliver
<1> DEFINE new == IF job.change = NoVout THEN {} ELSE {Out(tx, job.change)}
           waiting == {x \in live : x.addr[1] = tx}
           change == {x \in waiting : \E o \in new : <<x.addr, o>> \in defined}
           left == OnAny(job.closes)
<1>1. /\ paid' = paid \union {tx}
      /\ spent' = spent \union job.closes
      /\ utxos' = (utxos \ job.closes) \union new
      /\ tx' = tx + 1 /\ ~Blocked
      /\ job'.closes = {} /\ job'.astray = FALSE
      /\ UNCHANGED <<live, defined>>
  BY DEF Pay, Idle
<1>2. tx \in Nat \ {0} /\ tx \notin paid /\ paid \subseteq 1 .. tx - 1
  BY TxUnpaid
<1>3. new \subseteq {Out(tx, ChangeVout)}
  BY DEF Inv, JobShape, ChangeVout, NoVout
<1>4. job.closes \subseteq utxos /\ utxos \intersect spent = {}
  BY <1>1 DEF Inv, Blocked, TypeOK
<1> HIDE DEF new
<1>5. ASSUME NEW x, NEW o \in utxos \union spent
      PROVE  Shown(x, o)' <=> Shown(x, o)
  <2>1. o[1] = "tx" => o[2] \in paid
    BY PaymentAssumption DEF Inv, OwnOutpoints, Out
  <2>2. QED
    BY <1>1, <2>1 DEF Shown
<1>6. \A o \in new : \A x : Shown(x, o)' <=> x \in waiting /\ <<x.addr, o>> \in defined
  <2> SUFFICES ASSUME NEW x, NEW o \in new
               PROVE  Shown(x, o)' <=> x \in waiting /\ <<x.addr, o>> \in defined
    OBVIOUS
  <2>1. o = Out(tx, ChangeVout) /\ o[1] = "tx" /\ o[2] = tx
    BY <1>3 DEF Out
  <2>2. <<x.addr, o>> \in defined => x.addr[1] = tx
    BY <2>1, PaymentAssumption DEF Inv, OwnSeals, Out
  <2>3. QED
    BY <1>1, <2>1, <2>2 DEF Shown
<1>7. \A x \in waiting : \A o \in utxos \union spent : ~Shown(x, o)
  BY <1>2, ShownPaid DEF Inv
<1>8. \A x, o, q : Shown(x, o) /\ Shown(x, q) => o = q
  BY ShownOnce DEF Inv
<1>9. change \in SUBSET waiting /\ left \in SUBSET OnAny(utxos)
  BY <1>4 DEF OnAny
<1>10. OnAny(utxos)' = (OnAny(utxos) \ left) \union change
  <2>1. ASSUME NEW x \in OnAny(utxos)' PROVE x \in (OnAny(utxos) \ left) \union change
    <3>1. PICK o \in (utxos \ job.closes) \union new : Shown(x, o)' /\ x \in live
      BY <1>1, <2>1 DEF OnAny
    <3>2. CASE o \in utxos \ job.closes
      BY <1>4, <1>5, <1>8, <3>1, <3>2 DEF OnAny
    <3>3. CASE o \in new
      BY <1>6, <3>1, <3>3
    <3>4. QED
      BY <3>1, <3>2, <3>3
  <2>2. ASSUME NEW x \in OnAny(utxos) \ left PROVE x \in OnAny(utxos)'
    BY <1>1, <1>5, <2>2 DEF OnAny
  <2>3. ASSUME NEW x \in change PROVE x \in OnAny(utxos)'
    BY <1>1, <1>6, <2>3 DEF OnAny
  <2>4. QED
    BY <2>1, <2>2, <2>3
<1>11. OnAny(spent)' = OnAny(spent) \union left
  BY <1>1, <1>4, <1>5 DEF OnAny
<1>12. {x \in live : x.addr[1] = tx}' = {}
  BY <1>1, <1>2 DEF Inv, Addresses, Taken
<1>13. {x \in live : x.addr[1] \in (1 .. tx - 1) \ paid}'
         = {x \in live : x.addr[1] \in (1 .. tx - 1) \ paid}
  <2>1. (1 .. tx' - 1) \ paid' = (1 .. tx - 1) \ paid
    BY <1>1, <1>2
  <2>2. QED
    BY <1>1, <2>1
<1>14. OnAny(utxos \union spent)' = OnAny(utxos \union spent) \union change
  <2>1. \A S, T : OnAny(S \union T) = OnAny(S) \union OnAny(T)
    BY DEF OnAny
  <2>2. OnAny(utxos \union spent)' = OnAny(utxos)' \union OnAny(spent)'
    BY DEF OnAny
  <2>3. left \subseteq OnAny(utxos)
    BY <1>9
  <2> HIDE DEF left, change
  <2>4. QED
    BY <1>10, <1>11, <2>1, <2>2, <2>3
<1>15. ({x \in live : x.addr[1] \in paid} \ OnAny(utxos \union spent))'
         = ({x \in live : x.addr[1] \in paid} \ OnAny(utxos \union spent)) \union (waiting \ change)
  <2>1. {x \in live : x.addr[1] \in paid}' = {x \in live : x.addr[1] \in paid} \union waiting
    BY <1>1
  <2>2. {x \in live : x.addr[1] \in paid} \intersect waiting = {}
    BY <1>2
  <2>3. waiting \intersect OnAny(utxos \union spent) = {}
    BY <1>7 DEF OnAny
  <2> HIDE DEF waiting, change
  <2>4. QED
    BY <1>9, <1>14, <2>1, <2>2, <2>3
<1>16. ~Blocked' /\ ~job'.astray
  BY <1>1 DEF Blocked
<1>17. QED
  BY <1>1, <1>9, <1>10, <1>11, <1>12, <1>13, <1>15, <1>16 DEF Flow!Deliver

\* Payments move state one way only.
THEOREM PaymentImplementsPurse == Spec => ImplementsPurse
<1>1. Init => Flow!Init
  <2> SUFFICES ASSUME Init PROVE Flow!Init
    OBVIOUS
  <2>1. \A x \in live : x.addr[1] = 0
    BY PaymentAssumption DEF Init
  <2>2. QED
    BY <2>1 DEF Init, Flow!Init, OnAny, Blocked, Idle
<1>2. Inv /\ [Next]_vars => [Flow!Next]_(Flow!vars)
  <2> SUFFICES ASSUME Inv, [Next]_vars PROVE [Flow!Next]_(Flow!vars)
    OBVIOUS
  <2>1. ASSUME NEW x \in Initial, NEW value \in 1 .. U64Max, NEW b \in Beneficiaries,
               Fulfill(x.contract, x.name, value, b)
        PROVE  UNCHANGED Flow!vars
    BY <2>1, FlowStutter DEF Fulfill
  <2>2. ASSUME NEW s \in Scripts, Script(s) PROVE UNCHANGED Flow!vars
    BY <2>2, FlowStutter DEF Script
  <2>3. ASSUME NEW chosen \in Selections, NEW resolver \in [Wouts -> {PayeeVout, NoVout}],
               NEW change \in {ChangeVout, NoVout}, BeginBundle(chosen, resolver, change)
        PROVE  UNCHANGED Flow!vars
    BY <2>3, FlowStutter DEF BeginBundle, Idle
  <2>4. CASE Prefab
    BY <2>4, FlowOperate DEF Flow!Next
  <2>5. CASE CheckErr \/ CallErr \/ CheckPanics \/ BlanksErr \/ Abandon
    BY <2>5, FlowAbandon DEF CheckErr, CallErr, CheckPanics, BlanksErr, Abandon, Flow!Next
  <2>6. CASE Blanks
    BY <2>6, FlowStutter DEF Blanks, Inv, JobShape, JobFields
  <2>7. CASE Pay
    BY <2>7, FlowDeliver DEF Flow!Next
  <2>8. CASE UNCHANGED vars
    BY <2>8, FlowStutter DEF vars
  <2>9. QED
    BY <2>1, <2>2, <2>3, <2>4, <2>5, <2>6, <2>7, <2>8 DEF Next
<1>3. QED
  BY <1>1, <1>2, SpecInv, PTL DEF Spec, ImplementsPurse, Flow!Spec
==============================================================================
