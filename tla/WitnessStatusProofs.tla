------------------------ MODULE WitnessStatusProofs ------------------------
(***************************************************************************)
(* Facts about the order of witness statuses, for every width of u64.      *)
(***************************************************************************)
EXTENDS WitnessStatus, WellFoundedInduction, TLAPS

\* Every status has a quasi-height between the two extremes of u64.
LEMMA QuasiHeightType ==
    ASSUME NEW s \in Status
    PROVE  QuasiHeight(s) \in Nat /\ QuasiHeight(s) <= U64Max
<1>1. CASE s \in {Genesis, Tentative, Offchain, Archived}
  BY <1>1, U64MaxAssumption
     DEF Genesis, Tentative, Offchain, Archived, QuasiHeight, GENESIS, TENTATIVE, OFFCHAIN, ARCHIVED
<1>2. CASE s \in {Mined(h) : h \in 1 .. U64Max}
  BY <1>2, U64MaxAssumption DEF Mined, QuasiHeight
<1>3. QED
  BY <1>1, <1>2 DEF Status

\* Heights below the reserved ones are heights the type can hold.
LEMMA DistinctIsStatus == DistinctStatus \subseteq Status
  BY U64MaxAssumption DEF DistinctStatus, Status, OFFCHAIN

\* Statuses that are not of the reserved heights are told apart by their
\* quasi-heights, which is why the order of a reduction does not matter.
LEMMA QuasiHeightInjective ==
    ASSUME NEW s \in DistinctStatus, NEW t \in DistinctStatus, QuasiHeight(s) = QuasiHeight(t)
    PROVE  s = t
<1> USE U64MaxAssumption
    DEF Genesis, Tentative, Offchain, Archived, Mined, QuasiHeight,
        GENESIS, TENTATIVE, OFFCHAIN, ARCHIVED
<1>1. CASE s \in {Genesis, Tentative, Offchain, Archived}
  <2>1. CASE t \in {Genesis, Tentative, Offchain, Archived}
    BY <1>1, <2>1
  <2>2. CASE t \in {Mined(h) : h \in 1 .. OFFCHAIN - 1}
    BY <1>1, <2>2
  <2>3. QED
    BY <2>1, <2>2 DEF DistinctStatus
<1>2. CASE s \in {Mined(h) : h \in 1 .. OFFCHAIN - 1}
  <2>1. CASE t \in {Genesis, Tentative, Offchain, Archived}
    BY <1>2, <2>1
  <2>2. CASE t \in {Mined(h) : h \in 1 .. OFFCHAIN - 1}
    BY <1>2, <2>2
  <2>3. QED
    BY <2>1, <2>2 DEF DistinctStatus
<1>3. QED
  BY <1>1, <1>2 DEF DistinctStatus

(***************************************************************************)
(* The 8 bytes kept for a status give the same status back, for every      *)
(* status with a height below the reserved ones (the two From impls).      *)
(***************************************************************************)
THEOREM StoredStatusReadsBack ==
    ASSUME NEW s \in DistinctStatus
    PROVE  FromDepth(ToDepth(s)) = s
<1> USE U64MaxAssumption
    DEF Genesis, Tentative, Offchain, Archived, Mined, QuasiHeight, ToDepth, FromDepth,
        GENESIS, TENTATIVE, OFFCHAIN, ARCHIVED
<1>1. CASE s \in {Genesis, Tentative, Offchain, Archived}
  BY <1>1
<1>2. CASE s \in {Mined(h) : h \in 1 .. OFFCHAIN - 1}
  BY <1>2
<1>3. QED
  BY <1>1, <1>2 DEF DistinctStatus

-----------------------------------------------------------------------------
\* A set of naturals that is not empty has a least element.
LEMMA LeastNatural ==
    ASSUME NEW T \in SUBSET Nat, T # {}
    PROVE  \E m \in T : \A n \in T : m <= n
<1>1. IsWellFoundedOn(OpToRel(<, Nat), Nat)
  BY NatLessThanWellFounded
<1>2. PICK m \in T : \A n \in T : ~ (<<n, m>> \in OpToRel(<, Nat))
  BY <1>1, WFMin
<1>3. \A n \in T : ~(n < m)
  BY <1>2 DEF OpToRel
<1>4. QED
  BY <1>3

\* The best of a set of statuses is one of them, and none is better.
LEMMA BestOfExists ==
    ASSUME NEW S \in SUBSET Status, S # {}
    PROVE  BestOf(S) \in S /\ \A t \in S : QuasiHeight(BestOf(S)) <= QuasiHeight(t)
<1> DEFINE T == {QuasiHeight(s) : s \in S}
<1>1. T \in SUBSET Nat /\ T # {}
  BY QuasiHeightType
<1> HIDE DEF T
<1>2. PICK m \in T : \A n \in T : m <= n
  BY <1>1, LeastNatural
<1>3. PICK s \in S : QuasiHeight(s) = m
  BY DEF T
<1>4. \A t \in S : QuasiHeight(t) \in Nat /\ QuasiHeight(s) <= QuasiHeight(t)
  BY <1>2, <1>3, QuasiHeightType DEF T
<1>5. \E x \in S : \A t \in S : ~IsBetter(t, x)
  BY <1>3, <1>4 DEF IsBetter
<1>6. BestOf(S) \in S /\ \A t \in S : ~IsBetter(t, BestOf(S))
  BY <1>5 DEF BestOf
<1>7. QED
  BY <1>6, QuasiHeightType DEF IsBetter

\* The worst one likewise: quasi-heights are bounded by u64::MAX.
LEMMA WorstOfExists ==
    ASSUME NEW S \in SUBSET Status, S # {}
    PROVE  WorstOf(S) \in S /\ \A t \in S : QuasiHeight(t) <= QuasiHeight(WorstOf(S))
<1> DEFINE T == {U64Max - QuasiHeight(s) : s \in S}
<1>1. T \in SUBSET Nat /\ T # {}
  BY QuasiHeightType, U64MaxAssumption
<1> HIDE DEF T
<1>2. PICK m \in T : \A n \in T : m <= n
  BY <1>1, LeastNatural
<1>3. PICK s \in S : U64Max - QuasiHeight(s) = m
  BY DEF T
<1>4. ASSUME NEW t \in S
      PROVE  QuasiHeight(t) \in Nat /\ QuasiHeight(t) <= QuasiHeight(s)
  <2>1. U64Max - QuasiHeight(s) <= U64Max - QuasiHeight(t)
    BY <1>2, <1>3 DEF T
  <2>2. QuasiHeight(s) \in Nat /\ QuasiHeight(t) \in Nat
    BY QuasiHeightType
  <2>3. QED
    BY <2>1, <2>2, U64MaxAssumption
<1>5. \E x \in S : \A t \in S : ~IsBetter(x, t)
  BY <1>3, <1>4 DEF IsBetter
<1>6. WorstOf(S) \in S /\ \A t \in S : ~IsBetter(WorstOf(S), t)
  BY <1>5 DEF WorstOf
<1>7. QED
  BY <1>6, QuasiHeightType DEF IsBetter

-----------------------------------------------------------------------------
\* Archived is the only status that is not valid, and worse than any other.
LEMMA ArchivedIsWorst ==
    ASSUME NEW s \in DistinctStatus
    PROVE  /\ ~IsValid(s) <=> s = Archived
           /\ IsValid(s) => QuasiHeight(s) < QuasiHeight(Archived)
<1> USE U64MaxAssumption
    DEF Genesis, Tentative, Offchain, Archived, Mined, QuasiHeight, IsValid,
        GENESIS, TENTATIVE, OFFCHAIN, ARCHIVED
<1>1. CASE s \in {Genesis, Tentative, Offchain, Archived}
  BY <1>1
<1>2. CASE s \in {Mined(h) : h \in 1 .. OFFCHAIN - 1}
  BY <1>2
<1>3. QED
  BY <1>1, <1>2 DEF DistinctStatus

(***************************************************************************)
(* An operation is archived exactly when all of its witnesses are: one     *)
(* valid witness makes the best status valid (Contract::witness_status).   *)
(***************************************************************************)
THEOREM BestIsValidIffOneIs ==
    ASSUME NEW S \in SUBSET DistinctStatus, S # {}
    PROVE  IsValid(BestOf(S)) <=> \E s \in S : IsValid(s)
<1>1. BestOf(S) \in S /\ \A t \in S : QuasiHeight(BestOf(S)) <= QuasiHeight(t)
  BY BestOfExists, DistinctIsStatus
<1>2. ASSUME NEW s \in S, IsValid(s)
      PROVE  IsValid(BestOf(S))
  <2>1. QuasiHeight(s) < QuasiHeight(Archived) /\ QuasiHeight(BestOf(S)) <= QuasiHeight(s)
    BY <1>1, <1>2, ArchivedIsWorst
  <2>2. QuasiHeight(s) \in Nat /\ QuasiHeight(BestOf(S)) \in Nat /\ QuasiHeight(Archived) \in Nat
    BY <1>1, QuasiHeightType, DistinctIsStatus DEF DistinctStatus
  <2>3. BestOf(S) # Archived
    BY <2>1, <2>2
  <2>4. QED
    BY <2>3, <1>1, ArchivedIsWorst
<1>3. QED
  BY <1>1, <1>2

(***************************************************************************)
(* A history is archived exactly when one of its operations is             *)
(* (Contract::state, get_status).                                          *)
(***************************************************************************)
THEOREM WorstIsValidIffAllAre ==
    ASSUME NEW S \in SUBSET DistinctStatus, S # {}
    PROVE  IsValid(WorstOf(S)) <=> \A s \in S : IsValid(s)
<1>1. WorstOf(S) \in S /\ \A t \in S : QuasiHeight(t) <= QuasiHeight(WorstOf(S))
  BY WorstOfExists, DistinctIsStatus
<1>2. ASSUME IsValid(WorstOf(S)), NEW s \in S
      PROVE  IsValid(s)
  <2>1. QuasiHeight(WorstOf(S)) < QuasiHeight(Archived) /\ QuasiHeight(s) <= QuasiHeight(WorstOf(S))
    BY <1>1, <1>2, ArchivedIsWorst
  <2>2. QuasiHeight(s) \in Nat /\ QuasiHeight(WorstOf(S)) \in Nat /\ QuasiHeight(Archived) \in Nat
    BY <1>1, QuasiHeightType, DistinctIsStatus DEF DistinctStatus
  <2>3. s # Archived
    BY <2>1, <2>2
  <2>4. QED
    BY <2>3, ArchivedIsWorst
<1>3. QED
  BY <1>1, <1>2
=============================================================================
