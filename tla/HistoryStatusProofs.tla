------------------------- MODULE HistoryStatusProofs -------------------------
(***************************************************************************)
(* Proofs about HistoryStatus, for any history and any width of u64: in    *)
(* whatever order the storage yields ancestors and witnesses, the pieces   *)
(* of state Contract::state lists get the status of the formula.           *)
(***************************************************************************)
EXTENDS HistoryStatus, WitnessStatusProofs

\* The statuses of the ancestors that are folded, with the initial one.
Folded == {OpStatus(o) : o \in History \ (todo \union {current})} \union {Genesis}

\* The witnesses of the ancestor at hand that are read.
ReadSoFar == witnesses[current] \ unread

(***************************************************************************)
(* The inductive invariant: each accumulator is the extreme of the set of  *)
(* what it has seen, so that the order in which it saw it is forgotten.    *)
(***************************************************************************)
Reduced ==
    /\ current = NoOp => unread = {} /\ best = None
    /\ current # NoOp =>
           /\ current \notin todo /\ unread \subseteq witnesses[current]
           /\ ReadSoFar = {} => best = None
           /\ ReadSoFar # {} => best = BestOf(ReadSoFar)

\* A copy is on an output of a witness of the operation.
Carried == \A p \in reported : p.carrier \in witnesses[Op] \union {None}

Inv == TypeOK /\ Reduced /\ worst = WorstOf(Folded) /\ Carried /\ FoldMeetsFormula

-----------------------------------------------------------------------------
\* An element no other is better than is the best one: in a set of statuses
\* with distinct quasi-heights there is only one.
LEMMA BestOfUnique ==
    ASSUME NEW S \in SUBSET DistinctStatus, NEW x \in S,
           \A t \in S : QuasiHeight(x) <= QuasiHeight(t)
    PROVE  x = BestOf(S)
<1>1. BestOf(S) \in S /\ \A t \in S : QuasiHeight(BestOf(S)) <= QuasiHeight(t)
  BY BestOfExists, DistinctIsStatus
<1>2. QuasiHeight(x) \in Nat /\ QuasiHeight(BestOf(S)) \in Nat
  BY <1>1, QuasiHeightType, DistinctIsStatus
<1>3. QuasiHeight(x) = QuasiHeight(BestOf(S))
  BY <1>1, <1>2
<1>4. QED
  BY <1>1, <1>3, QuasiHeightInjective

\* The same of an element no other is worse than.
LEMMA WorstOfUnique ==
    ASSUME NEW S \in SUBSET DistinctStatus, NEW x \in S,
           \A t \in S : QuasiHeight(t) <= QuasiHeight(x)
    PROVE  x = WorstOf(S)
<1>1. WorstOf(S) \in S /\ \A t \in S : QuasiHeight(t) <= QuasiHeight(WorstOf(S))
  BY WorstOfExists, DistinctIsStatus
<1>2. QuasiHeight(x) \in Nat /\ QuasiHeight(WorstOf(S)) \in Nat
  BY <1>1, QuasiHeightType, DistinctIsStatus
<1>3. QuasiHeight(x) = QuasiHeight(WorstOf(S))
  BY <1>1, <1>2
<1>4. QED
  BY <1>1, <1>3, QuasiHeightInjective

(***************************************************************************)
(* One step of a reduction: the accumulator over a set, compared with one  *)
(* more status, is the extreme of the larger set.                          *)
(***************************************************************************)
LEMMA BestOfOneMore ==
    ASSUME NEW S \in SUBSET DistinctStatus, S # {}, NEW s \in DistinctStatus
    PROVE  Best(BestOf(S), s) = BestOf(S \union {s})
<1>1. BestOf(S) \in S /\ \A t \in S : QuasiHeight(BestOf(S)) <= QuasiHeight(t)
  BY BestOfExists, DistinctIsStatus
<1>2. \A t \in S \union {s} : QuasiHeight(t) \in Nat
  BY QuasiHeightType, DistinctIsStatus
<1>3. Best(BestOf(S), s) \in S \union {s}
      /\ \A t \in S \union {s} : QuasiHeight(Best(BestOf(S), s)) <= QuasiHeight(t)
  BY <1>1, <1>2 DEF Best, IsBetter
<1>4. QED
  BY <1>3, BestOfUnique

\* Folding one more status is the worst of the larger set.
LEMMA WorstOfOneMore ==
    ASSUME NEW S \in SUBSET DistinctStatus, S # {}, NEW s \in DistinctStatus
    PROVE  Worst(WorstOf(S), s) = WorstOf(S \union {s})
<1>1. WorstOf(S) \in S /\ \A t \in S : QuasiHeight(t) <= QuasiHeight(WorstOf(S))
  BY WorstOfExists, DistinctIsStatus
<1>2. \A t \in S \union {s} : QuasiHeight(t) \in Nat
  BY QuasiHeightType, DistinctIsStatus
<1>3. Worst(WorstOf(S), s) \in S \union {s}
      /\ \A t \in S \union {s} : QuasiHeight(t) <= QuasiHeight(Worst(WorstOf(S), s))
  BY <1>1, <1>2 DEF Worst, IsWorse, IsBetter
<1>4. QED
  BY <1>3, WorstOfUnique

\* A status no worse than an element of a set does not change its worst.
LEMMA WorstOfNoWorse ==
    ASSUME NEW S \in SUBSET DistinctStatus, NEW s \in S, NEW x \in DistinctStatus,
           QuasiHeight(x) <= QuasiHeight(s)
    PROVE  WorstOf(S \union {x}) = WorstOf(S)
<1>1. WorstOf(S) \in S /\ \A t \in S : QuasiHeight(t) <= QuasiHeight(WorstOf(S))
  BY WorstOfExists, DistinctIsStatus
<1>2. \A t \in S \union {x} : QuasiHeight(t) \in Nat
  BY QuasiHeightType, DistinctIsStatus
<1>3. \A t \in S \union {x} : QuasiHeight(t) <= QuasiHeight(WorstOf(S))
  BY <1>1, <1>2
<1>4. QED
  BY <1>1, <1>3, WorstOfUnique

\* The only element of a set is its best and its worst.
LEMMA SingleBest ==
    ASSUME NEW s \in DistinctStatus
    PROVE  BestOf({s}) = s /\ WorstOf({s}) = s
<1>1. BestOf({s}) \in {s}
  BY BestOfExists, DistinctIsStatus
<1>2. WorstOf({s}) \in {s}
  BY WorstOfExists, DistinctIsStatus
<1>3. QED
  BY <1>1, <1>2

\* The initial status of the fold is a status, and the initial value of the
\* reduction is not.
LEMMA GenesisDistinct ==
    Genesis \in DistinctStatus /\ None \notin DistinctStatus
  BY DEF Genesis, None, DistinctStatus, Tentative, Offchain, Archived, Mined

\* The status of an operation is that of one of its witnesses, or Genesis.
LEMMA OpStatusType ==
    ASSUME TypeOK, NEW o \in History
    PROVE  /\ OpStatus(o) \in Reported \union {Genesis}
           /\ OpStatus(o) \in DistinctStatus
<1>1. witnesses[o] \subseteq Reported
  BY DEF TypeOK
<1>2. witnesses[o] # {} => BestOf(witnesses[o]) \in witnesses[o]
  BY <1>1, BestOfExists, HistoryAssumption, DistinctIsStatus
<1>3. QED
  BY <1>1, <1>2, HistoryAssumption, GenesisDistinct DEF OpStatus

\* After the fold all of the history is folded.
LEMMA DoneFolded ==
    ASSUME Inv, Done
    PROVE  worst = WorstOf(Others \union {OpStatus(Op)})
<1>1. History \ (todo \union {current}) = History
  BY HistoryAssumption DEF Done
<1>2. Folded = Others \union {OpStatus(Op)}
  BY <1>1, HistoryAssumption DEF Folded, Others
<1>3. QED
  BY <1>2 DEF Inv

\* What is listed by a call of get_status has the status of the formula.
LEMMA ReportMeetsFormula ==
    ASSUME Inv, Done, NEW carrier, NEW or,
           \/ carrier = None /\ or = OpStatus(Op)
           \/ carrier # None /\ carrier \in witnesses[Op] /\ or = carrier
    PROVE  /\ Worst(worst, or) \in Reported \union {Genesis}
           /\ Worst(worst, or) =
                  WorstOf(Others \union {IF carrier = None THEN OpStatus(Op) ELSE carrier})
<1> DEFINE own == OpStatus(Op)
           All == Others \union {own}
<1>1. TypeOK /\ worst = WorstOf(All)
  BY DoneFolded DEF Inv
<1>2. own \in DistinctStatus /\ own \in Reported \union {Genesis}
  BY <1>1, OpStatusType, HistoryAssumption
<1>3. Others \subseteq DistinctStatus
  BY <1>1, OpStatusType, GenesisDistinct DEF Others
<1>4. or \in DistinctStatus /\ or \in Reported \union {Genesis}
  BY <1>1, <1>2, HistoryAssumption DEF TypeOK
<1> HIDE DEF own
<1>5. Worst(worst, or) = WorstOf(All \union {or})
  BY <1>1, <1>2, <1>3, <1>4, WorstOfOneMore
<1>6. CASE carrier = None
  <2>1. All \union {or} = All
    BY <1>6 DEF own
  <2>2. QED
    BY <1>1, <1>4, <1>5, <1>6, <2>1 DEF own, Worst, TypeOK
<1>7. CASE carrier # None
  <2>1. carrier \in witnesses[Op] /\ or = carrier /\ witnesses[Op] \in SUBSET DistinctStatus
    BY <1>1, <1>7, HistoryAssumption DEF TypeOK
  <2>2. own = BestOf(witnesses[Op])
    BY <2>1 DEF own, OpStatus
  <2>3. QuasiHeight(own) <= QuasiHeight(carrier)
    BY <2>1, <2>2, BestOfExists, DistinctIsStatus
  <2>4. WorstOf((Others \union {carrier}) \union {own}) = WorstOf(Others \union {carrier})
    BY <1>2, <1>3, <1>4, <2>1, <2>3, WorstOfNoWorse
  <2>5. All \union {or} = (Others \union {carrier}) \union {own}
    BY <2>1
  <2>6. QED
    BY <1>1, <1>4, <1>5, <1>7, <2>1, <2>4, <2>5 DEF Worst, TypeOK
<1>8. QED
  BY <1>6, <1>7

-----------------------------------------------------------------------------
\* The invariant holds initially.
LEMMA InitInv == Init => Inv
<1> SUFFICES ASSUME Init PROVE Inv
  OBVIOUS
<1>1. TypeOK
  BY DEF Init, TypeOK
<1>2. Reduced
  BY DEF Init, Reduced
<1>3. Folded = {Genesis}
  BY DEF Init, Folded
<1>4. QED
  BY <1>1, <1>2, <1>3, SingleBest, GenesisDistinct DEF Init, Inv, Carried, FoldMeetsFormula

\* Every step keeps the invariant.
LEMMA NextInv == Inv /\ [Next]_vars => Inv'
<1> SUFFICES ASSUME Inv, [Next]_vars PROVE Inv'
  OBVIOUS
<1> USE DEF Inv
<1>0. ASSUME UNCHANGED <<witnesses, reported>> PROVE Carried' /\ FoldMeetsFormula'
  <2>1. Others' = Others /\ OpStatus(Op)' = OpStatus(Op)
    BY <1>0 DEF Others, OpStatus
  <2>2. QED
    BY <1>0, <2>1 DEF Carried, FoldMeetsFormula
<1>1. ASSUME NEW o \in History, TakeAncestor(o) PROVE Inv'
  <2>1. TypeOK'
    BY <1>1, HistoryAssumption DEF TakeAncestor, TypeOK
  <2>2. Reduced'
    BY <1>1, HistoryAssumption DEF TakeAncestor, Reduced, ReadSoFar
  <2>3. Folded' = Folded
    BY <1>1, HistoryAssumption DEF TakeAncestor, Folded, OpStatus, TypeOK
  <2>4. QED
    BY <1>0, <1>1, <2>1, <2>2, <2>3 DEF TakeAncestor
<1>2. ASSUME NEW s \in Reported, Reduce(s) PROVE Inv'
  <2>1. s \in DistinctStatus /\ FromDepth(ToDepth(s)) = s
    BY HistoryAssumption, StoredStatusReadsBack
  <2>2. /\ s \in unread /\ unread' = unread \ {s}
        /\ best' = IF best = None THEN s ELSE Best(best, s)
        /\ UNCHANGED <<witnesses, todo, current, worst, reported>>
    BY <1>2, <2>1 DEF Reduce
  <2>3. current # NoOp /\ ReadSoFar' = ReadSoFar \union {s}
    BY <2>2 DEF Reduced, ReadSoFar
  <2>4. ReadSoFar \in SUBSET DistinctStatus
    BY <2>3, HistoryAssumption DEF ReadSoFar, TypeOK
  <2>5. best' = BestOf(ReadSoFar')
    <3>1. CASE ReadSoFar = {}
      BY <2>1, <2>2, <2>3, <3>1, SingleBest DEF Reduced
    <3>2. CASE ReadSoFar # {}
      <4>1. best = BestOf(ReadSoFar) /\ best \in DistinctStatus
        BY <2>3, <2>4, <3>2, BestOfExists, DistinctIsStatus DEF Reduced
      <4>2. best' = Best(best, s)
        BY <2>2, <4>1, GenesisDistinct
      <4>3. QED
        BY <2>1, <2>3, <2>4, <3>2, <4>1, <4>2, BestOfOneMore
    <3>3. QED
      BY <3>1, <3>2
  <2>6. TypeOK'
    <3>1. best' \in Reported
      BY <2>2 DEF Best, TypeOK
    <3>2. QED
      BY <2>2, <3>1 DEF TypeOK
  <2>7. Reduced'
    BY <2>2, <2>3, <2>5 DEF Reduced
  <2>8. Folded' = Folded
    BY <2>2 DEF Folded, OpStatus
  <2>9. QED
    BY <1>0, <2>2, <2>6, <2>7, <2>8
<1>3. CASE Fold
  <2>1. /\ current \in History /\ current \notin todo /\ unread = {}
        /\ worst' = Worst(worst, IF best = None THEN Genesis ELSE best)
        /\ current' = NoOp /\ best' = None /\ UNCHANGED <<witnesses, todo, unread, reported>>
    BY <1>3 DEF Fold, TypeOK, Reduced
  <2>2. ReadSoFar = witnesses[current]
    BY <2>1 DEF ReadSoFar
  <2>3. worst' = Worst(worst, OpStatus(current))
    <3>1. CASE witnesses[current] = {}
      BY <2>1, <2>2, <3>1, HistoryAssumption DEF Reduced, OpStatus
    <3>2. CASE witnesses[current] # {}
      <4>1. witnesses[current] \in SUBSET DistinctStatus
        BY <2>1, HistoryAssumption DEF TypeOK
      <4>2. best = BestOf(witnesses[current])
        BY <2>1, <2>2, <3>2, HistoryAssumption DEF Reduced
      <4>3. best # None
        BY <3>2, <4>1, <4>2, BestOfExists, DistinctIsStatus, GenesisDistinct
      <4>4. QED
        BY <2>1, <3>2, <4>2, <4>3 DEF OpStatus
    <3>3. QED
      BY <3>1, <3>2
  <2>4. Folded' = Folded \union {OpStatus(current)}
    <3>1. History \ (todo' \union {current'}) = (History \ (todo \union {current})) \union {current}
      BY <2>1, HistoryAssumption DEF TypeOK
    <3>2. \A o \in History : OpStatus(o)' = OpStatus(o)
      BY <2>1 DEF OpStatus
    <3>3. QED
      BY <2>1, <3>1, <3>2 DEF Folded
  <2>5. Folded \in SUBSET DistinctStatus /\ Folded # {}
    BY OpStatusType, GenesisDistinct DEF Folded
  <2>6. worst' = WorstOf(Folded')
    BY <2>1, <2>3, <2>4, <2>5, OpStatusType, WorstOfOneMore
  <2>7. TypeOK'
    <3>1. worst' \in Reported \union {Genesis}
      BY <2>1, <2>3, OpStatusType DEF Worst, TypeOK
    <3>2. QED
      BY <2>1, <3>1 DEF TypeOK
  <2>8. Reduced'
    BY <2>1 DEF Reduced
  <2>9. QED
    BY <1>0, <2>1, <2>6, <2>7, <2>8
<1>4. ASSUME NEW carrier, NEW or, Report(carrier, or),
             \/ carrier = None /\ or = OpStatus(Op)
             \/ carrier # None /\ carrier \in Reported /\ carrier \in witnesses[Op] /\ or = carrier
      PROVE  Inv'
  <2>1. /\ Worst(worst, or) \in Reported \union {Genesis}
        /\ Worst(worst, or) =
               WorstOf(Others \union {IF carrier = None THEN OpStatus(Op) ELSE carrier})
    BY <1>4, ReportMeetsFormula DEF Report
  <2>2. /\ reported' = reported \union {[carrier |-> carrier, status |-> Worst(worst, or)]}
        /\ UNCHANGED <<witnesses, todo, current, unread, best, worst>>
    BY <1>4 DEF Report
  <2>3. TypeOK'
    BY <1>4, <2>1, <2>2 DEF TypeOK, Piece
  <2>4. Others' = Others /\ OpStatus(Op)' = OpStatus(Op) /\ Folded' = Folded /\ ReadSoFar' = ReadSoFar
    BY <2>2 DEF Others, OpStatus, Folded, ReadSoFar
  <2>5. Carried' /\ FoldMeetsFormula'
    BY <1>4, <2>1, <2>2, <2>4 DEF Carried, FoldMeetsFormula
  <2>6. QED
    BY <2>2, <2>3, <2>4, <2>5 DEF Reduced
<1>5. CASE ReportOwn
  BY <1>4, <1>5 DEF ReportOwn
<1>6. ASSUME NEW s \in Reported, ReportCopy(s) PROVE Inv'
  <2>1. s # None
    BY HistoryAssumption, GenesisDistinct
  <2>2. QED
    BY <1>4, <1>6, <2>1 DEF ReportCopy
<1>7. CASE UNCHANGED vars
  <2>1. Folded' = Folded /\ ReadSoFar' = ReadSoFar
    BY <1>7 DEF vars, Folded, OpStatus, ReadSoFar
  <2>2. QED
    BY <1>0, <1>7, <2>1 DEF vars, TypeOK, Reduced
<1>8. QED
  BY <1>1, <1>2, <1>3, <1>5, <1>6, <1>7 DEF Next

\* The invariant holds always.
LEMMA SpecInv == Spec => []Inv
<1>1. Init => Inv
  BY InitInv
<1>2. Inv /\ [Next]_vars => Inv'
  BY NextInv
<1>3. QED
  BY <1>1, <1>2, PTL DEF Spec

\* The accumulators hold statuses of witnesses, or what they begin with.
THEOREM HistoryTypeCorrect == Spec => []TypeOK
<1>1. Inv => TypeOK
  BY DEF Inv
<1>2. QED
  BY <1>1, SpecInv, PTL

(***************************************************************************)
(* Whatever order the storage yields ancestors and witnesses in, state on  *)
(* an outpoint of its own gets the maximum over its history of the minimum *)
(* over the witnesses, and the copy on an output of a witness the same     *)
(* with that witness in place of all those of its operation.               *)
(***************************************************************************)
THEOREM FoldIsFormula == Spec => []FoldMeetsFormula
<1>1. Inv => FoldMeetsFormula
  BY DEF Inv
<1>2. QED
  BY <1>1, SpecInv, PTL

(***************************************************************************)
(* A piece of state is archived exactly when an operation of its history   *)
(* has witnesses and all of them are archived, or when it is the copy on   *)
(* an output of an archived one.                                           *)
(***************************************************************************)
THEOREM ArchivedByDeadAncestor == Spec => []ArchivedIffDeadAncestor
<1>1. Inv => ArchivedIffDeadAncestor
  <2>1. SUFFICES ASSUME Inv, NEW p \in reported
                 PROVE  p.status = Archived <=> (\E o \in History : Dead(o)) \/ p.carrier = Archived
    BY DEF ArchivedIffDeadAncestor
  <2> DEFINE own == IF p.carrier = None THEN OpStatus(Op) ELSE p.carrier
             S   == Others \union {own}
  <2>2. TypeOK /\ p.status = WorstOf(S) /\ p.carrier \in Reported \union {None}
    BY <2>1 DEF Inv, FoldMeetsFormula, TypeOK, Piece
  <2>3. IsValid(Genesis) /\ None # Archived /\ None.kind # "Archived"
    BY DEF IsValid, Genesis, None, Archived
  <2>4. S \in SUBSET DistinctStatus /\ S # {}
    BY <2>2, OpStatusType, GenesisDistinct, HistoryAssumption DEF Others
  <2>5. ASSUME NEW o \in History
        PROVE  ~IsValid(OpStatus(o)) <=> Dead(o)
    <3>1. CASE witnesses[o] = {}
      BY <2>3, <3>1 DEF OpStatus, Dead
    <3>2. CASE witnesses[o] # {}
      <4>1. witnesses[o] \in SUBSET DistinctStatus
        BY <2>2, HistoryAssumption DEF TypeOK
      <4>2. IsValid(BestOf(witnesses[o])) <=> \E s \in witnesses[o] : IsValid(s)
        BY <3>2, <4>1, BestIsValidIffOneIs
      <4>3. QED
        BY <3>2, <4>2 DEF OpStatus, Dead
    <3>3. QED
      BY <3>1, <3>2
  <2>6. p.status \in DistinctStatus /\ (IsValid(p.status) <=> \A s \in S : IsValid(s))
    BY <2>2, <2>4, WorstIsValidIffAllAre, WorstOfExists, DistinctIsStatus
  <2>7. p.status = Archived <=> \E s \in S : ~IsValid(s)
    BY <2>6, ArchivedIsWorst
  <2>8. (\E s \in Others : ~IsValid(s)) <=> \E o \in History \ {Op} : Dead(o)
    BY <2>3, <2>5 DEF Others
  <2>9. ~IsValid(own) \/ (\E o \in History \ {Op} : Dead(o))
            <=> (\E o \in History : Dead(o)) \/ p.carrier = Archived
    <3>1. CASE p.carrier = None
      BY <2>3, <2>5, <3>1, HistoryAssumption
    <3>2. CASE p.carrier # None
      <4>1. p.carrier \in witnesses[Op] /\ p.carrier \in DistinctStatus
        BY <2>1, <2>2, <3>2, HistoryAssumption DEF Inv, Carried
      <4>2. ~IsValid(p.carrier) <=> p.carrier = Archived
        BY <4>1, ArchivedIsWorst
      <4>3. Dead(Op) => ~IsValid(p.carrier)
        BY <4>1 DEF Dead
      <4>4. QED
        BY <3>2, <4>2, <4>3, HistoryAssumption
    <3>3. QED
      BY <3>1, <3>2
  <2>10. QED
    BY <2>7, <2>8, <2>9
<1>2. QED
  BY <1>1, SpecInv, PTL
=============================================================================
