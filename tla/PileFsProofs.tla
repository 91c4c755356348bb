---------------------------- MODULE PileFsProofs ----------------------------
(***************************************************************************)
(* Proofs about PileFs, for any sets of operations and witnesses.          *)
(***************************************************************************)
EXTENDS PileFs, TLAPS

\* How far the inclusion at hand has come, by its next write.
JobOrder(o, w) ==
    /\ job.at \in {"stand", "hoard", "cache", "mine", "commit"} => <<o, w>> \in index
    /\ job.at \in {"hoard", "cache", "mine", "commit"} => <<o, w>> \in stand
    /\ job.at \in {"cache", "mine", "commit"} => o \in hoard[w]
    /\ job.at \in {"mine", "commit"} => w \in cache
    /\ job.at = "commit" => mine[w] # NoStatus
    /\ job.at = "commit" /\ mineDisk[w] = NoStatus => mine[w] = Tentative

\* Statuses in memory beyond those on disk belong to the inclusion at hand.
StatusOrder ==
    \A w \in Wids : /\ mine[w] # NoStatus => w \in cache
                    /\ mineDisk[w] # NoStatus => mine[w] # NoStatus
                    /\ \/ mine[w] # NoStatus => mineDisk[w] # NoStatus
                       \/ job.at = "commit" /\ w = job.pair[2]

IInv ==
    /\ TypeOK
    /\ WriteOrder
    /\ StatusOrder
    /\ \A o \in Ops, w \in Wids : job.pair = <<o, w>> => JobOrder(o, w)

\* A missing record is not a status, and a new witness gets one.
LEMMA StatusFacts ==
    /\ NoStatus \notin Statuses
    /\ Tentative \in Statuses
  BY DEF NoStatus, Statuses, DistinctStatus, Genesis, Tentative, Offchain, Archived, Mined

\* Empty files meet the order of writes.
LEMMA InitIInv == Init => IInv
  BY DEF Init, IInv, TypeOK, WriteOrder, StatusOrder, JobOrder, Idle, HasWitness

\* The inclusion at hand.
LEMMA JobPair ==
    ASSUME TypeOK, job.at # "idle"
    PROVE  \E o \in Ops, w \in Wids : job = [at |-> job.at, pair |-> <<o, w>>]
<1>1. job \in [at : {"stand", "hoard", "cache", "mine", "commit"}, pair : Pairs]
  BY DEF TypeOK, Idle
<1>2. PICK o \in Ops, w \in Wids : job.pair = <<o, w>>
  BY <1>1 DEF Pairs
<1>3. job = [at |-> job.at, pair |-> <<o, w>>]
  BY <1>1, <1>2
<1>4. QED
  BY <1>3

\* Every write, and a crash between any two, keeps the order of writes.
LEMMA NextIInv == IInv /\ [Next]_vars => IInv'
<1> SUFFICES ASSUME IInv, [Next]_vars PROVE IInv'
  OBVIOUS
<1> USE DEF IInv
<1>1. ASSUME NEW o \in Ops, NEW w \in Wids, IndexPush(o, w) PROVE IInv'
  <2>1. job' = [at |-> "stand", pair |-> <<o, w>>] /\ job'.at = "stand" /\ job'.pair = <<o, w>>
    BY <1>1 DEF IndexPush
  <2>2. TypeOK'
    BY <1>1, <2>1 DEF IndexPush, TypeOK, Pairs
  <2>3. WriteOrder' /\ StatusOrder'
    BY <1>1, <2>1 DEF IndexPush, WriteOrder, StatusOrder, HasWitness, Idle
  <2>4. QED
    BY <1>1, <2>1, <2>2, <2>3 DEF IndexPush, JobOrder
<1>2. ASSUME job.at # "idle", StandPush \/ HoardInsert \/ CacheInsert \/ MineInsert \/ CommitInclude
      PROVE  IInv'
  <2>1. PICK o \in Ops, w \in Wids : job = [at |-> job.at, pair |-> <<o, w>>]
    BY <1>2, JobPair
  <2>2. job.pair = <<o, w>> /\ job.pair[1] = o /\ job.pair[2] = w /\ JobOrder(o, w)
    BY <2>1
  <2>3. CASE StandPush
    <3>1. job' = [at |-> "hoard", pair |-> <<o, w>>] /\ job'.at = "hoard" /\ job'.pair = <<o, w>>
      BY <2>1, <2>3 DEF StandPush
    <3>2. stand' = stand \union {<<o, w>>} /\ UNCHANGED <<index, hoard, cache, keep, mine, mineDisk>>
      BY <2>2, <2>3 DEF StandPush
    <3>3. TypeOK' /\ WriteOrder' /\ StatusOrder'
      BY <2>2, <2>3, <3>1, <3>2
         DEF StandPush, TypeOK, WriteOrder, StatusOrder, HasWitness, JobOrder, Pairs
    <3>4. QED
      BY <2>2, <2>3, <3>1, <3>2, <3>3 DEF StandPush, JobOrder
  <2>4. CASE HoardInsert
    <3>1. job' = [at |-> "cache", pair |-> <<o, w>>] /\ job'.at = "cache" /\ job'.pair = <<o, w>>
      BY <2>1, <2>4 DEF HoardInsert
    <3>2. /\ hoard' = [hoard EXCEPT ![w] = @ \union {o}]
          /\ UNCHANGED <<index, stand, cache, keep, mine, mineDisk>>
      BY <2>2, <2>4 DEF HoardInsert
    <3>3. \A x \in Wids : hoard'[x] = IF x = w THEN hoard[x] \union {o} ELSE hoard[x]
      BY <3>2 DEF TypeOK
    <3>4. TypeOK'
      BY <3>1, <3>2, <3>3 DEF TypeOK, Pairs
    <3>5. WriteOrder' /\ StatusOrder'
      BY <2>2, <2>4, <3>1, <3>2, <3>3
         DEF HoardInsert, WriteOrder, StatusOrder, HasWitness, JobOrder, TypeOK
    <3>6. QED
      BY <2>2, <2>4, <3>1, <3>2, <3>3, <3>4, <3>5 DEF HoardInsert, JobOrder
  <2>5. CASE CacheInsert
    <3>1. job' = [at |-> "mine", pair |-> <<o, w>>] /\ job'.at = "mine" /\ job'.pair = <<o, w>>
      BY <2>1, <2>5 DEF CacheInsert
    <3>2. cache' = cache \union {w} /\ UNCHANGED <<index, stand, hoard, keep, mine, mineDisk>>
      BY <2>2, <2>5 DEF CacheInsert
    <3>3. TypeOK' /\ WriteOrder' /\ StatusOrder'
      BY <2>2, <2>5, <3>1, <3>2
         DEF CacheInsert, TypeOK, WriteOrder, StatusOrder, HasWitness, JobOrder, Pairs
    <3>4. QED
      BY <2>2, <2>5, <3>1, <3>2, <3>3 DEF CacheInsert, JobOrder
  <2>6. CASE MineInsert
    <3>1. job' = [at |-> "commit", pair |-> <<o, w>>] /\ job'.at = "commit" /\ job'.pair = <<o, w>>
      BY <2>1, <2>6 DEF MineInsert
    <3>2. /\ mine' = [mine EXCEPT ![w] = IF @ = NoStatus THEN Tentative ELSE @]
          /\ UNCHANGED <<index, stand, hoard, cache, keep, mineDisk>>
      BY <2>2, <2>6 DEF MineInsert, files
    <3>3. \A x \in Wids : mine'[x] = IF x = w /\ mine[x] = NoStatus THEN Tentative ELSE mine[x]
      BY <3>2 DEF TypeOK
    <3>4. TypeOK'
      <4>1. mine' \in [Wids -> Statuses \union {NoStatus}]
        BY <3>2, StatusFacts DEF TypeOK
      <4>2. job' \in [at : {"stand", "hoard", "cache", "mine", "commit"}, pair : Pairs]
        BY <3>1 DEF Pairs
      <4>3. hoard[w] # {}
        BY <2>2, <2>6 DEF MineInsert, JobOrder
      <4>4. QED
        BY <3>2, <3>3, <4>1, <4>2, <4>3 DEF TypeOK
    <3>5. WriteOrder'
      BY <3>2 DEF WriteOrder, HasWitness
    <3>6. StatusOrder'
      BY <2>2, <2>6, <3>1, <3>2, <3>3, StatusFacts DEF MineInsert, StatusOrder, JobOrder
    <3>7. QED
      BY <2>2, <2>6, <3>1, <3>2, <3>3, <3>4, <3>5, <3>6, StatusFacts
         DEF MineInsert, JobOrder, StatusOrder
  <2>7. CASE CommitInclude
    BY <2>2, <2>7 DEF CommitInclude, files, Idle, TypeOK, WriteOrder, StatusOrder, HasWitness, JobOrder
  <2>8. QED
    BY <1>2, <2>3, <2>4, <2>5, <2>6, <2>7
<1>3. ASSUME NEW c \in Cells, AddSeal(c) PROVE IInv'
  BY <1>3 DEF AddSeal, TypeOK, WriteOrder, StatusOrder, HasWitness, JobOrder
<1>4. ASSUME NEW w \in Wids, NEW s \in Reported, UpdateWitnessStatus(w, s) PROVE IInv'
  <2>1. /\ s \in Statuses /\ mine[w] # NoStatus /\ job = Idle
        /\ \A x \in Wids : mine'[x] = IF x = w THEN s ELSE mine[x]
        /\ UNCHANGED <<index, stand, hoard, cache, keep, mineDisk, job>>
    BY <1>4, PileFsAssumption DEF UpdateWitnessStatus, files, TypeOK, Statuses
  <2>2. TypeOK'
    BY <1>4, <2>1 DEF UpdateWitnessStatus, TypeOK, HasWitness
  <2>3. WriteOrder' /\ StatusOrder'
    BY <2>1, StatusFacts DEF WriteOrder, StatusOrder, HasWitness
  <2>4. QED
    BY <2>1, <2>2, <2>3 DEF Idle, JobOrder
<1>5. CASE CommitTransaction
  BY <1>5 DEF CommitTransaction, files, Idle, TypeOK, WriteOrder, StatusOrder, HasWitness, JobOrder
<1>6. CASE Crash
  BY <1>6 DEF Crash, files, Idle, TypeOK, WriteOrder, StatusOrder, HasWitness, JobOrder
<1>7. CASE UNCHANGED vars
  BY <1>7 DEF vars, TypeOK, WriteOrder, StatusOrder, HasWitness, JobOrder
<1>8. (StandPush \/ HoardInsert \/ CacheInsert \/ MineInsert \/ CommitInclude) => job.at # "idle"
  BY DEF StandPush, HoardInsert, CacheInsert, MineInsert, CommitInclude
<1>9. QED
  BY <1>1, <1>2, <1>3, <1>4, <1>5, <1>6, <1>7, <1>8 DEF Next

\* The order of writes holds in every state of the files.
THEOREM IInvInvariant == Spec => []IInv
  BY InitIInv, NextIInv, PTL DEF Spec

\* The files keep their shapes, and a status in memory has an anchor.
THEOREM PileTypeCorrect == Spec => []TypeOK
<1>1. IInv => TypeOK
  BY DEF IInv
<1>2. QED
  BY <1>1, IInvInvariant, PTL

(***************************************************************************)
(* A crash at any write leaves a prefix of the writes of add_witness.      *)
(***************************************************************************)
THEOREM WritesOrdered == Spec => []WriteOrder
<1>1. IInv => WriteOrder
  BY DEF IInv
<1>2. QED
  BY <1>1, IInvInvariant, PTL

-----------------------------------------------------------------------------
(***************************************************************************)
(* PileFs implements Pile.                                                 *)
(***************************************************************************)
Recorded == {p \in Pairs : Complete(p[1], p[2])}

\* Both modules speak of the same statuses.
LEMMA SameStatuses ==
    /\ Promise!NoStatus = NoStatus
    /\ Promise!Tentative = Tentative
    /\ (Promise!DistinctStatus \ {Promise!Genesis}) = Statuses
  BY DEF Promise!NoStatus, Promise!DistinctStatus, Promise!Genesis, Promise!Tentative,
         Promise!Offchain, Promise!Archived, Promise!Mined, Promise!OFFCHAIN, NoStatus,
         Statuses, DistinctStatus, Genesis, Tentative, Offchain, Archived, Mined, OFFCHAIN

\* A pair counts as recorded when all of its parts are there.
LEMMA InRecorded ==
    ASSUME NEW o \in Ops, NEW w \in Wids
    PROVE  <<o, w>> \in Recorded <=> Complete(o, w)
  BY DEF Recorded, Pairs

\* Under the order of writes a pair is complete once it has its anchor and
\* its witness has a status.
LEMMA CompleteIff ==
    ASSUME TypeOK, WriteOrder, NEW o \in Ops, NEW w \in Wids
    PROVE  Complete(o, w) <=> o \in hoard[w] /\ mineDisk[w] # NoStatus
  BY DEF Complete, WriteOrder

\* Thus the witnesses with a durable status are those with a complete pair.
LEMMA StatusesOfRecorded ==
    ASSUME TypeOK', WriteOrder'
    PROVE  Promise!StatusesOf(Recorded')
<1>1. mineDisk' \in [Wids -> Statuses \union {NoStatus}]
  BY DEF TypeOK
<1>2. ASSUME NEW w \in Wids
      PROVE  mineDisk'[w] # NoStatus <=> \E o \in Ops : <<o, w>> \in Recorded'
  <2>1. ASSUME mineDisk'[w] # NoStatus PROVE \E o \in Ops : <<o, w>> \in Recorded'
    <3>1. PICK o \in Ops : o \in hoard'[w]
      BY <2>1 DEF WriteOrder, HasWitness, TypeOK
    <3>2. Complete(o, w)'
      BY <2>1, <3>1 DEF WriteOrder, Complete
    <3>3. QED
      BY <3>2 DEF Recorded, Pairs
  <2>2. QED
    BY <2>1 DEF Recorded, Pairs, Complete
<1>3. QED
  BY <1>1, <1>2, SameStatuses DEF Promise!StatusesOf

\* A step that writes the anchor or the status of one pair records pairs of
\* its witness, this one among them.
LEMMA RecordStep ==
    ASSUME IInv, IInv', NEW o \in Ops, NEW w \in Wids, <<o, w>> \in index, Complete(o, w)',
           UNCHANGED index,
           \A x \in Wids : hoard[x] \subseteq hoard'[x] /\ (x # w => hoard'[x] = hoard[x]),
           \A x \in Wids : mineDisk[x] # NoStatus => mineDisk'[x] # NoStatus,
           \A x \in Wids : x # w /\ mineDisk[x] = NoStatus => mineDisk'[x] = NoStatus,
           mineDisk[w] = NoStatus => mineDisk'[w] = Tentative
    PROVE  Promise!Record(o, w)
<1>1. index' = index \union {<<o, w>>}
  OBVIOUS
<1>2. \A q \in Ops, x \in Wids : Complete(q, x) <=> q \in hoard[x] /\ mineDisk[x] # NoStatus
  BY CompleteIff DEF IInv
<1>3. \A q \in Ops, x \in Wids : Complete(q, x)' <=> q \in hoard'[x] /\ mineDisk'[x] # NoStatus
  BY DEF IInv, WriteOrder, Complete
<1>4. Recorded \subseteq Recorded'
  BY <1>2, <1>3 DEF Recorded, Pairs
<1>5. Recorded' \ Recorded \subseteq {p \in index' : p[2] = w}
  <2>1. ASSUME NEW q \in Ops, NEW x \in Wids, Complete(q, x)', ~Complete(q, x) PROVE x = w
    BY <1>2, <1>3, <2>1
  <2>2. \A q \in Ops, x \in Wids : Complete(q, x)' => <<q, x>> \in index'
    BY DEF Complete
  <2>3. QED
    BY <2>1, <2>2 DEF Recorded, Pairs
<1>6. <<o, w>> \in Recorded'
  BY DEF Recorded, Pairs
<1>7. Promise!StatusesOf(Recorded')
  BY StatusesOfRecorded DEF IInv
<1>8. QED
  BY <1>1, <1>4, <1>5, <1>6, <1>7, SameStatuses DEF Promise!Record, Recorded

(***************************************************************************)
(* The pile on the file system implements the promise of the trait through *)
(* a crash at any write: counting complete pairs, inclusions are atomic    *)
(* and are never lost.                                                     *)
(***************************************************************************)
THEOREM PileFsImplementsPile == Spec => ImplementsPile
<1>1. Init => Promise!Init
  BY DEF Init, Complete, Promise!Init, Promise!NoStatus, NoStatus
<1>2. IInv /\ IInv' /\ [Next]_vars => [Promise!Next]_(Promise!vars)
  <2> SUFFICES ASSUME IInv, IInv', [Next]_vars
               PROVE  [Promise!Next]_(Promise!vars)
    OBVIOUS
  <2>1. ASSUME UNCHANGED <<index, Recorded, mineDisk>> PROVE [Promise!Next]_(Promise!vars)
    BY <2>1 DEF Recorded, Promise!vars
  <2>2. ASSUME UNCHANGED <<index, hoard, mineDisk>> PROVE UNCHANGED Recorded
    <3>1. \A o \in Ops, w \in Wids : Complete(o, w)' <=> Complete(o, w)
      BY <2>2 DEF IInv, WriteOrder, Complete
    <3>2. QED
      BY <3>1 DEF Recorded, Pairs
  <2>3. ASSUME NEW o \in Ops, NEW w \in Wids, IndexPush(o, w)
        PROVE  [Promise!Next]_(Promise!vars)
    <3>1. \A q \in Ops, x \in Wids : Complete(q, x)' <=> Complete(q, x)
      BY <2>3 DEF IndexPush, IInv, WriteOrder, Complete
    <3>2. UNCHANGED Recorded
      BY <3>1 DEF Recorded, Pairs
    <3>3. Promise!Attempt(o, w)
      BY <2>3, <3>2 DEF IndexPush, Recorded, Promise!Attempt
    <3>4. QED
      BY <3>3 DEF Promise!Next
  <2>4. ASSUME job.at # "idle", HoardInsert \/ CommitInclude
        PROVE  [Promise!Next]_(Promise!vars)
    <3>1. PICK o \in Ops, w \in Wids : job = [at |-> job.at, pair |-> <<o, w>>]
      BY <2>4, JobPair DEF IInv
    <3>2. job.pair = <<o, w>> /\ job.pair[1] = o /\ job.pair[2] = w /\ JobOrder(o, w)
      BY <3>1 DEF IInv
    <3>3. CASE HoardInsert /\ mineDisk[w] # NoStatus
      <4>1. \A x \in Wids : hoard'[x] = IF x = w THEN hoard[x] \union {o} ELSE hoard[x]
        BY <3>2, <3>3 DEF HoardInsert, IInv, TypeOK
      <4>2. UNCHANGED <<index, stand, cache, mineDisk>>
        BY <3>3 DEF HoardInsert
      <4>3. <<o, w>> \in index /\ Complete(o, w)'
        BY <3>2, <3>3, <4>1, <4>2 DEF HoardInsert, IInv, WriteOrder, Complete, JobOrder
      <4>4. Promise!Record(o, w)
        BY <3>3, <4>1, <4>2, <4>3, RecordStep
      <4>5. QED
        BY <4>4 DEF Promise!Next
    <3>4. CASE HoardInsert /\ mineDisk[w] = NoStatus
      <4>1. \A x \in Wids : hoard'[x] = IF x = w THEN hoard[x] \union {o} ELSE hoard[x]
        BY <3>2, <3>4 DEF HoardInsert, IInv, TypeOK
      <4>2. UNCHANGED <<index, stand, cache, mineDisk>>
        BY <3>4 DEF HoardInsert
      <4>3. \A q \in Ops, x \in Wids : Complete(q, x)' <=> Complete(q, x)
        BY <3>4, <4>1, <4>2 DEF Complete
      <4>4. UNCHANGED Recorded
        BY <4>3 DEF Recorded, Pairs
      <4>5. QED
        BY <2>1, <4>2, <4>4
    <3>5. CASE CommitInclude
      <4>1. mineDisk' = mine /\ UNCHANGED <<index, stand, hoard, cache, mine>> /\ job.at = "commit"
        BY <3>5 DEF CommitInclude, files
      <4>2. <<o, w>> \in index /\ Complete(o, w)'
        BY <3>2, <4>1 DEF Complete, JobOrder
      <4>3. /\ \A x \in Wids : mineDisk[x] # NoStatus => mineDisk'[x] # NoStatus
            /\ \A x \in Wids : x # w /\ mineDisk[x] = NoStatus => mineDisk'[x] = NoStatus
            /\ mineDisk[w] = NoStatus => mineDisk'[w] = Tentative
        BY <3>2, <4>1 DEF IInv, StatusOrder, JobOrder
      <4>4. Promise!Record(o, w)
        BY <4>1, <4>2, <4>3, RecordStep
      <4>5. QED
        BY <4>4 DEF Promise!Next
    <3>6. QED
      BY <2>4, <3>3, <3>4, <3>5
  <2>5. CASE CommitTransaction
    <3>1. mineDisk' = mine /\ UNCHANGED <<index, stand, hoard, cache, mine>> /\ job = Idle
      BY <2>5 DEF CommitTransaction, files
    <3>2. \A x \in Wids : mineDisk[x] # NoStatus <=> mineDisk'[x] # NoStatus
      BY <3>1 DEF IInv, StatusOrder, Idle
    <3>3. \A q \in Ops, x \in Wids : Complete(q, x)' <=> Complete(q, x)
      BY <3>1, <3>2 DEF Complete
    <3>4. UNCHANGED Recorded
      BY <3>3 DEF Recorded, Pairs
    <3>5. Promise!StatusesOf(Recorded)
      BY <3>4, StatusesOfRecorded DEF IInv
    <3>6. Promise!CommitStatuses
      BY <3>1, <3>4, <3>5 DEF Promise!CommitStatuses, Recorded
    <3>7. QED
      BY <3>6 DEF Promise!Next
  <2>6. ASSUME NEW w \in Wids, NEW s \in Reported, UpdateWitnessStatus(w, s)
        PROVE  UNCHANGED <<index, hoard, mineDisk>>
    BY <2>6 DEF UpdateWitnessStatus, files
  <2>7. ASSUME StandPush \/ CacheInsert \/ MineInsert \/ Crash \/ (\E c \in Cells : AddSeal(c))
        PROVE  UNCHANGED <<index, hoard, mineDisk>>
    BY <2>7 DEF StandPush, CacheInsert, MineInsert, Crash, AddSeal, files
  <2>8. (HoardInsert \/ CommitInclude) => job.at # "idle"
    BY DEF HoardInsert, CommitInclude
  <2>9. ASSUME UNCHANGED vars PROVE UNCHANGED <<index, hoard, mineDisk>>
    BY <2>9 DEF vars
  <2>10. QED
    BY <2>1, <2>2, <2>3, <2>4, <2>5, <2>6, <2>7, <2>8, <2>9 DEF Next
<1>3. QED
  BY <1>1, <1>2, IInvInvariant, PTL DEF Spec, ImplementsPile, Promise!Spec
=============================================================================
