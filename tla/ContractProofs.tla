--------------------------- MODULE ContractProofs ---------------------------
(***************************************************************************)
(* Proofs about Contract, for any set of operations, witnesses and cells,  *)
(* and for every interruption and failure the module allows.               *)
(*                                                                         *)
(* Base says how the stores are built; it is inductive.  Over it           *)
(* HistoriesConsistent is inductive, and AnchorProvesOps and               *)
(* OnlyLostWitnessDrops are properties of every step.  The invariants that *)
(* relate the ledger with the witnesses need the strengthening Synced.     *)
(***************************************************************************)
EXTENDS Contract, WitnessStatusProofs

\* What the anchors prove is linked both ways, as the writes come in order.
LinksNested ==
    /\ \A o \in Ops : \A w \in Wids : o \in hoard[w] => o \in stand[w]
    /\ \A o \in Ops : \A w \in Wids : o \in stand[w] => w \in index[o]

\* How far the inclusion at hand is.
InclusionAtHand ==
    /\ job.at \in WitnessSteps => job.wid \in index[job.op]
    /\ job.at \in {"anchor", "register"} => job.op \in stand[job.wid]
    /\ job.at = "register" => job.op \in hoard[job.wid]

\* What is applied, linked or worked on is in the stash.
StashHolds ==
    /\ valid \union validDisk \subseteq known
    /\ \A o \in Ops : index[o] # {} => o \in known
    /\ job.at \in BlockSteps \union WitnessSteps => job.op \in known
    /\ job.at \in {"commit", "forward"} => job.ops \subseteq known

\* What the commits of a sync have made equal.
SyncCommitted ==
    /\ job.at \in {"commit", "forward"} => validDisk = valid
    /\ job.at = "forward" => mineDisk = mine

Base == TypeOK /\ LinksNested /\ InclusionAtHand /\ StashHolds /\ SyncCommitted

-----------------------------------------------------------------------------
(***************************************************************************)
(* Lemmas on statuses.                                                     *)
(***************************************************************************)

\* A missing record is not a status.
LEMMA NoStatusIsNone == NoStatus \notin WitnessStatuses /\ Tentative \in WitnessStatuses
  BY DEF NoStatus, WitnessStatuses, DistinctStatus, Genesis, Tentative, Offchain, Archived, Mined

(***************************************************************************)
(* The validity of an operation, without the order of statuses: it has no  *)
(* witness or a valid one.                                                 *)
(***************************************************************************)
LEMMA ValidStatus ==
    ASSUME NEW W, NEW m, \A w \in W : m[w] \in WitnessStatuses
    PROVE  IsValid(StatusOf({m[w] : w \in W})) <=> (W = {} \/ \E w \in W : IsValid(m[w]))
<1>1. CASE W = {}
  BY <1>1 DEF StatusOf, IsValid, Genesis
<1>2. CASE W # {}
  <2>1. {m[w] : w \in W} \in SUBSET DistinctStatus /\ {m[w] : w \in W} # {}
    BY <1>2 DEF WitnessStatuses
  <2>2. IsValid(BestOf({m[w] : w \in W})) <=> \E s \in {m[w] : w \in W} : IsValid(s)
    BY <2>1, BestIsValidIffOneIs
  <2>3. QED
    BY <1>2, <2>1, <2>2 DEF StatusOf
<1>3. QED
  BY <1>1, <1>2

\* An operation all of whose witnesses have a status is valid unless dead.
LEMMA ValidUnlessDead ==
    ASSUME NEW m, NEW o \in Ops, \A w \in index[o] : m[w] \in WitnessStatuses
    PROVE  IsValid(StatusUnder(m, o)) <=> ~Dead(m, o)
<1>1. \A w \in index[o] : IsValid(m[w]) <=> m[w] # Archived
  BY ArchivedIsWorst DEF WitnessStatuses
<1>2. IsValid(StatusUnder(m, o)) <=> (index[o] = {} \/ \E w \in index[o] : IsValid(m[w]))
  BY ValidStatus DEF StatusUnder
<1>3. QED
  BY <1>1, <1>2 DEF Dead

\* Of the entries of a sync on a witness that have an effect there is a last.
LEMMA LastEffectiveExists ==
    ASSUME NEW changed \in Changes, NEW w, EffectiveFor(changed, w) # {}
    PROVE  LastEffective(changed, w) \in EffectiveFor(changed, w)
<1>1. PICK n \in 1 .. MaxChanged : changed \in [1 .. n -> [wid : Wids, status : Reported]]
  BY DEF Changes
<1>2. n \in Nat /\ EffectiveFor(changed, w) \subseteq 1 .. n
  BY <1>1, ContractAssumption DEF EffectiveFor, Effective
<1> DEFINE T == {n - i : i \in EffectiveFor(changed, w)}
<1>3. T \in SUBSET Nat /\ T # {}
  BY <1>2
<1> HIDE DEF T
<1>4. PICK m \in T : \A k \in T : m <= k
  BY <1>3, LeastNatural
<1>5. PICK i \in EffectiveFor(changed, w) : m = n - i
  BY DEF T
<1>6. ASSUME NEW j \in EffectiveFor(changed, w)
      PROVE  j <= i
  <2>1. n - i <= n - j
    BY <1>4, <1>5 DEF T
  <2>2. QED
    BY <1>2, <2>1
<1>7. QED
  BY <1>6 DEF LastEffective

\* sync gives witnesses that have a status a reported one, and leaves the
\* others alone.
LEMMA UpdatedType ==
    ASSUME TypeOK, NEW changed \in Changes, Reads(changed)
    PROVE  /\ Updated(changed) \in [Wids -> WitnessStatuses \union {NoStatus}]
           /\ \A w \in Wids : Updated(changed)[w] = NoStatus <=> mine[w] = NoStatus
           /\ \A w \in Wids : Updated(changed)[w] # mine[w] => w \in AffectedWids(changed)
           /\ \A o \in AffectedOps(changed) : Readable(o) /\ o \in Ops
<1>0. PICK n \in 1 .. MaxChanged : changed \in [1 .. n -> [wid : Wids, status : Reported]]
  BY DEF Changes
<1>1. ASSUME NEW w \in AffectedWids(changed)
      PROVE  /\ w \in Wids /\ mine[w] # NoStatus /\ \A o \in stand[w] : Readable(o) /\ o \in Ops
             /\ changed[LastEffective(changed, w)].status \in WitnessStatuses
  <2>1. PICK i \in Effective(changed) : changed[i].wid = w
    BY DEF AffectedWids
  <2>2. i \in DOMAIN changed /\ hoard[w] # {} /\ w \in Wids
    BY <1>0, <2>1 DEF Effective
  <2>3. mine[w] # NoStatus /\ \A o \in stand[w] : Readable(o)
    BY <2>1, <2>2 DEF Reads
  <2>4. LastEffective(changed, w) \in 1 .. n
    BY <1>0, <2>1, LastEffectiveExists DEF EffectiveFor, Effective
  <2>5. QED
    BY <1>0, <2>2, <2>3, <2>4, ContractAssumption DEF WitnessStatuses, TypeOK
<1>2. ASSUME NEW w \in Wids
      PROVE  /\ Updated(changed)[w] \in WitnessStatuses \union {NoStatus}
             /\ Updated(changed)[w] = NoStatus <=> mine[w] = NoStatus
             /\ Updated(changed)[w] # mine[w] => w \in AffectedWids(changed)
  <2>1. CASE w \in AffectedWids(changed)
    BY <1>1, <2>1, NoStatusIsNone DEF Updated
  <2>2. CASE w \notin AffectedWids(changed)
    BY <2>2 DEF Updated, TypeOK
  <2>3. QED
    BY <2>1, <2>2
<1>3. \A o \in AffectedOps(changed) : Readable(o) /\ o \in Ops
  BY <1>1 DEF AffectedOps
<1>4. QED
  BY <1>2, <1>3 DEF Updated

\* What sync rolls back dies, and what it re-applies comes to life.
LEMMA AffectedStatus ==
    ASSUME TypeOK, NEW changed \in Changes, Reads(changed), NEW o \in AffectedOps(changed)
    PROVE  /\ o \in Losing(changed) <=> ~Dead(mine, o) /\ Dead(Updated(changed), o)
           /\ o \in Gaining(changed) <=> Dead(mine, o) /\ ~Dead(Updated(changed), o)
           /\ o \in Ops
<1>1. o \in Ops /\ \A w \in index[o] : w \in Wids /\ mine[w] # NoStatus
  BY UpdatedType DEF Readable, TypeOK
<1>2. \A w \in index[o] : mine[w] \in WitnessStatuses /\ Updated(changed)[w] \in WitnessStatuses
  BY <1>1, UpdatedType DEF TypeOK
<1>3. IsValid(OpStatus(o)) <=> ~Dead(mine, o)
  BY <1>1, <1>2, ValidUnlessDead DEF OpStatus
<1>4. IsValid(StatusUnder(Updated(changed), o)) <=> ~Dead(Updated(changed), o)
  BY <1>1, <1>2, ValidUnlessDead
<1>5. QED
  BY <1>1, <1>3, <1>4 DEF Losing, Gaining

\* What loses and what gains is in the stash.
LEMMA AffectedKnown ==
    ASSUME Base, NEW changed \in Changes, Reads(changed)
    PROVE  /\ Losing(changed) \subseteq known /\ Gaining(changed) \subseteq known
           /\ Losing(changed) \subseteq Ops /\ Gaining(changed) \subseteq Ops
<1>1. \A o \in AffectedOps(changed) : o \in Ops
  BY UpdatedType DEF Base
<1>2. ASSUME NEW o \in AffectedOps(changed) PROVE o \in known
  <2>1. PICK w \in AffectedWids(changed) : o \in stand[w]
    BY DEF AffectedOps
  <2>2. w \in Wids
    <3>1. PICK n \in 1 .. MaxChanged : changed \in [1 .. n -> [wid : Wids, status : Reported]]
      BY DEF Changes
    <3>2. QED
      BY <3>1 DEF AffectedWids, Effective
  <2>3. QED
    BY <1>1, <2>1, <2>2 DEF Base, LinksNested, StashHolds
<1>3. QED
  BY <1>1, <1>2 DEF Losing, Gaining

-----------------------------------------------------------------------------
(***************************************************************************)
(* Base is inductive.                                                      *)
(***************************************************************************)

\* A contract that was just issued meets Base.
LEMMA InitBase == Init => Base
<1> SUFFICES ASSUME Init PROVE Base
  OBVIOUS
<1>1. TypeOK
  BY ContractAssumption
     DEF Init, TypeOK, Idle, Job, Steps, BlockSteps, WitnessSteps, CellsOf
<1>2. LinksNested /\ InclusionAtHand /\ StashHolds /\ SyncCommitted
  BY ContractAssumption
     DEF Init, Idle, Job, BlockSteps, WitnessSteps, LinksNested, InclusionAtHand, StashHolds,
         SyncCommitted
<1>3. QED
  BY <1>1, <1>2 DEF Base

\* A contract that waits has nothing at hand.
LEMMA IdleAtHand == Idle.at = "idle" /\ Idle.ops = {} /\ Idle.op = GenesisOp /\ Idle.wid = NoWid
  BY DEF Idle, Job

\* Where an inclusion or a block without witness returns to.
LEMMA ReturnType ==
    ASSUME TypeOK, Return
    PROVE  /\ job' \in [at : Steps, ops : SUBSET Ops, op : Ops, wid : Wids \union {NoWid}]
           /\ job'.at \in {"idle", "consume"}
           /\ job'.at = "consume" => job'.ops = job.ops \union {job.op}
  BY ContractAssumption DEF TypeOK, Return, Idle, Job, Steps

\* A step after which no inclusion and no sync is under way.
LEMMA BaseAfter ==
    ASSUME TypeOK', LinksNested', valid' \union validDisk' \subseteq known',
           \A o \in Ops : index'[o] # {} => o \in known',
           job'.at \in {"idle", "call", "consume"}
    PROVE  Base'
  BY DEF Base, InclusionAtHand, StashHolds, SyncCommitted, BlockSteps, WitnessSteps

\* The first write of an inclusion.
LEMMA IndexPushBase ==
    ASSUME Base, NEW o \in known, NEW w \in Wids, NEW evaluated \in SUBSET Ops,
           IndexPush(o, w, evaluated)
    PROVE  Base'
<1>1. o \in Ops
  BY DEF Base, TypeOK
<1>2. TypeOK'
  BY <1>1 DEF Base, TypeOK, IndexPush, ledger, Job, Steps, BlockSteps, WitnessSteps
<1>3. LinksNested'
  BY <1>1 DEF Base, TypeOK, LinksNested, IndexPush
<1>4. InclusionAtHand'
  BY <1>1 DEF Base, TypeOK, InclusionAtHand, IndexPush, Job
<1>5. StashHolds' /\ SyncCommitted'
  BY <1>1 DEF Base, TypeOK, StashHolds, SyncCommitted, IndexPush, ledger, Job, BlockSteps,
              WitnessSteps
<1>6. QED
  BY <1>2, <1>3, <1>4, <1>5 DEF Base

\* Every step keeps the stores well built.
LEMMA NextBase == Base /\ [Next]_vars => Base'
<1> SUFFICES ASSUME Base, [Next]_vars PROVE Base'
  OBVIOUS
<1>1. ASSUME NEW o \in Ops, Call(o) PROVE Base'
  <2>1. TypeOK'
    BY <1>1 DEF Base, TypeOK, Call, pile, LedgerMayCommit, Expose, Job, Steps, BlockSteps,
                WitnessSteps
  <2>2. LinksNested' /\ valid' \union validDisk' \subseteq known'
    BY <1>1 DEF Base, LinksNested, StashHolds, Call, pile, LedgerMayCommit
  <2>3. \A p \in Ops : index'[p] # {} => p \in known'
    BY <1>1 DEF Base, StashHolds, Call, pile
  <2>4. QED
    BY <1>1, <2>1, <2>2, <2>3, BaseAfter DEF Call, Job
<1>2. CASE CallSeals
  <2>1. TypeOK'
    BY <1>2, ContractAssumption
       DEF Base, TypeOK, CallSeals, ledger, links, CellsOf, Idle, Job, Steps, WitnessSteps
  <2>2. QED
    BY <1>2, <2>1, BaseAfter, IdleAtHand
       DEF Base, LinksNested, StashHolds, CallSeals, ledger, links
<1>3. ASSUME NEW o \in Ops, NEW w \in Wids, Include(o, w) PROVE Base'
  BY <1>3, IndexPushBase DEF Include
<1>4. CASE StandPush
  <2>1. /\ job.wid \in Wids /\ job.op \in Ops /\ job.wid \in index[job.op] /\ job.op \in known
        /\ job'.at = "anchor" /\ job'.wid = job.wid /\ job'.op = job.op
    BY <1>4 DEF Base, TypeOK, InclusionAtHand, StashHolds, StandPush, WitnessSteps
  <2>2. TypeOK'
    BY <1>4, <2>1 DEF Base, TypeOK, StandPush, ledger, Steps, WitnessSteps
  <2>3. LinksNested' /\ InclusionAtHand'
    BY <1>4, <2>1 DEF Base, TypeOK, LinksNested, InclusionAtHand, StandPush
  <2>4. StashHolds' /\ SyncCommitted'
    BY <1>4, <2>1 DEF Base, StashHolds, SyncCommitted, StandPush, ledger
  <2>5. QED
    BY <2>2, <2>3, <2>4 DEF Base
<1>5. CASE MergeAnchor
  <2>1. /\ job.wid \in Wids /\ job.op \in Ops /\ job.wid \in index[job.op] /\ job.op \in known
        /\ job.op \in stand[job.wid]
        /\ job'.at = "register" /\ job'.wid = job.wid /\ job'.op = job.op
    BY <1>5 DEF Base, TypeOK, InclusionAtHand, StashHolds, MergeAnchor, WitnessSteps
  <2>2. TypeOK'
    BY <1>5, <2>1 DEF Base, TypeOK, MergeAnchor, ledger, Steps, WitnessSteps
  <2>3. LinksNested' /\ InclusionAtHand'
    BY <1>5, <2>1 DEF Base, TypeOK, LinksNested, InclusionAtHand, MergeAnchor
  <2>4. StashHolds' /\ SyncCommitted'
    BY <1>5, <2>1 DEF Base, StashHolds, SyncCommitted, MergeAnchor, ledger
  <2>5. QED
    BY <2>2, <2>3, <2>4 DEF Base
<1>6. CASE Register
  <2>1. job.wid \in Wids /\ job.op \in Ops /\ job.op \in hoard[job.wid]
    BY <1>6 DEF Base, TypeOK, InclusionAtHand, Register, WitnessSteps
  <2>2. mine' \in [Wids -> WitnessStatuses \union {NoStatus}]
    BY <1>6, NoStatusIsNone DEF Base, TypeOK, Register
  <2>3. TypeOK'
    BY <1>6, <2>1, <2>2, ReturnType
       DEF Base, TypeOK, Register, ledger, links, Expose, WitnessSteps
  <2>4. QED
    BY <1>6, <2>3, ReturnType, BaseAfter DEF Base, LinksNested, StashHolds, Register, ledger, links
<1>7. CASE BeginConsume
  <2>1. TypeOK'
    BY <1>7, ContractAssumption
       DEF Base, TypeOK, BeginConsume, ledger, pile, Job, Steps, BlockSteps, WitnessSteps
  <2>2. QED
    BY <1>7, <2>1, BaseAfter DEF Base, LinksNested, StashHolds, BeginConsume, ledger, pile, Job
<1>8. ASSUME NEW o \in Ops, ApplyOperation(o) PROVE Base'
  <2>1. /\ known' = known \union {o} /\ valid' = valid \union {o}
        /\ validDisk' \in {validDisk, valid'}
    BY <1>8 DEF ApplyOperation, Base, StashHolds, ledger, LedgerMayCommit
  <2>2. UNCHANGED <<pile, exposed>> /\ job' = Job("seals", job.ops, o, NoWid)
    BY <1>8 DEF ApplyOperation, Block
  <2>3. TypeOK'
    BY <2>1, <2>2 DEF Base, TypeOK, pile, Job, Steps, BlockSteps, WitnessSteps
  <2>4. LinksNested' /\ InclusionAtHand'
    BY <2>2 DEF Base, LinksNested, InclusionAtHand, pile, Job, WitnessSteps
  <2>5. StashHolds' /\ SyncCommitted'
    BY <2>1, <2>2 DEF Base, StashHolds, SyncCommitted, pile, Job
  <2>6. QED
    BY <2>3, <2>4, <2>5 DEF Base
<1>9. CASE ApplySeals
  <2>1. /\ job'.at = "witness" /\ job'.op = job.op /\ job'.wid = job.wid
        /\ job.at = "seals" /\ job.op \in known
    BY <1>9 DEF ApplySeals, Base, TypeOK, StashHolds, BlockSteps
  <2>2. TypeOK'
    BY <1>9, <2>1, ContractAssumption
       DEF Base, TypeOK, ApplySeals, ledger, links, CellsOf, Steps, BlockSteps, WitnessSteps
  <2>3. LinksNested' /\ InclusionAtHand'
    BY <1>9, <2>1 DEF Base, LinksNested, InclusionAtHand, ApplySeals, links, WitnessSteps
  <2>4. StashHolds' /\ SyncCommitted'
    BY <1>9, <2>1 DEF Base, StashHolds, SyncCommitted, ApplySeals, ledger, links
  <2>5. QED
    BY <2>2, <2>3, <2>4 DEF Base
<1>10. ASSUME NEW w \in Wids, ApplyWitness(w) PROVE Base'
  <2>1. job.op \in known /\ job.ops \in SUBSET Ops
    BY <1>10 DEF ApplyWitness, Base, TypeOK, StashHolds, BlockSteps
  <2>2. QED
    BY <1>10, <2>1, IndexPushBase DEF ApplyWitness
<1>11. CASE NoWitness
  <2>1. TypeOK'
    BY <1>11, ReturnType DEF Base, TypeOK, NoWitness, ledger, pile, Expose, WitnessSteps
  <2>2. QED
    BY <1>11, <2>1, ReturnType, BaseAfter DEF Base, LinksNested, StashHolds, NoWitness, ledger, pile
<1>12. CASE EndConsume \/ FailConsume
  <2>1. /\ UNCHANGED <<known, valid, links, mine, keep, exposed>> /\ job' = Idle
        /\ validDisk' \in {validDisk, valid} /\ mineDisk' \in {mineDisk, mine}
    BY <1>12 DEF EndConsume, FailConsume, ledger, pile, links
  <2>2. TypeOK'
    BY <2>1, ContractAssumption DEF Base, TypeOK, links, Idle, Job, Steps, WitnessSteps
  <2>3. QED
    BY <2>1, <2>2, BaseAfter, IdleAtHand DEF Base, LinksNested, StashHolds, links
<1>13. ASSUME NEW changed \in Changes, SyncRollback(changed) PROVE Base'
  <2>1. Updated(changed) \in [Wids -> WitnessStatuses \union {NoStatus}]
        /\ \A w \in Wids : Updated(changed)[w] = NoStatus <=> mine[w] = NoStatus
    BY <1>13, UpdatedType DEF Base, SyncRollback
  <2>2. Gaining(changed) \subseteq known /\ Gaining(changed) \subseteq Ops
    BY <1>13, AffectedKnown DEF SyncRollback
  <2>3. TypeOK'
    BY <1>13, <2>1, <2>2, ContractAssumption
       DEF Base, TypeOK, SyncRollback, links, Job, Steps, WitnessSteps
  <2>4. LinksNested' /\ InclusionAtHand'
    BY <1>13 DEF Base, LinksNested, InclusionAtHand, SyncRollback, links, Job, WitnessSteps
  <2>5. StashHolds' /\ SyncCommitted'
    BY <1>13, <2>2
       DEF Base, StashHolds, SyncCommitted, SyncRollback, links, Job, BlockSteps, WitnessSteps
  <2>6. QED
    BY <2>3, <2>4, <2>5 DEF Base
<1>14. ASSUME NEW changed \in Changes, SyncRollbackErr(changed) PROVE Base'
  <2>1. Updated(changed) \in [Wids -> WitnessStatuses \union {NoStatus}]
        /\ \A w \in Wids : Updated(changed)[w] = NoStatus <=> mine[w] = NoStatus
    BY <1>14, UpdatedType DEF Base, SyncRollbackErr
  <2>2. Losing(changed) \subseteq Ops
    BY <1>14, AffectedKnown DEF SyncRollbackErr
  <2>3. valid' \subseteq valid /\ validDisk' \in {validDisk, valid'} /\ job' = Idle
    BY <1>14 DEF SyncRollbackErr, PartOf, LedgerMayCommit
  <2>4. TypeOK'
    BY <1>14, <2>1, <2>2, <2>3, ContractAssumption
       DEF Base, TypeOK, SyncRollbackErr, links, Expose, Idle, Job, Steps, WitnessSteps
  <2>5. QED
    BY <1>14, <2>3, <2>4, BaseAfter, IdleAtHand DEF Base, LinksNested, StashHolds, SyncRollbackErr, links
<1>15. CASE SyncCommitPile
  <2>1. job.at = "commit" /\ job'.at = "forward" /\ job'.ops = job.ops
    BY <1>15 DEF SyncCommitPile, Base, TypeOK
  <2>2. TypeOK'
    BY <1>15, <2>1 DEF Base, TypeOK, SyncCommitPile, ledger, links, Steps, WitnessSteps
  <2>3. LinksNested' /\ InclusionAtHand'
    BY <1>15, <2>1 DEF Base, LinksNested, InclusionAtHand, SyncCommitPile, links, WitnessSteps
  <2>4. StashHolds' /\ SyncCommitted'
    BY <1>15, <2>1
       DEF Base, StashHolds, SyncCommitted, SyncCommitPile, ledger, links, BlockSteps, WitnessSteps
  <2>5. QED
    BY <2>2, <2>3, <2>4 DEF Base
<1>16. CASE SyncForward \/ SyncForwardErr
  <2>1. PICK again \in SUBSET Reach(job.ops) : Reapply(again)
    BY <1>16 DEF SyncForward, SyncForwardErr
  <2>2. job.at = "forward" /\ job.ops \subseteq known
    BY <1>16 DEF SyncForward, SyncForwardErr, Base, StashHolds
  <2>3. again \subseteq known /\ again \subseteq Ops
    BY <2>2 DEF Reach, Dependents, Base, TypeOK
  <2>4. /\ validDisk' \in {validDisk, valid'} /\ mineDisk' = mine
        /\ mine' = mine /\ valid' = valid \union again
        /\ UNCHANGED <<known, links, keep>> /\ job' = Idle
    BY <1>16, <2>1, <2>2 DEF SyncForward, SyncForwardErr, Reapply, LedgerMayCommit, Base,
                             SyncCommitted
  <2>5. exposed' \subseteq Ops
    BY <2>1, <2>3 DEF Reapply, Expose, Base, TypeOK
  <2>6. TypeOK'
    BY <2>3, <2>4, <2>5, ContractAssumption DEF Base, TypeOK, links, Idle, Job, Steps, WitnessSteps
  <2>7. QED
    BY <2>3, <2>4, <2>6, BaseAfter, IdleAtHand DEF Base, LinksNested, StashHolds, links
<1>17. CASE Crash
  <2>1. exposed' \subseteq Ops
    BY <1>17 DEF Crash, Expose, AtHand, Base, TypeOK
  <2>2. TypeOK'
    BY <1>17, <2>1, ContractAssumption DEF Base, TypeOK, Crash, links, Idle, Job, Steps, WitnessSteps
  <2>3. QED
    BY <1>17, <2>2, BaseAfter, IdleAtHand DEF Base, LinksNested, StashHolds, Crash, links
<1>18. CASE UNCHANGED vars
  BY <1>18 DEF vars, Base, TypeOK, LinksNested, InclusionAtHand, StashHolds, SyncCommitted
<1>19. QED
  BY <1>1, <1>2, <1>3, <1>4, <1>5, <1>6, <1>7, <1>8, <1>9, <1>10, <1>11, <1>12, <1>13, <1>14,
     <1>15, <1>16, <1>17, <1>18 DEF Next

\* The stores are well built in every state.
THEOREM BaseInvariant == Spec => []Base
  BY InitBase, NextBase, PTL DEF Spec

(***************************************************************************)
(* The stores keep their types; a witness has a status in memory exactly   *)
(* when it has one on disk, and only when it has an anchor.                *)
(***************************************************************************)
THEOREM TypeCorrect == Spec => []TypeOK
<1>1. Base => TypeOK
  BY DEF Base
<1>2. QED
  BY <1>1, BaseInvariant, PTL

(***************************************************************************)
(* What an inclusion has completed stays complete, through the merge of    *)
(* anchors, interruptions and restarts; and one that ends, also over what  *)
(* an interrupted one has left, is complete.                               *)
(***************************************************************************)
THEOREM AnchorsSufficient == Spec => AnchorProvesOps
<1> DEFINE Stays == /\ \A o \in Ops : \A w \in index[o] : Complete(o, w) => Complete(o, w)'
                    /\ Register => \A o \in {job.op}, w \in {job.wid} : Complete(o, w)'
<1>1. Base /\ [Next]_vars => [Stays]_vars
  <2> SUFFICES ASSUME Base, [Next]_vars PROVE Stays
    OBVIOUS
  <2>1. /\ \A o \in Ops : index[o] \subseteq Wids
        /\ \A w \in Wids : mine[w] = NoStatus <=> mineDisk[w] = NoStatus
    BY DEF Base, TypeOK
  <2>2. ASSUME UNCHANGED <<stand, hoard>>,
               \A w \in Wids : mine[w] # NoStatus => mine'[w] # NoStatus
        PROVE  \A o \in Ops : \A w \in index[o] : Complete(o, w) => Complete(o, w)'
    BY <2>1, <2>2 DEF Complete
  <2>3. CASE StandPush
    <3>1. ~Register
      BY <2>3 DEF StandPush, Register
    <3>2. \A o \in Ops : \A w \in index[o] : Complete(o, w) => Complete(o, w)'
      BY <2>1, <2>3 DEF StandPush, Complete, Base, TypeOK
    <3>3. QED
      BY <3>1, <3>2
  <2>4. CASE MergeAnchor
    <3>1. ~Register
      BY <2>4 DEF MergeAnchor, Register
    <3>2. \A o \in Ops : \A w \in index[o] : Complete(o, w) => Complete(o, w)'
      BY <2>1, <2>4 DEF MergeAnchor, Complete, Base, TypeOK
    <3>3. QED
      BY <3>1, <3>2
  <2>5. CASE Register
    <3>1. /\ job.wid \in Wids /\ job.op \in Ops
          /\ job.op \in stand[job.wid] /\ job.op \in hoard[job.wid]
      BY <2>5 DEF Register, Base, TypeOK, InclusionAtHand, WitnessSteps
    <3>2. /\ UNCHANGED <<stand, hoard>> /\ mine'[job.wid] # NoStatus
          /\ \A w \in Wids : mine[w] # NoStatus => mine'[w] # NoStatus
      BY <2>5, <3>1, NoStatusIsNone DEF Register, links, Base, TypeOK
    <3>3. QED
      BY <2>2, <3>1, <3>2 DEF Complete
  <2>6. CASE Crash
    <3>1. UNCHANGED <<stand, hoard>> /\ \A w \in Wids : mine[w] # NoStatus => mine'[w] # NoStatus
      BY <2>1, <2>6 DEF Crash, links
    <3>2. QED
      BY <2>2, <2>5, <3>1
  <2>7. ASSUME NEW changed \in Changes, SyncRollback(changed) \/ SyncRollbackErr(changed)
        PROVE  Stays
    <3>1. UNCHANGED <<stand, hoard>> /\ ~Register
      BY <2>7 DEF SyncRollback, SyncRollbackErr, Register, links, Idle, Job
    <3>2. \A w \in Wids : mine[w] # NoStatus => mine'[w] # NoStatus
      BY <2>7, UpdatedType DEF SyncRollback, SyncRollbackErr, Base
    <3>3. QED
      BY <2>2, <3>1, <3>2
  <2>8. ASSUME UNCHANGED <<stand, hoard, mine>>, ~Register PROVE Stays
    BY <2>2, <2>8
  <2>9. CASE Register \/ Next
    <3>1. ASSUME NEW o \in Ops, Call(o) \/ ApplyOperation(o) PROVE Stays
      BY <2>8, <3>1 DEF Call, ApplyOperation, Block, Register, pile, Idle, Job
    <3>2. ASSUME NEW o \in Ops, NEW w \in Wids, Include(o, w) \/ ApplyWitness(w) PROVE Stays
      BY <2>8, <3>2 DEF Include, ApplyWitness, IndexPush, Register, Idle, Job
    <3>3. CASE SyncForward \/ SyncForwardErr
      BY <2>8, <3>3 DEF SyncForward, SyncForwardErr, Reapply, Register, links
    <3>4. CASE CallSeals \/ BeginConsume \/ ApplySeals \/ NoWitness \/ EndConsume \/ FailConsume
                 \/ SyncCommitPile
      BY <2>8, <3>4 DEF CallSeals, BeginConsume, ApplySeals, NoWitness, EndConsume, FailConsume,
                        SyncCommitPile, Register, links, pile, Idle, Job
    <3>5. ASSUME NEW w \in Wids, ApplyWitness(w) PROVE Stays
      BY <3>2, <3>5, ContractAssumption
    <3>6. QED
      BY <2>3, <2>4, <2>5, <2>6, <2>7, <2>9, <3>1, <3>2, <3>3, <3>4, <3>5 DEF Next
  <2>10. CASE UNCHANGED vars
    BY <2>5, <2>8, <2>10 DEF vars
  <2>11. QED
    BY <2>9, <2>10
<1>2. QED
  BY <1>1, BaseInvariant, PTL DEF Spec, AnchorProvesOps

-----------------------------------------------------------------------------
(***************************************************************************)
(* The ledger applies consistent histories.                                *)
(***************************************************************************)

\* Adding an applicable operation keeps a history.
LEMMA ApplyConsistent ==
    ASSUME Consistent(valid), valid \subseteq Ops, NEW o \in Ops, Applicable(o)
    PROVE  Consistent(valid \union {o})
<1>1. ASSUME NEW p \in valid \union {o}
      PROVE  Ancestors[p] \subseteq valid \union {o}
  BY DEF Consistent, Applicable
<1>2. \A p \in valid : p # o => Spends[o] \intersect Spends[p] = {}
  BY DEF Applicable, Unspent
<1>3. ASSUME NEW p \in valid \union {o}, NEW q \in (valid \union {o}) \ {p}
      PROVE  Spends[p] \intersect Spends[q] = {}
  BY <1>2 DEF Consistent
<1>4. QED
  BY <1>1, <1>3 DEF Consistent

\* Removing operations with all that builds on them keeps a history.
LEMMA RollbackConsistent ==
    ASSUME Consistent(valid), valid \subseteq known, known \subseteq Ops, NEW R
    PROVE  Consistent(valid \ Dependents(R))
<1>1. ASSUME NEW o \in valid \ Dependents(R), NEW a \in Ancestors[o]
      PROVE  a \in valid \ Dependents(R)
  <2>1. a \in valid /\ o \in known /\ Ancestors[o] \intersect R = {}
    BY <1>1 DEF Consistent, Dependents
  <2>2. Ancestors[a] \subseteq Ancestors[o]
    BY <1>1, <2>1, ContractAssumption
  <2>3. QED
    BY <2>1, <2>2 DEF Dependents
<1>2. QED
  BY <1>1 DEF Consistent

(***************************************************************************)
(* The state in memory and the state on disk are histories: closed under   *)
(* ancestors and without a double spend, through rollbacks and             *)
(* re-applications that fail half way, and crashes.                        *)
(***************************************************************************)
THEOREM LedgerConsistent == Spec => []HistoriesConsistent
<1>1. Init => HistoriesConsistent
  BY ContractAssumption DEF Init, HistoriesConsistent, Consistent
<1>2. Base /\ HistoriesConsistent /\ [Next]_vars => HistoriesConsistent'
  <2> SUFFICES ASSUME Base, HistoriesConsistent, [Next]_vars
               PROVE  HistoriesConsistent'
    OBVIOUS
  <2>0. valid \subseteq Ops /\ valid \subseteq known /\ known \subseteq Ops
    BY DEF Base, TypeOK, StashHolds
  <2>1. ASSUME Consistent(valid'), validDisk' \in {validDisk, valid'}
        PROVE  HistoriesConsistent'
    BY <2>1 DEF HistoriesConsistent, Consistent
  <2>2. ASSUME UNCHANGED <<valid, validDisk>> PROVE HistoriesConsistent'
    BY <2>2 DEF HistoriesConsistent, Consistent
  <2>3. ASSUME NEW o \in Ops, Call(o) PROVE HistoriesConsistent'
    <3>1. Consistent(valid')
      BY <2>0, <2>3, ApplyConsistent DEF Call, HistoriesConsistent
    <3>2. QED
      BY <2>1, <2>3, <3>1 DEF Call, LedgerMayCommit
  <2>4. ASSUME NEW o \in Ops, ApplyOperation(o) PROVE HistoriesConsistent'
    <3>1. CASE o \in valid
      BY <2>2, <2>4, <3>1 DEF ApplyOperation, ledger
    <3>2. CASE o \notin valid
      <4>1. Applicable(o) /\ valid' = valid \union {o} /\ LedgerMayCommit
        BY <2>4, <3>2 DEF ApplyOperation
      <4>2. Consistent(valid')
        BY <2>0, <4>1, ApplyConsistent DEF HistoriesConsistent
      <4>3. QED
        BY <2>1, <4>1, <4>2 DEF LedgerMayCommit
    <3>3. QED
      BY <3>1, <3>2
  <2>5. CASE EndConsume
    BY <2>5 DEF EndConsume, HistoriesConsistent, Consistent
  <2>6. ASSUME NEW changed \in Changes, SyncRollback(changed) PROVE HistoriesConsistent'
    <3>1. Consistent(valid')
      BY <2>0, <2>6, RollbackConsistent DEF SyncRollback, HistoriesConsistent
    <3>2. QED
      BY <2>1, <2>6, <3>1 DEF SyncRollback
  <2>7. ASSUME NEW changed \in Changes, SyncRollbackErr(changed) PROVE HistoriesConsistent'
    <3>1. Consistent(valid')
      BY <2>7 DEF SyncRollbackErr, PartOf
    <3>2. QED
      BY <2>1, <2>7, <3>1 DEF SyncRollbackErr, LedgerMayCommit
  <2>8. CASE SyncForward \/ SyncForwardErr
    <3>1. PICK again \in SUBSET Reach(job.ops) : Reapply(again)
      BY <2>8 DEF SyncForward, SyncForwardErr
    <3>2. Consistent(valid') /\ validDisk' \in {validDisk, valid'}
      BY <2>8, <3>1 DEF SyncForward, SyncForwardErr, Reapply, LedgerMayCommit
    <3>3. QED
      BY <2>1, <3>2
  <2>9. CASE Crash
    BY <2>9 DEF Crash, HistoriesConsistent, Consistent
  <2>10. QED
    BY <2>2, <2>3, <2>4, <2>5, <2>6, <2>7, <2>8, <2>9
       DEF Next, CallSeals, Include, IndexPush, StandPush, MergeAnchor, Register, BeginConsume,
           ApplySeals, ApplyWitness, NoWitness, FailConsume, SyncCommitPile, ledger, vars
<1>3. QED
  BY <1>1, <1>2, BaseInvariant, PTL DEF Spec

-----------------------------------------------------------------------------
(***************************************************************************)
(* An operation leaves the state only when it or an ancestor of it loses   *)
(* its last valid witness, or, if never committed, in a restart.           *)
(***************************************************************************)
THEOREM DurableOpsStay == Spec => OnlyLostWitnessDrops
<1> DEFINE Lost(o) == \E a \in Ancestors[o] : ~Dead(mine, a) /\ Dead(mine, a)'
           Drops   == /\ \A o \in valid \ valid' :
                            Lost(o) \/ (o \notin validDisk /\ valid' = validDisk)
                      /\ \A o \in validDisk \ validDisk' : Lost(o) \/ o \notin valid
<1>1. Base /\ [Next]_vars => [Drops]_vars
  <2> SUFFICES ASSUME Base, [Next]_vars PROVE Drops
    OBVIOUS
  <2>1. ASSUME valid \subseteq valid', validDisk' \in {validDisk, valid, valid'} PROVE Drops
    BY <2>1
  <2>2. ASSUME NEW o \in Ops, Call(o) PROVE Drops
    BY <2>1, <2>2 DEF Call, LedgerMayCommit
  <2>3. ASSUME NEW o \in Ops, ApplyOperation(o) PROVE Drops
    BY <2>1, <2>3 DEF ApplyOperation, LedgerMayCommit, ledger
  <2>4. CASE EndConsume
    BY <2>1, <2>4 DEF EndConsume
  <2>5. ASSUME NEW changed \in Changes, SyncRollback(changed) \/ SyncRollbackErr(changed),
               NEW o \in valid \ valid'
        PROVE  Lost(o)
    <3>1. o \in Dependents(Losing(changed)) /\ Reads(changed)
      BY <2>5 DEF SyncRollback, SyncRollbackErr, PartOf
    <3>2. PICK a \in Ancestors[o] : a \in Losing(changed)
      BY <3>1 DEF Dependents
    <3>3. ~Dead(mine, a) /\ Dead(Updated(changed), a)
      BY <3>1, <3>2, AffectedStatus DEF Losing, Base
    <3>4. Dead(mine, a)' <=> Dead(Updated(changed), a)
      BY <2>5 DEF SyncRollback, SyncRollbackErr, Dead, links
    <3>5. QED
      BY <3>2, <3>3, <3>4
  <2>6. ASSUME NEW changed \in Changes, SyncRollback(changed) \/ SyncRollbackErr(changed)
        PROVE  Drops
    <3>1. validDisk' \in {validDisk, valid'}
      BY <2>6 DEF SyncRollback, SyncRollbackErr, LedgerMayCommit
    <3>2. QED
      BY <2>5, <2>6, <3>1
  <2>7. CASE SyncForward \/ SyncForwardErr
    BY <2>1, <2>7 DEF SyncForward, SyncForwardErr, Reapply, LedgerMayCommit
  <2>8. CASE Crash
    BY <2>8 DEF Crash
  <2>9. ASSUME UNCHANGED <<valid, validDisk>> PROVE Drops
    BY <2>1, <2>9
  <2>10. QED
    BY <2>2, <2>3, <2>4, <2>6, <2>7, <2>8, <2>9
       DEF Next, CallSeals, Include, IndexPush, StandPush, MergeAnchor, Register, BeginConsume,
           ApplySeals, ApplyWitness, NoWitness, FailConsume, SyncCommitPile, ledger, vars
<1>2. QED
  BY <1>1, BaseInvariant, PTL DEF Spec, OnlyLostWitnessDrops

-----------------------------------------------------------------------------
(***************************************************************************)
(* The genesis has no witness that could be archived, so it is never       *)
(* rolled back; and a consume that is under way has applied all it read.   *)
(***************************************************************************)
GenesisStays == GenesisOp \in valid \intersect validDisk /\ index[GenesisOp] = {}

JobApplied ==
    /\ job.at \in {"consume"} \union BlockSteps \union WitnessSteps => job.ops \subseteq valid
    /\ job.at \in BlockSteps => job.op \in valid
    /\ job.at \in WitnessSteps /\ job.ops # {} => job.op \in valid

\* No step rolls back the genesis or what a consume has read.
LEMMA ConsumeInvariant == Spec => [](GenesisStays /\ JobApplied)
<1>1. Init => GenesisStays /\ JobApplied
  BY ContractAssumption DEF Init, Idle, Job, BlockSteps, WitnessSteps, GenesisStays, JobApplied
<1>2. Base /\ GenesisStays /\ JobApplied /\ [Next]_vars => GenesisStays' /\ JobApplied'
  <2> SUFFICES ASSUME Base, GenesisStays, JobApplied, [Next]_vars
               PROVE  GenesisStays' /\ JobApplied'
    OBVIOUS
  <2>1. ASSUME valid \subseteq valid', validDisk' \in {validDisk, valid, valid'}, index' = index
        PROVE  GenesisStays'
    BY <2>1 DEF GenesisStays
  <2>2. ASSUME job'.at \notin {"consume"} \union BlockSteps \union WitnessSteps
        PROVE  JobApplied'
    BY <2>2 DEF JobApplied
  <2>3. ASSUME NEW o \in Ops, Call(o) PROVE GenesisStays' /\ JobApplied'
    BY <2>1, <2>2, <2>3 DEF Call, LedgerMayCommit, pile, Job, BlockSteps, WitnessSteps
  <2>4. CASE CallSeals
    BY <2>1, <2>2, <2>4, IdleAtHand DEF CallSeals, ledger, links, BlockSteps, WitnessSteps
  <2>5. ASSUME NEW o \in Ops, NEW w \in Wids, NEW evaluated,
               IndexPush(o, w, evaluated), evaluated # {} => evaluated \union {o} \subseteq valid
        PROVE  GenesisStays' /\ JobApplied'
    <3>1. o # GenesisOp
      BY <2>5, ContractAssumption DEF IndexPush
    <3>2. QED
      BY <2>5, <3>1, ContractAssumption
         DEF IndexPush, ledger, Job, BlockSteps, WitnessSteps, GenesisStays, JobApplied, Base, TypeOK
  <2>6. ASSUME NEW o \in Ops, NEW w \in Wids, Include(o, w) PROVE GenesisStays' /\ JobApplied'
    BY <2>5, <2>6 DEF Include
  <2>7. ASSUME NEW w \in Wids, ApplyWitness(w) PROVE GenesisStays' /\ JobApplied'
    <3>1. job.op \in Ops /\ job.ops \union {job.op} \subseteq valid
      BY <2>7 DEF ApplyWitness, JobApplied, BlockSteps, Base, TypeOK
    <3>2. QED
      BY <2>5, <2>7, <3>1 DEF ApplyWitness
  <2>8. CASE StandPush \/ MergeAnchor
    <3>1. /\ UNCHANGED <<ledger, index>> /\ job'.ops = job.ops /\ job'.op = job.op
          /\ job.at \in WitnessSteps /\ job'.at \in WitnessSteps
      BY <2>8 DEF StandPush, MergeAnchor, WitnessSteps, Base, TypeOK
    <3>2. QED
      BY <2>1, <3>1 DEF ledger, JobApplied, BlockSteps, WitnessSteps
  <2>9. CASE Register \/ NoWitness
    <3>1. /\ UNCHANGED <<ledger, index>> /\ Return /\ job.at \in {"witness", "register"}
      BY <2>9 DEF Register, NoWitness, links, pile
    <3>2. job.ops # {} => job.ops \union {job.op} \subseteq valid
      BY <3>1 DEF JobApplied, BlockSteps, WitnessSteps
    <3>3. JobApplied'
      BY <3>1, <3>2 DEF Return, Idle, Job, JobApplied, ledger, BlockSteps, WitnessSteps
    <3>4. QED
      BY <2>1, <3>1, <3>3 DEF ledger
  <2>10. CASE BeginConsume
    BY <2>1, <2>10 DEF BeginConsume, ledger, pile, Job, GenesisStays, JobApplied, BlockSteps,
                       WitnessSteps
  <2>11. ASSUME NEW o \in Ops, ApplyOperation(o) PROVE GenesisStays' /\ JobApplied'
    <3>1. valid' = valid \union {o} /\ validDisk' \in {validDisk, valid'}
      BY <2>11 DEF ApplyOperation, ledger, LedgerMayCommit
    <3>2. /\ job.at = "consume" /\ job' = Job("seals", job.ops, o, NoWid) /\ index' = index
      BY <2>11 DEF ApplyOperation, Block, pile
    <3>3. JobApplied'
      BY <3>1, <3>2 DEF JobApplied, Job, BlockSteps, WitnessSteps
    <3>4. QED
      BY <2>1, <3>1, <3>2, <3>3
  <2>12. CASE ApplySeals
    <3>1. /\ UNCHANGED <<ledger, index>> /\ job'.ops = job.ops /\ job'.op = job.op
          /\ job.at \in BlockSteps /\ job'.at \in BlockSteps
      BY <2>12 DEF ApplySeals, links, BlockSteps, Base, TypeOK
    <3>2. QED
      BY <2>1, <3>1 DEF ledger, JobApplied, BlockSteps, WitnessSteps
  <2>13. CASE EndConsume \/ FailConsume
    BY <2>1, <2>2, <2>13, IdleAtHand
       DEF EndConsume, FailConsume, ledger, links, pile, BlockSteps, WitnessSteps
  <2>14. ASSUME NEW changed \in Changes, SyncRollback(changed) \/ SyncRollbackErr(changed)
         PROVE  GenesisStays' /\ JobApplied'
    <3>1. Reads(changed) /\ index' = index /\ validDisk' \in {validDisk, valid'}
      BY <2>14 DEF SyncRollback, SyncRollbackErr, links, LedgerMayCommit
    <3>2. valid \ Dependents(Losing(changed)) \subseteq valid'
      BY <2>14 DEF SyncRollback, SyncRollbackErr, PartOf
    <3>3. GenesisOp \notin Losing(changed)
      BY <3>1, AffectedStatus DEF Losing, GenesisStays, Dead, Base
    <3>4. GenesisOp \in valid'
      BY <3>2, <3>3, ContractAssumption DEF Dependents, GenesisStays
    <3>5. job'.at \in {"idle", "commit"}
      BY <2>14, IdleAtHand DEF SyncRollback, SyncRollbackErr, Job
    <3>6. QED
      BY <2>2, <3>1, <3>4, <3>5 DEF GenesisStays, BlockSteps, WitnessSteps
  <2>15. CASE SyncCommitPile
    <3>1. job'.at = "forward" /\ UNCHANGED <<ledger, index>>
      BY <2>15 DEF SyncCommitPile, links, Base, TypeOK
    <3>2. QED
      BY <2>1, <2>2, <3>1 DEF ledger, BlockSteps, WitnessSteps
  <2>16. CASE SyncForward \/ SyncForwardErr
    <3>1. /\ valid \subseteq valid' /\ validDisk' \in {validDisk, valid'}
          /\ index' = index /\ job' = Idle
      BY <2>16 DEF SyncForward, SyncForwardErr, Reapply, LedgerMayCommit, links
    <3>2. QED
      BY <2>1, <2>2, <3>1, IdleAtHand DEF BlockSteps, WitnessSteps
  <2>17. CASE Crash
    BY <2>2, <2>17, IdleAtHand DEF Crash, links, GenesisStays, BlockSteps, WitnessSteps
  <2>18. CASE UNCHANGED vars
    BY <2>18 DEF vars, GenesisStays, JobApplied
  <2>19. QED
    BY <2>3, <2>4, <2>6, <2>7, <2>8, <2>9, <2>10, <2>11, <2>12, <2>13, <2>14, <2>15, <2>16, <2>17,
       <2>18 DEF Next
<1>3. QED
  BY <1>1, <1>2, BaseInvariant, PTL DEF Spec

(***************************************************************************)
(* A consume that ends well leaves every operation it read applied, in     *)
(* what a restart finds.                                                   *)
(***************************************************************************)
THEOREM ConsumeApplies == Spec => ConsumedApplied
<1> DEFINE Applied == EndConsume => job.ops \subseteq validDisk'
<1>1. JobApplied /\ [Next]_vars => [Applied]_vars
  BY DEF JobApplied, EndConsume
<1>2. QED
  BY <1>1, ConsumeInvariant, PTL DEF Spec, ConsumedApplied

-----------------------------------------------------------------------------
(***************************************************************************)
(* The ledger follows the witnesses.                                       *)
(*                                                                         *)
(* StateWitnessed and DiskWitnessed are not inductive.  A crash in the     *)
(* middle of a sync brings back the old statuses, and a consume commits an *)
(* old ledger under new statuses: an operation held in either ledger must  *)
(* have a valid witness in both versions of the statuses (Synced).  And    *)
(* SyncForward relies on the operations it holds being valid under the     *)
(* statuses already set (JobLive).                                         *)
(***************************************************************************)
Synced ==
    \A o \in (valid \union validDisk) \ Unprotected : ~Dead(mine, o) /\ ~Dead(mineDisk, o)

JobLive == job.at \in {"commit", "forward"} => \A o \in job.ops : ~Dead(mine, o)

\* A new contract has a genesis without a witness.
LEMMA InitSynced == Init => Synced /\ JobLive
  BY ContractAssumption DEF Init, Synced, JobLive, Dead, Idle, Job

\* What is incomplete depends on which witnesses have a status only.
LEMMA InterruptedSame ==
    ASSUME TypeOK, UNCHANGED links,
           \A w \in Wids : mine[w] = NoStatus <=> mine'[w] = NoStatus
    PROVE  Interrupted' = Interrupted
<1>1. \A o \in Ops : \A w \in index[o] : Complete(o, w)' <=> Complete(o, w)
  BY DEF links, Complete, TypeOK
<1>2. QED
  BY <1>1 DEF Interrupted, links

\* A step that leaves the pile alone, and applies the operations R at most.
LEMMA LedgerStep ==
    ASSUME Base, Synced, UNCHANGED <<links, mine, mineDisk>>, exposed \subseteq exposed', NEW R,
           valid' \union validDisk' \subseteq valid \union validDisk \union R,
           AtHand \subseteq AtHand' \union R,
           \A p \in R : p \in Unprotected' \/ (~Dead(mine, p) /\ ~Dead(mineDisk, p))
    PROVE  Synced'
<1>1. Interrupted' = Interrupted
  BY InterruptedSame DEF Base
<1>2. ASSUME NEW o \in (valid' \union validDisk') \ Unprotected'
      PROVE  ~Dead(mine, o) /\ ~Dead(mineDisk, o)
  <2>1. CASE o \in R
    BY <1>2, <2>1
  <2>2. CASE o \notin R
    BY <1>1, <1>2, <2>2 DEF Synced, Unprotected
  <2>3. QED
    BY <2>1, <2>2
<1>3. \A o : /\ Dead(mine, o)' <=> Dead(mine, o)
             /\ Dead(mineDisk, o)' <=> Dead(mineDisk, o)
  BY DEF Dead, links
<1>4. QED
  BY <1>2, <1>3 DEF Synced

\* A write of an inclusion concerns no other operation.
LEMMA IndexPushSynced ==
    ASSUME Base, Synced, NEW o \in Ops, NEW w \in Wids, NEW evaluated,
           IndexPush(o, w, evaluated), AtHand \subseteq {o}
    PROVE  Synced'
<1>1. AtHand' = {o}
  BY DEF IndexPush, AtHand, Job, WitnessSteps
<1>2. \A p \in Ops \ {o} : index'[p] = index[p]
  BY DEF IndexPush, Base, TypeOK
<1>3. \A p \in Ops, x \in Wids : Complete(p, x)' <=> Complete(p, x)
  BY DEF IndexPush, Complete
<1>4. Unprotected \subseteq Unprotected' \union {o} /\ o \in Unprotected'
  BY <1>1, <1>2, <1>3 DEF Unprotected, Interrupted, IndexPush, Base, TypeOK
<1>5. ASSUME NEW p \in (valid' \union validDisk') \ Unprotected'
      PROVE  ~Dead(mine, p)' /\ ~Dead(mineDisk, p)'
  <2>1. p \in Ops \ {o} /\ p \in (valid \union validDisk) \ Unprotected
    BY <1>4, <1>5 DEF IndexPush, ledger, Base, TypeOK
  <2>2. QED
    BY <1>2, <2>1 DEF Synced, Dead, IndexPush
<1>6. QED
  BY <1>5 DEF Synced

\* The links and the anchor that an inclusion writes.
LEMMA LinkSynced ==
    ASSUME Base, Synced, StandPush \/ MergeAnchor
    PROVE  Synced'
<1>1. /\ UNCHANGED <<ledger, index, mine, mineDisk, exposed>>
      /\ job.op \in Ops /\ job.wid \in Wids /\ AtHand' = AtHand /\ AtHand = {job.op}
  BY DEF StandPush, MergeAnchor, Base, TypeOK, AtHand, WitnessSteps
<1>2. \A p \in Ops \ {job.op} : \A w \in Wids : Complete(p, w)' <=> Complete(p, w)
  BY <1>1 DEF StandPush, MergeAnchor, Complete, Base, TypeOK
<1>3. Unprotected \subseteq Unprotected'
  BY <1>1, <1>2 DEF Unprotected, Interrupted, Base, TypeOK
<1>4. \A p : /\ Dead(mine, p)' <=> Dead(mine, p)
             /\ Dead(mineDisk, p)' <=> Dead(mineDisk, p)
  BY <1>1 DEF Dead
<1>5. QED
  BY <1>1, <1>3, <1>4 DEF Synced, ledger

\* A witness that is registered has a status of its own or is tentative.
LEMMA RegisterSynced ==
    ASSUME Base, Synced, Register
    PROVE  Synced'
<1>1. /\ UNCHANGED <<ledger, links>> /\ mineDisk' = mine' /\ job.op \in Ops /\ job.wid \in Wids
      /\ AtHand = {job.op} /\ exposed' = exposed \union {p \in {job.op} : Dead(mine, p)}
  BY DEF Register, Base, TypeOK, AtHand, WitnessSteps, Expose
<1>2. \A w \in Wids : mine'[w] = mine[w] \/ (mine[w] = NoStatus /\ mine'[w] = Tentative)
  BY DEF Register, Base, TypeOK
<1>3. Tentative # Archived /\ Tentative # NoStatus
  BY NoStatusIsNone DEF Tentative, Archived
<1>4. ASSUME NEW p \in (valid' \union validDisk') \ Unprotected', Dead(mine, p)'
      PROVE  FALSE
  <2>1. p \in Ops /\ index'[p] = index[p] /\ index[p] \subseteq Wids
    BY <1>1, <1>4 DEF Base, TypeOK, ledger, links
  <2>2. \A w \in index[p] : mine[w] = Archived /\ mine'[w] = mine[w]
    BY <1>2, <1>3, <1>4, <2>1 DEF Dead
  <2>3. Dead(mine, p)
    BY <1>4, <2>1, <2>2 DEF Dead
  <2>4. p # job.op
    BY <1>1, <1>4, <2>3 DEF Unprotected
  <2>5. \A w \in index[p] : Complete(p, w)' <=> Complete(p, w)
    BY <1>1, <2>2 DEF Complete, links
  <2>6. p \notin Interrupted
    BY <1>4, <2>1, <2>5 DEF Unprotected, Interrupted
  <2>7. p \in (valid \union validDisk) \ Unprotected
    BY <1>1, <1>4, <2>4, <2>6 DEF Unprotected, ledger
  <2>8. QED
    BY <2>3, <2>7 DEF Synced
<1>5. \A p : Dead(mineDisk, p)' <=> Dead(mine, p)'
  BY <1>1 DEF Dead
<1>6. QED
  BY <1>4, <1>5 DEF Synced

(***************************************************************************)
(* What sync does with the operations it finds: one that was protected and *)
(* dies is among the affected ones, as all its links are complete, and is  *)
(* rolled back.                                                            *)
(***************************************************************************)
LEMMA RollbackSynced ==
    ASSUME Base, Synced, NEW changed \in Changes, job = Idle, Reads(changed),
           mine' = Updated(changed), UNCHANGED <<links, mineDisk>>,
           valid' \union validDisk' \subseteq valid \union validDisk,
           exposed \subseteq exposed',
           Losing(changed) \subseteq exposed'
               \/ (valid' \union validDisk') \intersect Losing(changed) = {}
    PROVE  Synced'
<1>1. Interrupted' = Interrupted
  BY UpdatedType, InterruptedSame DEF Base
<1>2. AtHand = {}
  BY IdleAtHand DEF AtHand, BlockSteps, WitnessSteps
<1>3. ASSUME NEW o \in (valid' \union validDisk') \ Unprotected'
      PROVE  ~Dead(mine, o)' /\ ~Dead(mineDisk, o)'
  <2>1. o \in (valid \union validDisk) \ Unprotected /\ o \in Ops /\ index[o] \subseteq Wids
    BY <1>1, <1>2, <1>3 DEF Unprotected, Base, TypeOK
  <2>2. ~Dead(mine, o) /\ ~Dead(mineDisk, o)
    BY <2>1 DEF Synced
  <2>3. ASSUME Dead(Updated(changed), o)
        PROVE  FALSE
    <3>1. PICK w \in index[o] : Updated(changed)[w] # mine[w]
      BY <2>2, <2>3 DEF Dead
    <3>2. w \in AffectedWids(changed) /\ o \in stand[w]
      BY <2>1, <3>1, UpdatedType DEF Unprotected, Interrupted, Complete, Base
    <3>3. o \in AffectedOps(changed)
      BY <3>2 DEF AffectedOps
    <3>4. o \in Losing(changed)
      BY <2>2, <2>3, <3>3, AffectedStatus DEF Base
    <3>5. QED
      BY <1>3, <3>4 DEF Unprotected
  <2>4. QED
    BY <2>2, <2>3 DEF Dead, links
<1>4. QED
  BY <1>3 DEF Synced

\* Every handler keeps ledger and statuses in step.
LEMMA NextSynced ==
    ASSUME Base, Synced, JobLive, [Next]_vars
    PROVE  Synced' /\ JobLive'
<1>1. ASSUME job'.at \notin {"commit", "forward"} PROVE JobLive'
  BY <1>1 DEF JobLive
<1>2. ASSUME NEW o \in Ops, Call(o) PROVE Synced' /\ JobLive'
  <2>1. /\ UNCHANGED <<links, mine, mineDisk>> /\ exposed \subseteq exposed'
        /\ valid' \union validDisk' \subseteq valid \union validDisk \union {o} /\ AtHand = {}
    BY <1>2, IdleAtHand DEF Call, pile, links, Expose, LedgerMayCommit, AtHand, BlockSteps,
                            WitnessSteps
  <2>2. o \in Unprotected' \/ (~Dead(mine, o) /\ ~Dead(mineDisk, o))
    BY <1>2 DEF Call, Expose, DeadSomewhere, Unprotected
  <2>3. Synced'
    <3>1. \A p \in {o} : p \in Unprotected' \/ (~Dead(mine, p) /\ ~Dead(mineDisk, p))
      BY <2>2
    <3>2. QED
      BY <2>1, <3>1, LedgerStep
  <2>4. QED
    BY <1>1, <1>2, <2>3 DEF Call, Job
<1>3. ASSUME NEW o \in Ops, ApplyOperation(o) PROVE Synced' /\ JobLive'
  <2>1. /\ UNCHANGED <<links, mine, mineDisk, exposed>>
        /\ valid' \union validDisk' \subseteq valid \union validDisk \union {o}
    BY <1>3 DEF ApplyOperation, Block, pile, links, ledger, LedgerMayCommit
  <2>2. job' = Job("seals", job.ops, o, NoWid) /\ AtHand = {} /\ AtHand' = {o}
    BY <1>3 DEF ApplyOperation, Block, AtHand, Job, BlockSteps, WitnessSteps
  <2>3. Synced'
    BY <2>1, <2>2, LedgerStep DEF Unprotected
  <2>4. QED
    BY <1>1, <2>2, <2>3 DEF Job
<1>4. CASE NoWitness
  <2>1. /\ UNCHANGED <<links, mine, mineDisk>> /\ exposed \subseteq exposed'
        /\ UNCHANGED ledger /\ AtHand = {job.op}
    BY <1>4 DEF NoWitness, pile, links, Expose, AtHand, BlockSteps
  <2>2. job.op \in Unprotected' \/ (~Dead(mine, job.op) /\ ~Dead(mineDisk, job.op))
    BY <1>4 DEF NoWitness, Expose, DeadSomewhere, Unprotected
  <2>3. Synced'
    BY <2>1, <2>2, LedgerStep DEF ledger
  <2>4. QED
    BY <1>1, <1>4, <2>3, ReturnType DEF NoWitness, Base
<1>5. CASE CallSeals \/ BeginConsume \/ ApplySeals \/ FailConsume
  <2>1. UNCHANGED <<ledger, links, mine, mineDisk, exposed>> /\ job'.at \notin {"commit", "forward"}
    BY <1>5, IdleAtHand
       DEF CallSeals, BeginConsume, ApplySeals, FailConsume, pile, links, Job, Base, TypeOK
  <2>2. AtHand \subseteq AtHand'
    BY <1>5, IdleAtHand
       DEF CallSeals, BeginConsume, ApplySeals, FailConsume, AtHand, BlockSteps, WitnessSteps,
           Base, TypeOK
  <2>3. Synced'
    BY <2>1, <2>2, LedgerStep DEF ledger
  <2>4. QED
    BY <1>1, <2>1, <2>3
<1>6. ASSUME NEW o \in Ops, NEW w \in Wids, Include(o, w) PROVE Synced' /\ JobLive'
  <2>1. AtHand \subseteq {o} /\ job'.at = "stand"
    BY <1>6, IdleAtHand DEF Include, IndexPush, AtHand, BlockSteps, WitnessSteps, Job
  <2>2. QED
    BY <1>1, <1>6, <2>1, IndexPushSynced DEF Include
<1>7. ASSUME NEW w \in Wids, ApplyWitness(w) PROVE Synced' /\ JobLive'
  <2>1. job.op \in Ops /\ AtHand \subseteq {job.op} /\ job'.at = "stand"
    BY <1>7 DEF ApplyWitness, IndexPush, AtHand, Job, Base, TypeOK
  <2>2. QED
    BY <1>1, <1>7, <2>1, IndexPushSynced DEF ApplyWitness
<1>8. CASE StandPush \/ MergeAnchor
  <2>1. job'.at \in {"anchor", "register"}
    BY <1>8 DEF StandPush, MergeAnchor, Base, TypeOK
  <2>2. QED
    BY <1>1, <1>8, <2>1, LinkSynced
<1>9. CASE Register
  BY <1>1, <1>9, RegisterSynced, ReturnType DEF Register, Base
<1>10. CASE EndConsume
  <2>1. Interrupted' = Interrupted /\ AtHand = {}
    BY <1>10, InterruptedSame DEF EndConsume, AtHand, BlockSteps, WitnessSteps, Base
  <2>2. Synced'
    BY <1>10, <2>1 DEF EndConsume, Synced, Unprotected, Dead, links
  <2>3. QED
    BY <1>1, <1>10, <2>2, IdleAtHand DEF EndConsume
<1>11. ASSUME NEW changed \in Changes, SyncRollback(changed) PROVE Synced' /\ JobLive'
  <2>1. valid' \subseteq valid /\ validDisk' = valid' /\ Reads(changed)
    BY <1>11 DEF SyncRollback
  <2>2. valid' \intersect Losing(changed) = {}
    BY <1>11, <2>1, ContractAssumption DEF SyncRollback, Dependents, Base, TypeOK, StashHolds
  <2>3. Synced'
    BY <1>11, <2>1, <2>2, RollbackSynced DEF SyncRollback
  <2>4. ASSUME NEW o \in Gaining(changed) PROVE ~Dead(mine, o)'
    <3>1. ~Dead(Updated(changed), o)
      BY <2>1, <2>4, AffectedStatus DEF Gaining, Base
    <3>2. QED
      BY <1>11, <3>1 DEF SyncRollback, Dead, links
  <2>5. job'.ops = Gaining(changed)
    BY <1>11 DEF SyncRollback, Job
  <2>6. QED
    BY <2>3, <2>4, <2>5 DEF JobLive
<1>12. ASSUME NEW changed \in Changes, SyncRollbackErr(changed) PROVE Synced' /\ JobLive'
  <2>1. /\ valid' \subseteq valid /\ validDisk' \in {validDisk, valid'}
        /\ Losing(changed) \subseteq exposed' /\ exposed \subseteq exposed'
    BY <1>12 DEF SyncRollbackErr, PartOf, LedgerMayCommit, Expose
  <2>2. Synced'
    BY <1>12, <2>1, RollbackSynced DEF SyncRollbackErr
  <2>3. QED
    BY <1>1, <1>12, <2>2, IdleAtHand DEF SyncRollbackErr
<1>13. CASE SyncCommitPile
  <2>1. job'.at = "forward" /\ job'.ops = job.ops /\ AtHand = {} /\ AtHand' = {}
    BY <1>13 DEF SyncCommitPile, AtHand, BlockSteps, WitnessSteps, Base, TypeOK
  <2>2. Interrupted' = Interrupted
    BY <1>13, InterruptedSame DEF SyncCommitPile, Base
  <2>3. QED
    BY <1>13, <2>1, <2>2
       DEF SyncCommitPile, ledger, links, Synced, JobLive, Unprotected, Dead
<1>14. CASE SyncForward \/ SyncForwardErr
  <2>1. PICK again \in SUBSET Reach(job.ops) : Reapply(again)
    BY <1>14 DEF SyncForward, SyncForwardErr
  <2>2. /\ job.at = "forward" /\ mineDisk = mine /\ UNCHANGED <<links, mine, mineDisk>>
        /\ valid' = valid \union again /\ validDisk' \in {validDisk, valid'}
        /\ exposed' = exposed \union {o \in again \ job.ops : Dead(mine, o)} /\ job' = Idle
    BY <1>14, <2>1 DEF SyncForward, SyncForwardErr, Reapply, Expose, LedgerMayCommit, Base,
                       SyncCommitted
  <2>3. AtHand = {}
    BY <2>2 DEF AtHand, BlockSteps, WitnessSteps
  <2>4. \A o \in again : o \in Unprotected' \/ (~Dead(mine, o) /\ ~Dead(mineDisk, o))
    BY <2>2 DEF Unprotected, JobLive
  <2>5. Synced'
    BY <2>2, <2>3, <2>4, LedgerStep
  <2>6. QED
    BY <1>1, <2>2, <2>5, IdleAtHand
<1>15. CASE Crash
  <2>1. Interrupted' = Interrupted
    BY <1>15, InterruptedSame DEF Crash, Base, TypeOK
  <2>2. ASSUME NEW o \in validDisk \ Unprotected' PROVE ~Dead(mineDisk, o)
    BY <1>15, <2>1, <2>2 DEF Crash, Expose, Unprotected, Synced
  <2>3. Synced'
    BY <1>15, <2>2 DEF Crash, Synced, Dead, links
  <2>4. QED
    BY <1>1, <1>15, <2>3, IdleAtHand DEF Crash
<1>16. CASE UNCHANGED vars
  BY <1>16 DEF vars, Synced, JobLive, Unprotected, Interrupted, Complete, AtHand, Dead
<1>17. QED
  BY <1>2, <1>3, <1>4, <1>5, <1>6, <1>7, <1>8, <1>9, <1>10, <1>11, <1>12, <1>13, <1>14, <1>15,
     <1>16 DEF Next

\* Ledger and statuses are in step in every state.
THEOREM SyncedInvariant == Spec => []Synced
<1>1. Base /\ Synced /\ JobLive /\ [Next]_vars => Synced' /\ JobLive'
  BY NextSynced
<1>2. QED
  BY <1>1, InitSynced, BaseInvariant, PTL DEF Spec

(***************************************************************************)
(* No operation stays applied to the state with all its witnesses          *)
(* archived, but for those listed at Expose and for interrupted            *)
(* inclusions.                                                             *)
(***************************************************************************)
THEOREM LedgerFollowsWitnesses == Spec => []StateWitnessed
<1>1. Synced => StateWitnessed
  BY DEF Synced, StateWitnessed
<1>2. QED
  BY <1>1, SyncedInvariant, PTL

(***************************************************************************)
(* The process may die anywhere, also between two writes of a handler:     *)
(* what it finds when it starts again has no operation whose witnesses are *)
(* all archived, with the same exceptions.                                 *)
(***************************************************************************)
THEOREM RestartFollowsWitnesses == Spec => []DiskWitnessed
<1>1. Synced => DiskWitnessed
  BY DEF Synced, DiskWitnessed
<1>2. QED
  BY <1>1, SyncedInvariant, PTL

\* The witnesses of an applied operation that sync answers for.
LEMMA HistoryWitnessed ==
    ASSUME Base, StateWitnessed, HistoriesConsistent, NEW o \in valid,
           NEW a \in Ancestors[o] \ Unprotected
    PROVE  /\ a \in Ops
           /\ \A w \in index[a] : Complete(a, w) /\ mine[w] \in DistinctStatus
           /\ IsValid(OpStatus(a))
           /\ OpStatus(a) \in DistinctStatus
           /\ index[a] # {} => OpStatus(a) \in {mine[w] : w \in index[a]}
<1>1. a \in valid /\ a \in Ops
  BY DEF HistoriesConsistent, Consistent, Base, TypeOK
<1>2. \A w \in index[a] : Complete(a, w) /\ mine[w] \in WitnessStatuses
  BY <1>1 DEF Unprotected, Interrupted, Complete, Base, TypeOK
<1>3. ASSUME index[a] # {}
      PROVE  OpStatus(a) \in {mine[w] : w \in index[a]}
  <2> DEFINE S == {mine[w] : w \in index[a]}
  <2>1. S \in SUBSET Status /\ S # {}
    BY <1>2, <1>3, DistinctIsStatus DEF WitnessStatuses
  <2>2. BestOf(S) \in S
    BY <2>1, BestOfExists
  <2>3. QED
    BY <2>1, <2>2 DEF OpStatus, StatusUnder, StatusOf
<1>4. OpStatus(a) \in DistinctStatus
  <2>1. CASE index[a] = {}
    BY <2>1 DEF OpStatus, StatusUnder, StatusOf, DistinctStatus
  <2>2. CASE index[a] # {}
    BY <1>2, <1>3, <2>2 DEF WitnessStatuses
  <2>3. QED
    BY <2>1, <2>2
<1>5. IsValid(OpStatus(a))
  <2>1. ~Dead(mine, a)
    BY <1>1 DEF StateWitnessed
  <2>2. QED
    BY <1>1, <1>2, <2>1, ValidUnlessDead DEF OpStatus
<1>6. QED
  BY <1>1, <1>2, <1>3, <1>4, <1>5 DEF WitnessStatuses

(***************************************************************************)
(* Every operation in the history of the state can be put in a consignment *)
(* with a witness that is not archived and whose anchor proves it          *)
(* (retrieve).                                                             *)
(***************************************************************************)
THEOREM HistoriesConsignable == Spec => []HistoryConsignable
<1>1. Base /\ StateWitnessed /\ HistoriesConsistent => HistoryConsignable
  <2> SUFFICES ASSUME Base, StateWitnessed, HistoriesConsistent, NEW o \in valid,
                      NEW a \in Ancestors[o] \ Unprotected, index[a] # {}
               PROVE  Retrieve(a) # {} /\ \A w \in Retrieve(a) : a \in hoard[w]
    BY DEF HistoryConsignable
  <2>1. PICK w \in index[a] : mine[w] = OpStatus(a)
    BY HistoryWitnessed
  <2>2. IsValid(mine[w])
    BY <2>1, HistoryWitnessed
  <2>3. Retrieve(a) # {}
    BY <2>1, <2>2 DEF Retrieve
  <2>4. \A x \in index[a] : a \in hoard[x]
    BY HistoryWitnessed DEF Complete
  <2>5. QED
    BY <2>3, <2>4 DEF Retrieve
<1>2. QED
  BY <1>1, BaseInvariant, LedgerFollowsWitnesses, LedgerConsistent, PTL

(***************************************************************************)
(* Contract::state never shows a cell as archived only: the worst status   *)
(* over a history that sync answers for is a valid one.                    *)
(***************************************************************************)
THEOREM StateShownValid == Spec => []ReportedStateValid
<1>1. Base /\ StateWitnessed /\ HistoriesConsistent => ReportedStateValid
  <2> SUFFICES ASSUME Base, StateWitnessed, HistoriesConsistent, NEW c \in Seen,
                      Ancestors[Definer[c]] \intersect Unprotected = {}
               PROVE  Listed(c) = {} \/ \E s \in Listed(c) : IsValid(s)
    BY DEF ReportedStateValid
  <2> DEFINE o == Definer[c]
  <2>1. o \in valid /\ o \in Ops /\ o \in Ancestors[o] \ Unprotected
    BY ContractAssumption DEF Seen, Unspent, Base, TypeOK
  <2>2. ASSUME NEW or \in DistinctStatus, IsValid(or)
        PROVE  IsValid(HistoryStatus(o, or))
    <3> DEFINE S == {Genesis, or} \union {OpStatus(a) : a \in Ancestors[o]}
    <3>1. S \in SUBSET DistinctStatus /\ S # {}
      BY <2>1, <2>2, HistoryWitnessed DEF DistinctStatus
    <3>2. \A s \in S : IsValid(s)
      BY <2>1, <2>2, HistoryWitnessed DEF IsValid, Genesis
    <3>3. IsValid(WorstOf(S))
      BY <3>1, <3>2, WorstIsValidIffAllAre
    <3>4. QED
      BY <3>3 DEF HistoryStatus
  <2>3. CASE c \in SrcSeals
    <3>1. Listed(c) = {HistoryStatus(o, OpStatus(o))}
      BY <2>3 DEF Listed
    <3>2. IsValid(HistoryStatus(o, OpStatus(o)))
      BY <2>1, <2>2, HistoryWitnessed
    <3>3. QED
      BY <3>1, <3>2
  <2>4. CASE c \notin SrcSeals
    <3>1. Listed(c) = {HistoryStatus(o, mine[w]) : w \in index[o]}
      BY <2>4 DEF Listed
    <3>2. ASSUME index[o] # {} PROVE \E s \in Listed(c) : IsValid(s)
      <4>1. PICK w \in index[o] : IsValid(mine[w]) /\ mine[w] \in DistinctStatus
        BY <2>1, <3>2, HistoryWitnessed
      <4>2. IsValid(HistoryStatus(o, mine[w]))
        BY <2>2, <4>1
      <4>3. QED
        BY <3>1, <4>2
    <3>3. QED
      BY <3>1, <3>2
  <2>5. QED
    BY <2>3, <2>4
<1>2. QED
  BY <1>1, BaseInvariant, LedgerFollowsWitnesses, LedgerConsistent, PTL

-----------------------------------------------------------------------------
(***************************************************************************)
(* The contract implements Pile.                                           *)
(***************************************************************************)

\* Both modules speak of the same statuses.
LEMMA SameStatuses ==
    /\ Promise!NoStatus = NoStatus
    /\ Promise!Tentative = Tentative
    /\ (Promise!DistinctStatus \ {Promise!Genesis}) = WitnessStatuses
  BY DEF Promise!NoStatus, Promise!DistinctStatus, Promise!Genesis, Promise!Tentative,
         Promise!Offchain, Promise!Archived, Promise!Mined, Promise!OFFCHAIN, NoStatus,
         WitnessStatuses, DistinctStatus, Genesis, Tentative, Offchain, Archived, Mined, OFFCHAIN

\* Every state keeps the statuses of what is recorded in it.
LEMMA RecordedStatuses ==
    ASSUME Base'
    PROVE  Promise!StatusesOf(Recorded')
<1>1. mineDisk' \in [Wids -> WitnessStatuses \union {NoStatus}]
  BY DEF Base, TypeOK
<1>2. \A w \in Wids : mineDisk'[w] # NoStatus <=> \E o \in Ops : <<o, w>> \in Recorded'
  BY DEF Recorded, Base, TypeOK
<1>3. QED
  BY <1>1, <1>2, SameStatuses DEF Promise!StatusesOf

(***************************************************************************)
(* The contract implements the promise of its pile: include and consume    *)
(* record an inclusion at one of their writes, only a commit of the pile   *)
(* changes a durable status, and nothing recorded is lost.                 *)
(***************************************************************************)
THEOREM ContractImplementsPile == Spec => ImplementsPile
<1>1. Init => Promise!Init
  BY DEF Init, Linked, Recorded, Promise!Init, Promise!NoStatus, NoStatus
<1>2. Base /\ Base' /\ [Next]_vars => [Promise!Next]_(Promise!vars)
  <2> SUFFICES ASSUME Base, Base', [Next]_vars
               PROVE  [Promise!Next]_(Promise!vars)
    OBVIOUS
  <2>1. ASSUME UNCHANGED <<index, hoard, mineDisk>> PROVE [Promise!Next]_(Promise!vars)
    BY <2>1 DEF Linked, Recorded, Promise!vars
  <2>2. ASSUME UNCHANGED links, \A w \in Wids : mineDisk[w] = NoStatus <=> mineDisk'[w] = NoStatus
        PROVE  [Promise!Next]_(Promise!vars)
    <3>1. UNCHANGED <<Linked, Recorded>>
      BY <2>2 DEF Linked, Recorded, links
    <3>2. Promise!CommitStatuses
      BY <3>1, RecordedStatuses DEF Promise!CommitStatuses
    <3>3. QED
      BY <3>2 DEF Promise!Next
  <2>3. ASSUME NEW o \in Ops, NEW w \in Wids, NEW evaluated, IndexPush(o, w, evaluated)
        PROVE  [Promise!Next]_(Promise!vars)
    <3>1. Linked' = Linked \union {<<o, w>>}
      BY <2>3 DEF Linked, IndexPush, Base, TypeOK
    <3>2. UNCHANGED <<Recorded, mineDisk>>
      BY <2>3 DEF Recorded, IndexPush
    <3>3. QED
      BY <3>1, <3>2 DEF Promise!Attempt, Promise!Next
  <2>4. CASE MergeAnchor
    <3> DEFINE o == job.op
               w == job.wid
    <3>1. /\ o \in Ops /\ w \in Wids /\ w \in index[o] /\ UNCHANGED <<index, mineDisk>>
          /\ hoard' = [hoard EXCEPT ![w] = @ \union {o}]
      BY <2>4 DEF MergeAnchor, Base, TypeOK, InclusionAtHand, WitnessSteps
    <3>2. CASE mineDisk[w] = NoStatus
      <4>1. UNCHANGED <<Linked, Recorded, mineDisk>>
        BY <3>1, <3>2 DEF Linked, Recorded, Base, TypeOK
      <4>2. QED
        BY <4>1 DEF Promise!vars
    <3>3. CASE mineDisk[w] # NoStatus
      <4>1. Recorded' = Recorded \union {<<o, w>>} /\ Linked' = Linked /\ <<o, w>> \in Linked
        BY <3>1, <3>3 DEF Linked, Recorded, Base, TypeOK
      <4>2. Promise!Record(o, w)
        BY <3>1, <3>3, <4>1, RecordedStatuses, SameStatuses DEF Promise!Record
      <4>3. QED
        BY <3>1, <4>2 DEF Promise!Next
    <3>4. QED
      BY <3>2, <3>3
  <2>5. CASE Register
    <3> DEFINE o == job.op
               w == job.wid
    <3>1. /\ o \in Ops /\ w \in Wids /\ w \in index[o] /\ o \in hoard[w] /\ UNCHANGED links
          /\ mineDisk' = mine'
          /\ mine[w] = NoStatus => mine'[w] = Tentative
          /\ \A x \in Wids \ {w} : mine'[x] = mine[x]
          /\ mine[w] # NoStatus => mine' = mine
      BY <2>5 DEF Register, Base, TypeOK, InclusionAtHand, WitnessSteps
    <3>2. CASE mine[w] # NoStatus
      BY <2>2, <3>1, <3>2 DEF Base, TypeOK
    <3>3. CASE mine[w] = NoStatus
      <4>1. mineDisk'[w] = Tentative /\ Tentative # NoStatus
        BY <3>1, <3>3, NoStatusIsNone
      <4>2. \A x \in Wids \ {w} : mineDisk'[x] = NoStatus <=> mineDisk[x] = NoStatus
        BY <3>1 DEF Base, TypeOK
      <4>3. Linked' = Linked /\ <<o, w>> \in Linked
        BY <3>1 DEF Linked, links
      <4>4. <<o, w>> \in Recorded'
        BY <3>1, <4>1 DEF Recorded, links
      <4>5. Recorded \subseteq Recorded'
        BY <3>1, <4>1, <4>2 DEF Recorded, links
      <4>6. Recorded' \ Recorded \subseteq {p \in Linked' : p[2] = w}
        <5>1. ASSUME NEW p \in Recorded' \ Recorded PROVE p \in Linked /\ p[2] = w
          BY <3>1, <4>2, <5>1 DEF Recorded, Linked, links, Base, LinksNested
        <5>2. QED
          BY <4>3, <5>1
      <4>7. Promise!Record(o, w)
        BY <4>1, <4>3, <4>4, <4>5, <4>6, RecordedStatuses, SameStatuses DEF Promise!Record
      <4>8. QED
        BY <3>1, <4>7 DEF Promise!Next
    <3>4. QED
      BY <3>2, <3>3
  <2>6. CASE EndConsume \/ SyncCommitPile \/ SyncForward \/ SyncForwardErr
    <3>1. UNCHANGED links /\ mineDisk' \in {mineDisk, mine}
      BY <2>6 DEF EndConsume, SyncCommitPile, SyncForward, SyncForwardErr, Reapply
    <3>2. QED
      BY <2>2, <3>1 DEF Base, TypeOK
  <2>7. ASSUME NEW o \in Ops, NEW w \in Wids, Include(o, w)
        PROVE  [Promise!Next]_(Promise!vars)
    BY <2>3, <2>7 DEF Include
  <2>8. ASSUME NEW w \in Wids, ApplyWitness(w) PROVE [Promise!Next]_(Promise!vars)
    BY <2>3, <2>8 DEF ApplyWitness, Base, TypeOK
  <2>9. QED
    BY <2>1, <2>4, <2>5, <2>6, <2>7, <2>8
       DEF Next, Call, CallSeals, StandPush, BeginConsume, ApplyOperation, Block, ApplySeals,
           NoWitness, FailConsume, SyncRollback, SyncRollbackErr, Crash, links, pile, vars
<1>3. QED
  BY <1>1, <1>2, BaseInvariant, PTL DEF Spec, ImplementsPile, Promise!Spec
=============================================================================
