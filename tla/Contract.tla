------------------------------ MODULE Contract ------------------------------
(***************************************************************************)
(* One RGB contract (src/contract.rs): a ledger, which says which of the   *)
(* known operations are applied to the state, beside a pile, which says    *)
(* which witness transactions carry each operation and how well these are  *)
(* confirmed.  Contract::sync moves operations in and out of the ledger's  *)
(* state so that it follows the witnesses; include, call and consume add   *)
(* to both stores; and the two are made durable at different moments.      *)
(*                                                                         *)
(* The handlers take &mut self, so that no two of them overlap; a handler  *)
(* that makes its effects durable in several steps is several actions, and *)
(* the process may die between any two of them (Crash).  A panic of the    *)
(* code ends the process too; where it panics before it has changed        *)
(* anything, the guard of the action leaves the case out.                  *)
(*                                                                         *)
(* The ledger (crate hypersonic) and the verification of operations (crate *)
(* rgb-core) are outside of the repository: they are modelled by what this *)
(* code relies on, with any outcome it does not rule out.                  *)
(***************************************************************************)
EXTENDS WitnessStatus, Sequences

CONSTANTS
    Ops,          \* operations; their identifiers commit to their inputs
    GenesisOp,
    Cells,        \* cells of owned state
    Definer,      \* the operation a cell is an output of
    Spends,       \* the cells each operation destroys
    Ancestors,    \* the history of each operation, with the operation itself
    Wids,         \* witness transactions
    Carries,      \* <<o, w>>: transaction w commits to operation o
    SrcSeals,     \* cells on an existing output; the others are on an output
                  \* of the witness transaction itself
    CallerSeals,  \* cells whose seal definition the caller of call knows
    Reported,     \* statuses a chain resolver passes to sync
    MaxChanged    \* bound: entries in one call of sync

ASSUME ContractAssumption ==
    /\ GenesisOp \in Ops
    /\ Definer \in [Cells -> Ops]
    /\ Spends \in [Ops -> SUBSET Cells]
    /\ Spends[GenesisOp] = {}
    /\ Ancestors \in [Ops -> SUBSET Ops]
    /\ Ancestors[GenesisOp] = {GenesisOp}
    /\ \A o \in Ops : /\ o \in Ancestors[o]
                      /\ \A c \in Spends[o] : Definer[c] \in Ancestors[o]
                      /\ \A a \in Ancestors[o] : Ancestors[a] \subseteq Ancestors[o]
    /\ Carries \subseteq (Ops \ {GenesisOp}) \X Wids
    /\ Reported \subseteq DistinctStatus \ {Genesis}
    /\ MaxChanged \in Nat

VARIABLES
    known,       \* ledger: operations in the stash
    valid,       \* ledger: operations applied to the state, in memory
    validDisk,   \* ledger: the same, as of its last commit
    index,       \* pile: witnesses of each operation (index.dat)
    stand,       \* pile: operations of each witness (stand.dat)
    hoard,       \* pile: operations each witness's anchor proves; {} = no anchor
    mine,        \* pile: status of each witness, in memory
    mineDisk,    \* pile: the same, as of the last commit_transaction
    keep,        \* pile: cells whose seal definition is stored
    job,         \* the handler that is half way, and what it holds
    exposed      \* history variable: operations that came to be applied with
                 \* archived witnesses in one of the ways listed at Expose

ledger == <<known, valid, validDisk>>
links  == <<index, stand, hoard>>
pile   == <<index, stand, hoard, mine, mineDisk, keep>>
vars   == <<known, valid, validDisk, index, stand, hoard, mine, mineDisk, keep, job, exposed>>

NoStatus == [kind |-> "None", height |-> 0]   \* no record in mine.dat

WitnessStatuses == DistinctStatus \ {Genesis}

NoWid == "no witness"

\* ops: what a consume has evaluated, or what a sync has to re-apply; op and
\* wid: the operation and the witness at hand.
Job(at, ops, o, w) == [at |-> at, ops |-> ops, op |-> o, wid |-> w]

Idle == Job("idle", {}, GenesisOp, NoWid)

BlockSteps   == {"seals", "witness"}   \* of a block of a consignment
WitnessSteps == {"stand", "anchor", "register"}     \* of add_witness
Steps == {"idle", "call", "consume", "commit", "forward"} \union BlockSteps \union WitnessSteps

TypeOK ==
    /\ known \subseteq Ops
    /\ valid \subseteq Ops
    /\ validDisk \subseteq Ops
    /\ index \in [Ops -> SUBSET Wids]
    /\ stand \in [Wids -> SUBSET Ops]
    /\ hoard \in [Wids -> SUBSET Ops]
    /\ mine \in [Wids -> WitnessStatuses \union {NoStatus}]
    /\ mineDisk \in [Wids -> WitnessStatuses \union {NoStatus}]
    /\ \A w \in Wids : /\ mine[w] = NoStatus <=> mineDisk[w] = NoStatus
                       /\ mine[w] # NoStatus => hoard[w] # {}
    /\ keep \subseteq Cells
    /\ job \in [at : Steps, ops : SUBSET Ops, op : Ops, wid : Wids \union {NoWid}]
    /\ job.at \in WitnessSteps => job.wid \in Wids
    /\ exposed \subseteq Ops

CellsOf(o) == {c \in Cells : Definer[c] = o}

-----------------------------------------------------------------------------
(***************************************************************************)
(* The statuses of operations and of state.                                *)
(***************************************************************************)
\* reduce(best).unwrap_or(Genesis), over the statuses of the witnesses.
StatusOf(S) == IF S = {} THEN Genesis ELSE BestOf(S)

StatusUnder(m, o) == StatusOf({m[w] : w \in index[o]})

OpStatus(o) == StatusUnder(mine, o)

\* witness_status panics for a witness that has no record, which a crash
\* inside of add_witness leaves behind.
Readable(o) == \A w \in index[o] : mine[w] # NoStatus

\* get_status: the worst of the history and of the status it is asked with.
HistoryStatus(o, or) == WorstOf({Genesis, or} \union {OpStatus(a) : a \in Ancestors[o]})

\* Mutant: the witness with the least confirmations is offered.
RetrieveWorst(o) ==
    {w \in index[o] : mine[w] = WorstOf({mine[x] : x \in index[o]}) /\ IsValid(mine[w])}

\* The witnesses retrieve may return for a consignment; none when the best
\* one is archived.
Retrieve(o) == {w \in index[o] : mine[w] = OpStatus(o) /\ IsValid(mine[w])}

\* export and consign write, for each operation of the history, its witness.
Consign(o) == [a \in Ancestors[o] |-> Retrieve(a)]

Unspent(applied) == {c \in Cells : Definer[c] \in applied} \ UNION {Spends[o] : o \in applied}

\* The cells in the owned part of ContractState.
Seen == Unspent(valid) \intersect keep

\* The statuses a cell is listed with: one on an existing output once, with
\* the status of its operation; one on an output of a witness transaction
\* in a copy for each witness, with the status of that.
Listed(c) ==
    LET o == Definer[c]
    IN  IF c \in SrcSeals THEN {HistoryStatus(o, OpStatus(o))}
        ELSE {HistoryStatus(o, mine[w]) : w \in index[o]}

-----------------------------------------------------------------------------
(***************************************************************************)
(* The ledger, external.                                                   *)
(***************************************************************************)
Dependents(R) == {o \in known : Ancestors[o] \intersect R # {}}

\* A state the ledger may hold: closed under ancestors, nothing spent twice.
Consistent(applied) ==
    \A o \in applied : /\ Ancestors[o] \subseteq applied
                       /\ \A p \in applied \ {o} : Spends[o] \intersect Spends[p] = {}

Applicable(o) ==
    /\ o \notin valid
    /\ Ancestors[o] \ {o} \subseteq valid
    /\ Spends[o] \subseteq Unspent(valid)

\* The operations a request to re-apply F may touch: nothing rules out that
\* the ledger also re-applies what builds on them.
Reach(F) == F \union Dependents(F)

\* What a rollback of R may leave when it fails part way.
PartOf(R) ==
    {kept \in SUBSET valid : valid \ Dependents(R) \subseteq kept /\ Consistent(kept)}

\* A ledger that applies an operation may or may not have committed it.
LedgerMayCommit == validDisk' \in {validDisk, valid'}

-----------------------------------------------------------------------------
(***************************************************************************)
(* The ways in which an operation comes to be applied although all of its  *)
(* witnesses are archived, in memory or on disk, other than by a sync:     *)
(*   - it is called again after a sync rolled it back (Call);              *)
(*   - it is included or consumed with a witness the pile holds as         *)
(*     archived, or consumed without one (Register, NoWitness);            *)
(*   - the process dies inside of the block that applied it (Crash);       *)
(*   - the rollback it was part of fails (SyncRollbackErr);                *)
(*   - the ledger re-applies it unasked, together with an operation it     *)
(*     builds on (SyncForward).                                            *)
(* Nothing in the code looks for such an operation later: sync compares an *)
(* operation with itself before and after.  No guard reads exposed.        *)
(***************************************************************************)
Dead(m, o) == index[o] # {} /\ \A w \in index[o] : m[w] = Archived

DeadSomewhere(o) == Dead(mine, o) \/ Dead(mineDisk, o)

Expose(S) == exposed' = exposed \union S

-----------------------------------------------------------------------------
(***************************************************************************)
(* call, and the two stores it writes one after the other.                 *)
(***************************************************************************)
Init ==
    /\ known = {GenesisOp}
    /\ valid = {GenesisOp}
    /\ validDisk = {GenesisOp}
    /\ index = [o \in Ops |-> {}]
    /\ stand = [w \in Wids |-> {}]
    /\ hoard = [w \in Wids |-> {}]
    /\ mine = [w \in Wids |-> NoStatus]
    /\ mineDisk = [w \in Wids |-> NoStatus]
    /\ keep = CellsOf(GenesisOp)
    /\ job = Idle
    /\ exposed = {}

\* ledger.call: an operation over the current state.  The parameters may be
\* those of an operation that was rolled back.
Call(o) ==
    /\ job = Idle
    /\ Applicable(o)
    /\ known' = known \union {o}
    /\ valid' = valid \union {o}
    /\ LedgerMayCommit
    /\ job' = Job("call", {}, o, NoWid)
    /\ Expose({p \in {o} : DeadSomewhere(p)})
    /\ UNCHANGED pile

\* pile.add_seals, with the seals the caller passed.
CallSeals ==
    /\ job.at = "call"
    /\ keep' = keep \union (CellsOf(job.op) \intersect CallerSeals)
    /\ job' = Idle
    /\ UNCHANGED <<ledger, links, mine, mineDisk, exposed>>

-----------------------------------------------------------------------------
(***************************************************************************)
(* include, by itself or for a block of a consignment: add_witness links   *)
(* the witness with the operation, both ways, stores the merged anchor     *)
(* (with the transaction), and registers a new witness as tentative; then  *)
(* the pile is committed.  A new record in mine is not durable before the  *)
(* commit, so that the two are one step.                                   *)
(***************************************************************************)
IndexPush(o, w, evaluated) ==
    /\ <<o, w>> \in Carries
    /\ index' = [index EXCEPT ![o] = @ \union {w}]
    /\ job' = Job("stand", evaluated, o, w)
    /\ UNCHANGED <<ledger, stand, hoard, mine, mineDisk, keep, exposed>>

\* The callers include operations that were called or consumed.
Include(o, w) ==
    /\ job = Idle
    /\ o \in known
    /\ IndexPush(o, w, {})

StandPush ==
    /\ job.at = "stand"
    /\ stand' = [stand EXCEPT ![job.wid] = @ \union {job.op}]
    /\ job' = [job EXCEPT !.at = "anchor"]
    /\ UNCHANGED <<ledger, index, hoard, mine, mineDisk, keep, exposed>>

\* Mutant: the new anchor replaces the stored one.
ReplaceAnchor ==
    /\ job.at = "anchor"
    /\ hoard' = [hoard EXCEPT ![job.wid] = {job.op}]
    /\ job' = [job EXCEPT !.at = "register"]
    /\ UNCHANGED <<ledger, index, stand, mine, mineDisk, keep, exposed>>

MergeAnchor ==
    /\ job.at = "anchor"
    /\ hoard' = [hoard EXCEPT ![job.wid] = @ \union {job.op}]
    /\ job' = [job EXCEPT !.at = "register"]
    /\ UNCHANGED <<ledger, index, stand, mine, mineDisk, keep, exposed>>

\* Back to the caller: the user, or the evaluation of a consignment.
Return ==
    job' = IF job.ops = {} THEN Idle
           ELSE Job("consume", job.ops \union {job.op}, GenesisOp, NoWid)

\* Mutant: a new witness is registered as archived.
RegisterArchived ==
    /\ job.at = "register"
    /\ mine' = [mine EXCEPT ![job.wid] = IF @ = NoStatus THEN Archived ELSE @]
    /\ mineDisk' = mine'
    /\ Return
    /\ Expose({p \in {job.op} : Dead(mine, p)})
    /\ UNCHANGED <<ledger, links, keep>>

Register ==
    /\ job.at = "register"
    /\ mine' = [mine EXCEPT ![job.wid] = IF @ = NoStatus THEN Tentative ELSE @]
    /\ mineDisk' = mine'
    /\ Return
    /\ Expose({p \in {job.op} : Dead(mine, p)})
    /\ UNCHANGED <<ledger, links, keep>>

-----------------------------------------------------------------------------
(***************************************************************************)
(* consume: evaluates the operations of a consignment one by one, and      *)
(* commits after the last one.  A block applies the operation unless the   *)
(* ledger holds it as valid, adds the definitions of its seals, and then   *)
(* its witness, if it comes with one.  An error between two blocks ends    *)
(* the call, and leaves what was applied so far in memory.                 *)
(***************************************************************************)
BeginConsume ==
    /\ job = Idle
    /\ job' = Job("consume", {GenesisOp}, GenesisOp, NoWid)
    /\ UNCHANGED <<ledger, pile, exposed>>

Block(o) ==
    /\ job.at = "consume"
    /\ Ancestors[o] \ {o} \subseteq job.ops
    /\ job' = Job("seals", job.ops, o, NoWid)
    /\ UNCHANGED <<pile, exposed>>

\* Mutant: an operation of the stash counts as known, and is not applied.
ApplyStashed(o) ==
    /\ Block(o)
    /\ IF o \in known
       THEN UNCHANGED ledger
       ELSE /\ Applicable(o)
            /\ known' = known \union {o}
            /\ valid' = valid \union {o}
            /\ LedgerMayCommit

\* Mutant: an operation of the stash is applied without verification.
ApplyUnverified(o) ==
    /\ Block(o)
    /\ o \in known \/ Applicable(o)
    /\ known' = known \union {o}
    /\ valid' = valid \union {o}
    /\ LedgerMayCommit

ApplyOperation(o) ==
    /\ Block(o)
    /\ IF o \in valid
       THEN UNCHANGED ledger
       ELSE /\ Applicable(o)
            /\ known' = known \union {o}
            /\ valid' = valid \union {o}
            /\ LedgerMayCommit

ApplySeals ==
    /\ job.at = "seals"
    /\ keep' = keep \union CellsOf(job.op)
    /\ job' = [job EXCEPT !.at = "witness"]
    /\ UNCHANGED <<ledger, links, mine, mineDisk, exposed>>

ApplyWitness(w) ==
    /\ job.at = "witness"
    /\ IndexPush(job.op, w, job.ops)

\* The block has no witness: the sender had none that is not archived.
NoWitness ==
    /\ job.at = "witness"
    /\ Return
    /\ Expose({p \in {job.op} : DeadSomewhere(p)})
    /\ UNCHANGED <<ledger, pile>>

\* evaluate_commit; the articles and their signature are checked after it.
EndConsume ==
    /\ job.at = "consume"
    /\ validDisk' = valid
    /\ mineDisk' = mine
    /\ job' = Idle
    /\ UNCHANGED <<known, valid, links, mine, keep, exposed>>

FailConsume ==
    /\ job.at = "consume"
    /\ job' = Idle
    /\ UNCHANGED <<ledger, pile, exposed>>

-----------------------------------------------------------------------------
(***************************************************************************)
(* sync.                                                                   *)
(***************************************************************************)
Changes == UNION {[1 .. n -> [wid : Wids, status : Reported]] : n \in 1 .. MaxChanged}

\* Statuses are read of every entry on a witness with an anchor, and of each
\* operation it is linked with; nothing is changed before.
Reads(changed) ==
    \A i \in DOMAIN changed :
        LET w == changed[i].wid
        IN  hoard[w] # {} => mine[w] # NoStatus /\ \A o \in stand[w] : Readable(o)

\* Step 1.  Entries on unknown witnesses, and entries that repeat the status
\* held before the call, are skipped; of several left the last one wins.
\* Mutant: witnesses the pile does not hold are not skipped.
EffectiveUnknown(changed) ==
    {i \in DOMAIN changed : changed[i].status # mine[changed[i].wid]}

Effective(changed) ==
    {i \in DOMAIN changed : /\ hoard[changed[i].wid] # {}
                            /\ changed[i].status # mine[changed[i].wid]}

EffectiveFor(changed, w) == {i \in Effective(changed) : changed[i].wid = w}

LastEffective(changed, w) ==
    CHOOSE i \in EffectiveFor(changed, w) : \A j \in EffectiveFor(changed, w) : j <= i

AffectedWids(changed) == {changed[i].wid : i \in Effective(changed)}

\* Mutant: one operation is taken for each witness.
AffectedOpsOne(changed) ==
    {CHOOSE o \in Ops : stand[w] # {} => o \in stand[w] : w \in AffectedWids(changed)}

AffectedOps(changed) == UNION {stand[w] : w \in AffectedWids(changed)}

\* Step 3.
Updated(changed) ==
    [w \in Wids |-> IF w \in AffectedWids(changed) THEN changed[LastEffective(changed, w)].status
                    ELSE mine[w]]

\* Steps 2 and 4: operations of the affected witnesses whose own validity
\* is different under the updated statuses.
\* Mutant: an operation is rolled back as soon as one of its witnesses is
\* archived.
LosingEager(changed) ==
    {o \in AffectedOps(changed) :
        \E w \in index[o] : IsValid(mine[w]) /\ ~IsValid(Updated(changed)[w])}

\* Mutant: every operation of an affected witness is rolled back.
LosingAffected(changed) == {o \in AffectedOps(changed) : IsValid(OpStatus(o))}

Losing(changed) ==
    {o \in AffectedOps(changed) :
        IsValid(OpStatus(o)) /\ ~IsValid(StatusUnder(Updated(changed), o))}

\* Mutant: what has a valid witness again is brought back with all that
\* builds on it.
GainingHistory(changed) ==
    Dependents({o \in AffectedOps(changed) :
        ~IsValid(OpStatus(o)) /\ IsValid(StatusUnder(Updated(changed), o))})

Gaining(changed) ==
    {o \in AffectedOps(changed) :
        ~IsValid(OpStatus(o)) /\ IsValid(StatusUnder(Updated(changed), o))}

\* Steps 1 to 4, then ledger.rollback, which commits the ledger.
\* Mutant: the pile is committed before the ledger is rolled back.
SyncRollbackPileFirst(changed) ==
    /\ job = Idle
    /\ Reads(changed)
    /\ valid' = valid \ Dependents(Losing(changed))
    /\ mine' = Updated(changed)
    /\ mineDisk' = mine'
    /\ job' = Job("commit", Gaining(changed), GenesisOp, NoWid)
    /\ UNCHANGED <<known, validDisk, links, keep, exposed>>

SyncRollback(changed) ==
    /\ job = Idle
    /\ Reads(changed)
    /\ valid' = valid \ Dependents(Losing(changed))
    /\ validDisk' = valid'
    /\ mine' = Updated(changed)
    /\ job' = Job("commit", Gaining(changed), GenesisOp, NoWid)
    /\ UNCHANGED <<known, links, mineDisk, keep, exposed>>

\* The rollback returns an I/O error, with part of it done and committed or
\* not: the statuses are updated in memory.
SyncRollbackErr(changed) ==
    /\ job = Idle
    /\ Reads(changed)
    /\ valid' \in PartOf(Losing(changed))
    /\ LedgerMayCommit
    /\ mine' = Updated(changed)
    /\ Expose(Losing(changed))
    /\ UNCHANGED <<known, links, mineDisk, keep, job>>

SyncCommitPile ==
    /\ job.at = "commit"
    /\ mineDisk' = mine
    /\ job' = [job EXCEPT !.at = "forward"]
    /\ UNCHANGED <<ledger, links, mine, keep, exposed>>

\* The ledger re-applies these operations, all or some of those it was asked
\* for and some that build on them.
Reapply(again) ==
    /\ Consistent(valid \union again)
    /\ valid' = valid \union again
    /\ Expose({o \in again \ job.ops : Dead(mine, o)})
    /\ job' = Idle
    /\ UNCHANGED <<known, links, mine, keep>>

\* ledger.forward, which commits; the second commit of the pile has nothing
\* left to write.
SyncForward ==
    /\ job.at = "forward"
    /\ \E again \in SUBSET Reach(job.ops) : job.ops \subseteq again /\ Reapply(again)
    /\ validDisk' = valid'
    /\ mineDisk' = mine

\* An operation cannot be re-applied, or an I/O error: what was re-applied
\* before it stays.
SyncForwardErr ==
    /\ job.at = "forward"
    /\ job.ops # {}
    /\ \E again \in SUBSET Reach(job.ops) : Reapply(again)
    /\ LedgerMayCommit
    /\ UNCHANGED mineDisk

-----------------------------------------------------------------------------
\* The operation of the block or of the inclusion that is half way.
AtHand == IF job.at \in BlockSteps \union WitnessSteps THEN {job.op} ELSE {}

\* The process ends and the contract is loaded again.
Crash ==
    /\ valid' = validDisk
    /\ mine' = mineDisk
    /\ job' = Idle
    /\ Expose({o \in AtHand : Dead(mineDisk, o)})
    /\ UNCHANGED <<known, validDisk, links, mineDisk, keep>>

Next ==
    \/ \E o \in Ops : Call(o)
    \/ CallSeals
    \/ \E o \in Ops, w \in Wids : Include(o, w)
    \/ StandPush
    \/ MergeAnchor
    \/ Register
    \/ BeginConsume
    \/ \E o \in Ops : ApplyOperation(o)
    \/ ApplySeals
    \/ \E w \in Wids : ApplyWitness(w)
    \/ NoWitness
    \/ EndConsume
    \/ FailConsume
    \/ \E changed \in Changes : SyncRollback(changed)
    \/ \E changed \in Changes : SyncRollbackErr(changed)
    \/ SyncCommitPile
    \/ SyncForward
    \/ SyncForwardErr
    \/ Crash

Spec == Init /\ [][Next]_vars
-----------------------------------------------------------------------------
(***************************************************************************)
(* Safety.                                                                 *)
(***************************************************************************)

\* A witness linked with an operation is complete when sync finds the
\* operation by it, its anchor proves the operation, and it has a status.
Complete(o, w) == o \in stand[w] /\ o \in hoard[w] /\ mine[w] # NoStatus

Interrupted == {o \in Ops : \E w \in index[o] : ~Complete(o, w)}

\* The operations sync does not answer for: see Expose, and an inclusion that
\* is under way, or that a crash has interrupted and nobody repeated.
Unprotected == exposed \union Interrupted \union AtHand

(***************************************************************************)
(* No other operation stays applied to the contract state once all the     *)
(* witnesses it has are archived: what sync steps 2 to 5 are for.          *)
(***************************************************************************)
StateWitnessed == \A o \in valid \ Unprotected : ~Dead(mine, o)

(***************************************************************************)
(* The same for what a restart would find, at every point where the        *)
(* process may die: sync commits the rollback before the archived status,  *)
(* and the revived status before the re-application.                       *)
(***************************************************************************)
DiskWitnessed == \A o \in validDisk \ Unprotected : ~Dead(mineDisk, o)

(***************************************************************************)
(* What was complete stays so, through inclusions of other operations with *)
(* the same witness (the merge of the anchors) and through crashes; and an *)
(* inclusion that ends leaves a complete link, also one that was           *)
(* interrupted before at any of its writes.                                *)
(***************************************************************************)
AnchorProvesOps ==
    [][/\ \A o \in Ops : \A w \in index[o] : Complete(o, w) => Complete(o, w)'
       /\ Register => \A o \in {job.op}, w \in {job.wid} : Complete(o, w)']_vars

(***************************************************************************)
(* State presented to the user is never archived as a whole, as long as    *)
(* its history has no unprotected operation: a cell on an existing output  *)
(* is listed with a valid status, a cell on an output of the witness       *)
(* transaction in at least one valid copy once its operation has a         *)
(* witness.  It takes the validity of the entire history.                  *)
(***************************************************************************)
ReportedStateValid ==
    job = Idle =>
        \A c \in Seen : Ancestors[Definer[c]] \intersect Unprotected = {} =>
            Listed(c) = {} \/ \E s \in Listed(c) : IsValid(s)

(***************************************************************************)
(* Every operation in the history of the state can be consigned with a     *)
(* witness that is not archived and whose anchor proves it, unless none    *)
(* was ever included or the operation is unprotected.                      *)
(***************************************************************************)
HistoryConsignable ==
    job = Idle =>
        \A o \in valid : \A a \in Ancestors[o] \ Unprotected :
            index[a] # {} => Retrieve(a) # {} /\ \A w \in Retrieve(a) : a \in hoard[w]

(***************************************************************************)
(* An operation leaves the state in memory only in a step in which it, or  *)
(* an operation it builds on, loses its last valid witness, or in a        *)
(* restart when it was never committed; and it leaves the durable state    *)
(* only in such a step, or later when it had left memory.  Neither a       *)
(* replacement transaction, nor a change of height, nor a crash, nor a     *)
(* rollback or a re-application that fails drops it.                       *)
(***************************************************************************)
OnlyLostWitnessDrops ==
    [][LET Lost(o) == \E a \in Ancestors[o] : ~Dead(mine, a) /\ Dead(mine, a)'
       IN  /\ \A o \in valid \ valid' : Lost(o) \/ (o \notin validDisk /\ valid' = validDisk)
           /\ \A o \in validDisk \ validDisk' : Lost(o) \/ o \notin valid]_vars

(***************************************************************************)
(* What a restart finds, and what the ledger applies at any time, is a     *)
(* history: closed under ancestors, with no cell spent twice, also after   *)
(* conflicting operations took turns at being rolled back and re-applied.  *)
(***************************************************************************)
HistoriesConsistent == Consistent(valid) /\ Consistent(validDisk)

(***************************************************************************)
(* After a consume that ends well a restart finds all of its operations    *)
(* applied, also those a sync had rolled back before: what include does    *)
(* not do, consume does, and the genesis is never rolled back.             *)
(***************************************************************************)
ConsumedApplied == [][EndConsume => job.ops \subseteq validDisk']_vars

-----------------------------------------------------------------------------
(***************************************************************************)
(* The contract uses its pile within what the trait promises: inclusions   *)
(* are added and never lost, a new witness begins as tentative, and no     *)
(* status is committed for a witness nobody included.                      *)
(***************************************************************************)
Linked == {p \in Ops \X Wids : p[2] \in index[p[1]]}

Recorded == {p \in Ops \X Wids : p[1] \in hoard[p[2]] /\ mineDisk[p[2]] # NoStatus}

Promise == INSTANCE Pile WITH
    attempted <- Linked,
    recorded  <- Recorded,
    status    <- mineDisk

ImplementsPile == Promise!Spec

-----------------------------------------------------------------------------
(***************************************************************************)
(* What the documentation says, and the code does not do.                  *)
(***************************************************************************)

(***************************************************************************)
(* include: "Include an operation and its witness to the history of known  *)
(* operations and the contract state."  The ledger is not touched: an      *)
(* operation that was called, with its seals, and included, whose witness  *)
(* was archived later and that a sync has rolled back, is not in the state *)
(* after it is included with a replacement.                                *)
(***************************************************************************)
IncludeEntersState ==
    [][LET replaced == index[job.op] \ {job.wid}
       IN  /\ Register
           /\ job.ops = {}
           /\ CellsOf(job.op) \subseteq keep
           /\ job.op \notin exposed
           /\ replaced # {} /\ \A w \in replaced : mine[w] = Archived
           => job.op \in valid']_vars
=============================================================================
