------------------------------- MODULE PileFs -------------------------------
(***************************************************************************)
(* The pile on the file system (persistence/fs/src/pile.rs): six files,    *)
(* five of which are durable as soon as they are written, and the status   *)
(* table mine.dat, which is written by commit_transaction.  Including a    *)
(* witness writes five of them one after the other, and the process may    *)
(* die between any two of these writes.                                    *)
(*                                                                         *)
(* The files themselves (crate aora) are external: index and stand are     *)
(* sets of pairs, the others are maps.                                     *)
(***************************************************************************)
EXTENDS WitnessStatus

CONSTANTS Ops, Wids, Cells, Reported

ASSUME PileFsAssumption == Reported \subseteq DistinctStatus \ {Genesis}

VARIABLES
    index,     \* index.dat: pairs of an operation and a witness of it
    stand,     \* stand.dat: the same pairs, looked up by the witness
    hoard,     \* operations proved by the anchor of each witness; {} = none
    cache,     \* witnesses whose transaction is stored
    keep,      \* cells whose seal definition is stored
    mine,      \* statuses in memory
    mineDisk,  \* statuses in mine.dat
    job        \* the inclusion half way, and the write it makes next

files == <<index, stand, hoard, cache, keep>>
vars  == <<index, stand, hoard, cache, keep, mine, mineDisk, job>>

NoStatus == [kind |-> "None", height |-> 0]

Statuses == DistinctStatus \ {Genesis}

Idle == [at |-> "idle", pair |-> <<>>]

Pairs == Ops \X Wids

TypeOK ==
    /\ index \subseteq Pairs
    /\ stand \subseteq Pairs
    /\ hoard \in [Wids -> SUBSET Ops]
    /\ cache \subseteq Wids
    /\ keep \subseteq Cells
    /\ mine \in [Wids -> Statuses \union {NoStatus}]
    /\ mineDisk \in [Wids -> Statuses \union {NoStatus}]
    /\ job \in {Idle} \union
              [at : {"stand", "hoard", "cache", "mine", "commit"}, pair : Pairs]
    /\ \A w \in Wids : mine[w] # NoStatus => hoard[w] # {}

Init ==
    /\ index = {}
    /\ stand = {}
    /\ hoard = [w \in Wids |-> {}]
    /\ cache = {}
    /\ keep = {}
    /\ mine = [w \in Wids |-> NoStatus]
    /\ mineDisk = [w \in Wids |-> NoStatus]
    /\ job = Idle

HasWitness(w) == hoard[w] # {}

-----------------------------------------------------------------------------
(***************************************************************************)
(* add_witness as it is called by Contract::include, write by write; the   *)
(* anchor has been merged with the stored one by then.                     *)
(***************************************************************************)

\* Mutant: the reverse lookup is written first.
IndexPushStandFirst(o, w) ==
    /\ job = Idle
    /\ stand' = stand \union {<<o, w>>}
    /\ job' = [at |-> "stand", pair |-> <<o, w>>]
    /\ UNCHANGED <<index, hoard, cache, keep, mine, mineDisk>>

IndexPush(o, w) ==
    /\ job = Idle
    /\ index' = index \union {<<o, w>>}
    /\ job' = [at |-> "stand", pair |-> <<o, w>>]
    /\ UNCHANGED <<stand, hoard, cache, keep, mine, mineDisk>>

\* Mutant: the status is inserted before the anchor.
StandPushToMine ==
    /\ job.at = "stand"
    /\ stand' = stand \union {job.pair}
    /\ job' = [job EXCEPT !.at = "mine"]
    /\ UNCHANGED <<index, hoard, cache, keep, mine, mineDisk>>

StandPush ==
    /\ job.at = "stand"
    /\ stand' = stand \union {job.pair}
    /\ job' = [job EXCEPT !.at = "hoard"]
    /\ UNCHANGED <<index, hoard, cache, keep, mine, mineDisk>>

\* Mutant: the stored anchor is replaced.
HoardReplace ==
    /\ job.at = "hoard"
    /\ hoard' = [hoard EXCEPT ![job.pair[2]] = {job.pair[1]}]
    /\ job' = [job EXCEPT !.at = "cache"]
    /\ UNCHANGED <<index, stand, cache, keep, mine, mineDisk>>

HoardInsert ==
    /\ job.at = "hoard"
    /\ hoard' = [hoard EXCEPT ![job.pair[2]] = @ \union {job.pair[1]}]
    /\ job' = [job EXCEPT !.at = "cache"]
    /\ UNCHANGED <<index, stand, cache, keep, mine, mineDisk>>

CacheInsert ==
    /\ job.at = "cache"
    /\ cache' = cache \union {job.pair[2]}
    /\ job' = [job EXCEPT !.at = "mine"]
    /\ UNCHANGED <<index, stand, hoard, keep, mine, mineDisk>>

MineInsert ==
    /\ job.at = "mine"
    /\ mine' = [mine EXCEPT ![job.pair[2]] = IF @ = NoStatus THEN Tentative ELSE @]
    /\ job' = [job EXCEPT !.at = "commit"]
    /\ UNCHANGED <<files, mineDisk>>

\* commit_transaction, the last call of Contract::include.
CommitInclude ==
    /\ job.at = "commit"
    /\ mineDisk' = mine
    /\ job' = Idle
    /\ UNCHANGED <<files, mine>>

-----------------------------------------------------------------------------
(***************************************************************************)
(* The other operations, one write each.                                   *)
(***************************************************************************)
AddSeal(c) ==
    /\ job = Idle
    /\ keep' = keep \union {c}
    /\ UNCHANGED <<index, stand, hoard, cache, mine, mineDisk, job>>

\* sync has looked the witness and its status up before; on an anchor
\* without a status that lookup panics, and nothing is written.
UpdateWitnessStatus(w, s) ==
    /\ job = Idle
    /\ HasWitness(w)
    /\ mine[w] # NoStatus
    /\ mine' = [mine EXCEPT ![w] = s]
    /\ UNCHANGED <<files, mineDisk, job>>

CommitTransaction ==
    /\ job = Idle
    /\ mineDisk' = mine
    /\ UNCHANGED <<files, mine, job>>

\* The process ends; load opens the files again.
Crash ==
    /\ mine' = mineDisk
    /\ job' = Idle
    /\ UNCHANGED <<files, mineDisk>>

Next ==
    \/ \E o \in Ops, w \in Wids : IndexPush(o, w)
    \/ StandPush
    \/ HoardInsert
    \/ CacheInsert
    \/ MineInsert
    \/ CommitInclude
    \/ \E c \in Cells : AddSeal(c)
    \/ \E w \in Wids, s \in Reported : UpdateWitnessStatus(w, s)
    \/ CommitTransaction
    \/ Crash

Spec == Init /\ [][Next]_vars

-----------------------------------------------------------------------------
(***************************************************************************)
(* Through any crash, a file written later by add_witness never holds more *)
(* than one written earlier: the pairs of stand are in index, an operation *)
(* with an anchor is found from its witness, and a stored status comes     *)
(* with the transaction and the anchor that witness() reads with it.       *)
(***************************************************************************)
WriteOrder ==
    /\ stand \subseteq index
    /\ \A w \in Wids : \A o \in hoard[w] : <<o, w>> \in stand
    /\ \A w \in cache : HasWitness(w)
    /\ \A w \in Wids : mineDisk[w] # NoStatus => w \in cache

\* All that readers of a pair look up is there.
Complete(o, w) ==
    /\ <<o, w>> \in index
    /\ <<o, w>> \in stand
    /\ o \in hoard[w]
    /\ w \in cache
    /\ mineDisk[w] # NoStatus

(***************************************************************************)
(* The pile implements the promise of its trait through crashes at every   *)
(* write: counting only complete pairs, an inclusion is atomic, nothing    *)
(* recorded is lost, an interrupted inclusion may be repeated, and a       *)
(* recorded witness always has a status.                                   *)
(***************************************************************************)
Promise == INSTANCE Pile WITH
    attempted <- index,
    recorded  <- {p \in Pairs : Complete(p[1], p[2])},
    status    <- mineDisk

ImplementsPile == Promise!Spec
=============================================================================
