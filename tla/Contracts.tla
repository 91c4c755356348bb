----------------------------- MODULE Contracts -----------------------------
(***************************************************************************)
(* The collection of contracts (src/contracts.rs) over a stockpile         *)
(* directory (persistence/fs/src/stockpile.rs).  A contract exists in      *)
(* three places, which are written at different moments: a directory on    *)
(* disk, the registry of directories StockpileDir::load has listed, and    *)
(* the cache of contracts in memory.  Creating a contract, importing one   *)
(* and syncing all of them take several steps; each of them may fail, and  *)
(* the process may die or panic in between.                                *)
(*                                                                         *)
(* A consignment says twice which contract it is for: in its header, which *)
(* is what the registry is asked for and what the contract is cached       *)
(* under, and by its articles, which is what the directory is named after  *)
(* and what is registered.  The code compares the two nowhere, so that a   *)
(* contract may be cached under the identifier of another one.             *)
(*                                                                         *)
(* What is inside of a contract is module Contract; here it is only the    *)
(* status of one witness that all contracts may share, as each contract    *)
(* holds it, and whether the seals the wallet owns are known to it.        *)
(***************************************************************************)
EXTENDS WitnessStatus

CONSTANTS
    Ids,        \* contract identifiers
    Foreign,    \* contracts of another network, left in the directory
    Purgeable,  \* contracts the user may purge
    Mismatched, \* the header and the articles of consignments that differ
    Reported    \* statuses passed to sync

ASSUME ContractsAssumption ==
    /\ Foreign \subseteq Ids
    /\ Purgeable \subseteq Ids
    /\ Mismatched \subseteq Ids \X Ids
    /\ Reported \subseteq DistinctStatus \ {Genesis}

VARIABLES
    issuer,      \* the issuer of the contracts has been imported
    registered,  \* StockpileDir::contracts
    dir,         \* the directory: "none", "bare", or all files are "there"
    disk,        \* the status of the shared witness in the files
    sealed,      \* contracts whose files define the seals of the wallet
    cache,       \* the status in the cached contract, NotCached without one
    copyOf,      \* which contract it is that is cached under an identifier
    mixed,       \* history variable: identifiers of mismatched consignments
                 \* this process has imported
    job          \* the call half way

vars == <<issuer, registered, dir, disk, sealed, cache, copyOf, mixed, job>>

NotCached == [kind |-> "not cached", height |-> 0]
NoStatus  == [kind |-> "None", height |-> 0]   \* the witness is not known

Statuses == (DistinctStatus \ {Genesis}) \union {NoStatus}

\* header: the identifiers in the header of what is imported.
Idle == [at |-> "idle", ids |-> {}, header |-> {}, status |-> NoStatus]
Dead == [Idle EXCEPT !.at = "dead"]   \* after a panic

TypeOK ==
    /\ issuer \in BOOLEAN
    /\ registered \subseteq Ids
    /\ dir \in [Ids -> {"none", "bare", "there"}]
    /\ disk \in [Ids -> Statuses]
    /\ sealed \subseteq Ids
    /\ cache \in [Ids -> Statuses \union {NotCached}]
    /\ copyOf \in [Ids -> Ids]
    /\ mixed \subseteq Ids
    /\ job \in [at : {"idle", "dead", "issue", "define", "import", "evaluate", "sync"},
                ids : SUBSET Ids, header : SUBSET Ids, status : Statuses]
    /\ \A i \in Ids : dir[i] # "there" => disk[i] = NoStatus /\ i \notin sealed

Init ==
    /\ issuer = FALSE
    /\ registered = Foreign
    /\ dir = [i \in Ids |-> IF i \in Foreign THEN "there" ELSE "none"]
    /\ disk = [i \in Ids |-> NoStatus]
    /\ sealed = {}
    /\ cache = [i \in Ids |-> NotCached]
    /\ copyOf = [i \in Ids |-> i]
    /\ mixed = {}
    /\ job = Idle

IsCached(i) == cache[i] # NotCached

\* Stockpile::contract.
Loadable(i) == i \in registered /\ dir[i] = "there" /\ i \notin Foreign

\* with_contract and with_contract_mut find the contract, or panic.
Available(i) == IsCached(i) \/ Loadable(i)

\* What a call sees; a contract that is not cached is loaded.
\* Mutant: only the cache is looked at.
HeldInCache(i) == cache[i]

Held(i) == IF IsCached(i) THEN cache[i] ELSE disk[i]

Panic == job' = Dead /\ UNCHANGED <<issuer, registered, dir, disk, sealed, cache, copyOf, mixed>>

\* A witness that was not known is registered as tentative.
Included(status) == IF status = NoStatus THEN Tentative ELSE status

\* The files the contract cached under i, or loaded for it, writes to.
Files(i) == {j \in {copyOf[i]} : dir[j] = "there"}

\* A call leaves a status in memory and in the files.  When two copies of a
\* contract write to the same files, these hold the status of either, or none.
WriteDisk(i, s) ==
    \E t \in IF i \in mixed THEN {s, disk[copyOf[i]], NoStatus} ELSE {s} :
        disk' = [j \in Ids |-> IF j \in Files(i) THEN t ELSE disk[j]]

Write(i, s) ==
    /\ cache' = [cache EXCEPT ![i] = s]
    /\ WriteDisk(i, s)

\* A consignment brings the shared witness, or does not.
Consumed(status) == {status, Included(status)}

-----------------------------------------------------------------------------
(***************************************************************************)
(* Issuers and contracts are created.                                      *)
(***************************************************************************)
ImportIssuer ==
    /\ job = Idle
    /\ issuer' = TRUE
    /\ UNCHANGED <<registered, dir, disk, sealed, cache, copyOf, mixed, job>>

\* create_contract_dir: refuses a directory that exists.
\* Mutant: the directory that exists is used again.
CreateDirAgain(i) ==
    /\ dir' = [dir EXCEPT ![i] = "bare"]
    /\ disk' = [disk EXCEPT ![i] = NoStatus]
    /\ sealed' = sealed \ {i}

CreateDir(i) ==
    /\ dir[i] = "none"
    /\ dir' = [dir EXCEPT ![i] = "bare"]
    /\ UNCHANGED <<disk, sealed>>

\* check_layer1, the issuer, and the first effect of Contract::issue.
BeginIssue(i) ==
    /\ job = Idle
    /\ i \notin Foreign
    /\ issuer
    /\ CreateDir(i)
    /\ job' = [Idle EXCEPT !.at = "issue", !.ids = {i}]
    /\ UNCHANGED <<issuer, registered, cache, copyOf, mixed>>

\* Ledger::new and Pile::new.
CreateFiles(i) ==
    /\ job.at \in {"issue", "import"} /\ i \in job.ids
    /\ dir' = [dir EXCEPT ![i] = "there"]
    /\ job' = [job EXCEPT !.at = IF @ = "issue" THEN "define" ELSE "evaluate"]
    /\ UNCHANGED <<issuer, registered, disk, sealed, cache, copyOf, mixed>>

\* The seals of the genesis; the contract is registered and cached.
EndIssue(i) ==
    /\ job.at = "define" /\ i \in job.ids
    /\ sealed' = sealed \union {i}
    /\ registered' = registered \union {i}
    /\ cache' = [cache EXCEPT ![i] = NoStatus]
    /\ copyOf' = [copyOf EXCEPT ![i] = i]
    /\ job' = Idle
    /\ UNCHANGED <<issuer, dir, disk, mixed>>

\* consume, of a contract that is not registered by the header and may be
\* imported: the signature and the network of the articles are checked
\* before the directory is created.
BeginImport(h, i) ==
    /\ job = Idle
    /\ h = i \/ <<h, i>> \in Mismatched
    /\ h \notin registered
    /\ i \notin Foreign
    /\ CreateDir(i)
    /\ job' = [Idle EXCEPT !.at = "import", !.ids = {i}, !.header = {h}]
    /\ UNCHANGED <<issuer, registered, cache, copyOf, mixed>>

\* evaluate_commit without the seal resolver, then registered by the articles
\* and cached by the header.
EndImport(h, i) ==
    /\ job.at = "evaluate" /\ i \in job.ids /\ h \in job.header
    /\ \E s \in Consumed(NoStatus) : /\ disk' = [disk EXCEPT ![i] = s]
                                    /\ cache' = [cache EXCEPT ![h] = s]
    /\ registered' = registered \union {i}
    /\ copyOf' = [copyOf EXCEPT ![h] = i]
    /\ mixed' = IF h = i THEN mixed ELSE mixed \union {h, i}
    /\ job' = Idle
    /\ UNCHANGED <<issuer, dir, sealed>>

\* An error, of the I/O or of the verification: the directory stays, with
\* the witnesses that were included before the error.
FailCreate(i) ==
    /\ job.at \in {"issue", "import", "evaluate"} /\ i \in job.ids
    /\ \/ UNCHANGED disk
       \/ job.at = "evaluate" /\ disk' = [disk EXCEPT ![i] = Included(@)]
    /\ job' = Idle
    /\ UNCHANGED <<issuer, registered, dir, sealed, cache, copyOf, mixed>>

-----------------------------------------------------------------------------
(***************************************************************************)
(* Calls on one contract, through with_contract and with_contract_mut,     *)
(* which load it into the cache.                                           *)
(***************************************************************************)
\* contract_state, contract_articles, contract_call, export, consign: what
\* is modelled here of the contract does not change.
Read(i) ==
    /\ job = Idle
    /\ Available(i)
    /\ cache' = [cache EXCEPT ![i] = Held(i)]
    /\ UNCHANGED <<issuer, registered, dir, disk, sealed, copyOf, mixed, job>>

\* witness_ids: every contract that can be loaded, and no panic.
WitnessIds ==
    /\ job = Idle
    /\ cache' = [i \in Ids |-> IF i \in registered /\ Available(i) THEN Held(i) ELSE cache[i]]
    /\ UNCHANGED <<issuer, registered, dir, disk, sealed, copyOf, mixed, job>>

Include(i) ==
    /\ job = Idle
    /\ Available(i)
    /\ Write(i, Included(Held(i)))
    /\ UNCHANGED <<issuer, registered, dir, sealed, copyOf, mixed, job>>

\* consume, of a registered contract: with the seal resolver.
ConsumeKnown(i) ==
    /\ job = Idle
    /\ i \in registered
    /\ Available(i)
    /\ \E s \in Consumed(Held(i)) : Write(i, s)
    /\ sealed' = sealed \union Files(i)
    /\ UNCHANGED <<issuer, registered, dir, copyOf, mixed, job>>

\* An error leaves the witnesses and the seals read before it.
ConsumeKnownErr(i) ==
    /\ job = Idle
    /\ i \in registered
    /\ Available(i)
    /\ \/ Write(i, Included(Held(i)))
       \/ /\ cache' = [cache EXCEPT ![i] = Held(i)]
          /\ UNCHANGED disk
    /\ sealed' \in {sealed, sealed \union Files(i)}
    /\ UNCHANGED <<issuer, registered, dir, copyOf, mixed, job>>

\* Any of these calls on a contract that is not there.
CallPanics(i) ==
    /\ job = Idle
    /\ ~Available(i)
    /\ Panic

-----------------------------------------------------------------------------
(***************************************************************************)
(* sync: contract after contract, in the order of a hash map, until the    *)
(* first error.                                                            *)
(***************************************************************************)
\* Mutant: the contracts at hand, instead of those of the persistence.
BeginSyncCached(s) ==
    /\ job = Idle
    /\ job' = [Idle EXCEPT !.at = "sync", !.ids = {i \in Ids : IsCached(i)}, !.status = s]
    /\ UNCHANGED <<issuer, registered, dir, disk, sealed, cache, copyOf, mixed>>

BeginSync(s) ==
    /\ job = Idle
    /\ job' = [Idle EXCEPT !.at = "sync", !.ids = registered, !.status = s]
    /\ UNCHANGED <<issuer, registered, dir, disk, sealed, cache, copyOf, mixed>>

Synced(i) == IF Held(i) = NoStatus THEN NoStatus ELSE job.status

\* Mutant: returns early when no status has changed.
SyncOneIfChanged(i) ==
    /\ job.at = "sync" /\ i \in job.ids
    /\ Available(i)
    /\ cache' = [cache EXCEPT ![i] = Synced(i)]
    /\ IF Held(i) = Synced(i) THEN UNCHANGED disk ELSE WriteDisk(i, Synced(i))
    /\ job' = [job EXCEPT !.ids = @ \ {i}]
    /\ UNCHANGED <<issuer, registered, dir, sealed, copyOf, mixed>>

\* Contract::sync, which commits the pile whether a status changed or not.
SyncOne(i) ==
    /\ job.at = "sync" /\ i \in job.ids
    /\ Available(i)
    /\ Write(i, Synced(i))
    /\ job' = [job EXCEPT !.ids = @ \ {i}]
    /\ UNCHANGED <<issuer, registered, dir, sealed, copyOf, mixed>>

\* The rollback or the re-application of its operations fails: before the
\* pile is committed, or after.
SyncErr(i) ==
    /\ job.at = "sync" /\ i \in job.ids
    /\ Available(i)
    /\ cache' = [cache EXCEPT ![i] = Synced(i)]
    /\ UNCHANGED disk \/ WriteDisk(i, Synced(i))
    /\ job' = Idle
    /\ UNCHANGED <<issuer, registered, dir, sealed, copyOf, mixed>>

SyncPanics(i) ==
    /\ job.at = "sync" /\ i \in job.ids
    /\ ~Available(i)
    /\ Panic

EndSync ==
    /\ job.at = "sync" /\ job.ids = {}
    /\ job' = Idle
    /\ UNCHANGED <<issuer, registered, dir, disk, sealed, cache, copyOf, mixed>>

-----------------------------------------------------------------------------
(***************************************************************************)
(* purge drops the cached contract before its directory, which may be      *)
(* removed only in part.  The registry keeps the identifier.               *)
(***************************************************************************)
Uncache(i) ==
    /\ cache' = [cache EXCEPT ![i] = NotCached]
    /\ copyOf' = [copyOf EXCEPT ![i] = i]

\* Mutant: the directory first, and an error returns before the cache.
PurgeDirFirst(i) ==
    /\ job = Idle
    /\ i \in registered \intersect Purgeable
    /\ \/ /\ dir' = [dir EXCEPT ![i] = "none"]
          /\ Uncache(i)
       \/ /\ dir' = [dir EXCEPT ![i] = IF @ = "there" THEN "bare" ELSE @]
          /\ UNCHANGED <<cache, copyOf>>
    /\ disk' = [disk EXCEPT ![i] = NoStatus]
    /\ sealed' = sealed \ {i}
    /\ UNCHANGED <<issuer, registered, mixed, job>>

Purge(i) ==
    /\ job = Idle
    /\ i \in registered \intersect Purgeable
    /\ Uncache(i)
    /\ dir' = [dir EXCEPT ![i] = "none"]
    /\ disk' = [disk EXCEPT ![i] = NoStatus]
    /\ sealed' = sealed \ {i}
    /\ UNCHANGED <<issuer, registered, mixed, job>>

\* The identifier is not registered, or remove_dir_all fails at once, or
\* after some files are gone.
PurgeErr(i) ==
    /\ job = Idle
    /\ i \in Purgeable
    /\ Uncache(i)
    /\ \/ UNCHANGED <<dir, disk, sealed>>
       \/ /\ i \in registered
          /\ dir' = [dir EXCEPT ![i] = IF @ = "there" THEN "bare" ELSE @]
          /\ disk' = [disk EXCEPT ![i] = NoStatus]
          /\ sealed' = sealed \ {i}
    /\ UNCHANGED <<issuer, registered, mixed, job>>

\* The process ends or has panicked; StockpileDir::load lists directories.
Restart ==
    /\ registered' = {i \in Ids : dir[i] # "none"}
    /\ cache' = [i \in Ids |-> NotCached]
    /\ copyOf' = [i \in Ids |-> i]
    /\ mixed' = {}
    /\ job' = Idle
    /\ UNCHANGED <<issuer, dir, disk, sealed>>

Next ==
    \/ ImportIssuer
    \/ \E i \in Ids : BeginIssue(i)
    \/ \E i \in Ids : EndIssue(i)
    \/ \E h, i \in Ids : BeginImport(h, i)
    \/ \E i \in Ids : CreateFiles(i)
    \/ \E h, i \in Ids : EndImport(h, i)
    \/ \E i \in Ids : FailCreate(i)
    \/ \E i \in Ids : Read(i)
    \/ WitnessIds
    \/ \E i \in Ids : Include(i)
    \/ \E i \in Ids : ConsumeKnown(i)
    \/ \E i \in Ids : ConsumeKnownErr(i)
    \/ \E i \in Ids : CallPanics(i)
    \/ \E s \in Reported : BeginSync(s)
    \/ \E i \in Ids : SyncOne(i)
    \/ \E i \in Ids : SyncErr(i)
    \/ \E i \in Ids : SyncPanics(i)
    \/ EndSync
    \/ \E i \in Ids : Purge(i)
    \/ \E i \in Ids : PurgeErr(i)
    \/ Restart

Spec == Init /\ [][Next]_vars

-----------------------------------------------------------------------------
(***************************************************************************)
(* A contract in memory is one a restart would find and load: it is        *)
(* registered, all of its files are there, and it is of this network;      *)
(* through failed creations, purges that fail half way and panics.  Only a *)
(* consignment whose articles are not those its header announces breaks    *)
(* this, and for no contract but the two it names.                         *)
(***************************************************************************)
CacheBacked ==
    \A i \in Ids \ mixed :
        IsCached(i) => i \in registered \ Foreign /\ dir[i] = "there" /\ copyOf[i] = i

(***************************************************************************)
(* When sync returns without an error, every registered contract that      *)
(* knows the witness holds the new status, also those that were not in     *)
(* memory, and holds it on disk: after an earlier sync that failed between *)
(* the two as well.  Contracts of a mismatched consignment are left out.   *)
(***************************************************************************)
SyncReachesDisk ==
    [][EndSync => \A i \in registered \ mixed : /\ disk[i] \in {job.status, NoStatus}
                                                /\ Held(i) = disk[i]]_vars

(***************************************************************************)
(* The files of a contract, what they hold of the witness and the seals    *)
(* are lost in no step but the purge of that contract: a repeated import   *)
(* never writes over a directory, known to the registry or not.  What two  *)
(* copies of one contract make of a status is not asked.                   *)
(***************************************************************************)
OnlyPurgeLoses ==
    [][\A i \in Ids :
          \/ dir[i] = "there" /\ dir'[i] # "there"
          \/ i \notin mixed /\ disk[i] # NoStatus /\ disk'[i] = NoStatus
          \/ i \in sealed \ sealed'
          => Purge(i) \/ PurgeErr(i)]_vars

-----------------------------------------------------------------------------
(***************************************************************************)
(* What the documentation says, and the code does not do.                  *)
(***************************************************************************)

(***************************************************************************)
(* The calls on a contract panic "If the contract id is not known".  After *)
(* an import that failed and a restart the identifier is known             *)
(* (has_contract), and yet they panic, sync of all contracts among them.   *)
(***************************************************************************)
KnownUsable == \A i \in registered : Available(i)

(***************************************************************************)
(* consume: "resolves auth tokens into seal definitions known to the       *)
(* current wallet".  It does not when it imports the contract.             *)
(***************************************************************************)
ConsumeResolves ==
    [][\A h, i \in Ids : EndImport(h, i) \/ ConsumeKnown(i) => i \in sealed']_vars
=============================================================================
