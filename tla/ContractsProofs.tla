--------------------------- MODULE ContractsProofs ---------------------------
(***************************************************************************)
(* Proofs about Contracts, for any contracts, networks and statuses: what  *)
(* is in memory is on disk, and what is on disk stays there, also beside    *)
(* contracts that a mismatched consignment has mixed up.                   *)
(***************************************************************************)
EXTENDS Contracts, TLAPS

(***************************************************************************)
(* The inductive invariant.  CacheBacked is not inductive alone: a         *)
(* creation writes files and caches the contract in steps of its own, so   *)
(* what its directory holds in between is needed, and that no call has     *)
(* cached the contract meanwhile.  And a contract that was mixed up with   *)
(* another one must not write to the files of a third (Apart).             *)
(***************************************************************************)
Apart ==
    /\ \A i \in Ids \ mixed : copyOf[i] = i
    /\ \A i \in mixed : copyOf[i] \in mixed

Creating ==
    \A i \in job.ids :
        /\ job.at \in {"issue", "import"} => dir[i] = "bare"
        /\ job.at \in {"define", "evaluate"} => dir[i] = "there" /\ disk[i] = NoStatus
        /\ job.at \in {"issue", "import", "define", "evaluate"} =>
               job.ids = {i} /\ (i \notin mixed => ~IsCached(i)) /\ i \notin Foreign

\* Memory and disk agree on whether the witness is known.
CacheKnows ==
    \A i \in Ids \ mixed : IsCached(i) => (cache[i] = NoStatus <=> disk[i] = NoStatus)

\* A sync has brought the contracts it is done with to disk.
Syncing ==
    job.at = "sync" =>
        /\ job.status # NoStatus
        /\ \A i \in (registered \ job.ids) \ mixed :
               disk[i] \in {job.status, NoStatus} /\ (IsCached(i) => cache[i] = disk[i])

IInv == TypeOK /\ Apart /\ CacheBacked /\ Creating /\ CacheKnows /\ Syncing

-----------------------------------------------------------------------------
\* The two values that stand for nothing are told from each other and from
\* every status.
LEMMA StatusFacts ==
    /\ NoStatus \in Statuses /\ Tentative \in Statuses /\ Tentative # NoStatus
    /\ NotCached \notin Statuses
    /\ Reported \subseteq Statuses /\ NoStatus \notin Reported
<1>1. ASSUME NEW s \in DistinctStatus PROVE s.kind # "None" /\ s.kind # "not cached"
  <2>1. CASE s \in {Genesis, Tentative, Offchain, Archived}
    <3>1. s.kind \in {"Genesis", "Tentative", "Offchain", "Archived"}
      BY <2>1 DEF Genesis, Tentative, Offchain, Archived
    <3>2. QED
      BY <3>1
  <2>2. CASE \E h \in 1 .. OFFCHAIN - 1 : s = Mined(h)
    BY <2>2 DEF Mined
  <2>3. QED
    BY <2>1, <2>2 DEF DistinctStatus
<1>2. NoStatus.kind = "None" /\ NotCached.kind = "not cached"
  BY DEF NoStatus, NotCached
<1>3. Tentative \in DistinctStatus /\ Tentative # Genesis
  BY DEF DistinctStatus, Genesis, Tentative
<1>4. NoStatus \notin DistinctStatus /\ NotCached \notin DistinctStatus
  BY <1>1, <1>2
<1>5. NotCached # NoStatus
  BY <1>2
<1>6. QED
  BY <1>3, <1>4, <1>5, ContractsAssumption DEF Statuses

\* What a call sees is a status, and it is none exactly when none is on disk.
LEMMA HeldFacts ==
    ASSUME TypeOK, CacheKnows, NEW i \in Ids
    PROVE  /\ Held(i) \in Statuses
           /\ i \notin mixed => (Held(i) = NoStatus <=> disk[i] = NoStatus)
           /\ Included(Held(i)) \in Statuses /\ Included(Held(i)) # NoStatus
  BY StatusFacts DEF TypeOK, CacheKnows, Held, IsCached, Included

\* A contract that a call can use has all of its files and is of this network.
LEMMA AvailableBacked ==
    ASSUME CacheBacked, NEW i \in Ids \ mixed, Available(i)
    PROVE  i \in registered \ Foreign /\ dir[i] = "there"
  BY DEF CacheBacked, Available, Loadable

\* Such a contract writes to its own files, and one that was mixed up to the
\* files of one that was.
LEMMA FilesApart ==
    ASSUME TypeOK, Apart, CacheBacked, NEW i \in Ids
    PROVE  /\ Files(i) \subseteq {j \in Ids : dir[j] = "there"}
           /\ i \in mixed => Files(i) \subseteq mixed
           /\ i \notin mixed => Files(i) \subseteq {i}
           /\ i \notin mixed /\ Available(i) => Files(i) = {i}
<1>1. copyOf[i] \in Ids
  BY DEF TypeOK
<1>2. i \in mixed => copyOf[i] \in mixed
  BY DEF Apart
<1>3. i \notin mixed => copyOf[i] = i
  BY DEF Apart
<1>4. i \notin mixed /\ Available(i) => dir[i] = "there"
  BY AvailableBacked
<1>5. QED
  BY <1>1, <1>2, <1>3, <1>4 DEF Files

(***************************************************************************)
(* A call on a contract caches it, and writes to its files or does not:    *)
(* what it leaves keeps the invariant but for the call half way.  A witness *)
(* that is known stays known.                                              *)
(***************************************************************************)
Touch(i, s) ==
    /\ cache' = [cache EXCEPT ![i] = s]
    /\ disk' \in [Ids -> Statuses]
    /\ \A j \in Ids \ Files(i) : disk'[j] = disk[j]
    /\ i \notin mixed => /\ s = NoStatus <=> disk'[i] = NoStatus
                         /\ s = NoStatus => disk[i] = NoStatus
    /\ sealed' \in {sealed, sealed \union Files(i)}
    /\ UNCHANGED <<issuer, registered, dir, copyOf, mixed>>

LEMMA TouchKeeps ==
    ASSUME IInv, NEW i \in Ids, Available(i), NEW s \in Statuses, Touch(i, s),
           job' \in [at : {"idle", "sync"}, ids : SUBSET Ids, header : SUBSET Ids, status : Statuses]
    PROVE  TypeOK' /\ Apart' /\ CacheBacked' /\ Creating' /\ CacheKnows'
<1>1. i \notin mixed => i \in registered \ Foreign /\ dir[i] = "there"
  BY AvailableBacked DEF IInv
<1>2. /\ Files(i) \subseteq {j \in Ids : dir[j] = "there"}
      /\ i \in mixed => Files(i) \subseteq mixed
      /\ i \notin mixed => Files(i) \subseteq {i}
  BY FilesApart DEF IInv
<1>3. \A j \in Ids : j # i => cache'[j] = cache[j]
  BY DEF IInv, TypeOK, Touch
<1>4. cache'[i] = s /\ s # NotCached
  BY StatusFacts DEF IInv, TypeOK, Touch
<1>5. \A j \in Ids \ mixed : j # i => disk'[j] = disk[j]
  BY <1>2 DEF Touch
<1>6. TypeOK'
  <2>1. cache' \in [Ids -> Statuses \union {NotCached}]
    BY DEF IInv, TypeOK, Touch
  <2>2. \A j \in Ids : dir'[j] # "there" => disk'[j] = NoStatus /\ j \notin sealed'
    BY <1>2 DEF IInv, TypeOK, Touch
  <2>3. QED
    BY <1>2, <2>1, <2>2 DEF IInv, TypeOK, Touch
<1>7. Apart'
  BY DEF IInv, Apart, Touch
<1>8. CacheBacked'
  BY <1>1, <1>3 DEF IInv, CacheBacked, IsCached, Touch, Apart
<1>9. CacheKnows'
  BY <1>3, <1>4, <1>5 DEF IInv, CacheKnows, IsCached, Touch
<1>10. Creating'
  BY DEF Creating
<1>11. QED
  BY <1>6, <1>7, <1>8, <1>9, <1>10

\* Init has no files but those of other networks.
LEMMA InitInv == Init => IInv
<1> SUFFICES ASSUME Init PROVE IInv
  OBVIOUS
<1>1. TypeOK
  BY StatusFacts, ContractsAssumption DEF Init, TypeOK, Idle
<1>2. \A i \in Ids : ~IsCached(i)
  BY DEF Init, IsCached
<1>3. QED
  BY <1>1, <1>2 DEF Init, IInv, Apart, CacheBacked, Creating, CacheKnows, Syncing, Idle

\* The steps of a creation.
LEMMA CreationInv ==
    ASSUME IInv, NEW i \in Ids,
           NEW h \in Ids,
           \/ BeginIssue(i) \/ EndIssue(i) \/ BeginImport(h, i)
           \/ CreateFiles(i) \/ EndImport(h, i) \/ FailCreate(i)
    PROVE  IInv'
<1> USE DEF IInv
<1>1. ASSUME BeginIssue(i) \/ BeginImport(h, i) PROVE IInv'
  <2>1. /\ dir[i] = "none" /\ dir' = [dir EXCEPT ![i] = "bare"] /\ i \notin Foreign
        /\ job'.at \in {"issue", "import"} /\ job'.ids = {i} /\ job'.status = NoStatus
        /\ job' \in [at : {"issue", "import"}, ids : SUBSET Ids, header : SUBSET Ids, status : Statuses]
        /\ UNCHANGED <<issuer, registered, disk, sealed, cache, copyOf, mixed>>
    <3>1. NoStatus \in Statuses
      BY StatusFacts
    <3>2. CASE BeginIssue(i)
      BY <3>1, <3>2 DEF BeginIssue, CreateDir, Idle
    <3>3. CASE BeginImport(h, i)
      BY <3>1, <3>3 DEF BeginImport, CreateDir, Idle
    <3>4. QED
      BY <1>1, <3>2, <3>3
  <2>2. TypeOK'
    BY <2>1 DEF TypeOK
  <2>3. i \notin mixed => ~IsCached(i)
    BY <2>1 DEF CacheBacked
  <2>4. QED
    BY <2>1, <2>2, <2>3 DEF TypeOK, Apart, CacheBacked, Creating, CacheKnows, Syncing, IsCached
<1>2. ASSUME CreateFiles(i) PROVE IInv'
  <2>1. /\ dir[i] = "bare" /\ dir' = [dir EXCEPT ![i] = "there"]
        /\ job'.at \in {"define", "evaluate"} /\ job'.ids = job.ids
        /\ job' \in [at : {"define", "evaluate"}, ids : SUBSET Ids, header : SUBSET Ids, status : Statuses]
        /\ UNCHANGED <<issuer, registered, disk, sealed, cache, copyOf, mixed>>
    BY <1>2 DEF CreateFiles, TypeOK, Creating
  <2>2. \A j \in job.ids : dir[j] = "bare" /\ (j \notin mixed => ~IsCached(j)) /\ j \notin Foreign
    BY <1>2 DEF CreateFiles, Creating
  <2>3. TypeOK'
    BY <2>1 DEF TypeOK
  <2>4. Apart' /\ CacheBacked' /\ CacheKnows' /\ Syncing'
    BY <2>1 DEF TypeOK, Apart, CacheBacked, CacheKnows, Syncing, IsCached
  <2>5. job.ids = {i} /\ disk[i] = NoStatus
    BY <1>2, <2>1 DEF CreateFiles, TypeOK, Creating
  <2>6. Creating'
    BY <2>1, <2>2, <2>5 DEF TypeOK, Creating, IsCached
  <2>7. QED
    BY <2>3, <2>4, <2>6
<1>3. ASSUME EndIssue(i) \/ EndImport(h, i) PROVE IInv'
  <2>1. PICK k \in Ids, s \in Statuses :
           /\ cache' = [cache EXCEPT ![k] = s]
           /\ disk' = [disk EXCEPT ![i] = s]
           /\ copyOf' = [copyOf EXCEPT ![k] = i]
           /\ mixed' = IF k = i THEN mixed ELSE mixed \union {k, i}
    BY <1>3, StatusFacts DEF EndIssue, EndImport, Consumed, Included, Creating, TypeOK
  <2>2. /\ i \notin Foreign /\ dir[i] = "there"
        /\ registered' = registered \union {i}
        /\ sealed' \in {sealed, sealed \union {i}}
        /\ job' = Idle
        /\ UNCHANGED <<issuer, dir>>
    BY <1>3 DEF EndIssue, EndImport, Creating
  <2>3. TypeOK'
    BY <2>1, <2>2, StatusFacts DEF TypeOK, Idle
  <2>4. \A j \in Ids \ mixed' :
           /\ j # i => disk'[j] = disk[j]
           /\ j # k => cache'[j] = cache[j] /\ copyOf'[j] = copyOf[j]
           /\ j # i => j # k
           /\ j = i => j = k
    BY <2>1 DEF TypeOK
  <2>5. mixed \subseteq mixed' /\ disk'[i] = s /\ cache'[k] = s /\ copyOf'[k] = i
    BY <2>1 DEF TypeOK
  <2>6. Apart'
    <3>1. \A j \in Ids \ mixed' : copyOf'[j] = j
      BY <2>4, <2>5 DEF Apart
    <3>2. \A j \in mixed' : copyOf'[j] \in mixed'
      BY <2>1 DEF Apart, TypeOK
    <3>3. QED
      BY <3>1, <3>2 DEF Apart
  <2>7. CacheBacked'
    BY <2>2, <2>4, <2>5, <2>6 DEF CacheBacked, IsCached, Apart
  <2>8. CacheKnows'
    BY <2>4, <2>5 DEF CacheKnows, IsCached
  <2>9. QED
    BY <2>2, <2>3, <2>6, <2>7, <2>8 DEF Creating, Syncing, Idle
<1>4. ASSUME FailCreate(i) PROVE IInv'
  <2>1. /\ i \notin mixed => ~IsCached(i)
        /\ \/ disk' = disk
           \/ dir[i] = "there" /\ disk' = [disk EXCEPT ![i] = Included(@)]
        /\ job' = Idle
        /\ UNCHANGED <<issuer, registered, dir, sealed, cache, copyOf, mixed>>
    BY <1>4 DEF FailCreate, Creating
  <2>2. Included(disk[i]) \in Statuses
    BY StatusFacts DEF TypeOK, Included
  <2>3. TypeOK'
    BY <2>1, <2>2, StatusFacts DEF TypeOK, Idle
  <2>4. QED
    BY <2>1, <2>2, <2>3 DEF TypeOK, Apart, CacheBacked, Creating, CacheKnows, Syncing, IsCached, Idle
<1>5. QED
  BY <1>1, <1>2, <1>3, <1>4

\* What is written to the files of a contract.
LEMMA WriteFacts ==
    ASSUME IInv, NEW i \in Ids, Available(i), NEW t \in Statuses, WriteDisk(i, t)
    PROVE  /\ disk' \in [Ids -> Statuses] /\ \A j \in Ids \ Files(i) : disk'[j] = disk[j]
           /\ i \notin mixed => disk'[i] = t
<1>1. disk \in [Ids -> Statuses] /\ copyOf[i] \in Ids /\ NoStatus \in Statuses
  BY StatusFacts DEF IInv, TypeOK
<1>2. PICK u \in {t, disk[copyOf[i]], NoStatus} :
         /\ disk' = [j \in Ids |-> IF j \in Files(i) THEN u ELSE disk[j]]
         /\ i \notin mixed => u = t
  BY DEF WriteDisk
<1>3. u \in Statuses
  BY <1>1, <1>2
<1>4. i \notin mixed => i \in Files(i)
  BY FilesApart DEF IInv
<1>5. QED
  BY <1>1, <1>2, <1>3, <1>4

\* What a call on one contract writes.
LEMMA CallTouches ==
    ASSUME IInv, NEW i \in Ids,
           Read(i) \/ Include(i) \/ ConsumeKnown(i) \/ ConsumeKnownErr(i)
    PROVE  Available(i) /\ job = Idle /\ job' = Idle /\ \E s \in Statuses : Touch(i, s)
<1>1. /\ Held(i) \in Statuses /\ (i \notin mixed => (Held(i) = NoStatus <=> disk[i] = NoStatus))
      /\ Included(Held(i)) \in Statuses /\ Included(Held(i)) # NoStatus
  BY HeldFacts DEF IInv
<1>2. ASSUME Available(i), NEW t \in Statuses, WriteDisk(i, t)
      PROVE  /\ disk' \in [Ids -> Statuses] /\ \A j \in Ids \ Files(i) : disk'[j] = disk[j]
             /\ i \notin mixed => disk'[i] = t
  BY <1>2, WriteFacts
<1>3. CASE Read(i)
  BY <1>1, <1>3 DEF Read, Touch, IInv, TypeOK
<1>4. CASE Include(i)
  BY <1>1, <1>2, <1>4 DEF Include, Write, Touch
<1>5. CASE ConsumeKnown(i)
  <2>1. PICK t \in Consumed(Held(i)) : Write(i, t)
    BY <1>5 DEF ConsumeKnown
  <2>2. t \in Statuses /\ (t = NoStatus => Held(i) = NoStatus)
    BY <1>1, <2>1 DEF Consumed
  <2>3. Touch(i, t)
    BY <1>1, <1>2, <1>5, <2>1, <2>2 DEF ConsumeKnown, Write, Touch
  <2>4. QED
    BY <1>5, <2>2, <2>3 DEF ConsumeKnown
<1>6. CASE ConsumeKnownErr(i)
  <2>1. CASE Write(i, Included(Held(i)))
    BY <1>1, <1>2, <1>6, <2>1 DEF ConsumeKnownErr, Write, Touch
  <2>2. CASE cache' = [cache EXCEPT ![i] = Held(i)] /\ UNCHANGED disk
    BY <1>1, <1>6, <2>2 DEF ConsumeKnownErr, Touch, IInv, TypeOK
  <2>3. QED
    BY <1>6, <2>1, <2>2 DEF ConsumeKnownErr
<1>7. QED
  BY <1>3, <1>4, <1>5, <1>6

\* What the sync of one contract writes.
LEMMA SyncTouches ==
    ASSUME IInv, NEW i \in Ids, SyncOne(i) \/ SyncErr(i)
    PROVE  /\ Available(i) /\ Synced(i) \in {job.status, NoStatus} /\ Touch(i, Synced(i))
           /\ Synced(i) \in Statuses
<1>1. job.status \in Statuses /\ job.status # NoStatus
  BY DEF IInv, TypeOK, Syncing, SyncOne, SyncErr
<1>2. Held(i) \in Statuses /\ (i \notin mixed => (Held(i) = NoStatus <=> disk[i] = NoStatus))
  BY HeldFacts DEF IInv
<1>3. Synced(i) \in Statuses /\ (i \notin mixed => (Synced(i) = NoStatus <=> disk[i] = NoStatus))
  BY <1>1, <1>2, StatusFacts DEF Synced
<1>4. Synced(i) \in {job.status, NoStatus}
  BY DEF Synced
<1>5. Available(i) /\ cache' = [cache EXCEPT ![i] = Synced(i)]
      /\ (UNCHANGED disk \/ WriteDisk(i, Synced(i)))
      /\ UNCHANGED <<issuer, registered, dir, sealed, copyOf, mixed>>
  BY DEF SyncOne, SyncErr, Write
<1>6. CASE UNCHANGED disk
  BY <1>3, <1>4, <1>5, <1>6 DEF Touch, IInv, TypeOK
<1>7. CASE WriteDisk(i, Synced(i))
  <2>1. /\ disk' \in [Ids -> Statuses] /\ \A j \in Ids \ Files(i) : disk'[j] = disk[j]
        /\ i \notin mixed => disk'[i] = Synced(i)
    BY <1>3, <1>5, <1>7, WriteFacts
  <2>2. QED
    BY <1>3, <1>4, <1>5, <2>1 DEF Touch
<1>8. QED
  BY <1>5, <1>6, <1>7

\* Calls on one contract and the steps of a sync.
LEMMA CallInv ==
    ASSUME IInv, NEW i \in Ids,
           \/ Read(i) \/ Include(i) \/ ConsumeKnown(i) \/ ConsumeKnownErr(i)
           \/ SyncOne(i) \/ SyncErr(i)
    PROVE  IInv'
<1>1. CASE Read(i) \/ Include(i) \/ ConsumeKnown(i) \/ ConsumeKnownErr(i)
  <2>1. Available(i) /\ job' = Idle /\ \E s \in Statuses : Touch(i, s)
    BY <1>1, CallTouches
  <2>2. job' \in [at : {"idle", "sync"}, ids : SUBSET Ids, header : SUBSET Ids, status : Statuses]
    BY <2>1, StatusFacts DEF Idle
  <2>3. QED
    BY <2>1, <2>2, TouchKeeps DEF IInv, Syncing, Idle
<1>2. CASE SyncErr(i)
  <2>1. job' = Idle
    BY <1>2 DEF SyncErr
  <2>2. job' \in [at : {"idle", "sync"}, ids : SUBSET Ids, header : SUBSET Ids, status : Statuses]
    BY <2>1, StatusFacts DEF Idle
  <2>3. QED
    BY <1>2, <2>1, <2>2, SyncTouches, TouchKeeps DEF IInv, Syncing, Idle
<1>3. CASE SyncOne(i)
  <2>1. /\ job.at = "sync" /\ job' = [job EXCEPT !.ids = @ \ {i}]
        /\ WriteDisk(i, Synced(i)) /\ cache' = [cache EXCEPT ![i] = Synced(i)]
        /\ registered' = registered /\ mixed' = mixed /\ Available(i)
    BY <1>3 DEF SyncOne, Write
  <2>2. job' \in [at : {"idle", "sync"}, ids : SUBSET Ids, header : SUBSET Ids, status : Statuses]
    BY <2>1 DEF IInv, TypeOK
  <2>3. TypeOK' /\ Apart' /\ CacheBacked' /\ Creating' /\ CacheKnows'
    BY <1>3, <2>2, SyncTouches, TouchKeeps
  <2>4. Syncing'
    <3>1. /\ cache \in [Ids -> Statuses \union {NotCached}]
          /\ registered \subseteq Ids /\ job'.status = job.status /\ job'.ids = job.ids \ {i}
      BY <2>1 DEF IInv, TypeOK
    <3>2. Synced(i) \in {job.status, NoStatus} /\ Synced(i) \in Statuses
      BY <1>3, SyncTouches
    <3>3. \A j \in Ids \ mixed : j # i => disk'[j] = disk[j] /\ cache'[j] = cache[j]
      <4>1. i \in mixed => Files(i) \subseteq mixed
        BY FilesApart DEF IInv
      <4>2. i \notin mixed => Files(i) \subseteq {i}
        BY FilesApart DEF IInv
      <4>3. \A j \in Ids \ Files(i) : disk'[j] = disk[j]
        BY <2>1, <3>2, WriteFacts
      <4>4. QED
        BY <2>1, <3>1, <4>1, <4>2, <4>3
    <3>4. i \notin mixed => disk'[i] = Synced(i) /\ cache'[i] = Synced(i)
      BY <2>1, <3>1, <3>2, WriteFacts
    <3>5. \A j \in (registered \ job'.ids) \ mixed :
             disk'[j] \in {job.status, NoStatus} /\ (IsCached(j)' => cache'[j] = disk'[j])
      BY <2>1, <3>1, <3>2, <3>3, <3>4 DEF IInv, Syncing, IsCached
    <3>6. QED
      BY <2>1, <3>1, <3>5 DEF IInv, Syncing
  <2>5. QED
    BY <2>3, <2>4 DEF IInv
<1>4. QED
  BY <1>1, <1>2, <1>3

\* Every step keeps the invariant.
LEMMA NextInv == IInv /\ [Next]_vars => IInv'
<1> SUFFICES ASSUME IInv, [Next]_vars PROVE IInv'
  OBVIOUS
<1> USE DEF IInv
<1>1. CASE ImportIssuer \/ UNCHANGED vars
  <2>1. issuer' \in BOOLEAN /\ UNCHANGED <<registered, dir, disk, sealed, cache, copyOf, mixed, job>>
    BY <1>1 DEF ImportIssuer, vars, TypeOK
  <2>2. QED
    BY <2>1 DEF TypeOK, Apart, CacheBacked, Creating, CacheKnows, Syncing, IsCached
<1>2. ASSUME NEW h \in Ids, NEW i \in Ids,
             \/ BeginIssue(i) \/ EndIssue(i) \/ BeginImport(h, i)
             \/ CreateFiles(i) \/ EndImport(h, i) \/ FailCreate(i)
      PROVE  IInv'
  BY <1>2, CreationInv
<1>3. ASSUME NEW i \in Ids,
             \/ Read(i) \/ Include(i) \/ ConsumeKnown(i) \/ ConsumeKnownErr(i)
             \/ SyncOne(i) \/ SyncErr(i)
      PROVE  IInv'
  BY <1>3, CallInv
<1>4. CASE WitnessIds
  <2>1. \A i \in Ids : /\ Held(i) \in Statuses
                       /\ i \notin mixed => (Held(i) = NoStatus <=> disk[i] = NoStatus)
    BY HeldFacts
  <2>2. \A i \in Ids \ mixed : Available(i) => i \in registered \ Foreign /\ dir[i] = "there"
    BY AvailableBacked
  <2>3. job.at = "idle" /\ job.ids = {}
    BY <1>4 DEF WitnessIds, Idle
  <2>4. QED
    BY <1>4, <2>1, <2>2, <2>3
       DEF WitnessIds, TypeOK, Apart, CacheBacked, Creating, CacheKnows, Syncing, IsCached
<1>5. CASE \E i \in Ids : CallPanics(i) \/ SyncPanics(i)
  <2>1. Panic
    BY <1>5 DEF CallPanics, SyncPanics
  <2>2. QED
    BY <2>1, StatusFacts
       DEF Panic, Dead, Idle, TypeOK, Apart, CacheBacked, Creating, CacheKnows, Syncing, IsCached
<1>6. CASE \E s \in Reported : BeginSync(s)
  <2>1. PICK s \in Reported : BeginSync(s) BY <1>6
  <2>2. s \in Statuses /\ s # NoStatus BY StatusFacts
  <2>3. /\ job' = [at |-> "sync", ids |-> registered, header |-> {}, status |-> s]
        /\ UNCHANGED <<issuer, registered, dir, disk, sealed, cache, copyOf, mixed>>
    BY <2>1 DEF BeginSync, Idle
  <2>4. TypeOK'
    BY <2>2, <2>3 DEF TypeOK
  <2>5. QED
    BY <2>2, <2>3, <2>4 DEF TypeOK, Apart, CacheBacked, Creating, CacheKnows, Syncing, IsCached
<1>7. CASE EndSync
  BY <1>7, StatusFacts
     DEF EndSync, Idle, TypeOK, Apart, CacheBacked, Creating, CacheKnows, Syncing, IsCached
<1>8. ASSUME NEW i \in Ids, Purge(i) \/ PurgeErr(i) PROVE IInv'
  <2>1. /\ job = Idle /\ job' = Idle /\ UNCHANGED <<issuer, registered, mixed>>
        /\ cache' = [cache EXCEPT ![i] = NotCached] /\ copyOf' = [copyOf EXCEPT ![i] = i]
        /\ \/ UNCHANGED <<dir, disk, sealed>>
           \/ /\ \E d \in {"none", "bare"} : dir' = [dir EXCEPT ![i] = d]
              /\ disk' = [disk EXCEPT ![i] = NoStatus]
              /\ sealed' = sealed \ {i}
    <3>1. dir[i] \in {"none", "bare", "there"}
      BY DEF TypeOK
    <3>2. QED
      BY <1>8, <3>1 DEF Purge, PurgeErr, Uncache
  <2>2. TypeOK'
    BY <2>1, StatusFacts DEF TypeOK
  <2>3. \A j \in Ids : j # i => cache'[j] = cache[j] /\ disk'[j] = disk[j] /\ dir'[j] = dir[j]
                                 /\ copyOf'[j] = copyOf[j]
    BY <2>1 DEF TypeOK
  <2>4. ~IsCached(i)' /\ copyOf'[i] = i
    BY <2>1 DEF TypeOK, IsCached
  <2>5. QED
    BY <2>1, <2>2, <2>3, <2>4 DEF Apart, CacheBacked, Creating, CacheKnows, Syncing, IsCached, Idle
<1>9. CASE Restart
  <2>1. \A i \in Ids : ~IsCached(i)'
    BY <1>9 DEF Restart, IsCached
  <2>2. TypeOK'
    BY <1>9, StatusFacts DEF Restart, TypeOK, Idle
  <2>3. QED
    BY <1>9, <2>1, <2>2 DEF Restart, Apart, CacheBacked, Creating, CacheKnows, Syncing, Idle
<1>10. QED
  BY <1>1, <1>2, <1>3, <1>4, <1>5, <1>6, <1>7, <1>8, <1>9 DEF Next

\* The invariant holds always.
LEMMA SpecInv == Spec => []IInv
<1>1. QED
  BY InitInv, NextInv, PTL DEF Spec

-----------------------------------------------------------------------------
\* Registry, directories and cache keep their shapes, and a contract without
\* all of its files holds neither statuses nor seals.
THEOREM ContractsTypeCorrect == Spec => []TypeOK
<1>1. IInv => TypeOK
  BY DEF IInv
<1>2. QED
  BY <1>1, SpecInv, PTL

\* A contract in memory is one a restart would find and load, whatever has
\* failed or panicked before.
THEOREM CacheIsBacked == Spec => []CacheBacked
<1>1. IInv => CacheBacked
  BY DEF IInv
<1>2. QED
  BY <1>1, SpecInv, PTL

(***************************************************************************)
(* A sync of all contracts that returns without an error has brought the   *)
(* status to the disk of each registered one that knows the witness.       *)
(***************************************************************************)
THEOREM SyncIsDurable == Spec => SyncReachesDisk
<1>1. IInv /\ [Next]_vars =>
      [EndSync => \A i \in registered \ mixed : /\ disk[i] \in {job.status, NoStatus}
                                                /\ Held(i) = disk[i]]_vars
  BY DEF IInv, Syncing, EndSync, Held
<1>2. QED
  BY <1>1, SpecInv, PTL DEF Spec, SyncReachesDisk

\* What a step takes from a contract.
Loses(i) ==
    \/ dir[i] = "there" /\ dir'[i] # "there"
    \/ i \notin mixed /\ disk[i] # NoStatus /\ disk'[i] = NoStatus
    \/ i \in sealed \ sealed'

\* A call on a contract, or its part of a sync, takes nothing from any.
LEMMA TouchKeepsAll ==
    ASSUME IInv, NEW i \in Ids, NEW s \in Statuses, Touch(i, s), NEW j \in Ids
    PROVE  ~Loses(j)
<1>1. i \in mixed => Files(i) \subseteq mixed
  BY FilesApart DEF IInv
<1>2. i \notin mixed => Files(i) \subseteq {i}
  BY FilesApart DEF IInv
<1>3. QED
  BY <1>1, <1>2 DEF Touch, Loses

(***************************************************************************)
(* The files of a contract and what they hold are lost in no step but the  *)
(* purge of that contract.                                                 *)
(***************************************************************************)
THEOREM PurgeAloneLoses == Spec => OnlyPurgeLoses
<1>1. ASSUME IInv, [Next]_vars, NEW j \in Ids, Loses(j)
      PROVE  Purge(j) \/ PurgeErr(j)
  <2> USE <1>1 DEF IInv
  <2>1. ~UNCHANGED <<dir, disk, sealed>>
    BY DEF Loses
  <2>2. ~\E h, i \in Ids : BeginIssue(i) \/ BeginImport(h, i) \/ CreateFiles(i)
    BY DEF BeginIssue, BeginImport, CreateDir, CreateFiles, TypeOK, Loses
  <2>3. ASSUME NEW h \in Ids, NEW i \in Ids, EndIssue(i) \/ EndImport(h, i) PROVE FALSE
    BY <2>3 DEF EndIssue, EndImport, Creating, TypeOK, Loses
  <2>4. ASSUME NEW i \in Ids, FailCreate(i) PROVE FALSE
    <3>1. Included(disk[i]) # NoStatus
      BY StatusFacts DEF Included
    <3>2. QED
      BY <2>4, <3>1 DEF FailCreate, TypeOK, Loses
  <2>5. ASSUME NEW i \in Ids,
               Read(i) \/ Include(i) \/ ConsumeKnown(i) \/ ConsumeKnownErr(i)
        PROVE  FALSE
    BY <2>5, CallTouches, TouchKeepsAll
  <2>6. ASSUME NEW i \in Ids, SyncOne(i) \/ SyncErr(i) PROVE FALSE
    BY <2>6, SyncTouches, TouchKeepsAll
  <2>7. ASSUME NEW i \in Ids, Purge(i) \/ PurgeErr(i), i # j PROVE FALSE
    BY <2>7 DEF Purge, PurgeErr, TypeOK, Loses
  <2>8. QED
    BY <2>1, <2>2, <2>3, <2>4, <2>5, <2>6, <2>7
       DEF Next, vars, ImportIssuer, WitnessIds, CallPanics, SyncPanics, Panic, BeginSync,
           EndSync, Restart
<1>2. IInv /\ [Next]_vars =>
      [\A i \in Ids : Loses(i) => Purge(i) \/ PurgeErr(i)]_vars
  BY <1>1
<1>3. QED
  BY <1>2, SpecInv, PTL DEF Spec, OnlyPurgeLoses, Loses
=============================================================================
