-------------------------- MODULE ConsignmentProofs --------------------------
(***************************************************************************)
(* Proofs about Consignment, for every limit, every largest count and      *)
(* every length of a stream: what is accepted is the whole history, what   *)
(* is stored is a beginning of it, through errors and restarts, and each   *)
(* of the three readers is an OperationSource.                             *)
(***************************************************************************)
EXTENDS Consignment, SequenceTheorems, TLAPS

\* The first n operations of a stream.
Upto(n) == [i \in 1 .. n |-> i - 1]

\* The sequences the readers build are known by their lengths.
LEMMA UptoLength ==
    ASSUME NEW n \in Nat
    PROVE  Upto(n) \in Seq(Nat) /\ Len(Upto(n)) = n
  BY DEF Upto

\* An element of a prefix of the history is its position.
LEMMA UptoElement ==
    ASSUME NEW n \in Nat, NEW i \in 1 .. n
    PROVE  Upto(n)[i] = i - 1
  BY DEF Upto

\* A prefix grows by its length.
LEMMA UptoNext ==
    ASSUME NEW n \in Nat
    PROVE  Append(Upto(n), n) = Upto(n + 1)
  BY UptoLength DEF Upto

\* The empty prefix and the genesis alone.
LEMMA UptoFirst == Upto(0) = <<>> /\ Upto(1) = <<0>>
  BY DEF Upto

\* No more operations than a stream can hold fit into what TypeOK allows.
LEMMA UptoType ==
    ASSUME NEW n \in 0 .. MaxBlocks + 1
    PROVE  Operations(Upto(n))
  BY ConsignmentAssumption DEF Upto, Operations

\* Nothing read yet is a sequence of operations.
LEMMA EmptyType == Operations(<<>>)
<1>1. 0 \in 0 .. MaxBlocks + 1
  BY ConsignmentAssumption
<1>2. QED
  BY <1>1, UptoType, UptoFirst

\* The fields of a file.
LEMMA FileFields ==
    ASSUME NEW f \in Files
    PROVE  /\ f.version \in BOOLEAN /\ f.witness \in BOOLEAN /\ f.articles \in BOOLEAN
           /\ f.blocks \in Nat /\ f.blocks <= MaxBlocks
           /\ f.declared \in Nat /\ f.declared <= U32Max
           /\ f.refused \in Int
  BY ConsignmentAssumption DEF Files, NoBlock

-----------------------------------------------------------------------------
(***************************************************************************)
(* The inductive invariant.  It says, of each reader and of each place of  *)
(* it, what was read so far and how many operations are still awaited: the *)
(* number read and the number awaited make up the number declared.         *)
(***************************************************************************)
Fresh == at \in {"start", "header"} => pos = 0 /\ torn = FALSE /\ held = <<>> /\ given = <<>>

Placed ==
    /\ at \in {"start", "decode", "articles"} => reader = "memory"
    /\ at = "evaluated" => reader \in {"memory", "stream"}
    /\ at = "upgrade" => reader = "stream"

InMemory == reader = "memory" =>
    /\ at = "decode" =>
           /\ Fits /\ torn = FALSE
           /\ pos \in 1 .. file.blocks + 1 /\ held = Upto(pos) /\ given = <<>>
           /\ count = file.declared - (pos - 1)
    /\ at \in {"articles", "ops", "evaluated", "ok"} =>
           Fits /\ file.declared <= file.blocks /\ held = Whole
    /\ at = "articles" => given = <<>>
    /\ at \in {"ops", "evaluated", "ok"} => file.articles
    /\ at = "ops" =>
           \E n \in 0 .. file.declared + 1 : given = Upto(n) /\ file.refused \notin 0 .. n - 1
    /\ at \in {"evaluated", "ok"} => given = Whole /\ file.refused \notin 0 .. file.declared
    /\ given # <<>> => held = Whole /\ file.articles

AsStream == reader = "stream" =>
    /\ held = <<>>
    /\ at = "ops" =>
           pos <= file.blocks + 1 /\ given = Upto(pos) /\ file.refused \notin 0 .. pos - 1
    /\ at = "ops" /\ ~Sentinel =>
           /\ torn = FALSE
           /\ \/ pos = 0 /\ count = U32Max
              \/ pos > 0 /\ count = file.declared - (pos - 1)
    /\ at \in {"evaluated", "upgrade", "ok"} /\ ~Sentinel =>
           /\ given = Whole /\ file.declared <= file.blocks
           /\ file.refused \notin 0 .. file.declared
    /\ at = "ok" => file.articles

AsDump == reader = "dump" =>
    /\ held = <<>>
    /\ at \in {"ops", "ok"} => ~file.witness
    /\ at = "ops" =>
           /\ torn = FALSE
           /\ pos \in 1 .. file.blocks + 1 /\ given = Upto(pos)
           /\ count = file.declared - (pos - 1)
    /\ at = "ok" => given = Whole /\ file.declared <= file.blocks

\* The part of TypeOK about the stores.
StoreType ==
    /\ known \in BOOLEAN /\ begun \in BOOLEAN /\ dumped \in BOOLEAN
    /\ applied \subseteq 0 .. MaxBlocks
    /\ durable \subseteq 0 .. MaxBlocks
    /\ linked \subseteq 0 .. MaxBlocks

\* What the stores hold, through all calls.
Begun == \E a, d, l \in 0 .. MaxBlocks + 1 :
    /\ d <= a /\ a <= l
    /\ applied = 0 .. a - 1 /\ durable = 0 .. d - 1 /\ linked = 0 .. l - 1

Stored ==
    /\ Begun
    /\ file.refused \notin linked
    /\ ~Sentinel => linked \subseteq 0 .. file.declared

\* What they hold of this call.
Evaluated == reader # "dump" =>
    /\ at = "ops" => 0 .. Len(given) - 1 \subseteq applied
    /\ at \in {"evaluated", "upgrade", "ok"} /\ ~Sentinel => applied = 0 .. file.declared
    /\ at \in {"upgrade", "ok"} /\ ~Sentinel => durable = 0 .. file.declared

ReaderInv == TypeOK /\ Fresh /\ Placed /\ InMemory /\ AsStream /\ AsDump

Inv == ReaderInv /\ Stored /\ Evaluated

-----------------------------------------------------------------------------
\* The whole of a history, as a sequence that is read.
LEMMA WholeUpto ==
    ASSUME TypeOK
    PROVE  Whole = Upto(file.declared + 1) /\ Len(Whole) = file.declared + 1 /\ Whole # <<>>
<1>1. file.declared \in Nat
  BY FileFields DEF TypeOK
<1>2. Whole = Upto(file.declared + 1)
  BY <1>1 DEF Whole, Upto
<1>3. Len(Whole) = file.declared + 1
  BY <1>1, <1>2, UptoLength
<1>4. QED
  BY <1>1, <1>2, <1>3

\* The readers are right initially, and the stores.
LEMMA InitInv == Init => Inv
<1> SUFFICES ASSUME Init PROVE Inv
  OBVIOUS
<1>c. MaxBlocks \in Nat /\ U32Max \in Nat
  BY ConsignmentAssumption
<1>f. file.declared \in Nat
  BY FileFields DEF Init
<1>1. TypeOK
  <2>1. Operations(held) /\ Operations(given)
    BY EmptyType DEF Init
  <2>2. pos \in 0 .. MaxBlocks + 1 /\ count \in 0 .. U32Max
    BY <1>c DEF Init
  <2>3. applied \subseteq 0 .. MaxBlocks /\ durable = applied /\ linked = applied
    BY <1>c DEF Init
  <2>4. QED
    BY <2>1, <2>2, <2>3 DEF Init, TypeOK, Places
<1>2. Stored
  <2>1. CASE known /\ file.refused # 0
    <3>1. applied = 0 .. 1 - 1 /\ durable = applied /\ linked = applied /\ 1 \in 0 .. MaxBlocks + 1
      BY <2>1, <1>c DEF Init
    <3>2. QED
      BY <3>1, <2>1, <1>f, <1>c DEF Stored, Begun
  <2>2. CASE ~(known /\ file.refused # 0)
    <3>1. applied = 0 .. 0 - 1 /\ durable = applied /\ linked = applied /\ 0 \in 0 .. MaxBlocks + 1
      BY <2>2, <1>c DEF Init
    <3>2. Begun
      BY <3>1 DEF Begun
    <3>3. linked = {}
      BY <2>2 DEF Init
    <3>4. QED
      BY <3>2, <3>3 DEF Stored
  <2>3. QED
    BY <2>1, <2>2
<1>3. QED
  BY <1>1, <1>2 DEF Init, Inv, ReaderInv, Fresh, Placed, InMemory, AsStream, AsDump, Evaluated

\* A step to "error" that reads nothing keeps all that is said of the rest.
LEMMA ErrorInv ==
    ASSUME ReaderInv, StoreType', at' = "error",
           UNCHANGED <<file, reader, pos, torn, count, held, given>>
    PROVE  ReaderInv'
  BY DEF ReaderInv, StoreType, TypeOK, Places, Fresh, Placed, InMemory, AsStream, AsDump, Fits, Whole, Sentinel

\* The stores hold operations a stream can have.
LEMMA StoreTypeNext == ReaderInv /\ [Next]_vars => StoreType'
<1> SUFFICES ASSUME ReaderInv, [Next]_vars PROVE StoreType'
  OBVIOUS
<1> USE DEF ReaderInv, stores, ledger
<1>1. StoreType
  BY DEF TypeOK, StoreType
<1>2. ASSUME NEW op \in 0 .. MaxBlocks, Evaluate(op) PROVE StoreType'
  BY <1>1, <1>2 DEF Evaluate, StoreType
<1>3. CASE ReadHeld
  <2>1. Len(given) + 1 \in 1 .. Len(held) /\ held \in Seq(0 .. MaxBlocks)
    BY <1>3 DEF ReadHeld, TypeOK, Operations
  <2>2. held[Len(given) + 1] \in 0 .. MaxBlocks
    BY <2>1, ElementOfSeq
  <2>3. QED
    BY <1>3, <2>2, <1>2 DEF ReadHeld
<1>4. CASE ReadStream
  <2>1. pos \in 0 .. MaxBlocks
    BY <1>4, FileFields, ConsignmentAssumption DEF ReadStream, AtBlock, TypeOK
  <2>2. QED
    BY <1>4, <2>1, <1>2 DEF ReadStream
<1>5. CASE ~ReadHeld /\ ~ReadStream
  BY <1>1, <1>5 DEF Next, Reading, vars, Consume, ChooseReader, Dump, HeadErr, Error, DecodeHeader,
     DecodeBlock, DecodeErr, DecodeEnd, CheckArticles, HeldEnd, BeginStream, StreamErr, StreamEnd,
     Commit, UpgradeApis, DumpHeader, DumpBlock, DumpErr, DumpEnd, Again, StoreType
<1>6. QED
  BY <1>3, <1>4, <1>5

\* Each step of a reader keeps what is said of the reader.
LEMMA ReaderNext == ReaderInv /\ [Next]_vars => ReaderInv'
<1> SUFFICES ASSUME ReaderInv, [Next]_vars PROVE ReaderInv'
  OBVIOUS
<1> USE DEF ReaderInv, stores, ledger
<1>f. file \in Files /\ file.blocks \in Nat /\ file.blocks <= MaxBlocks
      /\ file.declared \in Nat /\ file.declared <= U32Max /\ file.refused \in Int
  BY FileFields DEF TypeOK
<1>w. Whole = Upto(file.declared + 1) /\ Len(Whole) = file.declared + 1 /\ Whole # <<>>
  BY WholeUpto
<1>t. StoreType'
  BY StoreTypeNext
<1>c. U32Max \in Nat /\ MaxBlocks \in Nat /\ MAX_CONSIGNMENT_OPS \in Nat
      /\ MAX_CONSIGNMENT_OPS < U32Max
  BY ConsignmentAssumption
<1>1. ASSUME NEW allowUnknown \in BOOLEAN, Consume(allowUnknown) PROVE ReaderInv'
  <2>1. TypeOK'
    BY <1>1, <1>t DEF Consume, ChooseReader, Go, StoreType, TypeOK, Places
  <2>2. QED
    BY <1>1, <2>1 DEF Consume, ChooseReader, Go, Fresh, Placed, InMemory, AsStream, AsDump
<1>2. ASSUME NEW force \in BOOLEAN, Dump(force) PROVE ReaderInv'
  <2>1. TypeOK'
    BY <1>2, <1>t DEF Dump, Go, StoreType, TypeOK, Places
  <2>2. QED
    BY <1>2, <2>1 DEF Dump, Go, Fresh, Placed, InMemory, AsStream, AsDump
<1>3. CASE HeadErr \/ DecodeErr \/ StreamErr \/ DumpErr
  BY <1>3, <1>t, ErrorInv DEF Error, Go, HeadErr, DecodeErr, StreamErr, DumpErr
<1>4. CASE DecodeHeader
  <2>1. /\ held' = Upto(1) /\ pos' = 1 /\ count' = file.declared /\ at' = "decode"
        /\ reader = "memory" /\ Fits /\ torn = FALSE /\ given = <<>>
        /\ UNCHANGED <<file, stores, reader, torn, given>>
    BY <1>4, UptoFirst DEF DecodeHeader, Go, Fresh
  <2>2. TypeOK'
    BY <2>1, <1>f, <1>c, UptoType, <1>t DEF StoreType, TypeOK, Places
  <2>3. QED
    BY <2>1, <2>2, <1>f, <1>c
       DEF Fresh, Placed, InMemory, AsStream, AsDump, Fits, Whole, Sentinel
<1>5. CASE DecodeBlock
  <2>1. /\ reader = "memory" /\ at = "decode" /\ Fits /\ torn = FALSE /\ given = <<>>
        /\ pos \in 1 .. file.blocks /\ count = file.declared - (pos - 1) /\ count > 0
        /\ UNCHANGED <<file, stores, reader, at, torn, given>>
        /\ pos' = pos + 1 /\ count' = count - 1
    BY <1>5, <1>f DEF DecodeBlock, AtBlock, InMemory
  <2>2. held' = Upto(pos + 1)
    <3>1. pos \in Nat /\ held = Upto(pos) /\ held' = Append(held, pos)
      BY <1>5, <2>1, <1>f DEF DecodeBlock, InMemory
    <3>2. QED
      BY <3>1, UptoNext
  <2>3. TypeOK'
    <3>1. pos' \in 0 .. MaxBlocks + 1 /\ count' \in 0 .. U32Max
      BY <2>1, <1>f, <1>c DEF TypeOK
    <3>2. pos + 1 \in 0 .. MaxBlocks + 1
      BY <2>1, <1>f, <1>c
    <3>3. Operations(held')
      BY <2>2, <3>2, UptoType
    <3>4. QED
      BY <2>1, <3>1, <3>3, <1>t DEF StoreType, TypeOK, Operations
  <2>4. QED
    BY <2>1, <2>2, <2>3, <1>f, <1>c
       DEF Fresh, Placed, InMemory, AsStream, AsDump, Fits, Whole, Sentinel
<1>6. CASE DecodeEnd
  <2>1. /\ reader = "memory" /\ at = "decode" /\ at' = "articles" /\ Fits /\ given = <<>>
        /\ UNCHANGED <<file, stores, reader, pos, torn, count, held, given>>
        /\ pos = file.declared + 1 /\ pos <= file.blocks + 1 /\ held = Upto(pos)
    BY <1>6, <1>f DEF DecodeEnd, Go, InMemory
  <2>2. held = Whole /\ file.declared <= file.blocks
    BY <2>1, <1>f, <1>w
  <2>3. TypeOK'
    BY <2>1, <1>t DEF StoreType, TypeOK, Places
  <2>4. QED
    BY <2>1, <2>2, <2>3
       DEF Fresh, Placed, InMemory, AsStream, AsDump, Fits, Whole, Sentinel
<1>7. CASE CheckArticles
  <2>1. reader = "memory" /\ given = <<>>
    BY <1>7 DEF CheckArticles, Placed, InMemory
  <2>2. TypeOK'
    BY <1>7, <1>t DEF CheckArticles, Go, StoreType, TypeOK, Places
  <2>3. given = Upto(0) /\ file.refused \notin 0 .. 0 - 1 /\ 0 \in 0 .. file.declared + 1
    BY <2>1, <1>f, UptoFirst
  <2>4. QED
    BY <1>7, <2>1, <2>2, <2>3
       DEF CheckArticles, Go, Fresh, Placed, InMemory, AsStream, AsDump, Fits, Whole, Sentinel
<1>8. CASE ReadHeld
  <2>1. /\ reader = "memory" /\ at = "ops" /\ Fits /\ file.declared <= file.blocks
        /\ held = Whole /\ file.articles /\ Len(given) < Len(held)
        /\ UNCHANGED <<file, reader, pos, torn, count, held>>
    BY <1>8 DEF ReadHeld, InMemory
  <2>2. PICK n \in 0 .. file.declared + 1 : given = Upto(n) /\ file.refused \notin 0 .. n - 1
    BY <2>1 DEF InMemory
  <2>3. n <= file.declared /\ Len(given) = n /\ held[n + 1] = n
    <3>1. Len(given) = n /\ n <= file.declared
      BY <2>1, <2>2, <1>f, <1>w, UptoLength
    <3>2. n + 1 \in 1 .. file.declared + 1
      BY <3>1, <1>f
    <3>3. held[n + 1] = (n + 1) - 1
      BY <2>1, <3>2, <1>f, <1>w, UptoElement
    <3>4. QED
      BY <3>1, <3>3
  <2>4. given' = Upto(n + 1) /\ at' = IF n = file.refused THEN "error" ELSE "ops"
    <3>1. given' = Append(given, n)
      BY <1>8, <2>3 DEF ReadHeld, Evaluate
    <3>2. at' = IF n = file.refused THEN "error" ELSE "ops"
      BY <1>8, <2>3 DEF ReadHeld, Evaluate, Go
    <3>3. QED
      <4>1. n \in Nat
        BY <1>f
      <4>2. Append(Upto(n), n) = Upto(n + 1)
        BY <4>1, UptoNext
      <4>3. QED
        BY <2>2, <3>1, <3>2, <4>2
  <2>5. TypeOK'
    BY <2>1, <2>3, <2>4, <1>f, <1>c, UptoType, <1>t DEF StoreType, TypeOK, Places
  <2>6. at' = "ops" => n + 1 \in 0 .. file.declared + 1 /\ file.refused \notin 0 .. (n + 1) - 1
    BY <2>2, <2>3, <2>4, <1>f
  <2>7. QED
    BY <2>1, <2>4, <2>5, <2>6
       DEF Fresh, Placed, InMemory, AsStream, AsDump, Fits, Whole, Sentinel
<1>9. CASE HeldEnd
  <2>1. /\ reader = "memory" /\ at = "ops" /\ at' = "evaluated" /\ held = Whole
        /\ Len(given) = Len(held)
        /\ UNCHANGED <<file, stores, reader, pos, torn, count, held, given>>
    BY <1>9 DEF HeldEnd, Go, InMemory
  <2>2. PICK n \in 0 .. file.declared + 1 : given = Upto(n) /\ file.refused \notin 0 .. n - 1
    BY <2>1 DEF InMemory
  <2>3. n = file.declared + 1
    <3>1. n \in Nat
      BY <1>f
    <3>2. Len(Upto(n)) = n
      BY <3>1, UptoLength
    <3>3. QED
      BY <2>1, <2>2, <3>2, <1>w
  <2>4. given = Whole /\ file.refused \notin 0 .. file.declared
    BY <2>2, <2>3, <1>f, <1>w
  <2>5. TypeOK'
    BY <2>1, <1>t DEF StoreType, TypeOK, Places
  <2>6. QED
    BY <2>1, <2>4, <2>5
       DEF Fresh, Placed, InMemory, AsStream, AsDump, Fits, Whole, Sentinel
<1>10. CASE BeginStream
  <2>1. /\ reader = "stream" /\ at' = "ops" /\ count' = U32Max /\ pos = 0 /\ torn = FALSE
        /\ held = <<>> /\ given = Upto(0)
        /\ UNCHANGED <<file, stores, reader, pos, torn, held, given>>
    BY <1>10, UptoFirst DEF BeginStream, Go, Fresh
  <2>2. TypeOK'
    BY <2>1, <1>c, <1>t DEF StoreType, TypeOK, Places
  <2>3. QED
    BY <2>1, <2>2, <1>f
       DEF Fresh, Placed, InMemory, AsStream, AsDump, Fits, Whole, Sentinel
<1>11. CASE ReadStream
  <2>1. /\ reader = "stream" /\ at = "ops" /\ count > 0 /\ pos \in 0 .. file.blocks
        /\ held = <<>>
        /\ UNCHANGED <<file, reader, held>> /\ pos' = pos + 1
    BY <1>11, <1>f DEF ReadStream, AtBlock, AsStream, TypeOK
  <2>2. given' = Upto(pos + 1) /\ at' = IF pos = file.refused THEN "error" ELSE "ops"
    <3>1. pos \in Nat /\ given = Upto(pos) /\ given' = Append(given, pos)
      BY <1>11, <2>1, <1>f DEF ReadStream, Evaluate, AsStream
    <3>2. at' = IF pos = file.refused THEN "error" ELSE "ops"
      BY <1>11 DEF ReadStream, Evaluate, Go
    <3>3. QED
      BY <3>1, <3>2, UptoNext
  <2>3. count' \in 0 .. U32Max /\ torn' \in BOOLEAN
    <3>1. CASE count = U32Max
      <4>1. CASE pos = 0
        BY <1>11, <3>1, <4>1, <1>f, <1>c DEF ReadStream, Counted, TypeOK
      <4>2. CASE pos > 0
        <5>1. count' \in 0 .. U32Max /\ torn' = TRUE
          BY <1>11, <3>1, <4>2 DEF ReadStream, Counted
        <5>2. QED
          BY <5>1
      <4>3. QED
        BY <2>1, <4>1, <4>2, <1>f
    <3>2. CASE count # U32Max
      <4>1. count' = count - 1 /\ torn' = torn
        BY <1>11, <3>2 DEF ReadStream, Counted
      <4>2. QED
        BY <4>1, <2>1, <1>c DEF TypeOK
    <3>3. QED
      BY <3>1, <3>2
  <2>4. ~Sentinel => torn' = FALSE /\ count' = file.declared - pos
    <3>1. SUFFICES ASSUME ~Sentinel PROVE torn' = FALSE /\ count' = file.declared - pos
      OBVIOUS
    <3>2. torn = FALSE /\ ((pos = 0 /\ count = U32Max) \/ (pos > 0 /\ count = file.declared - (pos - 1)))
      BY <2>1, <3>1 DEF AsStream
    <3>3. CASE pos = 0 /\ count = U32Max
      BY <1>11, <3>2, <3>3, <1>f DEF ReadStream, Counted
    <3>4. CASE pos > 0 /\ count = file.declared - (pos - 1)
      <4>1. count # U32Max
        BY <3>1, <3>4, <2>1, <1>f, <1>c DEF Sentinel
      <4>2. torn' = torn /\ count' = count - 1
        BY <1>11, <4>1 DEF ReadStream, Counted
      <4>3. QED
        BY <3>2, <3>4, <4>2, <2>1, <1>f
    <3>5. QED
      BY <3>2, <3>3, <3>4
  <2>5. TypeOK'
    BY <2>1, <2>2, <2>3, <1>f, <1>c, UptoType, <1>t DEF StoreType, TypeOK, Places
  <2>6. at' = "ops" => file.refused \notin 0 .. (pos + 1) - 1
    BY <2>1, <2>2, <1>f DEF AsStream
  <2>7. QED
    BY <2>1, <2>2, <2>4, <2>5, <2>6, <1>f
       DEF Fresh, Placed, InMemory, AsStream, AsDump, Fits, Whole, Sentinel
<1>12. CASE StreamEnd
  <2>1. /\ reader = "stream" /\ at = "ops" /\ at' = "evaluated" /\ count = 0 /\ held = <<>>
        /\ UNCHANGED <<file, stores, reader, pos, torn, count, held, given>>
    BY <1>12 DEF StreamEnd, Go, AsStream
  <2>2. ~Sentinel => /\ given = Whole /\ file.declared <= file.blocks
                     /\ file.refused \notin 0 .. file.declared
    <3>1. SUFFICES ASSUME ~Sentinel
                   PROVE  pos = file.declared + 1
      BY <2>1, <1>f, <1>w DEF AsStream
    <3>2. QED
      BY <2>1, <3>1, <1>f, <1>c DEF AsStream, TypeOK
  <2>3. TypeOK'
    BY <2>1, <1>t DEF StoreType, TypeOK, Places
  <2>4. QED
    BY <2>1, <2>2, <2>3
       DEF Fresh, Placed, InMemory, AsStream, AsDump, Fits, Whole, Sentinel
<1>13. CASE Commit
  <2>1. TypeOK'
    BY <1>13, <1>t DEF Commit, Go, StoreType, TypeOK, Places
  <2>2. ~Sentinel => given = Whole
    BY <1>13 DEF Commit, Placed, InMemory, AsStream
  <2>3. QED
    BY <1>13, <2>1, <2>2
       DEF Commit, Go, Fresh, Placed, InMemory, AsStream, AsDump, Fits, Whole, Sentinel
<1>14. CASE UpgradeApis
  <2>1. TypeOK'
    BY <1>14, <1>t DEF UpgradeApis, Go, StoreType, TypeOK, Places
  <2>2. QED
    BY <1>14, <2>1
       DEF UpgradeApis, Go, Fresh, Placed, InMemory, AsStream, AsDump, Fits, Whole, Sentinel
<1>15. CASE DumpHeader
  <2>1. /\ given' = Upto(1) /\ pos' = 1 /\ count' = file.declared /\ at' = "ops"
        /\ reader = "dump" /\ ~file.witness /\ torn = FALSE /\ held = <<>>
        /\ UNCHANGED <<file, reader, torn, held>>
    BY <1>15, UptoFirst DEF DumpHeader, Go, Fresh
  <2>2. TypeOK'
    BY <2>1, <1>f, <1>c, UptoType, <1>t DEF StoreType, TypeOK, Places
  <2>3. QED
    BY <2>1, <2>2, <1>f, <1>c
       DEF Fresh, Placed, InMemory, AsStream, AsDump, Fits, Whole, Sentinel
<1>16. CASE DumpBlock
  <2>1. /\ reader = "dump" /\ at = "ops" /\ torn = FALSE /\ held = <<>> /\ ~file.witness
        /\ pos \in 1 .. file.blocks /\ count = file.declared - (pos - 1) /\ count > 0
        /\ UNCHANGED <<file, stores, reader, at, torn, held>>
        /\ pos' = pos + 1 /\ count' = count - 1
    BY <1>16, <1>f DEF DumpBlock, AtBlock, AsDump
  <2>2. given' = Upto(pos + 1)
    <3>1. pos \in Nat /\ given = Upto(pos) /\ given' = Append(given, pos)
      BY <1>16, <2>1, <1>f DEF DumpBlock, AsDump
    <3>2. QED
      BY <3>1, UptoNext
  <2>3. TypeOK'
    <3>1. pos' \in 0 .. MaxBlocks + 1 /\ count' \in 0 .. U32Max
      BY <2>1, <1>f, <1>c DEF TypeOK
    <3>2. pos + 1 \in 0 .. MaxBlocks + 1
      BY <2>1, <1>f, <1>c
    <3>3. Operations(given')
      BY <2>2, <3>2, UptoType
    <3>4. QED
      BY <2>1, <3>1, <3>3, <1>t DEF StoreType, TypeOK, Operations
  <2>4. QED
    BY <2>1, <2>2, <2>3, <1>f, <1>c
       DEF Fresh, Placed, InMemory, AsStream, AsDump, Fits, Whole, Sentinel
<1>17. CASE DumpEnd
  <2>1. /\ reader = "dump" /\ at = "ops" /\ at' = "ok" /\ held = <<>> /\ ~file.witness
        /\ UNCHANGED <<file, stores, reader, pos, torn, count, held, given>>
        /\ pos = file.declared + 1 /\ pos <= file.blocks + 1 /\ given = Upto(pos)
    BY <1>17, <1>f DEF DumpEnd, Go, AsDump
  <2>2. given = Whole /\ file.declared <= file.blocks
    BY <2>1, <1>f, <1>w
  <2>3. TypeOK'
    BY <2>1, <1>t DEF StoreType, TypeOK, Places
  <2>4. QED
    BY <2>1, <2>2, <2>3
       DEF Fresh, Placed, InMemory, AsStream, AsDump, Fits, Whole, Sentinel
<1>18. ASSUME NEW restart \in BOOLEAN, Again(restart) PROVE ReaderInv'
  <2>1. TypeOK'
    <3>1. Operations(held)' /\ Operations(given)'
      BY <1>18, EmptyType DEF Again
    <3>2. pos' \in 0 .. MaxBlocks + 1 /\ count' \in 0 .. U32Max
      BY <1>18, <1>c DEF Again
    <3>3. QED
      BY <1>18, <3>1, <3>2 DEF Again, Go, TypeOK, Places
  <2>2. QED
    BY <1>18, <2>1
       DEF Again, Go, Fresh, Placed, InMemory, AsStream, AsDump
<1>19. CASE UNCHANGED vars
  BY <1>19, <1>t DEF vars, StoreType, TypeOK, Places, Fresh, Placed, InMemory, AsStream, AsDump,
               Fits, Whole, Sentinel
<1>20. QED
  BY <1>1, <1>2, <1>3, <1>4, <1>5, <1>6, <1>7, <1>8, <1>9, <1>10, <1>11, <1>12, <1>13, <1>14,
     <1>15, <1>16, <1>17, <1>18, <1>19 DEF Next, Reading

-----------------------------------------------------------------------------
\* The file stays the same.
LEMMA FileKept == [Next]_vars => file' = file
  BY DEF Next, Reading, vars, Consume, Dump, HeadErr, Error, DecodeHeader, DecodeBlock, DecodeErr,
         DecodeEnd, CheckArticles, ReadHeld, HeldEnd, BeginStream, ReadStream, StreamErr, StreamEnd,
         Commit, UpgradeApis, DumpHeader, DumpBlock, DumpErr, DumpEnd, Again

\* The evaluation of the next operation keeps what is stored a beginning.
LEMMA EvaluateStored ==
    ASSUME Inv, NEW op \in 0 .. MaxBlocks, Evaluate(op),
           file' = file, reader' = reader, reader # "dump", at = "ops",
           given \in Seq(Int), Len(given) = op, ~Sentinel => op <= file.declared
    PROVE  Stored' /\ Evaluated'
<1>c. MaxBlocks \in Nat /\ op \in Nat /\ file.declared \in Nat
  BY ConsignmentAssumption, FileFields DEF Inv, ReaderInv, TypeOK
<1>s. Sentinel' = Sentinel
  BY DEF Sentinel
<1>1. PICK a, d, l \in 0 .. MaxBlocks + 1 :
         /\ d <= a /\ a <= l
         /\ applied = 0 .. a - 1 /\ durable = 0 .. d - 1 /\ linked = 0 .. l - 1
  BY DEF Inv, Stored, Begun
<1>2. 0 .. op - 1 \subseteq 0 .. a - 1
  BY <1>1 DEF Inv, Evaluated
<1>3. op <= a
  <2>1. CASE op = 0
    BY <2>1, <1>1, <1>c
  <2>2. CASE op > 0
    <3>1. op - 1 \in 0 .. a - 1
      BY <2>2, <1>2, <1>c
    <3>2. QED
      BY <3>1, <1>1, <1>c
  <2>3. QED
    BY <2>1, <2>2, <1>c
<1>4. CASE op = file.refused
  <2>1. at' = "error" /\ UNCHANGED <<applied, durable, linked>>
    BY <1>4 DEF Evaluate, Go, ledger
  <2>2. QED
    BY <2>1, <1>s DEF Inv, Stored, Begun, Evaluated
<1>5. CASE op # file.refused
  <2>1. /\ at' = "ops" /\ given' = Append(given, op)
        /\ applied' = applied \union {op} /\ linked' = linked \union {op}
        /\ durable' \in {durable, applied'}
    BY <1>5 DEF Evaluate, Go, ledger
  <2>2. PICK n \in 0 .. MaxBlocks + 1 : a <= n /\ applied' = 0 .. n - 1 /\ op < n
                                        /\ (n = a \/ n = op + 1)
    <3>1. CASE op < a
      BY <3>1, <2>1, <1>1, <1>c
    <3>2. CASE op = a
      <4>1. applied' = 0 .. (op + 1) - 1
        BY <3>2, <2>1, <1>1, <1>c
      <4>2. op + 1 \in 0 .. MaxBlocks + 1
        BY <1>c
      <4>3. QED
        BY <3>2, <4>1, <4>2, <1>c
    <3>3. QED
      BY <3>1, <3>2, <1>3, <1>1, <1>c
  <2>3. PICK m \in 0 .. MaxBlocks + 1 : n <= m /\ linked' = 0 .. m - 1
    <3>1. CASE op < l
      BY <3>1, <2>1, <2>2, <1>1, <1>c
    <3>2. CASE op = l
      BY <3>2, <2>1, <2>2, <1>1, <1>c
    <3>3. QED
      BY <3>1, <3>2, <1>3, <1>1, <1>c
  <2>4. Begun'
    <3>1. CASE durable' = durable
      <4>1. durable' = 0 .. d - 1 /\ d <= n
        BY <3>1, <1>1, <2>2, <1>c
      <4>2. QED
        BY <4>1, <1>1, <2>2, <2>3 DEF Begun
    <3>2. CASE durable' = applied'
      <4>1. durable' = 0 .. n - 1 /\ n <= n
        BY <3>2, <2>2, <1>c
      <4>2. QED
        BY <4>1, <2>2, <2>3 DEF Begun
    <3>3. QED
      BY <3>1, <3>2, <2>1
  <2>5. file'.refused \notin linked'
    BY <1>5, <2>1 DEF Inv, Stored
  <2>6. ~Sentinel' => linked' \subseteq 0 .. file'.declared
    BY <2>1, <1>s, <1>c DEF Inv, Stored
  <2>7. 0 .. Len(given') - 1 \subseteq applied'
    <3>1. Len(given') = op + 1
      BY <2>1
    <3>2. QED
      BY <3>1, <2>2, <1>c
  <2>8. QED
    BY <2>1, <2>4, <2>5, <2>6, <2>7 DEF Stored, Evaluated
<1>6. QED
  BY <1>4, <1>5

\* Each step of a reader, and each new call, keeps what is said of the stores.
LEMMA StoreNext == Inv /\ ReaderInv' /\ [Next]_vars => Stored' /\ Evaluated'
<1> SUFFICES ASSUME Inv, ReaderInv', [Next]_vars PROVE Stored' /\ Evaluated'
  OBVIOUS
<1>f. /\ file' = file /\ Sentinel' = Sentinel /\ Whole' = Whole
      /\ file.declared \in Nat /\ file.blocks \in Nat /\ file.blocks <= MaxBlocks
  BY FileKept, FileFields DEF Inv, ReaderInv, TypeOK, Sentinel, Whole
<1>c. MaxBlocks \in Nat /\ U32Max \in Nat
  BY ConsignmentAssumption
<1>w. Whole = Upto(file.declared + 1) /\ Len(Whole) = file.declared + 1
  BY WholeUpto DEF Inv, ReaderInv
\* Most steps leave the stores alone.
<1>s. ASSUME UNCHANGED <<applied, durable, linked>> PROVE Stored'
  BY <1>s, <1>f DEF Inv, Stored, Begun
<1>1. CASE ReadHeld
  <2>1. /\ reader = "memory" /\ at = "ops" /\ held = Whole /\ Len(given) < Len(held)
        /\ Evaluate(held[Len(given) + 1]) /\ reader' = reader
    BY <1>1 DEF ReadHeld, Inv, ReaderInv, InMemory
  <2>2. Fits /\ file.declared <= file.blocks
    BY <2>1 DEF Inv, ReaderInv, InMemory
  <2>3. given \in Seq(Int) /\ Len(given) \in 0 .. file.declared
    <3>1. given \in Seq(Int) /\ Len(given) \in Nat
      BY <1>c DEF Inv, ReaderInv, TypeOK, Operations
    <3>2. Len(given) < file.declared + 1
      BY <2>1, <1>w
    <3>3. QED
      BY <3>1, <3>2, <1>f
  <2>4. held[Len(given) + 1] = Len(given)
    <3>1. Len(given) + 1 \in 1 .. file.declared + 1
      BY <2>3, <1>f
    <3>2. QED
      BY <3>1, <2>1, <2>3, <1>f DEF Whole
  <2>5. Len(given) \in 0 .. MaxBlocks
    BY <2>2, <2>3, <1>f, <1>c
  <2>6. QED
    BY <2>1, <2>3, <2>4, <2>5, <1>f, EvaluateStored
<1>2. CASE ReadStream
  <2>1. /\ reader = "stream" /\ at = "ops" /\ count > 0 /\ pos \in 0 .. file.blocks
        /\ Evaluate(pos) /\ reader' = reader
    BY <1>2, <1>f DEF ReadStream, AtBlock, Inv, ReaderInv, TypeOK
  <2>2. given = Upto(pos) /\ pos \in Nat
    BY <2>1, <1>f DEF Inv, ReaderInv, AsStream
  <2>3. given \in Seq(Int) /\ Len(given) = pos
    BY <2>2, UptoLength
  <2>4. ~Sentinel => pos <= file.declared
    BY <2>1, <2>2, <1>f DEF Inv, ReaderInv, AsStream, TypeOK
  <2>5. pos \in 0 .. MaxBlocks
    BY <2>1, <1>f, <1>c
  <2>6. QED
    BY <2>1, <2>3, <2>4, <2>5, <1>f, EvaluateStored
<1>3. CASE HeldEnd \/ StreamEnd
  <2>1. /\ at = "ops" /\ at' = "evaluated" /\ reader # "dump"
        /\ UNCHANGED <<applied, durable, linked, reader, given>>
    BY <1>3 DEF HeldEnd, StreamEnd, Go, stores, ledger
  <2>2. ~Sentinel => applied' = 0 .. file'.declared
    <3>1. SUFFICES ASSUME ~Sentinel PROVE applied = 0 .. file.declared
      BY <2>1, <1>f
    <3>2. given' = Whole'
      BY <2>1, <3>1, <1>f DEF ReaderInv, Placed, InMemory, AsStream
    <3>3. Len(given) = file.declared + 1
      BY <2>1, <3>2, <1>w, <1>f
    <3>4. 0 .. file.declared \subseteq applied
      BY <2>1, <3>3, <1>f DEF Inv, Evaluated
    <3>5. applied \subseteq linked /\ linked \subseteq 0 .. file.declared
      <4>1. applied \subseteq linked
        BY <1>c DEF Inv, Stored, Begun
      <4>2. QED
        BY <4>1, <3>1 DEF Inv, Stored
    <3>6. QED
      BY <3>4, <3>5
  <2>3. QED
    BY <2>1, <2>2, <1>s, <1>f DEF Evaluated
<1>4. CASE Commit
  <2>1. /\ at = "evaluated" /\ at' \in {"ok", "upgrade"} /\ durable' = applied
        /\ UNCHANGED <<applied, linked, reader>>
    BY <1>4 DEF Commit, Go
  <2>2. Stored'
    <3>1. PICK a, d, l \in 0 .. MaxBlocks + 1 :
             /\ d <= a /\ a <= l
             /\ applied = 0 .. a - 1 /\ durable = 0 .. d - 1 /\ linked = 0 .. l - 1
      BY DEF Inv, Stored, Begun
    <3>2. a <= a /\ applied' = 0 .. a - 1 /\ durable' = 0 .. a - 1 /\ linked' = 0 .. l - 1
      BY <2>1, <3>1, <1>c
    <3>3. Begun'
      BY <3>1, <3>2 DEF Begun
    <3>4. QED
      BY <2>1, <3>3, <1>f DEF Inv, Stored
  <2>3. QED
    BY <2>1, <2>2, <1>f DEF Inv, Evaluated
<1>5. CASE UpgradeApis
  BY <1>5, <1>s, <1>f DEF UpgradeApis, Go, stores, ledger, Inv, Evaluated
<1>6. ASSUME NEW restart \in BOOLEAN, Again(restart) PROVE Stored' /\ Evaluated'
  <2>1. applied' \in {applied, durable} /\ UNCHANGED <<durable, linked>> /\ at' = "start"
    BY <1>6 DEF Again, Go
  <2>2. Stored'
    <3>1. Begun'
      <4>1. PICK a, d, l \in 0 .. MaxBlocks + 1 :
               /\ d <= a /\ a <= l
               /\ applied = 0 .. a - 1 /\ durable = 0 .. d - 1 /\ linked = 0 .. l - 1
        BY DEF Inv, Stored, Begun
      <4>2. d <= d /\ d <= l /\ durable' = 0 .. d - 1 /\ linked' = 0 .. l - 1
        BY <2>1, <4>1, <1>c
      <4>3. CASE applied' = applied
        BY <4>1, <4>2, <4>3 DEF Begun
      <4>4. CASE applied' = durable
        BY <4>1, <4>2, <4>4 DEF Begun
      <4>5. QED
        BY <2>1, <4>3, <4>4
    <3>2. QED
      BY <3>1, <2>1, <1>f DEF Inv, Stored
  <2>3. QED
    BY <2>1, <2>2 DEF Evaluated
<1>7. CASE CheckArticles \/ BeginStream
  <2>1. UNCHANGED <<applied, durable, linked>> /\ at' \in {"ops", "error"} /\ given' = <<>>
    BY <1>7 DEF CheckArticles, BeginStream, Go, stores, ledger, Inv, ReaderInv, Placed, InMemory, Fresh
  <2>2. 0 .. Len(<<>>) - 1 \subseteq applied'
    OBVIOUS
  <2>3. QED
    BY <2>1, <2>2, <1>s DEF Evaluated
<1>8. ASSUME NEW allowUnknown \in BOOLEAN, Consume(allowUnknown) PROVE Stored' /\ Evaluated'
  BY <1>8, <1>s DEF Consume, Go, stores, ledger, Evaluated
<1>9. ASSUME NEW force \in BOOLEAN, Dump(force) PROVE Stored' /\ Evaluated'
  BY <1>9, <1>s DEF Dump, Go, stores, ledger, Evaluated
<1>10. CASE HeadErr \/ DecodeErr \/ StreamErr \/ DumpErr
  <2>1. UNCHANGED <<applied, durable, linked>> /\ at' = "error"
    BY <1>10 DEF HeadErr, DecodeErr, StreamErr, DumpErr, Error, Go, stores, ledger
  <2>2. QED
    BY <2>1, <1>s DEF Evaluated
<1>11. CASE DecodeHeader \/ DecodeBlock \/ DecodeEnd
  <2>1. UNCHANGED <<applied, durable, linked>> /\ at' \in {"decode", "articles"}
    BY <1>11 DEF DecodeHeader, DecodeBlock, DecodeEnd, Go, stores, ledger
  <2>2. QED
    BY <2>1, <1>s DEF Evaluated
<1>12. CASE DumpHeader \/ DumpBlock \/ DumpEnd
  <2>1. UNCHANGED <<applied, durable, linked>> /\ reader' = "dump"
    BY <1>12 DEF DumpHeader, DumpBlock, DumpEnd, stores, ledger
  <2>2. QED
    BY <2>1, <1>s DEF Evaluated
<1>13. CASE UNCHANGED vars
  BY <1>13, <1>s, <1>f DEF vars, stores, ledger, Inv, Evaluated
<1>14. QED
  BY <1>1, <1>2, <1>3, <1>4, <1>5, <1>6, <1>7, <1>8, <1>9, <1>10, <1>11, <1>12, <1>13 DEF Next, Reading

\* Each step keeps the invariant.
LEMMA NextInv == Inv /\ [Next]_vars => Inv'
  BY ReaderNext, StoreNext DEF Inv

\* The invariant holds always.
LEMMA SpecInv == Spec => []Inv
<1>1. Init => Inv
  BY InitInv
<1>2. Inv /\ [Next]_vars => Inv'
  BY NextInv
<1>3. QED
  BY <1>1, <1>2, PTL DEF Spec

(***************************************************************************)
(* Every variable keeps its type: no reader counts below zero or gathers   *)
(* more operations than the stream has.                                    *)
(***************************************************************************)
THEOREM ConsignmentTypeCorrect == Spec => []TypeOK
<1>1. Inv => TypeOK
  BY DEF Inv, ReaderInv
<1>2. QED
  BY <1>1, SpecInv, PTL

(***************************************************************************)
(* Whatever the limit and the length of the stream, a reader that returns  *)
(* without an error has read exactly the declared history and has found    *)
(* nothing wrong with it (consume_internal, dump_consignment).             *)
(***************************************************************************)
THEOREM AcceptedIsWhole == Spec => []AcceptedWhole
<1>1. Inv => AcceptedWhole
  <2>1. SUFFICES ASSUME Inv, at = "ok", ~Sentinel
                 PROVE  given = Whole /\ Good
    BY DEF AcceptedWhole
  <2>2. reader \in {"memory", "stream", "dump"}
    BY <2>1 DEF Inv, ReaderInv, TypeOK
  <2>3. CASE reader = "memory"
    BY <2>1, <2>3 DEF Inv, ReaderInv, InMemory, Good, Fits
  <2>4. CASE reader = "stream"
    BY <2>1, <2>4 DEF Inv, ReaderInv, AsStream, Good
  <2>5. CASE reader = "dump"
    BY <2>1, <2>5 DEF Inv, ReaderInv, AsDump, Good
  <2>6. QED
    BY <2>2, <2>3, <2>4, <2>5
<1>2. QED
  BY <1>1, SpecInv, PTL

(***************************************************************************)
(* For streams of any length and any limits: what evaluate_commit leaves   *)
(* in the ledger, on its disk and in the pile is a beginning of the        *)
(* history, in this order ahead of each other, without anything refused or *)
(* undeclared, however many calls failed at whatever operation, and all of *)
(* it is on disk after a call that ended well.                             *)
(***************************************************************************)
THEOREM StoresHoldBeginning == Spec => []StoredInOrder
<1>1. Inv => StoredInOrder
  <2> SUFFICES ASSUME Inv PROVE StoredInOrder
    OBVIOUS
  <2>1. PICK a, d, l \in 0 .. MaxBlocks + 1 :
           /\ d <= a /\ a <= l
           /\ applied = 0 .. a - 1 /\ durable = 0 .. d - 1 /\ linked = 0 .. l - 1
    BY DEF Inv, Stored, Begun
  <2>2. Beginning(applied) /\ Beginning(durable) /\ Beginning(linked)
    BY <2>1 DEF Beginning
  <2>3. durable \subseteq applied /\ applied \subseteq linked
    BY <2>1, ConsignmentAssumption
  <2>4. file.refused \notin linked /\ (~Sentinel => linked \subseteq 0 .. file.declared)
    BY DEF Inv, Stored
  <2>5. at = "ok" /\ reader # "dump" /\ ~Sentinel => durable = 0 .. file.declared
    BY DEF Inv, Evaluated
  <2>6. reader = "memory" /\ given # <<>> => held = Whole /\ file.articles
    BY DEF Inv, ReaderInv, InMemory
  <2>7. QED
    BY <2>2, <2>3, <2>4, <2>5, <2>6 DEF StoredInOrder
<1>2. QED
  BY <1>1, SpecInv, PTL

-----------------------------------------------------------------------------
(***************************************************************************)
(* The refinement: each step of a reader gives the next operation, reports *)
(* the end or an error, or is not seen.                                    *)
(***************************************************************************)

\* The initial states are initial states of the source.
LEMMA SourceInit == Init => Source!Init
  BY DEF Init, Source!Init, End

\* Every step is a step of the source or leaves it unchanged.
LEMMA SourceStep == Inv /\ [Next]_vars => [Source!Next]_(Source!vars)
<1> SUFFICES ASSUME Inv, [Next]_vars PROVE [Source!Next]_(Source!vars)
  OBVIOUS
<1> USE DEF Inv, ReaderInv
<1>f. file' = file /\ file.declared \in Nat /\ file.blocks \in Nat
  <2>1. file.declared \in Nat /\ file.blocks \in Nat
    BY FileFields DEF TypeOK
  <2>2. file' = file
    BY FileKept
  <2>3. QED
    BY <2>1, <2>2
<1>k. Whole' = Whole /\ Sentinel' = Sentinel
  BY <1>f DEF Whole, Sentinel
<1>w. Whole = Upto(file.declared + 1) /\ Len(Whole) = file.declared + 1 /\ Whole # <<>>
  BY WholeUpto
<1>1. CASE Sentinel
  BY <1>1, <1>k DEF Source!vars
<1>2. CASE ~Sentinel
  <2> USE <1>2, <1>k
  \* What a step means for the source, by what it does to given and End.
  <2>u. ASSUME given' = given, End' = End
        PROVE  UNCHANGED Source!vars
    BY <2>u DEF Source!vars
  <2>e. ASSUME given' = given, End = "open", End' = "error"
        PROVE  Source!Next
    BY <2>e DEF Source!Next, Source!Fail
  <2>n. ASSUME given' = given, given = Whole, End = "open", End' = "none"
        PROVE  Source!Next
    BY <2>n DEF Source!Next, Source!None
  <2>g. ASSUME NEW n \in Nat, given = Upto(n), given' = Append(given, n), n <= file.declared,
               End = "open", End' \in {"open", "error"}
        PROVE  Source!Next
    <3>1. Len(given) = n /\ n + 1 \in 1 .. file.declared + 1
      <4>1. Len(Upto(n)) = n
        BY <2>g, UptoLength
      <4>2. QED
        BY <2>g, <4>1, <1>f
    <3>2. Upto(file.declared + 1)[n + 1] = (n + 1) - 1
      BY <3>1, <1>f, UptoElement
    <3>3. Len(given) < Len(Whole) /\ Whole[Len(given) + 1] = n
      BY <2>g, <3>1, <3>2, <1>f, <1>w
    <3>4. QED
      BY <2>g, <3>3 DEF Source!Next, Source!Give
  <2>o. ASSUME End # "open", End' = "open", given' = <<>>
        PROVE  Source!Next
    BY <2>o DEF Source!Next, Source!Open
  <2>1. ASSUME NEW allowUnknown \in BOOLEAN, Consume(allowUnknown)
        PROVE  UNCHANGED Source!vars
    BY <2>1, <2>u DEF Consume, Go, End
  <2>2. ASSUME NEW force \in BOOLEAN, Dump(force)
        PROVE  UNCHANGED Source!vars
    BY <2>2, <2>u DEF Dump, Go, End
  <2>3. CASE HeadErr \/ DecodeErr \/ StreamErr \/ DumpErr
    <3>1. at' = "error" /\ given' = given /\ at \in {"start", "header", "decode", "ops"}
      BY <2>3 DEF HeadErr, DecodeErr, StreamErr, DumpErr, Error, Go
    <3>2. QED
      BY <3>1, <2>e DEF End
  <2>4. CASE DecodeHeader \/ DecodeBlock \/ DecodeEnd \/ BeginStream
    BY <2>4, <2>u DEF DecodeHeader, DecodeBlock, DecodeEnd, BeginStream, Go, End
  <2>5. CASE CheckArticles
    <3>1. given' = given /\ at = "articles" /\ at' \in {"ops", "error"}
      BY <2>5 DEF CheckArticles, Go
    <3>2. QED
      BY <3>1, <2>u, <2>e DEF End
  <2>6. CASE ReadHeld
    <3>1. /\ reader = "memory" /\ at = "ops" /\ held = Whole /\ Len(given) < Len(held)
          /\ given' = Append(given, held[Len(given) + 1])
          /\ at' \in {"ops", "error"}
      BY <2>6 DEF ReadHeld, Evaluate, Go, InMemory
    <3>2. PICK n \in 0 .. file.declared + 1 : given = Upto(n)
      BY <3>1 DEF InMemory
    <3>3. n \in Nat /\ Len(given) = n /\ n <= file.declared /\ n + 1 \in 1 .. file.declared + 1
      <4>1. n \in Nat
        BY <1>f
      <4>2. Len(Upto(n)) = n
        BY <4>1, UptoLength
      <4>3. QED
        BY <3>1, <3>2, <4>1, <4>2, <1>f, <1>w
    <3>4. Upto(file.declared + 1)[n + 1] = (n + 1) - 1
      BY <3>3, <1>f, UptoElement
    <3>5. given' = Append(given, n)
      BY <3>1, <3>3, <3>4, <1>w
    <3>6. End = "open" /\ End' \in {"open", "error"}
      BY <3>1 DEF End
    <3>7. QED
      BY <3>2, <3>3, <3>5, <3>6, <2>g
  <2>7. CASE HeldEnd
    <3>1. reader = "memory" /\ at = "ops" /\ at' = "evaluated" /\ given' = given /\ held = Whole
          /\ Len(given) = Len(held)
      BY <2>7 DEF HeldEnd, Go, InMemory
    <3>2. PICK n \in 0 .. file.declared + 1 : given = Upto(n)
      BY <3>1 DEF InMemory
    <3>3. n = file.declared + 1
      <4>1. n \in Nat
        BY <1>f
      <4>2. Len(Upto(n)) = n
        BY <4>1, UptoLength
      <4>3. QED
        BY <3>1, <3>2, <4>2, <1>w
    <3>4. QED
      BY <3>1, <3>2, <3>3, <1>w, <2>n DEF End
  <2>8. CASE ReadStream
    <3>1. /\ reader = "stream" /\ at = "ops" /\ count > 0 /\ pos \in Nat /\ given = Upto(pos)
          /\ given' = Append(given, pos) /\ at' \in {"ops", "error"}
      BY <2>8, <1>f, ConsignmentAssumption DEF ReadStream, Evaluate, Go, AsStream, TypeOK
    <3>2. pos <= file.declared
      BY <3>1, <1>f DEF AsStream
    <3>3. End = "open" /\ End' \in {"open", "error"}
      BY <3>1 DEF End
    <3>4. QED
      BY <3>1, <3>2, <3>3, <2>g
  <2>9. CASE StreamEnd
    <3>1. reader = "stream" /\ at = "ops" /\ at' = "evaluated" /\ given' = given /\ count = 0
      BY <2>9 DEF StreamEnd, Go
    <3>2. pos = file.declared + 1 /\ given = Upto(pos)
      BY <3>1, <1>f, ConsignmentAssumption DEF AsStream, TypeOK
    <3>3. QED
      BY <3>1, <3>2, <1>w, <2>n DEF End
  <2>10. CASE Commit
    BY <2>10, <2>u DEF Commit, Go, End
  <2>11. CASE UpgradeApis
    BY <2>11, <2>u DEF UpgradeApis, Go, End
  <2>12. CASE DumpHeader
    <3>1. given = Upto(0) /\ given' = Append(given, 0) /\ 0 <= file.declared
      <4>1. Append(Upto(0), 0) = Upto(0 + 1)
        BY UptoNext
      <4>2. QED
        BY <2>12, <4>1, <1>f, UptoFirst DEF DumpHeader, Fresh
    <3>2. End = "open" /\ End' \in {"open", "error"}
      BY <2>12 DEF DumpHeader, Go, End
    <3>3. QED
      BY <3>1, <3>2, <2>g
  <2>13. CASE DumpBlock
    <3>1. reader = "dump" /\ at = "ops" /\ at' = at /\ count > 0 /\ given' = Append(given, pos)
      BY <2>13 DEF DumpBlock
    <3>2. given = Upto(pos) /\ pos \in Nat /\ pos <= file.declared
      BY <3>1, <1>f DEF AsDump
    <3>3. End = "open" /\ End' \in {"open", "error"}
      BY <3>1 DEF End
    <3>4. QED
      BY <3>1, <3>2, <3>3, <2>g
  <2>14. CASE DumpEnd
    <3>1. reader = "dump" /\ at = "ops" /\ at' = "ok" /\ given' = given /\ count = 0
      BY <2>14 DEF DumpEnd, Go
    <3>2. pos = file.declared + 1 /\ given = Upto(pos)
      BY <3>1, <1>f DEF AsDump
    <3>3. QED
      BY <3>1, <3>2, <1>w, <2>n DEF End
  <2>15. ASSUME NEW restart \in BOOLEAN, Again(restart)
        PROVE  Source!Next
    BY <2>15, <2>o DEF Again, Go, End
  <2>16. CASE UNCHANGED vars
    BY <2>16, <2>u DEF vars, End
  <2>17. QED
    BY <2>1, <2>2, <2>3, <2>4, <2>5, <2>6, <2>7, <2>8, <2>9, <2>10, <2>11, <2>12, <2>13, <2>14,
       <2>15, <2>16 DEF Next, Reading
<1>3. QED
  BY <1>1, <1>2

(***************************************************************************)
(* Each of the three readers is a source of the operations of its file as  *)
(* evaluate_commit expects one (OperationSource), for every limit.         *)
(***************************************************************************)
THEOREM ReadersImplementSource == Spec => ImplementsSource
<1>1. Init => Source!Init
  BY SourceInit
<1>2. Inv /\ [Next]_vars => [Source!Next]_(Source!vars)
  BY SourceStep
<1>3. QED
  BY <1>1, <1>2, SpecInv, PTL DEF Spec, ImplementsSource, Source!Spec
=============================================================================
