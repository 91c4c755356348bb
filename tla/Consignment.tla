----------------------------- MODULE Consignment -----------------------------
(***************************************************************************)
(* Reading of a consignment.  One format has three readers: a consignment  *)
(* of a contract that is not known is decoded as a whole before it is      *)
(* imported (Consignment::strict_decode, InMemOps); of a contract that is  *)
(* known, operation by operation while these are evaluated (OpReader); and *)
(* the command line dumps it without evaluation (dump_consignment).        *)
(*                                                                         *)
(* The format is: version and contract id, header, genesis with seals and  *)
(* witness, the number of the other operations, and these, each one with   *)
(* seals and witness.  Operations are numbered in the order of the stream, *)
(* the genesis is 0.  Seals and witnesses are read with their operation.   *)
(*                                                                         *)
(* Of the contract the consignment is for, the module keeps which of these *)
(* operations each of its stores holds.  They are written while the stream *)
(* is read, so that an error leaves what was read before it; a process     *)
(* that dies in the middle of it is module Contract, and other contracts   *)
(* are module Contracts.                                                   *)
(***************************************************************************)
EXTENDS Integers, Sequences

CONSTANTS
    U32Max,               \* u32::MAX
    MAX_CONSIGNMENT_OPS,
    MaxBlocks             \* bound: operations in a stream after the genesis

ASSUME ConsignmentAssumption ==
    /\ U32Max \in Nat \ {0}
    /\ MAX_CONSIGNMENT_OPS \in 0 .. U32Max - 1
    /\ MaxBlocks \in Nat

VARIABLES
    file,       \* the consignment at hand
    known,      \* the stockpile has registered the contract
    begun,      \* its directory is there: known, or an import has failed
    applied,    \* ledger: operations of the file, in memory, or as it would
                \* be loaded
    durable,    \* ledger: the same, as of its last commit
    linked,     \* pile: operations whose seals and witness it holds
    dumped,     \* the directory the user dumps to holds files
    reader,     \* which of the three reads it
    at,         \* where the call is
    pos,        \* blocks of the stream read so far, the genesis is the first
    torn,       \* the stream was read on in the middle of a block
    count,      \* operations still expected
    held,       \* operations this call has decoded in memory
    given       \* operations given to the evaluation (or dumped), in order

ledger == <<applied, durable>>
stores == <<known, begun, applied, durable, linked, dumped>>
vars   == <<file, stores, reader, at, pos, torn, count, held, given>>

NoBlock == -1

Files == [version  : BOOLEAN,          \* a version this code reads
          blocks   : 0 .. MaxBlocks,   \* how many operations follow the genesis
          declared : 0 .. U32Max,      \* the number written after the genesis
          witness  : BOOLEAN,          \* the genesis has a witness
          refused  : {NoBlock} \union (0 .. MaxBlocks),  \* fails verification
          articles : BOOLEAN]          \* signature and network are accepted

Places == {"start", "header", "decode", "articles", "ops", "evaluated", "upgrade",
           "ok", "error", "rejected"}

Operations(q) == q \in Seq(0 .. MaxBlocks) /\ Len(q) <= MaxBlocks + 1

TypeOK ==
    /\ file \in Files
    /\ known \in BOOLEAN /\ begun \in BOOLEAN /\ dumped \in BOOLEAN
    /\ applied \subseteq 0 .. MaxBlocks
    /\ durable \subseteq 0 .. MaxBlocks
    /\ linked \subseteq 0 .. MaxBlocks
    /\ reader \in {"memory", "stream", "dump"}
    /\ at \in Places
    /\ pos \in 0 .. MaxBlocks + 1
    /\ torn \in BOOLEAN
    /\ count \in 0 .. U32Max
    /\ Operations(held) /\ Operations(given)

\* A contract that is known holds the genesis of its consignments.
Init ==
    /\ file \in Files
    /\ known \in BOOLEAN
    /\ begun = known
    /\ applied = IF known /\ file.refused # 0 THEN {0} ELSE {}
    /\ durable = applied
    /\ linked = applied
    /\ dumped = FALSE
    /\ reader = "memory"
    /\ at = "start"
    /\ pos = 0
    /\ torn = FALSE
    /\ count = 0
    /\ held = <<>>
    /\ given = <<>>

Go(place) == at' = place

Error == Go("error") /\ UNCHANGED <<file, stores, reader, pos, torn, count, held, given>>

\* There is a block to decode where the stream is read.
AtBlock == ~torn /\ pos <= file.blocks

-----------------------------------------------------------------------------
(***************************************************************************)
(* The head: version, contract id, and the choice of the reader.           *)
(***************************************************************************)
ChooseReader(allowUnknown) ==
    /\ known \/ allowUnknown
    /\ reader' = IF known THEN "stream" ELSE "memory"

Consume(allowUnknown) ==
    /\ at = "start"
    /\ file.version
    /\ ChooseReader(allowUnknown)
    /\ Go("header")
    /\ UNCHANGED <<file, stores, pos, torn, count, held, given>>

\* With force, what is in the directory is removed.
Dump(force) ==
    /\ at = "start"
    /\ file.version
    /\ reader' = "dump"
    /\ dumped' = (dumped /\ ~force)
    /\ Go("header")
    /\ UNCHANGED <<file, known, begun, ledger, linked, pos, torn, count, held, given>>

HeadErr ==
    /\ at = "start"
    /\ ~file.version \/ ~known
    /\ Error

-----------------------------------------------------------------------------
(***************************************************************************)
(* In memory: all is decoded, then the articles are checked, then the      *)
(* operations are evaluated.                                               *)
(***************************************************************************)
\* Mutant: the largest number allowed is refused.
FitsBelow == ~file.witness /\ file.declared < MAX_CONSIGNMENT_OPS

Fits == ~file.witness /\ file.declared <= MAX_CONSIGNMENT_OPS

DecodeHeader ==
    /\ reader = "memory" /\ at = "header"
    /\ Fits
    /\ pos' = 1
    /\ held' = <<0>>
    /\ count' = file.declared
    /\ Go("decode")
    /\ UNCHANGED <<file, stores, reader, torn, given>>

\* Mutant: the operations are put before those decoded earlier.
DecodeBlockFirst ==
    /\ reader = "memory" /\ at = "decode"
    /\ count > 0
    /\ AtBlock
    /\ pos' = pos + 1
    /\ held' = <<pos>> \o held
    /\ count' = count - 1
    /\ UNCHANGED <<file, stores, reader, at, torn, given>>

DecodeBlock ==
    /\ reader = "memory" /\ at = "decode"
    /\ count > 0
    /\ AtBlock
    /\ pos' = pos + 1
    /\ held' = Append(held, pos)
    /\ count' = count - 1
    /\ UNCHANGED <<file, stores, reader, at, torn, given>>

DecodeErr ==
    /\ reader = "memory"
    /\ \/ at = "header" /\ ~Fits
       \/ at = "decode" /\ count > 0 /\ ~AtBlock
    /\ Error

DecodeEnd ==
    /\ reader = "memory" /\ at = "decode"
    /\ count = 0
    /\ Go("articles")
    /\ UNCHANGED <<file, stores, reader, pos, torn, count, held, given>>

\* Consignment::articles and check_layer1; then the directory is created,
\* unless there is one.
CheckArticles ==
    /\ at = "articles"
    /\ IF file.articles /\ ~begun
       THEN Go("ops") /\ begun' = TRUE
       ELSE Go("error") /\ begun' = begun
    /\ UNCHANGED <<file, known, ledger, linked, dumped, reader, pos, torn, count, held, given>>

\* The evaluation takes an operation and refuses it, or applies it unless
\* the ledger holds it, in which the ledger may commit, and adds its seals
\* and its witness to the pile, which include commits at once.
Evaluate(op) ==
    /\ given' = Append(given, op)
    /\ IF op = file.refused
       THEN Go("error") /\ UNCHANGED <<ledger, linked>>
       ELSE /\ Go("ops")
            /\ applied' = applied \union {op}
            /\ durable' \in {durable} \union (IF op \in applied THEN {} ELSE {applied'})
            /\ linked' = linked \union {op}
    /\ UNCHANGED <<known, begun, dumped>>

\* InMemOps: the genesis, then the next of the vector.
ReadHeld ==
    /\ reader = "memory" /\ at = "ops"
    /\ Len(given) < Len(held)
    /\ Evaluate(held[Len(given) + 1])
    /\ UNCHANGED <<file, reader, pos, torn, count, held>>

HeldEnd ==
    /\ reader = "memory" /\ at = "ops"
    /\ Len(given) = Len(held)
    /\ Go("evaluated")
    /\ UNCHANGED <<file, stores, reader, pos, torn, count, held, given>>

-----------------------------------------------------------------------------
(***************************************************************************)
(* As a stream.  The count begins as u32::MAX, to say that the actual one  *)
(* follows the operation that is read next.                                *)
(***************************************************************************)
BeginStream ==
    /\ reader = "stream" /\ at = "header"
    /\ count' = U32Max
    /\ Go("ops")
    /\ UNCHANGED <<file, stores, reader, pos, torn, held, given>>

\* Mutant: the operation before the count was read is counted as well.
CountedGenesis ==
    IF count = U32Max /\ pos = 0
    THEN count' = (IF file.declared = 0 THEN 0 ELSE file.declared - 1) /\ torn' = torn
    ELSE count' = count - 1 /\ torn' = torn

\* Past the genesis there is no count to read: the bytes taken for one are
\* the first ones of the next block.
Counted ==
    CASE count = U32Max /\ pos = 0 -> count' = file.declared /\ torn' = torn
      [] count = U32Max /\ pos > 0 -> count' \in 0 .. U32Max /\ torn' = TRUE
      [] OTHER                     -> count' = count - 1 /\ torn' = torn

\* Mutant: a count of zero does not end the reading.
ReadStreamOn ==
    /\ reader = "stream" /\ at = "ops"
    /\ AtBlock
    /\ pos' = pos + 1
    /\ Counted
    /\ Evaluate(pos)
    /\ UNCHANGED <<file, reader, held>>

ReadStream ==
    /\ reader = "stream" /\ at = "ops"
    /\ count > 0
    /\ AtBlock
    /\ pos' = pos + 1
    /\ Counted
    /\ Evaluate(pos)
    /\ UNCHANGED <<file, reader, held>>

StreamErr ==
    /\ reader = "stream" /\ at = "ops"
    /\ count > 0
    /\ ~AtBlock
    /\ Error

StreamEnd ==
    /\ reader = "stream" /\ at = "ops"
    /\ count = 0
    /\ Go("evaluated")
    /\ UNCHANGED <<file, stores, reader, pos, torn, count, held, given>>

-----------------------------------------------------------------------------
(***************************************************************************)
(* evaluate_commit.  A contract that was read as a stream has its articles *)
(* checked and upgraded only now.                                          *)
(***************************************************************************)
\* Mutant: the transaction of the ledger is left open.
CommitPileOnly ==
    /\ at = "evaluated"
    /\ Go(IF reader = "memory" THEN "ok" ELSE "upgrade")
    /\ known' = TRUE
    /\ UNCHANGED <<file, begun, ledger, linked, dumped, reader, pos, torn, count, held, given>>

\* What the ledger holds from earlier calls that failed is committed too.
\* Then an imported contract is registered.
Commit ==
    /\ at = "evaluated"
    /\ durable' = applied
    /\ Go(IF reader = "memory" THEN "ok" ELSE "upgrade")
    /\ known' = TRUE
    /\ UNCHANGED <<file, begun, applied, linked, dumped, reader, pos, torn, count, held, given>>

UpgradeApis ==
    /\ at = "upgrade"
    /\ Go(IF file.articles THEN "ok" ELSE "rejected")
    /\ UNCHANGED <<file, stores, reader, pos, torn, count, held, given>>

-----------------------------------------------------------------------------
(***************************************************************************)
(* The dump, which evaluates nothing and checks no signature.  It creates  *)
(* its files anew and fails on one that exists, the first time with those  *)
(* of the articles; the files of an operation are named after its number,  *)
(* so that they can not be there if these were not.                        *)
(***************************************************************************)
DumpHeader ==
    /\ reader = "dump" /\ at = "header"
    /\ ~dumped
    /\ ~file.witness
    /\ dumped' = TRUE
    /\ given' = <<0>>
    /\ pos' = 1
    /\ count' = file.declared
    /\ Go("ops")
    /\ UNCHANGED <<file, known, begun, ledger, linked, reader, torn, held>>

DumpBlock ==
    /\ reader = "dump" /\ at = "ops"
    /\ count > 0
    /\ AtBlock
    /\ given' = Append(given, pos)
    /\ pos' = pos + 1
    /\ count' = count - 1
    /\ UNCHANGED <<file, stores, reader, at, torn, held>>

\* bail!, an error, or a panic.
DumpErr ==
    /\ reader = "dump"
    /\ \/ at = "header" /\ (dumped \/ file.witness)
       \/ at = "ops" /\ count > 0 /\ ~AtBlock
    /\ dumped' = TRUE
    /\ Go("error")
    /\ UNCHANGED <<file, known, begun, ledger, linked, reader, pos, torn, count, held, given>>

DumpEnd ==
    /\ reader = "dump" /\ at = "ops"
    /\ count = 0
    /\ Go("ok")
    /\ UNCHANGED <<file, stores, reader, pos, torn, count, held, given>>

-----------------------------------------------------------------------------
Reading ==
    \/ DecodeHeader \/ DecodeBlock \/ DecodeErr \/ DecodeEnd
    \/ CheckArticles \/ ReadHeld \/ HeldEnd
    \/ BeginStream \/ ReadStream \/ StreamErr \/ StreamEnd
    \/ Commit \/ UpgradeApis
    \/ DumpHeader \/ DumpBlock \/ DumpErr \/ DumpEnd

\* The user opens the same file once more, in the same process or in a new
\* one, which finds every directory and loads the ledger.  An import that
\* failed has dropped its contract.
Again(restart) ==
    /\ at \in {"ok", "error", "rejected"}
    /\ known' = (known \/ (restart /\ begun))
    /\ applied' = IF restart \/ ~known THEN durable ELSE applied
    /\ reader' = "memory"
    /\ Go("start")
    /\ pos' = 0
    /\ torn' = FALSE
    /\ count' = 0
    /\ held' = <<>>
    /\ given' = <<>>
    /\ UNCHANGED <<file, begun, durable, linked, dumped>>

Next ==
    \/ \E allowUnknown \in BOOLEAN : Consume(allowUnknown)
    \/ \E force \in BOOLEAN : Dump(force)
    \/ HeadErr
    \/ Reading
    \/ \E restart \in BOOLEAN : Again(restart)

Spec == Init /\ [][Next]_vars

\* A call that has chosen its reader runs to its end; nothing makes the user
\* begin one.
FairSpec == Spec /\ WF_vars(Reading)

-----------------------------------------------------------------------------
Sentinel == file.declared = U32Max

\* The operations of a consignment: the genesis and as many as it declares.
Whole == [i \in 1 .. file.declared + 1 |-> i - 1]

\* What a reader accepts.
Good ==
    /\ file.declared <= file.blocks
    /\ reader \in {"memory", "dump"} => ~file.witness
    /\ reader = "memory" => file.declared <= MAX_CONSIGNMENT_OPS
    /\ reader # "dump" => file.articles /\ file.refused \notin 0 .. file.declared

(***************************************************************************)
(* A call that returns without an error has read exactly what the file     *)
(* declares, whichever reader it was, and has found nothing wrong with it; *)
(* what follows the last declared operation is not looked at.              *)
(***************************************************************************)
AcceptedWhole == at = "ok" /\ ~Sentinel => given = Whole /\ Good

(***************************************************************************)
(* What the stores hold of a consignment is, at any time, a beginning of   *)
(* its history, with nothing the evaluation has refused and nothing that   *)
(* is not declared: after errors at any operation, imports that were left  *)
(* half way, restarts, and attempts with another reader.  The disk of the  *)
(* ledger is never ahead of its memory, nor the ledger of the pile, and a  *)
(* call that ends well has the whole history on disk.  An import that is   *)
(* evaluated has decoded all of it, and the issuer's signature is right.   *)
(***************************************************************************)
Beginning(S) == \E n \in 0 .. MaxBlocks + 1 : S = 0 .. n - 1

StoredInOrder ==
    /\ Beginning(applied) /\ Beginning(durable) /\ Beginning(linked)
    /\ durable \subseteq applied /\ applied \subseteq linked
    /\ file.refused \notin linked
    /\ ~Sentinel => linked \subseteq 0 .. file.declared
    /\ at = "ok" /\ reader # "dump" /\ ~Sentinel => durable = 0 .. file.declared
    /\ reader = "memory" /\ given # <<>> => held = Whole /\ file.articles

(***************************************************************************)
(* A consignment that is complete and right for its reader is accepted:    *)
(* no reader stops before the end of the stream, waits for more than was   *)
(* declared, or fails on a file another reader has accepted before or has  *)
(* been left half way with.  A dump needs a directory without an old one.  *)
(***************************************************************************)
GoodAccepted ==
    /\ at = "header" /\ Good /\ ~Sentinel /\ (reader = "dump" => ~dumped)
    ~> at = "ok" /\ given = Whole

(***************************************************************************)
(* Every reader is a source of the operations of the file, except that a   *)
(* count of u32::MAX is not told from the value that asks for the count.   *)
(***************************************************************************)
End ==
    CASE at = "error"                                      -> "error"
      [] at \in {"evaluated", "upgrade", "ok", "rejected"} -> "none"
      [] OTHER                                             -> "open"

Source == INSTANCE OperationSource WITH
    whole <- Whole,
    given <- IF Sentinel THEN <<>> ELSE given,
    end   <- IF Sentinel THEN "open" ELSE End

ImplementsSource == Source!Spec
=============================================================================
