--------------------------- MODULE WitnessStatus ---------------------------
(***************************************************************************)
(* The confirmation status of a witness transaction (src/pile.rs) and the  *)
(* two orders the library takes over it: the best status among the         *)
(* witnesses of one operation, the worst one along a history of operations.*)
(*                                                                         *)
(* A status is ordered by its quasi-height, an unsigned integer whose      *)
(* largest values are reserved for the statuses that have no height.       *)
(***************************************************************************)
EXTENDS Integers

CONSTANT U64Max \* u64::MAX of the code; small in the TLC instances

ASSUME U64MaxAssumption == U64Max \in Nat /\ U64Max > 3

\* u64::MAX is all ones, so flipping one of its two lowest bits subtracts it.
GENESIS   == 0
TENTATIVE == U64Max - 1
OFFCHAIN  == U64Max - 2
ARCHIVED  == U64Max

Genesis   == [kind |-> "Genesis", height |-> 0]
Tentative == [kind |-> "Tentative", height |-> 0]
Offchain  == [kind |-> "Offchain", height |-> 0]
Archived  == [kind |-> "Archived", height |-> 0]
Mined(h)  == [kind |-> "Mined", height |-> h]

\* Everything the type can hold: Mined carries any non-zero u64.
Status == {Genesis, Tentative, Offchain, Archived} \union {Mined(h) : h \in 1 .. U64Max}

\* The statuses whose quasi-heights are all different: no height of a real
\* chain comes near the three reserved values.
DistinctStatus ==
    {Genesis, Tentative, Offchain, Archived} \union {Mined(h) : h \in 1 .. OFFCHAIN - 1}

IsMined(s) == s.kind = "Mined"

IsValid(s) == s.kind # "Archived"

QuasiHeight(s) ==
    CASE s.kind = "Genesis"   -> GENESIS
      [] s.kind = "Archived"  -> ARCHIVED
      [] s.kind = "Tentative" -> TENTATIVE
      [] s.kind = "Offchain"  -> OFFCHAIN
      [] s.kind = "Mined"     -> s.height

IsBetter(s, other) == QuasiHeight(s) < QuasiHeight(other)

IsWorse(s, other) == ~IsBetter(s, other)

Best(s, other) == IF IsBetter(s, other) THEN s ELSE other

\* Mutant: the comparison of Best pasted into Worst.
WorstByBest(s, other) == IF IsBetter(s, other) THEN s ELSE other

Worst(s, other) == IF IsWorse(s, other) THEN s ELSE other

(***************************************************************************)
(* What is kept on disk: the depth under u64::MAX, read back by comparing  *)
(* with the reserved heights first.                                        *)
(***************************************************************************)
ToDepth(s) == U64Max - QuasiHeight(s)

\* Mutant: the height is taken for a mined one before the reserved values
\* are looked at.
FromDepthMinedFirst(depth) ==
    LET height == U64Max - depth
    IN  IF height # GENESIS /\ height < ARCHIVED THEN Mined(height)
        ELSE IF height = GENESIS THEN Genesis ELSE Archived

FromDepth(depth) ==
    LET height == U64Max - depth
    IN  CASE height = GENESIS   -> Genesis
          [] height = ARCHIVED  -> Archived
          [] height = TENTATIVE -> Tentative
          [] height = OFFCHAIN  -> Offchain
          [] OTHER              -> Mined(height)

-----------------------------------------------------------------------------
(***************************************************************************)
(* Reference definitions over sets, free of any order of evaluation.       *)
(***************************************************************************)
BestOf(S)  == CHOOSE s \in S : \A t \in S : ~IsBetter(t, s)
WorstOf(S) == CHOOSE s \in S : \A t \in S : ~IsBetter(s, t)
=============================================================================
