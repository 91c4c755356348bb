----------------------------- MODULE MCContract -----------------------------
(***************************************************************************)
(* Two instances.  In both genesis has two outputs and transfer spends the *)
(* first.  Bundle: mint spends the second output and shares the            *)
(* transaction tx1 with transfer, which also has the replacement tx2.      *)
(* Rivals: payment builds on transfer, each has a transaction, and mint    *)
(* spends both outputs of genesis and has none.                            *)
(***************************************************************************)
EXTENDS Contract

MCCells == {"g1", "g2", "t1", "p1", "m1"}

MCDefiner == [c \in MCCells |-> CASE c \in {"g1", "g2"} -> "genesis"
                                  [] c = "t1" -> "transfer"
                                  [] c = "p1" -> "payment"
                                  [] c = "m1" -> "mint"]

MCSrcSeals    == {"g1", "g2", "p1"}
MCCallerSeals == {"t1", "p1"}

BundleOps == {"genesis", "transfer", "mint"}

BundleCells == MCCells \ {"p1"}

BundleDefiner == [c \in BundleCells |-> MCDefiner[c]]

BundleSpends == [o \in BundleOps |-> CASE o = "genesis"  -> {}
                                       [] o = "transfer" -> {"g1"}
                                       [] o = "mint"     -> {"g2"}]

BundleAncestors == [o \in BundleOps |-> {o, "genesis"}]

BundleWids == {"tx1", "tx2"}

BundleCarries == {<<"transfer", "tx1">>, <<"mint", "tx1">>, <<"transfer", "tx2">>}

BundleReported == {Archived, Tentative}

RivalOps == BundleOps \union {"payment"}

RivalSpends == [o \in RivalOps |-> CASE o = "genesis"  -> {}
                                     [] o = "transfer" -> {"g1"}
                                     [] o = "payment"  -> {"t1"}
                                     [] o = "mint"     -> {"g1", "g2"}]

RivalAncestors ==
    [o \in RivalOps |-> {o, "genesis"} \union (IF o = "payment" THEN {"transfer"} ELSE {})]

RivalWids     == {"tx1", "tx3"}
RivalCarries  == {<<"transfer", "tx1">>, <<"payment", "tx3">>}
RivalReported == {Archived, Tentative, Mined(1)}
=============================================================================
