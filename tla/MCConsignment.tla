--------------------------- MODULE MCConsignment ---------------------------
(* All files of up to four operations after the genesis, cut short, of     *)
(* the declared length, or with something behind it; the limit is below    *)
(* what a file may hold, and the largest count is the sentinel.            *)
EXTENDS Consignment
=============================================================================
