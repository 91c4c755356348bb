------------------------------ MODULE MCPileFs ------------------------------
(* Two operations over two witnesses: every order of interrupted and      *)
(* completed inclusions of up to four pairs.                               *)
EXTENDS PileFs

CONSTANTS op1, op2, tx1, tx2, cell1

MCOps      == {op1, op2}
MCWids     == {tx1, tx2}
MCCells    == {cell1}
MCReported == {Archived, Mined(1)}
=============================================================================
