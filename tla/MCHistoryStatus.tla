-------------------------- MODULE MCHistoryStatus --------------------------
(* Two operations, each with any set of witnesses over five statuses.      *)
EXTENDS HistoryStatus

CONSTANTS op1, op2

MCOp       == op1
MCHistory  == {op1, op2}
MCReported == {Archived, Tentative, Offchain, Mined(1), Mined(U64Max - 3)}
=============================================================================
