---------------------------- MODULE MCContracts ----------------------------
(* Two contracts of this network and one directory of another network in   *)
(* the same stockpile; or the two contracts alone.  A consignment of one   *)
(* of them may have a header that announces the other.                     *)
EXTENDS Contracts

CONSTANTS contract1, contract2, foreign1

MCIds        == {contract1, contract2, foreign1}
MCForeign    == {foreign1}
MCOwn        == {contract1, contract2}
MCNone       == {}
MCMismatched == {<<contract2, contract1>>}
MCReported   == {Archived, Mined(1)}
=============================================================================
