------------------------------ MODULE MCWallet ------------------------------
(* Two contracts on one outpoint.  The wallet begins with one of them, in  *)
(* two kinds of state, two allocations of the first kind; state of the     *)
(* other one arrives at some point, and imports it.                        *)
EXTENDS Wallet

u1 == <<"utxo", 1>>

At(c, name, no, on) == [contract |-> c, name |-> name, op |-> <<0, no>>, on |-> on]

MCUtxos == {u1}

MCInitial == {At("A", "coin", 1, u1), At("A", "coin", 2, u1), At("A", "nft", 3, u1)}

MCIncoming == {At("B", "coin", 4, u1)}
=============================================================================
