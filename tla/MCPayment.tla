------------------------------ MODULE MCPayment ------------------------------
\* Coins and bonds of one contract and coins of another on two outpoints, in
\* amounts that overflow when taken together.
EXTENDS Payment

Allocation(no, contract, name, amount, on) ==
    [addr |-> <<0, 0, no>>, contract |-> contract, name |-> name, amount |-> amount, on |-> on]

InitialDef ==
    {Allocation(1, "A", "coin", 2, <<"utxo", 1>>),
     Allocation(2, "A", "coin", 2, <<"utxo", 1>>),
     Allocation(3, "A", "coin", 1, <<"utxo", 1>>),
     Allocation(4, "A", "coin", 1, <<"utxo", 2>>),
     Allocation(5, "A", "bond", 1, <<"utxo", 2>>),
     Allocation(6, "B", "coin", 1, <<"utxo", 1>>),
     Allocation(7, "B", "coin", 3, <<"utxo", 2>>)}

UtxosDef == {<<"utxo", 1>>, <<"utxo", 2>>}

ToPayee == [to |-> "wout", wout |-> "w"]

Token == [to |-> "token", token |-> "t"]

ScriptsDef ==
    {[contract |-> "A", owned |-> <<Assign("coin", 1, ToPayee), Assign("coin", 1, ToPayee)>>],
     [contract |-> "A", owned |-> <<Assign("coin", 1, Token), Assign("coin", 1, Token),
                                    Assign("bond", 1, Change)>>]}
=============================================================================
