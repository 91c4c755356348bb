--------------------------- MODULE OperationSource ---------------------------
(***************************************************************************)
(* What the evaluation of a contract relies on when it reads operations    *)
(* (the trait ReadOperation, as Contract::evaluate_commit uses it): from a *)
(* source it gets the operations of a history, genesis first, each one     *)
(* once and in order; the end is reported only after the last one; and     *)
(* after an error nothing more is read.                                    *)
(***************************************************************************)
EXTENDS Naturals, Sequences

VARIABLES
    whole,  \* the operations of the history, in order
    given,  \* those read so far
    end     \* "open", "none" after the last one, or "error"

vars == <<whole, given, end>>

Init ==
    /\ given = <<>>
    /\ end = "open"

Give ==
    /\ end = "open"
    /\ Len(given) < Len(whole)
    /\ given' = Append(given, whole[Len(given) + 1])
    /\ end' \in {"open", "error"}   \* the evaluation may refuse it
    /\ UNCHANGED whole

None ==
    /\ end = "open"
    /\ given = whole
    /\ end' = "none"
    /\ UNCHANGED <<whole, given>>

Fail ==
    /\ end = "open"
    /\ end' = "error"
    /\ UNCHANGED <<whole, given>>

\* Another source is opened.
Open ==
    /\ end # "open"
    /\ given' = <<>>
    /\ end' = "open"
    /\ UNCHANGED whole

Next == Give \/ None \/ Fail \/ Open

Spec == Init /\ [][Next]_vars
=============================================================================
