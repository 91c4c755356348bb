-------------------------------- MODULE Purse --------------------------------
(***************************************************************************)
(* What the wallet promises about the state it pays with (popls/bp.rs),    *)
(* told in terms of where each allocation is.  Operations put as much of   *)
(* each kind aside as they take; what was put aside goes to the purse or   *)
(* to the payee when the transaction is paid, and is lost when it is given *)
(* up; what stays on a spent outpoint is stranded.  Nothing lost comes     *)
(* back.  An operation draws on what is stranded or the payee's only if    *)
(* the bundle is blocked, and will be given up, or if it is astray: made   *)
(* from a request that gives a wrong outpoint for the state it uses.       *)
(***************************************************************************)
CONSTANTS
    Kind(_),   \* the contract and the name of an allocation
    Worth(_)   \* what allocations of one kind amount to

VARIABLES
    purse,      \* on outpoints the payer may spend
    waiting,    \* made by operations of the transaction at hand
    delivered,  \* the payee's
    stranded,   \* left on an outpoint that was spent
    lost,       \* made for a transaction that was given up
    blocked,    \* the bundle at hand closes what the payer may not spend
    astray      \* it uses state that is not on the outpoints it closes

vars == <<purse, waiting, delivered, stranded, lost, blocked, astray>>

Init ==
    /\ waiting = {} /\ delivered = {} /\ stranded = {} /\ lost = {}
    /\ ~blocked /\ ~astray

Balanced(taken, given) ==
    \A k \in {Kind(x) : x \in taken \union given} :
        Worth({x \in taken : Kind(x) = k}) = Worth({x \in given : Kind(x) = k})

\* An operation for the transaction at hand.
Operate ==
    \E taken \in SUBSET (purse \union stranded \union delivered) :
        /\ taken \subseteq purse \/ blocked' \/ astray'
        /\ purse' = purse \ taken
        /\ stranded' = stranded \ taken
        /\ delivered' = delivered \ taken
        /\ waiting \subseteq waiting'
        /\ (waiting' \ waiting) \intersect (purse \union delivered \union stranded \union lost) = {}
        /\ Balanced(taken, waiting' \ waiting)
        /\ blocked => blocked'
        /\ astray => astray'
        /\ UNCHANGED lost

\* The transaction is paid.
Deliver ==
    /\ ~blocked
    /\ \E change \in SUBSET waiting, left \in SUBSET purse :
        /\ purse' = (purse \ left) \union change
        /\ delivered' = delivered \union (waiting \ change)
        /\ stranded' = stranded \union left
        /\ waiting' = {}
        /\ UNCHANGED lost
    /\ ~blocked' /\ ~astray'

\* The transaction is given up.
Abandon ==
    /\ lost' = lost \union waiting
    /\ waiting' = {}
    /\ ~blocked' /\ ~astray'
    /\ UNCHANGED <<purse, delivered, stranded>>

Next == Operate \/ Deliver \/ Abandon

Spec == Init /\ [][Next]_vars
=============================================================================
