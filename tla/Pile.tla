-------------------------------- MODULE Pile --------------------------------
(***************************************************************************)
(* What the persistence of witnesses promises to a contract (trait Pile,   *)
(* src/pile.rs), told in terms of what a restart finds: the operations     *)
(* recorded with each witness, and the status of each witness.  An         *)
(* inclusion takes effect at once or not at all; what was recorded is      *)
(* never lost; a status exists exactly for the witnesses that are          *)
(* recorded, and begins as tentative.                                      *)
(*                                                                         *)
(* An inclusion that was interrupted may take effect later, together with  *)
(* that of another operation of the same witness.                          *)
(***************************************************************************)
EXTENDS WitnessStatus

CONSTANTS Ops, Wids

VARIABLES
    attempted,  \* inclusions that were begun, finished or not
    recorded,   \* inclusions in effect
    status      \* the status of each witness, as of the last commit

vars == <<attempted, recorded, status>>

NoStatus == [kind |-> "None", height |-> 0]

Init ==
    /\ attempted = {}
    /\ recorded = {}
    /\ status = [w \in Wids |-> NoStatus]

\* add_witness is called.
Attempt(o, w) ==
    /\ attempted' = attempted \union {<<o, w>>}
    /\ UNCHANGED <<recorded, status>>

\* Every commit keeps a status for the recorded witnesses and no others.
StatusesOf(pairs) ==
    /\ status' \in [Wids -> (DistinctStatus \ {Genesis}) \union {NoStatus}]
    /\ \A w \in Wids : status'[w] # NoStatus <=> \E o \in Ops : <<o, w>> \in pairs

\* Inclusions on one witness take effect, with whatever other statuses
\* were updated before.
Record(o, w) ==
    /\ attempted' = attempted \union {<<o, w>>}
    /\ recorded \subseteq recorded'
    /\ recorded' \ recorded \subseteq {p \in attempted' : p[2] = w}
    /\ <<o, w>> \in recorded'
    /\ status[w] = NoStatus => status'[w] = Tentative
    /\ StatusesOf(recorded')

\* commit_transaction after updates of statuses.
CommitStatuses ==
    /\ StatusesOf(recorded)
    /\ UNCHANGED <<attempted, recorded>>

Next ==
    \/ \E o \in Ops, w \in Wids : Attempt(o, w)
    \/ \E o \in Ops, w \in Wids : Record(o, w)
    \/ CommitStatuses

Spec == Init /\ [][Next]_vars
=============================================================================
