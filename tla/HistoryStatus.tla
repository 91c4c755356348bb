--------------------------- MODULE HistoryStatus ---------------------------
(***************************************************************************)
(* How Contract::state derives the status of the state one operation       *)
(* defined: it walks over the ancestors of the operation, reduces the      *)
(* witnesses of each one to the best status (Contract::witness_status) and *)
(* folds these into the worst, once per operation; each piece of state     *)
(* then gets the worst of the fold and of one more status (the closure     *)
(* get_status).  That status is the operation's own for global state and   *)
(* for state on a seal with an outpoint of its own.  State on an output of *)
(* the transaction that seals it is reported in one copy per witness of    *)
(* the operation, and there it is the status of that witness.              *)
(*                                                                         *)
(* The storage promises no order for either iteration, so the model takes  *)
(* any.  Every status is one read back from the 8 bytes the pile keeps.    *)
(***************************************************************************)
EXTENDS WitnessStatus

CONSTANTS
    Op,        \* the operation that defined the state
    History,   \* it and its ancestors
    Reported   \* the statuses a witness of theirs may have

NoOp == "no operation"

ASSUME HistoryAssumption ==
    Reported \subseteq DistinctStatus /\ Op \in History /\ NoOp \notin History

VARIABLES
    witnesses,  \* the statuses of the witnesses of each operation
    todo,       \* the ancestors not folded yet
    current,    \* the one being reduced
    unread,     \* its witnesses not read yet
    best,       \* accumulator of the reduction
    worst,      \* accumulator of the fold, cached for all state of Op
    reported    \* the pieces of state listed so far

vars == <<witnesses, todo, current, unread, best, worst, reported>>

\* The empty Option of the reduction; the carrier of state that no witness
\* transaction carries.
None == [kind |-> "None", height |-> 0]

\* A piece of state as it is listed: the status of the witness whose output
\* carries it, and the status it gets.
Piece == [carrier : Reported \union {None}, status : Reported \union {Genesis}]

TypeOK ==
    /\ witnesses \in [History -> SUBSET Reported]
    /\ todo \subseteq History
    /\ current \in History \union {NoOp}
    /\ unread \subseteq Reported
    /\ best \in Reported \union {None}
    /\ worst \in Reported \union {Genesis}
    /\ reported \subseteq Piece

Init ==
    /\ witnesses \in [History -> SUBSET Reported]
    /\ todo = History
    /\ current = NoOp
    /\ unread = {}
    /\ best = None
    /\ worst = Genesis
    /\ reported = {}

\* The iterator over the ancestors yields the next one.
TakeAncestor(o) ==
    /\ current = NoOp
    /\ o \in todo
    /\ todo' = todo \ {o}
    /\ current' = o
    /\ unread' = witnesses[o]
    /\ best' = None
    /\ UNCHANGED <<witnesses, worst, reported>>

\* Mutant: the reduction keeps the last witness it read.
ReduceToLast(s) ==
    /\ s \in unread
    /\ unread' = unread \ {s}
    /\ best' = s
    /\ UNCHANGED <<witnesses, todo, current, worst, reported>>

\* .map(witness_status).reduce(best)
Reduce(s) ==
    /\ s \in unread
    /\ unread' = unread \ {s}
    /\ LET read == FromDepth(ToDepth(s))
       IN  best' = IF best = None THEN read ELSE Best(best, read)
    /\ UNCHANGED <<witnesses, todo, current, worst, reported>>

\* .unwrap_or(Genesis), then .fold(Genesis, worst)
Fold ==
    /\ current # NoOp
    /\ unread = {}
    /\ worst' = Worst(worst, IF best = None THEN Genesis ELSE best)
    /\ current' = NoOp
    /\ best' = None
    /\ UNCHANGED <<witnesses, todo, unread, reported>>

Done == todo = {} /\ current = NoOp

OpStatus(o) == IF witnesses[o] = {} THEN Genesis ELSE BestOf(witnesses[o])

\* get_status(opid, or), once the fold is in the cache.
Report(carrier, or) ==
    /\ Done
    /\ reported' = reported \union {[carrier |-> carrier, status |-> Worst(worst, or)]}
    /\ UNCHANGED <<witnesses, todo, current, unread, best, worst>>

\* State on a seal with an outpoint, and global state.
ReportOwn == Report(None, OpStatus(Op))

\* Mutant: every copy gets the status of the operation, as the documentation
\* has it.
ReportCopyOfOp(s) == s \in witnesses[Op] /\ Report(s, OpStatus(Op))

\* The copy of state on an output of one witness transaction.
ReportCopy(s) == s \in witnesses[Op] /\ Report(s, s)

Next ==
    \/ \E o \in History : TakeAncestor(o)
    \/ \E s \in Reported : Reduce(s) \/ ReportCopy(s)
    \/ Fold
    \/ ReportOwn

Spec == Init /\ [][Next]_vars

-----------------------------------------------------------------------------
Dead(o) == witnesses[o] # {} /\ \A s \in witnesses[o] : ~IsValid(s)

Others == {OpStatus(o) : o \in History \ {Op}} \union {Genesis}

(***************************************************************************)
(* Whatever the order of the iterations, and after the round trip of each  *)
(* status through its stored bytes: state on an outpoint of its own has    *)
(* the status its documentation defines (OwnedState::status), the maximum  *)
(* over the history of the minimum over the witnesses; a copy of state on  *)
(* an output of a witness transaction has the same maximum with that one   *)
(* witness in place of all those of its operation, a difference the        *)
(* documentation does not make.                                            *)
(***************************************************************************)
FoldMeetsFormula ==
    \A p \in reported :
        p.status = WorstOf(Others \union {IF p.carrier = None THEN OpStatus(Op) ELSE p.carrier})

(***************************************************************************)
(* One dead operation of the history (it has witnesses and every one is    *)
(* archived) archives everything built on it; a replaced (RBF) transaction *)
(* beside a live one archives nothing but the copies of state on its own   *)
(* outputs.                                                                *)
(***************************************************************************)
ArchivedIffDeadAncestor ==
    \A p \in reported :
        p.status = Archived <=> (\E o \in History : Dead(o)) \/ p.carrier = Archived
=============================================================================
