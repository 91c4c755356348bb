------------------------------- MODULE Wallet -------------------------------
(***************************************************************************)
(* The wallet over a collection of contracts (RgbWallet, src/popls/bp.rs). *)
(* Allocations of several contracts, and of several kinds of state of one  *)
(* contract, may sit on the same UTXO, and a transaction that spends it    *)
(* destroys what the operations of its bundle do not move.  Making a       *)
(* payment is several calls (fulfill, bundle, include, and the broadcast   *)
(* of the transaction) with other calls in between; bundle applies one     *)
(* operation after another to the contracts, and may fail at any of them.  *)
(*                                                                         *)
(* Amounts are not modelled: an operation either leaves change of a kind   *)
(* of state or does not, and any state that is added to a selection may    *)
(* not fit.  Each bundle is made for a transaction of its own, with at     *)
(* most one output for changes.                                            *)
(***************************************************************************)
EXTENDS Integers, FiniteSets

CONSTANTS
    Initial,      \* allocations the wallet begins with
    Incoming,     \* allocations others may assign to it, on its UTXOs
    Utxos,        \* the outpoints it begins with
    MaxTx,        \* bound: calls of bundle, and no request after the last
    MaxRequests,  \* bound: requests at hand at any time
    MaxWritten    \* bound: requests written by hand in a bundle, and the
                  \* allocations each uses

VARIABLES
    live,      \* allocations in the states of the contracts
    coming,    \* those of Incoming that did not arrive yet
    hidden,    \* those that arrived by the import of their contract
    linked,    \* operations included with a witness
    utxos,     \* outpoints the wallet may spend
    requests,  \* operation requests the caller holds
    tx,        \* the number of calls of bundle so far
    bundles,   \* the bundles returned
    job        \* the call of bundle half way

vars == <<live, coming, hidden, linked, utxos, requests, tx, bundles, job>>

\* An allocation: made by operation op, sealed by the outpoint on.
Out(n) == <<"tx", n>>

Change(c, name, op) == [contract |-> c, name |-> name, op |-> op, on |-> Out(op[1])]

ContractIds == {x.contract : x \in Initial \union Incoming}
Names       == {x.name : x \in Initial \union Incoming}
OpIds       == (1 .. MaxTx) \X Nat
Outpoints   == Utxos \union {Out(n) : n \in 1 .. MaxTx}

ASSUME WalletAssumption ==
    /\ MaxTx \in Nat /\ MaxRequests \in Nat /\ MaxWritten \in Nat
    /\ \A n \in 1 .. MaxTx : Out(n) \notin Utxos
    /\ \A x \in Initial \union Incoming : x.on \in Utxos /\ x.op \in {0} \X Nat

Idle == [at |-> "idle", asked |-> {}, todo |-> {}, done |-> {}, change |-> FALSE]

On(S) == {x.on : x \in S}

IsAllocation(x) ==
    \/ x \in Initial \union Incoming
    \/ /\ x.contract \in ContractIds /\ x.name \in Names /\ x.op \in OpIds
       /\ x = Change(x.contract, x.name, x.op)

\* By whom it was made, the state it uses, the outpoints it closes, what it
\* left behind on these, and the kinds of state it makes changes of.
IsRequest(r) ==
    /\ r.contract \in ContractIds
    /\ \A x \in r.using : IsAllocation(x) /\ x.contract = r.contract
    /\ r.closes \subseteq Outpoints
    /\ r.change \subseteq Names

IsOperation(p, n) == p.op \in OpIds /\ p.op[1] = n /\ p.closes \subseteq Outpoints

TypeOK ==
    /\ \A x \in live : IsAllocation(x)
    /\ coming \subseteq Incoming /\ hidden \subseteq Incoming
    /\ linked \subseteq OpIds
    /\ utxos \subseteq Outpoints
    /\ \A r \in requests \union job.asked \union job.todo : IsRequest(r)
    /\ tx \in 0 .. MaxTx
    /\ \A b \in bundles : b.tx \in 1 .. tx /\ \A p \in b.ops : IsOperation(p, b.tx)
    /\ job.at \in {"idle", "requests", "blanks", "dead"}
    /\ \A p \in job.done : IsOperation(p, tx)

-----------------------------------------------------------------------------
\* Contract::state resolves an allocation on an output of a transaction once
\* the witness is included, and another one once its seal is defined.
Shown(x) == x \in live \ hidden /\ (x.op \in linked \/ x.on \in Utxos)

\* The contract has been issued by the wallet, or imported.
Known(c) == \E x \in Initial \union (Incoming \ coming) : x.contract = c

\* state_own.
Own(c, name) == {x \in live : Shown(x) /\ x.contract = c /\ x.name = name /\ x.on \in utxos}

Closes(P) == UNION {p.closes : p \in P}

Contracts(R) == {r.contract : r \in R}

Init ==
    /\ live = Initial
    /\ coming = Incoming
    /\ hidden = {}
    /\ linked = {}
    /\ utxos = Utxos
    /\ requests = {}
    /\ tx = 0
    /\ bundles = {}
    /\ job = Idle

-----------------------------------------------------------------------------
(***************************************************************************)
(* fulfill, and consume of a consignment with state for the wallet.        *)
(***************************************************************************)
\* Mutant: only what the coin selection returned.
NoOthers(c, name, selected) == {}

\* All other allocations of the same kind on the selected outpoints.
Others(c, name, selected) == {x \in Own(c, name) \ selected : x.on \in On(selected)}

\* They are added one by one; one that overflows is left out, silently.
Fulfill(c, name) ==
    /\ job = Idle
    /\ Cardinality(requests) < MaxRequests /\ tx < MaxTx
    /\ \E selected \in (SUBSET Own(c, name)) \ {{}}, change \in SUBSET {name} :
       \E left \in SUBSET Others(c, name, selected) :
           requests' = requests \union
               {[by |-> "fulfill", contract |-> c, name |-> name, change |-> change,
                 using |-> selected \union (Others(c, name, selected) \ left),
                 closes |-> On(selected), left |-> left]}
    /\ UNCHANGED <<live, coming, hidden, linked, utxos, tx, bundles, job>>

\* A contract that was not known is imported, which resolves no seals.
Receive(x) ==
    /\ job = Idle
    /\ x \in coming
    /\ live' = live \union {x}
    /\ coming' = coming \ {x}
    /\ hidden' = IF Known(x.contract) THEN hidden ELSE hidden \union {x}
    /\ UNCHANGED <<linked, utxos, requests, tx, bundles, job>>

\* The same consignment, or another one with the same operation.
ReceiveAgain(x) ==
    /\ job = Idle
    /\ x \in hidden
    /\ hidden' = hidden \ {x}
    /\ UNCHANGED <<live, coming, linked, utxos, requests, tx, bundles, job>>

\* The caller gives a payment up.
Drop(r) ==
    /\ job = Idle
    /\ requests' = requests \ {r}
    /\ UNCHANGED <<live, coming, hidden, linked, utxos, tx, bundles, job>>

-----------------------------------------------------------------------------
(***************************************************************************)
(* bundle: the requests, then a blank operation for every other contract   *)
(* with state on the outpoints these close.                                *)
(***************************************************************************)
\* resolve_seals was given the output for changes, or there is none.
BeginBundle(R, change) ==
    /\ job = Idle
    /\ tx < MaxTx
    /\ change \/ \A r \in R : r.change = {}
    /\ tx' = tx + 1
    /\ job' = [at |-> "requests", asked |-> R, todo |-> R, done |-> {}, change |-> change]
    /\ UNCHANGED <<live, coming, hidden, linked, utxos, requests, bundles>>

\* The iterator yields a request the user has written: of any state the
\* contract shows, and with any outpoints of transactions there are.
\* check_request compares neither these with the seals, nor the state with
\* that of the wallet.
Written(c) ==
    /\ job.at = "requests"
    /\ Known(c)
    /\ Cardinality({r \in job.asked : r.by = "user"}) < MaxWritten
    /\ \E using \in SUBSET {x \in live : Shown(x) /\ x.contract = c},
          closes \in SUBSET (Utxos \union {Out(n) : n \in 1 .. tx - 1}) :
       \E change \in SUBSET {x.name : x \in using} :
           /\ Cardinality(closes) <= Cardinality(using) /\ Cardinality(using) <= MaxWritten
           /\ closes = {} => using = {}
           /\ LET r == [by |-> "user", contract |-> c, name |-> "any", change |-> change,
                        using |-> using, closes |-> closes, left |-> {}]
              IN  job' = [job EXCEPT !.asked = @ \union {r}, !.todo = @ \union {r}]
    /\ UNCHANGED <<live, coming, hidden, linked, utxos, requests, tx, bundles>>

\* prefab: check_request, then contract_call, which applies the operation.
Prefab(r) ==
    /\ r \in job.todo
    /\ \A x \in r.using : Shown(x)
    /\ LET op == <<tx, Cardinality(job.done) + 1>>
       IN  /\ live' = (live \ r.using) \union {Change(r.contract, m, op) : m \in r.change}
           /\ job' = [job EXCEPT !.todo = @ \ {r},
                                 !.done = @ \union {[op |-> op, contract |-> r.contract,
                                                     closes |-> r.closes]}]
    /\ UNCHANGED <<coming, hidden, linked, utxos, requests, tx, bundles>>

\* An error of either ends the call; what was applied before stays applied.
PrefabErr(r) ==
    /\ r \in job.todo
    /\ \A x \in r.using : Shown(x)
    /\ job' = Idle
    /\ UNCHANGED <<live, coming, hidden, linked, utxos, requests, tx, bundles>>

\* check_request expects the inputs to be in the state of the contract.
PrefabPanics(r) ==
    /\ r \in job.todo
    /\ \E x \in r.using : ~Shown(x)
    /\ job' = [Idle EXCEPT !.at = "dead"]
    /\ UNCHANGED <<live, coming, hidden, linked, utxos, requests, tx, bundles>>

\* Mutant: the outpoints of one prefab replace those of another.
ClosedByLast ==
    Closes({p \in job.done : \A q \in job.done : q.op[2] <= p.op[2]})

Closed == Closes(job.done)

\* Mutant: the state on these outpoints, of whatever contract.
AffectedAny(c) == {x \in live : Shown(x) /\ x.on \in Closed}

Affected(c) == {x \in live : Shown(x) /\ x.contract = c /\ x.on \in Closed}

BlankRequests ==
    {[by |-> "bundle", contract |-> c, name |-> "any", change |-> {x.name : x \in Affected(c)},
      using |-> Affected(c), closes |-> On(Affected(c)), left |-> {}] :
        c \in {d \in ContractIds \ Contracts(job.asked) : Affected(d) # {}}}

\* All blank requests are made before the first one is applied.
Blanks ==
    /\ job.at = "requests" /\ job.todo = {}
    /\ job.change \/ BlankRequests = {}
    /\ job' = [job EXCEPT !.at = "blanks", !.todo = BlankRequests]
    /\ UNCHANGED <<live, coming, hidden, linked, utxos, requests, tx, bundles>>

\* ChangeRequired, or the changes cannot be computed.
BlanksErr ==
    /\ job.at = "requests" /\ job.todo = {}
    /\ BlankRequests # {}
    /\ job' = Idle
    /\ UNCHANGED <<live, coming, hidden, linked, utxos, requests, tx, bundles>>

OpsOf(b) == {p.op : p \in b.ops}

\* All that was ever assigned to the outpoint is resolved.
Settled(u) ==
    \/ u \in Utxos
    \/ \E b \in bundles : u = Out(b.tx) /\ OpsOf(b) \subseteq linked

\* settled: those of the outpoints it closes whose state could be seen.
EndBundle ==
    /\ job.at = "blanks" /\ job.todo = {}
    /\ bundles' = bundles \union {[tx |-> tx, asked |-> job.asked, ops |-> job.done,
                                   settled |-> {u \in Closed : Settled(u)}]}
    /\ requests' = requests \ job.asked
    /\ job' = Idle
    /\ UNCHANGED <<live, coming, hidden, linked, utxos, tx>>

-----------------------------------------------------------------------------
(***************************************************************************)
(* include, prefab by prefab, and the broadcast by the wallet (external),  *)
(* which follows an include that returned no error.                        *)
(***************************************************************************)
Include(b) ==
    /\ job = Idle
    /\ linked' = linked \union OpsOf(b)
    /\ UNCHANGED <<live, coming, hidden, utxos, requests, tx, bundles, job>>

\* MissingPrevout, or no commitment to the contract: at any prefab.
IncludeErr(b) ==
    /\ job = Idle
    /\ \E S \in (SUBSET OpsOf(b)) \ {OpsOf(b)} : linked' = linked \union S
    /\ UNCHANGED <<live, coming, hidden, utxos, requests, tx, bundles, job>>

Broadcast(b) ==
    /\ job = Idle
    /\ OpsOf(b) \subseteq linked
    /\ Closes(b.ops) \subseteq utxos
    /\ utxos' = (utxos \ Closes(b.ops)) \union {Out(b.tx)}
    /\ UNCHANGED <<live, coming, hidden, linked, requests, tx, bundles, job>>

Next ==
    \/ \E c \in ContractIds, name \in Names : Fulfill(c, name)
    \/ \E x \in Incoming : Receive(x)
    \/ \E x \in Incoming : ReceiveAgain(x)
    \/ \E r \in requests : Drop(r)
    \/ \E R \in SUBSET requests, change \in BOOLEAN : BeginBundle(R, change)
    \/ \E c \in ContractIds : Written(c)
    \/ \E r \in job.todo : Prefab(r)
    \/ \E r \in job.todo : PrefabErr(r)
    \/ \E r \in job.todo : PrefabPanics(r)
    \/ Blanks
    \/ BlanksErr
    \/ EndBundle
    \/ \E b \in bundles : Include(b)
    \/ \E b \in bundles : IncludeErr(b)
    \/ \E b \in bundles : Broadcast(b)

Spec == Init /\ [][Next]_vars

-----------------------------------------------------------------------------
(***************************************************************************)
(* The only state a bundle leaves on an outpoint it closes is of a         *)
(* contract that was asked for a payment, and of a kind that no invoice    *)
(* paid by the bundle selected there, or was left out of the selection for *)
(* its amount; or it arrived after the payment was prepared.  State of all *)
(* other contracts is moved, whatever was prepared, written by hand,       *)
(* failed, included in part or broadcast before; unless a request written  *)
(* by hand closes an output with state that is not resolved.               *)
(***************************************************************************)
LeavesOnlyUnasked ==
    \A b \in bundles : \A x \in live \ Incoming :
        x.on \in b.settled =>
            /\ x.contract \in Contracts(b.asked)
            /\ \A r \in b.asked :
                   r.by = "fulfill" /\ x.on \in r.closes /\ r.contract = x.contract /\ r.name = x.name
                       => x \in r.left

(***************************************************************************)
(* At the moment a bundle is returned no other contract shows state on     *)
(* what it closes, state that arrived in the meantime included.            *)
(***************************************************************************)
OthersMoved ==
    [][EndBundle => \A x \in live : Shown(x) /\ x.on \in Closes(job.done) =>
                                       x.contract \in Contracts(job.asked)]_vars

-----------------------------------------------------------------------------
(***************************************************************************)
(* fulfill: "we need to include all other allocations under the same       *)
(* contract that use the selected UTXOs"; PrefabBundle: "should cover all  *)
(* contracts assigning state to the witness transaction previous outputs". *)
(* Other kinds of state of a contract that pays are left out by both.      *)
(***************************************************************************)
BundleCovers ==
    [][EndBundle /\ (\A r \in job.asked : r.by = "fulfill" /\ r.left = {})
           => \A x \in live \ Incoming : x.on \notin Closes(job.done)]_vars
=============================================================================
