------------------------------- MODULE Payment -------------------------------
(***************************************************************************)
(* The amounts, seals and authentication tokens of a payment               *)
(* (src/popls/bp.rs): from an invoice and a coin selection, or from a      *)
(* payment script the user wrote, through the resolution of seals, the     *)
(* check of the request and the operations of a bundle, to the state the   *)
(* payer has left and to what the payee finds in the operation (consume).  *)
(*                                                                         *)
(* What other calls and failed inclusions do in between is module Wallet;  *)
(* here a bundle is included and broadcast as one step.  All state is      *)
(* fungible: StateCalc is a u64 that refuses to overflow.                  *)
(*                                                                         *)
(* Requests are plain values: whoever made them may bundle any of them, in *)
(* any order, and keep them over a bundle that was paid or given up.       *)
(***************************************************************************)
EXTENDS Integers, Sequences, FiniteSets, SequencesExt

CONSTANTS
    U64Max,
    Initial,      \* allocations at the beginning, with the outpoint each is on
    Utxos,        \* outpoints of the wallet at the beginning
    Wouts,        \* witness outputs in invoices of the payee
    AuthTokens,   \* authentication tokens in invoices of the payee
    Scripts,      \* requests users write, the state to use apart
    PayeeKnows,   \* contracts the payee knows before the payment
    MaxTx,        \* bound: bundles
    MaxRequests,  \* bound: requests ever made
    MaxUsed       \* bound: state a request users write makes use of

ContractIds == {x.contract : x \in Initial}

Change == [to |-> "change"]

Beneficiaries ==
    {[to |-> "wout", wout |-> w] : w \in Wouts} \union
    {[to |-> "token", token |-> t] : t \in AuthTokens}

\* An address is the transaction an operation was made for, the number of the
\* operation in its bundle and that of the output, <<0, 0, no>> in the genesis.
ASSUME PaymentAssumption ==
    /\ U64Max \in Nat /\ MaxTx \in Nat /\ MaxRequests \in Nat /\ MaxUsed \in Nat
    /\ IsFiniteSet(Initial)
    /\ \A x \in Initial : x.amount \in 0 .. U64Max /\ x.addr[1] = 0 /\ x.on \in Utxos
    /\ \A x, y \in Initial : x.addr = y.addr => x = y
    /\ \A o \in Utxos : o[1] # "tx"
    /\ \A s \in Scripts :
           /\ s.contract \in ContractIds
           /\ s.owned \in Seq(Range(s.owned))
           /\ \A i \in DOMAIN s.owned : /\ s.owned[i].amount \in 0 .. U64Max
                                        /\ s.owned[i].seal \in Beneficiaries \union {Change}

VARIABLES
    live,      \* allocations in the states of the contracts
    made,      \* all that operations have made so far
    defined,   \* seal definitions in the payer's piles: <<address, outpoint>>
    utxos,     \* outpoints the payer may spend
    spent,     \* those spent by a payment
    paid,      \* transactions included and broadcast
    tx,        \* the transaction at hand
    requests,  \* requests made so far
    budget,    \* requests still to be made, a bound
    job        \* the call of bundle half way

vars == <<live, made, defined, utxos, spent, paid, tx, requests, budget, job>>

PayeeVout  == 0
ChangeVout == 1
NoVout     == -1

Out(n, vout) == <<"tx", n, vout>>

Outpoints   == Utxos \union {Out(n, v) : n \in 1 .. MaxTx, v \in {PayeeVout, ChangeVout}}

\* astray: an operation uses state that its outpoints do not hold.
Idle == [at |-> "idle", todo |-> <<>>, asked |-> {}, closes |-> {}, contracts |-> {},
         change |-> NoVout, ops |-> 0, astray |-> FALSE]

Total(S) == SumFunctionOnSet([x \in S |-> x.amount], S)

Init ==
    /\ live = {[addr |-> x.addr, contract |-> x.contract, name |-> x.name,
                amount |-> x.amount, by |-> "issue", auth |-> <<"issued">>] : x \in Initial}
    /\ made = {}
    /\ defined = {<<x.addr, x.on>> : x \in Initial}
    /\ utxos = Utxos
    /\ spent = {}
    /\ paid = {}
    /\ tx = 1
    /\ requests = {}
    /\ budget = MaxRequests
    /\ job = Idle

TypeOK ==
    /\ \A x \in live : x.by = "issue" \/ x \in made
    /\ \A x \in live \union made : x.amount \in 0 .. U64Max /\ x.contract \in ContractIds
    /\ \A d \in defined : d[2] \in Outpoints
    /\ utxos \subseteq Outpoints /\ spent \subseteq Outpoints /\ utxos \intersect spent = {}
    /\ tx \in 1 .. MaxTx + 1 /\ paid \subseteq 1 .. tx - 1
    /\ budget \in 0 .. MaxRequests
    /\ job.at \in {"idle", "requests", "blanks", "dead"} /\ job.astray \in BOOLEAN
    /\ job.closes \subseteq Outpoints /\ job.contracts \subseteq ContractIds

-----------------------------------------------------------------------------
\* Contract::state shows an allocation on an outpoint of a transaction once
\* this is included.
Shown(x, o) == x \in live /\ <<x.addr, o>> \in defined /\ (o[1] = "tx" => o[2] \in paid)

\* state_own
Own(c, name) ==
    {x \in live : x.contract = c /\ x.name = name /\ \E o \in utxos : Shown(x, o)}

\* The outpoint a UsedState made by the wallet gives for an allocation.
Seat(x) == CHOOSE o \in Outpoints : Shown(x, o)

Seats(using) == {Seat(x) : x \in using}

\* A StateCalc that has accumulated S without an overflow.
Fits(S) == Total(S) <= U64Max

\* The others on the outpoints of a selection.
Beside(c, name, selected) ==
    {x \in Own(c, name) \ selected : Seat(x) \in Seats(selected)}

\* Mutant: the first allocation that does not fit ends the iteration.
OthersUntilOverflow(c, name, selected, others) ==
    LET rest == Beside(c, name, selected)
    IN  /\ others \subseteq rest
        /\ Fits(selected \union others)
        /\ others = rest \/ \E x \in rest \ others : ~Fits(selected \union others \union {x})

\* Those that still fit, in the order of their
\* addresses; as these are hashes, in any order.
Others(c, name, selected, others) ==
    LET rest == Beside(c, name, selected)
    IN  /\ others \subseteq rest
        /\ Fits(selected \union others)
        /\ \A x \in rest \ others : ~Fits(selected \union others \union {x})

Assign(name, amount, seal) == [name |-> name, amount |-> amount, seal |-> seal]

\* calc.diff: nothing, or one piece of change.
Diff(name, amount) == IF amount = 0 THEN <<>> ELSE <<Assign(name, amount, Change)>>

\* Mutant: what the calculator held before the others were added is returned.
DiffOfSelected(name, selected, using, value) == Diff(name, Total(selected) - value)

DiffOfUsing(name, selected, using, value) == Diff(name, Total(using) - value)

(***************************************************************************)
(* fulfill, with a coin selection that takes any state that is enough.     *)
(* The list of UsedState in a request is told by the state it uses and the *)
(* outpoints it closes, which prefab takes apart at once.                  *)
(***************************************************************************)
Fulfill(c, name, value, beneficiary) ==
    /\ job = Idle
    /\ budget > 0
    /\ budget' = budget - 1
    /\ \E selected \in SUBSET Own(c, name), others \in SUBSET Own(c, name) :
          /\ selected # {}
          /\ Fits(selected)
          /\ Others(c, name, selected, others)
          /\ Total(selected \union others) >= value
          /\ requests' = requests \union
                {[by |-> "fulfill", contract |-> c, name |-> name,
                  using |-> selected \union others, closes |-> Seats(selected \union others),
                  owned |-> <<Assign(name, value, beneficiary)>>
                            \o DiffOfUsing(name, selected, selected \union others, value)]}
    /\ UNCHANGED <<live, made, defined, utxos, spent, paid, tx, job>>

\* Outpoints of which there is a transaction.
Existing == Utxos \union {Out(n, v) : n \in paid, v \in {PayeeVout, ChangeVout}}

\* State the contract shows, whoever's it is.
InState(c) == {x \in live : x.contract = c /\ \E o \in Outpoints : Shown(x, o)}

\* A payment script: any state of the contract, said to be on any outpoints,
\* given to anyone.
Script(s) ==
    /\ job = Idle
    /\ budget > 0
    /\ budget' = budget - 1
    /\ \E using \in SUBSET InState(s.contract), closes \in SUBSET Existing :
          /\ Cardinality(using) <= MaxUsed
          /\ using # {} => closes # {}
          /\ Cardinality(closes) <= Cardinality(using)
          /\ requests' = requests \union
                {[by |-> "script", contract |-> s.contract, name |-> "",
                  using |-> using, closes |-> closes, owned |-> s.owned]}
    /\ UNCHANGED <<live, made, defined, utxos, spent, paid, tx, job>>

-----------------------------------------------------------------------------
(***************************************************************************)
(* Seals and tokens.  A seal of an output is the number of the output and  *)
(* noise; an authentication token commits to both.                         *)
(***************************************************************************)
WoutNoise(w) == <<"salt and script", w>>

\* resolve_seals: an invoiced output by the resolver, change by the argument.
Resolvable(r, resolver, change) ==
    \A i \in DOMAIN r.owned :
        /\ r.owned[i].seal.to = "wout" => resolver[r.owned[i].seal.wout] # NoVout
        /\ r.owned[i].seal.to = "change" => change # NoVout

NoNoise == <<"none">>

PrefabSeal(seal, resolver, change) ==
    CASE seal.to = "wout"   -> [to |-> "vout", vout |-> resolver[seal.wout],
                                noise |-> WoutNoise(seal.wout)]
      [] seal.to = "change" -> [to |-> "vout", vout |-> change, noise |-> NoNoise]
      [] seal.to = "token"  -> seal

Resolved(r, resolver, change) ==
    [r EXCEPT !.owned = [i \in DOMAIN r.owned |->
        [r.owned[i] EXCEPT !.seal = PrefabSeal(@, resolver, change)]]]

\* What prefab makes of a seal, as output no of an operation of contract c.
Noise(c, no, seal) ==
    IF seal.noise = NoNoise THEN <<"seed", c, seal.vout, no>> ELSE seal.noise

Auth(c, no, seal) ==
    IF seal.to = "token" THEN <<"token", seal.token>>
                         ELSE <<"seal", seal.vout, Noise(c, no, seal)>>

(***************************************************************************)
(* bundle: the seals are resolved, then one operation after another is     *)
(* made; an error in one of them leaves those before it applied.  Any      *)
(* requests are bundled, in any order, copies of one as well.              *)
(***************************************************************************)
Selections == UNION {[1 .. n -> requests] : n \in 1 .. MaxRequests}

BeginBundle(chosen, resolver, change) ==
    /\ job = Idle
    /\ tx <= MaxTx
    /\ \A i \in DOMAIN chosen : Resolvable(chosen[i], resolver, change)
    /\ job' = [Idle EXCEPT
                 !.at = "requests",
                 !.todo = [i \in DOMAIN chosen |-> Resolved(chosen[i], resolver, change)],
                 !.asked = {chosen[i] : i \in DOMAIN chosen},
                 !.change = change]
    /\ UNCHANGED <<live, made, defined, utxos, spent, paid, tx, requests, budget>>

NamesOf(r) == {x.name : x \in r.using} \union {r.owned[i].name : i \in DOMAIN r.owned}

SumIn(r, name) == Total({x \in r.using : x.name = name})

SumOut(r, name) ==
    SumFunctionOnSet([i \in DOMAIN r.owned |-> r.owned[i].amount],
                     {i \in DOMAIN r.owned : r.owned[i].name = name})

\* Mutant: the calculators are not asked for what is left in them.
CheckNoExcess(r) ==
    \A name \in NamesOf(r) : SumIn(r, name) <= U64Max /\ SumOut(r, name) <= SumIn(r, name)

\* check_request: accumulate the inputs, lessen by the outputs, and nothing
\* must remain.  The outpoints of the request are not looked at.
CheckRequest(r) ==
    \A name \in NamesOf(r) : SumIn(r, name) <= U64Max /\ SumOut(r, name) = SumIn(r, name)

Making == job.at \in {"requests", "blanks"} /\ job.todo # <<>>

\* Mutant: seals are numbered among the outputs that have one.
SealsCounted(r, op) ==
    LET sealed == {i \in DOMAIN r.owned : r.owned[i].seal.to = "vout"}
    IN  {<<<<tx, op, Cardinality({j \in sealed : j <= i})>>, Out(tx, r.owned[i].seal.vout)>> :
             i \in sealed}

Seals(r, op) ==
    {<<<<tx, op, i>>, Out(tx, r.owned[i].seal.vout)>> :
         i \in {j \in DOMAIN r.owned : r.owned[j].seal.to = "vout"}}

Outputs(r, op) ==
    {[addr |-> <<tx, op, i>>, contract |-> r.contract, name |-> r.owned[i].name,
      amount |-> r.owned[i].amount, by |-> r.by,
      auth |-> Auth(r.contract, i, r.owned[i].seal)] : i \in DOMAIN r.owned}

\* All that the request uses is on the outpoints it closes.
Straight(r) == \A x \in r.using : \E o \in r.closes : Shown(x, o)

\* prefab: contract_call applies the operation and keeps the seals.
Prefab ==
    /\ Making
    /\ LET r  == Head(job.todo)
           op == job.ops + 1
       IN  /\ r.using \subseteq live
           /\ CheckRequest(r)
           /\ live' = (live \ r.using) \union Outputs(r, op)
           /\ made' = made \union Outputs(r, op)
           /\ defined' = defined \union Seals(r, op)
           /\ job' = [job EXCEPT !.todo = Tail(@), !.ops = op,
                                 !.closes = @ \union r.closes,
                                 !.contracts = @ \union {r.contract},
                                 !.astray = @ \/ ~Straight(r)]
    /\ UNCHANGED <<utxos, spent, paid, tx, requests, budget>>

\* Whatever ends a bundle; the transaction will never be made.
GiveUp(at) ==
    /\ job' = [Idle EXCEPT !.at = at]
    /\ tx' = tx + 1
    /\ UNCHANGED <<live, made, defined, utxos, spent, paid, requests, budget>>

CheckErr ==
    /\ Making
    /\ Head(job.todo).using \subseteq live
    /\ ~CheckRequest(Head(job.todo))
    /\ GiveUp("idle")

\* The input is no more in the state of the contract: another request has used
\* it, of this bundle or of one before.
CheckPanics ==
    /\ Making
    /\ ~(Head(job.todo).using \subseteq live)
    /\ GiveUp("dead")

\* The contract's codex refuses the operation.
CallErr ==
    /\ Making
    /\ Head(job.todo).using \subseteq live
    /\ CheckRequest(Head(job.todo))
    /\ GiveUp("idle")

Affected(c) == {x \in live : x.contract = c /\ \E o \in job.closes : Shown(x, o)}

Left(c, name) == Total({x \in Affected(c) : x.name = name})

\* The contracts no operation of the bundle is under.
BlankContracts == {c \in ContractIds \ job.contracts : Affected(c) # {}}

\* One output for each name of which something is left.
BlankOwned(c) ==
    LET names == SetToSeq({n \in {x.name : x \in Affected(c)} : Left(c, n) > 0})
    IN  [i \in DOMAIN names |->
            Assign(names[i], Left(c, names[i]),
                   [to |-> "vout", vout |-> job.change,
                    noise |-> <<"seed", c, job.change, i>>])]

BlankRequest(c) ==
    [by |-> "blank", contract |-> c, name |-> "",
     using |-> Affected(c), closes |-> Seats(Affected(c)), owned |-> BlankOwned(c)]

\* The state on the outpoints overflows, or has no output to go to.
BlankErr ==
    \E c \in BlankContracts : \E name \in {x.name : x \in Affected(c)} :
        Left(c, name) > U64Max \/ (Left(c, name) > 0 /\ job.change = NoVout)

Blanks ==
    /\ job.at = "requests" /\ job.todo = <<>>
    /\ ~BlankErr
    /\ job' = [job EXCEPT !.at = "blanks",
                          !.todo = [i \in DOMAIN SetToSeq(BlankContracts) |->
                                       BlankRequest(SetToSeq(BlankContracts)[i])]]
    /\ UNCHANGED <<live, made, defined, utxos, spent, paid, tx, requests, budget>>

BlanksErr ==
    /\ job.at = "requests" /\ job.todo = <<>>
    /\ BlankErr
    /\ GiveUp("idle")

\* bundle has returned.
Bundled == job.at = "blanks" /\ job.todo = <<>>

\* There can be no transaction that spends an outpoint again, or another's.
Blocked == ~(job.closes \subseteq utxos)

\* No transaction is made for the bundle.
Abandon == Bundled /\ GiveUp("idle")

\* Mutant: the wallet still counts what the transaction spends as its own.
PayKeepsOutpoints ==
    /\ Bundled
    /\ ~Blocked
    /\ paid' = paid \union {tx}
    /\ spent' = spent \union job.closes
    /\ utxos' = utxos \union (IF job.change = NoVout THEN {} ELSE {Out(tx, job.change)})
    /\ tx' = tx + 1
    /\ job' = Idle
    /\ UNCHANGED <<live, made, defined, requests, budget>>

\* The transaction that closes the outpoints is included and broadcast.
Pay ==
    /\ Bundled
    /\ ~Blocked
    /\ paid' = paid \union {tx}
    /\ spent' = spent \union job.closes
    /\ utxos' = (utxos \ job.closes)
                \union (IF job.change = NoVout THEN {} ELSE {Out(tx, job.change)})
    /\ tx' = tx + 1
    /\ job' = Idle
    /\ UNCHANGED <<live, made, defined, requests, budget>>

Next ==
    \/ \E x \in Initial, value \in 1 .. U64Max, b \in Beneficiaries :
           Fulfill(x.contract, x.name, value, b)
    \/ \E s \in Scripts : Script(s)
    \/ \E chosen \in Selections, resolver \in [Wouts -> {PayeeVout, NoVout}],
          change \in {ChangeVout, NoVout} : BeginBundle(chosen, resolver, change)
    \/ Prefab
    \/ CheckErr
    \/ CheckPanics
    \/ CallErr
    \/ Blanks
    \/ BlanksErr
    \/ Abandon
    \/ Pay

Spec == Init /\ [][Next]_vars

-----------------------------------------------------------------------------
\* Whatever bundles were made or given up, the state of a contract sums up to
\* what was issued: check_request lets nothing excessive be lost, and a blank
\* operation moves all it finds on an outpoint.
Conserved ==
    \A i \in Initial :
        Total({x \in live : x.contract = i.contract /\ x.name = i.name})
          = Total({x \in Initial : x.contract = i.contract /\ x.name = i.name})

\* When a bundle is ready, state of the invoiced kind is left behind on an
\* outpoint a fulfilled request spends only if it would have overflowed the
\* calculation of the change.
LeftOnlyOverflow ==
    Bundled =>
        \A r \in {q \in job.asked : q.by = "fulfill"} :
            \A x \in live :
                (/\ x.contract = r.contract /\ x.name = r.name
                 /\ \E o \in r.closes : Shown(x, o))
                => ~Fits(r.using \union {x})

\* A request made for an invoice and the blank requests of a bundle always
\* balance, and nothing takes from under a blank request what it moves.
MadeToPass ==
    \A i \in DOMAIN job.todo :
        /\ job.todo[i].by # "script" => CheckRequest(job.todo[i])
        /\ job.todo[i].by = "blank" => job.todo[i].using \subseteq live

PayeeTokens ==
    {<<"token", t>> : t \in AuthTokens} \union
    {<<"seal", PayeeVout, WoutNoise(w)>> : w \in Wouts}

RepeatsToken(x) ==
    \E y \in made : /\ y.addr[1] = x.addr[1] /\ y.addr[2] = x.addr[2]
                    /\ y.addr[3] < x.addr[3] /\ y.auth = x.auth

\* The seal of an invoiced output comes with the consignment, and is the one
\* the output is assigned to.
Consigned(x) ==
    /\ <<x.addr, Out(x.addr[1], PayeeVout)>> \in defined
    /\ x.auth \in PayeeTokens /\ x.auth[1] = "seal"

\* The seal resolver of the payee's consume gives a seal to the first output
\* with a token that the payee's wallet has issued.
ResolvedByPayee(x) ==
    x.contract \in PayeeKnows /\ x.auth \in PayeeTokens /\ ~RepeatsToken(x)

Found(x) == Consigned(x) \/ ResolvedByPayee(x)

\* It gives none to an output with a token that a script repeats in an operation,
\* and is not asked on the import of a contract.
Missed(x) ==
    /\ x.auth \in PayeeTokens /\ x.auth[1] = "token"
    /\ x.contract \notin PayeeKnows \/ (x.by = "script" /\ RepeatsToken(x))

\* State is never nobody's: a live allocation is on an outpoint of the payer,
\* or stayed on one that was spent, or waits for a transaction, or the payee
\* finds it, or the resolver of the payee misses its authentication token.
Accounted ==
    \A x \in live :
        \/ \E o \in utxos \union spent : Shown(x, o)
        \/ x.addr[1] # 0 /\ x.addr[1] \notin paid
        \/ Found(x)
        \/ Missed(x)

-----------------------------------------------------------------------------
(***************************************************************************)
(* Where the allocations are.                                              *)
(***************************************************************************)
OnAny(outpoints) == {x \in live : \E o \in outpoints : Shown(x, o)}

KindOf(x) == <<x.contract, x.name>>

Flow == INSTANCE Purse WITH
    Kind      <- KindOf,
    Worth     <- Total,
    purse     <- OnAny(utxos),
    waiting   <- {x \in live : x.addr[1] = tx},
    delivered <- {x \in live : x.addr[1] \in paid} \ OnAny(utxos \union spent),
    stranded  <- OnAny(spent),
    lost      <- {x \in live : x.addr[1] \in (1 .. tx - 1) \ paid},
    blocked   <- Blocked,
    astray    <- job.astray

\* Every step of a payment moves state one way only, however bundles fail and
\* requests grow stale: operations balance, and draw on nothing that was made
\* for a transaction that waits or was given up; they draw on what stayed on a
\* spent outpoint or is the payee's only in a bundle that cannot be paid or by
\* a request that gives a wrong outpoint.
ImplementsPurse == Flow!Spec
=============================================================================
