----------------------------- MODULE WalletProofs -----------------------------
(***************************************************************************)
(* Proofs about Wallet, for any contracts, allocations and outpoints: what *)
(* a bundle may destroy together with the outpoints it closes.             *)
(***************************************************************************)
EXTENDS Wallet, FiniteSetTheorems, TLAPS

(***************************************************************************)
(* The inductive invariant.  LeavesOnlyUnasked alone speaks of bundles     *)
(* that were returned; how they became what they are is needed, from the   *)
(* moment fulfill selects state.                                           *)
(***************************************************************************)
Running == job.at \in {"requests", "blanks"}

\* A call is described by all of the fields of job, and is empty when none runs.
JobShape ==
    /\ job = [at |-> job.at, asked |-> job.asked, todo |-> job.todo,
              done |-> job.done, change |-> job.change]
    /\ job.at = "idle" => job = Idle
    /\ IsFiniteSet(job.done)
    /\ ~Running => job.asked = {} /\ job.todo = {} /\ job.done = {}

\* Each call of bundle has a transaction of its own.
OwnTx ==
    /\ \A b1, b2 \in bundles : b1.tx = b2.tx => b1 = b2
    /\ Running => tx # 0 /\ \A b \in bundles : b.tx # tx

\* State on the output of a transaction was made by an operation that was
\* applied for it; only operations of bundles are included.
Made ==
    /\ \A o \in linked : \E b \in bundles : o \in OpsOf(b)
    /\ \A x \in live :
           /\ x.op[1] \in 0 .. tx
           /\ \A b \in bundles : x.on = Out(b.tx) => x.op \in OpsOf(b)
           /\ Running /\ x.on = Out(tx) => x.op \in OpsOf([ops |-> job.done])

\* The outpoints there are: the transaction that is being prepared is none.
Existing(u) ==
    \/ u \in Utxos
    \/ \E n \in 1 .. tx : u = Out(n) /\ (Running => n # tx)

\* What is spent and what is selected for an invoice is settled; what a user
\* closes or uses exists.
OnlyMade ==
    /\ \A u \in utxos : Settled(u)
    /\ \A r \in requests \union job.asked :
           r.by = "fulfill" => \A u \in r.closes : Settled(u)
    /\ \A r \in requests \union job.asked \union job.todo :
           \A u \in On(r.using) \union r.closes : Existing(u)
    /\ \A u \in Closes(job.done) : Existing(u)
    /\ \A b \in bundles : b.settled \subseteq Closes(b.ops) /\ \A u \in b.settled : Settled(u)
    /\ \A b \in bundles : \A u \in Closes(b.ops) : Existing(u)

\* A request for an invoice uses all state of its kind on the outpoints it
\* has selected, but what did not fit and what arrives later.
Whole ==
    \A r \in requests \union job.asked : \A x \in live \ Incoming :
        r.by = "fulfill" /\ x.contract = r.contract /\ x.name = r.name /\ x.on \in r.closes
            => x \in r.using \union r.left

\* What the requests that were applied use is gone.
Gone ==
    /\ job.at = "requests" => job.todo \subseteq job.asked
    /\ job.at = "requests" => \A r \in job.asked \ job.todo : r.using \intersect live = {}
    /\ job.at = "blanks" => \A r \in job.asked : r.using \intersect live = {}

\* A contract that was not asked has a blank request for all it shows on what
\* the bundle closes, until that is applied.
Blanked ==
    job.at = "blanks" =>
        /\ \A x \in live : Shown(x) /\ x.on \in Closes(job.done) =>
               x.contract \in Contracts(job.asked) \/ \E r \in job.todo : x \in r.using
        /\ \A r \in job.todo : r.closes \subseteq Closes(job.done)

IInv == /\ TypeOK /\ JobShape /\ OwnTx /\ Made /\ OnlyMade
        /\ Whole /\ Gone /\ Blanked /\ LeavesOnlyUnasked

-----------------------------------------------------------------------------
\* Where an allocation is sealed.
LEMMA AllocationOn ==
    ASSUME NEW x, IsAllocation(x)
    PROVE  /\ x.on \in Outpoints /\ x.contract \in ContractIds /\ x.name \in Names
           /\ \/ x.on \in Utxos /\ x.op[1] = 0
              \/ x.op[1] \in 1 .. MaxTx /\ x.on = Out(x.op[1]) /\ x.on \notin Utxos
<1>1. CASE x \in Initial \union Incoming
  <2>1. x.on \in Utxos /\ x.op \in {0} \X Nat
    BY <1>1, WalletAssumption
  <2>2. x.contract \in ContractIds /\ x.name \in Names
    BY <1>1 DEF ContractIds, Names
  <2>3. QED
    BY <2>1, <2>2 DEF Outpoints
<1>2. CASE /\ x.contract \in ContractIds /\ x.name \in Names /\ x.op \in OpIds
           /\ x = Change(x.contract, x.name, x.op)
  <2>1. x.op[1] \in 1 .. MaxTx
    BY <1>2 DEF OpIds
  <2>2. x.on = Out(x.op[1])
    BY <1>2 DEF Change
  <2>3. QED
    BY <1>2, <2>1, <2>2, WalletAssumption DEF Outpoints
<1>3. QED
  BY <1>1, <1>2 DEF IsAllocation

\* Outputs of different transactions differ.
LEMMA OutInjective == \A m, n : Out(m) = Out(n) => m = n
  BY DEF Out

\* What sits on a settled outpoint is resolved, unless its seal is not known.
LEMMA SettledShown ==
    ASSUME TypeOK, Made, NEW x \in live \ hidden, Settled(x.on)
    PROVE  Shown(x)
  BY DEF TypeOK, Made, Settled, Shown

\* The output of the transaction that is being prepared is not settled, and does not exist.
LEMMA OwnOutNotSettled ==
    ASSUME TypeOK, OwnTx, Running
    PROVE  tx \in 1 .. MaxTx /\ ~Settled(Out(tx)) /\ ~Existing(Out(tx))
<1>1. tx \in 1 .. MaxTx
  BY WalletAssumption DEF TypeOK, OwnTx
<1>2. \A b \in bundles : Out(tx) # Out(b.tx)
  BY OutInjective DEF OwnTx
<1>3. QED
  BY <1>1, <1>2, OutInjective, WalletAssumption DEF Settled, Existing

\* An outpoint that is settled stays settled.
LEMMA SettledStays ==
    ASSUME NEW u, Settled(u), bundles \subseteq bundles', linked \subseteq linked'
    PROVE  Settled(u)'
  BY DEF Settled, OpsOf

\* What is settled exists, and what is shown is on an outpoint that exists.
LEMMA SettledExists ==
    ASSUME TypeOK, OwnTx, NEW u, Settled(u)
    PROVE  Existing(u)
  BY DEF TypeOK, OwnTx, Settled, Existing

LEMMA ShownExists ==
    ASSUME TypeOK, OwnTx, Made, NEW x, Shown(x)
    PROVE  Existing(x.on)
<1>1. x \in live /\ IsAllocation(x)
  BY DEF Shown, TypeOK
<1>2. CASE x.on \in Utxos
  BY <1>2 DEF Existing
<1>3. CASE x.on \notin Utxos
  <2>1. x.op[1] \in 1 .. MaxTx /\ x.on = Out(x.op[1]) /\ x.op[1] \in 0 .. tx
    BY <1>1, <1>3, AllocationOn DEF Made
  <2>2. PICK b \in bundles : x.op \in OpsOf(b)
    BY <1>3 DEF Shown, Made
  <2>3. x.op[1] = b.tx
    BY <2>2 DEF TypeOK, IsOperation, OpsOf
  <2>4. x.op[1] \in 1 .. tx /\ (Running => x.op[1] # tx)
    BY <2>1, <2>3, WalletAssumption DEF OwnTx, TypeOK
  <2>5. QED
    BY <2>1, <2>4 DEF Existing
<1>4. QED
  BY <1>2, <1>3

\* Initially there is only what the wallet began with.
LEMMA InitInv == Init => IInv
<1> SUFFICES ASSUME Init PROVE IInv
  OBVIOUS
<1>1. job = Idle /\ job.at = "idle" /\ job.asked = {} /\ job.todo = {} /\ job.done = {}
  BY DEF Init, Idle
<1>2. TypeOK
  BY <1>1, WalletAssumption DEF Init, TypeOK, IsAllocation, Outpoints
<1>3. JobShape
  <2>1. IsFiniteSet(job.done)
    BY <1>1, FS_EmptySet
  <2>2. QED
    BY <1>1, <2>1 DEF JobShape, Running, Idle
<1>4. Made
  BY <1>1, WalletAssumption DEF Init, Made, Running
<1>5. OwnTx /\ OnlyMade
  BY <1>1 DEF Init, OwnTx, OnlyMade, Settled, Closes, Running
<1>6. Whole /\ Gone /\ Blanked /\ LeavesOnlyUnasked
  BY <1>1 DEF Init, Whole, Gone, Blanked, LeavesOnlyUnasked
<1>7. QED
  BY <1>2, <1>3, <1>4, <1>5, <1>6 DEF IInv

-----------------------------------------------------------------------------
(***************************************************************************)
(* The calls outside of bundle.                                            *)
(***************************************************************************)
\* What the invariant says of an idle moment.
LEMMA IdleJob ==
    ASSUME job = Idle
    PROVE  /\ job.at = "idle" /\ ~Running
           /\ job.asked = {} /\ job.todo = {} /\ job.done = {}
  BY DEF Idle, Running

\* fulfill takes all of a kind on outpoints that are settled, as its own.
LEMMA FulfillInv ==
    ASSUME IInv, NEW c \in ContractIds, NEW name \in Names, Fulfill(c, name)
    PROVE  IInv'
<1> USE DEF IInv
<1>1. job = Idle /\ UNCHANGED <<live, coming, hidden, linked, utxos, tx, bundles, job>>
  BY DEF Fulfill
<1>1a. PICK selected \in (SUBSET Own(c, name)) \ {{}}, change \in SUBSET {name} :
       \E left \in SUBSET Others(c, name, selected) :
          requests' = requests \union
              {[by |-> "fulfill", contract |-> c, name |-> name, change |-> change,
                using |-> selected \union (Others(c, name, selected) \ left),
                closes |-> On(selected), left |-> left]}
  BY DEF Fulfill
<1>2. PICK left \in SUBSET Others(c, name, selected) :
          requests' = requests \union
              {[by |-> "fulfill", contract |-> c, name |-> name, change |-> change,
                using |-> selected \union (Others(c, name, selected) \ left),
                closes |-> On(selected), left |-> left]}
  BY <1>1a
<1> DEFINE r0 == [by |-> "fulfill", contract |-> c, name |-> name, change |-> change,
                  using |-> selected \union (Others(c, name, selected) \ left),
                  closes |-> On(selected), left |-> left]
<1>3. /\ r0.contract = c /\ r0.name = name /\ r0.change = change
      /\ r0.using = selected \union (Others(c, name, selected) \ left)
      /\ r0.closes = On(selected) /\ r0.left = left
  OBVIOUS
<1>4. \A x \in Own(c, name) : x \in live /\ x.contract = c /\ x.name = name /\ x.on \in utxos
  BY DEF Own
<1> HIDE DEF r0
<1>5. /\ r0.using \subseteq Own(c, name)
      /\ \A x \in Own(c, name) : x.on \in r0.closes => x \in r0.using \union r0.left
      /\ \A u \in On(r0.using) \union r0.closes : u \in utxos
  <2> DEFINE S == selected
  <2>1. S \in SUBSET Own(c, name) /\ left \in SUBSET {x \in Own(c, name) \ S : x.on \in On(S)}
    BY DEF Others
  <2>2. r0.using = S \union ({x \in Own(c, name) \ S : x.on \in On(S)} \ left)
    BY <1>3 DEF Others
  <2>3. r0.using \subseteq Own(c, name)
    BY <2>1, <2>2
  <2>4. \A u \in On(r0.using) \union On(S) : u \in utxos
    BY <1>4, <2>1, <2>3 DEF On
  <2>5. QED
    BY <1>3, <2>1, <2>2, <2>3, <2>4
<1>6. requests' = requests \union {r0}
  BY <1>2 DEF r0
<1>7. IsRequest(r0)
  BY <1>3, <1>4, <1>5 DEF IsRequest, TypeOK
<1>8. TypeOK'
  BY <1>1, <1>6, <1>7 DEF TypeOK
<1>9. OnlyMade'
  <2>1. \A u : Settled(u)' = Settled(u) /\ Existing(u)' = Existing(u)
    BY <1>1 DEF Settled, Existing, Running, OpsOf
  <2>2. \A u \in On(r0.using) \union r0.closes : Settled(u) /\ Existing(u)
    BY <1>5, SettledExists DEF OnlyMade
  <2>3. QED
    BY <1>1, <1>6, <2>1, <2>2 DEF OnlyMade, Closes
<1>10. Whole'
  <2>1. ASSUME NEW x \in live \ Incoming, x.contract = c, x.name = name, x.on \in r0.closes
        PROVE  x \in r0.using \union r0.left
    <3>1. x.on \in utxos
      BY <1>5, <2>1
    <3>2. Shown(x)
      BY <3>1, SettledShown DEF OnlyMade, TypeOK
    <3>3. x \in Own(c, name)
      BY <2>1, <3>1, <3>2 DEF Own
    <3>4. QED
      BY <1>5, <2>1, <3>3
  <2>2. QED
    BY <1>1, <1>3, <1>6, <2>1 DEF Whole
<1>11. JobShape' /\ OwnTx' /\ Made' /\ Gone' /\ Blanked' /\ LeavesOnlyUnasked'
  BY <1>1, IdleJob DEF JobShape, Running, OwnTx, Made, OpsOf, Gone, Blanked, Contracts,
              LeavesOnlyUnasked
<1>12. QED
  BY <1>8, <1>9, <1>10, <1>11

\* State that arrives is on an outpoint of the wallet, which is settled.
LEMMA ReceiveInv ==
    ASSUME IInv, NEW x \in Incoming, Receive(x)
    PROVE  IInv'
<1> USE DEF IInv
<1>1. /\ job = Idle /\ live' = live \union {x} /\ coming' = coming \ {x}
      /\ hidden' \in {hidden, hidden \union {x}}
      /\ UNCHANGED <<linked, utxos, requests, tx, bundles, job>>
  BY DEF Receive
<1>2. IsAllocation(x)
  BY DEF IsAllocation
<1>3. x.on \in Utxos /\ x.op[1] = 0
  BY WalletAssumption
<1>4. ~Running
  BY <1>1, IdleJob
<1>5. TypeOK'
  BY <1>1, <1>2 DEF TypeOK
<1>6. Made'
  <2>1. \A b \in bundles : x.on # Out(b.tx)
    BY <1>3, WalletAssumption DEF TypeOK
  <2>2. tx \in Nat
    BY DEF TypeOK
  <2>3. QED
    BY <1>1, <1>3, <1>4, <2>1, <2>2 DEF Made, Running, OpsOf
<1>7. OnlyMade'
  BY <1>1 DEF OnlyMade, Existing, Running, Settled, OpsOf, Closes
<1>8. Whole' /\ LeavesOnlyUnasked'
  BY <1>1 DEF Whole, LeavesOnlyUnasked, Closes, Contracts
<1>9. JobShape' /\ OwnTx' /\ Gone' /\ Blanked'
  BY <1>1, IdleJob DEF JobShape, OwnTx, Gone, Blanked, Running
<1>10. QED
  BY <1>5, <1>6, <1>7, <1>8, <1>9

\* Receiving it again shows it.
LEMMA ReceiveAgainInv ==
    ASSUME IInv, NEW x \in Incoming, ReceiveAgain(x)
    PROVE  IInv'
<1>1. /\ job = Idle /\ hidden' \subseteq hidden
      /\ UNCHANGED <<live, coming, linked, utxos, requests, tx, bundles, job>>
  BY DEF ReceiveAgain
<1>2. TypeOK' /\ OnlyMade' /\ Whole'
  BY <1>1 DEF IInv, TypeOK, OnlyMade, Existing, Running, Settled, OpsOf, Closes, Whole
<1>3. JobShape' /\ OwnTx' /\ Made' /\ Gone' /\ Blanked' /\ LeavesOnlyUnasked'
  BY <1>1, IdleJob DEF IInv, JobShape, Running, OwnTx, Made, OpsOf, Gone, Blanked, Contracts,
              LeavesOnlyUnasked
<1>4. QED
  BY <1>2, <1>3 DEF IInv

\* What the caller forgets was never needed.
LEMMA DropInv ==
    ASSUME IInv, NEW r \in requests, Drop(r)
    PROVE  IInv'
<1>1. /\ requests' = requests \ {r}
      /\ UNCHANGED <<live, coming, hidden, linked, utxos, tx, bundles, job>>
  BY DEF Drop
<1>2. TypeOK' /\ OnlyMade' /\ Whole'
  BY <1>1 DEF IInv, TypeOK, OnlyMade, Existing, Running, Settled, OpsOf, Closes, Whole
<1>3. JobShape' /\ OwnTx' /\ Made' /\ Gone' /\ Blanked' /\ LeavesOnlyUnasked'
  BY <1>1 DEF IInv, JobShape, Running, OwnTx, Made, OpsOf, Gone, Blanked, Shown, Closes,
              Contracts, LeavesOnlyUnasked
<1>4. QED
  BY <1>2, <1>3 DEF IInv

\* More operations become resolved, all of a bundle or some.
LEMMA IncludeInv ==
    ASSUME IInv, NEW b \in bundles, Include(b) \/ IncludeErr(b)
    PROVE  IInv'
<1>1. /\ job = Idle /\ linked \subseteq linked' /\ linked' \subseteq linked \union OpsOf(b)
      /\ UNCHANGED <<live, coming, hidden, utxos, requests, tx, bundles, job>>
  BY DEF Include, IncludeErr
<1>2. TypeOK'
  <2>1. OpsOf(b) \subseteq OpIds
    BY DEF IInv, TypeOK, IsOperation, OpsOf
  <2>2. QED
    BY <1>1, <2>1 DEF IInv, TypeOK
<1>3. OnlyMade'
  <2>1. \A u : Settled(u) => Settled(u)'
    BY <1>1, SettledStays
  <2>2. QED
    BY <1>1, <2>1 DEF IInv, OnlyMade, Existing, Running, Closes
<1>4. Made'
  <2>1. \A o \in linked' : \E c \in bundles : o \in OpsOf(c)
    BY <1>1 DEF IInv, Made
  <2>2. QED
    BY <1>1, <2>1 DEF IInv, Made, OpsOf, Running
<1>5. JobShape' /\ OwnTx' /\ Whole' /\ Gone' /\ Blanked' /\ LeavesOnlyUnasked'
  BY <1>1, IdleJob DEF IInv, JobShape, Running, OwnTx, Whole, Gone, Blanked,
              Contracts, LeavesOnlyUnasked
<1>6. QED
  BY <1>2, <1>3, <1>4, <1>5 DEF IInv

\* The output of a bundle is settled when it becomes an outpoint of the wallet.
LEMMA BroadcastInv ==
    ASSUME IInv, NEW b \in bundles, Broadcast(b)
    PROVE  IInv'
<1>1. /\ job = Idle /\ OpsOf(b) \subseteq linked
      /\ utxos' \subseteq utxos \union {Out(b.tx)}
      /\ UNCHANGED <<live, coming, hidden, linked, requests, tx, bundles, job>>
  BY DEF Broadcast
<1>2. TypeOK'
  <2>1. Out(b.tx) \in Outpoints
    BY WalletAssumption DEF IInv, TypeOK, Outpoints
  <2>2. QED
    BY <1>1, <2>1 DEF IInv, TypeOK
<1>3. OnlyMade'
  <2>1. Settled(Out(b.tx))
    BY <1>1 DEF Settled
  <2>2. QED
    BY <1>1, <2>1 DEF IInv, OnlyMade, Existing, Running, Settled, OpsOf, Closes
<1>4. JobShape' /\ OwnTx' /\ Made' /\ Whole' /\ Gone' /\ Blanked' /\ LeavesOnlyUnasked'
  BY <1>1, IdleJob DEF IInv, JobShape, Running, OwnTx, Made, OpsOf, Whole, Gone, Blanked,
              Contracts, LeavesOnlyUnasked
<1>5. QED
  BY <1>2, <1>3, <1>4 DEF IInv

-----------------------------------------------------------------------------
(***************************************************************************)
(* The steps of bundle.                                                    *)
(***************************************************************************)
\* No state is on the output of a transaction that is not made yet.
LEMMA BeginBundleInv ==
    ASSUME IInv, NEW R \in SUBSET requests, NEW change \in BOOLEAN, BeginBundle(R, change)
    PROVE  IInv'
<1> USE DEF IInv
<1>1. /\ job = Idle /\ tx < MaxTx /\ tx' = tx + 1 /\ R \subseteq requests
      /\ job' = [at |-> "requests", asked |-> R, todo |-> R, done |-> {}, change |-> change]
      /\ UNCHANGED <<live, coming, hidden, linked, utxos, requests, bundles>>
  BY DEF BeginBundle
<1>2. tx \in Nat /\ tx' \in 1 .. MaxTx /\ tx' # 0
  BY <1>1, WalletAssumption DEF TypeOK
<1>3. /\ job'.at = "requests" /\ job'.asked = R /\ job'.todo = R /\ job'.done = {}
      /\ Running'
  BY <1>1 DEF Running
<1>4. TypeOK'
  BY <1>1, <1>2, <1>3 DEF TypeOK
<1>5. JobShape'
  BY <1>1, <1>3, FS_EmptySet DEF JobShape
<1>6. OwnTx'
  BY <1>1, <1>2 DEF OwnTx, TypeOK
<1>7. Made'
  <2>1. ASSUME NEW x \in live PROVE x.on # Out(tx')
    <3>1. x.op[1] \in 0 .. tx
      BY DEF Made
    <3>2. IsAllocation(x)
      BY DEF TypeOK
    <3>3. QED
      BY <1>1, <1>2, <3>1, <3>2, AllocationOn, OutInjective, WalletAssumption
  <2>2. \A x \in live : x.op[1] \in 0 .. tx'
    BY <1>1, <1>2 DEF Made
  <2>3. QED
    BY <1>1, <2>1, <2>2 DEF Made, OpsOf
<1>8. OnlyMade'
  <2>1. \A u : Settled(u)' = Settled(u)
    BY <1>1 DEF Settled, OpsOf
  <2>2. \A u : Existing(u) => Existing(u)'
    BY <1>1, <1>2, <1>3 DEF Existing, TypeOK
  <2>3. QED
    BY <1>1, <1>3, <2>1, <2>2 DEF OnlyMade, Closes
<1>9. Whole' /\ Gone' /\ Blanked' /\ LeavesOnlyUnasked'
  BY <1>1, <1>3 DEF Whole, Gone, Blanked, LeavesOnlyUnasked, Closes, Contracts
<1>10. QED
  BY <1>4, <1>5, <1>6, <1>7, <1>8, <1>9

\* A request a user writes closes outpoints that exist, settled or not.
LEMMA WrittenInv ==
    ASSUME IInv, NEW c \in ContractIds, Written(c)
    PROVE  IInv'
<1> USE DEF IInv
<1>1. /\ job.at = "requests" /\ Running
      /\ UNCHANGED <<live, coming, hidden, linked, utxos, requests, tx, bundles>>
  BY DEF Written, Running
<1>1a. PICK using \in SUBSET {x \in live : Shown(x) /\ x.contract = c},
            closes \in SUBSET (Utxos \union {Out(n) : n \in 1 .. tx - 1}) :
          \E change \in SUBSET {x.name : x \in using} :
          LET r == [by |-> "user", contract |-> c, name |-> "any", change |-> change,
                    using |-> using, closes |-> closes, left |-> {}]
          IN  job' = [job EXCEPT !.asked = @ \union {r}, !.todo = @ \union {r}]
  BY DEF Written
<1>2. PICK change \in SUBSET {x.name : x \in using} :
          LET r == [by |-> "user", contract |-> c, name |-> "any", change |-> change,
                    using |-> using, closes |-> closes, left |-> {}]
          IN  job' = [job EXCEPT !.asked = @ \union {r}, !.todo = @ \union {r}]
  BY <1>1a
<1> DEFINE r0 == [by |-> "user", contract |-> c, name |-> "any", change |-> change,
                  using |-> using, closes |-> closes, left |-> {}]
<1>3. /\ r0.by = "user" /\ r0.contract = c /\ r0.using = using /\ r0.closes = closes
      /\ r0.change = change
  OBVIOUS
<1>4. job' = [job EXCEPT !.asked = @ \union {r0}, !.todo = @ \union {r0}]
  BY <1>2
<1> HIDE DEF r0
<1>5. /\ job'.at = job.at /\ job'.asked = job.asked \union {r0}
      /\ job'.todo = job.todo \union {r0} /\ job'.done = job.done
      /\ job' = [at |-> job'.at, asked |-> job'.asked, todo |-> job'.todo,
                 done |-> job'.done, change |-> job'.change]
      /\ Running'
  BY <1>1, <1>4 DEF JobShape, Running
<1>6. tx \in 1 .. MaxTx
  BY <1>1, OwnOutNotSettled
<1>7. \A u \in closes : u \in Outpoints /\ Existing(u)
  BY <1>6, WalletAssumption DEF Outpoints, Existing
<1>8. \A x \in using : /\ IsAllocation(x) /\ x.contract = c /\ x.name \in Names
                       /\ Existing(x.on)
  BY ShownExists, AllocationOn DEF TypeOK
<1>9. IsRequest(r0)
  BY <1>3, <1>7, <1>8 DEF IsRequest
<1>10. TypeOK'
  BY <1>1, <1>5, <1>9 DEF TypeOK
<1>11. OnlyMade'
  <2>1. \A u : Settled(u)' = Settled(u) /\ Existing(u)' = Existing(u)
    BY <1>1, <1>5 DEF Settled, Existing, OpsOf
  <2>2. \A u \in On(r0.using) \union r0.closes : Existing(u)
    BY <1>3, <1>7, <1>8 DEF On
  <2>3. QED
    BY <1>1, <1>3, <1>5, <2>1, <2>2 DEF OnlyMade, Closes
<1>12. JobShape' /\ OwnTx' /\ Made'
  BY <1>1, <1>5 DEF JobShape, OwnTx, Made, OpsOf
<1>13. Whole' /\ Gone' /\ Blanked' /\ LeavesOnlyUnasked'
  BY <1>1, <1>3, <1>5 DEF Whole, Gone, Blanked, LeavesOnlyUnasked, Contracts
<1>14. QED
  BY <1>10, <1>11, <1>12, <1>13

\* A call that ends in an error, or in a panic, leaves what it has applied.
LEMMA ErrInv ==
    ASSUME IInv,
           BlanksErr \/ \E r \in job.todo : PrefabErr(r) \/ PrefabPanics(r)
    PROVE  IInv'
<1>1. /\ job' = Idle \/ job' = [Idle EXCEPT !.at = "dead"]
      /\ UNCHANGED <<live, coming, hidden, linked, utxos, requests, tx, bundles>>
  BY DEF BlanksErr, PrefabErr, PrefabPanics
<1>2. /\ job'.at \in {"idle", "dead"} /\ job'.asked = {} /\ job'.todo = {} /\ job'.done = {}
      /\ job'.at = "idle" => job' = Idle
      /\ job' = [at |-> job'.at, asked |-> job'.asked, todo |-> job'.todo,
                 done |-> job'.done, change |-> job'.change]
  BY <1>1 DEF Idle
<1>3. TypeOK' /\ OnlyMade' /\ Whole'
  BY <1>1, <1>2 DEF IInv, TypeOK, OnlyMade, Existing, Running, Settled, OpsOf, Closes, Whole
<1>4. JobShape'
  BY <1>2, FS_EmptySet DEF JobShape
<1>5. OwnTx' /\ Made' /\ Gone' /\ Blanked' /\ LeavesOnlyUnasked'
  BY <1>1, <1>2 DEF IInv, Running, OwnTx, Made, OpsOf, Gone, Blanked, LeavesOnlyUnasked
<1>6. QED
  BY <1>3, <1>4, <1>5 DEF IInv

\* Applying an operation destroys what its request uses, and makes state on
\* the output of the transaction, which is closed by none.
LEMMA PrefabInv ==
    ASSUME IInv, NEW r \in job.todo, Prefab(r)
    PROVE  IInv'
<1> USE DEF IInv
<1> DEFINE op == <<tx, Cardinality(job.done) + 1>>
           p  == [op |-> op, contract |-> r.contract, closes |-> r.closes]
<1>1. Running
  BY DEF JobShape
<1>2. tx \in 1 .. MaxTx /\ ~Settled(Out(tx)) /\ ~Existing(Out(tx))
  BY <1>1, OwnOutNotSettled
<1>3. op \in OpIds /\ op[1] = tx
  BY <1>2, FS_CardinalityType DEF JobShape, OpIds
<1>4. /\ live' = (live \ r.using) \union {Change(r.contract, m, op) : m \in r.change}
      /\ job' = [job EXCEPT !.todo = @ \ {r}, !.done = @ \union {p}]
      /\ UNCHANGED <<coming, hidden, linked, utxos, requests, tx, bundles>>
  BY DEF Prefab
<1>5. p.op = op /\ p.closes = r.closes
  OBVIOUS
<1> HIDE DEF op, p
<1>6. /\ job'.at = job.at /\ job'.asked = job.asked /\ job'.todo = job.todo \ {r}
      /\ job'.done = job.done \union {p}
      /\ job' = [at |-> job'.at, asked |-> job'.asked, todo |-> job'.todo,
                 done |-> job'.done, change |-> job'.change]
      /\ Running'
  BY <1>1, <1>4 DEF JobShape, Running
<1>7. IsRequest(r) /\ r.contract \in ContractIds
  BY DEF TypeOK, IsRequest
<1>8. \A x \in live' : x \in live \ r.using \/ (x.on = Out(tx) /\ x.op = op /\ IsAllocation(x))
  <2>1. ASSUME NEW m \in r.change
        PROVE  LET x == Change(r.contract, m, op)
               IN  x.on = Out(tx) /\ x.op = op /\ IsAllocation(x)
    <3>1. m \in Names
      BY <1>7 DEF IsRequest
    <3>2. QED
      BY <1>3, <1>7, <3>1 DEF Change, IsAllocation
  <2>2. QED
    BY <1>4, <2>1
<1>9. \A u : Settled(u)' = Settled(u) /\ Existing(u)' = Existing(u)
  BY <1>1, <1>4, <1>6 DEF Settled, Existing, OpsOf
<1>10. Closes(job.done)' = Closes(job.done) \union r.closes
  BY <1>5, <1>6 DEF Closes
<1>11. \A u \in r.closes : Existing(u) /\ u \in Outpoints
  BY <1>7 DEF OnlyMade, IsRequest
<1>12. TypeOK'
  <2>1. IsOperation(p, tx)
    BY <1>3, <1>5, <1>11 DEF IsOperation
  <2>2. \A x \in live' : IsAllocation(x)
    BY <1>8 DEF TypeOK
  <2>3. QED
    BY <1>4, <1>6, <2>1, <2>2 DEF TypeOK
<1>13. JobShape'
  <2>1. IsFiniteSet(job'.done)
    BY <1>6, FS_AddElement DEF JobShape
  <2>2. QED
    BY <1>6, <2>1 DEF JobShape, Running
<1>14. OwnTx'
  BY <1>1, <1>4, <1>6 DEF OwnTx
<1>15. Made'
  <2>1. \A b \in bundles : Out(tx) # Out(b.tx)
    BY <1>1, OutInjective DEF OwnTx
  <2>2. op \in OpsOf([ops |-> job.done])'
    BY <1>5, <1>6 DEF OpsOf
  <2>3. OpsOf([ops |-> job.done]) \subseteq OpsOf([ops |-> job.done])'
    BY <1>6 DEF OpsOf
  <2>4. tx \in 0 .. tx
    BY <1>2
  <2>5. \A x \in live' : x.op[1] \in 0 .. tx'
    BY <1>3, <1>4, <1>8, <2>4 DEF Made
  <2>6. ASSUME NEW x \in live', NEW b \in bundles', x.on = Out(b.tx) PROVE x.op \in OpsOf(b)'
    BY <1>4, <1>8, <2>1, <2>6 DEF Made, OpsOf
  <2>7. ASSUME NEW x \in live', x.on = Out(tx') PROVE x.op \in OpsOf([ops |-> job.done])'
    BY <1>1, <1>4, <1>8, <2>2, <2>3, <2>7 DEF Made
  <2>8. QED
    <3>1. \A o \in linked' : \E b \in bundles' : o \in OpsOf(b)'
      BY <1>4 DEF Made, OpsOf
    <3>2. QED
      BY <2>5, <2>6, <2>7, <3>1 DEF Made
<1>16. OnlyMade'
  <2>1. \A u \in Closes(job.done)' : Existing(u)'
    BY <1>9, <1>10, <1>11 DEF OnlyMade
  <2>2. \A b \in bundles' : /\ b.settled \subseteq Closes(b.ops)' /\ \A u \in b.settled : Settled(u)'
                            /\ \A u \in Closes(b.ops)' : Existing(u)'
    BY <1>4, <1>9 DEF OnlyMade, Closes
  <2>3. \A q \in (requests \union job.asked)' :
            q.by = "fulfill" => \A u \in q.closes : Settled(u)'
    BY <1>4, <1>6, <1>9 DEF OnlyMade
  <2>4. \A q \in (requests \union job.asked \union job.todo)' :
            \A u \in On(q.using) \union q.closes : Existing(u)'
    BY <1>4, <1>6, <1>9 DEF OnlyMade, On
  <2>5. QED
    BY <1>4, <1>9, <2>1, <2>2, <2>3, <2>4 DEF OnlyMade
<1>17. \A q \in requests \union job.asked \union job.todo : Out(tx) \notin On(q.using) \union q.closes
  BY <1>2 DEF OnlyMade
<1>18. Whole'
  BY <1>4, <1>6, <1>8, <1>17 DEF Whole
<1>19. \A q \in requests \union job.asked : q.using \intersect live' \subseteq q.using \intersect live
  BY <1>8, <1>17 DEF On
<1>1a. Gone'
  <2>1. r.using \intersect live' = {}
    BY <1>8, <1>17 DEF On
  <2>2. QED
    BY <1>6, <1>19, <2>1 DEF Gone
<1>21. Blanked'
  <2>1. ASSUME job.at = "blanks" PROVE Closes(job.done)' = Closes(job.done)
    BY <1>10, <2>1 DEF Blanked
  <2>2. Out(tx) \notin Closes(job.done)
    BY <1>2 DEF OnlyMade
  <2>3. \A x \in live : Shown(x)' => Shown(x)
    BY <1>4 DEF Shown
  <2>4. QED
    BY <1>6, <1>8, <2>1, <2>2, <2>3 DEF Blanked, Contracts
<1>22. LeavesOnlyUnasked'
  <2>1. \A b \in bundles : Out(tx) \notin b.settled
    BY <1>2 DEF OnlyMade
  <2>2. QED
    BY <1>4, <1>8, <2>1 DEF LeavesOnlyUnasked, Contracts
<1>23. QED
  BY <1>12, <1>13, <1>14, <1>15, <1>16, <1>18, <1>1a, <1>21, <1>22

\* The blank requests are all there is of the other contracts.
LEMMA BlanksInv ==
    ASSUME IInv, Blanks
    PROVE  IInv'
<1> USE DEF IInv
<1>1. /\ job.at = "requests" /\ job.todo = {} /\ Running
      /\ job' = [job EXCEPT !.at = "blanks", !.todo = BlankRequests]
      /\ UNCHANGED <<live, coming, hidden, linked, utxos, requests, tx, bundles>>
  BY DEF Blanks, Running
<1>2. /\ job'.at = "blanks" /\ job'.asked = job.asked /\ job'.todo = BlankRequests
      /\ job'.done = job.done
      /\ job' = [at |-> job'.at, asked |-> job'.asked, todo |-> job'.todo,
                 done |-> job'.done, change |-> job'.change]
      /\ Running'
  BY <1>1 DEF JobShape, Running
<1>3. ASSUME NEW q \in BlankRequests
      PROVE  \E c \in ContractIds :
                 /\ q.contract = c /\ q.using = Affected(c) /\ q.closes = On(Affected(c))
                 /\ q.change = {x.name : x \in Affected(c)}
  <2>1. PICK c \in ContractIds :
            /\ Affected(c) # {}
            /\ q = [by |-> "bundle", contract |-> c, name |-> "any",
                    change |-> {x.name : x \in Affected(c)}, using |-> Affected(c),
                    closes |-> On(Affected(c)), left |-> {}]
    BY DEF BlankRequests
  <2>2. QED
    BY <2>1
<1>4. ASSUME NEW q \in BlankRequests
      PROVE  /\ IsRequest(q)
             /\ \A u \in On(q.using) \union q.closes : Existing(u) /\ u \in Closes(job.done)
  <2>1. PICK c \in ContractIds : /\ q.contract = c /\ q.using = Affected(c)
                                 /\ q.closes = On(Affected(c))
                                 /\ q.change = {x.name : x \in Affected(c)}
    BY <1>3
  <2>2. \A x \in Affected(c) : x \in live /\ x.contract = c /\ x.on \in Closes(job.done)
    BY DEF Affected, Closed
  <2>3. \A x \in Affected(c) : IsAllocation(x) /\ x.name \in Names /\ x.on \in Outpoints
    BY <2>2, AllocationOn DEF TypeOK
  <2>4. \A u \in On(Affected(c)) : u \in Outpoints /\ u \in Closes(job.done)
    BY <2>2, <2>3 DEF On
  <2>5. IsRequest(q)
    BY <2>1, <2>2, <2>3, <2>4 DEF IsRequest
  <2>6. QED
    BY <2>1, <2>4, <2>5 DEF OnlyMade
<1>5. TypeOK'
  BY <1>1, <1>2, <1>4 DEF TypeOK
<1>6. OnlyMade'
  BY <1>1, <1>2, <1>4 DEF OnlyMade, Existing, Running, Settled, OpsOf, Closes
<1>7. JobShape' /\ OwnTx' /\ Made'
  BY <1>1, <1>2 DEF JobShape, OwnTx, Made, OpsOf, Running
<1>8. Whole' /\ Gone' /\ LeavesOnlyUnasked'
  BY <1>1, <1>2 DEF Whole, Gone, LeavesOnlyUnasked, Closes, Contracts
<1>9. Blanked'
  <2>1. ASSUME NEW x \in live, Shown(x), x.on \in Closes(job.done),
               x.contract \notin Contracts(job.asked)
        PROVE  \E q \in BlankRequests : x \in q.using
    <3>1. Shown(x) /\ x.contract \in ContractIds
      BY <2>1, AllocationOn DEF TypeOK
    <3>2. x \in Affected(x.contract)
      BY <2>1, <3>1 DEF Affected, Closed
    <3> DEFINE q == [by |-> "bundle", contract |-> x.contract, name |-> "any",
                     change |-> {y.name : y \in Affected(x.contract)},
                     using |-> Affected(x.contract), closes |-> On(Affected(x.contract)),
                     left |-> {}]
    <3>3. q \in BlankRequests
      BY <2>1, <3>1, <3>2 DEF BlankRequests
    <3>4. q.using = Affected(x.contract)
      OBVIOUS
    <3>5. QED
      BY <3>2, <3>3, <3>4
  <2>2. \A x \in live : Shown(x)' => Shown(x)
    BY <1>1 DEF Shown
  <2>3. QED
    BY <1>1, <1>2, <1>4, <2>1, <2>2 DEF Blanked, Closes, Contracts
<1>10. QED
  BY <1>5, <1>6, <1>7, <1>8, <1>9

\* The bundle that is returned is what was applied.
LEMMA EndBundleInv ==
    ASSUME IInv, EndBundle
    PROVE  IInv'
<1> USE DEF IInv
<1> DEFINE b0 == [tx |-> tx, asked |-> job.asked, ops |-> job.done,
                  settled |-> {u \in Closed : Settled(u)}]
<1>1. /\ b0.tx = tx /\ b0.asked = job.asked /\ b0.ops = job.done
      /\ b0.settled = {u \in Closed : Settled(u)}
  OBVIOUS
<1>2. /\ job.at = "blanks" /\ job.todo = {} /\ Running
      /\ bundles' = bundles \union {b0} /\ requests' \subseteq requests /\ job' = Idle
      /\ UNCHANGED <<live, coming, hidden, linked, utxos, tx>>
  BY DEF EndBundle, Running
<1> HIDE DEF b0
<1>3. /\ job'.at = "idle" /\ ~Running' /\ job'.asked = {} /\ job'.todo = {} /\ job'.done = {}
  BY <1>2 DEF Idle, Running
<1>4. tx \in 1 .. MaxTx
  BY <1>2, OwnOutNotSettled
<1>5. TypeOK'
  BY <1>1, <1>2, <1>3, <1>4 DEF TypeOK
<1>6. JobShape'
  BY <1>2, <1>3, FS_EmptySet DEF JobShape, Idle
<1>7. OwnTx'
  BY <1>1, <1>2, <1>3 DEF OwnTx
<1>8. Made'
  BY <1>1, <1>2, <1>3 DEF Made, OpsOf
<1>9. OnlyMade'
  <2>1. \A u : Settled(u) => Settled(u)'
    BY <1>2, SettledStays
  <2>2. \A u : Existing(u) => Existing(u)'
    BY <1>2, <1>3 DEF Existing
  <2>3. b0.settled \subseteq Closes(b0.ops) /\ \A u \in b0.settled : Settled(u)
    BY <1>1 DEF Closed
  <2>4. QED
    BY <1>1, <1>2, <1>3, <2>1, <2>2, <2>3 DEF OnlyMade, Closes
<1>10. Whole' /\ Gone' /\ Blanked'
  BY <1>2, <1>3 DEF Whole, Gone, Blanked
<1>11. LeavesOnlyUnasked'
  <2>1. ASSUME NEW x \in live \ Incoming, x.on \in b0.settled
        PROVE  /\ x.contract \in Contracts(job.asked)
               /\ \A r \in job.asked :
                      r.by = "fulfill" /\ x.on \in r.closes /\ r.contract = x.contract
                          /\ r.name = x.name => x \in r.left
    <3>1. Shown(x) /\ x.on \in Closes(job.done)
      BY <1>1, <2>1, SettledShown DEF Closed, TypeOK
    <3>2. x.contract \in Contracts(job.asked)
      BY <1>2, <3>1 DEF Blanked
    <3>3. \A r \in job.asked : x \notin r.using
      BY <1>2 DEF Gone
    <3>4. QED
      BY <3>2, <3>3 DEF Whole
  <2>2. QED
    BY <1>1, <1>2, <2>1 DEF LeavesOnlyUnasked, Contracts
<1>12. QED
  BY <1>5, <1>6, <1>7, <1>8, <1>9, <1>10, <1>11

-----------------------------------------------------------------------------
\* Every step keeps the invariant.
LEMMA NextInv == IInv /\ [Next]_vars => IInv'
<1> SUFFICES ASSUME IInv, [Next]_vars PROVE IInv'
  OBVIOUS
<1>1. CASE UNCHANGED vars
  <2>1. TypeOK' /\ OnlyMade' /\ Whole' /\ LeavesOnlyUnasked'
    BY <1>1 DEF IInv, vars, TypeOK, OnlyMade, Existing, Running, Settled, OpsOf, Closes, Whole, LeavesOnlyUnasked
  <2>2. JobShape' /\ OwnTx' /\ Made' /\ Gone' /\ Blanked'
    BY <1>1 DEF IInv, vars, JobShape, Running, OwnTx, Made, OpsOf, Gone, Blanked, Closes, Shown
  <2>3. QED
    BY <2>1, <2>2 DEF IInv
<1>2. CASE \E c \in ContractIds, name \in Names : Fulfill(c, name)
  BY <1>2, FulfillInv
<1>3. CASE \E x \in Incoming : Receive(x)
  BY <1>3, ReceiveInv
<1>4. CASE \/ \E x \in Incoming : ReceiveAgain(x)
           \/ \E r \in requests : Drop(r)
           \/ \E c \in ContractIds : Written(c)
  BY <1>4, ReceiveAgainInv, DropInv, WrittenInv
<1>5. CASE \E R \in SUBSET requests, change \in BOOLEAN : BeginBundle(R, change)
  BY <1>5, BeginBundleInv
<1>6. CASE \E r \in job.todo : Prefab(r)
  BY <1>6, PrefabInv
<1>7. CASE BlanksErr \/ \E r \in job.todo : PrefabErr(r) \/ PrefabPanics(r)
  BY <1>7, ErrInv
<1>8. CASE Blanks
  BY <1>8, BlanksInv
<1>9. CASE EndBundle
  BY <1>9, EndBundleInv
<1>10. CASE \E b \in bundles : Include(b) \/ IncludeErr(b)
  BY <1>10, IncludeInv
<1>11. CASE \E b \in bundles : Broadcast(b)
  BY <1>11, BroadcastInv
<1>12. QED
  BY <1>1, <1>2, <1>3, <1>4, <1>5, <1>6, <1>7, <1>8, <1>9, <1>10, <1>11 DEF Next

\* The invariant holds always.
LEMMA SpecInv == Spec => []IInv
<1>1. QED
  BY InitInv, NextInv, PTL DEF Spec

\* Allocations, requests and bundles keep their shapes: every allocation is
\* one the wallet was given or the change of an operation of its contract.
THEOREM WalletTypeCorrect == Spec => []TypeOK
<1>1. IInv => TypeOK
  BY DEF IInv
<1>2. QED
  BY <1>1, SpecInv, PTL

\* The only state a bundle leaves on an outpoint it closes is of a contract
\* that was asked for a payment, and of a kind that no invoice has selected
\* there or too large to be added, or it arrived later.
THEOREM OnlyUnaskedLeft == Spec => []LeavesOnlyUnasked
<1>1. IInv => LeavesOnlyUnasked
  BY DEF IInv
<1>2. QED
  BY <1>1, SpecInv, PTL

\* When a bundle is returned no other contract shows state on what it closes.
THEOREM OthersAreMoved == Spec => OthersMoved
<1>1. IInv /\ [Next]_vars =>
      [EndBundle => \A x \in live : Shown(x) /\ x.on \in Closes(job.done) =>
                                       x.contract \in Contracts(job.asked)]_vars
  BY DEF IInv, Blanked, EndBundle
<1>2. QED
  BY <1>1, SpecInv, PTL DEF Spec, OthersMoved
===============================================================================
