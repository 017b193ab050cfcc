------------------------- MODULE LoanRepayment_proofs -------------------------
(***************************************************************************)
(* Proofs about LoanRepayment, for any number of loans, installments,      *)
(* sweeping processes and manual repayments.                               *)
(***************************************************************************)
EXTENDS LoanRepayment, FiniteSetTheorems, TLAPS

\* A goroutine that has inserted a transaction row and may still act on it.
HoldsTx(n) == n.pc \in {"awaiting", "failTx", "debit", "confirm", "failRef", "succeed"}

\* What a goroutine knows of the row it holds, from where it is in the code.
WorkerSound(n) ==
    /\ n.pc # "idle" => n.item \in Items
    /\ HoldsTx(n) => n.tx \in Txs /\ n.tx <= lastTx /\ tx[n.tx].item = n.item
    /\ n.pc \in {"awaiting", "failTx"} => tx[n.tx].status = "pending"
    /\ n.pc = "awaiting" /\ n.done => n.tx \in moved
    /\ n.pc = "debit" => n.tx \in moved /\ n.done = FALSE
    /\ n.pc = "confirm" => tx[n.tx].status = "successful"
    /\ (n.pc = "confirm" /\ n.done) \/ n.pc = "succeed" => n.tx \in recorded

\* No two goroutines hold one row.
Distinct ==
    \A u, v \in Workers :
        HoldsTx(worker[u]) /\ HoldsTx(worker[v]) /\ worker[u].tx = worker[v].tx => u = v

Workplace == \A v \in Workers : WorkerSound(worker[v])

\* Rows above lastTx are unused; a repayment recorded or still on its way to
\* core banking is a debit; a debit was executed by the provider.
Ledger ==
    /\ \A t \in Txs : t > lastTx => tx[t].status = "none"
    /\ \A t \in recorded \cup inFlight.repayment : tx[t].status = "successful"
    /\ \A t \in Txs : tx[t].status = "successful" => t \in moved

Sound == TypeOK /\ Workplace /\ Distinct /\ Ledger /\ SuccessIsRecorded

-----------------------------------------------------------------------------
(* Steps of one goroutine *)

\* The next state n of goroutine v, the others unchanged.
Becomes(v, n) == n \in WorkerState /\ worker' = [worker EXCEPT ![v] = n]

\* A goroutine that ends or goes on with the next installment of its sweep.
Released(n) == n.pc \in {"idle", "check"} /\ (n.pc = "check" => n.item \in Installments)

\* The same goroutine at another label.
At(v, label) == [worker[v] EXCEPT !.pc = label]

Labels == {"insert", "read", "skip", "record", "failTx", "fail", "debit", "confirm", "failRef",
           "succeed"}

\* Moving on in the loop of a sweep releases the transaction row.
LEMMA NextItemReleases ==
    ASSUME TypeOK, NEW v \in Workers, NextItem(v)
    PROVE  \E n : Becomes(v, n) /\ Released(n)
<1>1. CASE worker[v].todo = {}
  <2>1. Idle \in WorkerState BY DEF Idle, WorkerState
  <2>2. worker' = [worker EXCEPT ![v] = Idle] BY <1>1 DEF NextItem
  <2>3. Released(Idle) BY DEF Released, Idle
  <2> QED BY <2>1, <2>2, <2>3 DEF Becomes
<1>2. CASE worker[v].todo # {}
  <2>1. PICK i \in worker[v].todo :
            worker' = [worker EXCEPT ![v] = Begin(i, worker[v].todo \ {i})]
    BY <1>2 DEF NextItem
  <2>2. worker[v].todo \subseteq Installments BY DEF TypeOK, WorkerState
  <2>3. Begin(i, worker[v].todo \ {i}) \in WorkerState
    BY <2>2 DEF Begin, WorkerState, Items
  <2>4. Released(Begin(i, worker[v].todo \ {i})) BY <2>2 DEF Released, Begin
  <2> QED BY <2>1, <2>3, <2>4 DEF Becomes
<1> QED BY <1>1, <1>2

\* A jump to another label.
LEMMA GotoBecomes ==
    ASSUME TypeOK, NEW v \in Workers, NEW l \in Labels, Goto(v, l)
    PROVE  /\ Becomes(v, At(v, l))
           /\ At(v, l).pc = l /\ At(v, l).item = worker[v].item
           /\ At(v, l).tx = worker[v].tx /\ At(v, l).done = worker[v].done
<1>1. worker[v] \in WorkerState BY DEF TypeOK
<1>2. worker' = [worker EXCEPT ![v] = At(v, l)] BY DEF Goto, At
<1> QED BY <1>1, <1>2 DEF Becomes, At, WorkerState, Labels

\* On an error a goroutine jumps or is released.
LEMMA OtherwiseBecomes ==
    ASSUME TypeOK, NEW v \in Workers, NEW l \in Labels, Otherwise(v, l)
    PROVE  \/ Goto(v, l)
           \/ \E n : Becomes(v, n) /\ Released(n)
BY NextItemReleases DEF Otherwise

\* What a step of v does not take from the others: rows of other goroutines stay
\* as they are, and the provider and core banking only do more.
Local(v) ==
    /\ tx' \in [Txs -> TxRow]
    /\ lastTx' \in 0..MaxTx /\ lastTx <= lastTx'
    /\ moved \subseteq moved' /\ recorded \subseteq recorded'
    /\ \A t \in Txs : tx'[t] # tx[t] =>
           t > lastTx \/ (HoldsTx(worker[v]) /\ t = worker[v].tx)

\* A step of one goroutine keeps the others sound and every row with one holder.
LEMMA OthersStay ==
    ASSUME Sound, NEW v \in Workers, NEW n, Becomes(v, n), Local(v), WorkerSound(n)',
           HoldsTx(n) => (HoldsTx(worker[v]) /\ n.tx = worker[v].tx) \/ n.tx > lastTx
    PROVE  Workplace' /\ Distinct'
<1>1. worker \in [Workers -> WorkerState] /\ lastTx \in Nat /\ lastTx' \in Nat /\ Txs \subseteq Nat
  BY LimitsAssumption DEF Sound, TypeOK, Local, Txs
<1>2. worker'[v] = n /\ \A u \in Workers \ {v} : worker'[u] = worker[u]
  BY <1>1 DEF Becomes
<1>3. ASSUME NEW u \in Workers \ {v} PROVE WorkerSound(worker[u])'
  <2>1. WorkerSound(worker[u]) BY DEF Sound, Workplace
  <2>2. ASSUME HoldsTx(worker[u]) PROVE tx'[worker[u].tx] = tx[worker[u].tx]
    <3>1. worker[u].tx \in Txs /\ worker[u].tx <= lastTx BY <2>1, <2>2 DEF WorkerSound
    <3>2. ~(HoldsTx(worker[v]) /\ worker[u].tx = worker[v].tx)
      BY <2>2 DEF Sound, Distinct
    <3>3. worker[u].tx \in Nat BY <1>1, <3>1
    <3>4. ~(worker[u].tx > lastTx) BY <1>1, <3>1, <3>3
    <3>5. tx'[worker[u].tx] # tx[worker[u].tx] =>
              worker[u].tx > lastTx \/ (HoldsTx(worker[v]) /\ worker[u].tx = worker[v].tx)
      BY <3>1 DEF Local
    <3> QED BY <3>2, <3>4, <3>5
  <2>3. worker'[u] = worker[u] BY <1>2
  <2>4. HoldsTx(worker[u]) => worker[u].tx <= lastTx'
    <3>1. HoldsTx(worker[u]) => worker[u].tx \in Nat /\ worker[u].tx <= lastTx
      BY <1>1, <2>1 DEF WorkerSound
    <3>2. lastTx <= lastTx' BY DEF Local
    <3> QED BY <1>1, <3>1, <3>2
  <2> QED BY <2>1, <2>2, <2>3, <2>4 DEF WorkerSound, HoldsTx, Local
<1>4. Workplace' BY <1>2, <1>3 DEF Workplace
<1>5. ASSUME NEW u \in Workers \ {v}, HoldsTx(worker[u]), HoldsTx(n)
      PROVE  worker[u].tx # n.tx
  <2>1. worker[u].tx <= lastTx /\ worker[u].tx \in Txs BY <1>5 DEF Sound, Workplace, WorkerSound
  <2>2. CASE n.tx > lastTx
    <3>1. n.tx \in Nat BY <1>1 DEF Becomes, WorkerState, Txs
    <3> QED BY <1>1, <2>1, <2>2, <3>1
  <2>3. CASE HoldsTx(worker[v]) /\ n.tx = worker[v].tx BY <1>5, <2>3 DEF Sound, Distinct
  <2> QED BY <1>5, <2>2, <2>3
<1>6. Distinct'
  <2> SUFFICES ASSUME NEW u \in Workers, NEW w \in Workers,
                      HoldsTx(worker'[u]), HoldsTx(worker'[w]), worker'[u].tx = worker'[w].tx
               PROVE  u = w
    BY DEF Distinct, HoldsTx
  <2>1. CASE u = v \/ w = v BY <1>2, <1>5, <2>1
  <2>2. CASE u # v /\ w # v BY <1>2, <2>2 DEF Sound, Distinct
  <2> QED BY <2>1, <2>2
<1> QED BY <1>4, <1>6

\* What a goroutine leaves in flight when it stops waiting is backed like the rest.
LEMMA AbandonedBacked ==
    ASSUME Sound, NEW v \in Workers, inFlight' \in {inFlight, Abandoned(v)}
    PROVE  /\ inFlight' \in [transfer : SUBSET Txs, repayment : SUBSET Txs]
           /\ \A t \in inFlight'.repayment : tx[t].status = "successful"
<1>1. inFlight \in [transfer : SUBSET Txs, repayment : SUBSET Txs] BY DEF Sound, TypeOK
<1>2. \A t \in inFlight.repayment : tx[t].status = "successful" BY DEF Sound, Ledger
<1>3. WorkerSound(worker[v]) BY DEF Sound, Workplace
<1>4. CASE inFlight' = inFlight BY <1>1, <1>2, <1>4
<1>5. CASE worker[v].pc = "awaiting" /\ inFlight' = [inFlight EXCEPT !.transfer = @ \cup {worker[v].tx}]
  <2>1. worker[v].tx \in Txs BY <1>3, <1>5 DEF WorkerSound, HoldsTx
  <2> QED BY <1>1, <1>2, <1>5, <2>1
<1>6. CASE worker[v].pc = "confirm" /\ inFlight' = [inFlight EXCEPT !.repayment = @ \cup {worker[v].tx}]
  <2>1. worker[v].tx \in Txs /\ tx[worker[v].tx].status = "successful"
    BY <1>3, <1>6 DEF WorkerSound, HoldsTx
  <2> QED BY <1>1, <1>2, <1>6, <2>1
<1>7. \/ inFlight' = inFlight
      \/ worker[v].pc = "awaiting" /\ inFlight' = [inFlight EXCEPT !.transfer = @ \cup {worker[v].tx}]
      \/ worker[v].pc = "confirm" /\ inFlight' = [inFlight EXCEPT !.repayment = @ \cup {worker[v].tx}]
  BY DEF Abandoned
<1> QED BY <1>4, <1>5, <1>6, <1>7

\* A step of one goroutine that leaves transactions, provider and core banking alone.
LEMMA QuietStep ==
    ASSUME Sound, NEW v \in Workers, NEW n, Becomes(v, n), WorkerSound(n),
           HoldsTx(n) => HoldsTx(worker[v]) /\ n.tx = worker[v].tx,
           UNCHANGED <<core, tx, balance, moved, recorded, lastTx>>,
           inFlight' \in {inFlight, Abandoned(v)},
           pending' \in [Installments -> Int],
           outcomes' \in [Installments -> SUBSET Outcomes], refs' \subseteq Txs,
           calls' \in Nat, topUps' \in Nat, faults' \in Nat,
           SuccessIsRecorded'
    PROVE  Sound'
<1>1. /\ inFlight' \in [transfer : SUBSET Txs, repayment : SUBSET Txs]
      /\ \A t \in inFlight'.repayment : tx[t].status = "successful"
  BY AbandonedBacked
<1>2. lastTx \in 0..MaxTx /\ lastTx \in Nat /\ tx \in [Txs -> TxRow]
  BY LimitsAssumption DEF Sound, TypeOK
<1>3. worker' \in [Workers -> WorkerState] BY DEF Sound, TypeOK, Becomes
<1>4. TypeOK' BY <1>1, <1>2, <1>3 DEF Sound, TypeOK, core
<1>5. Local(v) BY <1>2 DEF Local
<1>6. WorkerSound(n)' BY DEF WorkerSound, HoldsTx
<1>7. Workplace' /\ Distinct' BY <1>5, <1>6, OthersStay
<1>8. Ledger' BY <1>1 DEF Sound, Ledger
<1> QED BY <1>4, <1>7, <1>8 DEF Sound

\* A released goroutine knows nothing that could be wrong.
LEMMA ReleasedSound ==
    ASSUME NEW n, Released(n)
    PROVE  WorkerSound(n) /\ ~HoldsTx(n)
BY DEF Released, WorkerSound, HoldsTx, Items

\* Steps that touch neither attempts nor transactions.
Unrecorded == UNCHANGED <<core, attempts, tx, balance, moved, recorded, lastTx>>

\* Steps that change only where a goroutine is.
LEMMA JumpStep ==
    ASSUME Sound, NEW v \in Workers, NEW n, Becomes(v, n), WorkerSound(n),
           HoldsTx(n) => HoldsTx(worker[v]) /\ n.tx = worker[v].tx,
           Unrecorded, inFlight' \in {inFlight, Abandoned(v)},
           calls' \in Nat, topUps' \in Nat, faults' \in Nat
    PROVE  Sound'
<1>1. pending' \in [Installments -> Int] /\ outcomes' \in [Installments -> SUBSET Outcomes]
      /\ refs' \subseteq Txs
  BY DEF Sound, TypeOK, Unrecorded, attempts
<1>2. SuccessIsRecorded' BY DEF Sound, SuccessIsRecorded, Unrecorded, attempts
<1>3. UNCHANGED <<core, tx, balance, moved, recorded, lastTx>> BY DEF Unrecorded
<1> QED BY <1>1, <1>2, <1>3, QuietStep

\* A goroutine that goes on with its loop, whatever it was doing.
LEMMA ReleaseStep ==
    ASSUME Sound, NEW v \in Workers, NextItem(v), Unrecorded,
           inFlight' \in {inFlight, Abandoned(v)},
           calls' \in Nat, topUps' \in Nat, faults' \in Nat
    PROVE  Sound'
<1>1. PICK n : Becomes(v, n) /\ Released(n) BY NextItemReleases DEF Sound
<1>2. WorkerSound(n) /\ ~HoldsTx(n) BY <1>1, ReleasedSound
<1> QED BY <1>1, <1>2, JumpStep

\* A jump whose target asks no more than the goroutine knew before.
LEMMA GotoStep ==
    ASSUME Sound, NEW v \in Workers, NEW l \in Labels, Goto(v, l), worker[v].pc # "idle",
           HoldsTx(At(v, l)) => HoldsTx(worker[v]),
           l \in {"failTx"} => worker[v].pc = "awaiting",
           l \notin {"debit", "confirm"},
           l = "succeed" => worker[v].pc = "confirm" /\ worker[v].done,
           Unrecorded, inFlight' \in {inFlight, Abandoned(v)},
           calls' \in Nat, topUps' \in Nat, faults' \in Nat
    PROVE  Sound'
<1> DEFINE n == At(v, l)
<1>1. /\ Becomes(v, n) /\ n.pc = l /\ n.item = worker[v].item
      /\ n.tx = worker[v].tx /\ n.done = worker[v].done
  BY GotoBecomes DEF Sound
<1>2. WorkerSound(worker[v]) BY DEF Sound, Workplace
<1>3. l # "awaiting" BY DEF Labels
<1> HIDE DEF n
<1>4. HoldsTx(n) => HoldsTx(worker[v]) BY DEF n
<1>5. WorkerSound(n) BY <1>1, <1>2, <1>3, <1>4 DEF WorkerSound
<1> QED BY <1>1, <1>4, <1>5, JumpStep

\* An error sends a sweep to its clean-up and releases a manual repayment.
LEMMA OtherwiseStep ==
    ASSUME Sound, NEW v \in Workers, NEW l \in {"skip", "fail", "failRef", "succeed"},
           Otherwise(v, l), worker[v].pc # "idle",
           l = "failRef" => HoldsTx(worker[v]),
           l = "succeed" => worker[v].pc = "confirm" /\ worker[v].done,
           Unrecorded, inFlight' \in {inFlight, Abandoned(v)},
           calls' \in Nat, topUps' \in Nat, faults' \in Nat
    PROVE  Sound'
<1>1. CASE NextItem(v) BY <1>1, ReleaseStep
<1>2. CASE Goto(v, l)
  <2>1. l \in Labels BY DEF Labels
  <2>2. At(v, l).pc = l BY <1>2, <2>1, GotoBecomes DEF Sound
  <2>3. HoldsTx(At(v, l)) => HoldsTx(worker[v]) BY <2>2 DEF HoldsTx
  <2> QED BY <1>2, <2>1, <2>3, GotoStep
<1> QED BY <1>1, <1>2 DEF Otherwise

-----------------------------------------------------------------------------
(* The steps that move a goroutine and nothing else *)

\* Looking at earlier attempts and at the wallet, and what fails before a
\* transfer is recorded.
LEMMA ReadingSteps ==
    ASSUME Sound, NEW v \in Workers,
           CheckActive(v) \/ ReadWallet(v) \/ ReadOrAddFails(v)
    PROVE  Sound'
<1>1. calls \in Nat /\ topUps \in Nat /\ faults \in Nat BY DEF Sound, TypeOK
<1>2. CASE CheckActive(v)
  <2>1. /\ Unrecorded /\ inFlight' = inFlight /\ calls' \in Nat /\ topUps' \in Nat
        /\ faults' \in Nat /\ worker[v].pc # "idle"
    BY <1>1, <1>2 DEF CheckActive, Unrecorded, remote, counters
  <2>2. CASE NextItem(v) BY <2>1, <2>2, ReleaseStep
  <2>3. CASE Goto(v, "insert")
    <3>1. At(v, "insert").pc = "insert" BY <2>3, GotoBecomes DEF Labels, Sound
    <3>2. ~HoldsTx(At(v, "insert")) BY <3>1 DEF HoldsTx
    <3> QED BY <2>1, <2>3, <3>2, GotoStep DEF Labels
  <2> QED BY <1>2, <2>2, <2>3 DEF CheckActive
<1>3. CASE ReadWallet(v)
  <2>1. /\ Unrecorded /\ inFlight' = inFlight /\ calls' \in Nat /\ topUps' \in Nat
        /\ faults' \in Nat /\ worker[v].pc # "idle"
    BY <1>1, <1>3 DEF ReadWallet, Unrecorded, remote, counters
  <2>2. CASE Otherwise(v, "skip") BY <2>1, <2>2, OtherwiseStep
  <2>3. CASE Goto(v, "record")
    <3>1. At(v, "record").pc = "record" BY <2>3, GotoBecomes DEF Labels, Sound
    <3>2. ~HoldsTx(At(v, "record")) BY <3>1 DEF HoldsTx
    <3> QED BY <2>1, <2>3, <3>2, GotoStep DEF Labels
  <2> QED BY <1>3, <2>2, <2>3 DEF ReadWallet
<1>4. CASE ReadOrAddFails(v)
  <2>1. /\ Unrecorded /\ inFlight' = inFlight /\ calls' \in Nat /\ topUps' \in Nat
        /\ faults' \in Nat /\ worker[v].pc # "idle" /\ Otherwise(v, "fail")
    BY <1>1, <1>4 DEF ReadOrAddFails, Fault, Unrecorded, remote
  <2> QED BY <2>1, OtherwiseStep
<1> QED BY <1>2, <1>3, <1>4

\* Answers, time-outs and errors of the provider, the ledger and core banking.
LEMMA AnswerSteps ==
    ASSUME Sound, NEW v \in Workers,
           \/ TransferReturns(v) \/ TransferFails(v) \/ FailTxLost(v)
           \/ CompleteDebitFails(v) \/ CbaReturns(v) \/ CbaFails(v)
    PROVE  Sound'
<1>1. calls \in Nat /\ topUps \in Nat /\ faults \in Nat BY DEF Sound, TypeOK
<1>2. CASE TransferReturns(v)
  <2> DEFINE n == [worker[v] EXCEPT !.pc = "debit", !.done = FALSE]
  <2>1. worker[v] \in WorkerState /\ worker[v].pc = "awaiting" /\ worker[v].done
    BY <1>2 DEF TransferReturns, Sound, TypeOK
  <2>2. worker' = [worker EXCEPT ![v] = n] BY <1>2 DEF TransferReturns
  <2>3. /\ n \in WorkerState /\ n.pc = "debit" /\ n.item = worker[v].item
        /\ n.tx = worker[v].tx /\ n.done = FALSE
    BY <2>1 DEF WorkerState
  <2> HIDE DEF n
  <2>4. Becomes(v, n) BY <2>2, <2>3 DEF Becomes
  <2>5. WorkerSound(worker[v]) BY DEF Sound, Workplace
  <2>6. WorkerSound(n) /\ HoldsTx(worker[v]) BY <2>1, <2>3, <2>5 DEF WorkerSound, HoldsTx
  <2>7. Unrecorded /\ inFlight' = inFlight /\ calls' \in Nat /\ topUps' \in Nat /\ faults' \in Nat
    BY <1>1, <1>2 DEF TransferReturns, Unrecorded, remote, counters
  <2> QED BY <2>3, <2>4, <2>6, <2>7, JumpStep
<1>3. CASE TransferFails(v)
  <2>1. /\ Unrecorded /\ inFlight' = Abandoned(v) /\ calls' \in Nat /\ topUps' \in Nat
        /\ faults' \in Nat /\ worker[v].pc = "awaiting" /\ Goto(v, "failTx")
    BY <1>1, <1>3 DEF TransferFails, Fault, Unrecorded
  <2>2. HoldsTx(worker[v]) BY <2>1 DEF HoldsTx
  <2> QED BY <2>1, <2>2, GotoStep DEF Labels
<1>4. CASE FailTxLost(v)
  <2>1. /\ Unrecorded /\ inFlight' = inFlight /\ calls' \in Nat /\ topUps' \in Nat
        /\ faults' \in Nat /\ worker[v].pc = "failTx" /\ Otherwise(v, "fail")
    BY <1>1, <1>4 DEF FailTxLost, Unrecorded, remote, counters
  <2> QED BY <2>1, OtherwiseStep
<1>5. CASE CompleteDebitFails(v)
  <2>1. /\ Unrecorded /\ inFlight' = inFlight /\ calls' \in Nat /\ topUps' \in Nat
        /\ faults' \in Nat /\ worker[v].pc = "debit" /\ Otherwise(v, "failRef")
    BY <1>1, <1>5 DEF CompleteDebitFails, Fault, Unrecorded, remote
  <2> QED BY <2>1, OtherwiseStep DEF HoldsTx
<1>6. CASE CbaReturns(v)
  <2>1. /\ Unrecorded /\ inFlight' = inFlight /\ calls' \in Nat /\ topUps' \in Nat
        /\ faults' \in Nat /\ worker[v].pc = "confirm" /\ worker[v].done
        /\ Otherwise(v, "succeed")
    BY <1>1, <1>6 DEF CbaReturns, Unrecorded, remote, counters
  <2> QED BY <2>1, OtherwiseStep
<1>7. CASE CbaFails(v)
  <2>1. /\ Unrecorded /\ inFlight' = Abandoned(v) /\ calls' \in Nat /\ topUps' \in Nat
        /\ faults' \in Nat /\ worker[v].pc = "confirm" /\ Otherwise(v, "failRef")
    BY <1>1, <1>7 DEF CbaFails, Fault, Unrecorded
  <2> QED BY <2>1, OtherwiseStep DEF HoldsTx
<1> QED BY <1>2, <1>3, <1>4, <1>5, <1>6, <1>7

\* Goroutines that start, and goroutines that are lost.
LEMMA StartAndLossSteps ==
    ASSUME Sound, NEW v \in Workers,
           \/ StartSweep(v) \/ (\E l \in Loans : StartManual(v, l))
           \/ ItemExpires(v) \/ SweepDies(v)
    PROVE  Sound'
<1>1. calls \in Nat /\ topUps \in Nat /\ faults \in Nat BY DEF Sound, TypeOK
<1>2. CASE StartSweep(v)
  <2>1. PICK i \in Installments :
            worker' = [worker EXCEPT ![v] = Begin(i, {k \in Installments : Due(k)} \ {i})]
    BY <1>2 DEF StartSweep
  <2> DEFINE n == Begin(i, {k \in Installments : Due(k)} \ {i})
  <2>2. Becomes(v, n) /\ Released(n)
    BY <2>1 DEF Becomes, Released, Begin, WorkerState, Items
  <2>3. Unrecorded /\ inFlight' = inFlight /\ calls' \in Nat /\ topUps' \in Nat /\ faults' \in Nat
    BY <1>1, <1>2 DEF StartSweep, Unrecorded, remote, counters
  <2> HIDE DEF n
  <2>4. WorkerSound(n) /\ ~HoldsTx(n) BY <2>2, ReleasedSound
  <2> QED BY <2>2, <2>3, <2>4, JumpStep
<1>3. CASE \E l \in Loans : StartManual(v, l)
  <2>1. PICK l \in Loans : StartManual(v, l) BY <1>3
  <2> DEFINE n == [Idle EXCEPT !.pc = "read", !.item = l]
  <2>2. n.pc = "read" /\ n.item = l /\ n \in WorkerState BY DEF Idle, WorkerState, Items
  <2>3. worker' = [worker EXCEPT ![v] = n] BY <2>1 DEF StartManual
  <2> HIDE DEF n
  <2>4. Becomes(v, n) BY <2>2, <2>3 DEF Becomes
  <2>5. WorkerSound(n) /\ ~HoldsTx(n) BY <2>2 DEF WorkerSound, HoldsTx, Items
  <2>6. Unrecorded /\ inFlight' = inFlight /\ calls' \in Nat /\ topUps' \in Nat /\ faults' \in Nat
    <3>1. calls' = calls + 1 /\ topUps' = topUps /\ faults' = faults BY <2>1 DEF StartManual
    <3>2. Unrecorded /\ inFlight' = inFlight BY <2>1 DEF StartManual, Unrecorded, remote
    <3> QED BY <1>1, <3>1, <3>2
  <2> QED BY <2>4, <2>5, <2>6, JumpStep
<1>4. CASE ItemExpires(v)
  <2>1. /\ Unrecorded /\ inFlight' = Abandoned(v) /\ calls' \in Nat /\ topUps' \in Nat
        /\ faults' \in Nat /\ NextItem(v)
    BY <1>1, <1>4 DEF ItemExpires, Fault, Unrecorded
  <2> QED BY <2>1, ReleaseStep
<1>5. CASE SweepDies(v)
  <2>1. /\ Unrecorded /\ inFlight' = Abandoned(v) /\ calls' \in Nat /\ topUps' \in Nat
        /\ faults' \in Nat /\ worker' = [worker EXCEPT ![v] = Idle]
    BY <1>1, <1>5 DEF SweepDies, Fault, Unrecorded
  <2>2. Becomes(v, Idle) /\ Released(Idle)
    BY <2>1 DEF Becomes, Released, Idle, WorkerState
  <2>3. WorkerSound(Idle) /\ ~HoldsTx(Idle) BY <2>2, ReleasedSound
  <2> QED BY <2>1, <2>2, <2>3, JumpStep
<1> QED BY <1>2, <1>3, <1>4, <1>5

-----------------------------------------------------------------------------
(* The attempts of the sweep *)

\* A final status closes an attempt of the goroutine's installment.
LEMMA CloseKeeps ==
    ASSUME Sound, NEW v \in Workers, NEW status \in Outcomes, NEW ref, Close(v, status, ref),
           ref \subseteq Txs, UNCHANGED <<tx, recorded>>,
           status = "success" => \E t \in recorded : tx[t].item = worker[v].item
    PROVE  /\ pending' \in [Installments -> Int] /\ refs' \subseteq Txs
           /\ outcomes' \in [Installments -> SUBSET Outcomes]
           /\ SuccessIsRecorded'
<1> DEFINE i == worker[v].item
<1>1. /\ pending \in [Installments -> Int] /\ refs \subseteq Txs
      /\ outcomes \in [Installments -> SUBSET Outcomes] /\ SuccessIsRecorded
  BY DEF Sound, TypeOK
<1>2. CASE UNCHANGED attempts BY <1>1, <1>2 DEF attempts, SuccessIsRecorded
<1>3. CASE /\ pending' = [pending EXCEPT ![i] = @ - 1]
           /\ outcomes' = [outcomes EXCEPT ![i] = @ \cup {status}]
           /\ refs' = refs \cup ref
  <2>1. pending' \in [Installments -> Int]
    <3> DEFINE x == pending[i] - 1
    <3>1. i \in Installments => x \in Int BY <1>1
    <3>2. pending' = [pending EXCEPT ![i] = x] BY <1>3
    <3> HIDE DEF x
    <3> QED BY <1>1, <3>1, <3>2
  <2>2. outcomes' \in [Installments -> SUBSET Outcomes] BY <1>1, <1>3
  <2>3. ASSUME NEW k \in Installments, "success" \in outcomes'[k]
        PROVE  \E t \in recorded : tx[t].item = k
    <3>1. "success" \in outcomes[k] \/ (k = i /\ status = "success") BY <1>1, <1>3, <2>3
    <3> QED BY <1>1, <3>1 DEF SuccessIsRecorded
  <2>4. SuccessIsRecorded' BY <2>3 DEF SuccessIsRecorded
  <2> QED BY <1>1, <1>3, <2>1, <2>2, <2>4
<1> QED BY <1>2, <1>3 DEF Close

\* Opening and closing attempts; only a recorded repayment is a success.
LEMMA AttemptSteps ==
    ASSUME Sound, NEW v \in Workers,
           InsertAttempt(v) \/ Skip(v) \/ Fail(v) \/ FailWithRef(v) \/ Succeed(v)
    PROVE  Sound'
<1>1. calls \in Nat /\ topUps \in Nat /\ faults \in Nat BY DEF Sound, TypeOK
<1>2. WorkerSound(worker[v]) BY DEF Sound, Workplace
<1>3. CASE InsertAttempt(v)
  <2>1. /\ UNCHANGED <<core, tx, balance, moved, recorded, lastTx>> /\ inFlight' = inFlight
        /\ calls' \in Nat /\ topUps' \in Nat /\ faults' \in Nat
        /\ outcomes' = outcomes /\ refs' = refs
    BY <1>1, <1>3 DEF InsertAttempt, remote, counters
  <2>2. pending' \in [Installments -> Int]
    <3> DEFINE x == pending[worker[v].item] + 1
    <3>1. pending \in [Installments -> Int] BY DEF Sound, TypeOK
    <3>2. worker[v].item \in Installments => x \in Int BY <3>1
    <3>3. pending' = [pending EXCEPT ![worker[v].item] = x] BY <1>3 DEF InsertAttempt
    <3> HIDE DEF x
    <3> QED BY <3>1, <3>2, <3>3
  <2>3. outcomes' \in [Installments -> SUBSET Outcomes] /\ refs' \subseteq Txs
    BY <2>1 DEF Sound, TypeOK
  <2>4. SuccessIsRecorded' BY <2>1 DEF Sound, SuccessIsRecorded
  <2> DEFINE n == At(v, "read")
  <2>5. Goto(v, "read") /\ worker[v].pc = "insert" BY <1>3 DEF InsertAttempt
  <2>6. Becomes(v, n) /\ n.pc = "read" /\ n.item = worker[v].item
    BY <2>5, GotoBecomes DEF Sound, Labels
  <2> HIDE DEF n
  <2>7. WorkerSound(n) /\ ~HoldsTx(n) BY <1>2, <2>5, <2>6 DEF WorkerSound, HoldsTx
  <2> QED BY <2>1, <2>2, <2>3, <2>4, <2>6, <2>7, QuietStep
<1>4. ASSUME NEW status \in Outcomes, NEW ref, Close(v, status, ref), NextItem(v),
             ref \subseteq Txs, UNCHANGED <<core, tx, balance, remote, lastTx, counters>>,
             status = "success" => \E t \in recorded : tx[t].item = worker[v].item
      PROVE  Sound'
  <2>1. /\ UNCHANGED <<core, tx, balance, moved, recorded, lastTx>> /\ inFlight' = inFlight
        /\ calls' \in Nat /\ topUps' \in Nat /\ faults' \in Nat
    BY <1>1, <1>4 DEF remote, counters
  <2>2. /\ pending' \in [Installments -> Int] /\ refs' \subseteq Txs
        /\ outcomes' \in [Installments -> SUBSET Outcomes]
        /\ SuccessIsRecorded'
    BY <1>4, <2>1, CloseKeeps
  <2>3. PICK n : Becomes(v, n) /\ Released(n) BY <1>4, NextItemReleases DEF Sound
  <2>4. WorkerSound(n) /\ ~HoldsTx(n) BY <2>3, ReleasedSound
  <2> QED BY <2>1, <2>2, <2>3, <2>4, QuietStep
<1>5. CASE Skip(v) BY <1>4, <1>5 DEF Skip, Outcomes
<1>6. CASE Fail(v) BY <1>4, <1>6 DEF Fail, Outcomes
<1>7. CASE FailWithRef(v)
  <2>1. worker[v].tx \in Txs BY <1>2, <1>7 DEF FailWithRef, WorkerSound, HoldsTx
  <2> QED BY <1>4, <1>7, <2>1 DEF FailWithRef, Outcomes
<1>8. CASE Succeed(v)
  <2>1. worker[v].tx \in recorded /\ tx[worker[v].tx].item = worker[v].item
    BY <1>2, <1>8 DEF Succeed, WorkerSound, HoldsTx
  <2> QED BY <1>4, <1>8, <2>1 DEF Succeed, Outcomes
<1> QED BY <1>3, <1>5, <1>6, <1>7, <1>8

-----------------------------------------------------------------------------
(* Steps on the ledger, at the provider and at core banking *)

\* A step of one goroutine that keeps the ledger's own invariant.
LEMMA LedgerStep ==
    ASSUME Sound, NEW v \in Workers, NEW n, Becomes(v, n), Local(v), WorkerSound(n)',
           HoldsTx(n) => (HoldsTx(worker[v]) /\ n.tx = worker[v].tx) \/ n.tx > lastTx,
           UNCHANGED <<core, attempts, inFlight, counters>>,
           balance' \in [Wallets -> Int], moved' \subseteq Txs, recorded' \subseteq Txs,
           \A t \in recorded : tx'[t].item = tx[t].item,
           Ledger'
    PROVE  Sound'
<1>1. Workplace' /\ Distinct' BY OthersStay
<1>2. worker' \in [Workers -> WorkerState] BY DEF Sound, TypeOK, Becomes
<1>3. TypeOK' BY <1>2 DEF Sound, TypeOK, Local, core, attempts, counters
<1>4. SuccessIsRecorded' BY DEF Sound, SuccessIsRecorded, Local, attempts
<1> QED BY <1>1, <1>3, <1>4 DEF Sound

\* A new row is the first unused one, and its goroutine its only holder.
LEMMA AddTransactionStep ==
    ASSUME Sound, NEW v \in Workers, AddTransaction(v)
    PROVE  Sound'
<1> DEFINE t0 == lastTx + 1
           row == [status |-> "pending", item |-> worker[v].item]
<1>1. /\ lastTx \in Nat /\ t0 \in Txs /\ Txs \subseteq Nat /\ lastTx' = t0 /\ t0 \in 0..MaxTx
      /\ worker[v].pc = "record"
  BY LimitsAssumption DEF Sound, TypeOK, AddTransaction, Txs
<1>2. worker[v] \in WorkerState /\ WorkerSound(worker[v]) BY DEF Sound, TypeOK, Workplace
<1>3. row \in TxRow /\ tx \in [Txs -> TxRow]
  BY <1>1, <1>2 DEF WorkerSound, TxRow, Sound, TypeOK
<1>4. tx' = [tx EXCEPT ![t0] = row] BY DEF AddTransaction
<1>5. UNCHANGED <<core, attempts, balance, remote, counters>> BY DEF AddTransaction
<1>6. PICK n : n = [worker[v] EXCEPT !.pc = "awaiting", !.tx = t0, !.done = FALSE] OBVIOUS
<1>7. worker' = [worker EXCEPT ![v] = n]
  BY <1>6 DEF AddTransaction, Sound, TypeOK
<1>8. /\ n \in WorkerState /\ n.pc = "awaiting" /\ n.item = worker[v].item /\ n.tx = t0
      /\ n.done = FALSE
  BY <1>1, <1>2, <1>6 DEF WorkerState
<1> HIDE DEF row
<1>9. tx'[t0] = row /\ \A t \in Txs : t # t0 => tx'[t] = tx[t] BY <1>1, <1>3, <1>4
<1>10. row.item = worker[v].item /\ row.status = "pending" BY DEF row
<1>11. t0 > lastTx /\ lastTx <= lastTx' /\ t0 <= lastTx' BY <1>1
<1> HIDE DEF t0
<1>12. Becomes(v, n) BY <1>7, <1>8 DEF Becomes
<1>13. tx' \in [Txs -> TxRow] BY <1>3, <1>4
<1>14. moved' = moved /\ recorded' = recorded /\ inFlight' = inFlight BY <1>5 DEF remote
<1>15. Local(v)
  <2>1. \A t \in Txs : tx'[t] # tx[t] => t > lastTx BY <1>9, <1>11
  <2> QED BY <1>1, <1>11, <1>13, <1>14, <2>1 DEF Local
<1>16. WorkerSound(n)'
  BY <1>1, <1>2, <1>8, <1>9, <1>10, <1>11 DEF WorkerSound, HoldsTx
<1>17. tx[t0].status = "none" BY <1>1, <1>11 DEF Sound, Ledger
<1>18. \A t \in recorded \cup inFlight.repayment : t # t0 /\ t \in Txs
  BY <1>17 DEF Sound, Ledger, TypeOK
<1>19. Ledger'
  <2>1. \A t \in Txs : t > lastTx' => tx'[t].status = "none"
    <3> SUFFICES ASSUME NEW t \in Txs, t > lastTx' PROVE tx'[t].status = "none" OBVIOUS
    <3>1. t \in Nat /\ t0 \in Nat BY <1>1
    <3>2. t # t0 /\ t > lastTx BY <1>1, <1>11, <3>1
    <3> QED BY <1>9, <3>2 DEF Sound, Ledger
  <2>2. \A t \in recorded' \cup inFlight'.repayment : tx'[t].status = "successful"
    BY <1>9, <1>14, <1>18 DEF Sound, Ledger
  <2>3. \A t \in Txs : tx'[t].status = "successful" => t \in moved'
    BY <1>9, <1>10, <1>14 DEF Sound, Ledger
  <2> QED BY <2>1, <2>2, <2>3 DEF Ledger
<1>20. \A t \in recorded : tx'[t].item = tx[t].item BY <1>9, <1>18
<1>21. /\ UNCHANGED <<core, attempts, inFlight, counters>> /\ balance' \in [Wallets -> Int]
       /\ moved' \subseteq Txs /\ recorded' \subseteq Txs
  BY <1>5, <1>14 DEF Sound, TypeOK
<1> QED BY <1>8, <1>11, <1>12, <1>15, <1>16, <1>19, <1>20, <1>21, LedgerStep

\* The provider executes the transfer, core banking records the repayment.
LEMMA RemoteSteps ==
    ASSUME Sound, NEW v \in Workers, ProviderMoves(v) \/ CbaRecords(v)
    PROVE  Sound'
<1> DEFINE t0 == worker[v].tx
<1>1. worker[v] \in WorkerState /\ WorkerSound(worker[v]) BY DEF Sound, TypeOK, Workplace
<1>2. worker[v].pc \in {"awaiting", "confirm"} BY DEF ProviderMoves, CbaRecords
<1>3. HoldsTx(worker[v]) /\ t0 \in Txs /\ t0 <= lastTx /\ tx[t0].item = worker[v].item
  BY <1>1, <1>2 DEF HoldsTx, WorkerSound
<1>4. PICK n : n = [worker[v] EXCEPT !.done = TRUE] OBVIOUS
<1>5. /\ n \in WorkerState /\ n.pc = worker[v].pc /\ n.item = worker[v].item
      /\ n.tx = t0 /\ n.done = TRUE
  BY <1>1, <1>4 DEF WorkerState
<1>6. Becomes(v, n)
  <2>1. worker' = [worker EXCEPT ![v] = n] BY <1>4 DEF ProviderMoves, CbaRecords, Sound, TypeOK
  <2> QED BY <1>5, <2>1 DEF Becomes
<1>7. UNCHANGED <<core, attempts, tx, balance, inFlight, lastTx, counters>>
  BY DEF ProviderMoves, CbaRecords
<1>8. /\ tx \in [Txs -> TxRow] /\ balance \in [Wallets -> Int] /\ lastTx \in 0..MaxTx
      /\ lastTx \in Nat /\ moved \subseteq Txs /\ recorded \subseteq Txs
  BY LimitsAssumption DEF Sound, TypeOK
<1>9. /\ moved \subseteq moved' /\ recorded \subseteq recorded'
      /\ moved' \subseteq Txs /\ recorded' \subseteq Txs
      /\ worker[v].pc = "awaiting" => t0 \in moved'
      /\ worker[v].pc = "confirm" => t0 \in recorded'
      /\ \A t \in recorded' : t \in recorded \/ (t = t0 /\ worker[v].pc = "confirm")
  BY <1>3, <1>8 DEF ProviderMoves, CbaRecords
<1> HIDE DEF t0
<1>10. Local(v) BY <1>7, <1>8, <1>9 DEF Local
<1>11. /\ worker[v].pc = "awaiting" => tx[t0].status = "pending"
       /\ worker[v].pc = "confirm" => tx[t0].status = "successful"
  BY <1>1 DEF WorkerSound, t0
<1>12. WorkerSound(n)'
  BY <1>1, <1>2, <1>3, <1>5, <1>7, <1>9, <1>11 DEF WorkerSound, HoldsTx
<1>13. Ledger' BY <1>7, <1>9, <1>11 DEF Sound, Ledger
<1>14. HoldsTx(n) => HoldsTx(worker[v]) /\ n.tx = worker[v].tx BY <1>3, <1>5 DEF t0
<1> QED BY <1>6, <1>7, <1>8, <1>9, <1>10, <1>12, <1>13, <1>14, LedgerStep

\* A pending row fails; nothing was recorded for it.
LEMMA FailTxStep ==
    ASSUME Sound, NEW v \in Workers, FailTx(v)
    PROVE  Sound'
<1> DEFINE t0 == worker[v].tx
<1>1. worker[v] \in WorkerState /\ WorkerSound(worker[v]) BY DEF Sound, TypeOK, Workplace
<1>2. /\ HoldsTx(worker[v]) /\ t0 \in Txs /\ t0 <= lastTx /\ worker[v].item \in Items
      /\ tx[t0].status = "pending"
  BY <1>1 DEF FailTx, HoldsTx, WorkerSound
<1>3. UNCHANGED <<core, attempts, balance, moved, recorded, inFlight, lastTx, counters>>
  BY DEF FailTx, remote
<1>4. /\ tx \in [Txs -> TxRow] /\ balance \in [Wallets -> Int] /\ lastTx \in 0..MaxTx
      /\ lastTx \in Nat /\ Txs \subseteq Nat /\ moved \subseteq Txs /\ recorded \subseteq Txs
  BY LimitsAssumption DEF Sound, TypeOK, Txs
<1>5. tx' = [tx EXCEPT ![t0].status = "failed"] BY DEF FailTx
<1>6. /\ tx' \in [Txs -> TxRow] /\ tx'[t0].status = "failed" /\ tx'[t0].item = tx[t0].item
      /\ \A t \in Txs : t # t0 => tx'[t] = tx[t]
  BY <1>2, <1>4, <1>5 DEF TxRow
<1>7. PICK n : Becomes(v, n) /\ ~HoldsTx(n) /\ (n.pc # "idle" => n.item \in Items)
               /\ n.pc \in {"idle", "check", "fail"}
  <2>1. CASE NextItem(v)
    BY <2>1, NextItemReleases DEF Sound, Released, HoldsTx, Items
  <2>2. CASE Goto(v, "fail")
    <3>1. Becomes(v, At(v, "fail")) /\ At(v, "fail").pc = "fail"
          /\ At(v, "fail").item = worker[v].item
      BY <2>2, GotoBecomes DEF Sound, Labels
    <3> QED BY <1>2, <3>1 DEF HoldsTx
  <2> QED BY <2>1, <2>2 DEF FailTx, Otherwise
<1> HIDE DEF t0
<1>8. Local(v) BY <1>2, <1>3, <1>4, <1>6 DEF Local, t0
<1>9. WorkerSound(n)' BY <1>7 DEF WorkerSound, HoldsTx
<1>10. Ledger'
  <2>1. \A t \in Txs : t > lastTx => t # t0 BY <1>2, <1>4
  <2>2. \A t \in Txs : t > lastTx' => tx'[t].status = "none"
    BY <1>3, <1>6, <2>1 DEF Sound, Ledger
  <2>3. \A t \in recorded \cup inFlight.repayment : t \in Txs /\ t # t0
    BY <1>2 DEF Sound, Ledger, TypeOK
  <2>4. \A t \in recorded' \cup inFlight'.repayment : tx'[t].status = "successful"
    BY <1>3, <1>6, <2>3 DEF Sound, Ledger
  <2>5. \A t \in Txs : tx'[t].status = "successful" => t \in moved'
    BY <1>3, <1>6 DEF Sound, Ledger
  <2> QED BY <2>2, <2>4, <2>5 DEF Ledger
<1>11. \A t \in recorded : tx'[t].item = tx[t].item BY <1>4, <1>6
<1> QED BY <1>3, <1>4, <1>7, <1>8, <1>9, <1>10, <1>11, LedgerStep

\* The ledger debits a wallet for a transfer the provider executed.
LEMMA CompleteDebitStep ==
    ASSUME Sound, NEW v \in Workers, CompleteDebit(v)
    PROVE  Sound'
<1> DEFINE t0 == worker[v].tx
           item0 == worker[v].item
<1>1. worker[v] \in WorkerState /\ WorkerSound(worker[v]) BY DEF Sound, TypeOK, Workplace
<1>2. /\ HoldsTx(worker[v]) /\ t0 \in Txs /\ t0 <= lastTx /\ item0 \in Items
      /\ tx[t0].item = item0 /\ t0 \in moved
  BY <1>1 DEF CompleteDebit, HoldsTx, WorkerSound
<1>3. UNCHANGED <<core, attempts, moved, recorded, inFlight, lastTx, counters>>
  BY DEF CompleteDebit, remote
<1>4. /\ tx \in [Txs -> TxRow] /\ balance \in [Wallets -> Int] /\ lastTx \in 0..MaxTx
      /\ lastTx \in Nat /\ Txs \subseteq Nat /\ moved \subseteq Txs /\ recorded \subseteq Txs
  BY LimitsAssumption DEF Sound, TypeOK, Txs
<1>5. balance' \in [Wallets -> Int]
  <2>1. LoanFor(item0) \in Loans BY <1>2, LoansAssumption DEF LoanFor, Items
  <2>2. Amount[LoanFor(item0)] \in Nat /\ Charges \in Nat BY <2>1, LoansAssumption
  <2>3. TotalDebit(item0) \in Int BY <2>2 DEF TotalDebit, Kobo
  <2> DEFINE x == balance[WalletFor(item0)] - TotalDebit(item0)
  <2>4. WalletFor(item0) \in Wallets BY <2>1, LoansAssumption DEF WalletFor
  <2>5. x \in Int BY <1>4, <2>3, <2>4
  <2>6. balance' = [balance EXCEPT ![WalletFor(item0)] = x] BY DEF CompleteDebit
  <2> HIDE DEF x
  <2> QED BY <1>4, <2>5, <2>6
<1>6. tx' = [tx EXCEPT ![t0].status = "successful"] BY DEF CompleteDebit
<1>7. /\ tx' \in [Txs -> TxRow] /\ tx'[t0].status = "successful" /\ tx'[t0].item = tx[t0].item
      /\ \A t \in Txs : t # t0 => tx'[t] = tx[t]
  BY <1>2, <1>4, <1>6 DEF TxRow
<1>8. PICK n : n = At(v, "confirm") OBVIOUS
<1>9. /\ Becomes(v, n) /\ n.pc = "confirm" /\ n.item = item0 /\ n.tx = t0
      /\ n.done = worker[v].done
  <2>1. Goto(v, "confirm") BY DEF CompleteDebit
  <2> QED BY <1>8, <2>1, GotoBecomes DEF Sound, Labels
<1>10. worker'[v] = n /\ worker[v].pc = "debit" BY <1>9 DEF Becomes, CompleteDebit, Sound, TypeOK
<1> HIDE DEF t0, item0
<1>11. Local(v) BY <1>2, <1>3, <1>4, <1>7 DEF Local, t0
<1>12. n.done = FALSE BY <1>1, <1>9, <1>10 DEF WorkerSound
<1>13. WorkerSound(n)' BY <1>2, <1>3, <1>7, <1>9, <1>12 DEF WorkerSound, HoldsTx
<1>14. Ledger'
  <2>1. \A t \in Txs : t > lastTx' => tx'[t].status = "none"
    <3>1. \A t \in Txs : t > lastTx => t # t0 BY <1>2, <1>4
    <3> QED BY <1>3, <1>7, <3>1 DEF Sound, Ledger
  <2>2. \A t \in recorded \cup inFlight.repayment : t \in Txs
    BY DEF Sound, TypeOK
  <2>3. \A t \in recorded' \cup inFlight'.repayment : tx'[t].status = "successful"
    BY <1>3, <1>7, <2>2 DEF Sound, Ledger
  <2>4. \A t \in Txs : tx'[t].status = "successful" => t \in moved'
    BY <1>2, <1>3, <1>7 DEF Sound, Ledger
  <2> QED BY <2>1, <2>3, <2>4 DEF Ledger
<1>15. \A t \in recorded : tx'[t].item = tx[t].item BY <1>4, <1>7
<1>16. HoldsTx(n) => HoldsTx(worker[v]) /\ n.tx = worker[v].tx BY <1>2, <1>9 DEF t0
<1> QED BY <1>3, <1>4, <1>5, <1>9, <1>11, <1>13, <1>14, <1>15, <1>16, LedgerStep

-----------------------------------------------------------------------------
(* The rest of the world *)

\* What happens outside the goroutines takes nothing from them.
LEMMA WorldStep ==
    ASSUME Sound, UNCHANGED <<attempts, tx, worker, lastTx>>,
           TypeOK', moved \subseteq moved', recorded \subseteq recorded',
           \A t \in recorded' \cup inFlight'.repayment : tx[t].status = "successful"
    PROVE  Sound'
<1>1. ASSUME NEW v \in Workers PROVE WorkerSound(worker[v])'
  <2>1. WorkerSound(worker[v]) BY DEF Sound, Workplace
  <2> QED BY <2>1 DEF WorkerSound, HoldsTx
<1>2. Workplace' BY <1>1 DEF Workplace
<1>3. Distinct' BY DEF Sound, Distinct, HoldsTx
<1>4. Ledger' BY DEF Sound, Ledger
<1>5. SuccessIsRecorded' BY DEF Sound, SuccessIsRecorded, attempts
<1> QED BY <1>2, <1>3, <1>4, <1>5 DEF Sound

\* Late effects, core banking's own steps, credits and the passing of days.
LEMMA WorldKeepsSound ==
    ASSUME Sound, World
    PROVE  Sound'
<1>1. TypeOK /\ Ledger BY DEF Sound
<1>2. ASSUME NEW t \in Txs, LateTransfer(t) PROVE Sound'
  <2>1. /\ moved' = moved \cup {t}
        /\ inFlight' = [inFlight EXCEPT !.transfer = @ \ {t}]
        /\ UNCHANGED <<core, attempts, tx, balance, recorded, worker, lastTx, counters>>
    BY <1>2 DEF LateTransfer
  <2>2. inFlight \in [transfer : SUBSET Txs, repayment : SUBSET Txs] BY <1>1 DEF TypeOK
  <2>3. /\ inFlight' \in [transfer : SUBSET Txs, repayment : SUBSET Txs]
        /\ inFlight'.repayment = inFlight.repayment
    BY <2>1, <2>2
  <2>4. TypeOK' BY <1>1, <2>1, <2>3 DEF TypeOK, core, attempts, counters
  <2>5. \A u \in recorded' \cup inFlight'.repayment : tx[u].status = "successful"
    BY <1>1, <2>1, <2>3 DEF Ledger
  <2> QED BY <2>1, <2>4, <2>5, WorldStep
<1>3. ASSUME NEW t \in Txs, LateRepayment(t) PROVE Sound'
  <2>1. /\ recorded' = recorded \cup {t} /\ t \in inFlight.repayment
        /\ inFlight' = [inFlight EXCEPT !.repayment = @ \ {t}]
        /\ UNCHANGED <<core, attempts, tx, balance, moved, worker, lastTx, counters>>
    BY <1>3 DEF LateRepayment
  <2>2. inFlight \in [transfer : SUBSET Txs, repayment : SUBSET Txs] BY <1>1 DEF TypeOK
  <2>3. /\ inFlight' \in [transfer : SUBSET Txs, repayment : SUBSET Txs]
        /\ inFlight'.repayment \subseteq inFlight.repayment
    BY <2>1, <2>2
  <2>4. TypeOK' BY <1>1, <2>1, <2>3 DEF TypeOK, core, attempts, counters
  <2>5. \A u \in recorded' \cup inFlight'.repayment : tx[u].status = "successful"
    BY <1>1, <2>1, <2>3 DEF Ledger
  <2> QED BY <2>1, <2>4, <2>5, WorldStep
<1>4. ASSUME UNCHANGED <<attempts, tx, remote, worker, lastTx>>, TypeOK' PROVE Sound'
  <2>1. moved' = moved /\ recorded' = recorded /\ inFlight' = inFlight BY <1>4 DEF remote
  <2>2. \A u \in recorded' \cup inFlight'.repayment : tx[u].status = "successful"
    BY <1>1, <2>1 DEF Ledger
  <2>3. moved \subseteq moved' /\ recorded \subseteq recorded' BY <2>1
  <2> QED BY <1>4, <2>2, <2>3, WorldStep
<1>5. ASSUME NEW i \in Installments, CbaMarksPaid(i) PROVE Sound'
  <2>1. TypeOK' BY <1>1, <1>5 DEF CbaMarksPaid, TypeOK, attempts, remote, counters
  <2> QED BY <1>4, <1>5, <2>1 DEF CbaMarksPaid
<1>6. ASSUME NEW l \in Loans, LoanCloses(l) PROVE Sound'
  <2>1. TypeOK' BY <1>1, <1>6 DEF LoanCloses, TypeOK, attempts, remote, counters
  <2> QED BY <1>4, <1>6, <2>1 DEF LoanCloses
<1>7. ASSUME NEW l \in Loans, TopUp(l) PROVE Sound'
  <2> DEFINE x == balance[WalletOf[l]] + TotalDebit(l)
  <2>1. balance \in [Wallets -> Int] /\ topUps \in Nat BY <1>1 DEF TypeOK
  <2>2. LoanFor(l) = l BY DEF LoanFor
  <2>3. TotalDebit(l) \in Int BY <2>2, LoansAssumption DEF TotalDebit, Kobo
  <2>4. WalletOf[l] \in Wallets BY LoansAssumption
  <2>5. x \in Int BY <2>1, <2>3, <2>4
  <2>6. balance' = [balance EXCEPT ![WalletOf[l]] = x] BY <1>7 DEF TopUp
  <2> HIDE DEF x
  <2>7. balance' \in [Wallets -> Int] BY <2>1, <2>5, <2>6
  <2>8. topUps' \in Nat BY <1>7, <2>1 DEF TopUp
  <2>9. UNCHANGED <<core, attempts, tx, remote, worker, lastTx, calls, faults>>
    BY <1>7 DEF TopUp
  <2>10. TypeOK' BY <1>1, <2>7, <2>8, <2>9 DEF TypeOK, core, attempts, remote
  <2> QED BY <1>4, <2>9, <2>10
<1>8. ASSUME DayPasses PROVE Sound'
  <2>1. today' \in Nat BY <1>1, <1>8 DEF DayPasses, TypeOK
  <2>2. UNCHANGED <<paid, active, attempts, tx, balance, remote, worker, lastTx, counters>>
    BY <1>8 DEF DayPasses
  <2>3. TypeOK' BY <1>1, <2>1, <2>2 DEF TypeOK, attempts, remote, counters
  <2> QED BY <1>4, <2>2, <2>3
<1> QED BY <1>2, <1>3, <1>5, <1>6, <1>7, <1>8 DEF World

-----------------------------------------------------------------------------
(* The invariant *)

\* Nothing has happened yet: no row, no goroutine at work.
LEMMA InitIsSound == Init => Sound
<1> SUFFICES ASSUME Init PROVE Sound OBVIOUS
<1>1. Idle \in WorkerState /\ Idle.pc = "idle" BY DEF Idle, WorkerState
<1>2. worker = [v \in Workers |-> Idle] BY DEF Init
<1>3. \A v \in Workers : worker[v] = Idle BY <1>2
<1>4. worker \in [Workers -> WorkerState] BY <1>1, <1>2
<1>5. tx \in [Txs -> TxRow] /\ \A t \in Txs : tx[t].status = "none" BY DEF Init, TxRow
<1>6. TypeOK BY <1>4, <1>5, LimitsAssumption DEF Init, TypeOK
<1>7. \A v \in Workers : WorkerSound(worker[v]) /\ ~HoldsTx(worker[v])
  BY <1>1, <1>3 DEF WorkerSound, HoldsTx
<1>8. Workplace /\ Distinct BY <1>7 DEF Workplace, Distinct
<1>9. Ledger BY <1>5 DEF Ledger, Init
<1>10. SuccessIsRecorded BY DEF Init, SuccessIsRecorded
<1> QED BY <1>6, <1>8, <1>9, <1>10 DEF Sound

\* Every step of a goroutine, at work or failing, keeps the invariant.
LEMMA GoroutineKeepsSound ==
    ASSUME Sound, NEW v \in Workers,
           \/ Step(v) \/ FaultyStep(v) \/ StartSweep(v)
           \/ \E l \in Loans : StartManual(v, l)
    PROVE  Sound'
<1>1. CASE Step(v)
  BY <1>1, ReadingSteps, AnswerSteps, AttemptSteps, AddTransactionStep, RemoteSteps, FailTxStep,
     CompleteDebitStep DEF Step
<1>2. CASE FaultyStep(v) BY <1>2, ReadingSteps, AnswerSteps, StartAndLossSteps DEF FaultyStep
<1>3. CASE StartSweep(v) \/ \E l \in Loans : StartManual(v, l) BY <1>3, StartAndLossSteps
<1> QED BY <1>1, <1>2, <1>3

\* Nothing happens in a stutter.
LEMMA StutterKeepsSound ==
    ASSUME Sound, UNCHANGED vars
    PROVE  Sound'
<1>1. UNCHANGED <<attempts, tx, worker, lastTx>> /\ UNCHANGED remote BY DEF vars
<1>2. TypeOK' BY DEF vars, Sound, TypeOK, core, attempts, remote, counters
<1>3. moved' = moved /\ recorded' = recorded /\ inFlight' = inFlight BY <1>1 DEF remote
<1>4. \A u \in recorded' \cup inFlight'.repayment : tx[u].status = "successful"
  BY <1>3 DEF Sound, Ledger
<1> QED BY <1>1, <1>2, <1>3, <1>4, WorldStep

\* Sound is an invariant of the sweep and manual repayments together.
THEOREM SoundAlways == Spec => []Sound
<1>1. Init => Sound BY InitIsSound
<1>2. Sound /\ [Next]_vars => Sound'
  BY GoroutineKeepsSound, WorldKeepsSound, StutterKeepsSound DEF Next
<1> QED BY <1>1, <1>2, PTL DEF Spec

\* Every variable keeps its type.
THEOREM TypeCorrectRepayment == Spec => []TypeOK
<1>1. Sound => TypeOK BY DEF Sound
<1> QED BY <1>1, SoundAlways, PTL

\* Core banking is never told of money that did not leave the wallet, and the
\* ledger never debits what the provider did not execute.
THEOREM RecordedIsPaidForAlways == Spec => []RecordedIsPaidFor
<1>1. Sound => RecordedIsPaidFor BY DEF Sound, Ledger, RecordedIsPaidFor
<1> QED BY <1>1, SoundAlways, PTL

\* A successful attempt stands for a transfer of its own installment that core
\* banking recorded.
THEOREM SuccessIsRecordedAlways == Spec => []SuccessIsRecorded
<1>1. Sound => SuccessIsRecorded BY DEF Sound
<1> QED BY <1>1, SoundAlways, PTL

-----------------------------------------------------------------------------
(* Finding what was not recorded *)

\* Where a goroutine of the sweep has an attempt row.
Attempting == {"read", "skip", "record", "awaiting", "failTx", "fail", "debit", "confirm",
               "failRef", "succeed"}
Attends(v, n, i) == v \in Sweepers /\ n.item = i /\ n.pc \in Attempting
Attending(i) == {v \in Workers : Attends(v, worker[v], i)}

\* Sweeps work on installments, callers on one loan and never on attempts.
Placed(v, n) ==
    /\ v \in Sweepers /\ n.pc # "idle" => n.item \in Installments
    /\ v \in Callers => n.todo = {} /\ n.pc \in {"idle", "read", "record", "awaiting", "failTx",
                                                 "debit", "confirm"}
    /\ v \in Callers /\ n.pc # "idle" => n.item \in Loans

\* The row whose number a goroutine carries is of its item, also after the
\* transfer failed and until it has closed its attempt.
Carries(n) ==
    /\ n.pc \in {"idle", "check", "insert", "read", "skip", "record"} => n.tx = 0
    /\ n.tx # 0 => n.tx <= lastTx /\ tx[n.tx].item = n.item
    /\ n.tx # 0 /\ n.pc = "fail" => tx[n.tx].status # "successful"

Alone ==
    \A u, v \in Workers : worker[u].tx # 0 /\ worker[u].tx = worker[v].tx => u = v

\* Every sweep at work has a pending row; a lost one leaves its row behind.
Counted ==
    \A i \in Installments :
        IsFiniteSet(Attending(i)) /\ Cardinality(Attending(i)) <= pending[i]
LeftBehind(i) == Cardinality(Attending(i)) < pending[i]

Findable(t) ==
    \/ LeftBehind(tx[t].item)
    \/ tx[t].status = "successful" /\ t \in refs
    \/ tx[t].status # "successful" /\ "failed" \in outcomes[tx[t].item]

Traced ==
    /\ \A v \in Workers : Placed(v, worker[v]) /\ Carries(worker[v])
    /\ Alone /\ Counted
    /\ \A t \in Txs :
         tx[t].item \in Installments /\ t \notin recorded /\ (\A v \in Workers : worker[v].tx # t)
         => Findable(t)

-----------------------------------------------------------------------------
(* How the steps count and carry *)

\* One goroutine joins or leaves those that attend an installment.
LEMMA AttendingChanges ==
    ASSUME TypeOK, Counted, NEW v \in Workers, NEW n, Becomes(v, n), NEW i \in Installments
    PROVE  /\ IsFiniteSet(Attending(i)) /\ IsFiniteSet(Attending(i)')
           /\ Cardinality(Attending(i)) \in Nat /\ Cardinality(Attending(i)') \in Nat
           /\ Attends(v, n, i) /\ ~Attends(v, worker[v], i) =>
                Cardinality(Attending(i)') = Cardinality(Attending(i)) + 1
           /\ ~Attends(v, n, i) /\ Attends(v, worker[v], i) =>
                Cardinality(Attending(i)') = Cardinality(Attending(i)) - 1
           /\ (Attends(v, n, i) <=> Attends(v, worker[v], i)) => Attending(i)' = Attending(i)
<1>1. IsFiniteSet(Attending(i)) BY DEF Counted
<1>2. worker'[v] = n /\ \A u \in Workers : u # v => worker'[u] = worker[u]
  BY DEF TypeOK, Becomes
<1>3. Attends(v, n, i) => Attending(i)' = Attending(i) \cup {v}
  BY <1>2 DEF Attending, Attends
<1>4. ~Attends(v, n, i) => Attending(i)' = Attending(i) \ {v}
  BY <1>2 DEF Attending, Attends
<1>5. v \in Attending(i) <=> Attends(v, worker[v], i) BY DEF Attending
<1>6. /\ IsFiniteSet(Attending(i) \cup {v}) /\ IsFiniteSet(Attending(i) \ {v})
      /\ Cardinality(Attending(i) \cup {v}) = IF v \in Attending(i) THEN Cardinality(Attending(i))
                                             ELSE Cardinality(Attending(i)) + 1
      /\ Cardinality(Attending(i) \ {v}) = IF v \in Attending(i) THEN Cardinality(Attending(i)) - 1
                                           ELSE Cardinality(Attending(i))
  BY <1>1, FS_AddElement, FS_RemoveElement
<1>7. Cardinality(Attending(i)) \in Nat BY <1>1, FS_CardinalityType
<1>8. IsFiniteSet(Attending(i)') /\ Cardinality(Attending(i)') \in Nat
  <2>1. IsFiniteSet(Attending(i)') BY <1>3, <1>4, <1>6
  <2> QED BY <2>1, FS_CardinalityType
<1>9. (Attends(v, n, i) <=> Attends(v, worker[v], i)) => Attending(i)' = Attending(i)
  BY <1>3, <1>4, <1>5
<1> QED BY <1>1, <1>3, <1>4, <1>5, <1>6, <1>7, <1>8, <1>9

\* The rows of an installment change at least as its goroutines do.
Enough(v, n) ==
    \A i \in Installments :
        /\ Attends(v, n, i) /\ ~Attends(v, worker[v], i) => pending'[i] >= pending[i] + 1
        /\ ~Attends(v, n, i) /\ Attends(v, worker[v], i) => pending'[i] >= pending[i] - 1
        /\ (Attends(v, n, i) <=> Attends(v, worker[v], i)) => pending'[i] >= pending[i]

\* Attempts are only added to, and a row that changes is the goroutine's own.
Keeps(v, n) ==
    /\ pending' \in [Installments -> Int] /\ lastTx <= lastTx'
    /\ \A i \in Installments : outcomes[i] \subseteq outcomes'[i]
    /\ refs \subseteq refs' /\ recorded \subseteq recorded'
    /\ \A t \in Txs : tx'[t] # tx[t] =>
         /\ t = worker[v].tx \/ t > lastTx
         /\ n.tx = t \/ (t = worker[v].tx /\ tx'[t].item \notin Installments)
    /\ n.tx # 0 => n.tx = worker[v].tx \/ n.tx > lastTx

\* A step that keeps the books of a goroutine's item and lets go of no row that
\* could not be found.
LEMMA TracedStep ==
    ASSUME Sound, TypeOK', Traced, NEW v \in Workers, NEW n, Becomes(v, n),
           Placed(v, n), Carries(n)', Enough(v, n), Keeps(v, n),
           \A t \in Txs : t = worker[v].tx /\ n.tx # t /\ tx'[t].item \in Installments
                         /\ t \notin recorded' => Findable(t)'
    PROVE  Traced'
<1>1. TypeOK /\ Counted /\ Alone BY DEF Sound, Traced
<1>2. worker'[v] = n /\ \A u \in Workers : u # v => worker'[u] = worker[u]
  BY <1>1 DEF TypeOK, Becomes
<1>3. lastTx \in Nat /\ lastTx' \in Nat /\ lastTx <= lastTx' /\ Txs \subseteq Nat /\ 0 \notin Txs
  BY <1>1, LimitsAssumption DEF TypeOK, Keeps, Txs
<1>4. \A u \in Workers : worker[u].tx \in Txs \cup {0} /\ n.tx \in Txs \cup {0}
  BY <1>1 DEF TypeOK, WorkerState, Becomes
<1>5. ASSUME NEW u \in Workers, worker[u].tx # 0
      PROVE  worker[u].tx <= lastTx' /\ ~(worker[u].tx > lastTx)
  <2>1. worker[u].tx <= lastTx BY <1>5 DEF Traced, Carries
  <2>2. worker[u].tx \in Nat BY <1>4, LimitsAssumption DEF Txs
  <2> QED BY ONLY <1>3, <2>1, <2>2
<1>6. ASSUME NEW u \in Workers, u # v PROVE Carries(worker[u])'
  <2>1. Carries(worker[u]) BY DEF Traced
  <2>2. worker[u].tx # 0 => tx'[worker[u].tx] = tx[worker[u].tx]
    <3>1. worker[u].tx # 0 => worker[u].tx # worker[v].tx BY <1>1, <1>6 DEF Alone
    <3>2. worker[u].tx # 0 => ~(worker[u].tx > lastTx) BY <1>5
    <3> QED BY <1>4, <3>1, <3>2 DEF Keeps
  <2>3. worker[u].tx # 0 => worker[u].tx <= lastTx' BY <1>5
  <2> QED BY <1>2, <1>6, <2>1, <2>2, <2>3 DEF Carries
<1>7. \A u \in Workers : Placed(u, worker'[u]) /\ Carries(worker[u])'
  <2>1. Carries(worker[v])' BY <1>2 DEF Carries
  <2>2. \A u \in Workers : Placed(u, worker[u]) BY DEF Traced
  <2>3. \A u \in Workers : Placed(u, worker'[u])
    <3> SUFFICES ASSUME NEW u \in Workers PROVE Placed(u, worker'[u]) OBVIOUS
    <3>1. CASE u = v BY <1>2, <3>1
    <3>2. CASE u # v
      <4>1. worker'[u] = worker[u] BY <1>2, <3>2
      <4> QED BY <2>2, <4>1
    <3> QED BY <3>1, <3>2
  <2> QED BY <1>6, <2>1, <2>3
<1>8. Alone'
  <2>1. ASSUME NEW u \in Workers, u # v, n.tx # 0 PROVE worker[u].tx # n.tx
    <3>1. CASE n.tx = worker[v].tx BY <1>1, <2>1, <3>1 DEF Alone
    <3>2. CASE n.tx > lastTx
      <4> QED BY <1>5, <2>1, <3>2
    <3> QED BY <2>1, <3>1, <3>2 DEF Keeps
  <2> QED BY <1>1, <1>2, <2>1 DEF Alone
<1>9. ASSUME NEW i \in Installments
      PROVE  /\ IsFiniteSet(Attending(i)') /\ Cardinality(Attending(i)') <= pending'[i]
             /\ LeftBehind(i) => LeftBehind(i)'
  <2>1. /\ pending[i] \in Int /\ pending'[i] \in Int /\ Cardinality(Attending(i)) <= pending[i]
    BY <1>1, <1>9 DEF TypeOK, Keeps, Counted
  <2>2. /\ IsFiniteSet(Attending(i)')
        /\ Cardinality(Attending(i)) \in Nat /\ Cardinality(Attending(i)') \in Nat
        /\ Attends(v, n, i) /\ ~Attends(v, worker[v], i) =>
             Cardinality(Attending(i)') = Cardinality(Attending(i)) + 1
        /\ ~Attends(v, n, i) /\ Attends(v, worker[v], i) =>
             Cardinality(Attending(i)') = Cardinality(Attending(i)) - 1
        /\ (Attends(v, n, i) <=> Attends(v, worker[v], i)) => Attending(i)' = Attending(i)
    BY <1>1, <1>9, AttendingChanges
  <2>3. CASE Attends(v, n, i) /\ ~Attends(v, worker[v], i)
    <3>1. pending'[i] >= pending[i] + 1 BY <1>9, <2>3 DEF Enough
    <3> QED BY <2>1, <2>2, <2>3, <3>1 DEF LeftBehind
  <2>4. CASE ~Attends(v, n, i) /\ Attends(v, worker[v], i)
    <3>1. pending'[i] >= pending[i] - 1 BY <1>9, <2>4 DEF Enough
    <3> QED BY <2>1, <2>2, <2>4, <3>1 DEF LeftBehind
  <2>5. CASE Attends(v, n, i) <=> Attends(v, worker[v], i)
    <3>1. pending'[i] >= pending[i] BY <1>9, <2>5 DEF Enough
    <3>2. Attending(i)' = Attending(i) BY <2>2, <2>5
    <3> QED BY <2>1, <2>2, <3>1, <3>2 DEF LeftBehind
  <2> QED BY <2>3, <2>4, <2>5
<1>10. Counted' BY <1>9 DEF Counted
<1>11. ASSUME NEW t \in Txs, tx'[t].item \in Installments, t \notin recorded',
              \A u \in Workers : worker'[u].tx # t
       PROVE  Findable(t)'
  <2>1. CASE t = worker[v].tx
    <3>1. n.tx # t BY <1>2, <1>11
    <3> QED BY <1>11, <2>1, <3>1
  <2>2. CASE t # worker[v].tx
    <3>1. tx'[t] = tx[t] BY <1>2, <1>11, <2>2 DEF Keeps
    <3>2. \A u \in Workers : worker[u].tx # t BY <1>2, <1>11, <2>2
    <3>3. t \notin recorded BY <1>11 DEF Keeps
    <3>4. Findable(t) BY <1>11, <3>1, <3>2, <3>3 DEF Traced
    <3>5. refs \subseteq refs' /\ outcomes[tx[t].item] \subseteq outcomes'[tx[t].item]
      BY <1>11, <3>1 DEF Keeps
    <3>6. PICK i \in Installments : i = tx[t].item /\ i = tx'[t].item BY <1>11, <3>1
    <3>7. LeftBehind(i) => LeftBehind(i)' BY <1>9
    <3>8. LeftBehind(i)' => LeftBehind(tx[t].item)' BY <3>6 DEF LeftBehind, Attending
    <3> QED BY <3>1, <3>4, <3>5, <3>6, <3>7, <3>8 DEF Findable
  <2> QED BY <2>1, <2>2
<1> QED BY <1>7, <1>8, <1>10, <1>11 DEF Traced

\* A goroutine that stays at its item and keeps its row, its attempt untouched.
LEMMA StaysTraced ==
    ASSUME Sound, TypeOK', Traced, NEW v \in Workers, NEW n, Becomes(v, n),
           n.item = worker[v].item, n.tx = worker[v].tx, n.todo = worker[v].todo,
           worker[v].pc # "idle", n.pc # "idle",
           n.pc \in Attempting <=> worker[v].pc \in Attempting,
           v \in Callers => n.pc \in {"read", "record", "awaiting", "failTx", "debit", "confirm"},
           n.tx # 0 => n.pc \in Attempting \ {"read", "skip", "record"},
           n.tx # 0 /\ n.pc = "fail" => tx[n.tx].status # "successful",
           UNCHANGED <<attempts, tx, lastTx>>, recorded \subseteq recorded'
    PROVE  Traced'
<1>1. TypeOK /\ Placed(v, worker[v]) /\ Carries(worker[v]) BY DEF Sound, Traced
<1>2. Placed(v, n) BY <1>1 DEF Placed
<1>3. Carries(n)' BY <1>1 DEF Carries, Attempting
<1>4. UNCHANGED <<pending, outcomes, refs>> BY DEF attempts
<1>5. \A i \in Installments : pending[i] \in Int BY <1>1 DEF TypeOK
<1>6. \A i \in Installments : Attends(v, n, i) <=> Attends(v, worker[v], i) BY DEF Attends
<1>7. Enough(v, n) BY <1>4, <1>5, <1>6 DEF Enough
<1>8. lastTx \in Nat BY <1>1, LimitsAssumption DEF TypeOK
<1>9. pending' \in [Installments -> Int] BY <1>1, <1>4 DEF TypeOK
<1>10. Keeps(v, n) BY <1>4, <1>8, <1>9 DEF Keeps
<1> QED BY <1>2, <1>3, <1>7, <1>10, TracedStep

\* A goroutine that has nothing in hand any more: it ends, or looks at the next
\* installment of its sweep.
Free(v, n) == Placed(v, n) /\ n.pc \in {"idle", "check"} /\ n.tx = 0

LEMMA NextItemFrees ==
    ASSUME TypeOK, NEW v \in Workers, Placed(v, worker[v]), NextItem(v)
    PROVE  \E n : Becomes(v, n) /\ Free(v, n)
<1>1. worker[v].todo \subseteq Installments BY DEF TypeOK, WorkerState
<1>2. CASE worker[v].todo = {}
  <2>1. worker' = [worker EXCEPT ![v] = Idle] BY <1>2 DEF NextItem
  <2>2. Idle \in WorkerState /\ Free(v, Idle) BY DEF Idle, WorkerState, Free, Placed
  <2> QED BY <2>1, <2>2 DEF Becomes
<1>3. CASE worker[v].todo # {}
  <2>1. PICK i \in worker[v].todo : worker' = [worker EXCEPT ![v] = Begin(i, worker[v].todo \ {i})]
    BY <1>3 DEF NextItem
  <2>2. i \in Installments /\ v \notin Callers BY <1>1, <1>3 DEF Placed
  <2> DEFINE n == Begin(i, worker[v].todo \ {i})
  <2>3. n \in WorkerState BY <1>1, <2>2 DEF Begin, WorkerState, Items
  <2>4. n.pc = "check" /\ n.item = i /\ n.tx = 0 BY DEF Begin
  <2> HIDE DEF n
  <2>5. Free(v, n) BY <2>2, <2>4 DEF Free, Placed
  <2> QED BY <2>1, <2>3, <2>5 DEF Becomes, n
<1> QED BY <1>2, <1>3

\* The row a sweep lets go of is of the installment that it attended.
LEMMA HeldRow ==
    ASSUME Sound, Traced, NEW v \in Workers, NEW t \in Txs, t = worker[v].tx,
           tx[t].item \in Installments
    PROVE  tx[t].item = worker[v].item /\ Attends(v, worker[v], tx[t].item) /\ t # 0
<1>1. 0 \notin Txs BY DEF Txs
<1>2. Placed(v, worker[v]) /\ Carries(worker[v]) /\ worker[v] \in WorkerState
  BY DEF Traced, Sound, TypeOK
<1>3. worker[v].tx # 0 BY <1>1
<1>4. tx[t].item = worker[v].item BY <1>2, <1>3 DEF Carries
<1>5. worker[v].pc \in Attempting /\ worker[v].pc # "idle"
  BY <1>2, <1>3 DEF Carries, Attempting, WorkerState
<1>6. v \in Sweepers
  <2>1. v \in Callers => worker[v].item \in Loans BY <1>2, <1>5 DEF Placed
  <2> QED BY <1>4, <2>1, LoansAssumption DEF Workers
<1> QED BY <1>3, <1>4, <1>5, <1>6 DEF Attends

\* A goroutine that lets go without closing its attempt leaves a pending row.
LEMMA FreedTraced ==
    ASSUME Sound, TypeOK', Traced, NEW v \in Workers, NEW n, Becomes(v, n), Free(v, n),
           UNCHANGED <<attempts, lastTx>>, recorded \subseteq recorded',
           \A t \in Txs : tx'[t] # tx[t] => t = worker[v].tx /\ tx'[t].item \notin Installments
    PROVE  Traced'
<1>1. TypeOK /\ Counted BY DEF Sound, Traced
<1>2. Placed(v, n) /\ Carries(n)' BY DEF Free, Carries
<1>3. UNCHANGED <<pending, outcomes, refs>> BY DEF attempts
<1>4. \A i \in Installments : pending[i] \in Int /\ ~Attends(v, n, i)
  BY <1>1 DEF TypeOK, Attends, Free, Attempting
<1>5. Enough(v, n) BY <1>3, <1>4 DEF Enough
<1>6. lastTx \in Nat /\ pending' \in [Installments -> Int]
  BY <1>1, <1>3, LimitsAssumption DEF TypeOK
<1>7. Keeps(v, n) BY <1>3, <1>6 DEF Keeps, Free
<1>8. ASSUME NEW t \in Txs, t = worker[v].tx, tx'[t].item \in Installments
      PROVE  Findable(t)'
  <2>1. tx'[t] = tx[t] BY <1>8
  <2>2. PICK i \in Installments : i = tx[t].item BY <1>8, <2>1
  <2>3. Attends(v, worker[v], i) BY <1>8, <2>1, <2>2, HeldRow
  <2>4. /\ Cardinality(Attending(i)) \in Nat
        /\ Cardinality(Attending(i)') = Cardinality(Attending(i)) - 1
    BY <1>1, <1>4, <2>3, AttendingChanges
  <2>5. Cardinality(Attending(i)) <= pending[i] BY <1>1 DEF Counted
  <2>6. LeftBehind(i)' BY <1>3, <1>4, <2>4, <2>5 DEF LeftBehind
  <2>7. LeftBehind(i)' => LeftBehind(tx[t].item)' BY <2>1, <2>2 DEF LeftBehind, Attending
  <2> QED BY <2>6, <2>7 DEF Findable
<1> QED BY <1>2, <1>5, <1>7, <1>8, TracedStep

\* A jump to another label keeps item, row and list.
LEMMA GotoTraced ==
    ASSUME Sound, TypeOK', Traced, NEW v \in Workers, NEW l \in Labels, Goto(v, l),
           worker[v].pc # "idle",
           l \in Attempting <=> worker[v].pc \in Attempting,
           v \in Callers => l \in {"record", "failTx", "debit", "confirm"},
           worker[v].pc \in {"check", "insert", "read", "skip", "record"} \/ HoldsTx(worker[v]),
           HoldsTx(worker[v]) => l \in {"failTx", "fail", "debit", "confirm", "failRef", "succeed"},
           HoldsTx(worker[v]) /\ l = "fail" => worker[v].pc = "failTx",
           UNCHANGED <<attempts, tx, lastTx>>, recorded \subseteq recorded'
    PROVE  Traced'
<1> DEFINE n == At(v, l)
<1>1. /\ Becomes(v, n) /\ n.pc = l /\ n.item = worker[v].item /\ n.tx = worker[v].tx
  BY GotoBecomes DEF Sound
<1>2. n.todo = worker[v].todo BY DEF At, Sound, TypeOK, WorkerState
<1> HIDE DEF n
<1>3. Carries(worker[v]) /\ WorkerSound(worker[v]) BY DEF Traced, Sound, Workplace
<1>4. n.tx # 0 => HoldsTx(worker[v]) BY <1>1, <1>3 DEF Carries
<1>5. l \in Labels /\ n.pc # "idle" BY <1>1 DEF Labels
<1>6. n.tx # 0 => n.pc \in Attempting \ {"read", "skip", "record"}
  BY <1>1, <1>4 DEF Attempting
<1>7. n.tx # 0 /\ n.pc = "fail" => tx[n.tx].status # "successful"
  BY <1>1, <1>3, <1>4 DEF WorkerSound
<1>8. n.pc \in Attempting <=> worker[v].pc \in Attempting BY <1>1
<1>9. v \in Callers => n.pc \in {"read", "record", "awaiting", "failTx", "debit", "confirm"}
  BY <1>1
<1> QED BY <1>1, <1>2, <1>5, <1>6, <1>7, <1>8, <1>9, StaysTraced

\* On an error a sweep jumps to its clean-up, a caller is done.
LEMMA OtherwiseTraced ==
    ASSUME Sound, TypeOK', Traced, NEW v \in Workers, NEW l \in {"skip", "fail", "failRef", "succeed"},
           Otherwise(v, l), worker[v].pc \in Attempting,
           worker[v].pc = "read" \/ worker[v].pc = "record" \/ HoldsTx(worker[v]),
           l = "skip" => worker[v].pc = "read",
           HoldsTx(worker[v]) /\ l = "fail" => worker[v].pc = "failTx",
           UNCHANGED <<attempts, tx, lastTx>>, recorded \subseteq recorded'
    PROVE  Traced'
<1>1. TypeOK /\ Placed(v, worker[v]) BY DEF Sound, Traced
<1>2. CASE NextItem(v)
  <2>1. PICK n : Becomes(v, n) /\ Free(v, n) BY <1>1, <1>2, NextItemFrees
  <2> QED BY <2>1, FreedTraced
<1>3. CASE v \in Sweepers /\ Goto(v, l)
  <2>1. v \notin Callers BY <1>3, ActorsAssumption
  <2>2. l \in Labels /\ l \in Attempting /\ worker[v].pc # "idle" BY DEF Labels, Attempting
  <2>3. HoldsTx(worker[v]) => l \in {"failTx", "fail", "debit", "confirm", "failRef", "succeed"}
    BY DEF HoldsTx
  <2> QED BY <1>3, <2>1, <2>2, <2>3, GotoTraced
<1> QED BY <1>2, <1>3 DEF Otherwise

\* Steps that only move a goroutine.
LEMMA JumpsTraced ==
    ASSUME Sound, TypeOK', Traced, NEW v \in Workers,
           \/ CheckActive(v) \/ ReadWallet(v) \/ ReadOrAddFails(v) \/ TransferReturns(v)
           \/ TransferFails(v) \/ FailTxLost(v) \/ CompleteDebitFails(v) \/ CbaReturns(v)
           \/ CbaFails(v) \/ ProviderMoves(v) \/ CbaRecords(v)
    PROVE  Traced'
<1>1. TypeOK /\ Placed(v, worker[v]) /\ worker[v] \in WorkerState BY DEF Sound, Traced, TypeOK
<1>2. UNCHANGED <<attempts, tx, lastTx>> /\ recorded \subseteq recorded'
  BY DEF CheckActive, ReadWallet, ReadOrAddFails, TransferReturns, TransferFails, FailTxLost,
         CompleteDebitFails, CbaReturns, CbaFails, ProviderMoves, CbaRecords, remote
<1>3. CASE CheckActive(v)
  <2>1. CASE NextItem(v)
    <3>1. PICK n : Becomes(v, n) /\ Free(v, n) BY <1>1, <2>1, NextItemFrees
    <3> QED BY <1>2, <3>1, FreedTraced
  <2>2. CASE Goto(v, "insert")
    <3>1. worker[v].pc = "check" /\ v \notin Callers BY <1>1, <1>3 DEF CheckActive, Placed
    <3> QED BY <1>2, <2>2, <3>1, GotoTraced DEF Labels, Attempting, HoldsTx
  <2> QED BY <1>3, <2>1, <2>2 DEF CheckActive
<1>4. CASE ReadWallet(v)
  <2>1. worker[v].pc = "read" BY <1>4 DEF ReadWallet
  <2>2. CASE Otherwise(v, "skip")
    BY <1>2, <2>1, <2>2, OtherwiseTraced DEF Attempting, HoldsTx
  <2>3. CASE Goto(v, "record")
    BY <1>2, <2>1, <2>3, GotoTraced DEF Labels, Attempting, HoldsTx
  <2> QED BY <1>4, <2>2, <2>3 DEF ReadWallet
<1>5. CASE ReadOrAddFails(v)
  <2>1. worker[v].pc \in {"read", "record"} /\ Otherwise(v, "fail") BY <1>5 DEF ReadOrAddFails
  <2> QED BY <1>2, <2>1, OtherwiseTraced DEF Attempting, HoldsTx
<1>6. CASE TransferReturns(v)
  <2> DEFINE n == [worker[v] EXCEPT !.pc = "debit", !.done = FALSE]
  <2>1. worker[v].pc = "awaiting" /\ worker' = [worker EXCEPT ![v] = n]
    BY <1>6 DEF TransferReturns
  <2>2. /\ n \in WorkerState /\ n.pc = "debit" /\ n.item = worker[v].item /\ n.tx = worker[v].tx
        /\ n.todo = worker[v].todo
    BY <1>1 DEF WorkerState
  <2> HIDE DEF n
  <2>3. Becomes(v, n) BY <2>1, <2>2 DEF Becomes
  <2> QED BY <1>2, <2>1, <2>2, <2>3, StaysTraced DEF Attempting
<1>7. CASE TransferFails(v)
  <2>1. worker[v].pc = "awaiting" /\ Goto(v, "failTx") BY <1>7 DEF TransferFails
  <2> QED BY <1>2, <2>1, GotoTraced DEF Labels, Attempting, HoldsTx
<1>8. CASE FailTxLost(v)
  <2>1. worker[v].pc = "failTx" /\ Otherwise(v, "fail") BY <1>8 DEF FailTxLost
  <2> QED BY <1>2, <2>1, OtherwiseTraced DEF Attempting, HoldsTx
<1>9. CASE CompleteDebitFails(v)
  <2>1. worker[v].pc = "debit" /\ Otherwise(v, "failRef") BY <1>9 DEF CompleteDebitFails
  <2> QED BY <1>2, <2>1, OtherwiseTraced DEF Attempting, HoldsTx
<1>10. CASE CbaReturns(v)
  <2>1. worker[v].pc = "confirm" /\ Otherwise(v, "succeed") BY <1>10 DEF CbaReturns
  <2> QED BY <1>2, <2>1, OtherwiseTraced DEF Attempting, HoldsTx
<1>11. CASE CbaFails(v)
  <2>1. worker[v].pc = "confirm" /\ Otherwise(v, "failRef") BY <1>11 DEF CbaFails
  <2> QED BY <1>2, <2>1, OtherwiseTraced DEF Attempting, HoldsTx
<1>12. CASE ProviderMoves(v) \/ CbaRecords(v)
  <2> DEFINE n == [worker[v] EXCEPT !.done = TRUE]
  <2>1. worker[v].pc \in {"awaiting", "confirm"} /\ worker' = [worker EXCEPT ![v] = n]
    BY <1>12 DEF ProviderMoves, CbaRecords
  <2>2. /\ n \in WorkerState /\ n.pc = worker[v].pc /\ n.item = worker[v].item
        /\ n.tx = worker[v].tx /\ n.todo = worker[v].todo
    BY <1>1 DEF WorkerState
  <2> HIDE DEF n
  <2>3. Becomes(v, n) BY <2>1, <2>2 DEF Becomes
  <2> QED BY <1>2, <2>1, <2>2, <2>3, StaysTraced DEF Attempting
<1> QED BY <1>3, <1>4, <1>5, <1>6, <1>7, <1>8, <1>9, <1>10, <1>11, <1>12

\* A sweep or a manual repayment starts, or its goroutine is lost.
LEMMA StartAndLossTraced ==
    ASSUME Sound, TypeOK', Traced, NEW v \in Workers,
           \/ StartSweep(v) \/ (\E l \in Loans : StartManual(v, l))
           \/ ItemExpires(v) \/ SweepDies(v)
    PROVE  Traced'
<1>1. TypeOK /\ Placed(v, worker[v]) BY DEF Sound, Traced
<1>2. UNCHANGED <<attempts, tx, lastTx>> /\ recorded \subseteq recorded'
  BY DEF StartSweep, StartManual, ItemExpires, SweepDies, remote
<1>3. Idle \in WorkerState /\ Free(v, Idle) BY DEF Idle, WorkerState, Free, Placed
<1>4. CASE StartSweep(v)
  <2>1. PICK i \in Installments :
            worker' = [worker EXCEPT ![v] = Begin(i, {k \in Installments : Due(k)} \ {i})]
    BY <1>4 DEF StartSweep
  <2> DEFINE n == Begin(i, {k \in Installments : Due(k)} \ {i})
  <2>2. v \notin Callers BY <1>4, ActorsAssumption DEF StartSweep
  <2>3. n \in WorkerState /\ n.pc = "check" /\ n.item = i /\ n.tx = 0
    BY DEF Begin, WorkerState, Items
  <2> HIDE DEF n
  <2>4. Becomes(v, n) /\ Free(v, n) BY <2>1, <2>2, <2>3 DEF Becomes, Free, Placed, n
  <2> QED BY <1>2, <2>4, FreedTraced
<1>5. CASE \E l \in Loans : StartManual(v, l)
  <2>1. PICK l \in Loans : StartManual(v, l) BY <1>5
  <2> DEFINE n == [Idle EXCEPT !.pc = "read", !.item = l]
  <2>2. n \in WorkerState /\ n.pc = "read" /\ n.item = l /\ n.tx = 0 /\ n.todo = {}
    BY DEF Idle, WorkerState, Items
  <2>3. worker' = [worker EXCEPT ![v] = n] /\ v \in Callers /\ worker[v].pc = "idle"
    BY <2>1 DEF StartManual
  <2>4. v \notin Sweepers BY <2>3, ActorsAssumption
  <2> HIDE DEF n
  <2>5. Becomes(v, n) /\ Placed(v, n) /\ Carries(n)'
    BY <2>2, <2>3, <2>4 DEF Becomes, Placed, Carries
  <2>6. \A i \in Installments : ~Attends(v, n, i) /\ ~Attends(v, worker[v], i)
    BY <2>4 DEF Attends
  <2>7. \A i \in Installments : pending[i] \in Int BY <1>1 DEF TypeOK
  <2>8. Enough(v, n) BY <1>2, <2>6, <2>7 DEF Enough, attempts
  <2>9. lastTx \in Nat BY <1>1, LimitsAssumption DEF TypeOK
  <2>10. Keeps(v, n) BY <1>1, <1>2, <2>2, <2>9 DEF Keeps, attempts, TypeOK
  <2>11. \A t \in Txs : t # worker[v].tx
    <3>1. worker[v].tx = 0 BY <2>3 DEF Traced, Carries
    <3> QED BY <3>1 DEF Txs
  <2> QED BY <2>5, <2>8, <2>10, <2>11, TracedStep
<1>6. CASE ItemExpires(v)
  <2>1. NextItem(v) BY <1>6 DEF ItemExpires
  <2>2. PICK n : Becomes(v, n) /\ Free(v, n) BY <1>1, <2>1, NextItemFrees
  <2> QED BY <1>2, <2>2, FreedTraced
<1>7. CASE SweepDies(v)
  <2>1. Becomes(v, Idle) BY <1>3, <1>7 DEF SweepDies, Becomes
  <2> QED BY <1>2, <1>3, <2>1, FreedTraced
<1> QED BY <1>4, <1>5, <1>6, <1>7

\* A sweep inserts the pending row of the installment that it begins to attend.
LEMMA InsertTraced ==
    ASSUME Sound, TypeOK', Traced, NEW v \in Workers, InsertAttempt(v)
    PROVE  Traced'
<1> DEFINE j == worker[v].item
<1>1. TypeOK /\ Placed(v, worker[v]) /\ Carries(worker[v]) BY DEF Sound, Traced
<1>2. worker[v].pc = "insert" /\ Goto(v, "read") BY DEF InsertAttempt
<1>3. PICK m : m = At(v, "read") OBVIOUS
<1>4. /\ Becomes(v, m) /\ m.pc = "read" /\ m.item = j /\ m.tx = 0 /\ m.todo = worker[v].todo
  <2>1. worker[v].tx = 0 BY <1>1, <1>2 DEF Carries
  <2>2. m.todo = worker[v].todo BY <1>3 DEF At, Sound, TypeOK, WorkerState
  <2> QED BY <1>2, <1>3, <2>1, <2>2, GotoBecomes DEF Sound, Labels
<1>5. v \in Sweepers /\ v \notin Callers /\ j \in Installments
  BY <1>1, <1>2 DEF Placed, Workers
<1>6. pending' = [pending EXCEPT ![j] = @ + 1] /\ UNCHANGED <<outcomes, refs, tx, recorded, lastTx>>
  BY DEF InsertAttempt, remote
<1> HIDE DEF j
<1>7. Placed(v, m) /\ Carries(m)' BY <1>4, <1>5 DEF Placed, Carries
<1>8. \A i \in Installments : pending[i] \in Int /\ pending'[i] = IF i = j THEN pending[i] + 1 ELSE pending[i]
  BY <1>1, <1>6 DEF TypeOK
<1>9. /\ \A i \in Installments : Attends(v, m, i) <=> i = j
      /\ \A i \in Installments : ~Attends(v, worker[v], i)
  BY <1>2, <1>4, <1>5 DEF Attends, Attempting
<1>10. Enough(v, m) BY <1>8, <1>9 DEF Enough
<1>11. lastTx \in Nat /\ pending' \in [Installments -> Int]
  BY <1>1, LimitsAssumption DEF TypeOK
<1>12. Keeps(v, m) BY <1>4, <1>6, <1>11 DEF Keeps
<1>13. \A t \in Txs : t # worker[v].tx
  <2>1. worker[v].tx = 0 BY <1>1, <1>2 DEF Carries
  <2> QED BY <2>1 DEF Txs
<1> QED BY <1>4, <1>7, <1>10, <1>12, <1>13, TracedStep

\* A sweep closes its attempt: with a row that core banking did not record, as
\* failed, and with its reference if the wallet was debited.
LEMMA CloseTraced ==
    ASSUME Sound, TypeOK', Traced, NEW v \in Workers, NEW status \in Outcomes, NEW ref,
           worker[v].pc \in {"skip", "fail", "failRef", "succeed"},
           Close(v, status, ref), NextItem(v),
           \A t \in Txs : t = worker[v].tx /\ t \notin recorded =>
                status = "failed" /\ (tx[t].status = "successful" => t \in ref),
           UNCHANGED <<tx, recorded, lastTx>>
    PROVE  Traced'
<1> DEFINE j == worker[v].item
<1>1. TypeOK /\ Placed(v, worker[v]) BY DEF Sound, Traced
<1>2. PICK n : Becomes(v, n) /\ Free(v, n) BY <1>1, NextItemFrees
<1>3. v \in Sweepers /\ j \in Installments BY <1>1 DEF Placed, Workers
<1>4. CASE UNCHANGED attempts BY <1>2, <1>4, FreedTraced
<1>5. CASE /\ pending' = [pending EXCEPT ![j] = @ - 1]
           /\ outcomes' = [outcomes EXCEPT ![j] = @ \cup {status}]
           /\ refs' = refs \cup ref
  <2> HIDE DEF j
  <2>1. \A i \in Installments :
          pending[i] \in Int /\ pending'[i] = IF i = j THEN pending[i] - 1 ELSE pending[i]
    BY <1>1, <1>5 DEF TypeOK
  <2>2. \A i \in Installments :
          outcomes'[i] = IF i = j THEN outcomes[i] \cup {status} ELSE outcomes[i]
    BY <1>1, <1>5 DEF TypeOK
  <2>3. /\ \A i \in Installments : ~Attends(v, n, i)
        /\ \A i \in Installments : Attends(v, worker[v], i) <=> i = j
    BY <1>2, <1>3 DEF Attends, Attempting, Free, j
  <2>4. Enough(v, n) BY <2>1, <2>3 DEF Enough
  <2>5. lastTx \in Nat /\ pending' \in [Installments -> Int]
    BY <1>1, LimitsAssumption DEF TypeOK
  <2>6. Keeps(v, n) BY <1>2, <1>5, <2>2, <2>5 DEF Keeps, Free
  <2>7. Placed(v, n) /\ Carries(n)' BY <1>2 DEF Free, Carries
  <2>8. ASSUME NEW t \in Txs, t = worker[v].tx, tx'[t].item \in Installments, t \notin recorded'
        PROVE  Findable(t)'
    <3>1. tx[t].item = j BY <2>8, HeldRow DEF j
    <3>2. status = "failed" /\ (tx[t].status = "successful" => t \in ref) BY <2>8
    <3>3. "failed" \in outcomes'[tx'[t].item] BY <1>3, <2>2, <3>1, <3>2 DEF j
    <3> QED BY <1>5, <3>2, <3>3 DEF Findable
  <2> QED BY <1>2, <2>4, <2>6, <2>7, <2>8, TracedStep
<1> QED BY <1>4, <1>5 DEF Close

LEMMA ClosingTraced ==
    ASSUME Sound, TypeOK', Traced, NEW v \in Workers,
           Skip(v) \/ Fail(v) \/ FailWithRef(v) \/ Succeed(v)
    PROVE  Traced'
<1>1. Carries(worker[v]) /\ WorkerSound(worker[v]) BY DEF Traced, Sound, Workplace
<1>2. UNCHANGED <<tx, recorded, lastTx>> /\ NextItem(v)
  BY DEF Skip, Fail, FailWithRef, Succeed, remote
<1>3. 0 \notin Txs BY DEF Txs
<1>4. CASE Skip(v)
  <2>1. worker[v].pc = "skip" /\ Close(v, "skipped", {}) BY <1>4 DEF Skip
  <2>2. \A t \in Txs : t # worker[v].tx BY <1>1, <1>3, <2>1 DEF Carries
  <2> QED BY <1>2, <2>1, <2>2, CloseTraced DEF Outcomes
<1>5. CASE Fail(v)
  <2>1. worker[v].pc = "fail" /\ Close(v, "failed", {}) BY <1>5 DEF Fail
  <2>2. \A t \in Txs : t = worker[v].tx => tx[t].status # "successful"
    BY <1>1, <1>3, <2>1 DEF Carries
  <2> QED BY <1>2, <2>1, <2>2, CloseTraced DEF Outcomes
<1>6. CASE FailWithRef(v)
  <2>1. worker[v].pc = "failRef" /\ Close(v, "failed", {worker[v].tx}) BY <1>6 DEF FailWithRef
  <2>2. \A t \in Txs : t = worker[v].tx => t \in {worker[v].tx} OBVIOUS
  <2> QED BY <1>2, <2>1, <2>2, CloseTraced DEF Outcomes
<1>7. CASE Succeed(v)
  <2>1. worker[v].pc = "succeed" /\ Close(v, "success", {}) BY <1>7 DEF Succeed
  <2>2. worker[v].tx \in recorded BY <1>1, <2>1 DEF WorkerSound
  <2> QED BY <1>2, <2>1, <2>2, CloseTraced DEF Outcomes
<1> QED BY <1>4, <1>5, <1>6, <1>7

\* A new row is carried by the goroutine that added it.
LEMMA AddTraced ==
    ASSUME Sound, TypeOK', Traced, NEW v \in Workers, AddTransaction(v)
    PROVE  Traced'
<1> PICK n : n = [worker[v] EXCEPT !.pc = "awaiting", !.tx = lastTx + 1, !.done = FALSE]
  OBVIOUS
<1>1. /\ TypeOK /\ Placed(v, worker[v]) /\ Carries(worker[v]) /\ worker[v] \in WorkerState
      /\ worker[v].pc = "record"
  BY DEF Sound, Traced, TypeOK, AddTransaction
<1>2. lastTx \in Nat /\ lastTx + 1 \in Txs /\ lastTx' = lastTx + 1 /\ lastTx + 1 > lastTx
      /\ lastTx + 1 # 0
  BY <1>1, LimitsAssumption DEF AddTransaction, TypeOK, Txs
<1>3. worker' = [worker EXCEPT ![v] = n] BY <1>1 DEF AddTransaction, TypeOK
<1>4. /\ n \in WorkerState /\ n.pc = "awaiting" /\ n.item = worker[v].item
      /\ n.tx = lastTx + 1 /\ n.todo = worker[v].todo
  BY <1>1, <1>2 DEF WorkerState
<1>5. UNCHANGED <<attempts, recorded>> BY DEF AddTransaction, remote
<1>6. /\ tx' = [tx EXCEPT ![lastTx + 1] = [status |-> "pending", item |-> worker[v].item]]
      /\ tx \in [Txs -> TxRow]
  BY <1>1 DEF AddTransaction, TypeOK
<1>7. tx'[lastTx + 1].item = worker[v].item /\ \A t \in Txs : t # lastTx + 1 => tx'[t] = tx[t]
  BY <1>2, <1>6
<1>8. Becomes(v, n) BY <1>3, <1>4 DEF Becomes
<1>9. Placed(v, n) BY <1>1, <1>4 DEF Placed
<1>10. Carries(n)' BY <1>2, <1>4, <1>7 DEF Carries
<1>11. \A i \in Installments : Attends(v, n, i) <=> Attends(v, worker[v], i)
  BY <1>1, <1>4 DEF Attends, Attempting
<1>12. \A i \in Installments : pending[i] \in Int BY <1>1 DEF TypeOK
<1>13. Enough(v, n) BY <1>5, <1>11, <1>12 DEF Enough, attempts
<1>14. Keeps(v, n) BY <1>1, <1>2, <1>4, <1>5, <1>7 DEF Keeps, attempts, TypeOK
<1>15. \A t \in Txs : t # worker[v].tx
  <2>1. worker[v].tx = 0 BY <1>1 DEF Carries
  <2> QED BY <2>1 DEF Txs
<1> QED BY <1>8, <1>9, <1>10, <1>13, <1>14, <1>15, TracedStep

\* A row gets its final status while the goroutine carries it, or was a caller's.
LEMMA FinalTraced ==
    ASSUME Sound, TypeOK', Traced, NEW v \in Workers, FailTx(v) \/ CompleteDebit(v)
    PROVE  Traced'
<1> DEFINE j == worker[v].tx
<1>1. /\ TypeOK /\ Placed(v, worker[v]) /\ Carries(worker[v]) /\ WorkerSound(worker[v])
      /\ worker[v] \in WorkerState /\ HoldsTx(worker[v])
  BY DEF Sound, Traced, Workplace, TypeOK, FailTx, CompleteDebit, HoldsTx
<1>2. j \in Txs /\ j # 0 /\ j <= lastTx BY <1>1 DEF WorkerSound, Txs
<1>3. UNCHANGED <<attempts, recorded, lastTx>> BY DEF FailTx, CompleteDebit, remote
<1>4. lastTx \in Nat /\ tx \in [Txs -> TxRow] BY <1>1, LimitsAssumption DEF TypeOK
<1>5. PICK s \in {"failed", "successful"} :
        /\ tx' = [tx EXCEPT ![j].status = s]
        /\ CompleteDebit(v) \/ s = "failed"
  BY DEF FailTx, CompleteDebit
<1>6. /\ \A t \in Txs : t # j => tx'[t] = tx[t]
      /\ tx'[j].item = worker[v].item /\ tx'[j].status = s
  BY <1>1, <1>2, <1>4, <1>5 DEF WorkerSound, TxRow
<1> HIDE DEF j
<1>7. CASE NextItem(v) /\ v \notin Sweepers
  <2>1. PICK n : Becomes(v, n) /\ Free(v, n) BY <1>1, <1>7, NextItemFrees
  <2>2. worker[v].item \in Loans
    BY <1>1, <1>7 DEF Placed, Workers, HoldsTx
  <2>3. worker[v].item \notin Installments BY <2>2, LoansAssumption
  <2>4. \A t \in Txs : tx'[t] # tx[t] => t = worker[v].tx /\ tx'[t].item \notin Installments
    BY <1>6, <2>3 DEF j
  <2> QED BY <1>3, <2>1, <2>4, FreedTraced
<1>8. ASSUME NEW l \in {"fail", "confirm"}, Goto(v, l), l = "fail" => s = "failed" /\ v \in Sweepers
      PROVE  Traced'
  <2> PICK n : n = At(v, l) OBVIOUS
  <2>1. /\ Becomes(v, n) /\ n.pc = l /\ n.item = worker[v].item /\ n.tx = j
    BY <1>1, <1>8, GotoBecomes DEF Labels, j
  <2>2. n.todo = worker[v].todo BY <1>1 DEF At, WorkerState
  <2>3. v \in Sweepers => v \notin Callers BY ActorsAssumption
  <2>4. Placed(v, n) BY <1>1, <1>8, <2>1, <2>2, <2>3 DEF Placed, HoldsTx
  <2>5. Carries(n)' BY <1>2, <1>3, <1>6, <1>8, <2>1 DEF Carries
  <2>6. \A i \in Installments : Attends(v, n, i) <=> Attends(v, worker[v], i)
    BY <1>1, <1>8, <2>1 DEF Attends, Attempting, HoldsTx
  <2>7. \A i \in Installments : pending[i] \in Int BY <1>1 DEF TypeOK
  <2>8. Enough(v, n) BY <1>3, <2>6, <2>7 DEF Enough, attempts
  <2>9. Keeps(v, n) BY <1>1, <1>3, <1>4, <1>6, <2>1 DEF Keeps, attempts, TypeOK, j
  <2>10. n.tx = worker[v].tx BY <2>1 DEF j
  <2> QED BY <2>1, <2>4, <2>5, <2>8, <2>9, <2>10, TracedStep
<1>9. CASE CompleteDebit(v)
  <2>1. Goto(v, "confirm") BY <1>9 DEF CompleteDebit
  <2> QED BY <1>8, <2>1
<1>10. CASE FailTx(v) /\ s = "failed"
  <2>1. Otherwise(v, "fail") BY <1>10 DEF FailTx
  <2> QED BY <1>7, <1>8, <1>10, <2>1 DEF Otherwise
<1> QED BY <1>5, <1>9, <1>10

\* What happens outside takes nothing from the attempts.
LEMMA WorldTraced ==
    ASSUME Traced, World \/ UNCHANGED vars
    PROVE  Traced'
<1>1. UNCHANGED <<attempts, tx, worker, lastTx>> /\ recorded \subseteq recorded'
  BY DEF World, LateTransfer, LateRepayment, CbaMarksPaid, LoanCloses, TopUp, DayPasses, remote, vars
<1>2. \A v \in Workers : Carries(worker[v])' BY <1>1 DEF Traced, Carries
<1>3. \A v \in Workers : Placed(v, worker'[v]) BY <1>1 DEF Traced
<1>4. \A i \in Installments : Attending(i)' = Attending(i) BY <1>1 DEF Attending
<1>5. Alone' /\ Counted' BY <1>1, <1>4 DEF Traced, Alone, Counted, attempts
<1>6. \A t \in Txs : Findable(t) => Findable(t)'
  BY <1>1 DEF Findable, LeftBehind, Attending, attempts
<1> QED BY <1>1, <1>2, <1>3, <1>5, <1>6 DEF Traced

LEMMA InitIsTraced == Init => Traced
<1> SUFFICES ASSUME Init PROVE Traced OBVIOUS
<1>1. \A v \in Workers : worker[v] = Idle BY DEF Init
<1>2. Idle.pc = "idle" /\ Idle.tx = 0 /\ Idle.todo = {} BY DEF Idle
<1>3. \A v \in Workers : Placed(v, worker[v]) /\ Carries(worker[v])
  BY <1>1, <1>2 DEF Placed, Carries
<1>4. Alone BY <1>1, <1>2 DEF Alone
<1>5. \A i \in Installments : Attending(i) = {}
  BY <1>1, <1>2 DEF Attending, Attends, Attempting
<1>6. Counted
  <2>1. \A i \in Installments : pending[i] = 0 BY DEF Init
  <2>2. IsFiniteSet({}) /\ Cardinality({}) = 0 BY FS_EmptySet
  <2> QED BY <1>5, <2>1, <2>2 DEF Counted
<1>7. \A t \in Txs : tx[t].item \notin Installments
  BY ActorsAssumption DEF Init, Items
<1> QED BY <1>3, <1>4, <1>6, <1>7 DEF Traced

\* Traced is an invariant of the sweep and manual repayments together.
THEOREM TracedAlways == Spec => []Traced
<1>1. Init => Traced BY InitIsTraced
<1>2. Sound /\ Sound' /\ Traced /\ [Next]_vars => Traced'
  <2> SUFFICES ASSUME Sound, Sound', Traced, [Next]_vars PROVE Traced' OBVIOUS
  <2>1. TypeOK' BY DEF Sound
  <2>2. ASSUME NEW v \in Workers, Step(v) \/ FaultyStep(v) \/ StartSweep(v) PROVE Traced'
    BY <2>1, <2>2, JumpsTraced, StartAndLossTraced, InsertTraced, ClosingTraced, AddTraced,
       FinalTraced DEF Step, FaultyStep
  <2>3. ASSUME NEW v \in Workers, NEW l \in Loans, StartManual(v, l) PROVE Traced'
    BY <2>1, <2>3, StartAndLossTraced
  <2> QED BY <2>2, <2>3, WorldTraced DEF Next
<1> QED BY <1>1, <1>2, SoundAlways, PTL DEF Spec

\* Money that a sweep took and core banking did not record is found through the
\* attempts once no goroutine works on it: by a pending row, or else by a row
\* marked failed, which has the reference if the transfer is booked (the rows may
\* say failed of money that has moved: CbaFails, FailWithRef).
THEOREM ReconcilableAlways == Spec => []Reconcilable
<1>1. Sound /\ Traced => Reconcilable
  <2> SUFFICES ASSUME Sound, Traced, NEW t \in Txs, tx[t].item \in Installments, t \notin recorded,
                      \A v \in Workers : worker[v].tx # t
               PROVE  \/ pending[tx[t].item] > 0
                      \/ tx[t].status = "successful" /\ t \in refs
                      \/ tx[t].status # "successful" /\ "failed" \in outcomes[tx[t].item]
    BY DEF Reconcilable
  <2>1. Findable(t) BY DEF Traced
  <2>2. ASSUME LeftBehind(tx[t].item) PROVE pending[tx[t].item] > 0
    <3>1. Cardinality(Attending(tx[t].item)) \in Nat BY FS_CardinalityType DEF Traced, Counted
    <3>2. pending[tx[t].item] \in Int BY DEF Sound, TypeOK
    <3> QED BY <2>2, <3>1, <3>2 DEF LeftBehind
  <2> QED BY <2>1, <2>2 DEF Findable
<1> QED BY <1>1, SoundAlways, TracedAlways, PTL
=============================================================================
