---------------------------- MODULE LoanRepayment ----------------------------
(***************************************************************************)
(* How loan instalments are paid out of a wallet: the daily sweep of       *)
(* cmd/autorepayment (internal/modules/autorepayment) and the manual       *)
(* repayment of internal/modules/loanproduct, which shares its wallet and  *)
(* its core banking adapter.                                               *)
(*                                                                         *)
(* Both debit the wallet at the provider, then in the local ledger, then   *)
(* tell core banking (CBA).  No transaction spans two of these, each call  *)
(* may fail or time out after it took effect, and every statement of a     *)
(* goroutine fails once its context has expired.  The sweep leaves an      *)
(* attempt row behind; a manual repayment leaves only its transaction.     *)
(*                                                                         *)
(* loan_loan and loan_loan_repayment are tables of core banking: their     *)
(* updates are external.  Amounts are checked and debited in kobo; what    *)
(* the provider moves is a transaction id (its amount is not modelled      *)
(* here, nor are notifications and the balance snapshots of a row).        *)
(***************************************************************************)
EXTENDS Integers, FiniteSets

CONSTANTS
    Installments,     \* numbers, in the order of expected_to_be_paid_date
    Loans, LoanOf,    \* loan of an installment
    Wallets, WalletOf,   \* wallet of a loan's customer
    Amount,           \* installment of a loan, in naira
    Charges,          \* provider charges and VAT of a transfer, in kobo
    Sweepers,         \* one single-flight cron per process of cmd/autorepayment
    Callers,          \* goroutines of POST /loan/repayment/manual
    MaxTx,            \* bound: transaction rows
    MaxCalls,         \* bound: manual repayments
    MaxTopUps,        \* bound: credits of a wallet
    MaxFaults,        \* bound: crashes, time-outs, provider, CBA and database errors
    None

Workers == Sweepers \cup Callers
Txs == 1..MaxTx
\* What a transfer is for: an installment (sweep) or a loan (manual).
Items == Installments \cup Loans

ASSUME LoansAssumption ==
    /\ Installments \subseteq Nat
    /\ Installments \cap Loans = {}
    /\ LoanOf \in [Installments -> Loans]
    /\ WalletOf \in [Loans -> Wallets]
    /\ Amount \in [Loans -> Nat]
    /\ Charges \in Nat
ASSUME LimitsAssumption ==
    MaxTx \in Nat /\ MaxCalls \in Nat /\ MaxTopUps \in Nat /\ MaxFaults \in Nat
ASSUME ActorsAssumption ==
    Sweepers \cap Callers = {} /\ None \notin Items

VARIABLES
    today,      \* installments up to this one have fallen due
    paid,       \* loan_loan_repayment.paid
    active,     \* loans with loan_loan.status = 'Active'
    pending,    \* wallet_auto_repayment_attempts: pending rows of an installment
    outcomes,   \* ... final statuses among its rows
    refs,       \* ... transactions whose provider_ref a failed row carries
    tx,         \* wallet_transactions
    balance,    \* wallet_customer_wallets.available_balance
    moved,      \* transfers the provider has executed
    recorded,   \* repayments core banking has recorded
    inFlight,   \* abandoned requests to the provider and to core banking
    worker,     \* sweeps and manual repayments in progress
    lastTx, calls, topUps, faults

core == <<today, paid, active>>
attempts == <<pending, outcomes, refs>>
remote == <<moved, recorded, inFlight>>
counters == <<calls, topUps, faults>>
vars == <<core, attempts, tx, balance, remote, worker, lastTx, counters>>

Outcomes == {"skipped", "failed", "success"}
TxRow == [status : {"none", "pending", "successful", "failed"}, item : Items \cup {None}]
WorkerState == [pc : {"idle", "check", "insert", "read", "skip", "record", "awaiting", "failTx",
                      "fail", "debit", "confirm", "failRef", "succeed"},
                item : Items \cup {None}, todo : SUBSET Installments,
                tx : Txs \cup {0}, done : BOOLEAN]
Idle == [pc |-> "idle", item |-> None, todo |-> {}, tx |-> 0, done |-> FALSE]

Init ==
    /\ today = 0 /\ paid = {} /\ active = Loans
    /\ pending = [i \in Installments |-> 0]
    /\ outcomes = [i \in Installments |-> {}]
    /\ refs = {}
    /\ tx = [t \in Txs |-> [status |-> "none", item |-> None]]
    /\ balance = [w \in Wallets |-> 0]
    /\ moved = {} /\ recorded = {}
    /\ inFlight = [transfer |-> {}, repayment |-> {}]
    /\ worker = [v \in Workers |-> Idle]
    /\ lastTx = 0 /\ calls = 0 /\ topUps = 0 /\ faults = 0

Fault == faults < MaxFaults /\ faults' = faults + 1

LoanFor(item) == IF item \in Loans THEN item ELSE LoanOf[item]
WalletFor(item) == WalletOf[LoanFor(item)]
Kobo(item) == Amount[LoanFor(item)] * 100
TotalDebit(item) == Kobo(item) + Charges

-----------------------------------------------------------------------------
(* ProcessDueRepayments: the rows of one query, one after the other *)

\* Mutant: an installment with any finished attempt is not selected again.
DueUnlessTried(i) ==
    /\ i <= today /\ i \notin paid /\ LoanOf[i] \in active
    /\ outcomes[i] = {}

\* dueTodayQuery
Due(i) ==
    /\ i <= today /\ i \notin paid /\ LoanOf[i] \in active
    /\ "success" \notin outcomes[i]

Begin(i, todo) ==
    [pc |-> "check", item |-> i, todo |-> todo, tx |-> 0, done |-> FALSE]

\* The loop goes on with the next row in date order, or the sweep ends.  A
\* manual repayment has nothing left to do.
NextItem(v) ==
    LET todo == worker[v].todo IN
    IF todo = {} THEN worker' = [worker EXCEPT ![v] = Idle]
    ELSE \E i \in todo :
        /\ \A k \in todo : i <= k
        /\ worker' = [worker EXCEPT ![v] = Begin(i, todo \ {i})]

Goto(v, label) == worker' = [worker EXCEPT ![v].pc = label]

\* The cron fires; `running` keeps a second sweep out of the same process.
StartSweep(v) ==
    LET due == {i \in Installments : Due(i)} IN
    /\ v \in Sweepers /\ worker[v].pc = "idle"
    /\ \E i \in due :
        /\ \A k \in due : i <= k
        /\ worker' = [worker EXCEPT ![v] = Begin(i, due \ {i})]
    /\ UNCHANGED <<core, attempts, tx, balance, remote, lastTx, counters>>

\* HasActiveAttempt: a pending row, also one a lost sweep left, skips the item.
CheckActive(v) ==
    /\ worker[v].pc = "check"
    /\ IF pending[worker[v].item] > 0 THEN NextItem(v) ELSE Goto(v, "insert")
    /\ UNCHANGED <<core, attempts, tx, balance, remote, lastTx, counters>>

InsertAttempt(v) ==
    /\ worker[v].pc = "insert"
    /\ pending' = [pending EXCEPT ![worker[v].item] = @ + 1]
    /\ Goto(v, "read")
    /\ UNCHANGED <<core, outcomes, refs, tx, balance, remote, lastTx, counters>>

\* UpdateAttemptStatus; uq_auto_repayment_attempts_success refuses a second
\* success, and the discarded error leaves the row pending.
Close(v, status, ref) ==
    LET i == worker[v].item IN
    IF status = "success" /\ "success" \in outcomes[i] THEN UNCHANGED attempts
    ELSE /\ pending' = [pending EXCEPT ![i] = @ - 1]
         /\ outcomes' = [outcomes EXCEPT ![i] = @ \cup {status}]
         /\ refs' = refs \cup ref

Skip(v) ==
    /\ worker[v].pc = "skip"
    /\ Close(v, "skipped", {})
    /\ NextItem(v)
    /\ UNCHANGED <<core, tx, balance, remote, lastTx, counters>>

\* The wallet could not be read, no row was inserted, or the transfer failed.
Fail(v) ==
    /\ worker[v].pc = "fail"
    /\ Close(v, "failed", {})
    /\ NextItem(v)
    /\ UNCHANGED <<core, tx, balance, remote, lastTx, counters>>

\* Mutant: the provider reference is not stored with the failure.
FailWithoutRef(v) ==
    /\ worker[v].pc = "failRef"
    /\ Close(v, "failed", {})
    /\ NextItem(v)
    /\ UNCHANGED <<core, tx, balance, remote, lastTx, counters>>

\* The wallet was debited at the provider: the reference is kept for operations.
FailWithRef(v) ==
    /\ worker[v].pc = "failRef"
    /\ Close(v, "failed", {worker[v].tx})
    /\ NextItem(v)
    /\ UNCHANGED <<core, tx, balance, remote, lastTx, counters>>

Succeed(v) ==
    /\ worker[v].pc = "succeed"
    /\ Close(v, "success", {})
    /\ NextItem(v)
    /\ UNCHANGED <<core, tx, balance, remote, lastTx, counters>>

-----------------------------------------------------------------------------
(* The transfer, common to processSingle and TransferForLoanRepayment *)

\* MakeManualRepayment: PIN verified, the wallet is read next.
StartManual(v, l) ==
    /\ v \in Callers /\ worker[v].pc = "idle"
    /\ calls < MaxCalls
    /\ calls' = calls + 1
    /\ worker' = [worker EXCEPT ![v] = [Idle EXCEPT !.pc = "read", !.item = l]]
    /\ UNCHANGED <<core, attempts, tx, balance, remote, lastTx, topUps, faults>>

\* On an error a sweep closes its attempt, a manual repayment just returns.
Otherwise(v, label) == IF v \in Sweepers THEN Goto(v, label) ELSE NextItem(v)

\* GetWallet and the comparison; charges are not part of it.
ReadWallet(v) ==
    LET item == worker[v].item IN
    /\ worker[v].pc = "read"
    /\ IF balance[WalletFor(item)] < Kobo(item) THEN Otherwise(v, "skip") ELSE Goto(v, "record")
    /\ UNCHANGED <<core, attempts, tx, balance, remote, lastTx, counters>>

\* AddTransaction, then the request to the provider leaves.
AddTransaction(v) ==
    /\ worker[v].pc = "record"
    /\ lastTx < MaxTx
    /\ lastTx' = lastTx + 1
    /\ tx' = [tx EXCEPT ![lastTx + 1] = [status |-> "pending", item |-> worker[v].item]]
    /\ worker' = [worker EXCEPT ![v].pc = "awaiting", ![v].tx = lastTx + 1, ![v].done = FALSE]
    /\ UNCHANGED <<core, attempts, balance, remote, counters>>

ReadOrAddFails(v) ==
    /\ worker[v].pc \in {"read", "record"}
    /\ Fault
    /\ Otherwise(v, "fail")
    /\ UNCHANGED <<core, attempts, tx, balance, remote, lastTx, calls, topUps>>

\* External: the provider executes the transfer.
ProviderMoves(v) ==
    /\ worker[v].pc = "awaiting" /\ ~worker[v].done
    /\ moved' = moved \cup {worker[v].tx}
    /\ worker' = [worker EXCEPT ![v].done = TRUE]
    /\ UNCHANGED <<core, attempts, tx, balance, recorded, inFlight, lastTx, counters>>

TransferReturns(v) ==
    /\ worker[v].pc = "awaiting" /\ worker[v].done
    /\ worker' = [worker EXCEPT ![v].pc = "debit", ![v].done = FALSE]
    /\ UNCHANGED <<core, attempts, tx, balance, remote, lastTx, counters>>

\* A request the worker no longer waits for may still take effect.
Abandoned(v) ==
    IF worker[v].done THEN inFlight
    ELSE CASE worker[v].pc = "awaiting" ->
                [inFlight EXCEPT !.transfer = @ \cup {worker[v].tx}]
           [] worker[v].pc = "confirm" ->
                [inFlight EXCEPT !.repayment = @ \cup {worker[v].tx}]
           [] OTHER -> inFlight

\* Refused, or no answer within the client's 15 s: both are an error.
TransferFails(v) ==
    /\ worker[v].pc = "awaiting"
    /\ Fault
    /\ inFlight' = Abandoned(v)
    /\ Goto(v, "failTx")
    /\ UNCHANGED <<core, attempts, tx, balance, moved, recorded, lastTx, calls, topUps>>

\* UpdateTransactionStatus(failed), then the caller's own clean-up.
FailTx(v) ==
    /\ worker[v].pc = "failTx"
    /\ tx' = [tx EXCEPT ![worker[v].tx].status = "failed"]
    /\ Otherwise(v, "fail")
    /\ UNCHANGED <<core, attempts, balance, remote, lastTx, counters>>

\* Its error is discarded.  It draws on no fault of its own: what cut the call
\* to the provider off may fail this statement as well.
FailTxLost(v) ==
    /\ worker[v].pc = "failTx"
    /\ Otherwise(v, "fail")
    /\ UNCHANGED <<core, attempts, tx, balance, remote, lastTx, counters>>

\* CompleteDebitTransaction: the row and the wallet in one transaction.
CompleteDebit(v) ==
    LET item == worker[v].item IN
    /\ worker[v].pc = "debit"
    /\ tx' = [tx EXCEPT ![worker[v].tx].status = "successful"]
    /\ balance' = [balance EXCEPT ![WalletFor(item)] = @ - TotalDebit(item)]
    /\ Goto(v, "confirm")
    /\ UNCHANGED <<core, attempts, remote, lastTx, counters>>

\* Mutant: core banking is told although the ledger could not be updated.
CompleteDebitFailsUnnoticed(v) ==
    /\ worker[v].pc = "debit"
    /\ Fault
    /\ Goto(v, "confirm")
    /\ UNCHANGED <<core, attempts, tx, balance, remote, lastTx, calls, topUps>>

CompleteDebitFails(v) ==
    /\ worker[v].pc = "debit"
    /\ Fault
    /\ Otherwise(v, "failRef")
    /\ UNCHANGED <<core, attempts, tx, balance, remote, lastTx, calls, topUps>>

-----------------------------------------------------------------------------
(* MakeManualRepayment of the core banking adapter *)

\* External: core banking records a repayment of the loan.
CbaRecords(v) ==
    /\ worker[v].pc = "confirm" /\ ~worker[v].done
    /\ recorded' = recorded \cup {worker[v].tx}
    /\ worker' = [worker EXCEPT ![v].done = TRUE]
    /\ UNCHANGED <<core, attempts, tx, balance, moved, inFlight, lastTx, counters>>

CbaReturns(v) ==
    /\ worker[v].pc = "confirm" /\ worker[v].done
    /\ Otherwise(v, "succeed")
    /\ UNCHANGED <<core, attempts, tx, balance, remote, lastTx, counters>>

\* Mutant: an error of core banking does not fail the attempt.
CbaErrorIgnored(v) ==
    /\ worker[v].pc = "confirm"
    /\ Fault
    /\ inFlight' = Abandoned(v)
    /\ Otherwise(v, "succeed")
    /\ UNCHANGED <<core, attempts, tx, balance, moved, recorded, lastTx, calls, topUps>>

CbaFails(v) ==
    /\ worker[v].pc = "confirm"
    /\ Fault
    /\ inFlight' = Abandoned(v)
    /\ Otherwise(v, "failRef")
    /\ UNCHANGED <<core, attempts, tx, balance, moved, recorded, lastTx, calls, topUps>>

-----------------------------------------------------------------------------
(* Lost goroutines and the rest of the world *)

\* The 30 s context of an item (or of a request) ends: every later statement
\* fails, so the rows stay as they are and the sweep goes on.
ItemExpires(v) ==
    /\ worker[v].pc # "idle"
    /\ Fault
    /\ inFlight' = Abandoned(v)
    /\ NextItem(v)
    /\ UNCHANGED <<core, attempts, tx, balance, moved, recorded, lastTx, calls, topUps>>

\* The process crashes, or the ten minutes of the sweep are over.
SweepDies(v) ==
    /\ v \in Sweepers /\ worker[v].pc # "idle"
    /\ Fault
    /\ inFlight' = Abandoned(v)
    /\ worker' = [worker EXCEPT ![v] = Idle]
    /\ UNCHANGED <<core, attempts, tx, balance, moved, recorded, lastTx, calls, topUps>>

\* External: an abandoned request takes effect after all.
LateTransfer(t) ==
    /\ t \in inFlight.transfer
    /\ inFlight' = [inFlight EXCEPT !.transfer = @ \ {t}]
    /\ moved' = moved \cup {t}
    /\ UNCHANGED <<core, attempts, tx, balance, recorded, worker, lastTx, counters>>

LateRepayment(t) ==
    /\ t \in inFlight.repayment
    /\ inFlight' = [inFlight EXCEPT !.repayment = @ \ {t}]
    /\ recorded' = recorded \cup {t}
    /\ UNCHANGED <<core, attempts, tx, balance, moved, worker, lastTx, counters>>

\* External: core banking applies a recorded repayment to an installment of the
\* loan; which one is its own choice, the request names only the loan.
CbaMarksPaid(i) ==
    LET ofLoan(S) == {x \in S : LoanOf[x] = LoanOf[i]} IN
    /\ i \notin paid
    /\ Cardinality(ofLoan(paid)) < Cardinality({t \in recorded : LoanFor(tx[t].item) = LoanOf[i]})
    /\ paid' = paid \cup {i}
    /\ UNCHANGED <<today, active, attempts, tx, balance, remote, worker, lastTx, counters>>

\* External: the loan leaves the status 'Active'.
LoanCloses(l) ==
    /\ l \in active
    /\ active' = active \ {l}
    /\ UNCHANGED <<today, paid, attempts, tx, balance, remote, worker, lastTx, counters>>

DayPasses ==
    /\ \E i \in Installments : today < i
    /\ today' = today + 1
    /\ UNCHANGED <<paid, active, attempts, tx, balance, remote, worker, lastTx, counters>>

\* HandleCreditWebhook: the customer tops up by the price of one installment.
TopUp(l) ==
    /\ topUps < MaxTopUps
    /\ topUps' = topUps + 1
    /\ balance' = [balance EXCEPT ![WalletOf[l]] = @ + TotalDebit(l)]
    /\ UNCHANGED <<core, attempts, tx, remote, worker, lastTx, calls, faults>>

-----------------------------------------------------------------------------
Step(v) ==
    \/ CheckActive(v) \/ InsertAttempt(v) \/ ReadWallet(v) \/ Skip(v) \/ Fail(v)
    \/ AddTransaction(v) \/ ProviderMoves(v) \/ TransferReturns(v) \/ FailTx(v)
    \/ CompleteDebit(v) \/ CbaRecords(v) \/ CbaReturns(v) \/ FailWithRef(v) \/ Succeed(v)

FaultyStep(v) ==
    \/ ReadOrAddFails(v) \/ TransferFails(v) \/ FailTxLost(v) \/ CompleteDebitFails(v)
    \/ CbaFails(v) \/ ItemExpires(v) \/ SweepDies(v)

World ==
    \/ \E t \in Txs : LateTransfer(t) \/ LateRepayment(t)
    \/ \E i \in Installments : CbaMarksPaid(i)
    \/ \E l \in Loans : LoanCloses(l) \/ TopUp(l)
    \/ DayPasses

Next ==
    \/ \E v \in Workers : Step(v) \/ FaultyStep(v) \/ StartSweep(v)
    \/ \E v \in Workers, l \in Loans : StartManual(v, l)
    \/ World

Spec == Init /\ [][Next]_vars

\* The cron fires every day and its calls return; days pass.
FairSpec ==
    /\ Spec
    /\ \A v \in Sweepers : WF_vars(StartSweep(v)) /\ WF_vars(Step(v))
    /\ WF_vars(DayPasses)

-----------------------------------------------------------------------------
(* Properties *)

\* Every variable holds a value of its type.
TypeOK ==
    /\ today \in Nat /\ paid \subseteq Installments /\ active \subseteq Loans
    /\ pending \in [Installments -> Int]
    /\ outcomes \in [Installments -> SUBSET Outcomes]
    /\ refs \subseteq Txs
    /\ tx \in [Txs -> TxRow]
    /\ balance \in [Wallets -> Int]
    /\ moved \subseteq Txs /\ recorded \subseteq Txs
    /\ inFlight \in [transfer : SUBSET Txs, repayment : SUBSET Txs]
    /\ worker \in [Workers -> WorkerState]
    /\ lastTx \in 0..MaxTx /\ calls \in Nat /\ topUps \in Nat /\ faults \in Nat

\* Core banking is never told of money that did not leave the wallet: a recorded
\* repayment was debited in the ledger and a debit was executed by the provider,
\* whichever calls are lost, late or answered after their goroutine is gone.
RecordedIsPaidFor ==
    /\ \A t \in recorded : tx[t].status = "successful"
    /\ \A t \in Txs : tx[t].status = "successful" => t \in moved

\* A successful attempt stands for a transfer of this installment that core
\* banking recorded; two installments never share one.
SuccessIsRecorded ==
    \A i \in Installments : "success" \in outcomes[i] =>
        \E t \in recorded : tx[t].item = i

\* "Ops should reconcile via [rows] where status is 'failed' but provider_ref is
\* populated": money the sweep took that core banking did not record, and a
\* transfer whose fate a lost goroutine never learnt, can be found through the
\* attempts once no sweep works on it.
Reconcilable ==
    \A t \in Txs :
        /\ tx[t].item \in Installments /\ t \notin recorded
        /\ \A v \in Workers : worker[v].tx # t
        => \/ pending[tx[t].item] > 0
           \/ tx[t].status = "successful" /\ t \in refs
           \/ tx[t].status # "successful" /\ "failed" \in outcomes[tx[t].item]

\* A skipped or failed installment is tried again the next day: with enough money
\* in the wallet it is settled, unless a lost sweep left its row pending.
Orphaned(i) == pending[i] > 0 /\ \A v \in Sweepers : worker[v].item # i
FundedIsRepaid ==
    \A i \in Installments :
        <>[](balance[WalletFor(i)] >= Kobo(i)) =>
            <>(\/ "success" \in outcomes[i] \/ i \in paid
               \/ LoanOf[i] \notin active \/ Orphaned(i))
=============================================================================
