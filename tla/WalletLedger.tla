------------------------------ MODULE WalletLedger ------------------------------
(***************************************************************************)
(* The books of a wallet (internal/modules/wallet): user transfers, loan   *)
(* repayments and the provider's credit webhook, against the account that  *)
(* the provider holds.  Rows of different wallets share nothing, so there  *)
(* is one wallet.                                                          *)
(*                                                                         *)
(* A debit is a pending row, a call to the provider, and a transaction     *)
(* that completes the row and the balance; a credit is one transaction.    *)
(* Both transactions mean to lock the wallet, but gorm v2 ignores          *)
(* "gorm:query_option": they read it unlocked, so the balance that a row   *)
(* shows is a stale one, while the balance itself is SQL arithmetic.       *)
(*                                                                         *)
(* The provider is external: it refuses what its account does not cover,   *)
(* may execute a transfer after the request was given up, and repeats a    *)
(* webhook that was not answered.                                          *)
(*                                                                         *)
(* Left out: the PIN (PinLock), the cap on a new user's transfers, the     *)
(* beneficiaries, and purchases, which never touch this balance            *)
(* (BillPurchase).  Amounts are in kobo unless named naira.                *)
(***************************************************************************)
EXTENDS Integers, FiniteSets, FiniteSetsExt

CONSTANTS
    Naira,      \* amounts asked for
    Charges,    \* charges and VAT of a transfer
    Opening,    \* opening balance
    Requests,   \* goroutines that transfer
    Hooks,      \* goroutines that handle a webhook
    Deposits, DepositAmount,
    None,
    MaxRows,    \* bound: transaction rows
    MaxFaults   \* bound: crashes, time-outs, refusals and database errors

ASSUME LedgerAssumption ==
    /\ Naira \subseteq Nat /\ Charges \in Nat /\ Opening \in Nat
    /\ IsFiniteSet(Deposits) /\ DepositAmount \in [Deposits -> Nat]
    /\ None \notin Deposits /\ None \notin Nat
    /\ MaxRows \in Nat /\ MaxFaults \in Nat

Txs == 1..MaxRows

VARIABLES
    balance,    \* wallet_customer_wallets.available_balance
    row, lastRow,   \* wallet_transactions
    req, hook,  \* the goroutines
    \* the provider
    bank,       \* what its account holds
    moved,      \* what a debit's transfer moved, None while it has not
    late,       \* requests given up that it may still execute
    owed,       \* its webhooks
    faults

vars == <<balance, row, lastRow, req, hook, bank, moved, late, owed, faults>>
provider == <<bank, moved, late, owed>>

Kinds == {"transfer", "repayment"}
Row == [kind : Kinds \cup {"credit"}, status : {"none", "pending", "successful", "failed"},
        amount : Nat, after : Int, of : Deposits \cup {None}]
Request == [pc : {"idle", "insert", "call", "fail", "read", "commit"},
            kind : Kinds, naira : Naira \cup {0}, tx : Txs \cup {0}, snap : Int]
Hook == [pc : {"idle", "read", "commit"}, of : Deposits \cup {None}, snap : Int]

TypeOK ==
    /\ balance \in Int /\ bank \in Nat
    /\ row \in [Txs -> Row] /\ lastRow \in 0..MaxRows
    /\ req \in [Requests -> Request] /\ hook \in [Hooks -> Hook]
    /\ moved \in [Txs -> Nat \cup {None}] /\ late \subseteq 1..lastRow
    /\ owed \in [Deposits -> {"none", "owed", "sent", "answered"}]
    /\ faults \in 0..MaxFaults

NoRow == [kind |-> "transfer", status |-> "none", amount |-> 0, after |-> 0, of |-> None]
IdleRequest == [pc |-> "idle", kind |-> "transfer", naira |-> 0, tx |-> 0, snap |-> 0]
IdleHook == [pc |-> "idle", of |-> None, snap |-> 0]

Init ==
    /\ balance = Opening /\ bank = Opening
    /\ row = [t \in Txs |-> NoRow] /\ lastRow = 0
    /\ req = [r \in Requests |-> IdleRequest] /\ hook = [h \in Hooks |-> IdleHook]
    /\ moved = [t \in Txs |-> None] /\ late = {}
    /\ owed = [d \in Deposits |-> "none"]
    /\ faults = 0

Fault == faults < MaxFaults /\ faults' = faults + 1
Goto(r, pc) == req' = [req EXCEPT ![r].pc = pc]
Ends(r) == req' = [req EXCEPT ![r] = IdleRequest]
HookEnds(h) == hook' = [hook EXCEPT ![h] = IdleHook]

-----------------------------------------------------------------------------
(* Debits *)

\* The service sends a transfer in kobo and a repayment in naira; the client
\* divides both by 100 (providers/baas/providus.go:455).
Sent(kind, naira) == IF kind = "transfer" THEN naira * 100 ELSE naira

\* InitiateTransfer, TransferForLoanRepayment: only the latter looks at the
\* balance, and leaves out the charges.
Ask(r, kind, naira) ==
    /\ req[r].pc = "idle" /\ lastRow < MaxRows
    /\ naira > 50
    /\ kind = "repayment" => balance >= naira * 100
    /\ req' = [req EXCEPT ![r] = [@ EXCEPT !.pc = "insert", !.kind = kind, !.naira = naira]]
    /\ UNCHANGED <<balance, row, lastRow, hook, provider, faults>>

\* AddTransaction
Insert(r) ==
    /\ req[r].pc = "insert" /\ lastRow < MaxRows
    /\ lastRow' = lastRow + 1
    /\ row' = [row EXCEPT ![lastRow'] =
                 [NoRow EXCEPT !.kind = req[r].kind, !.status = "pending",
                               !.amount = req[r].naira * 100]]
    /\ req' = [req EXCEPT ![r] = [@ EXCEPT !.pc = "call", !.tx = lastRow']]
    /\ UNCHANGED <<balance, hook, provider, faults>>

Covers(kobo) == bank >= kobo + Charges
SentFor(t) == Sent(row[t].kind, row[t].amount \div 100)

Execute(t) ==
    /\ Covers(SentFor(t))
    /\ bank' = bank - SentFor(t) - Charges
    /\ moved' = [moved EXCEPT ![t] = SentFor(t)]

\* Mutant: an answer whose status is false is not looked at.
RefusedUnseen(r) ==
    /\ req[r].pc = "call" /\ ~Covers(SentFor(req[r].tx))
    /\ Goto(r, "read")
    /\ UNCHANGED <<balance, row, lastRow, hook, provider, faults>>

\* Status false, no body or an error status: the provider did not move it.
Refused(r) ==
    /\ req[r].pc = "call"
    /\ \/ ~Covers(SentFor(req[r].tx)) /\ UNCHANGED faults
       \/ Fault
    /\ Goto(r, "fail")
    /\ UNCHANGED <<balance, row, lastRow, hook, provider>>

Executed(r) ==
    /\ req[r].pc = "call" /\ Execute(req[r].tx)
    /\ Goto(r, "read")
    /\ UNCHANGED <<balance, row, lastRow, hook, late, owed, faults>>

\* The client gives up, or the answer cannot be read: the same error.
TimesOut(r) ==
    /\ req[r].pc = "call" /\ Fault
    /\ late' = late \cup {req[r].tx}
    /\ Goto(r, "fail")
    /\ UNCHANGED <<balance, row, lastRow, hook, bank, moved, owed>>

ExecutesLate(t) ==
    /\ t \in late /\ Execute(t)
    /\ late' = late \ {t}
    /\ UNCHANGED <<balance, row, lastRow, req, hook, owed, faults>>

\* UpdateTransactionStatus
FailTx(r) ==
    /\ req[r].pc = "fail"
    /\ row' = [row EXCEPT ![req[r].tx].status = "failed"]
    /\ Ends(r)
    /\ UNCHANGED <<balance, lastRow, hook, provider, faults>>

\* CompleteDebitTransaction: an unlocked read ...
ReadDebited(r) ==
    /\ req[r].pc = "read"
    /\ req' = [req EXCEPT ![r] = [@ EXCEPT !.pc = "commit", !.snap = balance]]
    /\ UNCHANGED <<balance, row, lastRow, hook, provider, faults>>

TotalDebit(t) == row[t].amount + Charges

\* Mutant: the balance that was read is written back.
DebitsSnapshot(r) == balance' = req[r].snap - TotalDebit(req[r].tx)

Debits(r) == balance' = balance - TotalDebit(req[r].tx)

\* ... and the two updates, committed together.
CompleteDebit(r) ==
    /\ req[r].pc = "commit"
    /\ row' = [row EXCEPT ![req[r].tx] =
                 [@ EXCEPT !.status = "successful",
                           !.after = req[r].snap - TotalDebit(req[r].tx)]]
    /\ Debits(r)
    /\ Ends(r)
    /\ UNCHANGED <<lastRow, hook, provider, faults>>

\* The process dies, the request is cancelled, or a statement fails: the rest
\* of the handler does not happen, and its row stays as it is.
Abandon(r) ==
    /\ req[r].pc # "idle" /\ Fault
    /\ late' \in {late} \cup (IF req[r].pc = "call" THEN {late \cup {req[r].tx}} ELSE {})
    /\ Ends(r)
    /\ UNCHANGED <<balance, row, lastRow, hook, bank, moved, owed>>

-----------------------------------------------------------------------------
(* Credits *)

PayIn(d) ==
    /\ owed[d] = "none"
    /\ bank' = bank + DepositAmount[d]
    /\ owed' = [owed EXCEPT ![d] = "owed"]
    /\ UNCHANGED <<balance, row, lastRow, req, hook, moved, late, faults>>

\* HandleCreditWebhook: the look for an earlier row is commented out.
Deliver(h, d) ==
    /\ hook[h].pc = "idle" /\ owed[d] = "owed"
    /\ owed' = [owed EXCEPT ![d] = "sent"]
    /\ hook' = [hook EXCEPT ![h] = [@ EXCEPT !.pc = "read", !.of = d]]
    /\ UNCHANGED <<balance, row, lastRow, req, bank, moved, late, faults>>

\* CreditWalletAtomically: the same unlocked read, ...
ReadCredited(h) ==
    /\ hook[h].pc = "read"
    /\ hook' = [hook EXCEPT ![h] = [@ EXCEPT !.pc = "commit", !.snap = balance]]
    /\ UNCHANGED <<balance, row, lastRow, req, provider, faults>>

\* The handler answers 200 whatever became of the webhook; an answer after
\* the provider stopped waiting for it is lost.
Answers(h) ==
    owed' = [owed EXCEPT ![hook[h].of] = IF @ = "sent" THEN "answered" ELSE @]

\* ... the row and the balance.
Credit(h) ==
    /\ hook[h].pc = "commit" /\ lastRow < MaxRows
    /\ lastRow' = lastRow + 1
    /\ LET amount == DepositAmount[hook[h].of] IN
       /\ row' = [row EXCEPT ![lastRow'] =
                    [kind |-> "credit", status |-> "successful", amount |-> amount,
                     after |-> hook[h].snap + amount, of |-> hook[h].of]]
       /\ balance' = balance + amount
    /\ Answers(h)
    /\ HookEnds(h)
    /\ UNCHANGED <<req, bank, moved, late, faults>>

CreditFails(h) ==
    /\ hook[h].pc # "idle" /\ Fault
    /\ Answers(h)
    /\ HookEnds(h)
    /\ UNCHANGED <<balance, row, lastRow, req, bank, moved, late>>

HookDies(h) ==
    /\ hook[h].pc # "idle" /\ Fault
    /\ HookEnds(h)
    /\ UNCHANGED <<balance, row, lastRow, req, provider>>

\* The provider has waited long enough, or its answer got lost.
Repeat(d) ==
    /\ owed[d] \in {"sent", "answered"} /\ Fault
    /\ owed' = [owed EXCEPT ![d] = "owed"]
    /\ UNCHANGED <<balance, row, lastRow, req, hook, bank, moved, late>>

-----------------------------------------------------------------------------
Next ==
    \/ \E r \in Requests :
         \/ \E kind \in Kinds, naira \in Naira : Ask(r, kind, naira)
         \/ Insert(r) \/ Refused(r) \/ Executed(r) \/ TimesOut(r)
         \/ FailTx(r) \/ ReadDebited(r) \/ CompleteDebit(r) \/ Abandon(r)
    \/ \E h \in Hooks :
         \/ \E d \in Deposits : Deliver(h, d)
         \/ ReadCredited(h) \/ Credit(h) \/ CreditFails(h) \/ HookDies(h)
    \/ \E t \in Txs : ExecutesLate(t)
    \/ \E d \in Deposits : PayIn(d) \/ Repeat(d)

Spec == Init /\ [][Next]_vars

-----------------------------------------------------------------------------
(* Properties *)

CreditRows == {t \in Txs : row[t].kind = "credit"}
Debited == {t \in Txs : row[t].kind \in Kinds /\ row[t].status = "successful"}
Credits(d) == {t \in CreditRows : row[t].of = d}

CreditedSum == SumFunctionOnSet([t \in Txs |-> row[t].amount], CreditRows)
DebitedSum == SumFunctionOnSet([t \in Txs |-> TotalDebit(t)], Debited)

\* However debits and credits interleave, and although each reads the wallet
\* unlocked, the balance is the opening balance plus every credit row and minus
\* every successful debit row with its charges.
BooksBalance == balance = Opening + CreditedSum - DebitedSum

Moved(t) == IF moved[t] = None THEN 0 ELSE moved[t]

\* Debits that the provider executed and the books do not count: an answer or
\* a completion that was lost.
Stranded == {t \in Txs \ Debited : moved[t] # None}
StrandedSum == SumFunctionOnSet([t \in Txs |-> Moved(t) + Charges], Stranded)

\* Deposits with no row.
Unbooked == {d \in Deposits : owed[d] # "none" /\ Credits(d) = {}}
UnbookedSum == SumFunctionOnSet(DepositAmount, Unbooked)

\* Rows that a repeated webhook added.
Again(d) == IF Credits(d) = {} THEN 0 ELSE (Cardinality(Credits(d)) - 1) * DepositAmount[d]
AgainSum == SumFunctionOnSet([d \in Deposits |-> Again(d)], Deposits)

\* What successful rows book beyond what was moved.
ExcessSum == SumFunctionOnSet([t \in Txs |-> row[t].amount - Moved(t)], Debited)

\* The books and the provider's account differ by exactly these four things,
\* whatever fails between a transfer, its answer and its completion.
DriftExplained == balance - bank = StrandedSum - UnbookedSum + AgainSum - ExcessSum

\* A debit booked as successful moved the amount that it books.  True of a
\* transfer; a repayment books a hundred times what it moves.
MovedIsBooked == \A t \in Debited : moved[t] = row[t].amount
=============================================================================
