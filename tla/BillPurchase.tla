----------------------------- MODULE BillPurchase -----------------------------
(***************************************************************************)
(* Airtime, data, electricity and cable bought from a wallet               *)
(* (internal/modules/vas): the wallet is debited at the provider, the      *)
(* biller is asked to fulfil, and a purchase that was not fulfilled is     *)
(* refunded or left for manual reconciliation.                             *)
(*                                                                         *)
(* Every handler runs under the context of its HTTP request: when the      *)
(* client goes away each later statement and call fails.  The clients of   *)
(* the provider and of the biller give up after 15 s; what they asked for  *)
(* may still happen.  DebitCustomer answers a status other than 200 with   *)
(* neither a result nor an error.  Of an answer with status 200 nobody     *)
(* reads whether it accepts or declines: not the debit's Status, which     *)
(* transfers do read, and not the biller's responseCode.                   *)
(*                                                                         *)
(* The local balance is read and compared, never changed: only the         *)
(* provider knows what purchases have left.  The balance snapshots in the  *)
(* row are left out, and so is the PIN check of airtime and data: a wrong  *)
(* PIN ends the purchase before its row exists and is counted elsewhere.   *)
(***************************************************************************)
EXTENDS Integers

CONSTANTS
    Purchases,   \* request goroutines
    Customers,
    Amounts,     \* naira
    Balance,     \* available_balance of a customer's local wallet, in kobo
    Fee,         \* of a debit, in naira
    MaxFaults    \* bound: errors, time-outs, lost requests

ASSUME MoneyAssumption ==
    Amounts \subseteq Nat /\ Balance \in [Customers -> Nat] /\ Fee \in Nat
ASSUME FaultsAssumption == MaxFaults \in Nat

VARIABLES
    row,         \* wallet_transactions.status
    stored,      \* purchases with a stored beneficiary or electricity token
    funds,       \* what the provider holds for a customer, in naira
    debited,     \* the provider took the price
    fulfilled,   \* the biller delivered
    refunded,    \* the provider gave the price back
    debitDeclined, fulfilDeclined, \* history: answered 200, but nothing was done
    late,        \* requests nobody waits for any more
    call,        \* the handlers
    faults

declined == <<debitDeclined, fulfilDeclined>>
effects == <<debited, fulfilled, refunded, declined>>
vars == <<row, stored, funds, effects, late, call, faults>>

Kinds == {"airtime", "data", "electricity", "cable"}
Statuses == {"none", "pending", "successful", "failed", "reversal_pending", "reversed"}
Call == [pc : {"idle", "add", "debit", "failTx", "fulfil", "complete", "extra", "pend",
               "refund", "reverse", "over"},
         kind : Kinds, customer : Customers, amount : Amounts,
         result : BOOLEAN,    \* DebitCustomer returned a response
         done : BOOLEAN]      \* the awaited request has taken effect

Init ==
    /\ row = [p \in Purchases |-> "none"]
    /\ stored = {}
    /\ funds = [c \in Customers |-> Balance[c] \div 100]
    /\ debited = {} /\ fulfilled = {} /\ refunded = {}
    /\ debitDeclined = {} /\ fulfilDeclined = {}
    /\ late = [debit |-> {}, fulfil |-> {}, refund |-> {}]
    /\ call \in [Purchases -> Call]
    /\ \A p \in Purchases : call[p].pc = "idle" /\ ~call[p].result /\ ~call[p].done
    /\ faults = 0

Fault == faults < MaxFaults /\ faults' = faults + 1
Price(p) == call[p].amount + Fee
Goto(p, label) == call' = [call EXCEPT ![p].pc = label, ![p].done = FALSE]
Request == {"debit", "fulfil", "refund"}

-----------------------------------------------------------------------------
(* The checks before a purchase; a refused one leaves nothing behind *)

\* The kind, customer and amount of a handler are fixed from the start.
IspAmounts == 100..10000
Funded(p) == Balance[call[p].customer] >= call[p].amount * 100

StartAirtime(p) ==
    /\ call[p].pc = "idle" /\ call[p].kind = "airtime"
    /\ call[p].amount \in IspAmounts /\ Funded(p)
    /\ Goto(p, "add")
    /\ UNCHANGED <<row, stored, funds, effects, late, faults>>

StartData(p) ==
    /\ call[p].pc = "idle" /\ call[p].kind = "data"
    /\ call[p].amount \in IspAmounts /\ Funded(p)
    /\ Goto(p, "add")
    /\ UNCHANGED <<row, stored, funds, effects, late, faults>>

\* The account is validated with the biller (a query) first.
StartElectricity(p) ==
    /\ call[p].pc = "idle" /\ call[p].kind = "electricity" /\ Funded(p)
    /\ Goto(p, "add")
    /\ UNCHANGED <<row, stored, funds, effects, late, faults>>

StartCable(p) ==
    /\ call[p].pc = "idle" /\ call[p].kind = "cable" /\ Funded(p)
    /\ Goto(p, "add")
    /\ UNCHANGED <<row, stored, funds, effects, late, faults>>

\* AddTransaction
AddTransaction(p) ==
    /\ call[p].pc = "add"
    /\ row' = [row EXCEPT ![p] = "pending"]
    /\ Goto(p, "debit")
    /\ UNCHANGED <<stored, funds, effects, late, faults>>

-----------------------------------------------------------------------------
(* DebitCustomer *)

\* A request given up before it took effect may take effect later.
Abandon(p) ==
    LET step == call[p].pc IN
    late' = IF step \in Request /\ ~call[p].done
            THEN [late EXCEPT ![step] = @ \cup {p}] ELSE late

\* External: the provider debits a wallet that holds price and fee.
ProviderDebits(p) ==
    /\ call[p].pc = "debit" /\ ~call[p].done
    /\ funds[call[p].customer] >= Price(p)
    /\ funds' = [funds EXCEPT ![call[p].customer] = @ - Price(p)]
    /\ debited' = debited \cup {p}
    /\ call' = [call EXCEPT ![p].done = TRUE]
    /\ UNCHANGED <<row, stored, fulfilled, refunded, declined, late, faults>>

DebitReturns(p) ==
    /\ call[p].pc = "debit" /\ call[p].done
    /\ call' = [call EXCEPT ![p].pc = "fulfil", ![p].result = TRUE, ![p].done = FALSE]
    /\ UNCHANGED <<row, stored, funds, effects, late, faults>>

\* The provider declines, in a wallet that does not hold the price or else for a
\* fault of its own, with status 200 and Status false: a result like any other.
DebitDeclined(p) ==
    /\ call[p].pc = "debit" /\ ~call[p].done
    /\ \/ funds[call[p].customer] < Price(p) /\ UNCHANGED faults
       \/ Fault
    /\ debitDeclined' = debitDeclined \cup {p}
    /\ call' = [call EXCEPT ![p].pc = "fulfil", ![p].result = TRUE]
    /\ UNCHANGED <<row, stored, funds, debited, fulfilled, refunded, fulfilDeclined, late>>

\* The provider refuses with a status other than 200: no result and no error, so
\* the handler goes on to the biller.
DebitRefused(p) ==
    /\ call[p].pc = "debit" /\ ~call[p].done
    /\ funds[call[p].customer] < Price(p)
    /\ Goto(p, "fulfil")
    /\ UNCHANGED <<row, stored, funds, effects, late, faults>>

\* A server error has the same status class; the debit may stand or follow.
DebitServerError(p) ==
    /\ call[p].pc = "debit"
    /\ Fault
    /\ Abandon(p)
    /\ Goto(p, "fulfil")
    /\ UNCHANGED <<row, stored, funds, effects>>

\* Time-out, broken connection or unreadable answer: an error.
DebitFails(p) ==
    /\ call[p].pc = "debit"
    /\ Fault
    /\ Abandon(p)
    /\ Goto(p, "failTx")
    /\ UNCHANGED <<row, stored, funds, effects>>

FailTx(p) ==
    /\ call[p].pc = "failTx"
    /\ row' = [row EXCEPT ![p] = "failed"]
    /\ Goto(p, "over")
    /\ UNCHANGED <<stored, funds, effects, late, faults>>

-----------------------------------------------------------------------------
(* The biller *)

BillerFulfils(p) ==
    /\ call[p].pc = "fulfil" /\ ~call[p].done
    /\ fulfilled' = fulfilled \cup {p}
    /\ call' = [call EXCEPT ![p].done = TRUE]
    /\ UNCHANGED <<row, stored, funds, debited, refunded, declined, late, faults>>

\* Mutant: a missing debit result is not noticed.
NextOrGoOn(p, label) == Goto(p, label)

\* The fee of a debit without a result is read through a nil pointer: the
\* handler panics, and gin recovers.
NextOrPanic(p, label) == Goto(p, IF call[p].result THEN label ELSE "over")

FulfilReturns(p) ==
    /\ call[p].pc = "fulfil" /\ call[p].done
    /\ NextOrPanic(p, "complete")
    /\ UNCHANGED <<row, stored, funds, effects, late, faults>>

\* The biller declines with status 200 and a responseCode that says so.
FulfilDeclined(p) ==
    /\ call[p].pc = "fulfil" /\ ~call[p].done
    /\ fulfilDeclined' = fulfilDeclined \cup {p}
    /\ NextOrPanic(p, "complete")
    /\ UNCHANGED <<row, stored, funds, debited, fulfilled, refunded, debitDeclined, late, faults>>

\* ErrVASAmbiguous: the client's time-out, or a status of 500 and above.
FulfilAmbiguous(p) ==
    /\ call[p].pc = "fulfil"
    /\ Fault
    /\ Abandon(p)
    /\ NextOrPanic(p, "pend")
    /\ UNCHANGED <<row, stored, funds, effects>>

\* The biller refuses: any other status but 200.
FulfilRejected(p) ==
    /\ call[p].pc = "fulfil" /\ ~call[p].done
    /\ NextOrPanic(p, "refund")
    /\ UNCHANGED <<row, stored, funds, effects, late, faults>>

\* A broken connection or an unreadable answer counts as a refusal.
FulfilUnreadable(p) ==
    /\ call[p].pc = "fulfil"
    /\ Fault
    /\ Abandon(p)
    /\ NextOrPanic(p, "refund")
    /\ UNCHANGED <<row, stored, funds, effects>>

\* A cable purchase stores nothing more, electricity only a token it came with.
Complete(p) ==
    /\ call[p].pc = "complete"
    /\ row' = [row EXCEPT ![p] = "successful"]
    /\ \/ call[p].kind # "cable" /\ Goto(p, "extra")
       \/ call[p].kind \in {"cable", "electricity"} /\ Goto(p, "over")
    /\ UNCHANGED <<stored, funds, effects, late, faults>>

\* StoreVASAsBeneficiary, or the electricity token in the row's metadata.
StoreExtra(p) ==
    /\ call[p].pc = "extra"
    /\ stored' = stored \cup {p}
    /\ Goto(p, "over")
    /\ UNCHANGED <<row, funds, effects, late, faults>>

-----------------------------------------------------------------------------
(* handleFulfilFailure *)

\* Mutant: an unknown outcome is refunded like a refusal.
PendAsRefund(p) ==
    /\ call[p].pc = "pend"
    /\ Goto(p, "refund")
    /\ row' = [row EXCEPT ![p] = "reversal_pending"]
    /\ UNCHANGED <<stored, funds, effects, late, faults>>

Pend(p) ==
    /\ call[p].pc = "pend"
    /\ row' = [row EXCEPT ![p] = "reversal_pending"]
    /\ Goto(p, "over")
    /\ UNCHANGED <<stored, funds, effects, late, faults>>

\* External: the provider credits the price; the fee is kept.
ProviderCredits(p) ==
    /\ call[p].pc = "refund" /\ ~call[p].done
    /\ funds' = [funds EXCEPT ![call[p].customer] = @ + call[p].amount]
    /\ refunded' = refunded \cup {p}
    /\ call' = [call EXCEPT ![p].done = TRUE]
    /\ UNCHANGED <<row, stored, debited, fulfilled, declined, late, faults>>

RefundReturns(p) ==
    /\ call[p].pc = "refund" /\ call[p].done
    /\ Goto(p, "reverse")
    /\ UNCHANGED <<row, stored, funds, effects, late, faults>>

\* An error of the credit is logged, a status other than 200 is none, and a credit
\* declined with status 200 is not noticed; the row is marked all the same.
RefundFails(p) ==
    /\ call[p].pc = "refund"
    /\ Fault
    /\ Abandon(p)
    /\ Goto(p, "reverse")
    /\ UNCHANGED <<row, stored, funds, effects>>

Reverse(p) ==
    /\ call[p].pc = "reverse"
    /\ row' = [row EXCEPT ![p] = "reversed"]
    /\ Goto(p, "over")
    /\ UNCHANGED <<stored, funds, effects, late, faults>>

-----------------------------------------------------------------------------
(* Lost handlers and late effects *)

\* The client goes away, the process dies, or a statement fails: the handler ends
\* (its further statements fail too) and the row stays as it is.
Lost(p) ==
    /\ call[p].pc \notin {"idle", "over"}
    /\ Fault
    /\ Abandon(p)
    /\ Goto(p, "over")
    /\ UNCHANGED <<row, stored, funds, effects>>

LateDebit(p) ==
    /\ p \in late.debit /\ funds[call[p].customer] >= Price(p)
    /\ late' = [late EXCEPT !.debit = @ \ {p}]
    /\ funds' = [funds EXCEPT ![call[p].customer] = @ - Price(p)]
    /\ debited' = debited \cup {p}
    /\ UNCHANGED <<row, stored, fulfilled, refunded, declined, call, faults>>

LateFulfilment(p) ==
    /\ p \in late.fulfil
    /\ late' = [late EXCEPT !.fulfil = @ \ {p}]
    /\ fulfilled' = fulfilled \cup {p}
    /\ UNCHANGED <<row, stored, funds, debited, refunded, declined, call, faults>>

LateRefund(p) ==
    /\ p \in late.refund
    /\ late' = [late EXCEPT !.refund = @ \ {p}]
    /\ funds' = [funds EXCEPT ![call[p].customer] = @ + call[p].amount]
    /\ refunded' = refunded \cup {p}
    /\ UNCHANGED <<row, stored, debited, fulfilled, declined, call, faults>>

-----------------------------------------------------------------------------
Start(p) == StartAirtime(p) \/ StartData(p) \/ StartElectricity(p) \/ StartCable(p)

Handler(p) ==
    \/ AddTransaction(p) \/ DebitReturns(p) \/ DebitRefused(p) \/ DebitDeclined(p)
    \/ DebitServerError(p) \/ DebitFails(p) \/ FailTx(p)
    \/ FulfilReturns(p) \/ FulfilDeclined(p) \/ FulfilAmbiguous(p)
    \/ FulfilRejected(p) \/ FulfilUnreadable(p) \/ Complete(p) \/ StoreExtra(p) \/ Pend(p)
    \/ RefundReturns(p) \/ RefundFails(p) \/ Reverse(p) \/ Lost(p)

Remote(p) ==
    \/ ProviderDebits(p) \/ BillerFulfils(p) \/ ProviderCredits(p)
    \/ LateDebit(p) \/ LateFulfilment(p) \/ LateRefund(p)

Next == \E p \in Purchases : Start(p) \/ Handler(p) \/ Remote(p)

Spec == Init /\ [][Next]_vars

-----------------------------------------------------------------------------
(* Properties *)

\* Every variable holds a value of its type; the provider never overdraws.
TypeOK ==
    /\ row \in [Purchases -> Statuses] /\ stored \subseteq Purchases
    /\ funds \in [Customers -> Nat]
    /\ debited \subseteq Purchases /\ fulfilled \subseteq Purchases /\ refunded \subseteq Purchases
    /\ debitDeclined \subseteq Purchases /\ fulfilDeclined \subseteq Purchases
    /\ late \in [Request -> SUBSET Purchases]
    /\ call \in [Purchases -> Call]
    /\ faults \in Nat

\* Effects happen once, closed transactions stay closed, and the status tells
\* which effects can be counted on, whatever is lost or late; but an effect that
\* was declined with status 200 counts as done (DebitDeclined, FulfilDeclined).
Promise == INSTANCE PurchasePromise
KeepsPromise == Promise!Spec

\* A purchase delivered although the debit never happened is never closed: its
\* row stays pending, where it can be found.  Only a debit declined with status
\* 200 escapes; every other refusal, error and loss is covered.
UnpaidStaysPending ==
    \A p \in fulfilled \ debited : row[p] = "pending" \/ p \in debitDeclined

\* "Debits the customer's wallet and purchases a mobile data bundle": the biller
\* delivers only what has been debited.
PaidFirst == fulfilled \subseteq debited
=============================================================================
