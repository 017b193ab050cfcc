--------------------------- MODULE PurchasePromise ---------------------------
(***************************************************************************)
(* What a customer and the accounting may rely on when a bill is paid from *)
(* a wallet, whatever fails on the way: each effect happens at most once,  *)
(* a closed transaction stays closed, and the status it was closed with    *)
(* says something about the effects, also about those still to come.       *)
(*                                                                         *)
(* The provider and the biller may decline with an answer that nobody      *)
(* takes for one; such an effect never happens, and is counted as if it    *)
(* had.  BillPurchase implements this.                                     *)
(***************************************************************************)
CONSTANT Purchases

VARIABLES
    row,            \* status of the transaction shown to the customer
    debited,        \* purchases whose price left the wallet
    fulfilled,      \* purchases the biller delivered
    refunded,       \* purchases whose price came back
    debitDeclined,  \* purchases whose price was not taken, which nobody noticed
    fulfilDeclined  \* purchases not delivered, which nobody noticed

vars == <<row, debited, fulfilled, refunded, debitDeclined, fulfilDeclined>>

Taken == debited \cup debitDeclined
Given == fulfilled \cup fulfilDeclined

Init ==
    /\ row = [p \in Purchases |-> "none"]
    /\ debited = {} /\ fulfilled = {} /\ refunded = {}
    /\ debitDeclined = {} /\ fulfilDeclined = {}

Open(p) ==
    /\ row[p] = "none"
    /\ row' = [row EXCEPT ![p] = "pending"]
    /\ UNCHANGED <<debited, fulfilled, refunded, debitDeclined, fulfilDeclined>>

\* Money is taken for an open purchase, or late for one reported as failed.
Debit(p) ==
    /\ row[p] \in {"pending", "failed"} /\ p \notin Taken
    /\ debited' = debited \cup {p}
    /\ UNCHANGED <<row, fulfilled, refunded, debitDeclined, fulfilDeclined>>

DeclineDebit(p) ==
    /\ row[p] = "pending" /\ p \notin Taken \cup Given
    /\ debitDeclined' = debitDeclined \cup {p}
    /\ UNCHANGED <<row, debited, fulfilled, refunded, fulfilDeclined>>

\* Nothing is delivered for a purchase reported as failed.
Deliver(p) ==
    /\ row[p] \in {"pending", "reversal_pending", "reversed"} /\ p \notin Given
    /\ fulfilled' = fulfilled \cup {p}
    /\ UNCHANGED <<row, debited, refunded, debitDeclined, fulfilDeclined>>

DeclineDelivery(p) ==
    /\ row[p] = "pending" /\ p \notin Given \cup refunded
    /\ fulfilDeclined' = fulfilDeclined \cup {p}
    /\ UNCHANGED <<row, debited, fulfilled, refunded, debitDeclined>>

\* Only what counts as taken is given back, and never for a purchase reported as
\* successful, failed or left to be reconciled by hand, nor where the biller
\* declined unnoticed.
Refund(p) ==
    /\ row[p] \in {"pending", "reversed"} /\ p \in Taken \ (refunded \cup fulfilDeclined)
    /\ refunded' = refunded \cup {p}
    /\ UNCHANGED <<row, debited, fulfilled, debitDeclined, fulfilDeclined>>

Close(p) ==
    /\ row[p] = "pending"
    /\ \/ /\ p \in (Taken \cap Given) \ refunded
          /\ row' = [row EXCEPT ![p] = "successful"]
       \/ /\ p \notin Given \cup refunded \cup debitDeclined
          /\ row' = [row EXCEPT ![p] = "failed"]
       \/ /\ p \in Taken \ (refunded \cup fulfilDeclined)
          /\ row' = [row EXCEPT ![p] = "reversal_pending"]
       \/ /\ p \in Taken \ fulfilDeclined
          /\ row' = [row EXCEPT ![p] = "reversed"]
    /\ UNCHANGED <<debited, fulfilled, refunded, debitDeclined, fulfilDeclined>>

Next ==
    \E p \in Purchases :
        \/ Open(p) \/ Debit(p) \/ DeclineDebit(p) \/ Deliver(p) \/ DeclineDelivery(p)
        \/ Refund(p) \/ Close(p)

Spec == Init /\ [][Next]_vars
=============================================================================
