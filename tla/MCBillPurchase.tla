---------------------------- MODULE MCBillPurchase ----------------------------
(***************************************************************************)
(* A small instance of BillPurchase: purchases of one customer whose       *)
(* wallet holds 150 naira, enough for one of them at a time.               *)
(***************************************************************************)
EXTENDS BillPurchase

MCBalance == [c \in Customers |-> 15000]
=============================================================================
