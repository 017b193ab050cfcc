---------------------------- MODULE MCRepaymentUnits ----------------------------
(* One repayment and no fault. *)
EXTENDS WalletLedger

MCDepositAmount == [d \in Deposits |-> 3000]
=============================================================================
