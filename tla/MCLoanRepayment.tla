--------------------------- MODULE MCLoanRepayment ---------------------------
(***************************************************************************)
(* A small instance of LoanRepayment: one loan of one customer with two    *)
(* installments of 51 naira.                                               *)
(***************************************************************************)
EXTENDS LoanRepayment

CONSTANT loan

MCLoanOf == [i \in Installments |-> loan]
MCWalletOf == [l \in Loans |-> "wallet"]
MCAmount == [l \in Loans |-> 51]
=============================================================================
