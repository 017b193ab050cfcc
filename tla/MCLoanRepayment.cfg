SPECIFICATION FairSpec
CONSTANTS
    Installments = {1, 2}
    Loans = {loan}
    loan = loan
    LoanOf <- MCLoanOf
    Wallets = {"wallet"}
    WalletOf <- MCWalletOf
    Amount <- MCAmount
    Charges = 5
    Sweepers = {a}
    Callers = {m}
    MaxTx = 4
    MaxCalls = 1
    MaxTopUps = 2
    MaxFaults = 1
    None = None
CHECK_DEADLOCK FALSE
INVARIANT RecordedIsPaidFor
INVARIANT SuccessIsRecorded
INVARIANT Reconcilable
PROPERTY FundedIsRepaid
