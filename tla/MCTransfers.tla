------------------------------- MODULE MCTransfers -------------------------------
(***************************************************************************)
(* What is between a user and his money, on small instances: the limit on  *)
(* failed logins, the PIN check of a debit, the ledger that two debits and *)
(* a deposit write at once, the second debit beyond the account, and the   *)
(* statements of the account: three jobs of different formats and two      *)
(* processes with a worker each.  The four share no state, so each         *)
(* behaviour takes the steps of one of them.                               *)
(***************************************************************************)
EXTENDS WalletLedger, PinLock, LoginLimiter, Statements, TLC

CONSTANTS p1, p2, w1, w2

VARIABLE which  \* the part that takes steps

allVars == <<which, vars, pinVars, limiterVars, statementVars>>

MCDepositAmount == [d \in Deposits |-> 3000]
MCMaxFailures == [t \in Tables |-> IF t = "ip" THEN 3 ELSE 2]
MCPathOf == [j \in Jobs |-> j]
MCFormatOf == [j \in Jobs |-> CASE j = 1 -> "pdf" [] j = 2 -> "xlsx" [] OTHER -> "csv"]
MCProcOf == w1 :> p1 @@ w2 :> p2

MCInit ==
    /\ which \in {"ledger", "pin", "login", "statements"}
    /\ Init /\ InitPin /\ InitLimiter /\ InitStatements

InStatements(A) ==
    which = "statements" /\ A /\ UNCHANGED <<which, vars, pinVars, limiterVars>>

MCNext ==
    \/ /\ UNCHANGED <<which, statementVars>>
       /\ \/ which = "ledger" /\ Next /\ UNCHANGED <<pinVars, limiterVars>>
          \/ which = "pin" /\ NextPin /\ UNCHANGED <<vars, limiterVars>>
          \/ which = "login" /\ NextLimiter /\ UNCHANGED <<vars, pinVars>>
    \/ InStatements(NextStatements)

\* With the fairness of Statements.
MCSpec ==
    /\ MCInit /\ [][MCNext]_allVars
    /\ \A p \in Procs :
         /\ WF_allVars(InStatements(Dispatches(p)))
         /\ WF_allVars(InStatements(Close(p) \/ Restart(p)))
    /\ \A w \in Workers : WF_allVars(InStatements(Works(w)))
=============================================================================
