------------------------------ MODULE MCCoreBanking ------------------------------
(***************************************************************************)
(* Core banking, and the loan products that applications go by, on small   *)
(* instances.  They share no state, so each behaviour takes the steps of   *)
(* one of them.                                                            *)
(***************************************************************************)
EXTENDS CoreBanking, LoanProducts

VARIABLE which
allVars == <<which, vars, productVars>>

MCInit == which \in {"core", "products"} /\ Init /\ InitProducts
           /\ (which = "core" => \A c \in Codes : product[c].id = "none")
InCore(A) == which = "core" /\ A /\ UNCHANGED <<which, productVars>>
InProducts(A) == which = "products" /\ A /\ UNCHANGED <<which, vars>>

MCNext == InCore(Next) \/ InProducts(NextProducts)

\* With the fairness of CoreBanking.
MCSpec ==
    /\ MCInit /\ [][MCNext]_allVars
    /\ \A a \in Apps : WF_allVars(InCore(
           acked[a] < Len(ledger[a]) /\ ReportApp(a, Len(ledger[a]), TRUE)))

MCTypeOK == TypeOK /\ ProductsTypeOK
=============================================================================
