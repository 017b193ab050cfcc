------------------------------ MODULE LoanProducts ------------------------------
(***************************************************************************)
(* The commands that put the loan products and their rules into the        *)
(* database (cmd/seed-loan-products, cmd/seed-loan-products-rules), run by *)
(* hand after each release of the seed files, and what a loan application  *)
(* then reads (loanproduct/repository.go).  Nothing keeps two people from  *)
(* running them at once, or in the wrong order.                            *)
(*                                                                         *)
(* A product is unique by its code; its rule is looked up and then written *)
(* in two statements, and no index keeps a second rule away.  A rule file  *)
(* names an id that a product has only in the database the files come      *)
(* from; elsewhere the code decides.                                       *)
(*                                                                         *)
(* Left out: what the terms are, files that are malformed, -dry-run.  The  *)
(* files are taken in any order: the two directories sort theirs           *)
(* differently.                                                            *)
(***************************************************************************)
EXTENDS Naturals, FiniteSetsExt

CONSTANTS
    Codes,        \* of products; each has a file in both directories
    Commands,     \* commands that may run at the same time
    RuleIds,      \* random primary keys of rules, by which First orders
    MaxReleases,  \* bound: releases of the seed files
    MaxSkips      \* bound: failed statements and crashes

ASSUME ProductsAssumption ==
    RuleIds \subseteq Nat \ {0} /\ MaxReleases \in Nat /\ MaxSkips \in Nat /\ Codes # {}

VARIABLES
    release,   \* of the files
    product,   \* wallet_loan_products
    rule,      \* wallet_loan_product_rules
    command,
    sure,      \* history: the release a command found when it started that then
               \* went through all files smoothly: no file failed, and no other
               \* command of its kind ran
    skips

productVars == <<release, product, rule, command, sure, skips>>

Kinds == {"products", "rules"}
Releases == 0..MaxReleases
\* The id of a product: the one its rule file names, or another.
ProductIds == {"named", "other"}

Product == [id : ProductIds \cup {"none"}, terms : Releases]
Rule == [code : Codes, id : ProductIds \cup {"none"}, terms : Releases]
Command == [kind : Kinds \cup {"none"}, pc : {"file", "row", "write"}, todo : SUBSET Codes,
            code : Codes, terms : Releases, found : RuleIds \cup {0},
            since : Releases, smooth : BOOLEAN]

ProductsTypeOK ==
    /\ release \in Releases
    /\ product \in [Codes -> Product] /\ rule \in [RuleIds -> Rule]
    /\ command \in [Commands -> Command]
    /\ sure \in [Kinds -> Releases] /\ skips \in 0..MaxSkips

AnyCode == CHOOSE c \in Codes : TRUE
NoCommand == [kind |-> "none", pc |-> "file", todo |-> {}, code |-> AnyCode, terms |-> 0,
              found |-> 0, since |-> 0, smooth |-> TRUE]

\* A database without products, or with those the files were written for.
InitProducts ==
    /\ release = 0
    /\ product \in [Codes -> {[id |-> i, terms |-> 0] : i \in {"none", "named"}}]
    /\ rule = [i \in RuleIds |-> [code |-> AnyCode, id |-> "none", terms |-> 0]]
    /\ command = [k \in Commands |-> NoCommand]
    /\ sure = [kind \in Kinds |-> 0] /\ skips = 0

Release ==
    /\ release < MaxReleases
    /\ release' = release + 1
    /\ UNCHANGED <<product, rule, command, sure, skips>>

\* Mutant: looked up by the id that the file names, as the products stand.
RowsNamed(c) == {i \in RuleIds : rule[i].id = "named" /\ rule[i].code = c}
\* What belongs to the product that resolveProductID found.
RowsOf(c) == {i \in RuleIds : rule[i].id # "none" /\ rule[i].code = c /\ rule[i].id = product[c].id}

\* First orders by the primary key, here and in a loan application alike.
Existing(c) == IF RowsOf(c) = {} THEN 0 ELSE Min(RowsOf(c))

\* GetLoanProductWithCode, GetRuleByProductID
Applicable(c) ==
    IF product[c].id = "none" THEN {}
    ELSE {i \in RuleIds : /\ rule[i].id = product[c].id /\ rule[i].code = c
                          /\ \A j \in RuleIds : rule[j].id = rule[i].id /\ rule[j].code = c => i <= j}

-----------------------------------------------------------------------------
(* One command *)

Runs(k, kind, pc) == command[k].kind = kind /\ command[k].pc = pc

Start(k, kind) ==
    /\ command[k].kind = "none" /\ release > 0
    /\ LET others == {j \in Commands : command[j].kind = kind} IN
       command' = [j \in Commands |->
           IF j = k THEN [NoCommand EXCEPT !.kind = kind, !.todo = Codes, !.since = release,
                                           !.smooth = others = {}]
           ELSE IF j \in others THEN [command[j] EXCEPT !.smooth = FALSE] ELSE command[j]]
    /\ UNCHANGED <<release, product, rule, sure, skips>>

LoadAndValidate(k) ==
    /\ command[k].kind # "none" /\ command[k].pc = "file"
    /\ \E c \in command[k].todo :
          command' = [command EXCEPT ![k] =
              [@ EXCEPT !.pc = "row", !.code = c, !.todo = command[k].todo \ {c}, !.terms = release]]
    /\ UNCHANGED <<release, product, rule, sure, skips>>

FileEnds(k, done) ==
    command' = [command EXCEPT ![k] =
        [@ EXCEPT !.pc = "file", !.terms = 0, !.found = 0, !.smooth = command[k].smooth /\ done]]
NextFile(k) == FileEnds(k, TRUE)
SkipFile(k) == FileEnds(k, FALSE)

\* ON CONFLICT (code): everything but the id.
UpsertProduct(k) ==
    /\ Runs(k, "products", "row")
    /\ product' = [product EXCEPT ![command[k].code] =
          [id |-> IF @.id = "none" THEN "other" ELSE @.id, terms |-> command[k].terms]]
    /\ NextFile(k)
    /\ UNCHANGED <<release, rule, sure, skips>>

\* resolveProductID: by the id in the file if a product has it, else by the code;
\* a rule without its product is skipped, which the exit status does not tell.
ResolveProduct(k) ==
    /\ Runs(k, "rules", "row")
    /\ IF product[command[k].code].id = "none" THEN SkipFile(k)
       ELSE command' = [command EXCEPT ![k] =
                [@ EXCEPT !.pc = "write", !.found = Existing(command[k].code)]]
    /\ UNCHANGED <<release, product, rule, sure, skips>>

\* The row that was found, or another one.
UpsertRule(k) ==
    LET c == command[k].code IN
    /\ Runs(k, "rules", "write")
    /\ \E i \in RuleIds :
          /\ IF command[k].found # 0 THEN i = command[k].found ELSE rule[i].id = "none"
          /\ rule' = [rule EXCEPT ![i] =
                [code |-> c, id |-> product[c].id, terms |-> command[k].terms]]
    /\ NextFile(k)
    /\ UNCHANGED <<release, product, sure, skips>>

StatementSkips(k) ==
    /\ command[k].kind # "none" /\ command[k].pc # "file" /\ skips < MaxSkips
    /\ skips' = skips + 1
    /\ SkipFile(k)
    /\ UNCHANGED <<release, product, rule, sure>>

Done(k) ==
    /\ command[k].kind # "none" /\ command[k].pc = "file" /\ command[k].todo = {}
    /\ sure' = IF command[k].smooth
               THEN [sure EXCEPT ![command[k].kind] = command[k].since] ELSE sure
    /\ command' = [command EXCEPT ![k] = NoCommand]
    /\ UNCHANGED <<release, product, rule, skips>>

Interrupted(k) ==
    /\ command[k].kind # "none" /\ skips < MaxSkips
    /\ skips' = skips + 1
    /\ command' = [command EXCEPT ![k] = NoCommand]
    /\ UNCHANGED <<release, product, rule, sure>>

Seeds(k) ==
    \/ \E kind \in Kinds : Start(k, kind)
    \/ LoadAndValidate(k) \/ UpsertProduct(k) \/ ResolveProduct(k) \/ UpsertRule(k)
    \/ StatementSkips(k) \/ Done(k) \/ Interrupted(k)

NextProducts == Release \/ \E k \in Commands : Seeds(k)
SpecProducts == InitProducts /\ [][NextProducts]_productVars

-----------------------------------------------------------------------------
(* Properties *)

\* However the commands overlapped, failed or came in the wrong order before: once
\* one has gone through its files smoothly, loan applications are judged by
\* terms of that release or later, for good, even where an overlap has left a
\* product with two rules.
JudgedAsSeeded ==
    \A c \in Codes :
        /\ product[c].terms >= sure["products"]
        /\ sure["rules"] > 0 =>
              \E i \in Applicable(c) : rule[i].terms >= sure["rules"]
=============================================================================
