------------------------------- MODULE CoreBanking -------------------------------
(***************************************************************************)
(* What the backend shares with core banking: which of its customers a     *)
(* user is, the state of that customer, and the state of the user's loan   *)
(* applications.  The link has three writers: the synchronization after a  *)
(* registration and its sweep (auth/service_cba_sync.go), a loan           *)
(* application (loanproduct/service.go) and core banking itself, which     *)
(* also reports every status by callback                                   *)
(* (loanproduct/internal_callback_service.go).                             *)
(*                                                                         *)
(* One user, hence one BVN: RegistrationJobs!OneUserPerPerson.  Core       *)
(* banking is external: it may hold several customers of that BVN, and it  *)
(* repeats a report until it is answered 2xx before it sends the next one  *)
(* of that subject; reports are lost, repeated and late.  A callback holds *)
(* the row lock from its read to its commit, so it is one step.            *)
(*                                                                         *)
(* Left out: the PIN of a loan application (PinLock), the amounts and the  *)
(* rules of the product, the number of the loan that 'active' brings, the  *)
(* semaphores of the synchronization and the number of its attempts.       *)
(***************************************************************************)
EXTENDS Integers, Sequences, FiniteSets, SequencesExt

CONSTANTS
    Customers,  \* the customers core banking may hold for the user's BVN
    Apps,       \* loan applications
    Syncs,      \* goroutines of syncAndUpdateCBACustomer
    Loans,      \* ApplyForLoan requests
    None,
    AppMoves, CustomerMoves \* bounds: statuses core banking gives one subject

\* What core banking reports about: wallet_loan_application_status_events and
\* wallet_customer_events hold its reports.
Subjects == Apps \cup Customers

AppStatus == {"embryo", "pending", "approved", "declined", "active"}
CustomerStatus == {"embryo", "draft", "pending", "approved"}

ASSUME CoreAssumption ==
    /\ None \notin Customers \cup AppStatus /\ Customers \cap Apps = {}
    /\ AppMoves \in Nat /\ CustomerMoves \in Nat

VARIABLES
    link,       \* core_customer_id of the user
    custStatus, \* customer_status of the user
    app,        \* loan_status of an application, None before it is made
    events,     \* the event tables: which reports of a subject are recorded
    sync,       \* the goroutines
    loan,       \* the requests
    \* core banking
    held,       \* the customers it holds
    ledger,     \* the statuses it gave a subject, in order
    acked,      \* how many of its reports it knows to have arrived
    wallets,    \* the customers whose bank account is the user's wallet
    moved       \* history: core banking or an application moved the link from
                \* one customer to another

vars == <<link, custStatus, app, events, sync, loan, held, ledger, acked, wallets, moved>>
core == <<held, ledger, acked, wallets>>

Sync == [pc : {"idle", "match", "store", "push"}, found : Customers \cup {None}]
Loan == [pc : {"idle", "match", "store", "create"}, found : Customers \cup {None}]

TypeOK ==
    /\ link \in Customers \cup {None} /\ custStatus \in CustomerStatus
    /\ app \in [Apps -> AppStatus \cup {None}]
    /\ sync \in [Syncs -> Sync] /\ loan \in [Loans -> Loan]
    /\ held \subseteq Customers /\ wallets \subseteq Customers
    /\ ledger \in [Subjects -> Seq(AppStatus \cup CustomerStatus)]
    /\ acked \in [Subjects -> Nat] /\ events \in [Subjects -> SUBSET Nat]
    /\ \A x \in Subjects : acked[x] <= Len(ledger[x]) /\ events[x] \subseteq 1..Len(ledger[x])
    /\ moved \in BOOLEAN

Idle == [pc |-> "idle", found |-> None]

Init ==
    /\ link = None /\ custStatus = "embryo"
    /\ app = [a \in Apps |-> None]
    /\ events = [x \in Subjects |-> {}]
    /\ sync = [g \in Syncs |-> Idle] /\ loan = [r \in Loans |-> Idle]
    /\ held = {} /\ ledger = [x \in Subjects |-> <<>>]
    /\ acked = [x \in Subjects |-> 0] /\ wallets = {}
    /\ moved = FALSE

-----------------------------------------------------------------------------
(* Core banking *)

CreateCustomer(c) ==
    /\ held' = held \cup {c} /\ held' # held
    /\ UNCHANGED <<link, custStatus, app, events, sync, loan, ledger, acked, wallets, moved>>

\* canTransition
CanMoveApp == {<<"embryo", "pending">>, <<"pending", "approved">>, <<"pending", "declined">>,
               <<"pending", "pending">>, <<"approved", "active">>, <<"approved", "declined">>,
               <<"declined", "pending">>, <<"active", "active">>}

\* canTransitionCustomerStatus
CanMoveCustomer == {<<"embryo", "draft">>, <<"draft", "pending">>, <<"draft", "approved">>,
                    <<"approved", "pending">>}

CanMove(x, from, to) ==
    <<from, to>> \in (IF x \in Apps THEN CanMoveApp ELSE CanMoveCustomer)

Given(x) == IF ledger[x] = <<>> THEN "embryo" ELSE Last(ledger[x])

\* ListEmbryoLoanApplicationSummariesForCBA
Listed(a) == app[a] # None /\ (app[a] = "embryo" \/ custStatus = "embryo")

Known(x) == IF x \in Customers THEN x \in held
            ELSE ledger[x] # <<>> \/ Listed(x)

\* Core banking moves a subject along the transitions both sides know.
Move(x, s) ==
    /\ Known(x) /\ CanMove(x, Given(x), s)
    /\ Len(ledger[x]) < (IF x \in Apps THEN AppMoves ELSE CustomerMoves)
    /\ acked[x] = Len(ledger[x])
    /\ ledger' = [ledger EXCEPT ![x] = Append(@, s)]
    /\ UNCHANGED <<link, custStatus, app, events, sync, loan, held, acked, wallets, moved>>

-----------------------------------------------------------------------------
(* The callbacks *)

\* A status of 2xx, unless the answer is lost.
Answered(x, i, arrives) ==
    acked' = IF arrives /\ i > acked[x] THEN [acked EXCEPT ![x] = i] ELSE acked

\* Mutant: what InsertStatusEvent says is not looked at.
CreatedAlways(x, i) == TRUE
\* Mutant: reports are told apart by their status, which a subject may reach again.
CreatedOncePerStatus(x, i) == \A j \in events[x] : ledger[x][j] # ledger[x][i]
\* ON CONFLICT (event_id) DO NOTHING
Created(x, i) == i \notin events[x]

Accepts(x, from, to) == from = to \/ CanMove(x, from, to)

\* ApplyCBAStatusUpdate: the transition is checked before the event is looked up.
ReportApp(a, i, arrives) ==
    LET s == ledger[a][i] IN
    /\ Accepts(a, app[a], s)
    /\ events' = [events EXCEPT ![a] = @ \cup {i}]
    /\ app' = IF Created(a, i) THEN [app EXCEPT ![a] = s] ELSE app
    /\ Answered(a, i, arrives)
    /\ UNCHANGED <<link, custStatus, sync, loan, held, ledger, wallets, moved>>

\* ApplyCBACustomerUpdate: 404 unless the user is linked to the customer.
ReportCustomer(c, i, arrives) ==
    LET s == ledger[c][i] IN
    /\ link = c
    /\ Accepts(c, custStatus, s)
    /\ events' = [events EXCEPT ![c] = @ \cup {i}]
    /\ custStatus' = IF Created(c, i) THEN s ELSE custStatus
    /\ Answered(c, i, arrives)
    /\ UNCHANGED <<link, app, sync, loan, held, ledger, wallets, moved>>

Report(x, i, arrives) ==
    \/ x \in Apps /\ ReportApp(x, i, arrives)
    \/ x \in Customers /\ ReportCustomer(x, i, arrives)

SetLink(c) == link' = c /\ moved' = (moved \/ (link # None /\ link # c))

\* LinkWalletUserByBVN: whatever the user was linked to.
LinkByBVN(c) ==
    /\ c \in held /\ link # c
    /\ SetLink(c)
    /\ UNCHANGED <<custStatus, app, events, sync, loan>> /\ UNCHANGED core

-----------------------------------------------------------------------------
(* syncAndUpdateCBACustomer, one goroutine *)

At(g, pc) == sync[g].pc = pc
SyncGoto(g, row) ==
    /\ sync' = [sync EXCEPT ![g] = row]
    /\ UNCHANGED <<custStatus, app, events, loan, held, ledger, acked>>

\* The worker of a registration job starts one whatever the link is by then, the
\* sweep (SyncPendingCBACustomers) for a user it found without a link.
StartSync(g) ==
    /\ At(g, "idle")
    /\ SyncGoto(g, [Idle EXCEPT !.pc = "match"])
    /\ UNCHANGED <<link, moved, wallets>>

\* The context is done (that of the sweep is as soon as the sweep returns), all
\* attempts are exhausted, the database fails, or the process dies.
SyncEnds(g) ==
    /\ ~At(g, "idle")
    /\ SyncGoto(g, Idle)
    /\ UNCHANGED <<link, moved, wallets>>

\* MatchCustomerByBVN: core banking holds exactly one.
SingleMatch == IF Cardinality(held) = 1 THEN held ELSE {}

\* Mutant: the customer is told before the user is linked.
MatchThenPush(g) ==
    /\ At(g, "match")
    /\ IF SingleMatch = {} THEN SyncGoto(g, Idle)
       ELSE \E c \in SingleMatch : SyncGoto(g, [pc |-> "push", found |-> c])
    /\ UNCHANGED <<link, moved, wallets>>
Match(g) ==
    /\ At(g, "match")
    /\ IF SingleMatch = {} THEN SyncGoto(g, Idle)
       ELSE \E c \in SingleMatch : SyncGoto(g, [pc |-> "store", found |-> c])
    /\ UNCHANGED <<link, moved, wallets>>

\* Mutant: UpdateCoreCustomerID without its condition.
Unconditional == TRUE
\* core_customer_id IS NULL
StillUnlinked == link = None

\* An update of no row is no error: the goroutine goes on.
StoreSync(g) ==
    /\ At(g, "store")
    /\ link' = IF StillUnlinked THEN sync[g].found ELSE link
    /\ UNCHANGED moved
    /\ SyncGoto(g, [sync[g] EXCEPT !.pc = "push"])
    /\ UNCHANGED wallets

\* The account number of the user becomes that of the customer.
UpdateCBACustomerBankInfo(c) == wallets' = wallets \cup {c}

\* An answer that is lost has it tried again.
Push(g) ==
    /\ At(g, "push")
    /\ UpdateCBACustomerBankInfo(sync[g].found)
    /\ SyncGoto(g, Idle) \/ SyncGoto(g, sync[g])
    /\ UNCHANGED <<link, moved>>

-----------------------------------------------------------------------------
(* ApplyForLoan *)

LoanGoto(r, row) ==
    /\ loan' = [loan EXCEPT ![r] = row]
    /\ UNCHANGED <<custStatus, events, sync>> /\ UNCHANGED core

\* resolveCoreCustomerIDIfAvailable, with the row that ApplyForLoan read first.
StartLoan(r) ==
    /\ loan[r].pc = "idle"
    /\ LoanGoto(r, [pc |-> IF link = None THEN "match" ELSE "create", found |-> link])
    /\ UNCHANGED <<link, moved, app>>

\* No customer, or several: the application goes on without one.
MatchLoan(r) ==
    /\ loan[r].pc = "match"
    /\ IF SingleMatch = {} THEN LoanGoto(r, [pc |-> "create", found |-> None])
       ELSE \E c \in SingleMatch : LoanGoto(r, [pc |-> "store", found |-> c])
    /\ UNCHANGED <<link, moved, app>>

\* UpdateUserCoreCustomerID, whatever the link is by now.
StoreLoan(r) ==
    /\ loan[r].pc = "store"
    /\ SetLink(loan[r].found)
    /\ LoanGoto(r, [loan[r] EXCEPT !.pc = "create"])
    /\ UNCHANGED app

\* CreateEOI: no look at the applications the user has already.
CreateEOI(r, a) ==
    /\ loan[r].pc = "create" /\ app[a] = None
    /\ app' = [app EXCEPT ![a] = "embryo"]
    /\ LoanGoto(r, Idle)
    /\ UNCHANGED <<link, moved>>

\* Refused (the core banking loans of the customer, a failure), or lost.
LoanRefused(r) ==
    /\ loan[r].pc # "idle"
    /\ LoanGoto(r, Idle)
    /\ UNCHANGED <<link, moved, app>>

-----------------------------------------------------------------------------
SyncNext(g) ==
    \/ StartSync(g) \/ SyncEnds(g) \/ Match(g) \/ StoreSync(g) \/ Push(g)

LoanNext(r) ==
    \/ StartLoan(r) \/ MatchLoan(r) \/ StoreLoan(r) \/ LoanRefused(r)
    \/ \E a \in Apps : CreateEOI(r, a)

CoreNext ==
    \/ \E c \in Customers : CreateCustomer(c) \/ LinkByBVN(c)
    \/ \E x \in Subjects : \E s \in AppStatus \cup CustomerStatus : Move(x, s)
    \/ \E x \in Subjects : \E i \in DOMAIN ledger[x], arrives \in BOOLEAN : Report(x, i, arrives)

Next ==
    \/ CoreNext
    \/ \E g \in Syncs : SyncNext(g)
    \/ \E r \in Loans : LoanNext(r)

\* Core banking repeats an application's report until it is answered, and not
\* every answer is lost.
Fairness ==
    \A a \in Apps : WF_vars(acked[a] < Len(ledger[a]) /\ ReportApp(a, Len(ledger[a]), TRUE))

Spec == Init /\ [][Next]_vars /\ Fairness

-----------------------------------------------------------------------------
\* The backend stays with core banking: what it stores is
\* what core banking gave last, or, until that is answered, what it gave before.
\* No late or repeated report of an older status brings that status back.
Mirrors(x, stored) ==
    LET n == Len(ledger[x]) IN
    \/ stored = Given(x)
    \/ acked[x] < n /\ stored = (IF n <= 1 THEN "embryo" ELSE ledger[x][n - 1])

AppsMirrored ==
    \A a \in Apps : app[a] # None => Mirrors(a, app[a])

\* The same of the customer, unless core banking or an application moved the
\* link to another; a synchronization that looked the customer up before the
\* user was linked never does.
CustomerMirrored ==
    (~moved /\ link # None) => Mirrors(link, custStatus)

MirrorsCore == AppsMirrored /\ CustomerMirrored

\* ... and once core banking gives an application no further status, the backend
\* has its last one.
Converges ==
    \A a \in Apps : <>[](app[a] # None => app[a] = Given(a))

\* The user's account number only goes to the customer the user is linked to,
\* as long as core banking holds no two customers of one BVN.
WalletGoesToLinked == Cardinality(held) <= 1 => wallets \subseteq {link}
=============================================================================
