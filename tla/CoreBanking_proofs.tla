-------------------------- MODULE CoreBanking_proofs --------------------------
(***************************************************************************)
(* Proofs about CoreBanking, for any number of customers, applications,    *)
(* synchronizations and statuses: what the backend stores follows core     *)
(* banking, and the account number goes to the linked customer only.  And  *)
(* about LoanProducts, for any products, rules and releases and any number *)
(* of commands at once: a command that has gone through its files smoothly *)
(* is what later loan applications are judged by, for good.                *)
(***************************************************************************)
EXTENDS CoreBanking, LoanProducts, FiniteSetTheorems, WellFoundedInduction, TLAPS

\* Core banking is one report ahead at most, and an acknowledged one is recorded.
ReportsInOrder ==
    \A x \in Subjects :
        /\ Len(ledger[x]) <= acked[x] + 1
        /\ \A i \in 1..acked[x] : i \in events[x]

\* The last of the statuses given, or the first state.
LastOf(given) == IF given = <<>> THEN "embryo" ELSE given[Len(given)]

\* The stored status mirrors those given, of which n are known to have arrived; and
\* it is the last one once that is recorded.
Abides(given, n, recorded, stored) ==
    /\ \/ stored = LastOf(given)
       \/ /\ n < Len(given)
          /\ stored = IF Len(given) <= 1 THEN "embryo" ELSE given[Len(given) - 1]
    /\ Len(given) \in recorded => stored = LastOf(given)

AppsFollow ==
    \A a \in Apps : IF app[a] = None THEN ledger[a] = <<>>
                    ELSE Abides(ledger[a], acked[a], events[a], app[a])

\* No report of a customer is accepted before the user is linked to that customer.
CustomerFollows ==
    ~moved =>
        /\ \A c \in Customers \ {link} : events[c] = {}
        /\ IF link = None THEN custStatus = "embryo"
           ELSE Abides(ledger[link], acked[link], events[link], custStatus)

\* What goroutines and requests have found exists, and who pushes has a link.
FoundExists ==
    /\ IsFiniteSet(held)
    /\ link # None => link \in held
    /\ \A g \in Syncs : sync[g].pc \in {"store", "push"} => sync[g].found \in held
    /\ \A r \in Loans : loan[r].pc = "store" => loan[r].found \in held
    /\ wallets \subseteq held
    /\ (wallets # {} \/ \E g \in Syncs : sync[g].pc = "push") => link # None

Sound == TypeOK /\ ReportsInOrder /\ AppsFollow /\ CustomerFollows /\ FoundExists

-----------------------------------------------------------------------------
(* Statuses and reports *)

Statuses == AppStatus \cup CustomerStatus

LEMMA SubjectTypes ==
    ASSUME TypeOK, NEW x \in Subjects
    PROVE  /\ ledger[x] \in Seq(Statuses) /\ Len(ledger[x]) \in Nat
           /\ DOMAIN ledger[x] = 1..Len(ledger[x])
           /\ acked[x] \in Nat /\ acked[x] <= Len(ledger[x])
           /\ events[x] \subseteq 1..Len(ledger[x])
           /\ \A i \in 1..Len(ledger[x]) : ledger[x][i] \in Statuses
  BY DEF TypeOK, Statuses

\* A new status leaves what is stored one behind.
LEMMA MoveStep ==
    ASSUME TypeOK, ReportsInOrder, NEW x \in Subjects, NEW s \in Statuses, Move(x, s)
    PROVE  /\ ledger'[x] = Append(ledger[x], s)
           /\ \A y \in Subjects \ {x} : ledger'[y] = ledger[y]
           /\ ledger' \in [Subjects -> Seq(Statuses)]
           /\ \A y \in Subjects : Len(ledger[y]) <= Len(ledger'[y])
           /\ ReportsInOrder'
           /\ \A st : Abides(ledger[x], acked[x], events[x], st)
                       => Abides(ledger'[x], acked[x], events[x], st)
<1>1. ledger'[x] = Append(ledger[x], s) /\ acked[x] = Len(ledger[x])
      /\ \A y \in Subjects \ {x} : ledger'[y] = ledger[y]
  BY DEF Move, TypeOK
<1>2. /\ ledger'[x] \in Seq(Statuses) /\ Len(ledger'[x]) = Len(ledger[x]) + 1
      /\ \A i \in 1..Len(ledger[x]) : ledger'[x][i] = ledger[x][i]
  BY <1>1, SubjectTypes
<1>3. ledger' \in [Subjects -> Seq(Statuses)]
  BY <1>1, <1>2 DEF Move, TypeOK, Statuses
<1>4. \A y \in Subjects : Len(ledger[y]) <= Len(ledger'[y])
  BY <1>1, <1>2, SubjectTypes
<1>5. UNCHANGED <<acked, events>>
  BY DEF Move
<1>6. ReportsInOrder'
  BY <1>1, <1>2, <1>5, SubjectTypes DEF ReportsInOrder
<1>7. ASSUME NEW st, Abides(ledger[x], acked[x], events[x], st)
      PROVE  Abides(ledger'[x], acked[x], events[x], st)
  <2> DEFINE n == Len(ledger[x])
  <2>1. n \in Nat /\ (n = 0 <=> ledger[x] = <<>>)
    BY SubjectTypes
  <2>2. st = IF n = 0 THEN "embryo" ELSE ledger[x][n]
    BY <1>1, <1>7, <2>1 DEF Abides, LastOf
  <2>3. n + 1 \notin events[x]
    BY SubjectTypes
  <2>4. acked[x] < n + 1 /\ st = IF n + 1 <= 1 THEN "embryo" ELSE ledger'[x][n + 1 - 1]
    BY <1>1, <1>2, <2>1, <2>2
  <2> QED BY <1>2, <2>3, <2>4 DEF Abides
<1> QED BY <1>1, <1>3, <1>4, <1>6, <1>7

\* A report that is accepted is the last one or recorded already.
LEMMA NewIsLast ==
    ASSUME TypeOK, ReportsInOrder, NEW x \in Subjects, NEW i \in DOMAIN ledger[x], Created(x, i)
    PROVE  i = Len(ledger[x]) /\ ledger[x][i] = LastOf(ledger[x])
<1>1. i \notin events[x] /\ i \in 1..Len(ledger[x])
  BY SubjectTypes DEF Created
<1>2. i > acked[x]
  BY <1>1, SubjectTypes DEF ReportsInOrder
<1> QED BY <1>1, <1>2, SubjectTypes DEF ReportsInOrder, LastOf

\* What a report does to its subject, whose stored status goes from st to new.
LEMMA ReportStep ==
    ASSUME TypeOK, ReportsInOrder, NEW x \in Subjects, NEW i \in DOMAIN ledger[x],
           NEW arrives \in BOOLEAN,
           events' = [events EXCEPT ![x] = @ \cup {i}], Answered(x, i, arrives),
           ledger' = ledger
    PROVE  /\ acked' \in [Subjects -> Nat] /\ events' \in [Subjects -> SUBSET Nat]
           /\ \A y \in Subjects : acked'[y] <= Len(ledger'[y]) /\ events'[y] \subseteq 1..Len(ledger'[y])
           /\ ReportsInOrder'
           /\ \A y \in Subjects \ {x} : acked'[y] = acked[y] /\ events'[y] = events[y]
           /\ \A st : Abides(ledger[x], acked[x], events[x], st)
                 => Abides(ledger[x], acked'[x], events'[x],
                           IF Created(x, i) THEN ledger[x][i] ELSE st)
<1>1. i \in 1..Len(ledger[x])
  BY SubjectTypes
<1>2. /\ events'[x] = events[x] \cup {i}
      /\ \A y \in Subjects \ {x} : acked'[y] = acked[y] /\ events'[y] = events[y]
  BY DEF TypeOK, Answered
<1>3. acked'[x] = acked[x] \/ (acked'[x] = i /\ i > acked[x])
  BY DEF TypeOK, Answered
<1>4. acked' \in [Subjects -> Nat]
  BY <1>1 DEF TypeOK, Answered
<1>5. events' \in [Subjects -> SUBSET Nat]
  BY <1>1, SubjectTypes DEF TypeOK
<1>6. \A y \in Subjects : acked'[y] <= Len(ledger'[y]) /\ events'[y] \subseteq 1..Len(ledger'[y])
  BY <1>1, <1>2, <1>3, SubjectTypes
<1>7. i > acked[x] => i = acked[x] + 1 /\ i = Len(ledger[x])
  BY <1>1, SubjectTypes DEF ReportsInOrder
<1>8. ReportsInOrder'
  <2>1. ASSUME NEW y \in Subjects
        PROVE  /\ Len(ledger[y]) <= acked'[y] + 1
               /\ \A j \in 1..acked'[y] : j \in events'[y]
    <3>1. CASE y = x
      BY <1>2, <1>3, <1>7, <3>1, SubjectTypes DEF ReportsInOrder
    <3>2. CASE y # x
      BY <1>2, <3>2 DEF ReportsInOrder
    <3> QED BY <3>1, <3>2
  <2> QED BY <2>1 DEF ReportsInOrder
<1>9. ASSUME NEW st, Abides(ledger[x], acked[x], events[x], st)
      PROVE  Abides(ledger[x], acked'[x], events'[x], IF Created(x, i) THEN ledger[x][i] ELSE st)
  <2>1. CASE Created(x, i)
    BY <2>1, NewIsLast DEF Abides
  <2>2. CASE ~Created(x, i)
    <3>1. events'[x] = events[x]
      BY <1>2, <2>2 DEF Created
    <3>2. acked'[x] = acked[x] \/ st = LastOf(ledger[x])
      BY <1>3, <1>7, <1>9, <2>2 DEF Created, Abides
    <3> QED BY <1>9, <2>2, <3>1, <3>2 DEF Abides
  <2> QED BY <2>1, <2>2
<1> QED BY <1>2, <1>4, <1>5, <1>6, <1>8, <1>9

-----------------------------------------------------------------------------
(* Steps of core banking *)

LEMMA MovePreserves ==
    ASSUME Sound, NEW x \in Subjects, NEW s \in Statuses, Move(x, s)
    PROVE  Sound'
<1> USE DEF Sound
<1>1. /\ ledger' \in [Subjects -> Seq(Statuses)]
      /\ \A y \in Subjects : Len(ledger[y]) <= Len(ledger'[y])
      /\ \A y \in Subjects \ {x} : ledger'[y] = ledger[y]
      /\ ReportsInOrder'
      /\ \A st : Abides(ledger[x], acked[x], events[x], st)
                  => Abides(ledger'[x], acked[x], events[x], st)
  BY MoveStep
<1>2. UNCHANGED <<link, custStatus, app, events, sync, loan, held, acked, wallets, moved>>
  BY DEF Move
<1>3. TypeOK'
  <2>1. \A y \in Subjects : acked[y] <= Len(ledger'[y]) /\ events[y] \subseteq 1..Len(ledger'[y])
    <3>1. ASSUME NEW y \in Subjects
          PROVE  /\ Len(ledger'[y]) \in Nat /\ Len(ledger[y]) \in Nat
                 /\ Len(ledger[y]) <= Len(ledger'[y])
      BY <1>1, SubjectTypes
    <3> QED BY <3>1, SubjectTypes
  <2> QED BY <1>1, <1>2, <2>1 DEF TypeOK, Statuses
<1>4. \A y \in Subjects : \A st : Abides(ledger[y], acked[y], events[y], st)
                                => Abides(ledger'[y], acked[y], events[y], st)
  BY <1>1
<1>5. AppsFollow'
  <2>1. ASSUME NEW a \in Apps
        PROVE  IF app[a] = None THEN ledger'[a] = <<>>
               ELSE Abides(ledger'[a], acked[a], events[a], app[a])
    <3>1. CASE app[a] = None
      <4>1. a # x
        BY <3>1, CoreAssumption DEF AppsFollow, Move, Known, Listed, Subjects
      <4> QED BY <1>1, <3>1, <4>1 DEF AppsFollow, Subjects
    <3>2. CASE app[a] # None
      BY <1>4, <3>2 DEF AppsFollow, Subjects
    <3> QED BY <3>1, <3>2
  <2> QED BY <1>2, <2>1 DEF AppsFollow
<1>6. CustomerFollows'
  BY <1>2, <1>4 DEF CustomerFollows, TypeOK, Subjects
<1>7. FoundExists'
  BY <1>2 DEF FoundExists
<1> QED BY <1>1, <1>3, <1>5, <1>6, <1>7

LEMMA ReportAppPreserves ==
    ASSUME Sound, NEW a \in Apps, NEW i \in DOMAIN ledger[a], NEW arrives \in BOOLEAN,
           ReportApp(a, i, arrives)
    PROVE  Sound'
<1> USE DEF Sound
<1>0. a \in Subjects /\ a \notin Customers
  BY CoreAssumption DEF Subjects
<1>1. app[a] # None /\ Abides(ledger[a], acked[a], events[a], app[a])
  <2>1. ledger[a] # <<>>
    BY <1>0, SubjectTypes
  <2> QED BY <2>1 DEF AppsFollow
<1>2. /\ events' = [events EXCEPT ![a] = @ \cup {i}] /\ Answered(a, i, arrives)
      /\ UNCHANGED <<link, custStatus, sync, loan, held, ledger, wallets, moved>>
  BY DEF ReportApp
<1>3. /\ acked' \in [Subjects -> Nat] /\ events' \in [Subjects -> SUBSET Nat]
      /\ \A y \in Subjects : acked'[y] <= Len(ledger'[y]) /\ events'[y] \subseteq 1..Len(ledger'[y])
      /\ ReportsInOrder'
      /\ \A y \in Subjects \ {a} : acked'[y] = acked[y] /\ events'[y] = events[y]
      /\ \A st : Abides(ledger[a], acked[a], events[a], st)
            => Abides(ledger[a], acked'[a], events'[a],
                      IF Created(a, i) THEN ledger[a][i] ELSE st)
  BY <1>0, <1>2, ReportStep
<1>4. ledger[a][i] \in AppStatus
  <2>1. app[a] \in AppStatus
    BY <1>1 DEF TypeOK
  <2>2. app[a] = ledger[a][i] \/ <<app[a], ledger[a][i]>> \in CanMoveApp
    BY DEF ReportApp, Accepts, CanMove
  <2> QED BY <2>1, <2>2 DEF CanMoveApp, AppStatus
<1>5. /\ app'[a] = IF Created(a, i) THEN ledger[a][i] ELSE app[a]
      /\ app' \in [Apps -> AppStatus \cup {None}]
      /\ app'[a] # None
      /\ \A b \in Apps \ {a} : app'[b] = app[b]
  BY <1>1, <1>4, CoreAssumption DEF ReportApp, TypeOK
<1>6. TypeOK'
  BY <1>2, <1>3, <1>5 DEF TypeOK
<1>7. AppsFollow'
  <2>1. Abides(ledger'[a], acked'[a], events'[a], app'[a])
    BY <1>1, <1>2, <1>3, <1>5
  <2>2. ASSUME NEW b \in Apps \ {a}
        PROVE  IF app'[b] = None THEN ledger'[b] = <<>>
               ELSE Abides(ledger'[b], acked'[b], events'[b], app'[b])
    BY <1>2, <1>3, <1>5 DEF AppsFollow, Subjects
  <2> QED BY <1>5, <2>1, <2>2 DEF AppsFollow
<1>8. CustomerFollows'
  BY <1>0, <1>2, <1>3 DEF CustomerFollows, TypeOK, Subjects
<1>9. FoundExists'
  BY <1>2 DEF FoundExists
<1> QED BY <1>3, <1>6, <1>7, <1>8, <1>9

LEMMA ReportCustomerPreserves ==
    ASSUME Sound, NEW c \in Customers, NEW i \in DOMAIN ledger[c], NEW arrives \in BOOLEAN,
           ReportCustomer(c, i, arrives)
    PROVE  Sound'
<1> USE DEF Sound
<1>0. c \in Subjects /\ c \notin Apps /\ c # None /\ link = c
  BY CoreAssumption DEF Subjects, ReportCustomer
<1>1. /\ events' = [events EXCEPT ![c] = @ \cup {i}] /\ Answered(c, i, arrives)
      /\ custStatus' = IF Created(c, i) THEN ledger[c][i] ELSE custStatus
      /\ UNCHANGED <<link, app, sync, loan, held, ledger, wallets, moved>>
  BY DEF ReportCustomer
<1>2. custStatus' \in CustomerStatus
  <2>1. custStatus = ledger[c][i] \/ <<custStatus, ledger[c][i]>> \in CanMoveCustomer
    BY <1>0 DEF ReportCustomer, Accepts, CanMove
  <2> QED BY <1>1, <2>1 DEF CanMoveCustomer, CustomerStatus, TypeOK
<1>3. /\ acked' \in [Subjects -> Nat] /\ events' \in [Subjects -> SUBSET Nat]
      /\ \A y \in Subjects : acked'[y] <= Len(ledger'[y]) /\ events'[y] \subseteq 1..Len(ledger'[y])
      /\ ReportsInOrder'
      /\ \A y \in Subjects \ {c} : acked'[y] = acked[y] /\ events'[y] = events[y]
      /\ \A st : Abides(ledger[c], acked[c], events[c], st)
            => Abides(ledger[c], acked'[c], events'[c],
                      IF Created(c, i) THEN ledger[c][i] ELSE st)
  BY <1>0, <1>1, ReportStep
<1>4. TypeOK'
  BY <1>1, <1>2, <1>3 DEF TypeOK
<1>5. AppsFollow'
  BY <1>0, <1>1, <1>3 DEF AppsFollow, Subjects
<1>6. CustomerFollows'
  <2>1. ASSUME ~moved
        PROVE  Abides(ledger'[c], acked'[c], events'[c], custStatus')
    <3>1. Abides(ledger[c], acked[c], events[c], custStatus)
      BY <1>0, <2>1 DEF CustomerFollows
    <3> QED BY <1>1, <1>3, <3>1
  <2>2. ASSUME ~moved, NEW d \in Customers \ {link}
        PROVE  events'[d] = {}
    BY <1>0, <1>3, <2>2 DEF CustomerFollows, Subjects
  <2> QED BY <1>0, <1>1, <2>1, <2>2 DEF CustomerFollows
<1>7. FoundExists'
  BY <1>1 DEF FoundExists
<1> QED BY <1>3, <1>4, <1>5, <1>6, <1>7

LEMMA CreatePreserves ==
    ASSUME Sound, NEW c \in Customers, CreateCustomer(c)
    PROVE  Sound'
<1> USE DEF Sound
<1>1. /\ held' = held \cup {c}
      /\ UNCHANGED <<link, custStatus, app, events, sync, loan, ledger, acked, wallets, moved>>
  BY DEF CreateCustomer
<1>2. TypeOK'
  BY <1>1 DEF TypeOK
<1>3. IsFiniteSet(held')
  BY <1>1, FS_AddElement DEF FoundExists
<1>4. FoundExists'
  BY <1>1, <1>3 DEF FoundExists
<1>5. ReportsInOrder' /\ AppsFollow' /\ CustomerFollows'
  BY <1>1 DEF ReportsInOrder, AppsFollow, CustomerFollows
<1> QED BY <1>2, <1>4, <1>5

-----------------------------------------------------------------------------
(* The three writers of the link *)

\* What none has reported yet is at most one status ahead of the first state.
LEMMA FirstLinkAbides ==
    ASSUME Sound, ~moved, link = None, NEW c \in Customers
    PROVE  Abides(ledger[c], acked[c], events[c], custStatus)
<1>1. c \in Subjects /\ c # None
  BY CoreAssumption DEF Subjects
<1>2. events[c] = {} /\ custStatus = "embryo"
  BY <1>1 DEF Sound, CustomerFollows
<1>3. acked[c] = 0
  BY <1>1, <1>2, SubjectTypes DEF Sound, ReportsInOrder
<1>4. Len(ledger[c]) \in Nat /\ Len(ledger[c]) <= 1
  <2>1. Len(ledger[c]) <= acked[c] + 1
    BY <1>1 DEF Sound, ReportsInOrder
  <2> QED BY <1>1, <1>3, <2>1, SubjectTypes DEF Sound
<1>5. Len(ledger[c]) = 0 <=> ledger[c] = <<>>
  BY <1>1, SubjectTypes DEF Sound
<1> QED BY <1>2, <1>3, <1>4, <1>5 DEF Abides, LastOf

\* A step that links the user to c, and changes nothing else but goroutines: it is
\* the first link, or moved tells of it.
Links(c) ==
    /\ link' = c
    /\ \/ link = None /\ moved' = moved
       \/ link = c /\ moved' = moved
       \/ moved' = TRUE
    /\ UNCHANGED <<custStatus, app, events, held, ledger, acked, wallets>>

LEMMA LinkPreserves ==
    ASSUME Sound, NEW c \in held, Links(c)
    PROVE  ReportsInOrder' /\ AppsFollow' /\ CustomerFollows'
<1> USE DEF Sound
<1>1. c \in Customers /\ c # None
  BY CoreAssumption DEF TypeOK
<1>2. UNCHANGED <<custStatus, app, events, held, ledger, acked, wallets>>
  BY DEF Links
<1>3. ReportsInOrder' /\ AppsFollow'
  BY <1>2 DEF ReportsInOrder, AppsFollow
<1>4. ASSUME ~moved'
      PROVE  ~moved /\ (link = None \/ link = c)
  BY <1>4 DEF Links, TypeOK
<1>5. ASSUME ~moved'
      PROVE  Abides(ledger[c], acked[c], events[c], custStatus)
  <2>1. CASE link = None
    BY <1>1, <1>4, <1>5, <2>1, FirstLinkAbides
  <2>2. CASE link = c
    BY <1>1, <1>4, <1>5, <2>2 DEF CustomerFollows
  <2> QED BY <1>4, <1>5, <2>1, <2>2
<1>6. ASSUME ~moved', NEW d \in Customers \ {c}
      PROVE  events[d] = {}
  BY <1>1, <1>4, <1>6, CoreAssumption DEF CustomerFollows
<1>7. CustomerFollows'
  BY <1>1, <1>2, <1>5, <1>6 DEF CustomerFollows, Links
<1> QED BY <1>3, <1>7

LEMMA SetLinkLinks ==
    ASSUME TypeOK, NEW c, SetLink(c), UNCHANGED <<custStatus, app, events, held, ledger, acked, wallets>>
    PROVE  Links(c) /\ moved' \in BOOLEAN
  BY DEF SetLink, Links, TypeOK

LEMMA LinkByBVNPreserves ==
    ASSUME Sound, NEW c \in Customers, LinkByBVN(c)
    PROVE  Sound'
<1> USE DEF Sound
<1>1. c \in held /\ SetLink(c) /\ link' = c /\ c # None
  BY CoreAssumption DEF LinkByBVN, SetLink
<1>2. UNCHANGED <<custStatus, app, events, sync, loan, held, ledger, acked, wallets>>
  BY DEF LinkByBVN, core
<1>3. Links(c) /\ moved' \in BOOLEAN
  BY <1>1, <1>2, SetLinkLinks
<1>4. ReportsInOrder' /\ AppsFollow' /\ CustomerFollows'
  BY <1>1, <1>3, LinkPreserves
<1>5. TypeOK'
  BY <1>1, <1>2, <1>3 DEF TypeOK
<1>6. FoundExists'
  BY <1>1, <1>2 DEF FoundExists
<1> QED BY <1>4, <1>5, <1>6

-----------------------------------------------------------------------------
(* Synchronizations and applications *)

\* Nothing that core banking reports about changes.
Quiet == UNCHANGED <<link, custStatus, app, events, held, ledger, acked, moved>>

LEMMA QuietPreserves ==
    ASSUME Sound, Quiet
    PROVE  ReportsInOrder' /\ AppsFollow' /\ CustomerFollows'
  BY DEF Sound, Quiet, ReportsInOrder, AppsFollow, CustomerFollows

LEMMA SyncPreserves ==
    ASSUME Sound, NEW g \in Syncs, SyncNext(g)
    PROVE  Sound'
<1> USE DEF Sound
<1>1. CASE StartSync(g) \/ SyncEnds(g) \/ Match(g)
  <2>1. Quiet /\ UNCHANGED <<loan, wallets>>
    BY <1>1 DEF StartSync, SyncEnds, Match, SyncGoto, Quiet
  <2>2. PICK row \in Sync :
          /\ sync' = [sync EXCEPT ![g] = row]
          /\ row.pc # "push" /\ (row.pc = "store" => row.found \in held)
    <3>1. CASE StartSync(g)
      <4> DEFINE row == [Idle EXCEPT !.pc = "match"]
      <4>1. row \in Sync /\ row.pc = "match"
        BY DEF Idle, Sync
      <4>2. sync' = [sync EXCEPT ![g] = row]
        BY <3>1 DEF StartSync, SyncGoto
      <4> HIDE DEF row
      <4> QED BY <4>1, <4>2
    <3>2. CASE SyncEnds(g) \/ (Match(g) /\ SingleMatch = {})
      <4>1. Idle \in Sync /\ Idle.pc = "idle"
        BY DEF Idle, Sync
      <4>2. sync' = [sync EXCEPT ![g] = Idle]
        BY <3>2 DEF SyncEnds, Match, SyncGoto
      <4> QED BY <4>1, <4>2
    <3>3. CASE Match(g) /\ SingleMatch # {}
      <4>1. PICK c \in held : SyncGoto(g, [pc |-> "store", found |-> c])
        BY <3>3 DEF Match, SingleMatch
      <4> DEFINE row == [pc |-> "store", found |-> c]
      <4>2. row \in Sync /\ row.pc = "store" /\ row.found \in held
        BY DEF Sync, TypeOK
      <4>3. sync' = [sync EXCEPT ![g] = row]
        BY <4>1 DEF SyncGoto
      <4> HIDE DEF row
      <4> QED BY <4>2, <4>3
    <3> QED BY <1>1, <3>1, <3>2, <3>3
  <2>3. TypeOK'
    BY <2>1, <2>2 DEF TypeOK, Quiet
  <2>4. FoundExists'
    BY <2>1, <2>2 DEF FoundExists, Quiet, TypeOK
  <2> QED BY <2>1, <2>3, <2>4, QuietPreserves
<1>2. CASE StoreSync(g)
  <2>1. /\ sync' = [sync EXCEPT ![g].pc = "push"] /\ sync[g].pc = "store"
        /\ UNCHANGED <<custStatus, app, events, loan, held, ledger, acked, wallets, moved>>
    BY <1>2 DEF StoreSync, SyncGoto, At, TypeOK
  <2>2. PICK c \in held : link' = IF link = None THEN c ELSE link
    BY <1>2, <2>1 DEF StoreSync, StillUnlinked, FoundExists
  <2>3. PICK d \in held : link' = d /\ Links(d)
    BY <2>1, <2>2 DEF Links, FoundExists
  <2>4. ReportsInOrder' /\ AppsFollow' /\ CustomerFollows'
    BY <2>3, LinkPreserves
  <2>5. sync' \in [Syncs -> Sync]
    <3>1. sync[g] \in Sync
      BY DEF TypeOK
    <3>2. [sync[g] EXCEPT !.pc = "push"] \in Sync
      BY <3>1 DEF Sync
    <3> QED BY <2>1, <3>2 DEF TypeOK
  <2>6. TypeOK'
    BY <2>1, <2>3, <2>5 DEF TypeOK
  <2>7. link' # None
    BY <2>3, CoreAssumption DEF TypeOK
  <2>8. \A h \in Syncs : sync'[h].pc \in {"store", "push"} => sync'[h].found \in held
    BY <2>1 DEF FoundExists, TypeOK, Sync
  <2>9. FoundExists'
    BY <2>1, <2>3, <2>7, <2>8 DEF FoundExists
  <2> QED BY <2>4, <2>6, <2>9
<1>3. CASE Push(g)
  <2>1. /\ Quiet /\ UNCHANGED loan /\ sync[g].pc = "push"
        /\ wallets' = wallets \cup {sync[g].found}
        /\ sync' = [sync EXCEPT ![g] = Idle] \/ sync' = sync
    BY <1>3 DEF Push, SyncGoto, Quiet, At, UpdateCBACustomerBankInfo, TypeOK
  <2>2. sync[g].found \in held /\ link # None
    BY <2>1 DEF FoundExists
  <2>3. Idle \in Sync /\ Idle.pc = "idle"
    BY DEF Idle, Sync
  <2>4. TypeOK'
    BY <2>1, <2>2, <2>3 DEF TypeOK, Quiet
  <2>5. FoundExists'
    BY <2>1, <2>2, <2>3 DEF FoundExists, Quiet, TypeOK
  <2> QED BY <2>1, <2>4, <2>5, QuietPreserves
<1> QED BY <1>1, <1>2, <1>3 DEF SyncNext

LEMMA LoanPreserves ==
    ASSUME Sound, NEW r \in Loans, LoanNext(r)
    PROVE  Sound'
<1> USE DEF Sound
<1>1. CASE StartLoan(r) \/ MatchLoan(r) \/ LoanRefused(r)
  <2>1. Quiet /\ UNCHANGED <<sync, wallets>>
    BY <1>1 DEF StartLoan, MatchLoan, LoanRefused, LoanGoto, Quiet, core
  <2>2. PICK row \in Loan :
          /\ loan' = [loan EXCEPT ![r] = row]
          /\ row.pc = "store" => row.found \in held
    <3>1. CASE StartLoan(r)
      <4> DEFINE row == [pc |-> IF link = None THEN "match" ELSE "create", found |-> link]
      <4>1. row \in Loan /\ row.pc # "store"
        BY DEF Loan, TypeOK
      <4>2. loan' = [loan EXCEPT ![r] = row]
        BY <3>1 DEF StartLoan, LoanGoto
      <4> HIDE DEF row
      <4> QED BY <4>1, <4>2
    <3>2. CASE MatchLoan(r) /\ SingleMatch = {}
      <4> DEFINE row == [pc |-> "create", found |-> None]
      <4>1. row \in Loan /\ row.pc # "store"
        BY DEF Loan
      <4>2. loan' = [loan EXCEPT ![r] = row]
        BY <3>2 DEF MatchLoan, LoanGoto
      <4> HIDE DEF row
      <4> QED BY <4>1, <4>2
    <3>3. CASE MatchLoan(r) /\ SingleMatch # {}
      <4>1. PICK c \in held : LoanGoto(r, [pc |-> "store", found |-> c])
        BY <3>3 DEF MatchLoan, SingleMatch
      <4> DEFINE row == [pc |-> "store", found |-> c]
      <4>2. row \in Loan /\ row.found \in held
        BY DEF Loan, TypeOK
      <4>3. loan' = [loan EXCEPT ![r] = row]
        BY <4>1 DEF LoanGoto
      <4> HIDE DEF row
      <4> QED BY <4>2, <4>3
    <3>4. CASE LoanRefused(r)
      <4>1. Idle \in Loan /\ Idle.pc # "store"
        BY DEF Idle, Loan
      <4>2. loan' = [loan EXCEPT ![r] = Idle]
        BY <3>4 DEF LoanRefused, LoanGoto
      <4> QED BY <4>1, <4>2
    <3> QED BY <1>1, <3>1, <3>2, <3>3, <3>4
  <2>3. TypeOK'
    BY <2>1, <2>2 DEF TypeOK, Quiet
  <2>4. FoundExists'
    BY <2>1, <2>2 DEF FoundExists, Quiet, TypeOK
  <2> QED BY <2>1, <2>3, <2>4, QuietPreserves
<1>2. CASE StoreLoan(r)
  <2>1. /\ loan[r].pc = "store" /\ SetLink(loan[r].found)
        /\ loan' = [loan EXCEPT ![r].pc = "create"]
        /\ UNCHANGED <<custStatus, app, events, sync, held, ledger, acked, wallets>>
    BY <1>2 DEF StoreLoan, LoanGoto, core, TypeOK
  <2>2. PICK c \in held : c = loan[r].found
    BY <2>1 DEF FoundExists
  <2>3. Links(c) /\ moved' \in BOOLEAN /\ link' = c
    <3>1. SetLink(c)
      BY <2>1, <2>2
    <3> QED BY <2>1, <3>1, SetLinkLinks DEF SetLink
  <2>4. ReportsInOrder' /\ AppsFollow' /\ CustomerFollows'
    BY <2>3, LinkPreserves
  <2>5. loan' \in [Loans -> Loan]
    <3>1. loan[r] \in Loan
      BY DEF TypeOK
    <3>2. [loan[r] EXCEPT !.pc = "create"] \in Loan
      BY <3>1 DEF Loan
    <3> QED BY <2>1, <3>2 DEF TypeOK
  <2>6. TypeOK'
    BY <2>1, <2>3, <2>5 DEF TypeOK
  <2>7. c # None
    BY CoreAssumption DEF TypeOK
  <2>8. \A q \in Loans : loan'[q].pc = "store" => loan'[q].found \in held
    BY <2>1 DEF FoundExists, TypeOK, Loan
  <2>9. FoundExists'
    BY <2>1, <2>3, <2>7, <2>8 DEF FoundExists
  <2> QED BY <2>4, <2>6, <2>9
<1>3. ASSUME NEW a \in Apps, CreateEOI(r, a)
      PROVE  Sound'
  <2>1. /\ app[a] = None /\ app' = [app EXCEPT ![a] = "embryo"]
        /\ loan' = [loan EXCEPT ![r] = Idle]
        /\ UNCHANGED <<link, custStatus, events, sync, held, ledger, acked, wallets, moved>>
    BY <1>3 DEF CreateEOI, LoanGoto, core
  <2>2. Idle \in Loan /\ Idle.pc # "store"
    BY DEF Idle, Loan
  <2>3. TypeOK'
    BY <2>1, <2>2 DEF TypeOK, AppStatus
  <2>4. a \in Subjects /\ ledger[a] = <<>> /\ "embryo" # None
    BY <2>1, CoreAssumption DEF AppsFollow, Subjects, AppStatus
  <2>5. Abides(ledger[a], acked[a], events[a], "embryo")
    BY <2>4 DEF Abides, LastOf
  <2>6. AppsFollow'
    BY <2>1, <2>4, <2>5 DEF AppsFollow, TypeOK
  <2>7. ReportsInOrder' /\ CustomerFollows'
    BY <2>1 DEF ReportsInOrder, CustomerFollows
  <2>8. FoundExists'
    BY <2>1, <2>2 DEF FoundExists, TypeOK
  <2> QED BY <2>3, <2>6, <2>7, <2>8
<1> QED BY <1>1, <1>2, <1>3 DEF LoanNext

-----------------------------------------------------------------------------
(* The invariant, and the theorems *)

LEMMA SoundAtFirst == Init => Sound
<1> SUFFICES ASSUME Init PROVE Sound
  OBVIOUS
<1>1. \A x \in Subjects : ledger[x] = <<>> /\ Len(ledger[x]) = 0 /\ acked[x] = 0 /\ events[x] = {}
  BY DEF Init
<1>2. TypeOK
  <2>1. Idle \in Sync /\ Idle \in Loan
    BY DEF Idle, Sync, Loan
  <2>2. ledger \in [Subjects -> Seq(AppStatus \cup CustomerStatus)]
    BY DEF Init
  <2>3. \A x \in Subjects : acked[x] <= Len(ledger[x]) /\ events[x] \subseteq 1..Len(ledger[x])
    BY <1>1
  <2>4. acked \in [Subjects -> Nat] /\ events \in [Subjects -> SUBSET Nat]
    BY DEF Init
  <2>5. /\ link \in Customers \cup {None} /\ custStatus \in CustomerStatus /\ moved \in BOOLEAN
        /\ held \subseteq Customers /\ wallets \subseteq Customers
        /\ app \in [Apps -> AppStatus \cup {None}]
    BY DEF Init, CustomerStatus
  <2>6. sync \in [Syncs -> Sync] /\ loan \in [Loans -> Loan]
    BY <2>1 DEF Init
  <2> QED BY <2>2, <2>3, <2>4, <2>5, <2>6 DEF TypeOK
<1>3. ReportsInOrder
  BY <1>1 DEF ReportsInOrder
<1>4. AppsFollow
  BY <1>1 DEF Init, AppsFollow, Subjects
<1>5. CustomerFollows
  BY <1>1 DEF Init, CustomerFollows, Subjects
<1>6. FoundExists
  BY FS_EmptySet DEF Init, FoundExists, Idle
<1> QED BY <1>2, <1>3, <1>4, <1>5, <1>6 DEF Sound

LEMMA SoundPreserved == Sound /\ [Next]_vars => Sound'
<1>1. ASSUME Sound, CoreNext
      PROVE  Sound'
  <2>1. ASSUME NEW x \in Subjects, NEW i \in DOMAIN ledger[x], NEW arrives \in BOOLEAN,
               Report(x, i, arrives)
        PROVE  Sound'
    BY <1>1, <2>1, ReportAppPreserves, ReportCustomerPreserves DEF Report
  <2> QED BY <1>1, <2>1, CreatePreserves, LinkByBVNPreserves, MovePreserves DEF CoreNext, Statuses
<1>2. ASSUME Sound, Next
      PROVE  Sound'
  BY <1>1, <1>2, SyncPreserves, LoanPreserves DEF Next
<1>3. ASSUME Sound, UNCHANGED vars
      PROVE  Sound'
  BY <1>3 DEF Sound, TypeOK, ReportsInOrder, AppsFollow, CustomerFollows, FoundExists, vars
<1> QED BY <1>2, <1>3

\* The invariant behind the two theorems: reports arrive in step with what core
\* banking gave, and everything found exists.
THEOREM SoundAlways == Spec => []Sound
  BY SoundAtFirst, SoundPreserved, PTL DEF Spec

LEMMA AbidesMirrors ==
    ASSUME TypeOK, NEW x \in Subjects, NEW st, Abides(ledger[x], acked[x], events[x], st)
    PROVE  Mirrors(x, st)
<1>1. LastOf(ledger[x]) = Given(x)
  BY SubjectTypes DEF LastOf, Given, Last
<1> QED BY <1>1 DEF Abides, Mirrors

\* However late, repeated and unanswered reports interleave with links and
\* applications, the stored statuses are the last that core banking gave, or the one
\* before while the last is on its way; no older one comes back.
THEOREM MirrorsCoreAlways == Spec => []MirrorsCore
<1>1. ASSUME Sound PROVE MirrorsCore
  <2>1. AppsMirrored
    <3>1. ASSUME NEW a \in Apps, app[a] # None
          PROVE  Mirrors(a, app[a])
      <4>1. Abides(ledger[a], acked[a], events[a], app[a])
        BY <1>1, <3>1 DEF Sound, AppsFollow
      <4> QED BY <1>1, <4>1, AbidesMirrors DEF Sound, Subjects
    <3> QED BY <3>1 DEF AppsMirrored
  <2>2. CustomerMirrored
    <3>1. ASSUME ~moved, link # None
          PROVE  Mirrors(link, custStatus)
      <4>1. Abides(ledger[link], acked[link], events[link], custStatus) /\ link \in Subjects
        BY <1>1, <3>1 DEF Sound, CustomerFollows, TypeOK, Subjects
      <4> QED BY <1>1, <4>1, AbidesMirrors DEF Sound
    <3> QED BY <3>1 DEF CustomerMirrored
  <2> QED BY <2>1, <2>2 DEF MirrorsCore
<1> QED BY <1>1, SoundAlways, PTL

\* The account number goes to the linked customer only, as long as core banking
\* holds no two customers of one BVN (syncAndUpdateCBACustomer).
THEOREM WalletGoesToLinkedAlways == Spec => []WalletGoesToLinked
<1>1. ASSUME Sound, Cardinality(held) <= 1, NEW c \in wallets
      PROVE  c = link
  <2>1. c \in held /\ link \in held
    BY <1>1 DEF Sound, FoundExists
  <2>2. ASSUME c # link PROVE FALSE
    <3>1. Cardinality({c, link}) = 2
      <4>1. {c, link} = {c} \cup {link}
        OBVIOUS
      <4>2. IsFiniteSet({c}) /\ Cardinality({c}) = 1
        BY FS_Singleton
      <4>3. link \notin {c} => Cardinality({c} \cup {link}) = Cardinality({c}) + 1
        BY <4>2, FS_AddElement
      <4> QED BY <2>2, <4>1, <4>2, <4>3
    <3>2. Cardinality({c, link}) <= Cardinality(held)
      BY <1>1, <2>1, FS_Subset DEF Sound, FoundExists
    <3>3. Cardinality(held) \in Nat
      BY <1>1, FS_CardinalityType DEF Sound, FoundExists
    <3> QED BY <1>1, <3>1, <3>2, <3>3
  <2> QED BY <2>2
<1>2. Sound => WalletGoesToLinked
  BY <1>1 DEF WalletGoesToLinked
<1> QED BY <1>2, SoundAlways, PTL

-----------------------------------------------------------------------------
(* The products and rules that applications are judged by (LoanProducts) *)

\* The rules r of the product with code c, among the products p.
Rows(r, p, c) ==
    {i \in RuleIds : r[i].id # "none" /\ r[i].code = c /\ r[i].id = p[c].id}
IsFirst(i, S) == i \in S /\ \A j \in S : i <= j

\* A loan application finds a rule, of release s or later.
Judged(r, p, c, s) == \E i \in RuleIds : IsFirst(i, Rows(r, p, c)) /\ r[i].terms >= s

\* A rule belongs to a product, whose id never changes.
RowsBelong == \A i \in RuleIds : rule[i].id # "none" => rule[i].id = product[rule[i].code].id

\* What a command x carries, and what it wrote before.
Dated(x) ==
    x.kind # "none" =>
        /\ x.since <= release
        /\ x.pc # "file" => x.terms >= sure[x.kind] /\ x.terms >= x.since /\ x.code \notin x.todo
Sighted(x, r, p) ==
    x.kind # "none" /\ x.pc = "write" =>
        /\ x.kind = "rules" /\ p[x.code].id # "none"
        /\ x.found # 0 => x.found \in Rows(r, p, x.code)
Undisturbed(x, r, p) ==
    x.kind # "none" /\ x.smooth =>
        /\ x.pc = "write" => IF x.found = 0 THEN Rows(r, p, x.code) = {}
                             ELSE IsFirst(x.found, Rows(r, p, x.code))
        /\ \A c \in Codes \ x.todo : x.pc = "file" \/ c # x.code =>
              IF x.kind = "products" THEN p[c].terms >= x.since ELSE Judged(r, p, c, x.since)

\* Only a command without company of its kind is smooth.
Alone ==
    \A k, j \in Commands :
        command[k].kind # "none" /\ command[k].smooth /\ j # k => command[j].kind # command[k].kind

JudgedSoFar ==
    \A c \in Codes :
        /\ product[c].terms >= sure["products"]
        /\ sure["rules"] > 0 => Judged(rule, product, c, sure["rules"])

Seeded ==
    /\ RowsBelong /\ JudgedSoFar /\ Alone
    /\ \A kind \in Kinds : sure[kind] <= release
    /\ \A k \in Commands : /\ Dated(command[k]) /\ Sighted(command[k], rule, product)
                           /\ Undisturbed(command[k], rule, product)

SoundSeeds == ProductsTypeOK /\ Seeded

-----------------------------------------------------------------------------
(* The first rule *)

LEMMA Least ==
    ASSUME NEW S \in SUBSET Nat, S # {}
    PROVE  \E i \in S : \A j \in S : i <= j
<1>1. PICK x \in S : \A y \in S : ~ (<<y, x>> \in OpToRel(<, Nat))
  BY NatLessThanWellFounded, WFMin
<1>2. ASSUME NEW y \in S PROVE ~ (y < x)
  <2>1. ~ (<<y, x>> \in OpToRel(<, Nat))
    BY <1>1
  <2> QED BY <2>1 DEF OpToRel
<1>3. x \in Nat /\ \A y \in S : y \in Nat
  OBVIOUS
<1>4. \A y \in S : x <= y
  BY ONLY <1>2, <1>3
<1> QED BY ONLY <1>4, x \in S

LEMMA FirstOfMore ==
    ASSUME NEW S \in SUBSET Nat, NEW f, IsFirst(f, S), NEW i \in Nat
    PROVE  IF i <= f THEN IsFirst(i, S \cup {i}) ELSE IsFirst(f, S \cup {i})
<1>1. f \in Nat /\ f \in S /\ \A j \in S : j \in Nat /\ f <= j
  BY DEF IsFirst
<1> QED BY <1>1 DEF IsFirst

LEMMA ExistingIsFirst ==
    ASSUME NEW c \in Codes
    PROVE  IF RowsOf(c) = {} THEN Existing(c) = 0
           ELSE Existing(c) # 0 /\ IsFirst(Existing(c), RowsOf(c))
<1>1. RowsOf(c) \in SUBSET Nat /\ 0 \notin RowsOf(c)
  BY ProductsAssumption DEF RowsOf
<1>2. CASE RowsOf(c) # {}
  <2>1. PICK i \in RowsOf(c) : \A j \in RowsOf(c) : i <= j
    BY <1>1, <1>2, Least
  <2>2. Min(RowsOf(c)) \in RowsOf(c) /\ \A j \in RowsOf(c) : Min(RowsOf(c)) <= j
    BY <2>1 DEF Min
  <2> QED BY <1>1, <1>2, <2>2 DEF Existing, IsFirst
<1> QED BY <1>2 DEF Existing

-----------------------------------------------------------------------------
(* What the statements do to the rows *)

\* A product keeps its id, so its rules stay its rules.
LEMMA ProductKeepsRows ==
    ASSUME ProductsTypeOK, RowsBelong, NEW k \in Commands, UpsertProduct(k)
    PROVE  /\ \A c \in Codes : Rows(rule, product', c) = Rows(rule, product, c)
           /\ \A c \in Codes : product[c].id # "none" => product'[c].id = product[c].id
           /\ RowsBelong'
<1> DEFINE d == command[k].code
<1>1. d \in Codes
  BY DEF ProductsTypeOK, Command
<1>2. \A c \in Codes : product[c].id # "none" => product'[c].id = product[c].id
  BY <1>1 DEF ProductsTypeOK, UpsertProduct
<1>3. \A i \in RuleIds : rule[i].code \in Codes /\ rule[i].id \in ProductIds \cup {"none"}
  BY DEF ProductsTypeOK, Rule
<1>4. RowsBelong'
  BY <1>2, <1>3 DEF RowsBelong, UpsertProduct
<1>5. \A c \in Codes : Rows(rule, product', c) = Rows(rule, product, c)
  BY <1>2, <1>3 DEF RowsBelong, Rows
<1> QED BY <1>2, <1>4, <1>5

\* The row a command writes joins the rules of its product; no other rule changes.
LEMMA RuleJoins ==
    ASSUME ProductsTypeOK, Seeded, NEW k \in Commands, Runs(k, "rules", "write"),
           NEW i \in RuleIds,
           IF command[k].found # 0 THEN i = command[k].found ELSE rule[i].id = "none",
           rule' = [rule EXCEPT ![i] = [code |-> command[k].code, id |-> product[command[k].code].id,
                                        terms |-> command[k].terms]]
    PROVE  LET d == command[k].code IN
           /\ Rows(rule', product, d) = Rows(rule, product, d) \cup {i}
           /\ \A c \in Codes \ {d} : Rows(rule', product, c) = Rows(rule, product, c)
                                     /\ i \notin Rows(rule, product, c)
           /\ \A j \in RuleIds \ {i} : rule'[j] = rule[j]
           /\ rule'[i].terms = command[k].terms
<1> DEFINE d == command[k].code
<1>1. d \in Codes
  BY DEF ProductsTypeOK, Command
<1>2. product[d].id # "none" /\ (command[k].found # 0 => command[k].found \in Rows(rule, product, d))
  BY DEF Seeded, Sighted, Runs
<1>3. rule[i].id # "none" => rule[i].code = d
  BY <1>2 DEF Rows
<1>4. rule'[i] = [code |-> d, id |-> product[d].id, terms |-> command[k].terms]
      /\ \A j \in RuleIds \ {i} : rule'[j] = rule[j]
  BY DEF ProductsTypeOK
<1> HIDE DEF d
<1>5. Rows(rule', product, d) = Rows(rule, product, d) \cup {i}
  BY <1>2, <1>4 DEF Rows
<1>6. \A c \in Codes \ {d} : Rows(rule', product, c) = Rows(rule, product, c)
                             /\ i \notin Rows(rule, product, c)
  BY <1>3, <1>4 DEF Rows
<1>7. rule'[i].terms = command[k].terms
  BY <1>4
<1> QED BY <1>4, <1>5, <1>6, <1>7 DEF d

\* So a product judged by release s or later stays so, when the row is.
LEMMA StaysJudged ==
    ASSUME ProductsTypeOK, Seeded, NEW k \in Commands, Runs(k, "rules", "write"),
           NEW i \in RuleIds,
           IF command[k].found # 0 THEN i = command[k].found ELSE rule[i].id = "none",
           rule' = [rule EXCEPT ![i] = [code |-> command[k].code, id |-> product[command[k].code].id,
                                        terms |-> command[k].terms]],
           NEW c \in Codes, NEW s \in Nat, Judged(rule, product, c, s),
           c = command[k].code => command[k].terms >= s
    PROVE  Judged(rule', product, c, s)
<1>1. PICK f \in RuleIds : IsFirst(f, Rows(rule, product, c)) /\ rule[f].terms >= s
  BY DEF Judged
<1>2. RuleIds \subseteq Nat
  BY ProductsAssumption
<1>3. CASE c # command[k].code
  <2>1. Rows(rule', product, c) = Rows(rule, product, c) /\ i \notin Rows(rule, product, c)
        /\ \A j \in RuleIds \ {i} : rule'[j] = rule[j]
    BY <1>3, RuleJoins
  <2> QED BY <1>1, <2>1 DEF Judged, IsFirst
<1>4. CASE c = command[k].code
  <2>1. /\ Rows(rule', product, c) = Rows(rule, product, c) \cup {i}
        /\ \A j \in RuleIds \ {i} : rule'[j] = rule[j]
        /\ rule'[i].terms >= s
    BY <1>4, RuleJoins
  <2>2. IF i <= f THEN IsFirst(i, Rows(rule', product, c)) ELSE IsFirst(f, Rows(rule', product, c))
    <3> DEFINE S == Rows(rule, product, c)
    <3>1. S \in SUBSET Nat /\ i \in Nat
      BY <1>2 DEF Rows
    <3>2. IsFirst(f, S) /\ Rows(rule', product, c) = S \cup {i}
      BY <1>1, <2>1
    <3> HIDE DEF S
    <3>3. IF i <= f THEN IsFirst(i, S \cup {i}) ELSE IsFirst(f, S \cup {i})
      BY <3>1, <3>2, FirstOfMore
    <3> QED BY <3>2, <3>3
  <2>3. ~ (i <= f) => f # i
    BY <1>2
  <2>4. ~ (i <= f) => rule'[f].terms >= s
    BY <1>1, <2>1, <2>3
  <2> QED BY <2>1, <2>2, <2>4 DEF Judged
<1> QED BY <1>3, <1>4

-----------------------------------------------------------------------------
(* Types *)

LEMMA CommandTyped ==
    ASSUME ProductsTypeOK, NEW k \in Commands
    PROVE  /\ command[k] \in Command /\ command[k].kind \in Kinds \cup {"none"}
           /\ command[k].code \in Codes /\ command[k].todo \in SUBSET Codes
           /\ command[k].terms \in Releases /\ command[k].since \in Releases
           /\ command[k].smooth \in BOOLEAN /\ command[k].found \in RuleIds \cup {0}
  BY DEF ProductsTypeOK, Command

LEMMA NoCommandTyped == NoCommand \in Command
<1>1. AnyCode \in Codes
  BY ProductsAssumption DEF AnyCode
<1>2. 0 \in Releases
  BY ProductsAssumption DEF Releases
<1> QED BY <1>1, <1>2 DEF NoCommand, Command

\* What ends a file leaves of the command.
LEMMA EndOfFile ==
    ASSUME ProductsTypeOK, NEW k \in Commands, NEW done \in BOOLEAN, FileEnds(k, done)
    PROVE  /\ command' = [command EXCEPT ![k] = command'[k]]
           /\ command' \in [Commands -> Command]
           /\ command'[k].pc = "file" /\ command'[k].kind = command[k].kind
           /\ command'[k].todo = command[k].todo /\ command'[k].since = command[k].since
           /\ command'[k].smooth = (command[k].smooth /\ done)
<1> DEFINE x == [command[k] EXCEPT !.pc = "file", !.terms = 0, !.found = 0,
                                   !.smooth = command[k].smooth /\ done]
<1>1. command' = [command EXCEPT ![k] = x]
  BY DEF FileEnds
<1>2. 0 \in Releases
  BY ProductsAssumption DEF Releases
<1>3. x \in Command
  BY <1>2, CommandTyped DEF Command
<1>4. x.pc = "file" /\ x.kind = command[k].kind /\ x.todo = command[k].todo
      /\ x.since = command[k].since /\ x.smooth = (command[k].smooth /\ done)
  BY CommandTyped DEF Command
<1> HIDE DEF x
<1>5. command'[k] = x
  BY <1>1 DEF ProductsTypeOK
<1> QED BY <1>1, <1>3, <1>4, <1>5 DEF ProductsTypeOK

LEMMA SeedTypes ==
    ASSUME ProductsTypeOK, NextProducts
    PROVE  ProductsTypeOK'
<1> USE CommandTyped
<1>1. CASE Release
  <2>1. release' \in Releases
    BY <1>1, ProductsAssumption DEF ProductsTypeOK, Releases, Release
  <2> QED BY <1>1, <2>1 DEF ProductsTypeOK, Release
<1>2. ASSUME NEW k \in Commands, NEW kind \in Kinds, Start(k, kind)
      PROVE  ProductsTypeOK'
  <2>1. [NoCommand EXCEPT !.kind = kind, !.todo = Codes, !.since = release,
                          !.smooth = {j \in Commands : command[j].kind = kind} = {}] \in Command
    BY NoCommandTyped DEF Command, ProductsTypeOK
  <2>2. \A j \in Commands : [command[j] EXCEPT !.smooth = FALSE] \in Command
    BY DEF Command
  <2>3. command' \in [Commands -> Command]
    BY <1>2, <2>1, <2>2 DEF Start
  <2> QED BY <1>2, <2>3 DEF ProductsTypeOK, Start
<1>3. ASSUME NEW k \in Commands, LoadAndValidate(k)
      PROVE  ProductsTypeOK'
  <2>1. \A c \in command[k].todo :
           [command[k] EXCEPT !.pc = "row", !.code = c, !.todo = command[k].todo \ {c},
                              !.terms = release] \in Command
    BY DEF Command, ProductsTypeOK
  <2>2. command' \in [Commands -> Command]
    BY <1>3, <2>1 DEF LoadAndValidate, ProductsTypeOK
  <2> QED BY <1>3, <2>2 DEF ProductsTypeOK, LoadAndValidate
<1>4. ASSUME NEW k \in Commands, UpsertProduct(k)
      PROVE  ProductsTypeOK'
  <2>1. command' \in [Commands -> Command]
    BY <1>4, EndOfFile DEF UpsertProduct, NextFile
  <2>2. product' \in [Codes -> Product]
    BY <1>4 DEF UpsertProduct, ProductsTypeOK, Product, ProductIds
  <2> QED BY <1>4, <2>1, <2>2 DEF ProductsTypeOK, UpsertProduct
<1>5. ASSUME NEW k \in Commands, ResolveProduct(k)
      PROVE  ProductsTypeOK'
  <2>1. Existing(command[k].code) \in RuleIds \cup {0}
    BY ExistingIsFirst DEF IsFirst, RowsOf
  <2>2. [command[k] EXCEPT !.pc = "write", !.found = Existing(command[k].code)] \in Command
    BY <2>1 DEF Command
  <2>3. command' \in [Commands -> Command]
    BY <1>5, <2>2, EndOfFile DEF ResolveProduct, SkipFile, ProductsTypeOK
  <2> QED BY <1>5, <2>3 DEF ProductsTypeOK, ResolveProduct
<1>6. ASSUME NEW k \in Commands, UpsertRule(k)
      PROVE  ProductsTypeOK'
  <2>1. command' \in [Commands -> Command]
    BY <1>6, EndOfFile DEF UpsertRule, NextFile
  <2>2. [code |-> command[k].code, id |-> product[command[k].code].id,
         terms |-> command[k].terms] \in Rule
    BY DEF ProductsTypeOK, Product, Rule
  <2>3. rule' \in [RuleIds -> Rule]
    BY <1>6, <2>2 DEF ProductsTypeOK, UpsertRule
  <2> QED BY <1>6, <2>1, <2>3 DEF ProductsTypeOK, UpsertRule
<1>7. ASSUME NEW k \in Commands, StatementSkips(k)
      PROVE  ProductsTypeOK'
  <2>1. command' \in [Commands -> Command]
    BY <1>7, EndOfFile DEF StatementSkips, SkipFile
  <2>2. skips' \in 0..MaxSkips
    BY <1>7, ProductsAssumption DEF ProductsTypeOK, StatementSkips
  <2> QED BY <1>7, <2>1, <2>2 DEF ProductsTypeOK, StatementSkips
<1>8. ASSUME NEW k \in Commands, Done(k)
      PROVE  ProductsTypeOK'
  BY <1>8, NoCommandTyped DEF ProductsTypeOK, Done, Kinds
<1>9. ASSUME NEW k \in Commands, Interrupted(k)
      PROVE  ProductsTypeOK'
  <2>1. skips' \in 0..MaxSkips
    BY <1>9, ProductsAssumption DEF ProductsTypeOK, Interrupted
  <2> QED BY <1>9, <2>1, NoCommandTyped DEF ProductsTypeOK, Interrupted
<1> QED BY <1>1, <1>2, <1>3, <1>4, <1>5, <1>6, <1>7, <1>8, <1>9 DEF NextProducts, Seeds

-----------------------------------------------------------------------------
(* The invariant *)

\* A step of a command that writes nothing: only what it carries changes.
LEMMA OnlyCarries ==
    ASSUME ProductsTypeOK, Seeded, NEW k \in Commands, NEW x,
           command' = [command EXCEPT ![k] = x],
           UNCHANGED <<release, product, rule, sure>>,
           x.kind # "none" => x.kind = command[k].kind /\ (x.smooth => command[k].smooth),
           Dated(x), Sighted(x, rule, product), Undisturbed(x, rule, product)
    PROVE  Seeded'
<1>1. command'[k] = x /\ \A j \in Commands \ {k} : command'[j] = command[j]
  BY DEF ProductsTypeOK
<1>2. Alone'
  BY <1>1 DEF Seeded, Alone
<1>3. ASSUME NEW j \in Commands
      PROVE  /\ Dated(command[j])' /\ Sighted(command[j], rule, product)'
             /\ Undisturbed(command[j], rule, product)'
  <2>1. CASE j = k
    BY <1>1, <2>1 DEF Dated, Sighted, Undisturbed
  <2>2. CASE j # k
    BY <1>1, <2>2 DEF Seeded, Dated, Sighted, Undisturbed
  <2> QED BY <2>1, <2>2
<1>4. RowsBelong' /\ JudgedSoFar' /\ \A kind \in Kinds : sure'[kind] <= release'
  BY DEF Seeded, RowsBelong, JudgedSoFar
<1> QED BY <1>2, <1>3, <1>4 DEF Seeded

LEMMA ReleaseKeeps ==
    ASSUME ProductsTypeOK, Seeded, Release
    PROVE  Seeded'
<1> USE CommandTyped
<1>1. release \in Nat /\ release' = release + 1 /\ UNCHANGED <<product, rule, command, sure>>
  BY DEF Release, ProductsTypeOK, Releases
<1>2. ASSUME NEW kind \in Kinds PROVE sure'[kind] <= release'
  BY <1>1 DEF Seeded, ProductsTypeOK, Releases
<1>3. ASSUME NEW j \in Commands PROVE Dated(command[j])'
  BY <1>1 DEF Seeded, Dated, Releases
<1>4. ASSUME NEW j \in Commands
      PROVE  Sighted(command[j], rule, product)' /\ Undisturbed(command[j], rule, product)'
  BY <1>1 DEF Seeded, Sighted, Undisturbed
<1>5. RowsBelong' /\ JudgedSoFar' /\ Alone'
  BY <1>1 DEF Seeded, RowsBelong, JudgedSoFar, Alone
<1> QED BY <1>2, <1>3, <1>4, <1>5 DEF Seeded

LEMMA StartKeeps ==
    ASSUME ProductsTypeOK, Seeded, NEW k \in Commands, NEW kind \in Kinds, Start(k, kind)
    PROVE  Seeded'
<1> USE CommandTyped
<1> DEFINE others == {j \in Commands : command[j].kind = kind}
           x == [NoCommand EXCEPT !.kind = kind, !.todo = Codes, !.since = release,
                                  !.smooth = others = {}]
<1>1. /\ UNCHANGED <<release, product, rule, sure>> /\ k \notin others
      /\ command' = [j \in Commands |->
             IF j = k THEN x
             ELSE IF j \in others THEN [command[j] EXCEPT !.smooth = FALSE] ELSE command[j]]
  BY DEF Start, Kinds
<1>2. x.kind = kind /\ x.pc = "file" /\ x.todo = Codes /\ x.since = release
      /\ x.smooth = (others = {})
  BY DEF NoCommand
<1>3. ASSUME NEW j \in Commands \ {k}
      PROVE  /\ command'[j].kind = command[j].kind /\ command'[j].pc = command[j].pc
             /\ command'[j].todo = command[j].todo /\ command'[j].since = command[j].since
             /\ command'[j].code = command[j].code /\ command'[j].terms = command[j].terms
             /\ command'[j].found = command[j].found
             /\ command'[j].smooth => command[j].smooth /\ j \notin others
  <2>1. CASE j \in others
    <3>1. command'[j] = [command[j] EXCEPT !.smooth = FALSE]
      BY <1>1, <2>1
    <3> QED BY <3>1 DEF Command
  <2>2. CASE j \notin others
    BY <1>1, <2>2
  <2> QED BY <2>1, <2>2
<1>4. command'[k] = x
  BY <1>1
<1> HIDE DEF x
<1>5. Alone'
  <2>1. ASSUME NEW i \in Commands, NEW j \in Commands, j # i,
               command'[i].kind # "none", command'[i].smooth
        PROVE  command'[j].kind # command'[i].kind
    <3>1. CASE i = k
      <4>1. command'[i].kind = kind /\ j \notin others
        BY <1>2, <1>4, <2>1, <3>1
      <4>2. command'[j].kind = command[j].kind
        BY <1>3, <2>1, <3>1
      <4> QED BY <4>1, <4>2
    <3>2. CASE j = k
      BY <1>2, <1>3, <1>4, <2>1, <3>2
    <3>3. CASE i # k /\ j # k
      BY <1>3, <2>1, <3>3 DEF Seeded, Alone
    <3> QED BY <3>1, <3>2, <3>3
  <2> QED BY <2>1 DEF Alone
<1>6. ASSUME NEW j \in Commands
      PROVE  /\ Dated(command[j])' /\ Sighted(command[j], rule, product)'
             /\ Undisturbed(command[j], rule, product)'
  <2>1. CASE j = k
    <3>1. release \in Nat
      BY DEF ProductsTypeOK, Releases
    <3> QED BY <1>1, <1>2, <1>4, <2>1, <3>1 DEF Dated, Sighted, Undisturbed
  <2>2. CASE j # k
    <3>1. Dated(command[j])'
      BY <1>1, <1>3, <2>2 DEF Seeded, Dated
    <3>2. Sighted(command[j], rule, product)'
      BY <1>1, <1>3, <2>2 DEF Seeded, Sighted
    <3>3. Undisturbed(command[j], rule, product)'
      BY <1>1, <1>3, <2>2 DEF Seeded, Undisturbed
    <3> QED BY <3>1, <3>2, <3>3
  <2> QED BY <2>1, <2>2
<1>7. RowsBelong' /\ JudgedSoFar' /\ \A K \in Kinds : sure'[K] <= release'
  BY <1>1 DEF Seeded, RowsBelong, JudgedSoFar
<1> QED BY <1>5, <1>6, <1>7 DEF Seeded

LEMMA FileKeeps ==
    ASSUME ProductsTypeOK, Seeded, NEW k \in Commands, LoadAndValidate(k)
    PROVE  Seeded'
<1> USE CommandTyped
<1>1. PICK c \in command[k].todo :
          command' = [command EXCEPT ![k] =
              [command[k] EXCEPT !.pc = "row", !.code = c, !.todo = command[k].todo \ {c},
                                 !.terms = release]]
  BY DEF LoadAndValidate
<1> DEFINE x == [command[k] EXCEPT !.pc = "row", !.code = c, !.todo = command[k].todo \ {c},
                                   !.terms = release]
<1>2. x.kind = command[k].kind /\ x.pc = "row" /\ x.code = c /\ x.todo = command[k].todo \ {c}
      /\ x.terms = release /\ x.since = command[k].since /\ x.smooth = command[k].smooth
  BY DEF Command
<1>3. command' = [command EXCEPT ![k] = x]
  BY <1>1
<1> HIDE DEF x
<1>4. UNCHANGED <<release, product, rule, sure>> /\ command[k].pc = "file"
  BY DEF LoadAndValidate
<1>5. Dated(x)
  <2>1. command[k].kind # "none" => command[k].kind \in Kinds /\ command[k].since <= release
    BY DEF Seeded, Dated
  <2>2. \A K \in Kinds : sure[K] <= release
    BY DEF Seeded
  <2> QED BY <1>2, <2>1, <2>2 DEF Dated
<1>6. Sighted(x, rule, product)
  BY <1>2 DEF Sighted
<1>7. Undisturbed(x, rule, product)
  <2>1. Undisturbed(command[k], rule, product)
    BY DEF Seeded
  <2> QED BY <1>2, <1>4, <2>1 DEF Undisturbed
<1> QED BY <1>2, <1>3, <1>4, <1>5, <1>6, <1>7, OnlyCarries

LEMMA ProductKeeps ==
    ASSUME ProductsTypeOK, Seeded, NEW k \in Commands, UpsertProduct(k)
    PROVE  Seeded'
<1> USE CommandTyped
<1> DEFINE d == command[k].code
<1>1. /\ command'[k].pc = "file" /\ command'[k].kind = command[k].kind
      /\ command'[k].todo = command[k].todo /\ command'[k].since = command[k].since
      /\ command'[k].smooth = command[k].smooth
      /\ \A j \in Commands \ {k} : command'[j] = command[j]
  BY EndOfFile DEF UpsertProduct, NextFile, ProductsTypeOK
<1>2. /\ UNCHANGED <<release, rule, sure>>
      /\ command[k].kind = "products" /\ command[k].pc = "row"
  BY DEF UpsertProduct, Runs
<1>3. product'[d].terms = command[k].terms /\ \A c \in Codes \ {d} : product'[c] = product[c]
  BY DEF UpsertProduct, ProductsTypeOK
<1>4. /\ \A c \in Codes : Rows(rule, product', c) = Rows(rule, product, c)
      /\ \A c \in Codes : product[c].id # "none" => product'[c].id = product[c].id
      /\ RowsBelong'
  BY ProductKeepsRows DEF Seeded
<1>5. command[k].terms >= sure["products"] /\ command[k].terms >= command[k].since
  BY <1>2 DEF Seeded, Dated
<1>6. \A c \in Codes, s \in Nat : Judged(rule, product, c, s) => Judged(rule, product', c, s)
  BY <1>4 DEF Judged
<1>7. \A K \in Kinds : sure[K] \in Nat
  BY DEF ProductsTypeOK, Releases
<1>8. JudgedSoFar'
  BY <1>2, <1>3, <1>5, <1>6, <1>7 DEF Seeded, JudgedSoFar, Kinds
<1>9. Alone'
  BY <1>1 DEF Seeded, Alone
<1>10. Dated(command[k])' /\ Sighted(command[k], rule, product)'
  BY <1>1, <1>2 DEF Seeded, Dated, Sighted
<1>11. Undisturbed(command[k], rule, product)'
  <2>1. ASSUME command[k].smooth, NEW c \in Codes \ command[k].todo
        PROVE  product'[c].terms >= command[k].since
    <3>1. CASE c = d
      BY <1>3, <1>5, <3>1
    <3>2. CASE c # d
      BY <1>2, <1>3, <2>1, <3>2 DEF Seeded, Undisturbed
    <3> QED BY <3>1, <3>2
  <2> QED BY <1>1, <1>2, <2>1 DEF Undisturbed
<1>12. ASSUME NEW j \in Commands \ {k}
       PROVE  /\ Dated(command[j])' /\ Sighted(command[j], rule, product)'
              /\ Undisturbed(command[j], rule, product)'
  <2>1. Dated(command[j])'
    BY <1>1, <1>2 DEF Seeded, Dated
  <2>2. Sighted(command[j], rule, product)'
    BY <1>1, <1>2, <1>4 DEF Seeded, Sighted
  <2>3. CASE command[j].kind = "rules" /\ command[j].smooth
    <3>1. Undisturbed(command[j], rule, product)
      BY DEF Seeded
    <3>2. command[j].since \in Nat
      BY DEF Releases
    <3>3. command'[j] = command[j] /\ command[j].kind # "products" /\ command[j].kind # "none"
      BY <1>1, <2>3
    <3>4. ASSUME command[j].pc = "write"
          PROVE  IF command[j].found = 0 THEN Rows(rule, product', command[j].code) = {}
                 ELSE IsFirst(command[j].found, Rows(rule, product', command[j].code))
      BY <1>4, <2>3, <3>1, <3>3, <3>4 DEF Undisturbed
    <3>5. ASSUME NEW c \in Codes \ command[j].todo, command[j].pc = "file" \/ c # command[j].code
          PROVE  Judged(rule, product', c, command[j].since)
      BY <1>6, <2>3, <3>1, <3>2, <3>3, <3>5 DEF Undisturbed
    <3>6. Undisturbed(command[j], rule, product)'
      BY <1>2, <2>3, <3>3, <3>4, <3>5 DEF Undisturbed
    <3> QED BY <2>1, <2>2, <3>6
  <2>4. CASE ~ (command[j].kind = "rules" /\ command[j].smooth)
    <3>1. ~ (command[j].kind # "none" /\ command[j].smooth)
      BY <1>2, <2>4 DEF Seeded, Alone, Kinds
    <3> QED BY <1>1, <2>1, <2>2, <3>1 DEF Undisturbed
  <2> QED BY <1>1, <2>1, <2>2, <2>3, <2>4 DEF Undisturbed
<1>13. \A K \in Kinds : sure'[K] <= release'
  BY <1>2 DEF Seeded
<1> QED BY <1>4, <1>8, <1>9, <1>10, <1>11, <1>12, <1>13 DEF Seeded

LEMMA ResolveKeeps ==
    ASSUME ProductsTypeOK, Seeded, NEW k \in Commands, ResolveProduct(k)
    PROVE  Seeded'
<1> USE CommandTyped
<1> DEFINE d == command[k].code
<1>1. UNCHANGED <<release, product, rule, sure>>
      /\ command[k].kind = "rules" /\ command[k].pc = "row"
  BY DEF ResolveProduct, Runs
<1>2. CASE product[d].id = "none"
  <2>1. FileEnds(k, FALSE)
    BY <1>2 DEF ResolveProduct, SkipFile
  <2>2. Dated(command'[k]) /\ Sighted(command'[k], rule, product)
        /\ Undisturbed(command'[k], rule, product)
    BY <1>1, <2>1, EndOfFile DEF Seeded, Dated, Sighted, Undisturbed
  <2> QED BY <1>1, <2>1, <2>2, EndOfFile, OnlyCarries
<1>3. CASE product[d].id # "none"
  <2> DEFINE x == [command[k] EXCEPT !.pc = "write", !.found = Existing(d)]
  <2>1. x.kind = command[k].kind /\ x.pc = "write" /\ x.code = d /\ x.todo = command[k].todo
        /\ x.terms = command[k].terms /\ x.since = command[k].since /\ x.found = Existing(d)
        /\ x.smooth = command[k].smooth
    BY DEF Command
  <2>2. command' = [command EXCEPT ![k] = x]
    BY <1>3 DEF ResolveProduct
  <2> HIDE DEF x
  <2>3. RowsOf(d) = Rows(rule, product, d)
    BY DEF RowsOf, Rows
  <2>4. IF x.found = 0 THEN Rows(rule, product, d) = {}
        ELSE IsFirst(x.found, Rows(rule, product, d)) /\ x.found \in Rows(rule, product, d)
    BY <2>1, <2>3, ExistingIsFirst DEF IsFirst
  <2>5. Dated(x)
    BY <1>1, <2>1 DEF Seeded, Dated
  <2>6. Sighted(x, rule, product)
    BY <1>1, <1>3, <2>1, <2>4 DEF Sighted
  <2>7. Undisturbed(x, rule, product)
    <3>1. Undisturbed(command[k], rule, product)
      BY DEF Seeded
    <3> QED BY <1>1, <2>1, <2>4, <3>1 DEF Undisturbed
  <2> QED BY <1>1, <2>1, <2>2, <2>5, <2>6, <2>7, OnlyCarries
<1> QED BY <1>2, <1>3

LEMMA RuleKeeps ==
    ASSUME ProductsTypeOK, Seeded, NEW k \in Commands, UpsertRule(k)
    PROVE  Seeded'
<1> USE CommandTyped
<1> DEFINE d == command[k].code
<1>1. /\ command'[k].pc = "file" /\ command'[k].kind = command[k].kind
      /\ command'[k].todo = command[k].todo /\ command'[k].since = command[k].since
      /\ command'[k].smooth = command[k].smooth
      /\ \A j \in Commands \ {k} : command'[j] = command[j]
  BY EndOfFile DEF UpsertRule, NextFile, ProductsTypeOK
<1>2. /\ UNCHANGED <<release, product, sure>> /\ Runs(k, "rules", "write")
      /\ command[k].kind = "rules" /\ command[k].pc = "write"
  BY DEF UpsertRule, Runs
<1>3. PICK i \in RuleIds :
          /\ IF command[k].found # 0 THEN i = command[k].found ELSE rule[i].id = "none"
          /\ rule' = [rule EXCEPT ![i] =
                [code |-> command[k].code, id |-> product[command[k].code].id,
                 terms |-> command[k].terms]]
  BY DEF UpsertRule
<1>4. /\ Rows(rule', product, d) = Rows(rule, product, d) \cup {i}
      /\ \A c \in Codes \ {d} : Rows(rule', product, c) = Rows(rule, product, c)
      /\ \A j \in RuleIds \ {i} : rule'[j] = rule[j]
      /\ rule'[i].terms = command[k].terms
  <2>1. /\ Rows(rule', product, d) = Rows(rule, product, d) \cup {i}
        /\ \A c \in Codes \ {d} : Rows(rule', product, c) = Rows(rule, product, c)
                                 /\ i \notin Rows(rule, product, c)
        /\ \A j \in RuleIds \ {i} : rule'[j] = rule[j]
        /\ rule'[i].terms = command[k].terms
    BY ONLY <1>2, <1>3, RuleJoins, ProductsTypeOK, Seeded, k \in Commands, i \in RuleIds
  <2> QED BY <2>1
<1>5. rule'[i].id = product[d].id /\ rule'[i].code = d
  BY <1>3 DEF ProductsTypeOK
<1>6. \A c \in Codes, s \in Nat : Judged(rule, product, c, s) /\ (c = d => command[k].terms >= s)
                                  => Judged(rule', product, c, s)
  BY <1>2, <1>3, StaysJudged
<1>7. command[k].terms >= sure["rules"] /\ command[k].terms >= command[k].since
      /\ command[k].code \notin command[k].todo
  BY <1>2 DEF Seeded, Dated
<1>8. sure["rules"] \in Nat /\ command[k].since \in Nat
  BY DEF ProductsTypeOK, Releases, Kinds
<1>9. RowsBelong'
  BY <1>2, <1>4, <1>5 DEF Seeded, RowsBelong
<1>10. JudgedSoFar'
  BY <1>2, <1>6, <1>7, <1>8 DEF Seeded, JudgedSoFar
<1>11. Alone'
  BY <1>1 DEF Seeded, Alone
<1>12. Dated(command[k])' /\ Sighted(command[k], rule, product)'
  BY <1>1, <1>2 DEF Seeded, Dated, Sighted
<1>13. ASSUME command[k].smooth, NEW c \in Codes \ command[k].todo
       PROVE  Judged(rule', product, c, command[k].since)
  <2>1. Undisturbed(command[k], rule, product)
    BY DEF Seeded
  <2>2. CASE c # d
    <3>1. Judged(rule, product, c, command[k].since)
      BY <1>2, <1>13, <2>1, <2>2 DEF Undisturbed
    <3> QED BY <1>6, <1>8, <2>2, <3>1
  <2>3. CASE c = d
    <3>1. Rows(rule', product, d) \subseteq RuleIds
      BY DEF Rows
    <3>2. IsFirst(i, Rows(rule', product, d))
      <4>1. CASE command[k].found = 0
        <5>1. Rows(rule', product, d) = {i}
          BY <1>2, <1>4, <1>13, <2>1, <4>1 DEF Undisturbed
        <5>2. i \in Nat
          BY ProductsAssumption
        <5> QED BY <5>1, <5>2 DEF IsFirst
      <4>2. CASE command[k].found # 0
        <5>1. i = command[k].found /\ IsFirst(i, Rows(rule, product, d))
          BY <1>2, <1>3, <1>13, <2>1, <4>2 DEF Undisturbed
        <5>2. Rows(rule', product, d) = Rows(rule, product, d)
          BY <1>4, <5>1 DEF IsFirst
        <5> QED BY <5>1, <5>2
      <4> QED BY <4>1, <4>2
    <3> QED BY <1>4, <1>7, <2>3, <3>2 DEF Judged
  <2> QED BY <2>2, <2>3
<1>14. Undisturbed(command[k], rule, product)'
  BY <1>1, <1>2, <1>13 DEF Undisturbed
<1>15. ASSUME NEW j \in Commands \ {k}
       PROVE  /\ Dated(command[j])' /\ Sighted(command[j], rule, product)'
              /\ Undisturbed(command[j], rule, product)'
  <2>1. Dated(command[j])'
    BY <1>1, <1>2 DEF Seeded, Dated
  <2>2. Sighted(command[j], rule, product)'
    <3>1. Sighted(command[j], rule, product) /\ command[j].code \in Codes
      BY DEF Seeded
    <3>2. Rows(rule, product, command[j].code) \subseteq Rows(rule', product, command[j].code)
      BY <1>4, <3>1
    <3> QED BY <1>1, <1>2, <3>1, <3>2 DEF Sighted
  <2>3. Undisturbed(command[j], rule, product)'
    <3>1. command[j].kind # "none" /\ command[j].smooth =>
              command[j].kind = "products" /\ command[j].pc # "write"
      BY <1>2 DEF Seeded, Alone, Sighted, Kinds
    <3>2. Undisturbed(command[j], rule, product)
      BY DEF Seeded
    <3> QED BY <1>1, <1>2, <3>1, <3>2 DEF Undisturbed
  <2> QED BY <2>1, <2>2, <2>3
<1>16. \A K \in Kinds : sure'[K] <= release'
  BY <1>2 DEF Seeded
<1> QED BY <1>9, <1>10, <1>11, <1>12, <1>14, <1>15, <1>16 DEF Seeded

\* A command that has ended claims nothing.
LEMMA NothingCarried ==
    /\ Dated(NoCommand) /\ Sighted(NoCommand, rule, product)
    /\ Undisturbed(NoCommand, rule, product) /\ NoCommand.kind = "none"
  BY DEF NoCommand, Dated, Sighted, Undisturbed

LEMMA DoneKeeps ==
    ASSUME ProductsTypeOK, Seeded, NEW k \in Commands, Done(k)
    PROVE  Seeded'
<1> USE CommandTyped
<1>1. /\ UNCHANGED <<release, product, rule>>
      /\ command[k].kind \in Kinds /\ command[k].pc = "file" /\ command[k].todo = {}
      /\ command' = [command EXCEPT ![k] = NoCommand]
  BY DEF Done
<1>2. CASE ~ command[k].smooth
  <2>1. sure' = sure
    BY <1>2 DEF Done
  <2> QED BY <1>1, <2>1, NothingCarried, OnlyCarries
<1>3. CASE command[k].smooth
  <2> DEFINE K == command[k].kind
  <2>1. sure' = [sure EXCEPT ![K] = command[k].since]
    BY <1>3 DEF Done
  <2>2. sure'[K] = command[k].since /\ \A L \in Kinds \ {K} : sure'[L] = sure[L]
    BY <1>1, <2>1 DEF ProductsTypeOK
  <2>3. command'[k] = NoCommand /\ \A j \in Commands \ {k} : command'[j] = command[j]
    BY <1>1 DEF ProductsTypeOK
  <2>4. RowsBelong'
    BY <1>1 DEF Seeded, RowsBelong
  <2>5. Undisturbed(command[k], rule, product) /\ command[k].since <= release
    BY <1>1 DEF Seeded, Dated, Kinds
  <2>6. \A c \in Codes : IF K = "products" THEN product[c].terms >= command[k].since
                         ELSE Judged(rule, product, c, command[k].since)
    BY <1>1, <1>3, <2>5 DEF Undisturbed, Kinds
  <2>7. JudgedSoFar'
    BY <1>1, <2>2, <2>6 DEF Seeded, JudgedSoFar, Kinds
  <2>8. Alone'
    BY <2>3, NothingCarried DEF Seeded, Alone
  <2>9. \A L \in Kinds : sure'[L] <= release'
    BY <1>1, <2>2, <2>5 DEF Seeded
  <2>10. ASSUME NEW j \in Commands
         PROVE  /\ Dated(command[j])' /\ Sighted(command[j], rule, product)'
                /\ Undisturbed(command[j], rule, product)'
    <3>1. CASE j = k
      BY <2>3, <3>1, NothingCarried DEF Dated, Sighted, Undisturbed
    <3>2. CASE j # k
      <4>1. command[j].kind # "none" => command[j].kind \in Kinds \ {K}
        BY <1>1, <1>3, <3>2 DEF Seeded, Alone
      <4>2. Dated(command[j])'
        BY <1>1, <2>2, <2>3, <3>2, <4>1 DEF Seeded, Dated
      <4>3. Sighted(command[j], rule, product)' /\ Undisturbed(command[j], rule, product)'
        BY <1>1, <2>3, <3>2 DEF Seeded, Sighted, Undisturbed
      <4> QED BY <4>2, <4>3
    <3> QED BY <3>1, <3>2
  <2> QED BY <2>4, <2>7, <2>8, <2>9, <2>10 DEF Seeded
<1> QED BY <1>2, <1>3

LEMMA SoundSeedsKept ==
    ASSUME SoundSeeds, [NextProducts]_productVars
    PROVE  SoundSeeds'
<1>1. ProductsTypeOK /\ Seeded
  BY DEF SoundSeeds
<1>2. CASE NextProducts
  <2>1. ASSUME NEW k \in Commands, StatementSkips(k)
        PROVE  Seeded'
    <3>1. FileEnds(k, FALSE) /\ UNCHANGED <<release, product, rule, sure>>
      BY <2>1 DEF StatementSkips, SkipFile
    <3>2. Dated(command'[k]) /\ Sighted(command'[k], rule, product)
          /\ Undisturbed(command'[k], rule, product)
      BY <1>1, <3>1, EndOfFile DEF Seeded, Dated, Sighted, Undisturbed
    <3> QED BY <1>1, <3>1, <3>2, EndOfFile, OnlyCarries
  <2>2. ASSUME NEW k \in Commands, Interrupted(k)
        PROVE  Seeded'
    BY <1>1, <2>2, NothingCarried, OnlyCarries DEF Interrupted
  <2>3. Seeded'
    BY <1>1, <1>2, <2>1, <2>2, ReleaseKeeps, StartKeeps, FileKeeps, ProductKeeps, ResolveKeeps,
       RuleKeeps, DoneKeeps DEF NextProducts, Seeds
  <2> QED BY <1>1, <1>2, <2>3, SeedTypes DEF SoundSeeds
<1>3. CASE UNCHANGED productVars
  <2>1. ProductsTypeOK'
    BY <1>1, <1>3 DEF ProductsTypeOK, productVars
  <2>2. Seeded'
    BY <1>1, <1>3 DEF productVars, Seeded, RowsBelong, JudgedSoFar, Alone, Dated, Sighted, Undisturbed
  <2> QED BY <2>1, <2>2 DEF SoundSeeds
<1> QED BY <1>2, <1>3

LEMMA SeedsStartSound ==
    ASSUME InitProducts
    PROVE  SoundSeeds
<1>1. 0 \in Releases /\ AnyCode \in Codes
  BY ProductsAssumption DEF Releases, AnyCode
<1>2. ProductsTypeOK
  BY <1>1, ProductsAssumption, NoCommandTyped
     DEF InitProducts, ProductsTypeOK, Product, Rule, ProductIds
<1>3. \A k \in Commands : command[k] = NoCommand
  BY DEF InitProducts
<1>4. Alone /\ RowsBelong
  BY <1>3, NothingCarried DEF InitProducts, Alone, RowsBelong
<1>5. JudgedSoFar
  BY DEF InitProducts, JudgedSoFar, Kinds
<1>6. \A kind \in Kinds : sure[kind] <= release
  BY DEF InitProducts
<1> QED BY <1>2, <1>3, <1>4, <1>5, <1>6, NothingCarried DEF SoundSeeds, Seeded

-----------------------------------------------------------------------------
(* The theorems *)

\* The inductive invariant: a rule belongs to a product that keeps its id, a command
\* carries terms no older than what is sure, and a smooth command is the only one of
\* its kind and has left its terms where loan applications read them.
THEOREM SoundSeedsAlways == SpecProducts => []SoundSeeds
<1>1. InitProducts => SoundSeeds
  BY SeedsStartSound
<1>2. SoundSeeds /\ [NextProducts]_productVars => SoundSeeds'
  BY SoundSeedsKept
<1> QED BY <1>1, <1>2, PTL DEF SpecProducts

\* Once a seed command has gone through its files smoothly, loan applications are
\* judged by terms of that release or later (repository.go, GetRuleByProductID), however
\* many commands overlapped, failed or came in the wrong order.
THEOREM JudgedAsSeededAlways == SpecProducts => []JudgedAsSeeded
<1>1. SoundSeeds => JudgedAsSeeded
  <2> SUFFICES ASSUME SoundSeeds, NEW c \in Codes
               PROVE  /\ product[c].terms >= sure["products"]
                      /\ sure["rules"] > 0 =>
                            \E i \in Applicable(c) : rule[i].terms >= sure["rules"]
    BY DEF JudgedAsSeeded
  <2>1. JudgedSoFar /\ RowsBelong
    BY DEF SoundSeeds, Seeded
  <2>2. ASSUME NEW i \in RuleIds, IsFirst(i, Rows(rule, product, c))
        PROVE  i \in Applicable(c)
    <3>1. rule[i].id # "none" /\ rule[i].code = c /\ rule[i].id = product[c].id
      BY <2>2 DEF IsFirst, Rows
    <3>2. \A j \in RuleIds : rule[j].id = rule[i].id /\ rule[j].code = c => i <= j
      BY <2>2, <3>1 DEF IsFirst, Rows
    <3> QED BY <3>1, <3>2 DEF Applicable
  <2> QED BY <2>1, <2>2 DEF JudgedSoFar, Judged
<1> QED BY <1>1, SoundSeedsAlways, PTL

===============================================================================
