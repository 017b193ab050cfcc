---------------------------- MODULE SchemaMigration ----------------------------
(***************************************************************************)
(* Migrate (internal/database/database.go), which every start of the       *)
(* notification API and of the repayment sweep runs, and every start of    *)
(* the API with RUN_MIGRATIONS=true; the others serve at once.  Processes  *)
(* start together, crash and are restarted, and users keep changing their  *)
(* data through those that serve.                                          *)
(*                                                                         *)
(* A statement is one action: db.Exec commits each DO block on its own.    *)
(* Two processes in the same block may make one of them fail (the other    *)
(* has moved the column or added the constraint between its look and its   *)
(* change); that is one of the MaxFaults crashes.                          *)
(*                                                                         *)
(* Left out: indexes that reject nothing, columns with a default, and what *)
(* AutoMigrate does but for the new columns, the NOT NULL of the PIN and   *)
(* the unique e-mail.                                                      *)
(***************************************************************************)
EXTENDS Naturals, Sequences, FiniteSets

CONSTANTS
    Processes,     \* replicas of the three programs
    Unprepared,    \* replicas of the API without RUN_MIGRATIONS
    Users,
    MaxFaults

ASSUME ProcessesAssumption == Unprepared \subseteq Processes /\ MaxFaults \in Nat

VARIABLES
    pc,          \* 0: not running; i: before the i-th statement; Serving
    table,       \* of the tables that Migrate takes for granted, those that exist
    column,      \* which of the two columns of a setting wallet_users has
    constraint,  \* keys and unique indexes in force
    broken,      \* those that some rows contradict
    row,         \* what a user's two columns of a setting hold
    contact,     \* a user's e-mail and address
    latest,      \* history: the user's own last choice of a setting
    faults

vars == <<pc, table, column, constraint, broken, row, contact, latest, faults>>

\* Each was moved once, to pin_hash, is_notifications_enabled and password_hash.
Settings == {"pin", "notifications", "password"}
Setting == [old : {"none", "old"}, new : {"none", "old", "new"}]
Texts == {"street", "road"}
Contact == [email : {"none", "mail"} \cup Texts, address : {"none", "mail"} \cup Texts]
\* The e-mail is unique (NULLs are no conflict).
Distinct(contacts) ==
    \A u, v \in Users : u # v => contacts[u].email # contacts[v].email \/ contacts[u].email = "none"

Linked == {"push_tokens_user", "notifications_user", "tickets_notification"}
Unique == {"jobs_phone_open", "challenges_active", "transfers_reference", "attempts_success"}
\* Keys whose block deletes the rows without a user first.
Owned == {"sessions_user", "devices_user", "challenges_user", "pending_user"}
Constraints == Linked \cup Unique \cup Owned \cup {"face_checks_record"}

Statements == <<
    "rename_pin", "contacts", "notifications", "password", "pin_hash",
    "provider_reference", "tables",
    "push_tokens_user", "notifications_user", "tickets_notification",
    "jobs_phone_open", "challenges_active", "transfers_reference", "attempts_success",
    "face_checks_record",
    "sessions_user", "devices_user", "challenges_user", "pending_user">>
Serving == Len(Statements) + 1

TypeOK ==
    /\ pc \in [Processes -> 0..Serving]
    /\ table \subseteq {"users", "transfers"}
    /\ column \in [Settings -> SUBSET {"old", "new"}]
    /\ constraint \subseteq Constraints \cup {"provider_reference", "users_email"}
    /\ broken \subseteq Constraints
    /\ row \in [Users -> [Settings -> Setting]]
    /\ contact \in [Users -> Contact]
    /\ latest \in [Users -> [Settings -> {"none", "old", "new"}]]
    /\ faults \in 0..MaxFaults

\* What the code of today goes by, once the old column has been copied where
\* the new one is empty.
Effective(s) == IF s.new # "none" THEN s.new ELSE s.old

\* Values of an earlier version: either column may be missing, and the new one is
\* empty for a user who has not touched the setting since; so may be both.
Earlier(columns) ==
    {s \in Setting : /\ s.new # "old"
                     /\ s.old # "none" => "old" \in columns
                     /\ s.new # "none" => "new" \in columns}

\* A database of an earlier version, any of whose columns may be missing, and whose
\* users' addresses the profile page may have stored as their e-mail; or one
\* without users.  After a restore, sessions and tokens of users that are gone.
Init ==
    /\ pc = [p \in Processes |-> 0]
    /\ table \in SUBSET {"users", "transfers"}
    /\ column \in [Settings -> SUBSET {"old", "new"}]
    /\ constraint \in {{}, {"users_email"}, {"provider_reference", "users_email"},
                       Constraints \cup {"users_email"}}
    /\ broken \in SUBSET ({"push_tokens_user", "sessions_user"} \ constraint)
    /\ "users" \notin table => /\ column = [s \in Settings |-> {}]
                              /\ constraint = {}
    /\ row \in [Users -> [Settings -> Setting]]
    /\ \A u \in Users, s \in Settings : row[u][s] \in Earlier(column[s])
    /\ contact \in [Users -> Contact]
    /\ "users_email" \in constraint => Distinct(contact)
    /\ latest = [u \in Users |-> [s \in Settings |-> Effective(row[u][s])]]
    /\ faults = 0

At(p, s) == pc[p] \in DOMAIN Statements /\ Statements[pc[p]] = s
Proceed(p) == pc' = [pc EXCEPT ![p] = @ + 1]

-----------------------------------------------------------------------------
(* Migrate *)

RenamePin(p) ==
    /\ At(p, "rename_pin")
    /\ Proceed(p)
    /\ IF column["pin"] = {"old"}
       THEN /\ column' = [column EXCEPT !["pin"] = {"new"}]
            /\ row' = [u \in Users |->
                  [row[u] EXCEPT !["pin"] = [old |-> "none", new |-> @.old]]]
       ELSE UNCHANGED <<column, row>>
    /\ UNCHANGED <<table, constraint, broken, contact, latest, faults>>

\* Mutant: an empty e-mail looks swapped, too.
LooksSwappedIfEmpty(c) == c.email # "mail" /\ c.address # "none"
\* The e-mail has no @ and is not empty, the address is not empty.
LooksSwapped(c) == c.email \in Texts /\ c.address # "none"

Swapped(c) == IF LooksSwapped(c) THEN [email |-> c.address, address |-> c.email] ELSE c

\* The UPDATE goes through if it can rewrite the users one by one, each when no
\* other has the new e-mail any more or already.
SwapFits ==
    /\ Distinct([u \in Users |-> Swapped(contact[u])])
    /\ \E place \in [Users -> 1..Cardinality(Users)] :
          \A u, v \in Users :
             u # v /\ LooksSwapped(contact[u]) /\ contact[u].address = contact[v].email
                => place[v] < place[u]

\* In another order it fails, if it can at all.
SwapClashes ==
    \E u, v \in Users :
        /\ u # v /\ LooksSwapped(contact[u])
        /\ contact[u].address \in {contact[v].email, Swapped(contact[v]).email}

\* On every start.
SwapContacts(p) ==
    /\ At(p, "contacts") /\ "users" \in table
    /\ "users_email" \in constraint => SwapFits
    /\ Proceed(p)
    /\ contact' = [u \in Users |-> Swapped(contact[u])]
    /\ UNCHANGED <<table, column, constraint, broken, row, latest, faults>>

\* Mutant: every old value is copied.
OverNew(s) == IF s.old # "none" THEN s.old ELSE s.new
\* An old value is copied where the new column is empty.
Copied(s) == IF s.new = "none" THEN s.old ELSE s.new

\* Copy, then drop, in one block; without the new column the block fails.
CopyColumn(p, s) ==
    /\ At(p, s)
    /\ Proceed(p)
    /\ IF "old" \in column[s]
       THEN /\ "new" \in column[s]
            /\ row' = [u \in Users |->
                  [row[u] EXCEPT ![s] = [old |-> "none", new |-> Copied(@)]]]
            /\ column' = [column EXCEPT ![s] = {"new"}]
       ELSE UNCHANGED <<row, column>>
    /\ UNCHANGED <<table, constraint, broken, contact, latest, faults>>

\* The new PIN column is added before AutoMigrate asks for one without NULLs.
AddPinHash(p) ==
    /\ At(p, "pin_hash")
    /\ Proceed(p)
    /\ column' = IF "users" \in table THEN [column EXCEPT !["pin"] = @ \cup {"new"}] ELSE column
    /\ UNCHANGED <<table, constraint, broken, row, contact, latest, faults>>

DropReferenceIndex(p) ==
    /\ At(p, "provider_reference")
    /\ Proceed(p)
    /\ constraint' = constraint \ {"provider_reference"}
    /\ UNCHANGED <<table, column, broken, row, contact, latest, faults>>

HasPin(u) == row[u]["pin"].new # "none"

\* AutoMigrate adds what the models have and the database has not; no model is
\* stored in wallet_transfers.  The PIN must not be NULL, the e-mail unique.
AutoMigrate(p) ==
    /\ At(p, "tables")
    /\ "users" \in table => Distinct(contact) /\ \A u \in Users : HasPin(u)
    /\ Proceed(p)
    /\ table' = table \cup {"users"}
    /\ column' = [s \in Settings |-> column[s] \cup {"new"}]
    /\ constraint' = constraint \cup {"users_email"}
    /\ UNCHANGED <<broken, row, contact, latest, faults>>

\* Mutant: the error is logged and the start goes on.
AddOrGoOn(p, c) ==
    /\ At(p, c)
    /\ Proceed(p)
    /\ constraint' = constraint \cup ({c} \ broken)
    /\ UNCHANGED <<table, column, row, contact, latest, faults>>
\* A constraint that rows contradict cannot be added; one in force is skipped.
Add(p, c) ==
    /\ At(p, c) /\ c \notin broken
    /\ Proceed(p)
    /\ constraint' = constraint \cup {c}
    /\ UNCHANGED <<table, column, row, contact, latest, faults>>

LinkNotifications(p) ==
    \E c \in Linked : Add(p, c) /\ UNCHANGED broken
IndexUnique(p) ==
    \E c \in Unique :
        /\ c = "transfers_reference" => "transfers" \in table
        /\ Add(p, c) /\ UNCHANGED broken
LinkFaceChecks(p) == Add(p, "face_checks_record") /\ UNCHANGED broken

\* Mutant: the rows without a user stay.
LinkOwnedAsIs(p) == \E c \in Owned : Add(p, c) /\ UNCHANGED broken
\* The rows without a user are deleted in the block that adds the key.
LinkOwned(p) ==
    \E c \in Owned :
        /\ At(p, c)
        /\ Proceed(p)
        /\ broken' = broken \ {c}
        /\ constraint' = constraint \cup {c}
        /\ UNCHANGED <<table, column, row, contact, latest, faults>>

Statement(p) ==
    \/ RenamePin(p) \/ SwapContacts(p)
    \/ CopyColumn(p, "notifications") \/ CopyColumn(p, "password")
    \/ AddPinHash(p) \/ DropReferenceIndex(p) \/ AutoMigrate(p)
    \/ LinkNotifications(p) \/ IndexUnique(p) \/ LinkFaceChecks(p) \/ LinkOwned(p)

-----------------------------------------------------------------------------
(* Processes *)

Start(p) ==
    /\ pc[p] = 0
    /\ pc' = [pc EXCEPT ![p] = IF p \in Unprepared THEN Serving ELSE 1]
    /\ UNCHANGED <<table, column, constraint, broken, row, contact, latest, faults>>

\* The error ends the program.
StatementFails(p) ==
    /\ pc[p] \in DOMAIN Statements
    /\ \/ At(p, "contacts") /\ "users" \notin table
       \/ At(p, "contacts") /\ "users_email" \in constraint /\ SwapClashes
       \/ At(p, "tables") /\ "users" \in table /\ ~(Distinct(contact) /\ \A u \in Users : HasPin(u))
       \/ \E s \in {"notifications", "password"} : At(p, s) /\ column[s] = {"old"}
       \/ Statements[pc[p]] \in broken \ Owned
       \/ At(p, "transfers_reference") /\ "transfers" \notin table
    /\ pc' = [pc EXCEPT ![p] = 0]
    /\ UNCHANGED <<table, column, constraint, broken, row, contact, latest, faults>>

Crash(p) ==
    /\ pc[p] # 0 /\ faults < MaxFaults
    /\ faults' = faults + 1
    /\ pc' = [pc EXCEPT ![p] = 0]
    /\ UNCHANGED <<table, column, constraint, broken, row, contact, latest>>

-----------------------------------------------------------------------------
(* What is done through a process that serves *)

Online == \E p \in Processes : pc[p] = Serving

\* UpdateUserPin, UpdateUserPassword, TogglePushNotifications; an update of a
\* NULL password or a toggle of a NULL switch changes nothing.
ChangeSetting(u, s) ==
    /\ Online /\ "new" \in column[s]
    /\ s = "pin" \/ row[u][s].new # "none"
    /\ row' = [row EXCEPT ![u][s].new = "new"]
    /\ latest' = [latest EXCEPT ![u][s] = "new"]
    /\ UNCHANGED <<pc, table, column, constraint, broken, contact, faults>>

\* An e-mail is one, by its binding, and nobody else's; an address is text.
UpdateProfile(u) ==
    /\ Online /\ "users" \in table
    /\ \E email \in {contact[u].email, "mail"}, address \in {contact[u].address, "road"} :
          contact' = [contact EXCEPT ![u] = [email |-> email, address |-> address]]
    /\ "users_email" \in constraint => Distinct(contact')
    /\ UNCHANGED <<pc, table, column, constraint, broken, row, latest, faults>>

\* Two first registrations of one phone each find no open job and create one;
\* only the index keeps them apart.
OpenTwo ==
    /\ Online /\ "jobs_phone_open" \notin constraint
    /\ broken' = broken \cup {"jobs_phone_open"}
    /\ UNCHANGED <<pc, table, column, constraint, row, contact, latest, faults>>
\* One of the two is completed or failed.
CloseOne ==
    /\ Online /\ "jobs_phone_open" \in broken
    /\ broken' = broken \ {"jobs_phone_open"}
    /\ UNCHANGED <<pc, table, column, constraint, row, contact, latest, faults>>

Next ==
    \/ \E p \in Processes : Start(p) \/ Statement(p) \/ StatementFails(p) \/ Crash(p)
    \/ \E u \in Users : UpdateProfile(u) \/ \E s \in Settings : ChangeSetting(u, s)
    \/ OpenTwo \/ CloseOne

\* Whoever runs the processes restarts them; a statement ends.
Fairness ==
    \A p \in Processes : WF_vars(Start(p)) /\ WF_vars(Statement(p) \/ StatementFails(p))

Spec == Init /\ [][Next]_vars /\ Fairness

-----------------------------------------------------------------------------
(* What must hold *)

Migrated(p) == p \notin Unprepared /\ pc[p] = Serving

\* No start, crash or race of starts loses a PIN, a password or a notification
\* setting, or brings back one the user has replaced since (RenamePin, CopyColumn).
SettingsKept ==
    \A u \in Users, s \in Settings : Effective(row[u][s]) = latest[u][s]

\* A process that has run Migrate serves only with every key and index in force,
\* and the columns it reads hold each user's own last choice, whatever other
\* processes start, crash or write.
ServesMigrated ==
    (\E p \in Processes : Migrated(p)) =>
        /\ constraint = Constraints \cup {"users_email"} /\ broken = {}
        /\ \A s \in Settings : /\ "new" \in column[s]
                               /\ \A u \in Users : row[u][s].new = latest[u][s]

\* Once a process has migrated and serves, later starts change no user's data:
\* what Migrate repairs stays repaired.  A user with text in both places is the
\* exception, whom each start swaps again.
RestartsChangeNothing ==
    [][(\E p \in Processes : Migrated(p)) /\ pc' # pc =>
          /\ row' = row
          /\ \A u \in Users :
                {contact[u].email, contact[u].address} \subseteq Texts \/ contact'[u] = contact[u]]_vars

\* Every process serves in the end, if the database has the two tables and the new
\* columns that Migrate takes for granted, and if from some time on no rows
\* contradict a key or the unique e-mail, before and after the swap, and every
\* user has a PIN.
Upgradable ==
    /\ table = {"users", "transfers"}
    /\ \A s \in {"notifications", "password"} : column[s] # {"old"}
Repairable ==
    /\ broken \subseteq Owned
    /\ ~SwapClashes /\ Distinct(contact)
    /\ \A u \in Users : HasPin(u) \/ (column["pin"] = {"old"} /\ row[u]["pin"].old # "none")
EveryoneServes ==
    Upgradable /\ <>[]Repairable => <>[](\A p \in Processes : pc[p] = Serving)
=============================================================================
