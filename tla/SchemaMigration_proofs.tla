------------------------ MODULE SchemaMigration_proofs ------------------------
(***************************************************************************)
(* Proofs about SchemaMigration, for any number of processes and users and *)
(* whatever crashes: no setting is lost, a process that has migrated       *)
(* serves a database with every key, index and column in place, and later  *)
(* starts change nothing.                                                  *)
(***************************************************************************)
EXTENDS SchemaMigration, TLAPS

\* A column that is not there holds nothing.
NothingInNoColumn ==
    \A u \in Users, s \in Settings :
        /\ "new" \notin column[s] => row[u][s].new = "none"
        /\ "old" \notin column[s] => row[u][s].old = "none"

\* What process p has done stays done, also while others run the same statements.
Reached(p) ==
    /\ pc[p] > 2 => "users" \in table
    /\ pc[p] > 3 => "old" \notin column["notifications"]
    /\ pc[p] > 4 => "old" \notin column["password"]
    /\ pc[p] > 6 => "provider_reference" \notin constraint
    /\ pc[p] > 7 => /\ \A s \in Settings : "new" \in column[s]
                    /\ \A u \in Users : HasPin(u)
                    /\ "users_email" \in constraint
    /\ \A i \in 8..19 : pc[p] > i => Statements[i] \in constraint

InOrder ==
    /\ \A p \in Processes \ Unprepared : Reached(p)
    /\ \A p \in Unprepared : pc[p] \in {0, 20}
    /\ constraint \cap broken = {}

\* A user with text in both places looks swapped however often they are swapped.
Settled(c) == LooksSwapped(c) => {c.email, c.address} \subseteq Texts

ContactsSettled ==
    (\E p \in Processes \ Unprepared : pc[p] > 2) => \A u \in Users : Settled(contact[u])

Sound == TypeOK /\ NothingInNoColumn /\ SettingsKept /\ InOrder /\ ContactsSettled

-----------------------------------------------------------------------------
(* The statements *)

\* Where each statement stands in Migrate.
LEMMA Positions ==
    /\ DOMAIN Statements = 1..19 /\ Serving = 20
    /\ \A p :
        /\ At(p, "rename_pin") => pc[p] = 1
        /\ At(p, "contacts") => pc[p] = 2
        /\ At(p, "notifications") => pc[p] = 3
        /\ At(p, "password") => pc[p] = 4
        /\ At(p, "pin_hash") => pc[p] = 5
        /\ At(p, "provider_reference") => pc[p] = 6
        /\ At(p, "tables") => pc[p] = 7
  BY DEF Serving, At, Statements

\* The last twelve add the keys and indexes.
LEMMA ConstraintPositions ==
    /\ Constraints = {Statements[i] : i \in 8..19}
    /\ \A c \in Constraints : \A p : At(p, c) => pc[p] \in 8..19 /\ c = Statements[pc[p]]
<1>1. Constraints = {Statements[i] : i \in 8..19}
  BY DEF Constraints, Linked, Unique, Owned, Statements
<1>2. ASSUME NEW c \in Constraints, NEW p, At(p, c)
      PROVE  pc[p] \in 8..19 /\ c = Statements[pc[p]]
  BY <1>2, Positions DEF At, Constraints, Linked, Unique, Owned, Statements
<1> QED BY <1>1, <1>2

-----------------------------------------------------------------------------
(* Types *)

\* A statement that goes through leaves p at the next one.
LEMMA Proceeds ==
    ASSUME TypeOK, NEW p \in Processes, pc[p] \in 1..19, Proceed(p)
    PROVE  pc' \in [Processes -> 0..Serving]
  BY Positions DEF TypeOK, Proceed

LEMMA TypeKept ==
    ASSUME TypeOK, Next
    PROVE  TypeOK'
<1> USE Positions
<1>1. ASSUME NEW p \in Processes, Start(p) \/ StatementFails(p) \/ Crash(p)
      PROVE  TypeOK'
  <2>1. pc' \in [Processes -> 0..Serving]
    BY <1>1 DEF TypeOK, Start, StatementFails, Crash
  <2>2. faults' \in 0..MaxFaults
    BY <1>1, ProcessesAssumption DEF TypeOK, Start, StatementFails, Crash
  <2> QED BY <1>1, <2>1, <2>2 DEF TypeOK, Start, StatementFails, Crash
<1>2. ASSUME NEW p \in Processes, RenamePin(p) \/ SwapContacts(p)
      PROVE  TypeOK'
  <2>1. pc' \in [Processes -> 0..Serving]
    BY <1>2, Proceeds DEF RenamePin, SwapContacts
  <2>2. row' \in [Users -> [Settings -> Setting]]
    <3>1. ASSUME NEW u \in Users
          PROVE  [row[u] EXCEPT !["pin"] = [old |-> "none", new |-> row[u]["pin"].old]]
                     \in [Settings -> Setting]
      BY DEF TypeOK, Settings, Setting
    <3> QED BY <1>2, <3>1 DEF TypeOK, RenamePin, SwapContacts
  <2>3. column' \in [Settings -> SUBSET {"old", "new"}]
    <3>1. CASE RenamePin(p)
      <4>1. column' = column \/ column' = [column EXCEPT !["pin"] = {"new"}]
        BY <3>1 DEF RenamePin
      <4> QED BY <4>1 DEF TypeOK
    <3>2. CASE SwapContacts(p)
      BY <3>2 DEF TypeOK, SwapContacts
    <3> QED BY <1>2, <3>1, <3>2
  <2>4. contact' \in [Users -> Contact]
    BY <1>2 DEF TypeOK, RenamePin, SwapContacts, Swapped, Contact
  <2> QED BY <1>2, <2>1, <2>2, <2>3, <2>4 DEF TypeOK, RenamePin, SwapContacts
<1>3. ASSUME NEW p \in Processes, NEW s \in {"notifications", "password"}, CopyColumn(p, s)
      PROVE  TypeOK'
  <2>1. pc' \in [Processes -> 0..Serving]
    BY <1>3, Proceeds DEF CopyColumn
  <2>2. row' \in [Users -> [Settings -> Setting]]
    <3>1. ASSUME NEW u \in Users
          PROVE  [row[u] EXCEPT ![s] = [old |-> "none", new |-> Copied(row[u][s])]]
                     \in [Settings -> Setting]
      BY DEF TypeOK, Settings, Setting, Copied
    <3> QED BY <1>3, <3>1 DEF TypeOK, CopyColumn
  <2>3. column' \in [Settings -> SUBSET {"old", "new"}]
    BY <1>3 DEF TypeOK, CopyColumn
  <2> QED BY <1>3, <2>1, <2>2, <2>3 DEF TypeOK, CopyColumn
<1>4. ASSUME NEW p \in Processes, AddPinHash(p) \/ DropReferenceIndex(p) \/ AutoMigrate(p)
      PROVE  TypeOK'
  <2>1. pc' \in [Processes -> 0..Serving]
    BY <1>4, Proceeds DEF AddPinHash, DropReferenceIndex, AutoMigrate
  <2>2. column' \in [Settings -> SUBSET {"old", "new"}]
    BY <1>4 DEF TypeOK, AddPinHash, DropReferenceIndex, AutoMigrate
  <2>3. table' \subseteq {"users", "transfers"} /\ constraint' \subseteq Constraints \cup {"provider_reference", "users_email"}
    BY <1>4 DEF TypeOK, AddPinHash, DropReferenceIndex, AutoMigrate
  <2> QED BY <1>4, <2>1, <2>2, <2>3 DEF TypeOK, AddPinHash, DropReferenceIndex, AutoMigrate
<1>5. ASSUME NEW p \in Processes,
             LinkNotifications(p) \/ IndexUnique(p) \/ LinkFaceChecks(p) \/ LinkOwned(p)
      PROVE  TypeOK'
  <2>1. PICK c \in Constraints : /\ At(p, c) /\ Proceed(p)
                                 /\ constraint' = constraint \cup {c}
                                 /\ broken' \subseteq broken
                                 /\ UNCHANGED <<table, column, row, contact, latest, faults>>
    BY <1>5 DEF LinkNotifications, IndexUnique, LinkFaceChecks, LinkOwned, Add, Constraints
  <2>2. pc' \in [Processes -> 0..Serving]
    BY <2>1, Proceeds, ConstraintPositions
  <2> QED BY <2>1, <2>2 DEF TypeOK
<1>6. ASSUME NEW u \in Users, NEW s \in Settings, ChangeSetting(u, s)
      PROVE  TypeOK'
  <2>1. row' \in [Users -> [Settings -> Setting]]
    <3>0. row[u][s] \in Setting
      BY DEF TypeOK
    <3>1. [row[u][s] EXCEPT !.new = "new"] \in Setting
      BY <3>0 DEF Setting
    <3>2. [row[u] EXCEPT ![s] = [@ EXCEPT !.new = "new"]] \in [Settings -> Setting]
      BY <3>1 DEF TypeOK
    <3> QED BY <1>6, <3>2 DEF TypeOK, ChangeSetting
  <2>2. latest' \in [Users -> [Settings -> {"none", "old", "new"}]]
    BY <1>6 DEF TypeOK, ChangeSetting
  <2> QED BY <1>6, <2>1, <2>2 DEF TypeOK, ChangeSetting
<1>7. ASSUME NEW u \in Users, UpdateProfile(u)
      PROVE  TypeOK'
  <2>1. PICK email \in {contact[u].email, "mail"}, address \in {contact[u].address, "road"} :
           contact' = [contact EXCEPT ![u] = [email |-> email, address |-> address]]
    BY <1>7 DEF UpdateProfile
  <2>2. contact[u] \in Contact
    BY DEF TypeOK
  <2>3. [email |-> email, address |-> address] \in Contact
    BY <2>1, <2>2 DEF Contact, Texts
  <2>4. contact' \in [Users -> Contact]
    BY <2>1, <2>3 DEF TypeOK
  <2> QED BY <1>7, <2>4 DEF TypeOK, UpdateProfile
<1>8. CASE OpenTwo \/ CloseOne
  BY <1>8 DEF TypeOK, OpenTwo, CloseOne, Constraints, Unique
<1> QED BY <1>1, <1>2, <1>3, <1>4, <1>5, <1>6, <1>7, <1>8 DEF Next, Statement

-----------------------------------------------------------------------------
(* Settings *)

LEMMA SettingsPreserved ==
    ASSUME TypeOK, NothingInNoColumn, SettingsKept, Next
    PROVE  NothingInNoColumn' /\ SettingsKept'
<1> USE DEF NothingInNoColumn, SettingsKept, Effective
<1>1. ASSUME NEW p \in Processes,
             \/ Start(p) \/ StatementFails(p) \/ Crash(p) \/ SwapContacts(p)
             \/ AddPinHash(p) \/ DropReferenceIndex(p) \/ AutoMigrate(p)
             \/ LinkNotifications(p) \/ IndexUnique(p) \/ LinkFaceChecks(p) \/ LinkOwned(p)
      PROVE  NothingInNoColumn' /\ SettingsKept'
  <2>1. row' = row /\ latest' = latest
    BY <1>1 DEF Start, StatementFails, Crash, SwapContacts, AddPinHash, DropReferenceIndex,
                AutoMigrate, LinkNotifications, IndexUnique, LinkFaceChecks, LinkOwned, Add
  <2>2. \A s \in Settings : column[s] \subseteq column'[s]
    BY <1>1 DEF TypeOK, Start, StatementFails, Crash, SwapContacts, AddPinHash,
                DropReferenceIndex, AutoMigrate, LinkNotifications, IndexUnique,
                LinkFaceChecks, LinkOwned, Add
  <2> QED BY <2>1, <2>2
<1>2. ASSUME NEW p \in Processes, RenamePin(p)
      PROVE  NothingInNoColumn' /\ SettingsKept'
  <2>1. CASE column["pin"] = {"old"}
    <3>1. ASSUME NEW u \in Users, NEW s \in Settings
          PROVE  /\ "new" \notin column'[s] => row'[u][s].new = "none"
                 /\ "old" \notin column'[s] => row'[u][s].old = "none"
                 /\ Effective(row[u][s])' = Effective(row[u][s])
      <4>1. CASE s = "pin"
        <5>1. row[u][s].new = "none"
          BY <2>1, <4>1
        <5>2. row'[u][s] = [old |-> "none", new |-> row[u][s].old]
          BY <1>2, <2>1, <4>1 DEF TypeOK, RenamePin
        <5>3. column'[s] = {"new"}
          BY <1>2, <2>1, <4>1 DEF TypeOK, RenamePin
        <5> QED BY <5>1, <5>2, <5>3
      <4>2. CASE s # "pin"
        BY <1>2, <2>1, <4>2 DEF TypeOK, RenamePin
      <4> QED BY <4>1, <4>2
    <3> QED BY <1>2, <3>1 DEF RenamePin
  <2>2. CASE column["pin"] # {"old"}
    BY <1>2, <2>2 DEF RenamePin
  <2> QED BY <2>1, <2>2
<1>3. ASSUME NEW p \in Processes, NEW t \in {"notifications", "password"}, CopyColumn(p, t)
      PROVE  NothingInNoColumn' /\ SettingsKept'
  <2>1. CASE "old" \in column[t]
    <3>1. ASSUME NEW u \in Users, NEW s \in Settings
          PROVE  /\ "new" \notin column'[s] => row'[u][s].new = "none"
                 /\ "old" \notin column'[s] => row'[u][s].old = "none"
                 /\ Effective(row[u][s])' = Effective(row[u][s])
      <4>1. CASE s = t
        <5>1. row'[u][s] = [old |-> "none", new |-> Copied(row[u][s])]
          BY <1>3, <2>1, <4>1 DEF TypeOK, CopyColumn
        <5>2. column'[s] = {"new"}
          BY <1>3, <2>1, <4>1 DEF TypeOK, CopyColumn
        <5> QED BY <5>1, <5>2 DEF Copied
      <4>2. CASE s # t
        BY <1>3, <2>1, <4>2 DEF TypeOK, CopyColumn
      <4> QED BY <4>1, <4>2
    <3> QED BY <1>3, <3>1 DEF CopyColumn
  <2>2. CASE "old" \notin column[t]
    BY <1>3, <2>2 DEF CopyColumn
  <2> QED BY <2>1, <2>2
<1>4. ASSUME NEW v \in Users, NEW t \in Settings, ChangeSetting(v, t)
      PROVE  NothingInNoColumn' /\ SettingsKept'
  <2>1. ASSUME NEW u \in Users, NEW s \in Settings
        PROVE  /\ "new" \notin column'[s] => row'[u][s].new = "none"
               /\ "old" \notin column'[s] => row'[u][s].old = "none"
               /\ Effective(row[u][s])' = latest'[u][s]
    <3>1. CASE u = v /\ s = t
      <4>1. row'[u][s].new = "new" /\ latest'[u][s] = "new"
        BY <1>4, <3>1 DEF TypeOK, ChangeSetting, Setting
      <4>2. "new" \in column'[s] /\ column' = column
        BY <1>4, <3>1 DEF ChangeSetting
      <4>3. row'[u][s].old = row[u][s].old
        BY <1>4, <3>1 DEF TypeOK, ChangeSetting, Setting
      <4> QED BY <4>1, <4>2, <4>3
    <3>2. CASE ~(u = v /\ s = t)
      <4>1. row'[u][s] = row[u][s] /\ latest'[u][s] = latest[u][s]
        BY <1>4, <3>2 DEF TypeOK, ChangeSetting
      <4>2. column' = column
        BY <1>4 DEF ChangeSetting
      <4> QED BY <4>1, <4>2
    <3> QED BY <3>1, <3>2
  <2> QED BY <2>1
<1>5. CASE \/ \E u \in Users : UpdateProfile(u)
           \/ OpenTwo \/ CloseOne
  BY <1>5 DEF UpdateProfile, OpenTwo, CloseOne
<1> QED BY <1>1, <1>2, <1>3, <1>4, <1>5 DEF Next, Statement

-----------------------------------------------------------------------------
(* Order *)

\* The columns and constraints that Reached speaks of, on their way to those of
\* today.
Forward ==
    /\ \A s \in Settings : "old" \in column'[s] => "old" \in column[s]
    /\ \A s \in Settings : "new" \in column[s] => "new" \in column'[s]
    /\ constraint \ {"provider_reference"} \subseteq constraint'
    /\ "provider_reference" \in constraint' => "provider_reference" \in constraint
    /\ table \subseteq table'
    /\ \A u \in Users : HasPin(u) => HasPin(u)'

\* Another process, or p itself when it crashes or ends, loses nothing.
LEMMA ReachedKept ==
    ASSUME TypeOK, NEW p \in Processes, Reached(p), Forward, pc'[p] \in {0, pc[p]}
    PROVE  Reached(p)'
<1>1. \A i \in 8..19 : Statements[i] # "provider_reference"
  BY DEF Statements
<1> QED BY <1>1 DEF TypeOK, Reached, Forward, Settings

\* A step that goes Forward and leaves p after one statement.
LEMMA OthersReached ==
    ASSUME TypeOK, NEW p \in Processes, Forward, Reached(p)',
           p \notin Unprepared, \A q \in Processes \ {p} : pc'[q] = pc[q],
           \A q \in Processes \ Unprepared : Reached(q),
           \A q \in Unprepared : pc[q] \in {0, 20}
    PROVE  /\ \A q \in Processes \ Unprepared : Reached(q)'
           /\ \A q \in Unprepared : pc'[q] \in {0, 20}
  BY ReachedKept, ProcessesAssumption

LEMMA OrderPreserved ==
    ASSUME TypeOK, NothingInNoColumn, InOrder, Next
    PROVE  InOrder'
<1> USE Positions
<1>a. ASSUME NEW p \in Processes, pc[p] \in 1..19
      PROVE  p \notin Unprepared
  BY <1>a DEF InOrder
<1>1. ASSUME NEW p \in Processes, Start(p) \/ StatementFails(p) \/ Crash(p)
      PROVE  InOrder'
  <2>1. UNCHANGED <<table, column, constraint, broken, row>>
    BY <1>1 DEF Start, StatementFails, Crash
  <2>2. ASSUME NEW q \in Processes \ Unprepared
        PROVE  Reached(q)'
    <3>1. pc'[q] \in {0, pc[q]} \/ pc'[q] = 1
      BY <1>1, <2>2 DEF TypeOK, Start, StatementFails, Crash
    <3> QED BY <2>1, <3>1, ReachedKept DEF InOrder, Forward, Reached, HasPin
  <2>3. ASSUME NEW q \in Unprepared
        PROVE  pc'[q] \in {0, 20}
    BY <1>1, <2>3, ProcessesAssumption DEF TypeOK, InOrder, Start, StatementFails, Crash
  <2> QED BY <2>1, <2>2, <2>3 DEF InOrder
<1>2. ASSUME NEW p \in Processes, RenamePin(p)
      PROVE  InOrder'
  <2>1. pc[p] = 1 /\ pc'[p] = 2 /\ \A q \in Processes \ {p} : pc'[q] = pc[q]
    BY <1>2 DEF RenamePin, Proceed, TypeOK
  <2>2. ASSUME NEW u \in Users, HasPin(u)
        PROVE  HasPin(u)'
    BY <1>2, <2>2 DEF RenamePin, HasPin, NothingInNoColumn, Settings
  <2>3. Forward
    BY <1>2, <2>2 DEF TypeOK, RenamePin, Forward, Settings
  <2>4. Reached(p)'
    BY <2>1 DEF Reached
  <2> QED BY <1>2, <1>a, <2>1, <2>3, <2>4, OthersReached DEF InOrder, RenamePin
<1>3. ASSUME NEW p \in Processes, SwapContacts(p)
      PROVE  InOrder'
  <2>1. pc[p] = 2 /\ pc'[p] = 3 /\ \A q \in Processes \ {p} : pc'[q] = pc[q]
    BY <1>3 DEF SwapContacts, Proceed, TypeOK
  <2>2. Forward
    BY <1>3 DEF SwapContacts, Forward, HasPin
  <2>3. Reached(p)'
    BY <1>3, <1>a, <2>1 DEF Reached, SwapContacts, InOrder
  <2> QED BY <1>3, <1>a, <2>1, <2>2, <2>3, OthersReached DEF InOrder, SwapContacts
<1>4. ASSUME NEW p \in Processes, NEW s \in {"notifications", "password"}, CopyColumn(p, s)
      PROVE  InOrder'
  <2>1. /\ pc[p] = IF s = "notifications" THEN 3 ELSE 4
        /\ pc'[p] = pc[p] + 1 /\ \A q \in Processes \ {p} : pc'[q] = pc[q]
    BY <1>4 DEF CopyColumn, Proceed, TypeOK
  <2>2. "old" \notin column'[s]
    BY <1>4 DEF TypeOK, CopyColumn, Settings
  <2>5. ASSUME NEW u \in Users
        PROVE  HasPin(u)' <=> HasPin(u)
    <3>1. row'[u]["pin"] = row[u]["pin"]
      BY <1>4 DEF TypeOK, CopyColumn, Settings
    <3> QED BY <3>1 DEF HasPin
  <2>3. Forward
    BY <1>4, <2>5 DEF TypeOK, CopyColumn, Forward, Settings
  <2>4. Reached(p)'
    BY <1>4, <1>a, <2>1, <2>2, <2>3 DEF Reached, InOrder, Forward, Settings, CopyColumn
  <2> QED BY <1>4, <1>a, <2>1, <2>2, <2>3, <2>4, OthersReached
          DEF InOrder, CopyColumn
<1>5. ASSUME NEW p \in Processes, AddPinHash(p) \/ DropReferenceIndex(p) \/ AutoMigrate(p)
      PROVE  InOrder'
  <2>1. /\ pc[p] \in {5, 6, 7}
        /\ pc'[p] = pc[p] + 1 /\ \A q \in Processes \ {p} : pc'[q] = pc[q]
    BY <1>5 DEF AddPinHash, DropReferenceIndex, AutoMigrate, Proceed, TypeOK
  <2>2. Reached(p)
    BY <1>a, <2>1 DEF InOrder, Reached
  <2>3. Forward
    BY <1>5 DEF TypeOK, AddPinHash, DropReferenceIndex, AutoMigrate, Forward, Settings, HasPin
  <2>5. pc[p] = 6 => "provider_reference" \notin constraint'
    BY <1>5 DEF AddPinHash, DropReferenceIndex, AutoMigrate
  <2>6. pc[p] = 7 => /\ \A s \in Settings : "new" \in column'[s]
                     /\ \A u \in Users : HasPin(u)'
                     /\ "users_email" \in constraint'
    BY <1>5, <2>2 DEF TypeOK, AddPinHash, DropReferenceIndex, AutoMigrate, Reached, HasPin
  <2>7. Reached(p)'
    BY <2>1, <2>2, <2>3, <2>5, <2>6 DEF Reached, Forward, Settings
  <2>8. UNCHANGED broken /\ constraint' \subseteq constraint \cup {"users_email"}
    BY <1>5 DEF AddPinHash, DropReferenceIndex, AutoMigrate
  <2>9. "users_email" \notin broken
    BY DEF TypeOK, Constraints, Linked, Unique, Owned
  <2> QED BY <1>a, <2>1, <2>3, <2>7, <2>8, <2>9, OthersReached DEF InOrder
<1>6. ASSUME NEW p \in Processes,
             LinkNotifications(p) \/ IndexUnique(p) \/ LinkFaceChecks(p) \/ LinkOwned(p)
      PROVE  InOrder'
  <2>1. PICK c \in Constraints : /\ At(p, c) /\ Proceed(p)
                                 /\ constraint' = constraint \cup {c}
                                 /\ broken' \subseteq broken /\ c \notin broken'
                                 /\ UNCHANGED <<table, column, row>>
    BY <1>6 DEF LinkNotifications, IndexUnique, LinkFaceChecks, LinkOwned, Add, Constraints
  <2>2. pc[p] \in 8..19 /\ c = Statements[pc[p]]
    BY <2>1, ConstraintPositions
  <2>3. pc'[p] = pc[p] + 1 /\ \A q \in Processes \ {p} : pc'[q] = pc[q]
    BY <2>1 DEF Proceed, TypeOK
  <2>4. c # "provider_reference"
    BY <2>1 DEF Constraints, Linked, Unique, Owned
  <2>5. Forward
    BY <2>1, <2>4 DEF Forward, HasPin
  <2>6. Reached(p)'
    BY <1>a, <2>1, <2>2, <2>3, <2>4 DEF Reached, InOrder, HasPin
  <2> QED BY <1>a, <2>1, <2>2, <2>3, <2>5, <2>6, OthersReached DEF InOrder
<1>7. CASE \/ \E u \in Users : UpdateProfile(u) \/ \E s \in Settings : ChangeSetting(u, s)
           \/ OpenTwo \/ CloseOne
  <2>1. UNCHANGED <<pc, table, column, constraint>>
    BY <1>7 DEF UpdateProfile, ChangeSetting, OpenTwo, CloseOne
  <2>3. ASSUME NEW u \in Users, HasPin(u)
        PROVE  HasPin(u)'
    <3>1. ASSUME NEW v \in Users, NEW s \in Settings, ChangeSetting(v, s)
          PROVE  HasPin(u)'
      <4>1. row'[u]["pin"].new \in {row[u]["pin"].new, "new"}
        BY <3>1 DEF ChangeSetting, TypeOK, Setting, Settings
      <4> QED BY <2>3, <4>1 DEF HasPin
    <3> QED BY <1>7, <2>3, <3>1 DEF UpdateProfile, OpenTwo, CloseOne, HasPin
  <2>2. constraint \cap broken' = {}
    BY <1>7 DEF InOrder, UpdateProfile, ChangeSetting, OpenTwo, CloseOne
  <2> QED BY <2>1, <2>2, <2>3 DEF InOrder, Reached
<1> QED BY <1>1, <1>2, <1>3, <1>4, <1>5, <1>6, <1>7 DEF Next, Statement

-----------------------------------------------------------------------------
(* Contacts *)

\* One swap settles a contact, and an update of the profile unsettles none.
LEMMA SwapSettles ==
    ASSUME NEW c \in Contact, LooksSwapped(c)
    PROVE  Settled([email |-> c.address, address |-> c.email])
  BY DEF Contact, Settled, LooksSwapped, Texts

LEMMA ContactsPreserved ==
    ASSUME TypeOK, InOrder, ContactsSettled, Next
    PROVE  ContactsSettled'
<1> USE Positions DEF ContactsSettled
<1>1. ASSUME NEW p \in Processes, SwapContacts(p)
      PROVE  ContactsSettled'
  <2>1. ASSUME NEW u \in Users
        PROVE  Settled(contact'[u])
    <3>1. CASE LooksSwapped(contact[u])
      BY <1>1, <3>1, SwapSettles DEF TypeOK, SwapContacts, Swapped
    <3>2. CASE ~LooksSwapped(contact[u])
      BY <1>1, <3>2 DEF TypeOK, SwapContacts, Swapped, Settled
    <3> QED BY <3>1, <3>2
  <2> QED BY <2>1
<1>2. ASSUME NEW p \in Processes,
             \/ Start(p) \/ StatementFails(p) \/ Crash(p) \/ RenamePin(p)
             \/ CopyColumn(p, "notifications") \/ CopyColumn(p, "password")
             \/ AddPinHash(p) \/ DropReferenceIndex(p) \/ AutoMigrate(p)
             \/ LinkNotifications(p) \/ IndexUnique(p) \/ LinkFaceChecks(p) \/ LinkOwned(p)
      PROVE  ContactsSettled'
  <2>1. contact' = contact
    BY <1>2 DEF Start, StatementFails, Crash, RenamePin, CopyColumn, AddPinHash,
                DropReferenceIndex, AutoMigrate, LinkNotifications, IndexUnique,
                LinkFaceChecks, LinkOwned, Add
  <2>2. \A q \in Processes \ {p} : pc'[q] = pc[q]
    BY <1>2 DEF TypeOK, Start, StatementFails, Crash, RenamePin, CopyColumn, AddPinHash,
                DropReferenceIndex, AutoMigrate, LinkNotifications, IndexUnique,
                LinkFaceChecks, LinkOwned, Add, Proceed
  <2>3. CASE Start(p) \/ StatementFails(p) \/ Crash(p)
    <3>1. p \notin Unprepared => pc'[p] \in {0, 1}
      BY <2>3 DEF TypeOK, Start, StatementFails, Crash
    <3> QED BY <2>1, <2>2, <3>1
  <2>4. CASE RenamePin(p)
    <3>1. pc'[p] = 2
      BY <2>4 DEF RenamePin, Proceed, TypeOK
    <3> QED BY <2>1, <2>2, <3>1
  <2>5. CASE \/ CopyColumn(p, "notifications") \/ CopyColumn(p, "password")
             \/ AddPinHash(p) \/ DropReferenceIndex(p) \/ AutoMigrate(p)
             \/ LinkNotifications(p) \/ IndexUnique(p) \/ LinkFaceChecks(p) \/ LinkOwned(p)
    <3>1. pc[p] \in 3..19
      BY <2>5, ConstraintPositions
         DEF CopyColumn, AddPinHash, DropReferenceIndex, AutoMigrate, LinkNotifications,
             IndexUnique, LinkFaceChecks, LinkOwned, Add, Constraints
    <3>2. p \notin Unprepared
      BY <3>1 DEF InOrder
    <3> QED BY <2>1, <3>1, <3>2
  <2> QED BY <1>2, <2>3, <2>4, <2>5
<1>3. ASSUME NEW v \in Users, UpdateProfile(v)
      PROVE  ContactsSettled'
  <2>1. pc' = pc
    BY <1>3 DEF UpdateProfile
  <2>2. ASSUME NEW u \in Users, Settled(contact[u])
        PROVE  Settled(contact'[u])
    BY <1>3, <2>2 DEF TypeOK, Contact, UpdateProfile, Settled, LooksSwapped, Texts
  <2> QED BY <2>1, <2>2
<1>4. CASE \/ \E u \in Users, s \in Settings : ChangeSetting(u, s)
           \/ OpenTwo \/ CloseOne
  BY <1>4 DEF ChangeSetting, OpenTwo, CloseOne
<1> QED BY <1>1, <1>2, <1>3, <1>4 DEF Next, Statement

-----------------------------------------------------------------------------
(* The invariant, and what follows *)

LEMMA SoundAtFirst == Init => Sound
<1> SUFFICES ASSUME Init PROVE Sound
  OBVIOUS
<1>1. TypeOK
  <2>1. constraint \subseteq Constraints \cup {"provider_reference", "users_email"} /\ broken \subseteq Constraints
    BY DEF Init, Constraints, Linked, Owned
  <2>2. contact \in [Users -> Contact]
    BY DEF Init, Contact, Texts
  <2>3. latest \in [Users -> [Settings -> {"none", "old", "new"}]]
    <3>1. \A r \in Setting : Effective(r) \in {"none", "old", "new"}
      BY DEF Setting, Effective
    <3> QED BY <3>1 DEF Init
  <2>4. column \in [Settings -> SUBSET {"old", "new"}]
    BY DEF Init
  <2> QED BY <2>1, <2>2, <2>3, <2>4, Positions, ProcessesAssumption DEF Init, TypeOK
<1>2. NothingInNoColumn
  BY DEF Init, NothingInNoColumn, Earlier
<1>3. SettingsKept
  BY DEF Init, SettingsKept
<1>4. InOrder
  <2>2. \A p \in Processes : pc[p] = 0
    BY DEF Init
  <2>3. ASSUME NEW p \in Processes
        PROVE  Reached(p)
    <3>1. \A i \in 1..19 : ~(0 > i)
      OBVIOUS
    <3>2. ~(pc[p] > 2) /\ ~(pc[p] > 3) /\ ~(pc[p] > 4) /\ ~(pc[p] > 6) /\ ~(pc[p] > 7)
      BY <2>2
    <3>3. \A i \in 8..19 : ~(pc[p] > i)
      BY <2>2, <3>1
    <3> QED BY <3>2, <3>3 DEF Reached
  <2>4. constraint \cap broken = {}
    BY DEF Init
  <2> QED BY <2>2, <2>3, <2>4, ProcessesAssumption DEF InOrder
<1>5. ContactsSettled
  BY DEF Init, ContactsSettled
<1> QED BY <1>1, <1>2, <1>3, <1>4, <1>5 DEF Sound

LEMMA SoundPreserved == Sound /\ [Next]_vars => Sound'
<1>1. ASSUME Sound, Next
      PROVE  Sound'
  BY <1>1, TypeKept, SettingsPreserved, OrderPreserved, ContactsPreserved DEF Sound
<1>2. ASSUME Sound, UNCHANGED vars
      PROVE  Sound'
  BY <1>2 DEF Sound, TypeOK, NothingInNoColumn, SettingsKept, InOrder, Reached,
              HasPin, ContactsSettled, vars
<1> QED BY <1>1, <1>2

\* The invariant behind the three theorems: whatever statements a process has been
\* through, their effect is there, also while others run Migrate (database.go).
THEOREM SoundAlways == Spec => []Sound
  BY SoundAtFirst, SoundPreserved, PTL DEF Spec

\* No start, crash or race of starts of Migrate loses a PIN, a password or a
\* notification setting, for any number of processes and users.
THEOREM SettingsKeptAlways == Spec => []SettingsKept
<1>1. Sound => SettingsKept BY DEF Sound
<1> QED BY <1>1, SoundAlways, PTL

LEMMA MigratedReached ==
    ASSUME Sound, NEW p \in Processes, Migrated(p)
    PROVE  /\ constraint = Constraints \cup {"users_email"} /\ broken = {}
           /\ \A s \in Settings : "new" \in column[s]
           /\ \A s \in {"notifications", "password"} : "old" \notin column[s]
           /\ \A u \in Users : HasPin(u) /\ Settled(contact[u])
<1>1. p \in Processes \ Unprepared /\ pc[p] = 20
  BY Positions DEF Migrated
<1>2. Reached(p)
  BY <1>1 DEF Sound, InOrder
<1>3. Constraints \cup {"users_email"} \subseteq constraint /\ "provider_reference" \notin constraint
  BY <1>1, <1>2, ConstraintPositions DEF Reached
<1>4. constraint = Constraints \cup {"users_email"}
  BY <1>3 DEF Sound, TypeOK
<1>5. broken = {}
  BY <1>4 DEF Sound, TypeOK, InOrder
<1>6. /\ \A s \in Settings : "new" \in column[s]
      /\ \A s \in {"notifications", "password"} : "old" \notin column[s]
      /\ \A u \in Users : HasPin(u)
  BY <1>1, <1>2 DEF Reached
<1>7. \A u \in Users : Settled(contact[u])
  BY <1>1 DEF Sound, ContactsSettled
<1> QED BY <1>4, <1>5, <1>6, <1>7

\* A process that has run Migrate to its end serves only with every key and index
\* in force, and the columns it reads hold what the users chose last.
THEOREM ServesMigratedAlways == Spec => []ServesMigrated
<1>1. ASSUME Sound, NEW p \in Processes, Migrated(p), NEW u \in Users, NEW s \in Settings
      PROVE  row[u][s].new = latest[u][s]
  <2>1. Effective(row[u][s]) = latest[u][s]
    BY <1>1 DEF Sound, SettingsKept
  <2>2. CASE s = "pin"
    BY <1>1, <2>1, <2>2, MigratedReached DEF HasPin, Effective
  <2>3. CASE s \in {"notifications", "password"}
    BY <1>1, <2>1, <2>3, MigratedReached DEF Sound, NothingInNoColumn, Effective
  <2> QED BY <2>2, <2>3 DEF Settings
<1>2. Sound => ServesMigrated
  BY <1>1, MigratedReached DEF ServesMigrated
<1> QED BY <1>2, SoundAlways, PTL

\* Starts after the first that got through change no user's data (Migrate runs on
\* every start), but for a user with text in both places.
THEOREM RestartsChangeNothingAlways == Spec => RestartsChangeNothing
<1>1. ASSUME Sound, Next, NEW q \in Processes, Migrated(q), pc' # pc
      PROVE  /\ row' = row
             /\ \A u \in Users :
                   {contact[u].email, contact[u].address} \subseteq Texts \/ contact'[u] = contact[u]
  <2>1. /\ "new" \in column["pin"]
        /\ \A s \in {"notifications", "password"} : "old" \notin column[s]
        /\ \A u \in Users : Settled(contact[u])
    BY <1>1, MigratedReached DEF Settings
  <2>2. PICK p \in Processes : Start(p) \/ Statement(p) \/ StatementFails(p) \/ Crash(p)
    BY <1>1 DEF Next, UpdateProfile, ChangeSetting, OpenTwo, CloseOne
  <2>3. row' = row
    BY <2>1, <2>2 DEF Start, StatementFails, Crash, Statement, RenamePin, SwapContacts,
                      CopyColumn, AddPinHash, DropReferenceIndex, AutoMigrate,
                      LinkNotifications, IndexUnique, LinkFaceChecks, LinkOwned, Add, Settings
  <2>4. ASSUME NEW u \in Users, ~ {contact[u].email, contact[u].address} \subseteq Texts
        PROVE  contact'[u] = contact[u]
    <3>1. ~LooksSwapped(contact[u])
      BY <2>1, <2>4 DEF Settled
    <3> QED BY <1>1, <2>2, <3>1
            DEF Sound, TypeOK, Start, StatementFails, Crash, Statement, RenamePin,
                SwapContacts, Swapped, CopyColumn, AddPinHash, DropReferenceIndex, AutoMigrate,
                LinkNotifications, IndexUnique, LinkFaceChecks, LinkOwned, Add
  <2> QED BY <2>3, <2>4
<1>2. Sound /\ [Next]_vars =>
        [(\E p \in Processes : Migrated(p)) /\ pc' # pc =>
            /\ row' = row
            /\ \A u \in Users :
                  {contact[u].email, contact[u].address} \subseteq Texts
                      \/ contact'[u] = contact[u]]_vars
  BY <1>1 DEF vars
<1> QED BY <1>2, SoundAlways, PTL DEF Spec, RestartsChangeNothing

=============================================================================
