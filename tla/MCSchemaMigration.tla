--------------------------- MODULE MCSchemaMigration ---------------------------
(***************************************************************************)
(* Two processes that migrate and a replica of the API that does not.      *)
(* Contacts touch neither settings nor keys, and no setting another, so    *)
(* databases with two settings to repair, or one and contacts, are left    *)
(* out.  The second user is there for the e-mails' sake.                   *)
(***************************************************************************)
EXTENDS SchemaMigration

CONSTANTS api, notifier, sweeper, u1, u2

\* The second user has chosen every setting where the first may have.
Second == [s \in Settings |-> [new |-> IF "new" \in column[s] THEN "new" ELSE "none",
                              old |-> IF column[s] = {"old"} THEN "old" ELSE "none"]]

\* A setting as the code of today leaves it.
Plain(s) == column[s] = {"new"} /\ row[u1][s].new # "none"

NewSettings ==
    /\ column = [s \in Settings |-> {"new"}]
    /\ row = [u \in Users |-> Second]
NoSettings ==
    /\ column = [s \in Settings |-> {}]
    /\ row = [u \in Users |-> Second]
OldSettings ==
    /\ column \in [Settings -> SUBSET {"old", "new"}]
    /\ \E first \in [Settings -> Setting] : row = [u \in Users |-> IF u = u1 THEN first ELSE Second]
    /\ \E s, t \in Settings : s # t /\ Plain(s) /\ Plain(t)

PlainContacts ==
    contact = [u \in Users |-> [email |-> IF u = u1 THEN "mail" ELSE "none", address |-> "road"]]
\* Swapped or not, with and without an address, in each other's way or not.
OldContacts ==
    /\ contact \in [Users -> Contact]
    /\ contact[u1] \in {[email |-> "street", address |-> a] : a \in {"mail", "road", "none"}}
                       \cup {[email |-> "none", address |-> "none"]}
    /\ contact[u2] \in {[email |-> "road", address |-> a] : a \in {"mail", "street"}}
                       \cup {[email |-> e, address |-> "road"] : e \in {"mail", "none"}}

Upgraded == constraint = Constraints \cup {"users_email"} /\ broken = {}
HasUnique == constraint \in {{"provider_reference", "users_email"}, Constraints \cup {"users_email"}}
Tables == table = {"users", "transfers"}

MCInit ==
    /\ \/ OldSettings /\ PlainContacts /\ Tables /\ HasUnique
       \/ NoSettings /\ PlainContacts /\ broken = {}
       \/ NewSettings /\ OldContacts /\ Tables /\ (Upgraded \/ (broken = {} /\ constraint = {}))
    /\ Init

MCSpec == MCInit /\ [][Next]_vars /\ Fairness
=============================================================================
