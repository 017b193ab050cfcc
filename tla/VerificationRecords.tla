-------------------------- MODULE VerificationRecords --------------------------
(***************************************************************************)
(* What a user proves and what the proof pays for (internal/modules/auth:  *)
(* service_bvn_nin.go, service_password.go, service_pin.go, otp,           *)
(* verification).  A BVN or NIN look-up, or the right SMS code, leaves a   *)
(* verification record; a registration stamps three of them, and a reset   *)
(* or change of the PIN or the password uses one up.                       *)
(*                                                                         *)
(* Everything here is about one phone number, the user's: codes go to it,  *)
(* and the records are those that carry it (another phone is refused       *)
(* wherever it is compared).  A record is bound neither to the purpose of  *)
(* its code nor to a kind of proof: any record with the phone pays.        *)
(*                                                                         *)
(* Left out: the fifteen minutes of a record, the cool-down of a code and  *)
(* every malformed or refused request, all of which only end requests;     *)
(* codes by email, whose records have no phone; SendOTP and VerifyOTP,     *)
(* which nothing calls.                                                    *)
(***************************************************************************)
EXTENDS Integers

CONSTANTS
    Requests,      \* goroutines that run at the same time
    Codes,         \* rows of wallet_otps
    Records,       \* rows of wallet_verification_records
    Purposes,      \* of codes asked for by a registered user
    Persons,       \* whom BVN and NIN numbers belong to
    MaxAttempts,
    MaxResends

ASSUME LimitsAssumption ==
    MaxAttempts \in Nat \ {0} /\ MaxResends \in Nat /\ Persons # {}

VARIABLES
    code,       \* wallet_otps
    record,     \* wallet_verification_records, with their face checks
    bvnRow,     \* wallet_bvn_records, one per BVN
    user,       \* the account behind the phone number
    request,
    wrong,      \* history: wrong guesses answered for a code's row
    paid        \* history: the secrets a record has paid for

vars == <<code, record, bvnRow, user, request, wrong, paid>>

AllPurposes == Purposes \cup {"signup"}

Code == [state : {"none", "active", "expired", "consumed"}, purpose : AllPurposes,
         attempts : 0..MaxAttempts, resends : 0..MaxResends]
\* stamped: used_at is set, which status "used" implies but not the reverse.
Record == [state : {"none", "verified", "used"}, type : {"phone", "bvn", "nin"},
           person : Persons, from : Codes \cup {"provider"},
           stamped : BOOLEAN, face : BOOLEAN]
Request == [pc : {"idle", "insert", "nin", "change"}, purpose : AllPurposes, person : Persons]

TypeOK ==
    /\ code \in [Codes -> Code]
    /\ record \in [Records -> Record]
    /\ bvnRow \in [Persons -> {"none", "free", "linked"}]
    /\ user \in {"none", "job", "registered"}
    /\ request \in [Requests -> Request]
    /\ wrong \in [Codes -> Nat]
    /\ paid \in [Records -> Nat]

Idle == [pc |-> "idle", purpose |-> "signup", person |-> CHOOSE p \in Persons : TRUE]

Init ==
    /\ code = [c \in Codes |->
                  [state |-> "none", purpose |-> "signup", attempts |-> 0, resends |-> 0]]
    /\ record = [v \in Records |->
                  [state |-> "none", type |-> "phone", person |-> Idle.person,
                   from |-> "provider", stamped |-> FALSE, face |-> FALSE]]
    /\ bvnRow = [p \in Persons |-> "none"]
    /\ user = "none"
    /\ request = [r \in Requests |-> Idle]
    /\ wrong = [c \in Codes |-> 0]
    /\ paid = [v \in Records |-> 0]

Goto(r, pc, purpose, p) ==
    /\ request[r].pc = "idle"
    /\ request' = [request EXCEPT ![r] = [pc |-> pc, purpose |-> purpose, person |-> p]]
Finish(r) == request' = [request EXCEPT ![r] = Idle]

Verified(v) == record[v].state = "verified"
\* AddVerification
Add(v, type, p, from) ==
    /\ record[v].state = "none"
    /\ record' = [record EXCEPT ![v] =
          [state |-> "verified", type |-> type, person |-> p,
           from |-> from, stamped |-> FALSE, face |-> FALSE]]

-----------------------------------------------------------------------------
(* Codes *)

\* A code for signing up is asked for with an unstamped record of the phone ...
RecordToName == \E v \in Records : record[v].state # "none" /\ ~record[v].stamped

\* ... and one for a secret by the user: resolvePasswordResetTarget finds her by
\* the phone, RequestTransactionPinChange by her session.
ResetTarget == user = "registered"

MayIssue(purpose) == IF purpose = "signup" THEN RecordToName ELSE ResetTarget

Resendable(c) == code[c].resends < MaxResends

\* The active row is locked, gets a new code text and its attempts back.
IssueAgain(c) ==
    /\ code[c].state = "active" /\ MayIssue(code[c].purpose)
    /\ Resendable(c)
    /\ code' = [code EXCEPT ![c] = [@ EXCEPT !.attempts = 0, !.resends = code[c].resends + 1]]
    /\ UNCHANGED <<record, bvnRow, user, request, wrong, paid>>

\* No active row, so nothing is locked while the SMS goes out ...
IssueFirst(r, purpose) ==
    /\ MayIssue(purpose)
    /\ ~\E c \in Codes : code[c].state = "active" /\ code[c].purpose = purpose
    /\ Goto(r, "insert", purpose, Idle.person)
    /\ UNCHANGED <<code, record, bvnRow, user, wrong, paid>>

\* ... and two first requests leave two active rows.
CreateOTP(r, c) ==
    /\ request[r].pc = "insert" /\ code[c].state = "none"
    /\ code' = [code EXCEPT ![c] = [@ EXCEPT !.state = "active", !.purpose = request[r].purpose]]
    /\ Finish(r)
    /\ UNCHANGED <<record, bvnRow, user, wrong, paid>>

CodeExpires(c) ==
    /\ code[c].state = "active"
    /\ code' = [code EXCEPT ![c].state = "expired"]
    /\ UNCHANGED <<record, bvnRow, user, request, wrong, paid>>

\* Verify holds the lock of the code's row to the end of its transaction.
Guessable(c) == code[c].state = "active" /\ code[c].attempts < MaxAttempts

\* Mutant: the refusal rolls the counter back, as in VerifyNewDevice.
RolledBack(c) == code
\* IncrementAttempt
Counted(c) == [code EXCEPT ![c].attempts = @ + 1]

\* The refusal is returned after the commit.
WrongCode(c) ==
    /\ Guessable(c)
    /\ code' = Counted(c)
    /\ wrong' = [wrong EXCEPT ![c] = @ + 1]
    /\ UNCHANGED <<record, bvnRow, user, request, paid>>

\* Mutant: the record is added, the code is not consumed.
NotConsumed(c) == code
\* ConsumeOTP
Consumed(c) == [code EXCEPT ![c].state = "consumed"]

RightCode(c, v) ==
    /\ Guessable(c)
    /\ code' = Consumed(c)
    /\ Add(v, "phone", Idle.person, c)
    /\ UNCHANGED <<bvnRow, user, request, wrong, paid>>

-----------------------------------------------------------------------------
(* Identity *)

\* Mutant: the conflict clause also writes user_id, which the new row leaves empty.
UpsertedWhole(p) == [bvnRow EXCEPT ![p] = "free"]
\* CreateBVNRecord: on conflict the row keeps its user.
Upserted(p) == [bvnRow EXCEPT ![p] = IF @ = "none" THEN "free" ELSE @]

\* saveVerifiedBVN: record and BVN row in one transaction.
SaveVerifiedBVN(v, p) ==
    /\ Add(v, "bvn", p, "provider")
    /\ bvnRow' = Upserted(p)
    /\ UNCHANGED <<code, user, request, wrong, paid>>

\* reuseVerifiedBVN copies an earlier record, used ones included ...
ReuseBVN(v, w) ==
    /\ record[w].state # "none" /\ record[w].type = "bvn"
    /\ SaveVerifiedBVN(v, record[w].person)

\* ... else the provider of the day answers; the two differ in the shape of
\* what they say of the person.
ValidateBVNWithTendar(v, p) == SaveVerifiedBVN(v, p)
ValidateBVNWithPrembly(v, p) == SaveVerifiedBVN(v, p)

\* ValidateNIN reads the BVN record, which no later step asks for again.
ValidateNIN(r, b) ==
    /\ Verified(b) /\ record[b].type # "phone"
    /\ Goto(r, "nin", "signup", record[b].person)
    /\ UNCHANGED <<code, record, bvnRow, user, wrong, paid>>

\* Name and date of birth of the answer agree with the BVN's: one person.
AddNIN(r, v) ==
    /\ request[r].pc = "nin"
    /\ Add(v, "nin", request[r].person, "provider")
    /\ Finish(r)
    /\ UNCHANGED <<code, bvnRow, user, wrong, paid>>

\* reuseVerifiedNIN compares and copies an earlier record instead.
ReuseNIN(r, v, w) ==
    /\ record[w].state # "none" /\ record[w].type = "nin"
    /\ record[w].person = request[r].person
    /\ AddNIN(r, v)

\* ValidateBVNWithFace, ValidateNINWithFace
FaceMatches(v) ==
    /\ Verified(v) /\ record[v].type # "phone" /\ ~record[v].face
    /\ record' = [record EXCEPT ![v].face = TRUE]
    /\ UNCHANGED <<code, bvnRow, user, request, wrong, paid>>

\* MarkValidationRecordUsed sets used_at and leaves the status.
Stamped(vs) == [v \in Records |->
    IF v \in vs THEN [record[v] EXCEPT !.stamped = TRUE] ELSE record[v]]

\* Register: the records behind a new job.  Any record with the phone will do
\* for the phone, one of the other two included.
Register(v, b, n) ==
    /\ user = "none"
    /\ Verified(v)
    /\ \A i \in {b, n} : Verified(i) /\ record[i].type # "phone" /\ record[i].face
    /\ record[b].person = record[n].person /\ record[b].type = "bvn"
    /\ record' = Stamped({v, b, n})
    /\ user' = "job"
    /\ UNCHANGED <<code, bvnRow, request, wrong, paid>>

\* The job creates the account and links the BVN (RegistrationJobs).
JobCompletes(b) ==
    /\ user = "job" /\ record[b].stamped /\ record[b].type = "bvn"
    /\ bvnRow[record[b].person] = "free"
    /\ bvnRow' = [bvnRow EXCEPT ![record[b].person] = "linked"]
    /\ user' = "registered"
    /\ UNCHANGED <<code, record, request, wrong, paid>>

-----------------------------------------------------------------------------
(* PIN and password *)

\* Mutant: marks the record the way a registration does.
UsedAtOnly(v) == Stamped({v})
\* MarkVerificationUsed
Used(v) == [record EXCEPT ![v] = [@ EXCEPT !.state = "used", !.stamped = TRUE]]

\* The record is locked, checked and marked in the transaction that writes the
\* secret.
PayWith(v) ==
    /\ user = "registered"
    /\ Verified(v)
    /\ record' = Used(v)
    /\ paid' = [paid EXCEPT ![v] = @ + 1]
    /\ UNCHANGED <<code, bvnRow, user, wrong>>

ResetPassword(v) == PayWith(v) /\ UNCHANGED request
ResetTransactionPin(v) == PayWith(v) /\ UNCHANGED request

\* A change compares the current secret before its transaction, and other
\* changes may come in between.
CompareCurrent(r) ==
    /\ user = "registered"
    /\ Goto(r, "change", "signup", Idle.person)
    /\ UNCHANGED <<code, record, bvnRow, user, wrong, paid>>

PayToChange(r, v) ==
    /\ request[r].pc = "change"
    /\ PayWith(v)
    /\ Finish(r)
ChangePassword(r, v) == PayToChange(r, v)
ChangeTransactionPin(r, v) == PayToChange(r, v)

\* Refused, failed, or gone with its process: an open transaction rolls back.
Ends(r) ==
    /\ request[r].pc # "idle"
    /\ Finish(r)
    /\ UNCHANGED <<code, record, bvnRow, user, wrong, paid>>

Next ==
    \/ \E c \in Codes : IssueAgain(c) \/ CodeExpires(c) \/ WrongCode(c)
    \/ \E c \in Codes, v \in Records : RightCode(c, v)
    \/ \E v, w \in Records : ReuseBVN(v, w)
    \/ \E v \in Records, p \in Persons :
          ValidateBVNWithTendar(v, p) \/ ValidateBVNWithPrembly(v, p)
    \/ \E v \in Records :
          FaceMatches(v) \/ JobCompletes(v) \/ ResetPassword(v) \/ ResetTransactionPin(v)
    \/ \E v, b, n \in Records : Register(v, b, n)
    \/ \E r \in Requests :
        \/ \E purpose \in AllPurposes : IssueFirst(r, purpose)
        \/ \E c \in Codes : CreateOTP(r, c)
        \/ \E v \in Records : ValidateNIN(r, v) \/ AddNIN(r, v)
        \/ \E v, w \in Records : ReuseNIN(r, v, w)
        \/ \E v \in Records : ChangePassword(r, v) \/ ChangeTransactionPin(r, v)
        \/ CompareCurrent(r) \/ Ends(r)

Spec == Init /\ [][Next]_vars

-----------------------------------------------------------------------------
(* What must hold *)

\* A record pays for one reset or change, whichever requests race for it, and
\* is used up exactly when it has (ResetPassword, ChangeTransactionPin, ...).
PaysOnce == \A v \in Records : paid[v] = IF record[v].state = "used" THEN 1 ELSE 0

\* A code makes one record, however many right answers race (otp Verify).
CodeProvesOnce ==
    \A v, w \in Records :
        /\ record[v].state # "none" /\ record[w].state # "none"
        /\ record[v].from = record[w].from /\ record[v].from # "provider"
        => v = w

\* However wrong guesses, resends and expiries interleave, one row of
\* wallet_otps answers a limited number of wrong guesses.
GuessesLimited == \A c \in Codes : wrong[c] <= MaxAttempts * (MaxResends + 1)

\* A BVN, once linked to its user, stays linked when somebody validates it again
\* (saveVerifiedBVN inserts a row without user); and there is a row to link
\* behind every BVN record.
BvnLinkKept ==
    [][/\ \A p \in Persons : bvnRow[p] = "linked" => bvnRow'[p] = "linked"
       /\ \A v \in Records : (Verified(v) /\ record[v].type = "bvn")' =>
              bvnRow'[record'[v].person] # "none"]_vars
=============================================================================
