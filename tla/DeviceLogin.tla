------------------------------ MODULE DeviceLogin ------------------------------
(***************************************************************************)
(* How one user gets and keeps sessions (internal/modules/auth and         *)
(* device): login on a trusted device by a signed challenge, login on a    *)
(* new device by an SMS code, rotation of refresh tokens, logout.          *)
(*                                                                         *)
(* A request is one goroutine; it may end at any point (error, refusal,    *)
(* crash, client gone), which rolls its open transaction back and leaves   *)
(* what it committed before.  Each request inserts at most one row into a  *)
(* table, so rows are named by the request that inserted them; Origin      *)
(* names the session that came with registration.                          *)
(*                                                                         *)
(* Left out: passwords, wrong codes and wrong signatures change nothing    *)
(* (the attempt that VerifyNewDevice counts is rolled back with the rest   *)
(* of its transaction), and a cool-down or resend limit of Issue is a      *)
(* request that ends.  Expiry of refresh tokens only ends requests.        *)
(***************************************************************************)
EXTENDS FiniteSets

CONSTANTS
    Devices,
    Requests,
    Origin       \* the registration

ASSUME OriginAssumption == Origin \notin Requests

VARIABLES
    device,      \* wallet_user_devices
    otp,         \* wallet_otps of the user's phone, purpose login
    pending,     \* wallet_pending_device_sessions
    challenge,   \* wallet_device_challenges
    session,     \* wallet_auth_sessions
    token,       \* wallet_refresh_tokens
    request,     \* the goroutines
    overlapped   \* history: two new-device logins were open together

rows == <<device, otp, pending, challenge, session, token>>
vars == <<rows, request, overlapped>>

Rows == Requests \cup {Origin}

DeviceRow == [known : BOOLEAN, trusted : BOOLEAN, active : BOOLEAN]
OtpState == {"none", "active", "consumed", "expired"}
PendingRow == [state : {"none", "open", "expired", "used"}, device : Devices, otp : Requests]
ChallengeRow == [state : {"none", "open", "expired", "used"}, device : Devices]
\* spent: the rows that were used up to get the session (history).
SessionRow == [state : {"none", "open", "deleted"}, device : Devices,
               spent : SUBSET ({"otp", "pending", "challenge"} \X Requests)]
TokenRow == [state : {"none", "live", "revoked", "deleted"}, session : Rows]
Request == [pc : {"idle", "issue", "insert", "issued", "challenge", "verify", "mark",
                  "session", "token", "rotate", "deactivate", "delete", "over"},
            op : {"none", "login", "resend", "verify", "answer", "renew", "refresh", "logout"},
            device : Devices,
            of : Rows,           \* the row the request works on
            otp : Requests]      \* the code it has issued or read

TypeOK ==
    /\ device \in [Devices -> DeviceRow]
    /\ otp \in [Requests -> OtpState]
    /\ pending \in [Requests -> PendingRow]
    /\ challenge \in [Requests -> ChallengeRow]
    /\ session \in [Rows -> SessionRow]
    /\ token \in [Rows -> TokenRow]
    /\ request \in [Requests -> Request]
    /\ overlapped \in BOOLEAN

\* A registered user on the device of the registration, with its session.
Init ==
    \E home \in Devices :
        /\ device = [d \in Devices |->
                        [known |-> d = home, trusted |-> d = home, active |-> d = home]]
        /\ otp = [r \in Requests |-> "none"]
        /\ pending = [r \in Requests |-> [state |-> "none", device |-> home, otp |-> r]]
        /\ challenge = [r \in Requests |-> [state |-> "none", device |-> home]]
        /\ session = [r \in Rows |->
                        [state |-> IF r = Origin THEN "open" ELSE "none",
                         device |-> home, spent |-> {}]]
        /\ token = [r \in Rows |->
                        [state |-> IF r = Origin THEN "live" ELSE "none", session |-> r]]
        /\ request = [r \in Requests |->
                        [pc |-> "idle", op |-> "none", device |-> home, of |-> r, otp |-> r]]
        /\ overlapped = FALSE

At(r, pc) == request[r].pc = pc
Goto(r, pc) == request' = [request EXCEPT ![r].pc = pc]
Finish(r) == request' = [request EXCEPT ![r] =
                [pc |-> "over", op |-> "none", device |-> @.device, of |-> r, otp |-> r]]
Start(r, op, pc, d, of, o) ==
    /\ At(r, "idle")
    /\ request' = [request EXCEPT ![r] =
                      [pc |-> pc, op |-> op, device |-> d, of |-> of, otp |-> o]]

\* VerifyUserDevice
Usable(d) == device[d].known /\ device[d].active /\ device[d].trusted

-----------------------------------------------------------------------------
(* Login *)

\* The password was right; the device decides what follows.
LoginTrusted(r, d) ==
    /\ Usable(d)
    /\ Start(r, "login", "challenge", d, r, r)
    /\ UNCHANGED <<rows, overlapped>>

LoginNewDevice(r, d) ==
    /\ ~Usable(d)
    /\ Start(r, "login", "issue", d, r, r)
    /\ UNCHANGED <<rows, overlapped>>

\* CreateChallenge with a refresh token, for any device of the user.
RenewChallenge(r, t, d) ==
    /\ token[t].state = "live" /\ Usable(d)
    /\ Start(r, "renew", "challenge", d, t, r)
    /\ UNCHANGED <<rows, overlapped>>

\* The repository's CreateChallenge closes the challenges of the device.
Closed(d) == [c \in Requests |->
    IF challenge[c].device = d /\ challenge[c].state \in {"open", "expired"}
    THEN [challenge[c] EXCEPT !.state = "used"] ELSE challenge[c]]

OpenChallenge(r) ==
    /\ At(r, "challenge")
    /\ challenge' = [Closed(request[r].device) EXCEPT ![r] =
                        [state |-> "open", device |-> request[r].device]]
    /\ Finish(r)
    /\ UNCHANGED <<device, otp, pending, session, token, overlapped>>

-----------------------------------------------------------------------------
(* The code of a new device: Issue, in a transaction of its own *)

\* An active row is locked and gets a new code and a new expiry.
Reissue(r, o) ==
    /\ At(r, "issue") /\ otp[o] = "active"
    /\ request' = [request EXCEPT ![r] = [@ EXCEPT !.pc = "issued", !.otp = o]]
    /\ UNCHANGED <<rows, overlapped>>

\* No active row: nothing is locked while the SMS is sent.
IssueFirst(r) ==
    /\ At(r, "issue") /\ \A o \in Requests : otp[o] # "active"
    /\ Goto(r, "insert")
    /\ UNCHANGED <<rows, overlapped>>

CreateOTP(r) ==
    /\ At(r, "insert")
    /\ otp' = [otp EXCEPT ![r] = "active"]
    /\ request' = [request EXCEPT ![r] = [@ EXCEPT !.pc = "issued", !.otp = r]]
    /\ UNCHANGED <<device, pending, challenge, session, token, overlapped>>

\* A pending session still open, or held by a request that saw it open.
InProgress(f) ==
    /\ pending[f].state \in {"open", "expired"}
    /\ \/ pending[f].state = "open"
       \/ \E r \in Requests : /\ request[r].op \in {"verify", "resend"}
                              /\ request[r].of = f

\* Mutant: nobody is deactivated.
KeepsAll(d) == device
\* Mutant: one statement that sets is_active to (device_id = new device).
ActiveIsLatest(d) == [e \in Devices |-> [device[e] EXCEPT !.active = (e = d)]]

\* DeactiveOlderDevices
OnlyKeeps(d) == [e \in Devices |->
    IF e = d THEN device[e] ELSE [device[e] EXCEPT !.active = FALSE]]

CreatePending(r) ==
    LET d == request[r].device IN
    /\ At(r, "issued") /\ request[r].op = "login"
    /\ pending' = [pending EXCEPT ![r] =
                      [state |-> "open", device |-> d, otp |-> request[r].otp]]
    /\ device' = OnlyKeeps(d)
    /\ overlapped' = (overlapped \/
          \E f \in Requests : InProgress(f) /\ pending[f].device # d)
    /\ Finish(r)
    /\ UNCHANGED <<otp, challenge, session, token>>

\* ResendNewDeviceOTP reads the session, issues, then updates the session.
Resend(r, f) ==
    /\ pending[f].state = "open"
    /\ Start(r, "resend", "issue", pending[f].device, f, r)
    /\ UNCHANGED <<rows, overlapped>>

RefreshPending(r) ==
    LET f == request[r].of IN
    /\ At(r, "issued") /\ request[r].op = "resend"
    /\ pending' = IF pending[f].state = "used" THEN pending
                  ELSE [pending EXCEPT ![f] = [@ EXCEPT !.state = "open", !.otp = request[r].otp]]
    /\ Finish(r)
    /\ UNCHANGED <<device, otp, challenge, session, token, overlapped>>

-----------------------------------------------------------------------------
(* Sessions *)

\* issueSessionTokens writes a session, then its first refresh token.
NewSession(r, d, spent) == [state |-> "open", device |-> d, spent |-> spent]
NewToken(s) == [state |-> "live", session |-> s]

\* VerifyNewDevice reads the pending session without locking it ...
ReadPending(r, f) ==
    /\ pending[f].state = "open"
    /\ Start(r, "verify", "verify", pending[f].device, f, pending[f].otp)
    /\ UNCHANGED <<rows, overlapped>>

\* Mutant: consumed_at is not asked for.
ConsumableTwice(o) == otp[o] \in {"active", "consumed"}
\* GetActiveOTPByID and ConsumeOTP
Consumable(o) == otp[o] = "active"
\* UpsertDevicePublicKey: a new row is untrusted, an old one keeps its flags.
Upserted(d) == IF device[d].known THEN device[d]
               ELSE [known |-> TRUE, trusted |-> FALSE, active |-> TRUE]
\* ... and commits everything if the code is right and the session unused.
VerifyNewDevice(r) ==
    LET f == request[r].of
        d == request[r].device
        o == request[r].otp IN
    /\ At(r, "verify")
    /\ Consumable(o) /\ pending[f].state # "used"
    /\ otp' = [otp EXCEPT ![o] = "consumed"]
    /\ device' = [device EXCEPT ![d] = [Upserted(d) EXCEPT !.trusted = TRUE, !.active = TRUE]]
    /\ pending' = [pending EXCEPT ![f].state = "used"]
    /\ session' = [session EXCEPT ![r] = NewSession(r, d, {<<"otp", o>>, <<"pending", f>>})]
    /\ token' = [token EXCEPT ![r] = NewToken(r)]
    /\ Finish(r)
    /\ UNCHANGED <<challenge, overlapped>>

\* VerifyDeviceChallenge: four statements, no transaction.
ReadChallenge(r, c) ==
    /\ challenge[c].state = "open" /\ Usable(challenge[c].device)
    /\ Start(r, "answer", "mark", challenge[c].device, c, r)
    /\ UNCHANGED <<rows, overlapped>>

\* Asks only whether the challenge is unused.
MarkChallengeUsed(r) ==
    LET c == request[r].of IN
    /\ At(r, "mark") /\ challenge[c].state # "used"
    /\ challenge' = [challenge EXCEPT ![c].state = "used"]
    /\ Goto(r, "session")
    /\ UNCHANGED <<device, otp, pending, session, token, overlapped>>

AddAccessToken(r) ==
    /\ At(r, "session")
    /\ session' = [session EXCEPT ![r] =
          NewSession(r, request[r].device, {<<"challenge", request[r].of>>})]
    /\ Goto(r, "token")
    /\ UNCHANGED <<device, otp, pending, challenge, token, overlapped>>

AddRefreshToken(r) ==
    /\ At(r, "token")
    /\ token' = [token EXCEPT ![r] = NewToken(r)]
    /\ Finish(r)
    /\ UNCHANGED <<device, otp, pending, challenge, session, overlapped>>

-----------------------------------------------------------------------------
(* Refresh and logout *)

\* RefreshAccessToken checks token, session and device ...
ReadToken(r, t) ==
    LET s == token[t].session IN
    /\ token[t].state = "live"
    /\ session[s].state = "open" /\ Usable(session[s].device)
    /\ Start(r, "refresh", "rotate", session[s].device, t, r)
    /\ UNCHANGED <<rows, overlapped>>

\* Mutant: trusts the check made before the lock.
RotateUnchecked(r) ==
    LET t == request[r].of
        s == token[t].session IN
    /\ At(r, "rotate")
    /\ token[t].state # "deleted" /\ session[s].state = "open"
    /\ token' = [token EXCEPT ![t].state = "revoked", ![r] = NewToken(s)]
    /\ Finish(r)
    /\ UNCHANGED <<device, otp, pending, challenge, session, overlapped>>

\* ... and RotateRefreshToken locks the token and looks again.  The foreign key
\* of the new token asks for the session.
RotateRefreshToken(r) ==
    LET t == request[r].of
        s == token[t].session IN
    /\ At(r, "rotate")
    /\ token[t].state = "live" /\ session[s].state = "open"
    /\ token' = [token EXCEPT ![t].state = "revoked", ![r] = NewToken(s)]
    /\ Finish(r)
    /\ UNCHANGED <<device, otp, pending, challenge, session, overlapped>>

\* Logout takes any refresh token of the session, also a revoked one.
Logout(r, t) ==
    LET s == token[t].session IN
    /\ token[t].state # "none" /\ session[s].state = "open"
    /\ Start(r, "logout", "deactivate", session[s].device, t, r)
    /\ UNCHANGED <<rows, overlapped>>

DeactivateDevice(r) ==
    /\ At(r, "deactivate")
    /\ device' = [device EXCEPT ![request[r].device].active = FALSE]
    /\ Goto(r, "delete")
    /\ UNCHANGED <<otp, pending, challenge, session, token, overlapped>>

\* Mutant: no foreign key, only the token presented is deleted.
DeletePresentedToken(r) ==
    LET t == request[r].of IN
    /\ At(r, "delete")
    /\ session' = [session EXCEPT ![token[t].session].state = "deleted"]
    /\ token' = [token EXCEPT ![t].state = "deleted"]
    /\ Finish(r)
    /\ UNCHANGED <<device, otp, pending, challenge, overlapped>>

\* The foreign key deletes the tokens with the session, so that
\* DeleteRefreshToken, the next statement, finds nothing.
DeleteAccessToken(r) ==
    LET s == token[request[r].of].session IN
    /\ At(r, "delete")
    /\ session' = [session EXCEPT ![s].state = "deleted"]
    /\ token' = [t \in Rows |->
          IF token[t].session = s /\ token[t].state \in {"live", "revoked"}
          THEN [token[t] EXCEPT !.state = "deleted"] ELSE token[t]]
    /\ Finish(r)
    /\ UNCHANGED <<device, otp, pending, challenge, overlapped>>

-----------------------------------------------------------------------------
(* Time and faults *)

CodeExpires(o) ==
    /\ otp[o] = "active"
    /\ otp' = [otp EXCEPT ![o] = "expired"]
    /\ UNCHANGED <<device, pending, challenge, session, token, request, overlapped>>

PendingExpires(f) ==
    /\ pending[f].state = "open"
    /\ pending' = [pending EXCEPT ![f].state = "expired"]
    /\ UNCHANGED <<device, otp, challenge, session, token, request, overlapped>>

ChallengeExpires(c) ==
    /\ challenge[c].state = "open"
    /\ challenge' = [challenge EXCEPT ![c].state = "expired"]
    /\ UNCHANGED <<device, otp, pending, session, token, request, overlapped>>

\* Refused, failed, or gone with its process.
Ends(r) ==
    /\ request[r].pc \notin {"idle", "over"}
    /\ Finish(r)
    /\ UNCHANGED <<rows, overlapped>>

Enrol(r) ==
    \/ \E o \in Requests : Reissue(r, o)
    \/ IssueFirst(r)
    \/ CreateOTP(r)
    \/ CreatePending(r)
    \/ \E f \in Requests : Resend(r, f) \/ ReadPending(r, f)
    \/ RefreshPending(r)
    \/ VerifyNewDevice(r)

Answer(r) ==
    \/ \E t \in Rows, d \in Devices : RenewChallenge(r, t, d)
    \/ OpenChallenge(r)
    \/ \E c \in Requests : ReadChallenge(r, c)
    \/ MarkChallengeUsed(r)
    \/ AddAccessToken(r)
    \/ AddRefreshToken(r)

Keep(r) ==
    \/ \E t \in Rows : ReadToken(r, t) \/ Logout(r, t)
    \/ RotateRefreshToken(r)
    \/ DeactivateDevice(r)
    \/ DeleteAccessToken(r)

Next ==
    \E r \in Requests :
        \/ \E d \in Devices : LoginTrusted(r, d) \/ LoginNewDevice(r, d)
        \/ Enrol(r) \/ Answer(r) \/ Keep(r) \/ Ends(r)
        \/ CodeExpires(r) \/ PendingExpires(r) \/ ChallengeExpires(r)

Spec == Init /\ [][Next]_vars

-----------------------------------------------------------------------------
(* What must hold *)

\* No code, pending session or challenge pays for two sessions, however its
\* users race (VerifyNewDevice, VerifyDeviceChallenge).
SpentOnce ==
    \A r, q \in Rows : r # q => session[r].spent \cap session[q].spent = {}

\* "Ensure at most one active challenge exists for a user/device pair"
\* (device/repository.go).
OneOpenChallenge ==
    \A b, c \in Requests :
        /\ challenge[b].state \in {"open", "expired"}
        /\ challenge[c].state \in {"open", "expired"}
        /\ challenge[b].device = challenge[c].device
        => b = c

\* Refreshes in parallel leave one live refresh token per session.
OneLiveToken ==
    \A t, u \in Rows :
        /\ token[t].state = "live" /\ token[u].state = "live"
        /\ token[t].session = token[u].session
        => t = u

\* After a logout nothing can be refreshed, also by a refresh that had passed
\* its checks before: what is left of a session's tokens goes with it.
TokensNeedSession ==
    \A t \in Rows : token[t].state \in {"live", "revoked"} =>
        session[token[t].session].state = "open"

\* DeactiveOlderDevices leaves the user one usable device, as long as no login
\* from another new device is started while one is in progress.
OneUsableDevice ==
    ~overlapped => \A d, e \in Devices : Usable(d) /\ Usable(e) => d = e

\* A device becomes usable, the first time or after a logout, only in the step
\* that uses up a code and a pending session of that very device.
UsableByCode ==
    [][\A d \in Devices : ~Usable(d) /\ Usable(d)' =>
          /\ \E o \in Requests : otp[o] = "active" /\ otp'[o] = "consumed"
          /\ \E f \in Requests : /\ pending[f].device = d
                                 /\ pending[f].state # "used" /\ pending'[f].state = "used"]_vars
=============================================================================
