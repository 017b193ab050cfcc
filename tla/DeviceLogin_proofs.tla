-------------------------- MODULE DeviceLogin_proofs --------------------------
(***************************************************************************)
(* Proofs about DeviceLogin, for any number of devices and requests: every *)
(* code, pending session and challenge pays for one session, a session has *)
(* one live refresh token and none once it is deleted, and a user keeps    *)
(* one usable device while logins of new devices do not overlap.  Before   *)
(* that the limiter of the login routes (LoginLimiter), for any number of  *)
(* parallel requests: it blocks a key after a bounded number of failures.  *)
(***************************************************************************)
EXTENDS DeviceLogin, LoginLimiter, FiniteSetTheorems, TLAPS

\* What a request in flight is working on.
RequestSound(r) ==
    LET q == request[r] IN
    /\ q.pc \in {"issue", "insert", "issued"} => q.op \in {"login", "resend"}
    /\ q.pc = "verify" => q.op = "verify"
    /\ q.pc \in {"mark", "session", "token"} => q.op = "answer"
    /\ q.op \in {"verify", "resend", "answer"} => q.of \in Requests
    /\ q.op \in {"verify", "resend"} => /\ pending[q.of].state # "none"
                                        /\ pending[q.of].device = q.device
    /\ q.pc = "mark" => challenge[q.of].state # "none"
    /\ q.pc \in {"deactivate", "delete"} => token[q.of].state # "none"

\* A request has inserted nothing before it is there.
Fresh(r) ==
    LET pc == request[r].pc IN
    /\ pc \notin {"issued", "over"} => otp[r] = "none"
    /\ pc # "over" => pending[r].state = "none" /\ challenge[r].state = "none"
                      /\ token[r].state = "none"
    /\ pc \notin {"token", "over"} => session[r].state = "none"

\* What has been spent is marked.
SpentMarked ==
    \A s \in Rows, x \in Requests :
        /\ <<"otp", x>> \in session[s].spent => otp[x] = "consumed"
        /\ <<"pending", x>> \in session[s].spent => pending[x].state = "used"
        /\ <<"challenge", x>> \in session[s].spent => challenge[x].state = "used"

\* A request that has marked a challenge is the only one to be paid for it.
Paying(r) ==
    LET c == request[r].of IN
    request[r].pc = "session" =>
        /\ challenge[c].state = "used"
        /\ \A s \in Rows : <<"challenge", c>> \notin session[s].spent
        /\ \A q \in Requests : request[q].pc = "session" /\ request[q].of = c => q = r

\* Tokens belong to sessions that exist or did.
TokenRefs == \A t \in Rows :
    token[t].state # "none" => session[token[t].session].state # "none"

\* A session without its first token has none.
Awaiting(r) ==
    request[r].pc = "token" =>
        /\ session[r].state = "open"
        /\ \A t \in Rows : token[t].state # "none" => token[t].session # r

\* While new-device logins do not overlap, those in progress are for one device,
\* and no other device is usable.
Enrolling ==
    ~overlapped => \A f \in Requests : InProgress(f) =>
        /\ \A e \in Devices : Usable(e) => e = pending[f].device
        /\ \A g \in Requests : InProgress(g) => pending[g].device = pending[f].device

Sound ==
    /\ TypeOK
    /\ \A r \in Requests : RequestSound(r) /\ Fresh(r) /\ Paying(r) /\ Awaiting(r)
    /\ SpentMarked /\ SpentOnce
    /\ OneOpenChallenge
    /\ TokenRefs /\ TokensNeedSession /\ OneLiveToken
    /\ Enrolling /\ OneUsableDevice

-----------------------------------------------------------------------------
(* Types *)

Labels == {"idle", "issue", "insert", "issued", "challenge", "verify", "mark",
           "session", "token", "rotate", "deactivate", "delete", "over"}
Ops == {"none", "login", "resend", "verify", "answer", "renew", "refresh", "logout"}

\* Changing the request of one goroutine keeps the type of all.
LEMMA RequestTyped ==
    ASSUME request \in [Requests -> Request], NEW r \in Requests, NEW q \in Request,
           request' = [request EXCEPT ![r] = q]
    PROVE  request' \in [Requests -> Request]
  BY DEF Request

LEMMA GotoTyped ==
    ASSUME request \in [Requests -> Request], NEW r \in Requests, NEW pc \in Labels,
           Goto(r, pc)
    PROVE  request' \in [Requests -> Request]
  <1>1. [request[r] EXCEPT !.pc = pc] \in Request
    BY DEF Request, Labels
  <1>2. request' = [request EXCEPT ![r] = [request[r] EXCEPT !.pc = pc]]
    BY DEF Goto
  <1> QED BY <1>1, <1>2, RequestTyped

LEMMA FinishTyped ==
    ASSUME request \in [Requests -> Request], NEW r \in Requests, Finish(r)
    PROVE  request' \in [Requests -> Request]
  <1> DEFINE q == [pc |-> "over", op |-> "none", device |-> request[r].device,
                   of |-> r, otp |-> r]
  <1>1. q \in Request
    BY DEF Request, Rows
  <1>2. request' = [request EXCEPT ![r] = q]
    BY DEF Finish
  <1> QED BY <1>1, <1>2, RequestTyped

LEMMA StartTyped ==
    ASSUME request \in [Requests -> Request], NEW r \in Requests,
           NEW op \in Ops, NEW pc \in Labels, NEW d \in Devices, NEW of \in Rows,
           NEW o \in Requests, Start(r, op, pc, d, of, o)
    PROVE  request' \in [Requests -> Request]
  <1> DEFINE q == [pc |-> pc, op |-> op, device |-> d, of |-> of, otp |-> o]
  <1>1. q \in Request
    BY DEF Request, Labels, Ops
  <1>2. request' = [request EXCEPT ![r] = q]
    BY DEF Start
  <1> QED BY <1>1, <1>2, RequestTyped

LEMMA IssuedTyped ==
    ASSUME request \in [Requests -> Request], NEW r \in Requests, NEW o \in Requests,
           request' = [request EXCEPT ![r] = [@ EXCEPT !.pc = "issued", !.otp = o]]
    PROVE  request' \in [Requests -> Request]
  <1> DEFINE q == [request[r] EXCEPT !.pc = "issued", !.otp = o]
  <1>1. q \in Request
    <2>1. request[r] \in Request
      OBVIOUS
    <2> QED BY <2>1 DEF Request
  <1>2. request' = [request EXCEPT ![r] = q]
    OBVIOUS
  <1> QED BY <1>1, <1>2, RequestTyped

\* Every step keeps the types of the requests ...
LEMMA RequestsTyped ==
    ASSUME TypeOK, \A r \in Requests : RequestSound(r), [Next]_vars
    PROVE  request' \in [Requests -> Request]
  <1> USE DEF TypeOK
  <1>1. ASSUME NEW r \in Requests, NEW d \in Devices, LoginTrusted(r, d) \/ LoginNewDevice(r, d)
        PROVE  request' \in [Requests -> Request]
    BY <1>1, StartTyped DEF LoginTrusted, LoginNewDevice, Labels, Ops, Rows
  <1>2. ASSUME NEW r \in Requests, NEW o \in Requests, Reissue(r, o)
        PROVE  request' \in [Requests -> Request]
    BY <1>2, IssuedTyped DEF Reissue
  <1>3. ASSUME NEW r \in Requests, CreateOTP(r)
        PROVE  request' \in [Requests -> Request]
    BY <1>3, IssuedTyped DEF CreateOTP
  <1>4. ASSUME NEW r \in Requests,
               \/ IssueFirst(r) \/ MarkChallengeUsed(r) \/ AddAccessToken(r) \/ DeactivateDevice(r)
        PROVE  request' \in [Requests -> Request]
    <2>1. \E pc \in Labels : Goto(r, pc)
      BY <1>4 DEF IssueFirst, MarkChallengeUsed, AddAccessToken, DeactivateDevice, Labels
    <2> QED BY <2>1, GotoTyped
  <1>5. ASSUME NEW r \in Requests,
               \/ CreatePending(r) \/ RefreshPending(r) \/ VerifyNewDevice(r) \/ OpenChallenge(r)
               \/ AddRefreshToken(r) \/ RotateRefreshToken(r) \/ DeleteAccessToken(r) \/ Ends(r)
        PROVE  request' \in [Requests -> Request]
    <2>1. Finish(r)
      BY <1>5 DEF CreatePending, RefreshPending, VerifyNewDevice, OpenChallenge, AddRefreshToken,
                  RotateRefreshToken, DeleteAccessToken, Ends
    <2> QED BY <2>1, FinishTyped
  <1>6. ASSUME NEW r \in Requests, NEW f \in Requests,
               Resend(r, f) \/ ReadPending(r, f) \/ ReadChallenge(r, f)
        PROVE  request' \in [Requests -> Request]
    <2>1. pending[f].device \in Devices /\ pending[f].otp \in Requests
          /\ challenge[f].device \in Devices
      BY DEF PendingRow, ChallengeRow
    <2> QED BY <1>6, <2>1, StartTyped DEF Resend, ReadPending, ReadChallenge, Labels, Ops, Rows
  <1>7. ASSUME NEW r \in Requests, NEW t \in Rows, NEW d \in Devices, RenewChallenge(r, t, d)
        PROVE  request' \in [Requests -> Request]
    BY <1>7, StartTyped DEF RenewChallenge, Labels, Ops
  <1>8. ASSUME NEW r \in Requests, NEW t \in Rows, ReadToken(r, t) \/ Logout(r, t)
        PROVE  request' \in [Requests -> Request]
    <2>1. session[token[t].session].device \in Devices
      BY DEF TokenRow, SessionRow
    <2> QED BY <1>8, <2>1, StartTyped DEF ReadToken, Logout, Labels, Ops
  <1>9. CASE UNCHANGED request
    BY <1>9
  <1> QED
    BY <1>1, <1>2, <1>3, <1>4, <1>5, <1>6, <1>7, <1>8, <1>9
    DEF Next, Enrol, Answer, Keep, CodeExpires, PendingExpires, ChallengeExpires, vars

\* Who writes which table.
LEMMA DeviceWriters ==
    ASSUME [Next]_vars, device' # device
    PROVE  \E r \in Requests : CreatePending(r) \/ VerifyNewDevice(r) \/ DeactivateDevice(r)
  BY DEF Next, Enrol, Answer, Keep, vars, rows, LoginTrusted, LoginNewDevice, Reissue, IssueFirst,
         CreateOTP, Resend, ReadPending, RefreshPending, RenewChallenge, OpenChallenge, ReadChallenge,
         MarkChallengeUsed, AddAccessToken, AddRefreshToken, ReadToken, RotateRefreshToken, Logout,
         DeleteAccessToken, CodeExpires, PendingExpires, ChallengeExpires, Ends

LEMMA OtpWriters ==
    ASSUME [Next]_vars, otp' # otp
    PROVE  \E r \in Requests : CreateOTP(r) \/ VerifyNewDevice(r) \/ CodeExpires(r)
  BY DEF Next, Enrol, Answer, Keep, vars, rows, LoginTrusted, LoginNewDevice, Reissue, IssueFirst,
         CreatePending, Resend, ReadPending, RefreshPending, RenewChallenge, OpenChallenge, ReadChallenge,
         MarkChallengeUsed, AddAccessToken, AddRefreshToken, ReadToken, RotateRefreshToken, Logout,
         DeactivateDevice, DeleteAccessToken, PendingExpires, ChallengeExpires, Ends

LEMMA PendingWriters ==
    ASSUME [Next]_vars, pending' # pending
    PROVE  \E r \in Requests : \/ CreatePending(r) \/ RefreshPending(r) \/ VerifyNewDevice(r)
                               \/ PendingExpires(r)
  BY DEF Next, Enrol, Answer, Keep, vars, rows, LoginTrusted, LoginNewDevice, Reissue, IssueFirst,
         CreateOTP, Resend, ReadPending, RenewChallenge, OpenChallenge, ReadChallenge,
         MarkChallengeUsed, AddAccessToken, AddRefreshToken, ReadToken, RotateRefreshToken, Logout,
         DeactivateDevice, DeleteAccessToken, CodeExpires, ChallengeExpires, Ends

LEMMA ChallengeWriters ==
    ASSUME [Next]_vars, challenge' # challenge
    PROVE  \E r \in Requests : OpenChallenge(r) \/ MarkChallengeUsed(r) \/ ChallengeExpires(r)
  BY DEF Next, Enrol, Answer, Keep, vars, rows, LoginTrusted, LoginNewDevice, Reissue, IssueFirst,
         CreateOTP, CreatePending, Resend, ReadPending, RefreshPending, VerifyNewDevice, RenewChallenge,
         ReadChallenge, AddAccessToken, AddRefreshToken, ReadToken, RotateRefreshToken, Logout,
         DeactivateDevice, DeleteAccessToken, CodeExpires, PendingExpires, Ends

LEMMA SessionWriters ==
    ASSUME [Next]_vars, session' # session
    PROVE  \E r \in Requests : VerifyNewDevice(r) \/ AddAccessToken(r) \/ DeleteAccessToken(r)
  BY DEF Next, Enrol, Answer, Keep, vars, rows, LoginTrusted, LoginNewDevice, Reissue, IssueFirst,
         CreateOTP, CreatePending, Resend, ReadPending, RefreshPending, RenewChallenge, OpenChallenge,
         ReadChallenge, MarkChallengeUsed, AddRefreshToken, ReadToken, RotateRefreshToken, Logout,
         DeactivateDevice, CodeExpires, PendingExpires, ChallengeExpires, Ends

LEMMA TokenWriters ==
    ASSUME [Next]_vars, token' # token
    PROVE  \E r \in Requests : \/ VerifyNewDevice(r) \/ AddRefreshToken(r) \/ RotateRefreshToken(r)
                               \/ DeleteAccessToken(r)
  BY DEF Next, Enrol, Answer, Keep, vars, rows, LoginTrusted, LoginNewDevice, Reissue, IssueFirst,
         CreateOTP, CreatePending, Resend, ReadPending, RefreshPending, RenewChallenge, OpenChallenge,
         ReadChallenge, MarkChallengeUsed, AddAccessToken, ReadToken, Logout,
         DeactivateDevice, CodeExpires, PendingExpires, ChallengeExpires, Ends

LEMMA OverlapWriters ==
    ASSUME [Next]_vars, overlapped' # overlapped
    PROVE  \E r \in Requests : CreatePending(r)
  BY DEF Next, Enrol, Answer, Keep, vars, rows, LoginTrusted, LoginNewDevice, Reissue, IssueFirst,
         CreateOTP, Resend, ReadPending, RefreshPending, VerifyNewDevice, RenewChallenge, OpenChallenge,
         ReadChallenge, MarkChallengeUsed, AddAccessToken, AddRefreshToken, ReadToken,
         RotateRefreshToken, Logout, DeactivateDevice, DeleteAccessToken, CodeExpires, PendingExpires,
         ChallengeExpires, Ends

\* ... and of the rows.
LEMMA TypeStep ==
    ASSUME TypeOK, \A r \in Requests : RequestSound(r), [Next]_vars
    PROVE  TypeOK'
  <1>1. device' \in [Devices -> DeviceRow]
    <2>1. ASSUME NEW r \in Requests, CreatePending(r) PROVE device' \in [Devices -> DeviceRow]
      BY <2>1 DEF TypeOK, CreatePending, OnlyKeeps, DeviceRow
    <2>2. ASSUME NEW r \in Requests, VerifyNewDevice(r) PROVE device' \in [Devices -> DeviceRow]
      <3> DEFINE d == request[r].device
                 row == [Upserted(d) EXCEPT !.trusted = TRUE, !.active = TRUE]
      <3>1. d \in Devices /\ device[d] \in DeviceRow
        BY DEF TypeOK, Request
      <3>2. Upserted(d) \in DeviceRow
        BY <3>1 DEF Upserted, DeviceRow
      <3>3. row \in DeviceRow
        BY <3>2 DEF DeviceRow
      <3>4. device' = [device EXCEPT ![d] = row]
        BY <2>2 DEF VerifyNewDevice
      <3> QED BY <3>1, <3>3, <3>4 DEF TypeOK
    <2>3. ASSUME NEW r \in Requests, DeactivateDevice(r) PROVE device' \in [Devices -> DeviceRow]
      BY <2>3 DEF TypeOK, DeactivateDevice, DeviceRow, Request
    <2> QED BY <2>1, <2>2, <2>3, DeviceWriters DEF TypeOK
  <1>2. otp' \in [Requests -> OtpState]
    <2>1. ASSUME NEW r \in Requests, CreateOTP(r) \/ VerifyNewDevice(r) \/ CodeExpires(r)
          PROVE  otp' \in [Requests -> OtpState]
      BY <2>1 DEF TypeOK, CreateOTP, VerifyNewDevice, CodeExpires, OtpState
    <2> QED BY <2>1, OtpWriters DEF TypeOK
  <1>3. pending' \in [Requests -> PendingRow]
    <2>1. ASSUME NEW r \in Requests, CreatePending(r) PROVE pending' \in [Requests -> PendingRow]
      <3>1. [state |-> "open", device |-> request[r].device, otp |-> request[r].otp] \in PendingRow
        BY DEF TypeOK, PendingRow, Request
      <3> QED BY <2>1, <3>1 DEF TypeOK, CreatePending
    <2>2. ASSUME NEW r \in Requests, RefreshPending(r) PROVE pending' \in [Requests -> PendingRow]
      <3> DEFINE f == request[r].of
                 row == [pending[f] EXCEPT !.state = "open", !.otp = request[r].otp]
      <3>1. f \in Requests /\ request[r].otp \in Requests
        BY <2>2 DEF TypeOK, RefreshPending, RequestSound, Request
      <3>2. row \in PendingRow
        <4>1. pending[f] \in PendingRow
          BY <3>1 DEF TypeOK
        <4> QED BY <3>1, <4>1 DEF PendingRow
      <3>3. pending' \in {pending, [pending EXCEPT ![f] = row]}
        BY <2>2 DEF RefreshPending
      <3> QED BY <3>1, <3>2, <3>3 DEF TypeOK
    <2>3. ASSUME NEW f \in Requests, NEW state \in {"expired", "used"},
                 pending' = [pending EXCEPT ![f].state = state]
          PROVE  pending' \in [Requests -> PendingRow]
      BY <2>3 DEF TypeOK, PendingRow
    <2>4. ASSUME NEW r \in Requests, VerifyNewDevice(r) PROVE pending' \in [Requests -> PendingRow]
      <3>1. request[r].of \in Requests
        BY <2>4 DEF VerifyNewDevice, RequestSound, At
      <3> QED BY <2>3, <2>4, <3>1 DEF VerifyNewDevice
    <2>5. ASSUME NEW r \in Requests, PendingExpires(r) PROVE pending' \in [Requests -> PendingRow]
      BY <2>3, <2>5 DEF PendingExpires
    <2> QED BY <2>1, <2>2, <2>4, <2>5, PendingWriters DEF TypeOK
  <1>4. challenge' \in [Requests -> ChallengeRow]
    <2>1. ASSUME NEW r \in Requests, OpenChallenge(r) PROVE challenge' \in [Requests -> ChallengeRow]
      <3>1. Closed(request[r].device) \in [Requests -> ChallengeRow]
        BY DEF TypeOK, Closed, ChallengeRow
      <3>2. [state |-> "open", device |-> request[r].device] \in ChallengeRow
        BY DEF TypeOK, ChallengeRow, Request
      <3> QED BY <2>1, <3>1, <3>2 DEF OpenChallenge
    <2>2. ASSUME NEW r \in Requests, MarkChallengeUsed(r) \/ ChallengeExpires(r)
          PROVE  challenge' \in [Requests -> ChallengeRow]
      BY <2>2 DEF TypeOK, MarkChallengeUsed, ChallengeExpires, ChallengeRow
    <2> QED BY <2>1, <2>2, ChallengeWriters DEF TypeOK
  <1>5. session' \in [Rows -> SessionRow]
    <2>1. ASSUME NEW r \in Requests, NEW d \in Devices,
                 NEW spent \in SUBSET ({"otp", "pending", "challenge"} \X Requests),
                 session' = [session EXCEPT ![r] = NewSession(r, d, spent)]
          PROVE  session' \in [Rows -> SessionRow]
      <3>1. NewSession(r, d, spent) \in SessionRow
        BY DEF NewSession, SessionRow
      <3> QED BY <2>1, <3>1 DEF TypeOK
    <2>2. ASSUME NEW r \in Requests, VerifyNewDevice(r) PROVE session' \in [Rows -> SessionRow]
      <3>1. /\ request[r].device \in Devices /\ request[r].otp \in Requests
            /\ request[r].of \in Requests
        BY <2>2 DEF TypeOK, Request, VerifyNewDevice, RequestSound, At
      <3> DEFINE spent == {<<"otp", request[r].otp>>, <<"pending", request[r].of>>}
      <3>2. spent \in SUBSET ({"otp", "pending", "challenge"} \X Requests)
        BY <3>1
      <3> QED BY <2>1, <2>2, <3>1, <3>2 DEF VerifyNewDevice
    <2>3. ASSUME NEW r \in Requests, AddAccessToken(r) PROVE session' \in [Rows -> SessionRow]
      <3>1. request[r].device \in Devices /\ request[r].of \in Requests
        BY <2>3 DEF TypeOK, Request, AddAccessToken, RequestSound, At
      <3> DEFINE spent == {<<"challenge", request[r].of>>}
      <3>2. spent \in SUBSET ({"otp", "pending", "challenge"} \X Requests)
        BY <3>1
      <3> QED BY <2>1, <2>3, <3>1, <3>2 DEF AddAccessToken
    <2>4. ASSUME NEW r \in Requests, DeleteAccessToken(r) PROVE session' \in [Rows -> SessionRow]
      <3> DEFINE s == token[request[r].of].session
                 row == [session[s] EXCEPT !.state = "deleted"]
      <3>1. s \in Rows /\ session[s] \in SessionRow
        <4>1. request[r].of \in Rows
          BY DEF TypeOK, Request
        <4> QED BY <4>1 DEF TypeOK, TokenRow
      <3>2. row \in SessionRow
        BY <3>1 DEF SessionRow
      <3>3. session' = [session EXCEPT ![s] = row]
        BY <2>4 DEF DeleteAccessToken
      <3> QED BY <3>1, <3>2, <3>3 DEF TypeOK
    <2> QED BY <2>2, <2>3, <2>4, SessionWriters DEF TypeOK
  <1>6. token' \in [Rows -> TokenRow]
    <2>1. ASSUME NEW r \in Requests, VerifyNewDevice(r) \/ AddRefreshToken(r)
          PROVE  token' \in [Rows -> TokenRow]
      <3>1. NewToken(r) \in TokenRow
        BY DEF NewToken, TokenRow, Rows
      <3> QED BY <2>1, <3>1 DEF TypeOK, VerifyNewDevice, AddRefreshToken
    <2>2. ASSUME NEW r \in Requests, RotateRefreshToken(r) PROVE token' \in [Rows -> TokenRow]
      <3>1. request[r].of \in Rows
        BY DEF TypeOK, Request
      <3>2. NewToken(token[request[r].of].session) \in TokenRow
        BY <3>1 DEF TypeOK, NewToken, TokenRow
      <3> QED BY <2>2, <3>1, <3>2 DEF TypeOK, RotateRefreshToken, TokenRow
    <2>3. ASSUME NEW r \in Requests, DeleteAccessToken(r) PROVE token' \in [Rows -> TokenRow]
      BY <2>3 DEF TypeOK, DeleteAccessToken, TokenRow
    <2> QED BY <2>1, <2>2, <2>3, TokenWriters DEF TypeOK
  <1>7. overlapped' \in BOOLEAN
    BY OverlapWriters DEF TypeOK, CreatePending
  <1> QED BY <1>1, <1>2, <1>3, <1>4, <1>5, <1>6, <1>7, RequestsTyped DEF TypeOK

-----------------------------------------------------------------------------
(* Requests and the rows they know of *)

\* Rows do not vanish, and what identifies them does not change.
RowsStay ==
    /\ \A f \in Requests : pending[f].state # "none" =>
           pending'[f].state # "none" /\ pending'[f].device = pending[f].device
    /\ \A t \in Rows : token[t].state # "none" =>
           token'[t].state # "none" /\ token'[t].session = token[t].session
    /\ \A s \in Rows : session[s].state # "none" => session'[s].state # "none"
    /\ \A c \in Requests : challenge[c].state # "none" => challenge'[c].state # "none"

LEMMA RowsStayStep ==
    ASSUME TypeOK, \A r \in Requests : RequestSound(r) /\ Fresh(r), [Next]_vars
    PROVE  RowsStay
  <1>1. ASSUME NEW f \in Requests, pending[f].state # "none"
        PROVE  pending'[f].state # "none" /\ pending'[f].device = pending[f].device
    <2>1. ASSUME NEW r \in Requests, CreatePending(r) PROVE pending'[f] = pending[f]
      <3>1. f # r
        BY <1>1, <2>1 DEF CreatePending, At, Fresh
      <3> QED BY <2>1, <3>1 DEF CreatePending, TypeOK
    <2>2. ASSUME NEW r \in Requests, RefreshPending(r)
          PROVE  pending'[f].state # "none" /\ pending'[f].device = pending[f].device
      BY <1>1, <2>2 DEF RefreshPending, TypeOK, PendingRow
    <2>3. ASSUME NEW r \in Requests, VerifyNewDevice(r) \/ PendingExpires(r)
          PROVE  pending'[f].state # "none" /\ pending'[f].device = pending[f].device
      <3>1. \/ pending'[f] = pending[f]
            \/ pending'[f] = [pending[f] EXCEPT !.state = "used"]
            \/ pending'[f] = [pending[f] EXCEPT !.state = "expired"]
        BY <2>3 DEF VerifyNewDevice, PendingExpires, TypeOK
      <3>2. pending[f] \in PendingRow
        BY DEF TypeOK
      <3> QED BY <1>1, <3>1, <3>2 DEF PendingRow
    <2> QED BY <1>1, <2>1, <2>2, <2>3, PendingWriters
  <1>2. ASSUME NEW t \in Rows, token[t].state # "none"
        PROVE  token'[t].state # "none" /\ token'[t].session = token[t].session
    <2>1. ASSUME NEW r \in Requests, VerifyNewDevice(r) \/ AddRefreshToken(r)
          PROVE  token'[t] = token[t]
      <3>1. t # r
        BY <1>2, <2>1 DEF VerifyNewDevice, AddRefreshToken, At, Fresh
      <3> QED BY <2>1, <3>1 DEF VerifyNewDevice, AddRefreshToken, TypeOK
    <2>2. ASSUME NEW r \in Requests, RotateRefreshToken(r)
          PROVE  token'[t].state # "none" /\ token'[t].session = token[t].session
      <3>1. t # r
        BY <1>2, <2>2 DEF RotateRefreshToken, At, Fresh
      <3> QED BY <1>2, <2>2, <3>1 DEF RotateRefreshToken, TypeOK, TokenRow
    <2>3. ASSUME NEW r \in Requests, DeleteAccessToken(r)
          PROVE  token'[t].state # "none" /\ token'[t].session = token[t].session
      <3>1. \/ token'[t] = token[t]
            \/ token'[t] = [token[t] EXCEPT !.state = "deleted"]
        BY <2>3 DEF DeleteAccessToken
      <3>2. token[t] \in TokenRow
        BY DEF TypeOK
      <3> QED BY <1>2, <3>1, <3>2 DEF TokenRow
    <2> QED BY <1>2, <2>1, <2>2, <2>3, TokenWriters
  <1>3. ASSUME NEW s \in Rows, session[s].state # "none" PROVE session'[s].state # "none"
    <2>1. ASSUME NEW r \in Requests, VerifyNewDevice(r) \/ AddAccessToken(r)
          PROVE  session'[s].state # "none"
      BY <1>3, <2>1 DEF VerifyNewDevice, AddAccessToken, NewSession, TypeOK
    <2>2. ASSUME NEW r \in Requests, DeleteAccessToken(r) PROVE session'[s].state # "none"
      BY <1>3, <2>2 DEF DeleteAccessToken, TypeOK, SessionRow
    <2> QED BY <1>3, <2>1, <2>2, SessionWriters
  <1>4. ASSUME NEW c \in Requests, challenge[c].state # "none" PROVE challenge'[c].state # "none"
    <2>1. ASSUME NEW r \in Requests, OpenChallenge(r) PROVE challenge'[c].state # "none"
      BY <1>4, <2>1 DEF OpenChallenge, Closed, TypeOK, ChallengeRow
    <2>2. ASSUME NEW r \in Requests, MarkChallengeUsed(r) \/ ChallengeExpires(r)
          PROVE  challenge'[c].state # "none"
      BY <1>4, <2>2 DEF MarkChallengeUsed, ChallengeExpires, TypeOK, ChallengeRow
    <2> QED BY <1>4, <2>1, <2>2, ChallengeWriters
  <1> QED BY <1>1, <1>2, <1>3, <1>4 DEF RowsStay

\* Only its own steps move a request.
LEMMA Movers ==
    ASSUME TypeOK, [Next]_vars, NEW q \in Requests, request'[q] # request[q]
    PROVE  \/ \E d \in Devices : LoginTrusted(q, d) \/ LoginNewDevice(q, d)
           \/ Enrol(q) \/ Answer(q) \/ Keep(q) \/ Ends(q)
  <1>1. ASSUME NEW r \in Requests, r # q, \E v : request' = [request EXCEPT ![r] = v]
        PROVE  FALSE
    BY <1>1 DEF TypeOK
  <1>2. ASSUME NEW r \in Requests, NEW d \in Devices, LoginTrusted(r, d) \/ LoginNewDevice(r, d)
        PROVE  r = q
    BY <1>1, <1>2 DEF LoginTrusted, LoginNewDevice, Start
  <1>3. ASSUME NEW r \in Requests, Enrol(r) PROVE r = q
    BY <1>1, <1>3 DEF Enrol, Reissue, IssueFirst, CreateOTP, CreatePending, Resend, ReadPending,
                      RefreshPending, VerifyNewDevice, Start, Goto, Finish
  <1>4. ASSUME NEW r \in Requests, Answer(r) PROVE r = q
    BY <1>1, <1>4 DEF Answer, RenewChallenge, OpenChallenge, ReadChallenge, MarkChallengeUsed,
                      AddAccessToken, AddRefreshToken, Start, Goto, Finish
  <1>5. ASSUME NEW r \in Requests, Keep(r) PROVE r = q
    BY <1>1, <1>5 DEF Keep, ReadToken, RotateRefreshToken, Logout, DeactivateDevice,
                      DeleteAccessToken, Start, Goto, Finish
  <1>6. ASSUME NEW r \in Requests, Ends(r) PROVE r = q
    BY <1>1, <1>6 DEF Ends, Finish
  <1> QED
    BY <1>2, <1>3, <1>4, <1>5, <1>6
    DEF Next, CodeExpires, PendingExpires, ChallengeExpires, vars

\* The program of a request.
Continues(q) ==
    /\ <<request[q].pc, request'[q].pc>> \in
          {<<"issue", "insert">>, <<"issue", "issued">>, <<"insert", "issued">>, <<"mark", "session">>,
           <<"session", "token">>, <<"deactivate", "delete">>}
    /\ request'[q].op = request[q].op /\ request'[q].of = request[q].of
    /\ request'[q].device = request[q].device
Begins(q) ==
    /\ request[q].pc = "idle"
    /\ \/ request'[q].op = "login" /\ request'[q].pc \in {"challenge", "issue"}
       \/ request'[q].op = "renew" /\ request'[q].pc = "challenge"
       \/ \E f \in Requests : \/ Resend(q, f) \/ ReadPending(q, f) \/ ReadChallenge(q, f)
       \/ \E t \in Rows : ReadToken(q, t) \/ Logout(q, t)
IsOver(q) == request[q].pc # "idle" /\ request'[q].pc = "over" /\ request'[q].op = "none"

LEMMA Program ==
    ASSUME TypeOK, [Next]_vars, NEW q \in Requests, request'[q] # request[q]
    PROVE  Begins(q) \/ Continues(q) \/ IsOver(q)
  <1>0. request[q] \in Request
    BY DEF TypeOK
  <1>1. ASSUME NEW d \in Devices, LoginTrusted(q, d) \/ LoginNewDevice(q, d) PROVE Begins(q)
    BY <1>1 DEF LoginTrusted, LoginNewDevice, Start, At, Begins, TypeOK
  <1>2. ASSUME NEW t \in Rows, NEW d \in Devices, RenewChallenge(q, t, d) PROVE Begins(q)
    BY <1>2 DEF RenewChallenge, Start, At, Begins, TypeOK
  <1>3. ASSUME NEW f \in Requests, Resend(q, f) \/ ReadPending(q, f) \/ ReadChallenge(q, f)
        PROVE  Begins(q)
    BY <1>3 DEF Resend, ReadPending, ReadChallenge, Start, At, Begins
  <1>4. ASSUME NEW t \in Rows, ReadToken(q, t) \/ Logout(q, t) PROVE Begins(q)
    BY <1>4 DEF ReadToken, Logout, Start, At, Begins
  <1>5. ASSUME NEW pc, Goto(q, pc),
               <<request[q].pc, pc>> \in
                 {<<"issue", "insert">>, <<"mark", "session">>, <<"session", "token">>,
                  <<"deactivate", "delete">>}
        PROVE  Continues(q)
    BY <1>0, <1>5 DEF Goto, Continues, TypeOK, Request
  <1>6. ASSUME IssueFirst(q) \/ MarkChallengeUsed(q) \/ AddAccessToken(q) \/ DeactivateDevice(q)
        PROVE  Continues(q)
    BY <1>5, <1>6 DEF IssueFirst, MarkChallengeUsed, AddAccessToken, DeactivateDevice, At
  <1>7. ASSUME NEW o \in Requests, Reissue(q, o) PROVE Continues(q)
    BY <1>0, <1>7 DEF Reissue, At, Continues, TypeOK, Request
  <1>8. ASSUME CreateOTP(q) PROVE Continues(q)
    BY <1>0, <1>8 DEF CreateOTP, At, Continues, TypeOK, Request
  <1>9. ASSUME \/ CreatePending(q) \/ RefreshPending(q) \/ VerifyNewDevice(q) \/ OpenChallenge(q)
               \/ AddRefreshToken(q) \/ RotateRefreshToken(q) \/ DeleteAccessToken(q) \/ Ends(q)
        PROVE  IsOver(q)
    <2>1. Finish(q) /\ request[q].pc # "idle"
      BY <1>9 DEF CreatePending, RefreshPending, VerifyNewDevice, OpenChallenge, AddRefreshToken,
                  RotateRefreshToken, DeleteAccessToken, Ends, At
    <2> QED BY <2>1 DEF Finish, IsOver, TypeOK
  <1> QED
    BY Movers, <1>1, <1>2, <1>3, <1>4, <1>6, <1>7, <1>8, <1>9 DEF Enrol, Answer, Keep

\* Requests stay sound, whoever moves.
LEMMA RequestStep ==
    ASSUME TypeOK, \A r \in Requests : RequestSound(r) /\ Fresh(r), [Next]_vars, NEW q \in Requests
    PROVE  RequestSound(q)'
  <1> USE RowsStayStep
  <1>0. request[q] \in Request /\ request[q].of \in Rows
    BY DEF TypeOK, Request
  <1>1. CASE request'[q] = request[q]
    BY <1>0, <1>1 DEF RowsStay, RequestSound
  <1>2. CASE Continues(q)
    BY <1>0, <1>2 DEF RowsStay, RequestSound, Continues
  <1>3. CASE IsOver(q)
    BY <1>3 DEF RequestSound, IsOver
  <1>4. CASE Begins(q)
    <2>1. ASSUME request'[q].op \in {"login", "renew"}, request'[q].pc \in {"challenge", "issue"},
                 request'[q].op = "login" \/ request'[q].pc = "challenge"
          PROVE  RequestSound(q)'
      BY <2>1 DEF RequestSound
    <2>2. ASSUME NEW f \in Requests, Resend(q, f) \/ ReadPending(q, f) PROVE RequestSound(q)'
      BY <2>2 DEF Resend, ReadPending, Start, TypeOK, RequestSound, rows
    <2>3. ASSUME NEW c \in Requests, ReadChallenge(q, c) PROVE RequestSound(q)'
      BY <2>3 DEF ReadChallenge, Start, TypeOK, RequestSound, rows
    <2>4. ASSUME NEW t \in Rows, ReadToken(q, t) \/ Logout(q, t) PROVE RequestSound(q)'
      BY <2>4 DEF ReadToken, Logout, Start, TypeOK, RequestSound, rows
    <2> QED BY <1>4, <2>1, <2>2, <2>3, <2>4 DEF Begins
  <1> QED BY <1>1, <1>2, <1>3, <1>4, Program

\* A request that is past inserting stays so.
LEMMA Forward ==
    ASSUME TypeOK, [Next]_vars, NEW q \in Requests
    PROVE  /\ request[q].pc = "over" => request'[q].pc = "over"
           /\ request[q].pc = "issued" => request'[q].pc \in {"issued", "over"}
           /\ request[q].pc = "token" => request'[q].pc \in {"token", "over"}
  BY Program DEF Begins, Continues, IsOver

LEMMA FreshStep ==
    ASSUME TypeOK, \A r \in Requests : RequestSound(r) /\ Fresh(r), TokenRefs,
           [Next]_vars, NEW q \in Requests
    PROVE  Fresh(q)'
  <1> USE Forward
  <1>1. ASSUME request'[q].pc \notin {"issued", "over"} PROVE otp'[q] = "none"
    <2>1. otp[q] = "none"
      BY <1>1 DEF Fresh
    <2>2. ASSUME NEW r \in Requests, CreateOTP(r) PROVE otp'[q] = "none"
      BY <1>1, <2>1, <2>2 DEF CreateOTP, TypeOK
    <2>3. ASSUME NEW r \in Requests, VerifyNewDevice(r) \/ CodeExpires(r) PROVE otp'[q] = "none"
      BY <2>1, <2>3 DEF VerifyNewDevice, CodeExpires, Consumable, TypeOK
    <2> QED BY <2>1, <2>2, <2>3, OtpWriters
  <1>2. ASSUME request'[q].pc # "over" PROVE pending'[q].state = "none"
    <2>1. pending[q].state = "none"
      BY <1>2 DEF Fresh
    <2>2. ASSUME NEW r \in Requests, CreatePending(r) PROVE pending'[q].state = "none"
      BY <1>2, <2>1, <2>2 DEF CreatePending, Finish, TypeOK
    <2>3. ASSUME NEW r \in Requests, RefreshPending(r) \/ VerifyNewDevice(r) PROVE q # request[r].of
      BY <2>1, <2>3 DEF RefreshPending, VerifyNewDevice, At, RequestSound
    <2>4. ASSUME NEW r \in Requests,
                 RefreshPending(r) \/ VerifyNewDevice(r) \/ PendingExpires(r)
          PROVE  pending'[q] = pending[q]
      BY <2>1, <2>3, <2>4 DEF RefreshPending, VerifyNewDevice, PendingExpires, TypeOK
    <2> QED BY <2>1, <2>2, <2>4, PendingWriters
  <1>3. ASSUME request'[q].pc # "over" PROVE challenge'[q].state = "none"
    <2>1. challenge[q].state = "none"
      BY <1>3 DEF Fresh
    <2>2. ASSUME NEW r \in Requests, OpenChallenge(r) PROVE challenge'[q] = challenge[q]
      <3>1. q # r
        BY <1>3, <2>2 DEF OpenChallenge, Finish, TypeOK
      <3> QED BY <2>1, <2>2, <3>1 DEF OpenChallenge, Closed
    <2>3. ASSUME NEW r \in Requests, MarkChallengeUsed(r) PROVE challenge'[q].state = "none"
      <3>1. q # request[r].of
        BY <2>1, <2>3 DEF MarkChallengeUsed, At, RequestSound
      <3> QED BY <2>1, <2>3, <3>1 DEF MarkChallengeUsed, TypeOK
    <2>4. ASSUME NEW r \in Requests, ChallengeExpires(r) PROVE challenge'[q] = challenge[q]
      BY <2>1, <2>4 DEF ChallengeExpires, TypeOK
    <2> QED BY <2>1, <2>2, <2>3, <2>4, ChallengeWriters
  <1>4. ASSUME request'[q].pc # "over" PROVE token'[q].state = "none"
    <2>1. token[q].state = "none" /\ q \in Rows
      BY <1>4 DEF Fresh, Rows
    <2>2. ASSUME NEW r \in Requests,
                 VerifyNewDevice(r) \/ AddRefreshToken(r) \/ RotateRefreshToken(r)
          PROVE  q # r
      BY <1>4, <2>2 DEF VerifyNewDevice, AddRefreshToken, RotateRefreshToken, Finish, TypeOK
    <2>3. ASSUME NEW r \in Requests, VerifyNewDevice(r) \/ AddRefreshToken(r)
          PROVE  token'[q] = token[q]
      BY <2>1, <2>2, <2>3 DEF VerifyNewDevice, AddRefreshToken, TypeOK
    <2>4. ASSUME NEW r \in Requests, RotateRefreshToken(r) PROVE token'[q] = token[q]
      BY <2>1, <2>2, <2>4 DEF RotateRefreshToken, TypeOK
    <2>5. ASSUME NEW r \in Requests, DeleteAccessToken(r) PROVE token'[q] = token[q]
      BY <2>1, <2>5 DEF DeleteAccessToken
    <2> QED BY <2>1, <2>3, <2>4, <2>5, TokenWriters
  <1>5. ASSUME request'[q].pc \notin {"token", "over"} PROVE session'[q].state = "none"
    <2>1. session[q].state = "none" /\ q \in Rows
      BY <1>5 DEF Fresh, Rows
    <2>2. ASSUME NEW r \in Requests, VerifyNewDevice(r) \/ AddAccessToken(r)
          PROVE  q # r
      BY <1>5, <2>2 DEF VerifyNewDevice, AddAccessToken, Finish, Goto, TypeOK, Request
    <2>3. ASSUME NEW r \in Requests, VerifyNewDevice(r) \/ AddAccessToken(r)
          PROVE  session'[q] = session[q]
      BY <2>1, <2>2, <2>3 DEF VerifyNewDevice, AddAccessToken, TypeOK
    <2>4. ASSUME NEW r \in Requests, DeleteAccessToken(r) PROVE session'[q] = session[q]
      <3>1. token[request[r].of].session # q
        <4>1. request[r].of \in Rows /\ token[request[r].of].state # "none"
          BY <2>4 DEF DeleteAccessToken, At, RequestSound, TypeOK, Request
        <4> QED BY <2>1, <4>1 DEF TokenRefs
      <3> QED BY <2>1, <2>4, <3>1 DEF DeleteAccessToken, TypeOK
    <2> QED BY <2>1, <2>3, <2>4, SessionWriters
  <1> QED BY <1>1, <1>2, <1>3, <1>4, <1>5 DEF Fresh

-----------------------------------------------------------------------------
(* What is spent stays spent, and is spent once *)

LEMMA UsedStays ==
    ASSUME TypeOK, \A r \in Requests : RequestSound(r) /\ Fresh(r), [Next]_vars, NEW x \in Requests
    PROVE  /\ otp[x] = "consumed" => otp'[x] = "consumed"
           /\ pending[x].state = "used" => pending'[x].state = "used"
           /\ challenge[x].state = "used" => challenge'[x].state = "used"
  <1>1. ASSUME otp[x] = "consumed" PROVE otp'[x] = "consumed"
    <2>1. ASSUME NEW r \in Requests, CreateOTP(r) PROVE x # r
      BY <1>1, <2>1 DEF CreateOTP, At, Fresh
    <2> QED BY <1>1, <2>1, OtpWriters DEF CreateOTP, VerifyNewDevice, CodeExpires, TypeOK
  <1>2. ASSUME pending[x].state = "used" PROVE pending'[x].state = "used"
    <2>1. ASSUME NEW r \in Requests, CreatePending(r) PROVE pending'[x] = pending[x]
      <3>1. x # r
        BY <1>2, <2>1 DEF CreatePending, At, Fresh
      <3> QED BY <2>1, <3>1 DEF CreatePending, TypeOK
    <2>2. ASSUME NEW r \in Requests, RefreshPending(r) \/ PendingExpires(r)
          PROVE  pending'[x] = pending[x]
      BY <1>2, <2>2 DEF RefreshPending, PendingExpires, TypeOK
    <2>3. ASSUME NEW r \in Requests, VerifyNewDevice(r) PROVE pending'[x] = pending[x]
      BY <1>2, <2>3 DEF VerifyNewDevice, TypeOK
    <2> QED BY <1>2, <2>1, <2>2, <2>3, PendingWriters
  <1>3. ASSUME challenge[x].state = "used" PROVE challenge'[x].state = "used"
    <2>1. ASSUME NEW r \in Requests, OpenChallenge(r) PROVE challenge'[x] = challenge[x]
      <3>1. x # r
        BY <1>3, <2>1 DEF OpenChallenge, At, Fresh
      <3> QED BY <1>3, <2>1, <3>1 DEF OpenChallenge, Closed, TypeOK
    <2>2. ASSUME NEW r \in Requests, MarkChallengeUsed(r) \/ ChallengeExpires(r)
          PROVE  challenge'[x] = challenge[x]
      BY <1>3, <2>2 DEF MarkChallengeUsed, ChallengeExpires, TypeOK
    <2> QED BY <1>3, <2>1, <2>2, ChallengeWriters
  <1> QED BY <1>1, <1>2, <1>3

\* What a step adds to the spent rows of a session.
LEMMA Spending ==
    ASSUME TypeOK, \A r \in Requests : RequestSound(r) /\ Fresh(r), [Next]_vars, NEW s \in Rows
    PROVE  \/ session'[s].spent = session[s].spent
           \/ /\ s \in Requests /\ VerifyNewDevice(s)
              /\ session'[s].spent = {<<"otp", request[s].otp>>, <<"pending", request[s].of>>}
           \/ /\ s \in Requests /\ AddAccessToken(s)
              /\ session'[s].spent = {<<"challenge", request[s].of>>}
  <1>1. ASSUME NEW r \in Requests, VerifyNewDevice(r), s # r PROVE session'[s] = session[s]
    BY <1>1 DEF VerifyNewDevice, TypeOK
  <1>2. ASSUME NEW r \in Requests, VerifyNewDevice(r), s = r
        PROVE session'[s].spent = {<<"otp", request[s].otp>>, <<"pending", request[s].of>>}
    BY <1>2 DEF VerifyNewDevice, TypeOK, NewSession
  <1>3. ASSUME NEW r \in Requests, AddAccessToken(r), s # r PROVE session'[s] = session[s]
    BY <1>3 DEF AddAccessToken, TypeOK
  <1>4. ASSUME NEW r \in Requests, AddAccessToken(r), s = r
        PROVE session'[s].spent = {<<"challenge", request[s].of>>}
    BY <1>4 DEF AddAccessToken, TypeOK, NewSession
  <1>5. ASSUME NEW r \in Requests, DeleteAccessToken(r) PROVE session'[s].spent = session[s].spent
    <2>1. session'[s] \in {session[s], [session[s] EXCEPT !.state = "deleted"]}
      BY <1>5 DEF DeleteAccessToken, TypeOK
    <2>2. session[s] \in SessionRow
      BY DEF TypeOK
    <2> QED BY <2>1, <2>2 DEF SessionRow
  <1> QED BY <1>1, <1>2, <1>3, <1>4, <1>5, SessionWriters

LEMMA SpentMarkedStep ==
    ASSUME TypeOK, \A r \in Requests : RequestSound(r) /\ Fresh(r) /\ Paying(r), SpentMarked,
           [Next]_vars
    PROVE  SpentMarked'
  <1> SUFFICES ASSUME NEW s \in Rows, NEW x \in Requests
               PROVE  /\ <<"otp", x>> \in session'[s].spent => otp'[x] = "consumed"
                      /\ <<"pending", x>> \in session'[s].spent => pending'[x].state = "used"
                      /\ <<"challenge", x>> \in session'[s].spent => challenge'[x].state = "used"
    BY DEF SpentMarked
  <1>1. CASE session'[s].spent = session[s].spent
    BY <1>1, UsedStays DEF SpentMarked
  <1>2. ASSUME s \in Requests, VerifyNewDevice(s),
               session'[s].spent = {<<"otp", request[s].otp>>, <<"pending", request[s].of>>}
        PROVE  /\ <<"otp", x>> \in session'[s].spent => otp'[x] = "consumed"
               /\ <<"pending", x>> \in session'[s].spent => pending'[x].state = "used"
               /\ <<"challenge", x>> \notin session'[s].spent
    <2>1. request[s].otp \in Requests /\ request[s].of \in Requests
      BY <1>2 DEF VerifyNewDevice, At, RequestSound, TypeOK, Request
    <2>2. otp'[request[s].otp] = "consumed" /\ pending'[request[s].of].state = "used"
      BY <1>2, <2>1 DEF VerifyNewDevice, TypeOK, PendingRow
    <2> QED BY <1>2, <2>2
  <1>3. ASSUME s \in Requests, AddAccessToken(s),
               session'[s].spent = {<<"challenge", request[s].of>>}
        PROVE  /\ <<"otp", x>> \notin session'[s].spent
               /\ <<"pending", x>> \notin session'[s].spent
               /\ <<"challenge", x>> \in session'[s].spent => challenge'[x].state = "used"
    BY <1>3, UsedStays DEF AddAccessToken, At, Paying
  <1> QED BY <1>1, <1>2, <1>3, Spending

LEMMA SpentOnceStep ==
    ASSUME TypeOK, \A r \in Requests : RequestSound(r) /\ Fresh(r) /\ Paying(r), SpentMarked,
           SpentOnce, [Next]_vars
    PROVE  SpentOnce'
  <1>1. ASSUME NEW r \in Rows, NEW q \in Rows, r # q, session'[q].spent = session[q].spent
        PROVE  session'[r].spent \cap session'[q].spent = {}
    <2>1. CASE session'[r].spent = session[r].spent
      BY <1>1, <2>1 DEF SpentOnce
    <2>2. ASSUME r \in Requests, VerifyNewDevice(r),
                 session'[r].spent = {<<"otp", request[r].otp>>, <<"pending", request[r].of>>}
          PROVE  session'[r].spent \cap session'[q].spent = {}
      <3>1. request[r].otp \in Requests /\ request[r].of \in Requests
        BY <2>2 DEF VerifyNewDevice, At, RequestSound, TypeOK, Request
      <3>2. otp[request[r].otp] # "consumed" /\ pending[request[r].of].state # "used"
        BY <2>2 DEF VerifyNewDevice, Consumable
      <3>3. /\ <<"otp", request[r].otp>> \notin session[q].spent
            /\ <<"pending", request[r].of>> \notin session[q].spent
        BY <3>1, <3>2 DEF SpentMarked
      <3> QED BY <1>1, <2>2, <3>3
    <2>3. ASSUME r \in Requests, AddAccessToken(r),
                 session'[r].spent = {<<"challenge", request[r].of>>}
          PROVE  session'[r].spent \cap session'[q].spent = {}
      <3>1. <<"challenge", request[r].of>> \notin session[q].spent
        BY <2>3 DEF AddAccessToken, At, Paying
      <3> QED BY <1>1, <2>3, <3>1
    <2> QED BY <2>1, <2>2, <2>3, Spending
  <1>2. ASSUME NEW r \in Rows, NEW q \in Rows, r # q
        PROVE  session'[q].spent = session[q].spent \/ session'[r].spent = session[r].spent
    <2>1. ASSUME r \in Requests, VerifyNewDevice(r) \/ AddAccessToken(r)
          PROVE  session'[q] = session[q]
      BY <1>2, <2>1 DEF VerifyNewDevice, AddAccessToken, TypeOK
    <2> QED BY <2>1, Spending
  <1> QED BY <1>1, <1>2 DEF SpentOnce

\* How a request gets to the steps where it is paid.
LEMMA Arrivals ==
    ASSUME TypeOK, [Next]_vars, NEW q \in Requests, request'[q] # request[q]
    PROVE  /\ request'[q].pc = "session" => MarkChallengeUsed(q)
           /\ request'[q].pc = "token" => AddAccessToken(q)
  <1>1. ASSUME NEW d \in Devices, LoginTrusted(q, d) \/ LoginNewDevice(q, d)
        PROVE  request'[q].pc \notin {"session", "token"}
    BY <1>1 DEF LoginTrusted, LoginNewDevice, Start, TypeOK
  <1>2. ASSUME Enrol(q) PROVE request'[q].pc \notin {"session", "token"}
    <2>1. request[q] \in Request
      BY DEF TypeOK
    <2>2. ASSUME NEW o \in Requests, Reissue(q, o) PROVE request'[q].pc = "issued"
      BY <2>1, <2>2 DEF Reissue, TypeOK, Request
    <2>3. ASSUME CreateOTP(q) PROVE request'[q].pc = "issued"
      BY <2>1, <2>3 DEF CreateOTP, TypeOK, Request
    <2>4. ASSUME NEW f \in Requests, Resend(q, f) \/ ReadPending(q, f)
          PROVE  request'[q].pc \in {"issue", "verify"}
      BY <2>4 DEF Resend, ReadPending, Start, TypeOK
    <2>5. ASSUME IssueFirst(q) PROVE request'[q].pc = "insert"
      BY <2>1, <2>5 DEF IssueFirst, Goto, TypeOK, Request
    <2>6. ASSUME CreatePending(q) \/ RefreshPending(q) \/ VerifyNewDevice(q)
          PROVE  request'[q].pc = "over"
      BY <2>6 DEF CreatePending, RefreshPending, VerifyNewDevice, Finish, TypeOK
    <2> QED BY <1>2, <2>2, <2>3, <2>4, <2>5, <2>6 DEF Enrol
  <1>3. ASSUME Answer(q)
        PROVE  \/ MarkChallengeUsed(q) /\ request'[q].pc = "session"
               \/ AddAccessToken(q) /\ request'[q].pc = "token"
               \/ request'[q].pc \notin {"session", "token"}
    BY <1>3 DEF Answer, RenewChallenge, OpenChallenge, ReadChallenge, MarkChallengeUsed,
                AddAccessToken, AddRefreshToken, Start, Goto, Finish, TypeOK, Request
  <1>4. ASSUME Keep(q) PROVE request'[q].pc \notin {"session", "token"}
    BY <1>4 DEF Keep, ReadToken, RotateRefreshToken, Logout, DeactivateDevice,
                DeleteAccessToken, Start, Goto, Finish, TypeOK, Request
  <1>5. ASSUME Ends(q) PROVE request'[q].pc \notin {"session", "token"}
    BY <1>5 DEF Ends, Finish, TypeOK
  <1> QED BY Movers, <1>1, <1>2, <1>3, <1>4, <1>5

LEMMA PayingStep ==
    ASSUME TypeOK, \A r \in Requests : RequestSound(r) /\ Fresh(r) /\ Paying(r), SpentMarked,
           [Next]_vars, NEW q \in Requests
    PROVE  Paying(q)'
  <1> DEFINE c == request'[q].of
  <1> SUFFICES ASSUME request'[q].pc = "session"
               PROVE  /\ challenge'[c].state = "used"
                      /\ \A s \in Rows : <<"challenge", c>> \notin session'[s].spent
                      /\ \A p \in Requests : request'[p].pc = "session" /\ request'[p].of = c => p = q
    BY DEF Paying
  <1>1. CASE request'[q] = request[q]
    <2>1. /\ c \in Requests /\ challenge[c].state = "used"
          /\ \A s \in Rows : <<"challenge", c>> \notin session[s].spent
          /\ \A p \in Requests : request[p].pc = "session" /\ request[p].of = c => p = q
      BY <1>1 DEF Paying, RequestSound
    <2>2. challenge'[c].state = "used"
      BY <2>1, UsedStays
    <2>3. ASSUME NEW s \in Rows PROVE <<"challenge", c>> \notin session'[s].spent
      <3>1. ASSUME s \in Requests, AddAccessToken(s) PROVE request[s].of # c
        <4>1. request'[s] # request[s] /\ request[s].pc = "session"
          BY <3>1 DEF AddAccessToken, At, Goto, TypeOK, Request
        <4> QED BY <1>1, <2>1, <3>1, <4>1
      <3> QED BY <2>1, <3>1, Spending
    <2>4. ASSUME NEW p \in Requests, request'[p].pc = "session", request'[p].of = c PROVE p = q
      <3>1. CASE request'[p] = request[p]
        BY <2>1, <2>4, <3>1
      <3>2. CASE request'[p] # request[p]
        <4>1. MarkChallengeUsed(p)
          BY <2>4, <3>2, Arrivals
        <4>2. request[p].of = c /\ challenge[request[p].of].state # "used"
          BY <2>4, <4>1 DEF MarkChallengeUsed, Goto, TypeOK, Request
        <4> QED BY <2>1, <4>2
      <3> QED BY <3>1, <3>2
    <2> QED BY <2>2, <2>3, <2>4
  <1>2. CASE request'[q] # request[q]
    <2>1. MarkChallengeUsed(q)
      BY <1>2, Arrivals
    <2>2. /\ request[q].of = c /\ c \in Requests /\ challenge[c].state # "used"
          /\ session' = session /\ challenge' = [challenge EXCEPT ![c].state = "used"]
          /\ request' = [request EXCEPT ![q].pc = "session"]
      BY <2>1 DEF MarkChallengeUsed, At, Goto, RequestSound, TypeOK, Request
    <2>3. challenge'[c].state = "used"
      BY <2>2 DEF TypeOK, ChallengeRow
    <2>4. ASSUME NEW s \in Rows PROVE <<"challenge", c>> \notin session'[s].spent
      BY <2>2 DEF SpentMarked
    <2>5. ASSUME NEW p \in Requests, request'[p].pc = "session", request'[p].of = c, p # q PROVE FALSE
      <3>1. request[p].pc = "session" /\ request[p].of = c
        BY <2>2, <2>5 DEF TypeOK
      <3> QED BY <2>2, <3>1 DEF Paying
    <2> QED BY <2>3, <2>4, <2>5
  <1> QED BY <1>1, <1>2

-----------------------------------------------------------------------------
(* Challenges and tokens *)

LEMMA OneOpenChallengeStep ==
    ASSUME TypeOK, OneOpenChallenge, [Next]_vars
    PROVE  OneOpenChallenge'
  <1>1. ASSUME NEW r \in Requests, OpenChallenge(r) PROVE OneOpenChallenge'
    <2>1. ASSUME NEW c \in Requests, c # r
          PROVE  \/ challenge'[c].state \notin {"open", "expired"}
                 \/ /\ challenge'[c] = challenge[c]
                    /\ challenge'[c].device # challenge'[r].device
      BY <1>1, <2>1 DEF OpenChallenge, Closed, TypeOK, ChallengeRow
    <2> QED BY <2>1 DEF OneOpenChallenge
  <1>2. ASSUME NEW r \in Requests, MarkChallengeUsed(r) PROVE OneOpenChallenge'
    <2>1. ASSUME NEW c \in Requests, challenge'[c].state \in {"open", "expired"}
          PROVE  challenge'[c] = challenge[c]
      BY <1>2, <2>1 DEF MarkChallengeUsed, TypeOK, ChallengeRow
    <2> QED BY <2>1 DEF OneOpenChallenge
  <1>3. ASSUME NEW r \in Requests, ChallengeExpires(r) PROVE OneOpenChallenge'
    <2>1. ASSUME NEW c \in Requests
          PROVE  /\ challenge'[c].device = challenge[c].device
                 /\ challenge'[c].state \in {"open", "expired"} =>
                        challenge[c].state \in {"open", "expired"}
      BY <1>3 DEF ChallengeExpires, TypeOK, ChallengeRow
    <2> QED BY <2>1 DEF OneOpenChallenge
  <1>4. CASE challenge' = challenge
    BY <1>4 DEF OneOpenChallenge
  <1> QED BY <1>1, <1>2, <1>3, <1>4, ChallengeWriters

\* The row a step adds to the tokens, and what happens to the others.
LEMMA TokenStep ==
    ASSUME TypeOK, \A r \in Requests : RequestSound(r) /\ Fresh(r), [Next]_vars, NEW t \in Rows
    PROVE  \/ token'[t] = token[t]
           \/ /\ t \in Requests /\ token[t].state = "none"
              /\ VerifyNewDevice(t) \/ AddRefreshToken(t)
              /\ token'[t] = NewToken(t)
           \/ /\ t \in Requests /\ token[t].state = "none" /\ RotateRefreshToken(t)
              /\ token'[t] = NewToken(token[request[t].of].session)
           \/ token'[t].state \notin {"live", "none"} /\ token[t].state # "none"
              /\ token'[t].session = token[t].session
  <1>0. token[t] \in TokenRow
    BY DEF TypeOK
  <1>1. ASSUME NEW r \in Requests, VerifyNewDevice(r) \/ AddRefreshToken(r)
        PROVE  \/ token'[t] = token[t]
               \/ t = r /\ token[t].state = "none" /\ token'[t] = NewToken(t)
    BY <1>1 DEF VerifyNewDevice, AddRefreshToken, At, Fresh, TypeOK
  <1>2. ASSUME NEW r \in Requests, RotateRefreshToken(r)
        PROVE  \/ token'[t] = token[t]
               \/ /\ t = r /\ token[t].state = "none"
                  /\ token'[t] = NewToken(token[request[t].of].session)
               \/ /\ token'[t].state = "revoked" /\ token[t].state # "none"
                  /\ token'[t].session = token[t].session
    <2>1. token[r].state = "none" /\ token[request[r].of].state = "live"
      BY <1>2 DEF RotateRefreshToken, At, Fresh
    <2>2. CASE t = r
      BY <1>2, <2>1, <2>2 DEF RotateRefreshToken, TypeOK
    <2>3. CASE t # r /\ t = request[r].of
      BY <1>0, <1>2, <2>1, <2>3 DEF RotateRefreshToken, TypeOK, TokenRow
    <2>4. CASE t # r /\ t # request[r].of
      BY <1>2, <2>4 DEF RotateRefreshToken, TypeOK
    <2> QED BY <2>2, <2>3, <2>4
  <1>3. ASSUME NEW r \in Requests, DeleteAccessToken(r)
        PROVE  \/ token'[t] = token[t]
               \/ token'[t].state = "deleted" /\ token[t].state # "none"
                  /\ token'[t].session = token[t].session
    BY <1>0, <1>3 DEF DeleteAccessToken, TokenRow
  <1> QED BY <1>1, <1>2, <1>3, TokenWriters

\* Everything the token invariants rest on.
TokensSound ==
    /\ TypeOK
    /\ \A r \in Requests : RequestSound(r) /\ Fresh(r) /\ Awaiting(r)
    /\ TokenRefs /\ TokensNeedSession /\ OneLiveToken

\* A session stays open unless it is logged out, with all its tokens.
LEMMA SessionStep ==
    ASSUME TypeOK, [Next]_vars, NEW s \in Rows, session[s].state = "open"
    PROVE  \/ session'[s].state = "open"
           \/ \E r \in Requests : DeleteAccessToken(r) /\ token[request[r].of].session = s
  <1>1. ASSUME NEW r \in Requests, VerifyNewDevice(r) \/ AddAccessToken(r)
        PROVE  session'[s].state = "open"
    BY <1>1 DEF VerifyNewDevice, AddAccessToken, NewSession, TypeOK
  <1>2. ASSUME NEW r \in Requests, DeleteAccessToken(r), token[request[r].of].session # s
        PROVE  session'[s].state = "open"
    BY <1>2 DEF DeleteAccessToken, TypeOK
  <1> QED BY <1>1, <1>2, SessionWriters

LEMMA AwaitingStep ==
    ASSUME TokensSound, [Next]_vars, NEW q \in Requests
    PROVE  Awaiting(q)'
  <1> USE DEF TokensSound
  <1> SUFFICES ASSUME request'[q].pc = "token"
               PROVE  /\ session'[q].state = "open"
                      /\ \A t \in Rows : token'[t].state # "none" => token'[t].session # q
    BY DEF Awaiting
  <1>0. q \in Rows
    BY DEF Rows
  <1>1. CASE request'[q] = request[q]
    <2>1. /\ session[q].state = "open"
          /\ \A t \in Rows : token[t].state # "none" => token[t].session # q
      BY <1>1 DEF Awaiting
    <2>2. session'[q].state = "open"
      <3>1. ASSUME NEW r \in Requests, DeleteAccessToken(r) PROVE token[request[r].of].session # q
        <4>1. request[r].of \in Rows /\ token[request[r].of].state # "none"
          BY <3>1 DEF DeleteAccessToken, At, RequestSound, TypeOK, Request
        <4> QED BY <2>1, <4>1
      <3> QED BY <1>0, <2>1, <3>1, SessionStep
    <2>3. ASSUME NEW t \in Rows, token'[t].state # "none" PROVE token'[t].session # q
      <3>1. ASSUME t \in Requests, VerifyNewDevice(t) \/ AddRefreshToken(t), token'[t] = NewToken(t)
            PROVE  token'[t].session # q
        <4>1. request'[t] # request[t]
          BY <3>1 DEF VerifyNewDevice, AddRefreshToken, At, Finish, TypeOK
        <4> QED BY <1>1, <3>1, <4>1 DEF NewToken
      <3>2. ASSUME t \in Requests, RotateRefreshToken(t),
                   token'[t] = NewToken(token[request[t].of].session)
            PROVE  token'[t].session # q
        <4>1. request[t].of \in Rows /\ token[request[t].of].state = "live"
          BY <3>2 DEF RotateRefreshToken, TypeOK, Request
        <4> QED BY <2>1, <3>2, <4>1 DEF NewToken
      <3> QED BY <2>1, <2>3, <3>1, <3>2, TokenStep
    <2> QED BY <2>2, <2>3
  <1>2. CASE request'[q] # request[q]
    <2>1. AddAccessToken(q)
      BY <1>2, Arrivals
    <2>2. session[q].state = "none"
      BY <2>1 DEF AddAccessToken, At, Fresh
    <2>3. session'[q].state = "open" /\ token' = token
      BY <1>0, <2>1 DEF AddAccessToken, NewSession, TypeOK
    <2> QED BY <2>2, <2>3 DEF TokenRefs
  <1> QED BY <1>1, <1>2

\* The session of a new token is open, and has no other live token.
LEMMA NewTokens ==
    ASSUME TokensSound, [Next]_vars, NEW t \in Requests, token[t].state = "none",
           NEW s \in Rows, token'[t] = NewToken(s),
           \/ s = t /\ (VerifyNewDevice(t) \/ AddRefreshToken(t))
           \/ s = token[request[t].of].session /\ RotateRefreshToken(t)
    PROVE  /\ session'[s].state = "open"
           /\ \A u \in Rows : u # t /\ token'[u].state = "live" => token'[u].session # s
  <1> USE DEF TokensSound
  <1>1. CASE VerifyNewDevice(t) /\ s = t
    <2>1. session[t].state = "none"
      BY <1>1 DEF VerifyNewDevice, At, Fresh
    <2>2. ASSUME NEW u \in Rows, u # t PROVE token'[u] = token[u]
      BY <1>1, <2>2 DEF VerifyNewDevice, TypeOK
    <2>3. session'[t].state = "open"
      BY <1>1 DEF VerifyNewDevice, NewSession, TypeOK, Rows
    <2> QED BY <1>1, <2>1, <2>2, <2>3 DEF TokenRefs
  <1>2. CASE AddRefreshToken(t) /\ s = t
    <2>1. /\ session[t].state = "open"
          /\ \A u \in Rows : token[u].state # "none" => token[u].session # t
      BY <1>2 DEF AddRefreshToken, At, Awaiting
    <2>2. ASSUME NEW u \in Rows, u # t PROVE token'[u] = token[u]
      BY <1>2, <2>2 DEF AddRefreshToken, TypeOK
    <2>3. session' = session
      BY <1>2 DEF AddRefreshToken
    <2> QED BY <1>2, <2>1, <2>2, <2>3
  <1>3. CASE RotateRefreshToken(t) /\ s = token[request[t].of].session
    <2> DEFINE old == request[t].of
    <2>1. /\ old \in Rows /\ token[old].state = "live" /\ session[s].state = "open"
          /\ session' = session
      BY <1>3 DEF RotateRefreshToken, TypeOK, Request
    <2>2. token'[old].state # "live"
      BY <1>3, <2>1 DEF RotateRefreshToken, TypeOK, TokenRow
    <2>3. ASSUME NEW u \in Rows, u # t, u # old PROVE token'[u] = token[u]
      BY <1>3, <2>3 DEF RotateRefreshToken, TypeOK
    <2>4. ASSUME NEW u \in Rows, u # t, token'[u].state = "live" PROVE token'[u].session # s
      BY <1>3, <2>1, <2>2, <2>3, <2>4 DEF OneLiveToken
    <2> QED BY <2>1, <2>4
  <1> QED BY <1>1, <1>2, <1>3

LEMMA TokensStep ==
    ASSUME TokensSound, [Next]_vars
    PROVE  TokenRefs' /\ TokensNeedSession' /\ OneLiveToken'
  <1> USE DEF TokensSound
  <1> DEFINE New(t) == /\ t \in Requests /\ token[t].state = "none"
                       /\ \E s \in Rows : /\ token'[t] = NewToken(s)
                                          /\ \/ s = t /\ (VerifyNewDevice(t) \/ AddRefreshToken(t))
                                             \/ /\ s = token[request[t].of].session
                                                /\ RotateRefreshToken(t)
  <1>1. ASSUME NEW t \in Rows
        PROVE  \/ token'[t] = token[t] \/ New(t)
               \/ token'[t].state \notin {"live", "none"} /\ token[t].state # "none"
                  /\ token'[t].session = token[t].session
    <2>1. t \in Requests => token[request[t].of].session \in Rows
      BY DEF TypeOK, Request, TokenRow
    <2> QED BY <2>1, TokenStep
  <1>2. ASSUME NEW t \in Rows, New(t)
        PROVE  /\ token'[t].state = "live" /\ session'[token'[t].session].state = "open"
               /\ \A u \in Rows : u # t /\ token'[u].state = "live" =>
                      token'[u].session # token'[t].session
    BY <1>2, NewTokens DEF NewToken
  <1> HIDE DEF New
  <1>3. TokenRefs'
    <2> SUFFICES ASSUME NEW t \in Rows, token'[t].state # "none"
                 PROVE  session'[token'[t].session].state # "none"
      BY DEF TokenRefs
    <2>1. CASE New(t)
      BY <1>2, <2>1
    <2>2. CASE ~New(t)
      <3>1. token[t].state # "none" /\ token'[t].session = token[t].session
            /\ token[t].session \in Rows
        BY <1>1, <2>2 DEF TypeOK, TokenRow
      <3> QED BY <3>1, RowsStayStep DEF TokenRefs, RowsStay
    <2> QED BY <2>1, <2>2
  <1>4. TokensNeedSession'
    <2> SUFFICES ASSUME NEW t \in Rows, token'[t].state \in {"live", "revoked"}
                 PROVE  session'[token'[t].session].state = "open"
      BY DEF TokensNeedSession
    <2>1. CASE New(t)
      BY <1>2, <2>1
    <2>2. CASE ~New(t)
      <3>1. /\ token[t].state # "none" /\ token'[t].session = token[t].session
            /\ token[t].session \in Rows
        BY <1>1, <2>2 DEF TypeOK, TokenRow
      <3>2. token[t].state \in {"live", "revoked"}
        <4>1. ASSUME token[t].state = "deleted" PROVE token'[t].state = "deleted"
          <5>1. ASSUME NEW r \in Requests, RotateRefreshToken(r) PROVE token'[t] = token[t]
            <6>1. token[r].state = "none" /\ token[request[r].of].state = "live"
              BY <5>1 DEF RotateRefreshToken, At, Fresh
            <6> QED BY <4>1, <5>1, <6>1 DEF RotateRefreshToken, TypeOK
          <5>2. ASSUME NEW r \in Requests, VerifyNewDevice(r) \/ AddRefreshToken(r)
                PROVE  token'[t] = token[t]
            <6>1. token[r].state = "none"
              BY <5>2 DEF VerifyNewDevice, AddRefreshToken, At, Fresh
            <6> QED BY <4>1, <5>2, <6>1 DEF VerifyNewDevice, AddRefreshToken, TypeOK
          <5>3. ASSUME NEW r \in Requests, DeleteAccessToken(r) PROVE token'[t] = token[t]
            BY <4>1, <5>3 DEF DeleteAccessToken
          <5> QED BY <4>1, <5>1, <5>2, <5>3, TokenWriters
        <4> QED BY <3>1, <4>1 DEF TypeOK, TokenRow
      <3>3. ASSUME NEW r \in Requests, DeleteAccessToken(r)
            PROVE  token[request[r].of].session # token[t].session
        BY <3>2, <3>3 DEF DeleteAccessToken, TypeOK, TokenRow
      <3> QED BY <3>1, <3>2, <3>3, SessionStep DEF TokensNeedSession
    <2> QED BY <2>1, <2>2
  <1>5. OneLiveToken'
    <2> SUFFICES ASSUME NEW t \in Rows, NEW u \in Rows, t # u,
                        token'[t].state = "live", token'[u].state = "live",
                        token'[t].session = token'[u].session
                 PROVE  FALSE
      BY DEF OneLiveToken
    <2>1. CASE New(t) \/ New(u)
      BY <1>2, <2>1
    <2>2. CASE ~New(t) /\ ~New(u)
      <3>1. token'[t] = token[t] /\ token'[u] = token[u]
        BY <1>1, <2>2
      <3> QED BY <3>1 DEF OneLiveToken
    <2> QED BY <2>1, <2>2
  <1> QED BY <1>3, <1>4, <1>5

-----------------------------------------------------------------------------
(* Devices *)

\* Only CreatePending brings a login into progress.
LEMMA InProgressStep ==
    ASSUME TypeOK, \A r \in Requests : RequestSound(r) /\ Fresh(r), [Next]_vars,
           NEW f \in Requests, InProgress(f)', ~CreatePending(f)
    PROVE  InProgress(f) /\ pending'[f].device = pending[f].device
  <1>1. pending'[f].state \in {"open", "expired"}
    BY DEF InProgress
  <1>2. ASSUME NEW r \in Requests, CreatePending(r) PROVE pending'[f] = pending[f]
    BY <1>2 DEF CreatePending, TypeOK
  <1>3. ASSUME NEW r \in Requests, RefreshPending(r)
        PROVE  pending'[f] = pending[f] \/ InProgress(f)
    <2>1. request[r].op = "resend" /\ request[r].of \in Requests
          /\ pending[request[r].of].state # "none"
      BY <1>3 DEF RefreshPending, RequestSound
    <2>2. CASE request[r].of = f /\ pending[f].state # "used"
      BY <2>1, <2>2 DEF InProgress, TypeOK, PendingRow
    <2>3. CASE request[r].of # f \/ pending[f].state = "used"
      BY <1>3, <2>3 DEF RefreshPending, TypeOK
    <2> QED BY <2>2, <2>3
  <1>4. ASSUME NEW r \in Requests, VerifyNewDevice(r) PROVE pending'[f] = pending[f]
    <2>1. CASE f = request[r].of
      BY <1>1, <1>4, <2>1 DEF VerifyNewDevice, TypeOK, PendingRow
    <2>2. CASE f # request[r].of
      BY <1>4, <2>2 DEF VerifyNewDevice, TypeOK
    <2> QED BY <2>1, <2>2
  <1>5. ASSUME NEW r \in Requests, PendingExpires(r)
        PROVE  pending'[f] = pending[f] \/ InProgress(f)
    BY <1>5 DEF PendingExpires, InProgress, TypeOK
  <1>6. CASE pending'[f] = pending[f] /\ pending[f].state = "open"
    BY <1>6 DEF InProgress
  <1>7. CASE pending'[f] = pending[f] /\ pending[f].state = "expired"
    <2>1. PICK r \in Requests : request'[r].op \in {"verify", "resend"} /\ request'[r].of = f
      BY <1>7 DEF InProgress
    <2>2. request[r].op \in {"verify", "resend"} /\ request[r].of = f
      <3>1. ASSUME Begins(r) PROVE FALSE
        <4>1. ASSUME NEW g \in Requests, Resend(r, g) \/ ReadPending(r, g)
              PROVE  request'[r].of = g /\ pending[g].state = "open"
          BY <4>1 DEF Resend, ReadPending, Start, TypeOK
        <4>2. ASSUME NEW g \in Requests, ReadChallenge(r, g) PROVE request'[r].op = "answer"
          BY <4>2 DEF ReadChallenge, Start, TypeOK
        <4>3. ASSUME NEW t \in Rows, ReadToken(r, t) \/ Logout(r, t)
              PROVE  request'[r].op \in {"refresh", "logout"}
          BY <4>3 DEF ReadToken, Logout, Start, TypeOK
        <4> QED BY <1>7, <2>1, <3>1, <4>1, <4>2, <4>3 DEF Begins
      <3>2. CASE Continues(r)
        BY <2>1, <3>2 DEF Continues
      <3>3. CASE IsOver(r)
        BY <2>1, <3>3 DEF IsOver
      <3> QED BY <2>1, <3>1, <3>2, <3>3, Program
    <2> QED BY <1>7, <2>2 DEF InProgress
  <1>8. InProgress(f)
    BY <1>1, <1>2, <1>3, <1>4, <1>5, <1>6, <1>7, PendingWriters
  <1>9. pending'[f].device = pending[f].device
    BY <1>8, RowsStayStep DEF RowsStay, InProgress
  <1> QED BY <1>8, <1>9

\* Only VerifyNewDevice makes a device usable.
LEMMA UsableStep ==
    ASSUME TypeOK, \A r \in Requests : RequestSound(r) /\ Fresh(r), [Next]_vars,
           NEW e \in Devices, Usable(e)'
    PROVE  \/ Usable(e)
           \/ \E r \in Requests :
                 /\ VerifyNewDevice(r) /\ request[r].device = e /\ request[r].of \in Requests
                 /\ InProgress(request[r].of) /\ pending[request[r].of].device = e
  <1>0. device[e] \in DeviceRow
    BY DEF TypeOK
  <1>1. ASSUME NEW r \in Requests, CreatePending(r) PROVE Usable(e)
    <2>1. device'[e] \in {device[e], [device[e] EXCEPT !.active = FALSE]}
      BY <1>1 DEF CreatePending, OnlyKeeps
    <2> QED BY <1>0, <2>1 DEF Usable, DeviceRow
  <1>2. ASSUME NEW r \in Requests, DeactivateDevice(r) PROVE Usable(e)
    <2>1. device'[e] \in {device[e], [device[e] EXCEPT !.active = FALSE]}
      BY <1>2 DEF DeactivateDevice, TypeOK
    <2> QED BY <1>0, <2>1 DEF Usable, DeviceRow
  <1>3. ASSUME NEW r \in Requests, VerifyNewDevice(r), request[r].device # e PROVE Usable(e)
    <2>1. device'[e] = device[e]
      BY <1>3 DEF VerifyNewDevice, TypeOK
    <2> QED BY <2>1 DEF Usable
  <1>4. ASSUME NEW r \in Requests, VerifyNewDevice(r)
        PROVE  /\ request[r].of \in Requests /\ InProgress(request[r].of)
               /\ pending[request[r].of].device = request[r].device
    <2> DEFINE f == request[r].of
    <2>1. /\ request[r].op = "verify" /\ f \in Requests
          /\ pending[f].state \notin {"none", "used"}
          /\ pending[f].device = request[r].device
      BY <1>4 DEF VerifyNewDevice, At, RequestSound
    <2>2. pending[f].state \in {"open", "expired"}
      BY <2>1 DEF TypeOK, PendingRow
    <2> QED BY <2>1, <2>2 DEF InProgress
  <1>5. CASE device' = device
    BY <1>5 DEF Usable
  <1> QED BY <1>1, <1>2, <1>3, <1>4, <1>5, DeviceWriters

LEMMA EnrollingStep ==
    ASSUME TypeOK, \A r \in Requests : RequestSound(r) /\ Fresh(r), Enrolling, OneUsableDevice,
           [Next]_vars
    PROVE  Enrolling' /\ OneUsableDevice'
  <1> SUFFICES ASSUME ~overlapped' PROVE Enrolling' /\ OneUsableDevice'
    BY DEF Enrolling, OneUsableDevice
  <1>0. ~overlapped
    BY OverlapWriters DEF CreatePending
  <1>1. ASSUME NEW r \in Requests, CreatePending(r)
        PROVE  Enrolling' /\ OneUsableDevice'
    <2> DEFINE d == request[r].device
    <2>1. ASSUME NEW f \in Requests, InProgress(f)' PROVE pending'[f].device = d
      <3>1. CASE f = r
        BY <1>1, <3>1 DEF CreatePending, TypeOK
      <3>2. CASE f # r
        <4>1. ~CreatePending(f)
          <5>1. request' = [request EXCEPT ![r] = request'[r]] /\ r # f
            BY <1>1, <3>2 DEF CreatePending, Finish, TypeOK
          <5> QED BY <5>1 DEF CreatePending, Finish, At, TypeOK
        <4>2. InProgress(f) /\ pending'[f].device = pending[f].device
          BY <2>1, <4>1, InProgressStep
        <4> QED BY <1>1, <4>2 DEF CreatePending
      <3> QED BY <3>1, <3>2
    <2>2. ASSUME NEW e \in Devices, Usable(e)' PROVE e = d
      BY <1>1, <2>2 DEF CreatePending, OnlyKeeps, Usable, TypeOK, DeviceRow
    <2> QED BY <2>1, <2>2 DEF Enrolling, OneUsableDevice
  <1>2. ASSUME \A r \in Requests : ~CreatePending(r)
        PROVE  Enrolling' /\ OneUsableDevice'
    <2>1. ASSUME NEW f \in Requests, InProgress(f)'
          PROVE  InProgress(f) /\ pending'[f].device = pending[f].device
      BY <1>2, <2>1, InProgressStep
    <2>2. ASSUME NEW f \in Requests, InProgress(f), NEW e \in Devices, Usable(e)'
          PROVE  e = pending[f].device
      BY <1>0, <2>2, UsableStep DEF Enrolling
    <2>3. Enrolling'
      BY <1>0, <2>1, <2>2 DEF Enrolling
    <2>4. ASSUME NEW d \in Devices, NEW e \in Devices, Usable(d)', Usable(e)' PROVE d = e
      <3>1. CASE Usable(d) /\ Usable(e)
        BY <1>0, <3>1 DEF OneUsableDevice
      <3>2. CASE ~(Usable(d) /\ Usable(e))
        <4>1. \E f \in Requests : InProgress(f)
          BY <2>4, <3>2, UsableStep
        <4> QED BY <2>2, <2>4, <4>1
      <3> QED BY <3>1, <3>2
    <2> QED BY <2>3, <2>4 DEF OneUsableDevice
  <1> QED BY <1>1, <1>2

-----------------------------------------------------------------------------
(* The results *)

LEMMA InitSound == Init => Sound
  <1> SUFFICES ASSUME Init PROVE Sound
    OBVIOUS
  <1> PICK home \in Devices :
        /\ device = [d \in Devices |->
                        [known |-> d = home, trusted |-> d = home, active |-> d = home]]
        /\ otp = [r \in Requests |-> "none"]
        /\ pending = [r \in Requests |-> [state |-> "none", device |-> home, otp |-> r]]
        /\ challenge = [r \in Requests |-> [state |-> "none", device |-> home]]
        /\ session = [r \in Rows |->
                        [state |-> IF r = Origin THEN "open" ELSE "none",
                         device |-> home, spent |-> {}]]
        /\ token = [r \in Rows |->
                        [state |-> IF r = Origin THEN "live" ELSE "none", session |-> r]]
        /\ request = [r \in Requests |->
                        [pc |-> "idle", op |-> "none", device |-> home, of |-> r, otp |-> r]]
        /\ overlapped = FALSE
    BY DEF Init
  <1> USE OriginAssumption DEF Rows
  <1>1. TypeOK
    BY DEF TypeOK, DeviceRow, OtpState, PendingRow, ChallengeRow, SessionRow, TokenRow, Request
  <1>2. \A r \in Requests : RequestSound(r) /\ Fresh(r) /\ Paying(r) /\ Awaiting(r)
    BY DEF RequestSound, Fresh, Paying, Awaiting
  <1>3. SpentMarked /\ SpentOnce /\ OneOpenChallenge
    BY DEF SpentMarked, SpentOnce, OneOpenChallenge
  <1>4. TokenRefs /\ TokensNeedSession /\ OneLiveToken
    BY DEF TokenRefs, TokensNeedSession, OneLiveToken
  <1>5. \A f \in Requests : ~InProgress(f)
    BY DEF InProgress
  <1>6. Enrolling /\ OneUsableDevice
    BY <1>5 DEF Enrolling, OneUsableDevice, Usable
  <1> QED BY <1>1, <1>2, <1>3, <1>4, <1>6 DEF Sound

LEMMA SoundStep == Sound /\ [Next]_vars => Sound'
  <1> SUFFICES ASSUME Sound, [Next]_vars PROVE Sound'
    OBVIOUS
  <1> USE DEF Sound
  <1>1. TypeOK'
    BY TypeStep
  <1>2. \A r \in Requests : RequestSound(r)' /\ Fresh(r)'
    BY RequestStep, FreshStep
  <1>3. \A r \in Requests : Paying(r)'
    BY PayingStep
  <1>4. TokensSound
    BY DEF TokensSound
  <1>5. \A r \in Requests : Awaiting(r)'
    BY <1>4, AwaitingStep
  <1>6. SpentMarked' /\ SpentOnce'
    BY SpentMarkedStep, SpentOnceStep
  <1>7. OneOpenChallenge'
    BY OneOpenChallengeStep
  <1>8. TokenRefs' /\ TokensNeedSession' /\ OneLiveToken'
    BY <1>4, TokensStep
  <1>9. Enrolling' /\ OneUsableDevice'
    BY EnrollingStep
  <1> QED BY <1>1, <1>2, <1>3, <1>5, <1>6, <1>7, <1>8, <1>9

\* The inductive invariant holds in every state: the flows of service_login.go
\* and service_logout.go never lose track of codes, challenges and tokens.
THEOREM SoundLogins == Spec => []Sound
  BY InitSound, SoundStep, PTL DEF Spec

\* The tables and goroutines of the login flows are well typed.
THEOREM TypeCorrectLogins == Spec => []TypeOK
  BY SoundLogins, PTL DEF Sound

\* No code, pending session or challenge gets two sessions issued, however
\* many requests of VerifyNewDevice and VerifyDeviceChallenge race for it.
THEOREM SpentOnceAlways == Spec => []SpentOnce
  BY SoundLogins, PTL DEF Sound

\* CreateChallenge of the device repository leaves one challenge open.
THEOREM OneOpenChallengeAlways == Spec => []OneOpenChallenge
  BY SoundLogins, PTL DEF Sound

\* Refreshes in parallel leave one live refresh token per session, because
\* RotateRefreshToken looks again under the lock of the token's row.
THEOREM OneLiveTokenAlways == Spec => []OneLiveToken
  BY SoundLogins, PTL DEF Sound

\* No refresh token, live or revoked, survives the logout of its session, also
\* when a refresh that had passed its checks before goes on afterwards.
THEOREM TokensAlways == Spec => []TokensNeedSession
  BY SoundLogins, PTL DEF Sound

\* DeactiveOlderDevices leaves one usable device while logins do not overlap.
THEOREM OneUsableDeviceAlways == Spec => []OneUsableDevice
  BY SoundLogins, PTL DEF Sound

\* A device becomes usable only by VerifyNewDevice, which spends a code and
\* a pending session of that device.
THEOREM UsableByCodeAlways == Spec => UsableByCode
  <1> DEFINE Paid(d) == ~Usable(d) /\ Usable(d)' =>
                /\ \E o \in Requests : otp[o] = "active" /\ otp'[o] = "consumed"
                /\ \E f \in Requests : /\ pending[f].device = d
                                       /\ pending[f].state # "used" /\ pending'[f].state = "used"
  <1>1. Sound /\ [Next]_vars => [\A d \in Devices : Paid(d)]_vars
    <2> SUFFICES ASSUME Sound, [Next]_vars, NEW d \in Devices, ~Usable(d), Usable(d)'
                 PROVE  /\ \E o \in Requests : otp[o] = "active" /\ otp'[o] = "consumed"
                        /\ \E f \in Requests : /\ pending[f].device = d
                                               /\ pending[f].state # "used"
                                               /\ pending'[f].state = "used"
      OBVIOUS
    <2>1. PICK r \in Requests :
             /\ VerifyNewDevice(r) /\ request[r].of \in Requests
             /\ pending[request[r].of].device = d
      BY UsableStep DEF Sound
    <2>2. TypeOK
      BY DEF Sound
    <2>3. request[r].otp \in Requests
      BY <2>2 DEF TypeOK, Request
    <2>4. otp[request[r].otp] = "active" /\ otp'[request[r].otp] = "consumed"
      BY <2>1, <2>2, <2>3 DEF VerifyNewDevice, Consumable, TypeOK
    <2>5. /\ pending[request[r].of].state # "used"
          /\ pending'[request[r].of].state = "used"
      BY <2>1, <2>2 DEF VerifyNewDevice, TypeOK, PendingRow
    <2> QED BY <2>1, <2>3, <2>4, <2>5
  <1> QED BY <1>1, SoundLogins, PTL DEF Spec, UsableByCode

-----------------------------------------------------------------------------
(* The limiter in front of the login routes (LoginLimiter) *)

\* Who may still fail a login of a key, and who has and is not counted yet.
LetIn(k) == {c \in Clients :
    \/ client[c].pc = "phone" /\ client[c].ip = k
    \/ client[c].pc = "login" /\ k \in KeysOf(c)}
Uncounted(k) == {c \in Clients :
    \/ client[c].pc = "fail" /\ k \in KeysOf(c)
    \/ client[c].pc = "failPhone" /\ client[c].phone = k}

\* LimiterTypeOK without the order of the entries.
LimiterTyped ==
    /\ count \in [Keys -> Nat] /\ blocked \in [Keys -> BOOLEAN]
    /\ client \in [Clients -> Client]
    /\ failed \in [Keys -> Nat] /\ crowded \in BOOLEAN

\* What a key has failed is counted, or waits to be; once the key is blocked,
\* only those let in before can fail it.
Covered(t, k) ==
    IF crowded THEN failed[k] = 0
    ELSE IF blocked[k]
    THEN failed[k] + Cardinality(LetIn(k)) <= MaxFailures[t] + Cardinality(Clients) - 1
    ELSE /\ failed[k] <= count[k] + Cardinality(Uncounted(k))
         /\ count[k] < MaxFailures[t]

LimiterCovered ==
    LimiterTyped /\ \A t \in Tables : \A k \in KeysIn(t) : Covered(t, k)

\* The phone table is only asked and written for a phone number.
Numbered == \A c \in Clients :
    client[c].pc \in {"phone", "failPhone"} => client[c].phone # NoPhone

LimiterSound == LimiterCovered /\ Numbered

LEMMA TableKeys == \A t \in Tables : KeysIn(t) \subseteq Keys
  BY DEF KeysIn, Tables, Keys

\* Requests are finitely many, and what they are counted in is too.
LEMMA ClientSets ==
    ASSUME NEW S \in SUBSET Clients
    PROVE  /\ IsFiniteSet(S) /\ Cardinality(S) \in Nat
           /\ Cardinality(Clients) \in Nat /\ Cardinality(S) <= Cardinality(Clients)
  BY FS_Subset, FS_CardinalityType, LimiterAssumption

LEMMA FewerClients ==
    ASSUME NEW S \in SUBSET Clients, NEW T \in SUBSET S
    PROVE  Cardinality(T) <= Cardinality(S)
  BY FS_Subset, ClientSets

LEMMA OneClientMore ==
    ASSUME NEW S \in SUBSET Clients, NEW c \in Clients, c \notin S,
           NEW T, S \cup {c} = T
    PROVE  Cardinality(T) = Cardinality(S) + 1
  BY FS_AddElement, ClientSets

LEMMA ApartAtMostAll ==
    ASSUME NEW S \in SUBSET Clients, NEW T \in SUBSET Clients, S \cap T = {}
    PROVE  Cardinality(S) + Cardinality(T) <= Cardinality(Clients)
  <1>1. Cardinality(S \cup T) = Cardinality(S) + Cardinality(T) - Cardinality(S \cap T)
    BY FS_Union, ClientSets
  <1>2. Cardinality(S \cap T) = 0
    BY FS_EmptySet
  <1>3. S \cup T \in SUBSET Clients
    OBVIOUS
  <1>4. Cardinality(S \cup T) <= Cardinality(Clients)
    BY <1>3, ClientSets
  <1>5. Cardinality(S) \in Nat /\ Cardinality(T) \in Nat
    BY ClientSets
  <1> QED BY <1>1, <1>2, <1>4, <1>5

LEMMA CountedApart ==
    ASSUME NEW k
    PROVE  /\ LetIn(k) \in SUBSET Clients /\ Uncounted(k) \in SUBSET Clients
           /\ LetIn(k) \cap Uncounted(k) = {}
  BY DEF LetIn, Uncounted

\* The requests are typed, whoever goes on.
LEMMA ClientTyped ==
    ASSUME client \in [Clients -> Client], NEW c \in Clients, NEW q \in Client,
           client' = [client EXCEPT ![c] = q]
    PROVE  client' \in [Clients -> Client]
  OBVIOUS

LEMMA LeaveTyped ==
    ASSUME client \in [Clients -> Client], NEW c \in Clients, Leave(c)
    PROVE  client' = [client EXCEPT ![c] = NoClient] /\ client' \in [Clients -> Client]
  <1>1. (CHOOSE i \in IPs : TRUE) \in IPs
    BY LimiterAssumption
  <1>2. NoClient \in Client
    BY <1>1 DEF NoClient, Client
  <1> QED BY <1>2, ClientTyped DEF Leave

LEMMA ContinueTyped ==
    ASSUME client \in [Clients -> Client], NEW c \in Clients,
           NEW pc \in {"phone", "login", "fail", "failPhone", "reset", "resetPhone"},
           Continue(c, pc)
    PROVE  /\ client' \in [Clients -> Client]
           /\ client'[c].pc = pc /\ client'[c].ip = client[c].ip
           /\ client'[c].phone = client[c].phone
           /\ \A d \in Clients \ {c} : client'[d] = client[d]
  <1> DEFINE q == [client[c] EXCEPT !.pc = pc]
  <1>1. client[c] \in Client
    OBVIOUS
  <1>2. q \in Client /\ q.pc = pc /\ q.ip = client[c].ip /\ q.phone = client[c].phone
    BY <1>1 DEF Client
  <1>3. client' = [client EXCEPT ![c] = q]
    BY DEF Continue
  <1>4. client'[c] = q /\ \A d \in Clients \ {c} : client'[d] = client[d]
    BY <1>3
  <1> QED BY <1>2, <1>3, <1>4, ClientTyped

\* A key of which nothing is written stays covered if nobody who has failed it
\* is forgotten, and nobody new is let in to a blocked one.
LEMMA CoverKept ==
    ASSUME LimiterCovered, NEW t \in Tables, NEW k \in KeysIn(t),
           crowded' = crowded, blocked'[k] = blocked[k],
           count'[k] = count[k], failed'[k] = failed[k],
           ~blocked[k] => Uncounted(k) \subseteq Uncounted(k)',
           blocked[k] => LetIn(k)' \subseteq LetIn(k)
    PROVE  Covered(t, k)'
  <1> DEFINE n == Cardinality(Clients)
  <1>1. k \in Keys
    BY TableKeys
  <1>2. failed[k] \in Nat /\ count[k] \in Nat /\ blocked[k] \in BOOLEAN /\ crowded \in BOOLEAN
    BY <1>1 DEF LimiterCovered, LimiterTyped
  <1>3. MaxFailures[t] \in Nat
    BY LimiterAssumption
  <1>4. Covered(t, k)
    BY DEF LimiterCovered
  <1>5. CASE crowded
    BY <1>4, <1>5 DEF Covered
  <1>6. CASE ~crowded /\ blocked[k]
    <2> PICK L : L = LetIn(k)
      OBVIOUS
    <2> PICK M : M = LetIn(k)'
      OBVIOUS
    <2>1. L \in SUBSET Clients /\ M \in SUBSET L
      BY <1>6, CountedApart
    <2>2. Cardinality(M) <= Cardinality(L)
      BY <2>1, FewerClients
    <2>3. Cardinality(L) \in Nat /\ Cardinality(M) \in Nat /\ n \in Nat
      BY <2>1, ClientSets
    <2>4. failed[k] + Cardinality(L) <= MaxFailures[t] + n - 1
      BY <1>4, <1>6 DEF Covered
    <2>5. failed[k] + Cardinality(M) <= MaxFailures[t] + n - 1
      BY ONLY <2>2, <2>3, <2>4, <1>2, <1>3
    <2> QED BY <1>6, <2>5 DEF Covered
  <1>7. CASE ~crowded /\ ~blocked[k]
    <2> PICK U : U = Uncounted(k)
      OBVIOUS
    <2> PICK V : V = Uncounted(k)'
      OBVIOUS
    <2>1. V \in SUBSET Clients /\ U \in SUBSET V
      BY <1>7 DEF Uncounted
    <2>2. Cardinality(U) <= Cardinality(V)
      BY <2>1, FewerClients
    <2>3. Cardinality(U) \in Nat /\ Cardinality(V) \in Nat
      BY <2>1, ClientSets
    <2>4. failed[k] <= count[k] + Cardinality(U) /\ count[k] < MaxFailures[t]
      BY <1>4, <1>7 DEF Covered
    <2>5. failed[k] <= count[k] + Cardinality(V)
      BY ONLY <2>2, <2>3, <2>4, <1>2
    <2> QED BY <1>7, <2>4, <2>5 DEF Covered
  <1> QED BY <1>2, <1>5, <1>6, <1>7

\* A key that has been let off owes nothing.
LEMMA LetOff ==
    ASSUME NEW t \in Tables, NEW k \in Keys,
           crowded' \in BOOLEAN, failed'[k] = 0, count'[k] = 0, blocked'[k] = FALSE
    PROVE  Covered(t, k)'
  <1>1. MaxFailures[t] \in Nat \ {0}
    BY LimiterAssumption
  <1> PICK U : U = Uncounted(k)'
    OBVIOUS
  <1>2. Cardinality(U) \in Nat
    <2>1. U \in SUBSET Clients
      BY DEF Uncounted
    <2> QED BY <2>1, ClientSets
  <1> QED BY <1>1, <1>2 DEF Covered

\* The check lets in only who asks for keys that are not blocked.
LEMMA ChecksCovered ==
    ASSUME LimiterCovered, NEW c \in Clients,
           \/ \E i \in IPs, p \in Phones \cup {NoPhone} : CheckIP(c, i, p)
           \/ CheckPhone(c) \/ LoginSucceeds(c) \/ LoginErrs(c)
    PROVE  LimiterCovered'
  <1> USE DEF LimiterCovered, LimiterTyped
  <1>1. UNCHANGED <<count, blocked, failed, crowded>>
    BY DEF CheckIP, CheckPhone, LoginSucceeds, LoginErrs, Entries
  <1>2. /\ client' \in [Clients -> Client]
        /\ \A k \in Keys : /\ Uncounted(k) \subseteq Uncounted(k)'
                           /\ blocked[k] => LetIn(k)' \subseteq LetIn(k)
    <2>1. ASSUME NEW i \in IPs, NEW p \in Phones \cup {NoPhone}, CheckIP(c, i, p)
          PROVE  <1>2!:
      <3> DEFINE q == [pc |-> IF p = NoPhone THEN "login" ELSE "phone", ip |-> i, phone |-> p]
      <3>1. q \in Client /\ client' = [client EXCEPT ![c] = q] /\ ~blocked[i]
        BY <2>1 DEF CheckIP, Client
      <3>2. client'[c] = q /\ \A d \in Clients \ {c} : client'[d] = client[d]
        BY <3>1
      <3>3. NoPhone \notin Keys
        BY LimiterAssumption
      <3>4. client[c].pc = "idle"
        BY <2>1 DEF CheckIP, ClientAt
      <3> QED BY <3>1, <3>2, <3>3, <3>4, ClientTyped DEF LetIn, Uncounted, KeysOf
    <2>2. CASE CheckPhone(c)
      <3>1. client[c].pc = "phone"
        BY <2>2 DEF CheckPhone, ClientAt
      <3>2. CASE Leave(c)
        <4>1. client'[c].pc = "idle" /\ \A d \in Clients \ {c} : client'[d] = client[d]
          BY <3>2 DEF Leave, NoClient
        <4> QED BY <3>1, <3>2, <4>1, LeaveTyped DEF LetIn, Uncounted, KeysOf
      <3>3. CASE ~blocked[client[c].phone] /\ Continue(c, "login")
        BY <3>1, <3>3, ContinueTyped DEF LetIn, Uncounted, KeysOf
      <3> QED BY <2>2, <3>2, <3>3 DEF CheckPhone
    <2>3. CASE LoginSucceeds(c)
      <3>1. client[c].pc = "login" /\ Continue(c, "reset")
        BY <2>3 DEF LoginSucceeds, ClientAt
      <3> QED BY <3>1, ContinueTyped DEF LetIn, Uncounted, KeysOf
    <2>4. CASE LoginErrs(c)
      <3>1. client[c].pc = "login" /\ Leave(c)
        BY <2>4 DEF LoginErrs, ClientAt
      <3>2. client'[c].pc = "idle" /\ \A d \in Clients \ {c} : client'[d] = client[d]
        BY <3>1 DEF Leave, NoClient
      <3> QED BY <3>1, <3>2, LeaveTyped DEF LetIn, Uncounted, KeysOf
    <2> QED BY <2>1, <2>2, <2>3, <2>4
  <1>3. ASSUME NEW t \in Tables, NEW k \in KeysIn(t) PROVE Covered(t, k)'
    BY <1>1, <1>2, CoverKept, TableKeys
  <1> QED BY <1>1, <1>2, <1>3

\* A refused login of a key that still counts: it waits to be counted.
LEMMA FailureCovered ==
    ASSUME LimiterCovered, NEW c \in Clients, LoginFails(c)
    PROVE  LimiterCovered'
  <1> USE DEF LimiterCovered, LimiterTyped
  <1>1. UNCHANGED <<count, blocked, crowded>>
    BY DEF LoginFails, Entries
  <1>2. /\ client[c].pc = "login" /\ client' \in [Clients -> Client]
        /\ client'[c].pc = "fail" /\ client'[c].ip = client[c].ip
        /\ client'[c].phone = client[c].phone
        /\ \A d \in Clients \ {c} : client'[d] = client[d]
    BY ContinueTyped DEF LoginFails, ClientAt
  <1>3. /\ failed' \in [Keys -> Nat]
        /\ \A k \in Keys : failed'[k] = IF k \in KeysOf(c) /\ ~crowded THEN failed[k] + 1 ELSE failed[k]
    BY DEF LoginFails
  <1>4. ASSUME NEW t \in Tables, NEW k \in KeysIn(t) PROVE Covered(t, k)'
    <2>1. k \in Keys
      BY TableKeys
    <2>2. CASE k \notin KeysOf(c) \/ crowded
      <3>1. Uncounted(k) \subseteq Uncounted(k)' /\ LetIn(k)' \subseteq LetIn(k)
        BY <1>2 DEF LetIn, Uncounted, KeysOf
      <3> QED BY <1>1, <1>3, <2>1, <2>2, <3>1, CoverKept
    <2>3. CASE k \in KeysOf(c) /\ ~crowded
      <3> PICK L, M, U, V : L = LetIn(k) /\ M = LetIn(k)' /\ U = Uncounted(k) /\ V = Uncounted(k)'
        OBVIOUS
      <3>1. L \in SUBSET Clients /\ U \in SUBSET Clients
        BY CountedApart
      <3>2. c \in L /\ c \notin M /\ M \cup {c} = L /\ M \in SUBSET Clients
        BY <1>2, <2>3 DEF LetIn, KeysOf
      <3>3. c \notin U /\ U \cup {c} = V
        BY <1>2, <2>3 DEF Uncounted, KeysOf
      <3>4. Cardinality(L) = Cardinality(M) + 1 /\ Cardinality(V) = Cardinality(U) + 1
        BY <3>1, <3>2, <3>3, OneClientMore
      <3>5. /\ Cardinality(M) \in Nat /\ Cardinality(U) \in Nat /\ Cardinality(Clients) \in Nat
            /\ MaxFailures[t] \in Nat
        BY <3>1, <3>2, ClientSets, LimiterAssumption
      <3>6. failed'[k] = failed[k] + 1 /\ failed[k] \in Nat /\ count[k] \in Nat
        BY <1>3, <2>1, <2>3
      <3>7. IF blocked[k] THEN failed[k] + Cardinality(L) <= MaxFailures[t] + Cardinality(Clients) - 1
            ELSE failed[k] <= count[k] + Cardinality(U) /\ count[k] < MaxFailures[t]
        BY <2>3 DEF Covered
      <3>8. IF blocked[k] THEN failed'[k] + Cardinality(M) <= MaxFailures[t] + Cardinality(Clients) - 1
            ELSE failed'[k] <= count[k] + Cardinality(V) /\ count[k] < MaxFailures[t]
        BY ONLY <3>4, <3>5, <3>6, <3>7
      <3> QED BY <1>1, <2>3, <3>8 DEF Covered
    <2> QED BY <2>2, <2>3
  <1> QED BY <1>1, <1>2, <1>3, <1>4

\* recordFailure of one table: the failure is counted, or the key is blocked with
\* as many failures as the table allows and those that still wait; if an entry
\* had to go, nothing is claimed any more.
LEMMA RecordCovers ==
    ASSUME LimiterCovered, NEW t \in Tables, NEW k \in KeysIn(t), NEW c \in Clients,
           RecordFailure(t, k), client' \in [Clients -> Client],
           c \in Uncounted(k), c \notin Uncounted(k)', Uncounted(k)' \cup {c} = Uncounted(k),
           LetIn(k)' = LetIn(k),
           \A j \in Keys \ {k} : Uncounted(j)' = Uncounted(j) /\ LetIn(j)' = LetIn(j)
    PROVE  LimiterCovered'
  <1> USE DEF LimiterCovered, LimiterTyped
  <1>1. k \in Keys /\ MaxFailures[t] \in Nat \ {0}
    BY TableKeys, LimiterAssumption
  <1>2. CASE MustMakeRoom(t, k)
    <2>1. crowded' = TRUE /\ failed' = [x \in Keys |-> 0]
      BY <1>2 DEF RecordFailure
    <2> DEFINE v == Victim(t)
    <2>2. /\ count' = [count EXCEPT ![v] = 0, ![k] = IF MaxFailures[t] = 1 THEN 0 ELSE 1]
          /\ blocked' = [blocked EXCEPT ![v] = FALSE, ![k] = MaxFailures[t] = 1]
      BY <1>2 DEF RecordFailure
    <2>3. count' \in [Keys -> Nat]
      BY <2>2
    <2>4. blocked' \in [Keys -> BOOLEAN]
      <3>1. (MaxFailures[t] = 1) \in BOOLEAN
        OBVIOUS
      <3> QED BY <2>2, <3>1
    <2> QED BY <2>1, <2>3, <2>4, TableKeys DEF Covered
  <1>3. CASE ~MustMakeRoom(t, k)
    <2>1. Hit(t, k) /\ failed' = failed /\ crowded' = crowded
      BY <1>3 DEF RecordFailure
    <2> DEFINE full == count[k] + 1 >= MaxFailures[t]
    <2>2. full \in BOOLEAN
      OBVIOUS
    <2>3. /\ count' \in [Keys -> Nat] /\ blocked' \in [Keys -> BOOLEAN]
          /\ \A j \in Keys \ {k} : count'[j] = count[j] /\ blocked'[j] = blocked[j]
          /\ IF blocked[k] THEN count'[k] = count[k] /\ blocked'[k]
             ELSE /\ count'[k] = IF full THEN 0 ELSE count[k] + 1
                  /\ blocked'[k] <=> full
        <3>1. CASE blocked[k]
        BY <1>1, <2>1, <3>1 DEF Hit
      <3>2. CASE ~blocked[k]
        <4> PICK n : n = IF full THEN 0 ELSE count[k] + 1
          OBVIOUS
        <4>1. count' = [count EXCEPT ![k] = n] /\ blocked' = [blocked EXCEPT ![k] = full]
          BY <2>1, <3>2 DEF Hit
        <4>2. count[k] \in Nat /\ n \in Nat
          BY <1>1
        <4>3. /\ count' \in [Keys -> Nat] /\ count'[k] = n
              /\ \A j \in Keys \ {k} : count'[j] = count[j]
          BY <1>1, <4>1, <4>2
        <4>4. /\ blocked' \in [Keys -> BOOLEAN] /\ blocked'[k] = full
              /\ \A j \in Keys \ {k} : blocked'[j] = blocked[j]
          BY <1>1, <2>2, <4>1
        <4> QED BY <3>2, <4>3, <4>4
      <3> QED BY <3>1, <3>2
    <2>4. ASSUME NEW s \in Tables, NEW j \in KeysIn(s), j # k PROVE Covered(s, j)'
      BY <2>1, <2>3, <2>4, CoverKept, TableKeys
    <2>5. ASSUME NEW s \in Tables, k \in KeysIn(s) PROVE s = t
      BY <2>5, LimiterAssumption DEF KeysIn, Tables
    <2>6. Covered(t, k)'
      <3>1. CASE crowded \/ blocked[k]
        <4>1. crowded \/ (blocked'[k] /\ count'[k] = count[k])
          BY <2>3, <3>1
        <4> QED BY <2>1, <2>3, <3>1, <4>1 DEF Covered
      <3>2. CASE ~crowded /\ ~blocked[k]
        <4> PICK L, U, V : L = LetIn(k) /\ U = Uncounted(k) /\ V = Uncounted(k)'
          OBVIOUS
        <4>1. L \in SUBSET Clients /\ U \in SUBSET Clients /\ V \in SUBSET Clients /\ L \cap U = {}
          BY CountedApart
        <4>2. Cardinality(U) = Cardinality(V) + 1
          BY <4>1, OneClientMore
        <4>3. Cardinality(L) + Cardinality(U) <= Cardinality(Clients)
          BY <4>1, ApartAtMostAll
        <4>4. /\ Cardinality(L) \in Nat /\ Cardinality(V) \in Nat /\ Cardinality(Clients) \in Nat
              /\ failed[k] \in Nat /\ count[k] \in Nat
          BY <1>1, <4>1, ClientSets
        <4>5. failed[k] <= count[k] + Cardinality(U) /\ count[k] < MaxFailures[t]
          BY <3>2 DEF Covered
        <4>6. CASE full
          <5>1. failed[k] + Cardinality(L) <= MaxFailures[t] + Cardinality(Clients) - 1
            BY ONLY <1>1, <4>3, <4>2, <4>4, <4>5
          <5> QED BY <2>1, <2>3, <3>2, <4>6, <5>1 DEF Covered
        <4>7. CASE ~full
          <5>1. failed[k] <= count[k] + 1 + Cardinality(V) /\ count[k] + 1 < MaxFailures[t]
            BY ONLY <1>1, <4>2, <4>4, <4>5, <4>7
          <5> QED BY <2>1, <2>3, <3>2, <4>7, <5>1 DEF Covered
        <4> QED BY <4>6, <4>7
      <3> QED BY <3>1, <3>2
    <2> QED BY <2>1, <2>3, <2>4, <2>5, <2>6
  <1> QED BY <1>2, <1>3

LEMMA CountsCovered ==
    ASSUME LimiterCovered, Numbered, NEW c \in Clients, CountIP(c) \/ CountPhone(c)
    PROVE  LimiterCovered'
  <1>0. client \in [Clients -> Client] /\ NoPhone \notin Keys /\ IPs \cap Phones = {}
    BY LimiterAssumption DEF LimiterCovered, LimiterTyped
  <1>1. client[c].ip \in IPs /\ client[c].phone \in Phones \cup {NoPhone}
    BY <1>0 DEF Client
  <1>2. CASE CountIP(c)
    <2>1. client[c].pc = "fail"
      BY <1>2 DEF CountIP, ClientAt
    <2>2. /\ client' \in [Clients -> Client] /\ \A d \in Clients \ {c} : client'[d] = client[d]
          /\ \/ client[c].phone = NoPhone /\ client'[c].pc = "idle"
             \/ client[c].phone # NoPhone /\ client'[c].pc = "failPhone"
                /\ client'[c].phone = client[c].phone
      <3>1. CASE Leave(c) /\ client[c].phone = NoPhone
        BY <1>0, <3>1, LeaveTyped DEF NoClient
      <3>2. CASE Continue(c, "failPhone") /\ client[c].phone # NoPhone
        BY <1>0, <3>2, ContinueTyped
      <3> QED BY <1>2, <3>1, <3>2 DEF CountIP, ThenPhone
    <2> DEFINE k == client[c].ip
    <2> PICK i : i = k
      OBVIOUS
    <2>3. "ip" \in Tables /\ i \in KeysIn("ip") /\ i \in Keys /\ RecordFailure("ip", i)
      BY <1>1, <1>2 DEF Tables, KeysIn, CountIP, Keys
    <2>4. /\ c \in Uncounted(i) /\ c \notin Uncounted(i)' /\ Uncounted(i)' \cup {c} = Uncounted(i)
          /\ LetIn(i)' = LetIn(i)
      BY <1>0, <1>1, <2>1, <2>2, <2>3 DEF Uncounted, LetIn, KeysOf, Keys
    <2>5. \A j \in Keys \ {i} : Uncounted(j)' = Uncounted(j) /\ LetIn(j)' = LetIn(j)
      BY <1>0, <1>1, <2>1, <2>2 DEF Uncounted, LetIn, KeysOf, Keys
    <2> QED BY <2>2, <2>3, <2>4, <2>5, RecordCovers
  <1>3. CASE CountPhone(c)
    <2>1. client[c].pc = "failPhone"
      BY <1>3 DEF CountPhone, ClientAt
    <2>2. /\ client' \in [Clients -> Client] /\ \A d \in Clients \ {c} : client'[d] = client[d]
          /\ client'[c].pc = "idle"
      BY <1>0, <1>3, LeaveTyped DEF CountPhone, NoClient
    <2> PICK p : p = client[c].phone
      OBVIOUS
    <2>3. p # NoPhone
      BY <2>1 DEF Numbered
    <2>4. "phone" \in Tables /\ p \in KeysIn("phone") /\ p \in Keys /\ RecordFailure("phone", p)
      BY <1>1, <1>3, <2>3 DEF Tables, KeysIn, CountPhone, Keys
    <2>5. /\ c \in Uncounted(p) /\ c \notin Uncounted(p)' /\ Uncounted(p)' \cup {c} = Uncounted(p)
          /\ LetIn(p)' = LetIn(p)
      BY <1>0, <2>1, <2>2, <2>3 DEF Uncounted, LetIn, KeysOf
    <2>6. \A j \in Keys \ {p} : Uncounted(j)' = Uncounted(j) /\ LetIn(j)' = LetIn(j)
      BY <1>0, <2>1, <2>2 DEF Uncounted, LetIn, KeysOf
    <2> QED BY <2>2, <2>4, <2>5, <2>6, RecordCovers
  <1> QED BY <1>2, <1>3

\* reset, and the end of a window or a block: the key is let off.
LEMMA ForgetCovers ==
    ASSUME LimiterCovered, NEW t, NEW k, Forget(t, k), client' \in [Clients -> Client],
           \A j \in Keys : Uncounted(j)' = Uncounted(j) /\ LetIn(j)' = LetIn(j)
    PROVE  LimiterCovered'
  <1> USE DEF LimiterCovered, LimiterTyped
  <1>1. /\ count' = [count EXCEPT ![k] = 0] /\ blocked' = [blocked EXCEPT ![k] = FALSE]
        /\ failed' = [failed EXCEPT ![k] = 0] /\ crowded' = crowded
    BY DEF Forget
  <1>2. ASSUME NEW s \in Tables, NEW j \in KeysIn(s) PROVE Covered(s, j)'
    <2>1. j \in Keys
      BY TableKeys
    <2>2. CASE j = k
      BY <1>1, <2>1, <2>2, LetOff
    <2>3. CASE j # k
      BY <1>1, <2>1, <2>3, CoverKept
    <2> QED BY <2>2, <2>3
  <1> QED BY <1>1, <1>2

LEMMA ResetsCovered ==
    ASSUME LimiterCovered,
           \/ \E c \in Clients : ResetIP(c) \/ ResetPhone(c)
           \/ \E t \in Tables, k \in Keys : TimePasses(t, k)
    PROVE  LimiterCovered'
  <1>0. client \in [Clients -> Client]
    BY DEF LimiterCovered, LimiterTyped
  <1>1. ASSUME NEW c \in Clients, ResetIP(c) \/ ResetPhone(c) PROVE LimiterCovered'
    <2>1. client[c].pc \in {"reset", "resetPhone"}
      BY <1>1 DEF ResetIP, ResetPhone, ClientAt
    <2>2. Leave(c) \/ Continue(c, "resetPhone")
      BY <1>1 DEF ResetIP, ResetPhone, ThenPhone
    <2>3. /\ client' \in [Clients -> Client] /\ client'[c].pc \in {"idle", "resetPhone"}
          /\ \A d \in Clients \ {c} : client'[d] = client[d]
      BY <1>0, <2>2, LeaveTyped, ContinueTyped DEF NoClient
    <2>4. \A j \in Keys : Uncounted(j)' = Uncounted(j) /\ LetIn(j)' = LetIn(j)
      BY <2>1, <2>3 DEF Uncounted, LetIn, KeysOf
    <2>5. \E t, k : Forget(t, k)
      BY <1>1 DEF ResetIP, ResetPhone
    <2> QED BY <2>3, <2>4, <2>5, ForgetCovers
  <1>2. ASSUME NEW t \in Tables, NEW k \in Keys, TimePasses(t, k) PROVE LimiterCovered'
    <2>1. Forget(t, k) /\ client' = client
      BY <1>2 DEF TimePasses
    <2>2. \A j \in Keys : Uncounted(j)' = Uncounted(j) /\ LetIn(j)' = LetIn(j)
      BY <2>1 DEF Uncounted, LetIn, KeysOf
    <2> QED BY <1>0, <2>1, <2>2, ForgetCovers
  <1> QED BY <1>1, <1>2

LEMMA StaysNumbered ==
    ASSUME LimiterCovered, Numbered, NextLimiter
    PROVE  Numbered'
  <1>0. client \in [Clients -> Client]
    BY DEF LimiterCovered, LimiterTyped
  <1>1. ASSUME NEW c \in Clients, NEW i \in IPs, NEW p \in Phones \cup {NoPhone}, CheckIP(c, i, p)
        PROVE  Numbered'
    BY <1>0, <1>1 DEF CheckIP, Numbered
  <1>2. ASSUME NEW c \in Clients, Leave(c) PROVE Numbered'
    BY <1>0, <1>2 DEF Leave, NoClient, Numbered
  <1>3. ASSUME NEW c \in Clients,
               NEW pc \in {"phone", "login", "fail", "failPhone", "reset", "resetPhone"},
               Continue(c, pc), pc \in {"phone", "failPhone"} => client[c].phone # NoPhone
        PROVE  Numbered'
    BY <1>0, <1>3, ContinueTyped DEF Numbered
  <1>4. ASSUME NEW c \in Clients, Serve(c) PROVE Numbered'
    BY <1>2, <1>3, <1>4
    DEF Serve, CheckPhone, LoginFails, LoginSucceeds, LoginErrs, CountIP, CountPhone,
        ResetIP, ResetPhone, ThenPhone
  <1>5. ASSUME NEW t \in Tables, NEW k \in Keys, TimePasses(t, k) PROVE Numbered'
    BY <1>5 DEF TimePasses, Numbered
  <1> QED BY <1>1, <1>4, <1>5 DEF NextLimiter

LEMMA LimiterStep ==
    ASSUME LimiterSound, [NextLimiter]_limiterVars
    PROVE  LimiterSound'
  <1> USE DEF LimiterSound
  <1>1. CASE NextLimiter
    <2>1. ASSUME NEW c \in Clients, Serve(c) PROVE LimiterCovered'
      BY <2>1, ChecksCovered, FailureCovered, CountsCovered, ResetsCovered DEF Serve
    <2>2. ASSUME NEW c \in Clients, NEW i \in IPs, NEW p \in Phones \cup {NoPhone}, CheckIP(c, i, p)
          PROVE  LimiterCovered'
      BY <2>2, ChecksCovered
    <2>3. ASSUME NEW t \in Tables, NEW k \in Keys, TimePasses(t, k) PROVE LimiterCovered'
      BY <2>3, ResetsCovered
    <2> QED BY <1>1, <2>1, <2>2, <2>3, StaysNumbered DEF NextLimiter
  <1>2. CASE UNCHANGED limiterVars
    BY <1>2 DEF limiterVars, LimiterCovered, LimiterTyped, Covered, LetIn, Uncounted, KeysOf, Numbered
  <1> QED BY <1>1, <1>2

LEMMA LimiterStarts == InitLimiter => LimiterSound
  <1> SUFFICES ASSUME InitLimiter PROVE LimiterSound
    OBVIOUS
  <1>1. (CHOOSE i \in IPs : TRUE) \in IPs
    BY LimiterAssumption
  <1>2. NoClient \in Client /\ NoClient.pc = "idle"
    BY <1>1 DEF NoClient, Client
  <1>3. LimiterTyped /\ Numbered
    BY <1>2 DEF InitLimiter, LimiterTyped, Numbered
  <1>4. ASSUME NEW t \in Tables, NEW k \in KeysIn(t) PROVE Covered(t, k)
    <2>1. k \in Keys
      BY TableKeys
    <2>2. failed[k] = 0 /\ count[k] = 0 /\ ~blocked[k] /\ ~crowded
      BY <2>1 DEF InitLimiter
    <2>3. Cardinality(Uncounted(k)) \in Nat
      BY CountedApart, ClientSets
    <2>4. MaxFailures[t] \in Nat \ {0}
      BY LimiterAssumption
    <2> QED BY <2>2, <2>3, <2>4 DEF Covered
  <1> QED BY <1>3, <1>4 DEF LimiterSound, LimiterCovered

\* What the limiter counts and who it has let in cover every failure, however
\* the checks and the counts of parallel requests fall apart.
THEOREM LimiterSoundAlways == SpecLimiter => []LimiterSound
  BY LimiterStarts, LimiterStep, PTL DEF SpecLimiter

\* A key fails MaxFailures logins, and at most one more for every other request
\* in flight, before it is blocked: recordFailure and the check of Middleware
\* are apart, and still no interleaving, reset or expiry lets more through.
THEOREM FailuresBoundedAlways == SpecLimiter => []FailuresBounded
  <1>1. LimiterSound => FailuresBounded
    <2> SUFFICES ASSUME LimiterSound, NEW t \in Tables, NEW k \in KeysIn(t)
                 PROVE  failed[k] <= MaxFailures[t] + Cardinality(Clients) - 1
      BY DEF FailuresBounded
    <2> PICK L, U : L = LetIn(k) /\ U = Uncounted(k)
      OBVIOUS
    <2>1. L \in SUBSET Clients /\ U \in SUBSET Clients
      BY CountedApart
    <2>2. /\ Cardinality(L) \in Nat /\ Cardinality(U) \in Nat /\ Cardinality(Clients) \in Nat
          /\ Cardinality(U) <= Cardinality(Clients)
      BY <2>1, ClientSets
    <2>3. MaxFailures[t] \in Nat \ {0}
      BY LimiterAssumption
    <2>4. failed[k] \in Nat /\ count[k] \in Nat
      BY TableKeys DEF LimiterSound, LimiterCovered, LimiterTyped
    <2>5. \/ failed[k] = 0
          \/ failed[k] + Cardinality(L) <= MaxFailures[t] + Cardinality(Clients) - 1
          \/ failed[k] <= count[k] + Cardinality(U) /\ count[k] < MaxFailures[t]
      BY DEF LimiterSound, LimiterCovered, Covered
    <2> QED BY ONLY <2>2, <2>3, <2>4, <2>5
  <1> QED BY <1>1, LimiterSoundAlways, PTL

===============================================================================
