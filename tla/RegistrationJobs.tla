-------------------------- MODULE RegistrationJobs --------------------------
(***************************************************************************)
(* The registration saga of internal/modules/auth: POST /auth/register     *)
(* stores a durable job row, background workers turn the job into a        *)
(* provider wallet plus a local user, and the client exchanges a one-time  *)
(* claim token for a session.                                              *)
(*                                                                         *)
(* A job is named by its idempotency key (unique in the table), so Jobs is *)
(* the set of distinct registration payloads.  The key does not include    *)
(* the password, PIN, biometrics flag or device (registrationIdempotency-  *)
(* Key), so two requests that differ only there are the same element.      *)
(* Payloads with an e-mail address are absent: buildRegistrationSnapshot   *)
(* compares *string pointers of two different rows and rejects them all.   *)
(*                                                                         *)
(* Postgres runs READ COMMITTED.  A statement or a transaction whose reads *)
(* are protected by row locks is one action; the transaction of Register   *)
(* reads without a lock and is two actions.                                *)
(***************************************************************************)
EXTENDS Naturals, FiniteSets

CONSTANTS
    Jobs,          \* registration payloads / job rows
    Phones, PhoneOf,      \* normalised phone of a payload
    Bvns, BvnOf,          \* BVN of a payload
    RecordedBvns,  \* BVNs that have a wallet_bvn_records row
    Devices, DeviceOf,    \* X-Device-ID of a payload (PK of wallet_user_devices)
    Rows, RowsOf,         \* verification records a payload refers to
    Sweepers,      \* one cron sweep per API replica (single-flight)
    Kickers,       \* goroutines started by kickRegistrationProcessing
    SweepLimit,    \* jobs a sweep claims at once (2 in the code; a kick claims 1)
    Requests,      \* concurrent HTTP calls of Register
    MaxCalls,      \* bound: Register calls in a behaviour
    MaxFaults,     \* bound: crashes, time-outs, provider and database errors
    CommitAcks,    \* TRUE: a worker always learns that its commit succeeded
    NoJob          \* no job / no owner

Workers == Sweepers \cup Kickers

ASSUME JobsAssumption ==
    /\ NoJob \notin Jobs
    /\ PhoneOf \in [Jobs -> Phones]
    /\ BvnOf \in [Jobs -> Bvns]
    /\ DeviceOf \in [Jobs -> Devices]
    /\ RowsOf \in [Jobs -> SUBSET Rows]
    /\ RecordedBvns \subseteq Bvns
ASSUME BoundsAssumption ==
    SweepLimit \in Nat /\ MaxCalls \in Nat /\ MaxFaults \in Nat /\ CommitAcks \in BOOLEAN
ASSUME WorkersAssumption == Sweepers \cap Kickers = {}

VARIABLES
    job,        \* wallet_registration_jobs
    users,      \* jobs whose wallet_users row exists
    walletRow,  \* wallet_customer_wallets: provider wallet of the job's user, 0 if no row
    device,     \* wallet_user_devices row of the job's user
    bvnOwner,   \* wallet_bvn_records.user_id
    usedRows,   \* verification records with used_at set (status stays "verified")
    sessions,   \* auth sessions issued by the claim endpoint, per job
    remote,     \* number of wallets the provider holds for the job's customer id
    late,       \* GenerateWallet requests abandoned by their worker, still in flight
    worker,     \* goroutines inside ProcessPendingRegistrationJobs
    req,        \* goroutines inside Register
    calls, faults, issued  \* Register calls, faults and claim tokens so far

rows == <<users, walletRow, device, bvnOwner>>
provider == <<remote, late>>
counters == <<calls, faults, issued>>
vars == <<job, rows, usedRows, sessions, provider, worker, req, counters>>

Statuses == {"none", "pending", "processing", "completed", "failed"}
OpenStatuses == {"pending", "processing"}

JobRow == [status : Statuses, attempts : 0..2, resp : Nat,
           token : Nat, expired : BOOLEAN, claimed : BOOLEAN,
           completedAt : BOOLEAN, stale : BOOLEAN]

WorkerState == [pc : {"idle", "ready", "resolve", "recover", "saveRecovered", "generate",
                      "awaiting", "reconcile", "save", "finalize", "fail"},
                job : Jobs \cup {NoJob}, rest : SUBSET Jobs,
                resp : [Jobs -> Nat], again : SUBSET Jobs,
                got : Nat, done : BOOLEAN]

RequestState == [pc : {"idle", "found", "create"}, job : Jobs \cup {NoJob},
                 status : Statuses, claimed : BOOLEAN]

NoRow == [status |-> "none", attempts |-> 0, resp |-> 0, token |-> 0,
          expired |-> FALSE, claimed |-> FALSE, completedAt |-> FALSE, stale |-> FALSE]
IdleWorker == [pc |-> "idle", job |-> NoJob, rest |-> {}, resp |-> [j \in Jobs |-> 0],
               again |-> {}, got |-> 0, done |-> FALSE]
IdleRequest == [pc |-> "idle", job |-> NoJob, status |-> "none", claimed |-> FALSE]

Init ==
    /\ job = [j \in Jobs |-> NoRow]
    /\ users = {}
    /\ walletRow = [j \in Jobs |-> 0]
    /\ device = [j \in Jobs |-> "none"]
    /\ bvnOwner = [b \in Bvns |-> NoJob]
    /\ usedRows = {}
    /\ sessions = [j \in Jobs |-> 0]
    /\ remote = [j \in Jobs |-> 0]
    /\ late = [j \in Jobs |-> 0]
    /\ worker = [w \in Workers |-> IdleWorker]
    /\ req = [r \in Requests |-> IdleRequest]
    /\ calls = 0 /\ faults = 0 /\ issued = 0

Fault == faults < MaxFaults /\ faults' = faults + 1

-----------------------------------------------------------------------------
(* Register *)

\* uq_wallet_registration_jobs_phone_open: no other open job has this phone.
PhoneFree(j) == \A k \in Jobs \ {j} :
    PhoneOf[k] = PhoneOf[j] => job[k].status \notin OpenStatuses

PhoneUnused(j) == \A k \in users : PhoneOf[k] # PhoneOf[j]

\* The reads of the transaction: the job with this key, or, for a new key, the
\* open job and the user of the phone (a rejection leaves nothing behind).
RegisterRead(r, j) ==
    /\ req[r].pc = "idle"
    /\ calls < MaxCalls
    /\ IF job[j].status # "none"
       THEN req' = [req EXCEPT ![r] = [pc |-> "found", job |-> j, status |-> job[j].status,
                                       claimed |-> job[j].claimed]]
       ELSE /\ PhoneFree(j) /\ PhoneUnused(j)
            /\ req' = [req EXCEPT ![r] = [IdleRequest EXCEPT !.pc = "create", !.job = j]]
    /\ calls' = calls + 1
    /\ UNCHANGED <<job, rows, usedRows, sessions, provider, worker, faults, issued>>

\* After the commit: kickRegistrationProcessing starts a goroutine unless the
\* response says completed.  A kick that finds no idle slot is one that is late.
Kick(wanted) ==
    LET free == {w \in Kickers : worker[w].pc = "idle"} IN
    IF wanted /\ free # {}
    THEN \E w \in free : worker' = [worker EXCEPT ![w].pc = "ready"]
    ELSE UNCHANGED worker

\* RequeueRegistrationJob: no condition on the status.
Requeue(row) == [row EXCEPT !.status = "pending", !.stale = FALSE]

\* SetRegistrationJobClaimToken: guarded by session_claimed_at IS NULL.
SetClaimToken(row) == [row EXCEPT !.token = issued + 1, !.expired = FALSE, !.stale = FALSE]
ClaimTokenSettable(row) == ~row.claimed

\* Mutant: every retry of a job that is not pending requeues it.
NeedsRequeueUnlessPending(status) == status # "pending"

NeedsRequeue(status) == status = "failed"

\* The writes for a known key.  Both are driven by what was read before.
RegisterRetry(r) ==
    LET j == req[r].job
        requeue == NeedsRequeue(req[r].status)
        rotate == ~req[r].claimed
        row == IF requeue THEN Requeue(job[j]) ELSE job[j] IN
    /\ req[r].pc = "found"
    /\ requeue => PhoneFree(j)
    /\ rotate => ClaimTokenSettable(job[j])
    /\ job' = [job EXCEPT ![j] = IF rotate THEN SetClaimToken(row) ELSE row]
    /\ issued' = IF rotate THEN issued + 1 ELSE issued
    /\ Kick(req[r].status # "completed")
    /\ req' = [req EXCEPT ![r] = IdleRequest]
    /\ UNCHANGED <<rows, usedRows, sessions, provider, calls, faults>>

\* buildRegistrationSnapshot consumes the payload's records.  MarkValidationRecord-
\* Used checks and keeps status "verified": a record used before is accepted again.
ConsumedBy(j) == usedRows \cup RowsOf[j]

\* The writes for a new key.
CreateJob(r) ==
    LET j == req[r].job IN
    /\ req[r].pc = "create"
    /\ job[j].status = "none"
    /\ PhoneFree(j)
    /\ usedRows' = ConsumedBy(j)
    /\ job' = [job EXCEPT ![j] = SetClaimToken([NoRow EXCEPT !.status = "pending"])]
    /\ issued' = issued + 1
    /\ Kick(TRUE)
    /\ req' = [req EXCEPT ![r] = IdleRequest]
    /\ UNCHANGED <<rows, sessions, provider, calls, faults>>

\* A statement fails or the client's connection goes: the transaction rolls back.
RegisterRollback(r) ==
    /\ req[r].pc # "idle"
    /\ req' = [req EXCEPT ![r] = IdleRequest]
    /\ UNCHANGED <<job, rows, usedRows, sessions, provider, worker, counters>>

-----------------------------------------------------------------------------
(* ProcessPendingRegistrationJobs *)

\* Mutant: leases never run out.
StaleNever(j) == FALSE

Stale(j) == job[j].status = "processing" /\ job[j].stale
Holds(w, j) == worker[w].job = j \/ j \in worker[w].rest
Limit(w) == IF w \in Kickers THEN 1 ELSE SweepLimit

\* Mutant: the lease is shorter than the context of the goroutine that holds it.
LeaseExpiresEarly(j) ==
    /\ job[j].status = "processing" /\ ~job[j].stale
    /\ job' = [job EXCEPT ![j].stale = TRUE]
    /\ UNCHANGED <<rows, usedRows, sessions, provider, worker, req, counters>>

\* updated_at falls five minutes behind.  A goroutine that claimed the job has a
\* context of one minute, so none that still runs can be holding it.
LeaseExpires(j) ==
    /\ job[j].status = "processing" /\ ~job[j].stale
    /\ \A w \in Workers : ~Holds(w, j)
    /\ job' = [job EXCEPT ![j].stale = TRUE]
    /\ UNCHANGED <<rows, usedRows, sessions, provider, worker, req, counters>>

\* ClaimPendingRegistrationJobs: reset stale rows, take up to Limit(w) pending
\* rows FOR UPDATE SKIP LOCKED.  ORDER BY created_at is abstracted: rows locked
\* by other transactions are skipped, so any rows may be the ones it gets.
ClaimPending(w) ==
    LET pending == {j \in Jobs : job[j].status = "pending" \/ Stale(j)} IN
    /\ worker[w].pc = IF w \in Kickers THEN "ready" ELSE "idle"
    /\ \E batch \in SUBSET pending, first \in pending :
        /\ first \in batch
        /\ Cardinality(batch) <= Limit(w)
        /\ job' = [j \in Jobs |->
             IF j \in batch
             THEN [job[j] EXCEPT !.status = "processing", !.stale = FALSE,
                                 !.attempts = IF @ = 2 THEN 2 ELSE @ + 1]
             ELSE IF Stale(j) THEN [job[j] EXCEPT !.status = "pending", !.stale = FALSE]
             ELSE job[j]]
        /\ worker' = [worker EXCEPT ![w] =
             [pc |-> "resolve", job |-> first, rest |-> batch \ {first},
              resp |-> [j \in Jobs |-> job[j].resp],
              again |-> {j \in batch : job[j].attempts >= 1},
              got |-> 0, done |-> FALSE]]
    /\ UNCHANGED <<rows, usedRows, sessions, provider, req, counters>>

\* A kick that finds nothing pending ends.
ClaimNothing(w) ==
    /\ worker[w].pc = "ready"
    /\ \A j \in Jobs : job[j].status # "pending" /\ ~Stale(j)
    /\ worker' = [worker EXCEPT ![w] = IdleWorker]
    /\ UNCHANGED <<job, rows, usedRows, sessions, provider, req, counters>>

Goto(w, label) == worker' = [worker EXCEPT ![w].pc = label]

\* The loop over the claimed batch: the next job, or the goroutine ends.
NextJob(w) ==
    IF worker[w].rest = {} THEN worker' = [worker EXCEPT ![w] = IdleWorker]
    ELSE \E j \in worker[w].rest :
        worker' = [worker EXCEPT ![w] =
            [worker[w] EXCEPT !.pc = "resolve", !.job = j, !.rest = @ \ {j},
                              !.got = 0, !.done = FALSE]]

\* resolveWalletResponseForJob decides on the worker's own copy of the row.
Resolve(w) ==
    LET j == worker[w].job IN
    /\ worker[w].pc = "resolve"
    /\ Goto(w, IF worker[w].resp[j] # 0 THEN "finalize"
               ELSE IF j \in worker[w].again THEN "recover" ELSE "generate")
    /\ UNCHANGED <<job, rows, usedRows, sessions, provider, req, counters>>

\* LookupWalletByCustomerID.  A wallet that exists may not be visible yet.
Lookup(w, before, found, missed) ==
    /\ worker[w].pc = before
    /\ \/ \E n \in 1..remote[worker[w].job] :
            worker' = [worker EXCEPT ![w].pc = found, ![w].got = n]
       \/ Goto(w, missed)
    /\ UNCHANGED <<job, rows, usedRows, sessions, provider, req, counters>>

LookupBeforeGenerate(w) == Lookup(w, "recover", "saveRecovered", "generate")
\* Mutant: the failed call's (missing) response is saved when the lookup misses.
LookupAfterErrorUnchecked(w) == Lookup(w, "reconcile", "save", "save")

LookupAfterError(w) == Lookup(w, "reconcile", "save", "fail")

\* SaveRegistrationJobWalletResponse renews updated_at but has no status guard.
SaveResponse(w) ==
    LET j == worker[w].job IN
    /\ worker[w].pc \in {"save", "saveRecovered"}
    /\ job' = [job EXCEPT ![j].resp = worker[w].got, ![j].stale = FALSE]
    /\ worker' = [worker EXCEPT ![w].resp[j] = worker[w].got, ![w].pc = "finalize"]
    /\ UNCHANGED <<rows, usedRows, sessions, provider, req, counters>>

\* An error there fails the job, except before the first call to the provider,
\* where it is logged and the worker generates a wallet all the same.
SaveResponseFails(w) ==
    /\ worker[w].pc \in {"save", "saveRecovered"}
    /\ Fault
    /\ Goto(w, IF worker[w].pc = "save" THEN "fail" ELSE "generate")
    /\ UNCHANGED <<job, rows, usedRows, sessions, provider, req, calls, issued>>

GenerateWallet(w) ==
    /\ worker[w].pc = "generate"
    /\ worker' = [worker EXCEPT ![w].pc = "awaiting", ![w].done = FALSE]
    /\ UNCHANGED <<job, rows, usedRows, sessions, provider, req, counters>>

\* External: the provider executes the request and creates a wallet.
ProviderCreates(w) ==
    LET j == worker[w].job IN
    /\ worker[w].pc = "awaiting" /\ ~worker[w].done
    /\ remote' = [remote EXCEPT ![j] = @ + 1]
    /\ worker' = [worker EXCEPT ![w].done = TRUE, ![w].got = remote[j] + 1]
    /\ UNCHANGED <<job, rows, usedRows, sessions, late, req, counters>>

GenerateReturns(w) ==
    /\ worker[w].pc = "awaiting" /\ worker[w].done
    /\ Goto(w, "save")
    /\ UNCHANGED <<job, rows, usedRows, sessions, provider, req, counters>>

\* The request of a worker that stops waiting may still reach the provider.
Abandon(w) ==
    IF worker[w].pc = "awaiting" /\ ~worker[w].done
    THEN late' = [late EXCEPT ![worker[w].job] = @ + 1] ELSE UNCHANGED late

\* Transport error, the client's 15 s time-out, or a refusal.
GenerateFails(w) ==
    /\ worker[w].pc = "awaiting"
    /\ Fault
    /\ Abandon(w)
    /\ Goto(w, "reconcile")
    /\ UNCHANGED <<job, rows, usedRows, sessions, remote, req, calls, issued>>

\* External: an abandoned request is executed after all.
LateCreate(j) ==
    /\ late[j] > 0
    /\ late' = [late EXCEPT ![j] = @ - 1]
    /\ remote' = [remote EXCEPT ![j] = @ + 1]
    /\ UNCHANGED <<job, rows, usedRows, sessions, worker, req, counters>>

\* Mutant: the owner of the BVN record is not compared.
BvnLinkableUnchecked(j) == TRUE

\* LinkBVNRecordToUser: under a row lock; a BVN without a record is not checked.
BvnLinkable(j) == BvnOf[j] \in RecordedBvns => bvnOwner[BvnOf[j]] \in {NoJob, j}
LinkBvn(j) == IF BvnOf[j] \in RecordedBvns THEN [bvnOwner EXCEPT ![BvnOf[j]] = j] ELSE bvnOwner

\* The unique keys of wallet_users, wallet_customer_wallets and wallet_user_devices.
Insertable(j) ==
    /\ j \notin users
    /\ PhoneUnused(j)
    /\ \A k \in users : DeviceOf[k] # DeviceOf[j]

\* MarkRegistrationJobCompleted: no status guard.
MarkCompleted(row) == [row EXCEPT !.status = "completed", !.completedAt = TRUE, !.stale = FALSE]

\* The finalization transaction: user, BVN link, wallet, device and job status.
Commit(w) ==
    LET j == worker[w].job IN
    /\ worker[w].pc = "finalize"
    /\ Insertable(j) /\ BvnLinkable(j)
    /\ users' = users \cup {j}
    /\ bvnOwner' = LinkBvn(j)
    /\ walletRow' = [walletRow EXCEPT ![j] = worker[w].resp[j]]
    /\ device' = [device EXCEPT ![j] = "active"]
    /\ job' = [job EXCEPT ![j] = MarkCompleted(job[j])]

Finalize(w) ==
    /\ Commit(w)
    /\ NextJob(w)
    /\ UNCHANGED <<usedRows, sessions, provider, req, counters>>

\* The commit succeeds and the connection breaks before the worker hears of it.
FinalizeUnheard(w) ==
    /\ ~CommitAcks
    /\ Commit(w)
    /\ Fault
    /\ Goto(w, "fail")
    /\ UNCHANGED <<usedRows, sessions, provider, req, calls, issued>>

\* Mutant: the user row is inserted outside the transaction and survives it.
FinalizeFailsHalfway(w) ==
    LET j == worker[w].job IN
    /\ worker[w].pc = "finalize"
    /\ Fault
    /\ users' = users \cup {j}
    /\ Goto(w, "fail")
    /\ UNCHANGED <<job, walletRow, device, bvnOwner, usedRows, sessions, provider, req,
                   calls, issued>>

\* It rolls back on a conflict or on a database error.
FinalizeFails(w) ==
    LET j == worker[w].job IN
    /\ worker[w].pc = "finalize"
    /\ IF Insertable(j) /\ BvnLinkable(j) THEN Fault ELSE UNCHANGED faults
    /\ Goto(w, "fail")
    /\ UNCHANGED <<job, rows, usedRows, sessions, provider, req, calls, issued>>

\* MarkRegistrationJobFailed: no status guard.
MarkFailed(w) ==
    LET j == worker[w].job IN
    /\ worker[w].pc = "fail"
    /\ job' = [job EXCEPT ![j].status = "failed", ![j].stale = FALSE]
    /\ NextJob(w)
    /\ UNCHANGED <<rows, usedRows, sessions, provider, req, counters>>

\* Its error is discarded: the row stays in "processing" until the lease ends.
MarkFailedLost(w) ==
    /\ worker[w].pc = "fail"
    /\ Fault
    /\ NextJob(w)
    /\ UNCHANGED <<job, rows, usedRows, sessions, provider, req, calls, issued>>

\* The process crashes, or the one-minute context ends and every later statement
\* of this goroutine (MarkRegistrationJobFailed too) fails.
WorkerDies(w) ==
    /\ worker[w].pc # "idle"
    /\ Fault
    /\ Abandon(w)
    /\ worker' = [worker EXCEPT ![w] = IdleWorker]
    /\ UNCHANGED <<job, rows, usedRows, sessions, remote, req, calls, issued>>

-----------------------------------------------------------------------------
(* ClaimRegistrationSession and what other modules do to the same rows *)

CanClaim(row) == row.status = "completed" /\ ~row.claimed /\ row.token # 0 /\ ~row.expired

\* Mutant: the token is cleared and session_claimed_at is not set.
MarkClaimedUnset(row) == [row EXCEPT !.token = 0, !.expired = FALSE, !.stale = FALSE]

\* MarkRegistrationJobClaimed.
MarkClaimed(row) == [row EXCEPT !.claimed = TRUE, !.token = 0, !.expired = FALSE, !.stale = FALSE]

\* One transaction under the job's row lock.  The client shows the token of the
\* last Register response; an older one no longer hashes to the stored value.
ClaimRegistrationSession(j) ==
    /\ CanClaim(job[j])
    /\ device[j] = "active"
    /\ job' = [job EXCEPT ![j] = MarkClaimed(job[j])]
    /\ sessions' = [sessions EXCEPT ![j] = @ + 1]
    /\ UNCHANGED <<rows, usedRows, provider, worker, req, counters>>

TokenExpires(j) ==
    /\ job[j].token # 0 /\ ~job[j].expired
    /\ job' = [job EXCEPT ![j].expired = TRUE]
    /\ UNCHANGED <<rows, usedRows, sessions, provider, worker, req, counters>>

\* Logout and a login from another device deactivate it; a device login revives it.
DeviceToggles(j) ==
    /\ device[j] # "none"
    /\ device' = [device EXCEPT ![j] = IF @ = "active" THEN "inactive" ELSE "active"]
    /\ UNCHANGED <<job, users, walletRow, bvnOwner, usedRows, sessions, provider, worker, req, counters>>

-----------------------------------------------------------------------------
WorkerStep(w) ==
    \/ ClaimPending(w) \/ ClaimNothing(w) \/ Resolve(w)
    \/ LookupBeforeGenerate(w) \/ LookupAfterError(w) \/ SaveResponse(w)
    \/ GenerateWallet(w) \/ ProviderCreates(w) \/ GenerateReturns(w)
    \/ Finalize(w) \/ MarkFailed(w)

WorkerFault(w) ==
    \/ SaveResponseFails(w) \/ GenerateFails(w) \/ FinalizeFails(w) \/ FinalizeUnheard(w)
    \/ MarkFailedLost(w) \/ WorkerDies(w)

RequestStep(r) ==
    \/ \E j \in Jobs : RegisterRead(r, j)
    \/ RegisterRetry(r) \/ CreateJob(r) \/ RegisterRollback(r)

JobStep(j) ==
    \/ LeaseExpires(j) \/ LateCreate(j) \/ ClaimRegistrationSession(j)
    \/ TokenExpires(j) \/ DeviceToggles(j)

Next ==
    \/ \E w \in Workers : WorkerStep(w) \/ WorkerFault(w)
    \/ \E r \in Requests : RequestStep(r)
    \/ \E j \in Jobs : JobStep(j)

Spec == Init /\ [][Next]_vars

\* The sweep runs every five seconds, its goroutine keeps running, calls return
\* or time out, and the clock reaches every lease.
Fairness ==
    /\ \A w \in Workers : WF_vars(WorkerStep(w) \/ FinalizeFails(w))
    /\ \A j \in Jobs : WF_vars(LeaseExpires(j))

FairSpec == Spec /\ Fairness

-----------------------------------------------------------------------------
(* Properties *)

\* Every variable holds a value of its type.
TypeOK ==
    /\ job \in [Jobs -> JobRow]
    /\ users \subseteq Jobs
    /\ walletRow \in [Jobs -> Nat]
    /\ device \in [Jobs -> {"none", "active", "inactive"}]
    /\ bvnOwner \in [Bvns -> Jobs \cup {NoJob}]
    /\ usedRows \subseteq Rows
    /\ sessions \in [Jobs -> Nat]
    /\ remote \in [Jobs -> Nat]
    /\ late \in [Jobs -> Nat]
    /\ worker \in [Workers -> WorkerState]
    /\ req \in [Requests -> RequestState]
    /\ calls \in Nat /\ faults \in Nat /\ issued \in Nat

\* The local effects of a registration exist together or not at all, whatever
\* workers race for the job: user, wallet row, device, BVN link and completed_at.
FinalizationAtomic ==
    \A j \in Jobs :
        /\ j \in users <=> walletRow[j] # 0
        /\ j \in users <=> device[j] # "none"
        /\ j \in users <=> job[j].completedAt
        /\ j \in users /\ BvnOf[j] \in RecordedBvns => bvnOwner[BvnOf[j]] = j

\* Two jobs of the same person (other key, same phone, device or recorded BVN)
\* never both become users, however their sagas interleave.
OneUserPerPerson ==
    \A j, k \in users : j # k =>
        /\ PhoneOf[j] # PhoneOf[k]
        /\ DeviceOf[j] # DeviceOf[k]
        /\ BvnOf[j] \in RecordedBvns => BvnOf[j] # BvnOf[k]

\* The wallet of a user is one the provider really created for this customer id,
\* and a response stored on a job always names such a wallet.
WalletIsRemote ==
    \A j \in Jobs :
        /\ j \in users => walletRow[j] \in 1..remote[j]
        /\ job[j].resp <= remote[j]

\* A job pays out at most one automatic session, to an existing user, although
\* Register rotates the token as often as the client retries and a completed job
\* may be reopened by a racing retry.
SessionClaimedOnce ==
    \A j \in Jobs :
        /\ sessions[j] <= 1
        /\ sessions[j] = 1 <=> job[j].claimed
        /\ sessions[j] = 1 => j \in users

\* No two open jobs share a phone, also when a failed job is requeued while a
\* newer payload of the same phone is in progress.
OneOpenJobPerPhone ==
    \A j, k \in Jobs :
        /\ j # k /\ PhoneOf[j] = PhoneOf[k]
        /\ job[j].status \in OpenStatuses
        => job[k].status \notin OpenStatuses

\* "verification records are consumed atomically with job creation": a record is
\* marked used exactly when some stored job refers to it.
RowsUsedByJobs == usedRows = UNION {RowsOf[j] : j \in {k \in Jobs : job[k].status # "none"}}

\* "only one worker processes a given job at a time": a goroutine works on a job
\* only while the row is leased to it alone.
OneWorkerPerJob ==
    \A w \in Workers, j \in Jobs : Holds(w, j) =>
        /\ job[j].status = "processing" /\ ~job[j].stale
        /\ \A v \in Workers \ {w} : ~Holds(v, j)

\* With requests that do not overlap, the saga behaves as its clients are told:
\* leases, batches, lookups, faults and lost workers do not show.
PhaseOf(row) == IF row.status \in OpenStatuses THEN "open"
                ELSE IF row.status = "completed" THEN "done" ELSE row.status
SamePhone(j) == {k \in Jobs \ {j} : PhoneOf[k] = PhoneOf[j]}
SameBvn(j) == {k \in Jobs \ {j} : BvnOf[k] = BvnOf[j] /\ BvnOf[j] \in RecordedBvns}

Saga == INSTANCE RegistrationSaga WITH
    phase <- [j \in Jobs |-> PhaseOf(job[j])],
    claimed <- {j \in Jobs : job[j].claimed},
    Rivals <- [j \in Jobs |-> SamePhone(j)],
    Kin <- [j \in Jobs |-> SamePhone(j) \cup SameBvn(j)]
ImplementsSaga == Saga!SagaSpec

\* Every accepted registration is decided: a crash or a lost worker delays it by a
\* lease, but no job stays open for ever once faults and retries cease.
EveryJobSettles ==
    \A j \in Jobs : job[j].status \in OpenStatuses
                        ~> job[j].status \in {"completed", "failed"}
=============================================================================
