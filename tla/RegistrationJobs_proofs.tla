------------------------ MODULE RegistrationJobs_proofs ------------------------
(***************************************************************************)
(* Proofs about RegistrationJobs, for every set of payloads, workers and   *)
(* concurrent requests.                                                    *)
(***************************************************************************)
EXTENDS RegistrationJobs, TLAPS

-----------------------------------------------------------------------------
(* Type correctness *)

\* The row updates of the repository keep a row a row.
LEMMA RowUpdates ==
    ASSUME NEW row \in JobRow, issued \in Nat
    PROVE  /\ Requeue(row) \in JobRow
           /\ SetClaimToken(row) \in JobRow
           /\ MarkCompleted(row) \in JobRow
           /\ MarkClaimed(row) \in JobRow
<1>1. Requeue(row) \in JobRow BY DEF JobRow, Statuses, Requeue
<1>2. SetClaimToken(row) \in JobRow
  <2>1. issued + 1 \in Nat OBVIOUS
  <2>2. \A t \in Nat : [row EXCEPT !.token = t, !.expired = FALSE, !.stale = FALSE] \in JobRow
    BY DEF JobRow
  <2> QED BY <2>1, <2>2 DEF SetClaimToken
<1>3. MarkCompleted(row) \in JobRow BY DEF JobRow, Statuses, MarkCompleted
<1>4. MarkClaimed(row) \in JobRow BY DEF JobRow, MarkClaimed
<1> QED BY <1>1, <1>2, <1>3, <1>4

\* The initial rows and records are well typed.
LEMMA InitialValues ==
    /\ NoRow \in JobRow
    /\ IdleWorker \in WorkerState
    /\ IdleRequest \in RequestState
BY DEF NoRow, JobRow, Statuses, IdleWorker, WorkerState, IdleRequest, RequestState

\* A goroutine inside a handler has a job.
Busy(w) == worker[w].pc \notin {"idle", "ready"}
Attached ==
    /\ \A r \in Requests : req[r].pc # "idle" => req[r].job \in Jobs
    /\ \A w \in Workers : Busy(w) => worker[w].job \in Jobs

Typed == TypeOK /\ Attached

WorkersTyped ==
    /\ worker \in [Workers -> WorkerState]
    /\ \A w \in Workers : Busy(w) => worker[w].job \in Jobs

RequestsTyped ==
    /\ req \in [Requests -> RequestState]
    /\ \A r \in Requests : req[r].pc # "idle" => req[r].job \in Jobs

\* What a well-typed new state of one goroutine or request preserves.
LEMMA WorkerUpdate ==
    ASSUME WorkersTyped, NEW w \in Workers, NEW n \in WorkerState,
           n.pc \notin {"idle", "ready"} => n.job \in Jobs,
           worker' = [worker EXCEPT ![w] = n]
    PROVE  WorkersTyped'
BY DEF WorkersTyped, Busy

\* The same for a call of Register.
LEMMA RequestUpdate ==
    ASSUME RequestsTyped, NEW r \in Requests, NEW n \in RequestState,
           n.pc # "idle" => n.job \in Jobs,
           req' = [req EXCEPT ![r] = n]
    PROVE  RequestsTyped'
BY DEF RequestsTyped

\* A call that returns leaves a well-typed idle request behind.
LEMMA RequestEnds ==
    ASSUME RequestsTyped, NEW r \in Requests, req' = [req EXCEPT ![r] = IdleRequest]
    PROVE  RequestsTyped'
BY InitialValues, RequestUpdate DEF IdleRequest

\* A goroutine that ends leaves a well-typed idle worker behind.
LEMMA WorkerEnds ==
    ASSUME WorkersTyped, NEW w \in Workers, worker' = [worker EXCEPT ![w] = IdleWorker]
    PROVE  WorkersTyped'
BY InitialValues, WorkerUpdate DEF IdleWorker

Labels == {"resolve", "recover", "saveRecovered", "generate", "awaiting", "reconcile",
           "save", "finalize", "fail"}

\* A busy goroutine that moves to another label stays well typed.
LEMMA GotoTyped ==
    ASSUME WorkersTyped, NEW w \in Workers, Busy(w), NEW l \in Labels, Goto(w, l)
    PROVE  WorkersTyped'
<1> DEFINE n == [worker[w] EXCEPT !.pc = l]
<1>1. worker[w] \in WorkerState /\ worker[w].job \in Jobs BY DEF WorkersTyped, Busy
<1>2. n \in WorkerState /\ n.job \in Jobs BY <1>1 DEF WorkerState, Labels
<1>3. worker' = [worker EXCEPT ![w] = n] BY DEF Goto
<1> HIDE DEF n
<1> QED BY <1>2, <1>3, WorkerUpdate

\* Going on with the next job of the batch, or ending, is well typed.
LEMMA NextJobTyped ==
    ASSUME WorkersTyped, NEW w \in Workers, NextJob(w)
    PROVE  WorkersTyped'
<1>1. CASE worker[w].rest = {}
  BY <1>1, WorkerEnds DEF NextJob
<1>2. CASE worker[w].rest # {}
  <2>1. PICK j \in worker[w].rest :
            worker' = [worker EXCEPT ![w] =
                [worker[w] EXCEPT !.pc = "resolve", !.job = j, !.rest = @ \ {j},
                                  !.got = 0, !.done = FALSE]]
    BY <1>2 DEF NextJob
  <2> DEFINE n == [worker[w] EXCEPT !.pc = "resolve", !.job = j, !.rest = @ \ {j},
                                    !.got = 0, !.done = FALSE]
  <2>2. worker[w] \in WorkerState BY DEF WorkersTyped
  <2>3. j \in Jobs BY <2>2 DEF WorkerState
  <2>4. n \in WorkerState /\ n.job = j BY <2>2, <2>3 DEF WorkerState
  <2>5. worker' = [worker EXCEPT ![w] = n] BY <2>1
  <2> HIDE DEF n
  <2> QED BY <2>3, <2>4, <2>5, WorkerUpdate
<1> QED BY <1>1, <1>2

\* A kick after the commit of Register is well typed.
LEMMA KickTyped ==
    ASSUME WorkersTyped, NEW b \in BOOLEAN, Kick(b)
    PROVE  WorkersTyped'
<1>1. CASE UNCHANGED worker BY <1>1 DEF WorkersTyped, Busy
<1>2. CASE \E w \in Kickers : worker' = [worker EXCEPT ![w].pc = "ready"]
  <2>1. PICK w \in Kickers : worker' = [worker EXCEPT ![w].pc = "ready"] BY <1>2
  <2> DEFINE n == [worker[w] EXCEPT !.pc = "ready"]
  <2>2. w \in Workers BY DEF Workers
  <2>3. n \in WorkerState /\ n.pc = "ready" BY <2>2 DEF WorkersTyped, WorkerState
  <2>4. worker' = [worker EXCEPT ![w] = n] BY <2>1
  <2> HIDE DEF n
  <2> QED BY <2>2, <2>3, <2>4, WorkerUpdate
<1> QED BY <1>1, <1>2 DEF Kick

\* The number of abandoned provider requests stays a number.
LEMMA AbandonTyped ==
    ASSUME TypeOK, NEW w \in Workers, Busy(w) => worker[w].job \in Jobs, Abandon(w)
    PROVE  late' \in [Jobs -> Nat]
BY DEF TypeOK, Abandon, Busy

\* The fault budget stays a number.
LEMMA FaultTyped == ASSUME TypeOK, Fault PROVE faults' \in Nat
BY DEF TypeOK, Fault

DataTyped ==
    /\ job \in [Jobs -> JobRow]
    /\ users \subseteq Jobs
    /\ walletRow \in [Jobs -> Nat]
    /\ device \in [Jobs -> {"none", "active", "inactive"}]
    /\ bvnOwner \in [Bvns -> Jobs \cup {NoJob}]
    /\ usedRows \subseteq Rows
    /\ sessions \in [Jobs -> Nat]
    /\ remote \in [Jobs -> Nat]
    /\ late \in [Jobs -> Nat]
    /\ calls \in Nat /\ faults \in Nat /\ issued \in Nat

\* Typed splits into its data, worker and request parts, primed or not.
LEMMA TypedIsParts == /\ Typed <=> DataTyped /\ WorkersTyped /\ RequestsTyped
                      /\ Typed' <=> DataTyped' /\ WorkersTyped' /\ RequestsTyped'
BY DEF Typed, TypeOK, Attached, DataTyped, WorkersTyped, RequestsTyped, Busy

\* A step that leaves the goroutines or the requests alone keeps their types.
LEMMA WorkersKept == ASSUME WorkersTyped, UNCHANGED worker PROVE WorkersTyped'
BY DEF WorkersTyped, Busy
LEMMA RequestsKept == ASSUME RequestsTyped, UNCHANGED req PROVE RequestsTyped'
BY DEF RequestsTyped

\* Register keeps the types.
LEMMA RequestStepTyped ==
    ASSUME Typed, NEW r \in Requests, RequestStep(r)
    PROVE  Typed'
<1> USE TypedIsParts
<1>1. CASE \E j \in Jobs : RegisterRead(r, j)
  <2>1. PICK j \in Jobs : RegisterRead(r, j) BY <1>1
  <2>2. DataTyped' /\ WorkersTyped'
    BY <2>1, WorkersKept DEF RegisterRead, rows, provider, DataTyped
  <2>3. RequestsTyped'
    <3>1. CASE job[j].status # "none"
      <4> DEFINE n == [pc |-> "found", job |-> j, status |-> job[j].status,
                       claimed |-> job[j].claimed]
      <4>1. job[j] \in JobRow BY DEF DataTyped
      <4>2. n \in RequestState /\ n.job \in Jobs BY <4>1 DEF RequestState, JobRow
      <4>3. req' = [req EXCEPT ![r] = n] BY <2>1, <3>1 DEF RegisterRead
      <4> HIDE DEF n
      <4> QED BY <4>2, <4>3, RequestUpdate
    <3>2. CASE job[j].status = "none"
      <4> DEFINE n == [IdleRequest EXCEPT !.pc = "create", !.job = j]
      <4>1. n \in RequestState /\ n.job \in Jobs
        BY DEF RequestState, IdleRequest, Statuses
      <4>2. req' = [req EXCEPT ![r] = n] BY <2>1, <3>2 DEF RegisterRead
      <4> HIDE DEF n
      <4> QED BY <4>1, <4>2, RequestUpdate
    <3> QED BY <3>1, <3>2
  <2> QED BY <2>2, <2>3
<1>2. CASE RegisterRetry(r)
  <2> DEFINE j == req[r].job
             requeue == NeedsRequeue(req[r].status)
             rotate == ~req[r].claimed
             row == IF requeue THEN Requeue(job[j]) ELSE job[j]
             new == IF rotate THEN SetClaimToken(row) ELSE row
  <2>1. j \in Jobs BY <1>2 DEF RegisterRetry, RequestsTyped
  <2>2. job[j] \in JobRow /\ issued \in Nat BY <2>1 DEF DataTyped
  <2>3. row \in JobRow BY <2>2, RowUpdates
  <2>4. new \in JobRow
    <3> HIDE DEF row
    <3> QED BY <2>2, <2>3, RowUpdates
  <2>5. /\ job' = [job EXCEPT ![j] = new]
        /\ issued' \in Nat
        /\ Kick(req[r].status # "completed")
        /\ req' = [req EXCEPT ![r] = IdleRequest]
        /\ UNCHANGED <<rows, usedRows, sessions, provider, calls, faults>>
    BY <1>2, <2>2 DEF RegisterRetry
  <2> HIDE DEF j, new
  <2>6. WorkersTyped' BY <2>5, KickTyped
  <2>7. RequestsTyped' BY <2>5, RequestEnds
  <2>8. DataTyped' BY <2>4, <2>5 DEF DataTyped, rows, provider
  <2> QED BY <2>6, <2>7, <2>8
<1>3. CASE CreateJob(r)
  <2> DEFINE j == req[r].job
             new == SetClaimToken([NoRow EXCEPT !.status = "pending"])
  <2>1. j \in Jobs BY <1>3 DEF CreateJob, RequestsTyped
  <2>2. [NoRow EXCEPT !.status = "pending"] \in JobRow
    <3>1. \A row \in JobRow : [row EXCEPT !.status = "pending"] \in JobRow
      BY DEF JobRow, Statuses
    <3> QED BY <3>1, InitialValues
  <2>3. new \in JobRow BY <2>2, RowUpdates DEF DataTyped
  <2>4. RowsOf[j] \subseteq Rows BY <2>1, JobsAssumption
  <2>5. /\ job' = [job EXCEPT ![j] = new]
        /\ usedRows' = usedRows \cup RowsOf[j]
        /\ issued' = issued + 1
        /\ Kick(TRUE)
        /\ req' = [req EXCEPT ![r] = IdleRequest]
        /\ UNCHANGED <<rows, sessions, provider, calls, faults>>
    BY <1>3 DEF CreateJob, ConsumedBy
  <2> HIDE DEF j, new
  <2>6. WorkersTyped' BY <2>5, KickTyped
  <2>7. RequestsTyped' BY <2>5, RequestEnds
  <2>8. usedRows' \subseteq Rows BY <2>4, <2>5 DEF DataTyped
  <2>9. job' \in [Jobs -> JobRow] BY <2>1, <2>3, <2>5 DEF DataTyped
  <2>10. DataTyped' BY <2>5, <2>8, <2>9 DEF DataTyped, rows, provider
  <2> QED BY <2>6, <2>7, <2>10
<1>4. CASE RegisterRollback(r)
  <2>1. DataTyped' /\ WorkersTyped'
    BY <1>4, WorkersKept DEF RegisterRollback, rows, provider, counters, DataTyped
  <2>2. RequestsTyped' BY <1>4, RequestEnds DEF RegisterRollback
  <2> QED BY <2>1, <2>2
<1> QED BY <1>1, <1>2, <1>3, <1>4 DEF RequestStep

\* Claiming a batch keeps the types.
LEMMA ClaimPendingTyped ==
    ASSUME Typed, NEW w \in Workers, ClaimPending(w)
    PROVE  Typed'
<1> DEFINE pending == {j \in Jobs : job[j].status = "pending" \/ Stale(j)}
           Claimed(row) == [row EXCEPT !.status = "processing", !.stale = FALSE,
                                       !.attempts = IF @ = 2 THEN 2 ELSE @ + 1]
           Reset(row) == [row EXCEPT !.status = "pending", !.stale = FALSE]
<1>0. DataTyped /\ WorkersTyped /\ RequestsTyped BY TypedIsParts
<1>1. PICK batch \in SUBSET pending, first \in pending :
        /\ first \in batch
        /\ job' = [j \in Jobs |-> IF j \in batch THEN Claimed(job[j])
                                  ELSE IF Stale(j) THEN Reset(job[j]) ELSE job[j]]
        /\ worker' = [worker EXCEPT ![w] =
             [pc |-> "resolve", job |-> first, rest |-> batch \ {first},
              resp |-> [j \in Jobs |-> job[j].resp],
              again |-> {j \in batch : job[j].attempts >= 1},
              got |-> 0, done |-> FALSE]]
  BY DEF ClaimPending
<1>2. \A row \in JobRow : Claimed(row) \in JobRow /\ Reset(row) \in JobRow
  <2> SUFFICES ASSUME NEW row \in JobRow PROVE Claimed(row) \in JobRow /\ Reset(row) \in JobRow
    OBVIOUS
  <2>1. (IF row.attempts = 2 THEN 2 ELSE row.attempts + 1) \in 0..2 BY DEF JobRow
  <2>2. \A n \in 0..2 : [row EXCEPT !.status = "processing", !.stale = FALSE, !.attempts = n]
                           \in JobRow
    BY DEF JobRow, Statuses
  <2>3. Reset(row) \in JobRow BY DEF JobRow, Statuses
  <2> QED BY <2>1, <2>2, <2>3
<1>3. job' \in [Jobs -> JobRow]
  <2> HIDE DEF Claimed, Reset
  <2> QED BY <1>0, <1>1, <1>2 DEF DataTyped
<1> DEFINE n == [pc |-> "resolve", job |-> first, rest |-> batch \ {first},
                 resp |-> [j \in Jobs |-> job[j].resp],
                 again |-> {j \in batch : job[j].attempts >= 1},
                 got |-> 0, done |-> FALSE]
<1>4. n \in WorkerState /\ n.job \in Jobs
  <2>1. first \in Jobs /\ batch \subseteq Jobs OBVIOUS
  <2>2. \A j \in Jobs : job[j].resp \in Nat BY <1>0 DEF DataTyped, JobRow
  <2> QED BY <2>1, <2>2 DEF WorkerState
<1>5. worker' = [worker EXCEPT ![w] = n] BY <1>1
<1>6. WorkersTyped'
  <2> HIDE DEF n
  <2> QED BY <1>0, <1>4, <1>5, WorkerUpdate
<1>7. UNCHANGED <<rows, usedRows, sessions, provider, req, counters>>
  BY DEF ClaimPending
<1>8. DataTyped' BY <1>0, <1>3, <1>7 DEF DataTyped, rows, provider, counters
<1> QED BY <1>0, <1>6, <1>7, <1>8, RequestsKept, TypedIsParts

\* A worker step that changes nothing but the goroutine.
LEMMA OnlyWorker ==
    ASSUME Typed, WorkersTyped',
           UNCHANGED <<job, rows, usedRows, sessions, provider, req, counters>>
    PROVE  Typed'
<1>1. DataTyped /\ RequestsTyped BY TypedIsParts
<1>2. DataTyped' BY <1>1 DEF DataTyped, rows, provider, counters
<1> QED BY <1>1, <1>2, RequestsKept, TypedIsParts

\* A provider lookup by customer id, found or missed, is well typed.
LEMMA LookupTyped ==
    ASSUME Typed, NEW w \in Workers, NEW before \in Labels, NEW found \in Labels,
           NEW missed \in Labels, Lookup(w, before, found, missed)
    PROVE  Typed'
<1>1. WorkersTyped /\ DataTyped BY TypedIsParts
<1>2. Busy(w) BY DEF Lookup, Busy, Labels
<1>3. worker[w] \in WorkerState /\ worker[w].job \in Jobs BY <1>1, <1>2 DEF WorkersTyped
<1>4. CASE Goto(w, missed)
  BY <1>1, <1>2, <1>4, GotoTyped, OnlyWorker DEF Lookup
<1>5. CASE \E n \in 1..remote[worker[w].job] :
             worker' = [worker EXCEPT ![w].pc = found, ![w].got = n]
  <2>1. PICK k \in 1..remote[worker[w].job] :
             worker' = [worker EXCEPT ![w].pc = found, ![w].got = k]
    BY <1>5
  <2> DEFINE n == [worker[w] EXCEPT !.pc = found, !.got = k]
  <2>2. k \in Nat BY <1>1, <1>3 DEF DataTyped
  <2>3. n \in WorkerState /\ n.job \in Jobs BY <1>3, <2>2 DEF WorkerState, Labels
  <2>4. worker' = [worker EXCEPT ![w] = n] BY <1>1, <2>1 DEF WorkersTyped
  <2>5. WorkersTyped'
    <3> HIDE DEF n
    <3> QED BY <1>1, <2>3, <2>4, WorkerUpdate
  <2> QED BY <2>5, OnlyWorker DEF Lookup
<1> QED BY <1>4, <1>5 DEF Lookup

\* Storing the provider response on the job row is well typed.
LEMMA SaveResponseTyped ==
    ASSUME Typed, NEW w \in Workers, SaveResponse(w)
    PROVE  Typed'
<1> DEFINE j == worker[w].job
           row == [job[j] EXCEPT !.resp = worker[w].got, !.stale = FALSE]
           n == [worker[w] EXCEPT !.resp = [@ EXCEPT ![j] = worker[w].got], !.pc = "finalize"]
<1>1. DataTyped /\ WorkersTyped /\ RequestsTyped BY TypedIsParts
<1>2. worker[w] \in WorkerState /\ j \in Jobs BY <1>1 DEF WorkersTyped, Busy, SaveResponse
<1>3. worker[w].got \in Nat /\ job[j] \in JobRow BY <1>1, <1>2 DEF WorkerState, DataTyped
<1>4. row \in JobRow
  <2>1. \A g \in Nat : [job[j] EXCEPT !.resp = g, !.stale = FALSE] \in JobRow
    BY <1>3 DEF JobRow
  <2> QED BY <1>3, <2>1
<1>5. n \in WorkerState /\ n.job \in Jobs BY <1>2, <1>3 DEF WorkerState
<1>6. /\ job' = [job EXCEPT ![j] = row]
      /\ worker' = [worker EXCEPT ![w] = n]
      /\ UNCHANGED <<rows, usedRows, sessions, provider, req, counters>>
  BY <1>1 DEF SaveResponse, WorkersTyped
<1> HIDE DEF j, row, n
<1>7. DataTyped' BY <1>1, <1>4, <1>6 DEF DataTyped, rows, provider, counters
<1>8. WorkersTyped' BY <1>1, <1>5, <1>6, WorkerUpdate
<1> QED BY <1>1, <1>6, <1>7, <1>8, RequestsKept, TypedIsParts

\* The provider's creation of a wallet is well typed.
LEMMA ProviderCreatesTyped ==
    ASSUME Typed, NEW w \in Workers, ProviderCreates(w)
    PROVE  Typed'
<1> DEFINE j == worker[w].job
           n == [worker[w] EXCEPT !.done = TRUE, !.got = remote[j] + 1]
<1>1. DataTyped /\ WorkersTyped /\ RequestsTyped BY TypedIsParts
<1>2. worker[w] \in WorkerState /\ j \in Jobs BY <1>1 DEF WorkersTyped, Busy, ProviderCreates
<1>3. remote[j] + 1 \in Nat BY <1>1, <1>2 DEF DataTyped
<1>4. n \in WorkerState /\ n.job \in Jobs BY <1>2, <1>3 DEF WorkerState
<1>5. /\ remote' = [remote EXCEPT ![j] = @ + 1]
      /\ worker' = [worker EXCEPT ![w] = n]
      /\ UNCHANGED <<job, rows, usedRows, sessions, late, req, counters>>
  BY <1>1 DEF ProviderCreates, WorkersTyped
<1> HIDE DEF j, n
<1>6. DataTyped' BY <1>1, <1>3, <1>5 DEF DataTyped, rows, counters
<1>7. WorkersTyped' BY <1>1, <1>4, <1>5, WorkerUpdate
<1> QED BY <1>1, <1>5, <1>6, <1>7, RequestsKept, TypedIsParts

\* The finalization transaction writes well-typed rows.
LEMMA CommitTyped ==
    ASSUME Typed, NEW w \in Workers, Commit(w)
    PROVE  /\ job' \in [Jobs -> JobRow]
           /\ users' \subseteq Jobs
           /\ walletRow' \in [Jobs -> Nat]
           /\ device' \in [Jobs -> {"none", "active", "inactive"}]
           /\ bvnOwner' \in [Bvns -> Jobs \cup {NoJob}]
<1> DEFINE j == worker[w].job
<1>1. DataTyped /\ WorkersTyped BY TypedIsParts
<1>2. worker[w] \in WorkerState /\ j \in Jobs BY <1>1 DEF WorkersTyped, Busy, Commit
<1>3. worker[w].resp[j] \in Nat /\ job[j] \in JobRow BY <1>1, <1>2 DEF WorkerState, DataTyped
<1>4. MarkCompleted(job[j]) \in JobRow BY <1>1, <1>3, RowUpdates DEF DataTyped
<1>5. bvnOwner' \in [Bvns -> Jobs \cup {NoJob}]
  BY <1>1, <1>2 DEF Commit, LinkBvn, DataTyped
<1> QED BY <1>1, <1>2, <1>3, <1>4, <1>5 DEF Commit, DataTyped

\* Every ordinary step of a goroutine preserves Typed.
LEMMA WorkerStepTyped ==
    ASSUME Typed, NEW w \in Workers, WorkerStep(w)
    PROVE  Typed'
<1>0. TypeOK /\ DataTyped /\ WorkersTyped /\ RequestsTyped BY TypedIsParts DEF Typed
<1>1. CASE ClaimPending(w) BY <1>1, ClaimPendingTyped
<1>2. CASE ClaimNothing(w)
  BY <1>0, <1>2, WorkerEnds, OnlyWorker DEF ClaimNothing
<1>3. CASE Resolve(w)
  <2>1. Busy(w) BY <1>3 DEF Resolve, Busy
  <2>2. PICK l \in Labels : Goto(w, l) BY <1>3 DEF Resolve, Labels
  <2>3. WorkersTyped' BY <1>0, <2>1, <2>2, GotoTyped
  <2> QED BY <1>3, <2>3, OnlyWorker DEF Resolve
<1>4. CASE LookupBeforeGenerate(w)
  BY <1>4, LookupTyped DEF LookupBeforeGenerate, Labels
<1>5. CASE LookupAfterError(w)
  BY <1>5, LookupTyped DEF LookupAfterError, Labels
<1>6. CASE SaveResponse(w) BY <1>6, SaveResponseTyped
<1>7. CASE GenerateWallet(w)
  <2> DEFINE n == [worker[w] EXCEPT !.pc = "awaiting", !.done = FALSE]
  <2>1. worker[w] \in WorkerState /\ worker[w].job \in Jobs
    BY <1>0, <1>7 DEF GenerateWallet, WorkersTyped, Busy
  <2>2. n \in WorkerState /\ n.job \in Jobs BY <2>1 DEF WorkerState
  <2>3. worker' = [worker EXCEPT ![w] = n] BY <1>0, <1>7 DEF GenerateWallet, WorkersTyped
  <2>4. WorkersTyped'
    <3> HIDE DEF n
    <3> QED BY <1>0, <2>2, <2>3, WorkerUpdate
  <2> QED BY <1>7, <2>4, OnlyWorker DEF GenerateWallet
<1>8. CASE ProviderCreates(w) BY <1>8, ProviderCreatesTyped
<1>9. CASE GenerateReturns(w)
  <2>1. Busy(w) /\ Goto(w, "save") BY <1>9 DEF GenerateReturns, Busy
  <2>2. WorkersTyped' BY <1>0, <2>1, GotoTyped DEF Labels
  <2> QED BY <1>9, <2>2, OnlyWorker DEF GenerateReturns
<1>10. CASE Finalize(w)
  <2>1. WorkersTyped' BY <1>0, <1>10, NextJobTyped DEF Finalize
  <2>2. DataTyped'
    BY <1>0, <1>10, CommitTyped DEF Finalize, DataTyped, provider, counters
  <2> QED BY <1>0, <1>10, <2>1, <2>2, RequestsKept, TypedIsParts DEF Finalize
<1>11. CASE MarkFailed(w)
  <2>1. WorkersTyped' BY <1>0, <1>11, NextJobTyped DEF MarkFailed
  <2>2. worker[w].job \in Jobs BY <1>0, <1>11 DEF MarkFailed, WorkersTyped, Busy
  <2>3. \A row \in JobRow : [row EXCEPT !.status = "failed", !.stale = FALSE] \in JobRow
    BY DEF JobRow, Statuses
  <2>4. job' \in [Jobs -> JobRow]
    BY <1>0, <1>11, <2>2, <2>3 DEF MarkFailed, DataTyped
  <2>5. DataTyped' BY <1>0, <1>11, <2>4 DEF MarkFailed, DataTyped, rows, provider, counters
  <2> QED BY <1>0, <1>11, <2>1, <2>5, RequestsKept, TypedIsParts DEF MarkFailed
<1> QED BY <1>1, <1>2, <1>3, <1>4, <1>5, <1>6, <1>7, <1>8, <1>9, <1>10, <1>11 DEF WorkerStep

\* Every fault of a goroutine preserves Typed.
LEMMA WorkerFaultTyped ==
    ASSUME Typed, NEW w \in Workers, WorkerFault(w)
    PROVE  Typed'
<1>0. TypeOK /\ DataTyped /\ WorkersTyped /\ RequestsTyped BY TypedIsParts DEF Typed
<1>1. CASE SaveResponseFails(w)
  <2>1. Busy(w) BY <1>1 DEF SaveResponseFails, Busy
  <2>2. PICK l \in Labels : Goto(w, l) BY <1>1 DEF SaveResponseFails, Labels
  <2>3. WorkersTyped' BY <1>0, <2>1, <2>2, GotoTyped
  <2>4. DataTyped'
    BY <1>0, <1>1, FaultTyped DEF SaveResponseFails, DataTyped, rows, provider
  <2> QED BY <1>0, <1>1, <2>3, <2>4, RequestsKept, TypedIsParts DEF SaveResponseFails
<1>2. CASE GenerateFails(w)
  <2>1. Busy(w) /\ Goto(w, "reconcile") /\ Abandon(w) BY <1>2 DEF GenerateFails, Busy
  <2>2. WorkersTyped' BY <1>0, <2>1, GotoTyped DEF Labels
  <2>3. late' \in [Jobs -> Nat] BY <1>0, <2>1, AbandonTyped DEF WorkersTyped
  <2>4. DataTyped'
    BY <1>0, <1>2, <2>3, FaultTyped DEF GenerateFails, DataTyped, rows
  <2> QED BY <1>0, <1>2, <2>2, <2>4, RequestsKept, TypedIsParts DEF GenerateFails
<1>3. CASE FinalizeFails(w)
  <2>1. Busy(w) /\ Goto(w, "fail") BY <1>3 DEF FinalizeFails, Busy
  <2>2. WorkersTyped' BY <1>0, <2>1, GotoTyped DEF Labels
  <2>3. faults' \in Nat BY <1>0, <1>3, FaultTyped DEF FinalizeFails, DataTyped
  <2>4. DataTyped' BY <1>0, <1>3, <2>3 DEF FinalizeFails, DataTyped, rows, provider
  <2> QED BY <1>0, <1>3, <2>2, <2>4, RequestsKept, TypedIsParts DEF FinalizeFails
<1>4. CASE FinalizeUnheard(w)
  <2>1. Busy(w) /\ Goto(w, "fail") BY <1>4 DEF FinalizeUnheard, Commit, Busy
  <2>2. WorkersTyped' BY <1>0, <2>1, GotoTyped DEF Labels
  <2>3. DataTyped'
    BY <1>0, <1>4, CommitTyped, FaultTyped DEF FinalizeUnheard, DataTyped, provider
  <2> QED BY <1>0, <1>4, <2>2, <2>3, RequestsKept, TypedIsParts DEF FinalizeUnheard
<1>5. CASE MarkFailedLost(w)
  <2>1. WorkersTyped' BY <1>0, <1>5, NextJobTyped DEF MarkFailedLost
  <2>2. DataTyped'
    BY <1>0, <1>5, FaultTyped DEF MarkFailedLost, DataTyped, rows, provider
  <2> QED BY <1>0, <1>5, <2>1, <2>2, RequestsKept, TypedIsParts DEF MarkFailedLost
<1>6. CASE WorkerDies(w)
  <2>1. WorkersTyped' BY <1>0, <1>6, WorkerEnds DEF WorkerDies
  <2>2. late' \in [Jobs -> Nat] BY <1>0, <1>6, AbandonTyped DEF WorkersTyped, WorkerDies
  <2>3. DataTyped'
    BY <1>0, <1>6, <2>2, FaultTyped DEF WorkerDies, DataTyped, rows
  <2> QED BY <1>0, <1>6, <2>1, <2>3, RequestsKept, TypedIsParts DEF WorkerDies
<1> QED BY <1>1, <1>2, <1>3, <1>4, <1>5, <1>6 DEF WorkerFault

\* Every step of the clock, the claim endpoint or another module preserves Typed.
LEMMA JobStepTyped ==
    ASSUME Typed, NEW j \in Jobs, JobStep(j)
    PROVE  Typed'
<1>0. DataTyped /\ WorkersTyped /\ RequestsTyped BY TypedIsParts
<1>1. UNCHANGED <<worker, req>> /\ WorkersTyped' /\ RequestsTyped'
  BY <1>0, WorkersKept, RequestsKept
     DEF JobStep, LeaseExpires, LateCreate, ClaimRegistrationSession, TokenExpires, DeviceToggles
<1>2. job[j] \in JobRow BY <1>0 DEF DataTyped
<1>3. CASE LeaseExpires(j)
  <2>1. [job[j] EXCEPT !.stale = TRUE] \in JobRow BY <1>2 DEF JobRow
  <2>2. DataTyped'
    BY <1>0, <1>3, <2>1 DEF LeaseExpires, DataTyped, rows, provider, counters
  <2> QED BY <1>1, <2>2, TypedIsParts
<1>4. CASE LateCreate(j)
  <2>1. late' \in [Jobs -> Nat] /\ remote' \in [Jobs -> Nat]
    BY <1>0, <1>4 DEF LateCreate, DataTyped
  <2>2. DataTyped' BY <1>0, <1>4, <2>1 DEF LateCreate, DataTyped, rows, counters
  <2> QED BY <1>1, <2>2, TypedIsParts
<1>5. CASE ClaimRegistrationSession(j)
  <2>1. MarkClaimed(job[j]) \in JobRow BY <1>0, <1>2, RowUpdates DEF DataTyped
  <2>2. job' \in [Jobs -> JobRow] /\ sessions' \in [Jobs -> Nat]
    BY <1>0, <1>5, <2>1 DEF ClaimRegistrationSession, DataTyped
  <2>3. DataTyped'
    BY <1>0, <1>5, <2>2 DEF ClaimRegistrationSession, DataTyped, rows, provider, counters
  <2> QED BY <1>1, <2>3, TypedIsParts
<1>6. CASE TokenExpires(j)
  <2>1. [job[j] EXCEPT !.expired = TRUE] \in JobRow BY <1>2 DEF JobRow
  <2>2. DataTyped'
    BY <1>0, <1>6, <2>1 DEF TokenExpires, DataTyped, rows, provider, counters
  <2> QED BY <1>1, <2>2, TypedIsParts
<1>7. CASE DeviceToggles(j)
  <2>1. DataTyped' BY <1>0, <1>7 DEF DeviceToggles, DataTyped, provider, counters
  <2> QED BY <1>1, <2>1, TypedIsParts
<1> QED BY <1>3, <1>4, <1>5, <1>6, <1>7 DEF JobStep

\* Typed holds initially.
LEMMA InitTyped == Init => Typed
<1> SUFFICES ASSUME Init PROVE Typed OBVIOUS
<1>1. DataTyped
  BY InitialValues, JobsAssumption DEF Init, DataTyped
<1>2. WorkersTyped BY InitialValues DEF Init, WorkersTyped, Busy, IdleWorker
<1>3. RequestsTyped BY InitialValues DEF Init, RequestsTyped, IdleRequest
<1> QED BY <1>1, <1>2, <1>3, TypedIsParts

\* Typed is inductive.
LEMMA NextTyped == Typed /\ [Next]_vars => Typed'
<1> SUFFICES ASSUME Typed, [Next]_vars PROVE Typed' OBVIOUS
<1>1. CASE Next BY <1>1, WorkerStepTyped, WorkerFaultTyped, RequestStepTyped, JobStepTyped DEF Next
<1>2. CASE UNCHANGED vars
  BY <1>2 DEF vars, rows, provider, counters, Typed, TypeOK, Attached, Busy
<1> QED BY <1>1, <1>2

\* Every variable keeps its type, and a goroutine inside a handler has a job.
THEOREM TypedAlways == Spec => []Typed
BY InitTyped, NextTyped, PTL DEF Spec

\* The type invariant, for every set of payloads, workers and requests.
THEOREM TypeCorrect == Spec => []TypeOK
<1>1. Typed => TypeOK BY DEF Typed
<1> QED BY <1>1, TypedAlways, PTL

-----------------------------------------------------------------------------
(* What a step does to the stored data *)

\* The steps that write a table other than the provider's; every other step is
\* control flow of a goroutine or a request.
DataStep ==
    \/ UNCHANGED <<job, rows, usedRows, sessions>>
    \/ \E r \in Requests : RegisterRetry(r) \/ CreateJob(r)
    \/ \E w \in Workers :
         \/ ClaimPending(w) \/ SaveResponse(w) \/ MarkFailed(w)
         \/ Commit(w) /\ UNCHANGED <<usedRows, sessions>>
    \/ \E j \in Jobs :
         \/ LeaseExpires(j) \/ ClaimRegistrationSession(j) \/ TokenExpires(j)
         \/ DeviceToggles(j)

\* Every step is one of the writes to the tables that DataStep lists.
LEMMA NextIsDataStep == [Next]_vars => DataStep
<1>1. ASSUME NEW w \in Workers, WorkerStep(w) PROVE DataStep
  BY <1>1 DEF WorkerStep, DataStep, ClaimNothing, Resolve, LookupBeforeGenerate,
              LookupAfterError, Lookup, GenerateWallet, ProviderCreates, GenerateReturns, Finalize
<1>2. ASSUME NEW w \in Workers, WorkerFault(w) PROVE DataStep
  BY <1>2 DEF WorkerFault, DataStep, SaveResponseFails, GenerateFails, FinalizeFails,
              FinalizeUnheard, MarkFailedLost, WorkerDies
<1>3. ASSUME NEW r \in Requests, RequestStep(r) PROVE DataStep
  BY <1>3 DEF RequestStep, DataStep, RegisterRead, RegisterRollback
<1>4. ASSUME NEW j \in Jobs, JobStep(j) PROVE DataStep
  BY <1>4 DEF JobStep, DataStep, LateCreate
<1>5. CASE UNCHANGED vars BY <1>5 DEF DataStep, vars, rows
<1> QED BY <1>1, <1>2, <1>3, <1>4, <1>5 DEF Next

Open(j) == job[j].status \in OpenStatuses

\* What the row updates leave alone.
SameClaim(new, old) == new.claimed = old.claimed /\ new.token = old.token
SameFacts(new, old) == new.completedAt = old.completedAt /\ new.resp = old.resp
Failed(row) == [row EXCEPT !.status = "failed", !.stale = FALSE]
Saved(row, g) == [row EXCEPT !.resp = g, !.stale = FALSE]
Late(row) == [row EXCEPT !.stale = TRUE]
Expired(row) == [row EXCEPT !.expired = TRUE]

\* What each repository update changes of a job row, field by field.
LEMMA RowFields ==
    ASSUME NEW row \in JobRow
    PROVE
    /\ Requeue(row).status = "pending" /\ SameClaim(Requeue(row), row) /\ SameFacts(Requeue(row), row)
    /\ /\ SetClaimToken(row).status = row.status /\ SetClaimToken(row).claimed = row.claimed
       /\ SameFacts(SetClaimToken(row), row)
    /\ /\ MarkCompleted(row).status = "completed" /\ MarkCompleted(row).completedAt
       /\ MarkCompleted(row).resp = row.resp /\ SameClaim(MarkCompleted(row), row)
    /\ /\ MarkClaimed(row).status = row.status /\ MarkClaimed(row).claimed
       /\ SameFacts(MarkClaimed(row), row)
    /\ Failed(row).status = "failed" /\ SameClaim(Failed(row), row) /\ SameFacts(Failed(row), row)
    /\ \A g \in Nat : /\ Saved(row, g).status = row.status /\ SameClaim(Saved(row, g), row)
                      /\ Saved(row, g).completedAt = row.completedAt /\ Saved(row, g).resp = g
    /\ Late(row).status = row.status /\ SameClaim(Late(row), row) /\ SameFacts(Late(row), row)
    /\ /\ Expired(row).status = row.status /\ SameClaim(Expired(row), row)
       /\ SameFacts(Expired(row), row)
BY DEF JobRow, SameClaim, SameFacts, Requeue, SetClaimToken, MarkCompleted, MarkClaimed, Failed,
       Saved, Late, Expired

\* The row of one job after a step that writes it.
LEMMA WorkerWrites ==
    ASSUME Typed, NEW w \in Workers, SaveResponse(w) \/ MarkFailed(w) \/ Commit(w)
    PROVE  /\ worker[w].job \in Jobs
           /\ job[worker[w].job] \in JobRow
           /\ \A k \in Jobs \ {worker[w].job} : job'[k] = job[k]
           /\ SaveResponse(w) => /\ worker[w].got \in Nat
                                 /\ job'[worker[w].job] = Saved(job[worker[w].job], worker[w].got)
           /\ MarkFailed(w) => job'[worker[w].job] = Failed(job[worker[w].job])
           /\ Commit(w) => job'[worker[w].job] = MarkCompleted(job[worker[w].job])
<1>0. DataTyped /\ WorkersTyped BY TypedIsParts
<1>1. worker[w] \in WorkerState /\ worker[w].job \in Jobs
  BY <1>0 DEF SaveResponse, MarkFailed, Commit, WorkersTyped, Busy
<1>2. job[worker[w].job] \in JobRow /\ worker[w].got \in Nat
  BY <1>0, <1>1 DEF DataTyped, WorkerState
<1>3. CASE SaveResponse(w)
  <2>1. job' = [job EXCEPT ![worker[w].job] = Saved(job[worker[w].job], worker[w].got)]
    BY <1>3 DEF SaveResponse, Saved
  <2>2. ~MarkFailed(w) /\ ~Commit(w) BY <1>3 DEF SaveResponse, MarkFailed, Commit
  <2> QED BY <1>0, <1>1, <1>2, <2>1, <2>2 DEF DataTyped
<1>4. CASE MarkFailed(w)
  <2>1. job' = [job EXCEPT ![worker[w].job] = Failed(job[worker[w].job])]
    BY <1>4 DEF MarkFailed, Failed
  <2>2. ~SaveResponse(w) /\ ~Commit(w) BY <1>4 DEF SaveResponse, MarkFailed, Commit
  <2> QED BY <1>0, <1>1, <1>2, <2>1, <2>2 DEF DataTyped
<1>5. CASE Commit(w)
  <2>1. job' = [job EXCEPT ![worker[w].job] = MarkCompleted(job[worker[w].job])]
    BY <1>5 DEF Commit
  <2>2. ~MarkFailed(w) /\ ~SaveResponse(w) BY <1>5 DEF SaveResponse, MarkFailed, Commit
  <2> QED BY <1>0, <1>1, <1>2, <2>1, <2>2 DEF DataTyped
<1> QED BY <1>3, <1>4, <1>5

\* What a retry of a known key writes.
LEMMA RetryWrites ==
    ASSUME Typed, NEW r \in Requests, RegisterRetry(r)
    PROVE  /\ req[r].job \in Jobs
           /\ \A k \in Jobs \ {req[r].job} : job'[k] = job[k]
           /\ SameFacts(job'[req[r].job], job[req[r].job])
           /\ job'[req[r].job].claimed = job[req[r].job].claimed
           /\ job'[req[r].job].status =
                IF NeedsRequeue(req[r].status) THEN "pending" ELSE job[req[r].job].status
<1> DEFINE j == req[r].job
           row == IF NeedsRequeue(req[r].status) THEN Requeue(job[j]) ELSE job[j]
<1>0. DataTyped /\ RequestsTyped BY TypedIsParts
<1>1. j \in Jobs BY <1>0 DEF RegisterRetry, RequestsTyped
<1>2. job[j] \in JobRow /\ issued \in Nat BY <1>0, <1>1 DEF DataTyped
<1>3. row \in JobRow BY <1>2, RowUpdates
<1>4. /\ SameFacts(row, job[j]) /\ row.claimed = job[j].claimed
      /\ row.status = IF NeedsRequeue(req[r].status) THEN "pending" ELSE job[j].status
  BY <1>2, RowFields DEF SameClaim, SameFacts
<1>5. job' = [job EXCEPT ![j] = IF ~req[r].claimed THEN SetClaimToken(row) ELSE row]
  BY DEF RegisterRetry
<1> HIDE DEF row
<1>6. /\ SameFacts(SetClaimToken(row), row)
      /\ SetClaimToken(row).claimed = row.claimed /\ SetClaimToken(row).status = row.status
  BY <1>3, RowFields
<1>7. \A k \in Jobs \ {j} : job'[k] = job[k] BY <1>0, <1>5 DEF DataTyped
<1>8. job'[j] \in {row, SetClaimToken(row)} BY <1>0, <1>1, <1>5 DEF DataTyped
<1> QED BY <1>1, <1>4, <1>6, <1>7, <1>8 DEF SameFacts

\* What the creation of a job writes.
LEMMA CreateWrites ==
    ASSUME Typed, NEW r \in Requests, CreateJob(r)
    PROVE  /\ req[r].job \in Jobs
           /\ \A k \in Jobs \ {req[r].job} : job'[k] = job[k]
           /\ job'[req[r].job].status = "pending"
           /\ job'[req[r].job].claimed = FALSE
           /\ SameFacts(job'[req[r].job], NoRow)
<1> DEFINE row == [NoRow EXCEPT !.status = "pending"]
<1>0. DataTyped /\ RequestsTyped BY TypedIsParts
<1>1. req[r].job \in Jobs BY <1>0 DEF CreateJob, RequestsTyped
<1>2. row \in JobRow
  <2>1. \A n \in JobRow : [n EXCEPT !.status = "pending"] \in JobRow BY DEF JobRow, Statuses
  <2> QED BY <2>1, InitialValues
<1>3. row.status = "pending" /\ row.claimed = FALSE /\ SameFacts(row, NoRow)
  BY DEF NoRow, SameFacts
<1>4. job' = [job EXCEPT ![req[r].job] = SetClaimToken(row)] BY DEF CreateJob
<1> HIDE DEF row
<1> QED BY <1>0, <1>1, <1>2, <1>3, <1>4, RowFields DEF DataTyped, SameFacts

\* What claiming a batch of pending jobs writes.
LEMMA ClaimWrites ==
    ASSUME Typed, NEW w \in Workers, ClaimPending(w), NEW j \in Jobs
    PROVE  /\ SameFacts(job'[j], job[j]) /\ SameClaim(job'[j], job[j])
           /\ job'[j].status # job[j].status =>
                Open(j) /\ job'[j].status \in OpenStatuses
<1>0. DataTyped BY TypedIsParts
<1>1. job[j] \in JobRow BY <1>0 DEF DataTyped
<1>2. PICK batch \in SUBSET Jobs :
        /\ \A k \in batch : job[k].status = "pending" \/ Stale(k)
        /\ job' = [k \in Jobs |->
             IF k \in batch
             THEN [job[k] EXCEPT !.status = "processing", !.stale = FALSE,
                                 !.attempts = IF @ = 2 THEN 2 ELSE @ + 1]
             ELSE IF Stale(k) THEN [job[k] EXCEPT !.status = "pending", !.stale = FALSE]
             ELSE job[k]]
  BY DEF ClaimPending
<1>3. CASE j \in batch
  BY <1>1, <1>2, <1>3 DEF JobRow, SameFacts, SameClaim, Open, OpenStatuses, Stale
<1>4. CASE j \notin batch /\ Stale(j)
  BY <1>1, <1>2, <1>4 DEF JobRow, SameFacts, SameClaim, Open, OpenStatuses, Stale
<1>5. CASE j \notin batch /\ ~Stale(j)
  BY <1>2, <1>5 DEF SameFacts, SameClaim
<1> QED BY <1>3, <1>4, <1>5

\* What the clock, the claim endpoint and the other modules write.
LEMMA JobWrites ==
    ASSUME Typed, NEW j \in Jobs,
           \/ LeaseExpires(j) \/ ClaimRegistrationSession(j) \/ TokenExpires(j)
           \/ DeviceToggles(j)
    PROVE  /\ job[j] \in JobRow
           /\ \A k \in Jobs \ {j} : job'[k] = job[k]
           /\ LeaseExpires(j) => job'[j] = Late(job[j])
           /\ ClaimRegistrationSession(j) => job'[j] = MarkClaimed(job[j])
           /\ TokenExpires(j) => job'[j] = Expired(job[j])
           /\ DeviceToggles(j) => job'[j] = job[j]
           /\ job'[j] \in {Late(job[j]), MarkClaimed(job[j]), Expired(job[j]), job[j]}
<1>0. DataTyped BY TypedIsParts
<1> QED BY <1>0 DEF LeaseExpires, ClaimRegistrationSession, TokenExpires, DeviceToggles,
                    Late, Expired, DataTyped

-----------------------------------------------------------------------------
(* At most one open job per phone *)

\* No write to the job table opens a second job of a phone.
LEMMA OneOpenStep ==
    ASSUME Typed, OneOpenJobPerPhone, DataStep
    PROVE  OneOpenJobPerPhone'
<1>0. DataTyped /\ RequestsTyped /\ WorkersTyped BY TypedIsParts
<1>1. ASSUME \A j \in Jobs : Open(j)' => Open(j)
      PROVE  OneOpenJobPerPhone'
  BY <1>1 DEF OneOpenJobPerPhone, Open
<1>2. ASSUME NEW j \in Jobs, PhoneFree(j), \A k \in Jobs \ {j} : job'[k] = job[k]
      PROVE  OneOpenJobPerPhone'
  BY <1>2 DEF OneOpenJobPerPhone, PhoneFree
<1>3. CASE UNCHANGED <<job, rows, usedRows, sessions>>
  BY <1>1, <1>3 DEF Open
<1>4. ASSUME NEW r \in Requests, RegisterRetry(r) PROVE OneOpenJobPerPhone'
  <2>1. CASE NeedsRequeue(req[r].status)
    BY <1>2, <1>4, <2>1, RetryWrites DEF RegisterRetry
  <2>2. CASE ~NeedsRequeue(req[r].status)
    BY <1>1, <1>4, <2>2, RetryWrites DEF Open
  <2> QED BY <2>1, <2>2
<1>5. ASSUME NEW r \in Requests, CreateJob(r) PROVE OneOpenJobPerPhone'
  BY <1>2, <1>5, CreateWrites DEF CreateJob
<1>6. ASSUME NEW w \in Workers, ClaimPending(w) PROVE OneOpenJobPerPhone'
  BY <1>1, <1>6, ClaimWrites DEF Open
<1>7. ASSUME NEW w \in Workers, SaveResponse(w) \/ MarkFailed(w) \/ Commit(w)
      PROVE  OneOpenJobPerPhone'
  <2> DEFINE j == worker[w].job
  <2>1. job'[j].status \in {job[j].status, "failed", "completed"}
    BY <1>7, WorkerWrites, RowFields
  <2> QED BY <1>1, <1>7, <2>1, WorkerWrites DEF Open, OpenStatuses
<1>8. ASSUME NEW j \in Jobs,
             \/ LeaseExpires(j) \/ ClaimRegistrationSession(j) \/ TokenExpires(j)
             \/ DeviceToggles(j)
      PROVE  OneOpenJobPerPhone'
  <2>1. \A k \in Jobs : job'[k].status = job[k].status
    BY <1>8, JobWrites, RowFields
  <2> QED BY <1>1, <2>1 DEF Open
<1> QED BY <1>3, <1>4, <1>5, <1>6, <1>7, <1>8 DEF DataStep

\* Two payloads of one phone are never in progress together: the unique index on
\* open jobs holds at insertion and at every requeue.
THEOREM OneOpenJobPerPhoneAlways == Spec => []OneOpenJobPerPhone
<1>1. Init => OneOpenJobPerPhone
  BY DEF Init, OneOpenJobPerPhone, NoRow, OpenStatuses
<1>2. Typed /\ OneOpenJobPerPhone /\ [Next]_vars => OneOpenJobPerPhone'
  BY OneOpenStep, NextIsDataStep
<1> QED BY <1>1, <1>2, TypedAlways, PTL DEF Spec

-----------------------------------------------------------------------------
(* Nobody works on a job that is not stored *)

Stored(j) == job[j].status # "none"

\* A key without a row has no leftovers, and whoever holds a key found its row.
Known ==
    /\ \A j \in Jobs : ~Stored(j) => job[j] = NoRow
    /\ \A w \in Workers : Busy(w) => Stored(worker[w].job)
    /\ \A w \in Workers : \A j \in worker[w].rest : Stored(j)
    /\ \A r \in Requests : req[r].pc = "found" => Stored(req[r].job)

\* A row once stored stays stored, and a row is only written when stored or new.
LEMMA StoredStays ==
    ASSUME Typed, Known, DataStep, NEW j \in Jobs
    PROVE  /\ Stored(j) => Stored(j)'
           /\ ~Stored(j)' => job'[j] = NoRow
           /\ Stored(j)' # Stored(j) => \E r \in Requests : CreateJob(r) /\ req[r].job = j
<1>1. CASE UNCHANGED <<job, rows, usedRows, sessions>>
  BY <1>1 DEF Known, Stored
<1>2. ASSUME NEW r \in Requests, RegisterRetry(r)
      PROVE  Stored(j)' = Stored(j) /\ (~Stored(j)' => job'[j] = NoRow)
  <2>1. Stored(req[r].job) BY <1>2 DEF Known, RegisterRetry
  <2>2. CASE j # req[r].job BY <1>2, <2>2, RetryWrites DEF Known, Stored
  <2>3. CASE j = req[r].job BY <1>2, <2>1, <2>3, RetryWrites DEF Stored
  <2> QED BY <2>2, <2>3
<1>3. ASSUME NEW r \in Requests, CreateJob(r)
      PROVE  /\ Stored(j) => Stored(j)'
             /\ ~Stored(j)' => job'[j] = NoRow
             /\ Stored(j)' # Stored(j) => req[r].job = j
  <2>1. CASE j # req[r].job BY <1>3, <2>1, CreateWrites DEF Known, Stored
  <2>2. CASE j = req[r].job BY <1>3, <2>2, CreateWrites DEF Stored
  <2> QED BY <2>1, <2>2
<1>4. ASSUME NEW w \in Workers, ClaimPending(w)
      PROVE  Stored(j)' = Stored(j) /\ (~Stored(j)' => job'[j] = NoRow)
  <2>1. Stored(j)' = Stored(j)
    BY <1>4, ClaimWrites DEF Stored, Open, OpenStatuses
  <2>2. ~Stored(j) => job'[j] = job[j]
    <3>1. DataTyped BY TypedIsParts
    <3> QED BY <1>4, <3>1 DEF ClaimPending, Stored, Stale, DataTyped
  <2> QED BY <2>1, <2>2 DEF Known
<1>5. ASSUME NEW w \in Workers, SaveResponse(w) \/ MarkFailed(w) \/ Commit(w)
      PROVE  Stored(j)' = Stored(j) /\ (~Stored(j)' => job'[j] = NoRow)
  <2>1. Stored(worker[w].job)
    BY <1>5 DEF Known, Busy, SaveResponse, MarkFailed, Commit
  <2>2. CASE j # worker[w].job BY <1>5, <2>2, WorkerWrites DEF Known, Stored
  <2>3. CASE j = worker[w].job
    BY <1>5, <2>1, <2>3, WorkerWrites, RowFields DEF Stored
  <2> QED BY <2>2, <2>3
<1>6. ASSUME NEW k \in Jobs,
             \/ LeaseExpires(k) \/ ClaimRegistrationSession(k) \/ TokenExpires(k)
             \/ DeviceToggles(k)
      PROVE  Stored(j)' = Stored(j) /\ (~Stored(j)' => job'[j] = NoRow)
  <2>1. CASE j # k BY <1>6, <2>1, JobWrites DEF Known, Stored
  <2>2. CASE j = k /\ DeviceToggles(k) BY <1>6, <2>2, JobWrites DEF Known, Stored
  <2>3. CASE j = k /\ ~DeviceToggles(k)
    <3>1. Stored(k)
      BY <1>6, <2>3 DEF Known, Stored, NoRow, LeaseExpires, ClaimRegistrationSession, CanClaim,
                        TokenExpires
    <3> QED BY <1>6, <2>3, <3>1, JobWrites, RowFields DEF Stored
  <2> QED BY <2>1, <2>2, <2>3
<1> QED BY <1>1, <1>2, <1>3, <1>4, <1>5, <1>6 DEF DataStep

\* The jobs of a goroutine: the one in hand and the rest of its batch.
Held(v) == {j \in Jobs : Busy(v) /\ worker[v].job = j} \cup worker[v].rest

KeepsJobs(v) ==
    /\ worker'[v].job = worker[v].job /\ worker'[v].rest = worker[v].rest
    /\ Busy(v)' <=> Busy(v)
Ends(v) == worker'[v] = IdleWorker
TakesNext(v) == \E j \in worker[v].rest :
    worker'[v].job = j /\ worker'[v].rest = worker[v].rest \ {j} /\ Busy(v)'

\* Moving to another label changes nothing else of a goroutine.
LEMMA GotoKeeps ==
    ASSUME WorkersTyped, NEW w \in Workers, Busy(w), NEW l \in Labels, Goto(w, l), NEW v \in Workers
    PROVE  KeepsJobs(v)
<1>1. worker[w] \in WorkerState /\ worker[v] \in WorkerState BY DEF WorkersTyped
<1>2. worker' = [worker EXCEPT ![w] = [worker[w] EXCEPT !.pc = l]] BY DEF Goto
<1> QED BY <1>1, <1>2 DEF WorkersTyped, KeepsJobs, Busy, WorkerState, Labels

\* Going on with a batch only hands its remaining jobs on.
LEMMA NextJobMoves ==
    ASSUME WorkersTyped, NEW w \in Workers, NextJob(w), NEW v \in Workers
    PROVE  KeepsJobs(v) \/ Ends(v) \/ TakesNext(v)
<1>1. worker[w] \in WorkerState /\ worker[v] \in WorkerState BY DEF WorkersTyped
<1>2. CASE v # w
  BY <1>2 DEF NextJob, WorkersTyped, KeepsJobs, Busy
<1>3. CASE v = w /\ worker[w].rest = {}
  BY <1>3 DEF NextJob, WorkersTyped, Ends
<1>4. CASE v = w /\ worker[w].rest # {}
  <2>1. PICK j \in worker[w].rest :
            worker' = [worker EXCEPT ![w] =
                [worker[w] EXCEPT !.pc = "resolve", !.job = j, !.rest = @ \ {j},
                                  !.got = 0, !.done = FALSE]]
    BY <1>4 DEF NextJob
  <2>2. worker'[w] = [worker[w] EXCEPT !.pc = "resolve", !.job = j, !.rest = @ \ {j},
                                       !.got = 0, !.done = FALSE]
    BY <2>1 DEF WorkersTyped
  <2>3. worker'[w].job = j /\ worker'[w].rest = worker[w].rest \ {j} /\ Busy(w)'
    BY <1>1, <2>2 DEF WorkerState, Busy
  <2> QED BY <1>4, <2>3 DEF TakesNext
<1> QED BY <1>2, <1>3, <1>4

\* A kick gives no goroutine a job.
LEMMA KickKeeps ==
    ASSUME WorkersTyped, NEW b \in BOOLEAN, Kick(b), NEW v \in Workers
    PROVE  KeepsJobs(v)
<1>1. worker[v] \in WorkerState BY DEF WorkersTyped
<1>2. CASE UNCHANGED worker BY <1>2 DEF KeepsJobs, Busy
<1>3. CASE \E w \in Kickers : /\ worker[w].pc = "idle"
                             /\ worker' = [worker EXCEPT ![w].pc = "ready"]
  <2>1. PICK w \in Kickers : /\ worker[w].pc = "idle"
                            /\ worker' = [worker EXCEPT ![w].pc = "ready"]
    BY <1>3
  <2>2. worker[w] \in WorkerState BY DEF WorkersTyped, Workers
  <2> QED BY <1>1, <2>1, <2>2 DEF WorkersTyped, KeepsJobs, Busy, WorkerState, Workers
<1> QED BY <1>2, <1>3 DEF Kick

\* How a step changes the jobs in a goroutine's hands.
LEMMA WorkerMoves ==
    ASSUME Typed, [Next]_vars, NEW v \in Workers
    PROVE  KeepsJobs(v) \/ Ends(v) \/ TakesNext(v) \/ ClaimPending(v)
<1>0. WorkersTyped BY TypedIsParts
<1>1. ASSUME UNCHANGED worker PROVE KeepsJobs(v) BY <1>1 DEF KeepsJobs, Busy
<1>2. ASSUME NEW w \in Workers, WorkerStep(w)
      PROVE  KeepsJobs(v) \/ Ends(v) \/ TakesNext(v) \/ ClaimPending(v)
  <2>0. worker[w] \in WorkerState BY <1>0 DEF WorkersTyped
  <2>1. CASE ClaimPending(w)
    <3>1. v # w => worker'[v] = worker[v] BY <1>0, <2>1 DEF ClaimPending, WorkersTyped
    <3> QED BY <2>1, <3>1 DEF KeepsJobs, Busy
  <2>2. CASE ClaimNothing(w)
    BY <1>0, <2>2 DEF ClaimNothing, WorkersTyped, Ends, KeepsJobs, Busy
  <2>3. CASE Resolve(w) BY <1>0, <2>3, GotoKeeps DEF Resolve, Busy, Labels
  <2>4. CASE LookupBeforeGenerate(w) \/ LookupAfterError(w)
    <3>1. Busy(w) BY <2>4 DEF LookupBeforeGenerate, LookupAfterError, Lookup, Busy
    <3>2. CASE \E l \in Labels : Goto(w, l) BY <1>0, <3>1, <3>2, GotoKeeps
    <3>3. CASE \E l \in Labels : \E n : worker' = [worker EXCEPT ![w].pc = l, ![w].got = n]
      <4>1. PICK l \in Labels : \E n : worker' = [worker EXCEPT ![w].pc = l, ![w].got = n] BY <3>3
      <4>2. PICK n : worker' = [worker EXCEPT ![w].pc = l, ![w].got = n] BY <4>1
      <4>3. worker'[w] = [worker[w] EXCEPT !.pc = l, !.got = n] BY <1>0, <4>2 DEF WorkersTyped
      <4>4. v # w => worker'[v] = worker[v] BY <1>0, <4>2 DEF WorkersTyped
      <4>5. worker'[w].job = worker[w].job /\ worker'[w].rest = worker[w].rest /\ Busy(w)'
        BY <2>0, <4>3 DEF WorkerState, Labels, Busy
      <4> QED BY <3>1, <4>4, <4>5 DEF KeepsJobs, Busy
    <3> QED BY <2>4, <3>2, <3>3 DEF LookupBeforeGenerate, LookupAfterError, Lookup, Labels
  <2>5. CASE SaveResponse(w) \/ GenerateWallet(w) \/ ProviderCreates(w)
    <3>1. Busy(w) BY <2>5 DEF SaveResponse, GenerateWallet, ProviderCreates, Busy
    <3>2. v # w => worker'[v] = worker[v]
      BY <1>0, <2>5 DEF WorkersTyped, SaveResponse, GenerateWallet, ProviderCreates
    <3>3. worker'[w].job = worker[w].job /\ worker'[w].rest = worker[w].rest /\ Busy(w)'
      BY <1>0, <2>0, <2>5 DEF WorkersTyped, WorkerState, SaveResponse, GenerateWallet, ProviderCreates,
                             Busy
    <3> QED BY <3>1, <3>2, <3>3 DEF KeepsJobs, Busy
  <2>6. CASE GenerateReturns(w) BY <1>0, <2>6, GotoKeeps DEF GenerateReturns, Busy, Labels
  <2>7. CASE Finalize(w) \/ MarkFailed(w)
    BY <1>0, <2>7, NextJobMoves DEF Finalize, MarkFailed
  <2> QED BY <1>2, <2>1, <2>2, <2>3, <2>4, <2>5, <2>6, <2>7 DEF WorkerStep
<1>3. ASSUME NEW w \in Workers, WorkerFault(w)
      PROVE  KeepsJobs(v) \/ Ends(v) \/ TakesNext(v)
  <2>1. CASE SaveResponseFails(w) \/ GenerateFails(w) \/ FinalizeFails(w) \/ FinalizeUnheard(w)
    <3>1. Busy(w)
      BY <2>1 DEF SaveResponseFails, GenerateFails, FinalizeFails, FinalizeUnheard, Commit, Busy
    <3>2. \E l \in Labels : Goto(w, l)
      BY <2>1 DEF SaveResponseFails, GenerateFails, FinalizeFails, FinalizeUnheard, Labels
    <3> QED BY <1>0, <3>1, <3>2, GotoKeeps
  <2>2. CASE MarkFailedLost(w) BY <1>0, <2>2, NextJobMoves DEF MarkFailedLost
  <2>3. CASE WorkerDies(w)
    BY <1>0, <2>3 DEF WorkerDies, WorkersTyped, Ends, KeepsJobs, Busy
  <2> QED BY <1>3, <2>1, <2>2, <2>3 DEF WorkerFault
<1>4. ASSUME NEW r \in Requests, RequestStep(r) PROVE KeepsJobs(v)
  <2>1. CASE (\E j \in Jobs : RegisterRead(r, j)) \/ RegisterRollback(r)
    BY <1>1, <2>1 DEF RegisterRead, RegisterRollback
  <2>2. CASE RegisterRetry(r) \/ CreateJob(r)
    BY <1>0, <2>2, KickKeeps DEF RegisterRetry, CreateJob
  <2> QED BY <1>4, <2>1, <2>2 DEF RequestStep
<1>5. ASSUME NEW j \in Jobs, JobStep(j) PROVE KeepsJobs(v)
  BY <1>1, <1>5 DEF JobStep, LeaseExpires, LateCreate, ClaimRegistrationSession, TokenExpires,
                    DeviceToggles
<1>6. CASE UNCHANGED vars BY <1>1, <1>6 DEF vars
<1> QED BY <1>2, <1>3, <1>4, <1>5, <1>6 DEF Next

\* A step puts only stored jobs into a goroutine's hands.
LEMMA HeldStep ==
    ASSUME Typed, [Next]_vars, NEW v \in Workers
    PROVE  Held(v)' \subseteq Held(v) \cup {j \in Jobs : Open(j)}
<1>0. DataTyped /\ WorkersTyped /\ worker[v] \in WorkerState BY TypedIsParts DEF WorkersTyped
<1>1. CASE KeepsJobs(v) BY <1>1 DEF KeepsJobs, Held
<1>2. CASE Ends(v) BY <1>2 DEF Ends, Held, Busy, IdleWorker
<1>3. CASE TakesNext(v) BY <1>0, <1>3 DEF TakesNext, Held
<1>4. CASE ClaimPending(v)
  <2>1. PICK batch \in SUBSET {j \in Jobs : job[j].status = "pending" \/ Stale(j)},
             first \in Jobs :
          /\ first \in batch
          /\ worker'[v].job = first
          /\ worker'[v].rest = batch \ {first}
    <3>1. PICK batch \in SUBSET {j \in Jobs : job[j].status = "pending" \/ Stale(j)},
               first \in Jobs :
            /\ first \in batch
            /\ worker' = [worker EXCEPT ![v] =
                 [pc |-> "resolve", job |-> first, rest |-> batch \ {first},
                  resp |-> [j \in Jobs |-> job[j].resp],
                  again |-> {j \in batch : job[j].attempts >= 1},
                  got |-> 0, done |-> FALSE]]
      BY <1>4 DEF ClaimPending
    <3>2. worker'[v].job = first /\ worker'[v].rest = batch \ {first}
      BY <1>0, <3>1 DEF WorkersTyped
    <3> QED BY <3>1, <3>2
  <2>2. \A j \in batch : j \in Jobs /\ Open(j) BY DEF Open, OpenStatuses, Stale
  <2> QED BY <2>1, <2>2 DEF Held
<1> QED BY <1>1, <1>2, <1>3, <1>4, WorkerMoves

\* Known is preserved: calls and goroutines only ever refer to stored jobs.
LEMMA KnownStep ==
    ASSUME Typed, Known, [Next]_vars
    PROVE  Known'
<1>0. DataTyped /\ WorkersTyped /\ RequestsTyped /\ Typed' BY TypedIsParts, NextTyped
<1>1. DataStep BY NextIsDataStep
<1>2. \A j \in Jobs : (Stored(j) => Stored(j)') /\ (~Stored(j)' => job'[j] = NoRow)
  BY <1>1, StoredStays
<1>3. ASSUME NEW w \in Workers, NEW j \in Held(w)' PROVE Stored(j)'
  <2>1. j \in Held(w) \cup {k \in Jobs : Open(k)} BY HeldStep, <1>3
  <2>2. j \in Jobs BY <1>0, <2>1 DEF Held, WorkersTyped, WorkerState
  <2>3. Stored(j) BY <2>1 DEF Held, Known, Open, OpenStatuses, Stored
  <2> QED BY <1>2, <2>2, <2>3
<1>4. ASSUME NEW r \in Requests, req'[r].pc = "found" PROVE Stored(req[r].job)'
  <2>1. CASE req'[r] = req[r]
    <3>1. req[r].pc # "idle" /\ req[r].pc = "found" BY <1>4, <2>1
    <3>2. req[r].job \in Jobs /\ Stored(req[r].job) BY <1>0, <3>1 DEF RequestsTyped, Known
    <3> QED BY <1>2, <2>1, <3>2 DEF Stored
  <2>2. CASE req'[r] # req[r]
    <3>1. PICK q \in Requests : RequestStep(q) /\ req' = [req EXCEPT ![q] = req'[q]]
      <4>1. UNCHANGED req \/ \E q \in Requests : RequestStep(q)
        BY DEF Next, vars, WorkerStep, WorkerFault, JobStep, ClaimPending, ClaimNothing, Resolve,
               LookupBeforeGenerate, LookupAfterError, Lookup, SaveResponse, GenerateWallet,
               ProviderCreates, GenerateReturns, Finalize, MarkFailed, SaveResponseFails,
               GenerateFails, FinalizeFails, FinalizeUnheard, MarkFailedLost, WorkerDies,
               LeaseExpires, LateCreate, ClaimRegistrationSession, TokenExpires, DeviceToggles
      <4>2. PICK q \in Requests : RequestStep(q) BY <2>2, <4>1
      <4>3. req' = [req EXCEPT ![q] = req'[q]]
        BY <1>0, <4>2 DEF RequestsTyped, RequestStep, RegisterRead, RegisterRetry, CreateJob,
                          RegisterRollback
      <4> QED BY <4>2, <4>3
    <3>2. q = r BY <1>0, <2>2, <3>1 DEF RequestsTyped
    <3>3. ASSUME req' = [req EXCEPT ![r] = IdleRequest] PROVE FALSE
      BY <1>0, <1>4, <3>3 DEF RequestsTyped, IdleRequest
    <3>4. PICK j \in Jobs : RegisterRead(r, j)
      BY <3>1, <3>2, <3>3 DEF RequestStep, RegisterRetry, CreateJob, RegisterRollback
    <3>5. CASE Stored(j)
      <4>1. req'[r].job = j BY <1>0, <3>4, <3>5 DEF RegisterRead, RequestsTyped, Stored
      <4> QED BY <1>2, <3>5, <4>1 DEF Stored
    <3>6. CASE ~Stored(j)
      <4>1. req'[r] = [IdleRequest EXCEPT !.pc = "create", !.job = j]
        BY <1>0, <3>4, <3>6 DEF RegisterRead, RequestsTyped, Stored
      <4>2. req'[r].pc = "create" BY <4>1 DEF IdleRequest
      <4> QED BY <1>4, <4>2
    <3> QED BY <3>5, <3>6
  <2> QED BY <2>1, <2>2
<1>5. \A w \in Workers : Busy(w)' => worker'[w].job \in Held(w)'
  BY <1>0, TypedIsParts DEF WorkersTyped, Held
<1>6. \A w \in Workers : worker'[w].rest \subseteq Held(w)' BY DEF Held
<1>7. \A w \in Workers : Busy(w)' => Stored(worker[w].job)' BY <1>3, <1>5
<1>8. \A w \in Workers : \A j \in worker'[w].rest : Stored(j)' BY <1>3, <1>6
<1> QED BY <1>2, <1>4, <1>7, <1>8 DEF Known

\* Calls past their read and goroutines refer to the jobs they should.
LEMMA KnownAlways == Spec => []Known
<1>1. Init => Known
  BY DEF Init, Known, Stored, Busy, NoRow, IdleWorker, IdleRequest
<1>2. Typed /\ Known /\ [Next]_vars => Known' BY KnownStep
<1> QED BY <1>1, <1>2, TypedAlways, PTL DEF Spec

\* A record is used exactly when a stored job refers to it: marking the records and
\* inserting the job commit together, and rows of the job table are never deleted.
THEOREM RowsUsedAlways == Spec => []RowsUsedByJobs
<1> DEFINE Stores == {k \in Jobs : Stored(k)}
<1>1. Init => RowsUsedByJobs BY DEF Init, RowsUsedByJobs, NoRow
<1>2. Typed /\ Known /\ RowsUsedByJobs /\ [Next]_vars => RowsUsedByJobs'
  <2> SUFFICES ASSUME Typed, Known, RowsUsedByJobs, [Next]_vars PROVE RowsUsedByJobs'
    OBVIOUS
  <2>1. DataStep BY NextIsDataStep
  <2>2. CASE \E r \in Requests : CreateJob(r)
    <3>1. PICK r \in Requests : CreateJob(r) BY <2>2
    <3>2. Stores' = Stores \cup {req[r].job}
      BY <3>1, CreateWrites DEF Stored, CreateJob
    <3>3. usedRows' = usedRows \cup RowsOf[req[r].job] BY <3>1 DEF CreateJob, ConsumedBy
    <3> QED BY <3>2, <3>3 DEF RowsUsedByJobs, Stored
  <2>3. CASE ~\E r \in Requests : CreateJob(r)
    <3>1. \A j \in Jobs : Stored(j)' = Stored(j) BY <2>1, <2>3, StoredStays
    <3>2. usedRows' = usedRows
      BY <2>1, <2>3 DEF DataStep, RegisterRetry, ClaimPending, SaveResponse, MarkFailed,
                        LeaseExpires, ClaimRegistrationSession, TokenExpires, DeviceToggles
    <3>3. Stores' = Stores BY <3>1
    <3> QED BY <3>2, <3>3 DEF RowsUsedByJobs, Stored
  <2> QED BY <2>2, <2>3
<1> QED BY <1>1, <1>2, TypedAlways, KnownAlways, PTL DEF Spec

-----------------------------------------------------------------------------
(* Every wallet a goroutine or a row names exists at the provider *)

\* n is the state of a goroutine, R the number of wallets per customer.
Backed(n, R) ==
    /\ \A k \in Jobs : n.resp[k] <= R[k]
    /\ n.pc \notin {"idle", "ready"} => n.got <= R[n.job]
    /\ n.pc \in {"save", "saveRecovered"} => n.got # 0
    /\ n.pc = "awaiting" /\ n.done => n.got # 0
    /\ n.pc = "finalize" => n.resp[n.job] # 0

ResponsesExist ==
    /\ \A j \in Jobs : job[j].resp <= remote[j]
    /\ \A w \in Workers : Backed(worker[w], remote)

\* What is backed by the provider stays backed while its wallets only grow.
LEMMA BackedGrows ==
    ASSUME WorkersTyped, NEW w \in Workers, remote \in [Jobs -> Nat], remote' \in [Jobs -> Nat],
           \A j \in Jobs : remote[j] <= remote'[j], Backed(worker[w], remote)
    PROVE  Backed(worker[w], remote')
<1>1. worker[w] \in WorkerState /\ (Busy(w) => worker[w].job \in Jobs) BY DEF WorkersTyped
<1>2. \A k \in Jobs : worker[w].resp[k] \in Nat BY <1>1 DEF WorkerState
<1>3. worker[w].got \in Nat BY <1>1 DEF WorkerState
<1> QED BY <1>1, <1>2, <1>3 DEF Backed, Busy

\* No step removes a wallet at the provider.
LEMMA RemoteGrows ==
    ASSUME Typed, [Next]_vars
    PROVE  \A j \in Jobs : remote[j] <= remote'[j]
<1>0. DataTyped BY TypedIsParts
<1>1. CASE UNCHANGED remote BY <1>0, <1>1 DEF DataTyped
<1>2. ASSUME NEW w \in Workers, ProviderCreates(w) PROVE \A j \in Jobs : remote[j] <= remote'[j]
  BY <1>0, <1>2 DEF DataTyped, ProviderCreates
<1>3. ASSUME NEW j \in Jobs, LateCreate(j) PROVE \A k \in Jobs : remote[k] <= remote'[k]
  BY <1>0, <1>3 DEF DataTyped, LateCreate
<1>4. \/ UNCHANGED remote
      \/ \E w \in Workers : ProviderCreates(w)
      \/ \E j \in Jobs : LateCreate(j)
  BY DEF Next, vars, provider, WorkerStep, WorkerFault, RequestStep, JobStep, ClaimPending,
         ClaimNothing, Resolve, LookupBeforeGenerate, LookupAfterError, Lookup, SaveResponse,
         GenerateWallet, GenerateReturns, Finalize, MarkFailed, SaveResponseFails, GenerateFails,
         FinalizeFails, FinalizeUnheard, MarkFailedLost, WorkerDies, LeaseExpires, RegisterRead,
         RegisterRetry, CreateJob, RegisterRollback, ClaimRegistrationSession, TokenExpires,
         DeviceToggles
<1> QED BY <1>1, <1>2, <1>3, <1>4

\* The new state of the goroutine that moves is backed, and so are the others.
LEMMA BackedUpdate ==
    ASSUME Typed, Typed', ResponsesExist, \A j \in Jobs : remote[j] <= remote'[j],
           NEW w \in Workers, NEW n, worker' = [worker EXCEPT ![w] = n], Backed(n, remote')
    PROVE  \A v \in Workers : Backed(worker'[v], remote')
<1>1. DataTyped /\ WorkersTyped /\ DataTyped' BY TypedIsParts
<1>2. \A v \in Workers : Backed(worker[v], remote')
  BY <1>1, BackedGrows DEF ResponsesExist, DataTyped
<1> QED BY <1>1, <1>2 DEF WorkersTyped

\* Going on with a batch keeps the copies of the goroutine backed.
LEMMA NextJobBacked ==
    ASSUME Typed, Typed', ResponsesExist, \A j \in Jobs : remote[j] <= remote'[j],
           NEW w \in Workers, NextJob(w)
    PROVE  \A v \in Workers : Backed(worker'[v], remote')
<1>1. DataTyped /\ WorkersTyped /\ worker[w] \in WorkerState /\ DataTyped'
  BY TypedIsParts DEF WorkersTyped
<1>2. Backed(worker[w], remote') BY <1>1, BackedGrows DEF ResponsesExist, DataTyped
<1>3. CASE worker[w].rest = {}
  <2>1. Backed(IdleWorker, remote') BY <1>1 DEF Backed, IdleWorker, DataTyped
  <2> QED BY <1>3, <2>1, BackedUpdate DEF NextJob
<1>4. CASE worker[w].rest # {}
  <2>1. PICK j \in worker[w].rest :
            worker' = [worker EXCEPT ![w] =
                [worker[w] EXCEPT !.pc = "resolve", !.job = j, !.rest = @ \ {j},
                                  !.got = 0, !.done = FALSE]]
    BY <1>4 DEF NextJob
  <2> DEFINE n == [worker[w] EXCEPT !.pc = "resolve", !.job = j, !.rest = @ \ {j},
                                    !.got = 0, !.done = FALSE]
  <2>2. j \in Jobs /\ remote'[j] \in Nat BY <1>1 DEF WorkerState, DataTyped
  <2>3. n.pc = "resolve" /\ n.job = j /\ n.got = 0 /\ n.resp = worker[w].resp
    BY <1>1 DEF WorkerState
  <2>4. worker' = [worker EXCEPT ![w] = n] BY <2>1
  <2> HIDE DEF n
  <2>5. Backed(n, remote') BY <1>2, <2>2, <2>3 DEF Backed
  <2> QED BY <2>4, <2>5, BackedUpdate
<1> QED BY <1>3, <1>4

\* Moving to another label keeps the copies of the goroutine backed.
LEMMA GotoBacked ==
    ASSUME Typed, Typed', ResponsesExist, \A j \in Jobs : remote[j] <= remote'[j],
           NEW w \in Workers, Busy(w), NEW l \in Labels, Goto(w, l),
           l \in {"save", "saveRecovered"} => worker[w].got # 0,
           l = "awaiting" => ~worker[w].done,
           l = "finalize" => worker[w].resp[worker[w].job] # 0
    PROVE  \A v \in Workers : Backed(worker'[v], remote')
<1> DEFINE n == [worker[w] EXCEPT !.pc = l]
<1>1. DataTyped /\ WorkersTyped /\ worker[w] \in WorkerState /\ DataTyped'
  BY TypedIsParts DEF WorkersTyped
<1>2. Backed(worker[w], remote') BY <1>1, BackedGrows DEF ResponsesExist, DataTyped
<1>3. /\ n.pc = l /\ n.job = worker[w].job /\ n.got = worker[w].got
      /\ n.resp = worker[w].resp /\ n.done = worker[w].done
  BY <1>1 DEF WorkerState
<1>4. worker' = [worker EXCEPT ![w] = n] BY DEF Goto
<1> HIDE DEF n
<1>5. Backed(n, remote') BY <1>2, <1>3 DEF Backed, Busy
<1> QED BY <1>4, <1>5, BackedUpdate

\* A kick keeps every goroutine backed.
LEMMA KickBacked ==
    ASSUME Typed, Typed', ResponsesExist, UNCHANGED remote, NEW b \in BOOLEAN, Kick(b)
    PROVE  \A v \in Workers : Backed(worker'[v], remote')
<1>1. CASE UNCHANGED worker BY <1>1 DEF ResponsesExist
<1>2. CASE \E w \in Kickers : worker' = [worker EXCEPT ![w].pc = "ready"]
  <2>1. PICK w \in Kickers : worker' = [worker EXCEPT ![w].pc = "ready"] BY <1>2
  <2> DEFINE n == [worker[w] EXCEPT !.pc = "ready"]
  <2>2. w \in Workers /\ worker[w] \in WorkerState
    BY TypedIsParts DEF Workers, WorkersTyped
  <2>3. n.pc = "ready" /\ n.resp = worker[w].resp BY <2>2 DEF WorkerState
  <2>4. worker' = [worker EXCEPT ![w] = n] BY <2>1
  <2> HIDE DEF n
  <2>5. Backed(n, remote') BY <2>2, <2>3 DEF Backed, ResponsesExist
  <2>6. \A j \in Jobs : remote[j] <= remote'[j] BY TypedIsParts DEF DataTyped
  <2> QED BY <2>2, <2>4, <2>5, <2>6, BackedUpdate
<1> QED BY <1>1, <1>2 DEF Kick

\* Every ordinary step of a goroutine keeps all goroutines backed.
LEMMA WorkerStepBacked ==
    ASSUME Typed, Typed', ResponsesExist, \A j \in Jobs : remote[j] <= remote'[j],
           NEW w \in Workers, WorkerStep(w)
    PROVE  \A v \in Workers : Backed(worker'[v], remote')
<1>0. DataTyped /\ WorkersTyped /\ worker[w] \in WorkerState /\ DataTyped'
  BY TypedIsParts DEF WorkersTyped
<1>a. Backed(worker[w], remote') /\ Backed(worker[w], remote)
  BY <1>0, BackedGrows DEF ResponsesExist, DataTyped
<1>1. CASE ClaimPending(w)
  <2>1. PICK batch \in SUBSET Jobs, first \in Jobs :
          worker' = [worker EXCEPT ![w] =
             [pc |-> "resolve", job |-> first, rest |-> batch \ {first},
              resp |-> [j \in Jobs |-> job[j].resp],
              again |-> {j \in batch : job[j].attempts >= 1},
              got |-> 0, done |-> FALSE]]
    BY <1>1 DEF ClaimPending
  <2> DEFINE n == [pc |-> "resolve", job |-> first, rest |-> batch \ {first},
                   resp |-> [j \in Jobs |-> job[j].resp],
                   again |-> {j \in batch : job[j].attempts >= 1},
                   got |-> 0, done |-> FALSE]
  <2>2. \A j \in Jobs : n.resp[j] <= remote'[j]
    <3>1. \A j \in Jobs : job[j].resp \in Nat BY <1>0 DEF DataTyped, JobRow
    <3>2. \A j \in Jobs : job[j].resp <= remote[j] BY DEF ResponsesExist
    <3> QED BY <1>0, <3>1, <3>2 DEF DataTyped
  <2>3. n.got <= remote'[n.job] /\ n.pc = "resolve" BY <1>0 DEF DataTyped
  <2>4. worker' = [worker EXCEPT ![w] = n] BY <2>1
  <2> HIDE DEF n
  <2> QED BY <2>2, <2>3, <2>4, BackedUpdate DEF Backed
<1>2. CASE ClaimNothing(w)
  <2>1. Backed(IdleWorker, remote') BY <1>0 DEF Backed, IdleWorker, DataTyped
  <2> QED BY <1>2, <2>1, BackedUpdate DEF ClaimNothing
<1>3. CASE Resolve(w)
  <2>1. PICK l \in {"finalize", "recover", "generate"} :
          Goto(w, l) /\ (l = "finalize" => worker[w].resp[worker[w].job] # 0)
    BY <1>3 DEF Resolve
  <2> QED BY <1>3, <2>1, GotoBacked DEF Resolve, Busy, Labels
<1>4. CASE LookupBeforeGenerate(w) \/ LookupAfterError(w)
  <2>1. Busy(w) /\ worker[w].job \in Jobs
    BY <1>0, <1>4 DEF LookupBeforeGenerate, LookupAfterError, Lookup, Busy, WorkersTyped
  <2>2. CASE \E l \in {"generate", "fail"} : Goto(w, l)
    BY <2>1, <2>2, GotoBacked DEF Labels
  <2>3. CASE \E l \in {"saveRecovered", "save"}, k \in 1..remote[worker[w].job] :
               worker' = [worker EXCEPT ![w].pc = l, ![w].got = k]
    <3>1. PICK l \in {"saveRecovered", "save"}, k \in 1..remote[worker[w].job] :
               worker' = [worker EXCEPT ![w].pc = l, ![w].got = k]
      BY <2>3
    <3> DEFINE n == [worker[w] EXCEPT !.pc = l, !.got = k]
    <3>2. k \in Nat /\ k # 0 /\ k <= remote'[worker[w].job]
      BY <1>0, <2>1 DEF DataTyped
    <3>3. n.pc = l /\ n.got = k /\ n.job = worker[w].job /\ n.resp = worker[w].resp
      BY <1>0 DEF WorkerState
    <3>4. worker' = [worker EXCEPT ![w] = n] BY <1>0, <3>1 DEF WorkersTyped
    <3> HIDE DEF n
    <3>5. Backed(n, remote') BY <1>a, <3>2, <3>3 DEF Backed
    <3> QED BY <3>4, <3>5, BackedUpdate
  <2> QED BY <1>4, <2>2, <2>3 DEF LookupBeforeGenerate, LookupAfterError, Lookup
<1>5. CASE SaveResponse(w)
  <2> DEFINE j == worker[w].job
             n == [worker[w] EXCEPT !.resp = [@ EXCEPT ![j] = worker[w].got], !.pc = "finalize"]
  <2>1. Busy(w) /\ j \in Jobs /\ worker[w].got # 0 /\ worker[w].got <= remote'[j]
    BY <1>0, <1>5, <1>a DEF SaveResponse, Busy, WorkersTyped, Backed
  <2>2. worker' = [worker EXCEPT ![w] = n] BY <1>0, <1>5 DEF SaveResponse, WorkersTyped
  <2>3. /\ n.pc = "finalize" /\ n.job = j /\ n.got = worker[w].got
        /\ n.resp = [worker[w].resp EXCEPT ![j] = worker[w].got]
    BY <1>0 DEF WorkerState
  <2>4. worker[w].resp \in [Jobs -> Nat] BY <1>0 DEF WorkerState
  <2> HIDE DEF j, n
  <2>5. Backed(n, remote') BY <1>a, <2>1, <2>3, <2>4 DEF Backed
  <2> QED BY <2>2, <2>5, BackedUpdate
<1>6. CASE GenerateWallet(w)
  <2> DEFINE n == [worker[w] EXCEPT !.pc = "awaiting", !.done = FALSE]
  <2>1. worker' = [worker EXCEPT ![w] = n] BY <1>0, <1>6 DEF GenerateWallet, WorkersTyped
  <2>2. /\ n.pc = "awaiting" /\ ~n.done /\ n.job = worker[w].job /\ n.got = worker[w].got
        /\ n.resp = worker[w].resp
    BY <1>0 DEF WorkerState
  <2> HIDE DEF n
  <2>3. Backed(n, remote') BY <1>6, <1>a, <2>2 DEF Backed, GenerateWallet
  <2> QED BY <2>1, <2>3, BackedUpdate
<1>7. CASE ProviderCreates(w)
  <2> DEFINE j == worker[w].job
             n == [worker[w] EXCEPT !.done = TRUE, !.got = remote[j] + 1]
  <2>1. Busy(w) /\ j \in Jobs /\ remote[j] \in Nat
    BY <1>0, <1>7 DEF ProviderCreates, Busy, WorkersTyped, DataTyped
  <2>2. remote'[j] = remote[j] + 1 BY <1>0, <1>7, <2>1 DEF ProviderCreates, DataTyped
  <2>3. worker' = [worker EXCEPT ![w] = n] BY <1>0, <1>7 DEF ProviderCreates, WorkersTyped
  <2>4. /\ n.pc = "awaiting" /\ n.job = j /\ n.got = remote[j] + 1 /\ n.resp = worker[w].resp
    BY <1>0, <1>7 DEF WorkerState, ProviderCreates
  <2> HIDE DEF j, n
  <2>5. Backed(n, remote') BY <1>a, <2>1, <2>2, <2>4 DEF Backed
  <2> QED BY <2>3, <2>5, BackedUpdate
<1>8. CASE GenerateReturns(w)
  <2>1. Busy(w) /\ Goto(w, "save") /\ worker[w].got # 0
    BY <1>8, <1>a DEF GenerateReturns, Busy, Backed
  <2> QED BY <2>1, GotoBacked DEF Labels
<1>9. CASE Finalize(w) \/ MarkFailed(w) BY <1>9, NextJobBacked DEF Finalize, MarkFailed
<1> QED BY <1>1, <1>2, <1>3, <1>4, <1>5, <1>6, <1>7, <1>8, <1>9 DEF WorkerStep

\* Every fault of a goroutine keeps all goroutines backed.
LEMMA WorkerFaultBacked ==
    ASSUME Typed, Typed', ResponsesExist, \A j \in Jobs : remote[j] <= remote'[j],
           NEW w \in Workers, WorkerFault(w)
    PROVE  \A v \in Workers : Backed(worker'[v], remote')
<1>1. CASE SaveResponseFails(w) \/ GenerateFails(w) \/ FinalizeFails(w) \/ FinalizeUnheard(w)
  <2>1. /\ Busy(w)
        /\ \E l \in {"fail", "generate", "reconcile"} : Goto(w, l)
    BY <1>1 DEF SaveResponseFails, GenerateFails, FinalizeFails, FinalizeUnheard, Commit, Busy
  <2> QED BY <2>1, GotoBacked DEF Labels
<1>2. CASE MarkFailedLost(w) BY <1>2, NextJobBacked DEF MarkFailedLost
<1>3. CASE WorkerDies(w)
  <2>1. DataTyped' BY TypedIsParts
  <2>2. Backed(IdleWorker, remote') BY <2>1 DEF Backed, IdleWorker, DataTyped
  <2> QED BY <1>3, <2>2, BackedUpdate DEF WorkerDies
<1> QED BY <1>1, <1>2, <1>3 DEF WorkerFault

\* ResponsesExist is inductive, given Typed.
LEMMA ResponsesExistStep ==
    ASSUME Typed, ResponsesExist, [Next]_vars
    PROVE  ResponsesExist'
<1>0. Typed' /\ DataTyped /\ DataTyped' /\ WorkersTyped BY TypedIsParts, NextTyped
<1>1. \A j \in Jobs : remote[j] <= remote'[j] BY RemoteGrows
<1>2. DataStep BY NextIsDataStep
<1>3. \A v \in Workers : Backed(worker'[v], remote')
  <2>1. CASE UNCHANGED worker
    BY <1>0, <1>1, <2>1, BackedGrows DEF ResponsesExist, DataTyped
  <2>2. ASSUME NEW r \in Requests, RegisterRetry(r) \/ CreateJob(r)
        PROVE  \A v \in Workers : Backed(worker'[v], remote')
    BY <1>0, <2>2, KickBacked DEF RegisterRetry, CreateJob, provider
  <2> QED BY <1>0, <1>1, <2>1, <2>2, WorkerStepBacked, WorkerFaultBacked
          DEF Next, vars, RequestStep, RegisterRead, RegisterRollback, JobStep, LeaseExpires,
              LateCreate, ClaimRegistrationSession, TokenExpires, DeviceToggles
<1>4. ASSUME NEW j \in Jobs PROVE job'[j].resp <= remote'[j]
  <2>0. /\ job[j].resp \in Nat /\ remote[j] \in Nat /\ remote'[j] \in Nat
        /\ job[j].resp <= remote[j] /\ remote[j] <= remote'[j]
    BY <1>0, <1>1 DEF ResponsesExist, DataTyped, JobRow
  <2>1. ASSUME job'[j].resp = job[j].resp PROVE job'[j].resp <= remote'[j]
    BY <2>0, <2>1
  <2>2. CASE UNCHANGED <<job, rows, usedRows, sessions>> BY <2>1, <2>2
  <2>3. ASSUME NEW r \in Requests, RegisterRetry(r) PROVE job'[j].resp <= remote'[j]
    BY <2>1, <2>3, RetryWrites DEF SameFacts
  <2>4. ASSUME NEW r \in Requests, CreateJob(r) PROVE job'[j].resp <= remote'[j]
    <3>1. CASE j = req[r].job
      <4>1. NoRow.resp = 0 BY DEF NoRow
      <4>2. job'[j].resp = 0 BY <2>4, <3>1, <4>1, CreateWrites DEF SameFacts
      <4> QED BY <2>0, <4>2
    <3>2. CASE j # req[r].job
      <4>1. job'[j] = job[j] BY <2>4, <3>2, CreateWrites
      <4> QED BY <2>0, <4>1
    <3> QED BY <3>1, <3>2
  <2>5. ASSUME NEW w \in Workers, ClaimPending(w) PROVE job'[j].resp <= remote'[j]
    BY <2>1, <2>5, ClaimWrites DEF SameFacts
  <2>6. ASSUME NEW w \in Workers, SaveResponse(w) PROVE job'[j].resp <= remote'[j]
    <3>1. worker[w].got <= remote[worker[w].job]
      BY <2>6 DEF ResponsesExist, Backed, SaveResponse
    <3>2. CASE j = worker[w].job
      <4>1. job'[j].resp = worker[w].got /\ worker[w].got \in Nat
        BY <2>6, <3>2, WorkerWrites, RowFields
      <4> QED BY <2>0, <3>1, <3>2, <4>1
    <3> QED BY <2>1, <2>6, <3>2, WorkerWrites
  <2>7. ASSUME NEW w \in Workers, MarkFailed(w) \/ Commit(w) PROVE job'[j].resp <= remote'[j]
    BY <2>1, <2>7, WorkerWrites, RowFields DEF SameFacts
  <2>8. ASSUME NEW k \in Jobs,
               \/ LeaseExpires(k) \/ ClaimRegistrationSession(k) \/ TokenExpires(k)
               \/ DeviceToggles(k)
        PROVE  job'[j].resp <= remote'[j]
    BY <2>1, <2>8, JobWrites, RowFields DEF SameFacts
  <2> QED BY <1>2, <2>2, <2>3, <2>4, <2>5, <2>6, <2>7, <2>8 DEF DataStep
<1> QED BY <1>3, <1>4 DEF ResponsesExist

\* Every response a job or a goroutine holds names a wallet of the provider.
LEMMA ResponsesExistAlways == Spec => []ResponsesExist
<1>1. Init => ResponsesExist
  BY DEF Init, ResponsesExist, Backed, NoRow, IdleWorker
<1>2. Typed /\ ResponsesExist /\ [Next]_vars => ResponsesExist' BY ResponsesExistStep
<1> QED BY <1>1, <1>2, TypedAlways, PTL DEF Spec

-----------------------------------------------------------------------------
(* The finalization transaction *)

\* The facts about one job that finalization writes together.
Whole(j) ==
    /\ j \in users <=> walletRow[j] # 0
    /\ j \in users <=> device[j] # "none"
    /\ j \in users <=> job[j].completedAt
    /\ j \in users /\ BvnOf[j] \in RecordedBvns => bvnOwner[BvnOf[j]] = j
    /\ j \in users => walletRow[j] <= remote[j]
    /\ job[j].status = "completed" => j \in users

\* Commit writes all of them; other steps keep them.
LEMMA WholeStep ==
    ASSUME Typed, Known, ResponsesExist, \A j \in Jobs : Whole(j), [Next]_vars,
           NEW j \in Jobs
    PROVE  Whole(j)'
<1>0. DataTyped /\ DataTyped' /\ WorkersTyped BY TypedIsParts, NextTyped
<1>1. remote[j] \in Nat /\ remote'[j] \in Nat /\ remote[j] <= remote'[j] /\ walletRow[j] \in Nat
  BY <1>0, RemoteGrows DEF DataTyped
<1>2. DataStep BY NextIsDataStep
<1>3. ASSUME UNCHANGED rows, job'[j].completedAt = job[j].completedAt,
             job'[j].status = "completed" => job[j].status = "completed"
      PROVE  Whole(j)'
  BY <1>1, <1>3 DEF Whole, rows
<1>4. CASE UNCHANGED <<job, rows, usedRows, sessions>> BY <1>3, <1>4
<1>5. ASSUME NEW r \in Requests, RegisterRetry(r) PROVE Whole(j)'
  <2>1. UNCHANGED rows BY <1>5 DEF RegisterRetry
  <2> QED BY <1>3, <1>5, <2>1, RetryWrites DEF SameFacts
<1>6. ASSUME NEW r \in Requests, CreateJob(r) PROVE Whole(j)'
  <2>1. UNCHANGED rows /\ job[req[r].job].status = "none" BY <1>6 DEF CreateJob
  <2>2. job[req[r].job] = NoRow BY <1>6, <2>1, CreateWrites DEF Known, Stored
  <2> QED BY <1>3, <1>6, <2>1, <2>2, CreateWrites DEF SameFacts
<1>7. ASSUME NEW w \in Workers, ClaimPending(w) PROVE Whole(j)'
  <2>1. UNCHANGED rows BY <1>7 DEF ClaimPending
  <2>2. job'[j].status = "completed" => job[j].status = "completed"
    BY <1>7, ClaimWrites DEF OpenStatuses
  <2> QED BY <1>3, <1>7, <2>1, <2>2, ClaimWrites DEF SameFacts
<1>8. ASSUME NEW w \in Workers, SaveResponse(w) \/ MarkFailed(w) PROVE Whole(j)'
  <2>1. UNCHANGED rows BY <1>8 DEF SaveResponse, MarkFailed
  <2> QED BY <1>3, <1>8, <2>1, WorkerWrites, RowFields DEF SameFacts
<1>9. ASSUME NEW w \in Workers, Commit(w) PROVE Whole(j)'
  <2> DEFINE i == worker[w].job
  <2>1. /\ i \in Jobs /\ i \notin users /\ users' = users \cup {i}
        /\ walletRow' = [walletRow EXCEPT ![i] = worker[w].resp[i]]
        /\ device' = [device EXCEPT ![i] = "active"]
        /\ bvnOwner' = LinkBvn(i) /\ BvnLinkable(i)
        /\ worker[w].pc = "finalize"
    BY <1>9, WorkerWrites DEF Commit, Insertable
  <2>2. worker[w].resp[i] # 0 /\ worker[w].resp[i] <= remote[i] /\ worker[w].resp[i] \in Nat
    BY <1>0, <2>1 DEF ResponsesExist, Backed, WorkersTyped, WorkerState
  <2>3. CASE j = i
    <3>1. job'[j].completedAt /\ job'[j].status = "completed"
      BY <1>9, <2>3, WorkerWrites, RowFields
    <3>2. j \in users' /\ walletRow'[j] = worker[w].resp[i] /\ device'[j] # "none"
      BY <1>0, <2>1, <2>3 DEF DataTyped
    <3>3. BvnOf[j] \in RecordedBvns => bvnOwner'[BvnOf[j]] = j
      BY <1>0, <2>1, <2>3, JobsAssumption DEF DataTyped, LinkBvn
    <3> QED BY <1>1, <2>2, <2>3, <3>1, <3>2, <3>3 DEF Whole
  <2>4. CASE j # i
    <3>1. job'[j] = job[j] BY <1>9, <2>4, WorkerWrites
    <3>2. (j \in users' <=> j \in users) /\ walletRow'[j] = walletRow[j] /\ device'[j] = device[j]
      BY <1>0, <2>1, <2>4 DEF DataTyped
    <3>3. j \in users /\ BvnOf[j] \in RecordedBvns => bvnOwner'[BvnOf[j]] = j
      <4> SUFFICES ASSUME j \in users, BvnOf[j] \in RecordedBvns
                   PROVE  bvnOwner'[BvnOf[j]] = j
        OBVIOUS
      <4>1. bvnOwner[BvnOf[j]] = j BY DEF Whole
      <4>2. j # NoJob /\ j # i BY <2>4, JobsAssumption
      <4>3. BvnOf[i] # BvnOf[j] BY <2>1, <4>1, <4>2 DEF BvnLinkable
      <4> QED BY <1>0, <2>1, <4>1, <4>3 DEF LinkBvn, DataTyped
    <3> QED BY <1>1, <3>1, <3>2, <3>3 DEF Whole
  <2> QED BY <2>3, <2>4
<1>10. ASSUME NEW k \in Jobs, LeaseExpires(k) \/ ClaimRegistrationSession(k) \/ TokenExpires(k)
       PROVE  Whole(j)'
  <2>1. UNCHANGED rows BY <1>10 DEF LeaseExpires, ClaimRegistrationSession, TokenExpires
  <2> QED BY <1>3, <1>10, <2>1, JobWrites, RowFields DEF SameFacts
<1>11. ASSUME NEW k \in Jobs, DeviceToggles(k) PROVE Whole(j)'
  BY <1>0, <1>1, <1>11 DEF DeviceToggles, Whole, DataTyped
<1> QED BY <1>2, <1>4, <1>5, <1>6, <1>7, <1>8, <1>9, <1>10, <1>11 DEF DataStep

\* The local effects of a registration are whole in every reachable state.
LEMMA WholeAlways == Spec => []\A j \in Jobs : Whole(j)
<1>1. Init => \A j \in Jobs : Whole(j)
  BY DEF Init, Whole, NoRow
<1>2. Typed /\ Known /\ ResponsesExist /\ (\A j \in Jobs : Whole(j)) /\ [Next]_vars
        => (\A j \in Jobs : Whole(j))'
  BY WholeStep
<1> QED BY <1>1, <1>2, TypedAlways, KnownAlways, ResponsesExistAlways, PTL DEF Spec

\* User, wallet row, device, BVN link and completed_at exist together or not at all,
\* however many workers race to finalize the job or fail half-way through it.
THEOREM FinalizationAtomicAlways == Spec => []FinalizationAtomic
<1>1. (\A j \in Jobs : Whole(j)) => FinalizationAtomic BY DEF Whole, FinalizationAtomic
<1> QED BY <1>1, WholeAlways, PTL

\* The wallet row and the stored response name a wallet the provider created.
THEOREM WalletIsRemoteAlways == Spec => []WalletIsRemote
<1>1. Typed /\ ResponsesExist /\ (\A j \in Jobs : Whole(j)) => WalletIsRemote
  BY TypedIsParts DEF DataTyped, Whole, ResponsesExist, WalletIsRemote
<1> QED BY <1>1, TypedAlways, ResponsesExistAlways, WholeAlways, PTL

\* Two jobs of one person never both become users: phone and device by the unique
\* keys at insertion, a recorded BVN by its owner.
THEOREM OneUserPerPersonAlways == Spec => []OneUserPerPerson
<1>1. Init => OneUserPerPerson BY DEF Init, OneUserPerPerson
<1>2. Typed /\ (\A j \in Jobs : Whole(j)) /\ (\A j \in Jobs : Whole(j))' /\ OneUserPerPerson
        /\ [Next]_vars => OneUserPerPerson'
  <2> SUFFICES ASSUME Typed, \A j \in Jobs : Whole(j), (\A j \in Jobs : Whole(j))',
                      OneUserPerPerson, [Next]_vars
               PROVE  OneUserPerPerson'
    OBVIOUS
  <2>0. DataTyped /\ DataTyped' BY TypedIsParts, NextTyped
  <2>1. CASE UNCHANGED users BY <2>1 DEF OneUserPerPerson
  <2>2. CASE \E w \in Workers : Commit(w)
    <3>1. PICK w \in Workers : Commit(w) BY <2>2
    <3> DEFINE i == worker[w].job
    <3>2. i \in Jobs BY <3>1, WorkerWrites
    <3>3. users' = users \cup {i} /\ PhoneUnused(i) /\ \A k \in users : DeviceOf[k] # DeviceOf[i]
      BY <3>1 DEF Commit, Insertable
    <3>4. ASSUME NEW j \in users', NEW k \in users', j # k
          PROVE  PhoneOf[j] # PhoneOf[k] /\ DeviceOf[j] # DeviceOf[k]
      BY <3>3, <3>4 DEF OneUserPerPerson, PhoneUnused
    <3>5. ASSUME NEW j \in users', NEW k \in users', j # k, BvnOf[j] \in RecordedBvns
          PROVE  BvnOf[j] # BvnOf[k]
      <4>1. j \in Jobs /\ k \in Jobs BY <2>0 DEF DataTyped
      <4>2. bvnOwner'[BvnOf[j]] = j BY <3>5, <4>1 DEF Whole
      <4>3. BvnOf[k] = BvnOf[j] => bvnOwner'[BvnOf[j]] = k BY <3>5, <4>1 DEF Whole
      <4> QED BY <3>5, <4>2, <4>3
    <3> QED BY <3>4, <3>5 DEF OneUserPerPerson
  <2>3. UNCHANGED users \/ \E w \in Workers : Commit(w)
    BY NextIsDataStep DEF DataStep, rows, RegisterRetry, CreateJob, ClaimPending, SaveResponse,
       MarkFailed, LeaseExpires, ClaimRegistrationSession, TokenExpires, DeviceToggles
  <2> QED BY <2>1, <2>2, <2>3
<1> QED BY <1>1, <1>2, TypedAlways, WholeAlways, PTL DEF Spec

\* A job pays out at most one session, and only to an existing user: claimed is set in
\* the transaction that checks it and no later write of the row clears it.
THEOREM SessionClaimedOnceAlways == Spec => []SessionClaimedOnce
<1>1. Init => SessionClaimedOnce BY DEF Init, SessionClaimedOnce, NoRow
<1>2. Typed /\ Known /\ (\A j \in Jobs : Whole(j)) /\ SessionClaimedOnce /\ [Next]_vars
        => SessionClaimedOnce'
  <2> SUFFICES ASSUME Typed, Known, \A j \in Jobs : Whole(j), SessionClaimedOnce, [Next]_vars,
                      NEW j \in Jobs
               PROVE  /\ sessions'[j] <= 1
                      /\ sessions'[j] = 1 <=> job'[j].claimed
                      /\ sessions'[j] = 1 => j \in users'
    BY DEF SessionClaimedOnce
  <2>0. DataTyped /\ job[j].claimed \in BOOLEAN BY TypedIsParts DEF DataTyped, JobRow
  <2>1. DataStep BY NextIsDataStep
  <2>2. users \subseteq users'
    BY <2>1 DEF DataStep, rows, RegisterRetry, CreateJob, ClaimPending, SaveResponse, Commit,
       MarkFailed, LeaseExpires, ClaimRegistrationSession, TokenExpires, DeviceToggles
  <2>3. CASE sessions' = sessions /\ job'[j].claimed = job[j].claimed
    BY <2>2, <2>3 DEF SessionClaimedOnce
  <2>4. ASSUME NEW k \in Jobs, ClaimRegistrationSession(k)
        PROVE  \/ sessions'[j] = sessions[j] /\ job'[j].claimed = job[j].claimed
               \/ sessions'[j] = 1 /\ job'[j].claimed /\ j \in users'
    <3>1. CASE j # k BY <2>0, <2>4, <3>1, JobWrites DEF ClaimRegistrationSession, DataTyped
    <3>2. CASE j = k
      <4>1. job'[j].claimed BY <2>4, <3>2, JobWrites, RowFields
      <4>2. ~job[j].claimed /\ job[j].status = "completed"
        BY <2>4, <3>2 DEF ClaimRegistrationSession, CanClaim
      <4>3. sessions[j] \in Nat /\ sessions[j] <= 1 /\ sessions[j] # 1
        BY <2>0, <4>2 DEF SessionClaimedOnce, DataTyped
      <4>4. sessions'[j] = 1 BY <2>0, <2>4, <3>2, <4>3 DEF ClaimRegistrationSession, DataTyped
      <4> QED BY <2>2, <4>1, <4>2, <4>4 DEF Whole
    <3> QED BY <3>1, <3>2
  <2>5. CASE ~\E k \in Jobs : ClaimRegistrationSession(k)
    <3>1. sessions' = sessions
      BY <2>1, <2>5 DEF DataStep, RegisterRetry, CreateJob, ClaimPending, SaveResponse, MarkFailed,
                        LeaseExpires, TokenExpires, DeviceToggles
    <3>2. CASE UNCHANGED <<job, rows, usedRows, sessions>> BY <2>3, <3>2
    <3>3. ASSUME NEW r \in Requests, RegisterRetry(r) PROVE job'[j].claimed = job[j].claimed
      BY <3>3, RetryWrites
    <3>4. ASSUME NEW r \in Requests, CreateJob(r) PROVE job'[j].claimed = job[j].claimed
      <4>1. job[req[r].job] = NoRow /\ NoRow.claimed = FALSE
        BY <3>4, CreateWrites DEF CreateJob, Known, Stored, NoRow
      <4> QED BY <3>4, <4>1, CreateWrites
    <3>5. ASSUME NEW w \in Workers, ClaimPending(w) PROVE job'[j].claimed = job[j].claimed
      BY <3>5, ClaimWrites DEF SameClaim
    <3>6. ASSUME NEW w \in Workers, SaveResponse(w) \/ MarkFailed(w) \/ Commit(w)
          PROVE  job'[j].claimed = job[j].claimed
      BY <3>6, WorkerWrites, RowFields DEF SameClaim
    <3>7. ASSUME NEW k \in Jobs, LeaseExpires(k) \/ TokenExpires(k) \/ DeviceToggles(k)
          PROVE  job'[j].claimed = job[j].claimed
      BY <3>7, JobWrites, RowFields DEF SameClaim
    <3> QED BY <2>1, <2>3, <2>5, <3>1, <3>2, <3>3, <3>4, <3>5, <3>6, <3>7 DEF DataStep
  <2>6. CASE \E k \in Jobs : ClaimRegistrationSession(k)
    BY <2>3, <2>4, <2>6, <2>2 DEF SessionClaimedOnce
  <2> QED BY <2>5, <2>6
<1> QED BY <1>1, <1>2, TypedAlways, KnownAlways, WholeAlways, PTL DEF Spec

-----------------------------------------------------------------------------
(* One worker per job, and the promise to the clients *)

\* Both hold as long as the calls for one payload do not overlap (a client that
\* waits for an answer before it retries) and a worker hears of its own commit.
RetriesInTurn ==
    \A r, q \in Requests :
        r # q /\ req[r].pc # "idle" /\ req[q].pc # "idle" => req[r].job # req[q].job

\* What makes OneWorkerPerJob inductive: a goroutine without a job holds none, a
\* job is not both in hand and waiting, and a call that read 'failed' is right.
Exclusive ==
    /\ OneWorkerPerJob
    /\ \A w \in Workers : ~Busy(w) => worker[w].job = NoJob /\ worker[w].rest = {}
    /\ \A w \in Workers : worker[w].job \notin worker[w].rest
    /\ \A r \in Requests :
         req[r].pc = "found" /\ NeedsRequeue(req[r].status) => job[req[r].job].status = "failed"

\* A lease that is held: in processing and renewed.
Leased(j) == job[j].status = "processing" /\ ~job[j].stale

\* A goroutine that claims nothing new holds no job that it did not hold.
LEMMA HoldsNoMore ==
    ASSUME Typed, [Next]_vars, NEW v \in Workers, ~ClaimPending(v), NEW j \in Jobs, Holds(v, j)'
    PROVE  Holds(v, j)
<1>1. KeepsJobs(v) \/ Ends(v) \/ TakesNext(v) BY WorkerMoves
<1>2. CASE KeepsJobs(v) BY <1>2 DEF KeepsJobs, Holds
<1>3. CASE Ends(v) BY <1>3, JobsAssumption DEF Ends, Holds, IdleWorker
<1>4. CASE TakesNext(v) BY <1>4 DEF TakesNext, Holds
<1> QED BY <1>1, <1>2, <1>3, <1>4

\* Only Finalize and MarkFailed end a job while a goroutine holds it, and both
\* let it go.
LEMMA LetsGo ==
    ASSUME Typed, Exclusive, NEW w \in Workers, NextJob(w), Busy(w),
           NEW j \in Jobs, worker[w].job = j
    PROVE  ~Holds(w, j)'
<1>1. WorkersTyped /\ worker[w] \in WorkerState /\ worker[w].job \in Jobs
  BY TypedIsParts DEF WorkersTyped
<1>2. worker[w].job \notin worker[w].rest BY DEF Exclusive
<1>3. CASE worker[w].rest = {}
  <2>1. worker'[w] = IdleWorker BY <1>1, <1>3 DEF NextJob, WorkersTyped
  <2> QED BY <1>1, <2>1, JobsAssumption DEF IdleWorker, Holds
<1>4. CASE worker[w].rest # {}
  <2>1. PICK k \in worker[w].rest :
            worker' = [worker EXCEPT ![w] =
                [worker[w] EXCEPT !.pc = "resolve", !.job = k, !.rest = @ \ {k},
                                  !.got = 0, !.done = FALSE]]
    BY <1>4 DEF NextJob
  <2>2. worker'[w] = [worker[w] EXCEPT !.pc = "resolve", !.job = k, !.rest = @ \ {k},
                                       !.got = 0, !.done = FALSE]
    BY <1>1, <2>1 DEF WorkersTyped
  <2>3. worker'[w].job = k /\ worker'[w].rest = worker[w].rest \ {k}
    BY <1>1, <2>2 DEF WorkerState
  <2> QED BY <1>1, <1>2, <2>3 DEF Holds
<1> QED BY <1>3, <1>4

\* DataStep when every commit is heard of.
HeardStep ==
    \/ UNCHANGED <<job, rows, usedRows, sessions>>
    \/ \E r \in Requests : RegisterRetry(r) \/ CreateJob(r)
    \/ \E w \in Workers : ClaimPending(w) \/ SaveResponse(w) \/ MarkFailed(w) \/ Finalize(w)
    \/ \E j \in Jobs :
         \/ LeaseExpires(j) \/ ClaimRegistrationSession(j) \/ TokenExpires(j)
         \/ DeviceToggles(j)

LEMMA NextIsHeardStep == ASSUME CommitAcks, [Next]_vars PROVE HeardStep
<1>1. ASSUME NEW w \in Workers, WorkerStep(w) PROVE HeardStep
  BY <1>1 DEF WorkerStep, HeardStep, ClaimNothing, Resolve, LookupBeforeGenerate,
              LookupAfterError, Lookup, GenerateWallet, ProviderCreates, GenerateReturns
<1>2. ASSUME NEW w \in Workers, WorkerFault(w) PROVE HeardStep
  BY <1>2 DEF WorkerFault, HeardStep, SaveResponseFails, GenerateFails, FinalizeFails,
              FinalizeUnheard, MarkFailedLost, WorkerDies
<1>3. ASSUME NEW r \in Requests, RequestStep(r) PROVE HeardStep
  BY <1>3 DEF RequestStep, HeardStep, RegisterRead, RegisterRollback
<1>4. ASSUME NEW j \in Jobs, JobStep(j) PROVE HeardStep
  BY <1>4 DEF JobStep, HeardStep, LateCreate
<1>5. CASE UNCHANGED vars BY <1>5 DEF HeardStep, vars, rows
<1> QED BY <1>1, <1>2, <1>3, <1>4, <1>5 DEF Next

\* A retry renews the lease of a job or leaves it as it is.
LEMMA RetryKeepsLease ==
    ASSUME Typed, NEW r \in Requests, RegisterRetry(r), ~job[req[r].job].stale
    PROVE  ~job'[req[r].job].stale
<1> DEFINE j == req[r].job
           row == IF NeedsRequeue(req[r].status) THEN Requeue(job[j]) ELSE job[j]
<1>0. DataTyped /\ RequestsTyped BY TypedIsParts
<1>1. j \in Jobs BY <1>0 DEF RegisterRetry, RequestsTyped
<1>2. job[j] \in JobRow /\ issued \in Nat BY <1>0, <1>1 DEF DataTyped
<1>3. \A n \in JobRow : ~Requeue(n).stale /\ ~SetClaimToken(n).stale
  BY DEF JobRow, Requeue, SetClaimToken
<1>4. row \in JobRow /\ ~row.stale BY <1>2, <1>3, RowUpdates
<1>5. job' = [job EXCEPT ![j] = IF ~req[r].claimed THEN SetClaimToken(row) ELSE row]
  BY DEF RegisterRetry
<1> HIDE DEF row
<1> QED BY <1>0, <1>1, <1>3, <1>4, <1>5 DEF DataTyped

\* A job that stays in somebody's hands keeps its lease.
LEMMA LeaseKept ==
    ASSUME CommitAcks, Typed, Exclusive, [Next]_vars, \A v \in Workers : ~ClaimPending(v),
           NEW u \in Workers, NEW j \in Jobs, Holds(u, j)'
    PROVE  Leased(j)'
<1>0. DataTyped /\ WorkersTyped BY TypedIsParts
<1>1. /\ Holds(u, j) /\ Leased(j) /\ job[j] \in JobRow
      /\ \A v \in Workers : Holds(v, j) => v = u
  BY <1>0, HoldsNoMore DEF Exclusive, OneWorkerPerJob, Leased, DataTyped
<1>2. CASE UNCHANGED <<job, rows, usedRows, sessions>> BY <1>1, <1>2 DEF Leased
<1>3. ASSUME NEW r \in Requests, RegisterRetry(r) PROVE Leased(j)'
  <2>1. CASE j # req[r].job BY <1>1, <1>3, <2>1, RetryWrites DEF Leased
  <2>2. CASE j = req[r].job
    <3>1. ~NeedsRequeue(req[r].status)
      BY <1>1, <1>3, <2>2 DEF Exclusive, RegisterRetry, Leased
    <3> QED BY <1>1, <1>3, <2>2, <3>1, RetryWrites, RetryKeepsLease DEF Leased
  <2> QED BY <2>1, <2>2
<1>4. ASSUME NEW r \in Requests, CreateJob(r) PROVE Leased(j)'
  BY <1>1, <1>4, CreateWrites DEF CreateJob, Leased
<1>5. ASSUME NEW w \in Workers, SaveResponse(w) PROVE Leased(j)'
  <2>1. \A g \in Nat : ~Saved(job[j], g).stale BY <1>1 DEF Saved, JobRow
  <2> QED BY <1>1, <1>5, <2>1, WorkerWrites, RowFields DEF Leased
<1>6. ASSUME NEW w \in Workers, MarkFailed(w) \/ Finalize(w) PROVE Leased(j)'
  <2>1. NextJob(w) /\ Busy(w) /\ (MarkFailed(w) \/ Commit(w))
    BY <1>6 DEF MarkFailed, Finalize, Commit, Busy
  <2>2. j # worker[w].job
    <3> SUFFICES ASSUME j = worker[w].job PROVE FALSE OBVIOUS
    <3>1. w = u BY <1>1 DEF Holds
    <3>2. ~Holds(w, j)' BY <2>1, LetsGo
    <3> QED BY <3>1, <3>2
  <2> QED BY <1>1, <2>1, <2>2, WorkerWrites DEF Leased
<1>7. ASSUME NEW k \in Jobs,
             \/ LeaseExpires(k) \/ ClaimRegistrationSession(k) \/ TokenExpires(k)
             \/ DeviceToggles(k)
      PROVE  Leased(j)'
  <2>1. CASE j # k BY <1>1, <1>7, <2>1, JobWrites DEF Leased
  <2>2. CASE j = k
    <3>1. ~LeaseExpires(k) BY <1>1, <2>2 DEF LeaseExpires
    <3>2. ~MarkClaimed(job[j]).stale /\ Expired(job[j]).stale = job[j].stale
      BY <1>1 DEF MarkClaimed, Expired, JobRow
    <3> QED BY <1>1, <1>7, <2>2, <3>1, <3>2, JobWrites, RowFields DEF Leased
  <2> QED BY <2>1, <2>2
<1>8. HeardStep BY NextIsHeardStep
<1> QED BY <1>2, <1>3, <1>4, <1>5, <1>6, <1>7, <1>8 DEF HeardStep

\* The batch that a goroutine claims was nobody's and is now its own.
LEMMA ClaimExclusive ==
    ASSUME Typed, Exclusive, NEW w \in Workers, ClaimPending(w)
    PROVE  /\ OneWorkerPerJob'
           /\ \A v \in Workers : ~Busy(v)' => worker'[v].job = NoJob /\ worker'[v].rest = {}
           /\ \A v \in Workers : worker'[v].job \notin worker'[v].rest
<1>0. DataTyped /\ WorkersTyped BY TypedIsParts
<1>1. PICK batch \in SUBSET {j \in Jobs : job[j].status = "pending" \/ Stale(j)},
           first \in Jobs :
        /\ first \in batch
        /\ job' = [j \in Jobs |->
             IF j \in batch
             THEN [job[j] EXCEPT !.status = "processing", !.stale = FALSE,
                                 !.attempts = IF @ = 2 THEN 2 ELSE @ + 1]
             ELSE IF Stale(j) THEN [job[j] EXCEPT !.status = "pending", !.stale = FALSE]
             ELSE job[j]]
        /\ worker' = [worker EXCEPT ![w] =
             [pc |-> "resolve", job |-> first, rest |-> batch \ {first},
              resp |-> [j \in Jobs |-> job[j].resp],
              again |-> {j \in batch : job[j].attempts >= 1},
              got |-> 0, done |-> FALSE]]
  BY DEF ClaimPending
<1>2. /\ worker'[w].pc = "resolve" /\ worker'[w].job = first
      /\ worker'[w].rest = batch \ {first}
      /\ \A v \in Workers \ {w} : worker'[v] = worker[v]
  BY <1>0, <1>1 DEF WorkersTyped
<1>3. ~Busy(w) BY DEF ClaimPending, Busy
<1>4. \A j \in Jobs : ~Holds(w, j)
  BY <1>3, JobsAssumption DEF Exclusive, Holds
<1>5. \A j \in Jobs : Holds(w, j)' <=> j \in batch BY <1>1, <1>2 DEF Holds
<1>6. ASSUME NEW j \in batch
      PROVE  Leased(j)' /\ \A v \in Workers \ {w} : ~Holds(v, j)'
  <2>1. j \in Jobs /\ ~Leased(j) /\ job[j] \in JobRow BY <1>0 DEF Leased, Stale, DataTyped
  <2>2. \A v \in Workers : ~Holds(v, j) BY <2>1 DEF Exclusive, OneWorkerPerJob, Leased
  <2>3. Leased(j)' BY <1>1, <2>1 DEF Leased, JobRow
  <2> QED BY <1>2, <2>2, <2>3 DEF Holds
<1>7. ASSUME NEW v \in Workers \ {w}, NEW j \in Jobs, Holds(v, j)'
      PROVE  Leased(j)' /\ \A u \in Workers \ {v} : ~Holds(u, j)'
  <2>1. Holds(v, j) BY <1>2, <1>7 DEF Holds
  <2>2. Leased(j) /\ \A u \in Workers \ {v} : ~Holds(u, j)
    BY <2>1 DEF Exclusive, OneWorkerPerJob, Leased
  <2>3. j \notin batch BY <1>6, <1>7
  <2>4. job'[j] = job[j] BY <1>1, <2>2, <2>3 DEF Leased, Stale
  <2> QED BY <1>2, <1>5, <2>2, <2>3, <2>4 DEF Holds, Leased
<1>8. OneWorkerPerJob'
  <2> SUFFICES ASSUME NEW v \in Workers, NEW j \in Jobs, Holds(v, j)'
               PROVE  Leased(j)' /\ \A u \in Workers \ {v} : ~Holds(u, j)'
    BY DEF OneWorkerPerJob, Leased
  <2> QED BY <1>5, <1>6, <1>7
<1>9. \A v \in Workers : ~Busy(v)' => worker'[v].job = NoJob /\ worker'[v].rest = {}
  BY <1>2 DEF Exclusive, Busy
<1>10. \A v \in Workers : worker'[v].job \notin worker'[v].rest
  BY <1>2 DEF Exclusive
<1> QED BY <1>8, <1>9, <1>10

\* A call that has read its job read it in a step of its own; the others keep it.
LEMMA RequestMoves ==
    ASSUME Typed, [Next]_vars, NEW r \in Requests, req'[r].pc = "found"
    PROVE  \/ /\ req'[r] = req[r]
              /\ ~RegisterRetry(r) /\ ~CreateJob(r)
           \/ UNCHANGED job /\ req'[r].status = job[req'[r].job].status
<1>0. RequestsTyped BY TypedIsParts
<1>1. ~RegisterRetry(r) /\ ~CreateJob(r)
  <2>1. req' # [req EXCEPT ![r] = IdleRequest] BY <1>0 DEF RequestsTyped, IdleRequest
  <2> QED BY <2>1 DEF RegisterRetry, CreateJob
<1>2. ASSUME NEW q \in Requests, RequestStep(q), req'[r] # req[r]
      PROVE  UNCHANGED job /\ req'[r].status = job[req'[r].job].status
  <2>1. q = r
    BY <1>0, <1>2 DEF RequestsTyped, RequestStep, RegisterRead, RegisterRetry, CreateJob,
                      RegisterRollback
  <2>2. ~RegisterRollback(r) BY <1>0 DEF RegisterRollback, RequestsTyped, IdleRequest
  <2>3. PICK j \in Jobs : RegisterRead(r, j) BY <1>1, <1>2, <2>1, <2>2 DEF RequestStep
  <2>4. CASE Stored(j)
    <3>1. req'[r] = [pc |-> "found", job |-> j, status |-> job[j].status,
                     claimed |-> job[j].claimed]
      BY <1>0, <2>3, <2>4 DEF RegisterRead, RequestsTyped, Stored
    <3> QED BY <2>3, <3>1 DEF RegisterRead
  <2>5. CASE ~Stored(j)
    <3>1. req'[r] = [IdleRequest EXCEPT !.pc = "create", !.job = j]
      BY <1>0, <2>3, <2>5 DEF RegisterRead, RequestsTyped, Stored
    <3>2. req'[r].pc = "create" BY <3>1 DEF IdleRequest
    <3> QED BY <3>2
  <2> QED BY <2>4, <2>5
<1>3. UNCHANGED req \/ \E q \in Requests : RequestStep(q)
  BY DEF Next, vars, WorkerStep, WorkerFault, JobStep, ClaimPending, ClaimNothing, Resolve,
         LookupBeforeGenerate, LookupAfterError, Lookup, SaveResponse, GenerateWallet,
         ProviderCreates, GenerateReturns, Finalize, MarkFailed, SaveResponseFails,
         GenerateFails, FinalizeFails, FinalizeUnheard, MarkFailedLost, WorkerDies,
         LeaseExpires, LateCreate, ClaimRegistrationSession, TokenExpires, DeviceToggles
<1> QED BY <1>1, <1>2, <1>3

\* A failed job stays failed until a call for it reopens it.
LEMMA FailedStays ==
    ASSUME CommitAcks, Typed, Exclusive, [Next]_vars, NEW j \in Jobs, job[j].status = "failed",
           \A r \in Requests : req[r].job = j => ~RegisterRetry(r)
    PROVE  job'[j].status = "failed"
<1>1. CASE UNCHANGED <<job, rows, usedRows, sessions>> BY <1>1
<1>2. ASSUME NEW r \in Requests, RegisterRetry(r) PROVE job'[j].status = "failed"
  BY <1>2, RetryWrites
<1>3. ASSUME NEW r \in Requests, CreateJob(r) PROVE job'[j].status = "failed"
  BY <1>3, CreateWrites DEF CreateJob
<1>4. ASSUME NEW w \in Workers, ClaimPending(w) PROVE job'[j].status = "failed"
  BY <1>4, ClaimWrites DEF Open, OpenStatuses
<1>5. ASSUME NEW w \in Workers, SaveResponse(w) \/ MarkFailed(w) \/ Finalize(w)
      PROVE  job'[j].status = "failed"
  <2>1. SaveResponse(w) \/ MarkFailed(w) \/ Commit(w) BY <1>5 DEF Finalize
  <2>2. j # worker[w].job BY DEF Exclusive, OneWorkerPerJob, Holds
  <2> QED BY <2>1, <2>2, WorkerWrites
<1>6. ASSUME NEW k \in Jobs,
             \/ LeaseExpires(k) \/ ClaimRegistrationSession(k) \/ TokenExpires(k)
             \/ DeviceToggles(k)
      PROVE  job'[j].status = "failed"
  BY <1>6, JobWrites, RowFields
<1>7. HeardStep BY NextIsHeardStep
<1> QED BY <1>1, <1>2, <1>3, <1>4, <1>5, <1>6, <1>7 DEF HeardStep

\* The lease, the row locks and the reads of Register keep it, as long as nobody
\* reopens a job behind the back of a call that has read it.
LEMMA ExclusiveStep ==
    ASSUME CommitAcks, Typed, Exclusive, RetriesInTurn, [Next]_vars
    PROVE  Exclusive'
<1>0. WorkersTyped /\ RequestsTyped BY TypedIsParts
<1>1. ASSUME NEW r \in Requests, req'[r].pc = "found", NeedsRequeue(req'[r].status)
      PROVE  job'[req'[r].job].status = "failed"
  <2>1. CASE UNCHANGED job /\ req'[r].status = job[req'[r].job].status
    BY <1>1, <2>1 DEF NeedsRequeue
  <2>2. CASE req'[r] = req[r] /\ ~RegisterRetry(r)
    <3>1. /\ req[r].pc = "found" /\ req[r].job \in Jobs /\ job[req[r].job].status = "failed"
      BY <1>0, <1>1, <2>2 DEF Exclusive, RequestsTyped
    <3>2. \A q \in Requests : req[q].job = req[r].job => ~RegisterRetry(q)
      BY <2>2, <3>1 DEF RetriesInTurn, RegisterRetry
    <3> QED BY <2>2, <3>1, <3>2, FailedStays
  <2> QED BY <1>1, <2>1, <2>2, RequestMoves
<1>2. CASE \E w \in Workers : ClaimPending(w)
  BY <1>1, <1>2, ClaimExclusive DEF Exclusive
<1>3. CASE \A w \in Workers : ~ClaimPending(w)
  <2>1. OneWorkerPerJob'
    <3> SUFFICES ASSUME NEW v \in Workers, NEW j \in Jobs, Holds(v, j)'
                 PROVE  Leased(j)' /\ \A u \in Workers \ {v} : ~Holds(u, j)'
      BY DEF OneWorkerPerJob, Leased
    <3>1. Holds(v, j) BY <1>3, HoldsNoMore
    <3>2. \A u \in Workers \ {v} : ~Holds(u, j) BY <3>1 DEF Exclusive, OneWorkerPerJob
    <3> QED BY <1>3, <3>2, HoldsNoMore, LeaseKept
  <2>2. ASSUME NEW v \in Workers
        PROVE  /\ ~Busy(v)' => worker'[v].job = NoJob /\ worker'[v].rest = {}
               /\ worker'[v].job \notin worker'[v].rest
    <3>1. CASE Ends(v) BY <3>1 DEF Ends, IdleWorker
    <3>2. CASE TakesNext(v) BY <3>2 DEF TakesNext
    <3>3. CASE KeepsJobs(v) BY <3>3 DEF KeepsJobs, Exclusive
    <3> QED BY <1>3, <3>1, <3>2, <3>3, WorkerMoves
  <2> QED BY <1>1, <2>1, <2>2 DEF Exclusive
<1> QED BY <1>2, <1>3

LEMMA ExclusiveAlways == ASSUME CommitAcks PROVE Spec /\ []RetriesInTurn => []Exclusive
<1>1. Init => Exclusive
  BY JobsAssumption
     DEF Init, Exclusive, OneWorkerPerJob, Holds, Busy, IdleWorker, IdleRequest, NeedsRequeue
<1>2. Typed /\ Exclusive /\ RetriesInTurn /\ [Next]_vars => Exclusive' BY ExclusiveStep
<1> QED BY <1>1, <1>2, TypedAlways, PTL DEF Spec

\* "only one worker processes a given job at a time": a goroutine works on a job
\* only while its row is leased to it alone.  The worker never checks its lease
\* again; it is enough that no retry overlaps another and that commits are heard of.
THEOREM OneWorkerPerJobAlways ==
    ASSUME CommitAcks PROVE Spec /\ []RetriesInTurn => []OneWorkerPerJob
<1>1. Exclusive => OneWorkerPerJob BY DEF Exclusive
<1> QED BY <1>1, ExclusiveAlways, PTL

-----------------------------------------------------------------------------
(* The saga as its clients see it *)

Phase(j) == PhaseOf(job[j])

\* The rows of which the client sees nothing new.
SameToClients(j) == Phase(j)' = Phase(j) /\ job'[j].claimed = job[j].claimed

\* Then the promise stutters.
LEMMA NothingShows ==
    ASSUME \A j \in Jobs : SameToClients(j)
    PROVE  UNCHANGED Saga!sagaVars
BY DEF SameToClients, Phase, Saga!sagaVars

\* One registration changes its phase and no session is handed out.
LEMMA OnePhaseShows ==
    ASSUME NEW j \in Jobs, NEW p, \A k \in Jobs \ {j} : SameToClients(k),
           Phase(j)' = p, job'[j].claimed = job[j].claimed
    PROVE  /\ [k \in Jobs |-> PhaseOf(job[k])]' = [[k \in Jobs |-> PhaseOf(job[k])] EXCEPT ![j] = p]
           /\ UNCHANGED {k \in Jobs : job[k].claimed}
BY DEF SameToClients, Phase

\* A first request and the retry of a failed registration.
LEMMA Reopens ==
    ASSUME Typed, NEW j \in Jobs, PhoneFree(j), job[j].status \in {"none", "failed"},
           job'[j].status = "pending", job'[j].claimed = job[j].claimed,
           \A k \in Jobs \ {j} : job'[k] = job[k]
    PROVE  Saga!Open(j)
<1>1. \A k \in Jobs \ {j} : SameToClients(k) BY DEF SameToClients, Phase
<1>2. Phase(j)' = "open" BY DEF Phase, PhaseOf, OpenStatuses
<1>3. Phase(j) \in {"none", "failed"} BY DEF Phase, PhaseOf, OpenStatuses
<1>4. Saga!NoRival(j)
  <2> SUFFICES ASSUME NEW k \in SamePhone(j) PROVE Phase(k) # "open"
    BY DEF Saga!NoRival, Phase, SamePhone
  <2>1. k \in Jobs \ {j} /\ PhoneOf[k] = PhoneOf[j] BY DEF SamePhone
  <2>2. job[k].status \notin OpenStatuses /\ job[k].status \in Statuses
    BY <2>1, TypedIsParts DEF PhoneFree, DataTyped, JobRow
  <2> QED BY <2>2 DEF Phase, PhaseOf, Statuses
<1> QED BY <1>1, <1>2, <1>3, <1>4, OnePhaseShows DEF Saga!Open, Phase

\* The commit of the finalization: no kin of the job is done, by the unique phone
\* of the users and by the owner of a recorded BVN.
LEMMA Finishes ==
    ASSUME Typed, Exclusive, \A j \in Jobs : Whole(j), NEW w \in Workers, Commit(w)
    PROVE  Saga!Finish(worker[w].job)
<1> PICK j : j = worker[w].job OBVIOUS
<1>0. DataTyped BY TypedIsParts
<1>1. /\ j \in Jobs /\ job[j] \in JobRow /\ \A k \in Jobs \ {j} : job'[k] = job[k]
      /\ job'[j].status = "completed" /\ job'[j].claimed = job[j].claimed
  BY WorkerWrites, RowFields DEF SameClaim
<1>2. PhoneUnused(j) /\ BvnLinkable(j) BY DEF Commit, Insertable
<1>3. job[j].status = "processing"
  BY <1>1 DEF Exclusive, OneWorkerPerJob, Holds
<1>4. \A k \in Jobs \ {j} : SameToClients(k) BY <1>1 DEF SameToClients, Phase
<1>5. Phase(j)' = "done" /\ Phase(j) = "open" BY <1>1, <1>3 DEF Phase, PhaseOf, OpenStatuses
<1>6. ASSUME NEW k \in SamePhone(j) \cup SameBvn(j) PROVE k \in Jobs /\ Phase(k) # "done"
  <2>1. k \in Jobs /\ k # j BY DEF SamePhone, SameBvn
  <2>2. k \notin users
    <3>1. CASE k \in SamePhone(j) BY <1>2, <3>1 DEF SamePhone, PhoneUnused
    <3>2. CASE k \in SameBvn(j)
      <4>1. BvnOf[k] = BvnOf[j] /\ BvnOf[j] \in RecordedBvns /\ k # NoJob
        BY <2>1, <3>2, JobsAssumption DEF SameBvn
      <4>2. bvnOwner[BvnOf[k]] # k BY <1>2, <2>1, <4>1 DEF BvnLinkable
      <4> QED BY <2>1, <4>1, <4>2 DEF Whole
    <3> QED BY <3>1, <3>2
  <2>3. job[k].status # "completed" /\ job[k].status \in Statuses
    BY <1>0, <2>1, <2>2 DEF Whole, DataTyped, JobRow
  <2> QED BY <2>1, <2>3 DEF Phase, PhaseOf, Statuses
<1>7. \A k \in [i \in Jobs |-> SamePhone(i) \cup SameBvn(i)][j] :
         [i \in Jobs |-> PhaseOf(job[i])][k] # "done"
  BY <1>1, <1>6 DEF Phase
<1>8. [i \in Jobs |-> PhaseOf(job[i])][j] = "open" BY <1>1, <1>5 DEF Phase
<1>9. /\ [k \in Jobs |-> PhaseOf(job[k])]'
           = [[k \in Jobs |-> PhaseOf(job[k])] EXCEPT ![j] = "done"]
      /\ UNCHANGED {k \in Jobs : job[k].claimed}
  BY <1>1, <1>4, <1>5, OnePhaseShows
<1> QED BY <1>7, <1>8, <1>9 DEF Saga!Finish

\* A goroutine that gives up fails a registration that is open.
LEMMA Fails ==
    ASSUME Typed, Exclusive, NEW w \in Workers, MarkFailed(w)
    PROVE  Saga!Fail(worker[w].job)
<1> PICK j : j = worker[w].job OBVIOUS
<1>1. /\ j \in Jobs /\ \A k \in Jobs \ {j} : job'[k] = job[k]
      /\ job'[j].status = "failed" /\ job'[j].claimed = job[j].claimed
  BY WorkerWrites, RowFields DEF SameClaim
<1>2. job[j].status = "processing"
  BY <1>1 DEF Exclusive, OneWorkerPerJob, Holds
<1>3. \A k \in Jobs \ {j} : SameToClients(k) BY <1>1 DEF SameToClients, Phase
<1>4. Phase(j)' = "failed" /\ Phase(j) = "open" BY <1>1, <1>2 DEF Phase, PhaseOf, OpenStatuses
<1>5. [i \in Jobs |-> PhaseOf(job[i])][j] = "open" BY <1>1, <1>4 DEF Phase
<1>6. /\ [k \in Jobs |-> PhaseOf(job[k])]'
           = [[k \in Jobs |-> PhaseOf(job[k])] EXCEPT ![j] = "failed"]
      /\ UNCHANGED {k \in Jobs : job[k].claimed}
  BY <1>1, <1>3, <1>4, OnePhaseShows
<1> QED BY <1>5, <1>6 DEF Saga!Fail

\* The claim endpoint hands out the session of a registration that is done.
LEMMA Claims ==
    ASSUME Typed, NEW j \in Jobs, ClaimRegistrationSession(j)
    PROVE  Saga!Claim(j)
<1>1. /\ \A k \in Jobs \ {j} : job'[k] = job[k]
      /\ job'[j].status = job[j].status /\ job'[j].claimed
  BY JobWrites, RowFields
<1>2. job[j].status = "completed" /\ ~job[j].claimed
  BY DEF ClaimRegistrationSession, CanClaim
<1>3. \A k \in Jobs : Phase(k)' = Phase(k) BY <1>1 DEF Phase, PhaseOf
<1>4. UNCHANGED [k \in Jobs |-> PhaseOf(job[k])] BY <1>3 DEF Phase
<1>5. [k \in Jobs |-> PhaseOf(job[k])][j] = "done" BY <1>2 DEF PhaseOf, OpenStatuses
<1>6. {k \in Jobs : job[k].claimed}' = {k \in Jobs : job[k].claimed} \cup {j} BY <1>1
<1> QED BY <1>2, <1>4, <1>5, <1>6 DEF Saga!Claim

\* Every step is one the clients are told of, or they see nothing of it.
LEMMA SagaStep ==
    ASSUME CommitAcks, Typed, Known, \A j \in Jobs : Whole(j), Exclusive, [Next]_vars
    PROVE  [Saga!SagaNext]_(Saga!sagaVars)
<1>0. DataTyped /\ WorkersTyped /\ RequestsTyped BY TypedIsParts
<1>1. CASE UNCHANGED <<job, rows, usedRows, sessions>>
  BY <1>1, NothingShows DEF SameToClients, Phase
<1>2. ASSUME NEW r \in Requests, RegisterRetry(r) PROVE [Saga!SagaNext]_(Saga!sagaVars)
  <2>1. CASE NeedsRequeue(req[r].status)
    <3>1. /\ req[r].job \in Jobs /\ job[req[r].job].status = "failed" /\ PhoneFree(req[r].job)
      BY <1>0, <1>2, <2>1 DEF Exclusive, RegisterRetry, RequestsTyped
    <3>2. Saga!Open(req[r].job) BY <1>2, <2>1, <3>1, RetryWrites, Reopens
    <3> QED BY <3>1, <3>2 DEF Saga!SagaNext
  <2>2. CASE ~NeedsRequeue(req[r].status)
    <3>1. \A j \in Jobs : job'[j].status = job[j].status /\ job'[j].claimed = job[j].claimed
      BY <1>2, <2>2, RetryWrites
    <3> QED BY <3>1, NothingShows DEF SameToClients, Phase, PhaseOf
  <2> QED BY <2>1, <2>2
<1>3. ASSUME NEW r \in Requests, CreateJob(r) PROVE [Saga!SagaNext]_(Saga!sagaVars)
  <2>1. req[r].job \in Jobs /\ PhoneFree(req[r].job) /\ job[req[r].job].status = "none"
    BY <1>3, CreateWrites DEF CreateJob
  <2>2. job[req[r].job].claimed = FALSE BY <2>1 DEF Known, Stored, NoRow
  <2>3. Saga!Open(req[r].job) BY <1>3, <2>1, <2>2, CreateWrites, Reopens
  <2> QED BY <2>1, <2>3 DEF Saga!SagaNext
<1>4. ASSUME NEW w \in Workers, ClaimPending(w) PROVE [Saga!SagaNext]_(Saga!sagaVars)
  BY <1>4, ClaimWrites, NothingShows DEF SameToClients, Phase, PhaseOf, Open, SameClaim
<1>5. ASSUME NEW w \in Workers, SaveResponse(w) PROVE [Saga!SagaNext]_(Saga!sagaVars)
  <2>1. \A j \in Jobs : job'[j].status = job[j].status /\ job'[j].claimed = job[j].claimed
    BY <1>5, WorkerWrites, RowFields DEF SameClaim
  <2> QED BY <2>1, NothingShows DEF SameToClients, Phase, PhaseOf
<1>6. ASSUME NEW w \in Workers, MarkFailed(w) PROVE [Saga!SagaNext]_(Saga!sagaVars)
  BY <1>6, WorkerWrites, Fails DEF Saga!SagaNext
<1>7. ASSUME NEW w \in Workers, Finalize(w) PROVE [Saga!SagaNext]_(Saga!sagaVars)
  <2>1. Commit(w) BY <1>7 DEF Finalize
  <2> QED BY <2>1, WorkerWrites, Finishes DEF Saga!SagaNext
<1>8. ASSUME NEW j \in Jobs, ClaimRegistrationSession(j)
      PROVE  [Saga!SagaNext]_(Saga!sagaVars)
  BY <1>8, Claims DEF Saga!SagaNext
<1>9. ASSUME NEW k \in Jobs, LeaseExpires(k) \/ TokenExpires(k) \/ DeviceToggles(k)
      PROVE  [Saga!SagaNext]_(Saga!sagaVars)
  <2>1. \A j \in Jobs : job'[j].status = job[j].status /\ job'[j].claimed = job[j].claimed
    BY <1>9, JobWrites, RowFields DEF SameClaim
  <2> QED BY <2>1, NothingShows DEF SameToClients, Phase, PhaseOf
<1>10. HeardStep BY NextIsHeardStep
<1> QED BY <1>1, <1>2, <1>3, <1>4, <1>5, <1>6, <1>7, <1>8, <1>9, <1>10 DEF HeardStep

\* What the clients are told is true whatever leases, batches, lookups, faults and
\* lost workers do behind it: failed may be retried, done is final and of one kin,
\* and its session is handed out once.
THEOREM SagaIsImplemented ==
    ASSUME CommitAcks PROVE Spec /\ []RetriesInTurn => ImplementsSaga
<1>1. Init => Saga!SagaInit
  BY DEF Init, Saga!SagaInit, NoRow, PhaseOf, OpenStatuses
<1>2. /\ Typed /\ Known /\ (\A j \in Jobs : Whole(j)) /\ Exclusive /\ [Next]_vars
      => [Saga!SagaNext]_(Saga!sagaVars)
  BY SagaStep
<1> QED BY <1>1, <1>2, TypedAlways, KnownAlways, WholeAlways, ExclusiveAlways, PTL
        DEF Spec, ImplementsSaga, Saga!SagaSpec
=============================================================================
