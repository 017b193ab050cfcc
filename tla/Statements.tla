------------------------------- MODULE Statements -------------------------------
(***************************************************************************)
(* Account statements (internal/modules/account, wired in                  *)
(* internal/server/router.go): a request is a row in the database; in      *)
(* every API process a cron job claims pending rows and feeds a channel,   *)
(* from which workers generate the file, upload it, settle the row and     *)
(* notify the user (Notifications).                                        *)
(*                                                                         *)
(* A claim has no lease: a row that a process or an expired context leaves *)
(* behind stays 'processing'.  Interrupting a process stops the cron,      *)
(* closes the channel and lets the workers empty it.                       *)
(*                                                                         *)
(* Left out: what the file contains, the limits of the period asked for,   *)
(* and the download link that a read of the row presigns and caches.       *)
(***************************************************************************)
EXTENDS Integers, Sequences, FiniteSets, SequencesExt

CONSTANTS
    Jobs,        \* numbers, in the order of created_at
    PathOf,      \* file of a job: names and period of its user
    FormatOf,    \* "pdf", "xlsx" or anything else, which is accepted too
    Procs,       \* API processes
    Workers, ProcOf,
    Slots,       \* capacity of the channel
    MaxStops,    \* bound: interrupts
    MaxMishaps    \* bound: crashes, expired contexts, failed statements and calls

ASSUME StatementsAssumption ==
    /\ Jobs \subseteq Nat \ {0} /\ ProcOf \in [Workers -> Procs]
    /\ Slots \in Nat \ {0} /\ MaxStops \in Nat /\ MaxMishaps \in Nat

Paths == {PathOf[j] : j \in Jobs}
Formats == {FormatOf[j] : j \in Jobs}

VARIABLES
    status,      \* wallet_account_report_jobs
    file,        \* the bucket: whose statement a path holds
    queue,       \* statementJobQueue
    dispatcher,  \* claimed rows that are not in the channel yet
    running,     \* stmtDispatchRunning
    worker,
    life,        \* of a process
    told,        \* jobs that the user was told to be ready
    mishaps, stops

statementVars == <<status, file, queue, dispatcher, running, worker, life, told, mishaps, stops>>
procVars == <<queue, dispatcher, running, life, stops>>

Worker == [pc : {"idle", "generate", "ready", "fail"}, job : Jobs \cup {0}]

StatementsTypeOK ==
    /\ status \in [Jobs -> {"none", "pending", "processing", "ready", "failed"}]
    /\ file \in [Paths -> Jobs \cup {0}]
    /\ queue \in [Procs -> Seq(Jobs)] /\ dispatcher \in [Procs -> Seq(Jobs)]
    /\ running \in [Procs -> BOOLEAN]
    /\ worker \in [Workers -> Worker]
    /\ life \in [Procs -> {"up", "stopping", "closed"}] /\ stops \in 0..MaxStops
    /\ told \subseteq Jobs /\ mishaps \in 0..MaxMishaps

NoWork == [pc |-> "idle", job |-> 0]

InitStatements ==
    /\ status = [j \in Jobs |-> "none"] /\ file = [f \in Paths |-> 0]
    /\ queue = [p \in Procs |-> <<>>] /\ dispatcher = [p \in Procs |-> <<>>]
    /\ running = [p \in Procs |-> FALSE]
    /\ worker = [w \in Workers |-> NoWork]
    /\ life = [p \in Procs |-> "up"] /\ stops = 0
    /\ told = {} /\ mishaps = 0

Mishap == mishaps < MaxMishaps /\ mishaps' = mishaps + 1

\* RequestAccountStatement
RequestStatement(j) ==
    /\ status[j] = "none"
    /\ \A i \in Jobs : i < j => status[i] # "none"
    /\ status' = [status EXCEPT ![j] = "pending"]
    /\ UNCHANGED <<file, procVars, worker, told, mishaps>>

-----------------------------------------------------------------------------
(* The dispatcher *)

Rows(wanted) == {j \in Jobs : status[j] \in wanted}

\* The n oldest of these rows, or all of them, oldest first.
Oldest(rows, n) == {s \in UNION {[1..k -> rows] : k \in 0..n} :
    /\ \A a, b \in DOMAIN s : a < b => s[a] < s[b]
    /\ \A i \in rows \ ToSet(s) : Len(s) = n /\ \A j \in ToSet(s) : j < i}

\* Mutant: rows that a worker holds are claimed as well.
ClaimedAgain(n) == Oldest(Rows({"pending", "processing"}), n)

\* ClaimPendingAccountReportJobs: FOR UPDATE SKIP LOCKED, oldest first.
Claimed(n) == Oldest(Rows({"pending"}), n)

\* Mutant: as many as the channel holds, whatever is in it.
AllSlots(p) == Slots

FreeSlots(p) == Slots - Len(queue[p])

\* One run of the cron job at a time; none once it is stopped.
Dispatch(p) ==
    /\ life[p] = "up" /\ ~running[p] /\ FreeSlots(p) > 0
    /\ \E claimed \in Claimed(FreeSlots(p)) :
       /\ claimed # <<>>
       /\ status' = [j \in Jobs |-> IF j \in ToSet(claimed) THEN "processing" ELSE status[j]]
       /\ dispatcher' = [dispatcher EXCEPT ![p] = claimed]
       /\ running' = [running EXCEPT ![p] = TRUE]
    /\ UNCHANGED <<told, mishaps, file, queue, worker, life, stops>>

SendJob(p) ==
    /\ dispatcher[p] # <<>> /\ Len(queue[p]) < Slots
    /\ queue' = [queue EXCEPT ![p] = Append(@, Head(dispatcher[p]))]
    /\ dispatcher' = [dispatcher EXCEPT ![p] = Tail(@)]
    /\ UNCHANGED <<told, mishaps, status, file, running, worker, life, stops>>

DispatchEnds(p) ==
    /\ running[p] /\ dispatcher[p] = <<>>
    /\ running' = [running EXCEPT ![p] = FALSE]
    /\ UNCHANGED <<told, mishaps, status, file, queue, dispatcher, worker, life, stops>>

-----------------------------------------------------------------------------
(* ProcessStatementJob *)

Take(w) ==
    LET p == ProcOf[w] IN
    /\ worker[w].pc = "idle" /\ queue[p] # <<>>
    /\ worker' = [worker EXCEPT ![w] = [pc |-> "generate", job |-> Head(queue[p])]]
    /\ queue' = [queue EXCEPT ![p] = Tail(@)]
    /\ UNCHANGED <<told, mishaps, status, file, dispatcher, running, life, stops>>

\* The file is uploaded; the upload may also fail after it took effect.
Uploads(w) ==
    \/ /\ worker' = [worker EXCEPT ![w].pc = "ready"] /\ UNCHANGED mishaps
       /\ file' = [file EXCEPT ![PathOf[worker[w].job]] = worker[w].job]
    \/ /\ worker' = [worker EXCEPT ![w].pc = "fail"] /\ Mishap
       /\ file' \in {file, [file EXCEPT ![PathOf[worker[w].job]] = worker[w].job]}

\* processAccountStatementRequest dispatches on the format.
Generate(w, format) ==
    /\ worker[w].pc = "generate" /\ FormatOf[worker[w].job] = format
    /\ UNCHANGED <<told, status, procVars>>

\* A spreadsheet is made in memory ...
GenerateXLSX(w) == Generate(w, "xlsx") /\ Uploads(w)

\* ... and a PDF by another service, which may refuse.
GeneratePDF(w) ==
    /\ Generate(w, "pdf")
    /\ \/ Uploads(w)
       \/ /\ Mishap /\ UNCHANGED file
          /\ worker' = [worker EXCEPT ![w].pc = "fail"]

UnknownFormat(w) ==
    /\ \E f \in Formats \ {"pdf", "xlsx"} : Generate(w, f)
    /\ worker' = [worker EXCEPT ![w].pc = "fail"]
    /\ UNCHANGED <<file, mishaps>>

\* Mutant: guarded by the status as MarkJobProcessing is.
SettlesPending(j, final) ==
    /\ status' = IF status[j] = "pending" THEN [status EXCEPT ![j] = final] ELSE status
    /\ UNCHANGED mishaps

\* MarkJobFailed, MarkJobReady: by id; their errors are ignored.
Settles(j, final) ==
    \/ status' = [status EXCEPT ![j] = final] /\ UNCHANGED mishaps
    \/ Mishap /\ UNCHANGED status

MarkJobFailed(w) ==
    /\ worker[w].pc = "fail"
    /\ Settles(worker[w].job, "failed")
    /\ worker' = [worker EXCEPT ![w] = NoWork]
    /\ UNCHANGED <<told, file, procVars>>

\* Then SendToUser, even if the row could not be written; its result is ignored
\* (Notifications).
MarkJobReady(w) ==
    /\ worker[w].pc = "ready"
    /\ Settles(worker[w].job, "ready")
    /\ told' = told \cup {worker[w].job}
    /\ worker' = [worker EXCEPT ![w] = NoWork]
    /\ UNCHANGED <<file, procVars>>

\* Five minutes are over: every later statement fails, MarkJobFailed among them.
Expires(w) ==
    /\ worker[w].pc # "idle" /\ Mishap
    /\ worker' = [worker EXCEPT ![w] = NoWork]
    /\ UNCHANGED <<told, status, file, procVars>>

-----------------------------------------------------------------------------
(* Processes *)

\* Mutant: the channel is closed without waiting for the cron job.
CanCloseAtOnce(p) == life[p] = "stopping"

\* <-c.Stop().Done() waits for the cron job that runs.
CanClose(p) == life[p] = "stopping" /\ ~running[p]

Stop(p) ==
    /\ life[p] = "up" /\ stops < MaxStops
    /\ stops' = stops + 1 /\ life' = [life EXCEPT ![p] = "stopping"]
    /\ UNCHANGED <<told, mishaps, status, file, queue, dispatcher, running, worker>>

Close(p) ==
    /\ CanClose(p)
    /\ life' = [life EXCEPT ![p] = "closed"]
    /\ UNCHANGED <<told, mishaps, status, file, queue, dispatcher, running, worker, stops>>

WorkersOf(p) == {w \in Workers : ProcOf[w] = p}

\* statementWorkerWG.Wait; the process is started again.
Restart(p) ==
    /\ life[p] = "closed" /\ queue[p] = <<>>
    /\ \A w \in WorkersOf(p) : worker[w] = NoWork
    /\ life' = [life EXCEPT ![p] = "up"]
    /\ UNCHANGED <<told, mishaps, status, file, queue, dispatcher, running, worker, stops>>

\* The process dies (SIGTERM is not caught) and is started again.
Crash(p) ==
    /\ Mishap
    /\ queue' = [queue EXCEPT ![p] = <<>>]
    /\ dispatcher' = [dispatcher EXCEPT ![p] = <<>>]
    /\ running' = [running EXCEPT ![p] = FALSE]
    /\ worker' = [w \in Workers |-> IF w \in WorkersOf(p) THEN NoWork ELSE worker[w]]
    /\ life' = [life EXCEPT ![p] = "up"]
    /\ UNCHANGED <<status, file, told, stops>>

-----------------------------------------------------------------------------
Dispatches(p) == Dispatch(p) \/ SendJob(p) \/ DispatchEnds(p)
Generates(w) == GenerateXLSX(w) \/ GeneratePDF(w) \/ UnknownFormat(w)
Works(w) == Take(w) \/ Generates(w) \/ MarkJobFailed(w) \/ MarkJobReady(w)

NextStatements ==
    \/ \E j \in Jobs : RequestStatement(j)
    \/ \E p \in Procs : Dispatches(p) \/ Stop(p) \/ Close(p) \/ Restart(p) \/ Crash(p)
    \/ \E w \in Workers : Works(w) \/ Expires(w)

\* The cron fires, workers go on, an interrupted process is replaced.
StatementsFairness ==
    /\ \A p \in Procs : WF_statementVars(Dispatches(p)) /\ WF_statementVars(Close(p) \/ Restart(p))
    /\ \A w \in Workers : WF_statementVars(Works(w))

SpecStatements == InitStatements /\ [][NextStatements]_statementVars /\ StatementsFairness

-----------------------------------------------------------------------------
(* Properties *)

\* What a process has claimed and no worker has taken.
Holds(p) == queue[p] \o dispatcher[p]

\* However many processes claim, a job is in the hands of one: it is in one
\* channel, or with one dispatcher or worker, and only while it is 'processing'
\* or being announced.
OneHolder ==
    /\ \A p \in Procs : IsInjective(Holds(p))
    /\ \A j \in Jobs :
         Cardinality({p \in Procs : j \in ToSet(Holds(p))})
         + Cardinality({w \in Workers : worker[w].job = j}) <= 1

\* What a dispatcher claims fits into the channel, so it never waits for a worker,
\* and nothing is ever sent on the channel once it is closed (which would panic).
NeverBlocked ==
    \A p \in Procs :
      /\ Len(queue[p]) + Len(dispatcher[p]) <= Slots
      /\ life[p] = "closed" => dispatcher[p] = <<>>

\* A job that is offered for download, or announced to its user, has a file.
ReadyHasFile == \A j \in Jobs : status[j] = "ready" \/ j \in told => file[PathOf[j]] # 0

\* Unless something failed, every request is settled, also across interrupts.
EveryJobSettles ==
    \A j \in Jobs : status[j] = "pending" ~> (status[j] \in {"ready", "failed"} \/ mishaps > 0)
=============================================================================
