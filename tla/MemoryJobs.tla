------------------------------ MODULE MemoryJobs ------------------------------
(***************************************************************************)
(* The memory update queue: chat turns that enqueue a job for their        *)
(* (user, subject) scope, and the worker processes that claim a job,       *)
(* evaluate it with an LLM, write the outcome and settle the job.          *)
(*                                                                         *)
(*   backend/memory/service   enqueue_memory_update (threads of the app)   *)
(*   backend/memory/jobs      process_pending_jobs  (worker processes)     *)
(*                                                                         *)
(* Both sides share only the table memory_update_jobs.  An action is one   *)
(* connection block, or one statement where the block is not one           *)
(* transaction: Python's sqlite3 opens a transaction at the first write,   *)
(* so every SELECT before it is on its own.                                *)
(*                                                                         *)
(* Time is kept as ages: seconds since created_at and updated_at, up to    *)
(* the largest threshold anyone compares them with.  The clock is assumed  *)
(* monotone, so ORDER BY created_at, id is the order of the row ids.       *)
(***************************************************************************)
EXTENDS Naturals, FiniteSets

CONSTANTS
  Turns,           \* chat turns, each asking once for a memory update
  Scopes,          \* (user_id, subject_id) pairs
  Workers,         \* worker processes
  NoTurn,          \* a worker that holds no job
  EnqueueThreads,  \* how many turns the app runs at the same time
  LlmSeconds,      \* MEMORY_LLM_TIMEOUT_SECONDS
  DbSeconds,       \* the longest a connection block takes (sqlite busy timeout)
  StaleSeconds,    \* MEMORY_STALE_JOB_SECONDS
  DedupSeconds,    \* MEMORY_DEDUP_WINDOW_SECONDS
  HourSeconds,     \* the window of the rate limit
  MaxPerHour,      \* MEMORY_MAX_JOBS_PER_HOUR
  BatchSize,       \* --batch-size
  MaxKills,        \* bound: workers killed from outside
  MaxDbErrors      \* bound: sqlite errors raised outside the evaluation's try

ASSUME TypeAssumption ==
  /\ NoTurn \notin Turns
  /\ LlmSeconds \in Nat /\ DbSeconds \in Nat /\ StaleSeconds \in Nat
  /\ DedupSeconds \in Nat /\ HourSeconds \in Nat /\ DedupSeconds <= HourSeconds
  /\ EnqueueThreads \in Nat \ {0} /\ MaxPerHour \in Nat \ {0}
  /\ BatchSize \in Nat \ {0} /\ MaxKills \in Nat /\ MaxDbErrors \in Nat

\* The longest a live worker can hold a job: load, look up the user's model,
\* ask it, apply, fail to record the failure, commit the trace, try again.
WorkBound == LlmSeconds + 6 * DbSeconds

\* config.py: the threshold "must stay well above" the evaluation timeout.
ASSUME LeaseAssumption == WorkBound < StaleSeconds

VARIABLES
  tpc,       \* where each turn stands in enqueue_memory_update
  scope,     \* the scope of the turn and of its job row
  status,    \* memory_update_jobs.status, "absent" before the insert
  rowid,     \* memory_update_jobs.id
  lastRow,   \* the AUTOINCREMENT counter
  created,   \* seconds since created_at, up to HourSeconds
  updated,   \* seconds since updated_at while running, up to StaleSeconds
  written,   \* evaluations committed on behalf of the job
  wpc,       \* where each worker stands in process_pending_jobs
  wjob,      \* the job the worker selected or holds
  left,      \* seconds its present step may still take
  todo,      \* iterations left in the worker's batch
  kills,     \* workers killed so far
  dbErrors   \* sqlite errors raised so far

turnVars   == <<tpc, scope>>
rowVars    == <<status, rowid, lastRow, created, updated>>
workerVars == <<wpc, wjob, left, todo>>
faultVars  == <<kills, dbErrors>>
vars == <<turnVars, rowVars, written, workerVars, faultVars>>

-----------------------------------------------------------------------------
Terminal == {"done", "failed"}
Statuses == {"absent", "pending", "running"} \cup Terminal
Checking == {"dedup", "rate", "insert"}
TurnPCs  == {"idle", "skipped", "enqueued", "db_error"} \cup Checking
Holding  == {"load", "eval", "apply", "trace", "finish", "fail", "failagain"}
Closing  == {"closing", "refail"}
Idling   == {"reclaim", "select", "claim"}
WorkerPCs == Holding \cup Closing \cup Idling \cup {"killed", "raised"}

TypeOK ==
  /\ tpc \in [Turns -> TurnPCs]
  /\ scope \in [Turns -> Scopes]
  /\ status \in [Turns -> Statuses]
  /\ rowid \in [Turns -> Nat] /\ lastRow \in Nat
  /\ created \in [Turns -> 0..HourSeconds]
  /\ updated \in [Turns -> 0..StaleSeconds]
  /\ written \in [Turns -> Nat]
  /\ wpc \in [Workers -> WorkerPCs]
  /\ wjob \in [Workers -> Turns \cup {NoTurn}]
  /\ left \in [Workers -> Nat]
  /\ todo \in [Workers -> 0..BatchSize]
  /\ kills \in 0..MaxKills /\ dbErrors \in 0..MaxDbErrors

Init ==
  /\ tpc = [t \in Turns |-> "idle"]
  /\ scope \in [Turns -> Scopes]
  /\ status = [t \in Turns |-> "absent"]
  /\ rowid = [t \in Turns |-> 0] /\ lastRow = 0
  /\ created = [t \in Turns |-> 0]
  /\ updated = [t \in Turns |-> 0]
  /\ written = [t \in Turns |-> 0]
  /\ wpc = [w \in Workers |-> "reclaim"]
  /\ wjob = [w \in Workers |-> NoTurn]
  /\ left = [w \in Workers |-> 0]
  /\ todo = [w \in Workers |-> 0]
  /\ kills = 0 /\ dbErrors = 0

-----------------------------------------------------------------------------
(* enqueue_memory_update: SELECT, SELECT and INSERT are separate steps.    *)

Row(s) == {t \in Turns : status[t] # "absent" /\ scope[t] = s}

\* Mutant: only 'pending' rows are looked for.
HasPendingJobNotRunning(s) ==
  \E t \in Row(s) : status[t] = "pending" /\ created[t] < DedupSeconds

\* _has_pending_job
HasPendingJob(s) ==
  \E t \in Row(s) : status[t] \in {"pending", "running"} /\ created[t] < DedupSeconds

\* Mutant: count > MEMORY_MAX_JOBS_PER_HOUR.
ExceedsRateLimitOffByOne(s) ==
  Cardinality({t \in Row(s) : created[t] < HourSeconds}) > MaxPerHour

\* _exceeds_rate_limit
ExceedsRateLimit(s) ==
  Cardinality({t \in Row(s) : created[t] < HourSeconds}) >= MaxPerHour

\* The free checks: a turn without a scope, without user text or with a text
\* below MEMORY_MIN_TURN_CHARS is skipped before the database is touched.
BeginEnqueue(t) ==
  /\ tpc[t] = "idle"
  /\ Cardinality({u \in Turns : tpc[u] \in Checking}) < EnqueueThreads
  /\ \E next \in {"skipped", "dedup"} : tpc' = [tpc EXCEPT ![t] = next]
  /\ UNCHANGED <<scope, rowVars, written, workerVars, faultVars>>

CheckDedup(t) ==
  /\ tpc[t] = "dedup"
  /\ tpc' = [tpc EXCEPT ![t] = IF HasPendingJob(scope[t]) THEN "skipped" ELSE "rate"]
  /\ UNCHANGED <<scope, rowVars, written, workerVars, faultVars>>

CheckRate(t) ==
  /\ tpc[t] = "rate"
  /\ tpc' = [tpc EXCEPT ![t] = IF ExceedsRateLimit(scope[t]) THEN "skipped" ELSE "insert"]
  /\ UNCHANGED <<scope, rowVars, written, workerVars, faultVars>>

InsertJob(t) ==
  /\ tpc[t] = "insert"
  /\ tpc' = [tpc EXCEPT ![t] = "enqueued"]
  /\ status' = [status EXCEPT ![t] = "pending"]
  /\ lastRow' = lastRow + 1
  /\ rowid' = [rowid EXCEPT ![t] = lastRow + 1]
  /\ created' = [created EXCEPT ![t] = 0]
  /\ updated' = [updated EXCEPT ![t] = 0]
  /\ UNCHANGED <<scope, written, workerVars, faultVars>>

\* Any of the three statements raises: rolled back, the decision is db_error.
EnqueueDbError(t) ==
  /\ tpc[t] \in Checking
  /\ tpc' = [tpc EXCEPT ![t] = "db_error"]
  /\ UNCHANGED <<scope, rowVars, written, workerVars, faultVars>>

-----------------------------------------------------------------------------
(* process_pending_jobs.                                                   *)

\* Worker w enters step pc, which takes at most budget seconds.
Goto(w, pc, budget) ==
  /\ wpc' = [wpc EXCEPT ![w] = pc]
  /\ left' = [left EXCEPT ![w] = budget]

\* The for loop goes on to its next iteration, or the batch is over and
\* run_worker_loop starts the next one.
NextIteration(w) ==
  /\ Goto(w, IF todo[w] = 0 THEN "reclaim" ELSE "select", 0)
  /\ wjob' = [wjob EXCEPT ![w] = NoTurn]
  /\ UNCHANGED todo

EndBatch(w) ==
  /\ Goto(w, "reclaim", 0)
  /\ wjob' = [wjob EXCEPT ![w] = NoTurn]
  /\ todo' = [todo EXCEPT ![w] = 0]

\* Mutant: the batch loop runs once too often.
IterationsOffByOne == BatchSize + 1

\* for _ in range(max(1, batch_size))
Iterations == BatchSize

\* Mutant: every running row is taken for an orphan.
StaleAtAnyAge(t) == status[t] = "running"

\* updated_at <= datetime('now', '-N seconds')
Stale(t) == status[t] = "running" /\ updated[t] >= StaleSeconds

\* Mutant: the batch starts without the reclaim pass.
ReclaimNothing(w) ==
  /\ wpc[w] = "reclaim"
  /\ Goto(w, "select", 0)
  /\ todo' = [todo EXCEPT ![w] = Iterations]
  /\ UNCHANGED <<turnVars, rowVars, written, wjob, faultVars>>

Reclaim(w) ==
  /\ wpc[w] = "reclaim"
  /\ status' = [t \in Turns |-> IF Stale(t) THEN "pending" ELSE status[t]]
  /\ updated' = [t \in Turns |-> IF Stale(t) THEN 0 ELSE updated[t]]
  /\ Goto(w, "select", 0)
  /\ todo' = [todo EXCEPT ![w] = Iterations]
  /\ UNCHANGED <<turnVars, rowid, lastRow, created, written, wjob, faultVars>>

\* Mutant: ORDER BY id DESC.
NewestPending(t) ==
  /\ status[t] = "pending"
  /\ \A u \in Turns : status[u] = "pending" => rowid[t] >= rowid[u]

OldestPending(t) ==
  /\ status[t] = "pending"
  /\ \A u \in Turns : status[u] = "pending" => rowid[t] <= rowid[u]

\* The SELECT of _claim_next_pending_job
Select(w) ==
  /\ wpc[w] = "select"
  /\ \/ \E t \in Turns :
          /\ OldestPending(t)
          /\ wjob' = [wjob EXCEPT ![w] = t]
          /\ Goto(w, "claim", 0)
          /\ UNCHANGED todo
     \/ /\ \A t \in Turns : status[t] # "pending"
        /\ EndBatch(w)
  /\ UNCHANGED <<turnVars, rowVars, written, faultVars>>

\* Mutant: the UPDATE without AND status = 'pending'.
ClaimableAnyway(t) == TRUE

\* Its UPDATE ... WHERE id = ? AND status = 'pending': one row, or none and
\* then the batch ends.
Claimable(t) == status[t] = "pending"

Claim(w) ==
  /\ wpc[w] = "claim"
  /\ \/ /\ Claimable(wjob[w])
        /\ status' = [status EXCEPT ![wjob[w]] = "running"]
        /\ updated' = [updated EXCEPT ![wjob[w]] = 0]
        /\ Goto(w, "load", DbSeconds)
        /\ todo' = [todo EXCEPT ![w] = @ - 1]
        /\ UNCHANGED wjob
     \/ /\ ~Claimable(wjob[w])
        /\ EndBatch(w)
        /\ UNCHANGED <<status, updated>>
  /\ UNCHANGED <<turnVars, rowid, lastRow, created, written, faultVars>>

\* _parse_payload and _load_current_state, or an exception in either
Load(w) ==
  /\ wpc[w] = "load"
  /\ \/ Goto(w, "eval", DbSeconds + LlmSeconds)
     \/ Goto(w, "fail", DbSeconds)
  /\ UNCHANGED <<turnVars, rowVars, written, wjob, todo, faultVars>>

\* evaluate_memory, which looks up the user's model before wait_for limits the
\* call, and _validate_semantic: something to write, a skip, or an error
\* (provider, timeout, malformed answer)
Evaluate(w) ==
  /\ wpc[w] = "eval"
  /\ \E next \in {"apply", "trace", "fail"} : Goto(w, next, DbSeconds)
  /\ UNCHANGED <<turnVars, rowVars, written, wjob, todo, faultVars>>

\* _apply_evaluation: one transaction, committed or rolled back
Apply(w) ==
  /\ wpc[w] = "apply"
  /\ \/ /\ written' = [written EXCEPT ![wjob[w]] = @ + 1]
        /\ Goto(w, "trace", DbSeconds)
     \/ /\ Goto(w, "fail", DbSeconds)
        /\ UNCHANGED written
  /\ UNCHANGED <<turnVars, rowVars, wjob, todo, faultVars>>

\* memory_job_log_context ends with a commit of the job's trace, before a job
\* that went well is settled and after the row of one that did not is.
CommitTrace(w) ==
  /\ \/ /\ wpc[w] = "trace"
        /\ Goto(w, "finish", DbSeconds)
        /\ UNCHANGED <<wjob, todo>>
     \/ wpc[w] = "closing" /\ NextIteration(w)
  /\ UNCHANGED <<turnVars, rowVars, written, faultVars>>

\* _set_job_done and _set_job_failed do not look at the status they replace.
Settle(w, outcome) ==
  /\ status' = [status EXCEPT ![wjob[w]] = outcome]
  /\ updated' = [updated EXCEPT ![wjob[w]] = 0]
  /\ UNCHANGED <<turnVars, rowid, lastRow, created, written, faultVars>>

SetDone(w) == wpc[w] = "finish" /\ Settle(w, "done") /\ NextIteration(w)

\* In the except of _process_claimed_job
SetFailed(w) ==
  /\ wpc[w] = "fail"
  /\ Settle(w, "failed")
  /\ Goto(w, "closing", 0)
  /\ UNCHANGED <<wjob, todo>>

\* In the guard of process_pending_jobs, the second time for this row or not
SetFailedByGuard(w) ==
  /\ wpc[w] \in {"failagain", "refail"}
  /\ Settle(w, "failed")
  /\ NextIteration(w)

-----------------------------------------------------------------------------
(* Faults.                                                                 *)

\* _set_job_failed raises inside the except of _process_claimed_job: the
\* trace is committed, or fails to be, and the guard in process_pending_jobs
\* calls _set_job_failed again.
SetFailedRaises(w) ==
  /\ wpc[w] = "fail"
  /\ dbErrors < MaxDbErrors
  /\ dbErrors' = dbErrors + 1
  /\ Goto(w, "failagain", 2 * DbSeconds)
  /\ UNCHANGED <<turnVars, rowVars, written, wjob, todo, kills>>

\* The commit of the trace raises: the guard fails the job, whether it was
\* written, had nothing to write, or has failed already.
TraceRaises(w) ==
  /\ dbErrors < MaxDbErrors
  /\ dbErrors' = dbErrors + 1
  /\ \/ wpc[w] = "trace" /\ Goto(w, "failagain", DbSeconds)
     \/ wpc[w] = "closing" /\ Goto(w, "refail", 0)
  /\ UNCHANGED <<turnVars, rowVars, written, wjob, todo, kills>>

LeaveTo(w, pc) ==
  /\ Goto(w, pc, 0)
  /\ wjob' = [wjob EXCEPT ![w] = NoTurn]
  /\ todo' = [todo EXCEPT ![w] = 0]
  /\ UNCHANGED <<turnVars, rowVars, written>>

\* A sqlite error outside every try: it leaves process_pending_jobs,
\* run_worker_loop and main, and the process exits.
Raise(w) ==
  /\ wpc[w] \in Idling \cup {"finish", "failagain", "refail"}
  /\ dbErrors < MaxDbErrors
  /\ dbErrors' = dbErrors + 1
  /\ LeaveTo(w, "raised")
  /\ UNCHANGED kills

\* SIGKILL, out of memory, host restart: at any point, holding a job or not
Kill(w) ==
  /\ wpc[w] \in Holding \cup Closing \cup Idling
  /\ kills < MaxKills
  /\ kills' = kills + 1
  /\ LeaveTo(w, "killed")
  /\ UNCHANGED dbErrors

Restart(w) ==
  /\ wpc[w] \in {"killed", "raised"}
  /\ wpc' = [wpc EXCEPT ![w] = "reclaim"]
  /\ UNCHANGED <<turnVars, rowVars, written, wjob, left, todo, faultVars>>

\* A second passes.  A step that is out of time has to end first: the LLM
\* call by asyncio.wait_for, a connection block by the busy timeout.
Older(age, limit) == IF age < limit THEN age + 1 ELSE age

Tick ==
  /\ \A w \in Workers : wpc[w] \in Holding => left[w] > 0
  /\ created' = [t \in Turns |->
       IF status[t] = "absent" THEN 0 ELSE Older(created[t], HourSeconds)]
  /\ updated' = [t \in Turns |->
       IF status[t] = "running" THEN Older(updated[t], StaleSeconds) ELSE 0]
  /\ left' = [w \in Workers |-> IF wpc[w] \in Holding THEN left[w] - 1 ELSE left[w]]
  /\ UNCHANGED <<turnVars, status, rowid, lastRow, written, wpc, wjob, todo, faultVars>>

-----------------------------------------------------------------------------
Enqueue(t) ==
  BeginEnqueue(t) \/ CheckDedup(t) \/ CheckRate(t) \/ InsertJob(t) \/ EnqueueDbError(t)

Work(w) ==
  \/ Reclaim(w) \/ Select(w) \/ Claim(w) \/ Load(w)
  \/ Evaluate(w) \/ Apply(w) \/ CommitTrace(w)
  \/ SetDone(w) \/ SetFailed(w) \/ SetFailedByGuard(w)

Fault(w) == SetFailedRaises(w) \/ TraceRaises(w) \/ Raise(w) \/ Kill(w)

Next ==
  \/ \E t \in Turns : Enqueue(t)
  \/ \E w \in Workers : Work(w) \/ Fault(w) \/ Restart(w)
  \/ Tick

Spec == Init /\ [][Next]_vars

\* Workers run, time passes, and a worker that is down is started again (by an
\* operator: the repository restarts nothing).
Fairness ==
  /\ WF_vars(Tick)
  /\ \A w \in Workers : WF_vars(Work(w)) /\ WF_vars(Restart(w))

LiveSpec == Spec /\ Fairness
-----------------------------------------------------------------------------
(* Properties.                                                             *)

\* config.py: "live evaluations are never stolen".  While a worker holds a
\* job the row says running, so no reclaim has taken it back.
NeverStolen ==
  \A w \in Workers : wpc[w] \in Holding => status[wjob[w]] = "running"

\* Two workers never hold the same job: the UPDATE of the claim decides the
\* race between two SELECTs, and a reclaim never gives a held job away.
ExclusiveHolder ==
  \A v, w \in Workers :
    v # w /\ wpc[v] \in Holding /\ wpc[w] \in Holding => wjob[v] # wjob[w]

\* A job that is done or failed stays as it is, although _set_job_done and
\* _set_job_failed would overwrite any status.
TerminalStable ==
  [][\A t \in Turns : status[t] \in Terminal => status'[t] = status[t]]_vars

\* A job is written once, and once more for each worker killed and each
\* sqlite error.  A job that failed, or that is to be evaluated again, was
\* written only where one of those hit: its holder was lost before it settled
\* the job, or the trace of its evaluation could not be committed.
Settled(t) ==
  \/ status[t] = "done"
  \/ \E w \in Workers : wpc[w] \in {"trace", "finish"} /\ wjob[w] = t

WritesBounded ==
  \A t \in Turns : written[t] <= kills + dbErrors + (IF Settled(t) THEN 1 ELSE 0)

\* The dedup check is not atomic with the insert, but a burst in one scope
\* still leaves at most one open job per turn the app runs at once.
OpenRecent(s) == {t \in Row(s) : status[t] \notin Terminal /\ created[t] < DedupSeconds}

BurstBounded == \A s \in Scopes : Cardinality(OpenRecent(s)) <= EnqueueThreads

\* Nor is the rate limit: the turns that run at once may exceed it together.
HourlyBounded ==
  \A s \in Scopes :
    Cardinality({t \in Row(s) : created[t] < HourSeconds})
      <= MaxPerHour + EnqueueThreads - 1

\* As long as no worker is lost, jobs are claimed in the order of their rows,
\* whatever the interleaving of the workers' SELECTs and UPDATEs.
ClaimsInOrder ==
  [][kills = 0 /\ dbErrors = 0 =>
       \A t, u \in Turns :
         /\ status[t] = "pending" /\ status'[t] = "running"
         /\ status[u] = "pending"
         => rowid[t] <= rowid[u]]_vars

\* Every job that was enqueued is eventually done or failed, even if the
\* workers that held it were lost.
EveryJobSettles ==
  \A t \in Turns : status[t] = "pending" ~> status[t] \in Terminal

\* The queue implements the abstract lease on a job.
Phase(t) == IF status[t] \in {"pending", "running"} THEN "open" ELSE status[t]
Holders(t) == {w \in Workers : wpc[w] \in Holding /\ wjob[w] = t}

Lease == INSTANCE JobLease WITH
  Jobs    <- Turns,
  phase   <- [t \in Turns |-> Phase(t)],
  holders <- [t \in Turns |-> Holders(t)],
  writes  <- written

LeaseSpec == Lease!Spec

-----------------------------------------------------------------------------
(* What the repository's documents say and the code does not do.           *)

\* tests/e2e/test_memory_edge_cases.py: the dedup check and the insert are
\* "within one DB transaction, so under a same-scope burst the first insert
\* wins and the other turns see the pending job and skip".
FirstInsertWins == \A s \in Scopes : Cardinality(OpenRecent(s)) <= 1

\* 03-async-memory-jobs.md: "Retried job creates no duplicate observations".
RetryWritesOnce == \A t \in Turns : written[t] <= 1
=============================================================================
