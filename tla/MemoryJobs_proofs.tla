-------------------------- MODULE MemoryJobs_proofs ---------------------------
(***************************************************************************)
(* What holds of the memory update queue for any number of turns, scopes   *)
(* and workers, for any timeouts that satisfy LeaseAssumption, and for any *)
(* number of killed workers and sqlite errors.                             *)
(*                                                                         *)
(* The argument is the inductive invariant LeaseInv.  Its heart is HeldInTime: *)
(* the seconds since a held row was touched, plus the seconds the holder's *)
(* present step may still take, plus those of the steps after it, never    *)
(* exceed WorkBound.  WorkBound is below the stale threshold, so a reclaim *)
(* finds no held row.  What is said of exclusive holders, settled jobs,    *)
(* writes, the order of claims and the lease follows from that.  The       *)
(* bounds on bursts are an argument about counting, CountInv: a turn that  *)
(* has passed a check counts as the row it may still insert.               *)
(***************************************************************************)
EXTENDS MemoryJobs, FiniteSetTheorems, TLAPS

\* The seconds the steps after step pc may take before the job is settled.
After(pc) ==
  CASE pc = "load"  -> LlmSeconds + 5 * DbSeconds
    [] pc = "eval"  -> 4 * DbSeconds
    [] pc = "apply" -> 3 * DbSeconds
    [] pc = "fail"  -> 2 * DbSeconds
    [] pc = "trace" -> DbSeconds
    [] OTHER        -> 0

\* A worker that selected or holds a job knows which one.
KnowsJob ==
  \A w \in Workers : wpc[w] \in Holding \cup Closing \cup {"claim"} => wjob[w] \in Turns

\* A worker that is about to claim has an iteration left to spend on it.
HasIteration == \A w \in Workers : wpc[w] \in {"select", "claim"} => todo[w] > 0

\* Only a turn whose INSERT committed has a row.
RowIffEnqueued == \A t \in Turns : tpc[t] # "enqueued" => status[t] = "absent"

\* A held row is touched recently enough for all that its holder has to do.
HeldInTime ==
  \A w \in Workers :
    wpc[w] \in Holding =>
      updated[wjob[w]] + left[w] + After(wpc[w]) <= WorkBound

\* What is left to do for a job that failed changes its row no more.
ClosedFailed == \A w \in Workers : wpc[w] \in Closing => status[wjob[w]] = "failed"

USE DEF Holding, Closing, Idling, Checking, Terminal

-----------------------------------------------------------------------------
(* The type invariant.                                                     *)

TypeInv == TypeOK /\ KnowsJob /\ HasIteration

LEMMA TypeStep == TypeInv /\ [Next]_vars => TypeInv'
<1> SUFFICES ASSUME TypeInv, [Next]_vars PROVE TypeInv'
  OBVIOUS
<1> USE TypeAssumption DEF TypeInv, TypeOK, KnowsJob, HasIteration, TurnPCs, WorkerPCs,
        Statuses, turnVars, rowVars, workerVars, faultVars
<1>1. ASSUME NEW t \in Turns, Enqueue(t) PROVE TypeInv'
  <2>1. CASE BeginEnqueue(t)
    BY <2>1 DEF BeginEnqueue
  <2>2. CASE CheckDedup(t)
    BY <2>2 DEF CheckDedup
  <2>3. CASE CheckRate(t)
    BY <2>3 DEF CheckRate
  <2>4. CASE InsertJob(t)
    BY <2>4 DEF InsertJob
  <2>5. CASE EnqueueDbError(t)
    BY <2>5 DEF EnqueueDbError
  <2> QED BY <1>1, <2>1, <2>2, <2>3, <2>4, <2>5 DEF Enqueue
<1>2. ASSUME NEW w \in Workers, Work(w) PROVE TypeInv'
  <2>1. CASE Reclaim(w)
    BY <2>1 DEF Reclaim, Goto, Iterations
  <2>2. CASE Select(w)
    BY <2>2, SMTT(40) DEF Select, Goto, EndBatch
  <2>3. CASE Claim(w)
    BY <2>3, SMTT(40) DEF Claim, Goto, EndBatch, Claimable
  <2>4. CASE Load(w)
    BY <2>4, SMTT(40) DEF Load, Goto
  <2>5. CASE Evaluate(w)
    BY <2>5, SMTT(40) DEF Evaluate, Goto
  <2>6. CASE Apply(w)
    BY <2>6, SMTT(40) DEF Apply, Goto
  <2>7. CASE SetDone(w)
    BY <2>7 DEF SetDone, Settle, NextIteration, Goto
  <2>8. CASE SetFailed(w)
    BY <2>8 DEF SetFailed, Settle, Goto
  <2>9. CASE CommitTrace(w)
    BY <2>9 DEF CommitTrace, NextIteration, Goto
  <2>10. CASE SetFailedByGuard(w)
    BY <2>10 DEF SetFailedByGuard, Settle, NextIteration, Goto
  <2> QED BY <1>2, <2>1, <2>2, <2>3, <2>4, <2>5, <2>6, <2>7, <2>8, <2>9, <2>10 DEF Work
<1>3. ASSUME NEW w \in Workers, Fault(w) PROVE TypeInv'
  <2>1. CASE SetFailedRaises(w) \/ TraceRaises(w)
    BY <2>1 DEF SetFailedRaises, TraceRaises, Goto
  <2>2. CASE Raise(w)
    BY <2>2 DEF Raise, LeaveTo, Goto
  <2>3. CASE Kill(w)
    BY <2>3 DEF Kill, LeaveTo, Goto
  <2> QED BY <1>3, <2>1, <2>2, <2>3 DEF Fault
<1>4. ASSUME NEW w \in Workers, Restart(w) PROVE TypeInv'
  BY <1>4 DEF Restart
<1>5. CASE Tick
  BY <1>5 DEF Tick, Older
<1>6. CASE UNCHANGED vars
  BY <1>6 DEF vars
<1> QED BY <1>1, <1>2, <1>3, <1>4, <1>5, <1>6 DEF Next

LEMMA TypeInit == Init => TypeInv
BY TypeAssumption DEF Init, TypeInv, TypeOK, KnowsJob, HasIteration, TurnPCs, WorkerPCs, Statuses

\* Every variable keeps its type, at every value of the constants.
THEOREM TypeCorrect == Spec => []TypeOK
<1>1. TypeInv => TypeOK
  BY DEF TypeInv
<1> QED BY TypeInit, TypeStep, <1>1, PTL DEF Spec
-----------------------------------------------------------------------------
(* The lease: rows are held by one live worker, in time.                   *)

LeaseInv ==
  /\ TypeInv
  /\ RowIffEnqueued
  /\ NeverStolen
  /\ HeldInTime
  /\ ExclusiveHolder
  /\ ClosedFailed

\* A row that some worker holds is not stale, so a reclaim passes it over.
LEMMA HeldNotStale ==
  ASSUME LeaseInv, NEW w \in Workers, wpc[w] \in Holding
  PROVE  ~Stale(wjob[w])
<1>1. After(wpc[w]) \in Nat
  BY TypeAssumption DEF After
<1>2. /\ left[w] \in Nat /\ updated[wjob[w]] \in Nat
      /\ updated[wjob[w]] + left[w] + After(wpc[w]) <= WorkBound
  BY TypeAssumption DEF LeaseInv, TypeInv, TypeOK, KnowsJob, HeldInTime
<1>3. WorkBound \in Nat /\ StaleSeconds \in Nat /\ WorkBound < StaleSeconds
  BY TypeAssumption, LeaseAssumption DEF WorkBound
<1>4. updated[wjob[w]] < StaleSeconds
  BY <1>1, <1>2, <1>3
<1> QED BY <1>2, <1>3, <1>4 DEF Stale

LEMMA LeaseStep == LeaseInv /\ [Next]_vars => LeaseInv'
<1> SUFFICES ASSUME LeaseInv, [Next]_vars PROVE LeaseInv'
  OBVIOUS
<1>t. TypeInv /\ TypeInv'
  BY TypeStep DEF LeaseInv
<1> DEFINE Kept == RowIffEnqueued' /\ NeverStolen' /\ HeldInTime' /\ ExclusiveHolder' /\ ClosedFailed'
<1> SUFFICES Kept
  BY <1>t DEF LeaseInv
<1> USE <1>t, TypeAssumption DEF LeaseInv, TypeInv, TypeOK, KnowsJob, RowIffEnqueued,
        NeverStolen, HeldInTime, ExclusiveHolder, ClosedFailed, After, WorkBound,
        turnVars, rowVars, workerVars, faultVars
<1>1. ASSUME NEW t \in Turns, Enqueue(t) PROVE Kept
  <2>1. CASE BeginEnqueue(t)
    BY <2>1 DEF BeginEnqueue
  <2>2. CASE CheckDedup(t)
    BY <2>2 DEF CheckDedup
  <2>3. CASE CheckRate(t)
    BY <2>3 DEF CheckRate
  <2>4. CASE InsertJob(t)
    BY <2>4 DEF InsertJob
  <2>5. CASE EnqueueDbError(t)
    BY <2>5 DEF EnqueueDbError
  <2> QED BY <1>1, <2>1, <2>2, <2>3, <2>4, <2>5 DEF Enqueue
<1>2. ASSUME NEW w \in Workers, Work(w) PROVE Kept
  <2>1. CASE Reclaim(w)
    <3>1. \A v \in Workers : wpc[v] \in Holding => ~Stale(wjob[v])
      BY HeldNotStale
    <3>2. \A v \in Workers : wpc'[v] \in Holding =>
            /\ wpc[v] \in Holding /\ wjob'[v] = wjob[v] /\ left'[v] = left[v]
            /\ wpc'[v] = wpc[v]
      BY <2>1 DEF Reclaim, Goto
    <3>3. RowIffEnqueued'
      BY <2>1 DEF Reclaim, Stale
    <3>4. NeverStolen'
      BY <2>1, <3>1, <3>2 DEF Reclaim
    <3>5. HeldInTime'
      BY <2>1, <3>1, <3>2 DEF Reclaim
    <3>6. ExclusiveHolder'
      BY <3>2
    <3>7. ClosedFailed'
      BY <2>1 DEF Reclaim, Goto, Stale
    <3> QED BY <3>3, <3>4, <3>5, <3>6, <3>7
  <2>2. CASE Select(w)
    BY <2>2, SMTT(40) DEF Select, Goto, EndBatch
  <2>3. CASE Claim(w)
    BY <2>3, SMTT(40) DEF Claim, Goto, EndBatch, Claimable
  <2>4. CASE Load(w)
    BY <2>4, SMTT(40) DEF Load, Goto
  <2>5. CASE Evaluate(w)
    BY <2>5, SMTT(40) DEF Evaluate, Goto
  <2>6. CASE Apply(w)
    BY <2>6, SMTT(40) DEF Apply, Goto
  <2>7. CASE SetDone(w)
    BY <2>7 DEF SetDone, Settle, NextIteration, Goto
  <2>8. CASE SetFailed(w)
    BY <2>8 DEF SetFailed, Settle, Goto
  <2>9. CASE CommitTrace(w)
    BY <2>9 DEF CommitTrace, NextIteration, Goto
  <2>10. CASE SetFailedByGuard(w)
    BY <2>10 DEF SetFailedByGuard, Settle, NextIteration, Goto
  <2> QED BY <1>2, <2>1, <2>2, <2>3, <2>4, <2>5, <2>6, <2>7, <2>8, <2>9, <2>10 DEF Work
<1>3. ASSUME NEW w \in Workers, Fault(w) PROVE Kept
  <2>1. CASE SetFailedRaises(w)
    BY <2>1 DEF SetFailedRaises, Goto
  <2>2. CASE Raise(w)
    BY <2>2 DEF Raise, LeaveTo, Goto
  <2>3. CASE Kill(w)
    BY <2>3 DEF Kill, LeaveTo, Goto
  <2>4. CASE TraceRaises(w)
    <3>1. CASE wpc[w] = "trace" /\ Goto(w, "failagain", DbSeconds)
      <4>1. RowIffEnqueued' /\ NeverStolen' /\ ExclusiveHolder' /\ ClosedFailed'
        BY <2>4, <3>1 DEF TraceRaises, Goto
      <4>2. HeldInTime'
        BY <2>4, <3>1 DEF TraceRaises, Goto
      <4> QED BY <4>1, <4>2
    <3>2. CASE wpc[w] = "closing" /\ Goto(w, "refail", 0)
      <4>1. RowIffEnqueued' /\ NeverStolen' /\ ExclusiveHolder' /\ ClosedFailed'
        BY <2>4, <3>2 DEF TraceRaises, Goto
      <4>2. HeldInTime'
        BY <2>4, <3>2 DEF TraceRaises, Goto
      <4> QED BY <4>1, <4>2
    <3> QED BY <2>4, <3>1, <3>2 DEF TraceRaises
  <2> QED BY <1>3, <2>1, <2>2, <2>3, <2>4 DEF Fault
<1>4. ASSUME NEW w \in Workers, Restart(w) PROVE Kept
  BY <1>4 DEF Restart
<1>5. CASE Tick
  BY <1>5 DEF Tick, Older
<1>6. CASE UNCHANGED vars
  BY <1>6 DEF vars
<1> QED BY <1>1, <1>2, <1>3, <1>4, <1>5, <1>6 DEF Next

LEMMA LeaseInit == Init => LeaseInv
BY TypeInit DEF Init, LeaseInv, RowIffEnqueued, NeverStolen, HeldInTime, ExclusiveHolder,
   ClosedFailed

LEMMA LeaseInvariant == Spec => []LeaseInv
BY LeaseInit, LeaseStep, PTL DEF Spec

\* A live evaluation is never stolen.
THEOREM LiveEvaluationsNeverStolen == Spec => []NeverStolen
<1>1. LeaseInv => NeverStolen
  BY DEF LeaseInv
<1> QED BY LeaseInvariant, <1>1, PTL

\* No two workers ever hold the same job.
THEOREM OneHolderPerJob == Spec => []ExclusiveHolder
<1>1. LeaseInv => ExclusiveHolder
  BY DEF LeaseInv
<1> QED BY LeaseInvariant, <1>1, PTL
\* A settled job stays settled: no claim, reclaim or late write of a worker
\* changes the status of a job that is done or failed.
THEOREM SettledForGood == Spec => TerminalStable
<1>1. LeaseInv /\ [Next]_vars
      => [\A t \in Turns : status[t] \in Terminal => status'[t] = status[t]]_vars
  <2> DEFINE Stays == \A t \in Turns : status[t] \in Terminal => status'[t] = status[t]
  <2> SUFFICES ASSUME LeaseInv, Next PROVE Stays
    BY DEF vars, rowVars
  <2> USE DEF LeaseInv, TypeInv, TypeOK, KnowsJob, NeverStolen, ClosedFailed, RowIffEnqueued,
          turnVars, rowVars, workerVars, faultVars
  <2>1. ASSUME NEW t \in Turns, Enqueue(t) PROVE Stays
    <3>1. CASE InsertJob(t)
      BY <3>1 DEF InsertJob
    <3>2. CASE ~InsertJob(t)
      BY <2>1, <3>2 DEF Enqueue, BeginEnqueue, CheckDedup, CheckRate, EnqueueDbError
    <3> QED BY <3>1, <3>2
  <2>2. ASSUME NEW w \in Workers, Work(w) PROVE Stays
    <3>1. CASE Reclaim(w)
      BY <3>1 DEF Reclaim, Stale
    <3>2. CASE Claim(w)
      BY <3>2 DEF Claim, Claimable
    <3>3. CASE SetDone(w) \/ SetFailed(w) \/ SetFailedByGuard(w)
      BY <3>3 DEF SetDone, SetFailed, SetFailedByGuard, Settle
    <3>4. CASE Select(w) \/ Load(w) \/ Evaluate(w) \/ Apply(w) \/ CommitTrace(w)
      BY <3>4 DEF Select, Load, Evaluate, Apply, CommitTrace
    <3> QED BY <2>2, <3>1, <3>2, <3>3, <3>4 DEF Work
  <2>3. ASSUME NEW w \in Workers, Fault(w) \/ Restart(w) PROVE Stays
    BY <2>3 DEF Fault, SetFailedRaises, TraceRaises, Raise, Kill, LeaveTo, Restart
  <2>4. CASE Tick
    BY <2>4 DEF Tick
  <2> QED BY <2>1, <2>2, <2>3, <2>4 DEF Next
<1> QED BY LeaseInvariant, <1>1, PTL DEF Spec, TerminalStable

-----------------------------------------------------------------------------
(* How often a job is written.                                             *)

LEMMA WritesStep == LeaseInv /\ WritesBounded /\ [Next]_vars => WritesBounded'
<1> SUFFICES ASSUME LeaseInv, WritesBounded, [Next]_vars, NEW t \in Turns
             PROVE  (written[t] <= kills + dbErrors + (IF Settled(t) THEN 1 ELSE 0))'
  BY DEF WritesBounded
<1>t. LeaseInv /\ LeaseInv'
  BY LeaseStep
<1> DEFINE Bound == kills + dbErrors + (IF Settled(t) THEN 1 ELSE 0)
<1> USE TypeAssumption DEF turnVars, rowVars, workerVars, faultVars
<1>n. /\ kills \in Nat /\ dbErrors \in Nat /\ written[t] \in Nat
      /\ kills' \in Nat /\ dbErrors' \in Nat /\ written'[t] \in Nat
  BY <1>t DEF LeaseInv, TypeInv, TypeOK
<1>b. written[t] <= Bound
  BY DEF WritesBounded
\* Nothing is written, nobody is lost, and a settled job stays settled.
<1>k. ASSUME written'[t] = written[t], kills' = kills, dbErrors' = dbErrors,
             Settled(t) => Settled(t)'
      PROVE  written'[t] <= Bound'
  BY <1>n, <1>b, <1>k
\* A worker is lost: the bound grows by one, which covers its write.
<1>l. ASSUME written'[t] = written[t], kills' + dbErrors' = kills + dbErrors + 1
      PROVE  written'[t] <= Bound'
  <2>1. written[t] <= kills + dbErrors + 1
    BY <1>n, <1>b
  <2>2. written'[t] <= kills' + dbErrors'
    BY <1>n, <1>l, <2>1
  <2>3. CASE Settled(t)'
    BY <1>n, <2>2, <2>3
  <2>4. CASE ~Settled(t)'
    BY <1>n, <2>2, <2>4
  <2> QED BY <2>3, <2>4
<1>1. ASSUME NEW u \in Turns, Enqueue(u) PROVE written'[t] <= Bound'
  <2>1. Settled(t) => Settled(t)'
    BY <1>1, <1>t DEF Enqueue, BeginEnqueue, CheckDedup, CheckRate, InsertJob, EnqueueDbError,
       Settled, LeaseInv, TypeInv, TypeOK, RowIffEnqueued
  <2> QED BY <1>1, <2>1, <1>k DEF Enqueue, BeginEnqueue, CheckDedup, CheckRate, InsertJob,
          EnqueueDbError
<1>2. ASSUME NEW w \in Workers, Work(w) PROVE written'[t] <= Bound'
  <2>1. CASE Reclaim(w)
    <3>1. Settled(t) => Settled(t)'
      BY <2>1, <1>t DEF Reclaim, Goto, Stale, Settled, LeaseInv, TypeInv, TypeOK
    <3> QED BY <2>1, <3>1, <1>k DEF Reclaim
  <2>2. CASE Select(w)
    <3>1. Settled(t) => Settled(t)'
      BY <2>2, <1>t DEF Select, Goto, EndBatch, Settled, LeaseInv, TypeInv, TypeOK
    <3> QED BY <2>2, <3>1, <1>k DEF Select
  <2>3. CASE Claim(w)
    <3>1. Settled(t) => Settled(t)'
      BY <2>3, <1>t DEF Claim, Claimable, Goto, EndBatch, Settled, LeaseInv, TypeInv, TypeOK,
         NeverStolen
    <3> QED BY <2>3, <3>1, <1>k DEF Claim
  <2>4. CASE Load(w) \/ Evaluate(w)
    <3>1. Settled(t) => Settled(t)'
      BY <2>4, <1>t DEF Load, Evaluate, Goto, Settled, LeaseInv, TypeInv, TypeOK
    <3> QED BY <2>4, <3>1, <1>k DEF Load, Evaluate
  <2>5. CASE Apply(w)
    <3>1. CASE wjob[w] = t /\ written' = [written EXCEPT ![wjob[w]] = @ + 1]
      <4>1. ~Settled(t)
        BY <2>5, <3>1, <1>t DEF Apply, Settled, LeaseInv, NeverStolen, ExclusiveHolder
      <4>2. Settled(t)'
        BY <2>5, <3>1, <1>t DEF Apply, Goto, Settled, LeaseInv, TypeInv, TypeOK
      <4>3. written'[t] = written[t] + 1
        BY <3>1, <1>t DEF LeaseInv, TypeInv, TypeOK
      <4> QED BY <2>5, <4>1, <4>2, <4>3, <1>n, <1>b DEF Apply
    <3>2. CASE ~(wjob[w] = t /\ written' = [written EXCEPT ![wjob[w]] = @ + 1])
      <4>1. Settled(t) => Settled(t)'
        BY <2>5, <1>t DEF Apply, Goto, Settled, LeaseInv, TypeInv, TypeOK
      <4>2. written'[t] = written[t]
        BY <2>5, <3>2, <1>t DEF Apply, LeaseInv, TypeInv, TypeOK
      <4> QED BY <2>5, <4>1, <4>2, <1>k DEF Apply
    <3> QED BY <3>1, <3>2
  <2>6. CASE SetDone(w)
    <3>1. Settled(t) => Settled(t)'
      BY <2>6, <1>t DEF SetDone, Settle, NextIteration, Goto, Settled, LeaseInv, TypeInv, TypeOK,
         KnowsJob
    <3> QED BY <2>6, <3>1, <1>k DEF SetDone, Settle
  <2>7. CASE SetFailed(w)
    <3>1. Settled(t) => Settled(t)'
      BY <2>7, <1>t DEF SetFailed, Settle, Goto, Settled, LeaseInv, TypeInv,
         TypeOK, KnowsJob, NeverStolen, ExclusiveHolder
    <3> QED BY <2>7, <3>1, <1>k DEF SetFailed, Settle
  <2>8. CASE SetFailedByGuard(w)
    <3>1. Settled(t) => Settled(t)'
      BY <2>8, <1>t DEF SetFailedByGuard, Settle, NextIteration, Goto, Settled, LeaseInv, TypeInv,
         TypeOK, KnowsJob, NeverStolen, ExclusiveHolder, ClosedFailed
    <3> QED BY <2>8, <3>1, <1>k DEF SetFailedByGuard, Settle
  <2>9. CASE CommitTrace(w)
    <3>1. Settled(t) => Settled(t)'
      BY <2>9, <1>t DEF CommitTrace, NextIteration, Goto, Settled, LeaseInv, TypeInv, TypeOK
    <3> QED BY <2>9, <3>1, <1>k DEF CommitTrace
  <2> QED BY <1>2, <2>1, <2>2, <2>3, <2>4, <2>5, <2>6, <2>7, <2>8, <2>9 DEF Work
<1>3. ASSUME NEW w \in Workers, Fault(w) PROVE written'[t] <= Bound'
  <2>1. written'[t] = written[t] /\ kills' + dbErrors' = kills + dbErrors + 1
    BY <1>3, <1>n DEF Fault, SetFailedRaises, TraceRaises, Raise, Kill, LeaveTo
  <2> QED BY <2>1, <1>l
<1>4. ASSUME NEW w \in Workers, Restart(w) PROVE written'[t] <= Bound'
  <2>1. Settled(t) => Settled(t)'
    BY <1>4, <1>t DEF Restart, Settled, LeaseInv, TypeInv, TypeOK
  <2> QED BY <1>4, <2>1, <1>k DEF Restart
<1>5. CASE Tick
  <2>1. Settled(t) => Settled(t)'
    BY <1>5 DEF Tick, Settled
  <2> QED BY <1>5, <2>1, <1>k DEF Tick
<1>6. CASE UNCHANGED vars
  <2>1. Settled(t) => Settled(t)'
    BY <1>6 DEF vars, Settled
  <2> QED BY <1>6, <2>1, <1>k DEF vars
<1> QED BY <1>1, <1>2, <1>3, <1>4, <1>5, <1>6 DEF Next

\* A job is written at most once, plus once for each worker killed and each
\* sqlite error; a job that failed was written only where one of those hit.
THEOREM WrittenOncePerFault == Spec => []WritesBounded
<1>1. Init => WritesBounded
  BY DEF Init, WritesBounded, Settled
<1> QED BY LeaseInvariant, WritesStep, <1>1, PTL DEF Spec
-----------------------------------------------------------------------------
(* The order of claims.                                                    *)

RowsNumbered == \A t \in Turns : status[t] # "absent" => rowid[t] <= lastRow

\* Every running job has its worker.
NoOrphan ==
  \A t \in Turns : status[t] = "running" =>
    \E w \in Workers : wpc[w] \in Holding /\ wjob[w] = t

\* A worker about to claim has the oldest pending job, or one that is taken.
SelectedOldest ==
  \A w \in Workers : wpc[w] = "claim" =>
    /\ status[wjob[w]] # "absent"
    /\ status[wjob[w]] = "pending" =>
         \A u \in Turns : status[u] = "pending" => rowid[wjob[w]] <= rowid[u]

InOrder == kills = 0 /\ dbErrors = 0 => NoOrphan /\ SelectedOldest

OrderInv == LeaseInv /\ RowsNumbered /\ InOrder

\* Without orphans a reclaim finds nothing to reclaim.
LEMMA NothingStale ==
  ASSUME LeaseInv, NoOrphan
  PROVE  \A t \in Turns : ~Stale(t)
<1> SUFFICES ASSUME NEW t \in Turns, Stale(t) PROVE FALSE
  OBVIOUS
<1>1. PICK w \in Workers : wpc[w] \in Holding /\ wjob[w] = t
  BY DEF Stale, NoOrphan
<1> QED BY <1>1, HeldNotStale

LEMMA NumberedStep == LeaseInv /\ RowsNumbered /\ [Next]_vars => RowsNumbered'
<1> SUFFICES ASSUME LeaseInv, RowsNumbered, [Next]_vars PROVE RowsNumbered'
  OBVIOUS
<1> USE DEF RowsNumbered, LeaseInv, TypeInv, TypeOK, KnowsJob, turnVars, rowVars, workerVars,
        faultVars
<1>1. ASSUME NEW t \in Turns, Enqueue(t) PROVE RowsNumbered'
  <2>1. CASE InsertJob(t)
    BY <2>1 DEF InsertJob
  <2>2. CASE ~InsertJob(t)
    BY <1>1, <2>2 DEF Enqueue, BeginEnqueue, CheckDedup, CheckRate, EnqueueDbError
  <2> QED BY <2>1, <2>2
<1>2. ASSUME NEW w \in Workers, Work(w) PROVE RowsNumbered'
  <2>1. CASE Reclaim(w)
    BY <2>1 DEF Reclaim, Stale
  <2>2. CASE Claim(w)
    BY <2>2 DEF Claim, Claimable
  <2>3. CASE SetDone(w) \/ SetFailed(w) \/ SetFailedByGuard(w)
    BY <2>3 DEF SetDone, SetFailed, SetFailedByGuard, Settle, NeverStolen, ClosedFailed
  <2>4. CASE Select(w) \/ Load(w) \/ Evaluate(w) \/ Apply(w) \/ CommitTrace(w)
    BY <2>4 DEF Select, Load, Evaluate, Apply, CommitTrace
  <2> QED BY <1>2, <2>1, <2>2, <2>3, <2>4 DEF Work
<1>3. ASSUME NEW w \in Workers, Fault(w) \/ Restart(w) PROVE RowsNumbered'
  BY <1>3 DEF Fault, SetFailedRaises, TraceRaises, Raise, Kill, LeaveTo, Restart
<1>4. CASE Tick \/ UNCHANGED vars
  BY <1>4 DEF Tick, vars
<1> QED BY <1>1, <1>2, <1>3, <1>4 DEF Next

LEMMA OrderStep == OrderInv /\ [Next]_vars => InOrder'
<1> SUFFICES ASSUME OrderInv, [Next]_vars, kills' = 0, dbErrors' = 0
             PROVE  NoOrphan' /\ SelectedOldest'
  BY DEF InOrder
<1> DEFINE Kept == NoOrphan' /\ SelectedOldest'
<1>c. /\ kills \in Nat /\ dbErrors \in Nat
      /\ \A w \in Workers : ~Fault(w)
  <2>1. kills \in Nat /\ dbErrors \in Nat
    BY DEF OrderInv, LeaseInv, TypeInv, TypeOK
  <2> QED BY <2>1 DEF Fault, SetFailedRaises, TraceRaises, Raise, Kill, LeaveTo
<1>o. NoOrphan /\ SelectedOldest /\ LeaseInv /\ RowsNumbered
  <2>1. kills = 0 /\ dbErrors = 0
    BY <1>c DEF Next, Enqueue, BeginEnqueue, CheckDedup, CheckRate, InsertJob, EnqueueDbError,
       Work, Reclaim, Select, Claim, Load, Evaluate, Apply, CommitTrace, SetDone, SetFailed,
       SetFailedByGuard, Settle, Restart, Tick, vars, faultVars
  <2> QED BY <2>1 DEF OrderInv, InOrder
<1>s. \A t \in Turns : ~Stale(t)
  BY <1>o, NothingStale
<1> USE <1>o DEF NoOrphan, SelectedOldest, LeaseInv, TypeInv, TypeOK, KnowsJob, NeverStolen,
        turnVars, rowVars, workerVars, faultVars
<1>1. ASSUME NEW t \in Turns, Enqueue(t) PROVE Kept
  <2>1. CASE InsertJob(t)
    <3>1. status[t] = "absent" /\ rowid' = [rowid EXCEPT ![t] = lastRow + 1]
      BY <2>1 DEF InsertJob, RowIffEnqueued
    <3>2. \A u \in Turns : status[u] # "absent" => rowid[u] <= lastRow
      BY DEF RowsNumbered
    <3>3. \A w \in Workers : wpc'[w] = "claim" => wjob[w] \in Turns /\ wjob[w] # t
      BY <2>1, <3>1 DEF InsertJob
    <3>4. NoOrphan'
      BY <2>1, <3>1 DEF InsertJob
    <3>5. SelectedOldest'
      BY <2>1, <3>1, <3>2, <3>3 DEF InsertJob
    <3> QED BY <3>4, <3>5
  <2>2. CASE ~InsertJob(t)
    BY <1>1, <2>2 DEF Enqueue, BeginEnqueue, CheckDedup, CheckRate, EnqueueDbError
  <2> QED BY <2>1, <2>2
<1>2. ASSUME NEW w \in Workers, Work(w) PROVE Kept
  <2>1. CASE Reclaim(w)
    <3>1. status' = status
      BY <2>1, <1>s DEF Reclaim
    <3> QED BY <2>1, <3>1 DEF Reclaim, Goto
  <2>2. CASE Select(w)
    BY <2>2 DEF Select, Goto, EndBatch, OldestPending
  <2>3. CASE Claim(w)
    <3>1. NoOrphan'
      BY <2>3 DEF Claim, Claimable, Goto, EndBatch
    <3>2. SelectedOldest'
      BY <2>3 DEF Claim, Claimable, Goto, EndBatch
    <3> QED BY <3>1, <3>2
  <2>4. CASE Load(w) \/ Evaluate(w) \/ Apply(w) \/ CommitTrace(w)
    BY <2>4 DEF Load, Evaluate, Apply, CommitTrace, NextIteration, Goto
  <2>5. CASE SetDone(w) \/ SetFailed(w) \/ SetFailedByGuard(w)
    <3>1. NoOrphan'
      BY <2>5 DEF SetDone, SetFailed, SetFailedByGuard, Settle, NextIteration, Goto, ClosedFailed
    <3>2. SelectedOldest'
      BY <2>5 DEF SetDone, SetFailed, SetFailedByGuard, Settle, NextIteration, Goto, ClosedFailed
    <3> QED BY <3>1, <3>2
  <2> QED BY <1>2, <2>1, <2>2, <2>3, <2>4, <2>5 DEF Work
<1>3. ASSUME NEW w \in Workers, Restart(w) PROVE Kept
  BY <1>3 DEF Restart
<1>4. CASE Tick \/ UNCHANGED vars
  BY <1>4 DEF Tick, vars
<1> QED BY <1>1, <1>2, <1>3, <1>4, <1>c DEF Next

LEMMA OrderInvariant == Spec => []OrderInv
<1>1. Init => OrderInv
  BY LeaseInit DEF Init, OrderInv, RowsNumbered, InOrder, NoOrphan, SelectedOldest
<1>2. OrderInv /\ [Next]_vars => OrderInv'
  BY LeaseStep, NumberedStep, OrderStep DEF OrderInv
<1> QED BY <1>1, <1>2, PTL DEF Spec

\* While no worker is lost, jobs are claimed in the order of their rows: the
\* SELECT and the UPDATE of a claim are two steps, but between them the older
\* jobs can only go, and a younger one gets a higher id.
THEOREM OldestFirst == Spec => ClaimsInOrder
<1> DEFINE First == kills = 0 /\ dbErrors = 0 =>
             \A t, u \in Turns :
               /\ status[t] = "pending" /\ status'[t] = "running"
               /\ status[u] = "pending"
               => rowid[t] <= rowid[u]
<1>1. OrderInv /\ [Next]_vars => [First]_vars
  <2> SUFFICES ASSUME OrderInv, Next, kills = 0, dbErrors = 0,
                      NEW t \in Turns, NEW u \in Turns,
                      status[t] = "pending", status'[t] = "running", status[u] = "pending"
               PROVE  rowid[t] <= rowid[u]
    OBVIOUS
  <2> USE DEF OrderInv, LeaseInv, TypeInv, TypeOK, KnowsJob, turnVars, rowVars, workerVars,
          faultVars
  <2>1. PICK w \in Workers : Claim(w)
    BY ZenonT(40) DEF Next, Enqueue, BeginEnqueue, CheckDedup, CheckRate, InsertJob, EnqueueDbError,
       Work, Reclaim, Stale, Select, Load, Evaluate, Apply, CommitTrace, SetDone, SetFailed,
       SetFailedByGuard, Settle, Fault, SetFailedRaises, TraceRaises, Raise, Kill, LeaveTo, Restart, Tick
  <2>2. wpc[w] = "claim" /\ wjob[w] = t
    BY <2>1 DEF Claim
  <2> QED BY <2>2 DEF InOrder, SelectedOldest
<1> QED BY OrderInvariant, <1>1, PTL DEF Spec, ClaimsInOrder

-----------------------------------------------------------------------------
(* How many jobs a burst of turns leaves.                                  *)

AtMost(S, n) == IsFiniteSet(S) /\ Cardinality(S) <= n

Busy == {u \in Turns : tpc[u] \in Checking}

\* The turns that have passed the dedup check, and those that have also
\* passed the rate check, but have not inserted yet.
Passed(s) == {t \in Turns : tpc[t] \in {"rate", "insert"} /\ scope[t] = s}
Inserting(s) == {t \in Turns : tpc[t] = "insert" /\ scope[t] = s}

LastHour(s) == {t \in Row(s) : created[t] < HourSeconds}

\* A turn that passed a check counts as the row it may still insert.
Burst(s) == OpenRecent(s) \cup Passed(s)
Hour(s) == LastHour(s) \cup Inserting(s)

CountInv ==
  /\ AtMost(Busy, EnqueueThreads)
  /\ \A s \in Scopes :
       /\ AtMost(Burst(s), EnqueueThreads)
       /\ AtMost(Hour(s), MaxPerHour + EnqueueThreads - 1)

LEMMA FewerAtMost ==
  ASSUME NEW S, NEW T, NEW n \in Nat, T \subseteq S, AtMost(S, n)
  PROVE  AtMost(T, n)
<1>1. IsFiniteSet(T) /\ Cardinality(T) <= Cardinality(S)
  BY FS_Subset DEF AtMost
<1>2. Cardinality(T) \in Nat /\ Cardinality(S) \in Nat
  BY <1>1, FS_CardinalityType DEF AtMost
<1> QED BY <1>1, <1>2 DEF AtMost

LEMMA BothAtMost ==
  ASSUME NEW S, NEW T, NEW m \in Nat, NEW n \in Nat, AtMost(S, m), AtMost(T, n)
  PROVE  AtMost(S \cup T, m + n)
<1>1. /\ IsFiniteSet(S \cup T)
      /\ Cardinality(S \cup T) = Cardinality(S) + Cardinality(T) - Cardinality(S \cap T)
  BY FS_Union DEF AtMost
<1>2. IsFiniteSet(S \cap T)
  BY FS_Intersection DEF AtMost
<1>3. Cardinality(S) \in Nat /\ Cardinality(T) \in Nat /\ Cardinality(S \cap T) \in Nat
  BY <1>2, FS_CardinalityType DEF AtMost
<1> QED BY <1>1, <1>3 DEF AtMost

LEMMA Bounds ==
  /\ EnqueueThreads \in Nat /\ MaxPerHour \in Nat /\ MaxPerHour - 1 \in Nat
  /\ MaxPerHour + EnqueueThreads - 1 \in Nat
BY TypeAssumption

\* A step that makes nobody busy, passes no check and revives no row.
LEMMA NoMoreCounted ==
  ASSUME CountInv, Busy' \subseteq Busy,
         \A s \in Scopes : Burst(s)' \subseteq Burst(s) /\ Hour(s)' \subseteq Hour(s)
  PROVE  CountInv'
<1>1. AtMost(Busy', EnqueueThreads)
  BY Bounds, FewerAtMost DEF CountInv
<1>2. ASSUME NEW s \in Scopes
      PROVE  AtMost(Burst(s)', EnqueueThreads)
             /\ AtMost(Hour(s)', MaxPerHour + EnqueueThreads - 1)
  BY Bounds, FewerAtMost DEF CountInv
<1> QED BY <1>1, <1>2 DEF CountInv, AtMost

\* Rows are neither added, revived nor made younger, and turns stand still.
LEMMA RowsAge ==
  ASSUME CountInv, UNCHANGED turnVars,
         \A t \in Turns :
           /\ status'[t] = "absent" <=> status[t] = "absent"
           /\ status[t] \in Terminal => status'[t] \in Terminal
           /\ status[t] # "absent" =>
                /\ created'[t] < DedupSeconds => created[t] < DedupSeconds
                /\ created'[t] < HourSeconds => created[t] < HourSeconds
  PROVE  CountInv'
<1>1. Busy' \subseteq Busy
  BY DEF Busy, turnVars
<1>2. ASSUME NEW s \in Scopes
      PROVE  Burst(s)' \subseteq Burst(s) /\ Hour(s)' \subseteq Hour(s)
  BY DEF Burst, Hour, OpenRecent, Passed, Inserting, LastHour, Row, turnVars
<1> QED BY <1>1, <1>2, NoMoreCounted

LEMMA EnqueueCounts ==
  ASSUME LeaseInv, CountInv, NEW t \in Turns, Enqueue(t)
  PROVE  CountInv'
<1> USE DEF LeaseInv, TypeInv, TypeOK, turnVars, rowVars, workerVars, faultVars
<1>b. /\ AtMost(Busy, EnqueueThreads)
      /\ \A s \in Scopes : /\ AtMost(Burst(s), EnqueueThreads)
                           /\ AtMost(Hour(s), MaxPerHour + EnqueueThreads - 1)
  BY DEF CountInv
<1>1. CASE BeginEnqueue(t)
  <2>1. PICK next \in {"skipped", "dedup"} : tpc' = [tpc EXCEPT ![t] = next]
    BY <1>1 DEF BeginEnqueue
  <2>2. Cardinality(Busy) < EnqueueThreads /\ UNCHANGED <<scope, rowVars>> /\ tpc[t] = "idle"
    BY <1>1 DEF BeginEnqueue, Busy
  <2>3. Busy' \subseteq Busy \cup {t}
    BY <2>1 DEF Busy
  <2>4. AtMost(Busy \cup {t}, EnqueueThreads)
    <3>1. /\ IsFiniteSet(Busy \cup {t})
          /\ Cardinality(Busy \cup {t}) =
               IF t \in Busy THEN Cardinality(Busy) ELSE Cardinality(Busy) + 1
      BY <1>b, FS_AddElement DEF AtMost
    <3>2. Cardinality(Busy) \in Nat
      BY <1>b, FS_CardinalityType DEF AtMost
    <3> QED BY <3>1, <3>2, <2>2, Bounds DEF AtMost
  <2>5. AtMost(Busy', EnqueueThreads)
    BY <2>3, <2>4, Bounds, FewerAtMost
  <2>6. \A s \in Scopes : Burst(s)' = Burst(s) /\ Hour(s)' = Hour(s)
    BY <2>1, <2>2 DEF Burst, Hour, OpenRecent, Passed, Inserting, LastHour, Row
  <2> QED BY <2>5, <2>6, <1>b DEF CountInv, AtMost
<1>2. CASE CheckDedup(t)
  <2>1. CASE HasPendingJob(scope[t])
    <3>1. Busy' \subseteq Busy
      BY <1>2, <2>1 DEF CheckDedup, Busy
    <3>2. \A s \in Scopes : Burst(s)' \subseteq Burst(s) /\ Hour(s)' \subseteq Hour(s)
      BY <1>2, <2>1 DEF CheckDedup, Burst, Hour, OpenRecent, Passed, Inserting, LastHour, Row
    <3> QED BY <3>1, <3>2, NoMoreCounted
  <2>2. CASE ~HasPendingJob(scope[t])
    <3>1. Busy' = Busy
      BY <1>2, <2>2 DEF CheckDedup, Busy
    <3>2. ASSUME NEW s \in Scopes PROVE AtMost(Burst(s)', EnqueueThreads)
      <4>1. CASE s = scope[t]
        <5>1. OpenRecent(s)' = {}
          BY <1>2, <2>2, <4>1 DEF CheckDedup, OpenRecent, HasPendingJob, Row, Statuses
        <5>2. Burst(s)' \subseteq Busy
          BY <5>1, <3>1 DEF Burst, Passed, Busy
        <5> QED BY <5>2, <1>b, Bounds, FewerAtMost
      <4>2. CASE s # scope[t]
        <5>1. Burst(s)' \subseteq Burst(s)
          BY <1>2, <4>2 DEF CheckDedup, Burst, OpenRecent, Passed, Row
        <5> QED BY <5>1, <1>b, Bounds, FewerAtMost
      <4> QED BY <4>1, <4>2
    <3>3. \A s \in Scopes : Hour(s)' = Hour(s)
      BY <1>2, <2>2 DEF CheckDedup, Hour, Inserting, LastHour, Row
    <3> QED BY <3>1, <3>2, <3>3, <1>b DEF CountInv, AtMost
  <2> QED BY <2>1, <2>2
<1>3. CASE CheckRate(t)
  <2>1. CASE ExceedsRateLimit(scope[t])
    <3>1. Busy' \subseteq Busy
      BY <1>3, <2>1 DEF CheckRate, Busy
    <3>2. \A s \in Scopes : Burst(s)' \subseteq Burst(s) /\ Hour(s)' \subseteq Hour(s)
      BY <1>3, <2>1 DEF CheckRate, Burst, Hour, OpenRecent, Passed, Inserting, LastHour, Row
    <3> QED BY <3>1, <3>2, NoMoreCounted
  <2>2. CASE ~ExceedsRateLimit(scope[t])
    <3>1. Busy' = Busy
      BY <1>3, <2>2 DEF CheckRate, Busy
    <3>2. ASSUME NEW s \in Scopes
          PROVE  AtMost(Hour(s)', MaxPerHour + EnqueueThreads - 1)
      <4>1. CASE s = scope[t]
        <5>1. LastHour(s) \subseteq Hour(s) /\ AtMost(Hour(s), MaxPerHour + EnqueueThreads - 1)
          BY <1>b DEF Hour
        <5>2. IsFiniteSet(LastHour(s)) /\ Cardinality(LastHour(s)) \in Nat
          BY <5>1, FS_Subset, FS_CardinalityType DEF AtMost
        <5>3. ~(Cardinality(LastHour(s)) >= MaxPerHour)
          BY <2>2, <4>1 DEF ExceedsRateLimit, LastHour
        <5>4. AtMost(LastHour(s), MaxPerHour - 1)
          BY <5>2, <5>3, Bounds DEF AtMost
        <5>5. Inserting(s)' \subseteq Busy
          BY <3>1 DEF Inserting, Busy
        <5>6. AtMost(Inserting(s)', EnqueueThreads)
          BY <5>5, <1>b, Bounds, FewerAtMost
        <5>7. AtMost(LastHour(s) \cup Inserting(s)', (MaxPerHour - 1) + EnqueueThreads)
          BY <5>4, <5>6, Bounds, BothAtMost
        <5>8. LastHour(s)' = LastHour(s)
          BY <1>3 DEF CheckRate, LastHour, Row
        <5>9. (MaxPerHour - 1) + EnqueueThreads = MaxPerHour + EnqueueThreads - 1
          BY Bounds
        <5> QED BY <5>7, <5>8, <5>9 DEF Hour
      <4>2. CASE s # scope[t]
        <5>1. Hour(s)' \subseteq Hour(s)
          BY <1>3, <4>2 DEF CheckRate, Hour, LastHour, Inserting, Row
        <5> QED BY <5>1, <1>b, Bounds, FewerAtMost
      <4> QED BY <4>1, <4>2
    <3>3. \A s \in Scopes : Burst(s)' = Burst(s)
      BY <1>3, <2>2 DEF CheckRate, Burst, OpenRecent, Passed, Row
    <3> QED BY <3>1, <3>2, <3>3, <1>b DEF CountInv, AtMost
  <2> QED BY <2>1, <2>2
<1>4. CASE InsertJob(t) \/ EnqueueDbError(t)
  <2>1. Busy' \subseteq Busy
    BY <1>4 DEF InsertJob, EnqueueDbError, Busy
  <2>2. \A s \in Scopes : Burst(s)' \subseteq Burst(s) /\ Hour(s)' \subseteq Hour(s)
    BY <1>4 DEF InsertJob, EnqueueDbError, Burst, Hour, OpenRecent, Passed, Inserting, LastHour,
       Row
  <2> QED BY <2>1, <2>2, NoMoreCounted
<1> QED BY <1>1, <1>2, <1>3, <1>4 DEF Enqueue

LEMMA CountStep == LeaseInv /\ CountInv /\ [Next]_vars => CountInv'
<1> SUFFICES ASSUME LeaseInv, CountInv, [Next]_vars PROVE CountInv'
  OBVIOUS
<1> USE DEF LeaseInv, TypeInv, TypeOK, KnowsJob, NeverStolen, turnVars, rowVars, workerVars,
        faultVars
<1>1. ASSUME NEW t \in Turns, Enqueue(t) PROVE CountInv'
  BY <1>1, EnqueueCounts
<1>2. ASSUME NEW w \in Workers, Work(w) PROVE CountInv'
  <2>1. CASE Reclaim(w)
    BY <2>1, RowsAge DEF Reclaim, Stale
  <2>2. CASE Claim(w)
    BY <2>2, RowsAge DEF Claim, Claimable
  <2>3. CASE SetDone(w) \/ SetFailed(w) \/ SetFailedByGuard(w)
    BY <2>3, RowsAge DEF SetDone, SetFailed, SetFailedByGuard, Settle, ClosedFailed
  <2>4. CASE Select(w) \/ Load(w) \/ Evaluate(w) \/ Apply(w) \/ CommitTrace(w)
    BY <2>4, RowsAge DEF Select, Load, Evaluate, Apply, CommitTrace
  <2> QED BY <1>2, <2>1, <2>2, <2>3, <2>4 DEF Work
<1>3. ASSUME NEW w \in Workers, Fault(w) \/ Restart(w) PROVE CountInv'
  BY <1>3, RowsAge DEF Fault, SetFailedRaises, TraceRaises, Raise, Kill, LeaveTo, Restart
<1>4. CASE Tick
  <2>1. ASSUME NEW t \in Turns, status[t] # "absent"
        PROVE  created[t] \in Nat /\ created'[t] \in Nat /\ created[t] <= created'[t]
    BY <1>4, <2>1, TypeAssumption DEF Tick, Older
  <2>2. DedupSeconds \in Nat /\ HourSeconds \in Nat
    BY TypeAssumption
  <2>3. UNCHANGED turnVars /\ status' = status
    BY <1>4 DEF Tick
  <2> QED BY <2>1, <2>2, <2>3, RowsAge
<1>5. CASE UNCHANGED vars
  BY <1>5, RowsAge DEF vars
<1> QED BY <1>1, <1>2, <1>3, <1>4, <1>5 DEF Next

LEMMA CountInvariant == Spec => []CountInv
<1>1. Init => CountInv
  <2> SUFFICES ASSUME Init PROVE CountInv
    OBVIOUS
  <2>1. Busy = {} /\ \A s \in Scopes : Burst(s) = {} /\ Hour(s) = {}
    BY DEF Init, Busy, Burst, Hour, OpenRecent, Passed, Inserting, LastHour, Row
  <2>2. \A n \in Nat : AtMost({}, n)
    BY FS_EmptySet DEF AtMost
  <2> QED BY <2>1, <2>2, Bounds DEF CountInv
<1> QED BY LeaseInvariant, CountStep, <1>1, PTL DEF Spec

\* However many turns of one scope ask at once, the open jobs of the dedup
\* window are at most the turns the app runs at the same time.
THEOREM BurstIsBounded == Spec => []BurstBounded
<1>1. CountInv => BurstBounded
  <2> SUFFICES ASSUME CountInv, NEW s \in Scopes
               PROVE  Cardinality(OpenRecent(s)) <= EnqueueThreads
    BY DEF BurstBounded
  <2>1. OpenRecent(s) \subseteq Burst(s)
    BY DEF Burst
  <2> QED BY <2>1, Bounds, FewerAtMost DEF CountInv, AtMost
<1> QED BY CountInvariant, <1>1, PTL

\* And the jobs of an hour exceed the limit by less than that.
THEOREM HourIsBounded == Spec => []HourlyBounded
<1>1. CountInv => HourlyBounded
  <2> SUFFICES ASSUME CountInv, NEW s \in Scopes
               PROVE  Cardinality(LastHour(s)) <= MaxPerHour + EnqueueThreads - 1
    BY DEF HourlyBounded, LastHour
  <2>1. LastHour(s) \subseteq Hour(s)
    BY DEF Hour
  <2>2. AtMost(LastHour(s), MaxPerHour + EnqueueThreads - 1)
    BY <2>1, Bounds, FewerAtMost DEF CountInv
  <2> QED BY <2>2 DEF AtMost
<1> QED BY CountInvariant, <1>1, PTL

-----------------------------------------------------------------------------
(* The queue implements JobLease.                                          *)

\* A step that leaves every status, every holder and every write alone.
LEMMA LeaseStutter ==
  ASSUME \A t \in Turns : Phase(t)' = Phase(t) /\ Holders(t)' = Holders(t),
         written' = written
  PROVE  UNCHANGED Lease!leaseVars
BY DEF Lease!leaseVars

LEMMA HoldersKept ==
  ASSUME LeaseInv, NEW w \in Workers, NEW pc, NEW n,
         wpc[w] \in Holding, pc \in Holding, Goto(w, pc, n), wjob' = wjob
  PROVE  \A t \in Turns : Holders(t)' = Holders(t)
BY DEF LeaseInv, TypeInv, TypeOK, Goto, Holders

LEMMA NothingHeld ==
  ASSUME LeaseInv, NEW w \in Workers, NEW pc, NEW n,
         wpc[w] \notin Holding, pc \notin Holding, Goto(w, pc, n),
         \A v \in Workers \ {w} : wjob'[v] = wjob[v]
  PROVE  \A t \in Turns : Holders(t)' = Holders(t)
BY DEF LeaseInv, TypeInv, TypeOK, Goto, Holders

\* The holder of a job gives it up, and holds no other.
LEMMA HolderLeaves ==
  ASSUME LeaseInv, NEW w \in Workers, NEW pc, NEW n,
         wpc[w] \in Holding, pc \notin Holding, Goto(w, pc, n),
         \A v \in Workers \ {w} : wjob'[v] = wjob[v]
  PROVE  /\ wjob[w] \in Turns
         /\ Holders(wjob[w]) = {w}
         /\ \A t \in Turns : Holders(t)' = IF t = wjob[w] THEN {} ELSE Holders(t)
<1> USE DEF LeaseInv, TypeInv, TypeOK, KnowsJob, ExclusiveHolder, Goto
<1>1. wjob[w] \in Turns
  OBVIOUS
<1>2. Holders(wjob[w]) = {w}
  BY DEF Holders
<1>3. ASSUME NEW t \in Turns
      PROVE  Holders(t)' = IF t = wjob[w] THEN {} ELSE Holders(t)
  <2>1. CASE t = wjob[w]
    BY <2>1 DEF Holders
  <2>2. CASE t # wjob[w]
    BY <2>2 DEF Holders
  <2> QED BY <2>1, <2>2
<1> QED BY <1>1, <1>2, <1>3

LEMMA LeaseRefinedInit == Init => Lease!Init
BY DEF Init, Lease!Init, Phase, Holders

LEMMA LeaseRefinedStep == LeaseInv /\ [Next]_vars => [Lease!Next]_(Lease!leaseVars)
<1> SUFFICES ASSUME LeaseInv, [Next]_vars
             PROVE  Lease!Next \/ UNCHANGED Lease!leaseVars
  OBVIOUS
<1> USE DEF turnVars, rowVars, workerVars, faultVars
<1>t. TypeOK /\ KnowsJob /\ NeverStolen /\ RowIffEnqueued
  BY DEF LeaseInv, TypeInv
<1>1. ASSUME NEW t \in Turns, Enqueue(t) PROVE Lease!Next \/ UNCHANGED Lease!leaseVars
  <2>h. \A u \in Turns : Holders(u)' = Holders(u)
    BY <1>1 DEF Enqueue, BeginEnqueue, CheckDedup, CheckRate, InsertJob, EnqueueDbError, Holders
  <2>1. CASE InsertJob(t)
    <3>1. Phase(t) = "absent" /\ written' = written
      BY <2>1, <1>t DEF InsertJob, RowIffEnqueued, Phase
    <3>2. \A u \in Turns : Phase(u)' = IF u = t THEN "open" ELSE Phase(u)
      BY <2>1, <1>t DEF InsertJob, TypeOK, Phase
    <3>3. Lease!Submit(t)
      BY <2>h, <3>1, <3>2 DEF Lease!Submit
    <3> QED BY <3>3 DEF Lease!Next
  <2>2. CASE ~InsertJob(t)
    <3>1. status' = status /\ written' = written
      BY <1>1, <2>2 DEF Enqueue, BeginEnqueue, CheckDedup, CheckRate, EnqueueDbError
    <3>2. \A u \in Turns : Phase(u)' = Phase(u)
      BY <3>1 DEF Phase
    <3> QED BY <2>h, <3>1, <3>2, LeaseStutter
  <2> QED BY <2>1, <2>2
<1>2. ASSUME NEW w \in Workers, Work(w) PROVE Lease!Next \/ UNCHANGED Lease!leaseVars
  <2>1. CASE Reclaim(w)
    <3>1. \A t \in Turns : Phase(t)' = Phase(t)
      BY <2>1, <1>t DEF Reclaim, Stale, TypeOK, Phase
    <3>2. \A t \in Turns : Holders(t)' = Holders(t)
      BY <2>1, NothingHeld DEF Reclaim
    <3> QED BY <2>1, <3>1, <3>2, LeaseStutter DEF Reclaim
  <2>2. CASE Select(w)
    <3>1. \A t \in Turns : Phase(t)' = Phase(t)
      BY <2>2 DEF Select, Phase
    <3>2. \A t \in Turns : Holders(t)' = Holders(t)
      BY <2>2, <1>t, NothingHeld DEF Select, EndBatch, TypeOK
    <3> QED BY <2>2, <3>1, <3>2, LeaseStutter DEF Select
  <2>3. CASE Claim(w) /\ Claimable(wjob[w])
    <3> DEFINE t == wjob[w]
    <3>1. t \in Turns /\ status[t] = "pending" /\ status' = [status EXCEPT ![t] = "running"]
      BY <2>3, <1>t DEF Claim, Claimable, KnowsJob
    <3>2. Phase(t) = "open" /\ \A u \in Turns : Phase(u)' = Phase(u)
      BY <3>1, <1>t DEF Phase, TypeOK
    <3>3. Holders(t) = {}
      BY <3>1, <1>t DEF NeverStolen, Holders
    <3>4. \A u \in Turns : Holders(u)' = IF u = t THEN {w} ELSE Holders(u)
      <4>1. wpc' = [wpc EXCEPT ![w] = "load"] /\ wjob' = wjob /\ wpc[w] \notin Holding
        BY <2>3 DEF Claim, Goto
      <4>2. ASSUME NEW u \in Turns, u = t PROVE Holders(u)' = {w}
        BY <4>1, <4>2, <3>3, <1>t DEF TypeOK, Holders
      <4>3. ASSUME NEW u \in Turns, u # t PROVE Holders(u)' = Holders(u)
        BY <4>1, <4>3, <1>t DEF TypeOK, Holders
      <4> QED BY <4>2, <4>3
    <3>5. Lease!Acquire(w, t)
      BY <2>3, <3>1, <3>2, <3>3, <3>4 DEF Claim, Lease!Acquire
    <3> QED BY <3>1, <3>5 DEF Lease!Next
  <2>4. CASE Claim(w) /\ ~Claimable(wjob[w])
    <3>1. \A t \in Turns : Phase(t)' = Phase(t)
      BY <2>4 DEF Claim, Phase
    <3>2. \A t \in Turns : Holders(t)' = Holders(t)
      BY <2>4, <1>t, NothingHeld DEF Claim, EndBatch, TypeOK
    <3> QED BY <2>4, <3>1, <3>2, LeaseStutter DEF Claim
  <2>5. CASE Load(w) \/ Evaluate(w)
    <3>1. \A t \in Turns : Phase(t)' = Phase(t)
      BY <2>5 DEF Load, Evaluate, Phase
    <3>2. \A t \in Turns : Holders(t)' = Holders(t)
      BY <2>5, HoldersKept DEF Load, Evaluate
    <3> QED BY <2>5, <3>1, <3>2, LeaseStutter DEF Load, Evaluate
  <2>6. CASE Apply(w)
    <3>1. \A t \in Turns : Phase(t)' = Phase(t)
      BY <2>6 DEF Apply, Phase
    <3>2. \A t \in Turns : Holders(t)' = Holders(t)
      BY <2>6, HoldersKept DEF Apply
    <3>3. CASE written' = written
      BY <3>1, <3>2, <3>3, LeaseStutter
    <3>4. CASE written' = [written EXCEPT ![wjob[w]] = @ + 1]
      <4>1. wjob[w] \in Turns /\ Holders(wjob[w]) = {w} /\ Phase(wjob[w]) = "open"
        BY <2>6, <1>t DEF Apply, KnowsJob, NeverStolen, Holders, Phase, LeaseInv, ExclusiveHolder
      <4>2. Lease!Write(w, wjob[w])
        BY <3>1, <3>2, <3>4, <4>1 DEF Lease!Write
      <4> QED BY <4>1, <4>2 DEF Lease!Next
    <3> QED BY <2>6, <3>3, <3>4 DEF Apply
  <2>7. ASSUME NEW outcome \in Terminal, NEW pc, wpc[w] \in Holding, Settle(w, outcome),
               pc \notin Holding, Goto(w, pc, 0), \A v \in Workers \ {w} : wjob'[v] = wjob[v]
        PROVE  Lease!Next
    <3> DEFINE t == wjob[w]
    <3>1. /\ t \in Turns /\ Holders(t) = {w}
          /\ \A u \in Turns : Holders(u)' = IF u = t THEN {} ELSE Holders(u)
      BY <2>7, HolderLeaves
    <3>2. Phase(t) = "open" /\ \A u \in Turns : Phase(u)' = IF u = t THEN outcome ELSE Phase(u)
      BY <2>7, <3>1, <1>t DEF Settle, NeverStolen, Phase, TypeOK
    <3>3. Lease!Close(w, t, outcome)
      BY <2>7, <3>1, <3>2 DEF Settle, Lease!Close
    <3> QED BY <3>1, <3>3 DEF Lease!Next
  <2>n. ASSUME NextIteration(w)
        PROVE  /\ \A v \in Workers \ {w} : wjob'[v] = wjob[v]
               /\ \E pc : pc \notin Holding /\ Goto(w, pc, 0)
    BY <2>n, <1>t DEF NextIteration, TypeOK
  <2>8. CASE SetDone(w)
    BY <2>7, <2>8, <2>n DEF SetDone
  <2>9. CASE SetFailed(w)
    BY <2>7, <2>9 DEF SetFailed
  <2>10. CASE SetFailedByGuard(w) /\ wpc[w] = "failagain"
    BY <2>7, <2>10, <2>n DEF SetFailedByGuard
  <2>11. CASE SetFailedByGuard(w) /\ wpc[w] = "refail"
    <3>1. \A t \in Turns : Phase(t)' = Phase(t)
      BY <2>11, <1>t DEF SetFailedByGuard, Settle, Phase, LeaseInv, ClosedFailed, TypeOK
    <3>2. \A t \in Turns : Holders(t)' = Holders(t)
      BY <2>11, <2>n, NothingHeld DEF SetFailedByGuard
    <3> QED BY <2>11, <3>1, <3>2, LeaseStutter DEF SetFailedByGuard, Settle
  <2>12. CASE CommitTrace(w)
    <3>1. \A t \in Turns : Phase(t)' = Phase(t)
      BY <2>12 DEF CommitTrace, Phase
    <3>2. \A t \in Turns : Holders(t)' = Holders(t)
      <4>1. CASE wpc[w] = "trace"
        BY <2>12, <4>1, HoldersKept DEF CommitTrace
      <4>2. CASE wpc[w] = "closing"
        BY <2>12, <4>2, <2>n, NothingHeld DEF CommitTrace
      <4> QED BY <2>12, <4>1, <4>2 DEF CommitTrace
    <3> QED BY <2>12, <3>1, <3>2, LeaseStutter DEF CommitTrace
  <2> QED BY <1>2, <2>1, <2>2, <2>3, <2>4, <2>5, <2>6, <2>8, <2>9, <2>10, <2>11, <2>12
          DEF Work, SetFailedByGuard
<1>3. ASSUME NEW w \in Workers, SetFailedRaises(w) \/ TraceRaises(w)
      PROVE  UNCHANGED Lease!leaseVars
  <2>1. \A t \in Turns : Phase(t)' = Phase(t)
    BY <1>3 DEF SetFailedRaises, TraceRaises, Phase
  <2>2. \A t \in Turns : Holders(t)' = Holders(t)
    <3>1. CASE wpc[w] = "closing"
      BY <1>3, <3>1, NothingHeld DEF SetFailedRaises, TraceRaises
    <3>2. CASE wpc[w] # "closing"
      BY <1>3, <3>2, HoldersKept DEF SetFailedRaises, TraceRaises
    <3> QED BY <3>1, <3>2
  <2> QED BY <1>3, <2>1, <2>2, LeaseStutter DEF SetFailedRaises, TraceRaises
<1>4. ASSUME NEW w \in Workers, NEW pc \in {"killed", "raised"}, LeaveTo(w, pc)
      PROVE  Lease!Next \/ UNCHANGED Lease!leaseVars
  <2>1. /\ \A t \in Turns : Phase(t)' = Phase(t)
        /\ \A v \in Workers \ {w} : wjob'[v] = wjob[v]
        /\ Goto(w, pc, 0) /\ written' = written
    BY <1>4, <1>t DEF LeaveTo, Phase, TypeOK
  <2>2. CASE wpc[w] \in Holding
    <3> DEFINE t == wjob[w]
    <3>1. /\ t \in Turns /\ Holders(t) = {w}
          /\ \A u \in Turns : Holders(u)' = IF u = t THEN {} ELSE Holders(u)
      BY <2>1, <2>2, HolderLeaves
    <3>2. Lease!Abandon(w, t)
      BY <2>1, <3>1 DEF Lease!Abandon
    <3> QED BY <3>1, <3>2 DEF Lease!Next
  <2>3. CASE wpc[w] \notin Holding
    <3>1. \A t \in Turns : Holders(t)' = Holders(t)
      BY <2>1, <2>3, NothingHeld
    <3> QED BY <2>1, <3>1, LeaseStutter
  <2> QED BY <2>2, <2>3
<1>5. ASSUME NEW w \in Workers, Fault(w) PROVE Lease!Next \/ UNCHANGED Lease!leaseVars
  BY <1>5, <1>3, <1>4 DEF Fault, Raise, Kill
<1>6. ASSUME NEW w \in Workers, Restart(w) PROVE UNCHANGED Lease!leaseVars
  <2>1. \A t \in Turns : Phase(t)' = Phase(t) /\ Holders(t)' = Holders(t)
    BY <1>6, <1>t DEF Restart, Phase, Holders, TypeOK
  <2> QED BY <1>6, <2>1, LeaseStutter DEF Restart
<1>7. CASE Tick
  <2>1. \A t \in Turns : Phase(t)' = Phase(t) /\ Holders(t)' = Holders(t)
    BY <1>7 DEF Tick, Phase, Holders
  <2> QED BY <1>7, <2>1, LeaseStutter DEF Tick
<1>8. CASE UNCHANGED vars
  <2>1. \A t \in Turns : Phase(t)' = Phase(t) /\ Holders(t)' = Holders(t)
    BY <1>8 DEF vars, Phase, Holders
  <2> QED BY <1>8, <2>1, LeaseStutter DEF vars
<1> QED BY <1>1, <1>2, <1>5, <1>6, <1>7, <1>8 DEF Next

\* The table, its statements and its clock implement the abstract lease.
THEOREM ImplementsLease == Spec => LeaseSpec
BY LeaseInvariant, LeaseRefinedInit, LeaseRefinedStep, PTL DEF Spec, LeaseSpec, Lease!Spec
=============================================================================
