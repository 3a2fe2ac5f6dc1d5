------------------------------- MODULE JobLease -------------------------------
(***************************************************************************)
(* What the memory job queue promises, with no queue, no clock and no      *)
(* database in it: a job that has been submitted stays open until the one  *)
(* worker that holds it closes it.  While a job is open a worker may take  *)
(* it only when nobody holds it, only its holder writes on its behalf, and *)
(* a holder that disappears leaves the job open for another worker.        *)
(*                                                                         *)
(* MemoryJobs implements this specification as long as an evaluation       *)
(* cannot outlive the stale-job threshold (MemoryJobs!LeaseAssumption).    *)
(***************************************************************************)
EXTENDS Naturals

CONSTANTS Jobs,      \* what may be submitted: one job per chat turn
          Workers    \* worker processes

VARIABLES phase,     \* [Jobs -> {"absent", "open", "done", "failed"}]
          holders,   \* [Jobs -> SUBSET Workers], never more than one
          writes     \* [Jobs -> Nat], committed writes on behalf of the job

leaseVars == <<phase, holders, writes>>

Init ==
  /\ phase = [j \in Jobs |-> "absent"]
  /\ holders = [j \in Jobs |-> {}]
  /\ writes = [j \in Jobs |-> 0]

Submit(j) ==
  /\ phase[j] = "absent"
  /\ phase' = [phase EXCEPT ![j] = "open"]
  /\ UNCHANGED <<holders, writes>>

Acquire(w, j) ==
  /\ phase[j] = "open"
  /\ holders[j] = {}
  /\ holders' = [holders EXCEPT ![j] = {w}]
  /\ UNCHANGED <<phase, writes>>

Write(w, j) ==
  /\ phase[j] = "open"
  /\ holders[j] = {w}
  /\ writes' = [writes EXCEPT ![j] = @ + 1]
  /\ UNCHANGED <<phase, holders>>

Close(w, j, outcome) ==
  /\ phase[j] = "open"
  /\ holders[j] = {w}
  /\ phase' = [phase EXCEPT ![j] = outcome]
  /\ holders' = [holders EXCEPT ![j] = {}]
  /\ UNCHANGED writes

Abandon(w, j) ==
  /\ holders[j] = {w}
  /\ holders' = [holders EXCEPT ![j] = {}]
  /\ UNCHANGED <<phase, writes>>

Next ==
  \E j \in Jobs :
    \/ Submit(j)
    \/ \E w \in Workers :
         \/ Acquire(w, j)
         \/ Write(w, j)
         \/ \E outcome \in {"done", "failed"} : Close(w, j, outcome)
         \/ Abandon(w, j)

Spec == Init /\ [][Next]_leaseVars
=============================================================================
