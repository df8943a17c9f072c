------------------------------- MODULE JobQueue -------------------------------
(***************************************************************************)
(* The life of one BullMQ job, as the factory of src/src/queues configures *)
(* it and the settlement workers rely on it.  Every operator maps a job to *)
(* the job after one event.                                                *)
(*                                                                         *)
(* A producer names the job, so adding it again while it exists changes    *)
(* nothing, and removeOnComplete frees the name.  A worker holds a lock on *)
(* the job it runs.  When the lock is not renewed - the worker died, or    *)
(* its event loop was blocked too long - the job stalls: the first time it *)
(* goes back to the queue, although the worker may still be running it;    *)
(* the second time it fails.  The outcome a worker reports counts only     *)
(* while it holds the lock.                                                *)
(***************************************************************************)
EXTENDS Naturals

CONSTANTS
  Handlers,  \* the processes a worker runs jobs on
  Nobody,    \* no worker
  Attempts   \* defaultJobOptions.attempts: 5 in the code, fewer in the runs

ASSUME JobQueueAssumption ==
  /\ Attempts \in Nat \ {0}
  /\ Nobody \notin Handlers

Jobs == [state : {"none", "waiting", "active", "failed"},
         made : 0..Attempts, stalls : 0..1, worker : Handlers \cup {Nobody}]

NoJob == [state |-> "none", made |-> 0, stalls |-> 0, worker |-> Nobody]

HeldBy(job, h) == job.state = "active" /\ job.worker = h

Add(job) == IF job.state = "none" THEN [NoJob EXCEPT !.state = "waiting"] ELSE job

Take(job, h) == [job EXCEPT !.state = "active", !.worker = h]

Complete(job, h) == IF HeldBy(job, h) THEN NoJob ELSE job

(* Seeded fault: one attempt only. *)
RetryNever(job, h) ==
  IF HeldBy(job, h)
  THEN [job EXCEPT !.made = @ + 1, !.worker = Nobody, !.state = "failed"]
  ELSE job

(* A failed attempt: the job waits for its backoff and runs again until    *)
(* its attempts are used up.                                               *)
Retry(job, h) ==
  IF HeldBy(job, h)
  THEN [job EXCEPT !.made = @ + 1, !.worker = Nobody,
                   !.state = IF job.made + 1 < Attempts THEN "waiting" ELSE "failed"]
  ELSE job

Stall(job) ==
  [job EXCEPT !.worker = Nobody, !.stalls = 1,
              !.state = IF job.stalls = 0 THEN "waiting" ELSE "failed"]
=============================================================================
