----------------------------- MODULE ContestClosing -----------------------------
(***************************************************************************)
(* The end of a match, for one contest of it: the scan for completed       *)
(* matches (sports.jobs.ts) that queues a final scoring and a settlement,  *)
(* the queues and their workers (scoring.jobs.ts), and the settlements of  *)
(* administrators.  Recomputations overlap: several workers of the scoring *)
(* queue (one in every process) and administrators may have one under way, *)
(* each with the statistics it has read.                                   *)
(*                                                                         *)
(* MatchDay has the scoring in detail, ContestSettlement the payments, the *)
(* results that are reset and the cancellations, and Leaderboard the       *)
(* rebuild.  Here a settlement is the claim, the payments that rank the    *)
(* entries by the totals of that moment, and the rebuild with the end.     *)
(* The contest has entries, and its joins are over.                        *)
(***************************************************************************)
EXTENDS Integers, FiniteSets

CONSTANTS
  Worker,       \* the worker of the settlement queue
  ScoringWorkers, \* the workers of the scoring queue, one per process
  Admins,       \* administrators, each with a settlement and a recomputation
  MaxScores,    \* bound: how often the statistics change
  MaxJobs,      \* bound: scoring jobs queued at a time
  MaxAttempts,  \* SETTLEMENT.JOB.MAX_ATTEMPTS
  MaxErrors     \* bound: failures and crashes

ASSUME ClosingAssumption ==
  /\ Worker \notin Admins /\ IsFiniteSet(Admins)
  /\ ScoringWorkers \cap Admins = {}
  /\ MaxScores \in Nat /\ MaxErrors \in Nat
  /\ MaxJobs \in Nat \ {0} /\ MaxAttempts \in Nat \ {0}

VARIABLES
  phase,    \* running, completed in the last 24 hours, or longer ago
  status,   \* Contest.status
  stats,    \* how often the statistics have changed
  totals,   \* the statistics that the totals of the teams were computed from
  newest,   \* the newest statistics that totals were ever computed from
  scoring,  \* SCORING_RECOMPUTE jobs queued
  scorer,   \* the recomputations under way, and the statistics each has read
  scan,     \* what the scan for completed matches is doing
  job,      \* the job settle:<contest> in its queue, if there is one
  run,      \* the settlements under way
  result,   \* contest_results, with the token of its run
  payment,  \* whether the entries have been paid, and what on
  late,     \* statistics came after the match, or a scoring was given up
  crashed,  \* a settlement died after its claim
  errors    \* failures so far

scores == <<stats, totals, newest, scoring, scorer, late>>
settlement == <<run, result, payment, crashed>>
closingVars == <<phase, status, scores, scan, job, settlement, errors>>

Settlers == Admins \cup {Worker}
Recomputers == Admins \cup ScoringWorkers
ContestStatuses == {"OPEN", "FULL", "LOCKED", "LIVE", "COMPLETED"}
Claimed == {"pay", "close"}

(* on: the totals the entries were ranked by; and of the moment they were  *)
(* read, the statistics, the newest totals there had been, whether a       *)
(* scoring was pending, and late.                                          *)
Payment == [paid : {"none", "some", "all"}, by : Settlers, on : 0..MaxScores,
            stats : 0..MaxScores, newest : 0..MaxScores, pending : BOOLEAN,
            late : BOOLEAN]

ClosingTypeOK ==
  /\ phase \in {"running", "completed", "old"} /\ status \in ContestStatuses
  /\ stats \in 0..MaxScores /\ newest \in 0..stats /\ totals \in 0..newest
  /\ scoring \in 0..MaxJobs
  /\ scorer \in [Recomputers -> [busy : BOOLEAN, seen : 0..stats]]
  /\ scan \in {"idle", "contests"}
  /\ job \in [state : {"none", "waiting", "active", "completed", "failed"},
              left : 0..MaxAttempts]
  /\ run \in [Settlers -> {"idle", "claim"} \cup Claimed]
  /\ result \in [status : {"none", "IN_PROGRESS", "FAILED", "SKIPPED", "SETTLED"},
                 token : Settlers]
  /\ payment \in Payment
  /\ late \in BOOLEAN /\ crashed \in BOOLEAN /\ errors \in 0..MaxErrors

NoSettleJob == [state |-> "none", left |-> MaxAttempts]
NoScoring == [busy |-> FALSE, seen |-> 0]

ClosingInit ==
  /\ phase = "running" /\ status = "OPEN"
  /\ stats = 0 /\ totals = 0 /\ newest = 0
  /\ scoring = 0 /\ scorer = [r \in Recomputers |-> NoScoring]
  /\ scan = "idle" /\ job = NoSettleJob
  /\ run = [s \in Settlers |-> "idle"]
  /\ result = [status |-> "none", token |-> Worker]
  /\ payment = [paid |-> "none", by |-> Worker, on |-> 0, stats |-> 0, newest |-> 0,
                pending |-> FALSE, late |-> FALSE]
  /\ late = FALSE /\ crashed = FALSE /\ errors = 0

-----------------------------------------------------------------------------
(* The match and the contest *)

MatchCompletes ==
  /\ phase = "running" /\ phase' = "completed"
  /\ UNCHANGED <<status, scores, scan, job, settlement, errors>>

DayPasses ==
  /\ phase = "completed" /\ phase' = "old"
  /\ UNCHANGED <<status, scores, scan, job, settlement, errors>>

(* Administrators move the contest on; nothing else does. *)
TransitionStatus ==
  /\ \/ status = "OPEN" /\ status' \in {"FULL", "LOCKED", "LIVE"}
     \/ status = "FULL" /\ status' \in {"LOCKED", "LIVE"}
     \/ status = "LOCKED" /\ status' \in {"LIVE", "COMPLETED"}
     \/ status = "LIVE" /\ status' = "COMPLETED"
  /\ UNCHANGED <<phase, scores, scan, job, settlement, errors>>

-----------------------------------------------------------------------------
(* Scoring.  The statistics arrive from outside. *)

StatsArrive ==
  /\ stats < MaxScores /\ stats' = stats + 1
  /\ late' = (late \/ phase # "running")
  /\ UNCHANGED <<phase, status, totals, newest, scoring, scorer, scan, job, settlement,
                 errors>>

(* enqueueScoringRecompute: every job has a name of its own. *)
AskForScoring ==
  /\ scoring < MaxJobs /\ scoring' = scoring + 1
  /\ late' = FALSE

LiveTick ==
  /\ phase = "running" /\ AskForScoring
  /\ UNCHANGED <<phase, status, stats, totals, newest, scorer, scan, job, settlement,
                 errors>>

(* recomputeForMatch reads the statistics, and writes what it has computed *)
(* of them in one transaction later.  Whoever commits last decides.        *)
Reads(r) ==
  /\ ~scorer[r].busy
  /\ scorer' = [scorer EXCEPT ![r] = [busy |-> TRUE, seen |-> stats]]

EndsScoring(r) ==
  /\ scorer[r].busy /\ scorer' = [scorer EXCEPT ![r] = NoScoring]

Persists(r) ==
  /\ totals' = scorer[r].seen
  /\ newest' = IF scorer[r].seen > newest THEN scorer[r].seen ELSE newest

ReadStatistics(w) ==
  /\ scoring > 0 /\ scoring' = scoring - 1
  /\ Reads(w)
  /\ UNCHANGED <<phase, status, stats, totals, newest, late, scan, job, settlement, errors>>

(* adminRecomputeMatchController, adminAdjustPlayerPointsController: in    *)
(* the request itself, beside the queue and at any time.                   *)
AdminRecompute(a) ==
  /\ Reads(a)
  /\ UNCHANGED <<phase, status, stats, totals, newest, scoring, late, scan, job,
                 settlement, errors>>

PersistRecompute(r) ==
  /\ EndsScoring(r) /\ Persists(r)
  /\ UNCHANGED <<phase, status, stats, scoring, late, scan, job, settlement, errors>>

(* A recomputation fails before its transaction or after it.  A job is     *)
(* tried again, until it is given up; a request is not.                    *)
ScoringFails(r) ==
  /\ EndsScoring(r)
  /\ errors < MaxErrors /\ errors' = errors + 1
  /\ Persists(r) \/ UNCHANGED <<totals, newest>>
  /\ \/ r \in Admins /\ UNCHANGED <<scoring, late>>
     \/ r \notin Admins /\ scoring < MaxJobs /\ scoring' = scoring + 1 /\ UNCHANGED late
     \/ r \notin Admins /\ late' = TRUE /\ UNCHANGED scoring
  /\ UNCHANGED <<phase, status, stats, scan, job, settlement>>

(* The lock of a job runs out: the queue offers it again, and its worker   *)
(* goes on.                                                                *)
ScoringStalls(w) ==
  /\ scorer[w].busy
  /\ errors < MaxErrors /\ errors' = errors + 1
  /\ scoring < MaxJobs /\ scoring' = scoring + 1
  /\ UNCHANGED <<phase, status, stats, totals, newest, scorer, late, scan, job,
                 settlement>>

-----------------------------------------------------------------------------
(* autoTriggerSettlementForCompletedMatches: a scoring first, ...          *)

(* Seeded fault: the scan queues no scoring. *)
SkipFinalScoring ==
  /\ phase = "completed" /\ scan = "idle" /\ scan' = "contests"
  /\ UNCHANGED <<phase, status, scores, job, settlement, errors>>

QueueFinalScoring ==
  /\ phase = "completed" /\ scan = "idle" /\ scan' = "contests"
  /\ AskForScoring
  /\ UNCHANGED <<phase, status, stats, totals, newest, scorer, job, settlement, errors>>

(* A name that is in the queue, also of a job that completed or failed, is *)
(* not added again.                                                        *)
EnqueueSettlement ==
  job' = IF job.state = "none" THEN [NoSettleJob EXCEPT !.state = "waiting"] ELSE job

(* Seeded fault: a LIVE contest is not looked for. *)
QueueSettlementUnlessLive ==
  /\ scan = "contests" /\ scan' = "idle"
  /\ IF /\ status \in {"OPEN", "LOCKED", "COMPLETED"}
        /\ result.status \notin {"SETTLED", "IN_PROGRESS"}
     THEN EnqueueSettlement ELSE UNCHANGED job
  /\ UNCHANGED <<phase, status, scores, settlement, errors>>

(* ... and then the settlement.  FULL is not among the statuses. *)
QueueSettlement ==
  /\ scan = "contests" /\ scan' = "idle"
  /\ IF /\ status \in {"OPEN", "LIVE", "LOCKED", "COMPLETED"}
        /\ result.status \notin {"SETTLED", "IN_PROGRESS"}
     THEN EnqueueSettlement ELSE UNCHANGED job
  /\ UNCHANGED <<phase, status, scores, settlement, errors>>

(* removeOnComplete and removeOnFail keep only the last jobs. *)
JobForgotten ==
  /\ job.state \in {"completed", "failed"} /\ job' = NoSettleJob
  /\ UNCHANGED <<phase, status, scores, scan, settlement, errors>>

-----------------------------------------------------------------------------
(* settleContest *)

Settleable == status \in {"LIVE", "COMPLETED"} /\ result.status # "SETTLED"

(* What becomes of the job when its run throws; a request has no job. *)
Throws(s) ==
  job' = IF s # Worker THEN job
         ELSE [state |-> IF job.left > 1 THEN "waiting" ELSE "failed", left |-> job.left - 1]

Ends(s, status_) ==
  /\ run' = [run EXCEPT ![s] = "idle"]
  /\ result' = IF result.token = s THEN [result EXCEPT !.status = status_] ELSE result

TakeSettlementJob ==
  /\ job.state = "waiting" /\ run[Worker] = "idle"
  /\ IF Settleable
     THEN /\ job' = [job EXCEPT !.state = "active"]
          /\ run' = [run EXCEPT ![Worker] = "claim"]
     ELSE Throws(Worker) /\ UNCHANGED run
  /\ UNCHANGED <<phase, status, scores, scan, result, payment, crashed, errors>>

(* With force, in any status. *)
AdminSettle(a) ==
  /\ run[a] = "idle" /\ result.status # "SETTLED"
  /\ run' = [run EXCEPT ![a] = "claim"]
  /\ UNCHANGED <<phase, status, scores, scan, job, result, payment, crashed, errors>>

(* claimForSettlement; a claim without ACTIVE entries is SKIPPED at once, *)
(* as after payments whose run failed later.                              *)
Claim(s) ==
  /\ run[s] = "claim"
  /\ IF result.status \notin {"none", "FAILED"}
     THEN Throws(s) /\ run' = [run EXCEPT ![s] = "idle"] /\ UNCHANGED result
     ELSE IF payment.paid = "all"
     THEN /\ run' = [run EXCEPT ![s] = "idle"]
          /\ result' = [status |-> "SKIPPED", token |-> s]
          /\ job' = IF s = Worker THEN [job EXCEPT !.state = "completed"] ELSE job
     ELSE /\ run' = [run EXCEPT ![s] = "pay"]
          /\ result' = [status |-> "IN_PROGRESS", token |-> s]
          /\ UNCHANGED job
  /\ UNCHANGED <<phase, status, scores, scan, payment, crashed, errors>>

(* The entries are ranked by the totals of the moment they are loaded, and *)
(* paid one by one.                                                        *)
ScoringPending == scoring > 0 \/ \E w \in ScoringWorkers : scorer[w].busy

Pays(s, paid) ==
  payment' = [paid |-> paid, by |-> s, on |-> totals, stats |-> stats,
              newest |-> newest, pending |-> ScoringPending, late |-> late]

(* A run that ends early has paid some of the entries that were ACTIVE, or *)
(* none.                                                                   *)
PaysSome(s) == run[s] = "pay" /\ Pays(s, "some")

PayWinnings(s) ==
  /\ run[s] = "pay" /\ run' = [run EXCEPT ![s] = "close"]
  /\ Pays(s, "all")
  /\ UNCHANGED <<phase, status, scores, scan, job, result, crashed, errors>>

CompleteAndFinalise(s) ==
  /\ run[s] = "close"
  /\ status' = "COMPLETED"
  /\ Ends(s, "SETTLED")
  /\ job' = IF s = Worker THEN [job EXCEPT !.state = "completed"] ELSE job
  /\ UNCHANGED <<phase, scores, scan, payment, crashed, errors>>

(* A call of the try block is rejected: FAILED is recorded. *)
SettlementFails(s) ==
  /\ run[s] \in Claimed
  /\ errors < MaxErrors /\ errors' = errors + 1
  /\ Ends(s, "FAILED") /\ Throws(s)
  /\ PaysSome(s) \/ UNCHANGED payment
  /\ UNCHANGED <<phase, status, scores, scan, crashed>>

(* The process dies: the queue takes the job of its worker up again. *)
SettlementDies(s) ==
  /\ run[s] # "idle"
  /\ errors < MaxErrors /\ errors' = errors + 1
  /\ run' = [run EXCEPT ![s] = "idle"]
  /\ job' = IF s = Worker THEN [job EXCEPT !.state = "waiting"] ELSE job
  /\ crashed' = (crashed \/ run[s] \in Claimed)
  /\ PaysSome(s) \/ UNCHANGED payment
  /\ UNCHANGED <<phase, status, scores, scan, result>>

SettleStep(s) == Claim(s) \/ PayWinnings(s) \/ CompleteAndFinalise(s)

ClosingNext ==
  \/ MatchCompletes \/ DayPasses \/ TransitionStatus
  \/ StatsArrive \/ LiveTick
  \/ \E w \in ScoringWorkers : ReadStatistics(w) \/ ScoringStalls(w)
  \/ \E r \in Recomputers : PersistRecompute(r) \/ ScoringFails(r)
  \/ QueueFinalScoring \/ QueueSettlement \/ JobForgotten \/ TakeSettlementJob
  \/ \E a \in Admins : AdminSettle(a) \/ AdminRecompute(a)
  \/ \E s \in Settlers : SettleStep(s) \/ SettlementFails(s) \/ SettlementDies(s)

(* The repeatable scan and the workers go on, and a request that was made  *)
(* is carried out; nobody is obliged to ask for a settlement or to move    *)
(* the contest on.                                                         *)
ClosingFairness ==
  /\ WF_closingVars(\E w \in ScoringWorkers : ReadStatistics(w))
  /\ \A r \in Recomputers : WF_closingVars(PersistRecompute(r))
  /\ WF_closingVars(QueueFinalScoring) /\ WF_closingVars(QueueSettlement)
  /\ WF_closingVars(TakeSettlementJob)
  /\ \A s \in Settlers : WF_closingVars(SettleStep(s))

ClosingSpec == ClosingInit /\ [][ClosingNext]_closingVars /\ ClosingFairness

-----------------------------------------------------------------------------
(* The scan queues the final scoring before the settlement, which is       *)
(* delayed by a minute but does not wait for it.  The worker ranks the     *)
(* entries by totals older than the statistics only while that scoring or  *)
(* another one is pending, after one was given up, when statistics came    *)
(* after the match and no scoring has been asked for since, or when a      *)
(* recomputation that had read older statistics has overwritten totals     *)
(* that were newer: overlapping ones may commit in any order.              *)
SettlementLagsOnlyBehindScoring ==
  payment.paid # "none" /\ payment.by = Worker =>
    \/ payment.on = payment.stats \/ payment.pending \/ payment.late
    \/ payment.on < payment.newest

(* A contest that is LIVE or COMPLETED when its match has completed is     *)
(* settled by the scan and the worker alone, unless a settlement died      *)
(* after its claim, the day passes, or a job that failed keeps the name:   *)
(* also one that was queued while the contest was still OPEN or LOCKED.    *)
UnsettledMeansNameTaken ==
  (phase = "completed" /\ status \in {"LIVE", "COMPLETED"})
    ~> (\/ result.status \in {"SETTLED", "SKIPPED"}
        \/ crashed \/ job.state = "failed" \/ phase = "old")
=============================================================================
