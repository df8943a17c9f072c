----------------------------- MODULE Withdrawals -----------------------------
(***************************************************************************)
(* The withdrawals of one user, from the request over the review to the    *)
(* payout: src/src/modules/withdrawals/withdrawal.service.ts and the       *)
(* worker of the withdrawal queue.                                         *)
(*                                                                         *)
(* Requests, reviews and workers interleave at every await.  The document  *)
(* a call has read is its own copy: a save writes the fields the call      *)
(* changed with respect to that copy, whatever the collection holds by     *)
(* then.                                                                   *)
(*                                                                         *)
(* A wallet call has two steps, its reads and its transaction: the guard   *)
(* against negative balances is computed from the reads, and the           *)
(* transaction adds to whatever the wallet holds by then.  The money of    *)
(* the user is in one spendable bucket and in LOCKED.  KYC approval is     *)
(* checked before a request begins and nothing is written when it is       *)
(* missing.                                                                *)
(***************************************************************************)
EXTENDS JobQueue, Integers, FiniteSetsExt

CONSTANTS
  Withdrawals,   \* withdrawals: one per user and idempotency key
  Amount,        \* the amount of each
  Funds,         \* what the user may withdraw at first
  VelocityMax,   \* WITHDRAWAL_VELOCITY_MAX: 3
  MaxFaults      \* bound: errors, crashes and lost locks

Kinds == {"request", "approve", "reject", "job"}

ASSUME WithdrawalsAssumption ==
  /\ Amount \in [Withdrawals -> Nat \ {0}]
  /\ Funds \in Nat /\ VelocityMax \in Nat /\ MaxFaults \in Nat
  /\ IsFiniteSet(Handlers) /\ Handlers # {}

VARIABLES
  redis,       \* isRedisEnabled(), settled when the process starts
  withdrawal,  \* status of each withdrawals document
  settlement,  \* status of the settlements document keyed wd-settle:<id>
  job,         \* the job of that name in the withdrawal queue
  wallet,      \* spendable sum, LOCKED bucket and posted keys
  call,        \* what each handler is doing
  faults

vars == <<redis, withdrawal, settlement, job, wallet, call, faults>>

WithdrawalStatuses ==
  {"none", "PENDING", "UNDER_REVIEW", "APPROVED", "REJECTED", "PROCESSING",
   "COMPLETED", "FAILED"}
SettlementStatuses == {"none", "PENDING", "PROCESSING", "COMPLETED", "FAILED"}
Steps ==
  {"risk", "find", "create", "lock", "commitLock", "saveLock", "read",
   "saveApproved", "createSettlement", "saveSettlementId", "add",
   "release", "commitRelease", "saveRejected",
   "mark", "saveProcessing", "complete", "commitComplete", "saveCompleted",
   "markCompleted", "audit", "markFailed", "saveFailed"}

(* seen: the status of the copy the call holds *)
Calls == [at : Steps, w : Withdrawals, kind : Kinds, seen : WithdrawalStatuses]
Idle == [at |-> "idle"]

Postings == {"wd-lock", "wd-complete", "wd-release"}

TypeOK ==
  /\ redis \in BOOLEAN
  /\ withdrawal \in [Withdrawals -> WithdrawalStatuses]
  /\ settlement \in [Withdrawals -> SettlementStatuses]
  /\ job \in [Withdrawals -> Jobs]
  /\ wallet \in [spendable : Int, locked : Int, posted : SUBSET (Postings \X Withdrawals)]
  /\ call \in [Handlers -> Calls \cup {Idle}]
  /\ faults \in 0..MaxFaults

Init ==
  /\ redis \in BOOLEAN
  /\ withdrawal = [w \in Withdrawals |-> "none"]
  /\ settlement = [w \in Withdrawals |-> "none"]
  /\ job = [w \in Withdrawals |-> NoJob]
  /\ wallet = [spendable |-> Funds, locked |-> 0, posted |-> {}]
  /\ call = [h \in Handlers |-> Idle]
  /\ faults = 0

-----------------------------------------------------------------------------
(* How a call goes on and how it ends *)

At(h, step) == call[h].at = step
Goto(h, step) == call' = [call EXCEPT ![h].at = step]
Start(h, w, kind, step) ==
  /\ call[h] = Idle
  /\ call' = [call EXCEPT ![h] =
       [at |-> step, w |-> w, kind |-> kind, seen |-> withdrawal[w]]]

Return(h) ==
  LET c == call[h] IN
  /\ call' = [call EXCEPT ![h] = Idle]
  /\ job' = [job EXCEPT ![c.w] = IF c.kind = "job" THEN Complete(@, h) ELSE @]

Throw(h) ==
  LET c == call[h] IN
  /\ call' = [call EXCEPT ![h] = Idle]
  /\ job' = [job EXCEPT ![c.w] = IF c.kind = "job" THEN Retry(@, h) ELSE @]

GotoSeen(h, step, s) == call' = [call EXCEPT ![h].at = step, ![h].seen = s]

(* withdrawal.save() after the status of the copy was set to s.  The ids   *)
(* of the lock, the settlement and the wallet transaction that some saves  *)
(* also write are read by no operation.                                    *)
Save(h, s) ==
  withdrawal' = [withdrawal EXCEPT ![call[h].w] = IF call[h].seen = s THEN @ ELSE s]

(* The reads of a wallet call write nothing.  Taken as one step they admit *)
(* every call that the code admits, which reads the key and the balances   *)
(* one after the other: a key that is posted in between is found by the    *)
(* transaction.                                                            *)
Answered(key) == key \in wallet.posted

(* Seeded fault: only the total of the wallet may not turn negative. *)
ProjectedTotal(lock, spend) == wallet.locked + lock + wallet.spendable + spend >= 0

(* The guard of applyTransactionTxn, over walletBefore. *)
Projected(lock, spend) == wallet.locked + lock >= 0 /\ wallet.spendable + spend >= 0

(* The transaction: $inc has no lower bound.  The unique index refuses a   *)
(* key that was posted since the reads, and the call is answered with the  *)
(* posting it finds, or fails because the session was aborted.             *)
Post(key, lock, spend) ==
  wallet' = IF key \in wallet.posted THEN wallet
            ELSE [spendable |-> wallet.spendable + spend,
                  locked |-> wallet.locked + lock,
                  posted |-> wallet.posted \cup {key}]

-----------------------------------------------------------------------------
(* requestWithdrawal *)

RequestWithdrawal(h, w) ==
  /\ Start(h, w, "request", "risk")
  /\ UNCHANGED <<redis, withdrawal, settlement, job, wallet, faults>>

PendingStatuses == {"PENDING", "UNDER_REVIEW", "APPROVED", "PROCESSING"}

(* The two counts of checkWithdrawalRequest.  A flag that is raised throws *)
(* before the request is looked up, so even a repeated request fails.      *)
Flagged(w) ==
  \/ Cardinality({v \in Withdrawals :
       withdrawal[v] \notin {"none", "REJECTED"}}) >= VelocityMax
  \/ \E v \in Withdrawals :
       withdrawal[v] \in PendingStatuses /\ Amount[v] = Amount[w]

CheckWithdrawalRequest(h) ==
  /\ At(h, "risk")
  /\ IF Flagged(call[h].w)
     THEN Throw(h)
     ELSE Goto(h, "find") /\ UNCHANGED job
  /\ UNCHANGED <<redis, withdrawal, settlement, wallet, faults>>

FindExisting(h) ==
  /\ At(h, "find")
  /\ IF withdrawal[call[h].w] # "none"
     THEN Return(h)
     ELSE Goto(h, "create") /\ UNCHANGED job
  /\ UNCHANGED <<redis, withdrawal, settlement, wallet, faults>>

(* The unique index on the idempotency key refuses the second document. *)
CreateWithdrawal(h) ==
  /\ At(h, "create")
  /\ IF withdrawal[call[h].w] # "none"
     THEN Throw(h) /\ UNCHANGED withdrawal
     ELSE /\ withdrawal' = [withdrawal EXCEPT ![call[h].w] = "PENDING"]
          /\ GotoSeen(h, "lock", "PENDING")
          /\ UNCHANGED job
  /\ UNCHANGED <<redis, settlement, wallet, faults>>

(* lockForWithdrawal checks the spendable sum, and splits the amount among *)
(* the spendable buckets by a read of its own.  When another call posts    *)
(* before the guard has read them again, the guard may refuse that split.  *)
LockFunds(h) ==
  LET fits == Projected(Amount[call[h].w], -Amount[call[h].w]) IN
  /\ At(h, "lock")
  /\ \/ fits /\ Goto(h, "commitLock") /\ UNCHANGED job
     \/ (fits => \E g \in Handlers \ {h} : call[g] # Idle) /\ Throw(h)
  /\ UNCHANGED <<redis, withdrawal, settlement, wallet, faults>>

CommitLock(h) ==
  LET w == call[h].w IN
  /\ At(h, "commitLock")
  /\ \/ Post(<<"wd-lock", w>>, Amount[w], -Amount[w]) /\ Goto(h, "saveLock") /\ UNCHANGED job
     \/ Answered(<<"wd-lock", w>>) /\ Throw(h) /\ UNCHANGED wallet
  /\ UNCHANGED <<redis, withdrawal, settlement, faults>>

SaveLock(h) ==
  /\ At(h, "saveLock")
  /\ Save(h, "UNDER_REVIEW")
  /\ Return(h)
  /\ UNCHANGED <<redis, settlement, wallet, faults>>

-----------------------------------------------------------------------------
(* approve *)

Approve(h, w) ==
  /\ withdrawal[w] \in {"UNDER_REVIEW", "PENDING"}
  /\ Start(h, w, "approve", "saveApproved")
  /\ UNCHANGED <<redis, withdrawal, settlement, job, wallet, faults>>

SaveApproved(h) ==
  /\ At(h, "saveApproved")
  /\ Save(h, "APPROVED")
  /\ GotoSeen(h, "createSettlement", "APPROVED")
  /\ UNCHANGED <<redis, settlement, job, wallet, faults>>

(* The unique index on wd-settle:<id> refuses the second approval. *)
CreateSettlement(h) ==
  /\ At(h, "createSettlement")
  /\ IF settlement[call[h].w] # "none"
     THEN Throw(h) /\ UNCHANGED settlement
     ELSE /\ settlement' = [settlement EXCEPT ![call[h].w] = "PENDING"]
          /\ Goto(h, "saveSettlementId")
          /\ UNCHANGED job
  /\ UNCHANGED <<redis, withdrawal, wallet, faults>>

SaveSettlementId(h) ==
  /\ At(h, "saveSettlementId")
  /\ Goto(h, IF redis THEN "add" ELSE "read")
  /\ UNCHANGED <<redis, withdrawal, settlement, job, wallet, faults>>

(* Seeded fault: with Redis on, the job is never added. *)
ForgetJob(h) ==
  /\ At(h, "add")
  /\ call' = [call EXCEPT ![h] = Idle]
  /\ UNCHANGED <<redis, withdrawal, settlement, job, wallet, faults>>

AddJob(h) ==
  /\ At(h, "add")
  /\ call' = [call EXCEPT ![h] = Idle]
  /\ job' = [job EXCEPT ![call[h].w] = Add(@)]
  /\ UNCHANGED <<redis, withdrawal, settlement, wallet, faults>>

-----------------------------------------------------------------------------
(* reject, which looks at no status *)

Reject(h, w) ==
  /\ withdrawal[w] # "none"
  /\ Start(h, w, "reject", "release")
  /\ UNCHANGED <<redis, withdrawal, settlement, job, wallet, faults>>

(* Seeded fault: the withdrawal is rejected although nothing was released. *)
RejectUnreleased(h) ==
  /\ At(h, "release")
  /\ Save(h, "REJECTED")
  /\ Return(h)
  /\ UNCHANGED <<redis, settlement, wallet, faults>>

(* releaseWithdrawalLock refuses a LOCKED bucket that is too small, even   *)
(* when the key was posted.                                                *)
ReleaseLock(h) ==
  LET w == call[h].w
      answered == Answered(<<"wd-release", w>>)
  IN  /\ At(h, "release")
      /\ IF wallet.locked >= Amount[w] /\ (answered \/ Projected(-Amount[w], Amount[w]))
         THEN Goto(h, IF answered THEN "saveRejected" ELSE "commitRelease") /\ UNCHANGED job
         ELSE Throw(h)
      /\ UNCHANGED <<redis, withdrawal, settlement, wallet, faults>>

CommitRelease(h) ==
  LET w == call[h].w IN
  /\ At(h, "commitRelease")
  /\ \/ /\ Post(<<"wd-release", w>>, -Amount[w], Amount[w])
        /\ Goto(h, "saveRejected")
        /\ UNCHANGED job
     \/ Answered(<<"wd-release", w>>) /\ Throw(h) /\ UNCHANGED wallet
  /\ UNCHANGED <<redis, withdrawal, settlement, faults>>

SaveRejected(h) ==
  /\ At(h, "saveRejected")
  /\ Save(h, "REJECTED")
  /\ Return(h)
  /\ UNCHANGED <<redis, settlement, wallet, faults>>

-----------------------------------------------------------------------------
(* processSettlement, in a worker or inside approve *)

TakeJob(h, w) ==
  /\ job[w].state = "waiting"
  /\ Start(h, w, "job", "read")
  /\ job' = [job EXCEPT ![w] = Take(@, h)]
  /\ UNCHANGED <<redis, withdrawal, settlement, wallet, faults>>

ReadDocuments(h) ==
  /\ At(h, "read")
  /\ GotoSeen(h, "mark", withdrawal[call[h].w])
  /\ UNCHANGED <<redis, withdrawal, settlement, job, wallet, faults>>

MarkProcessing(h) ==
  /\ At(h, "mark")
  /\ settlement' = [settlement EXCEPT ![call[h].w] = "PROCESSING"]
  /\ Goto(h, "saveProcessing")
  /\ UNCHANGED <<redis, withdrawal, job, wallet, faults>>

SaveProcessing(h) ==
  /\ At(h, "saveProcessing")
  /\ Save(h, "PROCESSING")
  /\ GotoSeen(h, "complete", "PROCESSING")
  /\ UNCHANGED <<redis, settlement, job, wallet, faults>>

CompleteFromLock(h) ==
  LET w == call[h].w IN
  /\ At(h, "complete")
  /\ Goto(h, IF Answered(<<"wd-complete", w>>) THEN "saveCompleted"
             ELSE IF Projected(-Amount[w], 0) THEN "commitComplete" ELSE "markFailed")
  /\ UNCHANGED <<redis, withdrawal, settlement, job, wallet, faults>>

CommitComplete(h) ==
  LET w == call[h].w IN
  /\ At(h, "commitComplete")
  /\ \/ Post(<<"wd-complete", w>>, -Amount[w], 0) /\ Goto(h, "saveCompleted")
     \/ Answered(<<"wd-complete", w>>) /\ Goto(h, "markFailed") /\ UNCHANGED wallet
  /\ UNCHANGED <<redis, withdrawal, settlement, job, faults>>

SaveCompleted(h) ==
  /\ At(h, "saveCompleted")
  /\ Save(h, "COMPLETED")
  /\ GotoSeen(h, "markCompleted", "COMPLETED")
  /\ UNCHANGED <<redis, settlement, job, wallet, faults>>

MarkCompleted(h) ==
  /\ At(h, "markCompleted")
  /\ settlement' = [settlement EXCEPT ![call[h].w] = "COMPLETED"]
  /\ Goto(h, "audit")
  /\ UNCHANGED <<redis, withdrawal, job, wallet, faults>>

(* The audit row, still inside the try block. *)
RecordCompletion(h) ==
  /\ At(h, "audit")
  /\ Return(h)
  /\ UNCHANGED <<redis, withdrawal, settlement, wallet, faults>>

MarkFailed(h) ==
  /\ At(h, "markFailed")
  /\ settlement' = [settlement EXCEPT ![call[h].w] = "FAILED"]
  /\ Goto(h, "saveFailed")
  /\ UNCHANGED <<redis, withdrawal, job, wallet, faults>>

SaveFailed(h) ==
  /\ At(h, "saveFailed")
  /\ Save(h, "FAILED")
  /\ Throw(h)
  /\ UNCHANGED <<redis, settlement, wallet, faults>>

-----------------------------------------------------------------------------
(* What goes wrong *)

InTry == {"complete", "commitComplete", "saveCompleted", "markCompleted", "audit"}

Spend ==
  /\ faults < MaxFaults
  /\ faults' = faults + 1

(* The awaited call of the step is rejected. *)
Fault(h) ==
  /\ call[h] # Idle
  /\ Spend
  /\ IF call[h].at \in InTry
     THEN Goto(h, "markFailed") /\ UNCHANGED job
     ELSE Throw(h)
  /\ UNCHANGED <<redis, withdrawal, settlement, wallet>>

(* The process dies: no catch block runs. *)
Crash(h) ==
  /\ call[h] # Idle
  /\ Spend
  /\ call' = [call EXCEPT ![h] = Idle]
  /\ UNCHANGED <<redis, withdrawal, settlement, job, wallet>>

(* A worker that still runs loses its lock. *)
LoseLock(w) ==
  /\ job[w].state = "active"
  /\ Spend
  /\ job' = [job EXCEPT ![w] = Stall(@)]
  /\ UNCHANGED <<redis, withdrawal, settlement, wallet, call>>

Runs(h, w) == call[h] # Idle /\ call[h].w = w /\ call[h].kind = "job"

(* The stalled check finds the job of a worker that died. *)
Stalled(w) ==
  /\ job[w].state = "active"
  /\ ~Runs(job[w].worker, w)
  /\ job' = [job EXCEPT ![w] = Stall(@)]
  /\ UNCHANGED <<redis, withdrawal, settlement, wallet, call, faults>>

-----------------------------------------------------------------------------
Step(h) ==
  \/ CheckWithdrawalRequest(h) \/ FindExisting(h) \/ CreateWithdrawal(h)
  \/ LockFunds(h) \/ CommitLock(h) \/ SaveLock(h)
  \/ SaveApproved(h) \/ CreateSettlement(h) \/ SaveSettlementId(h) \/ AddJob(h)
  \/ ReleaseLock(h) \/ CommitRelease(h) \/ SaveRejected(h)
  \/ ReadDocuments(h) \/ MarkProcessing(h) \/ SaveProcessing(h)
  \/ CompleteFromLock(h) \/ CommitComplete(h)
  \/ SaveCompleted(h) \/ MarkCompleted(h) \/ RecordCompletion(h)
  \/ MarkFailed(h) \/ SaveFailed(h)

Next ==
  \/ \E h \in Handlers, w \in Withdrawals :
       RequestWithdrawal(h, w) \/ Approve(h, w) \/ Reject(h, w) \/ TakeJob(h, w)
  \/ \E h \in Handlers : Step(h) \/ Fault(h) \/ Crash(h)
  \/ \E w \in Withdrawals : LoseLock(w) \/ Stalled(w)

Spec == Init /\ [][Next]_vars

-----------------------------------------------------------------------------
(* Properties *)

Posted(posting, w) == <<posting, w>> \in wallet.posted
Moved(posting) ==
  MapThenSumSet(LAMBDA w : Amount[w], {w \in Withdrawals : Posted(posting, w)})

(* Whatever is retried, raced or stalled, each withdrawal takes its amount *)
(* out of the spendable bucket once, out of the escrow once for a payout   *)
(* and once for a rejection.                                               *)
SumsMatch ==
  /\ wallet.locked = Moved("wd-lock") - Moved("wd-complete") - Moved("wd-release")
  /\ wallet.spendable = Funds - Moved("wd-lock") + Moved("wd-release")

(* The guard is as good as its reads are fresh: a bucket turns negative by *)
(* no more than one withdrawal for every other call under way, and never   *)
(* when calls run one after the other (wallet.service.ts, which calls the  *)
(* guard hard: "projected post-balance must never go negative").           *)
OverdraftIsBounded ==
  \A w \in Withdrawals :
    LET overlap == (Cardinality(Handlers) - 1) * Amount[w] IN
    (\A v \in Withdrawals : Amount[v] <= Amount[w]) =>
      wallet.locked >= -overlap /\ wallet.spendable >= -overlap

MoneyMatchesPostings == SumsMatch /\ OverdraftIsBounded

(* What the documents say is true of the wallet: a COMPLETED withdrawal or *)
(* settlement was paid out, a REJECTED withdrawal was given back           *)
(* (withdrawal.service.ts, processSettlement and reject).                  *)
DocumentsTellTruth ==
  \A w \in Withdrawals :
    /\ withdrawal[w] = "COMPLETED" => Posted("wd-complete", w)
    /\ settlement[w] = "COMPLETED" => Posted("wd-complete", w)
    /\ withdrawal[w] = "REJECTED" => Posted("wd-release", w)

UnderWay(w) ==
  \/ job[w].state \in {"waiting", "active"}
  \/ \E h \in Handlers : call[h] # Idle /\ call[h].w = w

(* Without faults an approval that went through is carried to its end: the *)
(* user is paid or the settlement is FAILED for an administrator to see.   *)
ApprovedIsPaidOrFailed ==
  \A w \in Withdrawals :
    faults = 0 /\ settlement[w] # "none" /\ ~UnderWay(w) =>
      Posted("wd-complete", w) \/ settlement[w] = "FAILED"

=============================================================================
