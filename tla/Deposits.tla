------------------------------- MODULE Deposits -------------------------------
(***************************************************************************)
(* A deposit from the order to the wallet: the payment service             *)
(* (src/src/modules/payments), the deposit side of the financial           *)
(* settlement service (src/src/modules/financial-settlement) and the       *)
(* worker of the deposit queue.                                            *)
(*                                                                         *)
(* Three kinds of calls interleave at every await: a client that verifies  *)
(* its payment, a provider that delivers the webhook, at least once and    *)
(* perhaps to two servers at a time, and a worker that runs the job.  With *)
(* Redis off, enqueueDepositSettlement settles inside the call.            *)
(*                                                                         *)
(* A wallet call is one atomic posting under its idempotency key, the      *)
(* journal that Wallet.tla is shown to implement.  Every payment is worth  *)
(* one unit.  A client verifies a payment with the order of that payment.  *)
(* The order tells which provider the process was configured with.         *)
(***************************************************************************)
EXTENDS JobQueue

CONSTANTS
  Payments,     \* payments: one per user and idempotency key
  MaxFaults     \* bound: errors, crashes and lost locks

ASSUME DepositsAssumption == MaxFaults \in Nat

VARIABLES
  redis,       \* isRedisEnabled(), settled when the process starts
  payment,     \* payments documents
  settlement,  \* status of the settlements document keyed deposit:<payment>
  job,         \* the job of that name in the deposit queue
  wallet,      \* posted keys, and the units credited for each payment
  provider,    \* what the payer and the provider did
  call,        \* what each handler is doing
  faults       \* how often a call of each kind was hit

vars == <<redis, payment, settlement, job, wallet, provider, call, faults>>

PaymentStatuses == {"none", "PENDING", "CAPTURED", "FAILED"}
SettlementStatuses == {"none", "PENDING", "PROCESSING", "COMPLETED", "FAILED"}
StripeOrders == {"card", "upi"}
Orders == StripeOrders \cup {"razorpay", "mock"}
Kinds == {"client", "webhook", "job"}
Steps == {"verify", "risk", "capture", "find", "create", "link", "add",
          "begin", "mark", "deposit", "settle", "complete", "audit", "catch"}

PaymentDocuments ==
  [status : PaymentStatuses, linked : BOOLEAN, walletTxn : BOOLEAN]
Calls == [at : Steps, p : Payments, kind : Kinds]
Idle == [at |-> "idle"]

(* The key of the wallet posting, payment-settle:<payment>.                *)
(* Seeded fault: every run of the settlement makes up a key of its own.    *)
WalletKeyPerRun(p, h) == <<p, h>>
WalletKey(p, h) == <<p, Nobody>>

TypeOK ==
  /\ redis \in BOOLEAN
  /\ payment \in [Payments -> PaymentDocuments]
  /\ settlement \in [Payments -> SettlementStatuses]
  /\ job \in [Payments -> Jobs]
  /\ wallet \in [posted : SUBSET (Payments \X (Handlers \cup {Nobody})),
                 credited : [Payments -> Nat]]
  /\ provider \in [Payments -> [order : Orders \cup {"none"}, paid : BOOLEAN,
                               hook : {"none", "received", "acked"}]]
  /\ call \in [Handlers -> Calls \cup {Idle}]
  /\ faults \in [Kinds -> 0..MaxFaults]

Init ==
  /\ redis \in BOOLEAN
  /\ payment = [p \in Payments |->
       [status |-> "none", linked |-> FALSE, walletTxn |-> FALSE]]
  /\ settlement = [p \in Payments |-> "none"]
  /\ job = [p \in Payments |-> NoJob]
  /\ wallet = [posted |-> {}, credited |-> [p \in Payments |-> 0]]
  /\ provider = [p \in Payments |->
       [order |-> "none", paid |-> FALSE, hook |-> "none"]]
  /\ call = [h \in Handlers |-> Idle]
  /\ faults = [k \in Kinds |-> 0]

-----------------------------------------------------------------------------
(* How a call goes on and how it ends *)

At(h, step) == call[h].at = step
Goto(h, step) == call' = [call EXCEPT ![h].at = step]
Start(h, p, kind, step) ==
  /\ call[h] = Idle
  /\ call' = [call EXCEPT ![h] = [at |-> step, p |-> p, kind |-> kind]]

(* The call returns: a job completes, a webhook is answered with 200. *)
Return(h) ==
  LET c == call[h] IN
  /\ call' = [call EXCEPT ![h] = Idle]
  /\ job' = [job EXCEPT ![c.p] = IF c.kind = "job" THEN Complete(@, h) ELSE @]
  /\ provider' = [provider EXCEPT ![c.p].hook =
                    IF c.kind = "webhook" THEN "acked" ELSE @]

(* The call throws: a job is retried, a webhook answered with an error. *)
Throw(h) ==
  LET c == call[h] IN
  /\ call' = [call EXCEPT ![h] = Idle]
  /\ job' = [job EXCEPT ![c.p] = IF c.kind = "job" THEN Retry(@, h) ELSE @]
  /\ UNCHANGED provider

-----------------------------------------------------------------------------
(* PaymentService *)

(* Both reads of a repeated or concurrent order end in one document: the   *)
(* key is looked up first and indexed uniquely.  Stripe opens a checkout   *)
(* session for a card and makes up an order of its own for UPI.            *)
CreateOrder(p, order) ==
  /\ payment[p].status = "none"
  /\ payment' = [payment EXCEPT ![p].status = "PENDING"]
  /\ provider' = [provider EXCEPT ![p].order = order]
  /\ UNCHANGED <<redis, settlement, job, wallet, call, faults>>

(* The payer pays the provider. *)
Pay(p) ==
  /\ provider[p].order \notin {"none", "mock"}
  /\ ~provider[p].paid
  /\ provider' = [provider EXCEPT ![p].paid = TRUE]
  /\ UNCHANGED <<redis, payment, settlement, job, wallet, call, faults>>

(* buildCapturedWebhook signs for the mock provider: Stripe and Razorpay   *)
(* refuse that signature.                                                  *)
AcceptsMockSignature(p) == provider[p].order = "mock"

(* completeMockPayment and completeUpiPayment make up the webhook of a     *)
(* capture and handle it in the same call.                                 *)
CompleteMockPayment(h, p) ==
  /\ AcceptsMockSignature(p)
  /\ ~payment[p].walletTxn
  /\ Start(h, p, "client", "risk")
  /\ provider' = [provider EXCEPT ![p].paid = TRUE]
  /\ UNCHANGED <<redis, payment, settlement, job, wallet, faults>>

(* What verifyPayment can answer.  Stripe reads the session: unpaid is     *)
(* pending only if the session is complete.  It knows nothing of its UPI   *)
(* orders.                                                                 *)
StripeAnswers(p) ==
  IF provider[p].order = "upi" THEN {"pending"}
  ELSE IF provider[p].paid THEN {"valid"} ELSE {"pending", "invalid"}

(* Razorpay checks what the client signed with: a wrong signature may come *)
(* with a payment that was paid.                                           *)
SignatureAnswers(p) == {"invalid"} \cup IF provider[p].paid THEN {"valid"} ELSE {}

(* The mock compares without a guard: a signature of another length throws. *)
MockAnswers(p) == SignatureAnswers(p) \cup {"error"}

Answers(p) ==
  IF provider[p].order \in StripeOrders THEN StripeAnswers(p)
  ELSE IF provider[p].order = "mock" THEN MockAnswers(p)
  ELSE SignatureAnswers(p)

(* verifyClientPayment reads the payment and asks the provider. *)
VerifyClientPayment(h, p) ==
  /\ payment[p].status # "none"
  /\ ~payment[p].walletTxn
  /\ Start(h, p, "client", "verify")
  /\ UNCHANGED <<redis, payment, settlement, job, wallet, provider, faults>>

Verified(h) ==
  /\ At(h, "verify")
  /\ "valid" \in Answers(call[h].p)
  /\ Goto(h, "capture")
  /\ UNCHANGED <<redis, payment, settlement, job, wallet, provider, faults>>

(* The provider has not settled the payment yet: nothing is written. *)
VerificationPending(h) ==
  /\ At(h, "verify")
  /\ "pending" \in Answers(call[h].p)
  /\ Return(h)
  /\ UNCHANGED <<redis, payment, settlement, wallet, faults>>

(* The payment is marked FAILED, also one that a webhook captured meanwhile. *)
VerificationFailed(h) ==
  /\ At(h, "verify")
  /\ "invalid" \in Answers(call[h].p)
  /\ payment' = [payment EXCEPT ![call[h].p].status = "FAILED"]
  /\ Throw(h)
  /\ UNCHANGED <<redis, settlement, wallet, faults>>

(* verifyPayment throws: nothing is written. *)
VerificationThrows(h) ==
  /\ At(h, "verify")
  /\ "error" \in Answers(call[h].p)
  /\ Throw(h)
  /\ UNCHANGED <<redis, payment, settlement, wallet, faults>>

(* Providers that deliver webhooks which verifyWebhook accepts. *)
WebhookOrders == {"card", "razorpay"}

(* A verified webhook of a capture; a repeat for a settled payment writes  *)
(* nothing and is answered with 200.                                       *)
HandleWebhook(h, p) ==
  /\ provider[p].order \in WebhookOrders
  /\ provider[p].paid
  /\ ~payment[p].walletTxn
  /\ Start(h, p, "webhook", "risk")
  /\ provider' = [provider EXCEPT ![p].hook = IF @ = "none" THEN "received" ELSE @]
  /\ UNCHANGED <<redis, payment, settlement, job, wallet, faults>>

(* checkDuplicatePayment finds this very payment settled meanwhile and     *)
(* raises a flag, which throws.                                            *)
CheckDuplicatePayment(h) ==
  /\ At(h, "risk")
  /\ IF payment[call[h].p].walletTxn
     THEN Throw(h)
     ELSE Goto(h, "capture") /\ UNCHANGED <<job, provider>>
  /\ UNCHANGED <<redis, payment, settlement, wallet, faults>>

(* markCaptured clears the link to the settlement. *)
MarkCaptured(h) ==
  /\ At(h, "capture")
  /\ payment' = [payment EXCEPT ![call[h].p].status = "CAPTURED",
                                ![call[h].p].linked = FALSE]
  /\ Goto(h, "find")
  /\ UNCHANGED <<redis, settlement, job, wallet, provider, faults>>

-----------------------------------------------------------------------------
(* FinancialSettlementService.enqueueDepositSettlement *)

FindSettlement(h) ==
  /\ At(h, "find")
  /\ IF settlement[call[h].p] = "none"
     THEN Goto(h, "create") /\ UNCHANGED <<job, provider>>
     ELSE Return(h)
  /\ UNCHANGED <<redis, payment, settlement, wallet, faults>>

(* The unique index on the idempotency key refuses the second document. *)
CreateSettlement(h) ==
  /\ At(h, "create")
  /\ IF settlement[call[h].p] = "none"
     THEN /\ settlement' = [settlement EXCEPT ![call[h].p] = "PENDING"]
          /\ Goto(h, "link")
          /\ UNCHANGED <<job, provider>>
     ELSE Throw(h) /\ UNCHANGED settlement
  /\ UNCHANGED <<redis, payment, wallet, faults>>

LinkSettlement(h) ==
  /\ At(h, "link")
  /\ payment' = [payment EXCEPT ![call[h].p].linked = TRUE]
  /\ Goto(h, IF redis THEN "add" ELSE "begin")
  /\ UNCHANGED <<redis, settlement, job, wallet, provider, faults>>

(* Seeded fault: with Redis on, the job is never added. *)
ForgetJob(h) ==
  /\ At(h, "add")
  /\ Return(h)
  /\ UNCHANGED <<redis, payment, settlement, wallet, faults>>

AddJob(h) ==
  /\ At(h, "add")
  /\ call' = [call EXCEPT ![h] = Idle]
  /\ job' = [job EXCEPT ![call[h].p] = Add(@)]
  /\ provider' = [provider EXCEPT ![call[h].p].hook =
                    IF call[h].kind = "webhook" THEN "acked" ELSE @]
  /\ UNCHANGED <<redis, payment, settlement, wallet, faults>>

-----------------------------------------------------------------------------
(* processDepositSettlement, in a worker or inside the call *)

TakeJob(h, p) ==
  /\ job[p].state = "waiting"
  /\ Start(h, p, "job", "begin")
  /\ job' = [job EXCEPT ![p] = Take(@, h)]
  /\ UNCHANGED <<redis, payment, settlement, wallet, provider, faults>>

BeginSettlement(h) ==
  /\ At(h, "begin")
  /\ IF payment[call[h].p].walletTxn
     THEN Return(h)
     ELSE Goto(h, "mark") /\ UNCHANGED <<job, provider>>
  /\ UNCHANGED <<redis, payment, settlement, wallet, faults>>

(* Seeded fault: the settlement is completed before the wallet is credited. *)
CompleteEarly(h) ==
  /\ At(h, "mark")
  /\ settlement' = [settlement EXCEPT ![call[h].p] = "COMPLETED"]
  /\ Goto(h, "deposit")
  /\ UNCHANGED <<redis, payment, job, wallet, provider, faults>>

MarkProcessing(h) ==
  /\ At(h, "mark")
  /\ settlement' = [settlement EXCEPT ![call[h].p] = "PROCESSING"]
  /\ Goto(h, "deposit")
  /\ UNCHANGED <<redis, payment, job, wallet, provider, faults>>

(* walletService.deposit: a key that was posted is answered, not posted. *)
Deposit(h) ==
  LET p == call[h].p
      k == WalletKey(p, h)
  IN  /\ At(h, "deposit")
      /\ wallet' = IF k \in wallet.posted THEN wallet
                   ELSE [wallet EXCEPT !.posted = @ \cup {k}, !.credited[p] = @ + 1]
      /\ Goto(h, "settle")
      /\ UNCHANGED <<redis, payment, settlement, job, provider, faults>>

MarkSettled(h) ==
  /\ At(h, "settle")
  /\ payment' = [payment EXCEPT ![call[h].p].status = "CAPTURED",
                                ![call[h].p].walletTxn = TRUE]
  /\ Goto(h, "complete")
  /\ UNCHANGED <<redis, settlement, job, wallet, provider, faults>>

MarkCompleted(h) ==
  /\ At(h, "complete")
  /\ settlement' = [settlement EXCEPT ![call[h].p] = "COMPLETED"]
  /\ Goto(h, "audit")
  /\ UNCHANGED <<redis, payment, job, wallet, provider, faults>>

(* The audit row, still inside the try block. *)
RecordCompletion(h) ==
  /\ At(h, "audit")
  /\ Return(h)
  /\ UNCHANGED <<redis, payment, settlement, wallet, faults>>

MarkFailed(h) ==
  /\ At(h, "catch")
  /\ settlement' = [settlement EXCEPT ![call[h].p] = "FAILED"]
  /\ Throw(h)
  /\ UNCHANGED <<redis, payment, wallet, faults>>

-----------------------------------------------------------------------------
(* What goes wrong *)

InTry == {"deposit", "settle", "complete", "audit"}

Spend(kind) ==
  /\ faults["client"] + faults["webhook"] + faults["job"] < MaxFaults
  /\ faults' = [faults EXCEPT ![kind] = @ + 1]

(* The awaited call of the step is rejected.  The audit row written before *)
(* the try block fails at the same step as the deposit inside it.          *)
Fault(h) ==
  /\ call[h] # Idle
  /\ Spend(call[h].kind)
  /\ \/ /\ call[h].at \in InTry
        /\ Goto(h, "catch")
        /\ UNCHANGED <<job, provider>>
     \/ /\ call[h].at \in (Steps \ InTry) \cup {"deposit"}
        /\ Throw(h)
  /\ UNCHANGED <<redis, payment, settlement, wallet>>

(* The process dies: no catch block runs, nobody is answered. *)
Crash(h) ==
  /\ call[h] # Idle
  /\ Spend(call[h].kind)
  /\ call' = [call EXCEPT ![h] = Idle]
  /\ UNCHANGED <<redis, payment, settlement, job, wallet, provider>>

(* A worker that still runs loses its lock. *)
LoseLock(p) ==
  /\ job[p].state = "active"
  /\ Spend("job")
  /\ job' = [job EXCEPT ![p] = Stall(@)]
  /\ UNCHANGED <<redis, payment, settlement, wallet, provider, call>>

Runs(h, p) == call[h] # Idle /\ call[h].p = p /\ call[h].kind = "job"

(* The stalled check finds the job of a worker that died. *)
Stalled(p) ==
  /\ job[p].state = "active"
  /\ ~Runs(job[p].worker, p)
  /\ job' = [job EXCEPT ![p] = Stall(@)]
  /\ UNCHANGED <<redis, payment, settlement, wallet, provider, call, faults>>

-----------------------------------------------------------------------------
Step(h) ==
  \/ Verified(h) \/ VerificationPending(h) \/ VerificationFailed(h) \/ VerificationThrows(h)
  \/ CheckDuplicatePayment(h) \/ MarkCaptured(h)
  \/ FindSettlement(h) \/ CreateSettlement(h) \/ LinkSettlement(h) \/ AddJob(h)
  \/ BeginSettlement(h) \/ MarkProcessing(h) \/ Deposit(h) \/ MarkSettled(h)
  \/ MarkCompleted(h) \/ RecordCompletion(h) \/ MarkFailed(h)

Next ==
  \/ \E p \in Payments, order \in Orders : CreateOrder(p, order)
  \/ \E p \in Payments : Pay(p) \/ LoseLock(p) \/ Stalled(p)
  \/ \E h \in Handlers, p \in Payments :
       CompleteMockPayment(h, p) \/ VerifyClientPayment(h, p) \/ HandleWebhook(h, p) \/ TakeJob(h, p)
  \/ \E h \in Handlers : Step(h) \/ Fault(h) \/ Crash(h)

Spec == Init /\ [][Next]_vars

(* Started calls go on; workers take jobs and the stalled check runs; the  *)
(* provider repeats a webhook until it is answered with 200.               *)
FairSpec ==
  /\ Spec
  /\ \A h \in Handlers : WF_vars(Step(h))
  /\ \A p \in Payments :
       /\ SF_vars(\E h \in Handlers : TakeJob(h, p))
       /\ WF_vars(Stalled(p))
       /\ SF_vars(provider[p].hook # "acked" /\ \E h \in Handlers : HandleWebhook(h, p))

-----------------------------------------------------------------------------
(* Properties *)

(* A payment is credited at most once, however many callbacks, webhooks,   *)
(* retries and stalled workers settle it, and only if the payer paid.      *)
MoneyFollowsPayment ==
  \A p \in Payments :
    wallet.credited[p] <= IF provider[p].paid THEN 1 ELSE 0

(* What the documents say is true of the wallet: a payment that carries    *)
(* walletTransactionId was credited, and a COMPLETED settlement belongs to *)
(* such a payment (settlement.service.ts, processDepositSettlement).       *)
DocumentsTellTruth ==
  \A p \in Payments :
    /\ payment[p].walletTxn => wallet.credited[p] = 1
    /\ settlement[p] = "COMPLETED" => payment[p].walletTxn

UnderWay(p) ==
  \/ job[p].state \in {"waiting", "active"}
  \/ \E h \in Handlers : call[h] # Idle /\ call[h].p = p

(* Without faults, when the last callback has been answered, the money is  *)
(* in the wallet and the settlement is closed: of racing callbacks one     *)
(* always carries the settlement to its end (enqueueDepositSettlement).    *)
AnsweredMeansSettled ==
  \A p \in Payments :
    faults = [k \in Kinds |-> 0] /\ provider[p].hook = "acked" /\ ~UnderWay(p) =>
      wallet.credited[p] = 1 /\ settlement[p] = "COMPLETED"

(* Every payment that was paid is credited in the end, although workers    *)
(* fail, die or lose their lock, as long as no callback was hit and a job  *)
(* has an attempt left.  Nothing ever credits a UPI order of Stripe.       *)
CallbackHit == faults["client"] + faults["webhook"] > 0
PaidIsCredited ==
  \A p \in Payments :
    provider[p].paid /\ provider[p].order # "upi" ~>
      wallet.credited[p] = 1 \/ CallbackHit

=============================================================================
