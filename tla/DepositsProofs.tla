---------------------------- MODULE DepositsProofs ----------------------------
(***************************************************************************)
(* Proofs about Deposits, for any payments, calls, attempts and faults: a  *)
(* payment is credited at most once and only if it was paid, and what its  *)
(* documents say of the wallet is true.                                    *)
(*                                                                         *)
(* The money follows two chains.  Whoever is past the verification of the  *)
(* payment - a call, a settlement, a job - has it from one that was paid.  *)
(* And a document is written only by a call that has done what it says.    *)
(* Without faults a third one shows that every answered payment settles.   *)
(***************************************************************************)
EXTENDS Deposits, TLAPS

Paid(p) == provider[p].paid
Posted(p) == <<p, Nobody>> \in wallet.posted
Marked(p) == payment[p].walletTxn

(* What a call that has come to its step has seen or done.                 *)
Fits(c) ==
  /\ c.at # "verify" => Paid(c.p)
  /\ c.at = "settle" => Posted(c.p)
  /\ c.at \in {"complete", "audit"} => Marked(c.p)

JobOK(p) ==
  /\ job[p].state # "none" => Paid(p)
  /\ job[p].state \in {"waiting", "active"} => job[p].made < Attempts

MoneyOK(p) ==
  /\ wallet.credited[p] = IF Posted(p) THEN 1 ELSE 0
  /\ Posted(p) => Paid(p)
  /\ Marked(p) => Posted(p)
  /\ settlement[p] # "none" => Paid(p)
  /\ settlement[p] = "COMPLETED" => Marked(p)

IInv ==
  /\ TypeOK
  /\ \A h \in Handlers : call[h] # Idle => Fits(call[h])
  /\ \A p \in Payments : JobOK(p) /\ MoneyOK(p)

-----------------------------------------------------------------------------
LEMMA InitEstablishes == Init => IInv
<1> SUFFICES ASSUME Init PROVE IInv
  OBVIOUS
<1>1. NoJob \in Jobs
  BY JobQueueAssumption DEF NoJob, Jobs
<1>2. TypeOK
  BY <1>1, DepositsAssumption DEF Init, TypeOK, PaymentDocuments, PaymentStatuses,
     SettlementStatuses, Orders, StripeOrders, Kinds
<1>3. \A h \in Handlers : call[h] = Idle
  BY DEF Init
<1>4. ASSUME NEW p \in Payments PROVE JobOK(p) /\ MoneyOK(p)
  BY DEF Init, JobOK, MoneyOK, NoJob, Paid, Posted, Marked
<1> QED
  BY <1>2, <1>3, <1>4 DEF IInv

(* A call at a step is one of Calls.                                       *)
LEMMA Caller ==
  ASSUME IInv, NEW h \in Handlers, call[h] # Idle \/ call[h].at \in Steps
  PROVE  /\ call[h] \in Calls /\ Fits(call[h])
         /\ call[h].p \in Payments /\ call[h].kind \in Kinds /\ call[h].at \in Steps
<1>1. Idle.at \notin Steps
  BY DEF Idle, Steps
<1>2. call[h] # Idle
  BY <1>1
<1> QED
  BY <1>2 DEF IInv, TypeOK, Calls

(* A step keeps the invariant if it leaves the other calls alone, takes    *)
(* back nothing, and fits its own call.                                    *)
LEMMA Together ==
  ASSUME IInv, NEW h \in Handlers, TypeOK',
         \A g \in Handlers : g # h => call'[g] = call[g],
         call[h]' # Idle => Fits(call[h])',
         \A p \in Payments : /\ Paid(p) => Paid(p)'
                             /\ Posted(p) => Posted(p)'
                             /\ Marked(p) => Marked(p)',
         \A p \in Payments : JobOK(p)' /\ MoneyOK(p)'
  PROVE  IInv'
<1>1. ASSUME NEW g \in Handlers, g # h, call[g]' # Idle PROVE Fits(call[g])'
  <2>1. call'[g] = call[g] /\ call[g] # Idle
    BY <1>1
  <2>2. Fits(call[g]) /\ call[g].p \in Payments
    BY <2>1, Caller
  <2> QED
    BY <2>1, <2>2 DEF Fits
<1> QED
  BY <1>1 DEF IInv

(* How a call goes on and ends, and what that does to its job.             *)
LEMMA GoesOn ==
  ASSUME IInv, NEW h \in Handlers, call[h] \in Calls, NEW step \in Steps, Goto(h, step)
  PROVE  /\ call' \in [Handlers -> Calls \cup {Idle}]
         /\ call'[h].at = step /\ call'[h].p = call[h].p /\ call'[h].kind = call[h].kind
         /\ \A g \in Handlers : g # h => call'[g] = call[g]
BY DEF IInv, TypeOK, Goto, Calls

LEMMA Begins ==
  ASSUME IInv, NEW h \in Handlers, NEW p \in Payments, NEW kind \in Kinds, NEW step \in Steps,
         Start(h, p, kind, step)
  PROVE  /\ call' \in [Handlers -> Calls \cup {Idle}]
         /\ call'[h].at = step /\ call'[h].p = p
         /\ \A g \in Handlers : g # h => call'[g] = call[g]
BY DEF IInv, TypeOK, Start, Calls

LEMMA JobSteps ==
  ASSUME IInv, NEW p \in Payments, NEW h \in Handlers,
         NEW j \in {job[p], Complete(job[p], h), Retry(job[p], h)}
  PROVE  /\ j \in Jobs
         /\ j.state # "none" => job[p].state # "none"
         /\ j.state \in {"waiting", "active"} => j.made < Attempts
<1>1. job[p] \in Jobs /\ JobOK(p)
  BY DEF IInv, TypeOK
<1>2. CASE j = job[p]
  BY <1>1, <1>2 DEF JobOK
<1>3. CASE j = Complete(job[p], h)
  BY <1>1, <1>3, JobQueueAssumption DEF JobOK, Complete, NoJob, Jobs
<1>4. CASE j = Retry(job[p], h)
  <2>1. CASE ~HeldBy(job[p], h)
    BY <1>1, <1>4, <2>1 DEF JobOK, Retry
  <2>2. CASE HeldBy(job[p], h)
    <3>1. job[p].state = "active" /\ job[p].made \in Nat /\ job[p].made < Attempts
      BY <1>1, <2>2, JobQueueAssumption DEF HeldBy, JobOK, Jobs
    <3>2. /\ j.made = job[p].made + 1 /\ j.stalls = job[p].stalls /\ j.worker = Nobody
          /\ j.state = IF job[p].made + 1 < Attempts THEN "waiting" ELSE "failed"
          /\ j = [state |-> j.state, made |-> j.made, stalls |-> j.stalls, worker |-> j.worker]
      BY <1>1, <1>4, <2>2 DEF Retry, Jobs
    <3>3. j.made \in 0..Attempts /\ job[p].stalls \in 0..1
      BY <1>1, <3>1, <3>2, JobQueueAssumption DEF Jobs
    <3> QED
      BY <3>1, <3>2, <3>3 DEF Jobs
  <2> QED
    BY <2>1, <2>2
<1> QED
  BY <1>2, <1>3, <1>4

LEMMA EndOfCall ==
  ASSUME IInv, NEW h \in Handlers, call[h] \in Calls, Return(h) \/ Throw(h)
  PROVE  /\ call' \in [Handlers -> Calls \cup {Idle}] /\ call'[h] = Idle
         /\ \A g \in Handlers : g # h => call'[g] = call[g]
         /\ job' \in [Payments -> Jobs]
         /\ \A p \in Payments :
              /\ job'[p].state # "none" => job[p].state # "none"
              /\ job'[p].state \in {"waiting", "active"} => job'[p].made < Attempts
         /\ provider' \in [Payments -> [order : Orders \cup {"none"}, paid : BOOLEAN,
                                        hook : {"none", "received", "acked"}]]
         /\ \A p \in Payments : provider'[p].paid = provider[p].paid
<1> DEFINE q == call[h].p
<1>1. q \in Payments
  BY DEF Calls
<1>2. /\ call' \in [Handlers -> Calls \cup {Idle}] /\ call'[h] = Idle
      /\ \A g \in Handlers : g # h => call'[g] = call[g]
  BY DEF IInv, TypeOK, Return, Throw
<1>3. PICK j \in {job[q], Complete(job[q], h), Retry(job[q], h)} : job' = [job EXCEPT ![q] = j]
  BY DEF Return, Throw
<1>4. /\ job' \in [Payments -> Jobs]
      /\ \A p \in Payments :
           /\ job'[p].state # "none" => job[p].state # "none"
           /\ job'[p].state \in {"waiting", "active"} => job'[p].made < Attempts
  <2>1. /\ j \in Jobs /\ (j.state # "none" => job[q].state # "none")
        /\ (j.state \in {"waiting", "active"} => j.made < Attempts)
    BY <1>1, JobSteps
  <2>2. job \in [Payments -> Jobs] /\ \A p \in Payments : JobOK(p)
    BY DEF IInv, TypeOK
  <2> HIDE DEF q
  <2>3. \A p \in Payments : job'[p] = IF p = q THEN j ELSE job[p]
    BY <1>3, <2>2
  <2>4. job' \in [Payments -> Jobs]
    BY <1>3, <2>1, <2>2
  <2>5. ASSUME NEW p \in Payments
        PROVE  /\ job'[p].state # "none" => job[p].state # "none"
               /\ job'[p].state \in {"waiting", "active"} => job'[p].made < Attempts
    <3>1. CASE p = q
      BY <2>1, <2>3, <3>1
    <3>2. CASE p # q
      BY <2>2, <2>3, <3>2 DEF JobOK
    <3> QED
      BY <3>1, <3>2
  <2> QED
    BY <2>4, <2>5
<1>5. /\ provider' \in [Payments -> [order : Orders \cup {"none"}, paid : BOOLEAN,
                                     hook : {"none", "received", "acked"}]]
      /\ \A p \in Payments : provider'[p].paid = provider[p].paid
  <2>1. provider \in [Payments -> [order : Orders \cup {"none"}, paid : BOOLEAN,
                                   hook : {"none", "received", "acked"}]]
    BY DEF IInv, TypeOK
  <2>2. CASE UNCHANGED provider
    BY <2>1, <2>2
  <2>3. CASE provider' = [provider EXCEPT ![q].hook =
                            IF call[h].kind = "webhook" THEN "acked" ELSE @]
    BY <1>1, <2>1, <2>3
  <2> QED
    BY <2>2, <2>3 DEF Return, Throw
<1> QED
  BY <1>2, <1>4, <1>5

-----------------------------------------------------------------------------
(* A call that ends, or goes on to a step it fits, and has written no      *)
(* document and no money.                                                  *)
LEMMA QuietEnd ==
  ASSUME IInv, NEW h \in Handlers, call[h] \in Calls, Return(h) \/ Throw(h),
         faults' \in [Kinds -> 0..MaxFaults],
         UNCHANGED <<redis, payment, settlement, wallet>>
  PROVE  IInv'
<1>1. TypeOK'
  BY EndOfCall DEF IInv, TypeOK
<1>2. ASSUME NEW p \in Payments
      PROVE  /\ Paid(p)' = Paid(p) /\ Posted(p)' = Posted(p) /\ Marked(p)' = Marked(p)
             /\ JobOK(p)' /\ MoneyOK(p)'
  <2>1. Paid(p)' = Paid(p) /\ Posted(p)' = Posted(p) /\ Marked(p)' = Marked(p)
    BY EndOfCall DEF Paid, Posted, Marked
  <2>2. JobOK(p) /\ MoneyOK(p)
    BY DEF IInv
  <2>3. JobOK(p)'
    BY <2>1, <2>2, EndOfCall DEF JobOK
  <2>4. MoneyOK(p)'
    BY <2>1, <2>2 DEF MoneyOK
  <2> QED
    BY <2>1, <2>3, <2>4
<1> QED
  BY <1>1, <1>2, EndOfCall, Together

LEMMA QuietStep ==
  ASSUME IInv, NEW h \in Handlers, call[h] \in Calls, NEW step \in Steps, Goto(h, step),
         call[h].at = "verify" => Paid(call[h].p),
         step \notin {"settle", "complete", "audit"},
         faults' \in [Kinds -> 0..MaxFaults],
         UNCHANGED <<redis, payment, settlement, job, wallet, provider>>
  PROVE  IInv'
<1>1. TypeOK'
  BY GoesOn DEF IInv, TypeOK
<1>2. ASSUME NEW p \in Payments
      PROVE  /\ Paid(p)' = Paid(p) /\ Posted(p)' = Posted(p) /\ Marked(p)' = Marked(p)
             /\ JobOK(p)' /\ MoneyOK(p)'
  BY DEF IInv, Paid, Posted, Marked, JobOK, MoneyOK
<1>3. Fits(call[h])'
  <2>1. Fits(call[h]) /\ call[h].p \in Payments
    BY Caller DEF Calls
  <2>2. Paid(call[h].p)
    BY <2>1 DEF Fits
  <2> QED
    BY <1>2, <2>1, <2>2, GoesOn DEF Fits
<1> QED
  BY <1>1, <1>2, <1>3, GoesOn, Together

-----------------------------------------------------------------------------
(* Steps that write a document or the wallet, one lemma each.  Together    *)
(* asks of each: the types, what it leaves true, and what its call fits.   *)
LEMMA CreateOrderKeeps ==
  ASSUME IInv, NEW p \in Payments, NEW order \in Orders, CreateOrder(p, order)
  PROVE  IInv'
<1>1. TypeOK'
  <2>1. payment' \in [Payments -> PaymentDocuments]
    BY SMTT(30) DEF IInv, TypeOK, CreateOrder, PaymentDocuments, PaymentStatuses
  <2>2. provider' \in [Payments -> [order : Orders \cup {"none"}, paid : BOOLEAN,
                                    hook : {"none", "received", "acked"}]]
    BY SMTT(30) DEF IInv, TypeOK, CreateOrder
  <2> QED
    BY <2>1, <2>2 DEF IInv, TypeOK, CreateOrder
<1>2. ASSUME NEW q \in Payments
      PROVE  Paid(q)' = Paid(q) /\ Posted(q)' = Posted(q) /\ Marked(q)' = Marked(q)
  BY DEF IInv, TypeOK, CreateOrder, Paid, Posted, Marked, PaymentDocuments
<1>3. ASSUME NEW q \in Payments PROVE JobOK(q)' /\ MoneyOK(q)'
  BY <1>2 DEF IInv, CreateOrder, JobOK, MoneyOK
<1>4. ASSUME NEW h \in Handlers, call'[h] # Idle PROVE Fits(call[h])'
  <2>1. call' = call
    BY DEF CreateOrder
  <2>2. Fits(call[h]) /\ call[h].p \in Payments
    BY <1>4, <2>1, Caller
  <2> QED
    BY <1>2, <2>1, <2>2 DEF Fits
<1> QED
  BY <1>1, <1>3, <1>4 DEF IInv

LEMMA PayKeeps ==
  ASSUME IInv, NEW p \in Payments, Pay(p)
  PROVE  IInv'
<1>1. TypeOK'
  <2>1. provider' \in [Payments -> [order : Orders \cup {"none"}, paid : BOOLEAN,
                                    hook : {"none", "received", "acked"}]]
    BY DEF IInv, TypeOK, Pay
  <2> QED
    BY <2>1 DEF IInv, TypeOK, Pay
<1>2. ASSUME NEW q \in Payments
      PROVE  (Paid(q) => Paid(q)') /\ Posted(q)' = Posted(q) /\ Marked(q)' = Marked(q)
  BY DEF IInv, TypeOK, Pay, Paid, Posted, Marked
<1>3. ASSUME NEW q \in Payments PROVE JobOK(q)' /\ MoneyOK(q)'
  BY <1>2 DEF IInv, Pay, JobOK, MoneyOK
<1>4. ASSUME NEW h \in Handlers, call'[h] # Idle PROVE Fits(call[h])'
  <2>1. call' = call
    BY DEF Pay
  <2>2. Fits(call[h]) /\ call[h].p \in Payments
    BY <1>4, <2>1, Caller
  <2> QED
    BY <1>2, <2>1, <2>2 DEF Fits
<1> QED
  BY <1>1, <1>3, <1>4 DEF IInv

(* A stalled job had an attempt left, and has it still.                    *)
LEMMA StallKeeps ==
  ASSUME IInv, NEW p \in Payments, job[p].state = "active", job' = [job EXCEPT ![p] = Stall(@)],
         faults' \in [Kinds -> 0..MaxFaults],
         UNCHANGED <<redis, payment, settlement, wallet, provider, call>>
  PROVE  IInv'
<1>1. job[p] \in Jobs /\ JobOK(p)
  BY DEF IInv, TypeOK
<1>2. Stall(job[p]) \in Jobs
  <2> SUFFICES ASSUME NEW j, j = Stall(job[p]) PROVE j \in Jobs
    OBVIOUS
  <2>1. /\ j.made = job[p].made /\ j.stalls = 1 /\ j.worker = Nobody
        /\ j.state \in {"waiting", "failed"}
        /\ j = [state |-> j.state, made |-> j.made, stalls |-> j.stalls, worker |-> j.worker]
    BY <1>1 DEF Stall, Jobs
  <2>2. job[p].made \in 0..Attempts /\ 1 \in 0..1
    BY <1>1 DEF Jobs
  <2> QED
    BY <2>1, <2>2 DEF Jobs
<1>3. Stall(job[p]).made = job[p].made
  BY <1>1 DEF Stall, Jobs
<1>4. TypeOK'
  BY <1>2 DEF IInv, TypeOK
<1>5. ASSUME NEW q \in Payments
      PROVE  Paid(q)' = Paid(q) /\ Posted(q)' = Posted(q) /\ Marked(q)' = Marked(q)
  BY DEF Paid, Posted, Marked
<1>6. ASSUME NEW q \in Payments PROVE JobOK(q)'
  <2>1. CASE q = p
    BY <1>1, <1>3, <1>5, <2>1 DEF IInv, TypeOK, JobOK
  <2>2. CASE q # p
    BY <1>5, <2>2 DEF IInv, TypeOK, JobOK
  <2> QED
    BY <2>1, <2>2
<1>7. ASSUME NEW q \in Payments PROVE MoneyOK(q)'
  BY <1>5 DEF IInv, MoneyOK
<1>8. ASSUME NEW h \in Handlers, call'[h] # Idle PROVE Fits(call[h])'
  <2>1. Fits(call[h]) /\ call[h].p \in Payments
    BY <1>8, Caller
  <2> QED
    BY <1>5, <2>1 DEF Fits
<1> QED
  BY <1>4, <1>6, <1>7, <1>8 DEF IInv

LEMMA Spent ==
  ASSUME TypeOK, NEW kind \in Kinds, Spend(kind)
  PROVE  faults' \in [Kinds -> 0..MaxFaults]
<1>1. faults["client"] \in Nat /\ faults["webhook"] \in Nat /\ faults["job"] \in Nat
  BY DepositsAssumption DEF TypeOK, Kinds
<1>2. faults[kind] + 1 \in 0..MaxFaults
  BY <1>1, DepositsAssumption DEF Spend, Kinds
<1> QED
  BY <1>2 DEF TypeOK, Spend

-----------------------------------------------------------------------------
(* Calls that start *)

(* A call that starts fits its step, and touches no document and no money. *)
LEMMA StartKeeps ==
  ASSUME IInv, NEW h \in Handlers, NEW p \in Payments, NEW kind \in Kinds,
         NEW step \in {"verify", "risk", "begin"}, Start(h, p, kind, step),
         step # "verify" => Paid(p)',
         provider' \in [Payments -> [order : Orders \cup {"none"}, paid : BOOLEAN,
                                     hook : {"none", "received", "acked"}]],
         job' \in [Payments -> Jobs],
         \A q \in Payments : Paid(q) => Paid(q)',
         \A q \in Payments : JobOK(q)',
         UNCHANGED <<redis, payment, settlement, wallet, faults>>
  PROVE  IInv'
<1>1. step \in Steps
  BY DEF Steps
<1>2. /\ call' \in [Handlers -> Calls \cup {Idle}]
      /\ call'[h].at = step /\ call'[h].p = p
      /\ \A g \in Handlers : g # h => call'[g] = call[g]
  BY <1>1, Begins
<1>3. TypeOK'
  BY <1>2 DEF IInv, TypeOK
<1>4. ASSUME NEW q \in Payments
      PROVE  (Paid(q) => Paid(q)') /\ Posted(q)' = Posted(q) /\ Marked(q)' = Marked(q)
  BY DEF Posted, Marked
<1>5. ASSUME NEW q \in Payments PROVE MoneyOK(q)'
  BY <1>4 DEF IInv, MoneyOK
<1>6. Fits(call[h])'
  BY <1>2 DEF Fits
<1> QED
  BY <1>2, <1>3, <1>4, <1>5, <1>6, Together

LEMMA CallsStart ==
  ASSUME IInv, NEW h \in Handlers, NEW p \in Payments,
         \/ CompleteMockPayment(h, p) \/ VerifyClientPayment(h, p)
         \/ HandleWebhook(h, p) \/ TakeJob(h, p)
  PROVE  IInv'
<1> USE DEF Kinds
<1>1. CASE CompleteMockPayment(h, p)
  <2>1. provider' \in [Payments -> [order : Orders \cup {"none"}, paid : BOOLEAN,
                                    hook : {"none", "received", "acked"}]]
    BY <1>1, ZenonT(30) DEF IInv, TypeOK, CompleteMockPayment
  <2>2. \A q \in Payments : (Paid(q) => Paid(q)') /\ (q = p => Paid(q)')
    BY <1>1 DEF IInv, TypeOK, CompleteMockPayment, Paid
  <2>3. job' = job /\ \A q \in Payments : JobOK(q)'
    BY <1>1, <2>2 DEF IInv, CompleteMockPayment, JobOK
  <2>4. job' \in [Payments -> Jobs]
    BY <2>3 DEF IInv, TypeOK
  <2>5. Start(h, p, "client", "risk")
        /\ UNCHANGED <<redis, payment, settlement, wallet, faults>>
    BY <1>1 DEF CompleteMockPayment
  <2> QED
    BY <2>1, <2>2, <2>3, <2>4, <2>5, StartKeeps
<1>2. CASE VerifyClientPayment(h, p)
  <2>1. \A q \in Payments : JobOK(q)' /\ (Paid(q) => Paid(q)')
    BY <1>2 DEF IInv, VerifyClientPayment, JobOK, Paid
  <2>2. job' \in [Payments -> Jobs]
    BY <1>2 DEF IInv, TypeOK, VerifyClientPayment
  <2>3. provider' \in [Payments -> [order : Orders \cup {"none"}, paid : BOOLEAN,
                                    hook : {"none", "received", "acked"}]]
    BY <1>2 DEF IInv, TypeOK, VerifyClientPayment
  <2>4. Start(h, p, "client", "verify")
        /\ UNCHANGED <<redis, payment, settlement, wallet, faults>>
    BY <1>2 DEF VerifyClientPayment
  <2> QED
    BY <2>1, <2>2, <2>3, <2>4, StartKeeps
<1>3. CASE HandleWebhook(h, p)
  <2>1. provider' \in [Payments -> [order : Orders \cup {"none"}, paid : BOOLEAN,
                                    hook : {"none", "received", "acked"}]]
    BY <1>3 DEF IInv, TypeOK, HandleWebhook
  <2>2. \A q \in Payments : (Paid(q) => Paid(q)') /\ (q = p => Paid(q)')
    BY <1>3 DEF IInv, TypeOK, HandleWebhook, Paid
  <2>3. job' = job /\ \A q \in Payments : JobOK(q)'
    BY <1>3, <2>2 DEF IInv, HandleWebhook, JobOK
  <2>4. job' \in [Payments -> Jobs]
    BY <2>3 DEF IInv, TypeOK
  <2>5. Start(h, p, "webhook", "risk")
        /\ UNCHANGED <<redis, payment, settlement, wallet, faults>>
    BY <1>3 DEF HandleWebhook
  <2> QED
    BY <2>1, <2>2, <2>3, <2>4, <2>5, StartKeeps
<1>4. CASE TakeJob(h, p)
  <2>1. job[p] \in Jobs /\ JobOK(p) /\ job[p].state = "waiting"
    BY <1>4 DEF IInv, TypeOK, TakeJob
  <2>2. Take(job[p], h) \in Jobs /\ Take(job[p], h).made = job[p].made
    BY <2>1 DEF Take, Jobs
  <2>3. job' \in [Payments -> Jobs]
    BY <1>4, <2>2 DEF IInv, TypeOK, TakeJob
  <2>4. \A q \in Payments : Paid(q)' = Paid(q)
    BY <1>4 DEF TakeJob, Paid
  <2>5. Paid(p)
    BY <2>1 DEF JobOK
  <2>6. ASSUME NEW q \in Payments PROVE JobOK(q)'
    <3>1. CASE q = p
      BY <1>4, <2>1, <2>2, <2>4, <3>1 DEF IInv, TypeOK, TakeJob, JobOK
    <3>2. CASE q # p
      BY <1>4, <2>4, <3>2 DEF IInv, TypeOK, TakeJob, JobOK
    <3> QED
      BY <3>1, <3>2
  <2>7. provider' \in [Payments -> [order : Orders \cup {"none"}, paid : BOOLEAN,
                                    hook : {"none", "received", "acked"}]]
    BY <1>4 DEF IInv, TypeOK, TakeJob
  <2>8. Start(h, p, "job", "begin")
        /\ UNCHANGED <<redis, payment, settlement, wallet, faults>>
    BY <1>4 DEF TakeJob
  <2> QED
    BY <2>3, <2>4, <2>5, <2>6, <2>7, <2>8, StartKeeps
<1> QED
  BY <1>1, <1>2, <1>3, <1>4

-----------------------------------------------------------------------------
(* Calls that go on *)

LEMMA QuietStepsKeep ==
  ASSUME IInv, NEW h \in Handlers,
         \/ Verified(h) \/ VerificationPending(h) \/ VerificationThrows(h)
         \/ CheckDuplicatePayment(h) \/ FindSettlement(h)
         \/ BeginSettlement(h) \/ RecordCompletion(h)
  PROVE  IInv'
<1>1. call[h].at \in Steps /\ UNCHANGED <<redis, payment, settlement, wallet, faults>>
  BY DEF Verified, VerificationPending, VerificationThrows, CheckDuplicatePayment,
     FindSettlement, BeginSettlement, RecordCompletion, At, Steps
<1>2. call[h] \in Calls /\ call[h].p \in Payments
  BY <1>1, Caller
<1>3. faults' \in [Kinds -> 0..MaxFaults]
  BY <1>1 DEF IInv, TypeOK
<1>4. CASE Return(h) \/ Throw(h)
  BY <1>1, <1>2, <1>3, <1>4, QuietEnd
<1>5. CASE /\ UNCHANGED <<job, provider>>
           /\ \/ At(h, "verify") /\ "valid" \in Answers(call[h].p) /\ Goto(h, "capture")
              \/ At(h, "risk") /\ Goto(h, "capture")
              \/ At(h, "find") /\ Goto(h, "create")
              \/ At(h, "begin") /\ Goto(h, "mark")
  <2>1. PICK step \in {"capture", "create", "mark"} : Goto(h, step)
    BY <1>5
  <2>2. call[h].at = "verify" => Paid(call[h].p)
    BY <1>5 DEF At, Answers, StripeAnswers, MockAnswers, SignatureAnswers, Paid
  <2> QED
    BY <1>1, <1>2, <1>3, <1>5, <2>1, <2>2, QuietStep DEF Steps
<1> QED
  BY <1>4, <1>5 DEF Verified, VerificationPending, VerificationThrows,
     CheckDuplicatePayment, FindSettlement, BeginSettlement, RecordCompletion

(* A call that throws after it wrote a document.                           *)
LEMMA ThrowKeeps ==
  ASSUME IInv, NEW h \in Handlers, call[h] \in Calls, Throw(h),
         payment' \in [Payments -> PaymentDocuments],
         settlement' \in [Payments -> SettlementStatuses],
         \A q \in Payments : Marked(q)' = Marked(q) /\ MoneyOK(q)',
         UNCHANGED <<redis, wallet, faults>>
  PROVE  IInv'
<1>1. TypeOK'
  BY EndOfCall DEF IInv, TypeOK
<1>2. \A q \in Payments : Paid(q)' = Paid(q) /\ Posted(q)' = Posted(q)
  BY EndOfCall DEF Paid, Posted
<1>3. ASSUME NEW q \in Payments PROVE JobOK(q)'
  BY <1>2, EndOfCall DEF IInv, JobOK
<1>4. call'[h] = Idle /\ \A g \in Handlers : g # h => call'[g] = call[g]
  BY EndOfCall
<1> QED
  BY <1>1, <1>2, <1>3, <1>4, Together

LEMMA VerificationFailedKeeps ==
  ASSUME IInv, NEW h \in Handlers, VerificationFailed(h)
  PROVE  IInv'
<1>1. call[h] \in Calls /\ call[h].p \in Payments
  BY Caller DEF VerificationFailed, At, Steps
<1>2. Throw(h) /\ UNCHANGED <<redis, settlement, wallet, faults, provider>>
  BY DEF VerificationFailed, Throw
<1>3. payment' \in [Payments -> PaymentDocuments] /\ \A q \in Payments : Marked(q)' = Marked(q)
  <2>1. payment \in [Payments -> PaymentDocuments]
        /\ payment' = [payment EXCEPT ![call[h].p].status = "FAILED"]
    BY DEF VerificationFailed, IInv, TypeOK
  <2> QED
    BY <1>1, <2>1 DEF PaymentDocuments, PaymentStatuses, Marked
<1>4. \A q \in Payments : MoneyOK(q)'
  BY <1>2, <1>3 DEF IInv, Paid, Posted, MoneyOK
<1>5. settlement' \in [Payments -> SettlementStatuses]
  BY <1>2 DEF IInv, TypeOK
<1> QED
  BY <1>1, <1>2, <1>3, <1>4, <1>5, ThrowKeeps

(* A call that goes on: what is left to show of a step that writes.        *)
LEMMA WriterKeeps ==
  ASSUME IInv, NEW h \in Handlers, call[h] \in Calls, NEW step \in Steps, Goto(h, step),
         call[h].at # "verify", step # "verify",
         step = "settle" => <<call[h].p, Nobody>> \in wallet'.posted,
         step \in {"complete", "audit"} => payment'[call[h].p].walletTxn,
         payment' \in [Payments -> PaymentDocuments],
         settlement' \in [Payments -> SettlementStatuses],
         wallet' \in [posted : SUBSET (Payments \X (Handlers \cup {Nobody})),
                      credited : [Payments -> Nat]],
         \A q \in Payments : /\ Posted(q) => Posted(q)'
                             /\ Marked(q) => Marked(q)'
                             /\ MoneyOK(q)',
         UNCHANGED <<redis, job, provider, faults>>
  PROVE  IInv'
<1>1. TypeOK'
  BY GoesOn DEF IInv, TypeOK
<1>2. \A q \in Payments : Paid(q)' = Paid(q) /\ JobOK(q)'
  BY DEF IInv, Paid, JobOK
<1>3. Fits(call[h])'
  <2>1. Fits(call[h]) /\ call[h].p \in Payments
    BY Caller DEF Calls
  <2>2. provider'[call[h].p].paid
    BY <2>1 DEF Fits, Paid
  <2>3. call'[h].at = step /\ call'[h].p = call[h].p
    BY GoesOn
  <2> QED
    BY <2>2, <2>3 DEF Fits, Paid, Posted, Marked
<1> QED
  BY <1>1, <1>2, <1>3, GoesOn, Together

LEMMA PaymentWritersKeep ==
  ASSUME IInv, NEW h \in Handlers, MarkCaptured(h) \/ LinkSettlement(h)
  PROVE  IInv'
<1>1. call[h] \in Calls /\ call[h].p \in Payments /\ call[h].at # "verify"
  BY Caller DEF MarkCaptured, LinkSettlement, At, Steps
<1>2. payment' \in [Payments -> PaymentDocuments] /\ \A q \in Payments : Marked(q)' = Marked(q)
  <2>1. payment \in [Payments -> PaymentDocuments]
    BY DEF IInv, TypeOK
  <2>2. CASE payment' = [payment EXCEPT ![call[h].p].status = "CAPTURED",
                                        ![call[h].p].linked = FALSE]
    BY <1>1, <2>1, <2>2 DEF PaymentDocuments, PaymentStatuses, Marked
  <2>3. CASE payment' = [payment EXCEPT ![call[h].p].linked = TRUE]
    BY <1>1, <2>1, <2>3 DEF PaymentDocuments, Marked
  <2> QED
    BY <2>2, <2>3 DEF MarkCaptured, LinkSettlement
<1>3. UNCHANGED <<redis, settlement, job, wallet, provider, faults>>
  BY DEF MarkCaptured, LinkSettlement
<1>4. \A q \in Payments : Posted(q)' = Posted(q) /\ MoneyOK(q)'
  BY <1>2, <1>3 DEF IInv, Paid, Posted, MoneyOK
<1>5. PICK step \in {"find", "add", "begin"} : Goto(h, step)
  BY DEF MarkCaptured, LinkSettlement
<1>6. step \in Steps /\ step \notin {"verify", "settle", "complete", "audit"}
  BY DEF Steps
<1>7. /\ settlement' \in [Payments -> SettlementStatuses]
      /\ wallet' \in [posted : SUBSET (Payments \X (Handlers \cup {Nobody})),
                      credited : [Payments -> Nat]]
  BY <1>3 DEF IInv, TypeOK
<1> QED
  BY <1>1, <1>2, <1>3, <1>4, <1>5, <1>6, <1>7, WriterKeeps

(* A settlement is created, taken up or failed; none of this completes it. *)
LEMMA SettlementWritersKeep ==
  ASSUME IInv, NEW h \in Handlers, CreateSettlement(h) \/ MarkProcessing(h) \/ MarkFailed(h)
  PROVE  IInv'
<1>1. /\ call[h] \in Calls /\ call[h].p \in Payments /\ call[h].at # "verify"
      /\ Paid(call[h].p)
  BY Caller DEF CreateSettlement, MarkProcessing, MarkFailed, At, Steps, Fits
<1>2. CASE CreateSettlement(h) /\ settlement[call[h].p] # "none"
  BY <1>1, <1>2, QuietEnd DEF CreateSettlement, IInv, TypeOK
<1>3. ASSUME NEW status \in {"PENDING", "PROCESSING", "FAILED"},
             settlement' = [settlement EXCEPT ![call[h].p] = status],
             UNCHANGED <<redis, payment, wallet, provider, faults>>
      PROVE  /\ settlement' \in [Payments -> SettlementStatuses]
             /\ payment' \in [Payments -> PaymentDocuments]
             /\ wallet' \in [posted : SUBSET (Payments \X (Handlers \cup {Nobody})),
                             credited : [Payments -> Nat]]
             /\ \A q \in Payments : /\ Marked(q)' = Marked(q) /\ Posted(q)' = Posted(q)
                                    /\ MoneyOK(q)'
  <2>1. settlement' \in [Payments -> SettlementStatuses]
    BY <1>1, <1>3 DEF IInv, TypeOK, SettlementStatuses
  <2>2. \A q \in Payments : /\ Marked(q)' = Marked(q) /\ Posted(q)' = Posted(q)
                            /\ Paid(q)' = Paid(q)
    BY <1>3 DEF Marked, Posted, Paid
  <2>3. \A q \in Payments : settlement'[q] = IF q = call[h].p THEN status ELSE settlement[q]
    BY <1>1, <1>3 DEF IInv, TypeOK
  <2>4. ASSUME NEW q \in Payments PROVE MoneyOK(q)'
    BY <1>1, <1>3, <2>2, <2>3 DEF IInv, MoneyOK
  <2> QED
    BY <1>3, <2>1, <2>2, <2>4 DEF IInv, TypeOK
<1>4. CASE CreateSettlement(h) /\ settlement[call[h].p] = "none"
  <2>1. /\ settlement' = [settlement EXCEPT ![call[h].p] = "PENDING"]
        /\ UNCHANGED <<redis, payment, job, wallet, provider, faults>>
        /\ Goto(h, "link") /\ "link" \in Steps
    BY <1>4 DEF CreateSettlement, Steps
  <2> QED
    BY <1>1, <1>3, <2>1, WriterKeeps
<1>5. CASE MarkProcessing(h)
  <2>1. /\ settlement' = [settlement EXCEPT ![call[h].p] = "PROCESSING"]
        /\ UNCHANGED <<redis, payment, job, wallet, provider, faults>>
        /\ Goto(h, "deposit") /\ "deposit" \in Steps
    BY <1>5 DEF MarkProcessing, Steps
  <2> QED
    BY <1>1, <1>3, <2>1, WriterKeeps
<1>6. CASE MarkFailed(h)
  <2>1. /\ settlement' = [settlement EXCEPT ![call[h].p] = "FAILED"]
        /\ UNCHANGED <<redis, payment, wallet, provider, faults>> /\ Throw(h)
    BY <1>6 DEF MarkFailed, Throw
  <2> QED
    BY <1>1, <1>3, <2>1, ThrowKeeps
<1> QED
  BY <1>2, <1>4, <1>5, <1>6

(* The wallet posts under the key of the payment, so it credits once.      *)
LEMMA DepositKeeps ==
  ASSUME IInv, NEW h \in Handlers, Deposit(h)
  PROVE  IInv'
<1> DEFINE p == call[h].p
           k == <<p, Nobody>>
<1>1. /\ call[h] \in Calls /\ p \in Payments /\ call[h].at # "verify" /\ Paid(p)
  BY Caller DEF Deposit, At, Steps, Fits
<1>2. /\ wallet' = IF k \in wallet.posted THEN wallet
                   ELSE [wallet EXCEPT !.posted = @ \cup {k}, !.credited[p] = @ + 1]
      /\ Goto(h, "settle") /\ "settle" \in Steps
      /\ UNCHANGED <<redis, payment, settlement, job, provider, faults>>
  BY DEF Deposit, WalletKey, Steps
<1>3. /\ wallet \in [posted : SUBSET (Payments \X (Handlers \cup {Nobody})),
                     credited : [Payments -> Nat]]
      /\ \A q \in Payments : MoneyOK(q)
  BY DEF IInv, TypeOK
<1> HIDE DEF p
<1>4. \A q \in Payments : /\ Marked(q)' = Marked(q) /\ Paid(q)' = Paid(q)
                          /\ settlement'[q] = settlement[q]
  BY <1>2 DEF Marked, Paid
<1>5. CASE k \in wallet.posted
  <2>1. wallet' = wallet /\ k \in wallet'.posted
    BY <1>2, <1>5
  <2>2. \A q \in Payments : Posted(q)' = Posted(q) /\ MoneyOK(q)'
    BY <1>3, <1>4, <2>1 DEF Posted, MoneyOK
  <2> QED
    BY <1>1, <1>2, <1>3, <1>4, <2>1, <2>2, WriterKeeps DEF p, IInv, TypeOK
<1>6. CASE k \notin wallet.posted
  <2>1. /\ wallet'.posted = wallet.posted \cup {k}
        /\ wallet'.credited = [wallet.credited EXCEPT ![p] = @ + 1]
        /\ wallet' = [posted |-> wallet'.posted, credited |-> wallet'.credited]
    BY <1>2, <1>3, <1>6
  <2>2. k \in Payments \X (Handlers \cup {Nobody})
    BY <1>1
  <2>3. wallet.posted \in SUBSET (Payments \X (Handlers \cup {Nobody}))
        /\ wallet.credited \in [Payments -> Nat]
    BY <1>3
  <2>4. /\ wallet'.posted \in SUBSET (Payments \X (Handlers \cup {Nobody}))
        /\ wallet'.credited \in [Payments -> Nat]
    BY <1>1, <2>1, <2>2, <2>3
  <2>5. wallet' \in [posted : SUBSET (Payments \X (Handlers \cup {Nobody})),
                     credited : [Payments -> Nat]]
    BY <2>1, <2>4
  <2>6. \A q \in Payments : /\ Posted(q) => Posted(q)'
                            /\ q = p => Posted(q)' /\ ~Posted(q)
                            /\ q # p => (Posted(q)' <=> Posted(q))
    BY <1>6, <2>1 DEF Posted
  <2>7. \A q \in Payments :
          wallet'.credited[q] = IF q = p THEN wallet.credited[q] + 1 ELSE wallet.credited[q]
    BY <1>1, <2>1, <2>3
  <2>8. ASSUME NEW q \in Payments PROVE MoneyOK(q)'
    <3>1. CASE q = p
      <4>1. wallet.credited[q] = 0
        BY <1>3, <2>6, <3>1 DEF MoneyOK
      <4>2. wallet'.credited[q] = 1
        BY <2>7, <3>1, <4>1
      <4>3. Posted(q)'
        BY <2>6, <3>1
      <4> QED
        BY <1>1, <1>3, <1>4, <3>1, <4>2, <4>3 DEF MoneyOK
    <3>2. CASE q # p
      <4>1. wallet'.credited[q] = wallet.credited[q]
        BY <2>7, <3>2
      <4>2. Posted(q)' <=> Posted(q)
        BY <2>6, <3>2
      <4> QED
        BY <1>3, <1>4, <4>1, <4>2 DEF MoneyOK
    <3> QED
      BY <3>1, <3>2
  <2>9. k \in wallet'.posted
    BY <2>1
  <2>10. payment' \in [Payments -> PaymentDocuments]
        /\ settlement' \in [Payments -> SettlementStatuses]
    BY <1>2 DEF IInv, TypeOK
  <2> QED
    BY <1>1, <1>2, <1>4, <2>5, <2>6, <2>8, <2>9, <2>10, WriterKeeps DEF p
<1> QED
  BY <1>5, <1>6

LEMMA MarkSettledKeeps ==
  ASSUME IInv, NEW h \in Handlers, MarkSettled(h)
  PROVE  IInv'
<1> DEFINE p == call[h].p
<1>1. /\ call[h] \in Calls /\ p \in Payments /\ call[h].at # "verify" /\ Posted(p)
  BY Caller DEF MarkSettled, At, Steps, Fits
<1>2. /\ Goto(h, "complete") /\ "complete" \in Steps
      /\ UNCHANGED <<redis, settlement, job, wallet, provider, faults>>
  BY DEF MarkSettled, Steps
<1>3. /\ payment' \in [Payments -> PaymentDocuments]
      /\ payment'[p].walletTxn
      /\ \A q \in Payments : /\ Marked(q) => Marked(q)'
                             /\ q # p => (Marked(q)' <=> Marked(q))
  <2>1. /\ payment \in [Payments -> PaymentDocuments]
        /\ payment' = [payment EXCEPT ![p].status = "CAPTURED", ![p].walletTxn = TRUE]
    BY DEF MarkSettled, IInv, TypeOK
  <2> QED
    BY <1>1, <2>1 DEF PaymentDocuments, PaymentStatuses, Marked
<1>4. \A q \in Payments : Posted(q)' = Posted(q) /\ Paid(q)' = Paid(q)
  BY <1>2 DEF Posted, Paid
<1>5. ASSUME NEW q \in Payments PROVE MoneyOK(q)'
  <2>1. MoneyOK(q) /\ (q = p => Posted(q))
    BY <1>1 DEF IInv
  <2> QED
    BY <1>2, <1>3, <1>4, <2>1 DEF MoneyOK
<1>6. /\ settlement' \in [Payments -> SettlementStatuses]
      /\ wallet' \in [posted : SUBSET (Payments \X (Handlers \cup {Nobody})),
                      credited : [Payments -> Nat]]
  BY <1>2 DEF IInv, TypeOK
<1> QED
  BY <1>1, <1>2, <1>3, <1>4, <1>5, <1>6, WriterKeeps

LEMMA MarkCompletedKeeps ==
  ASSUME IInv, NEW h \in Handlers, MarkCompleted(h)
  PROVE  IInv'
<1> DEFINE p == call[h].p
<1>1. /\ call[h] \in Calls /\ p \in Payments /\ call[h].at # "verify" /\ Marked(p) /\ Paid(p)
  BY Caller DEF MarkCompleted, At, Steps, Fits
<1>2. /\ Goto(h, "audit") /\ "audit" \in Steps
      /\ UNCHANGED <<redis, payment, job, wallet, provider, faults>>
  BY DEF MarkCompleted, Steps
<1>3. /\ settlement' \in [Payments -> SettlementStatuses]
      /\ \A q \in Payments : settlement'[q] = IF q = p THEN "COMPLETED" ELSE settlement[q]
  BY <1>1 DEF MarkCompleted, IInv, TypeOK, SettlementStatuses
<1>4. /\ payment'[p].walletTxn
      /\ \A q \in Payments : Posted(q)' = Posted(q) /\ Paid(q)' = Paid(q) /\ Marked(q)' = Marked(q)
  BY <1>1, <1>2 DEF Posted, Paid, Marked
<1>5. \A q \in Payments : MoneyOK(q)'
  BY <1>1, <1>2, <1>3, <1>4 DEF IInv, MoneyOK
<1>6. /\ payment' \in [Payments -> PaymentDocuments]
      /\ wallet' \in [posted : SUBSET (Payments \X (Handlers \cup {Nobody})),
                      credited : [Payments -> Nat]]
  BY <1>2 DEF IInv, TypeOK
<1> QED
  BY <1>1, <1>2, <1>3, <1>4, <1>5, <1>6, WriterKeeps

-----------------------------------------------------------------------------
(* A job is added only by a call that is past the verification.            *)
LEMMA AddJobKeeps ==
  ASSUME IInv, NEW h \in Handlers, AddJob(h)
  PROVE  IInv'
<1> DEFINE p == call[h].p
<1>1. /\ call[h] \in Calls /\ p \in Payments /\ Paid(p)
  BY Caller DEF AddJob, At, Steps, Fits
<1>2. job[p] \in Jobs /\ JobOK(p)
  BY <1>1 DEF IInv, TypeOK
<1>3. /\ Add(job[p]) \in Jobs
      /\ Add(job[p]).state \in {"waiting", "active"} => Add(job[p]).made < Attempts
  <2>1. CASE job[p].state = "none"
    <3>1. Add(job[p]) = [state |-> "waiting", made |-> 0, stalls |-> 0, worker |-> Nobody]
      BY <2>1 DEF Add, NoJob
    <3>2. 0 \in 0..Attempts /\ 0 \in 0..1 /\ 0 < Attempts
      BY JobQueueAssumption
    <3> QED
      BY <3>1, <3>2 DEF Jobs
  <2>2. CASE job[p].state # "none"
    BY <1>2, <2>2 DEF Add, JobOK
  <2> QED
    BY <2>1, <2>2
<1>4. /\ call' \in [Handlers -> Calls \cup {Idle}] /\ call'[h] = Idle
      /\ \A g \in Handlers : g # h => call'[g] = call[g]
  BY DEF IInv, TypeOK, AddJob
<1>5. /\ provider' \in [Payments -> [order : Orders \cup {"none"}, paid : BOOLEAN,
                                     hook : {"none", "received", "acked"}]]
      /\ \A q \in Payments : Paid(q)' = Paid(q)
  <2>1. provider \in [Payments -> [order : Orders \cup {"none"}, paid : BOOLEAN,
                                   hook : {"none", "received", "acked"}]]
    BY DEF IInv, TypeOK
  <2>2. PICK hook \in {provider[p].hook, "acked"} : provider' = [provider EXCEPT ![p].hook = hook]
    BY DEF AddJob
  <2>3. hook \in {"none", "received", "acked"}
    BY <1>1, <2>1, <2>2
  <2> QED
    BY <1>1, <2>1, <2>2, <2>3 DEF Paid
<1>6. UNCHANGED <<redis, payment, settlement, wallet, faults>>
  BY DEF AddJob
<1>7. \A q \in Payments : Paid(q)' = Paid(q) /\ Posted(q)' = Posted(q) /\ Marked(q)' = Marked(q)
  BY <1>5, <1>6 DEF Posted, Marked
<1>8. job' = [job EXCEPT ![p] = Add(job[p])] /\ job \in [Payments -> Jobs]
  BY DEF AddJob, IInv, TypeOK
<1> HIDE DEF p
<1>9. job' \in [Payments -> Jobs]
  BY <1>3, <1>8
<1>10. ASSUME NEW q \in Payments PROVE JobOK(q)' /\ MoneyOK(q)'
  <2>1. MoneyOK(q)'
    BY <1>6, <1>7 DEF IInv, MoneyOK
  <2>2. CASE q = p
    <3>1. job'[q] = Add(job[p])
      BY <1>1, <1>8, <2>2
    <3> QED
      BY <1>1, <1>3, <1>7, <2>1, <2>2, <3>1 DEF JobOK
  <2>3. CASE q # p
    <3>1. job'[q] = job[q] /\ JobOK(q)
      BY <1>8, <2>3 DEF IInv
    <3> QED
      BY <1>7, <2>1, <3>1 DEF JobOK
  <2> QED
    BY <2>2, <2>3
<1>11. TypeOK'
  BY <1>4, <1>5, <1>6, <1>9 DEF IInv, TypeOK
<1> QED
  BY <1>4, <1>7, <1>10, <1>11, Together

(* Faults undo nothing: what is left behind was true when it was written.  *)
LEMMA FaultKeeps ==
  ASSUME IInv, NEW h \in Handlers, Fault(h) \/ Crash(h)
  PROVE  IInv'
<1>1. call[h] \in Calls /\ call[h].kind \in Kinds /\ Spend(call[h].kind)
  BY Caller DEF Fault, Crash
<1>2. faults' \in [Kinds -> 0..MaxFaults]
  BY <1>1, Spent DEF IInv
<1>3. UNCHANGED <<redis, payment, settlement, wallet>>
  BY DEF Fault, Crash
<1>4. CASE Throw(h)
  BY <1>1, <1>2, <1>3, <1>4, QuietEnd
<1>5. CASE Goto(h, "catch") /\ call[h].at \in InTry /\ UNCHANGED <<job, provider>>
  <2>1. "catch" \in Steps /\ call[h].at # "verify"
    BY <1>5 DEF Steps, InTry
  <2> QED
    BY <1>1, <1>2, <1>3, <1>5, <2>1, QuietStep
<1>6. CASE call' = [call EXCEPT ![h] = Idle] /\ UNCHANGED <<job, provider>>
  <2>1. TypeOK'
    BY <1>2, <1>3, <1>6 DEF IInv, TypeOK
  <2>2. call'[h] = Idle /\ \A g \in Handlers : g # h => call'[g] = call[g]
    BY <1>6 DEF IInv, TypeOK
  <2>3. ASSUME NEW q \in Payments
        PROVE  /\ Paid(q)' = Paid(q) /\ Posted(q)' = Posted(q) /\ Marked(q)' = Marked(q)
               /\ JobOK(q)' /\ MoneyOK(q)'
    BY <1>3, <1>6 DEF IInv, Paid, Posted, Marked, JobOK, MoneyOK
  <2> QED
    BY <2>1, <2>2, <2>3, Together
<1> QED
  BY <1>4, <1>5, <1>6 DEF Fault, Crash

-----------------------------------------------------------------------------
LEMMA NextKeeps == IInv /\ [Next]_vars => IInv'
<1> SUFFICES ASSUME IInv, [Next]_vars PROVE IInv'
  OBVIOUS
<1>1. CASE \E p \in Payments, order \in Orders : CreateOrder(p, order)
  BY <1>1, CreateOrderKeeps
<1>2. ASSUME NEW p \in Payments, Pay(p) PROVE IInv'
  BY <1>2, PayKeeps
<1>3. ASSUME NEW p \in Payments, LoseLock(p) PROVE IInv'
  <2>1. faults' \in [Kinds -> 0..MaxFaults]
    BY <1>3, Spent DEF LoseLock, IInv, Kinds
  <2> QED
    BY <1>3, <2>1, StallKeeps DEF LoseLock
<1>4. ASSUME NEW p \in Payments, Stalled(p) PROVE IInv'
  <2>1. faults' \in [Kinds -> 0..MaxFaults]
    BY <1>4 DEF Stalled, IInv, TypeOK
  <2> QED
    BY <1>4, <2>1, StallKeeps DEF Stalled
<1>5. CASE \E h \in Handlers, p \in Payments :
             \/ CompleteMockPayment(h, p) \/ VerifyClientPayment(h, p)
             \/ HandleWebhook(h, p) \/ TakeJob(h, p)
  BY <1>5, CallsStart
<1>6. ASSUME NEW h \in Handlers, Step(h) PROVE IInv'
  BY <1>6, QuietStepsKeep, VerificationFailedKeeps, PaymentWritersKeep,
     SettlementWritersKeep, AddJobKeeps, DepositKeeps, MarkSettledKeeps,
     MarkCompletedKeeps DEF Step
<1>7. ASSUME NEW h \in Handlers, Fault(h) \/ Crash(h) PROVE IInv'
  BY <1>7, FaultKeeps
<1>8. CASE UNCHANGED vars
  BY <1>8 DEF vars, IInv, TypeOK, Fits, JobOK, MoneyOK, Paid, Posted, Marked
<1> QED
  BY <1>1, <1>2, <1>3, <1>4, <1>5, <1>6, <1>7, <1>8 DEF Next

LEMMA InvariantHolds == Spec => []IInv
BY InitEstablishes, NextKeeps, PTL DEF Spec

(* The documents, the jobs, the calls and the faults spent keep their      *)
(* shapes, and no call runs on a step the code does not have.              *)
THEOREM DepositsTyped == Spec => []TypeOK
<1>1. IInv => TypeOK
  BY DEF IInv
<1> QED
  BY <1>1, InvariantHolds, PTL

(* A payment is credited at most once and only if the payer paid, for any  *)
(* number of callbacks, webhooks, workers, attempts, crashes and lost      *)
(* locks (processDepositSettlement and the key of its wallet posting).     *)
THEOREM PaymentsCreditedOnce == Spec => []MoneyFollowsPayment
<1>1. IInv => MoneyFollowsPayment
  <2> SUFFICES ASSUME IInv, NEW p \in Payments
               PROVE  wallet.credited[p] <= IF provider[p].paid THEN 1 ELSE 0
    BY DEF MoneyFollowsPayment
  <2>1. MoneyOK(p)
    BY DEF IInv
  <2> QED
    BY <2>1 DEF MoneyOK, Paid
<1> QED
  BY <1>1, InvariantHolds, PTL

(* A payment that names its wallet transaction was credited, and a         *)
(* completed settlement belongs to such a payment (markSettled and         *)
(* markCompleted, whichever worker or callback runs them).                 *)
THEOREM DocumentsAreTrue == Spec => []DocumentsTellTruth
<1>1. IInv => DocumentsTellTruth
  <2> SUFFICES ASSUME IInv, NEW p \in Payments
               PROVE  /\ payment[p].walletTxn => wallet.credited[p] = 1
                      /\ settlement[p] = "COMPLETED" => payment[p].walletTxn
    BY DEF DocumentsTellTruth
  <2>1. MoneyOK(p)
    BY DEF IInv
  <2> QED
    BY <2>1 DEF MoneyOK, Marked
<1> QED
  BY <1>1, InvariantHolds, PTL
-----------------------------------------------------------------------------
(* Without faults one runner carries a settlement from the document to its *)
(* end: the call that created it, or its job, or the worker of the job.    *)
(* Neither document is written by two at a time, so COMPLETED is final.    *)

Faultless == faults = [k \in Kinds |-> 0]

On(h, p) == call[h] # Idle /\ call[h].p = p
Settling == {"begin", "mark", "deposit", "settle", "complete"}
Closing == {"link", "add"} \cup Settling
Carries(h, p) == On(h, p) /\ call[h].at \in Closing
Holds(h, p) == On(h, p) /\ call[h].at \in Closing \cup {"audit"}

(* No call is in its catch block, clients alone verify, and a worker runs  *)
(* the job it holds.                                                       *)
CallsOK(p) ==
  \A h \in Handlers : On(h, p) =>
    /\ call[h].at # "catch"
    /\ call[h].at = "verify" => call[h].kind = "client"
    /\ call[h].kind = "job" => call[h].at \in Settling \cup {"audit"} /\ HeldBy(job[p], h)

OneRunner(p) ==
  /\ \A g, h \in Handlers : Holds(g, p) /\ Holds(h, p) => g = h
  /\ \A h \in Handlers : Holds(h, p) /\ job[p].state # "none" => call[h].kind = "job"

Attended(p) ==
  /\ job[p].state # "failed"
  /\ job[p].state = "active" => \E h \in Handlers : job[p].worker = h /\ Runs(h, p)

Carried(p) ==
  /\ settlement[p] = "none" =>
       ~Marked(p) /\ job[p].state = "none" /\ \A h \in Handlers : ~Holds(h, p)
  /\ settlement[p] \in {"PENDING", "PROCESSING"} =>
       job[p].state = "waiting" \/ \E h \in Handlers : Carries(h, p)
  /\ settlement[p] # "FAILED"
  /\ Marked(p) => /\ job[p].state # "waiting"
                  /\ \A h \in Handlers : Holds(h, p) => call[h].at \in {"complete", "audit"}
  /\ provider[p].hook = "acked" => settlement[p] # "none"

OneCloses(p) == CallsOK(p) /\ OneRunner(p) /\ Attended(p) /\ Carried(p)
FreeInv == Faultless => \A p \in Payments : OneCloses(p)

LEMMA InitIsFree == Init => FreeInv
<1> SUFFICES ASSUME Init, NEW p \in Payments PROVE OneCloses(p)
  BY DEF FreeInv
<1>1. \A h \in Handlers : ~On(h, p)
  BY DEF Init, On
<1>2. /\ settlement[p] = "none" /\ ~Marked(p) /\ job[p].state = "none"
      /\ provider[p].hook = "none"
  BY DEF Init, Marked, NoJob
<1> QED
  BY <1>1, <1>2 DEF OneCloses, CallsOK, OneRunner, Attended, Carried, Holds

(* A call that does not run the settlement of p, before or after its step, *)
(* disturbs nobody who does.                                               *)
LEMMA LooksOn ==
  ASSUME NEW p \in Payments, OneCloses(p), NEW h \in Handlers,
         \A g \in Handlers : g # h => call'[g] = call[g],
         ~Holds(h, p), ~Holds(h, p)',
         On(h, p)' => /\ call'[h].at # "catch" /\ call'[h].kind # "job"
                      /\ call'[h].at = "verify" => call'[h].kind = "client",
         job'[p] = job[p], settlement'[p] = settlement[p], Marked(p)' <=> Marked(p),
         provider'[p].hook = "acked" => provider[p].hook = "acked" \/ settlement[p] # "none"
  PROVE  OneCloses(p)'
<1>1. \A g \in Handlers : g # h => /\ On(g, p)' <=> On(g, p)
                                   /\ Holds(g, p)' <=> Holds(g, p)
                                   /\ Carries(g, p)' <=> Carries(g, p)
                                   /\ Runs(g, p)' <=> Runs(g, p)
  BY DEF On, Holds, Carries, Runs
<1>2. ~Runs(h, p) /\ ~Carries(h, p)
  BY DEF OneCloses, CallsOK, Runs, On, Holds, Carries, Settling, Closing
<1>3. CallsOK(p)'
  BY <1>1 DEF OneCloses, CallsOK
<1>4. OneRunner(p)'
  BY <1>1 DEF OneCloses, OneRunner
<1>5. Attended(p)'
  BY <1>1, <1>2 DEF OneCloses, Attended
<1>6. Carried(p)'
  BY <1>1, <1>2 DEF OneCloses, Carried
<1> QED
  BY <1>3, <1>4, <1>5, <1>6 DEF OneCloses

(* The runner of a settlement goes on with it.                             *)
LEMMA RunsOn ==
  ASSUME IInv, NEW p \in Payments, OneCloses(p), NEW h \in Handlers, Holds(h, p),
         NEW step \in Closing \cup {"audit"}, Goto(h, step),
         call[h].kind = "job" => step \in Settling \cup {"audit"},
         UNCHANGED <<job, provider>>,
         Marked(p)' => step \in {"complete", "audit"},
         settlement'[p] \notin {"none", "FAILED"},
         step = "audit" => settlement'[p] = "COMPLETED"
  PROVE  OneCloses(p)'
<1>1. call[h] # Idle /\ call[h].p = p /\ call[h] \in Calls /\ step \in Steps
  BY Caller DEF Holds, On, Steps, Closing, Settling
<1>2. /\ call'[h].at = step /\ call'[h].p = p /\ call'[h].kind = call[h].kind
      /\ call'[h] # Idle
      /\ \A g \in Handlers : g # h => call'[g] = call[g]
  <2>1. Idle.at \notin Steps
    BY DEF Idle, Steps
  <2> QED
    BY <1>1, <2>1, GoesOn
<1>3. \A g \in Handlers : /\ On(g, p)' <=> On(g, p)
                          /\ Holds(g, p)' <=> Holds(g, p)
                          /\ Runs(g, p)' <=> Runs(g, p)
  BY <1>1, <1>2 DEF On, Holds, Runs
<1>4. step # "catch" /\ step # "verify" /\ (step \in Closing \/ step = "audit")
  BY DEF Closing, Settling
<1>5. CallsOK(p)'
  BY <1>2, <1>3, <1>4 DEF OneCloses, CallsOK
<1>6. OneRunner(p)'
  BY <1>2, <1>3 DEF OneCloses, OneRunner
<1>7. Attended(p)'
  BY <1>3 DEF OneCloses, Attended
<1>8. Carried(p)'
  <2>1. settlement'[p] # "COMPLETED" => Carries(h, p)'
    BY <1>1, <1>2, <1>4 DEF Carries, On
  <2>2. \A g \in Handlers : Holds(g, p)' => g = h
    BY <1>3 DEF OneCloses, OneRunner
  <2>3. job[p].state # "waiting"
    BY <1>1 DEF OneCloses, OneRunner, CallsOK, On, HeldBy
  <2> QED
    BY <1>2, <2>1, <2>2, <2>3 DEF OneCloses, Carried
<1> QED
  BY <1>5, <1>6, <1>7, <1>8 DEF OneCloses

(* The call that finds no settlement creates it, and runs it from then on. *)
LEMMA CreatesOne ==
  ASSUME IInv, NEW p \in Payments, OneCloses(p), NEW h \in Handlers, On(h, p),
         call[h].kind # "job", settlement[p] = "none", settlement'[p] = "PENDING",
         Goto(h, "link"), UNCHANGED <<payment, job, provider>>
  PROVE  OneCloses(p)'
<1>1. call[h] \in Calls
  BY Caller DEF On
<1>2. /\ call'[h].at = "link" /\ call'[h].p = p /\ call'[h].kind = call[h].kind
      /\ call'[h] # Idle
      /\ \A g \in Handlers : g # h => call'[g] = call[g]
  <2>1. Idle.at # "link" /\ "link" \in Steps
    BY DEF Idle, Steps
  <2> QED
    BY <1>1, <2>1, GoesOn DEF On
<1>3. \A g \in Handlers : g # h => ~Holds(g, p)' /\ (On(g, p)' <=> On(g, p))
  BY <1>2 DEF OneCloses, Carried, Holds, On
<1>4. Carries(h, p)' /\ On(h, p)' /\ job[p].state = "none" /\ (Marked(p)' <=> Marked(p)) /\ ~Marked(p)
  BY <1>2 DEF OneCloses, Carried, Carries, On, Closing, Marked
<1>5. CallsOK(p)'
  BY <1>2, <1>3 DEF OneCloses, CallsOK
<1>6. OneRunner(p)' /\ Attended(p)'
  BY <1>3, <1>4 DEF OneRunner, Attended
<1>7. Carried(p)'
  BY <1>4 DEF Carried
<1> QED
  BY <1>5, <1>6, <1>7 DEF OneCloses

(* The creator hands the settlement over to its job.                       *)
LEMMA HandsOver ==
  ASSUME IInv, NEW p \in Payments, OneCloses(p), NEW h \in Handlers, On(h, p), AddJob(h)
  PROVE  OneCloses(p)'
<1>1. call[h].at = "add" /\ Holds(h, p) /\ call[h].p = p
  BY DEF AddJob, At, On, Holds, Closing
<1>2. call[h].kind # "job"
  BY <1>1 DEF OneCloses, CallsOK, Settling, On
<1>3. job[p].state = "none" /\ settlement[p] # "none" /\ ~Marked(p)
  BY <1>1, <1>2 DEF OneCloses, OneRunner, Carried
<1>4. job'[p].state = "waiting" /\ UNCHANGED <<payment, settlement>>
  <2>1. Add(job[p]).state = "waiting"
    BY <1>3 DEF Add, NoJob
  <2>2. job \in [Payments -> Jobs] /\ job' = [job EXCEPT ![p] = Add(job[p])]
    BY <1>1 DEF AddJob, IInv, TypeOK
  <2>3. job'[p] = Add(job[p])
    BY <2>2
  <2> QED
    BY <2>1, <2>3 DEF AddJob
<1>5. call'[h] = Idle /\ \A g \in Handlers : g # h => call'[g] = call[g]
  BY DEF AddJob, IInv, TypeOK
<1>6. \A g \in Handlers : ~Holds(g, p)' /\ (On(g, p)' => On(g, p) /\ g # h)
  BY <1>1, <1>5 DEF OneCloses, OneRunner, Holds, On
<1>7. CallsOK(p)'
  <2>1. ASSUME NEW g \in Handlers, On(g, p)'
        PROVE  /\ call[g].at # "catch" /\ call[g].kind # "job"
               /\ call[g].at = "verify" => call[g].kind = "client"
               /\ call'[g] = call[g]
    <3>1. On(g, p) /\ g # h /\ call'[g] = call[g] /\ ~Holds(g, p)'
      BY <1>5, <1>6, <2>1
    <3>2. ~Holds(g, p)
      BY <3>1 DEF Holds, On
    <3> QED
      BY <3>1, <3>2 DEF OneCloses, CallsOK, Holds, Closing
  <2> QED
    BY <2>1 DEF CallsOK
<1>8. OneRunner(p)' /\ Attended(p)'
  BY <1>4, <1>6 DEF OneRunner, Attended
<1>9. Carried(p)'
  BY <1>3, <1>4, <1>6 DEF OneCloses, Carried, Marked
<1> QED
  BY <1>7, <1>8, <1>9 DEF OneCloses

(* A free worker takes the job, and is the one runner.                     *)
LEMMA TakesOver ==
  ASSUME IInv, NEW p \in Payments, OneCloses(p), NEW h \in Handlers, TakeJob(h, p)
  PROVE  OneCloses(p)'
<1>1. call[h] = Idle /\ job[p].state = "waiting" /\ UNCHANGED <<payment, settlement, provider>>
  BY DEF TakeJob, Start
<1>2. /\ call'[h].at = "begin" /\ call'[h].p = p /\ call'[h].kind = "job" /\ call'[h] # Idle
      /\ \A g \in Handlers : g # h => call'[g] = call[g]
  <2>1. /\ call \in [Handlers -> Calls \cup {Idle}]
        /\ call' = [call EXCEPT ![h] = [at |-> "begin", p |-> p, kind |-> "job"]]
    BY DEF TakeJob, Start, IInv, TypeOK
  <2>2. [at |-> "begin", p |-> p, kind |-> "job"] # Idle
    BY DEF Idle
  <2> QED
    BY <2>1, <2>2
<1>3. HeldBy(job[p], h)' /\ job'[p].state = "active" /\ job'[p].worker = h
  <2>1. job \in [Payments -> Jobs] /\ job' = [job EXCEPT ![p] = Take(job[p], h)]
    BY DEF TakeJob, IInv, TypeOK
  <2>2. job'[p] = Take(job[p], h) /\ job[p] \in Jobs
    BY <2>1
  <2>3. Take(job[p], h).state = "active" /\ Take(job[p], h).worker = h
    BY <2>2 DEF Take, Jobs
  <2> QED
    BY <2>2, <2>3 DEF HeldBy
<1>4. \A g \in Handlers : ~Holds(g, p) /\ (On(g, p) => call[g].kind # "job")
  BY <1>1 DEF OneCloses, OneRunner, CallsOK, HeldBy, Holds
<1>5. /\ Holds(h, p)' /\ Carries(h, p)' /\ Runs(h, p)'
      /\ \A g \in Handlers : g # h => ~Holds(g, p)' /\ (On(g, p)' <=> On(g, p))
  BY <1>2, <1>4 DEF Holds, Carries, Runs, On, Closing, Settling
<1>6. CallsOK(p)'
  BY <1>2, <1>3, <1>4, <1>5 DEF OneCloses, CallsOK, Settling
<1>7. OneRunner(p)'
  BY <1>2, <1>5 DEF OneRunner
<1>8. Attended(p)'
  BY <1>3, <1>5 DEF Attended
<1>9. Carried(p)'
  BY <1>1, <1>5 DEF OneCloses, Carried, Marked
<1> QED
  BY <1>6, <1>7, <1>8, <1>9 DEF OneCloses

(* A runner returns only when the settlement is completed.                 *)
LEMMA ReturnsLast ==
  ASSUME IInv, NEW p \in Payments, OneCloses(p), NEW h \in Handlers, On(h, p), RecordCompletion(h)
  PROVE  OneCloses(p)'
<1>1. /\ call[h].at = "audit" /\ Holds(h, p) /\ call[h].p = p /\ Return(h) /\ call[h] \in Calls
      /\ UNCHANGED <<payment, settlement>>
  BY Caller DEF RecordCompletion, At, On, Holds
<1>2. call'[h] = Idle /\ \A g \in Handlers : g # h => call'[g] = call[g]
  BY <1>1, EndOfCall
<1>3. \A g \in Handlers : ~Holds(g, p)' /\ (On(g, p)' => On(g, p) /\ g # h) /\ ~Carries(g, p)
  BY <1>1, <1>2 DEF OneCloses, OneRunner, Holds, On, Carries, Closing, Settling
<1>4. job[p].state # "waiting" /\ job'[p].state = "none"
  <2>1. job \in [Payments -> Jobs]
        /\ job' = [job EXCEPT ![p] = IF call[h].kind = "job" THEN Complete(@, h) ELSE @]
    BY <1>1 DEF Return, IInv, TypeOK
  <2>2. CASE call[h].kind = "job"
    BY <1>1, <2>1, <2>2 DEF OneCloses, CallsOK, HeldBy, Complete, NoJob
  <2>3. CASE call[h].kind # "job"
    BY <1>1, <2>1, <2>3 DEF OneCloses, OneRunner
  <2> QED
    BY <2>2, <2>3
<1>5. settlement[p] \notin {"none", "PENDING", "PROCESSING", "FAILED"}
  BY <1>1, <1>3, <1>4 DEF OneCloses, Carried
<1>6. CallsOK(p)'
  <2>1. ASSUME NEW g \in Handlers, On(g, p)'
        PROVE  /\ call[g].at # "catch" /\ call[g].kind # "job"
               /\ call[g].at = "verify" => call[g].kind = "client"
               /\ call'[g] = call[g]
    <3>1. On(g, p) /\ g # h /\ call'[g] = call[g] /\ ~Holds(g, p)'
      BY <1>2, <1>3, <2>1
    <3>2. ~Holds(g, p)
      BY <3>1 DEF Holds, On
    <3> QED
      BY <3>1, <3>2 DEF OneCloses, CallsOK, Holds, Closing
  <2> QED
    BY <2>1 DEF CallsOK
<1>7. OneRunner(p)' /\ Attended(p)'
  BY <1>3, <1>4 DEF OneRunner, Attended
<1>8. Carried(p)'
  BY <1>1, <1>3, <1>4, <1>5 DEF Carried
<1> QED
  BY <1>6, <1>7, <1>8 DEF OneCloses

-----------------------------------------------------------------------------
(* Steps, without faults *)

LEMMA SpendingIsFault ==
  ASSUME IInv, NEW kind \in Kinds, Spend(kind)
  PROVE  ~Faultless'
<1>1. faults[kind] \in Nat /\ faults' = [faults EXCEPT ![kind] = faults[kind] + 1]
      /\ faults \in [Kinds -> 0..MaxFaults]
  BY DepositsAssumption DEF IInv, TypeOK, Spend
<1>2. faults'[kind] = faults[kind] + 1 /\ faults[kind] + 1 # 0
  BY <1>1
<1> QED
  BY <1>2 DEF Faultless

LEMMA Undisturbed ==
  ASSUME NEW p \in Payments, OneCloses(p), call' = call, job'[p] = job[p],
         settlement'[p] = settlement[p], Marked(p)' <=> Marked(p),
         provider'[p].hook = provider[p].hook
  PROVE  OneCloses(p)'
<1>1. CallsOK(p)'
  BY DEF OneCloses, CallsOK, On
<1>2. OneRunner(p)'
  BY DEF OneCloses, OneRunner, Holds, On
<1>3. Attended(p)'
  BY DEF OneCloses, Attended, Runs
<1>4. Carried(p)'
  BY DEF OneCloses, Carried, Carries, Holds, On
<1> QED
  BY <1>1, <1>2, <1>3, <1>4 DEF OneCloses

(* A step of a call touches the documents and the job of its own payment.  *)
LEMMA StepElsewhere ==
  ASSUME IInv, NEW h \in Handlers, Step(h), NEW q \in Payments, call[h].p # q, OneCloses(q)
  PROVE  OneCloses(q)'
<1>1. call[h] # Idle /\ call[h] \in Calls /\ call[h].p \in Payments
  <2>1. call[h].at \in Steps
    BY DEF Step, Verified, VerificationPending, VerificationFailed, VerificationThrows,
       CheckDuplicatePayment, MarkCaptured, FindSettlement, CreateSettlement, LinkSettlement,
       AddJob, BeginSettlement, MarkProcessing, Deposit, MarkSettled, MarkCompleted,
       RecordCompletion, MarkFailed, At, Steps
  <2>2. Idle.at \notin Steps
    BY DEF Idle, Steps
  <2> QED
    BY <2>1, <2>2, Caller
<1>2. \/ \E step \in Steps : Goto(h, step) /\ UNCHANGED <<job, provider>>
      \/ Return(h) \/ Throw(h) \/ AddJob(h)
  BY DEF Step, Verified, VerificationPending, VerificationFailed, VerificationThrows,
     CheckDuplicatePayment, MarkCaptured, FindSettlement, CreateSettlement, LinkSettlement,
     BeginSettlement, MarkProcessing, Deposit, MarkSettled, MarkCompleted,
     RecordCompletion, MarkFailed, Steps
<1>3. settlement'[q] = settlement[q]
  BY <1>1 DEF IInv, TypeOK, Step, Verified, VerificationPending, VerificationFailed,
     VerificationThrows, CheckDuplicatePayment, MarkCaptured, FindSettlement, CreateSettlement,
     LinkSettlement, AddJob, BeginSettlement, MarkProcessing, Deposit, MarkSettled,
     MarkCompleted, RecordCompletion, MarkFailed
<1>4. payment'[q] = payment[q]
  BY <1>1 DEF IInv, TypeOK, Step, Verified, VerificationPending, VerificationFailed,
     VerificationThrows, CheckDuplicatePayment, MarkCaptured, FindSettlement, CreateSettlement,
     LinkSettlement, AddJob, BeginSettlement, MarkProcessing, Deposit, MarkSettled,
     MarkCompleted, RecordCompletion, MarkFailed
<1>5. /\ call'[h] = Idle \/ call'[h].p = call[h].p
      /\ \A g \in Handlers : g # h => call'[g] = call[g]
  BY <1>1, <1>2, GoesOn, EndOfCall DEF AddJob, IInv, TypeOK
<1>6. job'[q] = job[q] /\ provider'[q] = provider[q]
  BY <1>1, <1>2 DEF Return, Throw, AddJob, IInv, TypeOK
<1> QED
  BY <1>3, <1>4, <1>5, <1>6, LooksOn DEF Marked, On, Holds

(* A call that does not run the settlement moves on, or ends.              *)
LEMMA Quietly ==
  ASSUME IInv, NEW p \in Payments, OneCloses(p), NEW h \in Handlers, On(h, p),
         call[h].at \in {"verify", "risk", "capture", "find", "create"},
         \/ /\ \E step \in {"capture", "find", "create"} : Goto(h, step)
            /\ UNCHANGED <<job, provider>>
         \/ Return(h) /\ (call[h].kind = "webhook" => settlement[p] # "none")
         \/ Throw(h),
         UNCHANGED settlement, Marked(p)' <=> Marked(p)
  PROVE  OneCloses(p)'
<1>1. call[h] \in Calls /\ call[h].kind # "job" /\ call[h].p = p /\ ~Holds(h, p)
  BY Caller DEF OneCloses, CallsOK, On, Settling, Holds, Closing
<1>2. CASE \E step \in {"capture", "find", "create"} :
             Goto(h, step) /\ UNCHANGED <<job, provider>>
  <2>1. PICK step \in {"capture", "find", "create"} :
               Goto(h, step) /\ UNCHANGED <<job, provider>>
    BY <1>2
  <2>2. /\ call'[h].at = step /\ call'[h].kind = call[h].kind
        /\ \A g \in Handlers : g # h => call'[g] = call[g]
    BY <1>1, <2>1, GoesOn DEF Steps
  <2>3. ~Holds(h, p)'
    BY <2>2 DEF Holds, Closing, Settling
  <2> QED
    BY <1>1, <2>1, <2>2, <2>3, LooksOn
<1>3. CASE Return(h) \/ Throw(h)
  <2>1. call'[h] = Idle /\ \A g \in Handlers : g # h => call'[g] = call[g]
    BY <1>1, <1>3, EndOfCall
  <2>2. ~Holds(h, p)' /\ ~On(h, p)'
    BY <2>1 DEF Holds, On
  <2>3. job'[p] = job[p]
    BY <1>1, <1>3 DEF Return, Throw, IInv, TypeOK
  <2>4. provider'[p].hook = "acked" => provider[p].hook = "acked" \/ settlement[p] # "none"
    <3>1. provider \in [Payments -> [order : Orders \cup {"none"}, paid : BOOLEAN,
                                     hook : {"none", "received", "acked"}]]
      BY DEF IInv, TypeOK
    <3>2. CASE UNCHANGED provider
      BY <3>2
    <3>3. CASE Return(h) /\ (call[h].kind = "webhook" => settlement[p] # "none")
      BY <1>1, <3>1, <3>3 DEF Return
    <3>4. UNCHANGED provider \/ (Return(h) /\ (call[h].kind = "webhook" => settlement[p] # "none"))
      BY DEF Throw
    <3> QED
      BY <3>2, <3>3, <3>4
  <2> QED
    BY <1>1, <2>1, <2>2, <2>3, <2>4, LooksOn
<1> QED
  BY <1>2, <1>3

LEMMA StepHere ==
  ASSUME IInv, NEW h \in Handlers, NEW p \in Payments, On(h, p), Step(h), OneCloses(p)
  PROVE  OneCloses(p)'
<1>1. call[h] \in Calls /\ call[h].p = p
  BY Caller DEF On
<1>2. CASE \/ Verified(h) \/ VerificationPending(h) \/ VerificationFailed(h)
           \/ VerificationThrows(h) \/ CheckDuplicatePayment(h) \/ MarkCaptured(h)
           \/ FindSettlement(h) \/ (CreateSettlement(h) /\ settlement[p] # "none")
  <2>1. /\ call[h].at \in {"verify", "risk", "capture", "find", "create"}
        /\ UNCHANGED settlement
    BY <1>1, <1>2 DEF Verified, VerificationPending, VerificationFailed, VerificationThrows,
       CheckDuplicatePayment, MarkCaptured, FindSettlement, CreateSettlement, At
  <2>2. Marked(p)' <=> Marked(p)
    BY <1>1, <1>2 DEF IInv, TypeOK, PaymentDocuments, Marked, Verified, VerificationPending,
       VerificationFailed, VerificationThrows, CheckDuplicatePayment, MarkCaptured,
       FindSettlement, CreateSettlement
  <2>3. call[h].at = "verify" => call[h].kind # "webhook"
    BY DEF OneCloses, CallsOK
  <2>4. \/ /\ \E step \in {"capture", "find", "create"} : Goto(h, step)
           /\ UNCHANGED <<job, provider>>
        \/ Return(h) /\ (call[h].kind = "webhook" => settlement[p] # "none")
        \/ Throw(h)
    BY <1>1, <1>2, <2>3 DEF Verified, VerificationPending, VerificationFailed,
       VerificationThrows, CheckDuplicatePayment, MarkCaptured, FindSettlement,
       CreateSettlement, At
  <2> QED
    BY <2>1, <2>2, <2>4, Quietly
<1>3. CASE CreateSettlement(h) /\ settlement[p] = "none"
  <2>1. settlement'[p] = "PENDING" /\ Goto(h, "link") /\ UNCHANGED <<payment, job, provider>>
    BY <1>1, <1>3 DEF CreateSettlement, IInv, TypeOK
  <2>2. call[h].kind # "job"
    BY <1>3 DEF CreateSettlement, At, OneCloses, CallsOK, Settling
  <2> QED
    BY <1>3, <2>1, <2>2, CreatesOne
<1>4. CASE AddJob(h)
  BY <1>4, HandsOver
<1>5. CASE RecordCompletion(h)
  BY <1>5, ReturnsLast
<1>6. CASE MarkFailed(h)
  BY <1>6 DEF MarkFailed, At, OneCloses, CallsOK
<1>7. CASE \/ LinkSettlement(h) \/ BeginSettlement(h) \/ MarkProcessing(h)
           \/ Deposit(h) \/ MarkSettled(h) \/ MarkCompleted(h)
  <2>1. Holds(h, p) /\ call[h].at \in {"link", "begin", "mark", "deposit", "settle", "complete"}
    BY <1>7 DEF LinkSettlement, BeginSettlement, MarkProcessing, Deposit, MarkSettled,
       MarkCompleted, At, Holds, Closing, Settling
  <2>2. /\ Marked(p) => call[h].at = "complete"
        /\ settlement[p] \notin {"none", "FAILED"}
        /\ call[h].at = "link" => call[h].kind # "job"
    BY <2>1 DEF OneCloses, Carried, CallsOK, Settling
  <2>3. payment \in [Payments -> PaymentDocuments] /\ settlement \in [Payments -> SettlementStatuses]
    BY DEF IInv, TypeOK
  <2>4. CASE LinkSettlement(h)
    <3>1. PICK step \in {"add", "begin"} : Goto(h, step)
      BY <2>4 DEF LinkSettlement
    <3>2. call[h].at = "link" /\ UNCHANGED <<settlement, job, provider>> /\ (Marked(p)' <=> Marked(p))
      BY <1>1, <2>3, <2>4 DEF LinkSettlement, At, PaymentDocuments, Marked
    <3> QED
      BY <2>1, <2>2, <3>1, <3>2, RunsOn DEF Closing, Settling
  <2>5. CASE BeginSettlement(h)
    <3>1. call[h].at = "begin" /\ Goto(h, "mark") /\ UNCHANGED <<payment, settlement, job, provider>>
      BY <1>1, <2>2, <2>5 DEF BeginSettlement, At, Marked
    <3> QED
      BY <2>1, <2>2, <3>1, RunsOn DEF Closing, Settling, Marked
  <2>6. CASE MarkProcessing(h)
    <3>1. /\ call[h].at = "mark" /\ Goto(h, "deposit") /\ UNCHANGED <<payment, job, provider>>
          /\ settlement'[p] = "PROCESSING"
      BY <1>1, <2>3, <2>6 DEF MarkProcessing, At
    <3> QED
      BY <2>1, <2>2, <3>1, RunsOn DEF Closing, Settling, Marked
  <2>7. CASE Deposit(h)
    <3>1. call[h].at = "deposit" /\ Goto(h, "settle") /\ UNCHANGED <<payment, settlement, job, provider>>
      BY <2>7 DEF Deposit, At
    <3> QED
      BY <2>1, <2>2, <3>1, RunsOn DEF Closing, Settling, Marked
  <2>8. CASE MarkSettled(h)
    <3>1. call[h].at = "settle" /\ Goto(h, "complete") /\ UNCHANGED <<settlement, job, provider>>
      BY <2>8 DEF MarkSettled, At
    <3> QED
      BY <2>1, <2>2, <3>1, RunsOn DEF Closing, Settling
  <2>9. CASE MarkCompleted(h)
    <3>1. /\ call[h].at = "complete" /\ Goto(h, "audit") /\ UNCHANGED <<payment, job, provider>>
          /\ settlement'[p] = "COMPLETED"
      BY <1>1, <2>3, <2>9 DEF MarkCompleted, At
    <3> QED
      BY <2>1, <2>2, <3>1, RunsOn DEF Settling
  <2> QED
    BY <1>7, <2>4, <2>5, <2>6, <2>7, <2>8, <2>9
<1> QED
  BY <1>2, <1>3, <1>4, <1>5, <1>6, <1>7 DEF Step

(* Starting calls hold no settlement; a worker takes over a job nobody     *)
(* runs.                                                                   *)
LEMMA StartsFreely ==
  ASSUME IInv, NEW h \in Handlers, NEW p \in Payments, NEW q \in Payments, OneCloses(q),
         \/ CompleteMockPayment(h, p) \/ VerifyClientPayment(h, p)
         \/ HandleWebhook(h, p) \/ TakeJob(h, p)
  PROVE  OneCloses(q)'
<1>1. CASE TakeJob(h, p) /\ q = p
  BY <1>1, TakesOver
<1>2. CASE ~(TakeJob(h, p) /\ q = p)
  <2>1. PICK kind \in Kinds, step \in {"verify", "risk", "begin"} :
          /\ Start(h, p, kind, step)
          /\ kind = "job" => q # p
          /\ step = "verify" => kind = "client"
          /\ UNCHANGED <<payment, settlement>>
          /\ job'[q] = job[q]
          /\ provider'[q].hook = "acked" => provider[q].hook = "acked"
    <3>1. CASE TakeJob(h, p)
      BY <1>2, <3>1 DEF TakeJob, IInv, TypeOK, Kinds
    <3>2. CASE CompleteMockPayment(h, p)
      BY <3>2 DEF CompleteMockPayment, IInv, TypeOK, Kinds
    <3>3. CASE VerifyClientPayment(h, p)
      BY <3>3 DEF VerifyClientPayment, Kinds
    <3>4. CASE HandleWebhook(h, p)
      BY <3>4 DEF HandleWebhook, IInv, TypeOK, Kinds
    <3> QED
      BY <3>1, <3>2, <3>3, <3>4
  <2>2. /\ call[h] = Idle
        /\ call'[h].at = step /\ call'[h].p = p /\ call'[h].kind = kind
        /\ \A g \in Handlers : g # h => call'[g] = call[g]
    BY <2>1 DEF Start, IInv, TypeOK
  <2>3. ~Holds(h, q)
    BY <2>2 DEF Holds, On
  <2>4. ~Holds(h, q)'
    <3>1. CASE step = "begin"
      <4>1. kind = "job"
        BY <1>2, <2>1, <2>2, <3>1 DEF CompleteMockPayment, VerifyClientPayment, HandleWebhook,
           TakeJob, Start, IInv, TypeOK
      <4> QED
        BY <2>1, <2>2, <4>1 DEF Holds, On
    <3>2. CASE step # "begin"
      BY <2>2, <3>2 DEF Holds, Closing, Settling
    <3> QED
      BY <3>1, <3>2
  <2>5. On(h, q)' => /\ call'[h].at # "catch" /\ call'[h].kind # "job"
                     /\ call'[h].at = "verify" => call'[h].kind = "client"
    BY <2>1, <2>2 DEF On
  <2>6. settlement'[q] = settlement[q] /\ (Marked(q)' <=> Marked(q))
    BY <2>1 DEF Marked
  <2> QED
    BY <2>1, <2>2, <2>3, <2>4, <2>5, <2>6, LooksOn
<1> QED
  BY <1>1, <1>2

LEMMA NextIsFree == IInv /\ FreeInv /\ [Next]_vars => FreeInv'
<1> SUFFICES ASSUME IInv, FreeInv, [Next]_vars, Faultless', NEW q \in Payments
             PROVE  OneCloses(q)'
  BY DEF FreeInv
<1>1. Kinds = {"client", "webhook", "job"}
  BY DEF Kinds
<1>2. CASE UNCHANGED vars
  <2>1. OneCloses(q)
    BY <1>2 DEF FreeInv, Faultless, vars
  <2> QED
    BY <1>2, <2>1, Undisturbed DEF vars, Marked
<1>3. CASE \E p \in Payments, order \in Orders : CreateOrder(p, order)
  <2>1. OneCloses(q)
    BY <1>3 DEF FreeInv, Faultless, CreateOrder
  <2>2. /\ call' = call /\ job' = job /\ settlement' = settlement
        /\ (Marked(q)' <=> Marked(q)) /\ provider'[q].hook = provider[q].hook
    BY <1>3 DEF CreateOrder, Marked, IInv, TypeOK, PaymentDocuments
  <2> QED
    BY <2>1, <2>2, Undisturbed
<1>4. ASSUME NEW p \in Payments, Pay(p) PROVE OneCloses(q)'
  <2>1. OneCloses(q)
    BY <1>4 DEF FreeInv, Faultless, Pay
  <2>2. /\ call' = call /\ job' = job /\ settlement' = settlement
        /\ (Marked(q)' <=> Marked(q)) /\ provider'[q].hook = provider[q].hook
    BY <1>4 DEF Pay, Marked, IInv, TypeOK
  <2> QED
    BY <2>1, <2>2, Undisturbed
<1>5. ASSUME NEW p \in Payments, LoseLock(p) PROVE FALSE
  BY <1>1, <1>5, SpendingIsFault DEF LoseLock
<1>6. ASSUME NEW p \in Payments, Stalled(p) PROVE FALSE
  <2>1. OneCloses(p)
    BY <1>6 DEF FreeInv, Faultless, Stalled
  <2> QED
    BY <1>6, <2>1 DEF Stalled, OneCloses, Attended
<1>7. ASSUME NEW h \in Handlers, NEW p \in Payments,
             \/ CompleteMockPayment(h, p) \/ VerifyClientPayment(h, p)
             \/ HandleWebhook(h, p) \/ TakeJob(h, p)
      PROVE  OneCloses(q)'
  <2>1. OneCloses(q)
    BY <1>7 DEF FreeInv, Faultless, CompleteMockPayment, VerifyClientPayment, HandleWebhook, TakeJob
  <2> QED
    BY <1>7, <2>1, StartsFreely
<1>8. ASSUME NEW h \in Handlers, Step(h) PROVE OneCloses(q)'
  <2>1. faults' = faults
    BY <1>8 DEF Step, Verified, VerificationPending, VerificationFailed, VerificationThrows,
       CheckDuplicatePayment, MarkCaptured, FindSettlement, CreateSettlement, LinkSettlement,
       AddJob, BeginSettlement, MarkProcessing, Deposit, MarkSettled, MarkCompleted,
       RecordCompletion, MarkFailed
  <2>2. OneCloses(q)
    BY <2>1 DEF FreeInv, Faultless
  <2>3. call[h].at \in Steps
    BY <1>8 DEF Step, Verified, VerificationPending, VerificationFailed, VerificationThrows,
       CheckDuplicatePayment, MarkCaptured, FindSettlement, CreateSettlement, LinkSettlement,
       AddJob, BeginSettlement, MarkProcessing, Deposit, MarkSettled, MarkCompleted,
       RecordCompletion, MarkFailed, At, Steps
  <2>4. call[h] # Idle
    BY <2>3 DEF Idle, Steps
  <2> QED
    BY <1>8, <2>2, <2>4, StepHere, StepElsewhere DEF On
<1>9. ASSUME NEW h \in Handlers, Fault(h) \/ Crash(h) PROVE FALSE
  <2>1. call[h].kind \in Kinds /\ Spend(call[h].kind)
    BY <1>9, Caller DEF Fault, Crash
  <2> QED
    BY <2>1, SpendingIsFault
<1> QED
  BY <1>2, <1>3, <1>4, <1>5, <1>6, <1>7, <1>8, <1>9 DEF Next

(* Without faults, once a webhook has been answered and nothing is under   *)
(* way any more, the payment is credited and its settlement is closed: of  *)
(* racing callbacks one creates the settlement and carries it, or its job, *)
(* to the end (enqueueDepositSettlement, processDepositSettlement).        *)
THEOREM AnsweredPaymentsSettle == Spec => []AnsweredMeansSettled
<1>1. IInv /\ FreeInv => AnsweredMeansSettled
  <2> SUFFICES ASSUME IInv, FreeInv, NEW p \in Payments, Faultless,
                      provider[p].hook = "acked", ~UnderWay(p)
               PROVE  wallet.credited[p] = 1 /\ settlement[p] = "COMPLETED"
    BY DEF AnsweredMeansSettled, Faultless
  <2>1. Carried(p) /\ MoneyOK(p) /\ settlement[p] \in SettlementStatuses
    BY DEF FreeInv, OneCloses, IInv, TypeOK
  <2>2. job[p].state # "waiting" /\ \A h \in Handlers : ~Carries(h, p)
    BY DEF UnderWay, Carries, On
  <2>3. settlement[p] = "COMPLETED"
    BY <2>1, <2>2 DEF Carried, SettlementStatuses
  <2> QED
    BY <2>1, <2>3 DEF MoneyOK
<1>2. Spec => []FreeInv
  BY InitIsFree, NextIsFree, InvariantHolds, PTL DEF Spec
<1> QED
  BY <1>1, <1>2, InvariantHolds, PTL
=============================================================================
