-------------------------- MODULE ContestSettlement --------------------------
(***************************************************************************)
(* The settlement of a contest                                             *)
(* (src/src/modules/settlement/contest-settlement.service.ts): workers of  *)
(* the settlement queue and administrators run it, administrators reset a  *)
(* failed one, and it interleaves with the transitions and the             *)
(* cancellation of ContestLifecycle.                                       *)
(*                                                                         *)
(* The joins are over: every entry holds one fee in LOCKED.  The totals of *)
(* the teams may change at any time, by a late recomputation or an         *)
(* adjustment of an administrator; a run reads them once, when it ranks    *)
(* the entries.  The leaderboard that is rebuilt at the end is derived     *)
(* data; a failure of it is a fault of that step.  The contest starts      *)
(* LIVE; a forced settlement of another status is reached by its           *)
(* transitions.                                                            *)
(***************************************************************************)
EXTENDS ContestLifecycle, PrizeCalculator

CONSTANTS
  NumEntries,   \* entries of the contest
  Totals,       \* what a run may find as the totals of the teams
  Snapshots,    \* prize snapshots of contests
  Owner,        \* the user of each entry
  MaxResets     \* bound: resets of a failed settlement

Entries == 1..NumEntries

ASSUME SettlementAssumption ==
  /\ NumEntries \in Nat /\ NumEntries <= MaxSpots
  /\ Totals \subseteq [Entries -> Nat] /\ MaxResets \in Nat
  /\ Owner \in [Entries -> Users]
  /\ \A s \in Snapshots : s \in PrizeSnapshot /\ ValidSlabs(s)

VARIABLES
  result,    \* the contest_results document
  credited,  \* amount of the wallet posting settle:<entry>
  points,    \* totalPoints of each team, as the last run to rank them read it
  snapshot,  \* contest.prizeSnapshot
  resets     \* resets of the result so far

settlementVars == <<result, credited, points, snapshot, resets>>
vars == <<contest, entry, wallet, call, faults, settlementVars>>

NotPosted == -1
ResultStatuses == {"none", "NOT_STARTED", "IN_PROGRESS", "SETTLED", "FAILED", "SKIPPED"}
InTry == {"load", "pay", "mark", "rebuild", "complete", "finalise"}
Running == InTry \cup {"catch"}
SettleSteps == {"count", "claim"} \cup Running

Runs(h) == call[h].at \in Running

SettleCalls(h) ==
  /\ call[h].at \in SettleSteps
  /\ call[h].seen \in Statuses
  /\ call[h].count \in 0..NumEntries
  /\ call[h].paid \in Nat
  /\ \A i \in DOMAIN call[h].todo :
       call[h].todo[i] \in [entry : Entries, rank : Entries, amount : Nat]

TypeOK ==
  /\ LifecycleTypeOK
  /\ \A e \in Entries :
       /\ entry[e].user = Owner[e] /\ entry[e].status \in EntryStatuses
       /\ entry[e].rank \in 0..NumEntries /\ entry[e].winning \in Nat
  /\ \A u \in Users : wallet[u].locked \in 0..NumEntries /\ wallet[u].spendable \in Nat
  /\ \A h \in Handlers :
       LifecycleCalls(h) \/ SettleCalls(h) \/ call[h] = [at |-> "reset"]
  /\ result \in [status : ResultStatuses, token : Handlers \cup {Nobody}, paid : Nat]
  /\ credited \in [Entries -> Nat \cup {NotPosted}]
  /\ points \in [Entries -> Nat]

Init ==
  /\ contest \in [status : {"LIVE"}, filled : {NumEntries},
                  total : {MaxSpots}, cancelled : {FALSE}, writer : {Nobody}]
  /\ entry = [e \in Entries |->
       [user |-> Owner[e], status |-> "ACTIVE", rank |-> 0, winning |-> 0]]
  /\ wallet = [u \in Users |->
       [spendable |-> 0, locked |-> Cardinality({e \in Entries : Owner[e] = u}),
        posted |-> {}]]
  /\ call = [h \in Handlers |-> Idle]
  /\ faults = 0 /\ resets = 0
  /\ result = [status |-> "none", token |-> Nobody, paid |-> 0]
  /\ credited = [e \in Entries |-> NotPosted]
  /\ points = [e \in Entries |-> 0]
  /\ snapshot \in Snapshots

-----------------------------------------------------------------------------
(* settleContest, up to the claim *)

(* An administrator may force the settlement of a contest in any status. *)
SettleContest(h, force) ==
  /\ force \/ contest.status \in {"COMPLETED", "LIVE"}
  /\ Start(h, [at |-> "count", seen |-> contest.status, count |-> 0,
               todo |-> <<>>, paid |-> 0])
  /\ UNCHANGED <<contest, entry, wallet, faults, settlementVars>>

CountActive(h) ==
  /\ At(h, "count")
  /\ IF result.status = "SETTLED" THEN Return(h)
     ELSE call' = [call EXCEPT ![h].at = "claim", ![h].count = Cardinality(Active)]
  /\ UNCHANGED <<contest, entry, wallet, faults, settlementVars>>

(* Seeded fault: the claim is no compare-and-set. *)
ClaimAlways(h) ==
  /\ At(h, "claim")
  /\ result' = [result EXCEPT !.status = "IN_PROGRESS", !.token = h]
  /\ Goto(h, "load")
  /\ UNCHANGED <<contest, entry, wallet, faults, credited, points, snapshot, resets>>

(* In every other status the upsert inserts a second document, and the     *)
(* unique index on contestId refuses it.                                   *)
ClaimForSettlement(h) ==
  /\ At(h, "claim")
  /\ IF result.status \in {"none", "NOT_STARTED", "FAILED"}
     THEN /\ result' = [result EXCEPT !.status = "IN_PROGRESS", !.token = h]
          /\ Goto(h, "load")
     ELSE Return(h) /\ UNCHANGED result
  /\ UNCHANGED <<contest, entry, wallet, faults, credited, points, snapshot, resets>>

-----------------------------------------------------------------------------
(* The run that has the claim *)

(* finalise finds the document by the token of the run, or writes nothing. *)
Finalised(h, status, paid) ==
  IF result.token = h THEN [result EXCEPT !.status = status, !.paid = paid] ELSE result

Skip(h) ==
  /\ At(h, "load") /\ call[h].count = 0
  /\ result' = Finalised(h, "SKIPPED", 0)
  /\ Return(h)
  /\ UNCHANGED <<contest, entry, wallet, faults, credited, points, snapshot, resets>>

(* Whatever the totals are by now: nobody keeps those of a run that failed. *)
LoadEntries(h) ==
  /\ At(h, "load") /\ call[h].count > 0
  /\ points' \in Totals
  /\ call' = [call EXCEPT ![h].at = "pay", ![h].todo =
       AllocateWinnings(Active, points', snapshot)]
  /\ UNCHANGED <<contest, entry, wallet, faults, result, credited, snapshot, resets>>

Pays(a) == SnapshotHasPayouts(snapshot) /\ a.amount > 0

(* Seeded fault: a repeated key is answered whatever the amount. *)
ReplayAnyAmount(a) == credited[a.entry] # NotPosted

(* The wallet answers a repeated key only for the amount it posted. *)
Replay(a) == credited[a.entry] = a.amount

CreditWinning(h) ==
  /\ At(h, "pay") /\ call[h].todo # <<>>
  /\ LET a == Head(call[h].todo)
     IN  IF Pays(a)
         THEN /\ credited[a.entry] = NotPosted \/ Replay(a)
              /\ credited' = [credited EXCEPT ![a.entry] = IF @ = NotPosted THEN a.amount ELSE @]
              /\ call' = [call EXCEPT ![h].at = "mark", ![h].paid = @ + a.amount]
         ELSE Goto(h, "mark") /\ UNCHANGED credited
  /\ UNCHANGED <<contest, entry, wallet, faults, result, points, snapshot, resets>>

CreditConflicts(h) ==
  /\ At(h, "pay") /\ call[h].todo # <<>>
  /\ LET a == Head(call[h].todo)
     IN  Pays(a) /\ credited[a.entry] # NotPosted /\ ~Replay(a)
  /\ Goto(h, "catch")
  /\ UNCHANGED <<contest, entry, wallet, faults, settlementVars>>

(* markSettled asks for no status: a refunded entry becomes SETTLED. *)
MarkSettled(h) ==
  /\ At(h, "mark")
  /\ LET a == Head(call[h].todo)
     IN  entry' = [entry EXCEPT ![a.entry].status = "SETTLED", ![a.entry].rank = a.rank,
                     ![a.entry].winning = IF Pays(a) THEN a.amount ELSE 0]
  /\ call' = [call EXCEPT ![h].at = "pay", ![h].todo = Tail(@)]
  /\ UNCHANGED <<contest, wallet, faults, settlementVars>>

RebuildLeaderboard(h) ==
  /\ At(h, "pay") /\ call[h].todo = <<>>
  /\ Goto(h, "complete")
  /\ UNCHANGED <<contest, entry, wallet, faults, settlementVars>>

(* The status that was read at the start decides; the save is              *)
(* unconditional and overwrites a cancellation.                            *)
CompleteContest(h) ==
  /\ At(h, "complete")
  /\ contest' = IF call[h].seen = "COMPLETED" THEN contest
                ELSE [contest EXCEPT !.status = "COMPLETED"]
  /\ Goto(h, "finalise")
  /\ UNCHANGED <<entry, wallet, faults, settlementVars>>

Finalise(h) ==
  /\ At(h, "finalise")
  /\ result' = Finalised(h, "SETTLED", call[h].paid)
  /\ Return(h)
  /\ UNCHANGED <<contest, entry, wallet, faults, credited, points, snapshot, resets>>

FinaliseFailed(h) ==
  /\ At(h, "catch")
  /\ result' = Finalised(h, "FAILED", 0)
  /\ Return(h)
  /\ UNCHANGED <<contest, entry, wallet, faults, credited, points, snapshot, resets>>

-----------------------------------------------------------------------------
(* resetForRetry reads FAILED ... *)
ResetForRetry(h) ==
  /\ result.status = "FAILED"
  /\ resets < MaxResets
  /\ resets' = resets + 1
  /\ Start(h, [at |-> "reset"])
  /\ UNCHANGED <<contest, entry, wallet, faults, result, credited, points, snapshot>>

(* ... and saves NOT_STARTED over whatever the result is by now. *)
SaveReset(h) ==
  /\ At(h, "reset")
  /\ result' = [result EXCEPT !.status = "NOT_STARTED", !.token = Nobody]
  /\ Return(h)
  /\ UNCHANGED <<contest, entry, wallet, faults, credited, points, snapshot, resets>>

-----------------------------------------------------------------------------
(* What goes wrong *)

(* An awaited call of the try block is rejected. *)
Fault(h) ==
  /\ call[h].at \in InTry
  /\ faults < MaxFaults
  /\ faults' = faults + 1
  /\ Goto(h, "catch")
  /\ UNCHANGED <<contest, entry, wallet, settlementVars>>

(* The process dies, or the call outside the try block is rejected. *)
Crash(h) ==
  /\ call[h].at \in SettleSteps \cup {"reset"}
  /\ faults < MaxFaults
  /\ faults' = faults + 1
  /\ Return(h)
  /\ UNCHANGED <<contest, entry, wallet, result, credited, points, snapshot, resets>>

SettleStep(h) ==
  \/ CountActive(h) \/ ClaimForSettlement(h) \/ Skip(h) \/ LoadEntries(h)
  \/ CreditWinning(h) \/ CreditConflicts(h) \/ MarkSettled(h)
  \/ RebuildLeaderboard(h) \/ CompleteContest(h) \/ Finalise(h) \/ FinaliseFailed(h)
  \/ SaveReset(h)

CancelNext ==
  \/ \E target \in Statuses : TransitionStatus(target)
  \/ \E h \in Handlers : CancelContest(h) \/ LifecycleStep(h) \/ LifecycleFault(h)

Next ==
  \/ CancelNext /\ UNCHANGED settlementVars
  \/ \E h \in Handlers, force \in BOOLEAN : SettleContest(h, force)
  \/ \E h \in Handlers : SettleStep(h) \/ ResetForRetry(h) \/ Fault(h) \/ Crash(h)

Spec == Init /\ [][Next]_vars

-----------------------------------------------------------------------------
(* Properties.  A reset that was read before another run claimed the       *)
(* result revokes that claim; what relies on the claim is stated without   *)
(* resets.                                                                 *)

(* "The worker uses this to guarantee single-runner semantics without a    *)
(* separate distributed lock" (contest-result.repository.ts): of workers   *)
(* and administrators, retries and failures, one run pays at a time.       *)
SingleRunner ==
  resets = 0 => Cardinality({h \in Handlers : Runs(h)}) <= 1

(* The entries that do not show what was credited to the wallet. *)
Credit(e) == IF credited[e] = NotPosted THEN 0 ELSE credited[e]
Untold == {e \in Entries : entry[e].winning # Credit(e)}

(* The entry a user sees as settled shows what was credited to the wallet, *)
(* also after failed runs and retries (settleContest, step 3).  The one    *)
(* exception: an entry that a failed run had credited and not marked, and  *)
(* that wins nothing in the ranking of the retry, is then marked without a *)
(* winning.  Each such entry takes a failure of its own.                   *)
SettledEntriesTellTruth ==
  resets = 0 =>
    LET misled == {e \in Untold : entry[e].status = "SETTLED"} IN
    /\ \A e \in misled : entry[e].winning = 0
    /\ Cardinality(misled) <= faults

(* A settlement that met neither a fault nor a cancellation credits every  *)
(* entry what the rules of the prize ladder give it among all entries, by  *)
(* the totals the run read.                                                *)
SettlementPaysWinnings ==
  result.status = "SETTLED" /\ faults = 0 /\ ~contest.cancelled =>
    \A e \in Entries :
      LET w == Winnings(e, Entries, points, snapshot)
      IN  credited[e] = (IF w = 0 THEN NotPosted ELSE w)

(* What the entries were credited in all. *)
Paid == SumFunction([e \in Entries |-> Credit(e)])

(* "Total payout is always <= `sum(prizeForRank(r))` over the contested    *)
(* ranks - never over the pool. Settlement also asserts this invariant."   *)
(* (prize-calculator.ts, allocateWinnings.)  Nothing asserts it: a run     *)
(* that failed after its first payment is retried with the entries that    *)
(* are left, ranked from 1 again.  Only so is more than the pool paid,     *)
(* also with cancellations, two runs and requests at a time.               *)
OverpayNeedsFailedRun == Paid > snapshot.poolAmount => faults > 0
=============================================================================
