--------------------------- MODULE ContestLifecycle ---------------------------
(***************************************************************************)
(* What administrators do to a contest (src/src/modules/contest,           *)
(* contest.service.ts): status transitions, updates of the capacity, and   *)
(* the cancellation with its sweep of refunds.  ContestJoin and            *)
(* ContestSettlement extend this module with the calls that interleave     *)
(* with these.                                                             *)
(*                                                                         *)
(* One contest, with an entry fee that never changes: amounts of money are *)
(* counted in fees.  A wallet call is one atomic posting under its key,    *)
(* the journal that Wallet.tla is shown to implement.                      *)
(***************************************************************************)
EXTENDS Integers, Sequences

CONSTANTS
  Handlers,   \* calls that may be under way at a time
  Nobody,     \* no handler
  Users,      \* users with a wallet
  MaxSpots,   \* bound: the capacities an administrator may set
  MaxFaults   \* bound: errors and crashes

ASSUME LifecycleAssumption ==
  /\ Nobody \notin Handlers
  /\ MaxSpots \in Nat /\ MaxFaults \in Nat

VARIABLES
  contest,  \* the contests document
  entry,    \* contest_entries documents of the contest, in insertion order
  wallet,   \* escrow of each user, and the keys of the postings
  call,     \* what each handler is doing
  faults    \* errors and crashes so far

Statuses == {"DRAFT", "SCHEDULED", "OPEN", "FULL", "LOCKED", "LIVE",
             "COMPLETED", "CANCELLED"}
EntryStatuses == {"ACTIVE", "REFUNDED", "SETTLED"}

(* writer is the join transaction that has written the document and is not *)
(* committed: other writers of the document wait for it, readers see the   *)
(* values before it.                                                       *)
Contests == [status : Statuses, filled : Nat, total : 2..MaxSpots,
             cancelled : BOOLEAN, writer : Handlers \cup {Nobody}]

Allowed ==
  [s \in Statuses |->
     CASE s = "DRAFT"     -> {"SCHEDULED", "OPEN", "CANCELLED"}
       [] s = "SCHEDULED" -> {"OPEN", "CANCELLED"}
       [] s = "OPEN"      -> {"FULL", "LOCKED", "LIVE", "CANCELLED"}
       [] s = "FULL"      -> {"LOCKED", "LIVE", "CANCELLED"}
       [] s = "LOCKED"    -> {"LIVE", "COMPLETED", "CANCELLED"}
       [] s = "LIVE"      -> {"COMPLETED", "CANCELLED"}
       [] OTHER           -> {}]

Cancellable == {"DRAFT", "SCHEDULED", "OPEN", "FULL", "LOCKED", "LIVE"}

-----------------------------------------------------------------------------
Idle == [at |-> "idle"]
At(h, step) == call[h].at = step
Goto(h, step) == call' = [call EXCEPT ![h].at = step]
Return(h) == call' = [call EXCEPT ![h] = Idle]
Start(h, c) == call[h] = Idle /\ call' = [call EXCEPT ![h] = c]
Quiet == \A h \in Handlers : call[h] = Idle

Writable == contest.writer = Nobody

Active == {e \in DOMAIN entry : entry[e].status = "ACTIVE"}
IsNext(e, todo) == e \in todo /\ \A d \in todo : e <= d

(* walletService.refundContest: from LOCKED back to the spendable buckets. *)
(* The hard guard refuses to overdraw LOCKED; a key that was posted is     *)
(* answered, not posted again.                                             *)
CanRefund(u, key) == key \in wallet[u].posted \/ wallet[u].locked > 0

Refunded(u, key) ==
  IF key \in wallet[u].posted THEN wallet
  ELSE [wallet EXCEPT ![u].locked = @ - 1, ![u].spendable = @ + 1,
                      ![u].posted = @ \cup {key}]

-----------------------------------------------------------------------------
(* A contest before its first entry: created by an administrator, copied   *)
(* from another one, or made of a template for a match without contests.   *)
NewContest(status, total) ==
  [status |-> status, filled |-> 0, total |-> total, cancelled |-> FALSE, writer |-> Nobody]
CreatedContest(total, publishImmediately) ==
  NewContest(IF publishImmediately THEN "OPEN" ELSE "DRAFT", total)
ClonedContest(source) == NewContest("DRAFT", source.total)
SeededContest(total) == NewContest("OPEN", total)

-----------------------------------------------------------------------------
(* transitionStatus: the write is conditional on the status that was read. *)
(* The target may be CANCELLED: then nothing is refunded, and a later      *)
(* cancelContest returns at once.                                          *)
TransitionStatus(target) ==
  /\ Writable
  /\ target \in Allowed[contest.status]
  /\ contest' = [contest EXCEPT !.status = target]
  /\ UNCHANGED <<entry, wallet, call, faults>>

(* updateContest compares the new capacity with the count it reads ...     *)
(* It may set the limit of entries as well, which is left as it is here.   *)
UpdateContest(h, n) ==
  /\ n >= contest.filled
  /\ Start(h, [at |-> "update", total |-> n])
  /\ UNCHANGED <<contest, entry, wallet, faults>>

(* ... and then writes it, whatever was joined meanwhile. *)
SaveCapacity(h) ==
  /\ At(h, "update")
  /\ Writable
  /\ contest' = [contest EXCEPT !.total = call[h].total]
  /\ Return(h)
  /\ UNCHANGED <<entry, wallet, faults>>

-----------------------------------------------------------------------------
(* cancelContest *)

CancelContest(h) ==
  /\ Writable
  /\ contest.status \in Cancellable
  /\ contest' = [contest EXCEPT !.status = "CANCELLED", !.cancelled = TRUE]
  /\ Start(h, [at |-> "sweep", todo |-> {}])
  /\ UNCHANGED <<entry, wallet, faults>>

FindActiveForContest(h) ==
  /\ At(h, "sweep")
  /\ call' = [call EXCEPT ![h] = [at |-> "refund", todo |-> Active]]
  /\ UNCHANGED <<contest, entry, wallet, faults>>

(* refundEntry credits the fee back, entry by entry as they were read.  A  *)
(* refund that throws ends the sweep, the error is logged and the          *)
(* cancellation stands.                                                    *)
RefundEntry(h) ==
  /\ At(h, "refund")
  /\ \E e \in call[h].todo :
       /\ IsNext(e, call[h].todo)
       /\ LET u == entry[e].user
              key == <<"refund", e>>
          IN  IF CanRefund(u, key)
              THEN wallet' = Refunded(u, key) /\ Goto(h, "markRefunded")
              ELSE Return(h) /\ UNCHANGED wallet
  /\ UNCHANGED <<contest, entry, faults>>

MarkRefunded(h) ==
  /\ At(h, "markRefunded")
  /\ \E e \in call[h].todo :
       /\ IsNext(e, call[h].todo)
       /\ entry' = [entry EXCEPT ![e].status = "REFUNDED"]
       /\ call' = [call EXCEPT ![h] = [at |-> "refund", todo |-> @.todo \ {e}]]
  /\ UNCHANGED <<contest, wallet, faults>>

SweepEnds(h) ==
  /\ At(h, "refund") /\ call[h].todo = {}
  /\ Return(h)
  /\ UNCHANGED <<contest, entry, wallet, faults>>

-----------------------------------------------------------------------------
LifecycleSteps == {"update", "sweep", "refund", "markRefunded"}

(* An awaited call is rejected or the process dies: neither undoes what    *)
(* these calls have written, and nothing resumes them.                     *)
LifecycleFault(h) ==
  /\ call[h].at \in LifecycleSteps
  /\ faults < MaxFaults
  /\ faults' = faults + 1
  /\ Return(h)
  /\ UNCHANGED <<contest, entry, wallet>>

LifecycleStep(h) ==
  \/ SaveCapacity(h) \/ FindActiveForContest(h) \/ RefundEntry(h)
  \/ MarkRefunded(h) \/ SweepEnds(h)

LifecycleNext ==
  \/ \E target \in Statuses : TransitionStatus(target)
  \/ \E h \in Handlers, n \in 2..MaxSpots : UpdateContest(h, n)
  \/ \E h \in Handlers : CancelContest(h) \/ LifecycleStep(h) \/ LifecycleFault(h)

LifecycleCalls(h) ==
  \/ call[h] = Idle
  \/ /\ DOMAIN call[h] = {"at", "total"}
     /\ call[h].at = "update" /\ call[h].total \in 2..MaxSpots
  \/ /\ DOMAIN call[h] = {"at", "todo"}
     /\ call[h].at \in {"sweep", "refund", "markRefunded"}
     /\ call[h].todo \subseteq DOMAIN entry

LifecycleTypeOK ==
  /\ contest \in Contests
  /\ faults \in 0..MaxFaults
=============================================================================
