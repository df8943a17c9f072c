----------------------------- MODULE ContestJoin -----------------------------
(***************************************************************************)
(* Joining a contest (src/src/modules/contest/contest-join.service.ts),    *)
(* interleaved with other joins and with the administrators' calls of      *)
(* ContestLifecycle.                                                       *)
(*                                                                         *)
(* A join spans two transactions.  The contest transaction claims a spot   *)
(* and inserts the entry; the fee is locked by a wallet transaction of its *)
(* own, which commits on its own and is compensated when the contest       *)
(* transaction aborts.  What the contest transaction wrote is visible at   *)
(* its commit; until then it holds the contest document (contest.writer).  *)
(* What runs after the commit (cache, participant counter, leaderboard,    *)
(* audit, events) swallows its own errors.                                 *)
(***************************************************************************)
EXTENDS ContestLifecycle, FiniteSets

CONSTANTS
  Teams,              \* fantasy teams
  Owner,              \* the user of each team
  Keys, NoKey,        \* Idempotency-Key headers; the client sent none
  Limits,             \* values of maxEntriesPerUser
  Funds,              \* spendable balance of a user at the start, in fees
  MaxSent,            \* bound: how often a client sends the same key
  MaxImplicit         \* bound: keys the service makes up

ASSUME JoinAssumption ==
  /\ IsFiniteSet(Handlers)
  /\ Owner \in [Teams -> Users]
  /\ NoKey \notin Keys
  /\ (Keys \cup {NoKey}) \cap Nat = {}  \* no client sends a key the service makes up
  /\ Limits \subseteq Nat \ {0}
  /\ Funds \in Nat /\ MaxSent \in Nat /\ MaxImplicit \in Nat

VARIABLES
  limit,    \* contest.maxEntriesPerUser
  sent,     \* how often each key was sent
  implicit  \* how many keys the service has made up (Date.now of each)

vars == <<contest, entry, wallet, call, faults, limit, sent, implicit>>
joinVars == <<limit, sent, implicit>>

Joinable == {"OPEN", "SCHEDULED"}
JoinSteps == {"preflight", "validate", "claim", "lock", "insert", "done", "rollback"}
InTransaction == {"lock", "insert"}

(* Keys of the wallet: of a lock, of the refund of a transaction or entry. *)
LockKeys == Keys \cup (1..MaxImplicit)
NoTransaction == 0
Postings == ({"lock", "rollback"} \X LockKeys) \cup ({"refund"} \X Nat)

JoinCalls == [at : JoinSteps, team : Teams, key : Keys \cup {NoKey},
              txn : LockKeys \cup {NoTransaction}]
Entries == [user : Users, team : Teams, key : Keys \cup {NoKey},
            txn : LockKeys, status : EntryStatuses]

TypeOK ==
  /\ LifecycleTypeOK
  /\ \A e \in DOMAIN entry : entry[e] \in Entries
  /\ \A u \in Users :
       /\ wallet[u].spendable \in 0..Funds
       /\ wallet[u].spendable + wallet[u].locked = Funds
       /\ wallet[u].posted \subseteq Postings
  /\ \A h \in Handlers : LifecycleCalls(h) \/ call[h] \in JoinCalls
  /\ limit \in Limits
  /\ sent \in [Keys -> 0..MaxSent]
  /\ implicit \in 0..MaxImplicit

Init ==
  /\ \E n \in 2..MaxSpots, publish \in BOOLEAN :
       contest \in {CreatedContest(n, publish), SeededContest(n),
                   ClonedContest(SeededContest(n))}
  /\ entry = <<>>
  /\ wallet = [u \in Users |-> [spendable |-> Funds, locked |-> 0, posted |-> {}]]
  /\ call = [h \in Handlers |-> Idle]
  /\ faults = 0
  /\ limit \in Limits
  /\ sent = [k \in Keys |-> 0]
  /\ implicit = 0

UserOf(h) == Owner[call[h].team]
ActiveOf(u) == {e \in DOMAIN entry : entry[e].user = u /\ entry[e].status = "ACTIVE"}

-----------------------------------------------------------------------------
(* Before the transaction *)

(* A key with which the user has already joined is answered with its entry *)
(* and writes nothing.                                                     *)
Join(h, t, k) ==
  /\ k # NoKey =>
       /\ sent[k] < MaxSent
       /\ \A e \in DOMAIN entry : ~(entry[e].user = Owner[t] /\ entry[e].key = k)
  /\ Start(h, [at |-> "preflight", team |-> t, key |-> k, txn |-> NoTransaction])
  /\ sent' = [key \in Keys |-> sent[key] + (IF key = k THEN 1 ELSE 0)]
  /\ UNCHANGED <<contest, entry, wallet, faults, limit, implicit>>

(* The contest and the wallet are read ... *)
Preflight(h) ==
  /\ At(h, "preflight")
  /\ contest.status \in Joinable /\ contest.filled < contest.total
  /\ wallet[UserOf(h)].spendable > 0
  /\ Goto(h, "validate")
  /\ UNCHANGED <<contest, entry, wallet, faults, joinVars>>

(* Seeded fault: the validator does not look at the entries of the user. *)
ValidateTeamOnly(h) ==
  /\ At(h, "validate")
  /\ \A e \in ActiveOf(UserOf(h)) : entry[e].team # call[h].team
  /\ Goto(h, "claim")
  /\ UNCHANGED <<contest, entry, wallet, faults, joinVars>>

(* ... then the entries of the user, and validateContestJoin decides. *)
Validate(h) ==
  /\ At(h, "validate")
  /\ Cardinality(ActiveOf(UserOf(h))) < limit
  /\ \A e \in ActiveOf(UserOf(h)) : entry[e].team # call[h].team
  /\ Goto(h, "claim")
  /\ UNCHANGED <<contest, entry, wallet, faults, joinVars>>

(* The validator refuses: for what was read above, or for the join window, *)
(* the lock of the match, the invite code, the team or a frozen wallet.    *)
Refuse(h) ==
  /\ call[h].at \in {"preflight", "validate"}
  /\ Return(h)
  /\ UNCHANGED <<contest, entry, wallet, faults, joinVars>>

-----------------------------------------------------------------------------
(* The transaction *)

(* Seeded fault: the claim asks for room only, not for the status. *)
ClaimAnyStatus(h) ==
  /\ At(h, "claim") /\ Writable
  /\ contest.filled < contest.total
  /\ contest' = [contest EXCEPT !.writer = h]
  /\ Goto(h, "lock")
  /\ UNCHANGED <<entry, wallet, faults, joinVars>>

(* incrementFilledSpot; the increment itself shows at the commit. *)
ClaimSpot(h) ==
  /\ At(h, "claim") /\ Writable
  /\ contest.status \in Joinable /\ contest.filled < contest.total
  /\ contest' = [contest EXCEPT !.writer = h]
  /\ Goto(h, "lock")
  /\ UNCHANGED <<entry, wallet, faults, joinVars>>

(* The contest filled up, or its status moved, since it was read. *)
ContestFull(h) ==
  /\ At(h, "claim") /\ Writable
  /\ ~(contest.status \in Joinable /\ contest.filled < contest.total)
  /\ Goto(h, "rollback")
  /\ UNCHANGED <<contest, entry, wallet, faults, joinVars>>

(* lockForContest.  The balance is checked before the key: a repeated key  *)
(* is answered with its transaction only while the fee could be paid again.*)
LockFee(h) ==
  LET u == UserOf(h)
      k == IF call[h].key = NoKey THEN implicit + 1 ELSE call[h].key
  IN  /\ At(h, "lock")
      /\ k \in LockKeys
      /\ wallet[u].spendable > 0
      /\ wallet' = IF <<"lock", k>> \in wallet[u].posted THEN wallet
                   ELSE [wallet EXCEPT ![u].spendable = @ - 1, ![u].locked = @ + 1,
                                       ![u].posted = @ \cup {<<"lock", k>>}]
      /\ implicit' = IF call[h].key = NoKey THEN k ELSE implicit
      /\ call' = [call EXCEPT ![h].at = "insert", ![h].txn = k]
      /\ UNCHANGED <<contest, entry, faults, limit, sent>>

Insufficient(h) ==
  /\ At(h, "lock")
  /\ wallet[UserOf(h)].spendable = 0
  /\ contest' = [contest EXCEPT !.writer = Nobody]
  /\ Goto(h, "rollback")
  /\ UNCHANGED <<entry, wallet, faults, joinVars>>

(* The unique indexes of contest_entries: one ACTIVE entry of a team, one  *)
(* entry, of any status, under a key of the user.                          *)
Duplicate(h) ==
  \E e \in DOMAIN entry :
    \/ entry[e].status = "ACTIVE" /\ entry[e].team = call[h].team
    \/ call[h].key # NoKey /\ entry[e].user = UserOf(h) /\ entry[e].key = call[h].key

(* Seeded fault: the increment runs outside the session and survives. *)
InsertRefusedSpotKept(h) ==
  /\ At(h, "insert")
  /\ Duplicate(h)
  /\ contest' = [contest EXCEPT !.writer = Nobody, !.filled = @ + 1]
  /\ Goto(h, "rollback")
  /\ UNCHANGED <<entry, wallet, faults, joinVars>>

InsertRefused(h) ==
  /\ At(h, "insert")
  /\ Duplicate(h)
  /\ contest' = [contest EXCEPT !.writer = Nobody]
  /\ Goto(h, "rollback")
  /\ UNCHANGED <<entry, wallet, faults, joinVars>>

(* insertEntry, markFullIfCapacityReached and the commit. *)
InsertEntry(h) ==
  /\ At(h, "insert")
  /\ ~Duplicate(h)
  /\ entry' = Append(entry, [user |-> UserOf(h), team |-> call[h].team,
                             key |-> call[h].key, txn |-> call[h].txn,
                             status |-> "ACTIVE"])
  /\ contest' = [contest EXCEPT
       !.writer = Nobody,
       !.filled = @ + 1,
       !.status = IF @ = "OPEN" /\ contest.filled + 1 >= contest.total THEN "FULL" ELSE @]
  /\ Goto(h, "done")
  /\ UNCHANGED <<wallet, faults, joinVars>>

(* Seeded fault: an effect after the commit throws into the catch block. *)
SideEffectThrows(h) ==
  /\ At(h, "done")
  /\ Goto(h, "rollback")
  /\ UNCHANGED <<contest, entry, wallet, faults, joinVars>>

SideEffects(h) ==
  /\ At(h, "done")
  /\ Return(h)
  /\ UNCHANGED <<contest, entry, wallet, faults, joinVars>>

-----------------------------------------------------------------------------
(* handleJoinRollback *)

(* Seeded fault: the catch block leaves the wallet to the transaction. *)
RollbackImplicit(h) ==
  /\ At(h, "rollback")
  /\ Return(h)
  /\ UNCHANGED <<contest, entry, wallet, faults, joinVars>>

(* The fee is refunded under a key made of the locking transaction; a      *)
(* refund that throws is logged.                                           *)
HandleJoinRollback(h) ==
  LET u == UserOf(h)
      key == <<"rollback", call[h].txn>>
  IN  /\ At(h, "rollback")
      /\ wallet' = IF call[h].txn # NoTransaction /\ CanRefund(u, key)
                   THEN Refunded(u, key) ELSE wallet
      /\ Return(h)
      /\ UNCHANGED <<contest, entry, faults, joinVars>>

-----------------------------------------------------------------------------
(* What goes wrong *)

Released(h) == [contest EXCEPT !.writer = IF @ = h THEN Nobody ELSE @]

JoinFault(h) ==
  /\ call[h].at \in JoinSteps
  /\ faults < MaxFaults
  /\ faults' = faults + 1

(* An error aborts the transaction and reaches the catch block. *)
Abort(h) ==
  /\ JoinFault(h)
  /\ call[h].at \in InTransaction \cup {"claim"}
  /\ contest' = Released(h)
  /\ Goto(h, "rollback")
  /\ UNCHANGED <<entry, wallet, joinVars>>

(* withTransaction runs the callback again after a transient error.        *)
(* walletTransactionId keeps the value of the first run.                   *)
RetryTransaction(h) ==
  /\ JoinFault(h)
  /\ call[h].at \in InTransaction
  /\ contest' = Released(h)
  /\ Goto(h, "claim")
  /\ UNCHANGED <<entry, wallet, joinVars>>

(* The process dies: the transaction aborts and no catch block runs.  A    *)
(* refund that is rejected in the catch block ends the call as well.       *)
Crash(h) ==
  /\ JoinFault(h)
  /\ contest' = Released(h)
  /\ Return(h)
  /\ UNCHANGED <<entry, wallet, joinVars>>

-----------------------------------------------------------------------------
JoinStep(h) ==
  \/ Preflight(h) \/ Validate(h) \/ Refuse(h)
  \/ ClaimSpot(h) \/ ContestFull(h) \/ LockFee(h) \/ Insufficient(h)
  \/ InsertRefused(h) \/ InsertEntry(h) \/ SideEffects(h) \/ HandleJoinRollback(h)

Next ==
  \/ LifecycleNext /\ UNCHANGED joinVars
  \/ \E h \in Handlers, t \in Teams, k \in Keys \cup {NoKey} : Join(h, t, k)
  \/ \E h \in Handlers : JoinStep(h) \/ Abort(h) \/ RetryTransaction(h) \/ Crash(h)

Spec == Init /\ [][Next]_vars

-----------------------------------------------------------------------------
(* Properties *)

(* The spots taken are the entries inserted, through every abort, retry,   *)
(* duplicate and crash: "the spot increment + the entry insert ... commit  *)
(* (or roll back) together" (contest.repository.ts, incrementFilledSpot).  *)
SpotsMatchEntries == contest.filled = Len(entry)

(* The limit of entries is checked before the transaction, so every other  *)
(* call under way may exceed it by one entry; never more.                  *)
LimitExceededOncePerCall ==
  \A u \in Users :
    Cardinality(ActiveOf(u)) <= limit + Cardinality(Handlers) - 1

Rolled(e) == <<"rollback", entry[e].txn>> \in wallet[entry[e].user].posted
SentOnce == \A k \in Keys : sent[k] <= 1

(* An entry is paid for: its lock was posted, and if that lock was rolled  *)
(* back then the client had sent the key of the entry more than once.      *)
UnpaidEntryNeedsRepeatedKey ==
  \A e \in DOMAIN entry :
    /\ <<"lock", entry[e].txn>> \in wallet[entry[e].user].posted
    /\ Rolled(e) => entry[e].key # NoKey /\ sent[entry[e].key] > 1

(* When all calls have ended, no fault was injected and no key repeated,   *)
(* the escrow of a user holds a fee for each of the active entries and     *)
(* nothing else: refused, duplicate and late joins leave nothing locked.   *)
EscrowMatchesEntries ==
  Quiet /\ faults = 0 /\ SentOnce =>
    \A u \in Users : wallet[u].locked = Cardinality(ActiveOf(u))

(* ... and a cancelled contest keeps no active entry: no join slips past   *)
(* the sweep that reads the entries after the status was flipped.          *)
CancelledContestIsRefunded ==
  Quiet /\ faults = 0 /\ SentOnce /\ contest.cancelled =>
    \A e \in DOMAIN entry : entry[e].status = "REFUNDED"

=============================================================================
