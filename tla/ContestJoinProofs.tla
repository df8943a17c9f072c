--------------------------- MODULE ContestJoinProofs ---------------------------
(***************************************************************************)
(* Proofs about ContestJoin, for any number of calls, teams, users, keys   *)
(* and faults.                                                             *)
(*                                                                         *)
(* The spots taken are the entries inserted, and the limit of entries is   *)
(* exceeded by no more than the calls that run at once: from one inductive *)
(* invariant (IInv) that counts, beside the active entries of a user, the  *)
(* calls that have been validated and have not inserted yet.               *)
(*                                                                         *)
(* An entry stays paid for unless its key was repeated: from what becomes  *)
(* of one key (KeyInv), which a call bears, then an entry or a rollback.   *)
(*                                                                         *)
(* While nothing fails and no key is repeated, the escrow of a user is the *)
(* fees of the active entries, and a cancelled contest keeps none: from    *)
(* the count of all that is owed a fee and of what the one sweep has       *)
(* before it (EscrowInv).                                                  *)
(*                                                                         *)
(* The wallet of each user is shown to be a WalletJournal.                 *)
(***************************************************************************)
EXTENDS ContestJoin, FiniteSetTheorems, TLAPS

(* What the steps below need to know of the shape of the state. *)
EntryShapes == [user : Users, team : Teams, key : Keys \cup {NoKey},
                txn : LockKeys \cup {NoTransaction}, status : EntryStatuses]
Sweeps == {"sweep", "refund", "markRefunded"}

CallOK(c) ==
  \/ c = Idle
  \/ \E n \in 2..MaxSpots : c = [at |-> "update", total |-> n]
  \/ \E s \in Sweeps : \E q : c = [at |-> s, todo |-> q]
  \/ c \in JoinCalls

Shape ==
  /\ contest \in Contests
  /\ entry \in Seq(EntryShapes)
  /\ call = [h \in Handlers |-> call[h]]
  /\ \A h \in Handlers : CallOK(call[h])
  /\ limit \in Nat \ {0}

(* Calls of a user that have been validated and have not ended. *)
Validated == {"claim", "lock", "insert"}
PendingOf(u) == {h \in Handlers : call[h].at \in Validated /\ Owner[call[h].team] = u}

WithinLimit ==
  \A u \in Users :
    Cardinality(ActiveOf(u)) + Cardinality(PendingOf(u)) <= limit + Cardinality(Handlers) - 1

IInv == Shape /\ SpotsMatchEntries /\ WithinLimit

-----------------------------------------------------------------------------
(* A call at a step of a join is one of JoinCalls. *)
LEMMA JoinCaller ==
  ASSUME NEW c, CallOK(c), c.at \in JoinSteps
  PROVE  c \in JoinCalls
BY DEF CallOK, Idle, Sweeps, JoinSteps

LEMMA FiniteSides ==
  ASSUME Shape, NEW u
  PROVE  /\ IsFiniteSet(ActiveOf(u)) /\ Cardinality(ActiveOf(u)) \in Nat
         /\ IsFiniteSet(PendingOf(u)) /\ Cardinality(PendingOf(u)) \in Nat
         /\ Cardinality(Handlers) \in Nat
         /\ Cardinality(PendingOf(u)) <= Cardinality(Handlers)
<1>1. IsFiniteSet(DOMAIN entry)
  <2>1. DOMAIN entry = 1..Len(entry) /\ Len(entry) \in Nat
    BY DEF Shape
  <2> QED
    BY <2>1, FS_Interval
<1>2. IsFiniteSet(ActiveOf(u))
  BY <1>1, FS_Subset DEF ActiveOf
<1>3. IsFiniteSet(Handlers)
  BY JoinAssumption
<1>4. PendingOf(u) \subseteq Handlers
  BY DEF PendingOf
<1>5. /\ IsFiniteSet(PendingOf(u))
      /\ Cardinality(PendingOf(u)) <= Cardinality(Handlers)
  BY <1>3, <1>4, FS_Subset
<1> QED
  BY <1>2, <1>3, <1>5, FS_CardinalityType

(* The sum only falls while active entries and validated calls only go.    *)
LEMMA SumFalls ==
  ASSUME Shape, Shape', WithinLimit, limit' = limit,
         \A u \in Users : ActiveOf(u)' \subseteq ActiveOf(u),
         \A u \in Users : PendingOf(u)' \subseteq PendingOf(u)
  PROVE  WithinLimit'
<1> SUFFICES ASSUME NEW u \in Users
             PROVE  Cardinality(ActiveOf(u)') + Cardinality(PendingOf(u)')
                      <= limit + Cardinality(Handlers) - 1
  BY DEF WithinLimit
<1>1. /\ IsFiniteSet(ActiveOf(u)) /\ Cardinality(ActiveOf(u)) \in Nat
      /\ IsFiniteSet(PendingOf(u)) /\ Cardinality(PendingOf(u)) \in Nat
      /\ Cardinality(Handlers) \in Nat
  BY FiniteSides
<1>2. /\ Cardinality(ActiveOf(u)') <= Cardinality(ActiveOf(u))
      /\ IsFiniteSet(ActiveOf(u)')
  BY <1>1, FS_Subset
<1>3. /\ Cardinality(PendingOf(u)') <= Cardinality(PendingOf(u))
      /\ IsFiniteSet(PendingOf(u)')
  BY <1>1, FS_Subset
<1>4. Cardinality(ActiveOf(u)') \in Nat /\ Cardinality(PendingOf(u)') \in Nat
  BY <1>2, <1>3, FS_CardinalityType
<1>5. Cardinality(ActiveOf(u)) + Cardinality(PendingOf(u)) <= limit + Cardinality(Handlers) - 1
  BY DEF WithinLimit
<1>6. limit \in Nat
  BY DEF Shape
<1> QED
  BY <1>1, <1>2, <1>3, <1>4, <1>5, <1>6

(* A step of one call that leaves the entries alone and validates nothing. *)
LEMMA CallStep ==
  ASSUME IInv, NEW h \in Handlers, NEW c,
         entry' = entry, limit' = limit,
         contest' \in Contests, contest'.filled = contest.filled,
         call' = [call EXCEPT ![h] = c], CallOK(c),
         c.at \in Validated => call[h].at \in Validated /\ c.team = call[h].team
  PROVE  IInv'
<1>1. call' = [g \in Handlers |-> call'[g]]
  BY DEF IInv, Shape
<1>2. \A g \in Handlers : call'[g] = IF g = h THEN c ELSE call[g]
  BY DEF IInv, Shape
<1>3. Shape'
  BY <1>1, <1>2 DEF IInv, Shape
<1>4. SpotsMatchEntries'
  BY DEF IInv, SpotsMatchEntries
<1>5. \A u \in Users : ActiveOf(u)' \subseteq ActiveOf(u)
  BY DEF ActiveOf
<1>6. \A u \in Users : PendingOf(u)' \subseteq PendingOf(u)
  BY <1>2 DEF PendingOf
<1>7. WithinLimit'
  BY <1>3, <1>5, <1>6, SumFalls DEF IInv
<1> QED
  BY <1>3, <1>4, <1>7 DEF IInv

(* The two ways a call goes on: it ends, or it moves to another step.      *)
LEMMA ReturnStep ==
  ASSUME IInv, NEW h \in Handlers, entry' = entry, limit' = limit,
         contest' \in Contests, contest'.filled = contest.filled, Return(h)
  PROVE  IInv'
<1>1. CallOK(Idle) /\ Idle.at \notin Validated
  BY DEF CallOK, Idle, Validated
<1>2. call' = [call EXCEPT ![h] = Idle]
  BY DEF Return
<1> QED
  BY <1>1, <1>2, CallStep

LEMMA GotoStep ==
  ASSUME IInv, NEW h \in Handlers, entry' = entry, limit' = limit,
         contest' \in Contests, contest'.filled = contest.filled,
         NEW step \in JoinSteps, call[h].at \in JoinSteps, Goto(h, step),
         step \in Validated => call[h].at \in Validated
  PROVE  IInv'
<1> DEFINE c == [call[h] EXCEPT !.at = step]
<1>1. CallOK(call[h]) /\ call = [g \in Handlers |-> call[g]]
  BY DEF IInv, Shape
<1>2. call[h] \in JoinCalls
  BY <1>1, JoinCaller
<1>3. c \in JoinCalls /\ c.at = step /\ c.team = call[h].team
  BY <1>2 DEF JoinCalls
<1>4. CallOK(c)
  BY <1>3 DEF CallOK
<1>5. call' = [call EXCEPT ![h] = c]
  BY <1>1 DEF Goto
<1> HIDE DEF c
<1> QED
  BY <1>3, <1>4, <1>5, CallStep

-----------------------------------------------------------------------------
(* What the steps write into the contest document.                         *)
LEMMA ContestWrites ==
  ASSUME contest \in Contests, NEW w \in Handlers \cup {Nobody},
         NEW n \in 2..MaxSpots, NEW s \in Statuses
  PROVE  /\ [contest EXCEPT !.writer = w] \in Contests
         /\ [contest EXCEPT !.writer = w].filled = contest.filled
         /\ [contest EXCEPT !.total = n] \in Contests
         /\ [contest EXCEPT !.total = n].filled = contest.filled
         /\ [contest EXCEPT !.status = s] \in Contests
         /\ [contest EXCEPT !.status = s].filled = contest.filled
BY DEF Contests

LEMMA InitEstablishes == Init => IInv
<1> SUFFICES ASSUME Init PROVE IInv
  OBVIOUS
<1>1. contest \in Contests /\ contest.filled = 0
  <2>1. PICK n \in 2..MaxSpots, publish \in BOOLEAN :
          contest \in {CreatedContest(n, publish), SeededContest(n),
                       ClonedContest(SeededContest(n))}
    BY DEF Init
  <2>2. SeededContest(n).total = n
    BY DEF SeededContest, NewContest
  <2>3. PICK s \in Statuses : contest = NewContest(s, n)
    BY <2>1, <2>2 DEF CreatedContest, SeededContest, ClonedContest, Statuses
  <2> QED
    BY <2>3 DEF NewContest, Contests
<1>2. entry = <<>> /\ limit \in Nat \ {0} /\ call = [h \in Handlers |-> Idle]
  BY JoinAssumption DEF Init
<1>3. Shape
  BY <1>1, <1>2 DEF Shape, CallOK
<1>4. SpotsMatchEntries
  BY <1>1, <1>2 DEF SpotsMatchEntries
<1>5. WithinLimit
  <2> SUFFICES ASSUME NEW u \in Users
               PROVE  Cardinality(ActiveOf(u)) + Cardinality(PendingOf(u))
                        <= limit + Cardinality(Handlers) - 1
    BY DEF WithinLimit
  <2>1. ActiveOf(u) = {}
    BY <1>2 DEF ActiveOf
  <2>2. PendingOf(u) = {}
    BY <1>2 DEF PendingOf, Idle, Validated
  <2> QED
    BY <1>2, <1>3, <2>1, <2>2, FiniteSides, FS_EmptySet
<1> QED
  BY <1>3, <1>4, <1>5 DEF IInv

-----------------------------------------------------------------------------
(* The steps of administrators.                                            *)
LEMMA LifecyclePreserves ==
  ASSUME IInv, LifecycleNext, UNCHANGED joinVars
  PROVE  IInv'
<1>0. /\ contest \in Contests /\ limit' = limit
      /\ call = [h \in Handlers |-> call[h]]
      /\ \A h \in Handlers : CallOK(call[h])
  BY DEF IInv, Shape, joinVars
<1>1. ASSUME NEW target \in Statuses, TransitionStatus(target)
      PROVE  IInv'
  <2>1. contest' \in Contests /\ contest'.filled = contest.filled
    BY <1>0, <1>1 DEF TransitionStatus, Contests
  <2>2. entry' = entry /\ call' = call
    BY <1>1 DEF TransitionStatus
  <2>3. Shape'
    BY <1>0, <2>1, <2>2 DEF IInv, Shape
  <2>4. WithinLimit'
    BY <1>0, <2>2, <2>3, SumFalls DEF IInv, ActiveOf, PendingOf
  <2> QED
    BY <2>1, <2>2, <2>3, <2>4 DEF IInv, SpotsMatchEntries
<1>2. ASSUME NEW h \in Handlers, NEW n \in 2..MaxSpots, UpdateContest(h, n)
      PROVE  IInv'
  <2>1. /\ call' = [call EXCEPT ![h] = [at |-> "update", total |-> n]]
        /\ contest' = contest /\ entry' = entry
    BY <1>2 DEF UpdateContest, Start
  <2>2. CallOK([at |-> "update", total |-> n])
    BY DEF CallOK
  <2> QED
    BY <1>0, <2>1, <2>2, CallStep DEF Validated
<1>3. ASSUME NEW h \in Handlers, CancelContest(h)
      PROVE  IInv'
  <2>1. /\ call' = [call EXCEPT ![h] = [at |-> "sweep", todo |-> {}]]
        /\ contest' \in Contests /\ contest'.filled = contest.filled /\ entry' = entry
    BY <1>0, <1>3 DEF CancelContest, Start, Contests, Statuses
  <2>2. CallOK([at |-> "sweep", todo |-> {}])
    BY DEF CallOK, Sweeps
  <2> QED
    BY <1>0, <2>1, <2>2, CallStep DEF Validated
<1>4. ASSUME NEW h \in Handlers, SaveCapacity(h)
      PROVE  IInv'
  <2>1. call[h].total \in 2..MaxSpots
    BY <1>0, <1>4 DEF SaveCapacity, At, CallOK, Idle, Sweeps, JoinCalls, JoinSteps
  <2>2. contest' = [contest EXCEPT !.total = call[h].total] /\ entry' = entry /\ Return(h)
    BY <1>4 DEF SaveCapacity
  <2>3. contest' \in Contests /\ contest'.filled = contest.filled
    BY <1>0, <2>1, <2>2 DEF Contests
  <2> QED
    BY <1>0, <2>2, <2>3, ReturnStep
<1>5. ASSUME NEW h \in Handlers, FindActiveForContest(h)
      PROVE  IInv'
  <2> DEFINE c == [at |-> "refund", todo |-> Active]
  <2>1. call' = [call EXCEPT ![h] = c] /\ contest' = contest /\ entry' = entry
    BY <1>5 DEF FindActiveForContest
  <2>2. CallOK(c) /\ c.at \notin Validated
    BY DEF CallOK, Sweeps, Validated
  <2> HIDE DEF c
  <2> QED
    BY <1>0, <2>1, <2>2, CallStep
<1>6. ASSUME NEW h \in Handlers, RefundEntry(h)
      PROVE  IInv'
  <2>1. contest' = contest /\ entry' = entry /\ call[h].at = "refund"
    BY <1>6 DEF RefundEntry, At
  <2>2. CASE Return(h)
    BY <1>0, <2>1, <2>2, ReturnStep
  <2>3. CASE Goto(h, "markRefunded")
    <3> DEFINE c == [call[h] EXCEPT !.at = "markRefunded"]
    <3>1. PICK q : call[h] = [at |-> "refund", todo |-> q]
      BY <1>0, <2>1 DEF CallOK, Idle, Sweeps, JoinCalls, JoinSteps
    <3>2. c = [at |-> "markRefunded", todo |-> q]
      BY <3>1
    <3>3. CallOK(c) /\ c.at \notin Validated
      BY <3>2 DEF CallOK, Sweeps, Validated
    <3>4. call' = [call EXCEPT ![h] = c]
      BY <1>0, <2>3 DEF Goto
    <3> HIDE DEF c
    <3> QED
      BY <1>0, <2>1, <3>3, <3>4, CallStep
  <2> QED
    BY <1>6, <2>2, <2>3 DEF RefundEntry
<1>7. ASSUME NEW h \in Handlers, MarkRefunded(h)
      PROVE  IInv'
  <2> PICK k \in call[h].todo :
        /\ entry' = [entry EXCEPT ![k].status = "REFUNDED"]
        /\ call' = [call EXCEPT ![h] = [at |-> "refund", todo |-> @.todo \ {k}]]
    BY <1>7 DEF MarkRefunded
  <2> DEFINE c == [at |-> "refund", todo |-> call[h].todo \ {k}]
  <2>1. /\ entry' = [entry EXCEPT ![k].status = "REFUNDED"]
        /\ contest' = contest /\ call[h].at = "markRefunded"
        /\ call' = [call EXCEPT ![h] = c]
    BY <1>0, <1>7 DEF MarkRefunded, At
  <2>2. CallOK(c) /\ c.at \notin Validated
    BY DEF CallOK, Sweeps, Validated
  <2> HIDE DEF c
  <2>3. entry \in Seq(EntryShapes)
    BY DEF IInv, Shape
  <2>4. /\ entry' \in Seq(EntryShapes) /\ Len(entry') = Len(entry)
        /\ DOMAIN entry' = DOMAIN entry
        /\ \A e \in DOMAIN entry : /\ entry'[e].user = entry[e].user
                                   /\ entry'[e].status = "ACTIVE" => entry[e].status = "ACTIVE"
    <3>1. DOMAIN entry = 1..Len(entry) /\ Len(entry) \in Nat
          /\ \A e \in DOMAIN entry : entry[e] \in EntryShapes
      BY <2>3
    <3>2. DOMAIN entry' = DOMAIN entry
      BY <2>1
    <3>3. ASSUME NEW e \in DOMAIN entry
          PROVE  /\ entry'[e] \in EntryShapes
                 /\ entry'[e].user = entry[e].user
                 /\ entry'[e].status = "ACTIVE" => entry[e].status = "ACTIVE"
      <4>1. entry[e] \in EntryShapes
        BY <3>1
      <4>2. CASE e = k
        <5>1. entry'[e] = [entry[e] EXCEPT !.status = "REFUNDED"]
          BY <2>1, <4>2
        <5> QED
          BY <4>1, <5>1 DEF EntryShapes, EntryStatuses
      <4>3. CASE e # k
        BY <2>1, <4>1, <4>3
      <4> QED
        BY <4>2, <4>3
    <3>4. entry' = [e \in 1..Len(entry) |-> entry'[e]]
      BY <2>1, <3>1
    <3>5. entry' \in Seq(EntryShapes) /\ Len(entry') = Len(entry)
      <4>1. \A e \in 1..Len(entry) : entry'[e] \in EntryShapes
        BY <3>1, <3>3
      <4>2. entry' \in [1..Len(entry) -> EntryShapes]
        BY <3>4, <4>1
      <4> QED
        BY <3>1, <4>2
    <3> QED
      BY <3>2, <3>3, <3>5
  <2>5. \A g \in Handlers : call'[g] = IF g = h THEN c ELSE call[g]
    BY <1>0, <2>1
  <2>6. Shape'
    <3>1. call' = [g \in Handlers |-> call'[g]]
      BY <1>0, <2>1
    <3>2. \A g \in Handlers : CallOK(call'[g])
      BY <1>0, <2>2, <2>5
    <3> QED
      BY <1>0, <2>1, <2>4, <3>1, <3>2 DEF IInv, Shape
  <2>7. \A u \in Users : ActiveOf(u)' \subseteq ActiveOf(u)
    BY <2>4 DEF ActiveOf
  <2>8. \A u \in Users : PendingOf(u)' \subseteq PendingOf(u)
    BY <2>2, <2>5 DEF PendingOf
  <2>9. WithinLimit'
    BY <1>0, <2>6, <2>7, <2>8, SumFalls DEF IInv
  <2> QED
    BY <2>1, <2>4, <2>6, <2>9 DEF IInv, SpotsMatchEntries
<1>8. ASSUME NEW h \in Handlers, SweepEnds(h) \/ LifecycleFault(h)
      PROVE  IInv'
  BY <1>0, <1>8, ReturnStep DEF SweepEnds, LifecycleFault
<1> QED
  BY <1>1, <1>2, <1>3, <1>4, <1>5, <1>6, <1>7, <1>8
  DEF LifecycleNext, LifecycleStep

-----------------------------------------------------------------------------
(* The steps of joins.  The validation admits a call of a user who is      *)
(* under the limit; the other calls that it does not see are at most the   *)
(* other handlers.                                                         *)
LEMMA ValidatePreserves ==
  ASSUME IInv, NEW h \in Handlers, Validate(h)
  PROVE  IInv'
<1> DEFINE c == [call[h] EXCEPT !.at = "claim"]
           w == Owner[call[h].team]
<1>0. /\ contest \in Contests /\ limit' = limit /\ limit \in Nat
      /\ contest' = contest /\ entry' = entry
      /\ call = [g \in Handlers |-> call[g]]
      /\ \A g \in Handlers : CallOK(call[g])
  BY DEF IInv, Shape, Validate, joinVars
<1>1. call[h] \in JoinCalls
  BY <1>0, JoinCaller DEF Validate, At, JoinSteps
<1>2. c \in JoinCalls /\ c.team = call[h].team
  BY <1>1 DEF JoinCalls, JoinSteps
<1>3. call' = [call EXCEPT ![h] = c]
  BY <1>0 DEF Validate, Goto
<1> HIDE DEF c
<1>4. Shape'
  <2>1. call' = [g \in Handlers |-> call'[g]]
    BY <1>0, <1>3
  <2>2. \A g \in Handlers : CallOK(call'[g])
    BY <1>0, <1>2, <1>3 DEF CallOK
  <2> QED
    BY <1>0, <2>1, <2>2 DEF IInv, Shape
<1>5. SpotsMatchEntries'
  BY <1>0 DEF IInv, SpotsMatchEntries
<1>6. ASSUME NEW u \in Users
      PROVE  Cardinality(ActiveOf(u)') + Cardinality(PendingOf(u)')
               <= limit' + Cardinality(Handlers) - 1
  <2>1. ActiveOf(u)' = ActiveOf(u)
    BY <1>0 DEF ActiveOf
  <2>2. /\ Cardinality(ActiveOf(u)) \in Nat /\ Cardinality(PendingOf(u)') \in Nat
        /\ Cardinality(Handlers) \in Nat /\ IsFiniteSet(PendingOf(u))
        /\ Cardinality(PendingOf(u)) \in Nat
        /\ Cardinality(PendingOf(u)') <= Cardinality(Handlers)
    <3>1. Shape
      BY DEF IInv
    <3>2. /\ Cardinality(ActiveOf(u)) \in Nat /\ Cardinality(Handlers) \in Nat
          /\ IsFiniteSet(PendingOf(u)) /\ Cardinality(PendingOf(u)) \in Nat
      BY <3>1, FiniteSides
    <3>3. PendingOf(u)' \subseteq Handlers
      BY DEF PendingOf
    <3>4. IsFiniteSet(Handlers)
      BY JoinAssumption
    <3>5. /\ IsFiniteSet(PendingOf(u)')
          /\ Cardinality(PendingOf(u)') <= Cardinality(Handlers)
      BY <3>3, <3>4, FS_Subset
    <3> QED
      BY <3>2, <3>5, FS_CardinalityType
  <2>3. CASE u = w
    <3>1. Cardinality(ActiveOf(u)) < limit
      BY <2>3 DEF Validate, UserOf
    <3> QED
      BY <1>0, <2>1, <2>2, <3>1
  <2>4. CASE u # w
    <3>1. PendingOf(u)' = PendingOf(u)
      BY <1>0, <1>2, <1>3, <2>4 DEF PendingOf
    <3>2. Cardinality(ActiveOf(u)) + Cardinality(PendingOf(u))
            <= limit + Cardinality(Handlers) - 1
      BY DEF IInv, WithinLimit
    <3> QED
      BY <1>0, <2>1, <3>1, <3>2
  <2> QED
    BY <2>3, <2>4
<1> QED
  BY <1>4, <1>5, <1>6 DEF IInv, WithinLimit

(* The insertion turns a validated call into an active entry.              *)
LEMMA InsertPreserves ==
  ASSUME IInv, NEW h \in Handlers, InsertEntry(h)
  PROVE  IInv'
<1> DEFINE c == [call[h] EXCEPT !.at = "done"]
           w == Owner[call[h].team]
           row == [user |-> w, team |-> call[h].team, key |-> call[h].key,
                   txn |-> call[h].txn, status |-> "ACTIVE"]
           new == Len(entry) + 1
<1>0. /\ contest \in Contests /\ limit' = limit /\ limit \in Nat
      /\ entry \in Seq(EntryShapes)
      /\ call = [g \in Handlers |-> call[g]]
      /\ \A g \in Handlers : CallOK(call[g])
  BY DEF IInv, Shape, InsertEntry, joinVars
<1>1. call[h].at = "insert" /\ call[h] \in JoinCalls
  BY <1>0, JoinCaller DEF InsertEntry, At, JoinSteps
<1>2. c \in JoinCalls /\ c.at = "done"
  BY <1>1 DEF JoinCalls, JoinSteps
<1>3. call' = [call EXCEPT ![h] = c]
  BY <1>0 DEF InsertEntry, Goto
<1>4. row \in EntryShapes
  <2>1. /\ call[h].team \in Teams /\ call[h].key \in Keys \cup {NoKey}
        /\ call[h].txn \in LockKeys \cup {NoTransaction}
    BY <1>1 DEF JoinCalls
  <2>2. w \in Users
    BY <2>1, JoinAssumption
  <2> QED
    BY <2>1, <2>2 DEF EntryShapes, EntryStatuses
<1>5. entry' = Append(entry, row)
  BY DEF InsertEntry, UserOf
<1> HIDE DEF c, row
<1>6. /\ entry' \in Seq(EntryShapes) /\ Len(entry') = new /\ Len(entry) \in Nat
      /\ DOMAIN entry' = DOMAIN entry \cup {new} /\ new \notin DOMAIN entry
      /\ \A e \in DOMAIN entry : entry'[e] = entry[e]
      /\ entry'[new] = row
  BY <1>0, <1>4, <1>5
<1>7. contest' \in Contests /\ contest'.filled = contest.filled + 1
  <2>1. contest' = [contest EXCEPT
          !.writer = Nobody,
          !.filled = @ + 1,
          !.status = IF @ = "OPEN" /\ contest.filled + 1 >= contest.total
                     THEN "FULL" ELSE @]
    BY DEF InsertEntry
  <2>2. /\ contest = [status |-> contest.status, filled |-> contest.filled,
                      total |-> contest.total, cancelled |-> contest.cancelled,
                      writer |-> contest.writer]
        /\ contest.status \in Statuses /\ contest.filled \in Nat
        /\ contest.total \in 2..MaxSpots /\ contest.cancelled \in BOOLEAN
    BY <1>0 DEF Contests
  <2>3. PICK s \in Statuses :
          contest' = [status |-> s, filled |-> contest.filled + 1,
                      total |-> contest.total, cancelled |-> contest.cancelled,
                      writer |-> Nobody]
    BY <2>1, <2>2 DEF Statuses
  <2> QED
    BY <2>2, <2>3 DEF Contests
<1>8. Shape'
  <2>1. call' = [g \in Handlers |-> call'[g]]
    BY <1>0, <1>3
  <2>2. \A g \in Handlers : CallOK(call'[g])
    BY <1>0, <1>2, <1>3 DEF CallOK
  <2> QED
    BY <1>0, <1>6, <1>7, <2>1, <2>2 DEF IInv, Shape
<1>9. SpotsMatchEntries'
  BY <1>6, <1>7 DEF IInv, SpotsMatchEntries
<1>10. ASSUME NEW u \in Users
       PROVE  Cardinality(ActiveOf(u)') + Cardinality(PendingOf(u)')
                <= limit' + Cardinality(Handlers) - 1
  <2>1. /\ IsFiniteSet(ActiveOf(u)) /\ Cardinality(ActiveOf(u)) \in Nat
        /\ IsFiniteSet(PendingOf(u)) /\ Cardinality(PendingOf(u)) \in Nat
        /\ Cardinality(Handlers) \in Nat
    BY FiniteSides DEF IInv
  <2>2. Cardinality(ActiveOf(u)) + Cardinality(PendingOf(u))
          <= limit + Cardinality(Handlers) - 1
    BY DEF IInv, WithinLimit
  <2>3. CASE u = w
    <3>1. ActiveOf(u)' = ActiveOf(u) \cup {new} /\ new \notin ActiveOf(u)
      <4>1. row.user = u /\ row.status = "ACTIVE"
        BY <2>3 DEF row
      <4> QED
        BY <1>6, <4>1 DEF ActiveOf
    <3>2. Cardinality(ActiveOf(u)') = Cardinality(ActiveOf(u)) + 1
      BY <2>1, <3>1, FS_AddElement
    <3>3. PendingOf(u)' = PendingOf(u) \ {h} /\ h \in PendingOf(u)
      BY <1>0, <1>1, <1>2, <1>3, <2>3 DEF PendingOf, Validated
    <3>4. Cardinality(PendingOf(u)') = Cardinality(PendingOf(u)) - 1
      BY <2>1, <3>3, FS_RemoveElement
    <3> QED
      BY <1>0, <2>1, <2>2, <3>2, <3>4
  <2>4. CASE u # w
    <3>1. ActiveOf(u)' = ActiveOf(u)
      <4>1. row.user # u
        BY <2>4 DEF row
      <4> QED
        BY <1>6, <4>1 DEF ActiveOf
    <3>2. PendingOf(u)' = PendingOf(u)
      BY <1>0, <1>1, <1>2, <1>3, <2>4 DEF PendingOf, Validated
    <3> QED
      BY <1>0, <2>2, <3>1, <3>2
  <2> QED
    BY <2>3, <2>4
<1> QED
  BY <1>8, <1>9, <1>10 DEF IInv, WithinLimit

LEMMA JoinPreserves ==
  ASSUME IInv, NEW h \in Handlers, NEW t \in Teams, NEW k \in Keys \cup {NoKey},
         \/ Join(h, t, k) \/ JoinStep(h) \/ Abort(h)
         \/ RetryTransaction(h) \/ Crash(h)
  PROVE  IInv'
<1>0. /\ contest \in Contests
      /\ call = [g \in Handlers |-> call[g]]
      /\ \A g \in Handlers : CallOK(call[g])
  BY DEF IInv, Shape
<1>1. CASE Join(h, t, k)
  <2> DEFINE c == [at |-> "preflight", team |-> t, key |-> k, txn |-> NoTransaction]
  <2>1. /\ call' = [call EXCEPT ![h] = c]
        /\ contest' = contest /\ entry' = entry /\ limit' = limit
    BY <1>1 DEF Join, Start
  <2>2. c \in JoinCalls /\ c.at \notin Validated
    BY DEF JoinCalls, JoinSteps, Validated
  <2>3. CallOK(c)
    BY <2>2 DEF CallOK
  <2> HIDE DEF c
  <2> QED
    BY <1>0, <2>1, <2>2, <2>3, CallStep
<1>2. CASE Preflight(h)
  BY <1>0, <1>2, GotoStep DEF Preflight, At, JoinSteps, Validated, joinVars
<1>3. CASE Validate(h)
  BY <1>3, ValidatePreserves
<1>4. CASE Refuse(h) \/ SideEffects(h) \/ HandleJoinRollback(h)
  BY <1>0, <1>4, ReturnStep DEF Refuse, SideEffects, HandleJoinRollback, joinVars
<1>5. CASE ClaimSpot(h)
  <2>1. /\ contest' = [contest EXCEPT !.writer = h] /\ Goto(h, "lock")
        /\ call[h].at = "claim" /\ entry' = entry /\ limit' = limit
    BY <1>5 DEF ClaimSpot, At, joinVars
  <2>2. contest' \in Contests /\ contest'.filled = contest.filled
    BY <1>0, <2>1 DEF Contests
  <2> QED
    BY <2>1, <2>2, GotoStep DEF JoinSteps, Validated
<1>6. CASE ContestFull(h)
  BY <1>0, <1>6, GotoStep DEF ContestFull, At, JoinSteps, Validated, joinVars
<1>7. CASE LockFee(h)
  <2> DEFINE key == IF call[h].key = NoKey THEN implicit + 1 ELSE call[h].key
             c == [call[h] EXCEPT !.at = "insert", !.txn = key]
  <2>1. /\ call[h].at = "lock" /\ key \in LockKeys
        /\ contest' = contest /\ entry' = entry /\ limit' = limit
    BY <1>7 DEF LockFee, At
  <2>2. call' = [call EXCEPT ![h].at = "insert", ![h].txn = key]
    BY <1>7 DEF LockFee
  <2> HIDE DEF key
  <2>3. call[h] \in JoinCalls
    BY <1>0, <2>1, JoinCaller DEF JoinSteps
  <2>4. c \in JoinCalls /\ c.at = "insert" /\ c.team = call[h].team
    BY <2>1, <2>3 DEF JoinCalls, JoinSteps
  <2>5. CallOK(c)
    BY <2>4 DEF CallOK
  <2>6. call' = [call EXCEPT ![h] = c]
    BY <1>0, <2>2
  <2> HIDE DEF c
  <2> QED
    BY <1>0, <2>1, <2>4, <2>5, <2>6, CallStep DEF Validated
<1>8. CASE Insufficient(h) \/ InsertRefused(h)
  <2>1. /\ contest' = [contest EXCEPT !.writer = Nobody] /\ Goto(h, "rollback")
        /\ call[h].at \in JoinSteps /\ entry' = entry /\ limit' = limit
    BY <1>8 DEF Insufficient, InsertRefused, At, JoinSteps, joinVars
  <2>2. contest' \in Contests /\ contest'.filled = contest.filled
    BY <1>0, <2>1 DEF Contests
  <2> QED
    BY <2>1, <2>2, GotoStep DEF JoinSteps, Validated
<1>9. CASE InsertEntry(h)
  BY <1>9, InsertPreserves
<1>10. CASE Abort(h) \/ RetryTransaction(h) \/ Crash(h)
  <2>1. contest' = Released(h) /\ entry' = entry /\ limit' = limit
    BY <1>10 DEF Abort, RetryTransaction, Crash, joinVars
  <2>2. contest' \in Contests /\ contest'.filled = contest.filled
    BY <1>0, <2>1 DEF Contests, Released
  <2>3. CASE Return(h)
    BY <2>1, <2>2, <2>3, ReturnStep
  <2>4. CASE Abort(h)
    BY <2>1, <2>2, <2>4, GotoStep
    DEF Abort, JoinFault, InTransaction, JoinSteps, Validated
  <2>5. CASE RetryTransaction(h)
    BY <2>1, <2>2, <2>5, GotoStep
    DEF RetryTransaction, JoinFault, InTransaction, JoinSteps, Validated
  <2> QED
    BY <1>10, <2>3, <2>4, <2>5 DEF Crash
<1> QED
  BY <1>1, <1>2, <1>3, <1>4, <1>5, <1>6, <1>7, <1>8, <1>9, <1>10 DEF JoinStep

LEMMA Preserves ==
  ASSUME IInv, [Next]_vars
  PROVE  IInv'
<1>1. CASE LifecycleNext /\ UNCHANGED joinVars
  BY <1>1, LifecyclePreserves
<1>2. CASE \E h \in Handlers, t \in Teams, k \in Keys \cup {NoKey} : Join(h, t, k)
  BY <1>2, JoinPreserves
<1>3. CASE \E h \in Handlers : JoinStep(h) \/ Abort(h) \/ RetryTransaction(h) \/ Crash(h)
  <2>1. PICK h \in Handlers : JoinStep(h) \/ Abort(h) \/ RetryTransaction(h) \/ Crash(h)
    BY <1>3
  <2>2. call[h] \in JoinCalls
    <3>1. call[h].at \in JoinSteps
      BY <2>1 DEF JoinStep, Preflight, Validate, Refuse, ClaimSpot, ContestFull, LockFee,
         Insufficient, InsertRefused, InsertEntry, SideEffects, HandleJoinRollback,
         Abort, RetryTransaction, Crash, JoinFault, At, JoinSteps
    <3> QED
      BY <3>1, JoinCaller DEF IInv, Shape
  <2> QED
    BY <2>1, <2>2, JoinPreserves DEF JoinCalls
<1>4. CASE UNCHANGED vars
  BY <1>4 DEF vars, IInv, Shape, SpotsMatchEntries, WithinLimit, ActiveOf, PendingOf
<1> QED
  BY <1>1, <1>2, <1>3, <1>4 DEF Next

-----------------------------------------------------------------------------
(* The spots taken are the entries inserted (SpotsMatchEntries), whatever  *)
(* number of joins, aborts, retries and crashes interleave with whatever   *)
(* administrators do.                                                      *)
THEOREM SpotsAlwaysMatchEntries == Spec => []SpotsMatchEntries
<1>1. Init => IInv
  BY InitEstablishes
<1>2. IInv /\ [Next]_vars => IInv'
  BY Preserves
<1>3. IInv => SpotsMatchEntries
  BY DEF IInv
<1> QED
  BY <1>1, <1>2, <1>3, PTL DEF Spec

(* The check of maxEntriesPerUser before the transaction is exceeded by    *)
(* no more than the other calls under way (LimitExceededOncePerCall).      *)
THEOREM LimitHoldsUpToCallsUnderWay == Spec => []LimitExceededOncePerCall
<1>1. Init => IInv
  BY InitEstablishes
<1>2. IInv /\ [Next]_vars => IInv'
  BY Preserves
<1>3. IInv => LimitExceededOncePerCall
  <2> SUFFICES ASSUME IInv, NEW u \in Users
               PROVE  Cardinality(ActiveOf(u)) <= limit + Cardinality(Handlers) - 1
    BY DEF LimitExceededOncePerCall
  <2>1. /\ Cardinality(ActiveOf(u)) \in Nat /\ Cardinality(PendingOf(u)) \in Nat
        /\ Cardinality(Handlers) \in Nat
    BY FiniteSides DEF IInv
  <2>2. limit \in Nat
    BY DEF IInv, Shape
  <2> QED
    BY <2>1, <2>2 DEF IInv, WithinLimit
<1> QED
  BY <1>1, <1>2, <1>3, PTL DEF Spec

-----------------------------------------------------------------------------
(* The keys.  A fee is locked under a key, and what becomes of it is told  *)
(* by that key: a call bears it, then an entry or a rollback.              *)

Bears(h, k) ==
  /\ call[h].at \in JoinSteps \ {"done"}
  /\ call[h].key = k \/ call[h].txn = k
Entered(k) == \E e \in DOMAIN entry : entry[e].txn = k
Posted(kind, k) == \E u \in Users : <<kind, k>> \in wallet[u].posted

(* The key was sent or made up, and not sent again.                        *)
Made(k) == IF k \in Keys THEN sent[k] >= 1 ELSE k <= implicit
Single(k) == k \in Keys => sent[k] <= 1

(* A key that was not repeated has one bearer, and then one outcome.       *)
OneOutcome(k) ==
  /\ \A g, h \in Handlers : Bears(g, k) /\ Bears(h, k) => g = h
  /\ (\E h \in Handlers : Bears(h, k)) => ~Entered(k) /\ ~Posted("rollback", k)
  /\ Entered(k) => ~Posted("rollback", k)
  /\ faults = 0 /\ Posted("lock", k) =>
       \A h \in Handlers : Bears(h, k) =>
         call[h].at \in {"insert", "rollback"} /\ call[h].txn = k

KeyOK(k) ==
  /\ (\E h \in Handlers : Bears(h, k)) \/ Entered(k)
     \/ Posted("lock", k) \/ Posted("rollback", k) => Made(k)
  /\ Single(k) => OneOutcome(k)

(* Whose key a transaction is, and that it was posted.                     *)
OwnKey(key, txn) == IF key = NoKey THEN txn \in Nat ELSE txn = key
CallKeys(h) ==
  call[h].at \in JoinSteps =>
    /\ call[h].txn # NoTransaction => OwnKey(call[h].key, call[h].txn)
    /\ call[h].at = "insert" =>
         call[h].txn # NoTransaction /\ <<"lock", call[h].txn>> \in wallet[UserOf(h)].posted
    /\ faults = 0 /\ call[h].txn # NoTransaction => call[h].at \in {"insert", "rollback", "done"}
EntryKeys(e) ==
  /\ entry[e].txn # NoTransaction /\ OwnKey(entry[e].key, entry[e].txn)
  /\ <<"lock", entry[e].txn>> \in wallet[entry[e].user].posted

(* A join in its transaction holds the contest document; nobody writes it  *)
(* meanwhile, and nobody joins a cancelled contest.                        *)
WriterOK ==
  /\ \A h \in Handlers : call[h].at \in InTransaction => contest.writer = h
  /\ contest.writer # Nobody => contest.status \in Joinable
  /\ contest.cancelled => contest.status = "CANCELLED"

Wallets == [spendable : Int, locked : Nat, posted : SUBSET Postings]
Typed ==
  /\ wallet \in [Users -> Wallets]
  /\ sent \in [Keys -> Nat] /\ implicit \in Nat /\ faults \in Nat
  /\ \A e \in DOMAIN entry : entry[e].status \in {"ACTIVE", "REFUNDED"}

TodoOK ==
  \A h \in Handlers : call[h].at \in {"refund", "markRefunded"} => call[h].todo \subseteq DOMAIN entry

KeyInv ==
  /\ Typed /\ WriterOK /\ TodoOK
  /\ \A h \in Handlers : CallKeys(h)
  /\ \A e \in DOMAIN entry : EntryKeys(e)
  /\ \A k \in LockKeys : KeyOK(k)

-----------------------------------------------------------------------------
(* The escrow, while nothing fails and no key is repeated: it holds a fee  *)
(* for every active entry that is not refunded yet, and for every call     *)
(* that has locked its fee and neither inserted an entry nor rolled back.  *)

Undisturbed == faults = 0 /\ SentOnce

OwedEntries(u) == {e \in ActiveOf(u) : <<"refund", e>> \notin wallet[u].posted}
Owing(h) == call[h].at \in {"insert", "rollback"} /\ call[h].txn # NoTransaction
OwedCalls(u) == {h \in Handlers : Owing(h) /\ UserOf(h) = u}
Escrow(u) == wallet[u].locked = Cardinality(OwedEntries(u)) + Cardinality(OwedCalls(u))

Sweeping(h) == call[h].at \in Sweeps
Refunding(h, e) == call[h].at = "markRefunded" /\ IsNext(e, call[h].todo)

(* The one sweep of a cancelled contest has every active entry before it.  *)
SweepOK ==
  /\ \A h \in Handlers : Sweeping(h) => contest.cancelled
  /\ \A g, h \in Handlers : Sweeping(g) /\ Sweeping(h) => g = h
  /\ \A h \in Handlers : call[h].at \in {"refund", "markRefunded"} =>
       call[h].todo \subseteq Active
  /\ \A u \in Users : \A e \in Nat : <<"refund", e>> \in wallet[u].posted => e \in DOMAIN entry
  /\ \A e \in Active : <<"refund", e>> \in wallet[entry[e].user].posted <=>
       \E h \in Handlers : Refunding(h, e)
  /\ contest.cancelled => \A e \in Active : \E h \in Handlers :
       call[h].at = "sweep" \/ (call[h].at \in {"refund", "markRefunded"} /\ e \in call[h].todo)

EscrowInv == Undisturbed => SweepOK /\ \A u \in Users : Escrow(u)

LEMMA JoinFacts ==
  ASSUME IInv, NEW h \in Handlers, call[h].at \in JoinSteps
  PROVE  /\ call[h] \in JoinCalls /\ call[h].team \in Teams /\ UserOf(h) \in Users
         /\ call[h].key \in Keys \cup {NoKey} /\ call[h].txn \in LockKeys \cup {NoTransaction}
<1>1. call[h] \in JoinCalls
  BY JoinCaller DEF IInv, Shape
<1> QED
  BY <1>1, JoinAssumption DEF JoinCalls, UserOf

LEMMA KeysApart ==
  /\ NoKey \notin LockKeys /\ NoTransaction \notin LockKeys
  /\ \A k \in LockKeys : k \notin Keys => k \in Nat
  /\ \A k \in Keys : k \notin Nat
  /\ NoTransaction \notin Keys /\ NoKey \notin Nat
BY JoinAssumption DEF LockKeys, NoTransaction

(* How calls move on without touching a key: they keep what they have, or  *)
(* are no joins any more.                                                  *)
MovesOn(g) ==
  \/ call'[g] = call[g]
  \/ call'[g].at \notin JoinSteps
  \/ /\ call[g].at \in JoinSteps \ {"done"} /\ call'[g].at \in JoinSteps \ {"done"}
     /\ call'[g].key = call[g].key /\ call'[g].txn = call[g].txn /\ call'[g].team = call[g].team
     /\ call'[g].at = "insert" => call[g].at = "insert"
     /\ faults' = 0 /\ call[g].at \in {"insert", "rollback"} =>
          call'[g].at \in {"insert", "rollback"}

SamePostings ==
  \A u \in Users, k \in LockKeys : \A kind \in {"lock", "rollback"} :
    <<kind, k>> \in wallet'[u].posted <=> <<kind, k>> \in wallet[u].posted
SameEntries ==
  /\ DOMAIN entry' = DOMAIN entry
  /\ \A e \in DOMAIN entry :
       /\ entry'[e].user = entry[e].user /\ entry'[e].key = entry[e].key
       /\ entry'[e].txn = entry[e].txn

(* What becomes of one key, if nothing new does.                           *)
LEMMA KeyStays ==
  ASSUME NEW k, KeyOK(k),
         \A g \in Handlers : Bears(g, k)' => Bears(g, k),
         Entered(k)' => Entered(k),
         Posted("lock", k)' => Posted("lock", k),
         Posted("rollback", k)' => Posted("rollback", k),
         Made(k) => Made(k)', Single(k)' => Single(k),
         faults' = 0 => faults = 0,
         faults' = 0 => \A g \in Handlers :
           Bears(g, k)' /\ call[g].at \in {"insert", "rollback"} /\ call[g].txn = k =>
             call'[g].at \in {"insert", "rollback"} /\ call'[g].txn = k
  PROVE  KeyOK(k)'
<1>1. (\E h \in Handlers : Bears(h, k)') \/ Entered(k)'
        \/ Posted("lock", k)' \/ Posted("rollback", k)' => Made(k)'
  BY DEF KeyOK
<1>2. ASSUME Single(k)' PROVE OneOutcome(k)'
  <2>1. OneOutcome(k)
    BY <1>2 DEF KeyOK
  <2> QED
    BY <2>1 DEF OneOutcome
<1> QED
  BY <1>1, <1>2 DEF KeyOK

LEMMA KeysStay ==
  ASSUME IInv, KeyInv, Typed', WriterOK', TodoOK',
         \A g \in Handlers : MovesOn(g), SamePostings, SameEntries,
         sent' = sent, implicit' = implicit, faults' = 0 => faults = 0
  PROVE  KeyInv'
<1>1. ASSUME NEW g \in Handlers PROVE CallKeys(g)'
  <2>1. CallKeys(g)
    BY DEF KeyInv
  <2> SUFFICES ASSUME call'[g].at \in JoinSteps PROVE CallKeys(g)'
    BY DEF CallKeys
  <2>2. /\ call[g].at \in JoinSteps /\ call'[g].txn = call[g].txn /\ call'[g].key = call[g].key
        /\ call'[g].team = call[g].team
        /\ call'[g].at = "insert" => call[g].at = "insert"
        /\ faults' = 0 /\ call[g].at \in {"insert", "rollback", "done"} =>
             call'[g].at \in {"insert", "rollback", "done"}
    BY DEF MovesOn
  <2>3. UserOf(g)' = UserOf(g) /\ UserOf(g) \in Users /\ call[g].txn \in LockKeys \cup {NoTransaction}
    BY <2>2, JoinFacts DEF UserOf
  <2>4. OwnKey(call[g].key, call[g].txn)' <=> OwnKey(call[g].key, call[g].txn)
    BY <2>2 DEF OwnKey
  <2>5. <<"lock", call[g].txn>> \in wallet[UserOf(g)].posted /\ call[g].txn # NoTransaction
          => <<"lock", call'[g].txn>> \in wallet'[UserOf(g)'].posted
    BY <2>2, <2>3 DEF SamePostings
  <2> QED
    BY <2>1, <2>2, <2>3, <2>4, <2>5 DEF CallKeys
<1>2. ASSUME NEW e \in DOMAIN entry' PROVE EntryKeys(e)'
  <2>1. e \in DOMAIN entry /\ EntryKeys(e) /\ entry[e].user \in Users
        /\ entry[e].txn \in LockKeys \cup {NoTransaction}
    <3>1. e \in DOMAIN entry
      BY DEF SameEntries
    <3>2. entry[e] \in EntryShapes
      BY <3>1 DEF IInv, Shape
    <3> QED
      BY <3>1, <3>2 DEF KeyInv, EntryShapes
  <2>2. entry'[e].user = entry[e].user /\ entry'[e].key = entry[e].key /\ entry'[e].txn = entry[e].txn
    BY <2>1 DEF SameEntries
  <2>3. <<"lock", entry[e].txn>> \in wallet'[entry[e].user].posted
    BY <2>1 DEF EntryKeys, SamePostings
  <2> QED
    BY <2>1, <2>2, <2>3 DEF EntryKeys, OwnKey
<1>3. ASSUME NEW k \in LockKeys PROVE KeyOK(k)'
  <2>1. KeyOK(k)
    BY DEF KeyInv
  <2>2. \A g \in Handlers : Bears(g, k)' => Bears(g, k)
    BY DEF MovesOn, Bears
  <2>3. Entered(k)' => Entered(k)
    BY DEF Entered, SameEntries
  <2>4. (Posted("lock", k)' => Posted("lock", k)) /\ (Posted("rollback", k)' => Posted("rollback", k))
    BY DEF Posted, SamePostings
  <2>5. (Made(k) => Made(k)') /\ (Single(k)' => Single(k))
    BY DEF Made, Single
  <2>6. faults' = 0 => \A g \in Handlers :
           Bears(g, k)' /\ call[g].at \in {"insert", "rollback"} /\ call[g].txn = k =>
             call'[g].at \in {"insert", "rollback"} /\ call'[g].txn = k
    BY DEF MovesOn, Bears
  <2> QED
    BY <2>1, <2>2, <2>3, <2>4, <2>5, <2>6, KeyStays
<1> QED
  BY <1>1, <1>2, <1>3 DEF KeyInv

(* Nobody else holds the document that a transaction holds or gives up.    *)
LEMMA WriterStays ==
  ASSUME WriterOK, contest' = contest,
         \A g \in Handlers : call'[g].at \in InTransaction => call[g].at \in InTransaction
  PROVE  WriterOK'
BY DEF WriterOK

LEMMA WriterLeaves ==
  ASSUME IInv, WriterOK, NEW h \in Handlers, call'[h].at \notin InTransaction,
         \A g \in Handlers : g # h => call'[g] = call[g],
         \/ contest' = Released(h)
         \/ contest' = [contest EXCEPT !.writer = Nobody] /\ call[h].at \in InTransaction
  PROVE  WriterOK'
<1>1. contest \in Contests
  BY DEF IInv, Shape
<1>2. /\ contest'.status = contest.status /\ contest'.cancelled = contest.cancelled
      /\ contest'.writer \in {contest.writer, Nobody}
      /\ contest.writer \in Handlers /\ contest.writer # h => contest'.writer = contest.writer
  BY <1>1 DEF Contests, Released, WriterOK
<1>3. ASSUME NEW g \in Handlers, call'[g].at \in InTransaction PROVE contest'.writer = g
  <2>1. g # h /\ call[g].at \in InTransaction
    BY <1>3
  <2> QED
    BY <1>2, <2>1 DEF WriterOK
<1> QED
  BY <1>2, <1>3 DEF WriterOK

-----------------------------------------------------------------------------
(* Steps that touch no key: all but the start of a join, the lock of its   *)
(* fee, the insertion of its entry and the refund of its rollback.         *)

LEMMA CallAfter ==
  ASSUME IInv, NEW h \in Handlers, NEW c, call' = [call EXCEPT ![h] = c]
  PROVE  call'[h] = c /\ \A g \in Handlers : g # h => call'[g] = call[g]
BY DEF IInv, Shape

LEMMA GotoAfter ==
  ASSUME IInv, NEW h \in Handlers, NEW step, call[h].at \in JoinSteps, Goto(h, step)
  PROVE  /\ call'[h].at = step /\ call'[h].key = call[h].key /\ call'[h].txn = call[h].txn
         /\ call'[h].team = call[h].team
         /\ \A g \in Handlers : g # h => call'[g] = call[g]
<1>1. call = [g \in Handlers |-> call[g]]
  BY DEF IInv, Shape
<1>2. DOMAIN call[h] = {"at", "team", "key", "txn"}
  BY JoinFacts DEF JoinCalls
<1> QED
  BY <1>1, <1>2 DEF Goto

LEMMA ReturnAfter ==
  ASSUME IInv, NEW h \in Handlers, Return(h)
  PROVE  /\ call'[h] = Idle /\ call'[h].at \notin JoinSteps
         /\ \A g \in Handlers : g # h => call'[g] = call[g]
BY DEF IInv, Shape, Return, Idle, JoinSteps

LEMMA JoinsMoveOn ==
  ASSUME IInv, KeyInv, NEW h \in Handlers,
         \/ Preflight(h) \/ Validate(h) \/ Refuse(h) \/ ClaimSpot(h) \/ ContestFull(h)
         \/ Insufficient(h) \/ InsertRefused(h) \/ SideEffects(h)
         \/ Abort(h) \/ RetryTransaction(h) \/ Crash(h)
  PROVE  KeyInv'
<1> USE DEF JoinSteps
<1>1. /\ entry' = entry /\ wallet' = wallet /\ sent' = sent /\ implicit' = implicit
      /\ faults \in Nat /\ faults' \in Nat /\ (faults' = 0 => faults = 0)
      /\ call[h].at \in JoinSteps
  <2>1. faults \in Nat
    BY DEF KeyInv, Typed
  <2> QED
    BY <2>1 DEF Preflight, Validate, Refuse, ClaimSpot, ContestFull, Insufficient, InsertRefused,
       SideEffects, Abort, RetryTransaction, Crash, JoinFault, At, joinVars
<1>2. Typed'
  BY <1>1 DEF KeyInv, Typed
<1>3. \A g \in Handlers : g # h => call'[g] = call[g]
  BY <1>1, GotoAfter, ReturnAfter DEF Preflight, Validate, Refuse, ClaimSpot, ContestFull,
     Insufficient, InsertRefused, SideEffects, Abort, RetryTransaction, Crash
<1>4. IInv'
  BY JoinPreserves, JoinFacts, <1>1 DEF JoinStep
<1>5. MovesOn(h)
  <2>1. CASE Return(h)
    BY <2>1, ReturnAfter DEF MovesOn
  <2>2. CASE Preflight(h) \/ Validate(h) \/ ClaimSpot(h) \/ ContestFull(h) \/ Insufficient(h)
             \/ InsertRefused(h)
    <3>1. \E step \in {"validate", "claim", "lock", "rollback"} :
            /\ Goto(h, step)
            /\ call[h].at \in {"preflight", "validate", "claim", "lock", "insert"}
            /\ call[h].at = "insert" => step = "rollback"
      BY <2>2 DEF Preflight, Validate, ClaimSpot, ContestFull, Insufficient, InsertRefused, At
    <3> QED
      BY <1>1, <3>1, GotoAfter DEF MovesOn
  <2>3. CASE Abort(h) \/ RetryTransaction(h)
    <3>1. /\ \E step \in {"claim", "rollback"} : Goto(h, step)
          /\ call[h].at \in {"claim", "lock", "insert"} /\ faults' # 0
      BY <1>1, <2>3 DEF Abort, RetryTransaction, JoinFault, InTransaction
    <3> QED
      BY <1>1, <3>1, GotoAfter DEF MovesOn
  <2> QED
    BY <2>1, <2>2, <2>3 DEF Refuse, SideEffects, Crash
<1>6. WriterOK'
  <2>0. WriterOK
    BY DEF KeyInv
  <2>1. CASE ClaimSpot(h)
    <3>1. /\ contest' = [contest EXCEPT !.writer = h] /\ contest.writer = Nobody
          /\ contest.status \in Joinable /\ contest \in Contests
      BY <2>1 DEF ClaimSpot, Writable, IInv, Shape
    <3>2. contest'.writer = h /\ contest'.status = contest.status
          /\ contest'.cancelled = contest.cancelled
      BY <3>1 DEF Contests
    <3>3. \A g \in Handlers : call[g].at \notin InTransaction
      BY <2>0, <3>1, LifecycleAssumption DEF WriterOK
    <3> QED
      BY <1>3, <2>0, <3>1, <3>2, <3>3 DEF WriterOK
  <2>2. CASE \/ Preflight(h) \/ Validate(h) \/ Refuse(h) \/ ContestFull(h) \/ SideEffects(h)
    <3>1. contest' = contest /\ call'[h].at \notin InTransaction
      BY <1>1, <2>2, GotoAfter, ReturnAfter DEF Preflight, Validate, Refuse, ContestFull,
         SideEffects, InTransaction
    <3> QED
      BY <1>3, <2>0, <3>1, WriterStays
  <2>3. CASE Insufficient(h) \/ InsertRefused(h)
    <3>1. /\ contest' = [contest EXCEPT !.writer = Nobody] /\ call[h].at \in InTransaction
          /\ call'[h].at \notin InTransaction
      BY <1>1, <2>3, GotoAfter DEF Insufficient, InsertRefused, InTransaction, At
    <3> QED
      BY <1>3, <2>0, <3>1, WriterLeaves
  <2>4. CASE Abort(h) \/ RetryTransaction(h) \/ Crash(h)
    <3>1. contest' = Released(h) /\ call'[h].at \notin InTransaction
      BY <1>1, <2>4, GotoAfter, ReturnAfter DEF Abort, RetryTransaction, Crash, InTransaction
    <3> QED
      BY <1>3, <2>0, <3>1, WriterLeaves
  <2> QED
    BY <2>1, <2>2, <2>3, <2>4
<1>7. SamePostings /\ SameEntries
  BY <1>1 DEF SamePostings, SameEntries
<1>8. TodoOK'
  <2>1. call'[h].at \notin {"refund", "markRefunded"}
    BY <1>1, GotoAfter, ReturnAfter DEF Preflight, Validate, Refuse, ClaimSpot, ContestFull,
       Insufficient, InsertRefused, SideEffects, Abort, RetryTransaction, Crash, Idle
  <2> QED
    BY <1>1, <1>3, <2>1 DEF KeyInv, TodoOK
<1>9. \A g \in Handlers : MovesOn(g)
  BY <1>3, <1>5 DEF MovesOn
<1> QED
  BY <1>1, <1>2, <1>6, <1>7, <1>8, <1>9, KeysStay

(* A refund is posted under a key of its own.                              *)
LEMMA RefundPosts ==
  ASSUME Typed, NEW u \in Users, NEW kind \in {"rollback", "refund"}, NEW k,
         <<kind, k>> \in Postings, CanRefund(u, <<kind, k>>), wallet' = Refunded(u, <<kind, k>>)
  PROVE  /\ wallet' \in [Users -> Wallets]
         /\ \A w \in Users : w # u => wallet'[w] = wallet[w]
         /\ wallet'[u].posted = wallet[u].posted \cup {<<kind, k>>}
         /\ <<kind, k>> \in wallet[u].posted => wallet'[u].locked = wallet[u].locked
         /\ <<kind, k>> \notin wallet[u].posted => wallet'[u].locked = wallet[u].locked - 1
<1> DEFINE key == <<kind, k>>
<1>1. wallet \in [Users -> Wallets] /\ wallet[u] \in Wallets
  BY DEF Typed
<1>2. CASE key \in wallet[u].posted
  <2>1. wallet' = wallet
    BY <1>2 DEF Refunded
  <2> QED
    BY <1>1, <1>2, <2>1
<1>3. CASE key \notin wallet[u].posted
  <2>1. wallet[u].locked > 0
    BY <1>3 DEF CanRefund
  <2>2. PICK w : w = [wallet[u] EXCEPT !.locked = @ - 1, !.spendable = @ + 1,
                                       !.posted = @ \cup {key}]
    OBVIOUS
  <2>3. /\ w.locked = wallet[u].locked - 1 /\ w.spendable = wallet[u].spendable + 1
        /\ w.posted = wallet[u].posted \cup {key}
        /\ w = [spendable |-> w.spendable, locked |-> w.locked, posted |-> w.posted]
    BY <1>1, <2>2 DEF Wallets
  <2>4. wallet' = [wallet EXCEPT ![u] = w]
    BY <1>1, <1>3, <2>2 DEF Refunded
  <2>5. w \in Wallets
    BY <1>1, <2>1, <2>3 DEF Wallets
  <2>6. wallet' \in [Users -> Wallets]
    BY <1>1, <2>4, <2>5
  <2>7. wallet'[u] = w /\ \A v \in Users : v # u => wallet'[v] = wallet[v]
    BY <1>1, <2>4
  <2> QED
    BY <1>3, <2>3, <2>6, <2>7
<1> QED
  BY <1>2, <1>3

(* A step of a call that is no join, and that leaves the contest alone.    *)
LEMMA AsideStays ==
  ASSUME IInv, KeyInv, NEW h \in Handlers, call'[h].at \notin JoinSteps,
         \A g \in Handlers : g # h => call'[g] = call[g],
         sent' = sent, implicit' = implicit,
         faults' \in Nat, faults' = 0 => faults = 0, WriterOK',
         SamePostings, SameEntries, wallet' \in [Users -> Wallets],
         \A e \in DOMAIN entry : entry'[e].status \in {entry[e].status, "REFUNDED"},
         call'[h].at \in {"refund", "markRefunded"} => call'[h].todo \subseteq DOMAIN entry
  PROVE  KeyInv'
<1>0. Typed /\ WriterOK /\ TodoOK
  BY DEF KeyInv
<1>1. Typed'
  BY <1>0 DEF Typed, SameEntries
<1>2. \A g \in Handlers : MovesOn(g)
  BY DEF MovesOn
<1>3. TodoOK'
  <2> SUFFICES ASSUME NEW g \in Handlers, call'[g].at \in {"refund", "markRefunded"}
               PROVE  call'[g].todo \subseteq DOMAIN entry
    BY DEF TodoOK, SameEntries
  <2> QED
    BY <1>0 DEF TodoOK
<1> QED
  BY <1>1, <1>2, <1>3, KeysStay

LEMMA LifecycleMovesOn ==
  ASSUME IInv, IInv', KeyInv, LifecycleNext, UNCHANGED joinVars
  PROVE  KeyInv'
<1>0. /\ sent' = sent /\ implicit' = implicit /\ contest \in Contests
      /\ Typed /\ WriterOK /\ call = [g \in Handlers |-> call[g]]
  BY DEF joinVars, KeyInv, IInv, Shape
<1>1. ASSUME NEW target \in Statuses, TransitionStatus(target) PROVE KeyInv'
  <2>1. /\ UNCHANGED <<entry, wallet, call, faults>> /\ contest.writer = Nobody
        /\ contest' = [contest EXCEPT !.status = target]
        /\ target \in Allowed[contest.status]
    BY <1>1 DEF TransitionStatus, Writable
  <2>2. contest'.writer = Nobody /\ contest'.cancelled = contest.cancelled
        /\ contest'.status = target
    BY <1>0, <2>1 DEF Contests
  <2>3. contest.status # "CANCELLED"
    BY <2>1 DEF Allowed, Statuses
  <2>4. WriterOK'
    BY <1>0, <2>1, <2>2, <2>3 DEF WriterOK
  <2> QED
    BY <1>0, <2>1, <2>4, KeysStay DEF KeyInv, TodoOK, Typed, MovesOn, SamePostings, SameEntries
<1>2. ASSUME contest' = contest, NEW h \in Handlers, call'[h].at \notin JoinSteps,
             \A g \in Handlers : g # h => call'[g] = call[g]
      PROVE  WriterOK'
  BY <1>0, <1>2, WriterStays DEF InTransaction, JoinSteps
<1>3. ASSUME NEW h \in Handlers, NEW n \in 2..MaxSpots, UpdateContest(h, n) PROVE KeyInv'
  <2>1. call'[h] = [at |-> "update", total |-> n] /\ \A g \in Handlers : g # h => call'[g] = call[g]
    BY <1>3, CallAfter DEF UpdateContest, Start
  <2>2. UNCHANGED <<contest, entry, wallet, faults>>
    BY <1>3 DEF UpdateContest
  <2>3. call'[h].at = "update" /\ SamePostings /\ SameEntries
    BY <2>1, <2>2 DEF SamePostings, SameEntries
  <2>8. WriterOK'
    BY <1>2, <2>1, <2>2, <2>3 DEF JoinSteps
  <2>9. /\ faults' \in Nat /\ (faults' = 0 => faults = 0) /\ wallet' \in [Users -> Wallets]
        /\ call'[h].at \notin JoinSteps
        /\ call'[h].at \in {"refund", "markRefunded"} => call'[h].todo \subseteq DOMAIN entry
    BY <1>0, <2>1, <2>2, <2>3 DEF Typed, JoinSteps, Idle
  <2>10. \A d \in DOMAIN entry : entry'[d].status \in {entry[d].status, "REFUNDED"}
    BY <2>2
  <2> QED
    BY <1>0, <2>1, <2>3, <2>8, <2>9, <2>10, AsideStays
<1>4. ASSUME NEW h \in Handlers, CancelContest(h) PROVE KeyInv'
  <2>1. call'[h] = [at |-> "sweep", todo |-> {}] /\ \A g \in Handlers : g # h => call'[g] = call[g]
    BY <1>4, CallAfter DEF CancelContest, Start
  <2>2. /\ UNCHANGED <<entry, wallet, faults>> /\ contest.writer = Nobody
        /\ contest' = [contest EXCEPT !.status = "CANCELLED", !.cancelled = TRUE]
    BY <1>4 DEF CancelContest, Writable
  <2>3. contest'.writer = Nobody /\ contest'.status = "CANCELLED" /\ contest' \in Contests
    BY <1>0, <2>2 DEF Contests, Statuses
  <2>4. call'[h].at = "sweep" /\ SamePostings /\ SameEntries
    BY <2>1, <2>2 DEF SamePostings, SameEntries
  <2>8. WriterOK'
    BY <1>0, <2>1, <2>2, <2>3, <2>4 DEF WriterOK, InTransaction
  <2>9. /\ faults' \in Nat /\ (faults' = 0 => faults = 0) /\ wallet' \in [Users -> Wallets]
        /\ call'[h].at \notin JoinSteps
        /\ call'[h].at \in {"refund", "markRefunded"} => call'[h].todo \subseteq DOMAIN entry
    BY <1>0, <2>1, <2>2, <2>4 DEF Typed, JoinSteps, Idle
  <2>10. \A d \in DOMAIN entry : entry'[d].status \in {entry[d].status, "REFUNDED"}
    BY <2>2
  <2> QED
    BY <1>0, <2>1, <2>4, <2>8, <2>9, <2>10, AsideStays
<1>5. ASSUME NEW h \in Handlers, SaveCapacity(h) PROVE KeyInv'
  <2>1. /\ UNCHANGED <<entry, wallet, faults>> /\ contest.writer = Nobody /\ Return(h)
        /\ contest' = [contest EXCEPT !.total = call[h].total]
    BY <1>5 DEF SaveCapacity, Writable
  <2>2. /\ contest'.writer = Nobody /\ contest'.status = contest.status
        /\ contest'.cancelled = contest.cancelled /\ contest' \in Contests
    BY <1>0, <2>1 DEF Contests, IInv, Shape
  <2>3. SamePostings /\ SameEntries /\ call'[h] = Idle
    BY <2>1, ReturnAfter DEF SamePostings, SameEntries
  <2>8. WriterOK'
    BY <1>0, <2>1, <2>2, <2>3, ReturnAfter DEF WriterOK, InTransaction, Idle
  <2>9. /\ faults' \in Nat /\ (faults' = 0 => faults = 0) /\ wallet' \in [Users -> Wallets]
        /\ call'[h].at \notin JoinSteps
        /\ call'[h].at \in {"refund", "markRefunded"} => call'[h].todo \subseteq DOMAIN entry
    BY <1>0, <2>1, <2>3 DEF Typed, JoinSteps, Idle
  <2>10. \A d \in DOMAIN entry : entry'[d].status \in {entry[d].status, "REFUNDED"}
    BY <2>1
  <2> QED
    BY <1>0, <2>1, <2>3, ReturnAfter, <2>8, <2>9, <2>10, AsideStays
<1>6. ASSUME NEW h \in Handlers, FindActiveForContest(h) PROVE KeyInv'
  <2>1. call'[h] = [at |-> "refund", todo |-> Active] /\ \A g \in Handlers : g # h => call'[g] = call[g]
    BY <1>6, CallAfter DEF FindActiveForContest
  <2>2. UNCHANGED <<contest, entry, wallet, faults>>
    BY <1>6 DEF FindActiveForContest
  <2>3. call'[h].at = "refund" /\ SamePostings /\ SameEntries /\ call'[h].todo \subseteq DOMAIN entry
    BY <2>1, <2>2 DEF SamePostings, SameEntries, Active
  <2>8. WriterOK'
    BY <1>2, <2>1, <2>2, <2>3 DEF JoinSteps
  <2>9. /\ faults' \in Nat /\ (faults' = 0 => faults = 0) /\ wallet' \in [Users -> Wallets]
        /\ call'[h].at \notin JoinSteps
        /\ call'[h].at \in {"refund", "markRefunded"} => call'[h].todo \subseteq DOMAIN entry
    BY <1>0, <2>1, <2>2, <2>3 DEF Typed, JoinSteps, Idle
  <2>10. \A d \in DOMAIN entry : entry'[d].status \in {entry[d].status, "REFUNDED"}
    BY <2>2
  <2> QED
    BY <1>0, <2>1, <2>3, <2>8, <2>9, <2>10, AsideStays
<1>7. ASSUME NEW h \in Handlers, RefundEntry(h) PROVE KeyInv'
  <2>1. UNCHANGED <<contest, entry, faults>> /\ call[h].at = "refund"
    BY <1>7 DEF RefundEntry, At
  <2>2. /\ call'[h].at \notin JoinSteps /\ \A g \in Handlers : g # h => call'[g] = call[g]
        /\ call'[h].at \in {"refund", "markRefunded"} => call'[h].todo = call[h].todo
    <3>1. CASE Return(h)
      BY <3>1, ReturnAfter DEF Idle
    <3>2. CASE Goto(h, "markRefunded")
      <4>1. call' = [call EXCEPT ![h] = [call[h] EXCEPT !.at = "markRefunded"]]
        BY <1>0, <3>2 DEF Goto
      <4>2. call'[h] = [call[h] EXCEPT !.at = "markRefunded"]
        BY <4>1, CallAfter
      <4>3. \E q : call[h] = [at |-> "refund", todo |-> q]
        BY <2>1 DEF IInv, Shape, CallOK, Idle, Sweeps, JoinCalls, JoinSteps
      <4> QED
        BY <4>1, <4>2, <4>3, CallAfter DEF JoinSteps
    <3> QED
      BY <1>7, <3>1, <3>2 DEF RefundEntry
  <2>3. SamePostings /\ wallet' \in [Users -> Wallets]
    <3>1. CASE UNCHANGED wallet
      BY <1>0, <3>1 DEF SamePostings, Typed
    <3>2. CASE ~UNCHANGED wallet
      <4>1. PICK e \in call[h].todo : /\ CanRefund(entry[e].user, <<"refund", e>>)
                                      /\ wallet' = Refunded(entry[e].user, <<"refund", e>>)
        BY <1>7, <3>2 DEF RefundEntry
      <4>2. entry[e].user \in Users /\ e \in Nat
        <5>1. e \in DOMAIN entry
          BY <2>1, <4>1 DEF KeyInv, TodoOK
        <5>2. entry[e] \in EntryShapes /\ e \in Nat
          BY <5>1 DEF IInv, Shape
        <5> QED
          BY <5>2 DEF EntryShapes
      <4>3. <<"refund", e>> \in Postings
        BY <4>2 DEF Postings
      <4> QED
        BY <1>0, <4>1, <4>2, <4>3, RefundPosts DEF SamePostings
    <3> QED
      BY <3>1, <3>2
  <2>4. call[h].todo \subseteq DOMAIN entry
    BY <2>1 DEF KeyInv, TodoOK
  <2>5. SameEntries /\ contest' = contest /\ faults' = faults
    BY <2>1 DEF SameEntries
  <2>6. \A d \in DOMAIN entry : entry'[d].status \in {entry[d].status, "REFUNDED"}
    BY <2>1
  <2>8. WriterOK'
    BY <1>2, <2>2, <2>5
  <2>9. /\ faults' \in Nat /\ (faults' = 0 => faults = 0) /\ wallet' \in [Users -> Wallets]
        /\ call'[h].at \notin JoinSteps
        /\ call'[h].at \in {"refund", "markRefunded"} => call'[h].todo \subseteq DOMAIN entry
    BY <1>0, <2>2, <2>3, <2>4, <2>5 DEF Typed, JoinSteps, Idle
  <2>10. \A d \in DOMAIN entry : entry'[d].status \in {entry[d].status, "REFUNDED"}
    BY <2>6
  <2> QED
    BY <1>0, <2>2, <2>3, <2>5, <2>8, <2>9, <2>10, AsideStays
<1>8. ASSUME NEW h \in Handlers, MarkRefunded(h) PROVE KeyInv'
  <2>1. PICK e \in call[h].todo :
          /\ entry' = [entry EXCEPT ![e].status = "REFUNDED"]
          /\ call' = [call EXCEPT ![h] = [at |-> "refund", todo |-> @.todo \ {e}]]
    BY <1>8 DEF MarkRefunded
  <2>2. UNCHANGED <<contest, wallet, faults>>
    BY <1>8 DEF MarkRefunded
  <2>3. call' = [call EXCEPT ![h] = [at |-> "refund", todo |-> call[h].todo \ {e}]]
    BY <1>0, <2>1
  <2>4. /\ call'[h].at \notin JoinSteps /\ \A g \in Handlers : g # h => call'[g] = call[g]
        /\ call'[h].todo \subseteq DOMAIN entry
    <3>1. call'[h] = [at |-> "refund", todo |-> call[h].todo \ {e}]
          /\ \A g \in Handlers : g # h => call'[g] = call[g]
      BY <2>3, CallAfter
    <3>2. call[h].todo \subseteq DOMAIN entry
      BY <1>8 DEF MarkRefunded, At, KeyInv, TodoOK
    <3>3. call'[h].at = "refund" /\ call'[h].todo = call[h].todo \ {e}
      BY <3>1
    <3> QED
      BY <3>1, <3>2, <3>3 DEF JoinSteps
  <2>5. SameEntries /\ \A d \in DOMAIN entry : entry'[d].status \in {entry[d].status, "REFUNDED"}
    <3>1. \A d \in DOMAIN entry : entry[d] \in EntryShapes
      BY DEF IInv, Shape
    <3> QED
      BY <2>1, <3>1 DEF SameEntries, EntryShapes
  <2>6. SamePostings /\ contest' = contest /\ faults' = faults /\ wallet' = wallet
    BY <2>2 DEF SamePostings
  <2>8. WriterOK'
    BY <1>2, <2>4, <2>6
  <2>9. /\ faults' \in Nat /\ (faults' = 0 => faults = 0) /\ wallet' \in [Users -> Wallets]
        /\ call'[h].at \notin JoinSteps
        /\ call'[h].at \in {"refund", "markRefunded"} => call'[h].todo \subseteq DOMAIN entry
    BY <1>0, <2>4, <2>6 DEF Typed, JoinSteps, Idle
  <2>10. \A d \in DOMAIN entry : entry'[d].status \in {entry[d].status, "REFUNDED"}
    BY <2>5
  <2> QED
    BY <1>0, <2>4, <2>5, <2>6, <2>8, <2>9, <2>10, AsideStays
<1>9. ASSUME NEW h \in Handlers, SweepEnds(h) \/ LifecycleFault(h) PROVE KeyInv'
  <2>1. /\ UNCHANGED <<contest, entry, wallet>> /\ Return(h)
        /\ faults' \in Nat /\ (faults' = 0 => faults = 0)
    BY <1>0, <1>9 DEF SweepEnds, LifecycleFault, Typed
  <2>2. SamePostings /\ SameEntries /\ call'[h] = Idle
    BY <2>1, ReturnAfter DEF SamePostings, SameEntries
  <2>8. WriterOK'
    BY <1>2, <2>1, <2>2, ReturnAfter DEF Idle, JoinSteps
  <2>9. /\ faults' \in Nat /\ (faults' = 0 => faults = 0) /\ wallet' \in [Users -> Wallets]
        /\ call'[h].at \notin JoinSteps
        /\ call'[h].at \in {"refund", "markRefunded"} => call'[h].todo \subseteq DOMAIN entry
    BY <1>0, <2>1, <2>2 DEF Typed, JoinSteps, Idle
  <2>10. \A d \in DOMAIN entry : entry'[d].status \in {entry[d].status, "REFUNDED"}
    BY <2>1
  <2> QED
    BY <1>0, <2>1, <2>2, ReturnAfter, <2>8, <2>9, <2>10, AsideStays
<1> QED
  BY <1>1, <1>3, <1>4, <1>5, <1>6, <1>7, <1>8, <1>9 DEF LifecycleNext, LifecycleStep

-----------------------------------------------------------------------------
(* Steps that touch a key.                                                 *)

PostingsGrow == \A u \in Users : wallet[u].posted \subseteq wallet'[u].posted

LEMMA OtherCallKeys ==
  ASSUME IInv, KeyInv, PostingsGrow, faults' = 0 => faults = 0,
         NEW g \in Handlers, call'[g] = call[g]
  PROVE  CallKeys(g)'
<1> SUFFICES ASSUME call[g].at \in JoinSteps PROVE CallKeys(g)'
  BY DEF CallKeys
<1>1. CallKeys(g) /\ UserOf(g) \in Users /\ UserOf(g)' = UserOf(g)
  BY JoinFacts DEF KeyInv, UserOf
<1> QED
  BY <1>1 DEF CallKeys, PostingsGrow, OwnKey

LEMMA OldEntryKeys ==
  ASSUME IInv, KeyInv, PostingsGrow, NEW e \in DOMAIN entry, entry'[e] = entry[e]
  PROVE  EntryKeys(e)'
<1>1. EntryKeys(e) /\ entry[e] \in EntryShapes
  BY DEF KeyInv, IInv, Shape
<1> QED
  BY <1>1 DEF EntryKeys, EntryShapes, PostingsGrow, OwnKey

(* What a step leaves of the keys that are not its own.                    *)
LEMMA OtherKeys ==
  ASSUME KeyInv, NEW h \in Handlers, NEW k \in LockKeys, ~Bears(h, k)',
         \A g \in Handlers : g # h => call'[g] = call[g],
         Entered(k)' => Entered(k),
         Posted("lock", k)' => Posted("lock", k),
         Posted("rollback", k)' => Posted("rollback", k),
         Made(k) => Made(k)', Single(k)' => Single(k), faults' = faults
  PROVE  KeyOK(k)'
<1>1. KeyOK(k)
  BY DEF KeyInv
<1>2. \A g \in Handlers : Bears(g, k)' => g # h
  OBVIOUS
<1>3. \A g \in Handlers : g # h => (Bears(g, k)' => Bears(g, k))
  BY DEF Bears
<1>4. \A g \in Handlers : Bears(g, k)' => Bears(g, k)
  BY <1>2, <1>3
<1>5. \A g \in Handlers : Bears(g, k)' /\ call[g].at \in {"insert", "rollback"} /\ call[g].txn = k =>
        call'[g].at \in {"insert", "rollback"} /\ call'[g].txn = k
  BY <1>2
<1> QED
  BY <1>1, <1>4, <1>5, KeyStays

(* A key that is sent for the first time was nowhere before.               *)
LEMMA JoinKeepsKeys ==
  ASSUME IInv, KeyInv, NEW h \in Handlers, NEW t \in Teams, NEW k \in Keys \cup {NoKey}, Join(h, t, k)
  PROVE  KeyInv'
<1> DEFINE c == [at |-> "preflight", team |-> t, key |-> k, txn |-> NoTransaction]
<1>1. /\ contest' = contest /\ entry' = entry /\ wallet' = wallet /\ faults' = faults
      /\ implicit' = implicit
  BY DEF Join
<1>2. /\ call'[h] = c /\ \A g \in Handlers : g # h => call'[g] = call[g]
      /\ call[h] = Idle
  BY CallAfter DEF Join, Start
<1>3. /\ call'[h].at = "preflight" /\ call'[h].key = k /\ call'[h].txn = NoTransaction
      /\ call[h].at = "idle"
  BY <1>2 DEF Idle
<1>4. /\ sent \in [Keys -> Nat] /\ sent' \in [Keys -> Nat]
      /\ \A key \in Keys : sent'[key] = IF key = k THEN sent[key] + 1 ELSE sent[key]
  BY DEF Join, KeyInv, Typed
<1>5. Typed' /\ WriterOK' /\ TodoOK'
  <2>1. \A g \in Handlers : call'[g].at \in InTransaction => call[g].at \in InTransaction
    BY <1>2, <1>3 DEF InTransaction
  <2>2. WriterOK'
    BY <1>1, <2>1, WriterStays DEF KeyInv
  <2>3. TodoOK'
    <3> SUFFICES ASSUME NEW g \in Handlers, call'[g].at \in {"refund", "markRefunded"}
                 PROVE  call'[g].todo \subseteq DOMAIN entry
      BY <1>1 DEF TodoOK
    <3>1. call'[g] = call[g]
      BY <1>2, <1>3
    <3> QED
      BY <3>1 DEF KeyInv, TodoOK
  <2> QED
    BY <1>1, <1>4, <2>2, <2>3 DEF KeyInv, Typed
<1>6. PostingsGrow
  BY <1>1 DEF PostingsGrow
<1>7. \A g \in Handlers : CallKeys(g)'
  <2>1. CallKeys(h)'
    BY <1>3 DEF CallKeys
  <2> QED
    BY <1>1, <1>2, <1>6, <2>1, OtherCallKeys
<1>8. \A e \in DOMAIN entry' : EntryKeys(e)'
  BY <1>1, <1>6, OldEntryKeys
<1>9. ASSUME NEW key \in LockKeys PROVE KeyOK(key)'
  <2>1. KeyOK(key)
    BY DEF KeyInv
  <2>2. (Entered(key)' <=> Entered(key)) /\ \A kind : Posted(kind, key)' <=> Posted(kind, key)
    BY <1>1 DEF Entered, Posted
  <2>3. CASE key # k
    <3>1. ~Bears(h, key)'
      BY <1>3, <2>3, KeysApart DEF Bears
    <3>2. (Made(key) => Made(key)') /\ (Single(key)' => Single(key))
      BY <1>1, <1>4, <2>3 DEF Made, Single
    <3> QED
      BY <1>1, <1>2, <2>2, <3>1, <3>2, OtherKeys
  <2>4. CASE key = k
    <3>1. key \in Keys /\ sent'[key] = sent[key] + 1 /\ sent[key] \in Nat
      BY <1>4, <2>4, KeysApart
    <3>2. Made(key)'
      BY <3>1 DEF Made
    <3>3. ASSUME Single(key)' PROVE OneOutcome(key)'
      <4>1. ~Made(key)
        BY <3>1, <3>3 DEF Made, Single
      <4>2. /\ \A g \in Handlers : ~Bears(g, key)
            /\ ~Entered(key) /\ ~Posted("lock", key) /\ ~Posted("rollback", key)
        BY <2>1, <4>1 DEF KeyOK
      <4>3. \A g \in Handlers : Bears(g, key)' => g = h
        BY <1>2, <4>2 DEF Bears
      <4> QED
        BY <2>2, <4>2, <4>3 DEF OneOutcome
    <3> QED
      BY <3>2, <3>3 DEF KeyOK
  <2> QED
    BY <2>3, <2>4
<1> QED
  BY <1>5, <1>7, <1>8, <1>9 DEF KeyInv

(* What the lock of a fee makes of its call.                               *)
LEMMA LockCall ==
  ASSUME IInv, KeyInv, NEW h \in Handlers, LockFee(h),
         NEW k, k = IF call[h].key = NoKey THEN implicit + 1 ELSE call[h].key
  PROVE  /\ k \in LockKeys /\ call[h].at = "lock"
         /\ call'[h].at = "insert" /\ call'[h].key = call[h].key /\ call'[h].txn = k
         /\ call'[h].team = call[h].team
         /\ \A g \in Handlers : g # h => call'[g] = call[g]
<1>1. /\ k \in LockKeys /\ call[h].at = "lock"
      /\ call' = [call EXCEPT ![h].at = "insert", ![h].txn = k]
  BY DEF LockFee, At
<1>2. UserOf(h) \in Users /\ call[h] \in JoinCalls
  BY <1>1, JoinFacts DEF JoinSteps
<1>3. call = [g \in Handlers |-> call[g]]
  BY DEF IInv, Shape
<1>4. call' = [call EXCEPT ![h] = [call[h] EXCEPT !.at = "insert", !.txn = k]]
  BY <1>1, <1>3
<1>5. /\ call'[h] = [call[h] EXCEPT !.at = "insert", !.txn = k]
      /\ \A g \in Handlers : g # h => call'[g] = call[g]
  BY <1>4, CallAfter
<1>6. call'[h].at = "insert" /\ call'[h].key = call[h].key /\ call'[h].txn = k
      /\ call'[h].team = call[h].team
  BY <1>2, <1>5 DEF JoinCalls
<1> QED
  BY <1>1, <1>5, <1>6

(* What it writes to the wallet of its user.                               *)
LEMMA LockPosts ==
  ASSUME IInv, KeyInv, NEW h \in Handlers, LockFee(h),
         NEW k, k = IF call[h].key = NoKey THEN implicit + 1 ELSE call[h].key
  PROVE  /\ wallet' \in [Users -> Wallets]
         /\ \A w \in Users : w # UserOf(h) => wallet'[w] = wallet[w]
         /\ wallet'[UserOf(h)].posted = wallet[UserOf(h)].posted \cup {<<"lock", k>>}
         /\ <<"lock", k>> \notin wallet[UserOf(h)].posted =>
              wallet'[UserOf(h)].locked = wallet[UserOf(h)].locked + 1
         /\ <<"lock", k>> \in wallet[UserOf(h)].posted => wallet' = wallet
<1>1. wallet' = IF <<"lock", k>> \in wallet[UserOf(h)].posted THEN wallet
                ELSE [wallet EXCEPT ![UserOf(h)].spendable = @ - 1, ![UserOf(h)].locked = @ + 1,
                                    ![UserOf(h)].posted = @ \cup {<<"lock", k>>}]
  BY DEF LockFee
<1>2. k \in LockKeys /\ UserOf(h) \in Users
  BY LockCall, JoinFacts DEF JoinSteps
<1>3. wallet \in [Users -> Wallets] /\ wallet[UserOf(h)] \in Wallets
  BY <1>2 DEF KeyInv, Typed
<1>4. CASE <<"lock", k>> \in wallet[UserOf(h)].posted
  <2>1. wallet' = wallet
    BY <1>1, <1>4
  <2> QED
    BY <1>3, <1>4, <2>1
<1>5. CASE <<"lock", k>> \notin wallet[UserOf(h)].posted
  <2> DEFINE u == UserOf(h)
  <2>1. PICK w : w = [wallet[u] EXCEPT !.spendable = @ - 1, !.locked = @ + 1,
                                       !.posted = @ \cup {<<"lock", k>>}]
    OBVIOUS
  <2>2. /\ w.locked = wallet[u].locked + 1 /\ w.spendable = wallet[u].spendable - 1
        /\ w.posted = wallet[u].posted \cup {<<"lock", k>>}
        /\ w = [spendable |-> w.spendable, locked |-> w.locked, posted |-> w.posted]
    BY <1>3, <2>1 DEF Wallets
  <2>3. wallet' = [wallet EXCEPT ![u] = w]
    BY <1>1, <1>3, <1>5, <2>1
  <2>4. w \in Wallets
    BY <1>2, <1>3, <2>2 DEF Wallets, Postings
  <2>5. wallet' \in [Users -> Wallets]
    BY <1>3, <2>3, <2>4
  <2>6. wallet'[u] = w /\ \A v \in Users : v # u => wallet'[v] = wallet[v]
    BY <1>2, <1>3, <2>3
  <2> QED
    BY <1>5, <2>2, <2>5, <2>6
<1> QED
  BY <1>4, <1>5

(* A key the service makes up is new; a key that was sent once is borne by *)
(* this call alone.                                                        *)
LEMMA LockKeepsKeys ==
  ASSUME IInv, KeyInv, NEW h \in Handlers, LockFee(h)
  PROVE  KeyInv'
<1> DEFINE u == UserOf(h)
<1>1. PICK k : k = IF call[h].key = NoKey THEN implicit + 1 ELSE call[h].key
  OBVIOUS
<1>2. /\ k \in LockKeys /\ call[h].at = "lock" /\ u \in Users
      /\ call[h].key \in Keys \cup {NoKey}
      /\ call'[h].at = "insert" /\ call'[h].key = call[h].key /\ call'[h].txn = k
      /\ UserOf(h)' = u
      /\ \A g \in Handlers : g # h => call'[g] = call[g]
  <2>1. call[h].at = "lock"
    BY DEF LockFee, At
  <2>2. u \in Users /\ call[h].key \in Keys \cup {NoKey}
    BY <2>1, JoinFacts DEF JoinSteps
  <2>3. /\ k \in LockKeys
        /\ call'[h].at = "insert" /\ call'[h].key = call[h].key /\ call'[h].txn = k
        /\ call'[h].team = call[h].team
        /\ \A g \in Handlers : g # h => call'[g] = call[g]
    BY <1>1, LockCall
  <2>4. UserOf(h)' = u
    BY <2>3 DEF UserOf
  <2> QED
    BY <2>1, <2>2, <2>3, <2>4
<1>3. /\ wallet' \in [Users -> Wallets]
      /\ \A w \in Users : w # u => wallet'[w] = wallet[w]
      /\ wallet'[u].posted = wallet[u].posted \cup {<<"lock", k>>}
  BY <1>1, LockPosts
<1>4. /\ contest' = contest /\ entry' = entry /\ faults' = faults /\ sent' = sent
      /\ implicit' = IF call[h].key = NoKey THEN k ELSE implicit
  BY <1>1 DEF LockFee
<1>5. /\ implicit \in Nat /\ implicit' \in Nat /\ sent \in [Keys -> Nat]
      /\ call[h].key = NoKey => k = implicit + 1 /\ k \notin Keys /\ implicit' = k
      /\ call[h].key # NoKey => k \in Keys /\ k = call[h].key /\ implicit' = implicit
  BY <1>1, <1>2, <1>4, KeysApart DEF KeyInv, Typed
<1> HIDE DEF u
<1>6. Typed' /\ WriterOK' /\ TodoOK'
  <2>1. \A g \in Handlers : call'[g].at \in InTransaction => call[g].at \in InTransaction
    BY <1>2 DEF InTransaction
  <2>2. WriterOK'
    BY <1>4, <2>1, WriterStays DEF KeyInv
  <2>3. TodoOK'
    BY <1>2, <1>4 DEF KeyInv, TodoOK
  <2> QED
    BY <1>3, <1>4, <1>5, <2>2, <2>3 DEF KeyInv, Typed
<1>7. PostingsGrow
  BY <1>2, <1>3 DEF PostingsGrow
<1>8. \A g \in Handlers : CallKeys(g)'
  <2>1. <<"lock", k>> \in wallet'[u].posted
    BY <1>3
  <2>2. k # NoTransaction /\ OwnKey(call[h].key, k)
    BY <1>2, <1>5, KeysApart DEF OwnKey
  <2>3. CallKeys(h)'
    BY <1>2, <2>1, <2>2 DEF CallKeys, OwnKey
  <2> QED
    BY <1>2, <1>4, <1>7, <2>3, OtherCallKeys
<1>9. \A e \in DOMAIN entry' : EntryKeys(e)'
  BY <1>4, <1>7, OldEntryKeys
<1>10. ASSUME NEW key \in LockKeys PROVE KeyOK(key)'
  <2>1. KeyOK(key)
    BY DEF KeyInv
  <2>2. /\ Entered(key)' <=> Entered(key)
        /\ Posted("rollback", key)' <=> Posted("rollback", key)
        /\ key # k => (Posted("lock", key)' <=> Posted("lock", key))
    <3>1. \A w \in Users :
            /\ <<"rollback", key>> \in wallet'[w].posted <=> <<"rollback", key>> \in wallet[w].posted
            /\ key # k => (<<"lock", key>> \in wallet'[w].posted <=> <<"lock", key>> \in wallet[w].posted)
      BY <1>2, <1>3
    <3> QED
      BY <1>4, <3>1 DEF Entered, Posted
  <2>3. CASE key # k
    <3>1. ~Bears(h, key)'
      BY <1>2, <1>5, <2>3, KeysApart DEF Bears
    <3>2. (Made(key) => Made(key)') /\ (Single(key)' => Single(key))
      BY <1>4, <1>5, KeysApart DEF Made, Single
    <3> QED
      BY <1>2, <1>4, <2>2, <2>3, <3>1, <3>2, OtherKeys
  <2>4. CASE key = k
    <3>1. Made(key)'
      <4>1. CASE call[h].key = NoKey
        BY <1>4, <1>5, <2>4, <4>1 DEF Made
      <4>2. CASE call[h].key # NoKey
        <5>1. Bears(h, key)
          BY <1>2, <1>5, <2>4, <4>2 DEF Bears, JoinSteps
        <5> QED
          BY <1>4, <1>5, <2>1, <2>4, <4>2, <5>1 DEF KeyOK, Made
      <4> QED
        BY <4>1, <4>2
    <3>2. ASSUME Single(key)' PROVE OneOutcome(key)'
      <4>1. /\ \A g \in Handlers : g # h => ~Bears(g, key)
            /\ ~Entered(key) /\ ~Posted("rollback", key)
        <5>1. CASE call[h].key = NoKey
          <6>1. ~Made(key)
            BY <1>5, <2>4, <5>1 DEF Made
          <6> QED
            BY <2>1, <6>1 DEF KeyOK
        <5>2. CASE call[h].key # NoKey
          <6>1. Bears(h, key)
            BY <1>2, <1>5, <2>4, <5>2 DEF Bears, JoinSteps
          <6>2. OneOutcome(key)
            BY <1>4, <2>1, <3>2 DEF KeyOK, Single
          <6> QED
            BY <6>1, <6>2 DEF OneOutcome
        <5> QED
          BY <5>1, <5>2
      <4>2. \A g \in Handlers : Bears(g, key)' => g = h
        BY <1>2, <4>1 DEF Bears
      <4> QED
        BY <1>2, <2>2, <2>4, <4>1, <4>2 DEF OneOutcome
    <3> QED
      BY <3>1, <3>2 DEF KeyOK
  <2> QED
    BY <2>3, <2>4
<1> QED
  BY <1>6, <1>8, <1>9, <1>10 DEF KeyInv

(* An entry takes the key over from its call.                              *)
LEMMA InsertKeepsKeys ==
  ASSUME IInv, KeyInv, NEW h \in Handlers, InsertEntry(h)
  PROVE  KeyInv'
<1> DEFINE u == UserOf(h)
           k == call[h].txn
           new == Len(entry) + 1
<1>1. /\ call[h].at = "insert" /\ wallet' = wallet /\ faults' = faults
      /\ sent' = sent /\ implicit' = implicit /\ Goto(h, "done")
  BY DEF InsertEntry, At, joinVars
<1>2. u \in Users /\ call[h] \in JoinCalls /\ k \in LockKeys \cup {NoTransaction}
  BY <1>1, JoinFacts DEF JoinSteps
<1>3. /\ call'[h].at = "done" /\ call'[h].key = call[h].key /\ call'[h].txn = k
      /\ call'[h].team = call[h].team /\ UserOf(h)' = u
      /\ \A g \in Handlers : g # h => call'[g] = call[g]
  BY <1>1, GotoAfter DEF JoinSteps, UserOf
<1>4. k # NoTransaction /\ OwnKey(call[h].key, k) /\ <<"lock", k>> \in wallet[u].posted
  BY <1>1 DEF KeyInv, CallKeys, JoinSteps
<1>5. k \in LockKeys
  BY <1>2, <1>4
<1>6. /\ Len(entry) \in Nat /\ DOMAIN entry' = DOMAIN entry \cup {new}
      /\ \A e \in DOMAIN entry : e # new /\ entry'[e] = entry[e]
      /\ entry'[new].user = u /\ entry'[new].key = call[h].key /\ entry'[new].txn = k
      /\ entry'[new].status = "ACTIVE"
  <2> DEFINE row == [user |-> u, team |-> call[h].team, key |-> call[h].key,
                     txn |-> k, status |-> "ACTIVE"]
  <2>1. entry \in Seq(EntryShapes) /\ entry' = Append(entry, row)
    BY DEF IInv, Shape, InsertEntry
  <2>2. /\ row.user = u /\ row.key = call[h].key /\ row.txn = k /\ row.status = "ACTIVE"
    OBVIOUS
  <2> HIDE DEF row
  <2>3. /\ Len(entry) \in Nat /\ DOMAIN entry = 1..Len(entry)
        /\ DOMAIN entry' = 1..new /\ entry'[new] = row
        /\ \A e \in 1..Len(entry) : entry'[e] = entry[e]
    <3>1. DOMAIN entry' = 1..Len(entry')
      BY <2>1
    <3> QED
      BY <2>1, <3>1
  <2> QED
    BY <2>2, <2>3
<1> HIDE DEF u, new, k
<1>7. WriterOK'
  <2>0. contest \in Contests /\ WriterOK
    BY DEF IInv, Shape, KeyInv
  <2>1. contest.writer = h
    BY <1>1, <2>0 DEF WriterOK, InTransaction
  <2>2. \A g \in Handlers : call'[g].at \notin InTransaction
    BY <1>3, <2>0, <2>1 DEF WriterOK, InTransaction
  <2>3. /\ contest'.writer = Nobody /\ contest'.cancelled = contest.cancelled
        /\ contest.status = "CANCELLED" => contest'.status = "CANCELLED"
    BY <2>0 DEF InsertEntry, Contests
  <2> QED
    BY <2>0, <2>2, <2>3 DEF WriterOK
<1>8. Typed' /\ TodoOK'
  BY <1>1, <1>3, <1>6 DEF KeyInv, Typed, TodoOK
<1>9. PostingsGrow
  BY <1>1 DEF PostingsGrow
<1>10. \A g \in Handlers : CallKeys(g)'
  <2>1. CallKeys(h)'
    BY <1>3, <1>4 DEF CallKeys, OwnKey
  <2> QED
    BY <1>1, <1>3, <1>9, <2>1, OtherCallKeys
<1>11. \A e \in DOMAIN entry' : EntryKeys(e)'
  <2> SUFFICES ASSUME NEW e \in DOMAIN entry' PROVE EntryKeys(e)'
    OBVIOUS
  <2>1. CASE e \in DOMAIN entry
    BY <1>6, <1>9, <2>1, OldEntryKeys
  <2>2. CASE e = new
    <3>1. entry'[e].user = u /\ entry'[e].key = call[h].key /\ entry'[e].txn = k
      BY <1>6, <2>2
    <3> QED
      BY <1>1, <1>4, <3>1 DEF EntryKeys, OwnKey
  <2> QED
    BY <1>6, <2>1, <2>2
<1>12. ASSUME NEW key \in LockKeys PROVE KeyOK(key)'
  <2>1. KeyOK(key)
    BY DEF KeyInv
  <2>2. /\ (\A kind : Posted(kind, key)' <=> Posted(kind, key))
        /\ (Made(key)' <=> Made(key)) /\ (Single(key)' <=> Single(key))
        /\ ~Bears(h, key)'
    BY <1>1, <1>3 DEF Posted, Made, Single, Bears
  <2>3. CASE key # k
    <3>1. Entered(key)' => Entered(key)
      BY <1>6, <2>3 DEF Entered
    <3> QED
      BY <1>1, <1>3, <2>2, <3>1, OtherKeys
  <2>4. CASE key = k
    <3>1. Bears(h, key)
      BY <1>1, <2>4 DEF Bears, JoinSteps, k
    <3>2. Made(key)'
      BY <2>1, <2>2, <3>1 DEF KeyOK
    <3>3. ASSUME Single(key)' PROVE OneOutcome(key)'
      <4>1. OneOutcome(key)
        BY <2>1, <2>2, <3>3 DEF KeyOK
      <4>2. ~Posted("rollback", key)' /\ \A g \in Handlers : g # h => ~Bears(g, key)
        BY <2>2, <3>1, <4>1 DEF OneOutcome
      <4>3. \A g \in Handlers : ~Bears(g, key)'
        BY <1>3, <2>2, <4>2 DEF Bears
      <4> QED
        BY <4>2, <4>3 DEF OneOutcome
    <3> QED
      BY <3>2, <3>3 DEF KeyOK
  <2> QED
    BY <2>3, <2>4
<1> QED
  BY <1>7, <1>8, <1>10, <1>11, <1>12 DEF KeyInv

(* A rollback takes the key over from its call.                            *)
LEMMA RollbackKeepsKeys ==
  ASSUME IInv, KeyInv, NEW h \in Handlers, HandleJoinRollback(h)
  PROVE  KeyInv'
<1> DEFINE u == UserOf(h)
           k == call[h].txn
<1>1. /\ call[h].at = "rollback" /\ contest' = contest /\ entry' = entry /\ faults' = faults
      /\ sent' = sent /\ implicit' = implicit /\ Return(h)
  BY DEF HandleJoinRollback, At, joinVars
<1>2. u \in Users /\ k \in LockKeys \cup {NoTransaction}
  BY <1>1, JoinFacts DEF JoinSteps
<1>3. call'[h].at = "idle" /\ \A g \in Handlers : g # h => call'[g] = call[g]
  BY <1>1, ReturnAfter DEF Idle
<1>4. Typed /\ WriterOK /\ TodoOK
  BY DEF KeyInv
<1>5. WriterOK' /\ TodoOK'
  <2>1. \A g \in Handlers : call'[g].at \in InTransaction => call[g].at \in InTransaction
    BY <1>3 DEF InTransaction
  <2> QED
    BY <1>1, <1>3, <1>4, <2>1, WriterStays DEF TodoOK
<1>6. CASE wallet' = wallet
  <2>1. SamePostings /\ SameEntries
    BY <1>1, <1>6 DEF SamePostings, SameEntries
  <2>2. /\ call'[h].at \notin JoinSteps /\ faults' \in Nat /\ wallet' \in [Users -> Wallets]
        /\ \A e \in DOMAIN entry : entry'[e].status \in {entry[e].status, "REFUNDED"}
    BY <1>1, <1>3, <1>4, <1>6 DEF JoinSteps, Typed
  <2> QED
    BY <1>1, <1>3, <1>5, <2>1, <2>2, AsideStays
<1>7. CASE wallet' # wallet
  <2>1. /\ k \in LockKeys /\ CanRefund(u, <<"rollback", k>>)
        /\ wallet' = Refunded(u, <<"rollback", k>>)
    BY <1>2, <1>7 DEF HandleJoinRollback
  <2>2. <<"rollback", k>> \in Postings
    BY <2>1 DEF Postings
  <2>3. /\ wallet' \in [Users -> Wallets]
        /\ \A w \in Users : w # u => wallet'[w] = wallet[w]
        /\ wallet'[u].posted = wallet[u].posted \cup {<<"rollback", k>>}
    BY <1>2, <1>4, <2>1, <2>2, RefundPosts
  <2> HIDE DEF u, k
  <2>4. Typed'
    BY <1>1, <1>4, <2>3 DEF Typed
  <2>5. PostingsGrow
    BY <1>2, <2>3 DEF PostingsGrow
  <2>6. \A g \in Handlers : CallKeys(g)'
    <3>1. CallKeys(h)'
      BY <1>3 DEF CallKeys, JoinSteps
    <3> QED
      BY <1>1, <1>3, <2>5, <3>1, OtherCallKeys
  <2>7. \A e \in DOMAIN entry' : EntryKeys(e)'
    BY <1>1, <2>5, OldEntryKeys
  <2>8. ASSUME NEW key \in LockKeys PROVE KeyOK(key)'
    <3>1. KeyOK(key)
      BY DEF KeyInv
    <3>2. /\ (Entered(key)' <=> Entered(key))
          /\ (Posted("lock", key)' <=> Posted("lock", key))
          /\ key # k => (Posted("rollback", key)' <=> Posted("rollback", key))
      <4>1. \A w \in Users :
              /\ <<"lock", key>> \in wallet'[w].posted <=> <<"lock", key>> \in wallet[w].posted
              /\ key # k => (<<"rollback", key>> \in wallet'[w].posted
                               <=> <<"rollback", key>> \in wallet[w].posted)
        BY <1>2, <2>3
      <4> QED
        BY <1>1, <4>1 DEF Entered, Posted
    <3>3. /\ (Made(key)' <=> Made(key)) /\ (Single(key)' <=> Single(key))
          /\ ~Bears(h, key)'
      BY <1>1, <1>3 DEF Made, Single, Bears, JoinSteps
    <3>4. CASE key # k
      BY <1>1, <1>3, <3>2, <3>3, <3>4, OtherKeys
    <3>5. CASE key = k
      <4>1. Bears(h, key)
        BY <1>1, <3>5 DEF Bears, JoinSteps, k
      <4>2. Made(key)'
        BY <3>1, <3>3, <4>1 DEF KeyOK
      <4>3. ASSUME Single(key)' PROVE OneOutcome(key)'
        <5>1. OneOutcome(key)
          BY <3>1, <3>3, <4>3 DEF KeyOK
        <5>2. ~Entered(key)' /\ \A g \in Handlers : g # h => ~Bears(g, key)
          BY <3>2, <4>1, <5>1 DEF OneOutcome
        <5>3. \A g \in Handlers : ~Bears(g, key)'
          BY <1>3, <3>3, <5>2 DEF Bears
        <5> QED
          BY <5>2, <5>3 DEF OneOutcome
      <4> QED
        BY <4>2, <4>3 DEF KeyOK
    <3> QED
      BY <3>4, <3>5
  <2> QED
    BY <1>5, <2>4, <2>6, <2>7, <2>8 DEF KeyInv
<1> QED
  BY <1>6, <1>7

LEMMA KeysStartFresh == Init => KeyInv
<1> SUFFICES ASSUME Init PROVE KeyInv
  OBVIOUS
<1>1. /\ entry = <<>> /\ DOMAIN entry = {} /\ faults = 0 /\ implicit = 0
      /\ \A h \in Handlers : call[h].at = "idle"
      /\ sent = [k \in Keys |-> 0]
      /\ wallet = [u \in Users |-> [spendable |-> Funds, locked |-> 0, posted |-> {}]]
  BY DEF Init, Idle
<1>2. contest.writer = Nobody /\ contest.cancelled = FALSE
  BY DEF Init, CreatedContest, SeededContest, ClonedContest, NewContest
<1>3. Typed
  BY <1>1, JoinAssumption DEF Typed, Wallets
<1>4. WriterOK
  BY <1>1, <1>2 DEF WriterOK, InTransaction
<1>5. TodoOK /\ \A h \in Handlers : CallKeys(h)
  BY <1>1 DEF TodoOK, CallKeys, JoinSteps
<1>6. ASSUME NEW k PROVE KeyOK(k)
  BY <1>1 DEF KeyOK, OneOutcome, Bears, Entered, Posted, JoinSteps
<1> QED
  BY <1>1, <1>3, <1>4, <1>5, <1>6 DEF KeyInv

LEMMA KeysPreserved ==
  ASSUME IInv, KeyInv, [Next]_vars
  PROVE  IInv' /\ KeyInv'
<1>1. IInv'
  BY Preserves
<1>2. CASE LifecycleNext /\ UNCHANGED joinVars
  BY <1>1, <1>2, LifecycleMovesOn
<1>3. CASE \E h \in Handlers, t \in Teams, k \in Keys \cup {NoKey} : Join(h, t, k)
  BY <1>1, <1>3, JoinKeepsKeys
<1>4. CASE \E h \in Handlers : JoinStep(h) \/ Abort(h) \/ RetryTransaction(h) \/ Crash(h)
  BY <1>1, <1>4, JoinsMoveOn, LockKeepsKeys, InsertKeepsKeys, RollbackKeepsKeys DEF JoinStep
<1>5. CASE UNCHANGED vars
  <2>1. /\ UNCHANGED <<contest, entry, wallet, call, faults>> /\ sent' = sent /\ implicit' = implicit
    BY <1>5 DEF vars
  <2>2. Typed' /\ WriterOK' /\ TodoOK'
    BY <2>1 DEF KeyInv, Typed, WriterOK, TodoOK
  <2>3. SamePostings /\ SameEntries /\ \A g \in Handlers : MovesOn(g)
    BY <2>1 DEF SamePostings, SameEntries, MovesOn
  <2> QED
    BY <1>1, <2>1, <2>2, <2>3, KeysStay
<1> QED
  BY <1>1, <1>2, <1>3, <1>4, <1>5 DEF Next

(* An entry is paid for: the lock of its fee was posted, and no rollback   *)
(* took it back unless the client sent its key more than once              *)
(* (UnpaidEntryNeedsRepeatedKey), through every abort, retry and crash.    *)
THEOREM EntriesStayPaid == Spec => []UnpaidEntryNeedsRepeatedKey
<1>1. Init => IInv /\ KeyInv
  BY InitEstablishes, KeysStartFresh
<1>2. IInv /\ KeyInv /\ [Next]_vars => IInv' /\ KeyInv'
  BY KeysPreserved
<1>3. IInv /\ KeyInv => UnpaidEntryNeedsRepeatedKey
  <2> SUFFICES ASSUME IInv, KeyInv, NEW e \in DOMAIN entry
               PROVE  /\ <<"lock", entry[e].txn>> \in wallet[entry[e].user].posted
                      /\ Rolled(e) => entry[e].key # NoKey /\ sent[entry[e].key] > 1
    BY DEF UnpaidEntryNeedsRepeatedKey
  <2> DEFINE k == entry[e].txn
  <2>1. EntryKeys(e) /\ entry[e] \in EntryShapes /\ sent \in [Keys -> Nat]
    BY DEF KeyInv, IInv, Shape, Typed
  <2>2. k \in LockKeys /\ entry[e].user \in Users /\ entry[e].key \in Keys \cup {NoKey}
    BY <2>1 DEF EntryKeys, EntryShapes
  <2>3. ASSUME Rolled(e) PROVE entry[e].key # NoKey /\ sent[entry[e].key] > 1
    <3>1. Entered(k) /\ Posted("rollback", k)
      BY <2>2, <2>3 DEF Entered, Posted, Rolled
    <3>2. ~Single(k)
      BY <2>2, <3>1 DEF KeyInv, KeyOK, OneOutcome
    <3>3. k \in Keys /\ sent[k] > 1
      BY <2>1, <3>2 DEF Single
    <3> QED
      BY <2>1, <3>3, KeysApart DEF EntryKeys, OwnKey
  <2> QED
    BY <2>1, <2>3 DEF EntryKeys
<1> QED
  BY <1>1, <1>2, <1>3, PTL DEF Spec

-----------------------------------------------------------------------------
(* The escrow.  First the steps that move no fee and sweep nothing.        *)

LEMMA FiniteOwed ==
  ASSUME IInv, NEW u
  PROVE  /\ IsFiniteSet(OwedEntries(u)) /\ Cardinality(OwedEntries(u)) \in Nat
         /\ IsFiniteSet(OwedCalls(u)) /\ Cardinality(OwedCalls(u)) \in Nat
<1>1. IsFiniteSet(ActiveOf(u)) /\ IsFiniteSet(Handlers)
  BY FiniteSides, JoinAssumption DEF IInv
<1>2. OwedEntries(u) \subseteq ActiveOf(u) /\ OwedCalls(u) \subseteq Handlers
  BY DEF OwedEntries, OwedCalls
<1> QED
  BY <1>1, <1>2, FS_Subset, FS_CardinalityType

(* A call goes on owing, or goes on not owing.                             *)
KeepsOwing(g) ==
  \/ call'[g] = call[g]
  \/ ~Owing(g) /\ ~(call'[g].at \in {"insert", "rollback"} /\ call'[g].txn # NoTransaction)
  \/ /\ Owing(g) /\ call'[g].at \in {"insert", "rollback"} /\ call'[g].txn # NoTransaction
     /\ call'[g].team = call[g].team

LEMMA OwedCallsStay ==
  ASSUME \A g \in Handlers : KeepsOwing(g), NEW u
  PROVE  OwedCalls(u)' = OwedCalls(u)
<1>1. ASSUME NEW g \in Handlers
      PROVE  (Owing(g) /\ UserOf(g) = u)' <=> Owing(g) /\ UserOf(g) = u
  BY DEF KeepsOwing, Owing, UserOf
<1> QED
  BY <1>1 DEF OwedCalls

(* A step of another call leaves the sweep alone.                          *)
LEMMA SweepUnmoved ==
  ASSUME SweepOK, contest'.cancelled = contest.cancelled, entry' = entry, NEW h \in Handlers,
         \A g \in Handlers : g # h => call'[g] = call[g],
         call[h].at \notin Sweeps, call'[h].at \notin Sweeps,
         \A u \in Users : \A e \in Nat :
           <<"refund", e>> \in wallet'[u].posted <=> <<"refund", e>> \in wallet[u].posted,
         \A e \in DOMAIN entry : e \in Nat /\ entry[e].user \in Users
  PROVE  SweepOK'
<1>1. \A g \in Handlers : call'[g].at \in Sweeps \/ call[g].at \in Sweeps =>
        g # h /\ call'[g] = call[g]
  OBVIOUS
<1>2. \A g \in Handlers : Sweeping(g)' <=> Sweeping(g)
  BY <1>1 DEF Sweeping
<1>3. Active' = Active /\ \A e \in Active : e \in Nat /\ entry[e].user \in Users
  BY DEF Active
<1>4. \A g \in Handlers :
        /\ call'[g].at \in {"refund", "markRefunded"} => call'[g].todo \subseteq Active
        /\ call[g].at \in {"sweep", "refund", "markRefunded"} => call'[g] = call[g]
  BY <1>1 DEF SweepOK, Sweeps
<1>5. \A e \in Active : <<"refund", e>> \in wallet'[entry'[e].user].posted <=>
        \E g \in Handlers : Refunding(g, e)'
  <2> SUFFICES ASSUME NEW e \in Active
               PROVE  <<"refund", e>> \in wallet'[entry[e].user].posted <=>
                        \E g \in Handlers : Refunding(g, e)'
    OBVIOUS
  <2>1. \A g \in Handlers : Refunding(g, e)' <=> Refunding(g, e)
    BY <1>1 DEF Refunding, Sweeps, IsNext
  <2>2. <<"refund", e>> \in wallet'[entry[e].user].posted
          <=> <<"refund", e>> \in wallet[entry[e].user].posted
    BY <1>3
  <2> QED
    BY <2>1, <2>2 DEF SweepOK
<1>6. contest'.cancelled => \A e \in Active : \E g \in Handlers :
        call'[g].at = "sweep" \/ (call'[g].at \in {"refund", "markRefunded"} /\ e \in call'[g].todo)
  <2> SUFFICES ASSUME contest.cancelled, NEW e \in Active
               PROVE  \E g \in Handlers : call'[g].at = "sweep" \/
                        (call'[g].at \in {"refund", "markRefunded"} /\ e \in call'[g].todo)
    OBVIOUS
  <2>1. PICK g \in Handlers :
          call[g].at = "sweep" \/ (call[g].at \in {"refund", "markRefunded"} /\ e \in call[g].todo)
    BY DEF SweepOK
  <2>2. call'[g] = call[g]
    BY <1>4, <2>1
  <2> QED
    BY <2>1, <2>2
<1>7. \A u \in Users : \A e \in Nat : <<"refund", e>> \in wallet'[u].posted => e \in DOMAIN entry
  BY DEF SweepOK
<1> QED
  BY <1>2, <1>3, <1>4, <1>5, <1>6, <1>7 DEF SweepOK

LEMMA EntryUsers == ASSUME IInv PROVE \A e \in DOMAIN entry : e \in Nat /\ entry[e].user \in Users
<1>1. \A e \in DOMAIN entry : e \in Nat /\ entry[e] \in EntryShapes
  BY DEF IInv, Shape
<1> QED
  BY <1>1 DEF EntryShapes

LEMMA Unmoved ==
  ASSUME IInv, SweepOK, \A u \in Users : Escrow(u), contest'.cancelled = contest.cancelled,
         entry' = entry, wallet' = wallet, NEW h \in Handlers,
         \A g \in Handlers : g # h => call'[g] = call[g],
         call[h].at \notin Sweeps, call'[h].at \notin Sweeps, KeepsOwing(h)
  PROVE  SweepOK' /\ \A u \in Users : Escrow(u)'
<1>1. SweepOK'
  BY EntryUsers, SweepUnmoved
<1>2. \A g \in Handlers : KeepsOwing(g)
  BY DEF KeepsOwing
<1>3. ASSUME NEW u \in Users PROVE Escrow(u)'
  <2>1. OwedCalls(u)' = OwedCalls(u)
    BY <1>2, OwedCallsStay
  <2>2. OwedEntries(u)' = OwedEntries(u)
    BY DEF OwedEntries, ActiveOf
  <2> QED
    BY <2>1, <2>2 DEF Escrow
<1> QED
  BY <1>1, <1>3

(* What holds while nothing failed and no key was repeated.                *)
LEMMA Fresh ==
  ASSUME SentOnce, KeyInv, NEW k \in LockKeys
  PROVE  OneOutcome(k) /\ KeyOK(k)
BY DEF SentOnce, KeyInv, KeyOK, Single

(* Only a call that inserts or rolls back has locked its fee.              *)
LEMMA OweNothing ==
  ASSUME KeyInv, faults = 0, NEW h \in Handlers,
         call[h].at \in {"preflight", "validate", "claim", "lock"}
  PROVE  call[h].txn = NoTransaction
BY DEF KeyInv, CallKeys, JoinSteps

LEMMA JoinsUnmoved ==
  ASSUME IInv, KeyInv, SweepOK, \A u \in Users : Escrow(u), faults = 0, NEW h \in Handlers,
         \/ Preflight(h) \/ Validate(h) \/ Refuse(h) \/ ClaimSpot(h) \/ ContestFull(h)
         \/ Insufficient(h) \/ InsertRefused(h) \/ SideEffects(h)
  PROVE  SweepOK' /\ \A u \in Users : Escrow(u)'
<1>1. /\ entry' = entry /\ wallet' = wallet /\ call[h].at \in JoinSteps
      /\ contest'.cancelled = contest.cancelled
  <2>1. contest \in Contests
    BY DEF IInv, Shape
  <2> QED
    BY <2>1 DEF Preflight, Validate, Refuse, ClaimSpot, ContestFull, Insufficient, InsertRefused,
       SideEffects, At, JoinSteps, Contests
<1>2. CASE Refuse(h) \/ SideEffects(h)
  <2>1. Return(h) /\ call[h].at \in {"preflight", "validate", "done"}
    BY <1>2 DEF Refuse, SideEffects, At
  <2>2. call'[h].at = "idle" /\ \A g \in Handlers : g # h => call'[g] = call[g]
    BY <2>1, ReturnAfter DEF Idle
  <2>3. KeepsOwing(h)
    BY <2>1, <2>2 DEF KeepsOwing, Owing
  <2> QED
    BY <1>1, <2>1, <2>2, <2>3, Unmoved DEF Sweeps
<1>3. CASE Preflight(h) \/ Validate(h) \/ ClaimSpot(h) \/ ContestFull(h) \/ Insufficient(h)
  <2>1. PICK step \in JoinSteps : Goto(h, step)
    BY <1>3 DEF Preflight, Validate, ClaimSpot, ContestFull, Insufficient, JoinSteps
  <2>2. call[h].at \in {"preflight", "validate", "claim", "lock"}
    BY <1>3 DEF Preflight, Validate, ClaimSpot, ContestFull, Insufficient, At
  <2>3. call[h].txn = NoTransaction
    BY <2>2, OweNothing
  <2>4. /\ call'[h].at = step /\ call'[h].txn = NoTransaction
        /\ \A g \in Handlers : g # h => call'[g] = call[g]
    BY <1>1, <2>1, <2>3, GotoAfter
  <2>5. KeepsOwing(h)
    BY <2>3, <2>4 DEF KeepsOwing, Owing
  <2> QED
    BY <1>1, <2>2, <2>4, <2>5, Unmoved DEF Sweeps, JoinSteps
<1>4. CASE InsertRefused(h)
  <2>1. call[h].at = "insert" /\ Goto(h, "rollback")
    BY <1>4 DEF InsertRefused, At
  <2>2. /\ call'[h].at = "rollback" /\ call'[h].txn = call[h].txn /\ call'[h].team = call[h].team
        /\ \A g \in Handlers : g # h => call'[g] = call[g]
    BY <1>1, <2>1, GotoAfter
  <2>3. KeepsOwing(h)
    BY <2>1, <2>2 DEF KeepsOwing, Owing
  <2> QED
    BY <1>1, <2>1, <2>2, <2>3, Unmoved DEF Sweeps
<1> QED
  BY <1>2, <1>3, <1>4

LEMMA StartUnmoved ==
  ASSUME IInv, SweepOK, \A u \in Users : Escrow(u), NEW h \in Handlers,
         \/ \E t \in Teams, k \in Keys \cup {NoKey} : Join(h, t, k)
         \/ \E n \in 2..MaxSpots : UpdateContest(h, n)
         \/ SaveCapacity(h)
  PROVE  SweepOK' /\ \A u \in Users : Escrow(u)'
<1>1. CASE \E t \in Teams, k \in Keys \cup {NoKey} : Join(h, t, k)
  <2>1. PICK t \in Teams, k \in Keys \cup {NoKey} : Join(h, t, k)
    BY <1>1
  <2>2. /\ call'[h] = [at |-> "preflight", team |-> t, key |-> k, txn |-> NoTransaction]
        /\ call[h] = Idle /\ \A g \in Handlers : g # h => call'[g] = call[g]
    BY <2>1, CallAfter DEF Join, Start
  <2>3. call[h].at = "idle" /\ call'[h].at = "preflight"
    BY <2>2 DEF Idle
  <2>4. entry' = entry /\ wallet' = wallet /\ contest' = contest
    BY <2>1 DEF Join
  <2>5. KeepsOwing(h)
    BY <2>3 DEF KeepsOwing, Owing
  <2> QED
    BY <2>2, <2>3, <2>4, <2>5, Unmoved DEF Sweeps
<1>2. CASE \E n \in 2..MaxSpots : UpdateContest(h, n)
  <2>1. PICK n \in 2..MaxSpots : UpdateContest(h, n)
    BY <1>2
  <2>2. /\ call'[h] = [at |-> "update", total |-> n]
        /\ call[h] = Idle /\ \A g \in Handlers : g # h => call'[g] = call[g]
    BY <2>1, CallAfter DEF UpdateContest, Start
  <2>3. call[h].at = "idle" /\ call'[h].at = "update"
    BY <2>2 DEF Idle
  <2>4. entry' = entry /\ wallet' = wallet /\ contest' = contest
    BY <2>1 DEF UpdateContest
  <2>5. KeepsOwing(h)
    BY <2>3 DEF KeepsOwing, Owing
  <2> QED
    BY <2>2, <2>3, <2>4, <2>5, Unmoved DEF Sweeps
<1>3. CASE SaveCapacity(h)
  <2>1. /\ entry' = entry /\ wallet' = wallet /\ call[h].at = "update" /\ Return(h)
        /\ contest' = [contest EXCEPT !.total = call[h].total]
    BY <1>3 DEF SaveCapacity, At
  <2>2. contest'.cancelled = contest.cancelled
    BY <2>1 DEF IInv, Shape, Contests
  <2>3. call'[h].at = "idle" /\ \A g \in Handlers : g # h => call'[g] = call[g]
    BY <2>1, ReturnAfter DEF Idle
  <2>4. KeepsOwing(h)
    BY <2>1, <2>3 DEF KeepsOwing, Owing
  <2> QED
    BY <2>1, <2>2, <2>3, <2>4, Unmoved DEF Sweeps
<1> QED
  BY <1>1, <1>2, <1>3

(* With no call moving at all: a change of status, and a stutter.          *)
LEMMA StatusUnmoved ==
  ASSUME SweepOK, \A u \in Users : Escrow(u), contest'.cancelled = contest.cancelled,
         entry' = entry, wallet' = wallet, call' = call
  PROVE  SweepOK' /\ \A u \in Users : Escrow(u)'
BY DEF SweepOK, Escrow, OwedEntries, OwedCalls, ActiveOf, Active, Owing, UserOf, Sweeping,
   Refunding, IsNext

-----------------------------------------------------------------------------
(* The steps that move a fee: the lock, the insertion and the rollback.    *)

(* A call or an entry that is owed a fee finds it in the escrow.           *)
LEMMA FeeIsThere ==
  ASSUME IInv, KeyInv, NEW u \in Users, Escrow(u)
  PROVE  /\ wallet[u].locked \in Nat
         /\ OwedEntries(u) # {} \/ OwedCalls(u) # {} => wallet[u].locked > 0
<1>1. /\ IsFiniteSet(OwedEntries(u)) /\ Cardinality(OwedEntries(u)) \in Nat
      /\ IsFiniteSet(OwedCalls(u)) /\ Cardinality(OwedCalls(u)) \in Nat
  BY FiniteOwed
<1>2. /\ Cardinality(OwedEntries(u)) = 0 <=> OwedEntries(u) = {}
      /\ Cardinality(OwedCalls(u)) = 0 <=> OwedCalls(u) = {}
  BY <1>1, FS_EmptySet
<1>3. wallet[u].locked = Cardinality(OwedEntries(u)) + Cardinality(OwedCalls(u))
  BY DEF Escrow
<1> QED
  BY <1>1, <1>2, <1>3

(* One more or one less of what is owed, with one more or less locked.     *)
LEMMA CallOwed ==
  ASSUME IInv, NEW u, Escrow(u), NEW h, h \notin OwedCalls(u),
         OwedCalls(u)' = OwedCalls(u) \cup {h}, OwedEntries(u)' = OwedEntries(u),
         wallet'[u].locked = wallet[u].locked + 1
  PROVE  Escrow(u)'
<1>1. /\ IsFiniteSet(OwedEntries(u)) /\ Cardinality(OwedEntries(u)) \in Nat
      /\ IsFiniteSet(OwedCalls(u)) /\ Cardinality(OwedCalls(u)) \in Nat
  BY FiniteOwed
<1>2. Cardinality(OwedCalls(u)') = Cardinality(OwedCalls(u)) + 1
  BY <1>1, FS_AddElement
<1> QED
  BY <1>1, <1>2 DEF Escrow

LEMMA CallSettled ==
  ASSUME IInv, NEW u, Escrow(u), NEW h, h \in OwedCalls(u),
         OwedCalls(u)' = OwedCalls(u) \ {h}, OwedEntries(u)' = OwedEntries(u),
         wallet'[u].locked = wallet[u].locked - 1
  PROVE  Escrow(u)'
<1>1. /\ IsFiniteSet(OwedEntries(u)) /\ Cardinality(OwedEntries(u)) \in Nat
      /\ IsFiniteSet(OwedCalls(u)) /\ Cardinality(OwedCalls(u)) \in Nat
  BY FiniteOwed
<1>2. Cardinality(OwedCalls(u)') = Cardinality(OwedCalls(u)) - 1
  BY <1>1, FS_RemoveElement
<1> QED
  BY <1>1, <1>2 DEF Escrow

LEMMA CallBecomesEntry ==
  ASSUME IInv, NEW u, Escrow(u), NEW h, h \in OwedCalls(u), NEW e, e \notin OwedEntries(u),
         OwedCalls(u)' = OwedCalls(u) \ {h}, OwedEntries(u)' = OwedEntries(u) \cup {e},
         wallet'[u].locked = wallet[u].locked
  PROVE  Escrow(u)'
<1>1. /\ IsFiniteSet(OwedEntries(u)) /\ Cardinality(OwedEntries(u)) \in Nat
      /\ IsFiniteSet(OwedCalls(u)) /\ Cardinality(OwedCalls(u)) \in Nat
  BY FiniteOwed
<1>2. Cardinality(OwedCalls(u)') = Cardinality(OwedCalls(u)) - 1
  BY <1>1, FS_RemoveElement
<1>3. Cardinality(OwedEntries(u)') = Cardinality(OwedEntries(u)) + 1
  BY <1>1, FS_AddElement
<1> QED
  BY <1>1, <1>2, <1>3 DEF Escrow

LEMMA EntrySettled ==
  ASSUME IInv, NEW u, Escrow(u), NEW e, e \in OwedEntries(u),
         OwedEntries(u)' = OwedEntries(u) \ {e}, OwedCalls(u)' = OwedCalls(u),
         wallet'[u].locked = wallet[u].locked - 1
  PROVE  Escrow(u)'
<1>1. /\ IsFiniteSet(OwedEntries(u)) /\ Cardinality(OwedEntries(u)) \in Nat
      /\ IsFiniteSet(OwedCalls(u)) /\ Cardinality(OwedCalls(u)) \in Nat
  BY FiniteOwed
<1>2. Cardinality(OwedEntries(u)') = Cardinality(OwedEntries(u)) - 1
  BY <1>1, FS_RemoveElement
<1> QED
  BY <1>1, <1>2 DEF Escrow

LEMMA NothingOwed ==
  ASSUME NEW u, Escrow(u), OwedEntries(u)' = OwedEntries(u), OwedCalls(u)' = OwedCalls(u),
         wallet'[u].locked = wallet[u].locked
  PROVE  Escrow(u)'
BY DEF Escrow

LEMMA LockKeepsEscrow ==
  ASSUME IInv, KeyInv, SweepOK, \A u \in Users : Escrow(u), faults = 0, SentOnce,
         NEW h \in Handlers, LockFee(h)
  PROVE  SweepOK' /\ \A u \in Users : Escrow(u)'
<1>1. PICK k : k = IF call[h].key = NoKey THEN implicit + 1 ELSE call[h].key
  OBVIOUS
<1>2. PICK u \in Users : u = UserOf(h)
  <2>1. call[h].at = "lock"
    BY DEF LockFee, At
  <2> QED
    BY <2>1, JoinFacts DEF JoinSteps
<1>3. /\ k \in LockKeys /\ call[h].at = "lock" /\ call[h].key \in Keys \cup {NoKey}
      /\ call'[h].at = "insert" /\ call'[h].txn = k /\ call'[h].team = call[h].team
      /\ \A g \in Handlers : g # h => call'[g] = call[g]
      /\ contest' = contest /\ entry' = entry
  <2>1. k \in LockKeys /\ call[h].at = "lock"
    BY <1>1, LockCall
  <2>2. call[h].key \in Keys \cup {NoKey}
    BY <2>1, JoinFacts DEF JoinSteps
  <2>3. /\ call'[h].at = "insert" /\ call'[h].txn = k /\ call'[h].team = call[h].team
        /\ \A g \in Handlers : g # h => call'[g] = call[g]
    BY <1>1, LockCall
  <2>4. contest' = contest /\ entry' = entry
    BY DEF LockFee
  <2> QED
    BY <2>1, <2>2, <2>3, <2>4
<1>4. /\ \A w \in Users : w # u => wallet'[w] = wallet[w]
      /\ wallet'[u].posted = wallet[u].posted \cup {<<"lock", k>>}
      /\ <<"lock", k>> \notin wallet[u].posted => wallet'[u].locked = wallet[u].locked + 1
  BY <1>1, <1>2, LockPosts
<1>5. ~Posted("lock", k)
  <2>1. CASE call[h].key = NoKey
    <3>1. k \notin Keys /\ k = implicit + 1 /\ implicit \in Nat
      BY <1>1, <1>3, <2>1, KeysApart DEF KeyInv, Typed
    <3>2. ~Made(k)
      BY <3>1 DEF Made
    <3> QED
      BY <1>3, <3>2, Fresh DEF KeyOK
  <2>2. CASE call[h].key # NoKey
    <3>1. Bears(h, k)
      BY <1>1, <1>3, <2>2 DEF Bears, JoinSteps
    <3> QED
      BY <1>3, <3>1, Fresh DEF OneOutcome
  <2> QED
    BY <2>1, <2>2
<1>6. wallet'[u].locked = wallet[u].locked + 1
  BY <1>4, <1>5 DEF Posted
<1>7. \A w \in Users : \A e \in Nat :
        <<"refund", e>> \in wallet'[w].posted <=> <<"refund", e>> \in wallet[w].posted
  BY <1>4
<1>8. SweepOK'
  BY <1>3, <1>7, EntryUsers, SweepUnmoved DEF Sweeps
<1>9. ASSUME NEW w \in Users PROVE Escrow(w)'
  <2>1. OwedEntries(w)' = OwedEntries(w)
    BY <1>3, <1>7, EntryUsers DEF OwedEntries, ActiveOf
  <2>2. /\ \A g \in Handlers : g # h => ((Owing(g) /\ UserOf(g) = w)' <=> Owing(g) /\ UserOf(g) = w)
        /\ ~Owing(h) /\ ((Owing(h) /\ UserOf(h) = w)' <=> u = w)
    BY <1>2, <1>3, KeysApart DEF Owing, UserOf
  <2>3. CASE w = u
    <3>1. h \notin OwedCalls(w) /\ OwedCalls(w)' = OwedCalls(w) \cup {h}
      BY <2>2, <2>3 DEF OwedCalls
    <3> QED
      BY <1>6, <2>1, <2>3, <3>1, CallOwed
  <2>4. CASE w # u
    <3>1. OwedCalls(w)' = OwedCalls(w)
      BY <2>2, <2>4 DEF OwedCalls
    <3> QED
      BY <1>4, <2>1, <2>4, <3>1, NothingOwed
  <2> QED
    BY <2>3, <2>4
<1> QED
  BY <1>8, <1>9

LEMMA RollbackKeepsEscrow ==
  ASSUME IInv, KeyInv, SweepOK, \A u \in Users : Escrow(u), faults = 0, SentOnce,
         NEW h \in Handlers, HandleJoinRollback(h)
  PROVE  SweepOK' /\ \A u \in Users : Escrow(u)'
<1> DEFINE k == call[h].txn
<1>1. /\ call[h].at = "rollback" /\ contest' = contest /\ entry' = entry /\ Return(h)
  BY DEF HandleJoinRollback, At
<1>2. PICK u \in Users : u = UserOf(h)
  BY <1>1, JoinFacts DEF JoinSteps
<1>3. k \in LockKeys \cup {NoTransaction}
  BY <1>1, JoinFacts DEF JoinSteps
<1>4. call'[h].at = "idle" /\ \A g \in Handlers : g # h => call'[g] = call[g]
  BY <1>1, ReturnAfter DEF Idle
<1>5. CASE k = NoTransaction
  <2>1. wallet' = wallet
    BY <1>5 DEF HandleJoinRollback
  <2>2. KeepsOwing(h)
    BY <1>4, <1>5 DEF KeepsOwing, Owing
  <2> QED
    BY <1>1, <1>4, <2>1, <2>2, Unmoved DEF Sweeps
<1>6. CASE k # NoTransaction
  <2>1. k \in LockKeys /\ Bears(h, k)
    BY <1>1, <1>3, <1>6 DEF Bears, JoinSteps
  <2>2. <<"rollback", k>> \notin wallet[u].posted
    BY <2>1, Fresh DEF OneOutcome, Posted
  <2>3. h \in OwedCalls(u)
    BY <1>1, <1>2, <1>6 DEF OwedCalls, Owing
  <2>4. wallet[u].locked > 0
    BY <2>3, FeeIsThere
  <2>5. CanRefund(u, <<"rollback", k>>) /\ wallet' = Refunded(u, <<"rollback", k>>)
    BY <1>2, <1>6, <2>4 DEF HandleJoinRollback, CanRefund
  <2>6. <<"rollback", k>> \in Postings /\ Typed
    BY <2>1 DEF Postings, KeyInv
  <2>7. /\ \A w \in Users : w # u => wallet'[w] = wallet[w]
        /\ wallet'[u].posted = wallet[u].posted \cup {<<"rollback", k>>}
        /\ wallet'[u].locked = wallet[u].locked - 1
    BY <2>2, <2>5, <2>6, RefundPosts
  <2>8. \A w \in Users : \A e \in Nat :
          <<"refund", e>> \in wallet'[w].posted <=> <<"refund", e>> \in wallet[w].posted
    BY <2>7
  <2>9. SweepOK'
    BY <1>1, <1>4, <2>8, EntryUsers, SweepUnmoved DEF Sweeps
  <2>10. ASSUME NEW w \in Users PROVE Escrow(w)'
    <3>1. OwedEntries(w)' = OwedEntries(w)
      BY <1>1, <2>8, EntryUsers DEF OwedEntries, ActiveOf
    <3>2. /\ \A g \in Handlers : g # h => ((Owing(g) /\ UserOf(g) = w)' <=> Owing(g) /\ UserOf(g) = w)
          /\ ~(Owing(h)') /\ (Owing(h) /\ UserOf(h) = w <=> u = w)
      BY <1>1, <1>2, <1>4, <1>6 DEF Owing, UserOf
    <3>3. CASE w = u
      <4>1. OwedCalls(w)' = OwedCalls(w) \ {h}
        BY <3>2, <3>3 DEF OwedCalls
      <4> QED
        BY <2>3, <2>7, <3>1, <3>3, <4>1, CallSettled
    <3>4. CASE w # u
      <4>1. OwedCalls(w)' = OwedCalls(w)
        BY <3>2, <3>4 DEF OwedCalls
      <4> QED
        BY <2>7, <3>1, <3>4, <4>1, NothingOwed
    <3> QED
      BY <3>3, <3>4
  <2> QED
    BY <2>9, <2>10
<1> QED
  BY <1>5, <1>6

(* A cancelled contest takes no entry: the call that inserts holds the     *)
(* document since it claimed its spot.                                     *)
LEMMA InsertKeepsEscrow ==
  ASSUME IInv, KeyInv, KeyInv', SweepOK, \A u \in Users : Escrow(u),
         NEW h \in Handlers, InsertEntry(h)
  PROVE  SweepOK' /\ \A u \in Users : Escrow(u)'
<1> DEFINE k == call[h].txn
           new == Len(entry) + 1
<1>1. /\ call[h].at = "insert" /\ wallet' = wallet /\ Goto(h, "done")
  BY DEF InsertEntry, At
<1>2. PICK u \in Users : u = UserOf(h)
  BY <1>1, JoinFacts DEF JoinSteps
<1>3. /\ call'[h].at = "done" /\ \A g \in Handlers : g # h => call'[g] = call[g]
  BY <1>1, GotoAfter DEF JoinSteps
<1>4. k # NoTransaction
  BY <1>1 DEF KeyInv, CallKeys, JoinSteps
<1>5. /\ Len(entry) \in Nat /\ DOMAIN entry' = DOMAIN entry \cup {new}
      /\ DOMAIN entry = 1..Len(entry)
      /\ \A e \in DOMAIN entry : e # new /\ entry'[e] = entry[e]
      /\ entry'[new].user = u /\ entry'[new].status = "ACTIVE"
  <2> DEFINE row == [user |-> u, team |-> call[h].team, key |-> call[h].key,
                     txn |-> k, status |-> "ACTIVE"]
  <2>1. entry \in Seq(EntryShapes) /\ entry' = Append(entry, row)
    BY <1>2 DEF IInv, Shape, InsertEntry
  <2>2. row.user = u /\ row.status = "ACTIVE"
    OBVIOUS
  <2> HIDE DEF row
  <2>3. /\ Len(entry) \in Nat /\ DOMAIN entry = 1..Len(entry)
        /\ DOMAIN entry' = 1..new /\ entry'[new] = row
        /\ \A e \in 1..Len(entry) : entry'[e] = entry[e]
    <3>1. DOMAIN entry' = 1..Len(entry')
      BY <2>1
    <3> QED
      BY <2>1, <3>1
  <2> QED
    BY <2>2, <2>3
<1>6. ~contest.cancelled /\ ~contest'.cancelled
  <2>1. contest.writer = h /\ contest \in Contests
    BY <1>1 DEF KeyInv, WriterOK, InTransaction, IInv, Shape
  <2>2. contest.status \in Joinable
    BY <2>1, LifecycleAssumption DEF KeyInv, WriterOK
  <2> QED
    BY <2>1, <2>2 DEF KeyInv, WriterOK, Joinable, InsertEntry, Contests
<1>7. \A g \in Handlers : ~Sweeping(g) /\ ~(Sweeping(g)')
  <2>1. \A g \in Handlers : ~Sweeping(g)
    BY <1>6 DEF SweepOK
  <2> QED
    BY <1>3, <2>1 DEF Sweeping, Sweeps
<1>8. new \in Nat /\ \A w \in Users : <<"refund", new>> \notin wallet[w].posted
  BY <1>5 DEF SweepOK
<1>9. Active' = Active \cup {new}
  BY <1>5 DEF Active
<1> HIDE DEF new, k
<1>10. SweepOK'
  <2>1. \A g \in Handlers, e \in Nat : ~Refunding(g, e) /\ ~(Refunding(g, e)')
    BY <1>7 DEF Refunding, Sweeping, Sweeps
  <2>2. ASSUME NEW e \in Active' PROVE <<"refund", e>> \notin wallet'[entry'[e].user].posted /\ e \in Nat
    <3>1. CASE e = new
      BY <1>1, <1>2, <1>5, <1>8, <3>1
    <3>2. CASE e \in Active
      <4>1. e \in DOMAIN entry /\ entry'[e] = entry[e] /\ e \in Nat
        BY <1>5, <3>2 DEF Active
      <4> QED
        BY <1>1, <2>1, <3>2, <4>1 DEF SweepOK
    <3> QED
      BY <1>9, <3>1, <3>2
  <2>3. \A w \in Users : \A e \in Nat : <<"refund", e>> \in wallet'[w].posted => e \in DOMAIN entry'
    BY <1>1, <1>5 DEF SweepOK
  <2>4. \A e \in Active' : (<<"refund", e>> \in wallet'[entry'[e].user].posted <=>
          \E g \in Handlers : Refunding(g, e)')
    <3> SUFFICES ASSUME NEW e \in Active'
                 PROVE  ~\E g \in Handlers : Refunding(g, e)'
      BY <2>2
    <3> QED
      BY <1>7 DEF Refunding, Sweeping, Sweeps
  <2>5. \A g \in Handlers : call'[g].at \notin {"sweep", "refund", "markRefunded"}
    BY <1>7 DEF Sweeping, Sweeps
  <2> QED
    BY <1>6, <1>7, <2>3, <2>4, <2>5 DEF SweepOK
<1>11. ASSUME NEW w \in Users PROVE Escrow(w)'
  <2>1. /\ \A g \in Handlers : g # h => ((Owing(g) /\ UserOf(g) = w)' <=> Owing(g) /\ UserOf(g) = w)
        /\ ~(Owing(h)') /\ (Owing(h) /\ UserOf(h) = w <=> u = w)
    BY <1>1, <1>2, <1>3, <1>4 DEF Owing, UserOf, k
  <2>2. CASE w = u
    <3>1. OwedCalls(w)' = OwedCalls(w) \ {h} /\ h \in OwedCalls(w)
      BY <2>1, <2>2 DEF OwedCalls
    <3>2. OwedEntries(w)' = OwedEntries(w) \cup {new} /\ new \notin OwedEntries(w)
      BY <1>1, <1>5, <1>8, <2>2 DEF OwedEntries, ActiveOf
    <3> QED
      BY <1>1, <2>2, <3>1, <3>2, CallBecomesEntry
  <2>3. CASE w # u
    <3>1. OwedCalls(w)' = OwedCalls(w)
      BY <2>1, <2>3 DEF OwedCalls
    <3>2. OwedEntries(w)' = OwedEntries(w)
      BY <1>1, <1>5, <2>3 DEF OwedEntries, ActiveOf
    <3> QED
      BY <1>1, <3>1, <3>2, NothingOwed
  <2> QED
    BY <2>2, <2>3
<1> QED
  BY <1>10, <1>11

-----------------------------------------------------------------------------
(* The sweep of a cancelled contest.                                       *)

(* The contest was not cancelled before: no sweep is under way.            *)
LEMMA CancelKeepsEscrow ==
  ASSUME IInv, KeyInv, SweepOK, \A u \in Users : Escrow(u), NEW h \in Handlers, CancelContest(h)
  PROVE  SweepOK' /\ \A u \in Users : Escrow(u)'
<1>1. /\ entry' = entry /\ wallet' = wallet /\ contest.status # "CANCELLED"
      /\ contest' = [contest EXCEPT !.status = "CANCELLED", !.cancelled = TRUE]
      /\ contest \in Contests
  BY DEF CancelContest, Cancellable, IInv, Shape
<1>2. contest'.cancelled /\ ~contest.cancelled
  BY <1>1 DEF Contests, KeyInv, WriterOK
<1>3. /\ call'[h] = [at |-> "sweep", todo |-> {}] /\ call[h] = Idle
      /\ \A g \in Handlers : g # h => call'[g] = call[g]
  BY CallAfter DEF CancelContest, Start
<1>4. call'[h].at = "sweep" /\ call[h].at = "idle"
  BY <1>3 DEF Idle
<1>5. \A g \in Handlers : ~Sweeping(g)
  BY <1>2 DEF SweepOK
<1>6. \A g \in Handlers : Sweeping(g)' => g = h
  BY <1>3, <1>5 DEF Sweeping
<1>7. \A g \in Handlers : call'[g].at \notin {"refund", "markRefunded"}
  BY <1>4, <1>6 DEF Sweeping, Sweeps
<1>8. Active' = Active
  BY <1>1 DEF Active
<1>9. \A e \in Active' : (<<"refund", e>> \in wallet'[entry'[e].user].posted <=>
        \E g \in Handlers : Refunding(g, e)')
  <2> SUFFICES ASSUME NEW e \in Active
               PROVE  /\ <<"refund", e>> \notin wallet[entry[e].user].posted
                      /\ ~\E g \in Handlers : Refunding(g, e)'
    BY <1>1, <1>8
  <2>1. ~\E g \in Handlers : Refunding(g, e)
    BY <1>5 DEF Refunding, Sweeping, Sweeps
  <2> QED
    BY <1>7, <2>1 DEF Refunding, SweepOK
<1>10. \A u \in Users : \A e \in Nat : <<"refund", e>> \in wallet'[u].posted => e \in DOMAIN entry'
  BY <1>1 DEF SweepOK
<1>11. SweepOK'
  BY <1>2, <1>4, <1>6, <1>7, <1>9, <1>10 DEF SweepOK
<1>12. ASSUME NEW u \in Users PROVE Escrow(u)'
  <2>1. \A g \in Handlers : KeepsOwing(g)
    BY <1>3, <1>4 DEF KeepsOwing, Owing
  <2>2. OwedCalls(u)' = OwedCalls(u)
    BY <2>1, OwedCallsStay
  <2>3. OwedEntries(u)' = OwedEntries(u)
    BY <1>1 DEF OwedEntries, ActiveOf
  <2> QED
    BY <1>1, <2>2, <2>3, NothingOwed
<1> QED
  BY <1>11, <1>12

(* What every step of the one sweep leaves as it is.                       *)
LEMMA OneSweep ==
  ASSUME IInv, SweepOK, NEW h \in Handlers, Sweeping(h),
         \A g \in Handlers : g # h => call'[g] = call[g],
         call'[h].at \in Sweeps \cup {"idle"}
  PROVE  /\ contest.cancelled
         /\ \A g \in Handlers : Sweeping(g)' => g = h
         /\ \A g \in Handlers : call[g].at \in {"sweep", "refund", "markRefunded"} => g = h
         /\ \A g \in Handlers : call'[g].at \in {"sweep", "refund", "markRefunded"} => g = h
         /\ \A u \in Users : OwedCalls(u)' = OwedCalls(u)
<1>1. contest.cancelled /\ \A g \in Handlers : Sweeping(g) => g = h
  BY DEF SweepOK
<1>2. \A g \in Handlers : g # h => (Sweeping(g)' <=> Sweeping(g))
  BY DEF Sweeping
<1>3. \A g \in Handlers : KeepsOwing(g)
  <2>1. ~Owing(h) /\ call'[h].at \notin {"insert", "rollback"}
    BY DEF Owing, Sweeping, Sweeps
  <2> QED
    BY <2>1 DEF KeepsOwing
<1>4. \A u \in Users : OwedCalls(u)' = OwedCalls(u)
  BY <1>3, OwedCallsStay
<1> QED
  BY <1>1, <1>2, <1>4 DEF Sweeping, Sweeps

LEMMA FindKeepsEscrow ==
  ASSUME IInv, SweepOK, \A u \in Users : Escrow(u), NEW h \in Handlers, FindActiveForContest(h)
  PROVE  SweepOK' /\ \A u \in Users : Escrow(u)'
<1>1. /\ call[h].at = "sweep" /\ contest' = contest /\ entry' = entry /\ wallet' = wallet
      /\ call'[h] = [at |-> "refund", todo |-> Active]
      /\ \A g \in Handlers : g # h => call'[g] = call[g]
  BY CallAfter DEF FindActiveForContest, At
<1>2. call'[h].at = "refund" /\ call'[h].todo = Active
  BY <1>1
<1>3. /\ contest.cancelled
      /\ \A g \in Handlers : Sweeping(g)' => g = h
      /\ \A g \in Handlers : call[g].at \in {"sweep", "refund", "markRefunded"} => g = h
      /\ \A g \in Handlers : call'[g].at \in {"sweep", "refund", "markRefunded"} => g = h
      /\ \A u \in Users : OwedCalls(u)' = OwedCalls(u)
  BY <1>1, <1>2, OneSweep DEF Sweeping, Sweeps
<1>4. Active' = Active
  BY <1>1 DEF Active
<1>5. ASSUME NEW e \in Active
      PROVE  /\ <<"refund", e>> \notin wallet[entry[e].user].posted
             /\ \A g \in Handlers : ~(Refunding(g, e)')
  <2>1. \A g \in Handlers : ~Refunding(g, e)
    BY <1>1, <1>3 DEF Refunding
  <2> QED
    BY <1>2, <1>3, <2>1 DEF Refunding, SweepOK
<1>6. \A e \in Active' : (<<"refund", e>> \in wallet'[entry'[e].user].posted <=>
        \E g \in Handlers : Refunding(g, e)')
  BY <1>1, <1>4, <1>5
<1>7. \A u \in Users : \A e \in Nat : <<"refund", e>> \in wallet'[u].posted => e \in DOMAIN entry'
  BY <1>1 DEF SweepOK
<1>8. SweepOK'
  BY <1>1, <1>2, <1>3, <1>4, <1>6, <1>7 DEF SweepOK
<1>9. \A u \in Users : Escrow(u)'
  BY <1>1, <1>3, NothingOwed DEF OwedEntries, ActiveOf
<1> QED
  BY <1>8, <1>9

(* The refund of an entry finds its fee in the escrow and takes it once.   *)
LEMMA RefundKeepsEscrow ==
  ASSUME IInv, KeyInv, SweepOK, \A u \in Users : Escrow(u), NEW h \in Handlers, RefundEntry(h)
  PROVE  SweepOK' /\ \A u \in Users : Escrow(u)'
<1>1. call[h].at = "refund" /\ contest' = contest /\ entry' = entry
  BY DEF RefundEntry, At
<1>2. PICK e \in call[h].todo :
        /\ IsNext(e, call[h].todo)
        /\ IF CanRefund(entry[e].user, <<"refund", e>>)
           THEN wallet' = Refunded(entry[e].user, <<"refund", e>>) /\ Goto(h, "markRefunded")
           ELSE Return(h) /\ UNCHANGED wallet
  BY DEF RefundEntry
<1>3. \A g \in Handlers : call[g].at \in {"sweep", "refund", "markRefunded"} => g = h
  BY <1>1 DEF SweepOK, Sweeping, Sweeps
<1>4. /\ call[h].todo \subseteq Active /\ Active \subseteq DOMAIN entry
      /\ \A d \in Active : /\ <<"refund", d>> \notin wallet[entry[d].user].posted
                           /\ d \in Nat /\ entry[d].user \in Users
  <2>1. \A g \in Handlers, d \in Active : ~Refunding(g, d)
    BY <1>1, <1>3 DEF Refunding
  <2> QED
    BY <1>1, <2>1, EntryUsers DEF SweepOK, Active
<1>5. PICK u \in Users : u = entry[e].user
  BY <1>4
<1>6. e \in Active /\ e \in OwedEntries(u) /\ e \in Nat
  BY <1>2, <1>4, <1>5 DEF OwedEntries, ActiveOf, Active
<1>7. wallet[u].locked > 0
  BY <1>6, FeeIsThere
<1>8. wallet' = Refunded(u, <<"refund", e>>) /\ Goto(h, "markRefunded") /\ CanRefund(u, <<"refund", e>>)
  BY <1>2, <1>5, <1>7 DEF CanRefund
<1>9. <<"refund", e>> \in Postings /\ Typed
  BY <1>6 DEF Postings, KeyInv
<1>10. /\ \A w \in Users : w # u => wallet'[w] = wallet[w]
       /\ wallet'[u].posted = wallet[u].posted \cup {<<"refund", e>>}
       /\ wallet'[u].locked = wallet[u].locked - 1
  BY <1>4, <1>5, <1>6, <1>8, <1>9, RefundPosts
<1>11. /\ call'[h].at = "markRefunded" /\ call'[h].todo = call[h].todo
       /\ \A g \in Handlers : g # h => call'[g] = call[g]
  <2>1. call = [g \in Handlers |-> call[g]] /\ CallOK(call[h])
    BY DEF IInv, Shape
  <2>2. call' = [call EXCEPT ![h] = [call[h] EXCEPT !.at = "markRefunded"]]
    BY <1>8, <2>1 DEF Goto
  <2>3. PICK q : call[h] = [at |-> "refund", todo |-> q]
    BY <1>1, <2>1 DEF CallOK, Idle, Sweeps, JoinCalls, JoinSteps
  <2>4. [call[h] EXCEPT !.at = "markRefunded"] = [at |-> "markRefunded", todo |-> q]
    BY <2>3
  <2>5. /\ call'[h] = [at |-> "markRefunded", todo |-> q]
        /\ \A g \in Handlers : g # h => call'[g] = call[g]
    BY <2>2, <2>4, CallAfter
  <2> QED
    BY <2>3, <2>5
<1>12. /\ contest.cancelled
       /\ \A g \in Handlers : Sweeping(g)' => g = h
       /\ \A g \in Handlers : call'[g].at \in {"sweep", "refund", "markRefunded"} => g = h
       /\ \A w \in Users : OwedCalls(w)' = OwedCalls(w)
  BY <1>1, <1>11, OneSweep DEF Sweeping, Sweeps
<1>13. Active' = Active
  BY <1>1 DEF Active
<1>14. ASSUME NEW d \in Active
       PROVE  /\ <<"refund", d>> \in wallet'[entry[d].user].posted <=> d = e
              /\ (\E g \in Handlers : Refunding(g, d)') <=> d = e
  <2>1. <<"refund", d>> \in wallet'[entry[d].user].posted <=> d = e
    BY <1>4, <1>5, <1>10
  <2>2. IsNext(d, call[h].todo) <=> d = e
    <3>1. \A i \in call[h].todo : i \in Nat
      BY <1>4
    <3> QED
      BY <1>2, <3>1 DEF IsNext
  <2>3. (\E g \in Handlers : Refunding(g, d)') <=> IsNext(d, call[h].todo)
    BY <1>11, <1>12 DEF Refunding, IsNext
  <2> QED
    BY <2>1, <2>2, <2>3
<1>15. \A d \in Active' : (<<"refund", d>> \in wallet'[entry'[d].user].posted <=>
         \E g \in Handlers : Refunding(g, d)')
  BY <1>1, <1>13, <1>14
<1>16. \A w \in Users : \A d \in Nat : <<"refund", d>> \in wallet'[w].posted => d \in DOMAIN entry'
  BY <1>1, <1>4, <1>6, <1>10 DEF SweepOK
<1>17. contest'.cancelled => \A d \in Active' : \E g \in Handlers : call'[g].at = "sweep" \/
         (call'[g].at \in {"refund", "markRefunded"} /\ d \in call'[g].todo)
  <2> SUFFICES ASSUME NEW d \in Active PROVE d \in call[h].todo
    BY <1>11, <1>13
  <2> QED
    BY <1>1, <1>3, <1>12 DEF SweepOK
<1>18. SweepOK'
  <2>1. \A g \in Handlers : call'[g].at \in {"refund", "markRefunded"} => call'[g].todo \subseteq Active'
    BY <1>4, <1>11, <1>12, <1>13
  <2> QED
    BY <1>1, <1>12, <1>15, <1>16, <1>17, <2>1 DEF SweepOK
<1>19. ASSUME NEW w \in Users PROVE Escrow(w)'
  <2>1. CASE w = u
    <3>1. OwedEntries(w)' = OwedEntries(w) \ {e}
      BY <1>1, <1>10, <2>1 DEF OwedEntries, ActiveOf
    <3> QED
      BY <1>6, <1>10, <1>12, <2>1, <3>1, EntrySettled
  <2>2. CASE w # u
    <3>1. OwedEntries(w)' = OwedEntries(w)
      BY <1>1, <1>10, <2>2 DEF OwedEntries, ActiveOf
    <3> QED
      BY <1>10, <1>12, <2>2, <3>1, NothingOwed
  <2> QED
    BY <2>1, <2>2
<1> QED
  BY <1>18, <1>19

(* The entry that is marked is the one whose refund was posted.            *)
LEMMA MarkKeepsEscrow ==
  ASSUME IInv, SweepOK, \A u \in Users : Escrow(u), NEW h \in Handlers, MarkRefunded(h)
  PROVE  SweepOK' /\ \A u \in Users : Escrow(u)'
<1>1. call[h].at = "markRefunded" /\ contest' = contest /\ wallet' = wallet
  BY DEF MarkRefunded, At
<1>2. PICK e \in call[h].todo :
        /\ IsNext(e, call[h].todo)
        /\ entry' = [entry EXCEPT ![e].status = "REFUNDED"]
        /\ call' = [call EXCEPT ![h] = [at |-> "refund", todo |-> @.todo \ {e}]]
  BY DEF MarkRefunded
<1>3. /\ call'[h].at = "refund" /\ call'[h].todo = call[h].todo \ {e}
      /\ \A g \in Handlers : g # h => call'[g] = call[g]
  <2>1. call' = [call EXCEPT ![h] = [at |-> "refund", todo |-> call[h].todo \ {e}]]
    BY <1>2 DEF IInv, Shape
  <2>2. /\ call'[h] = [at |-> "refund", todo |-> call[h].todo \ {e}]
        /\ \A g \in Handlers : g # h => call'[g] = call[g]
    BY <2>1, CallAfter
  <2> QED
    BY <2>2
<1>4. \A g \in Handlers : call[g].at \in {"sweep", "refund", "markRefunded"} => g = h
  BY <1>1 DEF SweepOK, Sweeping, Sweeps
<1>5. /\ contest.cancelled
      /\ \A g \in Handlers : Sweeping(g)' => g = h
      /\ \A g \in Handlers : call'[g].at \in {"sweep", "refund", "markRefunded"} => g = h
      /\ \A w \in Users : OwedCalls(w)' = OwedCalls(w)
  BY <1>1, <1>3, OneSweep DEF Sweeping, Sweeps
<1>6. call[h].todo \subseteq Active /\ Active \subseteq DOMAIN entry /\ \A d \in Active : d \in Nat
  BY <1>1, EntryUsers DEF SweepOK, Active
<1>7. /\ DOMAIN entry' = DOMAIN entry
      /\ \A d \in DOMAIN entry : entry'[d].user = entry[d].user
      /\ \A d \in DOMAIN entry : entry'[d].status = "ACTIVE" <=> entry[d].status = "ACTIVE" /\ d # e
  <2>1. \A d \in DOMAIN entry : entry[d] \in EntryShapes
    BY DEF IInv, Shape
  <2> QED
    BY <1>2, <1>6, <2>1 DEF EntryShapes
<1>8. Active' = Active \ {e}
  BY <1>7 DEF Active
<1>9. <<"refund", e>> \in wallet[entry[e].user].posted
  BY <1>1, <1>2, <1>6 DEF SweepOK, Refunding
<1>10. ASSUME NEW d \in Active, d # e
       PROVE  /\ <<"refund", d>> \notin wallet[entry[d].user].posted
              /\ \A g \in Handlers : ~(Refunding(g, d)')
  <2>1. \A g \in Handlers : ~Refunding(g, d)
    <3>1. ~IsNext(d, call[h].todo)
      BY <1>2, <1>6, <1>10 DEF IsNext
    <3> QED
      BY <1>4, <3>1 DEF Refunding
  <2> QED
    BY <1>3, <1>5, <2>1 DEF Refunding, SweepOK
<1>11. \A d \in Active' : (<<"refund", d>> \in wallet'[entry'[d].user].posted <=>
         \E g \in Handlers : Refunding(g, d)')
  BY <1>1, <1>6, <1>7, <1>8, <1>10
<1>12. \A w \in Users : \A d \in Nat : <<"refund", d>> \in wallet'[w].posted => d \in DOMAIN entry'
  BY <1>1, <1>7 DEF SweepOK
<1>13. contest'.cancelled => \A d \in Active' : \E g \in Handlers : call'[g].at = "sweep" \/
         (call'[g].at \in {"refund", "markRefunded"} /\ d \in call'[g].todo)
  <2> SUFFICES ASSUME NEW d \in Active, d # e PROVE d \in call[h].todo
    BY <1>3, <1>8
  <2> QED
    BY <1>1, <1>4, <1>5 DEF SweepOK
<1>14. SweepOK'
  <2>1. \A g \in Handlers : call'[g].at \in {"refund", "markRefunded"} => call'[g].todo \subseteq Active'
    BY <1>3, <1>5, <1>6, <1>8
  <2> QED
    BY <1>1, <1>5, <1>11, <1>12, <1>13, <2>1 DEF SweepOK
<1>15. ASSUME NEW w \in Users PROVE Escrow(w)'
  <2>1. OwedEntries(w)' = OwedEntries(w)
    BY <1>1, <1>7, <1>9 DEF OwedEntries, ActiveOf
  <2> QED
    BY <1>1, <1>5, <2>1, NothingOwed
<1> QED
  BY <1>14, <1>15

(* The sweep ends when no active entry is left.                            *)
LEMMA EndKeepsEscrow ==
  ASSUME IInv, SweepOK, \A u \in Users : Escrow(u), NEW h \in Handlers, SweepEnds(h)
  PROVE  SweepOK' /\ \A u \in Users : Escrow(u)'
<1>1. /\ call[h].at = "refund" /\ call[h].todo = {} /\ Return(h)
      /\ contest' = contest /\ entry' = entry /\ wallet' = wallet
  BY DEF SweepEnds, At
<1>2. call'[h].at = "idle" /\ \A g \in Handlers : g # h => call'[g] = call[g]
  BY <1>1, ReturnAfter DEF Idle
<1>3. /\ contest.cancelled
      /\ \A g \in Handlers : Sweeping(g)' => g = h
      /\ \A g \in Handlers : call[g].at \in {"sweep", "refund", "markRefunded"} => g = h
      /\ \A g \in Handlers : call'[g].at \in {"sweep", "refund", "markRefunded"} => g = h
      /\ \A w \in Users : OwedCalls(w)' = OwedCalls(w)
  BY <1>1, <1>2, OneSweep DEF Sweeping, Sweeps
<1>4. \A g \in Handlers : ~(Sweeping(g)') /\ call'[g].at \notin {"refund", "markRefunded"}
  BY <1>2, <1>3 DEF Sweeping, Sweeps
<1>5. Active = {}
  BY <1>1, <1>3 DEF SweepOK
<1>6. Active' = {}
  BY <1>1, <1>5 DEF Active
<1>7. \A w \in Users : \A d \in Nat : <<"refund", d>> \in wallet'[w].posted => d \in DOMAIN entry'
  BY <1>1 DEF SweepOK
<1>8. SweepOK'
  BY <1>4, <1>6, <1>7 DEF SweepOK
<1>9. \A w \in Users : Escrow(w)'
  BY <1>1, <1>3, NothingOwed DEF OwedEntries, ActiveOf
<1> QED
  BY <1>8, <1>9

-----------------------------------------------------------------------------
LEMMA EscrowStartsEmpty == Init => EscrowInv
<1> SUFFICES ASSUME Init PROVE SweepOK /\ \A u \in Users : Escrow(u)
  BY DEF EscrowInv
<1>1. /\ entry = <<>> /\ DOMAIN entry = {}
      /\ \A h \in Handlers : call[h].at = "idle"
      /\ wallet = [u \in Users |-> [spendable |-> Funds, locked |-> 0, posted |-> {}]]
  BY DEF Init, Idle
<1>2. SweepOK
  BY <1>1 DEF SweepOK, Sweeping, Sweeps, Refunding, Active
<1>3. ASSUME NEW u \in Users PROVE Escrow(u)
  <2>1. OwedEntries(u) = {} /\ OwedCalls(u) = {}
    BY <1>1 DEF OwedEntries, ActiveOf, OwedCalls, Owing
  <2>2. wallet[u].locked = 0
    BY <1>1
  <2> QED
    BY <2>1, <2>2, FS_EmptySet DEF Escrow
<1> QED
  BY <1>2, <1>3

(* What was disturbed stays so.                                            *)
LEMMA DisturbedForGood ==
  ASSUME IInv, KeyInv, [Next]_vars, Undisturbed'
  PROVE  /\ Undisturbed
         /\ ~\E h \in Handlers : Abort(h) \/ RetryTransaction(h) \/ Crash(h) \/ LifecycleFault(h)
<1>1. faults \in Nat /\ sent \in [Keys -> Nat]
  BY DEF KeyInv, Typed
<1>2. faults' >= faults /\ faults' \in Nat /\ \A k \in Keys : sent'[k] >= sent[k] /\ sent'[k] \in Nat
  <2>1. CASE LifecycleNext /\ UNCHANGED joinVars
    <3>1. sent' = sent
      BY <2>1 DEF joinVars
    <3>2. faults' = faults \/ faults' = faults + 1
      BY <2>1 DEF LifecycleNext, LifecycleStep, TransitionStatus, UpdateContest, CancelContest,
         SaveCapacity, FindActiveForContest, RefundEntry, MarkRefunded, SweepEnds, LifecycleFault
    <3> QED
      BY <1>1, <3>1, <3>2
  <2>2. CASE \E h \in Handlers, t \in Teams, k \in Keys \cup {NoKey} : Join(h, t, k)
    BY <1>1, <2>2 DEF Join
  <2>3. CASE \E h \in Handlers : JoinStep(h) \/ Abort(h) \/ RetryTransaction(h) \/ Crash(h)
    BY <1>1, <2>3 DEF JoinStep, Preflight, Validate, Refuse, ClaimSpot, ContestFull, LockFee,
       Insufficient, InsertRefused, InsertEntry, SideEffects, HandleJoinRollback, Abort,
       RetryTransaction, Crash, JoinFault, joinVars
  <2>4. CASE UNCHANGED vars
    BY <1>1, <2>4 DEF vars
  <2> QED
    BY <2>1, <2>2, <2>3, <2>4 DEF Next
<1>3. Undisturbed
  BY <1>1, <1>2 DEF Undisturbed, SentOnce
<1>4. ~\E h \in Handlers : Abort(h) \/ RetryTransaction(h) \/ Crash(h) \/ LifecycleFault(h)
  BY <1>3 DEF Undisturbed, Abort, RetryTransaction, Crash, LifecycleFault, JoinFault
<1> QED
  BY <1>3, <1>4

LEMMA EscrowPreserved ==
  ASSUME IInv, KeyInv, KeyInv', EscrowInv, [Next]_vars
  PROVE  EscrowInv'
<1> SUFFICES ASSUME Undisturbed' PROVE SweepOK' /\ \A u \in Users : Escrow(u)'
  BY DEF EscrowInv
<1>1. /\ Undisturbed
      /\ ~\E h \in Handlers : Abort(h) \/ RetryTransaction(h) \/ Crash(h) \/ LifecycleFault(h)
  BY DisturbedForGood
<1>2. faults = 0 /\ SentOnce /\ SweepOK /\ \A u \in Users : Escrow(u)
  BY <1>1 DEF Undisturbed, EscrowInv
<1>3. CASE \E target \in Statuses : TransitionStatus(target)
  <2>1. contest \in Contests
    BY DEF IInv, Shape
  <2>2. contest'.cancelled = contest.cancelled /\ entry' = entry /\ wallet' = wallet /\ call' = call
    BY <1>3, <2>1 DEF TransitionStatus, Contests
  <2> QED
    BY <1>2, <2>2, StatusUnmoved
<1>4. CASE \E h \in Handlers : (\E n \in 2..MaxSpots : UpdateContest(h, n)) \/ SaveCapacity(h)
  BY <1>2, <1>4, StartUnmoved
<1>5. CASE \E h \in Handlers : CancelContest(h) \/ FindActiveForContest(h) \/ RefundEntry(h)
             \/ MarkRefunded(h) \/ SweepEnds(h)
  BY <1>2, <1>5, CancelKeepsEscrow, FindKeepsEscrow, RefundKeepsEscrow, MarkKeepsEscrow,
     EndKeepsEscrow
<1>6. CASE \E h \in Handlers, t \in Teams, k \in Keys \cup {NoKey} : Join(h, t, k)
  BY <1>2, <1>6, StartUnmoved
<1>7. CASE \E h \in Handlers : JoinStep(h)
  BY <1>2, <1>7, JoinsUnmoved, LockKeepsEscrow, InsertKeepsEscrow, RollbackKeepsEscrow DEF JoinStep
<1>8. CASE UNCHANGED vars
  BY <1>2, <1>8, StatusUnmoved DEF vars
<1> QED
  BY <1>1, <1>3, <1>4, <1>5, <1>6, <1>7, <1>8 DEF Next, LifecycleNext, LifecycleStep

(* When all calls have ended, no fault was injected and no key repeated,   *)
(* the escrow of a user holds a fee for each active entry and nothing else *)
(* (EscrowMatchesEntries): no refused, duplicate, late or swept join       *)
(* leaves money behind or takes it twice.                                  *)
THEOREM EscrowHoldsTheFees == Spec => []EscrowMatchesEntries
<1>1. Init => IInv /\ KeyInv /\ EscrowInv
  BY InitEstablishes, KeysStartFresh, EscrowStartsEmpty
<1>2. IInv /\ KeyInv /\ EscrowInv /\ [Next]_vars => IInv' /\ KeyInv' /\ EscrowInv'
  BY KeysPreserved, EscrowPreserved
<1>3. IInv /\ KeyInv /\ EscrowInv => EscrowMatchesEntries
  <2> SUFFICES ASSUME IInv, KeyInv, EscrowInv, Quiet, faults = 0, SentOnce, NEW u \in Users
               PROVE  wallet[u].locked = Cardinality(ActiveOf(u))
    BY DEF EscrowMatchesEntries
  <2>1. SweepOK /\ Escrow(u)
    BY DEF EscrowInv, Undisturbed
  <2>2. ASSUME NEW h \in Handlers PROVE call[h].at = "idle"
    <3>1. call[h] = Idle
      BY DEF Quiet
    <3> QED
      BY <3>1 DEF Idle
  <2>3. OwedCalls(u) = {}
    BY <2>2 DEF OwedCalls, Owing
  <2>4. OwedEntries(u) = ActiveOf(u)
    BY <2>1, <2>2 DEF OwedEntries, ActiveOf, Active, SweepOK, Refunding
  <2>5. Cardinality(ActiveOf(u)) \in Nat
    BY FiniteSides DEF IInv
  <2> QED
    BY <2>1, <2>3, <2>4, <2>5, FS_EmptySet DEF Escrow
<1> QED
  BY <1>1, <1>2, <1>3, PTL DEF Spec

(* ... and a cancelled contest keeps no active entry then                  *)
(* (CancelledContestIsRefunded): no join slips past the sweep that reads   *)
(* the entries after the status was flipped.                               *)
THEOREM SweepRefundsAll == Spec => []CancelledContestIsRefunded
<1>1. Init => IInv /\ KeyInv /\ EscrowInv
  BY InitEstablishes, KeysStartFresh, EscrowStartsEmpty
<1>2. IInv /\ KeyInv /\ EscrowInv /\ [Next]_vars => IInv' /\ KeyInv' /\ EscrowInv'
  BY KeysPreserved, EscrowPreserved
<1>3. KeyInv /\ EscrowInv => CancelledContestIsRefunded
  <2> SUFFICES ASSUME KeyInv, EscrowInv, Quiet, faults = 0, SentOnce, contest.cancelled,
                      NEW e \in DOMAIN entry
               PROVE  entry[e].status = "REFUNDED"
    BY DEF CancelledContestIsRefunded
  <2>1. SweepOK /\ \A h \in Handlers : call[h].at = "idle"
    BY DEF EscrowInv, Undisturbed, Quiet, Idle
  <2>2. e \notin Active
    BY <2>1 DEF SweepOK
  <2> QED
    BY <2>2 DEF Active, KeyInv, Typed
<1> QED
  BY <1>1, <1>2, <1>3, PTL DEF Spec


-----------------------------------------------------------------------------
(* The wallet of a user is the one the wallet service promises: locks and  *)
(* refunds are movements between the spendable sum, for which DEPOSIT      *)
(* stands here, and the escrow.                                            *)
InBuckets(spendable, locked) ==
  [b \in {"DEPOSIT", "WINNING", "BONUS", "LOCKED"} |->
     IF b = "LOCKED" THEN locked ELSE IF b = "DEPOSIT" THEN spendable ELSE 0]

JournalOf(u) == INSTANCE WalletJournal WITH
  Keys <- Postings, Opening <- InBuckets(Funds, 0),
  balance <- InBuckets(wallet[u].spendable, wallet[u].locked), posted <- wallet[u].posted

MovesFee(u, key) ==
  /\ key \in Postings /\ key \notin wallet[u].posted
  /\ wallet'[u].posted = wallet[u].posted \cup {key}
  /\ wallet'[u].spendable + wallet'[u].locked = wallet[u].spendable + wallet[u].locked

LEMMA WalletMoves ==
  ASSUME [Next]_vars
  PROVE  \/ UNCHANGED wallet
         \/ \E h \in Handlers : LockFee(h) \/ HandleJoinRollback(h) \/ RefundEntry(h)
<1>1. ASSUME NEW h \in Handlers, JoinStep(h)
      PROVE  UNCHANGED wallet \/ LockFee(h) \/ HandleJoinRollback(h)
  BY <1>1 DEF JoinStep, Preflight, Validate, Refuse, ClaimSpot, ContestFull, Insufficient,
              InsertRefused, InsertEntry, SideEffects
<1>2. ASSUME NEW h \in Handlers, Abort(h) \/ RetryTransaction(h) \/ Crash(h)
      PROVE  UNCHANGED wallet
  BY <1>2 DEF Abort, RetryTransaction, Crash
<1>3. ASSUME NEW h \in Handlers, NEW t \in Teams, NEW k \in Keys \cup {NoKey}, Join(h, t, k)
      PROVE  UNCHANGED wallet
  BY <1>3 DEF Join
<1>4. ASSUME LifecycleNext
      PROVE  UNCHANGED wallet \/ \E h \in Handlers : RefundEntry(h)
  BY <1>4 DEF LifecycleNext, TransitionStatus, UpdateContest, CancelContest, LifecycleStep,
              LifecycleFault, SaveCapacity, FindActiveForContest, MarkRefunded, SweepEnds
<1> QED
  BY <1>1, <1>2, <1>3, <1>4 DEF Next, vars

(* What a lock and a refund write: the fee changes sides, once per key.    *)
LEMMA LockMovesFee ==
  ASSUME IInv, KeyInv, NEW h \in Handlers, LockFee(h), NEW u \in Users
  PROVE  wallet'[u] = wallet[u] \/ \E key \in Postings : MovesFee(u, key)
<1>1. PICK k : k = IF call[h].key = NoKey THEN implicit + 1 ELSE call[h].key
  OBVIOUS
<1>2. k \in LockKeys /\ UserOf(h) \in Users
  BY <1>1, LockCall, JoinFacts DEF JoinSteps
<1>3. CASE u # UserOf(h) \/ <<"lock", k>> \in wallet[UserOf(h)].posted
  BY <1>1, <1>3, LockPosts
<1>4. CASE u = UserOf(h) /\ <<"lock", k>> \notin wallet[UserOf(h)].posted
  <2>1. wallet \in [Users -> Wallets] /\ wallet[u] \in Wallets
    BY DEF KeyInv, Typed
  <2>2. PICK w : w = [wallet[u] EXCEPT !.spendable = @ - 1, !.locked = @ + 1,
                                       !.posted = @ \cup {<<"lock", k>>}]
    OBVIOUS
  <2>3. wallet' = [wallet EXCEPT ![u] = w]
    BY <1>1, <1>4, <2>1, <2>2 DEF LockFee
  <2>4. /\ w.locked = wallet[u].locked + 1 /\ w.spendable = wallet[u].spendable - 1
        /\ w.posted = wallet[u].posted \cup {<<"lock", k>>} /\ wallet'[u] = w
    BY <2>1, <2>2, <2>3 DEF Wallets
  <2>5. w.spendable + w.locked = wallet[u].spendable + wallet[u].locked
    BY <2>1, <2>4 DEF Wallets
  <2>6. <<"lock", k>> \in Postings
    BY <1>2 DEF Postings
  <2> QED
    BY <1>4, <2>4, <2>5, <2>6 DEF MovesFee
<1> QED
  BY <1>3, <1>4

LEMMA RefundMovesFee ==
  ASSUME KeyInv, NEW u \in Users, NEW key \in Postings, key \notin wallet[u].posted,
         wallet' = Refunded(u, key)
  PROVE  MovesFee(u, key) /\ \A v \in Users : v # u => wallet'[v] = wallet[v]
<1>1. wallet \in [Users -> Wallets] /\ wallet[u] \in Wallets
  BY DEF KeyInv, Typed
<1>2. PICK w : w = [wallet[u] EXCEPT !.locked = @ - 1, !.spendable = @ + 1,
                                     !.posted = @ \cup {key}]
  OBVIOUS
<1>3. wallet' = [wallet EXCEPT ![u] = w]
  BY <1>1, <1>2 DEF Refunded
<1>4. /\ w.locked = wallet[u].locked - 1 /\ w.spendable = wallet[u].spendable + 1
      /\ w.posted = wallet[u].posted \cup {key} /\ wallet'[u] = w
      /\ \A v \in Users : v # u => wallet'[v] = wallet[v]
  BY <1>1, <1>2, <1>3 DEF Wallets
<1>5. w.spendable + w.locked = wallet[u].spendable + wallet[u].locked
  BY <1>1, <1>4 DEF Wallets
<1> QED
  BY <1>4, <1>5 DEF MovesFee

LEMMA RefundIsMovement ==
  ASSUME KeyInv, NEW v \in Users, NEW key \in Postings, wallet' = Refunded(v, key), NEW u \in Users
  PROVE  wallet'[u] = wallet[u] \/ \E k \in Postings : MovesFee(u, k)
<1>1. CASE key \in wallet[v].posted
  BY <1>1 DEF Refunded
<1>2. CASE key \notin wallet[v].posted
  BY <1>2, RefundMovesFee
<1> QED
  BY <1>1, <1>2

LEMMA FeesMove ==
  ASSUME IInv, KeyInv, [Next]_vars, NEW u \in Users
  PROVE  wallet'[u] = wallet[u] \/ \E key \in Postings : MovesFee(u, key)
<1>1. ASSUME NEW h \in Handlers, HandleJoinRollback(h)
      PROVE  wallet'[u] = wallet[u] \/ \E key \in Postings : MovesFee(u, key)
  <2>1. call[h].at = "rollback"
    BY <1>1 DEF HandleJoinRollback, At
  <2>2. UserOf(h) \in Users /\ call[h] \in JoinCalls
    BY <2>1, JoinFacts DEF JoinSteps
  <2>3. CASE call[h].txn = NoTransaction \/ ~CanRefund(UserOf(h), <<"rollback", call[h].txn>>)
    BY <1>1, <2>3 DEF HandleJoinRollback
  <2>4. CASE call[h].txn # NoTransaction /\ CanRefund(UserOf(h), <<"rollback", call[h].txn>>)
    <3>1. call[h].txn \in LockKeys
      BY <2>2, <2>4 DEF JoinCalls
    <3>2. <<"rollback", call[h].txn>> \in Postings
      BY <3>1 DEF Postings
    <3>3. wallet' = Refunded(UserOf(h), <<"rollback", call[h].txn>>)
      BY <1>1, <2>4 DEF HandleJoinRollback
    <3> QED
      BY <2>2, <3>2, <3>3, RefundIsMovement
  <2> QED
    BY <2>3, <2>4
<1>2. ASSUME NEW h \in Handlers, RefundEntry(h)
      PROVE  wallet'[u] = wallet[u] \/ \E key \in Postings : MovesFee(u, key)
  <2>1. call[h].at = "refund"
    BY <1>2 DEF RefundEntry, At
  <2>2. PICK e \in call[h].todo :
          UNCHANGED wallet \/ wallet' = Refunded(entry[e].user, <<"refund", e>>)
    BY <1>2 DEF RefundEntry
  <2>3. e \in DOMAIN entry
    BY <2>1 DEF KeyInv, TodoOK
  <2>4. entry[e].user \in Users /\ <<"refund", e>> \in Postings
    BY <2>3, EntryUsers DEF Postings
  <2> QED
    BY <2>2, <2>4, RefundIsMovement
<1> QED
  BY <1>1, <1>2, WalletMoves, LockMovesFee

(* Joins, their rollbacks and the sweep of a cancelled contest move money  *)
(* only by postings a journal admits: one per key, and each keeps the      *)
(* total of the wallet of its user.                                        *)
THEOREM WalletsAreJournals == ASSUME NEW u \in Users PROVE Spec => JournalOf(u)!JournalSpec
<1>1. Init => JournalOf(u)!JournalInit
  <2> SUFFICES ASSUME Init PROVE JournalOf(u)!JournalInit
    OBVIOUS
  <2>1. wallet[u].spendable = Funds /\ wallet[u].locked = 0 /\ wallet[u].posted = {}
    BY DEF Init
  <2> QED
    BY <2>1 DEF JournalOf!JournalInit
<1>2. Init => IInv /\ KeyInv
  BY InitEstablishes, KeysStartFresh
<1>3. IInv /\ KeyInv /\ [Next]_vars => IInv' /\ KeyInv'
  BY KeysPreserved
<1>4. IInv /\ KeyInv /\ [Next]_vars =>
        [JournalOf(u)!JournalNext]_<<InBuckets(wallet[u].spendable, wallet[u].locked), wallet[u].posted>>
  <2> SUFFICES ASSUME IInv, KeyInv, [Next]_vars, wallet'[u] # wallet[u]
               PROVE  JournalOf(u)!JournalNext
    BY Zenon
  <2>1. PICK key \in Postings : MovesFee(u, key)
    BY FeesMove
  <2>2. wallet[u] \in Wallets /\ wallet'[u] \in Wallets
    BY KeysPreserved DEF KeyInv, Typed
  <2>3. PICK s, l : s = wallet[u].spendable /\ l = wallet[u].locked /\ s \in Int /\ l \in Nat
    BY <2>2 DEF Wallets
  <2>4. PICK t, m : t = wallet'[u].spendable /\ m = wallet'[u].locked /\ t \in Int /\ m \in Nat
    BY <2>2 DEF Wallets
  <2>5. PICK B : B = InBuckets(wallet[u].spendable, wallet[u].locked)
    OBVIOUS
  <2>6. PICK C : C = InBuckets(wallet'[u].spendable, wallet'[u].locked)
    OBVIOUS
  <2>7. /\ B["DEPOSIT"] = s /\ B["WINNING"] = 0 /\ B["BONUS"] = 0 /\ B["LOCKED"] = l
        /\ C["DEPOSIT"] = t /\ C["WINNING"] = 0 /\ C["BONUS"] = 0 /\ C["LOCKED"] = m
    BY <2>3, <2>4, <2>5, <2>6 DEF InBuckets
  <2>8. C \in JournalOf(u)!Balances
    BY <2>4, <2>6 DEF InBuckets, JournalOf!Balances, JournalOf!Buckets, JournalOf!Spendable
  <2>9. t + m = s + l
    BY <2>1, <2>3, <2>4 DEF MovesFee
  <2>10. JournalOf(u)!Total(C) = JournalOf(u)!Total(B)
    BY <2>3, <2>4, <2>7, <2>9 DEF JournalOf!Total
  <2>11. key \notin wallet[u].posted /\ wallet'[u].posted = wallet[u].posted \cup {key}
    BY <2>1 DEF MovesFee
  <2> QED
    BY <2>5, <2>6, <2>8, <2>10, <2>11 DEF JournalOf!JournalNext, JournalOf!Post, JournalOf!IsMovement
<1> QED
  BY <1>1, <1>2, <1>3, <1>4, PTL DEF Spec, JournalOf!JournalSpec
=============================================================================
