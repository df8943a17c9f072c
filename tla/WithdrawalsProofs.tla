-------------------------- MODULE WithdrawalsProofs --------------------------
(***************************************************************************)
(* Proofs about Withdrawals, for any set of withdrawals, calls, amounts,   *)
(* attempts and faults: the two sums of the wallet are what the postings   *)
(* moved, no sum is overdrawn by more than the calls that overlap, what    *)
(* the documents say of the wallet is true, and without faults an approval *)
(* is carried to its end.  The wallet of the flow is shown to be a         *)
(* WalletJournal.                                                          *)
(***************************************************************************)
EXTENDS Withdrawals, FiniteSetTheorems, TLAPS

Paid(w) == Posted("wd-complete", w)
Released(w) == Posted("wd-release", w)

(* Steps of the approval that created the settlement and has not handed it *)
(* on yet, and all steps of a call that will still write its outcome.      *)
Scheduling == {"saveSettlementId", "add"}
Carrying ==
  Scheduling \cup
    {"read", "mark", "saveProcessing", "complete", "commitComplete", "markFailed"}

(* What a call that has come to its step has seen or done.                 *)
Fits(h) ==
  LET c == call[h] IN
  /\ c.at \in {"saveCompleted", "markCompleted", "audit"} => Paid(c.w)
  /\ c.at = "saveRejected" => Released(c.w)
  /\ c.at \in Scheduling \cup {"saveApproved", "createSettlement"} => c.kind = "approve"
  /\ c.at \in Scheduling => job[c.w].state = "none" /\ settlement[c.w] # "none"

OneScheduler ==
  \A g, h \in Handlers :
    call[g].at \in Scheduling /\ call[h].at \in Scheduling /\ call[g].w = call[h].w => g = h

JobOK(w) ==
  /\ job[w].state \in {"waiting", "active"} => job[w].made < Attempts
  /\ settlement[w] = "none" => job[w].state = "none"

StatusOK(w) ==
  /\ withdrawal[w] = "COMPLETED" => Paid(w)
  /\ withdrawal[w] = "REJECTED" => Released(w)

SettlementOK(w) == settlement[w] = "COMPLETED" => Paid(w)

(* Without faults a job is active because its worker runs it, and a        *)
(* settlement that is neither paid nor FAILED has somebody to carry it on. *)
Carried(w) ==
  \/ job[w].state = "waiting"
  \/ \E h \in Handlers : call[h].at \in Carrying /\ call[h].w = w

Attended(w) ==
  job[w].state = "active" => \E g \in Handlers : job[w].worker = g /\ Runs(g, w)

FaultFree(w) ==
  /\ Attended(w)
  /\ settlement[w] \notin {"none", "FAILED"} => Paid(w) \/ Carried(w)

(* Every posting is made by one step, so finitely many have been made.     *)
PostedUnder(p) == {w \in Withdrawals : Posted(p, w)}
MoneyOK ==
  /\ SumsMatch
  /\ \A p \in Postings : IsFiniteSet(PostedUnder(p))

IInv ==
  /\ TypeOK
  /\ \A h \in Handlers : Fits(h)
  /\ OneScheduler
  /\ \A w \in Withdrawals : JobOK(w) /\ StatusOK(w) /\ SettlementOK(w)
  /\ faults = 0 => \A w \in Withdrawals : FaultFree(w)
  /\ MoneyOK

-----------------------------------------------------------------------------
(* Sums over finite sets.  A fold chooses the order of its summands; that  *)
(* one more summand adds itself follows by induction over finite sets,     *)
(* which the library gives as well-foundedness of the strict subset        *)
(* relation.                                                               *)

(* A set of subsets of a finite set has a smallest one: induction over     *)
(* finite sets, without an operator for the induction hypothesis.          *)
LEMMA SmallestSubset ==
  ASSUME NEW S, IsFiniteSet(S), NEW B \in SUBSET SUBSET S, B # {}
  PROVE  \E T \in B : \A U \in B : U \subseteq T => U = T
<1>1. IsWellFoundedOn(StrictSubsetOrdering(S), SUBSET S)
  BY FS_StrictSubsetOrderingWellFounded, FS_FiniteSubsetsOfFinite
<1>2. PICK T \in B : \A U \in B : ~ (<<U, T>> \in StrictSubsetOrdering(S))
  BY <1>1, WFMin
<1>3. ASSUME NEW U \in B, U \subseteq T, U # T PROVE FALSE
  <2>1. U \in SUBSET S /\ T \in SUBSET S
    OBVIOUS
  <2>2. <<U, T>> \in StrictSubsetOrdering(S)
    BY <1>3, <2>1 DEF StrictSubsetOrdering
  <2> QED
    BY <1>2, <2>2
<1> QED
  BY <1>3

(* What the folds of the community modules compute to add up f over S.     *)
Choice(T) == CHOOSE x \in T : TRUE
Iterates(g, f, S) ==
  g = [T \in SUBSET S |-> IF T = {} THEN 0 ELSE f[Choice(T)] + g[T \ {Choice(T)}]]
SumOver(f, S) == (CHOOSE g : Iterates(g, f, S))[S]

Additive(g, f, S) ==
  /\ g \in [SUBSET S -> Int]
  /\ g[{}] = 0
  /\ \A T \in SUBSET S : \A x \in S \ T : g[T \cup {x}] = f[x] + g[T]

LEMMA AdditiveExists ==
  ASSUME NEW S, IsFiniteSet(S), NEW f, \A x \in S : f[x] \in Int
  PROVE  \E g : Additive(g, f, S)
<1> DEFINE B == {T \in SUBSET S : ~ \E g : Additive(g, f, T)}
<1> SUFFICES ASSUME B # {} PROVE FALSE
  OBVIOUS
<1>1. PICK T \in B : \A U \in B : U \subseteq T => U = T
  <2> HIDE DEF B
  <2>1. B \in SUBSET SUBSET S
    BY DEF B
  <2> QED
    BY <2>1, SmallestSubset
<1>2. CASE T = {}
  <2>1. Additive([U \in SUBSET T |-> 0], f, T)
    BY <1>2 DEF Additive
  <2> QED
    BY <2>1
<1>3. ASSUME NEW y \in T PROVE FALSE
  <2> DEFINE R == T \ {y}
  <2>1. PICK g : Additive(g, f, R)
    <3>1. R \notin B /\ R \in SUBSET S
      BY <1>1, <1>3
    <3> QED
      BY <3>1
  <2> DEFINE h == [U \in SUBSET T |-> IF y \in U THEN f[y] + g[U \ {y}] ELSE g[U]]
  <2>2. f[y] \in Int
    BY <1>3
  <2>3. \A U \in SUBSET T : U \ {y} \in SUBSET R /\ (y \notin U => U \in SUBSET R)
    OBVIOUS
  <2>4. g \in [SUBSET R -> Int] /\ g[{}] = 0
    BY <2>1 DEF Additive
  <2>5. h \in [SUBSET T -> Int] /\ h[{}] = 0
    <3> HIDE DEF R
    <3> QED
      BY <2>2, <2>3, <2>4
  <2>6. ASSUME NEW U \in SUBSET T, NEW x \in T \ U
        PROVE  h[U \cup {x}] = f[x] + h[U]
    <3>1. U \cup {x} \in SUBSET T /\ f[x] \in Int
      BY <2>6
    <3>2. CASE x = y
      <4>1. (U \cup {x}) \ {y} = U
        BY <2>6, <3>2
      <4> QED
        BY <2>6, <3>1, <3>2, <4>1
    <3>3. CASE x # y /\ y \in U
      <4>1. (U \cup {x}) \ {y} = (U \ {y}) \cup {x}
        BY <3>3
      <4>2. g[(U \ {y}) \cup {x}] = f[x] + g[U \ {y}]
        BY <2>1, <2>6, <3>3 DEF Additive
      <4>3. h[U \cup {x}] = f[y] + (f[x] + g[U \ {y}]) /\ h[U] = f[y] + g[U \ {y}]
        BY <2>6, <3>1, <3>3, <4>1, <4>2
      <4>4. g[U \ {y}] \in Int
        BY <2>3, <2>4
      <4> HIDE DEF h
      <4> QED
        BY <2>2, <3>1, <4>3, <4>4
    <3>4. CASE x # y /\ y \notin U
      <4>1. g[U \cup {x}] = f[x] + g[U]
        BY <2>1, <2>6, <3>4 DEF Additive
      <4> QED
        BY <2>6, <3>1, <3>4, <4>1
    <3> QED
      BY <3>2, <3>3, <3>4
  <2>7. Additive(h, f, T)
    <3> HIDE DEF h
    <3> QED
      BY <2>5, <2>6 DEF Additive
  <2> QED
    BY <1>1, <2>7
<1> QED
  BY <1>2, <1>3

(* Of the functions a fold may choose, there is one, and it is additive.   *)
LEMMA SumIsAdditive ==
  ASSUME NEW S, IsFiniteSet(S), NEW f, NEW g, Additive(g, f, S)
  PROVE  SumOver(f, S) = g[S]
<1>1. Iterates(g, f, S)
  <2>1. ASSUME NEW T \in SUBSET S, T # {}
        PROVE  g[T] = f[Choice(T)] + g[T \ {Choice(T)}]
    <3> DEFINE x == Choice(T)
               U == T \ {x}
    <3>1. x \in T
      BY <2>1 DEF Choice
    <3> HIDE DEF x
    <3>2. U \in SUBSET S /\ x \in S \ U /\ U \cup {x} = T
      BY <3>1
    <3> HIDE DEF U
    <3>3. g[T] = f[x] + g[U]
      BY <3>2 DEF Additive
    <3> QED
      BY <3>3 DEF x, U
  <2> DEFINE it == [T \in SUBSET S |-> IF T = {} THEN 0 ELSE f[Choice(T)] + g[T \ {Choice(T)}]]
  <2>2. \A T \in SUBSET S : g[T] = it[T]
    BY <2>1 DEF Additive
  <2>3. g = it
    <3>1. g \in [SUBSET S -> Int]
      BY DEF Additive
    <3> QED
      BY <2>2, <3>1
  <2> QED
    BY <2>3 DEF Iterates
<1> DEFINE h == CHOOSE k : Iterates(k, f, S)
<1>2. Iterates(h, f, S)
  BY <1>1
<1> HIDE DEF h
<1> DEFINE B == {T \in SUBSET S : h[T] # g[T]}
<1>3. B = {}
  <2> SUFFICES ASSUME B # {} PROVE FALSE
    OBVIOUS
  <2>1. PICK T \in B : \A U \in B : U \subseteq T => U = T
    <3> HIDE DEF B
    <3>1. B \in SUBSET SUBSET S
      BY DEF B
    <3> QED
      BY <3>1, SmallestSubset
  <2>2. T # {}
    BY <1>1, <1>2 DEF Iterates
  <2>3. Choice(T) \in T
    BY <2>2 DEF Choice
  <2>4. h[T \ {Choice(T)}] = g[T \ {Choice(T)}]
    BY <2>1, <2>3
  <2>5. h[T] = g[T]
    BY <1>1, <1>2, <2>2, <2>4 DEF Iterates
  <2> QED
    BY <2>5
<1>4. h[S] = g[S]
  BY <1>3
<1> QED
  BY <1>4 DEF SumOver, h

LEMMA SumEmpty == ASSUME NEW f PROVE SumOver(f, {}) = 0
<1> DEFINE g == [T \in SUBSET {} |-> 0]
<1>1. Additive(g, f, {})
  BY DEF Additive
<1> HIDE DEF g
<1> QED
  BY <1>1, SumIsAdditive, FS_EmptySet DEF Additive

(* One more summand adds itself.                                           *)
LEMMA SumAdd ==
  ASSUME NEW S, IsFiniteSet(S), NEW y, y \notin S,
         NEW f, \A x \in S : f[x] \in Int,
         NEW e, e[y] \in Int, \A x \in S : e[x] = f[x]
  PROVE  /\ SumOver(f, S) \in Int
         /\ SumOver(e, S \cup {y}) = e[y] + SumOver(f, S)
<1> DEFINE W == S \cup {y}
<1>1. IsFiniteSet(W) /\ \A x \in W : e[x] \in Int
  BY FS_AddElement
<1>2. PICK g : Additive(g, e, W)
  BY <1>1, AdditiveExists
<1> DEFINE h == [T \in SUBSET S |-> g[T]]
<1>3. Additive(h, f, S)
  BY <1>2 DEF Additive
<1>4. SumOver(f, S) = g[S]
  BY <1>3, SumIsAdditive
<1>5. g[W] = e[y] + g[S] /\ g[S] \in Int
  BY <1>2 DEF Additive
<1>6. SumOver(e, W) = g[W]
  BY <1>1, <1>2, SumIsAdditive
<1> QED
  BY <1>4, <1>5, <1>6

(* What the postings of a kind have moved is such a sum.                   *)
LEMMA MovedIsSum ==
  ASSUME NEW p
  PROVE  /\ Moved(p) = SumOver(Amount, PostedUnder(p))
         /\ Moved(p)' = SumOver(Amount, PostedUnder(p)')
BY DEF Moved, PostedUnder, MapThenSumSet, MapThenFoldSet, SumOver, Iterates, Choice

LEMMA MovedType ==
  ASSUME NEW p, IsFiniteSet(PostedUnder(p))
  PROVE  Moved(p) \in Int
<1>1. \A w \in PostedUnder(p) : Amount[w] \in Int
  BY WithdrawalsAssumption DEF PostedUnder
<1>2. PICK g : Additive(g, Amount, PostedUnder(p))
  BY <1>1, AdditiveExists
<1>3. SumOver(Amount, PostedUnder(p)) = g[PostedUnder(p)]
  BY <1>2, SumIsAdditive
<1> QED
  BY <1>2, <1>3, MovedIsSum DEF Additive

(* A new posting moves its amount once; the other kinds move what they did.*)
LEMMA PostingMoves ==
  ASSUME IInv, NEW p \in Postings, NEW w \in Withdrawals, <<p, w>> \notin wallet.posted,
         wallet'.posted = wallet.posted \cup {<<p, w>>}
  PROVE  /\ Moved(p)' = Moved(p) + Amount[w]
         /\ \A q \in Postings \ {p} : Moved(q)' = Moved(q)
         /\ \A q \in Postings : Moved(q) \in Int /\ IsFiniteSet(PostedUnder(q)')
<1>1. PostedUnder(p)' = PostedUnder(p) \cup {w} /\ w \notin PostedUnder(p)
  BY DEF PostedUnder, Posted
<1>2. \A q \in Postings \ {p} : PostedUnder(q)' = PostedUnder(q)
  BY DEF PostedUnder, Posted
<1>3. \A q \in Postings : IsFiniteSet(PostedUnder(q))
  BY DEF IInv, MoneyOK
<1>4. \A q \in Postings : Moved(q) \in Int
  BY <1>3, MovedType
<1>5. IsFiniteSet(PostedUnder(p)')
  BY <1>1, <1>3, FS_AddElement
<1>6. Moved(p)' = Moved(p) + Amount[w]
  <2>1. Amount[w] \in Int /\ \A v \in PostedUnder(p) : Amount[v] \in Int
    BY WithdrawalsAssumption DEF PostedUnder
  <2>2. SumOver(Amount, PostedUnder(p) \cup {w}) = Amount[w] + SumOver(Amount, PostedUnder(p))
    BY <1>1, <1>3, <2>1, SumAdd
  <2>3. Moved(p)' = Amount[w] + Moved(p)
    BY <1>1, <2>2, MovedIsSum
  <2> QED
    BY <1>4, <2>1, <2>3
<1>7. \A q \in Postings \ {p} : Moved(q)' = Moved(q)
  BY <1>2, MovedIsSum
<1> QED
  BY <1>2, <1>3, <1>4, <1>5, <1>6, <1>7

LEMMA SameMoney ==
  ASSUME MoneyOK, wallet' = wallet
  PROVE  MoneyOK'
<1>1. \A q : PostedUnder(q)' = PostedUnder(q)
  BY DEF PostedUnder, Posted
<1>2. \A q : Moved(q)' = Moved(q)
  BY <1>1, MovedIsSum
<1> QED
  BY <1>1, <1>2 DEF MoneyOK, SumsMatch

(* The three postings of the service.                                      *)
LEMMA PostKeepsMoney ==
  ASSUME IInv, NEW p \in Postings, NEW w \in Withdrawals,
         NEW lock \in Int, NEW spend \in Int,
         \/ p = "wd-lock" /\ lock = Amount[w] /\ spend = - Amount[w]
         \/ p = "wd-complete" /\ lock = - Amount[w] /\ spend = 0
         \/ p = "wd-release" /\ lock = - Amount[w] /\ spend = Amount[w],
         Post(<<p, w>>, lock, spend)
  PROVE  /\ wallet' \in [spendable : Int, locked : Int, posted : SUBSET (Postings \X Withdrawals)]
         /\ MoneyOK'
         /\ Posted(p, w)'
         /\ \A q \in Postings, v \in Withdrawals : Posted(q, v) => Posted(q, v)'
<1>0. wallet \in [spendable : Int, locked : Int, posted : SUBSET (Postings \X Withdrawals)]
  BY DEF IInv, TypeOK
<1>1. CASE <<p, w>> \in wallet.posted
  <2>1. wallet' = wallet
    BY <1>1 DEF Post
  <2>2. MoneyOK'
    BY <2>1, SameMoney DEF IInv
  <2> QED
    BY <1>0, <1>1, <2>1, <2>2 DEF Posted
<1>2. CASE <<p, w>> \notin wallet.posted
  <2>1. /\ wallet'.spendable = wallet.spendable + spend
        /\ wallet'.locked = wallet.locked + lock
        /\ wallet'.posted = wallet.posted \cup {<<p, w>>}
        /\ wallet' = [spendable |-> wallet'.spendable, locked |-> wallet'.locked,
                      posted |-> wallet'.posted]
    BY <1>2 DEF Post
  <2>3. wallet'.spendable \in Int /\ wallet'.locked \in Int
    <3>1. wallet.spendable \in Int /\ wallet.locked \in Int
      BY <1>0
    <3> QED
      BY <2>1, <3>1
  <2>4. wallet'.posted \in SUBSET (Postings \X Withdrawals)
    BY <1>0, <2>1
  <2>5. /\ Moved(p)' = Moved(p) + Amount[w]
        /\ \A q \in Postings \ {p} : Moved(q)' = Moved(q)
        /\ \A q \in Postings : Moved(q) \in Int /\ IsFiniteSet(PostedUnder(q)')
    BY <1>2, <2>1, PostingMoves
  <2>6. SumsMatch'
    <3>1. /\ wallet.locked = Moved("wd-lock") - Moved("wd-complete") - Moved("wd-release")
          /\ wallet.spendable = Funds - Moved("wd-lock") + Moved("wd-release")
      BY DEF IInv, MoneyOK, SumsMatch
    <3>2. /\ Moved("wd-lock") \in Int /\ Moved("wd-complete") \in Int /\ Moved("wd-release") \in Int
          /\ Funds \in Int /\ Amount[w] \in Int
      BY <2>5, WithdrawalsAssumption DEF Postings
    <3>3. CASE p = "wd-lock" /\ lock = Amount[w] /\ spend = - Amount[w]
      <4>1. /\ Moved("wd-lock")' = Moved("wd-lock") + Amount[w]
            /\ Moved("wd-complete")' = Moved("wd-complete")
            /\ Moved("wd-release")' = Moved("wd-release")
        BY <2>5, <3>3 DEF Postings
      <4> QED
        BY <2>1, <3>1, <3>2, <3>3, <4>1 DEF SumsMatch
    <3>4. CASE p = "wd-complete" /\ lock = - Amount[w] /\ spend = 0
      <4>1. /\ Moved("wd-lock")' = Moved("wd-lock")
            /\ Moved("wd-complete")' = Moved("wd-complete") + Amount[w]
            /\ Moved("wd-release")' = Moved("wd-release")
        BY <2>5, <3>4 DEF Postings
      <4> QED
        BY <2>1, <3>1, <3>2, <3>4, <4>1 DEF SumsMatch
    <3>5. CASE p = "wd-release" /\ lock = - Amount[w] /\ spend = Amount[w]
      <4>1. /\ Moved("wd-lock")' = Moved("wd-lock")
            /\ Moved("wd-complete")' = Moved("wd-complete")
            /\ Moved("wd-release")' = Moved("wd-release") + Amount[w]
        BY <2>5, <3>5 DEF Postings
      <4> QED
        BY <2>1, <3>1, <3>2, <3>5, <4>1 DEF SumsMatch
    <3> QED
      BY <3>3, <3>4, <3>5
  <2>7. MoneyOK'
    BY <2>5, <2>6 DEF MoneyOK
  <2> QED
    BY <2>1, <2>3, <2>4, <2>7 DEF Posted
<1> QED
  BY <1>1, <1>2

-----------------------------------------------------------------------------
LEMMA InitEstablishes == Init => IInv
<1> SUFFICES ASSUME Init PROVE IInv
  OBVIOUS
<1>1. NoJob \in Jobs /\ NoJob.state = "none"
  BY JobQueueAssumption DEF NoJob, Jobs
<1>0. Funds \in Int /\ 0 \in Int /\ 0 \in 0..MaxFaults
  BY WithdrawalsAssumption
<1>2. TypeOK
  BY <1>0, <1>1 DEF Init, TypeOK, WithdrawalStatuses, SettlementStatuses
<1>3. \A h \in Handlers : call[h].at = "idle"
  BY DEF Init, Idle
<1>4. (\A h \in Handlers : Fits(h)) /\ OneScheduler
  BY <1>3 DEF Fits, OneScheduler, Scheduling
<1>5. \A w \in Withdrawals : JobOK(w) /\ StatusOK(w) /\ SettlementOK(w) /\ FaultFree(w)
  BY <1>1 DEF Init, JobOK, StatusOK, SettlementOK, FaultFree, Attended
<1>6. MoneyOK
  <2>1. \A p : PostedUnder(p) = {}
    BY DEF Init, PostedUnder, Posted
  <2>2. \A p : IsFiniteSet(PostedUnder(p)) /\ Moved(p) = 0
    BY <2>1, FS_EmptySet, MovedIsSum, SumEmpty
  <2> QED
    BY <2>2, WithdrawalsAssumption DEF Init, MoneyOK, SumsMatch
<1> QED
  BY <1>2, <1>4, <1>5, <1>6 DEF IInv

-----------------------------------------------------------------------------
(* How a call goes on and how it ends *)

(* A call at a step is one of Calls.                                       *)
LEMMA Caller ==
  ASSUME IInv, NEW h \in Handlers, call[h] # Idle \/ call[h].at \in Steps
  PROVE  /\ call[h] # Idle /\ call[h] \in Calls /\ Fits(h)
         /\ call[h].w \in Withdrawals /\ call[h].kind \in Kinds /\ call[h].at \in Steps
         /\ call[h].seen \in WithdrawalStatuses
<1>1. Idle.at \notin Steps
  BY DEF Idle, Steps
<1>2. call[h] # Idle
  BY <1>1
<1> QED
  BY <1>2 DEF IInv, TypeOK, Calls

Others(h) == \A g \in Handlers : g # h => call'[g] = call[g]

(* What a call at its next step looks like; what an ended call leaves.     *)
Going(h, step) ==
  /\ call' \in [Handlers -> Calls \cup {Idle}] /\ Others(h)
  /\ call'[h] # Idle /\ call'[h].at = step
  /\ call'[h].w = call[h].w /\ call'[h].kind = call[h].kind

Ending(h) ==
  /\ call' \in [Handlers -> Calls \cup {Idle}] /\ Others(h)
  /\ call'[h] = Idle

LEMMA GoesOn ==
  ASSUME IInv, NEW h \in Handlers, call[h] \in Calls, NEW step \in Steps,
         Goto(h, step) \/ \E s \in WithdrawalStatuses : GotoSeen(h, step, s)
  PROVE  Going(h, step)
<1>1. call'[h].at \in Steps
  BY DEF IInv, TypeOK, Goto, GotoSeen, Calls
<1>2. call'[h] # Idle
  BY <1>1 DEF Idle, Steps
<1> QED
  BY <1>2 DEF IInv, TypeOK, Goto, GotoSeen, Calls, Going, Others

(* A job its worker reports on is not active any more.                     *)
JobOver(h) ==
  /\ job' \in [Withdrawals -> Jobs]
  /\ \A w \in Withdrawals :
       \/ job'[w] = job[w] /\ ~ (HeldBy(job[w], h) /\ call[h].kind = "job" /\ call[h].w = w)
       \/ /\ job[w].state = "active"
          /\ job'[w].state \in {"none", "waiting", "failed"}
          /\ job'[w].state = "waiting" => job'[w].made < Attempts

LEMMA JobReports ==
  ASSUME IInv, NEW w \in Withdrawals, NEW h \in Handlers, HeldBy(job[w], h),
         NEW j, j = Complete(job[w], h) \/ j = Retry(job[w], h)
  PROVE  /\ j \in Jobs
         /\ j.state \in {"none", "waiting", "failed"}
         /\ j.state = "waiting" => j.made < Attempts
<1>1. /\ job[w] \in Jobs /\ job[w].made \in Nat /\ job[w].made < Attempts
      /\ job[w].stalls \in 0..1
  BY JobQueueAssumption DEF IInv, TypeOK, Jobs, JobOK, HeldBy
<1>2. CASE j = Complete(job[w], h)
  BY <1>1, <1>2, JobQueueAssumption DEF Complete, NoJob, Jobs
<1>3. CASE j = Retry(job[w], h)
  <2>1. /\ j.made = job[w].made + 1 /\ j.stalls = job[w].stalls /\ j.worker = Nobody
        /\ j.state = IF job[w].made + 1 < Attempts THEN "waiting" ELSE "failed"
        /\ j = [state |-> j.state, made |-> j.made, stalls |-> j.stalls, worker |-> j.worker]
    BY <1>1, <1>3 DEF Retry, Jobs
  <2>2. j.made \in 0..Attempts
    BY <1>1, <2>1, JobQueueAssumption
  <2> QED
    BY <1>1, <2>1, <2>2 DEF Jobs
<1> QED
  BY <1>2, <1>3

LEMMA EndOfCall ==
  ASSUME IInv, NEW h \in Handlers, call[h] \in Calls, Return(h) \/ Throw(h)
  PROVE  Ending(h) /\ JobOver(h)
<1> DEFINE v == call[h].w
<1>1. v \in Withdrawals
  BY DEF Calls
<1>2. Ending(h)
  BY DEF IInv, TypeOK, Return, Throw, Ending, Others
<1>3. PICK j : /\ job' = [job EXCEPT ![v] = j]
               /\ IF call[h].kind = "job"
                  THEN j = Complete(job[v], h) \/ j = Retry(job[v], h)
                  ELSE j = job[v]
  BY DEF Return, Throw
<1>4. job \in [Withdrawals -> Jobs]
  BY DEF IInv, TypeOK
<1>5. CASE HeldBy(job[v], h) /\ call[h].kind = "job"
  <2>1. /\ j \in Jobs /\ j.state \in {"none", "waiting", "failed"}
        /\ j.state = "waiting" => j.made < Attempts
    BY <1>1, <1>3, <1>5, JobReports
  <2> HIDE DEF v
  <2>2. job' \in [Withdrawals -> Jobs] /\ \A w \in Withdrawals : job'[w] = IF w = v THEN j ELSE job[w]
    BY <1>3, <1>4, <2>1
  <2>3. job[v].state = "active"
    BY <1>5 DEF HeldBy
  <2> QED
    BY <1>2, <2>1, <2>2, <2>3 DEF JobOver, v
<1>6. CASE ~ (HeldBy(job[v], h) /\ call[h].kind = "job")
  <2>1. j = job[v]
    BY <1>3, <1>6 DEF Complete, Retry
  <2>2. job' = job
    BY <1>3, <1>4, <2>1
  <2> QED
    BY <1>2, <1>4, <1>6, <2>2 DEF JobOver
<1> QED
  BY <1>5, <1>6

-----------------------------------------------------------------------------
(* A step of h keeps the invariant if it takes no posting back, no         *)
(* settlement away and no job from under a scheduler, and h fits.          *)
LEMMA Together ==
  ASSUME IInv, NEW h \in Handlers, TypeOK', Others(h), Fits(h)',
         call'[h].at \in Scheduling =>
           \/ call[h].at \in Scheduling /\ call'[h].w = call[h].w
           \/ call'[h].w \in Withdrawals /\ settlement[call'[h].w] = "none",
         \A p \in Postings, w \in Withdrawals : Posted(p, w) => Posted(p, w)',
         \A w \in Withdrawals : settlement[w] # "none" => settlement'[w] # "none",
         \A w \in Withdrawals : job[w].state = "none" =>
           job'[w].state = "none" \/ (call[h].at \in Scheduling /\ call[h].w = w),
         \A w \in Withdrawals : JobOK(w)' /\ StatusOK(w)' /\ SettlementOK(w)',
         faults' = 0 => \A w \in Withdrawals : FaultFree(w)',
         MoneyOK'
  PROVE  IInv'
<1>1. ASSUME NEW g \in Handlers, call[g].at \in Scheduling
      PROVE  /\ call[g].w \in Withdrawals /\ settlement[call[g].w] # "none"
             /\ job[call[g].w].state = "none"
  <2>1. call[g].at \in Steps
    BY <1>1 DEF Scheduling, Steps
  <2> QED
    BY <1>1, <2>1, Caller DEF Fits
<1>2. ASSUME NEW g \in Handlers PROVE Fits(g)'
  <2>1. CASE g = h
    BY <2>1
  <2>2. CASE g # h
    <3>1. call'[g] = call[g] /\ Fits(g)
      BY <2>2 DEF Others, IInv
    <3>2. CASE call[g].at \notin Steps
      BY <3>1, <3>2 DEF Fits, Steps, Scheduling
    <3>3. CASE call[g].at \in Steps
      <4>1. call[g].w \in Withdrawals
        BY <3>3, Caller
      <4>2. call[g].at \in {"saveCompleted", "markCompleted", "audit"} => Paid(call[g].w)'
        BY <3>1, <4>1 DEF Fits, Paid, Postings
      <4>3. call[g].at = "saveRejected" => Released(call[g].w)'
        BY <3>1, <4>1 DEF Fits, Released, Postings
      <4>4. call[g].at \in Scheduling =>
              job'[call[g].w].state = "none" /\ settlement'[call[g].w] # "none"
        BY <1>1, <2>2 DEF IInv, OneScheduler
      <4> QED
        BY <3>1, <4>2, <4>3, <4>4 DEF Fits, Paid, Released, Posted
    <3> QED
      BY <3>2, <3>3
  <2> QED
    BY <2>1, <2>2
<1>3. OneScheduler'
  <2>1. \A g \in Handlers : g # h => call'[g] = call[g]
    BY DEF Others
  <2>2. ASSUME NEW g \in Handlers, g # h, call[g].at \in Scheduling,
               call'[h].at \in Scheduling, call[g].w = call'[h].w
        PROVE  FALSE
    <3>1. CASE call[h].at \in Scheduling /\ call'[h].w = call[h].w
      BY <2>2, <3>1 DEF IInv, OneScheduler
    <3>2. CASE settlement[call'[h].w] = "none"
      BY <1>1, <2>2, <3>2
    <3> QED
      BY <2>2, <3>1, <3>2
  <2>3. OneScheduler
    BY DEF IInv
  <2> QED
    BY <2>1, <2>2, <2>3 DEF OneScheduler
<1> QED
  BY <1>2, <1>3 DEF IInv

(* Without faults: a job that is still active has a worker that still runs *)
(* it, and who carried a withdrawal on still does.                         *)
LEMMA StaysAttended ==
  ASSUME IInv, NEW h \in Handlers, Others(h), NEW w \in Withdrawals, Attended(w),
         \/ /\ job'[w] = job[w]
            /\ call'[h] # Idle /\ call'[h].w = call[h].w /\ call'[h].kind = call[h].kind
         \/ JobOver(h)
  PROVE  Attended(w)'
<1> SUFFICES ASSUME job'[w].state = "active"
             PROVE  \E g \in Handlers : job'[w].worker = g /\ Runs(g, w)'
  BY DEF Attended
<1>1. job'[w] = job[w]
  BY DEF JobOver
<1>2. PICK g \in Handlers : job[w].worker = g /\ Runs(g, w)
  BY <1>1 DEF Attended
<1>3. CASE g = h
  <2>1. HeldBy(job[w], h) /\ call[h].kind = "job" /\ call[h].w = w
    BY <1>1, <1>2, <1>3 DEF HeldBy, Runs
  <2>2. call'[h] # Idle /\ call'[h].w = call[h].w /\ call'[h].kind = call[h].kind
    BY <1>1, <2>1 DEF JobOver
  <2> QED
    BY <1>1, <1>2, <1>3, <2>1, <2>2 DEF Runs
<1>4. CASE g # h
  BY <1>1, <1>2, <1>4 DEF Runs, Others
<1> QED
  BY <1>3, <1>4

LEMMA StaysCarried ==
  ASSUME IInv, NEW h \in Handlers, Others(h), NEW w \in Withdrawals, Carried(w),
         job[w].state = "waiting" => job'[w].state = "waiting",
         call[h].at \in Carrying /\ call[h].w = w =>
           call'[h].at \in Carrying /\ call'[h].w = w
  PROVE  Carried(w)'
<1>1. CASE job[w].state = "waiting"
  BY <1>1 DEF Carried
<1>2. ASSUME NEW g \in Handlers, call[g].at \in Carrying, call[g].w = w PROVE Carried(w)'
  <2>1. call'[g].at \in Carrying /\ call'[g].w = w
    BY <1>2 DEF Others
  <2> QED
    BY <2>1 DEF Carried
<1> QED
  BY <1>1, <1>2 DEF Carried

(* A call that goes on, or ends, and has written at most the status of its *)
(* withdrawal, truthfully.                                                 *)
LEMMA GoQuietly ==
  ASSUME IInv, NEW h \in Handlers, call[h] \in Calls, NEW step \in Steps, Going(h, step),
         step \in {"saveCompleted", "markCompleted", "audit"} => Paid(call[h].w),
         step = "saveRejected" => Released(call[h].w),
         step # "saveApproved",
         step \in Scheduling => call[h].at \in Scheduling,
         step = "createSettlement" => call[h].kind = "approve",
         call[h].at \in Carrying => step \in Carrying \/ Paid(call[h].w),
         withdrawal' \in [Withdrawals -> WithdrawalStatuses],
         \A w \in Withdrawals : StatusOK(w)',
         UNCHANGED <<redis, settlement, job, wallet, faults>>
  PROVE  IInv'
<1>1. TypeOK'
  BY DEF IInv, TypeOK, Going
<1>2. Others(h) /\ call'[h].at = step /\ call'[h].w = call[h].w /\ call'[h].kind = call[h].kind
  BY DEF Going
<1>3. Fits(h)'
  <2>1. Fits(h)
    BY DEF IInv
  <2>2. step \in Scheduling \cup {"saveApproved", "createSettlement"} => call[h].kind = "approve"
    BY <2>1 DEF Fits
  <2> QED
    BY <1>2, <2>1, <2>2 DEF Fits, Paid, Released, Posted, Scheduling
<1>4. \A p, w : Posted(p, w)' = Posted(p, w)
  BY DEF Posted
<1>5. \A w \in Withdrawals : JobOK(w)' /\ SettlementOK(w)'
  BY <1>4 DEF IInv, JobOK, SettlementOK, Paid
<1>6. ASSUME faults' = 0, NEW w \in Withdrawals PROVE FaultFree(w)'
  <2>1. FaultFree(w)
    BY <1>6 DEF IInv
  <2>2. Attended(w)'
    BY <2>1, StaysAttended DEF Going, FaultFree
  <2>3. Carried(w) => Carried(w)' \/ Paid(w)
    BY <1>2, StaysCarried
  <2> QED
    BY <1>4, <2>1, <2>2, <2>3 DEF FaultFree, Paid
<1>7. MoneyOK'
  BY SameMoney DEF IInv
<1> QED
  BY <1>1, <1>2, <1>3, <1>4, <1>5, <1>6, <1>7, Together

LEMMA EndQuietly ==
  ASSUME IInv, NEW h \in Handlers, call[h] \in Calls, Ending(h),
         \/ JobOver(h) /\ (faults' = 0 => faults = 0 /\ call[h].at \notin Carrying)
         \/ UNCHANGED job /\ faults' # 0,
         faults' \in 0..MaxFaults,
         withdrawal' \in [Withdrawals -> WithdrawalStatuses],
         \A w \in Withdrawals : StatusOK(w)',
         UNCHANGED <<redis, settlement, wallet>>
  PROVE  IInv'
<1>1. TypeOK'
  BY DEF IInv, TypeOK, Ending, JobOver
<1>2. Others(h) /\ call'[h].at = "idle"
  BY DEF Ending, Idle
<1>3. Fits(h)'
  BY <1>2 DEF Fits, Scheduling
<1>4. \A p, w : Posted(p, w)' = Posted(p, w)
  BY DEF Posted
<1>5. \A w \in Withdrawals : job[w].state = "none" => job'[w].state = "none"
  BY DEF JobOver
<1>6. \A w \in Withdrawals : JobOK(w)' /\ SettlementOK(w)'
  <2>1. \A w \in Withdrawals : JobOK(w) /\ SettlementOK(w)
    BY DEF IInv
  <2>2. ASSUME NEW w \in Withdrawals PROVE JobOK(w)'
    BY <1>5, <2>1 DEF JobOK, JobOver
  <2> QED
    BY <1>4, <2>1, <2>2 DEF SettlementOK, Paid
<1>7. ASSUME faults' = 0, NEW w \in Withdrawals PROVE FaultFree(w)'
  <2>1. FaultFree(w) /\ JobOver(h) /\ call[h].at \notin Carrying
    BY <1>7 DEF IInv
  <2>2. Attended(w)'
    BY <1>2, <2>1, StaysAttended DEF FaultFree
  <2>3. Carried(w) => Carried(w)'
    BY <1>2, <2>1, StaysCarried DEF JobOver
  <2> QED
    BY <1>4, <2>1, <2>2, <2>3 DEF FaultFree, Paid
<1>8. MoneyOK'
  BY SameMoney DEF IInv
<1> QED
  BY <1>1, <1>2, <1>3, <1>4, <1>5, <1>6, <1>7, <1>8, Together DEF Scheduling

-----------------------------------------------------------------------------
(* The steps *)

LEMMA SameStatuses ==
  ASSUME IInv, UNCHANGED <<withdrawal, wallet>>
  PROVE  /\ withdrawal' \in [Withdrawals -> WithdrawalStatuses]
         /\ \A w \in Withdrawals : StatusOK(w)'
BY DEF IInv, TypeOK, StatusOK, Paid, Released, Posted

LEMMA SavedStatuses ==
  ASSUME IInv, NEW h \in Handlers, call[h] \in Calls, NEW s \in WithdrawalStatuses,
         \/ Save(h, s)
         \/ withdrawal' = [withdrawal EXCEPT ![call[h].w] = s],
         s = "COMPLETED" => Paid(call[h].w),
         s = "REJECTED" => Released(call[h].w),
         UNCHANGED wallet
  PROVE  /\ withdrawal' \in [Withdrawals -> WithdrawalStatuses]
         /\ \A w \in Withdrawals : StatusOK(w)'
<1> DEFINE v == call[h].w
<1>1. v \in Withdrawals /\ withdrawal \in [Withdrawals -> WithdrawalStatuses]
  BY DEF Calls, IInv, TypeOK
<1>2. PICK t : withdrawal' = [withdrawal EXCEPT ![v] = t] /\ t \in {s, withdrawal[v]}
  BY DEF Save
<1>3. /\ withdrawal' \in [Withdrawals -> WithdrawalStatuses]
      /\ \A w \in Withdrawals : withdrawal'[w] = IF w = v THEN t ELSE withdrawal[w]
  BY <1>1, <1>2
<1>4. \A p, w : Posted(p, w)' = Posted(p, w)
  BY DEF Posted
<1>5. \A w \in Withdrawals : StatusOK(w)
  BY DEF IInv
<1> QED
  BY <1>1, <1>2, <1>3, <1>4, <1>5 DEF StatusOK, Paid, Released

(* A review or a request begins.                                           *)
LEMMA StartKeeps ==
  ASSUME IInv, NEW h \in Handlers, NEW w \in Withdrawals, NEW kind \in Kinds, NEW step \in Steps,
         Start(h, w, kind, step),
         \/ step \in {"risk", "release"}
         \/ step = "saveApproved" /\ kind = "approve",
         UNCHANGED <<redis, withdrawal, settlement, job, wallet, faults>>
  PROVE  IInv'
<1>1. /\ call' \in [Handlers -> Calls \cup {Idle}] /\ Others(h)
      /\ call'[h].at = step /\ call'[h].w = w /\ call'[h].kind = kind
  BY DEF IInv, TypeOK, Start, Calls, Others
<1>2. call[h] = Idle /\ call[h].at = "idle"
  BY DEF Start, Idle
<1>3. TypeOK'
  BY <1>1 DEF IInv, TypeOK
<1>4. Fits(h)'
  BY <1>1 DEF Fits, Scheduling
<1>5. \A p, v : Posted(p, v)' = Posted(p, v)
  BY DEF Posted
<1>6. \A v \in Withdrawals : JobOK(v)' /\ StatusOK(v)' /\ SettlementOK(v)'
  BY <1>5 DEF IInv, JobOK, StatusOK, SettlementOK, Paid, Released
<1>7. ASSUME faults' = 0, NEW v \in Withdrawals PROVE FaultFree(v)'
  <2>1. FaultFree(v)
    BY <1>7 DEF IInv
  <2>2. ~ Runs(h, v)
    BY <1>2 DEF Runs
  <2>3. Attended(v)'
    BY <1>1, <2>1, <2>2 DEF FaultFree, Attended, Runs, Others
  <2>4. Carried(v) => Carried(v)'
    BY <1>1, <1>2, StaysCarried DEF Carrying, Scheduling
  <2> QED
    BY <1>5, <2>1, <2>3, <2>4 DEF FaultFree, Paid
<1>8. MoneyOK'
  BY SameMoney DEF IInv
<1> QED
  BY <1>1, <1>3, <1>4, <1>5, <1>6, <1>7, <1>8, Together DEF Scheduling

(* The settlement document gets a status.                                  *)
LEMMA SettlementKeeps ==
  ASSUME IInv, NEW h \in Handlers, call[h] \in Calls, NEW step \in Steps, Going(h, step),
         NEW v \in Withdrawals, v = call[h].w, NEW s \in SettlementStatuses \ {"none"},
         settlement' = [settlement EXCEPT ![v] = s],
         s = "COMPLETED" => Paid(v),
         \/ step \in {"saveProcessing"}
         \/ step = "audit" /\ Paid(v)
         \/ step = "saveFailed" /\ s = "FAILED"
         \/ /\ step = "saveSettlementId" /\ settlement[v] = "none"
            /\ call[h].at = "createSettlement",
         UNCHANGED <<redis, withdrawal, job, wallet, faults>>
  PROVE  IInv'
<1>1. /\ settlement \in [Withdrawals -> SettlementStatuses]
      /\ settlement' \in [Withdrawals -> SettlementStatuses]
      /\ \A w \in Withdrawals : settlement'[w] = IF w = v THEN s ELSE settlement[w]
  BY DEF IInv, TypeOK
<1>2. TypeOK'
  BY <1>1 DEF IInv, TypeOK, Going
<1>3. Others(h) /\ call'[h].at = step /\ call'[h].w = v /\ call'[h].kind = call[h].kind
  BY DEF Going
<1>4. Fits(h) /\ JobOK(v)
  BY <1>1 DEF IInv
<1>5. \A p, w : Posted(p, w)' = Posted(p, w)
  BY DEF Posted
<1>6. Fits(h)'
  <2>1. step \in Scheduling =>
          call[h].kind = "approve" /\ job[v].state = "none" /\ settlement'[v] # "none"
    BY <1>1, <1>4 DEF Fits, JobOK, Scheduling
  <2> QED
    BY <1>3, <1>5, <2>1 DEF Fits, Paid, Scheduling
<1>7. ASSUME NEW w \in Withdrawals PROVE JobOK(w)' /\ StatusOK(w)' /\ SettlementOK(w)'
  <2>1. JobOK(w) /\ StatusOK(w) /\ SettlementOK(w)
    BY DEF IInv
  <2> QED
    BY <1>1, <1>5, <2>1 DEF JobOK, StatusOK, SettlementOK, Paid, Released
<1>8. ASSUME faults' = 0, NEW w \in Withdrawals PROVE FaultFree(w)'
  <2>1. FaultFree(w)
    BY <1>8 DEF IInv
  <2>2. Attended(w)'
    BY <2>1, StaysAttended DEF Going, FaultFree
  <2>3. CASE w = v
    <3>1. step \in Carrying => Carried(v)'
      BY <1>3 DEF Carried
    <3>2. step \in Carrying \/ Paid(v)' \/ settlement'[v] = "FAILED"
      <4>1. Paid(v)' <=> Paid(v)
        BY <1>5 DEF Paid
      <4> QED
        BY <1>1, <4>1 DEF Carrying, Scheduling
    <3> QED
      BY <2>2, <2>3, <3>1, <3>2 DEF FaultFree
  <2>4. CASE w # v
    <3>1. Carried(w) => Carried(w)'
      BY <1>3, <2>4, StaysCarried
    <3> QED
      BY <1>1, <1>5, <2>1, <2>2, <2>4, <3>1 DEF FaultFree, Paid
  <2> QED
    BY <2>3, <2>4
<1>9. MoneyOK'
  BY SameMoney DEF IInv
<1>10. step \in Scheduling => settlement[v] = "none"
  BY DEF Scheduling
<1>11. \A w \in Withdrawals : settlement[w] # "none" => settlement'[w] # "none"
  BY <1>1
<1> QED
  BY <1>1, <1>2, <1>3, <1>5, <1>6, <1>7, <1>8, <1>9, <1>10, <1>11, Together

(* A posting, after which the call goes on.                                *)
LEMMA PostKeeps ==
  ASSUME IInv, NEW h \in Handlers, call[h] \in Calls, NEW step \in Steps, Going(h, step),
         NEW v \in Withdrawals, v = call[h].w,
         NEW p \in Postings, NEW lock \in Int, NEW spend \in Int,
         \/ p = "wd-lock" /\ lock = Amount[v] /\ spend = - Amount[v]
         \/ p = "wd-complete" /\ lock = - Amount[v] /\ spend = 0
         \/ p = "wd-release" /\ lock = - Amount[v] /\ spend = Amount[v],
         Post(<<p, v>>, lock, spend),
         \/ step = "saveLock" /\ call[h].at = "commitLock"
         \/ step = "saveCompleted" /\ p = "wd-complete"
         \/ step = "saveRejected" /\ p = "wd-release" /\ call[h].at = "commitRelease",
         UNCHANGED <<redis, withdrawal, settlement, job, faults>>
  PROVE  IInv'
<1>2. /\ wallet' \in [spendable : Int, locked : Int, posted : SUBSET (Postings \X Withdrawals)]
      /\ MoneyOK'
      /\ Posted(p, v)'
      /\ \A q \in Postings, w \in Withdrawals : Posted(q, w) => Posted(q, w)'
  BY PostKeepsMoney
<1>3. \A w \in Withdrawals : (Paid(w) => Paid(w)') /\ (Released(w) => Released(w)')
  BY <1>2 DEF Paid, Released, Postings
<1>4. TypeOK'
  BY <1>2 DEF IInv, TypeOK, Going
<1>5. Others(h) /\ call'[h].at = step /\ call'[h].w = v /\ call'[h].kind = call[h].kind
  BY DEF Going
<1>6. (step = "saveCompleted" => Paid(v)') /\ (step = "saveRejected" => Released(v)')
  BY <1>2 DEF Paid, Released
<1>7. Fits(h)'
  BY <1>5, <1>6 DEF Fits, Paid, Released, Posted, Scheduling
<1>8. ASSUME NEW w \in Withdrawals PROVE JobOK(w)' /\ StatusOK(w)' /\ SettlementOK(w)'
  <2>1. JobOK(w) /\ StatusOK(w) /\ SettlementOK(w)
    BY DEF IInv
  <2> QED
    BY <1>3, <2>1 DEF JobOK, StatusOK, SettlementOK
<1>9. ASSUME faults' = 0, NEW w \in Withdrawals PROVE FaultFree(w)'
  <2>1. FaultFree(w)
    BY <1>9 DEF IInv
  <2>2. Attended(w)'
    BY <2>1, StaysAttended DEF Going, FaultFree
  <2>3. Carried(w) => Carried(w)' \/ Paid(w)'
    <3>1. CASE w = v /\ step = "saveCompleted"
      BY <1>6, <3>1
    <3>2. CASE ~ (w = v /\ step = "saveCompleted")
      <4>1. call[h].at \in Carrying /\ call[h].w = w =>
              call'[h].at \in Carrying /\ call'[h].w = w
        BY <1>5, <3>2 DEF Carrying, Scheduling
      <4> QED
        BY <1>5, <4>1, StaysCarried
    <3> QED
      BY <3>1, <3>2
  <2> QED
    BY <1>3, <2>1, <2>2, <2>3 DEF FaultFree
<1> QED
  BY <1>2, <1>4, <1>5, <1>7, <1>8, <1>9, Together DEF Scheduling

(* The job is added once, by the one approval that schedules it.           *)
LEMMA AddJobKeeps ==
  ASSUME IInv, NEW h \in Handlers, AddJob(h)
  PROVE  IInv'
<1>1. call[h].at = "add" /\ call[h].at \in Scheduling
  BY DEF AddJob, At, Scheduling
<1>2. PICK v \in Withdrawals : v = call[h].w
  BY <1>1, Caller DEF Steps
<1>3. Fits(h) /\ call[h].kind = "approve" /\ job[v].state = "none" /\ settlement[v] # "none"
  BY <1>1, <1>2 DEF IInv, Fits
<1>4. job \in [Withdrawals -> Jobs]
  BY DEF IInv, TypeOK
<1>5. PICK j : j = [NoJob EXCEPT !.state = "waiting"]
  OBVIOUS
<1>6. j \in Jobs /\ j.state = "waiting" /\ j.made = 0
  BY <1>5, JobQueueAssumption DEF NoJob, Jobs
<1>7. /\ job' \in [Withdrawals -> Jobs]
      /\ \A w \in Withdrawals : job'[w] = IF w = v THEN j ELSE job[w]
  <2>1. job' = [job EXCEPT ![v] = j]
    BY <1>2, <1>3, <1>5 DEF AddJob, Add
  <2> QED
    BY <1>4, <1>6, <2>1
<1>8. Ending(h) /\ Others(h) /\ call'[h].at = "idle"
  BY DEF IInv, TypeOK, AddJob, Ending, Others, Idle
<1>9. UNCHANGED <<redis, withdrawal, settlement, wallet, faults>>
  BY DEF AddJob
<1>10. TypeOK'
  BY <1>7, <1>8, <1>9 DEF IInv, TypeOK, Ending
<1>11. Fits(h)'
  BY <1>8 DEF Fits, Scheduling
<1>12. \A p, w : Posted(p, w)' = Posted(p, w)
  BY <1>9 DEF Posted
<1>13. ASSUME NEW w \in Withdrawals PROVE JobOK(w)' /\ StatusOK(w)' /\ SettlementOK(w)'
  <2>1. JobOK(w) /\ StatusOK(w) /\ SettlementOK(w)
    BY DEF IInv
  <2>2. JobOK(w)'
    BY <1>3, <1>6, <1>7, <1>9, <2>1, JobQueueAssumption DEF JobOK
  <2> QED
    BY <1>9, <1>12, <2>1, <2>2 DEF StatusOK, SettlementOK, Paid, Released
<1>14. ASSUME faults' = 0, NEW w \in Withdrawals PROVE FaultFree(w)'
  <2>1. FaultFree(w)
    BY <1>9, <1>14 DEF IInv
  <2>2. CASE w = v
    BY <1>6, <1>7, <2>2 DEF FaultFree, Attended, Carried
  <2>3. CASE w # v
    <3>1. Attended(w)'
      <4>1. ~ Runs(h, w)
        BY <1>3 DEF Runs
      <4> QED
        BY <1>7, <1>8, <2>1, <2>3, <4>1 DEF FaultFree, Attended, Runs, Others
    <3>2. Carried(w) => Carried(w)'
      BY <1>2, <1>7, <1>8, <2>3, StaysCarried
    <3> QED
      BY <1>9, <1>12, <2>1, <3>1, <3>2 DEF FaultFree, Paid
  <2> QED
    BY <2>2, <2>3
<1>15. MoneyOK'
  BY <1>9, SameMoney DEF IInv
<1>16. call'[h].at \notin Scheduling
  BY <1>8 DEF Scheduling
<1>17. \A w \in Withdrawals : job[w].state = "none" =>
         job'[w].state = "none" \/ (call[h].at \in Scheduling /\ call[h].w = w)
  BY <1>1, <1>2, <1>7
<1> QED
  BY <1>8, <1>9, <1>10, <1>11, <1>12, <1>13, <1>14, <1>15, <1>16, <1>17, Together

(* A worker that takes a job carries its withdrawal on.                    *)
LEMMA TakeJobKeeps ==
  ASSUME IInv, NEW h \in Handlers, NEW v \in Withdrawals, TakeJob(h, v)
  PROVE  IInv'
<1>1. /\ job[v] \in Jobs /\ job[v].state = "waiting" /\ JobOK(v)
      /\ job \in [Withdrawals -> Jobs]
  BY DEF IInv, TypeOK, TakeJob
<1>2. PICK j : j = Take(job[v], h)
  OBVIOUS
<1>3. /\ j.state = "active" /\ j.worker = h /\ j.made = job[v].made
      /\ j \in Jobs
  BY <1>1, <1>2 DEF Take, Jobs
<1>4. /\ job' \in [Withdrawals -> Jobs]
      /\ \A w \in Withdrawals : job'[w] = IF w = v THEN j ELSE job[w]
  <2>1. job' = [job EXCEPT ![v] = j]
    BY <1>2 DEF TakeJob
  <2> QED
    BY <1>1, <1>3, <2>1
<1>5. UNCHANGED <<redis, withdrawal, settlement, wallet, faults>>
  BY DEF TakeJob
<1>6. call[h] = Idle /\ call[h].at = "idle"
  BY DEF TakeJob, Start, Idle
<1>7. /\ call' \in [Handlers -> Calls \cup {Idle}] /\ Others(h)
      /\ call'[h].at = "read" /\ call'[h].w = v /\ call'[h].kind = "job"
  BY DEF IInv, TypeOK, TakeJob, Start, Calls, Kinds, Steps, Others
<1>8. TypeOK'
  BY <1>4, <1>5, <1>7 DEF IInv, TypeOK
<1>9. Fits(h)'
  BY <1>7 DEF Fits, Scheduling
<1>10. \A p, w : Posted(p, w)' = Posted(p, w)
  BY <1>5 DEF Posted
<1>11. ASSUME NEW w \in Withdrawals PROVE JobOK(w)' /\ StatusOK(w)' /\ SettlementOK(w)'
  <2>1. JobOK(w) /\ StatusOK(w) /\ SettlementOK(w)
    BY DEF IInv
  <2>2. JobOK(w)'
    BY <1>1, <1>3, <1>4, <1>5, <2>1 DEF JobOK
  <2> QED
    BY <1>5, <1>10, <2>1, <2>2 DEF StatusOK, SettlementOK, Paid, Released
<1>12. ASSUME faults' = 0, NEW w \in Withdrawals PROVE FaultFree(w)'
  <2>1. FaultFree(w)
    BY <1>5, <1>12 DEF IInv
  <2>2. CASE w = v
    <3>1. call'[h] # Idle
      BY <1>7 DEF Idle
    <3>2. Runs(h, w)'
      BY <1>7, <2>2, <3>1 DEF Runs
    <3>3. Carried(w)'
      BY <1>7, <2>2 DEF Carried, Carrying
    <3> QED
      BY <1>3, <1>4, <2>2, <3>2, <3>3 DEF FaultFree, Attended
  <2>3. CASE w # v
    <3>1. Attended(w)'
      <4>1. ~ Runs(h, w)
        BY <1>6 DEF Runs
      <4> QED
        BY <1>4, <1>7, <2>1, <2>3, <4>1 DEF FaultFree, Attended, Runs, Others
    <3>2. Carried(w) => Carried(w)'
      BY <1>4, <1>6, <1>7, <2>3, StaysCarried DEF Carrying, Scheduling
    <3> QED
      BY <1>5, <1>10, <2>1, <3>1, <3>2 DEF FaultFree, Paid
  <2> QED
    BY <2>2, <2>3
<1>13. MoneyOK'
  BY <1>5, SameMoney DEF IInv
<1>14. call'[h].at \notin Scheduling
  BY <1>7 DEF Scheduling
<1>15. \A w \in Withdrawals : job[w].state = "none" => job'[w].state = "none"
  BY <1>1, <1>4
<1> QED
  BY <1>5, <1>7, <1>8, <1>9, <1>10, <1>11, <1>12, <1>13, <1>14, <1>15, Together

(* A job stalls by a fault, or because an earlier fault took its worker.   *)
LEMMA StallKeeps ==
  ASSUME IInv, NEW v \in Withdrawals, LoseLock(v) \/ Stalled(v)
  PROVE  IInv'
<1>1. /\ job[v] \in Jobs /\ job[v].state = "active" /\ JobOK(v)
      /\ job \in [Withdrawals -> Jobs]
  BY DEF IInv, TypeOK, LoseLock, Stalled
<1>2. UNCHANGED <<redis, withdrawal, settlement, wallet, call>>
  BY DEF LoseLock, Stalled
<1>3. faults' \in 0..MaxFaults /\ faults' # 0
  <2>1. CASE LoseLock(v)
    BY <2>1, WithdrawalsAssumption DEF IInv, TypeOK, LoseLock, Spend
  <2>2. CASE Stalled(v)
    <3>1. faults # 0
      BY <1>1, <2>2 DEF IInv, FaultFree, Attended, Stalled
    <3> QED
      BY <2>2, <3>1 DEF IInv, TypeOK, Stalled
  <2> QED
    BY <2>1, <2>2
<1>4. PICK j : j = Stall(job[v])
  OBVIOUS
<1>5. j \in Jobs /\ j.state \in {"waiting", "failed"} /\ j.made = job[v].made
  <2>1. /\ j.made = job[v].made /\ j.stalls = 1 /\ j.worker = Nobody
        /\ j.state \in {"waiting", "failed"}
        /\ j = [state |-> j.state, made |-> j.made, stalls |-> j.stalls, worker |-> j.worker]
    BY <1>1, <1>4 DEF Stall, Jobs
  <2>2. job[v].made \in 0..Attempts /\ 1 \in 0..1
    BY <1>1 DEF Jobs
  <2> QED
    BY <2>1, <2>2 DEF Jobs
<1>6. /\ job' \in [Withdrawals -> Jobs]
      /\ \A w \in Withdrawals : job'[w] = IF w = v THEN j ELSE job[w]
  <2>1. job' = [job EXCEPT ![v] = j]
    BY <1>4 DEF LoseLock, Stalled
  <2> QED
    BY <1>1, <1>5, <2>1
<1>7. TypeOK'
  BY <1>2, <1>3, <1>6 DEF IInv, TypeOK
<1>8. \A p, w : Posted(p, w)' = Posted(p, w)
  BY <1>2 DEF Posted
<1>9. ASSUME NEW g \in Handlers PROVE Fits(g)'
  <2>1. Fits(g) /\ (call[g].at \in Scheduling => call[g].w \in Withdrawals)
    BY Caller DEF IInv, Scheduling, Steps
  <2> QED
    BY <1>1, <1>2, <1>6, <1>8, <2>1 DEF Fits, Paid, Released
<1>10. OneScheduler'
  BY <1>2 DEF IInv, OneScheduler
<1>11. ASSUME NEW w \in Withdrawals PROVE JobOK(w)' /\ StatusOK(w)' /\ SettlementOK(w)'
  <2>1. JobOK(w) /\ StatusOK(w) /\ SettlementOK(w)
    BY DEF IInv
  <2>2. JobOK(w)'
    BY <1>1, <1>2, <1>5, <1>6, <2>1 DEF JobOK
  <2> QED
    BY <1>2, <1>8, <2>1, <2>2 DEF StatusOK, SettlementOK, Paid, Released
<1>12. MoneyOK'
  BY <1>2, SameMoney DEF IInv
<1> QED
  BY <1>3, <1>7, <1>9, <1>10, <1>11, <1>12 DEF IInv

(* Every step of a call.                                                   *)
LEMMA StepKeeps ==
  ASSUME IInv, NEW h \in Handlers, Step(h)
  PROVE  IInv'
<1>1. call[h].at \in Steps
  BY DEF Step, At, Steps, CheckWithdrawalRequest, FindExisting, CreateWithdrawal, LockFunds,
     CommitLock, SaveLock, SaveApproved, CreateSettlement, SaveSettlementId, AddJob,
     ReleaseLock, CommitRelease, SaveRejected, ReadDocuments, MarkProcessing, SaveProcessing,
     CompleteFromLock, CommitComplete, SaveCompleted, MarkCompleted, RecordCompletion, MarkFailed, SaveFailed
<1>2. call[h] \in Calls /\ Fits(h) /\ faults \in 0..MaxFaults
  BY <1>1, Caller DEF IInv, TypeOK
<1>3. PICK v \in Withdrawals : v = call[h].w
  BY <1>1, Caller
<1>4. Amount[v] \in Int /\ - Amount[v] \in Int
  BY WithdrawalsAssumption
<1>5. CASE CheckWithdrawalRequest(h)
  <2>1. call[h].at \notin Carrying
    BY <1>5 DEF CheckWithdrawalRequest, At, Carrying, Scheduling
  <2>2. CASE Throw(h)
    BY <1>2, <1>5, <2>1, <2>2, EndOfCall, EndQuietly, SameStatuses DEF CheckWithdrawalRequest
  <2>3. CASE Goto(h, "find") /\ UNCHANGED job
    BY <1>2, <1>5, <2>1, <2>3, GoesOn, GoQuietly, SameStatuses
    DEF CheckWithdrawalRequest, Steps, Scheduling
  <2> QED
    BY <1>5, <2>2, <2>3 DEF CheckWithdrawalRequest
<1>6. CASE FindExisting(h)
  <2>1. call[h].at \notin Carrying
    BY <1>6 DEF FindExisting, At, Carrying, Scheduling
  <2>2. CASE Return(h)
    BY <1>2, <1>6, <2>1, <2>2, EndOfCall, EndQuietly, SameStatuses DEF FindExisting
  <2>3. CASE Goto(h, "create") /\ UNCHANGED job
    BY <1>2, <1>6, <2>1, <2>3, GoesOn, GoQuietly, SameStatuses
    DEF FindExisting, Steps, Scheduling
  <2> QED
    BY <1>6, <2>2, <2>3 DEF FindExisting
<1>7. CASE CreateWithdrawal(h)
  <2>1. call[h].at \notin Carrying /\ UNCHANGED <<redis, settlement, wallet, faults>>
    BY <1>7 DEF CreateWithdrawal, At, Carrying, Scheduling
  <2>2. CASE Throw(h) /\ UNCHANGED withdrawal
    BY <1>2, <2>1, <2>2, EndOfCall, EndQuietly, SameStatuses
  <2>3. CASE /\ withdrawal' = [withdrawal EXCEPT ![call[h].w] = "PENDING"]
             /\ GotoSeen(h, "lock", "PENDING")
             /\ UNCHANGED job
    <3>1. /\ withdrawal' \in [Withdrawals -> WithdrawalStatuses]
          /\ \A w \in Withdrawals : StatusOK(w)'
      BY <1>2, <2>1, <2>3, SavedStatuses DEF WithdrawalStatuses
    <3>2. Going(h, "lock")
      BY <1>2, <2>3, GoesOn DEF Steps, WithdrawalStatuses
    <3> QED
      BY <1>2, <2>1, <2>3, <3>1, <3>2, GoQuietly DEF Steps, Scheduling
  <2> QED
    BY <1>7, <2>2, <2>3 DEF CreateWithdrawal
<1>8. CASE LockFunds(h)
  <2>1. call[h].at = "lock" /\ UNCHANGED <<redis, withdrawal, settlement, wallet, faults>>
    BY <1>8 DEF LockFunds, At
  <2>2. CASE Throw(h)
    BY <1>2, <2>1, <2>2, EndOfCall, EndQuietly, SameStatuses DEF Carrying, Scheduling
  <2>3. CASE Goto(h, "commitLock") /\ UNCHANGED job
    <3>1. Going(h, "commitLock")
      BY <1>2, <2>3, GoesOn DEF Steps
    <3> QED
      BY <1>2, <2>1, <2>3, <3>1, GoQuietly, SameStatuses DEF Steps, Carrying, Scheduling
  <2> QED
    BY <1>8, <2>2, <2>3 DEF LockFunds
<1>25. CASE CommitLock(h)
  <2>1. call[h].at = "commitLock" /\ UNCHANGED <<redis, withdrawal, settlement, faults>>
    BY <1>25 DEF CommitLock, At
  <2>2. CASE Throw(h) /\ UNCHANGED wallet
    BY <1>2, <2>1, <2>2, EndOfCall, EndQuietly, SameStatuses DEF Carrying, Scheduling
  <2>3. CASE /\ Post(<<"wd-lock", v>>, Amount[v], -Amount[v])
             /\ Goto(h, "saveLock") /\ UNCHANGED job
    <3>1. Going(h, "saveLock")
      BY <1>2, <2>3, GoesOn DEF Steps
    <3> QED
      BY <1>2, <1>3, <1>4, <2>1, <2>3, <3>1, PostKeeps DEF Steps, Postings
  <2> QED
    BY <1>3, <1>25, <2>2, <2>3 DEF CommitLock
<1>9. CASE SaveLock(h)
  <2>1. call[h].at = "saveLock" /\ Return(h) /\ UNCHANGED <<redis, settlement, wallet, faults>>
    BY <1>9 DEF SaveLock, At
  <2>2. /\ withdrawal' \in [Withdrawals -> WithdrawalStatuses]
        /\ \A w \in Withdrawals : StatusOK(w)'
    BY <1>2, <1>9, <2>1, SavedStatuses DEF SaveLock, WithdrawalStatuses
  <2> QED
    BY <1>2, <2>1, <2>2, EndOfCall, EndQuietly DEF Carrying, Scheduling
<1>10. CASE SaveApproved(h)
  <2>1. /\ call[h].at = "saveApproved" /\ call[h].kind = "approve"
        /\ UNCHANGED <<redis, settlement, job, wallet, faults>>
    BY <1>2, <1>10 DEF SaveApproved, At, Fits
  <2>2. /\ withdrawal' \in [Withdrawals -> WithdrawalStatuses]
        /\ \A w \in Withdrawals : StatusOK(w)'
    BY <1>2, <1>10, <2>1, SavedStatuses DEF SaveApproved, WithdrawalStatuses
  <2>3. Going(h, "createSettlement")
    BY <1>2, <1>10, GoesOn DEF SaveApproved, Steps, WithdrawalStatuses
  <2> QED
    BY <1>2, <2>1, <2>2, <2>3, GoQuietly DEF Steps, Carrying, Scheduling
<1>11. CASE CreateSettlement(h)
  <2>1. call[h].at = "createSettlement" /\ UNCHANGED <<redis, withdrawal, wallet, faults>>
    BY <1>11 DEF CreateSettlement, At
  <2>2. CASE Throw(h) /\ UNCHANGED settlement
    BY <1>2, <2>1, <2>2, EndOfCall, EndQuietly, SameStatuses DEF Carrying, Scheduling
  <2>3. CASE /\ settlement[v] = "none"
             /\ settlement' = [settlement EXCEPT ![v] = "PENDING"]
             /\ Goto(h, "saveSettlementId") /\ UNCHANGED job
    <3>1. Going(h, "saveSettlementId")
      BY <1>2, <2>3, GoesOn DEF Steps
    <3> QED
      BY <1>2, <1>3, <2>1, <2>3, <3>1, SettlementKeeps DEF Steps, SettlementStatuses
  <2> QED
    BY <1>3, <1>11, <2>2, <2>3 DEF CreateSettlement
<1>12. CASE SaveSettlementId(h)
  <2>1. PICK step \in {"add", "read"} : Goto(h, step)
    BY <1>12 DEF SaveSettlementId
  <2>2. Going(h, step)
    BY <1>2, <2>1, GoesOn DEF Steps
  <2>3. call[h].at \in Scheduling /\ step \in Carrying /\ step \in Steps
    BY <1>12 DEF SaveSettlementId, At, Scheduling, Carrying, Steps
  <2> QED
    BY <1>2, <1>12, <2>2, <2>3, GoQuietly, SameStatuses DEF SaveSettlementId
<1>13. CASE AddJob(h)
  BY <1>13, AddJobKeeps
<1>14. CASE ReleaseLock(h)
  <2>1. call[h].at = "release" /\ UNCHANGED <<redis, withdrawal, settlement, wallet, faults>>
    BY <1>14 DEF ReleaseLock, At
  <2>2. CASE Throw(h)
    BY <1>2, <2>1, <2>2, EndOfCall, EndQuietly, SameStatuses DEF Carrying, Scheduling
  <2>3. CASE Goto(h, "commitRelease") /\ UNCHANGED job
    <3>1. Going(h, "commitRelease")
      BY <1>2, <2>3, GoesOn DEF Steps
    <3> QED
      BY <1>2, <2>1, <2>3, <3>1, GoQuietly, SameStatuses DEF Steps, Carrying, Scheduling
  <2>4. CASE Answered(<<"wd-release", v>>) /\ Goto(h, "saveRejected") /\ UNCHANGED job
    <3>1. Going(h, "saveRejected") /\ Released(v)
      BY <1>2, <2>4, GoesOn DEF Steps, Answered, Released, Posted
    <3> QED
      BY <1>2, <1>3, <2>1, <2>4, <3>1, GoQuietly, SameStatuses DEF Steps, Carrying, Scheduling
  <2> QED
    BY <1>3, <1>14, <2>2, <2>3, <2>4 DEF ReleaseLock
<1>26. CASE CommitRelease(h)
  <2>1. call[h].at = "commitRelease" /\ UNCHANGED <<redis, withdrawal, settlement, faults>>
    BY <1>26 DEF CommitRelease, At
  <2>2. CASE Throw(h) /\ UNCHANGED wallet
    BY <1>2, <2>1, <2>2, EndOfCall, EndQuietly, SameStatuses DEF Carrying, Scheduling
  <2>3. CASE /\ Post(<<"wd-release", v>>, -Amount[v], Amount[v])
             /\ Goto(h, "saveRejected") /\ UNCHANGED job
    <3>1. Going(h, "saveRejected")
      BY <1>2, <2>3, GoesOn DEF Steps
    <3> QED
      BY <1>2, <1>3, <1>4, <2>1, <2>3, <3>1, PostKeeps DEF Steps, Postings
  <2> QED
    BY <1>3, <1>26, <2>2, <2>3 DEF CommitRelease
<1>15. CASE SaveRejected(h)
  <2>1. /\ call[h].at = "saveRejected" /\ Return(h) /\ Released(call[h].w)
        /\ UNCHANGED <<redis, settlement, wallet, faults>>
    BY <1>2, <1>15 DEF SaveRejected, At, Fits
  <2>2. /\ withdrawal' \in [Withdrawals -> WithdrawalStatuses]
        /\ \A w \in Withdrawals : StatusOK(w)'
    BY <1>2, <1>15, <2>1, SavedStatuses DEF SaveRejected, WithdrawalStatuses
  <2> QED
    BY <1>2, <2>1, <2>2, EndOfCall, EndQuietly DEF Carrying, Scheduling
<1>16. CASE ReadDocuments(h)
  <2>1. Going(h, "mark")
    <3>1. withdrawal[call[h].w] \in WithdrawalStatuses
      BY <1>3 DEF IInv, TypeOK
    <3> QED
      BY <1>2, <1>16, <3>1, GoesOn DEF ReadDocuments, Steps
  <2> QED
    BY <1>2, <1>16, <2>1, GoQuietly, SameStatuses
    DEF ReadDocuments, Steps, Carrying, Scheduling
<1>17. CASE MarkProcessing(h)
  <2>1. Going(h, "saveProcessing")
    BY <1>2, <1>17, GoesOn DEF MarkProcessing, Steps
  <2> QED
    BY <1>2, <1>3, <1>17, <2>1, SettlementKeeps DEF MarkProcessing, Steps, SettlementStatuses
<1>18. CASE SaveProcessing(h)
  <2>1. call[h].at = "saveProcessing" /\ UNCHANGED <<redis, settlement, job, wallet, faults>>
    BY <1>18 DEF SaveProcessing, At
  <2>2. /\ withdrawal' \in [Withdrawals -> WithdrawalStatuses]
        /\ \A w \in Withdrawals : StatusOK(w)'
    BY <1>2, <1>18, <2>1, SavedStatuses DEF SaveProcessing, WithdrawalStatuses
  <2>3. Going(h, "complete")
    BY <1>2, <1>18, GoesOn DEF SaveProcessing, Steps, WithdrawalStatuses
  <2> QED
    BY <1>2, <2>1, <2>2, <2>3, GoQuietly DEF Steps, Carrying, Scheduling
<1>19. CASE CompleteFromLock(h)
  <2>1. UNCHANGED <<redis, withdrawal, settlement, job, wallet, faults>>
    BY <1>19 DEF CompleteFromLock
  <2>2. PICK step \in {"saveCompleted", "commitComplete", "markFailed"} :
          Goto(h, step) /\ (step = "saveCompleted" => Paid(v))
    BY <1>3, <1>19 DEF CompleteFromLock, Answered, Paid, Posted
  <2>3. Going(h, step)
    BY <1>2, <2>2, GoesOn DEF Steps
  <2> QED
    BY <1>2, <1>3, <2>1, <2>2, <2>3, GoQuietly, SameStatuses DEF Steps, Carrying, Scheduling
<1>27. CASE CommitComplete(h)
  <2>1. UNCHANGED <<redis, withdrawal, settlement, job, faults>>
    BY <1>27 DEF CommitComplete
  <2>2. CASE Goto(h, "markFailed") /\ UNCHANGED wallet
    <3>1. Going(h, "markFailed")
      BY <1>2, <2>2, GoesOn DEF Steps
    <3> QED
      BY <1>2, <2>1, <2>2, <3>1, GoQuietly, SameStatuses DEF Steps, Carrying, Scheduling
  <2>3. CASE Post(<<"wd-complete", v>>, -Amount[v], 0) /\ Goto(h, "saveCompleted")
    <3>1. Going(h, "saveCompleted")
      BY <1>2, <2>3, GoesOn DEF Steps
    <3> QED
      BY <1>2, <1>3, <1>4, <2>1, <2>3, <3>1, PostKeeps DEF Steps, Postings
  <2> QED
    BY <1>3, <1>27, <2>2, <2>3 DEF CommitComplete
<1>20. CASE SaveCompleted(h)
  <2>1. /\ call[h].at = "saveCompleted" /\ Paid(call[h].w)
        /\ UNCHANGED <<redis, settlement, job, wallet, faults>>
    BY <1>2, <1>20 DEF SaveCompleted, At, Fits
  <2>2. /\ withdrawal' \in [Withdrawals -> WithdrawalStatuses]
        /\ \A w \in Withdrawals : StatusOK(w)'
    BY <1>2, <1>20, <2>1, SavedStatuses DEF SaveCompleted, WithdrawalStatuses
  <2>3. Going(h, "markCompleted")
    BY <1>2, <1>20, GoesOn DEF SaveCompleted, Steps, WithdrawalStatuses
  <2> QED
    BY <1>2, <2>1, <2>2, <2>3, GoQuietly DEF Steps, Carrying, Scheduling
<1>21. CASE MarkCompleted(h)
  <2>1. Going(h, "audit")
    BY <1>2, <1>21, GoesOn DEF MarkCompleted, Steps
  <2>2. Paid(v)
    BY <1>2, <1>3, <1>21 DEF MarkCompleted, At, Fits
  <2> QED
    BY <1>2, <1>3, <1>21, <2>1, <2>2, SettlementKeeps
    DEF MarkCompleted, Steps, SettlementStatuses
<1>22. CASE RecordCompletion(h)
  BY <1>2, <1>22, EndOfCall, EndQuietly, SameStatuses
  DEF RecordCompletion, At, Carrying, Scheduling
<1>23. CASE MarkFailed(h)
  <2>1. Going(h, "saveFailed")
    BY <1>2, <1>23, GoesOn DEF MarkFailed, Steps
  <2> QED
    BY <1>2, <1>3, <1>23, <2>1, SettlementKeeps DEF MarkFailed, Steps, SettlementStatuses
<1>24. CASE SaveFailed(h)
  <2>1. call[h].at = "saveFailed" /\ Throw(h) /\ UNCHANGED <<redis, settlement, wallet, faults>>
    BY <1>24 DEF SaveFailed, At
  <2>2. /\ withdrawal' \in [Withdrawals -> WithdrawalStatuses]
        /\ \A w \in Withdrawals : StatusOK(w)'
    BY <1>2, <1>24, <2>1, SavedStatuses DEF SaveFailed, WithdrawalStatuses
  <2> QED
    BY <1>2, <2>1, <2>2, EndOfCall, EndQuietly DEF Carrying, Scheduling
<1> QED
  BY <1>5, <1>6, <1>7, <1>8, <1>9, <1>10, <1>11, <1>12, <1>13, <1>14, <1>15, <1>16,
     <1>17, <1>18, <1>19, <1>20, <1>21, <1>22, <1>23, <1>24, <1>25, <1>26, <1>27 DEF Step

(* A rejected call of the database or of the wallet; the death of a call.  *)
LEMMA FaultKeeps ==
  ASSUME IInv, NEW h \in Handlers, Fault(h) \/ Crash(h)
  PROVE  IInv'
<1>1. call[h] # Idle /\ call[h] \in Calls
  BY Caller DEF Fault, Crash
<1>2. faults' \in 0..MaxFaults /\ faults' # 0
  BY WithdrawalsAssumption DEF IInv, TypeOK, Fault, Crash, Spend
<1>3. UNCHANGED <<redis, withdrawal, settlement, wallet>>
  BY DEF Fault, Crash
<1>4. /\ withdrawal' \in [Withdrawals -> WithdrawalStatuses]
      /\ \A w \in Withdrawals : StatusOK(w)'
  BY <1>3, SameStatuses
<1>5. CASE Throw(h)
  BY <1>1, <1>2, <1>3, <1>4, <1>5, EndOfCall, EndQuietly
<1>6. CASE Crash(h)
  <2>1. Ending(h) /\ UNCHANGED job
    BY <1>6 DEF IInv, TypeOK, Crash, Ending, Others
  <2> QED
    BY <1>1, <1>2, <1>3, <1>4, <2>1, EndQuietly
<1>7. CASE Goto(h, "markFailed") /\ UNCHANGED job
  <2>1. Going(h, "markFailed")
    BY <1>1, <1>7, GoesOn DEF Steps
  <2>2. Others(h) /\ call'[h].at = "markFailed"
    BY <2>1 DEF Going
  <2>3. TypeOK'
    BY <1>2, <1>3, <1>7, <2>1 DEF IInv, TypeOK, Going
  <2>4. Fits(h)'
    BY <2>2 DEF Fits, Scheduling
  <2>5. \A p, w : Posted(p, w)' = Posted(p, w)
    BY <1>3 DEF Posted
  <2>6. \A w \in Withdrawals : JobOK(w)' /\ SettlementOK(w)'
    BY <1>3, <1>7, <2>5 DEF IInv, JobOK, SettlementOK, Paid
  <2>7. MoneyOK'
    BY <1>3, SameMoney DEF IInv
  <2> QED
    BY <1>2, <1>3, <1>4, <1>7, <2>2, <2>3, <2>4, <2>5, <2>6, <2>7, Together DEF Scheduling
<1> QED
  BY <1>5, <1>6, <1>7 DEF Fault

LEMMA NextKeeps ==
  ASSUME IInv, [Next]_vars
  PROVE  IInv'
<1>1. CASE UNCHANGED vars
  <2>1. \A p, w : Posted(p, w)' = Posted(p, w)
    BY <1>1 DEF vars, Posted
  <2>2. MoneyOK'
    BY <1>1, SameMoney DEF vars, IInv
  <2>3. (\A h \in Handlers : Fits(h)') /\ OneScheduler'
    BY <1>1, <2>1 DEF vars, IInv, Fits, OneScheduler, Paid, Released
  <2>4. ASSUME NEW w \in Withdrawals
        PROVE  /\ JobOK(w)' /\ StatusOK(w)' /\ SettlementOK(w)'
               /\ faults' = 0 => FaultFree(w)'
    BY <1>1, <2>1 DEF vars, IInv, JobOK, StatusOK, SettlementOK, Paid, Released,
       FaultFree, Attended, Runs, Carried
  <2> QED
    BY <1>1, <2>2, <2>3, <2>4 DEF vars, IInv, TypeOK
<1>2. ASSUME NEW h \in Handlers, NEW w \in Withdrawals,
             RequestWithdrawal(h, w) \/ Approve(h, w) \/ Reject(h, w)
      PROVE  IInv'
  BY <1>2, StartKeeps DEF RequestWithdrawal, Approve, Reject, Kinds, Steps
<1>3. ASSUME NEW h \in Handlers, NEW w \in Withdrawals, TakeJob(h, w)
      PROVE  IInv'
  BY <1>3, TakeJobKeeps
<1>4. ASSUME NEW h \in Handlers, Step(h) \/ Fault(h) \/ Crash(h)
      PROVE  IInv'
  BY <1>4, StepKeeps, FaultKeeps
<1>5. ASSUME NEW w \in Withdrawals, LoseLock(w) \/ Stalled(w)
      PROVE  IInv'
  BY <1>5, StallKeeps
<1> QED
  BY <1>1, <1>2, <1>3, <1>4, <1>5 DEF Next

(* The inductive invariant holds in every reachable state.                 *)
THEOREM InvariantHolds == Spec => []IInv
BY InitEstablishes, NextKeeps, PTL DEF Spec

-----------------------------------------------------------------------------
(* How far a sum is overdrawn.  A call whose guard held may commit after   *)
(* others took the sum away.  Let P be the calls that are about to take    *)
(* a[h] each out of a sum s, at most m, and N all calls.  Either s bears   *)
(* all of P and is then overdrawn by N - 1 at the most, or one of P has    *)
(* found its own amount there, and its commit is no overdraft of its own.  *)
Slack(P) == Cardinality(Handlers) - 1 - Cardinality(P)

Covered(s, P, a, m) ==
  \/ s >= -(Slack(P) * m)
  \/ \E h \in P : s - a[h] >= -((Slack(P) + 1) * m)

Demands(a, m) == a \in [Handlers -> Nat] /\ \A h \in Handlers : a[h] <= m

LEMMA SlackType ==
  ASSUME NEW P \in SUBSET Handlers
  PROVE  /\ IsFiniteSet(P) /\ Slack(P) \in Int
         /\ -1 <= Slack(P) /\ Slack(P) <= Cardinality(Handlers) - 1
         /\ P # {} => Slack(P) <= Cardinality(Handlers) - 2
<1>1. IsFiniteSet(Handlers) /\ IsFiniteSet(P) /\ Cardinality(P) <= Cardinality(Handlers)
  BY WithdrawalsAssumption, FS_Subset
<1>2. Cardinality(P) \in Nat /\ Cardinality(Handlers) \in Nat
  BY <1>1, FS_CardinalityType
<1>3. P # {} => Cardinality(P) # 0
  BY <1>1, FS_EmptySet
<1> QED
  BY <1>1, <1>2, <1>3 DEF Slack

LEMMA SlackOfFewer ==
  ASSUME NEW P \in SUBSET Handlers, NEW Q \in SUBSET P
  PROVE  /\ Slack(Q) >= Slack(P)
         /\ \A h \in P : h \notin Q => Slack(Q) >= Slack(P) + 1
         /\ \A h \in P : Q = P \ {h} => Slack(Q) = Slack(P) + 1
<1>1. IsFiniteSet(P) /\ IsFiniteSet(Q)
  BY SlackType
<1>2. Cardinality(Q) \in Nat /\ Cardinality(P) \in Nat /\ Cardinality(Handlers) \in Nat
  BY <1>1, WithdrawalsAssumption, FS_CardinalityType
<1>3. Cardinality(Q) <= Cardinality(P)
  BY <1>1, FS_Subset
<1>4. ASSUME NEW h \in P PROVE Cardinality(P \ {h}) = Cardinality(P) - 1
  BY <1>1, <1>4, FS_RemoveElement
<1>5. ASSUME NEW h \in P, h \notin Q PROVE Cardinality(Q) <= Cardinality(P) - 1
  <2>1. Q \in SUBSET (P \ {h}) /\ IsFiniteSet(P \ {h})
    BY <1>1, <1>5, FS_RemoveElement
  <2>2. Cardinality(Q) <= Cardinality(P \ {h})
    BY <2>1, FS_Subset
  <2> QED
    BY <1>4, <1>5, <2>2
<1> QED
  BY <1>2, <1>3, <1>4, <1>5 DEF Slack

(* Multiples of m, all that follows needs of them.                         *)
LEMMA Multiples ==
  ASSUME NEW m \in Nat, NEW k \in Int, NEW n \in Int
  PROVE  /\ k * m \in Int /\ (k + 1) * m = k * m + m
         /\ k >= n => k * m >= n * m
         /\ k >= 0 => k * m >= 0
<1>1. \A i \in Int : i * m \in Int
  BY SMT
<1>2. \A i, j \in Int : (i + j) * m = i * m + j * m
  BY SMT
<1>3. \A i \in Nat : i * m >= 0
  BY SMT
<1>4. 1 * m = m
  OBVIOUS
<1>5. ASSUME k >= n PROVE k * m >= n * m
  <2>1. k - n \in Nat /\ k = n + (k - n)
    BY <1>5
  <2>2. k * m = n * m + (k - n) * m
    BY <1>2, <2>1
  <2>3. (k - n) * m >= 0
    BY <1>3, <2>1
  <2> QED
    BY <1>1, <2>1, <2>2, <2>3
<1> QED
  BY <1>1, <1>2, <1>3, <1>4, <1>5

LEMMA CoveredHolds ==
  ASSUME NEW m \in Nat, NEW s \in Int, NEW P \in SUBSET Handlers, NEW a, Demands(a, m),
         Covered(s, P, a, m)
  PROVE  s >= -((Cardinality(Handlers) - 1) * m)
<1> DEFINE N == Cardinality(Handlers) - 1
<1>1. N \in Int /\ Slack(P) \in Int /\ Slack(P) <= N /\ (P # {} => Slack(P) + 1 <= N)
  BY WithdrawalsAssumption, FS_CardinalityType, SlackType
<1> HIDE DEF N
<1>2. CASE s >= -(Slack(P) * m)
  <2>1. N * m \in Int /\ Slack(P) * m \in Int /\ N * m >= Slack(P) * m
    BY <1>1, Multiples
  <2> QED
    BY <1>2, <2>1 DEF N
<1>3. ASSUME NEW h \in P, s - a[h] >= -((Slack(P) + 1) * m) PROVE s >= -(N * m)
  <2>1. P # {} /\ Slack(P) + 1 \in Int /\ a[h] \in Nat
    BY <1>1 DEF Demands
  <2>2. N * m \in Int /\ (Slack(P) + 1) * m \in Int /\ N * m >= (Slack(P) + 1) * m
    BY <1>1, <2>1, Multiples
  <2> QED
    BY <1>3, <2>1, <2>2
<1> QED
  BY <1>2, <1>3 DEF Covered, N

(* The sum does not shrink and no call joins.                              *)
LEMMA CoveredStays ==
  ASSUME NEW m \in Nat, NEW s \in Int, NEW t \in Int, t >= s,
         NEW P \in SUBSET Handlers, NEW Q \in SUBSET P,
         NEW a, Demands(a, m), NEW b, \A h \in Q : b[h] = a[h],
         Covered(s, P, a, m)
  PROVE  Covered(t, Q, b, m)
<1>1. /\ Slack(P) \in Int /\ Slack(Q) \in Int /\ Slack(Q) >= Slack(P)
      /\ \A h \in P : h \notin Q => Slack(Q) >= Slack(P) + 1
  BY SlackType, SlackOfFewer
<1>2. /\ Slack(P) * m \in Int /\ Slack(Q) * m \in Int
      /\ (Slack(P) + 1) * m \in Int /\ (Slack(Q) + 1) * m \in Int
      /\ Slack(Q) * m >= Slack(P) * m /\ (Slack(Q) + 1) * m >= (Slack(P) + 1) * m
  <2>1. Slack(P) + 1 \in Int /\ Slack(Q) + 1 \in Int /\ Slack(Q) + 1 >= Slack(P) + 1
    BY <1>1
  <2> QED
    BY <1>1, <2>1, Multiples
<1>3. CASE s >= -(Slack(P) * m)
  <2>1. t >= -(Slack(Q) * m)
    BY <1>2, <1>3
  <2> QED
    BY <2>1 DEF Covered
<1>4. ASSUME NEW h \in P, s - a[h] >= -((Slack(P) + 1) * m) PROVE Covered(t, Q, b, m)
  <2>1. a[h] \in Nat
    BY DEF Demands
  <2>2. CASE h \in Q
    <3>1. t - b[h] >= -((Slack(Q) + 1) * m)
      BY <1>2, <1>4, <2>1, <2>2
    <3> QED
      BY <2>2, <3>1 DEF Covered
  <2>3. CASE h \notin Q
    <3>1. Slack(Q) >= Slack(P) + 1 /\ Slack(P) + 1 \in Int
      BY <1>1, <2>3
    <3>2. Slack(Q) * m >= (Slack(P) + 1) * m
      BY <1>1, <3>1, Multiples
    <3>3. t >= -(Slack(Q) * m)
      BY <1>2, <1>4, <2>1, <3>2
    <3> QED
      BY <3>3 DEF Covered
  <2> QED
    BY <2>2, <2>3
<1> QED
  BY <1>3, <1>4 DEF Covered

(* A call that finds its amount in the sum joins.                          *)
LEMMA CoveredReads ==
  ASSUME NEW m \in Nat, NEW s \in Int, NEW P \in SUBSET Handlers, NEW h \in P,
         NEW a, Demands(a, m), s >= a[h]
  PROVE  Covered(s, P, a, m)
<1>1. Slack(P) \in Int /\ Slack(P) + 1 \in Int /\ Slack(P) + 1 >= 0 /\ a[h] \in Nat
  BY SlackType DEF Demands
<1>2. (Slack(P) + 1) * m \in Int /\ (Slack(P) + 1) * m >= 0
  BY <1>1, Multiples
<1>3. s - a[h] >= -((Slack(P) + 1) * m)
  BY <1>1, <1>2
<1> QED
  BY <1>3 DEF Covered

(* A call takes its amount and leaves.                                     *)
LEMMA CoveredCommits ==
  ASSUME NEW m \in Nat, NEW s \in Int, NEW t \in Int, NEW P \in SUBSET Handlers, NEW h \in P,
         NEW a, Demands(a, m), NEW b, \A g \in P \ {h} : b[g] = a[g],
         t >= s - a[h], Covered(s, P, a, m)
  PROVE  Covered(t, P \ {h}, b, m)
<1> DEFINE Q == P \ {h}
<1>1. Slack(P) \in Int /\ Slack(Q) \in Int /\ Slack(Q) = Slack(P) + 1
  BY SlackType, SlackOfFewer
<1>2. a[h] \in Nat /\ a[h] <= m
  BY DEF Demands
<1> HIDE DEF Q
<1>3. /\ Slack(P) * m \in Int /\ Slack(Q) * m = Slack(P) * m + m
      /\ (Slack(Q) + 1) * m = Slack(Q) * m + m
  BY <1>1, Multiples
<1>4. CASE s >= -(Slack(P) * m)
  <2>1. t >= -(Slack(Q) * m)
    BY <1>2, <1>3, <1>4
  <2> QED
    BY <2>1 DEF Covered, Q
<1>5. ASSUME s - a[h] >= -((Slack(P) + 1) * m) PROVE Covered(t, Q, b, m)
  <2>1. t >= -(Slack(Q) * m)
    BY <1>1, <1>2, <1>3, <1>5
  <2> QED
    BY <2>1 DEF Covered
<1>6. ASSUME NEW g \in Q, s - a[g] >= -((Slack(P) + 1) * m) PROVE Covered(t, Q, b, m)
  <2>1. a[g] \in Nat /\ b[g] = a[g]
    BY DEF Demands, Q
  <2>2. t - b[g] >= -((Slack(Q) + 1) * m)
    BY <1>1, <1>2, <1>3, <1>6, <2>1
  <2> QED
    BY <2>2 DEF Covered
<1> QED
  BY <1>4, <1>5, <1>6 DEF Covered, Q

(* The calls whose guard held and whose transaction has yet to commit.     *)
Locking == {h \in Handlers : call[h].at = "commitLock"}
Unlocking == {h \in Handlers : call[h].at \in {"commitRelease", "commitComplete"}}
Due == [h \in Handlers |-> IF call[h] \in Calls THEN Amount[call[h].w] ELSE 0]

IsLargest(m) == \A w \in Withdrawals : Amount[w] <= m

SumsCovered(m) ==
  /\ Covered(wallet.spendable, Locking, Due, m)
  /\ Covered(wallet.locked, Unlocking, Due, m)

OInv == \A m \in Nat : IsLargest(m) => SumsCovered(m)

LEMMA DueIsDemand ==
  ASSUME TypeOK, NEW m \in Nat, IsLargest(m)
  PROVE  Demands(Due, m) /\ \A h \in Handlers : call[h] \in Calls => Due[h] = Amount[call[h].w]
BY WithdrawalsAssumption DEF IsLargest, Demands, Due, Calls

(* A step that moves no money and lets no call commit.                     *)
LEMMA CoveredAside ==
  ASSUME IInv, OInv, UNCHANGED wallet,
         \A h \in Handlers :
           call'[h].at \in {"commitLock", "commitRelease", "commitComplete"} => call'[h] = call[h]
  PROVE  OInv'
<1> SUFFICES ASSUME NEW m \in Nat, IsLargest(m) PROVE SumsCovered(m)'
  BY DEF OInv, IsLargest
<1>1. TypeOK /\ wallet.spendable \in Int /\ wallet.locked \in Int
  BY DEF IInv, TypeOK
<1>2. Demands(Due, m)
  BY <1>1, DueIsDemand
<1>3. /\ Locking' \in SUBSET Locking /\ Locking \in SUBSET Handlers
      /\ Unlocking' \in SUBSET Unlocking /\ Unlocking \in SUBSET Handlers
  BY DEF Locking, Unlocking
<1>4. \A h \in Locking' \cup Unlocking' : Due'[h] = Due[h]
  BY DEF Locking, Unlocking, Due
<1>5. SumsCovered(m)
  BY DEF OInv
<1>6. Covered(wallet.spendable, Locking', Due', m)
  BY <1>1, <1>2, <1>3, <1>4, <1>5, CoveredStays DEF SumsCovered
<1>7. Covered(wallet.locked, Unlocking', Due', m)
  BY <1>1, <1>2, <1>3, <1>4, <1>5, CoveredStays DEF SumsCovered
<1> QED
  BY <1>6, <1>7 DEF SumsCovered

LEMMA LockFundsCovers ==
  ASSUME IInv, OInv, NEW h \in Handlers, LockFunds(h), TypeOK'
  PROVE  OInv'
<1>1. call[h].at = "lock" /\ call[h] \in Calls /\ UNCHANGED wallet
  BY Caller DEF LockFunds, At, Steps
<1>2. CASE Throw(h)
  <2>1. Ending(h)
    BY <1>1, <1>2, EndOfCall
  <2> QED
    BY <1>1, <2>1, CoveredAside DEF Ending, Others, Idle
<1>3. CASE Goto(h, "commitLock") /\ Projected(Amount[call[h].w], -Amount[call[h].w])
  <2>1. Going(h, "commitLock")
    BY <1>1, <1>3, GoesOn DEF Steps
  <2>2. /\ Locking' = Locking \cup {h} /\ Unlocking' = Unlocking
        /\ h \in Locking' /\ Locking' \in SUBSET Handlers /\ Unlocking' \in SUBSET Handlers
    BY <1>1, <2>1 DEF Going, Others, Locking, Unlocking
  <2>3. call'[h] \in Calls /\ call'[h].w = call[h].w
    BY <2>1 DEF Going
  <2> SUFFICES ASSUME NEW m \in Nat, IsLargest(m) PROVE SumsCovered(m)'
    BY DEF OInv, IsLargest
  <2>4. Demands(Due, m) /\ Due[h] = Amount[call[h].w]
    BY <1>1, DueIsDemand DEF IInv
  <2>5. Demands(Due', m) /\ Due'[h] = Amount[call[h].w]
    BY <2>3, WithdrawalsAssumption DEF TypeOK, IsLargest, Demands, Due, Calls
  <2>6. wallet.spendable \in Int /\ wallet.locked \in Int /\ Amount[call[h].w] \in Nat
    BY <2>4 DEF IInv, TypeOK, Demands
  <2>7. wallet.spendable >= Due'[h]
    BY <1>3, <2>5, <2>6 DEF Projected
  <2>8. Covered(wallet.spendable, Locking', Due', m)
    BY <2>2, <2>5, <2>6, <2>7, CoveredReads
  <2>9. Covered(wallet.locked, Unlocking', Due', m)
    <3>1. \A g \in Unlocking' : Due'[g] = Due[g]
      BY <1>1, <2>1, <2>2 DEF Going, Others, Due, Unlocking
    <3>2. Covered(wallet.locked, Unlocking, Due, m)
      BY DEF OInv, SumsCovered
    <3> QED
      BY <2>2, <2>4, <2>6, <3>1, <3>2, CoveredStays
  <2> QED
    BY <1>1, <2>8, <2>9 DEF SumsCovered
<1> QED
  BY <1>2, <1>3 DEF LockFunds

(* A release or a completion that found its amount in LOCKED.              *)
LEMMA UnlockCovers ==
  ASSUME IInv, OInv, NEW h \in Handlers, NEW step \in {"commitRelease", "commitComplete"},
         call[h] \in Calls, call[h].at \in {"release", "complete"}, Going(h, step), TypeOK',
         wallet.locked >= Amount[call[h].w], UNCHANGED wallet
  PROVE  OInv'
<1>1. /\ Unlocking' = Unlocking \cup {h} /\ Locking' = Locking
      /\ h \in Unlocking' /\ Locking' \in SUBSET Handlers /\ Unlocking' \in SUBSET Handlers
  BY DEF Going, Others, Locking, Unlocking
<1>2. call'[h] \in Calls /\ call'[h].w = call[h].w
  BY DEF Going
<1> SUFFICES ASSUME NEW m \in Nat, IsLargest(m) PROVE SumsCovered(m)'
  BY DEF OInv, IsLargest
<1>3. Demands(Due, m) /\ wallet.spendable \in Int /\ wallet.locked \in Int
  BY DueIsDemand DEF IInv, TypeOK
<1>4. Demands(Due', m) /\ Due'[h] = Amount[call[h].w]
  BY <1>2, WithdrawalsAssumption DEF TypeOK, IsLargest, Demands, Due, Calls
<1>5. Covered(wallet.locked, Unlocking', Due', m)
  BY <1>1, <1>3, <1>4, CoveredReads
<1>6. Covered(wallet.spendable, Locking', Due', m)
  <2>1. \A g \in Locking' : Due'[g] = Due[g]
    BY <1>1 DEF Going, Others, Due, Locking
  <2>2. Covered(wallet.spendable, Locking, Due, m)
    BY DEF OInv, SumsCovered
  <2> QED
    BY <1>1, <1>3, <2>1, <2>2, CoveredStays
<1> QED
  BY <1>5, <1>6 DEF SumsCovered

(* A commit takes at most what its guard was about, from the sum it was    *)
(* about; the other sum does not shrink.                                   *)
LEMMA CommitCovers ==
  ASSUME IInv, OInv, NEW h \in Handlers, NEW step \in Steps, call[h] \in Calls, TypeOK',
         step \notin {"commitLock", "commitRelease", "commitComplete"},
         Going(h, step) \/ Ending(h),
         \/ UNCHANGED wallet
         \/ /\ call[h].at = "commitLock"
            /\ wallet'.spendable = wallet.spendable - Amount[call[h].w]
            /\ wallet'.locked >= wallet.locked
         \/ /\ call[h].at \in {"commitRelease", "commitComplete"}
            /\ wallet'.locked = wallet.locked - Amount[call[h].w]
            /\ wallet'.spendable >= wallet.spendable
  PROVE  OInv'
<1>1. CASE UNCHANGED wallet
  BY <1>1, CoveredAside DEF Going, Ending, Others, Idle
<1>2. Locking' = Locking \ {h} /\ Unlocking' = Unlocking \ {h}
  BY DEF Going, Ending, Others, Idle, Locking, Unlocking
<1>3. Locking \in SUBSET Handlers /\ Unlocking \in SUBSET Handlers
  BY DEF Locking, Unlocking
<1>4. \A g \in Handlers : g # h => Due'[g] = Due[g]
  BY DEF Going, Ending, Others, Due
<1>5. /\ wallet.spendable \in Int /\ wallet.locked \in Int
      /\ wallet'.spendable \in Int /\ wallet'.locked \in Int
  BY DEF IInv, TypeOK
<1>6. Due[h] = Amount[call[h].w] /\ Due[h] \in Nat
  BY WithdrawalsAssumption DEF Due, Calls
<1>7. ASSUME NEW m \in Nat, IsLargest(m), ~ UNCHANGED wallet PROVE SumsCovered(m)'
  <2>1. Demands(Due, m) /\ SumsCovered(m)
    BY <1>7, DueIsDemand DEF IInv, OInv
  <2>2. CASE /\ call[h].at = "commitLock"
             /\ wallet'.spendable = wallet.spendable - Amount[call[h].w]
             /\ wallet'.locked >= wallet.locked
    <3>1. h \in Locking
      BY <2>2 DEF Locking
    <3>4. PICK t \in Int, a \in [Handlers -> Nat] : t = wallet'.spendable /\ a = Due
      BY <1>5, <2>1 DEF Demands
    <3>5. \A g \in Locking \ {h} : Due'[g] = a[g]
      BY <1>3, <1>4, <3>4
    <3>6. t >= wallet.spendable - a[h]
      BY <1>5, <1>6, <2>2, <3>4
    <3>7. Demands(a, m) /\ Covered(wallet.spendable, Locking, a, m)
      BY <2>1, <3>4 DEF SumsCovered
    <3>8. Covered(t, Locking \ {h}, Due', m)
      BY <1>3, <1>5, <3>1, <3>5, <3>6, <3>7, CoveredCommits
    <3>2. Covered(wallet'.spendable, Locking', Due', m)
      BY <1>2, <3>4, <3>8
    <3>3. Covered(wallet'.locked, Unlocking', Due', m)
      BY <1>2, <1>3, <1>4, <1>5, <2>1, <2>2, CoveredStays DEF SumsCovered
    <3> QED
      BY <3>2, <3>3 DEF SumsCovered
  <2>3. CASE /\ call[h].at \in {"commitRelease", "commitComplete"}
             /\ wallet'.locked = wallet.locked - Amount[call[h].w]
             /\ wallet'.spendable >= wallet.spendable
    <3>1. h \in Unlocking
      BY <2>3 DEF Unlocking
    <3>4. PICK t \in Int, a \in [Handlers -> Nat] : t = wallet'.locked /\ a = Due
      BY <1>5, <2>1 DEF Demands
    <3>5. \A g \in Unlocking \ {h} : Due'[g] = a[g]
      BY <1>3, <1>4, <3>4
    <3>6. t >= wallet.locked - a[h]
      BY <1>5, <1>6, <2>3, <3>4
    <3>7. Demands(a, m) /\ Covered(wallet.locked, Unlocking, a, m)
      BY <2>1, <3>4 DEF SumsCovered
    <3>8. Covered(t, Unlocking \ {h}, Due', m)
      BY <1>3, <1>5, <3>1, <3>5, <3>6, <3>7, CoveredCommits
    <3>2. Covered(wallet'.locked, Unlocking', Due', m)
      BY <1>2, <3>4, <3>8
    <3>3. Covered(wallet'.spendable, Locking', Due', m)
      BY <1>2, <1>3, <1>4, <1>5, <2>1, <2>3, CoveredStays DEF SumsCovered
    <3> QED
      BY <3>2, <3>3 DEF SumsCovered
  <2> QED
    BY <1>7, <2>2, <2>3
<1> QED
  BY <1>1, <1>7 DEF OInv, IsLargest

(* All other steps of a call.                                              *)
LEMMA StepAside ==
  ASSUME IInv, NEW h \in Handlers, Step(h), ~ LockFunds(h), ~ CommitLock(h), ~ ReleaseLock(h),
         ~ CommitRelease(h), ~ CompleteFromLock(h), ~ CommitComplete(h)
  PROVE  /\ UNCHANGED wallet /\ Others(h)
         /\ call'[h].at \notin {"commitLock", "commitRelease", "commitComplete"}
<1>1. UNCHANGED wallet
  BY DEF Step, CheckWithdrawalRequest, FindExisting, CreateWithdrawal, SaveLock, SaveApproved,
     CreateSettlement, SaveSettlementId, AddJob, SaveRejected, ReadDocuments, MarkProcessing,
     SaveProcessing, SaveCompleted, MarkCompleted, RecordCompletion, MarkFailed, SaveFailed
<1>2. call \in [Handlers -> Calls \cup {Idle}]
  BY DEF IInv, TypeOK
<1>3. \/ call' = [call EXCEPT ![h] = Idle]
      \/ \E step \in Steps \ {"commitLock", "commitRelease", "commitComplete"} :
           Goto(h, step) \/ \E s \in WithdrawalStatuses : GotoSeen(h, step, s)
  <2>1. CASE \/ CheckWithdrawalRequest(h) \/ FindExisting(h) \/ CreateWithdrawal(h)
             \/ SaveLock(h) \/ SaveApproved(h) \/ CreateSettlement(h)
    BY <2>1 DEF CheckWithdrawalRequest, FindExisting, CreateWithdrawal, SaveLock, SaveApproved,
       CreateSettlement, Return, Throw, Steps, WithdrawalStatuses
  <2>2. CASE SaveSettlementId(h) \/ AddJob(h) \/ SaveRejected(h)
    BY <2>2 DEF SaveSettlementId, AddJob, SaveRejected, Return, Steps
  <2>3. CASE ReadDocuments(h)
    <3>1. withdrawal[call[h].w] \in WithdrawalStatuses
      BY <2>3, Caller DEF ReadDocuments, At, Steps, IInv, TypeOK
    <3> QED
      BY <2>3, <3>1 DEF ReadDocuments, Steps
  <2>4. CASE \/ MarkProcessing(h) \/ SaveProcessing(h) \/ SaveCompleted(h) \/ MarkCompleted(h)
             \/ RecordCompletion(h) \/ MarkFailed(h) \/ SaveFailed(h)
    BY <2>4 DEF MarkProcessing, SaveProcessing, SaveCompleted, MarkCompleted, RecordCompletion,
       MarkFailed, SaveFailed, Return, Throw, Steps, WithdrawalStatuses
  <2> QED
    BY <2>1, <2>2, <2>3, <2>4 DEF Step
<1>4. call[h] \in Calls
  BY <1>2, Caller DEF Step, At, Steps, CheckWithdrawalRequest, FindExisting, CreateWithdrawal,
     SaveLock, SaveApproved, CreateSettlement, SaveSettlementId, AddJob, SaveRejected,
     ReadDocuments, MarkProcessing, SaveProcessing, SaveCompleted, MarkCompleted,
     RecordCompletion, MarkFailed, SaveFailed
<1>5. CASE call' = [call EXCEPT ![h] = Idle]
  BY <1>1, <1>2, <1>5 DEF Others, Idle
<1>6. ASSUME NEW step \in Steps \ {"commitLock", "commitRelease", "commitComplete"},
             Goto(h, step) \/ \E s \in WithdrawalStatuses : GotoSeen(h, step, s)
      PROVE  Others(h) /\ call'[h].at = step
  BY <1>4, <1>6, GoesOn DEF Going
<1> QED
  BY <1>1, <1>3, <1>5, <1>6

LEMMA StepCovers ==
  ASSUME IInv, OInv, NEW h \in Handlers, Step(h), TypeOK'
  PROVE  OInv'
<1>1. CASE LockFunds(h)
  BY <1>1, LockFundsCovers
<1>2. ASSUME call[h].at \in Steps, NEW w, w = call[h].w
      PROVE  /\ call[h] \in Calls /\ w \in Withdrawals /\ Amount[w] \in Nat
             /\ wallet.spendable \in Int /\ wallet.locked \in Int
  BY <1>2, Caller, WithdrawalsAssumption DEF IInv, TypeOK
<1>3. CASE ReleaseLock(h)
  <2>1. call[h].at = "release" /\ call[h].at \in Steps /\ UNCHANGED wallet
    BY <1>3 DEF ReleaseLock, At, Steps
  <2>2. CASE Throw(h)
    BY <1>2, <2>1, <2>2, EndOfCall, CommitCovers DEF Steps
  <2>3. CASE Goto(h, "saveRejected")
    BY <1>2, <2>1, <2>3, GoesOn, CommitCovers DEF Steps
  <2>4. CASE Goto(h, "commitRelease") /\ wallet.locked >= Amount[call[h].w]
    BY <1>2, <2>1, <2>4, GoesOn, UnlockCovers DEF Steps
  <2> QED
    BY <1>3, <2>2, <2>3, <2>4 DEF ReleaseLock
<1>4. CASE CompleteFromLock(h)
  <2>1. call[h].at = "complete" /\ call[h].at \in Steps /\ UNCHANGED wallet
    BY <1>4 DEF CompleteFromLock, At, Steps
  <2>2. CASE Goto(h, "saveCompleted") \/ Goto(h, "markFailed")
    BY <1>2, <2>1, <2>2, GoesOn, CommitCovers DEF Steps
  <2>3. CASE Goto(h, "commitComplete") /\ Projected(-Amount[call[h].w], 0)
    <3>1. wallet.locked >= Amount[call[h].w]
      BY <1>2, <2>1, <2>3 DEF Projected
    <3> QED
      BY <1>2, <2>1, <2>3, <3>1, GoesOn, UnlockCovers DEF Steps
  <2> QED
    BY <1>4, <2>2, <2>3 DEF CompleteFromLock
<1>5. CASE CommitLock(h)
  <2>1. call[h].at = "commitLock" /\ call[h].at \in Steps
    BY <1>5 DEF CommitLock, At, Steps
  <2>2. CASE Throw(h) /\ UNCHANGED wallet
    BY <1>2, <2>1, <2>2, EndOfCall, CommitCovers DEF Steps
  <2>3. CASE /\ Post(<<"wd-lock", call[h].w>>, Amount[call[h].w], -Amount[call[h].w])
             /\ Goto(h, "saveLock")
    <3>1. \/ UNCHANGED wallet
          \/ /\ wallet'.spendable = wallet.spendable - Amount[call[h].w]
             /\ wallet'.locked >= wallet.locked
      BY <1>2, <2>1, <2>3 DEF Post
    <3>2. Going(h, "saveLock")
      BY <1>2, <2>1, <2>3, GoesOn DEF Steps
    <3> QED
      BY <1>2, <2>1, <3>1, <3>2, CommitCovers DEF Steps
  <2> QED
    BY <1>5, <2>2, <2>3 DEF CommitLock
<1>6. CASE CommitRelease(h)
  <2>1. call[h].at = "commitRelease" /\ call[h].at \in Steps
    BY <1>6 DEF CommitRelease, At, Steps
  <2>2. CASE Throw(h) /\ UNCHANGED wallet
    BY <1>2, <2>1, <2>2, EndOfCall, CommitCovers DEF Steps
  <2>3. CASE /\ Post(<<"wd-release", call[h].w>>, -Amount[call[h].w], Amount[call[h].w])
             /\ Goto(h, "saveRejected")
    <3>1. \/ UNCHANGED wallet
          \/ /\ wallet'.locked = wallet.locked - Amount[call[h].w]
             /\ wallet'.spendable >= wallet.spendable
      BY <1>2, <2>1, <2>3 DEF Post
    <3>2. Going(h, "saveRejected")
      BY <1>2, <2>1, <2>3, GoesOn DEF Steps
    <3> QED
      BY <1>2, <2>1, <3>1, <3>2, CommitCovers DEF Steps
  <2> QED
    BY <1>6, <2>2, <2>3 DEF CommitRelease
<1>7. CASE CommitComplete(h)
  <2>1. call[h].at = "commitComplete" /\ call[h].at \in Steps
    BY <1>7 DEF CommitComplete, At, Steps
  <2>2. CASE Goto(h, "markFailed") /\ UNCHANGED wallet
    BY <1>2, <2>1, <2>2, GoesOn, CommitCovers DEF Steps
  <2>3. CASE /\ Post(<<"wd-complete", call[h].w>>, -Amount[call[h].w], 0)
             /\ Goto(h, "saveCompleted")
    <3>1. \/ UNCHANGED wallet
          \/ /\ wallet'.locked = wallet.locked - Amount[call[h].w]
             /\ wallet'.spendable >= wallet.spendable
      BY <1>2, <2>1, <2>3 DEF Post
    <3>2. Going(h, "saveCompleted")
      BY <1>2, <2>1, <2>3, GoesOn DEF Steps
    <3> QED
      BY <1>2, <2>1, <3>1, <3>2, CommitCovers DEF Steps
  <2> QED
    BY <1>7, <2>2, <2>3 DEF CommitComplete
<1>8. CASE /\ ~ LockFunds(h) /\ ~ CommitLock(h) /\ ~ ReleaseLock(h)
           /\ ~ CommitRelease(h) /\ ~ CompleteFromLock(h) /\ ~ CommitComplete(h)
  BY <1>8, StepAside, CoveredAside DEF Others
<1> QED
  BY <1>1, <1>3, <1>4, <1>5, <1>6, <1>7, <1>8

LEMMA NextCovers ==
  ASSUME IInv, OInv, [Next]_vars, TypeOK'
  PROVE  OInv'
<1>1. CASE UNCHANGED vars
  BY <1>1, CoveredAside DEF vars
<1>2. ASSUME NEW h \in Handlers, NEW w \in Withdrawals,
             RequestWithdrawal(h, w) \/ Approve(h, w) \/ Reject(h, w) \/ TakeJob(h, w)
      PROVE  OInv'
  <2>1. UNCHANGED wallet /\ Others(h) /\ call'[h].at \in {"risk", "saveApproved", "release", "read"}
    BY <1>2 DEF IInv, TypeOK, RequestWithdrawal, Approve, Reject, TakeJob, Start, Others
  <2> QED
    BY <2>1, CoveredAside DEF Others
<1>3. ASSUME NEW h \in Handlers, Step(h) PROVE OInv'
  BY <1>3, StepCovers
<1>4. ASSUME NEW h \in Handlers, Fault(h) \/ Crash(h) PROVE OInv'
  <2>1. UNCHANGED wallet /\ Others(h) /\ call'[h].at \in {"idle", "markFailed"}
    BY <1>4, Caller DEF IInv, TypeOK, Calls, Fault, Crash, Goto, Throw, Others, Idle
  <2> QED
    BY <2>1, CoveredAside DEF Others
<1>5. ASSUME NEW w \in Withdrawals, LoseLock(w) \/ Stalled(w) PROVE OInv'
  BY <1>5, CoveredAside DEF LoseLock, Stalled
<1> QED
  BY <1>1, <1>2, <1>3, <1>4, <1>5 DEF Next

LEMMA InitCovers == Init => OInv
<1> SUFFICES ASSUME Init, NEW m \in Nat, IsLargest(m) PROVE SumsCovered(m)
  BY DEF OInv
<1>1. Locking = {} /\ Unlocking = {} /\ wallet.locked = 0 /\ wallet.spendable = Funds
  BY DEF Init, Locking, Unlocking, Idle
<1>2. Slack({}) \in Int /\ Slack({}) >= 0
  <2>1. Cardinality(Handlers) \in Nat /\ Cardinality(Handlers) # 0 /\ Cardinality({}) = 0
    BY WithdrawalsAssumption, FS_CardinalityType, FS_EmptySet
  <2> QED
    BY <2>1 DEF Slack
<1>3. Slack({}) * m \in Int /\ Slack({}) * m >= 0
  BY <1>2, Multiples
<1>4. Funds \in Nat
  BY WithdrawalsAssumption
<1> QED
  BY <1>1, <1>3, <1>4 DEF SumsCovered, Covered

(* The largest amount bounds the overdraft of both sums.                   *)
LEMMA OverdraftFollows == IInv /\ OInv => OverdraftIsBounded
<1> SUFFICES ASSUME IInv, OInv, NEW w \in Withdrawals, \A v \in Withdrawals : Amount[v] <= Amount[w]
             PROVE  /\ wallet.locked >= -((Cardinality(Handlers) - 1) * Amount[w])
                    /\ wallet.spendable >= -((Cardinality(Handlers) - 1) * Amount[w])
  BY DEF OverdraftIsBounded
<1>1. PICK m \in Nat : m = Amount[w]
  BY WithdrawalsAssumption
<1>2. SumsCovered(m) /\ Demands(Due, m)
  BY <1>1, DueIsDemand DEF OInv, IsLargest, IInv
<1>3. Locking \in SUBSET Handlers /\ Unlocking \in SUBSET Handlers
  BY DEF Locking, Unlocking
<1>4. wallet.locked \in Int /\ wallet.spendable \in Int
  BY DEF IInv, TypeOK
<1> QED
  BY <1>1, <1>2, <1>3, <1>4, CoveredHolds DEF SumsCovered

-----------------------------------------------------------------------------
(* The properties *)

(* Every reachable state is well typed.                                    *)
THEOREM Typing == Spec => []TypeOK
BY InvariantHolds, PTL DEF IInv

(* Through retries, races, stalls and crashes, each withdrawal leaves the  *)
(* spendable sum once and the escrow once for each of its two ends, and a  *)
(* sum is overdrawn by at most one withdrawal for every call but one.      *)
THEOREM SumsMatchPostings == Spec => []MoneyMatchesPostings
<1>1. Init => IInv /\ OInv
  BY InitEstablishes, InitCovers
<1>2. IInv /\ OInv /\ [Next]_vars => IInv' /\ OInv'
  <2>1. IInv /\ [Next]_vars => TypeOK'
    BY NextKeeps DEF IInv
  <2> QED
    BY <2>1, NextKeeps, NextCovers
<1>3. IInv /\ OInv => MoneyMatchesPostings
  BY OverdraftFollows DEF IInv, MoneyOK, MoneyMatchesPostings
<1> QED
  BY <1>1, <1>2, <1>3, PTL DEF Spec

(* COMPLETED means paid out and REJECTED means given back.                 *)
THEOREM DocumentsAreTrue == Spec => []DocumentsTellTruth
<1>1. IInv => DocumentsTellTruth
  BY DEF IInv, StatusOK, SettlementOK, Paid, Released, DocumentsTellTruth
<1> QED
  BY <1>1, InvariantHolds, PTL

(* Without faults an approval that went through ends paid or FAILED.       *)
THEOREM ApprovalsEnd == Spec => []ApprovedIsPaidOrFailed
<1>1. IInv => ApprovedIsPaidOrFailed
  <2> SUFFICES ASSUME IInv, faults = 0, NEW w \in Withdrawals,
                      settlement[w] # "none", ~ UnderWay(w)
               PROVE  Paid(w) \/ settlement[w] = "FAILED"
    BY DEF ApprovedIsPaidOrFailed, Paid
  <2>1. FaultFree(w)
    BY DEF IInv
  <2>2. Carried(w) => UnderWay(w)
    BY DEF Carried, UnderWay, Carrying, Scheduling, Idle
  <2> QED
    BY <2>1, <2>2 DEF FaultFree
<1> QED
  BY <1>1, InvariantHolds, PTL

-----------------------------------------------------------------------------
(* The wallet of the flow is the one the wallet service promises.  Which   *)
(* of the spendable buckets a posting draws on is SplitDebit's matter      *)
(* (WalletProofs); here their sum stands for them all.                     *)
InBuckets(spendable, locked) ==
  [b \in {"DEPOSIT", "WINNING", "BONUS", "LOCKED"} |->
     IF b = "LOCKED" THEN locked ELSE IF b = "DEPOSIT" THEN spendable ELSE 0]

Journal == INSTANCE WalletJournal WITH
  Keys <- Postings \X Withdrawals, Opening <- InBuckets(Funds, 0),
  balance <- InBuckets(wallet.spendable, wallet.locked), posted <- wallet.posted

(* A movement between the two sums, or a debit to the platform. *)
LEMMA PostIsJournalled ==
  ASSUME TypeOK, TypeOK', NEW key \in Postings \X Withdrawals, NEW lock \in Int, NEW spend \in Int,
         Post(key, lock, spend), lock + spend = 0 \/ (lock <= 0 /\ spend <= 0)
  PROVE  Journal!JournalNext \/ UNCHANGED wallet
<1>1. CASE key \in wallet.posted
  BY <1>1 DEF Post
<1>2. CASE key \notin wallet.posted
  <2>1. PICK s \in Int, l \in Int : s = wallet.spendable /\ l = wallet.locked
    BY DEF TypeOK
  <2>2. PICK t \in Int, m \in Int : t = wallet'.spendable /\ m = wallet'.locked
    BY DEF TypeOK
  <2>3. t = s + spend /\ m = l + lock /\ wallet'.posted = wallet.posted \cup {key}
    BY <1>2, <2>1, <2>2 DEF Post
  <2>4. PICK B : B = InBuckets(wallet.spendable, wallet.locked)
    OBVIOUS
  <2>5. PICK C : C = InBuckets(wallet'.spendable, wallet'.locked)
    OBVIOUS
  <2>6. /\ B["DEPOSIT"] = s /\ B["WINNING"] = 0 /\ B["BONUS"] = 0 /\ B["LOCKED"] = l
        /\ C["DEPOSIT"] = t /\ C["WINNING"] = 0 /\ C["BONUS"] = 0 /\ C["LOCKED"] = m
    BY <2>1, <2>2, <2>4, <2>5 DEF InBuckets
  <2>7. C \in Journal!Balances
    BY <2>2, <2>5 DEF InBuckets, Journal!Balances, Journal!Buckets, Journal!Spendable
  <2>8. CASE lock + spend = 0
    <3>1. t + m = s + l
      BY <2>3, <2>8
    <3>2. Journal!Total(C) = Journal!Total(B)
      BY <2>6, <3>1 DEF Journal!Total
    <3> QED
      BY <1>2, <2>3, <2>4, <2>5, <2>7, <3>2 DEF Journal!JournalNext, Journal!Post, Journal!IsMovement
  <2>9. CASE lock <= 0 /\ spend <= 0
    <3>1. \A b \in Journal!Buckets : C[b] - B[b] <= 0
      BY <2>3, <2>6, <2>9 DEF Journal!Buckets, Journal!Spendable
    <3>2. Journal!IsDebit
      BY <2>4, <2>5, <3>1 DEF Journal!IsDebit, Journal!Change
    <3> QED
      BY <1>2, <2>3, <2>5, <2>7, <3>2 DEF Journal!JournalNext, Journal!Post
  <2> QED
    BY <2>8, <2>9
<1> QED
  BY <1>1, <1>2

LEMMA WalletMoves ==
  ASSUME [Next]_vars
  PROVE  \/ UNCHANGED wallet
         \/ \E h \in Handlers : CommitLock(h) \/ CommitRelease(h) \/ CommitComplete(h)
<1>1. ASSUME NEW h \in Handlers, Step(h)
      PROVE  UNCHANGED wallet \/ CommitLock(h) \/ CommitRelease(h) \/ CommitComplete(h)
  BY <1>1 DEF Step, CheckWithdrawalRequest, FindExisting, CreateWithdrawal, LockFunds, SaveLock, SaveApproved,
              CreateSettlement, SaveSettlementId, AddJob, ReleaseLock, SaveRejected, ReadDocuments,
              MarkProcessing, SaveProcessing, CompleteFromLock, SaveCompleted, MarkCompleted,
              RecordCompletion, MarkFailed, SaveFailed
<1>2. ASSUME NEW h \in Handlers, NEW w \in Withdrawals,
             RequestWithdrawal(h, w) \/ Approve(h, w) \/ Reject(h, w) \/ TakeJob(h, w)
      PROVE  UNCHANGED wallet
  BY <1>2 DEF RequestWithdrawal, Approve, Reject, TakeJob
<1>3. ASSUME NEW h \in Handlers, Fault(h) \/ Crash(h) PROVE UNCHANGED wallet
  BY <1>3 DEF Fault, Crash
<1>4. ASSUME NEW w \in Withdrawals, LoseLock(w) \/ Stalled(w) PROVE UNCHANGED wallet
  BY <1>4 DEF LoseLock, Stalled
<1> QED
  BY <1>1, <1>2, <1>3, <1>4 DEF Next, vars

(* Requests, reviews and workers move money only by postings a journal     *)
(* admits: one per key, a movement between the sums or a debit.            *)
THEOREM WalletIsJournal == Spec => Journal!JournalSpec
<1>1. Init => Journal!JournalInit
  <2> SUFFICES ASSUME Init PROVE Journal!JournalInit
    OBVIOUS
  <2>1. wallet.spendable = Funds /\ wallet.locked = 0 /\ wallet.posted = {}
    BY DEF Init
  <2> QED
    BY <2>1 DEF Journal!JournalInit
<1>2. IInv /\ TypeOK' /\ [Next]_vars =>
        [Journal!JournalNext]_<<InBuckets(wallet.spendable, wallet.locked), wallet.posted>>
  <2> SUFFICES ASSUME IInv, TypeOK', [Next]_vars PROVE Journal!JournalNext \/ UNCHANGED wallet
    BY Zenon
  <2>0. TypeOK /\ \A w \in Withdrawals : Amount[w] \in Nat
    BY WithdrawalsAssumption DEF IInv
  <2>1. ASSUME NEW h \in Handlers, CommitLock(h) PROVE Journal!JournalNext \/ UNCHANGED wallet
    <3>1. PICK w \in Withdrawals : w = call[h].w
      BY <2>1, Caller DEF CommitLock, At, Steps
    <3>2. PICK a \in Nat : a = Amount[w]
      BY <2>0
    <3>3. UNCHANGED wallet \/ Post(<<"wd-lock", w>>, a, -a)
      BY <2>1, <3>1, <3>2 DEF CommitLock
    <3>4. a \in Int /\ -a \in Int /\ a + (-a) = 0
      OBVIOUS
    <3>5. <<"wd-lock", w>> \in Postings \X Withdrawals
      BY DEF Postings
    <3> QED
      BY <2>0, <3>3, <3>4, <3>5, PostIsJournalled
  <2>2. ASSUME NEW h \in Handlers, CommitRelease(h) PROVE Journal!JournalNext \/ UNCHANGED wallet
    <3>1. PICK w \in Withdrawals : w = call[h].w
      BY <2>2, Caller DEF CommitRelease, At, Steps
    <3>2. PICK a \in Nat : a = Amount[w]
      BY <2>0
    <3>3. UNCHANGED wallet \/ Post(<<"wd-release", w>>, -a, a)
      BY <2>2, <3>1, <3>2 DEF CommitRelease
    <3>4. -a \in Int /\ a \in Int /\ (-a) + a = 0
      OBVIOUS
    <3>5. <<"wd-release", w>> \in Postings \X Withdrawals
      BY DEF Postings
    <3> QED
      BY <2>0, <3>3, <3>4, <3>5, PostIsJournalled
  <2>3. ASSUME NEW h \in Handlers, CommitComplete(h) PROVE Journal!JournalNext \/ UNCHANGED wallet
    <3>1. PICK w \in Withdrawals : w = call[h].w
      BY <2>3, Caller DEF CommitComplete, At, Steps
    <3>2. PICK a \in Nat : a = Amount[w]
      BY <2>0
    <3>3. UNCHANGED wallet \/ Post(<<"wd-complete", w>>, -a, 0)
      BY <2>3, <3>1, <3>2 DEF CommitComplete
    <3>4. -a \in Int /\ 0 \in Int /\ -a <= 0 /\ 0 <= 0
      OBVIOUS
    <3>5. <<"wd-complete", w>> \in Postings \X Withdrawals
      BY DEF Postings
    <3> QED
      BY <2>0, <3>3, <3>4, <3>5, PostIsJournalled
  <2> QED
    BY <2>1, <2>2, <2>3, WalletMoves
<1> QED
  BY <1>1, <1>2, InvariantHolds, Typing, PTL DEF Spec, Journal!JournalSpec
=============================================================================
