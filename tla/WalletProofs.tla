----------------------------- MODULE WalletProofs -----------------------------
(***************************************************************************)
(* Theorems about Wallet.tla for every set of calls, keys, amounts and     *)
(* operations and every opening balance.                                   *)
(***************************************************************************)
EXTENDS Wallet, SequenceTheorems, FiniteSetTheorems, TLAPS

-----------------------------------------------------------------------------
(* The arithmetic of WalletCore, for every balance and every amount *)

(* The rows of an operation with one amount on one bucket are well formed. *)
LEMMA OnlyType ==
  ASSUME NEW b \in Buckets, NEW a \in Nat
  PROVE  /\ Only(b, a) \in [Buckets -> Nat]
         /\ Nothing \in [Buckets -> Nat]
         /\ Nothing \in Balances
         /\ Total(Only(b, a)) = a
         /\ Total(Nothing) = 0
BY DEF Only, Nothing, Buckets, Spendable, Balances, Total

(* The total of four balances is an integer, of four amounts a natural.    *)
LEMMA TotalType ==
  /\ \A f \in Balances : Total(f) \in Int
  /\ \A f \in [Buckets -> Nat] : Total(f) \in Nat
BY DEF Total, Balances, Buckets, Spendable

(* Applying an entry list to balances gives balances; the deltas of an     *)
(* entry list are integers.                                                *)
LEMMA AddDeltasType ==
  ASSUME NEW balance \in Balances, NEW e \in EntryLists
  PROVE  /\ ComputeDeltas(e) \in Balances
         /\ AddDeltas(balance, e) \in Balances
         /\ \A b \in Buckets :
              AddDeltas(balance, e)[b] = balance[b] + e.credit[b] - e.debit[b]
BY DEF ComputeDeltas, AddDeltas, Balances, EntryLists

(* An entry list moves exactly its credits minus its debits.               *)
LEMMA AddDeltasTotal ==
  ASSUME NEW balance \in Balances, NEW e \in EntryLists
  PROVE  Total(AddDeltas(balance, e)) =
           Total(balance) + Total(e.credit) - Total(e.debit)
<1>1. /\ e.credit \in [Buckets -> Nat] /\ e.debit \in [Buckets -> Nat]
  BY DEF EntryLists
<1>2. \A b \in Buckets :
        AddDeltas(balance, e)[b] = balance[b] + e.credit[b] - e.debit[b]
  BY AddDeltasType
<1> QED  BY <1>1, <1>2 DEF Total, Buckets, Spendable, Balances

(* The split never takes more from a bucket than it holds, takes nothing   *)
(* from a bucket outside the order, and takes amounts.                     *)
LEMMA SplitDebitType ==
  ASSUME NEW amount \in Nat, NEW order \in Orders, NEW balance \in Balances
  PROVE  /\ SplitDebit(amount, order, balance) \in [Buckets -> Nat]
         /\ \A b \in Buckets :
              /\ SplitDebit(amount, order, balance)[b] <= Most(balance[b], 0)
              /\ order[b] = 0 => SplitDebit(amount, order, balance)[b] = 0
BY DEF SplitDebit, Available, TakenEarlier, Least, Most, Orders, Balances, Total, Buckets, Spendable

(* WithdrawOrder and ContestOrder are orders. *)
LEMMA OrdersType == WithdrawOrder \in Orders /\ ContestOrder \in Orders
BY DEF WithdrawOrder, ContestOrder, Orders, Buckets, Spendable

(* Whenever the caller's own check passes, the split covers the amount     *)
(* exactly: the "Insufficient balance across source buckets" error after   *)
(* the loop cannot be reached.                                             *)
THEOREM SplitDebitCovers ==
  ASSUME NEW amount \in Nat, NEW balance \in Balances,
         NEW order \in {WithdrawOrder, ContestOrder},
         Withdrawable(order, balance) >= amount
  PROVE  Total(SplitDebit(amount, order, balance)) = amount
<1>1. CASE order = WithdrawOrder
  BY <1>1 DEF SplitDebit, Available, TakenEarlier, Least, Most, Orders, Balances, Total, Buckets, Spendable, WithdrawOrder, Withdrawable
<1>2. CASE order = ContestOrder
  BY <1>2 DEF SplitDebit, Available, TakenEarlier, Least, Most, Orders, Balances, Total, Buckets, Spendable, ContestOrder, Withdrawable
<1> QED  BY <1>1, <1>2

(* A bucket pays only after every bucket of a smaller rank is empty, so    *)
(* the bonus is consumed last.                                             *)
THEOREM SplitDebitDrainsInOrder ==
  ASSUME NEW amount \in Nat, NEW order \in Orders, NEW balance \in Balances,
         NEW b \in Buckets, NEW c \in Buckets,
         0 < order[c], order[c] < order[b],
         SplitDebit(amount, order, balance)[b] > 0
  PROVE  SplitDebit(amount, order, balance)[c] = Most(balance[c], 0)
<1> DEFINE av == Available(order, balance)
<1>1. av \in [Buckets -> Nat]
  BY DEF Available, Most, Orders, Balances
<1>2. TakenEarlier(order, balance, b) >= TakenEarlier(order, balance, c) + av[c]
  <2> HIDE DEF av
  <2> DEFINE before(x) == [d \in Buckets |-> IF order[d] < order[x] THEN av[d] ELSE 0]
  <2>1. \A d \in Buckets \ {c} : before(b)[d] >= before(c)[d]
    BY <1>1 DEF Orders
  <2>2. before(b)[c] = av[c] /\ before(c)[c] = 0
    BY <1>1 DEF Orders
  <2>3. before(b) \in [Buckets -> Nat] /\ before(c) \in [Buckets -> Nat]
    BY <1>1
  <2> HIDE DEF before
  <2>4. Total(before(b)) >= Total(before(c)) + av[c]
    BY <2>1, <2>2, <2>3, <1>1 DEF Total, Buckets, Spendable
  <2> QED  BY <2>4 DEF TakenEarlier, before, av
<1>3. /\ TakenEarlier(order, balance, b) \in Nat
      /\ TakenEarlier(order, balance, c) \in Nat
  BY <1>1 DEF TakenEarlier, Total, Buckets, Spendable
<1>4. amount - TakenEarlier(order, balance, b) > 0
  BY <1>1, <1>3 DEF SplitDebit, Least, Most
<1>5. SplitDebit(amount, order, balance)[c] = av[c]
  BY <1>1, <1>2, <1>3, <1>4 DEF SplitDebit, Least, Most
<1> QED  BY <1>5 DEF Available

-----------------------------------------------------------------------------
(* Type correctness *)

(* A call whose pc is not idle or failed is a full call record.            *)
LEMMA CallRecord ==
  ASSUME TypeOK, NEW r \in Requests, req[r].pc \notin {"idle", "failed"}
  PROVE  req[r] \in Calls
BY DEF TypeOK, NoCalls

(* The entry lists the operations build are entry lists.                   *)
LEMMA EntryListTypes ==
  ASSUME NEW b \in Buckets, NEW a \in Nat
  PROVE  /\ CreditTo(b, a) \in EntryLists
         /\ DebitFrom(b, a) \in EntryLists
         /\ NoEntries \in EntryLists
BY OnlyType DEF CreditTo, DebitFrom, NoEntries, EntryLists

LEMMA MoveType ==
  ASSUME NEW b \in Buckets, NEW a \in Nat, NEW f \in [Buckets -> Nat]
  PROVE  /\ Move(f, b, a) \in EntryLists
         /\ [debit |-> f, credit |-> Nothing] \in EntryLists
BY OnlyType DEF Move, EntryLists

LEMMA CompensatingType ==
  ASSUME NEW e \in EntryLists
  PROVE  Compensating(e) \in EntryLists
BY DEF Compensating, EntryLists

(* Beginning a call with well-typed arguments keeps the types.             *)
LEMMA ApplyType ==
  ASSUME TypeOK, NEW r \in Requests, NEW type \in TxTypes, NEW a \in Nat,
         NEW k \in Keys, NEW e \in EntryLists, NEW i \in Nat,
         Apply(r, type, a, k, e, i)
  PROVE  TypeOK'
<1>1. Nothing \in Balances
  BY OnlyType DEF Buckets
<1>2. [pc |-> "lookup", type |-> type, amount |-> a, key |-> k, entries |-> e,
       snapshot |-> Nothing, reverses |-> i, result |-> 0] \in Calls
  BY <1>1 DEF Calls, InFlight
<1> QED  BY <1>2 DEF TypeOK, Apply

LEMMA InvokeType ==
  ASSUME TypeOK, NEW r \in Requests, Invoke(r)
  PROVE  TypeOK'
<1>1. PICK k \in Keys :
        \/ \E a \in Amounts :
             \/ Deposit(r, a, k)
             \/ Withdraw(r, a, k)
             \/ LockForWithdrawal(r, a, k)
             \/ CompleteWithdrawalFromLock(r, a, k)
             \/ ReleaseWithdrawalLock(r, a, k)
             \/ LockForContest(r, a, k)
             \/ RefundContest(r, a, k)
             \/ CreditWinning(r, a, k)
             \/ CreditBonus(r, a, k)
             \/ AdminAdjust(r, a, k)
        \/ ReverseTransaction(r, k)
  BY DEF Invoke
<1>2. ASSUME NEW a \in Amounts,
             \/ Deposit(r, a, k)
             \/ Withdraw(r, a, k)
             \/ LockForWithdrawal(r, a, k)
             \/ CompleteWithdrawalFromLock(r, a, k)
             \/ ReleaseWithdrawalLock(r, a, k)
             \/ LockForContest(r, a, k)
             \/ RefundContest(r, a, k)
             \/ CreditWinning(r, a, k)
             \/ CreditBonus(r, a, k)
             \/ AdminAdjust(r, a, k)
      PROVE  TypeOK'
  <2>1. a \in Nat
    BY WalletAssumption
  <2>2. {"DEPOSIT", "WINNING", "BONUS", "LOCKED"} = Buckets
    BY DEF Buckets, Spendable
  <2>3. Only("LOCKED", a) \in [Buckets -> Nat]
    BY <2>1, <2>2, OnlyType
  <2>4. /\ SplitDebit(a, WithdrawOrder, wallet.balance) \in [Buckets -> Nat]
        /\ SplitDebit(a, ContestOrder, wallet.balance) \in [Buckets -> Nat]
    BY <2>1, OrdersType, SplitDebitType DEF TypeOK, Wallets
  <2>a. CASE Deposit(r, a, k)
    BY <2>a, <2>1, <2>2, <2>3, EntryListTypes, ApplyType DEF Deposit, TxTypes
  <2>b. CASE Withdraw(r, a, k)
    BY <2>b, <2>1, <2>2, <2>4, MoveType, ApplyType DEF Withdraw, TxTypes
  <2>c. CASE LockForWithdrawal(r, a, k)
    BY <2>c, <2>1, <2>2, <2>4, MoveType, ApplyType DEF LockForWithdrawal, TxTypes
  <2>d. CASE CompleteWithdrawalFromLock(r, a, k)
    BY <2>d, <2>1, <2>2, <2>3, EntryListTypes, ApplyType
    DEF CompleteWithdrawalFromLock, TxTypes
  <2>e. CASE ReleaseWithdrawalLock(r, a, k)
    BY <2>e, <2>1, <2>2, <2>3, MoveType, ApplyType
    DEF ReleaseWithdrawalLock, TxTypes
  <2>f. CASE LockForContest(r, a, k)
    BY <2>f, <2>1, <2>2, <2>4, MoveType, ApplyType DEF LockForContest, TxTypes
  <2>g. CASE RefundContest(r, a, k)
    BY <2>g, <2>1, <2>2, <2>3, MoveType, ApplyType DEF RefundContest, TxTypes
  <2>h. CASE CreditWinning(r, a, k)
    BY <2>h, <2>1, <2>2, <2>3, EntryListTypes, ApplyType DEF CreditWinning, TxTypes
  <2>i. CASE CreditBonus(r, a, k)
    BY <2>i, <2>1, <2>2, <2>3, EntryListTypes, ApplyType DEF CreditBonus, TxTypes
  <2>j. CASE AdminAdjust(r, a, k)
    <3>1. PICK b \in Spendable :
            \/ Apply(r, "ADMIN_ADJUSTMENT", a, k, CreditTo(b, a), 0)
            \/ Apply(r, "ADMIN_ADJUSTMENT", a, k, DebitFrom(b, a), 0)
      BY <2>j DEF AdminAdjust
    <3>2. b \in Buckets /\ "ADMIN_ADJUSTMENT" \in TxTypes
      BY DEF Buckets, TxTypes
    <3>3. CreditTo(b, a) \in EntryLists /\ DebitFrom(b, a) \in EntryLists
      BY <2>1, <2>3, <3>2, EntryListTypes
    <3> QED  BY <2>1, <3>1, <3>2, <3>3, ApplyType
  <2> QED  BY <1>2, <2>a, <2>b, <2>c, <2>d, <2>e, <2>f, <2>g, <2>h, <2>i, <2>j
<1>3. CASE ReverseTransaction(r, k)
  <2>1. PICK i \in DOMAIN txns :
          Apply(r, "ADMIN_ADJUSTMENT", txns[i].amount, k,
                Compensating(ledger[i].entries), i)
    BY <1>3 DEF ReverseTransaction
  <2>2. txns[i] \in Transactions /\ ledger[i] \in LedgerRows /\ i \in Nat
    BY ElementOfSeq DEF TypeOK
  <2>3. /\ Compensating(ledger[i].entries) \in EntryLists
        /\ txns[i].amount \in Nat
    BY <2>2, CompensatingType DEF Transactions, LedgerRows
  <2> QED  BY <2>1, <2>2, <2>3, ApplyType DEF TxTypes
<1> QED  BY <1>1, <1>2, <1>3

(* Handing transaction i back to the calling method keeps a call record.   *)
LEMMA ReturnType ==
  ASSUME TypeOK, NEW r \in Requests, NEW i \in Nat,
         req[r].pc \in InFlight, Return(r, i)
  PROVE  req' \in [Requests -> Calls \cup NoCalls]
<1>1. req[r] \in Calls
  BY CallRecord DEF InFlight
<1>2. Nothing \in Balances /\ NoEntries \in EntryLists
  BY OnlyType, EntryListTypes DEF Buckets
<1>3. [req[r] EXCEPT !.pc = IF req[r].reverses = 0 THEN "done" ELSE "mark",
                     !.entries = NoEntries, !.snapshot = Nothing, !.result = i]
        \in Calls
  BY <1>1, <1>2 DEF Calls, InFlight
<1> QED  BY <1>3 DEF Return, TypeOK

LEMMA FailType ==
  ASSUME TypeOK, NEW r \in Requests, Fail(r)
  PROVE  TypeOK'
BY DEF TypeOK, Fail, Failed, NoCalls

(* A committed transaction is a well-typed row, and so are its ledger rows *)
(* and the wallet it leaves behind.                                        *)
LEMMA CommitType ==
  ASSUME TypeOK, NEW r \in Requests, Commit(r)
  PROVE  TypeOK'
<1>1. req[r] \in Calls /\ req[r].pc = "commit"
  BY CallRecord DEF Commit
<1>2. /\ req[r].entries \in EntryLists
      /\ req[r].snapshot \in Balances
      /\ wallet.balance \in Balances
  BY <1>1 DEF Calls, TypeOK, Wallets
<1>3. AddDeltas(wallet.balance, req[r].entries) \in Balances
  BY <1>2, AddDeltasType
<1>4. Transaction(r, AddDeltas(wallet.balance, req[r].entries)) \in Transactions
  BY <1>1, <1>2, <1>3 DEF Transaction, Transactions, Calls
<1>5. txns' \in Seq(Transactions) /\ Len(txns') = Len(txns) + 1
  BY <1>4, AppendProperties DEF Commit, RecordTransaction, TypeOK
<1>6. ledger' \in Seq(LedgerRows) /\ Len(ledger') = Len(ledger) + 1
  <2>1. [entries |-> req[r].entries, before |-> req[r].snapshot] \in LedgerRows
    BY <1>2 DEF LedgerRows
  <2> QED  BY <2>1, AppendProperties DEF Commit, InsertLedgerRows, TypeOK
<1>7. wallet' \in Wallets
  <2>1. Total(req[r].entries.credit) \in Nat /\ Total(req[r].entries.debit) \in Nat
    BY <1>2, TotalType DEF EntryLists
  <2>2. /\ wallet \in Wallets
        /\ wallet.credited \in Nat /\ wallet.debited \in Nat /\ wallet.count \in Nat
    BY DEF TypeOK, Wallets
  <2>3. wallet' = [wallet EXCEPT
          !.balance = AddDeltas(wallet.balance, req[r].entries),
          !.credited = wallet.credited + Total(req[r].entries.credit),
          !.debited = wallet.debited + Total(req[r].entries.debit),
          !.count = wallet.count + 1]
    BY <2>2 DEF Commit, ApplyBalanceDelta
  <2>4. /\ wallet.credited + Total(req[r].entries.credit) \in Nat
        /\ wallet.debited + Total(req[r].entries.debit) \in Nat
        /\ wallet.count + 1 \in Nat
    BY <2>1, <2>2
  <2> HIDE <2>1
  <2> QED  BY <1>3, <2>2, <2>3, <2>4 DEF Wallets
<1>8. req' \in [Requests -> Calls \cup NoCalls]
  BY <1>1, ReturnType DEF Commit, InFlight, TypeOK
<1> QED  BY <1>5, <1>6, <1>7, <1>8 DEF TypeOK

LEMMA StepType ==
  ASSUME TypeOK, NEW r \in Requests, Step(r)
  PROVE  TypeOK'
<1>1. ASSUME req[r].pc \in InFlight,
             NEW i \in DOMAIN txns, Return(r, i), UNCHANGED <<wallet, txns, ledger>>
      PROVE  TypeOK'
  BY <1>1, ReturnType DEF TypeOK
<1>2. CASE Replay(r)
  BY <1>2, <1>1 DEF Replay, FindByIdempotencyKey, InFlight
<1>3. CASE RefuseCall(r)
  BY <1>3, FailType DEF RefuseCall
<1>4. CASE LookupMiss(r)
  <2>1. req[r] \in Calls
    BY <1>4, CallRecord DEF LookupMiss
  <2>2. [req[r] EXCEPT !.pc = "load"] \in Calls
    BY <2>1 DEF Calls, InFlight
  <2> QED  BY <1>4, <2>2 DEF LookupMiss, TypeOK
<1>5. CASE Load(r)
  <2>1. req[r] \in Calls /\ wallet.balance \in Balances
    BY <1>5, CallRecord DEF Load, TypeOK, Wallets
  <2>2. [req[r] EXCEPT !.pc = "commit", !.snapshot = wallet.balance] \in Calls
    BY <2>1 DEF Calls, InFlight
  <2> QED  BY <1>5, <2>2 DEF Load, TypeOK
<1>6. CASE RefuseFrozen(r)
  BY <1>6, FailType DEF RefuseFrozen
<1>7. CASE Commit(r)
  BY <1>7, CommitType
<1>8. CASE DuplicateKey(r)
  BY <1>8, <1>1, FailType DEF DuplicateKey, FindByIdempotencyKey, InFlight
<1>9. CASE RefuseInsufficient(r)
  BY <1>9, FailType DEF RefuseInsufficient
<1>10. CASE MarkReversed(r)
  <2>1. req[r] \in Calls
    BY <1>10, CallRecord DEF MarkReversed
  <2>2. [req[r] EXCEPT !.pc = "done"] \in Calls
    BY <2>1 DEF Calls
  <2>3. req' \in [Requests -> Calls \cup NoCalls]
    BY <1>10, <2>2 DEF MarkReversed, TypeOK
  <2>4. txns' \in Seq(Transactions) /\ Len(txns') = Len(txns)
    <3> DEFINE i == req[r].reverses
               t == [txns[i] EXCEPT !.status = "REVERSED",
                                    !.reversedBy = req[r].result]
    <3>1. txns' = [txns EXCEPT ![i] = t]
      BY <1>10 DEF MarkReversed, TypeOK
    <3>2. CASE i \in DOMAIN txns
      <4>1. txns[i] \in Transactions /\ req[r].result \in Nat
        BY <2>1, <3>2, ElementOfSeq DEF TypeOK, Calls
      <4>2. t \in Transactions
        BY <4>1 DEF Transactions
      <4> QED  BY <3>1, <3>2, <4>2, ExceptSeq DEF TypeOK
    <3>3. CASE i \notin DOMAIN txns
      <4>1. txns \in Seq(Transactions) /\ DOMAIN txns = 1 .. Len(txns)
        BY LenProperties DEF TypeOK
      <4>2. txns = [j \in 1 .. Len(txns) |-> txns[j]]
        BY <4>1
      <4> HIDE DEF t
      <4>3. [txns EXCEPT ![i] = t] = [j \in 1 .. Len(txns) |-> txns[j]]
        BY <3>3, <4>1, Zenon
      <4> QED  BY <3>1, <4>1, <4>2, <4>3
    <3> QED  BY <3>2, <3>3
  <2> QED  BY <1>10, <2>3, <2>4 DEF MarkReversed, TypeOK
<1> QED  BY <1>2, <1>3, <1>4, <1>5, <1>6, <1>7, <1>8, <1>9, <1>10 DEF Step

(* Every reachable state is well typed, and every transaction has its own  *)
(* ledger rows.                                                            *)
THEOREM Typing == Spec => []TypeOK
<1>1. Init => TypeOK
  BY WalletAssumption
  DEF Init, TypeOK, Wallets, WalletStatuses, Idle, NoCalls, Balances
<1>2. TypeOK /\ [Next]_vars => TypeOK'
  <2> SUFFICES ASSUME TypeOK, [Next]_vars PROVE TypeOK'
    OBVIOUS
  <2>1. ASSUME NEW r \in Requests, Invoke(r) PROVE TypeOK'
    BY <2>1, InvokeType
  <2>2. ASSUME NEW r \in Requests, Step(r) PROVE TypeOK'
    BY <2>2, StepType
  <2>3. ASSUME NEW r \in Requests, Crash(r) PROVE TypeOK'
    BY <2>3, FailType DEF Crash
  <2>4. ASSUME NEW st \in WalletStatuses, SetWalletStatus(st) PROVE TypeOK'
    BY <2>4 DEF SetWalletStatus, TypeOK, Wallets
  <2>5. CASE UNCHANGED vars
    BY <2>5 DEF vars, TypeOK
  <2> QED  BY <2>1, <2>2, <2>3, <2>4, <2>5 DEF Next
<1> QED  BY <1>1, <1>2, PTL DEF Spec

-----------------------------------------------------------------------------
(* The inductive invariant: what the recorded history looks like, and what *)
(* a call in flight may rely on.  CallsOK is the strengthening: a commit   *)
(* keeps ReversalInverts only because a reversal still carries the inverse *)
(* of rows that cannot have changed since it read them, and an answer      *)
(* belongs to its key only because a call waiting to mark already did.     *)

HistoryOK ==
  HistoryChains /\ KeyMovesMoneyOnce /\ OverdraftNeedsStaleRead /\ ReversalInverts

CallOK(r) ==
  /\ req[r].pc \in {"lookup", "load", "commit"} /\ req[r].reverses # 0 =>
       /\ req[r].reverses \in DOMAIN txns
       /\ req[r].entries = Compensating(ledger[req[r].reverses].entries)
  /\ req[r].pc \in {"load", "commit"} => EntriesBalanced(req[r].entries, req[r].amount)
  /\ req[r].pc = "mark" => req[r].reverses \in DOMAIN txns
  /\ req[r].pc \in {"mark", "done"} =>
       /\ req[r].result \in DOMAIN txns
       /\ txns[req[r].result].key = req[r].key

CallsOK == \A r \in Requests : CallOK(r)

IInv == TypeOK /\ HistoryOK /\ CallsOK

(* The history depends on the two collections and the balances alone.      *)
LEMMA SameHistory ==
  ASSUME HistoryOK, UNCHANGED <<txns, ledger>>,
         wallet'.balance = wallet.balance, wallet'.count = wallet.count
  PROVE  HistoryOK'
BY DEF HistoryOK, HistoryChains, BalanceAfter, KeyMovesMoneyOnce,
       OverdraftNeedsStaleRead, ReversalInverts

(* A step of one call leaves what the others rely on, when it leaves the   *)
(* collections alone.                                                      *)
LEMMA OtherCalls ==
  ASSUME TypeOK, CallsOK, NEW r \in Requests, UNCHANGED <<txns, ledger>>,
         \A q \in Requests \ {r} : req'[q] = req[q],
         CallOK(r)'
  PROVE  CallsOK'
BY DEF CallsOK, CallOK

LEMMA InvokeInv ==
  ASSUME IInv, NEW r \in Requests, Invoke(r)
  PROVE  HistoryOK' /\ CallsOK'
<1>1. ASSUME NEW type, NEW a, NEW k, NEW e, Apply(r, type, a, k, e, 0)
      PROVE  HistoryOK' /\ CallsOK'
  <2>1. CallOK(r)'
    BY <1>1 DEF Apply, CallOK, IInv, TypeOK
  <2> QED  BY <1>1, <2>1, SameHistory, OtherCalls DEF IInv, Apply, TypeOK
<1>2. ASSUME NEW k, ReverseTransaction(r, k)
      PROVE  HistoryOK' /\ CallsOK'
  <2>1. PICK i \in DOMAIN txns :
          Apply(r, "ADMIN_ADJUSTMENT", txns[i].amount, k,
                Compensating(ledger[i].entries), i)
    BY <1>2 DEF ReverseTransaction
  <2>2. CallOK(r)'
    BY <2>1 DEF Apply, CallOK, IInv, TypeOK
  <2> QED  BY <2>1, <2>2, SameHistory, OtherCalls DEF IInv, Apply, TypeOK
<1> QED
  BY <1>1, <1>2
  DEF Invoke, Deposit, Withdraw, LockForWithdrawal, CompleteWithdrawalFromLock,
      ReleaseWithdrawalLock, LockForContest, RefundContest, CreditWinning,
      CreditBonus, AdminAdjust

LEMMA FailInv ==
  ASSUME IInv, NEW r \in Requests, Fail(r)
  PROVE  HistoryOK' /\ CallsOK'
<1>1. CallOK(r)'
  BY DEF Fail, Failed, CallOK, IInv, TypeOK
<1> QED  BY <1>1, SameHistory, OtherCalls DEF IInv, Fail, TypeOK

(* Handing over a transaction recorded under the call's own key.           *)
LEMMA ReturnInv ==
  ASSUME IInv, NEW r \in Requests, NEW i \in FindByIdempotencyKey(req[r].key),
         req[r].pc \in {"lookup", "commit"}, Return(r, i),
         UNCHANGED <<wallet, txns, ledger>>
  PROVE  HistoryOK' /\ CallsOK'
<1>1. i \in DOMAIN txns /\ txns[i].key = req[r].key
  BY DEF FindByIdempotencyKey
<1>2. req[r] \in Calls
  BY CallRecord DEF IInv
<1>3. CallOK(r)'
  BY <1>1, <1>2 DEF Return, CallOK, CallsOK, IInv, TypeOK, Calls
<1> QED  BY <1>3, SameHistory, OtherCalls DEF IInv, Return, TypeOK

(* A commit appends one transaction and its rows, whose key was free.      *)
LEMMA CommitInv ==
  ASSUME IInv, NEW r \in Requests, Commit(r)
  PROVE  HistoryOK' /\ CallsOK'
<1>0. PICK n \in Nat : n = Len(txns)
  BY DEF IInv, TypeOK
<1> DEFINE e == req[r].entries
           t == Transaction(r, AddDeltas(wallet.balance, e))
           row == [entries |-> e, before |-> req[r].snapshot]
<1>1. /\ req[r] \in Calls /\ e \in EntryLists
      /\ req[r].snapshot \in Balances /\ wallet.balance \in Balances
  BY CallRecord DEF IInv, Commit, Calls, TypeOK, Wallets
<1>2. /\ n \in Nat /\ DOMAIN txns = 1 .. n /\ DOMAIN ledger = 1 .. n
      /\ DOMAIN txns' = 1 .. (n + 1) /\ DOMAIN ledger' = 1 .. (n + 1)
      /\ Len(txns') = n + 1 /\ Len(ledger') = n + 1
      /\ \A i \in 1 .. n : txns'[i] = txns[i] /\ ledger'[i] = ledger[i]
      /\ txns'[n + 1] = t /\ ledger'[n + 1] = row
  BY <1>0 DEF IInv, TypeOK, Commit, RecordTransaction, InsertLedgerRows
<1>3. /\ t.key = req[r].key /\ t.before = req[r].snapshot
      /\ t.after = AddDeltas(wallet.balance, e)
      /\ t.reverses = req[r].reverses
      /\ row.entries = e
  BY DEF Transaction
<1>4. /\ wallet'.balance = AddDeltas(wallet.balance, e)
      /\ wallet'.count = wallet.count + 1
  BY DEF Commit, ApplyBalanceDelta, IInv, TypeOK, Wallets
<1>5. wallet.balance = BalanceAfter(n) /\ wallet.count = n
  BY <1>0 DEF IInv, HistoryOK, HistoryChains
<1>6. \A i \in 0 .. n : BalanceAfter(i)' = BalanceAfter(i)
  BY <1>2 DEF BalanceAfter
<1> HIDE DEF t, row, e
<1>7. HistoryChains'
  <2>1. BalanceAfter(n + 1)' = AddDeltas(wallet.balance, e)
    BY <1>2, <1>3 DEF BalanceAfter
  <2>2. \A i \in 1 .. n : txns'[i].after = AddDeltas(BalanceAfter(i - 1)', ledger'[i].entries)
    BY <1>2, <1>6 DEF IInv, HistoryOK, HistoryChains
  <2>3. t.after = AddDeltas(BalanceAfter(n)', ledger'[n + 1].entries)
    BY <1>2, <1>3, <1>5, <1>6
  <2>4. \A i \in 1 .. (n + 1) : i \in 1 .. n \/ i = n + 1
    BY <1>2
  <2>5. \A i \in DOMAIN txns' :
          txns'[i].after = AddDeltas(BalanceAfter(i - 1)', ledger'[i].entries)
    BY <1>2, <2>2, <2>3, <2>4
  <2> QED  BY <1>2, <1>4, <1>5, <2>1, <2>5 DEF HistoryChains
<1>8. KeyMovesMoneyOnce'
  <2>1. \A i \in 1 .. n : txns[i].key # req[r].key
    BY <1>2 DEF Commit, IndexAdmits, FindByIdempotencyKey
  <2> QED
    BY <1>2, <1>3, <2>1 DEF IInv, HistoryOK, KeyMovesMoneyOnce
<1>9. OverdraftNeedsStaleRead'
  <2>1. ASSUME t.before = BalanceAfter(n), NEW b \in Buckets
        PROVE  t.after[b] >= 0
    BY <1>3, <1>5, <2>1 DEF Commit, ProjectedOK, e
  <2>2. \A i \in 1 .. n : txns'[i].before = BalanceAfter(i - 1)' =>
           \A b \in Buckets : txns'[i].after[b] >= 0
    BY <1>2, <1>6 DEF IInv, HistoryOK, OverdraftNeedsStaleRead
  <2>3. \A i \in 1 .. (n + 1) : i \in 1 .. n \/ i = n + 1
    BY <1>2
  <2>4. BalanceAfter((n + 1) - 1)' = BalanceAfter(n)
    BY <1>2, <1>6
  <2> QED  BY <1>2, <2>1, <2>2, <2>3, <2>4 DEF OverdraftNeedsStaleRead
<1>10. ReversalInverts'
  <2>1. t.reverses # 0 => /\ t.reverses \in 1 .. n
                          /\ e = Compensating(ledger[t.reverses].entries)
    BY <1>2, <1>3 DEF IInv, CallsOK, CallOK, Commit, e
  <2>2. \A i \in 1 .. (n + 1) : i \in 1 .. n \/ i = n + 1
    BY <1>2
  <2>3. \A i \in 1 .. n : txns[i].reverses \in Nat
    <3>1. \A i \in 1 .. n : txns[i] \in Transactions
      BY <1>0, ElementOfSeq DEF IInv, TypeOK
    <3> QED  BY <3>1 DEF Transactions
  <2>4. \A i \in 1 .. n : txns'[i].reverses # 0 =>
          /\ txns'[i].reverses < i
          /\ ledger'[i].entries.debit = ledger'[txns'[i].reverses].entries.credit
          /\ ledger'[i].entries.credit = ledger'[txns'[i].reverses].entries.debit
    BY <1>2, <2>3 DEF IInv, HistoryOK, ReversalInverts
  <2>5. t.reverses # 0 =>
          /\ t.reverses < n + 1
          /\ row.entries.debit = ledger'[t.reverses].entries.credit
          /\ row.entries.credit = ledger'[t.reverses].entries.debit
    BY <1>2, <1>3, <2>1 DEF Compensating
  <2> QED  BY <1>2, <2>2, <2>4, <2>5 DEF ReversalInverts
<1>11. CallsOK'
  <2>1. ASSUME NEW q \in Requests \ {r} PROVE CallOK(q)'
    <3>1. req'[q] = req[q]
      BY DEF Commit, Return, IInv, TypeOK
    <3>2. CallOK(q)
      BY DEF IInv, CallsOK
    <3> QED  BY <1>2, <3>1, <3>2 DEF CallOK
  <2>2. CallOK(r)'
    <3>1. /\ req'[r].pc = IF req[r].reverses = 0 THEN "done" ELSE "mark"
          /\ req'[r].result = n + 1
          /\ req'[r].key = req[r].key
          /\ req'[r].reverses = req[r].reverses
      BY <1>0, <1>1 DEF Commit, Return, IInv, TypeOK, Calls
    <3>2. req[r].reverses # 0 => req[r].reverses \in 1 .. n
      BY <1>2 DEF IInv, CallsOK, CallOK, Commit
    <3> QED  BY <1>2, <1>3, <3>1, <3>2 DEF CallOK
  <2> QED  BY <2>1, <2>2 DEF CallsOK
<1> QED  BY <1>7, <1>8, <1>9, <1>10, <1>11 DEF HistoryOK

(* Marking writes the status and the pointer of one transaction, and       *)
(* nothing any part of the invariant reads.                                *)
LEMMA MarkInv ==
  ASSUME IInv, NEW r \in Requests, MarkReversed(r)
  PROVE  HistoryOK' /\ CallsOK'
<1> DEFINE m == req[r].reverses
<1>1. /\ req[r] \in Calls /\ m \in DOMAIN txns
      /\ req[r].result \in DOMAIN txns /\ txns[req[r].result].key = req[r].key
  BY CallRecord DEF IInv, CallsOK, CallOK, MarkReversed
<1>2. /\ DOMAIN txns' = DOMAIN txns /\ Len(txns') = Len(txns)
      /\ UNCHANGED <<wallet, ledger>>
  BY DEF MarkReversed, IInv, TypeOK
<1>3. ASSUME NEW i \in DOMAIN txns
      PROVE  /\ txns'[i].key = txns[i].key
             /\ txns'[i].before = txns[i].before
             /\ txns'[i].after = txns[i].after
             /\ txns'[i].reverses = txns[i].reverses
  <2>1. txns[i] \in Transactions
    BY <1>3, ElementOfSeq DEF IInv, TypeOK
  <2>2. txns'[i] = IF i = m THEN [txns[i] EXCEPT !.status = "REVERSED",
                                                 !.reversedBy = req[r].result]
                            ELSE txns[i]
    BY DEF MarkReversed, IInv, TypeOK
  <2> QED  BY <2>1, <2>2 DEF Transactions
<1>4. \A i \in 0 .. Len(txns) : BalanceAfter(i)' = BalanceAfter(i)
  BY <1>3 DEF BalanceAfter, IInv, TypeOK
<1>5. Len(txns) \in Nat /\ DOMAIN txns = 1 .. Len(txns)
  BY DEF IInv, TypeOK
<1>6. HistoryChains'
  BY <1>2, <1>3, <1>4, <1>5 DEF IInv, HistoryOK, HistoryChains
<1>7. KeyMovesMoneyOnce'
  BY <1>2, <1>3 DEF IInv, HistoryOK, KeyMovesMoneyOnce
<1>8. OverdraftNeedsStaleRead'
  BY <1>2, <1>3, <1>4, <1>5 DEF IInv, HistoryOK, OverdraftNeedsStaleRead
<1>9. ReversalInverts'
  BY <1>2, <1>3 DEF IInv, HistoryOK, ReversalInverts
<1>10. CallsOK'
  <2>1. ASSUME NEW q \in Requests \ {r} PROVE CallOK(q)'
    <3>1. req'[q] = req[q]
      BY DEF MarkReversed, IInv, TypeOK
    <3>2. CallOK(q)
      BY DEF IInv, CallsOK
    <3> QED  BY <1>2, <1>3, <3>1, <3>2 DEF CallOK
  <2>2. CallOK(r)'
    <3>1. /\ req'[r].pc = "done" /\ req'[r].result = req[r].result
          /\ req'[r].key = req[r].key
      BY <1>1 DEF MarkReversed, IInv, TypeOK, Calls
    <3> QED  BY <1>1, <1>2, <1>3, <3>1 DEF CallOK
  <2> QED  BY <2>1, <2>2 DEF CallsOK
<1> QED  BY <1>6, <1>7, <1>8, <1>9, <1>10 DEF HistoryOK

LEMMA StepInv ==
  ASSUME IInv, NEW r \in Requests, Step(r)
  PROVE  HistoryOK' /\ CallsOK'
<1>1. CASE Replay(r)
  BY <1>1, ReturnInv DEF Replay
<1>2. CASE RefuseCall(r)
  BY <1>2, FailInv DEF RefuseCall
<1>3. CASE LookupMiss(r)
  <2>1. req[r] \in Calls /\ CallOK(r)
    BY <1>3, CallRecord DEF IInv, LookupMiss, CallsOK
  <2>2. CallOK(r)'
    BY <1>3, <2>1 DEF LookupMiss, CallOK, IInv, TypeOK, Calls
  <2> QED  BY <1>3, <2>2, SameHistory, OtherCalls DEF IInv, LookupMiss, TypeOK
<1>4. CASE Load(r)
  <2>1. req[r] \in Calls /\ CallOK(r)
    BY <1>4, CallRecord DEF IInv, Load, CallsOK
  <2>2. CallOK(r)'
    BY <1>4, <2>1 DEF Load, CallOK, IInv, TypeOK, Calls
  <2> QED  BY <1>4, <2>2, SameHistory, OtherCalls DEF IInv, Load, TypeOK
<1>5. CASE RefuseFrozen(r)
  BY <1>5, FailInv DEF RefuseFrozen
<1>6. CASE Commit(r)
  BY <1>6, CommitInv
<1>7. CASE DuplicateKey(r)
  BY <1>7, ReturnInv, FailInv DEF DuplicateKey
<1>8. CASE RefuseInsufficient(r)
  BY <1>8, FailInv DEF RefuseInsufficient
<1>9. CASE MarkReversed(r)
  BY <1>9, MarkInv
<1> QED  BY <1>1, <1>2, <1>3, <1>4, <1>5, <1>6, <1>7, <1>8, <1>9 DEF Step

(* The inductive invariant holds in every reachable state.                 *)
THEOREM Invariance == Spec => []IInv
<1>1. Init => IInv
  <2> SUFFICES ASSUME Init PROVE IInv
    OBVIOUS
  <2>1. TypeOK
    BY WalletAssumption
    DEF Init, TypeOK, Wallets, WalletStatuses, Idle, NoCalls, Balances
  <2>2. HistoryOK
    BY DEF Init, HistoryOK, HistoryChains, BalanceAfter, KeyMovesMoneyOnce,
           OverdraftNeedsStaleRead, ReversalInverts
  <2>3. CallsOK
    BY DEF Init, Idle, CallsOK, CallOK
  <2> QED  BY <2>1, <2>2, <2>3 DEF IInv
<1>2. IInv /\ TypeOK' /\ [Next]_vars => IInv'
  <2> SUFFICES ASSUME IInv, TypeOK', [Next]_vars PROVE HistoryOK' /\ CallsOK'
    BY DEF IInv
  <2>1. ASSUME NEW r \in Requests, Invoke(r) PROVE HistoryOK' /\ CallsOK'
    BY <2>1, InvokeInv
  <2>2. ASSUME NEW r \in Requests, Step(r) PROVE HistoryOK' /\ CallsOK'
    BY <2>2, StepInv
  <2>3. ASSUME NEW r \in Requests, Crash(r) PROVE HistoryOK' /\ CallsOK'
    BY <2>3, FailInv DEF Crash
  <2>4. ASSUME NEW st \in WalletStatuses, SetWalletStatus(st)
        PROVE  HistoryOK' /\ CallsOK'
    <3>1. UNCHANGED <<txns, ledger, req>> /\ wallet'.balance = wallet.balance
                                         /\ wallet'.count = wallet.count
      BY <2>4 DEF SetWalletStatus, IInv, TypeOK, Wallets
    <3> QED  BY <3>1, SameHistory DEF IInv, CallsOK, CallOK
  <2>5. CASE UNCHANGED vars
    BY <2>5, SameHistory DEF vars, IInv, CallsOK, CallOK
  <2> QED  BY <2>1, <2>2, <2>3, <2>4, <2>5 DEF Next
<1> QED  BY <1>1, <1>2, Typing, PTL DEF Spec

-----------------------------------------------------------------------------
(* The sums of the ledger.  SumFunction folds over the indices in an order *)
(* nobody knows; that a row appended to the ledger adds its own amount to  *)
(* the sum follows by induction over finite sets, which the library gives  *)
(* as well-foundedness of the strict subset relation.                      *)

(* A set of subsets of a finite set has a smallest one: induction over     *)
(* finite sets, without an operator for the induction hypothesis.          *)
LEMMA SmallestSubset ==
  ASSUME NEW S, IsFiniteSet(S), NEW B \in SUBSET SUBSET S, B # {}
  PROVE  \E T \in B : \A U \in B : U \subseteq T => U = T
<1>1. IsWellFoundedOn(StrictSubsetOrdering(S), SUBSET S)
  BY FS_StrictSubsetOrderingWellFounded, FS_FiniteSubsetsOfFinite
<1>2. PICK T \in B : \A U \in B : ~ (<<U, T>> \in StrictSubsetOrdering(S))
  BY <1>1, WFMin
<1>3. ASSUME NEW U \in B, U \subseteq T, U # T PROVE FALSE
  <2>1. U \in SUBSET S /\ T \in SUBSET S
    OBVIOUS
  <2>2. <<U, T>> \in StrictSubsetOrdering(S)
    BY <1>3, <2>1 DEF StrictSubsetOrdering
  <2> QED
    BY <1>2, <2>2
<1> QED
  BY <1>3

(* What the folds of the community modules compute to add up f over S.     *)
Choice(T) == CHOOSE x \in T : TRUE
Iterates(g, f, S) ==
  g = [T \in SUBSET S |-> IF T = {} THEN 0 ELSE f[Choice(T)] + g[T \ {Choice(T)}]]
SumOver(f, S) == (CHOOSE g : Iterates(g, f, S))[S]

Additive(g, f, S) ==
  /\ g \in [SUBSET S -> Int]
  /\ g[{}] = 0
  /\ \A T \in SUBSET S : \A x \in S \ T : g[T \cup {x}] = f[x] + g[T]

LEMMA AdditiveExists ==
  ASSUME NEW S, IsFiniteSet(S), NEW f, \A x \in S : f[x] \in Int
  PROVE  \E g : Additive(g, f, S)
<1> DEFINE B == {T \in SUBSET S : ~ \E g : Additive(g, f, T)}
<1> SUFFICES ASSUME B # {} PROVE FALSE
  OBVIOUS
<1>1. PICK T \in B : \A U \in B : U \subseteq T => U = T
  <2> HIDE DEF B
  <2>1. B \in SUBSET SUBSET S
    BY DEF B
  <2> QED
    BY <2>1, SmallestSubset
<1>2. CASE T = {}
  <2>1. Additive([U \in SUBSET T |-> 0], f, T)
    BY <1>2 DEF Additive
  <2> QED
    BY <2>1
<1>3. ASSUME NEW y \in T PROVE FALSE
  <2> DEFINE R == T \ {y}
  <2>1. PICK g : Additive(g, f, R)
    <3>1. R \notin B /\ R \in SUBSET S
      BY <1>1, <1>3
    <3> QED
      BY <3>1
  <2> DEFINE h == [U \in SUBSET T |-> IF y \in U THEN f[y] + g[U \ {y}] ELSE g[U]]
  <2>2. f[y] \in Int
    BY <1>3
  <2>3. \A U \in SUBSET T : U \ {y} \in SUBSET R /\ (y \notin U => U \in SUBSET R)
    OBVIOUS
  <2>4. g \in [SUBSET R -> Int] /\ g[{}] = 0
    BY <2>1 DEF Additive
  <2>5. h \in [SUBSET T -> Int] /\ h[{}] = 0
    <3> HIDE DEF R
    <3> QED
      BY <2>2, <2>3, <2>4
  <2>6. ASSUME NEW U \in SUBSET T, NEW x \in T \ U
        PROVE  h[U \cup {x}] = f[x] + h[U]
    <3>1. U \cup {x} \in SUBSET T /\ f[x] \in Int
      BY <2>6
    <3>2. CASE x = y
      <4>1. (U \cup {x}) \ {y} = U
        BY <2>6, <3>2
      <4> QED
        BY <2>6, <3>1, <3>2, <4>1
    <3>3. CASE x # y /\ y \in U
      <4>1. (U \cup {x}) \ {y} = (U \ {y}) \cup {x}
        BY <3>3
      <4>2. g[(U \ {y}) \cup {x}] = f[x] + g[U \ {y}]
        BY <2>1, <2>6, <3>3 DEF Additive
      <4>3. h[U \cup {x}] = f[y] + (f[x] + g[U \ {y}]) /\ h[U] = f[y] + g[U \ {y}]
        BY <2>6, <3>1, <3>3, <4>1, <4>2
      <4>4. g[U \ {y}] \in Int
        BY <2>3, <2>4
      <4> HIDE DEF h
      <4> QED
        BY <2>2, <3>1, <4>3, <4>4
    <3>4. CASE x # y /\ y \notin U
      <4>1. g[U \cup {x}] = f[x] + g[U]
        BY <2>1, <2>6, <3>4 DEF Additive
      <4> QED
        BY <2>6, <3>1, <3>4, <4>1
    <3> QED
      BY <3>2, <3>3, <3>4
  <2>7. Additive(h, f, T)
    <3> HIDE DEF h
    <3> QED
      BY <2>5, <2>6 DEF Additive
  <2> QED
    BY <1>1, <2>7
<1> QED
  BY <1>2, <1>3

(* Of the functions a fold may choose, there is one, and it is additive.   *)
LEMMA SumIsAdditive ==
  ASSUME NEW S, IsFiniteSet(S), NEW f, NEW g, Additive(g, f, S)
  PROVE  SumOver(f, S) = g[S]
<1>1. Iterates(g, f, S)
  <2>1. ASSUME NEW T \in SUBSET S, T # {}
        PROVE  g[T] = f[Choice(T)] + g[T \ {Choice(T)}]
    <3> DEFINE x == Choice(T)
               U == T \ {x}
    <3>1. x \in T
      BY <2>1 DEF Choice
    <3> HIDE DEF x
    <3>2. U \in SUBSET S /\ x \in S \ U /\ U \cup {x} = T
      BY <3>1
    <3> HIDE DEF U
    <3>3. g[T] = f[x] + g[U]
      BY <3>2 DEF Additive
    <3> QED
      BY <3>3 DEF x, U
  <2> DEFINE it == [T \in SUBSET S |-> IF T = {} THEN 0 ELSE f[Choice(T)] + g[T \ {Choice(T)}]]
  <2>2. \A T \in SUBSET S : g[T] = it[T]
    BY <2>1 DEF Additive
  <2>3. g = it
    <3>1. g \in [SUBSET S -> Int]
      BY DEF Additive
    <3> QED
      BY <2>2, <3>1
  <2> QED
    BY <2>3 DEF Iterates
<1> DEFINE h == CHOOSE k : Iterates(k, f, S)
<1>2. Iterates(h, f, S)
  BY <1>1
<1> HIDE DEF h
<1> DEFINE B == {T \in SUBSET S : h[T] # g[T]}
<1>3. B = {}
  <2> SUFFICES ASSUME B # {} PROVE FALSE
    OBVIOUS
  <2>1. PICK T \in B : \A U \in B : U \subseteq T => U = T
    <3> HIDE DEF B
    <3>1. B \in SUBSET SUBSET S
      BY DEF B
    <3> QED
      BY <3>1, SmallestSubset
  <2>2. T # {}
    BY <1>1, <1>2 DEF Iterates
  <2>3. Choice(T) \in T
    BY <2>2 DEF Choice
  <2>4. h[T \ {Choice(T)}] = g[T \ {Choice(T)}]
    BY <2>1, <2>3
  <2>5. h[T] = g[T]
    BY <1>1, <1>2, <2>2, <2>4 DEF Iterates
  <2> QED
    BY <2>5
<1>4. h[S] = g[S]
  BY <1>3
<1> QED
  BY <1>4 DEF SumOver, h

LEMMA SumEmpty == ASSUME NEW f PROVE SumOver(f, {}) = 0
<1> DEFINE g == [T \in SUBSET {} |-> 0]
<1>1. Additive(g, f, {})
  BY DEF Additive
<1> HIDE DEF g
<1> QED
  BY <1>1, SumIsAdditive, FS_EmptySet DEF Additive

(* One more summand adds itself.                                           *)
LEMMA SumAdd ==
  ASSUME NEW S, IsFiniteSet(S), NEW y, y \notin S,
         NEW f, \A x \in S : f[x] \in Int,
         NEW e, e[y] \in Int, \A x \in S : e[x] = f[x]
  PROVE  /\ SumOver(f, S) \in Int
         /\ SumOver(e, S \cup {y}) = e[y] + SumOver(f, S)
<1> DEFINE W == S \cup {y}
<1>1. IsFiniteSet(W) /\ \A x \in W : e[x] \in Int
  BY FS_AddElement
<1>2. PICK g : Additive(g, e, W)
  BY <1>1, AdditiveExists
<1> DEFINE h == [T \in SUBSET S |-> g[T]]
<1>3. Additive(h, f, S)
  BY <1>2 DEF Additive
<1>4. SumOver(f, S) = g[S]
  BY <1>3, SumIsAdditive
<1>5. g[W] = e[y] + g[S] /\ g[S] \in Int
  BY <1>2 DEF Additive
<1>6. SumOver(e, W) = g[W]
  BY <1>1, <1>2, SumIsAdditive
<1> QED
  BY <1>4, <1>5, <1>6

(* SumFunction is such a fold over the domain of its function.             *)
LEMMA SumFunctionIsSum == \A f : SumFunction(f) = SumOver(f, DOMAIN f)
BY DEF SumFunction, SumFunctionOnSet, FoldFunctionOnSet, MapThenFoldSet,
       SumOver, Iterates, Choice

(* A history that grows by one amount sums to that amount more.            *)
LEMMA SumOfHistory ==
  ASSUME NEW n \in Nat, NEW f \in [1 .. n -> Int], NEW e \in [1 .. (n + 1) -> Int],
         \A i \in 1 .. n : e[i] = f[i]
  PROVE  SumFunction(f) \in Int /\ SumFunction(e) = SumFunction(f) + e[n + 1]
<1>1. IsFiniteSet(1 .. n) /\ n + 1 \notin 1 .. n
  BY FS_Interval
<1>2. (1 .. n) \cup {n + 1} = 1 .. (n + 1)
  OBVIOUS
<1>3. /\ SumOver(f, 1 .. n) \in Int
      /\ SumOver(e, (1 .. n) \cup {n + 1}) = e[n + 1] + SumOver(f, 1 .. n)
  <2>1. e[n + 1] \in Int /\ \A i \in 1 .. n : f[i] \in Int
    OBVIOUS
  <2> QED  BY <1>1, <2>1, SumAdd
<1>4. DOMAIN f = 1 .. n /\ DOMAIN e = 1 .. (n + 1) /\ e[n + 1] \in Int
  OBVIOUS
<1>5. SumFunction(f) = SumOver(f, 1 .. n)
  BY <1>4, SumFunctionIsSum
<1>6. SumFunction(e) = SumOver(e, (1 .. n) \cup {n + 1})
  BY <1>2, <1>4, SumFunctionIsSum
<1>7. PICK s \in Int : s = SumFunction(f)
  BY <1>3, <1>5
<1>8. SumFunction(e) = e[n + 1] + s
  BY <1>3, <1>5, <1>6, <1>7
<1> QED  BY <1>4, <1>7, <1>8

(* What LedgerReconciles says depends on three fields and the ledger.      *)
LEMMA SameSums ==
  ASSUME LedgerReconciles, UNCHANGED ledger,
         wallet'.balance = wallet.balance,
         wallet'.credited = wallet.credited, wallet'.debited = wallet.debited
  PROVE  LedgerReconciles'
BY DEF LedgerReconciles, ComputeBucketBalance

(* A commit adds the same rows to the ledger and to the wallet.            *)
LEMMA CommitSums ==
  ASSUME IInv, LedgerReconciles, NEW r \in Requests, Commit(r)
  PROVE  LedgerReconciles'
<1>0. PICK n \in Nat : n = Len(ledger)
  BY DEF IInv, TypeOK
<1> DEFINE e == req[r].entries
<1>1. e \in EntryLists /\ wallet.balance \in Balances
  BY CallRecord DEF IInv, Commit, Calls, TypeOK, Wallets
<1>2. /\ DOMAIN ledger = 1 .. n /\ DOMAIN ledger' = 1 .. (n + 1)
      /\ \A i \in 1 .. n : ledger'[i] = ledger[i]
      /\ ledger'[n + 1].entries = e
  BY <1>0 DEF IInv, TypeOK, Commit, InsertLedgerRows
<1>3. \A i \in 1 .. n : ledger[i].entries \in EntryLists
  <2>1. \A i \in 1 .. n : ledger[i] \in LedgerRows
    BY <1>0, <1>2, ElementOfSeq DEF IInv, TypeOK
  <2> QED  BY <2>1 DEF LedgerRows
<1>4. \A i \in 1 .. (n + 1) : ledger'[i].entries \in EntryLists
  BY <1>1, <1>2, <1>3
<1>5. /\ wallet'.balance = AddDeltas(wallet.balance, e)
      /\ wallet'.credited = wallet.credited + Total(e.credit)
      /\ wallet'.debited = wallet.debited + Total(e.debit)
      /\ wallet.credited \in Nat /\ wallet.debited \in Nat
  BY DEF Commit, ApplyBalanceDelta, IInv, TypeOK, Wallets
<1> HIDE DEF e
<1>6. ASSUME NEW b \in Buckets
      PROVE  wallet'.balance[b] = Opening[b] + ComputeBucketBalance(b)'
  <2> DEFINE f == [i \in 1 .. n |-> ComputeDeltas(ledger[i].entries)[b]]
             g == [i \in 1 .. (n + 1) |-> ComputeDeltas(ledger'[i].entries)[b]]
  <2>1. \A x \in EntryLists : ComputeDeltas(x)[b] \in Int
    BY DEF ComputeDeltas, EntryLists
  <2>2. f \in [1 .. n -> Int] /\ g \in [1 .. (n + 1) -> Int]
    BY <1>3, <1>4, <2>1
  <2>3. \A i \in 1 .. n : g[i] = f[i]
    BY <1>2
  <2>4. g[n + 1] = ComputeDeltas(e)[b]
    BY <1>2
  <2>5. ComputeBucketBalance(b) = SumFunction(f)
    BY <1>2 DEF ComputeBucketBalance
  <2>6. ComputeBucketBalance(b)' = SumFunction(g)
    BY <1>2 DEF ComputeBucketBalance
  <2> HIDE DEF f, g
  <2>7. SumFunction(f) \in Int /\ SumFunction(g) = SumFunction(f) + ComputeDeltas(e)[b]
    BY <2>2, <2>3, <2>4, SumOfHistory
  <2>8. wallet.balance[b] = Opening[b] + SumFunction(f)
    BY <2>5 DEF LedgerReconciles
  <2>9. wallet'.balance[b] = wallet.balance[b] + ComputeDeltas(e)[b]
    BY <1>5 DEF AddDeltas
  <2>10. Opening[b] \in Nat /\ ComputeDeltas(e)[b] \in Int
    BY <1>1, <2>1, WalletAssumption
  <2> HIDE <2>1
  <2> QED  BY <2>6, <2>7, <2>8, <2>9, <2>10
<1>7. wallet'.credited = SumFunction([i \in DOMAIN ledger' |-> Total(ledger'[i].entries.credit)])
  <2> DEFINE f == [i \in 1 .. n |-> Total(ledger[i].entries.credit)]
             g == [i \in 1 .. (n + 1) |-> Total(ledger'[i].entries.credit)]
  <2>1. \A x \in EntryLists : Total(x.credit) \in Nat
    BY TotalType DEF EntryLists
  <2>2. f \in [1 .. n -> Int] /\ g \in [1 .. (n + 1) -> Int]
    BY <1>3, <1>4, <2>1
  <2>3. (\A i \in 1 .. n : g[i] = f[i]) /\ g[n + 1] = Total(e.credit)
    BY <1>2
  <2>4. wallet.credited = SumFunction(f)
    BY <1>2 DEF LedgerReconciles
  <2> HIDE DEF f, g
  <2>5. SumFunction(g) = SumFunction(f) + Total(e.credit)
    BY <2>2, <2>3, SumOfHistory
  <2>6. wallet'.credited = SumFunction(g)
    BY <1>5, <2>4, <2>5
  <2> QED  BY <1>2, <2>6 DEF g
<1>8. wallet'.debited = SumFunction([i \in DOMAIN ledger' |-> Total(ledger'[i].entries.debit)])
  <2> DEFINE f == [i \in 1 .. n |-> Total(ledger[i].entries.debit)]
             g == [i \in 1 .. (n + 1) |-> Total(ledger'[i].entries.debit)]
  <2>1. \A x \in EntryLists : Total(x.debit) \in Nat
    BY TotalType DEF EntryLists
  <2>2. f \in [1 .. n -> Int] /\ g \in [1 .. (n + 1) -> Int]
    BY <1>3, <1>4, <2>1
  <2>3. (\A i \in 1 .. n : g[i] = f[i]) /\ g[n + 1] = Total(e.debit)
    BY <1>2
  <2>4. wallet.debited = SumFunction(f)
    BY <1>2 DEF LedgerReconciles
  <2> HIDE DEF f, g
  <2>5. SumFunction(g) = SumFunction(f) + Total(e.debit)
    BY <2>2, <2>3, SumOfHistory
  <2>6. wallet'.debited = SumFunction(g)
    BY <1>5, <2>4, <2>5
  <2> QED  BY <1>2, <2>6 DEF g
<1> QED  BY <1>6, <1>7, <1>8 DEF LedgerReconciles

-----------------------------------------------------------------------------
(* The properties *)

(* Transaction history, ledger rows and wallet document tell one story:    *)
(* the telescoped form of the reconciliation job's sum.                    *)
THEOREM HistoryAlwaysChains == Spec => []HistoryChains
BY Invariance, PTL DEF IInv, HistoryOK

(* However many retries race, and wherever they crash, one key commits one *)
(* transaction.                                                            *)
THEOREM KeysMoveMoneyOnce == Spec => []KeyMovesMoneyOnce
BY Invariance, PTL DEF IInv, HistoryOK

(* The guard of applyTransactionTxn is exactly as good as its snapshot.    *)
THEOREM OverdraftsNeedStaleReads == Spec => []OverdraftNeedsStaleRead
BY Invariance, PTL DEF IInv, HistoryOK

(* A reversal takes back exactly what its original moved.                  *)
THEOREM ReversalsInvert == Spec => []ReversalInverts
BY Invariance, PTL DEF IInv, HistoryOK

(* An answered call holds a transaction of its own key.                    *)
THEOREM AnswersBelongToKeys == Spec => []AnswerBelongsToKey
<1>1. IInv => AnswerBelongsToKey
  BY DEF IInv, CallsOK, CallOK, AnswerBelongsToKey
<1> QED  BY <1>1, Invariance, PTL

(* Only a commit, a mark and a change of status write to the collections.  *)
LEMMA QuietSteps ==
  ASSUME NEW r \in Requests, Invoke(r) \/ Crash(r) \/ (Step(r) /\ ~Commit(r) /\ ~MarkReversed(r))
  PROVE  UNCHANGED <<wallet, txns, ledger>>
<1>1. CASE Invoke(r)
  BY <1>1 DEF Invoke, Apply, Deposit, Withdraw, LockForWithdrawal,
     CompleteWithdrawalFromLock, ReleaseWithdrawalLock, LockForContest,
     RefundContest, CreditWinning, CreditBonus, AdminAdjust, ReverseTransaction
<1>2. CASE Crash(r)
  BY <1>2 DEF Crash, Fail
<1>3. CASE Step(r) /\ ~Commit(r) /\ ~MarkReversed(r)
  BY <1>3 DEF Step, Fail, Replay, RefuseCall, LookupMiss, Load, RefuseFrozen,
     DuplicateKey, RefuseInsufficient
<1> QED  BY <1>1, <1>2, <1>3

(* The cached balances and totals of the wallet document are the sums of   *)
(* the ledger rows, through every interleaving, failure and crash.         *)
THEOREM LedgerAlwaysReconciles == Spec => []LedgerReconciles
<1>1. Init => LedgerReconciles
  <2> SUFFICES ASSUME Init PROVE LedgerReconciles
    OBVIOUS
  <2>1. \A f : DOMAIN f = {} => SumFunction(f) = 0
    BY SumFunctionIsSum, SumEmpty
  <2>2. /\ DOMAIN ledger = {} /\ wallet.balance = Opening
        /\ wallet.credited = 0 /\ wallet.debited = 0
    BY DEF Init
  <2>3. \A b \in Buckets : Opening[b] \in Nat
    BY WalletAssumption
  <2>4. \A b \in Buckets : ComputeBucketBalance(b) = 0
    BY <2>1, <2>2 DEF ComputeBucketBalance
  <2> QED  BY <2>1, <2>2, <2>3, <2>4 DEF LedgerReconciles
<1>2. IInv /\ TypeOK' /\ LedgerReconciles /\ [Next]_vars => LedgerReconciles'
  <2> SUFFICES ASSUME IInv, LedgerReconciles, [Next]_vars PROVE LedgerReconciles'
    OBVIOUS
  <2>1. ASSUME NEW r \in Requests, Commit(r) PROVE LedgerReconciles'
    BY <2>1, CommitSums
  <2>2. ASSUME NEW r \in Requests, MarkReversed(r) PROVE LedgerReconciles'
    BY <2>2, SameSums DEF MarkReversed
  <2>3. ASSUME NEW st \in WalletStatuses, SetWalletStatus(st) PROVE LedgerReconciles'
    BY <2>3, SameSums DEF SetWalletStatus, IInv, TypeOK, Wallets
  <2>4. ASSUME NEW r \in Requests,
               Invoke(r) \/ Crash(r) \/ (Step(r) /\ ~Commit(r) /\ ~MarkReversed(r))
        PROVE  LedgerReconciles'
    BY <2>4, QuietSteps, SameSums
  <2>5. CASE UNCHANGED vars
    BY <2>5, SameSums DEF vars
  <2> QED  BY <2>1, <2>2, <2>3, <2>4, <2>5 DEF Next
<1> QED  BY <1>1, <1>2, Invariance, Typing, PTL DEF Spec

(* No step removes or rewrites history; only the reversal mark is added.   *)
THEOREM HistoryIsAppendOnly == Spec => AppendOnly
<1>1. IInv /\ TypeOK' /\ [Next]_vars => [AppendOnlyStep]_vars
  <2> SUFFICES ASSUME IInv, TypeOK', Next PROVE AppendOnlyStep
    OBVIOUS
  <2>1. /\ Len(txns) \in Nat /\ DOMAIN txns = 1 .. Len(txns)
        /\ Len(ledger) \in Nat /\ DOMAIN ledger = 1 .. Len(ledger)
        /\ \A i \in DOMAIN txns : txns[i] \in Transactions
    BY ElementOfSeq DEF IInv, TypeOK
  <2>3. CASE UNCHANGED <<txns, ledger>>
    BY <2>1, <2>3 DEF AppendOnlyStep
  <2>4. ASSUME NEW r \in Requests, Commit(r) PROVE AppendOnlyStep
    <3>1. /\ DOMAIN txns \subseteq DOMAIN txns' /\ DOMAIN ledger \subseteq DOMAIN ledger'
          /\ \A i \in DOMAIN txns : txns'[i] = txns[i]
          /\ \A i \in DOMAIN ledger : ledger'[i] = ledger[i]
      BY <2>4 DEF IInv, TypeOK, Commit, RecordTransaction, InsertLedgerRows
    <3> QED  BY <2>1, <3>1 DEF AppendOnlyStep
  <2>5. ASSUME NEW r \in Requests, MarkReversed(r) PROVE AppendOnlyStep
    <3> DEFINE m == req[r].reverses
    <3>1. /\ UNCHANGED ledger /\ Len(txns') = Len(txns)
          /\ \A i \in DOMAIN txns : txns'[i] =
               IF i = m THEN [txns[i] EXCEPT !.status = "REVERSED",
                                             !.reversedBy = req[r].result]
                        ELSE txns[i]
      BY <2>5 DEF MarkReversed, IInv, TypeOK
    <3>2. ASSUME NEW i \in DOMAIN txns
          PROVE  /\ Recorded(txns'[i]) = Recorded(txns[i])
                 /\ txns[i].status = "REVERSED" => txns'[i].status = "REVERSED"
      BY <2>1, <3>1, <3>2 DEF Transactions, Recorded
    <3>3. \A i \in DOMAIN ledger : ledger'[i] = ledger[i]
      BY <3>1
    <3>4. DOMAIN txns \subseteq DOMAIN txns' /\ DOMAIN ledger \subseteq DOMAIN ledger'
      BY <2>5, <3>1 DEF MarkReversed, IInv, TypeOK
    <3> QED  BY <3>2, <3>3, <3>4 DEF AppendOnlyStep
  <2>6. ASSUME NEW st \in WalletStatuses, SetWalletStatus(st) PROVE AppendOnlyStep
    BY <2>3, <2>6 DEF SetWalletStatus
  <2> QED
    BY <2>3, <2>4, <2>5, <2>6, QuietSteps DEF Next
<1> QED  BY <1>1, Invariance, Typing, PTL DEF Spec, AppendOnly

(* Amounts that sum to nothing are all nothing.                            *)
LEMMA ZeroTotal ==
  ASSUME NEW f \in [Buckets -> Nat], Total(f) = 0
  PROVE  \A b \in Buckets : f[b] = 0
<1>1. f["DEPOSIT"] \in Nat /\ f["WINNING"] \in Nat /\ f["BONUS"] \in Nat /\ f["LOCKED"] \in Nat
  BY DEF Buckets, Spendable
<1>2. \A w, x, y, z \in Nat : w + x + y + z = 0 => w = 0 /\ x = 0 /\ y = 0 /\ z = 0
  OBVIOUS
<1>3. f["DEPOSIT"] + f["WINNING"] + f["BONUS"] + f["LOCKED"] = 0
  BY DEF Total
<1>4. f["DEPOSIT"] = 0 /\ f["WINNING"] = 0 /\ f["BONUS"] = 0 /\ f["LOCKED"] = 0
  BY <1>1, <1>2, <1>3, Zenon
<1> QED  BY <1>4 DEF Buckets, Spendable

(* Balanced rows change balances only as a credit, a debit or a movement.  *)
LEMMA BalancedRows ==
  ASSUME NEW balance \in Balances, NEW e \in EntryLists, NEW a \in Nat,
         EntriesBalanced(e, a)
  PROVE  \/ \A b \in Buckets : AddDeltas(balance, e)[b] - balance[b] >= 0
         \/ \A b \in Buckets : AddDeltas(balance, e)[b] - balance[b] <= 0
         \/ Total(AddDeltas(balance, e)) = Total(balance)
<1>1. /\ e.credit \in [Buckets -> Nat] /\ e.debit \in [Buckets -> Nat]
      /\ Total(e.credit) \in Nat /\ Total(e.debit) \in Nat /\ Total(balance) \in Int
  BY TotalType DEF EntryLists
<1>2. \A b \in Buckets :
        AddDeltas(balance, e)[b] = balance[b] + e.credit[b] - e.debit[b]
  BY AddDeltasType
<1>3. CASE Total(e.credit) = 0
  <2>1. \A b \in Buckets : e.credit[b] = 0
    BY <1>1, <1>3, ZeroTotal
  <2> QED  BY <1>1, <1>2, <2>1 DEF Balances
<1>4. CASE Total(e.debit) = 0
  <2>1. \A b \in Buckets : e.debit[b] = 0
    BY <1>1, <1>4, ZeroTotal
  <2> QED  BY <1>1, <1>2, <2>1 DEF Balances
<1>5. CASE Total(e.credit) > 0 /\ Total(e.debit) > 0
  <2>1. Total(e.credit) = Total(e.debit)
    BY <1>1, <1>5 DEF EntriesBalanced
  <2> QED  BY <1>1, <2>1, AddDeltasTotal
<1> QED  BY <1>1, <1>3, <1>4, <1>5

(* The service implements the atomic journal: its commits are postings,    *)
(* every other step is invisible to the journal.                           *)
THEOREM JournalRefinement == Spec => ImplementsJournal
<1>0. /\ Journal!Buckets = Buckets /\ Journal!Balances = Balances
      /\ \A f : Journal!Total(f) = Total(f)
  BY DEF Journal!Buckets, Journal!Spendable, Journal!Balances, Journal!Total,
         Buckets, Spendable, Balances, Total
<1>1. Init => Journal!JournalInit
  BY DEF Init, Journal!JournalInit
<1>2. IInv /\ TypeOK' /\ [Next]_vars =>
        [Journal!JournalNext]_<<wallet.balance, {txns[i].key : i \in DOMAIN txns}>>
  <2> SUFFICES ASSUME IInv, TypeOK', [Next]_vars
      PROVE  \/ Journal!JournalNext
             \/ UNCHANGED <<wallet.balance, {txns[i].key : i \in DOMAIN txns}>>
    OBVIOUS
  <2>1. UNCHANGED <<wallet, txns, ledger>> =>
          UNCHANGED <<wallet.balance, {txns[i].key : i \in DOMAIN txns}>>
    OBVIOUS
  <2>2. ASSUME NEW r \in Requests, Commit(r) PROVE Journal!JournalNext
    <3>0. PICK k : k = req[r].key
      OBVIOUS
    <3> DEFINE e == req[r].entries
    <3>1. /\ req[r] \in Calls /\ e \in EntryLists /\ k \in Keys
          /\ req[r].amount \in Nat /\ wallet.balance \in Balances
      BY <2>2, <3>0, CallRecord DEF IInv, Commit, Calls, TypeOK, Wallets
    <3>2. k \notin {txns[i].key : i \in DOMAIN txns}
      BY <2>2, <3>0 DEF Commit, IndexAdmits, FindByIdempotencyKey
    <3>3. {txns'[i].key : i \in DOMAIN txns'} = {txns[i].key : i \in DOMAIN txns} \cup {k}
      <4>1. PICK n \in Nat : n = Len(txns)
        BY DEF IInv, TypeOK
      <4>2. /\ DOMAIN txns = 1 .. n /\ DOMAIN txns' = (1 .. n) \cup {n + 1}
            /\ \A i \in 1 .. n : txns'[i] = txns[i]
            /\ txns'[n + 1].key = k
        BY <2>2, <3>0, <4>1 DEF IInv, TypeOK, Commit, RecordTransaction, Transaction
      <4> QED  BY <4>1, <4>2
    <3>4. wallet'.balance = AddDeltas(wallet.balance, e)
      BY <2>2 DEF Commit, ApplyBalanceDelta, IInv, TypeOK, Wallets
    <3>5. wallet'.balance \in Balances
      BY <3>1, <3>4, AddDeltasType
    <3>6. EntriesBalanced(e, req[r].amount)
      BY <2>2 DEF IInv, CallsOK, CallOK, Commit
    <3>7. \/ Journal!IsCredit \/ Journal!IsDebit \/ Journal!IsMovement
      BY <1>0, <3>1, <3>4, <3>6, BalancedRows
      DEF Journal!IsCredit, Journal!IsDebit, Journal!IsMovement, Journal!Change
    <3>8. Journal!Post(k)
      BY <1>0, <3>2, <3>3, <3>5, <3>7 DEF Journal!Post
    <3> QED  BY <3>1, <3>8 DEF Journal!JournalNext
  <2>3. ASSUME NEW r \in Requests, MarkReversed(r)
        PROVE  UNCHANGED <<wallet.balance, {txns[i].key : i \in DOMAIN txns}>>
    <3>0. \A i \in DOMAIN txns : txns[i] \in Transactions
      BY ElementOfSeq DEF IInv, TypeOK
    <3>1. /\ UNCHANGED wallet /\ DOMAIN txns' = DOMAIN txns
          /\ \A i \in DOMAIN txns : txns'[i] =
               IF i = req[r].reverses
                 THEN [txns[i] EXCEPT !.status = "REVERSED",
                                      !.reversedBy = req[r].result]
                 ELSE txns[i]
      BY <2>3 DEF MarkReversed, IInv, TypeOK
    <3>2. \A i \in DOMAIN txns : txns'[i].key = txns[i].key
      BY <3>0, <3>1 DEF Transactions
    <3>3. {txns'[i].key : i \in DOMAIN txns'} = {txns[i].key : i \in DOMAIN txns}
      <4>1. DOMAIN txns' = DOMAIN txns
        BY <3>1
      <4> QED  BY ONLY <4>1, <3>2, Zenon
    <3> QED  BY <3>1, <3>3
  <2>4. ASSUME NEW st \in WalletStatuses, SetWalletStatus(st)
        PROVE  UNCHANGED <<wallet.balance, {txns[i].key : i \in DOMAIN txns}>>
    BY <2>4 DEF SetWalletStatus, IInv, TypeOK, Wallets
  <2>5. ASSUME NEW r \in Requests,
               Invoke(r) \/ Crash(r) \/ (Step(r) /\ ~Commit(r) /\ ~MarkReversed(r))
        PROVE  UNCHANGED <<wallet.balance, {txns[i].key : i \in DOMAIN txns}>>
    BY <2>5, <2>1, QuietSteps
  <2> QED  BY <2>1, <2>2, <2>3, <2>4, <2>5 DEF Next, vars
<1> QED  BY <1>1, <1>2, Invariance, Typing, PTL
         DEF Spec, ImplementsJournal, Journal!JournalSpec

=============================================================================
