-------------------------------- MODULE Wallet --------------------------------
(***************************************************************************)
(* The wallet service (src/src/modules/wallet/wallet.service.ts) and the   *)
(* three collections it owns, for the wallet of one user: every query of   *)
(* the service is filtered by the user, so two wallets never interact.     *)
(*                                                                         *)
(* A request is one call of a public method.  Node runs other requests     *)
(* whenever the method awaits the database, so a call is a sequence of     *)
(* steps and the steps of different calls interleave:                      *)
(*                                                                         *)
(*   <operation>  the method's own read of the wallet or of the original   *)
(*                transaction, its checks and the entry list it builds     *)
(*   Lookup       the idempotency short-circuit of applyTransaction        *)
(*   Load         ensureWalletForUser, which takes the snapshot            *)
(*                walletBefore, and assertWalletWritable                   *)
(*   Commit       applyTransactionTxn: one MongoDB transaction, atomic     *)
(*   MarkReversed the write reverseTransaction does after its transaction  *)
(*                                                                         *)
(* A call whose own first read refuses it writes nothing, so it does not   *)
(* begin.  A crash ends a call between any two of its steps.               *)
(***************************************************************************)
EXTENDS WalletCore, Sequences, Functions

CONSTANTS
  Requests,    \* the calls of the service, each made once
  Keys,        \* idempotency keys
  Amounts,     \* the amounts callers pass (assertAmount: positive integers)
  Operations,  \* the public methods the environment calls
  Opening      \* balances when the modelled history begins

AllOperations ==
  {"deposit", "withdraw", "lockForWithdrawal", "completeWithdrawalFromLock",
   "releaseWithdrawalLock", "lockForContest", "refundContest", "creditWinning",
   "creditBonus", "adminAdjust", "reverseTransaction", "setWalletStatus"}

ASSUME WalletAssumption ==
  /\ Amounts \subseteq Nat \ {0}
  /\ Operations \subseteq AllOperations
  /\ Opening \in [Buckets -> Nat]

VARIABLES
  wallet,  \* the wallets document
  txns,    \* wallet_transactions, in commit order
  ledger,  \* transaction_ledgers: ledger[i] holds the rows of txns[i]
  req      \* the calls

vars == <<wallet, txns, ledger, req>>

TxTypes ==
  {"DEPOSIT", "WITHDRAW", "WITHDRAWAL_LOCK", "WITHDRAWAL_RELEASE",
   "CONTEST_JOIN", "CONTEST_REFUND", "WINNING_CREDIT", "BONUS_CREDIT",
   "ADMIN_ADJUSTMENT"}

(* CLOSED exists in the enum, but no caller ever sets it. *)
WalletStatuses == {"ACTIVE", "FROZEN"}

Wallets == [balance : Balances, status : WalletStatuses,
            credited : Nat, debited : Nat, count : Nat]

(* balanceBefore is the snapshot of the call, balanceAfter the wallet the  *)
(* transaction produced; 0 stands for a null reversesId or reversedById.   *)
Transactions ==
  [type : TxTypes, amount : Nat, key : Keys, status : {"COMPLETED", "REVERSED"},
   before : Balances, after : Balances, reverses : Nat, reversedBy : Nat]

(* Every row of a transaction carries the snapshot balance of its bucket. *)
LedgerRows == [entries : EntryLists, before : Balances]

InFlight == {"lookup", "load", "commit", "mark"}
Calls ==
  [pc : InFlight \cup {"done"}, type : TxTypes, amount : Nat, key : Keys,
   entries : EntryLists, snapshot : Balances, reverses : Nat, result : Nat]
NoCalls == [pc : {"idle", "failed"}]

Idle == [pc |-> "idle"]
Failed == [pc |-> "failed"]
NoEntries == [debit |-> Nothing, credit |-> Nothing]

TypeOK ==
  /\ wallet \in Wallets
  /\ txns \in Seq(Transactions)
  /\ ledger \in Seq(LedgerRows)
  /\ Len(ledger) = Len(txns)
  /\ req \in [Requests -> Calls \cup NoCalls]

Init ==
  /\ wallet = [balance |-> Opening, status |-> "ACTIVE",
               credited |-> 0, debited |-> 0, count |-> 0]
  /\ txns = <<>>
  /\ ledger = <<>>
  /\ req = [r \in Requests |-> Idle]

Writable == wallet.status # "FROZEN"

-----------------------------------------------------------------------------
(* The public methods: what each reads, checks and asks applyTransaction   *)
(* to do.                                                                  *)

Apply(r, type, amount, key, entries, reverses) ==
  /\ req[r].pc = "idle"
  /\ req' = [req EXCEPT ![r] =
       [pc |-> "lookup", type |-> type, amount |-> amount, key |-> key,
        entries |-> entries, snapshot |-> Nothing,
        reverses |-> reverses, result |-> 0]]
  /\ UNCHANGED <<wallet, txns, ledger>>

Deposit(r, a, k) ==
  /\ "deposit" \in Operations
  /\ Apply(r, "DEPOSIT", a, k, CreditTo("DEPOSIT", a), 0)

Withdraw(r, a, k) ==
  /\ "withdraw" \in Operations
  /\ Writable
  /\ Withdrawable(WithdrawOrder, wallet.balance) >= a
  /\ LET split == SplitDebit(a, WithdrawOrder, wallet.balance)
     IN  Apply(r, "WITHDRAW", a, k, [debit |-> split, credit |-> Nothing], 0)

LockForWithdrawal(r, a, k) ==
  /\ "lockForWithdrawal" \in Operations
  /\ Writable
  /\ Withdrawable(WithdrawOrder, wallet.balance) >= a
  /\ LET split == SplitDebit(a, WithdrawOrder, wallet.balance)
     IN  Apply(r, "WITHDRAWAL_LOCK", a, k, Move(split, "LOCKED", a), 0)

CompleteWithdrawalFromLock(r, a, k) ==
  /\ "completeWithdrawalFromLock" \in Operations
  /\ Apply(r, "WITHDRAW", a, k, DebitFrom("LOCKED", a), 0)

ReleaseWithdrawalLock(r, a, k) ==
  /\ "releaseWithdrawalLock" \in Operations
  /\ wallet.balance["LOCKED"] >= a
  /\ Apply(r, "WITHDRAWAL_RELEASE", a, k, Move(Only("LOCKED", a), "DEPOSIT", a), 0)

LockForContest(r, a, k) ==
  /\ "lockForContest" \in Operations
  /\ Writable
  /\ Withdrawable(ContestOrder, wallet.balance) >= a
  /\ LET split == SplitDebit(a, ContestOrder, wallet.balance)
     IN  Apply(r, "CONTEST_JOIN", a, k, Move(split, "LOCKED", a), 0)

RefundContest(r, a, k) ==
  /\ "refundContest" \in Operations
  /\ Apply(r, "CONTEST_REFUND", a, k, Move(Only("LOCKED", a), "DEPOSIT", a), 0)

CreditWinning(r, a, k) ==
  /\ "creditWinning" \in Operations
  /\ Apply(r, "WINNING_CREDIT", a, k, CreditTo("WINNING", a), 0)

CreditBonus(r, a, k) ==
  /\ "creditBonus" \in Operations
  /\ Apply(r, "BONUS_CREDIT", a, k, CreditTo("BONUS", a), 0)

AdminAdjust(r, a, k) ==
  /\ "adminAdjust" \in Operations
  /\ \E b \in Spendable :
       \/ Apply(r, "ADMIN_ADJUSTMENT", a, k, CreditTo(b, a), 0)
       \/ /\ wallet.balance[b] >= a
          /\ Apply(r, "ADMIN_ADJUSTMENT", a, k, DebitFrom(b, a), 0)

ReverseTransaction(r, k) ==
  /\ "reverseTransaction" \in Operations
  /\ \E i \in DOMAIN txns :
       /\ txns[i].status = "COMPLETED"
       /\ txns[i].reversedBy = 0
       /\ Apply(r, "ADMIN_ADJUSTMENT", txns[i].amount, k,
                Compensating(ledger[i].entries), i)

(* An administrator's freeze or unfreeze: a write of its own, outside any  *)
(* transaction.                                                            *)
SetWalletStatus(s) ==
  /\ "setWalletStatus" \in Operations
  /\ wallet' = [wallet EXCEPT !.status = s]
  /\ UNCHANGED <<txns, ledger, req>>

-----------------------------------------------------------------------------
(* applyTransaction *)

Fail(r) ==
  /\ req' = [req EXCEPT ![r] = Failed]
  /\ UNCHANGED <<wallet, txns, ledger>>

(* applyTransaction returns transaction i to the method that called it. *)
Return(r, i) ==
  req' = [req EXCEPT ![r].pc = IF req[r].reverses = 0 THEN "done" ELSE "mark",
                     ![r].entries = NoEntries,
                     ![r].snapshot = Nothing,
                     ![r].result = i]

FindByIdempotencyKey(k) == {i \in DOMAIN txns : txns[i].key = k}

SameSignature(r, i) ==
  txns[i].type = req[r].type /\ txns[i].amount = req[r].amount

Replay(r) ==
  /\ req[r].pc = "lookup"
  /\ \E i \in FindByIdempotencyKey(req[r].key) :
       SameSignature(r, i) /\ Return(r, i)
  /\ UNCHANGED <<wallet, txns, ledger>>

(* assertEntriesBalanced fails, or the key belongs to another operation. *)
RefuseCall(r) ==
  /\ req[r].pc = "lookup"
  /\ \/ ~EntriesBalanced(req[r].entries, req[r].amount)
     \/ \E i \in FindByIdempotencyKey(req[r].key) : ~SameSignature(r, i)
  /\ Fail(r)

LookupMiss(r) ==
  /\ req[r].pc = "lookup"
  /\ EntriesBalanced(req[r].entries, req[r].amount)
  /\ FindByIdempotencyKey(req[r].key) = {}
  /\ req' = [req EXCEPT ![r].pc = "load"]
  /\ UNCHANGED <<wallet, txns, ledger>>

Load(r) ==
  /\ req[r].pc = "load"
  /\ Writable
  /\ req' = [req EXCEPT ![r].pc = "commit", ![r].snapshot = wallet.balance]
  /\ UNCHANGED <<wallet, txns, ledger>>

RefuseFrozen(r) ==
  /\ req[r].pc = "load"
  /\ ~Writable
  /\ Fail(r)

(* Seeded fault: the new balance is computed from the snapshot. *)
ReadModifyWrite(r) ==
  LET e == req[r].entries IN
  wallet' = [wallet EXCEPT !.balance = AddDeltas(req[r].snapshot, e),
                           !.credited = @ + Total(e.credit),
                           !.debited = @ + Total(e.debit),
                           !.count = @ + 1]

ApplyBalanceDelta(r) ==
  LET e == req[r].entries IN
  wallet' = [wallet EXCEPT !.balance = AddDeltas(@, e),
                           !.credited = @ + Total(e.credit),
                           !.debited = @ + Total(e.debit),
                           !.count = @ + 1]

Transaction(r, after) ==
  [type |-> req[r].type, amount |-> req[r].amount, key |-> req[r].key,
   status |-> "COMPLETED", before |-> req[r].snapshot, after |-> after,
   reverses |-> req[r].reverses, reversedBy |-> 0]

(* Seeded fault: balanceAfter is the projection the guard computed. *)
RecordProjection(r) ==
  txns' = Append(txns, Transaction(r, AddDeltas(req[r].snapshot, req[r].entries)))

(* The row inserted as PENDING and completed, with the balances $inc left, *)
(* in the same MongoDB transaction.                                        *)
RecordTransaction(r) ==
  txns' = Append(txns, Transaction(r, AddDeltas(wallet.balance, req[r].entries)))

InsertLedgerRows(r) ==
  ledger' = Append(ledger, [entries |-> req[r].entries, before |-> req[r].snapshot])

(* Seeded fault: no unique index. *)
NoIndex(k) == TRUE

(* The unique index (userId, idempotencyKey) has room for the key. *)
IndexAdmits(k) == FindByIdempotencyKey(k) = {}

(* The atomic block.  The guard reads the snapshot of Load, which MongoDB  *)
(* does not validate: $inc is applied to whatever the wallet holds now.    *)
Commit(r) ==
  /\ req[r].pc = "commit"
  /\ ProjectedOK(req[r].snapshot, req[r].entries)
  /\ IndexAdmits(req[r].key)
  /\ ApplyBalanceDelta(r)
  /\ RecordTransaction(r)
  /\ InsertLedgerRows(r)
  /\ Return(r, Len(txns) + 1)

(* The unique index (userId, idempotencyKey) refuses the row.  The code    *)
(* then reads the winner in the same session and returns it unchecked; the *)
(* server has aborted that session's transaction, so the read may fail     *)
(* instead: both outcomes are kept.                                        *)
DuplicateKey(r) ==
  /\ req[r].pc = "commit"
  /\ ProjectedOK(req[r].snapshot, req[r].entries)
  /\ ~IndexAdmits(req[r].key)
  /\ \E i \in FindByIdempotencyKey(req[r].key) :
       \/ Return(r, i) /\ UNCHANGED <<wallet, txns, ledger>>
       \/ Fail(r)

RefuseInsufficient(r) ==
  /\ req[r].pc = "commit"
  /\ ~ProjectedOK(req[r].snapshot, req[r].entries)
  /\ Fail(r)

MarkReversed(r) ==
  /\ req[r].pc = "mark"
  /\ txns' = [txns EXCEPT ![req[r].reverses].status = "REVERSED",
                          ![req[r].reverses].reversedBy = req[r].result]
  /\ req' = [req EXCEPT ![r].pc = "done"]
  /\ UNCHANGED <<wallet, ledger>>

(* Seeded fault: the block is not a transaction and a crash cuts it short. *)
CrashInsideBlock(r) ==
  /\ req[r].pc = "commit"
  /\ ApplyBalanceDelta(r)
  /\ req' = [req EXCEPT ![r] = Failed]
  /\ UNCHANGED <<txns, ledger>>

(* The process dies, or the connection to the database is lost. *)
Crash(r) == req[r].pc \in InFlight /\ Fail(r)

-----------------------------------------------------------------------------
Invoke(r) ==
  \E k \in Keys :
    \/ \E a \in Amounts :
         \/ Deposit(r, a, k)
         \/ Withdraw(r, a, k)
         \/ LockForWithdrawal(r, a, k)
         \/ CompleteWithdrawalFromLock(r, a, k)
         \/ ReleaseWithdrawalLock(r, a, k)
         \/ LockForContest(r, a, k)
         \/ RefundContest(r, a, k)
         \/ CreditWinning(r, a, k)
         \/ CreditBonus(r, a, k)
         \/ AdminAdjust(r, a, k)
    \/ ReverseTransaction(r, k)

Step(r) ==
  \/ Replay(r) \/ RefuseCall(r) \/ LookupMiss(r)
  \/ Load(r) \/ RefuseFrozen(r)
  \/ Commit(r) \/ DuplicateKey(r) \/ RefuseInsufficient(r)
  \/ MarkReversed(r)

Next ==
  \/ \E r \in Requests : Invoke(r) \/ Step(r) \/ Crash(r)
  \/ \E s \in WalletStatuses : SetWalletStatus(s)

Spec == Init /\ [][Next]_vars

-----------------------------------------------------------------------------
(* Properties *)

(* The balances after the i-th transaction of the history. *)
BalanceAfter(i) == IF i = 0 THEN Opening ELSE txns[i].after

(* TransactionLedgerRepository.computeBucketBalance: credits minus debits. *)
ComputeBucketBalance(b) ==
  SumFunction([i \in DOMAIN ledger |-> ComputeDeltas(ledger[i].entries)[b]])

(* The cached balances of the wallet document are what the ledger rows add *)
(* up to, bucket by bucket, and totalCredited and totalDebited are the     *)
(* sums of the rows in each direction, whatever calls interleave, fail or  *)
(* crash (header of wallet.service.ts, "Ledger first, balance cache        *)
(* second").                                                               *)
LedgerReconciles ==
  /\ \A b \in Buckets : wallet.balance[b] = Opening[b] + ComputeBucketBalance(b)
  /\ wallet.credited =
       SumFunction([i \in DOMAIN ledger |-> Total(ledger[i].entries.credit)])
  /\ wallet.debited =
       SumFunction([i \in DOMAIN ledger |-> Total(ledger[i].entries.debit)])

(* The history a user is shown is a chain: the balanceAfter of every       *)
(* transaction is the balanceAfter of the one before it plus the rows of   *)
(* the ledger, the last one is the wallet, and every transaction was       *)
(* counted once.                                                           *)
HistoryChains ==
  /\ wallet.count = Len(txns)
  /\ wallet.balance = BalanceAfter(Len(txns))
  /\ \A i \in DOMAIN txns :
       txns[i].after = AddDeltas(BalanceAfter(i - 1), ledger[i].entries)

(* An idempotency key moves money at most once, for concurrent retries and *)
(* retries after a crash alike.                                            *)
KeyMovesMoneyOnce ==
  \A i, j \in DOMAIN txns : txns[i].key = txns[j].key => i = j

(* A call that was answered holds the transaction recorded under the key   *)
(* it sent: nobody is handed the outcome of somebody else's key.           *)
AnswerBelongsToKey ==
  \A r \in Requests : req[r].pc = "done" =>
    req[r].result \in DOMAIN txns /\ txns[req[r].result].key = req[r].key

(* The hard guard of the atomic block does its work whenever no other      *)
(* transaction committed between the snapshot and the commit: a bucket can *)
(* only be overdrawn by a call whose snapshot is stale.                    *)
OverdraftNeedsStaleRead ==
  \A i \in DOMAIN txns : txns[i].before = BalanceAfter(i - 1) =>
    \A b \in Buckets : txns[i].after[b] >= 0

(* A reversal moves exactly the opposite of an earlier transaction.        *)
ReversalInverts ==
  \A i \in DOMAIN txns : txns[i].reverses # 0 =>
    /\ txns[i].reverses < i
    /\ ledger[i].entries.debit = ledger[txns[i].reverses].entries.credit
    /\ ledger[i].entries.credit = ledger[txns[i].reverses].entries.debit

(* A committed transaction changes in nothing but its status, from         *)
(* COMPLETED to REVERSED, and its reversedById; ledger rows never change,  *)
(* and nothing is removed (wallet.service.ts, reverseTransaction).         *)
Recorded(t) == <<t.type, t.amount, t.key, t.before, t.after, t.reverses>>
AppendOnlyStep ==
  /\ DOMAIN txns \subseteq DOMAIN txns'
  /\ DOMAIN ledger \subseteq DOMAIN ledger'
  /\ \A i \in DOMAIN ledger : ledger'[i] = ledger[i]
  /\ \A i \in DOMAIN txns :
       /\ Recorded(txns'[i]) = Recorded(txns[i])
       /\ txns[i].status = "REVERSED" => txns'[i].status = "REVERSED"
AppendOnly == [][AppendOnlyStep]_vars

(* The interleaved, crashing service implements the atomic journal.        *)
Journal == INSTANCE WalletJournal WITH
  balance <- wallet.balance,
  posted <- {txns[i].key : i \in DOMAIN txns}
ImplementsJournal == Journal!JournalSpec

=============================================================================
