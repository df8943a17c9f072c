------------------------------ MODULE WalletCore ------------------------------
(***************************************************************************)
(* The arithmetic of src/src/modules/wallet: buckets, the ledger entries   *)
(* one transaction is made of, their deltas, and the greedy split of a     *)
(* debit over several buckets.  Everything is pure; Wallet.tla and the     *)
(* modules of the money flows are built from it.                           *)
(*                                                                         *)
(* Data abstraction: the entry list of a transaction never names the same  *)
(* direction and bucket twice, so it is a pair of functions from buckets   *)
(* to amounts, where 0 means "no such row".  Amounts are minor units.      *)
(***************************************************************************)
EXTENDS Integers

Spendable == {"DEPOSIT", "WINNING", "BONUS"}
Buckets == Spendable \cup {"LOCKED"}
Balances == [Buckets -> Int]
EntryLists == [debit : [Buckets -> Nat], credit : [Buckets -> Nat]]

Nothing == [b \in Buckets |-> 0]
Only(b, amount) == [c \in Buckets |-> IF c = b THEN amount ELSE 0]
Total(f) == f["DEPOSIT"] + f["WINNING"] + f["BONUS"] + f["LOCKED"]
Least(a, b) == IF a < b THEN a ELSE b
Most(a, b) == IF a > b THEN a ELSE b

-----------------------------------------------------------------------------
(* Entry lists *)

CreditTo(b, amount) == [debit |-> Nothing, credit |-> Only(b, amount)]
DebitFrom(b, amount) == [debit |-> Only(b, amount), credit |-> Nothing]
Move(debits, b, amount) == [debit |-> debits, credit |-> Only(b, amount)]
Compensating(e) == [debit |-> e.credit, credit |-> e.debit]

ComputeDeltas(e) == [b \in Buckets |-> e.credit[b] - e.debit[b]]
AddDeltas(balance, e) == [b \in Buckets |-> balance[b] + ComputeDeltas(e)[b]]

EntriesBalanced(e, amount) ==
  LET credits == Total(e.credit)
      debits  == Total(e.debit)
  IN  /\ credits + debits > 0
      /\ credits > 0 /\ debits > 0 => credits = debits
      /\ Most(credits, debits) = amount

(* Seeded fault: the guard looks at the sum of the buckets. *)
ProjectedSumOK(snapshot, e) == Total(AddDeltas(snapshot, e)) >= 0

(* The projected balances of the hard guard: none may be negative. *)
ProjectedOK(snapshot, e) == \A b \in Buckets : AddDeltas(snapshot, e)[b] >= 0

-----------------------------------------------------------------------------
(* Debit split.  An order gives each source bucket its rank, 0 to the      *)
(* buckets that may not be touched; the loop drains rank 1, then 2, ...    *)

Orders == [Buckets -> 0..3]
WithdrawOrder == [DEPOSIT |-> 2, WINNING |-> 1, BONUS |-> 0, LOCKED |-> 0]
ContestOrder == [DEPOSIT |-> 1, WINNING |-> 2, BONUS |-> 3, LOCKED |-> 0]

(* The sum the callers compare with the amount before they split. *)
Withdrawable(order, balance) ==
  Total([b \in Buckets |-> IF order[b] > 0 THEN balance[b] ELSE 0])

(* What the loop can take from a bucket: a negative balance yields nothing. *)
Available(order, balance) ==
  [b \in Buckets |-> IF order[b] > 0 THEN Most(balance[b], 0) ELSE 0]

TakenEarlier(order, balance, b) ==
  Total([c \in Buckets |->
           IF order[c] < order[b] THEN Available(order, balance)[c] ELSE 0])

SplitDebit(amount, order, balance) ==
  [b \in Buckets |-> Least(Available(order, balance)[b],
                           Most(amount - TakenEarlier(order, balance, b), 0))]

=============================================================================
