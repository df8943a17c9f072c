---------------------------- MODULE MCWithdrawals ----------------------------
(* Small instances of Withdrawals.tla for TLC. *)
EXTENDS Withdrawals, TLC

CONSTANTS h1, h2, w1, w2

Symmetry == Permutations(Handlers)

(* Two amounts: the risk check refuses a second pending one of the same. *)
Amounts == w1 :> 1 @@ w2 :> 2
AmountOne == w1 :> 1
=============================================================================
