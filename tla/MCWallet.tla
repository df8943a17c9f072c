------------------------------- MODULE MCWallet -------------------------------
(* Small instances of Wallet.tla for TLC. *)
EXTENDS Wallet, TLC

CONSTANTS r1, r2, k1, k2

Symmetry == Permutations(Requests) \cup Permutations(Keys)

(* A few units in every bucket, so that splits cross buckets. *)
OpeningMixed == [b \in Buckets |-> 1]
=============================================================================
