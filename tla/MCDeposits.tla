------------------------------ MODULE MCDeposits ------------------------------
(* Small instances of Deposits.tla for TLC. *)
EXTENDS Deposits, TLC

CONSTANTS h1, h2, p1

=============================================================================
