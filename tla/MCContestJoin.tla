---------------------------- MODULE MCContestJoin ----------------------------
(* Small instances of ContestJoin.tla for TLC. *)
EXTENDS ContestJoin, TLC

CONSTANTS h1, h2, u1, t1, t2, t3, k1

Symmetry == Permutations(Handlers) \cup Permutations(Teams)

(* All teams belong to one user: the wallets of several do not interact,   *)
(* and the contest does not tell the users apart but for their limit.      *)
OneOwner == [t \in Teams |-> u1]
=============================================================================
