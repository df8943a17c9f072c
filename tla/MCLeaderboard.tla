----------------------------- MODULE MCLeaderboard -----------------------------
(* Values for the run of Leaderboard: two entries that change places once. *)
EXTENDS Leaderboard

CONSTANTS h1, h2
MCRoutines == {h1, h2}
MCFirstEntries == {1}
MCTotals == <<<<0, 0>>, <<400, 650>>, <<700, 650>>>>
=============================================================================
