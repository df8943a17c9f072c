--------------------------- MODULE MCContestClosing ---------------------------
(* Values for the run of ContestClosing: the worker of the settlements, a  *)
(* worker of the scorings and one administrator.                           *)
EXTENDS ContestClosing

CONSTANTS worker, scorer1, admin
MCScoringWorkers == {scorer1}
MCAdmins == {admin}
=============================================================================
