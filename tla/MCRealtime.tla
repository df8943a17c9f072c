------------------------------ MODULE MCRealtime ------------------------------
(* Values for the run of Realtime: a notification, an event of a contest,  *)
(* one handler and two API processes.                                      *)
EXTENDS Realtime

CONSTANTS nobody
=============================================================================
