------------------------------ MODULE MCMatchFeed ------------------------------
(* Values for the run of MatchFeed: one match goes live and ends, the      *)
(* other goes live later.                                                  *)
EXTENDS MatchFeed

CONSTANTS m1, m2
MCMatch == {m1, m2}
MCPlace == [m \in MCMatch |-> IF m = m1 THEN 1 ELSE 2]
MCReported ==
  [m \in MCMatch |-> IF m = m1 THEN <<"LIVE", "LIVE", "COMPLETED">>
                      ELSE <<"UPCOMING", "LIVE", "LIVE">>]
=============================================================================
