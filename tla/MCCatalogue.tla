------------------------------ MODULE MCCatalogue ------------------------------
(* Values for the run of Catalogue: one fixture of CricketData, and one of *)
(* the mock, which is always live.  One team is enough, for the teams of a *)
(* fixture are fetched, found or missed together.                          *)
EXTENDS Catalogue, TLC

CONSTANTS s1, f1, a, c1, c2
MCFixtures ==
  [p \in Providers |->
     {[id |-> f1, series |-> s1, teams |-> {a},
       statuses |-> IF p = "MOCK" THEN {"LIVE"} ELSE {"UPCOMING"}]}]
Symmetry == Permutations({c1, c2})
=============================================================================
