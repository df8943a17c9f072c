------------------------------ MODULE MCMatchDay ------------------------------
(* Values for the run of MatchDay: three players of two real-world teams,  *)
(* lineups of two, and two contents of a rule of which the second allows   *)
(* both players to come from one team and doubles the captain.             *)
EXTENDS MatchDay, TLC

CONSTANTS h1, h2, p1, p2, p3
MCHandlers == {h1, h2}
MCPlayers == {p1, p2, p3}
MCRoleOf == p1 :> "BATSMAN" @@ p2 :> "BOWLER" @@ p3 :> "BATSMAN"
MCTeamOf == p1 :> "A" @@ p2 :> "B" @@ p3 :> "A"
MCCreditsOf == p1 :> 9 @@ p2 :> 8 @@ p3 :> 8

Captain(p) == [player |-> p, captain |-> TRUE, vice |-> FALSE]
Vice(p) == [player |-> p, captain |-> FALSE, vice |-> TRUE]
MCLineups == <<<<Captain(p1), Vice(p2)>>, <<Captain(p3), Vice(p1)>>>>

(* The rule and the scoring of a fresh database, cut down to two picks,    *)
(* and a scoring by an administrator, per so many balls.                   *)
Book(maxFromTeam, captain) ==
  [CricketRule EXCEPT
     !.teamSize = 2, !.creditBudget = 17, !.minFromSingleTeam = 1,
     !.maxFromSingleTeam = maxFromTeam,
     !.roleConstraints = {[role |-> "BATSMAN", min |-> 1, max |-> 2]},
     !.maxTeamsPerUserPerMatch = 1, !.captainMultiplier = captain,
     !.viceCaptainMultiplier = 125]
MCRuleBooks == <<Book(1, 150), Book(2, 200)>>

MCFirstRules == <<1, 2>>
MCAdjustable == {p1}

MCScoringBooks ==
  <<CricketScoring,
    <<PerCount("runs", "BATTING", 2), AtLeast(30, "runs", "BONUS", 4),
      Only({"BATSMAN"}, [PerCount("balls", "PENALTY", -1) EXCEPT !.unit = {6}])>>>>
MCStatistics ==
  <<p1 :> [runs |-> 3, balls |-> 13, catches |-> 1] @@ p2 :> [runs |-> 30, wickets |-> 3],
    p1 :> [runs |-> 51, balls |-> 20, catches |-> 1] @@ p2 :> [runs |-> 30, wickets |-> 3]
      @@ p3 :> [balls |-> 6, duck |-> 1]>>

MCSymmetry == Permutations(MCHandlers)
=============================================================================
