---------------------------- MODULE FantasyScoring ----------------------------
(***************************************************************************)
(* fantasy.scoring.ts: the points of a player and of a team.  Points and   *)
(* multipliers are in hundredths, the precision of round2, so that only    *)
(* the multiplication rounds.  A null threshold or unit is the empty set,  *)
(* any other the set of its value.                                         *)
(***************************************************************************)
EXTENDS FantasyRules

Categories == {"BATTING", "BOWLING", "FIELDING", "BONUS", "PENALTY"}

ScoringEvent == [statKey : STRING, category : Categories, points : Int,
                 threshold : SUBSET Nat, unit : SUBSET (Nat \ {0}),
                 appliesTo : SUBSET STRING]

(* The scoring rules a fresh database gets: so much per count, or at a     *)
(* threshold.                                                              *)
PerCount(stat, category, n) ==
  [statKey |-> stat, category |-> category, points |-> 100 * n,
   threshold |-> {}, unit |-> {}, appliesTo |-> {}]
AtLeast(least, stat, category, n) ==
  [PerCount(stat, category, n) EXCEPT !.threshold = {least}]
Only(roles, event) == [event EXCEPT !.appliesTo = roles]

CricketBatting ==
  <<PerCount("runs", "BATTING", 1), PerCount("fours", "BATTING", 1),
    PerCount("sixes", "BATTING", 2), AtLeast(50, "runs", "BATTING", 8),
    AtLeast(100, "runs", "BATTING", 16),
    Only({"BATSMAN", "WICKET_KEEPER", "ALL_ROUNDER"}, AtLeast(1, "duck", "PENALTY", -2))>>

CricketBowling ==
  <<PerCount("wickets", "BOWLING", 25), PerCount("maidens", "BOWLING", 12),
    AtLeast(3, "wickets", "BOWLING", 4), AtLeast(5, "wickets", "BOWLING", 16)>>

CricketFielding ==
  <<PerCount("catches", "FIELDING", 8),
    Only({"WICKET_KEEPER"}, PerCount("stumpings", "FIELDING", 12)),
    PerCount("runOutsDirect", "FIELDING", 12), PerCount("runOutsAssist", "FIELDING", 6)>>

Presence ==
  <<AtLeast(1, "playerOfMatch", "BONUS", 10), AtLeast(1, "playedMatch", "BONUS", 4)>>

CricketScoring == CricketBatting \o CricketBowling \o CricketFielding \o Presence
FootballScoring == Presence

(* The raw value of an event: a missing statistic is zero. *)
Raw(event, statline) == IF event.statKey \in DOMAIN statline THEN statline[event.statKey] ELSE 0

(* A bonus at a threshold, so much per whole unit, or so much per count; a *)
(* statistic of zero never scores.                                         *)
ApplyEvent(event, statline) ==
  LET raw == Raw(event, statline) IN
  IF raw = 0 THEN 0
  ELSE IF event.threshold # {}
       THEN IF \E t \in event.threshold : raw >= t THEN event.points ELSE 0
  ELSE IF event.unit # {}
       THEN (raw \div (CHOOSE u \in event.unit : TRUE)) * event.points
  ELSE raw * event.points

RoleAllowed(event, role) == event.appliesTo = {} \/ role \in event.appliesTo

Contribution(event, statline, role) ==
  IF RoleAllowed(event, role) THEN ApplyEvent(event, statline) ELSE 0

(* computePlayerPoints with no multiplier: FantasyPoints.basePoints. *)
BasePoints(events, statline, role) ==
  MapThenSumSet(LAMBDA i : Contribution(events[i], statline, role), DOMAIN events)

(* Math.round(x * 100) / 100 of a product in hundredths of hundredths: to  *)
(* the nearest hundredth, halves upwards.                                  *)
Round2(n) == (2 * n + 100) \div 200

Multiplier(rule, pick) ==
  IF pick.captain THEN rule.captainMultiplier
  ELSE IF pick.vice THEN rule.viceCaptainMultiplier ELSE 100

(* The total of one player of a team. *)
PickPoints(events, rule, statline, pick) ==
  Round2(BasePoints(events, statline[pick.player], RoleOf[pick.player])
         * Multiplier(rule, pick))

(* computeTeamPoints. *)
TeamPoints(events, rule, statline, lineup) ==
  MapThenSumSet(LAMBDA i : PickPoints(events, rule, statline, lineup[i]), DOMAIN lineup)
=============================================================================
