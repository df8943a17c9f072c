----------------------------- MODULE FantasyRules -----------------------------
(***************************************************************************)
(* fantasy.validator.ts: which lineups a rule accepts.  A lineup is the    *)
(* sequence of picks of a request; role, real-world team and credits are   *)
(* those of the player's document.  Issues that only warn are left out.    *)
(***************************************************************************)
EXTENDS Integers, Sequences, FiniteSets, FiniteSetsExt

CONSTANTS
  Players,    \* players of the match
  RoleOf,     \* Player.role
  TeamOf,     \* Player.teamId
  CreditsOf   \* Player.baseCredits

ASSUME PlayersAssumption ==
  /\ IsFiniteSet(Players)
  /\ RoleOf \in [Players -> STRING] /\ TeamOf \in [Players -> STRING]
  /\ CreditsOf \in [Players -> Nat]

Pick == [player : Players, captain : BOOLEAN, vice : BOOLEAN]

(* Multipliers are in hundredths. *)
Rule == [teamSize : Nat, creditBudget : Nat,
         minFromSingleTeam : Nat, maxFromSingleTeam : Nat,
         roleConstraints : SUBSET [role : STRING, min : Nat, max : Nat],
         maxTeamsPerUserPerMatch : Nat,
         captainMultiplier : Nat, viceCaptainMultiplier : Nat]

(* The rules a fresh database gets: cricket in all its formats, football.  *)
CricketRule ==
  [teamSize |-> 11, creditBudget |-> 100, minFromSingleTeam |-> 4, maxFromSingleTeam |-> 7,
   roleConstraints |-> {[role |-> "WICKET_KEEPER", min |-> 1, max |-> 4],
                        [role |-> "BATSMAN", min |-> 3, max |-> 6],
                        [role |-> "ALL_ROUNDER", min |-> 1, max |-> 4],
                        [role |-> "BOWLER", min |-> 3, max |-> 6]},
   maxTeamsPerUserPerMatch |-> 20, captainMultiplier |-> 200, viceCaptainMultiplier |-> 150]

FootballRule ==
  [CricketRule EXCEPT
     !.minFromSingleTeam = 3,
     !.roleConstraints = {[role |-> "GOALKEEPER", min |-> 1, max |-> 1],
                          [role |-> "DEFENDER", min |-> 3, max |-> 5],
                          [role |-> "MIDFIELDER", min |-> 3, max |-> 5],
                          [role |-> "FORWARD", min |-> 1, max |-> 3]}]

(* Some split of the team over the roles, and some split of it over two    *)
(* real-world teams, is within the limits.                                 *)
Satisfiable(rule) ==
  LET Total(bound(_)) == MapThenSumSet(bound, rule.roleConstraints) IN
  /\ Total(LAMBDA k : k.min) <= rule.teamSize /\ rule.teamSize <= Total(LAMBDA k : k.max)
  /\ \E n \in rule.minFromSingleTeam..rule.maxFromSingleTeam :
       rule.teamSize - n \in rule.minFromSingleTeam..rule.maxFromSingleTeam

(* With the rules of a fresh database users can make teams. *)
ASSUME SeedsAssumption ==
  \A rule \in {CricketRule, FootballRule} : rule \in Rule /\ Satisfiable(rule)

(* The picks that count: a repeated player is reported and skipped. *)
Counted(picks) ==
  {i \in DOMAIN picks : \A j \in 1..(i - 1) : picks[j].player # picks[i].player}

Chosen(picks) == {picks[i].player : i \in DOMAIN picks}

TallyBy(f, players) == [v \in {f[p] : p \in players} |->
                          Cardinality({p \in players : f[p] = v})]

Captains(picks) == {i \in Counted(picks) : picks[i].captain}
ViceCaptains(picks) == {i \in Counted(picks) : picks[i].vice}
CreditsUsed(players) == MapThenSumSet(LAMBDA p : CreditsOf[p], players)

IssueCodes == {"DUPLICATE_PLAYER", "TEAM_SIZE_MISMATCH", "CREDITS_EXCEEDED",
               "ROLE_MIN_NOT_MET", "ROLE_MAX_EXCEEDED",
               "TEAM_PLAYER_LIMIT_EXCEEDED", "TEAM_PLAYER_LIMIT_NOT_MET",
               "CAPTAIN_NOT_SELECTED", "VICE_CAPTAIN_NOT_SELECTED",
               "CAPTAIN_VICE_CAPTAIN_SAME"}

(* The errors about the picks themselves. *)
Issues(rule, picks) ==
  LET players == Chosen(picks)
      byTeam  == TallyBy(TeamOf, players)
      HasRole(r) == Cardinality({p \in players : RoleOf[p] = r})
  IN {c \in IssueCodes :
       \/ c = "DUPLICATE_PLAYER" /\ Counted(picks) # DOMAIN picks
       \/ c = "TEAM_SIZE_MISMATCH" /\ Cardinality(players) # rule.teamSize
       \/ c = "CREDITS_EXCEEDED" /\ CreditsUsed(players) > rule.creditBudget
       \/ c = "ROLE_MIN_NOT_MET" /\ \E k \in rule.roleConstraints : HasRole(k.role) < k.min
       \/ c = "ROLE_MAX_EXCEEDED" /\ \E k \in rule.roleConstraints : HasRole(k.role) > k.max
       \/ /\ c = "TEAM_PLAYER_LIMIT_EXCEEDED"
          /\ \E t \in DOMAIN byTeam : byTeam[t] > rule.maxFromSingleTeam
       \/ /\ c = "TEAM_PLAYER_LIMIT_NOT_MET"
          /\ Cardinality(players) = rule.teamSize
          /\ \E t \in DOMAIN byTeam : byTeam[t] < rule.minFromSingleTeam
       \/ c = "CAPTAIN_NOT_SELECTED" /\ Cardinality(Captains(picks)) # 1
       \/ c = "VICE_CAPTAIN_NOT_SELECTED" /\ Cardinality(ViceCaptains(picks)) # 1
       \/ /\ c = "CAPTAIN_VICE_CAPTAIN_SAME"
          /\ Captains(picks) # {} /\ ViceCaptains(picks) # {}
          /\ Max(Captains(picks)) = Max(ViceCaptains(picks))}

LineupValid(rule, picks) == Issues(rule, picks) = {}

(* MAX_TEAMS_PER_USER_REACHED: teams saved before this one. *)
RoomForTeam(rule, existing) ==
  existing < rule.maxTeamsPerUserPerMatch
=============================================================================
