----------------------------- MODULE FantasyTeams -----------------------------
(***************************************************************************)
(* The fantasy_teams of one user for one match, their projection in        *)
(* fantasy_team_players, and the transactions of fantasy-team.service.ts   *)
(* and scoring.service.ts on the two.  Each operation is one transaction.  *)
(*                                                                         *)
(* Every team stays EDITABLE: nothing writes another status.  The filters  *)
(* of base.schema.ts hide deleted documents from reads and updates.        *)
(***************************************************************************)
EXTENDS FantasyScoring

CONSTANT Lineups   \* a sequence of the lineups that users submit

VARIABLES
  teams,  \* by creation
  rows    \* rows of fantasy_team_players that are not deleted

(* rule is the version the team names.  The rest is for the properties:    *)
(* named and checked are the changes of rules made when that version was   *)
(* read and when the one that accepted the lineup was.                     *)
Team == [lineup : DOMAIN Lineups, rule : Nat, deleted : BOOLEAN, total : Int,
         named : Nat, checked : Nat]

Row == [team : Nat, player : Players, captain : BOOLEAN, vice : BOOLEAN, points : Int]

LiveTeams == {t \in DOMAIN teams : ~teams[t].deleted}

(* buildProjectionRows: points start at zero. *)
RowsFor(t, l) ==
  {[team |-> t, player |-> Lineups[l][i].player, captain |-> Lineups[l][i].captain,
    vice |-> Lineups[l][i].vice, points |-> 0] : i \in DOMAIN Lineups[l]}

CreateTeam(lineup, version, named, checked) ==
  /\ teams' = Append(teams, [lineup |-> lineup, rule |-> version, deleted |-> FALSE,
                             total |-> 0, named |-> named, checked |-> checked])
  /\ rows' = rows \cup RowsFor(Len(teams) + 1, lineup)

(* Seeded fault: the projection keeps the roster it had. *)
UpdateTeamOnly(t, lineup, checked) ==
  /\ teams' = [teams EXCEPT ![t].lineup = lineup, ![t].checked = checked]
  /\ UNCHANGED rows

(* The update finds no deleted team, and then aborts.  It keeps the total  *)
(* and the rule the team names.                                            *)
ReplaceRoster(t, lineup, checked) ==
  IF t \in LiveTeams
  THEN /\ teams' = [teams EXCEPT ![t].lineup = lineup, ![t].checked = checked]
       /\ rows' = {r \in rows : r.team # t} \cup RowsFor(t, lineup)
  ELSE UNCHANGED <<teams, rows>>

SoftDelete(t) ==
  /\ teams' = [teams EXCEPT ![t].deleted = TRUE]
  /\ rows' = {r \in rows : r.team # t}

(* persistRecompute for the teams: staged maps a team to the lineup that   *)
(* was read, total each of these teams and earned each pick to its points. *)
PersistTeamPoints(staged, total, earned) ==
  LET picks(t) == Lineups[staged[t]]
      of(r)    == IF r.team \in DOMAIN staged
                  THEN {i \in DOMAIN picks(r.team) : picks(r.team)[i].player = r.player}
                  ELSE {}
  IN /\ teams' = [t \in DOMAIN teams |->
                    IF t \in DOMAIN staged \cap LiveTeams
                    THEN [teams[t] EXCEPT !.total = total[t]] ELSE teams[t]]
     /\ rows' = {IF of(r) = {} THEN r
                 ELSE [r EXCEPT !.points = earned[picks(r.team)[CHOOSE i \in of(r) : TRUE]]] :
                   r \in rows}
=============================================================================
