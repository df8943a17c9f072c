------------------------------- MODULE MatchDay -------------------------------
(***************************************************************************)
(* One match for one user: fantasy-team.service.ts, the active fantasy and *)
(* scoring rules with their cache, scoring.service.ts, and the jobs that   *)
(* the ingestion of matches and live scores enqueues.  A request or a job  *)
(* is a handler in "call"; one step is one call to MongoDB or Redis, or    *)
(* one transaction, with the computation up to the next await.             *)
(*                                                                         *)
(* The statistics are written by nothing in the repository: they arrive    *)
(* from outside.  Requests that only rename a team are left out.           *)
(***************************************************************************)
EXTENDS FantasyTeams

CONSTANTS
  Handlers,       \* requests and jobs that may be under way at a time
  RuleBooks,      \* a sequence of the contents given to fantasy rules
  Statistics,     \* the statistics of the players, in order of arrival
  ScoringBooks,   \* a sequence of the events given to scoring rules
  FirstRules,     \* the versions of the rule; the first is active at first
  Adjustable,     \* players an administrator adjusts
  Delta,          \* the delta of an adjustment
  MaxRequests,    \* bound: requests in a history
  MaxJobs,        \* bound: recomputations queued at a time
  MaxTurns        \* bound: failures, crashes and arrivals, and changes of rules twice

ASSUME MatchDayAssumption ==
  /\ IsFiniteSet(Handlers) /\ Handlers # {}
  /\ Lineups \in Seq(Seq(Pick))
  /\ RuleBooks \in Seq(Rule) \ {<<>>} /\ ScoringBooks \in Seq(Seq(ScoringEvent)) \ {<<>>}
  /\ DOMAIN Statistics = 1..Len(Statistics) /\ Len(Statistics) \in Nat \ {0}
  /\ \A k \in DOMAIN Statistics : DOMAIN Statistics[k] \subseteq Players
  /\ FirstRules \in Seq(DOMAIN RuleBooks) /\ Adjustable \subseteq Players
  /\ Delta \in Int \ {0} /\ MaxJobs \in Nat \ {0}
  /\ MaxRequests \in Nat /\ MaxTurns \in Nat

VARIABLES
  locked,      \* Match.status is LIVE or COMPLETED, and not one of the others
  rules,       \* fantasy_rules by version
  cache,       \* the active rule in Redis
  scoring,     \* the events of the active scoring rule, and those of it in Redis
  stats,       \* how much of Statistics player_stats holds
  points,      \* FantasyPoints.basePoints, 0 for no row
  mirror,      \* PlayerStats.fantasyPoints
  jobs,        \* recomputations queued
  call,        \* what each handler is doing
  requests,    \* requests so far
  faults,      \* failures so far
  changes,     \* changes of rules so far
  asked,       \* a recomputation was queued since the statistics changed
  excused      \* the last recomputation overlapped a change or another one

match == <<locked, stats>>
rulebase == <<rules, cache, changes, scoring>>
scores == <<points, mirror>>
ghosts == <<asked, excused>>
vars == <<teams, rows, match, rulebase, scores, ghosts, jobs, call, requests, faults>>

Steps == {"idle", "count", "save", "rule", "stats", "teams", "persist"}
Ops == {"none", "create", "update", "clone", "delete", "job", "recompute", "adjust"}

(* What a handler knows: the team and lineup of the request, the rules     *)
(* that were read, and of a recomputation the statistics and teams.        *)
(* clean: its inputs have not changed, and no other one ran meanwhile.     *)
NoRule == [version |-> 0, book |-> 1, at |-> 0]
NoBook == 0
Idle == [op |-> "none", at |-> "idle", team |-> 0, lineup |-> 0, checked |-> 0,
         rule |-> NoRule, events |-> NoBook, seen |-> 1, staged |-> <<>>, clean |-> FALSE]

TypeOK ==
  /\ teams \in Seq(Team) /\ rows \subseteq Row
  /\ locked \in BOOLEAN /\ stats \in DOMAIN Statistics
  /\ rules \in Seq([book : DOMAIN RuleBooks, active : BOOLEAN])
  /\ cache \in [version : 0..Len(rules), book : DOMAIN RuleBooks, at : 0..changes]
  /\ scoring \in [active : NoBook..Len(ScoringBooks), stale : NoBook..Len(ScoringBooks),
                  changes : Nat]
  /\ points \in [Players -> Int] /\ mirror \in [Players -> Nat]
  /\ jobs \in 0..MaxJobs
  /\ call \in [Handlers -> [op : Ops, at : Steps, team : 0..Len(teams),
                            lineup : 0..Len(Lineups), checked : 0..changes,
                            rule : [version : 0..Len(rules), book : DOMAIN RuleBooks,
                                    at : 0..changes],
                            events : NoBook..Len(ScoringBooks),
                            seen : DOMAIN Statistics,
                            staged : UNION {[D -> DOMAIN Lineups] : D \in SUBSET DOMAIN teams},
                            clean : BOOLEAN]]
  /\ requests \in 0..MaxRequests
  /\ faults \in 0..MaxTurns /\ changes \in 0..MaxTurns
  /\ asked \in BOOLEAN /\ excused \in BOOLEAN

Init ==
  /\ teams = <<>> /\ rows = {}
  /\ locked = FALSE /\ stats = 1
  /\ rules = [v \in DOMAIN FirstRules |-> [book |-> FirstRules[v], active |-> v = 1]]
  /\ cache = NoRule /\ scoring = [active |-> 1, stale |-> NoBook, changes |-> 0]
  /\ points = [p \in Players |-> 0] /\ mirror = points
  /\ jobs = 0 /\ call = [h \in Handlers |-> Idle]
  /\ requests = 0 /\ faults = 0 /\ changes = 0
  /\ asked = FALSE /\ excused = TRUE

-----------------------------------------------------------------------------
(* There is room for n more turns in the history. *)
Turns(n) == 2 * (changes + scoring.changes) + faults + (stats - 1) + n <= MaxTurns

At(h, step) == call[h].at = step
Goto(h, step) == call' = [call EXCEPT ![h].at = step]
Return(h) == call' = [call EXCEPT ![h] = Idle]
Start(h, c) ==
  /\ call[h] = Idle /\ requests < MaxRequests
  /\ call' = [call EXCEPT ![h] = c]
  /\ requests' = requests + 1

(* A write that a recomputation under way has not read: nothing but "call" *)
(* for the handler itself is said by next.                                 *)
InputsChange(next) ==
  /\ excused' = TRUE
  /\ call' = [h \in Handlers |-> [next[h] EXCEPT !.clean = FALSE]]

Kept == UNCHANGED <<match, jobs, faults>>

(* What the engines say of the values of this instance: whether a content  *)
(* of a rule accepts a lineup, the points of a pick, of a lineup and of a  *)
(* player.  No row is no statistics; in buildPlayerPointsPayload a player  *)
(* nobody picked has no role.                                              *)
StatsOf(k) == [p \in Players |-> IF p \in DOMAIN Statistics[k] THEN Statistics[k][p] ELSE <<>>]

Accepts == [b \in DOMAIN RuleBooks |->
              {l \in DOMAIN Lineups : LineupValid(RuleBooks[b], Lineups[l])}]

PointsOf == [e \in DOMAIN ScoringBooks |-> [b \in DOMAIN RuleBooks |->
             [k \in DOMAIN Statistics |-> [pick \in Pick |->
               PickPoints(ScoringBooks[e], RuleBooks[b], StatsOf(k), pick)]]]]

TotalOf == [e \in DOMAIN ScoringBooks |-> [b \in DOMAIN RuleBooks |->
            [k \in DOMAIN Statistics |-> [l \in DOMAIN Lineups |->
              TeamPoints(ScoringBooks[e], RuleBooks[b], StatsOf(k), Lineups[l])]]]]

PlayerBase == [e \in DOMAIN ScoringBooks |-> [k \in DOMAIN Statistics |->
               [p \in Players |-> [picked \in BOOLEAN |->
                 BasePoints(ScoringBooks[e], StatsOf(k)[p],
                            IF picked THEN RoleOf[p] ELSE "UNKNOWN")]]]]

Picked(lineups) == UNION {Chosen(Lineups[l]) : l \in lineups}

(* The rule that fantasyRuleService.getActive returns: the cached one, or  *)
(* else the active one, if there is any.                                   *)
Active == {v \in DOMAIN rules : rules[v].active}
ActiveRule ==
  IF cache # NoRule THEN {cache}
  ELSE {[version |-> v, book |-> rules[v].book, at |-> changes] : v \in Active}

(* Seeded fault: an update is not validated. *)
TeamRequestUnvalidated(h, op, step, t, l, checked) ==
  /\ ~locked
  /\ \E r \in ActiveRule :
       /\ cache' = r
       /\ Start(h, [Idle EXCEPT !.op = op, !.at = step, !.team = t, !.lineup = l,
                                !.checked = IF op = "clone" THEN checked ELSE r.at,
                                !.rule = IF op = "update" THEN NoRule ELSE r])
  /\ UNCHANGED <<teams, rows, rules, changes, scoring, scores, ghosts>> /\ Kept

(* create, update, clone and delete read the match and the team first, and *)
(* then the rule.  isMatchLocked looks at the status, as lineupLockedAt is *)
(* never set; only delete does not ask.  An update is validated here: what *)
(* follows waits for the players only.                                     *)
TeamRequest(h, op, step, t, l, checked) ==
  /\ ~locked
  /\ \E r \in ActiveRule :
       /\ cache' = r
       /\ op = "update" => l \in Accepts[r.book]
       /\ Start(h, [Idle EXCEPT !.op = op, !.at = step, !.team = t, !.lineup = l,
                                !.checked = IF op = "clone" THEN checked ELSE r.at,
                                !.rule = IF op = "update" THEN NoRule ELSE r])
  /\ UNCHANGED <<teams, rows, rules, changes, scoring, scores, ghosts>> /\ Kept

CreateTeamRequest(h) ==
  \E l \in DOMAIN Lineups : TeamRequest(h, "create", "count", 0, l, 0)

UpdateTeamRequest(h) ==
  \E t \in LiveTeams, l \in DOMAIN Lineups : TeamRequest(h, "update", "save", t, l, 0)

CloneTeamRequest(h) ==
  \E t \in LiveTeams :
    TeamRequest(h, "clone", "count", 0, teams[t].lineup, teams[t].checked)

DeleteTeamRequest(h) ==
  /\ \E t \in LiveTeams : Start(h, [Idle EXCEPT !.op = "delete", !.at = "save", !.team = t])
  /\ UNCHANGED <<teams, rows, rulebase, scores, ghosts>> /\ Kept

(* countByUserAndMatch, and then the limit; create validates the lineup. *)
CountTeams(h) ==
  /\ At(h, "count")
  /\ IF /\ RoomForTeam(RuleBooks[call[h].rule.book], Cardinality(LiveTeams))
        /\ call[h].op = "create" =>
             call[h].lineup \in Accepts[call[h].rule.book]
     THEN Goto(h, "save")
     ELSE Return(h)
  /\ UNCHANGED <<teams, rows, rulebase, scores, ghosts, requests>> /\ Kept

(* The transaction. *)
SaveTeam(h) ==
  /\ At(h, "save")
  /\ \/ /\ call[h].op = "update"
        /\ ReplaceRoster(call[h].team, call[h].lineup, call[h].checked)
     \/ /\ call[h].op = "delete"
        /\ SoftDelete(call[h].team)
     \/ /\ call[h].op \in {"create", "clone"}
        /\ CreateTeam(call[h].lineup, call[h].rule.version,
                      call[h].rule.at, call[h].checked)
  /\ InputsChange([call EXCEPT ![h] = Idle])
  /\ UNCHANGED <<rulebase, scores, asked, requests>> /\ Kept

-----------------------------------------------------------------------------
(* fantasyRuleService: one transaction each, then a flush of the cache     *)
(* that a key prefix or a failure of Redis can leave without effect.       *)
RuleChange(rs) ==
  /\ Turns(2) /\ changes' = changes + 1 /\ rs # rules
  /\ rules' = rs
  /\ cache' \in {cache, NoRule}
  /\ InputsChange(call)
  /\ UNCHANGED <<teams, rows, scoring, scores, asked, requests>> /\ Kept

NoneActive == [v \in DOMAIN rules |-> [rules[v] EXCEPT !.active = FALSE]]

(* A version is changed in place, and may be switched on or off by it.  A  *)
(* creation is the change of a version that no team names yet.             *)
UpdateRule ==
  \E v \in DOMAIN rules, b \in DOMAIN RuleBooks, active \in BOOLEAN :
    RuleChange([IF active /\ ~rules[v].active THEN NoneActive ELSE rules
                  EXCEPT ![v] = [book |-> b, active |-> active]])

ActivateRule ==
  \E v \in DOMAIN rules \ Active : RuleChange([NoneActive EXCEPT ![v].active = TRUE])

(* fantasyScoringRuleService.getActive.  Redis is taken to hold the active *)
(* rule, with which it answers like MongoDB, or the one before it.         *)
ActiveScoring == {IF scoring.stale # NoBook THEN scoring.stale ELSE scoring.active} \ {NoBook}

(* A creation, an update or an activation: only the events of the active   *)
(* version matter, as nothing names a version.  One that was active last   *)
(* may stay in the cache, as above.                                        *)
ScoringRuleChange ==
  LET cached == IF scoring.stale # NoBook THEN scoring.stale ELSE scoring.active IN
  /\ Turns(2)
  /\ \E e \in (NoBook..Len(ScoringBooks)) \ {scoring.active}, stale \in {cached, NoBook} :
       scoring' = [active |-> e, stale |-> stale, changes |-> scoring.changes + 1]
  /\ InputsChange(call)
  /\ UNCHANGED <<teams, rows, rules, cache, changes, scores, asked, requests>> /\ Kept

CacheExpires ==
  /\ \/ cache # NoRule /\ cache' = NoRule /\ UNCHANGED scoring
     \/ scoring.stale # NoBook /\ scoring' = [scoring EXCEPT !.stale = NoBook]
        /\ UNCHANGED cache
  /\ UNCHANGED <<teams, rows, rules, changes, scores, ghosts, call, requests>> /\ Kept

-----------------------------------------------------------------------------
(* Recomputation: by a worker, by an administrator, or at the end of an    *)
(* adjustment.                                                             *)
Running == {h \in Handlers : call[h].at \in {"stats", "teams", "persist"}}

(* A recomputation reads the rules, without which it fails, and starts: it *)
(* has met those under way, and they meet it.                              *)
Recompute(h, op) ==
  \E r \in ActiveRule, e \in ActiveScoring :
    /\ cache' = r
    /\ call' = [g \in Handlers |->
         IF g = h
         THEN [Idle EXCEPT !.op = op, !.at = "stats", !.rule = r, !.events = e,
                           !.clean = /\ Running = {} /\ r.version \in Active
                                     /\ rules[r.version].book = r.book
                                     /\ e = scoring.active]
         ELSE [call[g] EXCEPT !.clean = FALSE]]
    /\ UNCHANGED <<teams, rows, match, rules, changes, scoring, scores, excused>>

TakeJob(h) ==
  /\ jobs > 0 /\ call[h] = Idle
  /\ jobs' = jobs - 1
  /\ Recompute(h, "job")
  /\ UNCHANGED <<asked, requests, faults>>

(* Without active rules the job fails, until it is given up. *)
JobRefused ==
  /\ jobs > 0 /\ (ActiveRule = {} \/ ActiveScoring = {})
  /\ jobs' = jobs - 1 /\ asked' = FALSE
  /\ UNCHANGED <<teams, rows, match, rulebase, scores, excused, call,
                 requests, faults>>

AdminRecompute(h) ==
  /\ call[h] = Idle /\ requests < MaxRequests
  /\ requests' = requests + 1
  /\ Recompute(h, "recompute")
  /\ UNCHANGED <<asked, jobs, faults>>

(* An adjustment first, and then the recomputation. *)
AdjustPlayerPoints(h) ==
  /\ call[h] = Idle /\ requests < MaxRequests
  /\ requests' = requests + 1
  /\ \E p \in Adjustable :
       /\ points' = [points EXCEPT ![p] = @ + Delta]
       /\ InputsChange([call EXCEPT ![h] =
            [Idle EXCEPT !.op = "adjust", !.at = "rule"]])
  /\ UNCHANGED <<teams, rows, rulebase, mirror, asked>> /\ Kept

RecomputeAdjusted(h) ==
  /\ At(h, "rule")
  /\ Recompute(h, "adjust")
  /\ UNCHANGED <<asked, jobs, requests, faults>>

ReadStats(h) ==
  /\ At(h, "stats")
  /\ call' = [call EXCEPT ![h].at = "teams", ![h].seen = stats]
  /\ UNCHANGED <<teams, rows, rulebase, scores, ghosts, requests>> /\ Kept

(* The cursor over the teams reads them in one batch. *)
ReadTeams(h) ==
  /\ At(h, "teams")
  /\ call' = [call EXCEPT ![h].at = "persist",
                          ![h].staged = [t \in LiveTeams |-> teams[t].lineup]]
  /\ UNCHANGED <<teams, rows, rulebase, scores, ghosts, requests>> /\ Kept

(* Seeded fault: the totals are not written. *)
PersistPointsOnly(h) ==
  /\ At(h, "persist")
  /\ points' = [p \in Players |-> PlayerBase[call[h].events][call[h].seen][p][TRUE]]
  /\ Return(h)
  /\ excused' = ~call[h].clean
  /\ UNCHANGED <<teams, rows, mirror, rulebase, asked, requests>> /\ Kept

(* buildPlayerPointsPayload: those with statistics and those picked. *)
Payload(c) ==
  LET picked == Picked(Range(c.staged))
  IN  [p \in picked \cup DOMAIN Statistics[c.seen] |->
         PlayerBase[c.events][c.seen][p][(p \in picked)]]

(* The points of a player the payload does not name stay as they were. *)
BulkUpsert(payload) ==
  points' = [p \in Players |-> IF p \in DOMAIN payload THEN payload[p] ELSE points[p]]

(* Their mirror in the statistics of the moment, which has no negatives. *)
MirrorPoints(payload) ==
  mirror' = [p \in Players |-> IF p \in DOMAIN Statistics[stats] \cap DOMAIN payload
                               THEN Max({0, payload[p]}) ELSE mirror[p]]

(* persistRecompute, one transaction, and the end of the recomputation. *)
PersistRecompute(h) ==
  LET c == call[h]
      payload == Payload(c)
      picks == UNION {Range(Lineups[l]) : l \in Range(c.staged)}
  IN
  /\ At(h, "persist")
  /\ PersistTeamPoints(c.staged,
       [t \in DOMAIN c.staged |-> TotalOf[c.events][c.rule.book][c.seen][c.staged[t]]],
       [pick \in picks |-> PointsOf[c.events][c.rule.book][c.seen][pick]])
  /\ BulkUpsert(payload) /\ MirrorPoints(payload)
  /\ Return(h)
  /\ excused' = ~c.clean
  /\ UNCHANGED <<rulebase, asked, requests>> /\ Kept

(* A failed or crashed job is queued again until its attempts are used up, *)
(* a failed request is answered; a transaction under way is rolled back.   *)
Fail(h) ==
  /\ call[h] # Idle /\ Turns(1)
  /\ faults' = faults + 1
  /\ Return(h)
  /\ IF call[h].op = "job"
     THEN \/ jobs < MaxJobs /\ jobs' = jobs + 1 /\ UNCHANGED asked
          \/ asked' = FALSE /\ UNCHANGED jobs
     ELSE UNCHANGED <<jobs, asked>>
  /\ UNCHANGED <<teams, rows, match, rulebase, scores, excused, requests>>

-----------------------------------------------------------------------------
(* Ingestion.  syncMatches stores the status the provider reports, also    *)
(* over one an administrator set, and reconcileStaleStatuses completes     *)
(* matches that were forgotten.                                            *)
SyncMatches ==
  /\ locked' = ~locked
  /\ UNCHANGED <<teams, rows, stats, rulebase, scores, ghosts, jobs, call, requests, faults>>

CancelMatch ==
  /\ locked /\ locked' = FALSE
  /\ UNCHANGED <<teams, rows, stats, rulebase, scores, ghosts, jobs, call, requests, faults>>

StatsArrive ==
  /\ Turns(1) /\ stats < Len(Statistics) /\ stats' = stats + 1
  /\ asked' = FALSE
  /\ call' = [h \in Handlers |-> [call[h] EXCEPT !.clean = FALSE]]
  /\ UNCHANGED <<teams, rows, locked, rulebase, points, mirror, excused,
                 jobs, requests, faults>>

Enqueue ==
  /\ jobs < MaxJobs /\ jobs' = jobs + 1
  /\ asked' = TRUE
  /\ UNCHANGED <<teams, rows, match, rulebase, scores, excused, call,
                 requests, faults>>

(* A tick of the live scores of a match that is LIVE, if there were events,*)
(* and the scan for COMPLETED ones.  An enqueue that fails is swallowed.   *)
LiveTick == locked /\ Enqueue
FinalReconcile == locked /\ Enqueue

TeamStep(h) == CountTeams(h) \/ SaveTeam(h)
ScoringStep(h) ==
  \/ TakeJob(h) \/ RecomputeAdjusted(h) \/ ReadStats(h) \/ ReadTeams(h)
  \/ PersistRecompute(h)

Next ==
  \/ \E h \in Handlers :
       \/ CreateTeamRequest(h) \/ UpdateTeamRequest(h) \/ CloneTeamRequest(h)
       \/ DeleteTeamRequest(h) \/ AdminRecompute(h) \/ AdjustPlayerPoints(h)
       \/ TeamStep(h) \/ ScoringStep(h) \/ Fail(h)
  \/ JobRefused \/ UpdateRule \/ ActivateRule \/ ScoringRuleChange \/ CacheExpires
  \/ SyncMatches \/ CancelMatch \/ StatsArrive \/ LiveTick \/ FinalReconcile

Spec == Init /\ [][Next]_vars

-----------------------------------------------------------------------------
(* The projection of fantasy-team.service.ts and its teams never diverge:  *)
(* the rows not deleted are the picks of the teams not deleted.            *)
RowsMirrorTeams ==
  {[r EXCEPT !.points = 0] : r \in rows}
    = UNION {RowsFor(t, teams[t].lineup) : t \in LiveTeams}

(* A team breaks the version of the rule it names only if some rule was    *)
(* changed after it was named or after the lineup was accepted: an update  *)
(* is validated against the active rule but keeps the rule the team names, *)
(* a clone names the active rule without being validated.                  *)
RuleMismatchNeedsRuleChange ==
  \A t \in LiveTeams :
    \/ teams[t].lineup \in Accepts[rules[teams[t].rule].book]
    \/ teams[t].named < changes \/ teams[t].checked < changes

(* Nothing is queued or under way, a recomputation was asked for since the *)
(* statistics changed, and none has been needed since the last one.        *)
AtRest == /\ jobs = 0 /\ \A h \in Handlers : call[h] = Idle
          /\ asked /\ ~excused

(* At rest the totals of the teams, the points of their rows, the points   *)
(* of the players and their mirror are those the engine computes from the  *)
(* present statistics, rules and lineups, unless the last recomputation    *)
(* overlapped another or a change of a team, of a rule or by an            *)
(* adjustment, or these came after it: only then are they not final.       *)
RestingPointsAreFinal ==
  AtRest =>
    \E v \in Active, e \in {scoring.active} \ {NoBook} :
      LET picked == Picked({teams[t].lineup : t \in LiveTeams})
          rows_  == DOMAIN Statistics[stats]
          Points(pick) == PointsOf[e][rules[v].book][stats][pick]
      IN /\ \A t \in LiveTeams :
              teams[t].total = TotalOf[e][rules[v].book][stats][teams[t].lineup]
         /\ \A r \in rows :
              r.points = Points([player |-> r.player, captain |-> r.captain, vice |-> r.vice])
         /\ \A p \in picked \cup rows_ : points[p] = PlayerBase[e][stats][p][(p \in picked)]
         /\ \A p \in rows_ : mirror[p] = Max({0, points[p]})
=============================================================================
