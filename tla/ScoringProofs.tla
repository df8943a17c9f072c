---------------------------- MODULE ScoringProofs ----------------------------
(***************************************************************************)
(* What is proved of the points: of the teams, their rows and their totals *)
(* (MatchDay), and of the leaderboard that ranks entries by those totals   *)
(* (Leaderboard, at the end).                                              *)
(*                                                                         *)
(* The argument about MatchDay: what a handler has read carries how many   *)
(* changes of the rules there had been, so that it still speaks of the     *)
(* present rules exactly when there was none since (Fresh, Checked).  A    *)
(* recomputation is clean while nothing it has read was changed and no     *)
(* other one runs (Inputs, Alone), and the one that was asked for leaves   *)
(* final points behind, or is still to come (PointsOK).                    *)
(***************************************************************************)
EXTENDS MatchDay, Leaderboard, FiniteSetTheorems, WellFoundedInduction, TLAPS

-----------------------------------------------------------------------------
(* The shapes of the documents and calls.  What the engines compute is any *)
(* of the values they have for this instance.                              *)
Earned ==
  {0} \cup {PointsOf[e][b][k][pick] : e \in DOMAIN ScoringBooks, b \in DOMAIN RuleBooks,
                                      k \in DOMAIN Statistics, pick \in Pick}
Sums ==
  {0} \cup {TotalOf[e][b][k][l] : e \in DOMAIN ScoringBooks, b \in DOMAIN RuleBooks,
                                  k \in DOMAIN Statistics, l \in DOMAIN Lineups}
TeamDoc == [lineup : DOMAIN Lineups, rule : Nat, deleted : BOOLEAN, total : Sums,
            named : Nat, checked : Nat]
RowDoc == [team : Nat, player : Players, captain : BOOLEAN, vice : BOOLEAN, points : Earned]
RuleDoc == [book : DOMAIN RuleBooks, active : BOOLEAN]
RuleRead == [version : Nat, book : DOMAIN RuleBooks, at : Nat]
Books == [active : NoBook..Len(ScoringBooks), stale : NoBook..Len(ScoringBooks), changes : Nat]
Stagings == UNION {[D -> DOMAIN Lineups] : D \in SUBSET Nat}
CallDoc == [op : Ops, at : Steps, team : Nat, lineup : 0..Len(Lineups), checked : Nat,
            rule : RuleRead, events : NoBook..Len(ScoringBooks), seen : DOMAIN Statistics,
            staged : Stagings, clean : BOOLEAN]

Shaped ==
  /\ teams \in Seq(TeamDoc) /\ rows \subseteq RowDoc
  /\ rules \in Seq(RuleDoc) /\ cache \in RuleRead /\ scoring \in Books
  /\ stats \in DOMAIN Statistics /\ jobs \in Nat /\ changes \in Nat
  /\ asked \in BOOLEAN /\ excused \in BOOLEAN
  /\ call \in [Handlers -> CallDoc]

ActiveIn(rs) == {v \in DOMAIN rs : rs[v].active}
LiveIn(ts) == {t \in DOMAIN ts : ~ts[t].deleted}

(* No player twice. *)
Distinct(l) == \A i, j \in DOMAIN Lineups[l] :
                 Lineups[l][i].player = Lineups[l][j].player => i = j

(* A rule that was read names a version, and if nothing has changed since, *)
(* it is the active one.  rs are the rules after n changes.                *)
Fresh(r, rs, n) ==
  /\ r.version \in DOMAIN rs /\ r.at <= n
  /\ r.at = n => r.version \in ActiveIn(rs) /\ rs[r.version].book = r.book

(* A lineup that was accepted after k changes.                             *)
Checked(l, k, rs, n) ==
  /\ l \in DOMAIN Lineups /\ Distinct(l) /\ k <= n
  /\ k = n => \A v \in ActiveIn(rs) : l \in Accepts[rs[v].book]

TeamOK(t, rs, n) ==
  /\ Checked(t.lineup, t.checked, rs, n)
  /\ t.rule \in DOMAIN rs /\ t.named <= n
  /\ t.named = n => t.rule \in ActiveIn(rs)

(* What a request of the user holds.                                       *)
RequestOK(c, rs, n, ts) ==
  /\ c.at = "count" => c.op \in {"create", "clone"}
  /\ c.at = "save" => c.op \in {"create", "clone", "update", "delete"}
  /\ c.op \in {"create", "clone"} => Fresh(c.rule, rs, n) /\ c.lineup \in DOMAIN Lineups
  /\ c.op = "create" => c.checked = c.rule.at
  /\ c.op \in {"update", "delete"} => c.team \in DOMAIN ts
  /\ \/ c.op \in {"clone", "update"}
     \/ c.op = "create" /\ c.at = "save"
     => Checked(c.lineup, c.checked, rs, n)

(* What a recomputation holds, and what it has read while it is clean: the *)
(* active version of rs, the scoring rule e, the statistics k and the      *)
(* lineups of ts.                                                          *)
Runs(c) == c.at \in {"stats", "teams", "persist"}
Inputs(c, rs, e, k, ts) ==
  /\ Runs(c) /\ c.rule.version \in ActiveIn(rs) /\ rs[c.rule.version].book = c.rule.book
  /\ c.events = e
  /\ c.at # "stats" => c.seen = k
  /\ c.at = "persist" => c.staged = [t \in LiveIn(ts) |-> ts[t].lineup]
RunOK(c) ==
  /\ Runs(c) => c.op \in {"job", "recompute", "adjust"} /\ c.events # NoBook
  /\ c.op = "job" => Runs(c)

Stands(c, rs, n, e, k, ts) ==
  /\ RequestOK(c, rs, n, ts) /\ RunOK(c)
  /\ c.clean => Inputs(c, rs, e, k, ts)

RulesOK ==
  /\ \A u, v \in ActiveIn(rules) : u = v
  /\ cache = NoRule \/ Fresh(cache, rules, changes)
TeamsOK == \A t \in DOMAIN teams : TeamOK(teams[t], rules, changes)
CallsOK == \A h \in Handlers :
             Stands(call[h], rules, changes, scoring.active, stats, teams)
Alone == \A g, h \in Handlers : call[h].clean /\ Runs(call[g]) => g = h

(* The totals and points are those of the present inputs.                  *)
Totalled(v, e) ==
  \A t \in LiveTeams : teams[t].total = TotalOf[e][rules[v].book][stats][teams[t].lineup]
Scored(v, e) ==
  \A r \in rows :
    r.points = PointsOf[e][rules[v].book][stats][
                        [player |-> r.player, captain |-> r.captain, vice |-> r.vice]]
Credited(e) ==
  LET picked == Picked({teams[t].lineup : t \in LiveTeams})
  IN  \A p \in picked \cup DOMAIN Statistics[stats] :
        points[p] = PlayerBase[e][stats][p][(p \in picked)]
Mirrored == \A p \in DOMAIN Statistics[stats] : mirror[p] = Max({0, points[p]})
Final ==
  /\ \E v \in Active, e \in {scoring.active} \ {NoBook} :
       Totalled(v, e) /\ Scored(v, e) /\ Credited(e)
  /\ Mirrored

(* A recomputation that was asked for and not done is queued or under way. *)
PointsOK ==
  asked /\ ~excused => Final \/ jobs > 0 \/ \E h \in Handlers : call[h].op = "job"

-----------------------------------------------------------------------------
LEMMA Contents ==
  /\ 1 \in DOMAIN RuleBooks /\ 1 \in DOMAIN Statistics
  /\ Len(ScoringBooks) \in Nat \ {0} /\ DOMAIN ScoringBooks = 1..Len(ScoringBooks)
  /\ Len(Lineups) \in Nat /\ DOMAIN Lineups = 1..Len(Lineups)
  /\ DOMAIN Lineups \subseteq 0..Len(Lineups) /\ NoBook \in NoBook..Len(ScoringBooks)
  /\ FirstRules \in Seq(DOMAIN RuleBooks)
<1>1. /\ Lineups \in Seq(Seq(Pick)) /\ RuleBooks \in Seq(Rule) \ {<<>>}
      /\ ScoringBooks \in Seq(Seq(ScoringEvent)) \ {<<>>}
      /\ DOMAIN Statistics = 1..Len(Statistics) /\ Len(Statistics) \in Nat \ {0}
      /\ FirstRules \in Seq(DOMAIN RuleBooks)
  BY MatchDayAssumption
<1>2. Len(RuleBooks) \in Nat \ {0} /\ DOMAIN RuleBooks = 1..Len(RuleBooks)
  BY <1>1
<1>3. Len(ScoringBooks) \in Nat \ {0} /\ DOMAIN ScoringBooks = 1..Len(ScoringBooks)
  BY <1>1
<1> QED  BY <1>1, <1>2, <1>3 DEF NoBook

LEMMA NothingStaged == <<>> \in Stagings
<1>1. <<>> \in [{} -> DOMAIN Lineups]
  OBVIOUS
<1> QED  BY <1>1 DEF Stagings

LEMMA IdleShape == Idle \in CallDoc /\ NoRule \in RuleRead
<1>1. NoRule \in RuleRead
  BY Contents DEF NoRule, RuleRead
<1> QED  BY <1>1, Contents, NothingStaged DEF Idle, CallDoc, Ops, Steps

-----------------------------------------------------------------------------
(* What was read and accepted stays so, or is older than a change.         *)
Later(rs, n, rs2, n2) ==
  \/ rs2 = rs /\ n2 = n
  \/ n2 = n + 1 /\ DOMAIN rs2 = DOMAIN rs

LEMMA FreshKept ==
  ASSUME NEW rs, NEW n \in Nat, NEW rs2, NEW n2, Later(rs, n, rs2, n2),
         NEW r \in RuleRead, Fresh(r, rs, n)
  PROVE  Fresh(r, rs2, n2)
<1>1. CASE rs2 = rs /\ n2 = n
  BY <1>1
<1>2. CASE n2 = n + 1 /\ DOMAIN rs2 = DOMAIN rs
  <2>1. r.at \in Nat
    BY DEF RuleRead
  <2>2. r.at <= n2 /\ r.at # n2
    BY <1>2, <2>1 DEF Fresh
  <2> QED  BY <1>2, <2>2 DEF Fresh
<1> QED  BY <1>1, <1>2 DEF Later

LEMMA CheckedKept ==
  ASSUME NEW rs, NEW n \in Nat, NEW rs2, NEW n2, Later(rs, n, rs2, n2),
         NEW l, NEW k \in Nat, Checked(l, k, rs, n)
  PROVE  Checked(l, k, rs2, n2)
<1>1. CASE rs2 = rs /\ n2 = n
  BY <1>1
<1>2. CASE n2 = n + 1 /\ DOMAIN rs2 = DOMAIN rs
  <2>0. k <= n
    BY DEF Checked
  <2>1. k <= n2 /\ k # n2
    BY <1>2, <2>0
  <2> QED  BY <2>1 DEF Checked
<1> QED  BY <1>1, <1>2 DEF Later

LEMMA TeamKept ==
  ASSUME NEW rs, NEW n \in Nat, NEW rs2, NEW n2, Later(rs, n, rs2, n2),
         NEW t \in TeamDoc, TeamOK(t, rs, n)
  PROVE  TeamOK(t, rs2, n2)
<1>0. t.checked \in Nat /\ t.named \in Nat
  BY DEF TeamDoc
<1>1. Checked(t.lineup, t.checked, rs2, n2)
  BY <1>0, CheckedKept DEF TeamOK
<1>2. CASE rs2 = rs /\ n2 = n
  BY <1>2
<1>3. CASE n2 = n + 1 /\ DOMAIN rs2 = DOMAIN rs
  <2>1. t.named <= n2 /\ t.named # n2
    BY <1>3, <1>0 DEF TeamOK
  <2> QED  BY <1>1, <1>3, <2>1 DEF TeamOK
<1> QED  BY <1>2, <1>3 DEF Later

LEMMA RequestKept ==
  ASSUME NEW rs, NEW n \in Nat, NEW rs2, NEW n2, Later(rs, n, rs2, n2),
         NEW ts, NEW ts2, DOMAIN ts \subseteq DOMAIN ts2,
         NEW c \in CallDoc, RequestOK(c, rs, n, ts)
  PROVE  RequestOK(c, rs2, n2, ts2)
<1>1. c.rule \in RuleRead /\ c.checked \in Nat
  BY DEF CallDoc
<1>2. Fresh(c.rule, rs, n) => Fresh(c.rule, rs2, n2)
  BY <1>1, FreshKept
<1>3. Checked(c.lineup, c.checked, rs, n) => Checked(c.lineup, c.checked, rs2, n2)
  BY <1>1, CheckedKept
<1> QED  BY <1>2, <1>3 DEF RequestOK

(* A call whose inputs have changed.                                       *)
Soiled(c) == [c EXCEPT !.clean = FALSE]

LEMMA SoiledFields ==
  ASSUME NEW c \in CallDoc
  PROVE  /\ Soiled(c) \in CallDoc /\ Soiled(c).clean = FALSE
         /\ Soiled(c).op = c.op /\ Soiled(c).at = c.at /\ Soiled(c).team = c.team
         /\ Soiled(c).lineup = c.lineup /\ Soiled(c).checked = c.checked
         /\ Soiled(c).rule = c.rule /\ Soiled(c).events = c.events
<1>1. PICK d : d = Soiled(c)
  OBVIOUS
<1>2. d = [op |-> c.op, at |-> c.at, team |-> c.team, lineup |-> c.lineup,
           checked |-> c.checked, rule |-> c.rule, events |-> c.events, seen |-> c.seen,
           staged |-> c.staged, clean |-> FALSE]
  BY <1>1 DEF Soiled, CallDoc
<1>3. d \in CallDoc
  BY <1>2 DEF CallDoc
<1> QED  BY <1>1, <1>2, <1>3

LEMMA SoiledHolds ==
  ASSUME NEW c \in CallDoc
  PROVE  /\ \A rs, n, ts : RequestOK(c, rs, n, ts) => RequestOK(Soiled(c), rs, n, ts)
         /\ RunOK(c) => RunOK(Soiled(c))
         /\ Runs(Soiled(c)) <=> Runs(c)
BY SoiledFields DEF RequestOK, RunOK, Runs

LEMMA IdleHolds ==
  /\ ~Runs(Idle) /\ ~Idle.clean /\ RunOK(Idle) /\ Idle.op = "none" /\ Idle.at = "idle"
  /\ \A rs, n, ts : RequestOK(Idle, rs, n, ts)
BY DEF Idle, Runs, RunOK, RequestOK

(* A lineup that some rule accepts has no player twice.                    *)
LEMMA AcceptedIsDistinct ==
  ASSUME NEW b \in DOMAIN RuleBooks, NEW l \in DOMAIN Lineups, l \in Accepts[b]
  PROVE  Distinct(l)
<1>1. LineupValid(RuleBooks[b], Lineups[l])
  BY DEF Accepts
<1>2. "DUPLICATE_PLAYER" \notin Issues(RuleBooks[b], Lineups[l])
  BY <1>1 DEF LineupValid
<1>3. Counted(Lineups[l]) = DOMAIN Lineups[l]
  BY <1>2 DEF Issues, IssueCodes
<1>4. Lineups[l] \in Seq(Pick)
  BY MatchDayAssumption
<1>5. \A i, j \in DOMAIN Lineups[l] : j < i => Lineups[l][j].player # Lineups[l][i].player
  BY <1>3, <1>4 DEF Counted
<1> QED  BY <1>4, <1>5 DEF Distinct

-----------------------------------------------------------------------------
(* What the other parts make of a step.                                    *)
SameInputs == UNCHANGED <<rules, changes, scoring, stats, teams>>

LEMMA CallsStep ==
  ASSUME Shaped, CallsOK, Later(rules, changes, rules', changes'),
         DOMAIN teams \subseteq DOMAIN teams',
         \A g \in Handlers :
           \/ call'[g] = Soiled(call[g])
           \/ call'[g] = call[g] /\ SameInputs
           \/ Stands(call'[g], rules', changes', scoring'.active, stats', teams')
  PROVE  CallsOK'
<1> SUFFICES ASSUME NEW g \in Handlers
             PROVE  Stands(call'[g], rules', changes', scoring'.active, stats', teams')
  BY DEF CallsOK
<1>0. call[g] \in CallDoc /\ changes \in Nat
  BY DEF Shaped
<1>1. Stands(call[g], rules, changes, scoring.active, stats, teams)
  BY DEF CallsOK
<1>2. CASE call'[g] = Soiled(call[g])
  <2>1. RequestOK(call[g], rules', changes', teams') /\ RunOK(call[g])
    BY <1>0, <1>1, RequestKept DEF Stands
  <2>2. Soiled(call[g]).clean = FALSE
    BY <1>0, SoiledFields
  <2> QED  BY <1>0, <1>2, <2>1, <2>2, SoiledHolds DEF Stands
<1>3. CASE call'[g] = call[g] /\ SameInputs
  BY <1>1, <1>3 DEF SameInputs
<1> QED  BY <1>2, <1>3

LEMMA AloneKept ==
  ASSUME Alone, \A g \in Handlers : /\ Runs(call'[g]) => Runs(call[g])
                                    /\ call'[g].clean => call[g].clean
  PROVE  Alone'
BY DEF Alone, Runs

LEMMA TeamsLater ==
  ASSUME Shaped, TeamsOK, Later(rules, changes, rules', changes'), teams' = teams
  PROVE  TeamsOK'
<1> SUFFICES ASSUME NEW t \in DOMAIN teams
             PROVE  TeamOK(teams[t], rules', changes')
  BY DEF TeamsOK
<1>1. teams[t] \in TeamDoc /\ changes \in Nat
  BY DEF Shaped
<1> QED  BY <1>1, TeamKept DEF TeamsOK

LEMMA RowsStay ==
  ASSUME RowsMirrorTeams, UNCHANGED <<teams, rows>>
  PROVE  RowsMirrorTeams'
BY DEF RowsMirrorTeams, LiveTeams

LEMMA FinalStays ==
  ASSUME Final, UNCHANGED <<teams, rows, rules, stats, points, mirror>>,
         scoring'.active = scoring.active
  PROVE  Final'
<1>1. LiveTeams' = LiveTeams /\ Active' = Active
  BY DEF LiveTeams, Active
<1>2. PICK v \in Active, e \in {scoring.active} \ {NoBook} :
        Totalled(v, e) /\ Scored(v, e) /\ Credited(e)
  BY DEF Final
<1>3. v \in Active' /\ e \in {scoring'.active} \ {NoBook}
  BY <1>1, <1>2
<1>4. Totalled(v, e)'
  BY <1>1, <1>2 DEF Totalled
<1>5. Scored(v, e)'
  BY <1>2 DEF Scored
<1>6. Credited(e)'
  BY <1>1, <1>2 DEF Credited
<1>7. Mirrored'
  BY DEF Final, Mirrored
<1> QED  BY <1>3, <1>4, <1>5, <1>6, <1>7 DEF Final

LEMMA PointsStay ==
  ASSUME PointsOK, UNCHANGED <<teams, rows, rules, stats, points, mirror>>,
         scoring'.active = scoring.active,
         asked' => asked, excused => excused',
         jobs > 0 => jobs' > 0 \/ \E h \in Handlers : call'[h].op = "job",
         (\E h \in Handlers : call[h].op = "job")
           => jobs' > 0 \/ \E h \in Handlers : call'[h].op = "job"
  PROVE  PointsOK'
<1>1. Final => Final'
  BY FinalStays
<1> QED  BY <1>1 DEF PointsOK

LEMMA PointsExcused ==
  ASSUME excused' \/ ~asked'
  PROVE  PointsOK'
BY DEF PointsOK

(* A step of one call.                                                     *)
LEMMA OneMoves ==
  ASSUME call \in [Handlers -> CallDoc], NEW h \in Handlers, NEW c \in CallDoc,
         call' = [call EXCEPT ![h] = c]
  PROVE  /\ call' \in [Handlers -> CallDoc] /\ call'[h] = c
         /\ \A g \in Handlers \ {h} : call'[g] = call[g]
OBVIOUS

LEMMA AllSoil ==
  ASSUME NEW next \in [Handlers -> CallDoc],
         call' = [g \in Handlers |-> [next[g] EXCEPT !.clean = FALSE]]
  PROVE  /\ call' \in [Handlers -> CallDoc]
         /\ \A g \in Handlers : /\ call'[g] = Soiled(next[g]) /\ call'[g].clean = FALSE
                                /\ call'[g].op = next[g].op /\ call'[g].at = next[g].at
<1>1. \A g \in Handlers : call'[g] = Soiled(next[g])
  BY DEF Soiled
<1>2. \A g \in Handlers : Soiled(next[g]) \in CallDoc
  BY SoiledFields
<1>3. call' \in [Handlers -> CallDoc]
  BY <1>1, <1>2
<1>4. \A g \in Handlers : /\ Soiled(next[g]).clean = FALSE
                           /\ Soiled(next[g]).op = next[g].op
                           /\ Soiled(next[g]).at = next[g].at
  BY SoiledFields
<1> QED  BY <1>1, <1>3, <1>4

-----------------------------------------------------------------------------
(* The rule that getActive returns.                                        *)
LEMMA RuleIsFresh ==
  ASSUME Shaped, RulesOK, NEW r \in ActiveRule
  PROVE  r \in RuleRead /\ Fresh(r, rules, changes)
<1>1. CASE r = cache /\ cache # NoRule
  BY <1>1 DEF Shaped, RulesOK
<1>2. CASE \E v \in Active : r = [version |-> v, book |-> rules[v].book, at |-> changes]
  <2>1. PICK v \in Active : r = [version |-> v, book |-> rules[v].book, at |-> changes]
    BY <1>2
  <2>2. v \in DOMAIN rules /\ rules[v] \in RuleDoc /\ v \in Nat /\ changes \in Nat
    BY DEF Active, Shaped
  <2>3. r \in RuleRead
    BY <2>1, <2>2 DEF RuleRead, RuleDoc
  <2>4. v \in ActiveIn(rules)
    BY DEF Active, ActiveIn
  <2> QED  BY <2>1, <2>2, <2>3, <2>4 DEF Fresh
<1> QED  BY <1>1, <1>2 DEF ActiveRule

LEMMA RulesRead ==
  ASSUME Shaped, RulesOK, UNCHANGED <<rules, changes>>,
         cache' \in {cache, NoRule} \cup ActiveRule
  PROVE  RulesOK' /\ cache' \in RuleRead
<1>1. cache' \in RuleRead
  BY RuleIsFresh, IdleShape DEF Shaped
<1>2. cache' = NoRule \/ Fresh(cache', rules, changes)
  BY RuleIsFresh DEF RulesOK
<1> QED  BY <1>1, <1>2 DEF RulesOK

Inv ==
  Shaped /\ RulesOK /\ TeamsOK /\ CallsOK /\ Alone /\ RowsMirrorTeams /\ PointsOK

(* A step of a call that writes nothing the recomputations read.           *)
LEMMA CallAlone ==
  ASSUME Inv, NEW h \in Handlers, NEW c \in CallDoc, call' = [call EXCEPT ![h] = c],
         UNCHANGED <<teams, rows, rules, changes, stats, points, mirror>>, scoring' = scoring,
         UNCHANGED <<asked, excused>>, jobs' \in Nat,
         cache' \in {cache, NoRule} \cup ActiveRule,
         Stands(c, rules, changes, scoring.active, stats, teams),
         Runs(c) => Runs(call[h]), c.clean => call[h].clean,
         jobs > 0 => jobs' > 0,
         call[h].op = "job" => c.op = "job" \/ jobs' > 0
  PROVE  Inv'
<1> USE DEF Inv
<1>0. /\ call' \in [Handlers -> CallDoc] /\ call'[h] = c
      /\ \A g \in Handlers \ {h} : call'[g] = call[g]
  BY OneMoves DEF Shaped
<1>1. RulesOK' /\ cache' \in RuleRead
  BY RulesRead
<1>2. Shaped'
  BY <1>0, <1>1 DEF Shaped
<1>3. Later(rules, changes, rules', changes')
  BY DEF Later
<1>4. TeamsOK'
  BY <1>3, TeamsLater
<1>5. CallsOK'
  BY <1>0, <1>3, CallsStep DEF SameInputs
<1>6. Alone'
  BY <1>0, AloneKept
<1>7. RowsMirrorTeams'
  BY RowsStay
<1>8. PointsOK'
  <2>1. (\E g \in Handlers : call[g].op = "job")
          => jobs' > 0 \/ \E g \in Handlers : call'[g].op = "job"
    BY <1>0
  <2> QED  BY <2>1, PointsStay
<1> QED  BY <1>1, <1>2, <1>4, <1>5, <1>6, <1>7, <1>8

(* A step that none of the calls is about.                                 *)
LEMMA NoCall ==
  ASSUME Inv, UNCHANGED <<teams, rows, rules, changes, stats, points, mirror, call, excused>>,
         scoring'.active = scoring.active, scoring' \in Books, jobs' \in Nat,
         cache' \in {cache, NoRule}, asked' \in BOOLEAN,
         ~asked' \/ (asked' = asked /\ jobs' = jobs) \/ jobs' > 0
  PROVE  Inv'
<1> USE DEF Inv
<1>1. RulesOK' /\ cache' \in RuleRead
  BY RulesRead
<1>2. Shaped'
  BY <1>1 DEF Shaped
<1>3. Later(rules, changes, rules', changes')
  BY DEF Later
<1>4. TeamsOK'
  BY <1>3, TeamsLater
<1>5. CallsOK'
  BY DEF CallsOK
<1>6. Alone'
  BY DEF Alone
<1>7. RowsMirrorTeams'
  BY RowsStay
<1>8. PointsOK'
  <2>1. CASE ~asked'
    BY <2>1, PointsExcused
  <2>2. CASE asked' = asked /\ jobs' = jobs
    BY <2>2, PointsStay
  <2>3. CASE jobs' > 0
    BY <2>3 DEF PointsOK
  <2> QED  BY <2>1, <2>2, <2>3
<1> QED  BY <1>1, <1>2, <1>4, <1>5, <1>6, <1>7, <1>8

-----------------------------------------------------------------------------
(* The requests of the user.                                               *)
LEMMA AcceptedIsChecked ==
  ASSUME Shaped, RulesOK, NEW r \in RuleRead, Fresh(r, rules, changes),
         NEW l \in DOMAIN Lineups, l \in Accepts[r.book]
  PROVE  Checked(l, r.at, rules, changes)
<1>1. r.book \in DOMAIN RuleBooks
  BY DEF RuleRead
<1>2. Distinct(l)
  BY <1>1, AcceptedIsDistinct
<1>3. ASSUME r.at = changes, NEW v \in ActiveIn(rules)
      PROVE  rules[v].book = r.book
  BY <1>3 DEF RulesOK, Fresh
<1> QED  BY <1>2, <1>3 DEF Checked, Fresh

(* A call that a request starts.                                           *)
LEMMA Starts ==
  ASSUME Inv, NEW h \in Handlers, NEW c \in CallDoc, Start(h, c),
         UNCHANGED <<teams, rows, rules, changes, stats, points, mirror>>, scoring' = scoring,
         UNCHANGED <<asked, excused, jobs>>,
         cache' \in {cache, NoRule} \cup ActiveRule,
         c.at \in {"count", "save"}, ~c.clean, c.op # "job",
         RequestOK(c, rules, changes, teams)
  PROVE  Inv'
<1>1. call' = [call EXCEPT ![h] = c] /\ call[h] = Idle
  BY DEF Start
<1>2. ~Runs(c) /\ RunOK(c)
  BY DEF Runs, RunOK
<1>3. Stands(c, rules, changes, scoring.active, stats, teams)
  BY <1>2 DEF Stands
<1>4. call[h].op # "job"
  BY <1>1, IdleHolds
<1>5. jobs' \in Nat
  BY DEF Inv, Shaped
<1> HIDE DEF Inv
<1> QED  BY <1>1, <1>2, <1>3, <1>4, <1>5, CallAlone

LEMMA TeamRequestStep ==
  ASSUME Inv, NEW h \in Handlers, NEW op \in {"create", "update", "clone"},
         NEW step, step = IF op = "update" THEN "save" ELSE "count",
         NEW t \in Nat, NEW l \in DOMAIN Lineups, NEW checked \in Nat,
         op = "update" => t \in DOMAIN teams,
         op = "clone" => Checked(l, checked, rules, changes),
         TeamRequest(h, op, step, t, l, checked)
  PROVE  Inv'
<1>1. PICK r \in ActiveRule :
        /\ cache' = r
        /\ op = "update" => l \in Accepts[r.book]
        /\ Start(h, [Idle EXCEPT !.op = op, !.at = step, !.team = t, !.lineup = l,
                                 !.checked = IF op = "clone" THEN checked ELSE r.at,
                                 !.rule = IF op = "update" THEN NoRule ELSE r])
  BY DEF TeamRequest
<1>2. r \in RuleRead /\ Fresh(r, rules, changes)
  BY RuleIsFresh DEF Inv
<1>3. PICK k : k = IF op = "clone" THEN checked ELSE r.at
  OBVIOUS
<1>4. PICK q : q = IF op = "update" THEN NoRule ELSE r
  OBVIOUS
<1>5. PICK c : c = [Idle EXCEPT !.op = op, !.at = step, !.team = t, !.lineup = l,
                                !.checked = IF op = "clone" THEN checked ELSE r.at,
                                !.rule = IF op = "update" THEN NoRule ELSE r]
  OBVIOUS
<1>6. Start(h, c)
  BY <1>1, <1>5, Zenon
<1>51. c = [Idle EXCEPT !.op = op, !.at = step, !.team = t, !.lineup = l, !.checked = k,
                        !.rule = q]
  BY <1>3, <1>4, <1>5, Zenon
<1>52. c = [op |-> op, at |-> step, team |-> t, lineup |-> l, checked |-> k,
            rule |-> q, events |-> NoBook, seen |-> 1, staged |-> <<>>, clean |-> FALSE]
  BY <1>51 DEF Idle
<1>7. k \in Nat /\ q \in RuleRead
  BY <1>2, <1>3, <1>4, IdleShape DEF RuleRead
<1>8. c \in CallDoc
  BY <1>52, <1>7, Contents, NothingStaged DEF CallDoc, Ops, Steps
<1>9. RequestOK(c, rules, changes, teams)
  <2>1. CASE op = "create"
    <3>1. k = r.at /\ q = r
      BY <2>1, <1>3, <1>4
    <3> QED  BY <1>2, <1>52, <2>1, <3>1 DEF RequestOK
  <2>2. CASE op = "update"
    <3>1. k = r.at
      BY <2>2, <1>3
    <3>2. Checked(l, k, rules, changes)
      BY <1>1, <1>2, <2>2, <3>1, AcceptedIsChecked DEF Inv
    <3> QED  BY <1>52, <2>2, <3>2 DEF RequestOK
  <2>3. CASE op = "clone"
    <3>1. k = checked /\ q = r
      BY <2>3, <1>3, <1>4
    <3> QED  BY <1>2, <1>52, <2>3, <3>1 DEF RequestOK
  <2> QED  BY <2>1, <2>2, <2>3
<1>10. /\ UNCHANGED <<teams, rows, rules, changes, stats, points, mirror>> /\ scoring' = scoring
       /\ UNCHANGED <<asked, excused, jobs>>
  BY DEF TeamRequest, Kept, match, scores, ghosts
<1>11. c.at \in {"count", "save"} /\ ~c.clean /\ c.op # "job"
  BY <1>52
<1>12. cache' \in {cache, NoRule} \cup ActiveRule
  BY <1>1
<1> HIDE DEF Inv, ActiveRule
<1> QED  BY <1>6, <1>8, <1>9, <1>10, <1>11, <1>12, Starts

LEMMA CreateTeamRequestStep ==
  ASSUME Inv, NEW h \in Handlers, CreateTeamRequest(h)
  PROVE  Inv'
<1>1. PICK l \in DOMAIN Lineups : TeamRequest(h, "create", "count", 0, l, 0)
  BY DEF CreateTeamRequest
<1> QED  BY <1>1, TeamRequestStep

LEMMA UpdateTeamRequestStep ==
  ASSUME Inv, NEW h \in Handlers, UpdateTeamRequest(h)
  PROVE  Inv'
<1>1. PICK t \in LiveTeams, l \in DOMAIN Lineups : TeamRequest(h, "update", "save", t, l, 0)
  BY DEF UpdateTeamRequest
<1>2. t \in DOMAIN teams /\ t \in Nat
  BY DEF LiveTeams, Inv, Shaped
<1> QED  BY <1>1, <1>2, TeamRequestStep

LEMMA CloneTeamRequestStep ==
  ASSUME Inv, NEW h \in Handlers, CloneTeamRequest(h)
  PROVE  Inv'
<1>1. PICK t \in LiveTeams :
        TeamRequest(h, "clone", "count", 0, teams[t].lineup, teams[t].checked)
  BY DEF CloneTeamRequest
<1>2. t \in DOMAIN teams /\ teams[t] \in TeamDoc /\ TeamOK(teams[t], rules, changes)
  BY DEF LiveTeams, Inv, Shaped, TeamsOK
<1>3. Checked(teams[t].lineup, teams[t].checked, rules, changes)
  BY <1>2 DEF TeamOK
<1>4. teams[t].lineup \in DOMAIN Lineups /\ teams[t].checked \in Nat
  BY <1>2 DEF TeamDoc
<1> QED  BY <1>1, <1>3, <1>4, TeamRequestStep

LEMMA DeleteTeamRequestStep ==
  ASSUME Inv, NEW h \in Handlers, DeleteTeamRequest(h)
  PROVE  Inv'
<1>1. PICK t \in LiveTeams : Start(h, [Idle EXCEPT !.op = "delete", !.at = "save", !.team = t])
  BY DEF DeleteTeamRequest
<1>2. t \in DOMAIN teams /\ t \in Nat
  BY DEF LiveTeams, Inv, Shaped
<1>3. PICK c : c = [Idle EXCEPT !.op = "delete", !.at = "save", !.team = t]
  OBVIOUS
<1>4. Start(h, c)
  BY <1>1, <1>3, Zenon
<1>41. c = [op |-> "delete", at |-> "save", team |-> t, lineup |-> 0, checked |-> 0,
            rule |-> NoRule, events |-> NoBook, seen |-> 1, staged |-> <<>>, clean |-> FALSE]
  BY <1>3 DEF Idle
<1>5. c \in CallDoc
  BY <1>2, <1>41, IdleShape, Contents, NothingStaged DEF CallDoc, Ops, Steps
<1>6. RequestOK(c, rules, changes, teams)
  BY <1>2, <1>41 DEF RequestOK
<1>7. /\ UNCHANGED <<teams, rows, rules, changes, stats, points, mirror>> /\ scoring' = scoring
      /\ UNCHANGED <<asked, excused, jobs, cache>>
  BY DEF DeleteTeamRequest, Kept, match, scores, ghosts, rulebase
<1>8. c.at \in {"count", "save"} /\ ~c.clean /\ c.op # "job"
  BY <1>41
<1> HIDE DEF Inv, ActiveRule
<1> QED  BY <1>4, <1>5, <1>6, <1>7, <1>8, Starts

(* A call that goes to its next step.                                      *)
Moved(d, step) == [d EXCEPT !.at = step]

LEMMA MovedFields ==
  ASSUME NEW d \in CallDoc, NEW step \in Steps
  PROVE  /\ Moved(d, step) \in CallDoc /\ Moved(d, step).at = step
         /\ Moved(d, step).clean = d.clean /\ Moved(d, step).op = d.op
         /\ Moved(d, step).team = d.team /\ Moved(d, step).lineup = d.lineup
         /\ Moved(d, step).checked = d.checked /\ Moved(d, step).rule = d.rule
<1>1. PICK c : c = Moved(d, step)
  OBVIOUS
<1>2. c = [op |-> d.op, at |-> step, team |-> d.team, lineup |-> d.lineup,
           checked |-> d.checked, rule |-> d.rule, events |-> d.events, seen |-> d.seen,
           staged |-> d.staged, clean |-> d.clean]
  BY <1>1 DEF Moved, CallDoc
<1>3. c \in CallDoc
  BY <1>2 DEF CallDoc
<1> QED  BY <1>1, <1>2, <1>3

LEMMA CountTeamsStep ==
  ASSUME Inv, NEW h \in Handlers, CountTeams(h)
  PROVE  Inv'
<1>0. /\ call[h] \in CallDoc /\ call[h].at = "count" /\ jobs \in Nat
      /\ call \in [Handlers -> CallDoc]
  BY DEF Inv, Shaped, CountTeams, At
<1>1. /\ RequestOK(call[h], rules, changes, teams)
      /\ call[h].clean => Runs(call[h])
  BY DEF Inv, CallsOK, Stands, Inputs
<1>2. call[h].op \in {"create", "clone"} /\ ~call[h].clean /\ call[h].rule \in RuleRead
  BY <1>0, <1>1 DEF RequestOK, Runs, CallDoc
<1>3. /\ UNCHANGED <<teams, rows, rules, changes, stats, points, mirror>> /\ scoring' = scoring
      /\ UNCHANGED <<asked, excused, cache>> /\ jobs' = jobs
  BY DEF CountTeams, Kept, match, scores, ghosts, rulebase
<1>4. CASE /\ call' = [call EXCEPT ![h] = Moved(call[h], "save")]
           /\ call[h].op = "create" => call[h].lineup \in Accepts[call[h].rule.book]
  <2>1. PICK c : c = Moved(call[h], "save")
    OBVIOUS
  <2>2. /\ c \in CallDoc /\ c.at = "save" /\ c.clean = call[h].clean /\ c.op = call[h].op
        /\ c.lineup = call[h].lineup /\ c.checked = call[h].checked
        /\ c.rule = call[h].rule
    BY <1>0, <2>1, MovedFields DEF Steps
  <2>3. c.op = "create" => Checked(c.lineup, c.checked, rules, changes)
    BY <1>1, <1>2, <1>4, <2>2, AcceptedIsChecked DEF RequestOK, Inv
  <2>4. RequestOK(c, rules, changes, teams)
    BY <1>1, <1>2, <2>2, <2>3 DEF RequestOK
  <2>5. ~Runs(c) /\ RunOK(c)
    BY <1>2, <2>2 DEF Runs, RunOK
  <2>6. Stands(c, rules, changes, scoring.active, stats, teams)
    BY <1>2, <2>2, <2>4, <2>5 DEF Stands
  <2>7. call' = [call EXCEPT ![h] = c]
    BY <1>4, <2>1
  <2> HIDE DEF Inv, ActiveRule
  <2> QED  BY <1>0, <1>2, <1>3, <2>2, <2>5, <2>6, <2>7, CallAlone
<1>5. CASE Return(h)
  <2>1. Stands(Idle, rules, changes, scoring.active, stats, teams)
    BY IdleHolds DEF Stands
  <2>2. call' = [call EXCEPT ![h] = Idle]
    BY <1>5 DEF Return
  <2> HIDE DEF Inv, ActiveRule
  <2> QED  BY <1>0, <1>2, <1>3, <2>1, <2>2, IdleHolds, IdleShape, CallAlone
<1>6. Goto(h, "save") => call' = [call EXCEPT ![h] = Moved(call[h], "save")]
  BY <1>0 DEF Goto, Moved
<1> QED  BY <1>4, <1>5, <1>6 DEF CountTeams

(* The reads of a recomputation.                                           *)
LEMMA Reads ==
  ASSUME Inv, NEW h \in Handlers, NEW c \in CallDoc, call' = [call EXCEPT ![h] = c],
         UNCHANGED <<teams, rows, rulebase, scores, ghosts>>, Kept,
         Runs(call[h]), Runs(c), c.op = call[h].op, c.clean = call[h].clean,
         c.rule = call[h].rule, c.events = call[h].events,
         c.clean => Inputs(c, rules, scoring.active, stats, teams)
  PROVE  Inv'
<1>1. RunOK(call[h])
  BY DEF Inv, CallsOK, Stands
<1>2. RunOK(c)
  BY <1>1 DEF RunOK
<1>3. RequestOK(c, rules, changes, teams)
  BY <1>1 DEF RequestOK, RunOK, Runs
<1>4. Stands(c, rules, changes, scoring.active, stats, teams)
  BY <1>2, <1>3 DEF Stands
<1>5. /\ UNCHANGED <<teams, rows, rules, changes, stats, points, mirror>> /\ scoring' = scoring
      /\ UNCHANGED <<asked, excused, cache>> /\ jobs' = jobs /\ jobs \in Nat
  BY DEF Kept, match, scores, ghosts, rulebase, Inv, Shaped
<1> HIDE DEF Inv, ActiveRule
<1> QED  BY <1>4, <1>5, CallAlone

LEMMA ReadStatsStep ==
  ASSUME Inv, NEW h \in Handlers, ReadStats(h)
  PROVE  Inv'
<1>0. /\ call[h] \in CallDoc /\ call[h].at = "stats" /\ stats \in DOMAIN Statistics
      /\ call \in [Handlers -> CallDoc]
  BY DEF Inv, Shaped, ReadStats, At
<1>1. call[h].clean => Inputs(call[h], rules, scoring.active, stats, teams)
  BY DEF Inv, CallsOK, Stands
<1>2. PICK c : c = [call[h] EXCEPT !.at = "teams", !.seen = stats]
  OBVIOUS
<1>3. c = [op |-> call[h].op, at |-> "teams", team |-> call[h].team,
           lineup |-> call[h].lineup, checked |-> call[h].checked, rule |-> call[h].rule,
           events |-> call[h].events, seen |-> stats, staged |-> call[h].staged,
           clean |-> call[h].clean]
  BY <1>0, <1>2 DEF CallDoc
<1>4. c \in CallDoc
  BY <1>0, <1>3 DEF CallDoc, Steps
<1>5. call' = [call EXCEPT ![h] = c]
  BY <1>0, <1>2 DEF ReadStats
<1>6. c.clean => Inputs(c, rules, scoring.active, stats, teams)
  BY <1>1, <1>3 DEF Inputs, Runs
<1>7. Runs(c) /\ Runs(call[h])
  BY <1>0, <1>3 DEF Runs
<1>8. UNCHANGED <<teams, rows, rulebase, scores, ghosts>> /\ Kept
  BY DEF ReadStats
<1> HIDE DEF Inv
<1> QED  BY <1>3, <1>4, <1>5, <1>6, <1>7, <1>8, Reads

LEMMA ReadTeamsStep ==
  ASSUME Inv, NEW h \in Handlers, ReadTeams(h)
  PROVE  Inv'
<1>0. /\ call[h] \in CallDoc /\ call[h].at = "teams" /\ teams \in Seq(TeamDoc)
      /\ call \in [Handlers -> CallDoc]
  BY DEF Inv, Shaped, ReadTeams, At
<1>1. call[h].clean => Inputs(call[h], rules, scoring.active, stats, teams)
  BY DEF Inv, CallsOK, Stands
<1>2. PICK s : s = [t \in LiveTeams |-> teams[t].lineup]
  OBVIOUS
<1>3. s \in Stagings
  <2>1. LiveTeams \in SUBSET Nat
    BY <1>0 DEF LiveTeams
  <2>2. \A t \in LiveTeams : teams[t].lineup \in DOMAIN Lineups
    <3>1. \A t \in DOMAIN teams : teams[t] \in TeamDoc
      BY <1>0
    <3>2. \A d \in TeamDoc : d.lineup \in DOMAIN Lineups
      BY DEF TeamDoc
    <3> QED  BY <3>1, <3>2 DEF LiveTeams
  <2>3. s \in [LiveTeams -> DOMAIN Lineups]
    BY <1>2, <2>2
  <2> QED  BY <2>1, <2>3 DEF Stagings
<1>4. PICK c : c = [call[h] EXCEPT !.at = "persist", !.staged = s]
  OBVIOUS
<1>5. c = [op |-> call[h].op, at |-> "persist", team |-> call[h].team,
           lineup |-> call[h].lineup, checked |-> call[h].checked, rule |-> call[h].rule,
           events |-> call[h].events, seen |-> call[h].seen, staged |-> s,
           clean |-> call[h].clean]
  BY <1>0, <1>4 DEF CallDoc
<1>6. c \in CallDoc
  BY <1>0, <1>3, <1>5 DEF CallDoc, Steps
<1>7. call' = [call EXCEPT ![h] = c]
  BY <1>0, <1>2, <1>4 DEF ReadTeams
<1>8. s = [t \in LiveIn(teams) |-> teams[t].lineup]
  BY <1>2 DEF LiveTeams, LiveIn
<1>9. c.clean => Inputs(c, rules, scoring.active, stats, teams)
  BY <1>0, <1>1, <1>5, <1>8 DEF Inputs, Runs
<1>10. Runs(c) /\ Runs(call[h])
  BY <1>0, <1>5 DEF Runs
<1>11. UNCHANGED <<teams, rows, rulebase, scores, ghosts>> /\ Kept
  BY DEF ReadTeams
<1> HIDE DEF Inv
<1> QED  BY <1>5, <1>6, <1>7, <1>9, <1>10, <1>11, Reads

(* Failures.  A job that is given up takes the request for it along.       *)
LEMMA FailStep ==
  ASSUME Inv, NEW h \in Handlers, Fail(h)
  PROVE  Inv'
<1>0. call' = [call EXCEPT ![h] = Idle] /\ jobs \in Nat /\ call \in [Handlers -> CallDoc]
  BY DEF Inv, Shaped, Fail, Return
<1>1. /\ UNCHANGED <<teams, rows, rules, changes, stats, points, mirror>> /\ scoring' = scoring
      /\ UNCHANGED <<excused, cache>>
  BY DEF Fail, match, scores, rulebase
<1>2. Stands(Idle, rules, changes, scoring.active, stats, teams)
  BY IdleHolds DEF Stands
<1>3. CASE asked' = asked /\ jobs' = jobs /\ call[h].op # "job"
  <2> HIDE DEF Inv, ActiveRule
  <2> QED  BY <1>0, <1>1, <1>2, <1>3, IdleHolds, IdleShape, CallAlone
<1>4. CASE asked' = asked /\ jobs' = jobs + 1
  <2>1. jobs' \in Nat /\ jobs' > 0
    BY <1>0, <1>4
  <2> HIDE DEF Inv, ActiveRule
  <2> QED  BY <1>0, <1>1, <1>2, <1>4, <2>1, IdleHolds, IdleShape, CallAlone
<1>5. CASE ~asked' /\ asked' \in BOOLEAN /\ jobs' = jobs
  <2>0. /\ call' \in [Handlers -> CallDoc] /\ call'[h] = Idle
        /\ \A g \in Handlers \ {h} : call'[g] = call[g]
    BY <1>0, IdleShape, OneMoves
  <2>1. RulesOK' /\ cache' \in RuleRead
    BY <1>1, RulesRead DEF Inv
  <2>2. Shaped'
    BY <1>0, <1>1, <1>5, <2>0, <2>1 DEF Inv, Shaped
  <2>3. Later(rules, changes, rules', changes')
    BY <1>1 DEF Later
  <2>4. TeamsOK'
    BY <1>1, <2>3, TeamsLater DEF Inv
  <2>5. Stands(call'[h], rules', changes', scoring'.active, stats', teams')
    BY <1>1, <1>2, <2>0
  <2>6. CallsOK'
    <3>1. SameInputs /\ DOMAIN teams \subseteq DOMAIN teams'
      BY <1>1 DEF SameInputs
    <3> QED  BY <2>0, <2>3, <2>5, <3>1, CallsStep DEF Inv
  <2>7. Alone'
    BY <2>0, IdleHolds, AloneKept DEF Inv
  <2>8. RowsMirrorTeams'
    BY <1>1, RowsStay DEF Inv
  <2>9. PointsOK'
    BY <1>5, PointsExcused
  <2> QED  BY <2>1, <2>2, <2>4, <2>6, <2>7, <2>8, <2>9 DEF Inv
<1> QED  BY <1>3, <1>4, <1>5 DEF Fail

(* Steps of no call.                                                       *)
LEMMA JobRefusedStep ==
  ASSUME Inv, JobRefused
  PROVE  Inv'
<1>1. /\ UNCHANGED <<teams, rows, rules, changes, stats, points, mirror, call, excused>>
      /\ scoring' = scoring /\ cache' = cache /\ jobs' = jobs - 1 /\ jobs > 0
  BY DEF JobRefused, match, rulebase, scores
<1>2. scoring' \in Books /\ jobs' \in Nat
  BY <1>1 DEF Inv, Shaped
<1>3. asked' = FALSE
  BY DEF JobRefused
<1>4. scoring'.active = scoring.active /\ cache' \in {cache, NoRule}
  BY <1>1
<1>5. ~asked' \/ (asked' = asked /\ jobs' = jobs) \/ jobs' > 0
  BY <1>3, Zenon
<1>6. asked' \in BOOLEAN
  BY <1>3, Zenon
<1> HIDE DEF Inv
<1> QED  BY <1>1, <1>2, <1>4, <1>5, <1>6, NoCall

LEMMA CacheExpiresStep ==
  ASSUME Inv, CacheExpires
  PROVE  Inv'
<1>1. /\ UNCHANGED <<teams, rows, rules, changes, stats, points, mirror, call, excused>>
      /\ asked' = asked /\ jobs' = jobs /\ cache' \in {cache, NoRule}
      /\ scoring' = scoring \/ scoring' = [scoring EXCEPT !.stale = NoBook]
  BY DEF CacheExpires, Kept, match, scores, ghosts
<1>2. /\ jobs \in Nat /\ asked \in BOOLEAN /\ scoring \in Books
  BY DEF Inv, Shaped
<1>3. scoring' \in Books /\ scoring'.active = scoring.active
  BY <1>1, <1>2, Contents DEF Books
<1> HIDE DEF Inv
<1> QED  BY <1>1, <1>2, <1>3, NoCall

LEMMA EnqueueStep ==
  ASSUME Inv, Enqueue
  PROVE  Inv'
<1>1. /\ UNCHANGED <<teams, rows, rules, changes, stats, points, mirror, call, excused>>
      /\ scoring' = scoring /\ cache' = cache /\ asked' = TRUE /\ jobs' = jobs + 1
  BY DEF Enqueue, match, rulebase, scores
<1>2. scoring' \in Books /\ jobs' \in Nat /\ jobs' > 0
  BY <1>1 DEF Inv, Shaped
<1> HIDE DEF Inv
<1> QED  BY <1>1, <1>2, NoCall

LEMMA StatusStep ==
  ASSUME Inv, SyncMatches \/ CancelMatch \/ UNCHANGED vars
  PROVE  Inv'
<1>1. /\ UNCHANGED <<teams, rows, rules, changes, stats, points, mirror, call, excused>>
      /\ scoring' = scoring /\ cache' = cache /\ asked' = asked /\ jobs' = jobs
  BY DEF SyncMatches, CancelMatch, vars, match, rulebase, scores, ghosts
<1>2. scoring' \in Books /\ jobs' \in Nat /\ asked \in BOOLEAN
  BY <1>1 DEF Inv, Shaped
<1> HIDE DEF Inv
<1> QED  BY <1>1, <1>2, NoCall

-----------------------------------------------------------------------------
(* The projection, row by row.                                             *)
SameRow(r, t, pick) ==
  r.team = t /\ r.player = pick.player /\ r.captain = pick.captain /\ r.vice = pick.vice
Projects(rs, ts) ==
  /\ \A r \in rs : /\ r.team \in LiveIn(ts)
                   /\ \E i \in DOMAIN Lineups[ts[r.team].lineup] :
                        SameRow(r, r.team, Lineups[ts[r.team].lineup][i])
  /\ \A t \in LiveIn(ts) : \A i \in DOMAIN Lineups[ts[t].lineup] :
       \E r \in rs : SameRow(r, t, Lineups[ts[t].lineup][i])
Zeroed(r) == [r EXCEPT !.points = 0]
Mirrors(rs, ts) ==
  {[r EXCEPT !.points = 0] : r \in rs} = UNION {RowsFor(t, ts[t].lineup) : t \in LiveIn(ts)}
OfOthers(rs, t) == {r \in rs : r.team # t}
RowsNow(t, ts) == IF t \in LiveIn(ts) THEN RowsFor(t, ts[t].lineup) ELSE {}
OthersStay(ts, ts2, t) ==
  \A u \in Nat \ {t} : /\ u \in LiveIn(ts2) <=> u \in LiveIn(ts)
                       /\ u \in LiveIn(ts) => ts2[u].lineup = ts[u].lineup

LEMMA ZeroedRow ==
  ASSUME NEW r \in RowDoc
  PROVE  Zeroed(r) = [team |-> r.team, player |-> r.player, captain |-> r.captain,
                      vice |-> r.vice, points |-> 0]
BY DEF Zeroed, RowDoc

LEMMA RowsForPick ==
  ASSUME NEW t \in Nat, NEW l \in DOMAIN Lineups
  PROVE  /\ RowsFor(t, l) \subseteq RowDoc
         /\ \A r \in RowDoc : Zeroed(r) \in RowsFor(t, l)
                               <=> \E i \in DOMAIN Lineups[l] : SameRow(r, t, Lineups[l][i])
         /\ \A i \in DOMAIN Lineups[l] : \E r \in RowsFor(t, l) : SameRow(r, t, Lineups[l][i])
         /\ \A r \in RowsFor(t, l) : r.team = t /\ Zeroed(r) = r
<1>1. \A i \in DOMAIN Lineups[l] : Lineups[l][i] \in Pick
  <2>1. Lineups[l] \in Seq(Pick)
    BY MatchDayAssumption
  <2> QED  BY <2>1
<1>2. 0 \in Earned
  BY DEF Earned
<1>3. RowsFor(t, l) \subseteq RowDoc
  BY <1>1, <1>2 DEF RowsFor, RowDoc, Pick
<1>4. ASSUME NEW r \in RowDoc
      PROVE  Zeroed(r) \in RowsFor(t, l)
               <=> \E i \in DOMAIN Lineups[l] : SameRow(r, t, Lineups[l][i])
  BY <1>4, ZeroedRow DEF RowsFor, SameRow
<1>5. ASSUME NEW i \in DOMAIN Lineups[l]
      PROVE  \E r \in RowsFor(t, l) : SameRow(r, t, Lineups[l][i])
  <2>1. PICK r : r = [team |-> t, player |-> Lineups[l][i].player,
                      captain |-> Lineups[l][i].captain, vice |-> Lineups[l][i].vice,
                      points |-> 0]
    OBVIOUS
  <2> QED  BY <2>1 DEF RowsFor, SameRow
<1>6. ASSUME NEW r \in RowsFor(t, l)
      PROVE  r.team = t /\ Zeroed(r) = r
  BY <1>3, ZeroedRow DEF RowsFor
<1> QED  BY <1>3, <1>4, <1>5, <1>6

LEMMA LiveDocs ==
  ASSUME NEW ts \in Seq(TeamDoc), NEW t \in LiveIn(ts)
  PROVE  t \in Nat /\ t \in DOMAIN ts /\ ts[t] \in TeamDoc /\ ts[t].lineup \in DOMAIN Lineups
<1>1. t \in Nat /\ t \in DOMAIN ts /\ ts[t] \in TeamDoc
  BY DEF LiveIn
<1> QED  BY <1>1 DEF TeamDoc

LEMMA ProjectsIff ==
  ASSUME NEW rs, rs \subseteq RowDoc, NEW ts \in Seq(TeamDoc)
  PROVE  Mirrors(rs, ts) <=> Projects(rs, ts)
<1> DEFINE Left == {Zeroed(r) : r \in rs}
           Right == UNION {RowsFor(t, ts[t].lineup) : t \in LiveIn(ts)}
<1>0. Mirrors(rs, ts) <=> Left = Right
  BY DEF Zeroed, Mirrors
<1>1. ASSUME Left = Right
      PROVE  Projects(rs, ts)
  <2>1. ASSUME NEW r \in rs
        PROVE  /\ r.team \in LiveIn(ts)
               /\ \E i \in DOMAIN Lineups[ts[r.team].lineup] :
                    SameRow(r, r.team, Lineups[ts[r.team].lineup][i])
    <3>1. PICK t \in LiveIn(ts) : Zeroed(r) \in RowsFor(t, ts[t].lineup)
      BY <1>1
    <3>2. PICK i \in DOMAIN Lineups[ts[t].lineup] : SameRow(r, t, Lineups[ts[t].lineup][i])
      BY <3>1, LiveDocs, RowsForPick
    <3>3. r.team = t
      BY <3>2 DEF SameRow
    <3> QED  BY <3>2, <3>3
  <2>2. ASSUME NEW t \in LiveIn(ts), NEW i \in DOMAIN Lineups[ts[t].lineup]
        PROVE  \E r \in rs : SameRow(r, t, Lineups[ts[t].lineup][i])
    <3>1. PICK q \in RowsFor(t, ts[t].lineup) : SameRow(q, t, Lineups[ts[t].lineup][i])
      BY LiveDocs, RowsForPick
    <3>2. PICK r \in rs : q = Zeroed(r)
      BY <1>1, <3>1
    <3>3. q = [team |-> r.team, player |-> r.player, captain |-> r.captain,
               vice |-> r.vice, points |-> 0]
      BY <3>2, ZeroedRow
    <3> QED  BY <3>1, <3>3 DEF SameRow
  <2> QED  BY <2>1, <2>2 DEF Projects
<1>2. ASSUME Projects(rs, ts)
      PROVE  Left = Right
  <2>1. ASSUME NEW r \in rs
        PROVE  Zeroed(r) \in Right
    <3>1. /\ r.team \in LiveIn(ts)
          /\ \E i \in DOMAIN Lineups[ts[r.team].lineup] :
               SameRow(r, r.team, Lineups[ts[r.team].lineup][i])
      BY <1>2 DEF Projects
    <3>2. Zeroed(r) \in RowsFor(r.team, ts[r.team].lineup)
      BY <3>1, LiveDocs, RowsForPick
    <3> QED  BY <3>1, <3>2
  <2>2. ASSUME NEW t \in LiveIn(ts), NEW q \in RowsFor(t, ts[t].lineup)
        PROVE  q \in Left
    <3>1. /\ q \in RowDoc /\ Zeroed(q) = q
          /\ \E i \in DOMAIN Lineups[ts[t].lineup] : SameRow(q, t, Lineups[ts[t].lineup][i])
      BY LiveDocs, RowsForPick
    <3>2. PICK i \in DOMAIN Lineups[ts[t].lineup] : SameRow(q, t, Lineups[ts[t].lineup][i])
      BY <3>1
    <3>3. PICK r \in rs : SameRow(r, t, Lineups[ts[t].lineup][i])
      BY <1>2, <3>2 DEF Projects
    <3>4. Zeroed(r) = Zeroed(q)
      BY <3>1, <3>2, <3>3, ZeroedRow DEF SameRow
    <3> QED  BY <3>1, <3>3, <3>4
  <2> HIDE DEF Left, Right
  <2>3. Left \subseteq Right
    BY <2>1 DEF Left
  <2>4. Right \subseteq Left
    BY <2>2 DEF Right
  <2> QED  BY <2>3, <2>4
<1> QED  BY <1>0, <1>1, <1>2

(* A transaction that leaves the other teams and their rows alone.         *)
LEMMA OneProjection ==
  ASSUME NEW rs, rs \subseteq RowDoc, NEW ts \in Seq(TeamDoc), Projects(rs, ts),
         NEW rs2, NEW ts2 \in Seq(TeamDoc), NEW t \in DOMAIN ts2, OthersStay(ts, ts2, t), rs2 = OfOthers(rs, t) \cup RowsNow(t, ts2)
  PROVE  rs2 \subseteq RowDoc /\ Projects(rs2, ts2)
<1>0. RowsNow(t, ts2) \subseteq RowDoc /\ \A r \in RowsNow(t, ts2) : r.team = t
  BY LiveDocs, RowsForPick DEF RowsNow
<1>1. rs2 \subseteq RowDoc
  BY <1>0 DEF OfOthers
<1>2. ASSUME NEW r \in rs2
      PROVE  /\ r.team \in LiveIn(ts2)
             /\ \E i \in DOMAIN Lineups[ts2[r.team].lineup] :
                  SameRow(r, r.team, Lineups[ts2[r.team].lineup][i])
  <2>1. CASE r \in rs /\ r.team # t
    <3>1. /\ r.team \in LiveIn(ts)
          /\ \E i \in DOMAIN Lineups[ts[r.team].lineup] :
               SameRow(r, r.team, Lineups[ts[r.team].lineup][i])
      BY <2>1 DEF Projects
    <3>2. r.team \in Nat \ {t}
      BY <2>1 DEF RowDoc
    <3> QED  BY <3>1, <3>2 DEF OthersStay
  <2>2. CASE r \in RowsNow(t, ts2)
    <3>1. t \in LiveIn(ts2) /\ r.team = t /\ r \in RowsFor(t, ts2[t].lineup)
      BY <1>0, <2>2 DEF RowsNow
    <3>2. r \in RowDoc /\ Zeroed(r) = r
      BY <3>1, <2>2, <1>0, LiveDocs, RowsForPick
    <3> QED  BY <3>1, <3>2, LiveDocs, RowsForPick
  <2> QED  BY <2>1, <2>2 DEF OfOthers
<1>3. ASSUME NEW u \in LiveIn(ts2), NEW i \in DOMAIN Lineups[ts2[u].lineup]
      PROVE  \E r \in rs2 : SameRow(r, u, Lineups[ts2[u].lineup][i])
  <2>1. CASE u = t
    BY <2>1, LiveDocs, RowsForPick DEF RowsNow
  <2>2. CASE u # t
    <3>1. u \in Nat \ {t}
      BY <2>2, LiveDocs
    <3>2. u \in LiveIn(ts) /\ ts2[u].lineup = ts[u].lineup
      BY <3>1 DEF OthersStay
    <3>3. PICK r \in rs : SameRow(r, u, Lineups[ts2[u].lineup][i])
      BY <3>2 DEF Projects
    <3>4. r.team # t
      BY <2>2, <3>3 DEF SameRow
    <3> QED  BY <3>3, <3>4 DEF OfOthers
  <2> QED  BY <2>1, <2>2
<1> QED  BY <1>1, <1>2, <1>3 DEF Projects

-----------------------------------------------------------------------------
(* Writes that soil every recomputation.                                   *)
LEMMA AllSoiled ==
  ASSUME Inv, NEW next \in [Handlers -> CallDoc],
         call' = [g \in Handlers |-> [next[g] EXCEPT !.clean = FALSE]],
         Later(rules, changes, rules', changes'), DOMAIN teams \subseteq DOMAIN teams',
         \A g \in Handlers :
           \/ next[g] = call[g]
           \/ RequestOK(next[g], rules', changes', teams') /\ RunOK(next[g])
  PROVE  call' \in [Handlers -> CallDoc] /\ CallsOK' /\ Alone'
<1>1. /\ call' \in [Handlers -> CallDoc]
      /\ \A g \in Handlers : call'[g] = Soiled(next[g]) /\ call'[g].clean = FALSE
  BY AllSoil
<1>2. ASSUME NEW g \in Handlers
      PROVE  \/ call'[g] = Soiled(call[g])
             \/ Stands(call'[g], rules', changes', scoring'.active, stats', teams')
  <2>1. CASE next[g] = call[g]
    BY <1>1, <2>1
  <2>2. CASE RequestOK(next[g], rules', changes', teams') /\ RunOK(next[g])
    <3>1. PICK c \in CallDoc : c = next[g]
      OBVIOUS
    <3>2. RequestOK(Soiled(c), rules', changes', teams') /\ RunOK(Soiled(c))
      BY <2>2, <3>1, SoiledHolds
    <3> QED  BY <1>1, <3>1, <3>2 DEF Stands
  <2> QED  BY <2>1, <2>2
<1>3. CallsOK'
  BY <1>2, CallsStep DEF Inv
<1>4. Alone'
  BY <1>1 DEF Alone
<1> QED  BY <1>1, <1>3, <1>4

(* A team that replaces another in the sequence, and one at its end.       *)
LEMMA TeamReplaced ==
  ASSUME NEW ts \in Seq(TeamDoc), NEW t \in DOMAIN ts, NEW d \in TeamDoc,
         NEW ts2, ts2 = [ts EXCEPT ![t] = d]
  PROVE  /\ ts2 \in Seq(TeamDoc) /\ DOMAIN ts2 = DOMAIN ts /\ ts2[t] = d
         /\ \A u \in DOMAIN ts \ {t} : ts2[u] = ts[u]
OBVIOUS

LEMMA TeamAppended ==
  ASSUME NEW ts \in Seq(TeamDoc), NEW d \in TeamDoc, NEW ts2, ts2 = Append(ts, d)
  PROVE  /\ ts2 \in Seq(TeamDoc) /\ DOMAIN ts2 = DOMAIN ts \cup {Len(ts) + 1}
         /\ Len(ts) + 1 \notin DOMAIN ts /\ ts2[Len(ts) + 1] = d
         /\ \A u \in DOMAIN ts : ts2[u] = ts[u]
OBVIOUS

(* A transaction on one team.                                              *)
LEMMA TeamWritten ==
  ASSUME Inv, NEW t \in DOMAIN teams', NEW d \in TeamDoc, NEW rows2,
         teams' \in Seq(TeamDoc), DOMAIN teams \subseteq DOMAIN teams', teams'[t] = d,
         \A u \in DOMAIN teams' \ {t} : u \in DOMAIN teams /\ teams'[u] = teams[u],
         TeamOK(d, rules, changes),
         rows' = {r \in rows : r.team # t} \cup rows2,
         rows2 = IF d.deleted THEN {} ELSE RowsFor(t, d.lineup),
         UNCHANGED <<rules, changes>>
  PROVE  TeamsOK' /\ rows' \subseteq RowDoc /\ RowsMirrorTeams'
<1>0. /\ teams \in Seq(TeamDoc) /\ rows \subseteq RowDoc /\ TeamsOK /\ RowsMirrorTeams
      /\ LiveTeams = LiveIn(teams) /\ LiveTeams' = LiveIn(teams')
  BY DEF Inv, Shaped, LiveTeams, LiveIn
<1>1. TeamsOK'
  BY <1>0 DEF TeamsOK
<1>2. Projects(rows, teams)
  <2>1. Mirrors(rows, teams)
    BY <1>0, Zenon DEF RowsMirrorTeams, Mirrors
  <2> QED  BY <1>0, <2>1, ProjectsIff
<1>3. OthersStay(teams, teams', t)
  BY DEF OthersStay, LiveIn
<1>4. rows' = OfOthers(rows, t) \cup RowsNow(t, teams')
  BY DEF LiveIn, OfOthers, RowsNow
<1>5. rows' \subseteq RowDoc /\ Projects(rows', teams')
  BY <1>0, <1>2, <1>3, <1>4, OneProjection
<1>6. RowsMirrorTeams'
  <2>1. Mirrors(rows', teams')
    BY <1>5, ProjectsIff
  <2> QED  BY <1>0, <2>1, Zenon DEF RowsMirrorTeams, Mirrors
<1> QED  BY <1>1, <1>5, <1>6

LEMMA SaveTeamStep ==
  ASSUME Inv, NEW h \in Handlers, SaveTeam(h)
  PROVE  Inv'
<1>0. /\ call[h] \in CallDoc /\ call[h].at = "save" /\ call \in [Handlers -> CallDoc]
      /\ teams \in Seq(TeamDoc) /\ rows \subseteq RowDoc
  BY DEF Inv, Shaped, SaveTeam, At
<1>1. RequestOK(call[h], rules, changes, teams)
  BY DEF Inv, CallsOK, Stands
<1>2. /\ UNCHANGED <<rules, cache, changes, scoring, stats, points, mirror, jobs>>
      /\ excused' = TRUE /\ asked' = asked
      /\ call' = [g \in Handlers |-> [[call EXCEPT ![h] = Idle][g] EXCEPT !.clean = FALSE]]
  BY DEF SaveTeam, InputsChange, Kept, match, rulebase, scores
<1>3. /\ teams' \in Seq(TeamDoc) /\ DOMAIN teams \subseteq DOMAIN teams'
      /\ TeamsOK' /\ rows' \subseteq RowDoc /\ RowsMirrorTeams'
  <2>1. CASE /\ call[h].op = "update"
             /\ ReplaceRoster(call[h].team, call[h].lineup, call[h].checked)
    <3>1. PICK t, l, k : t = call[h].team /\ l = call[h].lineup /\ k = call[h].checked
      OBVIOUS
    <3>2. t \in DOMAIN teams /\ Checked(l, k, rules, changes) /\ k \in Nat
      BY <1>0, <1>1, <2>1, <3>1 DEF RequestOK, CallDoc
    <3>3. CASE t \in LiveTeams
      <4>0. /\ teams[t] \in TeamDoc /\ ~teams[t].deleted /\ TeamOK(teams[t], rules, changes)
            /\ l \in DOMAIN Lineups
        BY <1>0, <3>2, <3>3 DEF LiveTeams, Inv, TeamsOK, Checked
      <4>1. PICK d : d = [teams[t] EXCEPT !.lineup = l, !.checked = k]
        OBVIOUS
      <4>2. d = [lineup |-> l, rule |-> teams[t].rule, deleted |-> teams[t].deleted,
                 total |-> teams[t].total, named |-> teams[t].named, checked |-> k]
        BY <4>0, <4>1 DEF TeamDoc
      <4>3. d \in TeamDoc
        BY <3>2, <4>0, <4>2 DEF TeamDoc
      <4>4. TeamOK(d, rules, changes)
        BY <3>2, <4>0, <4>2 DEF TeamOK
      <4>5. /\ teams' = [teams EXCEPT ![t].lineup = l, ![t].checked = k]
            /\ rows' = {r \in rows : r.team # t} \cup RowsFor(t, l)
        BY <2>1, <3>1, <3>3 DEF ReplaceRoster
      <4>6. teams' = [teams EXCEPT ![t] = d]
        BY <1>0, <3>2, <4>1, <4>5
      <4>7. /\ teams' \in Seq(TeamDoc) /\ DOMAIN teams' = DOMAIN teams /\ teams'[t] = d
            /\ \A u \in DOMAIN teams \ {t} : teams'[u] = teams[u]
        BY <1>0, <3>2, <4>3, <4>6, TeamReplaced
      <4>8. d.lineup = l /\ ~d.deleted
        BY <4>0, <4>2
      <4> HIDE DEF Inv
      <4> QED  BY <1>2, <3>2, <4>3, <4>4, <4>5, <4>7, <4>8, TeamWritten
    <3>4. CASE t \notin LiveTeams
      <4>1. UNCHANGED <<teams, rows>>
        BY <2>1, <3>1, <3>4 DEF ReplaceRoster
      <4>2. RowsMirrorTeams'
        BY <4>1, RowsStay DEF Inv
      <4>3. TeamsOK'
        BY <1>2, <4>1 DEF Inv, TeamsOK
      <4> QED  BY <1>0, <4>1, <4>2, <4>3
    <3> QED  BY <3>3, <3>4
  <2>2. CASE call[h].op = "delete" /\ SoftDelete(call[h].team)
    <3>1. PICK t : t = call[h].team
      OBVIOUS
    <3>2. /\ t \in DOMAIN teams /\ teams[t] \in TeamDoc /\ TeamOK(teams[t], rules, changes)
      BY <1>0, <1>1, <2>2, <3>1 DEF RequestOK, Inv, TeamsOK
    <3>3. PICK d : d = [teams[t] EXCEPT !.deleted = TRUE]
      OBVIOUS
    <3>4. d = [lineup |-> teams[t].lineup, rule |-> teams[t].rule, deleted |-> TRUE,
               total |-> teams[t].total, named |-> teams[t].named,
               checked |-> teams[t].checked]
      BY <3>2, <3>3 DEF TeamDoc
    <3>5. d \in TeamDoc /\ d.deleted
      BY <3>2, <3>4 DEF TeamDoc
    <3>6. TeamOK(d, rules, changes)
      BY <3>2, <3>4 DEF TeamOK
    <3>7. teams' = [teams EXCEPT ![t] = d] /\ rows' = {r \in rows : r.team # t}
      BY <1>0, <2>2, <3>1, <3>2, <3>3 DEF SoftDelete
    <3>8. /\ teams' \in Seq(TeamDoc) /\ DOMAIN teams' = DOMAIN teams /\ teams'[t] = d
          /\ \A u \in DOMAIN teams \ {t} : teams'[u] = teams[u]
      BY <1>0, <3>2, <3>5, <3>7, TeamReplaced
    <3>9. rows' = {r \in rows : r.team # t} \cup {}
      BY <3>7
    <3> HIDE DEF Inv
    <3> QED  BY <1>2, <3>2, <3>5, <3>6, <3>8, <3>9, TeamWritten
  <2>3. CASE /\ call[h].op \in {"create", "clone"}
             /\ CreateTeam(call[h].lineup, call[h].rule.version, call[h].rule.at,
                           call[h].checked)
    <3>1. PICK r, l, k : r = call[h].rule /\ l = call[h].lineup /\ k = call[h].checked
      OBVIOUS
    <3>2. /\ r \in RuleRead /\ Fresh(r, rules, changes) /\ k \in Nat
          /\ Checked(l, k, rules, changes)
      BY <1>0, <1>1, <2>3, <3>1 DEF RequestOK, CallDoc
    <3>3. PICK d : d = [lineup |-> l, rule |-> r.version, deleted |-> FALSE, total |-> 0,
                        named |-> r.at, checked |-> k]
      OBVIOUS
    <3>4. d \in TeamDoc /\ ~d.deleted /\ d.lineup = l
      BY <3>2, <3>3 DEF TeamDoc, RuleRead, Sums, Checked
    <3>5. TeamOK(d, rules, changes)
      BY <3>2, <3>3 DEF TeamOK, Fresh
    <3>6. teams' = Append(teams, d) /\ rows' = rows \cup RowsFor(Len(teams) + 1, l)
      BY <2>3, <3>1, <3>3 DEF CreateTeam
    <3>7. /\ teams' \in Seq(TeamDoc) /\ DOMAIN teams' = DOMAIN teams \cup {Len(teams) + 1}
          /\ Len(teams) + 1 \notin DOMAIN teams /\ teams'[Len(teams) + 1] = d
          /\ \A u \in DOMAIN teams : teams'[u] = teams[u]
      BY <1>0, <3>4, <3>6, TeamAppended
    <3>8. rows = {q \in rows : q.team # Len(teams) + 1}
      <4>1. LiveTeams = LiveIn(teams)
        BY DEF LiveTeams, LiveIn
      <4>2. Mirrors(rows, teams)
        BY <4>1, Zenon DEF Inv, RowsMirrorTeams, Mirrors
      <4>4. Projects(rows, teams)
        BY <1>0, <4>2, ProjectsIff
      <4>3. \A q \in rows : q.team \in DOMAIN teams
        BY <4>4 DEF Projects, LiveIn
      <4> QED  BY <3>7, <4>3
    <3> HIDE DEF Inv
    <3> QED  BY <1>2, <3>4, <3>5, <3>6, <3>7, <3>8, TeamWritten
  <2> QED  BY <2>1, <2>2, <2>3 DEF SaveTeam
<1>4. PICK next : next = [call EXCEPT ![h] = Idle]
  OBVIOUS
<1>5. next \in [Handlers -> CallDoc] /\ next[h] = Idle /\ \A g \in Handlers \ {h} : next[g] = call[g]
  BY <1>0, <1>4, IdleShape
<1>6. Later(rules, changes, rules', changes')
  BY <1>2 DEF Later
<1>7. call' \in [Handlers -> CallDoc] /\ CallsOK' /\ Alone'
  <2>1. call' = [g \in Handlers |-> [next[g] EXCEPT !.clean = FALSE]]
    BY <1>2, <1>4
  <2>2. RequestOK(Idle, rules', changes', teams') /\ RunOK(Idle)
    BY IdleHolds
  <2>3. \A g \in Handlers :
          \/ next[g] = call[g]
          \/ RequestOK(next[g], rules', changes', teams') /\ RunOK(next[g])
    BY <1>5, <2>2
  <2> HIDE DEF Inv
  <2> QED  BY <1>3, <1>5, <1>6, <2>1, <2>3, AllSoiled
<1>8. RulesOK' /\ cache' \in RuleRead
  BY <1>2, RulesRead DEF Inv
<1>9. Shaped'
  BY <1>2, <1>3, <1>7, <1>8 DEF Inv, Shaped
<1>10. PointsOK'
  BY <1>2, PointsExcused
<1> QED  BY <1>3, <1>7, <1>8, <1>9, <1>10 DEF Inv

-----------------------------------------------------------------------------
(* Changes of rules.                                                       *)
LEMMA RuleChangeStep ==
  ASSUME Inv, NEW rs, RuleChange(rs), rs \in Seq(RuleDoc), DOMAIN rs = DOMAIN rules,
         \A u, v \in ActiveIn(rs) : u = v
  PROVE  Inv'
<1>0. /\ rules \in Seq(RuleDoc) /\ changes \in Nat /\ cache \in RuleRead
      /\ call \in [Handlers -> CallDoc]
  BY DEF Inv, Shaped
<1>1. /\ rules' = rs /\ changes' = changes + 1 /\ cache' \in {cache, NoRule}
      /\ UNCHANGED <<teams, rows, scoring, stats, points, mirror, jobs, asked>>
      /\ excused' = TRUE
      /\ call' = [g \in Handlers |-> [call[g] EXCEPT !.clean = FALSE]]
  BY DEF RuleChange, InputsChange, Kept, match, scores
<1>2. Later(rules, changes, rules', changes')
  BY <1>1 DEF Later
<1>3. RulesOK' /\ cache' \in RuleRead
  <2>1. cache # NoRule => Fresh(cache, rules', changes')
    BY <1>0, <1>2, FreshKept DEF Inv, RulesOK
  <2> QED  BY <1>0, <1>1, <2>1, IdleShape DEF RulesOK
<1>4. call' \in [Handlers -> CallDoc] /\ CallsOK' /\ Alone'
  <2>1. DOMAIN teams \subseteq DOMAIN teams'
    BY <1>1
  <2> HIDE DEF Inv
  <2> QED  BY <1>0, <1>1, <1>2, <2>1, AllSoiled
<1>5. TeamsOK'
  BY <1>1, <1>2, TeamsLater DEF Inv
<1>6. RowsMirrorTeams'
  BY <1>1, RowsStay DEF Inv
<1>7. PointsOK'
  BY <1>1, PointsExcused
<1>8. changes' \in Nat /\ rules' \in Seq(RuleDoc) /\ excused' \in BOOLEAN
  BY <1>0, <1>1
<1>9. Shaped'
  BY <1>1, <1>3, <1>4, <1>8 DEF Inv, Shaped
<1> QED  BY <1>3, <1>4, <1>5, <1>6, <1>7, <1>9 DEF Inv

LEMMA RuleReplaced ==
  ASSUME NEW rs \in Seq(RuleDoc), NEW v \in DOMAIN rs, NEW d \in RuleDoc,
         NEW rs2, rs2 = [rs EXCEPT ![v] = d]
  PROVE  /\ rs2 \in Seq(RuleDoc) /\ DOMAIN rs2 = DOMAIN rs /\ rs2[v] = d
         /\ \A u \in DOMAIN rs \ {v} : rs2[u] = rs[u]
OBVIOUS

LEMMA NoneActiveShape ==
  ASSUME Shaped
  PROVE  /\ NoneActive \in Seq(RuleDoc) /\ DOMAIN NoneActive = DOMAIN rules
         /\ ActiveIn(NoneActive) = {}
         /\ \A u \in DOMAIN rules : NoneActive[u].book = rules[u].book
<1>0. rules \in Seq(RuleDoc)
  BY DEF Shaped
<1>1. ASSUME NEW u \in DOMAIN rules
      PROVE  /\ [rules[u] EXCEPT !.active = FALSE] \in RuleDoc
             /\ [rules[u] EXCEPT !.active = FALSE].active = FALSE
             /\ [rules[u] EXCEPT !.active = FALSE].book = rules[u].book
  <2>1. PICK d : d = [rules[u] EXCEPT !.active = FALSE]
    OBVIOUS
  <2>2. rules[u] \in RuleDoc
    BY <1>0
  <2>3. d = [book |-> rules[u].book, active |-> FALSE]
    BY <2>1, <2>2 DEF RuleDoc
  <2>4. d \in RuleDoc /\ d.active = FALSE /\ d.book = rules[u].book
    BY <2>2, <2>3 DEF RuleDoc
  <2> QED  BY <2>1, <2>4
<1>2. PICK rs : rs = NoneActive
  OBVIOUS
<1>3. /\ DOMAIN rs = DOMAIN rules
      /\ \A u \in DOMAIN rules : /\ rs[u] \in RuleDoc /\ rs[u].active = FALSE
                                 /\ rs[u].book = rules[u].book
  BY <1>1, <1>2 DEF NoneActive
<1>4. rs = [u \in DOMAIN rules |-> rs[u]]
  BY <1>2, <1>3 DEF NoneActive
<1>5. DOMAIN rules = 1..Len(rules) /\ Len(rules) \in Nat
  BY <1>0
<1>6. rs \in Seq(RuleDoc)
  BY <1>3, <1>4, <1>5
<1> QED  BY <1>2, <1>3, <1>6 DEF ActiveIn

LEMMA UpdateRuleStep ==
  ASSUME Inv, UpdateRule
  PROVE  Inv'
<1>0. rules \in Seq(RuleDoc) /\ Shaped
  BY DEF Inv, Shaped
<1>1. PICK v \in DOMAIN rules, b \in DOMAIN RuleBooks, active \in BOOLEAN :
        RuleChange([IF active /\ ~rules[v].active THEN NoneActive ELSE rules
                      EXCEPT ![v] = [book |-> b, active |-> active]])
  BY DEF UpdateRule
<1>2. PICK d : d = [book |-> b, active |-> active]
  OBVIOUS
<1>3. PICK base : base = IF active /\ ~rules[v].active THEN NoneActive ELSE rules
  OBVIOUS
<1>4. PICK rs : rs = [base EXCEPT ![v] = d]
  OBVIOUS
<1>5. RuleChange(rs)
  BY <1>1, <1>2, <1>3, <1>4, Zenon
<1>6. d \in RuleDoc /\ d.active = active
  BY <1>2 DEF RuleDoc
<1>7. base \in Seq(RuleDoc) /\ DOMAIN base = DOMAIN rules
  BY <1>0, <1>3, NoneActiveShape
<1>8. /\ rs \in Seq(RuleDoc) /\ DOMAIN rs = DOMAIN rules /\ rs[v] = d
      /\ \A u \in DOMAIN rules \ {v} : rs[u] = base[u]
  BY <1>4, <1>6, <1>7, RuleReplaced
<1>9. \A u, w \in ActiveIn(rs) : u = w
  <2>1. CASE active /\ ~rules[v].active
    <3>1. \A u \in DOMAIN rules : u \notin ActiveIn(base)
      BY <1>0, <1>3, <2>1, NoneActiveShape
    <3> QED  BY <1>7, <1>8, <3>1 DEF ActiveIn
  <2>2. CASE ~(active /\ ~rules[v].active)
    <3>1. base = rules
      BY <1>3, <2>2
    <3>2. \A u \in ActiveIn(rs) : u \in ActiveIn(rules)
      BY <1>6, <1>8, <2>2, <3>1 DEF ActiveIn
    <3> QED  BY <3>2 DEF Inv, RulesOK
  <2> QED  BY <2>1, <2>2
<1> HIDE DEF Inv
<1> QED  BY <1>5, <1>8, <1>9, RuleChangeStep

LEMMA ActivateRuleStep ==
  ASSUME Inv, ActivateRule
  PROVE  Inv'
<1>0. Shaped
  BY DEF Inv
<1>1. PICK v \in DOMAIN rules \ Active : RuleChange([NoneActive EXCEPT ![v].active = TRUE])
  BY DEF ActivateRule
<1>2. PICK base : base = NoneActive
  OBVIOUS
<1>3. base \in Seq(RuleDoc) /\ DOMAIN base = DOMAIN rules /\ ActiveIn(base) = {}
  BY <1>0, <1>2, NoneActiveShape
<1>4. PICK d : d = [base[v] EXCEPT !.active = TRUE]
  OBVIOUS
<1>5. base[v] \in RuleDoc
  BY <1>3
<1>6. d = [book |-> base[v].book, active |-> TRUE]
  BY <1>4, <1>5 DEF RuleDoc
<1>7. d \in RuleDoc
  BY <1>5, <1>6 DEF RuleDoc
<1>8. PICK rs : rs = [base EXCEPT ![v] = d]
  OBVIOUS
<1>9. PICK r2 : r2 = [base EXCEPT ![v].active = TRUE]
  OBVIOUS
<1>10. r2 = rs
  BY <1>3, <1>4, <1>8, <1>9
<1>11. RuleChange(rs)
  BY <1>1, <1>2, <1>9, <1>10, Zenon
<1>12. /\ rs \in Seq(RuleDoc) /\ DOMAIN rs = DOMAIN rules /\ rs[v] = d
       /\ \A u \in DOMAIN rules \ {v} : rs[u] = base[u]
  BY <1>3, <1>7, <1>8, RuleReplaced
<1>13. \A u, w \in ActiveIn(rs) : u = w
  BY <1>3, <1>12 DEF ActiveIn
<1> HIDE DEF Inv
<1> QED  BY <1>11, <1>12, <1>13, RuleChangeStep

LEMMA ScoringRuleChangeStep ==
  ASSUME Inv, ScoringRuleChange
  PROVE  Inv'
<1>0. /\ scoring \in Books /\ call \in [Handlers -> CallDoc] /\ changes \in Nat
      /\ excused \in BOOLEAN
  BY DEF Inv, Shaped
<1>1. /\ UNCHANGED <<teams, rows, rules, cache, changes, stats, points, mirror, jobs, asked>>
      /\ excused' = TRUE
      /\ call' = [g \in Handlers |-> [call[g] EXCEPT !.clean = FALSE]]
  BY DEF ScoringRuleChange, InputsChange, Kept, match, scores
<1>2. scoring' \in Books
  <2>1. PICK cached : cached = IF scoring.stale # NoBook THEN scoring.stale ELSE scoring.active
    OBVIOUS
  <2>2. cached \in NoBook..Len(ScoringBooks)
    BY <1>0, <2>1 DEF Books
  <2>3. PICK e \in NoBook..Len(ScoringBooks), stale \in {cached, NoBook} :
          scoring' = [active |-> e, stale |-> stale, changes |-> scoring.changes + 1]
    BY <2>1 DEF ScoringRuleChange
  <2>4. scoring.changes + 1 \in Nat
    BY <1>0 DEF Books
  <2> QED  BY <2>2, <2>3, <2>4, Contents DEF Books
<1>3. Later(rules, changes, rules', changes')
  BY <1>1 DEF Later
<1>4. RulesOK' /\ cache' \in RuleRead
  BY <1>1, RulesRead DEF Inv
<1>5. call' \in [Handlers -> CallDoc] /\ CallsOK' /\ Alone'
  <2>1. DOMAIN teams \subseteq DOMAIN teams'
    BY <1>1
  <2> HIDE DEF Inv
  <2> QED  BY <1>0, <1>1, <1>3, <2>1, AllSoiled
<1>6. TeamsOK'
  BY <1>1, <1>3, TeamsLater DEF Inv
<1>7. RowsMirrorTeams'
  BY <1>1, RowsStay DEF Inv
<1>8. PointsOK'
  BY <1>1, PointsExcused
<1>9. Shaped'
  BY <1>1, <1>2, <1>4, <1>5 DEF Inv, Shaped
<1> QED  BY <1>4, <1>5, <1>6, <1>7, <1>8, <1>9 DEF Inv

(* Points adjusted, and statistics that arrive.                            *)
LEMMA AdjustPlayerPointsStep ==
  ASSUME Inv, NEW h \in Handlers, AdjustPlayerPoints(h)
  PROVE  Inv'
<1>0. call \in [Handlers -> CallDoc] /\ changes \in Nat
  BY DEF Inv, Shaped
<1>1. /\ UNCHANGED <<teams, rows, rules, changes, cache, scoring, stats, mirror, jobs, asked>>
      /\ InputsChange([call EXCEPT ![h] = [Idle EXCEPT !.op = "adjust", !.at = "rule"]])
  BY DEF AdjustPlayerPoints, Kept, match, rulebase
<1>2. PICK c : c = [Idle EXCEPT !.op = "adjust", !.at = "rule"]
  OBVIOUS
<1>3. c = [op |-> "adjust", at |-> "rule", team |-> 0, lineup |-> 0, checked |-> 0,
           rule |-> NoRule, events |-> NoBook, seen |-> 1, staged |-> <<>>, clean |-> FALSE]
  BY <1>2 DEF Idle
<1>4. c \in CallDoc
  BY <1>3, IdleShape, Contents, NothingStaged DEF CallDoc, Ops, Steps
<1>5. RequestOK(c, rules', changes', teams') /\ RunOK(c)
  BY <1>3 DEF RequestOK, RunOK, Runs
<1>6. PICK next : next = [call EXCEPT ![h] = c]
  OBVIOUS
<1>7. next \in [Handlers -> CallDoc] /\ next[h] = c /\ \A g \in Handlers \ {h} : next[g] = call[g]
  BY <1>0, <1>4, <1>6
<1>8. InputsChange(next)
  BY <1>1, <1>2, <1>6
<1>9. excused' = TRUE /\ call' = [g \in Handlers |-> [next[g] EXCEPT !.clean = FALSE]]
  BY <1>8 DEF InputsChange
<1>10. Later(rules, changes, rules', changes')
  BY <1>1 DEF Later
<1>11. call' \in [Handlers -> CallDoc] /\ CallsOK' /\ Alone'
  <2>1. DOMAIN teams \subseteq DOMAIN teams'
    BY <1>1
  <2>2. \A g \in Handlers :
          \/ next[g] = call[g]
          \/ RequestOK(next[g], rules', changes', teams') /\ RunOK(next[g])
    BY <1>5, <1>7
  <2> HIDE DEF Inv
  <2> QED  BY <1>7, <1>9, <1>10, <2>1, <2>2, AllSoiled
<1>12. RulesOK' /\ cache' \in RuleRead
  BY <1>1, RulesRead DEF Inv
<1>13. TeamsOK'
  BY <1>1, <1>10, TeamsLater DEF Inv
<1>14. RowsMirrorTeams'
  BY <1>1, RowsStay DEF Inv
<1>15. PointsOK'
  BY <1>9, PointsExcused
<1>16. Shaped'
  BY <1>1, <1>9, <1>11, <1>12 DEF Inv, Shaped
<1> QED  BY <1>11, <1>12, <1>13, <1>14, <1>15, <1>16 DEF Inv

LEMMA StatsArriveStep ==
  ASSUME Inv, StatsArrive
  PROVE  Inv'
<1>0. call \in [Handlers -> CallDoc] /\ changes \in Nat /\ stats \in DOMAIN Statistics
  BY DEF Inv, Shaped
<1>1. /\ UNCHANGED <<teams, rows, rules, changes, cache, scoring, jobs, excused>>
      /\ stats < Len(Statistics) /\ stats' = stats + 1
      /\ call' = [g \in Handlers |-> [call[g] EXCEPT !.clean = FALSE]]
  BY DEF StatsArrive, rulebase
<1>2. asked' = FALSE
  BY DEF StatsArrive
<1>3. stats' \in DOMAIN Statistics
  <2>1. DOMAIN Statistics = 1..Len(Statistics) /\ Len(Statistics) \in Nat
    BY MatchDayAssumption
  <2> QED  BY <1>0, <1>1, <2>1
<1>4. Later(rules, changes, rules', changes')
  BY <1>1 DEF Later
<1>5. call' \in [Handlers -> CallDoc] /\ CallsOK' /\ Alone'
  <2>1. DOMAIN teams \subseteq DOMAIN teams'
    BY <1>1
  <2> HIDE DEF Inv
  <2> QED  BY <1>0, <1>1, <1>4, <2>1, AllSoiled
<1>6. RulesOK' /\ cache' \in RuleRead
  BY <1>1, RulesRead DEF Inv
<1>7. TeamsOK'
  BY <1>1, <1>4, TeamsLater DEF Inv
<1>8. RowsMirrorTeams'
  BY <1>1, RowsStay DEF Inv
<1>9. PointsOK'
  BY <1>2, PointsExcused
<1>10. Shaped'
  BY <1>1, <1>2, <1>3, <1>5, <1>6 DEF Inv, Shaped
<1> QED  BY <1>5, <1>6, <1>7, <1>8, <1>9, <1>10 DEF Inv

-----------------------------------------------------------------------------
(* A recomputation starts.                                                 *)
LEMMA RecomputeStarts ==
  ASSUME Inv, NEW h \in Handlers, NEW op \in {"job", "recompute", "adjust"},
         Recompute(h, op), ~Runs(call[h]), jobs' \in Nat, asked' = asked,
         op = "job" \/ jobs' = jobs
  PROVE  Inv'
<1>0. /\ call \in [Handlers -> CallDoc] /\ scoring \in Books /\ Shaped /\ RulesOK
      /\ changes \in Nat
  BY DEF Inv, Shaped
<1>1. PICK r \in ActiveRule, e \in ActiveScoring :
        /\ cache' = r
        /\ call' = [g \in Handlers |->
             IF g = h
             THEN [Idle EXCEPT !.op = op, !.at = "stats", !.rule = r, !.events = e,
                               !.clean = /\ Running = {} /\ r.version \in Active
                                         /\ rules[r.version].book = r.book
                                         /\ e = scoring.active]
             ELSE [call[g] EXCEPT !.clean = FALSE]]
        /\ UNCHANGED <<teams, rows, match, rules, changes, scoring, scores, excused>>
  BY DEF Recompute
<1>2. r \in RuleRead
  BY <1>0, RuleIsFresh
<1>3. e \in NoBook..Len(ScoringBooks) /\ e # NoBook
  BY <1>0 DEF ActiveScoring, Books
<1>4. PICK k \in BOOLEAN : k = (/\ Running = {} /\ r.version \in Active
                                /\ rules[r.version].book = r.book /\ e = scoring.active)
  OBVIOUS
<1>5. PICK c : c = [Idle EXCEPT !.op = op, !.at = "stats", !.rule = r, !.events = e,
                                !.clean = k]
  OBVIOUS
<1>6. c = [op |-> op, at |-> "stats", team |-> 0, lineup |-> 0, checked |-> 0,
           rule |-> r, events |-> e, seen |-> 1, staged |-> <<>>, clean |-> k]
  BY <1>5 DEF Idle
<1>7. c \in CallDoc
  BY <1>2, <1>3, <1>6, Contents, NothingStaged DEF CallDoc, Ops, Steps
<1>8. call' = [g \in Handlers |-> IF g = h THEN c ELSE Soiled(call[g])]
  BY <1>1, <1>4, <1>5, Zenon DEF Soiled
<1>9. /\ call'[h] = c
      /\ \A g \in Handlers \ {h} : /\ call'[g] = Soiled(call[g]) /\ call'[g] \in CallDoc
                                   /\ call'[g].clean = FALSE /\ call'[g].op = call[g].op
                                   /\ Runs(call'[g]) <=> Runs(call[g])
  BY <1>0, <1>8, SoiledFields, SoiledHolds
<1>10. call' \in [Handlers -> CallDoc]
  BY <1>7, <1>8, <1>9
<1>11. c.clean => Inputs(c, rules, scoring.active, stats, teams)
  BY <1>4, <1>6 DEF Inputs, Runs, Active, ActiveIn
<1>12. RequestOK(c, rules, changes, teams) /\ RunOK(c)
  BY <1>3, <1>6 DEF RequestOK, RunOK, Runs
<1>13. UNCHANGED <<teams, rows, rules, changes, scoring, stats, points, mirror, excused>>
  BY <1>1 DEF match, scores
<1>14. Later(rules, changes, rules', changes')
  BY <1>13 DEF Later
<1>15. CallsOK'
  <2>1. Stands(call'[h], rules', changes', scoring'.active, stats', teams')
    BY <1>9, <1>11, <1>12, <1>13 DEF Stands
  <2> QED  BY <1>9, <1>13, <1>14, <2>1, CallsStep DEF Inv
<1>16. Alone'
  <2>1. ASSUME NEW f \in Handlers, NEW g \in Handlers, call'[g].clean, Runs(call'[f])
        PROVE  f = g
    <3>1. g = h
      BY <1>9, <2>1
    <3>2. Running = {}
      BY <1>4, <1>6, <1>9, <2>1, <3>1
    <3>3. ~Runs(call[f])
      BY <3>2 DEF Running, Runs
    <3> QED  BY <1>9, <2>1, <3>1, <3>3
  <2> QED  BY <2>1 DEF Alone, Runs
<1>17. RulesOK' /\ cache' \in RuleRead
  BY <1>0, <1>1, <1>13, RulesRead
<1>18. TeamsOK'
  BY <1>13, <1>14, TeamsLater DEF Inv
<1>19. RowsMirrorTeams'
  BY <1>13, RowsStay DEF Inv
<1>20. PointsOK'
  <2>1. CASE op = "job"
    BY <1>6, <1>9, <2>1 DEF PointsOK
  <2>2. CASE jobs' = jobs
    <3>1. call[h].op # "job"
      BY DEF Inv, CallsOK, Stands, RunOK
    <3>2. (\E g \in Handlers : call[g].op = "job") => \E g \in Handlers : call'[g].op = "job"
      BY <1>9, <3>1
    <3> QED  BY <1>13, <2>2, <3>2, PointsStay DEF Inv
  <2> QED  BY <2>1, <2>2
<1>21. Shaped'
  BY <1>0, <1>10, <1>13, <1>17 DEF Shaped
<1> QED  BY <1>15, <1>16, <1>17, <1>18, <1>19, <1>20, <1>21 DEF Inv

LEMMA TakeJobStep ==
  ASSUME Inv, NEW h \in Handlers, TakeJob(h)
  PROVE  Inv'
<1>1. jobs > 0 /\ jobs' = jobs - 1 /\ Recompute(h, "job") /\ asked' = asked /\ call[h] = Idle
  BY DEF TakeJob
<1>2. jobs' \in Nat
  BY <1>1 DEF Inv, Shaped
<1>3. ~Runs(call[h])
  BY <1>1, IdleHolds
<1> HIDE DEF Inv
<1> QED  BY <1>1, <1>2, <1>3, RecomputeStarts

LEMMA AdminRecomputeStep ==
  ASSUME Inv, NEW h \in Handlers, AdminRecompute(h)
  PROVE  Inv'
<1>1. jobs' = jobs /\ Recompute(h, "recompute") /\ asked' = asked /\ call[h] = Idle
  BY DEF AdminRecompute
<1>2. jobs' \in Nat
  BY <1>1 DEF Inv, Shaped
<1>3. ~Runs(call[h])
  BY <1>1, IdleHolds
<1> HIDE DEF Inv
<1> QED  BY <1>1, <1>2, <1>3, RecomputeStarts

LEMMA RecomputeAdjustedStep ==
  ASSUME Inv, NEW h \in Handlers, RecomputeAdjusted(h)
  PROVE  Inv'
<1>1. jobs' = jobs /\ Recompute(h, "adjust") /\ asked' = asked /\ call[h].at = "rule"
  BY DEF RecomputeAdjusted, At
<1>2. jobs' \in Nat
  BY <1>1 DEF Inv, Shaped
<1>3. ~Runs(call[h])
  BY <1>1 DEF Runs
<1> HIDE DEF Inv
<1> QED  BY <1>1, <1>2, <1>3, RecomputeStarts

-----------------------------------------------------------------------------
(* The transaction of a recomputation.  Hits are the picks of the staged   *)
(* lineup that a row is given the points of.                               *)
Hits(r, staged) ==
  IF r.team \in DOMAIN staged
  THEN {i \in DOMAIN Lineups[staged[r.team]] : Lineups[staged[r.team]][i].player = r.player}
  ELSE {}
Hit(r, staged) == Lineups[staged[r.team]][CHOOSE i \in Hits(r, staged) : TRUE]
Awarded(r, staged, earned) ==
  IF Hits(r, staged) = {} THEN r ELSE [r EXCEPT !.points = earned[Hit(r, staged)]]
Retotalled(t, staged, total) ==
  IF t \in DOMAIN staged \cap LiveTeams THEN [teams[t] EXCEPT !.total = total[t]] ELSE teams[t]

LEMMA Persists ==
  ASSUME NEW staged, NEW total, NEW earned, PersistTeamPoints(staged, total, earned)
  PROVE  /\ teams' = [t \in DOMAIN teams |-> Retotalled(t, staged, total)]
         /\ rows' = {Awarded(r, staged, earned) : r \in rows}
<1>1. teams' = [t \in DOMAIN teams |-> Retotalled(t, staged, total)]
  BY DEF PersistTeamPoints, Retotalled
<1>2. rows' = {Awarded(r, staged, earned) : r \in rows}
  BY DEF PersistTeamPoints, Awarded, Hits, Hit
<1> QED  BY <1>1, <1>2

(* The picks and points a staged lineup has.                               *)
LEMMA StagedPicks ==
  ASSUME NEW staged \in Stagings
  PROVE  /\ \A t \in DOMAIN staged : /\ staged[t] \in DOMAIN Lineups
                                     /\ staged[t] \in Range(staged)
         /\ \A l \in Range(staged) : l \in DOMAIN Lineups
         /\ \A l \in DOMAIN Lineups : \A i \in DOMAIN Lineups[l] :
              Lineups[l][i] \in Pick /\ Lineups[l][i] \in Range(Lineups[l])
<1>1. PICK D : staged \in [D -> DOMAIN Lineups]
  BY DEF Stagings
<1>2. \A l \in DOMAIN Lineups : Lineups[l] \in Seq(Pick)
  BY MatchDayAssumption
<1>3. \A l \in DOMAIN Lineups : \A i \in DOMAIN Lineups[l] :
        Lineups[l][i] \in Pick /\ Lineups[l][i] \in Range(Lineups[l])
  BY <1>2 DEF Range
<1>4. \A t \in DOMAIN staged : staged[t] \in DOMAIN Lineups /\ staged[t] \in Range(staged)
  BY <1>1 DEF Range
<1>5. \A l \in Range(staged) : l \in DOMAIN Lineups
  BY <1>1 DEF Range
<1> QED  BY <1>3, <1>4, <1>5

LEMMA RetotalledFields ==
  ASSUME NEW t \in DOMAIN teams, teams[t] \in TeamDoc, NEW staged, NEW total,
         t \in DOMAIN staged => total[t] \in Sums
  PROVE  /\ Retotalled(t, staged, total) \in TeamDoc
         /\ Retotalled(t, staged, total).lineup = teams[t].lineup
         /\ Retotalled(t, staged, total).rule = teams[t].rule
         /\ Retotalled(t, staged, total).deleted = teams[t].deleted
         /\ Retotalled(t, staged, total).named = teams[t].named
         /\ Retotalled(t, staged, total).checked = teams[t].checked
         /\ t \in DOMAIN staged \cap LiveTeams => Retotalled(t, staged, total).total = total[t]
<1>1. CASE t \in DOMAIN staged \cap LiveTeams
  <2>1. PICK d : d = [teams[t] EXCEPT !.total = total[t]]
    OBVIOUS
  <2>2. d = [lineup |-> teams[t].lineup, rule |-> teams[t].rule,
             deleted |-> teams[t].deleted, total |-> total[t],
             named |-> teams[t].named, checked |-> teams[t].checked]
    BY <2>1 DEF TeamDoc
  <2>3. d \in TeamDoc
    BY <1>1, <2>2 DEF TeamDoc
  <2>4. Retotalled(t, staged, total) = d
    BY <1>1, <2>1 DEF Retotalled
  <2> QED  BY <2>2, <2>3, <2>4
<1>2. CASE t \notin DOMAIN staged \cap LiveTeams
  BY <1>2 DEF Retotalled
<1> QED  BY <1>1, <1>2

LEMMA AwardedFields ==
  ASSUME NEW r \in RowDoc, NEW staged, NEW earned,
         Hits(r, staged) # {} => earned[Hit(r, staged)] \in Earned
  PROVE  /\ Awarded(r, staged, earned) \in RowDoc
         /\ Awarded(r, staged, earned).team = r.team
         /\ Awarded(r, staged, earned).player = r.player
         /\ Awarded(r, staged, earned).captain = r.captain
         /\ Awarded(r, staged, earned).vice = r.vice
         /\ Hits(r, staged) # {} =>
              Awarded(r, staged, earned).points = earned[Hit(r, staged)]
<1>1. CASE Hits(r, staged) # {}
  <2>1. PICK d : d = [r EXCEPT !.points = earned[Hit(r, staged)]]
    OBVIOUS
  <2>2. d = [team |-> r.team, player |-> r.player, captain |-> r.captain, vice |-> r.vice,
             points |-> earned[Hit(r, staged)]]
    BY <2>1 DEF RowDoc
  <2>3. d \in RowDoc
    BY <1>1, <2>2 DEF RowDoc
  <2>4. Awarded(r, staged, earned) = d
    BY <1>1, <2>1 DEF Awarded
  <2> QED  BY <2>2, <2>3, <2>4
<1>2. CASE Hits(r, staged) = {}
  BY <1>2 DEF Awarded
<1> QED  BY <1>1, <1>2

(* Neither the teams nor their rows change but for totals and points.      *)
OnlyTotals(ts, ts2) ==
  /\ DOMAIN ts2 = DOMAIN ts
  /\ \A t \in DOMAIN ts : /\ ts2[t].lineup = ts[t].lineup /\ ts2[t].rule = ts[t].rule
                          /\ ts2[t].deleted = ts[t].deleted /\ ts2[t].named = ts[t].named
                          /\ ts2[t].checked = ts[t].checked
SamePick(r, q) ==
  r.team = q.team /\ r.player = q.player /\ r.captain = q.captain /\ r.vice = q.vice
OnlyPoints(rs, rs2) ==
  /\ \A r \in rs : \E q \in rs2 : SamePick(r, q)
  /\ \A q \in rs2 : \E r \in rs : SamePick(r, q)

LEMMA ProjectsStill ==
  ASSUME NEW rs, NEW rs2, NEW ts, NEW ts2, Projects(rs, ts),
         OnlyTotals(ts, ts2), OnlyPoints(rs, rs2)
  PROVE  Projects(rs2, ts2)
<1>0. LiveIn(ts2) = LiveIn(ts) /\ \A t \in LiveIn(ts) : ts2[t].lineup = ts[t].lineup
  BY DEF LiveIn, OnlyTotals
<1>1. ASSUME NEW q \in rs2
      PROVE  /\ q.team \in LiveIn(ts2)
             /\ \E i \in DOMAIN Lineups[ts2[q.team].lineup] :
                  SameRow(q, q.team, Lineups[ts2[q.team].lineup][i])
  <2>1. PICK r \in rs : SamePick(r, q)
    BY DEF OnlyPoints
  <2>2. /\ r.team \in LiveIn(ts)
        /\ \E i \in DOMAIN Lineups[ts[r.team].lineup] :
             SameRow(r, r.team, Lineups[ts[r.team].lineup][i])
    BY DEF Projects
  <2> QED  BY <1>0, <2>1, <2>2 DEF SamePick, SameRow
<1>2. ASSUME NEW t \in LiveIn(ts2), NEW i \in DOMAIN Lineups[ts2[t].lineup]
      PROVE  \E q \in rs2 : SameRow(q, t, Lineups[ts2[t].lineup][i])
  <2>1. t \in LiveIn(ts) /\ i \in DOMAIN Lineups[ts[t].lineup]
    BY <1>0
  <2>2. PICK r \in rs : SameRow(r, t, Lineups[ts[t].lineup][i])
    BY <2>1 DEF Projects
  <2>3. PICK q \in rs2 : SamePick(r, q)
    BY DEF OnlyPoints
  <2> QED  BY <1>0, <2>1, <2>2, <2>3 DEF SamePick, SameRow
<1> QED  BY <1>1, <1>2 DEF Projects

(* What persistRecompute writes, for a call c at its end.                  *)
TotalsOf(c) == [t \in DOMAIN c.staged |-> TotalOf[c.events][c.rule.book][c.seen][c.staged[t]]]
PicksOf(c) == UNION {Range(Lineups[l]) : l \in Range(c.staged)}
EarnedOf(c) == [pick \in PicksOf(c) |-> PointsOf[c.events][c.rule.book][c.seen][pick]]

LEMMA EngineValues ==
  ASSUME NEW e \in DOMAIN ScoringBooks, NEW b \in DOMAIN RuleBooks, NEW k \in DOMAIN Statistics
  PROVE  /\ \A l \in DOMAIN Lineups : TotalOf[e][b][k][l] \in Sums
         /\ \A pick \in Pick : PointsOf[e][b][k][pick] \in Earned
<1>1. ASSUME NEW l \in DOMAIN Lineups
      PROVE  TotalOf[e][b][k][l] \in Sums
  <2>1. \E e1 \in DOMAIN ScoringBooks, b1 \in DOMAIN RuleBooks, k1 \in DOMAIN Statistics,
           l1 \in DOMAIN Lineups : TotalOf[e][b][k][l] = TotalOf[e1][b1][k1][l1]
    <3> WITNESS e \in DOMAIN ScoringBooks, b \in DOMAIN RuleBooks, k \in DOMAIN Statistics,
                l \in DOMAIN Lineups
    <3> QED  OBVIOUS
  <2> QED  BY <2>1 DEF Sums
<1>2. ASSUME NEW pick \in Pick
      PROVE  PointsOf[e][b][k][pick] \in Earned
  <2>1. \E e1 \in DOMAIN ScoringBooks, b1 \in DOMAIN RuleBooks, k1 \in DOMAIN Statistics,
           pick1 \in Pick : PointsOf[e][b][k][pick] = PointsOf[e1][b1][k1][pick1]
    <3> WITNESS e \in DOMAIN ScoringBooks, b \in DOMAIN RuleBooks, k \in DOMAIN Statistics,
                pick \in Pick
    <3> QED  OBVIOUS
  <2> QED  BY <2>1 DEF Earned
<1> QED  BY <1>1, <1>2

LEMMA PersistWrites ==
  ASSUME Inv, NEW h \in Handlers, PersistRecompute(h), NEW c, c = call[h]
  PROVE  /\ c \in CallDoc /\ c.at = "persist" /\ c.events \in DOMAIN ScoringBooks
         /\ PersistTeamPoints(c.staged, TotalsOf(c), EarnedOf(c))
         /\ BulkUpsert(Payload(c)) /\ MirrorPoints(Payload(c))
         /\ call' = [call EXCEPT ![h] = Idle] /\ (excused' <=> ~c.clean)
         /\ excused' \in BOOLEAN
         /\ UNCHANGED <<rules, cache, changes, scoring, stats, jobs, asked>>
<1>0. c \in CallDoc /\ c.at = "persist" /\ RunOK(c)
  BY DEF Inv, Shaped, CallsOK, Stands, PersistRecompute, At
<1>1. c.events \in DOMAIN ScoringBooks
  <2>1. c.events \in NoBook..Len(ScoringBooks) /\ c.events # NoBook
    BY <1>0 DEF CallDoc, RunOK, Runs
  <2> QED  BY <2>1, Contents DEF NoBook
<1>2. PersistTeamPoints(c.staged, TotalsOf(c), EarnedOf(c))
  <2>1. PersistTeamPoints(call[h].staged, TotalsOf(call[h]), EarnedOf(call[h]))
    BY Zenon DEF PersistRecompute, TotalsOf, EarnedOf, PicksOf
  <2> QED  BY <2>1
<1>3. BulkUpsert(Payload(c)) /\ MirrorPoints(Payload(c)) /\ call' = [call EXCEPT ![h] = Idle]
  BY DEF PersistRecompute, Return
<1>4. excused' = ~c.clean
  BY DEF PersistRecompute
<1>5. UNCHANGED <<rules, cache, changes, scoring, stats, jobs, asked>>
  BY DEF PersistRecompute, rulebase, Kept, match
<1> QED  BY <1>0, <1>1, <1>2, <1>3, <1>4, <1>5

LEMMA PersistTeams ==
  ASSUME Inv, NEW h \in Handlers, PersistRecompute(h), NEW c, c = call[h]
  PROVE  /\ \A t \in DOMAIN teams :
              /\ teams'[t] \in TeamDoc
              /\ t \in DOMAIN c.staged \cap LiveTeams => teams'[t].total = TotalsOf(c)[t]
         /\ teams' \in Seq(TeamDoc) /\ OnlyTotals(teams, teams')
<1>0. teams \in Seq(TeamDoc)
  BY DEF Inv, Shaped
<1>1. /\ c \in CallDoc /\ c.events \in DOMAIN ScoringBooks
      /\ PersistTeamPoints(c.staged, TotalsOf(c), EarnedOf(c))
  BY PersistWrites
<1>2. /\ c.staged \in Stagings /\ c.seen \in DOMAIN Statistics
      /\ c.rule.book \in DOMAIN RuleBooks
  BY <1>1 DEF CallDoc, RuleRead
<1>3. \A t \in DOMAIN c.staged : TotalsOf(c)[t] \in Sums
  BY <1>1, <1>2, StagedPicks, EngineValues DEF TotalsOf
<1>4. teams' = [t \in DOMAIN teams |-> Retotalled(t, c.staged, TotalsOf(c))]
  BY <1>1, Persists
<1>5. ASSUME NEW t \in DOMAIN teams
      PROVE  /\ teams'[t] \in TeamDoc /\ teams'[t].lineup = teams[t].lineup
             /\ teams'[t].rule = teams[t].rule /\ teams'[t].deleted = teams[t].deleted
             /\ teams'[t].named = teams[t].named /\ teams'[t].checked = teams[t].checked
             /\ t \in DOMAIN c.staged \cap LiveTeams => teams'[t].total = TotalsOf(c)[t]
  <2>1. teams'[t] = Retotalled(t, c.staged, TotalsOf(c)) /\ teams[t] \in TeamDoc
    BY <1>0, <1>4
  <2> QED  BY <1>3, <2>1, RetotalledFields
<1>6. DOMAIN teams = 1..Len(teams) /\ Len(teams) \in Nat /\ DOMAIN teams' = DOMAIN teams
  BY <1>0, <1>4
<1>7. teams' \in Seq(TeamDoc)
  <2>1. PICK ts : ts = teams'
    OBVIOUS
  <2>2. ts = [t \in 1..Len(teams) |-> ts[t]] /\ \A t \in 1..Len(teams) : ts[t] \in TeamDoc
    BY <1>4, <1>5, <1>6, <2>1
  <2>3. ts \in [1..Len(teams) -> TeamDoc]
    BY <2>2
  <2>4. ts \in Seq(TeamDoc)
    BY <1>6, <2>3
  <2> QED  BY <2>1, <2>4
<1> QED  BY <1>5, <1>6, <1>7 DEF OnlyTotals

AwardedRows(rs, c) == {Awarded(r, c.staged, EarnedOf(c)) : r \in rs}

LEMMA PersistRows ==
  ASSUME Inv, NEW h \in Handlers, PersistRecompute(h), NEW c, c = call[h]
  PROVE  /\ rows' = AwardedRows(rows, c)
         /\ \A r \in rows : /\ Awarded(r, c.staged, EarnedOf(c)) \in RowDoc
                            /\ SamePick(r, Awarded(r, c.staged, EarnedOf(c)))
                            /\ Hits(r, c.staged) # {} =>
                                 Awarded(r, c.staged, EarnedOf(c)).points
                                   = EarnedOf(c)[Hit(r, c.staged)]
         /\ rows' \subseteq RowDoc /\ OnlyPoints(rows, rows')
<1>0. rows \subseteq RowDoc
  BY DEF Inv, Shaped
<1>1. /\ c \in CallDoc /\ c.events \in DOMAIN ScoringBooks
      /\ PersistTeamPoints(c.staged, TotalsOf(c), EarnedOf(c))
  BY PersistWrites
<1>2. /\ c.staged \in Stagings /\ c.seen \in DOMAIN Statistics
      /\ c.rule.book \in DOMAIN RuleBooks
  BY <1>1 DEF CallDoc, RuleRead
<1>3. rows' = AwardedRows(rows, c)
  BY <1>1, Persists DEF AwardedRows
<1>4. ASSUME NEW r \in rows
      PROVE  /\ Awarded(r, c.staged, EarnedOf(c)) \in RowDoc
             /\ SamePick(r, Awarded(r, c.staged, EarnedOf(c)))
             /\ Hits(r, c.staged) # {} =>
                  Awarded(r, c.staged, EarnedOf(c)).points = EarnedOf(c)[Hit(r, c.staged)]
  <2>1. ASSUME Hits(r, c.staged) # {}
        PROVE  EarnedOf(c)[Hit(r, c.staged)] \in Earned
    <3>1. PICK l : l = c.staged[r.team]
      OBVIOUS
    <3>2. r.team \in DOMAIN c.staged
      BY <2>1 DEF Hits
    <3>3. l \in DOMAIN Lineups /\ l \in Range(c.staged)
      BY <1>2, <3>1, <3>2, StagedPicks
    <3>4. PICK i \in DOMAIN Lineups[l] : Hit(r, c.staged) = Lineups[l][i]
      BY <2>1, <3>1, <3>2 DEF Hit, Hits
    <3>5. Hit(r, c.staged) \in Pick /\ Hit(r, c.staged) \in PicksOf(c)
      BY <1>2, <3>3, <3>4, StagedPicks DEF PicksOf
    <3> QED  BY <1>1, <1>2, <3>5, EngineValues DEF EarnedOf
  <2>2. PICK e : e = EarnedOf(c)
    OBVIOUS
  <2>3. r \in RowDoc /\ (Hits(r, c.staged) # {} => e[Hit(r, c.staged)] \in Earned)
    BY <1>0, <2>1, <2>2
  <2> HIDE DEF Inv, RowDoc, Earned
  <2>4. /\ Awarded(r, c.staged, e) \in RowDoc
        /\ Awarded(r, c.staged, e).team = r.team
        /\ Awarded(r, c.staged, e).player = r.player
        /\ Awarded(r, c.staged, e).captain = r.captain
        /\ Awarded(r, c.staged, e).vice = r.vice
        /\ Hits(r, c.staged) # {} => Awarded(r, c.staged, e).points = e[Hit(r, c.staged)]
    BY <2>3, AwardedFields
  <2> QED  BY <2>2, <2>4 DEF SamePick
<1>5. rows' \subseteq RowDoc /\ OnlyPoints(rows, rows')
  BY <1>3, <1>4 DEF OnlyPoints, AwardedRows
<1> QED  BY <1>3, <1>4, <1>5

(* A recomputation that was clean to its end.                              *)
LEMMA RowHit ==
  ASSUME Inv, NEW r \in rows, NEW staged, staged = [t \in LiveIn(teams) |-> teams[t].lineup]
  PROVE  /\ Hits(r, staged) # {}
         /\ Hit(r, staged) = [player |-> r.player, captain |-> r.captain, vice |-> r.vice]
         /\ r.team \in LiveIn(teams) /\ staged[r.team] \in DOMAIN Lineups
         /\ \E i \in DOMAIN Lineups[staged[r.team]] :
              Hit(r, staged) = Lineups[staged[r.team]][i]
<1>0. /\ teams \in Seq(TeamDoc) /\ rows \subseteq RowDoc /\ LiveTeams = LiveIn(teams)
      /\ r \in RowDoc
  BY DEF Inv, Shaped, LiveTeams, LiveIn
<1>1. Projects(rows, teams)
  <2>1. Mirrors(rows, teams)
    BY <1>0, Zenon DEF Inv, RowsMirrorTeams, Mirrors
  <2> QED  BY <1>0, <2>1, ProjectsIff
<1>2. PICK l : l = teams[r.team].lineup
  OBVIOUS
<1>3. /\ r.team \in LiveIn(teams) /\ l \in DOMAIN Lineups
      /\ \E i \in DOMAIN Lineups[l] : SameRow(r, r.team, Lineups[l][i])
  BY <1>0, <1>1, <1>2, LiveDocs DEF Projects
<1>4. r.team \in DOMAIN staged /\ staged[r.team] = l
  BY <1>2, <1>3
<1>5. PICK i \in DOMAIN Lineups[l] : SameRow(r, r.team, Lineups[l][i])
  BY <1>3
<1>6. Distinct(l)
  <2>1. r.team \in DOMAIN teams
    BY <1>3 DEF LiveIn
  <2> QED  BY <1>2, <2>1 DEF Inv, TeamsOK, TeamOK, Checked
<1>7. i \in Hits(r, staged)
  BY <1>4, <1>5 DEF Hits, SameRow
<1>8. \A j \in Hits(r, staged) : j = i
  BY <1>4, <1>5, <1>6 DEF Hits, SameRow, Distinct
<1>9. Hit(r, staged) = Lineups[l][i]
  <2>1. (CHOOSE j \in Hits(r, staged) : TRUE) \in Hits(r, staged)
    BY <1>7
  <2>2. (CHOOSE j \in Hits(r, staged) : TRUE) = i
    BY <1>8, <2>1
  <2> QED  BY <1>4, <2>2 DEF Hit
<1>10. Lineups[l][i] \in Pick
  <2>1. Lineups[l] \in Seq(Pick)
    BY <1>3, MatchDayAssumption
  <2> QED  BY <2>1
<1>11. Lineups[l][i] = [player |-> r.player, captain |-> r.captain, vice |-> r.vice]
  BY <1>5, <1>10 DEF SameRow, Pick
<1> QED  BY <1>3, <1>4, <1>5, <1>7, <1>9, <1>11

LEMMA PayloadIsCredited ==
  ASSUME Inv, NEW c, c.staged \in Stagings, c.seen = stats, BulkUpsert(Payload(c)),
         NEW p, NEW picked, picked = Picked(Range(c.staged)),
         p \in picked \cup DOMAIN Statistics[stats]
  PROVE  /\ p \in DOMAIN Payload(c) /\ points'[p] = Payload(c)[p]
         /\ Payload(c)[p] = PlayerBase[c.events][stats][p][(p \in picked)]
<1>0. stats \in DOMAIN Statistics
  BY DEF Inv, Shaped
<1>1. DOMAIN Payload(c) = picked \cup DOMAIN Statistics[stats]
  BY Zenon DEF Payload
<1>2. Payload(c)[p] = PlayerBase[c.events][stats][p][(p \in picked)]
  BY DEF Payload
<1>3. picked \subseteq Players
  <2>1. \A l \in Range(c.staged) : l \in DOMAIN Lineups
    BY StagedPicks
  <2>2. \A l \in DOMAIN Lineups : \A i \in DOMAIN Lineups[l] : Lineups[l][i] \in Pick
    BY MatchDayAssumption
  <2>3. \A l \in Range(c.staged) : \A i \in DOMAIN Lineups[l] : Lineups[l][i].player \in Players
    BY <2>1, <2>2 DEF Pick
  <2> QED  BY <2>3 DEF Picked, Chosen
<1>4. p \in Players
  BY <1>0, <1>3, MatchDayAssumption
<1>5. points'[p] = Payload(c)[p]
  BY <1>1, <1>4 DEF BulkUpsert
<1> QED  BY <1>1, <1>2, <1>5

LEMMA CleanIsFinal ==
  ASSUME Inv, NEW h \in Handlers, PersistRecompute(h), call[h].clean
  PROVE  Final'
<1>1. PICK c : c = call[h]
  OBVIOUS
<1>2. /\ c \in CallDoc /\ c.at = "persist" /\ c.events \in DOMAIN ScoringBooks
      /\ BulkUpsert(Payload(c)) /\ MirrorPoints(Payload(c))
      /\ UNCHANGED <<rules, scoring, stats>>
  BY <1>1, PersistWrites
<1>3. /\ c.rule.version \in ActiveIn(rules) /\ rules[c.rule.version].book = c.rule.book
      /\ c.events = scoring.active /\ c.seen = stats
      /\ c.staged = [t \in LiveIn(teams) |-> teams[t].lineup]
  BY <1>1, <1>2 DEF Inv, CallsOK, Stands, Inputs
<1>4. PICK v, e, st : v = c.rule.version /\ e = c.events /\ st = c.staged
  OBVIOUS
<1>5. v \in Active' /\ e \in {scoring'.active} \ {NoBook}
  <2>1. v \in Active'
    BY <1>2, <1>3, <1>4 DEF Active, ActiveIn
  <2>2. e # NoBook
    BY <1>2, <1>4, Contents DEF NoBook
  <2> QED  BY <1>2, <1>3, <1>4, <2>1, <2>2
<1>6. /\ teams \in Seq(TeamDoc) /\ rows \subseteq RowDoc /\ LiveTeams = LiveIn(teams)
      /\ stats \in DOMAIN Statistics /\ st \in Stagings
  BY <1>2, <1>4 DEF Inv, Shaped, LiveTeams, LiveIn, CallDoc
<1>7. /\ \A t \in DOMAIN teams :
           t \in DOMAIN c.staged \cap LiveTeams => teams'[t].total = TotalsOf(c)[t]
      /\ OnlyTotals(teams, teams')
  BY <1>1, PersistTeams
<1>8. LiveTeams' = LiveTeams /\ \A t \in LiveTeams : teams'[t].lineup = teams[t].lineup
  BY <1>7 DEF LiveTeams, OnlyTotals
<1>9. Totalled(v, e)'
  <2> SUFFICES ASSUME NEW t \in LiveTeams
               PROVE  teams'[t].total
                        = TotalOf[e][rules[v].book][stats][teams[t].lineup]
    BY <1>2, <1>8 DEF Totalled
  <2>1. t \in DOMAIN teams /\ t \in DOMAIN c.staged \cap LiveTeams
    BY <1>3, <1>6 DEF LiveTeams
  <2>2. teams'[t].total = TotalsOf(c)[t]
    BY <1>7, <2>1
  <2>3. TotalsOf(c)[t] = TotalOf[c.events][c.rule.book][c.seen][c.staged[t]]
    BY <2>1 DEF TotalsOf
  <2>4. c.staged[t] = teams[t].lineup
    BY <1>3, <1>6
  <2> QED  BY <1>3, <1>4, <2>2, <2>3, <2>4
<1>10. Scored(v, e)'
  <2> SUFFICES ASSUME NEW q \in rows'
               PROVE  q.points = PointsOf[e][rules[v].book][stats][
                                   [player |-> q.player, captain |-> q.captain, vice |-> q.vice]]
    BY <1>2 DEF Scored
  <2>1. /\ rows' = AwardedRows(rows, c)
        /\ \A r \in rows : /\ SamePick(r, Awarded(r, c.staged, EarnedOf(c)))
                           /\ Hits(r, c.staged) # {} =>
                                Awarded(r, c.staged, EarnedOf(c)).points
                                  = EarnedOf(c)[Hit(r, c.staged)]
    BY <1>1, PersistRows
  <2>2. PICK r \in rows : q = Awarded(r, c.staged, EarnedOf(c))
    BY <2>1 DEF AwardedRows
  <2>3. PICK pick : pick = [player |-> r.player, captain |-> r.captain, vice |-> r.vice]
    OBVIOUS
  <2>4. /\ Hits(r, st) # {} /\ Hit(r, st) = pick /\ r.team \in LiveIn(teams)
        /\ st[r.team] \in DOMAIN Lineups
        /\ \E i \in DOMAIN Lineups[st[r.team]] : pick = Lineups[st[r.team]][i]
    BY <1>3, <1>4, <2>3, RowHit
  <2>5. pick \in PicksOf(c)
    <3>1. r.team \in DOMAIN st
      BY <1>3, <1>4, <2>4
    <3>2. st[r.team] \in Range(st) /\ pick \in Range(Lineups[st[r.team]])
      BY <1>6, <2>4, <3>1, StagedPicks
    <3> QED  BY <1>4, <3>2 DEF PicksOf
  <2>6. q.points = EarnedOf(c)[pick]
    BY <1>4, <2>1, <2>2, <2>4
  <2>7. q.points = PointsOf[c.events][c.rule.book][c.seen][pick]
    BY <2>5, <2>6 DEF EarnedOf
  <2>8. pick = [player |-> q.player, captain |-> q.captain, vice |-> q.vice]
    BY <2>1, <2>2, <2>3 DEF SamePick
  <2> QED  BY <1>3, <1>4, <2>7, <2>8
<1>11. PICK picked : picked = Picked(Range(st))
  OBVIOUS
<1>12. \A p \in picked \cup DOMAIN Statistics[stats] :
         /\ p \in DOMAIN Payload(c) /\ points'[p] = Payload(c)[p]
         /\ Payload(c)[p] = PlayerBase[e][stats][p][(p \in picked)]
  BY <1>2, <1>3, <1>4, <1>6, <1>11, PayloadIsCredited
<1>13. Credited(e)'
  <2>1. Range(st) = {teams[t].lineup : t \in LiveTeams}
    BY <1>3, <1>4, <1>6 DEF Range
  <2>2. {teams'[t].lineup : t \in LiveTeams} = {teams[t].lineup : t \in LiveTeams}
    BY <1>8
  <2>3. Picked({teams'[t].lineup : t \in LiveTeams'}) = picked
    BY <1>8, <1>11, <2>1, <2>2, Zenon
  <2>4. \A p \in picked \cup DOMAIN Statistics[stats'] :
          points'[p] = PlayerBase[e][stats'][p][(p \in picked)]
    BY <1>2, <1>12
  <2> QED  BY <2>3, <2>4, Zenon DEF Credited
<1>14. Mirrored'
  <2> SUFFICES ASSUME NEW p \in DOMAIN Statistics[stats]
               PROVE  mirror'[p] = Max({0, points'[p]})
    BY <1>2 DEF Mirrored
  <2>1. p \in Players
    BY <1>6, MatchDayAssumption
  <2>2. p \in DOMAIN Payload(c) /\ points'[p] = Payload(c)[p]
    BY <1>12
  <2> QED  BY <1>2, <2>1, <2>2 DEF MirrorPoints
<1> QED  BY <1>5, <1>9, <1>10, <1>13, <1>14 DEF Final

LEMMA PersistRecomputeStep ==
  ASSUME Inv, NEW h \in Handlers, PersistRecompute(h)
  PROVE  Inv'
<1>1. PICK c : c = call[h]
  OBVIOUS
<1>2. /\ c \in CallDoc /\ c.at = "persist" /\ call' = [call EXCEPT ![h] = Idle]
      /\ (excused' <=> ~c.clean) /\ excused' \in BOOLEAN
      /\ UNCHANGED <<rules, cache, changes, scoring, stats, jobs, asked>>
  BY <1>1, PersistWrites
<1>3. /\ \A t \in DOMAIN teams : teams'[t] \in TeamDoc
      /\ teams' \in Seq(TeamDoc) /\ OnlyTotals(teams, teams')
  BY <1>1, PersistTeams
<1>4. rows' \subseteq RowDoc /\ OnlyPoints(rows, rows')
  BY <1>1, PersistRows
<1>5. /\ teams \in Seq(TeamDoc) /\ rows \subseteq RowDoc /\ call \in [Handlers -> CallDoc]
      /\ LiveTeams = LiveIn(teams) /\ LiveTeams' = LiveIn(teams')
  BY DEF Inv, Shaped, LiveTeams, LiveIn
<1>6. /\ call' \in [Handlers -> CallDoc] /\ call'[h] = Idle
      /\ \A g \in Handlers \ {h} : call'[g] = call[g]
  BY <1>2, <1>5, IdleShape, OneMoves
<1>7. TeamsOK'
  BY <1>2, <1>3 DEF Inv, TeamsOK, TeamOK, OnlyTotals
<1>8. RowsMirrorTeams'
  <2>1. Mirrors(rows, teams)
    BY <1>5, Zenon DEF Inv, RowsMirrorTeams, Mirrors
  <2>2. Projects(rows', teams')
    BY <1>3, <1>4, <1>5, <2>1, ProjectsIff, ProjectsStill
  <2>3. Mirrors(rows', teams')
    BY <1>3, <1>4, <2>2, ProjectsIff
  <2> QED  BY <1>5, <2>3, Zenon DEF RowsMirrorTeams, Mirrors
<1>9. Alone'
  BY <1>6, IdleHolds, AloneKept DEF Inv
<1>10. Later(rules, changes, rules', changes')
  BY <1>2 DEF Later
<1>11. CallsOK'
  <2>1. ASSUME NEW g \in Handlers
        PROVE  Stands(call'[g], rules', changes', scoring'.active, stats', teams')
    <3>1. CASE g = h
      BY <1>6, <3>1, IdleHolds DEF Stands
    <3>2. CASE g # h
      <4>1. Runs(c)
        BY <1>2 DEF Runs
      <4>2. ~call[g].clean
        BY <1>1, <3>2, <4>1 DEF Inv, Alone
      <4>3. RequestOK(call[g], rules, changes, teams) /\ RunOK(call[g])
        BY DEF Inv, CallsOK, Stands
      <4>4. call[g] \in CallDoc /\ changes \in Nat /\ DOMAIN teams \subseteq DOMAIN teams'
        BY <1>3, <1>5 DEF Inv, Shaped, OnlyTotals
      <4>5. RequestOK(call[g], rules', changes', teams')
        BY <1>10, <4>3, <4>4, RequestKept
      <4> QED  BY <1>6, <3>2, <4>2, <4>3, <4>5 DEF Stands
    <3> QED  BY <3>1, <3>2
  <2> QED  BY <2>1 DEF CallsOK
<1>12. RulesOK' /\ cache' \in RuleRead
  BY <1>2, RulesRead DEF Inv
<1>13. PointsOK'
  <2>1. CASE c.clean
    <3>1. Final'
      BY <1>1, <2>1, CleanIsFinal
    <3> QED  BY <3>1 DEF PointsOK
  <2>2. CASE ~c.clean
    BY <1>2, <2>2, PointsExcused
  <2> QED  BY <2>1, <2>2
<1>14. Shaped'
  BY <1>2, <1>3, <1>4, <1>6, <1>12 DEF Inv, Shaped
<1> QED  BY <1>7, <1>8, <1>9, <1>11, <1>12, <1>13, <1>14 DEF Inv

-----------------------------------------------------------------------------
LEMMA InitInv == Init => Inv
<1> SUFFICES ASSUME Init PROVE Inv
  OBVIOUS
<1>0. Lineups \in Seq(Seq(Pick)) /\ FirstRules \in Seq(DOMAIN RuleBooks)
  BY MatchDayAssumption
<1>1. /\ teams = <<>> /\ rows = {} /\ stats = 1 /\ cache = NoRule /\ jobs = 0 /\ changes = 0
      /\ scoring = [active |-> 1, stale |-> NoBook, changes |-> 0]
      /\ call = [h \in Handlers |-> Idle]
      /\ rules = [v \in DOMAIN FirstRules |-> [book |-> FirstRules[v], active |-> v = 1]]
  BY DEF Init
<1>2. asked = FALSE /\ excused = TRUE
  BY DEF Init
<1>3. rules \in Seq(RuleDoc) /\ \A u, v \in ActiveIn(rules) : u = v
  <2>1. DOMAIN FirstRules = 1..Len(FirstRules) /\ Len(FirstRules) \in Nat
    BY <1>0
  <2>2. ASSUME NEW v \in DOMAIN FirstRules
        PROVE  rules[v] \in RuleDoc /\ (rules[v].active => v = 1)
    <3>1. PICK a \in BOOLEAN : a = (v = 1)
      OBVIOUS
    <3>2. rules[v] = [book |-> FirstRules[v], active |-> a]
      BY <1>1, <3>1
    <3>3. FirstRules[v] \in DOMAIN RuleBooks
      BY <1>0
    <3>4. rules[v] \in RuleDoc /\ rules[v].active = a
      BY <3>2, <3>3 DEF RuleDoc
    <3> QED  BY <3>1, <3>4, Zenon
  <2>3. PICK rs : rs = rules
    OBVIOUS
  <2>4. rs \in [1..Len(FirstRules) -> RuleDoc] /\ DOMAIN rs = DOMAIN FirstRules
    BY <1>1, <2>1, <2>2, <2>3
  <2>5. rs \in Seq(RuleDoc)
    BY <2>1, <2>4
  <2> QED  BY <2>2, <2>3, <2>4, <2>5 DEF ActiveIn
<1>4. scoring \in Books
  BY <1>1, Contents DEF Books, NoBook
<1>5. call \in [Handlers -> CallDoc] /\ \A h \in Handlers : call[h] = Idle
  BY <1>1, IdleShape
<1>11. asked \in BOOLEAN /\ excused \in BOOLEAN
  BY <1>2
<1>6. Shaped
  BY <1>1, <1>11, <1>3, <1>4, <1>5, Contents, IdleShape DEF Shaped
<1>7. RulesOK
  BY <1>1, <1>3 DEF RulesOK
<1>8. TeamsOK /\ RowsMirrorTeams
  BY <1>1 DEF TeamsOK, RowsMirrorTeams, LiveTeams
<1>9. CallsOK /\ Alone
  BY <1>5, IdleHolds DEF CallsOK, Alone, Stands
<1>10. PointsOK
  BY <1>2 DEF PointsOK
<1> QED  BY <1>6, <1>7, <1>8, <1>9, <1>10 DEF Inv

LEMMA HandlerStep ==
  ASSUME Inv, NEW h \in Handlers,
         \/ CreateTeamRequest(h) \/ UpdateTeamRequest(h) \/ CloneTeamRequest(h)
         \/ DeleteTeamRequest(h) \/ AdminRecompute(h) \/ AdjustPlayerPoints(h)
         \/ TeamStep(h) \/ ScoringStep(h) \/ Fail(h)
  PROVE  Inv'
<1>1. TeamStep(h) => Inv'
  BY CountTeamsStep, SaveTeamStep DEF TeamStep
<1>2. ScoringStep(h) => Inv'
  BY TakeJobStep, RecomputeAdjustedStep, ReadStatsStep, ReadTeamsStep, PersistRecomputeStep
  DEF ScoringStep
<1> QED  BY <1>1, <1>2, CreateTeamRequestStep, UpdateTeamRequestStep, CloneTeamRequestStep,
            DeleteTeamRequestStep, AdminRecomputeStep, AdjustPlayerPointsStep, FailStep

LEMMA NextInv == Inv /\ [Next]_vars => Inv'
<1> SUFFICES ASSUME Inv, [Next]_vars PROVE Inv'
  OBVIOUS
<1>1. ASSUME Next PROVE Inv'
  <2>1. (LiveTick \/ FinalReconcile) => Enqueue
    BY DEF LiveTick, FinalReconcile
  <2> QED  BY <1>1, <2>1, HandlerStep, JobRefusedStep, UpdateRuleStep, ActivateRuleStep,
              ScoringRuleChangeStep, CacheExpiresStep, StatusStep, StatsArriveStep, EnqueueStep
           DEF Next
<1> QED  BY <1>1, StatusStep

(* Shaped, and with it the rest of the argument, holds in every history.   *)
LEMMA InvHolds == Spec => []Inv
<1> QED  BY InitInv, NextInv, PTL DEF Spec

LEMMA TeamsMayDiffer == Inv => RuleMismatchNeedsRuleChange
<1> SUFFICES ASSUME Inv, NEW t \in LiveTeams,
                    ~(teams[t].named < changes), ~(teams[t].checked < changes)
             PROVE  teams[t].lineup \in Accepts[rules[teams[t].rule].book]
  BY DEF RuleMismatchNeedsRuleChange
<1>1. /\ t \in DOMAIN teams /\ teams[t] \in TeamDoc /\ changes \in Nat
      /\ TeamOK(teams[t], rules, changes)
  BY DEF LiveTeams, Inv, Shaped, TeamsOK
<1>2. teams[t].named \in Nat /\ teams[t].checked \in Nat
  BY <1>1 DEF TeamDoc
<1>3. teams[t].named = changes /\ teams[t].checked = changes
  BY <1>1, <1>2 DEF TeamOK, Checked
<1> QED  BY <1>1, <1>3 DEF TeamOK, Checked

LEMMA RestIsFinal == Inv => RestingPointsAreFinal
<1> SUFFICES ASSUME Inv, AtRest PROVE RestingPointsAreFinal
  BY DEF RestingPointsAreFinal
<1>1. ~\E h \in Handlers : call[h].op = "job"
  BY IdleHolds DEF AtRest
<1>2. Final
  BY <1>1 DEF AtRest, Inv, PointsOK
<1>3. PICK v \in Active, e \in {scoring.active} \ {NoBook} :
        Totalled(v, e) /\ Scored(v, e) /\ Credited(e)
  BY <1>2 DEF Final
<1> QED  BY <1>2, <1>3, Zenon
         DEF RestingPointsAreFinal, Final, Totalled, Scored, Credited, Mirrored

(* fantasy-team.service.ts keeps its projection in step with its teams:    *)
(* whatever requests, recomputations and failures interleave, the rows not *)
(* deleted are the picks of the teams not deleted.                         *)
THEOREM ProjectionFollowsTeams == Spec => []RowsMirrorTeams
<1>1. Inv => RowsMirrorTeams
  BY DEF Inv
<1> QED  BY <1>1, InvHolds, PTL

(* A team breaks the rule it names only when some rule was changed since   *)
(* the rule was named or the lineup was accepted.                          *)
THEOREM MismatchNeedsChange == Spec => []RuleMismatchNeedsRuleChange
BY InvHolds, TeamsMayDiffer, PTL

(* Once no recomputation is queued or under way, one was asked for since   *)
(* the statistics changed and the last one met no other and no change of   *)
(* its inputs, every total, point and mirror is what scoring.service.ts    *)
(* computes from the present teams, rules and statistics.                  *)
THEOREM PointsAtRestAreFinal == Spec => []RestingPointsAreFinal
BY InvHolds, RestIsFinal, PTL

-----------------------------------------------------------------------------
(* The leaderboard.  A rebuild that records alone reads the latest row of  *)
(* each entry and writes the next one (RecordsAlone, RowsPrecede), with a  *)
(* stamp beyond all others (StampsBounded).                                *)
CallSteps == {"idle", "commit", "register", "teams", "redis", "snapshot", "prior", "append"}
RebuildDoc ==
  [at : CallSteps, op : {"none", "join", "refresh", "page"},
   entry : 0..NumEntries, entries : SUBSET Entries, seen : DOMAIN Totals, stamp : Nat,
   prior : [Entries -> Placing \cup {None}], alone : BOOLEAN]
HistoryRow ==
  [entry : Entries, stamp : Nat \ {0}, placing : Placing, previous : Placing \cup {None},
   alone : BOOLEAN]

Records(c) == c.at \in {"prior", "append"}

(* The row that a rebuild finds among the rows of an entry.                *)
Found(rs) == IF rs = {} THEN None ELSE Latest(rs).placing

(* The documents and calls, with what has joined, and a bound of the times *)
(* of the snapshots.                                                       *)
BoardShaped ==
  /\ entries \subseteq Entries /\ version \in DOMAIN Totals
  /\ history \subseteq HistoryRow /\ \A r \in history : r.entry \in entries
  /\ task \in [Routines -> RebuildDoc]
  /\ \A h \in Routines :
       /\ task[h].entries \subseteq entries
       /\ task[h].at = "commit" => task[h].entry \in Entries
       /\ task[h].at = "register" => task[h].entry \in entries
       /\ Records(task[h]) => task[h].stamp # 0
BoardHeld ==
  /\ status \in Statuses
  /\ DOMAIN board \subseteq entries /\ \A e \in DOMAIN board : board[e] \in Int
  /\ refreshes \in 0..MaxRefreshes
  /\ overlaps \in 0..MaxOverlaps /\ failures \in 0..MaxFaults
StampsBounded ==
  \E n \in Nat : /\ \A r \in history : r.stamp <= n
                 /\ \A h \in Routines : task[h].stamp <= n

(* A rebuild that records alone is the only one that records, and later    *)
(* than every row; rows written alone are older than what records now.     *)
RecordsAlone ==
  \A h \in Routines : Records(task[h]) /\ task[h].alone =>
    /\ \A g \in Routines : Records(task[g]) => g = h
    /\ \A r \in history : r.stamp < task[h].stamp
    /\ task[h].at = "append" =>
         \A e \in task[h].entries : task[h].prior[e] = Found(RowsOf(e))
RowsPrecede ==
  \A h \in Routines : \A r \in history :
    Records(task[h]) /\ r.alone => r.stamp < task[h].stamp

Chained == BoardShaped /\ StampsBounded /\ RecordsAlone /\ RowsPrecede

BoardInv == BoardHeld /\ Chained /\ HistoryChainsBarOverlap

-----------------------------------------------------------------------------
(* A bounded set of naturals has a greatest element: the least of its      *)
(* upper bounds.                                                           *)
LEMMA Greatest ==
  ASSUME NEW S \in SUBSET Nat, S # {}, NEW n \in Nat, \A s \in S : s <= n
  PROVE  Max(S) \in S /\ \A s \in S : s <= Max(S)
<1> DEFINE Bounds == {m \in Nat : \A s \in S : s <= m}
<1>1. IsWellFoundedOn(OpToRel(<, Nat), Nat)
  BY NatLessThanWellFounded
<1>2. Bounds \subseteq Nat /\ Bounds # {}
  OBVIOUS
<1>3. PICK m \in Bounds : \A k \in Bounds : ~ (<<k, m>> \in OpToRel(<, Nat))
  BY <1>1, <1>2, WFMin
<1>4. \A k \in Bounds : ~ (k < m)
  BY <1>3 DEF OpToRel
<1>5. m \in S
  <2> SUFFICES ASSUME m \notin S PROVE FALSE
    OBVIOUS
  <2>1. m \in Nat /\ \A s \in S : s \in Nat /\ s < m
    OBVIOUS
  <2>2. m # 0 /\ m - 1 \in Nat
    <3>1. PICK s \in S : s \in Nat /\ s < m
      BY <2>1
    <3> QED
      BY <2>1, <3>1
  <2>3. m - 1 \in Bounds
    BY <2>1, <2>2
  <2>4. m - 1 < m
    BY <2>1
  <2> QED
    BY <1>4, <2>3, <2>4
<1>6. \E x \in S : \A y \in S : x >= y
  BY <1>5
<1> QED
  BY <1>6 DEF Max

Stamps == {r.stamp : r \in history} \cup {task[g].stamp : g \in Recording}

LEMMA NewStamp ==
  ASSUME BoardShaped, StampsBounded
  PROVE  LET s == Max(Stamps \cup {0}) + 1
         IN  /\ s \in Nat \ {0}
             /\ \A r \in history : r.stamp < s
             /\ \A g \in Routines : Records(task[g]) => task[g].stamp < s
<1> DEFINE S == Stamps \cup {0}
<1>1. PICK n \in Nat : /\ \A r \in history : r.stamp <= n
                       /\ \A h \in Routines : task[h].stamp <= n
  BY DEF StampsBounded
<1>2. /\ \A r \in history : r.stamp \in Nat
      /\ \A h \in Routines : task[h].stamp \in Nat
  BY DEF BoardShaped, HistoryRow, RebuildDoc
<1>3. S \in SUBSET Nat /\ S # {} /\ \A s \in S : s <= n
  BY <1>1, <1>2 DEF Stamps, Recording
<1>4. PICK z \in S : z = Max(S) /\ \A s \in S : s <= z
  BY <1>1, <1>3, Greatest
<1>5. z \in Nat /\ \A s \in S : s \in Nat /\ s < z + 1
  <2>1. z \in Nat /\ \A s \in S : s \in Nat
    BY <1>3
  <2> HIDE DEF S
  <2> QED
    BY <1>4, <2>1
<1>6. /\ \A r \in history : r.stamp \in S
      /\ \A g \in Routines : Records(task[g]) => task[g].stamp \in S
  BY DEF Stamps, Recording, Records
<1>7. /\ z + 1 \in Nat \ {0}
      /\ \A r \in history : r.stamp < z + 1
      /\ \A g \in Routines : Records(task[g]) => task[g].stamp < z + 1
  <2> HIDE DEF S
  <2>1. z + 1 \in Nat \ {0}
    BY <1>5
  <2>2. \A r \in history : r.stamp < z + 1
    BY <1>5, <1>6
  <2>3. \A g \in Routines : Records(task[g]) => task[g].stamp < z + 1
    BY <1>5, <1>6
  <2> QED
    BY <2>1, <2>2, <2>3
<1> QED
  BY <1>4, <1>7

-----------------------------------------------------------------------------
(* What changes no row and lets no handler record keeps all of it.         *)
Becomes(h, c) == task' = [task EXCEPT ![h] = c]

LEMMA Became ==
  ASSUME BoardShaped, NEW h \in Routines, NEW c \in RebuildDoc, Becomes(h, c)
  PROVE  /\ task' \in [Routines -> RebuildDoc] /\ task'[h] = c
         /\ \A g \in Routines \ {h} : task'[g] = task[g]
BY DEF BoardShaped, Becomes

LEMMA QuietStep ==
  ASSUME BoardInv, NEW h \in Routines, NEW c \in RebuildDoc, Becomes(h, c),
         ~Records(c), c.stamp = 0 \/ c.stamp = task[h].stamp, history' = history,
         version' \in DOMAIN Totals, entries' \subseteq Entries, entries \subseteq entries',
         c.entries \subseteq entries', c.at = "commit" => c.entry \in Entries,
         c.at = "register" => c.entry \in entries'
  PROVE  (Chained /\ HistoryChainsBarOverlap)'
<1>0. /\ BoardShaped /\ StampsBounded /\ RecordsAlone /\ RowsPrecede
      /\ HistoryChainsBarOverlap
  BY DEF BoardInv, Chained
<1>1. /\ task' \in [Routines -> RebuildDoc] /\ task'[h] = c
      /\ \A g \in Routines \ {h} : task'[g] = task[g]
  BY <1>0, Became
<1>2. BoardShaped'
  BY <1>0, <1>1 DEF BoardShaped, Records
<1>3. StampsBounded'
  <2>1. PICK n \in Nat : /\ \A r \in history : r.stamp <= n
                         /\ \A g \in Routines : task[g].stamp <= n
    BY <1>0 DEF StampsBounded
  <2>2. \A g \in Routines : task'[g].stamp <= n
    BY <1>1, <2>1
  <2> QED
    BY <2>1, <2>2 DEF StampsBounded
<1>4. \A e : RowsOf(e)' = RowsOf(e)
  BY DEF RowsOf
<1>5. RecordsAlone' /\ RowsPrecede'
  BY <1>0, <1>1, <1>4 DEF RecordsAlone, RowsPrecede
<1>6. HistoryChainsBarOverlap'
  BY <1>0, <1>4 DEF HistoryChainsBarOverlap
<1> QED
  BY <1>2, <1>3, <1>5, <1>6 DEF Chained

LEMMA StillStep ==
  ASSUME BoardInv, UNCHANGED <<task, history, entries>>, version' \in DOMAIN Totals
  PROVE  (Chained /\ HistoryChainsBarOverlap)'
<1>0. Chained /\ HistoryChainsBarOverlap
  BY DEF BoardInv
<1>1. \A e : RowsOf(e)' = RowsOf(e)
  BY DEF RowsOf
<1> QED
  BY <1>0, <1>1 DEF Chained, BoardShaped, StampsBounded, RecordsAlone, RowsPrecede,
                    HistoryChainsBarOverlap

-----------------------------------------------------------------------------
(* The steps that record.                                                  *)
LEMMA SnapshotStep ==
  ASSUME BoardInv, NEW h \in Routines, CreateSnapshot(h)
  PROVE  (Chained /\ HistoryChainsBarOverlap)'
<1>0. /\ BoardShaped /\ StampsBounded /\ RecordsAlone /\ RowsPrecede
      /\ HistoryChainsBarOverlap
  BY DEF BoardInv, Chained
<1>1. PICK s \in Nat \ {0} :
        /\ s = Max(Stamps \cup {0}) + 1
        /\ \A r \in history : r.stamp < s
        /\ \A g \in Routines : Records(task[g]) => task[g].stamp < s
  BY <1>0, NewStamp
<1>2. PICK lone \in BOOLEAN : lone = (Recording = {})
  OBVIOUS
<1>3. UNCHANGED <<entries, version, history>> /\ task[h].at = "snapshot"
  BY DEF CreateSnapshot, Doing
<1>4. task' = [g \in Routines |->
                IF g = h THEN [task[h] EXCEPT !.at = "prior", !.stamp = s, !.alone = lone]
                ELSE [task[g] EXCEPT !.alone = task[g].alone /\ g \notin Recording]]
  BY <1>1, <1>2 DEF CreateSnapshot, Stamps
<1>5. task[h] \in RebuildDoc
  BY <1>0 DEF BoardShaped
<1>6. /\ task'[h] \in RebuildDoc /\ task'[h].at = "prior" /\ task'[h].stamp = s
      /\ task'[h].alone = lone /\ task'[h].entries = task[h].entries
  <2>1. task'[h] = [task[h] EXCEPT !.at = "prior", !.stamp = s, !.alone = lone]
    BY <1>4
  <2> QED
    BY <1>5, <2>1 DEF RebuildDoc, CallSteps
<1>7. ASSUME NEW g \in Routines \ {h}
      PROVE  /\ task'[g] \in RebuildDoc /\ task'[g].at = task[g].at
             /\ task'[g].stamp = task[g].stamp /\ task'[g].entry = task[g].entry
             /\ task'[g].entries = task[g].entries
             /\ Records(task[g]) => task'[g].alone = FALSE
  <2>1. PICK a \in BOOLEAN : a = (task[g].alone /\ g \notin Recording)
    OBVIOUS
  <2>2. task'[g] = [task[g] EXCEPT !.alone = a]
    BY <1>4, <2>1
  <2>3. task[g] \in RebuildDoc
    BY <1>0 DEF BoardShaped
  <2>4. Records(task[g]) => a = FALSE
    BY <2>1 DEF Recording, Records
  <2> QED
    BY <2>2, <2>3, <2>4 DEF RebuildDoc
<1>8. BoardShaped'
  <2>1. task' \in [Routines -> RebuildDoc]
    BY <1>4, <1>6, <1>7
  <2>2. \A g \in Routines : /\ task'[g].entries \subseteq entries
                            /\ task'[g].at = "commit" => task'[g].entry \in Entries
                            /\ task'[g].at = "register" => task'[g].entry \in entries
                            /\ Records(task'[g]) => task'[g].stamp # 0
    BY <1>0, <1>6, <1>7 DEF BoardShaped, Records
  <2> QED
    BY <1>0, <1>3, <2>1, <2>2 DEF BoardShaped, Records
<1>9. StampsBounded'
  <2>1. PICK n \in Nat : /\ \A r \in history : r.stamp <= n
                         /\ \A g \in Routines : task[g].stamp <= n
    BY <1>0 DEF StampsBounded
  <2>2. /\ n + s \in Nat
        /\ \A k \in Nat : k <= n => k <= n + s
        /\ s <= n + s
    OBVIOUS
  <2>3. /\ \A r \in history : r.stamp \in Nat
        /\ \A g \in Routines : task[g].stamp \in Nat
    BY <1>0 DEF BoardShaped, HistoryRow, RebuildDoc
  <2>4. \A g \in Routines : task'[g].stamp <= n + s
    BY <1>6, <1>7, <2>1, <2>2, <2>3
  <2> QED
    BY <1>3, <2>1, <2>2, <2>3, <2>4 DEF StampsBounded
<1>10. RecordsAlone'
  <2> SUFFICES ASSUME NEW f \in Routines, Records(task'[f]), task'[f].alone
               PROVE  /\ \A g \in Routines : Records(task'[g]) => g = f
                      /\ \A r \in history : r.stamp < task'[f].stamp
                      /\ task'[f].at # "append"
    BY <1>3 DEF RecordsAlone, Records
  <2>1. f = h
    BY <1>7 DEF Records
  <2>2. \A g \in Routines : ~ Records(task[g])
    BY <1>2, <1>6, <2>1 DEF Recording, Records
  <2>3. \A g \in Routines : Records(task'[g]) => g = f
    BY <1>7, <2>1, <2>2 DEF Records
  <2> QED
    BY <1>1, <1>6, <2>1, <2>3
<1>11. RowsPrecede'
  <2>1. ASSUME NEW g \in Routines \ {h}, NEW r \in history, Records(task'[g]), r.alone
        PROVE  r.stamp < task'[g].stamp
    BY <1>0, <1>7, <2>1 DEF RowsPrecede, Records
  <2>2. \A r \in history : r.stamp < task'[h].stamp
    BY <1>1, <1>6
  <2> QED
    BY <1>3, <2>1, <2>2 DEF RowsPrecede, Records
<1>12. HistoryChainsBarOverlap'
  BY <1>0, <1>3 DEF HistoryChainsBarOverlap, RowsOf
<1> QED
  BY <1>8, <1>9, <1>10, <1>11, <1>12 DEF Chained

LEMMA LatestIsRow ==
  ASSUME BoardShaped, StampsBounded, NEW e, RowsOf(e) # {}
  PROVE  Latest(RowsOf(e)) \in history
<1> DEFINE S == {r.stamp : r \in RowsOf(e)}
<1>1. PICK n \in Nat : \A r \in history : r.stamp <= n
  BY DEF StampsBounded
<1>2. \A r \in RowsOf(e) : r \in history /\ r.stamp \in Nat
  BY DEF BoardShaped, RowsOf, HistoryRow
<1>3. S \in SUBSET Nat /\ S # {} /\ \A s \in S : s <= n
  BY <1>1, <1>2
<1>4. PICK z \in S : \A s \in S : s <= z
  BY <1>3, Greatest
<1>5. \E r \in RowsOf(e) : \A q \in RowsOf(e) : q.stamp <= r.stamp
  BY <1>4
<1>6. Latest(RowsOf(e)) \in RowsOf(e)
  BY <1>5 DEF Latest
<1> QED
  BY <1>2, <1>6

LEMMA PriorStep ==
  ASSUME BoardInv, NEW h \in Routines, ReadPrior(h)
  PROVE  (Chained /\ HistoryChainsBarOverlap)'
<1>0. /\ BoardShaped /\ StampsBounded /\ RecordsAlone /\ RowsPrecede
      /\ HistoryChainsBarOverlap
  BY DEF BoardInv, Chained
<1> DEFINE prior == [e \in Entries |-> IF e \in task[h].entries /\ RowsOf(e) # {}
                                       THEN Latest(RowsOf(e)).placing ELSE None]
           c == [task[h] EXCEPT !.at = "append", !.prior = prior]
<1>1. prior \in [Entries -> Placing \cup {None}]
  <2>1. ASSUME NEW e \in Entries, RowsOf(e) # {}
        PROVE  Latest(RowsOf(e)).placing \in Placing
    BY <1>0, <2>1, LatestIsRow DEF BoardShaped, HistoryRow
  <2> QED
    BY <2>1
<1>2. \A e \in task[h].entries : prior[e] = Found(RowsOf(e))
  BY <1>0 DEF Found, BoardShaped, RebuildDoc
<1>3. task[h] \in RebuildDoc /\ task[h].at = "prior"
  BY <1>0 DEF BoardShaped, ReadPrior, Doing
<1> HIDE DEF prior
<1>4. /\ c \in RebuildDoc /\ c.at = "append" /\ c.prior = prior /\ c.stamp = task[h].stamp
      /\ c.entries = task[h].entries /\ c.alone = task[h].alone
  BY <1>1, <1>3 DEF RebuildDoc, CallSteps
<1>5. Becomes(h, c) /\ UNCHANGED <<entries, version, history>>
  BY DEF ReadPrior, Becomes, prior
<1> HIDE DEF c
<1>6. /\ task' \in [Routines -> RebuildDoc] /\ task'[h] = c
      /\ \A g \in Routines \ {h} : task'[g] = task[g]
  BY <1>0, <1>4, <1>5, Became
<1>7. BoardShaped'
  BY <1>0, <1>3, <1>4, <1>5, <1>6 DEF BoardShaped, Records
<1>8. StampsBounded'
  <2>1. \A g \in Routines : task'[g].stamp = task[g].stamp
    BY <1>4, <1>6
  <2> QED
    BY <1>0, <1>5, <2>1 DEF StampsBounded
<1>9. \A g \in Routines : /\ Records(task'[g]) <=> Records(task[g])
                          /\ task'[g].alone = task[g].alone
                          /\ task'[g].stamp = task[g].stamp
  BY <1>3, <1>4, <1>6 DEF Records
<1>10. \A e : RowsOf(e)' = RowsOf(e)
  BY <1>5 DEF RowsOf
<1>11. RecordsAlone'
  <2> SUFFICES ASSUME NEW f \in Routines, Records(task'[f]), task'[f].alone
               PROVE  /\ \A g \in Routines : Records(task'[g]) => g = f
                      /\ \A r \in history : r.stamp < task'[f].stamp
                      /\ task'[f].at = "append" =>
                           \A e \in task'[f].entries :
                             task'[f].prior[e] = Found(RowsOf(e))
    BY <1>5, <1>10 DEF RecordsAlone, Found
  <2>1. Records(task[f]) /\ task[f].alone
    BY <1>9
  <2>2. f # h => task'[f] = task[f]
    BY <1>6
  <2> QED
    BY <1>0, <1>2, <1>4, <1>6, <1>9, <2>1, <2>2 DEF RecordsAlone
<1>12. RowsPrecede'
  BY <1>0, <1>5, <1>9 DEF RowsPrecede
<1>13. HistoryChainsBarOverlap'
  BY <1>0, <1>5, <1>10 DEF HistoryChainsBarOverlap
<1> QED
  BY <1>7, <1>8, <1>11, <1>12, <1>13 DEF Chained

LEMMA NoTaskFits ==
  NoTask \in RebuildDoc /\ 1 \in DOMAIN Totals
<1>1. 1 \in DOMAIN Totals
  BY LeaderboardAssumption
<1>2. 0 \in 0..NumEntries
  BY LeaderboardAssumption
<1> QED
  BY <1>1, <1>2 DEF NoTask, RebuildDoc, CallSteps

(* A rank is the number of an entry, of as many as there are.              *)
LEMMA RankIsPlace ==
  ASSUME NumEntries \in Nat, NEW among \in SUBSET Entries, NEW e \in among,
         NEW v \in DOMAIN Totals, Totals \in Seq([Entries -> Int])
  PROVE  RankOf(e, among, v) \in Entries
<1> DEFINE Better == {f \in among : \/ Totals[v][f] > Totals[v][e]
                                    \/ Totals[v][f] = Totals[v][e] /\ f < e}
<1>1. IsFiniteSet(Entries) /\ Cardinality(Entries) = NumEntries
  <2>1. /\ IsFiniteSet(1..NumEntries)
        /\ Cardinality(1..NumEntries) = IF 1 > NumEntries THEN 0 ELSE NumEntries - 1 + 1
    BY FS_Interval
  <2> QED
    BY <2>1 DEF Entries
<1>2. /\ IsFiniteSet(Entries \ {e})
      /\ Cardinality(Entries \ {e}) = NumEntries - 1
  BY <1>1, FS_RemoveElement
<1>3. Better \subseteq Entries \ {e}
  <2> SUFFICES ASSUME e \in Better PROVE FALSE
    OBVIOUS
  <2>1. e \in Entries /\ Totals[v] \in [Entries -> Int]
    OBVIOUS
  <2>2. Totals[v][e] \in Int
    BY <2>1
  <2>3. e \in Nat
    BY <2>1 DEF Entries
  <2> QED
    BY <2>2, <2>3
<1>4. IsFiniteSet(Better) /\ Cardinality(Better) <= NumEntries - 1
  BY <1>2, <1>3, FS_Subset
<1>5. PICK k \in Nat : k = Cardinality(Better)
  BY <1>4, FS_CardinalityType
<1>6. RankOf(e, among, v) = 1 + k
  BY <1>5 DEF RankOf
<1>7. k <= NumEntries - 1
  BY <1>4, <1>5
<1> QED
  BY <1>6, <1>7 DEF Entries

LEMMA AppendStep ==
  ASSUME BoardInv, NEW h \in Routines, AppendHistory(h)
  PROVE  (Chained /\ HistoryChainsBarOverlap)'
<1>0. /\ BoardShaped /\ StampsBounded /\ RecordsAlone /\ RowsPrecede
      /\ HistoryChainsBarOverlap
  BY DEF BoardInv, Chained
<1> DEFINE c == task[h]
           placing(e) == <<RankOf(e, c.entries, c.seen), Totals[c.seen][e]>>
           row(e) == [entry |-> e, stamp |-> c.stamp, placing |-> placing(e),
                      previous |-> c.prior[e], alone |-> c.alone]
           new == {row(e) : e \in {f \in c.entries : c.prior[f] # placing(f)}}
<1>1. /\ c \in RebuildDoc /\ c.at = "append" /\ Records(c)
      /\ c.entries \subseteq entries /\ c.stamp \in Nat \ {0}
      /\ c.entries \subseteq Entries
  BY <1>0 DEF BoardShaped, AppendHistory, Doing, RebuildDoc, Records
<1>2. /\ history' = history \cup new /\ Becomes(h, NoTask)
      /\ UNCHANGED <<entries, version>>
  BY DEF AppendHistory, TaskEnds, Becomes
<1>3. ASSUME NEW e \in c.entries
      PROVE  row(e) \in HistoryRow
  <2>1. RankOf(e, c.entries, c.seen) \in Entries
    BY LeaderboardAssumption, <1>1, RankIsPlace DEF RebuildDoc
  <2>2. Totals[c.seen][e] \in Int
    BY LeaderboardAssumption, <1>1 DEF RebuildDoc
  <2>3. placing(e) \in Placing
    BY <2>1, <2>2 DEF Placing
  <2>4. c.prior[e] \in Placing \cup {None} /\ c.alone \in BOOLEAN /\ e \in Entries
    BY <1>1 DEF RebuildDoc
  <2> HIDE DEF placing
  <2> QED
    BY <1>1, <2>3, <2>4 DEF HistoryRow
<1>4. \A r \in new : /\ r \in HistoryRow /\ r.entry \in c.entries /\ r.stamp = c.stamp
                     /\ r.previous = c.prior[r.entry] /\ r.alone = c.alone
  <2>1. ASSUME NEW e \in c.entries
        PROVE  /\ row(e).entry = e /\ row(e).stamp = c.stamp
               /\ row(e).previous = c.prior[e] /\ row(e).alone = c.alone
    OBVIOUS
  <2> HIDE DEF row
  <2> QED
    BY <1>3, <2>1
<1> HIDE DEF new, c
<1>5. NoTask \in RebuildDoc /\ NoTask.at = "idle" /\ NoTask.stamp = 0 /\ NoTask.entries = {}
  BY NoTaskFits DEF NoTask
<1>6. /\ task' \in [Routines -> RebuildDoc] /\ task'[h] = NoTask
      /\ \A g \in Routines \ {h} : task'[g] = task[g]
  BY <1>0, <1>2, <1>5, Became
<1>7. BoardShaped'
  <2>1. history' \subseteq HistoryRow /\ \A r \in history' : r.entry \in entries
    BY <1>0, <1>1, <1>2, <1>4 DEF BoardShaped
  <2>2. \A g \in Routines : /\ task'[g].entries \subseteq entries
                            /\ task'[g].at = "commit" => task'[g].entry \in Entries
                            /\ task'[g].at = "register" => task'[g].entry \in entries
                            /\ Records(task'[g]) => task'[g].stamp # 0
    BY <1>0, <1>5, <1>6 DEF BoardShaped, Records
  <2> QED
    BY <1>0, <1>2, <1>6, <2>1, <2>2 DEF BoardShaped, Records
<1>8. StampsBounded'
  <2>1. PICK n \in Nat : /\ \A r \in history : r.stamp <= n
                         /\ \A g \in Routines : task[g].stamp <= n
    BY <1>0 DEF StampsBounded
  <2>2. \A r \in history' : r.stamp <= n
    BY <1>2, <1>4, <2>1 DEF c
  <2>3. \A g \in Routines : task'[g].stamp <= n
    BY <1>5, <1>6, <2>1
  <2> QED
    BY <2>1, <2>2, <2>3 DEF StampsBounded
<1>9. ASSUME NEW f \in Routines, Records(task'[f])
      PROVE  f # h /\ task'[f] = task[f] /\ Records(task[f])
  BY <1>5, <1>6, <1>9 DEF Records
<1>10. RecordsAlone'
  <2> SUFFICES ASSUME NEW f \in Routines, Records(task'[f]), task'[f].alone PROVE FALSE
    BY DEF RecordsAlone, Records
  <2>1. f # h /\ Records(task[f]) /\ task[f].alone
    BY <1>9
  <2> QED
    BY <1>0, <1>1, <2>1 DEF RecordsAlone, c
<1>11. RowsPrecede'
  <2> SUFFICES ASSUME NEW f \in Routines, NEW r \in history', Records(task'[f]), r.alone
               PROVE  r.stamp < task'[f].stamp
    BY DEF RowsPrecede, Records
  <2>1. f # h /\ Records(task[f]) /\ task'[f] = task[f]
    BY <1>9
  <2>2. CASE r \in history
    BY <1>0, <2>1, <2>2 DEF RowsPrecede
  <2>3. CASE r \in new
    BY <1>0, <1>1, <1>4, <2>1, <2>3 DEF RecordsAlone, c
  <2> QED
    BY <1>2, <2>2, <2>3
<1>12. HistoryChainsBarOverlap'
  <2> DEFINE Before(r, rs) == {q \in rs : q.entry = r.entry /\ q.stamp < r.stamp}
  <2>1. ASSUME NEW r \in history', r.alone
        PROVE  r.previous = Found(Before(r, history'))
    <3>1. CASE r \in history
      <4>1. \A q \in new : ~ (q.stamp < r.stamp)
        <5>1. r.stamp < c.stamp /\ r.stamp \in Nat /\ c.stamp \in Nat
          BY <1>0, <1>1, <2>1, <3>1 DEF RowsPrecede, BoardShaped, HistoryRow, c
        <5> QED
          BY <1>4, <5>1
      <4>2. Before(r, history') = Before(r, history)
        BY <1>2, <4>1
      <4>3. Before(r, history) = {q \in RowsOf(r.entry) : q.stamp < r.stamp}
        BY DEF RowsOf
      <4>4. r.previous = Found({q \in RowsOf(r.entry) : q.stamp < r.stamp})
        BY <1>0, <2>1, <3>1 DEF HistoryChainsBarOverlap, Found
      <4> QED
        BY <4>2, <4>3, <4>4
    <3>2. CASE r \in new
      <4>1. c.alone /\ r.stamp = c.stamp /\ r.entry \in c.entries
            /\ r.previous = c.prior[r.entry]
        BY <1>4, <2>1, <3>2
      <4>2. \A q \in history : q.stamp < c.stamp
        BY <1>0, <1>1, <4>1 DEF RecordsAlone, c
      <4>3. \A q \in new : ~ (q.stamp < r.stamp)
        <5>1. PICK n \in Nat : n = c.stamp
          BY <1>1
        <5>2. \A q \in new : q.stamp = n
          BY <1>4, <5>1
        <5> QED
          BY <4>1, <5>1, <5>2
      <4>4. Before(r, history') = RowsOf(r.entry)
        BY <1>2, <4>1, <4>2, <4>3 DEF RowsOf
      <4>5. c.prior[r.entry] = Found(RowsOf(r.entry))
        BY <1>0, <1>1, <4>1 DEF RecordsAlone, c
      <4> QED
        BY <4>1, <4>4, <4>5
    <3> QED
      BY <1>2, <3>1, <3>2
  <2>2. \A r : Before(r, history') = {q \in RowsOf(r.entry)' : q.stamp < r.stamp}
    BY DEF RowsOf
  <2> QED
    BY <2>1, <2>2 DEF HistoryChainsBarOverlap, RowsOf, Found
<1> QED
  BY <1>7, <1>8, <1>10, <1>11, <1>12 DEF Chained

-----------------------------------------------------------------------------
(* The other steps of a handler, and those of nobody.                      *)
LEMMA BoardHandlerStep ==
  ASSUME BoardInv, NEW h \in Routines,
         \/ JoinPreflight(h) \/ JoinStep(h) \/ TakeRefresh(h) \/ HealEmptyBoard(h)
         \/ RebuildStep(h) \/ HandlerFails(h)
  PROVE  (Chained /\ HistoryChainsBarOverlap)'
<1>0. /\ BoardShaped /\ version \in DOMAIN Totals /\ entries \subseteq Entries
      /\ task[h] \in RebuildDoc /\ task[h].entries \subseteq entries
      /\ task[h].at = "commit" => task[h].entry \in Entries
  BY DEF BoardInv, Chained, BoardShaped
<1>1. /\ NoTask \in RebuildDoc /\ 1 \in DOMAIN Totals
      /\ ~Records(NoTask) /\ NoTask.stamp = 0 /\ NoTask.entries = {} /\ NoTask.at = "idle"
  BY NoTaskFits DEF NoTask, Records
<1>2. CASE /\ Becomes(h, NoTask) /\ UNCHANGED <<history, version>>
           /\ entries' = entries
  BY <1>0, <1>1, <1>2, QuietStep
<1>3. CASE JoinPreflight(h)
  <2>1. PICK e \in Entries :
          Becomes(h, [NoTask EXCEPT !.at = "commit", !.op = "join", !.entry = e,
                                    !.seen = version])
    BY <1>3 DEF JoinPreflight, Becomes
  <2> DEFINE c == [NoTask EXCEPT !.at = "commit", !.op = "join", !.entry = e,
                                 !.seen = version]
  <2>2. /\ c \in RebuildDoc /\ ~Records(c) /\ c.stamp = 0 /\ c.entries = {}
        /\ c.at = "commit" /\ c.entry \in Entries
    <3>1. e \in 0..NumEntries
      BY LeaderboardAssumption DEF Entries
    <3> QED
      BY <1>0, <1>1, <3>1 DEF NoTask, RebuildDoc, CallSteps, Records
  <2>3. UNCHANGED <<history, version, entries>>
    BY <1>3 DEF JoinPreflight
  <2>4. Becomes(h, c)
    BY <2>1
  <2> HIDE DEF c
  <2> QED
    BY <1>0, <2>2, <2>3, <2>4, QuietStep
<1>4. CASE JoinCommit(h)
  <2>1. CASE TaskEnds(h) /\ UNCHANGED entries
    <3>1. Becomes(h, NoTask) /\ UNCHANGED <<history, version>>
      BY <1>4, <2>1 DEF JoinCommit, TaskEnds, Becomes
    <3> QED
      BY <1>2, <2>1, <3>1
  <2>2. CASE entries' = entries \cup {task[h].entry} /\ GoOn(h, "register")
    <3> DEFINE c == [task[h] EXCEPT !.at = "register"]
    <3>1. /\ c \in RebuildDoc /\ ~Records(c) /\ c.stamp = task[h].stamp
          /\ c.entries = task[h].entries /\ c.entry = task[h].entry /\ c.at = "register"
      BY <1>0 DEF RebuildDoc, CallSteps, Records
    <3>2. Becomes(h, c)
      BY <2>2 DEF GoOn, Becomes
    <3>3. UNCHANGED <<history, version>> /\ task[h].entry \in Entries
      BY <1>0, <1>4 DEF JoinCommit, Doing
    <3> HIDE DEF c
    <3> QED
      BY <1>0, <2>2, <3>1, <3>2, <3>3, QuietStep
  <2> QED
    BY <1>4, <2>1, <2>2 DEF JoinCommit
<1>5. CASE RegisterEntry(h)
  BY <1>2, <1>5 DEF RegisterEntry, TaskEnds, Becomes
<1>6. ASSUME NEW op \in {"refresh", "page"}, StartRebuild(h, op),
             UNCHANGED <<history, version, entries>>
      PROVE  (Chained /\ HistoryChainsBarOverlap)'
  <2> DEFINE c == [NoTask EXCEPT !.at = "teams", !.op = op, !.entries = entries]
  <2>1. /\ c \in RebuildDoc /\ ~Records(c) /\ c.stamp = 0 /\ c.entries = entries
        /\ c.at = "teams"
    BY <1>0, <1>1 DEF NoTask, RebuildDoc, CallSteps, Records
  <2>2. Becomes(h, c)
    BY <1>6 DEF StartRebuild, Becomes
  <2> HIDE DEF c
  <2> QED
    BY <1>0, <1>6, <2>1, <2>2, QuietStep
<1>7. CASE TakeRefresh(h) \/ HealEmptyBoard(h)
  BY <1>6, <1>7 DEF TakeRefresh, HealEmptyBoard
<1>8. CASE ReadTotals(h)
  <2> DEFINE c == [task[h] EXCEPT !.at = "redis", !.seen = version]
  <2>1. /\ c \in RebuildDoc /\ ~Records(c) /\ c.stamp = task[h].stamp
        /\ c.entries = task[h].entries /\ c.at = "redis"
    BY <1>0 DEF RebuildDoc, CallSteps, Records
  <2>2. Becomes(h, c) /\ UNCHANGED <<history, version, entries>>
    BY <1>8 DEF ReadTotals, Becomes
  <2> HIDE DEF c
  <2> QED
    BY <1>0, <2>1, <2>2, QuietStep
<1>9. CASE RebuildBoard(h)
  <2>1. UNCHANGED <<history, version, entries>>
    BY <1>9 DEF RebuildBoard
  <2>2. CASE TaskEnds(h)
    BY <1>2, <2>1, <2>2 DEF TaskEnds, Becomes
  <2>3. CASE GoOn(h, "snapshot")
    <3> DEFINE c == [task[h] EXCEPT !.at = "snapshot"]
    <3>1. /\ c \in RebuildDoc /\ ~Records(c) /\ c.stamp = task[h].stamp
          /\ c.entries = task[h].entries /\ c.at = "snapshot"
      BY <1>0 DEF RebuildDoc, CallSteps, Records
    <3>2. Becomes(h, c)
      BY <2>3 DEF GoOn, Becomes
    <3> HIDE DEF c
    <3> QED
      BY <1>0, <2>1, <3>1, <3>2, QuietStep
  <2> QED
    BY <1>9, <2>2, <2>3 DEF RebuildBoard
<1>10. CASE HandlerFails(h)
  BY <1>2, <1>10 DEF HandlerFails, TaskEnds, Becomes
<1> QED
  BY <1>3, <1>4, <1>5, <1>7, <1>8, <1>9, <1>10, SnapshotStep, PriorStep, AppendStep
  DEF JoinStep, RebuildStep

(* The status, the sorted set and the counts.                              *)
LEMMA HeldStep ==
  ASSUME BoardHeld, BoardShaped, [BoardNext]_boardVars
  PROVE  BoardHeld'
<1>0. /\ MaxRefreshes \in Nat /\ MaxOverlaps \in Nat /\ MaxFaults \in Nat
      /\ Totals \in Seq([Entries -> Int])
      /\ BoardHeld
  BY LeaderboardAssumption
<1>1. ASSUME NEW v \in DOMAIN Totals, NEW e \in Entries PROVE Totals[v][e] \in Int
  BY <1>0
<1>2. Enqueued => refreshes' \in 0..MaxRefreshes
  BY <1>0 DEF BoardHeld, Enqueued
<1>3. status' \in Statuses
  <2>1. CASE TransitionStatus
    BY <2>1 DEF TransitionStatus, Statuses
  <2>2. CASE status' \in {status, "FULL"}
    BY <2>2 DEF BoardHeld, Statuses
  <2>3. ASSUME NEW h \in Routines, JoinPreflight(h) \/ JoinStep(h) \/ TakeRefresh(h)
                                   \/ HealEmptyBoard(h) \/ RebuildStep(h) \/ HandlerFails(h)
        PROVE  status' \in {status, "FULL"}
    BY <2>3 DEF JoinPreflight, JoinStep, JoinCommit, RegisterEntry, TakeRefresh,
           HealEmptyBoard, RebuildStep, ReadTotals, RebuildBoard, CreateSnapshot, ReadPrior,
           AppendHistory, HandlerFails
  <2>4. Rescored \/ SnapshotTick
        \/ BoardLost \/ UNCHANGED boardVars
          => status' = status
    BY DEF Rescored, SnapshotTick, BoardLost, boardVars
  <2> QED
    BY <2>1, <2>2, <2>3, <2>4 DEF BoardNext
<1>4. refreshes' \in 0..MaxRefreshes
  <2>1. CASE Enqueued
    BY <1>2, <2>1
  <2>2. ASSUME NEW h \in Routines, TakeRefresh(h)
        PROVE  refreshes' \in 0..MaxRefreshes
    BY <1>0, <2>2 DEF BoardHeld, TakeRefresh
  <2>3. CASE UNCHANGED refreshes
    BY <1>0, <2>3 DEF BoardHeld
  <2>4. ASSUME NEW h \in Routines, JoinPreflight(h) \/ JoinStep(h) \/ HealEmptyBoard(h)
                                   \/ RebuildStep(h)
        PROVE  refreshes' = refreshes
    BY <2>4 DEF JoinPreflight, JoinStep, JoinCommit, RegisterEntry, HealEmptyBoard,
           RebuildStep, ReadTotals, RebuildBoard, CreateSnapshot, ReadPrior, AppendHistory
  <2>5. ASSUME NEW h \in Routines, HandlerFails(h)
        PROVE  Enqueued \/ refreshes' = refreshes
    BY <2>5 DEF HandlerFails
  <2>6. Rescored \/ TransitionStatus \/ SnapshotTick \/ BoardLost \/ UNCHANGED boardVars
          => Enqueued \/ refreshes' = refreshes
    BY DEF Rescored, TransitionStatus, SnapshotTick, BoardLost, boardVars
  <2> QED
    BY <2>1, <2>2, <2>3, <2>4, <2>5, <2>6 DEF BoardNext
<1>5. overlaps' \in 0..MaxOverlaps /\ failures' \in 0..MaxFaults
  <2>1. CASE UNCHANGED <<overlaps, failures>>
    BY <1>0, <2>1 DEF BoardHeld
  <2>2. CASE UNCHANGED overlaps /\ failures < MaxFaults /\ failures' = failures + 1
    BY <1>0, <2>2 DEF BoardHeld
  <2>3. CASE UNCHANGED failures /\ overlaps < MaxOverlaps /\ overlaps' = overlaps + 1
    BY <1>0, <2>3 DEF BoardHeld
  <2>4. ASSUME NEW h \in Routines, NEW op, StartRebuild(h, op)
        PROVE  overlaps' = overlaps \/ (overlaps < MaxOverlaps /\ overlaps' = overlaps + 1)
    BY <2>4 DEF StartRebuild
  <2>5. ASSUME NEW h \in Routines, TakeRefresh(h) \/ HealEmptyBoard(h)
        PROVE  overlaps' \in 0..MaxOverlaps /\ failures' \in 0..MaxFaults
    BY <2>1, <2>3, <2>4, <2>5 DEF TakeRefresh, HealEmptyBoard
  <2> QED
    BY <2>1, <2>2, <2>5
    DEF BoardNext, JoinPreflight, JoinStep, JoinCommit, RegisterEntry, RebuildStep,
        ReadTotals,
        RebuildBoard, CreateSnapshot, ReadPrior, AppendHistory, HandlerFails, Rescored,
        TransitionStatus, SnapshotTick, BoardLost, boardVars
<1>6. DOMAIN board' \subseteq entries' /\ \A e \in DOMAIN board' : board'[e] \in Int
  <2>1. ASSUME NEW h \in Routines, RegisterEntry(h)
        PROVE  /\ DOMAIN board' \subseteq entries'
               /\ \A e \in DOMAIN board' : board'[e] \in Int
    <3>1. /\ task[h].entry \in entries /\ task[h].seen \in DOMAIN Totals
          /\ entries \subseteq Entries /\ entries' = entries
      BY <2>1 DEF BoardShaped, RebuildDoc, RegisterEntry, Doing
    <3>2. board' = [e \in DOMAIN board \cup {task[h].entry} |->
                      IF e = task[h].entry THEN Totals[task[h].seen][e] ELSE board[e]]
      BY <2>1 DEF RegisterEntry
    <3> QED
      BY <1>0, <1>1, <3>1, <3>2 DEF BoardHeld
  <2>2. ASSUME NEW h \in Routines, RebuildBoard(h)
        PROVE  /\ DOMAIN board' \subseteq entries'
               /\ \A e \in DOMAIN board' : board'[e] \in Int
    <3>1. /\ task[h].entries \subseteq entries /\ task[h].seen \in DOMAIN Totals
          /\ entries \subseteq Entries /\ entries' = entries
      BY <2>2 DEF BoardShaped, RebuildDoc, RebuildBoard
    <3>2. board' = [e \in task[h].entries |-> Totals[task[h].seen][e]]
      BY <2>2 DEF RebuildBoard
    <3> QED
      BY <1>1, <3>1, <3>2
  <2>3. ASSUME NEW h \in Routines, JoinCommit(h)
        PROVE  board' = board /\ entries \subseteq entries'
    BY <2>3 DEF JoinCommit
  <2>4. CASE BoardLost
    BY <2>4 DEF BoardLost
  <2>5. CASE board' = board /\ entries \subseteq entries'
    BY <1>0, <2>5 DEF BoardHeld
  <2> QED
    BY <2>1, <2>2, <2>3, <2>4, <2>5
    DEF BoardNext, JoinPreflight, JoinStep, TakeRefresh, HealEmptyBoard, RebuildStep,
        ReadTotals,
        CreateSnapshot, ReadPrior, AppendHistory, HandlerFails, Rescored, TransitionStatus,
        SnapshotTick, boardVars
<1> QED
  BY <1>3, <1>4, <1>5, <1>6 DEF BoardHeld

LEMMA BoardStarts ==
  ASSUME BoardInit
  PROVE  BoardInv
<1>1. NoTask \in RebuildDoc /\ 1 \in DOMAIN Totals
  BY NoTaskFits
<1>2. task \in [Routines -> RebuildDoc] /\ \A h \in Routines : task[h] = NoTask
  BY <1>1 DEF BoardInit
<1>3. /\ status = "OPEN" /\ entries = FirstEntries /\ version = 1 /\ history = {}
      /\ refreshes = 0 /\ overlaps = 0 /\ failures = 0
      /\ board = [e \in FirstEntries |-> Totals[1][e]]
  BY DEF BoardInit
<1>4. NoTask.entries = {} /\ NoTask.at = "idle" /\ NoTask.stamp = 0
  BY DEF NoTask
<1>5. BoardHeld
  <2>1. \A e \in FirstEntries : Totals[1][e] \in Int
    BY LeaderboardAssumption, <1>1
  <2> QED
    BY LeaderboardAssumption, <1>3, <2>1 DEF BoardHeld, Statuses
<1>6. BoardShaped /\ RecordsAlone /\ RowsPrecede
  BY LeaderboardAssumption, <1>1, <1>2, <1>3, <1>4
  DEF BoardShaped, RecordsAlone, RowsPrecede, Records
<1>7. StampsBounded
  <2>1. 0 \in Nat /\ \A h \in Routines : task[h].stamp <= 0
    BY <1>2, <1>4
  <2> QED
    BY <1>3, <2>1 DEF StampsBounded
<1>8. HistoryChainsBarOverlap
  BY <1>3 DEF HistoryChainsBarOverlap
<1> QED
  BY <1>5, <1>6, <1>7, <1>8 DEF BoardInv, Chained

LEMMA BoardStays ==
  ASSUME BoardInv, [BoardNext]_boardVars
  PROVE  BoardInv'
<1>1. BoardHeld'
  BY HeldStep DEF BoardInv, Chained
<1>2. CASE \E h \in Routines :
             \/ JoinPreflight(h) \/ JoinStep(h) \/ TakeRefresh(h) \/ HealEmptyBoard(h)
             \/ RebuildStep(h) \/ HandlerFails(h)
  BY <1>1, <1>2, BoardHandlerStep DEF BoardInv
<1>3. CASE Rescored \/ TransitionStatus \/ SnapshotTick \/ BoardLost \/ UNCHANGED boardVars
  <2>1. UNCHANGED <<task, history, entries>>
    BY <1>3 DEF Rescored, TransitionStatus, SnapshotTick, BoardLost, boardVars
  <2>2. version' \in DOMAIN Totals
    <3>1. version \in DOMAIN Totals /\ DOMAIN Totals = 1..Len(Totals) /\ Len(Totals) \in Nat
      BY LeaderboardAssumption DEF BoardInv, Chained, BoardShaped
    <3> QED
      BY <1>3, <3>1 DEF Rescored, TransitionStatus, SnapshotTick, BoardLost, boardVars
  <2> QED
    BY <1>1, <2>1, <2>2, StillStep DEF BoardInv
<1> QED
  BY <1>2, <1>3 DEF BoardNext

-----------------------------------------------------------------------------
(* The variables of Leaderboard keep their types (BoardTypeOK): the sorted *)
(* set, the history and the rebuilds speak of entries that have joined,    *)
(* and a rank is never beyond the number of entries.                       *)
THEOREM BoardTyped == BoardSpec => []BoardTypeOK
<1>1. BoardInit => BoardInv
  BY BoardStarts
<1>2. BoardInv /\ [BoardNext]_boardVars => BoardInv'
  BY BoardStays
<1>3. BoardInv => BoardTypeOK
  BY DEF BoardInv, Chained, BoardHeld, BoardShaped, HistoryRow, RebuildDoc, BoardTypeOK
<1> QED
  BY <1>1, <1>2, <1>3, PTL DEF BoardSpec

(* A row of rank_history starts where the row before it ended, whatever    *)
(* failed, unless the rebuild that wrote it recorded beside another one    *)
(* (HistoryChainsBarOverlap), for any number of handlers and entries.      *)
THEOREM HistoryIsChained == BoardSpec => []HistoryChainsBarOverlap
<1>1. BoardInit => BoardInv
  BY BoardStarts
<1>2. BoardInv /\ [BoardNext]_boardVars => BoardInv'
  BY BoardStays
<1>3. BoardInv => HistoryChainsBarOverlap
  BY DEF BoardInv
<1> QED
  BY <1>1, <1>2, <1>3, PTL DEF BoardSpec
=============================================================================
