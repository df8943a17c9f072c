------------------------------ MODULE Leaderboard ------------------------------
(***************************************************************************)
(* The leaderboard of one contest (leaderboard.service.ts and              *)
(* leaderboard-redis.ts): the sorted set in Redis, the history of ranks in *)
(* MongoDB, the rebuilds that write both from what they have read before,  *)
(* and the joins that add one entry.  A recomputation of the points is one *)
(* step here: MatchDay has it in detail.                                   *)
(*                                                                         *)
(* Entries are numbered in the order of their ids, which is the order in   *)
(* which the query of a rebuild returns them.  The page cache expires by   *)
(* itself and is left out.                                                 *)
(***************************************************************************)
EXTENDS Integers, FiniteSets, Sequences, FiniteSetsExt

CONSTANTS
  Routines,      \* requests and jobs that may be under way at a time
  NumEntries,    \* entries the contest has room for
  FirstEntries,  \* those of them that have joined at first
  Totals,        \* totalPoints of the team of each entry, in order of scoring
  MaxRefreshes,  \* bound: refresh jobs queued at a time
  MaxOverlaps,   \* bound: rebuilds started beside another one
  MaxFaults      \* bound: failures and crashes

Entries == 1..NumEntries

ASSUME LeaderboardAssumption ==
  /\ IsFiniteSet(Routines) /\ NumEntries \in Nat
  /\ FirstEntries \subseteq Entries /\ Totals \in Seq([Entries -> Int]) /\ Totals # <<>>
  /\ MaxRefreshes \in Nat \ {0} /\ MaxOverlaps \in Nat /\ MaxFaults \in Nat

VARIABLES
  status,     \* Contest.status
  entries,    \* entries that are ACTIVE or SETTLED
  version,    \* the element of Totals that fantasy_teams hold
  board,      \* the sorted set: points by entry
  history,    \* rank_history: a set of rows
  refreshes,  \* LEADERBOARD_REFRESH jobs queued
  task,       \* what each handler is doing
  overlaps,   \* rebuilds so far that started beside another one
  failures    \* failures so far

boardVars == <<status, entries, version, board, history, refreshes, task, overlaps, failures>>

Statuses == {"OPEN", "FULL", "LOCKED", "LIVE", "COMPLETED"}
RebuildSteps == {"teams", "redis", "snapshot", "prior", "append"}
None == <<>>   \* no prior row
Placing == Entries \X Int

(* prior: what a rebuild read of the history; alone: no other one has been *)
(* between its snapshot and its append since this one took its snapshot.   *)
NoTask == [at |-> "idle", op |-> "none", entry |-> 0, entries |-> {}, seen |-> 1,
           stamp |-> 0, prior |-> [e \in Entries |-> None], alone |-> TRUE]

BoardTypeOK ==
  /\ status \in Statuses /\ entries \subseteq Entries /\ version \in DOMAIN Totals
  /\ DOMAIN board \subseteq entries /\ \A e \in DOMAIN board : board[e] \in Int
  /\ \A r \in history :
       /\ r.entry \in entries /\ r.stamp \in Nat \ {0} /\ r.alone \in BOOLEAN
       /\ r.placing \in Placing /\ r.previous \in Placing \cup {None}
  /\ refreshes \in 0..MaxRefreshes
  /\ overlaps \in 0..MaxOverlaps /\ failures \in 0..MaxFaults
  /\ \A h \in Routines :
       /\ task[h].entry \in 0..NumEntries /\ task[h].entries \subseteq entries
       /\ task[h].seen \in DOMAIN Totals /\ task[h].stamp \in Nat
       /\ task[h].prior \in [Entries -> Placing \cup {None}]

BoardInit ==
  /\ status = "OPEN" /\ entries = FirstEntries /\ version = 1
  /\ board = [e \in FirstEntries |-> Totals[1][e]]
  /\ history = {} /\ refreshes = 0
  /\ task = [h \in Routines |-> NoTask]
  /\ overlaps = 0 /\ failures = 0

-----------------------------------------------------------------------------
Doing(h, step) == task[h].at = step
GoOn(h, step) == task' = [task EXCEPT ![h].at = step]
TaskEnds(h) == task' = [task EXCEPT ![h] = NoTask]

Rebuilding == {h \in Routines : task[h].at \in RebuildSteps}
Recording == {h \in Routines : task[h].at \in {"prior", "append"}}

(* enqueueLeaderboardRefresh *)
Enqueued == refreshes' = IF refreshes < MaxRefreshes THEN refreshes + 1 ELSE refreshes

(* The sort by points is stable. *)
RankOf(e, among, v) ==
  1 + Cardinality({f \in among : \/ Totals[v][f] > Totals[v][e]
                                 \/ Totals[v][f] = Totals[v][e] /\ f < e})

-----------------------------------------------------------------------------
(* Joins, as far as the board goes: the team is read, the transaction      *)
(* commits if the contest is OPEN, and the entry is registered with the    *)
(* points that were read.                                                  *)
JoinPreflight(h) ==
  /\ task[h] = NoTask /\ status = "OPEN"
  /\ \E e \in Entries \ entries :
       /\ \A g \in Routines : task[g].entry # e
       /\ task' = [task EXCEPT ![h] = [NoTask EXCEPT !.at = "commit", !.op = "join",
                                                     !.entry = e, !.seen = version]]
  /\ UNCHANGED <<status, entries, version, board, history, refreshes, overlaps, failures>>

JoinCommit(h) ==
  /\ Doing(h, "commit")
  /\ IF status = "OPEN"
     THEN /\ entries' = entries \cup {task[h].entry}
          /\ status' = IF entries' = Entries THEN "FULL" ELSE status
          /\ GoOn(h, "register")
     ELSE TaskEnds(h) /\ UNCHANGED <<entries, status>>
  /\ UNCHANGED <<version, board, history, refreshes, overlaps, failures>>

RegisterEntry(h) ==
  /\ Doing(h, "register")
  /\ board' = [e \in DOMAIN board \cup {task[h].entry} |->
                 IF e = task[h].entry THEN Totals[task[h].seen][e] ELSE board[e]]
  /\ TaskEnds(h)
  /\ UNCHANGED <<status, entries, version, history, refreshes, overlaps, failures>>

-----------------------------------------------------------------------------
(* rebuildForContest: reads the entries, ... *)
StartRebuild(h, op) ==
  /\ IF Rebuilding = {} THEN UNCHANGED overlaps
     ELSE overlaps < MaxOverlaps /\ overlaps' = overlaps + 1
  /\ task' = [task EXCEPT ![h] = [NoTask EXCEPT !.at = "teams", !.op = op,
                                                !.entries = entries]]

TakeRefresh(h) ==
  /\ task[h] = NoTask /\ refreshes > 0
  /\ refreshes' = refreshes - 1
  /\ StartRebuild(h, "refresh")
  /\ UNCHANGED <<status, entries, version, board, history, failures>>

(* A page that finds the sorted set empty but entries in MongoDB rebuilds. *)
HealEmptyBoard(h) ==
  /\ task[h] = NoTask
  /\ DOMAIN board = {} /\ entries # {}
  /\ StartRebuild(h, "page")
  /\ UNCHANGED <<status, entries, version, board, history, refreshes, failures>>

(* ... the totals of their teams, ... *)
ReadTotals(h) ==
  /\ Doing(h, "teams")
  /\ task' = [task EXCEPT ![h].at = "redis", ![h].seen = version]
  /\ UNCHANGED <<status, entries, version, board, history, refreshes, overlaps, failures>>

(* Seeded fault: entries keep the points they have in the sorted set. *)
AddMissing(h) ==
  /\ Doing(h, "redis")
  /\ board' = [e \in DOMAIN board \cup task[h].entries |->
                 IF e \in DOMAIN board THEN board[e] ELSE Totals[task[h].seen][e]]
  /\ IF task[h].entries = {} THEN TaskEnds(h) ELSE GoOn(h, "snapshot")
  /\ UNCHANGED <<status, entries, version, history, refreshes, overlaps, failures>>

(* ... replaces the sorted set (DEL and ZADD in a pipeline), ... *)
RebuildBoard(h) ==
  /\ Doing(h, "redis")
  /\ board' = [e \in task[h].entries |-> Totals[task[h].seen][e]]
  /\ IF task[h].entries = {} THEN TaskEnds(h) ELSE GoOn(h, "snapshot")
  /\ UNCHANGED <<status, entries, version, history, refreshes, overlaps, failures>>

(* ... takes a snapshot, whose time its rows will bear, ... *)
CreateSnapshot(h) ==
  LET stamps == {r.stamp : r \in history} \cup {task[g].stamp : g \in Recording} IN
  /\ Doing(h, "snapshot")
  /\ task' = [g \in Routines |->
       IF g = h THEN [task[h] EXCEPT !.at = "prior", !.stamp = Max(stamps \cup {0}) + 1,
                                     !.alone = Recording = {}]
       ELSE [task[g] EXCEPT !.alone = @ /\ g \notin Recording]]
  /\ UNCHANGED <<status, entries, version, board, history, refreshes, overlaps, failures>>

RowsOf(e) == {r \in history : r.entry = e}
Latest(rows) == CHOOSE r \in rows : \A q \in rows : q.stamp <= r.stamp

(* Seeded fault: the first row of an entry that is met counts. *)
ReadFirst(h) ==
  /\ Doing(h, "prior")
  /\ task' = [task EXCEPT ![h].at = "append", ![h].prior =
       [e \in Entries |->
          IF e \in task[h].entries /\ RowsOf(e) # {}
          THEN (CHOOSE r \in RowsOf(e) : \A q \in RowsOf(e) : r.stamp <= q.stamp).placing
          ELSE None]]
  /\ UNCHANGED <<status, entries, version, board, history, refreshes, overlaps, failures>>

(* ... reads the latest row of each entry, ... *)
ReadPrior(h) ==
  /\ Doing(h, "prior")
  /\ task' = [task EXCEPT ![h].at = "append", ![h].prior =
       [e \in Entries |-> IF e \in task[h].entries /\ RowsOf(e) # {}
                          THEN Latest(RowsOf(e)).placing ELSE None]]
  /\ UNCHANGED <<status, entries, version, board, history, refreshes, overlaps, failures>>

(* ... and appends a row for each entry whose rank or points differ.       *)
AppendHistory(h) ==
  LET c == task[h]
      placing(e) == <<RankOf(e, c.entries, c.seen), Totals[c.seen][e]>>
  IN
  /\ Doing(h, "append")
  /\ history' = history \cup
       {[entry |-> e, stamp |-> c.stamp, placing |-> placing(e),
         previous |-> c.prior[e], alone |-> c.alone] :
          e \in {f \in c.entries : c.prior[f] # placing(f)}}
  /\ TaskEnds(h)
  /\ UNCHANGED <<status, entries, version, board, refreshes, overlaps, failures>>

(* The periodic job: only contests that are LIVE or LOCKED. *)
SnapshotTick ==
  /\ status \in {"LIVE", "LOCKED"} /\ refreshes < MaxRefreshes
  /\ Enqueued
  /\ UNCHANGED <<status, entries, version, board, history, task, overlaps, failures>>

(* The commit of a recomputation, and the refresh its job queues then; a   *)
(* recomputation of an administrator queues none.                          *)
Rescored ==
  /\ version < Len(Totals) /\ version' = version + 1
  /\ Enqueued \/ UNCHANGED refreshes
  /\ UNCHANGED <<status, entries, board, history, task, overlaps, failures>>

(* contest.service.ts; cancellations are in ContestLifecycle. *)
TransitionStatus ==
  /\ \/ status = "OPEN" /\ status' \in {"FULL", "LOCKED", "LIVE"}
     \/ status = "FULL" /\ status' \in {"LOCKED", "LIVE"}
     \/ status = "LOCKED" /\ status' \in {"LIVE", "COMPLETED"}
     \/ status = "LIVE" /\ status' = "COMPLETED"
  /\ UNCHANGED <<entries, version, board, history, refreshes, task, overlaps, failures>>

-----------------------------------------------------------------------------
(* A refresh that fails, or whose process dies, is queued again until its  *)
(* attempts are used up; a request is not.  A failure of the upsert is     *)
(* swallowed by registerEntry.                                             *)
HandlerFails(h) ==
  /\ task[h] # NoTask
  /\ failures < MaxFaults /\ failures' = failures + 1
  /\ IF task[h].op = "refresh" THEN Enqueued \/ UNCHANGED refreshes
     ELSE UNCHANGED refreshes
  /\ TaskEnds(h)
  /\ UNCHANGED <<status, entries, version, board, history, overlaps>>

BoardLost ==
  /\ failures < MaxFaults /\ failures' = failures + 1
  /\ board' = [e \in {} |-> 0]
  /\ UNCHANGED <<status, entries, version, history, refreshes, task, overlaps>>

JoinStep(h) == JoinCommit(h) \/ RegisterEntry(h)
RebuildStep(h) ==
  \/ ReadTotals(h) \/ RebuildBoard(h) \/ CreateSnapshot(h) \/ ReadPrior(h) \/ AppendHistory(h)

BoardNext ==
  \/ \E h \in Routines :
       \/ JoinPreflight(h) \/ JoinStep(h) \/ TakeRefresh(h) \/ HealEmptyBoard(h)
       \/ RebuildStep(h) \/ HandlerFails(h)
  \/ Rescored \/ TransitionStatus \/ SnapshotTick \/ BoardLost

(* The workers and the scheduler of the repeatable job go on; nobody is    *)
(* obliged to ask for a page, to join, or to move the contest on.          *)
Fairness ==
  /\ \A h \in Routines : WF_boardVars(JoinStep(h) \/ TakeRefresh(h) \/ RebuildStep(h))
  /\ WF_boardVars(SnapshotTick)

BoardSpec == BoardInit /\ [][BoardNext]_boardVars /\ Fairness

-----------------------------------------------------------------------------
(* A row of the history starts where the row before it ended: its previous *)
(* rank and points are those of the latest of the entry's rows captured    *)
(* before it, or there are none.  This holds whatever failed, unless the   *)
(* rebuild that wrote the row recorded beside another one (concurrency 4,  *)
(* and pages and administrators who rebuild).                              *)
HistoryChainsBarOverlap ==
  \A r \in history : r.alone =>
    LET before == {q \in RowsOf(r.entry) : q.stamp < r.stamp}
    IN  r.previous = IF before = {} THEN None ELSE Latest(before).placing

Current == board = [e \in entries |-> Totals[version][e]]

(* "The next refresh will heal" (leaderboard-redis.ts): a contest that     *)
(* stays LIVE or LOCKED ends with a sorted set of all its entries with the *)
(* points of their teams, whatever joins, rebuilds and failures did to it, *)
(* since the periodic refresh goes on.                                     *)
BoardSettles == <>[](status \in {"LIVE", "LOCKED"}) => <>[]Current
=============================================================================
