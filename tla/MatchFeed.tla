------------------------------- MODULE MatchFeed -------------------------------
(***************************************************************************)
(* The ingestion of matches and live scores (sports-ingestion.service.ts): *)
(* each synchronisation asks the provider, then writes the matches it      *)
(* names and appends to their match_updates in one transaction, and drops  *)
(* the cached details.  Beside them: cancelMatch (sports-admin.service.ts),*)
(* the reconciliation of old statuses (match.repository.ts) and getMatch,  *)
(* which fills the cache and counts the view (match.service.ts).           *)
(*                                                                         *)
(* A transaction of MongoDB reads the snapshot of its first operation; it  *)
(* fails on a document that another call is writing or has written since,  *)
(* and after an insert that a unique index refuses; withTransaction then   *)
(* runs the callback again.  The matches exist; tournaments, teams and     *)
(* players, which have transactions of their own, are left out.            *)
(***************************************************************************)
EXTENDS Integers, Sequences

CONSTANTS
  Match,     \* the matches of the provider
  Place,     \* where the provider lists each
  Reported,  \* the status the provider gives a match, by its clock
  Call,      \* calls that may be under way
  MaxTime,   \* bound: the last window of the provider's clock
  MaxCalls   \* bound: calls begun

Statuses == {"UPCOMING", "LIVE", "COMPLETED", "CANCELLED"}
NoScore == 0
Time == 1..MaxTime

ASSUME FeedAssumption ==
  /\ Place \in [Match -> Nat]
  /\ \A m, n \in Match : Place[m] = Place[n] => m = n
  /\ MaxTime \in Nat \ {0} /\ MaxCalls \in Nat
  /\ Reported \in [Match -> [Time -> Statuses]]

VARIABLES
  time,    \* the clock of the provider, in windows of a live update
  match,   \* the matches: status and score
  feed,    \* match_updates, in the order of their commits
  cache,   \* cached details: nothing, or the match of some moment
  call,    \* the calls under way
  begun,   \* how many calls have begun
  told,    \* history: the status has come with a row, or from the start
  excused  \* history: matches whose cached detail nothing dropped

vars == <<time, match, feed, cache, call, begun, told, excused>>

Nothing == [status |-> "none"]

(* A row of match_updates: the window of a SCORE event, or 0, and the      *)
(* status then.                                                            *)
Row(seq, window, to) == [seq |-> seq, window |-> window, to |-> to]

Syncs == {"sync", "adminMatches", "refresh"}
Idle == [kind |-> "none", pc |-> "idle", at |-> 1, todo |-> {}, loaded |-> Nothing,
         open |-> FALSE, latest |-> [m \in Match |-> 0], stale |-> {},
         writes |-> <<>>, crossed |-> FALSE]

(* What a call has written and not committed is a sequence of records:     *)
(* the match, its new document, and the row appended, if there is one.     *)
Written(d) == {d.writes[i].m : i \in DOMAIN d.writes}
Locked(c, m) == \E d \in Call \ {c} : m \in Written(call[d])

\* sequence numbers as getLatestSequence finds them
LatestSequence(m) ==
  IF feed[m] = <<>> THEN 0
  ELSE CHOOSE s \in {feed[m][i].seq : i \in DOMAIN feed[m]} :
         \A i \in DOMAIN feed[m] : feed[m][i].seq <= s

(* A committed write to ms, seen by another call: its snapshot is stale    *)
(* there, and a detail it has loaded is one of before.                     *)
Seen(d, ms) ==
  [d EXCEPT !.stale = IF d.open THEN @ \cup ms ELSE @,
            !.crossed = @ \/ (d.pc = "fill" /\ d.todo \cap ms # {})]
Become(c, new, ms) ==
  call' = [d \in Call |-> IF d = c THEN new ELSE Seen(call[d], ms)]
Step(c, new) == call' = [call EXCEPT ![c] = new]

(***************************************************************************)
(* A synchronisation.                                                      *)
(***************************************************************************)
\* the matches a transaction works through: all, or those with live events
Batch(kind, at) ==
  {m \in Match : kind \in Syncs \/ Reported[m][at] = "LIVE"}

\* they are worked through in the order of the provider's list
IsNext(c, m) == m \in call[c].todo /\ \A n \in call[c].todo : Place[m] <= Place[n]

FetchUpdates(c, kind) ==
  /\ call[c].pc = "idle" /\ begun < MaxCalls
  /\ Batch(kind, time) # {}
  /\ begun' = begun + 1
  /\ Step(c, [Idle EXCEPT !.kind = kind, !.pc = "read", !.at = time,
                          !.todo = Batch(kind, time)])
  /\ UNCHANGED <<time, match, feed, cache, told, excused>>

\* findByExternalId, which is not given the session
ReadBefore(c, m) ==
  /\ call[c].pc = "read" /\ IsNext(c, m)
  /\ Step(c, [call[c] EXCEPT !.pc = "write", !.loaded = match[m]])
  /\ UNCHANGED <<time, match, feed, cache, begun, told, excused>>

(* upsertByExternalId sets all the provider says, and recordStatusTransition *)
(* appends a row if the status is not the one that was read before.        *)
SyncWrite(d, m, latest) ==
  LET status == Reported[m][d.at]
      score == IF status = "UPCOMING" THEN NoScore ELSE d.at
  IN [m |-> m, doc |-> [status |-> status, score |-> score],
      rows |-> IF d.loaded.status # status
               THEN <<Row(latest[m] + 1, 0, status)>> ELSE <<>>]

\* Seeded fault: the whole document is saved.
LiveWriteLoaded(d, m, latest) ==
  [m |-> m, doc |-> [d.loaded EXCEPT !.score = d.at],
   rows |-> <<Row(latest[m] + 1, d.at, match[m].status)>>]

(* A live event is appended and the document saved: lastUpdateAt always,   *)
(* and the score where the document that was loaded has scores.            *)
LiveWrite(d, m, latest) ==
  [m |-> m,
   doc |-> IF d.loaded.score # NoScore THEN [match[m] EXCEPT !.score = d.at] ELSE match[m],
   rows |-> <<Row(latest[m] + 1, d.at, match[m].status)>>]

\* the unique index on match, provider and event
Replay(d, m) ==
  d.kind = "live" /\ \E i \in DOMAIN feed[m] : feed[m][i].window = d.at

\* Seeded fault: live updates do not save the match.
ConflictsOfSyncs(c, m) ==
  \/ call[c].kind # "live" /\ (Locked(c, m) \/ m \in call[c].stale)
  \/ Replay(call[c], m)

Conflicts(c, m) ==
  Locked(c, m) \/ m \in call[c].stale \/ Replay(call[c], m)

Write(c, m) ==
  LET d == call[c]
      latest == IF d.open THEN d.latest ELSE [x \in Match |-> LatestSequence(x)]
  IN /\ d.pc = "write" /\ IsNext(c, m) /\ ~Conflicts(c, m)
     /\ Step(c, [d EXCEPT
          !.open = TRUE, !.latest = latest, !.todo = @ \ {m},
          !.pc = IF d.todo = {m} THEN "commit" ELSE "read",
          !.writes = Append(@, IF d.kind = "live" THEN LiveWrite(d, m, latest)
                               ELSE SyncWrite(d, m, latest))])
     /\ UNCHANGED <<time, match, feed, cache, begun, told, excused>>

Rolledback(d) == [d EXCEPT !.pc = "read", !.todo = Batch(d.kind, d.at), !.open = FALSE,
                           !.latest = Idle.latest, !.stale = {}, !.writes = <<>>]

\* the transaction is aborted and withTransaction runs the callback again
Abort(c, m) ==
  /\ call[c].pc = "write" /\ IsNext(c, m) /\ Conflicts(c, m)
  /\ Step(c, Rolledback(call[c]))
  /\ UNCHANGED <<time, match, feed, cache, begun, told, excused>>

\* withTransaction gives up after 120 seconds, or the process ends
GiveUp(c) ==
  /\ call[c].pc \in {"read", "write", "commit"}
  /\ Step(c, Idle)
  /\ UNCHANGED <<time, match, feed, cache, begun, told, excused>>

WriteOf(d, m) == d.writes[CHOOSE i \in DOMAIN d.writes : d.writes[i].m = m]

(* History: a status that changes without a row is untold; that is when    *)
(* the status that was read before is not the one that is overwritten.     *)
Told(d, m) ==
  \/ WriteOf(d, m).rows # <<>> /\ d.kind # "live"
  \/ told[m] /\ (d.kind = "live" \/ WriteOf(d, m).doc.status = match[m].status)

\* Seeded fault: live updates drop nothing.
AfterCommitOfSyncs(d) ==
  IF d.kind \in {"adminMatches", "live"} THEN Idle
  ELSE [Idle EXCEPT !.kind = d.kind,
                    !.pc = IF d.kind = "refresh" THEN "reconcile" ELSE "flush"]

AfterCommit(d) ==
  IF d.kind = "adminMatches" THEN Idle
  ELSE [Idle EXCEPT !.kind = d.kind,
                    !.pc = IF d.kind = "refresh" THEN "reconcile" ELSE "flush"]

Commit(c) ==
  LET d == call[c] IN
  /\ d.pc = "commit"
  /\ match' = [m \in Match |-> IF m \in Written(d) THEN WriteOf(d, m).doc ELSE match[m]]
  /\ feed' = [m \in Match |-> IF m \in Written(d) THEN feed[m] \o WriteOf(d, m).rows
                              ELSE feed[m]]
  /\ told' = [m \in Match |-> IF m \in Written(d) THEN Told(d, m) ELSE told[m]]
  /\ excused' = IF d.kind = "adminMatches" THEN excused \cup Written(d) ELSE excused
  /\ Become(c, AfterCommit(d), Written(d))
  /\ UNCHANGED <<time, cache, begun>>

(* reconcileStaleStatuses and retireMockLiveMatches close the matches      *)
(* whose hour has passed, without a row; which ones is open here.          *)
Reconcile(c) ==
  /\ call[c].pc = "reconcile"
  /\ \E ms \in SUBSET {m \in Match : match[m].status \in {"UPCOMING", "LIVE"}} :
       /\ \A m \in ms : ~Locked(c, m)
       /\ match' = [m \in Match |-> IF m \in ms THEN [match[m] EXCEPT !.status = "COMPLETED"]
                                    ELSE match[m]]
       /\ told' = [m \in Match |-> told[m] /\ m \notin ms]
       /\ Become(c, [call[c] EXCEPT !.pc = "flush"], ms)
  /\ UNCHANGED <<time, feed, cache, begun, excused>>

Dropped(d) == IF d.kind = "cancel" THEN d.todo ELSE Match

\* flushScope('matches'), or invalidateMatch
Flush(c) ==
  /\ call[c].pc = "flush"
  /\ cache' = [m \in Match |-> IF m \in Dropped(call[c]) THEN Nothing ELSE cache[m]]
  /\ excused' = excused \ Dropped(call[c])
  /\ Step(c, Idle)
  /\ UNCHANGED <<time, match, feed, begun, told>>

\* Redis refuses, which is logged, or the process ends before it
FlushFails(c) ==
  /\ call[c].pc \in {"reconcile", "flush"}
  /\ excused' = excused \cup Dropped(call[c])
  /\ Step(c, Idle)
  /\ UNCHANGED <<time, match, feed, cache, begun, told>>

(***************************************************************************)
(* The other writers, the readers, and the environment.                    *)
(***************************************************************************)
CancelMatch(c, m) ==
  /\ call[c].pc = "idle" /\ begun < MaxCalls /\ ~Locked(c, m)
  /\ begun' = begun + 1
  /\ match' = [match EXCEPT ![m].status = "CANCELLED"]
  /\ told' = [told EXCEPT ![m] = FALSE]
  /\ Become(c, [Idle EXCEPT !.kind = "cancel", !.pc = "flush", !.todo = {m}], {m})
  /\ UNCHANGED <<time, feed, cache, excused>>

\* getMatch: a hit is answered, a miss loads the match
GetMatch(c, m) ==
  /\ call[c].pc = "idle" /\ begun < MaxCalls
  /\ begun' = begun + 1
  /\ Step(c, [Idle EXCEPT !.kind = "view", !.todo = {m}, !.loaded = match[m],
                          !.pc = IF cache[m] = Nothing THEN "fill" ELSE "bump"])
  /\ UNCHANGED <<time, match, feed, cache, told, excused>>

Fill(c, m) ==
  /\ call[c].pc = "fill" /\ m \in call[c].todo
  /\ cache' = [cache EXCEPT ![m] = call[c].loaded]
  /\ excused' = IF call[c].crossed THEN excused \cup {m} ELSE excused
  /\ Step(c, [call[c] EXCEPT !.pc = "bump"])
  /\ UNCHANGED <<time, match, feed, begun, told>>

\* incrementViewCount waits for a transaction, and makes the others fail
IncrementViewCount(c, m) ==
  /\ call[c].pc = "bump" /\ m \in call[c].todo /\ ~Locked(c, m)
  /\ call' = [d \in Call |-> IF d = c THEN Idle
                ELSE [call[d] EXCEPT !.stale = IF call[d].open THEN @ \cup {m} ELSE @]]
  /\ UNCHANGED <<time, match, feed, cache, begun, told, excused>>

\* the time to live of a cached detail passes
Expire(m) ==
  /\ cache[m] # Nothing
  /\ cache' = [cache EXCEPT ![m] = Nothing] /\ excused' = excused \ {m}
  /\ UNCHANGED <<time, match, feed, call, begun, told>>

Tick ==
  /\ time < MaxTime /\ time' = time + 1
  /\ UNCHANGED <<match, feed, cache, call, begun, told, excused>>

Init ==
  /\ time = 1 /\ begun = 0
  /\ match = [m \in Match |-> [status |-> "UPCOMING", score |-> NoScore]]
  /\ feed = [m \in Match |-> <<>>] /\ cache = [m \in Match |-> Nothing]
  /\ call = [c \in Call |-> Idle]
  /\ told = [m \in Match |-> TRUE] /\ excused = {}

SyncStep(c) ==
  \/ \E kind \in Syncs \cup {"live"} : FetchUpdates(c, kind)
  \/ \E m \in Match : ReadBefore(c, m) \/ Write(c, m) \/ Abort(c, m)
  \/ GiveUp(c) \/ Commit(c) \/ Reconcile(c) \/ Flush(c) \/ FlushFails(c)
OtherStep(c) ==
  \E m \in Match :
    CancelMatch(c, m) \/ GetMatch(c, m) \/ Fill(c, m) \/ IncrementViewCount(c, m)
Next == (\E c \in Call : SyncStep(c) \/ OtherStep(c)) \/ (\E m \in Match : Expire(m)) \/ Tick

Spec == Init /\ [][Next]_vars

(***************************************************************************)
(* Properties.                                                             *)
(***************************************************************************)
Docs == [status : Statuses, score : 0..MaxTime]

(* The variables have their types. *)
TypeOK ==
  /\ time \in Time /\ begun \in 0..MaxCalls
  /\ match \in [Match -> Docs] /\ cache \in [Match -> Docs \cup {Nothing}]
  /\ told \in [Match -> BOOLEAN] /\ excused \subseteq Match
  /\ \A c \in Call : call[c].pc \in {"idle", "read", "write", "commit", "reconcile",
                                      "flush", "fill", "bump"}

(* The updates of a match are numbered 1, 2, 3, ...: no number is given    *)
(* twice and none is left out, although the number is one more than the    *)
(* largest that is read and no index keeps it unique.                      *)
FeedIsGapless == \A m \in Match : \A i \in DOMAIN feed[m] : feed[m][i].seq = i

(* The status of a match is the one its last STATUS row tells, unless it   *)
(* was cancelled or reconciled since, or a synchronisation that had read   *)
(* another status has overwritten it without a row.                        *)
StatusRows(m) == {i \in DOMAIN feed[m] : feed[m][i].window = 0}
StatusRowsTellStatus ==
  \A m \in Match : told[m] =>
    \A i \in StatusRows(m) : (\A j \in StatusRows(m) : j <= i) => feed[m][i].to = match[m].status

(* A cached detail that is not the match of now is about to be dropped,    *)
(* unless the drop failed, the reader had loaded it before the write, or   *)
(* the writer was the 'matches' mode of an administrator, which drops      *)
(* nothing.                                                                *)
DetailIsFresh ==
  \A m \in Match : cache[m] \notin {Nothing, match[m]} =>
    \/ m \in excused
    \/ \E c \in Call : call[c].pc \in {"reconcile", "flush"} /\ m \in Dropped(call[c])
=============================================================================
