---------------------------- MODULE MatchFeedProofs ----------------------------
(***************************************************************************)
(* What is proved of the ingestion of match updates (MatchFeed), of the    *)
(* closing of a contest at the end of its match (ContestClosing), of       *)
(* notifications and realtime events (Realtime) and of the sports          *)
(* catalogue (Catalogue), for any matches, providers, calls, windows,      *)
(* workers, processes, messages, synchronisations and bounds.              *)
(*                                                                         *)
(* MatchFeed: the updates of a match are numbered without gaps or          *)
(* repetitions; the numbers are no counter, it is the write of the match   *)
(* document beside each row that makes two ingestions exclude one another. *)
(* The last of its STATUS rows tells its status, and a cached detail is    *)
(* the match of now or about to be dropped, with the exceptions the        *)
(* properties name.                                                        *)
(***************************************************************************)
EXTENDS MatchFeed, ContestClosing, Realtime, Catalogue, FiniteSetTheorems,
        SequenceTheorems, WellFoundedInduction, TLAPS

MatchDocs == [status : Statuses, score : Nat]
FeedRows == [seq : Nat, window : Nat, to : Statuses]
WriteRecords == [m : Match, doc : MatchDocs, rows : Seq(FeedRows)]
CallFields == {"kind", "pc", "at", "todo", "loaded", "open", "latest", "stale",
               "writes", "crossed"}

(* A write that is not committed appends nothing, or the next number.      *)
AppendsNext(w, f) ==
  w.rows = <<>> \/ \E r \in FeedRows : r.seq = Len(f[w.m]) + 1 /\ w.rows = <<r>>

Shaped(d) ==
  /\ DOMAIN d = CallFields
  /\ d.at \in Time /\ d.todo \subseteq Match /\ d.latest \in [Match -> Nat]

CallOK(d) ==
  /\ Shaped(d)
  /\ d.writes \in Seq(WriteRecords)
  /\ \A i \in DOMAIN d.writes : AppendsNext(d.writes[i], feed)
  /\ d.open => \A m \in Match \ d.stale : d.latest[m] = Len(feed[m])

Data ==
  /\ time \in Time
  /\ match \in [Match -> MatchDocs]
  /\ feed \in [Match -> Seq(FeedRows)]
  /\ call = [c \in Call |-> call[c]]

(* Two calls never have written the same match.                            *)
OneWriter ==
  \A c, d \in Call : c # d => Written(call[c]) \cap Written(call[d]) = {}

IInv ==
  /\ Data /\ FeedIsGapless /\ OneWriter
  /\ \A c \in Call : CallOK(call[c])

-----------------------------------------------------------------------------
LEMMA LatestIsLength ==
  ASSUME NEW m \in Match, feed[m] \in Seq(FeedRows),
         \A i \in DOMAIN feed[m] : feed[m][i].seq = i
  PROVE  LatestSequence(m) = Len(feed[m])
<1> DEFINE n == Len(feed[m])
           S == {feed[m][i].seq : i \in DOMAIN feed[m]}
           Largest(s) == \A i \in DOMAIN feed[m] : feed[m][i].seq <= s
<1>1. DOMAIN feed[m] = 1..n /\ n \in Nat
  OBVIOUS
<1>2. CASE feed[m] = <<>>
  BY <1>2 DEF LatestSequence
<1>3. CASE feed[m] # <<>>
  <2>1. n \in 1..n
    BY <1>1, <1>3
  <2>2. n \in S /\ Largest(n)
    BY <1>1, <2>1
  <2>3. \A s \in S : Largest(s) => s = n
    BY <1>1, <2>1
  <2> HIDE DEF n, S, Largest
  <2>4. (CHOOSE s \in S : Largest(s)) = n
    BY <2>2, <2>3
  <2> QED
    BY <1>3, <2>4 DEF LatestSequence, S, Largest, n
<1> QED
  BY <1>2, <1>3

(* What a call may become beside its own write or commit: what it has      *)
(* written is kept or dropped, and its snapshot does not get younger.      *)
Weaker(old, new) ==
  /\ Shaped(new)
  /\ new.writes = <<>> \/ new.writes = old.writes
  /\ new.open => /\ old.open /\ new.latest = old.latest
                 /\ old.stale \subseteq new.stale

LEMMA FrameStep ==
  ASSUME IInv, feed' = feed, time' \in Time, match' \in [Match -> MatchDocs],
         call' = [c \in Call |-> call'[c]],
         \A c \in Call : Weaker(call[c], call'[c])
  PROVE  IInv'
<1>1. Data' /\ FeedIsGapless'
  BY DEF IInv, Data, FeedIsGapless
<1>2. \A c \in Call : Written(call'[c]) \subseteq Written(call[c])
  BY DEF Weaker, Written
<1>3. OneWriter'
  BY <1>2 DEF IInv, OneWriter
<1>4. ASSUME NEW c \in Call
      PROVE  CallOK(call[c])'
  <2>1. CallOK(call[c]) /\ Weaker(call[c], call'[c])
    BY DEF IInv
  <2>2. /\ call'[c].writes \in Seq(WriteRecords)
        /\ \A i \in DOMAIN call'[c].writes : AppendsNext(call'[c].writes[i], feed)
    <3>1. CASE call'[c].writes = <<>>
      BY <3>1
    <3>2. CASE call'[c].writes = call[c].writes
      BY <2>1, <3>2 DEF CallOK
    <3> QED
      BY <2>1, <3>1, <3>2 DEF Weaker
  <2>3. call'[c].open => \A m \in Match \ call'[c].stale : call'[c].latest[m] = Len(feed[m])
    BY <2>1 DEF CallOK, Weaker
  <2> QED
    BY <2>1, <2>2, <2>3 DEF CallOK, Weaker, Shaped, AppendsNext
<1> QED
  BY <1>1, <1>3, <1>4 DEF IInv

(* The steps of one call that leave the feeds alone.                       *)
LEMMA OwnStep ==
  ASSUME IInv, feed' = feed, time' = time, match' = match,
         NEW c \in Call, NEW new, Step(c, new), Weaker(call[c], new)
  PROVE  IInv'
<1>1. call' = [d \in Call |-> call'[d]]
  BY DEF IInv, Data, Step
<1>2. \A d \in Call : call'[d] = IF d = c THEN new ELSE call[d]
  BY DEF IInv, Data, Step
<1>3. ASSUME NEW d \in Call PROVE Weaker(call[d], call'[d])
  <2>1. Weaker(call[d], call[d])
    BY DEF IInv, CallOK, Weaker
  <2> QED
    BY <1>2, <2>1
<1> QED
  BY <1>1, <1>3, FrameStep DEF IInv, Data

LEMMA IdleShaped ==
  ASSUME FeedAssumption
  PROVE  Shaped(Idle)
BY FeedAssumption DEF Shaped, Idle, CallFields, Time

(* A call that has heard of a write of another is no nearer to a write.    *)
LEMMA SeenWeaker ==
  ASSUME NEW d, NEW ms, ms \subseteq Match, Shaped(d)
  PROVE  Weaker(d, Seen(d, ms))
<1>1. DOMAIN Seen(d, ms) = CallFields
  BY DEF Seen, Shaped
<1>2. /\ Seen(d, ms).at = d.at /\ Seen(d, ms).todo = d.todo
      /\ Seen(d, ms).latest = d.latest /\ Seen(d, ms).writes = d.writes
      /\ Seen(d, ms).open = d.open
  BY DEF Seen, Shaped, CallFields
<1>3. d.stale \subseteq Seen(d, ms).stale
  BY DEF Seen, Shaped, CallFields
<1> QED
  BY <1>1, <1>2, <1>3 DEF Weaker, Shaped
-----------------------------------------------------------------------------
LEMMA InitInvariant ==
  ASSUME FeedAssumption, Init
  PROVE  IInv
<1>1. Data
  BY FeedAssumption DEF Init, Data, Time, MatchDocs, FeedRows, Statuses, NoScore
<1>2. FeedIsGapless
  BY DEF Init, FeedIsGapless
<1>3. OneWriter
  BY DEF Init, OneWriter, Idle, Written
<1>4. ASSUME NEW c \in Call PROVE CallOK(call[c])
  <2>1. call[c] = Idle
    BY DEF Init
  <2>2. Idle.writes = <<>> /\ ~Idle.open
    BY DEF Idle
  <2> QED
    BY <2>1, <2>2, IdleShaped DEF CallOK
<1> QED
  BY <1>1, <1>2, <1>3, <1>4 DEF IInv

(* What the steps of a call make of it.                                    *)
LEMMA Blank ==
  ASSUME FeedAssumption
  PROVE  /\ Shaped(Idle) /\ Idle.writes = <<>> /\ ~Idle.open
         /\ \A d : Weaker(d, Idle)
<1>1. Shaped(Idle) /\ Idle.writes = <<>> /\ ~Idle.open
  BY IdleShaped DEF Idle
<1> QED
  BY <1>1 DEF Weaker

LEMMA NextPhase ==
  ASSUME IInv, NEW c \in Call, NEW pc, NEW loaded
  PROVE  /\ Weaker(call[c], [call[c] EXCEPT !.pc = pc])
         /\ Weaker(call[c], [call[c] EXCEPT !.pc = pc, !.loaded = loaded])
<1>1. Shaped(call[c])
  BY DEF IInv, CallOK
<1> QED
  BY <1>1 DEF Weaker, Shaped, CallFields

LEMMA AgainWeaker ==
  ASSUME FeedAssumption, IInv, NEW c \in Call
  PROVE  Weaker(call[c], Rolledback(call[c]))
<1>. Shaped(call[c]) /\ Shaped(Idle)
  BY Blank DEF IInv, CallOK
<1>. Batch(call[c].kind, call[c].at) \subseteq Match
  BY DEF Batch
<1> DEFINE new == Rolledback(call[c])
<1>1. DOMAIN new = CallFields
  BY DEF Shaped, CallFields, Rolledback
<1>2. new.at \in Time /\ new.latest \in [Match -> Nat]
  BY DEF Shaped, CallFields, Rolledback
<1>3. new.todo \subseteq Match
  BY DEF Shaped, CallFields, Rolledback
<1>4. new.writes = <<>> /\ ~new.open
  BY DEF Shaped, CallFields, Rolledback
<1> HIDE DEF new
<1>5. Weaker(call[c], new)
  BY <1>1, <1>2, <1>3, <1>4 DEF Weaker, Shaped
<1> QED
  BY <1>5 DEF new

(* Every step but a write and a commit.                                    *)
LEMMA OtherSteps ==
  ASSUME FeedAssumption, IInv, NEW c \in Call
  PROVE  /\ \A kind \in Syncs \cup {"live"} : FetchUpdates(c, kind) => IInv'
         /\ \A m \in Match : ReadBefore(c, m) \/ Abort(c, m) => IInv'
         /\ GiveUp(c) \/ Flush(c) \/ FlushFails(c) => IInv'
         /\ \A m \in Match : GetMatch(c, m) \/ Fill(c, m) => IInv'
<1> USE Blank
<1>1. ASSUME NEW kind \in Syncs \cup {"live"}, FetchUpdates(c, kind) PROVE IInv'
  <2>. Batch(kind, time) \subseteq Match /\ time \in Time
    BY DEF Batch, IInv, Data
  <2> DEFINE new == [Idle EXCEPT !.kind = kind, !.pc = "read", !.at = time,
                               !.todo = Batch(kind, time)]
  <2>1. DOMAIN new = CallFields
    BY DEF Shaped, CallFields
  <2>2. new.at \in Time /\ new.latest \in [Match -> Nat]
    BY DEF Shaped, CallFields
  <2>3. new.todo \subseteq Match
    BY DEF Shaped, CallFields
  <2>4. new.writes = <<>> /\ ~new.open
    BY DEF Shaped, CallFields
  <2> HIDE DEF new
  <2>5. Weaker(call[c], new)
    BY <2>1, <2>2, <2>3, <2>4 DEF Weaker, Shaped
  <2>6. Step(c, new) /\ time' = time /\ match' = match /\ feed' = feed
    BY <1>1 DEF FetchUpdates, new
  <2> QED
    BY <2>5, <2>6, OwnStep
<1>2. ASSUME NEW m \in Match, ReadBefore(c, m) PROVE IInv'
  BY <1>2, OwnStep, NextPhase DEF ReadBefore
<1>3. ASSUME NEW m \in Match, Abort(c, m) PROVE IInv'
  BY <1>3, OwnStep, AgainWeaker DEF Abort
<1>4. ASSUME GiveUp(c) PROVE IInv'
  BY <1>4, OwnStep DEF GiveUp
<1>5. ASSUME Flush(c) PROVE IInv'
  BY <1>5, OwnStep DEF Flush
<1>6. ASSUME FlushFails(c) PROVE IInv'
  BY <1>6, OwnStep DEF FlushFails
<1>7. ASSUME NEW m \in Match, GetMatch(c, m) PROVE IInv'
  <2> DEFINE new == [Idle EXCEPT !.kind = "view", !.todo = {m}, !.loaded = match[m],
                               !.pc = IF cache[m] = Nothing THEN "fill" ELSE "bump"]
  <2>1. DOMAIN new = CallFields
    BY DEF Shaped, CallFields
  <2>2. new.at \in Time /\ new.latest \in [Match -> Nat]
    BY DEF Shaped, CallFields
  <2>3. new.todo \subseteq Match
    BY DEF Shaped, CallFields
  <2>4. new.writes = <<>> /\ ~new.open
    BY DEF Shaped, CallFields
  <2> HIDE DEF new
  <2>5. Weaker(call[c], new)
    BY <2>1, <2>2, <2>3, <2>4 DEF Weaker, Shaped
  <2>6. Step(c, new) /\ time' = time /\ match' = match /\ feed' = feed
    BY <1>7 DEF GetMatch, new
  <2> QED
    BY <2>5, <2>6, OwnStep
<1>8. ASSUME NEW m \in Match, Fill(c, m) PROVE IInv'
  BY <1>8, OwnStep, NextPhase DEF Fill
<1> QED
  BY <1>1, <1>2, <1>3, <1>4, <1>5, <1>6, <1>7, <1>8
(* The steps that others hear of, and the clock.                           *)
LEMMA BecomeStep ==
  ASSUME IInv, feed' = feed, time' = time, match' \in [Match -> MatchDocs],
         NEW c \in Call, NEW new, NEW ms, ms \subseteq Match,
         Become(c, new, ms), Weaker(call[c], new)
  PROVE  IInv'
<1>1. ASSUME NEW d \in Call PROVE Weaker(call[d], call'[d])
  <2>1. Weaker(call[d], Seen(call[d], ms))
    BY SeenWeaker DEF IInv, CallOK
  <2> QED
    BY <2>1 DEF Become
<1>2. call' = [d \in Call |-> call'[d]]
  BY DEF Become
<1> QED
  BY <1>1, <1>2, FrameStep DEF IInv, Data

LEMMA HeardSteps ==
  ASSUME FeedAssumption, IInv
  PROVE  /\ \A c \in Call : Reconcile(c) => IInv'
         /\ \A c \in Call, m \in Match : CancelMatch(c, m) => IInv'
         /\ \A c \in Call, m \in Match : IncrementViewCount(c, m) => IInv'
         /\ \A m \in Match : Expire(m) => IInv'
         /\ Tick => IInv'
<1>1. ASSUME NEW c \in Call, Reconcile(c) PROVE IInv'
  <2>1. PICK ms \in SUBSET Match :
          /\ match' = [m \in Match |-> IF m \in ms
                         THEN [match[m] EXCEPT !.status = "COMPLETED"] ELSE match[m]]
          /\ Become(c, [call[c] EXCEPT !.pc = "flush"], ms)
    BY <1>1 DEF Reconcile
  <2>2. match' \in [Match -> MatchDocs]
    BY <2>1 DEF IInv, Data, MatchDocs, Statuses
  <2>3. feed' = feed /\ time' = time
    BY <1>1 DEF Reconcile
  <2> QED
    BY <2>1, <2>2, <2>3, BecomeStep, NextPhase
<1>2. ASSUME NEW c \in Call, NEW m \in Match, CancelMatch(c, m) PROVE IInv'
  <2>. Shaped(Idle) /\ Idle.writes = <<>> /\ ~Idle.open
    BY Blank
  <2> DEFINE new == [Idle EXCEPT !.kind = "cancel", !.pc = "flush", !.todo = {m}]
  <2>1. DOMAIN new = CallFields
    BY DEF Shaped, CallFields
  <2>2. new.at \in Time /\ new.latest \in [Match -> Nat]
    BY DEF Shaped, CallFields
  <2>3. new.todo \subseteq Match
    BY DEF Shaped, CallFields
  <2>4. new.writes = <<>> /\ ~new.open
    BY DEF Shaped, CallFields
  <2>5. /\ Become(c, new, {m}) /\ time' = time /\ feed' = feed
        /\ match' = [match EXCEPT ![m].status = "CANCELLED"]
    BY <1>2 DEF CancelMatch
  <2>6. match' \in [Match -> MatchDocs]
    BY <2>5 DEF IInv, Data, MatchDocs, Statuses
  <2> HIDE DEF new
  <2>7. Weaker(call[c], new)
    BY <2>1, <2>2, <2>3, <2>4 DEF Weaker, Shaped
  <2> QED
    BY <2>5, <2>6, <2>7, BecomeStep
<1>3. ASSUME NEW c \in Call, NEW m \in Match, IncrementViewCount(c, m) PROVE IInv'
  <2>1. ASSUME NEW d \in Call PROVE Weaker(call[d], call'[d])
    <3>1. CASE d = c
      BY <1>3, <3>1, Blank DEF IncrementViewCount
    <3>2. CASE d # c
      <4>. Shaped(call[d])
        BY DEF IInv, CallOK
      <4> QED
        BY <1>3, <3>2 DEF IncrementViewCount, Weaker, Shaped, CallFields
    <3> QED
      BY <3>1, <3>2
  <2> QED
    BY <1>3, <2>1, FrameStep DEF IncrementViewCount, IInv, Data
<1>4. ASSUME \E m \in Match : Expire(m) PROVE IInv'
  BY <1>4 DEF Expire, IInv, Data, FeedIsGapless, OneWriter, CallOK, AppendsNext
<1>5. ASSUME Tick PROVE IInv'
  <2>1. time' \in Time /\ UNCHANGED <<match, feed, call>>
    BY <1>5, FeedAssumption DEF Tick, Time, IInv, Data
  <2> QED
    BY <2>1 DEF IInv, Data, FeedIsGapless, OneWriter, CallOK, AppendsNext
<1> QED
  BY <1>1, <1>2, <1>3, <1>4, <1>5
-----------------------------------------------------------------------------
LEMMA RecordOK ==
  ASSUME NEW m \in Match, NEW doc \in MatchDocs, NEW rows, NEW w,
         w = [m |-> m, doc |-> doc, rows |-> rows],
         rows = <<>> \/ \E r \in FeedRows : r.seq = Len(feed[m]) + 1 /\ rows = <<r>>
  PROVE  w \in WriteRecords /\ w.m = m /\ AppendsNext(w, feed)
<1>1. rows \in Seq(FeedRows)
  <2>1. CASE rows = <<>>
    BY <2>1
  <2>2. ASSUME NEW r \in FeedRows, rows = <<r>> PROVE rows \in Seq(FeedRows)
    BY <2>2
  <2> QED
    BY <2>1, <2>2
<1>2. w.m = m /\ w.rows = rows
  OBVIOUS
<1>3. w \in WriteRecords
  BY <1>1 DEF WriteRecords
<1> QED
  BY <1>2, <1>3 DEF AppendsNext

(* The write of a match: no other call has written it, so its snapshot     *)
(* still counts the rows there are, and the row it appends is the next.    *)
LEMMA WriteStep ==
  ASSUME FeedAssumption, IInv, NEW c \in Call, NEW m \in Match, Write(c, m)
  PROVE  IInv'
<1> DEFINE d == call[c]
           latest == IF d.open THEN d.latest ELSE [x \in Match |-> LatestSequence(x)]
           w == IF d.kind = "live" THEN LiveWrite(d, m, latest) ELSE SyncWrite(d, m, latest)
           new == [d EXCEPT !.open = TRUE, !.latest = latest, !.todo = @ \ {m},
                            !.pc = IF d.todo = {m} THEN "commit" ELSE "read",
                            !.writes = Append(@, w)]
<1>1. CallOK(d) /\ Shaped(d)
  BY DEF IInv, CallOK
<1>2. /\ Step(c, new) /\ ~Conflicts(c, m)
      /\ UNCHANGED <<time, match, feed>>
  BY DEF Write
<1>3. \A x \in Match : LatestSequence(x) = Len(feed[x])
  BY LatestIsLength DEF IInv, Data, FeedIsGapless
<1>4. /\ latest \in [Match -> Nat] /\ latest[m] = Len(feed[m])
      /\ \A x \in Match \ d.stale : latest[x] = Len(feed[x])
  <2>1. \A x \in Match : Len(feed[x]) \in Nat
    BY DEF IInv, Data
  <2>2. CASE d.open
    BY <1>1, <1>2, <2>2 DEF CallOK, Shaped, Conflicts
  <2>3. CASE ~d.open
    BY <1>3, <2>1, <2>3
  <2> QED
    BY <2>2, <2>3
<1> HIDE DEF latest
<1>5. w \in WriteRecords /\ w.m = m /\ AppendsNext(w, feed)
  <2>1. match[m] \in MatchDocs /\ d.at \in Nat /\ Reported[m][d.at] \in Statuses
    BY <1>1, FeedAssumption DEF IInv, Data, Shaped, Time
  <2>2. \A window \in Nat, to \in Statuses :
          Row(latest[m] + 1, window, to) \in FeedRows
          /\ Row(latest[m] + 1, window, to).seq = Len(feed[m]) + 1
    BY <1>4 DEF Row, FeedRows
  <2>3. CASE d.kind = "live"
    <3> DEFINE r == Row(latest[m] + 1, d.at, match[m].status)
               doc == LiveWrite(d, m, latest).doc
    <3>1. r \in FeedRows /\ r.seq = Len(feed[m]) + 1
      BY <2>1, <2>2 DEF MatchDocs
    <3>2. doc \in MatchDocs
      BY <2>1 DEF LiveWrite, MatchDocs
    <3>3. LiveWrite(d, m, latest) = [m |-> m, doc |-> doc, rows |-> <<r>>]
      BY DEF LiveWrite
    <3> HIDE DEF r, doc
    <3>4. w = [m |-> m, doc |-> doc, rows |-> <<r>>]
      BY <2>3, <3>3
    <3> QED
      BY <3>1, <3>2, <3>4, RecordOK
  <2>4. CASE d.kind # "live"
    <3> DEFINE said == Reported[m][d.at]
               r == Row(latest[m] + 1, 0, said)
               doc == [status |-> said,
                       score |-> IF said = "UPCOMING" THEN NoScore ELSE d.at]
               rows == IF d.loaded.status # said THEN <<r>> ELSE <<>>
    <3>1. r \in FeedRows /\ r.seq = Len(feed[m]) + 1
      BY <2>1, <2>2
    <3>2. doc \in MatchDocs
      BY <2>1 DEF MatchDocs, NoScore
    <3>3. SyncWrite(d, m, latest) = [m |-> m, doc |-> doc, rows |-> rows]
      BY DEF SyncWrite
    <3>4. rows = <<>> \/ rows = <<r>>
      OBVIOUS
    <3> HIDE DEF said, r, doc, rows
    <3>5. w = [m |-> m, doc |-> doc, rows |-> rows]
      BY <2>4, <3>3
    <3> QED
      BY <3>1, <3>2, <3>4, <3>5, RecordOK
  <2> QED
    BY <2>3, <2>4
<1> HIDE DEF w
<1>6. DOMAIN new = CallFields
  BY <1>1 DEF Shaped
<1>7. new.at = d.at /\ new.todo = d.todo \ {m} /\ new.stale = d.stale
  BY <1>1 DEF Shaped, CallFields
<1>8. new.latest = latest /\ new.open
  BY <1>1 DEF Shaped, CallFields
<1>9. new.writes = Append(d.writes, w)
  BY <1>1 DEF Shaped, CallFields
<1> HIDE DEF new
<1>10. /\ new.writes \in Seq(WriteRecords)
       /\ \A i \in DOMAIN new.writes : AppendsNext(new.writes[i], feed)
       /\ Written(new) = Written(d) \cup {m}
  <2>1. d.writes \in Seq(WriteRecords) /\ \A i \in DOMAIN d.writes : AppendsNext(d.writes[i], feed)
    BY <1>1 DEF CallOK
  <2>2. /\ DOMAIN new.writes = DOMAIN d.writes \cup {Len(d.writes) + 1}
        /\ \A i \in DOMAIN d.writes : new.writes[i] = d.writes[i]
        /\ new.writes[Len(d.writes) + 1] = w
    BY SMTT(20), <1>5, <1>9, <2>1
  <2>3. new.writes \in Seq(WriteRecords)
    BY <1>5, <1>9, <2>1
  <2> QED
    BY <1>5, <2>1, <2>2, <2>3 DEF Written
<1>11. CallOK(new)
  BY <1>1, <1>4, <1>6, <1>7, <1>8, <1>10 DEF CallOK, Shaped
<1>12. \A e \in Call : call'[e] = IF e = c THEN new ELSE call[e]
  BY <1>2 DEF Step, IInv, Data
<1>13. \A e \in Call : CallOK(call'[e])
  BY <1>11, <1>12 DEF IInv
<1>14. \A e \in Call : CallOK(call[e])'
  BY <1>2, <1>13 DEF CallOK, AppendsNext, Shaped
<1>15. OneWriter'
  <2>1. \A e \in Call \ {c} : m \notin Written(call[e])
    BY <1>2 DEF Conflicts, Locked
  <2>2. ASSUME NEW e \in Call, NEW f \in Call, e # f
        PROVE  Written(call'[e]) \cap Written(call'[f]) = {}
    <3>1. Written(call[e]) \cap Written(call[f]) = {}
      BY <2>2 DEF IInv, OneWriter
    <3>2. CASE e = c
      BY <1>10, <1>12, <2>1, <2>2, <3>1, <3>2
    <3>3. CASE f = c
      BY <1>10, <1>12, <2>1, <2>2, <3>1, <3>3
    <3>4. CASE e # c /\ f # c
      BY <1>12, <3>1, <3>4
    <3> QED
      BY <3>2, <3>3, <3>4
  <2> QED
    BY <2>2 DEF OneWriter
<1>16. Data' /\ FeedIsGapless'
  BY <1>2 DEF Step, IInv, Data, FeedIsGapless
<1> QED
  BY <1>14, <1>15, <1>16 DEF IInv

(* The commit: no other call has written these matches, and those that     *)
(* have a snapshot of them learn that it is stale.                         *)
LEMMA CommitStep ==
  ASSUME FeedAssumption, IInv, NEW c \in Call, Commit(c)
  PROVE  IInv'
<1> DEFINE d == call[c]
<1>1. CallOK(d) /\ Written(d) \subseteq Match
  <2>1. CallOK(d)
    BY DEF IInv
  <2>2. \A i \in DOMAIN d.writes : d.writes[i] \in WriteRecords
    BY <2>1 DEF CallOK
  <2>3. \A i \in DOMAIN d.writes : d.writes[i].m \in Match
    BY <2>2 DEF WriteRecords
  <2> QED
    BY <2>1, <2>3 DEF Written
<1>2. /\ match' = [m \in Match |-> IF m \in Written(d) THEN WriteOf(d, m).doc ELSE match[m]]
      /\ feed' = [m \in Match |-> IF m \in Written(d) THEN feed[m] \o WriteOf(d, m).rows
                                  ELSE feed[m]]
      /\ Become(c, AfterCommit(d), Written(d)) /\ time' = time
  BY DEF Commit
<1>3. ASSUME NEW m \in Written(d)
      PROVE  WriteOf(d, m) \in WriteRecords /\ WriteOf(d, m).m = m /\ AppendsNext(WriteOf(d, m), feed)
  <2> DEFINE j == CHOOSE i \in DOMAIN d.writes : d.writes[i].m = m
  <2>1. j \in DOMAIN d.writes /\ d.writes[j].m = m
    BY DEF Written
  <2>2. WriteOf(d, m) = d.writes[j]
    BY DEF WriteOf
  <2> HIDE DEF j
  <2>3. d.writes[j] \in WriteRecords /\ AppendsNext(d.writes[j], feed)
    BY <1>1, <2>1 DEF CallOK
  <2> QED
    BY <2>1, <2>2, <2>3
<1>4. \A m \in Match : feed[m] \in Seq(FeedRows)
                       /\ \A i \in DOMAIN feed[m] : feed[m][i].seq = i
  BY DEF IInv, Data, FeedIsGapless
<1>5. ASSUME NEW m \in Match
      PROVE  /\ match'[m] \in MatchDocs /\ feed'[m] \in Seq(FeedRows)
             /\ \A i \in DOMAIN feed'[m] : feed'[m][i].seq = i
  <2>1. CASE m \notin Written(d)
    BY <1>2, <1>4, <2>1 DEF IInv, Data
  <2>2. CASE m \in Written(d)
    <3>1. match'[m] \in MatchDocs
      BY <1>2, <1>3, <2>2 DEF WriteRecords
    <3> DEFINE rows == WriteOf(d, m).rows
    <3>2. /\ feed[m] \in Seq(FeedRows) /\ \A i \in DOMAIN feed[m] : feed[m][i].seq = i
          /\ feed'[m] = feed[m] \o rows
      BY <1>2, <1>4, <2>2
    <3>3. rows = <<>> \/ \E r \in FeedRows : r.seq = Len(feed[m]) + 1 /\ rows = <<r>>
      <4> DEFINE w == WriteOf(d, m)
      <4>1. w.m = m /\ AppendsNext(w, feed)
        BY <1>3, <2>2
      <4> HIDE DEF w
      <4>2. w.rows = <<>> \/ \E r \in FeedRows : r.seq = Len(feed[m]) + 1 /\ w.rows = <<r>>
        BY <4>1 DEF AppendsNext
      <4> QED
        BY <4>2 DEF w
    <3> HIDE DEF rows
    <3>4. CASE rows = <<>>
      BY <3>1, <3>2, <3>4
    <3>5. CASE \E r \in FeedRows : r.seq = Len(feed[m]) + 1 /\ rows = <<r>>
      <4>1. PICK r \in FeedRows : r.seq = Len(feed[m]) + 1 /\ rows = <<r>>
        BY <3>5
      <4> DEFINE f == feed[m]
                 g == f \o <<r>>
      <4>2. f \in Seq(FeedRows) /\ (\A i \in DOMAIN f : f[i].seq = i) /\ r.seq = Len(f) + 1
        BY <3>2, <4>1
      <4>3. g \in Seq(FeedRows) /\ DOMAIN g = 1..(Len(f) + 1)
        BY <4>2
      <4>4. ASSUME NEW i \in DOMAIN g PROVE g[i].seq = i
        <5>1. CASE i = Len(f) + 1
          BY <4>2, <5>1
        <5>2. CASE i \in DOMAIN f
          BY <4>2, <5>2
        <5> QED
          BY <4>2, <4>3, <5>1, <5>2
      <4>5. feed'[m] = g
        BY <3>2, <4>1
      <4> HIDE DEF f, g
      <4> QED
        BY <3>1, <4>3, <4>4, <4>5
    <3> QED
      BY <3>3, <3>4, <3>5
  <2> QED
    BY <2>1, <2>2
<1>6. Data' /\ FeedIsGapless'
  BY <1>2, <1>5 DEF IInv, Data, FeedIsGapless, Become
<1>7. \A e \in Call : call'[e] = IF e = c THEN AfterCommit(d) ELSE Seen(call[e], Written(d))
  BY <1>2 DEF Become
<1>8. Weaker(d, AfterCommit(d))
  <2>. Shaped(Idle) /\ Idle.writes = <<>> /\ ~Idle.open
    BY Blank
  <2> DEFINE new == [Idle EXCEPT !.kind = d.kind,
                       !.pc = IF d.kind = "refresh" THEN "reconcile" ELSE "flush"]
  <2>1. DOMAIN new = CallFields /\ new.at \in Time /\ new.todo \subseteq Match
    BY DEF Shaped, CallFields
  <2>2. new.latest \in [Match -> Nat] /\ new.writes = <<>> /\ ~new.open
    BY DEF Shaped, CallFields
  <2>3. AfterCommit(d) \in {Idle, new}
    BY DEF AfterCommit
  <2> HIDE DEF new
  <2>4. Weaker(d, new)
    BY <2>1, <2>2 DEF Weaker, Shaped
  <2> QED
    BY <2>3, <2>4, Blank
<1>9. AfterCommit(d).writes = <<>> /\ ~AfterCommit(d).open
  BY Blank DEF AfterCommit, Shaped, CallFields
<1>10. \A e \in Call \ {c} : Weaker(call[e], call'[e]) /\ call'[e].writes = call[e].writes
                             /\ (call[e].open => Written(d) \subseteq call'[e].stale)
  <2>1. ASSUME NEW e \in Call \ {c}
        PROVE  /\ Seen(call[e], Written(d)).writes = call[e].writes
               /\ call[e].open => Written(d) \subseteq Seen(call[e], Written(d)).stale
    <3>. Shaped(call[e])
      BY DEF IInv, CallOK
    <3> QED
      BY DEF Seen, Shaped, CallFields
  <2> QED
    BY <1>1, <1>7, <2>1, SeenWeaker DEF IInv, CallOK
<1>11. ASSUME NEW e \in Call \ {c} PROVE CallOK(call[e])'
  <2>1. CallOK(call[e]) /\ Written(call[e]) \cap Written(d) = {}
    BY DEF IInv, OneWriter
  <2>2. /\ call'[e].writes \in Seq(WriteRecords)
        /\ \A i \in DOMAIN call'[e].writes : AppendsNext(call'[e].writes[i], feed')
    <3>1. ASSUME NEW i \in DOMAIN call[e].writes PROVE AppendsNext(call[e].writes[i], feed')
      <4>1. call[e].writes[i] \in WriteRecords /\ AppendsNext(call[e].writes[i], feed)
        BY <2>1 DEF CallOK
      <4>2. call[e].writes[i].m \in Match \ Written(d)
        BY <2>1, <4>1 DEF Written, WriteRecords
      <4>3. feed'[call[e].writes[i].m] = feed[call[e].writes[i].m]
        BY <1>2, <4>2
      <4> QED
        BY <4>1, <4>3, <1>10 DEF AppendsNext
    <3>2. call[e].writes \in Seq(WriteRecords)
      BY <2>1 DEF CallOK
    <3> QED
      BY <1>10, <3>1, <3>2
  <2>3. call'[e].open => \A m \in Match \ call'[e].stale : call'[e].latest[m] = Len(feed'[m])
    BY <1>2, <1>10, <2>1 DEF Weaker, CallOK
  <2>4. Shaped(call[e])'
    BY <1>10 DEF Weaker, Shaped
  <2> QED
    BY <2>2, <2>3, <2>4 DEF CallOK
<1>12. CallOK(call[c])'
  <2>1. call'[c] = AfterCommit(d)
    BY <1>7
  <2>2. Shaped(call'[c]) /\ call'[c].writes = <<>> /\ ~call'[c].open
    BY <1>8, <1>9, <2>1 DEF Weaker
  <2> QED
    BY <2>2 DEF CallOK, Shaped
<1>13. OneWriter'
  <2>. call'[c].writes = <<>>
    BY <1>7, <1>9
  <2>1. Written(call'[c]) = {}
    BY DEF Written
  <2>2. \A e \in Call \ {c} : Written(call'[e]) = Written(call[e])
    BY <1>10 DEF Written
  <2>3. \A e \in Call : Written(call'[e]) \subseteq Written(call[e])
    BY <2>1, <2>2
  <2> QED
    BY <2>3 DEF IInv, OneWriter
<1> QED
  BY <1>6, <1>11, <1>12, <1>13 DEF IInv

LEMMA NextInvariant ==
  ASSUME FeedAssumption, IInv, [Next]_vars
  PROVE  IInv'
<1>1. ASSUME NEW c \in Call, SyncStep(c) PROVE IInv'
  BY <1>1, OtherSteps, WriteStep, CommitStep, HeardSteps DEF SyncStep
<1>2. ASSUME NEW c \in Call, OtherStep(c) PROVE IInv'
  BY <1>2, OtherSteps, HeardSteps DEF OtherStep
<1>3. CASE (\E m \in Match : Expire(m)) \/ Tick
  BY <1>3, HeardSteps
<1>4. CASE UNCHANGED vars
  BY <1>4 DEF vars, IInv, Data, FeedIsGapless, OneWriter, CallOK, AppendsNext
<1> QED
  BY <1>1, <1>2, <1>3, <1>4 DEF Next

(* Whatever ingestions, cancellations and views overlap and however often  *)
(* their transactions are run again, the updates of a match carry the      *)
(* numbers 1, 2, 3, ... in the order of their commits, although each reads *)
(* the largest number there is and adds one.                               *)
THEOREM UpdatesNumberedWithoutGaps ==
  ASSUME FeedAssumption
  PROVE  Spec => []FeedIsGapless
<1>1. Init => IInv
  BY InitInvariant
<1>2. IInv /\ [Next]_vars => IInv'
  BY NextInvariant
<1>3. IInv => FeedIsGapless
  BY DEF IInv
<1> QED
  BY <1>1, <1>2, <1>3, PTL DEF Spec

-----------------------------------------------------------------------------
(* The status.  A write that is not committed gives a live event the       *)
(* status the match has, and a STATUS row the status it writes.            *)

Writing == {"read", "write", "commit"}

HonestWrite(kind, w) ==
  IF kind = "live"
  THEN w.doc.status = match[w.m].status /\ Len(w.rows) = 1 /\ w.rows[1].window # 0
  ELSE \/ w.rows = <<>>
       \/ Len(w.rows) = 1 /\ w.rows[1].window = 0 /\ w.rows[1].to = w.doc.status

Honest(d) ==
  /\ d.pc \notin Writing => d.writes = <<>>
  /\ \A i \in DOMAIN d.writes : HonestWrite(d.kind, d.writes[i])

LastRowTells(m) ==
  \A i \in StatusRows(m) : (\A j \in StatusRows(m) : j <= i) => feed[m][i].to = match[m].status

StatusInv ==
  /\ DOMAIN told = Match
  /\ \A c \in Call : Honest(call[c])
  /\ \A m \in Match : told[m] => LastRowTells(m)

(* A call keeps what it has written, while the matches it has written keep *)
(* their statuses, or drops it.                                            *)
KeepsWrites(c) ==
  \/ call'[c].writes = <<>>
  \/ /\ call'[c].writes = call[c].writes /\ call'[c].kind = call[c].kind
     /\ call'[c].pc \notin Writing => call[c].pc \notin Writing
     /\ \A m \in Written(call[c]) : match'[m].status = match[m].status

LEMMA HonestStays ==
  ASSUME StatusInv, NEW c \in Call, KeepsWrites(c)
  PROVE  Honest(call[c])'
<1>1. Honest(call[c])
  BY DEF StatusInv
<1>2. CASE call'[c].writes = <<>>
  BY <1>2 DEF Honest
<1>3. CASE /\ call'[c].writes = call[c].writes /\ call'[c].kind = call[c].kind
           /\ call'[c].pc \notin Writing => call[c].pc \notin Writing
           /\ \A m \in Written(call[c]) : match'[m].status = match[m].status
  <2>1. ASSUME NEW i \in DOMAIN call[c].writes
        PROVE  HonestWrite(call[c].kind, call[c].writes[i])'
    <3>1. call[c].writes[i].m \in Written(call[c])
      BY DEF Written
    <3>2. HonestWrite(call[c].kind, call[c].writes[i])
      BY <1>1 DEF Honest
    <3> QED
      BY <1>3, <3>1, <3>2 DEF HonestWrite
  <2> QED
    BY <1>1, <1>3, <2>1 DEF Honest, HonestWrite
<1> QED
  BY <1>2, <1>3 DEF KeepsWrites

(* A step that appends nothing.                                            *)
LEMMA StatusStays ==
  ASSUME StatusInv, feed' = feed, DOMAIN told' = Match, \A c \in Call : KeepsWrites(c),
         \A m \in Match : told'[m] => told[m] /\ match'[m].status = match[m].status
  PROVE  StatusInv'
<1>1. \A c \in Call : Honest(call[c])'
  BY HonestStays
<1>2. \A m \in Match : told'[m] => LastRowTells(m)'
  BY DEF StatusInv, LastRowTells, StatusRows
<1> QED
  BY <1>1, <1>2 DEF StatusInv

(* What the steps of a call leave in its fields.                           *)
LEMMA IdleFields ==
  /\ Idle.pc = "idle" /\ Idle.writes = <<>> /\ Idle.crossed = FALSE /\ Idle.kind = "none"
  /\ Idle.open = FALSE
BY DEF Idle

LEMMA AfterStep ==
  ASSUME IInv, NEW c \in Call, NEW new, Step(c, new)
  PROVE  call'[c] = new /\ \A d \in Call : d # c => call'[d] = call[d]
BY DEF IInv, Data, Step

LEMMA FieldsOfCall ==
  ASSUME IInv, NEW d \in Call
  PROVE  DOMAIN call[d] = CallFields
BY DEF IInv, CallOK, Shaped

LEMMA AfterBecome ==
  ASSUME IInv, NEW c \in Call, NEW new, NEW ms, Become(c, new, ms)
  PROVE  /\ call'[c] = new
         /\ \A d \in Call : d # c =>
              /\ call'[d].pc = call[d].pc /\ call'[d].kind = call[d].kind
              /\ call'[d].todo = call[d].todo /\ call'[d].loaded = call[d].loaded
              /\ call'[d].writes = call[d].writes
              /\ ~call'[d].crossed =>
                   ~call[d].crossed /\ (call[d].pc = "fill" => call[d].todo \cap ms = {})
<1>1. call'[c] = new
  BY DEF Become
<1>2. ASSUME NEW d \in Call, d # c
      PROVE  /\ call'[d].pc = call[d].pc /\ call'[d].kind = call[d].kind
             /\ call'[d].todo = call[d].todo /\ call'[d].loaded = call[d].loaded
             /\ call'[d].writes = call[d].writes
             /\ ~call'[d].crossed =>
                  ~call[d].crossed /\ (call[d].pc = "fill" => call[d].todo \cap ms = {})
  <2>1. /\ DOMAIN call[d] = CallFields
        /\ call'[d] = [call[d] EXCEPT !.stale = IF call[d].open THEN @ \cup ms ELSE @,
                          !.crossed = @ \/ (call[d].pc = "fill" /\ call[d].todo \cap ms # {})]
    BY <1>2, FieldsOfCall DEF Become, Seen
  <2>2. /\ call'[d].pc = call[d].pc /\ call'[d].kind = call[d].kind
        /\ call'[d].todo = call[d].todo /\ call'[d].loaded = call[d].loaded
        /\ call'[d].writes = call[d].writes
    BY <2>1 DEF CallFields
  <2>3. call'[d].crossed <=>
          (call[d].crossed \/ (call[d].pc = "fill" /\ call[d].todo \cap ms # {}))
    BY <2>1 DEF CallFields
  <2> QED
    BY <2>2, <2>3
<1> QED
  BY <1>1, <1>2

(* The matches a call has written are matches.                             *)
LEMMA WrittenMatches ==
  ASSUME IInv, NEW d \in Call
  PROVE  Written(call[d]) \subseteq Match
<1>1. call[d].writes \in Seq(WriteRecords)
  BY DEF IInv, CallOK
<1>2. \A i \in DOMAIN call[d].writes : call[d].writes[i] \in WriteRecords
  BY <1>1
<1>3. \A i \in DOMAIN call[d].writes : call[d].writes[i].m \in Match
  BY <1>2 DEF WriteRecords
<1> QED
  BY <1>3 DEF Written


LEMMA CallsKeepStatus ==
  ASSUME FeedAssumption, IInv, StatusInv, NEW c \in Call,
         \/ \E kind \in Syncs \cup {"live"} : FetchUpdates(c, kind)
         \/ \E m \in Match : ReadBefore(c, m) \/ Abort(c, m) \/ GetMatch(c, m) \/ Fill(c, m)
         \/ GiveUp(c) \/ Flush(c) \/ FlushFails(c)
  PROVE  StatusInv'
<1>0. DOMAIN told = Match
  BY DEF StatusInv
<1>1. match' = match /\ feed' = feed /\ told' = told
  BY DEF FetchUpdates, ReadBefore, Abort, GetMatch, Fill, GiveUp, Flush, FlushFails
<1>2. (\A d \in Call : d # c => call'[d] = call[d]) /\ KeepsWrites(c)
  <2>1. CASE \E m \in Match : ReadBefore(c, m)
    <3>1. PICK m \in Match : ReadBefore(c, m)
      BY <2>1
    <3>2. PICK new : new = [call[c] EXCEPT !.pc = "write", !.loaded = match[m]]
      OBVIOUS
    <3>3. Step(c, new)
      BY <3>1, <3>2 DEF ReadBefore
    <3>4. call'[c] = new /\ \A d \in Call : d # c => call'[d] = call[d]
      BY <3>3, AfterStep
    <3>5. new.pc = "write" /\ new.kind = call[c].kind /\ new.writes = call[c].writes
      BY <3>2, FieldsOfCall DEF CallFields
    <3> QED
      BY <1>1, <3>4, <3>5 DEF KeepsWrites, Writing
  <2>2. CASE \E m \in Match : Fill(c, m)
    <3>1. PICK new : new = [call[c] EXCEPT !.pc = "bump"]
      OBVIOUS
    <3>2. Step(c, new) /\ call[c].pc = "fill"
      BY <2>2, <3>1 DEF Fill
    <3>3. call'[c] = new /\ \A d \in Call : d # c => call'[d] = call[d]
      BY <3>2, AfterStep
    <3>4. new.kind = call[c].kind /\ new.writes = call[c].writes
      BY <3>1, FieldsOfCall DEF CallFields
    <3> QED
      BY <1>1, <3>2, <3>3, <3>4 DEF KeepsWrites, Writing
  <2>3. CASE \/ \E kind \in Syncs \cup {"live"} : FetchUpdates(c, kind)
             \/ \E m \in Match : Abort(c, m) \/ GetMatch(c, m)
             \/ GiveUp(c) \/ Flush(c) \/ FlushFails(c)
    <3>1. PICK new : Step(c, new) /\ new.writes = <<>>
      <4>1. CASE \E kind \in Syncs \cup {"live"} : FetchUpdates(c, kind)
        <5>1. PICK kind \in Syncs \cup {"live"} : FetchUpdates(c, kind)
          BY <4>1
        <5> DEFINE e == [Idle EXCEPT !.kind = kind, !.pc = "read", !.at = time,
                                     !.todo = Batch(kind, time)]
        <5>2. Step(c, e)
          BY <5>1 DEF FetchUpdates
        <5>3. e.writes = <<>>
          BY DEF Idle
        <5> QED
          BY <5>2, <5>3
      <4>2. CASE \E m \in Match : Abort(c, m)
        <5>1. Step(c, Rolledback(call[c])) /\ DOMAIN call[c] = CallFields
          BY <4>2 DEF Abort, IInv, CallOK, Shaped
        <5>2. Rolledback(call[c]).writes = <<>>
          BY <5>1 DEF Rolledback, CallFields
        <5> QED
          BY <5>1, <5>2
      <4>3. CASE \E m \in Match : GetMatch(c, m)
        <5>1. PICK m \in Match : GetMatch(c, m)
          BY <4>3
        <5> DEFINE e == [Idle EXCEPT !.kind = "view", !.todo = {m}, !.loaded = match[m],
                                     !.pc = IF cache[m] = Nothing THEN "fill" ELSE "bump"]
        <5>2. Step(c, e)
          BY <5>1 DEF GetMatch
        <5>3. e.writes = <<>>
          BY DEF Idle
        <5> QED
          BY <5>2, <5>3
      <4>4. CASE GiveUp(c) \/ Flush(c) \/ FlushFails(c)
        BY <4>4, IdleFields DEF GiveUp, Flush, FlushFails
      <4> QED
        BY <2>3, <4>1, <4>2, <4>3, <4>4
    <3> QED
      BY <3>1, AfterStep DEF KeepsWrites
  <2> QED
    BY <2>1, <2>2, <2>3
<1>3. \A d \in Call : KeepsWrites(d)
  BY <1>1, <1>2 DEF KeepsWrites
<1> QED
  BY <1>0, <1>1, <1>3, StatusStays

(* A write to matches that no call has written and that are untold then.   *)
LEMMA HeardKeepStatus ==
  ASSUME FeedAssumption, IInv, StatusInv
  PROVE  /\ \A c \in Call : Reconcile(c) => StatusInv'
         /\ \A c \in Call, m \in Match : CancelMatch(c, m) => StatusInv'
         /\ \A c \in Call, m \in Match : IncrementViewCount(c, m) => StatusInv'
         /\ \A m \in Match : Expire(m) => StatusInv'
         /\ Tick => StatusInv'
<1>0. DOMAIN told = Match
  BY DEF StatusInv
<1>1. ASSUME NEW c \in Call, Reconcile(c) PROVE StatusInv'
  <2>1. PICK ms \in SUBSET Match :
          /\ \A m \in ms : ~Locked(c, m)
          /\ match' = [m \in Match |-> IF m \in ms
                         THEN [match[m] EXCEPT !.status = "COMPLETED"] ELSE match[m]]
          /\ told' = [m \in Match |-> told[m] /\ m \notin ms]
          /\ Become(c, [call[c] EXCEPT !.pc = "flush"], ms)
    BY <1>1 DEF Reconcile
  <2>2. feed' = feed /\ call[c].pc = "reconcile"
    BY <1>1 DEF Reconcile
  <2>3. call[c].writes = <<>>
    BY <2>2 DEF StatusInv, Honest, Writing
  <2>4. PICK new : new = [call[c] EXCEPT !.pc = "flush"]
    OBVIOUS
  <2>5. /\ call'[c] = new
        /\ \A d \in Call : d # c => /\ call'[d].pc = call[d].pc /\ call'[d].kind = call[d].kind
                                    /\ call'[d].writes = call[d].writes
    BY <2>1, <2>4, AfterBecome
  <2>6. KeepsWrites(c)
    <3>1. new.writes = <<>>
      BY <2>3, <2>4, FieldsOfCall DEF CallFields
    <3> QED
      BY <2>5, <3>1 DEF KeepsWrites
  <2>7. ASSUME NEW d \in Call, d # c PROVE KeepsWrites(d)
    <3>1. /\ call'[d].writes = call[d].writes /\ call'[d].kind = call[d].kind
          /\ call'[d].pc = call[d].pc
      BY <2>5, <2>7
    <3>2. \A m \in Written(call[d]) : m \notin ms
      BY <2>1, <2>7, WrittenMatches DEF Locked
    <3>3. \A m \in Match : m \notin ms => match'[m] = match[m]
      BY <2>1
    <3>4. \A m \in Written(call[d]) : match'[m].status = match[m].status
      BY <3>2, <3>3, WrittenMatches
    <3> QED
      BY <3>1, <3>4 DEF KeepsWrites
  <2>8. \A m \in Match : told'[m] => told[m] /\ match'[m].status = match[m].status
    BY <2>1
  <2>9. DOMAIN told' = Match
    BY <2>1
  <2> QED
    BY <2>2, <2>6, <2>7, <2>8, <2>9, StatusStays
<1>2. ASSUME NEW c \in Call, NEW m \in Match, CancelMatch(c, m) PROVE StatusInv'
  <2> DEFINE new == [Idle EXCEPT !.kind = "cancel", !.pc = "flush", !.todo = {m}]
  <2>1. /\ Become(c, new, {m}) /\ feed' = feed /\ ~Locked(c, m)
        /\ match' = [match EXCEPT ![m].status = "CANCELLED"]
        /\ told' = [told EXCEPT ![m] = FALSE]
    BY <1>2 DEF CancelMatch
  <2>2. new.writes = <<>>
    BY DEF Idle
  <2> HIDE DEF new
  <2>3. /\ call'[c] = new
        /\ \A d \in Call : d # c => /\ call'[d].pc = call[d].pc /\ call'[d].kind = call[d].kind
                                    /\ call'[d].writes = call[d].writes
    BY <2>1, AfterBecome
  <2>4. KeepsWrites(c) /\ \A n \in Match : n # m => match'[n] = match[n]
    BY <2>1, <2>2, <2>3 DEF KeepsWrites, IInv, Data
  <2>5. ASSUME NEW d \in Call, d # c PROVE KeepsWrites(d)
    <3>1. /\ call'[d].writes = call[d].writes /\ call'[d].kind = call[d].kind
          /\ call'[d].pc = call[d].pc
      BY <2>3, <2>5
    <3>2. m \notin Written(call[d])
      BY <2>1, <2>5 DEF Locked
    <3>3. \A n \in Written(call[d]) : match'[n].status = match[n].status
      BY <2>4, <3>2, WrittenMatches
    <3> QED
      BY <3>1, <3>3 DEF KeepsWrites
  <2>6. \A n \in Match : told'[n] => n # m /\ told[n]
    BY <2>1 DEF StatusInv
  <2>7. \A n \in Match : told'[n] => told[n] /\ match'[n].status = match[n].status
    BY <2>4, <2>6
  <2> QED
    BY <1>0, <2>1, <2>4, <2>5, <2>7, StatusStays
<1>3. ASSUME NEW c \in Call, NEW m \in Match, IncrementViewCount(c, m) PROVE StatusInv'
  <2>1. match' = match /\ feed' = feed /\ told' = told
    BY <1>3 DEF IncrementViewCount
  <2>2. ASSUME NEW d \in Call PROVE KeepsWrites(d)
    <3>1. CASE d = c
      BY <1>3, <3>1, IdleFields DEF IncrementViewCount, KeepsWrites
    <3>2. CASE d # c
      <4>1. DOMAIN call[d] = CallFields
        BY DEF IInv, CallOK, Shaped
      <4>2. /\ call'[d].writes = call[d].writes /\ call'[d].kind = call[d].kind
            /\ call'[d].pc = call[d].pc
        BY <1>3, <3>2, <4>1 DEF IncrementViewCount, CallFields
      <4> QED
        BY <2>1, <4>2 DEF KeepsWrites
    <3> QED
      BY <3>1, <3>2
  <2> QED
    BY <1>0, <2>1, <2>2, StatusStays
<1>4. ASSUME (\E m \in Match : Expire(m)) \/ Tick PROVE StatusInv'
  <2>1. match' = match /\ feed' = feed /\ told' = told /\ call' = call
    BY <1>4 DEF Expire, Tick
  <2> QED
    BY <1>0, <2>1, StatusStays DEF KeepsWrites
<1> QED
  BY <1>1, <1>2, <1>3, <1>4

LEMMA WriteKeepsStatus ==
  ASSUME FeedAssumption, IInv, StatusInv, NEW c \in Call, NEW m \in Match, Write(c, m)
  PROVE  StatusInv'
<1> DEFINE d == call[c]
           latest == IF d.open THEN d.latest ELSE [x \in Match |-> LatestSequence(x)]
           w == IF d.kind = "live" THEN LiveWrite(d, m, latest) ELSE SyncWrite(d, m, latest)
           new == [d EXCEPT !.open = TRUE, !.latest = latest, !.todo = @ \ {m},
                            !.pc = IF d.todo = {m} THEN "commit" ELSE "read",
                            !.writes = Append(@, w)]
<1>1. Step(c, new) /\ match' = match /\ feed' = feed /\ told' = told
  BY DEF Write
<1>2. DOMAIN d = CallFields /\ d.at \in Time /\ d.writes \in Seq(WriteRecords)
  BY DEF IInv, CallOK, Shaped
<1>3. HonestWrite(d.kind, w)
  <2>1. d.at # 0 /\ match[m] \in MatchDocs
    BY <1>2 DEF Time, IInv, Data
  <2> HIDE DEF latest
  <2>2. CASE d.kind = "live"
    <3>1. /\ w.m = m /\ w.rows = <<Row(latest[m] + 1, d.at, match[m].status)>>
          /\ w.doc = IF d.loaded.score # NoScore THEN [match[m] EXCEPT !.score = d.at] ELSE match[m]
      BY <2>2 DEF LiveWrite
    <3> HIDE DEF w
    <3>2. w.doc.status = match[m].status
      BY <2>1, <3>1 DEF MatchDocs
    <3>3. Len(w.rows) = 1 /\ w.rows[1].window = d.at
      <4>1. PICK r : r = Row(latest[m] + 1, d.at, match[m].status)
        OBVIOUS
      <4>2. w.rows = <<r>> /\ r.window = d.at
        BY <3>1, <4>1 DEF Row
      <4> QED
        BY <4>2
    <3> QED
      BY <2>1, <2>2, <3>1, <3>2, <3>3 DEF HonestWrite
  <2>3. CASE d.kind # "live"
    <3> DEFINE said == Reported[m][d.at]
    <3>1. /\ w.doc.status = said
          /\ w.rows = IF d.loaded.status # said THEN <<Row(latest[m] + 1, 0, said)>> ELSE <<>>
      BY <2>3 DEF SyncWrite
    <3> HIDE DEF said, w
    <3>2. w.rows # <<>> => Len(w.rows) = 1 /\ w.rows[1].window = 0 /\ w.rows[1].to = said
      <4>1. PICK r : r = Row(latest[m] + 1, 0, said)
        OBVIOUS
      <4>2. r.window = 0 /\ r.to = said /\ (w.rows = <<r>> \/ w.rows = <<>>)
        BY <3>1, <4>1 DEF Row
      <4>3. Len(<<r>>) = 1 /\ <<r>>[1] = r
        OBVIOUS
      <4> QED
        BY <4>2, <4>3
    <3> QED
      BY <2>3, <3>1, <3>2 DEF HonestWrite
  <2> QED
    BY <2>2, <2>3
<1> HIDE DEF w, latest
<1>4. new.kind = d.kind /\ new.writes = Append(d.writes, w) /\ new.pc \in {"commit", "read"}
  BY <1>2 DEF CallFields
<1> HIDE DEF new
<1>5. /\ call'[c] = new /\ \A e \in Call : e # c => call'[e] = call[e]
  BY <1>1, AfterStep
<1>6. ASSUME NEW i \in DOMAIN Append(d.writes, w) PROVE HonestWrite(d.kind, Append(d.writes, w)[i])
  <2>1. CASE i \in DOMAIN d.writes
    <3>1. Append(d.writes, w)[i] = d.writes[i]
      BY <1>2, <2>1
    <3> QED
      BY <2>1, <3>1 DEF StatusInv, Honest
  <2>2. CASE i \notin DOMAIN d.writes
    <3>1. i = Len(d.writes) + 1
      BY <1>2, <2>2
    <3>2. Append(d.writes, w)[i] = w
      BY <1>2, <3>1
    <3> QED
      BY <1>3, <3>2
  <2> QED
    BY <2>1, <2>2
<1>7. Honest(call[c])'
  BY ZenonT(30), <1>1, <1>4, <1>5, <1>6 DEF Honest, HonestWrite, Writing
<1>8. \A e \in Call : Honest(call[e])'
  <2>1. ASSUME NEW e \in Call, e # c PROVE KeepsWrites(e)
    BY <1>1, <1>5, <2>1 DEF KeepsWrites
  <2> QED
    BY <1>7, <2>1, HonestStays
<1>9. \A n \in Match : told'[n] => LastRowTells(n)'
  BY <1>1 DEF StatusInv, LastRowTells, StatusRows
<1> QED
  BY <1>1, <1>8, <1>9 DEF StatusInv

(* One more row.                                                           *)
LEMMA OneMoreRow ==
  ASSUME NEW f \in Seq(FeedRows), NEW rows \in Seq(FeedRows), Len(rows) = 1
  PROVE  /\ DOMAIN (f \o rows) = DOMAIN f \cup {Len(f) + 1}
         /\ \A i \in DOMAIN f : i < Len(f) + 1 /\ i \in Nat /\ (f \o rows)[i] = f[i]
         /\ (f \o rows)[Len(f) + 1] = rows[1] /\ Len(f) + 1 \in Nat
<1>1. PICK r \in FeedRows : rows = <<r>>
  <2>1. rows[1] \in FeedRows /\ rows = <<rows[1]>>
    OBVIOUS
  <2> QED
    BY <2>1
<1>2. PICK g : g = f \o <<r>>
  OBVIOUS
<1>3. /\ Len(f) \in Nat /\ DOMAIN f = 1..Len(f) /\ DOMAIN g = 1..(Len(f) + 1)
      /\ g[Len(f) + 1] = r /\ \A i \in 1..Len(f) : g[i] = f[i]
  BY <1>2
<1>4. DOMAIN g = DOMAIN f \cup {Len(f) + 1}
  BY <1>3
<1>5. \A i \in DOMAIN f : i < Len(f) + 1 /\ i \in Nat /\ g[i] = f[i]
  BY <1>3
<1>6. rows[1] = r
  BY <1>1
<1> QED
  BY <1>1, <1>2, <1>3, <1>4, <1>5, <1>6

LEMMA CommitKeepsStatus ==
  ASSUME FeedAssumption, IInv, StatusInv, NEW c \in Call, Commit(c)
  PROVE  StatusInv'
<1> DEFINE d == call[c]
<1>1. /\ match' = [m \in Match |-> IF m \in Written(d) THEN WriteOf(d, m).doc ELSE match[m]]
      /\ feed' = [m \in Match |-> IF m \in Written(d) THEN feed[m] \o WriteOf(d, m).rows
                                  ELSE feed[m]]
      /\ told' = [m \in Match |-> IF m \in Written(d) THEN Told(d, m) ELSE told[m]]
      /\ Become(c, AfterCommit(d), Written(d))
  BY DEF Commit
<1>2. AfterCommit(d).writes = <<>>
  BY DEF AfterCommit, Idle
<1>3. /\ call'[c] = AfterCommit(d)
      /\ \A e \in Call : e # c => /\ call'[e].pc = call[e].pc /\ call'[e].kind = call[e].kind
                                  /\ call'[e].writes = call[e].writes
  BY <1>1, AfterBecome
<1>4. \A e \in Call : KeepsWrites(e)
  <2>1. KeepsWrites(c)
    BY <1>2, <1>3 DEF KeepsWrites
  <2>2. ASSUME NEW e \in Call, e # c PROVE KeepsWrites(e)
    <3>1. /\ call'[e].writes = call[e].writes /\ call'[e].kind = call[e].kind
          /\ call'[e].pc = call[e].pc
      BY <1>3, <2>2
    <3>2. Written(call[e]) \cap Written(d) = {}
      BY <2>2 DEF IInv, OneWriter
    <3>3. \A m \in Written(call[e]) : match'[m] = match[m]
      BY <1>1, <3>2, WrittenMatches
    <3> QED
      BY <3>1, <3>3 DEF KeepsWrites
  <2> QED
    BY <2>1, <2>2
<1>5. ASSUME NEW m \in Match, told'[m] PROVE LastRowTells(m)'
  <2>1. CASE m \notin Written(d)
    BY <1>1, <1>5, <2>1 DEF StatusInv, LastRowTells, StatusRows
  <2>2. CASE m \in Written(d)
    <3>1. PICK w : w = WriteOf(d, m)
      OBVIOUS
    <3>2. w \in WriteRecords /\ w.m = m /\ HonestWrite(d.kind, w)
      <4> DEFINE j == CHOOSE i \in DOMAIN d.writes : d.writes[i].m = m
      <4>1. j \in DOMAIN d.writes /\ d.writes[j].m = m
        BY <2>2 DEF Written
      <4>2. w = d.writes[j]
        BY <3>1 DEF WriteOf
      <4> HIDE DEF j
      <4>3. d.writes[j] \in WriteRecords /\ HonestWrite(d.kind, d.writes[j])
        BY <4>1 DEF IInv, CallOK, StatusInv, Honest
      <4> QED
        BY <4>1, <4>2, <4>3
    <3>3. /\ match'[m] = w.doc /\ feed'[m] = feed[m] \o w.rows
          /\ (w.rows # <<>> /\ d.kind # "live")
             \/ (told[m] /\ (d.kind = "live" \/ w.doc.status = match[m].status))
      BY <1>1, <1>5, <2>2, <3>1 DEF Told
    <3>4. feed[m] \in Seq(FeedRows) /\ w.rows \in Seq(FeedRows)
      BY <3>2 DEF IInv, Data, WriteRecords
    <3>5. CASE w.rows = <<>>
      <4>1. feed'[m] = feed[m] /\ told[m] /\ match'[m].status = match[m].status
        BY <3>2, <3>3, <3>4, <3>5 DEF HonestWrite
      <4> QED
        BY <4>1 DEF StatusInv, LastRowTells, StatusRows
    <3>6. CASE w.rows # <<>>
      <4>1. Len(w.rows) = 1
        BY <3>2, <3>6 DEF HonestWrite
      <4>2. PICK n \in Nat :
              /\ DOMAIN (feed[m] \o w.rows) = DOMAIN feed[m] \cup {n}
              /\ \A i \in DOMAIN feed[m] : i < n /\ i \in Nat
                                           /\ (feed[m] \o w.rows)[i] = feed[m][i]
              /\ (feed[m] \o w.rows)[n] = w.rows[1]
        BY ZenonT(30), <3>4, <4>1, OneMoreRow
      <4>3. /\ DOMAIN feed'[m] = DOMAIN feed[m] \cup {n} /\ n \in Nat
            /\ \A i \in DOMAIN feed[m] : i < n /\ i \in Nat /\ feed'[m][i] = feed[m][i]
            /\ feed'[m][n] = w.rows[1]
        BY <3>3, <4>2
      <4>4. CASE d.kind = "live"
        <5>1. w.rows[1].window # 0 /\ match'[m].status = match[m].status /\ told[m]
          BY <3>2, <3>3, <4>4 DEF HonestWrite
        <5>2. StatusRows(m)' = StatusRows(m)
          BY <4>3, <5>1 DEF StatusRows
        <5>3. \A i \in StatusRows(m) : feed'[m][i] = feed[m][i]
          BY <4>3 DEF StatusRows
        <5> QED
          BY <5>1, <5>2, <5>3 DEF StatusInv, LastRowTells
      <4>5. CASE d.kind # "live"
        <5>1. w.rows[1].window = 0 /\ w.rows[1].to = match'[m].status
          BY <3>2, <3>3, <3>6, <4>5 DEF HonestWrite
        <5>2. n \in StatusRows(m)' /\ StatusRows(m)' \subseteq DOMAIN feed[m] \cup {n}
          BY <4>3, <5>1 DEF StatusRows
        <5>3. \A i \in StatusRows(m)' : n <= i => i = n
          <6>1. \A i \in DOMAIN feed[m] : ~(n <= i)
            BY <4>3
          <6> QED
            BY <5>2, <6>1
        <5> QED
          BY <4>3, <5>1, <5>2, <5>3 DEF LastRowTells
      <4> QED
        BY <4>4, <4>5
    <3> QED
      BY <3>5, <3>6
  <2> QED
    BY <2>1, <2>2
<1>6. \A e \in Call : Honest(call[e])'
  BY <1>4, HonestStays
<1>7. DOMAIN told' = Match
  BY <1>1
<1> QED
  BY <1>6, <1>7, <1>5 DEF StatusInv

LEMMA NextKeepsStatus ==
  ASSUME FeedAssumption, IInv, StatusInv, [Next]_vars
  PROVE  StatusInv'
<1>0. DOMAIN told = Match
  BY DEF StatusInv
<1>1. ASSUME NEW c \in Call, SyncStep(c) PROVE StatusInv'
  BY <1>1, CallsKeepStatus, HeardKeepStatus, WriteKeepsStatus, CommitKeepsStatus DEF SyncStep
<1>2. ASSUME NEW c \in Call, OtherStep(c) PROVE StatusInv'
  BY <1>2, CallsKeepStatus, HeardKeepStatus DEF OtherStep
<1>3. CASE (\E m \in Match : Expire(m)) \/ Tick
  BY <1>3, HeardKeepStatus
<1>4. CASE UNCHANGED vars
  <2>1. match' = match /\ feed' = feed /\ told' = told /\ call' = call
    BY <1>4 DEF vars
  <2> QED
    BY <1>0, <2>1, StatusStays DEF KeepsWrites
<1> QED
  BY <1>1, <1>2, <1>3, <1>4 DEF Next

(* The status of a match is the one its last STATUS row tells, unless it   *)
(* was cancelled, reconciled or overwritten behind the feed's back         *)
(* (StatusRowsTellStatus), whatever ingestions overlap: the live updates   *)
(* between two rows never carry a status of their own into the match.      *)
THEOREM RowsTellTheStatus ==
  ASSUME FeedAssumption
  PROVE  Spec => []StatusRowsTellStatus
<1>1. Init => IInv /\ StatusInv
  <2> SUFFICES ASSUME Init PROVE IInv /\ StatusInv
    OBVIOUS
  <2>1. \A c \in Call : Honest(call[c])
    BY IdleFields DEF Init, Honest
  <2>2. \A m \in Match : LastRowTells(m)
    BY DEF Init, LastRowTells, StatusRows
  <2>3. IInv /\ DOMAIN told = Match
    BY InitInvariant DEF Init
  <2> QED
    BY <2>1, <2>2, <2>3 DEF StatusInv
<1>2. IInv /\ StatusInv /\ [Next]_vars => IInv' /\ StatusInv'
  BY NextInvariant, NextKeepsStatus
<1>3. StatusInv => StatusRowsTellStatus
  BY DEF StatusInv, StatusRowsTellStatus, LastRowTells
<1> QED
  BY <1>1, <1>2, <1>3, PTL DEF Spec

-----------------------------------------------------------------------------
(* The cached details.  A view that is about to fill the cache has loaded  *)
(* the match of now, unless a write has crossed it; a call that writes is  *)
(* not a cancellation, so what follows its commit drops every detail.      *)
DropCall(c) ==
  /\ call[c].pc = "fill" =>
       \E m \in Match : /\ call[c].todo = {m}
                        /\ ~call[c].crossed => call[c].loaded = match[m]
  /\ call[c].pc \in Writing \cup {"reconcile"} => call[c].kind # "cancel"

Announces(c, m) == call[c].pc \in {"reconcile", "flush"} /\ m \in Dropped(call[c])

Fresh(m) ==
  cache[m] \notin {Nothing, match[m]} => m \in excused \/ \E c \in Call : Announces(c, m)

FreshInv ==
  /\ DOMAIN cache = Match
  /\ \A m \in Match : Fresh(m)
  /\ \A c \in Call : DropCall(c)

(* A step of another call: a write to the match that a view has loaded     *)
(* crosses it.                                                             *)
Bystander(d) ==
  /\ call'[d].pc = call[d].pc /\ call'[d].kind = call[d].kind
  /\ call'[d].todo = call[d].todo /\ call'[d].loaded = call[d].loaded
  /\ ~call'[d].crossed =>
       ~call[d].crossed /\ (call[d].pc = "fill" => \A m \in call[d].todo : match'[m] = match[m])

LEMMA BystanderStays ==
  ASSUME NEW d \in Call, DropCall(d), Bystander(d)
  PROVE  DropCall(d)' /\ \A m \in Match : Announces(d, m) => Announces(d, m)'
<1>1. DropCall(d)'
  <2>1. CASE call[d].pc = "fill"
    <3>1. PICK m \in Match : call[d].todo = {m} /\ (~call[d].crossed => call[d].loaded = match[m])
      BY <2>1 DEF DropCall
    <3>2. /\ call'[d].todo = {m} /\ call'[d].pc = "fill"
          /\ ~call'[d].crossed => call'[d].loaded = match'[m]
      BY <2>1, <3>1 DEF Bystander
    <3> QED
      BY <3>2 DEF DropCall, Writing
  <2>2. CASE call[d].pc # "fill"
    BY <2>2 DEF DropCall, Bystander
  <2> QED
    BY <2>1, <2>2
<1>2. ASSUME NEW m \in Match, Announces(d, m) PROVE Announces(d, m)'
  BY <1>2 DEF Announces, Dropped, Bystander
<1> QED
  BY <1>1, <1>2

(* What a step of c leaves of a detail: it is dropped or the match of now, *)
(* excused, about to be dropped by c, or what it was.                      *)
Settles(c, m) ==
  \/ cache'[m] = Nothing \/ cache'[m] = match'[m]
  \/ m \in excused'
  \/ Announces(c, m)'
  \/ /\ cache'[m] = cache[m] /\ match'[m] = match[m]
     /\ m \in excused => m \in excused'
     /\ ~Announces(c, m)

LEMMA FreshStep ==
  ASSUME FreshInv, NEW c \in Call, DOMAIN cache' = Match, DropCall(c)',
         \A d \in Call : d # c => Bystander(d),
         \A m \in Match : Settles(c, m)
  PROVE  FreshInv'
<1>1. ASSUME NEW d \in Call, d # c
      PROVE  DropCall(d)' /\ \A m \in Match : Announces(d, m) => Announces(d, m)'
  BY <1>1, BystanderStays DEF FreshInv
<1>2. ASSUME NEW m \in Match PROVE Fresh(m)'
  <2>1. CASE \/ cache'[m] = Nothing \/ cache'[m] = match'[m]
             \/ m \in excused' \/ Announces(c, m)'
    BY <2>1 DEF Fresh
  <2>2. CASE /\ cache'[m] = cache[m] /\ match'[m] = match[m]
             /\ m \in excused => m \in excused'
             /\ ~Announces(c, m)
    <3>1. Fresh(m)
      BY DEF FreshInv
    <3>2. \A d \in Call : Announces(d, m) => Announces(d, m)'
      BY <1>1, <2>2
    <3> QED
      BY <2>2, <3>1, <3>2 DEF Fresh
  <2> QED
    BY <2>1, <2>2 DEF Settles
<1> QED
  BY <1>1, <1>2 DEF FreshInv

(* The steps that write no match and no detail.                            *)
LEMMA QuietStep ==
  ASSUME FreshInv, NEW c \in Call, match' = match, cache' = cache, excused' = excused,
         call[c].pc \notin {"reconcile", "flush"}, DropCall(c)',
         \A d \in Call : d # c => call'[d] = call[d]
  PROVE  FreshInv'
<1>1. \A d \in Call : d # c => Bystander(d)
  BY DEF Bystander
<1>2. \A m \in Match : Settles(c, m)
  BY DEF Settles, Announces
<1>3. DOMAIN cache' = Match
  BY DEF FreshInv
<1> QED
  BY <1>1, <1>2, <1>3, FreshStep

LEMMA CallsKeepFresh ==
  ASSUME FeedAssumption, IInv, FreshInv, NEW c \in Call,
         \/ \E kind \in Syncs \cup {"live"} : FetchUpdates(c, kind)
         \/ \E m \in Match : ReadBefore(c, m) \/ Write(c, m) \/ Abort(c, m) \/ GetMatch(c, m)
         \/ GiveUp(c)
  PROVE  FreshInv'
<1>1. match' = match /\ cache' = cache /\ excused' = excused
  BY DEF FetchUpdates, ReadBefore, Write, Abort, GetMatch, GiveUp
<1>2. call[c].pc \in {"idle"} \cup Writing
  BY DEF FetchUpdates, ReadBefore, Write, Abort, GetMatch, GiveUp, Writing
<1>3. call[c].pc \in Writing => call[c].kind # "cancel"
  BY DEF FreshInv, DropCall
<1>4. PICK new :
        /\ Step(c, new)
        /\ \/ /\ new.pc \in Writing
              /\ \/ new.kind \in Syncs \cup {"live"}
                 \/ new.kind = call[c].kind /\ call[c].pc \in Writing
           \/ new.pc \in {"idle", "bump"}
           \/ new.pc = "fill" /\ \E m \in Match : new.todo = {m} /\ new.loaded = match[m]
  <2>1. CASE \E kind \in Syncs \cup {"live"} : FetchUpdates(c, kind)
    <3>1. PICK kind \in Syncs \cup {"live"} : FetchUpdates(c, kind)
      BY <2>1
    <3>2. PICK e : e = [Idle EXCEPT !.kind = kind, !.pc = "read", !.at = time,
                                    !.todo = Batch(kind, time)]
      OBVIOUS
    <3>3. Step(c, e) /\ call[c].pc = "idle"
      BY <3>1, <3>2 DEF FetchUpdates
    <3>4. e.pc = "read" /\ e.kind = kind
      BY <3>2 DEF Idle
    <3> QED
      BY <3>3, <3>4 DEF Writing
  <2>2. CASE \E m \in Match : ReadBefore(c, m)
    <3>1. PICK m \in Match : ReadBefore(c, m)
      BY <2>2
    <3>2. PICK e : e = [call[c] EXCEPT !.pc = "write", !.loaded = match[m]]
      OBVIOUS
    <3>3. Step(c, e) /\ call[c].pc = "read"
      BY <3>1, <3>2 DEF ReadBefore
    <3>4. e.pc = "write" /\ e.kind = call[c].kind
      BY <3>2, FieldsOfCall DEF CallFields
    <3> QED
      BY <3>3, <3>4 DEF Writing
  <2>3. CASE \E m \in Match : Write(c, m)
    <3>1. PICK m \in Match : Write(c, m)
      BY <2>3
    <3>2. PICK latest, w, e :
            /\ e = [call[c] EXCEPT !.open = TRUE, !.latest = latest, !.todo = @ \ {m},
                                   !.pc = IF call[c].todo = {m} THEN "commit" ELSE "read",
                                   !.writes = Append(@, w)]
            /\ Step(c, e) /\ call[c].pc = "write"
      BY <3>1 DEF Write
    <3>3. e.pc \in {"commit", "read"} /\ e.kind = call[c].kind
      BY <3>2, FieldsOfCall DEF CallFields
    <3> QED
      BY <3>2, <3>3 DEF Writing
  <2>4. CASE \E m \in Match : Abort(c, m)
    <3>1. PICK e : e = Rolledback(call[c])
      OBVIOUS
    <3>2. Step(c, e) /\ call[c].pc = "write"
      BY <2>4, <3>1 DEF Abort
    <3>3. e.pc = "read" /\ e.kind = call[c].kind
      BY <3>1, FieldsOfCall DEF Rolledback, CallFields
    <3> QED
      BY <3>2, <3>3 DEF Writing
  <2>5. CASE \E m \in Match : GetMatch(c, m)
    <3>1. PICK m \in Match : GetMatch(c, m)
      BY <2>5
    <3>2. PICK e : e = [Idle EXCEPT !.kind = "view", !.todo = {m}, !.loaded = match[m],
                                    !.pc = IF cache[m] = Nothing THEN "fill" ELSE "bump"]
      OBVIOUS
    <3>3. Step(c, e)
      BY <3>1, <3>2 DEF GetMatch
    <3>4. e.pc \in {"fill", "bump"} /\ e.todo = {m} /\ e.loaded = match[m]
      BY <3>2 DEF Idle
    <3> QED
      BY <3>3, <3>4
  <2>6. CASE GiveUp(c)
    BY <2>6, IdleFields DEF GiveUp
  <2> QED
    BY <2>1, <2>2, <2>3, <2>4, <2>5, <2>6
<1>5. call'[c] = new /\ \A d \in Call : d # c => call'[d] = call[d]
  BY <1>4, AfterStep
<1>6. DropCall(c)'
  <2>1. CASE new.pc \in Writing
    <3>1. new.kind # "cancel" /\ new.pc # "fill"
      BY <1>3, <1>4, <2>1 DEF Syncs, Writing
    <3> QED
      BY <1>5, <3>1 DEF DropCall
  <2>2. CASE new.pc \in {"idle", "bump"}
    BY <1>5, <2>2 DEF DropCall, Writing
  <2>3. CASE new.pc = "fill" /\ \E m \in Match : new.todo = {m} /\ new.loaded = match[m]
    BY <1>1, <1>5, <2>3 DEF DropCall, Writing
  <2> QED
    BY <1>4, <2>1, <2>2, <2>3
<1>7. call[c].pc \notin {"reconcile", "flush"}
  BY <1>2 DEF Writing
<1> QED
  BY <1>1, <1>5, <1>6, <1>7, QuietStep

(* The match that a view fills in is the one of now, or it is excused.     *)
LEMMA FillKeepsFresh ==
  ASSUME FeedAssumption, IInv, FreshInv, NEW c \in Call, NEW m \in Match, Fill(c, m)
  PROVE  FreshInv'
<1>1. /\ call[c].pc = "fill" /\ m \in call[c].todo /\ match' = match
      /\ cache' = [cache EXCEPT ![m] = call[c].loaded]
      /\ excused' = IF call[c].crossed THEN excused \cup {m} ELSE excused
  BY DEF Fill
<1>2. PICK new : new = [call[c] EXCEPT !.pc = "bump"]
  OBVIOUS
<1>3. call'[c] = new /\ \A d \in Call : d # c => call'[d] = call[d]
  BY <1>2, AfterStep DEF Fill
<1>4. new.pc = "bump"
  BY <1>2, FieldsOfCall DEF CallFields
<1>5. DOMAIN cache = Match /\ DropCall(c)
  BY DEF FreshInv
<1>6. ~call[c].crossed => call[c].loaded = match[m]
  BY <1>1, <1>5 DEF DropCall
<1>7. ASSUME NEW n \in Match PROVE Settles(c, n)
  <2>1. CASE n = m
    BY <1>1, <1>5, <1>6, <2>1 DEF Settles
  <2>2. CASE n # m
    BY <1>1, <1>5, <2>2 DEF Settles, Announces
  <2> QED
    BY <2>1, <2>2
<1>8. DropCall(c)' /\ DOMAIN cache' = Match
  BY <1>1, <1>3, <1>4, <1>5 DEF DropCall, Writing
<1>9. \A d \in Call : d # c => Bystander(d)
  BY <1>1, <1>3 DEF Bystander
<1> QED
  BY <1>7, <1>8, <1>9, FreshStep

LEMMA CountKeepsFresh ==
  ASSUME FeedAssumption, IInv, FreshInv, NEW c \in Call, NEW m \in Match,
         IncrementViewCount(c, m)
  PROVE  FreshInv'
<1>1. match' = match /\ cache' = cache /\ excused' = excused /\ call[c].pc = "bump"
  BY DEF IncrementViewCount
<1>2. ASSUME NEW d \in Call, d # c PROVE Bystander(d)
  <2>1. DOMAIN call[d] = CallFields
    BY FieldsOfCall
  <2>2. call'[d] = [call[d] EXCEPT !.stale = IF call[d].open THEN @ \cup {m} ELSE @]
    BY <1>2 DEF IncrementViewCount
  <2>3. /\ call'[d].pc = call[d].pc /\ call'[d].kind = call[d].kind
        /\ call'[d].todo = call[d].todo /\ call'[d].loaded = call[d].loaded
    BY <2>1, <2>2 DEF CallFields
  <2>4. call'[d].crossed = call[d].crossed
    BY <2>1, <2>2 DEF CallFields
  <2> QED
    BY <1>1, <2>3, <2>4 DEF Bystander
<1>3. call'[c].pc = "idle"
  BY IdleFields DEF IncrementViewCount
<1>4. DropCall(c)' /\ DOMAIN cache' = Match
  BY <1>1, <1>3 DEF DropCall, Writing, FreshInv
<1>5. \A n \in Match : Settles(c, n)
  BY <1>1 DEF Settles, Announces
<1> QED
  BY <1>2, <1>4, <1>5, FreshStep

LEMMA FlushKeepsFresh ==
  ASSUME FeedAssumption, IInv, FreshInv, NEW c \in Call, Flush(c) \/ FlushFails(c)
  PROVE  FreshInv'
<1>1. match' = match /\ Step(c, Idle)
  BY DEF Flush, FlushFails
<1>2. call'[c].pc = "idle" /\ \A d \in Call : d # c => call'[d] = call[d]
  BY <1>1, AfterStep, IdleFields
<1>3. ASSUME NEW n \in Match PROVE Settles(c, n)
  <2>1. CASE Flush(c) /\ n \in Dropped(call[c])
    BY <2>1 DEF Flush, Settles
  <2>2. CASE Flush(c) /\ n \notin Dropped(call[c])
    BY <1>1, <2>2 DEF Flush, Settles, Announces
  <2>3. CASE FlushFails(c) /\ n \in Dropped(call[c])
    BY <2>3 DEF FlushFails, Settles
  <2>4. CASE FlushFails(c) /\ n \notin Dropped(call[c])
    BY <1>1, <2>4 DEF FlushFails, Settles, Announces
  <2> QED
    BY <2>1, <2>2, <2>3, <2>4
<1>4. DropCall(c)'
  BY <1>2 DEF DropCall, Writing
<1>5. DOMAIN cache' = Match
  BY DEF Flush, FlushFails, FreshInv
<1>6. \A d \in Call : d # c => Bystander(d)
  BY <1>1, <1>2 DEF Bystander
<1> QED
  BY <1>3, <1>4, <1>5, <1>6, FreshStep

(* A write to the matches ms crosses the views of them.                    *)
LEMMA CrossedBystanders ==
  ASSUME IInv, NEW c \in Call, NEW new, NEW ms, Become(c, new, ms),
         \A m \in Match \ ms : match'[m] = match[m]
  PROVE  call'[c] = new /\ \A d \in Call : d # c => Bystander(d)
<1>1. call'[c] = new
  BY AfterBecome
<1>2. ASSUME NEW d \in Call, d # c PROVE Bystander(d)
  <2>1. call[d].todo \subseteq Match
    BY DEF IInv, CallOK, Shaped
  <2>2. /\ call'[d].pc = call[d].pc /\ call'[d].kind = call[d].kind
        /\ call'[d].todo = call[d].todo /\ call'[d].loaded = call[d].loaded
        /\ ~call'[d].crossed =>
             ~call[d].crossed /\ (call[d].pc = "fill" => call[d].todo \cap ms = {})
    BY <1>2, AfterBecome
  <2> QED
    BY <2>1, <2>2 DEF Bystander
<1> QED
  BY <1>1, <1>2

LEMMA CommitKeepsFresh ==
  ASSUME FeedAssumption, IInv, FreshInv, NEW c \in Call, Commit(c)
  PROVE  FreshInv'
<1> DEFINE d == call[c]
<1>1. /\ d.pc = "commit" /\ cache' = cache
      /\ match' = [m \in Match |-> IF m \in Written(d) THEN WriteOf(d, m).doc ELSE match[m]]
      /\ excused' = IF d.kind = "adminMatches" THEN excused \cup Written(d) ELSE excused
      /\ Become(c, AfterCommit(d), Written(d))
  BY DEF Commit
<1>2. d.kind # "cancel" /\ DOMAIN cache = Match
  BY <1>1 DEF FreshInv, DropCall, Writing
<1>3. \A m \in Match \ Written(d) : match'[m] = match[m]
  BY <1>1
<1>4. call'[c] = AfterCommit(d) /\ \A e \in Call : e # c => Bystander(e)
  BY <1>1, <1>3, CrossedBystanders
<1>5. CASE d.kind = "adminMatches"
  <2>1. call'[c].pc = "idle"
    BY <1>4, <1>5, IdleFields DEF AfterCommit
  <2>2. \A m \in Match : Settles(c, m)
    BY <1>1, <1>3, <1>5 DEF Settles, Announces
  <2>3. DropCall(c)' /\ DOMAIN cache' = Match
    BY <1>1, <1>2, <2>1 DEF DropCall, Writing
  <2> QED
    BY <1>4, <2>2, <2>3, FreshStep
<1>6. CASE d.kind # "adminMatches"
  <2>1. call'[c].pc \in {"reconcile", "flush"} /\ call'[c].kind = d.kind
    BY <1>4, <1>6 DEF AfterCommit, Idle
  <2>2. \A m \in Match : Announces(c, m)'
    BY <1>2, <2>1 DEF Announces, Dropped
  <2>3. DropCall(c)' /\ DOMAIN cache' = Match
    BY <1>1, <1>2, <2>1 DEF DropCall, Writing
  <2> QED
    BY <1>4, <2>2, <2>3, FreshStep DEF Settles
<1> QED
  BY <1>5, <1>6

LEMMA ReconcileKeepsFresh ==
  ASSUME FeedAssumption, IInv, FreshInv, NEW c \in Call, Reconcile(c)
  PROVE  FreshInv'
<1>1. PICK ms \in SUBSET Match :
        /\ match' = [m \in Match |-> IF m \in ms
                       THEN [match[m] EXCEPT !.status = "COMPLETED"] ELSE match[m]]
        /\ Become(c, [call[c] EXCEPT !.pc = "flush"], ms)
  BY DEF Reconcile
<1>2. PICK new : new = [call[c] EXCEPT !.pc = "flush"]
  OBVIOUS
<1>3. call[c].pc = "reconcile" /\ cache' = cache
  BY DEF Reconcile
<1>4. call[c].kind # "cancel" /\ DOMAIN cache = Match
  BY <1>3 DEF FreshInv, DropCall
<1>5. new.pc = "flush" /\ new.kind = call[c].kind
  BY <1>2, FieldsOfCall DEF CallFields
<1>6. \A m \in Match \ ms : match'[m] = match[m]
  BY <1>1
<1>7. call'[c] = new /\ \A d \in Call : d # c => Bystander(d)
  BY <1>1, <1>2, <1>6, CrossedBystanders
<1>8. \A m \in Match : Announces(c, m)'
  BY <1>4, <1>5, <1>7 DEF Announces, Dropped
<1>9. DropCall(c)' /\ DOMAIN cache' = Match
  BY <1>3, <1>4, <1>5, <1>7 DEF DropCall, Writing
<1> QED
  BY <1>7, <1>8, <1>9, FreshStep DEF Settles

LEMMA CancelKeepsFresh ==
  ASSUME FeedAssumption, IInv, FreshInv, NEW c \in Call, NEW m \in Match, CancelMatch(c, m)
  PROVE  FreshInv'
<1>1. PICK new : new = [Idle EXCEPT !.kind = "cancel", !.pc = "flush", !.todo = {m}]
  OBVIOUS
<1>2. /\ call[c].pc = "idle" /\ cache' = cache /\ excused' = excused
      /\ match' = [match EXCEPT ![m].status = "CANCELLED"]
      /\ Become(c, new, {m})
  BY <1>1 DEF CancelMatch
<1>3. new.kind = "cancel" /\ new.pc = "flush" /\ new.todo = {m}
  BY <1>1 DEF Idle
<1>4. \A n \in Match \ {m} : match'[n] = match[n]
  BY <1>2 DEF IInv, Data
<1>5. call'[c] = new /\ \A d \in Call : d # c => Bystander(d)
  BY <1>2, <1>4, CrossedBystanders
<1>6. Announces(c, m)'
  BY <1>3, <1>5 DEF Announces, Dropped
<1>7. \A n \in Match : n # m => Settles(c, n)
  BY <1>2, <1>4 DEF Settles, Announces
<1>8. \A n \in Match : Settles(c, n)
  BY <1>6, <1>7 DEF Settles
<1>9. DropCall(c)' /\ DOMAIN cache' = Match
  BY <1>2, <1>3, <1>5 DEF DropCall, Writing, FreshInv
<1> QED
  BY <1>5, <1>8, <1>9, FreshStep

LEMMA NextKeepsFresh ==
  ASSUME FeedAssumption, IInv, FreshInv, [Next]_vars
  PROVE  FreshInv'
<1>1. ASSUME NEW c \in Call, SyncStep(c) PROVE FreshInv'
  BY <1>1, CallsKeepFresh, CommitKeepsFresh, ReconcileKeepsFresh, FlushKeepsFresh DEF SyncStep
<1>2. ASSUME NEW c \in Call, OtherStep(c) PROVE FreshInv'
  BY <1>2, CallsKeepFresh, CancelKeepsFresh, FillKeepsFresh, CountKeepsFresh DEF OtherStep
<1>3. CASE (\E m \in Match : Expire(m)) \/ Tick \/ UNCHANGED vars
  <2>1. /\ match' = match /\ call' = call
        /\ \/ cache' = cache /\ excused' = excused
           \/ \E m \in Match : cache' = [cache EXCEPT ![m] = Nothing] /\ excused' = excused \ {m}
    BY <1>3 DEF Expire, Tick, vars
  <2>2. \A c \in Call : DropCall(c)' /\ \A m \in Match : Announces(c, m) => Announces(c, m)'
    BY <2>1 DEF FreshInv, DropCall, Announces, Dropped
  <2>3. DOMAIN cache = Match /\ DOMAIN cache' = Match
    BY <2>1 DEF FreshInv
  <2>4. ASSUME NEW m \in Match PROVE Fresh(m)'
    <3>1. cache'[m] = Nothing \/ (cache'[m] = cache[m] /\ (m \in excused => m \in excused'))
      BY <2>1, <2>3
    <3>2. Fresh(m)
      BY DEF FreshInv
    <3> QED
      BY <2>1, <2>2, <3>1, <3>2 DEF Fresh
  <2> QED
    BY <2>2, <2>3, <2>4 DEF FreshInv
<1> QED
  BY <1>1, <1>2, <1>3 DEF Next

(* A cached detail that is not the match of now is about to be dropped     *)
(* (DetailIsFresh), unless the drop failed, the reader loaded it before    *)
(* the write, or the mode of the writer drops nothing: for any number of   *)
(* views, cancellations and ingestions at once.                            *)
THEOREM CachedDetailsAreFresh ==
  ASSUME FeedAssumption
  PROVE  Spec => []DetailIsFresh
<1>1. Init => IInv /\ FreshInv
  <2> SUFFICES ASSUME Init PROVE IInv /\ FreshInv
    OBVIOUS
  <2>1. \A c \in Call : DropCall(c)
    BY IdleFields DEF Init, DropCall, Writing
  <2>2. DOMAIN cache = Match /\ \A m \in Match : Fresh(m)
    BY DEF Init, Fresh
  <2> QED
    BY <2>1, <2>2, InitInvariant DEF FreshInv
<1>2. IInv /\ FreshInv /\ [Next]_vars => IInv' /\ FreshInv'
  BY NextInvariant, NextKeepsFresh
<1>3. FreshInv => DetailIsFresh
  BY DEF FreshInv, DetailIsFresh, Fresh, Announces
<1> QED
  BY <1>1, <1>2, <1>3, PTL DEF Spec

-----------------------------------------------------------------------------
(* The closing of a contest.  Once the scan has asked for the final        *)
(* scoring, and while the settlement it queues after that has not been     *)
(* forgotten (Begun), the totals catch up with the statistics.             *)
Begun == scan = "contests" \/ job.state # "none" \/ run[Worker] # "idle"

(* From then on totals of the statistics have been written, or a scoring   *)
(* job will write them, or something has come or been given up since.      *)
(* What is written can be overwritten by a recomputation that had read     *)
(* older statistics, so the totals themselves need not have caught up.     *)
TotalsCatchUp ==
  \/ late \/ scoring > 0 \/ newest = stats
  \/ \E w \in ScoringWorkers : scorer[w].busy /\ scorer[w].seen = stats

(* A run of the worker has its job, and a job that will run again has      *)
(* attempts left.                                                          *)
WorkerHasJob ==
  /\ job.state \in {"waiting", "active"} => job.left > 0
  /\ run[Worker] # "idle" => job.state = "active"

(* What the workers of the scorings and the recomputing administrators do. *)
Scoring ==
  \/ \E w \in ScoringWorkers : ReadStatistics(w) \/ ScoringStalls(w)
  \/ \E a \in Admins : AdminRecompute(a)
  \/ \E r \in Recomputers : PersistRecompute(r) \/ ScoringFails(r)

SettleJobs ==
  [state : {"none", "waiting", "active", "completed", "failed"}, left : 0..MaxAttempts]
Runs == [Settlers -> {"idle", "claim"} \cup Claimed]
Results == [status : {"none", "IN_PROGRESS", "FAILED", "SKIPPED", "SETTLED"},
            token : Settlers]

ClosingInv ==
  /\ ClosingTypeOK /\ WorkerHasJob
  /\ Begun => phase # "running" /\ TotalsCatchUp
  /\ SettlementLagsOnlyBehindScoring

-----------------------------------------------------------------------------
(* What a run leaves of its job, of the runs and of the result.            *)
LEMMA Throwing ==
  ASSUME job \in SettleJobs, WorkerHasJob, NEW s \in Settlers, Throws(s),
         s = Worker => job.state \in {"waiting", "active"}
  PROVE  /\ job' \in SettleJobs
         /\ s # Worker => job' = job
         /\ s = Worker => /\ job'.state \in {"waiting", "failed"}
                          /\ job'.state = "waiting" => job'.left > 0
BY ClosingAssumption DEF SettleJobs, WorkerHasJob, Throws

LEMMA Ending ==
  ASSUME run \in Runs, result \in Results, NEW s \in Settlers,
         NEW t \in {"FAILED", "SETTLED"}, Ends(s, t)
  PROVE  /\ run' \in Runs /\ result' \in Results
         /\ run'[s] = "idle"
         /\ \A r \in Settlers \ {s} : run'[r] = run[r]
BY DEF Runs, Results, Ends

(* The jobs and the runs.                                                  *)
LEMMA JobStep ==
  ASSUME ClosingTypeOK, WorkerHasJob, [ClosingNext]_closingVars
  PROVE  /\ job' \in SettleJobs /\ run' \in Runs /\ result' \in Results
         /\ WorkerHasJob'
<1>0. /\ job \in SettleJobs /\ run \in Runs /\ result \in Results
      /\ Worker \in Settlers /\ MaxAttempts \in Nat \ {0}
      /\ WorkerHasJob
  BY ClosingAssumption DEF ClosingTypeOK, SettleJobs, Runs, Results, Settlers
<1>1. CASE UNCHANGED <<job, run, result>>
  BY <1>0, <1>1 DEF WorkerHasJob
<1>2. CASE QueueSettlement
  <2>1. UNCHANGED <<run, result>>
    BY <1>2 DEF QueueSettlement, settlement
  <2>2. \/ job' = job
        \/ job.state = "none" /\ job' = [state |-> "waiting", left |-> MaxAttempts]
    BY <1>2 DEF QueueSettlement, EnqueueSettlement, NoSettleJob
  <2> QED
    BY <1>0, <2>1, <2>2 DEF WorkerHasJob, SettleJobs
<1>3. CASE JobForgotten
  <2>1. /\ UNCHANGED <<run, result>> /\ job.state \in {"completed", "failed"}
        /\ job' = [state |-> "none", left |-> MaxAttempts]
    BY <1>3 DEF JobForgotten, NoSettleJob, settlement
  <2> QED
    BY <1>0, <2>1 DEF WorkerHasJob, SettleJobs
<1>4. CASE TakeSettlementJob
  <2>1. job.state = "waiting" /\ run[Worker] = "idle" /\ result' = result
    BY <1>4 DEF TakeSettlementJob
  <2>2. CASE Settleable
    <3>1. /\ job' = [job EXCEPT !.state = "active"]
          /\ run' = [run EXCEPT ![Worker] = "claim"]
      BY <1>4, <2>2 DEF TakeSettlementJob
    <3> QED
      BY <1>0, <2>1, <3>1 DEF WorkerHasJob, SettleJobs, Runs
  <2>3. CASE ~Settleable
    <3>1. Throws(Worker) /\ run' = run
      BY <1>4, <2>3 DEF TakeSettlementJob
    <3> QED
      BY <1>0, <2>1, <3>1, Throwing DEF WorkerHasJob
  <2> QED
    BY <2>2, <2>3
<1>5. ASSUME NEW a \in Admins, AdminSettle(a)
      PROVE  job' \in SettleJobs /\ run' \in Runs /\ result' \in Results /\ WorkerHasJob'
  <2>1. /\ UNCHANGED <<job, result>> /\ run' = [run EXCEPT ![a] = "claim"]
        /\ a \in Settlers /\ a # Worker
    BY <1>5, ClosingAssumption DEF AdminSettle, Settlers
  <2> QED
    BY <1>0, <2>1 DEF WorkerHasJob, Runs
<1>6. ASSUME NEW s \in Settlers, Claim(s)
      PROVE  job' \in SettleJobs /\ run' \in Runs /\ result' \in Results /\ WorkerHasJob'
  <2>1. run[s] = "claim" /\ (s = Worker => job.state = "active")
    BY <1>0, <1>6 DEF Claim, WorkerHasJob
  <2>2. CASE Throws(s) /\ run' = [run EXCEPT ![s] = "idle"] /\ UNCHANGED result
    <3>1. /\ run' \in Runs /\ run'[s] = "idle"
          /\ \A r \in Settlers \ {s} : run'[r] = run[r]
      BY <1>0, <2>2 DEF Runs
    <3> QED
      BY <1>0, <2>1, <2>2, <3>1, Throwing DEF WorkerHasJob
  <2>3. CASE /\ run' = [run EXCEPT ![s] = "idle"]
             /\ result' = [status |-> "SKIPPED", token |-> s]
             /\ job' = IF s = Worker THEN [job EXCEPT !.state = "completed"] ELSE job
    BY <1>0, <2>1, <2>3 DEF WorkerHasJob, SettleJobs, Runs, Results
  <2>4. CASE /\ run' = [run EXCEPT ![s] = "pay"]
             /\ result' = [status |-> "IN_PROGRESS", token |-> s]
             /\ UNCHANGED job
    BY <1>0, <2>1, <2>4 DEF WorkerHasJob, Runs, Results, Claimed
  <2> QED
    BY <1>6, <2>2, <2>3, <2>4 DEF Claim
<1>7. ASSUME NEW s \in Settlers, PayWinnings(s)
      PROVE  job' \in SettleJobs /\ run' \in Runs /\ result' \in Results /\ WorkerHasJob'
  <2>1. UNCHANGED <<job, result>> /\ run[s] = "pay" /\ run' = [run EXCEPT ![s] = "close"]
    BY <1>7 DEF PayWinnings
  <2> QED
    BY <1>0, <2>1 DEF WorkerHasJob, Runs, Claimed
<1>8. ASSUME NEW s \in Settlers, CompleteAndFinalise(s)
      PROVE  job' \in SettleJobs /\ run' \in Runs /\ result' \in Results /\ WorkerHasJob'
  <2>1. /\ Ends(s, "SETTLED")
        /\ job' = IF s = Worker THEN [job EXCEPT !.state = "completed"] ELSE job
    BY <1>8 DEF CompleteAndFinalise
  <2>2. /\ run' \in Runs /\ result' \in Results /\ run'[s] = "idle"
        /\ \A r \in Settlers \ {s} : run'[r] = run[r]
    BY <1>0, <2>1, Ending
  <2> QED
    BY <1>0, <2>1, <2>2 DEF WorkerHasJob, SettleJobs
<1>9. ASSUME NEW s \in Settlers, SettlementFails(s)
      PROVE  job' \in SettleJobs /\ run' \in Runs /\ result' \in Results /\ WorkerHasJob'
  <2>1. Ends(s, "FAILED") /\ Throws(s) /\ (s = Worker => job.state = "active")
    BY <1>0, <1>9 DEF SettlementFails, Claimed, WorkerHasJob
  <2>2. /\ run' \in Runs /\ result' \in Results /\ run'[s] = "idle"
        /\ \A r \in Settlers \ {s} : run'[r] = run[r]
    BY <1>0, <2>1, Ending
  <2> QED
    BY <1>0, <2>1, <2>2, Throwing DEF WorkerHasJob
<1>10. ASSUME NEW s \in Settlers, SettlementDies(s)
       PROVE  job' \in SettleJobs /\ run' \in Runs /\ result' \in Results /\ WorkerHasJob'
  <2>1. /\ run[s] # "idle" /\ run' = [run EXCEPT ![s] = "idle"] /\ result' = result
        /\ job' = IF s = Worker THEN [job EXCEPT !.state = "waiting"] ELSE job
    BY <1>10 DEF SettlementDies
  <2> QED
    BY <1>0, <2>1 DEF WorkerHasJob, SettleJobs, Runs
<1>11. CASE \/ MatchCompletes \/ DayPasses \/ TransitionStatus \/ StatsArrive \/ LiveTick
            \/ QueueFinalScoring \/ Scoring \/ UNCHANGED closingVars
  <2>1. UNCHANGED <<job, run, result>>
    BY <1>11 DEF MatchCompletes, DayPasses, TransitionStatus, StatsArrive, LiveTick,
       Scoring, ReadStatistics, AdminRecompute, ScoringStalls, PersistRecompute,
       ScoringFails, QueueFinalScoring, settlement, closingVars
  <2> QED
    BY <1>1, <2>1
<1> QED
  BY <1>2, <1>3, <1>4, <1>5, <1>6, <1>7, <1>8, <1>9, <1>10, <1>11 DEF ClosingNext,
     SettleStep, Scoring

(* The scorings: their types, and that the totals catch up.                *)
Scorings == [busy : BOOLEAN, seen : 0..stats]
ScoringTypes ==
  /\ stats \in 0..MaxScores /\ newest \in 0..stats /\ totals \in 0..newest
  /\ scoring \in 0..MaxJobs
  /\ scorer \in [Recomputers -> Scorings]

LEMMA ScoringStep ==
  ASSUME ClosingTypeOK, [ClosingNext]_closingVars
  PROVE  /\ ScoringTypes'
         /\ TotalsCatchUp /\ phase # "running" => TotalsCatchUp'
         /\ QueueFinalScoring => TotalsCatchUp'
<1>0. /\ ScoringTypes /\ MaxScores \in Nat /\ MaxJobs \in Nat \ {0}
      /\ \A r \in Recomputers : scorer[r].busy \in BOOLEAN /\ scorer[r].seen \in 0..stats
      /\ ScoringWorkers \subseteq Recomputers /\ Admins \subseteq Recomputers
      /\ ScoringWorkers \cap Admins = {}
  BY ClosingAssumption DEF ClosingTypeOK, ScoringTypes, Recomputers, Scorings
<1>1. CASE UNCHANGED <<stats, totals, newest, scoring, scorer, late>>
  <2>1. ~QueueFinalScoring
    BY <1>0, <1>1 DEF QueueFinalScoring, AskForScoring, ScoringTypes
  <2> QED
    BY <1>0, <1>1, <2>1 DEF ScoringTypes, TotalsCatchUp, Scorings
<1>2. CASE StatsArrive
  <2>1. /\ stats < MaxScores /\ stats' = stats + 1
        /\ UNCHANGED <<totals, newest, scoring, scorer>>
        /\ phase # "running" => late'
    BY <1>2 DEF StatsArrive
  <2>2. ~QueueFinalScoring
    BY <1>0, <2>1 DEF QueueFinalScoring, ScoringTypes
  <2>3. ScoringTypes'
    <3>1. 0..stats \subseteq 0..(stats + 1)
      BY <1>0 DEF ScoringTypes
    <3>2. scorer \in [Recomputers -> Scorings']
      BY <1>0, <2>1, <3>1 DEF ScoringTypes, Scorings
    <3> QED
      BY <1>0, <2>1, <3>1, <3>2 DEF ScoringTypes
  <2> QED
    BY <2>1, <2>2, <2>3 DEF TotalsCatchUp
<1>3. CASE LiveTick \/ QueueFinalScoring
  <2>1. /\ UNCHANGED <<stats, totals, newest, scorer>>
        /\ scoring < MaxJobs /\ scoring' = scoring + 1
    BY <1>3 DEF LiveTick, QueueFinalScoring, AskForScoring
  <2> QED
    BY <1>0, <2>1 DEF ScoringTypes, TotalsCatchUp, Scorings
<1>4. ASSUME NEW r \in Recomputers, Reads(r), UNCHANGED <<stats, totals, newest, scan, late>>,
             \/ scoring' = scoring
             \/ r \in ScoringWorkers /\ scoring > 0 /\ scoring' = scoring - 1
      PROVE  ScoringTypes' /\ ~QueueFinalScoring /\ (TotalsCatchUp => TotalsCatchUp')
  <2>1. scorer' = [scorer EXCEPT ![r] = [busy |-> TRUE, seen |-> stats]] /\ ~scorer[r].busy
    BY <1>4 DEF Reads
  <2>2. /\ scorer' \in [Recomputers -> Scorings]
        /\ scorer'[r].busy /\ scorer'[r].seen = stats
        /\ \A q \in Recomputers \ {r} : scorer'[q] = scorer[q]
    BY <1>0, <2>1 DEF ScoringTypes, Scorings
  <2>3. ScoringTypes'
    BY <1>0, <1>4, <2>2 DEF ScoringTypes, Scorings
  <2>4. ~QueueFinalScoring
    BY <1>4 DEF QueueFinalScoring
  <2>5. ASSUME TotalsCatchUp PROVE TotalsCatchUp'
    <3>1. CASE scoring' = scoring
      <4>1. \A w \in ScoringWorkers : scorer[w].busy /\ scorer[w].seen = stats
              => scorer'[w].busy /\ scorer'[w].seen = stats'
        BY <1>0, <1>4, <2>1, <2>2
      <4> QED
        BY <1>4, <2>5, <3>1, <4>1 DEF TotalsCatchUp
    <3>2. CASE r \in ScoringWorkers
      BY <1>4, <2>2, <3>2 DEF TotalsCatchUp
    <3> QED
      BY <1>4, <3>1, <3>2
  <2> QED
    BY <2>3, <2>4, <2>5
<1>5. ASSUME NEW r \in Recomputers, EndsScoring(r), UNCHANGED <<stats, scan>>,
             Persists(r) \/ UNCHANGED <<totals, newest>>,
             \/ UNCHANGED <<scoring, late>> /\ (r \in Admins \/ Persists(r))
             \/ scoring < MaxJobs /\ scoring' = scoring + 1
             \/ late' /\ scoring' = scoring
      PROVE  ScoringTypes' /\ ~QueueFinalScoring /\ (TotalsCatchUp => TotalsCatchUp')
  <2>1. scorer[r].busy /\ scorer' = [scorer EXCEPT ![r] = [busy |-> FALSE, seen |-> 0]]
    BY <1>5 DEF EndsScoring, NoScoring
  <2>2. /\ scorer' \in [Recomputers -> Scorings]
        /\ \A q \in Recomputers \ {r} : scorer'[q] = scorer[q]
    BY <1>0, <2>1 DEF ScoringTypes, Scorings
  <2>3. /\ newest' \in 0..stats /\ totals' \in 0..newest'
        /\ newest = stats => newest' = stats
        /\ Persists(r) /\ scorer[r].seen = stats => newest' = stats
    <3>1. CASE Persists(r)
      BY <1>0, <3>1 DEF Persists, ScoringTypes
    <3>2. CASE UNCHANGED <<totals, newest>> /\ ~Persists(r)
      BY <1>0, <3>2 DEF ScoringTypes
    <3> QED
      BY <1>5, <3>1, <3>2
  <2>4. scoring' \in 0..MaxJobs /\ scoring' >= scoring
    BY <1>0, <1>5 DEF ScoringTypes
  <2>5. ScoringTypes'
    BY <1>0, <1>5, <2>2, <2>3, <2>4 DEF ScoringTypes, Scorings
  <2>6. ~QueueFinalScoring
    BY <1>5 DEF QueueFinalScoring
  <2>7. ASSUME TotalsCatchUp PROVE TotalsCatchUp'
    <3>1. CASE scoring' > 0 \/ late'
      BY <3>1 DEF TotalsCatchUp
    <3>2. CASE ~(scoring' > 0) /\ ~late'
      <4>1. /\ UNCHANGED <<scoring, late>> /\ (r \in Admins \/ Persists(r))
            /\ ~(scoring > 0) /\ ~late
        BY <1>0, <1>5, <3>2 DEF ScoringTypes
      <4>2. CASE newest = stats
        BY <1>5, <2>3, <4>2 DEF TotalsCatchUp
      <4>3. CASE \E w \in ScoringWorkers : scorer[w].busy /\ scorer[w].seen = stats
        <5>1. PICK w \in ScoringWorkers : scorer[w].busy /\ scorer[w].seen = stats
          BY <4>3
        <5>2. CASE w # r
          BY <1>0, <1>5, <2>2, <5>1, <5>2 DEF TotalsCatchUp
        <5>3. CASE w = r
          BY <1>0, <1>5, <2>3, <4>1, <5>1, <5>3 DEF TotalsCatchUp
        <5> QED
          BY <5>2, <5>3
      <4> QED
        BY <2>7, <4>1, <4>2, <4>3 DEF TotalsCatchUp
    <3> QED
      BY <3>1, <3>2
  <2> QED
    BY <2>5, <2>6, <2>7
<1>6. CASE Scoring
  <2>1. ASSUME NEW w \in ScoringWorkers, ReadStatistics(w)
        PROVE  ScoringTypes' /\ ~QueueFinalScoring /\ (TotalsCatchUp => TotalsCatchUp')
    BY <1>0, <1>4, <2>1 DEF ReadStatistics
  <2>2. ASSUME NEW a \in Admins, AdminRecompute(a)
        PROVE  ScoringTypes' /\ ~QueueFinalScoring /\ (TotalsCatchUp => TotalsCatchUp')
    BY <1>0, <1>4, <2>2 DEF AdminRecompute
  <2>3. ASSUME NEW w \in ScoringWorkers, ScoringStalls(w)
        PROVE  ScoringTypes' /\ ~QueueFinalScoring /\ (TotalsCatchUp => TotalsCatchUp')
    <3>1. /\ UNCHANGED <<stats, totals, newest, scorer, scan>>
          /\ scoring < MaxJobs /\ scoring' = scoring + 1
      BY <2>3 DEF ScoringStalls
    <3> QED
      BY <1>0, <3>1 DEF ScoringTypes, Scorings, TotalsCatchUp, QueueFinalScoring
  <2>4. ASSUME NEW r \in Recomputers, PersistRecompute(r)
        PROVE  ScoringTypes' /\ ~QueueFinalScoring /\ (TotalsCatchUp => TotalsCatchUp')
    BY <1>5, <2>4 DEF PersistRecompute
  <2>5. ASSUME NEW r \in Recomputers, ScoringFails(r)
        PROVE  ScoringTypes' /\ ~QueueFinalScoring /\ (TotalsCatchUp => TotalsCatchUp')
    BY <1>5, <2>5 DEF ScoringFails
  <2> QED
    BY <1>6, <2>1, <2>2, <2>3, <2>4, <2>5 DEF Scoring
<1>7. CASE \/ MatchCompletes \/ DayPasses \/ TransitionStatus \/ QueueSettlement
           \/ JobForgotten \/ TakeSettlementJob \/ (\E a \in Admins : AdminSettle(a))
           \/ (\E s \in Settlers : SettleStep(s) \/ SettlementFails(s) \/ SettlementDies(s))
           \/ UNCHANGED closingVars
  <2>1. UNCHANGED <<stats, totals, newest, scoring, scorer, late>>
    BY <1>7 DEF MatchCompletes, DayPasses, TransitionStatus, QueueSettlement, JobForgotten,
       TakeSettlementJob, AdminSettle, SettleStep, Claim, PayWinnings, CompleteAndFinalise,
       SettlementFails, SettlementDies, scores, closingVars
  <2> QED
    BY <1>1, <2>1
<1> QED
  BY <1>2, <1>3, <1>6, <1>7 DEF ClosingNext, Scoring

-----------------------------------------------------------------------------
LEMMA InitEstablishes == ClosingInit => ClosingInv
<1> SUFFICES ASSUME ClosingInit PROVE ClosingInv
  OBVIOUS
<1>1. ClosingTypeOK
  <2>1. late \in BOOLEAN /\ crashed \in BOOLEAN
    BY DEF ClosingInit
  <2>2. payment \in Payment
    BY ClosingAssumption DEF ClosingInit, Payment, Settlers
  <2>3. result \in [status : {"none", "IN_PROGRESS", "FAILED", "SKIPPED", "SETTLED"},
                    token : Settlers]
    BY DEF ClosingInit, Settlers
  <2> QED
    BY ClosingAssumption, <2>1, <2>2, <2>3
    DEF ClosingInit, ClosingTypeOK, ContestStatuses, NoScoring, NoSettleJob, Claimed
<1>2. job.state = "none" /\ run[Worker] = "idle" /\ scan = "idle"
  BY DEF ClosingInit, NoSettleJob, Settlers
<1>3. payment.paid = "none"
  BY DEF ClosingInit
<1> QED
  BY <1>1, <1>2, <1>3 DEF ClosingInv, Begun, WorkerHasJob, SettlementLagsOnlyBehindScoring

(* Only a run that has its claim pays.                                     *)
LEMMA OnlyRunsPay ==
  ASSUME [ClosingNext]_closingVars
  PROVE  \/ payment' = payment
         \/ \E s \in Settlers, paid \in {"some", "all"} : run[s] = "pay" /\ Pays(s, paid)
<1>1. ASSUME NEW s \in Settlers, SettleStep(s) \/ SettlementFails(s) \/ SettlementDies(s)
      PROVE  \/ payment' = payment
             \/ \E paid \in {"some", "all"} : run[s] = "pay" /\ Pays(s, paid)
  BY <1>1 DEF SettleStep, Claim, PayWinnings, CompleteAndFinalise, SettlementFails,
     SettlementDies, PaysSome
<1>2. CASE \/ MatchCompletes \/ DayPasses \/ TransitionStatus \/ StatsArrive \/ LiveTick
           \/ QueueFinalScoring \/ QueueSettlement \/ JobForgotten \/ TakeSettlementJob
           \/ (\E a \in Admins : AdminSettle(a)) \/ Scoring \/ UNCHANGED closingVars
  BY <1>2 DEF MatchCompletes, DayPasses, TransitionStatus, StatsArrive, LiveTick,
     QueueFinalScoring, QueueSettlement, JobForgotten, TakeSettlementJob, AdminSettle,
     Scoring, ReadStatistics, AdminRecompute, ScoringStalls, PersistRecompute,
     ScoringFails, settlement, closingVars
<1> QED
  BY <1>1, <1>2 DEF ClosingNext, Scoring

(* Types are kept ...                                                      *)
LEMMA TypingStep ==
  ASSUME ClosingTypeOK, WorkerHasJob, [ClosingNext]_closingVars
  PROVE  ClosingTypeOK'
<1>0. /\ ClosingTypeOK /\ MaxErrors \in Nat
  BY ClosingAssumption
<1>1. ScoringTypes'
  BY ScoringStep
<1>2. job' \in SettleJobs /\ run' \in Runs /\ result' \in Results
  BY JobStep
<1>3. phase' \in {"running", "completed", "old"} /\ scan' \in {"idle", "contests"}
  BY <1>0 DEF ClosingTypeOK, ClosingNext, MatchCompletes, DayPasses, TransitionStatus,
     StatsArrive, LiveTick, Scoring, ReadStatistics, AdminRecompute, ScoringStalls,
     PersistRecompute, ScoringFails, QueueFinalScoring, QueueSettlement, JobForgotten,
     TakeSettlementJob, AdminSettle, SettleStep, Claim, PayWinnings,
     CompleteAndFinalise, SettlementFails, SettlementDies, closingVars
<1>4. status' \in ContestStatuses
  BY <1>0 DEF ClosingTypeOK, ClosingNext, MatchCompletes, DayPasses, TransitionStatus,
     StatsArrive, LiveTick, Scoring, ReadStatistics, AdminRecompute, ScoringStalls,
     PersistRecompute, ScoringFails, QueueFinalScoring, QueueSettlement, JobForgotten,
     TakeSettlementJob, AdminSettle, SettleStep, Claim, PayWinnings,
     CompleteAndFinalise, SettlementFails, SettlementDies, closingVars, ContestStatuses
<1>5. errors' \in 0..MaxErrors
  BY <1>0 DEF ClosingTypeOK, ClosingNext, MatchCompletes, DayPasses, TransitionStatus,
     StatsArrive, LiveTick, Scoring, ReadStatistics, AdminRecompute, ScoringStalls,
     PersistRecompute, ScoringFails, QueueFinalScoring, QueueSettlement, JobForgotten,
     TakeSettlementJob, AdminSettle, SettleStep, Claim, PayWinnings,
     CompleteAndFinalise, SettlementFails, SettlementDies, closingVars
<1>6. late' \in BOOLEAN
  BY <1>0, Zenon DEF ClosingTypeOK, ClosingNext, MatchCompletes, DayPasses,
     TransitionStatus, StatsArrive, LiveTick, AskForScoring, Scoring, ReadStatistics,
     AdminRecompute, ScoringStalls, PersistRecompute, ScoringFails, QueueFinalScoring,
     QueueSettlement, JobForgotten, TakeSettlementJob, AdminSettle, SettleStep, Claim,
     PayWinnings, CompleteAndFinalise, SettlementFails, SettlementDies, scores,
     closingVars
<1>7. crashed' \in BOOLEAN
  BY <1>0, Zenon DEF ClosingTypeOK, ClosingNext, MatchCompletes, DayPasses,
     TransitionStatus, StatsArrive, LiveTick, Scoring, ReadStatistics, AdminRecompute,
     ScoringStalls, PersistRecompute, ScoringFails, QueueFinalScoring, QueueSettlement,
     JobForgotten, TakeSettlementJob, AdminSettle, SettleStep, Claim, PayWinnings,
     CompleteAndFinalise, SettlementFails, SettlementDies, settlement, closingVars
<1>8. payment' \in Payment
  <2>1. CASE \E s \in Settlers, paid \in {"some", "all"} : Pays(s, paid)
    <3>1. PICK s \in Settlers, paid \in {"some", "all"} : Pays(s, paid)
      BY <2>1
    <3>2. ScoringPending \in BOOLEAN /\ late \in BOOLEAN
      BY <1>0 DEF ClosingTypeOK, ScoringPending
    <3>3. totals \in 0..MaxScores /\ stats \in 0..MaxScores /\ newest \in 0..MaxScores
      BY <1>0, ClosingAssumption DEF ClosingTypeOK
    <3> QED
      BY <3>1, <3>2, <3>3 DEF Pays, Payment
  <2>2. CASE payment' = payment
    BY <1>0, <2>2 DEF ClosingTypeOK
  <2> QED
    BY <2>1, <2>2, OnlyRunsPay
<1> QED
  BY <1>1, <1>2, <1>3, <1>4, <1>5, <1>6, <1>7, <1>8
  DEF ClosingTypeOK, ScoringTypes, Scorings, SettleJobs, Runs, Results

(* ... and nothing but the scan's own scoring begins the settlement.       *)
LEMMA OnlyTheScanBegins ==
  ASSUME ClosingTypeOK, WorkerHasJob, [ClosingNext]_closingVars, Begun'
  PROVE  Begun \/ (QueueFinalScoring /\ phase = "completed" /\ phase' = phase)
<1>1. CASE QueueFinalScoring
  BY <1>1 DEF QueueFinalScoring
<1>2. CASE QueueSettlement \/ JobForgotten \/ TakeSettlementJob
  BY <1>2 DEF QueueSettlement, JobForgotten, TakeSettlementJob, Begun
<1>3. ASSUME NEW a \in Admins, AdminSettle(a)
      PROVE  Begun
  <2>1. a # Worker /\ UNCHANGED <<scan, job>> /\ run' = [run EXCEPT ![a] = "claim"]
    BY <1>3, ClosingAssumption DEF AdminSettle
  <2> QED
    BY <2>1 DEF Begun, ClosingTypeOK
<1>4. ASSUME NEW s \in Settlers, SettleStep(s) \/ SettlementFails(s) \/ SettlementDies(s)
      PROVE  Begun
  <2>1. CASE s = Worker
    <3>1. run[s] # "idle"
      BY <1>4 DEF SettleStep, Claim, PayWinnings, CompleteAndFinalise, SettlementFails,
         SettlementDies, Claimed
    <3> QED
      BY <2>1, <3>1 DEF Begun
  <2>2. CASE s # Worker
    <3>1. scan' = scan /\ job' = job
      BY <1>4, <2>2 DEF SettleStep, Claim, PayWinnings, CompleteAndFinalise,
         SettlementFails,
         SettlementDies, Throws
    <3>2. \E step \in {"idle", "pay", "close"} : run' = [run EXCEPT ![s] = step]
      BY <1>4 DEF SettleStep, Claim, PayWinnings, CompleteAndFinalise, SettlementFails,
         SettlementDies, Ends
    <3>3. run'[Worker] = run[Worker]
      BY <2>2, <3>2 DEF ClosingTypeOK, Settlers
    <3> QED
      BY <3>1, <3>3 DEF Begun
  <2> QED
    BY <2>1, <2>2
<1>5. CASE \/ MatchCompletes \/ DayPasses \/ TransitionStatus \/ StatsArrive \/ LiveTick
           \/ Scoring \/ UNCHANGED closingVars
  BY <1>5 DEF MatchCompletes, DayPasses, TransitionStatus, StatsArrive, LiveTick,
     Scoring, ReadStatistics, AdminRecompute, ScoringStalls, PersistRecompute,
     ScoringFails, settlement, closingVars, Begun
<1> QED
  BY <1>1, <1>2, <1>3, <1>4, <1>5 DEF ClosingNext, Scoring

LEMMA Preserves ==
  ASSUME ClosingInv, [ClosingNext]_closingVars
  PROVE  ClosingInv'
<1>0. ClosingTypeOK /\ WorkerHasJob
  BY DEF ClosingInv
<1>1. ClosingTypeOK' /\ WorkerHasJob'
  BY <1>0, TypingStep, JobStep
<1>2. phase # "running" => phase' # "running"
  BY DEF ClosingNext, MatchCompletes, DayPasses, TransitionStatus, StatsArrive,
     LiveTick, Scoring, ReadStatistics, AdminRecompute, ScoringStalls, PersistRecompute,
     ScoringFails, QueueFinalScoring, QueueSettlement, JobForgotten, TakeSettlementJob,
     AdminSettle, SettleStep, Claim, PayWinnings, CompleteAndFinalise, SettlementFails,
     SettlementDies, closingVars
<1>3. Begun' => phase' # "running" /\ TotalsCatchUp'
  <2> SUFFICES ASSUME Begun' PROVE phase' # "running" /\ TotalsCatchUp'
    OBVIOUS
  <2>1. CASE Begun
    BY <1>0, <1>2, <2>1, ScoringStep DEF ClosingInv
  <2>2. CASE QueueFinalScoring /\ phase = "completed" /\ phase' = phase
    BY <1>0, <2>2, ScoringStep
  <2> QED
    BY <1>0, <2>1, <2>2, OnlyTheScanBegins
<1>4. SettlementLagsOnlyBehindScoring'
  <2>1. ASSUME NEW s \in Settlers, run[s] = "pay", NEW paid \in {"some", "all"}, Pays(s, paid)
        PROVE  SettlementLagsOnlyBehindScoring'
    <3>1. /\ payment'.on = totals /\ payment'.stats = stats /\ payment'.newest = newest
          /\ payment'.pending = ScoringPending /\ payment'.late = late /\ payment'.by = s
      BY <2>1 DEF Pays
    <3>2. CASE s # Worker
      BY <3>1, <3>2 DEF SettlementLagsOnlyBehindScoring
    <3>3. CASE s = Worker
      <4>1. TotalsCatchUp
        BY <2>1, <3>3 DEF ClosingInv, Begun
      <4>2. totals = stats \/ ScoringPending \/ late \/ totals < newest
        <5>1. totals \in 0..newest /\ newest \in 0..stats /\ stats \in Nat
          BY <1>0, ClosingAssumption DEF ClosingTypeOK
        <5> QED
          BY <4>1, <5>1 DEF TotalsCatchUp, ScoringPending
      <4> QED
        BY <3>1, <4>2, Zenon DEF SettlementLagsOnlyBehindScoring
    <3> QED
      BY <3>2, <3>3
  <2>2. CASE payment' = payment
    BY <2>2 DEF ClosingInv, SettlementLagsOnlyBehindScoring
  <2> QED
    BY <2>1, <2>2, OnlyRunsPay
<1> QED
  BY <1>1, <1>3, <1>4 DEF ClosingInv

-----------------------------------------------------------------------------
(* The variables of ContestClosing keep their types (ClosingTypeOK), with  *)
(* any number of administrators, scorings and failures.                    *)
THEOREM ClosingTyped == ClosingSpec => []ClosingTypeOK
<1>1. ClosingInit => ClosingInv
  BY InitEstablishes
<1>2. ClosingInv /\ [ClosingNext]_closingVars => ClosingInv'
  BY Preserves
<1>3. ClosingInv => ClosingTypeOK
  BY DEF ClosingInv
<1> QED
  BY <1>1, <1>2, <1>3, PTL DEF ClosingSpec

(* The worker of the settlement queue ranks the entries by totals older    *)
(* than the statistics only behind a scoring that is pending or was given  *)
(* up, after late statistics, or where an overlapping recomputation has    *)
(* overwritten newer totals (SettlementLagsOnlyBehindScoring): for any     *)
(* workers, administrators, scorings and failures.                         *)
THEOREM SettlementNeverOvertakesScoring == ClosingSpec => []SettlementLagsOnlyBehindScoring
<1>1. ClosingInit => ClosingInv
  BY InitEstablishes
<1>2. ClosingInv /\ [ClosingNext]_closingVars => ClosingInv'
  BY Preserves
<1>3. ClosingInv => SettlementLagsOnlyBehindScoring
  BY DEF ClosingInv
<1> QED
  BY <1>1, <1>2, <1>3, PTL DEF ClosingSpec

-----------------------------------------------------------------------------
(* Messages.  What has been done for a notification or an envelope, and    *)
(* what is still to come of it, are together at most one more than it was  *)
(* done again for (Counted).  To come are the handlers about it, its jobs  *)
(* that wait, and the one somebody has yet to add (Unborn).  What the user *)
(* has received of an envelope is at most one per process and publication  *)
(* (Deliveries), beside the echoes.                                        *)
Performed(s) == IF s \in Notification THEN docs[s] ELSE published[s]
AtWork == {"create", "publish"}
About(s) == {h \in Handlers : Of(work[h].on) = s /\ work[h].step \in AtWork}
JobsOf(s) == {j \in Job : Of(j) = s}
Waiting(s) == {j \in JobsOf(s) : jobs[j].state = "waiting"}
Unborn(s) ==
  \/ s \in todo
  \/ \E n \in Notification, k \in 1..MaxFaults + 1 : s = <<n, k>> /\ docs[n] < k
  \/ \E h \in Handlers : Announcing(h, s)
Pending(s) == IF Unborn(s) THEN 1 ELSE 0
Counted(s) ==
  Performed(s) + Cardinality(About(s)) + Cardinality(Waiting(s)) + Pending(s) <= 1 + again[s]

SoundJobs == {b \in Jobs : b.state \in {"waiting", "active"} => b.made < Attempts}
WorkSteps == {"none", "create", "announce", "publish", "finish"}
WorkDoc == [on : Job \cup {Nobody}, doc : Nat, step : WorkSteps]
WorkOK(w) ==
  \/ w = Free
  \/ w.on \in Delivery /\ w.step = "create"
  \/ w.on \in Delivery /\ w.step = "announce" /\ w.doc \in 1..docs[Of(w.on)]
  \/ w.on \in Envelope /\ w.step = "publish"
  \/ w.on \in Job /\ w.step = "finish"

MessagesShaped ==
  /\ todo \subseteq Notification \cup Event
  /\ jobs \in [Job -> SoundJobs] /\ work \in [Handlers -> WorkDoc]
  /\ docs \in [Notification -> Nat] /\ published \in [Envelope -> Nat]
  /\ again \in [Item -> Nat] /\ faults \in 0..MaxFaults
MailShaped ==
  /\ dead \subseteq Envelope
  /\ connected \in BOOLEAN /\ inRoom \in BOOLEAN
  /\ inbox \in [Process -> [Envelope -> Nat]]
  /\ received \in [Envelope -> Nat] /\ echoes \in [Envelope -> Nat]

WorkersOK ==
  /\ \A h \in Handlers : WorkOK(work[h])
  /\ \A g, h \in Handlers : \A e : Announcing(g, e) /\ Announcing(h, e) => g = h

CountsOK == \A s \in Item : Counted(s) /\ again[s] <= faults

(* A delivery is a process and a number: the deliveries that a process has *)
(* behind it are those of the messages it has not in its inbox.            *)
Deliveries(e) ==
  {x \in Process \X (1..published[e]) : inbox[x[1]][e] + x[2] <= published[e]}
Delivered(e) ==
  /\ \A p \in Process : inbox[p][e] <= published[e]
  /\ received[e] <= Cardinality(Deliveries(e)) + echoes[e]

QueueInv == MessagesShaped /\ WorkersOK /\ CountsOK
RealtimeInv ==
  /\ QueueInv /\ MailShaped
  /\ \A e \in Envelope : Delivered(e)

LEMMA NamesDiffer ==
  /\ MaxFaults \in Nat /\ MaxAdds \in Nat
  /\ \A n \in Notification : n \in Item /\ n \notin Envelope /\ n \notin Event
  /\ \A e \in Envelope : e \in Item /\ e \in Job /\ e \notin Notification /\ Of(e) = e
  /\ \A d \in Delivery : d \in Job /\ d \notin Envelope /\ Of(d) \in Notification
  /\ \A j \in Job : Of(j) \in Item
  /\ Event \subseteq Envelope
  /\ \A n \in Notification, k \in 1..MaxFaults + 1 :
       <<n, k>> \in Envelope /\ <<n, k>> \notin Notification \cup Event
<1>1. /\ MaxFaults \in Nat /\ MaxAdds \in Nat /\ Event \subseteq Envelope
      /\ \A n \in Notification : n \in Item /\ n \notin Envelope
      /\ \A e \in Envelope : e \in Item /\ e \in Job /\ e \notin Notification /\ e \notin Delivery
  BY RealtimeAssumption DEF Job, Envelope, Item
<1>2. ASSUME NEW d \in Delivery
      PROVE  d \in Job /\ d \notin Envelope /\ Of(d) \in Notification
  BY RealtimeAssumption DEF Job, Item, Delivery, Of
<1>3. ASSUME NEW j \in Job
      PROVE  Of(j) \in Item
  BY <1>1, <1>2 DEF Job, Item, Of
<1>4. \A n \in Notification, k \in 1..MaxFaults + 1 :
        <<n, k>> \in Envelope /\ <<n, k>> \notin Notification \cup Event
  BY <1>1, RealtimeAssumption DEF Envelope
<1> QED
  BY <1>1, <1>2, <1>3, <1>4 DEF Of

(* The jobs of one notification are as many as its adds, at most.          *)
Copies(n, k) == {<<n, "deliver", i>> : i \in 1..k}

LEMMA CopiesBounded ==
  ASSUME NEW n, NEW k \in Nat
  PROVE  IsFiniteSet(Copies(n, k)) /\ Cardinality(Copies(n, k)) <= k
<1> DEFINE f == [i \in 1..k |-> <<n, "deliver", i>>]
<1>1. f \in Surjection(1..k, Copies(n, k))
  BY DEF Surjection, Copies
<1>2. IsFiniteSet(1..k) /\ Cardinality(1..k) = k
  BY FS_Interval
<1> HIDE DEF f
<1> QED
  BY <1>1, <1>2, FS_Surjection

LEMMA JobsFinite ==
  ASSUME NEW s
  PROVE  IsFiniteSet(JobsOf(s))
<1>1. JobsOf(s) \subseteq Copies(s, MaxAdds) \cup {s}
  BY DEF JobsOf, Of, Delivery, Copies
<1>2. IsFiniteSet(Copies(s, MaxAdds) \cup {s})
  BY NamesDiffer, CopiesBounded, FS_AddElement
<1> QED
  BY <1>1, <1>2, FS_Subset

LEMMA Sizes ==
  ASSUME NEW s
  PROVE  /\ IsFiniteSet(About(s)) /\ Cardinality(About(s)) \in Nat
         /\ IsFiniteSet(Waiting(s)) /\ Cardinality(Waiting(s)) \in Nat
         /\ Pending(s) \in {0, 1}
<1>1. IsFiniteSet(About(s)) /\ IsFiniteSet(Waiting(s))
  BY RealtimeAssumption, JobsFinite, FS_Subset DEF About, Waiting
<1> QED
  BY <1>1, FS_CardinalityType DEF Pending

LEMMA SizesNext ==
  ASSUME NEW s
  PROVE  /\ IsFiniteSet(About(s)') /\ Cardinality(About(s)') \in Nat
         /\ IsFiniteSet(Waiting(s)') /\ Cardinality(Waiting(s)') \in Nat
         /\ Pending(s)' \in {0, 1}
<1>1. IsFiniteSet(About(s)') /\ IsFiniteSet(Waiting(s)')
  BY RealtimeAssumption, JobsFinite, FS_Subset DEF About, Waiting
<1> QED
  BY <1>1, FS_CardinalityType DEF Pending

LEMMA SizeMoves ==
  ASSUME NEW S, NEW T, NEW x, IsFiniteSet(S)
  PROVE  /\ T \subseteq S \cup {x} => Cardinality(T) <= Cardinality(S) + 1
         /\ x \in S /\ T \subseteq S \ {x} => Cardinality(T) + 1 <= Cardinality(S)
         /\ T \subseteq S => Cardinality(T) <= Cardinality(S)
<1>1. /\ IsFiniteSet(S \cup {x}) /\ Cardinality(S \cup {x}) \in Nat
      /\ Cardinality(S \cup {x}) <= Cardinality(S) + 1 /\ Cardinality(S) \in Nat
  <2>1. IsFiniteSet(S \cup {x}) /\ Cardinality(S) \in Nat
    BY FS_AddElement, FS_CardinalityType
  <2>2. Cardinality(S \cup {x}) \in Nat
    BY <2>1, FS_CardinalityType
  <2>3. Cardinality(S \cup {x}) \in {Cardinality(S), Cardinality(S) + 1}
    BY FS_AddElement
  <2> QED
    BY <2>1, <2>2, <2>3
<1>2. /\ IsFiniteSet(S \ {x}) /\ Cardinality(S \ {x}) \in Nat
      /\ x \in S => Cardinality(S \ {x}) = Cardinality(S) - 1
  BY FS_RemoveElement, FS_CardinalityType
<1>3. ASSUME NEW U, IsFiniteSet(U), T \subseteq U
      PROVE  Cardinality(T) <= Cardinality(U) /\ Cardinality(T) \in Nat
  BY <1>3, FS_Subset, FS_CardinalityType
<1>4. ASSUME T \subseteq S \cup {x} PROVE Cardinality(T) <= Cardinality(S) + 1
  BY <1>1, <1>3, <1>4
<1>5. ASSUME x \in S, T \subseteq S \ {x} PROVE Cardinality(T) + 1 <= Cardinality(S)
  BY <1>1, <1>2, <1>3, <1>5
<1>6. ASSUME T \subseteq S PROVE Cardinality(T) <= Cardinality(S)
  BY <1>3, <1>6
<1> QED
  BY <1>4, <1>5, <1>6

(* What one handler's change does to those that are about something, and   *)
(* one job's to those that wait.                                           *)
LEMMA WorkStep ==
  ASSUME MessagesShaped, NEW h \in Handlers, NEW w \in WorkDoc,
         work' = [work EXCEPT ![h] = w]
  PROVE  /\ work' \in [Handlers -> WorkDoc] /\ work'[h] = w
         /\ \A g \in Handlers \ {h} : work'[g] = work[g]
  BY DEF MessagesShaped

LEMMA AboutStep ==
  ASSUME MessagesShaped, NEW h \in Handlers, NEW w \in WorkDoc,
         work' = [work EXCEPT ![h] = w], NEW s
  PROVE  /\ About(s)' \subseteq About(s) \cup {h}
         /\ w.step \notin AtWork \/ Of(w.on) # s => About(s)' \subseteq About(s) \ {h}
         /\ w = work[h] => About(s)' = About(s)
  BY WorkStep DEF About

LEMMA WaitingStep ==
  ASSUME MessagesShaped, NEW j \in Job, NEW b \in SoundJobs,
         jobs' = [jobs EXCEPT ![j] = b]
  PROVE  /\ jobs' \in [Job -> SoundJobs]
         /\ \A s : Of(j) # s => Waiting(s)' = Waiting(s)
         /\ \A s : Waiting(s)' \subseteq Waiting(s) \cup {j}
         /\ b.state # "waiting" => \A s : Waiting(s)' \subseteq Waiting(s) \ {j}
         /\ (b.state = "waiting" => jobs[j].state = "waiting")
              => \A s : Waiting(s)' \subseteq Waiting(s)
<1>1. jobs' \in [Job -> SoundJobs] /\ jobs'[j] = b /\ \A i \in Job \ {j} : jobs'[i] = jobs[i]
  BY DEF MessagesShaped
<1> QED
  BY <1>1 DEF Waiting, JobsOf

(* A step that changes the counts of one item only.                        *)
LEMMA CountsStep ==
  ASSUME QueueInv, MessagesShaped', NEW s \in Item,
         \A i \in Item \ {s} :
            /\ Performed(i)' = Performed(i) /\ again'[i] = again[i]
            /\ About(i)' \subseteq About(i) /\ Waiting(i)' \subseteq Waiting(i)
            /\ Unborn(i)' => Unborn(i),
         Counted(s)', again'[s] <= faults', faults <= faults'
  PROVE  CountsOK'
<1>1. ASSUME NEW i \in Item \ {s}
      PROVE  Counted(i)' /\ again'[i] <= faults'
  <2>1. Counted(i) /\ again[i] <= faults
    BY DEF QueueInv, CountsOK
  <2>2. Performed(i) \in Nat /\ again[i] \in Nat /\ faults \in Nat /\ faults' \in Nat
    BY DEF QueueInv, MessagesShaped, Performed, Item
  <2>3. /\ Cardinality(About(i)') <= Cardinality(About(i))
        /\ Cardinality(Waiting(i)') <= Cardinality(Waiting(i))
    BY Sizes, SizeMoves
  <2>4. Pending(i)' <= Pending(i)
    BY DEF Pending
  <2>5. Counted(i)'
    BY <2>1, <2>2, <2>3, <2>4, Sizes, SizesNext DEF Counted
  <2> QED
    BY <2>1, <2>2, <2>5
<1> QED
  BY <1>1 DEF CountsOK

LEMMA UnbornShrinks ==
  ASSUME todo' \subseteq todo,
         \A n \in Notification : docs[n] \in Nat /\ docs'[n] \in Nat /\ docs[n] <= docs'[n],
         NEW i, \A h \in Handlers : Announcing(h, i)' => Announcing(h, i) \/ Unborn(i)
  PROVE  Unborn(i)' => Unborn(i)
<1> SUFFICES ASSUME Unborn(i)' PROVE Unborn(i)
  OBVIOUS
<1>1. CASE i \in todo'
  BY <1>1 DEF Unborn
<1>2. CASE \E n \in Notification, k \in 1..MaxFaults + 1 : i = <<n, k>> /\ docs'[n] < k
  <2>1. PICK n \in Notification, k \in 1..MaxFaults + 1 : i = <<n, k>> /\ docs'[n] < k
    BY <1>2
  <2>2. docs[n] < k
    BY <2>1, RealtimeAssumption
  <2> QED
    BY <2>1, <2>2 DEF Unborn
<1>3. CASE \E h \in Handlers : Announcing(h, i)'
  BY <1>3 DEF Unborn
<1> QED
  BY <1>1, <1>2, <1>3 DEF Unborn

LEMMA WorkStays ==
  ASSUME NEW w \in WorkDoc, WorkOK(w),
         \A n \in Notification : docs[n] \in Nat /\ docs'[n] \in Nat /\ docs[n] <= docs'[n]
  PROVE  WorkOK(w)'
<1>1. CASE w.on \in Delivery /\ w.step = "announce" /\ w.doc \in 1..docs[Of(w.on)]
  BY <1>1, NamesDiffer DEF WorkOK, WorkDoc
<1> QED
  BY <1>1 DEF WorkOK
(* What the queue does to a job.                                           *)
LEMMA JobMoves ==
  ASSUME NEW b \in SoundJobs, NEW h \in Handlers
  PROVE  /\ Add(b) \in SoundJobs
         /\ Take(b, h).state = "active"
         /\ b.state = "waiting" => Take(b, h) \in SoundJobs
         /\ Complete(b, h) \in SoundJobs
         /\ Complete(b, h).state = "waiting" => b.state = "waiting"
         /\ Retry(b, h) \in SoundJobs
         /\ HeldBy(b, h) => b.state = "active" /\ Stall(b) \in SoundJobs
         /\ NoJob \in SoundJobs /\ NoJob.state # "waiting"
<1>0. /\ b.state \in {"none", "waiting", "active", "failed"} /\ b.made \in 0..Attempts
      /\ b.stalls \in 0..1 /\ b.worker \in Handlers \cup {Nobody} /\ b \in Jobs
      /\ b.state \in {"waiting", "active"} => b.made < Attempts
      /\ Attempts \in Nat \ {0}
  BY JobQueueAssumption DEF SoundJobs, Jobs
<1>1. NoJob \in SoundJobs /\ NoJob.state # "waiting"
  BY <1>0 DEF SoundJobs, Jobs, NoJob
<1>2. Add(b) \in SoundJobs
  BY <1>0 DEF SoundJobs, Jobs, NoJob, Add
<1>3. Take(b, h).state = "active" /\ (b.state = "waiting" => Take(b, h) \in SoundJobs)
  BY <1>0 DEF SoundJobs, Jobs, Take
<1>4. Complete(b, h) \in SoundJobs /\ (Complete(b, h).state = "waiting" => b.state = "waiting")
  BY <1>1 DEF Complete
<1>5. Retry(b, h) \in SoundJobs
  <2>1. CASE HeldBy(b, h)
    <3>1. b.made + 1 \in 0..Attempts
      BY <1>0, <2>1 DEF HeldBy
    <3> QED
      BY <1>0, <2>1, <3>1 DEF SoundJobs, Jobs, Retry
  <2> QED
    BY <2>1 DEF Retry
<1>6. HeldBy(b, h) => b.state = "active" /\ Stall(b) \in SoundJobs
  <2>1. SUFFICES ASSUME HeldBy(b, h) PROVE Stall(b) \in SoundJobs
    BY DEF HeldBy
  <2>2. /\ Stall(b) \in Jobs /\ Stall(b).made = b.made
    <3>1. PICK st \in {"waiting", "failed"} :
            Stall(b) = [b EXCEPT !.worker = Nobody, !.stalls = 1, !.state = st]
      BY DEF Stall
    <3>2. 1 \in 0..1 /\ st \in {"none", "waiting", "active", "failed"}
      OBVIOUS
    <3>3. Stall(b) = [state |-> st, made |-> b.made, stalls |-> 1, worker |-> Nobody]
      BY <1>0, <3>1 DEF Jobs
    <3> QED
      BY <1>0, <3>2, <3>3 DEF Jobs
  <2>3. b.made < Attempts
    BY <1>0, <2>1 DEF HeldBy
  <2> QED
    BY <2>2, <2>3 DEF SoundJobs
<1> QED
  BY <1>1, <1>2, <1>3, <1>4, <1>5, <1>6

LEMMA QueueFacts ==
  ASSUME QueueInv
  PROVE  /\ MessagesShaped /\ WorkersOK /\ CountsOK
         /\ \A h \in Handlers : work[h] \in WorkDoc /\ WorkOK(work[h])
         /\ \A j \in Job : jobs[j] \in SoundJobs
         /\ \A s \in Item : /\ Counted(s) /\ Performed(s) \in Nat
                            /\ again[s] \in Nat /\ again[s] <= faults
         /\ faults \in Nat /\ faults <= MaxFaults /\ MaxFaults \in Nat
         /\ \A n \in Notification : docs[n] \in Nat /\ docs[n] <= MaxFaults + 1
<1>1. MessagesShaped /\ WorkersOK /\ CountsOK /\ MaxFaults \in Nat
  BY NamesDiffer DEF QueueInv
<1>2. faults \in Nat /\ faults <= MaxFaults
  BY <1>1 DEF MessagesShaped
<1>3. ASSUME NEW s \in Item
      PROVE  /\ Counted(s) /\ Performed(s) \in Nat
             /\ again[s] \in Nat /\ again[s] <= faults
  BY <1>1 DEF MessagesShaped, CountsOK, Performed, Item
<1>4. ASSUME NEW n \in Notification
      PROVE  docs[n] \in Nat /\ docs[n] <= MaxFaults + 1
  <2>1. n \in Item /\ Performed(n) = docs[n]
    BY NamesDiffer DEF Performed
  <2>2. docs[n] <= 1 + again[n]
    BY <1>3, <2>1, Sizes DEF Counted
  <2> QED
    BY <1>1, <1>2, <1>3, <2>1, <2>2
<1> QED
  BY <1>1, <1>2, <1>3, <1>4 DEF MessagesShaped, WorkersOK

LEMMA AnnouncedIsEnvelope ==
  ASSUME QueueInv, NEW h \in Handlers, NEW e, Announcing(h, e)
  PROVE  /\ work[h].on \in Delivery /\ Of(work[h].on) \in Notification
         /\ work[h].doc \in 1..MaxFaults + 1 /\ work[h].doc <= docs[Of(work[h].on)]
         /\ e = <<Of(work[h].on), work[h].doc>>
         /\ e \in Envelope /\ e \notin Notification \cup Event
<1>1. work[h].on \in Delivery /\ work[h].doc \in 1..docs[Of(work[h].on)]
  BY QueueFacts DEF WorkOK, Announcing, Free
<1>2. Of(work[h].on) \in Notification
  BY <1>1, NamesDiffer
<1>3. work[h].doc \in 1..MaxFaults + 1 /\ work[h].doc <= docs[Of(work[h].on)]
  BY <1>1, <1>2, QueueFacts
<1>4. e = <<Of(work[h].on), work[h].doc>>
  BY DEF Announcing, Announced
<1> QED
  BY <1>1, <1>2, <1>3, <1>4, NamesDiffer

LEMMA AnnouncingStays ==
  ASSUME NEW h \in Handlers, work'[h] = work[h], NEW e
  PROVE  Announcing(h, e)' = Announcing(h, e)
  BY DEF Announcing, Announced

(* A handler goes on with its job, or ends it.                             *)
LEMMA HandlerChanges ==
  ASSUME QueueInv, NEW h \in Handlers, NEW w \in WorkDoc,
         work' = [work EXCEPT ![h] = w], todo' \subseteq todo,
         \A n \in Notification : docs'[n] \in Nat /\ docs[n] <= docs'[n],
         WorkOK(w)',
         \/ w.step # "announce" \/ w = work[h]
         \/ LET e == <<Of(w.on), w.doc>> IN
            Unborn(e) /\ \A g \in Handlers : ~Announcing(g, e)
  PROVE  WorkersOK' /\ \A i : Unborn(i)' => Unborn(i)
<1>1. /\ MessagesShaped /\ WorkersOK
      /\ \A n \in Notification : docs[n] \in Nat /\ docs'[n] \in Nat /\ docs[n] <= docs'[n]
      /\ \A g \in Handlers : work[g] \in WorkDoc /\ WorkOK(work[g])
  BY QueueFacts
<1>2. work'[h] = w /\ \A g \in Handlers \ {h} : work'[g] = work[g]
  BY <1>1, WorkStep
<1>3. ASSUME NEW g \in Handlers
      PROVE  WorkOK(work[g])'
  <2>1. CASE g = h
    BY <1>2, <2>1
  <2>2. CASE g # h
    <3>1. PICK v \in WorkDoc : v = work[g] /\ v = work'[g] /\ WorkOK(v)
      BY <1>1, <1>2, <2>2
    <3>2. WorkOK(v)'
      BY <1>1, <3>1, WorkStays
    <3> QED
      BY <3>1, <3>2
  <2> QED
    BY <2>1, <2>2
<1>4. ASSUME NEW e, Announcing(h, e)'
      PROVE  /\ Announcing(h, e) \/ Unborn(e)
             /\ \A g \in Handlers \ {h} : ~Announcing(g, e)
  <2>1. w.step = "announce" /\ e = <<Of(w.on), w.doc>>
    BY <1>2, <1>4 DEF Announcing, Announced
  <2>2. CASE w = work[h]
    <3>1. Announcing(h, e)
      BY <2>1, <2>2 DEF Announcing, Announced
    <3> QED
      BY <1>1, <3>1 DEF WorkersOK
  <2> QED
    BY <2>1, <2>2
<1>5. ASSUME NEW g \in Handlers \ {h}, NEW e
      PROVE  Announcing(g, e)' = Announcing(g, e)
  BY <1>2, AnnouncingStays
<1>6. ASSUME NEW f \in Handlers, NEW g \in Handlers, NEW e,
             Announcing(f, e)', Announcing(g, e)'
      PROVE  f = g
  <2>1. CASE f # h /\ g # h
    BY <1>1, <1>5, <1>6, <2>1 DEF WorkersOK
  <2>2. CASE f = h \/ g = h
    BY <1>4, <1>5, <1>6, <2>2
  <2> QED
    BY <2>1, <2>2
<1>7. ASSUME NEW i
      PROVE  Unborn(i)' => Unborn(i)
  <2>1. \A g \in Handlers : Announcing(g, i)' => Announcing(g, i) \/ Unborn(i)
    BY <1>4, <1>5
  <2> QED
    BY <1>1, <2>1, UnbornShrinks
<1>8. \A g \in Handlers : WorkOK(work[g])'
  BY <1>3
<1> QED
  BY <1>6, <1>7, <1>8 DEF WorkersOK

LEMMA WorkersStay ==
  ASSUME QueueInv, UNCHANGED <<work, docs>>, todo' \subseteq todo
  PROVE  WorkersOK' /\ \A i : (Unborn(i)' => Unborn(i)) /\ About(i)' = About(i)
<1>1. \A g \in Handlers : WorkOK(work[g])'
  BY QueueFacts DEF WorkOK
<1>2. \A g \in Handlers : \A e : Announcing(g, e)' = Announcing(g, e)
  BY DEF Announcing, Announced
<1>3. WorkersOK'
  BY <1>1, <1>2, QueueFacts DEF WorkersOK
<1>4. \A i : Unborn(i)' => Unborn(i)
  BY <1>2 DEF Unborn
<1> QED
  BY <1>3, <1>4 DEF About

LEMMA FreeFits == Free \in WorkDoc /\ Free.step = "none" /\ WorkOK(Free)'
<1>1. Free \in WorkDoc /\ Free.step = "none"
  BY DEF Free, WorkDoc, WorkSteps
<1> QED
  BY <1>1 DEF WorkOK

LEMMA FaultsMove ==
  ASSUME QueueInv, faults' = faults \/ Fault
  PROVE  /\ faults' \in 0..MaxFaults /\ faults' \in Nat /\ faults <= faults'
         /\ Fault => faults' = faults + 1
  BY QueueFacts DEF Fault

(* Nobody is going to add the job of what has been handed over.            *)
LEMMA HandedOver ==
  ASSUME QueueInv, NEW s \in todo, todo' = todo \ {s}, UNCHANGED <<work, docs>>
  PROVE  Pending(s) = 1 /\ Pending(s)' = 0 /\ s \in Item /\ s \in Notification \cup Event
<1>1. s \in Notification \cup Event /\ s \in Item
  BY QueueFacts, NamesDiffer DEF MessagesShaped
<1>2. ~ \E n \in Notification, k \in 1..MaxFaults + 1 : s = <<n, k>>
  BY <1>1, NamesDiffer
<1>3. ~ \E h \in Handlers : Announcing(h, s)'
  BY <1>1, AnnouncedIsEnvelope DEF Announcing, Announced
<1>4. ~Unborn(s)'
  BY <1>2, <1>3 DEF Unborn
<1> QED
  BY <1>1, <1>4 DEF Pending, Unborn

LEMMA EnqueueKeeps ==
  ASSUME QueueInv, NEW n \in Notification, Enqueue(n)
  PROVE  QueueInv'
<1>1. PICK k \in 1..MaxAdds :
        /\ faults' = faults + k - 1 /\ faults' <= MaxFaults
        /\ jobs' = [j \in Job |-> IF \E i \in 1..k : j = <<n, "deliver", i>>
                                  THEN Add(jobs[j]) ELSE jobs[j]]
        /\ again' = [again EXCEPT ![n] = @ + k - 1]
  BY DEF Enqueue
<1>2. n \in todo /\ todo' = todo \ {n} /\ UNCHANGED <<work, docs, published>>
  BY DEF Enqueue
<1>3. k \in Nat /\ 1 <= k /\ faults \in Nat /\ faults' \in Nat /\ faults <= faults'
  BY <1>1, QueueFacts, NamesDiffer
<1>4. jobs' \in [Job -> SoundJobs]
  <2>1. ASSUME NEW j \in Job
        PROVE  jobs'[j] \in SoundJobs
    <3>1. PICK b \in SoundJobs : b = jobs[j]
      BY QueueFacts
    <3>2. Add(b) \in SoundJobs
      BY JobQueueAssumption DEF SoundJobs, Jobs, NoJob, Add
    <3> QED
      BY <1>1, <3>1, <3>2
  <2> QED
    BY <1>1, <2>1
<1>5. /\ again' \in [Item -> Nat] /\ again'[n] = again[n] + k - 1 /\ again[n] \in Nat
      /\ \A i \in Item \ {n} : again'[i] = again[i]
  <2>1. n \in Item /\ again \in [Item -> Nat]
    BY NamesDiffer, QueueFacts DEF MessagesShaped
  <2> QED
    BY <1>1, <1>3, <2>1
<1>6. MessagesShaped'
  <2>1. faults' \in 0..MaxFaults
    BY <1>1, <1>3, QueueFacts
  <2> QED
    BY <1>2, <1>4, <1>5, <2>1, QueueFacts DEF MessagesShaped
<1>7. /\ WorkersOK' /\ \A i : (Unborn(i)' => Unborn(i)) /\ About(i)' = About(i)
      /\ \A i : Performed(i)' = Performed(i)
  BY <1>2, WorkersStay DEF Performed
<1>8. Pending(n) = 1 /\ Pending(n)' = 0
  BY <1>2, HandedOver
<1>9. ASSUME NEW i \in Item \ {n}
      PROVE  Waiting(i)' \subseteq Waiting(i)
  <2>1. \A j \in JobsOf(i) : jobs'[j] = jobs[j]
    <3>1. \A l \in 1..k : <<n, "deliver", l>> \in Delivery => Of(<<n, "deliver", l>>) = n
      BY DEF Of
    <3>2. \A l \in 1..k : <<n, "deliver", l>> \in Delivery
      BY NamesDiffer DEF Delivery
    <3> QED
      BY <1>1, <3>1, <3>2 DEF JobsOf
  <2> QED
    BY <2>1 DEF Waiting
<1>10. Cardinality(Waiting(n)') <= Cardinality(Waiting(n)) + k
  <2>1. Waiting(n)' \subseteq Waiting(n) \cup Copies(n, k)
    BY <1>1 DEF Waiting, JobsOf, Copies
  <2>2. IsFiniteSet(Copies(n, k)) /\ Cardinality(Copies(n, k)) <= k
    BY <1>3, CopiesBounded
  <2>3. /\ IsFiniteSet(Waiting(n) \cup Copies(n, k))
        /\ Cardinality(Waiting(n) \cup Copies(n, k)) \in Nat
        /\ Cardinality(Waiting(n) \cup Copies(n, k)) <= Cardinality(Waiting(n)) + k
    <3>1. /\ IsFiniteSet(Waiting(n) \cup Copies(n, k))
          /\ Cardinality(Waiting(n) \cup Copies(n, k))
               = Cardinality(Waiting(n)) + Cardinality(Copies(n, k))
                   - Cardinality(Waiting(n) \cap Copies(n, k))
      BY <2>2, Sizes, FS_Union
    <3>2. /\ Cardinality(Waiting(n) \cap Copies(n, k)) \in Nat
          /\ Cardinality(Waiting(n) \cup Copies(n, k)) \in Nat
          /\ Cardinality(Copies(n, k)) \in Nat
      BY <2>2, <3>1, Sizes, FS_Intersection, FS_CardinalityType
    <3> QED
      BY <1>3, <2>2, <3>1, <3>2, Sizes
  <2>4. /\ Cardinality(Waiting(n)') \in Nat
        /\ Cardinality(Waiting(n)') <= Cardinality(Waiting(n) \cup Copies(n, k))
    BY <2>1, <2>3, SizesNext, FS_Subset
  <2> QED
    BY <1>3, <2>3, <2>4, Sizes
<1>11. Counted(n)' /\ again'[n] <= faults'
  <2>1. /\ Counted(n) /\ Performed(n) \in Nat /\ again[n] <= faults
    BY NamesDiffer, QueueFacts
  <2>2. Cardinality(About(n)') = Cardinality(About(n)) /\ Performed(n)' = Performed(n)
    BY <1>7
  <2> QED
    BY <1>1, <1>3, <1>5, <1>8, <1>10, <2>1, <2>2, Sizes, SizesNext DEF Counted
<1>12. CountsOK'
  BY <1>3, <1>5, <1>6, <1>7, <1>9, <1>11, NamesDiffer, CountsStep
<1> QED
  BY <1>6, <1>7, <1>12 DEF QueueInv

(* One job is added, or none, and the jobs of others stay.                 *)
LEMMA AddOne ==
  ASSUME QueueInv, NEW j \in Job, jobs' = jobs \/ jobs' = [jobs EXCEPT ![j] = Add(@)]
  PROVE  /\ jobs' \in [Job -> SoundJobs]
         /\ \A i : Of(j) # i => Waiting(i)' \subseteq Waiting(i)
         /\ Cardinality(Waiting(Of(j))') <= Cardinality(Waiting(Of(j))) + 1
<1>1. PICK b \in SoundJobs : jobs' = [jobs EXCEPT ![j] = b]
  <2>1. PICK a \in SoundJobs : a = jobs[j]
    BY QueueFacts
  <2>2. Add(a) \in SoundJobs
    BY JobQueueAssumption DEF SoundJobs, Jobs, NoJob, Add
  <2>3. jobs = [jobs EXCEPT ![j] = a] /\ jobs \in [Job -> SoundJobs]
    BY <2>1, QueueFacts DEF MessagesShaped
  <2> QED
    BY <2>1, <2>2, <2>3
<1>2. \A i : /\ Of(j) # i => Waiting(i)' = Waiting(i)
             /\ Waiting(i)' \subseteq Waiting(i) \cup {j}
  BY <1>1, QueueFacts, WaitingStep
<1>3. jobs' \in [Job -> SoundJobs]
  BY <1>1, QueueFacts, WaitingStep
<1>4. Cardinality(Waiting(Of(j))') <= Cardinality(Waiting(Of(j))) + 1
  BY <1>2, Sizes, SizeMoves
<1> QED
  BY <1>2, <1>3, <1>4

(* An event, or a notification that fails, leaves the services.            *)
LEMMA HandOverKeeps ==
  ASSUME QueueInv, NEW s \in todo, todo' = todo \ {s},
         UNCHANGED <<work, docs, published, again>>, faults' = faults \/ Fault,
         jobs' = jobs \/ (s \in Envelope /\ jobs' = [jobs EXCEPT ![s] = Add(@)])
  PROVE  QueueInv'
<1>1. Pending(s) = 1 /\ Pending(s)' = 0 /\ s \in Item
  BY HandedOver
<1>2. faults' \in 0..MaxFaults /\ faults' \in Nat /\ faults <= faults'
  BY FaultsMove
<1>3. /\ jobs' \in [Job -> SoundJobs]
      /\ \A i : i # s => Waiting(i)' \subseteq Waiting(i)
      /\ Cardinality(Waiting(s)') <= Cardinality(Waiting(s)) + 1
  <2>1. CASE jobs' = jobs
    <3>1. \A i : Waiting(i)' = Waiting(i)
      BY <2>1 DEF Waiting
    <3>2. jobs' \in [Job -> SoundJobs]
      BY <2>1, QueueFacts DEF MessagesShaped
    <3> QED
      BY <3>1, <3>2, Sizes
  <2>2. CASE s \in Envelope /\ jobs' = [jobs EXCEPT ![s] = Add(@)]
    BY <2>2, NamesDiffer, AddOne
  <2> QED
    BY <2>1, <2>2
<1>4. MessagesShaped'
  BY <1>2, <1>3, QueueFacts DEF MessagesShaped
<1>5. /\ WorkersOK' /\ \A i : (Unborn(i)' => Unborn(i)) /\ About(i)' = About(i)
      /\ \A i : Performed(i)' = Performed(i)
  BY WorkersStay DEF Performed
<1>6. Counted(s)' /\ again'[s] <= faults'
  <2>1. /\ Counted(s) /\ Performed(s) \in Nat /\ again[s] <= faults /\ again[s] \in Nat
        /\ faults \in Nat
    BY <1>1, QueueFacts
  <2>2. Cardinality(About(s)') = Cardinality(About(s)) /\ Performed(s)' = Performed(s)
    BY <1>5
  <2> QED
    BY <1>1, <1>2, <1>3, <2>1, <2>2, Sizes, SizesNext DEF Counted
<1>7. CountsOK'
  BY <1>1, <1>2, <1>3, <1>4, <1>5, <1>6, CountsStep
<1> QED
  BY <1>4, <1>5, <1>7 DEF QueueInv

LEMMA LosesAnswerKeeps ==
  ASSUME QueueInv, NEW e \in Envelope, PublishLosesAnswer(e)
  PROVE  QueueInv'
<1>1. /\ Fault /\ jobs' = [jobs EXCEPT ![e] = Add(@)] /\ again' = [again EXCEPT ![e] = @ + 1]
      /\ UNCHANGED <<todo, work, docs, published>>
  BY DEF PublishLosesAnswer
<1>2. faults' \in 0..MaxFaults /\ faults' \in Nat /\ faults <= faults' /\ faults' = faults + 1
  BY <1>1, FaultsMove
<1>3. /\ jobs' \in [Job -> SoundJobs]
      /\ \A i : i # e => Waiting(i)' \subseteq Waiting(i)
      /\ Cardinality(Waiting(e)') <= Cardinality(Waiting(e)) + 1
  BY <1>1, NamesDiffer, AddOne
<1>4. /\ again' \in [Item -> Nat] /\ again'[e] = again[e] + 1 /\ again[e] \in Nat
      /\ \A i \in Item \ {e} : again'[i] = again[i]
  <2>1. e \in Item /\ again \in [Item -> Nat]
    BY NamesDiffer, QueueFacts DEF MessagesShaped
  <2> QED
    BY <1>1, <2>1
<1>5. MessagesShaped'
  BY <1>1, <1>2, <1>3, <1>4, QueueFacts DEF MessagesShaped
<1>6. /\ WorkersOK' /\ \A i : (Unborn(i)' => Unborn(i)) /\ About(i)' = About(i)
      /\ \A i : Performed(i)' = Performed(i)
  BY <1>1, WorkersStay DEF Performed
<1>7. Counted(e)' /\ again'[e] <= faults'
  <2>1. Counted(e) /\ Performed(e) \in Nat /\ again[e] <= faults /\ faults \in Nat
    BY NamesDiffer, QueueFacts
  <2>2. Cardinality(About(e)') = Cardinality(About(e)) /\ Performed(e)' = Performed(e)
    BY <1>6
  <2>3. Pending(e)' <= Pending(e)
    BY <1>6 DEF Pending
  <2> QED
    BY <1>2, <1>3, <1>4, <2>1, <2>2, <2>3, Sizes, SizesNext DEF Counted
<1>8. CountsOK'
  BY <1>2, <1>3, <1>4, <1>5, <1>6, <1>7, NamesDiffer, CountsStep
<1> QED
  BY <1>5, <1>6, <1>8 DEF QueueInv

LEMMA TakeJobKeeps ==
  ASSUME QueueInv, NEW h \in Handlers, NEW j \in Job, TakeJob(h, j)
  PROVE  QueueInv'
<1>1. PICK s \in Item : s = Of(j)
  BY NamesDiffer
<1>2. PICK w : w = [on |-> j, doc |-> 0, step |-> IF j \in Delivery THEN "create" ELSE "publish"]
  OBVIOUS
<1>3. /\ work[h] = Free /\ jobs[j].state = "waiting"
      /\ jobs' = [jobs EXCEPT ![j] = Take(@, h)] /\ work' = [work EXCEPT ![h] = w]
      /\ UNCHANGED <<todo, docs, published, again, faults>>
  BY <1>2 DEF TakeJob
<1>4. w \in WorkDoc /\ w.on = j /\ w.step \in AtWork /\ WorkOK(w)'
  <2>1. j \in Delivery \/ j \in Envelope
    BY DEF Job
  <2> QED
    BY <1>2, <2>1, NamesDiffer DEF WorkDoc, WorkSteps, WorkOK, AtWork
<1>5. PICK b \in SoundJobs : b = Take(jobs[j], h) /\ b.state = "active"
  <2>1. PICK a \in SoundJobs : a = jobs[j]
    BY QueueFacts
  <2> QED
    BY <1>3, <2>1, JobMoves
<1>6. jobs' = [jobs EXCEPT ![j] = b]
  BY <1>3, <1>5
<1>7. /\ WorkersOK' /\ \A i : Unborn(i)' => Unborn(i)
      /\ work' \in [Handlers -> WorkDoc] /\ jobs' \in [Job -> SoundJobs]
  <2>1. \A n \in Notification : docs'[n] \in Nat /\ docs[n] <= docs'[n]
    BY <1>3, QueueFacts
  <2>2. w.step # "announce"
    BY <1>4 DEF AtWork
  <2> QED
    BY <1>3, <1>4, <1>6, <2>1, <2>2, QueueFacts, HandlerChanges, WorkStep, WaitingStep
<1>8. MessagesShaped'
  BY <1>3, <1>7, QueueFacts DEF MessagesShaped
<1>9. ASSUME NEW i \in Item \ {s}
      PROVE  About(i)' \subseteq About(i) /\ Waiting(i)' \subseteq Waiting(i)
  <2>1. Of(w.on) # i /\ Of(j) # i
    BY <1>1, <1>4
  <2>2. About(i)' \subseteq About(i) \ {h}
    BY <1>3, <1>4, <2>1, QueueFacts, AboutStep
  <2>3. Waiting(i)' = Waiting(i)
    BY <1>6, <2>1, QueueFacts, WaitingStep
  <2> QED
    BY <2>2, <2>3
<1>10. Cardinality(About(s)') <= Cardinality(About(s)) + 1
  BY <1>3, <1>4, QueueFacts, AboutStep, Sizes, SizeMoves
<1>11. Cardinality(Waiting(s)') + 1 <= Cardinality(Waiting(s))
  <2>1. j \in Waiting(s) /\ b.state # "waiting"
    BY <1>1, <1>3, <1>5 DEF Waiting, JobsOf
  <2>2. Waiting(s)' \subseteq Waiting(s) \ {j}
    BY <1>6, <2>1, QueueFacts, WaitingStep
  <2> QED
    BY <2>1, <2>2, Sizes, SizeMoves
<1>12. Counted(s)' /\ again'[s] <= faults'
  <2>1. /\ Counted(s) /\ Performed(s) \in Nat /\ again[s] <= faults /\ again[s] \in Nat
        /\ Performed(s)' = Performed(s) /\ Pending(s)' <= Pending(s)
    BY <1>3, <1>7, QueueFacts DEF Pending, Performed
  <2> QED
    BY <1>3, <1>10, <1>11, <2>1, Sizes, SizesNext DEF Counted
<1>13. CountsOK'
  <2>1. \A i : Performed(i)' = Performed(i)
    BY <1>3 DEF Performed
  <2> QED
    BY <1>3, <1>7, <1>8, <1>9, <1>12, <2>1, QueueFacts, CountsStep
<1> QED
  BY <1>7, <1>8, <1>13 DEF QueueInv

(* A handler goes on with its job or leaves it, the job may wait again,    *)
(* and what is done may be done once more: this is what the counts change  *)
(* by.                                                                     *)
CountChange == [joins : {0, 1}, leaves : {0, 1}, done : {0, 1}, more : {0, 1}]

LEMMA ReportKeeps ==
  ASSUME QueueInv, NEW h \in Handlers, NEW j \in Job, NEW s \in Item,
         j = work[h].on, s = Of(j), NEW b \in SoundJobs, NEW w \in WorkDoc,
         NEW c \in CountChange,
         c.done + c.joins <= c.more + c.leaves,
         jobs' = [jobs EXCEPT ![j] = b],
         c.joins = 1 \/ (b.state = "waiting" => jobs[j].state = "waiting"),
         work' = [work EXCEPT ![h] = w], WorkOK(w)',
         w = work[h] \/ w.step \in {"none", "finish"},
         c.leaves = 0 \/ (work[h].step \in AtWork /\ w # work[h]),
         todo' = todo, docs' \in [Notification -> Nat], published' \in [Envelope -> Nat],
         \A n \in Notification : docs[n] <= docs'[n],
         Performed(s)' = Performed(s) + c.done,
         \A i \in Item \ {s} : Performed(i)' = Performed(i) /\ again'[i] = again[i],
         again' \in [Item -> Nat], again'[s] = again[s] + c.more,
         faults' \in 0..MaxFaults, faults + c.more <= faults'
  PROVE  QueueInv'
<1>0. c.joins \in {0, 1} /\ c.leaves \in {0, 1} /\ c.done \in {0, 1} /\ c.more \in {0, 1}
  BY DEF CountChange
<1>1. /\ jobs' \in [Job -> SoundJobs] /\ work' \in [Handlers -> WorkDoc]
  BY QueueFacts, WorkStep, WaitingStep
<1>2. MessagesShaped'
  BY <1>1, QueueFacts DEF MessagesShaped
<1>3. /\ WorkersOK' /\ \A i : Unborn(i)' => Unborn(i)
  <2>1. \A n \in Notification : docs'[n] \in Nat /\ docs[n] <= docs'[n]
    OBVIOUS
  <2>2. w.step # "announce" \/ w = work[h]
    OBVIOUS
  <2> QED
    BY <2>1, <2>2, HandlerChanges
<1>4. \A i : About(i)' \subseteq About(i)
  <2>1. CASE w = work[h]
    BY <2>1, QueueFacts, AboutStep
  <2>2. CASE w.step \in {"none", "finish"}
    <3>1. w.step \notin AtWork
      BY <2>2 DEF AtWork
    <3>2. \A i : About(i)' \subseteq About(i) \ {h}
      BY <3>1, QueueFacts, AboutStep
    <3> QED
      BY <3>2
  <2> QED
    BY <2>1, <2>2
<1>5. Cardinality(About(s)') + c.leaves <= Cardinality(About(s))
  <2>1. CASE c.leaves = 0
    BY <1>4, <2>1, Sizes, SizesNext, SizeMoves
  <2>2. CASE c.leaves = 1
    <3>1. w.step \notin AtWork /\ h \in About(s)
      BY <2>2 DEF AtWork, About
    <3>2. About(s)' \subseteq About(s) \ {h}
      BY <3>1, QueueFacts, AboutStep
    <3> QED
      BY <2>2, <3>1, <3>2, Sizes, SizeMoves
  <2> QED
    BY <1>0, <2>1, <2>2
<1>6. Cardinality(Waiting(s)') <= Cardinality(Waiting(s)) + c.joins
  <2>0. MessagesShaped
    BY QueueFacts
  <2>1. CASE c.joins = 1
    <3>1. Waiting(s)' \subseteq Waiting(s) \cup {j}
      BY <2>0, WaitingStep
    <3>2. Cardinality(Waiting(s)') <= Cardinality(Waiting(s)) + 1
      BY <3>1, Sizes, SizeMoves
    <3> QED
      BY <2>1, <3>2
  <2>2. CASE c.joins = 0
    <3>0. b.state = "waiting" => jobs[j].state = "waiting"
      BY <2>2
    <3>1. Waiting(s)' \subseteq Waiting(s)
      BY <2>0, <3>0, WaitingStep
    <3>2. Cardinality(Waiting(s)') <= Cardinality(Waiting(s))
      BY <3>1, Sizes, SizeMoves
    <3> QED
      BY <2>2, <3>2, Sizes
  <2> QED
    BY <1>0, <2>1, <2>2
<1>7. \A i \in Item \ {s} : Waiting(i)' \subseteq Waiting(i)
  <2>1. SUFFICES ASSUME NEW i \in Item \ {s} PROVE Waiting(i)' = Waiting(i)
    OBVIOUS
  <2> QED
    BY QueueFacts, WaitingStep
<1>8. Counted(s)' /\ again'[s] <= faults' /\ faults <= faults'
  <2>1. /\ Counted(s) /\ Performed(s) \in Nat /\ again[s] <= faults /\ again[s] \in Nat
        /\ faults \in Nat /\ faults' \in Nat /\ Pending(s)' <= Pending(s)
    BY <1>3, QueueFacts DEF Pending
  <2>2. Counted(s)'
    BY <1>0, <1>5, <1>6, <2>1, Sizes, SizesNext DEF Counted
  <2> QED
    BY <1>0, <2>1, <2>2
<1>9. CountsOK'
  BY <1>2, <1>3, <1>4, <1>7, <1>8, CountsStep
<1> QED
  BY <1>2, <1>3, <1>9 DEF QueueInv

LEMMA StoresMove ==
  ASSUME QueueInv, NEW n \in Notification, Stores(n)
  PROVE  /\ docs' \in [Notification -> Nat] /\ docs'[n] = docs[n] + 1
         /\ published' \in [Envelope -> Nat]
         /\ \A m \in Notification : docs'[m] \in Nat /\ docs[m] <= docs'[m]
         /\ Performed(n)' = Performed(n) + 1
         /\ \A i \in Item \ {n} : Performed(i)' = Performed(i)
  BY QueueFacts DEF Stores, MessagesShaped, Performed

LEMMA SendsMove ==
  ASSUME QueueInv, NEW e \in Envelope, Sends(e)
  PROVE  /\ docs' \in [Notification -> Nat] /\ published' \in [Envelope -> Nat]
         /\ published'[e] = published[e] + 1
         /\ \A f \in Envelope \ {e} : published'[f] = published[f]
         /\ \A m \in Notification : docs[m] <= docs'[m]
         /\ Performed(e)' = Performed(e) + 1
         /\ \A i \in Item \ {e} : Performed(i)' = Performed(i)
<1>1. docs' = docs /\ published' = [published EXCEPT ![e] = @ + 1]
  BY DEF Sends
<1>2. docs \in [Notification -> Nat] /\ published \in [Envelope -> Nat]
  BY QueueFacts DEF MessagesShaped
<1>3. \A m \in Notification : docs[m] <= docs'[m]
  BY <1>1, QueueFacts
<1>4. e \notin Notification
  BY NamesDiffer
<1> QED
  BY <1>1, <1>2, <1>3, <1>4 DEF Performed, Item

LEMMA CreateKeeps ==
  ASSUME QueueInv, NEW h \in Handlers, Create(h)
  PROVE  QueueInv'
<1>1. PICK j \in Delivery : j = work[h].on /\ work[h].step = "create"
  BY QueueFacts, NamesDiffer DEF Create, WorkOK, Free
<1>2. PICK n \in Notification : n = Of(j) /\ n \in Item /\ j \in Job
  BY NamesDiffer
<1>3. /\ Stores(n) /\ UNCHANGED <<todo, jobs, again, faults>>
      /\ work' = [work EXCEPT ![h] = [work[h] EXCEPT !.step = "announce", !.doc = docs[n] + 1]]
  BY <1>1, <1>2 DEF Create
<1>4. /\ docs[n] \in Nat /\ docs'[n] = docs[n] + 1 /\ docs' \in [Notification -> Nat]
      /\ published' \in [Envelope -> Nat] /\ Performed(n)' = Performed(n) + 1
      /\ \A m \in Notification : docs'[m] \in Nat /\ docs[m] <= docs'[m]
      /\ \A i \in Item \ {n} : Performed(i)' = Performed(i)
  BY <1>3, StoresMove, QueueFacts
<1>5. PICK w : w = [work[h] EXCEPT !.step = "announce", !.doc = docs[n] + 1]
  OBVIOUS
<1>6. /\ w \in WorkDoc /\ w.on = j /\ w.step = "announce" /\ w.doc = docs[n] + 1
      /\ work' = [work EXCEPT ![h] = w]
  <2>1. work[h] \in WorkDoc
    BY QueueFacts
  <2> QED
    BY <1>1, <1>3, <1>4, <1>5, <2>1 DEF WorkDoc, WorkSteps
<1>7. /\ Cardinality(About(n)') + 1 <= Cardinality(About(n))
      /\ \A i : About(i)' \subseteq About(i)
  <2>1. w.step \notin AtWork /\ h \in About(n)
    BY <1>1, <1>2, <1>6 DEF AtWork, About
  <2>2. \A i : About(i)' \subseteq About(i) \ {h}
    BY <1>6, <2>1, QueueFacts, AboutStep
  <2> QED
    BY <2>1, <2>2, Sizes, SizeMoves
<1>8. /\ Counted(n) /\ Performed(n) = docs[n] /\ again[n] \in Nat /\ again[n] <= faults
      /\ faults \in Nat /\ faults <= MaxFaults /\ MaxFaults \in Nat
  BY <1>2, QueueFacts DEF Performed
<1>9. docs[n] + 1 \in 1..MaxFaults + 1
  <2>1. docs[n] + 1 <= 1 + again[n]
    BY <1>4, <1>7, <1>8, Sizes, SizesNext DEF Counted
  <2> QED
    BY <1>4, <1>8, <2>1
<1>10. WorkersOK' /\ \A i : Unborn(i)' => Unborn(i)
  <2> DEFINE e == <<n, docs[n] + 1>>
  <2>1. Unborn(e)
    <3>1. docs[n] < docs[n] + 1
      BY <1>4
    <3> QED
      BY <1>9, <3>1 DEF Unborn
  <2>2. \A g \in Handlers : ~Announcing(g, e)
    <3>1. SUFFICES ASSUME NEW g \in Handlers, Announcing(g, e) PROVE FALSE
      OBVIOUS
    <3>2. e = <<Of(work[g].on), work[g].doc>> /\ work[g].doc <= docs[Of(work[g].on)]
      BY <3>1, AnnouncedIsEnvelope
    <3>3. Of(work[g].on) = n /\ work[g].doc = docs[n] + 1
      BY <3>2
    <3> QED
      BY <1>4, <3>2, <3>3
  <2>3. <<Of(w.on), w.doc>> = e
    BY <1>2, <1>6
  <2>4. WorkOK(w)'
    BY <1>2, <1>4, <1>6 DEF WorkOK
  <2> HIDE DEF e
  <2>5. todo' \subseteq todo
    BY <1>3
  <2> QED
    BY <1>4, <1>6, <2>1, <2>2, <2>3, <2>4, <2>5, HandlerChanges
<1>11. MessagesShaped'
  <2>1. work' \in [Handlers -> WorkDoc]
    BY <1>6, QueueFacts, WorkStep
  <2> QED
    BY <1>3, <1>4, <2>1, QueueFacts DEF MessagesShaped
<1>12. \A i : Waiting(i)' = Waiting(i)
  BY <1>3 DEF Waiting
<1>13. Counted(n)' /\ again'[n] <= faults' /\ faults <= faults'
  <2>1. Pending(n)' <= Pending(n) /\ Cardinality(Waiting(n)') = Cardinality(Waiting(n))
    BY <1>10, <1>12 DEF Pending
  <2>2. again'[n] = again[n] /\ faults' = faults
    BY <1>3
  <2> QED
    BY <1>4, <1>7, <1>8, <2>1, <2>2, Sizes, SizesNext DEF Counted
<1>14. CountsOK'
  <2>1. \A i \in Item \ {n} : again'[i] = again[i] /\ Waiting(i)' \subseteq Waiting(i)
    BY <1>3, <1>12
  <2> QED
    BY <1>2, <1>4, <1>7, <1>10, <1>11, <1>13, <2>1, CountsStep
<1> QED
  BY <1>10, <1>11, <1>14 DEF QueueInv

LEMMA AnnounceKeeps ==
  ASSUME QueueInv, NEW h \in Handlers, Announce(h)
  PROVE  QueueInv'
<1>1. work[h].step = "announce" /\ Announcing(h, Announced(h))
  BY DEF Announce, Announcing
<1>2. PICK e \in Envelope : /\ e = Announced(h) /\ e = <<Of(work[h].on), work[h].doc>>
                            /\ e \notin Event /\ Announcing(h, e)
  BY <1>1, AnnouncedIsEnvelope
<1>3. /\ work[h].on \in Delivery /\ work[h].on \in Job /\ work[h] \in WorkDoc
      /\ e \in Job /\ e \in Item /\ e \notin Notification /\ Of(e) = e
  BY <1>2, QueueFacts, NamesDiffer, AnnouncedIsEnvelope
<1>4. PICK w : w = [work[h] EXCEPT !.step = "finish"]
  OBVIOUS
<1>5. w \in WorkDoc /\ w.on = work[h].on /\ w.step = "finish" /\ work' = [work EXCEPT ![h] = w]
  BY <1>3, <1>4 DEF Announce, WorkDoc, WorkSteps
<1>6. /\ UNCHANGED <<todo, docs, published, again>>
      /\ jobs' = jobs \/ jobs' = [jobs EXCEPT ![e] = Add(@)]
      /\ faults' = faults \/ Fault
  BY <1>2 DEF Announce, Publish, PublishFails
<1>7. faults' \in 0..MaxFaults /\ faults' \in Nat /\ faults <= faults'
  BY <1>6, FaultsMove
<1>8. /\ jobs' \in [Job -> SoundJobs]
      /\ \A i : i # e => Waiting(i)' \subseteq Waiting(i)
      /\ Cardinality(Waiting(e)') <= Cardinality(Waiting(e)) + 1
  BY <1>3, <1>6, AddOne
<1>9. MessagesShaped'
  <2>1. work' \in [Handlers -> WorkDoc]
    BY <1>5, QueueFacts, WorkStep
  <2> QED
    BY <1>6, <1>7, <1>8, <2>1, QueueFacts DEF MessagesShaped
<1>10. WorkersOK' /\ \A i : Unborn(i)' => Unborn(i)
  <2>1. WorkOK(w)' /\ w.step # "announce"
    BY <1>3, <1>5 DEF WorkOK
  <2>2. todo' \subseteq todo /\ \A n \in Notification : docs'[n] \in Nat /\ docs[n] <= docs'[n]
    BY <1>6, QueueFacts
  <2> QED
    BY <1>5, <2>1, <2>2, HandlerChanges
<1>11. \A i : About(i)' \subseteq About(i)
  <2>1. w.step \notin AtWork
    BY <1>5 DEF AtWork
  <2>2. \A i : About(i)' \subseteq About(i) \ {h}
    BY <1>5, <2>1, QueueFacts, AboutStep
  <2> QED
    BY <2>2
<1>12. Pending(e) = 1 /\ Pending(e)' = 0
  <2>1. e \notin todo'
    BY <1>2, <1>3, <1>6, QueueFacts DEF MessagesShaped
  <2>2. ~ \E m \in Notification, k \in 1..MaxFaults + 1 : e = <<m, k>> /\ docs'[m] < k
    <3>1. SUFFICES ASSUME NEW m \in Notification, NEW k \in 1..MaxFaults + 1,
                          e = <<m, k>>, docs'[m] < k
                   PROVE  FALSE
      OBVIOUS
    <3>2. m = Of(work[h].on) /\ k = work[h].doc
      BY <1>2, <3>1
    <3>3. k <= docs[m]
      BY <1>2, <3>2, AnnouncedIsEnvelope
    <3> QED
      BY <1>6, <3>1, <3>3, QueueFacts
  <2>3. ~ \E g \in Handlers : Announcing(g, e)'
    <3>1. SUFFICES ASSUME NEW g \in Handlers, Announcing(g, e)' PROVE FALSE
      OBVIOUS
    <3>2. g # h
      <4>1. work'[h] = w
        BY <1>5, QueueFacts, WorkStep
      <4> QED
        BY <1>5, <3>1, <4>1 DEF Announcing
    <3>3. work'[g] = work[g]
      BY <1>5, <3>2, QueueFacts, WorkStep
    <3>4. Announcing(g, e)
      BY <3>1, <3>3, AnnouncingStays
    <3> QED
      BY <1>2, <3>2, <3>4, QueueFacts DEF WorkersOK
  <2>4. Unborn(e) /\ ~Unborn(e)'
    BY <1>2, <2>1, <2>2, <2>3 DEF Unborn
  <2> QED
    BY <2>4 DEF Pending
<1>13. Counted(e)' /\ again'[e] <= faults'
  <2>1. /\ Counted(e) /\ Performed(e) \in Nat /\ again[e] <= faults /\ again[e] \in Nat
        /\ faults \in Nat /\ Performed(e)' = Performed(e) /\ again'[e] = again[e]
    BY <1>3, <1>6, QueueFacts DEF Performed
  <2>2. Cardinality(About(e)') <= Cardinality(About(e))
    BY <1>11, Sizes, SizeMoves
  <2> QED
    BY <1>7, <1>8, <1>12, <2>1, <2>2, Sizes, SizesNext DEF Counted
<1>14. CountsOK'
  <2>1. \A i : Performed(i)' = Performed(i) /\ again'[i] = again[i]
    BY <1>6 DEF Performed
  <2> QED
    BY <1>3, <1>7, <1>8, <1>9, <1>10, <1>11, <1>13, <2>1, CountsStep
<1> QED
  BY <1>9, <1>10, <1>14 DEF QueueInv

(* The job a handler is on, and what it is for.                            *)
LEMMA OnJob ==
  ASSUME QueueInv, NEW h \in Handlers, work[h] # Free
  PROVE  /\ work[h].on \in Job /\ Of(work[h].on) \in Item /\ work[h] \in WorkDoc
         /\ work[h].step # "none"
         /\ work[h].step = "create" => Of(work[h].on) \in Notification
         /\ work[h].step = "publish" => Of(work[h].on) \in Envelope
         /\ work = [work EXCEPT ![h] = work[h]]
         /\ jobs = [jobs EXCEPT ![work[h].on] = jobs[work[h].on]]
<1>1. work[h] \in WorkDoc /\ WorkOK(work[h]) /\ MessagesShaped
  BY QueueFacts
<1>2. /\ work[h].on \in Job /\ work[h].step # "none"
      /\ work[h].step = "create" => work[h].on \in Delivery
      /\ work[h].step = "publish" => work[h].on \in Envelope
  BY <1>1, NamesDiffer DEF WorkOK
<1>3. /\ work = [work EXCEPT ![h] = work[h]]
      /\ jobs = [jobs EXCEPT ![work[h].on] = jobs[work[h].on]]
  BY <1>1, <1>2 DEF MessagesShaped
<1> QED
  BY <1>1, <1>2, <1>3, NamesDiffer

LEMMA PublishKeeps ==
  ASSUME QueueInv, NEW h \in Handlers, RedisPublish(h)
  PROVE  QueueInv'
<1>1. work[h].step = "publish" /\ work[h] # Free
  BY DEF RedisPublish, Free
<1>2. PICK j \in Job, e \in Envelope : j = work[h].on /\ e = Of(j)
  BY <1>1, OnJob
<1>3. PICK w : w = [work[h] EXCEPT !.step = "finish"]
  OBVIOUS
<1>4. w \in WorkDoc /\ w.on = j /\ w.step = "finish" /\ work' = [work EXCEPT ![h] = w]
  BY <1>1, <1>2, <1>3, OnJob DEF RedisPublish, WorkDoc, WorkSteps
<1>5. /\ UNCHANGED <<todo, jobs, again, faults>>
      /\ docs' \in [Notification -> Nat] /\ published' \in [Envelope -> Nat]
      /\ \A m \in Notification : docs[m] <= docs'[m]
      /\ Performed(e)' = Performed(e) + 1
      /\ \A i \in Item \ {e} : Performed(i)' = Performed(i)
  <2>1. Sends(e) /\ UNCHANGED <<todo, jobs, again, faults>>
    BY <1>1, <1>2, OnJob, QueueFacts, NamesDiffer DEF RedisPublish, WorkOK, Free
  <2> QED
    BY <2>1, SendsMove
<1>6. PICK b \in SoundJobs : b = jobs[j] /\ jobs' = [jobs EXCEPT ![j] = b]
  BY <1>1, <1>2, <1>5, OnJob, QueueFacts
<1>7. WorkOK(w)' /\ w # work[h]
  BY <1>1, <1>2, <1>4 DEF WorkOK
<1>8. again' \in [Item -> Nat] /\ again[e] \in Nat /\ faults' \in 0..MaxFaults /\ e \in Item
  BY <1>5, NamesDiffer, QueueFacts DEF MessagesShaped
<1>9. PICK c \in CountChange : c = [joins |-> 0, leaves |-> 1, done |-> 1, more |-> 0]
  BY DEF CountChange
<1>10. /\ again'[e] = again[e] + c.more /\ faults + c.more <= faults'
       /\ c.done + c.joins <= c.more + c.leaves /\ Performed(e)' = Performed(e) + c.done
       /\ \A i \in Item \ {e} : Performed(i)' = Performed(i) /\ again'[i] = again[i]
  BY <1>5, <1>8, <1>9, QueueFacts
<1>11. work[h].step \in AtWork /\ todo' = todo
  BY <1>1, <1>5 DEF AtWork
<1>12. c.joins = 1 \/ (b.state = "waiting" => jobs[j].state = "waiting")
  BY <1>6
<1>13. c.leaves = 0 \/ (work[h].step \in AtWork /\ w # work[h])
  BY <1>7, <1>11
<1>14. w = work[h] \/ w.step \in {"none", "finish"}
  BY <1>4
<1>15. /\ docs' \in [Notification -> Nat] /\ published' \in [Envelope -> Nat]
       /\ \A m \in Notification : docs[m] <= docs'[m]
  BY <1>5
<1> QED
  BY <1>2, <1>4, <1>6, <1>7, <1>8, <1>10, <1>11, <1>12, <1>13, <1>14, <1>15, ReportKeeps

(* A handler ends, successfully or not, and reports to the queue.          *)
LEMMA EndKeeps ==
  ASSUME QueueInv, NEW h \in Handlers, work[h] # Free,
         NEW j \in Job, j = work[h].on, NEW b \in SoundJobs,
         jobs' = [jobs EXCEPT ![j] = b], work' = [work EXCEPT ![h] = Free],
         (b.state = "waiting" => jobs[j].state = "waiting") \/ work[h].step \in AtWork,
         UNCHANGED <<todo, docs, published, again>>,
         faults' = faults \/ Fault
  PROVE  QueueInv'
<1>1. PICK s \in Item : s = Of(j)
  BY NamesDiffer
<1>2. PICK w \in WorkDoc : w = Free /\ w.step = "none" /\ WorkOK(w)'
  BY FreeFits
<1>3. PICK x \in {0, 1} : (x = 1 /\ work[h].step \in AtWork)
                            \/ (x = 0 /\ (b.state = "waiting" => jobs[j].state = "waiting"))
  <2>1. CASE work[h].step \in AtWork
    BY <2>1
  <2>2. CASE b.state = "waiting" => jobs[j].state = "waiting"
    BY <2>2
  <2> QED
    BY <2>1, <2>2
<1>4. PICK c \in CountChange : c = [joins |-> x, leaves |-> x, done |-> 0, more |-> 0]
  BY DEF CountChange
<1>5. /\ docs' \in [Notification -> Nat] /\ published' \in [Envelope -> Nat]
      /\ again' \in [Item -> Nat] /\ \A m \in Notification : docs[m] <= docs'[m]
  BY QueueFacts DEF MessagesShaped
<1>6. faults' \in 0..MaxFaults /\ faults + c.more <= faults'
  BY <1>4, FaultsMove, QueueFacts
<1>7. /\ Performed(s)' = Performed(s) + c.done /\ again'[s] = again[s] + c.more
      /\ \A i \in Item \ {s} : Performed(i)' = Performed(i) /\ again'[i] = again[i]
  <2>1. \A i : Performed(i)' = Performed(i)
    BY DEF Performed
  <2>2. Performed(s) \in Nat /\ again[s] \in Nat
    BY QueueFacts
  <2> QED
    BY <1>4, <2>1, <2>2
<1>8. c.done + c.joins <= c.more + c.leaves /\ work' = [work EXCEPT ![h] = w] /\ w # work[h]
  BY <1>2, <1>4
<1>9. c.joins = 1 \/ (b.state = "waiting" => jobs[j].state = "waiting")
  BY <1>3, <1>4
<1>10. c.leaves = 0 \/ (work[h].step \in AtWork /\ w # work[h])
  BY <1>3, <1>4, <1>8
<1>11. todo' = todo /\ (w = work[h] \/ w.step \in {"none", "finish"})
  BY <1>2
<1>12. s = Of(j) /\ WorkOK(w)'
  BY <1>1, <1>2
<1> QED
  BY <1>5, <1>6, <1>7, <1>8, <1>9, <1>10, <1>11, <1>12, ReportKeeps

LEMMA FinishKeeps ==
  ASSUME QueueInv, NEW h \in Handlers, Finish(h)
  PROVE  QueueInv'
<1>1. work[h] # Free
  BY DEF Finish, Free
<1>2. PICK j \in Job : j = work[h].on
  BY <1>1, OnJob
<1>3. PICK a \in SoundJobs : a = jobs[j]
  BY QueueFacts
<1>4. PICK b \in SoundJobs : b = Complete(a, h) /\ (b.state = "waiting" => a.state = "waiting")
  BY JobMoves
<1>5. /\ jobs' = [jobs EXCEPT ![j] = b] /\ work' = [work EXCEPT ![h] = Free]
      /\ UNCHANGED <<todo, docs, published, again, faults>>
  BY <1>2, <1>3, <1>4 DEF Finish
<1> QED
  BY <1>1, <1>2, <1>3, <1>4, <1>5, EndKeeps

LEMMA RejectedMoves ==
  ASSUME QueueInv, NEW h \in Handlers, NEW j \in Job, j = work[h].on, Rejected(h)
  PROVE  /\ \E b \in SoundJobs : jobs' = [jobs EXCEPT ![j] = b]
         /\ work' = [work EXCEPT ![h] = Free]
<1>1. PICK a \in SoundJobs : a = jobs[j]
  BY QueueFacts
<1>2. Retry(a, h) \in SoundJobs
  BY JobMoves
<1> QED
  BY <1>1, <1>2 DEF Rejected

LEMMA WorkFailsKeeps ==
  ASSUME QueueInv, NEW h \in Handlers, WorkFails(h)
  PROVE  QueueInv'
<1>1. work[h] # Free /\ work[h].step \in AtWork /\ Rejected(h)
  BY DEF WorkFails, AtWork, Free
<1>2. PICK j \in Job : j = work[h].on
  BY <1>1, OnJob
<1>3. PICK b \in SoundJobs : jobs' = [jobs EXCEPT ![j] = b]
  BY <1>1, <1>2, RejectedMoves
<1>4. /\ work' = [work EXCEPT ![h] = Free]
      /\ UNCHANGED <<todo, docs, published, again>> /\ Fault
  BY DEF WorkFails, Rejected
<1> QED
  BY <1>1, <1>2, <1>3, <1>4, EndKeeps

(* The call has taken effect: it is done once more, and counted so.        *)
LEMMA AnswerLostKeeps ==
  ASSUME QueueInv, NEW h \in Handlers, AnswerLost(h)
  PROVE  QueueInv'
<1>1. work[h] # Free /\ work[h].step \in AtWork
  BY DEF AnswerLost, AtWork, Free
<1>2. PICK j \in Job : j = work[h].on
  BY <1>1, OnJob
<1>3. PICK s \in Item : s = Of(j)
  BY <1>1, <1>2, OnJob
<1>4. /\ Fault /\ again' = [again EXCEPT ![s] = @ + 1] /\ todo' = todo
      /\ \/ work[h].step = "create" /\ Stores(s) /\ Rejected(h)
         \/ work[h].step = "publish" /\ Sends(s) /\ (Rejected(h) \/ UNCHANGED <<jobs, work>>)
  BY <1>2, <1>3 DEF AnswerLost
<1>5. /\ docs' \in [Notification -> Nat] /\ published' \in [Envelope -> Nat]
      /\ \A m \in Notification : docs[m] <= docs'[m]
      /\ Performed(s)' = Performed(s) + 1
      /\ \A i \in Item \ {s} : Performed(i)' = Performed(i)
  <2>1. CASE work[h].step = "create" /\ Stores(s)
    <3>1. s \in Notification
      BY <1>1, <1>2, <1>3, <2>1, OnJob
    <3> QED
      BY <2>1, <3>1, StoresMove
  <2>2. CASE work[h].step = "publish" /\ Sends(s)
    <3>1. s \in Envelope
      BY <1>1, <1>2, <1>3, <2>2, OnJob
    <3> QED
      BY <2>2, <3>1, SendsMove
  <2> QED
    BY <1>4, <2>1, <2>2
<1>6. faults' \in 0..MaxFaults /\ faults' = faults + 1 /\ faults + 1 <= faults'
  BY <1>4, FaultsMove, QueueFacts
<1>7. /\ again' \in [Item -> Nat] /\ again'[s] = again[s] + 1
      /\ \A i \in Item \ {s} : again'[i] = again[i]
  BY <1>4, QueueFacts DEF MessagesShaped
<1>8. ASSUME NEW c \in CountChange, c.done = 1, c.more = 1, c.joins = c.leaves
      PROVE  /\ Performed(s)' = Performed(s) + c.done /\ again'[s] = again[s] + c.more
             /\ \A i \in Item \ {s} : Performed(i)' = Performed(i) /\ again'[i] = again[i]
             /\ faults + c.more <= faults' /\ c.done + c.joins <= c.more + c.leaves
  <2>1. c.joins \in {0, 1}
    BY DEF CountChange
  <2> QED
    BY <1>5, <1>6, <1>7, <1>8, <2>1
<1>9. CASE Rejected(h)
  <2>1. PICK w \in WorkDoc : w = Free /\ w.step = "none" /\ WorkOK(w)' /\ w # work[h]
    BY <1>1, FreeFits
  <2>2. PICK b \in SoundJobs : jobs' = [jobs EXCEPT ![j] = b]
    BY <1>2, <1>9, RejectedMoves
  <2>3. work' = [work EXCEPT ![h] = w]
    BY <1>9, <2>1 DEF Rejected
  <2>4. PICK c \in CountChange : c = [joins |-> 1, leaves |-> 1, done |-> 1, more |-> 1]
    BY DEF CountChange
  <2>5. /\ c.joins = 1 \/ (b.state = "waiting" => jobs[j].state = "waiting")
        /\ c.leaves = 0 \/ (work[h].step \in AtWork /\ w # work[h])
        /\ w = work[h] \/ w.step \in {"none", "finish"}
    BY <1>1, <2>1, <2>4
  <2>6. /\ Performed(s)' = Performed(s) + c.done /\ again'[s] = again[s] + c.more
        /\ \A i \in Item \ {s} : Performed(i)' = Performed(i) /\ again'[i] = again[i]
        /\ faults + c.more <= faults' /\ c.done + c.joins <= c.more + c.leaves
    BY <1>8, <2>4
  <2> QED
    BY <1>2, <1>3, <1>4, <1>5, <1>6, <1>7, <2>1, <2>2, <2>3, <2>5, <2>6, ReportKeeps
<1>10. CASE UNCHANGED <<jobs, work>>
  <2>1. PICK w \in WorkDoc : w = work[h] /\ WorkOK(w)
    BY QueueFacts
  <2>2. PICK b \in SoundJobs : b = jobs[j] /\ jobs' = [jobs EXCEPT ![j] = b]
    BY <1>1, <1>2, <1>10, OnJob, QueueFacts
  <2>3. work' = [work EXCEPT ![h] = w]
    BY <1>1, <1>10, <2>1, OnJob
  <2>4. WorkOK(w)'
    BY <1>5, <2>1, WorkStays, QueueFacts
  <2>5. PICK c \in CountChange : c = [joins |-> 0, leaves |-> 0, done |-> 1, more |-> 1]
    BY DEF CountChange
  <2>6. /\ c.joins = 1 \/ (b.state = "waiting" => jobs[j].state = "waiting")
        /\ c.leaves = 0 \/ (work[h].step \in AtWork /\ w # work[h])
        /\ w = work[h] \/ w.step \in {"none", "finish"}
    BY <2>1, <2>2, <2>5
  <2>7. /\ Performed(s)' = Performed(s) + c.done /\ again'[s] = again[s] + c.more
        /\ \A i \in Item \ {s} : Performed(i)' = Performed(i) /\ again'[i] = again[i]
        /\ faults + c.more <= faults' /\ c.done + c.joins <= c.more + c.leaves
    BY <1>8, <2>5
  <2> QED
    BY <1>2, <1>3, <1>4, <1>5, <1>6, <1>7, <2>1, <2>2, <2>3, <2>4, <2>6, <2>7, ReportKeeps
<1> QED
  BY <1>4, <1>9, <1>10

LEMMA StalledKeeps ==
  ASSUME QueueInv, NEW h \in Handlers, Stalled(h)
  PROVE  QueueInv'
<1>1. /\ work[h] # Free /\ HeldBy(jobs[work[h].on], h) /\ Fault
      /\ UNCHANGED <<todo, docs, published>>
  BY DEF Stalled
<1>2. PICK j \in Job : j = work[h].on
  BY <1>1, OnJob
<1>3. PICK s \in Item : s = Of(j)
  BY <1>1, <1>2, OnJob
<1>4. PICK b \in SoundJobs : jobs' = [jobs EXCEPT ![j] = b]
  <2>1. PICK a \in SoundJobs : a = jobs[j]
    BY QueueFacts
  <2>2. Stall(a) \in SoundJobs
    BY <1>1, <1>2, <2>1, JobMoves
  <2> QED
    BY <1>2, <2>1, <2>2 DEF Stalled
<1>5. PICK w \in WorkDoc : /\ w = work[h] \/ w.step \in {"none", "finish"}
                           /\ work' = [work EXCEPT ![h] = w] /\ WorkOK(w)'
  <2>1. CASE work' = work
    <3>1. PICK w \in WorkDoc : w = work[h] /\ WorkOK(w)
      BY QueueFacts
    <3>2. WorkOK(w)'
      BY <1>1, <3>1, WorkStays, QueueFacts
    <3>3. work' = [work EXCEPT ![h] = w]
      BY <1>1, <2>1, <3>1, OnJob
    <3> QED
      BY <3>1, <3>2, <3>3
  <2>2. CASE work' = [work EXCEPT ![h] = Free]
    <3>1. PICK w \in WorkDoc : w = Free /\ w.step = "none" /\ WorkOK(w)'
      BY FreeFits
    <3> QED
      BY <2>2, <3>1
  <2> QED
    BY <2>1, <2>2 DEF Stalled
<1>6. faults' \in 0..MaxFaults /\ faults' = faults + 1 /\ faults + 1 <= faults'
  BY <1>1, FaultsMove, QueueFacts
<1>7. /\ again' \in [Item -> Nat] /\ again'[s] = again[s] + 1
      /\ \A i \in Item \ {s} : again'[i] = again[i]
  <2>1. again' = [again EXCEPT ![s] = @ + 1]
    BY <1>2, <1>3 DEF Stalled
  <2> QED
    BY <2>1, QueueFacts DEF MessagesShaped
<1>8. PICK c \in CountChange : c = [joins |-> 1, leaves |-> 0, done |-> 0, more |-> 1]
  BY DEF CountChange
<1>9. /\ docs' \in [Notification -> Nat] /\ published' \in [Envelope -> Nat]
      /\ \A m \in Notification : docs[m] <= docs'[m]
  BY <1>1, QueueFacts DEF MessagesShaped
<1>10. /\ Performed(s)' = Performed(s) + c.done /\ again'[s] = again[s] + c.more
       /\ \A i \in Item \ {s} : Performed(i)' = Performed(i) /\ again'[i] = again[i]
       /\ c.done + c.joins <= c.more + c.leaves /\ faults + c.more <= faults'
       /\ c.joins = 1 /\ c.leaves = 0
  <2>1. \A i : Performed(i)' = Performed(i)
    BY <1>1 DEF Performed
  <2> QED
    BY <1>6, <1>7, <1>8, <2>1, QueueFacts
<1>11. todo' = todo
  BY <1>1
<1> QED
  BY <1>2, <1>3, <1>4, <1>5, <1>6, <1>7, <1>9, <1>10, <1>11, ReportKeeps

(* What the processes and the user do leaves the queue as it is.           *)
LEMMA ClientsKeep ==
  ASSUME QueueInv, UNCHANGED <<todo, jobs, work, docs, published, again>>,
         faults' = faults \/ Fault
  PROVE  QueueInv'
<1>1. faults' \in 0..MaxFaults /\ faults <= faults' /\ faults' \in Nat
  BY FaultsMove
<1>2. MessagesShaped'
  BY <1>1, QueueFacts DEF MessagesShaped
<1>3. /\ WorkersOK' /\ \A i : (Unborn(i)' => Unborn(i)) /\ About(i)' = About(i)
  BY WorkersStay
<1>4. ASSUME NEW s \in Item
      PROVE  Counted(s)' /\ again'[s] <= faults'
  <2>1. /\ Counted(s) /\ again[s] <= faults /\ again[s] \in Nat /\ Performed(s) \in Nat
        /\ faults \in Nat
    BY QueueFacts
  <2>2. /\ Performed(s)' = Performed(s) /\ Waiting(s)' = Waiting(s) /\ again'[s] = again[s]
        /\ About(s)' = About(s) /\ Pending(s)' <= Pending(s)
    BY <1>3 DEF Performed, Waiting, Pending
  <2>3. Counted(s)'
    BY <2>1, <2>2, Sizes, SizesNext DEF Counted
  <2> QED
    BY <1>1, <2>1, <2>2, <2>3
<1> QED
  BY <1>2, <1>3, <1>4 DEF QueueInv, CountsOK

(* Deliveries: what is taken from an inbox is behind its process, and what *)
(* is published is before it or lost.                                      *)
LEMMA DeliveriesFinite ==
  ASSUME NEW e \in Envelope, published[e] \in Nat
  PROVE  /\ IsFiniteSet(Deliveries(e)) /\ Cardinality(Deliveries(e)) \in Nat
         /\ Deliveries(e) \subseteq Process \X (1..published[e])
<1>1. IsFiniteSet(1..published[e])
  BY FS_Interval
<1>2. IsFiniteSet(Process \X (1..published[e]))
  BY <1>1, RealtimeAssumption, FS_Product
<1>3. Deliveries(e) \subseteq Process \X (1..published[e])
  BY DEF Deliveries
<1> QED
  BY <1>2, <1>3, FS_Subset, FS_CardinalityType

LEMMA DeliveriesFiniteNext ==
  ASSUME NEW e \in Envelope, published'[e] \in Nat
  PROVE  IsFiniteSet(Deliveries(e)') /\ Cardinality(Deliveries(e)') \in Nat
<1>1. IsFiniteSet(1..published'[e])
  BY FS_Interval
<1>2. IsFiniteSet(Process \X (1..published'[e]))
  BY <1>1, RealtimeAssumption, FS_Product
<1>3. Deliveries(e)' \subseteq Process \X (1..published'[e])
  BY DEF Deliveries
<1> QED
  BY <1>2, <1>3, FS_Subset, FS_CardinalityType

LEMMA DeliveredStays ==
  ASSUME NEW e \in Envelope, published[e] \in Nat, published'[e] \in Nat, received[e] \in Nat,
         published[e] <= published'[e],
         inbox \in [Process -> [Envelope -> Nat]], inbox' \in [Process -> [Envelope -> Nat]],
         \A p \in Process : inbox'[p][e] + published[e] <= inbox[p][e] + published'[e],
         received'[e] = received[e], echoes[e] \in Nat, echoes'[e] = echoes[e], Delivered(e)
  PROVE  Delivered(e)'
<1>1. ASSUME NEW p \in Process
      PROVE  /\ inbox[p][e] \in Nat /\ inbox'[p][e] \in Nat
             /\ inbox'[p][e] + published[e] <= inbox[p][e] + published'[e]
             /\ inbox[p][e] <= published[e]
  BY DEF Delivered
<1>2. \A p \in Process : inbox'[p][e] <= published'[e]
  BY <1>1
<1>3. ASSUME NEW x \in Deliveries(e)
      PROVE  x \in Deliveries(e)'
  <2>1. PICK p \in Process, k \in 1..published[e] : x = <<p, k>> /\ inbox[p][e] + k <= published[e]
    BY DEF Deliveries
  <2>2. k \in 1..published'[e] /\ inbox'[p][e] + k <= published'[e]
    BY <1>1, <2>1
  <2> QED
    BY <2>1, <2>2 DEF Deliveries
<1>4. Cardinality(Deliveries(e)) <= Cardinality(Deliveries(e)')
  BY <1>3, DeliveriesFinite, DeliveriesFiniteNext, FS_Subset
<1>5. received'[e] <= Cardinality(Deliveries(e)') + echoes'[e]
  BY <1>4, DeliveriesFinite, DeliveriesFiniteNext DEF Delivered
<1> QED
  BY <1>2, <1>5 DEF Delivered

LEMMA DeliveredOnce ==
  ASSUME NEW e \in Envelope, NEW p \in Process, published[e] \in Nat, published'[e] = published[e],
         received[e] \in Nat, inbox \in [Process -> [Envelope -> Nat]], inbox[p][e] > 0,
         inbox' = [inbox EXCEPT ![p][e] = @ - 1],
         received'[e] = received[e] + 1, echoes[e] \in Nat, echoes'[e] = echoes[e], Delivered(e)
  PROVE  Delivered(e)'
<1> DEFINE k == published[e] - inbox[p][e] + 1
<1>1. \A q \in Process : inbox[q][e] \in Nat /\ inbox[q][e] <= published[e]
  BY DEF Delivered
<1>2. inbox'[p][e] = inbox[p][e] - 1 /\ \A q \in Process \ {p} : inbox'[q][e] = inbox[q][e]
  OBVIOUS
<1>3. \A q \in Process : inbox'[q][e] <= published'[e] /\ inbox'[q][e] <= inbox[q][e]
  BY <1>1, <1>2
<1>4. <<p, k>> \notin Deliveries(e)
  BY <1>1 DEF Deliveries
<1>5. <<p, k>> \in Deliveries(e)'
  <2>1. k \in 1..published'[e] /\ inbox'[p][e] + k <= published'[e]
    BY <1>1, <1>2
  <2> QED
    BY <2>1 DEF Deliveries
<1>6. Deliveries(e) \subseteq Deliveries(e)'
  <2>1. SUFFICES ASSUME NEW x \in Deliveries(e) PROVE x \in Deliveries(e)'
    OBVIOUS
  <2>2. PICK q \in Process, i \in 1..published[e] : x = <<q, i>> /\ inbox[q][e] + i <= published[e]
    BY DEF Deliveries
  <2>3. inbox'[q][e] + i <= published'[e]
    BY <1>1, <1>2, <2>2
  <2> QED
    BY <2>2, <2>3 DEF Deliveries
<1> HIDE DEF k
<1>7. Cardinality(Deliveries(e) \cup {<<p, k>>}) = Cardinality(Deliveries(e)) + 1
  BY <1>4, DeliveriesFinite, FS_AddElement
<1>8. Cardinality(Deliveries(e) \cup {<<p, k>>}) <= Cardinality(Deliveries(e)')
  <2>1. Deliveries(e) \cup {<<p, k>>} \subseteq Deliveries(e)'
    BY <1>5, <1>6
  <2> QED
    BY <2>1, DeliveriesFiniteNext, FS_Subset
<1>9. received'[e] <= Cardinality(Deliveries(e)') + echoes'[e]
  BY <1>7, <1>8, DeliveriesFinite, DeliveriesFiniteNext DEF Delivered
<1> QED
  BY <1>3, <1>9 DEF Delivered

(* What the queue does leaves the clients alone, and what the clients do   *)
(* leaves the messages alone.                                              *)
LEMMA MailStays ==
  ASSUME QueueInv, MailShaped, \A e \in Envelope : Delivered(e),
         UNCHANGED <<clients, published>>, dead' \subseteq Envelope
  PROVE  MailShaped' /\ \A e \in Envelope : Delivered(e)'
<1>1. MailShaped'
  BY DEF MailShaped, clients
<1>2. ASSUME NEW e \in Envelope
      PROVE  Delivered(e)'
  <2>1. Deliveries(e)' = Deliveries(e)
    BY DEF Deliveries, clients
  <2>2. Delivered(e)
    OBVIOUS
  <2> QED
    BY <2>1, <2>2 DEF Delivered, clients
<1> QED
  BY <1>1, <1>2

LEMMA LettersAreEnvelopes ==
  ASSUME MailShaped, NEW e \in Envelope,
         UNCHANGED dead \/ DeadLetter(e)
  PROVE  dead' \subseteq Envelope
  BY DEF MailShaped, DeadLetter

LEMMA ServicesKeep ==
  ASSUME RealtimeInv, ServiceStep
  PROVE  RealtimeInv'
<1>0. QueueInv /\ MailShaped /\ \A e \in Envelope : Delivered(e)
  BY DEF RealtimeInv
<1>1. ASSUME NEW n \in Notification, Enqueue(n) \/ EnqueueFails(n)
      PROVE  RealtimeInv'
  <2>1. UNCHANGED <<clients, published, dead>>
    BY <1>1 DEF Enqueue, EnqueueFails
  <2>2. CASE Enqueue(n)
    <3>1. QueueInv'
      BY <1>0, <2>2, EnqueueKeeps
    <3> QED
      BY <1>0, <2>1, <3>1, MailStays DEF RealtimeInv, MailShaped
  <2>3. CASE EnqueueFails(n)
    <3>1. QueueInv'
      <4>1. /\ n \in todo /\ todo' = todo \ {n} /\ jobs' = jobs
            /\ UNCHANGED <<work, docs, published, again>> /\ (faults' = faults \/ Fault)
        BY <2>3 DEF EnqueueFails
      <4> QED
        BY <1>0, <4>1, HandOverKeeps
    <3> QED
      BY <1>0, <2>1, <3>1, MailStays DEF RealtimeInv, MailShaped
  <2> QED
    BY <1>1, <2>2, <2>3
<1>2. ASSUME NEW e \in Event, PublishEvent(e)
      PROVE  RealtimeInv'
  <2>0. e \in Envelope
    BY NamesDiffer
  <2>1. /\ e \in todo /\ todo' = todo \ {e}
        /\ UNCHANGED <<work, docs, published, again, clients>>
        /\ faults' = faults \/ Fault
        /\ jobs' = jobs \/ jobs' = [jobs EXCEPT ![e] = Add(@)]
        /\ UNCHANGED dead \/ DeadLetter(e)
    BY <1>2 DEF PublishEvent, Publish, PublishFails
  <2>2. QueueInv'
    BY <1>0, <2>0, <2>1, HandOverKeeps
  <2>3. dead' \subseteq Envelope
    BY <1>0, <2>0, <2>1, LettersAreEnvelopes
  <2> QED
    BY <1>0, <2>1, <2>2, <2>3, MailStays DEF RealtimeInv
<1>3. ASSUME NEW e \in Envelope, PublishLosesAnswer(e)
      PROVE  RealtimeInv'
  <2>1. UNCHANGED <<clients, published, dead>>
    BY <1>3 DEF PublishLosesAnswer
  <2>2. QueueInv'
    BY <1>0, <1>3, LosesAnswerKeeps
  <2> QED
    BY <1>0, <2>1, <2>2, MailStays DEF RealtimeInv, MailShaped
<1> QED
  BY <1>1, <1>2, <1>3 DEF ServiceStep

(* The message is on the channel: a process that is subscribed has it in   *)
(* its inbox, for the others it is as if they had emitted it.              *)
LEMMA SendingDelivers ==
  ASSUME RealtimeInv, NEW e \in Envelope, Sends(e), QueueInv',
         UNCHANGED <<dead, connected, inRoom, received, echoes>>
  PROVE  RealtimeInv'
<1>0. QueueInv /\ MailShaped /\ (\A f \in Envelope : Delivered(f)) /\ MessagesShaped
  BY DEF RealtimeInv, QueueInv
<1>2. /\ published' = [published EXCEPT ![e] = @ + 1]
      /\ UNCHANGED <<dead, connected, inRoom, received, echoes>>
  BY DEF Sends
<1>3. PICK up \in SUBSET Process :
        inbox' = [p \in Process |-> IF p \in up THEN [inbox[p] EXCEPT ![e] = @ + 1]
                                                ELSE inbox[p]]
  BY DEF Sends
<1>4. /\ published \in [Envelope -> Nat] /\ inbox \in [Process -> [Envelope -> Nat]]
      /\ received \in [Envelope -> Nat] /\ echoes \in [Envelope -> Nat]
  BY <1>0 DEF MessagesShaped, MailShaped
<1>5. /\ published' \in [Envelope -> Nat] /\ published'[e] = published[e] + 1
      /\ \A f \in Envelope \ {e} : published'[f] = published[f]
  BY <1>2, <1>4
<1>6. ASSUME NEW p \in Process
      PROVE  /\ inbox'[p] \in [Envelope -> Nat]
             /\ inbox'[p][e] \in {inbox[p][e], inbox[p][e] + 1}
             /\ \A f \in Envelope \ {e} : inbox'[p][f] = inbox[p][f]
  <2>1. CASE p \in up
    <3>1. PICK b \in [Envelope -> Nat] : b = inbox[p]
      BY <1>4
    <3>2. inbox'[p] = [b EXCEPT ![e] = @ + 1]
      BY <1>3, <2>1, <3>1
    <3> QED
      BY <3>1, <3>2
  <2>2. CASE p \notin up
    BY <1>3, <1>4, <2>2
  <2> QED
    BY <2>1, <2>2
<1>7. inbox' \in [Process -> [Envelope -> Nat]]
  <2>1. DOMAIN inbox' = Process /\ inbox' = [p \in Process |-> inbox'[p]]
    BY <1>3
  <2> QED
    BY <1>6, <2>1
<1>8. MailShaped'
  BY <1>0, <1>2, <1>7 DEF MailShaped
<1>9. ASSUME NEW f \in Envelope
      PROVE  Delivered(f)'
  <2>1. published[f] \in Nat /\ published'[f] \in Nat /\ published[f] <= published'[f]
    BY <1>4, <1>5
  <2>2. \A p \in Process : inbox'[p][f] + published[f] <= inbox[p][f] + published'[f]
    BY <1>4, <1>5, <1>6
  <2>3. /\ received'[f] = received[f] /\ received[f] \in Nat /\ Delivered(f)
        /\ echoes'[f] = echoes[f] /\ echoes[f] \in Nat
    BY <1>0, <1>2, <1>4
  <2> QED
    BY <1>4, <1>7, <2>1, <2>2, <2>3, DeliveredStays
<1> QED
  BY <1>8, <1>9 DEF RealtimeInv

LEMMA WorkersKeep ==
  ASSUME RealtimeInv, NEW h \in Handlers,
         \/ HandlerStep(h) \/ WorkFails(h) \/ AnswerLost(h) \/ Stalled(h)
         \/ \E j \in Job : TakeJob(h, j)
  PROVE  RealtimeInv'
<1>0. QueueInv /\ MailShaped /\ \A e \in Envelope : Delivered(e)
  BY DEF RealtimeInv
<1>1. CASE work[h].step = "publish" /\ (RedisPublish(h) \/ AnswerLost(h))
  <2>1. PICK e \in Envelope : e = Of(work[h].on) /\ e = work[h].on
    <3>1. work[h].on \in Envelope
      BY <1>0, <1>1, QueueFacts DEF WorkOK, Free
    <3> QED
      BY <3>1, NamesDiffer
  <2>2. Sends(e) /\ UNCHANGED <<dead, connected, inRoom, received, echoes>>
    BY <1>1, <2>1 DEF RedisPublish, AnswerLost
  <2>3. QueueInv'
    BY <1>0, <1>1, PublishKeeps, AnswerLostKeeps
  <2> QED
    BY <2>2, <2>3, SendingDelivers
<1>2. CASE Announce(h)
  <2>1. UNCHANGED <<clients, published>>
    BY <1>2 DEF Announce
  <2>2. PICK e \in Envelope : e = Announced(h)
    <3>1. Announcing(h, Announced(h))
      BY <1>2 DEF Announce, Announcing
    <3> QED
      BY <1>0, <3>1, AnnouncedIsEnvelope
  <2>3. UNCHANGED dead \/ DeadLetter(e)
    BY <1>2, <2>2 DEF Announce, Publish, PublishFails
  <2>4. dead' \subseteq Envelope
    BY <1>0, <2>3, LettersAreEnvelopes
  <2> QED
    BY <1>0, <1>2, <2>1, <2>4, AnnounceKeeps, MailStays DEF RealtimeInv
<1>3. CASE \/ Create(h) \/ Finish(h) \/ WorkFails(h) \/ Stalled(h)
           \/ work[h].step = "create" /\ AnswerLost(h)
           \/ \E j \in Job : TakeJob(h, j)
  <2>1. UNCHANGED <<clients, published, dead>>
    BY <1>3 DEF Create, Finish, WorkFails, AnswerLost, Stores, Stalled, TakeJob, clients
  <2>2. QueueInv'
    BY <1>0, <1>3, CreateKeeps, FinishKeeps, WorkFailsKeeps, AnswerLostKeeps, StalledKeeps,
       TakeJobKeeps
  <2>3. dead' \subseteq Envelope
    BY <1>0, <2>1 DEF MailShaped
  <2> QED
    BY <1>0, <2>1, <2>2, <2>3, MailStays DEF RealtimeInv
<1>4. AnswerLost(h) => work[h].step \in {"create", "publish"}
  BY DEF AnswerLost
<1>5. RedisPublish(h) => work[h].step = "publish"
  BY DEF RedisPublish
<1> QED
  BY <1>1, <1>2, <1>3, <1>4, <1>5 DEF HandlerStep

(* A process emits what it has heard, or fails to.                         *)
LEMMA DeliveryKeeps ==
  ASSUME RealtimeInv, NEW p \in Process, NEW e \in Envelope,
         Dispatch(p, e) \/ DispatchFails(p, e)
  PROVE  RealtimeInv'
<1>0. QueueInv /\ MailShaped /\ (\A f \in Envelope : Delivered(f)) /\ MessagesShaped
  BY DEF RealtimeInv, QueueInv
<1>1. /\ inbox[p][e] > 0 /\ inbox' = [inbox EXCEPT ![p][e] = @ - 1]
      /\ UNCHANGED <<todo, jobs, work, docs, published, again, connected, inRoom, echoes>>
      /\ faults' = faults \/ Fault
      /\ UNCHANGED dead \/ DeadLetter(e)
  BY DEF Dispatch, DispatchFails, queue
<1>2. received' = received \/ received' = [received EXCEPT ![e] = @ + 1]
  BY DEF Dispatch, DispatchFails
<1>3. /\ published \in [Envelope -> Nat] /\ inbox \in [Process -> [Envelope -> Nat]]
      /\ received \in [Envelope -> Nat] /\ echoes \in [Envelope -> Nat]
  BY <1>0 DEF MessagesShaped, MailShaped
<1>4. /\ inbox'[p][e] = inbox[p][e] - 1 /\ inbox'[p] \in [Envelope -> Nat]
      /\ \A q \in Process \ {p} : inbox'[q] = inbox[q]
      /\ \A f \in Envelope \ {e} : inbox'[p][f] = inbox[p][f]
  <2>1. PICK b \in [Envelope -> Nat] : b = inbox[p]
    BY <1>3
  <2>2. inbox'[p] = [b EXCEPT ![e] = @ - 1] /\ \A q \in Process \ {p} : inbox'[q] = inbox[q]
    BY <1>1, <1>3, <2>1
  <2> QED
    BY <1>1, <2>1, <2>2
<1>5. inbox' \in [Process -> [Envelope -> Nat]]
  <2>1. inbox' = [q \in Process |-> inbox'[q]]
    BY <1>1, <1>3
  <2>2. \A q \in Process : inbox'[q] \in [Envelope -> Nat]
    BY <1>3, <1>4
  <2> QED
    BY <2>1, <2>2
<1>6. received' \in [Envelope -> Nat] /\ \A f \in Envelope \ {e} : received'[f] = received[f]
  BY <1>2, <1>3
<1>7. dead' \subseteq Envelope
  BY <1>0, <1>1, LettersAreEnvelopes
<1>8. MailShaped'
  BY <1>0, <1>1, <1>5, <1>6, <1>7 DEF MailShaped
<1>9. \A q \in Process, f \in Envelope : inbox'[q][f] \in Nat /\ inbox'[q][f] <= inbox[q][f]
  <2>1. SUFFICES ASSUME NEW q \in Process, NEW f \in Envelope
                 PROVE  inbox'[q][f] \in Nat /\ inbox'[q][f] <= inbox[q][f]
    OBVIOUS
  <2>2. inbox[q][f] \in Nat /\ inbox'[q][f] \in Nat
    BY <1>3, <1>5
  <2>3. inbox'[q][f] \in {inbox[q][f], inbox[q][f] - 1}
    BY <1>4
  <2> QED
    BY <2>2, <2>3
<1>10. ASSUME NEW f \in Envelope
       PROVE  Delivered(f)'
  <2>1. /\ published[f] \in Nat /\ published'[f] = published[f] /\ Delivered(f)
        /\ received[f] \in Nat /\ echoes[f] \in Nat /\ echoes'[f] = echoes[f]
    BY <1>0, <1>1, <1>3
  <2>2. CASE received'[f] = received[f]
    <3>1. \A q \in Process : inbox'[q][f] + published[f] <= inbox[q][f] + published'[f]
      <4>1. \A q \in Process : inbox[q][f] \in Nat
        BY <1>3
      <4> QED
        BY <1>9, <2>1, <4>1
    <3> QED
      BY <1>3, <1>5, <2>1, <2>2, <3>1, DeliveredStays
  <2>3. CASE received'[f] # received[f]
    <3>1. f = e /\ received'[e] = received[e] + 1
      BY <1>2, <1>3, <1>6, <2>3
    <3> QED
      BY <1>1, <1>3, <2>1, <3>1, DeliveredOnce
  <2> QED
    BY <2>2, <2>3
<1>11. QueueInv'
  BY <1>0, <1>1, ClientsKeep
<1> QED
  BY <1>8, <1>10, <1>11 DEF RealtimeInv

(* The user hears it, and it is an echo.                                   *)
LEMMA EchoKeeps ==
  ASSUME RealtimeInv, NEW p \in Process, NEW e \in Envelope, DispatchEchoes(p, e)
  PROVE  RealtimeInv'
<1>0. QueueInv /\ MailShaped /\ (\A f \in Envelope : Delivered(f)) /\ MessagesShaped
  BY DEF RealtimeInv, QueueInv
<1>1. /\ received' = [received EXCEPT ![e] = @ + 1] /\ echoes' = [echoes EXCEPT ![e] = @ + 1]
      /\ UNCHANGED <<todo, jobs, work, docs, published, dead, again, inbox, connected, inRoom>>
      /\ Fault
  BY DEF DispatchEchoes, queue
<1>2. /\ published \in [Envelope -> Nat]
      /\ received \in [Envelope -> Nat] /\ echoes \in [Envelope -> Nat]
  BY <1>0 DEF MessagesShaped, MailShaped
<1>3. MailShaped'
  BY <1>0, <1>1, <1>2 DEF MailShaped
<1>4. ASSUME NEW f \in Envelope
      PROVE  Delivered(f)'
  <2>1. Delivered(f) /\ Deliveries(f)' = Deliveries(f)
    BY <1>0, <1>1 DEF Deliveries
  <2>2. /\ Cardinality(Deliveries(f)) \in Nat /\ received[f] \in Nat /\ echoes[f] \in Nat
    BY <1>2, DeliveriesFinite
  <2>3. \/ received'[f] = received[f] /\ echoes'[f] = echoes[f]
        \/ received'[f] = received[f] + 1 /\ echoes'[f] = echoes[f] + 1
    BY <1>1, <1>2
  <2>4. received'[f] <= Cardinality(Deliveries(f)') + echoes'[f]
    BY <2>1, <2>2, <2>3 DEF Delivered
  <2> QED
    BY <1>1, <2>1, <2>4 DEF Delivered
<1>5. QueueInv'
  BY <1>0, <1>1, ClientsKeep
<1> QED
  BY <1>3, <1>4, <1>5 DEF RealtimeInv

LEMMA UsersKeep ==
  ASSUME RealtimeInv, ClientStep
  PROVE  RealtimeInv'
<1>0. QueueInv /\ MailShaped /\ (\A f \in Envelope : Delivered(f)) /\ MessagesShaped
  BY DEF RealtimeInv, QueueInv
<1>1. /\ UNCHANGED <<todo, jobs, work, docs, published, again, dead, received, echoes>>
      /\ faults' = faults \/ Fault
      /\ connected' \in BOOLEAN /\ inRoom' \in BOOLEAN
      /\ \/ inbox' = inbox
         \/ \E p \in Process : inbox' = [inbox EXCEPT ![p] = [e \in Envelope |-> 0]]
  BY <1>0 DEF ClientStep, Connect, Disconnect, JoinOrLeaveRoom, Restart, queue, MailShaped
<1>2. /\ published \in [Envelope -> Nat] /\ inbox \in [Process -> [Envelope -> Nat]]
      /\ received \in [Envelope -> Nat] /\ echoes \in [Envelope -> Nat]
  BY <1>0 DEF MessagesShaped, MailShaped
<1>3. /\ inbox' \in [Process -> [Envelope -> Nat]]
      /\ \A q \in Process, f \in Envelope : inbox'[q][f] <= inbox[q][f]
  <2>1. CASE inbox' = inbox
    BY <1>2, <2>1
  <2>2. CASE \E p \in Process : inbox' = [inbox EXCEPT ![p] = [e \in Envelope |-> 0]]
    <3>1. PICK empty \in [Envelope -> Nat] : empty = [e \in Envelope |-> 0]
      OBVIOUS
    <3>2. PICK p \in Process : inbox' = [inbox EXCEPT ![p] = empty]
      BY <2>2, <3>1
    <3>3. \A q \in Process : inbox'[q] \in {inbox[q], empty} /\ inbox'[q] \in [Envelope -> Nat]
      BY <1>2, <3>2
    <3>4. inbox' \in [Process -> [Envelope -> Nat]]
      BY <1>2, <3>2
    <3>5. \A q \in Process, f \in Envelope : inbox[q][f] \in Nat /\ empty[f] = 0
      BY <1>2, <3>1
    <3> QED
      BY <3>3, <3>4, <3>5
  <2> QED
    BY <1>1, <2>1, <2>2
<1>4. MailShaped'
  BY <1>0, <1>1, <1>3 DEF MailShaped
<1>5. ASSUME NEW f \in Envelope
      PROVE  Delivered(f)'
  <2>1. /\ published[f] \in Nat /\ published'[f] = published[f] /\ Delivered(f)
        /\ received[f] \in Nat /\ received'[f] = received[f]
        /\ echoes[f] \in Nat /\ echoes'[f] = echoes[f]
    BY <1>0, <1>1, <1>2
  <2>2. \A q \in Process : inbox[q][f] \in Nat /\ inbox'[q][f] \in Nat
    BY <1>2, <1>3
  <2>3. \A q \in Process : inbox'[q][f] + published[f] <= inbox[q][f] + published'[f]
    BY <1>3, <2>1, <2>2
  <2> QED
    BY <1>2, <1>3, <2>1, <2>3, DeliveredStays
<1>6. QueueInv'
  BY <1>0, <1>1, ClientsKeep
<1> QED
  BY <1>4, <1>5, <1>6 DEF RealtimeInv

LEMMA RealtimeStarts ==
  ASSUME RealtimeInit
  PROVE  RealtimeInv
<1>1. /\ todo = Notification \cup Event /\ faults = 0
      /\ jobs = [j \in Job |-> NoJob] /\ work = [h \in Handlers |-> Free]
      /\ docs = [n \in Notification |-> 0] /\ published = [e \in Envelope |-> 0]
      /\ again = [s \in Item |-> 0] /\ MaxFaults \in Nat
  BY NamesDiffer DEF RealtimeInit
<1>2. NoJob \in SoundJobs /\ NoJob.state = "none"
  BY JobQueueAssumption DEF SoundJobs, Jobs, NoJob
<1>3. MessagesShaped
  BY <1>1, <1>2, FreeFits DEF MessagesShaped
<1>4. \A h \in Handlers : work[h] = Free /\ Free.step = "none"
  BY <1>1, FreeFits
<1>5. WorkersOK
  BY <1>4 DEF WorkersOK, WorkOK, Announcing
<1>6. ASSUME NEW s \in Item
      PROVE  Counted(s) /\ again[s] <= faults
  <2>1. Performed(s) = 0
    BY <1>1 DEF Performed, Item
  <2>2. About(s) = {} /\ Waiting(s) = {} /\ again[s] = 0
    BY <1>1, <1>2, <1>4 DEF About, AtWork, Waiting, JobsOf
  <2>3. Cardinality(About(s)) = 0 /\ Cardinality(Waiting(s)) = 0
    BY <2>2, FS_EmptySet
  <2> QED
    BY <1>1, <2>1, <2>2, <2>3, Sizes DEF Counted
<1>7. CountsOK
  BY <1>6 DEF CountsOK
<1>8. MailShaped
  BY DEF RealtimeInit, MailShaped
<1>9. ASSUME NEW e \in Envelope
      PROVE  Delivered(e)
  <2>1. /\ received[e] = 0 /\ published[e] = 0 /\ echoes[e] = 0
        /\ \A p \in Process : inbox[p][e] = 0
    BY DEF RealtimeInit
  <2> QED
    BY <2>1, DeliveriesFinite DEF Delivered
<1> QED
  BY <1>3, <1>5, <1>7, <1>8, <1>9 DEF RealtimeInv, QueueInv

LEMMA RealtimeHolds == RealtimeSpec => []RealtimeInv
<1>1. RealtimeInv /\ [RealtimeNext]_realtimeVars => RealtimeInv'
  <2>1. SUFFICES ASSUME RealtimeInv, [RealtimeNext]_realtimeVars
                 PROVE  RealtimeInv'
    OBVIOUS
  <2>2. CASE UNCHANGED realtimeVars
    <3>1. UNCHANGED <<todo, jobs, work, docs, published, again, faults, clients, dead>>
      BY <2>2 DEF realtimeVars, queue
    <3>2. QueueInv /\ MailShaped /\ \A e \in Envelope : Delivered(e)
      BY <2>1 DEF RealtimeInv
    <3>3. dead' \subseteq Envelope
      BY <3>1, <3>2 DEF MailShaped
    <3> QED
      BY <3>1, <3>2, <3>3, ClientsKeep, MailStays DEF RealtimeInv
  <2>3. CASE ServiceStep
    BY <2>1, <2>3, ServicesKeep
  <2>4. CASE DeliveryStep
    BY <2>1, <2>4, DeliveryKeeps, EchoKeeps DEF DeliveryStep
  <2>5. CASE ClientStep
    BY <2>1, <2>5, UsersKeep
  <2>6. CASE \E h \in Handlers : HandlerStep(h) \/ WorkFails(h) \/ AnswerLost(h) \/ Stalled(h)
    BY <2>1, <2>6, WorkersKeep
  <2>7. CASE \E h \in Handlers, j \in Job : TakeJob(h, j)
    BY <2>1, <2>7, WorkersKeep
  <2> QED
    BY <2>1, <2>2, <2>3, <2>4, <2>5, <2>6, <2>7 DEF RealtimeNext
<1> QED
  BY <1>1, RealtimeStarts, PTL DEF RealtimeSpec

(* The variables of Realtime keep their types: there is an envelope for    *)
(* every document a notification can come to have.                         *)
THEOREM RealtimeTyped == RealtimeSpec => []RealtimeTypeOK
<1>1. ASSUME RealtimeInv
      PROVE  RealtimeTypeOK
  <2>1. QueueInv /\ MessagesShaped /\ MailShaped
    BY <1>1 DEF RealtimeInv, QueueInv
  <2>2. docs \in [Notification -> 0..MaxFaults + 1]
    BY <2>1, QueueFacts DEF MessagesShaped
  <2>3. jobs \in [Job -> Jobs]
    BY <2>1 DEF MessagesShaped, SoundJobs
  <2> QED
    BY <2>1, <2>2, <2>3 DEF RealtimeTypeOK, MessagesShaped, MailShaped
<1> QED
  BY <1>1, RealtimeHolds, PTL

(* A user receives an event once from every process, and a notification is *)
(* stored once.  Both are repeated for each run that was taken from its    *)
(* worker, each command to add their job or publish their message that     *)
(* Redis carried out twice, and each call that failed after its effect;    *)
(* an echo of the adapter repeats an event once.  Nothing else does:       *)
(* failures, retries and announcements that fail repeat nothing.           *)
THEOREM RepetitionsAreAccountedFor == RealtimeSpec => []RepeatsAreAccountedFor
<1>1. ASSUME RealtimeInv
      PROVE  RepeatsAreAccountedFor
  <2>0. QueueInv /\ MessagesShaped /\ MailShaped /\ \A e \in Envelope : Delivered(e)
    BY <1>1 DEF RealtimeInv, QueueInv
  <2>1. ASSUME NEW s \in Item
        PROVE  Performed(s) <= 1 + again[s] /\ again[s] \in Nat
    <3>1. Counted(s) /\ Performed(s) \in Nat /\ again[s] \in Nat
      BY <2>0, QueueFacts
    <3> QED
      BY <3>1, Sizes DEF Counted
  <2>2. ASSUME NEW n \in Notification
        PROVE  docs[n] <= 1 + again[n]
    BY <2>1, NamesDiffer DEF Performed
  <2>3. ASSUME NEW e \in Envelope
        PROVE  received[e] <= Cardinality(Process) * (1 + again[e]) + echoes[e]
    <3>1. published[e] <= 1 + again[e] /\ again[e] \in Nat /\ published[e] \in Nat
      BY <2>0, <2>1, NamesDiffer DEF Performed, MessagesShaped
    <3>0. PICK k \in Nat : k = 1 + again[e]
      BY <3>1
    <3> DEFINE turns == 1..k
    <3>2. IsFiniteSet(turns) /\ Cardinality(turns) = 1 + again[e]
      <4>1. IsFiniteSet(1..k) /\ Cardinality(1..k) = k
        BY FS_Interval
      <4> QED
        BY <3>0, <4>1
    <3> HIDE DEF turns
    <3>3. /\ IsFiniteSet(Process \X turns)
          /\ Cardinality(Process \X turns) = Cardinality(Process) * (1 + again[e])
      BY <3>2, RealtimeAssumption, FS_Product
    <3>4. 1..published[e] \subseteq turns
      BY <3>0, <3>1 DEF turns
    <3>5. Deliveries(e) \subseteq Process \X turns
      BY <3>1, <3>4, DeliveriesFinite
    <3>6. /\ Cardinality(Deliveries(e)) <= Cardinality(Process \X turns)
          /\ Cardinality(Deliveries(e)) \in Nat /\ Cardinality(Process \X turns) \in Nat
      BY <3>1, <3>3, <3>5, FS_Subset, FS_CardinalityType, DeliveriesFinite
    <3>7. /\ received[e] <= Cardinality(Deliveries(e)) + echoes[e]
          /\ received[e] \in Nat /\ echoes[e] \in Nat
      BY <2>0 DEF Delivered, MailShaped
    <3>8. received[e] <= Cardinality(Process \X turns) + echoes[e]
      BY <3>6, <3>7
    <3> QED
      BY <3>3, <3>8
  <2> QED
    BY <2>2, <2>3 DEF RepeatsAreAccountedFor
<1> QED
  BY <1>1, RealtimeHolds, PTL

-----------------------------------------------------------------------------
(* The catalogue.  Documents are never deleted, so that what a map names   *)
(* stays a document; between a transaction and its commit a map may name   *)
(* what only the commit will store (CommitOK).  A boot that takes the mock *)
(* goes through its steps in order, and each leaves the maps with all the  *)
(* next one refers to (EnsureOK).                                          *)
SyncFields == {"p", "todo", "phase", "dtos", "ids", "map", "stale", "boot"}
IsName(m) == m = <<m[1], m[2], m[3]>>
Covers(map, dtos) == \A e \in dtos : \E i \in map : NameOf(i) = e.name
HasMatch(stored) == \E i \in stored : i[1] = "match"

(* What a step fetched, in a form its documents may have; only matches     *)
(* refer to others.                                                        *)
StatusesOf(kind) == IF kind = "match" THEN MatchStatuses ELSE {"none"}
DtoOK(e, kind) ==
  /\ IsName(e.name) /\ e.name[1] = kind /\ e.name[2] \in Providers
  /\ e.status \in StatusesOf(kind)
  /\ kind # "match" => e.refs = {}
DtosOK(dtos, kind) == \A e \in dtos : DtoOK(e, kind)

(* Each entity has one id.  The map holds what is stored and what the      *)
(* commit will store, and an id that is not stored has twins only where    *)
(* they were written since.                                                *)
CommitOK(d, stored) ==
  /\ Head(d.todo) \in Kinds /\ DtosOK(d.dtos, Head(d.todo))
  /\ Covers(d.ids, ToEntities(d))
  /\ \A i \in d.ids : \E e \in ToEntities(d) : NameOf(i) = e.name
  /\ \A i, j \in d.ids : NameOf(i) = NameOf(j) => i = j
  /\ Head(d.todo) = "match" => d.map \subseteq stored
  /\ Head(d.todo) # "match" => d.ids \subseteq d.map /\ d.map \subseteq stored \cup d.ids
  /\ \A i \in d.ids \ stored : \A j \in stored : NameOf(j) = NameOf(i) => j \in d.stale

(* The steps of the mock before tournaments, before teams, and after.      *)
FromTeams == <<"team", "player", "matches">>
FromPlayers == <<"player", "matches">>
TeamsThenMatches == <<"team", "match">>
MockAnswers(d) ==
  /\ Head(d.todo) = "tournament" => d.dtos = MockTournaments
  /\ Head(d.todo) = "team" => d.dtos = MockTeams
  /\ Head(d.todo) = "match" => ToEntities(d) # {}
EnsureOK(d, some) ==
  /\ d.p = "MOCK"
  /\ d.todo \in {SyncAll, FromTeams, FromPlayers, TeamsThenMatches, <<"match">>, <<>>}
  /\ d.todo # SyncAll => Covers(d.map, MockTournaments)
  /\ d.todo \in {FromPlayers, <<"match">>} => Covers(d.map, MockTeams)
  /\ d.todo = <<>> => some
  /\ d.phase = "commit" => d.todo # <<>> /\ MockAnswers(d)

SyncOK(d, stored) ==
  /\ DOMAIN d = SyncFields /\ d.p \in Providers
  /\ d.phase \in {"idle", "next", "commit"} /\ d.boot \in {"no", "run", "reconcile", "ensure"}
  /\ d.phase = "commit" => CommitOK(d, stored)
  /\ d.phase # "commit" => d.map \subseteq stored
  /\ d.boot = "ensure" => EnsureOK(d, HasMatch(stored))

Numbered == \E n \in Nat : \A i \in Used : i[4] \in 0..n
DocumentsOK == \A e \in documents : DOMAIN e = {"id", "status", "refs"} /\ e.refs \subseteq Ids

Functions == sync = [c \in Sync |-> sync[c]] /\ boot = [c \in Sync |-> boot[c]]
SyncsOK == \A c \in Sync : SyncOK(sync[c], Ids)
BootsOK == \A c \in Sync : boot[c] = "done" => HasMatch(Ids)

CatalogueInv == Functions /\ DocumentsOK /\ Numbered /\ SyncsOK /\ BootsOK

-----------------------------------------------------------------------------
(* Ids and names. *)
LEMMA IdsAreNamed ==
  ASSUME NEW name, IsName(name), NEW n
  PROVE  NameOf(Id(name, n)) = name /\ Id(name, n)[4] = n
BY DEF NameOf, Id, IsName

(* A bounded set of naturals has a greatest element, and any has a least.  *)
LEMMA Greatest ==
  ASSUME NEW S \in SUBSET Nat, S # {}, NEW n \in Nat, \A s \in S : s <= n
  PROVE  Max(S) \in S /\ \A s \in S : s <= Max(S)
<1> DEFINE Bounds == {m \in Nat : \A s \in S : s <= m}
<1>1. IsWellFoundedOn(OpToRel(<, Nat), Nat)
  BY NatLessThanWellFounded
<1>2. Bounds \subseteq Nat /\ Bounds # {}
  OBVIOUS
<1>3. PICK m \in Bounds : \A k \in Bounds : ~ (<<k, m>> \in OpToRel(<, Nat))
  BY <1>1, <1>2, WFMin
<1>4. \A k \in Bounds : ~ (k < m)
  BY <1>3 DEF OpToRel
<1>5. m \in S
  <2> SUFFICES ASSUME m \notin S PROVE FALSE
    OBVIOUS
  <2>1. m \in Nat /\ \A s \in S : s \in Nat /\ s < m
    OBVIOUS
  <2>2. m # 0 /\ m - 1 \in Nat
    <3>1. PICK s \in S : s \in Nat /\ s < m
      BY <2>1
    <3> QED
      BY <2>1, <3>1
  <2>3. m - 1 \in Bounds
    BY <2>1, <2>2
  <2>4. m - 1 < m
    BY <2>1
  <2> QED
    BY <1>4, <2>3, <2>4
<1>6. \E x \in S : \A y \in S : x >= y
  BY <1>5
<1> QED
  BY <1>6 DEF Max

LEMMA FirstIsOne ==
  ASSUME NEW ids, ids # {}, \A i \in ids : i[4] \in Nat
  PROVE  First(ids) \in ids
<1> DEFINE S == {i[4] : i \in ids}
<1>1. IsWellFoundedOn(OpToRel(<, Nat), Nat)
  BY NatLessThanWellFounded
<1>2. S \subseteq Nat /\ S # {}
  OBVIOUS
<1>3. PICK m \in S : \A k \in S : ~ (<<k, m>> \in OpToRel(<, Nat))
  BY <1>1, <1>2, WFMin
<1>4. \A k \in S : ~ (k < m) /\ k \in Nat /\ m \in Nat
  BY <1>2, <1>3 DEF OpToRel
<1>5. PICK i \in ids : i[4] = m
  OBVIOUS
<1>6. \A j \in ids : j[4] \in S
  OBVIOUS
<1>7. \A j \in ids : i[4] <= j[4]
  BY <1>4, <1>5, <1>6
<1> QED
  BY <1>5, <1>7 DEF First

(* An upsert takes a document of its name, or an id that no document has,  *)
(* and then there is none of its name.                                     *)
LEMMA UpsertFits ==
  ASSUME NEW name, IsName(name), NEW n \in Nat, \A i \in Used : i[4] \in 0..n
  PROVE  /\ NameOf(UpsertByExternalId(name)) = name
         /\ UpsertByExternalId(name)[4] \in 0..(n + 1)
         /\ \/ UpsertByExternalId(name) \in Ids
            \/ \A j \in Ids : NameOf(j) # name
<1>0. Ids \subseteq Used
  BY DEF Used
<1>1. \A i : i \in Found(name) <=> i \in Ids /\ NameOf(i) = name
  BY DEF Found, Ids
<1>2. CASE Found(name) = {}
  <2> DEFINE S == {0} \cup {i[4] : i \in {j \in Used : NameOf(j) = name}}
  <2>1. S \in SUBSET Nat /\ S # {} /\ \A s \in S : s <= n
    OBVIOUS
  <2> HIDE DEF S
  <2>2. PICK m \in S : m = Max(S)
    BY <2>1, Greatest
  <2>3. m + 1 \in 0..(n + 1)
    <3>1. m \in Nat /\ m <= n
      BY <2>1
    <3> QED
      BY <3>1
  <2>4. UpsertByExternalId(name) = Id(name, m + 1)
    BY <1>2, <2>2 DEF S, UpsertByExternalId, NewId
  <2> QED
    BY <1>1, <1>2, <2>3, <2>4, IdsAreNamed
<1>3. CASE Found(name) # {}
  <2>1. \A i \in Found(name) : i[4] \in Nat /\ i[4] \in 0..(n + 1)
    BY <1>0, <1>1
  <2>2. First(Found(name)) \in Found(name)
    BY <1>3, <2>1, FirstIsOne
  <2>3. UpsertByExternalId(name) = First(Found(name))
    BY <1>3 DEF UpsertByExternalId
  <2> QED
    BY <1>1, <2>1, <2>2, <2>3
<1> QED
  BY <1>2, <1>3

(* What a provider answers has names, and only matches refer to others.    *)
LEMMA PlainAreNamed ==
  ASSUME NEW kind, kind # "match", NEW q \in Providers, NEW xs
  PROVE  DtosOK(Plain(kind, q, xs), kind)
<1> SUFFICES ASSUME NEW e \in Plain(kind, q, xs) PROVE DtoOK(e, kind)
  BY DEF DtosOK
<1>1. PICK x \in xs : e = Dto(Name(kind, q, x), "none", {})
  BY DEF Plain
<1>2. e.name = Name(kind, q, x) /\ e.status = "none" /\ e.refs = {}
  BY <1>1 DEF Dto
<1>3. IsName(e.name) /\ e.name[1] = kind /\ e.name[2] = q
  BY <1>2 DEF Name, IsName
<1> QED
  BY <1>2, <1>3 DEF DtoOK, StatusesOf

LEMMA ReportsAreNamed ==
  ASSUME NEW q \in Providers, NEW F, NEW dtos \in Reports(q, F)
  PROVE  DtosOK(dtos, "match")
<1> SUFFICES ASSUME NEW e \in dtos PROVE DtoOK(e, "match")
  BY DEF DtosOK
<1>1. PICK reported \in [F -> MatchStatuses] : dtos = {MapMatch(q, f, reported[f]) : f \in F}
  BY DEF Reports
<1>2. PICK f \in F : e = MapMatch(q, f, reported[f])
  BY <1>1
<1>3. PICK s \in MatchStatuses : e = MapMatch(q, f, s)
  BY <1>2
<1>4. e.name = Name("match", q, f.id) /\ e.status = s
  BY <1>3 DEF MapMatch, Dto
<1>5. IsName(e.name) /\ e.name[1] = "match" /\ e.name[2] = q
  BY <1>4 DEF Name, IsName
<1> QED
  BY <1>4, <1>5 DEF DtoOK, StatusesOf

LEMMA FetchedAreNamed ==
  ASSUME NEW kind \in Kinds, NEW p \in Providers, NEW dtos \in Fetched(kind, p)
  PROVE  DtosOK(dtos, kind)
<1>0. "MOCK" \in Providers
  BY DEF Providers
<1>1. CASE kind = "tournament"
  <2>1. \E xs : dtos \in {Plain("tournament", p, xs), Plain("tournament", "MOCK", xs)}
    BY <1>1 DEF Fetched, FetchTournaments, MockTournaments
  <2> QED
    BY <1>0, <1>1, <2>1, PlainAreNamed
<1>2. CASE kind = "team"
  <2>1. \E xs : dtos \in {Plain("team", p, xs), Plain("team", "MOCK", xs)}
    <3>1. Fetched(kind, p) = FetchTeams(p)
      BY <1>2 DEF Fetched
    <3>2. ASSUME dtos \in TeamsFromCurrentMatches(p)
          PROVE  \E xs : dtos = Plain("team", p, xs)
      BY <3>2 DEF TeamsFromCurrentMatches
    <3> QED
      BY <3>1, <3>2 DEF FetchTeams, MockTeams
  <2> QED
    BY <1>0, <1>2, <2>1, PlainAreNamed
<1>3. CASE kind = "match"
  <2>1. \E q \in Providers : \E F : dtos \in Reports(q, F)
    BY <1>0, <1>3 DEF Fetched, FetchMatches, GenerateMatches
  <2> QED
    BY <1>3, <2>1, ReportsAreNamed
<1> QED
  BY <1>1, <1>2, <1>3 DEF Kinds

-----------------------------------------------------------------------------
(* The steps of a synchronisation. *)
LEMMA OneStep ==
  ASSUME NEW S, NEW a \in S
  PROVE  <<a>> \in Seq(S) /\ Len(<<a>>) = 1 /\ <<a>>[1] = a
<1>1. <<a>> \in Seq(S)
  OBVIOUS
<1>2. Len(<<a>>) = 1 /\ <<a>>[1] = a
  OBVIOUS
<1> QED
  BY <1>1, <1>2

LEMMA TwoJoin ==
  ASSUME NEW S, NEW s \in Seq(S), NEW t \in Seq(S), Len(s) = 1, Len(t) = 1
  PROVE  s \o t = <<s[1], t[1]>>
<1>1. PICK u \in Seq(S) : u = s \o t
  BY ConcatProperties
<1>2. Len(u) = 2 /\ \A i \in 1..2 : u[i] = IF i <= 1 THEN s[i] ELSE t[i - 1]
  BY <1>1, ConcatProperties
<1>3. u[1] = s[1] /\ u[2] = t[1]
  BY <1>2
<1>4. u = <<s[1], t[1]>>
  BY <1>2, <1>3
<1> QED
  BY <1>1, <1>4

LEMMA OneThenOne ==
  ASSUME NEW S, NEW a \in S, NEW b \in S
  PROVE  <<a>> \o <<b>> = <<a, b>>
<1>1. PICK s \in Seq(S) : s = <<a>>
  BY OneStep
<1>2. PICK t \in Seq(S) : t = <<b>>
  BY OneStep
<1>3. Len(s) = 1 /\ Len(t) = 1 /\ s[1] = a /\ t[1] = b
  BY <1>1, <1>2
<1>4. s \o t = <<a, b>>
  BY <1>3, TwoJoin
<1> QED
  BY <1>1, <1>2, <1>4

LEMMA StepsJoin == <<"team">> \o <<"match">> = TeamsThenMatches
<1>1. "team" \in {"team", "match"} /\ "match" \in {"team", "match"}
  OBVIOUS
<1> QED
  BY <1>1, OneThenOne DEF TeamsThenMatches

LEMMA StepsFollow ==
  ASSUME NEW map
  PROVE  /\ Head(SyncAll) = "tournament" /\ Expand(Tail(SyncAll), map) = FromTeams
         /\ Head(FromTeams) = "team" /\ Expand(Tail(FromTeams), map) = FromPlayers
         /\ Head(FromPlayers) = "player" /\ Tail(FromPlayers) = <<"matches">>
         /\ Head(TeamsThenMatches) = "team" /\ Expand(Tail(TeamsThenMatches), map) = <<"match">>
         /\ Head(<<"match">>) = "match" /\ Expand(Tail(<<"match">>), map) = <<>>
<1>1. Head(SyncAll) = "tournament" /\ Tail(SyncAll) = FromTeams
  BY DEF SyncAll, FromTeams
<1>2. Head(FromTeams) = "team" /\ Tail(FromTeams) = FromPlayers
  BY DEF FromPlayers, FromTeams
<1>3. Head(FromPlayers) = "player" /\ Tail(FromPlayers) = <<"matches">>
  BY DEF FromPlayers
<1>4. Head(TeamsThenMatches) = "team" /\ Tail(TeamsThenMatches) = <<"match">>
  BY DEF TeamsThenMatches
<1>5. Head(<<"match">>) = "match" /\ Tail(<<"match">>) = <<>>
  OBVIOUS
<1>6. /\ Expand(FromTeams, map) = FromTeams /\ Expand(FromPlayers, map) = FromPlayers
      /\ Expand(<<"match">>, map) = <<"match">> /\ Expand(<<>>, map) = <<>>
  BY <1>2, <1>3, <1>5 DEF Expand
<1> QED
  BY <1>1, <1>2, <1>3, <1>4, <1>5, <1>6

LEMMA MatchesFollow ==
  ASSUME NEW map, Covers(map, MockTournaments)
  PROVE  Expand(<<"matches">>, map) \in {<<"match">>, TeamsThenMatches}
<1>1. \E i \in map : i[1] = "tournament"
  <2>1. PICK f \in Fixtures["MOCK"] : TRUE
    BY CatalogueAssumption
  <2>2. Dto(Name("tournament", "MOCK", f.series), "none", {}) \in MockTournaments
    BY DEF MockTournaments, Plain, Series
  <2>3. PICK i \in map : NameOf(i) = Name("tournament", "MOCK", f.series)
    BY <2>2 DEF Covers, Dto
  <2> QED
    BY <2>3 DEF NameOf, Name
<1>2. Head(<<"matches">>) = "matches" /\ Tail(<<"matches">>) = <<>> /\ <<"matches">> # <<>>
  OBVIOUS
<1>3. Expand(<<"matches">>, map) =
        <<>> \o (IF \A i \in map : i[1] # "team" THEN <<"team">> ELSE <<>>) \o <<"match">> \o <<>>
  BY <1>1, <1>2, Zenon DEF Expand
<1>4. CASE \A i \in map : i[1] # "team"
  <2>1. Expand(<<"matches">>, map) = <<>> \o <<"team">> \o <<"match">> \o <<>>
    BY <1>3, <1>4
  <2>2. <<>> \o <<"team">> = <<"team">>
    OBVIOUS
  <2>3. TeamsThenMatches \o <<>> = TeamsThenMatches
    BY DEF TeamsThenMatches
  <2> QED
    BY <2>1, <2>2, <2>3, StepsJoin
<1>5. CASE ~ \A i \in map : i[1] # "team"
  <2>1. Expand(<<"matches">>, map) = <<>> \o <<>> \o <<"match">> \o <<>>
    BY <1>3, <1>5
  <2>2. <<>> \o <<>> \o <<"match">> \o <<>> = <<"match">>
    OBVIOUS
  <2> QED
    BY <2>1, <2>2
<1> QED
  BY <1>4, <1>5

LEMMA AdvanceFields ==
  ASSUME NEW d, DOMAIN d = SyncFields, NEW a, a = Advance(d)
  PROVE  /\ DOMAIN a = SyncFields
         /\ \/ a = NoSync
            \/ /\ a.p = d.p /\ a.boot = d.boot /\ a.map = d.map /\ a.ids = {}
               /\ a.phase = "next" /\ a.todo = Expand(Tail(d.todo), d.map)
         /\ a = NoSync => d.boot = "no" \/ a.boot = d.boot
         /\ NoSync.phase = "idle" /\ NoSync.map = {} /\ NoSync.ids = {} /\ NoSync.boot = "no"
<1>1. DOMAIN NoSync = SyncFields
  BY DEF NoSync, SyncFields
<1>2. NoSync.phase = "idle" /\ NoSync.map = {} /\ NoSync.ids = {} /\ NoSync.boot = "no"
  BY DEF NoSync
<1>3. CASE Len(d.todo) = 1 /\ d.boot = "no"
  BY <1>1, <1>2, <1>3 DEF Advance
<1>4. CASE ~ (Len(d.todo) = 1 /\ d.boot = "no")
  <2>1. a = [d EXCEPT !.phase = "next", !.todo = Expand(Tail(d.todo), d.map), !.dtos = {},
                      !.ids = {}, !.stale = {}]
    BY <1>4 DEF Advance
  <2>2. /\ a.p = d.p /\ a.boot = d.boot /\ a.map = d.map /\ a.ids = {}
        /\ a.phase = "next" /\ a.todo = Expand(Tail(d.todo), d.map) /\ DOMAIN a = SyncFields
    BY <2>1 DEF SyncFields
  <2> QED
    BY <1>2, <2>2
<1> QED
  BY <1>3, <1>4

(* The step at the head of a boot that takes the mock is done.             *)
LEMMA EnsureAdvances ==
  ASSUME NEW d, DOMAIN d = SyncFields, NEW some \in BOOLEAN, NEW other \in BOOLEAN,
         d.boot = "ensure", EnsureOK(d, other), d.todo # <<>>,
         Head(d.todo) = "tournament" => Covers(d.map, MockTournaments),
         Head(d.todo) = "team" => Covers(d.map, MockTeams),
         Head(d.todo) = "match" => some
  PROVE  EnsureOK(Advance(d), some)
<1>1. PICK a : a = Advance(d)
  OBVIOUS
<1>2. /\ a.p = "MOCK" /\ a.map = d.map /\ a.phase = "next"
      /\ a.todo = Expand(Tail(d.todo), d.map)
  <2>1. a # NoSync
    <3>2. Advance(d) = [d EXCEPT !.phase = "next", !.todo = Expand(Tail(d.todo), d.map),
                                 !.dtos = {}, !.ids = {}, !.stale = {}]
      BY DEF Advance
    <3>3. a.phase = "next"
      BY <1>1, <3>2 DEF SyncFields
    <3> QED
      BY <3>3, AdvanceFields
  <2> QED
    BY <1>1, <2>1, AdvanceFields DEF EnsureOK
<1>3. Covers(a.map, MockTournaments)
  <2>1. d.todo = SyncAll \/ Covers(d.map, MockTournaments)
    BY DEF EnsureOK
  <2> QED
    BY <1>2, <2>1, StepsFollow
<1>4. a.todo \in {FromTeams, FromPlayers, TeamsThenMatches, <<"match">>, <<>>}
  <2>1. CASE d.todo = FromPlayers
    BY <1>2, <1>3, <2>1, StepsFollow, MatchesFollow
  <2>2. CASE d.todo # FromPlayers
    BY <1>2, <2>2, StepsFollow DEF EnsureOK
  <2> QED
    BY <2>1, <2>2
<1>5. a.todo \in {FromPlayers, <<"match">>} => Covers(a.map, MockTeams)
  <2>1. CASE d.todo \in {FromPlayers, FromTeams, TeamsThenMatches, <<"match">>}
    BY <1>2, <2>1, StepsFollow DEF EnsureOK
  <2>2. CASE d.todo = SyncAll
    BY <1>2, <2>2, StepsFollow DEF FromTeams, FromPlayers
  <2> QED
    BY <2>1, <2>2 DEF EnsureOK
<1>6. a.todo = <<>> => some
  <2>1. FromTeams # <<>> /\ FromPlayers # <<>> /\ TeamsThenMatches # <<>> /\ <<"match">> # <<>>
    BY DEF FromTeams, FromPlayers, TeamsThenMatches
  <2>2. a.todo = <<>> => Head(d.todo) = "match"
    <3>1. CASE d.todo = FromPlayers
      BY <1>2, <1>3, <2>1, <3>1, StepsFollow, MatchesFollow
    <3>2. CASE d.todo # FromPlayers
      BY <1>2, <2>1, <3>2, StepsFollow DEF EnsureOK
    <3> QED
      BY <3>1, <3>2
  <2> QED
    BY <2>2
<1> QED
  BY <1>1, <1>2, <1>3, <1>4, <1>5, <1>6 DEF EnsureOK

-----------------------------------------------------------------------------
(* Synchronisations keep the invariant: those that a write does not touch, *)
(* and the one that takes a step.                                          *)
LEMMA EntitiesSame ==
  ASSUME NEW d, NEW x, NEW kind, x.dtos = d.dtos, DtosOK(d.dtos, kind),
         kind = "match" => x.map = d.map
  PROVE  ToEntities(x) = ToEntities(d)
<1>1. CASE x.map = d.map
  BY <1>1 DEF ToEntities
<1>2. CASE kind # "match"
  BY <1>2 DEF ToEntities, DtosOK, DtoOK
<1> QED
  BY <1>1, <1>2

LEMMA OvertakenFits ==
  ASSUME NEW d, NEW stored, SyncOK(d, stored), NEW written
  PROVE  /\ SyncOK(Overtaken(d, written), stored \cup written)
         /\ Overtaken(d, written).ids = d.ids /\ Overtaken(d, written).map = d.map
<1> DEFINE o == Overtaken(d, written)
<1> DEFINE all == stored \cup written
<1>1. CASE d.phase # "commit"
  <2>1. o = d
    BY <1>1 DEF Overtaken
  <2>2. HasMatch(stored) => HasMatch(all)
    BY DEF HasMatch
  <2>3. d.boot = "ensure" => EnsureOK(d, HasMatch(all))
    BY <2>2 DEF SyncOK, EnsureOK
  <2> QED
    BY <1>1, <2>1, <2>3 DEF SyncOK
<1>2. CASE d.phase = "commit"
  <2>1. o = [d EXCEPT !.stale = d.stale \cup written]
    BY <1>2 DEF Overtaken
  <2>2. /\ DOMAIN o = SyncFields /\ o.p = d.p /\ o.todo = d.todo /\ o.phase = d.phase
        /\ o.dtos = d.dtos /\ o.ids = d.ids /\ o.map = d.map /\ o.boot = d.boot
        /\ o.stale = d.stale \cup written
    BY <2>1 DEF SyncOK, SyncFields
  <2> HIDE DEF o
  <2>3. ToEntities(o) = ToEntities(d)
    BY <2>2 DEF ToEntities
  <2>4. CommitOK(o, all)
    BY <1>2, <2>2, <2>3 DEF SyncOK, CommitOK
  <2>5. HasMatch(stored) => HasMatch(all)
    BY DEF HasMatch
  <2>6. o.boot = "ensure" => EnsureOK(o, HasMatch(all))
    <3> SUFFICES ASSUME o.boot = "ensure" PROVE EnsureOK(o, HasMatch(all))
      OBVIOUS
    <3>1. EnsureOK(d, HasMatch(stored))
      BY <2>2 DEF SyncOK
    <3> QED
      BY <2>2, <2>3, <2>5, <3>1 DEF EnsureOK, MockAnswers
  <2>7. o.p \in Providers /\ o.phase = "commit" /\ o.boot \in {"no", "run", "reconcile", "ensure"}
    BY <1>2, <2>2 DEF SyncOK
  <2> QED
    BY <2>2, <2>4, <2>6, <2>7 DEF o, SyncOK
<1> QED
  BY <1>1, <1>2

LEMMA AdvanceFits ==
  ASSUME NEW d, NEW stored, DOMAIN d = SyncFields, d.p \in Providers,
         d.boot \in {"no", "run", "reconcile", "ensure"}, d.map \subseteq stored,
         d.boot = "ensure" => EnsureOK(Advance(d), HasMatch(stored))
  PROVE  /\ SyncOK(Advance(d), stored)
         /\ Advance(d).ids = {} /\ Advance(d).map \subseteq d.map
<1>1. PICK a : a = Advance(d)
  OBVIOUS
<1>2. NoSync.p \in Providers
  BY DEF NoSync, Providers
<1>3. /\ DOMAIN a = SyncFields /\ a.p \in Providers /\ a.phase \in {"idle", "next"}
      /\ a.ids = {} /\ a.map \subseteq d.map
      /\ a.boot = "no" \/ a.boot = d.boot
  BY <1>1, <1>2, AdvanceFields
<1> QED
  BY <1>1, <1>3 DEF SyncOK

LEMMA HasMatchDocuments == HasMatch(Ids) <=> MatchDocuments # {}
BY DEF HasMatch, Ids, MatchDocuments

(* A step that writes no document. *)
LEMMA GoKeeps ==
  ASSUME CatalogueInv, NEW c \in Sync, NEW new, Go(c, new), documents' = documents,
         SyncOK(new, Ids), NEW n \in Nat, \A i \in Used \cup new.ids \cup new.map : i[4] \in 0..n,
         NEW how, boot' = [boot EXCEPT ![c] = how], how = "done" => HasMatch(Ids)
  PROVE  CatalogueInv'
<1>1. Ids' = Ids
  BY DEF Ids
<1>2. /\ sync' = [x \in Sync |-> sync'[x]] /\ sync'[c] = new
      /\ \A x \in Sync \ {c} : sync'[x] = sync[x]
  BY DEF Go, CatalogueInv, Functions
<1>3. /\ boot' = [x \in Sync |-> boot'[x]] /\ boot'[c] = how
      /\ \A x \in Sync \ {c} : boot'[x] = boot[x]
  BY DEF CatalogueInv, Functions
<1>4. DocumentsOK'
  BY <1>1 DEF CatalogueInv, DocumentsOK
<1>5. Numbered'
  <2>1. Used' \subseteq Used \cup new.ids \cup new.map
    BY <1>1, <1>2 DEF Used
  <2> QED
    BY <2>1 DEF Numbered
<1>6. \A x \in Sync : SyncOK(sync'[x], Ids')
  BY <1>1, <1>2 DEF CatalogueInv, SyncsOK
<1>7. \A x \in Sync : boot'[x] = "done" => HasMatch(Ids')
  BY <1>1, <1>3 DEF CatalogueInv, BootsOK
<1>8. Functions'
  BY <1>2, <1>3, Zenon DEF Functions
<1>9. SyncsOK' /\ BootsOK'
  BY <1>6, <1>7, Zenon DEF SyncsOK, BootsOK
<1> QED
  BY <1>4, <1>5, <1>8, <1>9 DEF CatalogueInv

(* A step that writes documents.                                           *)
LEMMA GoOvertakingKeeps ==
  ASSUME CatalogueInv, NEW c \in Sync, NEW new, NEW written, GoOvertaking(c, new, written),
         Ids' = Ids \cup written, DocumentsOK', UNCHANGED boot,
         SyncOK(new, Ids'), new.ids \cup new.map \cup written \subseteq Used
  PROVE  CatalogueInv'
<1>1. /\ sync' = [x \in Sync |-> sync'[x]] /\ sync'[c] = new
      /\ \A x \in Sync \ {c} : sync'[x] = Overtaken(sync[x], written)
  BY DEF GoOvertaking
<1>2. \A x \in Sync : SyncOK(sync'[x], Ids')
  <2>1. \A x \in Sync : SyncOK(sync[x], Ids)
    BY DEF CatalogueInv, SyncsOK
  <2> QED
    BY <1>1, <2>1, OvertakenFits
<1>3. Numbered'
  <2>1. \A x \in Sync \ {c} : sync'[x].ids = sync[x].ids /\ sync'[x].map = sync[x].map
    <3> SUFFICES ASSUME NEW x \in Sync \ {c}
                 PROVE  sync'[x].ids = sync[x].ids /\ sync'[x].map = sync[x].map
      OBVIOUS
    <3>1. SyncOK(sync[x], Ids) /\ sync'[x] = Overtaken(sync[x], written)
      BY <1>1 DEF CatalogueInv, SyncsOK
    <3>2. /\ Overtaken(sync[x], written).ids = sync[x].ids
          /\ Overtaken(sync[x], written).map = sync[x].map
      BY <3>1, OvertakenFits
    <3> QED
      BY <3>1, <3>2
  <2>2. Used' \subseteq Used
    <3>1. Ids \subseteq Used /\ \A x \in Sync : sync[x].ids \subseteq Used /\ sync[x].map \subseteq Used
      BY DEF Used
    <3>2. Ids' \subseteq Used /\ \A x \in Sync : sync'[x].ids \subseteq Used /\ sync'[x].map \subseteq Used
      BY <1>1, <2>1, <3>1
    <3> QED
      BY <3>2 DEF Used
  <2> QED
    BY <2>2 DEF CatalogueInv, Numbered
<1>4. boot' = [x \in Sync |-> boot'[x]]
  BY DEF CatalogueInv, Functions
<1>5. \A x \in Sync : boot'[x] = "done" => HasMatch(Ids')
  BY DEF CatalogueInv, BootsOK, HasMatch
<1>6. Functions'
  BY <1>1, <1>4, Zenon DEF Functions
<1>7. SyncsOK' /\ BootsOK'
  BY <1>2, <1>5, Zenon DEF SyncsOK, BootsOK
<1> QED
  BY <1>3, <1>6, <1>7 DEF CatalogueInv

-----------------------------------------------------------------------------
(* Transactions. *)
LEMMA MockMatchesResolve ==
  ASSUME NEW d, Covers(d.map, MockTournaments), Covers(d.map, MockTeams),
         d.dtos \in GenerateMatches
  PROVE  ToEntities(d) # {}
<1>1. PICK reported : d.dtos = {MapMatch("MOCK", f, reported[f]) : f \in Fixtures["MOCK"]}
  BY DEF GenerateMatches, Reports
<1>2. PICK f \in Fixtures["MOCK"] : TRUE
  BY CatalogueAssumption
<1>3. PICK e \in d.dtos : e = MapMatch("MOCK", f, reported[f])
  BY <1>1, <1>2
<1>4. e.refs = {Name("tournament", "MOCK", f.series)} \cup {Name("team", "MOCK", t) : t \in f.teams}
  <2>1. \A t : TeamProviderId("MOCK", t) = t
    BY DEF TeamProviderId
  <2>2. e.refs = {Name("tournament", "MOCK", f.series)} \cup
                 {Name("team", "MOCK", TeamProviderId("MOCK", t)) : t \in f.teams}
    BY <1>3 DEF MapMatch, Dto
  <2> QED
    BY <2>1, <2>2
<1>5. \E i \in d.map : NameOf(i) = Name("tournament", "MOCK", f.series)
  <2>1. Dto(Name("tournament", "MOCK", f.series), "none", {}) \in MockTournaments
    BY <1>2 DEF MockTournaments, Plain, Series
  <2> QED
    BY <2>1 DEF Covers, Dto
<1>6. ASSUME NEW t \in f.teams PROVE \E i \in d.map : NameOf(i) = Name("team", "MOCK", t)
  <2>1. t \in TeamsIn(Fixtures["MOCK"])
    BY <1>2, <1>6 DEF TeamsIn
  <2>2. Dto(Name("team", "MOCK", t), "none", {}) \in MockTeams
    BY <2>1 DEF MockTeams, Plain
  <2> QED
    BY <2>2 DEF Covers, Dto
<1>7. \A r \in e.refs : \E i \in d.map : NameOf(i) = r
  BY <1>4, <1>5, <1>6
<1> QED
  BY <1>3, <1>7 DEF ToEntities

LEMMA UpsertsFit ==
  ASSUME NEW d, DtosOK(d.dtos, Head(d.todo)), NEW n \in Nat, \A i \in Used : i[4] \in 0..n
  PROVE  /\ Covers(Upserted(d), ToEntities(d))
         /\ \A i \in Upserted(d) : \E e \in ToEntities(d) : NameOf(i) = e.name
         /\ \A i, j \in Upserted(d) : NameOf(i) = NameOf(j) => i = j
         /\ \A i \in Upserted(d) \ Ids : \A j \in Ids : NameOf(j) # NameOf(i)
         /\ \A i \in Upserted(d) : i[4] \in 0..(n + 1)
<1>1. \A e \in ToEntities(d) : IsName(e.name)
  BY DEF ToEntities, DtosOK, DtoOK
<1>2. \A i : i \in Upserted(d) <=> \E e \in ToEntities(d) : i = UpsertByExternalId(e.name)
  BY DEF Upserted
<1>3. \A e \in ToEntities(d) :
        /\ NameOf(UpsertByExternalId(e.name)) = e.name
        /\ UpsertByExternalId(e.name)[4] \in 0..(n + 1)
        /\ UpsertByExternalId(e.name) \notin Ids => \A j \in Ids : NameOf(j) # e.name
  BY <1>1, UpsertFits
<1>4. Covers(Upserted(d), ToEntities(d))
  BY <1>2, <1>3 DEF Covers
<1>5. \A i \in Upserted(d) : i[4] \in 0..(n + 1)
  BY <1>2, <1>3
<1>6. \A i \in Upserted(d) : \E e \in ToEntities(d) :
        NameOf(i) = e.name /\ i = UpsertByExternalId(NameOf(i))
  BY <1>2, <1>3
<1>7. \A i \in Upserted(d) \ Ids : \A j \in Ids : NameOf(j) # NameOf(i)
  BY <1>2, <1>3
<1> QED
  BY <1>4, <1>5, <1>6, <1>7

(* What a transaction leaves in the state of its synchronisation, d being  *)
(* what the first or an earlier attempt started from.                      *)
LEMMA TransactionFits ==
  ASSUME CatalogueInv, NEW d, DOMAIN d = SyncFields, d.p \in Providers,
         d.boot \in {"no", "run", "reconcile", "ensure"},
         Head(d.todo) \in Kinds, DtosOK(d.dtos, Head(d.todo)),
         Head(d.todo) = "match" => d.map \subseteq Ids,
         \A i \in d.map : i \in Ids \/ \E e \in ToEntities(d) : NameOf(i) = e.name,
         d.map \subseteq Used,
         d.boot = "ensure" => /\ EnsureOK(d, HasMatch(Ids))
                              /\ d.todo # <<>> /\ MockAnswers(d),
         NEW new, new = [d EXCEPT !.phase = "commit", !.ids = Upserted(d), !.stale = {},
                                  !.map = MapWith(d, Upserted(d))]
  PROVE  /\ SyncOK(new, Ids)
         /\ \E n \in Nat : \A i \in Used \cup new.ids \cup new.map : i[4] \in 0..n
<1>1. PICK n \in Nat : \A i \in Used : i[4] \in 0..n
  BY DEF CatalogueInv, Numbered
<1> DEFINE ids == Upserted(d)
<1>2. /\ Covers(ids, ToEntities(d))
      /\ \A i \in ids : \E e \in ToEntities(d) : NameOf(i) = e.name
      /\ \A i, j \in ids : NameOf(i) = NameOf(j) => i = j
      /\ \A i \in ids \ Ids : \A j \in Ids : NameOf(j) # NameOf(i)
      /\ \A i \in ids : i[4] \in 0..(n + 1)
  BY <1>1, UpsertsFit
<1> HIDE DEF ids
<1>3. /\ DOMAIN new = SyncFields /\ new.p = d.p /\ new.todo = d.todo /\ new.boot = d.boot
      /\ new.dtos = d.dtos /\ new.phase = "commit" /\ new.ids = ids /\ new.stale = {}
      /\ new.map = MapWith(d, ids)
  BY DEF SyncFields, ids
<1>4. /\ Head(d.todo) = "match" => new.map = d.map
      /\ Head(d.todo) # "match" => new.map = MapSet(d.map, ids)
  BY <1>3 DEF MapWith
<1>5. ToEntities(new) = ToEntities(d)
  BY <1>3, <1>4, EntitiesSame
<1>6. Head(d.todo) # "match" => new.ids \subseteq new.map /\ new.map \subseteq Ids \cup new.ids
  <2>1. ids \subseteq MapSet(d.map, ids)
    BY DEF MapSet
  <2>2. ASSUME NEW i \in MapSet(d.map, ids), i \notin ids PROVE i \in Ids
    <3>1. i \in d.map /\ \A j \in ids : NameOf(j) # NameOf(i)
      BY <2>2 DEF MapSet
    <3>2. ~ \E e \in ToEntities(d) : NameOf(i) = e.name
      BY <1>2, <3>1 DEF Covers
    <3> QED
      BY <3>1, <3>2
  <2> QED
    BY <1>3, <1>4, <2>1, <2>2
<1>7. CommitOK(new, Ids)
  <2>1. /\ Head(new.todo) \in Kinds /\ DtosOK(new.dtos, Head(new.todo))
        /\ Covers(new.ids, ToEntities(new))
    BY <1>2, <1>3, <1>5
  <2>2. /\ \A i \in new.ids : \E e \in ToEntities(new) : NameOf(i) = e.name
        /\ \A i, j \in new.ids : NameOf(i) = NameOf(j) => i = j
        /\ \A i \in new.ids \ Ids : \A j \in Ids : NameOf(j) = NameOf(i) => j \in new.stale
    BY <1>2, <1>3, <1>5
  <2>3. /\ Head(new.todo) = "match" => new.map \subseteq Ids
        /\ Head(new.todo) # "match" => new.ids \subseteq new.map /\ new.map \subseteq Ids \cup new.ids
    BY <1>3, <1>4, <1>6
  <2> QED
    BY <2>1, <2>2, <2>3 DEF CommitOK
<1>8. ASSUME NEW dtos, Covers(d.map, dtos) PROVE Covers(new.map, dtos)
  <2>1. CASE Head(d.todo) = "match"
    BY <1>4, <1>8, <2>1
  <2>2. CASE Head(d.todo) # "match"
    <3> SUFFICES ASSUME NEW e \in dtos PROVE \E i \in MapSet(d.map, ids) : NameOf(i) = e.name
      BY <1>4, <2>2 DEF Covers
    <3>1. PICK i \in d.map : NameOf(i) = e.name
      BY <1>8 DEF Covers
    <3> QED
      BY <3>1 DEF MapSet
  <2> QED
    BY <2>1, <2>2
<1>9. new.boot = "ensure" => EnsureOK(new, HasMatch(Ids))
  <2> SUFFICES ASSUME new.boot = "ensure" PROVE EnsureOK(new, HasMatch(Ids))
    OBVIOUS
  <2>1. EnsureOK(d, HasMatch(Ids)) /\ d.todo # <<>> /\ MockAnswers(d)
    BY <1>3
  <2>2. MockAnswers(new)
    BY <1>3, <1>5, <2>1 DEF MockAnswers
  <2>3. Covers(d.map, MockTournaments) => Covers(new.map, MockTournaments)
    BY <1>8
  <2>4. Covers(d.map, MockTeams) => Covers(new.map, MockTeams)
    BY <1>8
  <2> QED
    BY <1>3, <2>1, <2>2, <2>3, <2>4 DEF EnsureOK
<1>10. SyncOK(new, Ids)
  BY <1>3, <1>7, <1>9 DEF SyncOK
<1>11. \A i \in Used \cup new.ids \cup new.map : i[4] \in 0..(n + 1)
  <2>1. new.ids \subseteq ids /\ new.map \subseteq d.map \cup ids
    BY <1>3, <1>4 DEF MapSet
  <2>2. \A i \in Used : i[4] \in 0..(n + 1)
    BY <1>1
  <2> QED
    BY <1>2, <2>1, <2>2
<1> QED
  BY <1>10, <1>11

-----------------------------------------------------------------------------
(* Every action keeps the invariant. *)
LEMMA SyncFacts ==
  ASSUME CatalogueInv, NEW c \in Sync
  PROVE  /\ SyncOK(sync[c], Ids)
         /\ Ids \subseteq Used /\ sync[c].ids \subseteq Used /\ sync[c].map \subseteq Used
         /\ \E n \in Nat : \A i \in Used : i[4] \in 0..n
         /\ boot = [boot EXCEPT ![c] = boot[c]] /\ (boot[c] = "done" => HasMatch(Ids))
<1>1. SyncOK(sync[c], Ids) /\ (boot[c] = "done" => HasMatch(Ids))
  BY DEF CatalogueInv, SyncsOK, BootsOK
<1>2. Ids \subseteq Used /\ sync[c].ids \subseteq Used /\ sync[c].map \subseteq Used
  BY DEF Used
<1>3. \E n \in Nat : \A i \in Used : i[4] \in 0..n
  BY DEF CatalogueInv, Numbered
<1>4. boot = [boot EXCEPT ![c] = boot[c]]
  BY DEF CatalogueInv, Functions
<1> QED
  BY <1>1, <1>2, <1>3, <1>4

LEMMA GoQuietly ==
  ASSUME CatalogueInv, NEW c \in Sync, NEW new, Go(c, new), documents' = documents,
         SyncOK(new, Ids), new.ids \cup new.map \subseteq Used,
         NEW how, boot' = [boot EXCEPT ![c] = how], how = "done" => HasMatch(Ids)
  PROVE  CatalogueInv'
<1>1. PICK n \in Nat : \A i \in Used : i[4] \in 0..n
  BY SyncFacts
<1>2. \A i \in Used \cup new.ids \cup new.map : i[4] \in 0..n
  BY <1>1
<1> QED
  BY <1>2, GoKeeps

(* A synchronisation with empty maps. *)
LEMMA FreshSyncFits ==
  ASSUME NEW new, DOMAIN new = SyncFields, new.p \in Providers,
         new.phase \in {"idle", "next"}, new.ids = {}, new.map = {},
         new.boot \in {"no", "run", "reconcile", "ensure"},
         new.boot = "ensure" => new.p = "MOCK" /\ new.todo = SyncAll,
         NEW stored
  PROVE  SyncOK(new, stored)
<1>1. new.boot = "ensure" => EnsureOK(new, HasMatch(stored))
  <2>1. SyncAll # FromPlayers /\ SyncAll # <<"match">> /\ SyncAll # <<>>
    BY StepsFollow DEF SyncAll
  <2> QED
    BY <2>1 DEF EnsureOK
<1> QED
  BY <1>1 DEF SyncOK

LEMMA NoSyncFits ==
  ASSUME NEW stored
  PROVE  SyncOK(NoSync, stored) /\ NoSync.ids = {} /\ NoSync.map = {}
<1>1. /\ DOMAIN NoSync = SyncFields /\ NoSync.p \in Providers /\ NoSync.phase = "idle"
      /\ NoSync.ids = {} /\ NoSync.map = {} /\ NoSync.boot = "no"
  BY DEF NoSync, SyncFields, Providers
<1> QED
  BY <1>1, FreshSyncFits

LEMMA ProvidersResolve ==
  /\ Preferred \in Providers
  /\ \A p \in Providers : ResolveProvider(p) \in Providers
BY DEF Preferred, ResolveProvider, Providers

LEMMA BeginKeeps ==
  ASSUME CatalogueInv, NEW c \in Sync, NEW p \in Providers, NEW steps, NEW isBoot \in {"no", "run"},
         Begin(c, p, steps, isBoot),
         NEW how, boot' = [boot EXCEPT ![c] = how], how = "done" => HasMatch(Ids)
  PROVE  CatalogueInv'
<1>1. PICK new : new = [NoSync EXCEPT !.p = p, !.todo = Expand(steps, {}), !.phase = "next",
                                      !.boot = isBoot]
  OBVIOUS
<1>2. Go(c, new) /\ documents' = documents
  BY <1>1 DEF Begin, Go
<1>3. /\ DOMAIN new = SyncFields /\ new.p = p /\ new.phase = "next" /\ new.boot = isBoot
      /\ new.ids = {} /\ new.map = {}
  BY <1>1 DEF NoSync, SyncFields
<1>4. SyncOK(new, Ids)
  BY <1>3, FreshSyncFits
<1> QED
  BY <1>2, <1>3, <1>4, GoQuietly

LEMMA TriggerKeeps ==
  ASSUME CatalogueInv, NEW c \in Sync, Trigger(c)
  PROVE  CatalogueInv'
<1>0. boot = [boot EXCEPT ![c] = boot[c]] /\ (boot[c] = "done" => HasMatch(Ids))
  BY SyncFacts
<1>1. CASE MatchSyncJob(c)
  BY <1>0, <1>1, BeginKeeps, ProvidersResolve DEF MatchSyncJob
<1>2. CASE PlayerSyncJob(c)
  BY <1>0, <1>2, BeginKeeps, ProvidersResolve DEF PlayerSyncJob
<1>3. CASE InitSportsSeeds(c)
  BY <1>3, BeginKeeps, ProvidersResolve DEF InitSportsSeeds
<1>4. CASE SkipSeeds(c)
  <2>1. HasMatch(Ids) /\ documents' = documents /\ sync' = sync
    BY <1>4, HasMatchDocuments DEF SkipSeeds
  <2>3. Go(c, sync[c])
    BY <2>1 DEF Go, CatalogueInv, Functions
  <2>4. /\ SyncOK(sync[c], Ids) /\ sync[c].ids \cup sync[c].map \subseteq Used
    BY SyncFacts
  <2>2. boot' = [boot EXCEPT ![c] = "done"]
    BY <1>4 DEF SkipSeeds
  <2> QED
    BY <2>1, <2>2, <2>3, <2>4, GoQuietly
<1>5. CASE \E p \in Providers, mode \in DOMAIN Modes : TriggerSync(c, p, mode)
  <2>1. PICK p \in Providers, mode \in DOMAIN Modes : TriggerSync(c, p, mode)
    BY <1>5
  <2> QED
    BY <1>0, <2>1, BeginKeeps, ProvidersResolve DEF TriggerSync
<1> QED
  BY <1>1, <1>2, <1>3, <1>4, <1>5 DEF Trigger

(* The steps of a boot that takes the mock are those of SyncAll.           *)
LEMMA EnsureSteps ==
  ASSUME NEW d, NEW some, EnsureOK(d, some), d.todo # <<>>
  PROVE  /\ Head(d.todo) \in {"tournament", "team", "player", "match"}
         /\ Head(d.todo) = "match" => d.todo = <<"match">>
         /\ Head(d.todo) # "tournament" => d.todo # SyncAll
BY StepsFollow DEF EnsureOK

LEMMA LoadEntityMapsKeeps ==
  ASSUME CatalogueInv, NEW c \in Sync, LoadEntityMaps(c)
  PROVE  CatalogueInv'
<1>1. SyncOK(sync[c], Ids) /\ Ids \subseteq Used
  BY SyncFacts
<1>2. PICK ids \in SUBSET Ids : Go(c, Advance([sync[c] EXCEPT !.map = ids]))
  <2> DEFINE found == {d.id : d \in {e \in documents : e.id[1] \in {"tournament", "team"}
                                                   /\ e.id[2] = sync[c].p}}
  <2>1. found \subseteq Ids
    BY DEF Ids
  <2>2. \E ids \in SUBSET found : Go(c, Advance([sync[c] EXCEPT !.map = ids]))
    BY DEF LoadEntityMaps
  <2> QED
    BY <2>1, <2>2
<1>3. PICK d : d = [sync[c] EXCEPT !.map = ids]
  OBVIOUS
<1>4. DOMAIN d = SyncFields /\ d.p = sync[c].p /\ d.boot = sync[c].boot /\ d.map = ids
  BY <1>1, <1>3 DEF SyncOK, SyncFields
<1>5. sync[c].boot # "ensure"
  <2>1. sync[c].todo # <<>> /\ Head(sync[c].todo) = "maps"
    BY DEF LoadEntityMaps, Stage
  <2> QED
    BY <1>1, <2>1, EnsureSteps DEF SyncOK
<1>6. d.p \in Providers /\ d.boot \in {"no", "run", "reconcile", "ensure"} /\ d.boot # "ensure"
  BY <1>1, <1>4, <1>5 DEF SyncOK
<1>7. /\ SyncOK(Advance(d), Ids)
      /\ Advance(d).ids = {} /\ Advance(d).map \subseteq d.map
  BY <1>4, <1>6, AdvanceFits
<1>8. documents' = documents /\ boot' = [boot EXCEPT ![c] = boot[c]] /\ Go(c, Advance(d))
  BY <1>2, <1>3, SyncFacts DEF LoadEntityMaps
<1>9. Advance(d).ids \cup Advance(d).map \subseteq Used
  BY <1>1, <1>4, <1>7
<1> QED
  BY <1>7, <1>8, <1>9, SyncFacts, GoQuietly

LEMMA UpsertPlayersKeeps ==
  ASSUME CatalogueInv, NEW c \in Sync, UpsertPlayers(c)
  PROVE  CatalogueInv'
<1>1. SyncOK(sync[c], Ids) /\ sync[c].map \subseteq Used
  BY SyncFacts
<1>2. /\ sync[c].phase = "next" /\ sync[c].todo # <<>> /\ Head(sync[c].todo) = "player"
      /\ Go(c, Advance(sync[c])) /\ documents' = documents /\ boot' = boot
  BY DEF UpsertPlayers, Stage
<1>3. /\ DOMAIN sync[c] = SyncFields /\ sync[c].p \in Providers /\ sync[c].map \subseteq Ids
      /\ sync[c].boot \in {"no", "run", "reconcile", "ensure"}
      /\ sync[c].boot = "ensure" => EnsureOK(sync[c], HasMatch(Ids))
  BY <1>1, <1>2 DEF SyncOK
<1>4. HasMatch(Ids) \in BOOLEAN
  BY DEF HasMatch
<1>5. sync[c].boot = "ensure" => EnsureOK(Advance(sync[c]), HasMatch(Ids))
  BY <1>2, <1>3, <1>4, EnsureAdvances
<1>6. /\ SyncOK(Advance(sync[c]), Ids)
      /\ Advance(sync[c]).ids = {} /\ Advance(sync[c]).map \subseteq sync[c].map
  BY <1>3, <1>5, AdvanceFits
<1>7. Advance(sync[c]).ids \cup Advance(sync[c]).map \subseteq Used
  BY <1>1, <1>6
<1> QED
  BY <1>2, <1>6, <1>7, SyncFacts, GoQuietly

LEMMA RunTransactionKeeps ==
  ASSUME CatalogueInv, NEW c \in Sync, RunTransaction(c)
  PROVE  CatalogueInv'
<1>1. /\ SyncOK(sync[c], Ids) /\ sync[c].map \subseteq Used
      /\ boot = [boot EXCEPT ![c] = boot[c]] /\ (boot[c] = "done" => HasMatch(Ids))
  BY SyncFacts
<1>2. PICK dtos \in Fetched(Stage(c), sync[c].p) : Transaction(c, [sync[c] EXCEPT !.dtos = dtos])
  BY DEF RunTransaction
<1>3. PICK d : d = [sync[c] EXCEPT !.dtos = dtos]
  OBVIOUS
<1>4. /\ sync[c].phase = "next" /\ Stage(c) \in Kinds
      /\ sync[c].todo # <<>> /\ Head(sync[c].todo) = Stage(c)
  BY DEF RunTransaction, Stage, Kinds
<1>5. /\ DOMAIN d = SyncFields /\ d.p = sync[c].p /\ d.todo = sync[c].todo /\ d.dtos = dtos
      /\ d.boot = sync[c].boot /\ d.map = sync[c].map /\ d.phase = "next"
  BY <1>1, <1>3, <1>4 DEF SyncOK, SyncFields
<1>6. /\ d.p \in Providers /\ d.boot \in {"no", "run", "reconcile", "ensure"} /\ d.map \subseteq Ids
  BY <1>1, <1>4, <1>5 DEF SyncOK
<1>7. DtosOK(d.dtos, Head(d.todo))
  BY <1>4, <1>5, <1>6, FetchedAreNamed
<1>8. ASSUME d.boot = "ensure"
      PROVE  EnsureOK(d, HasMatch(Ids)) /\ d.todo # <<>> /\ MockAnswers(d)
  <2>1. EnsureOK(sync[c], HasMatch(Ids))
    BY <1>1, <1>5, <1>8 DEF SyncOK
  <2>2. EnsureOK(d, HasMatch(Ids)) /\ d.p = "MOCK" /\ d.todo # <<>>
    BY <1>4, <1>5, <2>1 DEF EnsureOK
  <2>3. d.dtos \in Fetched(Head(d.todo), "MOCK")
    BY <1>2, <1>4, <1>5, <2>2
  <2>4. Head(d.todo) = "tournament" => d.dtos = MockTournaments
    BY <2>3 DEF Fetched, FetchTournaments
  <2>5. Head(d.todo) = "team" => d.dtos = MockTeams
    BY <2>3 DEF Fetched, FetchTeams
  <2>6. ASSUME Head(d.todo) = "match" PROVE ToEntities(d) # {}
    <3>1. d.dtos \in GenerateMatches
      BY <2>3, <2>6 DEF Fetched, FetchMatches
    <3>2. d.todo = <<"match">> /\ d.todo # SyncAll
      BY <2>2, <2>6, EnsureSteps
    <3>3. Covers(d.map, MockTournaments) /\ Covers(d.map, MockTeams)
      BY <2>2, <3>2 DEF EnsureOK
    <3> QED
      BY <3>1, <3>3, MockMatchesResolve
  <2> QED
    BY <2>2, <2>4, <2>5, <2>6 DEF MockAnswers
<1>9. PICK new : new = [d EXCEPT !.phase = "commit", !.ids = Upserted(d), !.stale = {},
                                 !.map = MapWith(d, Upserted(d))]
  OBVIOUS
<1>10. Head(d.todo) \in Kinds /\ d.map \subseteq Used
  BY <1>1, <1>4, <1>5
<1>11. /\ SyncOK(new, Ids)
       /\ \E n \in Nat : \A i \in Used \cup new.ids \cup new.map : i[4] \in 0..n
  BY <1>5, <1>6, <1>7, <1>8, <1>9, <1>10, TransactionFits
<1>12. Go(c, new) /\ documents' = documents /\ boot' = [boot EXCEPT ![c] = boot[c]]
  BY <1>1, <1>2, <1>3, <1>9 DEF Transaction
<1> QED
  BY <1>1, <1>11, <1>12, GoKeeps

LEMMA RunAgainKeeps ==
  ASSUME CatalogueInv, NEW c \in Sync, RunAgain(c)
  PROVE  CatalogueInv'
<1>1. /\ SyncOK(sync[c], Ids) /\ sync[c].map \subseteq Used
      /\ boot = [boot EXCEPT ![c] = boot[c]] /\ (boot[c] = "done" => HasMatch(Ids))
  BY SyncFacts
<1>2. sync[c].phase = "commit" /\ Transaction(c, sync[c])
  BY DEF RunAgain
<1>3. PICK d : d = sync[c]
  OBVIOUS
<1>4. /\ DOMAIN d = SyncFields /\ d.p \in Providers /\ d.boot \in {"no", "run", "reconcile", "ensure"}
      /\ CommitOK(d, Ids) /\ (d.boot = "ensure" => EnsureOK(d, HasMatch(Ids)))
  BY <1>1, <1>2, <1>3 DEF SyncOK
<1>5. d.boot = "ensure" => EnsureOK(d, HasMatch(Ids)) /\ d.todo # <<>> /\ MockAnswers(d)
  BY <1>2, <1>3, <1>4 DEF EnsureOK
<1>6. /\ Head(d.todo) \in Kinds /\ DtosOK(d.dtos, Head(d.todo))
      /\ Head(d.todo) = "match" => d.map \subseteq Ids
      /\ \A i \in d.map : i \in Ids \/ \E e \in ToEntities(d) : NameOf(i) = e.name
  BY <1>4 DEF CommitOK
<1>7. PICK new : new = [d EXCEPT !.phase = "commit", !.ids = Upserted(d), !.stale = {},
                                 !.map = MapWith(d, Upserted(d))]
  OBVIOUS
<1>8. d.map \subseteq Used
  BY <1>1, <1>3
<1>9. /\ SyncOK(new, Ids)
      /\ \E n \in Nat : \A i \in Used \cup new.ids \cup new.map : i[4] \in 0..n
  BY <1>4, <1>5, <1>6, <1>7, <1>8, TransactionFits
<1>10. Go(c, new) /\ documents' = documents /\ boot' = [boot EXCEPT ![c] = boot[c]]
  BY <1>1, <1>2, <1>3, <1>7 DEF Transaction
<1> QED
  BY <1>1, <1>9, <1>10, GoKeeps

(* What a commit writes: one document for each id it took or made.         *)
LEMMA CommitWrites ==
  ASSUME CatalogueInv, NEW c \in Sync, CommitSync(c), NEW d, d = sync[c]
  PROVE  /\ d.phase = "commit" /\ SyncOK(d, Ids) /\ CommitOK(d, Ids)
         /\ GoOvertaking(c, Advance(d), d.ids) /\ boot' = boot /\ Ids' = Ids \cup d.ids
         /\ \A x \in documents' :
              \/ x \in documents
              \/ \E e \in ToEntities(d) :
                   /\ DOMAIN x = {"id", "status", "refs"} /\ x.id \in d.ids
                   /\ NameOf(x.id) = e.name /\ x.status = e.status /\ x.refs = Refs(d, e)
<1>1. d.phase = "commit" /\ GoOvertaking(c, Advance(d), d.ids) /\ boot' = boot
  BY DEF CommitSync
<1>2. SyncOK(d, Ids) /\ CommitOK(d, Ids)
  BY <1>1, SyncFacts DEF SyncOK
<1> DEFINE IdOf(e) == CHOOSE i \in d.ids : NameOf(i) = e.name
<1> DEFINE new == {[id |-> IdOf(e), status |-> e.status, refs |-> Refs(d, e)] :
                     e \in ToEntities(d)}
<1>3. documents' = {e \in documents : e.id \notin d.ids} \cup new
  BY DEF CommitSync
<1>4. \A e \in ToEntities(d) : IdOf(e) \in d.ids /\ NameOf(IdOf(e)) = e.name
  BY <1>2 DEF CommitOK, Covers
<1>5. \A x \in new : \E e \in ToEntities(d) :
        /\ DOMAIN x = {"id", "status", "refs"} /\ x.id \in d.ids
        /\ NameOf(x.id) = e.name /\ x.status = e.status /\ x.refs = Refs(d, e)
  BY <1>4
<1>6. \A i \in d.ids : \E x \in new : x.id = i
  <2> SUFFICES ASSUME NEW i \in d.ids PROVE \E x \in new : x.id = i
    OBVIOUS
  <2>1. PICK e \in ToEntities(d) : NameOf(i) = e.name
    BY <1>2 DEF CommitOK
  <2>2. IdOf(e) = i
    BY <1>2, <1>4, <2>1 DEF CommitOK
  <2>3. PICK x : x = [id |-> IdOf(e), status |-> e.status, refs |-> Refs(d, e)]
    OBVIOUS
  <2>4. x \in new
    BY <2>1, <2>3, Zenon
  <2>5. x.id = i
    BY <2>2, <2>3
  <2> QED
    BY <2>4, <2>5, Zenon
<1> HIDE DEF new
<1>7. Ids' = Ids \cup d.ids
  <2>1. \A i : i \in Ids' <=> \E x \in documents' : x.id = i
    BY DEF Ids
  <2>2. \A i : i \in Ids <=> \E x \in documents : x.id = i
    BY DEF Ids
  <2> QED
    BY <1>3, <1>5, <1>6, <2>1, <2>2
<1>8. \A x \in documents' : x \in documents \/ x \in new
  BY <1>3
<1> QED
  BY <1>1, <1>2, <1>5, <1>7, <1>8

LEMMA CommitSyncKeeps ==
  ASSUME CatalogueInv, NEW c \in Sync, CommitSync(c)
  PROVE  CatalogueInv'
<1>1. PICK d : d = sync[c]
  OBVIOUS
<1>2. /\ d.phase = "commit" /\ SyncOK(d, Ids) /\ CommitOK(d, Ids)
      /\ GoOvertaking(c, Advance(d), d.ids) /\ boot' = boot /\ Ids' = Ids \cup d.ids
  BY <1>1, CommitWrites
<1>3. d.map \subseteq Ids'
  BY <1>2 DEF CommitOK, Kinds
<1>4. DocumentsOK'
  <2> SUFFICES ASSUME NEW x \in documents'
               PROVE  DOMAIN x = {"id", "status", "refs"} /\ x.refs \subseteq Ids'
    BY DEF DocumentsOK
  <2>1. CASE x \in documents
    BY <1>2, <2>1 DEF CatalogueInv, DocumentsOK
  <2>2. CASE x \notin documents
    <3>1. PICK e \in ToEntities(d) : DOMAIN x = {"id", "status", "refs"} /\ x.refs = Refs(d, e)
      BY <1>1, <2>2, CommitWrites
    <3> QED
      BY <1>3, <3>1 DEF Refs
  <2> QED
    BY <2>1, <2>2
<1>5. ASSUME d.boot = "ensure" PROVE EnsureOK(Advance(d), HasMatch(Ids'))
  <2>1. EnsureOK(d, HasMatch(Ids)) /\ d.todo # <<>> /\ MockAnswers(d)
    BY <1>2, <1>5 DEF SyncOK, EnsureOK
  <2>2. Head(d.todo) # "match" => ToEntities(d) = d.dtos /\ d.ids \subseteq d.map
    BY <1>2 DEF CommitOK, DtosOK, DtoOK, ToEntities
  <2>3. Covers(d.ids, ToEntities(d))
    BY <1>2 DEF CommitOK
  <2>4. Head(d.todo) = "tournament" => Covers(d.map, MockTournaments)
    BY <2>1, <2>2, <2>3 DEF MockAnswers, Covers
  <2>5. Head(d.todo) = "team" => Covers(d.map, MockTeams)
    BY <2>1, <2>2, <2>3 DEF MockAnswers, Covers
  <2>6. ASSUME Head(d.todo) = "match" PROVE HasMatch(Ids')
    <3>1. PICK e \in ToEntities(d) : TRUE
      BY <2>1, <2>6 DEF MockAnswers
    <3>2. e.name[1] = "match"
      BY <1>2, <2>6, <3>1 DEF CommitOK, DtosOK, DtoOK, ToEntities
    <3>3. PICK i \in d.ids : NameOf(i) = e.name
      BY <2>3, <3>1 DEF Covers
    <3>4. i[1] = "match"
      BY <3>2, <3>3 DEF NameOf
    <3> QED
      BY <1>2, <3>3, <3>4 DEF HasMatch
  <2>7. HasMatch(Ids) \in BOOLEAN /\ HasMatch(Ids') \in BOOLEAN /\ DOMAIN d = SyncFields
    BY <1>2 DEF HasMatch, SyncOK
  <2> QED
    BY <1>5, <2>1, <2>4, <2>5, <2>6, <2>7, EnsureAdvances
<1>6. /\ SyncOK(Advance(d), Ids')
      /\ Advance(d).ids = {} /\ Advance(d).map \subseteq d.map
  <2>1. /\ DOMAIN d = SyncFields /\ d.p \in Providers
        /\ d.boot \in {"no", "run", "reconcile", "ensure"}
    BY <1>2 DEF SyncOK
  <2> QED
    BY <1>3, <1>5, <2>1, AdvanceFits
<1>7. Advance(d).ids \cup Advance(d).map \cup d.ids \subseteq Used
  BY <1>1, <1>6, SyncFacts
<1> QED
  BY <1>2, <1>4, <1>6, <1>7, GoOvertakingKeeps

(* Closing matches writes them again under the ids they have.              *)
LEMMA ReconcileWrites ==
  ASSUME CatalogueInv, NEW c \in Sync, ReconcileCatalogue(c)
  PROVE  /\ sync[c].phase = "next" /\ Stage(c) = "reconcile" /\ boot' = boot /\ Ids' = Ids
         /\ \E written \in SUBSET Ids : GoOvertaking(c, Advance(sync[c]), written)
         /\ \A x \in documents' :
              \/ x \in documents
              \/ \E y \in documents : /\ y.id[1] = "match" /\ x.status = "COMPLETED"
                                      /\ x.id = y.id /\ x.refs = y.refs /\ DOMAIN x = DOMAIN y
<1> DEFINE open == {d \in MatchDocuments : d.status \in {"UPCOMING", "LIVE"}}
<1> DEFINE mock == {d \in open : key /\ d.status = "LIVE" /\ d.id[2] = "MOCK"}
<1>1. PICK overdue \in SUBSET open :
        /\ documents' = (documents \ (overdue \cup mock)) \cup
                        {[d EXCEPT !.status = "COMPLETED"] : d \in overdue \cup mock}
        /\ GoOvertaking(c, Advance(sync[c]), {d.id : d \in overdue \cup mock})
  BY DEF ReconcileCatalogue
<1>2. overdue \cup mock \subseteq {d \in documents : d.id[1] = "match"}
  BY DEF MatchDocuments
<1> DEFINE closed == {[d EXCEPT !.status = "COMPLETED"] : d \in overdue \cup mock}
<1>3. ASSUME NEW y \in overdue \cup mock, NEW x, x = [y EXCEPT !.status = "COMPLETED"]
      PROVE  x.status = "COMPLETED" /\ x.id = y.id /\ x.refs = y.refs /\ DOMAIN x = DOMAIN y
  <2>1. DOMAIN y = {"id", "status", "refs"}
    BY <1>2, <1>3 DEF CatalogueInv, DocumentsOK
  <2> QED
    BY <1>3, <2>1
<1>4. \A x \in closed : \E y \in overdue \cup mock :
        x.status = "COMPLETED" /\ x.id = y.id /\ x.refs = y.refs /\ DOMAIN x = DOMAIN y
  <2> SUFFICES ASSUME NEW x \in closed
               PROVE  \E y \in overdue \cup mock : x.status = "COMPLETED" /\ x.id = y.id
                                               /\ x.refs = y.refs /\ DOMAIN x = DOMAIN y
    OBVIOUS
  <2>1. PICK y \in overdue \cup mock : x = [y EXCEPT !.status = "COMPLETED"]
    OBVIOUS
  <2> QED
    BY <1>3, <2>1
<1>5. \A y \in overdue \cup mock : \E x \in closed : x.id = y.id
  <2> SUFFICES ASSUME NEW y \in overdue \cup mock PROVE \E x \in closed : x.id = y.id
    OBVIOUS
  <2>1. PICK x : x = [y EXCEPT !.status = "COMPLETED"]
    OBVIOUS
  <2>2. x \in closed
    BY <2>1, Zenon
  <2>3. x.id = y.id
    BY <1>3, <2>1
  <2> QED
    BY <2>2, <2>3, Zenon
<1>6. PICK changed \in SUBSET documents : changed = overdue \cup mock
  BY <1>2
<1>7. documents' = (documents \ changed) \cup closed
  BY <1>1, <1>6
<1> HIDE DEF closed, open, mock
<1>8. Ids' = Ids
  <2>1. \A x \in closed : \E y \in documents : x.id = y.id
    BY <1>4, <1>6
  <2>2. \A y \in changed : \E x \in closed : x.id = y.id
    BY <1>5, <1>6
  <2>3. \A x \in documents' : \E y \in documents : x.id = y.id
    BY <1>7, <2>1
  <2>4. \A y \in documents : \E x \in documents' : x.id = y.id
    BY <1>7, <2>2
  <2> QED
    BY <2>3, <2>4 DEF Ids
<1>9. {d.id : d \in overdue \cup mock} \in SUBSET Ids
  BY <1>2 DEF Ids
<1>10. \A x \in documents' :
         \/ x \in documents
         \/ \E y \in documents : /\ y.id[1] = "match" /\ x.status = "COMPLETED"
                                 /\ x.id = y.id /\ x.refs = y.refs /\ DOMAIN x = DOMAIN y
  BY <1>2, <1>4, <1>6, <1>7
<1>11. sync[c].phase = "next" /\ Stage(c) = "reconcile" /\ boot' = boot
  BY DEF ReconcileCatalogue
<1> QED
  BY <1>1, <1>8, <1>9, <1>10, <1>11

LEMMA ReconcileCatalogueKeeps ==
  ASSUME CatalogueInv, NEW c \in Sync, ReconcileCatalogue(c)
  PROVE  CatalogueInv'
<1>1. SyncOK(sync[c], Ids) /\ Ids \subseteq Used /\ sync[c].map \subseteq Used
  BY SyncFacts
<1>2. sync[c].phase = "next" /\ Stage(c) = "reconcile" /\ boot' = boot /\ Ids' = Ids
  BY ReconcileWrites
<1>3. PICK written \in SUBSET Ids : GoOvertaking(c, Advance(sync[c]), written)
  BY ReconcileWrites
<1>4. DocumentsOK'
  <2> SUFFICES ASSUME NEW x \in documents'
               PROVE  DOMAIN x = {"id", "status", "refs"} /\ x.refs \subseteq Ids'
    BY DEF DocumentsOK
  <2>1. PICK y \in documents : x.refs = y.refs /\ DOMAIN x = DOMAIN y
    BY ReconcileWrites
  <2> QED
    BY <1>2, <2>1 DEF CatalogueInv, DocumentsOK
<1>5. sync[c].boot # "ensure"
  <2>1. sync[c].todo # <<>> /\ Head(sync[c].todo) = "reconcile"
    BY <1>2 DEF Stage
  <2> QED
    BY <1>1, <2>1, EnsureSteps DEF SyncOK
<1>6. /\ DOMAIN sync[c] = SyncFields /\ sync[c].p \in Providers /\ sync[c].map \subseteq Ids
      /\ sync[c].boot \in {"no", "run", "reconcile", "ensure"}
  BY <1>1, <1>2 DEF SyncOK
<1>7. /\ SyncOK(Advance(sync[c]), Ids)
      /\ Advance(sync[c]).ids = {} /\ Advance(sync[c]).map \subseteq sync[c].map
  BY <1>5, <1>6, AdvanceFits
<1>8. Ids' = Ids \cup written /\ SyncOK(Advance(sync[c]), Ids')
      /\ Advance(sync[c]).ids \cup Advance(sync[c]).map \cup written \subseteq Used
  BY <1>1, <1>2, <1>7
<1> QED
  BY <1>2, <1>3, <1>4, <1>8, GoOvertakingKeeps

LEMMA EndSyncKeeps ==
  ASSUME CatalogueInv, NEW c \in Sync, End(c)
  PROVE  CatalogueInv'
<1>1. /\ SyncOK(sync[c], Ids)
      /\ boot = [boot EXCEPT ![c] = boot[c]] /\ (boot[c] = "done" => HasMatch(Ids))
  BY SyncFacts
<1>2. documents' = documents
  BY DEF End
<1>4. SyncOK(NoSync, Ids) /\ NoSync.ids = {} /\ NoSync.map = {}
  BY NoSyncFits
<1>5. CASE EnsureCataloguePopulated(c)
  <2>1. PICK new : new = [NoSync EXCEPT !.todo = SyncAll, !.phase = "next", !.boot = "ensure"]
    OBVIOUS
  <2>2. /\ DOMAIN new = SyncFields /\ new.p = "MOCK" /\ new.phase = "next" /\ new.ids = {}
        /\ new.map = {} /\ new.boot = "ensure" /\ new.todo = SyncAll
    BY <2>1 DEF NoSync, SyncFields
  <2>3. SyncOK(new, Ids) /\ new.ids = {} /\ new.map = {}
    BY <2>2, FreshSyncFits DEF Providers
  <2>4. Go(c, new) /\ boot' = [boot EXCEPT ![c] = boot[c]]
    BY <1>1, <1>5, <2>1 DEF End
  <2> QED
    BY <1>1, <1>2, <2>3, <2>4, GoQuietly
<1>6. CASE ~ EnsureCataloguePopulated(c)
  <2>1. Go(c, NoSync) /\ boot' = [boot EXCEPT ![c] = IF sync[c].boot = "no" THEN boot[c] ELSE "done"]
    BY <1>6 DEF End
  <2>2. sync[c].boot # "no" => HasMatch(Ids)
    <3>1. sync[c].phase = "next" /\ Stage(c) = "end"
      BY DEF End
    <3>2. CASE sync[c].boot = "ensure"
      <4>1. EnsureOK(sync[c], HasMatch(Ids))
        BY <1>1, <3>2 DEF SyncOK
      <4>2. sync[c].todo = <<>>
        BY <3>1, <4>1, EnsureSteps DEF Stage
      <4> QED
        BY <4>1, <4>2 DEF EnsureOK
    <3>3. CASE sync[c].boot # "ensure"
      BY <1>1, <1>6, <3>3, HasMatchDocuments DEF SyncOK, EnsureCataloguePopulated
    <3> QED
      BY <3>2, <3>3
  <2>3. PICK how : how = IF sync[c].boot = "no" THEN boot[c] ELSE "done"
    OBVIOUS
  <2>4. boot' = [boot EXCEPT ![c] = how] /\ (how = "done" => HasMatch(Ids))
    BY <1>1, <2>1, <2>2, <2>3
  <2> QED
    BY <1>2, <1>4, <2>1, <2>4, GoQuietly
<1> QED
  BY <1>5, <1>6

LEMMA ThrowSyncKeeps ==
  ASSUME CatalogueInv, NEW c \in Sync, Throw(c)
  PROVE  CatalogueInv'
<1>1. /\ SyncOK(sync[c], Ids)
      /\ boot = [boot EXCEPT ![c] = boot[c]] /\ (boot[c] = "done" => HasMatch(Ids))
  BY SyncFacts
<1>2. documents' = documents
  BY DEF Throw
<1>4. SyncOK(NoSync, Ids) /\ NoSync.ids = {} /\ NoSync.map = {}
  BY NoSyncFits
<1>5. CASE sync[c].boot = "run" /\ sync[c].p # "MOCK"
  <2>1. PICK new : new = [NoSync EXCEPT !.p = sync[c].p, !.todo = <<"reconcile">>,
                                        !.phase = "next", !.boot = "reconcile"]
    OBVIOUS
  <2>4. /\ DOMAIN new = SyncFields /\ new.p = sync[c].p /\ new.phase = "next" /\ new.ids = {}
        /\ new.map = {} /\ new.boot = "reconcile"
    BY <2>1 DEF NoSync, SyncFields
  <2>5. sync[c].p \in Providers
    BY <1>1 DEF SyncOK
  <2>2. SyncOK(new, Ids) /\ new.ids = {} /\ new.map = {}
    BY <2>4, <2>5, FreshSyncFits
  <2>3. Go(c, new) /\ boot' = [boot EXCEPT ![c] = boot[c]]
    BY <1>1, <1>5, <2>1 DEF Throw
  <2> QED
    BY <1>1, <1>2, <2>2, <2>3, GoQuietly
<1>6. CASE ~ (sync[c].boot = "run" /\ sync[c].p # "MOCK")
  <2>1. PICK how : how = IF sync[c].boot = "no" THEN boot[c] ELSE "failed"
    OBVIOUS
  <2>2. Go(c, NoSync) /\ boot' = [boot EXCEPT ![c] = how]
    BY <1>6, <2>1 DEF Throw
  <2>3. how = "done" => HasMatch(Ids)
    BY <1>1, <2>1
  <2> QED
    BY <1>2, <1>4, <2>2, <2>3, GoQuietly
<1> QED
  BY <1>5, <1>6

LEMMA CatalogueStepKeeps == CatalogueInv /\ [CatalogueNext]_catalogueVars => CatalogueInv'
<1> SUFFICES ASSUME CatalogueInv, [CatalogueNext]_catalogueVars PROVE CatalogueInv'
  OBVIOUS
<1>1. CASE UNCHANGED catalogueVars
  <2>1. documents' = documents /\ sync' = sync /\ boot' = boot
    BY <1>1 DEF catalogueVars
  <2>2. Ids' = Ids /\ Used' = Used
    BY <2>1 DEF Ids, Used
  <2>3. Functions' /\ DocumentsOK' /\ Numbered'
    BY <2>1, <2>2 DEF CatalogueInv, Functions, DocumentsOK, Numbered
  <2>4. SyncsOK' /\ BootsOK'
    BY <2>1, <2>2 DEF CatalogueInv, SyncsOK, BootsOK
  <2> QED
    BY <2>3, <2>4 DEF CatalogueInv
<1>2. ASSUME NEW c \in Sync, Trigger(c) PROVE CatalogueInv'
  BY <1>2, TriggerKeeps
<1>3. ASSUME NEW c \in Sync, SyncRuns(c) PROVE CatalogueInv'
  <2>1. CASE LoadEntityMaps(c)
    BY <2>1, LoadEntityMapsKeeps
  <2>2. CASE RunTransaction(c)
    BY <2>2, RunTransactionKeeps
  <2>3. CASE RunAgain(c)
    BY <2>3, RunAgainKeeps
  <2>4. CASE CommitSync(c)
    BY <2>4, CommitSyncKeeps
  <2>5. CASE UpsertPlayers(c)
    BY <2>5, UpsertPlayersKeeps
  <2>6. CASE ReconcileCatalogue(c)
    BY <2>6, ReconcileCatalogueKeeps
  <2>7. CASE End(c)
    BY <2>7, EndSyncKeeps
  <2>8. CASE Throw(c)
    BY <2>8, ThrowSyncKeeps
  <2> QED
    BY <1>3, <2>1, <2>2, <2>3, <2>4, <2>5, <2>6, <2>7, <2>8 DEF SyncRuns
<1> QED
  BY <1>1, <1>2, <1>3 DEF CatalogueNext

LEMMA CatalogueStarts == CatalogueInit => CatalogueInv
<1> SUFFICES ASSUME CatalogueInit PROVE CatalogueInv
  OBVIOUS
<1>1. documents = {} /\ sync = [c \in Sync |-> NoSync] /\ boot = [c \in Sync |-> "none"]
  BY DEF CatalogueInit
<1>2. Functions /\ DocumentsOK
  BY <1>1 DEF Functions, DocumentsOK
<1>3. SyncsOK /\ BootsOK
  BY <1>1, NoSyncFits DEF SyncsOK, BootsOK
<1>4. Numbered
  <2>1. \A c \in Sync : sync[c].ids = {} /\ sync[c].map = {}
    BY <1>1, NoSyncFits
  <2>2. Used = {}
    BY <1>1, <2>1 DEF Used, Ids
  <2> QED
    BY <2>2 DEF Numbered
<1> QED
  BY <1>2, <1>3, <1>4 DEF CatalogueInv

LEMMA CatalogueInvariant == CatalogueSpec => []CatalogueInv
BY CatalogueStarts, CatalogueStepKeeps, PTL DEF CatalogueSpec

(* What a step does to the documents. *)
LEMMA DocumentsWritten ==
  ASSUME CatalogueInv, [CatalogueNext]_catalogueVars
  PROVE  documents' = documents \/ \E c \in Sync : CommitSync(c) \/ ReconcileCatalogue(c)
<1>1. CASE UNCHANGED catalogueVars
  BY <1>1 DEF catalogueVars
<1>2. ASSUME NEW c \in Sync, Trigger(c) PROVE documents' = documents
  BY <1>2 DEF Trigger, MatchSyncJob, PlayerSyncJob, InitSportsSeeds, SkipSeeds, TriggerSync, Begin
<1>3. ASSUME NEW c \in Sync, SyncRuns(c)
      PROVE  documents' = documents \/ CommitSync(c) \/ ReconcileCatalogue(c)
  BY <1>3 DEF SyncRuns, LoadEntityMaps, RunTransaction, RunAgain, Transaction, UpsertPlayers,
              End, Throw
<1> QED
  BY <1>1, <1>2, <1>3 DEF CatalogueNext

(* What a match refers to stays a document of the catalogue.               *)
THEOREM RefsAlwaysResolve == CatalogueSpec => []RefsResolve
<1>1. CatalogueInv => RefsResolve
  BY DEF CatalogueInv, DocumentsOK, RefsResolve
<1> QED
  BY <1>1, CatalogueInvariant, PTL

(* A boot that the database let finish leaves matches in the catalogue.    *)
THEOREM BootsFillCatalogue == CatalogueSpec => []BootFillsCatalogue
<1>1. CatalogueInv => BootFillsCatalogue
  BY HasMatchDocuments DEF CatalogueInv, BootsOK, BootFillsCatalogue
<1> QED
  BY <1>1, CatalogueInvariant, PTL

(* A commit gives an external id another document only where those it has  *)
(* were written while its transaction was under way.                       *)
THEOREM TwinsComeFromOverlap == CatalogueSpec => TwinsNeedOverlap
<1> DEFINE Overlap == \A i \in Ids' \ Ids : \E c \in Sync :
                        {j \in Ids : NameOf(j) = NameOf(i)} \subseteq sync[c].stale
<1>1. CatalogueInv /\ [CatalogueNext]_catalogueVars => [Overlap]_catalogueVars
  <2> SUFFICES ASSUME CatalogueInv, [CatalogueNext]_catalogueVars PROVE Overlap
    OBVIOUS
  <2>1. CASE documents' = documents
    <3>1. Ids' = Ids
      BY <2>1 DEF Ids
    <3> QED
      BY <3>1
  <2>2. ASSUME NEW c \in Sync, ReconcileCatalogue(c) PROVE Overlap
    BY <2>2, ReconcileWrites
  <2>3. ASSUME NEW c \in Sync, CommitSync(c) PROVE Overlap
    <3>1. CommitOK(sync[c], Ids) /\ Ids' = Ids \cup sync[c].ids
      BY <2>3, CommitWrites
    <3> QED
      BY <3>1 DEF CommitOK
  <2> QED
    BY <2>1, <2>2, <2>3, DocumentsWritten
<1> QED
  BY <1>1, CatalogueInvariant, PTL DEF CatalogueSpec, TwinsNeedOverlap

(* The variables of Catalogue keep their types: documents come with the    *)
(* kind, the provider and the status of what was fetched.                  *)
LEMMA CommittedAreDocuments ==
  ASSUME CatalogueInv, NEW c \in Sync, CommitSync(c), \A x \in documents : IsDocument(x)
  PROVE  \A x \in documents' : IsDocument(x)
<1>1. PICK d : d = sync[c]
  OBVIOUS
<1>2. PICK n \in Nat : \A i \in Used : i[4] \in 0..n
  BY SyncFacts
<1>3. DtosOK(d.dtos, Head(d.todo)) /\ d.ids \subseteq Used
  BY <1>1, CommitWrites, SyncFacts DEF CommitOK
<1> SUFFICES ASSUME NEW x \in documents', x \notin documents PROVE IsDocument(x)
  OBVIOUS
<1>4. PICK e \in ToEntities(d) :
        x.id \in d.ids /\ NameOf(x.id) = e.name /\ x.status = e.status /\ x.refs = Refs(d, e)
  BY <1>1, CommitWrites
<1>5. DtoOK(e, Head(d.todo))
  BY <1>3, <1>4 DEF DtosOK, ToEntities
<1>6. x.id[1] = Head(d.todo) /\ x.id[2] \in Providers
  <2>1. e.name[1] = x.id[1] /\ e.name[2] = x.id[2]
    BY <1>4 DEF NameOf
  <2> QED
    BY <1>5, <2>1 DEF DtoOK
<1>7. x.id[4] \in Nat
  BY <1>2, <1>3, <1>4
<1>8. x.status \in IF x.id[1] = "match" THEN MatchStatuses ELSE {"none"}
  BY <1>4, <1>5, <1>6 DEF DtoOK, StatusesOf
<1>9. x.id[1] # "match" => x.refs = {}
  BY <1>4, <1>5, <1>6 DEF DtoOK, Refs
<1>10. x.id[1] \in Kinds
  BY <1>1, <1>6, CommitWrites DEF CommitOK
<1> QED
  BY <1>6, <1>7, <1>8, <1>9, <1>10 DEF IsDocument

LEMMA ReconciledAreDocuments ==
  ASSUME CatalogueInv, NEW c \in Sync, ReconcileCatalogue(c), \A x \in documents : IsDocument(x)
  PROVE  \A x \in documents' : IsDocument(x)
<1> SUFFICES ASSUME NEW x \in documents', x \notin documents PROVE IsDocument(x)
  OBVIOUS
<1>1. PICK y \in documents : /\ y.id[1] = "match" /\ x.status = "COMPLETED"
                             /\ x.id = y.id /\ x.refs = y.refs
  BY ReconcileWrites
<1>2. IsDocument(y)
  BY <1>1
<1> QED
  BY <1>1, <1>2 DEF IsDocument, MatchStatuses

LEMMA CountersTyped ==
  ASSUME CatalogueTypeOK, NEW c \in Sync, Trigger(c) \/ SyncRuns(c)
  PROVE  /\ UNCHANGED <<key, named>>
         /\ started' \in 0..MaxSyncs /\ failures' \in 0..MaxFailures
         /\ boot' \in [Sync -> {"none", "running", "done", "failed"}]
<1> DEFINE How == {"none", "running", "done", "failed"}
<1>0. /\ started \in 0..MaxSyncs /\ failures \in 0..MaxFailures /\ boot \in [Sync -> How]
      /\ MaxSyncs \in Nat /\ MaxFailures \in Nat
  BY CatalogueAssumption DEF CatalogueTypeOK
<1>1. started < MaxSyncs => started + 1 \in 0..MaxSyncs
  BY <1>0
<1>2. failures < MaxFailures => failures + 1 \in 0..MaxFailures
  BY <1>0
<1>3. \A how \in How : [boot EXCEPT ![c] = how] \in [Sync -> How]
  BY <1>0
<1>4. boot[c] \in How
  BY <1>0
<1> HIDE DEF How
<1>5. "running" \in How /\ "done" \in How /\ "failed" \in How
  BY DEF How
<1> DEFINE Counts == /\ key' = key /\ named' = named
                     /\ \/ started' = started
                        \/ started < MaxSyncs /\ started' = started + 1
                     /\ \/ failures' = failures
                        \/ failures < MaxFailures /\ failures' = failures + 1
<1>6. Counts
  <2>1. ASSUME NEW p, NEW steps, NEW isBoot, Begin(c, p, steps, isBoot) PROVE Counts
    BY <2>1 DEF Begin
  <2> HIDE DEF Counts
  <2>2. CASE Trigger(c)
    <3>1. CASE SkipSeeds(c)
      BY <3>1 DEF SkipSeeds, Counts
    <3>2. CASE MatchSyncJob(c) \/ PlayerSyncJob(c)
      BY <2>1, <3>2 DEF MatchSyncJob, PlayerSyncJob
    <3>3. CASE InitSportsSeeds(c)
      BY <2>1, <3>3 DEF InitSportsSeeds
    <3>4. CASE \E p \in Providers, mode \in DOMAIN Modes : TriggerSync(c, p, mode)
      BY <2>1, <3>4 DEF TriggerSync
    <3> QED
      BY <2>2, <3>1, <3>2, <3>3, <3>4 DEF Trigger
  <2>3. CASE SyncRuns(c)
    <3>1. CASE LoadEntityMaps(c)
      BY <3>1 DEF LoadEntityMaps, Counts
    <3>2. CASE RunTransaction(c)
      BY <3>2 DEF RunTransaction, Transaction, Counts
    <3>3. CASE RunAgain(c)
      BY <3>3 DEF RunAgain, Transaction, Spend, Counts
    <3>4. CASE CommitSync(c)
      BY <3>4 DEF CommitSync, Counts
    <3>5. CASE UpsertPlayers(c)
      BY <3>5 DEF UpsertPlayers, Counts
    <3>6. CASE ReconcileCatalogue(c)
      BY <3>6 DEF ReconcileCatalogue, Counts
    <3>7. CASE End(c)
      BY <3>7 DEF End, Counts
    <3>8. CASE Throw(c)
      BY <3>8 DEF Throw, Spend, Counts
    <3> QED
      BY <2>3, <3>1, <3>2, <3>3, <3>4, <3>5, <3>6, <3>7, <3>8 DEF SyncRuns
  <2> QED
    BY <2>2, <2>3
<1>7. boot' = boot \/ \E how \in How : boot' = [boot EXCEPT ![c] = how]
  <2>1. CASE Trigger(c)
    BY <1>5, <2>1 DEF Trigger, MatchSyncJob, PlayerSyncJob, InitSportsSeeds, SkipSeeds,
                      TriggerSync
  <2>2. CASE End(c)
    BY <1>4, <1>5, <2>2 DEF End
  <2>3. CASE Throw(c)
    BY <1>4, <1>5, <2>3 DEF Throw
  <2>4. CASE SyncRuns(c) /\ ~ End(c) /\ ~ Throw(c)
    BY <2>4 DEF SyncRuns, LoadEntityMaps, RunTransaction, RunAgain, Transaction, CommitSync,
                UpsertPlayers, ReconcileCatalogue
  <2> QED
    BY <2>1, <2>2, <2>3, <2>4
<1>8. boot' \in [Sync -> How]
  BY <1>0, <1>3, <1>7
<1> QED
  BY <1>0, <1>1, <1>2, <1>6, <1>8 DEF How

THEOREM CatalogueTyped == CatalogueSpec => []CatalogueTypeOK
<1>1. CatalogueInit => CatalogueTypeOK
  <2> SUFFICES ASSUME CatalogueInit PROVE CatalogueTypeOK
    OBVIOUS
  <2>1. key \in BOOLEAN /\ named \in BOOLEAN
    BY DEF CatalogueInit
  <2>2. started \in 0..MaxSyncs /\ failures \in 0..MaxFailures
    BY CatalogueAssumption DEF CatalogueInit
  <2>3. boot \in [Sync -> {"none", "running", "done", "failed"}] /\ documents = {}
    BY DEF CatalogueInit
  <2> QED
    BY <2>1, <2>2, <2>3 DEF CatalogueTypeOK
<1>2. CatalogueTypeOK /\ CatalogueInv /\ [CatalogueNext]_catalogueVars => CatalogueTypeOK'
  <2> SUFFICES ASSUME CatalogueTypeOK, CatalogueInv, [CatalogueNext]_catalogueVars
               PROVE  CatalogueTypeOK'
    OBVIOUS
  <2>1. \A x \in documents' : IsDocument(x)
    <3>0. \A x \in documents : IsDocument(x)
      BY DEF CatalogueTypeOK
    <3>1. CASE documents' = documents
      BY <3>0, <3>1
    <3> QED
      BY <3>0, <3>1, DocumentsWritten, CommittedAreDocuments, ReconciledAreDocuments
  <2>2. CASE UNCHANGED catalogueVars
    BY <2>1, <2>2 DEF catalogueVars, CatalogueTypeOK
  <2>3. ASSUME NEW c \in Sync, Trigger(c) \/ SyncRuns(c) PROVE CatalogueTypeOK'
    <3>1. /\ UNCHANGED <<key, named>>
          /\ started' \in 0..MaxSyncs /\ failures' \in 0..MaxFailures
          /\ boot' \in [Sync -> {"none", "running", "done", "failed"}]
      BY <2>3, CountersTyped
    <3> QED
      BY <2>1, <3>1 DEF CatalogueTypeOK
  <2> QED
    BY <2>2, <2>3 DEF CatalogueNext
<1> QED
  BY <1>1, <1>2, CatalogueInvariant, PTL DEF CatalogueSpec
=============================================================================
