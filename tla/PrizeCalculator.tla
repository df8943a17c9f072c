--------------------------- MODULE PrizeCalculator ---------------------------
(***************************************************************************)
(* The payout arithmetic of a contest                                      *)
(* (src/src/modules/settlement/prize-calculator.ts) and the validation of  *)
(* the slabs it is fed with (contest.validators.ts).  Everything is pure.  *)
(*                                                                         *)
(* Entries are numbers in the order of joinedAt; a snapshot is a record    *)
(* [type, poolAmount, slabs].                                              *)
(***************************************************************************)
EXTENDS Integers, Sequences, FiniteSets, FiniteSetsExt

(* The snapshots that a contest can hold (contest.model.ts).               *)
PrizeSlab == [fromRank : Nat \ {0}, toRank : Nat, prizeAmount : Nat, percentageBps : Nat]
PrizeSnapshot == [type : {"RANK_BASED", "PERCENTAGE_BASED", "FIXED"}, poolAmount : Nat,
                  slabs : Seq(PrizeSlab)]

PrizeForSlab(slab, snapshot) ==
  IF snapshot.type = "PERCENTAGE_BASED"
  THEN (snapshot.poolAmount * slab.percentageBps) \div 10000
  ELSE slab.prizeAmount

Covers(slab, rank) == slab.fromRank <= rank /\ rank <= slab.toRank

(* The first slab that covers the rank. *)
PrizeForRank(rank, snapshot) ==
  LET slabs == {i \in DOMAIN snapshot.slabs : Covers(snapshot.slabs[i], rank)}
  IN  IF slabs = {} THEN 0 ELSE PrizeForSlab(snapshot.slabs[Min(slabs)], snapshot)

PrizePoolForRange(fromRank, toRank, snapshot) ==
  SumFunction([r \in fromRank..toRank |-> PrizeForRank(r, snapshot)])

SnapshotHasPayouts(snapshot) ==
  /\ snapshot.poolAmount > 0
  /\ \E i \in DOMAIN snapshot.slabs : PrizeForSlab(snapshot.slabs[i], snapshot) > 0

-----------------------------------------------------------------------------
(* Points descending, then joinedAt ascending. *)
Before(d, e, points) ==
  points[d] > points[e] \/ (points[d] = points[e] /\ d < e)

Sorted(entries, points) ==
  [i \in 1..Cardinality(entries) |->
     CHOOSE e \in entries :
       Cardinality({d \in entries : Before(d, e, points)}) = i - 1]

(* Seeded fault: tied entries share the prize of their first rank only. *)
ClusterPoolOfHead(i, j, snapshot) == PrizeForRank(i, snapshot)
(* Seeded fault: each of them gets that prize. *)
ClusterPoolEach(i, j, snapshot) == (j - i + 1) * PrizeForRank(i, snapshot)
ClusterPool(i, j, snapshot) == PrizePoolForRange(i, j, snapshot)

Rank(i, k) == i + k - 1

(* The loop walks the sorted entries by clusters of equal points, which    *)
(* are all entries with those points; the prizes of their ranks are pooled *)
(* and split, and the remainder goes to the earliest.                      *)
AllocateWinnings(entries, points, snapshot) ==
  LET sorted == Sorted(entries, points)
  IN  [p \in DOMAIN sorted |->
         LET cluster == {q \in DOMAIN sorted : points[sorted[q]] = points[sorted[p]]}
             i == Min(cluster)
             size == Max(cluster) - i + 1
             pool == ClusterPool(i, Max(cluster), snapshot)
             share == pool \div size
         IN  [entry |-> sorted[p], rank |-> Rank(i, p - i + 1),
              amount |-> share + IF p = i THEN pool - share * size ELSE 0]]

(* What an entry wins, stated for one entry at a time: of those with its   *)
(* points it has an equal share of the prizes of all their ranks.          *)
Winnings(e, entries, points, snapshot) ==
  LET better == Cardinality({d \in entries : points[d] > points[e]})
      tied   == {d \in entries : points[d] = points[e]}
      pool   == PrizePoolForRange(better + 1, better + Cardinality(tied), snapshot)
  IN  pool \div Cardinality(tied)
      + (IF \A d \in tied : e <= d THEN pool % Cardinality(tied) ELSE 0)

-----------------------------------------------------------------------------
(* validateSlabs: the ranges follow each other from rank 1 on, and they    *)
(* add up to the pool or, if they are percentages, to 100.00%.             *)
Width(slab) == slab.toRank - slab.fromRank + 1

ValidSlabs(snapshot) ==
  LET slabs == snapshot.slabs
      value(s) == Width(s) * (IF snapshot.type = "PERCENTAGE_BASED"
                              THEN s.percentageBps ELSE s.prizeAmount)
      ranks == UNION {slabs[i].fromRank .. slabs[i].toRank : i \in DOMAIN slabs}
  IN  /\ slabs # <<>>
      /\ \A i \in DOMAIN slabs : slabs[i].fromRank <= slabs[i].toRank
      /\ ranks = 1..Cardinality(ranks)
      /\ \A r \in ranks : Cardinality({i \in DOMAIN slabs : Covers(slabs[i], r)}) = 1
      /\ SumFunction([i \in DOMAIN slabs |-> value(slabs[i])]) =
           (IF snapshot.type = "PERCENTAGE_BASED" THEN 10000 ELSE snapshot.poolAmount)

-----------------------------------------------------------------------------
(* contest.bootstrap.ts: the distributions and templates of a fresh        *)
(* database.  They are stored as they are, not by way of validateSlabs.    *)
Slab(from, to, amount, bps) ==
  [fromRank |-> from, toRank |-> to, prizeAmount |-> amount, percentageBps |-> bps]
Percentages(pool, slabs) ==
  [type |-> "PERCENTAGE_BASED", poolAmount |-> 100 * pool, slabs |-> slabs]

MegaSplit == Percentages(100000, <<Slab(1, 1, 0, 7000), Slab(2, 5, 0, 500), Slab(6, 20, 0, 66)>>)
MegaExact ==
  Percentages(100000, <<Slab(1, 1, 0, 5000), Slab(2, 2, 0, 1500), Slab(3, 3, 0, 1000),
                        Slab(4, 4, 0, 750), Slab(5, 5, 0, 500), Slab(6, 10, 0, 200),
                        Slab(11, 20, 0, 25)>>)
WinnerTakesAll == Percentages(100, <<Slab(1, 1, 0, 10000)>>)
NoPrize == [type |-> "FIXED", poolAmount |-> 0, slabs |-> <<Slab(1, 1, 0, 0)>>]

Template(fee, pool, spots, guaranteed, prizes) ==
  [entryFee |-> 100 * fee, prizePoolAmount |-> 100 * pool, totalSpots |-> spots,
   isGuaranteed |-> guaranteed, prizes |-> prizes]
Templates == {Template(49, 100000, 2200, TRUE, MegaExact), Template(100, 180, 2, FALSE, WinnerTakesAll),
              Template(0, 0, 5000, FALSE, NoPrize), Template(1, 15, 20, FALSE, MegaExact)}

(* contest.service.ts: the snapshot a contest is created with, out of a     *)
(* saved distribution or of slabs in the request; none if it is refused.   *)
BuildPrizeSnapshot(distribution, pool, practice) ==
  IF practice THEN {NoPrize}
  ELSE {d \in {[distribution EXCEPT !.poolAmount = pool]} : ValidSlabs(d)}

(* validateSlabs would accept every seed but the first, whose percentages  *)
(* are short of 100.00%.  Every template makes a contest, and a full set   *)
(* of entries covers its pool.                                             *)
ASSUME SeedsAssumption ==
  /\ \A d \in {MegaExact, WinnerTakesAll, NoPrize} : ValidSlabs(d)
  /\ ~ValidSlabs(MegaSplit)
  /\ \A t \in Templates :
       /\ BuildPrizeSnapshot(t.prizes, t.prizePoolAmount, t.entryFee = 0) # {}
       /\ t.prizePoolAmount <= t.totalSpots * t.entryFee
=============================================================================
