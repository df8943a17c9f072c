------------------------- MODULE MCContestSettlement -------------------------
(* Small instances of ContestSettlement.tla for TLC. *)
EXTENDS ContestSettlement, TLC

CONSTANTS h1, h2, u1

Symmetry == Permutations(Handlers)

(* An order without ties and its reverse, a tie for the first and one for  *)
(* the last rank, and a tie of all.                                        *)
Orders == {<<2, 1, 0>>, <<0, 1, 2>>, <<0, 1, 1>>, <<1, 0, 0>>, <<1, 1, 1>>}

OneOwner == [e \in Entries |-> u1]

(* Percentages that are rounded, prizes that leave a remainder when they   *)
(* are shared, and an entry that wins nothing; and a ladder whose first    *)
(* rank wins nothing.                                                      *)
Percentage == [type |-> "PERCENTAGE_BASED", poolAmount |-> 12,
               slabs |-> <<Slab(1, 1, 0, 6000), Slab(2, 2, 0, 4000)>>]
NoFirst == [type |-> "FIXED", poolAmount |-> 3,
            slabs |-> <<Slab(1, 1, 0, 0), Slab(2, 2, 3, 0)>>]
Ladders == {Percentage, NoFirst}
=============================================================================
