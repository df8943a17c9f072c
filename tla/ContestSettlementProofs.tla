---------------------- MODULE ContestSettlementProofs ----------------------
(***************************************************************************)
(* Proofs about ContestSettlement, for any set of workers and              *)
(* administrators, entries, prize ladders and failures.                    *)
(*                                                                         *)
(* The prize calculator comes first: sums without recursion, the order of  *)
(* the entries and their clusters, what an entry wins, and that a ladder   *)
(* never pays more than its pool.  Then the settlement: the claim of the   *)
(* result is a lock, although no run ever asks whether it still holds it;  *)
(* a winning that an entry shows was credited; a SETTLED entry shows what  *)
(* the calculator gave it; a settlement that nothing disturbed has paid    *)
(* every winning; and until something fails the pool is not overdrawn.     *)
(***************************************************************************)
EXTENDS ContestSettlement, FiniteSetTheorems, SequenceTheorems, TLAPS

-----------------------------------------------------------------------------
(* Sums, the order of the entries, clusters and allocations.               *)

(* A set of subsets of a finite set has a smallest one: induction over     *)
(* finite sets, without an operator for the induction hypothesis.          *)
LEMMA SmallestSubset ==
  ASSUME NEW S, IsFiniteSet(S), NEW B \in SUBSET SUBSET S, B # {}
  PROVE  \E T \in B : \A U \in B : U \subseteq T => U = T
<1>1. IsWellFoundedOn(StrictSubsetOrdering(S), SUBSET S)
  BY FS_StrictSubsetOrderingWellFounded, FS_FiniteSubsetsOfFinite
<1>2. PICK T \in B : \A U \in B : ~ (<<U, T>> \in StrictSubsetOrdering(S))
  BY <1>1, WFMin
<1>3. ASSUME NEW U \in B, U \subseteq T, U # T PROVE FALSE
  <2>1. U \in SUBSET S /\ T \in SUBSET S
    OBVIOUS
  <2>2. <<U, T>> \in StrictSubsetOrdering(S)
    BY <1>3, <2>1 DEF StrictSubsetOrdering
  <2> QED
    BY <1>2, <2>2
<1> QED
  BY <1>3

(* What the folds of the community modules compute to add up f over S.     *)
Choice(T) == CHOOSE x \in T : TRUE
(* Folding f over sets, as the community modules define it: g is the       *)
(* function that the fold is taken of.                                     *)
Iterates(g, f, S) ==
  g = [T \in SUBSET S |-> IF T = {} THEN 0 ELSE f[Choice(T)] + g[T \ {Choice(T)}]]
SumOver(f, S) == (CHOOSE g : Iterates(g, f, S))[S]

(* g adds up f: on the empty set it is 0, and every element more adds its  *)
(* value.                                                                  *)
Additive(g, f, S) ==
  /\ g \in [SUBSET S -> Int]
  /\ g[{}] = 0
  /\ \A T \in SUBSET S : \A x \in S \ T : g[T \cup {x}] = f[x] + g[T]

(* A function whose values are integers can be summed over a finite set:   *)
(* some function on the subsets adds its values up.                        *)
LEMMA AdditiveExists ==
  ASSUME NEW S, IsFiniteSet(S), NEW f, \A x \in S : f[x] \in Int
  PROVE  \E g : Additive(g, f, S)
<1> DEFINE B == {T \in SUBSET S : ~ \E g : Additive(g, f, T)}
<1> SUFFICES ASSUME B # {} PROVE FALSE
  OBVIOUS
<1>1. PICK T \in B : \A U \in B : U \subseteq T => U = T
  <2> HIDE DEF B
  <2>1. B \in SUBSET SUBSET S
    BY DEF B
  <2> QED
    BY <2>1, SmallestSubset
<1>2. CASE T = {}
  <2>1. Additive([U \in SUBSET T |-> 0], f, T)
    BY <1>2 DEF Additive
  <2> QED
    BY <2>1
<1>3. ASSUME NEW y \in T PROVE FALSE
  <2> DEFINE R == T \ {y}
  <2>1. PICK g : Additive(g, f, R)
    <3>1. R \notin B /\ R \in SUBSET S
      BY <1>1, <1>3
    <3> QED
      BY <3>1
  <2> DEFINE h == [U \in SUBSET T |-> IF y \in U THEN f[y] + g[U \ {y}] ELSE g[U]]
  <2>2. f[y] \in Int
    BY <1>3
  <2>3. \A U \in SUBSET T : U \ {y} \in SUBSET R /\ (y \notin U => U \in SUBSET R)
    OBVIOUS
  <2>4. g \in [SUBSET R -> Int] /\ g[{}] = 0
    BY <2>1 DEF Additive
  <2>5. h \in [SUBSET T -> Int] /\ h[{}] = 0
    <3> HIDE DEF R
    <3> QED
      BY <2>2, <2>3, <2>4
  <2>6. ASSUME NEW U \in SUBSET T, NEW x \in T \ U
        PROVE  h[U \cup {x}] = f[x] + h[U]
    <3>1. U \cup {x} \in SUBSET T /\ f[x] \in Int
      BY <2>6
    <3>2. CASE x = y
      <4>1. (U \cup {x}) \ {y} = U
        BY <2>6, <3>2
      <4> QED
        BY <2>6, <3>1, <3>2, <4>1
    <3>3. CASE x # y /\ y \in U
      <4>1. (U \cup {x}) \ {y} = (U \ {y}) \cup {x}
        BY <3>3
      <4>2. g[(U \ {y}) \cup {x}] = f[x] + g[U \ {y}]
        BY <2>1, <2>6, <3>3 DEF Additive
      <4>3. h[U \cup {x}] = f[y] + (f[x] + g[U \ {y}]) /\ h[U] = f[y] + g[U \ {y}]
        BY <2>6, <3>1, <3>3, <4>1, <4>2
      <4>4. g[U \ {y}] \in Int
        BY <2>3, <2>4
      <4> HIDE DEF h
      <4> QED
        BY <2>2, <3>1, <4>3, <4>4
    <3>4. CASE x # y /\ y \notin U
      <4>1. g[U \cup {x}] = f[x] + g[U]
        BY <2>1, <2>6, <3>4 DEF Additive
      <4> QED
        BY <2>6, <3>1, <3>4, <4>1
    <3> QED
      BY <3>2, <3>3, <3>4
  <2>7. Additive(h, f, T)
    <3> HIDE DEF h
    <3> QED
      BY <2>5, <2>6 DEF Additive
  <2> QED
    BY <1>1, <2>7
<1> QED
  BY <1>2, <1>3

(* Of the functions a fold may choose, there is one, and it is additive.   *)
LEMMA SumIsAdditive ==
  ASSUME NEW S, IsFiniteSet(S), NEW f, NEW g, Additive(g, f, S)
  PROVE  SumOver(f, S) = g[S]
<1>1. Iterates(g, f, S)
  <2>1. ASSUME NEW T \in SUBSET S, T # {}
        PROVE  g[T] = f[Choice(T)] + g[T \ {Choice(T)}]
    <3> DEFINE x == Choice(T)
               U == T \ {x}
    <3>1. x \in T
      BY <2>1 DEF Choice
    <3> HIDE DEF x
    <3>2. U \in SUBSET S /\ x \in S \ U /\ U \cup {x} = T
      BY <3>1
    <3> HIDE DEF U
    <3>3. g[T] = f[x] + g[U]
      BY <3>2 DEF Additive
    <3> QED
      BY <3>3 DEF x, U
  <2> DEFINE it == [T \in SUBSET S |-> IF T = {} THEN 0 ELSE f[Choice(T)] + g[T \ {Choice(T)}]]
  <2>2. \A T \in SUBSET S : g[T] = it[T]
    BY <2>1 DEF Additive
  <2>3. g = it
    <3>1. g \in [SUBSET S -> Int]
      BY DEF Additive
    <3> QED
      BY <2>2, <3>1
  <2> QED
    BY <2>3 DEF Iterates
<1> DEFINE h == CHOOSE k : Iterates(k, f, S)
<1>2. Iterates(h, f, S)
  BY <1>1
<1> HIDE DEF h
<1> DEFINE B == {T \in SUBSET S : h[T] # g[T]}
<1>3. B = {}
  <2> SUFFICES ASSUME B # {} PROVE FALSE
    OBVIOUS
  <2>1. PICK T \in B : \A U \in B : U \subseteq T => U = T
    <3> HIDE DEF B
    <3>1. B \in SUBSET SUBSET S
      BY DEF B
    <3> QED
      BY <3>1, SmallestSubset
  <2>2. T # {}
    BY <1>1, <1>2 DEF Iterates
  <2>3. Choice(T) \in T
    BY <2>2 DEF Choice
  <2>4. h[T \ {Choice(T)}] = g[T \ {Choice(T)}]
    BY <2>1, <2>3
  <2>5. h[T] = g[T]
    BY <1>1, <1>2, <2>2, <2>4 DEF Iterates
  <2> QED
    BY <2>5
<1>4. h[S] = g[S]
  BY <1>3
<1> QED
  BY <1>4 DEF SumOver, h

(* What holds of {} and of a set with one element more holds of S.         *)
LEMMA OneByOne ==
  ASSUME NEW S, IsFiniteSet(S), NEW P \in SUBSET SUBSET S, {} \in P,
         \A T \in P : \A x \in S \ T : T \cup {x} \in P
  PROVE  S \in P
<1> DEFINE B == (SUBSET S) \ P
<1> SUFFICES ASSUME B # {} PROVE FALSE
  OBVIOUS
<1>1. PICK T \in B : \A U \in B : U \subseteq T => U = T
  <2> HIDE DEF B
  <2>1. B \in SUBSET SUBSET S
    BY DEF B
  <2> QED
    BY <2>1, SmallestSubset
<1>2. PICK y \in T : TRUE
  BY <1>1
<1>3. T \ {y} \in P /\ y \in S \ (T \ {y})
  BY <1>1
<1>4. (T \ {y}) \cup {y} \in P
  BY <1>3
<1>5. (T \ {y}) \cup {y} = T
  BY <1>2
<1> QED
  BY <1>1, <1>4, <1>5

(* SumFunction of the community modules is that sum, over the domain.      *)
LEMMA SumFunctionIsSum ==
  ASSUME NEW f
  PROVE  SumFunction(f) = SumOver(f, DOMAIN f)
BY DEF SumFunction, SumFunctionOnSet, FoldFunctionOnSet, MapThenFoldSet, SumOver, Iterates, Choice

(* The sums over the subsets of S, as one function.                        *)
LEMMA Sums ==
  ASSUME NEW S, IsFiniteSet(S), NEW f, \A x \in S : f[x] \in Int
  PROVE  \E g : Additive(g, f, S) /\ \A T \in SUBSET S : SumOver(f, T) = g[T]
<1>1. PICK g : Additive(g, f, S)
  BY AdditiveExists
<1>2. ASSUME NEW T \in SUBSET S PROVE SumOver(f, T) = g[T]
  <2> DEFINE h == [U \in SUBSET T |-> g[U]]
  <2>1. Additive(h, f, T)
    BY <1>1 DEF Additive
  <2>2. IsFiniteSet(T)
    BY FS_Subset
  <2>3. h[T] = g[T]
    OBVIOUS
  <2> HIDE DEF h
  <2> QED
    BY <2>1, <2>2, <2>3, SumIsAdditive
<1> QED
  BY <1>1, <1>2

(* One element more adds its value to the sum.                             *)
LEMMA SumAdd ==
  ASSUME NEW S, IsFiniteSet(S), NEW y \in S, NEW f, \A x \in S : f[x] \in Int
  PROVE  /\ SumOver(f, S) \in Int /\ SumOver(f, S \ {y}) \in Int
         /\ SumOver(f, S) = f[y] + SumOver(f, S \ {y})
<1>1. PICK g : Additive(g, f, S) /\ \A T \in SUBSET S : SumOver(f, T) = g[T]
  BY Sums
<1>2. S \ {y} \in SUBSET S /\ S \in SUBSET S /\ (S \ {y}) \cup {y} = S /\ y \in S \ (S \ {y})
  OBVIOUS
<1>3. g[S] = f[y] + g[S \ {y}] /\ g[S] \in Int /\ g[S \ {y}] \in Int
  BY <1>1, <1>2 DEF Additive
<1> QED
  BY <1>1, <1>2, <1>3

(* The sum over no elements.                                               *)
LEMMA SumEmpty == ASSUME NEW f PROVE SumOver(f, {}) = 0
<1> DEFINE g == [T \in SUBSET {} |-> 0]
<1>1. Additive(g, f, {})
  BY DEF Additive
<1> HIDE DEF g
<1> QED
  BY <1>1, SumIsAdditive, FS_EmptySet DEF Additive

(* A sum of smaller numbers is smaller.                                    *)
LEMMA SumMonotonic ==
  ASSUME NEW S, IsFiniteSet(S), NEW f, NEW e, \A x \in S : f[x] \in Int /\ e[x] \in Int /\ f[x] <= e[x]
  PROVE  SumOver(f, S) \in Int /\ SumOver(e, S) \in Int /\ SumOver(f, S) <= SumOver(e, S)
<1>1. PICK g : Additive(g, f, S) /\ \A T \in SUBSET S : SumOver(f, T) = g[T]
  BY Sums
<1>2. PICK h : Additive(h, e, S) /\ \A T \in SUBSET S : SumOver(e, T) = h[T]
  BY Sums
<1> DEFINE P == {T \in SUBSET S : g[T] <= h[T]}
<1>3. {} \in P
  BY <1>1, <1>2 DEF Additive
<1>4. ASSUME NEW T \in P, NEW x \in S \ T PROVE T \cup {x} \in P
  <2>1. g[T \cup {x}] = f[x] + g[T] /\ h[T \cup {x}] = e[x] + h[T]
    BY <1>1, <1>2 DEF Additive
  <2>2. g[T] \in Int /\ h[T] \in Int /\ g[T] <= h[T]
    BY <1>1, <1>2 DEF Additive
  <2> QED
    BY <2>1, <2>2
<1>5. S \in P
  <2> HIDE DEF P
  <2>1. P \in SUBSET SUBSET S
    BY DEF P
  <2> QED
    BY <1>3, <1>4, <2>1, OneByOne
<1>6. g[S] \in Int /\ h[S] \in Int
  BY <1>1, <1>2 DEF Additive
<1> QED
  BY <1>1, <1>2, <1>5, <1>6

(* Disjoint sets add up.                                                   *)
LEMMA SumUnion ==
  ASSUME NEW S, IsFiniteSet(S), NEW R, IsFiniteSet(R), R \cap S = {},
         NEW f, \A x \in R \cup S : f[x] \in Int
  PROVE  /\ SumOver(f, R) \in Int /\ SumOver(f, S) \in Int
         /\ SumOver(f, R \cup S) = SumOver(f, R) + SumOver(f, S)
<1> DEFINE W == R \cup S
<1>0. IsFiniteSet(W)
  BY FS_Union
<1>1. PICK g : Additive(g, f, W) /\ \A T \in SUBSET W : SumOver(f, T) = g[T]
  <2>1. \A x \in W : f[x] \in Int
    OBVIOUS
  <2> HIDE DEF W
  <2> QED
    BY <1>0, <2>1, Sums
<1> DEFINE P == {T \in SUBSET S : g[R \cup T] = g[R] + g[T]}
<1>2. g \in [SUBSET W -> Int] /\ g[{}] = 0
  BY <1>1 DEF Additive
<1>3. {} \in P
  <2>1. R \cup {} = R /\ R \in SUBSET W
    OBVIOUS
  <2> HIDE DEF W
  <2> QED
    BY <1>2, <2>1
<1>4. ASSUME NEW T \in P, NEW x \in S \ T PROVE T \cup {x} \in P
  <2>1. /\ R \cup (T \cup {x}) = (R \cup T) \cup {x} /\ R \cup T \in SUBSET W
        /\ x \in W \ (R \cup T) /\ T \in SUBSET W /\ x \in W \ T /\ R \in SUBSET W
        /\ T \cup {x} \in SUBSET S
    OBVIOUS
  <2>2. g[(R \cup T) \cup {x}] = f[x] + g[R \cup T] /\ g[T \cup {x}] = f[x] + g[T]
    BY <1>1, <2>1 DEF Additive
  <2>3. g[R \cup T] = g[R] + g[T]
    OBVIOUS
  <2>4. g[R] \in Int /\ g[T] \in Int /\ f[x] \in Int
    BY <1>2, <2>1
  <2>5. f[x] + (g[R] + g[T]) = g[R] + (f[x] + g[T])
    BY <2>4
  <2>6. R \cup (T \cup {x}) = (R \cup T) \cup {x}
    OBVIOUS
  <2>7. g[R \cup (T \cup {x})] = g[R] + g[T \cup {x}]
    BY <2>2, <2>3, <2>5, <2>6, Zenon
  <2> QED
    BY <2>1, <2>7
<1>5. S \in P
  <2> HIDE DEF P
  <2>1. P \in SUBSET SUBSET S
    BY DEF P
  <2> QED
    BY <1>3, <1>4, <2>1, OneByOne
<1>6. R \in SUBSET W /\ S \in SUBSET W /\ W \in SUBSET W
  OBVIOUS
<1> QED
  BY <1>1, <1>2, <1>5, <1>6

(* A sum of one number.                                                    *)
LEMMA SumConstant ==
  ASSUME NEW S, IsFiniteSet(S), NEW f, NEW c \in Int, \A x \in S : f[x] = c
  PROVE  SumOver(f, S) = Cardinality(S) * c
<1>1. PICK g : Additive(g, f, S) /\ \A T \in SUBSET S : SumOver(f, T) = g[T]
  BY Sums
<1> DEFINE P == {T \in SUBSET S : g[T] = Cardinality(T) * c}
<1>3. {} \in P
  BY <1>1, FS_EmptySet DEF Additive
<1>4. ASSUME NEW T \in P, NEW x \in S \ T PROVE T \cup {x} \in P
  <2>1. g[T \cup {x}] = c + g[T]
    BY <1>1 DEF Additive
  <2>2. Cardinality(T \cup {x}) = Cardinality(T) + 1 /\ Cardinality(T) \in Nat
    BY FS_Subset, FS_AddElement, FS_CardinalityType
  <2>3. \A k \in Nat : c + k * c = (k + 1) * c
    OBVIOUS
  <2> QED
    BY <2>1, <2>2, <2>3
<1>5. S \in P
  <2> HIDE DEF P
  <2>1. P \in SUBSET SUBSET S
    BY DEF P
  <2> QED
    BY <1>3, <1>4, <2>1, OneByOne
<1> QED
  BY <1>1, <1>5

(* No summand exceeds a sum of naturals.                                   *)
LEMMA SumOfNats ==
  ASSUME NEW S, IsFiniteSet(S), NEW f, \A x \in S : f[x] \in Nat
  PROVE  SumOver(f, S) \in Nat /\ \A x \in S : f[x] <= SumOver(f, S)
<1>1. \A T \in SUBSET S : SumOver(f, T) \in Nat
  <2> SUFFICES ASSUME NEW T \in SUBSET S PROVE SumOver(f, T) \in Nat
    OBVIOUS
  <2>1. IsFiniteSet(T)
    BY FS_Subset
  <2> DEFINE zero == [x \in T |-> 0]
  <2>2. SumOver(zero, T) = Cardinality(T) * 0
    <3>1. \A x \in T : zero[x] = 0
      OBVIOUS
    <3> HIDE DEF zero
    <3> QED
      BY <2>1, <3>1, SumConstant
  <2>3. Cardinality(T) * 0 = 0
    BY <2>1, FS_CardinalityType
  <2>4. \A x \in T : zero[x] \in Int /\ f[x] \in Int /\ zero[x] <= f[x]
    OBVIOUS
  <2> HIDE DEF zero
  <2>5. SumOver(f, T) \in Int /\ SumOver(zero, T) <= SumOver(f, T)
    BY <2>1, <2>4, SumMonotonic
  <2> QED
    BY <2>2, <2>3, <2>5
<1>2. ASSUME NEW x \in S PROVE f[x] <= SumOver(f, S)
  <2>1. SumOver(f, S) = f[x] + SumOver(f, S \ {x})
    BY SumAdd
  <2>2. SumOver(f, S \ {x}) \in Nat
    BY <1>1
  <2> QED
    BY <2>1, <2>2
<1> QED
  BY <1>1, <1>2

(* A set of numbers without a gap has a first and a last.                  *)
LEMMA FirstAndLast ==
  ASSUME NEW S, IsFiniteSet(S), S \subseteq Int, S # {}
  PROVE  /\ Min(S) \in S /\ \A x \in S : Min(S) <= x
         /\ Max(S) \in S /\ \A x \in S : x <= Max(S)
<1> DEFINE P == {T \in SUBSET S : T # {} =>
                   /\ \E m \in T : \A x \in T : m <= x
                   /\ \E m \in T : \A x \in T : x <= m}
<1>1. {} \in P
  OBVIOUS
<1>2. ASSUME NEW T \in P, NEW y \in S \ T PROVE T \cup {y} \in P
  <2>1. CASE T = {}
    BY <2>1
  <2>2. CASE T # {}
    <3>1. PICK m \in T : \A x \in T : m <= x
      BY <2>2
    <3>2. PICK n \in T : \A x \in T : x <= n
      BY <2>2
    <3>3. \E k \in T \cup {y} : \A x \in T \cup {y} : k <= x
      <4>1. CASE m <= y
        BY <3>1, <4>1
      <4>2. CASE y <= m
        <5>1. \A x \in T \cup {y} : y <= x
          BY <3>1, <4>2
        <5> QED
          BY <5>1
      <4> QED
        BY <4>1, <4>2
    <3>4. \E k \in T \cup {y} : \A x \in T \cup {y} : x <= k
      <4>1. CASE y <= n
        BY <3>2, <4>1
      <4>2. CASE n <= y
        <5>1. \A x \in T \cup {y} : x <= y
          BY <3>2, <4>2
        <5> QED
          BY <5>1
      <4> QED
        BY <4>1, <4>2
    <3> QED
      BY <3>3, <3>4
  <2> QED
    BY <2>1, <2>2
<1>3. S \in P
  <2> HIDE DEF P
  <2>1. P \in SUBSET SUBSET S
    BY DEF P
  <2> QED
    BY <1>1, <1>2, <2>1, OneByOne
<1>4. \E m \in S : \A x \in S : m <= x
  BY <1>3
<1>5. \E m \in S : \A x \in S : m >= x
  <2>1. PICK m \in S : \A x \in S : x <= m
    BY <1>3
  <2> QED
    BY <2>1
<1>6. Min(S) \in S /\ \A x \in S : Min(S) <= x
  BY <1>4 DEF Min
<1>7. Max(S) \in S /\ \A x \in S : Max(S) >= x
  BY <1>5 DEF Max
<1> QED
  BY <1>6, <1>7
-----------------------------------------------------------------------------
(* The order of the entries.  Before orders them strictly, so that the     *)
(* numbers of those ahead are 0, 1, 2, ... and Sorted finds them all.      *)
Scored(S, pts) == IsFiniteSet(S) /\ S \subseteq Int /\ \A e \in S : pts[e] \in Int

(* How many entries are ahead of an entry.                                 *)
Ahead(S, pts) == [e \in S |-> Cardinality({x \in S : Before(x, e, pts)})]

(* The number of entries ahead of an entry is less than the number of      *)
(* entries, and grows along the order of the entries.                      *)
LEMMA AheadGrows ==
  ASSUME NEW S, NEW pts, Scored(S, pts),
         NEW r, r = Ahead(S, pts)
  PROVE  /\ r \in [S -> 0..(Cardinality(S) - 1)]
         /\ \A d, e \in S : Before(d, e, pts) => r[d] < r[e]
<1>s. IsFiniteSet(S) /\ S \subseteq Int /\ \A e \in S : pts[e] \in Int
  BY DEF Scored
<1> USE <1>s
<1>1. ASSUME NEW T \in SUBSET S, NEW U \in SUBSET T, NEW x \in T \ U
      PROVE  Cardinality(U) \in Nat /\ Cardinality(T) \in Nat /\ Cardinality(U) < Cardinality(T)
  <2>1. IsFiniteSet(T) /\ IsFiniteSet(U)
    BY FS_Subset
  <2>2. Cardinality(U) <= Cardinality(T) /\ (Cardinality(U) = Cardinality(T) => U = T)
    BY <2>1, FS_Subset
  <2> QED
    BY <2>1, <2>2, FS_CardinalityType
<1>2. ASSUME NEW e \in S
      PROVE  r[e] \in 0..(Cardinality(S) - 1)
  <2> DEFINE A == {x \in S : Before(x, e, pts)}
  <2>1. A \in SUBSET S /\ e \in S \ A
    BY DEF Before
  <2>2. r[e] = Cardinality(A)
    BY DEF Ahead
  <2> HIDE DEF A
  <2> QED
    BY <1>1, <2>1, <2>2
<1>3. ASSUME NEW d \in S, NEW e \in S, Before(d, e, pts)
      PROVE  r[d] < r[e]
  <2> DEFINE A == {x \in S : Before(x, e, pts)}
             B == {x \in S : Before(x, d, pts)}
  <2>1. d \in A /\ d \notin B
    BY <1>3 DEF Before
  <2>2. ASSUME NEW x \in B PROVE x \in A
    <3>1. x \in Int /\ d \in Int /\ e \in Int /\ pts[x] \in Int /\ pts[d] \in Int /\ pts[e] \in Int
      OBVIOUS
    <3>2. Before(x, d, pts) /\ Before(d, e, pts)
      BY <1>3
    <3>3. Before(x, e, pts)
      BY <3>1, <3>2 DEF Before
    <3> QED
      BY <3>3
  <2>3. r[d] = Cardinality(B) /\ r[e] = Cardinality(A) /\ A \in SUBSET S
    BY DEF Ahead
  <2> HIDE DEF A, B
  <2> QED
    BY <1>1, <2>1, <2>2, <2>3
<1>4. r \in [S -> 0..(Cardinality(S) - 1)]
  BY <1>2 DEF Ahead
<1> QED
  BY <1>3, <1>4

(* What sorting promises.                                                  *)
Sorts(s, S, pts) ==
  /\ DOMAIN s = 1..Cardinality(S)
  /\ \A i \in DOMAIN s : s[i] \in S
  /\ \A e \in S : \E i \in DOMAIN s : s[i] = e
  /\ \A i, j \in DOMAIN s : i < j => Before(s[i], s[j], pts)

(* Sorted lists every entry once, in the order of the calculator.          *)
LEMMA SortedSorts ==
  ASSUME NEW S, NEW pts, Scored(S, pts)
  PROVE  Sorts(Sorted(S, pts), S, pts)
<1>s. IsFiniteSet(S) /\ S \subseteq Int /\ \A e \in S : pts[e] \in Int
  BY DEF Scored
<1> USE <1>s
<1>0. PICK n : n = Cardinality(S)
  OBVIOUS
<1>r. PICK r : r = Ahead(S, pts)
  OBVIOUS
<1> DEFINE s == Sorted(S, pts)
<1>1. n \in Nat
  BY <1>0, FS_CardinalityType
<1>2. r \in [S -> 0..(n - 1)] /\ \A d, e \in S : Before(d, e, pts) => r[d] < r[e]
  BY <1>0, <1>r, AheadGrows
<1>3. \A d, e \in S : d # e => r[d] # r[e]
  <2> SUFFICES ASSUME NEW d \in S, NEW e \in S, d # e PROVE r[d] # r[e]
    OBVIOUS
  <2>1. Before(d, e, pts) \/ Before(e, d, pts)
    BY DEF Before
  <2>2. r[d] < r[e] \/ r[e] < r[d]
    BY <1>2, <2>1
  <2>3. r[d] \in Int /\ r[e] \in Int
    BY <1>1, <1>2
  <2> QED
    BY <2>2, <2>3
<1>4. \A i \in 0..(n - 1) : \E e \in S : r[e] = i
  <2>1. r \in Injection(S, 0..(n - 1))
    BY <1>2, <1>3 DEF Injection, IsInjective
  <2>2. IsFiniteSet(0..(n - 1)) /\ Cardinality(0..(n - 1)) = n
    BY <1>1, FS_Interval
  <2>3. r \in Surjection(S, 0..(n - 1))
    BY <1>0, <2>1, <2>2, FS_Injection
  <2> QED
    BY <2>3 DEF Surjection
<1>6. DOMAIN s = 1..n
  BY <1>0 DEF Sorted
<1>7. ASSUME NEW i \in 1..n PROVE s[i] \in S /\ r[s[i]] = i - 1
  <2>1. PICK e \in S : r[e] = i - 1
    BY <1>1, <1>4
  <2>2. Cardinality({x \in S : Before(x, e, pts)}) = i - 1
    BY <1>r, <2>1 DEF Ahead
  <2>3. s[i] = CHOOSE y \in S : Cardinality({x \in S : Before(x, y, pts)}) = i - 1
    BY <1>0 DEF Sorted
  <2>4. s[i] \in S /\ Cardinality({x \in S : Before(x, s[i], pts)}) = i - 1
    <3> HIDE DEF s
    <3> QED
      BY <2>2, <2>3
  <2> HIDE DEF s
  <2>5. r[s[i]] = Cardinality({x \in S : Before(x, s[i], pts)})
    BY <1>r, <2>4 DEF Ahead
  <2> QED
    BY <2>4, <2>5
<1> HIDE DEF s
<1>8. \A e \in S : \E i \in 1..n : s[i] = e
  <2> TAKE e \in S
  <2>1. r[e] + 1 \in 1..n /\ r[e] \in Int
    BY <1>1, <1>2
  <2>2. s[r[e] + 1] \in S /\ r[s[r[e] + 1]] = r[e]
    BY <1>7, <2>1
  <2> QED
    BY <1>3, <2>1, <2>2
<1>9. ASSUME NEW i \in 1..n, NEW j \in 1..n, i < j PROVE Before(s[i], s[j], pts)
  <2>1. s[i] \in S /\ s[j] \in S /\ r[s[i]] < r[s[j]] /\ r[s[i]] \in Int /\ r[s[j]] \in Int
    BY <1>7, <1>9
  <2>2. s[i] # s[j] /\ ~ (r[s[j]] < r[s[i]])
    BY <2>1
  <2>3. ~ Before(s[j], s[i], pts)
    BY <1>2, <2>1, <2>2
  <2>4. s[i] \in Int /\ s[j] \in Int /\ pts[s[i]] \in Int /\ pts[s[j]] \in Int
    BY <2>1
  <2> QED
    BY <2>2, <2>3, <2>4 DEF Before
<1> QED
  BY <1>0, <1>6, <1>7, <1>8, <1>9 DEF Sorts, s

(* Entries with the same points stand together.                            *)
Cluster(s, p, pts) == {q \in DOMAIN s : pts[s[q]] = pts[s[p]]}

(* The cluster of the position p is i..j, and the entries ahead of it are  *)
(* those with more points.                                                 *)
Stands(i, j, s, p, S, pts) ==
  /\ i \in 1..p /\ j \in p..Cardinality(S) /\ i \in Cluster(s, p, pts)
  /\ \A q \in DOMAIN s : pts[s[q]] = pts[s[p]] <=> q \in i..j
  /\ \A q \in DOMAIN s : pts[s[q]] > pts[s[p]] <=> q < i

(* The positions with the points of position p are an interval: those with *)
(* more points are the positions before it.                                *)
LEMMA ClusterIsInterval ==
  ASSUME NEW S, NEW pts, Scored(S, pts),
         NEW s, Sorts(s, S, pts), NEW p \in DOMAIN s
  PROVE  Stands(Min(Cluster(s, p, pts)), Max(Cluster(s, p, pts)), s, p, S, pts)
<1>s. IsFiniteSet(S) /\ S \subseteq Int /\ \A e \in S : pts[e] \in Int
  BY DEF Scored
<1> USE <1>s
<1> DEFINE C == Cluster(s, p, pts)
           n == Cardinality(S)
<1>1. n \in Nat /\ DOMAIN s = 1..n /\ p \in C /\ C \subseteq 1..n
  BY FS_CardinalityType DEF Sorts, Cluster
<1>2. IsFiniteSet(C) /\ C \subseteq Int /\ C # {}
  <2>1. IsFiniteSet(1..n)
    BY <1>1, FS_Interval
  <2> QED
    BY <1>1, <2>1, FS_Subset
<1>3. /\ Min(C) \in C /\ \A x \in C : Min(C) <= x
      /\ Max(C) \in C /\ \A x \in C : x <= Max(C)
  <2> HIDE DEF C
  <2> QED
    BY <1>2, FirstAndLast
<1>4. \A q \in DOMAIN s : pts[s[q]] \in Int
  BY DEF Sorts
<1>5. \A q, t \in DOMAIN s : q < t => pts[s[q]] >= pts[s[t]]
  <2> TAKE q, t \in DOMAIN s
  <2> HAVE q < t
  <2>1. Before(s[q], s[t], pts)
    BY DEF Sorts
  <2> QED
    BY <1>4, <2>1 DEF Before
<1>6. \A q \in DOMAIN s : q \in C <=> pts[s[q]] = pts[s[p]]
  BY DEF Cluster
<1>7. PICK i : i = Min(C)
  OBVIOUS
<1>8. PICK j : j = Max(C)
  OBVIOUS
<1> HIDE DEF C, n
<1>9. i \in 1..n /\ j \in 1..n /\ p \in 1..n /\ i <= p /\ p <= j
  BY <1>1, <1>3, <1>7, <1>8
<1>10. pts[s[i]] = pts[s[p]] /\ pts[s[j]] = pts[s[p]]
  BY <1>1, <1>3, <1>6, <1>7, <1>8
<1>11. ASSUME NEW q \in DOMAIN s
       PROVE  /\ pts[s[q]] = pts[s[p]] <=> q \in i..j
              /\ pts[s[q]] > pts[s[p]] <=> q < i
  <2>1. q \in Int /\ i \in Int /\ j \in Int /\ pts[s[q]] \in Int /\ pts[s[p]] \in Int
    BY <1>1, <1>4, <1>9
  <2>2. CASE q < i
    <3>1. q \notin C
      BY <1>3, <1>7, <2>1, <2>2
    <3>2. pts[s[q]] >= pts[s[p]]
      BY <1>1, <1>5, <1>9, <1>10, <2>2
    <3> QED
      BY <1>6, <2>1, <2>2, <3>1, <3>2
  <2>3. CASE q \in i..j
    <3>1. pts[s[q]] <= pts[s[p]]
      <4>1. CASE q = i
        BY <1>10, <2>1, <4>1
      <4>2. CASE i < q
        BY <1>1, <1>5, <1>9, <1>10, <4>2
      <4> QED
        BY <2>1, <2>3, <4>1, <4>2
    <3>2. pts[s[q]] >= pts[s[p]]
      <4>1. CASE q = j
        BY <1>10, <2>1, <4>1
      <4>2. CASE q < j
        BY <1>1, <1>5, <1>9, <1>10, <4>2
      <4> QED
        BY <2>1, <2>3, <4>1, <4>2
    <3> QED
      BY <2>1, <2>3, <3>1, <3>2
  <2>4. CASE q > j
    <3>1. q \notin C
      BY <1>3, <1>8, <2>1, <2>4
    <3>2. pts[s[q]] <= pts[s[p]]
      BY <1>1, <1>5, <1>9, <1>10, <2>4
    <3> QED
      BY <1>6, <1>9, <2>1, <2>4, <3>1, <3>2
  <2> QED
    BY <2>1, <2>2, <2>3, <2>4
<1>12. Min(C) \in 1..p /\ Max(C) \in p..n
  BY <1>1, <1>7, <1>8, <1>9
<1> QED
  BY <1>3, <1>7, <1>8, <1>11, <1>12 DEF C, n, Stands
-----------------------------------------------------------------------------
(* The prizes.                                                             *)
LEMMA PrizesAreNaturals ==
  ASSUME NEW snap \in PrizeSnapshot
  PROVE  \A r \in Int : PrizeForRank(r, snap) \in Nat
<1> SUFFICES ASSUME NEW r \in Int PROVE PrizeForRank(r, snap) \in Nat
  OBVIOUS
<1>1. /\ snap.poolAmount \in Nat /\ snap.slabs \in Seq(PrizeSlab)
      /\ DOMAIN snap.slabs = 1..Len(snap.slabs) /\ Len(snap.slabs) \in Nat
  BY DEF PrizeSnapshot
<1>2. \A x \in PrizeSlab : PrizeForSlab(x, snap) \in Nat
  <2> TAKE x \in PrizeSlab
  <2>1. x.percentageBps \in Nat /\ x.prizeAmount \in Nat
    BY DEF PrizeSlab
  <2>2. snap.poolAmount * x.percentageBps \in Nat
    BY <1>1, <2>1
  <2>3. \A k \in Nat : k \div 10000 \in Nat
    OBVIOUS
  <2> QED
    BY <2>1, <2>2, <2>3 DEF PrizeForSlab
<1>3. \A i \in DOMAIN snap.slabs : PrizeForSlab(snap.slabs[i], snap) \in Nat
  BY <1>1, <1>2
<1> DEFINE K == {i \in DOMAIN snap.slabs : Covers(snap.slabs[i], r)}
<1>5. K # {} => Min(K) \in DOMAIN snap.slabs
  <2> SUFFICES ASSUME K # {} PROVE Min(K) \in DOMAIN snap.slabs
    OBVIOUS
  <2>1. IsFiniteSet(K) /\ K \subseteq Int
    <3>1. IsFiniteSet(1..Len(snap.slabs))
      BY <1>1, FS_Interval
    <3> QED
      BY <1>1, <3>1, FS_Subset
  <2>2. K \subseteq DOMAIN snap.slabs
    OBVIOUS
  <2> HIDE DEF K
  <2> QED
    BY <2>1, <2>2, FirstAndLast
<1>4. PrizeForRank(r, snap) = IF K = {} THEN 0 ELSE PrizeForSlab(snap.slabs[Min(K)], snap)
  BY DEF PrizeForRank
<1> HIDE DEF K
<1> QED
  BY <1>3, <1>4, <1>5

(* The pool of a range of ranks is a natural number, and no less than the  *)
(* prize of a rank in it.                                                  *)
LEMMA PoolsAreNaturals ==
  ASSUME NEW snap \in PrizeSnapshot, NEW i \in Int, NEW j \in Int
  PROVE  /\ PrizePoolForRange(i, j, snap) \in Nat
         /\ \A r \in i..j : PrizeForRank(r, snap) <= PrizePoolForRange(i, j, snap)
<1> DEFINE f == [r \in i..j |-> PrizeForRank(r, snap)]
<1>1. IsFiniteSet(i..j)
  BY FS_Interval
<1>2. \A r \in i..j : f[r] \in Nat
  BY PrizesAreNaturals
<1>3. PrizePoolForRange(i, j, snap) = SumFunction(f)
  BY DEF PrizePoolForRange
<1>4. SumFunction(f) = SumOver(f, DOMAIN f)
  <2> HIDE DEF f
  <2> QED
    BY SumFunctionIsSum
<1>5. DOMAIN f = i..j /\ \A r \in i..j : f[r] = PrizeForRank(r, snap)
  OBVIOUS
<1> HIDE DEF f
<1>6. SumOver(f, i..j) \in Nat /\ \A r \in i..j : f[r] <= SumOver(f, i..j)
  BY <1>1, <1>2, SumOfNats
<1> QED
  BY <1>3, <1>4, <1>5, <1>6

(* A pool is split without a rest.                                         *)
LEMMA Shares ==
  ASSUME NEW pool \in Nat, NEW size \in Nat \ {0}
  PROVE  /\ pool \div size \in Nat /\ pool % size \in 0..(size - 1)
         /\ pool - (pool \div size) * size = pool % size
         /\ pool > 0 => pool \div size + (pool % size) > 0
<1>1. pool \div size \in Int /\ pool % size \in 0..(size - 1)
  OBVIOUS
<1>2. pool = size * (pool \div size) + (pool % size)
  OBVIOUS
<1>3. pool \div size \in Nat
  OBVIOUS
<1> DEFINE q == pool \div size
           m == pool % size
<1>4. q \in Nat /\ m \in 0..(size - 1) /\ pool = size * q + m
  BY <1>1, <1>2, <1>3
<1> HIDE DEF q, m
<1>5. size * q = q * size
  BY <1>4
<1>6. q * size \in Nat
  BY <1>4
<1>7. pool - q * size = m
  BY <1>4, <1>5, <1>6
<1>8. pool > 0 => q + m > 0
  BY <1>4
<1> QED
  BY <1>4, <1>7, <1>8 DEF q, m
-----------------------------------------------------------------------------
(* What the loop hands out, position by position.                          *)
PoolOf(s, p, pts, snap) ==
  PrizePoolForRange(Min(Cluster(s, p, pts)), Max(Cluster(s, p, pts)), snap)
(* The size of the cluster of p, and what the calculator gives to p.       *)
SizeOf(s, p, pts) == Max(Cluster(s, p, pts)) - Min(Cluster(s, p, pts)) + 1

Allocated(A, s, p, pts, snap) ==
  /\ A[p] = [entry |-> s[p], rank |-> p, amount |-> A[p].amount]
  /\ p = Min(Cluster(s, p, pts)) =>
       A[p].amount = (PoolOf(s, p, pts, snap) \div SizeOf(s, p, pts))
                     + (PoolOf(s, p, pts, snap) % SizeOf(s, p, pts))
  /\ p # Min(Cluster(s, p, pts)) =>
       A[p].amount = PoolOf(s, p, pts, snap) \div SizeOf(s, p, pts)
  /\ A[p].amount \in Nat
  /\ PoolOf(s, p, pts, snap) \in Nat /\ SizeOf(s, p, pts) \in Nat \ {0}

(* What AllocateWinnings gives the position p, in terms of the cluster of  *)
(* p.                                                                      *)
LEMMA Allocation ==
  ASSUME NEW S, NEW pts, Scored(S, pts), NEW snap \in PrizeSnapshot,
         NEW s, s = Sorted(S, pts), NEW A, A = AllocateWinnings(S, pts, snap)
  PROVE  /\ Sorts(s, S, pts) /\ DOMAIN A = DOMAIN s
         /\ \A p \in DOMAIN s : Allocated(A, s, p, pts, snap)
<1>s. IsFiniteSet(S) /\ S \subseteq Int /\ \A e \in S : pts[e] \in Int
  BY DEF Scored
<1> USE <1>s
<1>1. Sorts(s, S, pts)
  BY SortedSorts
<1> DEFINE record(p) ==
      LET cluster == {q \in DOMAIN s : pts[s[q]] = pts[s[p]]}
          i == Min(cluster)
          size == Max(cluster) - i + 1
          pool == ClusterPool(i, Max(cluster), snap)
          share == pool \div size
      IN  [entry |-> s[p], rank |-> Rank(i, p - i + 1),
           amount |-> share + IF p = i THEN pool - share * size ELSE 0]
<1>2. A = [p \in DOMAIN s |-> record(p)]
  BY DEF AllocateWinnings
<1>3. ASSUME NEW p \in DOMAIN s
      PROVE  Allocated(A, s, p, pts, snap)
  <2> DEFINE C == Cluster(s, p, pts)
  <2>1. /\ Min(C) \in 1..p /\ Max(C) \in p..Cardinality(S) /\ p \in 1..Cardinality(S)
        /\ Cardinality(S) \in Nat
    <3>1. Min(C) \in 1..p /\ Max(C) \in p..Cardinality(S)
      BY <1>1, ClusterIsInterval DEF Stands
    <3>2. Cardinality(S) \in Nat
      BY FS_CardinalityType
    <3>3. DOMAIN s = 1..Cardinality(S)
      BY <1>1 DEF Sorts
    <3> HIDE DEF C
    <3> QED
      BY <3>1, <3>2, <3>3
  <2>2. PICK i : i = Min(C)
    OBVIOUS
  <2>3. PICK j : j = Max(C)
    OBVIOUS
  <2>4. i \in Nat \ {0} /\ j \in Nat /\ p \in Nat /\ i <= p /\ p <= j
    <3> HIDE DEF C
    <3> QED
      BY <2>1, <2>2, <2>3
  <2>5. PICK pool : pool = PrizePoolForRange(i, j, snap)
    OBVIOUS
  <2>6. PICK size : size = j - i + 1
    OBVIOUS
  <2>7. pool \in Nat
    BY <2>4, <2>5, PoolsAreNaturals
  <2>8. size \in Nat \ {0}
    BY <2>4, <2>6
  <2>9. /\ pool \div size \in Nat /\ pool % size \in 0..(size - 1)
        /\ pool - (pool \div size) * size = pool % size
    BY <2>7, <2>8, Shares
  <2>10. A[p] = [entry |-> s[p], rank |-> Rank(i, p - i + 1),
                 amount |-> (pool \div size) + IF p = i THEN pool - (pool \div size) * size ELSE 0]
    <3>1. A[p] = record(p)
      BY <1>2
    <3> QED
      BY <3>1, <2>2, <2>3, <2>5, <2>6 DEF Cluster, ClusterPool
  <2>11. /\ A[p].entry = s[p] /\ A[p].rank = Rank(i, p - i + 1)
         /\ A[p].amount = (pool \div size) + IF p = i THEN pool - (pool \div size) * size ELSE 0
    BY <2>10
  <2>12. A[p].rank = p
    BY <2>4, <2>11 DEF Rank
  <2>13. A[p].amount = (pool \div size) + IF p = i THEN pool % size ELSE 0
    BY <2>9, <2>11
  <2>14. A[p].amount \in Nat
    BY <2>8, <2>9, <2>13
  <2>16. A[p] = [entry |-> s[p], rank |-> p, amount |-> A[p].amount]
    BY <2>10, <2>11, <2>12
  <2>15. PoolOf(s, p, pts, snap) = pool /\ SizeOf(s, p, pts) = size
    BY <2>2, <2>3, <2>5, <2>6 DEF PoolOf, SizeOf
  <2> QED
    BY <2>2, <2>7, <2>8, <2>11, <2>12, <2>13, <2>14, <2>15, <2>16 DEF Allocated
<1>4. DOMAIN A = DOMAIN s
  BY <1>2
<1> QED
  BY <1>1, <1>3, <1>4

(* The entries at a set of positions are as many as the positions.         *)
Slice(s, i, j) == {s[q] : q \in i..j}

(* A slice of the sorted entries has as many entries as positions.         *)
LEMMA AsMany ==
  ASSUME NEW S, NEW pts, Scored(S, pts),
         NEW s, Sorts(s, S, pts), NEW i \in Nat \ {0}, NEW j \in Nat, j <= Cardinality(S), i <= j + 1
  PROVE  Cardinality(Slice(s, i, j)) = j - i + 1
<1>s. IsFiniteSet(S) /\ S \subseteq Int /\ \A e \in S : pts[e] \in Int
  BY DEF Scored
<1> USE <1>s
<1> DEFINE T == Slice(s, i, j)
<1>1. Cardinality(S) \in Nat /\ DOMAIN s = 1..Cardinality(S)
  BY FS_CardinalityType DEF Sorts
<1>2. i..j \subseteq DOMAIN s
  BY <1>1
<1> DEFINE f == [q \in i..j |-> s[q]]
<1>3. f \in [i..j -> T]
  BY <1>2 DEF Slice
<1>4. \A q, t \in i..j : q # t => f[q] # f[t]
  <2> SUFFICES ASSUME NEW q \in i..j, NEW t \in i..j, q # t PROVE f[q] # f[t]
    OBVIOUS
  <2>1. q < t \/ t < q
    OBVIOUS
  <2>2. Before(s[q], s[t], pts) \/ Before(s[t], s[q], pts)
    BY <1>2, <2>1 DEF Sorts
  <2>3. /\ s[q] \in Int /\ s[t] \in Int /\ pts[s[q]] \in Int /\ pts[s[t]] \in Int
        /\ f[q] = s[q] /\ f[t] = s[t]
    BY <1>2 DEF Sorts
  <2> HIDE DEF f
  <2> QED
    BY <2>2, <2>3 DEF Before
<1>5. \A e \in T : \E q \in i..j : f[q] = e
  BY DEF Slice
<1> HIDE DEF f
<1>6. f \in Injection(i..j, T) /\ f \in Surjection(i..j, T)
  BY <1>3, <1>4, <1>5 DEF Injection, IsInjective, Surjection
<1>7. IsFiniteSet(i..j) /\ Cardinality(i..j) = j - i + 1
  <2>1. IsFiniteSet(i..j) /\ Cardinality(i..j) = IF i > j THEN 0 ELSE j - i + 1
    BY FS_Interval
  <2> QED
    BY <2>1
<1> QED
  BY <1>6, <1>7, FS_Surjection

(* What the loop hands out at a position is what the rules give the entry  *)
(* that stands there.                                                      *)
LEMMA EachWins ==
  ASSUME NEW S, NEW pts, Scored(S, pts),
         NEW snap \in PrizeSnapshot,
         NEW s, s = Sorted(S, pts), NEW A, A = AllocateWinnings(S, pts, snap),
         NEW p \in DOMAIN s
  PROVE  A[p].amount = Winnings(s[p], S, pts, snap)
<1>s. IsFiniteSet(S) /\ S \subseteq Int /\ \A e \in S : pts[e] \in Int
  BY DEF Scored
<1> USE <1>s
<1> DEFINE C == Cluster(s, p, pts)
<1>1. PICK i : i = Min(C)
  OBVIOUS
<1>2. PICK j : j = Max(C)
  OBVIOUS
<1>3. PICK e : e = s[p]
  OBVIOUS
<1>4. PICK pool : pool = PrizePoolForRange(i, j, snap)
  OBVIOUS
<1>5. PICK size : size = j - i + 1
  OBVIOUS
<1>6. Sorts(s, S, pts)
  BY Allocation
<1>7. /\ p = i => A[p].amount = (pool \div size) + (pool % size)
      /\ p # i => A[p].amount = pool \div size
  <2>1. /\ p = Min(Cluster(s, p, pts)) =>
             A[p].amount = (PoolOf(s, p, pts, snap) \div SizeOf(s, p, pts))
                           + (PoolOf(s, p, pts, snap) % SizeOf(s, p, pts))
        /\ p # Min(Cluster(s, p, pts)) =>
             A[p].amount = PoolOf(s, p, pts, snap) \div SizeOf(s, p, pts)
    <3>1. Allocated(A, s, p, pts, snap)
      BY Allocation
    <3> QED
      BY <3>1, Zenon DEF Allocated
  <2>2. pool = PoolOf(s, p, pts, snap) /\ size = SizeOf(s, p, pts)
    BY <1>1, <1>2, <1>4, <1>5 DEF PoolOf, SizeOf
  <2> QED
    BY <1>1, <2>1, <2>2, Zenon
<1>8. /\ i \in 1..p /\ j \in p..Cardinality(S) /\ i \in C
      /\ \A q \in DOMAIN s : pts[s[q]] = pts[e] <=> q \in i..j
      /\ \A q \in DOMAIN s : pts[s[q]] > pts[e] <=> q < i
  <2>1. Stands(Min(C), Max(C), s, p, S, pts)
    BY <1>6, ClusterIsInterval
  <2> QED
    BY <1>1, <1>2, <1>3, <2>1 DEF Stands
<1>9. /\ Cardinality(S) \in Nat /\ DOMAIN s = 1..Cardinality(S)
      /\ \A q \in DOMAIN s : s[q] \in S
      /\ \A d \in S : \E q \in DOMAIN s : s[q] = d
      /\ \A q, t \in DOMAIN s : q < t => Before(s[q], s[t], pts)
  BY <1>6, FS_CardinalityType DEF Sorts
<1>10. i \in Nat \ {0} /\ j \in Nat /\ p \in Nat /\ i <= p /\ p <= j /\ j <= Cardinality(S)
  <2> HIDE DEF C
  <2> QED
    BY <1>8, <1>9
<1>11. e \in S
  BY <1>3, <1>9
<1> DEFINE B == {d \in S : pts[d] > pts[e]}
           T == {d \in S : pts[d] = pts[e]}
<1>12. PICK better : better = Cardinality(B)
  OBVIOUS
<1>13. better + 1 = i
  <2>1. \A q \in DOMAIN s : s[q] \in B <=> q \in 1..(i - 1)
    BY <1>8, <1>9, <1>10
  <2>2. B = Slice(s, 1, i - 1)
    <3>1. 1..(i - 1) \subseteq DOMAIN s
      BY <1>9, <1>10
    <3> HIDE DEF B
    <3>2. B \subseteq S
      BY DEF B
    <3> QED
      BY <1>9, <2>1, <3>1, <3>2 DEF Slice
  <2>3. 1 \in Nat \ {0} /\ i - 1 \in Nat /\ i - 1 <= Cardinality(S) /\ 1 <= (i - 1) + 1
    BY <1>9, <1>10
  <2> HIDE DEF B
  <2>4. Cardinality(B) = (i - 1) - 1 + 1
    BY <1>6, <2>2, <2>3, AsMany
  <2> QED
    BY <1>10, <1>12, <2>4
<1>14. Cardinality(T) = size
  <2>1. \A q \in DOMAIN s : s[q] \in T <=> q \in i..j
    BY <1>8, <1>9
  <2>2. T = Slice(s, i, j)
    <3>1. i..j \subseteq DOMAIN s
      BY <1>9, <1>10
    <3> HIDE DEF T
    <3>2. T \subseteq S
      BY DEF T
    <3> QED
      BY <1>9, <2>1, <3>1, <3>2 DEF Slice
  <2>3. i <= j + 1
    BY <1>10
  <2> HIDE DEF T
  <2> QED
    BY <1>5, <1>6, <1>10, <2>2, <2>3, AsMany
<1>15. i = p <=> \A d \in T : e <= d
  <2>0. e \in Int /\ pts[e] \in Int
    BY <1>11
  <2>1. ASSUME i = p, NEW d \in T PROVE e <= d
    <3>1. PICK q \in DOMAIN s : s[q] = d
      BY <1>9
    <3>2. q \in i..j
      BY <1>8, <3>1
    <3>3. CASE q = p
      BY <1>3, <2>0, <3>1, <3>3
    <3>4. CASE q # p
      <4>1. p < q
        BY <1>10, <2>1, <3>2, <3>4
      <4>2. Before(e, d, pts)
        BY <1>3, <1>9, <3>1, <4>1
      <4>3. pts[e] = pts[d] /\ d \in Int /\ e \in Int /\ pts[e] \in Int
        BY <2>0
      <4> QED
        BY <4>2, <4>3 DEF Before
    <3> QED
      BY <3>3, <3>4
  <2>2. ASSUME i # p PROVE \E d \in T : ~ (e <= d)
    <3>1. i < p /\ i \in DOMAIN s
      BY <1>8, <1>10, <2>2 DEF Cluster
    <3>2. Before(s[i], e, pts)
      BY <1>3, <1>9, <3>1
    <3>3. pts[s[i]] = pts[e] /\ s[i] \in S
      BY <1>8, <1>9, <1>10, <3>1
    <3>4. s[i] \in Int
      BY <3>3
    <3>5. s[i] < e
      BY <2>0, <3>2, <3>3 DEF Before
    <3> QED
      BY <2>0, <3>3, <3>4, <3>5
  <2> QED
    BY <2>1, <2>2
<1>16. PICK rest : rest = IF \A d \in T : e <= d THEN pool % size ELSE 0
  OBVIOUS
<1>17. Winnings(e, S, pts, snap) = pool \div size + rest
  <2>1. i + Cardinality(T) - 1 = j
    BY <1>5, <1>10, <1>14
  <2>2. better + Cardinality(T) = j
    <3>1. better \in Int /\ Cardinality(T) \in Int
      <4>1. IsFiniteSet(B)
        BY FS_Subset
      <4>2. IsFiniteSet(T)
        BY FS_Subset
      <4> HIDE DEF B, T
      <4> QED
        BY <1>12, <4>1, <4>2, FS_CardinalityType
    <3> HIDE DEF B, T
    <3> QED
      BY <1>10, <1>13, <2>1, <3>1
  <2>3. pool = PrizePoolForRange(better + 1, better + Cardinality(T), snap)
    <3> HIDE DEF B, T
    <3> QED
      BY <1>4, <1>13, <2>2
  <2>4. Winnings(e, S, pts, snap)
          = PrizePoolForRange(better + 1, better + Cardinality(T), snap) \div Cardinality(T)
            + (IF \A d \in T : e <= d
               THEN PrizePoolForRange(better + 1, better + Cardinality(T), snap) % Cardinality(T)
               ELSE 0)
    BY <1>12 DEF Winnings
  <2> HIDE DEF B, T
  <2> QED
    BY <1>14, <1>16, <2>3, <2>4, Zenon
<1> HIDE DEF B, T
<1>18. pool \div size \in Int
  <2>1. pool \in Nat /\ size \in Nat \ {0}
    BY <1>4, <1>5, <1>10, PoolsAreNaturals
  <2> QED
    BY <2>1, Shares
<1>19. CASE i = p
  BY <1>3, <1>7, <1>15, <1>16, <1>17, <1>19
<1>20. CASE i # p
  <2>1. rest = 0 /\ A[p].amount = pool \div size
    BY <1>7, <1>15, <1>16, <1>20
  <2> QED
    BY <1>3, <1>17, <1>18, <2>1
<1> QED
  BY <1>19, <1>20

(* Slabs that add up to the pool pay out of one.                           *)
LEMMA PrizesHaveAPool ==
  ASSUME NEW snap \in PrizeSnapshot, ValidSlabs(snap), NEW r \in Int, PrizeForRank(r, snap) > 0
  PROVE  SnapshotHasPayouts(snap)
<1>1. PICK slabs : slabs = snap.slabs
  OBVIOUS
<1>2. /\ snap.poolAmount \in Nat /\ slabs \in Seq(PrizeSlab)
      /\ DOMAIN slabs = 1..Len(slabs) /\ Len(slabs) \in Nat
  BY <1>1 DEF PrizeSnapshot
<1>3. \A i \in DOMAIN slabs :
        /\ slabs[i].fromRank \in Nat \ {0} /\ slabs[i].toRank \in Nat
        /\ slabs[i].prizeAmount \in Nat /\ slabs[i].percentageBps \in Nat
  <2>1. \A i \in DOMAIN slabs : slabs[i] \in PrizeSlab
    BY <1>2
  <2> QED
    BY <2>1 DEF PrizeSlab
<1>4. PICK k \in DOMAIN slabs : PrizeForSlab(slabs[k], snap) > 0
  <2> DEFINE K == {i \in DOMAIN slabs : Covers(slabs[i], r)}
  <2>1. PrizeForRank(r, snap) = IF K = {} THEN 0 ELSE PrizeForSlab(slabs[Min(K)], snap)
    BY <1>1 DEF PrizeForRank
  <2>2. K # {} => Min(K) \in DOMAIN slabs
    <3> SUFFICES ASSUME K # {} PROVE Min(K) \in DOMAIN slabs
      OBVIOUS
    <3>1. IsFiniteSet(K) /\ K \subseteq Int /\ K \subseteq DOMAIN slabs
      <4>1. IsFiniteSet(1..Len(slabs))
        BY <1>2, FS_Interval
      <4> QED
        BY <1>2, <4>1, FS_Subset
    <3> HIDE DEF K
    <3> QED
      BY <3>1, FirstAndLast
  <2> HIDE DEF K
  <2> QED
    BY <2>1, <2>2
<1>5. snap.poolAmount > 0
  <2>1. CASE snap.type = "PERCENTAGE_BASED"
    <3>1. (snap.poolAmount * slabs[k].percentageBps) \div 10000 > 0
      BY <1>4, <2>1 DEF PrizeForSlab
    <3>2. snap.poolAmount # 0
      <4> SUFFICES ASSUME snap.poolAmount = 0 PROVE FALSE
        OBVIOUS
      <4>1. snap.poolAmount * slabs[k].percentageBps = 0
        BY <1>3
      <4>2. 0 \div 10000 = 0
        OBVIOUS
      <4> QED
        BY <3>1, <4>1, <4>2
    <3> QED
      BY <1>2, <3>2
  <2>2. CASE snap.type # "PERCENTAGE_BASED"
    <3> DEFINE f == [i \in DOMAIN slabs |-> Width(slabs[i]) * slabs[i].prizeAmount]
    <3>1. SumFunction(f) = snap.poolAmount
      BY <1>1, <2>2 DEF ValidSlabs
    <3>2. \A i \in DOMAIN slabs : Width(slabs[i]) \in Nat \ {0}
      <4>1. \A i \in DOMAIN slabs : slabs[i].fromRank <= slabs[i].toRank
        BY <1>1 DEF ValidSlabs
      <4> QED
        BY <1>3, <4>1 DEF Width
    <3>3. \A i \in DOMAIN slabs : f[i] \in Nat
      BY <1>3, <3>2
    <3>4. f[k] > 0
      <4>1. slabs[k].prizeAmount \in Nat \ {0} /\ Width(slabs[k]) \in Nat \ {0}
        BY <1>3, <1>4, <2>2, <3>2 DEF PrizeForSlab
      <4>2. \A m, n \in Nat \ {0} : m * n > 0
        OBVIOUS
      <4> QED
        BY <4>1, <4>2
    <3>5. DOMAIN f = DOMAIN slabs /\ IsFiniteSet(DOMAIN slabs)
      BY <1>2, FS_Interval
    <3> HIDE DEF f
    <3>6. f[k] <= SumOver(f, DOMAIN slabs)
      BY <3>3, <3>5, SumOfNats
    <3>7. SumOver(f, DOMAIN slabs) = snap.poolAmount
      BY <3>1, <3>5, SumFunctionIsSum
    <3> QED
      BY <1>2, <3>3, <3>4, <3>6, <3>7
  <2> QED
    BY <2>1, <2>2
<1> QED
  BY <1>1, <1>4, <1>5 DEF SnapshotHasPayouts

(* A range of ranks with a pool has a rank with a prize.                   *)
LEMMA PoolsHavePrizes ==
  ASSUME NEW snap \in PrizeSnapshot, NEW i \in Int, NEW j \in Int,
         PrizePoolForRange(i, j, snap) # 0
  PROVE  \E r \in Int : PrizeForRank(r, snap) > 0
<1> SUFFICES ASSUME \A r \in Int : ~ (PrizeForRank(r, snap) > 0) PROVE FALSE
  OBVIOUS
<1> DEFINE f == [r \in i..j |-> PrizeForRank(r, snap)]
<1>1. \A r \in Int : PrizeForRank(r, snap) = 0
  <2> TAKE r \in Int
  <2>1. PrizeForRank(r, snap) \in Nat
    BY PrizesAreNaturals
  <2> QED
    BY <2>1
<1>2. PrizePoolForRange(i, j, snap) = SumFunction(f)
  BY DEF PrizePoolForRange
<1>3. DOMAIN f = i..j /\ \A r \in i..j : f[r] = 0
  BY <1>1
<1> HIDE DEF f
<1>4. IsFiniteSet(i..j)
  BY FS_Interval
<1>5. SumOver(f, i..j) = Cardinality(i..j) * 0
  BY <1>3, <1>4, SumConstant
<1>6. Cardinality(i..j) \in Nat
  BY <1>4, FS_CardinalityType
<1> QED
  BY <1>2, <1>3, <1>5, <1>6, SumFunctionIsSum

(* Nothing, split among a cluster.                                         *)
LEMMA NothingToShare ==
  ASSUME NEW size \in Nat \ {0}
  PROVE  0 \div size = 0 /\ 0 % size = 0
OBVIOUS

(* If anyone wins, the snapshot has payouts, so that the settlement asks   *)
(* for the money.                                                          *)
LEMMA WinnersArePaid ==
  ASSUME NEW S, NEW pts, Scored(S, pts), NEW snap \in PrizeSnapshot, ValidSlabs(snap),
         NEW s, s = Sorted(S, pts), NEW A, A = AllocateWinnings(S, pts, snap),
         NEW p \in DOMAIN s, A[p].amount > 0
  PROVE  SnapshotHasPayouts(snap)
<1>1. Allocated(A, s, p, pts, snap)
  BY Allocation
<1>2. PICK pool, size : pool = PoolOf(s, p, pts, snap) /\ size = SizeOf(s, p, pts)
  OBVIOUS
<1>3. /\ pool \in Nat /\ size \in Nat \ {0}
      /\ A[p].amount = (pool \div size) + (pool % size) \/ A[p].amount = pool \div size
  BY <1>1, <1>2, Zenon DEF Allocated
<1>4. pool # 0
  BY <1>3, NothingToShare
<1>5. Sorts(s, S, pts)
  BY Allocation
<1>6. PICK i, j : i = Min(Cluster(s, p, pts)) /\ j = Max(Cluster(s, p, pts))
  OBVIOUS
<1>7. i \in Int /\ j \in Int
  <2>1. Stands(i, j, s, p, S, pts)
    BY <1>5, <1>6, ClusterIsInterval
  <2> QED
    BY <2>1 DEF Stands
<1>8. PICK r \in Int : PrizeForRank(r, snap) > 0
  <2>1. pool = PrizePoolForRange(i, j, snap)
    BY <1>2, <1>6 DEF PoolOf
  <2> QED
    BY <1>4, <1>7, <2>1, PoolsHavePrizes
<1> QED
  BY <1>8, PrizesHaveAPool

-----------------------------------------------------------------------------
(* Ladders: the prizes of all ranks are at most the pool.                  *)

(* Induction up to n.                                                      *)
LEMMA UpTo ==
  ASSUME NEW n \in Nat, NEW P \in SUBSET Nat, 0 \in P, \A k \in P : k < n => k + 1 \in P
  PROVE  n \in P
<1> SUFFICES ASSUME n \notin P PROVE FALSE
  OBVIOUS
<1> DEFINE B == (0..n) \ P
<1>1. IsFiniteSet(B) /\ B \subseteq Int /\ B # {}
  <2>1. IsFiniteSet(0..n)
    BY FS_Interval
  <2> QED
    BY <2>1, FS_Subset
<1>2. PICK m : m = Min(B)
  OBVIOUS
<1>3. m \in B /\ \A x \in B : m <= x
  <2> HIDE DEF B
  <2> QED
    BY <1>1, <1>2, FirstAndLast
<1>4. m - 1 \in 0..n /\ m - 1 \notin B
  BY <1>3
<1> QED
  BY <1>3, <1>4

(* Functions that agree on a set have the same sum over it.                *)
LEMMA SumCongruent ==
  ASSUME NEW S, IsFiniteSet(S), NEW f, NEW e, \A x \in S : f[x] \in Int /\ e[x] = f[x]
  PROVE  SumOver(f, S) = SumOver(e, S) /\ SumOver(f, S) \in Int
<1>1. SumOver(f, S) \in Int /\ SumOver(e, S) \in Int /\ SumOver(f, S) <= SumOver(e, S)
  BY SumMonotonic
<1>2. SumOver(e, S) <= SumOver(f, S)
  BY SumMonotonic
<1> QED
  BY <1>1, <1>2

(* The sum of the multiples is the multiple of the sum.                    *)
LEMMA SumScaled ==
  ASSUME NEW S, IsFiniteSet(S), NEW f, NEW e, NEW c \in Int,
         \A x \in S : f[x] \in Int /\ e[x] = c * f[x]
  PROVE  SumOver(e, S) = c * SumOver(f, S) /\ SumOver(f, S) \in Int
<1>1. PICK g : Additive(g, f, S) /\ \A T \in SUBSET S : SumOver(f, T) = g[T]
  BY Sums
<1>2. \A x \in S : e[x] \in Int
  OBVIOUS
<1>3. PICK h : Additive(h, e, S) /\ \A T \in SUBSET S : SumOver(e, T) = h[T]
  BY <1>2, Sums
<1> DEFINE P == {T \in SUBSET S : h[T] = c * g[T]}
<1>4. {} \in P
  <2>1. c * 0 = 0
    OBVIOUS
  <2> QED
    BY <1>1, <1>3, <2>1 DEF Additive
<1>5. ASSUME NEW T \in P, NEW x \in S \ T PROVE T \cup {x} \in P
  <2>1. g[T \cup {x}] = f[x] + g[T] /\ h[T \cup {x}] = c * f[x] + h[T]
    BY <1>1, <1>3 DEF Additive
  <2>2. g[T] \in Int /\ f[x] \in Int
    BY <1>1 DEF Additive
  <2>3. c * f[x] + c * g[T] = c * (f[x] + g[T])
    BY <2>2
  <2> QED
    BY <2>1, <2>3
<1>6. S \in P
  <2> HIDE DEF P
  <2>1. P \in SUBSET SUBSET S
    BY DEF P
  <2> QED
    BY <1>4, <1>5, <2>1, OneByOne
<1>7. g[S] \in Int
  BY <1>1 DEF Additive
<1> QED
  BY <1>1, <1>3, <1>6, <1>7

-----------------------------------------------------------------------------
(* The prize of each rank, as a function.                                  *)
Prizes(snap) == [r \in Int |-> PrizeForRank(r, snap)]

(* The pool of a range of ranks is the sum of their prizes.                *)
LEMMA PoolIsSum ==
  ASSUME NEW snap \in PrizeSnapshot, NEW i \in Int, NEW j \in Int
  PROVE  /\ PrizePoolForRange(i, j, snap) = SumOver(Prizes(snap), i..j)
         /\ \A r \in Int : Prizes(snap)[r] \in Nat
<1>1. PICK f : f = [r \in i..j |-> PrizeForRank(r, snap)]
  OBVIOUS
<1>2. PrizePoolForRange(i, j, snap) = SumOver(f, i..j)
  BY <1>1, SumFunctionIsSum DEF PrizePoolForRange
<1>3. \A r \in Int : Prizes(snap)[r] \in Nat
  BY PrizesAreNaturals DEF Prizes
<1>4. \A r \in i..j : f[r] \in Int /\ Prizes(snap)[r] = f[r]
  BY <1>1, <1>3 DEF Prizes
<1>5. IsFiniteSet(i..j)
  BY FS_Interval
<1> QED
  BY <1>2, <1>3, <1>4, <1>5, SumCongruent

(* The pools of two adjacent ranges add up to that of both.                *)
LEMMA PoolsAdd ==
  ASSUME NEW snap \in PrizeSnapshot, NEW i \in Int, NEW k \in Int, NEW j \in Int,
         i <= k + 1, k <= j
  PROVE  PrizePoolForRange(i, j, snap)
           = PrizePoolForRange(i, k, snap) + PrizePoolForRange(k + 1, j, snap)
<1>1. (i..k) \cup ((k + 1)..j) = i..j /\ (i..k) \cap ((k + 1)..j) = {}
  OBVIOUS
<1>2. IsFiniteSet(i..k) /\ IsFiniteSet((k + 1)..j)
  BY FS_Interval
<1>3. PICK R, T, f : R = i..k /\ T = (k + 1)..j /\ f = Prizes(snap)
  OBVIOUS
<1>4. \A x \in R \cup T : f[x] \in Int
  BY <1>1, <1>3, PoolIsSum
<1>5. SumOver(f, R \cup T) = SumOver(f, R) + SumOver(f, T)
  BY <1>1, <1>2, <1>3, <1>4, SumUnion
<1>6. \A a, b \in Int : PrizePoolForRange(a, b, snap) = SumOver(Prizes(snap), a..b)
  BY PoolIsSum
<1>7. PrizePoolForRange(i, k, snap) = SumOver(f, R)
  BY <1>3, <1>6
<1>8. PrizePoolForRange(k + 1, j, snap) = SumOver(f, T)
  <2>1. k + 1 \in Int
    OBVIOUS
  <2> QED
    BY <1>3, <1>6, <2>1
<1>9. PrizePoolForRange(i, j, snap) = SumOver(f, R \cup T)
  BY <1>1, <1>3, <1>6
<1> QED
  BY <1>5, <1>7, <1>8, <1>9

(* What the slabs pay, each to all of its ranks, is at most the pool.      *)
SlabPays(snap) ==
  [i \in DOMAIN snap.slabs |-> Width(snap.slabs[i]) * PrizeForSlab(snap.slabs[i], snap)]

(* The fields of the slabs of a valid snapshot, and what a slab pays.      *)
LEMMA Slabs ==
  ASSUME NEW snap \in PrizeSnapshot, ValidSlabs(snap), NEW slabs, slabs = snap.slabs
  PROVE  /\ DOMAIN slabs = 1..Len(slabs) /\ IsFiniteSet(DOMAIN slabs)
         /\ \A i \in DOMAIN slabs :
              /\ slabs[i].fromRank \in Nat \ {0} /\ slabs[i].toRank \in Nat
              /\ slabs[i].prizeAmount \in Nat /\ slabs[i].percentageBps \in Nat
              /\ slabs[i].fromRank <= slabs[i].toRank
              /\ Width(slabs[i]) \in Nat \ {0}
              /\ PrizeForSlab(slabs[i], snap) \in Nat
<1>1. /\ snap.poolAmount \in Nat /\ slabs \in Seq(PrizeSlab)
      /\ DOMAIN slabs = 1..Len(slabs) /\ Len(slabs) \in Nat
  BY DEF PrizeSnapshot
<1>2. IsFiniteSet(DOMAIN slabs)
  BY <1>1, FS_Interval
<1>3. ASSUME NEW i \in DOMAIN slabs
      PROVE  /\ slabs[i].fromRank \in Nat \ {0} /\ slabs[i].toRank \in Nat
             /\ slabs[i].prizeAmount \in Nat /\ slabs[i].percentageBps \in Nat
             /\ slabs[i].fromRank <= slabs[i].toRank
             /\ Width(slabs[i]) \in Nat \ {0}
             /\ PrizeForSlab(slabs[i], snap) \in Nat
  <2>1. PICK x \in PrizeSlab : x = slabs[i]
    BY <1>1
  <2>2. x.fromRank \in Nat \ {0} /\ x.toRank \in Nat /\ x.prizeAmount \in Nat /\ x.percentageBps \in Nat
    BY DEF PrizeSlab
  <2>3. x.fromRank <= x.toRank
    BY <2>1 DEF ValidSlabs
  <2>4. Width(x) \in Nat \ {0}
    BY <2>2, <2>3 DEF Width
  <2>5. PrizeForSlab(x, snap) \in Nat
    <3>1. snap.poolAmount * x.percentageBps \in Nat
      BY <1>1, <2>2
    <3>2. \A k \in Nat : k \div 10000 \in Nat
      OBVIOUS
    <3> QED
      BY <2>2, <3>1, <3>2 DEF PrizeForSlab
  <2> QED
    BY <2>1, <2>2, <2>3, <2>4, <2>5
<1> QED
  BY <1>1, <1>2, <1>3

(* All ranks of all slabs together are paid no more than the pool: prizes  *)
(* add up to it, and percentages are rounded down.                         *)
LEMMA SlabsPayThePool ==
  ASSUME NEW snap \in PrizeSnapshot, ValidSlabs(snap)
  PROVE  SumOver(SlabPays(snap), DOMAIN snap.slabs) <= snap.poolAmount
<1>1. PICK slabs, pool, D : slabs = snap.slabs /\ pool = snap.poolAmount /\ D = DOMAIN slabs
  OBVIOUS
<1>2. pool \in Nat
  BY <1>1 DEF PrizeSnapshot
<1>3. /\ IsFiniteSet(D)
      /\ \A i \in D : /\ slabs[i].prizeAmount \in Nat /\ slabs[i].percentageBps \in Nat
                      /\ Width(slabs[i]) \in Nat \ {0}
                      /\ PrizeForSlab(slabs[i], snap) \in Nat
  BY <1>1, Slabs
<1>4. PICK f : f = SlabPays(snap)
  OBVIOUS
<1>5. \A i \in D : f[i] = Width(slabs[i]) * PrizeForSlab(slabs[i], snap)
  BY <1>1, <1>4 DEF SlabPays
<1>6. \A i \in D : f[i] \in Int
  <2> TAKE i \in D
  <2>1. \A m, n \in Nat : m * n \in Int
    BY SMTT(20)
  <2> QED
    BY <1>3, <1>5, <2>1
<1>7. CASE snap.type = "PERCENTAGE_BASED"
  <2>1. PICK v : v = [i \in D |-> Width(slabs[i]) * slabs[i].percentageBps]
    OBVIOUS
  <2>2. SumOver(v, D) = 10000
    <3>1. SumFunction(v) = 10000
      BY <1>1, <1>7, <2>1 DEF ValidSlabs
    <3> QED
      BY <2>1, <3>1, SumFunctionIsSum
  <2>3. PICK c \in Int : c = 10000
    OBVIOUS
  <2>4. PICK rhs : rhs = [i \in D |-> pool * v[i]]
    OBVIOUS
  <2>5. PICK lhs : lhs = [i \in D |-> c * f[i]]
    OBVIOUS
  <2>6. \A i \in D : v[i] \in Int
    <3> TAKE i \in D
    <3>1. \A m, n \in Nat : m * n \in Int
      BY SMTT(20)
    <3> QED
      BY <1>3, <2>1, <3>1
  <2>7. SumOver(lhs, D) = c * SumOver(f, D) /\ SumOver(f, D) \in Int
    <3>1. IsFiniteSet(D) /\ \A i \in D : f[i] \in Int /\ lhs[i] = c * f[i]
      BY <1>3, <1>6, <2>5
    <3> QED
      BY <3>1, SumScaled, Zenon
  <2>8. SumOver(rhs, D) = pool * SumOver(v, D)
    <3>1. /\ pool \in Int /\ IsFiniteSet(D)
          /\ \A i \in D : v[i] \in Int /\ rhs[i] = pool * v[i]
      BY <1>2, <1>3, <2>4, <2>6
    <3> QED
      BY <3>1, SumScaled, Zenon
  <2>9. ASSUME NEW i \in D PROVE lhs[i] \in Int /\ rhs[i] \in Int /\ lhs[i] <= rhs[i]
    <3>1. PICK w, b, z : /\ w = Width(slabs[i]) /\ b = slabs[i].percentageBps
                         /\ z = PrizeForSlab(slabs[i], snap)
      OBVIOUS
    <3>2. w \in Nat /\ b \in Nat /\ z \in Nat
      BY <1>3, <3>1
    <3>3. z = (pool * b) \div 10000
      BY <1>1, <1>7, <3>1 DEF PrizeForSlab
    <3>4. 10000 * z <= pool * b
      <4>1. PICK x : x = pool * b
        OBVIOUS
      <4>2. x \in Nat
        BY <1>2, <3>2, <4>1
      <4> QED
        BY <3>3, <4>1, <4>2
    <3>5. lhs[i] = 10000 * (w * z) /\ rhs[i] = pool * (w * b)
      BY <1>5, <2>1, <2>5, <2>4, <2>3, <3>1
    <3>6. w * (10000 * z) <= w * (pool * b)
      <4>1. \A x, y \in Int : x <= y => w * x <= w * y
        BY <3>2
      <4>2. 10000 * z \in Int /\ pool * b \in Int
        BY <1>2, <3>2
      <4> QED
        BY <3>4, <4>1, <4>2
    <3>7. 10000 * (w * z) = w * (10000 * z) /\ pool * (w * b) = w * (pool * b)
      BY <1>2, <3>2
    <3>8. lhs[i] \in Int /\ rhs[i] \in Int
      BY <1>2, <1>6, <2>5, <2>4, <2>6, <2>3
    <3> QED
      BY <3>5, <3>6, <3>7, <3>8
  <2>10. SumOver(lhs, D) <= SumOver(rhs, D)
    BY <1>3, <2>9, SumMonotonic
  <2> QED
    BY <1>1, <1>2, <1>4, <2>2, <2>7, <2>8, <2>10, <2>3
<1>8. CASE snap.type # "PERCENTAGE_BASED"
  <2>1. PICK v : v = [i \in D |-> Width(slabs[i]) * slabs[i].prizeAmount]
    OBVIOUS
  <2>2. SumOver(v, D) = pool
    <3>1. SumFunction(v) = pool
      BY <1>1, <1>8, <2>1 DEF ValidSlabs
    <3> QED
      BY <2>1, <3>1, SumFunctionIsSum
  <2>3. \A i \in D : v[i] = f[i]
    BY <1>5, <1>8, <2>1 DEF PrizeForSlab
  <2>4. SumOver(f, D) = SumOver(v, D)
    BY <1>3, <1>6, <2>3, SumCongruent
  <2> QED
    BY <1>1, <1>2, <1>4, <2>2, <2>4
<1> QED
  BY <1>7, <1>8

(* The ranks of the slabs in K.                                            *)
RanksOf(K, slabs) == UNION {slabs[i].fromRank .. slabs[i].toRank : i \in K}

(* A rank belongs to one slab, whose prize it has; a rank of none has no   *)
(* prize.                                                                  *)
LEMMA OneSlab ==
  ASSUME NEW snap \in PrizeSnapshot, ValidSlabs(snap), NEW slabs, slabs = snap.slabs, NEW r \in Int
  PROVE  /\ \A i \in DOMAIN slabs : Covers(slabs[i], r) =>
              /\ PrizeForRank(r, snap) = PrizeForSlab(slabs[i], snap)
              /\ \A k \in DOMAIN slabs : Covers(slabs[k], r) => k = i
         /\ (\A i \in DOMAIN slabs : ~Covers(slabs[i], r)) => PrizeForRank(r, snap) = 0
<1> DEFINE C == {i \in DOMAIN slabs : Covers(slabs[i], r)}
<1>1. PrizeForRank(r, snap) = IF C = {} THEN 0 ELSE PrizeForSlab(slabs[Min(C)], snap)
  BY DEF PrizeForRank
<1>2. ASSUME NEW i \in DOMAIN slabs, Covers(slabs[i], r)
      PROVE  /\ PrizeForRank(r, snap) = PrizeForSlab(slabs[i], snap)
             /\ \A k \in DOMAIN slabs : Covers(slabs[k], r) => k = i
  <2>1. slabs[i].fromRank \in Nat /\ slabs[i].toRank \in Nat
    BY Slabs
  <2>2. r \in slabs[i].fromRank .. slabs[i].toRank
    BY <1>2, <2>1 DEF Covers
  <2>3. Cardinality(C) = 1
    BY <2>2 DEF ValidSlabs
  <2>4. IsFiniteSet(C) /\ DOMAIN slabs \subseteq Int
    <3>1. IsFiniteSet(DOMAIN slabs) /\ DOMAIN slabs = 1..Len(slabs)
      BY Slabs
    <3> QED
      BY <3>1, FS_Subset
  <2>5. PICK x : C = {x}
    <3> HIDE DEF C
    <3> QED
      BY <2>3, <2>4, FS_Singleton
  <2>6. i \in C /\ C \subseteq DOMAIN slabs
    BY <1>2
  <2>7. \A k \in DOMAIN slabs : Covers(slabs[k], r) => k \in C
    OBVIOUS
  <2> HIDE DEF C
  <2>8. x = i
    BY <2>5, <2>6
  <2>9. Min(C) = i
    <3>1. C \subseteq Int /\ C # {}
      BY <2>4, <2>6
    <3>2. Min(C) \in C
      BY <2>4, <3>1, FirstAndLast
    <3> QED
      BY <2>5, <2>8, <3>2
  <2> QED
    BY <1>1, <2>5, <2>6, <2>7, <2>8, <2>9
<1>3. (\A i \in DOMAIN slabs : ~Covers(slabs[i], r)) => C = {}
  OBVIOUS
<1> HIDE DEF C
<1> QED
  BY <1>1, <1>2, <1>3

(* The ranks of the slabs win what the slabs pay.                          *)
LEMMA SlabsCoverTheirRanks ==
  ASSUME NEW snap \in PrizeSnapshot, ValidSlabs(snap), NEW slabs, slabs = snap.slabs
  PROVE  /\ IsFiniteSet(RanksOf(DOMAIN slabs, slabs)) /\ RanksOf(DOMAIN slabs, slabs) \subseteq Int
         /\ SumOver(Prizes(snap), RanksOf(DOMAIN slabs, slabs)) <= snap.poolAmount
<1>1. PICK P, f, D : P = Prizes(snap) /\ f = SlabPays(snap) /\ D = DOMAIN slabs
  OBVIOUS
<1>2. /\ IsFiniteSet(D)
      /\ \A i \in D : /\ slabs[i].fromRank \in Nat /\ slabs[i].toRank \in Nat
                      /\ slabs[i].fromRank <= slabs[i].toRank
                      /\ Width(slabs[i]) \in Nat
                      /\ PrizeForSlab(slabs[i], snap) \in Nat
  BY <1>1, Slabs
<1>3. \A r \in Int : P[r] \in Nat /\ P[r] = PrizeForRank(r, snap)
  <2>1. \A r \in Int : PrizeForRank(r, snap) \in Nat
    BY PrizesAreNaturals
  <2> QED
    BY <1>1, <2>1 DEF Prizes
<1>4. \A i \in D : f[i] = Width(slabs[i]) * PrizeForSlab(slabs[i], snap) /\ f[i] \in Int
  <2>1. \A m, n \in Nat : m * n \in Int
    BY SMTT(20)
  <2> QED
    BY <1>1, <1>2, <2>1 DEF SlabPays
<1>5. PICK h : Additive(h, f, D) /\ \A T \in SUBSET D : SumOver(f, T) = h[T]
  BY <1>2, <1>4, Sums
<1> DEFINE G == {K \in SUBSET D : /\ IsFiniteSet(RanksOf(K, slabs)) /\ RanksOf(K, slabs) \subseteq Int
                                  /\ SumOver(P, RanksOf(K, slabs)) = h[K]}
<1>6. {} \in G
  <2>1. RanksOf({}, slabs) = {}
    BY DEF RanksOf
  <2> QED
    BY <1>5, <2>1, FS_EmptySet, SumEmpty DEF Additive
<1>7. ASSUME NEW K \in G, NEW i \in D \ K PROVE K \cup {i} \in G
  <2>1. PICK R, T : R = RanksOf(K, slabs) /\ T = slabs[i].fromRank .. slabs[i].toRank
    OBVIOUS
  <2>2. RanksOf(K \cup {i}, slabs) = R \cup T
    BY <2>1 DEF RanksOf
  <2>3. IsFiniteSet(R) /\ R \subseteq Int /\ SumOver(P, R) = h[K]
    BY <2>1
  <2>4. /\ IsFiniteSet(T) /\ T \subseteq Int
        /\ Cardinality(T) = Width(slabs[i])
    <3>1. PICK a, b : a = slabs[i].fromRank /\ b = slabs[i].toRank
      OBVIOUS
    <3>2. a \in Int /\ b \in Int /\ a <= b
      BY <1>2, <3>1
    <3>3. IsFiniteSet(a..b) /\ Cardinality(a..b) = b - a + 1
      BY <3>2, FS_Interval
    <3> QED
      BY <2>1, <3>1, <3>3 DEF Width
  <2>5. \A r \in T : Covers(slabs[i], r)
    BY <1>2, <2>1 DEF Covers
  <2>6. R \cap T = {}
    <3> SUFFICES ASSUME NEW r \in R, r \in T PROVE FALSE
      OBVIOUS
    <3>1. PICK k \in K : r \in slabs[k].fromRank .. slabs[k].toRank
      BY <2>1 DEF RanksOf
    <3>2. Covers(slabs[k], r) /\ Covers(slabs[i], r) /\ r \in Int /\ k \in D
      BY <1>2, <2>4, <2>5, <3>1 DEF Covers
    <3>3. k = i
      BY <1>1, <3>2, OneSlab
    <3> QED
      BY <3>3
  <2>7. PICK w : w = PrizeForSlab(slabs[i], snap)
    OBVIOUS
  <2>8. \A r \in T : P[r] = w
    <3> TAKE r \in T
    <3>1. PrizeForRank(r, snap) = PrizeForSlab(slabs[i], snap)
      BY <1>1, <2>4, <2>5, OneSlab
    <3> QED
      BY <1>3, <2>4, <2>7, <3>1
  <2>9. SumOver(P, T) = Cardinality(T) * w
    <3>1. w \in Int
      BY <1>2, <2>7
    <3>2. IsFiniteSet(T)
      BY <2>4
    <3> QED
      BY <2>8, <3>1, <3>2, SumConstant
  <2>10. SumOver(P, R \cup T) = SumOver(P, R) + SumOver(P, T)
    <3>0. \A x \in Int : P[x] \in Int
      BY <1>3
    <3>1. \A x \in R \cup T : P[x] \in Int
      BY <2>3, <2>4, <3>0, Zenon
    <3> QED
      BY <2>3, <2>4, <2>6, <3>1, SumUnion
  <2>11. h[K \cup {i}] = f[i] + h[K] /\ h[K] \in Int /\ f[i] \in Int
    BY <1>4, <1>5 DEF Additive
  <2>12. SumOver(P, T) = f[i]
    BY <1>4, <2>4, <2>7, <2>9
  <2>13. SumOver(P, R \cup T) = h[K \cup {i}]
    BY <2>3, <2>10, <2>11, <2>12
  <2>14. IsFiniteSet(R \cup T) /\ R \cup T \subseteq Int
    BY <2>3, <2>4, FS_Union
  <2> QED
    BY <2>2, <2>13, <2>14
<1>8. D \in G
  <2> HIDE DEF G
  <2>1. G \in SUBSET SUBSET D
    BY DEF G
  <2> QED
    BY <1>2, <1>6, <1>7, <2>1, OneByOne
<1>9. h[D] = SumOver(f, D)
  BY <1>5
<1> QED
  BY <1>1, <1>8, <1>9, SlabsPayThePool

(* The first ranks win at most the pool.                                   *)
LEMMA LadderStaysInPool ==
  ASSUME NEW snap \in PrizeSnapshot, ValidSlabs(snap), NEW m \in Int
  PROVE  PrizePoolForRange(1, m, snap) <= snap.poolAmount
<1>1. PICK slabs, P, W, R : /\ slabs = snap.slabs /\ P = Prizes(snap) /\ W = 1..m
                            /\ R = RanksOf(DOMAIN slabs, slabs)
  OBVIOUS
<1>2. IsFiniteSet(R) /\ R \subseteq Int /\ SumOver(P, R) <= snap.poolAmount
  BY <1>1, SlabsCoverTheirRanks
<1>3. IsFiniteSet(W) /\ W \subseteq Int
  BY <1>1, FS_Interval
<1>4. PrizePoolForRange(1, m, snap) = SumOver(P, W) /\ \A r \in Int : P[r] \in Nat
  BY <1>1, PoolIsSum
<1>5. PICK A, B, C : A = W \cap R /\ B = W \ R /\ C = R \ W
  OBVIOUS
<1>6. /\ IsFiniteSet(A) /\ IsFiniteSet(B) /\ IsFiniteSet(C)
      /\ A \cup B = W /\ A \cup C = R /\ A \cap B = {} /\ A \cap C = {}
      /\ A \subseteq Int /\ B \subseteq Int /\ C \subseteq Int
  BY <1>2, <1>3, <1>5, FS_Subset
<1>7. SumOver(P, W) = SumOver(P, A) + SumOver(P, B) /\ SumOver(P, A) \in Int /\ SumOver(P, B) \in Int
  <2>1. \A x \in A \cup B : P[x] \in Int
    BY <1>4, <1>6
  <2> QED
    BY <1>6, <2>1, SumUnion
<1>8. SumOver(P, R) = SumOver(P, A) + SumOver(P, C) /\ SumOver(P, C) \in Int
  <2>1. \A x \in A \cup C : P[x] \in Int
    BY <1>4, <1>6
  <2> QED
    BY <1>6, <2>1, SumUnion
<1>9. SumOver(P, C) >= 0
  <2>1. \A x \in C : P[x] \in Nat
    BY <1>4, <1>6
  <2>2. SumOver(P, C) \in Nat
    BY <1>6, <2>1, SumOfNats
  <2> QED
    BY <2>2
<1>10. SumOver(P, B) = 0
  <2>1. ASSUME NEW r \in B PROVE P[r] = 0
    <3>1. r \in Int /\ r \notin R
      BY <1>5, <1>6
    <3>2. \A i \in DOMAIN slabs : ~Covers(slabs[i], r)
      <4> SUFFICES ASSUME NEW i \in DOMAIN slabs, Covers(slabs[i], r) PROVE FALSE
        OBVIOUS
      <4>1. slabs[i].fromRank \in Nat /\ slabs[i].toRank \in Nat
        BY <1>1, Slabs
      <4>2. r \in slabs[i].fromRank .. slabs[i].toRank
        BY <3>1, <4>1 DEF Covers
      <4>3. r \in RanksOf(DOMAIN slabs, slabs)
        BY <4>2 DEF RanksOf
      <4> QED
        BY <1>1, <3>1, <4>3
    <3>3. PrizeForRank(r, snap) = 0
      BY <1>1, <3>1, <3>2, OneSlab
    <3> QED
      BY <1>1, <3>1, <3>3 DEF Prizes
  <2>2. SumOver(P, B) = Cardinality(B) * 0
    <3>1. PICK z \in Int : z = 0
      OBVIOUS
    <3>2. \A x \in B : P[x] = z
      BY <2>1, <3>1
    <3>3. SumOver(P, B) = Cardinality(B) * z
      BY <1>6, <3>2, SumConstant
    <3> QED
      BY <3>1, <3>3
  <2>3. Cardinality(B) \in Nat
    BY <1>6, FS_CardinalityType
  <2> QED
    BY <2>2, <2>3
<1>11. snap.poolAmount \in Nat
  BY DEF PrizeSnapshot
<1> QED
  BY <1>2, <1>4, <1>7, <1>8, <1>9, <1>10, <1>11

-----------------------------------------------------------------------------
(* The winnings of a field of entries are at most the pool.                *)

(* What the first k positions have been handed in all: the pools of the    *)
(* clusters before, and of the cluster of k the shares and the remainder.  *)
Handed(k, x, s, pts, snap) ==
  x = PrizePoolForRange(1, Min(Cluster(s, k, pts)) - 1, snap)
      + (k - Min(Cluster(s, k, pts)) + 1) * (PoolOf(s, k, pts, snap) \div SizeOf(s, k, pts))
      + (PoolOf(s, k, pts, snap) % SizeOf(s, k, pts))

(* The numbers of a cluster.                                               *)
LEMMA ClusterNumbers ==
  ASSUME NEW S, NEW pts, Scored(S, pts), NEW snap \in PrizeSnapshot,
         NEW s, Sorts(s, S, pts), NEW k \in DOMAIN s,
         NEW i, i = Min(Cluster(s, k, pts)), NEW j, j = Max(Cluster(s, k, pts)),
         NEW pool, pool = PoolOf(s, k, pts, snap), NEW size, size = SizeOf(s, k, pts)
  PROVE  /\ Cardinality(S) \in Nat /\ DOMAIN s = 1..Cardinality(S)
         /\ i \in Nat \ {0} /\ j \in Nat /\ k \in Nat /\ i <= k /\ k <= j /\ j <= Cardinality(S)
         /\ \A q \in DOMAIN s : pts[s[q]] = pts[s[k]] <=> q \in i..j
         /\ pool = PrizePoolForRange(i, j, snap) /\ size = j - i + 1
         /\ pool \in Nat /\ size \in Nat \ {0}
         /\ pool \div size \in Nat /\ pool % size \in Nat
         /\ size * (pool \div size) + (pool % size) = pool
<1>1. Cardinality(S) \in Nat /\ DOMAIN s = 1..Cardinality(S)
  BY FS_CardinalityType DEF Sorts, Scored
<1>2. Stands(i, j, s, k, S, pts)
  BY ClusterIsInterval
<1>3. /\ i \in 1..k /\ j \in k..Cardinality(S)
      /\ \A q \in DOMAIN s : pts[s[q]] = pts[s[k]] <=> q \in i..j
  BY <1>2 DEF Stands
<1>4. /\ i \in Nat \ {0} /\ j \in Nat /\ k \in Nat /\ i <= k /\ k <= j /\ j <= Cardinality(S)
  BY <1>1, <1>3
<1>5. pool = PrizePoolForRange(i, j, snap) /\ size = j - i + 1
  BY DEF PoolOf, SizeOf
<1>6. pool \in Nat /\ size \in Nat \ {0}
  <2>1. PrizePoolForRange(i, j, snap) \in Nat
    BY <1>4, PoolsAreNaturals
  <2> QED
    BY <1>4, <1>5, <2>1
<1>7. /\ pool \div size \in Nat /\ pool % size \in 0..(size - 1)
      /\ pool - (pool \div size) * size = pool % size
  BY <1>6, Shares
<1>8. pool % size \in Nat /\ size * (pool \div size) + (pool % size) = pool
  <2>1. PICK q, m : q = pool \div size /\ m = pool % size
    OBVIOUS
  <2>2. q \in Nat /\ m \in Nat /\ pool - q * size = m
    BY <1>6, <1>7, <2>1
  <2>3. size * q = q * size /\ q * size \in Nat
    BY <1>6, <2>2
  <2>4. size * q + m = pool
    BY <1>6, <2>2, <2>3
  <2> QED
    BY <2>1, <2>2, <2>4
<1> QED
  BY <1>1, <1>3, <1>4, <1>5, <1>6, <1>7, <1>8

(* At the last position of a cluster its pool is spent.                    *)
LEMMA PoolIsSpent ==
  ASSUME NEW S, NEW pts, Scored(S, pts), NEW snap \in PrizeSnapshot,
         NEW s, Sorts(s, S, pts), NEW k \in DOMAIN s, k = Max(Cluster(s, k, pts)),
         NEW x, Handed(k, x, s, pts, snap)
  PROVE  x = PrizePoolForRange(1, k, snap)
<1>1. PICK i, pool, size : /\ i = Min(Cluster(s, k, pts))
                           /\ pool = PoolOf(s, k, pts, snap) /\ size = SizeOf(s, k, pts)
  OBVIOUS
<1>2. PICK share, rest : share = pool \div size /\ rest = pool % size
  OBVIOUS
<1>3. x = PrizePoolForRange(1, i - 1, snap) + (k - i + 1) * share + rest
  BY <1>1, <1>2 DEF Handed
<1>4. /\ i \in Nat \ {0} /\ k \in Nat /\ i <= k /\ size = k - i + 1
      /\ pool = PrizePoolForRange(i, k, snap)
      /\ pool \in Nat /\ share \in Nat /\ rest \in Nat /\ size * share + rest = pool
  BY <1>1, <1>2, ClusterNumbers
<1>5. PICK h : h = i - 1
  OBVIOUS
<1>6. h \in Int /\ h + 1 = i /\ 1 <= h + 1 /\ h <= k
  BY <1>4, <1>5
<1>7. PrizePoolForRange(1, k, snap) = PrizePoolForRange(1, h, snap) + PrizePoolForRange(i, k, snap)
  <2>1. PrizePoolForRange(1, k, snap)
          = PrizePoolForRange(1, h, snap) + PrizePoolForRange(h + 1, k, snap)
    BY <1>4, <1>6, PoolsAdd
  <2> QED
    BY <1>6, <2>1
<1>8. PrizePoolForRange(1, h, snap) \in Nat
  BY <1>6, PoolsAreNaturals
<1>9. x = PrizePoolForRange(1, h, snap) + size * share + rest
  BY <1>3, <1>4, <1>5
<1>10. size * share \in Int
  BY <1>4
<1> QED
  BY <1>4, <1>7, <1>8, <1>9, <1>10

(* The next position has the same points and gets a share, or it begins a  *)
(* cluster.                                                                *)
LEMMA NextPosition ==
  ASSUME NEW S, NEW pts, Scored(S, pts), NEW snap \in PrizeSnapshot,
         NEW s, Sorts(s, S, pts), NEW k \in DOMAIN s, NEW l \in DOMAIN s, l = k + 1
  PROVE  \/ /\ Cluster(s, l, pts) = Cluster(s, k, pts)
            /\ l # Min(Cluster(s, l, pts))
         \/ /\ k = Max(Cluster(s, k, pts))
            /\ l = Min(Cluster(s, l, pts))
<1>1. PICK i, j, a, b : /\ i = Min(Cluster(s, k, pts)) /\ j = Max(Cluster(s, k, pts))
                        /\ a = Min(Cluster(s, l, pts)) /\ b = Max(Cluster(s, l, pts))
  OBVIOUS
<1>p. Cardinality(S) \in Nat /\ DOMAIN s = 1..Cardinality(S)
  BY FS_CardinalityType DEF Sorts, Scored
<1>2. /\ i \in Nat \ {0} /\ j \in Nat /\ k \in Nat /\ i <= k /\ k <= j
      /\ \A q \in DOMAIN s : pts[s[q]] = pts[s[k]] <=> q \in i..j
  <2>1. Stands(i, j, s, k, S, pts)
    BY <1>1, ClusterIsInterval
  <2> QED
    BY <1>p, <2>1 DEF Stands
<1>3. /\ a \in Nat \ {0} /\ b \in Nat /\ l \in Nat /\ a <= l /\ l <= b
      /\ \A q \in DOMAIN s : pts[s[q]] = pts[s[l]] <=> q \in a..b
  <2>1. Stands(a, b, s, l, S, pts)
    BY <1>1, ClusterIsInterval
  <2> QED
    BY <1>p, <2>1 DEF Stands
<1>4. CASE pts[s[l]] = pts[s[k]]
  <2>1. Cluster(s, l, pts) = Cluster(s, k, pts)
    BY <1>4 DEF Cluster
  <2>2. a = i
    BY <1>1, <2>1
  <2>3. l # a
    BY <1>2, <1>3, <2>2
  <2> QED
    BY <1>1, <2>1, <2>3
<1>5. CASE pts[s[l]] # pts[s[k]]
  <2>1. l \notin i..j /\ k \notin a..b
    BY <1>2, <1>3, <1>5
  <2>2. k = j /\ l = a
    BY <1>2, <1>3, <2>1
  <2> QED
    BY <1>1, <2>2
<1> QED
  BY <1>4, <1>5

(* The next position is handed what its cluster still has to give.         *)
LEMMA HandedOn ==
  ASSUME NEW S, NEW pts, Scored(S, pts), NEW snap \in PrizeSnapshot,
         NEW s, s = Sorted(S, pts), NEW A, A = AllocateWinnings(S, pts, snap),
         NEW k \in DOMAIN s, NEW l \in DOMAIN s, l = k + 1,
         NEW x, Handed(k, x, s, pts, snap)
  PROVE  Handed(l, x + A[l].amount, s, pts, snap)
<1>1. Sorts(s, S, pts) /\ Allocated(A, s, l, pts, snap)
  BY Allocation
<1>2. PICK i, pool, size : /\ i = Min(Cluster(s, l, pts))
                           /\ pool = PoolOf(s, l, pts, snap) /\ size = SizeOf(s, l, pts)
  OBVIOUS
<1>3. PICK share, rest : share = pool \div size /\ rest = pool % size
  OBVIOUS
<1>4. /\ l = i => A[l].amount = share + rest
      /\ l # i => A[l].amount = share
  BY <1>1, <1>2, <1>3, Zenon DEF Allocated
<1>5. /\ i \in Nat \ {0} /\ k \in Nat /\ l \in Nat /\ share \in Nat /\ rest \in Nat
  <2>1. i \in Nat \ {0} /\ l \in Nat /\ share \in Nat /\ rest \in Nat
    BY <1>1, <1>2, <1>3, ClusterNumbers
  <2>2. k \in Nat
    BY <1>1, FS_CardinalityType DEF Sorts, Scored
  <2> QED
    BY <2>1, <2>2
<1>6. SUFFICES x + A[l].amount = PrizePoolForRange(1, i - 1, snap) + (l - i + 1) * share + rest
  BY <1>2, <1>3 DEF Handed
<1>7. CASE Cluster(s, l, pts) = Cluster(s, k, pts) /\ l # i
  <2>1. PoolOf(s, k, pts, snap) = pool /\ SizeOf(s, k, pts) = size /\ Min(Cluster(s, k, pts)) = i
    BY <1>2, <1>7 DEF PoolOf, SizeOf
  <2>2. x = PrizePoolForRange(1, i - 1, snap) + (k - i + 1) * share + rest
    BY <1>3, <2>1 DEF Handed
  <2>3. PrizePoolForRange(1, i - 1, snap) \in Nat
    BY <1>5, PoolsAreNaturals
  <2>4. (k - i + 1) * share + share = (l - i + 1) * share
    <3>1. PICK z : z = k - i + 1
      OBVIOUS
    <3>2. z \in Int /\ l - i + 1 = z + 1
      BY <1>5, <3>1
    <3>3. z * share + share = (z + 1) * share
      BY <1>5, <3>2
    <3> QED
      BY <3>1, <3>2, <3>3
  <2>5. PICK y, z : y = (k - i + 1) * share /\ z = (l - i + 1) * share
    OBVIOUS
  <2>6. y \in Int /\ y + share = z
    <3>1. \A m \in Int : m * share \in Int
      BY <1>5
    <3>2. k - i + 1 \in Int
      BY <1>5
    <3> QED
      BY <2>4, <2>5, <3>1, <3>2
  <2>7. A[l].amount = share
    BY <1>4, <1>7
  <2>8. x = PrizePoolForRange(1, i - 1, snap) + y + rest
    BY <2>2, <2>5
  <2> QED
    BY <1>5, <2>3, <2>5, <2>6, <2>7, <2>8
<1>8. CASE k = Max(Cluster(s, k, pts)) /\ l = i
  <2>1. x = PrizePoolForRange(1, k, snap)
    BY <1>1, <1>8, PoolIsSpent
  <2>2. x \in Nat
    BY <1>5, <2>1, PoolsAreNaturals
  <2>3. i - 1 = k /\ l - i + 1 = 1
    BY <1>5, <1>8
  <2>4. A[l].amount = share + rest
    BY <1>4, <1>8
  <2> QED
    BY <1>5, <2>1, <2>2, <2>3, <2>4
<1> QED
  BY <1>1, <1>2, <1>7, <1>8, NextPosition

(* All entries together win the prizes of as many ranks, which is at most  *)
(* the pool.                                                               *)
LEMMA WinningsStayInPool ==
  ASSUME NEW S, NEW pts, Scored(S, pts), NEW snap \in PrizeSnapshot, ValidSlabs(snap),
         NEW w, \A e \in S : w[e] = Winnings(e, S, pts, snap)
  PROVE  /\ \A e \in S : w[e] \in Nat
         /\ SumOver(w, S) \in Nat /\ SumOver(w, S) <= snap.poolAmount
<1>0. IsFiniteSet(S) /\ S \subseteq Int
  BY DEF Scored
<1>1. PICK s, A, n : /\ s = Sorted(S, pts) /\ A = AllocateWinnings(S, pts, snap)
                     /\ n = Cardinality(S)
  OBVIOUS
<1>2. Sorts(s, S, pts) /\ DOMAIN A = DOMAIN s /\ \A p \in DOMAIN s : Allocated(A, s, p, pts, snap)
  BY <1>1, Allocation
<1>3. /\ n \in Nat /\ DOMAIN s = 1..n
      /\ \A p \in 1..n : s[p] \in S
      /\ \A e \in S : \E p \in 1..n : s[p] = e
  BY <1>0, <1>1, <1>2, FS_CardinalityType DEF Sorts
<1>4. \A p \in 1..n : A[p].amount = w[s[p]]
  <2> TAKE p \in 1..n
  <2>1. A[p].amount = Winnings(s[p], S, pts, snap)
    BY <1>1, <1>3, EachWins
  <2> QED
    BY <1>3, <2>1
<1>5. \A p \in 1..n : A[p].amount \in Nat
  BY <1>2, <1>3 DEF Allocated
<1>6. \A e \in S : w[e] \in Nat
  BY <1>3, <1>4, <1>5
<1>7. PICK h : Additive(h, w, S) /\ \A T \in SUBSET S : SumOver(w, T) = h[T]
  <2>1. \A e \in S : w[e] \in Int
    BY <1>6
  <2>2. IsFiniteSet(S)
    BY <1>0
  <2> QED
    BY <2>1, <2>2, Sums
<1>8. ASSUME NEW k \in 0..n
      PROVE  /\ Slice(s, 1, k) \in SUBSET S
             /\ k + 1 \in 1..n => /\ s[k + 1] \in S \ Slice(s, 1, k)
                                  /\ Slice(s, 1, k + 1) = Slice(s, 1, k) \cup {s[k + 1]}
  <2>1. k \in Nat /\ 1..k \subseteq 1..n
    BY <1>3
  <2>2. Slice(s, 1, k) \in SUBSET S
    BY <1>3, <2>1 DEF Slice
  <2>3. ASSUME k + 1 \in 1..n
        PROVE  s[k + 1] \notin Slice(s, 1, k)
    <3> SUFFICES ASSUME NEW q \in 1..k, s[q] = s[k + 1] PROVE FALSE
      BY DEF Slice
    <3>1. q \in 1..n /\ q < k + 1
      BY <2>1
    <3>2. Before(s[q], s[k + 1], pts)
      BY <1>2, <1>3, <2>3, <3>1 DEF Sorts
    <3>3. s[k + 1] \in Int /\ pts[s[k + 1]] \in Int
      BY <1>0, <1>3, <2>3 DEF Scored
    <3> QED
      BY <3>2, <3>3 DEF Before
  <2>4. 1..(k + 1) = (1..k) \cup {k + 1}
    BY <2>1
  <2>5. Slice(s, 1, k + 1) = Slice(s, 1, k) \cup {s[k + 1]}
    BY <2>4, Zenon DEF Slice
  <2> QED
    BY <1>3, <2>2, <2>3, <2>5
<1> DEFINE x(k) == h[Slice(s, 1, k)]
           P == {k \in 0..n : k = 0 \/ Handed(k, x(k), s, pts, snap)}
<1>9. x(0) = 0
  <2>1. Slice(s, 1, 0) = {}
    BY DEF Slice
  <2> QED
    BY <1>7, <2>1 DEF Additive
<1>10. ASSUME NEW k \in 0..n, k < n
       PROVE  k + 1 \in 1..n /\ x(k + 1) = x(k) + A[k + 1].amount
  <2>1. k + 1 \in 1..n /\ k \in Nat
    BY <1>3, <1>10
  <2>2. PICK T, e : T = Slice(s, 1, k) /\ e = s[k + 1]
    OBVIOUS
  <2>3. T \in SUBSET S /\ e \in S \ T /\ Slice(s, 1, k + 1) = T \cup {e}
    BY <1>8, <2>1, <2>2
  <2>4. h[T \cup {e}] = w[e] + h[T] /\ h[T] \in Int
    BY <1>7, <2>3 DEF Additive
  <2>5. w[e] = A[k + 1].amount /\ w[e] \in Int
    BY <1>4, <1>5, <2>1, <2>2
  <2>6. x(k) = h[T] /\ x(k + 1) = h[T \cup {e}]
    BY <2>2, <2>3
  <2> HIDE DEF x
  <2> QED
    BY <2>1, <2>4, <2>5, <2>6
<1>11. ASSUME NEW k \in P, k < n
       PROVE  k + 1 \in P
  <2>1. k \in 0..n /\ (k = 0 \/ Handed(k, x(k), s, pts, snap))
    OBVIOUS
  <2>2. k + 1 \in 1..n /\ x(k + 1) = x(k) + A[k + 1].amount
    BY <1>10, <1>11, <2>1
  <2> HIDE DEF x
  <2>3. PICK l : l = k + 1
    OBVIOUS
  <2>4. l \in 1..n /\ x(l) = x(k) + A[l].amount
    BY <2>2, <2>3
  <2>5. CASE k # 0
    <3>1. k \in 1..n
      BY <1>3, <2>1, <2>5
    <3>2. Handed(l, x(k) + A[l].amount, s, pts, snap)
      BY <1>1, <1>3, <2>1, <2>3, <2>4, <2>5, <3>1, HandedOn
    <3>3. Handed(l, x(l), s, pts, snap)
      BY <2>4, <3>2
    <3> QED
      BY <2>3, <2>4, <3>3
  <2>6. CASE k = 0
    <3>1. l = 1 /\ x(l) = A[l].amount
      BY <1>5, <1>9, <2>3, <2>4, <2>6
    <3>2. PICK i, j, pool, size : /\ i = Min(Cluster(s, l, pts)) /\ j = Max(Cluster(s, l, pts))
                                  /\ pool = PoolOf(s, l, pts, snap) /\ size = SizeOf(s, l, pts)
      OBVIOUS
    <3>3. PICK share, rest : share = pool \div size /\ rest = pool % size
      OBVIOUS
    <3>4. i = l /\ share \in Nat /\ rest \in Nat
      <4>1. i \in Nat \ {0} /\ i <= l /\ share \in Nat /\ rest \in Nat
        BY <1>2, <1>3, <2>4, <3>2, <3>3, ClusterNumbers
      <4> QED
        BY <3>1, <4>1
    <3>5. A[l].amount = share + rest
      <4>1. Allocated(A, s, l, pts, snap)
        BY <1>2, <1>3, <2>4
      <4> QED
        BY <3>2, <3>3, <3>4, <4>1, Zenon DEF Allocated
    <3>6. PrizePoolForRange(1, i - 1, snap) = 0
      <4>1. i - 1 = 0 /\ 1..0 = {}
        BY <3>1, <3>4
      <4>2. PrizePoolForRange(1, 0, snap) = SumOver(Prizes(snap), {})
        BY <4>1, PoolIsSum
      <4> QED
        BY <4>1, <4>2, SumEmpty
    <3>7. x(l) = PrizePoolForRange(1, i - 1, snap) + (l - i + 1) * share + rest
      BY <3>1, <3>4, <3>5, <3>6
    <3>8. Handed(l, x(l), s, pts, snap)
      BY <3>2, <3>3, <3>7 DEF Handed
    <3> QED
      BY <2>3, <2>4, <3>8
  <2> QED
    BY <2>5, <2>6
<1>12. n \in P
  <2>1. 0 \in P /\ P \in SUBSET Nat
    BY <1>3
  <2> HIDE DEF P
  <2> QED
    BY <1>3, <1>11, <2>1, UpTo
<1>13. S = Slice(s, 1, n)
  BY <1>3 DEF Slice
<1>14. SumOver(w, S) = x(n)
  BY <1>7, <1>13
<1>15. SumOver(w, S) \in Nat
  BY <1>0, <1>6, SumOfNats
<1>16. snap.poolAmount \in Nat
  BY DEF PrizeSnapshot
<1>17. CASE n = 0
  BY <1>6, <1>9, <1>14, <1>15, <1>16, <1>17
<1>18. CASE n # 0
  <2>1. n \in DOMAIN s /\ Handed(n, x(n), s, pts, snap)
    BY <1>3, <1>12, <1>18
  <2>2. n = Max(Cluster(s, n, pts))
    <3>1. PICK i, j, pool, size : /\ i = Min(Cluster(s, n, pts)) /\ j = Max(Cluster(s, n, pts))
                                  /\ pool = PoolOf(s, n, pts, snap) /\ size = SizeOf(s, n, pts)
      OBVIOUS
    <3>2. j \in Nat /\ n <= j /\ j <= n
      BY <1>1, <1>2, <2>1, <3>1, ClusterNumbers
    <3> QED
      BY <1>3, <3>1, <3>2
  <2> HIDE DEF x, P
  <2>3. x(n) = PrizePoolForRange(1, n, snap)
    BY <1>2, <2>1, <2>2, PoolIsSpent
  <2>4. PrizePoolForRange(1, n, snap) <= snap.poolAmount
    BY <1>3, LadderStaysInPool
  <2> QED
    BY <1>6, <1>14, <1>15, <2>3, <2>4
<1> QED
  BY <1>17, <1>18

-----------------------------------------------------------------------------
(* The claim is a lock, and the winnings that are shown were credited.     *)

(* Until a result is reset, the run that pays is the one whose token is in *)
(* the result, which is then IN_PROGRESS.                                  *)
RunnerHoldsClaim ==
  resets = 0 =>
    \A h \in Handlers :
      /\ call[h].at # "reset"
      /\ Runs(h) => result.status = "IN_PROGRESS" /\ result.token = h

(* What the variables of the claim look like.                              *)
Shape ==
  /\ call = [h \in Handlers |-> call[h]]
  /\ \A h \in Handlers : "at" \in DOMAIN call[h]
  /\ result = [status |-> result.status, token |-> result.token, paid |-> result.paid]
  /\ resets \in Nat

IInv == Shape /\ RunnerHoldsClaim

-----------------------------------------------------------------------------
(* Initially no call runs, and the result is free.                         *)
LEMMA InitEstablishes == Init => IInv
BY DEF Init, IInv, Shape, RunnerHoldsClaim, Idle, Runs, Running, InTry

(* A step of one call that does not touch the result: it runs only if it   *)
(* did so before.                                                          *)
LEMMA CallStep ==
  ASSUME IInv, NEW h \in Handlers, NEW c, "at" \in DOMAIN c,
         call' = [call EXCEPT ![h] = c], result' = result, resets' = resets,
         c.at \in Running => Runs(h), c.at # "reset"
  PROVE  IInv'
<1>1. /\ call' = [g \in Handlers |-> call'[g]]
      /\ \A g \in Handlers : call'[g] = IF g = h THEN c ELSE call[g]
  BY DEF IInv, Shape
<1>2. Shape'
  BY <1>1 DEF IInv, Shape
<1>3. RunnerHoldsClaim'
  BY <1>1 DEF IInv, RunnerHoldsClaim, Runs
<1> QED
  BY <1>2, <1>3 DEF IInv

(* A call that ends, with the result as it was.                            *)
LEMMA ReturnStep ==
  ASSUME IInv, NEW h \in Handlers, Return(h), result' = result, resets' = resets
  PROVE  IInv'
<1>1. "at" \in DOMAIN Idle /\ Idle.at \notin Running /\ Idle.at # "reset"
  BY DEF Idle, Running, InTry
<1>2. call' = [call EXCEPT ![h] = Idle]
  BY DEF Return
<1> QED
  BY <1>1, <1>2, CallStep

(* A call that goes on, with the result as it was.                         *)
LEMMA GotoStep ==
  ASSUME IInv, NEW h \in Handlers, NEW step, Goto(h, step),
         result' = result, resets' = resets,
         step \in Running => Runs(h), step # "reset"
  PROVE  IInv'
<1> DEFINE c == [call[h] EXCEPT !.at = step]
<1>1. "at" \in DOMAIN c /\ c.at = step
  BY DEF IInv, Shape
<1>2. call' = [call EXCEPT ![h] = c]
  BY DEF Goto, IInv, Shape
<1> HIDE DEF c
<1> QED
  BY <1>1, <1>2, CallStep

(* A run that ends records it, if the result has its token.                *)
LEMMA FinalStep ==
  ASSUME IInv, NEW h \in Handlers, Runs(h), NEW status, NEW paid,
         result' = Finalised(h, status, paid), Return(h), resets' = resets
  PROVE  IInv'
<1>1. /\ call' = [g \in Handlers |-> call'[g]]
      /\ \A g \in Handlers : call'[g] = IF g = h THEN Idle ELSE call[g]
      /\ "at" \in DOMAIN Idle /\ Idle.at \notin Running /\ Idle.at # "reset"
  BY DEF IInv, Shape, Return, Idle, Running, InTry
<1>2. Shape'
  <2>1. result' = [status |-> result'.status, token |-> result'.token, paid |-> result'.paid]
    BY DEF IInv, Shape, Finalised
  <2> QED
    BY <1>1, <2>1 DEF IInv, Shape
<1>3. RunnerHoldsClaim'
  <2> SUFFICES ASSUME resets = 0, NEW g \in Handlers
               PROVE  /\ call'[g].at # "reset"
                      /\ ~(call'[g].at \in Running)
    BY DEF RunnerHoldsClaim, Runs
  <2>1. CASE g = h
    BY <1>1, <2>1
  <2>2. CASE g # h
    BY <1>1, <2>2 DEF IInv, RunnerHoldsClaim, Runs
  <2> QED
    BY <2>1, <2>2
<1> QED
  BY <1>2, <1>3 DEF IInv

(* The claim succeeds only when nothing runs.                              *)
LEMMA ClaimStep ==
  ASSUME IInv, NEW h \in Handlers, ClaimForSettlement(h)
  PROVE  IInv'
<1>1. resets' = resets /\ call[h].at = "claim"
  BY DEF ClaimForSettlement, At
<1>2. CASE result.status \in {"none", "NOT_STARTED", "FAILED"}
  <2> DEFINE c == [call[h] EXCEPT !.at = "load"]
  <2>1. /\ result' = [result EXCEPT !.status = "IN_PROGRESS", !.token = h]
        /\ Goto(h, "load")
    BY <1>2 DEF ClaimForSettlement
  <2>2. "at" \in DOMAIN c /\ c.at = "load"
    BY DEF IInv, Shape
  <2>3. call' = [call EXCEPT ![h] = c]
    BY <2>1 DEF Goto, IInv, Shape
  <2> HIDE DEF c
  <2>4. /\ call' = [g \in Handlers |-> call'[g]]
        /\ \A g \in Handlers : call'[g] = IF g = h THEN c ELSE call[g]
    BY <2>3 DEF IInv, Shape
  <2>5. /\ result' = [status |-> result'.status, token |-> result'.token,
                      paid |-> result'.paid]
        /\ result'.status = "IN_PROGRESS" /\ result'.token = h
    BY <2>1 DEF IInv, Shape
  <2>6. Shape'
    BY <1>1, <2>2, <2>4, <2>5 DEF IInv, Shape
  <2>7. RunnerHoldsClaim'
    <3> SUFFICES ASSUME resets = 0, NEW g \in Handlers
                 PROVE  /\ call'[g].at # "reset"
                        /\ call'[g].at \in Running => g = h
      BY <1>1, <2>5 DEF RunnerHoldsClaim, Runs
    <3>1. CASE g = h
      BY <2>2, <2>4, <3>1
    <3>2. CASE g # h
      BY <1>2, <2>4, <3>2 DEF IInv, RunnerHoldsClaim, Runs
    <3> QED
      BY <3>1, <3>2
  <2> QED
    BY <2>6, <2>7 DEF IInv
<1>3. CASE result.status \notin {"none", "NOT_STARTED", "FAILED"}
  BY <1>1, <1>3, ReturnStep DEF ClaimForSettlement
<1> QED
  BY <1>2, <1>3

-----------------------------------------------------------------------------
(* The transitions and the cancellation run nothing.                       *)
LEMMA CancelPreserves ==
  ASSUME IInv, CancelNext, UNCHANGED settlementVars
  PROVE  IInv'
<1>0. result' = result /\ resets' = resets
  BY DEF settlementVars
<1>1. ASSUME NEW target \in Statuses, TransitionStatus(target)
      PROVE  IInv'
  BY <1>0, <1>1 DEF TransitionStatus, IInv, Shape, RunnerHoldsClaim, Runs
<1>2. ASSUME NEW h \in Handlers, CancelContest(h)
      PROVE  IInv'
  <2> DEFINE c == [at |-> "sweep", todo |-> {}]
  <2>1. call' = [call EXCEPT ![h] = c]
    BY <1>2 DEF CancelContest, Start
  <2>2. "at" \in DOMAIN c /\ c.at \notin Running /\ c.at # "reset"
    BY DEF Running, InTry
  <2> HIDE DEF c
  <2> QED
    BY <1>0, <2>1, <2>2, CallStep
<1>3. ASSUME NEW h \in Handlers, FindActiveForContest(h)
      PROVE  IInv'
  <2> DEFINE c == [at |-> "refund", todo |-> Active]
  <2>1. call' = [call EXCEPT ![h] = c]
    BY <1>3 DEF FindActiveForContest
  <2>2. "at" \in DOMAIN c /\ c.at \notin Running /\ c.at # "reset"
    BY DEF Running, InTry
  <2> HIDE DEF c
  <2> QED
    BY <1>0, <2>1, <2>2, CallStep
<1>4. ASSUME NEW h \in Handlers, MarkRefunded(h)
      PROVE  IInv'
  <2> PICK e \in call[h].todo :
        call' = [call EXCEPT ![h] = [at |-> "refund", todo |-> @.todo \ {e}]]
    BY <1>4 DEF MarkRefunded
  <2> DEFINE c == [at |-> "refund", todo |-> call[h].todo \ {e}]
  <2>1. call' = [call EXCEPT ![h] = c]
    BY DEF IInv, Shape
  <2>2. "at" \in DOMAIN c /\ c.at \notin Running /\ c.at # "reset"
    BY DEF Running, InTry
  <2> HIDE DEF c
  <2> QED
    BY <1>0, <2>1, <2>2, CallStep
<1>5. ASSUME NEW h \in Handlers, RefundEntry(h)
      PROVE  IInv'
  <2>1. Return(h) \/ Goto(h, "markRefunded")
    BY <1>5 DEF RefundEntry
  <2> QED
    BY <1>0, <2>1, ReturnStep, GotoStep DEF Running, InTry
<1>6. ASSUME NEW h \in Handlers, SaveCapacity(h) \/ SweepEnds(h) \/ LifecycleFault(h)
      PROVE  IInv'
  <2>1. Return(h)
    BY <1>6 DEF SaveCapacity, SweepEnds, LifecycleFault
  <2> QED
    BY <1>0, <2>1, ReturnStep
<1> QED
  BY <1>1, <1>2, <1>3, <1>4, <1>5, <1>6 DEF CancelNext, LifecycleStep

(* The steps of a settlement keep the claim a lock.                        *)
LEMMA SettlePreserves ==
  ASSUME IInv, NEW h \in Handlers, NEW force,
         SettleContest(h, force) \/ SettleStep(h) \/ ResetForRetry(h) \/ Fault(h) \/ Crash(h)
  PROVE  IInv'
<1>0. /\ call = [g \in Handlers |-> call[g]] /\ "at" \in DOMAIN call[h]
      /\ resets \in Nat
  BY DEF IInv, Shape
<1>1. CASE SettleContest(h, force)
  <2> DEFINE c == [at |-> "count", seen |-> contest.status, count |-> 0,
                   todo |-> <<>>, paid |-> 0]
  <2>1. call' = [call EXCEPT ![h] = c] /\ result' = result /\ resets' = resets
    BY <1>1 DEF SettleContest, Start, settlementVars
  <2>2. "at" \in DOMAIN c /\ c.at \notin Running /\ c.at # "reset"
    BY DEF Running, InTry
  <2> HIDE DEF c
  <2> QED
    BY <2>1, <2>2, CallStep
<1>2. CASE CountActive(h)
  <2>1. result' = result /\ resets' = resets
    BY <1>2 DEF CountActive, settlementVars
  <2>2. CASE Return(h)
    BY <2>1, <2>2, ReturnStep
  <2>3. CASE ~Return(h)
    <3> DEFINE c == [call[h] EXCEPT !.at = "claim", !.count = Cardinality(Active)]
    <3>1. call' = [call EXCEPT ![h] = c]
      BY <1>0, <1>2, <2>3 DEF CountActive
    <3>2. "at" \in DOMAIN c /\ c.at = "claim"
      BY <1>0
    <3> HIDE DEF c
    <3> QED
      BY <2>1, <3>1, <3>2, CallStep DEF Running, InTry
  <2> QED
    BY <2>2, <2>3
<1>3. CASE ClaimForSettlement(h)
  BY <1>3, ClaimStep
<1>4. CASE LoadEntries(h)
  <2> DEFINE q == AllocateWinnings(Active, points', snapshot)
             c == [call[h] EXCEPT !.at = "pay", !.todo = q]
  <2>1. /\ call[h].at = "load" /\ result' = result /\ resets' = resets
        /\ call' = [call EXCEPT ![h].at = "pay", ![h].todo = q]
    BY <1>4 DEF LoadEntries, At
  <2> HIDE DEF q
  <2>2. call' = [call EXCEPT ![h] = c] /\ "at" \in DOMAIN c /\ c.at = "pay"
    BY <1>0, <2>1
  <2> HIDE DEF c
  <2> QED
    BY <2>1, <2>2, CallStep DEF Runs, Running, InTry
<1>5. CASE CreditWinning(h)
  <2>1. call[h].at = "pay" /\ result' = result /\ resets' = resets
    BY <1>5 DEF CreditWinning, At
  <2>2. CASE Goto(h, "mark")
    BY <2>1, <2>2, GotoStep DEF Runs, Running, InTry
  <2>3. CASE ~Goto(h, "mark")
    <3> DEFINE a == Head(call[h].todo)
               c == [call[h] EXCEPT !.at = "mark", !.paid = @ + a.amount]
    <3>1. call' = [call EXCEPT ![h] = c]
      BY <1>0, <1>5, <2>3 DEF CreditWinning
    <3>2. "at" \in DOMAIN c /\ c.at = "mark"
      BY <1>0
    <3> HIDE DEF c
    <3> QED
      BY <2>1, <3>1, <3>2, CallStep DEF Runs, Running, InTry
  <2> QED
    BY <2>2, <2>3
<1>6. CASE MarkSettled(h)
  <2> DEFINE c == [call[h] EXCEPT !.at = "pay", !.todo = Tail(@)]
  <2>1. call[h].at = "mark" /\ result' = result /\ resets' = resets
    BY <1>6 DEF MarkSettled, At, settlementVars
  <2>2. call' = [call EXCEPT ![h] = c] /\ "at" \in DOMAIN c /\ c.at = "pay"
    BY <1>0, <1>6 DEF MarkSettled
  <2> HIDE DEF c
  <2> QED
    BY <2>1, <2>2, CallStep DEF Runs, Running, InTry
<1>7. CASE CreditConflicts(h) \/ RebuildLeaderboard(h) \/ CompleteContest(h) \/ Fault(h)
  <2>1. /\ Runs(h) /\ result' = result /\ resets' = resets
        /\ \E step \in {"catch", "complete", "finalise"} : Goto(h, step)
    BY <1>7 DEF CreditConflicts, RebuildLeaderboard, CompleteContest, Fault, At, Runs,
       Running, InTry, settlementVars
  <2> QED
    BY <2>1, GotoStep DEF Running, InTry
<1>8. CASE Skip(h) \/ Finalise(h) \/ FinaliseFailed(h)
  <2>1. /\ Runs(h) /\ Return(h) /\ resets' = resets
        /\ \E status, paid : result' = Finalised(h, status, paid)
    BY <1>8 DEF Skip, Finalise, FinaliseFailed, At, Runs, Running, InTry
  <2> QED
    BY <2>1, FinalStep
<1>9. CASE SaveReset(h)
  <2>1. /\ result' = [result EXCEPT !.status = "NOT_STARTED", !.token = Nobody]
        /\ call' = [call EXCEPT ![h] = Idle] /\ resets' = resets /\ call[h].at = "reset"
    BY <1>9 DEF SaveReset, Return, At
  <2>2. resets # 0
    BY <2>1 DEF IInv, RunnerHoldsClaim
  <2>3. /\ call' = [g \in Handlers |-> call'[g]]
        /\ \A g \in Handlers : "at" \in DOMAIN call'[g]
    BY <2>1 DEF IInv, Shape, Idle
  <2>4. result' = [status |-> result'.status, token |-> result'.token, paid |-> result'.paid]
    BY <2>1 DEF IInv, Shape
  <2> QED
    BY <1>0, <2>1, <2>2, <2>3, <2>4 DEF IInv, Shape, RunnerHoldsClaim
<1>10. CASE ResetForRetry(h)
  <2>1. /\ resets' = resets + 1 /\ result' = result
        /\ call' = [call EXCEPT ![h] = [at |-> "reset"]]
    BY <1>10 DEF ResetForRetry, Start
  <2>2. /\ call' = [g \in Handlers |-> call'[g]]
        /\ \A g \in Handlers : "at" \in DOMAIN call'[g]
    BY <2>1 DEF IInv, Shape
  <2>3. resets' \in Nat /\ resets' # 0
    BY <1>0, <2>1
  <2> QED
    BY <2>1, <2>2, <2>3 DEF IInv, Shape, RunnerHoldsClaim
<1>11. CASE Crash(h)
  BY <1>11, ReturnStep DEF Crash
<1> QED
  BY <1>1, <1>2, <1>3, <1>4, <1>5, <1>6, <1>7, <1>8, <1>9, <1>10, <1>11 DEF SettleStep

(* So does every step.                                                     *)
LEMMA Preserves ==
  ASSUME IInv, [Next]_vars
  PROVE  IInv'
<1>1. CASE CancelNext /\ UNCHANGED settlementVars
  BY <1>1, CancelPreserves
<1>2. CASE \E h \in Handlers, force \in BOOLEAN : SettleContest(h, force)
  BY <1>2, SettlePreserves
<1>3. CASE \E h \in Handlers : SettleStep(h) \/ ResetForRetry(h) \/ Fault(h) \/ Crash(h)
  BY <1>3, SettlePreserves
<1>4. CASE UNCHANGED vars
  BY <1>4 DEF vars, settlementVars, IInv, Shape, RunnerHoldsClaim, Runs
<1> QED
  BY <1>1, <1>2, <1>3, <1>4 DEF Next

-----------------------------------------------------------------------------
(* Of all the runs of a settlement one pays at a time, until an            *)
(* administrator resets the result (SingleRunner).                         *)
THEOREM OneRunPays == Spec => []SingleRunner
<1>1. Init => IInv
  BY InitEstablishes
<1>2. IInv /\ [Next]_vars => IInv'
  BY Preserves
<1>3. IInv => SingleRunner
  <2> SUFFICES ASSUME IInv, resets = 0
               PROVE  Cardinality({h \in Handlers : Runs(h)}) <= 1
    BY DEF SingleRunner
  <2>1. {h \in Handlers : Runs(h)} \subseteq {result.token}
    BY DEF IInv, RunnerHoldsClaim
  <2>2. IsFiniteSet({result.token}) /\ Cardinality({result.token}) = 1
    BY FS_Singleton
  <2> QED
    BY <2>1, <2>2, FS_Subset
<1> QED
  BY <1>1, <1>2, <1>3, PTL DEF Spec

-----------------------------------------------------------------------------
(* What an entry shows.  A run marks an entry only after it has credited   *)
(* it, and a credit is never changed: not by a retry, not by another run   *)
(* that a reset has let in.                                                *)
SettleFields == {"at", "seen", "count", "todo", "paid"}

(* A winning that an entry shows is what its wallet was credited.          *)
ShownIsCredited ==
  \A e \in Entries : entry[e].winning > 0 => credited[e] = entry[e].winning

(* The call that is about to mark has credited.                            *)
HasCredited(h) ==
  call[h].at = "mark" =>
    LET a == Head(call[h].todo)
    IN  Pays(a) /\ a.entry \in Entries => credited[a.entry] = a.amount

(* A run has the fields of a run.                                          *)
SettleShape(c) == c.at \in SettleSteps => DOMAIN c = SettleFields

(* The invariant of WinningsWereCredited.                                  *)
CreditInv ==
  /\ call = [h \in Handlers |-> call[h]]
  /\ \A h \in Handlers : SettleShape(call[h]) /\ "at" \in DOMAIN call[h] /\ HasCredited(h)
  /\ entry = [e \in Entries |-> entry[e]] /\ DOMAIN credited = Entries
  /\ \A e \in Entries : DOMAIN entry[e] = {"user", "status", "rank", "winning"}
  /\ ShownIsCredited

(* A step of a call that credits nothing and does not come to the mark.    *)
SameWinnings ==
  /\ entry' = [e \in Entries |-> entry'[e]]
  /\ \A e \in Entries : DOMAIN entry'[e] = DOMAIN entry[e] /\ entry'[e].winning = entry[e].winning

(* A step that leaves entries, credits and the snapshot alone, and makes   *)
(* no call pay or mark.                                                    *)
LEMMA CreditFrame ==
  ASSUME CreditInv, NEW h \in Handlers, NEW c, call' = [call EXCEPT ![h] = c],
         SettleShape(c), "at" \in DOMAIN c, c.at # "mark",
         credited' = credited, snapshot' = snapshot, SameWinnings
  PROVE  CreditInv'
<1>1. /\ call' = [g \in Handlers |-> call'[g]]
      /\ \A g \in Handlers : call'[g] = IF g = h THEN c ELSE call[g]
  BY DEF CreditInv
<1>2. \A g \in Handlers : SettleShape(call'[g]) /\ "at" \in DOMAIN call'[g]
  BY <1>1 DEF CreditInv
<1>3. ASSUME NEW g \in Handlers PROVE HasCredited(g)'
  <2>1. CASE g = h
    BY <1>1, <2>1 DEF HasCredited
  <2>2. CASE g # h
    <3>1. call'[g] = call[g] /\ HasCredited(g)
      BY <1>1, <2>2 DEF CreditInv
    <3> QED
      BY <3>1 DEF HasCredited, Pays
  <2> QED
    BY <2>1, <2>2
<1>4. ShownIsCredited'
  BY DEF CreditInv, ShownIsCredited, SameWinnings
<1>5. \A g \in Handlers : SettleShape(call[g])'
  BY <1>2 DEF SettleShape
<1>6. /\ entry' = [e \in Entries |-> entry'[e]] /\ DOMAIN credited' = Entries
      /\ \A e \in Entries : DOMAIN entry'[e] = {"user", "status", "rank", "winning"}
  BY DEF CreditInv, SameWinnings
<1> QED
  BY <1>1, <1>2, <1>3, <1>4, <1>5, <1>6 DEF CreditInv

(* A step that keeps all of it.                                            *)
LEMMA SameEntries ==
  ASSUME CreditInv, entry' = entry
  PROVE  SameWinnings
BY DEF CreditInv, SameWinnings

(* A call that has ended.                                                  *)
LEMMA IdleShape ==
  SettleShape(Idle) /\ "at" \in DOMAIN Idle /\ Idle.at # "mark"
BY DEF SettleShape, Idle, SettleSteps, Running, InTry

(* A call that goes on to another step.                                    *)
LEMMA CreditGoto ==
  ASSUME CreditInv, NEW h \in Handlers, NEW step, Goto(h, step), step # "mark",
         step \in SettleSteps => call[h].at \in SettleSteps,
         credited' = credited, snapshot' = snapshot, entry' = entry
  PROVE  CreditInv'
<1> DEFINE c == [call[h] EXCEPT !.at = step]
<1>1. "at" \in DOMAIN c /\ c.at = step /\ DOMAIN c = DOMAIN call[h]
  BY DEF CreditInv
<1>2. call' = [call EXCEPT ![h] = c]
  BY DEF Goto, CreditInv
<1> HIDE DEF c
<1>3. SettleShape(c)
  BY <1>1 DEF SettleShape, CreditInv
<1> QED
  BY <1>1, <1>2, <1>3, CreditFrame, SameEntries

(* The transitions and the cancellation.                                   *)
LEMMA CancelKeepsCredits ==
  ASSUME CreditInv, CancelNext, UNCHANGED settlementVars
  PROVE  CreditInv'
<1>0. credited' = credited /\ snapshot' = snapshot
  BY DEF settlementVars
<1> USE DEF SettleSteps, Running, InTry
<1>1. ASSUME NEW target \in Statuses, TransitionStatus(target) PROVE CreditInv'
  <2>1. call' = call /\ entry' = entry
    BY <1>1 DEF TransitionStatus
  <2> QED
    BY <1>0, <2>1 DEF CreditInv, SettleShape, HasCredited, ShownIsCredited, Pays
<1>2. ASSUME NEW h \in Handlers, CancelContest(h) PROVE CreditInv'
  <2>1. PICK c : c = [at |-> "sweep", todo |-> {}]
    OBVIOUS
  <2>2. call' = [call EXCEPT ![h] = c] /\ entry' = entry
    BY <1>2, <2>1 DEF CancelContest, Start
  <2>3. SettleShape(c) /\ "at" \in DOMAIN c /\ c.at # "mark"
    BY <2>1 DEF SettleShape
  <2> QED
    BY <1>0, <2>2, <2>3, CreditFrame, SameEntries
<1>3. ASSUME NEW h \in Handlers, FindActiveForContest(h) PROVE CreditInv'
  <2>1. PICK c : c = [at |-> "refund", todo |-> Active]
    OBVIOUS
  <2>2. call' = [call EXCEPT ![h] = c] /\ entry' = entry
    BY <1>3, <2>1 DEF FindActiveForContest
  <2>3. SettleShape(c) /\ "at" \in DOMAIN c /\ c.at # "mark"
    BY <2>1 DEF SettleShape
  <2> QED
    BY <1>0, <2>2, <2>3, CreditFrame, SameEntries
<1>4. ASSUME NEW h \in Handlers, MarkRefunded(h) PROVE CreditInv'
  <2>1. PICK e \in call[h].todo :
          /\ entry' = [entry EXCEPT ![e].status = "REFUNDED"]
          /\ call' = [call EXCEPT ![h] = [at |-> "refund", todo |-> @.todo \ {e}]]
    BY <1>4 DEF MarkRefunded
  <2>2. PICK c : c = [at |-> "refund", todo |-> call[h].todo \ {e}]
    OBVIOUS
  <2>3. call' = [call EXCEPT ![h] = c]
    BY <2>1, <2>2 DEF CreditInv
  <2>4. SettleShape(c) /\ "at" \in DOMAIN c /\ c.at # "mark"
    BY <2>2 DEF SettleShape
  <2>5. SameWinnings
    BY <2>1 DEF CreditInv, SameWinnings
  <2> QED
    BY <1>0, <2>3, <2>4, <2>5, CreditFrame
<1>5. ASSUME NEW h \in Handlers, RefundEntry(h) PROVE CreditInv'
  <2>1. entry' = entry /\ (Return(h) \/ Goto(h, "markRefunded"))
    BY <1>5 DEF RefundEntry
  <2>2. CASE Return(h)
    BY <1>0, <2>1, <2>2, IdleShape, CreditFrame, SameEntries DEF Return
  <2>3. CASE Goto(h, "markRefunded")
    BY <1>0, <2>1, <2>3, CreditGoto
  <2> QED
    BY <2>1, <2>2, <2>3
<1>6. ASSUME NEW h \in Handlers, SaveCapacity(h) \/ SweepEnds(h) \/ LifecycleFault(h)
      PROVE CreditInv'
  <2>1. entry' = entry /\ Return(h)
    BY <1>6 DEF SaveCapacity, SweepEnds, LifecycleFault
  <2> QED
    BY <1>0, <2>1, IdleShape, CreditFrame, SameEntries DEF Return
<1> QED
  BY <1>1, <1>2, <1>3, <1>4, <1>5, <1>6 DEF CancelNext, LifecycleStep

(* A credit goes on to the mark, with the same queue.                      *)
LEMMA CreditCalls ==
  ASSUME CreditInv, NEW h \in Handlers, CreditWinning(h)
  PROVE  /\ call' = [g \in Handlers |-> call'[g]]
         /\ \A g \in Handlers : g # h => call'[g] = call[g]
         /\ call'[h].at = "mark" /\ call'[h].todo = call[h].todo
         /\ DOMAIN call'[h] = SettleFields
<1> DEFINE a == Head(call[h].todo)
<1>1. DOMAIN call[h] = SettleFields
  BY DEF CreditWinning, At, CreditInv, SettleShape, SettleSteps, Running, InTry
<1>2. PICK c : /\ call' = [call EXCEPT ![h] = c]
               /\ c.at = "mark" /\ c.todo = call[h].todo /\ DOMAIN c = SettleFields
  <2>1. CASE Pays(a)
    <3>1. PICK c : c = [call[h] EXCEPT !.at = "mark", !.paid = @ + a.amount]
      OBVIOUS
    <3>2. call' = [call EXCEPT ![h] = c]
      BY <2>1, <3>1 DEF CreditWinning, CreditInv
    <3>3. c.at = "mark" /\ c.todo = call[h].todo /\ DOMAIN c = SettleFields
      BY <1>1, <3>1 DEF SettleFields
    <3> QED
      BY <3>2, <3>3
  <2>2. CASE ~Pays(a)
    <3>1. PICK c : c = [call[h] EXCEPT !.at = "mark"]
      OBVIOUS
    <3>2. call' = [call EXCEPT ![h] = c]
      BY <2>2, <3>1 DEF CreditWinning, CreditInv, Goto
    <3>3. c.at = "mark" /\ c.todo = call[h].todo /\ DOMAIN c = SettleFields
      BY <1>1, <3>1 DEF SettleFields
    <3> QED
      BY <3>2, <3>3
  <2> QED
    BY <2>1, <2>2
<1> QED
  BY <1>2 DEF CreditInv

(* A credit is given to an entry that has none, which then shows nothing.  *)
LEMMA CreditKeeps ==
  ASSUME CreditInv, NEW h \in Handlers, CreditWinning(h)
  PROVE  CreditInv'
<1> DEFINE a == Head(call[h].todo)
<1>1. /\ call[h].at = "pay" /\ entry' = entry /\ snapshot' = snapshot
      /\ "at" \in DOMAIN call[h] /\ DOMAIN call[h] = SettleFields
  BY DEF CreditWinning, At, CreditInv, SettleShape, SettleSteps, Running, InTry
<1>2. /\ call' = [g \in Handlers |-> call'[g]]
      /\ \A g \in Handlers : g # h => call'[g] = call[g]
      /\ call'[h].at = "mark" /\ call'[h].todo = call[h].todo
      /\ DOMAIN call'[h] = SettleFields
  BY CreditCalls
<1>3. /\ DOMAIN credited' = Entries
      /\ \A e \in Entries : credited[e] # NotPosted => credited'[e] = credited[e]
      /\ Pays(a) /\ a.entry \in Entries => credited'[a.entry] = a.amount
  <2>1. CASE Pays(a)
    BY <2>1 DEF CreditWinning, CreditInv, Replay
  <2>2. CASE ~Pays(a)
    BY <2>2 DEF CreditWinning, CreditInv
  <2> QED
    BY <2>1, <2>2
<1>4. \A x : x > 0 => x # NotPosted
  BY DEF NotPosted
<1>5. ShownIsCredited'
  BY <1>1, <1>3, <1>4 DEF CreditInv, ShownIsCredited
<1>6. ASSUME NEW g \in Handlers PROVE HasCredited(g)'
  <2>1. CASE g = h
    BY <1>1, <1>2, <1>3, <2>1 DEF HasCredited, Pays
  <2>2. CASE g # h
    <3>1. call'[g] = call[g] /\ HasCredited(g)
      BY <1>2, <2>2 DEF CreditInv
    <3> QED
      BY <1>1, <1>3, <1>4, <3>1 DEF HasCredited, Pays
  <2> QED
    BY <2>1, <2>2
<1>7. \A g \in Handlers : SettleShape(call[g])' /\ "at" \in DOMAIN call'[g]
  BY <1>2 DEF CreditInv, SettleShape, SettleFields
<1> QED
  BY <1>1, <1>2, <1>3, <1>5, <1>6, <1>7 DEF CreditInv

(* The mark shows the amount that the wallet was credited.                 *)
LEMMA MarkKeeps ==
  ASSUME CreditInv, NEW h \in Handlers, MarkSettled(h)
  PROVE  CreditInv'
<1>1. PICK a : a = Head(call[h].todo)
  OBVIOUS
<1>2. /\ call[h].at = "mark" /\ credited' = credited /\ snapshot' = snapshot
      /\ entry' = [entry EXCEPT ![a.entry].status = "SETTLED", ![a.entry].rank = a.rank,
                     ![a.entry].winning = IF Pays(a) THEN a.amount ELSE 0]
      /\ call' = [call EXCEPT ![h].at = "pay", ![h].todo = Tail(@)]
  BY <1>1 DEF MarkSettled, At, settlementVars
<1>3. Pays(a) /\ a.entry \in Entries => credited[a.entry] = a.amount
  BY <1>1, <1>2 DEF CreditInv, HasCredited
<1>4. /\ DOMAIN call[h] = SettleFields /\ call = [g \in Handlers |-> call[g]]
      /\ entry = [e \in Entries |-> entry[e]]
      /\ \A e \in Entries : DOMAIN entry[e] = {"user", "status", "rank", "winning"}
  BY <1>2 DEF CreditInv, SettleShape, SettleSteps, Running, InTry
<1>5. PICK c : c = [call[h] EXCEPT !.at = "pay", !.todo = Tail(@)]
  OBVIOUS
<1>6. call' = [call EXCEPT ![h] = c] /\ c.at = "pay" /\ DOMAIN c = SettleFields
  BY <1>2, <1>4, <1>5 DEF SettleFields
<1>7. /\ call' = [g \in Handlers |-> call'[g]]
      /\ \A g \in Handlers : call'[g] = IF g = h THEN c ELSE call[g]
  BY <1>4, <1>6
<1>8. \A g \in Handlers : SettleShape(call[g])' /\ "at" \in DOMAIN call'[g]
  BY <1>6, <1>7 DEF CreditInv, SettleShape, SettleFields
<1>9. ASSUME NEW g \in Handlers PROVE HasCredited(g)'
  <2>1. CASE g = h
    BY <1>6, <1>7, <2>1 DEF HasCredited
  <2>2. CASE g # h
    <3>1. call'[g] = call[g] /\ HasCredited(g)
      BY <1>7, <2>2 DEF CreditInv
    <3> QED
      BY <1>2, <3>1 DEF HasCredited, Pays
  <2> QED
    BY <2>1, <2>2
<1>10. PICK w : w = IF Pays(a) THEN a.amount ELSE 0
  OBVIOUS
<1>11. /\ entry' = [e \in Entries |-> entry'[e]]
       /\ \A e \in Entries :
            /\ DOMAIN entry'[e] = {"user", "status", "rank", "winning"}
            /\ entry'[e].winning = IF e = a.entry THEN w ELSE entry[e].winning
  BY <1>2, <1>4, <1>10
<1>12. w > 0 => Pays(a) /\ w = a.amount
  BY <1>10
<1>13. ShownIsCredited'
  BY <1>2, <1>3, <1>11, <1>12 DEF CreditInv, ShownIsCredited
<1>14. DOMAIN credited' = Entries
  BY <1>2 DEF CreditInv
<1> QED
  BY <1>7, <1>8, <1>9, <1>11, <1>13, <1>14 DEF CreditInv

(* The steps of a settlement keep what is shown equal to what was          *)
(* credited.                                                               *)
LEMMA SettleKeepsCredits ==
  ASSUME CreditInv, NEW h \in Handlers, NEW force,
         SettleContest(h, force) \/ SettleStep(h) \/ ResetForRetry(h) \/ Fault(h) \/ Crash(h)
  PROVE  CreditInv'
<1> USE DEF SettleSteps, Running, InTry
<1>1. CASE SettleContest(h, force)
  <2>1. PICK c : c = [at |-> "count", seen |-> contest.status, count |-> 0,
                      todo |-> <<>>, paid |-> 0]
    OBVIOUS
  <2>2. /\ call' = [call EXCEPT ![h] = c] /\ credited' = credited /\ snapshot' = snapshot
        /\ entry' = entry
    BY <1>1, <2>1 DEF SettleContest, Start, settlementVars
  <2>3. SettleShape(c) /\ "at" \in DOMAIN c /\ c.at # "mark"
    BY <2>1 DEF SettleShape, SettleFields
  <2> QED
    BY <2>2, <2>3, CreditFrame, SameEntries
<1>2. CASE CountActive(h)
  <2>1. credited' = credited /\ snapshot' = snapshot /\ entry' = entry /\ call[h].at = "count"
    BY <1>2 DEF CountActive, settlementVars, At
  <2>2. CASE Return(h)
    BY <2>1, <2>2, IdleShape, CreditFrame, SameEntries DEF Return
  <2>3. CASE ~Return(h)
    <3>1. PICK c : c = [call[h] EXCEPT !.at = "claim", !.count = Cardinality(Active)]
      OBVIOUS
    <3>2. call' = [call EXCEPT ![h] = c]
      BY <1>2, <2>3, <3>1 DEF CountActive, CreditInv
    <3>3. DOMAIN call[h] = SettleFields
      BY <2>1 DEF CreditInv, SettleShape
    <3>4. SettleShape(c) /\ "at" \in DOMAIN c /\ c.at # "mark"
      BY <3>1, <3>3 DEF SettleShape, SettleFields
    <3> QED
      BY <2>1, <3>2, <3>4, CreditFrame, SameEntries
  <2> QED
    BY <2>2, <2>3
<1>3. CASE LoadEntries(h)
  <2>1. PICK q : q = AllocateWinnings(Active, points', snapshot)
    OBVIOUS
  <2>2. /\ credited' = credited /\ snapshot' = snapshot /\ entry' = entry /\ call[h].at = "load"
        /\ call' = [call EXCEPT ![h].at = "pay", ![h].todo = q]
    BY <1>3, <2>1 DEF LoadEntries, At
  <2>3. PICK c : c = [call[h] EXCEPT !.at = "pay", !.todo = q]
    OBVIOUS
  <2>4. call' = [call EXCEPT ![h] = c]
    BY <2>2, <2>3 DEF CreditInv
  <2>5. DOMAIN call[h] = SettleFields
    BY <2>2 DEF CreditInv, SettleShape
  <2>6. SettleShape(c) /\ "at" \in DOMAIN c /\ c.at # "mark"
    BY <2>3, <2>5 DEF SettleShape, SettleFields
  <2> QED
    BY <2>2, <2>4, <2>6, CreditFrame, SameEntries
<1>4. CASE CreditWinning(h)
  BY <1>4, CreditKeeps
<1>5. CASE MarkSettled(h)
  BY <1>5, MarkKeeps
<1>6. CASE ClaimForSettlement(h)
  <2>1. /\ credited' = credited /\ snapshot' = snapshot /\ entry' = entry
        /\ call[h].at = "claim" /\ (Goto(h, "load") \/ Return(h))
    BY <1>6 DEF ClaimForSettlement, At
  <2>2. CASE Goto(h, "load")
    BY <2>1, <2>2, CreditGoto
  <2>3. CASE Return(h)
    BY <2>1, <2>3, IdleShape, CreditFrame, SameEntries DEF Return
  <2> QED
    BY <2>1, <2>2, <2>3
<1>7. CASE CreditConflicts(h) \/ RebuildLeaderboard(h) \/ CompleteContest(h) \/ Fault(h)
  <2>1. /\ credited' = credited /\ snapshot' = snapshot /\ entry' = entry
        /\ call[h].at \in SettleSteps
        /\ \E step \in {"catch", "complete", "finalise"} : Goto(h, step)
    BY <1>7 DEF CreditConflicts, RebuildLeaderboard, CompleteContest, Fault, At,
       settlementVars
  <2> QED
    BY <2>1, CreditGoto
<1>8. CASE Skip(h) \/ Finalise(h) \/ FinaliseFailed(h) \/ SaveReset(h) \/ Crash(h)
  <2>1. credited' = credited /\ snapshot' = snapshot /\ entry' = entry /\ Return(h)
    BY <1>8 DEF Skip, Finalise, FinaliseFailed, SaveReset, Crash
  <2> QED
    BY <2>1, IdleShape, CreditFrame, SameEntries DEF Return
<1>9. CASE ResetForRetry(h)
  <2>1. PICK c : c = [at |-> "reset"]
    OBVIOUS
  <2>2. /\ call' = [call EXCEPT ![h] = c] /\ credited' = credited /\ snapshot' = snapshot
        /\ entry' = entry
    BY <1>9, <2>1 DEF ResetForRetry, Start
  <2>3. SettleShape(c) /\ "at" \in DOMAIN c /\ c.at # "mark"
    BY <2>1 DEF SettleShape
  <2> QED
    BY <2>2, <2>3, CreditFrame, SameEntries
<1> QED
  BY <1>1, <1>2, <1>3, <1>4, <1>5, <1>6, <1>7, <1>8, <1>9 DEF SettleStep

(* No entry shows a winning that was not credited to its user, to the      *)
(* unit: whatever runs fail, are retried, or overlap after a reset.        *)
THEOREM WinningsWereCredited == Spec => []ShownIsCredited
<1>1. Init => CreditInv
  BY IdleShape DEF Init, CreditInv, HasCredited, ShownIsCredited, Idle
<1>2. CreditInv /\ [Next]_vars => CreditInv'
  <2> SUFFICES ASSUME CreditInv, [Next]_vars PROVE CreditInv'
    OBVIOUS
  <2>1. CASE CancelNext /\ UNCHANGED settlementVars
    BY <2>1, CancelKeepsCredits
  <2>2. CASE \E h \in Handlers, force \in BOOLEAN : SettleContest(h, force)
    BY <2>2, SettleKeepsCredits
  <2>3. CASE \E h \in Handlers : SettleStep(h) \/ ResetForRetry(h) \/ Fault(h) \/ Crash(h)
    BY <2>3, SettleKeepsCredits
  <2>4. CASE UNCHANGED vars
    BY <2>4 DEF vars, settlementVars, CreditInv, SettleShape, HasCredited, ShownIsCredited, Pays
  <2> QED
    BY <2>1, <2>2, <2>3, <2>4 DEF Next
<1>3. CreditInv => ShownIsCredited
  BY DEF CreditInv
<1> QED
  BY <1>1, <1>2, <1>3, PTL DEF Spec

-----------------------------------------------------------------------------
(* The queue of the run that pays, and the entries it has settled.         *)

(* The allocations a run works off, and the steps that do it.              *)
Allots == [entry : Entries, rank : Nat, amount : Nat]
PaySteps == {"pay", "mark"}

(* The queue of the run that pays, whatever failed before it: no entry     *)
(* comes twice, and none is SETTLED or shows a winning; when it is loaded, *)
(* every ACTIVE entry waits in it.                                         *)
Distinct(todo) == \A i, j \in DOMAIN todo : i # j => todo[i].entry # todo[j].entry
Unsettled(todo) == \A i \in DOMAIN todo : entry[todo[i].entry].status # "SETTLED"
Unmarked(todo) == \A i \in DOMAIN todo : entry[todo[i].entry].winning = 0
Waiting(todo) == \A e \in Active : \E i \in DOMAIN todo : todo[i].entry = e

(* What holds of the queue, ...                                            *)
QueueInv(todo) ==
  todo \in Seq(Allots) /\ Distinct(todo) /\ Unsettled(todo) /\ Unmarked(todo)

(* ... and of a call that works it off.                                    *)
RunInv(h) ==
  call[h].at \in PaySteps =>
    /\ QueueInv(call[h].todo)
    /\ call[h].at = "mark" => call[h].todo # <<>>

(* A call between its credit and its mark.                                 *)
Paying(h) == call[h].at = "mark" /\ Pays(call[h].todo[1])

(* An entry that does not show its credit is left over from a failed run,  *)
(* or is about to be marked.                                               *)
FewUntold ==
  \/ Cardinality(Untold) <= faults
  \/ Cardinality(Untold) <= faults + 1 /\ \E h \in Handlers : Paying(h)

ActiveUnmarked == \A e \in Active : entry[e].winning = 0
NaturalWinnings == \A e \in Entries : entry[e].winning \in Nat

(* The invariant of SettledEntriesAreTrue, until a result is reset.        *)
TruthInv ==
  resets = 0 =>
    (\A h \in Handlers : RunInv(h)) /\ ActiveUnmarked /\ NaturalWinnings /\ FewUntold

(* The types of what the runs read.                                        *)
DataInv ==
  /\ points \in [Entries -> Nat] /\ snapshot \in Snapshots /\ faults \in Nat
  /\ contest = [status |-> contest.status, filled |-> contest.filled, total |-> contest.total,
                cancelled |-> contest.cancelled, writer |-> contest.writer]

(* All invariants so far; each step of the proofs below may use them.      *)
Known == IInv /\ CreditInv /\ DataInv /\ TruthInv

-----------------------------------------------------------------------------
(* As long as no result was reset, only one call runs.                     *)
LEMMA Alone ==
  ASSUME IInv, resets = 0, NEW h \in Handlers, Runs(h)
  PROVE  \A g \in Handlers : g # h => ~ Runs(g)
BY DEF IInv, RunnerHoldsClaim

(* There are finitely many entries.                                        *)
LEMMA FewEntries == IsFiniteSet(Entries)
BY SettlementAssumption, FS_Interval DEF Entries

(* So those that do not show their credit can be counted.                  *)
LEMMA UntoldFinite ==
  /\ Untold \subseteq Entries /\ IsFiniteSet(Untold) /\ Cardinality(Untold) \in Nat
  /\ \A T : T \subseteq Untold => IsFiniteSet(T) /\ Cardinality(T) \in Nat
                                  /\ Cardinality(T) <= Cardinality(Untold)
<1>1. Untold \subseteq Entries
  BY DEF Untold
<1>2. IsFiniteSet(Untold)
  BY <1>1, FewEntries, FS_Subset
<1> QED
  BY <1>1, <1>2, FS_Subset, FS_CardinalityType

(* Entries leave ACTIVE, and are SETTLED by a run only.                    *)
FewerActive ==
  /\ entry' = [e \in Entries |-> entry'[e]]
  /\ \A e \in Entries :
       /\ entry'[e].status = "ACTIVE" => entry[e].status = "ACTIVE"
       /\ entry'[e].status = "SETTLED" => entry[e].status = "SETTLED"
       /\ entry'[e].winning = entry[e].winning

(* The entries a run loads are those that are ACTIVE.                      *)
LEMMA ActiveEntries ==
  ASSUME CreditInv
  PROVE  Active = {e \in Entries : entry[e].status = "ACTIVE"}
BY DEF Active, CreditInv

(* A step of a call that neither credits nor marks; between the two it can *)
(* only be a failure.                                                      *)
LEMMA TruthFrame ==
  ASSUME Known, NEW h \in Handlers, NEW c, call' = [call EXCEPT ![h] = c],
         c.at \notin PaySteps, call[h].at # "mark" \/ faults' > faults,
         credited' = credited, snapshot' = snapshot, resets' = resets,
         faults' \in Nat, faults' >= faults, FewerActive
  PROVE  TruthInv'
<1> SUFFICES ASSUME resets = 0
             PROVE  /\ \A g \in Handlers : RunInv(g)'
                    /\ ActiveUnmarked' /\ NaturalWinnings' /\ FewUntold'
  BY DEF TruthInv
<1>0. NaturalWinnings'
  BY DEF Known, TruthInv, NaturalWinnings, FewerActive
<1>1. /\ \A g \in Handlers : call'[g] = IF g = h THEN c ELSE call[g]
      /\ \A g \in Handlers : RunInv(g)
      /\ ActiveUnmarked /\ FewUntold
  BY DEF Known, CreditInv, TruthInv
<1>2. Active' \subseteq Active /\ Active \subseteq Entries
  BY DEF Known, CreditInv, Active, FewerActive
<1>3. faults \in Nat
  BY DEF Known, DataInv
<1>4. ASSUME NEW g \in Handlers PROVE RunInv(g)'
  <2>1. CASE g = h
    BY <1>1, <2>1 DEF RunInv
  <2>2. CASE g # h
    <3>1. SUFFICES ASSUME call[g].at \in PaySteps
                   PROVE  /\ QueueInv(call[g].todo)'
                          /\ call[g].at = "mark" => call[g].todo # <<>>
      BY <1>1, <2>2 DEF RunInv
    <3>2. PICK todo : todo = call[g].todo
      OBVIOUS
    <3>3. /\ QueueInv(todo) /\ call'[g].todo = todo
          /\ call[g].at = "mark" => todo # <<>>
      BY <1>1, <2>2, <3>1, <3>2 DEF RunInv
    <3>4. \A i \in DOMAIN todo : todo[i].entry \in Entries
      <4>1. \A i \in DOMAIN todo : todo[i] \in Allots
        BY <3>3 DEF QueueInv
      <4> QED
        BY <4>1 DEF Allots
    <3>5. Distinct(todo)'
      BY <3>3 DEF QueueInv, Distinct
    <3>6. Unsettled(todo)' /\ Unmarked(todo)'
      BY <3>3, <3>4 DEF QueueInv, Unsettled, Unmarked, FewerActive
    <3>7. QueueInv(todo)'
      BY <3>3, <3>5, <3>6 DEF QueueInv
    <3> QED
      BY <3>2, <3>3, <3>7
  <2> QED
    BY <2>1, <2>2
<1>5. ActiveUnmarked'
  BY <1>1, <1>2 DEF ActiveUnmarked, FewerActive
<1>6. FewUntold'
  <2>1. Untold' = Untold
    BY DEF Untold, Credit, FewerActive
  <2>2. Cardinality(Untold) \in Nat
    BY UntoldFinite
  <2>3. CASE Cardinality(Untold) <= faults
    BY <1>3, <2>1, <2>2, <2>3 DEF FewUntold
  <2>4. CASE /\ Cardinality(Untold) <= faults + 1
             /\ \E g \in Handlers : Paying(g)
    <3>1. PICK g \in Handlers : Paying(g)
      BY <2>4
    <3>2. CASE g = h
      <4>1. faults' > faults
        BY <3>1, <3>2 DEF Paying
      <4>2. Cardinality(Untold) <= faults'
        BY <1>3, <2>2, <2>4, <4>1
      <4> QED
        BY <2>1, <4>2 DEF FewUntold
    <3>3. CASE g # h
      <4>1. Paying(g)'
        BY <1>1, <3>1, <3>3 DEF Paying, Pays
      <4>2. Cardinality(Untold) <= faults' + 1
        BY <1>3, <2>2, <2>4
      <4> QED
        BY <2>1, <4>1, <4>2 DEF FewUntold
    <3> QED
      BY <3>2, <3>3
  <2> QED
    BY <1>1, <2>3, <2>4 DEF FewUntold
<1> QED
  BY <1>0, <1>4, <1>5, <1>6

-----------------------------------------------------------------------------
(* The queue of a run, with its head.                                      *)
LEMMA QueueFacts ==
  ASSUME NEW todo, QueueInv(todo)
  PROVE  /\ Len(todo) \in Nat /\ DOMAIN todo = 1..Len(todo)
         /\ \A i \in DOMAIN todo :
              /\ todo[i] \in Allots /\ todo[i].entry \in Entries /\ todo[i].amount \in Nat
         /\ \A i, j \in DOMAIN todo : i # j => todo[i].entry # todo[j].entry
         /\ todo # <<>> => 1 \in DOMAIN todo /\ Head(todo) = todo[1]
<1>1. todo \in Seq(Allots)
  BY DEF QueueInv
<1>2. /\ Len(todo) \in Nat /\ DOMAIN todo = 1..Len(todo)
      /\ \A i \in DOMAIN todo : todo[i] \in Allots
      /\ todo # <<>> => 1 \in DOMAIN todo /\ Head(todo) = todo[1]
  BY <1>1
<1>3. \A i \in DOMAIN todo : todo[i].entry \in Entries /\ todo[i].amount \in Nat
  BY <1>2 DEF Allots
<1> QED
  BY <1>2, <1>3 DEF QueueInv, Distinct

(* Of a run that pays.                                                     *)
LEMMA RunFacts ==
  ASSUME Known, NEW h \in Handlers, resets = 0, call[h].at \in PaySteps,
         NEW todo, todo = call[h].todo
  PROVE  /\ QueueInv(todo)
         /\ call[h].at = "mark" => todo # <<>>
         /\ \A g \in Handlers : g # h => ~ (call[g].at \in PaySteps)
<1>1. RunInv(h)
  BY DEF Known, TruthInv
<1>2. \A g \in Handlers : g # h => ~ (call[g].at \in PaySteps)
  <2>1. Runs(h) /\ IInv
    BY DEF Known, Runs, Running, InTry, PaySteps
  <2>2. \A g \in Handlers : g # h => ~ Runs(g)
    BY <2>1, Alone
  <2> QED
    BY <2>2 DEF Runs, Running, InTry, PaySteps
<1> QED
  BY <1>1, <1>2 DEF RunInv

(* A credit goes to the head of the queue, of all the entries.             *)
LEMMA CreditGoes ==
  ASSUME Known, NEW h \in Handlers, CreditWinning(h), resets = 0,
         NEW todo, todo = call[h].todo, NEW a, a = todo[1]
  PROVE  /\ todo # <<>> /\ call[h].at = "pay" /\ a = Head(todo)
         /\ \A e \in Entries : e # a.entry => credited'[e] = credited[e]
         /\ Pays(a) => credited'[a.entry] = a.amount /\ a.amount \in Nat \ {0}
         /\ ~ Pays(a) => credited' = credited
<1>1. todo # <<>> /\ call[h].at = "pay"
  BY DEF CreditWinning, At
<1>2. QueueInv(todo)
  BY <1>1, RunFacts DEF PaySteps
<1>3. 1 \in DOMAIN todo /\ a = Head(todo) /\ a.amount \in Nat /\ a.entry \in Entries
  BY <1>1, <1>2, QueueFacts
<1>4. DOMAIN credited = Entries
  BY DEF Known, CreditInv
<1>5. CASE Pays(a)
  <2>1. /\ credited[a.entry] = NotPosted \/ credited[a.entry] = a.amount
        /\ credited' = [credited EXCEPT ![a.entry] = IF @ = NotPosted THEN a.amount ELSE @]
    BY <1>3, <1>5 DEF CreditWinning, Replay
  <2>2. credited'[a.entry] = IF credited[a.entry] = NotPosted THEN a.amount ELSE credited[a.entry]
    BY <1>3, <1>4, <2>1
  <2>3. credited'[a.entry] = a.amount
    BY <2>1, <2>2
  <2> QED
    BY <1>1, <1>3, <1>4, <1>5, <2>1, <2>3 DEF Pays
<1>6. CASE ~ Pays(a)
  BY <1>1, <1>3, <1>6 DEF CreditWinning
<1> QED
  BY <1>5, <1>6

(* No call is between a credit and its mark while another one pays.        *)
LEMMA PaidUp ==
  ASSUME Known, resets = 0, NEW h \in Handlers, Runs(h), ~ Paying(h)
  PROVE  Cardinality(Untold) <= faults
<1>1. \A g \in Handlers : g # h => ~ Runs(g)
  BY Alone DEF Known
<1>2. \A g \in Handlers : ~ Paying(g)
  BY <1>1 DEF Paying, Runs, Running, InTry
<1> QED
  BY <1>2 DEF Known, TruthInv, FewUntold

(* A credit may leave its own entry, and no other, to be marked.           *)
LEMMA CreditTruth ==
  ASSUME Known, NEW h \in Handlers, CreditWinning(h)
  PROVE  TruthInv'
<1>0. entry' = entry /\ snapshot' = snapshot /\ faults' = faults /\ resets' = resets
  BY DEF CreditWinning
<1> SUFFICES ASSUME resets = 0
             PROVE  /\ \A g \in Handlers : RunInv(g)'
                    /\ ActiveUnmarked' /\ NaturalWinnings' /\ FewUntold'
  BY <1>0 DEF TruthInv
<1>1. PICK todo : todo = call[h].todo
  OBVIOUS
<1>2. PICK a : a = todo[1]
  OBVIOUS
<1>3. /\ todo # <<>> /\ call[h].at = "pay" /\ a = Head(todo)
      /\ \A e \in Entries : e # a.entry => credited'[e] = credited[e]
      /\ Pays(a) => credited'[a.entry] = a.amount /\ a.amount \in Nat \ {0}
      /\ ~ Pays(a) => credited' = credited
  BY <1>1, <1>2, CreditGoes
<1>4. /\ QueueInv(todo)
      /\ \A g \in Handlers : g # h => ~ (call[g].at \in PaySteps)
  <2>1. call[h].at \in PaySteps
    BY <1>3 DEF PaySteps
  <2> QED
    BY <1>1, <2>1, RunFacts
<1>5. /\ \A g \in Handlers : g # h => call'[g] = call[g]
      /\ call'[h].at = "mark" /\ call'[h].todo = todo
  BY <1>1, CreditCalls DEF Known
<1>6. QueueInv(todo)'
  BY <1>0, <1>4 DEF QueueInv, Distinct, Unsettled, Unmarked
<1>7. ASSUME NEW g \in Handlers PROVE RunInv(g)'
  <2>1. CASE g = h
    BY <1>3, <1>5, <1>6, <2>1 DEF RunInv
  <2>2. CASE g # h
    BY <1>4, <1>5, <2>2 DEF RunInv
  <2> QED
    BY <2>1, <2>2
<1>8. ActiveUnmarked' /\ NaturalWinnings'
  BY <1>0 DEF Known, TruthInv, ActiveUnmarked, NaturalWinnings, Active
<1>9. Cardinality(Untold) <= faults
  BY <1>3, PaidUp DEF Paying, Runs, Running, InTry
<1>10. FewUntold'
  <2>1. CASE Pays(a)
    <3>1. Paying(h)'
      BY <1>0, <1>2, <1>5, <2>1 DEF Paying, Pays
    <3>2. Untold' \subseteq Untold \cup {a.entry}
      BY <1>0, <1>3 DEF Untold, Credit
    <3>3. IsFiniteSet(Untold) /\ Cardinality(Untold) \in Nat
      BY UntoldFinite
    <3>4. PICK T : T = Untold \cup {a.entry}
      OBVIOUS
    <3>5. IsFiniteSet(T) /\ Cardinality(T) <= Cardinality(Untold) + 1 /\ Cardinality(T) \in Nat
      <4>1. CASE a.entry \in Untold
        <5>1. T = Untold
          BY <3>4, <4>1
        <5> QED
          BY <3>3, <5>1
      <4>2. CASE a.entry \notin Untold
        <5>1. IsFiniteSet(T) /\ Cardinality(T) = Cardinality(Untold) + 1
          BY <3>3, <3>4, <4>2, FS_AddElement
        <5> QED
          BY <3>3, <5>1
      <4> QED
        BY <4>1, <4>2
    <3>6. PICK U : U = Untold'
      OBVIOUS
    <3>7. Cardinality(U) <= Cardinality(T) /\ Cardinality(U) \in Nat
      BY <3>2, <3>4, <3>5, <3>6, FS_Subset, FS_CardinalityType
    <3>8. Cardinality(U) <= faults + 1
      BY <1>9, <3>3, <3>5, <3>7 DEF Known, DataInv
    <3> QED
      BY <1>0, <3>1, <3>6, <3>8 DEF FewUntold
  <2>2. CASE ~ Pays(a)
    <3>1. Untold' = Untold
      BY <1>0, <1>3, <2>2 DEF Untold, Credit
    <3> QED
      BY <1>0, <1>9, <3>1 DEF FewUntold
  <2> QED
    BY <2>1, <2>2
<1> QED
  BY <1>7, <1>8, <1>10

(* The mark of an entry that was paid shows its credit; the mark of one    *)
(* that wins nothing changes nothing that is shown.                        *)
LEMMA MarkTruth ==
  ASSUME Known, NEW h \in Handlers, MarkSettled(h)
  PROVE  TruthInv'
<1>0. /\ credited' = credited /\ snapshot' = snapshot /\ faults' = faults
      /\ resets' = resets /\ call[h].at = "mark"
  BY DEF MarkSettled, settlementVars, At
<1> SUFFICES ASSUME resets = 0
             PROVE  /\ \A g \in Handlers : RunInv(g)'
                    /\ ActiveUnmarked' /\ NaturalWinnings' /\ FewUntold'
  BY <1>0 DEF TruthInv
<1>1. PICK todo : todo = call[h].todo
  OBVIOUS
<1>2. PICK a : a = todo[1]
  OBVIOUS
<1>3. /\ QueueInv(todo) /\ todo # <<>>
      /\ \A g \in Handlers : g # h => ~ (call[g].at \in PaySteps)
  <2>1. call[h].at \in PaySteps
    BY <1>0 DEF PaySteps
  <2> QED
    BY <1>0, <1>1, <2>1, RunFacts
<1>4. /\ DOMAIN todo = 1..Len(todo) /\ Len(todo) \in Nat
      /\ \A i \in DOMAIN todo : todo[i] \in Allots /\ todo[i].entry \in Entries
      /\ \A i, j \in DOMAIN todo : i # j => todo[i].entry # todo[j].entry
      /\ 1 \in DOMAIN todo /\ a = Head(todo) /\ a.amount \in Nat /\ a.entry \in Entries
  BY <1>2, <1>3, QueueFacts
<1>5. /\ entry' = [entry EXCEPT ![a.entry].status = "SETTLED", ![a.entry].rank = a.rank,
                     ![a.entry].winning = IF Pays(a) THEN a.amount ELSE 0]
      /\ call' = [call EXCEPT ![h].at = "pay", ![h].todo = Tail(@)]
  BY <1>1, <1>4 DEF MarkSettled
<1>6. PICK rest : rest = Tail(todo)
  OBVIOUS
<1>7. /\ call'[h].at = "pay" /\ call'[h].todo = rest
      /\ \A g \in Handlers : g # h => call'[g] = call[g]
  <2>1. /\ DOMAIN call[h] = SettleFields /\ call = [g \in Handlers |-> call[g]]
    BY <1>0 DEF Known, CreditInv, SettleShape, SettleSteps, Running, InTry
  <2> QED
    BY <1>1, <1>5, <1>6, <2>1 DEF SettleFields
<1>8. PICK w : w = IF Pays(a) THEN a.amount ELSE 0
  OBVIOUS
<1>9. /\ \A e \in Entries :
           /\ e = a.entry => entry'[e].status = "SETTLED" /\ entry'[e].winning = w
           /\ e # a.entry => entry'[e] = entry[e]
      /\ DOMAIN entry' = Entries /\ DOMAIN entry = Entries
  <2>1. /\ entry = [e \in Entries |-> entry[e]]
        /\ \A e \in Entries : DOMAIN entry[e] = {"user", "status", "rank", "winning"}
    BY DEF Known, CreditInv
  <2> QED
    BY <1>5, <1>8, <2>1
<1>10. /\ rest \in Seq(Allots)
       /\ DOMAIN rest = 1..(Len(todo) - 1)
       /\ \A i \in DOMAIN rest : i + 1 \in DOMAIN todo /\ i + 1 # 1 /\ rest[i] = todo[i + 1]
  <2>1. todo \in Seq(Allots)
    BY <1>3 DEF QueueInv
  <2> QED
    BY <1>3, <1>4, <1>6, <2>1
<1>11. NaturalWinnings'
  <2>1. w \in Nat
    BY <1>4, <1>8
  <2> QED
    BY <1>9, <2>1 DEF Known, TruthInv, NaturalWinnings
<1>12. QueueInv(rest)'
  <2>1. Distinct(rest)'
    <3> SUFFICES ASSUME NEW i \in DOMAIN rest, NEW j \in DOMAIN rest, i # j
                 PROVE  rest[i].entry # rest[j].entry
      BY DEF Distinct
    <3>1. i + 1 \in DOMAIN todo /\ j + 1 \in DOMAIN todo /\ i + 1 # j + 1
      BY <1>10
    <3> QED
      BY <1>4, <1>10, <3>1
  <2>2. Unsettled(rest)' /\ Unmarked(rest)'
    <3> SUFFICES ASSUME NEW i \in DOMAIN rest
                 PROVE  /\ entry'[rest[i].entry].status # "SETTLED"
                        /\ entry'[rest[i].entry].winning = 0
      BY DEF Unsettled, Unmarked
    <3>1. PICK k \in DOMAIN todo : k # 1 /\ rest[i] = todo[k]
      BY <1>10
    <3>2. todo[k].entry \in Entries /\ todo[k].entry # a.entry
      BY <1>2, <1>4, <3>1
    <3> QED
      BY <1>3, <1>9, <3>1, <3>2 DEF QueueInv, Unsettled, Unmarked
  <2> QED
    BY <1>10, <2>1, <2>2 DEF QueueInv
<1>13. ASSUME NEW g \in Handlers PROVE RunInv(g)'
  <2>1. CASE g = h
    BY <1>7, <1>12, <2>1 DEF RunInv
  <2>2. CASE g # h
    BY <1>3, <1>7, <2>2 DEF RunInv
  <2> QED
    BY <2>1, <2>2
<1>14. ActiveUnmarked'
  <2> SUFFICES ASSUME NEW e \in Entries, entry'[e].status = "ACTIVE" PROVE entry'[e].winning = 0
    BY <1>9 DEF ActiveUnmarked, Active
  <2>1. e # a.entry
    BY <1>9
  <2>2. entry'[e] = entry[e] /\ e \in Active
    BY <1>9, <2>1 DEF Active
  <2> QED
    BY <2>2 DEF Known, TruthInv, ActiveUnmarked
<1>15. entry[a.entry].winning = 0
  BY <1>2, <1>3, <1>4 DEF QueueInv, Unmarked
<1>16. Cardinality(Untold') <= faults
  <2>1. CASE Pays(a)
    <3>1. credited[a.entry] = a.amount /\ a.amount > 0
      BY <1>0, <1>1, <1>4, <2>1 DEF Known, CreditInv, HasCredited, Pays
    <3>2. Credit(a.entry) = a.amount
      BY <1>4, <3>1 DEF Credit, NotPosted
    <3>3. a.entry \in Untold
      BY <1>4, <1>15, <3>1, <3>2 DEF Untold
    <3>4. Untold' = Untold \ {a.entry}
      BY <1>0, <1>8, <1>9, <2>1, <3>2 DEF Untold, Credit
    <3>5. IsFiniteSet(Untold) /\ Cardinality(Untold) \in Nat
      BY UntoldFinite
    <3>6. Cardinality(Untold') = Cardinality(Untold) - 1
      BY <3>3, <3>4, <3>5, FS_RemoveElement
    <3>7. Cardinality(Untold) <= faults \/ Cardinality(Untold) <= faults + 1
      BY DEF Known, TruthInv, FewUntold
    <3> QED
      BY <3>5, <3>6, <3>7 DEF Known, DataInv
  <2>2. CASE ~ Pays(a)
    <3>1. Untold' = Untold
      BY <1>0, <1>8, <1>9, <1>15, <2>2 DEF Untold, Credit
    <3>2. ~ Paying(h)
      BY <1>1, <1>2, <2>2 DEF Paying
    <3> QED
      BY <1>0, <3>1, <3>2, PaidUp DEF Runs, Running, InTry
  <2> QED
    BY <2>1, <2>2
<1>17. FewUntold'
  BY <1>0, <1>16 DEF FewUntold
<1> QED
  BY <1>11, <1>13, <1>14, <1>17

(* A run that begins ranks the entries that are ACTIVE, by the totals it   *)
(* finds.                                                                  *)
LEMMA LoadedQueue ==
  ASSUME CreditInv, DataInv, NEW pts \in [Entries -> Nat],
         NEW todo, todo = AllocateWinnings(Active, pts, snapshot)
  PROVE  /\ todo \in Seq(Allots) /\ Distinct(todo) /\ Waiting(todo)
         /\ \A i \in DOMAIN todo : todo[i].entry \in Active
         /\ \A i \in DOMAIN todo : todo[i].amount = Winnings(todo[i].entry, Active, pts, snapshot)
<1>1. PICK S : S = Active
  OBVIOUS
<1>2. PICK s : s = Sorted(S, pts)
  OBVIOUS
<1>3. S \subseteq Entries /\ snapshot \in PrizeSnapshot
  BY <1>1, SettlementAssumption DEF CreditInv, DataInv, Active
<1>4. Scored(S, pts)
  <2>1. IsFiniteSet(S)
    BY <1>3, FewEntries, FS_Subset
  <2> QED
    BY <1>3, <2>1 DEF Scored, Entries
<1>5. todo = AllocateWinnings(S, pts, snapshot)
  BY <1>1
<1>6. /\ Sorts(s, S, pts) /\ DOMAIN todo = DOMAIN s
      /\ \A p \in DOMAIN s : Allocated(todo, s, p, pts, snapshot)
  BY <1>2, <1>3, <1>4, <1>5, Allocation
<1>7. \A p \in DOMAIN s : todo[p].amount = Winnings(s[p], S, pts, snapshot)
  <2> TAKE p \in DOMAIN s
  <2> QED
    BY <1>2, <1>3, <1>4, <1>5, EachWins
<1>8. /\ Cardinality(S) \in Nat /\ DOMAIN s = 1..Cardinality(S)
      /\ \A p \in DOMAIN s : s[p] \in S
      /\ \A e \in S : \E p \in DOMAIN s : s[p] = e
      /\ \A p, q \in DOMAIN s : p < q => Before(s[p], s[q], pts)
  BY <1>4, <1>6, FS_CardinalityType DEF Sorts, Scored
<1>9. \A p \in DOMAIN s :
        todo[p] = [entry |-> s[p], rank |-> p, amount |-> todo[p].amount] /\ todo[p].amount \in Nat
  BY <1>6 DEF Allocated
<1>10. \A p \in DOMAIN s : todo[p].entry = s[p] /\ todo[p] \in Allots
  <2> TAKE p \in DOMAIN s
  <2>1. p \in Nat /\ s[p] \in Entries
    BY <1>3, <1>8
  <2>4. todo[p].amount \in Nat
    BY <1>9
  <2>2. PICK n : n = todo[p].amount
    OBVIOUS
  <2>3. todo[p] = [entry |-> s[p], rank |-> p, amount |-> n]
    BY <1>9, <2>2
  <2> QED
    BY <2>1, <2>2, <2>3, <2>4 DEF Allots
<1>11. todo \in Seq(Allots)
  <2>1. todo = [p \in DOMAIN todo |-> todo[p]]
    BY <1>5 DEF AllocateWinnings
  <2>2. todo \in [1..Cardinality(S) -> Allots]
    BY <1>6, <1>8, <1>10, <2>1
  <2> QED
    BY <1>8, <2>2, SeqDef
<1>12. Distinct(todo)
  <2>1. ASSUME NEW p \in DOMAIN s, NEW q \in DOMAIN s, p < q PROVE s[p] # s[q]
    <3>1. Before(s[p], s[q], pts)
      BY <1>8, <2>1
    <3>2. s[p] \in Entries
      BY <1>3, <1>8
    <3>3. PICK e : e = s[p]
      OBVIOUS
    <3>4. e \in Int /\ pts[e] \in Nat
      BY <3>2, <3>3 DEF Entries
    <3>5. ~ Before(e, e, pts)
      BY <3>4 DEF Before
    <3> QED
      BY <3>1, <3>3, <3>5
  <2>2. \A p, q \in DOMAIN s : p # q => p < q \/ q < p
    BY <1>8
  <2>3. \A p, q \in DOMAIN s : p # q => s[p] # s[q]
    BY <2>1, <2>2
  <2> QED
    BY <1>6, <1>10, <2>3 DEF Distinct
<1>13. Waiting(todo)
  BY <1>1, <1>6, <1>8, <1>10 DEF Waiting
<1>14. /\ \A i \in DOMAIN todo : todo[i].entry \in Active
       /\ \A i \in DOMAIN todo :
            todo[i].amount = Winnings(todo[i].entry, Active, pts, snapshot)
  BY <1>1, <1>6, <1>7, <1>8, <1>10
<1> QED
  BY <1>11, <1>12, <1>13, <1>14

(* A run loads entries that show nothing.                                  *)
LEMMA LoadTruth ==
  ASSUME Known, NEW h \in Handlers, LoadEntries(h)
  PROVE  TruthInv'
<1>0. /\ credited' = credited /\ snapshot' = snapshot /\ faults' = faults
      /\ resets' = resets /\ entry' = entry /\ call[h].at = "load"
      /\ points' \in [Entries -> Nat]
  BY SettlementAssumption DEF LoadEntries, At
<1> SUFFICES ASSUME resets = 0
             PROVE  /\ \A g \in Handlers : RunInv(g)'
                    /\ ActiveUnmarked' /\ NaturalWinnings' /\ FewUntold'
  BY <1>0 DEF TruthInv
<1>1. PICK pts, todo : pts = points' /\ todo = AllocateWinnings(Active, pts, snapshot)
  OBVIOUS
<1>2. /\ todo \in Seq(Allots) /\ Distinct(todo)
      /\ \A i \in DOMAIN todo : todo[i].entry \in Active
  BY <1>0, <1>1, LoadedQueue DEF Known
<1>3. Runs(h) /\ \A g \in Handlers : g # h => ~ (call[g].at \in PaySteps)
  <2>1. Runs(h) /\ IInv
    BY <1>0 DEF Known, Runs, Running, InTry
  <2>2. \A g \in Handlers : g # h => ~ Runs(g)
    BY <2>1, Alone
  <2> QED
    BY <2>1, <2>2 DEF Runs, Running, InTry, PaySteps
<1>4. /\ call'[h].at = "pay" /\ call'[h].todo = todo
      /\ \A g \in Handlers : g # h => call'[g] = call[g]
  <2>1. /\ DOMAIN call[h] = SettleFields /\ call = [g \in Handlers |-> call[g]]
    BY <1>0 DEF Known, CreditInv, SettleShape, SettleSteps, Running, InTry
  <2>2. call' = [call EXCEPT ![h].at = "pay", ![h].todo = todo]
    BY <1>1 DEF LoadEntries
  <2> QED
    BY <2>1, <2>2 DEF SettleFields
<1>5. Unsettled(todo) /\ Unmarked(todo)
  <2>1. \A i \in DOMAIN todo :
          entry[todo[i].entry].status = "ACTIVE" /\ entry[todo[i].entry].winning = 0
    BY <1>2 DEF Known, TruthInv, ActiveUnmarked, Active
  <2> QED
    BY <2>1 DEF Unsettled, Unmarked
<1>6. QueueInv(todo)'
  BY <1>0, <1>2, <1>5 DEF QueueInv, Distinct, Unsettled, Unmarked
<1>7. ASSUME NEW g \in Handlers PROVE RunInv(g)'
  <2>1. CASE g = h
    BY <1>4, <1>6, <2>1 DEF RunInv
  <2>2. CASE g # h
    BY <1>3, <1>4, <2>2 DEF RunInv
  <2> QED
    BY <2>1, <2>2
<1>8. ActiveUnmarked' /\ NaturalWinnings'
  BY <1>0 DEF Known, TruthInv, ActiveUnmarked, NaturalWinnings, Active
<1>9. FewUntold'
  <2>1. Cardinality(Untold) <= faults
    BY <1>0, <1>3, PaidUp DEF Paying
  <2>2. Untold' = Untold
    BY <1>0 DEF Untold, Credit
  <2> QED
    BY <1>0, <2>1, <2>2 DEF FewUntold
<1> QED
  BY <1>7, <1>8, <1>9

(* A step that touches nothing of it keeps the invariant.                  *)
LEMMA SameTruth ==
  ASSUME TruthInv, UNCHANGED <<call, entry, credited, snapshot, faults, resets>>
  PROVE  TruthInv'
BY DEF TruthInv, RunInv, QueueInv, Distinct, Unsettled, Unmarked, ActiveUnmarked, Active,
   NaturalWinnings, FewUntold, Untold, Credit, Paying, Pays

(* A step that leaves the entries alone makes none of them ACTIVE.         *)
LEMMA SameActive ==
  ASSUME CreditInv, entry' = entry
  PROVE  FewerActive
BY DEF CreditInv, FewerActive

(* What these steps have in common.                                        *)
Aside(h) ==
  /\ credited' = credited /\ snapshot' = snapshot /\ resets' = resets
  /\ faults' \in Nat /\ faults' >= faults
  /\ call[h].at # "mark" \/ faults' > faults

(* A call that ends keeps the invariant.                                   *)
LEMMA TruthReturn ==
  ASSUME Known, NEW h \in Handlers, Return(h), Aside(h), entry' = entry
  PROVE  TruthInv'
<1>1. call' = [call EXCEPT ![h] = Idle] /\ Idle.at \notin PaySteps
  BY DEF Return, Idle, PaySteps
<1>2. FewerActive
  BY SameActive DEF Known
<1> QED
  BY <1>1, <1>2, TruthFrame DEF Aside

(* A call that goes on to a step other than a payment keeps it.            *)
LEMMA TruthGoto ==
  ASSUME Known, NEW h \in Handlers, NEW step, Goto(h, step), step \notin PaySteps,
         Aside(h), entry' = entry
  PROVE  TruthInv'
<1>1. PICK c : c = [call[h] EXCEPT !.at = step]
  OBVIOUS
<1>2. call' = [call EXCEPT ![h] = c] /\ c.at = step
  BY <1>1 DEF Goto, Known, CreditInv
<1>3. FewerActive
  BY SameActive DEF Known
<1> QED
  BY <1>2, <1>3, TruthFrame DEF Aside

(* A cancellation keeps it: it refunds entries that are not SETTLED.       *)
LEMMA CancelTruth ==
  ASSUME Known, CancelNext, UNCHANGED settlementVars
  PROVE  TruthInv'
<1>0. /\ credited' = credited /\ snapshot' = snapshot /\ resets' = resets
      /\ faults \in Nat
  BY DEF settlementVars, Known, DataInv
<1>1. ASSUME NEW target \in Statuses, TransitionStatus(target) PROVE TruthInv'
  BY <1>0, <1>1, SameTruth DEF TransitionStatus, Known
<1>2. ASSUME NEW h \in Handlers, NEW c, call' = [call EXCEPT ![h] = c], c.at \notin PaySteps,
             call[h].at # "mark", faults' = faults, FewerActive
      PROVE  TruthInv'
  <2>1. faults' \in Nat /\ faults' >= faults
    BY <1>0, <1>2
  <2> QED
    BY <1>0, <1>2, <2>1, TruthFrame
<1>3. ASSUME NEW h \in Handlers, CancelContest(h) PROVE TruthInv'
  <2>1. PICK c : c = [at |-> "sweep", todo |-> {}]
    OBVIOUS
  <2>2. call' = [call EXCEPT ![h] = c] /\ entry' = entry /\ faults' = faults /\ call[h] = Idle
    BY <1>3, <2>1 DEF CancelContest, Start
  <2>3. c.at \notin PaySteps /\ call[h].at # "mark" /\ FewerActive
    BY <2>1, <2>2, SameActive DEF PaySteps, Idle, Known
  <2> QED
    BY <1>2, <2>2, <2>3
<1>4. ASSUME NEW h \in Handlers, FindActiveForContest(h) PROVE TruthInv'
  <2>1. PICK c : c = [at |-> "refund", todo |-> Active]
    OBVIOUS
  <2>2. call' = [call EXCEPT ![h] = c] /\ entry' = entry /\ faults' = faults
    BY <1>4, <2>1 DEF FindActiveForContest
  <2>3. c.at \notin PaySteps /\ call[h].at # "mark" /\ FewerActive
    BY <1>4, <2>1, <2>2, SameActive DEF PaySteps, Known, FindActiveForContest, At
  <2> QED
    BY <1>2, <2>2, <2>3
<1>5. ASSUME NEW h \in Handlers, MarkRefunded(h) PROVE TruthInv'
  <2>1. PICK e \in call[h].todo :
          /\ entry' = [entry EXCEPT ![e].status = "REFUNDED"]
          /\ call' = [call EXCEPT ![h] = [at |-> "refund", todo |-> @.todo \ {e}]]
          /\ faults' = faults /\ call[h].at = "markRefunded"
    BY <1>5 DEF MarkRefunded, At
  <2>2. PICK c : c = [at |-> "refund", todo |-> call[h].todo \ {e}]
    OBVIOUS
  <2>3. call' = [call EXCEPT ![h] = c]
    BY <2>1, <2>2 DEF Known, CreditInv
  <2>4. c.at \notin PaySteps /\ call[h].at # "mark"
    BY <2>1, <2>2 DEF PaySteps
  <2>5. FewerActive
    BY <2>1 DEF Known, CreditInv, FewerActive
  <2> QED
    BY <1>2, <2>1, <2>3, <2>4, <2>5
<1>6. ASSUME NEW h \in Handlers, RefundEntry(h) PROVE TruthInv'
  <2>1. entry' = entry /\ Aside(h) /\ (Return(h) \/ Goto(h, "markRefunded"))
    <3>1. /\ entry' = entry /\ faults' = faults /\ call[h].at = "refund"
          /\ (Return(h) \/ Goto(h, "markRefunded"))
      BY <1>6 DEF RefundEntry, At
    <3> QED
      BY <1>0, <3>1 DEF Aside
  <2> QED
    BY <2>1, TruthReturn, TruthGoto DEF PaySteps
<1>7. ASSUME NEW h \in Handlers, SaveCapacity(h) \/ SweepEnds(h) \/ LifecycleFault(h)
      PROVE TruthInv'
  <2>1. entry' = entry /\ Return(h) /\ Aside(h)
    <3>1. /\ entry' = entry /\ Return(h) /\ (faults' = faults \/ faults' = faults + 1)
          /\ call[h].at # "mark"
      BY <1>7 DEF SaveCapacity, SweepEnds, LifecycleFault, At, LifecycleSteps
    <3> QED
      BY <1>0, <3>1 DEF Aside
  <2> QED
    BY <2>1, TruthReturn
<1> QED
  BY <1>1, <1>3, <1>4, <1>5, <1>6, <1>7 DEF CancelNext, LifecycleStep

(* The other steps of a settlement keep it.                                *)
LEMMA SettleTruth ==
  ASSUME Known, NEW h \in Handlers, NEW force,
         SettleContest(h, force) \/ SettleStep(h) \/ ResetForRetry(h) \/ Fault(h) \/ Crash(h)
  PROVE  TruthInv'
<1>0. faults \in Nat /\ resets \in Nat
  BY DEF Known, DataInv, IInv, Shape
<1>1. CASE SettleContest(h, force)
  <2>1. PICK c : c = [at |-> "count", seen |-> contest.status, count |-> 0,
                      todo |-> <<>>, paid |-> 0]
    OBVIOUS
  <2>2. /\ call' = [call EXCEPT ![h] = c] /\ credited' = credited /\ snapshot' = snapshot
        /\ entry' = entry /\ resets' = resets /\ faults' = faults
        /\ call[h] = Idle
    BY <1>1, <2>1 DEF SettleContest, Start, settlementVars
  <2>3. c.at \notin PaySteps /\ call[h].at # "mark" /\ FewerActive
    BY <2>1, <2>2, SameActive DEF PaySteps, Idle, Known
  <2>4. faults' \in Nat /\ faults' >= faults
    BY <1>0, <2>2
  <2> QED
    BY <2>2, <2>3, <2>4, TruthFrame
<1>2. CASE CountActive(h)
  <2>1. /\ credited' = credited /\ snapshot' = snapshot /\ entry' = entry
        /\ resets' = resets /\ faults' = faults /\ call[h].at = "count"
    BY <1>2 DEF CountActive, settlementVars, At
  <2>2. Aside(h)
    BY <1>0, <2>1 DEF Aside
  <2>3. CASE Return(h)
    BY <2>1, <2>2, <2>3, TruthReturn
  <2>4. CASE ~Return(h)
    <3>1. PICK c : c = [call[h] EXCEPT !.at = "claim", !.count = Cardinality(Active)]
      OBVIOUS
    <3>2. call' = [call EXCEPT ![h] = c]
      BY <1>2, <2>4, <3>1 DEF CountActive, Known, CreditInv
    <3>3. DOMAIN call[h] = SettleFields
      BY <2>1 DEF Known, CreditInv, SettleShape, SettleSteps
    <3>4. c.at = "claim"
      BY <3>1, <3>3 DEF SettleFields
    <3>5. c.at \notin PaySteps /\ FewerActive
      BY <2>1, <3>4, SameActive DEF PaySteps, Known
    <3> QED
      BY <2>2, <3>2, <3>5, TruthFrame DEF Aside
  <2> QED
    BY <2>3, <2>4
<1>3. CASE ClaimForSettlement(h)
  <2>1. Aside(h) /\ entry' = entry /\ (Goto(h, "load") \/ Return(h))
    <3>1. /\ credited' = credited /\ snapshot' = snapshot /\ entry' = entry
          /\ resets' = resets /\ faults' = faults /\ call[h].at = "claim"
          /\ (Goto(h, "load") \/ Return(h))
      BY <1>3 DEF ClaimForSettlement, At
    <3> QED
      BY <1>0, <3>1 DEF Aside
  <2> QED
    BY <2>1, TruthReturn, TruthGoto DEF PaySteps
<1>4. CASE CreditConflicts(h) \/ RebuildLeaderboard(h) \/ CompleteContest(h) \/ Fault(h)
  <2>1. /\ Aside(h) /\ entry' = entry
        /\ \E step \in {"catch", "complete", "finalise"} : Goto(h, step)
    <3>1. /\ credited' = credited /\ snapshot' = snapshot /\ entry' = entry
          /\ resets' = resets
          /\ (faults' = faults /\ call[h].at # "mark") \/ faults' = faults + 1
          /\ \E step \in {"catch", "complete", "finalise"} : Goto(h, step)
      BY <1>4 DEF CreditConflicts, RebuildLeaderboard, CompleteContest, Fault, At,
         settlementVars
    <3> QED
      BY <1>0, <3>1 DEF Aside
  <2> QED
    BY <2>1, TruthGoto DEF PaySteps
<1>5. CASE Skip(h) \/ Finalise(h) \/ FinaliseFailed(h) \/ SaveReset(h) \/ Crash(h)
  <2>1. Aside(h) /\ entry' = entry /\ Return(h)
    <3>1. /\ credited' = credited /\ snapshot' = snapshot /\ entry' = entry
          /\ resets' = resets /\ Return(h)
          /\ (faults' = faults /\ call[h].at # "mark") \/ faults' = faults + 1
      BY <1>5 DEF Skip, Finalise, FinaliseFailed, SaveReset, Crash, At
    <3> QED
      BY <1>0, <3>1 DEF Aside
  <2> QED
    BY <2>1, TruthReturn
<1>6. CASE ResetForRetry(h)
  <2>1. resets' = resets + 1
    BY <1>6 DEF ResetForRetry
  <2>2. resets' # 0
    BY <1>0, <2>1
  <2> QED
    BY <2>2 DEF TruthInv
<1> QED
  BY <1>1, <1>2, <1>3, <1>4, <1>5, <1>6, LoadTruth, CreditTruth, MarkTruth DEF SettleStep

(* The prize snapshot never changes, the totals that are read are numbers, *)
(* failures are not undone, and a cancelled contest stays cancelled.       *)
LEMMA DataStep ==
  ASSUME DataInv, [Next]_vars
  PROVE  /\ DataInv' /\ snapshot' = snapshot
         /\ faults' >= faults /\ (contest.cancelled => contest'.cancelled)
<1>0. /\ points \in [Entries -> Nat] /\ snapshot \in Snapshots /\ faults \in Nat
      /\ contest = [status |-> contest.status, filled |-> contest.filled,
                    total |-> contest.total, cancelled |-> contest.cancelled,
                    writer |-> contest.writer]
  BY DEF DataInv
<1>1. points' \in [Entries -> Nat] /\ snapshot' = snapshot
  <2>1. ASSUME NEW h \in Handlers, SettleStep(h)
        PROVE  (points' = points \/ points' \in Totals) /\ snapshot' = snapshot
    BY <2>1
    DEF SettleStep, settlementVars, CountActive, ClaimForSettlement, Skip, LoadEntries, CreditWinning, CreditConflicts,
         MarkSettled, RebuildLeaderboard, CompleteContest, Finalise, FinaliseFailed, SaveReset
  <2>2. ASSUME NEW h \in Handlers, NEW force,
               SettleContest(h, force) \/ ResetForRetry(h) \/ Fault(h) \/ Crash(h)
        PROVE  points' = points /\ snapshot' = snapshot
    BY <2>2 DEF SettleContest, ResetForRetry, Fault, Crash, settlementVars
  <2>3. (points' = points \/ points' \in Totals) /\ snapshot' = snapshot
    BY <2>1, <2>2 DEF Next, vars, settlementVars
  <2> QED
    BY <1>0, <2>3, SettlementAssumption
<1>2. faults' = faults \/ faults' = faults + 1
  BY DEF Next, vars, SettleContest, SettleStep, CountActive, ClaimForSettlement,
     Skip, LoadEntries, CreditWinning, CreditConflicts, MarkSettled, RebuildLeaderboard,
     CompleteContest, Finalise, FinaliseFailed, ResetForRetry, SaveReset, Fault, Crash,
     CancelNext, TransitionStatus, CancelContest, LifecycleStep, LifecycleFault, SaveCapacity,
     FindActiveForContest, RefundEntry, MarkRefunded, SweepEnds
<1>3. \/ contest' = contest
      \/ \E s : contest' = [contest EXCEPT !.status = s]
      \/ \E s : contest' = [contest EXCEPT !.status = s, !.cancelled = TRUE]
      \/ \E n : contest' = [contest EXCEPT !.total = n]
  BY DEF Next, vars, SettleContest, SettleStep, CountActive, ClaimForSettlement,
     Skip, LoadEntries, CreditWinning, CreditConflicts, MarkSettled, RebuildLeaderboard,
     CompleteContest, Finalise, FinaliseFailed, ResetForRetry, SaveReset, Fault, Crash,
     CancelNext, TransitionStatus, CancelContest, LifecycleStep, LifecycleFault, SaveCapacity,
     FindActiveForContest, RefundEntry, MarkRefunded, SweepEnds, settlementVars
<1>4. contest' = [status |-> contest'.status, filled |-> contest'.filled,
                  total |-> contest'.total, cancelled |-> contest'.cancelled,
                  writer |-> contest'.writer]
  BY <1>0, <1>3
<1>5. contest.cancelled => contest'.cancelled
  BY <1>0, <1>3
<1> QED
  BY <1>0, <1>1, <1>2, <1>4, <1>5 DEF DataInv

(* All of this holds initially, ...                                        *)
LEMMA KnownInit == Init => Known
<1> SUFFICES ASSUME Init PROVE Known
  OBVIOUS
<1>1. IInv
  BY InitEstablishes
<1>2. CreditInv
  BY IdleShape DEF Init, CreditInv, HasCredited, ShownIsCredited, Idle
<1>3. DataInv
  <2>1. points \in [Entries -> Nat] /\ snapshot \in Snapshots /\ faults = 0
    BY DEF Init
  <2>2. contest = [status |-> contest.status, filled |-> contest.filled,
                   total |-> contest.total, cancelled |-> contest.cancelled,
                   writer |-> contest.writer]
    BY DEF Init
  <2> QED
    BY <2>1, <2>2 DEF DataInv
<1>4. /\ call = [h \in Handlers |-> Idle] /\ \A e \in Entries : credited[e] = NotPosted
      /\ \A e \in Entries : entry[e].winning = 0
      /\ DOMAIN entry = Entries /\ faults = 0
  BY DEF Init
<1>5. TruthInv
  <2>1. \A h \in Handlers : RunInv(h)
    BY <1>4 DEF RunInv, PaySteps, Idle
  <2>2. ActiveUnmarked /\ NaturalWinnings
    BY <1>4 DEF ActiveUnmarked, NaturalWinnings, Active
  <2>3. Untold = {}
    BY <1>4 DEF Untold, Credit
  <2>4. FewUntold
    BY <1>4, <2>3, FS_EmptySet DEF FewUntold
  <2> QED
    BY <2>1, <2>2, <2>4 DEF TruthInv
<1> QED
  BY <1>1, <1>2, <1>3, <1>5 DEF Known

(* ... and in the next state.                                              *)
LEMMA KnownStep == Known /\ [Next]_vars => Known'
<1> SUFFICES ASSUME Known, [Next]_vars PROVE Known'
  OBVIOUS
<1>1. IInv' /\ DataInv'
  BY Preserves, DataStep DEF Known
<1>2. CASE CancelNext /\ UNCHANGED settlementVars
  BY <1>1, <1>2, CancelKeepsCredits, CancelTruth DEF Known
<1>3. CASE \E h \in Handlers, force \in BOOLEAN : SettleContest(h, force)
  BY <1>1, <1>3, SettleKeepsCredits, SettleTruth DEF Known
<1>4. CASE \E h \in Handlers : SettleStep(h) \/ ResetForRetry(h) \/ Fault(h) \/ Crash(h)
  BY <1>1, <1>4, SettleKeepsCredits, SettleTruth DEF Known
<1>5. CASE UNCHANGED vars
  <2>1. CreditInv'
    BY <1>5 DEF vars, settlementVars, CreditInv, SettleShape, HasCredited, ShownIsCredited, Pays,
       Known
  <2>2. TruthInv'
    BY <1>5, SameTruth DEF vars, settlementVars, Known
  <2> QED
    BY <1>1, <2>1, <2>2 DEF Known
<1> QED
  BY <1>2, <1>3, <1>4, <1>5 DEF Next

(* For all entries, ladders, calls, failures and totals at each run: as    *)
(* long as no result was reset, a SETTLED entry shows the winning its      *)
(* wallet was credited, or none; and of the latter kind, credited and      *)
(* shown without a winning, there is at most one for each failure          *)
(* (SettledEntriesTellTruth).                                              *)
THEOREM SettledEntriesAreTrue == Spec => []SettledEntriesTellTruth
<1>1. Known => SettledEntriesTellTruth
  <2> SUFFICES ASSUME Known, resets = 0,
                      NEW misled, misled = {e \in Untold : entry[e].status = "SETTLED"}
               PROVE  /\ \A e \in misled : entry[e].winning = 0
                      /\ Cardinality(misled) <= faults
    BY DEF SettledEntriesTellTruth
  <2>1. misled \subseteq Untold /\ Untold \subseteq Entries
    BY UntoldFinite
  <2>2. /\ IsFiniteSet(Untold) /\ Cardinality(Untold) \in Nat
        /\ Cardinality(misled) \in Nat /\ Cardinality(misled) <= Cardinality(Untold)
    BY <2>1, UntoldFinite
  <2>3. ASSUME NEW e \in misled PROVE entry[e].winning = 0
    <3>1. entry[e].winning \in Nat /\ entry[e].winning # Credit(e) /\ e \in Entries
      BY <2>1 DEF Untold, Known, TruthInv, NaturalWinnings
    <3>2. CASE entry[e].winning > 0
      <4>1. credited[e] = entry[e].winning
        BY <3>1, <3>2 DEF Known, CreditInv, ShownIsCredited
      <4>2. credited[e] # NotPosted
        BY <3>1, <4>1 DEF NotPosted
      <4> QED
        BY <3>1, <4>1, <4>2 DEF Credit
    <3> QED
      BY <3>1, <3>2
  <2>4. CASE Cardinality(Untold) <= faults
    BY <2>2, <2>3, <2>4 DEF Known, DataInv
  <2>5. CASE Cardinality(Untold) <= faults + 1 /\ \E h \in Handlers : Paying(h)
    <3>1. PICK h \in Handlers : Paying(h)
      BY <2>5
    <3>2. PICK todo, a : todo = call[h].todo /\ a = todo[1]
      OBVIOUS
    <3>3. call[h].at = "mark" /\ Pays(a) /\ QueueInv(todo) /\ todo # <<>>
      <4>1. call[h].at = "mark" /\ Pays(a)
        BY <3>1, <3>2 DEF Paying
      <4> QED
        BY <3>2, <4>1, RunFacts DEF PaySteps
    <3>4. a = Head(todo) /\ 1 \in DOMAIN todo /\ a.entry \in Entries /\ a.amount \in Nat
      BY <3>2, <3>3, QueueFacts
    <3>5. /\ credited[a.entry] = a.amount /\ a.amount > 0
          /\ entry[a.entry].winning = 0 /\ entry[a.entry].status # "SETTLED"
      BY <3>2, <3>3, <3>4 DEF Known, CreditInv, HasCredited, Pays, QueueInv, Unmarked, Unsettled
    <3>6. Credit(a.entry) = a.amount
      BY <3>4, <3>5 DEF Credit, NotPosted
    <3>7. a.entry \in Untold
      BY <3>4, <3>5, <3>6 DEF Untold
    <3>8. PICK others : others = Untold \ {a.entry}
      OBVIOUS
    <3>9. IsFiniteSet(others) /\ Cardinality(others) = Cardinality(Untold) - 1
      BY <2>2, <3>7, <3>8, FS_RemoveElement
    <3>10. misled \subseteq others
      BY <3>5, <3>8
    <3>11. Cardinality(misled) <= Cardinality(others)
      BY <3>9, <3>10, FS_Subset
    <3> QED
      BY <2>2, <2>3, <2>5, <3>9, <3>11 DEF Known, DataInv
  <2> QED
    BY <2>3, <2>4, <2>5 DEF Known, TruthInv, FewUntold
<1> QED
  BY <1>1, KnownInit, KnownStep, PTL DEF Spec

-----------------------------------------------------------------------------
(* A settlement without a failure or a cancellation.                       *)

(* A contest with neither a failure nor a cancellation.                    *)
Clean == faults = 0 /\ ~ contest.cancelled

(* What an entry wins among all entries, and that its wallet got it.       *)
Wins(e) == Winnings(e, Entries, points, snapshot)
Due(e) == credited[e] = IF Wins(e) = 0 THEN NotPosted ELSE Wins(e)
AllDue == \A e \in Entries : Due(e)
Untouched == \A e \in Entries : entry[e].status = "ACTIVE" /\ credited[e] = NotPosted

(* The entries of the queue have got nothing, but for the one to be marked. *)
Fresh(c) ==
  \A i \in DOMAIN c.todo : i # 1 \/ c.at = "pay" => credited[c.todo[i].entry] = NotPosted

(* The queue holds what its entries win, and the others have got it.       *)
PaysDue(todo) ==
  /\ \A i \in DOMAIN todo : todo[i].amount = Wins(todo[i].entry)
  /\ \A e \in Entries : (\A i \in DOMAIN todo : todo[i].entry # e) => Due(e)

(* No call of such a contest is in the catch block or resets anything;     *)
(* before its payments nothing is credited, after them everything is.      *)
CleanCall(c) ==
  /\ c.at \in {"idle", "count", "claim", "load", "pay", "mark", "rebuild", "complete", "finalise"}
  /\ c.at = "load" => Untouched
  /\ c.at \in PaySteps => PaysDue(c.todo) /\ Fresh(c)
  /\ c.at = "mark" => Due(c.todo[1].entry)
  /\ c.at \in {"complete", "finalise"} => AllDue

CleanRun(h) == CleanCall(call[h])

(* What the result says of the credits.                                    *)
CleanResult ==
  /\ result.status \in {"none", "IN_PROGRESS", "SETTLED", "SKIPPED"}
  /\ result.status = "none" => Untouched
  /\ result.status = "SETTLED" => AllDue

(* The invariant of EveryWinningIsPaid.                                    *)
CleanInv ==
  Clean => resets = 0 /\ CleanResult /\ \A h \in Handlers : CleanRun(h)

-----------------------------------------------------------------------------
(* Who wins something is paid by some slab.                                *)
LEMMA WinsArePaid ==
  ASSUME DataInv, NEW e \in Entries
  PROVE  Wins(e) \in Nat /\ (Wins(e) > 0 => SnapshotHasPayouts(snapshot))
<1>1. Scored(Entries, points)
  <2>1. IsFiniteSet(Entries)
    BY SettlementAssumption, FS_Interval DEF Entries
  <2> QED
    BY <2>1 DEF Scored, Entries, DataInv
<1>2. PICK s, A : s = Sorted(Entries, points) /\ A = AllocateWinnings(Entries, points, snapshot)
  OBVIOUS
<1>3. snapshot \in PrizeSnapshot /\ ValidSlabs(snapshot)
  BY SettlementAssumption DEF DataInv
<1>4. PICK p \in DOMAIN s : s[p] = e
  <2>1. Sorts(s, Entries, points)
    BY <1>1, <1>2, SortedSorts
  <2> QED
    BY <2>1 DEF Sorts
<1>5. A[p].amount = Wins(e)
  <2>1. A[p].amount = Winnings(s[p], Entries, points, snapshot)
    BY <1>1, <1>2, <1>3, EachWins
  <2> QED
    BY <1>4, <2>1 DEF Wins
<1>6. A[p].amount \in Nat
  <2>1. Allocated(A, s, p, points, snapshot)
    BY <1>1, <1>2, <1>3, Allocation
  <2> QED
    BY <2>1, Zenon DEF Allocated
<1>7. A[p].amount > 0 => SnapshotHasPayouts(snapshot)
  BY <1>1, <1>2, <1>3, WinnersArePaid
<1> QED
  BY <1>5, <1>6, <1>7

(* A call that goes a step without crediting or marking.                   *)
LEMMA CleanFrame ==
  ASSUME Known, CleanInv, Clean, NEW h \in Handlers, NEW c, call' = [call EXCEPT ![h] = c],
         CleanCall(c), credited' = credited, entry' = entry, points' = points,
         snapshot' = snapshot, resets' = resets, CleanResult'
  PROVE  CleanInv'
<1>1. \A g \in Handlers : call'[g] = IF g = h THEN c ELSE call[g]
  BY DEF Known, CreditInv
<1>2. resets = 0 /\ \A g \in Handlers : CleanCall(call[g])
  BY DEF CleanInv, CleanRun
<1>3. ASSUME NEW g \in Handlers PROVE CleanRun(g)'
  <2>1. PICK d : d = call'[g]
    OBVIOUS
  <2>2. CleanCall(d)
    BY <1>1, <1>2, <2>1
  <2>3. CleanCall(d)'
    BY <2>2 DEF CleanCall, Untouched, Fresh, PaysDue, AllDue, Due, Wins
  <2> QED
    BY <2>1, <2>3 DEF CleanRun, CleanCall
<1> QED
  BY <1>2, <1>3 DEF CleanInv

(* The run that credits ...                                                *)
LEMMA CleanCredit ==
  ASSUME Known, CleanInv, Clean, NEW h \in Handlers, CreditWinning(h)
  PROVE  CleanInv'
<1>0. /\ entry' = entry /\ points' = points /\ snapshot' = snapshot /\ faults' = faults
      /\ resets' = resets /\ result' = result
  BY DEF CreditWinning
<1>1. resets = 0 /\ CleanResult /\ \A g \in Handlers : CleanCall(call[g])
  BY DEF CleanInv, CleanRun
<1>2. PICK todo : todo = call[h].todo
  OBVIOUS
<1>3. PICK a : a = todo[1]
  OBVIOUS
<1>4. /\ todo # <<>> /\ call[h].at = "pay" /\ a = Head(todo)
      /\ \A e \in Entries : e # a.entry => credited'[e] = credited[e]
      /\ Pays(a) => credited'[a.entry] = a.amount /\ a.amount \in Nat \ {0}
      /\ ~ Pays(a) => credited' = credited
  BY <1>1, <1>2, <1>3, CreditGoes
<1>5. /\ QueueInv(todo)
      /\ \A g \in Handlers : g # h => ~ (call[g].at \in PaySteps)
  <2>1. call[h].at \in PaySteps
    BY <1>4 DEF PaySteps
  <2> QED
    BY <1>1, <1>2, <1>4, <2>1, RunFacts
<1>6. /\ 1 \in DOMAIN todo /\ a.entry \in Entries /\ a.amount \in Nat
      /\ \A i \in DOMAIN todo : i # 1 => todo[i].entry \in Entries /\ todo[i].entry # a.entry
  BY <1>3, <1>4, <1>5, QueueFacts
<1>7. /\ \A g \in Handlers : g # h => call'[g] = call[g]
      /\ call'[h].at = "mark" /\ call'[h].todo = todo
  BY <1>2, CreditCalls DEF Known
<1>8. PaysDue(todo) /\ Fresh(call[h])
  BY <1>1, <1>2, <1>4 DEF CleanCall, PaySteps
<1>9. a.amount = Wins(a.entry)
  BY <1>3, <1>6, <1>8 DEF PaysDue
<1>10. Due(a.entry)'
  <2>1. credited[a.entry] = NotPosted
    BY <1>2, <1>3, <1>4, <1>6, <1>8 DEF Fresh
  <2>2. Wins(a.entry)' = Wins(a.entry)
    BY <1>0 DEF Wins
  <2>3. CASE Pays(a)
    BY <1>4, <1>9, <2>2, <2>3 DEF Due
  <2>4. CASE ~ Pays(a)
    <3>1. Wins(a.entry) = 0
      BY <1>6, <1>9, <2>4, WinsArePaid DEF Known, Pays
    <3> QED
      BY <1>4, <2>1, <2>2, <2>4, <3>1 DEF Due
  <2> QED
    BY <2>3, <2>4
<1>11. PaysDue(todo)'
  <2> SUFFICES ASSUME NEW e \in Entries, \A i \in DOMAIN todo : todo[i].entry # e
               PROVE  Due(e)'
    BY <1>0, <1>8 DEF PaysDue, Wins
  <2>1. e # a.entry
    BY <1>3, <1>6
  <2>2. Due(e)
    BY <1>8 DEF PaysDue
  <2> QED
    BY <1>0, <1>4, <2>1, <2>2 DEF Due, Wins
<1>12. result.status = "IN_PROGRESS" /\ \A g \in Handlers : g # h => ~ Runs(g)
  <2>1. Runs(h) /\ IInv
    BY <1>4 DEF Known, Runs, Running, InTry
  <2> QED
    BY <1>1, <2>1, Alone DEF IInv, RunnerHoldsClaim
<1>13. CleanResult'
  BY <1>0, <1>12 DEF CleanResult
<1>14. Fresh(call[h])'
  BY <1>2, <1>4, <1>6, <1>7, <1>8 DEF Fresh
<1>15. ASSUME NEW g \in Handlers PROVE CleanRun(g)'
  <2>1. CASE g = h
    BY <1>3, <1>7, <1>10, <1>11, <1>14, <2>1 DEF CleanRun, CleanCall
  <2>2. CASE g # h
    <3>1. call'[g] = call[g] /\ CleanCall(call[g]) /\ ~ (call[g].at \in Running)
      BY <1>1, <1>7, <1>12, <2>2 DEF Runs
    <3> QED
      BY <3>1 DEF CleanRun, CleanCall, Running, InTry, PaySteps
  <2> QED
    BY <2>1, <2>2
<1> QED
  BY <1>0, <1>1, <1>13, <1>15 DEF CleanInv

(* ... and that marks.                                                     *)
LEMMA CleanMark ==
  ASSUME Known, CleanInv, Clean, NEW h \in Handlers, MarkSettled(h)
  PROVE  CleanInv'
<1>0. /\ credited' = credited /\ points' = points /\ snapshot' = snapshot /\ faults' = faults
      /\ resets' = resets /\ result' = result /\ call[h].at = "mark"
  BY DEF MarkSettled, settlementVars, At
<1>1. resets = 0 /\ CleanResult /\ \A g \in Handlers : CleanCall(call[g])
  BY DEF CleanInv, CleanRun
<1>2. PICK todo : todo = call[h].todo
  OBVIOUS
<1>3. QueueInv(todo) /\ todo # <<>>
  <2>1. call[h].at \in PaySteps
    BY <1>0 DEF PaySteps
  <2> QED
    BY <1>0, <1>1, <1>2, <2>1, RunFacts
<1>4. todo \in Seq(Allots) /\ todo # <<>> /\ 1 \in DOMAIN todo
  BY <1>3, QueueFacts DEF QueueInv
<1>5. PICK rest : rest = Tail(todo)
  OBVIOUS
<1>6. /\ DOMAIN rest = 1..(Len(todo) - 1) /\ Len(todo) \in Nat /\ DOMAIN todo = 1..Len(todo)
      /\ \A i \in DOMAIN rest : i + 1 \in DOMAIN todo /\ i + 1 # 1 /\ rest[i] = todo[i + 1]
  BY <1>4, <1>5
<1>7. /\ call'[h].at = "pay" /\ call'[h].todo = rest
      /\ \A g \in Handlers : g # h => call'[g] = call[g]
  <2>1. /\ DOMAIN call[h] = SettleFields /\ call = [g \in Handlers |-> call[g]]
    BY <1>0 DEF Known, CreditInv, SettleShape, SettleSteps, Running, InTry
  <2>2. call' = [call EXCEPT ![h].at = "pay", ![h].todo = Tail(@)]
    BY DEF MarkSettled
  <2> QED
    BY <1>2, <1>5, <2>1, <2>2 DEF SettleFields
<1>8. PaysDue(todo) /\ Due(todo[1].entry) /\ Fresh(call[h])
  BY <1>0, <1>1, <1>2 DEF CleanCall, PaySteps
<1>9. PaysDue(rest)'
  <2>1. \A i \in DOMAIN rest : rest[i].amount = Wins(rest[i].entry)
    BY <1>6, <1>8 DEF PaysDue
  <2>2. ASSUME NEW e \in Entries, \A i \in DOMAIN rest : rest[i].entry # e PROVE Due(e)
    <3>1. ASSUME NEW i \in DOMAIN todo, i # 1 PROVE todo[i].entry # e
      <4>1. i - 1 \in DOMAIN rest /\ (i - 1) + 1 = i
        BY <1>6, <3>1
      <4>2. rest[i - 1] = todo[i]
        BY <1>6, <4>1
      <4> QED
        BY <2>2, <4>1, <4>2
    <3>2. CASE todo[1].entry = e
      BY <1>8, <3>2
    <3>3. CASE todo[1].entry # e
      BY <1>8, <3>1, <3>3 DEF PaysDue
    <3> QED
      BY <3>2, <3>3
  <2> QED
    BY <1>0, <2>1, <2>2 DEF PaysDue, Due, Wins
<1>10. result.status = "IN_PROGRESS" /\ \A g \in Handlers : g # h => ~ Runs(g)
  <2>1. Runs(h) /\ IInv
    BY <1>0 DEF Known, Runs, Running, InTry
  <2> QED
    BY <1>1, <2>1, Alone DEF IInv, RunnerHoldsClaim
<1>11. CleanResult'
  BY <1>0, <1>10 DEF CleanResult
<1>12. Fresh(call[h])'
  BY <1>0, <1>2, <1>6, <1>7, <1>8 DEF Fresh
<1>13. ASSUME NEW g \in Handlers PROVE CleanRun(g)'
  <2>1. CASE g = h
    BY <1>7, <1>9, <1>12, <2>1 DEF CleanRun, CleanCall
  <2>2. CASE g # h
    <3>1. call'[g] = call[g] /\ CleanCall(call[g]) /\ ~ (call[g].at \in Running)
      BY <1>1, <1>7, <1>10, <2>2 DEF Runs
    <3> QED
      BY <3>1 DEF CleanRun, CleanCall, Running, InTry, PaySteps
  <2> QED
    BY <2>1, <2>2
<1> QED
  BY <1>0, <1>1, <1>11, <1>13 DEF CleanInv

(* A run that nothing preceded computes from the whole field.              *)
LEMMA CleanLoad ==
  ASSUME Known, CleanInv, Clean, NEW h \in Handlers, LoadEntries(h)
  PROVE  CleanInv'
<1>0. /\ credited' = credited /\ snapshot' = snapshot /\ points' \in [Entries -> Nat]
      /\ resets' = resets /\ entry' = entry /\ result' = result /\ call[h].at = "load"
  BY SettlementAssumption DEF LoadEntries, At
<1>1. PICK pts, todo : pts = points' /\ todo = AllocateWinnings(Active, pts, snapshot)
  OBVIOUS
<1>2. /\ resets = 0 /\ Untouched /\ CleanResult
      /\ \A g \in Handlers : CleanCall(call[g])
  BY <1>0 DEF CleanInv, CleanRun, CleanCall
<1>3. Active = Entries
  BY <1>2, ActiveEntries DEF Untouched, Known
<1>4. /\ Waiting(todo)
      /\ \A i \in DOMAIN todo :
           /\ todo[i].entry \in Active
           /\ todo[i].amount = Winnings(todo[i].entry, Active, pts, snapshot)
  BY <1>0, <1>1, LoadedQueue DEF Known
<1>5. /\ call'[h].at = "pay" /\ call'[h].todo = todo
      /\ \A g \in Handlers : g # h => call'[g] = call[g]
  <2>1. /\ DOMAIN call[h] = SettleFields /\ call = [g \in Handlers |-> call[g]]
    BY <1>0 DEF Known, CreditInv, SettleShape, SettleSteps, Running, InTry
  <2>2. call' = [call EXCEPT ![h].at = "pay", ![h].todo = todo]
    BY <1>1 DEF LoadEntries
  <2> QED
    BY <2>1, <2>2 DEF SettleFields
<1>6. PaysDue(todo)'
  BY <1>0, <1>1, <1>3, <1>4 DEF PaysDue, Waiting, Wins
<1>7. Fresh(call[h])'
  BY <1>0, <1>2, <1>3, <1>4, <1>5 DEF Fresh, Untouched
<1>8. result.status = "IN_PROGRESS" /\ \A g \in Handlers : g # h => ~ Runs(g)
  <2>1. Runs(h) /\ IInv
    BY <1>0 DEF Known, Runs, Running, InTry
  <2> QED
    BY <1>2, <2>1, Alone DEF IInv, RunnerHoldsClaim
<1>9. CleanResult'
  BY <1>0, <1>8 DEF CleanResult
<1>10. ASSUME NEW g \in Handlers PROVE CleanRun(g)'
  <2>1. CASE g = h
    BY <1>5, <1>6, <1>7, <2>1 DEF CleanRun, CleanCall
  <2>2. CASE g # h
    <3>1. call'[g] = call[g] /\ CleanCall(call[g]) /\ ~ (call[g].at \in Running)
      BY <1>2, <1>5, <1>8, <2>2 DEF Runs
    <3> QED
      BY <3>1 DEF CleanRun, CleanCall, Running, InTry, PaySteps
  <2> QED
    BY <2>1, <2>2
<1> QED
  BY <1>0, <1>2, <1>9, <1>10 DEF CleanInv

(* The steps of a settlement that meets no trouble, and those that only    *)
(* trouble brings about.                                                   *)
LEMMA CleanSettle ==
  ASSUME Known, CleanInv, Clean, Clean', NEW h \in Handlers, NEW force,
         SettleContest(h, force) \/ SettleStep(h) \/ ResetForRetry(h) \/ Fault(h) \/ Crash(h)
  PROVE  CleanInv'
<1>0. /\ resets = 0 /\ faults = 0 /\ CleanResult
      /\ CleanCall(call[h]) /\ IInv /\ CreditInv
  BY DEF CleanInv, CleanRun, Clean, Known
<1>1. ASSUME NEW c, call' = [call EXCEPT ![h] = c], CleanCall(c), credited' = credited,
             entry' = entry, points' = points, snapshot' = snapshot, resets' = resets,
             CleanResult'
      PROVE  CleanInv'
  BY <1>1, CleanFrame
<1>2. credited' = credited /\ entry' = entry /\ points' = points /\ snapshot' = snapshot
      /\ result' = result => CleanResult'
  BY <1>0 DEF CleanResult, Untouched, AllDue, Due, Wins
<1>3. CleanCall(Idle)
  BY DEF CleanCall, Idle, PaySteps
<1>4. ASSUME NEW step, Goto(h, step)
      PROVE  \E c : call' = [call EXCEPT ![h] = c] /\ c.at = step
  <2>1. PICK c : c = [call[h] EXCEPT !.at = step]
    OBVIOUS
  <2>2. call' = [call EXCEPT ![h] = c] /\ c.at = step
    BY <1>0, <1>4, <2>1 DEF Goto, CreditInv
  <2> QED
    BY <2>2
<1>5. CASE SettleContest(h, force)
  <2>1. PICK c : c = [at |-> "count", seen |-> contest.status, count |-> 0,
                      todo |-> <<>>, paid |-> 0]
    OBVIOUS
  <2>2. /\ call' = [call EXCEPT ![h] = c] /\ credited' = credited /\ snapshot' = snapshot
        /\ entry' = entry /\ points' = points /\ resets' = resets /\ result' = result
    BY <1>5, <2>1 DEF SettleContest, Start, settlementVars
  <2>3. CleanCall(c)
    BY <2>1 DEF CleanCall, PaySteps
  <2> QED
    BY <1>1, <1>2, <2>2, <2>3
<1>6. CASE CountActive(h)
  <2>1. /\ credited' = credited /\ snapshot' = snapshot /\ entry' = entry /\ points' = points
        /\ resets' = resets /\ result' = result /\ call[h].at = "count"
    BY <1>6 DEF CountActive, settlementVars, At
  <2>2. CASE Return(h)
    BY <1>1, <1>2, <1>3, <2>1, <2>2 DEF Return
  <2>3. CASE ~Return(h)
    <3>1. PICK c : c = [call[h] EXCEPT !.at = "claim", !.count = Cardinality(Active)]
      OBVIOUS
    <3>2. call' = [call EXCEPT ![h] = c]
      BY <1>0, <1>6, <2>3, <3>1 DEF CountActive, CreditInv
    <3>3. DOMAIN call[h] = SettleFields
      BY <1>0, <2>1 DEF CreditInv, SettleShape, SettleSteps
    <3>4. c.at = "claim"
      BY <3>1, <3>3 DEF SettleFields
    <3>5. CleanCall(c)
      BY <3>4 DEF CleanCall, PaySteps
    <3> QED
      BY <1>1, <1>2, <2>1, <3>2, <3>5
  <2> QED
    BY <2>2, <2>3
<1>7. CASE ClaimForSettlement(h)
  <2>1. /\ credited' = credited /\ snapshot' = snapshot /\ entry' = entry /\ points' = points
        /\ resets' = resets
    BY <1>7 DEF ClaimForSettlement
  <2>2. CASE result.status \in {"none", "NOT_STARTED", "FAILED"}
    <3>1. Untouched
      BY <1>0, <2>2 DEF CleanResult
    <3>2. /\ result' = [result EXCEPT !.status = "IN_PROGRESS", !.token = h]
          /\ Goto(h, "load")
      BY <1>7, <2>2 DEF ClaimForSettlement
    <3>3. result'.status = "IN_PROGRESS"
      BY <1>0, <3>2 DEF IInv, Shape
    <3>4. PICK c : call' = [call EXCEPT ![h] = c] /\ c.at = "load"
      BY <1>4, <3>2
    <3>5. CleanCall(c)
      BY <3>1, <3>4 DEF CleanCall, PaySteps
    <3>6. CleanResult'
      BY <3>3 DEF CleanResult
    <3> QED
      BY <1>1, <2>1, <3>4, <3>5, <3>6
  <2>3. CASE result.status \notin {"none", "NOT_STARTED", "FAILED"}
    <3>1. Return(h) /\ result' = result
      BY <1>7, <2>3 DEF ClaimForSettlement
    <3> QED
      BY <1>1, <1>2, <1>3, <2>1, <3>1 DEF Return
  <2> QED
    BY <2>2, <2>3
<1>8. CASE Skip(h) \/ Finalise(h)
  <2>1. /\ credited' = credited /\ snapshot' = snapshot /\ entry' = entry /\ points' = points
        /\ resets' = resets /\ Return(h)
        /\ call[h].at \in {"load", "finalise"}
    BY <1>8 DEF Skip, Finalise, At
  <2>2. result.token = h
    BY <1>0, <2>1 DEF IInv, RunnerHoldsClaim, Runs, Running, InTry
  <2>3. CASE Skip(h)
    <3>1. result'.status = "SKIPPED"
      BY <1>0, <2>2, <2>3 DEF Skip, Finalised, IInv, Shape
    <3>2. CleanResult'
      BY <3>1 DEF CleanResult
    <3> QED
      BY <1>1, <1>3, <2>1, <3>2 DEF Return
  <2>4. CASE Finalise(h)
    <3>1. result'.status = "SETTLED"
      BY <1>0, <2>2, <2>4 DEF Finalise, Finalised, IInv, Shape
    <3>2. AllDue
      BY <1>0, <2>4 DEF CleanCall, Finalise, At
    <3>3. CleanResult'
      BY <2>1, <3>1, <3>2 DEF CleanResult, AllDue, Due, Wins
    <3> QED
      BY <1>1, <1>3, <2>1, <3>3 DEF Return
  <2> QED
    BY <1>8, <2>3, <2>4
<1>9. CASE RebuildLeaderboard(h) \/ CompleteContest(h)
  <2>1. /\ credited' = credited /\ snapshot' = snapshot /\ entry' = entry /\ points' = points
        /\ resets' = resets /\ result' = result
        /\ Goto(h, "complete") \/ Goto(h, "finalise")
    BY <1>9 DEF RebuildLeaderboard, CompleteContest, settlementVars
  <2>2. AllDue
    <3>1. CASE RebuildLeaderboard(h)
      <4>1. call[h].at = "pay" /\ call[h].todo = <<>>
        BY <3>1 DEF RebuildLeaderboard, At
      <4>2. PaysDue(<<>>)
        BY <1>0, <4>1 DEF CleanCall, PaySteps
      <4> QED
        BY <4>2 DEF PaysDue, AllDue
    <3>2. CASE CompleteContest(h)
      BY <1>0, <3>2 DEF CompleteContest, At, CleanCall
    <3> QED
      BY <1>9, <3>1, <3>2
  <2>3. PICK c : call' = [call EXCEPT ![h] = c] /\ c.at \in {"complete", "finalise"}
    BY <1>4, <2>1
  <2>4. CleanCall(c)
    BY <2>2, <2>3 DEF CleanCall, PaySteps
  <2> QED
    BY <1>1, <1>2, <2>1, <2>3, <2>4
<1>10. ~ CreditConflicts(h)
  <2> SUFFICES ASSUME CreditConflicts(h) PROVE FALSE
    OBVIOUS
  <2>1. PICK todo : todo = call[h].todo
    OBVIOUS
  <2>2. call[h].at = "pay" /\ todo # <<>> /\ credited[Head(todo).entry] # NotPosted
    BY <2>1 DEF CreditConflicts, At
  <2>3. QueueInv(todo)
    BY <1>0, <2>1, <2>2, RunFacts DEF PaySteps
  <2>4. Head(todo) = todo[1] /\ 1 \in DOMAIN todo
    BY <2>2, <2>3, QueueFacts
  <2>5. Fresh(call[h])
    BY <1>0, <2>2 DEF CleanCall, PaySteps
  <2> QED
    BY <2>1, <2>2, <2>4, <2>5 DEF Fresh
<1>11. ~ FinaliseFailed(h) /\ ~ SaveReset(h)
  BY <1>0 DEF FinaliseFailed, SaveReset, At, CleanCall
<1>12. ~ ResetForRetry(h)
  BY <1>0 DEF ResetForRetry, CleanResult
<1>13. ~ Fault(h) /\ ~ Crash(h)
  BY <1>0 DEF Fault, Crash, Clean
<1> QED
  BY <1>5, <1>6, <1>7, <1>8, <1>9, <1>10, <1>11, <1>12, <1>13, CleanLoad, CleanCredit,
     CleanMark DEF SettleStep

(* A cancellation that has not ended leaves the payments as they are.      *)
LEMMA CleanCancel ==
  ASSUME Known, CleanInv, Clean, Clean', CancelNext, UNCHANGED settlementVars
  PROVE  CleanInv'
<1>0. /\ resets = 0 /\ faults = 0 /\ CleanResult
      /\ \A h \in Handlers : CleanRun(h)
  BY DEF CleanInv, Clean
<1>1. ASSUME NEW target \in Statuses, TransitionStatus(target) PROVE CleanInv'
  <2>1. call' = call /\ entry' = entry
    BY <1>1 DEF TransitionStatus
  <2>2. CleanResult'
    BY <1>0, <2>1 DEF CleanResult, Untouched, AllDue, Due, Wins, settlementVars
  <2>3. \A h \in Handlers : CleanRun(h)'
    BY <1>0, <2>1
    DEF CleanRun, CleanCall, Fresh, PaysDue, Untouched, AllDue, Due, Wins, settlementVars
  <2> QED
    BY <1>0, <2>2, <2>3 DEF CleanInv, settlementVars
<1>2. ASSUME NEW h \in Handlers PROVE ~ CancelContest(h)
  <2> SUFFICES ASSUME CancelContest(h) PROVE FALSE
    OBVIOUS
  <2>1. contest' = [contest EXCEPT !.status = "CANCELLED", !.cancelled = TRUE]
    BY DEF CancelContest
  <2>2. contest'.cancelled
    BY <2>1 DEF Known, DataInv
  <2> QED
    BY <2>2 DEF Clean
<1>3. ASSUME NEW h \in Handlers PROVE ~ LifecycleStep(h) /\ ~ LifecycleFault(h)
  <2>1. call[h].at \notin LifecycleSteps
    BY <1>0 DEF CleanRun, CleanCall, LifecycleSteps
  <2> QED
    BY <2>1 DEF LifecycleStep, LifecycleFault, LifecycleSteps, SaveCapacity, RefundEntry,
       FindActiveForContest, MarkRefunded, SweepEnds, At
<1> QED
  BY <1>1, <1>2, <1>3 DEF CancelNext

(* A settlement that met no fault and no cancellation credited every entry *)
(* what the rules give it (SettlementPaysWinnings).                        *)
THEOREM EveryWinningIsPaid == Spec => []SettlementPaysWinnings
<1>1. Init => Known /\ CleanInv
  <2> SUFFICES ASSUME Init PROVE CleanInv
    BY KnownInit
  <2>1. Untouched
    BY DEF Init, Untouched
  <2>2. result.status = "none" /\ resets = 0
    BY DEF Init
  <2>3. \A h \in Handlers : CleanRun(h)
    BY DEF Init, CleanRun, CleanCall, Idle, PaySteps
  <2> QED
    BY <2>1, <2>2, <2>3 DEF CleanInv, CleanResult
<1>2. (Known /\ CleanInv) /\ [Next]_vars => (Known /\ CleanInv)'
  <2> SUFFICES ASSUME Known, CleanInv, [Next]_vars, Clean' PROVE CleanInv'
    BY KnownStep DEF CleanInv
  <2>1. Clean
    <3>1. faults' >= faults /\ (contest.cancelled => contest'.cancelled)
      BY DataStep DEF Known
    <3>2. faults \in Nat
      BY DEF Known, DataInv
    <3> QED
      BY <3>1, <3>2 DEF Clean
  <2>2. CASE CancelNext /\ UNCHANGED settlementVars
    BY <2>1, <2>2, CleanCancel
  <2>3. CASE \E h \in Handlers, force \in BOOLEAN : SettleContest(h, force)
    BY <2>1, <2>3, CleanSettle
  <2>4. CASE \E h \in Handlers : SettleStep(h) \/ ResetForRetry(h) \/ Fault(h) \/ Crash(h)
    BY <2>1, <2>4, CleanSettle
  <2>5. CASE UNCHANGED vars
    BY <2>5 DEF vars, settlementVars, CleanInv, Clean, CleanResult, CleanRun, CleanCall, Fresh,
       PaysDue, Untouched, AllDue, Due, Wins
  <2> QED
    BY <2>2, <2>3, <2>4, <2>5 DEF Next
<1>3. CleanInv => SettlementPaysWinnings
  BY DEF CleanInv, Clean, CleanResult, AllDue, Due, Wins, SettlementPaysWinnings
<1> QED
  BY <1>1, <1>2, <1>3, PTL DEF Spec

-----------------------------------------------------------------------------
(* What has been credited, before anything fails.                          *)

(* Nothing was credited yet.                                               *)
Unpaid == \A e \in Entries : credited[e] = NotPosted

(* Until something fails there is one run, and all it credits is what the  *)
(* rules give the entries it has loaded, the field.                        *)
PaysField(todo, field) ==
  \A i \in DOMAIN todo :
    /\ todo[i].entry \in field
    /\ todo[i].amount = Winnings(todo[i].entry, field, points, snapshot)

(* A call whose payments are those of the field.                           *)
FieldCall(c, field) ==
  /\ c.at \notin {"catch", "reset"}
  /\ c.at = "load" => Unpaid
  /\ c.at \in PaySteps => PaysField(c.todo, field)

FieldRun(h, field) == FieldCall(call[h], field)

(* Before the first claim nothing is credited.                             *)
FieldResult ==
  /\ result.status \in {"none", "IN_PROGRESS", "SETTLED", "SKIPPED"}
  /\ result.status = "none" => Unpaid

(* What was credited are winnings of the field.                            *)
PaidFrom(field) ==
  \A e \in Entries :
    credited[e] # NotPosted => e \in field /\ credited[e] = Winnings(e, field, points, snapshot)

Fields(field) == PaidFrom(field) /\ \A h \in Handlers : FieldRun(h, field)

(* The invariant of PoolIsKept: there is one field for everything.         *)
FieldInv ==
  faults = 0 => resets = 0 /\ FieldResult /\ \E field \in SUBSET Entries : Fields(field)

-----------------------------------------------------------------------------
(* A call that goes a step without crediting, and is not on its way        *)
(* through the entries.                                                    *)
LEMMA FieldFrame ==
  ASSUME Known, FieldInv, faults = 0, NEW h \in Handlers, NEW c, call' = [call EXCEPT ![h] = c],
         c.at \notin {"catch", "reset"} \cup PaySteps, c.at = "load" => Unpaid,
         credited' = credited, points' = points, snapshot' = snapshot, resets' = resets,
         FieldResult'
  PROVE  FieldInv'
<1>1. \A g \in Handlers : call'[g] = IF g = h THEN c ELSE call[g]
  BY DEF Known, CreditInv
<1>2. PICK field \in SUBSET Entries : Fields(field)
  BY DEF FieldInv
<1>3. resets = 0 /\ PaidFrom(field) /\ \A g \in Handlers : FieldCall(call[g], field)
  BY <1>2 DEF FieldInv, Fields, FieldRun
<1>4. ASSUME NEW g \in Handlers PROVE FieldRun(g, field)'
  <2>1. PICK d : d = call'[g]
    OBVIOUS
  <2>2. FieldCall(d, field)
    <3>1. CASE g = h
      BY <1>1, <2>1, <3>1 DEF FieldCall
    <3>2. CASE g # h
      BY <1>1, <1>3, <2>1, <3>2
    <3> QED
      BY <3>1, <3>2
  <2>3. FieldCall(d, field)'
    BY <2>2 DEF FieldCall, Unpaid, PaysField
  <2> QED
    BY <2>1, <2>3 DEF FieldRun, FieldCall
<1>5. PaidFrom(field)'
  BY <1>3 DEF PaidFrom
<1>6. Fields(field)'
  BY <1>4, <1>5 DEF Fields
<1> QED
  BY <1>3, <1>6 DEF FieldInv

(* A credit pays an entry of the field what the field gives it.            *)
LEMMA FieldCredit ==
  ASSUME Known, FieldInv, faults = 0, NEW h \in Handlers, CreditWinning(h)
  PROVE  FieldInv'
<1>0. /\ points' = points /\ snapshot' = snapshot /\ resets' = resets /\ result' = result
      /\ call[h].at = "pay"
  BY DEF CreditWinning, At
<1>1. PICK field \in SUBSET Entries : Fields(field)
  BY DEF FieldInv
<1>2. /\ resets = 0 /\ FieldResult /\ PaidFrom(field)
      /\ \A g \in Handlers : FieldCall(call[g], field)
  BY <1>1 DEF FieldInv, Fields, FieldRun
<1>3. PICK todo, a : todo = call[h].todo /\ a = todo[1]
  OBVIOUS
<1>4. /\ todo # <<>>
      /\ \A e \in Entries : e # a.entry => credited'[e] = credited[e]
      /\ Pays(a) => credited'[a.entry] = a.amount
      /\ ~ Pays(a) => credited' = credited
  BY <1>2, <1>3, CreditGoes
<1>5. QueueInv(todo)
  BY <1>0, <1>2, <1>3, RunFacts DEF PaySteps
<1>6. 1 \in DOMAIN todo /\ a.entry \in Entries
  BY <1>3, <1>4, <1>5, QueueFacts
<1>7. /\ \A g \in Handlers : g # h => call'[g] = call[g]
      /\ call'[h].at = "mark" /\ call'[h].todo = todo
  BY <1>3, CreditCalls DEF Known
<1>8. PaysField(todo, field)
  BY <1>0, <1>2, <1>3 DEF FieldCall, PaySteps
<1>9. a.entry \in field /\ a.amount = Winnings(a.entry, field, points, snapshot)
  BY <1>3, <1>6, <1>8 DEF PaysField
<1>10. PaidFrom(field)'
  <2> SUFFICES ASSUME NEW e \in Entries, credited'[e] # NotPosted
               PROVE  e \in field /\ credited'[e] = Winnings(e, field, points, snapshot)
    BY <1>0 DEF PaidFrom
  <2>1. CASE e = a.entry /\ Pays(a)
    BY <1>4, <1>9, <2>1
  <2>2. CASE ~ (e = a.entry /\ Pays(a))
    <3>1. credited'[e] = credited[e]
      BY <1>4, <2>2
    <3> QED
      BY <1>2, <3>1 DEF PaidFrom
  <2> QED
    BY <2>1, <2>2
<1>11. result.status = "IN_PROGRESS" /\ \A g \in Handlers : g # h => ~ Runs(g)
  <2>1. Runs(h) /\ IInv
    BY <1>0 DEF Known, Runs, Running, InTry
  <2> QED
    BY <1>2, <2>1, Alone DEF IInv, RunnerHoldsClaim
<1>12. FieldResult'
  BY <1>0, <1>11 DEF FieldResult
<1>13. ASSUME NEW g \in Handlers PROVE FieldRun(g, field)'
  <2>1. CASE g = h
    <3>1. PaysField(todo, field)'
      BY <1>0, <1>8 DEF PaysField
    <3> QED
      BY <1>7, <2>1, <3>1 DEF FieldRun, FieldCall
  <2>2. CASE g # h
    <3>1. call'[g] = call[g] /\ FieldCall(call[g], field) /\ ~ (call[g].at \in Running)
      BY <1>2, <1>7, <1>11, <2>2 DEF Runs
    <3> QED
      BY <3>1 DEF FieldRun, FieldCall, Running, InTry, PaySteps
  <2> QED
    BY <2>1, <2>2
<1>14. Fields(field)'
  BY <1>10, <1>13 DEF Fields
<1> QED
  BY <1>0, <1>2, <1>12, <1>14 DEF FieldInv

(* A mark shortens the queue.                                              *)
LEMMA FieldMark ==
  ASSUME Known, FieldInv, faults = 0, NEW h \in Handlers, MarkSettled(h)
  PROVE  FieldInv'
<1>0. /\ credited' = credited /\ points' = points /\ snapshot' = snapshot
      /\ resets' = resets /\ result' = result /\ call[h].at = "mark"
  BY DEF MarkSettled, settlementVars, At
<1>1. PICK field \in SUBSET Entries : Fields(field)
  BY DEF FieldInv
<1>2. /\ resets = 0 /\ FieldResult /\ PaidFrom(field)
      /\ \A g \in Handlers : FieldCall(call[g], field)
  BY <1>1 DEF FieldInv, Fields, FieldRun
<1>3. PICK todo : todo = call[h].todo
  OBVIOUS
<1>4. QueueInv(todo) /\ todo # <<>>
  BY <1>0, <1>2, <1>3, RunFacts DEF PaySteps
<1>5. todo \in Seq(Allots) /\ todo # <<>>
  BY <1>4 DEF QueueInv
<1>6. PICK rest : rest = Tail(todo)
  OBVIOUS
<1>7. \A i \in DOMAIN rest : i + 1 \in DOMAIN todo /\ rest[i] = todo[i + 1]
  BY <1>5, <1>6
<1>8. /\ call'[h].at = "pay" /\ call'[h].todo = rest
      /\ \A g \in Handlers : g # h => call'[g] = call[g]
  <2>1. /\ DOMAIN call[h] = SettleFields /\ call = [g \in Handlers |-> call[g]]
    BY <1>0 DEF Known, CreditInv, SettleShape, SettleSteps, Running, InTry
  <2>2. call' = [call EXCEPT ![h].at = "pay", ![h].todo = Tail(@)]
    BY DEF MarkSettled
  <2> QED
    BY <1>3, <1>6, <2>1, <2>2 DEF SettleFields
<1>9. PaysField(todo, field)
  BY <1>0, <1>2, <1>3 DEF FieldCall, PaySteps
<1>10. PaysField(rest, field)
  BY <1>7, <1>9 DEF PaysField
<1>11. result.status = "IN_PROGRESS" /\ \A g \in Handlers : g # h => ~ Runs(g)
  <2>1. Runs(h) /\ IInv
    BY <1>0 DEF Known, Runs, Running, InTry
  <2> QED
    BY <1>2, <2>1, Alone DEF IInv, RunnerHoldsClaim
<1>12. FieldResult'
  BY <1>0, <1>11 DEF FieldResult
<1>13. ASSUME NEW g \in Handlers PROVE FieldRun(g, field)'
  <2>1. CASE g = h
    <3>1. PaysField(rest, field)'
      BY <1>0, <1>10 DEF PaysField
    <3> QED
      BY <1>8, <2>1, <3>1 DEF FieldRun, FieldCall
  <2>2. CASE g # h
    <3>1. call'[g] = call[g] /\ FieldCall(call[g], field) /\ ~ (call[g].at \in Running)
      BY <1>2, <1>8, <1>11, <2>2 DEF Runs
    <3> QED
      BY <3>1 DEF FieldRun, FieldCall, Running, InTry, PaySteps
  <2> QED
    BY <2>1, <2>2
<1>14. Fields(field)'
  BY <1>0, <1>2, <1>13 DEF Fields, PaidFrom
<1> QED
  BY <1>0, <1>2, <1>12, <1>14 DEF FieldInv

(* The entries that are ACTIVE at its load are the field of the run.       *)
LEMMA FieldLoad ==
  ASSUME Known, FieldInv, faults = 0, NEW h \in Handlers, LoadEntries(h)
  PROVE  FieldInv'
<1>0. /\ credited' = credited /\ snapshot' = snapshot /\ points' \in [Entries -> Nat]
      /\ resets' = resets /\ result' = result /\ call[h].at = "load"
  BY SettlementAssumption DEF LoadEntries, At
<1>1. /\ resets = 0 /\ FieldResult /\ Unpaid
      /\ \A g \in Handlers : call[g].at \notin {"catch", "reset"}
  BY <1>0 DEF FieldInv, Fields, FieldRun, FieldCall
<1>2. PICK field, pts, todo : /\ field = Active /\ pts = points'
                              /\ todo = AllocateWinnings(Active, pts, snapshot)
  OBVIOUS
<1>3. field \in SUBSET Entries
  BY <1>2 DEF Known, CreditInv, Active
<1>4. \A i \in DOMAIN todo :
        /\ todo[i].entry \in field
        /\ todo[i].amount = Winnings(todo[i].entry, field, pts, snapshot)
  BY <1>0, <1>2, LoadedQueue DEF Known
<1>5. /\ call'[h].at = "pay" /\ call'[h].todo = todo
      /\ \A g \in Handlers : g # h => call'[g] = call[g]
  <2>1. /\ DOMAIN call[h] = SettleFields /\ call = [g \in Handlers |-> call[g]]
    BY <1>0 DEF Known, CreditInv, SettleShape, SettleSteps, Running, InTry
  <2>2. call' = [call EXCEPT ![h].at = "pay", ![h].todo = todo]
    BY <1>2 DEF LoadEntries
  <2> QED
    BY <2>1, <2>2 DEF SettleFields
<1>6. \A g \in Handlers : g # h => ~ Runs(g)
  <2>1. Runs(h) /\ IInv
    BY <1>0 DEF Known, Runs, Running, InTry
  <2> QED
    BY <1>1, <2>1, Alone
<1>7. FieldResult'
  BY <1>0, <1>1 DEF FieldResult, Unpaid
<1>8. PaidFrom(field)'
  BY <1>0, <1>1 DEF PaidFrom, Unpaid
<1>9. ASSUME NEW g \in Handlers PROVE FieldRun(g, field)'
  <2>1. CASE g = h
    <3>1. PaysField(todo, field)'
      BY <1>0, <1>2, <1>4 DEF PaysField
    <3> QED
      BY <1>5, <2>1, <3>1 DEF FieldRun, FieldCall
  <2>2. CASE g # h
    <3>1. call'[g] = call[g] /\ ~ (call[g].at \in Running)
      BY <1>5, <1>6, <2>2 DEF Runs
    <3> QED
      BY <1>1, <3>1 DEF FieldRun, FieldCall, Running, InTry, PaySteps
  <2> QED
    BY <2>1, <2>2
<1> QED
  BY <1>0, <1>1, <1>3, <1>7, <1>8, <1>9 DEF FieldInv, Fields

(* The other steps of a settlement leave the credits alone.                *)
LEMMA FieldSettle ==
  ASSUME Known, FieldInv, faults = 0, faults' = 0, NEW h \in Handlers, NEW force,
         SettleContest(h, force) \/ SettleStep(h) \/ ResetForRetry(h) \/ Fault(h) \/ Crash(h)
  PROVE  FieldInv'
<1>f. PICK field \in SUBSET Entries : Fields(field)
  BY DEF FieldInv
<1>0. /\ resets = 0 /\ FieldResult /\ PaidFrom(field)
      /\ FieldCall(call[h], field) /\ IInv /\ CreditInv
  BY <1>f DEF FieldInv, Fields, FieldRun, Known
<1>1. ASSUME NEW c, call' = [call EXCEPT ![h] = c],
             c.at \notin {"catch", "reset"} \cup PaySteps, c.at = "load" => Unpaid,
             credited' = credited, points' = points, snapshot' = snapshot, resets' = resets,
             FieldResult'
      PROVE  FieldInv'
  BY <1>1, FieldFrame
<1>2. credited' = credited /\ result' = result => FieldResult'
  BY <1>0 DEF FieldResult, Unpaid
<1>3. Idle.at \notin {"catch", "reset", "load"} \cup PaySteps
  BY DEF Idle, PaySteps
<1>4. ASSUME NEW step, Goto(h, step)
      PROVE  \E c : call' = [call EXCEPT ![h] = c] /\ c.at = step
  <2>1. PICK c : c = [call[h] EXCEPT !.at = step]
    OBVIOUS
  <2>2. call' = [call EXCEPT ![h] = c] /\ c.at = step
    BY <1>0, <1>4, <2>1 DEF Goto, CreditInv
  <2> QED
    BY <2>2
<1>5. CASE SettleContest(h, force)
  <2>1. PICK c : c = [at |-> "count", seen |-> contest.status, count |-> 0,
                      todo |-> <<>>, paid |-> 0]
    OBVIOUS
  <2>2. /\ call' = [call EXCEPT ![h] = c] /\ credited' = credited /\ snapshot' = snapshot
        /\ points' = points /\ resets' = resets /\ result' = result
    BY <1>5, <2>1 DEF SettleContest, Start, settlementVars
  <2>3. c.at \notin {"catch", "reset", "load"} \cup PaySteps
    BY <2>1 DEF PaySteps
  <2> QED
    BY <1>1, <1>2, <2>2, <2>3
<1>6. CASE CountActive(h)
  <2>1. /\ credited' = credited /\ snapshot' = snapshot /\ points' = points
        /\ resets' = resets /\ result' = result /\ call[h].at = "count"
    BY <1>6 DEF CountActive, settlementVars, At
  <2>2. CASE Return(h)
    BY <1>1, <1>2, <1>3, <2>1, <2>2 DEF Return
  <2>3. CASE ~Return(h)
    <3>1. PICK c : c = [call[h] EXCEPT !.at = "claim", !.count = Cardinality(Active)]
      OBVIOUS
    <3>2. call' = [call EXCEPT ![h] = c]
      BY <1>0, <1>6, <2>3, <3>1 DEF CountActive, CreditInv
    <3>3. DOMAIN call[h] = SettleFields
      BY <1>0, <2>1 DEF CreditInv, SettleShape, SettleSteps
    <3>4. c.at = "claim"
      BY <3>1, <3>3 DEF SettleFields
    <3>5. c.at \notin {"catch", "reset", "load"} \cup PaySteps
      BY <3>4 DEF PaySteps
    <3> QED
      BY <1>1, <1>2, <2>1, <3>2, <3>5
  <2> QED
    BY <2>2, <2>3
<1>7. CASE ClaimForSettlement(h)
  <2>1. /\ credited' = credited /\ snapshot' = snapshot /\ points' = points
        /\ resets' = resets
    BY <1>7 DEF ClaimForSettlement
  <2>2. CASE result.status \in {"none", "NOT_STARTED", "FAILED"}
    <3>1. Unpaid
      BY <1>0, <2>2 DEF FieldResult
    <3>2. /\ result' = [result EXCEPT !.status = "IN_PROGRESS", !.token = h]
          /\ Goto(h, "load")
      BY <1>7, <2>2 DEF ClaimForSettlement
    <3>3. result'.status = "IN_PROGRESS"
      BY <1>0, <3>2 DEF IInv, Shape
    <3>4. PICK c : call' = [call EXCEPT ![h] = c] /\ c.at = "load"
      BY <1>4, <3>2
    <3>5. c.at \notin {"catch", "reset"} \cup PaySteps
      BY <3>4 DEF PaySteps
    <3>6. FieldResult'
      BY <3>3 DEF FieldResult
    <3> QED
      BY <1>1, <2>1, <3>1, <3>4, <3>5, <3>6
  <2>3. CASE result.status \notin {"none", "NOT_STARTED", "FAILED"}
    <3>1. Return(h) /\ result' = result
      BY <1>7, <2>3 DEF ClaimForSettlement
    <3> QED
      BY <1>1, <1>2, <1>3, <2>1, <3>1 DEF Return
  <2> QED
    BY <2>2, <2>3
<1>8. CASE Skip(h) \/ Finalise(h)
  <2>1. /\ credited' = credited /\ snapshot' = snapshot /\ points' = points
        /\ resets' = resets /\ Return(h)
        /\ call[h].at \in {"load", "finalise"}
        /\ result' = Finalised(h, "SKIPPED", 0) \/ result' = Finalised(h, "SETTLED", call[h].paid)
    BY <1>8 DEF Skip, Finalise, At
  <2>2. result.token = h
    BY <1>0, <2>1 DEF IInv, RunnerHoldsClaim, Runs, Running, InTry
  <2>3. result'.status \in {"SKIPPED", "SETTLED"}
    BY <1>0, <2>1, <2>2 DEF Finalised, IInv, Shape
  <2>4. FieldResult'
    BY <2>3 DEF FieldResult
  <2> QED
    BY <1>1, <1>3, <2>1, <2>4 DEF Return
<1>9. CASE RebuildLeaderboard(h) \/ CompleteContest(h)
  <2>1. /\ credited' = credited /\ snapshot' = snapshot /\ points' = points
        /\ resets' = resets /\ result' = result
        /\ Goto(h, "complete") \/ Goto(h, "finalise")
    BY <1>9 DEF RebuildLeaderboard, CompleteContest, settlementVars
  <2>2. PICK c : call' = [call EXCEPT ![h] = c] /\ c.at \in {"complete", "finalise"}
    BY <1>4, <2>1
  <2>3. c.at \notin {"catch", "reset", "load"} \cup PaySteps
    BY <2>2 DEF PaySteps
  <2> QED
    BY <1>1, <1>2, <2>1, <2>2, <2>3
<1>10. ~ CreditConflicts(h)
  <2> SUFFICES ASSUME CreditConflicts(h) PROVE FALSE
    OBVIOUS
  <2>1. PICK todo, a : todo = call[h].todo /\ a = todo[1]
    OBVIOUS
  <2>2. call[h].at = "pay" /\ todo # <<>>
    BY <2>1 DEF CreditConflicts, At
  <2>3. QueueInv(todo)
    BY <1>0, <2>1, <2>2, RunFacts DEF PaySteps
  <2>4. Head(todo) = a /\ 1 \in DOMAIN todo /\ a.entry \in Entries
    BY <2>1, <2>2, <2>3, QueueFacts
  <2>5. credited[a.entry] # NotPosted /\ credited[a.entry] # a.amount
    BY <2>1, <2>4 DEF CreditConflicts, Replay
  <2>6. credited[a.entry] = Winnings(a.entry, field, points, snapshot)
    BY <1>0, <2>4, <2>5 DEF PaidFrom
  <2>7. a.amount = Winnings(a.entry, field, points, snapshot)
    BY <1>0, <2>1, <2>2, <2>4 DEF FieldCall, PaySteps, PaysField
  <2> QED
    BY <2>5, <2>6, <2>7
<1>11. ~ FinaliseFailed(h) /\ ~ SaveReset(h)
  BY <1>0 DEF FinaliseFailed, SaveReset, At, FieldCall
<1>12. ~ ResetForRetry(h)
  BY <1>0 DEF ResetForRetry, FieldResult
<1>13. ~ Fault(h) /\ ~ Crash(h)
  BY DEF Fault, Crash
<1> QED
  BY <1>5, <1>6, <1>7, <1>8, <1>9, <1>10, <1>11, <1>12, <1>13, FieldLoad, FieldCredit,
     FieldMark DEF SettleStep

(* Cancellations move calls of their own.                                  *)
LEMMA FieldCancel ==
  ASSUME Known, FieldInv, faults = 0, faults' = 0, CancelNext, UNCHANGED settlementVars
  PROVE  FieldInv'
<1>0. /\ credited' = credited /\ snapshot' = snapshot /\ points' = points /\ resets' = resets
      /\ result' = result
  BY DEF settlementVars
<1>1. FieldResult'
  BY <1>0 DEF FieldInv, FieldResult, Unpaid
<1>2. ASSUME NEW h \in Handlers, NEW c, call' = [call EXCEPT ![h] = c],
             c.at \notin {"catch", "reset", "load"} \cup PaySteps
      PROVE  FieldInv'
  BY <1>0, <1>1, <1>2, FieldFrame
<1>3. ASSUME NEW target \in Statuses, TransitionStatus(target) PROVE FieldInv'
  BY <1>0, <1>1, <1>3 DEF TransitionStatus, FieldInv, Fields, PaidFrom, FieldRun, FieldCall,
     PaysField, Unpaid
<1>4. ASSUME NEW h \in Handlers, CancelContest(h) PROVE FieldInv'
  <2>1. PICK c : c = [at |-> "sweep", todo |-> {}]
    OBVIOUS
  <2>2. call' = [call EXCEPT ![h] = c] /\ c.at = "sweep"
    BY <1>4, <2>1 DEF CancelContest, Start
  <2> QED
    BY <1>2, <2>2 DEF PaySteps
<1>5. ASSUME NEW h \in Handlers, FindActiveForContest(h) PROVE FieldInv'
  <2>1. PICK c : c = [at |-> "refund", todo |-> Active]
    OBVIOUS
  <2>2. call' = [call EXCEPT ![h] = c] /\ c.at = "refund"
    BY <1>5, <2>1 DEF FindActiveForContest
  <2> QED
    BY <1>2, <2>2 DEF PaySteps
<1>6. ASSUME NEW h \in Handlers, MarkRefunded(h) PROVE FieldInv'
  <2>1. PICK e \in call[h].todo :
          call' = [call EXCEPT ![h] = [at |-> "refund", todo |-> @.todo \ {e}]]
    BY <1>6 DEF MarkRefunded
  <2>2. PICK c : c = [at |-> "refund", todo |-> call[h].todo \ {e}]
    OBVIOUS
  <2>3. call' = [call EXCEPT ![h] = c] /\ c.at = "refund"
    BY <2>1, <2>2 DEF Known, CreditInv
  <2> QED
    BY <1>2, <2>3 DEF PaySteps
<1>7. ASSUME NEW h \in Handlers, Return(h) PROVE FieldInv'
  BY <1>2, <1>7 DEF Return, Idle, PaySteps
<1>8. ASSUME NEW h \in Handlers, Goto(h, "markRefunded") PROVE FieldInv'
  <2>1. PICK c : c = [call[h] EXCEPT !.at = "markRefunded"]
    OBVIOUS
  <2>2. call' = [call EXCEPT ![h] = c] /\ c.at = "markRefunded"
    BY <1>8, <2>1 DEF Goto, Known, CreditInv
  <2> QED
    BY <1>2, <2>2 DEF PaySteps
<1>9. ASSUME NEW h \in Handlers, RefundEntry(h) PROVE FieldInv'
  BY <1>7, <1>8, <1>9 DEF RefundEntry
<1>10. ASSUME NEW h \in Handlers, SaveCapacity(h) \/ SweepEnds(h) \/ LifecycleFault(h)
       PROVE  FieldInv'
  BY <1>7, <1>10 DEF SaveCapacity, SweepEnds, LifecycleFault
<1> QED
  BY <1>3, <1>4, <1>5, <1>6, <1>9, <1>10 DEF CancelNext, LifecycleStep

(* What is paid from a field is at most the pool.                          *)
LEMMA FieldIsInPool ==
  ASSUME Known, NEW field \in SUBSET Entries, PaidFrom(field)
  PROVE  Paid <= snapshot.poolAmount /\ Paid \in Int /\ snapshot.poolAmount \in Int
<1>1. PICK f, w, others :
        /\ f = [e \in Entries |-> Credit(e)]
        /\ w = [e \in field |-> Winnings(e, field, points, snapshot)]
        /\ others = Entries \ field
  OBVIOUS
<1>2. Scored(field, points) /\ IsFiniteSet(field) /\ IsFiniteSet(others)
  <2>1. IsFiniteSet(Entries)
    BY SettlementAssumption, FS_Interval DEF Entries
  <2>2. IsFiniteSet(field) /\ IsFiniteSet(others)
    BY <1>1, <2>1, FS_Subset
  <2> QED
    BY <2>2 DEF Scored, Known, DataInv, Entries
<1>3. snapshot \in PrizeSnapshot /\ ValidSlabs(snapshot)
  BY SettlementAssumption DEF Known, DataInv
<1>4. /\ \A e \in field : w[e] \in Nat
      /\ SumOver(w, field) \in Nat /\ SumOver(w, field) <= snapshot.poolAmount
  <2>1. \A e \in field : w[e] = Winnings(e, field, points, snapshot)
    BY <1>1
  <2> QED
    BY <1>2, <1>3, <2>1, WinningsStayInPool
<1>5. \A e \in field : f[e] \in Int /\ w[e] \in Int /\ f[e] <= w[e]
  <2> TAKE e \in field
  <2>1. e \in Entries /\ w[e] \in Nat
    BY <1>4
  <2>2. f[e] = 0 \/ f[e] = w[e]
    BY <1>1, <2>1 DEF PaidFrom, Credit
  <2> QED
    BY <2>1, <2>2
<1>6. SumOver(f, field) \in Int /\ SumOver(f, field) <= SumOver(w, field)
  BY <1>2, <1>5, SumMonotonic
<1>7. \A e \in others : f[e] = 0
  BY <1>1 DEF PaidFrom, Credit
<1>8. SumOver(f, others) = 0
  <2>1. PICK z \in Int : z = 0
    OBVIOUS
  <2>2. \A e \in others : f[e] = z
    BY <1>7, <2>1
  <2>3. SumOver(f, others) = Cardinality(others) * z
    BY <1>2, <2>2, SumConstant
  <2>4. Cardinality(others) \in Nat
    BY <1>2, FS_CardinalityType
  <2> QED
    BY <2>1, <2>3, <2>4
<1>9. SumOver(f, field \cup others) = SumOver(f, field) + SumOver(f, others)
  <2>1. \A e \in field \cup others : f[e] \in Int
    BY <1>5, <1>7
  <2>2. field \cap others = {}
    BY <1>1
  <2> QED
    BY <1>2, <2>1, <2>2, SumUnion
<1>10. field \cup others = Entries /\ Entries = DOMAIN f
  BY <1>1
<1>11. Paid = SumOver(f, Entries)
  <2>1. Paid = SumFunction(f)
    BY <1>1 DEF Paid
  <2> QED
    BY <1>10, <2>1, SumFunctionIsSum
<1>12. snapshot.poolAmount \in Nat
  BY <1>3 DEF PrizeSnapshot
<1> QED
  BY <1>4, <1>6, <1>8, <1>9, <1>10, <1>11, <1>12

(* No more than the pool is paid unless something has failed, whatever     *)
(* calls and cancellations are under way (OverpayNeedsFailedRun).          *)
THEOREM PoolIsKept == Spec => []OverpayNeedsFailedRun
<1>1. Init => Known /\ FieldInv
  <2> SUFFICES ASSUME Init PROVE FieldInv
    BY KnownInit
  <2>1. Unpaid
    BY DEF Init, Unpaid
  <2>2. result.status = "none" /\ resets = 0
    BY DEF Init
  <2>3. \A h \in Handlers : FieldRun(h, {})
    BY DEF Init, FieldRun, FieldCall, Idle, PaySteps
  <2>4. Fields({}) /\ {} \in SUBSET Entries
    BY <2>1, <2>3 DEF Fields, PaidFrom, Unpaid
  <2> QED
    BY <2>1, <2>2, <2>4 DEF FieldInv, FieldResult
<1>2. (Known /\ FieldInv) /\ [Next]_vars => (Known /\ FieldInv)'
  <2> SUFFICES ASSUME Known, FieldInv, [Next]_vars, faults' = 0 PROVE FieldInv'
    BY KnownStep DEF FieldInv
  <2>1. faults = 0
    <3>1. faults' >= faults
      BY DataStep DEF Known
    <3>2. faults \in Nat
      BY DEF Known, DataInv
    <3> QED
      BY <3>1, <3>2
  <2>2. CASE CancelNext /\ UNCHANGED settlementVars
    BY <2>1, <2>2, FieldCancel
  <2>3. CASE \E h \in Handlers, force \in BOOLEAN : SettleContest(h, force)
    BY <2>1, <2>3, FieldSettle
  <2>4. CASE \E h \in Handlers : SettleStep(h) \/ ResetForRetry(h) \/ Fault(h) \/ Crash(h)
    BY <2>1, <2>4, FieldSettle
  <2>5. CASE UNCHANGED vars
    BY <2>5 DEF vars, settlementVars, FieldInv, FieldResult, Fields, PaidFrom, FieldRun, FieldCall,
       PaysField, Unpaid
  <2> QED
    BY <2>2, <2>3, <2>4, <2>5 DEF Next
<1>3. Known /\ FieldInv => OverpayNeedsFailedRun
  <2> SUFFICES ASSUME Known, FieldInv, Paid > snapshot.poolAmount PROVE faults > 0
    BY DEF OverpayNeedsFailedRun
  <2>1. faults \in Nat
    BY DEF Known, DataInv
  <2>2. faults # 0
    <3> SUFFICES ASSUME faults = 0 PROVE FALSE
      OBVIOUS
    <3>1. PICK field \in SUBSET Entries : PaidFrom(field)
      BY DEF FieldInv, Fields
    <3>2. Paid <= snapshot.poolAmount /\ Paid \in Int /\ snapshot.poolAmount \in Int
      BY <3>1, FieldIsInPool
    <3> QED
      BY <3>2
  <2> QED
    BY <2>1, <2>2
<1> QED
  BY <1>1, <1>2, <1>3, PTL DEF Spec
=============================================================================
