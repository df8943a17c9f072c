------------------------ MODULE AuthenticationProofs ------------------------
(***************************************************************************)
(* Proofs about Authentication, for any finite set of handlers, any lock   *)
(* threshold and number of attempts, and any number of requests and        *)
(* crashes.                                                                *)
(*                                                                         *)
(* The counting argument for single-use credentials comes first, for       *)
(* tickets of any kind.  Then the calls: which steps each operation goes   *)
(* through and which row it holds.  With these, one-time codes and refresh *)
(* tokens are the tickets of Tickets.tla and are redeemed as rarely, and   *)
(* the races of the service are no worse than its properties say.          *)
(***************************************************************************)
EXTENDS Authentication, FiniteSetTheorems, SequenceTheorems, TLAPS

-----------------------------------------------------------------------------
(* Sets of handlers are finite, and disjoint ones fit together.            *)
LEMMA HandlerSets ==
  ASSUME NEW S \in SUBSET Handlers
  PROVE  IsFiniteSet(S) /\ Cardinality(S) \in Nat /\ Cardinality(S) <= Cardinality(Handlers)
BY HandlersAssumption, FS_Subset, FS_CardinalityType

LEMMA DisjointFit ==
  ASSUME NEW S \in SUBSET Handlers, NEW T \in SUBSET Handlers, S \cap T = {}
  PROVE  Cardinality(S) + Cardinality(T) <= Cardinality(Handlers)
<1>1. Cardinality(S \cup T) = Cardinality(S) + Cardinality(T)
  <2>1. Cardinality(S \cup T) =
          Cardinality(S) + Cardinality(T) - Cardinality(S \cap T)
    BY HandlerSets, FS_Union
  <2>2. Cardinality(S \cap T) = 0
    BY FS_EmptySet
  <2> QED  BY <2>1, <2>2, HandlerSets
<1>2. Cardinality(S \cup T) <= Cardinality(Handlers)
  BY HandlersAssumption, FS_Subset
<1> QED  BY <1>1, <1>2

(* The size of a set with and without a handler.                           *)
LEMMA CountWithout ==
  ASSUME NEW S \in SUBSET Handlers, NEW h
  PROVE  /\ Cardinality(S) \in Nat
         /\ h \in S => Cardinality(S) = Cardinality(S \ {h}) + 1
         /\ h \notin S => Cardinality(S) = Cardinality(S \ {h})
         /\ Cardinality(S \ {h}) \in Nat
<1>1. IsFiniteSet(S) /\ Cardinality(S) \in Nat
  BY HandlerSets
<1>2. S \ {h} \in SUBSET Handlers
  OBVIOUS
<1>3. Cardinality(S \ {h}) \in Nat
  BY <1>2, HandlerSets
<1>4. h \in S => Cardinality(S \ {h}) = Cardinality(S) - 1
  BY <1>1, FS_RemoveElement
<1>5. h \notin S => S \ {h} = S
  OBVIOUS
<1>6. h \notin S => Cardinality(S) = Cardinality(S \ {h})
  BY <1>5
<1> QED  BY <1>1, <1>3, <1>4, <1>6

(* A set of integers that is finite has a greatest element: of the sets of *)
(* those from some element on, the smallest is that of the greatest alone. *)
LEMMA Greatest ==
  ASSUME NEW S, IsFiniteSet(S), S \subseteq Int, S # {}
  PROVE  Max(S) \in S
<1> DEFINE From(x) == {y \in S : y >= x}
           B == {From(x) : x \in S}
<1>1. B \in SUBSET SUBSET S /\ B # {}
  OBVIOUS
<1>2. IsWellFoundedOn(StrictSubsetOrdering(S), SUBSET S)
  BY FS_StrictSubsetOrderingWellFounded, FS_FiniteSubsetsOfFinite
<1>3. PICK T \in B : \A U \in B : ~ (<<U, T>> \in StrictSubsetOrdering(S))
  <2> HIDE DEF B
  <2> QED  BY <1>1, <1>2, WFMin
<1>4. PICK x \in S : T = From(x)
  OBVIOUS
<1>5. ASSUME NEW y \in S, ~(x >= y) PROVE FALSE
  <2>0. x \in Int /\ y \in Int /\ y > x
    BY <1>5
  <2>1. From(y) \subseteq From(x) /\ x \in From(x) /\ x \notin From(y)
    <3>1. \A z \in S : z \in Int /\ (z >= y => z >= x)
      BY <2>0
    <3>2. x >= x /\ ~(x >= y)
      BY <2>0
    <3> QED  BY <3>1, <3>2
  <2>2. From(y) # From(x) /\ From(y) \in SUBSET S /\ From(x) \in SUBSET S
    BY <2>1
  <2>3. <<From(y), From(x)>> \in StrictSubsetOrdering(S)
    BY <2>1, <2>2 DEF StrictSubsetOrdering
  <2> QED  BY <1>3, <1>4, <2>3
<1>6. \E m \in S : \A y \in S : m >= y
  BY <1>5
<1> QED  BY <1>6 DEF Max

-----------------------------------------------------------------------------
(* Tickets: rows t that handlers hd have taken, of which l were lost.      *)
TicketRow == [open : BOOLEAN, uses : Nat]
Unused == [open |-> TRUE, uses |-> 0]
Shut(r) == [r EXCEPT !.open = FALSE]
Drawn(r) == [r EXCEPT !.uses = @ + 1]
Holding == [ticket : Nat, spent : BOOLEAN]
Nothing == [ticket |-> 0, spent |-> FALSE]

TicketsTyped(t, hd, l) ==
  /\ t \in Seq(TicketRow) /\ hd \in [Handlers -> Holding] /\ l \in Nat
  /\ \A h \in Handlers : hd[h].ticket \in 0..Len(t)

(* The steps of Tickets.tla.                                               *)
Issues(t, hd, l, t2, hd2, l2) ==
  t2 = Append(t, Unused) /\ hd2 = hd /\ l2 = l
Withdraws(t, hd, l, t2, hd2, l2) ==
  /\ \E S \in SUBSET DOMAIN t :
       t2 = [i \in DOMAIN t |-> IF i \in S THEN Shut(t[i]) ELSE t[i]]
  /\ hd2 = hd /\ l2 = l
Takes(h, t, hd, l, t2, hd2, l2) ==
  \E i \in DOMAIN t :
    /\ hd[h] = Nothing /\ t[i].open
    /\ hd2 = [hd EXCEPT ![h] = [ticket |-> i, spent |-> FALSE]]
    /\ t2 = t /\ l2 = l
Uses(h, t, hd) == [t EXCEPT ![hd[h].ticket] = Drawn(@)]
RedeemsAndCloses(h, t, hd, l, t2, hd2, l2) ==
  /\ hd[h].ticket # 0 /\ ~hd[h].spent
  /\ t2 = [t EXCEPT ![hd[h].ticket] = Shut(Drawn(@))]
  /\ hd2 = [hd EXCEPT ![h] = Nothing] /\ l2 = l
Closes(h, t, hd, l, t2, hd2, l2) ==
  /\ hd[h].ticket # 0 /\ hd[h].spent
  /\ t2 = [t EXCEPT ![hd[h].ticket] = Shut(@)]
  /\ hd2 = [hd EXCEPT ![h] = Nothing] /\ l2 = l
RedeemsForSuccessor(h, t, hd, l, t2, hd2, l2) ==
  /\ hd[h].ticket # 0 /\ ~hd[h].spent
  /\ t2 = Append(Uses(h, t, hd), Unused)
  /\ hd2 = [hd EXCEPT ![h] = [ticket |-> hd[h].ticket, spent |-> TRUE]] /\ l2 = l
Loses(h, t, hd, l, t2, hd2, l2) ==
  t2 = t /\ hd2 = [hd EXCEPT ![h] = Nothing] /\ l2 = l + 1
Stays(t, hd, l, t2, hd2, l2) == t2 = t /\ hd2 = hd /\ l2 = l

Moves(t, hd, l, t2, hd2, l2) ==
  \/ Issues(t, hd, l, t2, hd2, l2) \/ Withdraws(t, hd, l, t2, hd2, l2)
  \/ \E h \in Handlers :
       \/ Takes(h, t, hd, l, t2, hd2, l2)
       \/ RedeemsAndCloses(h, t, hd, l, t2, hd2, l2)
       \/ Closes(h, t, hd, l, t2, hd2, l2)
       \/ RedeemsForSuccessor(h, t, hd, l, t2, hd2, l2)
       \/ Loses(h, t, hd, l, t2, hd2, l2)
  \/ Stays(t, hd, l, t2, hd2, l2)

(* The handlers that have taken ticket i, before and after redeeming it.   *)
Waiting(i, hd) == {h \in Handlers : hd[h].ticket = i /\ ~hd[h].spent}
Spending(i, hd) == {h \in Handlers : hd[h].ticket = i /\ hd[h].spent}

(* Of an open ticket every redemption is still held by its handler, or its *)
(* handler was lost; of a closed one, those who still wait are counted.    *)
Accounted(i, t, hd, l) ==
  IF t[i].open
  THEN t[i].uses <= Cardinality(Spending(i, hd)) + l
  ELSE t[i].uses + Cardinality(Waiting(i, hd)) <= Cardinality(Handlers) + l

LEMMA OneTicket ==
  ASSUME NEW r \in TicketRow
  PROVE  /\ Shut(r) = [open |-> FALSE, uses |-> r.uses] /\ Shut(r) \in TicketRow
         /\ Drawn(r) = [open |-> r.open, uses |-> r.uses + 1] /\ Drawn(r) \in TicketRow
         /\ Shut(Drawn(r)) = [open |-> FALSE, uses |-> r.uses + 1]
         /\ Shut(Drawn(r)) \in TicketRow
<1>1. PICK c, d, e : c = Shut(r) /\ d = Drawn(r) /\ e = Shut(d)
  OBVIOUS
<1>2. r.open \in BOOLEAN /\ r.uses \in Nat
  BY DEF TicketRow
<1>3. c = [open |-> FALSE, uses |-> r.uses]
  BY <1>1 DEF Shut, TicketRow
<1>4. d = [open |-> r.open, uses |-> r.uses + 1]
  BY <1>1 DEF Drawn, TicketRow
<1>5. c \in TicketRow /\ d \in TicketRow
  BY <1>2, <1>3, <1>4 DEF TicketRow
<1>6. d.uses = r.uses + 1
  BY <1>4
<1>7. e = [open |-> FALSE, uses |-> r.uses + 1]
  BY <1>1, <1>5, <1>6 DEF Shut, TicketRow
<1>8. e \in TicketRow
  BY <1>2, <1>7 DEF TicketRow
<1> QED  BY <1>1, <1>3, <1>4, <1>5, <1>7, <1>8

LEMMA TicketRows ==
  ASSUME NEW t, NEW hd, NEW l, TicketsTyped(t, hd, l), NEW i \in DOMAIN t
  PROVE  /\ t[i] \in TicketRow /\ t[i] = [open |-> t[i].open, uses |-> t[i].uses]
         /\ t[i].open \in BOOLEAN /\ t[i].uses \in Nat
         /\ i # 0 /\ DOMAIN t = 1..Len(t) /\ Len(t) \in Nat
<1>1. t \in Seq(TicketRow)
  BY DEF TicketsTyped
<1>2. t[i] \in TicketRow
  BY <1>1, ElementOfSeq
<1>3. i # 0 /\ DOMAIN t = 1..Len(t) /\ Len(t) \in Nat
  BY <1>1
<1> QED  BY <1>2, <1>3 DEF TicketRow

(* What Accounted says of one ticket, open or not.                         *)
LEMMA BothCounted ==
  ASSUME NEW t, NEW hd, NEW l, TicketsTyped(t, hd, l),
         NEW i \in DOMAIN t, Accounted(i, t, hd, l)
  PROVE  /\ Cardinality(Waiting(i, hd)) \in Nat /\ Cardinality(Spending(i, hd)) \in Nat
         /\ Cardinality(Handlers) \in Nat
         /\ t[i].uses + Cardinality(Waiting(i, hd)) <= Cardinality(Handlers) + l
<1>1. Waiting(i, hd) \in SUBSET Handlers /\ Spending(i, hd) \in SUBSET Handlers
  BY DEF Waiting, Spending
<1>2. /\ Cardinality(Waiting(i, hd)) \in Nat /\ Cardinality(Spending(i, hd)) \in Nat
      /\ Cardinality(Handlers) \in Nat
  BY <1>1, HandlerSets
<1>3. t[i].uses \in Nat /\ l \in Nat
  BY TicketRows DEF TicketsTyped
<1>4. Waiting(i, hd) \cap Spending(i, hd) = {}
  BY DEF Waiting, Spending
<1>5. Cardinality(Waiting(i, hd)) + Cardinality(Spending(i, hd)) <= Cardinality(Handlers)
  BY <1>1, <1>4, DisjointFit
<1> QED  BY <1>2, <1>3, <1>5 DEF Accounted

LEMMA NotTheHolder ==
  ASSUME NEW hd, NEW i, NEW h \in Handlers, NEW hd2,
         \A g \in Handlers \ {h} : hd2[g] = hd[g]
  PROVE  /\ Waiting(i, hd2) \ {h} = Waiting(i, hd) \ {h}
         /\ Spending(i, hd2) \ {h} = Spending(i, hd) \ {h}
BY DEF Waiting, Spending

(* How many hold ticket i, with and without handler h.                     *)
LEMMA HolderCounts ==
  ASSUME NEW i, NEW hd, NEW h
  PROVE  /\ Cardinality(Waiting(i, hd)) \in Nat /\ Cardinality(Spending(i, hd)) \in Nat
         /\ Cardinality(Waiting(i, hd) \ {h}) \in Nat
         /\ Cardinality(Spending(i, hd) \ {h}) \in Nat
         /\ h \in Waiting(i, hd) =>
              Cardinality(Waiting(i, hd)) = Cardinality(Waiting(i, hd) \ {h}) + 1
         /\ h \notin Waiting(i, hd) =>
              Cardinality(Waiting(i, hd)) = Cardinality(Waiting(i, hd) \ {h})
         /\ h \in Spending(i, hd) =>
              Cardinality(Spending(i, hd)) = Cardinality(Spending(i, hd) \ {h}) + 1
         /\ h \notin Spending(i, hd) =>
              Cardinality(Spending(i, hd)) = Cardinality(Spending(i, hd) \ {h})
<1>1. PICK W \in SUBSET Handlers : W = Waiting(i, hd)
  BY DEF Waiting
<1>2. PICK S \in SUBSET Handlers : S = Spending(i, hd)
  BY DEF Spending
<1>3. /\ Cardinality(W) \in Nat /\ Cardinality(W \ {h}) \in Nat
      /\ h \in W => Cardinality(W) = Cardinality(W \ {h}) + 1
      /\ h \notin W => Cardinality(W) = Cardinality(W \ {h})
  BY CountWithout
<1>4. /\ Cardinality(S) \in Nat /\ Cardinality(S \ {h}) \in Nat
      /\ h \in S => Cardinality(S) = Cardinality(S \ {h}) + 1
      /\ h \notin S => Cardinality(S) = Cardinality(S \ {h})
  BY CountWithout
<1> QED  BY <1>1, <1>2, <1>3, <1>4

(* A step of Tickets.tla keeps the account of every ticket.                *)
LEMMA CountStep ==
  ASSUME NEW t, NEW hd, NEW l, NEW t2, NEW hd2, NEW l2,
         TicketsTyped(t, hd, l), TicketsTyped(t2, hd2, l2),
         Moves(t, hd, l, t2, hd2, l2),
         \A i \in DOMAIN t : Accounted(i, t, hd, l)
  PROVE  \A i \in DOMAIN t2 : Accounted(i, t2, hd2, l2)
<1> SUFFICES ASSUME NEW i \in DOMAIN t2
             PROVE  Accounted(i, t2, hd2, l2)
  OBVIOUS
<1>d. /\ t \in Seq(TicketRow) /\ hd \in [Handlers -> Holding] /\ l \in Nat
      /\ hd2 \in [Handlers -> Holding] /\ l2 \in Nat
      /\ \A h \in Handlers : hd[h].ticket \in 0..Len(t)
      /\ DOMAIN t = 1..Len(t) /\ Len(t) \in Nat /\ i # 0
  <2>1. t \in Seq(TicketRow)
    BY DEF TicketsTyped
  <2>2. DOMAIN t = 1..Len(t) /\ Len(t) \in Nat
    BY <2>1
  <2> QED  BY <2>1, <2>2, TicketRows DEF TicketsTyped
<1>c. \A j, f : Waiting(j, f) \in SUBSET Handlers /\ Spending(j, f) \in SUBSET Handlers
  BY DEF Waiting, Spending
<1>h. Cardinality(Handlers) \in Nat
  BY HandlerSets
<1>n. ASSUME i \notin DOMAIN t
      PROVE  Accounted(i, t2, hd2, l2)
  <2>1. t2[i] = [open |-> TRUE, uses |-> 0]
    <3>1. CASE Issues(t, hd, l, t2, hd2, l2)
      BY <1>n, <1>d, <3>1 DEF Issues, Unused
    <3>2. ASSUME NEW h \in Handlers, RedeemsForSuccessor(h, t, hd, l, t2, hd2, l2)
          PROVE  t2[i] = [open |-> TRUE, uses |-> 0]
      <4>1. Len(Uses(h, t, hd)) = Len(t) /\ DOMAIN Uses(h, t, hd) = 1..Len(t)
        BY <1>d DEF Uses
      <4>2. t2 = Append(Uses(h, t, hd), Unused)
        BY <3>2 DEF RedeemsForSuccessor
      <4> HIDE DEF Uses
      <4> QED  BY <4>1, <4>2, <1>n, <1>d DEF Unused
    <3>3. CASE DOMAIN t2 = DOMAIN t
      BY <3>3, <1>n
    <3>4. ASSUME NEW h \in Handlers,
                 \/ Takes(h, t, hd, l, t2, hd2, l2) \/ RedeemsAndCloses(h, t, hd, l, t2, hd2, l2)
                 \/ Closes(h, t, hd, l, t2, hd2, l2) \/ Loses(h, t, hd, l, t2, hd2, l2)
          PROVE  DOMAIN t2 = DOMAIN t
      BY <3>4 DEF Takes, RedeemsAndCloses, Closes, Loses
    <3>5. CASE Withdraws(t, hd, l, t2, hd2, l2) \/ Stays(t, hd, l, t2, hd2, l2)
      BY <3>5, <3>3 DEF Withdraws, Stays
    <3> QED  BY <3>1, <3>2, <3>3, <3>4, <3>5 DEF Moves
  <2>2. Cardinality(Spending(i, hd2)) \in Nat
    BY <1>c, HandlerSets
  <2> QED  BY <2>1, <2>2, <1>d DEF Accounted
<1>o. ASSUME i \in DOMAIN t
      PROVE  Accounted(i, t2, hd2, l2)
  <2>b. /\ t[i] = [open |-> t[i].open, uses |-> t[i].uses]
        /\ t[i].uses \in Nat /\ t[i].open \in BOOLEAN
        /\ Cardinality(Waiting(i, hd)) \in Nat /\ Cardinality(Spending(i, hd)) \in Nat
        /\ t[i].uses + Cardinality(Waiting(i, hd)) <= Cardinality(Handlers) + l
        /\ t[i].open => t[i].uses <= Cardinality(Spending(i, hd)) + l
    <3>1. Accounted(i, t, hd, l)
      BY <1>o
    <3>2. /\ t[i] = [open |-> t[i].open, uses |-> t[i].uses]
          /\ t[i].uses \in Nat /\ t[i].open \in BOOLEAN
      BY <1>o, TicketRows
    <3> QED  BY <3>1, <3>2, <1>o, BothCounted DEF Accounted
  <2>1. CASE Issues(t, hd, l, t2, hd2, l2) \/ Stays(t, hd, l, t2, hd2, l2)
    <3>1. t2[i] = t[i] /\ hd2 = hd /\ l2 = l
      BY <2>1, <1>d, <1>o DEF Issues, Stays
    <3> QED  BY <3>1, <2>b DEF Accounted
  <2>2. CASE Withdraws(t, hd, l, t2, hd2, l2)
    <3>1. /\ t2[i] = t[i] \/ t2[i] = Shut(t[i])
          /\ hd2 = hd /\ l2 = l
      BY <2>2, <1>o DEF Withdraws
    <3>2. /\ t2[i].open = FALSE \/ t2[i].open = t[i].open
          /\ t2[i].uses = t[i].uses
      BY <3>1, <2>b DEF Shut
    <3> QED  BY <3>1, <3>2, <2>b DEF Accounted
  <2>3. ASSUME NEW h \in Handlers, Takes(h, t, hd, l, t2, hd2, l2)
        PROVE  Accounted(i, t2, hd2, l2)
    <3>1. PICK j \in DOMAIN t :
            /\ hd2 = [hd EXCEPT ![h] = [ticket |-> j, spent |-> FALSE]]
            /\ hd[h] = [ticket |-> 0, spent |-> FALSE] /\ t[j].open
            /\ t2 = t /\ l2 = l
      BY <2>3 DEF Takes, Nothing
    <3>3. Spending(i, hd2) = Spending(i, hd)
      BY <3>1, <1>d DEF Spending
    <3>4. i # j => Waiting(i, hd2) = Waiting(i, hd)
      BY <3>1, <1>d DEF Waiting
    <3> QED  BY <3>1, <3>3, <3>4, <2>b DEF Accounted
  <2>4. ASSUME NEW h \in Handlers, Loses(h, t, hd, l, t2, hd2, l2)
        PROVE  Accounted(i, t2, hd2, l2)
    <3>1. /\ hd2 = [hd EXCEPT ![h] = [ticket |-> 0, spent |-> FALSE]]
          /\ t2 = t /\ l2 = l + 1
      BY <2>4 DEF Loses, Nothing
    <3>3. /\ Waiting(i, hd2) = Waiting(i, hd) \ {h}
          /\ Spending(i, hd2) = Spending(i, hd) \ {h}
      BY <3>1, <1>d DEF Waiting, Spending
    <3>4. PICK a, b, c, d :
            /\ a = Cardinality(Waiting(i, hd)) /\ b = Cardinality(Spending(i, hd))
            /\ c = Cardinality(Waiting(i, hd) \ {h}) /\ d = Cardinality(Spending(i, hd) \ {h})
      OBVIOUS
    <3>5. a \in Nat /\ b \in Nat /\ c \in Nat /\ d \in Nat /\ c <= a /\ b <= d + 1
      BY <3>4, HolderCounts
    <3>6. t2[i] = t[i] /\ l2 = l + 1
      BY <3>1
    <3>u. PICK u, k : u = t[i].uses /\ k = Cardinality(Handlers)
      OBVIOUS
    <3>v. u \in Nat /\ k \in Nat /\ l \in Nat
      BY <3>u, <2>b, <1>d, <1>h DEF Holding
    <3>w. (t[i].open => u <= b + l) /\ u + a <= k + l
      BY <3>4, <3>u, <2>b DEF Accounted
    <3>x. (t[i].open => u <= d + (l + 1)) /\ u + c <= k + (l + 1)
      BY <3>5, <3>v, <3>w
    <3>7. /\ t[i].open => t[i].uses <= d + l2
          /\ t[i].uses + c <= Cardinality(Handlers) + l2
      BY <3>u, <3>x, <3>6
    <3> QED  BY <3>3, <3>4, <3>6, <3>7 DEF Accounted
  <2>5. ASSUME NEW h \in Handlers,
               \/ RedeemsAndCloses(h, t, hd, l, t2, hd2, l2)
               \/ Closes(h, t, hd, l, t2, hd2, l2)
               \/ RedeemsForSuccessor(h, t, hd, l, t2, hd2, l2)
        PROVE  Accounted(i, t2, hd2, l2)
    <3>n. PICK n : n = hd[h].ticket
      OBVIOUS
    <3>s. PICK s \in BOOLEAN : hd[h] = [ticket |-> n, spent |-> s]
      BY <3>n, <1>d DEF Holding
    <3>1. n \in DOMAIN t
      BY <2>5, <1>d, <3>n DEF RedeemsAndCloses, Closes, RedeemsForSuccessor
    <3>2. l2 = l
      BY <2>5 DEF RedeemsAndCloses, Closes, RedeemsForSuccessor
    <3>a. ASSUME RedeemsForSuccessor(h, t, hd, l, t2, hd2, l2)
          PROVE  /\ t2[i] = IF i = n THEN [open |-> t[i].open, uses |-> t[i].uses + 1]
                            ELSE t[i]
                 /\ hd2 = [hd EXCEPT ![h] = [ticket |-> n, spent |-> TRUE]] /\ s = FALSE
      <4>1. t2 = Append(Uses(h, t, hd), Unused)
        BY <3>a DEF RedeemsForSuccessor
      <4>2. Uses(h, t, hd)[i] =
              IF i = n THEN [open |-> t[i].open, uses |-> t[i].uses + 1] ELSE t[i]
        BY <1>o, <3>n, <2>b DEF Uses, Drawn
      <4>3. Len(Uses(h, t, hd)) = Len(t)
        BY <1>d DEF Uses
      <4>4. t2[i] = Uses(h, t, hd)[i]
        <5> HIDE DEF Uses
        <5> QED  BY <4>1, <4>3, <1>o, <1>d
      <4>5. hd2 = [hd EXCEPT ![h] = [ticket |-> n, spent |-> TRUE]]
        BY <3>a, <3>n DEF RedeemsForSuccessor
      <4>6. s = FALSE
        BY <3>a, <3>s DEF RedeemsForSuccessor
      <4> QED  BY <4>2, <4>4, <4>5, <4>6
    <3>b. ASSUME RedeemsAndCloses(h, t, hd, l, t2, hd2, l2)
          PROVE  /\ t2[i] = IF i = n THEN [open |-> FALSE, uses |-> t[i].uses + 1]
                            ELSE t[i]
                 /\ hd2 = [hd EXCEPT ![h] = [ticket |-> 0, spent |-> FALSE]] /\ s = FALSE
      <4>1. t2 = [t EXCEPT ![n] = Shut(Drawn(@))]
        BY <3>b, <3>n DEF RedeemsAndCloses
      <4>2. i = n => t2[i] = Shut(Drawn(t[i]))
        BY <4>1, <1>o
      <4>3. i # n => t2[i] = t[i]
        BY <4>1, <1>o
      <4>4. Shut(Drawn(t[i])) = [open |-> FALSE, uses |-> t[i].uses + 1]
        BY <1>o, TicketRows, OneTicket
      <4>5. hd2 = [hd EXCEPT ![h] = Nothing] /\ s = FALSE
        BY <3>b, <3>s DEF RedeemsAndCloses
      <4> QED  BY <4>2, <4>3, <4>4, <4>5 DEF Nothing
    <3>c. ASSUME Closes(h, t, hd, l, t2, hd2, l2)
          PROVE  /\ t2[i] = IF i = n THEN [open |-> FALSE, uses |-> t[i].uses]
                            ELSE t[i]
                 /\ hd2 = [hd EXCEPT ![h] = [ticket |-> 0, spent |-> FALSE]] /\ s = TRUE
      <4>1. t2 = [t EXCEPT ![n] = Shut(@)]
        BY <3>c, <3>n DEF Closes
      <4>2. i = n => t2[i] = Shut(t[i])
        BY <4>1, <1>o
      <4>3. i # n => t2[i] = t[i]
        BY <4>1, <1>o
      <4>4. Shut(t[i]) = [open |-> FALSE, uses |-> t[i].uses]
        BY <1>o, TicketRows, OneTicket
      <4>5. hd2 = [hd EXCEPT ![h] = Nothing] /\ s = TRUE
        BY <3>c, <3>s DEF Closes
      <4> QED  BY <4>2, <4>3, <4>4, <4>5 DEF Nothing
    <3>4. \A g \in Handlers \ {h} : hd2[g] = hd[g]
      BY <2>5, <3>a, <3>b, <3>c, <1>d
    <3>5. /\ Waiting(i, hd2) \ {h} = Waiting(i, hd) \ {h}
          /\ Spending(i, hd2) \ {h} = Spending(i, hd) \ {h}
      BY <3>4, NotTheHolder
    <3>t. PICK a, b, c, d :
            /\ a = Cardinality(Waiting(i, hd)) /\ b = Cardinality(Spending(i, hd))
            /\ c = Cardinality(Waiting(i, hd) \ {h}) /\ d = Cardinality(Spending(i, hd) \ {h})
      OBVIOUS
    <3>w. /\ a \in Nat /\ b \in Nat /\ c \in Nat /\ d \in Nat
          /\ h \in Waiting(i, hd) => a = c + 1
          /\ h \notin Waiting(i, hd) => a = c
          /\ h \in Spending(i, hd) => b = d + 1
          /\ h \notin Spending(i, hd) => b = d
      BY <3>t, HolderCounts
    <3>v. /\ h \notin Waiting(i, hd2) => Cardinality(Waiting(i, hd2)) = c
          /\ h \in Spending(i, hd2) => Cardinality(Spending(i, hd2)) = d + 1
          /\ h \notin Spending(i, hd2) => Cardinality(Spending(i, hd2)) = d
      BY <3>t, <3>5, HolderCounts
    <3>u. PICK u, k : u = t[i].uses /\ k = Cardinality(Handlers)
      OBVIOUS
    <3>q. u \in Nat /\ k \in Nat /\ l \in Nat
      BY <3>u, <2>b, <1>d, <1>h
    <3>y. u + a <= k + l /\ (t[i].open => u <= b + l)
      BY <3>t, <3>u, <2>b
    <3>x. /\ h \in Waiting(i, hd) <=> i = n /\ s = FALSE
          /\ h \in Spending(i, hd) <=> i = n /\ s = TRUE
      BY <3>s DEF Waiting, Spending
    <3>6. CASE RedeemsForSuccessor(h, t, hd, l, t2, hd2, l2)
      <4>1. (h \notin Waiting(i, hd2)) /\ (h \in Spending(i, hd2) <=> i = n)
        BY <3>6, <3>a, <1>d DEF Waiting, Spending
      <4>2. CASE i = n
        <5>1. t2[i].open = t[i].open /\ t2[i].uses = u + 1 /\ s = FALSE
          BY <3>6, <3>a, <4>2, <3>u
        <5>2. a = c + 1 /\ b = d
          BY <3>w, <3>x, <4>2, <5>1
        <5>3. Cardinality(Waiting(i, hd2)) = c /\ Cardinality(Spending(i, hd2)) = d + 1
          BY <3>v, <4>1, <4>2
        <5>4. (t[i].open => u + 1 <= (d + 1) + l) /\ (u + 1) + c <= k + l
          BY <3>w, <3>y, <5>2, <3>q
        <5> QED  BY <3>2, <3>u, <5>1, <5>3, <5>4 DEF Accounted
      <4>3. CASE i # n
        <5>1. t2[i] = t[i] /\ a = c /\ b = d
          BY <3>6, <3>a, <3>w, <3>x, <4>3
        <5>2. Cardinality(Waiting(i, hd2)) = c /\ Cardinality(Spending(i, hd2)) = d
          BY <3>v, <4>1, <4>3
        <5> QED  BY <3>2, <3>u, <3>y, <5>1, <5>2 DEF Accounted
      <4> QED  BY <4>2, <4>3
    <3>7. CASE RedeemsAndCloses(h, t, hd, l, t2, hd2, l2)
      <4>1. (h \notin Waiting(i, hd2)) /\ (h \notin Spending(i, hd2))
        BY <3>7, <3>b, <1>d DEF Waiting, Spending
      <4>2. CASE i = n
        <5>1. t2[i].open = FALSE /\ t2[i].uses = u + 1 /\ s = FALSE
          BY <3>7, <3>b, <4>2, <3>u
        <5>2. a = c + 1 /\ Cardinality(Waiting(i, hd2)) = c
          BY <3>v, <3>w, <3>x, <4>1, <4>2, <5>1
        <5>3. (u + 1) + c <= k + l
          BY <3>w, <3>y, <5>2, <3>q
        <5> QED  BY <3>2, <3>u, <5>1, <5>2, <5>3 DEF Accounted
      <4>3. CASE i # n
        <5>1. t2[i] = t[i] /\ a = c /\ b = d
          BY <3>7, <3>b, <3>w, <3>x, <4>3
        <5>2. Cardinality(Waiting(i, hd2)) = c /\ Cardinality(Spending(i, hd2)) = d
          BY <3>v, <4>1, <4>3
        <5> QED  BY <3>2, <3>u, <3>y, <5>1, <5>2 DEF Accounted
      <4> QED  BY <4>2, <4>3
    <3>8. CASE Closes(h, t, hd, l, t2, hd2, l2)
      <4>1. (h \notin Waiting(i, hd2)) /\ (h \notin Spending(i, hd2))
        BY <3>8, <3>c, <1>d DEF Waiting, Spending
      <4>2. CASE i = n
        <5>1. t2[i].open = FALSE /\ t2[i].uses = t[i].uses /\ s = TRUE
          BY <3>8, <3>c, <4>2
        <5>2. a = c /\ Cardinality(Waiting(i, hd2)) = c
          BY <3>v, <3>w, <3>x, <4>1, <4>2, <5>1
        <5> QED  BY <3>2, <3>u, <3>y, <5>1, <5>2 DEF Accounted
      <4>3. CASE i # n
        <5>1. t2[i] = t[i] /\ a = c /\ b = d
          BY <3>8, <3>c, <3>w, <3>x, <4>3
        <5>2. Cardinality(Waiting(i, hd2)) = c /\ Cardinality(Spending(i, hd2)) = d
          BY <3>v, <4>1, <4>3
        <5> QED  BY <3>2, <3>u, <3>y, <5>1, <5>2 DEF Accounted
      <4> QED  BY <4>2, <4>3
    <3> QED  BY <2>5, <3>6, <3>7, <3>8
  <2> QED  BY <2>1, <2>2, <2>3, <2>4, <2>5 DEF Moves
<1> QED  BY <1>n, <1>o

-----------------------------------------------------------------------------
(* The calls.  Which steps an operation goes through ...                   *)
Programs(c) ==
  /\ c.op = "none" => c.at = "idle" /\ c.epoch = 0
  /\ c.at = "idle" => c.op = "none"
  /\ c.op = "request" => c.at \in {"throttle", "invalidate", "createCode"}
  /\ c.op = "verify" => c.at \in {"find", "decrement", "consume", "markVerified"}
  /\ c.op = "reset" => c.at \in {"find", "decrement", "consume", "setPassword",
                                 "resetFailed", "revokeAll"}
  /\ c.op = "phone" => c.at \in {"find", "decrement", "consume", "createUser",
                                 "markVerified", "resetFailed", "openSession", "issuePair"}
  /\ c.op = "signup" => c.at \in {"createUser", "openSession", "issuePair", "throttle",
                                  "invalidate", "createCode"}
  /\ c.op = "login" => c.at \in {"resetFailed", "bump", "openSession", "issuePair"}
  /\ c.op = "refresh" => c.at \in {"issuePair", "markRotated", "markReplay", "revokeSession"}
  /\ c.op = "revokeMine" => c.at \in {"revokeSession", "revokeTokens"}
  /\ c.op = "change" => c.at \in {"setPassword", "revokeAll"}
  /\ c.op = "suspend" => c.at = "revokeAll"

(* ... and the row that a call holds at a step, when there are nc codes,   *)
(* ns sessions and nt tokens.                                              *)
SignIns == {"phone", "signup", "login"}
Holds(c, nc, ns, nt) ==
  /\ c.at \in {"decrement", "consume"} => c.n \in 1..nc
  /\ c.at = "createCode" => c.n \in 0..nc
  /\ c.op = "refresh" => c.n \in 1..nt
  /\ c.op \in SignIns /\ c.at \notin {"decrement", "consume", "bump", "createCode"} => c.n = 0
  /\ c.at \in {"issuePair", "markRotated", "markReplay", "revokeSession", "revokeTokens"}
       => c.session \in 1..ns

(* A sign-in that has read the user and not yet opened its session.        *)
SignsIn(c) ==
  /\ c.op \in SignIns
  /\ c.at \notin {"issuePair", "bump", "throttle", "invalidate", "createCode"}

(* How the calls of one handler follow one another.                        *)
Follows(c, d) ==
  /\ d.at = "consume" => c.at = "find"
  /\ d.at = "createCode" => c.at = "invalidate"
  /\ d.at = "bump" => c.at = "idle"
  /\ d.op = "refresh" /\ d.at = "issuePair" => c.at = "idle"
  /\ d.at = "markRotated" => c.at = "issuePair"
  /\ SignsIn(d) => c.at = "idle" \/ (SignsIn(c) /\ d.epoch = c.epoch)

CallsOK ==
  /\ call \in [Handlers -> Call]
  /\ \A h \in Handlers : /\ Programs(call[h])
                         /\ Holds(call[h], Len(codes), Len(sessions), Len(tokens))
                         /\ call[h].epoch <= user.epoch

RowsTyped ==
  /\ codes \in Seq(Code) /\ sessions \in Seq(Session) /\ tokens \in Seq(Token)
  /\ \A i \in DOMAIN tokens : tokens[i].session \in DOMAIN sessions

Typed ==
  /\ RowsTyped /\ CallsOK /\ user \in User
  /\ requests \in 0..MaxRequests /\ faults \in 0..MaxFaults

LEMMA Lengths ==
  ASSUME RowsTyped
  PROVE  /\ Len(codes) \in Nat /\ DOMAIN codes = 1..Len(codes)
         /\ Len(sessions) \in Nat /\ DOMAIN sessions = 1..Len(sessions)
         /\ Len(tokens) \in Nat /\ DOMAIN tokens = 1..Len(tokens)
BY DEF RowsTyped

LEMMA TypedIsTypeOK ==
  ASSUME Typed
  PROVE  TypeOK
<1>1. /\ DOMAIN codes = 1..Len(codes) /\ DOMAIN sessions = 1..Len(sessions)
      /\ DOMAIN tokens = 1..Len(tokens)
  BY Lengths DEF Typed
<1>2. ASSUME NEW h \in Handlers
      PROVE  /\ call[h].at \in {"decrement", "consume"} => call[h].n \in DOMAIN codes
             /\ call[h].at \in {"markRotated", "markReplay"} => call[h].n \in DOMAIN tokens
             /\ call[h].at \in {"issuePair", "markRotated", "markReplay", "revokeSession",
                                "revokeTokens"} => call[h].session \in DOMAIN sessions
  <2>1. /\ Programs(call[h]) /\ Holds(call[h], Len(codes), Len(sessions), Len(tokens))
        /\ call[h] \in Call
    BY DEF Typed, CallsOK
  <2>2. call[h].at \in {"markRotated", "markReplay"} => call[h].op = "refresh"
    BY <2>1 DEF Programs, Call, Ops
  <2> QED  BY <1>1, <2>1, <2>2 DEF Holds
<1> QED  BY <1>1, <1>2 DEF TypeOK, Typed, RowsTyped, CallsOK

-----------------------------------------------------------------------------
(* The rows of one collection, one write at a time.                        *)
LEMMA OneCode ==
  ASSUME NEW r \in Code, NEW c,
         \/ c = [r EXCEPT !.consumed = TRUE] \/ c = [r EXCEPT !.attempts = @ - 1]
         \/ c = [r EXCEPT !.consumed = TRUE, !.uses = @ + 1]
         \/ c = [r EXCEPT !.expired = TRUE, !.fresh = FALSE]
         \/ c = [r EXCEPT !.fresh = FALSE]
  PROVE  /\ c \in Code /\ c.purpose = r.purpose /\ c.channel = r.channel
         /\ c.cleared = r.cleared
         /\ r.consumed => c.consumed
         /\ r.expired => c.expired
<1>1. CASE c = [r EXCEPT !.consumed = TRUE]
  BY <1>1 DEF Code
<1>2. CASE c = [r EXCEPT !.attempts = @ - 1]
  BY <1>2 DEF Code
<1>3. CASE c = [r EXCEPT !.consumed = TRUE, !.uses = @ + 1]
  <2>1. PICK u \in Nat : u = r.uses + 1
    BY DEF Code
  <2>2. c = [r EXCEPT !.consumed = TRUE, !.uses = u]
    BY <1>3, <2>1
  <2> QED  BY <2>2 DEF Code
<1>4. CASE c = [r EXCEPT !.expired = TRUE, !.fresh = FALSE]
  BY <1>4 DEF Code
<1>5. CASE c = [r EXCEPT !.fresh = FALSE]
  BY <1>5 DEF Code
<1> QED  BY <1>1, <1>2, <1>3, <1>4, <1>5

LEMMA SeqOfMap ==
  ASSUME NEW S, NEW n \in Nat, NEW f, f = [i \in 1..n |-> f[i]],
         \A i \in 1..n : f[i] \in S
  PROVE  f \in Seq(S) /\ Len(f) = n /\ DOMAIN f = 1..n
OBVIOUS

(* What no step takes back from the codes there are.                       *)
CodesKept ==
  /\ codes' \in Seq(Code) /\ Len(codes) <= Len(codes')
  /\ \A i \in DOMAIN codes :
       /\ codes'[i].purpose = codes[i].purpose /\ codes'[i].channel = codes[i].channel
       /\ codes'[i].cleared = codes[i].cleared
       /\ Live(i)' => Live(i)

LEMMA CodeIn ==
  ASSUME RowsTyped, NEW i \in DOMAIN codes
  PROVE  codes[i] \in Code
BY ElementOfSeq DEF RowsTyped

LEMMA CodeChanges ==
  ASSUME RowsTyped, NEW i \in DOMAIN codes, NEW c \in Code,
         codes' = [codes EXCEPT ![i] = c],
         c.purpose = codes[i].purpose, c.channel = codes[i].channel,
         c.cleared = codes[i].cleared,
         codes[i].consumed => c.consumed, codes[i].expired => c.expired
  PROVE  CodesKept /\ Len(codes') = Len(codes)
<1>1. codes' \in Seq(Code) /\ Len(codes') = Len(codes) /\ DOMAIN codes' = DOMAIN codes
  BY DEF RowsTyped
<1>2. \A j \in DOMAIN codes : codes'[j] = IF j = i THEN c ELSE codes[j]
  OBVIOUS
<1>3. Len(codes) <= Len(codes')
  BY <1>1, Lengths
<1>4. ASSUME NEW j \in DOMAIN codes
      PROVE  /\ codes'[j].purpose = codes[j].purpose /\ codes'[j].channel = codes[j].channel
             /\ codes'[j].cleared = codes[j].cleared
             /\ Live(j)' => Live(j)
  <2>1. CASE j = i
    BY <1>2, <2>1 DEF Live
  <2>2. CASE j # i
    <3>1. codes'[j] = codes[j]
      BY <1>2, <2>2
    <3> QED  BY <3>1 DEF Live
  <2> QED  BY <2>1, <2>2
<1> QED  BY <1>1, <1>3, <1>4 DEF CodesKept

LEMMA CodesStay ==
  ASSUME RowsTyped, UNCHANGED codes
  PROVE  CodesKept /\ Len(codes') = Len(codes)
<1>1. Len(codes) \in Nat
  BY Lengths
<1> QED  BY <1>1 DEF CodesKept, RowsTyped, Live

LEMMA InvalidateKeeps ==
  ASSUME RowsTyped, NEW p, NEW ch, InvalidateActive(p, ch)
  PROVE  /\ CodesKept /\ Len(codes') = Len(codes) /\ DOMAIN codes' = DOMAIN codes
         /\ \A i \in DOMAIN codes :
              codes[i].purpose = p /\ codes[i].channel = ch => ~Live(i)'
<1>1. /\ DOMAIN codes' = 1..Len(codes) /\ Len(codes) \in Nat
      /\ \A i \in DOMAIN codes :
           codes'[i] = IF codes[i].purpose = p /\ codes[i].channel = ch
                       THEN [codes[i] EXCEPT !.consumed = TRUE] ELSE codes[i]
  BY Lengths DEF InvalidateActive
<1>2. ASSUME NEW i \in DOMAIN codes
      PROVE  /\ codes'[i] \in Code
             /\ codes'[i].purpose = codes[i].purpose /\ codes'[i].channel = codes[i].channel
             /\ codes'[i].cleared = codes[i].cleared
             /\ Live(i)' => Live(i)
             /\ codes[i].purpose = p /\ codes[i].channel = ch => ~Live(i)'
  <2>1. codes[i] \in Code
    BY CodeIn
  <2>2. CASE codes[i].purpose = p /\ codes[i].channel = ch
    <3>1. PICK c : c = [codes[i] EXCEPT !.consumed = TRUE]
      OBVIOUS
    <3>2. codes'[i] = c
      BY <1>1, <2>2, <3>1
    <3>3. c.consumed
      BY <2>1, <3>1 DEF Code
    <3>4. c \in Code /\ c.purpose = codes[i].purpose /\ c.channel = codes[i].channel
          /\ c.cleared = codes[i].cleared
      BY <2>1, <3>1, OneCode
    <3> QED  BY <3>2, <3>3, <3>4 DEF Live
  <2>3. CASE ~(codes[i].purpose = p /\ codes[i].channel = ch)
    <3>1. codes'[i] = codes[i]
      BY <1>1, <2>3
    <3> QED  BY <3>1, <2>1, <2>3 DEF Live
  <2> QED  BY <2>2, <2>3
<1>3. codes' = [i \in 1..Len(codes) |-> codes'[i]]
  BY <1>1 DEF InvalidateActive
<1>4. codes' \in Seq(Code) /\ Len(codes') = Len(codes)
  BY <1>1, <1>2, <1>3, Lengths
<1> QED  BY <1>1, <1>2, <1>4, Lengths DEF CodesKept

LEMMA CreateKeeps ==
  ASSUME RowsTyped, NEW p \in Purposes, NEW ch \in Channels, NEW n \in Nat,
         CreateRow(p, ch, n)
  PROVE  /\ CodesKept /\ Len(codes') = Len(codes) + 1
         /\ \A i \in DOMAIN codes : codes'[i] = codes[i]
         /\ codes'[Len(codes) + 1] = NewCode(p, ch, n)
<1>1. NewCode(p, ch, n) \in Code
  BY AttemptsAssumption DEF NewCode, Code
<1>2. PICK c \in Code : c = NewCode(p, ch, n)
  BY <1>1
<1>3. codes' = Append(codes, c)
  BY <1>2 DEF CreateRow
<1>4. /\ codes' \in Seq(Code) /\ Len(codes') = Len(codes) + 1
      /\ \A i \in DOMAIN codes : codes'[i] = codes[i]
      /\ codes'[Len(codes) + 1] = c
  BY <1>3 DEF RowsTyped
<1>5. Len(codes) <= Len(codes')
  BY <1>4, Lengths
<1>6. \A i \in DOMAIN codes : Live(i)' => Live(i)
  BY <1>4 DEF Live
<1> QED  BY <1>2, <1>4, <1>5, <1>6 DEF CodesKept

(* The other writes to codes.                                              *)
LEMMA CodeWrites ==
  ASSUME RowsTyped,
         \/ \E i \in DOMAIN codes : DecrementAttempts(i) \/ ConsumeRow(i)
         \/ CodeExpires \/ MinutePasses
  PROVE  CodesKept /\ Len(codes') = Len(codes)
<1>1. PICK i \in DOMAIN codes :
        \/ DecrementAttempts(i) \/ ConsumeRow(i)
        \/ codes' = [codes EXCEPT ![i].expired = TRUE, ![i].fresh = FALSE]
        \/ codes' = [codes EXCEPT ![i].fresh = FALSE]
  BY DEF CodeExpires, MinutePasses
<1>2. codes[i] \in Code
  BY CodeIn
<1>3. PICK c : /\ codes' = [codes EXCEPT ![i] = c]
               /\ \/ c = [codes[i] EXCEPT !.attempts = @ - 1]
                  \/ c = [codes[i] EXCEPT !.consumed = TRUE, !.uses = @ + 1]
                  \/ c = [codes[i] EXCEPT !.expired = TRUE, !.fresh = FALSE]
                  \/ c = [codes[i] EXCEPT !.fresh = FALSE]
  <2>1. CASE DecrementAttempts(i)
    <3>1. codes' = [codes EXCEPT ![i] = [codes[i] EXCEPT !.attempts = @ - 1]]
      BY <2>1 DEF DecrementAttempts
    <3> QED  BY <3>1
  <2>2. CASE ConsumeRow(i)
    <3>1. codes' = [codes EXCEPT ![i] = [codes[i] EXCEPT !.consumed = TRUE, !.uses = @ + 1]]
      BY <2>2 DEF ConsumeRow
    <3> QED  BY <3>1
  <2>3. CASE codes' = [codes EXCEPT ![i].expired = TRUE, ![i].fresh = FALSE]
    <3>1. codes' = [codes EXCEPT ![i] = [codes[i] EXCEPT !.expired = TRUE, !.fresh = FALSE]]
      BY <2>3
    <3> QED  BY <3>1
  <2>4. CASE codes' = [codes EXCEPT ![i].fresh = FALSE]
    <3>1. codes' = [codes EXCEPT ![i] = [codes[i] EXCEPT !.fresh = FALSE]]
      BY <2>4
    <3> QED  BY <3>1
  <2> QED  BY <1>1, <2>1, <2>2, <2>3, <2>4
<1>4. /\ c \in Code /\ c.purpose = codes[i].purpose /\ c.channel = codes[i].channel
      /\ c.cleared = codes[i].cleared
      /\ codes[i].consumed => c.consumed
      /\ codes[i].expired => c.expired
  BY <1>2, <1>3, OneCode
<1> QED  BY <1>3, <1>4, CodeChanges

(* No step reopens a session.                                              *)
SessionsKept ==
  /\ sessions' \in Seq(Session) /\ Len(sessions) <= Len(sessions')
  /\ \A s \in DOMAIN sessions :
       /\ sessions'[s].epoch = sessions[s].epoch
       /\ sessions'[s].status = "ACTIVE" => sessions[s].status = "ACTIVE"

LEMMA OneSession ==
  ASSUME NEW r \in Session, NEW c, c = [r EXCEPT !.status = "REVOKED"]
  PROVE  c \in Session /\ c.epoch = r.epoch /\ c.status = "REVOKED"
BY DEF Session

LEMMA SessionIn ==
  ASSUME RowsTyped, NEW s \in DOMAIN sessions
  PROVE  sessions[s] \in Session
BY ElementOfSeq DEF RowsTyped

LEMMA SessionsStay ==
  ASSUME RowsTyped, UNCHANGED sessions
  PROVE  SessionsKept
<1>1. Len(sessions) \in Nat
  BY Lengths
<1> QED  BY <1>1 DEF SessionsKept, RowsTyped

LEMMA SessionRevoked ==
  ASSUME RowsTyped, NEW s \in DOMAIN sessions, RevokeSessionRow(s)
  PROVE  SessionsKept /\ Len(sessions') = Len(sessions)
<1>1. PICK c : c = [sessions[s] EXCEPT !.status = "REVOKED"]
  OBVIOUS
<1>2. c \in Session /\ c.epoch = sessions[s].epoch /\ c.status = "REVOKED"
  BY <1>1, OneSession, SessionIn
<1>3. sessions' = [sessions EXCEPT ![s] = c]
  BY <1>1 DEF RevokeSessionRow
<1>4. sessions' \in Seq(Session) /\ Len(sessions') = Len(sessions)
  BY <1>2, <1>3 DEF RowsTyped
<1>5. \A i \in DOMAIN sessions : sessions'[i] = IF i = s THEN c ELSE sessions[i]
  BY <1>3
<1>6. Len(sessions) <= Len(sessions')
  BY <1>4, Lengths
<1> QED  BY <1>2, <1>4, <1>5, <1>6 DEF SessionsKept

LEMMA AllSessionsRevoked ==
  ASSUME RowsTyped, RevokeAllForUser
  PROVE  /\ SessionsKept /\ Len(sessions') = Len(sessions)
         /\ \A s \in DOMAIN sessions' : sessions'[s].status = "REVOKED"
<1>1. \A s \in DOMAIN sessions : sessions'[s] = [sessions[s] EXCEPT !.status = "REVOKED"]
  BY DEF RevokeAllForUser
<1>2. ASSUME NEW s \in DOMAIN sessions
      PROVE  /\ sessions'[s] \in Session /\ sessions'[s].epoch = sessions[s].epoch
             /\ sessions'[s].status = "REVOKED"
  <2>1. PICK c : c = sessions'[s]
    OBVIOUS
  <2>2. c = [sessions[s] EXCEPT !.status = "REVOKED"]
    BY <1>1, <2>1
  <2>3. sessions[s] \in Session
    BY SessionIn
  <2>4. c \in Session /\ c.epoch = sessions[s].epoch /\ c.status = "REVOKED"
    BY <2>2, <2>3, OneSession
  <2> QED  BY <2>1, <2>4
<1>3. /\ DOMAIN sessions' = 1..Len(sessions) /\ Len(sessions) \in Nat
      /\ DOMAIN sessions = 1..Len(sessions)
  BY Lengths DEF RevokeAllForUser
<1>4. sessions' = [s \in 1..Len(sessions) |-> sessions'[s]]
  BY <1>3 DEF RevokeAllForUser
<1>5. sessions' \in Seq(Session) /\ Len(sessions') = Len(sessions)
  BY <1>2, <1>3, <1>4
<1> QED  BY <1>2, <1>3, <1>5 DEF SessionsKept

LEMMA SessionCreated ==
  ASSUME RowsTyped, NEW e \in Nat, CreateSession(e)
  PROVE  /\ SessionsKept /\ Len(sessions') = Len(sessions) + 1
         /\ \A s \in DOMAIN sessions : sessions'[s] = sessions[s]
         /\ sessions'[Len(sessions) + 1] = [status |-> "ACTIVE", epoch |-> e]
<1>1. PICK r \in Session : r = [status |-> "ACTIVE", epoch |-> e]
  BY DEF Session
<1>2. sessions' = Append(sessions, r)
  BY <1>1 DEF CreateSession
<1>3. /\ sessions' \in Seq(Session) /\ Len(sessions') = Len(sessions) + 1
      /\ \A s \in DOMAIN sessions : sessions'[s] = sessions[s]
      /\ sessions'[Len(sessions) + 1] = r
  BY <1>2 DEF RowsTyped
<1>4. Len(sessions) <= Len(sessions')
  BY <1>3, Lengths
<1> QED  BY <1>1, <1>3, <1>4 DEF SessionsKept

(* Tokens belong to sessions there are.                                    *)
TokensKept ==
  /\ tokens' \in Seq(Token) /\ Len(tokens) <= Len(tokens')
  /\ \A i \in DOMAIN tokens' : tokens'[i].session \in DOMAIN sessions'

LEMMA OneToken ==
  ASSUME NEW r \in Token, NEW c,
         \/ c = [r EXCEPT !.uses = @ + 1] \/ c = [r EXCEPT !.revoked = TRUE]
         \/ c = [r EXCEPT !.revoked = TRUE, !.replayed = TRUE]
  PROVE  c \in Token /\ c.session = r.session
<1>1. CASE c = [r EXCEPT !.uses = @ + 1]
  <2>1. PICK u \in Nat : u = r.uses + 1
    BY DEF Token
  <2>2. c = [r EXCEPT !.uses = u]
    BY <1>1, <2>1
  <2> QED  BY <2>2, <2>1 DEF Token
<1>2. CASE c = [r EXCEPT !.revoked = TRUE]
  BY <1>2 DEF Token
<1>3. CASE c = [r EXCEPT !.revoked = TRUE, !.replayed = TRUE]
  BY <1>3 DEF Token
<1> QED  BY <1>1, <1>2, <1>3

LEMMA TokenIn ==
  ASSUME RowsTyped, NEW i \in DOMAIN tokens
  PROVE  tokens[i] \in Token /\ tokens[i].session \in DOMAIN sessions
BY ElementOfSeq DEF RowsTyped

LEMMA MoreSessions ==
  ASSUME RowsTyped, SessionsKept
  PROVE  DOMAIN sessions \subseteq DOMAIN sessions'
<1>1. Len(sessions') \in Nat /\ DOMAIN sessions' = 1..Len(sessions')
  BY DEF SessionsKept
<1> QED  BY <1>1, Lengths DEF SessionsKept

LEMMA TokensStay ==
  ASSUME RowsTyped, SessionsKept, UNCHANGED tokens
  PROVE  TokensKept
<1>1. Len(tokens) \in Nat
  BY Lengths
<1>2. \A i \in DOMAIN tokens : tokens[i].session \in DOMAIN sessions'
  BY TokenIn, MoreSessions
<1> QED  BY <1>1, <1>2 DEF TokensKept, RowsTyped

LEMMA TokensMapped ==
  ASSUME RowsTyped, SessionsKept, NEW f,
         f = [i \in DOMAIN tokens |-> f[i]],
         \A i \in DOMAIN tokens :
           \/ f[i] = tokens[i] \/ f[i] = [tokens[i] EXCEPT !.uses = @ + 1]
           \/ f[i] = [tokens[i] EXCEPT !.revoked = TRUE]
           \/ f[i] = [tokens[i] EXCEPT !.revoked = TRUE, !.replayed = TRUE]
  PROVE  /\ f \in Seq(Token) /\ Len(f) = Len(tokens) /\ DOMAIN f = DOMAIN tokens
         /\ \A i \in DOMAIN f : f[i].session \in DOMAIN sessions'
<1>1. \A i \in DOMAIN tokens : f[i] \in Token /\ f[i].session = tokens[i].session
  BY OneToken, TokenIn
<1>2. DOMAIN tokens = 1..Len(tokens) /\ Len(tokens) \in Nat
  BY Lengths
<1>3. DOMAIN f = DOMAIN tokens
  OBVIOUS
<1>4. f = [i \in 1..Len(tokens) |-> f[i]]
  BY <1>2
<1>5. f \in Seq(Token) /\ Len(f) = Len(tokens)
  <2>1. \A i \in 1..Len(tokens) : f[i] \in Token
    BY <1>1, <1>2
  <2> QED  BY <1>2, <1>4, <2>1, SeqOfMap
<1>6. \A i \in DOMAIN f : f[i].session \in DOMAIN sessions'
  BY <1>1, <1>3, TokenIn, MoreSessions
<1> QED  BY <1>3, <1>5, <1>6

LEMMA TokenWrites ==
  ASSUME RowsTyped, UNCHANGED sessions,
         \/ \E t \in DOMAIN tokens : MarkRotatedRow(t) \/ MarkReuse(t)
         \/ \E s : RevokeForSession(s)
  PROVE  TokensKept /\ Len(tokens') = Len(tokens)
<1>1. SessionsKept
  BY SessionsStay
<1>2. /\ tokens' = [i \in DOMAIN tokens |-> tokens'[i]]
      /\ \A i \in DOMAIN tokens :
           \/ tokens'[i] = tokens[i] \/ tokens'[i] = [tokens[i] EXCEPT !.uses = @ + 1]
           \/ tokens'[i] = [tokens[i] EXCEPT !.revoked = TRUE]
           \/ tokens'[i] = [tokens[i] EXCEPT !.revoked = TRUE, !.replayed = TRUE]
  <2>1. ASSUME NEW t \in DOMAIN tokens, MarkRotatedRow(t)
        PROVE  <1>2!:
    <3>1. tokens' = [tokens EXCEPT ![t] = [tokens[t] EXCEPT !.revoked = TRUE]]
      BY <2>1 DEF MarkRotatedRow
    <3> QED  BY <3>1
  <2>2. ASSUME NEW t \in DOMAIN tokens, MarkReuse(t)
        PROVE  <1>2!:
    <3>1. tokens' = [tokens EXCEPT ![t] = [tokens[t] EXCEPT !.revoked = TRUE, !.replayed = TRUE]]
      BY <2>2 DEF MarkReuse
    <3> QED  BY <3>1
  <2>3. ASSUME NEW s, RevokeForSession(s)
        PROVE  <1>2!:
    BY <2>3 DEF RevokeForSession
  <2> QED  BY <2>1, <2>2, <2>3
<1>3. /\ tokens' \in Seq(Token) /\ Len(tokens') = Len(tokens)
      /\ \A i \in DOMAIN tokens' : tokens'[i].session \in DOMAIN sessions'
  BY <1>1, <1>2, TokensMapped
<1>4. Len(tokens) <= Len(tokens')
  BY <1>3, Lengths
<1> QED  BY <1>3, <1>4 DEF TokensKept

(* The tokens with one more use of token "from".                           *)
UsedFrom(from) ==
  [i \in DOMAIN tokens |-> IF i = from THEN [tokens[i] EXCEPT !.uses = @ + 1]
                                       ELSE tokens[i]]

LEMMA TokenCreated ==
  ASSUME RowsTyped, UNCHANGED sessions, NEW s \in DOMAIN sessions, NEW from,
         CreateToken(s, from)
  PROVE  /\ TokensKept /\ Len(tokens') = Len(tokens) + 1
         /\ \A i \in DOMAIN tokens : tokens'[i] = UsedFrom(from)[i]
         /\ tokens'[Len(tokens) + 1] = NewToken(s)
<1>1. SessionsKept
  BY SessionsStay
<1>2. PICK f : f = UsedFrom(from)
  OBVIOUS
<1>3. /\ f \in Seq(Token) /\ Len(f) = Len(tokens) /\ DOMAIN f = DOMAIN tokens
      /\ \A i \in DOMAIN f : f[i].session \in DOMAIN sessions'
  <2>1. f = [i \in DOMAIN tokens |-> f[i]]
    BY <1>2 DEF UsedFrom
  <2>2. \A i \in DOMAIN tokens :
          f[i] = tokens[i] \/ f[i] = [tokens[i] EXCEPT !.uses = @ + 1]
    BY <1>2 DEF UsedFrom
  <2> QED  BY <1>1, <2>1, <2>2, TokensMapped
<1>4. PICK r : r = NewToken(s)
  OBVIOUS
<1>5. r \in Token /\ r.session = s
  <2>1. s \in Nat
    BY Lengths
  <2> QED  BY <1>4, <2>1 DEF NewToken, Token
<1>6. tokens' = Append(f, r)
  BY <1>2, <1>4 DEF CreateToken, UsedFrom
<1>7. /\ tokens' \in Seq(Token) /\ Len(tokens') = Len(tokens) + 1
      /\ DOMAIN tokens' = 1..(Len(tokens) + 1)
      /\ \A i \in DOMAIN f : tokens'[i] = f[i]
      /\ tokens'[Len(tokens) + 1] = r
  BY <1>3, <1>5, <1>6
<1>8. \A i \in DOMAIN tokens' : tokens'[i].session \in DOMAIN sessions'
  <2>1. DOMAIN tokens' = DOMAIN f \cup {Len(tokens) + 1}
    BY <1>3, <1>7, Lengths
  <2> QED  BY <2>1, <1>3, <1>5, <1>7
<1>9. Len(tokens) <= Len(tokens')
  BY <1>7, Lengths
<1> QED  BY <1>2, <1>3, <1>4, <1>7, <1>8, <1>9 DEF TokensKept

-----------------------------------------------------------------------------
(* What every step keeps, and how the call of its handler goes on.         *)
UserKept == user' \in User /\ user.epoch <= user'.epoch

Turn(h) ==
  \E d \in Call :
    /\ call' = [call EXCEPT ![h] = d]
    /\ Programs(d) /\ Holds(d, Len(codes'), Len(sessions'), Len(tokens'))
    /\ d.epoch <= user'.epoch
    /\ Follows(call[h], d)

Kept(h) == CodesKept /\ SessionsKept /\ TokensKept /\ UserKept /\ Turn(h)

LEMMA RowsStay ==
  ASSUME RowsTyped, UNCHANGED rows
  PROVE  CodesKept /\ SessionsKept /\ TokensKept
BY CodesStay, SessionsStay, TokensStay DEF rows

LEMMA UserStays ==
  ASSUME user \in User, UNCHANGED user
  PROVE  UserKept
BY DEF UserKept, User

LEMMA OneCall ==
  ASSUME CallsOK, NEW h \in Handlers
  PROVE  /\ call[h] \in Call /\ Programs(call[h])
         /\ Holds(call[h], Len(codes), Len(sessions), Len(tokens))
         /\ call[h].epoch <= user.epoch
BY DEF CallsOK

LEMMA IdleFields ==
  /\ Idle \in Call /\ Idle.op = "none" /\ Idle.at = "idle" /\ Idle.n = 0
  /\ Idle.session = 0 /\ Idle.epoch = 0
BY DEF Idle, Call, Ops, Steps, Purposes, Channels

NextCall(c, d, s, n) == d = [c EXCEPT !.at = s, !.n = n]

LEMMA NextFields ==
  ASSUME NEW c \in Call, NEW s \in Steps, NEW n \in Int, NEW d, NextCall(c, d, s, n)
  PROVE  d \in Call /\ d.at = s /\ d.op = c.op /\ d.n = n /\ d.epoch = c.epoch
BY DEF NextCall, Call

LEMMA Returns ==
  ASSUME CallsOK, NEW h \in Handlers, UserKept, Return(h)
  PROVE  Turn(h)
<1>1. PICK d \in Call : /\ d = Idle /\ d.op = "none" /\ d.at = "idle" /\ d.epoch = 0
  BY IdleFields
<1>2. call' = [call EXCEPT ![h] = d]
  BY <1>1 DEF Return
<1>3. Programs(d) /\ Follows(call[h], d)
  BY <1>1 DEF Programs, Follows, SignsIn, SignIns
<1>4. Holds(d, Len(codes'), Len(sessions'), Len(tokens'))
  BY <1>1 DEF Holds, SignIns
<1>5. d.epoch <= user'.epoch
  BY <1>1 DEF UserKept, User
<1> QED  BY <1>2, <1>3, <1>4, <1>5 DEF Turn

LEMMA Goes ==
  ASSUME CallsOK, NEW h \in Handlers, NEW s \in Steps, Goto(h, s)
  PROVE  \E d \in Call :
           /\ call' = [call EXCEPT ![h] = d] /\ d.at = s
           /\ d.op = call[h].op /\ d.n = call[h].n /\ d.session = call[h].session
           /\ d.epoch = call[h].epoch
<1>1. call[h] \in Call
  BY OneCall
<1>2. PICK d : d = [call[h] EXCEPT !.at = s]
  OBVIOUS
<1>3. call' = [call EXCEPT ![h] = d]
  BY <1>2 DEF Goto
<1>4. /\ d \in Call /\ d.at = s /\ d.op = call[h].op /\ d.n = call[h].n
      /\ d.session = call[h].session /\ d.epoch = call[h].epoch
  BY <1>1, <1>2 DEF Call
<1> QED  BY <1>3, <1>4

(* The steps that take a session as they find it.                          *)
NeedsSession == {"issuePair", "markRotated", "markReplay", "revokeSession", "revokeTokens"}

LEMMA GoesOn ==
  ASSUME CallsOK, NEW h \in Handlers, NEW s \in Steps, Goto(h, s), UserKept,
         CodesKept, SessionsKept, TokensKept, RowsTyped, user \in User,
         s \notin {"idle", "bump", "decrement", "consume", "createCode", "issuePair"},
         call[h].at \notin {"idle", "decrement", "consume", "bump", "createCode"},
         \A d \in Call : d.at = s /\ d.op = call[h].op /\ d.epoch = call[h].epoch => Programs(d),
         s \in NeedsSession => call[h].at \in NeedsSession,
         s = "markRotated" => call[h].at = "issuePair",
         s \in {"throttle", "invalidate"} \/ call[h].op \notin SignIns \/ SignsIn(call[h])
  PROVE  Turn(h)
<1>1. PICK d \in Call :
        /\ call' = [call EXCEPT ![h] = d] /\ d.at = s
        /\ d.op = call[h].op /\ d.n = call[h].n /\ d.session = call[h].session
        /\ d.epoch = call[h].epoch
  BY Goes
<1>2. Programs(d)
  BY <1>1
<1>3. /\ Holds(call[h], Len(codes), Len(sessions), Len(tokens)) /\ call[h] \in Call
      /\ call[h].epoch <= user.epoch
  BY OneCall
<1>4. /\ Len(sessions) \in Nat /\ Len(sessions') \in Nat /\ Len(sessions) <= Len(sessions')
      /\ Len(tokens) \in Nat /\ Len(tokens') \in Nat /\ Len(tokens) <= Len(tokens')
  BY Lengths DEF SessionsKept, TokensKept
<1>5. Holds(d, Len(codes'), Len(sessions'), Len(tokens'))
  <2>1. d.op = "refresh" => d.n \in 1..Len(tokens')
    BY <1>1, <1>3, <1>4 DEF Holds
  <2>2. d.at \in NeedsSession => d.session \in 1..Len(sessions')
    BY <1>1, <1>3, <1>4 DEF Holds, NeedsSession
  <2>3. d.op \in SignIns => d.n = 0
    BY <1>1, <1>3 DEF Holds
  <2>4. d.at \notin {"decrement", "consume", "createCode"}
    BY <1>1
  <2> QED  BY <2>1, <2>2, <2>3, <2>4 DEF Holds, NeedsSession
<1>6. d.epoch <= user'.epoch
  <2>1. d.epoch \in Nat /\ user.epoch <= user'.epoch /\ call[h].epoch = d.epoch
    BY <1>1 DEF UserKept, Call
  <2>2. user'.epoch \in Nat /\ user.epoch \in Nat
    BY DEF UserKept, User
  <2> QED  BY <2>1, <2>2, <1>3 DEF CallsOK
<1>7. Follows(call[h], d)
  BY <1>1 DEF Follows, SignsIn
<1> QED  BY <1>1, <1>2, <1>5, <1>6, <1>7 DEF Turn

(* One-time codes.                                                         *)
LEMMA ThrottleKeeps ==
  ASSUME Typed, NEW h \in Handlers, Throttle(h)
  PROVE  Kept(h)
<1>1. CodesKept /\ SessionsKept /\ TokensKept /\ UserKept
  BY RowsStay, UserStays DEF Typed, Throttle
<1>2. CASE Return(h)
  BY <1>1, <1>2, Returns DEF Kept, Typed
<1>3. CASE Goto(h, "invalidate")
  <2>1. Programs(call[h]) /\ call[h] \in Call /\ call[h].at = "throttle"
    BY OneCall DEF Typed, Throttle, At
  <2>2. call[h].op \in {"request", "signup"}
    BY <2>1 DEF Programs, Call, Ops
  <2>3. \A d \in Call : d.at = "invalidate" /\ d.op = call[h].op => Programs(d)
    BY <2>2 DEF Programs
  <2>4. Turn(h)
    BY <1>1, <1>3, <2>1, <2>3, GoesOn DEF Typed, Steps, NeedsSession
  <2> QED  BY <1>1, <2>4 DEF Kept
<1> QED  BY <1>2, <1>3 DEF Throttle

LEMMA InvalidateCalls ==
  ASSUME Typed, NEW h \in Handlers, Invalidate(h)
  PROVE  Kept(h)
<1>1. CodesKept /\ SessionsKept /\ TokensKept /\ UserKept /\ Len(codes') = Len(codes)
  BY InvalidateKeeps, SessionsStay, TokensStay, UserStays DEF Typed, Invalidate
<1>2. Programs(call[h]) /\ call[h] \in Call /\ call[h].at = "invalidate"
      /\ call[h].epoch <= user.epoch
  BY OneCall DEF Typed, Invalidate, At
<1>3. call[h].op \in {"request", "signup"}
  BY <1>2 DEF Programs, Call, Ops
<1>4. PICK n : n = Len(codes) /\ n \in Nat
  BY Lengths DEF Typed
<1>5. PICK d : d = [call[h] EXCEPT !.at = "createCode", !.n = n]
  OBVIOUS
<1>6. call' = [call EXCEPT ![h] = d] /\ user' = user
  BY <1>4, <1>5 DEF Invalidate
<1>7. /\ d \in Call /\ d.at = "createCode" /\ d.op = call[h].op /\ d.n = n
      /\ d.epoch = call[h].epoch
  <2>1. "createCode" \in Steps /\ n \in Int
    BY <1>4 DEF Steps
  <2>2. call[h] \in Call
    BY <1>2
  <2>3. NextCall(call[h], d, "createCode", n)
    BY <1>5 DEF NextCall
  <2> QED  BY <2>1, <2>2, <2>3, NextFields
<1>8. Programs(d)
  BY <1>3, <1>7 DEF Programs
<1>9. Holds(d, Len(codes'), Len(sessions'), Len(tokens'))
  BY <1>1, <1>3, <1>4, <1>7 DEF Holds
<1>10. Follows(call[h], d)
  BY <1>2, <1>7 DEF Follows, SignsIn
<1> QED  BY <1>1, <1>2, <1>6, <1>7, <1>8, <1>9, <1>10 DEF Kept, Turn

LEMMA CreateCodeKeeps ==
  ASSUME Typed, NEW h \in Handlers, CreateCode(h)
  PROVE  Kept(h)
<1>1. CodesKept
  <2>1. call[h] \in Call /\ call[h].n \in Nat
    <3>1. Holds(call[h], Len(codes), Len(sessions), Len(tokens)) /\ call[h] \in Call
          /\ call[h].at = "createCode"
      BY OneCall DEF Typed, CreateCode, At
    <3> QED  BY <3>1, Lengths DEF Typed, Holds
  <2>2. call[h].purpose \in Purposes /\ call[h].channel \in Channels
    BY <2>1 DEF Call
  <2>3. CreateRow(call[h].purpose, call[h].channel, call[h].n)
    BY DEF CreateCode
  <2> QED  BY <2>1, <2>2, <2>3, CreateKeeps DEF Typed
<1>2. SessionsKept /\ TokensKept /\ UserKept
  BY SessionsStay, TokensStay, UserStays DEF Typed, CreateCode
<1> QED  BY <1>1, <1>2, Returns DEF Kept, Typed, CreateCode

(* The code found is one of those there are, and live.                     *)
LEMMA Found ==
  ASSUME RowsTyped, NEW p, FindActive(p) # 0
  PROVE  FindActive(p) \in DOMAIN codes /\ Live(FindActive(p))
<1> DEFINE S == {i \in DOMAIN codes : codes[i].purpose = p /\ Live(i)}
<1>1. DOMAIN codes = 1..Len(codes) /\ Len(codes) \in Nat
  BY Lengths
<1>2. {0} \cup S \subseteq 0..Len(codes)
  BY <1>1
<1>3. IsFiniteSet({0} \cup S)
  <2>1. IsFiniteSet(0..Len(codes))
    BY <1>1, FS_Interval
  <2> QED  BY <1>2, <2>1, FS_Subset
<1>4. {0} \cup S \subseteq Int /\ {0} \cup S # {}
  BY <1>1, <1>2
<1>5. FindActive(p) = Max({0} \cup S)
  BY DEF FindActive
<1>6. FindActive(p) \in {0} \cup S
  <2> HIDE DEF S
  <2> QED  BY <1>3, <1>4, <1>5, Greatest
<1> QED  BY <1>6

LEMMA FindCodeKeeps ==
  ASSUME Typed, NEW h \in Handlers, FindCode(h)
  PROVE  Kept(h)
<1>1. CodesKept /\ SessionsKept /\ TokensKept /\ UserKept /\ UNCHANGED <<codes, user>>
  BY RowsStay, UserStays DEF Typed, FindCode, rows
<1>2. /\ Programs(call[h]) /\ call[h] \in Call /\ call[h].at = "find"
      /\ call[h].epoch <= user.epoch
  BY OneCall DEF Typed, FindCode, At
<1>3. PICK i : i = FindActive(call[h].purpose)
  OBVIOUS
<1>4. CASE i = 0 \/ codes[i].attempts <= 0
  <2>1. Return(h)
    BY <1>3, <1>4 DEF FindCode
  <2> QED  BY <1>1, <2>1, Returns DEF Kept, Typed
<1>5. CASE ~(i = 0 \/ codes[i].attempts <= 0)
  <2>1. PICK next \in {"consume", "decrement"} :
          call' = [call EXCEPT ![h].at = next, ![h].n = i]
    BY <1>3, <1>5 DEF FindCode
  <2>2. PICK d : d = [call[h] EXCEPT !.at = next, !.n = i]
    OBVIOUS
  <2>3. call' = [call EXCEPT ![h] = d]
    BY <2>1, <2>2
  <2>4. i \in 1..Len(codes) /\ i \in Int
    BY <1>3, <1>5, Found, Lengths DEF Typed
  <2>5. next \in Steps
    BY DEF Steps
  <2>6. /\ d \in Call /\ d.at = next /\ d.op = call[h].op /\ d.n = i
        /\ d.epoch = call[h].epoch
    <3>1. NextCall(call[h], d, next, i)
      BY <2>2 DEF NextCall
    <3> QED  BY <1>2, <2>4, <2>5, <3>1, NextFields
  <2>7. call[h].op \in {"verify", "reset", "phone"}
    BY <1>2 DEF Programs, Call, Ops
  <2>8. Programs(d)
    BY <2>6, <2>7 DEF Programs
  <2>9. Holds(d, Len(codes'), Len(sessions'), Len(tokens'))
    BY <1>1, <2>4, <2>6, <2>7 DEF Holds
  <2>10. Follows(call[h], d)
    BY <1>2, <2>6, <2>7 DEF Follows, SignsIn
  <2> QED  BY <1>1, <1>2, <2>3, <2>6, <2>8, <2>9, <2>10 DEF Kept, Turn
<1> QED  BY <1>4, <1>5

LEMMA WrongCodeKeeps ==
  ASSUME Typed, NEW h \in Handlers, WrongCode(h)
  PROVE  Kept(h)
<1>1. call[h].n \in DOMAIN codes
  <2>1. Holds(call[h], Len(codes), Len(sessions), Len(tokens)) /\ call[h].at = "decrement"
    BY OneCall DEF Typed, WrongCode, At
  <2> QED  BY <2>1, Lengths DEF Holds, Typed
<1>2. CodesKept
  BY <1>1, CodeWrites DEF WrongCode, Typed
<1>3. SessionsKept /\ TokensKept /\ UserKept
  BY SessionsStay, TokensStay, UserStays DEF Typed, WrongCode
<1> QED  BY <1>2, <1>3, Returns DEF Kept, Typed, WrongCode

LEMMA ConsumeKeeps ==
  ASSUME Typed, NEW h \in Handlers, Consume(h)
  PROVE  Kept(h)
<1>1. /\ Programs(call[h]) /\ call[h] \in Call /\ call[h].at = "consume"
      /\ call[h].epoch <= user.epoch
      /\ call[h].n \in DOMAIN codes
  <2>1. Holds(call[h], Len(codes), Len(sessions), Len(tokens)) /\ call[h].at = "consume"
    BY OneCall DEF Typed, Consume, At
  <2> QED  BY <2>1, OneCall, Lengths DEF Holds, Typed
<1>2. CodesKept
  BY <1>1, CodeWrites DEF Consume, Typed
<1>3. SessionsKept /\ TokensKept /\ UserKept /\ UNCHANGED <<sessions, tokens, user>>
  BY SessionsStay, TokensStay, UserStays DEF Typed, Consume
<1>4. /\ call[h].op \in {"verify", "reset", "phone"}
      /\ call[h].seen \in {"NONE", "PENDING", "ACTIVE", "REFUSED"}
  BY <1>1 DEF Programs, Call, Ops
<1>5. PICK next \in AfterCode(call[h]) :
        IF next = "idle" THEN Return(h)
        ELSE call' = [call EXCEPT ![h].at = next, ![h].n = 0]
  BY DEF Consume
<1>6. /\ call[h].op = "verify" => next \in {"markVerified", "idle"}
      /\ call[h].op = "reset" => next = "setPassword"
      /\ call[h].op = "phone" => next \in {"createUser", "idle", "markVerified", "resetFailed"}
  BY <1>4 DEF AfterCode
<1>7. CASE next = "idle"
  BY <1>2, <1>3, <1>5, <1>7, Returns DEF Kept, Typed
<1>8. CASE next # "idle"
  <2>1. PICK d : d = [call[h] EXCEPT !.at = next, !.n = 0]
    OBVIOUS
  <2>2. call' = [call EXCEPT ![h] = d]
    BY <1>5, <1>8, <2>1
  <2>3. next \in {"createUser", "markVerified", "resetFailed", "setPassword"}
    BY <1>4, <1>6, <1>8
  <2>4. next \in Steps
    BY <2>3 DEF Steps
  <2>5. /\ d \in Call /\ d.at = next /\ d.op = call[h].op /\ d.n = 0
        /\ d.epoch = call[h].epoch
    <3>1. NextCall(call[h], d, next, 0)
      BY <2>1 DEF NextCall
    <3> QED  BY <1>1, <2>4, <3>1, NextFields
  <2>6. Programs(d)
    BY <2>5, <1>4, <1>6, <1>8 DEF Programs
  <2>7. Holds(d, Len(codes'), Len(sessions'), Len(tokens'))
    BY <2>5, <1>4, <2>3 DEF Holds
  <2>8. Follows(call[h], d)
    BY <1>1, <2>5, <1>4, <2>3 DEF Follows, SignsIn, SignIns
  <2> QED  BY <1>1, <1>2, <1>3, <2>2, <2>5, <2>6, <2>7, <2>8 DEF Kept, Turn
<1> QED  BY <1>7, <1>8

(* The user.                                                               *)
UserWritten ==
  \/ \E s \in UserStatuses \cup {NoUser} : user' = [user EXCEPT !.status = s]
  \/ \E s \in UserStatuses, p \in BOOLEAN :
       user' = [user EXCEPT !.status = s, !.password = p]
  \/ \E l \in {"none", "held", "lapsed"} : user' = [user EXCEPT !.lock = l]
  \/ \E l \in {"none", "held", "lapsed"}, f \in Nat :
       user' = [user EXCEPT !.failed = f, !.lock = l]
  \/ \E e \in Nat : e >= user.epoch /\ user' = [user EXCEPT !.password = TRUE, !.epoch = e]
  \/ \E e \in Nat, s \in UserStatuses :
       e >= user.epoch /\ user' = [user EXCEPT !.status = s, !.epoch = e]
  \/ \E e \in Nat : user' = [user EXCEPT !.swept = e]

LEMMA UserWrites ==
  ASSUME user \in User, UserWritten
  PROVE  UserKept
<1>1. user.epoch \in Nat
  BY DEF User
<1>2. ASSUME NEW s \in UserStatuses \cup {NoUser},
             user' = [user EXCEPT !.status = s]
      PROVE  user' \in User /\ (user'.epoch = user.epoch \/ user.epoch <= user'.epoch)
  BY <1>2 DEF User
<1>3. ASSUME NEW s \in UserStatuses, NEW p \in BOOLEAN,
             user' = [user EXCEPT !.status = s, !.password = p]
      PROVE  user' \in User /\ (user'.epoch = user.epoch \/ user.epoch <= user'.epoch)
  BY <1>3 DEF User
<1>4. ASSUME NEW l \in {"none", "held", "lapsed"},
             user' = [user EXCEPT !.lock = l]
      PROVE  user' \in User /\ (user'.epoch = user.epoch \/ user.epoch <= user'.epoch)
  BY <1>4 DEF User
<1>5. ASSUME NEW l \in {"none", "held", "lapsed"}, NEW f \in Nat,
             user' = [user EXCEPT !.failed = f, !.lock = l]
      PROVE  user' \in User /\ (user'.epoch = user.epoch \/ user.epoch <= user'.epoch)
  BY <1>5 DEF User
<1>6. ASSUME NEW e \in Nat,
             e >= user.epoch /\ user' = [user EXCEPT !.password = TRUE, !.epoch = e]
      PROVE  user' \in User /\ (user'.epoch = user.epoch \/ user.epoch <= user'.epoch)
  BY <1>6 DEF User
<1>7. ASSUME NEW e \in Nat, NEW s \in UserStatuses,
             e >= user.epoch /\ user' = [user EXCEPT !.status = s, !.epoch = e]
      PROVE  user' \in User /\ (user'.epoch = user.epoch \/ user.epoch <= user'.epoch)
  BY <1>7 DEF User
<1>8. ASSUME NEW e \in Nat,
             user' = [user EXCEPT !.swept = e]
      PROVE  user' \in User /\ (user'.epoch = user.epoch \/ user.epoch <= user'.epoch)
  BY <1>8 DEF User
<1>9. user' \in User /\ (user'.epoch = user.epoch \/ user.epoch <= user'.epoch)
  BY <1>2, <1>3, <1>4, <1>5, <1>6, <1>7, <1>8 DEF UserWritten
<1> QED  BY <1>1, <1>9 DEF UserKept

LEMMA MarkVerifiedKeeps ==
  ASSUME Typed, NEW h \in Handlers, MarkVerified(h)
  PROVE  Kept(h)
<1>1. CodesKept /\ SessionsKept /\ TokensKept
  BY RowsStay DEF Typed, MarkVerified
<1>2. UserKept
  <2>1. PICK s \in UserStatuses \cup {NoUser} : user' = [user EXCEPT !.status = s]
    <3>1. user.status \in UserStatuses \cup {NoUser}
      BY DEF Typed, User
    <3>2. (IF user.status = NoUser THEN user.status ELSE "ACTIVE") \in UserStatuses \cup {NoUser}
      BY <3>1 DEF UserStatuses
    <3> QED  BY <3>2 DEF MarkVerified
  <2> QED  BY <2>1, UserWrites DEF Typed, UserWritten
<1>3. CASE call[h].op # "phone"
  <2>1. Return(h)
    BY <1>3 DEF MarkVerified
  <2> QED  BY <1>1, <1>2, <2>1, Returns DEF Kept, Typed
<1>4. CASE call[h].op = "phone"
  <2>1. Goto(h, "resetFailed") /\ call[h].at = "markVerified"
    BY <1>4 DEF MarkVerified, At
  <2>2. \A d \in Call : d.at = "resetFailed" /\ d.op = call[h].op => Programs(d)
    BY <1>4 DEF Programs
  <2>3. Turn(h)
    BY <1>1, <1>2, <1>4, <2>1, <2>2, GoesOn DEF Typed, Steps, NeedsSession, SignsIn, SignIns
  <2> QED  BY <1>1, <1>2, <2>3 DEF Kept
<1> QED  BY <1>3, <1>4

LEMMA CreateUserKeeps ==
  ASSUME Typed, NEW h \in Handlers, CreateUser(h)
  PROVE  Kept(h)
<1>1. CodesKept /\ SessionsKept /\ TokensKept
  BY RowsStay DEF Typed, CreateUser
<1>2. CASE user.status # NoUser
  <2>1. Return(h) /\ UserKept
    BY <1>2, UserStays DEF CreateUser, Typed
  <2> QED  BY <1>1, <2>1, Returns DEF Kept, Typed
<1>3. CASE user.status = NoUser
  <2>1. UserKept
    <3>1. PICK s, p :
            /\ s = IF call[h].op = "phone" THEN "ACTIVE" ELSE "PENDING_VERIFICATION"
            /\ p = (call[h].op = "signup")
      OBVIOUS
    <3>2. s \in UserStatuses /\ p \in BOOLEAN
      BY <3>1 DEF UserStatuses
    <3>3. user' = [user EXCEPT !.status = s, !.password = p]
      BY <1>3, <3>1 DEF CreateUser
    <3> QED  BY <3>2, <3>3, UserWrites DEF Typed, UserWritten
  <2>2. Goto(h, "openSession") /\ call[h].at = "createUser"
    BY <1>3 DEF CreateUser, At
  <2>3. call[h].op \in {"phone", "signup"}
    BY <2>2, OneCall DEF Programs, Call, Ops, Typed
  <2>4. \A d \in Call : d.at = "openSession" /\ d.op = call[h].op => Programs(d)
    BY <2>3 DEF Programs
  <2>5. Turn(h)
    BY <1>1, <2>1, <2>2, <2>3, <2>4, GoesOn DEF Typed, Steps, NeedsSession, SignsIn, SignIns
  <2> QED  BY <1>1, <2>1, <2>5 DEF Kept
<1> QED  BY <1>2, <1>3

LEMMA BumpKeeps ==
  ASSUME Typed, NEW h \in Handlers, BumpFailedLogin(h)
  PROVE  Kept(h)
<1>1. CodesKept /\ SessionsKept /\ TokensKept
  BY RowsStay DEF Typed, BumpFailedLogin
<1>2. UserKept
  <2>1. user.failed + 1 \in Nat /\ user.lock \in {"none", "held", "lapsed"}
    BY DEF Typed, User
  <2>2. PICK f \in Nat, l \in {"none", "held", "lapsed"} :
          /\ f = user.failed + 1
          /\ l = IF call[h].n >= LockThreshold THEN "held" ELSE user.lock
    BY <2>1
  <2>3. user' = [user EXCEPT !.failed = f, !.lock = l]
    BY <2>2 DEF BumpFailedLogin
  <2> QED  BY <2>3, UserWrites DEF Typed, UserWritten
<1> QED  BY <1>1, <1>2, Returns DEF Kept, Typed, BumpFailedLogin

LEMMA ResetFailedKeeps ==
  ASSUME Typed, NEW h \in Handlers, ResetFailedLogin(h)
  PROVE  Kept(h)
<1>1. CodesKept /\ SessionsKept /\ TokensKept
  BY RowsStay DEF Typed, ResetFailedLogin
<1>2. UserKept
  <2>1. PICK f \in Nat, l \in {"none", "held", "lapsed"} : f = 0 /\ l = "none"
    OBVIOUS
  <2>2. user' = [user EXCEPT !.failed = f, !.lock = l]
    BY <2>1 DEF ResetFailedLogin
  <2> QED  BY <2>2, UserWrites DEF Typed, UserWritten
<1>3. PICK s : s = IF call[h].op = "reset" THEN "revokeAll" ELSE "openSession"
  OBVIOUS
<1>4. Goto(h, s) /\ call[h].at = "resetFailed"
  BY <1>3 DEF ResetFailedLogin, At
<1>5. call[h].op \in {"reset", "phone", "login"}
  BY <1>4, OneCall DEF Programs, Call, Ops, Typed
<1>6. \A d \in Call : d.at = s /\ d.op = call[h].op => Programs(d)
  BY <1>3, <1>5 DEF Programs
<1>7. s \in Steps /\ s \in {"revokeAll", "openSession"}
  BY <1>3 DEF Steps
<1>8. Turn(h)
  BY <1>1, <1>2, <1>4, <1>5, <1>6, <1>7, GoesOn DEF Typed, NeedsSession, SignsIn, SignIns
<1> QED  BY <1>1, <1>2, <1>8 DEF Kept

(* Sessions and tokens.                                                    *)
LEMMA OpenSessionKeeps ==
  ASSUME Typed, NEW h \in Handlers, OpenSession(h)
  PROVE  Kept(h)
<1>1. /\ Programs(call[h]) /\ call[h] \in Call /\ call[h].at = "openSession"
      /\ call[h].epoch <= user.epoch
      /\ Holds(call[h], Len(codes), Len(sessions), Len(tokens))
  BY OneCall DEF Typed, OpenSession, At
<1>2. call[h].epoch \in Nat /\ CreateSession(call[h].epoch)
  BY <1>1 DEF Call, OpenSession
<1>3. SessionsKept /\ Len(sessions') = Len(sessions) + 1
  BY <1>2, SessionCreated DEF Typed
<1>4. CodesKept /\ TokensKept /\ UserKept /\ UNCHANGED <<codes, tokens, user>>
  BY <1>3, CodesStay, TokensStay, UserStays DEF Typed, OpenSession
<1>5. PICK n \in Nat : n = Len(sessions) + 1 /\ n \in 1..Len(sessions')
  BY <1>3, Lengths DEF Typed
<1>6. PICK d : d = [call[h] EXCEPT !.at = "issuePair", !.session = n]
  OBVIOUS
<1>7. call' = [call EXCEPT ![h] = d]
  BY <1>5, <1>6 DEF OpenSession
<1>8. /\ d \in Call /\ d.at = "issuePair" /\ d.op = call[h].op /\ d.n = call[h].n
      /\ d.session = n /\ d.epoch = call[h].epoch
  BY <1>1, <1>6 DEF Call, Steps
<1>9. call[h].op \in SignIns
  BY <1>1 DEF Programs, Call, Ops, SignIns
<1>10. Programs(d)
  BY <1>8, <1>9 DEF Programs, SignIns
<1>11. Holds(d, Len(codes'), Len(sessions'), Len(tokens'))
  BY <1>1, <1>5, <1>8, <1>9 DEF Holds, SignIns
<1>12. Follows(call[h], d)
  BY <1>1, <1>8, <1>9 DEF Follows, SignsIn, SignIns
<1> QED  BY <1>1, <1>3, <1>4, <1>7, <1>8, <1>10, <1>11, <1>12 DEF Kept, Turn

LEMMA IssuePairKeeps ==
  ASSUME Typed, NEW h \in Handlers, IssuePair(h)
  PROVE  Kept(h)
<1>1. /\ Programs(call[h]) /\ call[h] \in Call /\ call[h].at = "issuePair"
      /\ Holds(call[h], Len(codes), Len(sessions), Len(tokens))
  BY OneCall DEF Typed, IssuePair, At
<1>2. call[h].session \in DOMAIN sessions
  BY <1>1, Lengths DEF Typed, Holds
<1>3. TokensKept
  BY <1>2, TokenCreated DEF Typed, IssuePair
<1>4. CodesKept /\ SessionsKept /\ UserKept
  BY CodesStay, SessionsStay, UserStays DEF Typed, IssuePair
<1>5. CASE call[h].op = "refresh"
  <2>1. Goto(h, "markRotated")
    BY <1>5 DEF IssuePair
  <2>2. \A d \in Call : d.at = "markRotated" /\ d.op = call[h].op => Programs(d)
    BY <1>5 DEF Programs
  <2>3. Turn(h)
    BY <1>1, <1>3, <1>4, <1>5, <2>1, <2>2, GoesOn DEF Typed, Steps, NeedsSession, SignIns
  <2> QED  BY <1>3, <1>4, <2>3 DEF Kept
<1>6. CASE call[h].op = "signup"
  <2>1. Goto(h, "throttle")
    BY <1>6 DEF IssuePair
  <2>2. \A d \in Call : d.at = "throttle" /\ d.op = call[h].op => Programs(d)
    BY <1>6 DEF Programs
  <2>3. Turn(h)
    BY <1>1, <1>3, <1>4, <1>6, <2>1, <2>2, GoesOn DEF Typed, Steps, NeedsSession
  <2> QED  BY <1>3, <1>4, <2>3 DEF Kept
<1>7. CASE call[h].op \notin {"refresh", "signup"}
  <2>1. Return(h)
    BY <1>7 DEF IssuePair
  <2> QED  BY <1>3, <1>4, <2>1, Returns DEF Kept, Typed
<1> QED  BY <1>5, <1>6, <1>7

LEMMA MarkRotatedKeeps ==
  ASSUME Typed, NEW h \in Handlers, MarkRotated(h)
  PROVE  Kept(h) /\ call[h].op = "refresh" /\ call[h].n \in DOMAIN tokens
<1>1. /\ Programs(call[h]) /\ call[h] \in Call /\ call[h].at = "markRotated"
      /\ Holds(call[h], Len(codes), Len(sessions), Len(tokens))
  BY OneCall DEF Typed, MarkRotated, At
<1>2. call[h].op = "refresh"
  BY <1>1 DEF Programs, Call, Ops
<1>3. call[h].n \in DOMAIN tokens
  BY <1>1, <1>2, Lengths DEF Typed, Holds
<1>4. TokensKept
  BY <1>3, TokenWrites DEF Typed, MarkRotated
<1>5. CodesKept /\ SessionsKept /\ UserKept
  BY CodesStay, SessionsStay, UserStays DEF Typed, MarkRotated
<1> QED  BY <1>2, <1>3, <1>4, <1>5, Returns DEF Kept, Typed, MarkRotated

LEMMA MarkReplayKeeps ==
  ASSUME Typed, NEW h \in Handlers, MarkReplay(h)
  PROVE  Kept(h) /\ call[h].op = "refresh" /\ call[h].n \in DOMAIN tokens
<1>1. /\ Programs(call[h]) /\ call[h] \in Call /\ call[h].at = "markReplay"
      /\ Holds(call[h], Len(codes), Len(sessions), Len(tokens))
      /\ Goto(h, "revokeSession")
  BY OneCall DEF Typed, MarkReplay, At
<1>2. call[h].op = "refresh"
  BY <1>1 DEF Programs, Call, Ops
<1>3. call[h].n \in DOMAIN tokens
  BY <1>1, <1>2, Lengths DEF Typed, Holds
<1>4. TokensKept
  BY <1>3, TokenWrites DEF Typed, MarkReplay
<1>5. CodesKept /\ SessionsKept /\ UserKept
  BY CodesStay, SessionsStay, UserStays DEF Typed, MarkReplay
<1>6. \A d \in Call : d.at = "revokeSession" /\ d.op = call[h].op => Programs(d)
  BY <1>2 DEF Programs
<1>7. Turn(h)
  BY <1>1, <1>2, <1>4, <1>5, <1>6, GoesOn DEF Typed, Steps, NeedsSession, SignIns
<1> QED  BY <1>2, <1>3, <1>4, <1>5, <1>7 DEF Kept

LEMMA RevokeSessionKeeps ==
  ASSUME Typed, NEW h \in Handlers, RevokeSession(h)
  PROVE  Kept(h)
<1>1. /\ Programs(call[h]) /\ call[h] \in Call /\ call[h].at = "revokeSession"
      /\ Holds(call[h], Len(codes), Len(sessions), Len(tokens))
  BY OneCall DEF Typed, RevokeSession, At
<1>2. call[h].session \in DOMAIN sessions
  BY <1>1, Lengths DEF Typed, Holds
<1>3. SessionsKept
  BY <1>2, SessionRevoked DEF Typed, RevokeSession
<1>4. CodesKept /\ TokensKept /\ UserKept
  BY <1>3, CodesStay, TokensStay, UserStays DEF Typed, RevokeSession
<1>5. CASE call[h].op = "revokeMine"
  <2>1. Goto(h, "revokeTokens")
    BY <1>5 DEF RevokeSession
  <2>2. \A d \in Call : d.at = "revokeTokens" /\ d.op = call[h].op => Programs(d)
    BY <1>5 DEF Programs
  <2>3. Turn(h)
    BY <1>1, <1>3, <1>4, <1>5, <2>1, <2>2, GoesOn DEF Typed, Steps, NeedsSession, SignIns
  <2> QED  BY <1>3, <1>4, <2>3 DEF Kept
<1>6. CASE call[h].op # "revokeMine"
  <2>1. Return(h)
    BY <1>6 DEF RevokeSession
  <2> QED  BY <1>3, <1>4, <2>1, Returns DEF Kept, Typed
<1> QED  BY <1>5, <1>6

LEMMA RevokeTokensKeeps ==
  ASSUME Typed, NEW h \in Handlers, RevokeTokens(h)
  PROVE  Kept(h)
<1>1. TokensKept
  BY TokenWrites DEF Typed, RevokeTokens
<1>2. CodesKept /\ SessionsKept /\ UserKept
  BY CodesStay, SessionsStay, UserStays DEF Typed, RevokeTokens
<1> QED  BY <1>1, <1>2, Returns DEF Kept, Typed, RevokeTokens

LEMMA UpdatePasswordKeeps ==
  ASSUME Typed, NEW h \in Handlers, UpdatePasswordHash(h)
  PROVE  Kept(h)
<1>1. /\ CodesKept /\ SessionsKept /\ TokensKept /\ UNCHANGED rows
  BY RowsStay DEF Typed, UpdatePasswordHash
<1>2. CASE user.status = NoUser
  <2>1. Return(h) /\ UserKept
    BY <1>2, UserStays DEF UpdatePasswordHash, Typed
  <2> QED  BY <1>1, <2>1, Returns DEF Kept, Typed
<1>3. CASE user.status # NoUser
  <2>1. PICK e \in Nat : e = user.epoch + 1 /\ e >= user.epoch
    BY DEF Typed, User
  <2>2. user' = [user EXCEPT !.password = TRUE, !.epoch = e]
    BY <1>3, <2>1 DEF UpdatePasswordHash
  <2>3. UserKept
    BY <2>1, <2>2, UserWrites DEF Typed, UserWritten
  <2>4. user'.epoch = e
    BY <2>2 DEF Typed, User
  <2>5. PICK s \in {"resetFailed", "revokeAll"} :
          s = IF call[h].op = "reset" THEN "resetFailed" ELSE "revokeAll"
    OBVIOUS
  <2>6. PICK d : d = [call[h] EXCEPT !.at = s, !.epoch = e]
    OBVIOUS
  <2>7. call' = [call EXCEPT ![h] = d]
    BY <1>3, <2>1, <2>5, <2>6 DEF UpdatePasswordHash
  <2>8. Programs(call[h]) /\ call[h] \in Call /\ call[h].at = "setPassword"
    BY OneCall DEF Typed, UpdatePasswordHash, At
  <2>9. d \in Call /\ d.at = s /\ d.op = call[h].op /\ d.epoch = e
    BY <2>6, <2>8 DEF Call, Steps
  <2>10. call[h].op \in {"reset", "change"}
    BY <2>8 DEF Programs, Call, Ops
  <2>11. Programs(d)
    BY <2>5, <2>9, <2>10 DEF Programs
  <2>12. Holds(d, Len(codes'), Len(sessions'), Len(tokens'))
    BY <2>9, <2>10 DEF Holds, SignIns
  <2>13. Follows(call[h], d)
    BY <2>9, <2>10 DEF Follows, SignsIn, SignIns
  <2>14. d.epoch <= user'.epoch /\ d \in Call
    BY <2>1, <2>4, <2>9
  <2>15. Turn(h)
    BY <2>7, <2>11, <2>12, <2>13, <2>14 DEF Turn
  <2> QED  BY <1>1, <2>3, <2>15 DEF Kept
<1> QED  BY <1>2, <1>3

LEMMA RevokeAllKeeps ==
  ASSUME Typed, NEW h \in Handlers, RevokeAll(h)
  PROVE  Kept(h)
<1>1. SessionsKept
  BY AllSessionsRevoked DEF Typed, RevokeAll
<1>2. CodesKept /\ TokensKept
  BY <1>1, CodesStay, TokensStay DEF Typed, RevokeAll
<1>3. UserKept
  <2>1. PICK e \in Nat : e = IF call[h].epoch > user.swept THEN call[h].epoch ELSE user.swept
    <3>1. call[h].epoch \in Nat /\ user.swept \in Nat
      BY OneCall DEF Typed, Call, User
    <3> QED  BY <3>1
  <2>2. user' = [user EXCEPT !.swept = e]
    BY <2>1 DEF RevokeAll
  <2> QED  BY <2>2, UserWrites DEF Typed, UserWritten
<1> QED  BY <1>1, <1>2, <1>3, Returns DEF Kept, Typed, RevokeAll

LEMMA CrashKeeps ==
  ASSUME Typed, NEW h \in Handlers, Crash(h)
  PROVE  Kept(h)
<1>1. CodesKept /\ SessionsKept /\ TokensKept /\ UserKept
  BY RowsStay, UserStays DEF Typed, Crash
<1> QED  BY <1>1, Returns DEF Kept, Typed, Crash

(* Requests that start.                                                    *)
LEMMA Begins ==
  ASSUME CallsOK, NEW h \in Handlers, NEW c \in Call, UserKept, Start(h, c),
         Programs(c), Holds(c, Len(codes'), Len(sessions'), Len(tokens')),
         c.epoch <= user'.epoch, c.at \notin {"consume", "createCode", "markRotated"}
  PROVE  Turn(h)
<1>1. call[h].at = "idle" /\ call' = [call EXCEPT ![h] = c]
  BY IdleFields DEF Start
<1>2. Follows(call[h], c)
  BY <1>1 DEF Follows
<1> QED  BY <1>1, <1>2 DEF Turn

LEMMA EpochsCompare ==
  ASSUME Typed, UserKept
  PROVE  0 <= user'.epoch /\ user.epoch <= user'.epoch
BY DEF Typed, User, UserKept

LEMMA IssuingKeeps ==
  ASSUME Typed, NEW h \in Handlers, NEW p \in Purposes, NEW ch \in Channels, Issuing(h, p, ch)
  PROVE  Kept(h)
<1>1. CodesKept /\ SessionsKept /\ TokensKept /\ UserKept
  BY RowsStay, UserStays DEF Typed, Issuing
<1>3. PICK i \in Call : i = Idle /\ i.n = 0 /\ i.epoch = 0
  BY IdleFields
<1>4. PICK o \in Ops, a \in Steps : o = "request" /\ a = "throttle"
  BY DEF Ops, Steps, Purposes
<1>5. PICK c : c = [i EXCEPT !.op = o, !.at = a, !.purpose = p, !.channel = ch]
  OBVIOUS
<1>6. Start(h, c)
  BY <1>3, <1>4, <1>5 DEF Issuing
<1>7. c \in Call /\ c.op = o /\ c.at = a /\ c.n = 0 /\ c.epoch = 0
  BY <1>3, <1>5 DEF Call
<1>8. Programs(c)
  BY <1>4, <1>7 DEF Programs
<1>9. Holds(c, Len(codes'), Len(sessions'), Len(tokens'))
  BY <1>4, <1>7 DEF Holds, SignIns
<1>10. c.epoch <= user'.epoch
  BY <1>1, <1>7, EpochsCompare
<1> QED  BY <1>1, <1>4, <1>6, <1>7, <1>8, <1>9, <1>10, Begins DEF Kept, Typed

LEMMA VerifyOtpKeeps ==
  ASSUME Typed, NEW h \in Handlers, VerifyOtp(h)
  PROVE  Kept(h)
<1>1. CodesKept /\ SessionsKept /\ TokensKept /\ UserKept
  BY RowsStay, UserStays DEF Typed, VerifyOtp
<1>2. PICK p \in Purposes : Start(h, [Idle EXCEPT !.op = "verify", !.at = "find", !.purpose = p])
  BY DEF VerifyOtp
<1>3. PICK i \in Call : i = Idle /\ i.n = 0 /\ i.epoch = 0
  BY IdleFields
<1>4. PICK o \in Ops, a \in Steps : o = "verify" /\ a = "find"
  BY DEF Ops, Steps, Purposes
<1>5. PICK c : c = [i EXCEPT !.op = o, !.at = a, !.purpose = p]
  OBVIOUS
<1>6. Start(h, c)
  BY <1>2, <1>3, <1>4, <1>5 DEF VerifyOtp
<1>7. c \in Call /\ c.op = o /\ c.at = a /\ c.n = 0 /\ c.epoch = 0
  BY <1>3, <1>5 DEF Call
<1>8. Programs(c)
  BY <1>4, <1>7 DEF Programs
<1>9. Holds(c, Len(codes'), Len(sessions'), Len(tokens'))
  BY <1>4, <1>7 DEF Holds, SignIns
<1>10. c.epoch <= user'.epoch
  BY <1>1, <1>2, <1>7, EpochsCompare
<1> QED  BY <1>1, <1>4, <1>6, <1>7, <1>8, <1>9, <1>10, Begins DEF Kept, Typed

LEMMA VerifyEmailKeeps ==
  ASSUME Typed, NEW h \in Handlers, VerifyEmail(h)
  PROVE  Kept(h)
<1>1. CodesKept /\ SessionsKept /\ TokensKept /\ UserKept
  BY RowsStay, UserStays DEF Typed, VerifyEmail
<1>3. PICK i \in Call : i = Idle /\ i.n = 0 /\ i.epoch = 0
  BY IdleFields
<1>4. PICK o \in Ops, a \in Steps, q \in Purposes : o = "verify" /\ a = "find" /\ q = "VERIFY"
  BY DEF Ops, Steps, Purposes
<1>5. PICK c : c = [i EXCEPT !.op = o, !.at = a, !.purpose = q]
  OBVIOUS
<1>6. Start(h, c)
  BY <1>3, <1>4, <1>5 DEF VerifyEmail
<1>7. c \in Call /\ c.op = o /\ c.at = a /\ c.n = 0 /\ c.epoch = 0
  BY <1>3, <1>5 DEF Call
<1>8. Programs(c)
  BY <1>4, <1>7 DEF Programs
<1>9. Holds(c, Len(codes'), Len(sessions'), Len(tokens'))
  BY <1>4, <1>7 DEF Holds, SignIns
<1>10. c.epoch <= user'.epoch
  BY <1>1, <1>7, EpochsCompare
<1> QED  BY <1>1, <1>4, <1>6, <1>7, <1>8, <1>9, <1>10, Begins DEF Kept, Typed

LEMMA ResetPasswordKeeps ==
  ASSUME Typed, NEW h \in Handlers, ResetPassword(h)
  PROVE  Kept(h)
<1>1. CodesKept /\ SessionsKept /\ TokensKept /\ UserKept
  BY RowsStay, UserStays DEF Typed, ResetPassword
<1>3. PICK i \in Call : i = Idle /\ i.n = 0 /\ i.epoch = 0
  BY IdleFields
<1>4. PICK o \in Ops, a \in Steps, q \in Purposes :
        o = "reset" /\ a = "find" /\ q = "PASSWORD_RESET"
  BY DEF Ops, Steps, Purposes
<1>5. PICK c : c = [i EXCEPT !.op = o, !.at = a, !.purpose = q]
  OBVIOUS
<1>6. Start(h, c)
  BY <1>3, <1>4, <1>5 DEF ResetPassword
<1>7. c \in Call /\ c.op = o /\ c.at = a /\ c.n = 0 /\ c.epoch = 0
  BY <1>3, <1>5 DEF Call
<1>8. Programs(c)
  BY <1>4, <1>7 DEF Programs
<1>9. Holds(c, Len(codes'), Len(sessions'), Len(tokens'))
  BY <1>4, <1>7 DEF Holds, SignIns
<1>10. c.epoch <= user'.epoch
  BY <1>1, <1>7, EpochsCompare
<1> QED  BY <1>1, <1>4, <1>6, <1>7, <1>8, <1>9, <1>10, Begins DEF Kept, Typed

LEMMA PhoneAuthKeeps ==
  ASSUME Typed, NEW h \in Handlers, VerifyPhoneAuthOtp(h)
  PROVE  Kept(h)
<1>1. CodesKept /\ SessionsKept /\ TokensKept /\ UserKept
  BY RowsStay, UserStays DEF Typed, VerifyPhoneAuthOtp
<1>2. PICK s \in {"NONE", "PENDING", "ACTIVE", "REFUSED"}, e \in Nat :
        s = CanLogin /\ e = user.epoch
  BY DEF CanLogin, Typed, User
<1>3. PICK i \in Call : i = Idle /\ i.n = 0 /\ i.epoch = 0
  BY IdleFields
<1>4. PICK o \in Ops, a \in Steps, q \in Purposes : o = "phone" /\ a = "find" /\ q = "PHONE_AUTH"
  BY DEF Ops, Steps, Purposes
<1>5. PICK c : c = [i EXCEPT !.op = o, !.at = a, !.purpose = q, !.seen = s, !.epoch = e]
  OBVIOUS
<1>6. Start(h, c)
  BY <1>2, <1>3, <1>4, <1>5 DEF VerifyPhoneAuthOtp
<1>7. c \in Call /\ c.op = o /\ c.at = a /\ c.n = 0 /\ c.epoch = e
  BY <1>3, <1>5 DEF Call
<1>8. Programs(c)
  BY <1>4, <1>7 DEF Programs
<1>9. Holds(c, Len(codes'), Len(sessions'), Len(tokens'))
  BY <1>4, <1>7 DEF Holds, SignIns
<1>10. c.epoch <= user'.epoch
  BY <1>1, <1>2, <1>7, EpochsCompare
<1> QED  BY <1>1, <1>4, <1>6, <1>7, <1>8, <1>9, <1>10, Begins DEF Kept, Typed

LEMMA SignupKeeps ==
  ASSUME Typed, NEW h \in Handlers, Signup(h)
  PROVE  Kept(h)
<1>1. CodesKept /\ SessionsKept /\ TokensKept /\ UserKept
  BY RowsStay, UserStays DEF Typed, Signup
<1>2. PICK ch \in Channels :
        Start(h, [Idle EXCEPT !.op = "signup", !.at = "createUser", !.channel = ch])
  BY DEF Signup
<1>3. PICK i \in Call : i = Idle /\ i.n = 0 /\ i.epoch = 0
  BY IdleFields
<1>4. PICK o \in Ops, a \in Steps : o = "signup" /\ a = "createUser"
  BY DEF Ops, Steps, Purposes
<1>5. PICK c : c = [i EXCEPT !.op = o, !.at = a, !.channel = ch]
  OBVIOUS
<1>6. Start(h, c)
  BY <1>2, <1>3, <1>4, <1>5 DEF Signup
<1>7. c \in Call /\ c.op = o /\ c.at = a /\ c.n = 0 /\ c.epoch = 0
  BY <1>3, <1>5 DEF Call
<1>8. Programs(c)
  BY <1>4, <1>7 DEF Programs
<1>9. Holds(c, Len(codes'), Len(sessions'), Len(tokens'))
  BY <1>4, <1>7 DEF Holds, SignIns
<1>10. c.epoch <= user'.epoch
  BY <1>1, <1>2, <1>7, EpochsCompare
<1> QED  BY <1>1, <1>4, <1>6, <1>7, <1>8, <1>9, <1>10, Begins DEF Kept, Typed

LEMMA ChangePasswordKeeps ==
  ASSUME Typed, NEW h \in Handlers, ChangePassword(h)
  PROVE  Kept(h)
<1>1. CodesKept /\ SessionsKept /\ TokensKept /\ UserKept
  BY RowsStay, UserStays DEF Typed, ChangePassword
<1>3. PICK i \in Call : i = Idle /\ i.n = 0 /\ i.epoch = 0
  BY IdleFields
<1>4. PICK o \in Ops, a \in Steps : o = "change" /\ a = "setPassword"
  BY DEF Ops, Steps, Purposes
<1>5. PICK c : c = [i EXCEPT !.op = o, !.at = a]
  OBVIOUS
<1>6. Start(h, c)
  BY <1>3, <1>4, <1>5 DEF ChangePassword
<1>7. c \in Call /\ c.op = o /\ c.at = a /\ c.n = 0 /\ c.epoch = 0
  BY <1>3, <1>5 DEF Call
<1>8. Programs(c)
  BY <1>4, <1>7 DEF Programs
<1>9. Holds(c, Len(codes'), Len(sessions'), Len(tokens'))
  BY <1>4, <1>7 DEF Holds, SignIns
<1>10. c.epoch <= user'.epoch
  BY <1>1, <1>7, EpochsCompare
<1> QED  BY <1>1, <1>4, <1>6, <1>7, <1>8, <1>9, <1>10, Begins DEF Kept, Typed

LEMMA LoginKeeps ==
  ASSUME Typed, NEW h \in Handlers, Login(h)
  PROVE  Kept(h)
<1>1. CodesKept /\ SessionsKept /\ TokensKept /\ UserKept
  BY RowsStay, UserStays DEF Typed, Login
<1>2. PICK e \in Nat, f \in Int : e = user.epoch /\ f = user.failed + 1
  BY DEF Typed, User
<1>3. PICK i \in Call, o \in Ops, a \in Steps, b \in Steps :
        /\ i = Idle /\ i.n = 0 /\ i.epoch = 0
        /\ o = "login" /\ a = "resetFailed" /\ b = "bump"
  BY IdleFields DEF Ops, Steps
<1>c. PICK c, d : /\ c = [i EXCEPT !.op = o, !.at = a, !.epoch = e]
                  /\ d = [i EXCEPT !.op = o, !.at = b, !.n = f]
  OBVIOUS
<1>4. Start(h, c) \/ Start(h, d)
  BY <1>2, <1>3, <1>c DEF Login
<1>5. c \in Call /\ c.op = "login" /\ c.at = "resetFailed" /\ c.n = 0 /\ c.epoch = e
  BY <1>3, <1>c DEF Call
<1>6. d \in Call /\ d.op = "login" /\ d.at = "bump" /\ d.epoch = 0
  BY <1>3, <1>c DEF Call
<1>7. Programs(c) /\ Programs(d)
  BY <1>5, <1>6 DEF Programs
<1>8. /\ Holds(c, Len(codes'), Len(sessions'), Len(tokens'))
      /\ Holds(d, Len(codes'), Len(sessions'), Len(tokens'))
  BY <1>5, <1>6 DEF Holds
<1>9. c.epoch <= user'.epoch /\ d.epoch <= user'.epoch
  BY <1>1, <1>2, <1>5, <1>6, EpochsCompare
<1>10. CASE Start(h, c)
  BY <1>1, <1>5, <1>7, <1>8, <1>9, <1>10, Begins DEF Kept, Typed
<1>11. CASE Start(h, d)
  BY <1>1, <1>6, <1>7, <1>8, <1>9, <1>11, Begins DEF Kept, Typed
<1> QED  BY <1>4, <1>10, <1>11

LEMMA RefreshKeeps ==
  ASSUME Typed, NEW h \in Handlers, NEW t \in DOMAIN tokens,
         Start(h, [Idle EXCEPT !.op = "refresh", !.n = t, !.session = tokens[t].session,
                               !.at = IF Usable(t) THEN "issuePair" ELSE "markReplay"]),
         UNCHANGED <<rows, user, faults>>
  PROVE  Kept(h)
<1>1. CodesKept /\ SessionsKept /\ TokensKept /\ UserKept /\ UNCHANGED <<sessions, tokens>>
  BY RowsStay, UserStays DEF Typed, rows
<1>2. PICK s : s = tokens[t].session
  OBVIOUS
<1>3. s \in 1..Len(sessions) /\ s \in Nat /\ t \in 1..Len(tokens) /\ t \in Int
  BY <1>2, TokenIn, Lengths DEF Typed
<1>4. PICK a \in {"issuePair", "markReplay"} :
        a = IF Usable(t) THEN "issuePair" ELSE "markReplay"
  OBVIOUS
<1>5. PICK c : c = [Idle EXCEPT !.op = "refresh", !.n = t, !.session = s, !.at = a]
  OBVIOUS
<1>6. Start(h, c)
  BY <1>2, <1>4, <1>5
<1>7. /\ c \in Call /\ c.op = "refresh" /\ c.at = a /\ c.n = t /\ c.session = s
      /\ c.epoch = 0
  <2>1. a \in Steps
    BY DEF Steps
  <2> QED  BY <1>3, <1>5, <2>1 DEF Idle, Call, Ops, Purposes, Channels
<1>8. Programs(c)
  BY <1>7 DEF Programs
<1>9. Holds(c, Len(codes'), Len(sessions'), Len(tokens'))
  BY <1>1, <1>3, <1>7 DEF Holds, SignIns
<1>10. c.epoch <= user'.epoch
  BY <1>1, <1>7, EpochsCompare
<1> QED  BY <1>1, <1>6, <1>7, <1>8, <1>9, <1>10, Begins DEF Kept, Typed

LEMMA RevokeMineKeeps ==
  ASSUME Typed, NEW h \in Handlers, RevokeMine(h)
  PROVE  Kept(h)
<1>1. CodesKept /\ SessionsKept /\ TokensKept /\ UserKept /\ UNCHANGED <<sessions, tokens>>
  BY RowsStay, UserStays DEF Typed, RevokeMine, rows
<1>2. PICK s \in DOMAIN sessions :
        Start(h, [Idle EXCEPT !.op = "revokeMine", !.at = "revokeSession", !.session = s])
  BY DEF RevokeMine
<1>3. s \in 1..Len(sessions) /\ s \in Nat
  BY Lengths DEF Typed
<1>i. PICK i \in Call, o \in Ops, a \in Steps :
        i = Idle /\ i.epoch = 0 /\ o = "revokeMine" /\ a = "revokeSession"
  BY IdleFields DEF Ops, Steps
<1>4. PICK c : c = [i EXCEPT !.op = o, !.at = a, !.session = s]
  OBVIOUS
<1>5. Start(h, c)
  BY <1>2, <1>4, <1>i
<1>6. /\ c \in Call /\ c.op = "revokeMine" /\ c.at = "revokeSession" /\ c.session = s
      /\ c.epoch = 0
  BY <1>3, <1>4, <1>i DEF Call
<1>7. Programs(c)
  BY <1>6 DEF Programs
<1>8. Holds(c, Len(codes'), Len(sessions'), Len(tokens'))
  BY <1>1, <1>3, <1>6 DEF Holds, SignIns
<1>9. c.epoch <= user'.epoch
  BY <1>1, <1>6, EpochsCompare
<1> QED  BY <1>1, <1>5, <1>6, <1>7, <1>8, <1>9, Begins DEF Kept, Typed

LEMMA AdminUpdateKeeps ==
  ASSUME Typed, NEW h \in Handlers, AdminUpdateUser(h)
  PROVE  Kept(h)
<1>1. CodesKept /\ SessionsKept /\ TokensKept
  BY RowsStay DEF Typed, AdminUpdateUser
<1>2. CASE /\ user' = [user EXCEPT !.status = "SUSPENDED", !.epoch = @ + 1]
           /\ Start(h, [Idle EXCEPT !.op = "suspend", !.at = "revokeAll",
                                    !.epoch = user.epoch + 1])
  <2>1. PICK e \in Nat : e = user.epoch + 1 /\ e >= user.epoch
    BY DEF Typed, User
  <2>2. PICK s \in UserStatuses : s = "SUSPENDED"
    BY DEF UserStatuses
  <2>3. user' = [user EXCEPT !.status = s, !.epoch = e]
    BY <1>2, <2>1, <2>2
  <2>4. UserKept
    BY <2>1, <2>3, UserWrites DEF Typed, UserWritten
  <2>5. user'.epoch = e
    BY <2>3 DEF Typed, User
  <2>i. PICK i \in Call, o \in Ops, a \in Steps :
          i = Idle /\ o = "suspend" /\ a = "revokeAll"
    BY IdleFields DEF Ops, Steps
  <2>6. PICK c : c = [i EXCEPT !.op = o, !.at = a, !.epoch = e]
    OBVIOUS
  <2>7. Start(h, c)
    BY <1>2, <2>1, <2>6, <2>i
  <2>8. c \in Call /\ c.op = "suspend" /\ c.at = "revokeAll" /\ c.epoch = e
    BY <2>6, <2>i DEF Call
  <2>9. Programs(c)
    BY <2>8 DEF Programs
  <2>10. Holds(c, Len(codes'), Len(sessions'), Len(tokens'))
    BY <2>8 DEF Holds, SignIns
  <2>11. c.epoch <= user'.epoch
    BY <2>1, <2>5, <2>8
  <2> QED  BY <1>1, <2>4, <2>7, <2>8, <2>9, <2>10, <2>11, Begins DEF Kept, Typed
<1>3. CASE \E s \in UserStatuses : user' = [user EXCEPT !.status = s] /\ Start(h, Idle)
  <2>1. UserKept
    BY <1>3, UserWrites DEF Typed, UserWritten
  <2>2. Return(h)
    BY <1>3 DEF Start, Return
  <2> QED  BY <1>1, <2>1, <2>2, Returns DEF Kept, Typed
<1> QED  BY <1>2, <1>3 DEF AdminUpdateUser

-----------------------------------------------------------------------------
(* The steps of a handler, and those of the rest of the world.             *)
Begin(h) ==
  \/ RequestOtp(h) \/ ForgotPassword(h) \/ SendPhoneAuthOtp(h)
  \/ VerifyOtp(h) \/ VerifyEmail(h) \/ ResetPassword(h) \/ VerifyPhoneAuthOtp(h)
  \/ Signup(h) \/ Login(h) \/ Refresh(h)
  \/ RevokeMine(h) \/ ChangePassword(h) \/ AdminUpdateUser(h)

HandlerStep(h) == Begin(h) \/ CodeStep(h) \/ SessionStep(h) \/ Crash(h)
OtherStep == Logout \/ LogoutAll \/ AdminRevokeAllForUser \/ LockLapses \/ TimePasses

LEMMA NextSteps ==
  ASSUME [Next]_vars
  PROVE  (\E h \in Handlers : HandlerStep(h)) \/ OtherStep \/ UNCHANGED vars
BY DEF Next, HandlerStep, Begin, OtherStep

LEMMA BeginKeeps ==
  ASSUME Typed, NEW h \in Handlers, Begin(h)
  PROVE  Kept(h)
<1>1. CASE RequestOtp(h)
  BY <1>1, IssuingKeeps DEF RequestOtp
<1>2. CASE ForgotPassword(h)
  BY <1>2, IssuingKeeps DEF ForgotPassword, Purposes
<1>3. CASE SendPhoneAuthOtp(h)
  BY <1>3, IssuingKeeps DEF SendPhoneAuthOtp, Purposes, Channels
<1>4. CASE Refresh(h)
  BY <1>4, RefreshKeeps DEF Refresh
<1> QED
  BY <1>1, <1>2, <1>3, <1>4, VerifyOtpKeeps, VerifyEmailKeeps, ResetPasswordKeeps,
     PhoneAuthKeeps, SignupKeeps, LoginKeeps, RevokeMineKeeps, ChangePasswordKeeps,
     AdminUpdateKeeps DEF Begin

LEMMA HandlerKeeps ==
  ASSUME Typed, NEW h \in Handlers, HandlerStep(h)
  PROVE  Kept(h)
<1>1. CASE CodeStep(h)
  BY <1>1, ThrottleKeeps, InvalidateCalls, CreateCodeKeeps, FindCodeKeeps, WrongCodeKeeps,
     ConsumeKeeps, MarkVerifiedKeeps DEF CodeStep
<1>2. CASE SessionStep(h)
  BY <1>2, CreateUserKeeps, BumpKeeps, ResetFailedKeeps, OpenSessionKeeps, IssuePairKeeps,
     MarkRotatedKeeps, MarkReplayKeeps, RevokeSessionKeeps, RevokeTokensKeeps,
     UpdatePasswordKeeps, RevokeAllKeeps DEF SessionStep
<1> QED  BY <1>1, <1>2, BeginKeeps, CrashKeeps DEF HandlerStep

LEMMA OthersKeep ==
  ASSUME Typed, OtherStep \/ UNCHANGED vars
  PROVE  CodesKept /\ SessionsKept /\ TokensKept /\ UserKept /\ UNCHANGED call
<1>1. CASE LockLapses
  <2>1. UserWritten
    BY <1>1 DEF LockLapses, UserWritten
  <2>2. UserKept
    BY <2>1, UserWrites DEF Typed
  <2> QED  BY <1>1, <2>2, RowsStay DEF LockLapses, Typed
<1>2. CASE TimePasses
  <2>1. CodesKept
    BY <1>2, CodeWrites DEF TimePasses, Typed
  <2> QED  BY <1>2, <2>1, SessionsStay, TokensStay, UserStays DEF TimePasses, Typed
<1>3. CASE Logout \/ LogoutAll \/ AdminRevokeAllForUser
  <2>1. UNCHANGED <<codes, tokens, user, call>>
    BY <1>3 DEF Logout, LogoutAll, AdminRevokeAllForUser, AtOnce
  <2>2. SessionsKept
    BY <1>3, SessionRevoked, AllSessionsRevoked
       DEF Logout, LogoutAll, AdminRevokeAllForUser, Typed
  <2> QED  BY <2>1, <2>2, CodesStay, TokensStay, UserStays DEF Typed
<1>4. CASE UNCHANGED vars
  BY <1>4, RowsStay, UserStays DEF vars, rows, Typed
<1> QED  BY <1>1, <1>2, <1>3, <1>4 DEF OtherStep

(* The other handlers hold what they held.                                 *)
LEMMA HoldsMore ==
  ASSUME Typed, CodesKept, SessionsKept, TokensKept, UserKept,
         NEW g \in Handlers, call'[g] = call[g]
  PROVE  /\ Programs(call'[g]) /\ call'[g].epoch <= user'.epoch
         /\ Holds(call'[g], Len(codes'), Len(sessions'), Len(tokens'))
<1>1. /\ Programs(call[g]) /\ Holds(call[g], Len(codes), Len(sessions), Len(tokens))
      /\ call[g] \in Call /\ call[g].epoch <= user.epoch
  BY OneCall DEF Typed
<1>2. /\ Len(codes) \in Nat /\ Len(codes') \in Nat /\ Len(codes) <= Len(codes')
      /\ Len(sessions) \in Nat /\ Len(sessions') \in Nat /\ Len(sessions) <= Len(sessions')
      /\ Len(tokens) \in Nat /\ Len(tokens') \in Nat /\ Len(tokens) <= Len(tokens')
  BY Lengths DEF Typed, CodesKept, SessionsKept, TokensKept
<1>3. Holds(call[g], Len(codes'), Len(sessions'), Len(tokens'))
  <2>1. \A x \in Int : /\ x \in 1..Len(codes) => x \in 1..Len(codes')
                       /\ x \in 0..Len(codes) => x \in 0..Len(codes')
                       /\ x \in 1..Len(sessions) => x \in 1..Len(sessions')
                       /\ x \in 1..Len(tokens) => x \in 1..Len(tokens')
    BY <1>2
  <2>2. call[g].n \in Int /\ call[g].session \in Int
    BY <1>1 DEF Call
  <2> QED  BY <1>1, <2>1, <2>2 DEF Holds
<1>4. call[g].epoch <= user'.epoch
  <2>1. call[g].epoch \in Nat /\ user.epoch \in Nat /\ user'.epoch \in Nat
        /\ user.epoch <= user'.epoch
    BY <1>1 DEF Call, UserKept, User, Typed
  <2> QED  BY <1>1, <2>1
<1> QED  BY <1>1, <1>3, <1>4

LEMMA Counters ==
  ASSUME Typed, [Next]_vars
  PROVE  requests' \in 0..MaxRequests /\ faults' \in 0..MaxFaults
<1>1. /\ requests \in 0..MaxRequests /\ faults \in 0..MaxFaults
      /\ MaxRequests \in Nat /\ MaxFaults \in Nat
  BY AuthAssumption DEF Typed
<1>2. ASSUME NEW h, NEW c, Start(h, c)
      PROVE  requests' \in 0..MaxRequests
  BY <1>1, <1>2 DEF Start
<1>3. ASSUME NEW h \in Handlers, Begin(h)
      PROVE  requests' \in 0..MaxRequests /\ UNCHANGED faults
  BY <1>2, <1>3 DEF Begin, RequestOtp, ForgotPassword, SendPhoneAuthOtp, Issuing, VerifyOtp,
     VerifyEmail, ResetPassword, VerifyPhoneAuthOtp, Signup, Login, Refresh, RevokeMine,
     ChangePassword, AdminUpdateUser
<1>4. ASSUME NEW h \in Handlers, CodeStep(h)
      PROVE  UNCHANGED <<requests, faults>>
  BY <1>4 DEF CodeStep, Throttle, Invalidate, CreateCode, FindCode, WrongCode, Consume,
     MarkVerified
<1>5. ASSUME NEW h \in Handlers, SessionStep(h)
      PROVE  UNCHANGED <<requests, faults>>
  BY <1>5 DEF SessionStep, CreateUser, BumpFailedLogin, ResetFailedLogin, OpenSession,
     IssuePair, MarkRotated, MarkReplay, RevokeSession, RevokeTokens, UpdatePasswordHash,
     RevokeAll
<1>6. ASSUME NEW h \in Handlers, Crash(h)
      PROVE  UNCHANGED requests /\ faults' \in 0..MaxFaults
  BY <1>1, <1>6 DEF Crash
<1>7. ASSUME OtherStep
      PROVE  requests' \in 0..MaxRequests /\ UNCHANGED faults
  BY <1>1, <1>7 DEF OtherStep, Logout, LogoutAll, AdminRevokeAllForUser, AtOnce, LockLapses,
     TimePasses
<1>8. CASE UNCHANGED vars
  BY <1>1, <1>8 DEF vars
<1> QED  BY <1>1, <1>3, <1>4, <1>5, <1>6, <1>7, <1>8, NextSteps DEF HandlerStep

LEMMA TypedKept ==
  ASSUME Typed, [Next]_vars
  PROVE  Typed'
<1>1. requests' \in 0..MaxRequests /\ faults' \in 0..MaxFaults
  BY Counters
<1>2. CASE \E h \in Handlers : HandlerStep(h)
  <2>1. PICK h \in Handlers : HandlerStep(h)
    BY <1>2
  <2>2. CodesKept /\ SessionsKept /\ TokensKept /\ UserKept /\ Turn(h)
    BY <2>1, HandlerKeeps DEF Kept
  <2>3. PICK d \in Call :
          /\ call' = [call EXCEPT ![h] = d] /\ Programs(d)
          /\ Holds(d, Len(codes'), Len(sessions'), Len(tokens'))
          /\ d.epoch <= user'.epoch
    BY <2>2 DEF Turn
  <2>4. call \in [Handlers -> Call]
    BY DEF Typed, CallsOK
  <2>5. call' \in [Handlers -> Call]
    BY <2>3, <2>4
  <2>6. ASSUME NEW g \in Handlers
        PROVE  /\ Programs(call'[g]) /\ call'[g].epoch <= user'.epoch
               /\ Holds(call'[g], Len(codes'), Len(sessions'), Len(tokens'))
    <3>1. CASE g = h
      BY <2>3, <2>4, <3>1
    <3>2. CASE g # h
      <4>1. call'[g] = call[g]
        BY <2>3, <2>4, <3>2
      <4> QED  BY <2>2, <4>1, HoldsMore
    <3> QED  BY <3>1, <3>2
  <2>7. CallsOK'
    BY <2>5, <2>6 DEF CallsOK
  <2>8. RowsTyped'
    BY <2>2 DEF RowsTyped, CodesKept, SessionsKept, TokensKept
  <2> QED  BY <1>1, <2>2, <2>7, <2>8 DEF Typed, UserKept
<1>3. CASE OtherStep \/ UNCHANGED vars
  <2>1. CodesKept /\ SessionsKept /\ TokensKept /\ UserKept /\ UNCHANGED call
    BY <1>3, OthersKeep
  <2>2. call' \in [Handlers -> Call]
    BY <2>1 DEF Typed, CallsOK
  <2>3. \A g \in Handlers :
          /\ Programs(call'[g]) /\ call'[g].epoch <= user'.epoch
          /\ Holds(call'[g], Len(codes'), Len(sessions'), Len(tokens'))
    BY <2>1, HoldsMore
  <2>4. CallsOK'
    BY <2>2, <2>3 DEF CallsOK
  <2>5. RowsTyped'
    BY <2>1 DEF RowsTyped, CodesKept, SessionsKept, TokensKept
  <2> QED  BY <1>1, <2>1, <2>4, <2>5 DEF Typed, UserKept
<1> QED  BY <1>2, <1>3, NextSteps

LEMMA InitTyped ==
  ASSUME Init
  PROVE  Typed
<1>1. call = [h \in Handlers |-> Idle] /\ requests = 0 /\ faults = 0
  BY DEF Init
<1>2. requests \in 0..MaxRequests /\ faults \in 0..MaxFaults
  BY <1>1, AuthAssumption
<1>3. user \in User /\ user.epoch = 0
  <2>1. PICK s \in UserStatuses \cup {NoUser}, p \in BOOLEAN :
          user = [status |-> s, password |-> p, failed |-> 0, lock |-> "none",
                  epoch |-> 0, swept |-> 0]
    BY DEF Init, UserStatuses
  <2> QED  BY <2>1 DEF User
<1>4. RowsTyped /\ Len(codes) \in Nat /\ Len(sessions) \in Nat /\ Len(tokens) \in Nat
  <2>1. CASE codes = <<>> /\ sessions = <<>> /\ tokens = <<>>
    BY <2>1 DEF RowsTyped
  <2>2. CASE /\ codes \in {<<>>, <<NewCode("PASSWORD_RESET", "SMS", 0)>>}
             /\ sessions = <<[status |-> "ACTIVE", epoch |-> 0]>> /\ tokens = <<NewToken(1)>>
    <3>1. PICK c \in Code : c = NewCode("PASSWORD_RESET", "SMS", 0)
      <4>1. NewCode("PASSWORD_RESET", "SMS", 0) \in Code
        BY AttemptsAssumption DEF NewCode, Code, Purposes, Channels
      <4> QED  BY <4>1
    <3>2. codes \in Seq(Code)
      <4>1. codes = <<>> \/ codes = <<c>>
        BY <2>2, <3>1
      <4>2. <<>> \in Seq(Code) /\ <<c>> \in Seq(Code)
        OBVIOUS
      <4> QED  BY <4>1, <4>2
    <3>3. [status |-> "ACTIVE", epoch |-> 0] \in Session
      BY DEF Session
    <3>4. sessions \in Seq(Session) /\ DOMAIN sessions = 1..1
      BY <2>2, <3>3
    <3>5. NewToken(1) \in Token /\ NewToken(1).session = 1
      BY DEF NewToken, Token
    <3>6. tokens \in Seq(Token) /\ DOMAIN tokens = 1..1 /\ tokens[1] = NewToken(1)
      BY <2>2, <3>5
    <3>7. \A i \in DOMAIN tokens : tokens[i].session \in DOMAIN sessions
      BY <3>4, <3>5, <3>6
    <3> QED  BY <3>2, <3>4, <3>6, <3>7 DEF RowsTyped
  <2> QED  BY <2>1, <2>2 DEF Init
<1>5. CallsOK
  <2>1. PICK d \in Call : d = Idle /\ d.op = "none" /\ d.at = "idle" /\ d.epoch = 0
    BY IdleFields
  <2>2. Programs(d) /\ Holds(d, Len(codes), Len(sessions), Len(tokens))
    BY <2>1 DEF Programs, Holds, SignIns
  <2>3. call = [h \in Handlers |-> d]
    BY <1>1, <2>1
  <2> QED  BY <1>3, <2>1, <2>2, <2>3 DEF CallsOK
<1> QED  BY <1>2, <1>3, <1>4, <1>5 DEF Typed

(* The type invariant, and what a call holds at each step of its program.  *)
THEOREM Typing == Spec => []Typed
<1>1. Init => Typed
  BY InitTyped
<1>2. Typed /\ [Next]_vars => Typed'
  BY TypedKept
<1> QED  BY <1>1, <1>2, PTL DEF Spec

(* Every row, the user and every call have their type, and a call that     *)
(* works on a code, a token or a session works on one there is.            *)
THEOREM TypeCorrect == Spec => []TypeOK
<1>1. Typed => TypeOK
  BY TypedIsTypeOK
<1> QED  BY <1>1, Typing, PTL

-----------------------------------------------------------------------------
(* Which step writes what.                                                 *)
LEMMA WritesCodes ==
  ASSUME NEW h \in Handlers, HandlerStep(h)
  PROVE  \/ UNCHANGED codes
         \/ Invalidate(h) \/ CreateCode(h) \/ WrongCode(h) \/ Consume(h)
<1>1. CASE Begin(h)
  BY <1>1 DEF Begin, RequestOtp, ForgotPassword, SendPhoneAuthOtp, Issuing, VerifyOtp,
     VerifyEmail, ResetPassword, VerifyPhoneAuthOtp, Signup, Login, Refresh, RevokeMine,
     ChangePassword, AdminUpdateUser, rows
<1>2. CASE CodeStep(h)
  BY <1>2 DEF CodeStep, Throttle, FindCode, MarkVerified, rows
<1>3. CASE SessionStep(h)
  BY <1>3 DEF SessionStep, CreateUser, BumpFailedLogin, ResetFailedLogin, OpenSession,
     IssuePair, MarkRotated, MarkReplay, RevokeSession, RevokeTokens, UpdatePasswordHash,
     RevokeAll, rows
<1> QED  BY <1>1, <1>2, <1>3 DEF HandlerStep, Crash, rows

LEMMA WritesSessions ==
  ASSUME NEW h \in Handlers, HandlerStep(h)
  PROVE  UNCHANGED sessions \/ OpenSession(h) \/ RevokeSession(h) \/ RevokeAll(h)
<1>1. CASE Begin(h)
  BY <1>1 DEF Begin, RequestOtp, ForgotPassword, SendPhoneAuthOtp, Issuing, VerifyOtp,
     VerifyEmail, ResetPassword, VerifyPhoneAuthOtp, Signup, Login, Refresh, RevokeMine,
     ChangePassword, AdminUpdateUser, rows
<1>2. CASE CodeStep(h)
  BY <1>2 DEF CodeStep, Throttle, Invalidate, CreateCode, FindCode, WrongCode, Consume,
     MarkVerified, rows
<1>3. CASE SessionStep(h)
  BY <1>3 DEF SessionStep, CreateUser, BumpFailedLogin, ResetFailedLogin,
     IssuePair, MarkRotated, MarkReplay, RevokeTokens, UpdatePasswordHash, rows
<1> QED  BY <1>1, <1>2, <1>3 DEF HandlerStep, Crash, rows

LEMMA WritesTokens ==
  ASSUME NEW h \in Handlers, HandlerStep(h)
  PROVE  UNCHANGED tokens \/ IssuePair(h) \/ MarkRotated(h) \/ MarkReplay(h) \/ RevokeTokens(h)
<1>1. CASE Begin(h)
  BY <1>1 DEF Begin, RequestOtp, ForgotPassword, SendPhoneAuthOtp, Issuing, VerifyOtp,
     VerifyEmail, ResetPassword, VerifyPhoneAuthOtp, Signup, Login, Refresh, RevokeMine,
     ChangePassword, AdminUpdateUser, rows
<1>2. CASE CodeStep(h)
  BY <1>2 DEF CodeStep, Throttle, Invalidate, CreateCode, FindCode, WrongCode, Consume,
     MarkVerified, rows
<1>3. CASE SessionStep(h)
  BY <1>3 DEF SessionStep, CreateUser, BumpFailedLogin, ResetFailedLogin, OpenSession,
     RevokeSession, UpdatePasswordHash, RevokeAll, rows
<1> QED  BY <1>1, <1>2, <1>3 DEF HandlerStep, Crash, rows

LEMMA WritesUser ==
  ASSUME NEW h \in Handlers, HandlerStep(h)
  PROVE  \/ UNCHANGED user
         \/ MarkVerified(h) \/ CreateUser(h) \/ BumpFailedLogin(h) \/ ResetFailedLogin(h)
         \/ UpdatePasswordHash(h) \/ RevokeAll(h) \/ AdminUpdateUser(h)
<1>1. CASE Begin(h)
  BY <1>1 DEF Begin, RequestOtp, ForgotPassword, SendPhoneAuthOtp, Issuing, VerifyOtp,
     VerifyEmail, ResetPassword, VerifyPhoneAuthOtp, Signup, Login, Refresh, RevokeMine,
     ChangePassword
<1>2. CASE CodeStep(h)
  BY <1>2 DEF CodeStep, Throttle, Invalidate, CreateCode, FindCode, WrongCode, Consume
<1>3. CASE SessionStep(h)
  BY <1>3 DEF SessionStep, OpenSession, IssuePair, MarkRotated, MarkReplay, RevokeSession,
     RevokeTokens
<1> QED  BY <1>1, <1>2, <1>3 DEF HandlerStep, Crash

(* A handler begins when it is idle; what it does then depends on where it *)
(* is.                                                                     *)
LEMMA Starts ==
  ASSUME CallsOK, NEW h \in Handlers, NEW c, Start(h, c)
  PROVE  call[h] = Idle /\ call[h].at = "idle" /\ call'[h] = c
BY IdleFields DEF Start, CallsOK

LEMMA BeginsIdle ==
  ASSUME CallsOK, NEW h \in Handlers, Begin(h)
  PROVE  call[h].at = "idle"
BY Starts DEF Begin, RequestOtp, ForgotPassword, SendPhoneAuthOtp, Issuing, VerifyOtp,
   VerifyEmail, ResetPassword, VerifyPhoneAuthOtp, Signup, Login, Refresh, RevokeMine,
   ChangePassword, AdminUpdateUser

LEMMA Crashes ==
  ASSUME CallsOK, NEW h \in Handlers, Return(h)
  PROVE  call'[h] = Idle /\ call'[h].at = "idle" /\ call'[h].op = "none" /\ call'[h].epoch = 0
BY IdleFields DEF Return, CallsOK

LEMMA FromIdle ==
  ASSUME CallsOK, NEW h \in Handlers, HandlerStep(h), call[h].at = "idle"
  PROVE  Begin(h) \/ Crash(h)
<1>1. ~CodeStep(h)
  BY DEF CodeStep, Throttle, Invalidate, CreateCode, FindCode, WrongCode, Consume,
     MarkVerified, At
<1>2. ~SessionStep(h)
  BY DEF SessionStep, CreateUser, BumpFailedLogin, ResetFailedLogin, OpenSession, IssuePair,
     MarkRotated, MarkReplay, RevokeSession, RevokeTokens, UpdatePasswordHash, RevokeAll, At
<1> QED  BY <1>1, <1>2 DEF HandlerStep

LEMMA FromInvalidate ==
  ASSUME CallsOK, NEW h \in Handlers, HandlerStep(h), call[h].at = "invalidate"
  PROVE  Invalidate(h) \/ Crash(h)
<1>1. CodeStep(h) => Invalidate(h)
  BY DEF CodeStep, Throttle, CreateCode, FindCode, WrongCode, Consume, MarkVerified, At
<1>2. ~SessionStep(h)
  BY DEF SessionStep, CreateUser, BumpFailedLogin, ResetFailedLogin, OpenSession, IssuePair,
     MarkRotated, MarkReplay, RevokeSession, RevokeTokens, UpdatePasswordHash, RevokeAll, At
<1>3. ~Begin(h)
  BY BeginsIdle
<1> QED  BY <1>1, <1>2, <1>3 DEF HandlerStep

(* The calls of the other handlers stay, that of this one goes on.         *)
LEMMA OneTurn ==
  ASSUME CallsOK, NEW h \in Handlers, Turn(h)
  PROVE  /\ \A g \in Handlers \ {h} : call'[g] = call[g]
         /\ call'[h] \in Call /\ Programs(call'[h]) /\ Follows(call[h], call'[h])
         /\ Holds(call'[h], Len(codes'), Len(sessions'), Len(tokens'))
<1>1. PICK d \in Call :
        /\ call' = [call EXCEPT ![h] = d]
        /\ Programs(d) /\ Holds(d, Len(codes'), Len(sessions'), Len(tokens'))
        /\ Follows(call[h], d)
  BY DEF Turn
<1>2. call'[h] = d /\ \A g \in Handlers \ {h} : call'[g] = call[g]
  BY <1>1 DEF CallsOK
<1> QED  BY <1>1, <1>2

-----------------------------------------------------------------------------
(* Two valid codes.  A request between its two writes has invalidated the  *)
(* codes there were when it made the first.                                *)
Cleared ==
  \A h \in Handlers : At(h, "createCode") =>
    \A i \in DOMAIN codes :
      /\ i <= call[h].n
      /\ codes[i].purpose = call[h].purpose /\ codes[i].channel = call[h].channel
      => ~Live(i)

LEMMA ClearedStays ==
  ASSUME Typed, Typed', CodesKept, Cleared,
         NEW g \in Handlers, call'[g] = call[g], At(g, "createCode")',
         NEW i \in DOMAIN codes', i <= call'[g].n,
         codes'[i].purpose = call'[g].purpose, codes'[i].channel = call'[g].channel
  PROVE  ~Live(i)'
<1>1. At(g, "createCode") /\ call[g].n \in 0..Len(codes)
  BY OneCall DEF At, Typed, Holds
<1>2. DOMAIN codes = 1..Len(codes) /\ DOMAIN codes' = 1..Len(codes') /\ Len(codes) \in Nat
      /\ Len(codes') \in Nat
  BY Lengths DEF Typed, CodesKept
<1>3. i \in DOMAIN codes
  BY <1>1, <1>2
<1>4. ~Live(i)
  BY <1>1, <1>3 DEF Cleared, CodesKept
<1> QED  BY <1>3, <1>4 DEF CodesKept

(* No code is added: codes that are valid now were valid.                  *)
LEMMA PairsStay ==
  ASSUME Typed, CodesKept, Len(codes') = Len(codes), TwoCodesNeedTwoRequestsAtOnce
  PROVE  TwoCodesNeedTwoRequestsAtOnce'
<1>1. DOMAIN codes = DOMAIN codes'
  BY Lengths DEF Typed, CodesKept
<1> QED  BY <1>1 DEF TwoCodesNeedTwoRequestsAtOnce, CodesKept

LEMMA ClearedKept ==
  ASSUME Typed, Typed', Cleared, TwoCodesNeedTwoRequestsAtOnce, [Next]_vars
  PROVE  Cleared' /\ TwoCodesNeedTwoRequestsAtOnce'
<1>1. CASE \E h \in Handlers : HandlerStep(h)
  <2>1. PICK h \in Handlers : HandlerStep(h)
    BY <1>1
  <2>2. CodesKept /\ Turn(h)
    BY <2>1, HandlerKeeps DEF Kept
  <2>3. /\ \A g \in Handlers \ {h} : call'[g] = call[g]
        /\ Follows(call[h], call'[h])
    BY <2>2, OneTurn DEF Typed
  <2>4. Cleared'
    <3> SUFFICES ASSUME NEW g \in Handlers, At(g, "createCode")', NEW i \in DOMAIN codes',
                        i <= call'[g].n, codes'[i].purpose = call'[g].purpose,
                        codes'[i].channel = call'[g].channel
                 PROVE  ~Live(i)'
      BY DEF Cleared
    <3>1. CASE g # h
      BY <2>2, <2>3, <3>1, ClearedStays
    <3>2. CASE g = h
      <4>1. call[h].at = "invalidate"
        BY <2>3, <3>2 DEF Follows, At
      <4>2. ~Crash(h)
        BY <3>2, Crashes DEF Crash, Typed, At
      <4>3. Invalidate(h)
        BY <2>1, <4>1, <4>2, FromInvalidate DEF Typed
      <4>4. call[h] \in Call /\ call \in [Handlers -> Call]
        BY OneCall DEF Typed, CallsOK
      <4>5. call'[h].purpose = call[h].purpose /\ call'[h].channel = call[h].channel
        <5>1. PICK d : d = [call[h] EXCEPT !.at = "createCode", !.n = Len(codes)]
          OBVIOUS
        <5>2. call' = [call EXCEPT ![h] = d]
          BY <4>3, <5>1 DEF Invalidate
        <5>3. d.purpose = call[h].purpose /\ d.channel = call[h].channel
          BY <4>4, <5>1 DEF Call
        <5> QED  BY <4>4, <5>2, <5>3
      <4>6. /\ DOMAIN codes' = DOMAIN codes
            /\ \A k \in DOMAIN codes :
                 codes[k].purpose = call[h].purpose /\ codes[k].channel = call[h].channel
                   => ~Live(k)'
        BY <4>3, InvalidateKeeps DEF Invalidate, Typed
      <4>7. i \in DOMAIN codes
        BY <4>6
      <4>8. codes[i].purpose = call[h].purpose /\ codes[i].channel = call[h].channel
        BY <2>2, <3>2, <4>5, <4>7 DEF CodesKept
      <4> QED  BY <4>6, <4>7, <4>8
    <3> QED  BY <3>1, <3>2
  <2>5. ASSUME CreateCode(h)
        PROVE  TwoCodesNeedTwoRequestsAtOnce'
    <3>1. /\ At(h, "createCode") /\ CreateRow(call[h].purpose, call[h].channel, call[h].n)
          /\ call[h] \in Call /\ call[h].n \in 0..Len(codes) /\ Len(codes) \in Nat
      BY <2>5, OneCall, Lengths DEF CreateCode, Typed, Holds, At
    <3>2. call[h].n \in Nat /\ call[h].purpose \in Purposes /\ call[h].channel \in Channels
      BY <3>1 DEF Call
    <3>3. /\ Len(codes') = Len(codes) + 1
          /\ codes'[Len(codes) + 1] = NewCode(call[h].purpose, call[h].channel, call[h].n)
      BY <3>1, <3>2, CreateKeeps DEF Typed
    <3>4. /\ codes'[Len(codes) + 1].purpose = call[h].purpose
          /\ codes'[Len(codes) + 1].channel = call[h].channel
          /\ codes'[Len(codes) + 1].cleared = call[h].n
      BY <3>3 DEF NewCode
    <3> SUFFICES ASSUME NEW i \in DOMAIN codes', NEW j \in DOMAIN codes', i < j,
                        Live(i)', Live(j)', codes'[i].purpose = codes'[j].purpose,
                        codes'[i].channel = codes'[j].channel
                 PROVE  codes'[j].cleared < i
      BY DEF TwoCodesNeedTwoRequestsAtOnce
    <3>5. /\ DOMAIN codes = 1..Len(codes) /\ DOMAIN codes' = 1..(Len(codes) + 1)
      BY <3>3, Lengths DEF Typed, CodesKept
    <3>6. i \in DOMAIN codes /\ (j \in DOMAIN codes \/ j = Len(codes) + 1)
      BY <3>1, <3>5
    <3>7. CASE j \in DOMAIN codes
      BY <2>2, <3>6, <3>7 DEF TwoCodesNeedTwoRequestsAtOnce, CodesKept
    <3>8. CASE j = Len(codes) + 1
      <4>1. /\ codes[i].purpose = call[h].purpose /\ codes[i].channel = call[h].channel
            /\ Live(i)
        BY <2>2, <3>4, <3>6, <3>8 DEF CodesKept
      <4>2. ~(i <= call[h].n)
        BY <3>1, <3>6, <4>1 DEF Cleared
      <4>3. call[h].n < i
        BY <3>1, <3>5, <4>2
      <4> QED  BY <3>4, <3>8, <4>3
    <3> QED  BY <3>6, <3>7, <3>8
  <2>6. ASSUME ~CreateCode(h)
        PROVE  TwoCodesNeedTwoRequestsAtOnce'
    <3>1. Len(codes') = Len(codes)
      <4>1. CASE Invalidate(h)
        BY <4>1, InvalidateKeeps DEF Invalidate, Typed
      <4>2. CASE WrongCode(h) \/ Consume(h)
        <5>1. call[h].n \in DOMAIN codes
          BY <4>2, TypedIsTypeOK DEF TypeOK, WrongCode, Consume, At
        <5> QED  BY <4>2, <5>1, CodeWrites DEF WrongCode, Consume, Typed
      <4> QED  BY <2>1, <2>6, <4>1, <4>2, WritesCodes
    <3> QED  BY <2>2, <3>1, PairsStay
  <2> QED  BY <2>4, <2>5, <2>6
<1>2. CASE OtherStep \/ UNCHANGED vars
  <2>1. CodesKept /\ UNCHANGED call
    BY <1>2, OthersKeep
  <2>2. Len(codes') = Len(codes)
    BY <1>2, CodeWrites
       DEF OtherStep, Logout, LogoutAll, AdminRevokeAllForUser, AtOnce, LockLapses, TimePasses,
           rows, vars, Typed
  <2>3. Cleared'
    BY <2>1, ClearedStays DEF Cleared
  <2> QED  BY <2>1, <2>2, <2>3, PairsStay
<1> QED  BY <1>1, <1>2, NextSteps

(* Two codes of one purpose and channel are valid at the same time only if *)
(* issue had invalidated the codes, for the newer one, before the older    *)
(* one was stored: the requests overlapped.                                *)
THEOREM CodesTakeTurns == Spec => []TwoCodesNeedTwoRequestsAtOnce
<1> DEFINE Inv == Typed /\ Cleared /\ TwoCodesNeedTwoRequestsAtOnce
<1>1. Init => Inv
  <2> SUFFICES ASSUME Init PROVE Inv
    OBVIOUS
  <2>1. Cleared
    BY IdleFields DEF Init, Cleared, At
  <2>2. DOMAIN codes \subseteq {1}
    BY DEF Init
  <2>3. TwoCodesNeedTwoRequestsAtOnce
    BY <2>2 DEF TwoCodesNeedTwoRequestsAtOnce
  <2> QED  BY <2>1, <2>3, InitTyped
<1>2. Inv /\ [Next]_vars => Inv'
  BY TypedKept, ClearedKept
<1>3. Inv => TwoCodesNeedTwoRequestsAtOnce
  OBVIOUS
<1> QED  BY <1>1, <1>2, <1>3, PTL DEF Spec

-----------------------------------------------------------------------------
(* The lock.  A failed login that read a counter below the threshold will  *)
(* raise it without locking the account.                                   *)
Missing == {h \in Handlers : At(h, "bump") /\ call[h].n < LockThreshold}
LockOK ==
  user.lock = "none" =>
    user.failed + Cardinality(Missing) <= LockThreshold - 2 + Cardinality(Handlers)

LEMMA SmallerSet ==
  ASSUME NEW S \in SUBSET Handlers, NEW T \in SUBSET S
  PROVE  /\ Cardinality(S) \in Nat /\ Cardinality(T) \in Nat
         /\ Cardinality(T) <= Cardinality(S)
<1>1. IsFiniteSet(S) /\ Cardinality(S) \in Nat /\ Cardinality(T) \in Nat
  BY HandlerSets
<1> QED  BY <1>1, FS_Subset

LEMMA UserCounts ==
  ASSUME user \in User
  PROVE  /\ user.failed \in Nat /\ user.epoch \in Nat /\ user.swept \in Nat
         /\ user.lock \in {"none", "held", "lapsed"}
BY DEF User

(* The counter and the lock stay, and no login has begun to miss it.       *)
LEMMA LockStays ==
  ASSUME Typed, LockOK, user'.failed = user.failed, user'.lock = user.lock,
         Missing' \subseteq Missing
  PROVE  LockOK'
<1>1. Missing \in SUBSET Handlers
  BY DEF Missing
<1>2. /\ Cardinality(Missing) \in Nat /\ Cardinality(Missing') \in Nat
      /\ Cardinality(Missing') <= Cardinality(Missing)
  BY <1>1, SmallerSet
<1>3. Cardinality(Handlers) \in Nat /\ LockThreshold \in Nat /\ user.failed \in Nat
  BY HandlerSets, AuthAssumption, UserCounts DEF Typed
<1>4. CASE user.lock = "none"
  <2>1. user.failed + Cardinality(Missing) <= LockThreshold - 2 + Cardinality(Handlers)
    BY <1>4 DEF LockOK
  <2>2. user.failed + Cardinality(Missing') <= LockThreshold - 2 + Cardinality(Handlers)
    BY <1>2, <1>3, <2>1
  <2> QED  BY <2>2 DEF LockOK
<1>5. CASE user.lock # "none"
  BY <1>5 DEF LockOK
<1> QED  BY <1>4, <1>5

(* Any set of handlers is within the bound when the counter is low.        *)
LEMMA LowCounter ==
  ASSUME user'.failed \in Nat, user'.failed <= LockThreshold - 2
  PROVE  LockOK'
<1>1. Missing' \in SUBSET Handlers
  BY DEF Missing
<1>2. /\ Cardinality(Missing') \in Nat /\ Cardinality(Missing') <= Cardinality(Handlers)
      /\ Cardinality(Handlers) \in Nat /\ LockThreshold \in Nat
  BY <1>1, HandlerSets, AuthAssumption
<1>3. user'.failed + Cardinality(Missing') <= LockThreshold - 2 + Cardinality(Handlers)
  BY <1>2
<1> QED  BY <1>3 DEF LockOK

(* Only three operations sign in.                                          *)
LEMMA Openings ==
  ASSUME Typed, NEW h \in Handlers, Begin(h)
  PROVE  Login(h) \/ VerifyPhoneAuthOtp(h) \/ Signup(h) \/ call'[h].op \notin SignIns
<1>1. ASSUME NEW c, Start(h, c)
      PROVE  call'[h] = c
  BY <1>1, Starts DEF Typed
<1>2. CASE \E p, ch : Issuing(h, p, ch)
  BY <1>1, <1>2 DEF Issuing, Idle, SignIns
<1>v. ASSUME VerifyOtp(h)
      PROVE  call'[h].op \notin SignIns
  BY <1>1, <1>v DEF VerifyOtp, Idle, SignIns
<1>w. ASSUME VerifyEmail(h)
      PROVE  call'[h].op \notin SignIns
  BY <1>1, <1>w DEF VerifyEmail, Idle, SignIns
<1>x. ASSUME ResetPassword(h)
      PROVE  call'[h].op \notin SignIns
  BY <1>1, <1>x DEF ResetPassword, Idle, SignIns
<1>3. CASE VerifyOtp(h) \/ VerifyEmail(h) \/ ResetPassword(h)
  BY <1>3, <1>v, <1>w, <1>x
<1>4. CASE RevokeMine(h) \/ ChangePassword(h)
  <2>1. \/ \E s : Start(h, [Idle EXCEPT !.op = "revokeMine", !.at = "revokeSession",
                                        !.session = s])
        \/ Start(h, [Idle EXCEPT !.op = "change", !.at = "setPassword"])
    BY <1>4 DEF RevokeMine, ChangePassword
  <2>2. PICK c : /\ Start(h, c)
                 /\ \/ \E s : c = [Idle EXCEPT !.op = "revokeMine", !.at = "revokeSession",
                                               !.session = s]
                    \/ c = [Idle EXCEPT !.op = "change", !.at = "setPassword"]
    BY <2>1
  <2>3. c.op \in {"revokeMine", "change"}
    BY <2>2 DEF Idle
  <2> QED  BY <1>1, <2>2, <2>3 DEF SignIns
<1>5. CASE Refresh(h)
  <2>1. PICK t, s, a : Start(h, [Idle EXCEPT !.op = "refresh", !.n = t, !.session = s,
                                             !.at = a])
    BY <1>5 DEF Refresh
  <2> QED  BY <1>1, <2>1 DEF Idle, SignIns
<1>6. CASE AdminUpdateUser(h)
  <2>1. \/ \E e : Start(h, [Idle EXCEPT !.op = "suspend", !.at = "revokeAll", !.epoch = e])
        \/ Start(h, Idle)
    BY <1>6 DEF AdminUpdateUser
  <2>2. PICK c : /\ Start(h, c)
                 /\ \/ \E e : c = [Idle EXCEPT !.op = "suspend", !.at = "revokeAll",
                                               !.epoch = e]
                    \/ c = Idle
    BY <2>1
  <2>3. c.op \in {"suspend", "none"}
    <3>1. CASE c = Idle
      BY <3>1, IdleFields
    <3>2. ASSUME NEW e, c = [Idle EXCEPT !.op = "suspend", !.at = "revokeAll", !.epoch = e]
          PROVE  c.op = "suspend"
      BY <3>2 DEF Idle
    <3> QED  BY <2>2, <3>1, <3>2
  <2> QED  BY <1>1, <2>2, <2>3 DEF SignIns
<1> QED
  BY <1>2, <1>3, <1>4, <1>5, <1>6 DEF Begin, RequestOtp, ForgotPassword, SendPhoneAuthOtp

LEMMA LoginCalls ==
  ASSUME Typed, NEW h \in Handlers, Login(h)
  PROVE  \/ call'[h].at = "resetFailed" /\ call'[h].epoch = user.epoch
         \/ call'[h].at = "bump" /\ call'[h].n = user.failed + 1
<1>1. CASE Start(h, [Idle EXCEPT !.op = "login", !.at = "resetFailed",
                                 !.epoch = user.epoch])
  <2>1. call'[h] = [Idle EXCEPT !.op = "login", !.at = "resetFailed", !.epoch = user.epoch]
    BY <1>1, Starts DEF Typed
  <2> QED  BY <2>1 DEF Idle
<1>2. CASE Start(h, [Idle EXCEPT !.op = "login", !.at = "bump", !.n = user.failed + 1])
  <2>1. PICK n : n = user.failed + 1
    OBVIOUS
  <2>2. call'[h] = [Idle EXCEPT !.op = "login", !.at = "bump", !.n = n]
    BY <1>2, <2>1, Starts DEF Typed
  <2> QED  BY <2>1, <2>2 DEF Idle
<1> QED  BY <1>1, <1>2 DEF Login

(* A call that comes to "bump" is that of a login with a wrong password.   *)
LEMMA BumpsFromLogin ==
  ASSUME Typed, NEW h \in Handlers, HandlerStep(h), At(h, "bump")'
  PROVE  call'[h].n = user.failed + 1
<1>1. Turn(h)
  BY HandlerKeeps DEF Kept
<1>2. call[h].at = "idle" /\ call'[h] \in Call /\ Programs(call'[h])
  BY <1>1, OneTurn DEF Follows, At, Typed
<1>3. call'[h].op = "login"
  BY <1>2 DEF Programs, Call, Ops, At
<1>4. ~Crash(h)
  BY <1>3, Crashes DEF Crash, Typed
<1>5. Begin(h)
  BY <1>2, <1>4, FromIdle DEF Typed
<1>6. ~VerifyPhoneAuthOtp(h) /\ ~Signup(h)
  <2>1. ASSUME NEW c, Start(h, c)
        PROVE  call'[h] = c
    BY <2>1, Starts DEF Typed
  <2>2. ~Signup(h)
    BY <1>3, <2>1 DEF Signup, Idle
  <2>3. ~VerifyPhoneAuthOtp(h)
    BY <1>3, <2>1 DEF VerifyPhoneAuthOtp, Idle
  <2> QED  BY <2>2, <2>3
<1>7. Login(h)
  BY <1>3, <1>5, <1>6, Openings DEF SignIns
<1> QED  BY <1>7, LoginCalls DEF At

LEMMA LockKept ==
  ASSUME Typed, Typed', LockOK, [Next]_vars
  PROVE  LockOK'
<1>t. /\ user.failed \in Nat /\ LockThreshold \in Nat /\ LockThreshold >= 2
      /\ Cardinality(Handlers) \in Nat
  BY UserCounts, AuthAssumption, HandlerSets DEF Typed
<1>1. CASE \E h \in Handlers : HandlerStep(h)
  <2>1. PICK h \in Handlers : HandlerStep(h)
    BY <1>1
  <2>2. \A g \in Handlers \ {h} : call'[g] = call[g]
    BY <2>1, HandlerKeeps, OneTurn DEF Kept, Typed
  <2>3. CASE BumpFailedLogin(h)
    <3>1. call[h].at = "bump" /\ call[h].n \in Int /\ call'[h].at = "idle"
      BY <2>3, OneCall, Crashes DEF BumpFailedLogin, At, Typed, Call
    <3>2. /\ user'.failed = user.failed + 1
          /\ user'.lock = IF call[h].n >= LockThreshold THEN "held" ELSE user.lock
      <4>1. PICK f, l : f = user.failed + 1
                        /\ l = IF call[h].n >= LockThreshold THEN "held" ELSE user.lock
        OBVIOUS
      <4>2. user' = [user EXCEPT !.failed = f, !.lock = l]
        BY <2>3, <4>1 DEF BumpFailedLogin
      <4>3. user \in User
        BY DEF Typed
      <4> QED  BY <4>1, <4>2, <4>3 DEF User
    <3>3. CASE call[h].n >= LockThreshold
      BY <3>2, <3>3 DEF LockOK
    <3>4. CASE ~(call[h].n >= LockThreshold)
      <4>1. h \in Missing /\ Missing' = Missing \ {h}
        BY <1>t, <2>2, <3>1, <3>4 DEF Missing, At
      <4>2. Missing \in SUBSET Handlers
        BY DEF Missing
      <4>3. /\ Cardinality(Missing) = Cardinality(Missing') + 1
            /\ Cardinality(Missing) \in Nat /\ Cardinality(Missing') \in Nat
        BY <4>1, <4>2, CountWithout
      <4>4. user.failed + Cardinality(Missing) = user'.failed + Cardinality(Missing')
        BY <1>t, <3>2, <4>3
      <4> QED  BY <3>2, <3>4, <4>4 DEF LockOK
    <3> QED  BY <3>3, <3>4
  <2>4. CASE ResetFailedLogin(h)
    <3>1. user'.failed = 0
      BY <2>4 DEF ResetFailedLogin, Typed, User
    <3> QED  BY <1>t, <3>1, LowCounter
  <2>5. CASE ~BumpFailedLogin(h) /\ ~ResetFailedLogin(h)
    <3>1. user'.failed = user.failed /\ user'.lock = user.lock
      <4>1. user \in User
        BY DEF Typed
      <4>2. CASE UNCHANGED user
        BY <4>2
      <4>3. CASE MarkVerified(h)
        BY <4>1, <4>3 DEF MarkVerified, User
      <4>4. CASE CreateUser(h)
        BY <4>1, <4>4 DEF CreateUser, User
      <4>5. CASE UpdatePasswordHash(h)
        BY <4>1, <4>5 DEF UpdatePasswordHash, User
      <4>6. CASE RevokeAll(h)
        BY <4>1, <4>6 DEF RevokeAll, User
      <4>7. CASE AdminUpdateUser(h)
        <5>1. \/ \E s, e : user' = [user EXCEPT !.status = s, !.epoch = e]
              \/ \E s : user' = [user EXCEPT !.status = s]
          BY <4>7 DEF AdminUpdateUser
        <5> QED  BY <4>1, <5>1 DEF User
      <4> QED  BY <2>1, <2>5, <4>2, <4>3, <4>4, <4>5, <4>6, <4>7, WritesUser
    <3>2. CASE ~At(h, "bump")'
      <4>1. Missing' \subseteq Missing
        BY <2>2, <3>2 DEF Missing, At
      <4> QED  BY <3>1, <4>1, LockStays
    <3>3. CASE At(h, "bump")'
      <4>1. call'[h].n = user.failed + 1
        BY <2>1, <3>3, BumpsFromLogin
      <4>2. CASE user.failed + 1 < LockThreshold
        <5>1. user'.failed \in Nat /\ user'.failed <= LockThreshold - 2
          BY <1>t, <3>1, <4>2
        <5> QED  BY <5>1, LowCounter
      <4>3. CASE ~(user.failed + 1 < LockThreshold)
        <5>1. Missing' \subseteq Missing
          BY <2>2, <4>1, <4>3 DEF Missing, At
        <5> QED  BY <3>1, <5>1, LockStays
      <4> QED  BY <4>2, <4>3
    <3> QED  BY <3>2, <3>3
  <2> QED  BY <2>3, <2>4, <2>5
<1>2. CASE OtherStep \/ UNCHANGED vars
  <2>1. UNCHANGED call
    BY <1>2, OthersKeep
  <2>2. Missing' \subseteq Missing
    BY <2>1 DEF Missing, At
  <2>3. CASE LockLapses
    BY <2>3 DEF LockLapses, LockOK, Typed, User
  <2>4. CASE UNCHANGED user
    BY <2>2, <2>4, LockStays
  <2> QED
    BY <1>2, <2>3, <2>4 DEF OtherStep, Logout, LogoutAll, AdminRevokeAllForUser, AtOnce,
       TimePasses, vars
<1> QED  BY <1>1, <1>2, NextSteps

(* However many wrong passwords arrive at the same time, an account that   *)
(* is not locked has at most LockThreshold - 2 failed logins and one per   *)
(* handler: only logins that read the counter below the threshold pass it. *)
THEOREM LockIsMissedOnlyAtOnce == Spec => []LockMissedOnlyAtOnce
<1> DEFINE Inv == Typed /\ LockOK
<1>1. Init => Inv
  <2> SUFFICES ASSUME Init PROVE LockOK
    BY InitTyped
  <2>1. user.failed = 0
    BY DEF Init
  <2>2. /\ Cardinality(Handlers) \in Nat /\ LockThreshold \in Nat /\ LockThreshold >= 2
    BY HandlerSets, AuthAssumption
  <2>3. Missing = {}
    BY IdleFields DEF Init, Missing, At
  <2>4. Cardinality(Missing) = 0
    BY <2>3, FS_EmptySet
  <2> QED  BY <2>1, <2>2, <2>4 DEF LockOK
<1>2. Inv /\ [Next]_vars => Inv'
  BY TypedKept, LockKept
<1>3. Inv => LockMissedOnlyAtOnce
  <2> SUFFICES ASSUME Inv, user.lock = "none"
               PROVE  user.failed <= LockThreshold - 2 + Cardinality(Handlers)
    BY DEF LockMissedOnlyAtOnce
  <2>1. Missing \in SUBSET Handlers
    BY DEF Missing
  <2>2. /\ Cardinality(Missing) \in Nat /\ Cardinality(Handlers) \in Nat
        /\ LockThreshold \in Nat /\ user.failed \in Nat
    BY <2>1, HandlerSets, AuthAssumption, UserCounts DEF Typed
  <2>3. user.failed + Cardinality(Missing) <= LockThreshold - 2 + Cardinality(Handlers)
    BY DEF LockOK
  <2> QED  BY <2>2, <2>3
<1> QED  BY <1>1, <1>2, <1>3, PTL DEF Spec

-----------------------------------------------------------------------------
(* The sweep.  Late are the sign-ins that read the user before a change of *)
(* password or a suspension whose sweep is over, and have not opened their *)
(* session yet; Stales the sessions such sign-ins have opened.             *)
EpochsOK ==
  /\ user.status = NoUser => user.epoch = 0
  /\ user.swept <= user.epoch
Late == {h \in Handlers : SignsIn(call[h]) /\ call[h].epoch < user.swept}
Stales == {s \in DOMAIN sessions : /\ sessions[s].status = "ACTIVE"
                                   /\ sessions[s].epoch < user.swept}
SpareOK == Cardinality(Stales) + Cardinality(Late) < Cardinality(Handlers)

LEMMA EpochsKept ==
  ASSUME Typed, EpochsOK, [Next]_vars
  PROVE  EpochsOK'
<1>t. /\ user \in User /\ user.epoch \in Nat /\ user.swept \in Nat
  BY UserCounts DEF Typed
<1>1. CASE user'.epoch = user.epoch /\ user'.swept = user.swept
           /\ (user'.status = NoUser => user.status = NoUser)
  BY <1>1 DEF EpochsOK
<1>2. ASSUME NEW h \in Handlers, HandlerStep(h)
      PROVE  EpochsOK'
  <2>1. CASE UNCHANGED user
    BY <1>1, <2>1
  <2>2. CASE MarkVerified(h)
    <3>1. PICK s : s = IF user.status = NoUser THEN user.status ELSE "ACTIVE"
      OBVIOUS
    <3>2. user' = [user EXCEPT !.status = s]
      BY <2>2, <3>1 DEF MarkVerified
    <3>3. /\ user'.epoch = user.epoch /\ user'.swept = user.swept
          /\ user'.status = NoUser => user.status = NoUser
      BY <1>t, <3>1, <3>2 DEF User, NoUser
    <3> QED  BY <1>1, <3>3
  <2>3. CASE CreateUser(h)
    <3>1. CASE user.status = NoUser
      <4>1. \E s, p : user' = [user EXCEPT !.status = s, !.password = p]
        BY <2>3, <3>1 DEF CreateUser
      <4>2. user'.epoch = user.epoch /\ user'.swept = user.swept
        BY <1>t, <4>1 DEF User
      <4> QED  BY <1>1, <3>1, <4>2
    <3>2. CASE user.status # NoUser
      BY <1>1, <2>3, <3>2 DEF CreateUser
    <3> QED  BY <3>1, <3>2
  <2>4. CASE BumpFailedLogin(h) \/ ResetFailedLogin(h)
    <3>1. \E f, l : user' = [user EXCEPT !.failed = f, !.lock = l]
      BY <2>4 DEF BumpFailedLogin, ResetFailedLogin
    <3>2. user'.epoch = user.epoch /\ user'.swept = user.swept /\ user'.status = user.status
      BY <1>t, <3>1 DEF User
    <3> QED  BY <1>1, <3>2
  <2>5. CASE UpdatePasswordHash(h)
    <3>1. CASE user.status = NoUser
      BY <1>1, <2>5, <3>1 DEF UpdatePasswordHash
    <3>2. CASE user.status # NoUser
      <4>1. PICK e : e = user.epoch + 1
        OBVIOUS
      <4>2. user' = [user EXCEPT !.password = TRUE, !.epoch = e]
        BY <2>5, <3>2, <4>1 DEF UpdatePasswordHash
      <4>3. user'.epoch = e /\ user'.swept = user.swept /\ user'.status = user.status
        BY <1>t, <4>2 DEF User
      <4>4. user'.swept <= user'.epoch
        BY <1>t, <4>1, <4>3 DEF EpochsOK
      <4> QED  BY <3>2, <4>3, <4>4 DEF EpochsOK
    <3> QED  BY <3>1, <3>2
  <2>6. CASE RevokeAll(h)
    <3>1. call[h].epoch \in Nat /\ call[h].epoch <= user.epoch
      BY OneCall DEF Call, Typed
    <3>2. PICK w : w = IF call[h].epoch > user.swept THEN call[h].epoch ELSE user.swept
      OBVIOUS
    <3>3. user' = [user EXCEPT !.swept = w]
      BY <2>6, <3>2 DEF RevokeAll
    <3>4. user'.epoch = user.epoch /\ user'.swept = w /\ user'.status = user.status
      BY <1>t, <3>3 DEF User
    <3>5. w <= user.epoch
      BY <3>1, <3>2 DEF EpochsOK
    <3> QED  BY <3>4, <3>5 DEF EpochsOK
  <2>7. CASE AdminUpdateUser(h)
    <3>1. PICK e : e = user.epoch + 1
      OBVIOUS
    <3>2. /\ user.status # NoUser
          /\ \E s \in UserStatuses : \/ user' = [user EXCEPT !.status = s, !.epoch = e]
                                     \/ user' = [user EXCEPT !.status = s]
      BY <2>7, <3>1 DEF AdminUpdateUser
    <3>3. /\ user'.status # NoUser /\ user'.swept = user.swept
          /\ user'.epoch = e \/ user'.epoch = user.epoch
      BY <1>t, <3>2 DEF User, UserStatuses, NoUser
    <3>4. user'.swept <= user'.epoch
      BY <1>t, <3>1, <3>3 DEF EpochsOK
    <3> QED  BY <3>3, <3>4 DEF EpochsOK
  <2> QED  BY <1>2, <2>1, <2>2, <2>3, <2>4, <2>5, <2>6, <2>7, WritesUser
<1>3. CASE OtherStep \/ UNCHANGED vars
  <2>1. UNCHANGED user \/ \E l : user' = [user EXCEPT !.lock = l]
    BY <1>3 DEF OtherStep, Logout, LogoutAll, AdminRevokeAllForUser, AtOnce, LockLapses,
       TimePasses, vars
  <2>2. user'.epoch = user.epoch /\ user'.swept = user.swept /\ user'.status = user.status
    BY <1>t, <2>1 DEF User
  <2> QED  BY <1>1, <2>2
<1> QED  BY <1>2, <1>3, NextSteps

(* Only the sweep moves what has been swept.                               *)
LEMMA SweptStays ==
  ASSUME Typed, NEW h \in Handlers, HandlerStep(h), ~RevokeAll(h)
  PROVE  user'.swept = user.swept
<1>t. user \in User
  BY DEF Typed
<1>1. CASE UNCHANGED user
  BY <1>1
<1>2. CASE MarkVerified(h)
  BY <1>t, <1>2 DEF MarkVerified, User
<1>3. CASE CreateUser(h)
  BY <1>t, <1>3 DEF CreateUser, User
<1>4. CASE BumpFailedLogin(h) \/ ResetFailedLogin(h)
  <2>1. \E f, l : user' = [user EXCEPT !.failed = f, !.lock = l]
    BY <1>4 DEF BumpFailedLogin, ResetFailedLogin
  <2> QED  BY <1>t, <2>1 DEF User
<1>5. CASE UpdatePasswordHash(h)
  BY <1>t, <1>5 DEF UpdatePasswordHash, User
<1>6. CASE AdminUpdateUser(h)
  <2>1. \/ \E s, e : user' = [user EXCEPT !.status = s, !.epoch = e]
        \/ \E s : user' = [user EXCEPT !.status = s]
    BY <1>6 DEF AdminUpdateUser
  <2> QED  BY <1>t, <2>1 DEF User
<1> QED  BY <1>1, <1>2, <1>3, <1>4, <1>5, <1>6, WritesUser

(* A sign-in that begins knows the latest change.                          *)
LEMMA BeginsInTime ==
  ASSUME Typed, EpochsOK, NEW h \in Handlers, Begin(h), SignsIn(call'[h])
  PROVE  user' = user /\ ~(call'[h].epoch < user.swept)
<1>t. user.epoch \in Nat /\ user.swept \in Nat /\ user.swept <= user.epoch
  BY UserCounts DEF Typed, EpochsOK
<1>1. ASSUME NEW c, Start(h, c)
      PROVE  call'[h] = c
  BY <1>1, Starts DEF Typed
<1>2. Login(h) \/ VerifyPhoneAuthOtp(h) \/ Signup(h)
  BY Openings DEF SignsIn
<1>3. CASE Login(h)
  BY <1>3, <1>t, LoginCalls DEF Login, SignsIn
<1>4. CASE VerifyPhoneAuthOtp(h)
  <2>1. call'[h].epoch = user.epoch
    BY <1>1, <1>4 DEF VerifyPhoneAuthOtp, Idle
  <2> QED  BY <1>4, <1>t, <2>1 DEF VerifyPhoneAuthOtp
<1>5. CASE Signup(h)
  <2>1. call'[h].epoch = 0
    BY <1>1, <1>5 DEF Signup, Idle
  <2>2. user.swept = 0
    BY <1>5, <1>t DEF Signup, EpochsOK
  <2> QED  BY <1>5, <2>1, <2>2 DEF Signup
<1> QED  BY <1>2, <1>3, <1>4, <1>5

LEMMA NobodyIsLateAnew ==
  ASSUME Typed, EpochsOK, NEW h \in Handlers, HandlerStep(h), ~RevokeAll(h)
  PROVE  Late' \subseteq Late
<1>1. user'.swept = user.swept
  BY SweptStays
<1>2. /\ \A g \in Handlers \ {h} : call'[g] = call[g]
      /\ Follows(call[h], call'[h])
  BY HandlerKeeps, OneTurn DEF Kept, Typed
<1>3. ASSUME h \in Late'
      PROVE  h \in Late
  <2>1. SignsIn(call'[h]) /\ call'[h].epoch < user.swept
    BY <1>1, <1>3 DEF Late
  <2>2. CASE call[h].at = "idle"
    <3>1. ~Crash(h)
      BY <2>1, Crashes DEF Crash, Typed, SignsIn, SignIns
    <3>2. Begin(h)
      BY <2>2, <3>1, FromIdle DEF Typed
    <3> QED  BY <2>1, <3>2, BeginsInTime
  <2>3. CASE SignsIn(call[h]) /\ call'[h].epoch = call[h].epoch
    BY <2>1, <2>3 DEF Late
  <2> QED  BY <1>2, <2>1, <2>2, <2>3 DEF Follows
<1> QED  BY <1>1, <1>2, <1>3 DEF Late

LEMMA Finite ==
  ASSUME Typed
  PROVE  /\ IsFiniteSet(DOMAIN sessions) /\ IsFiniteSet(Stales)
         /\ Cardinality(Stales) \in Nat /\ Cardinality(Late) \in Nat
         /\ Cardinality(Handlers) \in Nat
<1>1. DOMAIN sessions = 1..Len(sessions) /\ Len(sessions) \in Nat
  BY Lengths DEF Typed
<1>2. IsFiniteSet(DOMAIN sessions)
  BY <1>1, FS_Interval
<1>3. IsFiniteSet(Stales) /\ Cardinality(Stales) \in Nat
  BY <1>2, FS_Subset, FS_CardinalityType DEF Stales
<1>4. Late \in SUBSET Handlers
  BY DEF Late
<1> QED  BY <1>2, <1>3, <1>4, HandlerSets

LEMMA SpareShrinks ==
  ASSUME Typed, Typed', SpareOK, Stales' \subseteq Stales, Late' \subseteq Late
  PROVE  SpareOK'
<1>1. Late \in SUBSET Handlers
  BY DEF Late
<1>2. Cardinality(Late') <= Cardinality(Late) /\ Cardinality(Late') \in Nat
  BY <1>1, SmallerSet
<1>3. Cardinality(Stales') <= Cardinality(Stales) /\ Cardinality(Stales') \in Nat
  BY Finite, FS_Subset, FS_CardinalityType
<1>4. /\ Cardinality(Stales) \in Nat /\ Cardinality(Late) \in Nat
      /\ Cardinality(Handlers) \in Nat
  BY Finite
<1> QED  BY <1>2, <1>3, <1>4 DEF SpareOK

LEMMA NoNewStales ==
  ASSUME Typed, SessionsKept, Len(sessions') = Len(sessions), user'.swept = user.swept
  PROVE  Stales' \subseteq Stales
<1>1. DOMAIN sessions' = DOMAIN sessions
  BY Lengths DEF Typed, SessionsKept
<1> QED  BY <1>1 DEF Stales, SessionsKept

LEMMA SpareKept ==
  ASSUME Typed, Typed', EpochsOK, SpareOK, [Next]_vars
  PROVE  SpareOK'
<1>1. CASE \E h \in Handlers : HandlerStep(h)
  <2>1. PICK h \in Handlers : HandlerStep(h)
    BY <1>1
  <2>2. SessionsKept /\ \A g \in Handlers \ {h} : call'[g] = call[g]
    BY <2>1, HandlerKeeps, OneTurn DEF Kept, Typed
  <2>3. CASE RevokeAll(h)
    <3>1. \A s \in DOMAIN sessions' : sessions'[s].status = "REVOKED"
      BY <2>3, AllSessionsRevoked DEF RevokeAll, Typed
    <3>2. Stales' = {}
      BY <3>1 DEF Stales
    <3>3. h \notin Late'
      BY <2>3, Crashes DEF RevokeAll, Typed, Late, SignsIn, SignIns
    <3>4. Late' \in SUBSET Handlers
      BY DEF Late
    <3>5. Late' \in SUBSET (Handlers \ {h}) /\ Handlers \ {h} \in SUBSET Handlers
          /\ Handlers \in SUBSET Handlers
      BY <3>3, <3>4
    <3>6. /\ Cardinality(Late') \in Nat /\ Cardinality(Handlers) \in Nat
          /\ Cardinality(Late') <= Cardinality(Handlers \ {h})
          /\ Cardinality(Handlers) = Cardinality(Handlers \ {h}) + 1
          /\ Cardinality(Handlers \ {h}) \in Nat
      BY <3>5, SmallerSet, CountWithout
    <3>7. Cardinality(Stales') = 0
      BY <3>2, FS_EmptySet
    <3> QED  BY <3>6, <3>7 DEF SpareOK
  <2>4. CASE OpenSession(h)
    <3>1. call[h] \in Call /\ Programs(call[h]) /\ call[h].at = "openSession"
      BY <2>4, OneCall DEF OpenSession, At, Typed
    <3>2. call[h].op \in SignIns /\ call[h].epoch \in Nat
      BY <3>1 DEF Programs, Call, Ops, SignIns
    <3>3. /\ Len(sessions') = Len(sessions) + 1
          /\ \A s \in DOMAIN sessions : sessions'[s] = sessions[s]
          /\ sessions'[Len(sessions) + 1] = [status |-> "ACTIVE", epoch |-> call[h].epoch]
      BY <2>4, <3>2, SessionCreated DEF OpenSession, Typed
    <3>4. user' = user /\ ~RevokeAll(h)
      BY <2>4, <3>1 DEF OpenSession, RevokeAll, At
    <3>5. DOMAIN sessions' = DOMAIN sessions \cup {Len(sessions) + 1}
      BY <3>3, Lengths DEF Typed, SessionsKept
    <3>6. Late' \subseteq Late
      BY <2>1, <3>4, NobodyIsLateAnew
    <3>7. h \notin Late'
      <4>1. PICK d : d = [call[h] EXCEPT !.at = "issuePair", !.session = Len(sessions) + 1]
        OBVIOUS
      <4>2. call' = [call EXCEPT ![h] = d] /\ d.at = "issuePair"
        BY <2>4, <3>1, <4>1 DEF OpenSession, Call
      <4>3. call'[h].at = "issuePair"
        BY <4>2 DEF Typed, CallsOK
      <4> QED  BY <4>3 DEF Late, SignsIn
    <3>8. CASE call[h].epoch < user.swept
      <4>1. h \in Late
        BY <3>1, <3>2, <3>8 DEF Late, SignsIn
      <4>2. Late \in SUBSET Handlers /\ Late \ {h} \in SUBSET Handlers
            /\ Late' \in SUBSET (Late \ {h})
        BY <3>6, <3>7 DEF Late
      <4>3. /\ Cardinality(Late) = Cardinality(Late \ {h}) + 1
            /\ Cardinality(Late') <= Cardinality(Late \ {h})
            /\ Cardinality(Late \ {h}) \in Nat /\ Cardinality(Late') \in Nat
        BY <4>1, <4>2, CountWithout, SmallerSet
      <4>4. Stales' \subseteq Stales \cup {Len(sessions) + 1}
        BY <3>3, <3>4, <3>5 DEF Stales
      <4>5. /\ IsFiniteSet(Stales \cup {Len(sessions) + 1})
            /\ Cardinality(Stales \cup {Len(sessions) + 1}) <= Cardinality(Stales) + 1
        <5>1. PICK n : n = Len(sessions) + 1
          OBVIOUS
        <5>2. IsFiniteSet(Stales) /\ Cardinality(Stales) \in Nat
          BY Finite
        <5>3. /\ IsFiniteSet(Stales \cup {n})
              /\ \/ Cardinality(Stales \cup {n}) = Cardinality(Stales)
                 \/ Cardinality(Stales \cup {n}) = Cardinality(Stales) + 1
          BY <5>2, FS_AddElement
        <5>4. Cardinality(Stales \cup {n}) <= Cardinality(Stales) + 1
          BY <5>2, <5>3
        <5> QED  BY <5>1, <5>3, <5>4
      <4>6. /\ Cardinality(Stales') <= Cardinality(Stales \cup {Len(sessions) + 1})
            /\ Cardinality(Stales \cup {Len(sessions) + 1}) \in Nat
            /\ Cardinality(Stales') \in Nat
        BY <4>4, <4>5, FS_Subset, FS_CardinalityType
      <4>7. Cardinality(Stales) \in Nat /\ Cardinality(Handlers) \in Nat
        BY Finite
      <4> QED  BY <4>3, <4>5, <4>6, <4>7 DEF SpareOK
    <3>9. CASE ~(call[h].epoch < user.swept)
      <4>1. Stales' \subseteq Stales
        BY <3>3, <3>4, <3>5, <3>9 DEF Stales
      <4> QED  BY <3>6, <4>1, SpareShrinks
    <3> QED  BY <3>8, <3>9
  <2>5. CASE ~RevokeAll(h) /\ ~OpenSession(h)
    <3>1. Late' \subseteq Late /\ user'.swept = user.swept
      BY <2>1, <2>5, NobodyIsLateAnew, SweptStays
    <3>2. Len(sessions') = Len(sessions)
      <4>1. CASE RevokeSession(h)
        <5>1. call[h].session \in DOMAIN sessions
          BY <4>1, TypedIsTypeOK DEF TypeOK, RevokeSession, At
        <5> QED  BY <4>1, <5>1, SessionRevoked DEF RevokeSession, Typed
      <4> QED  BY <2>1, <2>5, <4>1, WritesSessions
    <3>3. Stales' \subseteq Stales
      BY <2>2, <3>1, <3>2, NoNewStales
    <3> QED  BY <3>1, <3>3, SpareShrinks
  <2> QED  BY <2>3, <2>4, <2>5
<1>2. CASE OtherStep \/ UNCHANGED vars
  <2>1. SessionsKept /\ UNCHANGED call
    BY <1>2, OthersKeep
  <2>2. user'.swept = user.swept
    <3>1. UNCHANGED user \/ \E l : user' = [user EXCEPT !.lock = l]
      BY <1>2 DEF OtherStep, Logout, LogoutAll, AdminRevokeAllForUser, AtOnce, LockLapses,
         TimePasses, vars
    <3> QED  BY <3>1 DEF User, Typed
  <2>3. Len(sessions') = Len(sessions)
    BY <1>2, SessionRevoked, AllSessionsRevoked
       DEF OtherStep, Logout, LogoutAll, AdminRevokeAllForUser, LockLapses,
           TimePasses, rows, vars, Typed
  <2>4. Late' \subseteq Late
    BY <2>1, <2>2 DEF Late
  <2>5. Stales' \subseteq Stales
    BY <2>1, <2>2, <2>3, NoNewStales
  <2> QED  BY <2>4, <2>5, SpareShrinks
<1> QED  BY <1>1, <1>2, NextSteps

(* A change of password or a suspension spares only the sessions of        *)
(* sign-ins that had read the user before it and opened theirs after its   *)
(* revokeAllForUser; there are fewer of them than handlers.                *)
THEOREM SweepsSpareOnlySignIns == Spec => []SweepSparesOnlySignInsUnderWay
<1> DEFINE Inv == Typed /\ EpochsOK /\ SpareOK
<1>1. Init => Inv
  <2> SUFFICES ASSUME Init PROVE EpochsOK /\ SpareOK
    BY InitTyped
  <2>1. user.epoch = 0 /\ user.swept = 0
    BY DEF Init
  <2>2. Late = {}
    BY IdleFields DEF Init, Late, SignsIn, SignIns
  <2>3. Stales = {}
    <3>1. RowsTyped
      BY InitTyped DEF Typed
    <3>2. ASSUME NEW s \in DOMAIN sessions
          PROVE  sessions[s].epoch \in Nat
      BY <3>1, SessionIn DEF Session
    <3> QED  BY <2>1, <3>2 DEF Stales
  <2>4. Cardinality(Handlers) # 0 /\ Cardinality(Handlers) \in Nat
    <3>1. IsFiniteSet(Handlers) /\ Handlers # {}
      BY HandlersAssumption
    <3> QED  BY <3>1, FS_CardinalityType, FS_EmptySet
  <2>5. Cardinality(Late) = 0 /\ Cardinality(Stales) = 0
    BY <2>2, <2>3, FS_EmptySet
  <2> QED  BY <2>1, <2>4, <2>5 DEF EpochsOK, SpareOK
<1>2. Inv /\ [Next]_vars => Inv'
  BY TypedKept, EpochsKept, SpareKept
<1>3. Inv => SweepSparesOnlySignInsUnderWay
  <2> SUFFICES ASSUME Inv PROVE Cardinality(Stales) < Cardinality(Handlers)
    BY DEF SweepSparesOnlySignInsUnderWay, Stales
  <2> QED  BY Finite DEF SpareOK
<1> QED  BY <1>1, <1>2, <1>3, PTL DEF Spec

-----------------------------------------------------------------------------
(* The tickets that codes and refresh tokens are.                          *)
CodeTickets == [i \in DOMAIN codes |-> [open |-> Live(i), uses |-> codes[i].uses]]
CodesHeld ==
  [h \in Handlers |->
     [ticket |-> IF At(h, "consume") THEN call[h].n ELSE 0, spent |-> FALSE]]
TokenTickets == [i \in DOMAIN tokens |-> [open |-> Usable(i), uses |-> tokens[i].uses]]
TokensHeld ==
  [h \in Handlers |->
     [ticket |-> IF call[h].op = "refresh" /\ call[h].at \in {"issuePair", "markRotated"}
                 THEN call[h].n ELSE 0,
      spent |-> At(h, "markRotated")]]

CodesMove == Moves(CodeTickets, CodesHeld, faults, CodeTickets', CodesHeld', faults')
TokensMove == Moves(TokenTickets, TokensHeld, faults, TokenTickets', TokensHeld', faults')

(* Moves are the steps of Tickets.tla.                                     *)
LEMMA CodesStep ==
  ASSUME CodesHeld \in [Handlers -> Holding], CodesMove
  PROVE  [Codes!Next]_Codes!vars
<1> DEFINE t == CodeTickets
           hd == CodesHeld
<1>1. CASE Issues(t, hd, faults, t', hd', faults')
  BY <1>1 DEF Issues, Unused, CodeTickets, CodesHeld, Codes!Next, Codes!Issue
<1>2. CASE Withdraws(t, hd, faults, t', hd', faults')
  BY <1>2 DEF Withdraws, Shut, CodeTickets, CodesHeld, Codes!Next, Codes!Withdraw, Codes!Closed
<1>3. CASE Stays(t, hd, faults, t', hd', faults')
  BY <1>3 DEF Stays, CodeTickets, CodesHeld, Codes!vars
<1>4. ASSUME NEW h \in Handlers, Takes(h, t, hd, faults, t', hd', faults')
      PROVE  Codes!Next
  BY <1>4 DEF Takes, Nothing, CodeTickets, CodesHeld, Codes!Next, Codes!Take, Codes!Free
<1>5. ASSUME NEW h \in Handlers, RedeemsAndCloses(h, t, hd, faults, t', hd', faults')
      PROVE  Codes!Next
  BY <1>5 DEF RedeemsAndCloses, Nothing, Shut, Drawn, CodeTickets, CodesHeld, Codes!Next,
     Codes!RedeemAndClose, Codes!Release, Codes!Free, Codes!Closed, Codes!Used
<1>6. ASSUME NEW h \in Handlers, Closes(h, t, hd, faults, t', hd', faults')
      PROVE  Codes!Next
  BY <1>6 DEF Closes, CodesHeld
<1>7. ASSUME NEW h \in Handlers, RedeemsForSuccessor(h, t, hd, faults, t', hd', faults')
      PROVE  Codes!Next
  BY <1>7 DEF RedeemsForSuccessor, CodesHeld
<1>8. ASSUME NEW h \in Handlers, Loses(h, t, hd, faults, t', hd', faults')
      PROVE  Codes!Next
  BY <1>8 DEF Loses, Nothing, CodeTickets, CodesHeld, Codes!Next, Codes!Lose, Codes!Release,
     Codes!Free
<1> QED  BY <1>1, <1>2, <1>3, <1>4, <1>5, <1>6, <1>7, <1>8 DEF CodesMove, Moves

LEMMA TokensStep ==
  ASSUME TokensHeld \in [Handlers -> Holding], TokensMove
  PROVE  [Tokens!Next]_Tokens!vars
<1> DEFINE t == TokenTickets
           hd == TokensHeld
<1>1. CASE Issues(t, hd, faults, t', hd', faults')
  BY <1>1 DEF Issues, Unused, TokenTickets, TokensHeld, Tokens!Next, Tokens!Issue
<1>2. CASE Withdraws(t, hd, faults, t', hd', faults')
  BY <1>2 DEF Withdraws, Shut, TokenTickets, TokensHeld, Tokens!Next, Tokens!Withdraw,
     Tokens!Closed
<1>3. CASE Stays(t, hd, faults, t', hd', faults')
  BY <1>3 DEF Stays, TokenTickets, TokensHeld, Tokens!vars
<1>4. ASSUME NEW h \in Handlers, Takes(h, t, hd, faults, t', hd', faults')
      PROVE  Tokens!Next
  BY <1>4 DEF Takes, Nothing, TokenTickets, TokensHeld, Tokens!Next, Tokens!Take, Tokens!Free
<1>5. ASSUME NEW h \in Handlers, RedeemsAndCloses(h, t, hd, faults, t', hd', faults')
      PROVE  Tokens!Next
  BY <1>5 DEF RedeemsAndCloses, Nothing, Shut, Drawn, TokenTickets, TokensHeld, Tokens!Next,
     Tokens!RedeemAndClose, Tokens!Release, Tokens!Free, Tokens!Closed, Tokens!Used
<1>6. ASSUME NEW h \in Handlers, Closes(h, t, hd, faults, t', hd', faults')
      PROVE  Tokens!Next
  BY <1>6 DEF Closes, Nothing, Shut, TokenTickets, TokensHeld, Tokens!Next, Tokens!Close,
     Tokens!Release, Tokens!Free, Tokens!Closed
<1>7. ASSUME NEW h \in Handlers, RedeemsForSuccessor(h, t, hd, faults, t', hd', faults')
      PROVE  Tokens!Next
  <2>1. hd' = [hd EXCEPT ![h].spent = TRUE]
    <3>1. hd[h] \in Holding
      OBVIOUS
    <3>2. PICK c, d : c = [hd[h] EXCEPT !.spent = TRUE]
                      /\ d = [ticket |-> hd[h].ticket, spent |-> TRUE]
      OBVIOUS
    <3>3. c = d
      <4>1. PICK r \in Holding, b \in BOOLEAN : r = hd[h] /\ b = TRUE
        BY <3>1
      <4>2. c = [r EXCEPT !.spent = b] /\ d = [ticket |-> r.ticket, spent |-> b]
        BY <3>2, <4>1
      <4> QED  BY <4>2 DEF Holding
    <3>4. hd' = [hd EXCEPT ![h] = d]
      BY <1>7, <3>2 DEF RedeemsForSuccessor
    <3> QED  BY <3>2, <3>3, <3>4
  <2>2. Tokens!RedeemForSuccessor(h)
    BY <1>7, <2>1 DEF RedeemsForSuccessor, Uses, Drawn, Unused, TokenTickets, TokensHeld,
       Tokens!RedeemForSuccessor, Tokens!Used
  <2> QED  BY <2>2 DEF Tokens!Next
<1>8. ASSUME NEW h \in Handlers, Loses(h, t, hd, faults, t', hd', faults')
      PROVE  Tokens!Next
  BY <1>8 DEF Loses, Nothing, TokenTickets, TokensHeld, Tokens!Next, Tokens!Lose,
     Tokens!Release, Tokens!Free
<1> QED  BY <1>1, <1>2, <1>3, <1>4, <1>5, <1>6, <1>7, <1>8 DEF TokensMove, Moves

(* The rows are tickets, and the handlers hold what there is.              *)
LEMMA CodeTicketsTyped ==
  ASSUME Typed
  PROVE  /\ TicketsTyped(CodeTickets, CodesHeld, faults)
         /\ CodesHeld \in [Handlers -> Holding]
         /\ DOMAIN CodeTickets = DOMAIN codes /\ Len(CodeTickets) = Len(codes)
         /\ CodeTickets \in Seq(TicketRow)
<1>1. DOMAIN codes = 1..Len(codes) /\ Len(codes) \in Nat
  BY Lengths DEF Typed
<1>2. ASSUME NEW i \in DOMAIN codes
      PROVE  [open |-> Live(i), uses |-> codes[i].uses] \in TicketRow
  <2>1. codes[i] \in Code
    BY CodeIn DEF Typed
  <2> QED  BY <2>1 DEF TicketRow, Live, Code
<1>3. /\ CodeTickets \in Seq(TicketRow) /\ Len(CodeTickets) = Len(codes)
      /\ DOMAIN CodeTickets = DOMAIN codes
  BY <1>1, <1>2, SeqOfMap DEF CodeTickets
<1>4. ASSUME NEW h \in Handlers
      PROVE  /\ CodesHeld[h].ticket \in 0..Len(codes) /\ CodesHeld[h].ticket \in Nat
             /\ CodesHeld[h].spent = FALSE
  <2>1. At(h, "consume") => call[h].n \in 1..Len(codes)
    BY OneCall DEF Typed, Holds, At
  <2>2. \A x \in 1..Len(codes) : x \in 0..Len(codes) /\ x \in Nat
    BY <1>1
  <2>3. 0 \in 0..Len(codes)
    BY <1>1
  <2> QED  BY <2>1, <2>2, <2>3 DEF CodesHeld
<1>5. CodesHeld \in [Handlers -> Holding]
  BY <1>4 DEF CodesHeld, Holding
<1>6. faults \in Nat
  BY AuthAssumption DEF Typed
<1> QED  BY <1>3, <1>4, <1>5, <1>6 DEF TicketsTyped

LEMMA TokenTicketsTyped ==
  ASSUME Typed
  PROVE  /\ TicketsTyped(TokenTickets, TokensHeld, faults)
         /\ TokensHeld \in [Handlers -> Holding]
         /\ DOMAIN TokenTickets = DOMAIN tokens /\ Len(TokenTickets) = Len(tokens)
         /\ TokenTickets \in Seq(TicketRow)
<1>1. DOMAIN tokens = 1..Len(tokens) /\ Len(tokens) \in Nat
  BY Lengths DEF Typed
<1>2. ASSUME NEW i \in DOMAIN tokens
      PROVE  [open |-> Usable(i), uses |-> tokens[i].uses] \in TicketRow
  <2>1. tokens[i] \in Token
    BY TokenIn DEF Typed
  <2> QED  BY <2>1 DEF TicketRow, Usable, Token
<1>3. /\ TokenTickets \in Seq(TicketRow) /\ Len(TokenTickets) = Len(tokens)
      /\ DOMAIN TokenTickets = DOMAIN tokens
  BY <1>1, <1>2, SeqOfMap DEF TokenTickets
<1>4. ASSUME NEW h \in Handlers
      PROVE  /\ TokensHeld[h].ticket \in 0..Len(tokens) /\ TokensHeld[h].ticket \in Nat
             /\ TokensHeld[h].spent \in BOOLEAN
  <2>1. call[h].op = "refresh" => call[h].n \in 1..Len(tokens)
    BY OneCall DEF Typed, Holds
  <2>2. \A x \in 1..Len(tokens) : x \in 0..Len(tokens) /\ x \in Nat
    BY <1>1
  <2>3. 0 \in 0..Len(tokens)
    BY <1>1
  <2>4. TokensHeld[h].ticket \in 0..Len(tokens) /\ TokensHeld[h].ticket \in Nat
    BY <2>1, <2>2, <2>3 DEF TokensHeld
  <2>5. TokensHeld[h].spent \in BOOLEAN
    BY DEF TokensHeld, At
  <2> QED  BY <2>4, <2>5
<1>5. TokensHeld \in [Handlers -> Holding]
  BY <1>4 DEF TokensHeld, Holding
<1>6. faults \in Nat
  BY AuthAssumption DEF Typed
<1> QED  BY <1>3, <1>4, <1>5, <1>6 DEF TicketsTyped

(* The same after a step.                                                  *)
TicketsFit ==
  /\ TicketsTyped(CodeTickets, CodesHeld, faults)
  /\ CodeTickets \in Seq(TicketRow)
  /\ DOMAIN CodeTickets = DOMAIN codes /\ Len(CodeTickets) = Len(codes)
  /\ TicketsTyped(TokenTickets, TokensHeld, faults)
  /\ TokenTickets \in Seq(TicketRow)
  /\ DOMAIN TokenTickets = DOMAIN tokens /\ Len(TokenTickets) = Len(tokens)

LEMMA TicketsFitNext == Typed' => TicketsFit'
<1>1. Typed => TicketsFit
  BY CodeTicketsTyped, TokenTicketsTyped DEF TicketsFit
<1> QED  BY <1>1, PTL

(* What a handler does at the steps where it holds a ticket.               *)
LEMMA StepAt ==
  ASSUME CallsOK, NEW h \in Handlers, HandlerStep(h)
  PROVE  /\ call[h].at = "find" => FindCode(h) \/ Crash(h)
         /\ call[h].at = "consume" => Consume(h) \/ Crash(h)
         /\ call[h].at = "issuePair" => IssuePair(h) \/ Crash(h)
         /\ call[h].at = "markRotated" => MarkRotated(h) \/ Crash(h)
<1>1. Begin(h) => call[h].at = "idle"
  BY BeginsIdle
<1>2. CodeStep(h) =>
        \/ FindCode(h) \/ Consume(h)
        \/ call[h].at \in {"throttle", "invalidate", "createCode", "decrement", "markVerified"}
  BY DEF CodeStep, Throttle, Invalidate, CreateCode, WrongCode, MarkVerified, At
<1>3. SessionStep(h) =>
        \/ IssuePair(h) \/ MarkRotated(h)
        \/ call[h].at \in {"createUser", "bump", "resetFailed", "openSession", "markReplay",
                           "revokeSession", "revokeTokens", "setPassword", "revokeAll"}
  BY DEF SessionStep, CreateUser, BumpFailedLogin, ResetFailedLogin, OpenSession, MarkReplay,
     RevokeSession, RevokeTokens, UpdatePasswordHash, RevokeAll, At
<1>4. /\ FindCode(h) => call[h].at = "find"
      /\ Consume(h) => call[h].at = "consume"
      /\ IssuePair(h) => call[h].at = "issuePair"
      /\ MarkRotated(h) => call[h].at = "markRotated"
  BY DEF FindCode, Consume, IssuePair, MarkRotated, At
<1> QED  BY <1>1, <1>2, <1>3, <1>4 DEF HandlerStep

LEMMA FaultsStay ==
  ASSUME NEW h \in Handlers, HandlerStep(h), ~Crash(h)
  PROVE  UNCHANGED faults
<1>1. CASE Begin(h)
  BY <1>1 DEF Begin, RequestOtp, ForgotPassword, SendPhoneAuthOtp, Issuing, VerifyOtp,
     VerifyEmail, ResetPassword, VerifyPhoneAuthOtp, Signup, Login, Refresh, RevokeMine,
     ChangePassword, AdminUpdateUser
<1>2. CASE CodeStep(h)
  BY <1>2 DEF CodeStep, Throttle, Invalidate, CreateCode, FindCode, WrongCode, Consume,
     MarkVerified
<1>3. CASE SessionStep(h)
  BY <1>3 DEF SessionStep, CreateUser, BumpFailedLogin, ResetFailedLogin, OpenSession,
     IssuePair, MarkRotated, MarkReplay, RevokeSession, RevokeTokens, UpdatePasswordHash,
     RevokeAll
<1> QED  BY <1>1, <1>2, <1>3 DEF HandlerStep

-----------------------------------------------------------------------------
(* Codes.  A step that adds none and verifies none withdraws those that    *)
(* are no longer valid, if any.                                            *)
LEMMA OneRow ==
  ASSUME NEW r \in TicketRow, NEW o \in BOOLEAN
  PROVE  /\ ~o => Shut(r) = [open |-> o, uses |-> r.uses]
         /\ r.open = o => r = [open |-> o, uses |-> r.uses]
         /\ ~o => Shut(Drawn(r)) = [open |-> o, uses |-> r.uses + 1]
<1>1. CASE o = FALSE
  BY <1>1, OneTicket DEF TicketRow
<1>2. CASE o = TRUE
  BY <1>2 DEF TicketRow
<1> QED  BY <1>1, <1>2

LEMMA CodesWithdrawn ==
  ASSUME Typed, Typed', CodesKept, Len(codes') = Len(codes),
         \A i \in DOMAIN codes : codes'[i].uses = codes[i].uses
  PROVE  \E S \in SUBSET DOMAIN CodeTickets :
           CodeTickets' = [i \in DOMAIN CodeTickets |->
                             IF i \in S THEN Shut(CodeTickets[i]) ELSE CodeTickets[i]]
<1> DEFINE S == {i \in DOMAIN codes : ~Live(i)'}
<1>1. DOMAIN CodeTickets = DOMAIN codes /\ DOMAIN codes' = DOMAIN codes
  BY CodeTicketsTyped, Lengths DEF Typed, CodesKept
<1>2. ASSUME NEW i \in DOMAIN codes
      PROVE  [open |-> Live(i)', uses |-> codes'[i].uses] =
               IF i \in S THEN Shut(CodeTickets[i]) ELSE CodeTickets[i]
  <2>1. CodeTickets[i] = [open |-> Live(i), uses |-> codes[i].uses]
    BY DEF CodeTickets
  <2>2. CodeTickets[i] \in TicketRow
    BY <1>1, CodeTicketsTyped, TicketRows
  <2>3. Live(i) \in BOOLEAN /\ Live(i)' \in BOOLEAN /\ (Live(i)' => Live(i))
    BY DEF Live, CodesKept
  <2>4. CASE Live(i)'
    <3>1. i \notin S
      BY <2>4
    <3>2. Live(i)' = Live(i)
      BY <2>3, <2>4
    <3> QED  BY <2>1, <3>1, <3>2
  <2>5. CASE ~Live(i)'
    <3>1. i \in S /\ CodeTickets[i].uses = codes'[i].uses
      BY <2>1, <2>5
    <3>2. Shut(CodeTickets[i]) = [open |-> Live(i)', uses |-> CodeTickets[i].uses]
      BY <2>2, <2>3, <2>5, OneRow
    <3> QED  BY <3>1, <3>2
  <2> QED  BY <2>4, <2>5
<1>3. CodeTickets' = [i \in DOMAIN codes |->
                        IF i \in S THEN Shut(CodeTickets[i]) ELSE CodeTickets[i]]
  <2> HIDE DEF S
  <2> QED  BY <1>1, <1>2 DEF CodeTickets
<1>4. S \in SUBSET DOMAIN CodeTickets
  BY <1>1
<1> HIDE DEF S
<1> QED  BY <1>1, <1>3, <1>4

LEMMA CodesHeldStay ==
  ASSUME NEW h \in Handlers, \A g \in Handlers \ {h} : call'[g] = call[g],
         ~At(h, "consume"), ~At(h, "consume")'
  PROVE  CodesHeld' = CodesHeld
BY DEF CodesHeld, At

LEMMA CodesHeldChange ==
  ASSUME NEW h \in Handlers, \A g \in Handlers \ {h} : call'[g] = call[g],
         NEW n, n = IF At(h, "consume")' THEN call'[h].n ELSE 0
  PROVE  CodesHeld' = [CodesHeld EXCEPT ![h] = [ticket |-> n, spent |-> FALSE]]
BY DEF CodesHeld, At

LEMMA InvalidateUses ==
  ASSUME Typed, NEW p, NEW ch, InvalidateActive(p, ch)
  PROVE  \A i \in DOMAIN codes : codes'[i].uses = codes[i].uses
<1> SUFFICES ASSUME NEW i \in DOMAIN codes
             PROVE  codes'[i].uses = codes[i].uses
  OBVIOUS
<1>1. PICK r \in Code : r = codes[i]
  BY CodeIn DEF Typed
<1>2. codes'[i] = codes[i] \/ codes'[i] = [r EXCEPT !.consumed = TRUE]
  BY <1>1 DEF InvalidateActive
<1> QED  BY <1>1, <1>2 DEF Code

LEMMA OtherUses ==
  ASSUME Typed,
         \/ \E k \in DOMAIN codes : DecrementAttempts(k)
         \/ CodeExpires \/ MinutePasses
  PROVE  \A i \in DOMAIN codes : codes'[i].uses = codes[i].uses
<1> SUFFICES ASSUME NEW i \in DOMAIN codes
             PROVE  codes'[i].uses = codes[i].uses
  OBVIOUS
<1>1. codes[i] \in Code
  BY CodeIn DEF Typed
<1>2. CASE \E k \in DOMAIN codes : DecrementAttempts(k)
  <2>1. PICK k \in DOMAIN codes : DecrementAttempts(k)
    BY <1>2
  <2>2. PICK a, c : a = codes[k].attempts - 1 /\ c = [codes[k] EXCEPT !.attempts = a]
    OBVIOUS
  <2>3. codes' = [codes EXCEPT ![k] = c]
    BY <2>1, <2>2 DEF DecrementAttempts
  <2>4. codes[k] \in Code
    BY CodeIn DEF Typed
  <2>5. c.uses = codes[k].uses
    BY <2>2, <2>4 DEF Code
  <2> QED  BY <2>3, <2>5
<1>3. CASE CodeExpires
  <2>1. PICK k \in DOMAIN codes : codes' = [codes EXCEPT ![k].expired = TRUE, ![k].fresh = FALSE]
    BY <1>3 DEF CodeExpires
  <2>2. PICK c : c = [codes[k] EXCEPT !.expired = TRUE, !.fresh = FALSE]
    OBVIOUS
  <2>3. codes' = [codes EXCEPT ![k] = c]
    BY <2>1, <2>2
  <2>4. codes[k] \in Code
    BY CodeIn DEF Typed
  <2>5. c.uses = codes[k].uses
    BY <2>2, <2>4 DEF Code
  <2> QED  BY <2>3, <2>5
<1>4. CASE MinutePasses
  <2>1. PICK k \in DOMAIN codes : codes' = [codes EXCEPT ![k].fresh = FALSE]
    BY <1>4 DEF MinutePasses
  <2>2. PICK c : c = [codes[k] EXCEPT !.fresh = FALSE]
    OBVIOUS
  <2>3. codes' = [codes EXCEPT ![k] = c]
    BY <2>1, <2>2
  <2>4. codes[k] \in Code
    BY CodeIn DEF Typed
  <2>5. c.uses = codes[k].uses
    BY <2>2, <2>4 DEF Code
  <2> QED  BY <2>3, <2>5
<1> QED  BY <1>2, <1>3, <1>4

LEMMA ConsumeTicket ==
  ASSUME Typed, Typed', NEW h \in Handlers, Consume(h),
         \A g \in Handlers \ {h} : call'[g] = call[g], ~At(h, "consume")'
  PROVE  CodesMove
<1>1. /\ call[h].n \in DOMAIN codes /\ ConsumeRow(call[h].n) /\ faults' = faults
      /\ At(h, "consume")
  BY TypedIsTypeOK DEF TypeOK, Consume, At
<1>2. PICK n \in DOMAIN codes : n = call[h].n
  BY <1>1
<1>3. codes[n] \in Code /\ DOMAIN codes = 1..Len(codes)
  BY CodeIn, Lengths DEF Typed
<1>4. PICK u \in Nat : u = codes[n].uses + 1
  BY <1>3 DEF Code
<1>5. PICK c : /\ codes' = [codes EXCEPT ![n] = c]
               /\ c.consumed /\ c.uses = codes[n].uses + 1
  <2>1. PICK d : d = [codes[n] EXCEPT !.consumed = TRUE, !.uses = u]
    OBVIOUS
  <2>2. codes' = [codes EXCEPT ![n] = d]
    BY <1>1, <1>2, <1>4, <2>1 DEF ConsumeRow
  <2>3. d.consumed /\ d.uses = u
    BY <1>3, <2>1 DEF Code
  <2> QED  BY <1>4, <2>2, <2>3
<1>6. /\ DOMAIN codes' = DOMAIN codes /\ codes'[n] = c
      /\ \A i \in DOMAIN codes \ {n} : codes'[i] = codes[i]
  BY <1>5
<1>7. DOMAIN CodeTickets = DOMAIN codes /\ CodeTickets[n] \in TicketRow
  BY CodeTicketsTyped, TicketRows
<1>8. CodeTickets' = [CodeTickets EXCEPT ![n] = Shut(Drawn(CodeTickets[n]))]
  <2>1. ~Live(n)' /\ codes'[n].uses = CodeTickets[n].uses + 1
    BY <1>5, <1>6 DEF Live, CodeTickets
  <2>2. PICK r : r = Shut(Drawn(CodeTickets[n]))
    OBVIOUS
  <2>3. Live(n)' \in BOOLEAN
    BY DEF Live
  <2>4. r = [open |-> Live(n)', uses |-> codes'[n].uses]
    BY <1>7, <2>1, <2>2, <2>3, OneRow
  <2>5. \A i \in DOMAIN codes \ {n} : Live(i)' = Live(i)
    BY <1>6 DEF Live
  <2>6. CodeTickets' = [CodeTickets EXCEPT ![n] = r]
    BY <1>6, <1>7, <2>4, <2>5 DEF CodeTickets
  <2> QED  BY <2>2, <2>6
<1>9. CodesHeld[h].ticket = n /\ CodesHeld[h].spent = FALSE /\ n # 0
  BY <1>1, <1>2, <1>3 DEF CodesHeld
<1>10. CodesHeld' = [CodesHeld EXCEPT ![h] = Nothing]
  BY CodesHeldChange DEF Nothing
<1>11. RedeemsAndCloses(h, CodeTickets, CodesHeld, faults, CodeTickets', CodesHeld', faults')
  BY <1>1, <1>8, <1>9, <1>10 DEF RedeemsAndCloses
<1> QED  BY <1>11 DEF CodesMove, Moves

LEMMA CreateTicket ==
  ASSUME Typed, Typed', NEW h \in Handlers, CreateCode(h), CodesHeld' = CodesHeld
  PROVE  CodesMove
<1>1. /\ CreateRow(call[h].purpose, call[h].channel, call[h].n) /\ faults' = faults
      /\ call[h] \in Call /\ call[h].n \in 0..Len(codes) /\ Len(codes) \in Nat
  BY OneCall, Lengths DEF CreateCode, Typed, Holds, At
<1>2. call[h].n \in Nat /\ call[h].purpose \in Purposes /\ call[h].channel \in Channels
  BY <1>1 DEF Call
<1>3. /\ CodesKept /\ Len(codes') = Len(codes) + 1
      /\ \A i \in DOMAIN codes : codes'[i] = codes[i]
      /\ codes'[Len(codes) + 1] = NewCode(call[h].purpose, call[h].channel, call[h].n)
  BY <1>1, <1>2, CreateKeeps DEF Typed
<1>4. DOMAIN codes = 1..Len(codes) /\ DOMAIN codes' = 1..(Len(codes) + 1)
  BY <1>3, Lengths DEF Typed, CodesKept
<1>5. /\ CodeTickets \in Seq(TicketRow) /\ Len(CodeTickets) = Len(codes)
      /\ CodeTickets' \in Seq(TicketRow) /\ Len(CodeTickets') = Len(codes) + 1
      /\ DOMAIN CodeTickets' = DOMAIN codes'
  <2>1. CodeTickets' \in Seq(TicketRow) /\ Len(CodeTickets') = Len(codes')
        /\ DOMAIN CodeTickets' = DOMAIN codes'
    BY TicketsFitNext DEF TicketsFit
  <2> QED  BY <1>3, <2>1, CodeTicketsTyped
<1>6. PICK k : k = Len(codes) + 1
  OBVIOUS
<1>7. CodeTickets'[k] = Unused
  <2>1. k \in DOMAIN codes'
    BY <1>1, <1>4, <1>6
  <2>2. codes'[k].consumed = FALSE /\ codes'[k].expired = FALSE /\ codes'[k].uses = 0
    BY <1>3, <1>6 DEF NewCode
  <2>3. Live(k)' = TRUE
    BY <2>2 DEF Live
  <2> QED  BY <2>1, <2>2, <2>3 DEF CodeTickets, Unused
<1>8. \A i \in DOMAIN codes : CodeTickets'[i] = CodeTickets[i]
  <2>1. \A i \in DOMAIN codes : i \in DOMAIN codes' /\ Live(i)' = Live(i)
    BY <1>1, <1>3, <1>4 DEF Live
  <2> QED  BY <1>3, <2>1 DEF CodeTickets
<1>9. CodeTickets' = Append(CodeTickets, Unused)
  <2>1. Unused \in TicketRow
    BY DEF Unused, TicketRow
  <2>2. PICK q : q = Append(CodeTickets, Unused)
    OBVIOUS
  <2>3. /\ q \in Seq(TicketRow) /\ Len(q) = Len(codes) + 1
        /\ \A i \in 1..Len(codes) : q[i] = CodeTickets[i]
        /\ q[Len(codes) + 1] = Unused
    BY <1>5, <2>1, <2>2
  <2>4. \A i \in 1..(Len(codes) + 1) : CodeTickets'[i] = q[i]
    BY <1>1, <1>4, <1>6, <1>7, <1>8, <2>3
  <2>5. /\ CodeTickets' = [i \in 1..(Len(codes) + 1) |-> CodeTickets'[i]]
        /\ q = [i \in 1..(Len(codes) + 1) |-> q[i]]
    BY <1>5, <2>3
  <2> QED  BY <2>2, <2>4, <2>5
<1>10. Issues(CodeTickets, CodesHeld, faults, CodeTickets', CodesHeld', faults')
  BY <1>1, <1>9 DEF Issues
<1> QED  BY <1>10 DEF CodesMove, Moves

LEMMA CodesQuiet ==
  ASSUME Typed, Typed', CodesKept, Len(codes') = Len(codes),
         \A i \in DOMAIN codes : codes'[i].uses = codes[i].uses,
         CodesHeld' = CodesHeld, faults' = faults
  PROVE  CodesMove
<1>1. Withdraws(CodeTickets, CodesHeld, faults, CodeTickets', CodesHeld', faults')
  BY CodesWithdrawn DEF Withdraws
<1> QED  BY <1>1 DEF CodesMove, Moves

LEMMA CrashMovesCodes ==
  ASSUME Typed, NEW h \in Handlers, Crash(h), \A g \in Handlers \ {h} : call'[g] = call[g]
  PROVE  CodesMove
<1>1. codes' = codes /\ faults' = faults + 1
  BY DEF Crash, rows
<1>2. ~At(h, "consume")'
  BY Crashes DEF Crash, Typed, At
<1>3. CodesHeld' = [CodesHeld EXCEPT ![h] = Nothing]
  BY <1>2, CodesHeldChange DEF Nothing
<1>4. CodeTickets' = CodeTickets
  BY <1>1 DEF CodeTickets, Live
<1>5. Loses(h, CodeTickets, CodesHeld, faults, CodeTickets', CodesHeld', faults')
  BY <1>1, <1>3, <1>4 DEF Loses
<1> QED  BY <1>5 DEF CodesMove, Moves

LEMMA FindMovesCodes ==
  ASSUME Typed, Typed', NEW h \in Handlers, FindCode(h),
         \A g \in Handlers \ {h} : call'[g] = call[g]
  PROVE  CodesMove
<1>1. codes' = codes /\ faults' = faults /\ At(h, "find") /\ ~At(h, "consume")
  BY DEF FindCode, rows, At
<1>2. CASE ~At(h, "consume")'
  <2>1. CodesHeld' = CodesHeld
    BY <1>1, <1>2, CodesHeldStay
  <2>2. CodesKept
    BY <1>1, CodesStay DEF Typed
  <2> QED  BY <1>1, <2>1, <2>2, CodesQuiet
<1>3. CASE At(h, "consume")'
  <2> DEFINE i == FindActive(call[h].purpose)
  <2>1. i # 0 /\ call'[h].n = i
    <3>1. ~Return(h)
      BY <1>3, Crashes DEF Typed, At
    <3>2. PICK k : k = i
      OBVIOUS
    <3>3. k # 0 /\ \E s : call' = [call EXCEPT ![h].at = s, ![h].n = k]
      BY <3>1, <3>2 DEF FindCode
    <3>4. PICK s : call' = [call EXCEPT ![h].at = s, ![h].n = k]
      BY <3>3
    <3>5. PICK d : d = [call[h] EXCEPT !.at = s, !.n = k]
      OBVIOUS
    <3>6. call' = [call EXCEPT ![h] = d]
      BY <3>4, <3>5
    <3>7. call[h] \in Call /\ call \in [Handlers -> Call]
      BY OneCall DEF Typed, CallsOK
    <3>8. call'[h] = d /\ d.n = k
      BY <3>5, <3>6, <3>7 DEF Call
    <3> QED  BY <3>2, <3>3, <3>8
  <2>2. i \in DOMAIN codes /\ Live(i)
    BY <2>1, Found DEF Typed
  <2> HIDE DEF i
  <2>3. CodesHeld' = [CodesHeld EXCEPT ![h] = [ticket |-> i, spent |-> FALSE]]
    BY <1>3, <2>1, CodesHeldChange
  <2>4. CodesHeld[h] = Nothing
    BY <1>1 DEF CodesHeld, Nothing
  <2>5. CodeTickets' = CodeTickets /\ i \in DOMAIN CodeTickets /\ CodeTickets[i].open
    BY <1>1, <2>2 DEF CodeTickets, Live
  <2>6. Takes(h, CodeTickets, CodesHeld, faults, CodeTickets', CodesHeld', faults')
    BY <1>1, <2>3, <2>4, <2>5 DEF Takes
  <2> QED  BY <2>6 DEF CodesMove, Moves
<1> QED  BY <1>2, <1>3

LEMMA CodesAlwaysMove ==
  ASSUME Typed, Typed', [Next]_vars
  PROVE  CodesMove
<1>1. CASE \E h \in Handlers : HandlerStep(h)
  <2>1. PICK h \in Handlers : HandlerStep(h)
    BY <1>1
  <2>2. /\ CodesKept /\ Follows(call[h], call'[h])
        /\ \A g \in Handlers \ {h} : call'[g] = call[g]
    BY <2>1, HandlerKeeps, OneTurn DEF Kept, Typed
  <2>3. CASE Crash(h)
    BY <2>2, <2>3, CrashMovesCodes
  <2>4. CASE FindCode(h)
    BY <2>2, <2>4, FindMovesCodes
  <2>5. CASE Consume(h)
    <3>1. ~At(h, "consume")'
      BY <2>2, <2>5 DEF Follows, Consume, At
    <3> QED  BY <2>2, <2>5, <3>1, ConsumeTicket
  <2>6. CASE ~Crash(h) /\ ~FindCode(h) /\ ~Consume(h)
    <3>1. faults' = faults
      BY <2>1, <2>6, FaultsStay
    <3>2. ~At(h, "consume") /\ ~At(h, "consume")'
      BY <2>1, <2>2, <2>6, StepAt DEF Follows, At, Typed
    <3>3. CodesHeld' = CodesHeld
      BY <2>2, <3>2, CodesHeldStay
    <3>4. CASE CreateCode(h)
      BY <3>3, <3>4, CreateTicket
    <3>5. CASE Invalidate(h)
      <4>1. InvalidateActive(call[h].purpose, call[h].channel)
        BY <3>5 DEF Invalidate
      <4>2. Len(codes') = Len(codes)
        BY <4>1, InvalidateKeeps DEF Typed
      <4>3. \A i \in DOMAIN codes : codes'[i].uses = codes[i].uses
        BY <4>1, InvalidateUses
      <4> QED  BY <2>2, <3>1, <3>3, <4>2, <4>3, CodesQuiet
    <3>6. CASE WrongCode(h)
      <4>1. call[h].n \in DOMAIN codes /\ DecrementAttempts(call[h].n)
        BY <3>6, TypedIsTypeOK DEF TypeOK, WrongCode, At
      <4>2. Len(codes') = Len(codes)
        BY <4>1, CodeWrites DEF Typed
      <4>3. \A i \in DOMAIN codes : codes'[i].uses = codes[i].uses
        BY <4>1, OtherUses
      <4> QED  BY <2>2, <3>1, <3>3, <4>2, <4>3, CodesQuiet
    <3>7. CASE UNCHANGED codes
      BY <2>2, <3>1, <3>3, <3>7, CodesQuiet
    <3> QED  BY <2>1, <2>6, <3>4, <3>5, <3>6, <3>7, WritesCodes
  <2> QED  BY <2>3, <2>4, <2>5, <2>6
<1>2. CASE OtherStep \/ UNCHANGED vars
  <2>1. CodesKept /\ UNCHANGED call /\ UNCHANGED faults
    BY <1>2, OthersKeep
       DEF OtherStep, Logout, LogoutAll, AdminRevokeAllForUser, AtOnce, LockLapses, TimePasses,
           vars
  <2>2. CodesHeld' = CodesHeld
    BY <2>1 DEF CodesHeld, At
  <2>3. CASE UNCHANGED codes
    BY <2>1, <2>2, <2>3, CodesQuiet
  <2>4. CASE TimePasses
    <3>1. CodeExpires \/ MinutePasses
      BY <2>4 DEF TimePasses
    <3>2. Len(codes') = Len(codes)
      BY <3>1, CodeWrites DEF Typed
    <3>3. \A i \in DOMAIN codes : codes'[i].uses = codes[i].uses
      BY <3>1, OtherUses
    <3> QED  BY <2>1, <2>2, <3>2, <3>3, CodesQuiet
  <2> QED
    BY <1>2, <2>3, <2>4
       DEF OtherStep, Logout, LogoutAll, AdminRevokeAllForUser, AtOnce, LockLapses, rows, vars
<1> QED  BY <1>1, <1>2, NextSteps

-----------------------------------------------------------------------------
(* Refresh tokens.                                                         *)
Carries(c) == c.op = "refresh" /\ c.at \in {"issuePair", "markRotated"}

LEMMA TokensHeldStay ==
  ASSUME CallsOK, CallsOK', NEW h \in Handlers, \A g \in Handlers \ {h} : call'[g] = call[g],
         ~Carries(call[h]), ~Carries(call'[h])
  PROVE  TokensHeld' = TokensHeld /\ TokensHeld[h] = Nothing
<1>1. call[h].at = "markRotated" => call[h].op = "refresh"
  BY OneCall DEF Programs, Call, Ops
<1>2. call'[h] \in Call /\ Programs(call'[h])
  BY DEF CallsOK
<1>3. call'[h].at = "markRotated" => call'[h].op = "refresh"
  BY <1>2 DEF Programs, Call, Ops
<1>4. call[h].at # "markRotated" /\ call'[h].at # "markRotated"
  BY <1>1, <1>3 DEF Carries
<1>5. /\ TokensHeld[h] = [ticket |-> 0, spent |-> FALSE]
      /\ TokensHeld'[h] = [ticket |-> 0, spent |-> FALSE]
  BY <1>4 DEF TokensHeld, Carries, At
<1>6. \A g \in Handlers \ {h} : TokensHeld'[g] = TokensHeld[g]
  BY DEF TokensHeld, At
<1>7. TokensHeld' = [g \in Handlers |-> TokensHeld'[g]]
      /\ TokensHeld = [g \in Handlers |-> TokensHeld[g]]
  BY DEF TokensHeld
<1> QED  BY <1>5, <1>6, <1>7 DEF Nothing

LEMMA TokensHeldChange ==
  ASSUME NEW h \in Handlers, \A g \in Handlers \ {h} : call'[g] = call[g],
         NEW n, n = IF Carries(call'[h]) THEN call'[h].n ELSE 0,
         NEW b, b = At(h, "markRotated")'
  PROVE  TokensHeld' = [TokensHeld EXCEPT ![h] = [ticket |-> n, spent |-> b]]
<1>1. PICK d : d = [ticket |-> n, spent |-> b]
  OBVIOUS
<1>2. TokensHeld'[h] = d
  BY <1>1 DEF TokensHeld, Carries
<1>3. \A g \in Handlers \ {h} : TokensHeld'[g] = TokensHeld[g]
  BY DEF TokensHeld, At
<1>4. /\ TokensHeld' = [g \in Handlers |-> TokensHeld'[g]]
      /\ DOMAIN TokensHeld = Handlers
  BY DEF TokensHeld
<1>5. TokensHeld' = [TokensHeld EXCEPT ![h] = d]
  BY <1>2, <1>3, <1>4
<1> QED  BY <1>1, <1>5

(* A step that adds no row and issues no pair for one withdraws those that *)
(* can no longer be exchanged.                                             *)
TokensFade ==
  /\ Len(tokens') = Len(tokens)
  /\ \A i \in DOMAIN tokens : /\ tokens'[i].uses = tokens[i].uses
                              /\ Usable(i)' => Usable(i)

LEMMA TokensQuiet ==
  ASSUME Typed, Typed', TokensFade, TokensHeld' = TokensHeld, faults' = faults
  PROVE  TokensMove
<1> DEFINE S == {i \in DOMAIN tokens : ~Usable(i)'}
<1>1. DOMAIN TokenTickets = DOMAIN tokens /\ DOMAIN tokens' = DOMAIN tokens
  BY TokenTicketsTyped, Lengths DEF Typed, TokensFade, RowsTyped
<1>2. ASSUME NEW i \in DOMAIN tokens
      PROVE  [open |-> Usable(i)', uses |-> tokens'[i].uses] =
               IF i \in S THEN Shut(TokenTickets[i]) ELSE TokenTickets[i]
  <2>1. TokenTickets[i] = [open |-> Usable(i), uses |-> tokens[i].uses]
    BY DEF TokenTickets
  <2>2. TokenTickets[i] \in TicketRow
    BY <1>1, TokenTicketsTyped, TicketRows
  <2>3. Usable(i) \in BOOLEAN /\ Usable(i)' \in BOOLEAN /\ (Usable(i)' => Usable(i))
    BY DEF Usable, TokensFade
  <2>4. CASE Usable(i)'
    <3>1. i \notin S
      BY <2>4
    <3>2. Usable(i)' = Usable(i)
      BY <2>3, <2>4
    <3> QED  BY <2>1, <3>1, <3>2 DEF TokensFade
  <2>5. CASE ~Usable(i)'
    <3>1. i \in S /\ TokenTickets[i].uses = tokens'[i].uses
      BY <2>1, <2>5 DEF TokensFade
    <3>2. Shut(TokenTickets[i]) = [open |-> Usable(i)', uses |-> TokenTickets[i].uses]
      BY <2>2, <2>3, <2>5, OneRow
    <3> QED  BY <3>1, <3>2
  <2> QED  BY <2>4, <2>5
<1>3. TokenTickets' = [i \in DOMAIN tokens |->
                        IF i \in S THEN Shut(TokenTickets[i]) ELSE TokenTickets[i]]
  <2> HIDE DEF S
  <2> QED  BY <1>1, <1>2 DEF TokenTickets
<1>4. S \in SUBSET DOMAIN TokenTickets
  BY <1>1
<1>5. \E R \in SUBSET DOMAIN TokenTickets :
        TokenTickets' = [i \in DOMAIN TokenTickets |->
                           IF i \in R THEN Shut(TokenTickets[i]) ELSE TokenTickets[i]]
  <2> HIDE DEF S
  <2> QED  BY <1>1, <1>3, <1>4
<1>6. Withdraws(TokenTickets, TokensHeld, faults, TokenTickets', TokensHeld', faults')
  BY <1>5 DEF Withdraws
<1> QED  BY <1>6 DEF TokensMove, Moves

LEMMA TokensFadeWhen ==
  ASSUME Typed,
         \/ UNCHANGED tokens
         \/ \E t \in DOMAIN tokens : MarkReuse(t)
         \/ \E s : RevokeForSession(s)
  PROVE  TokensFade
<1>1. CASE UNCHANGED tokens
  BY <1>1 DEF TokensFade, Usable
<1>2. CASE \E t \in DOMAIN tokens : MarkReuse(t)
  <2>1. PICK t \in DOMAIN tokens : MarkReuse(t)
    BY <1>2
  <2>2. PICK c : c = [tokens[t] EXCEPT !.revoked = TRUE, !.replayed = TRUE]
    OBVIOUS
  <2>3. tokens' = [tokens EXCEPT ![t] = c]
    BY <2>1, <2>2 DEF MarkReuse
  <2>4. tokens[t] \in Token
    BY TokenIn DEF Typed
  <2>5. c.uses = tokens[t].uses /\ c.revoked
    BY <2>2, <2>4 DEF Token
  <2>6. Len(tokens') = Len(tokens) /\ DOMAIN tokens' = DOMAIN tokens
    BY <2>3 DEF Typed, RowsTyped
  <2> QED  BY <2>3, <2>5, <2>6 DEF TokensFade, Usable
<1>3. CASE \E s : RevokeForSession(s)
  <2>1. PICK s : RevokeForSession(s)
    BY <1>3
  <2>2. /\ DOMAIN tokens' = DOMAIN tokens
        /\ \A i \in DOMAIN tokens :
             tokens'[i] = IF tokens[i].session = s THEN [tokens[i] EXCEPT !.revoked = TRUE]
                                                   ELSE tokens[i]
    BY <2>1 DEF RevokeForSession
  <2>3. Len(tokens') = Len(tokens)
    BY <2>1, SeqOfMap, Lengths DEF RevokeForSession, Typed
  <2>4. ASSUME NEW i \in DOMAIN tokens
        PROVE  tokens'[i].uses = tokens[i].uses /\ (Usable(i)' => Usable(i))
    <3>1. PICK c : c = [tokens[i] EXCEPT !.revoked = TRUE]
      OBVIOUS
    <3>2. tokens[i] \in Token
      BY TokenIn DEF Typed
    <3>3. c.uses = tokens[i].uses /\ c.revoked
      BY <3>1, <3>2 DEF Token
    <3>4. tokens'[i] = c \/ tokens'[i] = tokens[i]
      BY <2>2, <3>1
    <3> QED  BY <3>3, <3>4 DEF Usable
  <2> QED  BY <2>3, <2>4 DEF TokensFade
<1> QED  BY <1>1, <1>2, <1>3

LEMMA CrashMovesTokens ==
  ASSUME Typed, NEW h \in Handlers, Crash(h), \A g \in Handlers \ {h} : call'[g] = call[g]
  PROVE  TokensMove
<1>1. tokens' = tokens /\ faults' = faults + 1
  BY DEF Crash, rows
<1>2. ~Carries(call'[h]) /\ At(h, "markRotated")' = FALSE
  BY Crashes DEF Crash, Typed, At, Carries
<1>3. TokensHeld' = [TokensHeld EXCEPT ![h] = Nothing]
  BY <1>2, TokensHeldChange DEF Nothing
<1>4. TokenTickets' = TokenTickets
  BY <1>1 DEF TokenTickets, Usable
<1>5. Loses(h, TokenTickets, TokensHeld, faults, TokenTickets', TokensHeld', faults')
  BY <1>1, <1>3, <1>4 DEF Loses
<1> QED  BY <1>5 DEF TokensMove, Moves

(* No other operation begins as a refresh does.                            *)
LEMMA OnlyRefresh ==
  ASSUME Typed, NEW h \in Handlers, Begin(h), call'[h].op = "refresh"
  PROVE  Refresh(h)
<1>1. ASSUME NEW c, Start(h, c)
      PROVE  call'[h] = c
  BY <1>1, Starts DEF Typed
<1>2. ~(\E p, ch : Issuing(h, p, ch))
  BY <1>1 DEF Issuing, Idle
<1>3. ~(VerifyOtp(h) \/ VerifyEmail(h) \/ ResetPassword(h))
  BY <1>1 DEF VerifyOtp, VerifyEmail, ResetPassword, Idle
<1>4. ~Signup(h)
  BY <1>1 DEF Signup, Idle
<1>5. ~VerifyPhoneAuthOtp(h)
  BY <1>1 DEF VerifyPhoneAuthOtp, Idle
<1>6. ~Login(h)
  <2> SUFFICES ASSUME Login(h) PROVE FALSE
    OBVIOUS
  <2>1. \E a, n, e : Start(h, [Idle EXCEPT !.op = "login", !.at = a, !.epoch = e])
                    \/ Start(h, [Idle EXCEPT !.op = "login", !.at = a, !.n = n])
    BY DEF Login
  <2>2. PICK a, n, e, c : /\ Start(h, c)
                          /\ \/ c = [Idle EXCEPT !.op = "login", !.at = a, !.epoch = e]
                             \/ c = [Idle EXCEPT !.op = "login", !.at = a, !.n = n]
    BY <2>1
  <2>3. c.op = "login"
    BY <2>2 DEF Idle
  <2> QED  BY <1>1, <2>2, <2>3
<1>7. ~RevokeMine(h)
  <2> SUFFICES ASSUME RevokeMine(h) PROVE FALSE
    OBVIOUS
  <2>1. PICK s : Start(h, [Idle EXCEPT !.op = "revokeMine", !.at = "revokeSession",
                                       !.session = s])
    BY DEF RevokeMine
  <2> QED  BY <1>1, <2>1 DEF Idle
<1>8. ~ChangePassword(h)
  <2> SUFFICES ASSUME ChangePassword(h) PROVE FALSE
    OBVIOUS
  <2>1. Start(h, [Idle EXCEPT !.op = "change", !.at = "setPassword"])
    BY DEF ChangePassword
  <2> QED  BY <1>1, <2>1 DEF Idle
<1>9. ~AdminUpdateUser(h)
  <2> SUFFICES ASSUME AdminUpdateUser(h) PROVE FALSE
    OBVIOUS
  <2>1. \/ \E e : Start(h, [Idle EXCEPT !.op = "suspend", !.at = "revokeAll", !.epoch = e])
        \/ Start(h, Idle)
    BY DEF AdminUpdateUser
  <2>2. CASE Start(h, Idle)
    BY <1>1, <2>2, IdleFields
  <2>3. CASE \E e : Start(h, [Idle EXCEPT !.op = "suspend", !.at = "revokeAll", !.epoch = e])
    BY <1>1, <2>3 DEF Idle
  <2> QED  BY <2>1, <2>2, <2>3
<1> QED
  BY <1>2, <1>3, <1>4, <1>5, <1>6, <1>7, <1>8, <1>9
     DEF Begin, RequestOtp, ForgotPassword, SendPhoneAuthOtp

(* rotate has read a usable row: the handler takes the token.              *)
LEMMA RefreshTakes ==
  ASSUME Typed, Typed', NEW h \in Handlers, Refresh(h),
         \A g \in Handlers \ {h} : call'[g] = call[g]
  PROVE  TokensMove
<1>1. PICK t \in DOMAIN tokens :
        Start(h, [Idle EXCEPT !.op = "refresh", !.n = t, !.session = tokens[t].session,
                              !.at = IF Usable(t) THEN "issuePair" ELSE "markReplay"])
  BY DEF Refresh
<1>2. tokens' = tokens /\ faults' = faults
  BY DEF Refresh, rows
<1>3. PICK a, s : /\ a = IF Usable(t) THEN "issuePair" ELSE "markReplay"
                  /\ s = tokens[t].session
  OBVIOUS
<1>4. PICK c : c = [Idle EXCEPT !.op = "refresh", !.n = t, !.session = s, !.at = a]
  OBVIOUS
<1>5. call'[h] = c /\ call[h].at = "idle" /\ CallsOK /\ CallsOK'
  BY <1>1, <1>3, <1>4, Starts DEF Typed
<1>6. c.op = "refresh" /\ c.n = t /\ c.at = a
  BY <1>4 DEF Idle
<1>7. ~Carries(call[h])
  BY <1>5 DEF Carries
<1>8. CASE Usable(t)
  <2>1. Carries(call'[h]) /\ call'[h].n = t /\ At(h, "markRotated")' = FALSE
    BY <1>3, <1>5, <1>6, <1>8 DEF Carries, At
  <2>2. TokensHeld' = [TokensHeld EXCEPT ![h] = [ticket |-> t, spent |-> FALSE]]
    BY <2>1, TokensHeldChange
  <2>3. TokensHeld[h] = Nothing
    BY <1>5 DEF TokensHeld, Nothing, At
  <2>4. TokenTickets' = TokenTickets /\ t \in DOMAIN TokenTickets /\ TokenTickets[t].open
    BY <1>2, <1>8 DEF TokenTickets, Usable
  <2>5. Takes(h, TokenTickets, TokensHeld, faults, TokenTickets', TokensHeld', faults')
    BY <1>2, <2>2, <2>3, <2>4 DEF Takes
  <2> QED  BY <2>5 DEF TokensMove, Moves
<1>9. CASE ~Usable(t)
  <2>1. ~Carries(call'[h])
    BY <1>3, <1>5, <1>6, <1>9 DEF Carries
  <2>2. TokensHeld' = TokensHeld
    BY <1>5, <1>7, <2>1, TokensHeldStay
  <2> QED  BY <1>2, <2>2, TokensFadeWhen, TokensQuiet
<1> QED  BY <1>8, <1>9

(* markRotated closes the token that was exchanged.                        *)
LEMMA RotatedCloses ==
  ASSUME Typed, Typed', NEW h \in Handlers, MarkRotated(h),
         \A g \in Handlers \ {h} : call'[g] = call[g]
  PROVE  TokensMove
<1>1. /\ call[h].op = "refresh" /\ call[h].n \in DOMAIN tokens /\ At(h, "markRotated")
      /\ MarkRotatedRow(call[h].n) /\ faults' = faults /\ Return(h)
  BY MarkRotatedKeeps DEF MarkRotated
<1>2. PICK n \in DOMAIN tokens : n = call[h].n
  BY <1>1
<1>3. tokens[n] \in Token /\ DOMAIN tokens = 1..Len(tokens)
  BY TokenIn, Lengths DEF Typed
<1>4. PICK c : c = [tokens[n] EXCEPT !.revoked = TRUE]
  OBVIOUS
<1>5. tokens' = [tokens EXCEPT ![n] = c]
  BY <1>1, <1>2, <1>4 DEF MarkRotatedRow
<1>6. c.revoked /\ c.uses = tokens[n].uses
  BY <1>3, <1>4 DEF Token
<1>7. DOMAIN TokenTickets = DOMAIN tokens /\ TokenTickets[n] \in TicketRow
  BY TokenTicketsTyped, TicketRows
<1>8. TokenTickets' = [TokenTickets EXCEPT ![n] = Shut(TokenTickets[n])]
  <2>1. ~Usable(n)' /\ tokens'[n].uses = TokenTickets[n].uses
    BY <1>5, <1>6 DEF Usable, TokenTickets
  <2>2. PICK r : r = Shut(TokenTickets[n])
    OBVIOUS
  <2>3. Usable(n)' \in BOOLEAN
    BY DEF Usable
  <2>4. r = [open |-> Usable(n)', uses |-> tokens'[n].uses]
    BY <1>7, <2>1, <2>2, <2>3, OneRow
  <2>5. \A i \in DOMAIN tokens \ {n} : Usable(i)' = Usable(i) /\ tokens'[i] = tokens[i]
    BY <1>5 DEF Usable
  <2>6. TokenTickets' = [TokenTickets EXCEPT ![n] = r]
    BY <1>5, <1>7, <2>4, <2>5 DEF TokenTickets
  <2> QED  BY <2>2, <2>6
<1>9. TokensHeld[h].ticket = n /\ TokensHeld[h].spent = TRUE /\ n # 0
  <2>1. call[h].at = "markRotated" /\ call[h].n = n
    BY <1>1, <1>2 DEF At
  <2>2. TokensHeld[h].ticket = n /\ TokensHeld[h].spent = TRUE
    BY <1>1, <2>1 DEF TokensHeld, At
  <2>3. n # 0
    BY <1>3
  <2> QED  BY <2>2, <2>3
<1>10. ~Carries(call'[h]) /\ At(h, "markRotated")' = FALSE
  BY <1>1, Crashes DEF Typed, At, Carries
<1>11. TokensHeld' = [TokensHeld EXCEPT ![h] = Nothing]
  BY <1>10, TokensHeldChange DEF Nothing
<1>12. Closes(h, TokenTickets, TokensHeld, faults, TokenTickets', TokensHeld', faults')
  BY <1>1, <1>8, <1>9, <1>11 DEF Closes
<1> QED  BY <1>12 DEF TokensMove, Moves

(* What CreateToken does to the tickets: one use of "from", if there is    *)
(* such a row, and a new ticket.                                           *)
LEMMA PairTickets ==
  ASSUME Typed, Typed', UNCHANGED sessions, NEW s \in DOMAIN sessions,
         NEW from \in 0..Len(tokens), CreateToken(s, from)
  PROVE  /\ from = 0 => TokenTickets' = Append(TokenTickets, Unused)
         /\ from # 0 => TokenTickets' =
                          Append([TokenTickets EXCEPT ![from] = Drawn(TokenTickets[from])], Unused)
<1>1. /\ TokensKept /\ Len(tokens') = Len(tokens) + 1
      /\ \A i \in DOMAIN tokens : tokens'[i] = UsedFrom(from)[i]
      /\ tokens'[Len(tokens) + 1] = NewToken(s)
  BY TokenCreated DEF Typed
<1>2. /\ DOMAIN tokens = 1..Len(tokens) /\ Len(tokens) \in Nat
      /\ DOMAIN tokens' = 1..(Len(tokens) + 1)
  BY <1>1, Lengths DEF Typed, TokensKept
<1>3. /\ TokenTickets \in Seq(TicketRow) /\ Len(TokenTickets) = Len(tokens)
      /\ DOMAIN TokenTickets = DOMAIN tokens
      /\ TokenTickets' \in Seq(TicketRow) /\ Len(TokenTickets') = Len(tokens) + 1
      /\ DOMAIN TokenTickets' = DOMAIN tokens'
  <2>1. /\ TokenTickets' \in Seq(TicketRow) /\ Len(TokenTickets') = Len(tokens')
        /\ DOMAIN TokenTickets' = DOMAIN tokens'
    BY TicketsFitNext DEF TicketsFit
  <2> QED  BY <1>1, <2>1, TokenTicketsTyped
<1>4. PICK q : q = IF from = 0 THEN TokenTickets
                   ELSE [TokenTickets EXCEPT ![from] = Drawn(TokenTickets[from])]
  OBVIOUS
<1>5. /\ q \in Seq(TicketRow) /\ Len(q) = Len(tokens)
      /\ \A i \in DOMAIN tokens :
           q[i] = IF i = from THEN Drawn(TokenTickets[i]) ELSE TokenTickets[i]
  <2>1. CASE from = 0
    BY <1>2, <1>3, <1>4, <2>1
  <2>2. CASE from # 0
    <3>1. from \in DOMAIN TokenTickets
      BY <1>2, <1>3, <2>2
    <3>2. TokenTickets[from] \in TicketRow
      BY <3>1, TokenTicketsTyped, TicketRows
    <3>3. PICK r \in TicketRow : r = Drawn(TokenTickets[from])
      BY <3>2, OneTicket
    <3>4. q = [TokenTickets EXCEPT ![from] = r]
      BY <1>4, <2>2, <3>3
    <3>5. q \in Seq(TicketRow) /\ Len(q) = Len(tokens)
      BY <1>3, <3>1, <3>4
    <3>6. \A i \in DOMAIN tokens : q[i] = IF i = from THEN r ELSE TokenTickets[i]
      BY <1>3, <3>4
    <3> QED  BY <3>3, <3>5, <3>6
  <2> QED  BY <2>1, <2>2
<1>6. \A i \in DOMAIN tokens : TokenTickets'[i] = q[i]
  <2> SUFFICES ASSUME NEW i \in DOMAIN tokens
               PROVE  TokenTickets'[i] = q[i]
    OBVIOUS
  <2>1. i \in DOMAIN tokens' /\ TokenTickets'[i] = [open |-> Usable(i)', uses |-> tokens'[i].uses]
        /\ TokenTickets[i] = [open |-> Usable(i), uses |-> tokens[i].uses]
    <3>1. i \in DOMAIN tokens'
      BY <1>2
    <3> QED  BY <3>1 DEF TokenTickets
  <2>2. tokens[i] \in Token /\ TokenTickets[i] \in TicketRow
    BY <1>3, TokenIn, TokenTicketsTyped, TicketRows DEF Typed
  <2>3. CASE i = from
    <3>1. PICK u \in Nat : u = tokens[i].uses + 1
      BY <2>2 DEF Token
    <3>2. PICK c : c = [tokens[i] EXCEPT !.uses = u]
      OBVIOUS
    <3>3. tokens'[i] = c
      BY <1>1, <2>3, <3>1, <3>2 DEF UsedFrom
    <3>4. c.uses = tokens[i].uses + 1 /\ c.revoked = tokens[i].revoked
      BY <2>2, <3>1, <3>2 DEF Token
    <3>5. Usable(i)' = Usable(i)
      BY <3>3, <3>4 DEF Usable
    <3>6. Drawn(TokenTickets[i]) = [open |-> TokenTickets[i].open,
                                    uses |-> TokenTickets[i].uses + 1]
      BY <2>2, OneTicket
    <3>7. TokenTickets[i].open = Usable(i) /\ TokenTickets[i].uses = tokens[i].uses
      BY <2>1
    <3>8. q[i] = Drawn(TokenTickets[i])
      BY <1>5, <2>3
    <3> QED  BY <2>1, <3>3, <3>4, <3>5, <3>6, <3>7, <3>8
  <2>4. CASE i # from
    <3>1. tokens'[i] = tokens[i]
      BY <1>1, <2>4 DEF UsedFrom
    <3>2. Usable(i)' = Usable(i)
      BY <3>1 DEF Usable
    <3>3. q[i] = TokenTickets[i]
      BY <1>5, <2>4
    <3> QED  BY <2>1, <3>1, <3>2, <3>3
  <2> QED  BY <2>3, <2>4
<1>7. PICK k : k = Len(tokens) + 1
  OBVIOUS
<1>8. TokenTickets'[k] = Unused
  <2>1. k \in DOMAIN tokens'
    BY <1>2, <1>7
  <2>2. tokens'[k].revoked = FALSE /\ tokens'[k].uses = 0
    BY <1>1, <1>7 DEF NewToken
  <2>3. Usable(k)' = TRUE
    BY <2>2 DEF Usable
  <2> QED  BY <2>1, <2>2, <2>3 DEF TokenTickets, Unused
<1>9. TokenTickets' = Append(q, Unused)
  <2>1. Unused \in TicketRow
    BY DEF Unused, TicketRow
  <2>2. PICK p : p = Append(q, Unused)
    OBVIOUS
  <2>3. /\ p \in Seq(TicketRow) /\ Len(p) = Len(tokens) + 1
        /\ \A i \in 1..Len(tokens) : p[i] = q[i]
        /\ p[Len(tokens) + 1] = Unused
    BY <1>5, <2>1, <2>2
  <2>4. \A i \in 1..(Len(tokens) + 1) : TokenTickets'[i] = p[i]
    BY <1>2, <1>6, <1>7, <1>8, <2>3
  <2>5. /\ TokenTickets' = [i \in 1..(Len(tokens) + 1) |-> TokenTickets'[i]]
        /\ p = [i \in 1..(Len(tokens) + 1) |-> p[i]]
    BY <1>2, <1>3, <2>3
  <2> QED  BY <2>2, <2>4, <2>5
<1> QED  BY <1>4, <1>9

(* issuePair redeems the token that is exchanged and issues its successor; *)
(* at sign-in it only issues.                                              *)
LEMMA PairMoves ==
  ASSUME Typed, Typed', NEW h \in Handlers, IssuePair(h),
         \A g \in Handlers \ {h} : call'[g] = call[g]
  PROVE  TokensMove
<1>1. /\ call[h] \in Call /\ Programs(call[h]) /\ At(h, "issuePair")
      /\ Holds(call[h], Len(codes), Len(sessions), Len(tokens))
      /\ CreateToken(call[h].session, call[h].n)
      /\ sessions' = sessions /\ faults' = faults
  BY OneCall DEF IssuePair, Typed
<1>2. call[h].session \in DOMAIN sessions /\ Len(tokens) \in Nat
  BY <1>1, Lengths DEF Holds, At, Typed
<1>3. CASE call[h].op = "refresh"
  <2>1. PICK n \in 1..Len(tokens) : n = call[h].n
    BY <1>1, <1>3 DEF Holds
  <2>2. n \in 0..Len(tokens) /\ n # 0
    BY <1>2
  <2>3. TokenTickets' = Append([TokenTickets EXCEPT ![n] = Drawn(TokenTickets[n])], Unused)
    BY <1>1, <1>2, <2>1, <2>2, PairTickets
  <2>4. TokensHeld[h].ticket = n /\ TokensHeld[h].spent = FALSE
    BY <1>1, <1>3, <2>1 DEF TokensHeld, At
  <2>5. Goto(h, "markRotated")
    BY <1>3 DEF IssuePair
  <2>6. call'[h].at = "markRotated" /\ call'[h].op = "refresh" /\ call'[h].n = n
    <3>1. PICK d \in Call : /\ call' = [call EXCEPT ![h] = d] /\ d.at = "markRotated"
                            /\ d.op = call[h].op /\ d.n = call[h].n
      BY <2>5, Goes DEF Typed, Steps
    <3>2. call'[h] = d
      BY <3>1 DEF Typed, CallsOK
    <3> QED  BY <1>3, <2>1, <3>1, <3>2
  <2>7. Carries(call'[h]) /\ At(h, "markRotated")' = TRUE
    BY <2>6 DEF Carries, At
  <2>8. TokensHeld' = [TokensHeld EXCEPT ![h] = [ticket |-> n, spent |-> TRUE]]
    BY <2>6, <2>7, TokensHeldChange
  <2>9. RedeemsForSuccessor(h, TokenTickets, TokensHeld, faults,
                            TokenTickets', TokensHeld', faults')
    BY <1>1, <2>2, <2>3, <2>4, <2>8 DEF RedeemsForSuccessor, Uses
  <2> QED  BY <2>9 DEF TokensMove, Moves
<1>4. CASE call[h].op # "refresh"
  <2>1. call[h].op \in SignIns
    BY <1>1, <1>4 DEF Programs, Call, Ops, SignIns, At
  <2>2. call[h].n = 0
    BY <1>1, <2>1 DEF Holds, At
  <2>3. TokenTickets' = Append(TokenTickets, Unused)
    <3>1. 0 \in 0..Len(tokens)
      BY <1>2
    <3> QED  BY <1>1, <1>2, <2>2, <3>1, PairTickets
  <2>4. ~Carries(call'[h])
    <3>1. CASE Return(h)
      BY <3>1, Crashes DEF Typed, Carries
    <3>2. CASE Goto(h, "throttle")
      <4>1. PICK d \in Call : call' = [call EXCEPT ![h] = d] /\ d.at = "throttle"
        BY <3>2, Goes DEF Typed, Steps
      <4>2. call'[h] = d
        BY <4>1 DEF Typed, CallsOK
      <4> QED  BY <4>1, <4>2 DEF Carries
    <3> QED  BY <1>4, <3>1, <3>2 DEF IssuePair
  <2>5. TokensHeld' = TokensHeld
    BY <1>4, <2>4, TokensHeldStay DEF Carries, Typed
  <2>6. Issues(TokenTickets, TokensHeld, faults, TokenTickets', TokensHeld', faults')
    BY <1>1, <2>3, <2>5 DEF Issues
  <2> QED  BY <2>6 DEF TokensMove, Moves
<1> QED  BY <1>3, <1>4

LEMMA TokensAlwaysMove ==
  ASSUME Typed, Typed', [Next]_vars
  PROVE  TokensMove
<1>1. CASE \E h \in Handlers : HandlerStep(h)
  <2>1. PICK h \in Handlers : HandlerStep(h)
    BY <1>1
  <2>2. /\ Follows(call[h], call'[h])
        /\ \A g \in Handlers \ {h} : call'[g] = call[g]
    BY <2>1, HandlerKeeps, OneTurn DEF Kept, Typed
  <2>3. CASE Crash(h)
    BY <2>2, <2>3, CrashMovesTokens
  <2>4. CASE Refresh(h)
    BY <2>2, <2>4, RefreshTakes
  <2>5. CASE IssuePair(h)
    BY <2>2, <2>5, PairMoves
  <2>6. CASE MarkRotated(h)
    BY <2>2, <2>6, RotatedCloses
  <2>7. CASE ~Crash(h) /\ ~Refresh(h) /\ ~IssuePair(h) /\ ~MarkRotated(h)
    <3>1. faults' = faults
      BY <2>1, <2>7, FaultsStay
    <3>2. ~Carries(call[h])
      BY <2>1, <2>7, StepAt DEF Carries, Typed
    <3>3. ~Carries(call'[h])
      <4>1. CASE call'[h].at = "markRotated"
        BY <2>1, <2>2, <2>7, <4>1, StepAt DEF Follows, Typed
      <4>2. CASE call'[h].op = "refresh" /\ call'[h].at = "issuePair"
        <5>1. Begin(h)
          BY <2>1, <2>2, <2>7, <4>2, FromIdle DEF Follows, Typed
        <5> QED  BY <2>7, <4>2, <5>1, OnlyRefresh
      <4> QED  BY <4>1, <4>2 DEF Carries
    <3>4. TokensHeld' = TokensHeld
      BY <2>2, <3>2, <3>3, TokensHeldStay DEF Typed
    <3>5. TokensFade
      <4>1. CASE MarkReplay(h)
        <5>1. call[h].n \in DOMAIN tokens /\ MarkReuse(call[h].n)
          BY <4>1, MarkReplayKeeps DEF MarkReplay
        <5> QED  BY <5>1, TokensFadeWhen
      <4>2. CASE RevokeTokens(h)
        BY <4>2, TokensFadeWhen DEF RevokeTokens
      <4>3. CASE UNCHANGED tokens
        BY <4>3, TokensFadeWhen
      <4> QED  BY <2>1, <2>7, <4>1, <4>2, <4>3, WritesTokens
    <3> QED  BY <3>1, <3>4, <3>5, TokensQuiet
  <2> QED  BY <2>3, <2>4, <2>5, <2>6, <2>7
<1>2. CASE OtherStep \/ UNCHANGED vars
  <2>1. UNCHANGED call /\ UNCHANGED faults /\ UNCHANGED tokens
    BY <1>2, OthersKeep
       DEF OtherStep, Logout, LogoutAll, AdminRevokeAllForUser, AtOnce, LockLapses, TimePasses,
           rows, vars
  <2>2. TokensHeld' = TokensHeld
    BY <2>1 DEF TokensHeld, At
  <2> QED  BY <2>1, <2>2, TokensFadeWhen, TokensQuiet
<1> QED  BY <1>1, <1>2, NextSteps

-----------------------------------------------------------------------------
(* The rows there are at the start have not been used.                     *)
LEMMA FreshTickets ==
  ASSUME Init
  PROVE  /\ \A i \in DOMAIN CodeTickets : CodeTickets[i] = [open |-> TRUE, uses |-> 0]
         /\ \A i \in DOMAIN TokenTickets : TokenTickets[i] = [open |-> TRUE, uses |-> 0]
<1>1. PICK c, k : c = NewCode("PASSWORD_RESET", "SMS", 0) /\ k = NewToken(1)
  OBVIOUS
<1>2. (codes = <<>> \/ codes = <<c>>) /\ (tokens = <<>> \/ tokens = <<k>>)
  BY <1>1 DEF Init
<1>3. /\ c.consumed = FALSE /\ c.expired = FALSE /\ c.uses = 0
      /\ k.revoked = FALSE /\ k.uses = 0
  BY <1>1 DEF NewCode, NewToken
<1>4. /\ \A i \in DOMAIN codes : codes[i] = c
      /\ \A i \in DOMAIN tokens : tokens[i] = k
  BY <1>2
<1>5. /\ \A i \in DOMAIN codes : Live(i) = TRUE /\ codes[i].uses = 0
      /\ \A i \in DOMAIN tokens : Usable(i) = TRUE /\ tokens[i].uses = 0
  BY <1>3, <1>4 DEF Live, Usable
<1> QED  BY <1>5 DEF CodeTickets, TokenTickets

(* otp.service and token.service implement the tickets of Tickets.tla:     *)
(* their rows start unused, and every step of the service takes, redeems,  *)
(* closes, withdraws or issues a code and a token as a ticket, or neither. *)
THEOREM CredentialsImplementTickets == Spec => CredentialsAreTickets
<1>1. Init => Codes!Init /\ Tokens!Init
  <2> SUFFICES ASSUME Init PROVE Codes!Init /\ Tokens!Init
    OBVIOUS
  <2>1. Typed
    BY InitTyped
  <2>2. /\ CodeTickets \in Seq(TicketRow) /\ TokenTickets \in Seq(TicketRow)
        /\ DOMAIN CodeTickets = DOMAIN codes /\ DOMAIN TokenTickets = DOMAIN tokens
    BY <2>1, CodeTicketsTyped, TokenTicketsTyped
  <2>3. \A i \in DOMAIN codes : CodeTickets[i] = [open |-> TRUE, uses |-> 0]
    BY <2>2, FreshTickets
  <2>4. \A i \in DOMAIN tokens : TokenTickets[i] = [open |-> TRUE, uses |-> 0]
    BY <2>2, FreshTickets
  <2>5. /\ CodesHeld = [h \in Handlers |-> Nothing]
        /\ TokensHeld = [h \in Handlers |-> Nothing] /\ faults = 0
    BY IdleFields DEF Init, CodesHeld, TokensHeld, Nothing, At
  <2>6. Codes!Init
    BY <2>2, <2>3, <2>5 DEF Codes!Init, Codes!Ticket, Codes!Free, TicketRow, Nothing,
       CodeTickets, CodesHeld
  <2>7. Tokens!Init
    BY <2>2, <2>4, <2>5 DEF Tokens!Init, Tokens!Ticket, Tokens!Free, TicketRow, Nothing,
       TokenTickets, TokensHeld
  <2> QED  BY <2>6, <2>7
<1>2. Typed /\ Typed' /\ [Next]_vars => [Codes!Next]_Codes!vars /\ [Tokens!Next]_Tokens!vars
  BY CodesAlwaysMove, TokensAlwaysMove, CodeTicketsTyped, TokenTicketsTyped, CodesStep,
     TokensStep
<1> QED
  BY <1>1, <1>2, Typing, PTL DEF Spec, CredentialsAreTickets, Codes!Spec, Tokens!Spec

(* Every ticket of the two collections is accounted for.                   *)
CodesAccounted == \A i \in DOMAIN CodeTickets : Accounted(i, CodeTickets, CodesHeld, faults)
TokensAccounted ==
  \A i \in DOMAIN TokenTickets : Accounted(i, TokenTickets, TokensHeld, faults)

LEMMA FreshCount ==
  ASSUME NEW t, NEW hd, \A i \in DOMAIN t : t[i] = [open |-> TRUE, uses |-> 0]
  PROVE  \A i \in DOMAIN t : Accounted(i, t, hd, 0)
<1> SUFFICES ASSUME NEW i \in DOMAIN t
             PROVE  Accounted(i, t, hd, 0)
  OBVIOUS
<1>1. Spending(i, hd) \in SUBSET Handlers
  BY DEF Spending
<1>2. Cardinality(Spending(i, hd)) \in Nat
  BY <1>1, HandlerSets
<1>3. t[i].open = TRUE /\ t[i].uses = 0
  OBVIOUS
<1> QED  BY <1>2, <1>3 DEF Accounted

LEMMA CountsBound ==
  ASSUME NEW t, NEW hd, NEW l, TicketsTyped(t, hd, l),
         \A i \in DOMAIN t : Accounted(i, t, hd, l)
  PROVE  \A i \in DOMAIN t : t[i].uses <= Cardinality(Handlers) + l
<1> SUFFICES ASSUME NEW i \in DOMAIN t
             PROVE  t[i].uses <= Cardinality(Handlers) + l
  OBVIOUS
<1>1. /\ Cardinality(Waiting(i, hd)) \in Nat /\ Cardinality(Handlers) \in Nat
      /\ t[i].uses + Cardinality(Waiting(i, hd)) <= Cardinality(Handlers) + l
  BY BothCounted
<1>2. t[i].uses \in Nat /\ l \in Nat
  BY TicketRows DEF TicketsTyped
<1> QED  BY <1>1, <1>2

(* A one-time code is verified, and a refresh token exchanged for a new    *)
(* pair, at most once per handler that runs at the same time and once per  *)
(* crash, however many requests present it.                                *)
THEOREM CredentialsRedeemedOnlyAtOnce ==
  Spec => [](Codes!RedeemedOnlyAtOnce /\ Tokens!RedeemedOnlyAtOnce)
<1> DEFINE Inv == Typed /\ CodesAccounted /\ TokensAccounted
<1>1. Init => Inv
  <2> SUFFICES ASSUME Init PROVE CodesAccounted /\ TokensAccounted
    BY InitTyped
  <2>1. faults = 0
    BY DEF Init
  <2>2. \A i \in DOMAIN CodeTickets : CodeTickets[i] = [open |-> TRUE, uses |-> 0]
    BY FreshTickets
  <2>3. \A i \in DOMAIN TokenTickets : TokenTickets[i] = [open |-> TRUE, uses |-> 0]
    BY FreshTickets
  <2> QED  BY <2>1, <2>2, <2>3, FreshCount DEF CodesAccounted, TokensAccounted
<1>2. Inv /\ [Next]_vars => Inv'
  <2> SUFFICES ASSUME Inv, [Next]_vars PROVE Inv'
    OBVIOUS
  <2>1. Typed'
    BY TypedKept
  <2>2. /\ TicketsTyped(CodeTickets, CodesHeld, faults)
        /\ TicketsTyped(TokenTickets, TokensHeld, faults)
        /\ TicketsTyped(CodeTickets', CodesHeld', faults')
        /\ TicketsTyped(TokenTickets', TokensHeld', faults')
    BY <2>1, CodeTicketsTyped, TokenTicketsTyped, TicketsFitNext DEF TicketsFit
  <2>3. CodesMove /\ TokensMove
    BY <2>1, CodesAlwaysMove, TokensAlwaysMove
  <2>4. CodesAccounted'
    BY <2>2, <2>3, CountStep DEF CodesAccounted, CodesMove
  <2>5. TokensAccounted'
    BY <2>2, <2>3, CountStep DEF TokensAccounted, TokensMove
  <2> QED  BY <2>1, <2>4, <2>5
<1>3. Inv => Codes!RedeemedOnlyAtOnce /\ Tokens!RedeemedOnlyAtOnce
  <2> SUFFICES ASSUME Inv PROVE Codes!RedeemedOnlyAtOnce /\ Tokens!RedeemedOnlyAtOnce
    OBVIOUS
  <2>1. \A i \in DOMAIN CodeTickets : CodeTickets[i].uses <= Cardinality(Handlers) + faults
    BY CodeTicketsTyped, CountsBound DEF CodesAccounted
  <2>2. \A i \in DOMAIN TokenTickets : TokenTickets[i].uses <= Cardinality(Handlers) + faults
    BY TokenTicketsTyped, CountsBound DEF TokensAccounted
  <2>3. Codes!RedeemedOnlyAtOnce
    <3>1. Codes!Cardinality(Handlers) = Cardinality(Handlers)
      BY DEF Codes!Cardinality, Cardinality
    <3> QED  BY <2>1, <3>1 DEF Codes!RedeemedOnlyAtOnce, CodeTickets
  <2>4. Tokens!RedeemedOnlyAtOnce
    <3>1. Tokens!Cardinality(Handlers) = Cardinality(Handlers)
      BY DEF Tokens!Cardinality, Cardinality
    <3> QED  BY <2>2, <3>1 DEF Tokens!RedeemedOnlyAtOnce, TokenTickets
  <2> QED  BY <2>3, <2>4
<1> QED  BY <1>1, <1>2, <1>3, PTL DEF Spec
=============================================================================
