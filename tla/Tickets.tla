------------------------------- MODULE Tickets -------------------------------
(***************************************************************************)
(* What a single-use credential is worth when the row that holds it is     *)
(* read first and closed later without a condition, as the one-time codes  *)
(* and the refresh tokens of src/src/modules/auth are.  A handler takes a  *)
(* ticket while it is open, redeems it, and closes it.  Nothing stops two  *)
(* handlers from taking the same ticket, so a ticket may be redeemed more  *)
(* than once; this specification bounds how often.  Authentication         *)
(* implements it twice, with codes and with tokens.                        *)
(***************************************************************************)
EXTENDS RequestHandlers, Integers, Sequences

VARIABLES
  ticket,  \* tickets in order of issue
  held,    \* the ticket each handler has taken, and whether it redeemed it
  lost     \* handlers that ended early, by a crash

vars == <<ticket, held, lost>>

Ticket == [open : BOOLEAN, uses : Nat]
Free == [ticket |-> 0, spent |-> FALSE]

TypeOK ==
  /\ ticket \in Seq(Ticket)
  /\ held \in [Handlers -> [ticket : Nat, spent : BOOLEAN]]
  /\ \A h \in Handlers : held[h].ticket \in 0..Len(ticket)
  /\ lost \in Nat

Init ==
  /\ ticket \in Seq(Ticket)
  /\ \A i \in DOMAIN ticket : ticket[i] = [open |-> TRUE, uses |-> 0]
  /\ held = [h \in Handlers |-> Free]
  /\ lost = 0

Closed(t) == [t EXCEPT !.open = FALSE]
Used(t) == [t EXCEPT !.uses = @ + 1]
Release(h) == held' = [held EXCEPT ![h] = Free]

Issue ==
  /\ ticket' = Append(ticket, [open |-> TRUE, uses |-> 0])
  /\ UNCHANGED <<held, lost>>

(* Any set of tickets may expire or be withdrawn at any time. *)
Withdraw ==
  /\ \E S \in SUBSET DOMAIN ticket :
       ticket' = [i \in DOMAIN ticket |->
                    IF i \in S THEN Closed(ticket[i]) ELSE ticket[i]]
  /\ UNCHANGED <<held, lost>>

Take(h, i) ==
  /\ held[h] = Free /\ ticket[i].open
  /\ held' = [held EXCEPT ![h] = [ticket |-> i, spent |-> FALSE]]
  /\ UNCHANGED <<ticket, lost>>

(* A handler redeems what it has taken, open or not ... *)
Redeem(h) ==
  /\ held[h].ticket # 0 /\ ~held[h].spent
  /\ ticket' = [ticket EXCEPT ![held[h].ticket] = Used(@)]
  /\ held' = [held EXCEPT ![h].spent = TRUE]
  /\ UNCHANGED lost

(* ... and may be the first of several to close it, in the same step or in *)
(* a later one.                                                            *)
RedeemAndClose(h) ==
  /\ held[h].ticket # 0 /\ ~held[h].spent
  /\ ticket' = [ticket EXCEPT ![held[h].ticket] = Closed(Used(@))]
  /\ Release(h)
  /\ UNCHANGED lost

Close(h) ==
  /\ held[h].ticket # 0 /\ held[h].spent
  /\ ticket' = [ticket EXCEPT ![held[h].ticket] = Closed(@)]
  /\ Release(h)
  /\ UNCHANGED lost

(* A handler that redeemed may also issue the successor in that step. *)
RedeemForSuccessor(h) ==
  /\ held[h].ticket # 0 /\ ~held[h].spent
  /\ ticket' = Append([ticket EXCEPT ![held[h].ticket] = Used(@)],
                      [open |-> TRUE, uses |-> 0])
  /\ held' = [held EXCEPT ![h].spent = TRUE]
  /\ UNCHANGED lost

Lose(h) ==
  /\ Release(h)
  /\ lost' = lost + 1
  /\ UNCHANGED ticket

Next ==
  \/ Issue \/ Withdraw
  \/ \E h \in Handlers :
       \/ \E i \in DOMAIN ticket : Take(h, i)
       \/ Redeem(h) \/ RedeemAndClose(h) \/ Close(h)
       \/ RedeemForSuccessor(h) \/ Lose(h)

Spec == Init /\ [][Next]_vars

-----------------------------------------------------------------------------
(* A ticket is redeemed at most once per handler that may run at the same  *)
(* time, however many requests present it: once it is closed, only those   *)
(* that had taken it before can still redeem it.  Handlers that crashed    *)
(* before closing it add to the count.                                     *)
RedeemedOnlyAtOnce ==
  \A i \in DOMAIN ticket : ticket[i].uses <= Cardinality(Handlers) + lost
=============================================================================
