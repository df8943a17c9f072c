--------------------------- MODULE RequestHandlers ---------------------------
(* The requests a backend has under way: finitely many, in a Node process   *)
(* or across several of them.  Shared by Authentication and by Tickets,     *)
(* which it implements.                                                     *)
EXTENDS FiniteSets

CONSTANT Handlers   \* calls that may be under way at a time

ASSUME HandlersAssumption == IsFiniteSet(Handlers) /\ Handlers # {}
=============================================================================
