------------------------------- MODULE Sessions -------------------------------
(***************************************************************************)
(* The sessions and refresh_tokens collections of one user, with the       *)
(* operations of session.repository.ts, refresh-token.repository.ts and    *)
(* token.service.ts on them.  Each operation is one call to MongoDB;       *)
(* Authentication puts them in order.                                      *)
(***************************************************************************)
EXTENDS Integers, Sequences

VARIABLES
  sessions,  \* by creation
  tokens     \* refresh_tokens rows by creation

(* EXPIRED and LOGGED_OUT are never written.  epoch is for the properties: *)
(* how often passwords had changed or accounts been suspended when the     *)
(* call that opened the session read the user.                             *)
Session == [status : {"ACTIVE", "REVOKED"}, epoch : Nat]

(* revoked: revokedAt is set; replayed: reuseDetectedAt is set.  uses is   *)
(* for the properties: the pairs issued for this token.                    *)
Token == [session : Nat, revoked : BOOLEAN, replayed : BOOLEAN, uses : Nat]

NewToken(s) ==
  [session |-> s, revoked |-> FALSE, replayed |-> FALSE, uses |-> 0]

CreateSession(epoch) ==
  sessions' = Append(sessions, [status |-> "ACTIVE", epoch |-> epoch])

(* issuePair, at sign-in (from = 0) or in exchange for token "from". *)
CreateToken(s, from) ==
  tokens' = Append([i \in DOMAIN tokens |->
                      IF i = from THEN [tokens[i] EXCEPT !.uses = @ + 1]
                                  ELSE tokens[i]],
                   NewToken(s))

MarkRotatedRow(t) == tokens' = [tokens EXCEPT ![t].revoked = TRUE]

MarkReuse(t) ==
  tokens' = [tokens EXCEPT ![t].revoked = TRUE, ![t].replayed = TRUE]

Usable(t) == ~tokens[t].revoked

RevokeForSession(s) ==
  tokens' = [i \in DOMAIN tokens |->
               IF tokens[i].session = s THEN [tokens[i] EXCEPT !.revoked = TRUE]
                                        ELSE tokens[i]]

RevokeSessionRow(s) == sessions' = [sessions EXCEPT ![s].status = "REVOKED"]

(* Seeded fault: the filter matches no session. *)
RevokeNobody == UNCHANGED sessions

RevokeAllForUser ==
  sessions' = [i \in DOMAIN sessions |->
                 [sessions[i] EXCEPT !.status = "REVOKED"]]
=============================================================================
