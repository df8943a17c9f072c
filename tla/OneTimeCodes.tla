----------------------------- MODULE OneTimeCodes -----------------------------
(***************************************************************************)
(* The auth_otps collection for one identifier, with the operations of     *)
(* otp.service.ts and auth-otp.repository.ts on it (src/src/modules/auth). *)
(* Each operation is one call to MongoDB; Authentication puts them in      *)
(* order.  A code is the index of its row: presenting the right code means *)
(* presenting that of the row that was found.                              *)
(***************************************************************************)
EXTENDS Integers, Sequences, FiniteSetsExt

CONSTANT MaxAttempts   \* AppConstants.OTP.MAX_ATTEMPTS

ASSUME AttemptsAssumption == MaxAttempts \in Nat \ {0}

VARIABLE codes         \* auth_otps rows by creation

(* VERIFY stands for EMAIL_VERIFY and PHONE_VERIFY. *)
Purposes == {"VERIFY", "PHONE_AUTH", "PASSWORD_RESET"}
Channels == {"EMAIL", "SMS"}

(* fresh: created less than a minute ago.  For the properties, uses counts *)
(* the successful verifications and cleared is the number of rows there    *)
(* were when the request for this one invalidated the older ones.          *)
Code == [purpose : Purposes, channel : Channels, attempts : Int,
         consumed : BOOLEAN, expired : BOOLEAN, fresh : BOOLEAN,
         uses : Nat, cleared : Nat]

Live(i) == ~codes[i].consumed /\ ~codes[i].expired

(* Seeded fault: consumed codes are found. *)
FindActiveOrConsumed(p) ==
  Max({0} \cup {i \in DOMAIN codes : codes[i].purpose = p /\ ~codes[i].expired})

(* The newest live row, 0 if there is none. *)
FindActive(p) ==
  Max({0} \cup {i \in DOMAIN codes : codes[i].purpose = p /\ Live(i)})

RecentlyRequested(p) ==
  \E i \in DOMAIN codes : codes[i].purpose = p /\ codes[i].fresh

(* Seeded fault: older codes stay valid. *)
InvalidateNone(p, ch) == p \in Purposes /\ ch \in Channels /\ UNCHANGED codes

InvalidateActive(p, ch) ==
  codes' = [i \in DOMAIN codes |->
              IF codes[i].purpose = p /\ codes[i].channel = ch
              THEN [codes[i] EXCEPT !.consumed = TRUE] ELSE codes[i]]

NewCode(p, ch, cleared) ==
  [purpose |-> p, channel |-> ch, attempts |-> MaxAttempts, consumed |-> FALSE,
   expired |-> FALSE, fresh |-> TRUE, uses |-> 0, cleared |-> cleared]

CreateRow(p, ch, cleared) == codes' = Append(codes, NewCode(p, ch, cleared))

DecrementAttempts(i) == codes' = [codes EXCEPT ![i].attempts = @ - 1]

ConsumeRow(i) ==
  codes' = [codes EXCEPT ![i].consumed = TRUE, ![i].uses = @ + 1]

(* The expiry of a consumed code makes no difference. *)
CodeExpires ==
  \E i \in DOMAIN codes :
    /\ Live(i)
    /\ codes' = [codes EXCEPT ![i].expired = TRUE, ![i].fresh = FALSE]

MinutePasses ==
  \E i \in DOMAIN codes :
    /\ codes[i].fresh
    /\ codes' = [codes EXCEPT ![i].fresh = FALSE]
=============================================================================
