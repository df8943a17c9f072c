---------------------------- MODULE Authentication ----------------------------
(***************************************************************************)
(* auth.service.ts, session.service.ts and the account updates of          *)
(* user.service.ts for one account, over the collections of OneTimeCodes   *)
(* and Sessions.  A request is a handler in "call"; one step is one call   *)
(* to MongoDB with the computation up to the next await, so that requests  *)
(* interleave as they do in the event loop and across processes.           *)
(*                                                                         *)
(* Refused requests that write nothing are left out.  What a client        *)
(* presents, a password or a code, is right or wrong with respect to what  *)
(* the request has read.                                                   *)
(***************************************************************************)
EXTENDS RequestHandlers, OneTimeCodes, Sessions

CONSTANTS
  LockThreshold,  \* LOCK_THRESHOLD
  MaxRequests,    \* bound: requests in a history
  MaxFaults       \* bound: crashes

ASSUME AuthAssumption ==
  /\ LockThreshold \in Nat \ {0, 1}
  /\ MaxRequests \in Nat /\ MaxFaults \in Nat

VARIABLES
  user,      \* the users document
  call,      \* what each handler is doing
  requests,  \* requests so far
  faults     \* crashes so far

rows == <<codes, sessions, tokens>>
vars == <<codes, sessions, tokens, user, call, requests, faults>>

UserStatuses == {"ACTIVE", "PENDING_VERIFICATION", "SUSPENDED", "DELETED"}
NoUser == "NONE"

(* lock is lockedUntil: null, in the future, or past.  epoch and swept are *)
(* for the properties: changes of password and suspensions, and the last   *)
(* of them whose revocation of the sessions is complete.                   *)
User == [status : UserStatuses \cup {NoUser}, password : BOOLEAN, failed : Nat,
         lock : {"none", "held", "lapsed"}, epoch : Nat, swept : Nat]

Barred == user.status \in {"SUSPENDED", "DELETED"}

Steps == {"idle", "throttle", "invalidate", "createCode", "find", "decrement",
          "consume", "markVerified", "resetFailed", "bump", "createUser",
          "openSession", "issuePair", "markRotated", "markReplay",
          "revokeSession", "revokeTokens", "setPassword", "revokeAll"}
Ops == {"none", "request", "verify", "reset", "phone", "signup", "login",
        "refresh", "revokeMine", "change", "suspend"}

(* epoch is the epoch of the user that was read, seen its status with the  *)
(* lock, n a row or a count, depending on the step.                        *)
Call == [op : Ops, at : Steps, purpose : Purposes, channel : Channels, n : Int,
         session : Nat, epoch : Nat, seen : {"NONE", "PENDING", "ACTIVE", "REFUSED"}]

Idle == [op |-> "none", at |-> "idle", purpose |-> "VERIFY", channel |-> "SMS",
         n |-> 0, session |-> 0, epoch |-> 0, seen |-> "NONE"]

TypeOK ==
  /\ codes \in Seq(Code) /\ sessions \in Seq(Session) /\ tokens \in Seq(Token)
  /\ user \in User /\ call \in [Handlers -> Call]
  /\ requests \in 0..MaxRequests /\ faults \in 0..MaxFaults
  /\ \A i \in DOMAIN tokens : tokens[i].session \in DOMAIN sessions
  /\ \A h \in Handlers :
       /\ call[h].at \in {"decrement", "consume"} => call[h].n \in DOMAIN codes
       /\ call[h].at \in {"markRotated", "markReplay"} => call[h].n \in DOMAIN tokens
       /\ call[h].at \in {"issuePair", "markRotated", "markReplay", "revokeSession",
                          "revokeTokens"} => call[h].session \in DOMAIN sessions

-----------------------------------------------------------------------------
At(h, step) == call[h].at = step
Goto(h, step) == call' = [call EXCEPT ![h].at = step]
Return(h) == call' = [call EXCEPT ![h] = Idle]
Start(h, c) ==
  /\ call[h] = Idle /\ requests < MaxRequests
  /\ call' = [call EXCEPT ![h] = c]
  /\ requests' = requests + 1

(* No account yet, or one whose owner is signed in on one device and may   *)
(* have been sent a code to reset the password.                            *)
Init ==
  /\ \/ /\ user = [status |-> NoUser, password |-> FALSE, failed |-> 0,
                   lock |-> "none", epoch |-> 0, swept |-> 0]
        /\ codes = <<>> /\ sessions = <<>> /\ tokens = <<>>
     \/ /\ user = [status |-> "ACTIVE", password |-> TRUE, failed |-> 0,
                   lock |-> "none", epoch |-> 0, swept |-> 0]
        /\ codes \in {<<>>, <<NewCode("PASSWORD_RESET", "SMS", 0)>>}
        /\ sessions = <<[status |-> "ACTIVE", epoch |-> 0]>>
        /\ tokens = <<NewToken(1)>>
  /\ call = [h \in Handlers |-> Idle]
  /\ requests = 0 /\ faults = 0

-----------------------------------------------------------------------------
(* One-time codes.  Three operations, and the end of signup, run           *)
(* otpService.issue; requestOtp takes purpose and channel from the client. *)
Issuing(h, p, ch) ==
  /\ Start(h, [Idle EXCEPT !.op = "request", !.at = "throttle",
                           !.purpose = p, !.channel = ch])
  /\ UNCHANGED <<rows, user, faults>>

RequestOtp(h) == \E p \in Purposes, ch \in Channels : Issuing(h, p, ch)

ForgotPassword(h) ==
  /\ user.status # NoUser
  /\ \E ch \in Channels : Issuing(h, "PASSWORD_RESET", ch)

SendPhoneAuthOtp(h) == Issuing(h, "PHONE_AUTH", "SMS")

Throttle(h) ==
  /\ At(h, "throttle")
  /\ IF RecentlyRequested(call[h].purpose) THEN Return(h) ELSE Goto(h, "invalidate")
  /\ UNCHANGED <<rows, user, requests, faults>>

Invalidate(h) ==
  /\ At(h, "invalidate")
  /\ InvalidateActive(call[h].purpose, call[h].channel)
  /\ call' = [call EXCEPT ![h].at = "createCode", ![h].n = Len(codes)]
  /\ UNCHANGED <<sessions, tokens, user, requests, faults>>

CreateCode(h) ==
  /\ At(h, "createCode")
  /\ CreateRow(call[h].purpose, call[h].channel, call[h].n)
  /\ Return(h)
  /\ UNCHANGED <<sessions, tokens, user, requests, faults>>

(* Four operations run otpService.verify.  verifyOtp takes any purpose.    *)
VerifyOtp(h) ==
  /\ \E p \in Purposes :
       Start(h, [Idle EXCEPT !.op = "verify", !.at = "find", !.purpose = p])
  /\ UNCHANGED <<rows, user, faults>>

VerifyEmail(h) ==
  /\ Start(h, [Idle EXCEPT !.op = "verify", !.at = "find", !.purpose = "VERIFY"])
  /\ UNCHANGED <<rows, user, faults>>

ResetPassword(h) ==
  /\ Start(h, [Idle EXCEPT !.op = "reset", !.at = "find", !.purpose = "PASSWORD_RESET"])
  /\ UNCHANGED <<rows, user, faults>>

(* What assertAccountCanLogin will say of the user as it is now. *)
CanLogin ==
  IF user.status = NoUser THEN "NONE"
  ELSE IF Barred \/ user.lock = "held" THEN "REFUSED"
  ELSE IF user.status = "ACTIVE" THEN "ACTIVE" ELSE "PENDING"

(* The user is read before the code is verified. *)
VerifyPhoneAuthOtp(h) ==
  /\ Start(h, [Idle EXCEPT !.op = "phone", !.at = "find", !.purpose = "PHONE_AUTH",
                           !.seen = CanLogin, !.epoch = user.epoch])
  /\ UNCHANGED <<rows, user, faults>>

(* otpService.verify: find a live code with attempts left and compare. *)
FindCode(h) ==
  /\ At(h, "find")
  /\ LET i == FindActive(call[h].purpose) IN
     IF i = 0 \/ codes[i].attempts <= 0 THEN Return(h)
     ELSE \E next \in {"consume", "decrement"} :
            call' = [call EXCEPT ![h].at = next, ![h].n = i]
  /\ UNCHANGED <<rows, user, requests, faults>>

WrongCode(h) ==
  /\ At(h, "decrement")
  /\ DecrementAttempts(call[h].n)
  /\ Return(h)
  /\ UNCHANGED <<sessions, tokens, user, requests, faults>>

(* What follows the consumption: a verified address, a new password, or a  *)
(* sign-in, for which the account read before the code was verified must   *)
(* not be barred or locked; markPhoneVerified is skipped when an active    *)
(* account has its phone verified already.                                 *)
AfterCode(c) ==
  IF c.op = "verify" THEN IF c.purpose = "VERIFY" THEN {"markVerified"} ELSE {"idle"}
  ELSE IF c.op = "reset" THEN {"setPassword"}
  ELSE [NONE    |-> {"createUser"}, REFUSED |-> {"idle"},
        PENDING |-> {"markVerified"},
        ACTIVE  |-> {"markVerified", "resetFailed"}][c.seen]

Consume(h) ==
  /\ At(h, "consume")
  /\ ConsumeRow(call[h].n)
  /\ \E next \in AfterCode(call[h]) :
       IF next = "idle" THEN Return(h)
       ELSE call' = [call EXCEPT ![h].at = next, ![h].n = 0]
  /\ UNCHANGED <<sessions, tokens, user, requests, faults>>

(* markEmailVerified and markPhoneVerified activate whatever they find. *)
MarkVerified(h) ==
  /\ At(h, "markVerified")
  /\ user' = [user EXCEPT !.status = IF @ = NoUser THEN @ ELSE "ACTIVE"]
  /\ IF call[h].op = "phone" THEN Goto(h, "resetFailed") ELSE Return(h)
  /\ UNCHANGED <<rows, requests, faults>>

-----------------------------------------------------------------------------
(* Signing up and in. *)
Signup(h) ==
  /\ user.status = NoUser
  /\ \E ch \in Channels :
       Start(h, [Idle EXCEPT !.op = "signup", !.at = "createUser", !.channel = ch])
  /\ UNCHANGED <<rows, user, faults>>

(* The second of two creations fails on the unique index. *)
CreateUser(h) ==
  /\ At(h, "createUser")
  /\ IF user.status = NoUser
     THEN /\ user' = [user EXCEPT
               !.status = IF call[h].op = "phone" THEN "ACTIVE"
                          ELSE "PENDING_VERIFICATION",
               !.password = call[h].op = "signup"]
          /\ Goto(h, "openSession")
     ELSE Return(h) /\ UNCHANGED user
  /\ UNCHANGED <<rows, requests, faults>>

(* login: the status, the lock and the password are those of one read. *)
Login(h) ==
  /\ user.status # NoUser /\ user.password /\ ~Barred /\ user.lock # "held"
  /\ \/ Start(h, [Idle EXCEPT !.op = "login", !.at = "resetFailed",
                              !.epoch = user.epoch])
     \/ Start(h, [Idle EXCEPT !.op = "login", !.at = "bump", !.n = user.failed + 1])
  /\ UNCHANGED <<rows, user, faults>>

(* Seeded fault: the lock is set one attempt late. *)
BumpLate(h) ==
  /\ At(h, "bump")
  /\ user' = [user EXCEPT !.failed = @ + 1,
                          !.lock = IF call[h].n > LockThreshold THEN "held" ELSE @]
  /\ Return(h)
  /\ UNCHANGED <<rows, requests, faults>>

BumpFailedLogin(h) ==
  /\ At(h, "bump")
  /\ user' = [user EXCEPT !.failed = @ + 1,
                          !.lock = IF call[h].n >= LockThreshold THEN "held" ELSE @]
  /\ Return(h)
  /\ UNCHANGED <<rows, requests, faults>>

ResetFailedLogin(h) ==
  /\ At(h, "resetFailed")
  /\ user' = [user EXCEPT !.failed = 0, !.lock = "none"]
  /\ Goto(h, IF call[h].op = "reset" THEN "revokeAll" ELSE "openSession")
  /\ UNCHANGED <<rows, requests, faults>>

OpenSession(h) ==
  /\ At(h, "openSession")
  /\ CreateSession(call[h].epoch)
  /\ call' = [call EXCEPT ![h].at = "issuePair", ![h].session = Len(sessions) + 1]
  /\ UNCHANGED <<codes, tokens, user, requests, faults>>

IssuePair(h) ==
  /\ At(h, "issuePair")
  /\ CreateToken(call[h].session, call[h].n)
  /\ IF call[h].op = "refresh" THEN Goto(h, "markRotated")
     ELSE IF call[h].op = "signup" THEN Goto(h, "throttle") ELSE Return(h)
  /\ UNCHANGED <<codes, sessions, user, requests, faults>>

-----------------------------------------------------------------------------
(* refresh: rotate reads the row; sessionRepository.touch is then given    *)
(* the id of a token and changes no session.                               *)
Refresh(h) ==
  /\ \E t \in DOMAIN tokens :
       Start(h, [Idle EXCEPT !.op = "refresh", !.n = t,
                             !.session = tokens[t].session,
                             !.at = IF Usable(t) THEN "issuePair" ELSE "markReplay"])
  /\ UNCHANGED <<rows, user, faults>>

MarkRotated(h) ==
  /\ At(h, "markRotated")
  /\ MarkRotatedRow(call[h].n)
  /\ Return(h)
  /\ UNCHANGED <<codes, sessions, user, requests, faults>>

MarkReplay(h) ==
  /\ At(h, "markReplay")
  /\ MarkReuse(call[h].n)
  /\ Goto(h, "revokeSession")
  /\ UNCHANGED <<codes, sessions, user, requests, faults>>

RevokeSession(h) ==
  /\ At(h, "revokeSession")
  /\ RevokeSessionRow(call[h].session)
  /\ IF call[h].op = "revokeMine" THEN Goto(h, "revokeTokens") ELSE Return(h)
  /\ UNCHANGED <<codes, tokens, user, requests, faults>>

RevokeTokens(h) ==
  /\ At(h, "revokeTokens")
  /\ RevokeForSession(call[h].session)
  /\ Return(h)
  /\ UNCHANGED <<codes, sessions, user, requests, faults>>

(* requireAuth, in front of the operations of a signed-in user. *)
Authorized(s) == sessions[s].status = "ACTIVE" /\ ~Barred

RevokeMine(h) ==
  /\ \E s \in DOMAIN sessions, target \in DOMAIN sessions :
       /\ Authorized(s)
       /\ Start(h, [Idle EXCEPT !.op = "revokeMine", !.at = "revokeSession",
                                !.session = target])
  /\ UNCHANGED <<rows, user, faults>>

(* Operations of one write.  logoutAll is asked for from a device; an      *)
(* administrator revokes all sessions from elsewhere.                      *)
AtOnce ==
  /\ requests < MaxRequests
  /\ requests' = requests + 1
  /\ UNCHANGED <<codes, tokens, user, call, faults>>

Logout == AtOnce /\ \E s \in DOMAIN sessions : Authorized(s) /\ RevokeSessionRow(s)
LogoutAll == AtOnce /\ (\E s \in DOMAIN sessions : Authorized(s)) /\ RevokeAllForUser
AdminRevokeAllForUser == AtOnce /\ RevokeAllForUser

-----------------------------------------------------------------------------
(* changePassword and, after its code, resetPassword, which then clears    *)
(* the counter of failed logins.                                           *)
ChangePassword(h) ==
  /\ user.password
  /\ \E s \in DOMAIN sessions : Authorized(s)
  /\ Start(h, [Idle EXCEPT !.op = "change", !.at = "setPassword"])
  /\ UNCHANGED <<rows, user, faults>>

UpdatePasswordHash(h) ==
  /\ At(h, "setPassword")
  /\ IF user.status = NoUser THEN Return(h) /\ UNCHANGED user
     ELSE /\ user' = [user EXCEPT !.password = TRUE, !.epoch = @ + 1]
          /\ call' = [call EXCEPT
               ![h].at = IF call[h].op = "reset" THEN "resetFailed" ELSE "revokeAll",
               ![h].epoch = user.epoch + 1]
  /\ UNCHANGED <<rows, requests, faults>>

(* adminUpdateUser: a suspension is followed by revoking the sessions. *)
AdminUpdateUser(h) ==
  /\ user.status # NoUser
  /\ \E status \in UserStatuses :
       IF status = "SUSPENDED"
       THEN /\ user' = [user EXCEPT !.status = status, !.epoch = @ + 1]
            /\ Start(h, [Idle EXCEPT !.op = "suspend", !.at = "revokeAll",
                                     !.epoch = user.epoch + 1])
       ELSE /\ user' = [user EXCEPT !.status = status]
            /\ Start(h, Idle)
  /\ UNCHANGED <<rows, faults>>

RevokeAll(h) ==
  /\ At(h, "revokeAll")
  /\ RevokeAllForUser
  /\ user' = [user EXCEPT !.swept = IF call[h].epoch > @ THEN call[h].epoch ELSE @]
  /\ Return(h)
  /\ UNCHANGED <<codes, tokens, requests, faults>>

-----------------------------------------------------------------------------
LockLapses ==
  /\ user.lock = "held"
  /\ user' = [user EXCEPT !.lock = "lapsed"]
  /\ UNCHANGED <<rows, call, requests, faults>>

TimePasses ==
  /\ CodeExpires \/ MinutePasses
  /\ UNCHANGED <<sessions, tokens, user, call, requests, faults>>

Crash(h) ==
  /\ call[h] # Idle /\ faults < MaxFaults
  /\ faults' = faults + 1
  /\ Return(h)
  /\ UNCHANGED <<rows, user, requests>>

CodeStep(h) ==
  \/ Throttle(h) \/ Invalidate(h) \/ CreateCode(h)
  \/ FindCode(h) \/ WrongCode(h) \/ Consume(h) \/ MarkVerified(h)

SessionStep(h) ==
  \/ CreateUser(h) \/ BumpFailedLogin(h) \/ ResetFailedLogin(h)
  \/ OpenSession(h) \/ IssuePair(h) \/ MarkRotated(h) \/ MarkReplay(h)
  \/ RevokeSession(h) \/ RevokeTokens(h) \/ UpdatePasswordHash(h) \/ RevokeAll(h)

Next ==
  \/ \E h \in Handlers :
       \/ RequestOtp(h) \/ ForgotPassword(h) \/ SendPhoneAuthOtp(h)
       \/ VerifyOtp(h) \/ VerifyEmail(h) \/ ResetPassword(h) \/ VerifyPhoneAuthOtp(h)
       \/ Signup(h) \/ Login(h) \/ Refresh(h)
       \/ RevokeMine(h) \/ ChangePassword(h) \/ AdminUpdateUser(h)
       \/ CodeStep(h) \/ SessionStep(h) \/ Crash(h)
  \/ Logout \/ LogoutAll \/ AdminRevokeAllForUser
  \/ LockLapses \/ TimePasses

Spec == Init /\ [][Next]_vars

-----------------------------------------------------------------------------
(* A code and a refresh token are tickets: whatever the requests, a row is *)
(* redeemed once per handler that had read it before the first one closed  *)
(* it (and once per crash between the two), and never afterwards.          *)
Codes ==
  INSTANCE Tickets WITH
    ticket <- [i \in DOMAIN codes |-> [open |-> Live(i), uses |-> codes[i].uses]],
    held <- [h \in Handlers |->
               [ticket |-> IF At(h, "consume") THEN call[h].n ELSE 0, spent |-> FALSE]],
    lost <- faults
Tokens ==
  INSTANCE Tickets WITH
    ticket <- [i \in DOMAIN tokens |-> [open |-> Usable(i), uses |-> tokens[i].uses]],
    held <- [h \in Handlers |->
               [ticket |-> IF call[h].op = "refresh" /\ call[h].at \in {"issuePair", "markRotated"}
                           THEN call[h].n ELSE 0,
                spent |-> At(h, "markRotated")]],
    lost <- faults

(* otp.service.verify reads, compares and consumes a code in three calls,   *)
(* token.service.rotate reads, exchanges and marks a refresh token in       *)
(* three: both behave as the tickets of Tickets.tla, so that a code is      *)
(* verified and a token exchanged at most once per handler that runs at     *)
(* the same time (CredentialsRedeemedOnlyAtOnce in AuthenticationProofs).   *)
CredentialsAreTickets == Codes!Spec /\ Tokens!Spec

(* Two codes for one purpose and channel are valid at the same time only   *)
(* if the request for the newer one had invalidated the codes before the   *)
(* older one was stored: the throttle let two requests through at once.    *)
TwoCodesNeedTwoRequestsAtOnce ==
  \A i, j \in DOMAIN codes :
    /\ i < j /\ Live(i) /\ Live(j)
    /\ codes[i].purpose = codes[j].purpose /\ codes[i].channel = codes[j].channel
    => codes[j].cleared < i

(* The login lock is missed only by attempts that read the counter at the  *)
(* same time: an account that is not locked, and whose lock did not lapse, *)
(* has at most LockThreshold - 2 failures and one per handler.             *)
LockMissedOnlyAtOnce ==
  user.lock = "none" => user.failed <= LockThreshold - 2 + Cardinality(Handlers)

(* A change of password or a suspension ends every session opened before   *)
(* it, but not those of sign-ins that had read the user before it and      *)
(* opened their session after the sweep: fewer than there are handlers.    *)
SweepSparesOnlySignInsUnderWay ==
  LET Stale == {s \in DOMAIN sessions : /\ sessions[s].status = "ACTIVE"
                                        /\ sessions[s].epoch < user.swept}
  IN Cardinality(Stale) < Cardinality(Handlers)
=============================================================================
