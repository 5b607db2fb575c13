---------------------------- MODULE AuthService ----------------------------
(***************************************************************************)
(* auth_service: login by one-time code, lockout, lock and logout.          *)
(*                                                                         *)
(* authenticate and verify_otp finish in a callback that runs after a       *)
(* delay and looks at nothing: neither the state nor the streak is checked  *)
(* again.  What interleaves is those callbacks, the user's calls and time.  *)
(*                                                                         *)
(* A code is issued or not, and an entered code is empty, the right one or  *)
(* a wrong one; a code superseded by a later one is a wrong one.            *)
(***************************************************************************)
EXTENDS Integers

CONSTANTS
  MaxFailures,    \* max_failures
  LockoutTicks,   \* lockout_seconds, in clock ticks
  OtpTicks,       \* otp_validity_seconds, in clock ticks
  Deferred,       \* the latencies are positive (production) or zero (tests)
  GuardedByUi,    \* the pages' buttons: no logout and no resend while busy
  StreakBound     \* bound on fail_streak

ASSUME AuthAssumption ==
  /\ MaxFailures \in Nat \ {0}
  /\ LockoutTicks \in Nat \ {0}
  /\ OtpTicks \in Nat
  /\ Deferred \in BOOLEAN
  /\ GuardedByUi \in BOOLEAN
  /\ StreakBound \in Nat

VARIABLE auth

vars == <<auth>>

AuthState == {"LoggedOut", "AwaitingOtp", "Active", "Locked"}

\* lockout_left: time left until lockout_until_; otp_age: time since the code was
\* issued, as far as expiry can tell; auth_timers and verify_timers: callbacks
\* outstanding.
Auth ==
  [ state         : AuthState,
    busy          : BOOLEAN,
    fail_streak   : Nat,
    lockout_left  : 0..LockoutTicks,
    otp_issued    : BOOLEAN,
    otp_age       : 0..(OtpTicks + 1),
    auth_timers   : Nat,
    verify_timers : Nat ]

Init == auth = [ state |-> "LoggedOut", busy |-> FALSE, fail_streak |-> 0,
                 lockout_left |-> 0, otp_issued |-> FALSE, otp_age |-> 0,
                 auth_timers |-> 0, verify_timers |-> 0 ]

-----------------------------------------------------------------------------
(* Helpers, as functions of the record.                                    *)

\* Mutant of InLockout: the lockout does not end with its time.
InLockoutForever(a) == a.fail_streak >= MaxFailures

InLockout(a) == a.fail_streak >= MaxFailures /\ a.lockout_left > 0

OtpExpired(a) == a.otp_age > OtpTicks

\* code.compare(otp_code_) = 0: a cleared code is the empty string.
Matches(a, code) == IF a.otp_issued THEN code = "right" ELSE code = "empty"

IssueOtp(a) == [a EXCEPT !.otp_issued = TRUE, !.otp_age = 0]

\* Mutants of AuthDone and VerifyDone: no code is issued; busy stays on.
AuthDoneWithoutCode(a) == [a EXCEPT !.busy = FALSE]

VerifyDoneStaysBusy(a) ==
  [a EXCEPT !.fail_streak = 0, !.otp_issued = FALSE, !.state = "Active"]

\* The callbacks of authenticate and of verify_otp.
AuthDone(a) == IssueOtp([a EXCEPT !.busy = FALSE])

VerifyDone(a) ==
  [a EXCEPT !.busy = FALSE, !.fail_streak = 0, !.otp_issued = FALSE, !.state = "Active"]

\* Mutant of Missed: the lockout leaves the user at the code's page.
MissedStays(a) ==
  LET counted == [a EXCEPT !.fail_streak = @ + 1] IN
  IF counted.fail_streak >= MaxFailures THEN [counted EXCEPT !.lockout_left = LockoutTicks]
                                        ELSE counted

\* A wrong code; the max_failures-th in a row, and every later one, locks out.
Missed(a) ==
  LET counted == [a EXCEPT !.fail_streak = @ + 1] IN
  IF counted.fail_streak >= MaxFailures
  THEN [counted EXCEPT !.lockout_left = LockoutTicks, !.state = "LoggedOut"]
  ELSE counted

-----------------------------------------------------------------------------
(* Actions.                                                                *)

\* authenticate with both fields filled in; otherwise, and in a lockout, it
\* only reports.
Authenticate ==
  /\ ~auth.busy
  /\ auth.state \notin {"Locked", "Active"}
  /\ ~InLockout(auth)
  /\ LET asked == [auth EXCEPT !.busy = TRUE, !.state = "AwaitingOtp"] IN
     auth' = IF Deferred THEN [asked EXCEPT !.auth_timers = @ + 1] ELSE AuthDone(asked)

\* Mutant of MayVerify: the state is not looked at.
MayVerifyAnywhere == ~auth.busy /\ ~InLockout(auth) /\ ~OtpExpired(auth)

\* The early returns of verify_otp.
MayVerify == /\ ~auth.busy
             /\ auth.state = "AwaitingOtp"
             /\ ~InLockout(auth)
             /\ ~OtpExpired(auth)

VerifyWrong(code) ==
  /\ MayVerify
  /\ ~Matches(auth, code)
  /\ auth.fail_streak < StreakBound
  /\ auth' = Missed(auth)

VerifyRight(code) ==
  /\ MayVerify
  /\ Matches(auth, code)
  /\ LET asked == [auth EXCEPT !.busy = TRUE] IN
     auth' = IF Deferred THEN [asked EXCEPT !.verify_timers = @ + 1] ELSE VerifyDone(asked)

VerifyOtp(code) == VerifyWrong(code) \/ VerifyRight(code)

ResendOtp ==
  /\ auth.state = "AwaitingOtp"
  /\ ~InLockout(auth)
  /\ GuardedByUi => ~auth.busy
  /\ auth' = IssueOtp(auth)

Lock == /\ auth.state = "Active"
        /\ auth' = [auth EXCEPT !.state = "Locked"]

\* unlock with a password that is not empty.
Unlock == /\ auth.state = "Locked"
          /\ auth' = [auth EXCEPT !.state = "Active"]

\* Mutant of Logout: it forgets the streak in a lockout too.
LogoutForgets ==
  /\ auth.state # "LoggedOut" \/ InLockout(auth)
  /\ GuardedByUi => ~auth.busy
  /\ auth' = [auth EXCEPT !.state = "LoggedOut", !.otp_issued = FALSE, !.fail_streak = 0]

\* logout: a lockout keeps its streak, anything else forgets it.
Logout ==
  /\ auth.state # "LoggedOut" \/ InLockout(auth)
  /\ GuardedByUi => ~auth.busy
  /\ auth' = [auth EXCEPT !.state = "LoggedOut",
                          !.otp_issued = FALSE,
                          !.fail_streak = IF InLockout(auth) THEN @ ELSE 0]

AuthCallback ==
  /\ auth.auth_timers > 0
  /\ auth' = AuthDone([auth EXCEPT !.auth_timers = @ - 1])

VerifyCallback ==
  /\ auth.verify_timers > 0
  /\ auth' = VerifyDone([auth EXCEPT !.verify_timers = @ - 1])

\* Mutant of ClockTick: lockout_seconds_left without its floor.
ClockTickUnclamped ==
  auth' = [auth EXCEPT !.lockout_left = @ - 1,
                       !.otp_age = IF OtpExpired(auth) THEN @ ELSE @ + 1]

ClockTick ==
  auth' = [auth EXCEPT !.lockout_left = IF @ > 0 THEN @ - 1 ELSE 0,
                       !.otp_age = IF OtpExpired(auth) THEN @ ELSE @ + 1]

UserStep == \/ Authenticate
            \/ \E code \in {"empty", "right", "wrong"} : VerifyOtp(code)
            \/ ResendOtp
            \/ Lock
            \/ Unlock
            \/ Logout

Next == UserStep \/ AuthCallback \/ VerifyCallback \/ ClockTick

Spec == Init /\ [][Next]_vars

\* The event loop runs the callbacks and time passes; the user owes nothing.
Fairness == WF_vars(AuthCallback) /\ WF_vars(VerifyCallback) /\ WF_vars(ClockTick)

FairSpec == Spec /\ Fairness

-----------------------------------------------------------------------------
(* Invariants.                                                             *)

\* The service is a well-formed record.
TypeOK == auth \in Auth

\* busy marks exactly one outstanding callback, so a login or a verification can
\* neither be started twice nor leave the buttons disabled with nothing to wait
\* for.
OneCallbackWhileBusy ==
  auth.auth_timers + auth.verify_timers = (IF auth.busy THEN 1 ELSE 0)

\* During a lockout the user is logged out and nothing is in flight that could
\* log them in: refusing authenticate and verify_otp is enough.
LockoutIsShut == InLockout(auth) => auth.state = "LoggedOut" /\ ~auth.busy

\* Whenever verify_otp would look at a code, one has been issued: the cleared
\* otp_code_ is never compared with what the user typed.
CodeIsOut == (auth.state = "AwaitingOtp" /\ ~auth.busy) => auth.otp_issued

-----------------------------------------------------------------------------
(* Action properties.                                                      *)

\* "Logging out during a cooldown must not reset it": only time shortens a
\* lockout, by the time that passes, and nothing forgets the streak meanwhile.
LockoutIsServed ==
  [][InLockout(auth) => /\ auth'.fail_streak = auth.fail_streak
                        /\ auth'.lockout_left \in {auth.lockout_left, auth.lockout_left - 1}]_vars

\* The state diagram of auth_service.h.
Diagram == { <<"LoggedOut", "AwaitingOtp">>, <<"AwaitingOtp", "Active">>,
             <<"Active", "Locked">>, <<"Locked", "Active">>,
             <<"AwaitingOtp", "LoggedOut">>, <<"Active", "LoggedOut">>, <<"Locked", "LoggedOut">> }

\* The state moves along the edges of that diagram: Active is entered only from
\* AwaitingOtp or by unlocking.
FollowsDiagram ==
  [][auth'.state # auth.state => <<auth.state, auth'.state>> \in Diagram]_vars

-----------------------------------------------------------------------------
(* Liveness, of FairSpec.                                                  *)

\* A lockout ends whatever the user tries meanwhile.
LockoutEnds == InLockout(auth) ~> ~InLockout(auth)

=============================================================================
