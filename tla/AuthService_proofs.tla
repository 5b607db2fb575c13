------------------------- MODULE AuthService_proofs -------------------------
(***************************************************************************)
(* Proofs about AuthService, for any number of tries, lockout and validity. *)
(*                                                                         *)
(* The callback invariant and the lockout invariant need each other: a      *)
(* lockout begins only while nothing is in flight, and while it lasts       *)
(* nothing is started.  Good puts them together for one record; AuthInv is  *)
(* the inductive invariant.                                                *)
(***************************************************************************)
EXTENDS AuthService, TLAPS

Good(a) ==
  /\ a \in Auth
  /\ a.auth_timers + a.verify_timers = (IF a.busy THEN 1 ELSE 0)
  /\ InLockout(a) => a.state = "LoggedOut" /\ ~a.busy
  /\ (a.state = "AwaitingOtp" /\ ~a.busy) => a.otp_issued
  /\ (GuardedByUi /\ a.busy) => a.state = "AwaitingOtp"

AuthInv == Good(auth)

\* What an invariant says of the record, one conjunct at a time.
LEMMA GoodImplies ==
  AuthInv => TypeOK /\ OneCallbackWhileBusy /\ LockoutIsShut /\ CodeIsOut
  BY DEF AuthInv, Good, TypeOK, OneCallbackWhileBusy, LockoutIsShut, CodeIsOut

-----------------------------------------------------------------------------
(* The helpers: what each one sets and what it leaves alone.               *)

LEMMA IssueOtpFields ==
  ASSUME NEW a \in Auth
  PROVE  LET d == IssueOtp(a) IN
         /\ d \in Auth /\ d.otp_issued
         /\ d.state = a.state /\ d.busy = a.busy
         /\ d.fail_streak = a.fail_streak /\ d.lockout_left = a.lockout_left
         /\ d.auth_timers = a.auth_timers /\ d.verify_timers = a.verify_timers
  <1>1. 0 \in 0..(OtpTicks + 1)
    BY AuthAssumption
  <1>2. IssueOtp(a) \in Auth
    BY <1>1 DEF IssueOtp, Auth
  <1> QED
    BY <1>2 DEF IssueOtp, Auth

LEMMA AuthDoneFields ==
  ASSUME NEW a \in Auth
  PROVE  LET d == AuthDone(a) IN
         /\ d \in Auth /\ d.otp_issued /\ ~d.busy
         /\ d.state = a.state
         /\ d.fail_streak = a.fail_streak /\ d.lockout_left = a.lockout_left
         /\ d.auth_timers = a.auth_timers /\ d.verify_timers = a.verify_timers
  <1> DEFINE idle == [a EXCEPT !.busy = FALSE]
  <1>1. /\ idle \in Auth /\ ~idle.busy
        /\ idle.state = a.state
        /\ idle.fail_streak = a.fail_streak /\ idle.lockout_left = a.lockout_left
        /\ idle.auth_timers = a.auth_timers /\ idle.verify_timers = a.verify_timers
    BY DEF Auth
  <1>2. AuthDone(a) = IssueOtp(idle)
    BY DEF AuthDone
  <1> HIDE DEF idle
  <1> QED
    BY <1>1, <1>2, IssueOtpFields

LEMMA VerifyDoneFields ==
  ASSUME NEW a \in Auth
  PROVE  LET d == VerifyDone(a) IN
         /\ d \in Auth /\ ~d.busy
         /\ d.state = "Active"
         /\ d.fail_streak = 0
         /\ d.auth_timers = a.auth_timers /\ d.verify_timers = a.verify_timers
  <1>1. VerifyDone(a) \in Auth
    BY DEF VerifyDone, Auth, AuthState
  <1> QED
    BY <1>1 DEF VerifyDone, Auth

LEMMA MissedFields ==
  ASSUME NEW a \in Auth
  PROVE  LET d == Missed(a) IN
         /\ d \in Auth
         /\ d.busy = a.busy /\ d.otp_issued = a.otp_issued
         /\ d.state \in {a.state, "LoggedOut"}
         /\ d.fail_streak >= MaxFailures => d.state = "LoggedOut"
         /\ d.auth_timers = a.auth_timers /\ d.verify_timers = a.verify_timers
  <1> DEFINE counted == [a EXCEPT !.fail_streak = @ + 1]
  <1>1. /\ counted \in Auth
        /\ counted.busy = a.busy /\ counted.otp_issued = a.otp_issued
        /\ counted.state = a.state
        /\ counted.auth_timers = a.auth_timers /\ counted.verify_timers = a.verify_timers
    BY DEF Auth
  <1>2. Missed(a) = IF counted.fail_streak >= MaxFailures
                    THEN [counted EXCEPT !.lockout_left = LockoutTicks, !.state = "LoggedOut"]
                    ELSE counted
    BY DEF Missed
  <1> HIDE DEF counted
  <1>3. LockoutTicks \in 0..LockoutTicks /\ "LoggedOut" \in AuthState
    BY AuthAssumption DEF AuthState
  <1>4. CASE counted.fail_streak >= MaxFailures
    <2>1. Missed(a) = [counted EXCEPT !.lockout_left = LockoutTicks, !.state = "LoggedOut"]
      BY <1>2, <1>4
    <2>2. Missed(a) \in Auth
      BY <1>1, <1>3, <2>1 DEF Auth
    <2> QED
      BY <1>1, <2>1, <2>2 DEF Auth
  <1>5. CASE ~(counted.fail_streak >= MaxFailures)
    BY <1>1, <1>2, <1>5
  <1> QED
    BY <1>4, <1>5

\* A callback, from a busy record that has it outstanding.
LEMMA RungFields ==
  ASSUME NEW a, Good(a)
  PROVE  /\ a.auth_timers > 0 =>
              LET r == [a EXCEPT !.auth_timers = @ - 1] IN
              /\ r \in Auth /\ r.auth_timers + r.verify_timers = 0 /\ a.busy
              /\ r.state = a.state
              /\ r.fail_streak = a.fail_streak /\ r.lockout_left = a.lockout_left
         /\ a.verify_timers > 0 =>
              LET r == [a EXCEPT !.verify_timers = @ - 1] IN
              /\ r \in Auth /\ r.auth_timers + r.verify_timers = 0 /\ a.busy
  <1>1. a \in Auth /\ a.auth_timers \in Nat /\ a.verify_timers \in Nat /\ a.busy \in BOOLEAN
        /\ a.auth_timers + a.verify_timers = (IF a.busy THEN 1 ELSE 0)
    BY DEF Good, Auth
  <1>2. CASE a.auth_timers > 0
    <2> DEFINE r == [a EXCEPT !.auth_timers = @ - 1]
    <2>1. a.auth_timers - 1 \in Nat
      BY <1>1, <1>2
    <2>2. r \in Auth
      BY <1>1, <2>1 DEF Auth
    <2>3. r.auth_timers = a.auth_timers - 1 /\ r.verify_timers = a.verify_timers
          /\ r.state = a.state /\ r.fail_streak = a.fail_streak /\ r.lockout_left = a.lockout_left
      BY <1>1 DEF Auth
    <2>4. a.busy /\ a.auth_timers = 1 /\ a.verify_timers = 0
      BY <1>1, <1>2
    <2> QED
      BY <2>2, <2>3, <2>4
  <1>3. CASE a.verify_timers > 0
    <2> DEFINE r == [a EXCEPT !.verify_timers = @ - 1]
    <2>1. a.verify_timers - 1 \in Nat
      BY <1>1, <1>3
    <2>2. r \in Auth
      BY <1>1, <2>1 DEF Auth
    <2>3. r.verify_timers = a.verify_timers - 1 /\ r.auth_timers = a.auth_timers
      BY <1>1 DEF Auth
    <2>4. a.busy /\ a.verify_timers = 1 /\ a.auth_timers = 0
      BY <1>1, <1>3
    <2> QED
      BY <2>2, <2>3, <2>4
  <1> QED
    BY <1>1, <1>2, <1>3

-----------------------------------------------------------------------------
(* The inductive invariant.                                                *)

LEMMA InitInv == Init => AuthInv
  <1> SUFFICES ASSUME Init PROVE AuthInv
    OBVIOUS
  <1>1. 0 \in 0..LockoutTicks /\ 0 \in 0..(OtpTicks + 1) /\ "LoggedOut" \in AuthState
    BY AuthAssumption DEF AuthState
  <1>2. auth \in Auth
    BY <1>1 DEF Init, Auth
  <1> QED
    BY <1>2 DEF Init, AuthInv, Good, InLockout

LEMMA StepInv == AuthInv /\ [Next]_vars => AuthInv'
  <1> SUFFICES ASSUME AuthInv, [Next]_vars PROVE AuthInv'
    OBVIOUS
  <1>0. Good(auth) /\ auth \in Auth
    BY DEF AuthInv, Good
  <1> SUFFICES Good(auth')
    BY DEF AuthInv, Good, Auth, AuthState, InLockout
  <1>1. CASE Authenticate
    <2> DEFINE asked == [auth EXCEPT !.busy = TRUE, !.state = "AwaitingOtp"]
    <2>1. "AwaitingOtp" \in AuthState
      BY DEF AuthState
    <2>2. /\ asked \in Auth /\ asked.busy /\ asked.state = "AwaitingOtp"
          /\ asked.auth_timers = auth.auth_timers /\ asked.verify_timers = auth.verify_timers
          /\ asked.fail_streak = auth.fail_streak /\ asked.lockout_left = auth.lockout_left
      BY <1>0, <2>1 DEF Auth
    <2>3. ~InLockout(auth) /\ ~auth.busy
          /\ auth' = IF Deferred THEN [asked EXCEPT !.auth_timers = @ + 1] ELSE AuthDone(asked)
      BY <1>1 DEF Authenticate
    <2> HIDE DEF asked
    <2>4. ~InLockout(asked) /\ asked.auth_timers + asked.verify_timers = 0
      BY <1>0, <2>2, <2>3 DEF InLockout, Good
    <2>5. CASE Deferred
      <3>1. auth' = [asked EXCEPT !.auth_timers = asked.auth_timers + 1]
        BY <2>3, <2>5
      <3>2. asked.auth_timers \in Nat /\ asked.verify_timers \in Nat
        BY <2>2 DEF Auth
      <3>3. auth' \in Auth
        BY <2>2, <3>1, <3>2 DEF Auth
      <3>4. /\ auth'.auth_timers = asked.auth_timers + 1
            /\ auth'.verify_timers = asked.verify_timers
            /\ auth'.busy /\ auth'.state = "AwaitingOtp"
            /\ auth'.fail_streak = asked.fail_streak /\ auth'.lockout_left = asked.lockout_left
        BY <2>2, <3>1 DEF Auth
      <3> QED
        BY <2>4, <3>2, <3>3, <3>4 DEF Good, InLockout
    <2>6. CASE ~Deferred
      BY <2>2, <2>3, <2>4, <2>6, AuthDoneFields DEF Good, InLockout
    <2> QED
      BY <2>5, <2>6
  <1>2. ASSUME NEW code, VerifyWrong(code) PROVE Good(auth')
    <2>1. auth' = Missed(auth) /\ ~auth.busy /\ auth.state = "AwaitingOtp"
      BY <1>2 DEF VerifyWrong, MayVerify
    <2> QED
      BY <1>0, <2>1, MissedFields DEF Good, InLockout
  <1>3. ASSUME NEW code, VerifyRight(code) PROVE Good(auth')
    <2> DEFINE asked == [auth EXCEPT !.busy = TRUE]
    <2>1. /\ asked \in Auth /\ asked.busy /\ asked.state = auth.state
          /\ asked.auth_timers = auth.auth_timers /\ asked.verify_timers = auth.verify_timers
          /\ asked.fail_streak = auth.fail_streak /\ asked.lockout_left = auth.lockout_left
      BY <1>0 DEF Auth
    <2>2. ~InLockout(auth) /\ ~auth.busy /\ auth.state = "AwaitingOtp"
          /\ auth' = IF Deferred THEN [asked EXCEPT !.verify_timers = @ + 1]
                                 ELSE VerifyDone(asked)
      BY <1>3 DEF VerifyRight, MayVerify
    <2> HIDE DEF asked
    <2>3. ~InLockout(asked) /\ asked.auth_timers + asked.verify_timers = 0
      BY <1>0, <2>1, <2>2 DEF InLockout, Good
    <2>4. CASE Deferred
      <3>1. auth' = [asked EXCEPT !.verify_timers = asked.verify_timers + 1]
        BY <2>2, <2>4
      <3>2. asked.auth_timers \in Nat /\ asked.verify_timers \in Nat
        BY <2>1 DEF Auth
      <3>3. auth' \in Auth
        BY <2>1, <3>1, <3>2 DEF Auth
      <3>4. /\ auth'.verify_timers = asked.verify_timers + 1
            /\ auth'.auth_timers = asked.auth_timers
            /\ auth'.busy /\ auth'.state = "AwaitingOtp"
            /\ auth'.fail_streak = asked.fail_streak /\ auth'.lockout_left = asked.lockout_left
        BY <2>1, <2>2, <3>1 DEF Auth
      <3> QED
        BY <2>3, <3>2, <3>3, <3>4 DEF Good, InLockout
    <2>5. CASE ~Deferred
      <3>1. ~(0 >= MaxFailures)
        BY AuthAssumption
      <3> QED
        BY <2>1, <2>2, <2>3, <2>5, <3>1, VerifyDoneFields DEF Good, InLockout
    <2> QED
      BY <2>4, <2>5
  <1>4. CASE ResendOtp
    BY <1>0, <1>4, IssueOtpFields DEF ResendOtp, Good, InLockout
  <1>5. CASE Lock
    <2>1. auth' = [auth EXCEPT !.state = "Locked"] /\ auth.state = "Active"
      BY <1>5 DEF Lock
    <2>2. auth' \in Auth
      BY <1>0, <2>1 DEF Auth, AuthState
    <2> QED
      BY <1>0, <2>1, <2>2 DEF Good, InLockout, Auth
  <1>6. CASE Unlock
    <2>1. auth' = [auth EXCEPT !.state = "Active"] /\ auth.state = "Locked"
      BY <1>6 DEF Unlock
    <2>2. auth' \in Auth
      BY <1>0, <2>1 DEF Auth, AuthState
    <2> QED
      BY <1>0, <2>1, <2>2 DEF Good, InLockout, Auth
  <1>7. CASE Logout
    <2> DEFINE kept == IF InLockout(auth) THEN auth.fail_streak ELSE 0
    <2>1. /\ auth' = [auth EXCEPT !.state = "LoggedOut", !.otp_issued = FALSE,
                                  !.fail_streak = kept]
          /\ GuardedByUi => ~auth.busy
      BY <1>7 DEF Logout
    <2>2. kept \in Nat /\ (kept >= MaxFailures => InLockout(auth))
      BY <1>0, AuthAssumption DEF Auth, InLockout
    <2> HIDE DEF kept
    <2>3. auth' \in Auth
      BY <1>0, <2>1, <2>2 DEF Auth, AuthState
    <2> QED
      BY <1>0, <2>1, <2>2, <2>3 DEF Good, InLockout, Auth
  <1>8. CASE AuthCallback
    <2> DEFINE rung == [auth EXCEPT !.auth_timers = @ - 1]
    <2>1. /\ rung \in Auth /\ rung.auth_timers + rung.verify_timers = 0 /\ auth.busy
          /\ rung.state = auth.state
          /\ rung.fail_streak = auth.fail_streak /\ rung.lockout_left = auth.lockout_left
      BY <1>0, <1>8, RungFields DEF AuthCallback
    <2>2. auth' = AuthDone(rung)
      BY <1>8 DEF AuthCallback
    <2> HIDE DEF rung
    <2>3. ~InLockout(rung)
      BY <1>0, <2>1 DEF Good, InLockout
    <2> QED
      BY <2>1, <2>2, <2>3, AuthDoneFields DEF Good, InLockout
  <1>9. CASE VerifyCallback
    <2> DEFINE rung == [auth EXCEPT !.verify_timers = @ - 1]
    <2>1. rung \in Auth /\ rung.auth_timers + rung.verify_timers = 0
      BY <1>0, <1>9, RungFields DEF VerifyCallback
    <2>2. auth' = VerifyDone(rung)
      BY <1>9 DEF VerifyCallback
    <2> HIDE DEF rung
    <2>3. ~(0 >= MaxFailures)
      BY AuthAssumption
    <2> QED
      BY <2>1, <2>2, <2>3, VerifyDoneFields DEF Good, InLockout
  <1>10. CASE ClockTick
    <2> DEFINE left == IF auth.lockout_left > 0 THEN auth.lockout_left - 1 ELSE 0
               age  == IF OtpExpired(auth) THEN auth.otp_age ELSE auth.otp_age + 1
    <2>1. auth' = [auth EXCEPT !.lockout_left = left, !.otp_age = age]
      BY <1>10 DEF ClockTick
    <2>2. auth.lockout_left \in 0..LockoutTicks /\ auth.otp_age \in 0..(OtpTicks + 1)
      BY <1>0 DEF Auth
    <2>3. left \in 0..LockoutTicks /\ (left > 0 => auth.lockout_left > 0)
      BY <2>2, AuthAssumption
    <2>4. age \in 0..(OtpTicks + 1)
      BY <2>2, AuthAssumption DEF OtpExpired
    <2> HIDE DEF left, age
    <2>5. auth' \in Auth
      BY <1>0, <2>1, <2>3, <2>4 DEF Auth
    <2> QED
      BY <1>0, <2>1, <2>3, <2>5 DEF Good, InLockout, Auth
  <1>11. CASE UNCHANGED vars
    BY <1>0, <1>11 DEF vars
  <1> QED
    BY <1>1, <1>2, <1>3, <1>4, <1>5, <1>6, <1>7, <1>8, <1>9, <1>10, <1>11
       DEF Next, UserStep, VerifyOtp

\* The inductive invariant holds of the specification.
THEOREM AuthInvariance == Spec => []AuthInv
  BY InitInv, StepInv, PTL DEF Spec

-----------------------------------------------------------------------------
(* The invariants.                                                         *)

\* Type correctness.
THEOREM TypeCorrect == Spec => []TypeOK
  BY AuthInvariance, GoodImplies, PTL

\* The service is busy exactly while one callback is outstanding.
THEOREM CallbacksCorrect == Spec => []OneCallbackWhileBusy
  BY AuthInvariance, GoodImplies, PTL

\* In a lockout the user is logged out and nothing in flight can log them in.
THEOREM LockoutCorrect == Spec => []LockoutIsShut
  BY AuthInvariance, GoodImplies, PTL

\* A code is out whenever one would be compared.
THEOREM CodesCorrect == Spec => []CodeIsOut
  BY AuthInvariance, GoodImplies, PTL

-----------------------------------------------------------------------------
(* The action properties.                                                  *)

\* A lockout is served in full: nothing but time shortens it and nothing forgets
\* the streak.
THEOREM LockoutServed == Spec => LockoutIsServed
  <1> DEFINE Served == InLockout(auth) =>
                         /\ auth'.fail_streak = auth.fail_streak
                         /\ auth'.lockout_left \in {auth.lockout_left, auth.lockout_left - 1}
  <1>1. AuthInv /\ [Next]_vars => [Served]_vars
    <2> SUFFICES ASSUME AuthInv, Next, InLockout(auth) PROVE Served
      OBVIOUS
    <2>1. /\ auth \in Auth /\ auth.state = "LoggedOut" /\ ~auth.busy
          /\ auth.auth_timers = 0 /\ auth.verify_timers = 0
      BY DEF AuthInv, Good, Auth
    <2>2. /\ ~Authenticate /\ ~ResendOtp /\ ~Lock /\ ~Unlock /\ ~AuthCallback /\ ~VerifyCallback
          /\ \A code : ~VerifyOtp(code)
      BY <2>1 DEF Authenticate, ResendOtp, Lock, Unlock, AuthCallback, VerifyCallback,
                  VerifyOtp, VerifyWrong, VerifyRight, MayVerify
    <2>3. CASE Logout
      BY <2>1, <2>3 DEF Logout, Auth
    <2>4. CASE ClockTick
      <3>1. auth'.fail_streak = auth.fail_streak
            /\ auth'.lockout_left = IF auth.lockout_left > 0 THEN auth.lockout_left - 1 ELSE 0
        BY <2>1, <2>4 DEF ClockTick, Auth
      <3> QED
        BY <3>1 DEF InLockout
    <2> QED
      BY <2>2, <2>3, <2>4 DEF Next, UserStep
  <1> QED
    BY <1>1, AuthInvariance, PTL DEF Spec, LockoutIsServed

\* With the buttons of the pages, the state follows the diagram: no callback
\* finds the user elsewhere than where it left them.
THEOREM DiagramFollowed == GuardedByUi => (Spec => FollowsDiagram)
  <1> SUFFICES ASSUME GuardedByUi PROVE Spec => FollowsDiagram
    OBVIOUS
  <1> DEFINE OnEdge == auth'.state # auth.state => <<auth.state, auth'.state>> \in Diagram
  <1>1. AuthInv /\ [Next]_vars => [OnEdge]_vars
    <2> SUFFICES ASSUME AuthInv, Next PROVE OnEdge
      OBVIOUS
    <2>1. /\ auth \in Auth
          /\ auth.busy => auth.state = "AwaitingOtp"
          /\ (auth.auth_timers > 0 \/ auth.verify_timers > 0) => auth.busy
      BY DEF AuthInv, Good, Auth
    <2>2. CASE Authenticate
      <3> DEFINE asked == [auth EXCEPT !.busy = TRUE, !.state = "AwaitingOtp"]
      <3>1. asked \in Auth /\ asked.state = "AwaitingOtp"
        BY <2>1 DEF Auth, AuthState
      <3>2. auth' = IF Deferred THEN [asked EXCEPT !.auth_timers = @ + 1] ELSE AuthDone(asked)
        BY <2>2 DEF Authenticate
      <3>3. auth.state \in {"LoggedOut", "AwaitingOtp"}
        BY <2>1, <2>2 DEF Authenticate, Auth, AuthState
      <3> HIDE DEF asked
      <3>4. auth'.state = "AwaitingOtp"
        BY <3>1, <3>2, AuthDoneFields DEF Auth
      <3> QED
        BY <3>3, <3>4 DEF Diagram
    <2>3. ASSUME NEW code, VerifyWrong(code) PROVE OnEdge
      BY <2>1, <2>3, MissedFields DEF VerifyWrong, MayVerify, Diagram
    <2>4. ASSUME NEW code, VerifyRight(code) PROVE OnEdge
      <3> DEFINE asked == [auth EXCEPT !.busy = TRUE]
      <3>1. asked \in Auth /\ asked.state = "AwaitingOtp" /\ auth.state = "AwaitingOtp"
        BY <2>1, <2>4 DEF VerifyRight, MayVerify, Auth
      <3>2. auth' = IF Deferred THEN [asked EXCEPT !.verify_timers = @ + 1]
                                ELSE VerifyDone(asked)
        BY <2>4 DEF VerifyRight
      <3> HIDE DEF asked
      <3>3. auth'.state \in {"AwaitingOtp", "Active"}
        BY <3>1, <3>2, VerifyDoneFields DEF Auth
      <3> QED
        BY <3>1, <3>3 DEF Diagram
    <2>5. CASE ResendOtp
      BY <2>1, <2>5, IssueOtpFields DEF ResendOtp
    <2>6. CASE Lock \/ Unlock
      BY <2>1, <2>6 DEF Lock, Unlock, Auth, Diagram
    <2>7. CASE Logout
      BY <2>1, <2>7 DEF Logout, Auth, AuthState, Diagram
    <2>8. CASE AuthCallback
      <3> DEFINE rung == [auth EXCEPT !.auth_timers = @ - 1]
      <3>1. rung \in Auth /\ rung.state = auth.state
        BY <2>8, RungFields DEF AuthCallback, AuthInv
      <3>2. auth' = AuthDone(rung)
        BY <2>8 DEF AuthCallback
      <3> HIDE DEF rung
      <3>3. auth'.state = auth.state
        BY <3>1, <3>2, AuthDoneFields
      <3> QED
        BY <3>3
    <2>9. CASE VerifyCallback
      <3>1. auth'.state = "Active"
        BY <2>9, RungFields, VerifyDoneFields DEF VerifyCallback, AuthInv
      <3>2. auth.state = "AwaitingOtp"
        BY <2>1, <2>9 DEF VerifyCallback
      <3> QED
        BY <3>1, <3>2 DEF Diagram
    <2>10. CASE ClockTick
      <3> DEFINE left == IF auth.lockout_left > 0 THEN auth.lockout_left - 1 ELSE 0
                 age  == IF OtpExpired(auth) THEN auth.otp_age ELSE auth.otp_age + 1
      <3>1. auth' = [auth EXCEPT !.lockout_left = left, !.otp_age = age]
        BY <2>10 DEF ClockTick
      <3> HIDE DEF left, age
      <3> QED
        BY <2>1, <3>1 DEF Auth
    <2> QED
      BY <2>2, <2>3, <2>4, <2>5, <2>6, <2>7, <2>8, <2>9, <2>10
         DEF Next, UserStep, VerifyOtp
  <1> QED
    BY <1>1, AuthInvariance, PTL DEF Spec, FollowsDiagram
=============================================================================
