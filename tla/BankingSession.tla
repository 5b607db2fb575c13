--------------------------- MODULE BankingSession ---------------------------
(***************************************************************************)
(* The login and the bank links in one program: banking_session, the main   *)
(* shell and the idle lock.                                                *)
(*                                                                         *)
(* The shell shows the pages of the links only while the user is Active,    *)
(* but the dialogs and the menu opened from them lie above the shell: the   *)
(* idle lock leaves them open, in front of the lock.  The scheduler and the *)
(* sync timers run whoever is logged in.  Input from the user, which every  *)
(* step of the user is, resets the idle time.                              *)
(***************************************************************************)
EXTENDS Integers

CONSTANTS
  MaxFailures, LockoutTicks, OtpTicks, Deferred, GuardedByUi, StreakBound,
  Bank, AccountCount, Validity, Interval, Cooldown, Instant, Revocable, Flaky, MaxNotices,
  Primary,     \* KMX Bank, linked by the shell itself
  IdleTicks    \* idle_lock_seconds, in clock ticks

VARIABLES
  auth,            \* AuthService
  link,            \* ConnectionService
  dialog_open,     \* connect flow, disconnect confirmation or demo menu is open
  seconds_idle,    \* time since the last input, as far as the lock can tell
  primary_linked   \* _primaryLinked of the main shell

Login == INSTANCE AuthService
Links == INSTANCE ConnectionService

ASSUME SessionAssumption ==
  /\ Login!AuthAssumption
  /\ Links!LinkAssumption
  /\ MaxNotices > 0
  /\ Primary \in Bank
  /\ IdleTicks \in Nat \ {0}

vars == <<auth, link, dialog_open, seconds_idle, primary_linked>>

TypeOK == /\ Login!TypeOK
          /\ Links!TypeOK
          /\ dialog_open \in BOOLEAN
          /\ seconds_idle \in 0..IdleTicks
          /\ primary_linked \in BOOLEAN

Init == /\ Login!Init
        /\ Links!Init
        /\ dialog_open = FALSE
        /\ seconds_idle = 0
        /\ primary_linked = FALSE

\* sessionActive of the main shell.
SessionActive == auth.state = "Active"

-----------------------------------------------------------------------------
(* Actions.                                                                *)

\* Mutant of OnSessionActive: the bank is linked as soon as a code is asked for.
OnSessionActiveEarly ==
  IF auth'.state = "AwaitingOtp" /\ ~SessionActive /\ ~primary_linked
  THEN /\ primary_linked' = TRUE
       /\ link' = [link EXCEPT ![Primary] = Links!ConnectBank(Primary, @, TRUE, TRUE)]
  ELSE UNCHANGED <<link, primary_linked>>

\* Mutant of OnSessionActive: KMX is linked each time the user gets in.
OnSessionActiveAgain ==
  IF auth'.state = "Active" /\ ~SessionActive
  THEN /\ primary_linked' = TRUE
       /\ link' = [link EXCEPT ![Primary] = Links!ConnectBank(Primary, @, TRUE, TRUE)]
  ELSE UNCHANGED <<link, primary_linked>>

\* onSessionActiveChanged: the first time the user gets in, KMX is linked with
\* the demo credentials; later logins and unlocks find it as it was left.
OnSessionActive ==
  IF auth'.state = "Active" /\ ~SessionActive /\ ~primary_linked
  THEN /\ primary_linked' = TRUE
       /\ link' = [link EXCEPT ![Primary] = Links!ConnectBank(Primary, @, TRUE, TRUE)]
  ELSE UNCHANGED <<link, primary_linked>>

\* Login page, code dialog, lock overlay and logout, none of which can be reached
\* past an open dialog, and Ctrl+L.
UserLogin ==
  /\ dialog_open => Login!Lock
  /\ Login!UserStep
  /\ OnSessionActive
  /\ seconds_idle' = 0
  /\ UNCHANGED dialog_open

\* The pages, and with them what opens a dialog, are there while the user is inside.
OpenDialog ==
  /\ SessionActive
  /\ ~dialog_open
  /\ dialog_open' = TRUE
  /\ seconds_idle' = 0
  /\ UNCHANGED <<auth, link, primary_linked>>

\* Cancel, Escape or a click beside it.
CloseDialog ==
  /\ dialog_open
  /\ dialog_open' = FALSE
  /\ seconds_idle' = 0
  /\ UNCHANGED <<auth, link, primary_linked>>

\* Authorize, Yes, or the menu's forced expiry; the login state is not looked at.
DialogAccepted ==
  /\ dialog_open
  /\ dialog_open' = FALSE
  /\ \/ \E b \in Bank : Links!Connect(b) \/ Links!Disconnect(b)
     \/ Links!BankStep
  /\ seconds_idle' = 0
  /\ UNCHANGED <<auth, primary_linked>>

\* The buttons on the connections page itself: refresh and forced expiry.
PageButton ==
  /\ SessionActive
  /\ ~dialog_open
  /\ (\E b \in Bank : Links!UserRefresh(b)) \/ Links!BankStep
  /\ seconds_idle' = 0
  /\ UNCHANGED <<auth, dialog_open, primary_linked>>

UserLinks == OpenDialog \/ CloseDialog \/ DialogAccepted \/ PageButton

UserInput == seconds_idle' = 0 /\ UNCHANGED <<auth, link, dialog_open, primary_linked>>

LoginCallback ==
  /\ Login!AuthCallback \/ Login!VerifyCallback
  /\ OnSessionActive
  /\ UNCHANGED <<dialog_open, seconds_idle>>

\* Mutant of IdleTimer: one tick too late, which is never.
IdleTimerLate ==
  /\ seconds_idle > IdleTicks
  /\ Login!Lock
  /\ UNCHANGED <<link, dialog_open, seconds_idle, primary_linked>>

\* The shell's 1 Hz timer, which runs while the session is active.
IdleTimer ==
  /\ seconds_idle >= IdleTicks
  /\ Login!Lock
  /\ UNCHANGED <<link, dialog_open, seconds_idle, primary_linked>>

LinkTimer ==
  /\ (\E b \in Bank : Links!SyncTimer(b)) \/ Links!SchedulerTick
  /\ UNCHANGED <<auth, dialog_open, seconds_idle, primary_linked>>

ClockTick ==
  /\ Login!ClockTick
  /\ Links!ClockTick
  /\ seconds_idle' = IF seconds_idle < IdleTicks THEN seconds_idle + 1 ELSE seconds_idle
  /\ UNCHANGED <<dialog_open, primary_linked>>

Next == UserLogin \/ UserLinks \/ UserInput
        \/ LoginCallback \/ IdleTimer \/ LinkTimer \/ ClockTick

Spec == Init /\ [][Next]_vars

\* The event loop runs the callbacks and the timers, and time passes.
Fairness == /\ WF_vars(LoginCallback)
            /\ WF_vars(IdleTimer)
            /\ WF_vars(ClockTick)
            /\ WF_vars(Links!SchedulerTick /\ UNCHANGED <<auth, dialog_open, seconds_idle, primary_linked>>)
            /\ \A b \in Bank :
                 WF_vars(Links!SyncTimer(b) /\ UNCHANGED <<auth, dialog_open, seconds_idle, primary_linked>>)

FairSpec == Spec /\ Fairness

-----------------------------------------------------------------------------
(* Properties.                                                             *)

\* A bank session begins in this step.
Begins(b) == ~Links!HasSession(link[b]) /\ Links!HasSession(link'[b])

\* A bank session begins only for a user who has logged in: with the user inside, or
\* behind the lock from a dialog that the lock found open, which ends with it.  No
\* timer and no login under way begins one, and each lock lets at most one through.
LinkedOnlyInside ==
  [][\A b \in Bank : Begins(b) =>
       \/ auth'.state = "Active"
       \/ auth'.state = "Locked" /\ dialog_open /\ ~dialog_open']_vars

\* A bank the user disconnected is linked again by the user only, also when they
\* log in anew.
DisconnectIsRemembered ==
  [][primary_linked =>
       \A b \in Bank : Begins(b) => UserLinks]_vars

\* Driven through the pages, whose buttons are off while a callback is awaited,
\* the login follows the diagram of auth_service.h: a verification is never
\* overtaken by a logout.
FollowsDiagram == Login!FollowsDiagram

\* "Idle auto-lock": an unattended session does not stay open.
UnattendedIsLocked ==
  (SessionActive /\ seconds_idle = IdleTicks) ~> (~SessionActive \/ seconds_idle < IdleTicks)

\* auth_service.cpp says that logged_out makes the session drop every bank link.
\* A lockout, which keeps its streak, is no logout and must not.
LogoutDropsLinks ==
  [][(UserLogin /\ auth.state # "LoggedOut" /\ auth'.state = "LoggedOut"
        /\ auth'.fail_streak = 0)
       => \A b \in Bank : ~Links!HasSession(link'[b])]_vars
=============================================================================
