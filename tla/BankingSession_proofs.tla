------------------------ MODULE BankingSession_proofs ------------------------
(***************************************************************************)
(* Proofs about BankingSession, for any banks, tries and times.             *)
(*                                                                         *)
(* The program is shown to implement both of its parts, AuthService and     *)
(* ConnectionService, step by step; their theorems then hold of it.  LoginP *)
(* and LinksP are the parts with their proofs: what AuthService_proofs and  *)
(* ConnectionService_proofs prove, under the assumptions on the constants   *)
(* that SessionAssumption makes too.                                       *)
(***************************************************************************)
EXTENDS BankingSession, TLAPS

LoginP == INSTANCE AuthService_proofs
LinksP == INSTANCE ConnectionService_proofs

LEMMA PartsAssumptions == LoginP!AuthAssumption /\ LinksP!LinkAssumption
  BY SessionAssumption DEF Login!AuthAssumption, LoginP!AuthAssumption,
       Links!LinkAssumption, LinksP!LinkAssumption

\* The parts and the parts with their proofs are the same.
LEMMA SameLogin ==
  /\ Login!Init = LoginP!Init
  /\ Login!UserStep = LoginP!UserStep
  /\ Login!Lock = LoginP!Lock
  /\ Login!AuthCallback = LoginP!AuthCallback
  /\ Login!VerifyCallback = LoginP!VerifyCallback
  /\ Login!ClockTick = LoginP!ClockTick
  BY DEF Login!Init, Login!UserStep, Login!AuthCallback, Login!VerifyCallback,
    Login!ClockTick, Login!Authenticate, Login!VerifyOtp, Login!VerifyWrong,
    Login!VerifyRight, Login!MayVerify, Login!Matches, Login!Missed, Login!ResendOtp,
    Login!Lock, Login!Unlock, Login!Logout, Login!AuthDone, Login!VerifyDone,
    Login!IssueOtp, Login!InLockout, Login!OtpExpired,
    LoginP!Init, LoginP!UserStep, LoginP!AuthCallback, LoginP!VerifyCallback,
    LoginP!ClockTick, LoginP!Authenticate, LoginP!VerifyOtp, LoginP!VerifyWrong,
    LoginP!VerifyRight, LoginP!MayVerify, LoginP!Matches, LoginP!Missed, LoginP!ResendOtp,
    LoginP!Lock, LoginP!Unlock, LoginP!Logout, LoginP!AuthDone, LoginP!VerifyDone,
    LoginP!IssueOtp, LoginP!InLockout, LoginP!OtpExpired

LEMMA SameLinks ==
  /\ Links!Init = LinksP!Init
  /\ Links!UserStep = LinksP!UserStep
  /\ Links!BankStep = LinksP!BankStep
  /\ Links!SchedulerTick = LinksP!SchedulerTick
  /\ Links!ClockTick = LinksP!ClockTick
  /\ \A b : Links!SyncTimer(b) = LinksP!SyncTimer(b)
  /\ \A b, c, accepted, up : Links!ConnectBank(b, c, accepted, up)
                               = LinksP!ConnectBank(b, c, accepted, up)
  /\ \A b : Links!Fresh(b) = LinksP!Fresh(b)
  /\ \A c : Links!HasSession(c) = LinksP!HasSession(c)
  BY DEF Links!Init, Links!Fresh, Links!UserStep, Links!BankStep, Links!SchedulerTick,
    Links!ClockTick, Links!SyncTimer, Links!Connect, Links!UserRefresh, Links!Disconnect,
    Links!ExpireSessionForDemo, Links!Answers, Links!ConnectBank, Links!Refresh,
    Links!RunSync, Links!Dropped, Links!Due, Links!Aged, Links!Older, Links!Settle,
    Links!Pulled, Links!SyncOutcome, Links!Fetched, Links!CoolingDown, Links!Limited,
    Links!Park, Links!IsLive, Links!IsExpired, Links!HasSession, Links!None,
    LinksP!Init, LinksP!Fresh, LinksP!UserStep, LinksP!BankStep, LinksP!SchedulerTick,
    LinksP!ClockTick, LinksP!SyncTimer, LinksP!Connect, LinksP!UserRefresh,
    LinksP!Disconnect, LinksP!ExpireSessionForDemo, LinksP!Answers, LinksP!ConnectBank,
    LinksP!Refresh, LinksP!RunSync, LinksP!Dropped, LinksP!Due, LinksP!Aged, LinksP!Older,
    LinksP!Settle, LinksP!Pulled, LinksP!SyncOutcome, LinksP!Fetched, LinksP!CoolingDown,
    LinksP!Limited, LinksP!Park, LinksP!IsLive, LinksP!IsExpired, LinksP!HasSession,
    LinksP!None

-----------------------------------------------------------------------------
(* The program implements the login.                                       *)

LEMMA LoginStep == [Next]_vars => [LoginP!Next]_(LoginP!vars)
  <1> SUFFICES ASSUME [Next]_vars PROVE LoginP!Next \/ UNCHANGED LoginP!vars
    OBVIOUS
  <1>1. CASE UserLogin \/ LoginCallback
    BY <1>1, SameLogin DEF UserLogin, LoginCallback, LoginP!Next
  <1>2. CASE IdleTimer
    BY <1>2, SameLogin DEF IdleTimer, LoginP!Next, LoginP!UserStep
  <1>3. CASE ClockTick
    BY <1>3, SameLogin DEF ClockTick, LoginP!Next
  <1>4. CASE UserLinks \/ UserInput \/ LinkTimer \/ UNCHANGED vars
    BY <1>4 DEF UserLinks, OpenDialog, CloseDialog, DialogAccepted, PageButton, UserInput,
         LinkTimer, vars, LoginP!vars
  <1> QED
    BY <1>1, <1>2, <1>3, <1>4 DEF Next

LEMMA ImplementsLogin == Spec => LoginP!Spec
  <1>1. Init => LoginP!Init
    BY SameLogin DEF Init
  <1> QED
    BY <1>1, LoginStep, PTL DEF Spec, LoginP!Spec

LEMMA LoginTyped == Spec => []LoginP!TypeOK
  <1>1. LoginP!Spec => []LoginP!TypeOK
    BY PartsAssumptions, LoginP!TypeCorrect
  <1> QED
    BY <1>1, ImplementsLogin, PTL

-----------------------------------------------------------------------------
(* Before the first login no dialog opens and nothing is linked, so that    *)
(* KMX Bank's first link is a step the user could have taken.  A dialog     *)
(* opened inside stays open behind the lock only: the login page and the    *)
(* lockout cannot be reached past it.                                      *)

InsideOrLocked == auth.state \in {"Active", "Locked"}

BeforeLogin ==
  /\ seconds_idle \in 0..IdleTicks /\ primary_linked \in BOOLEAN /\ dialog_open \in BOOLEAN
  /\ dialog_open => InsideOrLocked
  /\ ~primary_linked => ~InsideOrLocked /\ link = [b \in Bank |-> LinksP!Fresh(b)]

\* Links that are fresh stay so, whatever timers fire and however long it takes.
LEMMA FreshStays ==
  ASSUME link = [b \in Bank |-> LinksP!Fresh(b)], LinkTimer \/ Links!ClockTick
  PROVE  link' = link
  <1>1. ASSUME NEW b \in Bank, Links!SyncTimer(b) PROVE FALSE
    BY <1>1 DEF Links!SyncTimer, LinksP!Fresh
  <1>2. CASE Links!SchedulerTick
    <2>1. \A b \in Bank : ~LinksP!Due(b, link[b])
      BY DEF LinksP!Due, LinksP!Fresh
    <2> QED
      BY <1>2, <2>1, SameLinks DEF LinksP!SchedulerTick
  <1>3. CASE Links!ClockTick
    <2>1. \A b \in Bank : LinksP!Aged(b, link[b]) = link[b]
      BY DEF LinksP!Aged, LinksP!Older, LinksP!Fresh, LinksP!None
    <2> QED
      BY <1>3, <2>1, SameLinks DEF LinksP!ClockTick
  <1> QED
    BY <1>1, <1>2, <1>3 DEF LinkTimer

LEMMA BeforeLoginStep ==
  ASSUME LoginP!TypeOK, BeforeLogin, [Next]_vars
  PROVE  BeforeLogin'
  <1> USE DEF SessionActive, InsideOrLocked
  <1>0. CASE UNCHANGED vars
    BY <1>0 DEF vars, BeforeLogin, LinksP!Fresh, LinksP!None
  <1>1. ASSUME Next
        PROVE  seconds_idle' \in 0..IdleTicks /\ primary_linked' \in BOOLEAN /\ dialog_open' \in BOOLEAN
    <2>1. /\ IdleTicks \in Nat /\ seconds_idle \in 0..IdleTicks
          /\ primary_linked \in BOOLEAN /\ dialog_open \in BOOLEAN
      BY SessionAssumption DEF BeforeLogin
    <2>2. seconds_idle' = seconds_idle \/ seconds_idle' = 0
          \/ (seconds_idle < IdleTicks /\ seconds_idle' = seconds_idle + 1)
      BY <1>1 DEF Next, UserLogin, UserLinks, OpenDialog, CloseDialog, DialogAccepted, PageButton,
           UserInput, LoginCallback, IdleTimer, LinkTimer, ClockTick
    <2>3. primary_linked' \in {primary_linked, TRUE} /\ dialog_open' \in {dialog_open, TRUE, FALSE}
      BY <1>1 DEF Next, UserLogin, UserLinks, OpenDialog, CloseDialog, DialogAccepted, PageButton,
           UserInput, LoginCallback, IdleTimer, LinkTimer, ClockTick, OnSessionActive
    <2>4. seconds_idle' \in 0..IdleTicks
      BY <2>1, <2>2
    <2> QED
      BY <2>1, <2>3, <2>4
  <1>2. auth \in LoginP!Auth
    BY DEF LoginP!TypeOK
  <1>3. ASSUME Login!Lock PROVE auth.state = "Active" /\ auth'.state = "Locked"
    BY <1>2, <1>3 DEF Login!Lock, LoginP!Auth
  <1>4. ASSUME LoginCallback PROVE auth'.state \in {auth.state, "Active"}
    BY <1>2, <1>4 DEF LoginCallback, Login!AuthCallback, Login!VerifyCallback, Login!AuthDone,
         Login!VerifyDone, Login!IssueOtp, LoginP!Auth
  <1>5. ASSUME ClockTick PROVE auth'.state = auth.state
    BY <1>2, <1>5 DEF ClockTick, Login!ClockTick, LoginP!Auth
  <1>6. ASSUME UserLogin PROVE auth'.state = "Locked" => InsideOrLocked
    BY <1>2, <1>6 DEF UserLogin, Login!UserStep, Login!Authenticate, Login!VerifyOtp,
         Login!VerifyWrong, Login!VerifyRight, Login!MayVerify, Login!Missed, Login!ResendOtp,
         Login!Lock, Login!Unlock, Login!Logout, Login!AuthDone, Login!VerifyDone, Login!IssueOtp,
         LoginP!Auth
  <1>7. ASSUME Next, dialog_open' PROVE InsideOrLocked'
    <2>1. CASE UserLogin \/ IdleTimer
      BY <1>3, <1>7, <2>1 DEF UserLogin, IdleTimer
    <2>2. CASE LoginCallback
      BY <1>4, <1>7, <2>2 DEF LoginCallback, BeforeLogin
    <2>3. CASE UserLinks \/ UserInput \/ LinkTimer
      BY <1>7, <2>3 DEF UserLinks, OpenDialog, CloseDialog, DialogAccepted, PageButton, UserInput,
           LinkTimer, BeforeLogin
    <2>4. CASE ClockTick
      BY <1>5, <1>7, <2>4 DEF ClockTick, BeforeLogin
    <2> QED
      BY <1>7, <2>1, <2>2, <2>3, <2>4 DEF Next
  <1>8. ASSUME Next, ~primary_linked'
        PROVE  ~InsideOrLocked' /\ link' = [b \in Bank |-> LinksP!Fresh(b)]
    <2>0. ~primary_linked
      BY <1>8, Zenon DEF Next, UserLogin, UserLinks, OpenDialog, CloseDialog, DialogAccepted,
           PageButton, UserInput, LoginCallback, IdleTimer, LinkTimer, ClockTick, OnSessionActive
    <2>1. /\ ~primary_linked /\ ~InsideOrLocked /\ ~dialog_open
          /\ link = [b \in Bank |-> LinksP!Fresh(b)]
      BY <2>0, Zenon DEF BeforeLogin
    <2>2. CASE UserLogin
      BY <1>6, <1>8, <2>1, <2>2 DEF UserLogin, OnSessionActive
    <2>3. CASE LoginCallback
      BY <1>4, <1>8, <2>1, <2>3 DEF LoginCallback, OnSessionActive
    <2>4. CASE UserLinks \/ IdleTimer
      BY <1>3, <2>1, <2>4 DEF UserLinks, OpenDialog, CloseDialog, DialogAccepted, PageButton, IdleTimer
    <2>5. CASE UserInput
      BY <2>1, <2>5 DEF UserInput
    <2>6. CASE LinkTimer
      BY <2>1, <2>6, FreshStays DEF LinkTimer
    <2>7. CASE ClockTick
      BY <1>5, <2>1, <2>7, FreshStays DEF ClockTick
    <2> QED
      BY <1>8, <2>2, <2>3, <2>4, <2>5, <2>6, <2>7 DEF Next
  <1> QED
    BY <1>0, <1>1, <1>7, <1>8 DEF BeforeLogin, LinksP!Fresh, LinksP!None

LEMMA BeforeLoginInvariance == Spec => []BeforeLogin
  <1>1. Init => BeforeLogin
    <2> SUFFICES ASSUME Init PROVE BeforeLogin
      OBVIOUS
    <2>1. auth.state = "LoggedOut" /\ link = [b \in Bank |-> LinksP!Fresh(b)]
      <3>1. auth.state = "LoggedOut"
        BY DEF Init, Login!Init
      <3>2. link = [b \in Bank |-> LinksP!Fresh(b)]
        BY SameLinks DEF Init, LinksP!Init
      <3> QED
        BY <3>1, <3>2
    <2>2. seconds_idle = 0 /\ 0 \in 0..IdleTicks /\ primary_linked = FALSE /\ dialog_open = FALSE
      BY SessionAssumption DEF Init
    <2> QED
      BY <2>1, <2>2 DEF BeforeLogin, InsideOrLocked
  <1> QED
    BY <1>1, LoginTyped, BeforeLoginStep, PTL DEF Spec

-----------------------------------------------------------------------------
(* The program implements the links.                                       *)

\* The shell's own link is one the user could have asked for.
LEMMA LinksStep == BeforeLogin /\ [Next]_vars => [LinksP!Next]_(LinksP!vars)
  <1> SUFFICES ASSUME BeforeLogin, [Next]_vars PROVE LinksP!Next \/ UNCHANGED LinksP!vars
    OBVIOUS
  <1>1. ASSUME OnSessionActive PROVE LinksP!Next \/ UNCHANGED LinksP!vars
    <2>1. CASE ~primary_linked /\ link' # link
      <3>1. link' = [link EXCEPT ![Primary] = LinksP!ConnectBank(Primary, link[Primary], TRUE, TRUE)]
        BY <1>1, <2>1, SameLinks DEF OnSessionActive
      <3>2. Primary \in Bank /\ link[Primary] = LinksP!Fresh(Primary) /\ 0 < MaxNotices
        BY <2>1, SessionAssumption DEF BeforeLogin
      <3>3. link[Primary].notices < MaxNotices /\ TRUE \in LinksP!Answers(Primary)
        <4>1. LinksP!Fresh(Primary).notices = 0
          BY DEF LinksP!Fresh
        <4>2. TRUE \in LinksP!Answers(Primary)
          BY DEF LinksP!Answers
        <4> QED
          BY <3>2, <4>1, <4>2
      <3>4. LinksP!Connect(Primary)
        BY <3>1, <3>3 DEF LinksP!Connect
      <3> QED
        BY <3>2, <3>4 DEF LinksP!Next, LinksP!UserStep
    <2>2. CASE primary_linked \/ link' = link
      BY <1>1, <2>2 DEF OnSessionActive, LinksP!vars
    <2> QED
      BY <2>1, <2>2
  <1>2. CASE UserLogin \/ LoginCallback
    BY <1>1, <1>2 DEF UserLogin, LoginCallback
  <1>3. CASE UserLinks
    <2>1. CASE OpenDialog \/ CloseDialog
      BY <2>1 DEF OpenDialog, CloseDialog, LinksP!vars
    <2>2. CASE DialogAccepted \/ PageButton
      <3>1. Links!UserStep \/ Links!BankStep
        BY <2>2 DEF DialogAccepted, PageButton, Links!UserStep
      <3> QED
        BY <3>1, SameLinks DEF LinksP!Next
    <2> QED
      BY <1>3, <2>1, <2>2 DEF UserLinks
  <1>4. CASE LinkTimer \/ ClockTick
    BY <1>4, SameLinks DEF LinkTimer, ClockTick, LinksP!Next, LinksP!SystemStep
  <1>5. CASE UserInput \/ IdleTimer \/ UNCHANGED vars
    BY <1>5 DEF UserInput, IdleTimer, vars, LinksP!vars
  <1> QED
    BY <1>2, <1>3, <1>4, <1>5 DEF Next

LEMMA ImplementsLinks == Spec => LinksP!Spec
  <1>1. Init => LinksP!Init
    BY SameLinks DEF Init
  <1> QED
    BY <1>1, LinksStep, BeforeLoginInvariance, PTL DEF Spec, LinksP!Spec

LEMMA LinksInvariance == Spec => []LinksP!LinkInv
  <1>1. LinksP!Spec => []LinksP!LinkInv
    BY PartsAssumptions, LinksP!LinkInvariance
  <1> QED
    BY <1>1, ImplementsLinks, PTL

-----------------------------------------------------------------------------
(* Theorems.                                                               *)

\* Whatever the shell, the lock and the timers do to the login, it is one that
\* auth_service allows: its theorems hold of the whole program.
THEOREM SessionIsALogin == Spec => Login!Spec
  <1>1. LoginP!Spec => Login!Spec
    <2>1. [LoginP!Next]_(LoginP!vars) => [Login!Next]_(Login!vars)
      BY SameLogin DEF LoginP!Next, Login!Next, LoginP!vars, Login!vars
    <2>2. LoginP!Init => Login!Init
      BY SameLogin
    <2> QED
      BY <2>1, <2>2, PTL DEF LoginP!Spec, Login!Spec
  <1> QED
    BY <1>1, ImplementsLogin, PTL

\* And the links are what connection_service makes of a user's calls, the link the
\* shell itself opens at the first login included.
THEOREM SessionRunsLinks == Spec => Links!Spec
  <1>1. LinksP!Spec => Links!Spec
    <2>1. [LinksP!Next]_(LinksP!vars) => [Links!Next]_(Links!vars)
      BY SameLinks DEF LinksP!Next, Links!Next, LinksP!vars, Links!vars,
           LinksP!SystemStep, Links!SystemStep
    <2>2. LinksP!Init => Links!Init
      BY SameLinks
    <2> QED
      BY <2>1, <2>2, PTL DEF LinksP!Spec, Links!Spec
  <1> QED
    BY <1>1, ImplementsLinks, PTL

\* Both parts stay well formed and the idle time within its bound.
THEOREM SessionTypeCorrect == Spec => []TypeOK
  <1>1. LinksP!LinkInv => Links!TypeOK
    BY DEF LinksP!LinkInv, LinksP!Sound, Links!TypeOK, LinksP!Connection, Links!Connection,
         LinksP!LinkState, Links!LinkState, LinksP!None, Links!None
  <1>2. LoginP!TypeOK => Login!TypeOK
    BY DEF LoginP!TypeOK, Login!TypeOK, LoginP!Auth, Login!Auth, LoginP!AuthState, Login!AuthState
  <1>3. BeforeLogin /\ Links!TypeOK /\ Login!TypeOK => TypeOK
    BY DEF BeforeLogin, TypeOK
  <1> QED
    BY <1>1, <1>2, <1>3, LinksInvariance, LoginTyped, BeforeLoginInvariance, PTL

\* A step that gives a bank a session is one of the user's on the links, or the end
\* of the first login.
LEMMA SessionsBegin ==
  ASSUME LoginP!TypeOK, BeforeLogin, LinksP!LinkInv, [Next]_vars, NEW b \in Bank, Begins(b)
  PROVE  UserLinks \/ ((UserLogin \/ LoginCallback) /\ ~primary_linked /\ auth'.state = "Active")
  <1>0. ~Links!HasSession(link[b]) /\ Links!HasSession(link'[b])
    BY DEF Begins
  <1>1. link' # link
    BY <1>0
  <1>2. CASE UserLogin \/ LoginCallback
    BY <1>1, <1>2 DEF UserLogin, LoginCallback, OnSessionActive
  <1>3. CASE LinkTimer \/ ClockTick
    <2>1. LinksP!SystemStep
      BY <1>3, SameLinks DEF LinkTimer, ClockTick, LinksP!SystemStep
    <2>2. LinksP!Drift(b, link[b], link'[b])
      BY <2>1, PartsAssumptions, LinksP!SystemStepDrift
    <2> QED
      BY <1>0, <2>2, SameLinks DEF LinksP!Drift
  <1>4. CASE UserInput \/ IdleTimer \/ UNCHANGED vars
    BY <1>1, <1>4 DEF UserInput, IdleTimer, vars
  <1> QED
    BY <1>2, <1>3, <1>4 DEF Next

\* A bank session begins for a user who has logged in: inside, or behind the lock
\* from a dialog opened inside, which its Authorize closes.  Neither a timer nor a
\* callback that ends elsewhere gives a bank one, and no dialog survives a logout.
THEOREM LinkedInside == Spec => LinkedOnlyInside
  <1> DEFINE Inside == \/ auth'.state = "Active"
                       \/ auth'.state = "Locked" /\ dialog_open /\ ~dialog_open'
  <1>1. ASSUME LoginP!TypeOK, BeforeLogin, LinksP!LinkInv, [Next]_vars, NEW b \in Bank, Begins(b)
        PROVE  Inside
    <2>1. link' # link
      BY <1>1 DEF Begins
    <2>2. CASE DialogAccepted
      <3>1. dialog_open /\ ~dialog_open' /\ auth' = auth
        BY <2>2, Zenon DEF DialogAccepted
      <3>2. auth.state \in {"Active", "Locked"}
        BY <1>1, <3>1, Zenon DEF BeforeLogin, InsideOrLocked
      <3> QED
        BY <3>1, <3>2
    <2>3. CASE PageButton
      <3>1. auth' = auth /\ auth.state = "Active"
        BY <2>3 DEF PageButton, SessionActive
      <3> QED
        BY <3>1
    <2>4. CASE OpenDialog \/ CloseDialog
      BY <2>1, <2>4 DEF OpenDialog, CloseDialog
    <2> QED
      BY <1>1, <2>2, <2>3, <2>4, SessionsBegin DEF UserLinks
  <1>2. LoginP!TypeOK /\ BeforeLogin /\ LinksP!LinkInv /\ [Next]_vars
          => [\A b \in Bank : Begins(b) => Inside]_vars
    BY <1>1, Zenon
  <1> QED
    BY <1>2, LoginTyped, BeforeLoginInvariance, LinksInvariance, PTL DEF Spec, LinkedOnlyInside

\* After the first login only the user links a bank: logging in anew, unlocking and
\* the timers leave a bank the user disconnected as it is.
THEOREM DisconnectRemembered == Spec => DisconnectIsRemembered
  <1> DEFINE ByUser == primary_linked => \A b \in Bank : Begins(b) => UserLinks
  <1>1. LoginP!TypeOK /\ BeforeLogin /\ LinksP!LinkInv /\ [Next]_vars => [ByUser]_vars
    BY SessionsBegin
  <1> QED
    BY <1>1, LoginTyped, BeforeLoginInvariance, LinksInvariance, PTL DEF Spec, DisconnectIsRemembered

\* Driven through the pages, the login follows the diagram of auth_service.h in the
\* whole program too, whatever the idle lock and the timers of the links add.
THEOREM SessionFollowsDiagram == GuardedByUi => (Spec => FollowsDiagram)
  <1>1. GuardedByUi => (LoginP!Spec => LoginP!FollowsDiagram)
    BY PartsAssumptions, LoginP!DiagramFollowed
  <1>2. LoginP!FollowsDiagram => FollowsDiagram
    BY DEF FollowsDiagram, LoginP!FollowsDiagram, Login!FollowsDiagram, LoginP!Diagram,
         Login!Diagram, LoginP!vars, Login!vars
  <1> QED
    BY <1>1, <1>2, ImplementsLogin, PTL

\* What is proved of the parts alone holds in the whole program: in a lockout the
\* user is outside with nothing in flight, a code is out whenever one is compared, and
\* timers, sessions, hints and stamps of the links agree with their states.
THEOREM PartsStayCorrect ==
  Spec => [](/\ Login!OneCallbackWhileBusy /\ Login!LockoutIsShut /\ Login!CodeIsOut
             /\ Links!OneTimerPerSync /\ Links!SessionIffLive /\ Links!ParkedIsQuiet
             /\ Links!HintIsCurrent /\ Links!StampMeansComplete)
  <1>1. LoginP!Spec => []LoginP!AuthInv
    BY PartsAssumptions, LoginP!AuthInvariance
  <1>2. LoginP!AuthInv =>
          Login!OneCallbackWhileBusy /\ Login!LockoutIsShut /\ Login!CodeIsOut
    BY DEF LoginP!AuthInv, LoginP!Good, Login!OneCallbackWhileBusy, Login!LockoutIsShut,
         Login!CodeIsOut, LoginP!InLockout, Login!InLockout
  <1>3. LinksP!LinkInv =>
          /\ Links!OneTimerPerSync /\ Links!SessionIffLive /\ Links!ParkedIsQuiet
          /\ Links!HintIsCurrent /\ Links!StampMeansComplete
    BY DEF LinksP!LinkInv, LinksP!Sound, Links!OneTimerPerSync, Links!SessionIffLive,
         Links!ParkedIsQuiet, Links!HintIsCurrent, Links!StampMeansComplete, LinksP!HasSession,
         Links!HasSession, LinksP!IsLive, Links!IsLive, LinksP!None, Links!None
  <1> QED
    BY <1>1, <1>2, <1>3, ImplementsLogin, LinksInvariance, PTL
=============================================================================
