------------------------- MODULE ConnectionService -------------------------
(***************************************************************************)
(* The bank links of connection_service and the connectors behind them.    *)
(*                                                                         *)
(* Everything runs on one event loop, so a handler is one step; what        *)
(* interleaves is the user's calls, the singleShot timer of each deferred  *)
(* sync, the 1 Hz scheduler tick and the passing of time.                  *)
(*                                                                         *)
(* Time is kept as ages (of a session, of the last sync, of the last       *)
(* guarded fetch), each saturated where the code can no longer tell two    *)
(* values apart, so the clock itself is unbounded.                         *)
(***************************************************************************)
EXTENDS Integers

CONSTANTS
  Bank,          \* the banks a connector is registered for
  AccountCount,  \* AccountCount[b]: accounts the bank reports
  Validity,      \* Validity[b]: session_validity, in clock ticks
  Interval,      \* Interval[b]: auto_sync_interval_ms; 0 means never
  Cooldown,      \* Cooldown[b]: the rate limit's window; 0 means no limit
  Instant,       \* banks whose sync_delay is zero: their syncs run inline
  Revocable,     \* banks whose connector honours expire_session_for_demo
  Flaky,         \* banks whose connector may answer `unavailable`
  MaxNotices     \* bound on the re-authentication notices of one link

ASSUME LinkAssumption ==
  /\ AccountCount \in [Bank -> Nat]
  /\ Validity \in [Bank -> Nat]
  /\ Interval \in [Bank -> Nat]
  /\ Cooldown \in [Bank -> Nat]
  /\ Instant \subseteq Bank
  /\ Revocable \subseteq Bank
  /\ Flaky \subseteq Bank
  /\ MaxNotices \in Nat

VARIABLE link    \* link[b]: the connection record of bank b, and its connector

vars == <<link>>

None == -1       \* an absent session, an invalid date

LinkState == {"Disconnected", "Authenticating", "Connected", "NeedsReauth", "SyncFailed"}

\* connection, plus: timers, the singleShot callbacks outstanding; revoked and
\* last_attempt, the connector's own state; known and history, what the
\* account store holds from this bank (its accounts; the transactions of the
\* first `history` of them); notices, the re-authentication warnings posted.
Connection(b) ==
  [ state        : LinkState,
    session      : {None} \cup 0..(Validity[b] + 1),
    syncing      : BOOLEAN,
    timers       : Nat,
    last_sync    : {None} \cup 0..Interval[b],
    last_error   : {"none", "rate_limited", "unavailable"},
    last_attempt : 0..Cooldown[b],
    revoked      : BOOLEAN,
    known        : BOOLEAN,
    history      : 0..AccountCount[b],
    notices      : Nat ]

Fresh(b) ==
  [ state |-> "Disconnected", session |-> None, syncing |-> FALSE, timers |-> 0,
    last_sync |-> None, last_error |-> "none", last_attempt |-> Cooldown[b],
    revoked |-> FALSE, known |-> FALSE, history |-> 0, notices |-> 0 ]

Init == link = [b \in Bank |-> Fresh(b)]

-----------------------------------------------------------------------------
(* Helpers and handlers, as functions of one connection record.            *)

HasSession(c) == c.session # None
IsExpired(b, c) == c.session > Validity[b]
IsLive(c) == c.state \in {"Connected", "SyncFailed"}

\* Mutant of Park: the session is dropped and the user is not told.
ParkSilent(c) == [c EXCEPT !.session = None, !.state = "NeedsReauth"]

\* The session is dropped and the user is told to reconnect.
Park(c) == [c EXCEPT !.session = None, !.state = "NeedsReauth", !.notices = @ + 1]

\* How many accounts' transactions one pass obtains.  The rate-limit guard runs
\* before every fetch_transactions and stamps last_attempt when it lets one
\* through, so behind a cooldown a pass obtains at most one account's.
Limited(b) == Cooldown[b] > 0 /\ AccountCount[b] > 0
CoolingDown(b, c) == c.last_attempt < Cooldown[b]
Fetched(b, c) ==
  CASE ~Limited(b) -> AccountCount[b]
    [] Limited(b) /\ CoolingDown(b, c) -> 0
    [] Limited(b) /\ ~CoolingDown(b, c) -> 1

\* What perform_sync returns; `up` says whether the bank answers at all.
SyncOutcome(b, c, up) ==
  CASE c.revoked -> "session_expired"
    [] ~c.revoked /\ ~up -> "unavailable"
    [] ~c.revoked /\ up /\ Fetched(b, c) < AccountCount[b] -> "rate_limited"
    [] ~c.revoked /\ up /\ Fetched(b, c) = AccountCount[b] -> "ok"

\* Mutant of Pulled: the last-sync time is stamped although the pull failed.
PulledStampsAttempt(b, c, up) == [c EXCEPT !.last_sync = 0]

\* What perform_sync leaves behind, on success or part-way through.
Pulled(b, c, up) ==
  LET got == Fetched(b, c) IN
  IF c.revoked \/ ~up THEN c
  ELSE [c EXCEPT !.known = TRUE,
                 !.history = IF got > @ THEN got ELSE @,
                 !.last_attempt = IF Limited(b) /\ ~CoolingDown(b, c) THEN 0 ELSE @,
                 !.last_sync = IF got = AccountCount[b] THEN 0 ELSE @]

\* Mutant of Settle: a success leaves the text of the last failure.
SettleKeepsHint(c, outcome) ==
  CASE outcome = "ok" -> [c EXCEPT !.state = "Connected"]
    [] outcome = "session_expired" -> Park(c)
    [] outcome = "rate_limited" -> [c EXCEPT !.last_error = "rate_limited"]
    [] outcome = "unavailable" -> [c EXCEPT !.state = "SyncFailed", !.last_error = "unavailable"]

\* handle_sync_failure, and run_sync's success branch.
Settle(c, outcome) ==
  CASE outcome = "ok" -> [c EXCEPT !.state = "Connected", !.last_error = "none"]
    [] outcome = "session_expired" -> Park(c)
    [] outcome = "rate_limited" -> [c EXCEPT !.last_error = "rate_limited"]
    [] outcome = "unavailable" -> [c EXCEPT !.state = "SyncFailed", !.last_error = "unavailable"]

\* Mutants of RunSync, for a timer that finds no session: it pulls all the same;
\* it authenticates again; it returns with the sync still marked in flight.
RunSyncPulls(b, c, up) ==
  LET idle == [c EXCEPT !.syncing = FALSE] IN
  IF c.syncing THEN Settle(Pulled(b, idle, up), SyncOutcome(b, idle, up)) ELSE c

RunSyncReauthenticates(b, c, up) ==
  RunSyncPulls(b, [c EXCEPT !.session = IF HasSession(c) THEN @ ELSE 0], up)

RunSyncHangs(b, c, up) ==
  IF c.syncing /\ ~HasSession(c) THEN [c EXCEPT !.state = "NeedsReauth"]
                                 ELSE RunSyncPulls(b, c, up)

RunSync(b, c, up) ==
  LET idle == [c EXCEPT !.syncing = FALSE] IN
  CASE ~c.syncing -> c
    [] c.syncing /\ ~HasSession(c) -> [idle EXCEPT !.state = "NeedsReauth"]
    [] c.syncing /\ HasSession(c) -> Settle(Pulled(b, idle, up), SyncOutcome(b, idle, up))

\* Mutant of Refresh: only a missing session is looked for.
RefreshIgnoresExpiry(b, c, up) ==
  LET started == [c EXCEPT !.syncing = TRUE] IN
  CASE c.syncing \/ ~IsLive(c) -> c
    [] ~c.syncing /\ IsLive(c) /\ ~HasSession(c) -> Park(c)
    [] ~c.syncing /\ IsLive(c) /\ HasSession(c) ->
         IF b \in Instant THEN RunSync(b, started, up)
                          ELSE [started EXCEPT !.timers = @ + 1]

\* refresh's early returns, in order, then the start of a sync.
Refresh(b, c, up) ==
  LET started == [c EXCEPT !.syncing = TRUE] IN
  CASE c.syncing -> c
    [] ~c.syncing /\ ~IsLive(c) -> c
    [] ~c.syncing /\ IsLive(c) /\ (~HasSession(c) \/ IsExpired(b, c)) -> Park(c)
    [] ~c.syncing /\ IsLive(c) /\ HasSession(c) /\ ~IsExpired(b, c) ->
         IF b \in Instant THEN RunSync(b, started, up)
                          ELSE [started EXCEPT !.timers = @ + 1]

\* Mutant of ConnectBank: a refused login stays Authenticating.
ConnectBankHangs(b, c, accepted, up) ==
  IF accepted
  THEN Refresh(b, [c EXCEPT !.session = 0, !.revoked = FALSE, !.state = "Connected"], up)
  ELSE [c EXCEPT !.session = None, !.state = "Authenticating"]

\* connect_bank: the connector refuses an empty password; a new session is
\* never revoked, and the initial pull goes through refresh.
ConnectBank(b, c, accepted, up) ==
  IF accepted
  THEN Refresh(b, [c EXCEPT !.session = 0, !.revoked = FALSE, !.state = "Connected"], up)
  ELSE [c EXCEPT !.session = None, !.state = "Disconnected"]

\* Mutants of Dropped: the flag is cleared and the timer forgotten; the session is
\* forgotten.
DroppedForgetsTimer(c) ==
  [c EXCEPT !.session = None, !.last_sync = None, !.last_error = "none", !.syncing = FALSE,
            !.state = "Disconnected"]

DroppedKeepsSession(c) ==
  [c EXCEPT !.last_sync = None, !.last_error = "none", !.state = "Disconnected"]

\* disconnect leaves syncing, and the timer behind it, alone.
Dropped(c) ==
  [c EXCEPT !.session = None, !.last_sync = None, !.last_error = "none", !.state = "Disconnected"]

\* Mutant of Due: only a link never synced is due.
DueOnce(b, c) == c.state = "Connected" /\ ~c.syncing /\ Interval[b] > 0 /\ c.last_sync = None

Due(b, c) ==
  /\ c.state = "Connected"
  /\ ~c.syncing
  /\ Interval[b] > 0
  /\ c.last_sync \in {None, Interval[b]}

Older(age, cap) == IF age = None \/ age = cap THEN age ELSE age + 1

Aged(b, c) ==
  [c EXCEPT !.session = Older(@, Validity[b] + 1),
            !.last_sync = Older(@, Interval[b]),
            !.last_attempt = Older(@, Cooldown[b])]

-----------------------------------------------------------------------------
(* Actions.  A flaky bank's answer is chosen when it is asked.              *)

Answers(b) == IF b \in Flaky THEN BOOLEAN ELSE {TRUE}

\* link_bank from the connect flow, or auto_connect_primary_bank.
Connect(b) ==
  \E accepted \in BOOLEAN, up \in Answers(b) :
    /\ accepted => link[b].notices < MaxNotices
    /\ link' = [link EXCEPT ![b] = ConnectBank(b, @, accepted, up)]

\* refresh_bank from the connections page.
UserRefresh(b) ==
  \E up \in Answers(b) : link' = [link EXCEPT ![b] = Refresh(b, @, up)]

Disconnect(b) == link' = [link EXCEPT ![b] = Dropped(@)]

\* force_bt_session_expiry: only the connector learns of it.
ExpireSessionForDemo(b) ==
  /\ b \in Revocable
  /\ link' = [link EXCEPT ![b].revoked = TRUE]

\* A deferred sync's singleShot timer fires.
SyncTimer(b) ==
  /\ link[b].timers > 0
  /\ \E up \in Answers(b) :
       link' = [link EXCEPT ![b] = RunSync(b, [link[b] EXCEPT !.timers = @ - 1], up)]

\* on_scheduler_tick visits every bank in one go.
SchedulerTick ==
  \E up \in [Bank -> BOOLEAN] :
    /\ \A b \in Bank : up[b] \in Answers(b)
    /\ link' = [b \in Bank |-> IF Due(b, link[b]) THEN Refresh(b, link[b], up[b]) ELSE link[b]]

ClockTick == link' = [b \in Bank |-> Aged(b, link[b])]

UserStep == \E b \in Bank : Connect(b) \/ UserRefresh(b) \/ Disconnect(b)

SystemStep == \/ \E b \in Bank : SyncTimer(b)
              \/ SchedulerTick
              \/ ClockTick

BankStep == \E b \in Bank : ExpireSessionForDemo(b)

Next == UserStep \/ SystemStep \/ BankStep

Spec == Init /\ [][Next]_vars

\* The event loop runs on and time passes; users and banks owe nothing.
Fairness == /\ \A b \in Bank : WF_vars(SyncTimer(b))
            /\ WF_vars(SchedulerTick)
            /\ WF_vars(ClockTick)

FairSpec == Spec /\ Fairness

-----------------------------------------------------------------------------
(* Invariants.                                                             *)

\* Every link is a well-formed connection record, and Authenticating is only
\* ever seen inside connect_bank.
TypeOK == /\ DOMAIN link = Bank
          /\ \A b \in Bank : link[b] \in Connection(b) /\ link[b].state # "Authenticating"

\* A sync is marked in flight exactly while one timer for it is outstanding:
\* disconnecting and reconnecting during the delay neither loses the sync nor
\* starts a second one beside it (refresh's `already in flight` return).
OneTimerPerSync ==
  \A b \in Bank : link[b].timers = (IF link[b].syncing THEN 1 ELSE 0)

\* A session is held exactly while the link is Connected or SyncFailed, so no
\* other state can pull data and none of these two has lost its session.
SessionIffLive == \A b \in Bank : HasSession(link[b]) <=> IsLive(link[b])

\* A link waiting for re-authentication has no sync in flight: reconnecting
\* begins with a pull of its own, not with the tail of an older one.
ParkedIsQuiet == \A b \in Bank : link[b].state = "NeedsReauth" => ~link[b].syncing

\* "hints must not outlive recovery": an idle Connected link does not show the
\* failure text of an outage it has recovered from (run_sync clears it).
HintIsCurrent ==
  \A b \in Bank :
    (link[b].state = "Connected" /\ ~link[b].syncing) => link[b].last_error # "unavailable"

\* A link that shows a last-sync time has received every account's history,
\* even after passes that failed half-way (perform_sync's early returns).
StampMeansComplete ==
  \A b \in Bank : link[b].last_sync # None =>
                    link[b].known /\ link[b].history = AccountCount[b]

-----------------------------------------------------------------------------
(* Action properties.                                                      *)

\* "Sessions never silently re-authenticate": no timer and no tick ever turns
\* a link without a session into one with a session, or renews a session.
NoSilentReauth ==
  [][SystemStep => \A b \in Bank :
       HasSession(link'[b]) => HasSession(link[b]) /\ link'[b].session >= link[b].session]_vars

\* A live link has lost its session in this step.
Lost(b) == IsLive(link[b]) /\ link'[b].state = "NeedsReauth"

\* "surface it loudly once": each lost session is announced in the step that loses
\* it, by one notice, and no other step posts one: not the timer that finds the
\* session gone, nor the ticks and refreshes after it.
OneNoticePerLoss ==
  [][\A b \in Bank : link'[b].notices = link[b].notices + (IF Lost(b) THEN 1 ELSE 0)]_vars

-----------------------------------------------------------------------------
(* Liveness, of FairSpec.                                                  *)

\* A sync that has started ends: the spinner of the page does not stay.
SyncEnds == \A b \in Bank : link[b].syncing ~> ~link[b].syncing

\* The scheduler finds out that a Connected link's session has run out, with no
\* help from the user.
ExpirySurfaces ==
  \A b \in Bank : Interval[b] > 0 =>
    ((link[b].state = "Connected" /\ IsExpired(b, link[b]))
        ~> (link[b].state # "Connected" \/ ~IsExpired(b, link[b])))

\* "auto-syncs while links stay Connected": a Connected link with no rate limit
\* does not stay without fresh data.
StaleIsRefreshed ==
  \A b \in Bank : (Interval[b] > 0 /\ ~Limited(b)) =>
    ((link[b].state = "Connected" /\ link[b].last_sync \in {None, Interval[b]})
        ~> (link[b].state # "Connected" \/ link[b].last_sync \notin {None, Interval[b]}))

-----------------------------------------------------------------------------
(* What the layer promises, in the terms of BankConsent.                   *)

Received(c) == IF c.known THEN 1 + c.history ELSE 0

Promise == INSTANCE BankConsent
             WITH consent <- {b \in Bank : HasSession(link[b])},
                  data <- [b \in Bank |-> Received(link[b])]

\* Data is pulled only under a session the user asked for.
PullsUnderConsent == Promise!Spec

-----------------------------------------------------------------------------
(* What the repository says of the links and the code does not do.          *)

\* connection_service.h draws Disconnected as left only by Authenticating: no
\* timer or tick moves a disconnected link.
DisconnectSticks ==
  [][SystemStep => \A b \in Bank :
       link[b].state = "Disconnected" => link'[b].state = "Disconnected"]_vars

\* erste_connector.h: one attempt per cooldown window.  A refresh that starts
\* outside the window is that attempt, and is not refused.
AttemptOutsideWindowAllowed ==
  [][\A b \in Bank :
       (/\ link[b].syncing /\ ~link'[b].syncing
        /\ ~CoolingDown(b, link[b]))
          => link'[b].last_error # "rate_limited"]_vars

=============================================================================
