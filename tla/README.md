# KMX iBanking: specifications, checks and proofs

TLA+ modules for the services of the KMX iBanking demo: what each of them keeps,
what it does on every call and timer, what it must never do, and what is proved
about it. Source paths below are relative to the repository (`src/services/...`,
`qml/...`); in `PROJECT.json` they carry the prefix `src/`.

The program is one Qt process with one event loop. Nothing runs in parallel, so a
handler is one step of a specification. What makes the program hard is what happens
*between* handlers: single-shot timers that carry on with what was true when they
were started, two 1 Hz timers, banks that expire and revoke sessions, pages that may
or may not be there, and the passing of time.

## 1. Inventory

| Component | State | Operations | Talks to |
|---|---|---|---|
| `connection_service` | per bank: link state, session, `last_sync`, `last_error`, `syncing` | `connect_bank`, `refresh`, `run_sync`, `disconnect`, `expire_session_for_demo`, 1 Hz `on_scheduler_tick` | connectors (calls), `account_service` (upsert, merge), `notification_service` (post) |
| connectors | `session_revoked_`, Erste's `last_attempt_ms_` | `authenticate`, `fetch_accounts`, `fetch_transactions`, `pre_fetch_guard` | the seeded world (constant) |
| `auth_service` | login state, `busy`, code and its age, failure streak, lockout time | `authenticate`, `verify_otp`, `resend_otp`, `lock`, `unlock`, `logout`, two deferred callbacks | shell and login pages (signals) |
| `account_service` | accounts, rows by key, the ordered view | `upsert_accounts`, `merge_transactions`, `post_local_transaction`, `amend_transaction`, `export_csv` | everybody reads it |
| `card_service` | cards | freeze, limits, switches, virtual cards | `payment_service` asks it |
| `payment_service` | standing orders; transfers in flight (in timers) | `submit`/`validate`/`execute`, `execute_exchange`, `schedule`, `run_due_now`, `tick` | accounts, cards, exchange advisor |
| `exchange_advisor_service` | none | `advise`, `best_route`: enumerate and rank routes | connections, accounts, fx |
| `fx_service` | mid rates, history | `tick` (bounded walk), `shock`, `convert` | heartbeat of `banking_session` |
| `budget_service` | limits, warnings fired | `set_limit`, `progress`, `check_warnings` | accounts, notifications |
| `notification_service` | capped list, unread count | `post`, `mark_all_read` | pages |
| `analytics_service`, normalization, IBAN, money | none | pure functions | - |
| `banking_session`, shells, activity monitor | `_primaryLinked`, last input | auto-link on login, idle lock, heartbeat | all services |
| exchange page | pair, amount, options, `selectedRoute` | pickers, amount field, cards, button | advisor, `payment_service` |
| view models, `ui_config`, other pages | selections, settings | - | services |

What makes each correct, and where it is hard:

* **Links.** Data is pulled only under a session the user asked for; a lost session
  is noticed once and never repaired silently; a sync that began ends; a half-done
  pass is not a sync. Hard: the deferred sync (120 ms to 2.5 s) crosses disconnect,
  reconnect, expiry and revocation.
* **Login.** One callback at a time; a lockout is served in full; no way into Active
  but a code or an unlock. Hard: the callbacks look at nothing when they run.
* **Money.** A transfer is covered, within the limit and from an account that is not
  frozen; both legs move together, once. Hard: 900 ms lie between validation and
  booking, and a sync overwrites balances at any time.
* **Session.** Links begin for a logged-in user only; an unattended session locks; what
  the user disconnected stays so. Hard: dialogs stay open over the lock, and the timers
  do not know of it.
* **Standing orders.** Each due month once, none twice, a failing one does not stop
  the others. Hard: one run pays several orders in one handler, each against what its
  predecessors left; runs come from a heartbeat that may have slept for days and from
  a menu on any day.
* **Exchange.** What is pressed is what is paid, covered, both rows of a leg together.
  Hard: the route carries the amounts it was advised with, and rates, balances, links
  and the page's own fields move between advice and execution.
* **Budgets, notifications.** A warning a month; the counter agrees with the list. Not
  modelled, see section 5.

`PROJECT.json` lists every component with its status, and under `hazards` every
spot where this bites, with the properties that watch it or the reason none does.

## 2. Modules

| Module | Models | Role |
|---|---|---|
| `BankConsent` | - | abstract: what the link layer promises the user |
| `ConnectionService` | `connection_service` and the connectors | detailed; implements `BankConsent` |
| `ConnectionService_proofs` | | theorems |
| `AuthService` | `auth_service` | detailed |
| `AuthService_proofs` | | theorems |
| `AccountService` | `account_service` | ledger operators and actions |
| `CardService` | `card_service`; extends `AccountService` | |
| `MoneyMovement` | - | abstract: what may happen to money |
| `PaymentService` | transfers of `payment_service`; extends `CardService` | composition of ledger, cards and transfers; implements `MoneyMovement` |
| `PaymentService_proofs` | | theorems |
| `StandingOrders` | standing orders of `payment_service` and their heartbeat; extends `PaymentService` | |
| `StandingOrders_proofs` | | theorems |
| `Exchange` | `exchange_advisor_service`, `execute_exchange`, the fallback of `submit`, the exchange page, `fx_service::convert`; extends `PaymentService` | composition |
| `Exchange_proofs` | | theorems |
| `BankingSession` | shell, idle lock, auto-link; instantiates `AuthService` and `ConnectionService` | composition |
| `BankingSession_proofs` | | theorems; instantiates the proofs of the two parts |
| `NumberLemmas` | - | induction, recursion, sums and ranks, for the other proofs |
| `MC*` | | instances for TLC |

Operators named `...Something` after a mapped operator and introduced by "Mutant of"
are altered versions of it: each property is tried against one of them, and must fail.

### ConnectionService

One variable, `link`, a record per bank: the fields of `connection`, plus `timers`
(single-shot callbacks outstanding), `revoked` and `last_attempt` (the connector's
own state), `known` and `history` (what the account store received) and `notices`
(re-authentication warnings posted). The handlers are functions from a record to a
record (`Refresh`, `RunSync`, `Settle`, `ConnectBank`, `Dropped`), because the code
calls them from one another: `connect_bank` and the scheduler both end in `refresh`,
which with a zero delay runs `run_sync` inline. An action applies one of them to one
bank; `SchedulerTick` visits all banks in one step, as the loop does.

Time is kept as *ages*. `session`, `last_sync` and `last_attempt` count ticks and
stop where the code's comparisons cannot tell any more (`Older`), so time goes on
for ever in a finite state space. A pass over `n` accounts of a rate-limited bank
obtains one account's rows outside the window and none inside (`Fetched`): the
connector's guard sits in front of each `fetch_transactions`.

Abstracted: token and credentials (accepted or refused), rows (a count of accounts
whose history is complete), error texts (their kind), sync delays (zero or not).

### AuthService

One record, `auth`, with the fields of the class. A code is issued or not and the
user enters `right`, `wrong` or `empty` (`Matches` compares with a cleared code as
the code does). `auth_timers` and `verify_timers` count the outstanding callbacks.
`GuardedByUi` says whether the calls come from the pages, which disable "Back to
login", "Resend code" and "Verify" while busy; with it FALSE any call is made at any
time. A call that only reports an error is no step.

### AccountService, CardService, PaymentService

`acct[a]` keeps whether the account is known, its available balance, the net of the
rows posted locally and today's debits. A row is kept as its share in these sums,
which is all that `validate` reads. What a bank reports is a constant, since the
connectors answer from one generated world. `Upserted` is `upsert_accounts` and
`merge_transactions` together: a known account takes the reported balance, a new one
brings its rows. Sums are in the account's own currency; the currency rules of
`validate` and the exchange they may lead to are in `Exchange`, and `PaymentService`
by itself is about accounts of one currency.

`MoneyMovement` owes a transfer that is deferred and settles it later, covered or not;
without a latency it is settled when it is accepted, and only if it is covered.

`inflight[t]` counts the timers of `execute` that carry transfer `t`; `Submit`
validates and starts one (or, with `Deferred` FALSE, books at once as the tests do)
and `FinishExecution` books without validating. `accepted` exists for the bound only.
`Valid` and `Booked` take the accounts as an argument, since a run of standing orders
and an exchange work on accounts that change within one handler.

### StandingOrders

`orders` is `scheduled_`, in the order of creation. `RunDueNow(force)` is the whole of
`run_due_now`: a recursive function over the orders that carries the accounts and what
has been paid (`Outcome`), and the new date of every order that ran, paid or not (`Settled`). `Tick`
is the heartbeat's guarded call of it, `DemoRun` the menus' forced one. `Schedule`
validates like a transfer but keeps the request as it was made: whether the other
account is an own one is looked up again in each run (`Asked`).

Dates are day numbers and months have one length. `schedule` clamps the day to the
28th and `addMonths` starts from that day, so no date is ever adjusted to a shorter
month, and the lengths of the months do not change the order of events. `DaysPass`
lets several days pass at once: a machine that sleeps has no heartbeat.

### Exchange

A route is one leg or two at one bank, with its path of currencies and the payout of
each leg (`Route`). `Advise` translates `advise`: per bank the richest account in the
source currency must cover the amount (`Richest`, `Funded`), some account must exist
in the target currency, the desk's rules give the payouts (`Payout`: spread, fees,
ticket limits, rounding half away from zero), routes that pay nothing are dropped and
the rest is ranked. The ranking is given as the number of better routes, not by
sorting. Doubles are exact fractions here.

`Exchanged` is `execute_exchange`: a leg debits its account and credits the richest
pocket of its target currency, if the funds are there; the second leg is paid from the
richest pocket of the middle currency *but the one just credited*, as the code has it,
and when it fails the first leg stays. `page` holds the four values of the exchange
page; every handler that changes one of them also applies the bindings that follow
from it (`Recomputed`: the options and, when nothing is selected, the recommended
route). A link that changes and a rate shock do not reach the page at once; the next
`Heartbeat` does. `SubmitAcross` is the fallback of `submit` between two currencies.

### BankingSession

`Login` and `Links` are instances of the two services over the same variables. The
steps of the user reset `seconds_idle`. The timers of the links run in any login state.
`OnSessionActive` is the shell's `onSessionActiveChanged`, part of every step that may
enter Active.

The pages are shown to an Active user only, so what opens a dialog needs that state
(`OpenDialog`, `PageButton`). The dialogs themselves, the connect flow, the confirmation
of a disconnect and the shell's demo menu, are popups in the window's overlay: neither
the idle lock nor Ctrl+L closes them, they lie in front of the lock, and what they call
(`link_bank`, `disconnect_bank`, the forced expiry) does not look at the login state.
`dialog_open` says that one of them is open; `DialogAccepted` is its button, in whatever
state the login is by then. That an open popup takes the input, so that the lock's
password, the login page and the page's own buttons are out of reach until it closes, is
Qt's doing and assumed; shortcuts still work, so Ctrl+L can lock past a dialog.

## 3. Runs

Passing runs, with the distinct states found:

| Run | States | Question |
|---|---|---|
| `links` | 13 920 | two links under one scheduler, everything that can cross a deferred sync, a connector that may be unavailable, a rate limit that stops a pass half-way |
| `auth` | 282 | every call of the login's interface at any time, callbacks outstanding or not |
| `payments_deferred` | 59 688 | transfers that cross each other and the rest: each booked once, both legs together |
| `orders` | 206 736 | standing orders and immediate transfers together: funds, freeze and limits, no cycle twice, every due order settled |
| `exchange` | 41 760 | the exchange page over the pockets of two banks, while rates, the links and, with their latency, transfers move |
| `session_shell` | 96 824 | login, shell, idle lock and two links together, as the pages and the dialogs over the lock drive them |

Runs that must find a violation, each of a statement of the repository that its code
does not keep (quoted in `PROJECT.json` under `findings`):

| Run | What TLC shows |
|---|---|
| `links_disconnect` | disconnect during a pending sync: the timer moves the link to NeedsReauth |
| `links_window` | a refresh outside Erste's window is refused by the pass's own first fetch, so Erste never completes a sync |
| `session_logout` | logging out drops no link |
| `payments_rows` | a sync undoes the balance of local transfers and keeps their rows |
| `exchange_amount` | after the amount is edited, the button names the new amount and exchanges the old one |
| `exchange_legs` | the second leg looks for any account but the one the first leg credited: the exchange stops with its first leg booked |

With a latency `FrozenBlocks`, `LimitCapsOutflow` and `Solvent` do not hold: `execute`
books what was validated 900 ms ago, so a transfer in flight leaves an account that has
been frozen since, and two of them together exceed the daily limit or the funds that
each of them met ("freeze blocks transfers from that account", README.md:38; "daily
limits cap today's outflows", payment_service.cpp:78). TLC shows each when the three
are added to `MCPaymentService_deferred.cfg`. They are stated, checked (`orders`) and
proved for zero latency. Without the pages' disabled buttons (`GuardedByUi` FALSE) a
logout during a verification is undone by its callback, so `FollowsDiagram` is checked
where the pages are, in `session_shell`, and proved under `GuardedByUi`.

What an exchange promises is stated as far as the code keeps it. `ExchangeIsWhole` says
that credits and debits go in pairs, all of them at the bank of the executed route, which
holds of a route that stops after its first leg; that the route arrives is
`ExchangeArrives`, and is violated. `PaysWhatWasShown` is about the exchanges that
complete. In the
seeded world Erste keeps no RON pocket, so there its two-leg routes through RON are
offered, ranked and refused at their first leg. `SubmitAcross` and a press may debit
what `validate` would refuse (a frozen card, the daily limit): `execute_exchange` looks
at the funds only. These it looks at in every leg, so an exchange is always covered
(`ExchangeIsCovered`), also where a transfer that lands late is not. Which account the
fallback debits is watched by no property: it is the richest pocket in the currency, not
the one the user named.

`LinkedOnlyInside` allows what the code does behind the lock. A user who was inside may
leave the connect dialog open, the lock comes, and Authorize links the bank: the session
begins in the state Locked, and the dialog closes with it, so one lock lets at most one
through. What is excluded, and was in doubt, is every other way: a timer, a callback of a
login that ends elsewhere, a dialog that survives a logout or a lockout.

What the properties of money do not watch. `MovesMoneySoundly` and `AcceptedIsBooked` say
that an accepted transfer is booked once, both legs together and to the accounts it was
resolved to; that it is still allowed when it is booked is not said, see above. A transfer
validated before midnight and booked after it counts against the day of its booking.
Freeze and limits are properties of account ids. The seeded cards name the ids of the
seeded world, while `upsert_accounts` numbers accounts in the order of linking
(`account_service.cpp:76`), so that a BT card can come to mean another bank's account.
The runs use KMX's card, whose bank is linked first; the proofs take any cards.

### Bounds

* `MaxNotices` 2 in `links` bounds reconnects: one loss and one more. After a reconnect
  the link is as after the first connect, but for `known`, `history` and `revoked`.
* Validity, interval and cooldown are 1 to 3 ticks (5 in `links_window`). What matters is
  their order (interval below or above validity, window shorter than the interval); ages
  saturate, so a longer one adds ticks and no new comparison.
* `MaxFailures` is the code's 5 and `StreakBound` 7, so the streak passes the limit
  twice, as after a cooldown. `LockoutTicks` is less than `OtpTicks`, as 30 s is less
  than 60 s. In `session_shell` they are 1: the composition asks nothing of them.
* Two accounts of two banks, one with a card and money, one that starts empty;
  amounts 0 to 3 around `MinTransfer` 1 and `MaxTransfer` 2 (each refused side once);
  two acceptances in flight, as the crossings need two.
* `MaxCards` 2 where a new card is the question (`payments_deferred`), otherwise 1.
* `orders`: two orders, months of 3 days of which the last is beyond `LastDay`, 4 days:
  an order falls due twice, two are due in one run, and the day and the month's end are
  each met. One transfer or salary beside them changes the funds between two runs.
* `exchange`: the pockets TBI (RON, EUR) and Erste (EUR, USD) have in the seeded world,
  with their desks; amounts of 1 (below the smallest ticket) and 100; two tables of rates,
  between which the best route from EUR to USD changes from direct to through RON. A
  pocket holds 150 or 50, so that a movement of 100, an exchange, the fallback of `submit`
  or a transfer booked after its latency, leaves too little for a route selected before.
  Two completed movements are what that takes. No pair of currencies is served by both
  banks: that the ranking is one for any number of banks that compete is proved.
  `exchange_amount` and `exchange_legs` have Erste alone with the RON pocket of the
  advisor's tests, since a two-leg route starts only there.
* `IdleTicks` 1, `Cooldown` 0, one account per bank in `session_shell`: the products
  of the two state machines are what it is for.

No run has symmetry, and no configuration switches deadlock checking off.

### Fairness

Only what the event loop does by itself is fair: timers that were started fire
(`SyncTimer`, `AuthCallback`, `VerifyCallback`, `FinishExecution`), the 1 Hz timers
tick (`SchedulerTick`, `IdleTimer`, `Tick` of the standing orders, `Heartbeat` of the
exchange page) and time passes (`ClockTick`). All are weak
fairness: a started single-shot timer stays started until it fires. Nothing is assumed
of the user or of the banks. In `BankingSession` fairness is stated of the scheduler
and of each sync timer separately, so a busy timer cannot starve another.

## 4. Proofs

TLC settles small instances; the theorems hold for every value of the constants that
satisfies the `ASSUME`s (`LinkAssumption`, `AuthAssumption`, `AccountAssumption`,
`CardAssumption`, `PaymentAssumption`, `OrderAssumption`, `ExchangeAssumption`,
`PlaceAssumption`, `SessionAssumption`), which say
little more than that the constants have their types. `PlaceAssumption` says that there
are finitely many accounts and banks and that two accounts do not share a place in their
list, nor two banks a `bank_id`; the proof that the ranking is total rests on it.
`SessionAssumption` says that both parts' assumptions hold and that the primary bank is
one of the banks. In each proof module
one theorem (`LinkInvariance`, `AuthInvariance`, `PayInvariance`, `OrdersInvariance`,
`ExchangeInvariance`) establishes an inductive invariant, and the rest follows from it.

* **NumberLemmas.** What the other proofs need to know of numbers and finite sets.
  Induction (`InductionUpTo`) is stated with the set of the numbers a claim is true of
  in place of a predicate, and follows from the least number principle; recursion
  (`RecursionUpTo`) with a function in place of an operator. Both can be instantiated
  by first-order provers where the library's induction theorems cannot. From them: a
  finite sum can be taken in any order (`Sums`, `SumTakesAny`), and in a strict order on
  a finite set the number of those ahead takes every value below the size (`Ranks`).
* **ConnectionService_proofs.** The invariant says of each record on its own that it
  is well typed, that a session and a live state go together, that a timer and
  `syncing` go together, and what a stamp and a hint mean. It is inductive only as a
  whole: that `RunSync` does not pull without a session needs the second part, that a
  timer never runs twice needs the third. Lemmas show that each handler function
  preserves it for one record, so the proof for `Next` is one step per action. From
  it: `TypeOK`, `OneTimerPerSync`, `SessionIffLive`, `ParkedIsQuiet`, `HintIsCurrent`,
  `StampMeansComplete`, the action properties `NoSilentReauth` and `OneNoticePerLoss`,
  and the refinement `ImplementsConsent`, which maps consent to the banks with a
  session and data to what was received.
* **AuthService_proofs.** The four invariants of the module are inductive together,
  none of them alone: that no code is compared once cleared needs that a callback is
  awaited exactly while busy, and so does the lockout. A fifth conjunct says that with
  the pages' buttons a busy service is in AwaitingOtp; it gives `DiagramFollowed`,
  which holds under `GuardedByUi` only.
* **PaymentService_proofs.** `PayInv` says that the state is well typed, that what is
  in flight was resolved when it was accepted and its accounts stay known, and, when
  nothing is deferred, that nothing is in flight and balances stay above the bank's
  own overdraft: the last two need each other, since only a booking validated in the
  same step is known to be covered. From it: `TypeOK`, `NothingVanishes`; for zero latency `Solvent`,
  `FrozenBlocks`, `LimitCapsOutflow`; for both `ImplementsMovement`, the refinement of
  `MoneyMovement`.
  `NewCardsTighten` is about the limits of the cards: the minimum over a set with one more
  member is no larger, for any number of cards (`MinOf`, `CapsGrow`).
* **StandingOrders_proofs.** `OrderInv` adds to `PayInv` that the orders are well formed,
  named in ascending order below the next name to be given, and due on a day that every
  month has. The properties of money carry over from `PaymentService` by an induction over
  the turns of one run: `OutcomeTurns` says that a run is one `Turn` after the other, and
  that each books a transfer that is valid against what its predecessors left, or
  nothing. A run therefore keeps `Solvent` (`OrdersStaySolvent`), pays from no frozen
  account (`OrdersRespectFreeze`) and stays within the daily limit as a whole
  (`OrdersRespectLimit`). `DebitsAreWholeCycles` adds up: what a run has debited from an
  account by its n-th turn is the sum of the amounts of the orders paid by then
  (`RunDebits`), and each of them moves on with this step. `FirstRunCorrect` is the
  arithmetic of `FirstRun` for any month and clamp.
* **Exchange_proofs.** `ExchangeInv` adds to `PayInv` that every option on the page and
  the selection fit the page's pair: they are routes of one leg or two that pay, through
  currencies that differ from both ends, of a positive amount, out of an account of
  their bank in the first (`Fits`). That
  `Advise` offers no other is shown from the desks' arithmetic and from the paths it
  enumerates; that the page keeps it holds because every handler that changes the pair
  clears the selection (`SelectionFits`). What is executed was an option once, so its
  shape can be relied on when its amounts cannot. `ExchangesAreCovered`: each leg looks
  at the funds of the account it debits, or of one of several richest with the same
  balance; with zero latency this makes `Solvent` hold of transfers and exchanges
  together. `PaidAsShown`: what the last leg credits is in a currency no leg debits.
  `ExchangesAreWhole`: the accounts of the two legs are all different ones, by their
  currencies and because the second leg leaves out the account just credited, so that
  one or two of them go down and as many go up (`FirstLeg`, `SecondLeg`); every leg looks
  for its accounts at the bank of the route, so no other bank's move.
  `SecondLegRefused`: with one account per bank and currency no two-leg exchange
  completes; the run `exchange_legs` shows one such exchange, the theorem that none
  ever arrives.
  `OffersAreRanked`: the ranking is a strict order on what a bank can offer (a bank makes
  at most one direct route and one through another currency, because there are three
  currencies of which two are taken), so the list has no gap, is sorted, and leaves out
  only what is worse than all it shows. It gives `ExchangeTypeCorrect`, and it covers
  what no run does, several banks that compete.
* **BankingSession_proofs.** The program is proved by parts. `SessionIsALogin` and
  `SessionRunsLinks` show that it implements the specifications of the two services it
  instantiates: each of its steps is a step of the login or leaves the login as it is,
  and likewise of the links, where what `OnSessionActive` does is a `ConnectBank` of the
  user's. All that is proved of a part therefore holds in the program
  (`PartsStayCorrect`, `SessionTypeCorrect`, `SessionFollowsDiagram`). The two properties
  of the composition need one invariant of their own (`BeforeLogin`): before the first
  login nothing is linked, no timer runs and no dialog is open, and later a dialog is open
  only while the user is inside or locked, since the ways out of these two states cannot
  be taken past it. From it `LinkedInside` and `DisconnectRemembered`.

Proved and not run: `ParkedIsQuiet`, a conjunct of the links' invariant, and
`OffersAreRanked`. Every invariant and action property that a passing run checks is
proved, some of them for zero latency only, as the theorem says. Only model-checked is
liveness, because the prover does not reason about fairness or ENABLED: `SyncEnds`,
`ExpirySurfaces` and `StaleIsRefreshed` of the links, `LockoutEnds` of the login,
`AcceptedIsBooked` of the transfers, `DueIsSettled` of the orders,
`DisconnectedVenueLeaves` of the exchange page and `UnattendedIsLocked` of the session.

## 5. Not modelled, and why

* `budget_service`: its one behaviour over time is the once-a-month warning of
  `check_warnings`, and nothing in the program calls it (`budget_service.h:43` says the
  session heartbeat does). The limits and sums are functions of the ledger.
* `notification_service`: a capped list and a counter, changed in two functions.
* `fx_service`'s walk and shock: random doubles. `Exchange` takes the rates from a set of
  tables, changed at any heartbeat or shock.
* Explanations, savings and the rate-limit flag of a route: shown, and read by nothing.
* `amend_transaction`: changes a label by the key of a row, and keys are abstracted.
* `analytics_service`, IBAN check, normalization: pure functions with unit tests.
* CSV export, translations, settings, layout, charts: conversions and presentation
  without a protocol.
* The online and contactless switches of a card: stored, never read.
* Random numbers (codes, card numbers, the walk's steps): a code is right or wrong.
* `simulate_incoming_salary` posts 850'000'00 minor units and tells the user
  +8 500,00. Amounts of the models are abstract, so no run shows it; it is listed
  under `hazards`.
* Pages other than the exchange page: only what they enable and disable. The busy flag
  of the payments page, cleared by any `transfer_completed`, and its list of orders, not
  refreshed by a run, are listed under `hazards`.

## 6. Plan

1. What the liveness properties rest on, as far as it is safety: that nothing but the
   fair step itself disables it, and the measure each such step lowers.
2. `StandingOrders` and `Exchange` against an abstract specification of money in several
   currencies, as `PaymentService` is against `MoneyMovement`.
3. The notices a link posts, with the capped list and its counter, beside the links.
