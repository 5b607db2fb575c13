--------------------------- MODULE PaymentService ---------------------------
(***************************************************************************)
(* payment_service: transfers, with the accounts they move money between    *)
(* and the cards that restrict them.                                       *)
(*                                                                         *)
(* submit validates a transfer and execute books it after latency_ without  *)
(* validating it again; what interleaves with the latency is other          *)
(* transfers, the card switches, bank reports and midnight.  A request that *)
(* fails validate changes nothing and is no step.  The currency rules of    *)
(* validate are in Exchange; here they have nothing to refuse.             *)
(***************************************************************************)
EXTENDS CardService

CONSTANTS
  Outside,       \* any IBAN that is not of a known account
  Amount,        \* the amounts the user may ask for
  MinTransfer,   \* min_transfer_minor
  MaxTransfer,   \* max_transfer_minor
  Deferred,      \* latency_ is positive (production) or zero (tests)
  MaxAccepted    \* bound on the transfers and salaries accepted in all

ASSUME PaymentAssumption ==
  /\ Outside \notin Account
  /\ Amount \subseteq Nat
  /\ MinTransfer \in Nat \ {0}
  /\ MaxTransfer \in Nat
  /\ Deferred \in BOOLEAN
  /\ MaxAccepted \in Nat

VARIABLES
  inflight,   \* the single-shot timers of execute, by the transfer they carry
  accepted    \* counts what MaxAccepted bounds

vars == <<acct, first_day, cards, inflight, accepted>>

Transfer == [from : Account, to : Account \cup {Outside}, amount : Amount]

Init == /\ LedgerInit
        /\ CardsInit
        /\ inflight = [t \in Transfer |-> 0]
        /\ accepted = 0

-----------------------------------------------------------------------------
(* validate and finish_execution.                                          *)

\* Mutant of Resolved: every own account is taken for a known one.
ResolvedAlways(t) == t

\* resolve_internal_destination: the IBAN of an account not known is external.
Resolved(t) ==
  IF t.to # Outside /\ ~acct[t.to].known THEN [t EXCEPT !.to = Outside] ELSE t

WithinDailyLimit(books, t) ==
  DailyLimit(t.from) > 0 => books[t.from].spent + t.amount <= DailyLimit(t.from)

\* Mutant of Valid: the card is not looked at.
ValidFrozen(books, t) ==
  /\ t.amount \in MinTransfer..MaxTransfer
  /\ books[t.from].known
  /\ WithinDailyLimit(books, t)
  /\ books[t.from].balance >= t.amount
  /\ t.to # t.from

\* validate, against the accounts as they stand in books.
Valid(books, t) ==
  /\ t.amount >= MinTransfer
  /\ t.amount <= MaxTransfer
  /\ books[t.from].known
  /\ ~AccountFrozen(t.from)
  /\ WithinDailyLimit(books, t)
  /\ books[t.from].balance >= t.amount
  /\ t.to # t.from

\* finish_execution: an account that is gone cancels the transfer.
Booked(books, t) ==
  IF ~books[t.from].known \/ (t.to # Outside /\ ~books[t.to].known) THEN books
  ELSE IF t.to = Outside THEN Debited(books, t.from, t.amount)
  ELSE Credited(Debited(books, t.from, t.amount), t.to, t.amount)

-----------------------------------------------------------------------------
(* Actions.                                                                *)

\* submit, and execute with the validated transfer.
Submit(asked) ==
  LET t == Resolved(asked) IN
  /\ Valid(acct, t)
  /\ accepted < MaxAccepted
  /\ accepted' = accepted + 1
  /\ IF Deferred
     THEN inflight' = [inflight EXCEPT ![t] = inflight[t] + 1] /\ UNCHANGED acct
     ELSE acct' = Booked(acct, t) /\ UNCHANGED inflight
  /\ UNCHANGED <<first_day, cards>>

\* Mutants of FinishExecution: the timer fires again; the transfer waits until it
\* is valid once more.
FinishExecutionRepeats(t) ==
  /\ inflight[t] > 0
  /\ acct' = Booked(acct, t)
  /\ UNCHANGED <<first_day, cards, inflight, accepted>>

FinishExecutionWaits(t) ==
  /\ inflight[t] > 0
  /\ Valid(acct, t)
  /\ inflight' = [inflight EXCEPT ![t] = inflight[t] - 1]
  /\ acct' = Booked(acct, t)
  /\ UNCHANGED <<first_day, cards, accepted>>

\* The timer of execute fires.
FinishExecution(t) ==
  /\ inflight[t] > 0
  /\ inflight' = [inflight EXCEPT ![t] = inflight[t] - 1]
  /\ acct' = Booked(acct, t)
  /\ UNCHANGED <<first_day, cards, accepted>>

Salary(n) ==
  /\ accepted < MaxAccepted
  /\ accepted' = accepted + 1
  /\ ReceiveSalary(n)
  /\ UNCHANGED <<cards, inflight>>

BankReport(b) == Sync(b) /\ UNCHANGED <<cards, inflight, accepted>>

DayEnds == Midnight /\ UNCHANGED <<cards, inflight, accepted>>

\* create_virtual_card of banking_session finds no bank for an unknown account.
CardChange ==
  /\ \/ \E i \in DOMAIN cards, frozen \in BOOLEAN : SetFrozen(i, frozen)
     \/ \E i \in DOMAIN cards, n \in Limit : SetDailyLimit(i, n)
     \/ \E a \in Account, n \in Limit : acct[a].known /\ CreateVirtual(a, n)
  /\ UNCHANGED <<acct, first_day, inflight, accepted>>

Next == \/ \E t \in Transfer : Submit(t) \/ FinishExecution(t)
        \/ \E n \in Amount : Salary(n)
        \/ \E b \in Bank : BankReport(b)
        \/ CardChange
        \/ DayEnds

Spec == Init /\ [][Next]_vars

\* Every timer that was started fires.
Fairness == \A t \in Transfer : WF_vars(FinishExecution(t))

FairSpec == Spec /\ Fairness

-----------------------------------------------------------------------------
(* Invariants.                                                             *)

\* Accounts, cards and outstanding transfers are well formed.
TypeOK ==
  /\ LedgerTypeOK
  /\ CardsTypeOK
  /\ inflight \in [Transfer -> Nat]
  /\ accepted \in Nat

\* "extremely defensive": no account vanishes mid-flight, and what is in flight
\* was resolved when it was accepted, so finish_execution never has to cancel.
NothingVanishes ==
  \A t \in Transfer : inflight[t] > 0 =>
    /\ acct[t.from].known /\ t.from # t.to
    /\ t.to # Outside => acct[t.to].known

\* No account is overdrawn further than its bank says it is.
Solvent ==
  \A a \in Account : acct[a].balance >= (IF Reported[a] < 0 THEN Reported[a] ELSE 0)

\* The stored balance is the bank's figure and the rows posted locally.
BalanceMatchesRows ==
  \A a \in Account : acct[a].balance = Reported[a] + acct[a].local

-----------------------------------------------------------------------------
(* Action properties.                                                      *)

\* Money leaves the account in this step: a row is added to today's debits.
Spends(a) == acct[a].known /\ acct'[a].spent > acct[a].spent

\* A frozen card blocks the account as a transfer source.
FrozenBlocks == [][\A a \in Account : Spends(a) => ~AccountFrozen(a)]_vars

\* Daily limits cap today's outflows, the bank's own rows included.
LimitCapsOutflow ==
  [][\A a \in Account : (Spends(a) /\ DailyLimit(a) > 0) => acct'[a].spent <= DailyLimit(a)]_vars

\* Transfers and reports move money as MoneyMovement promises: both legs of a
\* transfer together, each accepted transfer once, covered when accepted.
Movement == INSTANCE MoneyMovement WITH
              balance <- [a \in Account |-> acct[a].balance],
              owed    <- inflight

MovesMoneySoundly == Movement!Spec

-----------------------------------------------------------------------------
(* Liveness, of FairSpec.                                                  *)

\* An accepted transfer is booked, whatever happens to its accounts meanwhile.
AcceptedIsBooked == \A t \in Transfer : inflight[t] > 0 ~> inflight[t] = 0

=============================================================================
