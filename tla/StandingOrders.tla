--------------------------- MODULE StandingOrders ---------------------------
(***************************************************************************)
(* The standing orders of payment_service, beside its transfers.            *)
(*                                                                         *)
(* An order is validated when it is created and again in each run, where    *)
(* the orders are paid one after the other in one handler, each against the *)
(* accounts as its predecessors left them.  A run comes from the heartbeat  *)
(* on a day an order is due, or from the demo menu on any day.              *)
(*                                                                         *)
(* Dates are day numbers.  All months have the same length: the day of an   *)
(* order is clamped to one that every month has, so addMonths never adjusts *)
(* the day and the lengths make no difference.                             *)
(***************************************************************************)
EXTENDS PaymentService, SequencesExt

CONSTANTS
  Month,         \* days in a month
  LastDay,       \* the last day an order may run on, 28
  Scheduling,    \* the banks with the scheduled_payments capability
  MaxOrders,     \* bound on the orders ever created
  MaxDay         \* bound on the days that pass and on the cycles run ahead

ASSUME OrderAssumption ==
  /\ Month \in Nat \ {0}
  /\ LastDay \in 1..Month
  /\ Scheduling \subseteq Bank
  /\ MaxOrders \in Nat
  /\ MaxDay \in Nat

VARIABLES
  today,      \* clock_.now().date()
  orders,     \* scheduled_, in the order of creation
  next_id     \* next_schedule_id_

ordervars == <<today, orders, next_id>>

allvars == <<vars, ordervars>>

Order == [id : Nat, from : Account, to : Account \cup {Outside}, amount : Amount, next_run : Nat]

OrdersInit == Init /\ today \in 0..(Month - 1) /\ orders = <<>> /\ next_id = 1

-----------------------------------------------------------------------------
(* Dates.                                                                  *)

\* Mutant of Clamped: the month's last days are kept.
ClampedNot(day) == day

Clamped(day) == IF day > LastDay THEN LastDay ELSE day

\* Mutant of FirstRun: an order for today's day is due today.
FirstRunToday(day) ==
  LET this == today - (today % Month) + Clamped(day) - 1 IN
  IF this < today THEN this + Month ELSE this

\* The order's day in this month, or in the next when it is not after today.
FirstRun(day) ==
  LET this == today - (today % Month) + Clamped(day) - 1 IN
  IF this <= today THEN this + Month ELSE this

-----------------------------------------------------------------------------
(* run_due_now.                                                            *)

Runs(o, force) == force \/ o.next_run <= today

\* The transfer an order asks for; its IBAN is looked up anew in each run.
Asked(o) == Resolved([from |-> o.from, to |-> o.to, amount |-> o.amount])

\* Mutants of Pay: every order is validated before the first is paid; the orders
\* are paid although they are not valid any more.
PayAllValidated(run, o) ==
  IF Valid(acct, Asked(o))
  THEN [books |-> Booked(run.books, Asked(o)), paid |-> run.paid \cup {o.id}] ELSE run

PayFrozen(run, o) ==
  IF ValidFrozen(run.books, Asked(o))
  THEN [books |-> Booked(run.books, Asked(o)), paid |-> run.paid \cup {o.id}] ELSE run

\* One turn of the loop, for an order that runs.
Pay(run, o) ==
  IF Valid(run.books, Asked(o))
  THEN [books |-> Booked(run.books, Asked(o)), paid |-> run.paid \cup {o.id}] ELSE run

\* The loop: after[n] is the outcome of its first n turns.
Outcome(force) ==
  LET after[n \in 0..Len(orders)] ==
        IF n = 0 THEN [books |-> acct, paid |-> {}]
        ELSE IF Runs(orders[n], force) THEN Pay(after[n - 1], orders[n])
        ELSE after[n - 1]
  IN  after[Len(orders)]

\* Mutants of Settled: an order that was skipped stays due; one that was paid does.
SettledIfPaid(o, force) ==
  IF Runs(o, force) /\ o.id \in Outcome(force).paid
  THEN [o EXCEPT !.next_run = o.next_run + Month] ELSE o

SettledIfSkipped(o, force) ==
  IF Runs(o, force) /\ o.id \notin Outcome(force).paid
  THEN [o EXCEPT !.next_run = o.next_run + Month] ELSE o

\* Paid or skipped, an order that ran waits for the month after the one it ran for.
Settled(o, force) ==
  IF Runs(o, force) THEN [o EXCEPT !.next_run = o.next_run + Month] ELSE o

RunDueNow(force) ==
  /\ acct' = Outcome(force).books
  /\ orders' = [i \in DOMAIN orders |-> Settled(orders[i], force)]
  /\ UNCHANGED <<first_day, cards, inflight, accepted, today, next_id>>

-----------------------------------------------------------------------------
(* Actions.                                                                *)

\* schedule validates like a transfer and keeps the request as it was made.
Schedule(asked, day) ==
  /\ Valid(acct, Resolved(asked))
  /\ BankOf[asked.from] \in Scheduling
  /\ next_id <= MaxOrders
  /\ orders' = Append(orders, [id |-> next_id, from |-> asked.from, to |-> asked.to,
                               amount |-> asked.amount, next_run |-> FirstRun(day)])
  /\ next_id' = next_id + 1
  /\ UNCHANGED <<vars, today>>

CancelScheduled(i) ==
  /\ orders' = RemoveAt(orders, i)
  /\ UNCHANGED <<vars, today, next_id>>

\* tick: the heartbeat of banking_session runs the orders when one of them is due.
Tick ==
  /\ \E i \in DOMAIN orders : orders[i].next_run <= today
  /\ RunDueNow(FALSE)

\* The demo menus and the page run every order, due or not.
DemoRun ==
  /\ orders # <<>>
  /\ \A i \in DOMAIN orders : orders[i].next_run < MaxDay
  /\ RunDueNow(TRUE)

\* One day or several pass; while the machine sleeps there is no heartbeat.
DaysPass(n) ==
  /\ today + n <= MaxDay
  /\ today' = today + n
  /\ DayEnds
  /\ UNCHANGED <<orders, next_id>>

Payment ==
  /\ \/ \E t \in Transfer : Submit(t) \/ FinishExecution(t)
     \/ \E n \in Amount : Salary(n)
     \/ \E b \in Bank : BankReport(b)
     \/ CardChange
  /\ UNCHANGED ordervars

OrdersNext ==
  \/ Payment
  \/ \E t \in Transfer, day \in 1..Month : Schedule(t, day)
  \/ \E i \in DOMAIN orders : CancelScheduled(i)
  \/ Tick
  \/ DemoRun
  \/ \E n \in 1..MaxDay : DaysPass(n)

OrdersSpec == OrdersInit /\ [][OrdersNext]_allvars

\* The heartbeat is a running timer.
OrdersFairSpec == OrdersSpec /\ WF_allvars(Tick)

-----------------------------------------------------------------------------
(* Properties.                                                             *)

\* Orders have the names they were given, in the order they were given them, and
\* run on a day every month has.
OrdersTypeOK ==
  /\ TypeOK
  /\ today \in Nat /\ next_id \in Nat
  /\ orders \in Seq(Order)
  /\ \A i \in DOMAIN orders :
       /\ orders[i].id < next_id
       /\ orders[i].next_run % Month < LastDay
       /\ \A j \in 1..(i - 1) : orders[j].id < orders[i].id

\* The orders that were settled in this step, by one month each.
Advanced ==
  { i \in DOMAIN orders \cap DOMAIN orders' :
      orders'[i] = [orders[i] EXCEPT !.next_run = orders[i].next_run + Month] }

\* Money that no transfer asked for leaves an account only as cycles of standing
\* orders: each debit belongs to an order whose cycle is over with this step, so
\* no cycle is paid twice, however runs, demo runs and days without a heartbeat
\* follow each other (run_due_now moves next_run on with every payment).
DebitsAreCycles ==
  [][\A a \in Account : (Spends(a) /\ accepted' = accepted) =>
       \E paid \in SUBSET { i \in Advanced : orders[i].from = a } :
         acct'[a].spent - acct[a].spent = MapThenSumSet(LAMBDA i : orders[i].amount, paid)]_allvars

\* "skip this cycle but stop retrying every tick": an order that is due is settled,
\* with or without money to pay it, however many months have gone by unattended.
DueIsSettled ==
  \A k \in 1..MaxOrders :
    (\E i \in DOMAIN orders : orders[i].id = k /\ orders[i].next_run <= today)
      ~> (\A i \in DOMAIN orders : orders[i].id = k => orders[i].next_run > today)

\* A new order never runs on the day it is made, nor later than a month from it.
FirstRunIsAhead ==
  [][\A i \in DOMAIN orders' : orders'[i].id = next_id =>
       orders'[i].next_run \in (today + 1)..(today + Month)]_allvars

=============================================================================
