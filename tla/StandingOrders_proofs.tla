------------------------ MODULE StandingOrders_proofs ------------------------
(***************************************************************************)
(* Proofs about StandingOrders, for any month, any accounts and cards and   *)
(* any number of orders.                                                   *)
(*                                                                         *)
(* A run is a recursion over the orders.  Reached says what the books may   *)
(* have become after any number of its turns; one turn keeps it, and by     *)
(* induction the run as a whole does.                                      *)
(***************************************************************************)
EXTENDS StandingOrders, PaymentService_proofs, NumberLemmas, SequenceTheorems

\* Every order is from before the next, and on a day every month has.
InOrder ==
  \A i \in DOMAIN orders :
    /\ orders[i].id < next_id
    /\ orders[i].next_run % Month < LastDay
    /\ \A j \in 1..(i - 1) : orders[j].id < orders[i].id

OrderInv ==
  /\ PayInv
  /\ today \in Nat /\ next_id \in Nat
  /\ orders \in Seq(Order)
  /\ InOrder

\* What a run may make of the accounts as it finds them in acct.
Reached(books) ==
  /\ books \in Books
  /\ \A a \in Account :
       /\ books[a].known = acct[a].known
       /\ books[a].balance >= acct[a].balance \/ books[a].balance >= 0
       /\ books[a].spent >= acct[a].spent
       /\ books[a].spent > acct[a].spent =>
            /\ ~AccountFrozen(a)
            /\ DailyLimit(a) > 0 => books[a].spent <= DailyLimit(a)

-----------------------------------------------------------------------------
(* One turn of the loop.                                                   *)

\* What an order asks for is a transfer of its amount between accounts as they are.
LEMMA AskedFields ==
  ASSUME NEW o \in Order
  PROVE  /\ Asked(o) \in Transfer /\ Asked(o).from = o.from /\ Asked(o).amount = o.amount
         /\ Asked(o).to # Outside => acct[Asked(o).to].known
  <1> DEFINE t == [from |-> o.from, to |-> o.to, amount |-> o.amount]
  <1>1. t \in Transfer /\ t.from = o.from /\ t.amount = o.amount
    BY DEF Order, Transfer
  <1>2. Asked(o) = Resolved(t)
    BY DEF Asked
  <1> HIDE DEF t
  <1> QED
    BY <1>1, <1>2 DEF Resolved, Transfer

\* A payment debits the order's account by the order's amount, and is covered.
LEMMA PaidFields ==
  ASSUME acct \in Books, NEW o \in Order, NEW books, Reached(books), Valid(books, Asked(o))
  PROVE  LET d == Booked(books, Asked(o)) IN
         /\ Reached(d)
         /\ \A a \in Account :
              d[a].spent = books[a].spent + (IF a = o.from THEN o.amount ELSE 0)
  <1> DEFINE t == Asked(o)
             d == Booked(books, t)
  <1>1. /\ t \in Transfer /\ t.from = o.from /\ t.amount = o.amount
        /\ t.to # Outside => acct[t.to].known
    BY AskedFields
  <1>2. /\ t.amount >= MinTransfer /\ books[t.from].known /\ ~AccountFrozen(t.from)
        /\ WithinDailyLimit(books, t)
        /\ books[t.from].balance >= t.amount /\ t.to # t.from
    BY DEF Valid
  <1> HIDE DEF t
  <1>3. /\ t.from \in Account /\ t.amount \in Nat /\ t.amount > 0
        /\ t.to # Outside => t.to \in Account
    <2>1. t.from \in Account /\ t.amount \in Nat /\ (t.to # Outside => t.to \in Account)
      BY <1>1, PaymentAssumption DEF Transfer
    <2> QED
      BY <1>2, <2>1, PaymentAssumption
  <1>4. books \in Books /\ t.from # t.to /\ (t.to # Outside => books[t.to].known)
    BY <1>1, <1>2, <1>3 DEF Reached
  <1>5. /\ d \in Books
        /\ \A x \in Account :
             /\ d[x].known = books[x].known
             /\ d[x].balance = books[x].balance - (IF x = t.from THEN t.amount ELSE 0)
                                                + (IF x = t.to THEN t.amount ELSE 0)
             /\ d[x].spent = books[x].spent + (IF x = t.from THEN t.amount ELSE 0)
    BY <1>1, <1>2, <1>4, BookedFields
  <1> HIDE DEF d
  <1>6. ASSUME NEW a \in Account
        PROVE  /\ d[a].known = acct[a].known
               /\ d[a].balance >= acct[a].balance \/ d[a].balance >= 0
               /\ d[a].spent >= acct[a].spent
               /\ d[a].spent > acct[a].spent =>
                    /\ ~AccountFrozen(a)
                    /\ DailyLimit(a) > 0 => d[a].spent <= DailyLimit(a)
    <2>1. /\ books[a].known = acct[a].known
          /\ books[a].balance >= acct[a].balance \/ books[a].balance >= 0
          /\ books[a].spent >= acct[a].spent
          /\ books[a].spent > acct[a].spent =>
               /\ ~AccountFrozen(a)
               /\ DailyLimit(a) > 0 => books[a].spent <= DailyLimit(a)
      BY DEF Reached
    <2>2. /\ books[a].balance \in Int /\ books[a].spent \in Nat
          /\ acct[a].balance \in Int /\ acct[a].spent \in Nat
      BY <1>4 DEF Books, AccountRec
    <2>3. CASE a = t.from
      BY <1>2, <1>3, <1>5, <2>1, <2>2, <2>3 DEF WithinDailyLimit
    <2>4. CASE a # t.from
      BY <1>3, <1>5, <2>1, <2>2, <2>4
    <2> QED
      BY <2>3, <2>4
  <1>7. Reached(d)
    BY <1>5, <1>6 DEF Reached
  <1> QED
    BY <1>1, <1>5, <1>7 DEF d, t


-----------------------------------------------------------------------------
(* The run.                                                                *)

\* The n-th turn of the loop, paid or not.
Turn(run, n, force) == IF Runs(orders[n], force) THEN Pay(run, orders[n]) ELSE run

\* A run is a sequence of turns, and stays within what its turns may reach.
LEMMA OutcomeTurns ==
  ASSUME acct \in Books, orders \in Seq(Order), NEW force \in BOOLEAN
  PROVE  \E after :
           /\ Outcome(force) = after[Len(orders)]
           /\ after[0].books = acct
           /\ \A n \in 1..Len(orders) : after[n] = Turn(after[n - 1], n, force)
           /\ \A n \in 0..Len(orders) : Reached(after[n].books)
  <1> DEFINE m == Len(orders)
             base == [books |-> acct, paid |-> {}]
             X == [books : {books \in Books : Reached(books)}, paid : SUBSET Nat]
             step == [p \in X \X (1..m) |-> Turn(p[1], p[2], force)]
  <1>1. m \in Nat /\ \A n \in 1..m : orders[n] \in Order /\ orders[n].id \in Nat
    <2>1. m \in Nat /\ \A n \in 1..m : orders[n] \in Order
      OBVIOUS
    <2> QED
      BY <2>1 DEF Order
  <1>2. base \in X /\ base.books = acct
    <2>1. Reached(acct)
      BY DEF Reached, Books, AccountRec
    <2> QED
      BY <2>1
  <1>3. ASSUME NEW run \in X, NEW n \in 1..m PROVE Turn(run, n, force) \in X
    <2>1. CASE ~Runs(orders[n], force) \/ ~Valid(run.books, Asked(orders[n]))
      BY <2>1 DEF Turn, Pay
    <2>2. CASE Runs(orders[n], force) /\ Valid(run.books, Asked(orders[n]))
      <3>1. Turn(run, n, force) = [books |-> Booked(run.books, Asked(orders[n])),
                                   paid |-> run.paid \cup {orders[n].id}]
        BY <2>2 DEF Turn, Pay
      <3>2. Reached(Booked(run.books, Asked(orders[n])))
        BY <1>1, <2>2, PaidFields
      <3>3. Booked(run.books, Asked(orders[n])) \in Books
        BY <3>2 DEF Reached
      <3> QED
        BY <1>1, <3>1, <3>2, <3>3
    <2> QED
      BY <2>1, <2>2
  <1>4. \A run \in X : Reached(run.books)
    OBVIOUS
  <1> HIDE DEF X
  <1>5. \A run \in X, n \in 1..m : step[<<run, n>>] = Turn(run, n, force)
    OBVIOUS
  <1>6. step \in StepsOver(m, X)
    BY <1>3 DEF StepsOver
  <1> HIDE DEF step, m, base
  <1>7. PICK g : Follows(m, X, base, step, g)
    <2>1. m \in Nat
      BY <1>1
    <2> QED
      BY <1>2, <1>6, <2>1, RecursionUpTo
  <1> DEFINE Body(f) == [n \in 0..m |-> IF n = 0 THEN base
                                        ELSE IF Runs(orders[n], force) THEN Pay(f[n - 1], orders[n])
                                        ELSE f[n - 1]]
             after == CHOOSE f : f = Body(f)
  <1>8. ASSUME NEW n \in 1..m PROVE g[n] = Turn(g[n - 1], n, force)
    <2>1. n - 1 \in 0..m
      BY <1>1
    <2> QED
      BY <1>5, <1>7, <2>1 DEF Follows
  <1>9. g = Body(g)
    BY <1>1, <1>7, <1>8 DEF Follows, Turn
  <1>10. after = Body(after)
    BY <1>9
  <1>11. Outcome(force) = after[m]
    BY DEF Outcome, m, base
  <1> HIDE DEF after
  <1>12. after[0] = base /\ \A n \in 1..m : after[n] = Turn(after[n - 1], n, force)
    BY <1>1, <1>10 DEF Turn
  <1> DEFINE S == { n \in 0..m : after[n] \in X }
  <1>13. 0..m \subseteq S
    <2>1. 0 \in S
      BY <1>1, <1>2, <1>12
    <2>2. ASSUME NEW n \in 0..(m - 1), n \in S PROVE n + 1 \in S
      <3>1. n + 1 \in 1..m /\ (n + 1) - 1 = n /\ after[n] \in X
        BY <1>1, <2>2
      <3>2. after[n + 1] = Turn(after[n], n + 1, force)
        BY <1>12, <3>1
      <3> QED
        BY <1>3, <3>1, <3>2
    <2> HIDE DEF S
    <2> QED
      BY <1>1, <2>1, <2>2, InductionUpTo
  <1>14. \A n \in 0..m : Reached(after[n].books)
    BY <1>4, <1>13
  <1> QED
    BY <1>2, <1>11, <1>12, <1>14 DEF m

\* Whatever orders there are, a run ends with books that its turns may reach.
LEMMA OutcomeReached ==
  ASSUME acct \in Books, orders \in Seq(Order), NEW force \in BOOLEAN
  PROVE  Reached(Outcome(force).books)
  <1>1. PICK after :
           /\ Outcome(force) = after[Len(orders)]
           /\ \A n \in 0..Len(orders) : Reached(after[n].books)
    BY OutcomeTurns
  <1>2. Len(orders) \in 0..Len(orders)
    BY LenProperties
  <1> QED
    BY <1>1, <1>2

-----------------------------------------------------------------------------
(* Dates.                                                                  *)

LEMMA ClampedDay ==
  ASSUME NEW day \in 1..Month
  PROVE  Clamped(day) \in 1..LastDay
  BY OrderAssumption DEF Clamped

\* The first run is after today, by a month at most, and on a day every month has.
LEMMA FirstRunDay ==
  ASSUME today \in Nat, NEW day \in 1..Month
  PROVE  /\ FirstRun(day) \in (today + 1)..(today + Month)
         /\ FirstRun(day) % Month < LastDay
  <1> DEFINE m == today % Month
             q == today \div Month
             c == Clamped(day)
  <1>1. today = Month * q + m /\ m \in 0..(Month - 1) /\ q \in Int
    BY DivMod, OrderAssumption
  <1>2. c \in 1..LastDay /\ LastDay \in 1..Month /\ Month \in Nat \ {0}
    BY ClampedDay, OrderAssumption
  <1>3. FirstRun(day) = IF today - m + c - 1 <= today THEN today - m + c - 1 + Month
                        ELSE today - m + c - 1
    BY DEF FirstRun
  <1> HIDE DEF m, q, c
  <1>4. Month * q \in Int /\ Month * (q + 1) = Month * q + Month
    BY <1>1, <1>2
  <1>5. PICK k \in {q, q + 1} : FirstRun(day) = Month * k + (c - 1)
    BY <1>1, <1>2, <1>3, <1>4
  <1>6. FirstRun(day) % Month = c - 1
    <2>1. k \in Int /\ c - 1 \in 0..(Month - 1) /\ Month * k \in Int
      BY <1>1, <1>2, <1>4
    <2>2. FirstRun(day) \in Int
      BY <1>2, <1>5, <2>1
    <2> QED
      BY <1>2, <1>5, <2>1, <2>2, RemainderIs
  <1> QED
    BY <1>1, <1>2, <1>3, <1>6

-----------------------------------------------------------------------------
(* The orders.                                                             *)

LEMMA OrderFields ==
  ASSUME orders \in Seq(Order)
  PROVE  /\ Len(orders) \in Nat /\ DOMAIN orders = 1..Len(orders)
         /\ \A i \in DOMAIN orders :
              orders[i] \in Order /\ orders[i].id \in Nat /\ orders[i].next_run \in Nat
  <1>1. /\ Len(orders) \in Nat /\ DOMAIN orders = 1..Len(orders)
        /\ \A i \in DOMAIN orders : orders[i] \in Order
    OBVIOUS
  <1> QED
    BY <1>1 DEF Order

LEMMA OrdersInitInv == ASSUME OrdersInit PROVE OrderInv
  BY InitInv, OrderAssumption DEF OrdersInit, OrderInv, InOrder

\* A new order takes the next name, on a day every month has, and leaves the others.
LEMMA ScheduleStep ==
  ASSUME OrderInv, NEW t \in Transfer, NEW day \in 1..Month, Schedule(t, day)
  PROVE  /\ OrderInv'
         /\ \A i \in DOMAIN orders' :
              orders'[i].id = next_id => orders'[i].next_run = FirstRun(day)
  <1> DEFINE o == [id |-> next_id, from |-> t.from, to |-> t.to,
                   amount |-> t.amount, next_run |-> FirstRun(day)]
  <1>1. FirstRun(day) \in Nat /\ FirstRun(day) % Month < LastDay
    BY FirstRunDay, OrderAssumption DEF OrderInv
  <1>2. o \in Order /\ o.id = next_id /\ o.next_run = FirstRun(day)
    BY <1>1 DEF OrderInv, Order, Transfer
  <1>3. orders' = Append(orders, o) /\ next_id' = next_id + 1 /\ today' = today /\ UNCHANGED vars
    BY DEF Schedule
  <1> HIDE DEF o
  <1>4. PayInv' /\ orders \in Seq(Order) /\ next_id \in Nat /\ today \in Nat /\ InOrder
    BY <1>3, StepInv DEF OrderInv
  <1>5. /\ Len(orders) \in Nat /\ DOMAIN orders = 1..Len(orders)
        /\ \A i \in DOMAIN orders :
             orders[i] \in Order /\ orders[i].id \in Nat /\ orders[i].next_run \in Nat
    BY <1>4, OrderFields
  <1>6. /\ orders' \in Seq(Order) /\ DOMAIN orders' = 1..(Len(orders) + 1)
        /\ orders'[Len(orders) + 1] = o
        /\ \A i \in 1..Len(orders) : orders'[i] = orders[i]
    BY <1>2, <1>3, <1>4, <1>5, AppendProperties
  <1>7. InOrder'
    <2> SUFFICES ASSUME NEW i \in DOMAIN orders'
                 PROVE  /\ orders'[i].id < next_id'
                        /\ orders'[i].next_run % Month < LastDay
                        /\ \A j \in 1..(i - 1) : orders'[j].id < orders'[i].id
      BY DEF InOrder
    <2>1. CASE i = Len(orders) + 1
      <3>1. \A j \in 1..(i - 1) : orders'[j] = orders[j] /\ orders[j].id < next_id
        BY <1>4, <1>5, <1>6, <2>1 DEF InOrder
      <3> QED
        BY <1>1, <1>2, <1>3, <1>4, <1>6, <2>1, <3>1
    <2>2. CASE i \in 1..Len(orders)
      <3>1. \A j \in 1..i : j \in 1..Len(orders) /\ orders'[j] = orders[j]
        BY <1>5, <1>6, <2>2
      <3>2. /\ orders[i].id < next_id /\ orders[i].id \in Nat
            /\ orders[i].next_run % Month < LastDay
            /\ \A j \in 1..(i - 1) : orders[j].id < orders[i].id
        BY <1>4, <1>5, <2>2 DEF InOrder
      <3>3. orders'[i] = orders[i] /\ \A j \in 1..(i - 1) : orders'[j] = orders[j]
        BY <1>5, <2>2, <3>1
      <3> QED
        BY <1>3, <1>4, <3>2, <3>3
    <2> QED
      BY <1>5, <1>6, <2>1, <2>2
  <1>8. OrderInv'
    BY <1>3, <1>4, <1>6, <1>7 DEF OrderInv
  <1>9. \A i \in DOMAIN orders' : orders'[i].id = next_id => orders'[i].next_run = FirstRun(day)
    BY <1>2, <1>4, <1>5, <1>6 DEF InOrder
  <1> QED
    BY <1>8, <1>9

\* Cancelling an order renames no other and leaves them in their order.
LEMMA CancelStep ==
  ASSUME OrderInv, NEW k \in DOMAIN orders, CancelScheduled(k)
  PROVE  OrderInv'
  <1> DEFINE n == Len(orders)
             before == SubSeq(orders, 1, k - 1)
             after == SubSeq(orders, k + 1, n)
  <1>1. orders' = before \o after /\ today' = today /\ next_id' = next_id /\ UNCHANGED vars
    BY DEF CancelScheduled, RemoveAt
  <1>2. PayInv' /\ orders \in Seq(Order) /\ next_id \in Nat /\ today \in Nat /\ InOrder
    BY <1>1, StepInv DEF OrderInv
  <1>3. n \in Nat /\ k \in 1..n /\ \A i \in 1..n : orders[i] \in Order /\ orders[i].id \in Nat
    BY <1>2, OrderFields
  <1>4. /\ before \in Seq(Order) /\ Len(before) = k - 1
        /\ \A i \in 1..(k - 1) : before[i] = orders[i]
    <2>1. \A i \in 1..(k - 1) : orders[i] \in Order
      BY <1>3
    <2> QED
      BY <1>2, <1>3, <2>1, SubSeqProperties
  <1>5. /\ after \in Seq(Order) /\ Len(after) = n - k
        /\ \A i \in 1..(n - k) : after[i] = orders[i + k]
    <2>1. \A i \in (k + 1)..n : orders[i] \in Order
      BY <1>3
    <2> QED
      BY <1>2, <1>3, <2>1, SubSeqProperties
  <1> HIDE DEF before, after, n
  <1>6. /\ orders' \in Seq(Order) /\ DOMAIN orders' = 1..(n - 1)
        /\ \A i \in 1..(n - 1) : orders'[i] = orders[IF i < k THEN i ELSE i + 1]
    <2>0. /\ before \o after \in Seq(Order)
          /\ Len(before \o after) = Len(before) + Len(after)
          /\ \A i \in 1..(Len(before) + Len(after)) :
               (before \o after)[i] = IF i <= Len(before) THEN before[i]
                                      ELSE after[i - Len(before)]
      BY <1>4, <1>5, ConcatProperties
    <2>1. /\ before \o after \in Seq(Order)
          /\ Len(before \o after) = n - 1
          /\ \A i \in 1..(n - 1) :
               (before \o after)[i] = IF i <= k - 1 THEN before[i] ELSE after[i - (k - 1)]
      <3>1. Len(before) + Len(after) = n - 1
        BY <1>3, <1>4, <1>5
      <3> QED
        BY <1>4, <2>0, <3>1
    <2>2. \A i \in 1..(n - 1) : (before \o after)[i] = orders[IF i < k THEN i ELSE i + 1]
      <3> TAKE i \in 1..(n - 1)
      <3>1. CASE i < k
        BY <1>3, <1>4, <2>1, <3>1
      <3>2. CASE ~(i < k)
        <4>1. i - (k - 1) \in 1..(n - k) /\ i - (k - 1) + k = i + 1 /\ ~(i <= k - 1)
          BY <1>3, <3>2
        <4>2. after[i - (k - 1)] = orders[i + 1]
          BY <1>5, <4>1
        <4> QED
          BY <2>1, <3>2, <4>1, <4>2
      <3> QED
        BY <3>1, <3>2
    <2> QED
      BY <1>1, <2>1, <2>2
  <1>7. InOrder'
    <2> SUFFICES ASSUME NEW i \in 1..(n - 1)
                 PROVE  /\ orders'[i].id < next_id'
                        /\ orders'[i].next_run % Month < LastDay
                        /\ \A j \in 1..(i - 1) : orders'[j].id < orders'[i].id
      BY <1>6 DEF InOrder
    <2> DEFINE was(j) == IF j < k THEN j ELSE j + 1
    <2>1. was(i) \in 1..n /\ orders'[i] = orders[was(i)]
      BY <1>3, <1>6
    <2>2. ASSUME NEW j \in 1..(i - 1)
          PROVE  was(j) \in 1..(was(i) - 1) /\ orders'[j] = orders[was(j)]
      BY <1>3, <1>6
    <2> HIDE DEF was
    <2>3. was(i) \in DOMAIN orders
      BY <1>2, <2>1 DEF n
    <2>4. /\ orders[was(i)].id < next_id
          /\ orders[was(i)].next_run % Month < LastDay
          /\ \A j \in 1..(was(i) - 1) : orders[j].id < orders[was(i)].id
      BY <1>2, <2>3 DEF InOrder
    <2> QED
      BY <1>1, <2>1, <2>2, <2>4
  <1> QED
    BY <1>1, <1>2, <1>6, <1>7 DEF OrderInv

\* A run moves orders on by a month, and neither makes, renames nor reorders one.
LEMMA RunMovesOn ==
  ASSUME OrderInv, NEW force \in BOOLEAN, RunDueNow(force)
  PROVE  orders' \in Seq(Order) /\ InOrder'
  <1>1. /\ orders' = [i \in DOMAIN orders |-> Settled(orders[i], force)]
        /\ next_id' = next_id
    BY DEF RunDueNow
  <1>2. orders \in Seq(Order) /\ InOrder
    BY DEF OrderInv
  <1>3. /\ Len(orders) \in Nat /\ DOMAIN orders = 1..Len(orders)
        /\ \A i \in DOMAIN orders :
             orders[i] \in Order /\ orders[i].id \in Nat /\ orders[i].next_run \in Nat
    BY <1>2, OrderFields
  <1>4. ASSUME NEW o \in Order
        PROVE  /\ Settled(o, force) \in Order /\ Settled(o, force).id = o.id
               /\ Settled(o, force).next_run % Month = o.next_run % Month
    <2>1. o.next_run \in Nat /\ o.next_run + Month \in Nat
      BY OrderAssumption DEF Order
    <2>2. (o.next_run + Month) % Month = o.next_run % Month
      <3>1. Month \in Nat \ {0} /\ o.next_run \in Int
        BY <2>1, OrderAssumption
      <3> QED
        BY <3>1, RemainderOfNext
    <2> QED
      BY <2>1, <2>2 DEF Settled, Order
  <1>5. DOMAIN orders' = DOMAIN orders
        /\ \A i \in DOMAIN orders : /\ orders'[i] \in Order
                                    /\ orders'[i].id = orders[i].id
                                    /\ orders'[i].next_run % Month = orders[i].next_run % Month
    BY <1>1, <1>3, <1>4
  <1>6. orders' \in Seq(Order)
    BY <1>1, <1>3, <1>5
  <1>7. InOrder'
    <2> SUFFICES ASSUME NEW i \in DOMAIN orders
                 PROVE  /\ orders'[i].id < next_id
                        /\ orders'[i].next_run % Month < LastDay
                        /\ \A j \in 1..(i - 1) : orders'[j].id < orders'[i].id
      BY <1>1, <1>5 DEF InOrder
    <2>1. /\ orders[i].id < next_id
          /\ orders[i].next_run % Month < LastDay
          /\ \A j \in 1..(i - 1) : orders[j].id < orders[i].id
      BY <1>2 DEF InOrder
    <2>2. \A j \in 1..(i - 1) : j \in DOMAIN orders
      BY <1>3
    <2> QED
      BY <1>5, <2>1, <2>2
  <1> QED
    BY <1>6, <1>7

\* A run keeps the accounts as the transfers' invariant wants them.
LEMMA RunKeepsPay ==
  ASSUME PayInv, Reached(acct'), UNCHANGED <<first_day, cards, inflight, accepted>>
  PROVE  PayInv'
  <1>1. /\ acct \in Books /\ acct' \in Books
        /\ TypeOK /\ NothingVanishes /\ (~Deferred => Immediate)
    BY DEF PayInv, TypeOK, LedgerTypeOK, Books, Reached
  <1>2. ASSUME NEW a \in Account
        PROVE  /\ acct'[a].known = acct[a].known
               /\ acct'[a].balance >= acct[a].balance \/ acct'[a].balance >= 0
               /\ acct[a].balance \in Int /\ acct'[a].balance \in Int /\ Reported[a] \in Int
    BY <1>1, AccountAssumption DEF Reached, Books, AccountRec
  <1>3. TypeOK' /\ NothingVanishes'
    BY <1>1, <1>2 DEF TypeOK, LedgerTypeOK, CardsTypeOK, NothingVanishes, Books, Transfer
  <1>4. Solvent => Solvent'
    BY <1>2 DEF Solvent
  <1> QED
    BY <1>1, <1>3, <1>4 DEF PayInv, Immediate

LEMMA RunStep ==
  ASSUME OrderInv, NEW force \in BOOLEAN, RunDueNow(force)
  PROVE  OrderInv' /\ Reached(acct')
  <1>1. /\ acct' = Outcome(force).books /\ today' = today /\ next_id' = next_id
        /\ UNCHANGED <<first_day, cards, inflight, accepted>>
    BY DEF RunDueNow
  <1>2. PayInv /\ acct \in Books /\ orders \in Seq(Order) /\ today \in Nat /\ next_id \in Nat
    BY DEF OrderInv, PayInv, TypeOK, LedgerTypeOK, Books
  <1>3. Reached(acct')
    BY <1>1, <1>2, OutcomeReached
  <1>4. PayInv'
    BY <1>1, <1>2, <1>3, RunKeepsPay
  <1>5. orders' \in Seq(Order) /\ InOrder'
    BY RunMovesOn
  <1> QED
    BY <1>1, <1>2, <1>3, <1>4, <1>5 DEF OrderInv

\* Every other step is one of the transfers, and lets days pass at most.
LEMMA OtherStep ==
  ASSUME OrderInv,
         Payment \/ (\E n \in 1..MaxDay : DaysPass(n)) \/ UNCHANGED allvars
  PROVE  OrderInv' /\ orders' = orders /\ next_id' = next_id /\ [Next]_vars
  <1>1. /\ [Next]_vars
        /\ orders' = orders /\ next_id' = next_id
        /\ today' = today \/ \E n \in 1..MaxDay : today' = today + n
    BY DEF Payment, DaysPass, allvars, ordervars, Next
  <1>2. PayInv'
    BY <1>1, StepInv DEF OrderInv
  <1>3. today' \in Nat
    BY <1>1, OrderAssumption DEF OrderInv
  <1> QED
    BY <1>1, <1>2, <1>3 DEF OrderInv, InOrder

LEMMA OrdersStepInv ==
  ASSUME OrderInv, [OrdersNext]_allvars
  PROVE  OrderInv'
  <1>1. CASE \E t \in Transfer, day \in 1..Month : Schedule(t, day)
    BY <1>1, ScheduleStep
  <1>2. CASE \E i \in DOMAIN orders : CancelScheduled(i)
    BY <1>2, CancelStep
  <1>3. CASE Tick \/ DemoRun
    BY <1>3, RunStep DEF Tick, DemoRun
  <1>4. CASE Payment \/ (\E n \in 1..MaxDay : DaysPass(n)) \/ UNCHANGED allvars
    BY <1>4, OtherStep
  <1> QED
    BY <1>1, <1>2, <1>3, <1>4 DEF OrdersNext

-----------------------------------------------------------------------------
(* Theorems.                                                               *)

\* The inductive invariant holds beside any standing orders.
THEOREM OrdersInvariance == OrdersSpec => []OrderInv
  BY OrdersInitInv, OrdersStepInv, PTL DEF OrdersSpec

\* The orders keep their names and their order and run on a day every month has,
\* and the accounts stay well formed, whatever is scheduled, cancelled and run.
THEOREM OrdersTypeCorrect == OrdersSpec => []OrdersTypeOK
  <1>1. OrderInv => OrdersTypeOK
    BY DEF OrderInv, PayInv, InOrder, OrdersTypeOK
  <1> QED
    BY <1>1, OrdersInvariance, PTL

\* With no latency, neither a transfer nor a run of however many orders overdraws
\* an account further than its bank says it is.
THEOREM OrdersStaySolvent == ~Deferred => (OrdersSpec => []Solvent)
  <1> SUFFICES ASSUME ~Deferred PROVE OrdersSpec => []Solvent
    OBVIOUS
  <1>1. OrderInv => Solvent
    BY DEF OrderInv, PayInv, Immediate
  <1> QED
    BY <1>1, OrdersInvariance, PTL

\* What adds to today's debits is a transfer validated in that step or a run.
LEMMA OrdersSpending ==
  ASSUME ~Deferred, OrderInv, [OrdersNext]_allvars, NEW a \in Account, Spends(a)
  PROVE  /\ ~AccountFrozen(a)
         /\ DailyLimit(a) > 0 => acct'[a].spent <= DailyLimit(a)
  <1>0. PayInv /\ acct[a].spent \in Nat
    BY DEF OrderInv, PayInv, TypeOK, LedgerTypeOK, AccountRec
  <1>1. CASE [Next]_vars
    <2>1. Next
      BY <1>0, <1>1 DEF vars, Spends
    <2> QED
      BY <1>0, <2>1, SpendingIsValidated
  <1>2. CASE Tick \/ DemoRun
    <2>1. Reached(acct')
      BY <1>2, RunStep DEF Tick, DemoRun
    <2> QED
      BY <2>1 DEF Reached, Spends
  <1>3. CASE \E t \in Transfer, day \in 1..Month : Schedule(t, day)
    BY <1>1, <1>3 DEF Schedule
  <1>4. CASE \E i \in DOMAIN orders : CancelScheduled(i)
    BY <1>1, <1>4 DEF CancelScheduled
  <1>5. CASE Payment \/ (\E n \in 1..MaxDay : DaysPass(n)) \/ UNCHANGED allvars
    BY <1>1, <1>5, OtherStep
  <1> QED
    BY <1>2, <1>3, <1>4, <1>5 DEF OrdersNext

\* With no latency a frozen card stops the standing orders of its account too.
THEOREM OrdersRespectFreeze == ~Deferred => (OrdersSpec => FrozenBlocks)
  <1> SUFFICES ASSUME ~Deferred PROVE OrdersSpec => FrozenBlocks
    OBVIOUS
  <1>1. OrderInv /\ [OrdersNext]_allvars => [\A a \in Account : Spends(a) => ~AccountFrozen(a)]_vars
    BY OrdersSpending
  <1> QED
    BY <1>1, OrdersInvariance, PTL DEF OrdersSpec, FrozenBlocks

\* With no latency the daily limit caps a run of many orders as it does a transfer:
\* each is held against what its predecessors in the run have left.
THEOREM OrdersRespectLimit == ~Deferred => (OrdersSpec => LimitCapsOutflow)
  <1> SUFFICES ASSUME ~Deferred PROVE OrdersSpec => LimitCapsOutflow
    OBVIOUS
  <1>1. OrderInv /\ [OrdersNext]_allvars =>
          [\A a \in Account : (Spends(a) /\ DailyLimit(a) > 0) => acct'[a].spent <= DailyLimit(a)]_vars
    BY OrdersSpending
  <1> QED
    BY <1>1, OrdersInvariance, PTL DEF OrdersSpec, LimitCapsOutflow

\* The first cycle of a new order is after the day it is made on and within a month
\* of it, whichever day of the month is asked for (schedule clamps it to the 28th).
THEOREM FirstRunCorrect == OrdersSpec => FirstRunIsAhead
  <1> DEFINE InTime == \A i \in DOMAIN orders' : orders'[i].id = next_id =>
                         orders'[i].next_run \in (today + 1)..(today + Month)
  <1>1. OrderInv /\ [OrdersNext]_allvars => [InTime]_allvars
    <2> SUFFICES ASSUME OrderInv, OrdersNext PROVE InTime
      OBVIOUS
    <2>1. CASE \E t \in Transfer, day \in 1..Month : Schedule(t, day)
      BY <2>1, ScheduleStep, FirstRunDay DEF OrderInv
    <2>2. CASE ~\E t \in Transfer, day \in 1..Month : Schedule(t, day)
      <3>1. OrderInv' /\ next_id' = next_id
        BY <2>2, OrdersStepInv DEF OrdersNext, CancelScheduled, Tick, DemoRun, RunDueNow,
             DaysPass, Payment, ordervars
      <3>2. /\ \A i \in DOMAIN orders' : orders'[i].id < next_id
            /\ orders' \in Seq(Order) /\ next_id \in Nat
        BY <3>1 DEF OrderInv, InOrder
      <3>3. \A i \in DOMAIN orders' : orders'[i] \in Order
        BY <3>2
      <3>4. \A i \in DOMAIN orders' : orders'[i].id \in Nat
        BY <3>3 DEF Order
      <3> QED
        BY <3>2, <3>4
    <2> QED
      BY <2>1, <2>2
  <1> QED
    BY <1>1, OrdersInvariance, PTL DEF OrdersSpec, FirstRunIsAhead

-----------------------------------------------------------------------------
(* What a run debits.                                                      *)

\* The orders in paid, added up as DebitsAreCycles does.
Cost(paid) == MapThenSumSet(LAMBDA i : orders[i].amount, paid)

\* The fold over a set of orders is the sum over it, whichever it picks first.
LEMMA CostIsSum ==
  ASSUME NEW D, IsFiniteSet(D), NEW w \in [D -> Int], \A i \in D : orders[i].amount = w[i],
         NEW h \in [SUBSET D -> Int], h = SumBody(w, D, h), NEW P \in SUBSET D
  PROVE  Cost(P) = h[P]
  <1> DEFINE Body(f) == [T \in SUBSET P |-> IF T = {} THEN 0
                                            ELSE orders[Picked(T)].amount + f[T \ {Picked(T)}]]
             iter == CHOOSE f : f = Body(f)
             g == [T \in SUBSET P |-> h[T]]
  <1>1. Cost(P) = iter[P]
    BY DEF Cost, MapThenSumSet, MapThenFoldSet, Picked
  <1>2. \A T \in SUBSET P : T # {} => /\ Picked(T) \in D /\ T \ {Picked(T)} \in SUBSET P
                                      /\ orders[Picked(T)].amount = w[Picked(T)]
    BY PickedIn
  <1>3. \A T \in SUBSET P : g[T] = h[T] /\ T \in SUBSET D
    OBVIOUS
  <1>4. ASSUME NEW T \in SUBSET P
        PROVE  h[T] = IF T = {} THEN 0 ELSE orders[Picked(T)].amount + g[T \ {Picked(T)}]
    <2>1. h[T] = IF T = {} THEN 0 ELSE w[Picked(T)] + h[T \ {Picked(T)}]
      BY <1>3 DEF SumBody
    <2> HIDE DEF g
    <2> QED
      BY <1>2, <1>3, <2>1
  <1>5. g = Body(g)
    BY <1>4
  <1>6. iter = Body(iter)
    BY <1>5
  <1> HIDE DEF iter, g
  <1>7. iter = SumBody(w, P, iter)
    BY <1>2, <1>6 DEF SumBody
  <1>8. \A T \in SUBSET P : iter[T] = h[T]
    BY <1>7, SumUnique
  <1> QED
    BY <1>1, <1>8

LEMMA OrderAmount == ASSUME NEW o \in Order PROVE o.amount \in Int
  <1>1. o.amount \in Amount
    BY DEF Order
  <1>2. o.amount \in Nat
    BY <1>1, PaymentAssumption, Zenon
  <1> QED
    BY <1>2

\* Nothing costs nothing, and one order more costs its amount more.
LEMMA CostAdds ==
  ASSUME orders \in Seq(Order)
  PROVE  /\ Cost({}) = 0
         /\ \A P \in SUBSET DOMAIN orders : \A i \in DOMAIN orders \ P :
              Cost(P) \in Int /\ Cost(P \cup {i}) = Cost(P) + orders[i].amount
  <1> DEFINE D == DOMAIN orders
             w == [i \in D |-> orders[i].amount]
  <1>1. Len(orders) \in Nat /\ D = 1..Len(orders) /\ \A i \in D : orders[i] \in Order
    BY OrderFields
  <1>2. \A i \in D : orders[i].amount \in Int
    BY <1>1, OrderAmount
  <1>3. IsFiniteSet(D) /\ w \in [D -> Int] /\ \A i \in D : orders[i].amount = w[i]
    <2>1. IsFiniteSet(1..Len(orders))
      BY <1>1, FS_Interval
    <2> QED
      BY <1>1, <1>2, <2>1
  <1> HIDE DEF w, D
  <1>4. PICK h \in [SUBSET D -> Int] : h = SumBody(w, D, h)
    BY <1>3, SumExists
  <1>5. /\ h[{}] = 0
        /\ \A T \in SUBSET D : \A x \in T : h[T] = w[x] + h[T \ {x}]
    <2>1. Sums(w, D, h)
      BY <1>3, <1>4 DEF Sums
    <2> QED
      BY <2>1, SumTakesAny
  <1>6. \A P \in SUBSET D : Cost(P) = h[P]
    BY <1>3, <1>4, CostIsSum
  <1>7. ASSUME NEW P \in SUBSET D, NEW i \in D \ P
        PROVE  Cost(P) \in Int /\ Cost(P \cup {i}) = Cost(P) + orders[i].amount
    <2>1. P \cup {i} \in SUBSET D /\ (P \cup {i}) \ {i} = P /\ i \in P \cup {i}
      OBVIOUS
    <2>2. h[P \cup {i}] = w[i] + h[P]
      BY <1>5, <2>1
    <2>3. h[P] \in Int /\ w[i] \in Int /\ w[i] = orders[i].amount
      BY <1>2, <1>3
    <2> QED
      BY <1>6, <2>1, <2>2, <2>3
  <1> QED
    BY <1>5, <1>6, <1>7 DEF D

\* What a run takes from an account is the cost of orders of that account that ran.
LEMMA RunDebits ==
  ASSUME acct \in Books, orders \in Seq(Order), NEW force \in BOOLEAN, NEW a \in Account
  PROVE  \E paid \in SUBSET { i \in DOMAIN orders : Runs(orders[i], force) /\ orders[i].from = a } :
           Outcome(force).books[a].spent - acct[a].spent = Cost(paid)
  <1> DEFINE m == Len(orders)
             Owed(n) == { i \in 1..n : Runs(orders[i], force) /\ orders[i].from = a }
  <1>1. m \in Nat /\ DOMAIN orders = 1..m /\ \A n \in 1..m : orders[n] \in Order
    BY OrderFields
  <1>2. PICK after :
          /\ Outcome(force) = after[m]
          /\ after[0].books = acct
          /\ \A n \in 1..m : after[n] = Turn(after[n - 1], n, force)
          /\ \A n \in 0..m : Reached(after[n].books)
    BY OutcomeTurns
  <1>3. acct[a].spent \in Int /\ \A n \in 0..m : after[n].books[a].spent \in Int
    BY <1>2 DEF Reached, Books, AccountRec
  <1> DEFINE S == { n \in 0..m : \E paid \in SUBSET Owed(n) :
                      after[n].books[a].spent - acct[a].spent = Cost(paid) }
  <1>4. 0 \in S
    <2>1. after[0].books[a].spent - acct[a].spent = Cost({})
      BY <1>2, <1>3, CostAdds
    <2> QED
      BY <1>1, <2>1
  <1>5. ASSUME NEW n \in 0..(m - 1), n \in S PROVE n + 1 \in S
    <2>1. PICK paid \in SUBSET Owed(n) : after[n].books[a].spent - acct[a].spent = Cost(paid)
      BY <1>5
    <2>2. /\ n + 1 \in 1..m /\ n \in 0..m /\ (n + 1) - 1 = n
          /\ paid \in SUBSET DOMAIN orders /\ n + 1 \in DOMAIN orders \ paid
          /\ Owed(n) \subseteq Owed(n + 1)
      BY <1>1, <2>1
    <2>3. after[n + 1] = Turn(after[n], n + 1, force) /\ Reached(after[n].books)
      BY <1>2, <2>2
    <2> DEFINE o == orders[n + 1]
    <2>4. o \in Order /\ o.amount \in Int
      BY <1>1, <2>2, OrderAmount
    <2>5. CASE ~Runs(o, force) \/ ~Valid(after[n].books, Asked(o))
      <3>1. after[n + 1] = after[n]
        BY <2>3, <2>5 DEF Turn, Pay
      <3> QED
        BY <2>1, <2>2, <3>1
    <2>6. CASE Runs(o, force) /\ Valid(after[n].books, Asked(o))
      <3>1. after[n + 1].books = Booked(after[n].books, Asked(o))
        BY <2>3, <2>6 DEF Turn, Pay
      <3> HIDE DEF o
      <3>2. after[n + 1].books[a].spent
              = after[n].books[a].spent + (IF a = o.from THEN o.amount ELSE 0)
        BY <2>3, <2>4, <2>6, <3>1, PaidFields
      <3>3. CASE a = o.from
        <4>1. paid \cup {n + 1} \in SUBSET Owed(n + 1)
          BY <1>1, <2>2, <2>6, <3>3 DEF o
        <4>2. Cost(paid) \in Int /\ Cost(paid \cup {n + 1}) = Cost(paid) + o.amount
          BY <2>2, CostAdds DEF o
        <4>3. after[n + 1].books[a].spent - acct[a].spent = Cost(paid \cup {n + 1})
          BY <1>3, <2>1, <2>2, <2>4, <3>2, <3>3, <4>2
        <4> QED
          BY <2>2, <4>1, <4>3
      <3>4. CASE a # o.from
        <4>1. after[n + 1].books[a].spent = after[n].books[a].spent
          BY <1>3, <2>2, <3>2, <3>4
        <4> QED
          BY <2>1, <2>2, <4>1
      <3> QED
        BY <3>3, <3>4
    <2> QED
      BY <2>5, <2>6
  <1>6. m \in S
    <2> HIDE DEF S
    <2>1. 0..m \subseteq S
      BY <1>1, <1>4, <1>5, InductionUpTo
    <2> QED
      BY <1>1, <2>1
  <1> QED
    BY <1>1, <1>2, <1>6

\* With no latency, whatever leaves an account without a transfer of its own leaves
\* it as whole cycles of standing orders, and each of them is over with that step: no
\* cycle is paid twice, in however many runs, demo runs and days without a heartbeat.
THEOREM DebitsAreWholeCycles == ~Deferred => (OrdersSpec => DebitsAreCycles)
  <1> SUFFICES ASSUME ~Deferred PROVE OrdersSpec => DebitsAreCycles
    OBVIOUS
  <1> DEFINE Cycles(a) ==
               \E paid \in SUBSET { i \in Advanced : orders[i].from = a } :
                 acct'[a].spent - acct[a].spent = MapThenSumSet(LAMBDA i : orders[i].amount, paid)
             Kept == \A a \in Account : (Spends(a) /\ accepted' = accepted) => Cycles(a)
  <1>1. OrderInv /\ [OrdersNext]_allvars => [Kept]_allvars
    <2> SUFFICES ASSUME OrderInv, OrdersNext,
                        NEW a \in Account, Spends(a), accepted' = accepted
                 PROVE  Cycles(a)
      OBVIOUS
    <2>1. PayInv /\ acct \in Books /\ orders \in Seq(Order) /\ acct[a].spent \in Nat
          /\ accepted \in Nat
      BY DEF OrderInv, PayInv, TypeOK, LedgerTypeOK, Books, AccountRec
    <2>2. ASSUME NEW force \in BOOLEAN, RunDueNow(force) PROVE Cycles(a)
      <3>1. PICK paid \in SUBSET { i \in DOMAIN orders : Runs(orders[i], force) /\ orders[i].from = a } :
              acct'[a].spent - acct[a].spent = Cost(paid)
        BY <2>1, <2>2, RunDebits DEF RunDueNow
      <3>2. \A i \in paid : i \in Advanced /\ orders[i].from = a
        BY <2>2 DEF RunDueNow, Settled, Advanced
      <3> QED
        BY <3>1, <3>2 DEF Cost
    <2>3. CASE ~\E force \in BOOLEAN : RunDueNow(force)
      <3>1. CASE Next
        BY <2>1, <3>1, SpendingIsValidated
      <3>2. CASE UNCHANGED acct
        BY <2>1, <3>2 DEF Spends
      <3> QED
        BY <2>3, <3>1, <3>2 DEF OrdersNext, Payment, Next, Schedule, CancelScheduled, Tick,
             DemoRun, DaysPass, vars
    <2> QED
      BY <2>2, <2>3
  <1> QED
    BY <1>1, OrdersInvariance, PTL DEF OrdersSpec, DebitsAreCycles
=============================================================================
