--------------------------- MODULE Exchange_proofs ---------------------------
(***************************************************************************)
(* Proofs about the exchange page and execute_exchange, for any banks,      *)
(* desks, rates and accounts: why a route of two legs does not arrive,      *)
(* what an exchange keeps however stale its route is, and what the ranking  *)
(* returns.                                                                *)
(*                                                                         *)
(* ExchangeInv is inductive.  It adds to PayInv that every option on the    *)
(* page and the selection are routes that fit its pair: what is executed    *)
(* later was an option once, so its shape, unlike its amounts, is fresh.    *)
(***************************************************************************)
EXTENDS Exchange, PaymentService_proofs

OnePocket ==
  \A a, x \in Account : BankOf[a] = BankOf[x] /\ CurrencyOf[a] = CurrencyOf[x] => a = x

-----------------------------------------------------------------------------
(* The second leg.                                                         *)

LEMMA RichestIsPocket ==
  ASSUME NEW books, NEW pockets \in SUBSET Account
  PROVE  Richest(books, pockets) \subseteq pockets
  BY DEF Richest

LEMMA PocketsAre ==
  ASSUME NEW books, NEW b, NEW c
  PROVE  /\ Pockets(books, b, c) \in SUBSET Account
         /\ \A a \in Pockets(books, b, c) : BankOf[a] = b /\ CurrencyOf[a] = c /\ books[a].known
  BY DEF Pockets

\* find_largest_at leaves out the account that the first leg has just credited, and
\* a bank with one account in each currency has no other: the exchange is given up
\* after its first leg, whatever the route and the books.
THEOREM SecondLegRefused ==
  ASSUME OnePocket, NEW books, NEW r \in Route, Len(r.outs) = 2
  PROVE  ~Exchanged(books, r).ok
  <1> DEFINE one == Leg(books, r, 1, {r.source})
             left == Pockets(one.books, r.bank, r.path[2]) \ one.to
  <1>1. CASE ~one.ok
    BY <1>1 DEF Exchanged
  <1>2. CASE one.ok
    <2>1. one.to = Target(books, r, 1, {r.source}) /\ one.to # {}
      BY <1>2 DEF Leg, Refused
    <2>2. one.to \subseteq Pockets(books, r.bank, r.path[2])
      BY <2>1, PocketsAre, RichestIsPocket DEF Target
    <2>3. left = {}
      <3>1. PICK x : x \in one.to
        BY <2>1
      <3>2. x \in Account /\ BankOf[x] = r.bank /\ CurrencyOf[x] = r.path[2]
        BY <2>2, <3>1, PocketsAre
      <3>3. \A a \in Pockets(one.books, r.bank, r.path[2]) : a = x
        BY <3>2 DEF Pockets, OnePocket
      <3> QED
        BY <3>1, <3>3
    <2>4. Richest(one.books, left) = {}
      BY <2>3 DEF Richest
    <2>5. Exchanged(books, r) = Leg(one.books, r, 2, {})
      BY <1>2, <2>4 DEF Exchanged
    <2> QED
      BY <2>5 DEF Leg, Covered, Refused
  <1> QED
    BY <1>1, <1>2
-----------------------------------------------------------------------------
(* Funds.                                                                  *)

\* The rows that lead from one ledger to another debit no account of more than it
\* holds when they do.
Keeps(before, after) ==
  /\ after \in Books
  /\ \A y \in Account :
       /\ after[y].known = before[y].known
       /\ after[y].balance < before[y].balance => after[y].balance >= 0

\* Accounts that may stand in for one another when a leg is paid: one by name, or
\* the richest, which have the same balance.
Payers(books, from) ==
  /\ from \subseteq Account
  /\ \A a, x \in from : books[a].balance = books[x].balance

LEMMA BalancesAreInt ==
  ASSUME NEW books \in Books, NEW y \in Account
  PROVE  books[y].balance \in Int
  BY DEF Books, AccountRec

LEMMA MovedFields ==
  ASSUME NEW books \in Books, NEW a \in Account, NEW x \in Account, NEW in \in Nat, NEW out \in Nat
  PROVE  LET moved == Credited(Debited(books, a, in), x, out) IN
         /\ moved \in Books
         /\ \A y \in Account :
              /\ moved[y].known = books[y].known
              /\ moved[y].balance = books[y].balance - (IF y = a THEN in ELSE 0)
                                                     + (IF y = x THEN out ELSE 0)
  <1> DEFINE debited == Debited(books, a, in)
  <1>1. /\ debited \in Books
        /\ \A y \in Account :
             /\ debited[y].known = books[y].known
             /\ debited[y].balance = books[y].balance - (IF y = a THEN in ELSE 0)
             /\ debited[y].spent = books[y].spent + (IF y = a THEN in ELSE 0)
    BY DebitedFields
  <1> HIDE DEF debited
  <1>2. LET moved == Credited(debited, x, out) IN
        /\ moved \in Books
        /\ \A y \in Account :
             /\ moved[y].known = debited[y].known
             /\ moved[y].balance = debited[y].balance + (IF y = x THEN out ELSE 0)
             /\ moved[y].spent = debited[y].spent
    <2>1. debited \in Books
      BY <1>1
    <2> QED
      BY <2>1, CreditedFields
  <1> QED
    BY <1>1, <1>2 DEF debited

LEMMA RichestArePayers ==
  ASSUME NEW books \in Books, NEW pockets \in SUBSET Account
  PROVE  Payers(books, Richest(books, pockets))
  <1>1. ASSUME NEW a \in Richest(books, pockets), NEW x \in Richest(books, pockets)
        PROVE  books[a].balance = books[x].balance
    <2>1. /\ a \in pockets /\ x \in pockets
          /\ books[a].balance >= books[x].balance
          /\ books[x].balance >= books[a].balance
      BY BalancesAreInt DEF Richest
    <2> QED
      BY <2>1, BalancesAreInt
  <1> QED
    BY <1>1, RichestIsPocket DEF Payers

\* A turn of execute_exchange's loop books nothing, or both rows between an account
\* it pays from, which has the funds, and one it may land in.
LEMMA LegMoves ==
  ASSUME NEW books \in Books, NEW r, NEW i, NEW from, Payers(books, from),
         In(r, i) \in Nat, r.outs[i] \in Nat
  PROVE  LET leg == Leg(books, r, i, from) IN
         /\ leg.books \in Books
         /\ ~leg.ok => leg.books = books
         /\ leg.ok => /\ leg.to = Target(books, r, i, from)
                      /\ \E a \in from, x \in leg.to :
                           /\ a \in Account /\ x \in Account
                           /\ books[a].balance >= In(r, i)
                           /\ \A y \in Account :
                                /\ leg.books[y].known = books[y].known
                                /\ leg.books[y].balance = books[y].balance - (IF y = a THEN In(r, i) ELSE 0)
                                                                           + (IF y = x THEN r.outs[i] ELSE 0)
  <1> DEFINE to == Target(books, r, i, from)
             a == CHOOSE y \in from : TRUE
             x == CHOOSE y \in to : TRUE
             leg == Leg(books, r, i, from)
  <1>1. CASE Covered(books, r, i, from) /\ to # {}
    <2>1. a \in from
      BY <1>1 DEF Covered
    <2>2. a \in Account /\ books[a].balance >= In(r, i)
      BY <1>1, <2>1 DEF Covered, Payers
    <2>3. x \in to
      BY <1>1
    <2>4. to \subseteq Account
      BY PocketsAre, RichestIsPocket DEF Target
    <2>5. leg = [ok |-> TRUE, to |-> to, books |-> Credited(Debited(books, a, In(r, i)), x, r.outs[i])]
      BY <1>1 DEF Leg, Moved
    <2> HIDE DEF a, x, to, leg
    <2>6. LET moved == Credited(Debited(books, a, In(r, i)), x, r.outs[i]) IN
          /\ moved \in Books
          /\ \A y \in Account :
               /\ moved[y].known = books[y].known
               /\ moved[y].balance = books[y].balance - (IF y = a THEN In(r, i) ELSE 0)
                                                      + (IF y = x THEN r.outs[i] ELSE 0)
      <3> DEFINE in == In(r, i)
                 out == r.outs[i]
      <3>1. a \in Account /\ x \in Account /\ in \in Nat /\ out \in Nat
        BY <2>2, <2>3, <2>4
      <3> HIDE DEF in, out
      <3>2. LET moved == Credited(Debited(books, a, in), x, out) IN
            /\ moved \in Books
            /\ \A y \in Account :
                 /\ moved[y].known = books[y].known
                 /\ moved[y].balance = books[y].balance - (IF y = a THEN in ELSE 0)
                                                        + (IF y = x THEN out ELSE 0)
        BY <3>1, MovedFields
      <3> QED
        BY <3>2 DEF in, out
    <2> QED
      BY <2>1, <2>2, <2>3, <2>4, <2>5, <2>6 DEF leg, to
  <1>2. CASE ~(Covered(books, r, i, from) /\ to # {})
    BY <1>2 DEF Leg, Refused
  <1> QED
    BY <1>1, <1>2

LEMMA LegKeeps ==
  ASSUME NEW books \in Books, NEW r, NEW i, NEW from, Payers(books, from),
         In(r, i) \in Nat, r.outs[i] \in Nat
  PROVE  Keeps(books, Leg(books, r, i, from).books)
  <1> DEFINE leg == Leg(books, r, i, from)
  <1>1. leg.books \in Books
    BY LegMoves
  <1>2. CASE ~leg.ok
    <2>1. leg.books = books
      BY <1>2, LegMoves
    <2> QED
      BY <2>1, BalancesAreInt DEF Keeps
  <1>3. CASE leg.ok
    <2>1. PICK a \in Account, x \in Account :
            /\ books[a].balance >= In(r, i)
            /\ \A y \in Account :
                 /\ leg.books[y].known = books[y].known
                 /\ leg.books[y].balance = books[y].balance - (IF y = a THEN In(r, i) ELSE 0)
                                                            + (IF y = x THEN r.outs[i] ELSE 0)
      BY <1>3, LegMoves
    <2> HIDE DEF leg
    <2>2. \A y \in Account : books[y].balance \in Int
      BY BalancesAreInt
    <2>3. ASSUME NEW y \in Account, leg.books[y].balance < books[y].balance
          PROVE  leg.books[y].balance >= 0
      <3>1. y = a
        BY <2>1, <2>2, <2>3
      <3> QED
        BY <2>1, <2>2, <3>1
    <2> QED
      BY <1>1, <2>1, <2>3 DEF Keeps, leg
  <1> QED
    BY <1>2, <1>3

LEMMA KeepsTransitive ==
  ASSUME NEW one \in Books, NEW two, NEW three, Keeps(one, two), Keeps(two, three)
  PROVE  Keeps(one, three)
  BY BalancesAreInt DEF Keeps

LEMMA RouteFields ==
  ASSUME NEW r \in Route
  PROVE  /\ r.bank \in Bank /\ r.source \in Account /\ r.amount \in Nat
         /\ \A i \in 1..Len(r.outs) : r.outs[i] \in Nat
  <1>1. r.outs \in Seq(Nat \ {0}) /\ r.source \in Account /\ r.amount \in Amount /\ r.bank \in Bank
    BY DEF Route
  <1>2. r.amount \in Nat
    BY <1>1, PaymentAssumption
  <1>3. \A outs \in Seq(Nat \ {0}) : \A i \in 1..Len(outs) : outs[i] \in Nat
    OBVIOUS
  <1> QED
    BY <1>1, <1>2, <1>3

\* Every leg looks at the funds again, so that an exchange keeps the books, however
\* old its route is.
LEMMA ExchangedKeeps ==
  ASSUME NEW books \in Books, NEW r \in Route, Len(r.outs) \in 1..2
  PROVE  Keeps(books, Exchanged(books, r).books)
  <1> DEFINE one == Leg(books, r, 1, {r.source})
             from == Richest(one.books, Pockets(one.books, r.bank, r.path[2]) \ one.to)
  <1>1. Payers(books, {r.source}) /\ In(r, 1) \in Nat /\ r.outs[1] \in Nat
    BY RouteFields DEF Payers, In
  <1>2. Keeps(books, one.books) /\ one.books \in Books
    BY <1>1, LegKeeps DEF Keeps
  <1>3. CASE Len(r.outs) = 1 \/ ~one.ok
    BY <1>2, <1>3 DEF Exchanged
  <1>4. CASE Len(r.outs) = 2 /\ one.ok
    <2>1. Payers(one.books, from)
      BY <1>2, RichestArePayers, PocketsAre
    <2>2. In(r, 2) \in Nat /\ r.outs[2] \in Nat
      BY <1>4, RouteFields DEF In
    <2>3. Exchanged(books, r) = Leg(one.books, r, 2, from)
      BY <1>4 DEF Exchanged
    <2> HIDE DEF one, from
    <2>4. Keeps(one.books, Exchanged(books, r).books)
      BY <1>2, <2>1, <2>2, <2>3, LegKeeps
    <2> QED
      BY <1>2, <2>4, KeepsTransitive
  <1> QED
    BY <1>3, <1>4

-----------------------------------------------------------------------------
(* What advise offers.                                                     *)

\* A route from one currency to another: of one or two legs that each pay, through
\* currencies that differ from both, out of an account of its bank in the first, and
\* of an amount worth moving.
Fits(r, from, to) ==
  /\ r \in Route
  /\ from # to
  /\ r.path[1] = from /\ r.path[Len(r.path)] = to
  /\ CurrencyOf[r.source] = from /\ BankOf[r.source] = r.bank
  /\ r.amount > 0
  /\ \/ Len(r.outs) = 1 /\ Len(r.path) = 2
     \/ Len(r.outs) = 2 /\ Len(r.path) = 3 /\ r.path[2] \notin {from, to}

LEMMA RoundedIsInt ==
  ASSUME NEW n \in Int, NEW d \in Nat \ {0}
  PROVE  Rounded(n, d) \in Int
  BY DEF Rounded

LEMMA PayoutIsInt ==
  ASSUME NEW rule \in Rule, NEW mid \in Nat, NEW in \in Int
  PROVE  Payout(rule, mid, in) \in Int
  <1>1. /\ rule.spread \in Nat /\ rule.percent \in Nat /\ rule.fixed \in Nat
        /\ Whole \in Nat \ {0} /\ Scale \in Nat \ {0}
    BY ExchangeAssumption DEF Rule
  <1>2. in * mid * (Whole - rule.spread) \in Int /\ Scale * Whole \in Nat \ {0}
    BY <1>1
  <1>3. Gross(rule, mid, in) \in Int
    BY <1>2, RoundedIsInt DEF Gross
  <1>4. Gross(rule, mid, in) * rule.percent \in Int
    BY <1>1, <1>3
  <1>5. Fee(rule, Gross(rule, mid, in)) \in Int
    BY <1>1, <1>4, RoundedIsInt DEF Fee
  <1> QED
    BY <1>3, <1>5 DEF Payout

LEMMA LegPayoutIsInt ==
  ASSUME NEW b \in Bank, NEW mids \in Quotes, NEW p, NEW i, NEW in \in Int,
         <<p[i], p[i + 1]>> \in DOMAIN Desk[b]
  PROVE  LegPayout(b, mids, p, i, in) \in Int
  <1>1. /\ <<p[i], p[i + 1]>> \in Pair
        /\ Desk[b][<<p[i], p[i + 1]>>] \in Rule
        /\ mids \in [Pair -> Nat]
    BY ExchangeAssumption
  <1> QED
    BY <1>1, PayoutIsInt DEF LegPayout

\* Whatever the balances, the desks and the rates, a candidate fits the pair.
LEMMA CandidatesFit ==
  ASSUME NEW books, NEW banks \in SUBSET Bank, NEW mids \in Quotes,
         NEW from \in Currency, NEW to \in Currency, from # to, NEW amount \in Amount, amount > 0,
         NEW r \in Candidates(books, banks, mids, from, to, amount)
  PROVE  Fits(r, from, to)
  <1>1. r \in Routes(books, banks, mids, from, to, amount) /\ Pays(r)
    BY DEF Candidates
  <1>2. PICK b \in banks : \E p \in Paths(b, from, to), a \in Richest(books, Pockets(books, b, from)) :
               r = RouteOver(b, mids, a, amount, p)
    BY <1>1 DEF Routes
  <1>3. PICK p \in Paths(b, from, to), a \in Richest(books, Pockets(books, b, from)) :
               r = RouteOver(b, mids, a, amount, p)
    BY <1>2
  <1>4. a \in Account /\ CurrencyOf[a] = from /\ BankOf[a] = b
    BY PocketsAre, RichestIsPocket
  <1>5. /\ b \in Bank /\ amount \in Int
        /\ \A i \in 1..(Len(p) - 1) : <<p[i], p[i + 1]>> \in DOMAIN Desk[b]
    BY PaymentAssumption DEF Paths
  <1> DEFINE first == LegPayout(b, mids, p, 1, amount)
             second == LegPayout(b, mids, p, 2, first)
  <1>6. /\ r.bank = b /\ r.source = a /\ r.amount = amount /\ r.path = p
        /\ r.outs = IF Len(p) = 2 THEN <<first>> ELSE <<first, second>>
        /\ r = [bank |-> b, source |-> a, amount |-> amount, path |-> p, outs |-> r.outs]
    BY <1>3 DEF RouteOver
  <1>7. Len(p) \in 2..3 => <<p[1], p[1 + 1]>> \in DOMAIN Desk[b]
    BY <1>5
  <1>8. CASE p = <<from, to>>
    <2>1. Len(p) = 2 /\ p[1] = from /\ p[2] = to /\ p \in Seq(Currency)
      BY <1>8
    <2>2. first \in Int
      <3>1. <<p[1], p[1 + 1]>> \in DOMAIN Desk[b] /\ b \in Bank /\ amount \in Int
        BY <1>5, <1>7, <2>1
      <3> QED
        BY <3>1, LegPayoutIsInt
    <2> HIDE DEF first, second
    <2>3. r.outs = <<first>>
      BY <1>6, <2>1
    <2>4. first \in Nat \ {0}
      BY <1>1, <2>2, <2>3 DEF Pays
    <2>5. r.outs \in Seq(Nat \ {0}) /\ Len(r.outs) = 1
      BY <2>3, <2>4
    <2>6. r \in Route
      BY <1>4, <1>5, <1>6, <2>1, <2>5 DEF Route
    <2> QED
      BY <1>4, <1>6, <2>1, <2>5, <2>6 DEF Fits
  <1>9. ASSUME NEW mid \in {Ron, Eur} \ {from, to}, p = <<from, mid, to>>
        PROVE  Fits(r, from, to)
    <2>1. Len(p) = 3 /\ p[1] = from /\ p[2] = mid /\ p[3] = to /\ p \in Seq(Currency) /\ mid \notin {from, to}
      BY <1>9 DEF Ron, Eur, Currency
    <2>2. first \in Int
      <3>1. <<p[1], p[1 + 1]>> \in DOMAIN Desk[b] /\ b \in Bank /\ amount \in Int
        BY <1>5, <1>7, <2>1
      <3> QED
        BY <3>1, LegPayoutIsInt
    <2>3. second \in Int
      <3> HIDE DEF first
      <3>1. <<p[2], p[2 + 1]>> \in DOMAIN Desk[b]
        BY <1>5, <2>1
      <3> QED
        BY <1>5, <2>2, <3>1, LegPayoutIsInt
    <2> HIDE DEF first, second
    <2>4. r.outs = <<first, second>>
      BY <1>6, <2>1
    <2>5. first \in Nat \ {0} /\ second \in Nat \ {0}
      BY <1>1, <2>2, <2>3, <2>4 DEF Pays
    <2>6. r.outs \in Seq(Nat \ {0}) /\ Len(r.outs) = 2
      BY <2>4, <2>5
    <2>7. r \in Route
      BY <1>4, <1>5, <1>6, <2>1, <2>6 DEF Route
    <2> QED
      BY <1>4, <1>6, <2>1, <2>6, <2>7 DEF Fits
  <1> QED
    BY <1>8, <1>9 DEF Paths

-----------------------------------------------------------------------------
(* The ranking.                                                            *)

\* A route the desk of its bank makes: each leg is of a pair it has a rule for.
Quoted(r) ==
  \A i \in 1..Len(r.outs) : <<r.path[i], r.path[i + 1]>> \in DOMAIN Desk[r.bank]

LEMMA FeeIsInt ==
  ASSUME NEW rule \in Rule, NEW mid \in Nat, NEW in \in Int
  PROVE  Fee(rule, Gross(rule, mid, in)) \in Int
  <1>1. /\ rule.spread \in Nat /\ rule.percent \in Nat /\ rule.fixed \in Nat
        /\ Whole \in Nat \ {0} /\ Scale \in Nat \ {0}
    BY ExchangeAssumption DEF Rule
  <1>2. in * mid * (Whole - rule.spread) \in Int /\ Scale * Whole \in Nat \ {0}
    BY <1>1
  <1>3. Gross(rule, mid, in) \in Int
    BY <1>2, RoundedIsInt DEF Gross
  <1>4. Gross(rule, mid, in) * rule.percent \in Int
    BY <1>1, <1>3
  <1> QED
    BY <1>1, <1>4, RoundedIsInt DEF Fee

LEMMA ConvertedIsInt ==
  ASSUME NEW n \in Int, NEW mids \in Quotes, NEW from \in Currency, NEW to \in Currency
  PROVE  Converted(n, mids, from, to) \in Int
  <1>1. mids[<<from, to>>] \in Nat /\ Scale \in Nat \ {0}
    BY ExchangeAssumption DEF Pair
  <1>2. n * mids[<<from, to>>] \in Int
    BY <1>1
  <1> QED
    BY <1>1, <1>2, RoundedIsInt DEF Converted

LEMMA FeeInDstIsInt ==
  ASSUME NEW r, NEW from, NEW to, Fits(r, from, to), Quoted(r), NEW mids \in Quotes
  PROVE  FeeInDst(r, mids) \in Int
  <1> DEFINE pair(i) == <<r.path[i], r.path[i + 1]>>
             Charged(i) ==
               LET rule == Desk[r.bank][<<r.path[i], r.path[i + 1]>>]
                   mid == mids[<<r.path[i], r.path[i + 1]>>]
               IN Converted(Fee(rule, Gross(rule, mid, In(r, i))), mids, r.path[i + 1], r.path[Len(r.path)])
  <1>1. /\ r \in Route /\ r.bank \in Bank /\ Len(r.outs) \in {1, 2} /\ Len(r.path) = Len(r.outs) + 1
        /\ \A i \in 1..Len(r.outs) : In(r, i) \in Int
    <2>1. r \in Route
      BY DEF Fits
    <2>2. \/ Len(r.outs) = 1 /\ Len(r.path) = 2
          \/ Len(r.outs) = 2 /\ Len(r.path) = 3
      BY DEF Fits
    <2>3. r.bank \in Bank /\ r.amount \in Nat /\ \A i \in 1..Len(r.outs) : r.outs[i] \in Nat
      BY <2>1, RouteFields
    <2> DEFINE n == Len(r.outs)
               k == Len(r.path)
    <2>4. (n = 1 /\ k = 2) \/ (n = 2 /\ k = 3)
      BY <2>2
    <2> HIDE DEF n, k
    <2>5. n \in {1, 2} /\ k = n + 1
      BY <2>4
    <2>6. ASSUME NEW i \in 1..n PROVE In(r, i) \in Int
      <3>1. i = 1 \/ (i = 2 /\ i - 1 \in 1..n)
        BY <2>5
      <3> QED
        BY <2>3, <3>1 DEF In, n
    <2> QED
      BY <2>1, <2>3, <2>5, <2>6 DEF n, k
  <1>2. \A i \in 1..Len(r.path) : r.path[i] \in Currency
    <2>1. r.path \in Seq(Currency)
      BY <1>1 DEF Route
    <2>2. \A path \in Seq(Currency) : \A i \in 1..Len(path) : path[i] \in Currency
      OBVIOUS
    <2> QED
      BY <2>1, <2>2
  <1>3. ASSUME NEW i \in 1..Len(r.outs) PROVE Charged(i) \in Int
    <2>1. pair(i) \in DOMAIN Desk[r.bank]
      BY DEF Quoted
    <2>2. Desk[r.bank][pair(i)] \in Rule /\ mids[pair(i)] \in Nat
      BY <1>1, <2>1, ExchangeAssumption
    <2>3. Fee(Desk[r.bank][pair(i)], Gross(Desk[r.bank][pair(i)], mids[pair(i)], In(r, i))) \in Int
      BY <1>1, <2>2, FeeIsInt
    <2>4. r.path[i + 1] \in Currency /\ r.path[Len(r.path)] \in Currency
      BY <1>1, <1>2
    <2> QED
      BY <2>3, <2>4, ConvertedIsInt
  <1>4. FeeInDst(r, mids) = IF Len(r.outs) = 1 THEN Charged(1) ELSE Charged(1) + Charged(2)
    BY DEF FeeInDst
  <1>5. Charged(1) \in Int /\ (Len(r.outs) = 2 => Charged(2) \in Int)
    <2> DEFINE n == Len(r.outs)
    <2>0. n \in {1, 2}
      BY <1>1
    <2> HIDE DEF Charged, n
    <2>1. 1 \in 1..n /\ (n = 2 => 2 \in 1..n)
      BY <2>0
    <2> USE DEF n
    <2> QED
      BY <1>3, <2>1
  <1> HIDE DEF Charged
  <1> QED
    BY <1>1, <1>4, <1>5

LEMMA RouteParts ==
  ASSUME NEW books, NEW banks \in SUBSET Bank, NEW mids, NEW from, NEW to, NEW amount,
         NEW r \in Routes(books, banks, mids, from, to, amount)
  PROVE  \E b \in Bank : \E p \in Paths(b, from, to), a \in Richest(books, Pockets(books, b, from)) :
           r = RouteOver(b, mids, a, amount, p)
  <1>1. PICK b \in banks : \E p \in Paths(b, from, to), a \in Richest(books, Pockets(books, b, from)) :
               r = RouteOver(b, mids, a, amount, p)
    BY DEF Routes
  <1> QED
    BY <1>1

LEMMA OfferedAre ==
  ASSUME NEW books, NEW banks \in SUBSET Bank, NEW mids \in Quotes,
         NEW from \in Currency, NEW to \in Currency, NEW amount \in Amount,
         NEW r \in Offered(books, banks, mids, from, to, amount)
  PROVE  /\ Fits(r, from, to) /\ Quoted(r)
         /\ r \in Routes(books, banks, mids, from, to, amount)
  <1>1. /\ from # to /\ amount > 0 /\ r \in Candidates(books, banks, mids, from, to, amount)
        /\ r \in Routes(books, banks, mids, from, to, amount)
    <2>1. amount \in Nat
      BY PaymentAssumption
    <2> QED
      BY <2>1 DEF Offered, Candidates
  <1>2. Fits(r, from, to)
    BY <1>1, CandidatesFit
  <1>3. PICK b \in Bank : \E p \in Paths(b, from, to), a \in Richest(books, Pockets(books, b, from)) :
               r = RouteOver(b, mids, a, amount, p)
    BY <1>1, RouteParts
  <1>4. PICK p \in Paths(b, from, to), a \in Richest(books, Pockets(books, b, from)) :
               r = RouteOver(b, mids, a, amount, p)
    BY <1>3
  <1>5. r.bank = b /\ r.path = p
    BY <1>4 DEF RouteOver
  <1>6. \A i \in 1..(Len(r.path) - 1) : <<r.path[i], r.path[i + 1]>> \in DOMAIN Desk[r.bank]
    BY <1>4, <1>5 DEF Paths
  <1>7. Quoted(r)
    <2> DEFINE n == Len(r.outs)
               k == Len(r.path)
    <2>1. (n = 1 /\ k = 2) \/ (n = 2 /\ k = 3)
      BY <1>2 DEF Fits
    <2> HIDE DEF n, k
    <2>2. 1..(k - 1) = 1..n
      BY <2>1
    <2> QED
      BY <1>6, <2>2 DEF Quoted, n, k
  <1> QED
    BY <1>1, <1>2, <1>7

\* The only currency a route may go through: with three of them and two taken, RON and
\* EUR are never both left.
LEMMA OneMiddle ==
  ASSUME NEW from \in Currency, NEW to \in Currency, from # to,
         NEW mid \in {Ron, Eur} \ {from, to}, NEW other \in {Ron, Eur} \ {from, to}
  PROVE  mid = other
  BY DEF Currency, Ron, Eur

\* No two accounts are the richest.
LEMMA OneRichest ==
  ASSUME NEW books \in Books, NEW b, NEW c,
         NEW a \in Richest(books, Pockets(books, b, c)), NEW x \in Richest(books, Pockets(books, b, c))
  PROVE  a = x
  <1> DEFINE pockets == Pockets(books, b, c)
  <1>1. /\ a \in pockets /\ x \in pockets
        /\ a \in Account /\ x \in Account
        /\ BankOf[a] = BankOf[x] /\ CurrencyOf[a] = CurrencyOf[x]
    BY PocketsAre, RichestIsPocket
  <1>2. /\ books[a].balance \in Int /\ books[x].balance \in Int
        /\ Place[a] \in Int /\ Place[x] \in Int
    BY <1>1, BalancesAreInt, ExchangeAssumption
  <1> HIDE DEF pockets
  <1>3. /\ \/ books[a].balance > books[x].balance
           \/ books[a].balance = books[x].balance /\ Place[a] <= Place[x]
        /\ \/ books[x].balance > books[a].balance
           \/ books[x].balance = books[a].balance /\ Place[x] <= Place[a]
    BY <1>1 DEF Richest, pockets
  <1>4. Place[a] = Place[x]
    BY <1>2, <1>3
  <1> QED
    BY <1>1, <1>4, PlaceAssumption

\* A bank makes at most one route of each length.
LEMMA RoutesDiffer ==
  ASSUME NEW books \in Books, NEW banks \in SUBSET Bank, NEW mids,
         NEW from \in Currency, NEW to \in Currency, from # to, NEW amount,
         NEW r \in Routes(books, banks, mids, from, to, amount),
         NEW s \in Routes(books, banks, mids, from, to, amount),
         r.bank = s.bank, Len(r.outs) = Len(s.outs)
  PROVE  r = s
  <1>1. PICK b \in Bank : \E p \in Paths(b, from, to), a \in Richest(books, Pockets(books, b, from)) :
               r = RouteOver(b, mids, a, amount, p)
    BY RouteParts
  <1>2. PICK p \in Paths(b, from, to), a \in Richest(books, Pockets(books, b, from)) :
               r = RouteOver(b, mids, a, amount, p)
    BY <1>1
  <1>3. PICK c \in Bank : \E q \in Paths(c, from, to), x \in Richest(books, Pockets(books, c, from)) :
               s = RouteOver(c, mids, x, amount, q)
    BY RouteParts
  <1>4. PICK q \in Paths(c, from, to), x \in Richest(books, Pockets(books, c, from)) :
               s = RouteOver(c, mids, x, amount, q)
    BY <1>3
  <1>5. b = c
    BY <1>2, <1>4 DEF RouteOver
  <1>6. a = x
    BY <1>5, OneRichest
  <1>7. p = q
    <2>1. /\ p = <<from, to>> \/ \E mid \in {Ron, Eur} \ {from, to} : p = <<from, mid, to>>
          /\ q = <<from, to>> \/ \E mid \in {Ron, Eur} \ {from, to} : q = <<from, mid, to>>
      BY DEF Paths
    <2>2. Len(p) = 2 <=> Len(q) = 2
      <3>1. (Len(r.outs) = 1 <=> Len(p) = 2) /\ (Len(s.outs) = 1 <=> Len(q) = 2)
        BY <1>2, <1>4 DEF RouteOver
      <3> QED
        BY <3>1
    <2>3. CASE p = <<from, to>>
      BY <2>1, <2>2, <2>3
    <2>4. ASSUME NEW mid \in {Ron, Eur} \ {from, to}, p = <<from, mid, to>> PROVE p = q
      <3>1. q # <<from, to>>
        BY <2>2, <2>4
      <3>2. PICK other \in {Ron, Eur} \ {from, to} : q = <<from, other, to>>
        BY <2>1, <3>1
      <3> QED
        BY <2>4, <3>2, OneMiddle
    <2> QED
      BY <2>1, <2>3, <2>4
  <1> QED
    BY <1>2, <1>4, <1>5, <1>6, <1>7

LEMMA RoutesFinite ==
  ASSUME NEW books, NEW banks \in SUBSET Bank, NEW mids, NEW from, NEW to, NEW amount
  PROVE  IsFiniteSet(Routes(books, banks, mids, from, to, amount))
  <1> DEFINE P == {<<from, to>>, <<from, Ron, to>>, <<from, Eur, to>>}
             D == (Bank \X Account) \X P
             f == [x \in D |-> RouteOver(x[1][1], mids, x[1][2], amount, x[2])]
             T == { f[x] : x \in D }
  <1>1. IsFiniteSet(P)
    <2>1. IsFiniteSet({<<from, to>>})
      BY FS_Singleton
    <2>2. IsFiniteSet({<<from, to>>} \cup {<<from, Ron, to>>})
      BY <2>1, FS_AddElement
    <2>3. IsFiniteSet(({<<from, to>>} \cup {<<from, Ron, to>>}) \cup {<<from, Eur, to>>})
      BY <2>2, FS_AddElement
    <2>4. P = ({<<from, to>>} \cup {<<from, Ron, to>>}) \cup {<<from, Eur, to>>}
      OBVIOUS
    <2> QED
      BY <2>3, <2>4
  <1>2. ASSUME NEW r \in Routes(books, banks, mids, from, to, amount) PROVE r \in T
    <2>1. PICK b \in Bank : \E p \in Paths(b, from, to), a \in Richest(books, Pockets(books, b, from)) :
                 r = RouteOver(b, mids, a, amount, p)
      BY RouteParts
    <2>2. PICK p \in Paths(b, from, to), a \in Richest(books, Pockets(books, b, from)) :
                 r = RouteOver(b, mids, a, amount, p)
      BY <2>1
    <2>3. a \in Account /\ p \in P
      BY PocketsAre, RichestIsPocket DEF Paths
    <2>4. <<<<b, a>>, p>> \in D
      BY <2>3
    <2>5. f[<<<<b, a>>, p>>] = r
      BY <2>2, <2>4
    <2> QED
      BY <2>4, <2>5
  <1> HIDE DEF P
  <1>3. IsFiniteSet(D)
    BY <1>1, PlaceAssumption, FS_Product
  <1> HIDE DEF D
  <1>4. f \in Surjection(D, T)
    BY DEF Surjection
  <1> HIDE DEF f, T
  <1>5. IsFiniteSet(T)
    BY <1>3, <1>4, FS_Surjection
  <1> QED
    BY <1>2, <1>5, FS_Subset

BetterIn(routes, mids) == { x \in routes \X routes : Better(x[1], x[2], mids) }

\* What the ranking compares.
LEMMA ComparedAre ==
  ASSUME NEW r, NEW from, NEW to, Fits(r, from, to), Quoted(r), NEW mids \in Quotes
  PROVE  /\ Result(r) \in Int /\ FeeInDst(r, mids) \in Int
         /\ Len(r.outs) \in Int /\ Index[r.bank] \in Int /\ r.bank \in Bank
  <1>1. FeeInDst(r, mids) \in Int
    BY FeeInDstIsInt
  <1>2. r.bank \in Bank /\ \A i \in 1..Len(r.outs) : r.outs[i] \in Nat
    BY RouteFields DEF Fits
  <1>3. Index[r.bank] \in Int
    BY <1>2, ExchangeAssumption
  <1> DEFINE n == Len(r.outs)
  <1>4. n \in {1, 2}
    BY DEF Fits
  <1> HIDE DEF n
  <1>5. n \in Int /\ n \in 1..n
    BY <1>4
  <1>6. r.outs[n] \in Int
    BY <1>2, <1>5 DEF n
  <1> QED
    BY <1>1, <1>2, <1>3, <1>5, <1>6 DEF Result, n

\* The ranking compares any two of the routes, and never in a circle.
LEMMA BetterIsStrict ==
  ASSUME NEW books \in Books, NEW banks \in SUBSET Bank, NEW mids \in Quotes,
         NEW from \in Currency, NEW to \in Currency, NEW amount \in Amount
  PROVE  LET routes == Offered(books, banks, mids, from, to, amount) IN
         StrictOrder(routes, BetterIn(routes, mids))
  <1> DEFINE routes == Offered(books, banks, mids, from, to, amount)
             R == BetterIn(routes, mids)
  <1>1. ASSUME NEW r \in routes
        PROVE  /\ Result(r) \in Int /\ FeeInDst(r, mids) \in Int
               /\ Len(r.outs) \in Int /\ Index[r.bank] \in Int /\ r.bank \in Bank
    BY OfferedAre, ComparedAre
  <1>2. ASSUME NEW r \in routes, NEW s \in routes, r.bank = s.bank, Len(r.outs) = Len(s.outs)
        PROVE  r = s
    <2>1. from # to
      BY OfferedAre DEF Fits
    <2>2. /\ r \in Routes(books, banks, mids, from, to, amount)
          /\ s \in Routes(books, banks, mids, from, to, amount)
      BY OfferedAre
    <2> QED
      BY <1>2, <2>1, <2>2, RoutesDiffer
  <1> HIDE DEF routes
  <1>3. \A r, s \in routes : <<r, s>> \in R <=> Better(r, s, mids)
    BY DEF BetterIn
  <1>4. \A r \in routes : ~Better(r, r, mids)
    <2> TAKE r \in routes
    <2>1. /\ Result(r) \in Int /\ FeeInDst(r, mids) \in Int
          /\ Len(r.outs) \in Int /\ Index[r.bank] \in Int
      BY <1>1
    <2> QED
      BY <2>1 DEF Better
  <1>5. ASSUME NEW r \in routes, NEW s \in routes, NEW t \in routes, Better(r, s, mids), Better(s, t, mids)
        PROVE  Better(r, t, mids)
    <2>1. \A x \in {r, s, t} : /\ Result(x) \in Int /\ FeeInDst(x, mids) \in Int
                              /\ Len(x.outs) \in Int /\ Index[x.bank] \in Int
      BY <1>1
    <2> QED
      BY <1>5, <2>1 DEF Better
  <1>6. ASSUME NEW r \in routes, NEW s \in routes, ~Better(r, s, mids), ~Better(s, r, mids)
        PROVE  r = s
    <2>1. \A x \in {r, s} : /\ Result(x) \in Int /\ FeeInDst(x, mids) \in Int
                           /\ Len(x.outs) \in Int /\ Index[x.bank] \in Int /\ x.bank \in Bank
      BY <1>1
    <2>2. Len(r.outs) = Len(s.outs) /\ Index[r.bank] = Index[s.bank]
      BY <1>6, <2>1 DEF Better
    <2>3. r.bank = s.bank
      BY <2>1, <2>2, PlaceAssumption
    <2> QED
      BY <1>2, <2>2, <2>3
  <1> HIDE DEF R
  <1>7. StrictOrder(routes, R)
    BY <1>3, <1>4, <1>5, <1>6 DEF StrictOrder
  <1> QED
    BY <1>7 DEF R, routes

\* advise returns the routes that count from the best on, without a gap: each is better
\* than those behind it, and one is left out only when there are as many better ones as
\* the page shows.
THEOREM OffersAreRanked ==
  ASSUME NEW books \in Books, NEW banks \in SUBSET Bank, NEW mids \in Quotes,
         NEW from \in Currency, NEW to \in Currency, NEW amount \in Amount
  PROVE  LET routes == Offered(books, banks, mids, from, to, amount)
             offers == Advise(books, banks, mids, from, to, amount)
         IN /\ offers \in Seq(routes) /\ Len(offers) <= Most
            /\ \A i, j \in 1..Len(offers) : i < j => Better(offers[i], offers[j], mids)
            /\ \A r \in routes : \/ \E i \in 1..Len(offers) : offers[i] = r
                                 \/ /\ Len(offers) = Most
                                    /\ \A i \in 1..Len(offers) : Better(offers[i], r, mids)
  <1> DEFINE routes == Offered(books, banks, mids, from, to, amount)
             offers == Advise(books, banks, mids, from, to, amount)
             R == BetterIn(routes, mids)
             n == Cardinality(routes)
             m == IF n < Most THEN n ELSE Most
             Rank(r) == Cardinality(Ahead(routes, R, r))
             Ranked(i) == { r \in routes : Rank(r) = i - 1 }
  <1>1. IsFiniteSet(routes)
    <2>1. routes \in SUBSET Routes(books, banks, mids, from, to, amount)
      BY OfferedAre
    <2> HIDE DEF routes
    <2> QED
      BY <2>1, RoutesFinite, FS_Subset
  <1>2. StrictOrder(routes, R)
    BY BetterIsStrict
  <1>3. offers = [i \in { k \in 1..Most : Ranked(k) # {} } |-> CHOOSE r \in Ranked(i) : TRUE]
    <2> DEFINE Listed(i) == { r \in routes : Cardinality({ s \in routes \ {r} : Better(s, r, mids) }) = i - 1 }
    <2>1. offers = [i \in { k \in 1..Most : Listed(k) # {} } |-> CHOOSE r \in Listed(i) : TRUE]
      BY DEF Advise, Ranking
    <2> HIDE DEF routes, offers
    <2>2. ASSUME NEW r \in routes PROVE { s \in routes \ {r} : Better(s, r, mids) } = Ahead(routes, R, r)
      BY DEF Ahead, BetterIn
    <2>3. ASSUME NEW i PROVE Listed(i) = Ranked(i)
      BY <2>2
    <2> HIDE DEF Listed, Ranked
    <2> QED
      BY <2>1, <2>3
  <1>4. \A r, s \in routes : <<r, s>> \in R <=> Better(r, s, mids)
    BY DEF BetterIn
  <1> HIDE DEF routes, R, offers
  <1>5. /\ n \in Nat
        /\ \A r \in routes : Rank(r) \in 0..(n - 1)
        /\ \A r, s \in routes : <<s, r>> \in R => Rank(s) < Rank(r)
        /\ \A i \in 0..(n - 1) : \E r \in routes : Rank(r) = i
    BY <1>1, <1>2, Ranks
  <1>6. \A r, s \in routes : r = s \/ <<r, s>> \in R \/ <<s, r>> \in R
    BY <1>2 DEF StrictOrder
  <1> HIDE DEF Rank, n
  <1>7. m \in Nat /\ m <= Most /\ m <= n /\ (m < n => m = Most)
    BY <1>5, ExchangeAssumption
  <1>8. ASSUME NEW r \in routes, NEW s \in routes, Rank(r) = Rank(s) PROVE r = s
    <2>1. Rank(r) \in Int /\ Rank(s) \in Int
      BY <1>5
    <2>2. ~(Rank(r) < Rank(s)) /\ ~(Rank(s) < Rank(r))
      BY <1>8, <2>1
    <2> QED
      BY <1>5, <1>6, <2>2
  <1>9. ASSUME NEW r \in routes, NEW s \in routes, Rank(r) < Rank(s) PROVE Better(r, s, mids)
    <2>1. Rank(r) \in Int /\ Rank(s) \in Int
      BY <1>5
    <2>2. r # s /\ ~(Rank(s) < Rank(r))
      BY <1>9, <2>1
    <2> QED
      BY <1>4, <1>5, <1>6, <2>2
  <1>10. { k \in 1..Most : Ranked(k) # {} } = 1..m
    <2>1. ASSUME NEW k \in 1..m PROVE k \in 1..Most /\ Ranked(k) # {}
      <3>1. k \in 1..Most /\ k - 1 \in 0..(n - 1)
        BY <1>5, <1>7, ExchangeAssumption
      <3> QED
        BY <1>5, <3>1
    <2>2. ASSUME NEW k \in 1..Most, Ranked(k) # {} PROVE k \in 1..m
      <3>1. PICK r \in routes : Rank(r) = k - 1
        BY <2>2
      <3>2. k - 1 \in 0..(n - 1) /\ k \in 1..Most
        BY <1>5, <3>1
      <3>3. n \in Nat /\ Most \in Nat
        BY <1>5, ExchangeAssumption
      <3> QED
        BY <3>2, <3>3
    <2> HIDE DEF m, Ranked
    <2> QED
      BY <2>1, <2>2
  <1>11. ASSUME NEW i \in 1..m PROVE offers[i] \in routes /\ Rank(offers[i]) = i - 1
    <2>1. Ranked(i) # {} /\ offers[i] = CHOOSE r \in Ranked(i) : TRUE
      <3> HIDE DEF m, Ranked
      <3> QED
        BY <1>3, <1>10
    <2>2. offers[i] \in Ranked(i)
      <3> HIDE DEF Ranked
      <3> QED
        BY <2>1
    <2> QED
      BY <2>2
  <1> HIDE DEF m, Ranked
  <1>12. offers \in Seq(routes) /\ Len(offers) = m
    <2>1. offers \in [1..m -> routes]
      BY <1>3, <1>10, <1>11
    <2> QED
      BY <1>7, <2>1
  <1>13. ASSUME NEW i \in 1..m, NEW j \in 1..m, i < j PROVE Better(offers[i], offers[j], mids)
    <2>1. Rank(offers[i]) < Rank(offers[j])
      BY <1>11, <1>13
    <2> QED
      BY <1>9, <1>11, <2>1
  <1>14. ASSUME NEW r \in routes
         PROVE  \/ \E i \in 1..m : offers[i] = r
                \/ m = Most /\ \A i \in 1..m : Better(offers[i], r, mids)
    <2>1. Rank(r) \in 0..(n - 1)
      BY <1>5
    <2>2. CASE Rank(r) + 1 \in 1..m
      <3>1. Rank(offers[Rank(r) + 1]) = Rank(r) /\ offers[Rank(r) + 1] \in routes
        BY <1>11, <2>1, <2>2
      <3> QED
        BY <1>8, <2>2, <3>1
    <2>3. CASE Rank(r) + 1 \notin 1..m
      <3>1. Rank(r) >= m /\ m = Most
        BY <1>5, <1>7, <2>1, <2>3
      <3>2. ASSUME NEW i \in 1..m PROVE Better(offers[i], r, mids)
        <4>1. Rank(offers[i]) < Rank(r)
          BY <1>7, <1>11, <2>1, <3>1
        <4> QED
          BY <1>9, <1>11, <4>1
      <3> QED
        BY <3>1, <3>2
    <2> QED
      BY <2>2, <2>3
  <1> QED
    BY <1>7, <1>12, <1>13, <1>14 DEF routes, offers

\* The options of a page, each for its pair.
Options(from, to) ==
  { offers \in Seq(Route) :
      Len(offers) <= Most /\ \A i \in 1..Len(offers) : Fits(offers[i], from, to) }

LEMMA AdviseFits ==
  ASSUME NEW books \in Books, NEW banks \in SUBSET Bank, NEW mids \in Quotes,
         NEW from \in Currency, NEW to \in Currency, NEW amount \in Amount
  PROVE  Advise(books, banks, mids, from, to, amount) \in Options(from, to)
  <1> DEFINE routes == Offered(books, banks, mids, from, to, amount)
             offers == Advise(books, banks, mids, from, to, amount)
  <1>1. \A r \in routes : Fits(r, from, to) /\ r \in Route
    BY OfferedAre DEF Fits
  <1>2. offers \in Seq(routes) /\ Len(offers) <= Most
    BY OffersAreRanked
  <1> HIDE DEF routes, offers
  <1>3. offers \in Seq(Route) /\ \A i \in 1..Len(offers) : offers[i] \in routes
    BY <1>1, <1>2
  <1> QED
    BY <1>1, <1>2, <1>3 DEF Options, offers

-----------------------------------------------------------------------------
(* The inductive invariant.                                                *)

Selected(p) == p.selected = NoRoute \/ Fits(p.selected, p.from, p.to)

\* The options and the selection are for the pair of the page; the amount of a route
\* need not be that of the page.
PageInv == page \in Page /\ Selected(page) /\ page.options \in Options(page.from, page.to)

ExchangeInv ==
  /\ PayInv
  /\ linked \in SUBSET Bank /\ quote \in Quotes
  /\ PageInv

\* Each change of the page keeps the selection or selects the first of the new options.
LEMMA RecomputedFits ==
  ASSUME NEW p \in Page, Selected(p), NEW offers \in Options(p.from, p.to), page' = Recomputed(p, offers)
  PROVE  PageInv'
  <1>2. offers \in Seq(Route)
    BY DEF Options
  <1>3. 1 \in DOMAIN offers => Fits(offers[1], p.from, p.to) /\ offers[1] \in Route
    BY DEF Options, Fits
  <1>4. /\ page'.from = p.from /\ page'.to = p.to /\ page'.amount = p.amount /\ page'.options = offers
        /\ page'.selected = IF p.selected = NoRoute /\ 1 \in DOMAIN offers THEN offers[1] ELSE p.selected
        /\ page' = [from |-> page'.from, to |-> page'.to, amount |-> page'.amount,
                    options |-> page'.options, selected |-> page'.selected]
    BY DEF Recomputed, Page
  <1>5. page'.selected = NoRoute \/ Fits(page'.selected, p.from, p.to)
    BY <1>3, <1>4 DEF Selected
  <1>6. page'.selected \in Route \cup {NoRoute}
    BY <1>5 DEF Fits
  <1>7. p.from \in Currency /\ p.to \in Currency /\ p.amount \in Amount
    BY DEF Page
  <1>8. page' \in Page
    BY <1>2, <1>4, <1>6, <1>7 DEF Page
  <1> QED
    BY <1>4, <1>5, <1>8 DEF PageInv, Selected

LEMMA ShownFits ==
  ASSUME NEW p \in Page, NEW books \in Books, NEW banks \in SUBSET Bank, NEW mids \in Quotes
  PROVE  Shown(p, books, banks, mids) \in Options(p.from, p.to)
  <1>1. p.from \in Currency /\ p.to \in Currency /\ p.amount \in Amount
    BY DEF Page
  <1> QED
    BY <1>1, AdviseFits DEF Shown

LEMMA RepairedFits ==
  ASSUME ExchangeInv, NEW p \in Page, page' = Repaired(p)
  PROVE  PageInv'
  <1> DEFINE offers == Shown(p, acct, linked, quote)
  <1>1. offers \in Options(p.from, p.to)
    <2>1. acct \in Books /\ linked \in SUBSET Bank /\ quote \in Quotes
      BY DEF ExchangeInv, PayInv, TypeOK, LedgerTypeOK, Books
    <2> QED
      BY <2>1, ShownFits
  <1>2. page' = [p EXCEPT !.options = offers, !.selected = NoRoute]
    BY DEF Repaired
  <1> HIDE DEF offers
  <1>3. offers \in Seq(Route)
    BY <1>1 DEF Options
  <1>4. page'.from = p.from /\ page'.to = p.to /\ page'.options = offers /\ page'.selected = NoRoute
    BY <1>2 DEF Page
  <1>5. page' \in Page
    BY <1>2, <1>3 DEF Page
  <1> QED
    BY <1>1, <1>4, <1>5 DEF PageInv, Selected

\* An exchange leaves the timers and keeps what is known, and solvent.
LEMMA StillPayInv ==
  ASSUME PayInv, Keeps(acct, acct'), inflight' = inflight, first_day' = first_day, cards' = cards,
         accepted' \in Nat
  PROVE  PayInv'
  <1>1. acct \in Books /\ TypeOK /\ NothingVanishes
    BY DEF PayInv, TypeOK, LedgerTypeOK, Books
  <1>2. acct' \in Books /\ \A y \in Account : acct'[y].known = acct[y].known
    BY DEF Keeps
  <1>3. TypeOK'
    BY <1>1, <1>2 DEF TypeOK, LedgerTypeOK, CardsTypeOK, Books
  <1>4. NothingVanishes'
    BY <1>1, <1>2 DEF NothingVanishes, Transfer
  <1>5. Solvent => Solvent'
    <2>1. \A y \in Account : Reported[y] \in Int /\ acct[y].balance \in Int /\ acct'[y].balance \in Int
      BY <1>1, <1>2, BalancesAreInt, AccountAssumption
    <2> QED
      BY <2>1 DEF Solvent, Keeps
  <1> QED
    BY <1>3, <1>4, <1>5 DEF PayInv, Immediate

\* What the button, and a transfer across currencies, do to the books.
LEMMA PressKeeps ==
  ASSUME ExchangeInv, Press
  PROVE  Keeps(acct, acct') /\ accepted' \in Nat
  <1>1. acct \in Books /\ accepted \in Nat
    BY DEF ExchangeInv, PayInv, TypeOK, LedgerTypeOK, Books
  <1>2. page.selected \in Route /\ Len(page.selected.outs) \in 1..2
    BY DEF ExchangeInv, PageInv, Selected, Fits, Press
  <1>3. acct' = Exchanged(acct, page.selected).books /\ accepted' \in {accepted, accepted + 1}
    BY DEF Press
  <1> QED
    BY <1>1, <1>2, <1>3, ExchangedKeeps

\* A transfer across currencies executes a route between them.
LEMMA SubmitAcrossFits ==
  ASSUME ExchangeInv, NEW asked \in Transfer, SubmitAcross(asked)
  PROVE  LET best == Across(Resolved(asked))[1] IN
         (\E from, to : Fits(best, from, to)) /\ acct' = Exchanged(acct, best).books
  <1> DEFINE t == Resolved(asked)
             offers == Across(t)
  <1>1. acct \in Books /\ TypeOK /\ linked \in SUBSET Bank /\ quote \in Quotes
    BY DEF ExchangeInv, PayInv, TypeOK, LedgerTypeOK, Books
  <1>2. Valid(acct, t) /\ t.to # Outside /\ 1 \in DOMAIN offers
        /\ acct' = Exchanged(acct, offers[1]).books
    BY DEF SubmitAcross
  <1>3. t \in Transfer
    BY <1>1, <1>2, ValidFields
  <1>4. CurrencyOf[t.from] \in Currency /\ CurrencyOf[t.to] \in Currency /\ t.amount \in Amount
    BY <1>2, <1>3, ExchangeAssumption DEF Transfer
  <1>5. offers \in Options(CurrencyOf[t.from], CurrencyOf[t.to])
    BY <1>1, <1>4, AdviseFits DEF Across
  <1> HIDE DEF offers
  <1>6. Fits(offers[1], CurrencyOf[t.from], CurrencyOf[t.to])
    BY <1>2, <1>5 DEF Options
  <1> QED
    BY <1>2, <1>6 DEF offers

LEMMA SubmitAcrossKeeps ==
  ASSUME ExchangeInv, NEW asked \in Transfer, SubmitAcross(asked)
  PROVE  Keeps(acct, acct') /\ accepted' \in Nat
  <1>1. acct \in Books /\ accepted \in Nat /\ accepted' = accepted + 1
    BY DEF ExchangeInv, PayInv, TypeOK, LedgerTypeOK, Books, SubmitAcross
  <1>2. PICK from, to, r : Fits(r, from, to) /\ acct' = Exchanged(acct, r).books
    BY SubmitAcrossFits
  <1>3. r \in Route /\ Len(r.outs) \in 1..2
    BY <1>2 DEF Fits
  <1> QED
    BY <1>1, <1>2, <1>3, ExchangedKeeps

LEMMA InvBooks == PayInv => acct \in Books
  BY DEF PayInv, TypeOK, LedgerTypeOK, Books

LEMMA RefreshedFits ==
  ASSUME ExchangeInv, Refreshed, PayInv'
  PROVE  PageInv' /\ linked' = linked /\ quote' = quote
  <1>1. page \in Page /\ Selected(page) /\ linked \in SUBSET Bank /\ quote \in Quotes
    BY DEF ExchangeInv, PageInv
  <1>2. page' = Recomputed(page, Shown(page, acct', linked, quote)) /\ linked' = linked /\ quote' = quote
    BY DEF Refreshed
  <1>3. Shown(page, acct', linked, quote) \in Options(page.from, page.to)
    <2>1. acct' \in Books
      BY DEF PayInv, TypeOK, LedgerTypeOK, Books
    <2> QED
      BY <1>1, <2>1, ShownFits
  <1> QED
    BY <1>1, <1>2, <1>3, RecomputedFits

LEMMA InitExchangeInv == ExchangeInit => ExchangeInv
  <1> SUFFICES ASSUME ExchangeInit PROVE ExchangeInv
    OBVIOUS
  <1>1. PayInv /\ linked \in SUBSET Bank /\ quote \in Quotes
    BY InitInv DEF ExchangeInit
  <1>2. page \in [from : {Ron}, to : {Eur}, amount : Amount, options : {<<>>}, selected : {NoRoute}]
    BY DEF ExchangeInit
  <1>3. page.from \in Currency /\ page.to \in Currency /\ page.amount \in Amount
        /\ page.options = <<>> /\ page.selected = NoRoute
    BY <1>2 DEF Currency, Ron, Eur
  <1>4. <<>> \in Seq(Route) /\ Len(<<>>) <= Most /\ 1..Len(<<>>) = {}
    BY ExchangeAssumption
  <1>5. page.options \in Seq(Route) /\ page.options \in Options(page.from, page.to)
    BY <1>3, <1>4 DEF Options
  <1>6. page \in Page
    BY <1>2, <1>3, <1>5 DEF Page
  <1> QED
    BY <1>1, <1>3, <1>5, <1>6 DEF ExchangeInv, PageInv, Selected

LEMMA StepExchangeInv == ExchangeInv /\ [ExchangeNext]_xvars => ExchangeInv'
  <1> SUFFICES ASSUME ExchangeInv, [ExchangeNext]_xvars PROVE ExchangeInv'
    OBVIOUS
  <1>0. /\ PayInv /\ page \in Page /\ Selected(page) /\ page.options \in Options(page.from, page.to)
        /\ linked \in SUBSET Bank /\ quote \in Quotes /\ acct \in Books
    BY InvBooks DEF ExchangeInv, PageInv
  <1>p. ASSUME UNCHANGED vars PROVE PayInv'
    BY <1>0, <1>p, StepInv
  \* A step of the page alone.
  <1>q. ASSUME UNCHANGED <<vars, linked, quote>>, PageInv' PROVE ExchangeInv'
    BY <1>0, <1>p, <1>q DEF ExchangeInv
  <1>1. ASSUME NEW c \in Currency, PickFrom(c) PROVE ExchangeInv'
    <2> DEFINE p == [page EXCEPT !.from = c, !.to = IF @ = c THEN (c + 1) % 3 ELSE @]
    <2>1. page' = Repaired(p) /\ UNCHANGED <<vars, linked, quote>>
      BY <1>1 DEF PickFrom
    <2>2. p \in Page
      <3>1. c \in Currency /\ (c + 1) % 3 \in Currency
        BY DEF Currency
      <3> QED
        BY <1>0, <3>1 DEF Page
    <2> QED
      BY <1>q, <2>1, <2>2, RepairedFits
  <1>2. ASSUME NEW c \in Currency, PickTo(c) PROVE ExchangeInv'
    <2> DEFINE p == [page EXCEPT !.to = c, !.from = IF @ = c THEN (c + 2) % 3 ELSE @]
    <2>1. page' = Repaired(p) /\ UNCHANGED <<vars, linked, quote>>
      BY <1>2 DEF PickTo
    <2>2. p \in Page
      <3>1. c \in Currency /\ (c + 2) % 3 \in Currency
        BY DEF Currency
      <3> QED
        BY <1>0, <3>1 DEF Page
    <2> QED
      BY <1>q, <2>1, <2>2, RepairedFits
  <1>3. ASSUME NEW n \in Amount, EditAmount(n) PROVE ExchangeInv'
    <2> DEFINE p == [page EXCEPT !.amount = n]
    <2>1. page' = Recomputed(p, Shown(p, acct, linked, quote)) /\ UNCHANGED <<vars, linked, quote>>
      BY <1>3 DEF EditAmount
    <2>2. p \in Page /\ p.from = page.from /\ p.to = page.to /\ p.selected = page.selected
      BY <1>0 DEF Page
    <2> HIDE DEF p
    <2>3. Selected(p)
      BY <1>0, <2>2 DEF Selected
    <2>4. Shown(p, acct, linked, quote) \in Options(p.from, p.to)
      BY <1>0, <2>2, ShownFits
    <2>5. PageInv'
      BY <2>1, <2>2, <2>3, <2>4, RecomputedFits
    <2> QED
      BY <1>q, <2>1, <2>5
  <1>4. ASSUME NEW i \in DOMAIN page.options, PickRoute(i) PROVE ExchangeInv'
    <2>1. page' = [page EXCEPT !.selected = page.options[i]] /\ UNCHANGED <<vars, linked, quote>>
      BY <1>4 DEF PickRoute
    <2>2. Fits(page.options[i], page.from, page.to) /\ page.options[i] \in Route
      BY <1>0 DEF Options
    <2>3. /\ page' \in Page /\ page'.from = page.from /\ page'.to = page.to
          /\ page'.options = page.options /\ page'.selected = page.options[i]
      BY <1>0, <2>1, <2>2 DEF Page
    <2>4. PageInv'
      BY <1>0, <2>2, <2>3 DEF PageInv, Selected
    <2> QED
      BY <1>q, <2>1, <2>4
  <1>5. CASE Press
    <2>1. PayInv' /\ linked' = linked /\ quote' = quote
      BY <1>0, <1>5, PressKeeps, StillPayInv DEF Press
    <2> DEFINE run == Exchanged(acct, page.selected)
               p == IF run.ok THEN [page EXCEPT !.selected = NoRoute] ELSE page
    <2>2. page' = page \/ page' = Recomputed(p, Shown(page, run.books, linked, quote))
      BY <1>5 DEF Press
    <2>3. p \in Page /\ Selected(p) /\ p.from = page.from /\ p.to = page.to
      BY <1>0 DEF Page, Selected
    <2>4. Shown(page, run.books, linked, quote) \in Options(page.from, page.to)
      <3>1. run.books \in Books
        BY <1>5, PressKeeps DEF Press, Keeps
      <3> HIDE DEF run
      <3> QED
        BY <1>0, <3>1, ShownFits
    <2> HIDE DEF p, run
    <2>5. PageInv'
      BY <1>0, <2>2, <2>3, <2>4, RecomputedFits DEF PageInv
    <2> QED
      BY <1>0, <2>1, <2>5 DEF ExchangeInv
  <1>6. CASE TransferInCurrency
    <2>1. Next
      BY <1>6 DEF TransferInCurrency, Next
    <2>2. PayInv'
      BY <1>0, <2>1, StepInv
    <2> QED
      BY <1>0, <1>6, <2>2, RefreshedFits DEF TransferInCurrency, ExchangeInv
  <1>7. CASE TransferLands
    <2>1. Next
      BY <1>7 DEF TransferLands, Next
    <2>2. PayInv'
      BY <1>0, <2>1, StepInv
    <2> QED
      BY <1>0, <1>7, <2>2, RefreshedFits DEF TransferLands, ExchangeInv
  <1>8. ASSUME NEW t \in Transfer, SubmitAcross(t) PROVE ExchangeInv'
    <2>1. UNCHANGED <<first_day, cards, inflight>> /\ Refreshed
      BY <1>8 DEF SubmitAcross
    <2>2. PayInv'
      BY <1>0, <1>8, <2>1, SubmitAcrossKeeps, StillPayInv
    <2> QED
      BY <1>0, <2>1, <2>2, RefreshedFits DEF ExchangeInv
  <1>9. ASSUME NEW b \in Bank, Report(b) PROVE ExchangeInv'
    <2>1. Next
      BY <1>9 DEF Report, Next
    <2>2. PayInv'
      BY <1>0, <2>1, StepInv
    <2> QED
      BY <1>0, <1>9, <2>2, RefreshedFits DEF Report, ExchangeInv
  <1>10. ASSUME NEW b \in Bank, LinkChange(b) PROVE ExchangeInv'
    <2>1. linked' \in SUBSET Bank /\ UNCHANGED <<vars, quote, page>>
      BY <1>0, <1>10 DEF LinkChange
    <2> QED
      BY <1>0, <1>p, <2>1 DEF ExchangeInv, PageInv, Selected
  <1>11. CASE Heartbeat
    <2>1. PICK mids \in Quotes :
            /\ quote' = mids
            /\ page' = Recomputed(page, Shown(page, acct, linked, mids))
      BY <1>11 DEF Heartbeat, Shown, Advise
    <2>2. Shown(page, acct, linked, mids) \in Options(page.from, page.to)
      BY <1>0, ShownFits
    <2>3. PageInv'
      BY <1>0, <2>1, <2>2, RecomputedFits
    <2> QED
      BY <1>0, <1>p, <1>11, <2>1, <2>3 DEF Heartbeat, ExchangeInv
  <1>12. CASE FxShock
    <2>1. quote' \in Quotes /\ UNCHANGED <<vars, linked, page>>
      BY <1>12 DEF FxShock
    <2> QED
      BY <1>0, <1>p, <2>1 DEF ExchangeInv, PageInv, Selected
  <1>13. CASE UNCHANGED xvars
    <2>1. UNCHANGED vars /\ linked' = linked /\ quote' = quote /\ page' = page
      BY <1>13 DEF xvars
    <2> QED
      BY <1>0, <1>p, <2>1 DEF ExchangeInv, PageInv, Selected
  <1> QED
    BY <1>1, <1>2, <1>3, <1>4, <1>5, <1>6, <1>7, <1>8, <1>9, <1>10, <1>11, <1>12, <1>13
       DEF ExchangeNext

\* The inductive invariant holds of the specification.
THEOREM ExchangeInvariance == ExchangeSpec => []ExchangeInv
  BY InitExchangeInv, StepExchangeInv, PTL DEF ExchangeSpec

-----------------------------------------------------------------------------
(* The properties.                                                         *)

\* The accounts and the page are well formed: the options are a list without a gap, and
\* no longer than what the page shows.
THEOREM ExchangeTypeCorrect == ExchangeSpec => []ExchangeTypeOK
  <1>1. ExchangeInv => ExchangeTypeOK
    BY DEF ExchangeInv, PayInv, PageInv, Options, ExchangeTypeOK
  <1> QED
    BY <1>1, ExchangeInvariance, PTL

\* Whatever the user picks and the rates and balances do, the selected route is for
\* the pair the page names.
THEOREM SelectionFits == ExchangeSpec => []RouteFitsPair
  <1>1. ExchangeInv => RouteFitsPair
    BY DEF ExchangeInv, PageInv, Selected, Fits, RouteFitsPair
  <1> QED
    BY <1>1, ExchangeInvariance, PTL

\* With no latency neither transfers nor exchanges overdraw an account.
THEOREM ImmediateStaysSolvent == ~Deferred => (ExchangeSpec => []Solvent)
  <1> SUFFICES ASSUME ~Deferred PROVE ExchangeSpec => []Solvent
    OBVIOUS
  <1>1. ExchangeInv => Solvent
    BY DEF ExchangeInv, PayInv, Immediate
  <1> QED
    BY <1>1, ExchangeInvariance, PTL

\* With or without latency an exchange debits no account of more than it holds.
THEOREM ExchangesAreCovered == ExchangeSpec => ExchangeIsCovered
  <1>1. ASSUME ExchangeInv, Press \/ \E t \in Transfer : SubmitAcross(t), NEW a \in Account,
               acct'[a].balance < acct[a].balance
        PROVE  acct'[a].balance >= 0
    <2>1. Keeps(acct, acct')
      BY <1>1, PressKeeps, SubmitAcrossKeeps
    <2> QED
      BY <1>1, <2>1 DEF Keeps
  <1>2. ExchangeInv /\ [ExchangeNext]_xvars =>
          [(accepted' # accepted /\ (Press \/ \E t \in Transfer : SubmitAcross(t))) =>
             \A a \in Account : acct'[a].balance < acct[a].balance => acct'[a].balance >= 0]_xvars
    BY <1>1
  <1> QED
    BY <1>2, ExchangeInvariance, PTL DEF ExchangeSpec, ExchangeIsCovered

\* Between two ledgers one account has paid and one has received.
Moves(before, after, a, in, x, out) ==
  \A y \in Account : after[y].balance = before[y].balance - (IF y = a THEN in ELSE 0)
                                                          + (IF y = x THEN out ELSE 0)

At(a, b, c) == a \in Account /\ BankOf[a] = b /\ CurrencyOf[a] = c

LEMMA TargetIsPocket ==
  ASSUME NEW books, NEW r, NEW i, NEW from
  PROVE  Target(books, r, i, from) \subseteq Pockets(books, r.bank, r.path[i + 1])
  <1> DEFINE pockets == Pockets(books, r.bank, r.path[i + 1])
             others == pockets \ (IF i = Len(r.outs) THEN from ELSE {})
  <1>1. pockets \in SUBSET Account
    BY PocketsAre
  <1> HIDE DEF pockets
  <1>2. others \in SUBSET Account /\ others \subseteq pockets
    BY <1>1
  <1>3. Target(books, r, i, from) = Richest(books, others)
    BY DEF Target, pockets
  <1> HIDE DEF others
  <1> QED
    BY <1>2, <1>3, RichestIsPocket DEF pockets

\* A turn of the loop in these terms.
LEMMA LegPays ==
  ASSUME NEW books \in Books, NEW r, NEW i, NEW from, Payers(books, from),
         In(r, i) \in Nat, r.outs[i] \in Nat, Leg(books, r, i, from).ok
  PROVE  LET leg == Leg(books, r, i, from) IN
         \E a \in from, x \in leg.to :
            /\ x \in Pockets(books, r.bank, r.path[i + 1])
            /\ Moves(books, leg.books, a, In(r, i), x, r.outs[i])
  <1> DEFINE leg == Leg(books, r, i, from)
  <1>1. /\ leg.to = Target(books, r, i, from)
        /\ \E a \in from, x \in leg.to :
             \A y \in Account :
                /\ leg.books[y].known = books[y].known
                /\ leg.books[y].balance = books[y].balance - (IF y = a THEN In(r, i) ELSE 0)
                                                           + (IF y = x THEN r.outs[i] ELSE 0)
    BY LegMoves
  <1> HIDE DEF leg
  <1>2. PICK a \in from, x \in leg.to :
          \A y \in Account :
             /\ leg.books[y].known = books[y].known
             /\ leg.books[y].balance = books[y].balance - (IF y = a THEN In(r, i) ELSE 0)
                                                        + (IF y = x THEN r.outs[i] ELSE 0)
    BY <1>1
  <1>3. Moves(books, leg.books, a, In(r, i), x, r.outs[i])
    BY <1>2 DEF Moves
  <1>4. x \in Pockets(books, r.bank, r.path[i + 1])
    BY <1>1, <1>2, TargetIsPocket
  <1> QED
    BY <1>3, <1>4 DEF leg

\* The first leg of a route pays from its source into its bank.
LEMMA FirstLeg ==
  ASSUME NEW books \in Books, NEW from, NEW to, NEW r, Fits(r, from, to),
         Leg(books, r, 1, {r.source}).ok
  PROVE  LET one == Leg(books, r, 1, {r.source}) IN
         /\ one.books \in Books
         /\ \E x \in one.to : /\ At(x, r.bank, r.path[2])
                             /\ Moves(books, one.books, r.source, r.amount, x, r.outs[1])
  <1> DEFINE payers == {r.source}
             one == Leg(books, r, 1, payers)
  <1>1. /\ Payers(books, payers) /\ In(r, 1) = r.amount /\ In(r, 1) \in Nat /\ r.outs[1] \in Nat
        /\ one.ok
    BY RouteFields DEF Fits, In, Payers
  <1>2. \A a \in payers : a = r.source
    OBVIOUS
  <1> HIDE DEF payers
  <1>3. one.books \in Books
    BY <1>1, LegMoves
  <1>4. \E a \in payers, x \in one.to :
           /\ x \in Pockets(books, r.bank, r.path[1 + 1])
           /\ Moves(books, one.books, a, In(r, 1), x, r.outs[1])
    BY <1>1, LegPays
  <1> HIDE DEF one
  <1>5. PICK x \in one.to :
           /\ x \in Pockets(books, r.bank, r.path[2])
           /\ Moves(books, one.books, r.source, r.amount, x, r.outs[1])
    BY <1>1, <1>2, <1>4
  <1>6. At(x, r.bank, r.path[2])
    BY <1>5, PocketsAre DEF At
  <1> QED
    BY <1>3, <1>5, <1>6 DEF one, payers

\* The second pays from an account the first did not credit, of the same currency.
LEMMA SecondLeg ==
  ASSUME NEW books \in Books, NEW from, NEW to, NEW r, Fits(r, from, to), Len(r.outs) = 2,
         Leg(books, r, 1, {r.source}).ok
  PROVE  LET one == Leg(books, r, 1, {r.source})
             two == Exchanged(books, r)
         IN /\ ~two.ok => two.books = one.books
            /\ two.ok => \E a \in Account \ one.to, z \in Account :
                           /\ At(a, r.bank, r.path[2]) /\ At(z, r.bank, to)
                           /\ Moves(one.books, two.books, a, r.outs[1], z, r.outs[2])
  <1> DEFINE one == Leg(books, r, 1, {r.source})
             middle == one.books
             pockets == Pockets(middle, r.bank, r.path[2]) \ one.to
             source == Richest(middle, pockets)
             two == Leg(middle, r, 2, source)
  <1>1. Exchanged(books, r) = two
    BY DEF Exchanged
  <1>2. middle \in Books /\ r.path[3] = to
    BY FirstLeg DEF Fits
  <1>3. In(r, 2) = r.outs[1] /\ r.outs[1] \in Nat /\ r.outs[2] \in Nat
    BY RouteFields DEF Fits, In
  <1>4. pockets \in SUBSET Account /\ \A a \in pockets : At(a, r.bank, r.path[2]) /\ a \notin one.to
    BY PocketsAre DEF At
  <1> HIDE DEF pockets, middle, one
  <1>5. source \subseteq pockets /\ Payers(middle, source) /\ In(r, 2) \in Nat
    BY <1>2, <1>3, <1>4, RichestArePayers, RichestIsPocket
  <1> HIDE DEF source
  <1>6. ~two.ok => two.books = middle
    BY <1>2, <1>3, <1>5, LegMoves
  <1>7. ASSUME two.ok
        PROVE  \E a \in source, z \in two.to :
                  /\ z \in Pockets(middle, r.bank, r.path[2 + 1])
                  /\ Moves(middle, two.books, a, In(r, 2), z, r.outs[2])
    BY <1>2, <1>3, <1>5, <1>7, LegPays
  <1> HIDE DEF two
  <1>8. CASE two.ok
    <2>1. PICK a \in source, z \in two.to :
             /\ z \in Pockets(middle, r.bank, to)
             /\ Moves(middle, two.books, a, r.outs[1], z, r.outs[2])
      BY <1>2, <1>3, <1>7, <1>8
    <2>2. At(a, r.bank, r.path[2]) /\ a \notin one.to /\ a \in Account
      BY <1>4, <1>5, <2>1
    <2>3. At(z, r.bank, to) /\ z \in Account
      BY <2>1, PocketsAre DEF At
    <2> QED
      BY <1>1, <1>8, <2>1, <2>2, <2>3 DEF one, middle
  <1>9. CASE ~two.ok
    BY <1>1, <1>6, <1>9 DEF one, middle
  <1> QED
    BY <1>8, <1>9

\* An exchange that runs to its end credits an account of the last currency with
\* what its route promised; the accounts it debits are in other currencies.
LEMMA ExchangedPays ==
  ASSUME NEW books \in Books, NEW from, NEW to, NEW r, Fits(r, from, to), Exchanged(books, r).ok
  PROVE  \E x \in Account : /\ CurrencyOf[x] = to
                            /\ Exchanged(books, r).books[x].balance = books[x].balance + Result(r)
  <1> DEFINE one == Leg(books, r, 1, {r.source})
             two == Exchanged(books, r)
  <1>1. At(r.source, r.bank, from) /\ from # to /\ \A i \in 1..Len(r.outs) : r.outs[i] \in Nat
    BY RouteFields DEF Fits, At
  <1>2. one.ok
    BY DEF Exchanged
  <1>3. Len(r.outs) = 1 => two = one
    BY DEF Exchanged
  <1>4. one.books \in Books /\ \E x \in one.to : /\ At(x, r.bank, r.path[2])
                                               /\ Moves(books, one.books, r.source, r.amount, x, r.outs[1])
    BY <1>2, FirstLeg
  <1>5. Len(r.outs) = 2 =>
          \E a \in Account \ one.to, z \in Account :
             /\ At(a, r.bank, r.path[2]) /\ At(z, r.bank, to)
             /\ Moves(one.books, two.books, a, r.outs[1], z, r.outs[2])
    BY <1>2, SecondLeg
  <1> HIDE DEF one, two
  <1>6. PICK x \in one.to : /\ At(x, r.bank, r.path[2])
                            /\ Moves(books, one.books, r.source, r.amount, x, r.outs[1])
    BY <1>4
  <1>7. CASE Len(r.outs) = 1
    <2>1. two = one /\ Result(r) = r.outs[1] /\ r.outs[1] \in Nat
          /\ CurrencyOf[x] = to /\ x # r.source /\ x \in Account
      BY <1>1, <1>3, <1>6, <1>7 DEF Fits, Result, At
    <2>2. one.books[x].balance = books[x].balance + r.outs[1]
      BY <1>6, <2>1, BalancesAreInt DEF Moves
    <2> QED
      BY <2>1, <2>2 DEF two
  <1>8. CASE Len(r.outs) = 2
    <2>1. PICK a \in Account \ one.to, z \in Account :
             /\ At(a, r.bank, r.path[2]) /\ At(z, r.bank, to)
             /\ Moves(one.books, two.books, a, r.outs[1], z, r.outs[2])
      BY <1>5, <1>8
    <2>2. z \notin {a, x, r.source} /\ CurrencyOf[z] = to /\ Result(r) = r.outs[2] /\ r.outs[2] \in Nat
      BY <1>1, <1>6, <1>8, <2>1 DEF Fits, At, Result
    <2>3. one.books[z].balance = books[z].balance
      BY <1>6, <2>2, BalancesAreInt DEF Moves
    <2>4. two.books[z].balance = one.books[z].balance + r.outs[2]
      BY <1>4, <2>1, <2>2, BalancesAreInt DEF Moves
    <2> QED
      BY <2>2, <2>3, <2>4 DEF two
  <1> QED
    BY <1>7, <1>8 DEF Fits

\* A completed exchange has paid the figure its route was shown with, in the currency
\* of the page, however old the route is and whatever is selected next.
THEOREM PaidAsShown == ExchangeSpec => PaysWhatWasShown
  <1>1. ASSUME ExchangeInv, Press, Exchanged(acct, page.selected).ok
        PROVE  \E a \in Account : /\ CurrencyOf[a] = page.to
                                  /\ acct'[a].balance = acct[a].balance + Result(page.selected)
    <2>1. acct \in Books /\ Fits(page.selected, page.from, page.to)
      BY <1>1 DEF ExchangeInv, PageInv, Selected, Press, PayInv, TypeOK, LedgerTypeOK, Books
    <2>2. acct' = Exchanged(acct, page.selected).books
      BY <1>1 DEF Press
    <2> QED
      BY <1>1, <2>1, <2>2, ExchangedPays
  <1>2. ExchangeInv /\ [ExchangeNext]_xvars =>
          [(acct' # acct /\ Press /\ Exchanged(acct, page.selected).ok) =>
             \E a \in Account : /\ CurrencyOf[a] = page.to
                                /\ acct'[a].balance = acct[a].balance + Result(page.selected)]_xvars
    BY <1>1
  <1> QED
    BY <1>2, ExchangeInvariance, PTL DEF ExchangeSpec, PaysWhatWasShown

-----------------------------------------------------------------------------
(* Both halves.                                                            *)

Down(before, after) == { y \in Account : after[y].balance < before[y].balance }

Up(before, after) == { y \in Account : after[y].balance > before[y].balance }

\* As many accounts of the bank go down as go up, and no other bank's move.
Halves(b, before, after) ==
  /\ Cardinality(Down(before, after)) = Cardinality(Up(before, after))
  /\ \A y \in Down(before, after) \cup Up(before, after) : BankOf[y] = b

LEMMA TwoOf ==
  ASSUME NEW x, NEW y, x # y
  PROVE  Cardinality({x}) = 1 /\ Cardinality({x, y}) = 2
  <1>1. Cardinality({x}) = 1 /\ IsFiniteSet({x})
    BY FS_Singleton
  <1>2. Cardinality({x} \cup {y}) = Cardinality({x}) + 1
    <2>1. y \notin {x}
      OBVIOUS
    <2> QED
      BY <1>1, <2>1, FS_AddElement
  <1>3. {x} \cup {y} = {x, y}
    OBVIOUS
  <1> QED
    BY <1>1, <1>2, <1>3

\* Whether an exchange runs to its end, stops after a leg or does not begin.
LEMMA ExchangedHalves ==
  ASSUME NEW books \in Books, NEW from, NEW to, NEW r, Fits(r, from, to)
  PROVE  Halves(r.bank, books, Exchanged(books, r).books)
  <1> DEFINE one == Leg(books, r, 1, {r.source})
             two == Exchanged(books, r)
  <1>1. /\ At(r.source, r.bank, from) /\ from # to /\ r.amount \in Nat \ {0}
        /\ Len(r.outs) = 1 \/ (Len(r.outs) = 2 /\ r.path[2] \notin {from, to})
        /\ Len(r.outs) = 1 => r.path[2] = to
    <2>1. r.source \in Account /\ r.amount \in Nat
      BY RouteFields DEF Fits
    <2>2. Len(r.outs) = 1 => r.path[2] = to
      BY DEF Fits
    <2>3. r.amount \in Nat \ {0} /\ from # to
      BY <2>1 DEF Fits
    <2>4. At(r.source, r.bank, from)
      BY <2>1 DEF Fits, At
    <2>5. Len(r.outs) = 1 \/ (Len(r.outs) = 2 /\ r.path[2] \notin {from, to})
      BY DEF Fits
    <2> QED
      BY <2>2, <2>3, <2>4, <2>5
  <1>2. \A i \in 1..Len(r.outs) : r.outs[i] \in Nat \ {0}
    <2>1. r.outs \in Seq(Nat \ {0})
      BY DEF Fits, Route
    <2>2. \A outs \in Seq(Nat \ {0}) : \A i \in 1..Len(outs) : outs[i] \in Nat \ {0}
      OBVIOUS
    <2> QED
      BY <2>1, <2>2
  <1>3. \A y \in Account : books[y].balance \in Int
    BY BalancesAreInt
  <1>4. /\ ~one.ok => two = one
        /\ Len(r.outs) = 1 => two = one
    BY DEF Exchanged
  <1>5. ~one.ok => one.books = books
    BY <1>1, <1>2, RouteFields, LegMoves DEF Leg, Refused
  <1>6. one.ok => /\ one.books \in Books
                  /\ \E x \in one.to : /\ At(x, r.bank, r.path[2])
                                      /\ Moves(books, one.books, r.source, r.amount, x, r.outs[1])
    BY FirstLeg
  <1>7. one.ok /\ Len(r.outs) = 2 =>
          /\ ~two.ok => two.books = one.books
          /\ two.ok => \E a \in Account \ one.to, z \in Account :
                         /\ At(a, r.bank, r.path[2]) /\ At(z, r.bank, to)
                         /\ Moves(one.books, two.books, a, r.outs[1], z, r.outs[2])
    BY SecondLeg
  <1> HIDE DEF one, two
  <1>8. CASE two.books = books
    <2>1. Down(books, two.books) = {} /\ Up(books, two.books) = {}
      BY <1>3, <1>8 DEF Down, Up
    <2> QED
      BY <2>1 DEF Halves, two
  <1>9. ASSUME one.ok PROVE Halves(r.bank, books, two.books)
    <2>1. PICK x \in one.to : /\ At(x, r.bank, r.path[2])
                              /\ Moves(books, one.books, r.source, r.amount, x, r.outs[1])
      BY <1>6, <1>9
    <2>2. x # r.source /\ x \in Account /\ r.source \in Account /\ r.outs[1] \in Nat \ {0}
          /\ BankOf[x] = r.bank /\ BankOf[r.source] = r.bank
      BY <1>1, <1>2, <2>1 DEF At
    <2>3. CASE two.books = one.books
      <3>1. Down(books, two.books) = {r.source}
        BY <1>1, <1>3, <2>1, <2>2, <2>3 DEF Down, Moves
      <3>2. Up(books, two.books) = {x}
        BY <1>1, <1>3, <2>1, <2>2, <2>3 DEF Up, Moves
      <3> QED
        BY <2>2, <3>1, <3>2, FS_Singleton DEF Halves
    <2>4. CASE Len(r.outs) = 2 /\ two.ok
      <3>1. PICK a \in Account \ one.to, z \in Account :
              /\ At(a, r.bank, r.path[2]) /\ At(z, r.bank, to)
              /\ Moves(one.books, two.books, a, r.outs[1], z, r.outs[2])
        BY <1>7, <1>9, <2>4
      <3>2. a \notin {x, z, r.source} /\ z \notin {x, r.source} /\ r.outs[2] \in Nat \ {0}
            /\ BankOf[a] = r.bank /\ BankOf[z] = r.bank
        BY <1>1, <1>2, <2>1, <2>4, <3>1 DEF At
      <3>3. \A y \in Account :
              two.books[y].balance = books[y].balance - (IF y = r.source THEN r.amount ELSE 0)
                                                      + (IF y = x THEN r.outs[1] ELSE 0)
                                                      - (IF y = a THEN r.outs[1] ELSE 0)
                                                      + (IF y = z THEN r.outs[2] ELSE 0)
        <4> TAKE y \in Account
        <4>1. one.books[y].balance = books[y].balance - (IF y = r.source THEN r.amount ELSE 0)
                                                      + (IF y = x THEN r.outs[1] ELSE 0)
          BY <2>1 DEF Moves
        <4>2. two.books[y].balance = one.books[y].balance - (IF y = a THEN r.outs[1] ELSE 0)
                                                          + (IF y = z THEN r.outs[2] ELSE 0)
          BY <3>1 DEF Moves
        <4> QED
          BY <1>1, <1>3, <2>2, <3>2, <4>1, <4>2
      <3>4. Down(books, two.books) = {r.source, a}
        BY <1>1, <1>3, <2>2, <3>2, <3>3 DEF Down
      <3>5. Up(books, two.books) = {x, z}
        BY <1>1, <1>3, <2>2, <3>2, <3>3 DEF Up
      <3>6. Cardinality({r.source, a}) = 2 /\ Cardinality({x, z}) = 2
        BY <3>2, TwoOf
      <3> QED
        BY <2>2, <3>2, <3>4, <3>5, <3>6 DEF Halves
    <2> QED
      BY <1>1, <1>4, <1>7, <1>9, <2>3, <2>4
  <1> QED
    BY <1>4, <1>5, <1>8, <1>9 DEF two

\* An exchange never loses a half and never leaves the bank of its route, whatever
\* the route, however many legs of it run and whoever asked for it.
THEOREM ExchangesAreWhole == ExchangeSpec => ExchangeIsWhole
  <1>1. ASSUME NEW b, Halves(b, acct, acct') PROVE WholeAt(b)
    BY <1>1 DEF Halves, Down, Up, WholeAt
  <1>2. ASSUME ExchangeInv, Press PROVE WholeAt(page.selected.bank)
    <2>1. acct \in Books /\ Fits(page.selected, page.from, page.to)
      BY <1>2 DEF ExchangeInv, PageInv, Selected, Press, PayInv, TypeOK, LedgerTypeOK, Books
    <2>2. acct' = Exchanged(acct, page.selected).books
      BY <1>2 DEF Press
    <2> QED
      BY <1>1, <2>1, <2>2, ExchangedHalves
  <1>3. ASSUME ExchangeInv, NEW t \in Transfer, SubmitAcross(t)
        PROVE  WholeAt(Across(Resolved(t))[1].bank)
    <2>1. acct \in Books
      BY <1>3 DEF ExchangeInv, PayInv, TypeOK, LedgerTypeOK, Books
    <2>2. /\ \E from, to : Fits(Across(Resolved(t))[1], from, to)
          /\ acct' = Exchanged(acct, Across(Resolved(t))[1]).books
      BY <1>3, SubmitAcrossFits
    <2> QED
      BY <1>1, <2>1, <2>2, ExchangedHalves
  <1>4. ExchangeInv /\ [ExchangeNext]_xvars =>
          [accepted' # accepted =>
             /\ Press => WholeAt(page.selected.bank)
             /\ \A t \in Transfer : SubmitAcross(t) => WholeAt(Across(Resolved(t))[1].bank)]_xvars
    BY <1>2, <1>3
  <1> QED
    BY <1>4, ExchangeInvariance, PTL DEF ExchangeSpec, ExchangeIsWhole

=============================================================================
