------------------------------ MODULE Exchange ------------------------------
(***************************************************************************)
(* Currency exchange: the desks and rankings of exchange_advisor_service,   *)
(* execute_exchange of payment_service, and the page that offers routes and *)
(* executes the one selected, beside transfers, syncs and the rates.        *)
(*                                                                         *)
(* A route is one or two legs at one bank.  It carries the amounts it was   *)
(* advised with; what happens between the advice and the execution is the   *)
(* subject here.  Doubles are exact fractions, rounded where the code       *)
(* rounds.  The walk and the shocks of the rates are a choice from Quotes.  *)
(***************************************************************************)
EXTENDS PaymentService

Currency == 0..2   \* in the order of Theme.currencies
Ron == 0
Eur == 1

Pair == Currency \X Currency

\* fx_desk_pair_rule: spread and percentage in parts of Whole, the rest in minor
\* units; a maximum of 0 is none.
Rule == [spread : Nat, percent : Nat, fixed : Nat, min : Nat, max : Nat]

CONSTANTS
  CurrencyOf,    \* [Account -> Currency]
  Place,         \* the order in which accounts_ keeps a bank's accounts
  Index,         \* bank_id
  Desk,          \* Desk[b]: the rules of the bank's desk, by pair
  Whole,         \* 10'000 basis points
  Scale,         \* the rates are in parts of Scale
  Quotes,        \* the tables of mid rates, each in [Pair -> Nat]
  Most           \* max_returned_options

ASSUME ExchangeAssumption ==
  /\ CurrencyOf \in [Account -> Currency]
  /\ Place \in [Account -> Nat]
  /\ Index \in [Bank -> Nat]
  /\ \A b \in Bank : DOMAIN Desk[b] \subseteq Pair /\ \A p \in DOMAIN Desk[b] : Desk[b][p] \in Rule
  /\ Whole \in Nat \ {0}
  /\ Scale \in Nat \ {0}
  /\ Quotes \subseteq [Pair -> Nat]
  /\ Most \in Nat

\* accounts_ is a list and bank_id an enumeration: nothing shares its place.
ASSUME PlaceAssumption ==
  /\ IsFiniteSet(Account) /\ IsFiniteSet(Bank)
  /\ \A a, x \in Account :
       BankOf[a] = BankOf[x] /\ CurrencyOf[a] = CurrencyOf[x] /\ Place[a] = Place[x] => a = x
  /\ \A b, c \in Bank : Index[b] = Index[c] => b = c

VARIABLES
  linked,     \* the banks whose link is Connected
  quote,      \* mid_ of fx_service
  page        \* the exchange page: its pair, amount, options and selectedRoute

xvars == <<vars, linked, quote, page>>

\* The legs of a route go through the currencies of its path; outs are their payouts.
Route == [bank : Bank, source : Account, amount : Amount,
          path : Seq(Currency), outs : Seq(Nat \ {0})]

NoRoute == <<>>    \* null

Page == [from : Currency, to : Currency, amount : Amount,
         options : Seq(Route), selected : Route \cup {NoRoute}]

\* The page opens with a pair and an amount, which the user may edit at once.
ExchangeInit ==
  /\ Init
  /\ linked = {}
  /\ quote \in Quotes
  /\ page \in [from : {Ron}, to : {Eur}, amount : Amount, options : {<<>>}, selected : {NoRoute}]

-----------------------------------------------------------------------------
(* Desks.                                                                  *)

\* Half away from zero, for n >= 0.
Rounded(n, d) == (n + (d \div 2)) \div d

Converted(n, mids, from, to) == IF from = to THEN n ELSE Rounded(n * mids[<<from, to>>], Scale)

Gross(rule, mid, in) == Rounded(in * mid * (Whole - rule.spread), Scale * Whole)

Fee(rule, gross) == rule.fixed + Rounded(gross * rule.percent, Whole)

\* leg_payout: a ticket the desk does not take pays less than nothing.
Payout(rule, mid, in) ==
  IF in < rule.min \/ (rule.max > 0 /\ in > rule.max) THEN -1
  ELSE Gross(rule, mid, in) - Fee(rule, Gross(rule, mid, in))

\* The accounts of a bank in one currency, and the first of the richest of them;
\* none when all of them are overdrawn.
Pockets(books, b, c) == { a \in Account : books[a].known /\ BankOf[a] = b /\ CurrencyOf[a] = c }

Richest(books, pockets) ==
  { a \in pockets : /\ books[a].balance >= 0
                    /\ \A x \in pockets : \/ books[a].balance > books[x].balance
                                          \/ books[a].balance = books[x].balance /\ Place[a] <= Place[x] }

-----------------------------------------------------------------------------
(* advise.                                                                 *)

\* A pair directly, or through RON or EUR, as far as the desk has rules for it.
Paths(b, from, to) ==
  { p \in {<<from, to>>} \cup { <<from, mid, to>> : mid \in {Ron, Eur} \ {from, to} } :
      \A i \in 1..(Len(p) - 1) : <<p[i], p[i + 1]>> \in DOMAIN Desk[b] }

LegPayout(b, mids, p, i, in) ==
  Payout(Desk[b][<<p[i], p[i + 1]>>], mids[<<p[i], p[i + 1]>>], in)

RouteOver(b, mids, source, amount, p) ==
  LET first == LegPayout(b, mids, p, 1, amount) IN
  [bank |-> b, source |-> source, amount |-> amount, path |-> p,
   outs |-> IF Len(p) = 2 THEN <<first>> ELSE <<first, LegPayout(b, mids, p, 2, first)>>]

\* The routes of some banks from their richest account in the one currency to some
\* account in the other; where the money is, and where it pays.
Routes(books, banks, mids, from, to, amount) ==
  UNION { { RouteOver(b, mids, a, amount, p) :
              p \in Paths(b, from, to), a \in Richest(books, Pockets(books, b, from)) } :
          b \in { bank \in banks : Pockets(books, bank, to) # {} } }

Funded(books, r) == books[r.source].balance >= r.amount

Pays(r) == \A i \in DOMAIN r.outs : r.outs[i] > 0

\* Mutants of Candidates: a bank counts whatever the state of its link; a route
\* counts whatever it pays.
CandidatesUnlinked(books, banks, mids, from, to, amount) ==
  { r \in Routes(books, Bank, mids, from, to, amount) : Funded(books, r) /\ Pays(r) }

CandidatesWorthless(books, banks, mids, from, to, amount) ==
  { r \in Routes(books, banks, mids, from, to, amount) : Funded(books, r) }

Candidates(books, banks, mids, from, to, amount) ==
  { r \in Routes(books, banks, mids, from, to, amount) : Funded(books, r) /\ Pays(r) }

Result(r) == r.outs[Len(r.outs)]

In(r, i) == IF i = 1 THEN r.amount ELSE r.outs[i - 1]

\* fee_in_dst.
FeeInDst(r, mids) ==
  LET Charged(i) ==
        LET rule == Desk[r.bank][<<r.path[i], r.path[i + 1]>>]
            mid == mids[<<r.path[i], r.path[i + 1]>>]
        IN Converted(Fee(rule, Gross(rule, mid, In(r, i))), mids, r.path[i + 1], r.path[Len(r.path)])
  IN IF Len(r.outs) = 1 THEN Charged(1) ELSE Charged(1) + Charged(2)

\* The ranking: the result, the fees, the legs, the order of the banks.
Better(r, s, mids) ==
  \/ Result(r) > Result(s)
  \/ /\ Result(r) = Result(s)
     /\ \/ FeeInDst(r, mids) < FeeInDst(s, mids)
        \/ /\ FeeInDst(r, mids) = FeeInDst(s, mids)
           /\ \/ Len(r.outs) < Len(s.outs)
              \/ Len(r.outs) = Len(s.outs) /\ Index[r.bank] < Index[s.bank]

\* advise: the routes considered, and the first Most of them in the order of the
\* ranking, the i-th being the one that i - 1 others are better than.
Offered(books, banks, mids, from, to, amount) ==
  IF from = to \/ amount <= 0 THEN {} ELSE Candidates(books, banks, mids, from, to, amount)

Ranking(routes, mids) ==
  LET Ranked(i) == { r \in routes : Cardinality({ s \in routes \ {r} : Better(s, r, mids) }) = i - 1 }
  IN [i \in { n \in 1..Most : Ranked(n) # {} } |-> CHOOSE r \in Ranked(i) : TRUE]

Advise(books, banks, mids, from, to, amount) ==
  Ranking(Offered(books, banks, mids, from, to, amount), mids)

-----------------------------------------------------------------------------
(* execute_exchange.                                                       *)

\* Mutant of Target: the richest account of any bank.
TargetAnywhere(books, r, i, from) ==
  Richest(books, UNION { Pockets(books, b, r.path[i + 1]) : b \in Bank }
                   \ (IF i = Len(r.outs) THEN from ELSE {}))

\* Where leg i lands, coming from an account in `from`.
Target(books, r, i, from) ==
  Richest(books, Pockets(books, r.bank, r.path[i + 1]) \ (IF i = Len(r.outs) THEN from ELSE {}))

\* Both rows of a leg.
Moved(books, r, i, from, to, out) ==
  Credited(Debited(books, CHOOSE a \in from : TRUE, In(r, i)), CHOOSE a \in to : TRUE, out)

Covered(books, r, i, from) ==
  \E a \in from : books[a].known /\ books[a].balance >= In(r, i)

Refused(books) == [ok |-> FALSE, to |-> {}, books |-> books]

\* Mutants of Leg: the funds are not looked at again; the payout is what the desk
\* pays by now.
LegUnfunded(books, r, i, from) ==
  LET to == Target(books, r, i, from) IN
  IF from # {} /\ to # {}
  THEN [ok |-> TRUE, to |-> to, books |-> Moved(books, r, i, from, to, r.outs[i])]
  ELSE Refused(books)

LegRepriced(books, r, i, from) ==
  LET to == Target(books, r, i, from)
      out == LegPayout(r.bank, quote, r.path, i, In(r, i))
  IN IF Covered(books, r, i, from) /\ to # {}
     THEN [ok |-> TRUE, to |-> to, books |-> Moved(books, r, i, from, to, out)]
     ELSE Refused(books)

\* One turn of the loop, from the account in `from`, if there is one.
Leg(books, r, i, from) ==
  LET to == Target(books, r, i, from) IN
  IF Covered(books, r, i, from) /\ to # {}
  THEN [ok |-> TRUE, to |-> to, books |-> Moved(books, r, i, from, to, r.outs[i])]
  ELSE Refused(books)

\* A second leg is paid from the richest account but the one just credited; when
\* it fails, the first stays booked.
Exchanged(books, r) ==
  LET one == Leg(books, r, 1, {r.source}) IN
  IF Len(r.outs) = 1 \/ ~one.ok THEN one
  ELSE Leg(one.books, r, 2, Richest(one.books, Pockets(one.books, r.bank, r.path[2]) \ one.to))

-----------------------------------------------------------------------------
(* The page.                                                               *)

Shown(p, books, banks, mids) == Advise(books, banks, mids, p.from, p.to, p.amount)

\* The options binding is evaluated, and onOptionsChanged selects the recommended
\* route when none is selected.
Recomputed(p, offers) ==
  [p EXCEPT !.options = offers,
            !.selected = IF @ = NoRoute /\ 1 \in DOMAIN offers THEN offers[1] ELSE @]

\* Mutant of Repaired: the pair changes under the selection.
RepairedKeeps(p) == Recomputed(p, Shown(p, acct, linked, quote))

\* A currency picker clears the selection after the options have changed.
Repaired(p) == [p EXCEPT !.options = Shown(p, acct, linked, quote), !.selected = NoRoute]

PickFrom(c) ==
  /\ page' = Repaired([page EXCEPT !.from = c,
                                   !.to = IF @ = c THEN (c + 1) % 3 ELSE @])
  /\ UNCHANGED <<vars, linked, quote>>

PickTo(c) ==
  /\ page' = Repaired([page EXCEPT !.to = c,
                                   !.from = IF @ = c THEN (c + 2) % 3 ELSE @])
  /\ UNCHANGED <<vars, linked, quote>>

\* The amount field leaves the selection as it is.
EditAmount(n) ==
  /\ \E p \in {[page EXCEPT !.amount = n]} : page' = Recomputed(p, Shown(p, acct, linked, quote))
  /\ UNCHANGED <<vars, linked, quote>>

PickRoute(i) ==
  /\ page' = [page EXCEPT !.selected = page.options[i]]
  /\ UNCHANGED <<vars, linked, quote>>

\* The button executes the selected route; a completed exchange clears it.
Press ==
  /\ page.selected # NoRoute
  /\ accepted < MaxAccepted
  /\ \E run \in {Exchanged(acct, page.selected)} :
       /\ acct' = run.books
       /\ accepted' = IF run.books = acct THEN accepted ELSE accepted + 1
       /\ page' = IF ~run.ok /\ run.books = acct THEN page
                  ELSE Recomputed(IF run.ok THEN [page EXCEPT !.selected = NoRoute] ELSE page,
                                  Shown(page, run.books, linked, quote))
  /\ UNCHANGED <<first_day, cards, inflight, linked, quote>>

-----------------------------------------------------------------------------
(* What goes on around the page.                                           *)

\* The currency rules of validate.
SameCurrency(t) ==
  IF t.to = Outside THEN CurrencyOf[t.from] = Ron ELSE CurrencyOf[t.from] = CurrencyOf[t.to]

\* The page follows accounts_changed.
Refreshed ==
  /\ \E books \in {acct'} : page' = Recomputed(page, Shown(page, books, linked, quote))
  /\ UNCHANGED <<linked, quote>>

TransferInCurrency ==
  /\ \E t \in Transfer : SameCurrency(Resolved(t)) /\ Submit(t)
  /\ Refreshed

TransferLands == (\E t \in Transfer : FinishExecution(t)) /\ Refreshed

\* What best_route chooses from: the routes between the currencies of a transfer.
Across(t) == Advise(acct, linked, quote, CurrencyOf[t.from], CurrencyOf[t.to], t.amount)

\* submit, when only the currencies stand in the way: the best route between them
\* is executed in place of the transfer.
SubmitAcross(asked) ==
  LET t == Resolved(asked)
      offers == Across(t)
  IN /\ Valid(acct, t)
     /\ t.to # Outside
     /\ ~SameCurrency(t)
     /\ 1 \in DOMAIN offers
     /\ accepted < MaxAccepted
     /\ acct' = Exchanged(acct, offers[1]).books
     /\ accepted' = accepted + 1
     /\ UNCHANGED <<first_day, cards, inflight>>
     /\ Refreshed

Report(b) == b \in linked /\ BankReport(b) /\ Refreshed

\* The page hears of a link's state with the next heartbeat.
LinkChange(b) ==
  /\ linked' = IF b \in linked THEN linked \ {b} ELSE linked \cup {b}
  /\ UNCHANGED <<vars, quote, page>>

\* The rates walk and net_worth_changed makes the page compare again.
Heartbeat ==
  /\ UNCHANGED <<vars, linked>>
  /\ \E mids \in Quotes : \E routes \in {Offered(acct, linked, mids, page.from, page.to, page.amount)} :
       /\ quote' = mids
       /\ page' = Recomputed(page, Ranking(routes, mids))

FxShock == quote' \in Quotes /\ UNCHANGED <<vars, linked, page>>

ExchangeNext ==
  \/ \E c \in Currency : PickFrom(c) \/ PickTo(c)
  \/ \E n \in Amount : EditAmount(n)
  \/ \E i \in DOMAIN page.options : PickRoute(i)
  \/ Press
  \/ TransferInCurrency
  \/ TransferLands
  \/ \E t \in Transfer : SubmitAcross(t)
  \/ \E b \in Bank : Report(b) \/ LinkChange(b)
  \/ Heartbeat
  \/ FxShock

ExchangeSpec == ExchangeInit /\ [][ExchangeNext]_xvars

\* The heartbeat is a running timer.
ExchangeFairSpec == ExchangeSpec /\ WF_xvars(Heartbeat)

-----------------------------------------------------------------------------
(* Properties.                                                             *)

\* The accounts and the page are well formed; no more options than the page shows.
ExchangeTypeOK ==
  /\ TypeOK
  /\ linked \subseteq Bank
  /\ quote \in Quotes
  /\ page \in Page /\ Len(page.options) <= Most

\* The selected route is for the pair the page names, however the pickers, the
\* options and the rates have changed since it was selected.
RouteFitsPair ==
  page.selected # NoRoute =>
    /\ page.selected.path[1] = page.from
    /\ page.selected.path[Len(page.selected.path)] = page.to

\* An exchange debits no account of more than it holds, however long ago its route
\* was advised and whatever transfers have landed since.
ExchangeIsCovered ==
  [][(accepted' # accepted /\ (Press \/ \E t \in Transfer : SubmitAcross(t))) =>
       \A a \in Account : acct'[a].balance < acct[a].balance => acct'[a].balance >= 0]_xvars

\* In this step as many accounts are credited as are debited, all of them at bank b.
WholeAt(b) ==
  LET down == { a \in Account : acct'[a].balance < acct[a].balance }
      up == { a \in Account : acct'[a].balance > acct[a].balance }
  IN Cardinality(down) = Cardinality(up) /\ \A a \in down \cup up : BankOf[a] = b

\* An exchange never loses a half and never leaves its bank: at the bank of the
\* executed route as many accounts are credited as are debited, and no account of
\* another bank moves, whether the route was pressed or submit fell back to it.
ExchangeIsWhole ==
  [][accepted' # accepted =>
       /\ Press => WholeAt(page.selected.bank)
       /\ \A t \in Transfer : SubmitAcross(t) => WholeAt(Across(Resolved(t))[1].bank)]_xvars

\* A completed exchange has paid the figure its route was shown with, in the currency
\* the page names, however the rates and balances have moved since it was selected.
PaysWhatWasShown ==
  [][(acct' # acct /\ Press /\ Exchanged(acct, page.selected).ok) =>
       \E a \in Account : /\ CurrencyOf[a] = page.to
                          /\ acct'[a].balance = acct[a].balance + Result(page.selected)]_xvars

\* "later legs Debit the intermediary account credited in the previous step": an
\* exchange that has moved money arrives in the currency its route ends in.
ExchangeArrives ==
  [][(Press /\ acct' # acct) =>
       \E a \in Account : /\ CurrencyOf[a] = page.selected.path[Len(page.selected.path)]
                          /\ acct'[a].balance = acct[a].balance + Result(page.selected)]_xvars

\* What the button says it exchanges is what leaves the account.
ExchangesWhatItNames ==
  [][(Press /\ acct' # acct) => page.selected.amount = page.amount]_xvars

-----------------------------------------------------------------------------
(* Liveness, of ExchangeFairSpec.                                          *)

\* "disconnected venues never rank": they leave the page, though not at once.
DisconnectedVenueLeaves ==
  \A b \in Bank :
    (b \notin linked /\ \E i \in DOMAIN page.options : page.options[i].bank = b)
      ~> (b \in linked \/ \A i \in DOMAIN page.options : page.options[i].bank # b)

=============================================================================
