--------------------------- MODULE AccountService ---------------------------
(***************************************************************************)
(* account_service: the accounts of all linked banks and their rows.        *)
(*                                                                         *)
(* What a bank reports never changes while the program runs (the connectors *)
(* answer from one seeded world), so a report is a constant.  Balances are  *)
(* what is available: the balance less the pending hold.  Rows are kept as  *)
(* the two sums the program takes over them.  Sums are in minor units of    *)
(* the account's own currency.                                             *)
(***************************************************************************)
EXTENDS Integers

CONSTANTS
  Account,        \* the accounts of the seeded world
  Bank,
  BankOf,         \* [Account -> Bank]
  Reported,       \* the available balance the bank reports, [Account -> Int]
  Early,          \* today's debits in the bank's own rows, [Account -> Nat]
  SalaryAccount   \* the KMX current account

ASSUME AccountAssumption ==
  /\ BankOf \in [Account -> Bank]
  /\ Reported \in [Account -> Int]
  /\ Early \in [Account -> Nat]
  /\ SalaryAccount \in Account

VARIABLES
  acct,       \* accounts_ and the sums over transactions_
  first_day   \* the day the program was started on has not ended

\* known: the bank has been synced once, so the account is in accounts_.
\* local: net of the rows posted by the program.  spent: today's debit rows.
AccountRec == [known : BOOLEAN, balance : Int, local : Int, spent : Nat]

LedgerTypeOK == acct \in [Account -> AccountRec] /\ first_day \in BOOLEAN

\* No account is known; until then its balance is whatever its bank says.
LedgerInit ==
  /\ acct = [a \in Account |->
               [known |-> FALSE, balance |-> Reported[a], local |-> 0, spent |-> 0]]
  /\ first_day = TRUE

-----------------------------------------------------------------------------
(* post_local_transaction: the balance and the row move together.          *)

\* Mutant of Debited: today's debits are summed with their sign.
DebitedSigned(books, a, n) ==
  [books EXCEPT ![a] = [books[a] EXCEPT !.balance = books[a].balance - n,
                                        !.local = books[a].local - n,
                                        !.spent = books[a].spent - n]]

Debited(books, a, n) ==
  [books EXCEPT ![a] = [books[a] EXCEPT !.balance = books[a].balance - n,
                                        !.local = books[a].local - n,
                                        !.spent = books[a].spent + n]]

Credited(books, a, n) ==
  [books EXCEPT ![a] = [books[a] EXCEPT !.balance = books[a].balance + n,
                                        !.local = books[a].local + n]]

\* upsert_accounts and merge_transactions: a known account takes the reported
\* balance, a new one is appended and its rows, deduplicated by key, come once.
Upserted(books, b) ==
  [a \in Account |->
     IF BankOf[a] # b THEN books[a]
     ELSE IF books[a].known THEN [books[a] EXCEPT !.balance = Reported[a]]
     ELSE [known |-> TRUE, balance |-> Reported[a], local |-> 0,
           spent |-> IF first_day THEN Early[a] ELSE 0]]

-----------------------------------------------------------------------------
(* Actions.                                                                *)

\* perform_sync, whenever connection_service runs it for b.
Sync(b) == acct' = Upserted(acct, b) /\ UNCHANGED first_day

\* simulate_incoming_salary, once the KMX account is linked.
ReceiveSalary(n) ==
  /\ n > 0
  /\ acct[SalaryAccount].known
  /\ acct' = Credited(acct, SalaryAccount, n)
  /\ UNCHANGED first_day

\* Midnight: no row is of today any more.
Midnight ==
  /\ acct' = [a \in Account |-> [acct[a] EXCEPT !.spent = 0]]
  /\ first_day' = FALSE

=============================================================================
