----------------------- MODULE PaymentService_proofs -----------------------
(***************************************************************************)
(* Proofs about PaymentService, for any accounts, cards, amounts and limits *)
(* and any number of transfers.                                            *)
(*                                                                         *)
(* PayInv is inductive.  Its last conjunct is what distinguishes a zero     *)
(* latency: nothing is ever in flight, so every booking was validated in    *)
(* the same step.                                                          *)
(***************************************************************************)
EXTENDS PaymentService, NumberLemmas, SequenceTheorems

Immediate == Solvent /\ \A t \in Transfer : inflight[t] = 0

PayInv == TypeOK /\ NothingVanishes /\ (~Deferred => Immediate)

Books == [Account -> AccountRec]

-----------------------------------------------------------------------------
(* The ledger's operators.                                                 *)

LEMMA DebitedFields ==
  ASSUME NEW books \in Books, NEW a \in Account, NEW n \in Nat
  PROVE  LET d == Debited(books, a, n) IN
         /\ d \in Books
         /\ \A x \in Account :
              /\ d[x].known = books[x].known
              /\ d[x].balance = books[x].balance - (IF x = a THEN n ELSE 0)
              /\ d[x].spent = books[x].spent + (IF x = a THEN n ELSE 0)
  <1> DEFINE r == [books[a] EXCEPT !.balance = books[a].balance - n,
                                   !.local = books[a].local - n,
                                   !.spent = books[a].spent + n]
  <1>1. \A x \in Account : books[x] \in AccountRec
    BY DEF Books
  <1>2. /\ r \in AccountRec
        /\ r.known = books[a].known
        /\ r.balance = books[a].balance - n /\ r.spent = books[a].spent + n
    <2>1. books[a].balance - n \in Int /\ books[a].local - n \in Int /\ books[a].spent + n \in Nat
      BY <1>1 DEF AccountRec
    <2> QED
      BY <1>1, <2>1 DEF AccountRec
  <1>3. Debited(books, a, n) = [books EXCEPT ![a] = r]
    BY DEF Debited
  <1> HIDE DEF r
  <1>4. Debited(books, a, n) \in Books
    BY <1>2, <1>3 DEF Books
  <1>5. \A x \in Account : Debited(books, a, n)[x] = IF x = a THEN r ELSE books[x]
    BY <1>3 DEF Books
  <1>6. \A x \in Account : books[x].balance \in Int /\ books[x].spent \in Nat
    BY <1>1 DEF AccountRec
  <1> QED
    BY <1>2, <1>4, <1>5, <1>6

LEMMA CreditedFields ==
  ASSUME NEW books \in Books, NEW a \in Account, NEW n \in Nat
  PROVE  LET d == Credited(books, a, n) IN
         /\ d \in Books
         /\ \A x \in Account :
              /\ d[x].known = books[x].known
              /\ d[x].balance = books[x].balance + (IF x = a THEN n ELSE 0)
              /\ d[x].spent = books[x].spent
  <1> DEFINE r == [books[a] EXCEPT !.balance = books[a].balance + n,
                                   !.local = books[a].local + n]
  <1>1. \A x \in Account : books[x] \in AccountRec
    BY DEF Books
  <1>2. /\ r \in AccountRec
        /\ r.known = books[a].known
        /\ r.balance = books[a].balance + n /\ r.spent = books[a].spent
    <2>1. books[a].balance + n \in Int /\ books[a].local + n \in Int
      BY <1>1 DEF AccountRec
    <2> QED
      BY <1>1, <2>1 DEF AccountRec
  <1>3. Credited(books, a, n) = [books EXCEPT ![a] = r]
    BY DEF Credited
  <1> HIDE DEF r
  <1>4. Credited(books, a, n) \in Books
    BY <1>2, <1>3 DEF Books
  <1>5. \A x \in Account : Credited(books, a, n)[x] = IF x = a THEN r ELSE books[x]
    BY <1>3 DEF Books
  <1>6. \A x \in Account : books[x].balance \in Int
    BY <1>1 DEF AccountRec
  <1> QED
    BY <1>2, <1>4, <1>5, <1>6

\* Booking a transfer between known accounts moves both legs.
LEMMA BookedFields ==
  ASSUME NEW books \in Books, NEW t \in Transfer, t.from # t.to,
         books[t.from].known, t.to # Outside => books[t.to].known
  PROVE  LET d == Booked(books, t) IN
         /\ d \in Books
         /\ \A x \in Account :
              /\ d[x].known = books[x].known
              /\ d[x].balance = books[x].balance - (IF x = t.from THEN t.amount ELSE 0)
                                                 + (IF x = t.to THEN t.amount ELSE 0)
              /\ d[x].spent = books[x].spent + (IF x = t.from THEN t.amount ELSE 0)
  <1> DEFINE paid == Debited(books, t.from, t.amount)
  <1>1. t.from \in Account /\ t.amount \in Nat /\ t.to \in Account \cup {Outside}
    BY PaymentAssumption DEF Transfer
  <1>2. /\ paid \in Books
        /\ \A x \in Account :
             /\ paid[x].known = books[x].known
             /\ paid[x].balance = books[x].balance - (IF x = t.from THEN t.amount ELSE 0)
             /\ paid[x].spent = books[x].spent + (IF x = t.from THEN t.amount ELSE 0)
    BY <1>1, DebitedFields
  <1>3. Booked(books, t) = IF t.to = Outside THEN paid ELSE Credited(paid, t.to, t.amount)
    BY DEF Booked
  <1> HIDE DEF paid
  <1>4. \A x \in Account : paid[x].balance \in Int
    BY <1>2 DEF Books, AccountRec
  <1>5. CASE t.to = Outside
    <2>1. \A x \in Account : x # t.to
      BY <1>5, PaymentAssumption
    <2> QED
      BY <1>2, <1>3, <1>4, <1>5, <2>1
  <1>6. CASE t.to # Outside
    <2>1. t.to \in Account /\ Booked(books, t) = Credited(paid, t.to, t.amount)
      BY <1>1, <1>3, <1>6
    <2>2. LET d == Credited(paid, t.to, t.amount) IN
          /\ d \in Books
          /\ \A x \in Account :
               /\ d[x].known = paid[x].known
               /\ d[x].balance = paid[x].balance + (IF x = t.to THEN t.amount ELSE 0)
               /\ d[x].spent = paid[x].spent
      <3>1. paid \in Books /\ t.to \in Account /\ t.amount \in Nat
        BY <1>1, <1>2, <2>1
      <3> QED
        BY <3>1, CreditedFields
    <2>3. \A x \in Account : books[x].balance \in Int /\ books[x].spent \in Nat
      BY DEF Books, AccountRec
    <2> HIDE DEF Booked
    <2> QED
      BY <1>1, <1>2, <2>1, <2>2, <2>3
  <1> QED
    BY <1>5, <1>6

\* A report fixes the balances of one bank, and forgets no account.
LEMMA UpsertedFields ==
  ASSUME NEW books \in Books, NEW b
  PROVE  LET d == Upserted(books, b) IN
         /\ d \in Books
         /\ \A x \in Account :
              /\ books[x].known => d[x].known /\ d[x].spent = books[x].spent
              /\ BankOf[x] = b => d[x].balance = Reported[x]
              /\ BankOf[x] # b => d[x] = books[x]
  <1>1. ASSUME NEW x \in Account
        PROVE  /\ Upserted(books, b)[x] \in AccountRec
               /\ books[x].known => Upserted(books, b)[x].known
                                    /\ Upserted(books, b)[x].spent = books[x].spent
               /\ BankOf[x] = b => Upserted(books, b)[x].balance = Reported[x]
               /\ BankOf[x] # b => Upserted(books, b)[x] = books[x]
    <2>1. books[x] \in AccountRec /\ Reported[x] \in Int /\ Early[x] \in Nat
      BY AccountAssumption DEF Books
    <2>2. CASE BankOf[x] # b
      <3>1. Upserted(books, b)[x] = books[x]
        BY <2>2 DEF Upserted
      <3> QED
        BY <2>1, <2>2, <3>1
    <2>3. CASE BankOf[x] = b /\ books[x].known
      <3>1. Upserted(books, b)[x] = [books[x] EXCEPT !.balance = Reported[x]]
        BY <2>3 DEF Upserted
      <3> QED
        BY <2>1, <2>3, <3>1 DEF AccountRec
    <2>4. CASE BankOf[x] = b /\ ~books[x].known
      <3> DEFINE early == IF first_day THEN Early[x] ELSE 0
      <3>1. Upserted(books, b)[x] = [known |-> TRUE, balance |-> Reported[x], local |-> 0,
                                     spent |-> early]
        BY <2>4 DEF Upserted
      <3>2. early \in Nat
        BY <2>1
      <3> HIDE DEF early
      <3> QED
        BY <2>1, <2>4, <3>1, <3>2 DEF AccountRec
    <2> QED
      BY <2>2, <2>3, <2>4
  <1>2. Upserted(books, b) \in Books
    BY <1>1 DEF Upserted, Books
  <1> QED
    BY <1>1, <1>2

\* A validated transfer is one between different known accounts, or to outside.
LEMMA ValidFields ==
  ASSUME TypeOK, NEW asked \in Transfer, Valid(acct, Resolved(asked))
  PROVE  LET t == Resolved(asked) IN
         /\ t \in Transfer /\ t.from # t.to /\ t.from \in Account
         /\ acct[t.from].known /\ (t.to # Outside => acct[t.to].known)
         /\ t.amount \in 1..MaxTransfer
         /\ acct[t.from].balance >= t.amount
         /\ ~AccountFrozen(t.from) /\ WithinDailyLimit(acct, t)
  <1> DEFINE t == Resolved(asked)
  <1>1. t \in Transfer /\ (t.to # Outside => acct[t.to].known)
    BY DEF Resolved, Transfer
  <1> HIDE DEF t
  <1>2. Valid(acct, t)
    BY DEF t
  <1>3. t.amount \in 1..MaxTransfer /\ t.from \in Account
    <2>1. t.from \in Account /\ t.amount \in Nat
      BY <1>1, PaymentAssumption DEF Transfer
    <2>2. t.amount >= MinTransfer /\ t.amount <= MaxTransfer
      BY <1>2 DEF Valid
    <2> QED
      BY <2>1, <2>2, PaymentAssumption
  <1>4. /\ t \in Transfer /\ t.from # t.to /\ t.from \in Account
        /\ acct[t.from].known /\ (t.to # Outside => acct[t.to].known)
        /\ t.amount \in 1..MaxTransfer
        /\ acct[t.from].balance >= t.amount
        /\ ~AccountFrozen(t.from) /\ WithinDailyLimit(acct, t)
    BY <1>1, <1>2, <1>3 DEF Valid
  <1> QED
    BY <1>4 DEF t

-----------------------------------------------------------------------------
(* The inductive invariant.                                                *)

LEMMA InitInv == Init => PayInv
  <1> SUFFICES ASSUME Init PROVE PayInv
    OBVIOUS
  <1>1. acct \in Books /\ first_day \in BOOLEAN
        /\ \A a \in Account : acct[a].balance = Reported[a] /\ Reported[a] \in Int
    BY AccountAssumption DEF Init, LedgerInit, Books, AccountRec
  <1>2. cards \in Seq(CardRec)
    BY CardAssumption DEF Init, CardsInit
  <1>3. inflight \in [Transfer -> Nat] /\ \A t \in Transfer : inflight[t] = 0
    BY DEF Init
  <1> QED
    BY <1>1, <1>2, <1>3
       DEF Init, PayInv, TypeOK, LedgerTypeOK, CardsTypeOK, NothingVanishes, Immediate, Solvent, Books

\* The switches of the cards keep them well formed.
LEMMA CardsStayCards ==
  ASSUME TypeOK, CardChange
  PROVE  cards' \in Seq(CardRec)
  <1>0. cards \in Seq(CardRec)
    BY DEF TypeOK, CardsTypeOK
  <1>1. ASSUME NEW i \in DOMAIN cards, NEW frozen \in BOOLEAN, SetFrozen(i, frozen)
        PROVE  cards' \in Seq(CardRec)
    <2>1. cards' = [cards EXCEPT ![i] = [cards[i] EXCEPT !.frozen = frozen]]
      BY <1>1 DEF SetFrozen
    <2>2. cards[i] \in CardRec
      BY <1>0
    <2>3. [cards[i] EXCEPT !.frozen = frozen] \in CardRec
      BY <2>2 DEF CardRec
    <2> QED
      BY <1>0, <2>1, <2>3
  <1>2. ASSUME NEW i \in DOMAIN cards, NEW n \in Limit, SetDailyLimit(i, n)
        PROVE  cards' \in Seq(CardRec)
    <2>1. cards' = [cards EXCEPT ![i] = [cards[i] EXCEPT !.limit = n]]
      BY <1>2 DEF SetDailyLimit
    <2>2. cards[i] \in CardRec /\ n \in Nat
      BY <1>0, CardAssumption
    <2>3. [cards[i] EXCEPT !.limit = n] \in CardRec
      BY <2>2 DEF CardRec
    <2> QED
      BY <1>0, <2>1, <2>3
  <1>3. ASSUME NEW a \in Account, NEW n \in Limit, CreateVirtual(a, n)
        PROVE  cards' \in Seq(CardRec)
    <2>1. [account |-> a, frozen |-> FALSE, limit |-> n] \in CardRec
      BY CardAssumption DEF CardRec
    <2> QED
      BY <1>0, <1>3, <2>1 DEF CreateVirtual
  <1> QED
    BY <1>1, <1>2, <1>3 DEF CardChange

LEMMA StepInv == PayInv /\ [Next]_vars => PayInv'
  <1> SUFFICES ASSUME PayInv, [Next]_vars PROVE PayInv'
    OBVIOUS
  <1>0. /\ acct \in Books /\ first_day \in BOOLEAN /\ cards \in Seq(CardRec)
        /\ inflight \in [Transfer -> Nat] /\ accepted \in Nat
        /\ TypeOK /\ NothingVanishes
        /\ \A a \in Account : acct[a] \in AccountRec
    BY DEF PayInv, TypeOK, LedgerTypeOK, CardsTypeOK, Books
  <1>z. \A a \in Account : Reported[a] \in Int /\ acct[a].balance \in Int
    BY <1>0, AccountAssumption DEF AccountRec
  \* A step that leaves the timers and only adds to what is known and solvent.
  <1>q. ASSUME acct' \in Books, first_day' \in BOOLEAN, cards' \in Seq(CardRec), accepted' \in Nat,
               inflight' = inflight,
               \A a \in Account : acct[a].known => acct'[a].known,
               ~Deferred => Solvent'
        PROVE  PayInv'
    BY <1>0, <1>q DEF PayInv, TypeOK, LedgerTypeOK, CardsTypeOK, NothingVanishes, Immediate, Books, Transfer
  <1>1. ASSUME NEW asked \in Transfer, Submit(asked) PROVE PayInv'
    <2> DEFINE t == Resolved(asked)
    <2>1. /\ t \in Transfer /\ t.from # t.to /\ t.from \in Account
          /\ acct[t.from].known /\ (t.to # Outside => acct[t.to].known)
          /\ t.amount \in 1..MaxTransfer /\ acct[t.from].balance >= t.amount
      BY <1>0, <1>1, ValidFields DEF Submit
    <2>2. /\ accepted' = accepted + 1 /\ first_day' = first_day /\ cards' = cards
          /\ IF Deferred
             THEN inflight' = [inflight EXCEPT ![t] = inflight[t] + 1] /\ UNCHANGED acct
             ELSE acct' = Booked(acct, t) /\ UNCHANGED inflight
      BY <1>1 DEF Submit
    <2> HIDE DEF t
    <2>3. CASE Deferred
      <3>1. inflight' \in [Transfer -> Nat] /\ acct' = acct
        BY <1>0, <2>1, <2>2, <2>3
      <3>2. NothingVanishes'
        BY <1>0, <2>1, <2>2, <2>3 DEF NothingVanishes
      <3> QED
        BY <1>0, <2>2, <2>3, <3>1, <3>2
           DEF PayInv, TypeOK, LedgerTypeOK, CardsTypeOK, Books
    <2>4. CASE ~Deferred
      <3>1. acct' = Booked(acct, t) /\ inflight' = inflight
        BY <2>2, <2>4
      <3>2. /\ acct' \in Books
            /\ \A x \in Account :
                 /\ acct'[x].known = acct[x].known
                 /\ acct'[x].balance = acct[x].balance - (IF x = t.from THEN t.amount ELSE 0)
                                                       + (IF x = t.to THEN t.amount ELSE 0)
        BY <1>0, <2>1, <3>1, BookedFields
      <3>3. Solvent
        BY <2>4 DEF PayInv, Immediate
      <3>4. Solvent'
        BY <1>z, <2>1, <3>2, <3>3, PaymentAssumption DEF Solvent
      <3> QED
        BY <1>0, <1>q, <2>2, <3>1, <3>2, <3>4
    <2> QED
      BY <2>3, <2>4
  <1>2. ASSUME NEW t \in Transfer, FinishExecution(t) PROVE PayInv'
    <2>1. /\ inflight[t] > 0 /\ acct' = Booked(acct, t)
          /\ inflight' = [inflight EXCEPT ![t] = inflight[t] - 1]
          /\ first_day' = first_day /\ cards' = cards /\ accepted' = accepted
      BY <1>2 DEF FinishExecution
    <2>2. Deferred
      BY <2>1 DEF PayInv, Immediate
    <2>3. acct[t.from].known /\ t.from # t.to /\ (t.to # Outside => acct[t.to].known)
      BY <1>0, <2>1 DEF NothingVanishes
    <2>4. acct' \in Books /\ \A x \in Account : acct'[x].known = acct[x].known
      BY <1>0, <2>1, <2>3, BookedFields
    <2>5. inflight[t] - 1 \in Nat
      BY <1>0, <2>1
    <2>6. inflight' \in [Transfer -> Nat] /\ \A u \in Transfer : inflight'[u] > 0 => inflight[u] > 0
      BY <1>0, <2>1, <2>5
    <2>7. NothingVanishes'
      BY <1>0, <2>4, <2>6 DEF NothingVanishes, Transfer
    <2> QED
      BY <1>0, <2>1, <2>2, <2>4, <2>6, <2>7 DEF PayInv, TypeOK, LedgerTypeOK, CardsTypeOK, Books
  <1>3. ASSUME NEW n \in Amount, Salary(n) PROVE PayInv'
    <2>1. /\ acct' = Credited(acct, SalaryAccount, n) /\ n \in Nat /\ SalaryAccount \in Account
          /\ accepted' = accepted + 1
          /\ first_day' = first_day /\ cards' = cards /\ inflight' = inflight
      BY <1>3, PaymentAssumption, AccountAssumption DEF Salary, ReceiveSalary
    <2>2. /\ acct' \in Books
          /\ \A x \in Account :
               /\ acct'[x].known = acct[x].known
               /\ acct'[x].balance = acct[x].balance + (IF x = SalaryAccount THEN n ELSE 0)
      <3>1. LET d == Credited(acct, SalaryAccount, n) IN
            /\ d \in Books
            /\ \A x \in Account :
                 /\ d[x].known = acct[x].known
                 /\ d[x].balance = acct[x].balance + (IF x = SalaryAccount THEN n ELSE 0)
        <4>1. acct \in Books /\ n \in Nat /\ SalaryAccount \in Account
          BY <1>0, <2>1
        <4> QED
          BY <4>1, CreditedFields
      <3> QED
        BY <2>1, <3>1
    <2>3. Solvent => Solvent'
      BY <1>z, <2>1, <2>2 DEF Solvent
    <2> QED
      BY <1>0, <1>q, <2>1, <2>2, <2>3 DEF PayInv, Immediate
  <1>4. ASSUME NEW b \in Bank, BankReport(b) PROVE PayInv'
    <2>1. acct' = Upserted(acct, b) /\ first_day' = first_day /\ cards' = cards
          /\ inflight' = inflight /\ accepted' = accepted
      BY <1>4 DEF BankReport, Sync
    <2>2. /\ acct' \in Books
          /\ \A x \in Account : /\ acct[x].known => acct'[x].known
                                /\ BankOf[x] = b => acct'[x].balance = Reported[x]
                                /\ BankOf[x] # b => acct'[x] = acct[x]
      BY <1>0, <2>1, UpsertedFields
    <2>3. Solvent => Solvent'
      BY <1>z, <2>2 DEF Solvent
    <2> QED
      BY <1>0, <1>q, <2>1, <2>2, <2>3 DEF PayInv, Immediate
  <1>5. CASE CardChange
    <2>1. acct' = acct /\ first_day' = first_day /\ inflight' = inflight /\ accepted' = accepted
      BY <1>5 DEF CardChange
    <2>2. cards' \in Seq(CardRec)
      BY <1>0, <1>5, CardsStayCards
    <2>3. Solvent => Solvent'
      BY <2>1 DEF Solvent
    <2> QED
      BY <1>0, <1>q, <2>1, <2>2, <2>3 DEF PayInv, Immediate
  <1>6. CASE DayEnds
    <2>1. /\ acct' = [a \in Account |-> [acct[a] EXCEPT !.spent = 0]] /\ first_day' = FALSE
          /\ cards' = cards /\ inflight' = inflight /\ accepted' = accepted
      BY <1>6 DEF DayEnds, Midnight
    <2>2. \A a \in Account : /\ [acct[a] EXCEPT !.spent = 0] \in AccountRec
                             /\ [acct[a] EXCEPT !.spent = 0].known = acct[a].known
                             /\ [acct[a] EXCEPT !.spent = 0].balance = acct[a].balance
      BY <1>0 DEF AccountRec
    <2>3. acct' \in Books /\ \A a \in Account : acct'[a].known = acct[a].known
                                              /\ acct'[a].balance = acct[a].balance
      BY <2>1, <2>2 DEF Books
    <2>4. Solvent => Solvent'
      BY <2>3 DEF Solvent
    <2> QED
      BY <1>0, <1>q, <2>1, <2>3, <2>4 DEF PayInv, Immediate
  <1>7. CASE UNCHANGED vars
    BY <1>0, <1>q, <1>7 DEF vars, PayInv, Immediate, Solvent
  <1> QED
    BY <1>1, <1>2, <1>3, <1>4, <1>5, <1>6, <1>7 DEF Next

\* The inductive invariant holds of the specification.
THEOREM PayInvariance == Spec => []PayInv
  BY InitInv, StepInv, PTL DEF Spec

-----------------------------------------------------------------------------
(* The invariants.                                                         *)

\* Type correctness.
THEOREM TypeCorrect == Spec => []TypeOK
  <1>1. PayInv => TypeOK
    BY DEF PayInv
  <1> QED
    BY <1>1, PayInvariance, PTL

\* finish_execution always finds both accounts it was validated for.
THEOREM AccountsStay == Spec => []NothingVanishes
  <1>1. PayInv => NothingVanishes
    BY DEF PayInv
  <1> QED
    BY <1>1, PayInvariance, PTL

\* With no latency no transfer overdraws an account.
THEOREM ImmediateIsSolvent == ~Deferred => (Spec => []Solvent)
  <1> SUFFICES ASSUME ~Deferred PROVE Spec => []Solvent
    OBVIOUS
  <1>1. PayInv => Solvent
    BY DEF PayInv, Immediate
  <1> QED
    BY <1>1, PayInvariance, PTL

-----------------------------------------------------------------------------
(* The action properties, with no latency.                                 *)

\* A step that adds to today's debits of an account is the submission of a
\* transfer that was validated in that step.
LEMMA SpendingIsValidated ==
  ASSUME ~Deferred, PayInv, Next, NEW a \in Account, Spends(a)
  PROVE  /\ ~AccountFrozen(a)
         /\ DailyLimit(a) > 0 => acct'[a].spent <= DailyLimit(a)
         /\ accepted' = accepted + 1
  <1>0. acct \in Books /\ TypeOK /\ acct[a].spent \in Nat
    BY DEF PayInv, TypeOK, LedgerTypeOK, Books, AccountRec
  <1>1. ASSUME NEW asked \in Transfer, Submit(asked)
        PROVE  /\ ~AccountFrozen(a)
               /\ DailyLimit(a) > 0 => acct'[a].spent <= DailyLimit(a)
               /\ accepted' = accepted + 1
    <2> DEFINE t == Resolved(asked)
    <2>1. /\ t \in Transfer /\ t.from # t.to /\ t.from \in Account
          /\ acct[t.from].known /\ (t.to # Outside => acct[t.to].known)
          /\ ~AccountFrozen(t.from) /\ WithinDailyLimit(acct, t)
      BY <1>0, <1>1, ValidFields DEF Submit
    <2>2. acct' = Booked(acct, t) /\ accepted' = accepted + 1
      BY <1>1 DEF Submit
    <2> HIDE DEF t
    <2>3. acct'[a].spent = acct[a].spent + (IF a = t.from THEN t.amount ELSE 0)
      BY <1>0, <2>1, <2>2, BookedFields
    <2>4. a = t.from
      BY <1>0, <2>3 DEF Spends
    <2> QED
      BY <2>1, <2>2, <2>3, <2>4 DEF WithinDailyLimit
  <1>2. \A t \in Transfer : ~FinishExecution(t)
    BY DEF PayInv, Immediate, FinishExecution
  <1>3. ASSUME NEW n \in Amount, Salary(n) PROVE FALSE
    <2>1. acct' = Credited(acct, SalaryAccount, n) /\ n \in Nat /\ SalaryAccount \in Account
      BY <1>3, PaymentAssumption, AccountAssumption DEF Salary, ReceiveSalary
    <2>2. acct'[a].spent = acct[a].spent
      BY <1>0, <2>1, CreditedFields
    <2> QED
      BY <1>0, <2>2 DEF Spends
  <1>4. ASSUME NEW b \in Bank, BankReport(b) PROVE FALSE
    <2>1. acct' = Upserted(acct, b)
      BY <1>4 DEF BankReport, Sync
    <2>2. acct'[a].spent = acct[a].spent
      BY <1>0, <2>1, UpsertedFields DEF Spends
    <2> QED
      BY <1>0, <2>2 DEF Spends
  <1>5. CASE CardChange
    BY <1>0, <1>5 DEF CardChange, Spends
  <1>6. CASE DayEnds
    <2>1. acct'[a] = [acct[a] EXCEPT !.spent = 0] /\ acct[a] \in AccountRec
      BY <1>0, <1>6 DEF DayEnds, Midnight, Books
    <2>2. acct'[a].spent = 0
      BY <2>1 DEF AccountRec
    <2> QED
      BY <1>0, <2>2 DEF Spends
  <1> QED
    BY <1>1, <1>2, <1>3, <1>4, <1>5, <1>6 DEF Next

\* With no latency a frozen card blocks its account.
THEOREM ImmediateRespectsFreeze == ~Deferred => (Spec => FrozenBlocks)
  <1> SUFFICES ASSUME ~Deferred PROVE Spec => FrozenBlocks
    OBVIOUS
  <1>1. PayInv /\ [Next]_vars => [\A a \in Account : Spends(a) => ~AccountFrozen(a)]_vars
    BY SpendingIsValidated
  <1> QED
    BY <1>1, PayInvariance, PTL DEF Spec, FrozenBlocks

\* With no latency the daily limit caps what leaves an account in a day.
THEOREM ImmediateRespectsLimit == ~Deferred => (Spec => LimitCapsOutflow)
  <1> SUFFICES ASSUME ~Deferred PROVE Spec => LimitCapsOutflow
    OBVIOUS
  <1>1. PayInv /\ [Next]_vars =>
          [\A a \in Account : (Spends(a) /\ DailyLimit(a) > 0) => acct'[a].spent <= DailyLimit(a)]_vars
    BY SpendingIsValidated
  <1> QED
    BY <1>1, PayInvariance, PTL DEF Spec, LimitCapsOutflow

-----------------------------------------------------------------------------
(* The daily limit of an account with several cards.                       *)

\* The minimum of numbers is one of them, and none is less.
LEMMA MinOf ==
  ASSUME NEW T, T \subseteq Nat, T # {}
  PROVE  Min(T) \in T /\ \A k \in T : Min(T) <= k
  <1>1. \E m \in T : \A k \in T : m <= k
    BY LeastNumber
  <1> QED
    BY <1>1 DEF Min

\* Of more caps the strictest is no looser.
LEMMA MoreCapsAreStricter ==
  ASSUME NEW S, NEW T, S \subseteq T, T \subseteq Nat \ {0}, S # {}
  PROVE  Min(S) \in Nat /\ Min(T) \in 1..Min(S)
  <1>1. S \subseteq Nat /\ T \subseteq Nat /\ T # {}
    OBVIOUS
  <1>2. Min(S) \in S /\ Min(T) \in T /\ \A k \in T : Min(T) <= k
    BY <1>1, MinOf
  <1>3. Min(S) \in Nat /\ Min(T) \in Nat \ {0} /\ Min(T) <= Min(S)
    BY <1>2
  <1> QED
    BY <1>3

\* A card more leaves each account the caps it has.
LEMMA CapsGrow ==
  ASSUME cards \in Seq(CardRec), cards' \in Seq(CardRec), Len(cards') > Len(cards),
         CardChange, NEW a \in Account
  PROVE  Caps(a) \subseteq Caps(a)' /\ Caps(a)' \subseteq Nat \ {0}
  <1>1. PICK card \in CardRec : cards' = Append(cards, card)
    <2>1. ASSUME NEW i \in DOMAIN cards, NEW frozen \in BOOLEAN, SetFrozen(i, frozen)
          PROVE  FALSE
      BY <2>1 DEF SetFrozen
    <2>2. ASSUME NEW i \in DOMAIN cards, NEW n \in Limit, SetDailyLimit(i, n) PROVE FALSE
      BY <2>2 DEF SetDailyLimit
    <2>3. ASSUME NEW x \in Account, NEW n \in Limit, CreateVirtual(x, n)
          PROVE  \E new \in CardRec : cards' = Append(cards, new)
      <3>1. [account |-> x, frozen |-> FALSE, limit |-> n] \in CardRec
        BY CardAssumption DEF CardRec
      <3> QED
        BY <2>3, <3>1 DEF CreateVirtual
    <2> QED
      BY <2>1, <2>2, <2>3 DEF CardChange
  <1>2. /\ DOMAIN cards = 1..Len(cards) /\ DOMAIN cards' = 1..Len(cards') /\ Len(cards) \in Nat
        /\ Len(cards') = Len(cards) + 1
        /\ \A i \in DOMAIN cards : cards'[i] = cards[i]
        /\ \A i \in DOMAIN cards' : cards'[i] \in CardRec
    BY <1>1, AppendProperties
  <1>3. \A i \in DOMAIN cards : i \in DOMAIN cards'
    BY <1>2
  <1>4. \A c \in CardRec : c.limit \in Nat
    BY DEF CardRec
  <1> QED
    BY <1>2, <1>3, <1>4 DEF Caps

\* A new virtual card never loosens the daily limit of its account, nor of another,
\* whatever cards there are and whatever limit it comes with.
THEOREM NewCardsTighten == Spec => NewCardNeverLoosens
  <1> DEFINE Tightens == Len(cards') > Len(cards) =>
               \A a \in Account : DailyLimit(a) > 0 => DailyLimit(a)' \in 1..DailyLimit(a)
  <1>1. PayInv /\ [Next]_vars => [Tightens]_cards
    <2> SUFFICES ASSUME PayInv, [Next]_vars, cards' # cards, Len(cards') > Len(cards),
                        NEW a \in Account, DailyLimit(a) > 0
                 PROVE  DailyLimit(a)' \in 1..DailyLimit(a)
      OBVIOUS
    <2>1. CardChange
      BY DEF Next, vars, Submit, FinishExecution, Salary, BankReport, DayEnds
    <2>2. cards \in Seq(CardRec) /\ cards' \in Seq(CardRec)
      BY <2>1, CardsStayCards DEF PayInv, TypeOK, CardsTypeOK
    <2>3. Caps(a) \subseteq Caps(a)' /\ Caps(a)' \subseteq Nat \ {0}
      BY <2>1, <2>2, CapsGrow
    <2>4. Caps(a) # {} /\ DailyLimit(a) = Min(Caps(a))
      BY DEF DailyLimit
    <2>5. Caps(a)' # {} /\ DailyLimit(a)' = Min(Caps(a)')
      BY <2>3, <2>4 DEF DailyLimit
    <2> HIDE DEF Caps
    <2> QED
      BY <2>3, <2>4, <2>5, MoreCapsAreStricter
  <1> QED
    BY <1>1, PayInvariance, PTL DEF Spec, NewCardNeverLoosens

-----------------------------------------------------------------------------
(* The refinement.                                                         *)

LEMMA InitMoves == Init => Movement!Init
  <1> SUFFICES ASSUME Init PROVE Movement!Init
    OBVIOUS
  <1>1. \A a \in Account : acct[a].balance = Reported[a]
    BY DEF Init, LedgerInit
  <1>2. [a \in Account |-> acct[a].balance] = Reported
    BY <1>1, AccountAssumption
  <1> QED
    BY <1>2 DEF Init, Movement!Init, Movement!Transfer, Transfer

LEMMA StepMoves == PayInv /\ [Next]_vars => [Movement!Next]_(Movement!money)
  <1> SUFFICES ASSUME PayInv, [Next]_vars PROVE Movement!Next \/ UNCHANGED Movement!money
    OBVIOUS
  <1> DEFINE bal == [a \in Account |-> acct[a].balance]
  <1>0. acct \in Books /\ TypeOK /\ NothingVanishes /\ \A a \in Account : bal[a] \in Int
    BY DEF PayInv, TypeOK, LedgerTypeOK, Books, AccountRec
  <1>1. ASSUME NEW asked \in Transfer, Submit(asked) PROVE Movement!Next
    <2>1. PICK t \in Transfer :
            /\ t = Resolved(asked)
            /\ t.from # t.to /\ t.from \in Account
            /\ acct[t.from].known /\ (t.to # Outside => acct[t.to].known)
            /\ t.amount \in 1..MaxTransfer /\ acct[t.from].balance >= t.amount
      BY <1>0, <1>1, ValidFields DEF Submit
    <2>2. IF Deferred
          THEN inflight' = [inflight EXCEPT ![t] = inflight[t] + 1] /\ UNCHANGED acct
          ELSE acct' = Booked(acct, t) /\ UNCHANGED inflight
      BY <1>1, <2>1 DEF Submit
    <2>3. Movement!Covered(t) /\ t \in Movement!Transfer
      BY <2>1 DEF Movement!Covered, Movement!Transfer, Transfer
    <2>4. CASE Deferred
      <3>1. Movement!Accept(t)
        BY <2>2, <2>3, <2>4 DEF Movement!Accept
      <3> QED
        BY <2>3, <3>1 DEF Movement!Next
    <2>5. CASE ~Deferred
      <3>1. \A x \in Account : acct'[x].balance = bal[x] - (IF x = t.from THEN t.amount ELSE 0)
                                                        + (IF x = t.to THEN t.amount ELSE 0)
        BY <1>0, <2>1, <2>2, <2>5, BookedFields
      <3>2. Movement!SettleAtOnce(t)
        BY <2>2, <2>3, <2>5, <3>1 DEF Movement!SettleAtOnce, Movement!Moved
      <3> QED
        BY <2>3, <3>2 DEF Movement!Next
    <2> QED
      BY <2>4, <2>5
  <1>2. ASSUME NEW t \in Transfer, FinishExecution(t) PROVE Movement!Next
    <2>1. /\ inflight[t] > 0 /\ acct' = Booked(acct, t)
          /\ inflight' = [inflight EXCEPT ![t] = inflight[t] - 1]
      BY <1>2 DEF FinishExecution
    <2>2. acct[t.from].known /\ t.from # t.to /\ (t.to # Outside => acct[t.to].known)
      BY <1>0, <2>1 DEF NothingVanishes
    <2>3. \A x \in Account : acct'[x].balance = bal[x] - (IF x = t.from THEN t.amount ELSE 0)
                                                      + (IF x = t.to THEN t.amount ELSE 0)
      BY <1>0, <2>1, <2>2, BookedFields
    <2>4. Movement!Settle(t) /\ t \in Movement!Transfer
      BY <2>1, <2>3 DEF Movement!Settle, Movement!Moved, Movement!Transfer, Transfer
    <2> QED
      BY <2>4 DEF Movement!Next
  <1>3. ASSUME NEW n \in Amount, Salary(n) PROVE Movement!Next
    <2>1. /\ acct' = Credited(acct, SalaryAccount, n) /\ inflight' = inflight
          /\ n \in Nat /\ SalaryAccount \in Account
      BY <1>3, PaymentAssumption, AccountAssumption DEF Salary, ReceiveSalary
    <2>2. \A x \in Account : acct'[x].balance = bal[x] + (IF x = SalaryAccount THEN n ELSE 0)
      BY <1>0, <2>1, CreditedFields
    <2>3. Movement!Receive(n)
      <3>1. bal' = [bal EXCEPT ![SalaryAccount] = bal[SalaryAccount] + n]
        <4>1. bal' = [a \in Account |-> acct'[a].balance]
          OBVIOUS
        <4>2. [a \in Account |-> acct'[a].balance]
                = [bal EXCEPT ![SalaryAccount] = bal[SalaryAccount] + n]
          <5>1. \A x \in Account : bal[x] = acct[x].balance /\ bal[x] + 0 = bal[x]
            BY <1>0
          <5> HIDE DEF bal
          <5>2. \A x \in Account : acct'[x].balance = IF x = SalaryAccount THEN bal[SalaryAccount] + n
                                                                            ELSE bal[x]
            BY <2>1, <2>2, <5>1
          <5> QED
            BY <2>1, <5>2 DEF bal
        <4> QED
          BY <4>1, <4>2
      <3> QED
        BY <2>1, <3>1 DEF Movement!Receive
    <2> QED
      BY <2>3 DEF Movement!Next
  <1>4. ASSUME NEW b \in Bank, BankReport(b) PROVE Movement!Next
    <2>1. acct' = Upserted(acct, b) /\ inflight' = inflight
      BY <1>4 DEF BankReport, Sync
    <2>2. \A x \in Account : acct'[x].balance = IF BankOf[x] = b THEN Reported[x] ELSE bal[x]
      BY <1>0, <2>1, UpsertedFields
    <2>3. Movement!Report(b)
      BY <2>1, <2>2 DEF Movement!Report
    <2> QED
      BY <2>3 DEF Movement!Next
  <1>5. CASE CardChange
    BY <1>5 DEF CardChange, Movement!money
  <1>6. CASE DayEnds
    <2>1. /\ acct' = [a \in Account |-> [acct[a] EXCEPT !.spent = 0]] /\ inflight' = inflight
          /\ \A a \in Account : acct[a] \in AccountRec
      BY <1>0, <1>6 DEF DayEnds, Midnight, Books
    <2>2. \A a \in Account : acct'[a].balance = acct[a].balance
      BY <2>1 DEF AccountRec
    <2> QED
      BY <2>1, <2>2 DEF Movement!money
  <1>7. CASE UNCHANGED vars
    BY <1>7 DEF vars, Movement!money
  <1> QED
    BY <1>1, <1>2, <1>3, <1>4, <1>5, <1>6, <1>7 DEF Next

\* Whatever the latency, money moves as MoneyMovement promises: both legs
\* together, and each accepted transfer exactly once.
THEOREM ImplementsMovement == Spec => MovesMoneySoundly
  BY InitMoves, StepMoves, PayInvariance, PTL DEF Spec, MovesMoneySoundly, Movement!Spec
=============================================================================
