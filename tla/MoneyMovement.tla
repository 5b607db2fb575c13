--------------------------- MODULE MoneyMovement ---------------------------
(***************************************************************************)
(* What the money may do, whoever moves it.  A transfer that was accepted   *)
(* is owed; it is settled exactly once, and then the source is debited and  *)
(* the destination credited with the same amount in the same step.  Nothing *)
(* else changes a balance but a bank's report and a salary.                *)
(***************************************************************************)
EXTENDS Integers

CONSTANTS Account, Bank, BankOf, Reported, Outside, Amount, MaxTransfer, SalaryAccount,
          Deferred   \* transfers are owed for a while, or settled when accepted

VARIABLES balance, owed

money == <<balance, owed>>

\* A transfer to Outside leaves the aggregator's accounts.
Transfer == [from : Account, to : Account \cup {Outside}, amount : Amount]

Init == balance = Reported /\ owed = [t \in Transfer |-> 0]

Moved(t) == [a \in Account |-> balance[a] - (IF a = t.from THEN t.amount ELSE 0)
                                          + (IF a = t.to THEN t.amount ELSE 0)]

\* A transfer is accepted when it is covered at that moment.
Covered(t) == t.from # t.to /\ t.amount \in 1..MaxTransfer /\ balance[t.from] >= t.amount

Accept(t) == /\ Deferred
             /\ Covered(t)
             /\ owed' = [owed EXCEPT ![t] = owed[t] + 1]
             /\ UNCHANGED balance

Settle(t) == /\ owed[t] > 0
             /\ owed' = [owed EXCEPT ![t] = owed[t] - 1]
             /\ balance' = Moved(t)

SettleAtOnce(t) == /\ ~Deferred
                   /\ Covered(t)
                   /\ balance' = Moved(t)
                   /\ UNCHANGED owed

\* The bank's word replaces everything the program knew of its accounts.
Report(b) == /\ balance' = [a \in Account |-> IF BankOf[a] = b THEN Reported[a] ELSE balance[a]]
             /\ UNCHANGED owed

Receive(n) == /\ balance' = [balance EXCEPT ![SalaryAccount] = balance[SalaryAccount] + n]
              /\ UNCHANGED owed

Next == \/ \E t \in Transfer : Accept(t) \/ Settle(t) \/ SettleAtOnce(t)
        \/ \E b \in Bank : Report(b)
        \/ \E n \in Amount : Receive(n)

Spec == Init /\ [][Next]_money
=============================================================================
