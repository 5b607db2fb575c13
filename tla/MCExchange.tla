----------------------------- MODULE MCExchange -----------------------------
(* Instances of Exchange for TLC: TBI's and Erste's pockets of the seeded    *)
(* world, or Erste alone with the RON pocket it has in the advisor's tests.  *)
(* Amounts are in units of 5.00.  No salary is paid here.                   *)
EXTENDS Exchange, TLC

CONSTANTS lei, euro, ron, eur, usd, tbi, erste

TwoBanks == {lei, euro, eur, usd}
ErsteAlone == {ron, eur, usd}
Banks == {tbi, erste}

Owners == [a \in Account |-> IF a \in {lei, euro} THEN tbi ELSE erste]
Currencies ==
  [a \in Account |-> CASE a \in {lei, ron} -> 0 [] a \in {euro, eur} -> 1 [] a = usd -> 2]
Ids == tbi :> 2 @@ erste :> 3
NoDebits == [a \in Account |-> 0]
NoCards == <<>>

\* One movement of 100 leaves too little for the next.
Small == [a \in Account |-> IF a \in {lei, eur} THEN 150 ELSE 50]

\* What Erste reports, and enough RON to begin.
Plenty == [a \in Account |-> CASE a = ron -> 500 [] a = eur -> 1080 [] a = usd -> 156 [] OTHER -> 0]

\* TBI: 8 bps, no fee.  Erste: EUR<->* at 20 bps, the other pairs at 50 bps and 5.00.
\* Both from 10.00.
Changed == { p \in Pair : p[1] # p[2] }
TbiDesk == [p \in Changed |-> [spread |-> 8, percent |-> 0, fixed |-> 0, min |-> 2, max |-> 0]]
ErsteDesk ==
  [p \in Changed |-> [spread |-> IF Eur \in {p[1], p[2]} THEN 20 ELSE 50,
                      percent |-> 0, fixed |-> IF Eur \in {p[1], p[2]} THEN 0 ELSE 1,
                      min |-> 2, max |-> 0]]
Desks == tbi :> TbiDesk @@ erste :> ErsteDesk

\* The base rates, and a table in which EUR to USD has drifted down: going through
\* RON pays more then.
Base == [p \in Pair |->
  CASE p = <<1, 0>> -> 497 [] p = <<0, 1>> -> 20
    [] p = <<1, 2>> -> 108 [] p = <<2, 1>> -> 92
    [] p = <<2, 0>> -> 459 [] p = <<0, 2>> -> 22
    [] OTHER -> 100]
Drifted == [Base EXCEPT ![<<1, 2>>] = 105]
Tables == {Base, Drifted}
=============================================================================
