-------------------------- MODULE MCPaymentService --------------------------
(* Instances of PaymentService for TLC.                                     *)
EXTENDS PaymentService, TLC

CONSTANTS current, bt, kmx, BT

\* A KMX current account with a card and a BT account without one.
TwoAccounts == {current, bt}
TwoBanks == {kmx, BT}
Owners == current :> kmx @@ bt :> BT
Balances == current :> 3 @@ bt :> 0
SpentBefore == current :> 1 @@ bt :> 0
OneCard == <<[account |-> current, frozen |-> FALSE, limit |-> 3]>>
=============================================================================
