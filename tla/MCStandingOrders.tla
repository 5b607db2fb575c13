-------------------------- MODULE MCStandingOrders --------------------------
(* Instance of StandingOrders for TLC: the accounts of MCPaymentService.     *)
EXTENDS StandingOrders, TLC

CONSTANTS current, bt, kmx, BT

TwoAccounts == {current, bt}
TwoBanks == {kmx, BT}
Owners == current :> kmx @@ bt :> BT
Balances == current :> 3 @@ bt :> 0
SpentBefore == current :> 1 @@ bt :> 0
OneCard == <<[account |-> current, frozen |-> FALSE, limit |-> 3]>>
=============================================================================
