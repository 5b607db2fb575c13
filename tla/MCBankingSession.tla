-------------------------- MODULE MCBankingSession --------------------------
(* Instances of BankingSession for TLC: KMX Bank, linked by the shell, and   *)
(* a bank the user links, whose session the demo menu can revoke.            *)
EXTENDS BankingSession

CONSTANTS kmx, bt

BothBanks == {kmx, bt}
BtOnly == {bt}
One == [b \in BothBanks |-> 1]
Zero == [b \in BothBanks |-> 0]
=============================================================================
