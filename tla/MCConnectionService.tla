------------------------ MODULE MCConnectionService ------------------------
(* Instances of ConnectionService for TLC, one per kind of bank.           *)
EXTENDS ConnectionService, TLC

CONSTANTS bt, erste

\* Banca Transilvania: revocable, short sessions, no rate limit; here its
\* connector may also be unavailable, as the stub connector of the tests is.
BtBank == {bt}
BtAccounts == bt :> 2
BtValidity == bt :> 2
BtInterval == bt :> 2
BtCooldown == bt :> 0

\* Erste: two accounts behind a rate limit, sessions longer than the window.
ErsteBank == {erste}
ErsteAccounts == erste :> 2
ErsteValidity == erste :> 5
ErsteInterval == erste :> 3
ErsteCooldown == erste :> 2

\* Both under one scheduler.  Erste syncs inline here, as a link without a delay
\* does, and a pass of it stops half-way when it meets its window.
BothBanks == {bt, erste}
BothAccounts == bt :> 2 @@ erste :> 2
BothValidity == bt :> 2 @@ erste :> 3
BothInterval == bt :> 2 @@ erste :> 2
BothCooldown == bt :> 0 @@ erste :> 1
=============================================================================
