---------------------------- MODULE BankConsent ----------------------------
(***************************************************************************)
(* What the link layer promises the user, told without states, sessions,   *)
(* timers or error codes: data about a bank is pulled only while the user's *)
(* consent for that bank stands, consent begins only when the user gives   *)
(* it, and it may lapse on its own.  ConnectionService implements this.    *)
(***************************************************************************)
EXTENDS Naturals

CONSTANT Bank

VARIABLES consent,  \* the banks the user's consent covers now
          data      \* data[b]: how much has been received from bank b

vars == <<consent, data>>

Init == /\ consent = {}
        /\ data = [b \in Bank |-> 0]

\* Data may arrive from the banks of S, and is never lost.
PullsFrom(S) == /\ data' \in [Bank -> Nat]
                /\ \A b \in Bank : \/ data'[b] = data[b]
                                   \/ b \in S /\ data'[b] > data[b]

\* The user consents for bank b; a first pull may come with it.
Grant(b) == /\ consent' = consent \cup {b}
            /\ PullsFrom({b})

\* The user withdraws consent.
Withdraw(b) == /\ consent' = consent \ {b}
               /\ UNCHANGED data

\* On its own the system may notice that consents have lapsed, and pull from
\* banks whose consent it still holds afterwards.
Run == /\ consent' \in SUBSET consent
       /\ PullsFrom(consent')

Next == \/ \E b \in Bank : Grant(b) \/ Withdraw(b)
        \/ Run

Spec == Init /\ [][Next]_vars
=============================================================================
