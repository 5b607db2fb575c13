---------------------------- MODULE CardService ----------------------------
(***************************************************************************)
(* card_service: freezing, daily limits and virtual cards.  The switches    *)
(* for online and contactless payments, which nothing reads, are left out.  *)
(***************************************************************************)
EXTENDS AccountService, Sequences, FiniteSetsExt

CONSTANTS
  SeedCards,     \* the cards of the seeded world, a sequence
  Limit,         \* the daily limits the user may set; 0 is none
  VirtualHost,   \* the accounts whose bank supports virtual cards
  MaxCards       \* bound on the number of cards

CardRec == [account : Account, frozen : BOOLEAN, limit : Nat]

ASSUME CardAssumption ==
  /\ SeedCards \in Seq(CardRec)
  /\ Limit \subseteq Nat
  /\ VirtualHost \subseteq Account
  /\ MaxCards \in Nat

VARIABLE cards

CardsTypeOK == cards \in Seq(CardRec)

CardsInit == cards = SeedCards

\* account_frozen: any frozen card blocks the account.
AccountFrozen(a) == \E i \in DOMAIN cards : cards[i].account = a /\ cards[i].frozen

\* The limits that count for an account: those of its cards that are not frozen.
Caps(a) == { cards[i].limit : i \in { j \in DOMAIN cards : /\ cards[j].account = a
                                                          /\ ~cards[j].frozen
                                                          /\ cards[j].limit > 0 } }

\* Mutant of DailyLimit: the loosest limit wins.
DailyLimitLoosest(a) == IF Caps(a) = {} THEN 0 ELSE Max(Caps(a))

\* daily_limit_for_account: the strictest limit wins; 0 is no cap.
DailyLimit(a) == IF Caps(a) = {} THEN 0 ELSE Min(Caps(a))

-----------------------------------------------------------------------------
(* Actions.  A card the user picks exists.                                 *)

SetFrozen(i, frozen) ==
  /\ cards[i].frozen # frozen
  /\ cards' = [cards EXCEPT ![i].frozen = frozen]

SetDailyLimit(i, n) == cards' = [cards EXCEPT ![i].limit = n]

\* create_virtual, behind banking_session's test that the bank supports it.
CreateVirtual(a, n) ==
  /\ a \in VirtualHost
  /\ Len(cards) < MaxCards
  /\ cards' = Append(cards, [account |-> a, frozen |-> FALSE, limit |-> n])

-----------------------------------------------------------------------------
(* Properties.                                                             *)

\* One more card on an account never loosens its daily limit, whatever limit the
\* card comes with: daily_limit_for_account takes the strictest.
NewCardNeverLoosens ==
  [][Len(cards') > Len(cards) =>
       \A a \in Account : DailyLimit(a) > 0 => DailyLimit(a)' \in 1..DailyLimit(a)]_cards

=============================================================================
