----------------------------- MODULE WalletJournal -----------------------------
(***************************************************************************)
(* What the wallet promises to the flows that call it, as one atomic       *)
(* journal: a key is posted at most once, and a posting is a credit from   *)
(* the platform, a debit to the platform, or a movement between the        *)
(* buckets of the wallet that neither makes nor loses money.  Nothing else *)
(* ever changes a balance.                                                 *)
(***************************************************************************)
EXTENDS WalletCore

CONSTANTS Keys, Opening

VARIABLES balance, posted

JournalInit == balance = Opening /\ posted = {}

Change(b) == balance'[b] - balance[b]

IsCredit == \A b \in Buckets : Change(b) >= 0
IsDebit == \A b \in Buckets : Change(b) <= 0
IsMovement == Total(balance') = Total(balance)

Post(k) ==
  /\ k \notin posted
  /\ posted' = posted \cup {k}
  /\ balance' \in Balances
  /\ IsCredit \/ IsDebit \/ IsMovement

JournalNext == \E k \in Keys : Post(k)

JournalSpec == JournalInit /\ [][JournalNext]_<<balance, posted>>
=============================================================================
