--------------------------- MODULE MCBillingSession ---------------------------
(* Instances of BillingSession for TLC. *)
EXTENDS BillingSession, TLC

CONSTANTS r1, r2

Plain(pref, est) == [pref |-> pref, playground |-> FALSE, force |-> FALSE, est |-> est]
Playground(pref, est) == [Plain(pref, est) EXCEPT !.playground = TRUE]
Task(pref, est) == [Plain(pref, est) EXCEPT !.force = TRUE]

\* Every preference, estimates of zero, within and beyond the balances, a task
\* (which is never trusted) and a playground request (which has no token).
AllProfiles ==
  {Plain("wallet_only", 0), Plain("wallet_only", 3), Plain("wallet_first", 2),
   Plain("subscription_only", 0), Plain("subscription_first", 2),
   Playground("subscription_first", 1), Task("wallet_only", 2)}

\* Requests that compete for the subscription and for the wallet, that find one
\* of them or both short and fall back.
ContendingProfiles ==
  {Plain("subscription_first", 1), Plain("subscription_first", 2), Plain("wallet_first", 2),
   Playground("wallet_first", 1)}

Symmetry == Permutations(Requests)
=============================================================================
