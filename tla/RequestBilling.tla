---------------------------- MODULE RequestBilling ----------------------------
(***************************************************************************)
(* What billing promises of a relayed request, whatever steps it takes.    *)
(* A request is opened once and closed once.  Its bill is written in the   *)
(* step that closes it and never changes afterwards.  A bill is one amount *)
(* charged to one source and, if the request has a token, to that token.   *)
(* A request disturbed by a failed write or by a crash may get another     *)
(* bill, but never one that charges two sources or that leaves the wallet  *)
(* or the token with more than it had.                                     *)
(***************************************************************************)
EXTENDS Integers

CONSTANT Requests

VARIABLES phase,     \* per request: "idle", "open" or "closed"
          bill,      \* per request: its charges once it is closed
          disturbed  \* per request: has a failure spoiled its billing?

promise == <<phase, bill, disturbed>>

NoBill == [wallet |-> 0, subscription |-> 0, token |-> 0]

OneSource(b) == b.wallet = 0 \/ b.subscription = 0

Exact(b) ==
  /\ OneSource(b)
  /\ b.token = 0 \/ b.token = b.wallet + b.subscription

Tolerable(b) == OneSource(b) /\ b.wallet >= 0 /\ b.token >= 0

Init ==
  /\ phase = [r \in Requests |-> "idle"]
  /\ bill = [r \in Requests |-> NoBill]
  /\ disturbed = [r \in Requests |-> FALSE]

\* A request arrives.
Open(r) ==
  /\ phase[r] = "idle"
  /\ phase' = [phase EXCEPT ![r] = "open"]
  /\ UNCHANGED <<bill, disturbed>>

\* A request is turned away at the door, without a bill.
TurnAway(r) ==
  /\ phase[r] = "idle"
  /\ phase' = [phase EXCEPT ![r] = "closed"]
  /\ UNCHANGED <<bill, disturbed>>

\* Something fails while the request is open.
Disturb(r) ==
  /\ phase[r] = "open"
  /\ disturbed' = [disturbed EXCEPT ![r] = TRUE]
  /\ UNCHANGED <<phase, bill>>

\* Open requests are closed and get their bills: one by one, or all at once
\* when the process dies.
Close(S) ==
  /\ S # {}
  /\ \A r \in S : phase[r] = "open"
  /\ phase' = [r \in Requests |-> IF r \in S THEN "closed" ELSE phase[r]]
  /\ \A r \in S : /\ disturbed[r] => disturbed'[r]
                  /\ Tolerable(bill'[r])
                  /\ ~disturbed'[r] => Exact(bill'[r])
  /\ \A r \in Requests \ S : bill'[r] = bill[r] /\ disturbed'[r] = disturbed[r]

Next ==
  \/ \E r \in Requests : Open(r) \/ TurnAway(r) \/ Disturb(r)
  \/ \E S \in SUBSET Requests : Close(S)

Promise == Init /\ [][Next]_promise
=============================================================================
