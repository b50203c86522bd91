------------------------------- MODULE MCTopUp -------------------------------
(* Instances of TopUp for TLC. *)
EXTENDS TopUp, TLC

CONSTANTS n1, n2, w1, w2, w3

\* Two workers on one node and one on another.
MCNodeOf == w1 :> n1 @@ w2 :> n1 @@ w3 :> n2
=============================================================================
