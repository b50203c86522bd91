---------------------------- MODULE MCQuotaCache ----------------------------
(* The instance of QuotaCache for TLC: QuotaCache_wallet.cfg. *)
EXTENDS QuotaCache

=============================================================================
