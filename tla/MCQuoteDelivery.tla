--------------------------- MODULE MCQuoteDelivery ---------------------------
(* Small instances of QuoteDelivery for TLC. *)
EXTENDS QuoteDelivery, TLC

Symmetry == Permutations(Contents) \cup Permutations(Keys) \cup Permutations(Requests)
=============================================================================
