----------------------------- MODULE MCInvoicing -----------------------------
(* Small instances of Invoicing for TLC. *)
EXTENDS Invoicing, TLC

Symmetry == Permutations(Workers) \cup Permutations(Quotes)
=============================================================================
