--------------------------- MODULE MCInvoicePush ---------------------------
(* Small instances of InvoicePush for TLC. *)
EXTENDS InvoicePush, TLC

\* Invoice Ninja's ids are interchangeable; so are the job slots.
IdSymmetry == Permutations(InvoiceIds)
JobSymmetry == Permutations(InvoiceIds) \cup Permutations(Jobs)
=============================================================================
