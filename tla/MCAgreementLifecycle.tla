------------------------- MODULE MCAgreementLifecycle -------------------------
(* Small instances of AgreementLifecycle for TLC. *)
EXTENDS AgreementLifecycle, TLC

\* Handlers, agreement rows and DocuSeal's ids are interchangeable.
Symmetry == Permutations(Handlers) \cup Permutations(Agreements) \cup Permutations(Submissions)
=============================================================================
