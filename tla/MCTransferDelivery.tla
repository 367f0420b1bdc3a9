------------------------- MODULE MCTransferDelivery -------------------------
(* Instances of TransferDelivery for TLC. *)
EXTENDS TransferDelivery, TLC

\* Editors are interchangeable, and so are contents (safety runs only).
EditSymmetry == Permutations(Editors) \cup Permutations(Payloads)
=============================================================================
