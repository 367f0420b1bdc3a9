------------------------ MODULE MCAuxTransferRequest ------------------------
(* Instances of AuxTransferRequest for TLC. *)
EXTENDS AuxTransferRequest
=============================================================================
