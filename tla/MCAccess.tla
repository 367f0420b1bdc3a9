------------------------------ MODULE MCAccess ------------------------------
(* Access with two of what meets: requests, saves, rows, uploads, forms.     *)
EXTENDS Access
=============================================================================
