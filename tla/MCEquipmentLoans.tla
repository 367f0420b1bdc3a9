-------------------------- MODULE MCEquipmentLoans --------------------------
(* EquipmentLoans with the symmetries of its model values.                 *)
EXTENDS EquipmentLoans, TLC

LoanSymmetry == Permutations(Handlers) \cup Permutations(Users)
=============================================================================
