------------------------------ MODULE MCLeaves ------------------------------
(* Leaves on a calendar of two days, one of them per request.              *)
EXTENDS Leaves, TLC

SomeAbsences == {<<"vacation", 0, 0>>, <<"vacation", 1, 1>>, <<"other", 1, 1>>}
SomeAdjustments == {-1, 0}
LeaveSymmetry == Permutations(Handlers)
=============================================================================
