----------------------------- MODULE MCAiQuota -----------------------------
(* AiQuota with the symmetries of its model values.                        *)
EXTENDS AiQuota, TLC

QuotaSymmetry ==
    Permutations(Handlers) \cup Permutations(Users)
        \cup Permutations(Chats) \cup Permutations(Readings)
=============================================================================
