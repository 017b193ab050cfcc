------------------------- MODULE MCVerificationRecords -------------------------
(* One person and the phone number that is hers, in small numbers.          *)
EXTENDS VerificationRecords, TLC

CONSTANTS r1, r2, c1, c2, v1, v2, v3, p1

SymRows == Permutations(Requests) \cup Permutations(Codes) \cup Permutations(Records)
=============================================================================
