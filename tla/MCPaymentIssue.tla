-------------------------- MODULE MCPaymentIssue --------------------------
(* Small instances of PaymentIssue for TLC. *)
EXTENDS PaymentIssue, TLC

CONSTANTS a1, r1, r2

MCAttempts == {a1}
MCRequests == {r1, r2}
MCSymmetry == Permutations(MCRequests)
=============================================================================
