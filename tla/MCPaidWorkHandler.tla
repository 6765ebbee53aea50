-------------------------- MODULE MCPaidWorkHandler --------------------------
(* One permit, two concurrent invocations of the Generation function. *)
EXTENDS PaidWorkHandler, TLC

CONSTANTS p1, d1, i1, i2

MCPermit == {p1}
MCDraft == {d1}
MCExpiry == {2}
Early == {1}
MCInvocation == {i1, i2}
Symmetry == Permutations(MCInvocation)
==============================================================================
