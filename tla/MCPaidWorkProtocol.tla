-------------------------- MODULE MCPaidWorkProtocol --------------------------
(* Two paid requests, one after the other in the platform's one place. *)
EXTENDS PaidWorkProtocol, TLC

CONSTANTS p1, p2, d1

MCPermit == {p1, p2}
MCDraft == {d1}
MCExpiry == 0..(MaxTime + Skew + PermitTTL)
Symmetry == Permutations(MCPermit)
==============================================================================
