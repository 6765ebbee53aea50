-------------------------- MODULE MCBffOrchestration --------------------------
(* The BFF over one or two paid requests. *)
EXTENDS BffOrchestration, TLC

CONSTANTS p1, p2, d1

OnePermit == {p1}
MCPermit == {p1, p2}
MCDraft == {d1}
MCExpiry == 0..(MaxTime + Skew + PermitTTL)
Symmetry == Permutations(MCPermit)
==============================================================================
