---------------------------- MODULE MCAdmission ----------------------------
(* Three prepare invocations in two sessions, of two tenants or of one. *)
EXTENDS Admission, TLC

CONSTANTS p1, p2, p3, s1, s2, k1, k2, t1, t2

MCPermit == {p1, p2, p3}
MCSession == {s1, s2}
MCTenant == {t1, t2}
MCKey == {k1, k2}
OwnTenant == [s \in MCSession |-> IF s = s1 THEN t1 ELSE t2]
OneTenant == [s \in MCSession |-> t1]
MCCap == [s \in MCSession |-> 3]
MCLeaseExpiry == {MaxTime}
Symmetry == Permutations(MCPermit) \cup Permutations(MCKey)
==============================================================================
