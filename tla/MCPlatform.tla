------------------------------ MODULE MCPlatform ------------------------------
(* Two administrators, two provider models, one location. *)
EXTENDS PlatformConfiguration, TLC

CONSTANTS a1, a2, m1, m2, l1, r1, r2

MCSnapshot == [platform : 2..3, model : {m1, m2}, from : 0..2]
MCOffered == {[op |-> "settings"], [op |-> "route", model |-> m2],
              [op |-> "rate", model |-> m1, from |-> 1],
              [op |-> "rate", model |-> m1, from |-> 2]}
MCSymmetry == Permutations({a1, a2})
===============================================================================
