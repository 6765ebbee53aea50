------------------------------ MODULE MCContext ------------------------------
(***************************************************************************)
(* Prepare in three invocations, and the codes that are printed.  They share *)
(* no state: each is a scene of its own, in which the other's stays as it was. *)
(***************************************************************************)
EXTENDS MCAdmission, SurveyCode

VARIABLE scene

\* At and just above what the versions hold, and characters of two, three and four bytes.
MCText(n) == [i \in 1..n |-> 33 + ((7 * i * i) % 90)]
MCAddress == {MCText(n) : n \in {1, 14, 15, 26, 27, 42, 43, 62, 63, 84, 85, 106, 107, 122, 123,
                                 152, 153, 180, 181, 213, 214}}
             \cup {<<252, 223, 8212, 128512, 65>>}

ContextInit == /\ scene \in {"prepare", "print"}
               /\ AdmissionInit
               /\ CodeInit

ContextNext ==
    \/ scene = "prepare" /\ AdmissionNext /\ UNCHANGED <<scene, print>>
    \/ scene = "print" /\ CodeNext /\ UNCHANGED <<scene, admissionVars>>

ContextSpec == ContextInit /\ [][ContextNext]_<<scene, admissionVars, print>>
=============================================================================
