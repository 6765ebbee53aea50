------------------------------- MODULE MCWebBff -------------------------------
(***************************************************************************)
(* The BFF: two paid requests with their coordinators and a reconciler, and *)
(* the sign-ins of an operator's browser.  They share no state: each is a    *)
(* scene of its own, in which the other's state stays as it was.            *)
(***************************************************************************)
EXTENDS MCBffOrchestration, OperatorSignIn

CONSTANTS b1, b2  \* the identities that sign in

VARIABLE scene

WebInit == scene \in {"paid requests", "sign-in"} /\ BffInit /\ SignInInit

WebNext ==
    \/ scene = "paid requests" /\ BffNext /\ UNCHANGED <<scene, signInVars>>
    \/ scene = "sign-in" /\ SignInNext /\ UNCHANGED <<scene, bffVars>>

WebSpec == WebInit /\ [][WebNext]_<<scene, bffVars, signInVars>>
=============================================================================
