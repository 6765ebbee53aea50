------------------------------- MODULE MCVisit -------------------------------
(***************************************************************************)
(* What a browser shows, for TLC: two tabs of one browser, or of two, and   *)
(* two visits; and the pages of two operators, whose commands take effect   *)
(* at once.  They share no state: each is a scene of its own, in which the  *)
(* other's state stays as it was.                                           *)
(***************************************************************************)
EXTENDS ReviewerVisit, ConsoleCatalogue, TLC

CONSTANTS phone, desk, left, right,
          a1, a2  \* operators

VARIABLE scene

MCBrowser == {phone, desk}
MCTab == {left, right}
MCVisit == 1..2
MCVisitSymmetry ==
    Permutations(MCBrowser) \cup Permutations(MCTab) \cup Permutations({a1, a2})

PagesInit == /\ scene \in {"visit", "catalogue"}
             /\ VisitInit
             /\ CatalogueInit
             /\ scene = "catalogue" => \A t, u \in Tab : home[t] = home[u]

PagesNext ==
    \/ scene = "visit" /\ VisitNext /\ UNCHANGED <<scene, catalogueVars>>
    \/ scene = "catalogue" /\ CatalogueNext /\ UNCHANGED <<scene, visitVars>>

PagesSpec == PagesInit /\ [][PagesNext]_<<scene, visitVars, catalogueVars>>
=============================================================================
