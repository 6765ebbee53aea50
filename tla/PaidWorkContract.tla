--------------------------- MODULE PaidWorkContract ---------------------------
(***************************************************************************)
(* What the Generation function promises of a paid permit, without leases,  *)
(* attempts, retries or recoveries: a permit is decided once; at most one   *)
(* provider call is made for it, never before it is claimed and never for a *)
(* cancelled one; and a draft or a rejection is published only of a call    *)
(* that was made.                                                           *)
(***************************************************************************)
CONSTANTS Permit, Draft

VARIABLES outcome,  \* what is decided of each permit
          called    \* permits a provider was called for

Outcome == {"open", "claimed", "cancelled", "lost", "rejected"} \cup Draft

Init == /\ outcome = [p \in Permit |-> "open"]
        /\ called = {}

Become(p, old, new) == /\ outcome[p] = old
                       /\ outcome' = [outcome EXCEPT ![p] = new]
                       /\ UNCHANGED called

Claim(p) == Become(p, "open", "claimed")

Cancel(p) == Become(p, "open", "cancelled")

Lose(p) == Become(p, "claimed", "lost")

Call(p) == /\ outcome[p] \notin {"open", "cancelled"}
           /\ p \notin called
           /\ called' = called \cup {p}
           /\ UNCHANGED outcome

Publish(p) == /\ p \in called
              /\ \E r \in Draft \cup {"rejected"} : Become(p, "claimed", r)

Next == \E p \in Permit :
            Claim(p) \/ Cancel(p) \/ Lose(p) \/ Call(p) \/ Publish(p)

Spec == Init /\ [][Next]_<<outcome, called>>
==============================================================================
