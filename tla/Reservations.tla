----------------------------- MODULE Reservations -----------------------------
(***************************************************************************)
(* The admission plane: the Context-owned reservation of one paid request,  *)
(* the platform capacity it holds and its entry in the reconciliation queue *)
(* (packages/db/src/admission and the SQL functions it calls).  One permit  *)
(* JTI stands for its reservation, batch and generation.  Each operation is *)
(* one transaction and `reply' is what its caller receives; which requests  *)
(* may be reserved at all is Admission's business.                          *)
(***************************************************************************)
EXTENDS Permits

CONSTANTS PermitTTL,      \* 60 s
          Grace,          \* 30 s after expiry before a never-leased release
          ActivationTTL,  \* 30 s
          QueueClaimTTL   \* 2 min for which a claimed queue item is hidden

ASSUME ReservationAssumption ==
    /\ PermitTTL \in Nat
    /\ Grace \in Nat
    /\ ActivationTTL \in Nat
    /\ QueueClaimTTL \in Nat

VARIABLES reservation,  \* budget_reservations
          active,       \* platform_generation_admissions WHERE active
          queue         \* reconciliation_queue_items

reservationVars == <<reservation, active, queue>>

-----------------------------------------------------------------------------
(* Rows *)

ReservationStatus == {"none", "RESERVED", "REDEEMED", "SETTLED", "RELEASED"}

Reservation == [status : ReservationStatus, expires : Nat,
                leased : BOOLEAN,      \* execution_lease_id IS NOT NULL
                activation : Nat]      \* activation_expires_at

QueueItem == [present : BOOLEAN, due : Nat, leased : BOOLEAN, claimed : Nat]

NoReservation ==
    [status |-> "none", expires |-> 0, leased |-> FALSE, activation |-> 0]
NoItem == [present |-> FALSE, due |-> 0, leased |-> FALSE, claimed |-> 0]

ReservationTypeOK ==
    /\ reservation \in [Permit -> Reservation]
    /\ active \subseteq Permit
    /\ queue \in [Permit -> QueueItem]

ReservationInit ==
    /\ reservation = [p \in Permit |-> NoReservation]
    /\ active = {}
    /\ queue = [p \in Permit |-> NoItem]

Live(p) == reservation[p].status \in {"RESERVED", "REDEEMED"}

-----------------------------------------------------------------------------
(* Operations *)

\* Fault: the platform's one place is not checked.
PlaceUnchecked == TRUE

\* claim_platform_generation_capacity admits one active generation.
PlaceFree == active = {}

\* The writes of prepare: reserve, claim the platform's one active place and
\* enqueue for reconciliation.  The permit expires by the clock of the Lambda.
Reserve(p) ==
    /\ reservation[p].status = "none"
    /\ PlaceFree
    /\ \E t \in AppClock :
          /\ reservation' = [reservation EXCEPT ![p] =
                  [status |-> "RESERVED", expires |-> t + PermitTTL,
                   leased |-> FALSE, activation |-> 0]]
          /\ queue' = [queue EXCEPT ![p] =
                  [present |-> TRUE, due |-> t + PermitTTL + Grace,
                   leased |-> FALSE, claimed |-> 0]]
    /\ active' = {p}

Activatable(p, leaseExpires) ==
    /\ reservation[p].status = "RESERVED"
    /\ reservation[p].expires > now
    /\ leaseExpires > now

Activated(p) ==
    /\ reservation[p].status = "REDEEMED"
    /\ reservation[p].activation > now

\* reschedule_reconciliation_queue_item: due when the lease expires, unclaimed.
Reschedule(p, leaseExpires) ==
    queue' = IF queue[p].present
             THEN [queue EXCEPT ![p] =
                      [present |-> TRUE, due |-> leaseExpires,
                       leased |-> TRUE, claimed |-> 0]]
             ELSE queue

\* activate: CAS RESERVED -> REDEEMED, or repeat a live activation.
Activate(p, leaseExpires, reply) ==
    /\ \/ /\ Activatable(p, leaseExpires)
          /\ reservation' = [reservation EXCEPT
                ![p].status = "REDEEMED",
                ![p].leased = TRUE,
                ![p].activation = Least(leaseExpires, now + ActivationTTL)]
          /\ Reschedule(p, leaseExpires)
          /\ reply = IF queue[p].present THEN "activated" ELSE "rejected"
       \/ /\ Activated(p)
          /\ Reschedule(p, leaseExpires)
          /\ reply = IF queue[p].present THEN "activated" ELSE "rejected"
          /\ UNCHANGED reservation
       \/ /\ ~Activatable(p, leaseExpires) /\ ~Activated(p)
          /\ reply = "rejected"
          /\ UNCHANGED <<reservation, queue>>
    /\ UNCHANGED active

\* Fault: the place is not given back.
CloseKeepsPlace(p, status) ==
    /\ reservation' = [reservation EXCEPT ![p].status = status]
    /\ queue' = [queue EXCEPT ![p] = NoItem]
    /\ UNCHANGED active

\* Close a live reservation: free its place and remove it from the queue.
Close(p, status) ==
    /\ reservation' = [reservation EXCEPT ![p].status = status]
    /\ active' = active \ {p}
    /\ queue' = [queue EXCEPT ![p] = NoItem]

\* settle: CAS REDEEMED -> SETTLED, or an exact replay of it.  The transaction
\* fails as a whole when there is no queue item to remove.
Settle(p, reply) ==
    \/ /\ reservation[p].status = "REDEEMED"
       /\ IF queue[p].present
          THEN Close(p, "SETTLED") /\ reply = "settled"
          ELSE UNCHANGED reservationVars /\ reply = "error"
    \/ /\ reservation[p].status # "REDEEMED"
       /\ reply = IF reservation[p].status = "SETTLED"
                  THEN "settled" ELSE "rejected"
       /\ active' = IF reservation[p].status = "SETTLED"
                    THEN active \ {p} ELSE active
       /\ UNCHANGED <<reservation, queue>>

\* Fault: the item's own due time is not compared.
DueEarly(p) == queue[p].present /\ queue[p].claimed <= now

\* Fault: an item claimed by a run that died is never claimed again.
DueOnce(p) == /\ queue[p].present
              /\ queue[p].due <= now
              /\ queue[p].claimed = 0

\* claim_due_reconciliation_queue: hide every due item for two minutes.
Due(p) == /\ queue[p].present
          /\ queue[p].due <= now
          /\ queue[p].claimed <= now

ClaimDue(claimed) ==
    /\ claimed = {p \in Permit : Due(p)}
    /\ queue' = [p \in Permit |->
            IF p \in claimed
            THEN [queue[p] EXCEPT !.claimed = now + QueueClaimTTL]
            ELSE queue[p]]
    /\ UNCHANGED <<reservation, active>>

\* Fault: a "no lease" receipt releases a live reservation whatever happened
\* since it was signed.
ReleasableOnOldReceipt(p, outcome) ==
    /\ queue[p].present
    /\ Live(p)
    /\ outcome = "no-lease"
    /\ reservation[p].expires + Grace <= now

\* The predicates of the two outcomes of releaseReconciled.
Releasable(p, outcome) ==
    /\ queue[p].present
    /\ queue[p].due <= now
    /\ \/ /\ outcome = "cancelled"
          /\ reservation[p].status = "REDEEMED"
          /\ queue[p].leased
       \/ /\ outcome = "no-lease"
          /\ reservation[p].status = "RESERVED"
          /\ ~reservation[p].leased
          /\ reservation[p].expires + Grace <= now
          /\ ~queue[p].leased

\* releaseReconciled: CAS to RELEASED, or an exact replay of it.
Release(p, outcome, reply) ==
    \/ /\ Releasable(p, outcome)
       /\ Close(p, "RELEASED")
       /\ reply = "released"
    \/ /\ ~Releasable(p, outcome)
       /\ reply = IF /\ reservation[p].status = "RELEASED"
                     /\ reservation[p].leased <=> outcome = "cancelled"
                  THEN "released" ELSE "rejected"
       /\ UNCHANGED reservationVars

-----------------------------------------------------------------------------
(* Properties *)

\* A reservation holds the platform's only active place exactly as long as it
\* is live, so two live reservations never exist, and every live one is in the
\* queue where the reconciler can find it.
LiveHoldsPlace ==
    /\ \A p \in Permit : Live(p) <=> p \in active
    /\ \A p, q \in active : p = q
    /\ \A p \in Permit : queue[p].present <=> p \in active
==============================================================================
