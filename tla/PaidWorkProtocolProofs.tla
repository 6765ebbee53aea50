------------------------ MODULE PaidWorkProtocolProofs ------------------------
(* That the tokens keep the two planes in step, for any number of permits,   *)
(* any clock bounds and any delivery of the tokens: what each operation of   *)
(* the admission plane does to the row of its permit, that all of them keep  *)
(* the platform's one place for a live reservation, and then the protocol.   *)
EXTENDS PaidWorkProtocol, ExecutionFenceProofs

-----------------------------------------------------------------------------
(* The admission plane *)

AdmissionInv == ReservationTypeOK /\ now \in Nat /\ LiveHoldsPlace

\* The rows of the other permits are left alone.
OthersKept(p) ==
    \A q \in Permit \ {p} : /\ reservation'[q] = reservation[q]
                            /\ queue'[q] = queue[q]

\* A reservation goes from one status to another.
Moved(p, old, new) ==
    /\ reservation[p].status = old
    /\ reservation'[p].status = new

\* A reservation that is redeemed, or was already, has an item due with its lease.
Redeemed(p, leaseExpires) ==
    /\ \/ reservation[p].status = "REDEEMED"
       \/ reservation[p].status = "RESERVED" /\ reservation[p].expires > now
    /\ reservation'[p].status = "REDEEMED"
    /\ queue'[p].due = leaseExpires /\ queue'[p].leased

LEMMA AppClockNat ==
    ASSUME now \in Nat, NEW t \in AppClock
    PROVE  t \in Nat
  BY ClockAssumption DEF AppClock

\* Replacing one row by a well typed one keeps the types.
LEMMA RowTyped ==
    ASSUME ReservationTypeOK, NEW p \in Permit, NEW r \in Reservation,
           NEW i \in QueueItem,
           reservation' = [reservation EXCEPT ![p] = r],
           queue' = [queue EXCEPT ![p] = i],
           active' \subseteq Permit
    PROVE  /\ ReservationTypeOK'
           /\ OthersKept(p)
           /\ reservation'[p] = r
           /\ queue'[p] = i
  BY DEF ReservationTypeOK, OthersKept

LEMMA RowOf ==
    ASSUME ReservationTypeOK, NEW p \in Permit
    PROVE  /\ reservation[p] \in Reservation
           /\ reservation = [reservation EXCEPT ![p] = reservation[p]]
           /\ queue[p] \in QueueItem
           /\ queue = [queue EXCEPT ![p] = queue[p]]
           /\ active \subseteq Permit
  BY DEF ReservationTypeOK

\* The place is kept by a step that leaves a live reservation live and its item
\* in the queue, ...
LEMMA PlaceKept ==
    ASSUME LiveHoldsPlace, NEW p \in Permit, OthersKept(p), UNCHANGED active,
           Live(p)' <=> Live(p),
           queue'[p].present <=> queue[p].present
    PROVE  LiveHoldsPlace'
  BY DEF LiveHoldsPlace, Live, OthersKept

\* ... and given back by one that ends it.
LEMMA PlaceFreed ==
    ASSUME LiveHoldsPlace, NEW p \in Permit, OthersKept(p),
           active' = active \ {p}, ~Live(p)', ~queue'[p].present
    PROVE  LiveHoldsPlace'
  BY DEF LiveHoldsPlace, Live, OthersKept

\* Reserve takes the place of an empty platform.
LEMMA ReserveMoves ==
    ASSUME AdmissionInv, NEW p \in Permit, Reserve(p), UNCHANGED now
    PROVE  /\ AdmissionInv'
           /\ OthersKept(p)
           /\ Moved(p, "none", "RESERVED")
           /\ ~reservation'[p].leased
           /\ queue'[p].due = reservation'[p].expires + Grace /\ ~queue'[p].leased
<1>1. PICK t \in AppClock :
        /\ reservation' = [reservation EXCEPT ![p] =
                [status |-> "RESERVED", expires |-> t + PermitTTL,
                 leased |-> FALSE, activation |-> 0]]
        /\ queue' = [queue EXCEPT ![p] =
                [present |-> TRUE, due |-> t + PermitTTL + Grace,
                 leased |-> FALSE, claimed |-> 0]]
  BY DEF Reserve
<1> DEFINE r == [status |-> "RESERVED", expires |-> t + PermitTTL,
                 leased |-> FALSE, activation |-> 0]
           i == [present |-> TRUE, due |-> t + PermitTTL + Grace,
                 leased |-> FALSE, claimed |-> 0]
<1>2. t \in Nat
  BY AppClockNat DEF AdmissionInv
<1>3. t + PermitTTL \in Nat /\ t + PermitTTL + Grace \in Nat
  BY <1>2, ReservationAssumption
<1>4. /\ r \in Reservation /\ r.status = "RESERVED" /\ ~r.leased
      /\ i \in QueueItem /\ i.present /\ i.due = r.expires + Grace /\ ~i.leased
  BY <1>3 DEF Reservation, ReservationStatus, QueueItem
<1>5. active = {} /\ active' = {p} /\ reservation[p].status = "none"
  BY DEF Reserve, PlaceFree
<1> HIDE DEF r, i
<1>6. reservation' = [reservation EXCEPT ![p] = r] /\ queue' = [queue EXCEPT ![p] = i]
  BY <1>1 DEF r, i
<1>7. /\ ReservationTypeOK' /\ OthersKept(p)
      /\ reservation'[p] = r /\ queue'[p] = i
  BY <1>4, <1>5, <1>6, RowTyped DEF AdmissionInv
<1>8. LiveHoldsPlace'
  BY <1>4, <1>5, <1>7 DEF LiveHoldsPlace, Live, OthersKept, AdmissionInv
<1>9. QED
  BY <1>4, <1>5, <1>7, <1>8 DEF AdmissionInv, Moved

\* Rescheduling an item of the queue keeps it there.
LEMMA RescheduleTyped ==
    ASSUME ReservationTypeOK, NEW p \in Permit, NEW e \in Nat, Reschedule(p, e)
    PROVE  \E i \in QueueItem : /\ queue' = [queue EXCEPT ![p] = i]
                                /\ i.present <=> queue[p].present
                                /\ i.present => i.due = e /\ i.leased
<1>1. CASE queue[p].present
  <2> DEFINE i == [present |-> TRUE, due |-> e, leased |-> TRUE, claimed |-> 0]
  <2>1. i \in QueueItem /\ i.present /\ i.due = e /\ i.leased
    BY DEF QueueItem
  <2>2. queue' = [queue EXCEPT ![p] = i]
    BY <1>1 DEF Reschedule
  <2> HIDE DEF i
  <2>3. QED
    BY <1>1, <2>1, <2>2
<1>2. CASE ~queue[p].present
  BY <1>2, RowOf DEF Reschedule
<1>3. QED
  BY <1>1, <1>2

\* Activation redeems a reservation or leaves all of them alone.
LEMMA ActivateMoves ==
    ASSUME AdmissionInv, NEW p \in Permit, NEW e \in Nat, NEW reply,
           Activate(p, e, reply), UNCHANGED now
    PROVE  /\ AdmissionInv'
           /\ OthersKept(p)
           /\ \/ UNCHANGED reservation
              \/ /\ Moved(p, "RESERVED", "REDEEMED")
                 /\ reservation'[p].leased
           /\ UNCHANGED <<reservation, queue>> \/ Redeemed(p, e)
           /\ reply = "activated" => reservation'[p].status = "REDEEMED"
<1>1. ReservationTypeOK /\ LiveHoldsPlace /\ UNCHANGED active
  BY DEF AdmissionInv, Activate
<1>2. CASE Activatable(p, e)
  <2> DEFINE r == [reservation[p] EXCEPT !.status = "REDEEMED", !.leased = TRUE,
                      !.activation = Least(e, now + ActivationTTL)]
  <2>1. reservation' = [reservation EXCEPT ![p] = r] /\ Reschedule(p, e)
    BY <1>1, <1>2, RowOf DEF Activate, Activatable, Activated, Reservation
  <2>2. Least(e, now + ActivationTTL) \in Nat
    BY ReservationAssumption DEF Least, AdmissionInv
  <2>3. r \in Reservation /\ r.status = "REDEEMED" /\ r.leased
    BY <1>1, <2>2, RowOf DEF Reservation, ReservationStatus
  <2> HIDE DEF r
  <2>4. PICK i \in QueueItem : /\ queue' = [queue EXCEPT ![p] = i]
                               /\ i.present <=> queue[p].present
                               /\ i.present => i.due = e /\ i.leased
    BY <1>1, <2>1, RescheduleTyped
  <2>5. active' \subseteq Permit
    BY <1>1, RowOf
  <2>6. /\ ReservationTypeOK' /\ OthersKept(p)
        /\ reservation'[p] = r /\ queue'[p] = i
    BY <1>1, <2>1, <2>3, <2>4, <2>5, RowTyped
  <2>7. LiveHoldsPlace'
    BY <1>1, <1>2, <2>3, <2>4, <2>6, PlaceKept DEF Live, Activatable
  <2>8. Redeemed(p, e)
    <3>1. i.present
      BY <1>1, <1>2, <2>4 DEF LiveHoldsPlace, Live, Activatable
    <3>2. QED
      BY <1>2, <2>3, <2>4, <2>6, <3>1 DEF Redeemed, Activatable
  <2>9. QED
    BY <1>2, <2>3, <2>6, <2>7, <2>8 DEF AdmissionInv, Moved, Activatable
<1>3. CASE Activated(p) /\ UNCHANGED reservation /\ Reschedule(p, e)
  <2>1. PICK i \in QueueItem : /\ queue' = [queue EXCEPT ![p] = i]
                               /\ i.present <=> queue[p].present
                               /\ i.present => i.due = e /\ i.leased
    BY <1>1, <1>3, RescheduleTyped
  <2>2. /\ reservation[p] \in Reservation /\ active' \subseteq Permit
        /\ reservation' = [reservation EXCEPT ![p] = reservation[p]]
    BY <1>1, <1>3, RowOf
  <2>3. ReservationTypeOK' /\ OthersKept(p) /\ queue'[p] = i
    BY <1>1, <2>1, <2>2, RowTyped
  <2>4. Live(p)' <=> Live(p)
    BY <1>3 DEF Live
  <2>5. LiveHoldsPlace'
    BY <1>1, <2>1, <2>3, <2>4, PlaceKept
  <2>6. Redeemed(p, e)
    <3>1. i.present
      BY <1>1, <1>3, <2>1 DEF LiveHoldsPlace, Live, Activated
    <3>2. QED
      BY <1>3, <2>1, <2>3, <3>1 DEF Redeemed, Activated
  <2>7. QED
    BY <1>3, <2>3, <2>5, <2>6 DEF AdmissionInv, Activated
<1>4. CASE UNCHANGED <<reservation, queue>> /\ reply = "rejected"
  BY <1>1, <1>4 DEF AdmissionInv, ReservationTypeOK, OthersKept, LiveHoldsPlace, Live
<1>5. QED
  BY <1>2, <1>3, <1>4 DEF Activate, Activatable, Activated

\* A step that leaves the rows of the plane alone.
LEMMA RowsSame ==
    ASSUME AdmissionInv, NEW p \in Permit, UNCHANGED reservationVars,
           UNCHANGED now
    PROVE  AdmissionInv' /\ OthersKept(p)
  BY DEF AdmissionInv, ReservationTypeOK, OthersKept, LiveHoldsPlace, Live,
         reservationVars

\* Closing a reservation gives its place back.
LEMMA CloseMoves ==
    ASSUME AdmissionInv, NEW p \in Permit, UNCHANGED now,
           NEW s \in {"SETTLED", "RELEASED"}, Close(p, s)
    PROVE  /\ AdmissionInv'
           /\ OthersKept(p)
           /\ reservation'[p].status = s
           /\ reservation'[p].leased = reservation[p].leased
<1> DEFINE r == [reservation[p] EXCEPT !.status = s]
<1>1. ReservationTypeOK /\ LiveHoldsPlace /\ s \in ReservationStatus
  BY DEF AdmissionInv, ReservationStatus
<1>2. /\ r \in Reservation /\ r.status = s
      /\ r.leased = reservation[p].leased
  BY <1>1, RowOf DEF Reservation
<1>3. NoItem \in QueueItem /\ ~NoItem.present
  BY DEF NoItem, QueueItem
<1>4. /\ reservation' = [reservation EXCEPT ![p] = r]
      /\ queue' = [queue EXCEPT ![p] = NoItem]
      /\ active' = active \ {p}
  BY DEF Close
<1> HIDE DEF r
<1>5. active' \subseteq Permit
  BY <1>1, <1>4, RowOf
<1>6. r \in Reservation /\ NoItem \in QueueItem
  BY <1>2, <1>3
<1>7. /\ ReservationTypeOK' /\ OthersKept(p)
      /\ reservation'[p] = r /\ queue'[p] = NoItem
  BY <1>1, <1>4, <1>5, <1>6, RowTyped
<1>8. LiveHoldsPlace'
  BY <1>1, <1>2, <1>3, <1>4, <1>7, PlaceFreed DEF Live
<1>9. QED
  BY <1>2, <1>7, <1>8 DEF AdmissionInv

\* Settling closes a redeemed reservation or leaves all of them alone.
LEMMA SettleMoves ==
    ASSUME AdmissionInv, NEW p \in Permit, NEW reply, Settle(p, reply),
           UNCHANGED now
    PROVE  /\ AdmissionInv'
           /\ OthersKept(p)
           /\ \/ UNCHANGED <<reservation, queue>>
              \/ /\ Moved(p, "REDEEMED", "SETTLED")
                 /\ reservation'[p].leased = reservation[p].leased
<1>1. CASE reservation[p].status = "REDEEMED" /\ Close(p, "SETTLED")
  BY <1>1, CloseMoves DEF Moved
<1>2. CASE UNCHANGED reservationVars
  BY <1>2, RowsSame DEF reservationVars
<1>3. CASE /\ reservation[p].status = "SETTLED"
           /\ active' = active \ {p} /\ UNCHANGED <<reservation, queue>>
  <2>1. p \notin active
    BY <1>3 DEF AdmissionInv, LiveHoldsPlace, Live
  <2>2. UNCHANGED reservationVars
    BY <1>3, <2>1 DEF reservationVars
  <2>3. QED
    BY <2>2, RowsSame DEF reservationVars
<1>4. QED
  BY <1>1, <1>2, <1>3 DEF Settle, reservationVars

\* A release closes a redeemed reservation on a cancellation and an unredeemed
\* one otherwise, or leaves all of them alone.
LEMMA ReleaseMoves ==
    ASSUME AdmissionInv, NEW p \in Permit, NEW reply,
           NEW outcome \in {"no-lease", "cancelled"},
           Release(p, outcome, reply), UNCHANGED now
    PROVE  /\ AdmissionInv'
           /\ OthersKept(p)
           /\ \/ UNCHANGED <<reservation, queue>>
              \/ /\ outcome = "cancelled"
                 /\ Moved(p, "REDEEMED", "RELEASED")
                 /\ reservation'[p].leased = reservation[p].leased
              \/ /\ outcome = "no-lease"
                 /\ Moved(p, "RESERVED", "RELEASED")
                 /\ reservation[p].expires + Grace <= now
                 /\ ~reservation'[p].leased
<1>1. CASE Releasable(p, outcome) /\ Close(p, "RELEASED")
  BY <1>1, CloseMoves DEF Moved, Releasable
<1>2. CASE UNCHANGED reservationVars
  BY <1>2, RowsSame DEF reservationVars
<1>3. QED
  BY <1>1, <1>2 DEF Release

\* Claiming due items only hides them for a while.
LEMMA ClaimDueMoves ==
    ASSUME AdmissionInv, NEW claimed \in SUBSET Permit, ClaimDue(claimed),
           UNCHANGED now
    PROVE  /\ AdmissionInv' /\ UNCHANGED reservation
           /\ \A q \in Permit : /\ queue'[q].due = queue[q].due
                                /\ queue'[q].leased = queue[q].leased
<1>1. /\ ReservationTypeOK /\ LiveHoldsPlace /\ now + QueueClaimTTL \in Nat
      /\ UNCHANGED <<reservation, active>>
  BY ReservationAssumption DEF AdmissionInv, ClaimDue
<1>2. ASSUME NEW q \in Permit
      PROVE  /\ [queue[q] EXCEPT !.claimed = now + QueueClaimTTL] \in QueueItem
             /\ [queue[q] EXCEPT !.claimed = now + QueueClaimTTL].present
                    = queue[q].present
             /\ [queue[q] EXCEPT !.claimed = now + QueueClaimTTL].due = queue[q].due
             /\ [queue[q] EXCEPT !.claimed = now + QueueClaimTTL].leased
                    = queue[q].leased
  BY <1>1, RowOf DEF QueueItem
<1>3. queue' \in [Permit -> QueueItem]
  BY <1>1, <1>2, RowOf DEF ClaimDue
<1>4. \A q \in Permit : /\ queue'[q].present <=> queue[q].present
                        /\ queue'[q].due = queue[q].due
                        /\ queue'[q].leased = queue[q].leased
  BY <1>1, <1>2 DEF ClaimDue
<1>5. LiveHoldsPlace'
  BY <1>1, <1>4 DEF LiveHoldsPlace, Live
<1>6. QED
  BY <1>1, <1>3, <1>4, <1>5 DEF AdmissionInv, ReservationTypeOK

-----------------------------------------------------------------------------
(* The inductive invariant *)

\* What a token says stays true for ever, however late it is delivered.
TokensTrue(p) ==
    /\ Signed(p, "permit") => reservation[p].status # "none"
    /\ Signed(p, "lease") => lease[p].state # "none"
    /\ Signed(p, "activation") => reservation[p].leased
    /\ Signed(p, "completed") \/ Signed(p, "rejected") =>
           lease[p].state = "TERMINAL"
    /\ Signed(p, "cancelled") => lease[p].state = "CANCELLED"

\* Where the lease of a reservation can be, and the other way round.
PlanesAgree(p) ==
    /\ reservation[p].status \in {"none", "RESERVED"} => ~reservation[p].leased
    /\ reservation[p].status = "REDEEMED" =>
           reservation[p].leased /\ lease[p].state # "none"
    /\ reservation[p].status = "SETTLED" => lease[p].state = "TERMINAL"
    /\ reservation[p].status = "RELEASED" /\ reservation[p].leased =>
           lease[p].state = "CANCELLED"
    /\ lease[p].state = "RUNNING" => reservation[p].status = "REDEEMED"
    /\ lease[p].state = "TERMINAL" =>
           reservation[p].status \in {"REDEEMED", "SETTLED"}

\* Only the winner of the claim calls the provider, and only once.
RunnerClaimed(p) ==
    /\ runner[p] # "none" \/ calls[p] > 0 =>
           lease[p].state \in {"RUNNING", "TERMINAL"}
    /\ runner[p] = "claimed" => calls[p] = 0
    /\ calls[p] <= 1

PermitInv(p) == TokensTrue(p) /\ PlanesAgree(p) /\ RunnerClaimed(p)

MessagesTypeOK ==
    /\ tokens \subseteq Permit \X TokenKind
    /\ runner \in [Permit -> {"none", "claimed", "calling"}]
    /\ calls \in [Permit -> Nat]

ProtocolInv ==
    /\ FenceInv
    /\ AdmissionInv
    /\ MessagesTypeOK
    /\ \A p \in Permit : PermitInv(p)

-----------------------------------------------------------------------------
(* Frames *)

\* A step that concerns one permit leaves what belongs to the others alone.
Concerns(p) ==
    \A q \in Permit \ {p} :
        /\ lease'[q] = lease[q]
        /\ reservation'[q] = reservation[q]
        /\ runner'[q] = runner[q]
        /\ calls'[q] = calls[q]
        /\ \A k \in TokenKind : Signed(q, k)' <=> Signed(q, k)

LEMMA PermitInvFrame ==
    ASSUME \A q \in Permit : PermitInv(q), NEW p \in Permit, Concerns(p),
           PermitInv(p)'
    PROVE  \A q \in Permit : PermitInv(q)'
<1> SUFFICES ASSUME NEW q \in Permit, q # p PROVE PermitInv(q)'
  OBVIOUS
<1>1. /\ lease'[q] = lease[q] /\ reservation'[q] = reservation[q]
      /\ runner'[q] = runner[q] /\ calls'[q] = calls[q]
      /\ \A k \in TokenKind : Signed(q, k)' <=> Signed(q, k)
  BY DEF Concerns
<1>2. /\ Signed(q, "permit")' <=> Signed(q, "permit")
      /\ Signed(q, "lease")' <=> Signed(q, "lease")
      /\ Signed(q, "activation")' <=> Signed(q, "activation")
      /\ Signed(q, "completed")' <=> Signed(q, "completed")
      /\ Signed(q, "rejected")' <=> Signed(q, "rejected")
      /\ Signed(q, "cancelled")' <=> Signed(q, "cancelled")
  BY <1>1 DEF TokenKind
<1>3. TokensTrue(q) /\ PlanesAgree(q) /\ RunnerClaimed(q)
  BY DEF PermitInv
<1>4. TokensTrue(q)'
  BY <1>1, <1>2, <1>3 DEF TokensTrue
<1>5. PlanesAgree(q)' /\ RunnerClaimed(q)'
  BY <1>1, <1>3 DEF PlanesAgree, RunnerClaimed
<1>6. QED
  BY <1>4, <1>5 DEF PermitInv

\* Signing adds one token, of one permit.
LEMMA SignsOne ==
    ASSUME tokens \subseteq Permit \X TokenKind, NEW p \in Permit,
           NEW kind \in TokenKind, Signs(p, kind)
    PROVE  /\ tokens' \subseteq Permit \X TokenKind
           /\ \A k : Signed(p, k)' <=> Signed(p, k) \/ k = kind
           /\ \A q \in Permit \ {p} : \A k : Signed(q, k)' <=> Signed(q, k)
  BY DEF Signs, Signed

\* A step may write the runner and the calls of one permit.
RunnerRow(p) ==
    /\ runner' \in [Permit -> {"none", "claimed", "calling"}]
    /\ calls' \in [Permit -> Nat]
    /\ \A q \in Permit \ {p} : runner'[q] = runner[q] /\ calls'[q] = calls[q]

LEMMA RunnerWritten ==
    ASSUME MessagesTypeOK, NEW p \in Permit,
           NEW s \in {"none", "claimed", "calling"}, NEW n \in Nat,
           runner' = [runner EXCEPT ![p] = s],
           calls' = [calls EXCEPT ![p] = n]
    PROVE  RunnerRow(p) /\ runner'[p] = s /\ calls'[p] = n
  BY DEF MessagesTypeOK, RunnerRow

LEMMA RunnerOf ==
    ASSUME MessagesTypeOK, NEW p \in Permit
    PROVE  /\ runner[p] \in {"none", "claimed", "calling"}
           /\ runner = [runner EXCEPT ![p] = runner[p]]
           /\ calls[p] \in Nat
           /\ calls = [calls EXCEPT ![p] = calls[p]]
  BY DEF MessagesTypeOK

LEMMA RunnerSame ==
    ASSUME MessagesTypeOK, NEW p \in Permit, UNCHANGED Running
    PROVE  RunnerRow(p)
  BY DEF MessagesTypeOK, RunnerRow, Running

-----------------------------------------------------------------------------
(* How the operations of the execution plane move a lease *)

LeaseMoves(p, old, new) == lease[p].state = old /\ lease'[p].state = new

\* An operation of the execution plane keeps its invariant and the other rows.
LEMMA FenceFrame ==
    ASSUME FenceInv, NEW p \in Permit, RowStep(p), UNCHANGED now
    PROVE  /\ FenceInv'
           /\ \A q \in Permit \ {p} : lease'[q] = lease[q]
<1>1. FenceTypeOK /\ now' \in Nat
  BY DEF FenceInv, FenceTypeOK
<1>2. FenceInv'
  BY <1>1, RowStepInv
<1>3. PICK l \in Lease : lease' = [lease EXCEPT ![p] = l]
  BY DEF RowStep
<1>4. QED
  BY <1>1, <1>2, <1>3 DEF FenceTypeOK

LEMMA PrepareMoves ==
    ASSUME FenceTypeOK, NEW p \in Permit, NEW e \in Nat, NEW r,
           PrepareLease(p, e, r)
    PROVE  /\ UNCHANGED lease \/ LeaseMoves(p, "none", "LEASED")
           /\ r \in {"leased", "existing"} => lease'[p].state # "none"
           /\ r = "PERMIT_EXPIRED" => UNCHANGED lease
  BY DEF FenceTypeOK, PrepareLease, LeaseMoves

LEMMA LeaseStateSet ==
    ASSUME FenceTypeOK, NEW p \in Permit, NEW s \in LeaseState,
           lease' = [lease EXCEPT ![p].state = s]
    PROVE  lease'[p].state = s
<1>1. lease'[p] = [lease[p] EXCEPT !.state = s]
  BY DEF FenceTypeOK
<1>2. lease[p] \in Lease
  BY RowsOf
<1>3. [lease[p] EXCEPT !.state = s].state = s
  BY <1>2, LeaseRow
<1>4. QED
  BY <1>1, <1>3

LEMMA ClaimMoves ==
    ASSUME FenceTypeOK, NEW p \in Permit, NEW e, NEW r, ClaimAttempt(p, e, r)
    PROVE  /\ r = "claimed" => LeaseMoves(p, "LEASED", "RUNNING")
           /\ r # "claimed" => UNCHANGED lease
<1>1. "RUNNING" \in LeaseState
  BY DEF LeaseState
<1>2. QED
  BY <1>1, LeaseStateSet DEF ClaimAttempt, Claimable, LeaseMoves

LEMMA CancelMoves ==
    ASSUME FenceTypeOK, NEW p \in Permit, NEW r, CancelExpired(p, r)
    PROVE  /\ UNCHANGED lease \/ LeaseMoves(p, "LEASED", "CANCELLED")
           /\ r = "cancelled" => lease'[p].state = "CANCELLED"
<1>1. "CANCELLED" \in LeaseState
  BY DEF LeaseState
<1>2. CASE lease' = [lease EXCEPT ![p].state = "CANCELLED"] /\ lease[p].state = "LEASED"
  BY <1>1, <1>2, LeaseStateSet DEF LeaseMoves
<1>3. CASE UNCHANGED lease /\ r = "cancelled" /\ lease[p].state # "LEASED"
  <2>1. r = LeaseReply(lease[p].state)
    BY <1>3 DEF CancelExpired, Stale
  <2>2. lease[p] \in Lease
    BY RowsOf
  <2>3. lease[p].state \in LeaseState
    BY <2>2 DEF Lease
  <2>4. QED
    BY <1>3, <2>1, <2>3 DEF LeaseReply, LeaseState
<1>4. CASE UNCHANGED lease /\ r # "cancelled"
  BY <1>4
<1>5. \/ /\ lease' = [lease EXCEPT ![p].state = "CANCELLED"]
         /\ lease[p].state = "LEASED"
      \/ /\ UNCHANGED lease
         /\ r = "cancelled" => lease[p].state # "LEASED"
  BY DEF CancelExpired, Stale
<1>6. QED
  BY <1>2, <1>3, <1>4, <1>5

LEMMA TerminalMoves ==
    ASSUME FenceTypeOK, NEW p \in Permit,
           \/ Finalize(p, "finalized")
           \/ \E code \in RejectionCode : Reject(p, code, "rejected")
    PROVE  LeaseMoves(p, "RUNNING", "TERMINAL")
<1>1. "TERMINAL" \in LeaseState
  BY DEF LeaseState
<1>2. QED
  BY <1>1, LeaseStateSet DEF Finalize, Reject, Held, LeaseMoves

-----------------------------------------------------------------------------
(* Context keeps the invariant *)

SignsAtMostOne(p) ==
    UNCHANGED tokens \/ \E kind \in TokenKind : Signs(p, kind)

LEMMA SignedFrame ==
    ASSUME MessagesTypeOK, NEW p \in Permit, SignsAtMostOne(p)
    PROVE  /\ tokens' \subseteq Permit \X TokenKind
           /\ \A q \in Permit \ {p}, k \in TokenKind :
                  Signed(q, k)' <=> Signed(q, k)
<1>1. CASE UNCHANGED tokens
  BY <1>1 DEF MessagesTypeOK, Signed
<1>2. ASSUME NEW kind \in TokenKind, Signs(p, kind)
      PROVE  /\ tokens' \subseteq Permit \X TokenKind
             /\ \A q \in Permit \ {p}, k \in TokenKind :
                    Signed(q, k)' <=> Signed(q, k)
  BY <1>2, SignsOne DEF MessagesTypeOK
<1>3. QED
  BY <1>1, <1>2 DEF SignsAtMostOne

LEMMA FenceSame ==
    ASSUME FenceInv, UNCHANGED FenceRows, now' \in Nat
    PROVE  FenceInv'
  BY DEF FenceRows, FenceInv, FenceTypeOK, TerminalEvidence, ClaimedOrNeverRun

\* A step of Context for one permit has only its own row left to check.
LEMMA ContextFrame ==
    ASSUME ProtocolInv, NEW p \in Permit, UNCHANGED <<FenceRows, Running, now>>,
           AdmissionInv', OthersKept(p), SignsAtMostOne(p), PermitInv(p)'
    PROVE  ProtocolInv'
<1>1. FenceInv'
  <2>1. now' \in Nat
    BY DEF ProtocolInv, AdmissionInv
  <2>2. QED
    BY <2>1, FenceSame DEF ProtocolInv
<1>2. tokens' \subseteq Permit \X TokenKind
  BY SignedFrame DEF ProtocolInv
<1>3. MessagesTypeOK'
  BY <1>2 DEF ProtocolInv, MessagesTypeOK, Running
<1>4. Concerns(p)
  <2>1. \A q \in Permit \ {p}, k \in TokenKind : Signed(q, k)' <=> Signed(q, k)
    BY SignedFrame DEF ProtocolInv
  <2>2. QED
    BY <2>1 DEF Concerns, FenceRows, Running, OthersKept
<1>5. QED
  BY <1>1, <1>3, <1>4, PermitInvFrame DEF ProtocolInv

LEMMA ContextPrepareKeeps ==
    ASSUME ProtocolInv, NEW p \in Permit, ContextPrepare(p), UNCHANGED now
    PROVE  ProtocolInv'
<1>1. /\ AdmissionInv' /\ OthersKept(p)
      /\ Moved(p, "none", "RESERVED") /\ ~reservation'[p].leased
  BY ReserveMoves DEF ProtocolInv, ContextPrepare
<1>2. /\ SignsAtMostOne(p)
      /\ \A k : Signed(p, k)' <=> Signed(p, k) \/ k = "permit"
  BY SignsOne DEF ProtocolInv, MessagesTypeOK, ContextPrepare, SignsAtMostOne, TokenKind
<1>3. TokensTrue(p) /\ PlanesAgree(p) /\ RunnerClaimed(p)
  BY DEF ProtocolInv, PermitInv
<1>4. UNCHANGED <<lease, runner, calls>>
  BY DEF ContextPrepare, FenceRows, Running
<1>5. TokensTrue(p)'
  BY <1>1, <1>2, <1>3, <1>4 DEF TokensTrue, PlanesAgree, Moved
<1>6. PlanesAgree(p)' /\ RunnerClaimed(p)'
  BY <1>1, <1>3, <1>4 DEF PlanesAgree, RunnerClaimed, Moved
<1>7. UNCHANGED <<FenceRows, Running, now>>
  BY DEF ContextPrepare
<1>8. QED
  BY <1>1, <1>2, <1>5, <1>6, <1>7, ContextFrame DEF PermitInv

LEMMA ContextActivateKeeps ==
    ASSUME ProtocolInv, NEW p \in Permit, NEW reply, ContextActivate(p, reply),
           UNCHANGED now
    PROVE  ProtocolInv'
<1>1. TokensTrue(p) /\ PlanesAgree(p) /\ RunnerClaimed(p)
  BY DEF ProtocolInv, PermitInv
<1>2. UNCHANGED <<lease, runner, calls>> /\ lease[p].state # "none"
  BY <1>1 DEF ContextActivate, FenceRows, Running, TokensTrue
<1>3. PICK r \in {"activated", "rejected"} :
        /\ Activate(p, lease[p].expires, r)
        /\ \/ UNCHANGED tokens
           \/ r = "activated" /\ Signs(p, "activation")
  BY Zenon DEF ContextActivate
<1>4. lease[p].expires \in Nat
  <2>1. lease[p] \in Lease
    BY RowsOf DEF ProtocolInv, FenceInv
  <2>2. QED
    BY <2>1 DEF Lease
<1>5. /\ AdmissionInv' /\ OthersKept(p)
      /\ \/ UNCHANGED reservation
         \/ Moved(p, "RESERVED", "REDEEMED") /\ reservation'[p].leased
      /\ r = "activated" => reservation'[p].status = "REDEEMED"
  BY <1>3, <1>4, ActivateMoves DEF ProtocolInv
<1>6. PlanesAgree(p)' /\ RunnerClaimed(p)'
  BY <1>1, <1>2, <1>5 DEF PlanesAgree, RunnerClaimed, Moved
<1>7. CASE UNCHANGED tokens
  <2>1. TokensTrue(p)'
    BY <1>1, <1>2, <1>5, <1>7 DEF TokensTrue, PlanesAgree, Signed, Moved
  <2>2. QED
    BY <1>5, <1>6, <1>7, <2>1, ContextFrame
       DEF PermitInv, SignsAtMostOne, ContextActivate
<1>8. CASE r = "activated" /\ Signs(p, "activation")
  <2>1. /\ SignsAtMostOne(p)
        /\ \A k : Signed(p, k)' <=> Signed(p, k) \/ k = "activation"
    BY <1>8, SignsOne DEF ProtocolInv, MessagesTypeOK, SignsAtMostOne, TokenKind
  <2>2. TokensTrue(p)'
    BY <1>1, <1>2, <1>5, <1>6, <1>8, <2>1 DEF TokensTrue, PlanesAgree, Moved
  <2>3. QED
    BY <1>5, <1>6, <2>1, <2>2, ContextFrame DEF PermitInv, ContextActivate
<1>9. QED
  BY <1>3, <1>7, <1>8

LEMMA ContextSettleKeeps ==
    ASSUME ProtocolInv, NEW p \in Permit, ContextSettle(p), UNCHANGED now
    PROVE  ProtocolInv'
<1>1. TokensTrue(p) /\ PlanesAgree(p) /\ RunnerClaimed(p)
  BY DEF ProtocolInv, PermitInv
<1>2. /\ UNCHANGED <<lease, runner, calls, tokens>>
      /\ lease[p].state = "TERMINAL"
  BY <1>1 DEF ContextSettle, FenceRows, Running, TokensTrue
<1>3. /\ AdmissionInv' /\ OthersKept(p)
      /\ \/ UNCHANGED reservation
         \/ /\ Moved(p, "REDEEMED", "SETTLED")
            /\ reservation'[p].leased = reservation[p].leased
  BY SettleMoves DEF ProtocolInv, ContextSettle
<1>4. TokensTrue(p)'
  BY <1>1, <1>2, <1>3 DEF TokensTrue, Signed, Moved
<1>5. PlanesAgree(p)' /\ RunnerClaimed(p)'
  BY <1>1, <1>2, <1>3 DEF PlanesAgree, RunnerClaimed, Moved
<1>6. QED
  BY <1>2, <1>3, <1>4, <1>5, ContextFrame
     DEF PermitInv, SignsAtMostOne, ContextSettle

LEMMA ContextReleaseKeeps ==
    ASSUME ProtocolInv, NEW p \in Permit, ContextRelease(p), UNCHANGED now
    PROVE  ProtocolInv'
<1>1. TokensTrue(p) /\ PlanesAgree(p) /\ RunnerClaimed(p)
  BY DEF ProtocolInv, PermitInv
<1>2. UNCHANGED <<lease, runner, calls, tokens>>
  BY DEF ContextRelease, FenceRows, Running
<1>3. PICK outcome \in {"no-lease", "cancelled"}, r \in {"released", "rejected"} :
        Signed(p, outcome) /\ Release(p, outcome, r)
  BY DEF ContextRelease
<1>4. /\ AdmissionInv' /\ OthersKept(p)
      /\ \/ UNCHANGED reservation
         \/ /\ outcome = "cancelled"
            /\ Moved(p, "REDEEMED", "RELEASED")
            /\ reservation'[p].leased = reservation[p].leased
         \/ /\ Moved(p, "RESERVED", "RELEASED")
            /\ ~reservation'[p].leased
  BY <1>3, ReleaseMoves DEF ProtocolInv
<1>5. TokensTrue(p)'
  BY <1>1, <1>2, <1>4 DEF TokensTrue, PlanesAgree, Signed, Moved
<1>6. outcome = "cancelled" => lease[p].state = "CANCELLED"
  BY <1>1, <1>3 DEF TokensTrue
<1>7. PlanesAgree(p)' /\ RunnerClaimed(p)'
  BY <1>1, <1>2, <1>4, <1>6 DEF PlanesAgree, RunnerClaimed, Moved
<1>8. QED
  BY <1>2, <1>4, <1>5, <1>7, ContextFrame
     DEF PermitInv, SignsAtMostOne, ContextRelease

LEMMA ContextListKeeps ==
    ASSUME ProtocolInv, ContextListCandidates, UNCHANGED now
    PROVE  ProtocolInv'
<1>1. AdmissionInv' /\ UNCHANGED reservation
  BY ClaimDueMoves DEF ProtocolInv, ContextListCandidates
<1>2. FenceInv' /\ MessagesTypeOK'
  <2>1. now' \in Nat
    BY DEF ProtocolInv, AdmissionInv
  <2>2. QED
    BY <2>1, FenceSame
       DEF ProtocolInv, ContextListCandidates, MessagesTypeOK, Running
<1>3. \A p \in Permit : PermitInv(p)'
  BY <1>1 DEF ProtocolInv, ContextListCandidates, FenceRows, Running, PermitInv,
              TokensTrue, PlanesAgree, RunnerClaimed, Signed
<1>4. QED
  BY <1>1, <1>2, <1>3 DEF ProtocolInv

-----------------------------------------------------------------------------
(* Generation keeps the invariant *)

\* A step of Generation for one permit has only its own row left to check.
LEMMA GenerationFrame ==
    ASSUME ProtocolInv, NEW p \in Permit, RowStep(p),
           UNCHANGED <<reservationVars, now>>, SignsAtMostOne(p), RunnerRow(p),
           PermitInv(p)'
    PROVE  ProtocolInv'
<1>1. FenceInv' /\ \A q \in Permit \ {p} : lease'[q] = lease[q]
  BY FenceFrame DEF ProtocolInv
<1>2. AdmissionInv'
  BY RowsSame DEF ProtocolInv
<1>3. /\ tokens' \subseteq Permit \X TokenKind
      /\ \A q \in Permit \ {p}, k \in TokenKind : Signed(q, k)' <=> Signed(q, k)
  BY SignedFrame DEF ProtocolInv
<1>4. MessagesTypeOK'
  BY <1>3 DEF MessagesTypeOK, RunnerRow
<1>5. Concerns(p)
  BY <1>1, <1>3 DEF Concerns, RunnerRow, reservationVars
<1>6. QED
  BY <1>1, <1>2, <1>4, <1>5, PermitInvFrame DEF ProtocolInv

LEMMA GenerationPrepareKeeps ==
    ASSUME ProtocolInv, NEW p \in Permit, NEW reply,
           GenerationPrepare(p, reply), UNCHANGED now
    PROVE  ProtocolInv'
<1>1. TokensTrue(p) /\ PlanesAgree(p) /\ RunnerClaimed(p) /\ FenceTypeOK
  BY DEF ProtocolInv, PermitInv, FenceInv
<1>2. /\ UNCHANGED <<reservation, runner, calls>>
      /\ reservation[p].status # "none"
  BY <1>1 DEF GenerationPrepare, reservationVars, Running, TokensTrue
<1>3. reservation[p].expires \in Nat
  <2>1. reservation[p] \in Reservation
    BY RowOf DEF ProtocolInv, AdmissionInv
  <2>2. QED
    BY <2>1 DEF Reservation
<1>4. PICK r \in {"leased", "existing", "PERMIT_EXPIRED"} :
        /\ PrepareLease(p, reservation[p].expires, r)
        /\ \/ r # "PERMIT_EXPIRED" /\ Signs(p, "lease")
           \/ UNCHANGED tokens
  BY Zenon DEF GenerationPrepare
<1>5. RowStep(p)
  BY <1>1, <1>3, <1>4, PrepareRow
<1>6. /\ UNCHANGED lease \/ LeaseMoves(p, "none", "LEASED")
      /\ r # "PERMIT_EXPIRED" => lease'[p].state # "none"
  BY <1>1, <1>3, <1>4, PrepareMoves
<1>7. PlanesAgree(p)' /\ RunnerClaimed(p)'
  BY <1>1, <1>2, <1>6 DEF PlanesAgree, RunnerClaimed, LeaseMoves
<1>8. SignsAtMostOne(p) /\ TokensTrue(p)'
  <2>1. CASE UNCHANGED tokens
    BY <1>1, <1>2, <1>6, <2>1
       DEF SignsAtMostOne, TokensTrue, Signed, LeaseMoves
  <2>2. CASE r # "PERMIT_EXPIRED" /\ Signs(p, "lease")
    <3>1. /\ SignsAtMostOne(p)
          /\ \A k : Signed(p, k)' <=> Signed(p, k) \/ k = "lease"
      BY <2>2, SignsOne
         DEF ProtocolInv, MessagesTypeOK, SignsAtMostOne, TokenKind
    <3>2. QED
      BY <1>1, <1>2, <1>6, <2>2, <3>1 DEF TokensTrue, LeaseMoves
  <2>3. QED
    BY <1>4, <2>1, <2>2
<1>9. RunnerRow(p)
  BY RunnerSame DEF ProtocolInv, GenerationPrepare
<1>10. QED
  BY <1>5, <1>7, <1>8, <1>9, GenerationFrame DEF PermitInv, GenerationPrepare

\* What a receipt of Generation says of the lease it is signed over.
Says(p, kind) ==
    CASE kind \in {"completed", "rejected"} -> lease'[p].state = "TERMINAL"
      [] kind = "cancelled" -> lease'[p].state = "CANCELLED"
      [] OTHER -> kind = "no-lease"

\* A lease that ends, or does not move, keeps the invariant of its permit when
\* what is signed is what the new lease says.
LEMMA LeaseEnds ==
    ASSUME ProtocolInv, NEW p \in Permit, RowStep(p),
           UNCHANGED <<reservationVars, now>>,
           \/ UNCHANGED lease
           \/ LeaseMoves(p, "LEASED", "CANCELLED")
           \/ LeaseMoves(p, "RUNNING", "TERMINAL"),
           \/ UNCHANGED tokens
           \/ \E kind \in TokenKind : Signs(p, kind) /\ Says(p, kind),
           RunnerRow(p), UNCHANGED calls,
           runner'[p] \in {runner[p], "none"}
    PROVE  ProtocolInv'
<1>1. TokensTrue(p) /\ PlanesAgree(p) /\ RunnerClaimed(p)
  BY DEF ProtocolInv, PermitInv
<1>2. UNCHANGED reservation
  BY DEF reservationVars
<1>3. PlanesAgree(p)'
  BY <1>1, <1>2 DEF PlanesAgree, LeaseMoves
<1>4. RunnerClaimed(p)'
  BY <1>1 DEF RunnerClaimed, LeaseMoves
<1>5. SignsAtMostOne(p) /\ TokensTrue(p)'
  <2>1. CASE UNCHANGED tokens
    BY <1>1, <1>2, <2>1 DEF SignsAtMostOne, TokensTrue, Signed, LeaseMoves
  <2>2. ASSUME NEW kind \in TokenKind, Signs(p, kind), Says(p, kind)
        PROVE  SignsAtMostOne(p) /\ TokensTrue(p)'
    <3>1. \A k : Signed(p, k)' <=> Signed(p, k) \/ k = kind
      BY <2>2, SignsOne DEF ProtocolInv, MessagesTypeOK
    <3>2. TokensTrue(p)'
      BY <1>1, <1>2, <2>2, <3>1 DEF TokensTrue, LeaseMoves, Says
    <3>3. QED
      BY <2>2, <3>2 DEF SignsAtMostOne
  <2>3. QED
    BY <2>1, <2>2
<1>6. QED
  BY <1>3, <1>4, <1>5, GenerationFrame DEF PermitInv

LEMMA OutcomeKind ==
    ASSUME NEW row PROVE Outcome(row) \in {"completed", "rejected"}
  BY DEF Outcome

LEMMA GenerationExecuteKeeps ==
    ASSUME ProtocolInv, NEW p \in Permit, GenerationExecute(p), UNCHANGED now
    PROVE  ProtocolInv'
<1>1. /\ TokensTrue(p) /\ PlanesAgree(p) /\ RunnerClaimed(p)
      /\ FenceTypeOK /\ MessagesTypeOK
  BY DEF ProtocolInv, PermitInv, FenceInv
<1>2. /\ UNCHANGED <<reservation, tokens, calls>> /\ reservation[p].leased
      /\ SignsAtMostOne(p)
  BY <1>1 DEF GenerationExecute, reservationVars, TokensTrue, SignsAtMostOne
<1>3. reservation[p].activation \in Nat
  <2>1. reservation[p] \in Reservation
    BY RowOf DEF ProtocolInv, AdmissionInv
  <2>2. QED
    BY <2>1 DEF Reservation
<1>4. ASSUME NEW r, ClaimAttempt(p, reservation[p].activation, r)
      PROVE  RowStep(p)
  BY <1>1, <1>3, <1>4, ClaimRow
<1>5. CASE /\ ClaimAttempt(p, reservation[p].activation, "claimed")
           /\ runner' = [runner EXCEPT ![p] = "claimed"]
  <2>1. LeaseMoves(p, "LEASED", "RUNNING")
    BY <1>1, <1>5, ClaimMoves
  <2>2. RunnerRow(p) /\ runner'[p] = "claimed"
    BY <1>1, <1>2, <1>5, RunnerOf, RunnerWritten
  <2>3. TokensTrue(p)'
    BY <1>1, <1>2, <2>1 DEF TokensTrue, Signed, LeaseMoves
  <2>4. PlanesAgree(p)'
    <3>1. reservation[p].status = "REDEEMED"
      <4>1. reservation[p] \in Reservation
        BY RowOf DEF ProtocolInv, AdmissionInv
      <4>2. reservation[p].status \in ReservationStatus
        BY <4>1 DEF Reservation
      <4>3. QED
        BY <1>1, <1>2, <2>1, <4>2 DEF PlanesAgree, LeaseMoves, ReservationStatus
    <3>2. QED
      BY <1>1, <1>2, <2>1, <3>1 DEF PlanesAgree, LeaseMoves
  <2>5. RunnerClaimed(p)'
    <3>1. calls[p] \in Nat
      BY <1>1, RunnerOf
    <3>2. calls[p] = 0
      BY <1>1, <2>1, <3>1 DEF RunnerClaimed, LeaseMoves
    <3>3. QED
      BY <1>1, <1>2, <2>1, <2>2, <3>2 DEF RunnerClaimed, LeaseMoves
  <2>6. QED
    BY <1>2, <1>4, <1>5, <2>2, <2>3, <2>4, <2>5, GenerationFrame
       DEF PermitInv, GenerationExecute
<1>6. ASSUME NEW r \in {"existing", "EXECUTION_NOT_CLAIMABLE"},
             ClaimAttempt(p, reservation[p].activation, r), UNCHANGED runner
      PROVE  ProtocolInv'
  <2>1. UNCHANGED lease
    BY <1>1, <1>6, ClaimMoves
  <2>2. RunnerRow(p)
    BY <1>1, <1>2, <1>6, RunnerSame DEF Running
  <2>3. QED
    BY <1>2, <1>4, <1>6, <2>1, <2>2, LeaseEnds DEF GenerationExecute
<1>7. QED
  BY <1>5, <1>6 DEF GenerationExecute

LEMMA CallProviderKeeps ==
    ASSUME ProtocolInv, NEW p \in Permit, CallProvider(p), UNCHANGED now
    PROVE  ProtocolInv'
<1>1. /\ TokensTrue(p) /\ PlanesAgree(p) /\ RunnerClaimed(p)
      /\ FenceTypeOK /\ MessagesTypeOK
  BY DEF ProtocolInv, PermitInv, FenceInv
<1>2. /\ UNCHANGED <<reservation, tokens, lease, attempt, generation>>
      /\ SignsAtMostOne(p)
  BY DEF CallProvider, FenceRows, reservationVars, SignsAtMostOne
<1>3. RowStep(p)
  BY <1>1, <1>2, RowStepSame
<1>4. calls[p] = 0 /\ calls' = [calls EXCEPT ![p] = 1]
  <2>1. calls[p] = 0 /\ calls' = [calls EXCEPT ![p] = calls[p] + 1]
    BY <1>1 DEF CallProvider, RunnerClaimed
  <2>2. calls[p] + 1 = 1
    BY <2>1
  <2>3. QED
    BY <2>1, <2>2
<1>5. RunnerRow(p) /\ runner'[p] = "calling" /\ calls'[p] = 1
  BY <1>1, <1>4, RunnerWritten DEF CallProvider
<1>6. TokensTrue(p)' /\ PlanesAgree(p)'
  BY <1>1, <1>2 DEF TokensTrue, PlanesAgree, Signed
<1>7. RunnerClaimed(p)'
  BY <1>1, <1>2, <1>5 DEF RunnerClaimed, CallProvider
<1>8. QED
  BY <1>2, <1>3, <1>5, <1>6, <1>7, GenerationFrame DEF PermitInv, CallProvider

LEMMA RecordKeeps ==
    ASSUME ProtocolInv, NEW p \in Permit, Record(p), UNCHANGED now
    PROVE  ProtocolInv'
<1>1. FenceTypeOK /\ MessagesTypeOK
  BY DEF ProtocolInv, FenceInv
<1>2. UNCHANGED <<reservationVars, now>> /\ UNCHANGED calls
  BY DEF Record
<1>3. RunnerRow(p) /\ runner'[p] = "none"
  BY <1>1, <1>2, RunnerOf, RunnerWritten DEF Record
<1>4. ASSUME NEW result \in Result, NEW r, Checkpoint(p, result, r),
             UNCHANGED tokens
      PROVE  ProtocolInv'
  BY <1>1, <1>2, <1>3, <1>4, CheckpointRow, LeaseEnds DEF Checkpoint
<1>5. ASSUME NEW r, MarkIndeterminate(p, r), UNCHANGED tokens
      PROVE  ProtocolInv'
  BY <1>1, <1>2, <1>3, <1>5, MarkRow, LeaseEnds DEF MarkIndeterminate
<1>6. ASSUME NEW code \in RejectionCode, Reject(p, code, "rejected"),
             Signs(p, "rejected")
      PROVE  ProtocolInv'
  <2>1. RowStep(p) /\ LeaseMoves(p, "RUNNING", "TERMINAL")
    BY <1>1, <1>6, RejectRow, TerminalMoves
  <2>2. Says(p, "rejected") /\ "rejected" \in TokenKind
    BY <2>1 DEF Says, LeaseMoves, TokenKind
  <2>3. QED
    BY <1>2, <1>3, <1>6, <2>1, <2>2, LeaseEnds
<1>7. ASSUME NEW code \in RejectionCode, Reject(p, code, "not-rejectable"),
             UNCHANGED tokens
      PROVE  ProtocolInv'
  <2>1. RowStep(p) /\ UNCHANGED lease
    BY <1>1, <1>7, RejectRow DEF Reject
  <2>2. QED
    BY <1>2, <1>3, <1>7, <2>1, LeaseEnds
<1>8. QED
  BY <1>4, <1>5, <1>6, <1>7 DEF Record

LEMMA RunnerDiesKeeps ==
    ASSUME ProtocolInv, NEW p \in Permit, RunnerDies(p), UNCHANGED now
    PROVE  ProtocolInv'
<1>1. FenceTypeOK /\ MessagesTypeOK
  BY DEF ProtocolInv, FenceInv
<1>2. UNCHANGED <<lease, attempt, generation, tokens, calls>>
  BY DEF RunnerDies, FenceRows
<1>3. RowStep(p)
  BY <1>1, <1>2, RowStepSame
<1>4. RunnerRow(p) /\ runner'[p] = "none"
  BY <1>1, <1>2, RunnerOf, RunnerWritten DEF RunnerDies
<1>5. QED
  BY <1>2, <1>3, <1>4, LeaseEnds DEF RunnerDies

LEMMA CompleteKeeps ==
    ASSUME ProtocolInv, NEW p \in Permit, Complete(p), UNCHANGED now
    PROVE  ProtocolInv'
<1>1. FenceTypeOK /\ MessagesTypeOK
  BY DEF ProtocolInv, FenceInv
<1>2. RowStep(p) /\ LeaseMoves(p, "RUNNING", "TERMINAL")
  BY <1>1, FinalizeRow, TerminalMoves DEF Complete
<1>3. PICK kind \in {"completed", "rejected"} : Signs(p, kind)
  BY OutcomeKind DEF Complete
<1>4. kind \in TokenKind /\ Says(p, kind)
  BY <1>2 DEF TokenKind, Says, LeaseMoves
<1>5. RunnerRow(p)
  BY <1>1, RunnerSame DEF Complete
<1>6. QED
  BY <1>2, <1>3, <1>4, <1>5, LeaseEnds DEF Complete, Running

LEMMA GenerationStatusKeeps ==
    ASSUME ProtocolInv, NEW p \in Permit, GenerationStatus(p), UNCHANGED now
    PROVE  ProtocolInv'
<1>1. FenceTypeOK /\ MessagesTypeOK
  BY DEF ProtocolInv, FenceInv
<1>2. RunnerRow(p) /\ UNCHANGED <<runner, calls, reservationVars, now>>
  BY <1>1, RunnerSame DEF GenerationStatus, SignTerminal, Running
<1>3. CASE SignTerminal(p)
  <2>1. PICK kind \in {"completed", "rejected"} : Signs(p, kind)
    BY <1>3, OutcomeKind DEF SignTerminal
  <2>2. RowStep(p) /\ UNCHANGED lease
    BY <1>1, <1>3, RowStepSame DEF SignTerminal, FenceRows
  <2>3. kind \in TokenKind /\ Says(p, kind)
    BY <1>3, <2>2 DEF TokenKind, Says, SignTerminal, Terminal
  <2>4. QED
    BY <1>2, <2>1, <2>2, <2>3, LeaseEnds
<1>4. ASSUME NEW r, LeaseStatus(p, r),
             UNCHANGED tokens \/ Signs(p, "no-lease")
      PROVE  ProtocolInv'
  <2>1. RowStep(p) /\ UNCHANGED lease
    BY <1>1, <1>4, ConvergeOnlyRow DEF LeaseStatus
  <2>2. "no-lease" \in TokenKind /\ Says(p, "no-lease")
    BY DEF TokenKind, Says
  <2>3. QED
    BY <1>2, <1>4, <2>1, <2>2, LeaseEnds
<1>5. QED
  BY <1>3, <1>4 DEF GenerationStatus

LEMMA GenerationCancelKeeps ==
    ASSUME ProtocolInv, NEW p \in Permit, GenerationCancel(p), UNCHANGED now
    PROVE  ProtocolInv'
<1>1. FenceTypeOK /\ MessagesTypeOK
  BY DEF ProtocolInv, FenceInv
<1>2. RunnerRow(p) /\ UNCHANGED <<runner, calls, reservationVars, now>>
  BY <1>1, RunnerSame DEF GenerationCancel, Running
<1>3. PICK r \in CancelReply : /\ CancelExpired(p, r)
                               /\ \/ r = "cancelled" /\ Signs(p, "cancelled")
                                  \/ UNCHANGED tokens
  BY DEF GenerationCancel, CancelReply, StatusReply
<1>4. /\ RowStep(p)
      /\ UNCHANGED lease \/ LeaseMoves(p, "LEASED", "CANCELLED")
      /\ r = "cancelled" => lease'[p].state = "CANCELLED"
  BY <1>1, <1>3, CancelRow, CancelMoves
<1>5. r = "cancelled" => Says(p, "cancelled") /\ "cancelled" \in TokenKind
  BY <1>4 DEF Says, TokenKind
<1>6. QED
  BY <1>2, <1>3, <1>4, <1>5, LeaseEnds

-----------------------------------------------------------------------------
(* The theorems *)

LEMMA ProtocolInitInv == ProtocolInit => ProtocolInv
<1> SUFFICES ASSUME ProtocolInit PROVE ProtocolInv
  OBVIOUS
<1>1. FenceInv
  BY FenceInitInv DEF ProtocolInit
<1>2. /\ NoReservation \in Reservation /\ NoReservation.status = "none"
      /\ ~NoReservation.leased
      /\ NoItem \in QueueItem /\ ~NoItem.present
  BY DEF NoReservation, Reservation, ReservationStatus, NoItem, QueueItem
<1>3. /\ reservation = [p \in Permit |-> NoReservation]
      /\ queue = [p \in Permit |-> NoItem] /\ active = {}
  BY DEF ProtocolInit, ReservationInit
<1>4. ReservationTypeOK
  BY <1>2, <1>3 DEF ReservationTypeOK
<1>5. LiveHoldsPlace
  BY <1>2, <1>3 DEF LiveHoldsPlace, Live
<1>6. AdmissionInv
  BY <1>1, <1>4, <1>5 DEF AdmissionInv, FenceInv, FenceTypeOK
<1>7. MessagesTypeOK
  BY DEF ProtocolInit, MessagesTypeOK
<1>8. ASSUME NEW p \in Permit PROVE PermitInv(p)
  <2>1. lease[p].state = "none"
    BY DEF ProtocolInit, FenceInit, NoLease
  <2>2. QED
    BY <1>2, <1>3, <2>1 DEF ProtocolInit, PermitInv, TokensTrue, PlanesAgree,
                            RunnerClaimed, Signed
<1>9. QED
  BY <1>1, <1>6, <1>7, <1>8 DEF ProtocolInv

LEMMA ProtocolTickKeeps ==
    ASSUME ProtocolInv, UNCHANGED <<FenceRows, reservationVars, tokens, Running>>,
           now' \in Nat
    PROVE  ProtocolInv'
<1>1. FenceInv'
  BY FenceSame DEF ProtocolInv
<1>2. AdmissionInv'
  BY DEF ProtocolInv, AdmissionInv, ReservationTypeOK, LiveHoldsPlace, Live,
         reservationVars
<1>3. MessagesTypeOK' /\ \A p \in Permit : PermitInv(p)'
  BY DEF ProtocolInv, MessagesTypeOK, PermitInv, TokensTrue, PlanesAgree,
         RunnerClaimed, Signed, FenceRows, reservationVars, Running
<1>4. QED
  BY <1>1, <1>2, <1>3 DEF ProtocolInv

\* Every step of either service keeps the two planes in agreement.
LEMMA ProtocolStepKeeps ==
    ASSUME ProtocolInv, [ProtocolNext]_protocolVars PROVE ProtocolInv'
<1>1. ASSUME NEW p \in Permit, ContextStep(p), UNCHANGED now PROVE ProtocolInv'
  BY <1>1, ContextPrepareKeeps, ContextActivateKeeps, ContextSettleKeeps,
     ContextReleaseKeeps DEF ContextStep
<1>2. ASSUME NEW p \in Permit, GenerationStep(p), UNCHANGED now
      PROVE  ProtocolInv'
  BY <1>2, GenerationPrepareKeeps, GenerationExecuteKeeps, CallProviderKeeps,
     RecordKeeps, RunnerDiesKeeps, CompleteKeeps, GenerationStatusKeeps,
     GenerationCancelKeeps DEF GenerationStep
<1>3. CASE ContextListCandidates /\ UNCHANGED now
  BY <1>3, ContextListKeeps
<1>4. CASE ProtocolTick
  BY <1>4, ProtocolTickKeeps
     DEF ProtocolTick, Tick, ProtocolInv, AdmissionInv
<1>5. CASE UNCHANGED protocolVars
  BY <1>5, ProtocolTickKeeps
     DEF protocolVars, fenceVars, FenceRows, Running, ProtocolInv, AdmissionInv
<1>6. QED
  BY <1>1, <1>2, <1>3, <1>4, <1>5 DEF ProtocolNext

\* The two planes agree in every state, whatever is delivered and when.
THEOREM ProtocolSafety == ProtocolSpec => []ProtocolInv
<1>1. ProtocolInit => ProtocolInv
  BY ProtocolInitInv
<1>2. ProtocolInv /\ [ProtocolNext]_protocolVars => ProtocolInv'
  BY ProtocolStepKeeps
<1>3. QED
  BY <1>1, <1>2, PTL DEF ProtocolSpec

\* The state of both planes and of the messages between them is well typed.
THEOREM ProtocolTyped == ProtocolSpec => []ProtocolTypeOK
<1>1. ProtocolInv => ProtocolTypeOK
  BY DEF ProtocolInv, FenceInv, AdmissionInv, MessagesTypeOK, ProtocolTypeOK
<1>2. QED
  BY <1>1, ProtocolSafety, PTL

\* A reservation holds the platform's one place exactly as long as it is live.
THEOREM PlaceTheorem == ProtocolSpec => []LiveHoldsPlace
<1>1. ProtocolInv => LiveHoldsPlace
  BY DEF ProtocolInv, AdmissionInv
<1>2. QED
  BY <1>1, ProtocolSafety, PTL

\* A provider is called at most once for a permit, and only under a redeemed
\* reservation.
THEOREM PaidTheorem == ProtocolSpec => []PaidOnlyIfReserved
<1>1. ProtocolInv => PaidOnlyIfReserved
  BY DEF ProtocolInv, PermitInv, PlanesAgree, RunnerClaimed, PaidOnlyIfReserved
<1>2. QED
  BY <1>1, ProtocolSafety, PTL

\* What was released was never executed and never will be.
THEOREM ReleaseTheorem == ProtocolSpec => []ReleasedIsNeverCalled
<1>1. ProtocolInv => ReleasedIsNeverCalled
  <2> SUFFICES ASSUME ProtocolInv, NEW p \in Permit,
                      reservation[p].status = "RELEASED"
               PROVE  /\ attempt[p].state = "none"
                      /\ lease[p].state \in {"none", "LEASED", "CANCELLED"}
                      /\ lease[p].state = "LEASED" => ~Signed(p, "activation")
    BY DEF ReleasedIsNeverCalled
  <2>1. TokensTrue(p) /\ PlanesAgree(p) /\ ClaimedOrNeverRun
    BY DEF ProtocolInv, PermitInv, FenceInv
  <2>2. lease[p] \in Lease
    BY RowsOf DEF ProtocolInv, FenceInv
  <2>3. lease[p].state \in LeaseState
    BY <2>2 DEF Lease
  <2>4. lease[p].state \in {"none", "LEASED", "CANCELLED"}
    BY <2>1, <2>3 DEF PlanesAgree, LeaseState
  <2>5. QED
    BY <2>1, <2>4 DEF TokensTrue, PlanesAgree, ClaimedOrNeverRun
<1>2. QED
  BY <1>1, ProtocolSafety, PTL

\* What was settled has ended, and what runs still holds its reservation.
THEOREM SettleTheorem == ProtocolSpec => []SettledIsTerminal
<1>1. ProtocolInv => SettledIsTerminal
  BY DEF ProtocolInv, PermitInv, PlanesAgree, SettledIsTerminal
<1>2. QED
  BY <1>1, ProtocolSafety, PTL

\* Two permits are never in execution at once.
THEOREM OneExecutionTheorem == ProtocolSpec => []OneExecution
<1>1. ProtocolInv => OneExecution
  BY DEF ProtocolInv, AdmissionInv, PermitInv, PlanesAgree, LiveHoldsPlace,
         Live, OneExecution
<1>2. QED
  BY <1>1, ProtocolSafety, PTL
==============================================================================
