---------------------------- MODULE PaidWorkProtocol ----------------------------
(***************************************************************************)
(* One paid request across the Context and Generation services.  They share *)
(* no transaction: each acts on a signed token of the other, read against   *)
(* its own clock and rows.  A token once signed can be delivered late,      *)
(* twice, out of order or never, so `tokens' only grows and any delivery is *)
(* a step; what the BFF does with them is only one of these behaviours.     *)
(***************************************************************************)
EXTENDS Reservations, ExecutionFence

VARIABLES tokens,  \* what has been signed, as <<permit, kind>>
          runner,  \* the invocation that won the claim and is still running
          calls    \* provider calls made

TokenKind == {"permit", "lease", "activation", "no-lease", "cancelled",
              "completed", "rejected"}

protocolVars == <<fenceVars, reservationVars, tokens, runner, calls>>

ProtocolTypeOK ==
    /\ FenceTypeOK
    /\ ReservationTypeOK
    /\ tokens \subseteq Permit \X TokenKind
    /\ runner \in [Permit -> {"none", "claimed", "calling"}]
    /\ calls \in [Permit -> Nat]

ProtocolInit ==
    /\ FenceInit
    /\ ReservationInit
    /\ tokens = {}
    /\ runner = [p \in Permit |-> "none"]
    /\ calls = [p \in Permit |-> 0]

Signed(p, kind) == <<p, kind>> \in tokens

Signs(p, kind) == tokens' = tokens \cup {<<p, kind>>}

\* A token is refused when its own expiry has passed by the reader's clock.
Fresh(expires) == \E t \in AppClock : expires > t

FenceRows == <<lease, attempt, generation>>
Running == <<runner, calls>>

-----------------------------------------------------------------------------
(* Context *)

ContextPrepare(p) ==
    /\ Reserve(p)
    /\ Signs(p, "permit")
    /\ UNCHANGED <<FenceRows, Running>>

\* Verify the lease receipt, redeem the reservation, sign the activation,
\* which is refused when it has expired by then.
ContextActivate(p, reply) ==
    /\ Signed(p, "lease")
    /\ Fresh(lease[p].expires)
    /\ \/ /\ Activate(p, lease[p].expires, "activated")
          /\ Fresh(reservation'[p].activation)
          /\ Signs(p, "activation")
          /\ reply = "activated"
       \/ /\ \E r \in {"activated", "rejected"} :
                Activate(p, lease[p].expires, r)
          /\ reply = "rejected"
          /\ UNCHANGED tokens
    /\ UNCHANGED <<FenceRows, Running>>

ContextSettle(p) ==
    /\ Signed(p, "completed") \/ Signed(p, "rejected")
    /\ \E r \in {"settled", "rejected", "error"} : Settle(p, r)
    /\ UNCHANGED <<FenceRows, Running, tokens>>

ContextListCandidates ==
    /\ \E claimed \in SUBSET Permit : ClaimDue(claimed)
    /\ UNCHANGED <<FenceRows, Running, tokens>>

ContextRelease(p) ==
    /\ \E outcome \in {"no-lease", "cancelled"} :
          /\ Signed(p, outcome)
          /\ \E r \in {"released", "rejected"} : Release(p, outcome, r)
    /\ UNCHANGED <<FenceRows, Running, tokens>>

-----------------------------------------------------------------------------
(* Generation *)

\* Verify the permit, insert or find the lease, sign the lease receipt.
GenerationPrepare(p, reply) ==
    /\ Signed(p, "permit")
    /\ Fresh(reservation[p].expires)
    /\ \/ /\ \E r \in {"leased", "existing"} :
                PrepareLease(p, reservation[p].expires, r)
          /\ Signs(p, "lease")
          /\ reply = "leased"
       \/ /\ PrepareLease(p, reservation[p].expires, "PERMIT_EXPIRED")
          /\ UNCHANGED tokens
          /\ reply = "PERMIT_EXPIRED"
    /\ UNCHANGED <<reservationVars, Running>>

\* Verify the activation, claim the attempt.
GenerationExecute(p) ==
    /\ Signed(p, "activation")
    /\ Fresh(reservation[p].activation)
    /\ \/ /\ ClaimAttempt(p, reservation[p].activation, "claimed")
          /\ runner' = [runner EXCEPT ![p] = "claimed"]
       \/ /\ \E r \in {"existing", "EXECUTION_NOT_CLAIMABLE"} :
                ClaimAttempt(p, reservation[p].activation, r)
          /\ UNCHANGED runner
    /\ UNCHANGED <<reservationVars, tokens, calls>>

CallProvider(p) ==
    /\ runner[p] = "claimed"
    /\ runner' = [runner EXCEPT ![p] = "calling"]
    /\ calls' = [calls EXCEPT ![p] = @ + 1]
    /\ UNCHANGED <<FenceRows, reservationVars, tokens>>

\* The runner records what became of its call ...
Record(p) ==
    /\ runner[p] = "calling"
    /\ \/ /\ \E result \in Result, r \in {"checkpointed", "conflict"} :
                Checkpoint(p, result, r)
          /\ UNCHANGED tokens
       \/ /\ \E r \in MarkReply : MarkIndeterminate(p, r)
          /\ UNCHANGED tokens
       \/ /\ \E code \in RejectionCode : Reject(p, code, "rejected")
          /\ Signs(p, "rejected")
       \/ /\ \E code \in RejectionCode : Reject(p, code, "not-rejectable")
          /\ UNCHANGED tokens
    /\ runner' = [runner EXCEPT ![p] = "none"]
    /\ UNCHANGED <<reservationVars, calls>>

\* ... or dies first.
RunnerDies(p) ==
    /\ runner[p] # "none"
    /\ runner' = [runner EXCEPT ![p] = "none"]
    /\ UNCHANGED <<FenceRows, reservationVars, tokens, calls>>

\* Fault: the status of the row is signed as it stands.
OutcomeRaw(row) == row.status

Outcome(row) == IF row.status = "SUCCEEDED" THEN "completed" ELSE "rejected"

\* Any invocation may finalize a checkpoint it recovers.
Complete(p) ==
    /\ Finalize(p, "finalized")
    /\ Signs(p, Outcome(generation'[p]))
    /\ UNCHANGED <<reservationVars, Running>>

\* status of a terminal: its outcome, signed.
SignTerminal(p) ==
    /\ Terminal(p)
    /\ Signs(p, Outcome(generation[p]))
    /\ UNCHANGED <<FenceRows, reservationVars, Running>>

\* status: the outcome of a terminal, or the state of the lease.
GenerationStatus(p) ==
    \/ SignTerminal(p)
    \/ /\ \/ LeaseStatus(p, "no-lease") /\ Signs(p, "no-lease")
          \/ /\ \E r \in StatusReply \ {"no-lease"} : LeaseStatus(p, r)
             /\ UNCHANGED tokens
       /\ UNCHANGED <<reservationVars, Running>>

GenerationCancel(p) ==
    /\ \/ CancelExpired(p, "cancelled") /\ Signs(p, "cancelled")
       \/ /\ \E r \in CancelReply \ {"cancelled"} : CancelExpired(p, r)
          /\ UNCHANGED tokens
    /\ UNCHANGED <<reservationVars, Running>>

-----------------------------------------------------------------------------
ContextStep(p) ==
    \/ ContextPrepare(p) \/ ContextSettle(p) \/ ContextRelease(p)
    \/ \E r \in {"activated", "rejected"} : ContextActivate(p, r)

GenerationStep(p) ==
    \/ \E r \in {"leased", "PERMIT_EXPIRED"} : GenerationPrepare(p, r)
    \/ GenerationExecute(p)
    \/ CallProvider(p) \/ Record(p) \/ RunnerDies(p) \/ Complete(p)
    \/ GenerationStatus(p) \/ GenerationCancel(p)

ProtocolTick ==
    Tick /\ UNCHANGED <<FenceRows, reservationVars, tokens, Running>>

ProtocolNext ==
    \/ /\ \/ \E p \in Permit : ContextStep(p) \/ GenerationStep(p)
          \/ ContextListCandidates
       /\ UNCHANGED now
    \/ ProtocolTick

ProtocolSpec == ProtocolInit /\ [][ProtocolNext]_protocolVars

-----------------------------------------------------------------------------
(* Properties *)

\* No provider call without a redeemed reservation behind it, and never two
\* for one permit: what is charged was reserved.
PaidOnlyIfReserved ==
    \A p \in Permit :
        /\ calls[p] <= 1
        /\ calls[p] > 0 => reservation[p].status \in {"REDEEMED", "SETTLED"}

\* A released reservation freed its budget because no provider was called for
\* it, and none will be: its lease can no longer be claimed, whichever token
\* the release rested on and however late the other tokens arrive.
ReleasedIsNeverCalled ==
    \A p \in Permit :
        reservation[p].status = "RELEASED" =>
            /\ attempt[p].state = "none"
            /\ lease[p].state \in {"none", "LEASED", "CANCELLED"}
            /\ lease[p].state = "LEASED" => ~Signed(p, "activation")

\* A settled reservation has its generation; so a draft is paid for once and
\* an attempt that is running or indeterminate still holds its reservation.
SettledIsTerminal ==
    \A p \in Permit :
        /\ reservation[p].status = "SETTLED" => lease[p].state = "TERMINAL"
        /\ lease[p].state = "RUNNING" => reservation[p].status = "REDEEMED"

\* Two permits are never in execution at once on the whole platform.
OneExecution ==
    \A p, q \in Permit :
        lease[p].state = "RUNNING" /\ lease[q].state = "RUNNING" => p = q
==============================================================================
