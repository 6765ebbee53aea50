--------------------------- MODULE BffOrchestration ---------------------------
(***************************************************************************)
(* The BFF over the two services: the coordinator that takes one reviewer   *)
(* request through prepare, activate, execute and settle, and the scheduled *)
(* reconciler that clears up after it.  Every remote call may take effect   *)
(* and lose its answer, and either process may die between two calls.       *)
(***************************************************************************)
EXTENDS PaidWorkProtocol

CONSTANTS LastAdmission,  \* bound: no request is admitted after this time
          MaxDeaths       \* bound: deaths of reconciler runs

ASSUME BffAssumption == LastAdmission \in Nat /\ MaxDeaths \in Nat

VARIABLES stage,  \* where the coordinator of the request stands
          shown,  \* the last event the reviewer was shown
          rec     \* the reconciler: its step, candidate, kind, deaths so far

bffVars == <<protocolVars, stage, shown, rec>>

Stage == {"new", "prepared", "leased", "activated", "executing", "settling",
          "ended"}
Shown == {"nothing", "accepted", "draft", "rejection", "GENERATION_FAILED"}
RecStep == {"idle", "inspect", "status", "cancel", "recheck", "settle",
            "release", "refused"}
Kind == {"none", "never-leased", "expired-lease"}

BffTypeOK ==
    /\ ProtocolTypeOK
    /\ stage \in [Permit -> Stage]
    /\ shown \in [Permit -> Shown]
    /\ rec \in [at : RecStep, of : Permit, kind : Kind, deaths : 0..MaxDeaths]

BffInit ==
    /\ ProtocolInit
    /\ stage = [p \in Permit |-> "new"]
    /\ shown = [p \in Permit |-> "nothing"]
    /\ rec \in [at : {"idle"}, of : Permit, kind : {"none"}, deaths : {0}]

-----------------------------------------------------------------------------
(* The coordinator *)

Goto(p, next) == stage' = [stage EXCEPT ![p] = next] /\ UNCHANGED shown

End(p, event) == /\ stage' = [stage EXCEPT ![p] = "ended"]
                 /\ shown' = [shown EXCEPT ![p] = event]

\* A remote call threw, or its answer was lost: the reviewer is told so.
Unavailable(p) == End(p, "GENERATION_FAILED")

NoEffect == UNCHANGED <<FenceRows, reservationVars, tokens, Running>>

\* The first prepare of a request, and its replay by a retry of the same
\* idempotency key while the permit lives, which writes nothing.
BffPrepare(p) ==
    /\ \/ /\ stage[p] = "new"
          /\ now <= LastAdmission
          /\ ContextPrepare(p)
       \/ /\ stage[p] = "ended"
          /\ shown[p] = "GENERATION_FAILED"
          /\ Signed(p, "permit")
          /\ Fresh(reservation[p].expires)
          /\ NoEffect
    /\ Goto(p, "prepared") \/ Unavailable(p)

BffLease(p) ==
    /\ stage[p] = "prepared"
    /\ \/ GenerationPrepare(p, "leased") /\ Goto(p, "leased")
       \/ /\ \/ \E r \in {"leased", "PERMIT_EXPIRED"} : GenerationPrepare(p, r)
             \/ NoEffect
          /\ Unavailable(p)

BffActivate(p) ==
    /\ stage[p] = "leased"
    /\ \/ /\ ContextActivate(p, "activated")
          /\ stage' = [stage EXCEPT ![p] = "activated"]
          /\ shown' = [shown EXCEPT ![p] = "accepted"]
       \/ /\ \/ \E r \in {"activated", "rejected"} : ContextActivate(p, r)
             \/ NoEffect
          /\ Unavailable(p)

BffExecute(p) ==
    /\ stage[p] = "activated"
    /\ \/ /\ GenerationExecute(p)
          /\ attempt'[p].state # "none"
          /\ Goto(p, "executing")
       \/ (GenerationExecute(p) \/ NoEffect) /\ Unavailable(p)

\* The terminal event arrives, or the stream ends without one.
BffAwait(p) ==
    /\ stage[p] = "executing"
    /\ \/ /\ Signed(p, "completed") \/ Signed(p, "rejected")
          /\ Goto(p, "settling")
       \/ Unavailable(p)
    /\ NoEffect

\* Fault: the draft is shown whatever settlement answers.
BffSettleUnchecked(p) ==
    /\ stage[p] = "settling"
    /\ ContextSettle(p) \/ NoEffect
    /\ End(p, IF Signed(p, "completed") THEN "draft" ELSE "rejection")

\* The draft is shown only once Context has settled for it.
BffSettle(p) ==
    /\ stage[p] = "settling"
    /\ \/ /\ Settle(p, "settled")
          /\ UNCHANGED <<FenceRows, Running, tokens>>
          /\ End(p, IF Signed(p, "completed") THEN "draft" ELSE "rejection")
       \/ (ContextSettle(p) \/ NoEffect) /\ Unavailable(p)

Coordinator(p) ==
    /\ \/ BffPrepare(p) \/ BffLease(p) \/ BffActivate(p) \/ BffExecute(p)
       \/ BffAwait(p) \/ BffSettle(p)
    /\ UNCHANGED <<now, rec>>

\* The invocation of Generation behind execute.
Runner(p) ==
    /\ CallProvider(p) \/ Record(p) \/ RunnerDies(p) \/ Complete(p)
    /\ UNCHANGED <<now, stage, shown, rec>>

-----------------------------------------------------------------------------
(* The reconciler *)

RecGoto(next) == rec' = [rec EXCEPT !.at = next]

Deferred == RecGoto("idle")

\* Claim the due items; at most one reservation is live, so at most one item.
RecList ==
    /\ rec.at = "idle"
    /\ \E p \in Permit :
          /\ ClaimDue({q \in Permit : Due(q)})
          /\ Due(p)
          /\ rec' = [rec EXCEPT !.at = "inspect", !.of = p, !.kind = "none"]
    /\ UNCHANGED <<FenceRows, Running, tokens>>

\* Read the candidate in a transaction of its own; skip it if it was closed.
RecInspect ==
    /\ rec.at = "inspect"
    /\ rec' = IF Live(rec.of)
              THEN [rec EXCEPT !.at = "status",
                        !.kind = IF reservation[rec.of].leased
                                 THEN "expired-lease" ELSE "never-leased"]
              ELSE [rec EXCEPT !.at = "idle"]
    /\ NoEffect

\* status recovers a checkpoint before it answers.
RecStatus ==
    /\ rec.at = "status"
    /\ \/ Complete(rec.of) /\ RecGoto("settle")
       \/ SignTerminal(rec.of) /\ RecGoto("settle")
       \/ /\ attempt[rec.of].state # "CHECKPOINTED"
          /\ \E r \in StatusReply \ {"terminal"} :
                /\ LeaseStatus(rec.of, r)
                /\ IF r = "no-lease" THEN Signs(rec.of, r) ELSE UNCHANGED tokens
                /\ CASE rec.kind = "never-leased" ->
                            IF r = "no-lease" THEN RecGoto("release") ELSE Deferred
                     [] rec.kind # "never-leased" /\ r \in {"running", "indeterminate"} -> Deferred
                     [] OTHER -> RecGoto("cancel")
          /\ UNCHANGED <<reservationVars, Running>>

RecCancel ==
    /\ rec.at = "cancel"
    /\ \E r \in CancelReply :
          /\ CancelExpired(rec.of, r)
          /\ IF r = "cancelled" THEN Signs(rec.of, r) ELSE UNCHANGED tokens
          /\ CASE r = "cancelled" -> RecGoto("release")
               [] r = "terminal" -> RecGoto("recheck")
               [] OTHER -> Deferred
    /\ UNCHANGED <<reservationVars, Running>>

\* The lease became terminal under the cancellation.
RecRecheck ==
    /\ rec.at = "recheck"
    /\ \/ SignTerminal(rec.of) /\ RecGoto("settle")
       \/ ~Terminal(rec.of) /\ Deferred /\ NoEffect

RecSettle ==
    /\ rec.at = "settle"
    /\ \E r \in {"settled", "rejected", "error"} :
          /\ Settle(rec.of, r)
          /\ RecGoto(IF r = "settled" THEN "idle" ELSE "refused")
    /\ UNCHANGED <<FenceRows, Running, tokens>>

RecRelease ==
    /\ rec.at = "release"
    /\ \E r \in {"released", "rejected"} :
          /\ Release(rec.of, IF rec.kind = "never-leased"
                             THEN "no-lease" ELSE "cancelled", r)
          /\ RecGoto(IF r = "released" THEN "idle" ELSE "refused")
    /\ UNCHANGED <<FenceRows, Running, tokens>>

\* A run dies, or a refusal aborts it; a later run starts over.
RecDies ==
    /\ rec.at # "idle"
    /\ rec.deaths < MaxDeaths
    /\ rec' = [rec EXCEPT !.at = "idle", !.deaths = @ + 1]
    /\ NoEffect

RecProgress ==
    /\ \/ RecList \/ RecInspect \/ RecStatus \/ RecCancel \/ RecRecheck
       \/ RecSettle \/ RecRelease
    /\ UNCHANGED <<now, stage, shown>>

Reconciler == RecProgress \/ (RecDies /\ UNCHANGED <<now, stage, shown>>)

BffTick == ProtocolTick /\ UNCHANGED <<stage, shown, rec>>

BffNext == (\E p \in Permit : Coordinator(p) \/ Runner(p)) \/ Reconciler \/ BffTick

BffSpec == BffInit /\ [][BffNext]_bffVars

\* EventBridge starts the reconciler every hour whatever happened to the last
\* run, and time passes.  Nothing is owed by the coordinator or a runner.
BffFairSpec == BffSpec /\ WF_bffVars(RecProgress) /\ WF_bffVars(BffTick)

-----------------------------------------------------------------------------
(* Properties *)

\* The reviewer sees a draft only after its generation is stored and paid for,
\* and is told "accepted" only for a request that holds a reservation or did.
ShownIsSettled ==
    \A p \in Permit :
        /\ shown[p] = "draft" =>
               /\ reservation[p].status = "SETTLED"
               /\ generation[p].status = "SUCCEEDED"
               /\ calls[p] = 1
        /\ shown[p] = "accepted" =>
               reservation[p].leased /\ reservation[p].status # "RESERVED"

\* Context never refuses what the reconciler concluded from Generation's
\* receipts, whatever the coordinator did in the meantime: a refusal throws and
\* abandons the rest of the run.
VerdictAccepted == rec.at # "refused"

Resolved(p) == \/ reservation[p].status \in {"SETTLED", "RELEASED"}
               \/ attempt[p].state = "TIMED_OUT"

\* A reservation whose lease was prepared but that was never activated.
Stranded(p) == /\ reservation[p].status = "RESERVED"
               /\ lease[p].state = "LEASED"

\* Every reservation is settled or released in the end, unless its provider
\* call is indeterminate or it is stranded: neither a dead coordinator nor a
\* dead runner holds the platform's one place for ever.
ReservationsResolve ==
    \A p \in Permit : Live(p) ~> (Resolved(p) \/ Stranded(p))

\* docs/SYSTEM-ARCHITECTURE.md: "A stale no-provider lease has a finite expiry.
\* After it expires, Generation atomically races LEASED -> CANCELLED ... and
\* Context releases the reservation only after verifying that receipt."  So a
\* leased but never claimed reservation is released in the end.
StaleLeaseReleased ==
    \A p \in Permit :
        (Live(p) /\ lease[p].state = "LEASED") ~> (Resolved(p) \/ attempt[p].state # "none")
==============================================================================
