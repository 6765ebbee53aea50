------------------------------ MODULE BffProofs ------------------------------
(***************************************************************************)
(* The BFF over the two services, for any number of permits, deaths and     *)
(* lost answers.  Every step of the coordinator, of a runner and of the     *)
(* reconciler is one of the protocol, whose tokens may be delivered in any  *)
(* order, so what the protocol keeps the BFF keeps; and what each of them   *)
(* concluded from an answer stays true while the others go on.              *)
(***************************************************************************)
EXTENDS BffOrchestration, PaidWorkProtocolProofs

-----------------------------------------------------------------------------
(* What the protocol keeps besides *)

\* What the outcome of a permit rests on.
Earned(p) ==
    /\ runner[p] = "calling" => calls[p] = 1
    /\ attempt[p].state = "CHECKPOINTED" => calls[p] = 1
    /\ generation[p].status = "SUCCEEDED" => calls[p] = 1
    /\ Signed(p, "completed") => generation[p].status = "SUCCEEDED"

\* When the item of a live reservation is due; a cancelled lease is over.
Queued(p) ==
    /\ reservation[p].status = "RESERVED" =>
           queue[p].due = reservation[p].expires + Grace /\ ~queue[p].leased
    /\ reservation[p].status = "REDEEMED" =>
           queue[p].due = lease[p].expires /\ queue[p].leased
    /\ lease[p].state = "CANCELLED" => lease[p].expires <= now

DetailInv == ProtocolInv /\ \A p \in Permit : Earned(p) /\ Queued(p)

\* The ways a step may move the reservation of a permit, ...
ReservationStep(p) ==
    \/ /\ reservation'[p] = reservation[p]
       /\ queue'[p].due = queue[p].due /\ queue'[p].leased = queue[p].leased
    \/ /\ Moved(p, "none", "RESERVED")
       /\ queue'[p].due = reservation'[p].expires + Grace /\ ~queue'[p].leased
    \/ Redeemed(p, lease[p].expires) /\ reservation'[p].leased
    \/ /\ \/ reservation[p].status = "REDEEMED" /\ reservation'[p].status = "SETTLED"
          \/ Live(p) /\ reservation'[p].status = "RELEASED"
       /\ reservation'[p].leased = reservation[p].leased

\* ... its lease, ...
LeaseStep(p) ==
    /\ lease[p].state # "none" => lease'[p].expires = lease[p].expires
    /\ lease'[p].state = "CANCELLED" =>
           lease[p].state = "CANCELLED" \/ lease'[p].expires <= now

\* ... its outcome ...
OutcomeStep(p) ==
    /\ generation'[p].status = "SUCCEEDED" =>
           generation[p].status = "SUCCEEDED" \/ attempt[p].state = "CHECKPOINTED"
    /\ generation[p].status = "SUCCEEDED" => generation'[p].status = "SUCCEEDED"

\* ... and the work on it.
WorkStep(p) ==
    /\ calls'[p] = calls[p] \/ (calls[p] = 0 /\ calls'[p] = 1)
    /\ runner'[p] = "calling" => runner[p] = "calling" \/ calls'[p] = 1
    /\ attempt'[p].state = "CHECKPOINTED" =>
           attempt[p].state = "CHECKPOINTED" \/ runner[p] = "calling"
    /\ Signed(p, "completed")' =>
           Signed(p, "completed") \/ generation'[p].status = "SUCCEEDED"

StepOf(p) ==
    /\ ReservationStep(p) /\ LeaseStep(p) /\ OutcomeStep(p) /\ WorkStep(p)
    /\ reservation'[p] = reservation[p] \/ lease'[p] = lease[p]
    /\ \A k \in TokenKind : Signed(p, k) => Signed(p, k)'

\* A step that does not concern the permit.
Still(p) ==
    /\ reservation'[p] = reservation[p]
    /\ queue'[p].due = queue[p].due /\ queue'[p].leased = queue[p].leased
    /\ lease'[p] = lease[p] /\ attempt'[p] = attempt[p]
    /\ generation'[p] = generation[p]
    /\ runner'[p] = runner[p] /\ calls'[p] = calls[p]
    /\ \A k \in TokenKind : Signed(p, k)' <=> Signed(p, k)

LEMMA StillStep ==
    ASSUME NEW p \in Permit, Queued(p), Still(p) PROVE StepOf(p)
<1>1. Signed(p, "completed")' <=> Signed(p, "completed")
  BY DEF Still, TokenKind
<1>2. WorkStep(p) /\ OutcomeStep(p)
  BY <1>1 DEF Still, WorkStep, OutcomeStep
<1>3. ReservationStep(p) /\ LeaseStep(p)
  BY DEF Still, ReservationStep, LeaseStep
<1>4. QED
  BY <1>2, <1>3 DEF Still, StepOf

\* What the reconciler relies on: that a listed reservation is due, ...
Listed(p) ==
    /\ reservation[p].status # "none"
    /\ reservation[p].status = "RESERVED" => reservation[p].expires + Grace <= now

\* ... and that no activation can redeem it any more.
NeverLeased(p) == /\ reservation[p].status \in {"RESERVED", "RELEASED"}
                  /\ ~reservation[p].leased
                  /\ Listed(p)

\* What is known of a permit stays true.
Forward(p) ==
    /\ \A k \in TokenKind : Signed(p, k) => Signed(p, k)'
    /\ reservation[p].leased => reservation'[p].leased
    /\ Listed(p) => Listed(p)'
    /\ NeverLeased(p) => NeverLeased(p)'
    /\ reservation[p].status = "SETTLED" => reservation'[p].status = "SETTLED"

LEMMA Numbers ==
    ASSUME ProtocolInv, NEW p \in Permit
    PROVE  /\ reservation[p].expires \in Nat /\ lease[p].expires \in Nat
           /\ now \in Nat /\ Grace \in Nat /\ calls[p] \in Nat
<1>1. reservation[p] \in Reservation
  BY RowOf DEF ProtocolInv, AdmissionInv
<1>2. lease[p] \in Lease
  BY RowsOf DEF ProtocolInv, FenceInv
<1>3. calls[p] \in Nat
  BY RunnerOf DEF ProtocolInv
<1>4. QED
  BY <1>1, <1>2, <1>3, ReservationAssumption
     DEF Reservation, Lease, ProtocolInv, AdmissionInv

LEMMA QueuedStep ==
    ASSUME ProtocolInv, NEW p \in Permit, Queued(p), ReservationStep(p), LeaseStep(p),
           reservation'[p] = reservation[p] \/ lease'[p] = lease[p],
           now' \in Nat, now <= now', lease'[p].expires \in Nat
    PROVE  Queued(p)'
<1>1. /\ reservation[p].expires \in Nat /\ lease[p].expires \in Nat
      /\ now \in Nat /\ Grace \in Nat
  BY Numbers
<1>2. reservation[p].status = "REDEEMED" => lease[p].state # "none"
  BY DEF ProtocolInv, PermitInv, PlanesAgree
<1>3. lease'[p].state = "CANCELLED" => lease'[p].expires <= now'
  BY <1>1 DEF Queued, LeaseStep
<1>4. reservation'[p].status = "RESERVED" =>
          queue'[p].due = reservation'[p].expires + Grace /\ ~queue'[p].leased
  BY DEF Queued, ReservationStep, Redeemed, Moved
<1>5. reservation'[p].status = "REDEEMED" =>
          queue'[p].due = lease'[p].expires /\ queue'[p].leased
  BY <1>2 DEF Queued, ReservationStep, LeaseStep, Redeemed, Moved
<1>6. QED
  BY <1>3, <1>4, <1>5 DEF Queued

LEMMA EarnedStep ==
    ASSUME ProtocolInv, NEW p \in Permit, Earned(p), OutcomeStep(p), WorkStep(p)
    PROVE  Earned(p)'
  BY DEF Earned, OutcomeStep, WorkStep

LEMMA ForwardStep ==
    ASSUME ProtocolInv, NEW p \in Permit, StepOf(p), now' \in Nat, now <= now'
    PROVE  Forward(p)
<1>1. reservation[p].expires \in Nat /\ now \in Nat /\ Grace \in Nat
  BY Numbers
<1>2. /\ reservation[p].status \in {"none", "RESERVED"} => ~reservation[p].leased
      /\ reservation[p].status = "REDEEMED" => reservation[p].leased
  BY DEF ProtocolInv, PermitInv, PlanesAgree
<1>3. ReservationStep(p)
  BY DEF StepOf
<1>4. ASSUME reservation'[p] = reservation[p] PROVE Forward(p)
  <2>1. Listed(p) => Listed(p)'
    BY <1>1, <1>4 DEF Listed
  <2>2. QED
    BY <1>4, <2>1 DEF Forward, NeverLeased, StepOf
<1>5. CASE Moved(p, "none", "RESERVED")
  BY <1>2, <1>5 DEF Forward, Listed, NeverLeased, Moved, StepOf
<1>6. CASE Redeemed(p, lease[p].expires) /\ reservation'[p].leased
  <2>1. ~NeverLeased(p)
    BY <1>1, <1>2, <1>6 DEF NeverLeased, Listed, Redeemed
  <2>2. QED
    BY <1>6, <2>1 DEF Forward, Listed, Redeemed, StepOf
<1>7. CASE /\ \/ reservation[p].status = "REDEEMED" /\ reservation'[p].status = "SETTLED"
              \/ Live(p) /\ reservation'[p].status = "RELEASED"
           /\ reservation'[p].leased = reservation[p].leased
  <2>1. Listed(p)'
    BY <1>7 DEF Listed
  <2>2. NeverLeased(p) => reservation'[p].status = "RELEASED"
    BY <1>7 DEF NeverLeased
  <2>3. NeverLeased(p) => NeverLeased(p)'
    BY <1>7, <2>1, <2>2 DEF NeverLeased
  <2>4. reservation[p].status # "SETTLED"
    BY <1>7 DEF Live
  <2>5. QED
    BY <1>7, <2>1, <2>3, <2>4 DEF Forward, StepOf
<1>8. QED
  BY <1>3, <1>4, <1>5, <1>6, <1>7 DEF ReservationStep

-----------------------------------------------------------------------------
(* Context *)

LEMMA TokensGrow ==
    ASSUME NEW p, SignsAtMostOne(p), NEW q, NEW k, Signed(q, k) PROVE Signed(q, k)'
  BY DEF SignsAtMostOne, Signs, Signed

LEMMA ContextStill ==
    ASSUME ProtocolInv, NEW p \in Permit, UNCHANGED <<FenceRows, Running>>,
           OthersKept(p), SignsAtMostOne(p), NEW q \in Permit \ {p}
    PROVE  Still(q)
<1>1. \A k \in TokenKind : Signed(q, k)' <=> Signed(q, k)
  BY SignedFrame DEF ProtocolInv
<1>2. QED
  BY <1>1 DEF Still, OthersKept, FenceRows, Running

\* A step of Context moves one reservation and signs nothing of its outcome.
ContextMoves(p) ==
    /\ UNCHANGED <<FenceRows, Running>>
    /\ OthersKept(p) /\ SignsAtMostOne(p)
    /\ ReservationStep(p)
    /\ Signed(p, "completed")' <=> Signed(p, "completed")

LEMMA ContextPrepareMoves ==
    ASSUME ProtocolInv, NEW p \in Permit, ContextPrepare(p), UNCHANGED now
    PROVE  ContextMoves(p)
<1>1. /\ OthersKept(p) /\ Moved(p, "none", "RESERVED")
      /\ queue'[p].due = reservation'[p].expires + Grace /\ ~queue'[p].leased
  BY ReserveMoves DEF ProtocolInv, ContextPrepare
<1>2. /\ SignsAtMostOne(p)
      /\ \A k : Signed(p, k)' <=> Signed(p, k) \/ k = "permit"
  BY SignsOne DEF ProtocolInv, MessagesTypeOK, ContextPrepare, SignsAtMostOne, TokenKind
<1>3. QED
  BY <1>1, <1>2 DEF ContextMoves, ReservationStep, ContextPrepare

LEMMA ContextActivateMoves ==
    ASSUME ProtocolInv, NEW p \in Permit, NEW reply, ContextActivate(p, reply),
           UNCHANGED now
    PROVE  ContextMoves(p)
<1>1. PICK r \in {"activated", "rejected"} :
        /\ Activate(p, lease[p].expires, r)
        /\ UNCHANGED tokens \/ Signs(p, "activation")
  BY Zenon DEF ContextActivate
<1>2. lease[p].expires \in Nat
  BY Numbers
<1>3. /\ OthersKept(p)
      /\ UNCHANGED reservation \/ reservation'[p].leased
      /\ UNCHANGED <<reservation, queue>> \/ Redeemed(p, lease[p].expires)
  BY <1>1, <1>2, ActivateMoves DEF ProtocolInv, Moved
<1>4. ReservationStep(p)
  <2>1. CASE UNCHANGED <<reservation, queue>>
    BY <2>1 DEF ReservationStep
  <2>2. CASE Redeemed(p, lease[p].expires)
    <3>1. reservation'[p].leased
      BY <1>3, <2>2 DEF ProtocolInv, PermitInv, PlanesAgree, Redeemed
    <3>2. QED
      BY <2>2, <3>1 DEF ReservationStep
  <2>3. QED
    BY <1>3, <2>1, <2>2
<1>5. SignsAtMostOne(p) /\ (Signed(p, "completed")' <=> Signed(p, "completed"))
  <2>1. CASE UNCHANGED tokens
    BY <2>1 DEF SignsAtMostOne, Signed
  <2>2. CASE Signs(p, "activation")
    <3>1. \A k : Signed(p, k)' <=> Signed(p, k) \/ k = "activation"
      BY <2>2, SignsOne DEF ProtocolInv, MessagesTypeOK, TokenKind
    <3>2. QED
      BY <2>2, <3>1 DEF SignsAtMostOne, TokenKind
  <2>3. QED
    BY <1>1, <2>1, <2>2
<1>6. QED
  BY <1>1, <1>3, <1>4, <1>5 DEF ContextMoves, ContextActivate

LEMMA ContextSettleMoves ==
    ASSUME ProtocolInv, NEW p \in Permit, ContextSettle(p), UNCHANGED now
    PROVE  ContextMoves(p)
<1>1. /\ OthersKept(p)
      /\ \/ UNCHANGED <<reservation, queue>>
         \/ /\ Moved(p, "REDEEMED", "SETTLED")
            /\ reservation'[p].leased = reservation[p].leased
  BY SettleMoves DEF ProtocolInv, ContextSettle
<1>2. ReservationStep(p)
  BY <1>1 DEF ReservationStep, Moved
<1>3. SignsAtMostOne(p) /\ (Signed(p, "completed")' <=> Signed(p, "completed"))
  BY DEF ContextSettle, SignsAtMostOne, Signed
<1>4. QED
  BY <1>1, <1>2, <1>3 DEF ContextMoves, ContextSettle

LEMMA ContextReleaseMoves ==
    ASSUME ProtocolInv, NEW p \in Permit, ContextRelease(p), UNCHANGED now
    PROVE  ContextMoves(p)
<1>1. PICK outcome \in {"no-lease", "cancelled"}, r \in {"released", "rejected"} :
        Release(p, outcome, r)
  BY DEF ContextRelease
<1>2. /\ OthersKept(p)
      /\ \/ UNCHANGED <<reservation, queue>>
         \/ /\ Moved(p, "REDEEMED", "RELEASED")
            /\ reservation'[p].leased = reservation[p].leased
         \/ Moved(p, "RESERVED", "RELEASED") /\ ~reservation'[p].leased
  BY <1>1, ReleaseMoves DEF ProtocolInv
<1>3. reservation[p].status = "RESERVED" => ~reservation[p].leased
  BY DEF ProtocolInv, PermitInv, PlanesAgree
<1>4. reservation'[p].status = "RELEASED" /\ reservation[p].status = "RESERVED" =>
          reservation'[p].leased = reservation[p].leased
  <2>1. reservation[p].leased \in BOOLEAN /\ reservation'[p].leased \in BOOLEAN
    <3>1. reservation[p] \in Reservation /\ reservation'[p] \in Reservation
      BY <1>1, RowOf, ReleaseMoves DEF ProtocolInv, AdmissionInv, ReservationTypeOK
    <3>2. QED
      BY <3>1 DEF Reservation
  <2>2. QED
    BY <1>2, <1>3, <2>1 DEF Moved
<1>5. ReservationStep(p)
  BY <1>2, <1>4 DEF ReservationStep, Moved, Live
<1>6. SignsAtMostOne(p) /\ (Signed(p, "completed")' <=> Signed(p, "completed"))
  BY DEF ContextRelease, SignsAtMostOne, Signed
<1>7. QED
  BY <1>2, <1>5, <1>6 DEF ContextMoves, ContextRelease

LEMMA ContextStepOf ==
    ASSUME DetailInv, NEW p \in Permit, ContextStep(p), UNCHANGED now
    PROVE  \A q \in Permit : StepOf(q)
<1>1. ContextMoves(p)
  BY ContextPrepareMoves, ContextActivateMoves, ContextSettleMoves,
     ContextReleaseMoves DEF DetailInv, ContextStep
<1>2. ASSUME NEW q \in Permit \ {p} PROVE StepOf(q)
  <2>1. Still(q)
    BY <1>1, ContextStill DEF ContextMoves, DetailInv
  <2>2. QED
    BY <2>1, StillStep DEF DetailInv
<1>3. StepOf(p)
  <2>1. /\ lease'[p] = lease[p] /\ attempt'[p] = attempt[p]
        /\ generation'[p] = generation[p]
        /\ runner'[p] = runner[p] /\ calls'[p] = calls[p]
    BY <1>1 DEF ContextMoves, FenceRows, Running
  <2>2. LeaseStep(p) /\ OutcomeStep(p) /\ WorkStep(p)
    <3>1. Queued(p)
      BY DEF DetailInv
    <3>2. QED
      BY <1>1, <2>1, <3>1 DEF ContextMoves, LeaseStep, OutcomeStep, WorkStep
  <2>3. \A k \in TokenKind : Signed(p, k) => Signed(p, k)'
    BY <1>1, TokensGrow DEF ContextMoves
  <2>4. QED
    BY <1>1, <2>1, <2>2, <2>3 DEF ContextMoves, StepOf
<1>4. QED
  BY <1>2, <1>3

-----------------------------------------------------------------------------
(* Generation *)

\* A step of Generation writes the rows of one permit; only its runner, when
\* its call has returned, leaves a checkpoint, and only what succeeded is signed
\* as completed.
GenerationMoves(p) ==
    /\ RowStep(p) /\ RunnerRow(p) /\ SignsAtMostOne(p)
    /\ UNCHANGED <<reservationVars, now>>
    /\ WorkStep(p)

LEMMA RowMoves ==
    ASSUME FenceInv, NEW p \in Permit, RowStep(p), UNCHANGED now
    PROVE  /\ LeaseStep(p) /\ OutcomeStep(p)
           /\ \A q \in Permit \ {p} : /\ lease'[q] = lease[q]
                                      /\ attempt'[q] = attempt[q]
                                      /\ generation'[q] = generation[q]
<1>1. PICK l \in Lease, a \in Attempt, g \in Generation :
        /\ lease' = [lease EXCEPT ![p] = l]
        /\ attempt' = [attempt EXCEPT ![p] = a]
        /\ generation' = [generation EXCEPT ![p] = g]
        /\ RowChange(p, l, a, g)
  BY DEF RowStep
<1>2. /\ lease'[p] = l /\ attempt'[p] = a /\ generation'[p] = g
      /\ \A q \in Permit \ {p} : /\ lease'[q] = lease[q]
                                 /\ attempt'[q] = attempt[q]
                                 /\ generation'[q] = generation[q]
  BY <1>1 DEF FenceInv, FenceTypeOK
<1>3. generation[p].status = "SUCCEEDED" => lease[p].state = "TERMINAL"
  BY DEF FenceInv, TerminalEvidence
<1>4. LeaseStep(p)
  BY <1>1, <1>2 DEF LeaseStep, RowChange, Unchanged, Prepared, Claimed, TimedOut,
                    Cancelled, Checkpointed, Finished
<1>5. OutcomeStep(p)
  BY <1>1, <1>2, <1>3 DEF OutcomeStep, RowChange, Unchanged, Prepared, Claimed,
                          TimedOut, Cancelled, Checkpointed, Finished
<1>6. QED
  BY <1>2, <1>4, <1>5

LEMMA AttemptStateSet ==
    ASSUME FenceTypeOK, NEW p \in Permit, NEW s \in AttemptState,
           attempt' = [attempt EXCEPT ![p].state = s]
    PROVE  attempt'[p].state = s
<1>1. attempt'[p] = [attempt[p] EXCEPT !.state = s]
  BY DEF FenceTypeOK
<1>2. attempt[p] \in Attempt
  BY RowsOf
<1>3. [attempt[p] EXCEPT !.state = s].state = s
  BY <1>2, AttemptRow
<1>4. QED
  BY <1>1, <1>3

\* A step that calls nobody, checkpoints nothing and signs no outcome.
LEMMA QuietWork ==
    ASSUME NEW p \in Permit, UNCHANGED calls, runner'[p] \in {runner[p], "none", "claimed"},
           attempt'[p].state # "CHECKPOINTED" \/ attempt'[p] = attempt[p],
           Signed(p, "completed")' => Signed(p, "completed")
    PROVE  WorkStep(p)
  BY DEF WorkStep

LEMMA SignedOther ==
    ASSUME MessagesTypeOK, NEW p \in Permit, NEW kind \in TokenKind,
           kind # "completed", UNCHANGED tokens \/ Signs(p, kind)
    PROVE  SignsAtMostOne(p) /\ (Signed(p, "completed")' => Signed(p, "completed"))
<1>1. CASE UNCHANGED tokens
  BY <1>1 DEF SignsAtMostOne, Signed
<1>2. CASE Signs(p, kind)
  <2>1. \A k : Signed(p, k)' <=> Signed(p, k) \/ k = kind
    BY <1>2, SignsOne DEF MessagesTypeOK
  <2>2. QED
    BY <1>2, <2>1 DEF SignsAtMostOne
<1>3. QED
  BY <1>1, <1>2

\* What is signed of an outcome is what its row says.
LEMMA SignedOutcome ==
    ASSUME MessagesTypeOK, NEW p \in Permit, Signs(p, Outcome(generation'[p]))
    PROVE  /\ SignsAtMostOne(p)
           /\ Signed(p, "completed")' =>
                  Signed(p, "completed") \/ generation'[p].status = "SUCCEEDED"
<1>1. PICK kind : kind = Outcome(generation'[p])
  OBVIOUS
<1>2. kind \in TokenKind /\ (kind = "completed" => generation'[p].status = "SUCCEEDED")
  BY <1>1 DEF Outcome, TokenKind
<1>3. \A k : Signed(p, k)' <=> Signed(p, k) \/ k = kind
  BY <1>1, <1>2, SignsOne DEF MessagesTypeOK
<1>4. QED
  BY <1>1, <1>2, <1>3 DEF SignsAtMostOne

LEMMA PrepareWork ==
    ASSUME ProtocolInv, NEW p \in Permit, NEW reply, GenerationPrepare(p, reply),
           UNCHANGED now
    PROVE  GenerationMoves(p)
<1>1. FenceTypeOK /\ MessagesTypeOK /\ reservation[p].expires \in Nat
  BY Numbers DEF ProtocolInv, FenceInv
<1>2. PICK r \in {"leased", "existing", "PERMIT_EXPIRED"} :
        /\ PrepareLease(p, reservation[p].expires, r)
        /\ UNCHANGED tokens \/ Signs(p, "lease")
  BY Zenon DEF GenerationPrepare
<1>3. RowStep(p) /\ UNCHANGED attempt
  BY <1>1, <1>2, PrepareRow DEF PrepareLease
<1>4. "lease" \in TokenKind
  BY DEF TokenKind
<1>5. SignsAtMostOne(p) /\ (Signed(p, "completed")' => Signed(p, "completed"))
  BY <1>1, <1>2, <1>4, SignedOther
<1>6. RunnerRow(p) /\ UNCHANGED <<runner, calls, reservationVars>>
  BY <1>1, RunnerSame DEF GenerationPrepare, Running
<1>7. WorkStep(p)
  BY <1>3, <1>5, <1>6, QuietWork
<1>8. QED
  BY <1>3, <1>5, <1>6, <1>7 DEF GenerationMoves

LEMMA ExecuteWork ==
    ASSUME ProtocolInv, NEW p \in Permit, GenerationExecute(p), UNCHANGED now
    PROVE  GenerationMoves(p)
<1>1. FenceTypeOK /\ MessagesTypeOK
  BY DEF ProtocolInv, FenceInv
<1>2. reservation[p].activation \in Nat
  <2>1. reservation[p] \in Reservation
    BY RowOf DEF ProtocolInv, AdmissionInv
  <2>2. QED
    BY <2>1 DEF Reservation
<1>3. PICK r \in {"claimed", "existing", "EXECUTION_NOT_CLAIMABLE"} :
        /\ ClaimAttempt(p, reservation[p].activation, r)
        /\ \/ runner' = [runner EXCEPT ![p] = "claimed"]
           \/ UNCHANGED runner
  BY DEF GenerationExecute
<1>4. RowStep(p)
  BY <1>1, <1>2, <1>3, ClaimRow
<1>5. attempt'[p].state = "RUNNING" \/ UNCHANGED attempt
  BY <1>1, <1>3 DEF ClaimAttempt, FenceTypeOK
<1>6. UNCHANGED <<tokens, calls, reservationVars>>
  BY DEF GenerationExecute
<1>7. RunnerRow(p) /\ runner'[p] \in {runner[p], "claimed"}
  <2>1. CASE UNCHANGED runner
    BY <1>1, <1>6, <2>1, RunnerSame DEF Running
  <2>2. CASE runner' = [runner EXCEPT ![p] = "claimed"]
    BY <1>1, <1>6, <2>2, RunnerOf, RunnerWritten
  <2>3. QED
    BY <1>3, <2>1, <2>2
<1>8. SignsAtMostOne(p) /\ (Signed(p, "completed")' => Signed(p, "completed"))
  BY <1>6 DEF SignsAtMostOne, Signed
<1>9. WorkStep(p)
  BY <1>5, <1>6, <1>7, <1>8, QuietWork
<1>10. QED
  BY <1>4, <1>6, <1>7, <1>8, <1>9 DEF GenerationMoves

LEMMA CallWork ==
    ASSUME ProtocolInv, NEW p \in Permit, CallProvider(p), UNCHANGED now
    PROVE  GenerationMoves(p)
<1>1. FenceTypeOK /\ MessagesTypeOK
  BY DEF ProtocolInv, FenceInv
<1>2. UNCHANGED <<reservationVars, tokens, lease, attempt, generation>>
  BY DEF CallProvider, FenceRows
<1>3. RowStep(p)
  BY <1>1, <1>2, RowStepSame
<1>4. calls[p] = 0 /\ calls' = [calls EXCEPT ![p] = calls[p] + 1]
  BY DEF CallProvider, ProtocolInv, PermitInv, RunnerClaimed
<1>5. calls[p] + 1 = 1
  BY <1>4
<1>6. calls' = [calls EXCEPT ![p] = 1]
  BY <1>4, <1>5
<1>7. RunnerRow(p) /\ calls'[p] = 1
  BY <1>1, <1>6, RunnerWritten DEF CallProvider
<1>8. SignsAtMostOne(p) /\ (Signed(p, "completed")' <=> Signed(p, "completed"))
  BY <1>2 DEF SignsAtMostOne, Signed
<1>9. WorkStep(p)
  BY <1>2, <1>4, <1>7, <1>8 DEF WorkStep
<1>10. QED
  BY <1>2, <1>3, <1>7, <1>8, <1>9 DEF GenerationMoves

LEMMA RecordWork ==
    ASSUME ProtocolInv, NEW p \in Permit, Record(p), UNCHANGED now
    PROVE  GenerationMoves(p)
<1>1. FenceTypeOK /\ MessagesTypeOK
  BY DEF ProtocolInv, FenceInv
<1>2. RowStep(p)
  BY <1>1, CheckpointRow, MarkRow, RejectRow DEF Record
<1>3. "rejected" \in TokenKind /\ (UNCHANGED tokens \/ Signs(p, "rejected"))
  BY DEF Record, TokenKind
<1>4. SignsAtMostOne(p) /\ (Signed(p, "completed")' => Signed(p, "completed"))
  BY <1>1, <1>3, SignedOther
<1>5. UNCHANGED <<reservationVars, calls>> /\ runner[p] = "calling"
  BY DEF Record
<1>6. RunnerRow(p) /\ runner'[p] = "none"
  BY <1>1, <1>5, RunnerOf, RunnerWritten DEF Record
<1>7. WorkStep(p)
  BY <1>4, <1>5, <1>6 DEF WorkStep
<1>8. QED
  BY <1>2, <1>4, <1>5, <1>6, <1>7 DEF GenerationMoves

LEMMA DieWork ==
    ASSUME ProtocolInv, NEW p \in Permit, RunnerDies(p), UNCHANGED now
    PROVE  GenerationMoves(p)
<1>1. FenceTypeOK /\ MessagesTypeOK
  BY DEF ProtocolInv, FenceInv
<1>2. UNCHANGED <<lease, attempt, generation, reservationVars, tokens, calls>>
  BY DEF RunnerDies, FenceRows
<1>3. RowStep(p)
  BY <1>1, <1>2, RowStepSame
<1>4. RunnerRow(p) /\ runner'[p] = "none"
  BY <1>1, <1>2, RunnerOf, RunnerWritten DEF RunnerDies
<1>5. SignsAtMostOne(p) /\ (Signed(p, "completed")' => Signed(p, "completed"))
  BY <1>2 DEF SignsAtMostOne, Signed
<1>6. WorkStep(p)
  BY <1>2, <1>4, <1>5, QuietWork
<1>7. QED
  BY <1>2, <1>3, <1>4, <1>5, <1>6 DEF GenerationMoves

LEMMA CompleteWork ==
    ASSUME ProtocolInv, NEW p \in Permit, Complete(p), UNCHANGED now
    PROVE  GenerationMoves(p)
<1>1. FenceTypeOK /\ MessagesTypeOK
  BY DEF ProtocolInv, FenceInv
<1>2. RowStep(p)
  BY <1>1, FinalizeRow DEF Complete
<1>3. \E s \in {"FAILED", "SUCCEEDED"} : attempt' = [attempt EXCEPT ![p].state = s]
  BY DEF Complete, Finalize
<1>4. attempt'[p].state # "CHECKPOINTED"
  BY <1>1, <1>3, AttemptStateSet DEF AttemptState
<1>5. /\ SignsAtMostOne(p)
      /\ Signed(p, "completed")' =>
             Signed(p, "completed") \/ generation'[p].status = "SUCCEEDED"
  BY <1>1, SignedOutcome DEF Complete
<1>6. RunnerRow(p) /\ UNCHANGED <<runner, calls, reservationVars>>
  BY <1>1, RunnerSame DEF Complete, Running
<1>7. WorkStep(p)
  BY <1>4, <1>5, <1>6 DEF WorkStep
<1>8. QED
  BY <1>2, <1>5, <1>6, <1>7 DEF GenerationMoves

LEMMA ConvergeQuiet ==
    ASSUME FenceTypeOK, NEW p \in Permit, Converge(p)
    PROVE  attempt'[p].state # "CHECKPOINTED" \/ attempt'[p] = attempt[p]
<1>1. ASSUME NEW a \in Attempt, attempt' = [attempt EXCEPT ![p] = a],
             TimedOut(p, lease[p], a, generation[p])
      PROVE  attempt'[p].state # "CHECKPOINTED"
  BY <1>1 DEF FenceTypeOK, TimedOut
<1>2. QED
  BY <1>1, ConvergeRow

LEMMA StatusWork ==
    ASSUME ProtocolInv, NEW p \in Permit, GenerationStatus(p), UNCHANGED now
    PROVE  GenerationMoves(p)
<1>1. FenceTypeOK /\ MessagesTypeOK
  BY DEF ProtocolInv, FenceInv
<1>2. RunnerRow(p) /\ UNCHANGED <<runner, calls, reservationVars>>
  BY <1>1, RunnerSame DEF GenerationStatus, SignTerminal, Running
<1>3. CASE SignTerminal(p)
  <2>1. UNCHANGED <<lease, attempt, generation>>
    BY <1>3 DEF SignTerminal, FenceRows
  <2>2. RowStep(p) /\ generation'[p] = generation[p]
    BY <1>1, <2>1, RowStepSame
  <2>3. Signs(p, Outcome(generation'[p]))
    BY <1>3, <2>2 DEF SignTerminal
  <2>4. /\ SignsAtMostOne(p)
        /\ Signed(p, "completed")' =>
               Signed(p, "completed") \/ generation'[p].status = "SUCCEEDED"
    BY <1>1, <2>3, SignedOutcome
  <2>5. WorkStep(p)
    BY <1>2, <2>1, <2>4 DEF WorkStep
  <2>6. QED
    BY <1>2, <2>2, <2>4, <2>5 DEF GenerationMoves
<1>4. ASSUME NEW r, LeaseStatus(p, r), UNCHANGED tokens \/ Signs(p, "no-lease")
      PROVE  GenerationMoves(p)
  <2>1. RowStep(p) /\ (attempt'[p].state # "CHECKPOINTED" \/ attempt'[p] = attempt[p])
    BY <1>1, <1>4, ConvergeOnlyRow, ConvergeQuiet DEF LeaseStatus
  <2>2. "no-lease" \in TokenKind
    BY DEF TokenKind
  <2>3. SignsAtMostOne(p) /\ (Signed(p, "completed")' => Signed(p, "completed"))
    BY <1>1, <1>4, <2>2, SignedOther
  <2>4. WorkStep(p)
    BY <1>2, <2>1, <2>3, QuietWork
  <2>5. QED
    BY <1>2, <2>1, <2>3, <2>4 DEF GenerationMoves
<1>5. QED
  BY <1>3, <1>4 DEF GenerationStatus

LEMMA CancelWork ==
    ASSUME ProtocolInv, NEW p \in Permit, GenerationCancel(p), UNCHANGED now
    PROVE  GenerationMoves(p)
<1>1. FenceTypeOK /\ MessagesTypeOK
  BY DEF ProtocolInv, FenceInv
<1>2. RunnerRow(p) /\ UNCHANGED <<runner, calls, reservationVars>>
  BY <1>1, RunnerSame DEF GenerationCancel, Running
<1>3. PICK r : /\ CancelExpired(p, r)
               /\ UNCHANGED tokens \/ Signs(p, "cancelled")
  BY DEF GenerationCancel
<1>4. RowStep(p) /\ (attempt'[p].state # "CHECKPOINTED" \/ attempt'[p] = attempt[p])
  BY <1>1, <1>3, CancelRow, ConvergeQuiet DEF CancelExpired
<1>5. "cancelled" \in TokenKind
  BY DEF TokenKind
<1>6. SignsAtMostOne(p) /\ (Signed(p, "completed")' => Signed(p, "completed"))
  BY <1>1, <1>3, <1>5, SignedOther
<1>7. WorkStep(p)
  BY <1>2, <1>4, <1>6, QuietWork
<1>8. QED
  BY <1>2, <1>4, <1>6, <1>7 DEF GenerationMoves

LEMMA GenerationStepOf ==
    ASSUME DetailInv, NEW p \in Permit, GenerationStep(p), UNCHANGED now
    PROVE  \A q \in Permit : StepOf(q)
<1>1. GenerationMoves(p)
  BY PrepareWork, ExecuteWork, CallWork, RecordWork, DieWork, CompleteWork,
     StatusWork, CancelWork DEF DetailInv, GenerationStep
<1>2. FenceInv /\ MessagesTypeOK
  BY DEF DetailInv, ProtocolInv
<1>3. /\ LeaseStep(p) /\ OutcomeStep(p)
      /\ \A q \in Permit \ {p} : /\ lease'[q] = lease[q]
                                 /\ attempt'[q] = attempt[q]
                                 /\ generation'[q] = generation[q]
  BY <1>1, <1>2, RowMoves DEF GenerationMoves
<1>4. UNCHANGED <<reservation, queue>>
  BY <1>1 DEF GenerationMoves, reservationVars
<1>5. ASSUME NEW q \in Permit \ {p} PROVE StepOf(q)
  <2>1. \A k \in TokenKind : Signed(q, k)' <=> Signed(q, k)
    BY <1>1, <1>2, SignedFrame DEF GenerationMoves
  <2>2. Still(q)
    BY <1>1, <1>3, <1>4, <2>1 DEF Still, GenerationMoves, RunnerRow
  <2>3. QED
    BY <2>2, StillStep DEF DetailInv
<1>6. StepOf(p)
  <2>1. \A k \in TokenKind : Signed(p, k) => Signed(p, k)'
    BY <1>1, TokensGrow DEF GenerationMoves
  <2>2. ReservationStep(p) /\ reservation'[p] = reservation[p]
    BY <1>4 DEF ReservationStep
  <2>3. QED
    BY <1>1, <1>3, <2>1, <2>2 DEF StepOf, GenerationMoves
<1>7. QED
  BY <1>5, <1>6

-----------------------------------------------------------------------------
(* Any step of the protocol *)

LEMMA ListStepOf ==
    ASSUME DetailInv, ContextListCandidates, UNCHANGED now
    PROVE  \A q \in Permit : StepOf(q)
<1>1. PICK claimed \in SUBSET Permit : ClaimDue(claimed)
  BY DEF ContextListCandidates
<1>2. /\ UNCHANGED reservation
      /\ \A q \in Permit : /\ queue'[q].due = queue[q].due
                           /\ queue'[q].leased = queue[q].leased
  BY <1>1, ClaimDueMoves DEF DetailInv, ProtocolInv
<1>3. UNCHANGED <<lease, attempt, generation, runner, calls, tokens>>
  BY DEF ContextListCandidates, FenceRows, Running
<1>4. ASSUME NEW q \in Permit PROVE StepOf(q)
  <2>1. Still(q)
    BY <1>2, <1>3 DEF Still, Signed
  <2>2. QED
    BY <2>1, StillStep DEF DetailInv
<1>5. QED
  BY <1>4

LEMMA QuietStepOf ==
    ASSUME DetailInv, UNCHANGED <<FenceRows, reservationVars, tokens, Running>>
    PROVE  \A q \in Permit : StepOf(q)
<1>1. ASSUME NEW q \in Permit PROVE StepOf(q)
  <2>1. Still(q)
    BY DEF Still, Signed, FenceRows, reservationVars, Running
  <2>2. QED
    BY <2>1, StillStep DEF DetailInv
<1>2. QED
  BY <1>1

\* What is known of the permits stays true.
Forwards == now' \in Nat /\ now <= now' /\ \A p \in Permit : Forward(p)

LEMMA DetailStep ==
    ASSUME DetailInv, [ProtocolNext]_protocolVars PROVE DetailInv' /\ Forwards
<1>1. ProtocolInv'
  BY ProtocolStepKeeps DEF DetailInv
<1>2. now \in Nat
  BY DEF DetailInv, ProtocolInv, AdmissionInv
<1>3. now' \in Nat /\ now <= now'
  <2>1. CASE UNCHANGED now
    BY <1>2, <2>1
  <2>2. CASE Tick
    BY <1>2, <2>2 DEF Tick
  <2>3. QED
    BY <2>1, <2>2 DEF ProtocolNext, ProtocolTick, protocolVars, fenceVars
<1>4. \A p \in Permit : StepOf(p)
  <2>1. ASSUME NEW p \in Permit, ContextStep(p), UNCHANGED now
        PROVE  \A q \in Permit : StepOf(q)
    BY <2>1, ContextStepOf
  <2>2. ASSUME NEW p \in Permit, GenerationStep(p), UNCHANGED now
        PROVE  \A q \in Permit : StepOf(q)
    BY <2>2, GenerationStepOf
  <2>3. CASE ContextListCandidates /\ UNCHANGED now
    BY <2>3, ListStepOf
  <2>4. CASE UNCHANGED <<FenceRows, reservationVars, tokens, Running>>
    BY <2>4, QuietStepOf
  <2>5. QED
    BY <2>1, <2>2, <2>3, <2>4
       DEF ProtocolNext, ProtocolTick, protocolVars, fenceVars, FenceRows, Running
<1>5. ASSUME NEW p \in Permit PROVE Earned(p)' /\ Queued(p)' /\ Forward(p)
  <2>1. StepOf(p) /\ Earned(p) /\ Queued(p) /\ ProtocolInv
    BY <1>4 DEF DetailInv
  <2>2. lease'[p].expires \in Nat
    <3>1. lease'[p] \in Lease
      BY <1>1 DEF ProtocolInv, FenceInv, FenceTypeOK
    <3>2. QED
      BY <3>1 DEF Lease
  <2>3. Queued(p)'
    BY <1>3, <2>1, <2>2, QueuedStep DEF StepOf
  <2>4. Earned(p)'
    BY <2>1, EarnedStep DEF StepOf
  <2>5. Forward(p)
    BY <1>3, <2>1, ForwardStep
  <2>6. QED
    BY <2>3, <2>4, <2>5
<1>6. QED
  BY <1>1, <1>3, <1>5 DEF DetailInv, Forwards

LEMMA DetailInit == ProtocolInit => DetailInv
<1> SUFFICES ASSUME ProtocolInit, NEW p \in Permit PROVE Earned(p) /\ Queued(p)
  BY ProtocolInitInv DEF DetailInv
<1>1. runner[p] = "none" /\ ~Signed(p, "completed")
  BY DEF ProtocolInit, Signed
<1>2. /\ attempt[p].state = "none" /\ generation[p].status # "SUCCEEDED"
      /\ lease[p].state = "none"
  BY DEF ProtocolInit, FenceInit, NoLease, NoAttempt, NoGeneration
<1>3. reservation[p].status = "none"
  BY DEF ProtocolInit, ReservationInit, NoReservation
<1>4. QED
  BY <1>1, <1>2, <1>3 DEF Earned, Queued

-----------------------------------------------------------------------------
(* What the coordinators and the reconciler know *)

Settles(p) == Signed(p, "completed") \/ Signed(p, "rejected")

\* What a coordinator concluded from an answer, and what its reviewer was told.
CoordinatorKnows(p) ==
    /\ stage[p] = "settling" => Settles(p)
    /\ shown[p] = "draft" =>
           reservation[p].status = "SETTLED" /\ Signed(p, "completed")
    /\ shown[p] = "accepted" => reservation[p].leased

\* What the reconciler concluded about a candidate on its way.
Knows(at, kind, p) ==
    /\ at # "refused"
    /\ at = "inspect" => Listed(p)
    /\ at \in {"status", "cancel", "recheck", "release"} =>
           kind \in {"never-leased", "expired-lease"}
    /\ at \in {"status", "cancel", "recheck", "release"} /\ kind = "never-leased" =>
           NeverLeased(p)
    /\ at \in {"status", "cancel", "recheck", "release"} /\ kind = "expired-lease" =>
           reservation[p].leased
    /\ at \in {"cancel", "recheck"} => kind = "expired-lease"
    /\ at = "settle" => Settles(p)
    /\ at = "release" =>
           Signed(p, IF kind = "never-leased" THEN "no-lease" ELSE "cancelled")

BffInv ==
    /\ DetailInv
    /\ stage \in [Permit -> Stage]
    /\ shown \in [Permit -> Shown]
    /\ rec \in [at : RecStep, of : Permit, kind : Kind, deaths : 0..MaxDeaths]
    /\ \A p \in Permit : CoordinatorKnows(p)
    /\ Knows(rec.at, rec.kind, rec.of)

LEMMA CoordinatorKept ==
    ASSUME NEW p \in Permit, Forward(p), CoordinatorKnows(p),
           stage'[p] = stage[p], shown'[p] = shown[p]
    PROVE  CoordinatorKnows(p)'
  BY DEF CoordinatorKnows, Forward, Settles, TokenKind

LEMMA KnowsKept ==
    ASSUME NEW p \in Permit, Forward(p), NEW at, NEW kind, Knows(at, kind, p)
    PROVE  Knows(at, kind, p)'
<1>1. /\ Settles(p) => Settles(p)'
      /\ Signed(p, "no-lease") => Signed(p, "no-lease")'
      /\ Signed(p, "cancelled") => Signed(p, "cancelled")'
  BY DEF Forward, Settles, TokenKind
<1>2. /\ Listed(p) => Listed(p)'
      /\ NeverLeased(p) => NeverLeased(p)'
      /\ reservation[p].leased => reservation'[p].leased
  BY DEF Forward
<1>3. QED
  BY <1>1, <1>2 DEF Knows

-----------------------------------------------------------------------------
(* A coordinator *)

\* What a step does to what one reviewer is told, and on what grounds.
Told(p, s, e) ==
    /\ stage' = [stage EXCEPT ![p] = s]
    /\ shown' = [shown EXCEPT ![p] = e]
    /\ s = "settling" => Settles(p)
    /\ e = "draft" => \/ shown[p] = "draft"
                      \/ reservation'[p].status = "SETTLED" /\ Signed(p, "completed")
    /\ e = "accepted" => shown[p] = "accepted" \/ reservation'[p].status = "REDEEMED"

Tells(p) == \E s \in Stage, e \in Shown : Told(p, s, e)

LEMMA GotoTells ==
    ASSUME shown \in [Permit -> Shown], NEW p \in Permit, NEW s \in Stage,
           s = "settling" => Settles(p), Goto(p, s)
    PROVE  Tells(p)
<1>1. shown[p] \in Shown /\ shown' = [shown EXCEPT ![p] = shown[p]]
  BY DEF Goto
<1>2. Told(p, s, shown[p])
  BY <1>1 DEF Goto, Told
<1>3. QED
  BY <1>1, <1>2 DEF Tells

LEMMA UnavailableTells ==
    ASSUME NEW p \in Permit, Unavailable(p) PROVE Tells(p)
<1>1. Told(p, "ended", "GENERATION_FAILED")
  BY DEF Unavailable, End, Told
<1>2. QED
  BY <1>1 DEF Tells, Stage, Shown

\* A step of the protocol, or one that leaves it alone.
Moves == [ProtocolNext]_protocolVars

LEMMA ContextMovesIt ==
    ASSUME NEW p \in Permit, ContextStep(p), UNCHANGED now PROVE Moves
  BY DEF Moves, ProtocolNext

LEMMA GenerationMovesIt ==
    ASSUME NEW p \in Permit, GenerationStep(p), UNCHANGED now PROVE Moves
  BY DEF Moves, ProtocolNext

LEMMA NothingMoves == ASSUME NoEffect, UNCHANGED now PROVE Moves
  BY DEF Moves, NoEffect, protocolVars, fenceVars, FenceRows, Running

LEMMA BffPrepareStep ==
    ASSUME BffInv, NEW p \in Permit, BffPrepare(p), UNCHANGED now
    PROVE  Moves /\ Tells(p)
<1>1. Moves
  BY ContextMovesIt, NothingMoves DEF BffPrepare, ContextStep
<1>2. "prepared" \in Stage /\ shown \in [Permit -> Shown]
  BY DEF Stage, BffInv
<1>3. Tells(p)
  BY <1>2, GotoTells, UnavailableTells DEF BffPrepare
<1>4. QED
  BY <1>1, <1>3

LEMMA BffLeaseStep ==
    ASSUME BffInv, NEW p \in Permit, BffLease(p), UNCHANGED now
    PROVE  Moves /\ Tells(p)
<1>1. ASSUME NEW r \in {"leased", "PERMIT_EXPIRED"}, GenerationPrepare(p, r)
      PROVE  Moves
  BY <1>1, GenerationMovesIt DEF GenerationStep
<1>2. Moves
  BY <1>1, NothingMoves DEF BffLease
<1>3. "leased" \in Stage /\ shown \in [Permit -> Shown]
  BY DEF Stage, BffInv
<1>4. Tells(p)
  BY <1>3, GotoTells, UnavailableTells DEF BffLease
<1>5. QED
  BY <1>2, <1>4

LEMMA BffActivateStep ==
    ASSUME BffInv, NEW p \in Permit, BffActivate(p), UNCHANGED now
    PROVE  Moves /\ Tells(p)
<1>1. ASSUME NEW r \in {"activated", "rejected"}, ContextActivate(p, r)
      PROVE  Moves
  BY <1>1, ContextMovesIt DEF ContextStep
<1>2. Moves
  BY <1>1, NothingMoves DEF BffActivate
<1>3. ASSUME ContextActivate(p, "activated")
      PROVE  reservation'[p].status = "REDEEMED"
  <2>1. Activate(p, lease[p].expires, "activated")
    BY <1>3 DEF ContextActivate
  <2>2. AdmissionInv /\ lease[p].expires \in Nat
    BY Numbers DEF BffInv, DetailInv, ProtocolInv
  <2>3. QED
    BY <2>1, <2>2, ActivateMoves
<1>4. ASSUME ContextActivate(p, "activated"),
             stage' = [stage EXCEPT ![p] = "activated"],
             shown' = [shown EXCEPT ![p] = "accepted"]
      PROVE  Tells(p)
  <2>1. Told(p, "activated", "accepted")
    BY <1>3, <1>4 DEF Told
  <2>2. QED
    BY <2>1 DEF Tells, Stage, Shown
<1>5. Tells(p)
  BY <1>4, UnavailableTells DEF BffActivate
<1>6. QED
  BY <1>2, <1>5

LEMMA BffExecuteStep ==
    ASSUME BffInv, NEW p \in Permit, BffExecute(p), UNCHANGED now
    PROVE  Moves /\ Tells(p)
<1>1. Moves
  BY GenerationMovesIt, NothingMoves DEF BffExecute, GenerationStep
<1>2. "executing" \in Stage /\ shown \in [Permit -> Shown]
  BY DEF Stage, BffInv
<1>3. Tells(p)
  BY <1>2, GotoTells, UnavailableTells DEF BffExecute
<1>4. QED
  BY <1>1, <1>3

LEMMA BffAwaitStep ==
    ASSUME BffInv, NEW p \in Permit, BffAwait(p), UNCHANGED now
    PROVE  Moves /\ Tells(p)
<1>1. Moves
  BY NothingMoves DEF BffAwait
<1>2. "settling" \in Stage /\ shown \in [Permit -> Shown]
  BY DEF Stage, BffInv
<1>3. Tells(p)
  BY <1>2, GotoTells, UnavailableTells DEF BffAwait, Settles
<1>4. QED
  BY <1>1, <1>3

\* A reservation that settles for good or has done so is settled after it.
LEMMA SettledIs ==
    ASSUME AdmissionInv, NEW p \in Permit, Settle(p, "settled"), UNCHANGED now
    PROVE  reservation'[p].status = "SETTLED"
<1>1. CASE Close(p, "SETTLED")
  BY <1>1, CloseMoves
<1>2. CASE reservation[p].status = "SETTLED" /\ UNCHANGED reservation
  BY <1>2
<1>3. QED
  BY <1>1, <1>2 DEF Settle

\* A coordinator settles on a signed outcome, so its call is one of Context's.
LEMMA BffSettleStep ==
    ASSUME BffInv, NEW p \in Permit, BffSettle(p), UNCHANGED now
    PROVE  Moves /\ Tells(p)
<1>1. Settles(p) /\ AdmissionInv
  BY DEF BffSettle, BffInv, CoordinatorKnows, DetailInv, ProtocolInv
<1>2. ASSUME Settle(p, "settled"), UNCHANGED <<FenceRows, Running, tokens>>,
             End(p, IF Signed(p, "completed") THEN "draft" ELSE "rejection")
      PROVE  ContextSettle(p) /\ Tells(p)
  <2>1. ContextSettle(p)
    BY <1>1, <1>2 DEF ContextSettle, Settles
  <2>2. reservation'[p].status = "SETTLED"
    BY <1>1, <1>2, SettledIs
  <2>3. PICK e \in {"draft", "rejection"} :
          End(p, e) /\ (e = "draft" => Signed(p, "completed"))
    BY <1>2
  <2>4. Told(p, "ended", e)
    BY <2>2, <2>3 DEF End, Told
  <2>5. QED
    BY <2>1, <2>3, <2>4 DEF Tells, Stage, Shown
<1>3. Moves
  BY <1>2, ContextMovesIt, NothingMoves DEF BffSettle, ContextStep
<1>4. Tells(p)
  BY <1>2, UnavailableTells DEF BffSettle
<1>5. QED
  BY <1>3, <1>4

\* What a coordinator tells is true, and what the others were told stays so.
LEMMA ToldKeeps ==
    ASSUME BffInv, Moves, NEW p \in Permit, Tells(p), UNCHANGED rec
    PROVE  BffInv'
<1>1. DetailInv' /\ Forwards
  BY DetailStep DEF BffInv, Moves
<1>2. PICK s \in Stage, e \in Shown : Told(p, s, e)
  BY DEF Tells
<1>3. /\ stage' \in [Permit -> Stage] /\ shown' \in [Permit -> Shown]
      /\ stage'[p] = s /\ shown'[p] = e
      /\ \A q \in Permit \ {p} : stage'[q] = stage[q] /\ shown'[q] = shown[q]
  BY <1>2 DEF BffInv, Told
<1>4. CoordinatorKnows(p)'
  <2>1. /\ Settles(p) => Settles(p)'
        /\ Signed(p, "completed") => Signed(p, "completed")'
        /\ reservation[p].leased => reservation'[p].leased
        /\ reservation[p].status = "SETTLED" => reservation'[p].status = "SETTLED"
    BY <1>1 DEF Forwards, Forward, Settles, TokenKind
  <2>2. reservation'[p].status = "REDEEMED" => reservation'[p].leased
    BY <1>1 DEF DetailInv, ProtocolInv, PermitInv, PlanesAgree
  <2>3. CoordinatorKnows(p)
    BY DEF BffInv
  <2>4. QED
    BY <1>2, <1>3, <2>1, <2>2, <2>3 DEF Told, CoordinatorKnows
<1>5. ASSUME NEW q \in Permit \ {p} PROVE CoordinatorKnows(q)'
  BY <1>1, <1>3, CoordinatorKept DEF BffInv, Forwards
<1>6. Knows(rec.at, rec.kind, rec.of)'
  <2>1. rec.of \in Permit /\ Forward(rec.of)
    BY <1>1 DEF BffInv, Forwards
  <2>2. PICK at, kind, q : at = rec.at /\ kind = rec.kind /\ q = rec.of
    OBVIOUS
  <2>3. Knows(at, kind, q)'
    BY <2>1, <2>2, KnowsKept DEF BffInv
  <2>4. QED
    BY <2>2, <2>3
<1>7. QED
  BY <1>1, <1>3, <1>4, <1>5, <1>6 DEF BffInv

LEMMA CoordinatorStep ==
    ASSUME BffInv, NEW p \in Permit, Coordinator(p) PROVE Moves /\ BffInv'
<1>1. UNCHANGED <<now, rec>>
  BY DEF Coordinator
<1>2. Moves /\ Tells(p)
  BY <1>1, BffPrepareStep, BffLeaseStep, BffActivateStep, BffExecuteStep,
     BffAwaitStep, BffSettleStep DEF Coordinator
<1>3. QED
  BY <1>1, <1>2, ToldKeeps

\* A step that leaves the coordinators and the reconciler where they are.
LEMMA OthersKeep ==
    ASSUME BffInv, Moves, UNCHANGED <<stage, shown, rec>> PROVE BffInv'
<1>1. DetailInv' /\ Forwards
  BY DetailStep DEF BffInv, Moves
<1>2. ASSUME NEW q \in Permit PROVE CoordinatorKnows(q)'
  BY <1>1, CoordinatorKept DEF BffInv, Forwards
<1>3. Knows(rec.at, rec.kind, rec.of)'
  <2>1. rec.of \in Permit /\ Forward(rec.of)
    BY <1>1 DEF BffInv, Forwards
  <2>2. PICK at, kind, q : at = rec.at /\ kind = rec.kind /\ q = rec.of
    OBVIOUS
  <2>3. Knows(at, kind, q)'
    BY <2>1, <2>2, KnowsKept DEF BffInv
  <2>4. QED
    BY <2>2, <2>3
<1>4. QED
  BY <1>1, <1>2, <1>3 DEF BffInv

-----------------------------------------------------------------------------
(* The reconciler *)

RecType == [at : RecStep, of : Permit, kind : Kind, deaths : 0..MaxDeaths]

\* A step of the reconciler that leaves it with what it knows.
LEMMA RecKeeps ==
    ASSUME BffInv, Moves, UNCHANGED <<stage, shown>>,
           NEW at, NEW kind, NEW p, Knows(at, kind, p)',
           rec' \in RecType, rec'.at = at, rec'.kind = kind, rec'.of = p
    PROVE  BffInv'
<1>1. DetailInv' /\ Forwards
  BY DetailStep DEF BffInv, Moves
<1>2. ASSUME NEW q \in Permit PROVE CoordinatorKnows(q)'
  BY <1>1, CoordinatorKept DEF BffInv, Forwards
<1>3. QED
  BY <1>1, <1>2 DEF BffInv, RecType

LEMMA RecGoes ==
    ASSUME BffInv, Moves, UNCHANGED <<stage, shown>>, NEW kind, NEW p,
           kind = rec.kind, p = rec.of,
           NEW at \in RecStep, Knows(at, kind, p)', RecGoto(at)
    PROVE  BffInv'
<1>1. rec \in RecType
  BY DEF BffInv, RecType
<1>2. PICK r : r = [rec EXCEPT !.at = at]
  OBVIOUS
<1>3. r \in RecType /\ r.at = at /\ r.kind = kind /\ r.of = p
  BY <1>1, <1>2 DEF RecType
<1>4. rec' = r
  BY <1>2 DEF RecGoto
<1>5. QED
  BY <1>3, <1>4, RecKeeps

\* A candidate that is left for a later run.
LEMMA RecDefers ==
    ASSUME BffInv, Moves, UNCHANGED <<stage, shown>>, RecGoto("idle")
    PROVE  BffInv'
<1>1. PICK kind, p : kind = rec.kind /\ p = rec.of
  OBVIOUS
<1>2. Knows("idle", kind, p)'
  BY DEF Knows
<1>3. "idle" \in RecStep
  BY DEF RecStep
<1>4. QED
  BY <1>1, <1>2, <1>3, RecGoes

LEMMA RecListStep ==
    ASSUME BffInv, RecList, UNCHANGED <<now, stage, shown>>
    PROVE  Moves /\ BffInv'
<1>1. PICK p \in Permit :
        /\ ClaimDue({q \in Permit : Due(q)}) /\ Due(p)
        /\ rec' = [rec EXCEPT !.at = "inspect", !.of = p, !.kind = "none"]
  BY DEF RecList
<1>2. ContextListCandidates
  BY <1>1 DEF RecList, ContextListCandidates
<1>3. Moves
  BY <1>2 DEF Moves, ProtocolNext
<1>4. Listed(p)
  <2>1. Live(p) /\ queue[p].due <= now
    BY <1>1 DEF Due, BffInv, DetailInv, ProtocolInv, AdmissionInv, LiveHoldsPlace
  <2>2. Queued(p)
    BY DEF BffInv, DetailInv
  <2>3. QED
    BY <2>1, <2>2 DEF Queued, Listed, Live
<1>5. Listed(p)'
  BY <1>3, <1>4, DetailStep DEF BffInv, Moves, Forwards, Forward
<1>6. Knows("inspect", "none", p)'
  BY <1>5 DEF Knows
<1>7. PICK r : r = [rec EXCEPT !.at = "inspect", !.of = p, !.kind = "none"]
  OBVIOUS
<1>8. r \in RecType /\ r.at = "inspect" /\ r.kind = "none" /\ r.of = p
  <2>1. rec \in RecType
    BY DEF BffInv, RecType
  <2>2. "inspect" \in RecStep /\ "none" \in Kind
    BY DEF RecStep, Kind
  <2>3. QED
    BY <1>7, <2>1, <2>2 DEF RecType
<1>9. rec' = r
  BY <1>1, <1>7
<1>10. QED
  BY <1>3, <1>6, <1>8, <1>9, RecKeeps

\* A reservation that is due and was not activated never will be.
LEMMA RecInspectStep ==
    ASSUME BffInv, RecInspect, UNCHANGED <<now, stage, shown>>
    PROVE  Moves /\ BffInv'
<1>1. Moves
  BY NothingMoves DEF RecInspect
<1>2. PICK p \in Permit : p = rec.of
  BY DEF BffInv
<1>3. CASE Live(p)
  <2>1. PICK kind \in {"never-leased", "expired-lease"} :
          /\ rec' = [rec EXCEPT !.at = "status", !.kind = kind]
          /\ kind = "expired-lease" <=> reservation[p].leased
    <3>1. PICK kind : kind = IF reservation[rec.of].leased
                             THEN "expired-lease" ELSE "never-leased"
      OBVIOUS
    <3>2. rec' = [rec EXCEPT !.at = "status", !.kind = kind]
      BY <1>2, <1>3, <3>1 DEF RecInspect
    <3>3. QED
      BY <1>2, <3>1, <3>2
  <2>2. Listed(p) /\ PlanesAgree(p)
    BY <1>2 DEF RecInspect, BffInv, Knows, DetailInv, ProtocolInv, PermitInv
  <2>3. kind = "never-leased" => NeverLeased(p)
    BY <1>3, <2>1, <2>2 DEF NeverLeased, PlanesAgree, Live
  <2>4. Forward(p)
    BY <1>1, DetailStep DEF BffInv, Moves, Forwards
  <2>5. Knows("status", kind, p)'
    BY <2>1, <2>3, <2>4 DEF Knows, Forward
  <2>6. PICK r : r = [rec EXCEPT !.at = "status", !.kind = kind]
    OBVIOUS
  <2>7. r \in RecType /\ r.at = "status" /\ r.kind = kind /\ r.of = p
    <3>1. rec \in RecType
      BY DEF BffInv, RecType
    <3>2. "status" \in RecStep /\ kind \in Kind
      BY DEF RecStep, Kind
    <3>3. QED
      BY <1>2, <2>6, <3>1, <3>2 DEF RecType
  <2>8. rec' = r
    BY <2>1, <2>6
  <2>9. QED
    BY <1>1, <2>5, <2>7, <2>8, RecKeeps
<1>4. CASE ~Live(p)
  <2>1. RecGoto("idle")
    BY <1>2, <1>4 DEF RecInspect, RecGoto
  <2>2. QED
    BY <1>1, <2>1, RecDefers
<1>5. QED
  BY <1>3, <1>4

\* A terminal that is signed lets the reconciler settle.
LEMMA RecTerminal ==
    ASSUME BffInv, Moves, UNCHANGED <<stage, shown>>, NEW p, p = rec.of,
           NEW row, Signs(p, Outcome(row)), RecGoto("settle")
    PROVE  BffInv'
<1>1. Settles(p)'
  BY DEF Settles, Signs, Signed, Outcome
<1>2. PICK kind : kind = rec.kind
  OBVIOUS
<1>3. Knows("settle", kind, p)'
  BY <1>1 DEF Knows
<1>4. "settle" \in RecStep
  BY DEF RecStep
<1>5. QED
  BY <1>2, <1>3, <1>4, RecGoes

LEMMA RecStatusStep ==
    ASSUME BffInv, RecStatus, UNCHANGED <<now, stage, shown>>
    PROVE  Moves /\ BffInv'
<1>1. PICK p \in Permit : p = rec.of
  BY DEF BffInv
<1>2. PICK kind : kind = rec.kind
  OBVIOUS
<1>3. Knows("status", kind, p)
  BY <1>1, <1>2 DEF RecStatus, BffInv
<1>4. CASE Complete(p) /\ RecGoto("settle")
  <2>1. Moves
    BY <1>4, GenerationMovesIt DEF GenerationStep
  <2>2. PICK row : Signs(p, Outcome(row))
    BY <1>4 DEF Complete
  <2>3. QED
    BY <1>1, <1>4, <2>1, <2>2, RecTerminal
<1>5. CASE SignTerminal(p) /\ RecGoto("settle")
  <2>1. Moves
    BY <1>5, GenerationMovesIt DEF GenerationStep, GenerationStatus
  <2>2. PICK row : Signs(p, Outcome(row))
    BY <1>5 DEF SignTerminal
  <2>3. QED
    BY <1>1, <1>5, <2>1, <2>2, RecTerminal
<1>6. ASSUME NEW r \in StatusReply \ {"terminal"}, LeaseStatus(p, r),
             IF r = "no-lease" THEN Signs(p, r) ELSE UNCHANGED tokens,
             CASE kind = "never-leased" ->
                      IF r = "no-lease" THEN RecGoto("release") ELSE Deferred
               [] kind # "never-leased" /\ r \in {"running", "indeterminate"} -> Deferred
               [] OTHER -> RecGoto("cancel"),
             UNCHANGED <<reservationVars, Running>>
      PROVE  Moves /\ BffInv'
  <2>1. GenerationStatus(p)
    BY <1>6 DEF GenerationStatus
  <2>2. Moves
    BY <2>1, GenerationMovesIt DEF GenerationStep
  <2>3. Forward(p)
    BY <2>2, DetailStep DEF BffInv, Moves, Forwards
  <2>4. CASE Deferred
    BY <2>2, <2>4, RecDefers DEF Deferred
  <2>5. CASE kind = "never-leased" /\ r = "no-lease" /\ RecGoto("release")
    <3>1. Signed(p, "no-lease")'
      BY <1>6, <2>5 DEF Signs, Signed
    <3>2. Knows("release", kind, p)' /\ "release" \in RecStep
      BY <1>3, <2>3, <2>5, <3>1 DEF Knows, Forward, RecStep
    <3>3. QED
      BY <1>1, <1>2, <2>2, <2>5, <3>2, RecGoes
  <2>6. CASE kind # "never-leased" /\ RecGoto("cancel")
    <3>1. Knows("cancel", kind, p)' /\ "cancel" \in RecStep
      BY <1>3, <2>3, <2>6 DEF Knows, Forward, RecStep
    <3>2. QED
      BY <1>1, <1>2, <2>2, <2>6, <3>1, RecGoes
  <2>7. QED
    BY <1>6, <2>4, <2>5, <2>6
<1>7. QED
  BY <1>1, <1>2, <1>4, <1>5, <1>6 DEF RecStatus

LEMMA RecCancelStep ==
    ASSUME BffInv, RecCancel, UNCHANGED <<now, stage, shown>>
    PROVE  Moves /\ BffInv'
<1>1. PICK p \in Permit : p = rec.of
  BY DEF BffInv
<1>2. PICK kind : kind = rec.kind
  OBVIOUS
<1>3. Knows("cancel", kind, p)
  BY <1>1, <1>2 DEF RecCancel, BffInv
<1>4. PICK r \in CancelReply :
        /\ CancelExpired(p, r)
        /\ IF r = "cancelled" THEN Signs(p, r) ELSE UNCHANGED tokens
        /\ CASE r = "cancelled" -> RecGoto("release")
             [] r = "terminal" -> RecGoto("recheck")
             [] OTHER -> Deferred
  BY <1>1 DEF RecCancel
<1>5. GenerationCancel(p)
  BY <1>1, <1>4 DEF RecCancel, GenerationCancel
<1>6. Moves
  BY <1>5, GenerationMovesIt DEF GenerationStep
<1>7. Forward(p)
  BY <1>6, DetailStep DEF BffInv, Moves, Forwards
<1>8. CASE Deferred
  BY <1>6, <1>8, RecDefers DEF Deferred
<1>9. CASE r = "cancelled" /\ RecGoto("release")
  <2>1. Signed(p, "cancelled")'
    BY <1>4, <1>9 DEF Signs, Signed
  <2>2. Knows("release", kind, p)' /\ "release" \in RecStep
    BY <1>3, <1>7, <2>1 DEF Knows, Forward, RecStep
  <2>3. QED
    BY <1>1, <1>2, <1>6, <1>9, <2>2, RecGoes
<1>10. CASE RecGoto("recheck")
  <2>1. Knows("recheck", kind, p)' /\ "recheck" \in RecStep
    BY <1>3, <1>7 DEF Knows, Forward, RecStep
  <2>2. QED
    BY <1>1, <1>2, <1>6, <1>10, <2>1, RecGoes
<1>11. QED
  BY <1>4, <1>8, <1>9, <1>10

LEMMA RecRecheckStep ==
    ASSUME BffInv, RecRecheck, UNCHANGED <<now, stage, shown>>
    PROVE  Moves /\ BffInv'
<1>1. PICK p \in Permit : p = rec.of
  BY DEF BffInv
<1>2. CASE SignTerminal(p) /\ RecGoto("settle")
  <2>1. Moves
    BY <1>2, GenerationMovesIt DEF GenerationStep, GenerationStatus
  <2>2. PICK row : Signs(p, Outcome(row))
    BY <1>2 DEF SignTerminal
  <2>3. QED
    BY <1>1, <1>2, <2>1, <2>2, RecTerminal
<1>3. CASE Deferred /\ NoEffect
  BY <1>3, NothingMoves, RecDefers DEF Deferred
<1>4. QED
  BY <1>1, <1>2, <1>3 DEF RecRecheck

\* Context settles what is signed as ended: it is redeemed, or settled already.
LEMMA RecSettleStep ==
    ASSUME BffInv, RecSettle, UNCHANGED <<now, stage, shown>>
    PROVE  Moves /\ BffInv'
<1>1. PICK p \in Permit : p = rec.of
  BY DEF BffInv
<1>2. PICK r \in {"settled", "rejected", "error"} :
        /\ Settle(p, r)
        /\ RecGoto(IF r = "settled" THEN "idle" ELSE "refused")
  BY <1>1 DEF RecSettle
<1>3. Settles(p)
  BY <1>1 DEF RecSettle, BffInv, Knows
<1>4. ContextSettle(p)
  BY <1>2, <1>3 DEF RecSettle, ContextSettle, Settles
<1>5. Moves
  BY <1>4, ContextMovesIt DEF ContextStep
<1>6. reservation[p].status \in {"REDEEMED", "SETTLED"}
  <2>1. TokensTrue(p) /\ PlanesAgree(p)
    BY DEF BffInv, DetailInv, ProtocolInv, PermitInv
  <2>2. QED
    BY <1>3, <2>1 DEF TokensTrue, PlanesAgree, Settles
<1>7. reservation[p].status = "REDEEMED" => queue[p].present
  BY DEF BffInv, DetailInv, ProtocolInv, AdmissionInv, LiveHoldsPlace, Live
<1>8. r = "settled"
  BY <1>2, <1>6, <1>7 DEF Settle
<1>9. RecGoto("idle")
  BY <1>2, <1>8
<1>10. QED
  BY <1>5, <1>9, RecDefers

\* ... and releases what no provider was called for.
LEMMA RecReleaseStep ==
    ASSUME BffInv, RecRelease, UNCHANGED <<now, stage, shown>>
    PROVE  Moves /\ BffInv'
<1>1. PICK p \in Permit : p = rec.of
  BY DEF BffInv
<1>2. PICK kind : kind = rec.kind
  OBVIOUS
<1>3. PICK outcome : outcome = IF kind = "never-leased" THEN "no-lease" ELSE "cancelled"
  OBVIOUS
<1>4. PICK r \in {"released", "rejected"} :
        /\ Release(p, outcome, r)
        /\ RecGoto(IF r = "released" THEN "idle" ELSE "refused")
  BY <1>1, <1>2, <1>3 DEF RecRelease
<1>5. Knows("release", kind, p)
  BY <1>1, <1>2 DEF RecRelease, BffInv
<1>6. Signed(p, outcome) /\ outcome \in {"no-lease", "cancelled"}
  BY <1>3, <1>5 DEF Knows
<1>7. ContextRelease(p)
  BY <1>4, <1>6 DEF RecRelease, ContextRelease
<1>8. Moves
  BY <1>7, ContextMovesIt DEF ContextStep
<1>9. /\ TokensTrue(p) /\ PlanesAgree(p) /\ Queued(p)
      /\ Live(p) => queue[p].present
      /\ now \in Nat /\ reservation[p] \in Reservation
  BY RowOf DEF BffInv, DetailInv, ProtocolInv, PermitInv, AdmissionInv, LiveHoldsPlace
<1>10. \/ Releasable(p, outcome)
       \/ /\ reservation[p].status = "RELEASED"
          /\ reservation[p].leased <=> outcome = "cancelled"
  <2>1. CASE kind = "never-leased"
    <3>1. NeverLeased(p) /\ outcome = "no-lease"
      BY <1>3, <1>5, <2>1 DEF Knows
    <3>2. CASE reservation[p].status = "RESERVED"
      BY <1>9, <3>1, <3>2 DEF NeverLeased, Listed, Queued, Live, Releasable
    <3>3. CASE reservation[p].status = "RELEASED"
      BY <3>1, <3>3 DEF NeverLeased
    <3>4. QED
      BY <3>1, <3>2, <3>3 DEF NeverLeased
  <2>2. CASE kind = "expired-lease"
    <3>1. reservation[p].leased /\ outcome = "cancelled"
      BY <1>3, <1>5, <2>2 DEF Knows
    <3>2. lease[p].state = "CANCELLED" /\ lease[p].expires <= now
      BY <1>6, <1>9, <3>1 DEF TokensTrue, Queued
    <3>3. reservation[p].status \in {"REDEEMED", "RELEASED"}
      BY <1>9, <3>1, <3>2 DEF PlanesAgree, Reservation, ReservationStatus
    <3>4. CASE reservation[p].status = "REDEEMED"
      BY <1>9, <3>1, <3>2, <3>4 DEF Queued, Live, Releasable
    <3>5. QED
      BY <3>1, <3>3, <3>4
  <2>3. QED
    BY <1>5, <2>1, <2>2 DEF Knows
<1>11. r = "released"
  BY <1>4, <1>10 DEF Release
<1>12. RecGoto("idle")
  BY <1>4, <1>11
<1>13. QED
  BY <1>8, <1>12, RecDefers

LEMMA RecDiesStep ==
    ASSUME BffInv, RecDies, UNCHANGED <<now, stage, shown>>
    PROVE  Moves /\ BffInv'
<1>1. Moves
  BY NothingMoves DEF RecDies
<1>2. PICK r : r = [rec EXCEPT !.at = "idle", !.deaths = @ + 1]
  OBVIOUS
<1>3. r \in RecType /\ r.at = "idle" /\ r.kind = rec.kind /\ r.of = rec.of
  <2>1. rec \in RecType /\ rec.deaths < MaxDeaths
    BY DEF BffInv, RecType, RecDies
  <2>2. rec.deaths \in 0..MaxDeaths
    BY <2>1 DEF RecType
  <2>3. rec.deaths + 1 \in 0..MaxDeaths /\ "idle" \in RecStep
    BY <2>1, <2>2, BffAssumption DEF RecStep
  <2>4. QED
    BY <1>2, <2>1, <2>3 DEF RecType
<1>4. rec' = r
  BY <1>2 DEF RecDies
<1>5. PICK kind, p : kind = rec.kind /\ p = rec.of
  OBVIOUS
<1>6. Knows("idle", kind, p)'
  BY DEF Knows
<1>7. QED
  BY <1>1, <1>3, <1>4, <1>5, <1>6, RecKeeps

LEMMA ReconcilerStep == ASSUME BffInv, Reconciler PROVE Moves /\ BffInv'
  BY RecListStep, RecInspectStep, RecStatusStep, RecCancelStep, RecRecheckStep,
     RecSettleStep, RecReleaseStep, RecDiesStep DEF Reconciler, RecProgress

-----------------------------------------------------------------------------
(* The theorems *)

LEMMA BffInitInv == BffInit => BffInv
<1> SUFFICES ASSUME BffInit PROVE BffInv
  OBVIOUS
<1>1. DetailInv
  BY DetailInit DEF BffInit
<1>2. stage \in [Permit -> Stage] /\ shown \in [Permit -> Shown]
  BY DEF BffInit, Stage, Shown
<1>3. rec \in [at : {"idle"}, of : Permit, kind : {"none"}, deaths : {0}]
  BY DEF BffInit
<1>4. rec \in RecType /\ rec.at = "idle"
  BY <1>3, BffAssumption DEF RecType, RecStep, Kind
<1>5. Knows(rec.at, rec.kind, rec.of)
  BY <1>4 DEF Knows
<1>6. \A p \in Permit : CoordinatorKnows(p)
  BY DEF BffInit, CoordinatorKnows
<1>7. QED
  BY <1>1, <1>2, <1>4, <1>5, <1>6 DEF BffInv, RecType

LEMMA RunnerStep ==
    ASSUME BffInv, NEW p \in Permit, Runner(p) PROVE Moves /\ BffInv'
<1>1. Moves
  BY GenerationMovesIt DEF Runner, GenerationStep
<1>2. QED
  BY <1>1, OthersKeep DEF Runner

LEMMA BffStepKeeps ==
    ASSUME BffInv, [BffNext]_bffVars PROVE Moves /\ BffInv'
<1>1. CASE BffTick
  <2>1. Moves
    BY <1>1 DEF BffTick, Moves, ProtocolNext
  <2>2. QED
    BY <1>1, <2>1, OthersKeep DEF BffTick
<1>2. CASE UNCHANGED bffVars
  <2>1. Moves
    BY <1>2 DEF bffVars, Moves
  <2>2. QED
    BY <1>2, <2>1, OthersKeep DEF bffVars
<1>3. QED
  BY <1>1, <1>2, CoordinatorStep, RunnerStep, ReconcilerStep DEF BffNext

\* In every state of the BFF, of its services and of its reconciler, what each of
\* them concluded from an answer is still true.
THEOREM BffSafety == BffSpec => []BffInv
<1>1. BffInit => BffInv
  BY BffInitInv
<1>2. BffInv /\ [BffNext]_bffVars => BffInv'
  BY BffStepKeeps
<1>3. QED
  BY <1>1, <1>2, PTL DEF BffSpec

\* What the BFF does with the two services is one of the behaviours of their
\* signed tokens: whatever is true of the protocol is true of it.
THEOREM BffImplementsProtocol == BffSpec => ProtocolSpec
<1>1. BffInit => ProtocolInit
  BY DEF BffInit
<1>2. BffInv /\ [BffNext]_bffVars => [ProtocolNext]_protocolVars
  BY BffStepKeeps DEF Moves
<1>3. QED
  BY <1>1, <1>2, BffSafety, PTL DEF BffSpec, ProtocolSpec

\* The state of the BFF is well typed.
THEOREM BffTyped == BffSpec => []BffTypeOK
<1>1. BffInv => BffTypeOK
  BY DEF BffInv, DetailInv, ProtocolInv, FenceInv, AdmissionInv, MessagesTypeOK,
         ProtocolTypeOK, BffTypeOK
<1>2. QED
  BY <1>1, BffSafety, PTL

\* A reviewer sees a draft only after it is stored and paid for, and is told
\* "accepted" only for a request whose reservation was redeemed.
THEOREM ShownSettledTheorem == BffSpec => []ShownIsSettled
<1>1. BffInv => ShownIsSettled
  <2> SUFFICES ASSUME BffInv, NEW p \in Permit
               PROVE  /\ shown[p] = "draft" =>
                             /\ reservation[p].status = "SETTLED"
                             /\ generation[p].status = "SUCCEEDED"
                             /\ calls[p] = 1
                      /\ shown[p] = "accepted" =>
                             /\ reservation[p].leased
                             /\ reservation[p].status # "RESERVED"
    BY DEF ShownIsSettled
  <2>1. CoordinatorKnows(p) /\ Earned(p) /\ PlanesAgree(p)
    BY DEF BffInv, DetailInv, ProtocolInv, PermitInv
  <2>2. QED
    BY <2>1 DEF CoordinatorKnows, Earned, PlanesAgree
<1>2. QED
  BY <1>1, BffSafety, PTL

\* Context accepts every verdict of the reconciler, whatever the coordinators and
\* the runners did since it asked.
THEOREM VerdictTheorem == BffSpec => []VerdictAccepted
<1>1. BffInv => VerdictAccepted
  BY DEF BffInv, Knows, VerdictAccepted
<1>2. QED
  BY <1>1, BffSafety, PTL

(* Through the BFF and its reconciler, for any number of permits, deaths and *)
(* lost answers: a provider is called once at most for a permit, and only    *)
(* for a reservation that was redeemed; for one that was released it never   *)
(* is; what is settled has its generation; two permits are never in          *)
(* execution at once, and every live reservation holds the platform's place. *)
THEOREM BffPaidTheorem ==
    BffSpec => [](/\ PaidOnlyIfReserved /\ ReleasedIsNeverCalled /\ SettledIsTerminal
                  /\ OneExecution /\ LiveHoldsPlace)
  BY BffImplementsProtocol, PaidTheorem, ReleaseTheorem, SettleTheorem, OneExecutionTheorem,
     PlaceTheorem, PTL
=============================================================================
