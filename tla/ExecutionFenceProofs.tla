------------------------- MODULE ExecutionFenceProofs -------------------------
(* Proofs about the execution plane, for every set of permits, drafts and    *)
(* expiry times and every client of its tables.                              *)
EXTENDS ExecutionFence, TLAPS

-----------------------------------------------------------------------------
(* Rows *)

LEMMA LeaseRow ==
    ASSUME NEW l \in Lease, NEW s \in LeaseState
    PROVE  /\ [l EXCEPT !.state = s] \in Lease
           /\ [l EXCEPT !.state = s].state = s
           /\ [l EXCEPT !.state = s].expires = l.expires
  BY DEF Lease

LEMMA AttemptRow ==
    ASSUME NEW a \in Attempt, NEW s \in AttemptState
    PROVE  /\ [a EXCEPT !.state = s] \in Attempt
           /\ [a EXCEPT !.state = s].state = s
           /\ [a EXCEPT !.state = s].deadline = a.deadline
           /\ [a EXCEPT !.state = s].checkpoint = a.checkpoint
  BY DEF Attempt

\* The ways an operation may leave the three rows of its permit.
Unchanged(p, l, a, g) ==
    l = lease[p] /\ a = attempt[p] /\ g = generation[p]

Prepared(p, l, a, g) ==
    /\ lease[p].state = "none"
    /\ l.state = "LEASED"
    /\ a = attempt[p] /\ g = generation[p]

Claimed(p, l, a, g) ==
    /\ lease[p].state = "LEASED"
    /\ l.state = "RUNNING" /\ l.expires = lease[p].expires
    /\ a.state = "RUNNING" /\ a.checkpoint = "none"
    /\ g = generation[p]

TimedOut(p, l, a, g) ==
    /\ lease[p].state = "RUNNING" /\ attempt[p].state = "RUNNING"
    /\ a.state = "TIMED_OUT" /\ a.checkpoint = attempt[p].checkpoint
    /\ a.deadline = attempt[p].deadline
    /\ l = lease[p] /\ g = generation[p]

Cancelled(p, l, a, g) ==
    /\ lease[p].state = "LEASED" /\ lease[p].expires <= now
    /\ l.state = "CANCELLED" /\ l.expires = lease[p].expires
    /\ a = attempt[p] /\ g = generation[p]

Checkpointed(p, l, a, g) ==
    /\ lease[p].state = "RUNNING" /\ attempt[p].state = "RUNNING"
    /\ a.state = "CHECKPOINTED" /\ a.checkpoint \in Result
    /\ a.deadline = attempt[p].deadline
    /\ l = lease[p] /\ g = generation[p]

Finished(p, l, a, g) ==
    /\ lease[p].state = "RUNNING" /\ l.state = "TERMINAL" /\ l.expires = lease[p].expires
    /\ a.checkpoint = attempt[p].checkpoint
    /\ a.deadline = attempt[p].deadline
    /\ g.status # "none"
    /\ \/ /\ attempt[p].state = "CHECKPOINTED"
          /\ attempt[p].checkpoint = "rejected"
          /\ a.state = "FAILED" /\ g.draft = "none" /\ g.status # "SUCCEEDED"
       \/ /\ attempt[p].state = "CHECKPOINTED"
          /\ attempt[p].checkpoint # "rejected"
          /\ a.state = "SUCCEEDED" /\ g.draft = attempt[p].checkpoint
       \/ /\ attempt[p].state = "RUNNING"
          /\ a.state = "FAILED" /\ g.draft = "none" /\ g.status # "SUCCEEDED"

RowChange(p, l, a, g) ==
    \/ Unchanged(p, l, a, g) \/ Prepared(p, l, a, g) \/ Claimed(p, l, a, g)
    \/ TimedOut(p, l, a, g)  \/ Cancelled(p, l, a, g)
    \/ Checkpointed(p, l, a, g) \/ Finished(p, l, a, g)

\* An operation writes the rows of its permit only, and in one of those ways.
RowStep(p) ==
    \E l \in Lease, a \in Attempt, g \in Generation :
        /\ lease' = [lease EXCEPT ![p] = l]
        /\ attempt' = [attempt EXCEPT ![p] = a]
        /\ generation' = [generation EXCEPT ![p] = g]
        /\ RowChange(p, l, a, g)

LEMMA RowsOf ==
    ASSUME FenceTypeOK, NEW p \in Permit
    PROVE  /\ lease[p] \in Lease /\ lease = [lease EXCEPT ![p] = lease[p]]
           /\ attempt[p] \in Attempt
           /\ attempt = [attempt EXCEPT ![p] = attempt[p]]
           /\ generation[p] \in Generation
           /\ generation = [generation EXCEPT ![p] = generation[p]]
  BY DEF FenceTypeOK

\* To give a row step it is enough to give the three new rows.
LEMMA RowStepIntro ==
    ASSUME NEW p \in Permit, NEW l \in Lease, NEW a \in Attempt,
           NEW g \in Generation,
           lease' = [lease EXCEPT ![p] = l],
           attempt' = [attempt EXCEPT ![p] = a],
           generation' = [generation EXCEPT ![p] = g],
           RowChange(p, l, a, g)
    PROVE  RowStep(p)
  BY DEF RowStep

LEMMA RowStepSame ==
    ASSUME FenceTypeOK, NEW p \in Permit,
           UNCHANGED <<lease, attempt, generation>>
    PROVE  RowStep(p)
  BY RowsOf DEF RowStep, RowChange, Unchanged

LEMMA PrepareRow ==
    ASSUME FenceTypeOK, NEW p \in Permit, NEW e \in Nat, NEW r,
           PrepareLease(p, e, r)
    PROVE  RowStep(p)
<1>1. CASE UNCHANGED lease
  BY <1>1, RowStepSame DEF PrepareLease
<1>2. ASSUME lease[p].state = "none", NEW t \in StatementClock,
             lease' = [lease EXCEPT ![p] =
                        [state |-> "LEASED",
                         expires |-> Least(e, t + LeaseTTL)]]
      PROVE  RowStep(p)
  <2> DEFINE l == [state |-> "LEASED", expires |-> Least(e, t + LeaseTTL)]
  <2>1. Least(e, t + LeaseTTL) \in Nat
    BY FenceAssumption, ClockAssumption DEF StatementClock, Least, FenceTypeOK
  <2>2. l \in Lease /\ l.state = "LEASED"
    BY <2>1 DEF Lease, LeaseState
  <2>3. RowChange(p, l, attempt[p], generation[p])
    BY <1>2, <2>2 DEF RowChange, Prepared
  <2>4. UNCHANGED <<attempt, generation>>
    BY DEF PrepareLease
  <2> HIDE DEF l
  <2>5. lease' = [lease EXCEPT ![p] = l]
    BY <1>2 DEF l
  <2>6. QED
    BY <2>2, <2>3, <2>4, <2>5, RowsOf, RowStepIntro
<1>3. QED
  BY <1>1, <1>2 DEF PrepareLease

LEMMA ClaimRow ==
    ASSUME FenceTypeOK, NEW p \in Permit, NEW e \in Nat, NEW r,
           ClaimAttempt(p, e, r)
    PROVE  RowStep(p)
<1>1. CASE UNCHANGED <<lease, attempt>>
  BY <1>1, RowStepSame DEF ClaimAttempt
<1>2. CASE ~UNCHANGED <<lease, attempt>>
  <2> PICK t \in StatementClock :
        /\ Claimable(p, e, t)
        /\ lease' = [lease EXCEPT ![p].state = "RUNNING"]
        /\ attempt' = [attempt EXCEPT ![p] =
                [state |-> "RUNNING", deadline |-> now + ResultTTL,
                 checkpoint |-> "none"]]
    BY <1>2 DEF ClaimAttempt
  <2> DEFINE l == [lease[p] EXCEPT !.state = "RUNNING"]
             a == [state |-> "RUNNING", deadline |-> now + ResultTTL,
                   checkpoint |-> "none"]
  <2>1. l \in Lease /\ l.state = "RUNNING" /\ l.expires = lease[p].expires
    BY RowsOf, LeaseRow DEF LeaseState
  <2>2. now + ResultTTL \in Nat
    BY FenceAssumption DEF FenceTypeOK
  <2>3. a \in Attempt /\ a.state = "RUNNING" /\ a.checkpoint = "none"
    BY <2>2 DEF Attempt, AttemptState
  <2>4. /\ lease' = [lease EXCEPT ![p] = l]
        /\ attempt' = [attempt EXCEPT ![p] = a]
        /\ UNCHANGED generation
    BY <1>2 DEF ClaimAttempt
  <2> HIDE DEF l, a
  <2>5. RowChange(p, l, a, generation[p])
    BY <2>1, <2>3 DEF RowChange, Claimed, Claimable
  <2>6. QED
    BY <2>1, <2>3, <2>4, <2>5, RowsOf, RowStepIntro
<1>3. QED
  BY <1>1, <1>2 DEF ClaimAttempt

\* Convergence times an overdue attempt out, or does nothing.
LEMMA ConvergeRow ==
    ASSUME FenceTypeOK, NEW p \in Permit, Converge(p)
    PROVE  \/ UNCHANGED attempt
           \/ \E a \in Attempt :
                 /\ attempt' = [attempt EXCEPT ![p] = a]
                 /\ TimedOut(p, lease[p], a, generation[p])
<1>1. CASE UNCHANGED attempt
  BY <1>1
<1>2. CASE ~UNCHANGED attempt
  <2> DEFINE a == [attempt[p] EXCEPT !.state = "TIMED_OUT"]
  <2>1. /\ attempt' = [attempt EXCEPT ![p] = a]
        /\ lease[p].state = "RUNNING" /\ attempt[p].state = "RUNNING"
    BY <1>2 DEF Converge, Overdue, Held
  <2>2. /\ a \in Attempt /\ a.state = "TIMED_OUT"
        /\ a.deadline = attempt[p].deadline
        /\ a.checkpoint = attempt[p].checkpoint
    BY RowsOf, AttemptRow DEF AttemptState
  <2> HIDE DEF a
  <2>3. TimedOut(p, lease[p], a, generation[p])
    BY <2>1, <2>2 DEF TimedOut
  <2>4. QED
    BY <2>1, <2>2, <2>3
<1>3. QED
  BY <1>1, <1>2

LEMMA ConvergeOnlyRow ==
    ASSUME FenceTypeOK, NEW p \in Permit, Converge(p),
           UNCHANGED <<lease, generation>>
    PROVE  RowStep(p)
<1>1. CASE UNCHANGED attempt
  BY <1>1, RowStepSame
<1>2. ASSUME NEW a \in Attempt,
             attempt' = [attempt EXCEPT ![p] = a],
             TimedOut(p, lease[p], a, generation[p])
      PROVE  RowStep(p)
  <2>1. RowChange(p, lease[p], a, generation[p])
    BY <1>2 DEF RowChange
  <2>2. QED
    BY <1>2, <2>1, RowsOf, RowStepIntro
<1>3. QED
  BY <1>1, <1>2, ConvergeRow

LEMMA CancelRow ==
    ASSUME FenceTypeOK, NEW p \in Permit, NEW r, CancelExpired(p, r)
    PROVE  RowStep(p)
<1>1. CASE UNCHANGED lease
  BY <1>1, ConvergeOnlyRow DEF CancelExpired
<1>2. CASE /\ lease[p].state = "LEASED" /\ lease[p].expires <= now
           /\ lease' = [lease EXCEPT ![p].state = "CANCELLED"]
  <2> DEFINE l == [lease[p] EXCEPT !.state = "CANCELLED"]
  <2>1. l \in Lease /\ l.state = "CANCELLED" /\ l.expires = lease[p].expires
    BY RowsOf, LeaseRow DEF LeaseState
  <2>2. lease' = [lease EXCEPT ![p] = l]
    BY <1>2
  <2> HIDE DEF l
  <2>3. UNCHANGED <<attempt, generation>>
    BY <1>2 DEF CancelExpired, Converge, Overdue, Held
  <2>4. RowChange(p, l, attempt[p], generation[p])
    BY <1>2, <2>1 DEF RowChange, Cancelled
  <2>5. l \in Lease
    BY <2>1
  <2>6. QED
    BY <2>2, <2>3, <2>4, <2>5, RowsOf, RowStepIntro
<1>3. ASSUME NEW t \in StatementClock, Stale(p, t) PROVE lease[p].expires <= now
  <2>1. t \in Nat /\ t <= now /\ now \in Nat
    BY DEF StatementClock, FenceTypeOK
  <2>2. lease[p].expires \in Nat
    BY RowsOf DEF Lease
  <2>3. QED
    BY <1>3, <2>1, <2>2 DEF Stale
<1>4. QED
  BY <1>1, <1>2, <1>3 DEF CancelExpired, Stale

LEMMA CheckpointRow ==
    ASSUME FenceTypeOK, NEW p \in Permit, NEW result \in Result, NEW r,
           Checkpoint(p, result, r)
    PROVE  RowStep(p)
<1>1. CASE UNCHANGED attempt
  BY <1>1, RowStepSame DEF Checkpoint
<1>2. CASE /\ attempt[p].state = "RUNNING" /\ lease[p].state = "RUNNING"
           /\ attempt' = [attempt EXCEPT ![p].state = "CHECKPOINTED",
                                         ![p].checkpoint = result]
  <2> DEFINE a == [attempt[p] EXCEPT !.state = "CHECKPOINTED",
                                     !.checkpoint = result]
  <2>1. attempt' = [attempt EXCEPT ![p] = a]
    BY <1>2, RowsOf DEF Attempt
  <2>2. /\ a \in Attempt /\ a.state = "CHECKPOINTED"
        /\ a.checkpoint = result /\ a.deadline = attempt[p].deadline
    BY RowsOf DEF Attempt, AttemptState
  <2>5. a \in Attempt
    BY <2>2
  <2> HIDE DEF a
  <2>3. RowChange(p, lease[p], a, generation[p])
    BY <1>2, <2>2 DEF RowChange, Checkpointed
  <2>4. UNCHANGED <<lease, generation>>
    BY DEF Checkpoint
  <2>6. QED
    BY <2>1, <2>3, <2>4, <2>5, RowsOf, RowStepIntro
<1>3. QED
  BY <1>1, <1>2 DEF Checkpoint, Held

LEMMA MarkRow ==
    ASSUME FenceTypeOK, NEW p \in Permit, NEW r, MarkIndeterminate(p, r)
    PROVE  RowStep(p)
<1>1. CASE UNCHANGED attempt
  BY <1>1, RowStepSame DEF MarkIndeterminate
<1>2. CASE /\ attempt[p].state = "RUNNING" /\ lease[p].state = "RUNNING"
           /\ attempt' = [attempt EXCEPT ![p].state = "TIMED_OUT"]
  <2> DEFINE a == [attempt[p] EXCEPT !.state = "TIMED_OUT"]
  <2>1. attempt' = [attempt EXCEPT ![p] = a]
    BY <1>2
  <2>2. /\ a \in Attempt /\ a.state = "TIMED_OUT"
        /\ a.deadline = attempt[p].deadline
        /\ a.checkpoint = attempt[p].checkpoint
    BY RowsOf, AttemptRow DEF AttemptState
  <2> HIDE DEF a
  <2>3. RowChange(p, lease[p], a, generation[p])
    BY <1>2, <2>2 DEF RowChange, TimedOut
  <2>4. UNCHANGED <<lease, generation>>
    BY DEF MarkIndeterminate
  <2>5. QED
    BY <2>1, <2>2, <2>3, <2>4, RowsOf, RowStepIntro
<1>3. QED
  BY <1>1, <1>2 DEF MarkIndeterminate, Held

LEMMA FinalizeRow ==
    ASSUME FenceTypeOK, NEW p \in Permit, NEW r, Finalize(p, r)
    PROVE  RowStep(p)
<1> DEFINE l == [lease[p] EXCEPT !.state = "TERMINAL"]
           af == [attempt[p] EXCEPT !.state = "FAILED"]
           as == [attempt[p] EXCEPT !.state = "SUCCEEDED"]
           gf == [status |-> "REJECTED", draft |-> "none"]
           gs == [status |-> "SUCCEEDED", draft |-> attempt[p].checkpoint]
<1>1. l \in Lease /\ l.state = "TERMINAL"
  BY RowsOf, LeaseRow DEF LeaseState
<1>2. /\ af \in Attempt /\ af.state = "FAILED"
      /\ af.deadline = attempt[p].deadline
      /\ af.checkpoint = attempt[p].checkpoint
  BY RowsOf, AttemptRow DEF AttemptState
<1>3. /\ as \in Attempt /\ as.state = "SUCCEEDED"
      /\ as.deadline = attempt[p].deadline
      /\ as.checkpoint = attempt[p].checkpoint
  BY RowsOf, AttemptRow DEF AttemptState
<1>4. gf \in Generation /\ gf.status = "REJECTED" /\ gf.draft = "none"
  BY DEF Generation
<1>5. ASSUME attempt[p].checkpoint # "rejected",
             attempt[p].state = "CHECKPOINTED"
      PROVE  /\ gs \in Generation /\ gs.status = "SUCCEEDED"
             /\ gs.draft = attempt[p].checkpoint
  <2>1. attempt[p].checkpoint \in Draft \cup {"none"}
    BY <1>5, RowsOf DEF Attempt, Result
  <2>2. QED
    BY <2>1 DEF Generation
<1>6. CASE UNCHANGED <<lease, attempt, generation>>
  BY <1>6, RowStepSame
<1>7. CASE /\ attempt[p].state = "CHECKPOINTED" /\ lease[p].state = "RUNNING"
           /\ attempt[p].checkpoint = "rejected"
           /\ ~UNCHANGED <<lease, attempt, generation>>
  <2>1. /\ lease' = [lease EXCEPT ![p] = l]
        /\ attempt' = [attempt EXCEPT ![p] = af]
        /\ generation' = [generation EXCEPT ![p] = gf]
    BY <1>7 DEF Finalize, Held
  <2>2. l \in Lease /\ af \in Attempt /\ gf \in Generation
    BY <1>1, <1>2, <1>4
  <2>3. RowChange(p, l, af, gf)
    BY <1>1, <1>2, <1>4, <1>7 DEF RowChange, Finished
  <2> HIDE DEF l, af, gf
  <2>4. QED
    BY <2>1, <2>2, <2>3, RowStepIntro
<1>8. CASE /\ attempt[p].state = "CHECKPOINTED" /\ lease[p].state = "RUNNING"
           /\ attempt[p].checkpoint # "rejected"
           /\ ~UNCHANGED <<lease, attempt, generation>>
  <2>1. /\ lease' = [lease EXCEPT ![p] = l]
        /\ attempt' = [attempt EXCEPT ![p] = as]
        /\ generation' = [generation EXCEPT ![p] = gs]
    BY <1>8 DEF Finalize, Held
  <2>2. l \in Lease /\ as \in Attempt /\ gs \in Generation
    BY <1>1, <1>3, <1>5, <1>8
  <2>3. RowChange(p, l, as, gs)
    BY <1>1, <1>3, <1>5, <1>8 DEF RowChange, Finished
  <2> HIDE DEF l, as, gs
  <2>4. QED
    BY <2>1, <2>2, <2>3, RowStepIntro
<1>9. QED
  BY <1>6, <1>7, <1>8 DEF Finalize, Held

LEMMA RejectRow ==
    ASSUME FenceTypeOK, NEW p \in Permit, NEW code, NEW r, Reject(p, code, r)
    PROVE  RowStep(p)
<1>1. CASE UNCHANGED <<lease, attempt, generation>>
  BY <1>1, RowStepSame
<1>2. CASE /\ attempt[p].state = "RUNNING" /\ lease[p].state = "RUNNING"
           /\ ~UNCHANGED <<lease, attempt, generation>>
  <2> DEFINE l == [lease[p] EXCEPT !.state = "TERMINAL"]
             a == [attempt[p] EXCEPT !.state = "FAILED"]
             g == [status |-> IF code = "PROVIDER_UNAVAILABLE"
                              THEN "PROVIDER_ERROR" ELSE "REJECTED",
                   draft |-> "none"]
  <2>1. l \in Lease /\ l.state = "TERMINAL"
    BY RowsOf, LeaseRow DEF LeaseState
  <2>2. /\ a \in Attempt /\ a.state = "FAILED"
        /\ a.deadline = attempt[p].deadline
        /\ a.checkpoint = attempt[p].checkpoint
    BY RowsOf, AttemptRow DEF AttemptState
  <2>3. g \in Generation /\ g.status # "none" /\ g.draft = "none"
    BY DEF Generation
  <2>4. /\ lease' = [lease EXCEPT ![p] = l]
        /\ attempt' = [attempt EXCEPT ![p] = a]
        /\ generation' = [generation EXCEPT ![p] = g]
    BY <1>2 DEF Reject, Held
  <2>5. RowChange(p, l, a, g)
    BY <1>2, <2>1, <2>2, <2>3 DEF RowChange, Finished
  <2> HIDE DEF l, a, g
  <2>6. l \in Lease /\ a \in Attempt /\ g \in Generation
    BY <2>1, <2>2, <2>3
  <2>7. QED
    BY <2>4, <2>5, <2>6, RowStepIntro
<1>3. QED
  BY <1>1, <1>2 DEF Reject, Held

\* Every operation of the execution plane is a row step of its permit.
LEMMA OpRow ==
    ASSUME FenceTypeOK, NEW p \in Permit, FenceOp(p)
    PROVE  RowStep(p)
<1>1. ASSUME NEW r, RecoveryState(p, r) PROVE RowStep(p)
  BY <1>1, ConvergeOnlyRow DEF RecoveryState
<1>2. ASSUME NEW r, LeaseStatus(p, r) PROVE RowStep(p)
  BY <1>2, ConvergeOnlyRow DEF LeaseStatus
<1>3. QED
  BY <1>1, <1>2, PrepareRow, ClaimRow, CancelRow, CheckpointRow, MarkRow,
     FinalizeRow, RejectRow, FenceAssumption DEF FenceOp

-----------------------------------------------------------------------------
(* The inductive invariant *)

\* The two safety invariants together are inductive, row by row.
FenceInv == FenceTypeOK /\ TerminalEvidence /\ ClaimedOrNeverRun

\* What FenceInv says of the rows of one permit.
RowInv(l, a, g) ==
    /\ l.state = "TERMINAL" <=> g.status # "none"
    /\ l.state = "TERMINAL" <=> a.state \in {"SUCCEEDED", "FAILED"}
    /\ g.draft # "none" => a.state = "SUCCEEDED" /\ a.checkpoint = g.draft
    /\ a.state = "SUCCEEDED" => g.draft = a.checkpoint
    /\ a.state = "FAILED" => a.checkpoint \in {"none", "rejected"}
    /\ a.state # "none" <=> l.state \in {"RUNNING", "TERMINAL"}
    /\ a.state \in {"RUNNING", "TIMED_OUT"} => l.state = "RUNNING"
    /\ a.state \in {"none", "RUNNING", "TIMED_OUT"} => a.checkpoint = "none"
    /\ a.state = "CHECKPOINTED" => a.checkpoint # "none"

LEMMA RowInvariant ==
    FenceInv <=>
        /\ FenceTypeOK
        /\ \A p \in Permit : RowInv(lease[p], attempt[p], generation[p])
  BY Zenon DEF FenceInv, TerminalEvidence, ClaimedOrNeverRun, RowInv

LEMMA RowInvKept ==
    ASSUME NEW p \in Permit, NEW l, NEW a, NEW g,
           RowInv(lease[p], attempt[p], generation[p]),
           RowChange(p, l, a, g)
    PROVE  RowInv(l, a, g)
<1>1. CASE Unchanged(p, l, a, g)
  BY <1>1 DEF Unchanged
<1>2. CASE Prepared(p, l, a, g)
  BY <1>2 DEF Prepared, RowInv
<1>3. CASE Claimed(p, l, a, g)
  BY <1>3 DEF Claimed, RowInv
<1>4. CASE TimedOut(p, l, a, g)
  BY <1>4 DEF TimedOut, RowInv
<1>5. CASE Cancelled(p, l, a, g)
  BY <1>5 DEF Cancelled, RowInv
<1>6. CASE Checkpointed(p, l, a, g)
  <2>1. a.checkpoint # "none"
    BY <1>6, FenceAssumption DEF Checkpointed, Result
  <2>2. QED
    BY <1>6, <2>1 DEF Checkpointed, RowInv
<1>7. CASE Finished(p, l, a, g)
  BY <1>7 DEF Finished, RowInv
<1>8. QED
  BY <1>1, <1>2, <1>3, <1>4, <1>5, <1>6, <1>7 DEF RowChange

\* A row step keeps the invariant, whoever takes it.
LEMMA RowStepInv ==
    ASSUME FenceInv, NEW p \in Permit, RowStep(p), now' \in Nat
    PROVE  FenceInv'
<1>1. PICK l \in Lease, a \in Attempt, g \in Generation :
        /\ lease' = [lease EXCEPT ![p] = l]
        /\ attempt' = [attempt EXCEPT ![p] = a]
        /\ generation' = [generation EXCEPT ![p] = g]
        /\ RowChange(p, l, a, g)
  BY DEF RowStep
<1>2. FenceTypeOK'
  BY <1>1 DEF FenceInv, FenceTypeOK
<1>3. RowInv(l, a, g)
  BY <1>1, RowInvariant, RowInvKept
<1>4. ASSUME NEW q \in Permit
      PROVE  RowInv(lease'[q], attempt'[q], generation'[q])
  <2>1. CASE q = p
    BY <1>1, <1>3, <2>1 DEF FenceInv, FenceTypeOK
  <2>2. CASE q # p
    <3>1. /\ lease'[q] = lease[q] /\ attempt'[q] = attempt[q]
          /\ generation'[q] = generation[q]
      BY <1>1, <2>2 DEF FenceInv, FenceTypeOK
    <3>2. QED
      BY <3>1, RowInvariant
  <2>3. QED
    BY <2>1, <2>2
<1>5. QED
  BY <1>2, <1>4 DEF FenceInv, TerminalEvidence, ClaimedOrNeverRun, RowInv

LEMMA FenceInitInv == FenceInit => FenceInv
<1> SUFFICES ASSUME FenceInit PROVE FenceInv
  OBVIOUS
<1>1. /\ NoLease \in Lease /\ NoAttempt \in Attempt
      /\ NoGeneration \in Generation
  BY DEF NoLease, Lease, LeaseState, NoAttempt, Attempt, AttemptState,
         NoGeneration, Generation
<1>2. FenceTypeOK
  BY <1>1 DEF FenceInit, FenceTypeOK, ClockInit
<1>3. ASSUME NEW p \in Permit
      PROVE  RowInv(lease[p], attempt[p], generation[p])
  BY DEF FenceInit, RowInv, NoLease, NoAttempt, NoGeneration
<1>4. QED
  BY <1>2, <1>3, RowInvariant

\* Every client leaves the rows well typed, with a terminal lease, a finished
\* attempt and a generation row together, and an attempt only under a claim.
THEOREM FenceSafety == FenceSpec => []FenceInv
<1>1. FenceInit => FenceInv
  BY FenceInitInv
<1>2. FenceInv /\ [FenceNext]_fenceVars => FenceInv'
  <2> SUFFICES ASSUME FenceInv, [FenceNext]_fenceVars PROVE FenceInv'
    OBVIOUS
  <2>1. CASE FenceStep
    <3>1. PICK p \in Permit : FenceOp(p)
      BY <2>1 DEF FenceStep
    <3>2. RowStep(p)
      BY <3>1, OpRow DEF FenceInv
    <3>3. now' \in Nat
      BY <2>1 DEF FenceStep, FenceInv, FenceTypeOK
    <3>4. QED
      BY <3>2, <3>3, RowStepInv
  <2>2. CASE FenceTick
    BY <2>2 DEF FenceTick, Tick, FenceInv, FenceTypeOK, TerminalEvidence,
                ClaimedOrNeverRun
  <2>3. CASE UNCHANGED fenceVars
    BY <2>3 DEF fenceVars, FenceInv, FenceTypeOK, TerminalEvidence,
                ClaimedOrNeverRun
  <2>4. QED
    BY <2>1, <2>2, <2>3 DEF FenceNext
<1>3. QED
  BY <1>1, <1>2, PTL DEF FenceSpec

\* The rows are always well typed.
THEOREM FenceTyped == FenceSpec => []FenceTypeOK
<1>1. FenceInv => FenceTypeOK
  BY DEF FenceInv
<1>2. QED
  BY <1>1, FenceSafety, PTL

\* A draft is published exactly when it was checkpointed, in one transaction
\* with the end of its attempt and of its lease.
THEOREM EvidenceTheorem == FenceSpec => []TerminalEvidence
<1>1. FenceInv => TerminalEvidence
  BY DEF FenceInv
<1>2. QED
  BY <1>1, FenceSafety, PTL

\* A cancelled lease never reached a provider; an indeterminate attempt has no
\* result and its lease stays RUNNING.
THEOREM NeverRunTheorem == FenceSpec => []ClaimedOrNeverRun
<1>1. FenceInv => ClaimedOrNeverRun
  BY DEF FenceInv
<1>2. QED
  BY <1>1, FenceSafety, PTL

-----------------------------------------------------------------------------
(* Decisions *)

LEMMA RowStepDecides ==
    ASSUME FenceInv, NEW p \in Permit, RowStep(p)
    PROVE  DecidedOnce
<1>1. PICK l \in Lease, a \in Attempt, g \in Generation :
        /\ lease' = [lease EXCEPT ![p] = l]
        /\ attempt' = [attempt EXCEPT ![p] = a]
        /\ generation' = [generation EXCEPT ![p] = g]
        /\ RowChange(p, l, a, g)
  BY DEF RowStep
<1>2. RowInv(lease[p], attempt[p], generation[p])
  BY RowInvariant
<1>3. /\ lease'[p] = l /\ attempt'[p] = a /\ generation'[p] = g
  BY <1>1 DEF FenceInv, FenceTypeOK
<1>4. Decided(p) => Unchanged(p, l, a, g)
  BY <1>1, <1>2 DEF Decided, RowInv, RowChange, Prepared, Claimed, TimedOut,
                    Cancelled, Checkpointed, Finished
<1>5. attempt[p].checkpoint # "none" => a.checkpoint = attempt[p].checkpoint
  BY <1>1, <1>2 DEF RowInv, RowChange, Unchanged, Prepared, Claimed, TimedOut,
                    Cancelled, Checkpointed, Finished, Decided
<1>6. attempt[p].state # "none" =>
        a.state # "none" /\ a.deadline = attempt[p].deadline
  BY <1>1, <1>2 DEF RowInv, RowChange, Unchanged, Prepared, Claimed, TimedOut,
                    Cancelled, Checkpointed, Finished
<1>7. ASSUME NEW q \in Permit, q # p
      PROVE  UNCHANGED <<lease[q], attempt[q], generation[q]>>
  BY <1>1, <1>7 DEF FenceInv, FenceTypeOK
<1>8. QED
  <2>1. ASSUME NEW q \in Permit
        PROVE  /\ Decided(q) => UNCHANGED <<lease[q], attempt[q], generation[q]>>
               /\ attempt[q].checkpoint # "none" =>
                     attempt'[q].checkpoint = attempt[q].checkpoint
               /\ attempt[q].state # "none" =>
                     /\ attempt'[q].state # "none"
                     /\ attempt'[q].deadline = attempt[q].deadline
    <3>1. CASE q = p
      BY <1>3, <1>4, <1>5, <1>6, <3>1 DEF Unchanged
    <3>2. CASE q # p
      BY <1>7, <3>2
    <3>3. QED
      BY <3>1, <3>2
  <2>2. QED
    BY <2>1 DEF DecidedOnce

\* Whatever is decided of a permit is never decided again.
THEOREM DecisionTheorem == FenceSpec => DecisionsAreFinal
<1>1. FenceInv /\ [FenceNext]_fenceVars => [DecidedOnce]_fenceVars
  <2> SUFFICES ASSUME FenceInv, FenceNext PROVE DecidedOnce \/ UNCHANGED fenceVars
    OBVIOUS
  <2>1. CASE FenceStep
    BY <2>1, OpRow, RowStepDecides DEF FenceStep, FenceInv
  <2>2. CASE FenceTick
    BY <2>2 DEF FenceTick, DecidedOnce
  <2>3. QED
    BY <2>1, <2>2 DEF FenceNext
<1>2. QED
  BY <1>1, FenceSafety, PTL DEF FenceSpec, DecisionsAreFinal
==============================================================================
