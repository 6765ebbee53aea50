---------------------------- MODULE ExecutionFence ----------------------------
(***************************************************************************)
(* The execution plane: the Generation-owned rows of one paid request and   *)
(* the database operations on them (packages/db/src/execution-plane and the *)
(* SQL functions it calls).  One permit JTI has at most one lease, one      *)
(* attempt (ordinal 1) and one generation row, so all three are functions   *)
(* of the permit.  Each operation is one transaction; `reply' is what its   *)
(* caller receives.  Next lets any caller issue any operation at any time:  *)
(* what holds here holds for every client of the tables.                    *)
(***************************************************************************)
EXTENDS Permits

CONSTANTS Draft,      \* validated draft bodies a provider result may carry
          Expiry,     \* expiry times a permit or an activation may carry
          LeaseTTL,   \* 45 s after preparation
          ResultTTL   \* 65 s after the claim

ASSUME FenceAssumption ==
    /\ Expiry \subseteq Nat
    /\ LeaseTTL \in Nat
    /\ ResultTTL \in Nat
    /\ "none" \notin Draft
    /\ "rejected" \notin Draft

VARIABLES lease,       \* execution_leases
          attempt,     \* provider_attempts, ordinal 1
          generation   \* generations, with the draft of revision 1

fenceVars == <<lease, attempt, generation, now>>

-----------------------------------------------------------------------------
(* Rows *)

\* The sanitized terminal checkpoint: a draft, or a rejection.
Result == Draft \cup {"rejected"}

LeaseState == {"none", "LEASED", "RUNNING", "CANCELLED", "TERMINAL"}
Lease == [state : LeaseState, expires : Nat]

AttemptState == {"none", "RUNNING", "CHECKPOINTED", "SUCCEEDED", "FAILED",
                 "TIMED_OUT"}
Attempt == [state : AttemptState, deadline : Nat,
            checkpoint : Result \cup {"none"}]

Generation == [status : {"none", "SUCCEEDED", "REJECTED", "PROVIDER_ERROR"},
               draft : Draft \cup {"none"}]

RejectionCode == {"GROUNDING_REJECTED", "POLICY_REJECTED", "FORMAT_REJECTED",
                  "PROVIDER_UNAVAILABLE"}

NoLease == [state |-> "none", expires |-> 0]
NoAttempt == [state |-> "none", deadline |-> 0, checkpoint |-> "none"]
NoGeneration == [status |-> "none", draft |-> "none"]

FenceTypeOK ==
    /\ lease \in [Permit -> Lease]
    /\ attempt \in [Permit -> Attempt]
    /\ generation \in [Permit -> Generation]
    /\ now \in Nat

FenceInit ==
    /\ lease = [p \in Permit |-> NoLease]
    /\ attempt = [p \in Permit |-> NoAttempt]
    /\ generation = [p \in Permit |-> NoGeneration]
    /\ ClockInit

-----------------------------------------------------------------------------
(* Lease journal *)

\* prepare_generation_lease: insert unless the permit is expired or known.
PrepareLease(p, permitExpires, reply) ==
    /\ \/ /\ lease[p].state = "none"
          /\ \E t \in StatementClock :
                /\ permitExpires > t
                /\ lease' = [lease EXCEPT ![p] =
                        [state |-> "LEASED",
                         expires |-> Least(permitExpires, t + LeaseTTL)]]
          /\ reply = "leased"
       \/ /\ lease[p].state # "none"
          /\ reply = "existing"
          /\ UNCHANGED lease
       \/ /\ lease[p].state = "none"
          /\ \E t \in StatementClock : permitExpires <= t
          /\ reply = "PERMIT_EXPIRED"
          /\ UNCHANGED lease
    /\ UNCHANGED <<attempt, generation>>

\* Fault: the claim no longer compares and swaps the state of the lease.
ClaimableAgain(p, activationExpires, t) ==
    /\ lease[p].expires > t
    /\ activationExpires > t
    /\ activationExpires <= lease[p].expires

Claimable(p, activationExpires, t) ==
    /\ lease[p].state = "LEASED"
    /\ lease[p].expires > t
    /\ activationExpires > t
    /\ activationExpires <= lease[p].expires

\* claim_generation_attempt: CAS LEASED -> RUNNING and insert attempt 1.
ClaimAttempt(p, activationExpires, reply) ==
    /\ \/ \E t \in StatementClock :
             /\ Claimable(p, activationExpires, t)
             /\ lease' = [lease EXCEPT ![p].state = "RUNNING"]
             /\ attempt' = [attempt EXCEPT ![p] =
                     [state |-> "RUNNING", deadline |-> now + ResultTTL,
                      checkpoint |-> "none"]]
             /\ reply = "claimed"
       \/ /\ \E t \in StatementClock : ~Claimable(p, activationExpires, t)
          /\ reply = IF attempt[p].state # "none"
                     THEN "existing" ELSE "EXECUTION_NOT_CLAIMABLE"
          /\ UNCHANGED <<lease, attempt>>
    /\ UNCHANGED generation

\* Fault: the attempt's state is left out of the comparison.
HeldInAnyState(p, state) == lease[p].state = "RUNNING"

\* Fault: a result may still arrive for an attempt that was given up.
HeldOrTimedOut(p, state) == /\ attempt[p].state \in {state, "TIMED_OUT"}
                            /\ lease[p].state = "RUNNING"

\* What a CAS of the terminal store compares: the attempt is in this state
\* under a RUNNING lease.
Held(p, state) == attempt[p].state = state /\ lease[p].state = "RUNNING"

\* The CAS of converge_generation_attempt_recovery: a RUNNING attempt past its
\* result deadline becomes indeterminate; the lease stays RUNNING.
Overdue(p, t) ==
    /\ Held(p, "RUNNING")
    /\ attempt[p].checkpoint = "none"
    /\ attempt[p].deadline <= t

\* Fault: the state is written as the receipts name it, not as the table does.
ConvergeByName(p) ==
    \E t \in StatementClock :
        attempt' = IF Overdue(p, t)
                   THEN [attempt EXCEPT ![p].state = "indeterminate"]
                   ELSE attempt

Converge(p) ==
    \E t \in StatementClock :
        attempt' = IF Overdue(p, t)
                   THEN [attempt EXCEPT ![p].state = "TIMED_OUT"] ELSE attempt

\* What converge_generation_attempt_recovery returns of the attempt it left.
RecoveryReply(state) ==
    CASE state = "CHECKPOINTED" -> "checkpointed"
      [] state = "TIMED_OUT" -> "indeterminate"
      [] OTHER -> "none"

RecoveryState(p, reply) ==
    /\ Converge(p)
    /\ reply = RecoveryReply(attempt'[p].state)
    /\ UNCHANGED <<lease, generation>>

\* What the lease-level functions return of a lease row.
LeaseReply(state) ==
    CASE state = "none" -> "no-lease"
      [] state = "LEASED" -> "leased"
      [] state = "RUNNING" -> "running"
      [] state = "CANCELLED" -> "cancelled"
      [] OTHER -> "terminal"

\* generation_lease_status: converge, then read the lease.
LeaseStatus(p, reply) ==
    /\ Converge(p)
    /\ reply = IF attempt'[p].state = "TIMED_OUT" THEN "indeterminate"
               ELSE LeaseReply(lease[p].state)
    /\ UNCHANGED <<lease, generation>>

\* Fault: any lease that ran out is cancelled, also one in execution.
StaleOrRunning(p, t) == /\ lease[p].state \in {"LEASED", "RUNNING"}
                        /\ lease[p].expires <= t

Stale(p, t) == lease[p].state = "LEASED" /\ lease[p].expires <= t

\* cancel_expired_generation_lease: converge, then CAS LEASED -> CANCELLED.
CancelExpired(p, reply) ==
    /\ Converge(p)
    /\ \/ /\ \E t \in StatementClock : Stale(p, t)
          /\ lease' = [lease EXCEPT ![p].state = "CANCELLED"]
          /\ reply = "cancelled"
       \/ /\ \E t \in StatementClock : ~Stale(p, t)
          /\ reply = CASE attempt'[p].state = "TIMED_OUT" -> "indeterminate"
                       [] attempt'[p].state # "TIMED_OUT" /\ lease[p].state = "LEASED" ->
                              "LEASE_NOT_EXPIRED"
                       [] OTHER -> LeaseReply(lease[p].state)
          /\ UNCHANGED lease
    /\ UNCHANGED generation

-----------------------------------------------------------------------------
(* Terminal store *)

\* Fault: a checkpoint is already reported as the terminal.
TerminalEarly(p) == attempt[p].state \in {"CHECKPOINTED", "SUCCEEDED", "FAILED"}

\* read: a generation is visible once its lease is TERMINAL.
Terminal(p) == lease[p].state = "TERMINAL" /\ generation[p] # NoGeneration

\* checkpoint: CAS RUNNING -> CHECKPOINTED, or an exact replay of it.
Checkpoint(p, result, reply) ==
    /\ \/ /\ Held(p, "RUNNING")
          /\ attempt' = [attempt EXCEPT ![p].state = "CHECKPOINTED",
                                        ![p].checkpoint = result]
          /\ reply = "checkpointed"
       \/ /\ ~Held(p, "RUNNING")
          /\ reply = IF /\ Held(p, "CHECKPOINTED")
                        /\ attempt[p].checkpoint = result
                     THEN "checkpointed" ELSE "conflict"
          /\ UNCHANGED attempt
    /\ UNCHANGED <<lease, generation>>

\* markIndeterminate: CAS RUNNING -> TIMED_OUT, or report what stands.
MarkIndeterminate(p, reply) ==
    /\ \/ /\ Held(p, "RUNNING")
          /\ attempt' = [attempt EXCEPT ![p].state = "TIMED_OUT"]
          /\ reply = "indeterminate"
       \/ /\ ~Held(p, "RUNNING")
          /\ reply = CASE attempt[p].state = "TIMED_OUT" -> "indeterminate"
                       [] attempt[p].state = "CHECKPOINTED" -> "checkpointed"
                       [] /\ attempt[p].state \notin {"TIMED_OUT", "CHECKPOINTED"}
                          /\ lease[p].state = "TERMINAL" -> "terminal"
                       [] OTHER -> "error"
          /\ UNCHANGED attempt
    /\ UNCHANGED <<lease, generation>>

\* The part of complete after its first read: lock the checkpoint, write the
\* generation (and the draft), finish the attempt and terminalize the lease.
Finalize(p, reply) ==
    \/ /\ Held(p, "CHECKPOINTED")
       /\ LET draft == attempt[p].checkpoint IN
          IF draft = "rejected"
          THEN /\ attempt' = [attempt EXCEPT ![p].state = "FAILED"]
               /\ generation' = [generation EXCEPT ![p] =
                       [status |-> "REJECTED", draft |-> "none"]]
          ELSE /\ attempt' = [attempt EXCEPT ![p].state = "SUCCEEDED"]
               /\ generation' = [generation EXCEPT ![p] =
                       [status |-> "SUCCEEDED", draft |-> draft]]
       /\ lease' = [lease EXCEPT ![p].state = "TERMINAL"]
       /\ reply = "finalized"
    \/ /\ ~Held(p, "CHECKPOINTED")
       /\ reply = "not-finalizable"
       /\ UNCHANGED <<lease, attempt, generation>>

\* reject: no checkpoint, the attempt failed before a result.
Reject(p, code, reply) ==
    \/ /\ Held(p, "RUNNING")
       /\ attempt' = [attempt EXCEPT ![p].state = "FAILED"]
       /\ generation' = [generation EXCEPT ![p] =
               [status |-> IF code = "PROVIDER_UNAVAILABLE"
                           THEN "PROVIDER_ERROR" ELSE "REJECTED",
                draft |-> "none"]]
       /\ lease' = [lease EXCEPT ![p].state = "TERMINAL"]
       /\ reply = "rejected"
    \/ /\ ~Held(p, "RUNNING")
       /\ reply = "not-rejectable"
       /\ UNCHANGED <<lease, attempt, generation>>

-----------------------------------------------------------------------------
(* The most general client *)

PrepareReply == {"leased", "existing", "PERMIT_EXPIRED"}
ClaimReply == {"claimed", "existing", "EXECUTION_NOT_CLAIMABLE"}
RecoveryReplies == {"checkpointed", "indeterminate", "none"}
StatusReply == {"no-lease", "leased", "running", "cancelled", "terminal",
                "indeterminate"}
CancelReply == (StatusReply \ {"leased"}) \cup {"LEASE_NOT_EXPIRED"}
MarkReply == {"indeterminate", "checkpointed", "terminal", "error"}

FenceOp(p) ==
    \/ \E e \in Expiry, r \in PrepareReply : PrepareLease(p, e, r)
    \/ \E e \in Expiry, r \in ClaimReply : ClaimAttempt(p, e, r)
    \/ \E r \in RecoveryReplies : RecoveryState(p, r)
    \/ \E r \in StatusReply : LeaseStatus(p, r)
    \/ \E r \in CancelReply : CancelExpired(p, r)
    \/ \E result \in Result, r \in {"checkpointed", "conflict"} :
          Checkpoint(p, result, r)
    \/ \E r \in MarkReply : MarkIndeterminate(p, r)
    \/ \E r \in {"finalized", "not-finalizable"} : Finalize(p, r)
    \/ \E code \in RejectionCode, r \in {"rejected", "not-rejectable"} :
          Reject(p, code, r)

FenceStep == /\ \E p \in Permit : FenceOp(p)
             /\ UNCHANGED now

FenceTick == Tick /\ UNCHANGED <<lease, attempt, generation>>

FenceNext == FenceStep \/ FenceTick

FenceSpec == FenceInit /\ [][FenceNext]_fenceVars

-----------------------------------------------------------------------------
(* Properties *)

\* A terminal lease, a finished attempt and a generation row exist together or
\* not at all, and the row says what the attempt's checkpoint says: a draft is
\* published exactly when that draft was checkpointed (complete and reject
\* write three tables in one transaction).
TerminalEvidence ==
    \A p \in Permit :
        /\ lease[p].state = "TERMINAL" <=> generation[p].status # "none"
        /\ lease[p].state = "TERMINAL" <=>
               attempt[p].state \in {"SUCCEEDED", "FAILED"}
        /\ generation[p].draft # "none" =>
               /\ attempt[p].state = "SUCCEEDED"
               /\ attempt[p].checkpoint = generation[p].draft
        /\ attempt[p].state = "SUCCEEDED" =>
               generation[p].draft = attempt[p].checkpoint
        /\ attempt[p].state = "FAILED" =>
               attempt[p].checkpoint \in {"none", "rejected"}

\* An attempt exists exactly when its lease was claimed, so a cancelled lease
\* never reached a provider; an indeterminate attempt has no result and keeps
\* its lease RUNNING, which no claim, cancellation or completion can leave.
ClaimedOrNeverRun ==
    \A p \in Permit :
        /\ attempt[p].state # "none" <=>
               lease[p].state \in {"RUNNING", "TERMINAL"}
        /\ attempt[p].state \in {"RUNNING", "TIMED_OUT"} =>
               lease[p].state = "RUNNING"
        /\ attempt[p].state \in {"none", "RUNNING", "TIMED_OUT"} =>
               attempt[p].checkpoint = "none"
        /\ attempt[p].state = "CHECKPOINTED" => attempt[p].checkpoint # "none"

\* What is decided once for a permit.
Decided(p) == \/ lease[p].state \in {"CANCELLED", "TERMINAL"}
              \/ attempt[p].state = "TIMED_OUT"

\* A step may not change a decided permit, replace a checkpoint, or give a
\* claimed lease a second attempt, whatever the order of late, repeated and
\* concurrent calls.
DecidedOnce ==
    \A p \in Permit :
        /\ Decided(p) => UNCHANGED <<lease[p], attempt[p], generation[p]>>
        /\ attempt[p].checkpoint # "none" =>
               attempt'[p].checkpoint = attempt[p].checkpoint
        /\ attempt[p].state # "none" =>
               /\ attempt'[p].state # "none"
               /\ attempt'[p].deadline = attempt[p].deadline

DecisionsAreFinal == [][DecidedOnce]_fenceVars
==============================================================================
