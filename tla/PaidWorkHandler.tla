---------------------------- MODULE PaidWorkHandler ----------------------------
(***************************************************************************)
(* The Generation function: concurrent invocations of paid-work-handler.ts  *)
(* over the execution plane.  An invocation runs its database operations    *)
(* one at a time, and between two of them others run, the clock advances or *)
(* the process dies.  An operation may commit and lose its answer, or never *)
(* reach the database; both look like an exception to the handler.          *)
(***************************************************************************)
EXTENDS ExecutionFence

CONSTANTS Invocation,  \* `execute' and `status' invocations
          MaxPolls     \* polls of the tailer before it gives up (650)

ASSUME HandlerAssumption ==
    /\ MaxPolls \in Nat \ {0}
    /\ {"open", "claimed", "cancelled", "lost"} \cap Draft = {}

VARIABLES pc,        \* what the invocation does next
          job,       \* the permit it works for
          claim,     \* what claimExecution told it
          frame,     \* why it recovers, and its tries so far
          result,    \* what its provider call returned
          answer,    \* what it answered
          receipts,  \* what was signed so far, as <<permit, says>>
          calls      \* provider calls made for the permit

localVars == <<pc, job, claim, frame, result, answer>>
vars == <<fenceVars, localVars, receipts, calls>>

-----------------------------------------------------------------------------
\* Where a recovery was entered, which decides what follows it.
ExecuteSite == {"existing", "tail", "timeout", "afterCheckpoint", "afterMark",
                "raced", "complete"}
StatusSite == {"status", "statusRaced"}
Site == {"none"} \cup ExecuteSite \cup StatusSite

Label == {"idle", "call", "calling", "checkpoint", "markTimeout", "mark",
          "reject", "read", "state", "reread", "completeRead", "completeLock",
          "find", "leaseStatus", "done"}

Tries == 2  \* checkpoint and complete are tried twice

\* What a signed receipt says of a permit.
Says == {"lease", "no-lease", "leased", "running", "cancelled",
         "indeterminate", "terminal", "completed", "rejected"}

\* The errors an invocation may end with instead of a receipt.
Failure == {"EXECUTION_NOT_CLAIMABLE", "PROVIDER_RESULT_INDETERMINATE",
            "PROVIDER_RESULT_CHECKPOINT_UNAVAILABLE",
            "GENERATION_TERMINAL_NOT_AVAILABLE", "error", "crashed"}

HandlerTypeOK ==
    /\ FenceTypeOK
    /\ pc \in [Invocation -> Label]
    /\ job \in [Invocation -> Permit]
    /\ claim \in [Invocation -> {"none", "claimed", "existing"}]
    /\ frame \in [Invocation -> [site : Site, tries : 0..MaxPolls + Tries]]
    /\ result \in [Invocation -> Result \cup {"none", "timeout", "failed"}]
    /\ answer \in [Invocation -> {"none"} \cup Says \cup Failure]
    /\ receipts \subseteq Permit \X Says
    /\ calls \in [Permit -> Nat]

HandlerInit ==
    /\ FenceInit
    /\ pc = [i \in Invocation |-> "idle"]
    /\ job \in [Invocation -> Permit]
    /\ claim = [i \in Invocation |-> "none"]
    /\ frame = [i \in Invocation |-> [site |-> "none", tries |-> 0]]
    /\ result = [i \in Invocation |-> "none"]
    /\ answer = [i \in Invocation |-> "none"]
    /\ receipts = {}
    /\ calls = [p \in Permit |-> 0]

-----------------------------------------------------------------------------
(* Control *)

Goto(i, label) == /\ pc' = [pc EXCEPT ![i] = label]
                  /\ UNCHANGED <<frame, answer, receipts>>

Enter(i, label, site) ==
    /\ pc' = [pc EXCEPT ![i] = label]
    /\ frame' = [frame EXCEPT ![i] = [site |-> site, tries |-> 0]]
    /\ UNCHANGED <<answer, receipts>>

\* Fault: the tries are not counted.
RetryUncounted(i, label) == Goto(i, label)

Retry(i, label) ==
    /\ pc' = [pc EXCEPT ![i] = label]
    /\ frame' = [frame EXCEPT ![i].tries = @ + 1]
    /\ UNCHANGED <<answer, receipts>>

Recover(i, site) == Enter(i, "read", site)

Fail(i, failure) ==
    /\ pc' = [pc EXCEPT ![i] = "done"]
    /\ answer' = [answer EXCEPT ![i] = failure]
    /\ UNCHANGED <<frame, receipts>>

Sign(i, says) ==
    /\ pc' = [pc EXCEPT ![i] = "done"]
    /\ answer' = [answer EXCEPT ![i] = says]
    /\ receipts' = receipts \cup {<<job[i], says>>}
    /\ UNCHANGED frame

\* projectTerminal and terminalStatus: sign the outcome of a generation row.  A
\* signature that fails inside the try block of `afterMark' is caught there.
SignTerminal(i, row) ==
    \/ Sign(i, IF row.status = "SUCCEEDED" THEN "completed" ELSE "rejected")
    \/ IF frame[i].site = "afterMark" THEN Recover(i, "raced")
       ELSE Fail(i, "error")

NoRows == UNCHANGED <<lease, attempt, generation>>
Rest == UNCHANGED <<now, job, claim, result, calls>>

\* A database operation the handler sees fail: it may have committed.
Unanswered(committed) == NoRows \/ committed

\* Fault: an attempt whose result never appears is tried again.
TailCallsAgain(i) == Goto(i, "call")

\* The tailer's polls are used up.
TailGivesUp(i) == Fail(i, "GENERATION_TERMINAL_NOT_AVAILABLE")

\* A recovery ended with no result yet.
RecoveredNone(i) ==
    CASE frame[i].site = "existing" -> Recover(i, "tail")
      [] frame[i].site = "tail" ->
            IF frame[i].tries + 1 < MaxPolls THEN Retry(i, "read")
            ELSE TailGivesUp(i)
      [] frame[i].site = "timeout" -> Fail(i, "PROVIDER_RESULT_INDETERMINATE")
      [] frame[i].site = "afterCheckpoint" -> Goto(i, "mark")
      [] frame[i].site = "afterMark" -> Recover(i, "raced")
      [] frame[i].site = "raced" ->
            Fail(i, "PROVIDER_RESULT_CHECKPOINT_UNAVAILABLE")
      [] frame[i].site = "status" -> Goto(i, "leaseStatus")
      [] OTHER -> Fail(i, "GENERATION_TERMINAL_NOT_AVAILABLE")

\* A recovery found the attempt indeterminate.
RecoveredIndeterminate(i) ==
    CASE frame[i].site = "status" -> Sign(i, "indeterminate")
      [] frame[i].site = "statusRaced" ->
            Fail(i, "GENERATION_TERMINAL_NOT_AVAILABLE")
      [] OTHER -> Fail(i, "PROVIDER_RESULT_INDETERMINATE")

\* Fault: a database error is reported as a lost result.
ErrorAsIndeterminate(i) == Fail(i, "PROVIDER_RESULT_INDETERMINATE")

\* A recovery, or completeCheckpoint, threw.
RecoveredError(i) ==
    CASE frame[i].site = "afterCheckpoint" -> Goto(i, "mark")
      [] frame[i].site = "afterMark" -> Recover(i, "raced")
      [] frame[i].site = "raced" ->
            Fail(i, "PROVIDER_RESULT_CHECKPOINT_UNAVAILABLE")
      [] frame[i].site = "complete" /\ frame[i].tries + 1 < Tries ->
            Retry(i, "completeRead")
      [] OTHER -> Fail(i, "error")

-----------------------------------------------------------------------------
(* recover, recoverByScope and complete *)

\* recoverByScope: no attempt row, nothing to recover.
Find(i) ==
    /\ pc[i] = "find"
    /\ \/ attempt[job[i]].state = "none" /\ RecoveredNone(i)
       \/ attempt[job[i]].state # "none" /\ Goto(i, "read")
       \/ RecoveredError(i)
    /\ NoRows /\ Rest

Read(i) ==
    /\ pc[i] = "read"
    /\ \/ Terminal(job[i]) /\ SignTerminal(i, generation[job[i]])
       \/ ~Terminal(job[i]) /\ Goto(i, "state")
       \/ RecoveredError(i)
    /\ NoRows /\ Rest

State(i) ==
    /\ pc[i] = "state"
    /\ \/ RecoveryState(job[i], "checkpointed") /\ Goto(i, "completeRead")
       \/ RecoveryState(job[i], "indeterminate") /\ RecoveredIndeterminate(i)
       \/ /\ RecoveryState(job[i], "none")
          /\ IF frame[i].site \in StatusSite THEN Goto(i, "reread")
             ELSE RecoveredNone(i)
       \/ /\ Unanswered(\E r \in RecoveryReplies : RecoveryState(job[i], r))
          /\ RecoveredError(i)
    /\ Rest

\* recoverByScope reads the terminal once more before it answers "none".
Reread(i) ==
    /\ pc[i] = "reread"
    /\ \/ Terminal(job[i]) /\ SignTerminal(i, generation[job[i]])
       \/ ~Terminal(job[i]) /\ RecoveredNone(i)
       \/ RecoveredError(i)
    /\ NoRows /\ Rest

\* complete reads the terminal without a lock ...
CompleteRead(i) ==
    /\ pc[i] = "completeRead"
    /\ \/ Terminal(job[i]) /\ SignTerminal(i, generation[job[i]])
       \/ ~Terminal(job[i]) /\ Goto(i, "completeLock")
       \/ RecoveredError(i)
    /\ NoRows /\ Rest

\* ... and then locks the checkpoint, which a racing call may have finalized.
CompleteLock(i) ==
    /\ pc[i] = "completeLock"
    /\ \/ /\ Finalize(job[i], "finalized")
          /\ SignTerminal(i, generation'[job[i]])
       \/ /\ \/ Finalize(job[i], "not-finalizable")
             \/ Unanswered(Finalize(job[i], "finalized"))
          /\ RecoveredError(i)
    /\ Rest

-----------------------------------------------------------------------------
(* execute *)

\* Verify the activation, then claim the attempt.
Execute(i) ==
    /\ pc[i] = "idle"
    /\ \E e \in Expiry :
          /\ \E t \in AppClock : e > t
          /\ \/ /\ ClaimAttempt(job[i], e, "claimed")
                /\ claim' = [claim EXCEPT ![i] = "claimed"]
                /\ Goto(i, "call")
             \/ /\ ClaimAttempt(job[i], e, "existing")
                /\ claim' = [claim EXCEPT ![i] = "existing"]
                /\ Recover(i, "existing")
             \/ /\ ClaimAttempt(job[i], e, "EXECUTION_NOT_CLAIMABLE")
                /\ Fail(i, "EXECUTION_NOT_CLAIMABLE")
                /\ UNCHANGED claim
             \/ /\ Unanswered(\E r \in ClaimReply : ClaimAttempt(job[i], e, r))
                /\ Fail(i, "error")
                /\ UNCHANGED claim
    /\ UNCHANGED <<now, job, result, calls>>

Call(i) ==
    /\ pc[i] = "call"
    /\ calls' = [calls EXCEPT ![job[i]] = @ + 1]
    /\ Goto(i, "calling")
    /\ UNCHANGED <<lease, attempt, generation, now, job, claim, result>>

Return(i) ==
    /\ pc[i] = "calling"
    /\ \E r \in Result \cup {"timeout", "failed"} :
          /\ result' = [result EXCEPT ![i] = r]
          /\ CASE r = "timeout" -> Goto(i, "markTimeout")
               [] r = "failed" -> Goto(i, "reject")
               [] OTHER -> Enter(i, "checkpoint", "none")
    /\ UNCHANGED <<lease, attempt, generation, now, job, claim, calls>>

\* The provider timed out: mark, and recover if something else was recorded.
MarkTimeout(i) ==
    /\ pc[i] = "markTimeout"
    /\ \/ /\ MarkIndeterminate(job[i], "indeterminate")
          /\ Fail(i, "PROVIDER_RESULT_INDETERMINATE")
       \/ /\ \E r \in {"checkpointed", "terminal"} :
                MarkIndeterminate(job[i], r)
          /\ Recover(i, "timeout")
       \/ /\ Unanswered(\E r \in MarkReply : MarkIndeterminate(job[i], r))
          /\ Fail(i, "error")
    /\ Rest

\* The provider failed before a result: reject the attempt.
RejectAttempt(i) ==
    /\ pc[i] = "reject"
    /\ \E code \in RejectionCode :
          \/ Reject(job[i], code, "rejected") /\ Sign(i, "rejected")
          \/ /\ \/ Reject(job[i], code, "not-rejectable")
                \/ Unanswered(Reject(job[i], code, "rejected"))
             /\ Fail(i, "error")
    /\ Rest

\* Checkpoint the result, twice at most, then complete or recover.
CheckpointResult(i) ==
    /\ pc[i] = "checkpoint"
    /\ \/ /\ Checkpoint(job[i], result[i], "checkpointed")
          /\ Enter(i, "completeRead", "complete")
       \/ /\ \/ Checkpoint(job[i], result[i], "conflict")
             \/ Unanswered(Checkpoint(job[i], result[i], "checkpointed"))
          /\ IF frame[i].tries + 1 < Tries THEN Retry(i, "checkpoint")
             ELSE Recover(i, "afterCheckpoint")
    /\ Rest

\* No checkpoint could be read back: mark the attempt indeterminate.
MarkUnavailable(i) ==
    /\ pc[i] = "mark"
    /\ \/ /\ MarkIndeterminate(job[i], "indeterminate")
          /\ Fail(i, "PROVIDER_RESULT_INDETERMINATE")
       \/ /\ \E r \in {"checkpointed", "terminal"} :
                MarkIndeterminate(job[i], r)
          /\ Recover(i, "afterMark")
       \/ /\ Unanswered(\E r \in MarkReply : MarkIndeterminate(job[i], r))
          /\ Recover(i, "raced")
    /\ Rest

-----------------------------------------------------------------------------
(* status, prepare, cancel-expired-lease *)

Status(i) ==
    /\ pc[i] = "idle"
    /\ Enter(i, "find", "status")
    /\ NoRows /\ Rest

ReadLeaseStatus(i) ==
    /\ pc[i] = "leaseStatus"
    /\ \/ \E r \in StatusReply \ {"terminal"} :
             LeaseStatus(job[i], r) /\ Sign(i, r)
       \/ /\ LeaseStatus(job[i], "terminal")
          /\ Enter(i, "find", "statusRaced")
       \/ /\ Unanswered(\E r \in StatusReply : LeaseStatus(job[i], r))
          /\ Fail(i, "error")
    /\ Rest

\* One database operation and one signature each, so one step each.
Prepare(p) ==
    /\ \E e \in Expiry :
          /\ \E t \in AppClock : e > t
          /\ \/ /\ \E r \in {"leased", "existing"} : PrepareLease(p, e, r)
                /\ receipts' = receipts \cup {<<p, "lease">>}
             \/ /\ \E r \in PrepareReply : PrepareLease(p, e, r)
                /\ UNCHANGED receipts
    /\ UNCHANGED <<now, localVars, calls>>

CancelExpiredLease(p) ==
    /\ \/ \E r \in CancelReply \ {"LEASE_NOT_EXPIRED"} :
             /\ CancelExpired(p, r)
             /\ receipts' = receipts \cup {<<p, r>>}
       \/ /\ \E r \in CancelReply : CancelExpired(p, r)
          /\ UNCHANGED receipts
    /\ UNCHANGED <<now, localVars, calls>>

\* The process of an invocation dies between two of its steps.
Crash(i) ==
    /\ pc[i] \notin {"idle", "done"}
    /\ Fail(i, "crashed")
    /\ NoRows /\ Rest

HandlerTick == FenceTick /\ UNCHANGED <<localVars, receipts, calls>>

Step(i) ==
    \/ Find(i) \/ Read(i) \/ State(i) \/ Reread(i)
    \/ CompleteRead(i) \/ CompleteLock(i)
    \/ Call(i) \/ Return(i) \/ MarkTimeout(i) \/ RejectAttempt(i)
    \/ CheckpointResult(i) \/ MarkUnavailable(i) \/ ReadLeaseStatus(i)

HandlerNext ==
    \/ \E i \in Invocation : Step(i) \/ Execute(i) \/ Status(i) \/ Crash(i)
    \/ \E p \in Permit : Prepare(p) \/ CancelExpiredLease(p)
    \/ HandlerTick

HandlerSpec == HandlerInit /\ [][HandlerNext]_vars

\* The runtime gives a started invocation its next step, or kills it.
HandlerFairSpec == HandlerSpec /\ \A i \in Invocation : WF_vars(Step(i))

-----------------------------------------------------------------------------
(* The contract, and the rows and calls it abstracts *)

OutcomeOf(p) ==
    CASE attempt[p].state = "TIMED_OUT" -> "lost"
      [] attempt[p].state = "SUCCEEDED" -> generation[p].draft
      [] attempt[p].state = "FAILED" -> "rejected"
      [] attempt[p].state \in {"RUNNING", "CHECKPOINTED"} -> "claimed"
      [] attempt[p].state = "none" /\ lease[p].state = "CANCELLED" -> "cancelled"
      [] OTHER -> "open"

Contract == INSTANCE PaidWorkContract
    WITH outcome <- [p \in Permit |-> OutcomeOf(p)],
         called <- {p \in Permit : calls[p] > 0}

\* The function keeps its contract: one decision per permit, no call before a
\* claim or after a cancellation, nothing published without a call.
KeepsContract == Contract!Spec

-----------------------------------------------------------------------------
(* Properties *)

\* A permit pays for one provider call at most, and only under a durable
\* attempt: whatever invocations race, repeat, lose their answers or die, the
\* call follows a won claim.
OneCallPerPermit ==
    \A p \in Permit :
        /\ calls[p] <= 1
        /\ calls[p] = 1 => attempt[p].state # "none"

\* What a receipt says of a permit is true of its rows for as long as the
\* receipt can be replayed, so Context may act on it at any later time; and an
\* invocation that reports an indeterminate result has made it so: no later
\* checkpoint or completion can publish a draft the reviewer was told is lost.
ReceiptsAreTrue ==
    \A p \in Permit :
        /\ <<p, "lease">> \in receipts => lease[p].state # "none"
        /\ <<p, "cancelled">> \in receipts => lease[p].state = "CANCELLED"
        /\ <<p, "running">> \in receipts => attempt[p].state # "none"
        /\ <<p, "indeterminate">> \in receipts => attempt[p].state = "TIMED_OUT"
        /\ <<p, "completed">> \in receipts =>
               generation[p].status = "SUCCEEDED"
        /\ <<p, "rejected">> \in receipts =>
               generation[p].status \in {"REJECTED", "PROVIDER_ERROR"}
    /\ \A i \in Invocation :
         answer[i] \in {"PROVIDER_RESULT_INDETERMINATE", "indeterminate"} =>
             attempt[job[i]].state = "TIMED_OUT"

\* A published draft is what the one provider call of its permit returned, even
\* when another invocation recovers and completes it.
PublishedDraftWasReturned ==
    \A p \in Permit :
        generation[p].draft # "none" =>
            \E i \in Invocation : /\ job[i] = p
                                  /\ claim[i] = "claimed"
                                  /\ result[i] = generation[p].draft

\* Every started invocation ends: its retries, polls and recoveries are bounded
\* even when every database operation fails.
InvocationsEnd ==
    \A i \in Invocation : (pc[i] # "idle") ~> (pc[i] = "done")
==============================================================================
