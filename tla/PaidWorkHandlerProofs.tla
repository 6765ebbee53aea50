------------------------ MODULE PaidWorkHandlerProofs ------------------------
(* Proofs about the Generation function, for every number of invocations and *)
(* polls and every set of permits: one provider call per permit, receipts    *)
(* that stay true, drafts that were returned, and the refinement of          *)
(* PaidWorkContract.                                                         *)
EXTENDS PaidWorkHandler, ExecutionFenceProofs

-----------------------------------------------------------------------------
(* The inductive invariant *)

\* Where an invocation's call is still to be made, or its result to be recorded.
Before == {"call", "calling", "markTimeout", "reject"}

\* What a receipt says of the rows of its permit.
SaysTrue(p, says) ==
    /\ says = "lease" => lease[p].state # "none"
    /\ says = "cancelled" => lease[p].state = "CANCELLED"
    /\ says = "running" => attempt[p].state # "none"
    /\ says = "indeterminate" => attempt[p].state = "TIMED_OUT"
    /\ says = "completed" => generation[p].status = "SUCCEEDED"
    /\ says = "rejected" => generation[p].status \in {"REJECTED", "PROVIDER_ERROR"}

Lost == {"PROVIDER_RESULT_INDETERMINATE", "indeterminate"}

\* Only the invocation that won the claim calls and records a result; until it
\* has, the attempt has none, and nothing recovers from a timeout.
InvocationInv(i) ==
    /\ pc[i] = "idle" => claim[i] = "none"
    /\ claim[i] = "claimed" => attempt[job[i]].state # "none"
    /\ pc[i] \in Before \cup {"checkpoint"} => claim[i] = "claimed"
    /\ pc[i] \in Before => attempt[job[i]].state \in {"RUNNING", "TIMED_OUT"}
    /\ pc[i] = "call" => calls[job[i]] = 0
    /\ pc[i] \in {"calling", "markTimeout", "reject", "checkpoint"} => calls[job[i]] = 1
    /\ pc[i] = "checkpoint" => result[i] \in Result
    /\ frame[i].site # "timeout"
    /\ answer[i] \in Lost => attempt[job[i]].state = "TIMED_OUT"

Returned(p, r) == \E i \in Invocation : /\ job[i] = p
                                        /\ claim[i] = "claimed"
                                        /\ result[i] = r

\* A call is made under an attempt, a result is recorded after a call, and a
\* checkpoint is what the claimant's call returned.
PermitInv(p) ==
    /\ calls[p] \in {0, 1}
    /\ calls[p] = 1 => attempt[p].state # "none"
    /\ attempt[p].state \in {"CHECKPOINTED", "SUCCEEDED", "FAILED"} => calls[p] = 1
    /\ attempt[p].checkpoint # "none" => Returned(p, attempt[p].checkpoint)

OneClaimant == \A i, j \in Invocation :
    claim[i] = "claimed" /\ claim[j] = "claimed" /\ job[i] = job[j] => i = j

SignedTrue == \A p \in Permit, says \in Says : <<p, says>> \in receipts => SaysTrue(p, says)

HandlerInv ==
    /\ HandlerTypeOK
    /\ FenceInv
    /\ \A i \in Invocation : InvocationInv(i)
    /\ \A p \in Permit : PermitInv(p)
    /\ OneClaimant
    /\ SignedTrue

LEMMA HandlerInitInv == HandlerInit => HandlerInv
<1> SUFFICES ASSUME HandlerInit PROVE HandlerInv
  OBVIOUS
<1>1. FenceInv
  BY FenceInitInv DEF HandlerInit
<1>2. HandlerTypeOK
  BY <1>1, HandlerAssumption
     DEF HandlerInit, HandlerTypeOK, FenceInv, Label, Site, Tries
<1>3. ASSUME NEW i \in Invocation PROVE InvocationInv(i)
  BY DEF HandlerInit, InvocationInv, Before, Lost
<1>4. ASSUME NEW p \in Permit PROVE PermitInv(p)
  BY DEF HandlerInit, FenceInit, NoAttempt, PermitInv
<1>5. OneClaimant /\ SignedTrue
  BY DEF HandlerInit, OneClaimant, SignedTrue
<1>6. QED
  BY <1>1, <1>2, <1>3, <1>4, <1>5 DEF HandlerInv

-----------------------------------------------------------------------------
(* What a step does to the invocation that takes it *)

After == Label \ (Before \cup {"idle", "checkpoint"})
Frame == [site : Site, tries : 0..MaxPolls + Tries]
Answer == {"none"} \cup Says \cup Failure

\* It goes where no call is made and no result recorded, signs nothing but the
\* truth, and reports as lost only what is.
Harmless(i) ==
    \E l \in After, f \in Frame, a \in Answer :
        /\ pc' = [pc EXCEPT ![i] = l]
        /\ frame' = [frame EXCEPT ![i] = f]
        /\ f.site # "timeout"
        /\ answer' = [answer EXCEPT ![i] = a]
        /\ a \in Lost => attempt'[job[i]].state = "TIMED_OUT"
        /\ \/ UNCHANGED receipts
           \/ \E s \in Says : /\ receipts' = receipts \cup {<<job[i], s>>}
                              /\ SaysTrue(job[i], s)'

LEMMA HarmlessIntro ==
    ASSUME NEW i \in Invocation, NEW l \in After, NEW f \in Frame, NEW a \in Answer,
           pc' = [pc EXCEPT ![i] = l],
           frame' = [frame EXCEPT ![i] = f],
           f.site # "timeout",
           answer' = [answer EXCEPT ![i] = a],
           a \in Lost => attempt'[job[i]].state = "TIMED_OUT",
           \/ UNCHANGED receipts
           \/ \E s \in Says : /\ receipts' = receipts \cup {<<job[i], s>>}
                              /\ SaysTrue(job[i], s)'
    PROVE  Harmless(i)
  BY DEF Harmless

\* What is lost stays lost.
LEMMA LostStays ==
    ASSUME HandlerInv, DecidedOnce, NEW i \in Invocation, answer[i] \in Lost
    PROVE  attempt'[job[i]].state = "TIMED_OUT"
<1>1. job[i] \in Permit /\ attempt[job[i]].state = "TIMED_OUT"
  BY DEF HandlerInv, HandlerTypeOK, InvocationInv
<1>2. QED
  BY <1>1 DEF DecidedOnce, Decided

LEMMA LocalRows ==
    ASSUME HandlerInv, NEW i \in Invocation
    PROVE  /\ frame[i] \in Frame /\ frame = [frame EXCEPT ![i] = frame[i]]
           /\ answer[i] \in Answer /\ answer = [answer EXCEPT ![i] = answer[i]]
           /\ frame[i].site # "timeout"
           /\ job[i] \in Permit
  BY DEF HandlerInv, HandlerTypeOK, Frame, Answer, InvocationInv

LEMMA GotoHarmless ==
    ASSUME HandlerInv, DecidedOnce, NEW i \in Invocation, NEW l \in After, Goto(i, l)
    PROVE  Harmless(i)
  BY HarmlessIntro, LocalRows, LostStays DEF Goto

LEMMA EnterHarmless ==
    ASSUME HandlerInv, DecidedOnce, NEW i \in Invocation, NEW l \in After,
           NEW s \in Site \ {"timeout"}, Enter(i, l, s)
    PROVE  Harmless(i)
<1>1. [site |-> s, tries |-> 0] \in Frame
  BY HandlerAssumption DEF Frame, Tries
<1>2. QED
  BY <1>1, HarmlessIntro, LocalRows, LostStays DEF Enter

LEMMA RetryHarmless ==
    ASSUME HandlerInv, DecidedOnce, NEW i \in Invocation, NEW l \in After,
           frame[i].tries < MaxPolls + Tries, Retry(i, l)
    PROVE  Harmless(i)
<1> DEFINE f == [frame[i] EXCEPT !.tries = @ + 1]
<1>1. f \in Frame /\ f.site # "timeout"
  BY LocalRows, HandlerAssumption DEF Frame, Tries
<1>2. frame' = [frame EXCEPT ![i] = f]
  BY DEF Retry
<1> HIDE DEF f
<1>3. QED
  BY <1>1, <1>2, HarmlessIntro, LocalRows, LostStays DEF Retry

LEMMA FailHarmless ==
    ASSUME HandlerInv, DecidedOnce, NEW i \in Invocation, NEW a \in Failure,
           a \in Lost => attempt'[job[i]].state = "TIMED_OUT", Fail(i, a)
    PROVE  Harmless(i)
<1>1. "done" \in After /\ a \in Answer
  BY DEF After, Label, Before, Answer
<1>2. QED
  BY <1>1, HarmlessIntro, LocalRows DEF Fail

LEMMA SignHarmless ==
    ASSUME HandlerInv, NEW i \in Invocation, NEW s \in Says,
           SaysTrue(job[i], s)', UNCHANGED job, Sign(i, s)
    PROVE  Harmless(i)
<1>1. "done" \in After /\ s \in Answer
  BY DEF After, Label, Before, Answer
<1>2. s \in Lost => attempt'[job[i]].state = "TIMED_OUT"
  BY DEF SaysTrue, Lost, Says
<1>3. QED
  BY <1>1, <1>2, HarmlessIntro, LocalRows DEF Sign

LEMMA RecoverHarmless ==
    ASSUME HandlerInv, DecidedOnce, NEW i \in Invocation,
           NEW s \in Site \ {"timeout"}, Recover(i, s)
    PROVE  Harmless(i)
  BY EnterHarmless DEF Recover, After, Label, Before

LEMMA RecoveredErrorHarmless ==
    ASSUME HandlerInv, DecidedOnce, NEW i \in Invocation, RecoveredError(i)
    PROVE  Harmless(i)
<1>1. {"mark", "completeRead"} \subseteq After /\ "raced" \in Site \ {"timeout"}
  BY DEF After, Label, Before, Site, ExecuteSite
<1>2. {"PROVIDER_RESULT_CHECKPOINT_UNAVAILABLE", "error"} \subseteq Failure \ Lost
  BY DEF Failure, Lost
<1>3. CASE frame[i].site = "afterCheckpoint"
  BY <1>1, <1>3, GotoHarmless DEF RecoveredError
<1>4. CASE frame[i].site = "afterMark"
  BY <1>1, <1>4, RecoverHarmless DEF RecoveredError
<1>5. CASE frame[i].site = "raced"
  BY <1>2, <1>5, FailHarmless DEF RecoveredError
<1>6. CASE frame[i].site = "complete" /\ frame[i].tries + 1 < Tries
  <2>1. frame[i].tries < MaxPolls + Tries
    BY <1>6, LocalRows, HandlerAssumption DEF Frame, Tries
  <2>2. QED
    BY <1>1, <1>6, <2>1, RetryHarmless DEF RecoveredError
<1>7. CASE /\ frame[i].site \notin {"afterCheckpoint", "afterMark", "raced"}
           /\ ~(frame[i].site = "complete" /\ frame[i].tries + 1 < Tries)
  BY <1>2, <1>7, FailHarmless DEF RecoveredError
<1>8. QED
  BY <1>3, <1>4, <1>5, <1>6, <1>7

LEMMA RecoveredNoneHarmless ==
    ASSUME HandlerInv, DecidedOnce, NEW i \in Invocation, RecoveredNone(i)
    PROVE  Harmless(i)
<1>1. /\ {"mark", "leaseStatus", "read"} \subseteq After
      /\ {"raced", "tail"} \subseteq Site \ {"timeout"}
  BY DEF After, Label, Before, Site, ExecuteSite
<1>2. {"PROVIDER_RESULT_CHECKPOINT_UNAVAILABLE", "GENERATION_TERMINAL_NOT_AVAILABLE"}
          \subseteq Failure \ Lost
  BY DEF Failure, Lost
<1>3. CASE frame[i].site = "existing"
  BY <1>1, <1>3, RecoverHarmless DEF RecoveredNone
<1>4. CASE frame[i].site = "tail" /\ frame[i].tries + 1 < MaxPolls
  <2>1. frame[i].tries < MaxPolls + Tries
    BY <1>4, LocalRows, HandlerAssumption DEF Frame, Tries
  <2>2. QED
    BY <1>1, <1>4, <2>1, RetryHarmless DEF RecoveredNone
<1>5. CASE frame[i].site = "tail" /\ ~(frame[i].tries + 1 < MaxPolls)
  BY <1>2, <1>5, FailHarmless DEF RecoveredNone, TailGivesUp
<1>6. CASE frame[i].site = "afterCheckpoint"
  BY <1>1, <1>6, GotoHarmless DEF RecoveredNone
<1>7. CASE frame[i].site = "afterMark"
  BY <1>1, <1>7, RecoverHarmless DEF RecoveredNone
<1>8. CASE frame[i].site = "raced"
  BY <1>2, <1>8, FailHarmless DEF RecoveredNone
<1>9. CASE frame[i].site = "status"
  BY <1>1, <1>9, GotoHarmless DEF RecoveredNone
<1>10. CASE frame[i].site \notin {"existing", "tail", "timeout", "afterCheckpoint",
                                  "afterMark", "raced", "status"}
  BY <1>2, <1>10, FailHarmless DEF RecoveredNone
<1>11. QED
  BY <1>3, <1>4, <1>5, <1>6, <1>7, <1>8, <1>9, <1>10, LocalRows

LEMMA RecoveredIndeterminateHarmless ==
    ASSUME HandlerInv, DecidedOnce, NEW i \in Invocation, UNCHANGED job,
           attempt'[job[i]].state = "TIMED_OUT", RecoveredIndeterminate(i)
    PROVE  Harmless(i)
<1>1. /\ "indeterminate" \in Says /\ SaysTrue(job[i], "indeterminate")'
      /\ "PROVIDER_RESULT_INDETERMINATE" \in Failure
      /\ "GENERATION_TERMINAL_NOT_AVAILABLE" \in Failure \ Lost
  BY DEF Says, SaysTrue, Failure, Lost
<1>2. CASE frame[i].site = "status"
  BY <1>1, <1>2, SignHarmless DEF RecoveredIndeterminate
<1>3. CASE frame[i].site = "statusRaced"
  BY <1>1, <1>3, FailHarmless DEF RecoveredIndeterminate
<1>4. CASE frame[i].site \notin {"status", "statusRaced"}
  BY <1>1, <1>4, FailHarmless DEF RecoveredIndeterminate
<1>5. QED
  BY <1>2, <1>3, <1>4

\* A generation row that is there is signed as what it is.
LEMMA SignTerminalHarmless ==
    ASSUME HandlerInv, DecidedOnce, NEW i \in Invocation, UNCHANGED job,
           generation'[job[i]] \in Generation, generation'[job[i]].status # "none",
           SignTerminal(i, generation'[job[i]])
    PROVE  Harmless(i)
<1>1. CASE Sign(i, "completed") /\ generation'[job[i]].status = "SUCCEEDED"
  <2>1. "completed" \in Says /\ SaysTrue(job[i], "completed")'
    BY <1>1 DEF Says, SaysTrue
  <2>2. QED
    BY <1>1, <2>1, SignHarmless
<1>2. CASE Sign(i, "rejected") /\ generation'[job[i]].status # "SUCCEEDED"
  <2>1. "rejected" \in Says /\ SaysTrue(job[i], "rejected")'
    BY <1>2 DEF Says, SaysTrue, Generation
  <2>2. QED
    BY <1>2, <2>1, SignHarmless
<1>3. CASE frame[i].site = "afterMark" /\ Recover(i, "raced")
  BY <1>3, RecoverHarmless DEF Site, ExecuteSite
<1>4. CASE Fail(i, "error")
  BY <1>4, FailHarmless DEF Failure, Lost
<1>5. QED
  BY <1>1, <1>2, <1>3, <1>4 DEF SignTerminal

-----------------------------------------------------------------------------
(* What a step leaves as it was *)

LEMMA RowsAfter ==
    ASSUME HandlerInv, NEW p \in Permit, RowStep(p), now' \in Nat
    PROVE  /\ FenceInv' /\ DecidedOnce
           /\ \A q \in Permit : attempt[q].state # "none" => attempt'[q].state # "none"
           /\ \A q \in Permit : q # p => UNCHANGED <<lease[q], attempt[q], generation[q]>>
<1>1. FenceInv' /\ DecidedOnce
  BY RowStepInv, RowStepDecides DEF HandlerInv
<1>2. ASSUME NEW q \in Permit, q # p
      PROVE  UNCHANGED <<lease[q], attempt[q], generation[q]>>
  BY <1>2 DEF RowStep, HandlerInv, FenceInv, FenceTypeOK
<1>3. QED
  BY <1>1, <1>2 DEF DecidedOnce

LEMMA SameRows ==
    ASSUME HandlerInv, NEW p \in Permit, NoRows
    PROVE  RowStep(p)
  BY RowStepSame DEF HandlerInv, FenceInv, NoRows

\* An invocation that did not move, whatever happened to its rows.
LEMMA OtherInvocation ==
    ASSUME HandlerInv, NEW p \in Permit, RowStep(p), now' \in Nat,
           NEW j \in Invocation, UNCHANGED job,
           UNCHANGED <<pc[j], claim[j], frame[j], result[j], answer[j]>>,
           pc[j] \in Before \cup {"checkpoint"} => UNCHANGED calls[job[j]],
           pc[j] \in Before /\ job[j] = p =>
               attempt'[p].state \in {"RUNNING", "TIMED_OUT"}
    PROVE  InvocationInv(j)'
<1>1. job[j] \in Permit /\ InvocationInv(j)
  BY DEF HandlerInv, HandlerTypeOK
<1>2. attempt[job[j]].state # "none" => attempt'[job[j]].state # "none"
  BY <1>1, RowsAfter
<1>3. pc[j] \in Before => attempt'[job[j]].state \in {"RUNNING", "TIMED_OUT"}
  <2>1. CASE job[j] = p
    BY <2>1
  <2>2. CASE job[j] # p
    BY <1>1, <2>2, RowsAfter DEF InvocationInv
  <2>3. QED
    BY <2>1, <2>2
<1>4. answer[j] \in Lost => attempt'[job[j]].state = "TIMED_OUT"
  BY RowsAfter, LostStays
<1>5. pc[j] \in {"call", "calling", "markTimeout", "reject", "checkpoint"} =>
          UNCHANGED calls[job[j]]
  BY DEF Before
<1>6. QED
  BY <1>1, <1>2, <1>3, <1>4, <1>5 DEF InvocationInv

\* No result is recorded for an invocation that still waits for its call.
LEMMA ReturnerIsAfter ==
    ASSUME HandlerInv, NEW j \in Invocation, attempt[job[j]].checkpoint # "none"
    PROVE  pc[j] \notin Before
  BY DEF HandlerInv, HandlerTypeOK, FenceInv, ClaimedOrNeverRun, InvocationInv

LEMMA PermitsKept ==
    ASSUME HandlerInv, NEW p \in Permit, RowStep(p), now' \in Nat,
           UNCHANGED <<job, calls>>,
           \A j \in Invocation : claim[j] = "claimed" /\ pc[j] # "calling" =>
               UNCHANGED <<claim[j], result[j]>>,
           attempt'[p].state \in {"CHECKPOINTED", "SUCCEEDED", "FAILED"} => calls[p] = 1,
           \A r \in Result : attempt'[p].checkpoint = r =>
               attempt[p].checkpoint # "none" \/ Returned(p, r)'
    PROVE  \A q \in Permit : PermitInv(q)'
<1> SUFFICES ASSUME NEW q \in Permit PROVE PermitInv(q)'
  OBVIOUS
<1>1. PermitInv(q)
  BY DEF HandlerInv
<1>2. ASSUME NEW r, attempt[q].checkpoint = r, r # "none"
      PROVE  attempt'[q].checkpoint = r /\ Returned(q, r)'
  <2>1. PICK j \in Invocation : job[j] = q /\ claim[j] = "claimed" /\ result[j] = r
    BY <1>1, <1>2 DEF PermitInv, Returned
  <2>2. pc[j] # "calling"
    BY <1>2, <2>1, ReturnerIsAfter DEF Before
  <2>3. attempt'[q].checkpoint = attempt[q].checkpoint
    BY <1>2, RowsAfter DEF DecidedOnce
  <2>4. QED
    BY <1>2, <2>1, <2>2, <2>3 DEF Returned
<1>3. q # p => UNCHANGED attempt[q]
  BY RowsAfter
<1>4. ASSUME NEW r, attempt'[q].checkpoint = r, r # "none"
      PROVE  Returned(q, r)'
  <2>1. r \in Result
    BY <1>4, RowsAfter DEF FenceInv, FenceTypeOK, Attempt
  <2>2. QED
    BY <1>2, <1>3, <1>4, <2>1
<1>5. /\ calls'[q] \in {0, 1}
      /\ calls'[q] = 1 => attempt'[q].state # "none"
      /\ attempt'[q].state \in {"CHECKPOINTED", "SUCCEEDED", "FAILED"} => calls'[q] = 1
  BY <1>1, <1>3, RowsAfter DEF PermitInv
<1>6. QED
  BY <1>4, <1>5 DEF PermitInv

\* What was signed stays true.
LEMMA SaysStaysTrue ==
    ASSUME HandlerInv, NEW p \in Permit, RowStep(p), now' \in Nat,
           NEW q \in Permit, NEW s, SaysTrue(q, s)
    PROVE  SaysTrue(q, s)'
<1>1. DecidedOnce /\ FenceInv /\ FenceInv'
  BY RowsAfter DEF HandlerInv
<1>2. lease[q].state # "none" => lease'[q].state # "none"
  BY RowsAfter DEF RowStep, RowChange, Unchanged, Prepared, Claimed, TimedOut, Cancelled,
                   Checkpointed, Finished, HandlerInv, FenceInv, FenceTypeOK
<1>3. /\ lease[q].state = "CANCELLED" => lease'[q].state = "CANCELLED"
      /\ attempt[q].state = "TIMED_OUT" => attempt'[q].state = "TIMED_OUT"
      /\ attempt[q].state # "none" => attempt'[q].state # "none"
  BY <1>1 DEF DecidedOnce, Decided
<1>4. generation[q].status # "none" => UNCHANGED generation[q]
  BY <1>1 DEF DecidedOnce, Decided, FenceInv, TerminalEvidence
<1>5. QED
  BY <1>2, <1>3, <1>4 DEF SaysTrue

LEMMA SignedKept ==
    ASSUME HandlerInv, NEW p \in Permit, RowStep(p), now' \in Nat,
           \/ UNCHANGED receipts
           \/ \E q \in Permit, s \in Says :
                 receipts' = receipts \cup {<<q, s>>} /\ SaysTrue(q, s)'
    PROVE  SignedTrue'
<1> SUFFICES ASSUME NEW q \in Permit, NEW s \in Says, <<q, s>> \in receipts'
             PROVE  SaysTrue(q, s)'
  BY DEF SignedTrue
<1>1. CASE <<q, s>> \in receipts
  BY <1>1, SaysStaysTrue DEF HandlerInv, SignedTrue
<1>2. CASE <<q, s>> \notin receipts
  <2>1. PICK r \in Permit, t \in Says :
          receipts' = receipts \cup {<<r, t>>} /\ SaysTrue(r, t)'
    BY <1>2
  <2>2. q = r /\ s = t
    BY <1>2, <2>1
  <2>3. QED
    BY <2>1, <2>2
<1>3. QED
  BY <1>1, <1>2

LEMMA ClaimantsKept ==
    ASSUME HandlerInv, UNCHANGED job,
           \A j \in Invocation : claim'[j] = "claimed" => claim[j] = "claimed"
    PROVE  OneClaimant'
  BY DEF HandlerInv, OneClaimant

\* What it was told of its claim may change, as long as it has not won.
SameClaims(i) ==
    /\ claim' \in [Invocation -> {"none", "claimed", "existing"}]
    /\ \A j \in Invocation : claim'[j] = "claimed" <=> claim[j] = "claimed"
    /\ \A j \in Invocation : j # i => UNCHANGED claim[j]

LEMMA ClaimsUnchanged ==
    ASSUME HandlerInv, NEW i \in Invocation, UNCHANGED claim
    PROVE  SameClaims(i)
  BY DEF HandlerInv, HandlerTypeOK, SameClaims

\* A step whose invocation goes where nothing is called or recorded.
LEMMA HarmlessKeeps ==
    ASSUME HandlerInv, NEW i \in Invocation, Harmless(i), RowStep(job[i]),
           UNCHANGED <<now, job, result, calls>>,
           SameClaims(i),
           \A j \in Invocation : pc[j] \in Before /\ job[j] = job[i] /\ j # i =>
               attempt'[job[i]].state \in {"RUNNING", "TIMED_OUT"},
           attempt'[job[i]].state \in {"CHECKPOINTED", "SUCCEEDED", "FAILED"} =>
               calls[job[i]] = 1,
           attempt'[job[i]].checkpoint # "none" =>
               \/ attempt[job[i]].checkpoint # "none"
               \/ Returned(job[i], attempt'[job[i]].checkpoint)
    PROVE  HandlerInv'
<1> DEFINE p == job[i]
<1>1. p \in Permit /\ RowStep(p) /\ now' \in Nat
  BY DEF HandlerInv, HandlerTypeOK, FenceTypeOK
<1>2. PICK l \in After, f \in Frame, a \in Answer :
        /\ pc' = [pc EXCEPT ![i] = l]
        /\ frame' = [frame EXCEPT ![i] = f]
        /\ f.site # "timeout"
        /\ answer' = [answer EXCEPT ![i] = a]
        /\ a \in Lost => attempt'[p].state = "TIMED_OUT"
        /\ \/ UNCHANGED receipts
           \/ \E s \in Says : /\ receipts' = receipts \cup {<<p, s>>}
                              /\ SaysTrue(p, s)'
  BY DEF Harmless
<1>3. FenceInv'
  BY <1>1, RowsAfter
<1>4. HandlerTypeOK'
  <2>1. FenceTypeOK'
    BY <1>3 DEF FenceInv
  <2>2. receipts' \subseteq Permit \X Says
    BY <1>1, <1>2 DEF HandlerInv, HandlerTypeOK
  <2>3. QED
    BY <1>2, <2>1, <2>2 DEF HandlerInv, HandlerTypeOK, After, Frame, Answer, SameClaims
<1>5. InvocationInv(i)'
  <2>1. /\ pc'[i] = l /\ frame'[i] = f /\ answer'[i] = a
        /\ job'[i] = p
    BY <1>2 DEF HandlerInv, HandlerTypeOK
  <2>2. claim'[i] = "claimed" => attempt'[p].state # "none"
    BY <1>1, RowsAfter DEF HandlerInv, InvocationInv, SameClaims
  <2>3. QED
    BY <1>2, <2>1, <2>2 DEF InvocationInv, After, Before
<1>6. ASSUME NEW j \in Invocation, j # i PROVE InvocationInv(j)'
  <2>1. UNCHANGED <<pc[j], claim[j], frame[j], result[j], answer[j]>>
    BY <1>2, <1>6 DEF HandlerInv, HandlerTypeOK, SameClaims
  <2>2. QED
    BY <1>1, <1>6, <2>1, OtherInvocation
<1>7. \A q \in Permit : PermitInv(q)'
  <2>1. ASSUME NEW r, Returned(p, r) PROVE Returned(p, r)'
    BY <2>1 DEF Returned, SameClaims
  <2>2. ASSUME NEW r \in Result, attempt'[p].checkpoint = r
        PROVE  attempt[p].checkpoint # "none" \/ Returned(p, r)'
    BY <2>1, <2>2, FenceAssumption DEF Result
  <2>3. \A j \in Invocation : claim[j] = "claimed" => UNCHANGED <<claim[j], result[j]>>
    BY DEF SameClaims
  <2>4. QED
    BY <1>1, <2>2, <2>3, PermitsKept
<1>8. OneClaimant' /\ SignedTrue'
  BY <1>1, <1>2, ClaimantsKept, SignedKept DEF SameClaims
<1>9. QED
  BY <1>3, <1>4, <1>5, <1>6, <1>7, <1>8 DEF HandlerInv

\* In particular one that only converges the attempt, or does not touch it.
QuietRow(p) ==
    /\ attempt'[p].checkpoint = attempt[p].checkpoint
    /\ \/ attempt'[p].state = attempt[p].state
       \/ attempt[p].state = "RUNNING" /\ attempt'[p].state = "TIMED_OUT"

LEMMA QuietKeeps ==
    ASSUME HandlerInv, NEW i \in Invocation, Harmless(i), RowStep(job[i]),
           QuietRow(job[i]), Rest
    PROVE  HandlerInv'
<1>1. job[i] \in Permit /\ PermitInv(job[i])
  BY DEF HandlerInv, HandlerTypeOK
<1>2. ASSUME NEW j \in Invocation, pc[j] \in Before, job[j] = job[i]
      PROVE  attempt'[job[i]].state \in {"RUNNING", "TIMED_OUT"}
  BY <1>2 DEF HandlerInv, InvocationInv, QuietRow
<1>3. QED
  BY <1>1, <1>2, ClaimsUnchanged, HarmlessKeeps DEF QuietRow, PermitInv, Rest

-----------------------------------------------------------------------------
(* What each operation does to the rows *)

LEMMA ConvergeQuiet ==
    ASSUME HandlerInv, NEW p \in Permit, Converge(p)
    PROVE  QuietRow(p)
<1>1. attempt \in [Permit -> Attempt]
  BY DEF HandlerInv, FenceInv, FenceTypeOK
<1>2. QED
  BY <1>1 DEF Converge, Overdue, Held, QuietRow, Attempt

LEMMA RecoveryRow ==
    ASSUME HandlerInv, NEW p \in Permit, NEW r, RecoveryState(p, r)
    PROVE  /\ RowStep(p) /\ QuietRow(p)
           /\ r = "indeterminate" => attempt'[p].state = "TIMED_OUT"
  BY ConvergeOnlyRow, ConvergeQuiet
     DEF RecoveryState, RecoveryReply, HandlerInv, FenceInv

LEMMA StatusRow ==
    ASSUME HandlerInv, NEW p \in Permit, NEW r, LeaseStatus(p, r)
    PROVE  RowStep(p) /\ QuietRow(p)
  BY ConvergeOnlyRow, ConvergeQuiet DEF LeaseStatus, HandlerInv, FenceInv

LEMMA CancelQuiet ==
    ASSUME HandlerInv, NEW p \in Permit, NEW r, CancelExpired(p, r)
    PROVE  RowStep(p) /\ QuietRow(p)
  BY CancelRow, ConvergeQuiet DEF CancelExpired, HandlerInv, FenceInv

LEMMA PrepareQuiet ==
    ASSUME HandlerInv, NEW p \in Permit, NEW e \in Nat, NEW r, PrepareLease(p, e, r)
    PROVE  RowStep(p) /\ QuietRow(p)
  BY PrepareRow DEF PrepareLease, QuietRow, HandlerInv, FenceInv

LEMMA MarkQuiet ==
    ASSUME HandlerInv, NEW p \in Permit, NEW r, MarkIndeterminate(p, r)
    PROVE  /\ RowStep(p) /\ QuietRow(p)
           /\ r = "indeterminate" => attempt'[p].state = "TIMED_OUT"
           /\ attempt[p].state \in {"RUNNING", "TIMED_OUT"} => r = "indeterminate"
<1>1. attempt \in [Permit -> Attempt] /\ RowStep(p)
  BY MarkRow DEF HandlerInv, FenceInv, FenceTypeOK
<1>2. attempt[p].state = "RUNNING" => Held(p, "RUNNING")
  BY DEF HandlerInv, FenceInv, ClaimedOrNeverRun, Held
<1>3. QuietRow(p)
  BY <1>1 DEF MarkIndeterminate, Held, QuietRow, Attempt
<1>4. CASE Held(p, "RUNNING")
  <2>1. r = "indeterminate" /\ attempt' = [attempt EXCEPT ![p].state = "TIMED_OUT"]
    BY <1>4 DEF MarkIndeterminate
  <2>2. QED
    BY <1>1, <1>3, <2>1 DEF Attempt
<1>5. CASE ~Held(p, "RUNNING")
  <2>1. /\ UNCHANGED attempt
        /\ r = CASE attempt[p].state = "TIMED_OUT" -> "indeterminate"
                 [] attempt[p].state = "CHECKPOINTED" -> "checkpointed"
                 [] /\ attempt[p].state \notin {"TIMED_OUT", "CHECKPOINTED"}
                    /\ lease[p].state = "TERMINAL" -> "terminal"
                 [] OTHER -> "error"
    BY <1>5 DEF MarkIndeterminate
  <2>2. attempt[p].state = "TIMED_OUT" => lease[p].state # "TERMINAL"
    BY DEF HandlerInv, FenceInv, ClaimedOrNeverRun
  <2>3. attempt[p].state = "TIMED_OUT" <=> r = "indeterminate"
    BY <2>1, <2>2
  <2>4. QED
    BY <1>1, <1>2, <1>3, <1>5, <2>1, <2>3
<1>6. QED
  BY <1>4, <1>5

LEMMA NoRowsQuiet ==
    ASSUME HandlerInv, NEW p \in Permit, NoRows
    PROVE  RowStep(p) /\ QuietRow(p)
  BY SameRows DEF NoRows, QuietRow

-----------------------------------------------------------------------------
(* Every step keeps the invariant *)

\* A generation that can be seen has a status.
LEMMA TerminalSeen ==
    ASSUME HandlerInv, NEW p \in Permit, Terminal(p), NoRows
    PROVE  generation'[p] \in Generation /\ generation'[p].status # "none"
  BY DEF HandlerInv, FenceInv, FenceTypeOK, TerminalEvidence, Terminal, NoRows

LEMMA NoRowsDecided ==
    ASSUME HandlerInv, NoRows, NEW p \in Permit
    PROVE  DecidedOnce
  BY DEF NoRows, DecidedOnce

LEMMA FindKeeps ==
    ASSUME HandlerInv, NEW i \in Invocation, Find(i)
    PROVE  HandlerInv'
<1>1. NoRows /\ Rest /\ job[i] \in Permit /\ DecidedOnce
  BY NoRowsDecided DEF Find, HandlerInv, HandlerTypeOK
<1>2. Harmless(i)
  BY <1>1, RecoveredNoneHarmless, GotoHarmless, RecoveredErrorHarmless
     DEF Find, After, Label, Before
<1>3. QED
  BY <1>1, <1>2, NoRowsQuiet, QuietKeeps

LEMMA ReadsKeep ==
    ASSUME HandlerInv, NEW i \in Invocation, Read(i) \/ Reread(i) \/ CompleteRead(i)
    PROVE  HandlerInv'
<1>1. NoRows /\ Rest /\ job[i] \in Permit /\ DecidedOnce
  BY NoRowsDecided DEF Read, Reread, CompleteRead, HandlerInv, HandlerTypeOK
<1>2. UNCHANGED <<generation, job>>
  BY <1>1 DEF NoRows, Rest
<1>3. Terminal(job[i]) /\ SignTerminal(i, generation[job[i]]) => Harmless(i)
  BY <1>1, <1>2, TerminalSeen, SignTerminalHarmless
<1>4. \A l \in {"state", "completeLock"} : Goto(i, l) => Harmless(i)
  BY <1>1, GotoHarmless DEF After, Label, Before
<1>5. RecoveredNone(i) \/ RecoveredError(i) => Harmless(i)
  BY <1>1, RecoveredNoneHarmless, RecoveredErrorHarmless
<1>6. Harmless(i)
  BY <1>3, <1>4, <1>5 DEF Read, Reread, CompleteRead
<1>7. QED
  BY <1>1, <1>6, NoRowsQuiet, QuietKeeps

LEMMA StateKeeps ==
    ASSUME HandlerInv, NEW i \in Invocation, State(i)
    PROVE  HandlerInv'
<1> DEFINE p == job[i]
<1>1. p \in Permit /\ Rest
  BY DEF State, HandlerInv, HandlerTypeOK
<1>2. RowStep(p) /\ QuietRow(p) /\ DecidedOnce
  <2>1. NoRows \/ \E r \in RecoveryReplies : RecoveryState(p, r)
    BY DEF State, Unanswered, RecoveryReplies
  <2>2. RowStep(p) /\ QuietRow(p)
    BY <1>1, <2>1, NoRowsQuiet, RecoveryRow
  <2>3. QED
    BY <1>1, <2>2, RowsAfter DEF Rest, HandlerInv, HandlerTypeOK, FenceTypeOK
<1>3. Harmless(i)
  <2>1. \A l \in {"completeRead", "reread"} : Goto(i, l) => Harmless(i)
    BY <1>2, GotoHarmless DEF After, Label, Before
  <2>2. RecoveryState(p, "indeterminate") /\ RecoveredIndeterminate(i) => Harmless(i)
    BY <1>1, <1>2, RecoveryRow, RecoveredIndeterminateHarmless DEF Rest
  <2>3. RecoveredNone(i) \/ RecoveredError(i) => Harmless(i)
    BY <1>2, RecoveredNoneHarmless, RecoveredErrorHarmless
  <2>4. QED
    BY <2>1, <2>2, <2>3 DEF State
<1>4. QED
  BY <1>1, <1>2, <1>3, QuietKeeps

\* Finalizing needs a checkpoint, which the claimant has recorded, so nobody
\* still waits for the call.
LEMMA CompleteLockKeeps ==
    ASSUME HandlerInv, NEW i \in Invocation, CompleteLock(i)
    PROVE  HandlerInv'
<1> DEFINE p == job[i]
<1>1. p \in Permit /\ Rest
  BY DEF CompleteLock, HandlerInv, HandlerTypeOK
<1>2. UNCHANGED <<lease, attempt, generation>> \/ Finalize(p, "finalized")
  BY DEF CompleteLock, Unanswered, NoRows, Finalize
<1>3. RowStep(p)
  BY <1>1, <1>2, FinalizeRow, SameRows DEF NoRows, HandlerInv, FenceInv
<1>4. DecidedOnce /\ FenceInv'
  BY <1>1, <1>3, RowsAfter DEF Rest, HandlerInv, HandlerTypeOK, FenceTypeOK
<1>5. Finalize(p, "finalized") =>
          generation'[p] \in Generation /\ generation'[p].status # "none"
  <2> HAVE Finalize(p, "finalized")
  <2>1. lease'[p].state = "TERMINAL"
    BY <1>1 DEF Finalize, HandlerInv, FenceInv, FenceTypeOK, Lease
  <2>2. QED
    BY <1>1, <1>4, <2>1 DEF FenceInv, FenceTypeOK, TerminalEvidence
<1>6. Harmless(i)
  BY <1>1, <1>4, <1>5, SignTerminalHarmless, RecoveredErrorHarmless DEF CompleteLock, Rest
<1>7. CASE UNCHANGED <<lease, attempt, generation>>
  BY <1>1, <1>3, <1>6, <1>7, QuietKeeps DEF QuietRow
<1>8. CASE Finalize(p, "finalized")
  <2>1. attempt[p].state = "CHECKPOINTED"
    BY <1>8 DEF Finalize, Held
  <2>2. attempt'[p].checkpoint = attempt[p].checkpoint
    BY <1>1, <1>8 DEF Finalize, HandlerInv, FenceInv, FenceTypeOK, Attempt
  <2>3. calls[p] = 1 /\ \A j \in Invocation : job[j] = p => pc[j] \notin Before
    BY <1>1, <2>1 DEF HandlerInv, PermitInv, InvocationInv
  <2>4. QED
    BY <1>1, <1>3, <1>6, <2>2, <2>3, ClaimsUnchanged, HarmlessKeeps DEF Rest
<1>9. QED
  BY <1>2, <1>7, <1>8

LEMMA MarkTimeoutKeeps ==
    ASSUME HandlerInv, NEW i \in Invocation, MarkTimeout(i)
    PROVE  HandlerInv'
<1> DEFINE p == job[i]
<1>1. p \in Permit /\ Rest /\ attempt[p].state \in {"RUNNING", "TIMED_OUT"}
  BY DEF MarkTimeout, HandlerInv, HandlerTypeOK, InvocationInv, Before
<1>2. RowStep(p) /\ QuietRow(p) /\ DecidedOnce
  <2>1. NoRows \/ \E r \in MarkReply : MarkIndeterminate(p, r)
    BY DEF MarkTimeout, Unanswered, MarkReply
  <2>2. RowStep(p) /\ QuietRow(p)
    BY <1>1, <2>1, NoRowsQuiet, MarkQuiet
  <2>3. QED
    BY <1>1, <2>2, RowsAfter DEF Rest, HandlerInv, HandlerTypeOK, FenceTypeOK
<1>3. Harmless(i)
  <2>1. /\ {"PROVIDER_RESULT_INDETERMINATE", "error"} \subseteq Failure
        /\ "error" \notin Lost
    BY DEF Failure, Lost
  <2>2. MarkIndeterminate(p, "indeterminate") => attempt'[p].state = "TIMED_OUT"
    BY <1>1, MarkQuiet
  <2>3. ~\E r \in {"checkpointed", "terminal"} : MarkIndeterminate(p, r)
    BY <1>1, MarkQuiet
  <2>4. QED
    BY <1>2, <2>1, <2>2, <2>3, FailHarmless DEF MarkTimeout
<1>4. QED
  BY <1>1, <1>2, <1>3, QuietKeeps

LEMMA MarkUnavailableKeeps ==
    ASSUME HandlerInv, NEW i \in Invocation, MarkUnavailable(i)
    PROVE  HandlerInv'
<1> DEFINE p == job[i]
<1>1. p \in Permit /\ Rest
  BY DEF MarkUnavailable, HandlerInv, HandlerTypeOK
<1>2. RowStep(p) /\ QuietRow(p) /\ DecidedOnce
  <2>1. NoRows \/ \E r \in MarkReply : MarkIndeterminate(p, r)
    BY DEF MarkUnavailable, Unanswered, MarkReply
  <2>2. RowStep(p) /\ QuietRow(p)
    BY <1>1, <2>1, NoRowsQuiet, MarkQuiet
  <2>3. QED
    BY <1>1, <2>2, RowsAfter DEF Rest, HandlerInv, HandlerTypeOK, FenceTypeOK
<1>3. Harmless(i)
  <2>1. /\ "PROVIDER_RESULT_INDETERMINATE" \in Failure
        /\ {"afterMark", "raced"} \subseteq Site \ {"timeout"}
    BY DEF Failure, Site, ExecuteSite
  <2>2. MarkIndeterminate(p, "indeterminate") => attempt'[p].state = "TIMED_OUT"
    BY <1>1, MarkQuiet
  <2>3. QED
    BY <1>2, <2>1, <2>2, FailHarmless, RecoverHarmless DEF MarkUnavailable
<1>4. QED
  BY <1>1, <1>2, <1>3, QuietKeeps

\* Only the claimant rejects, and nobody else waits for a call of its permit.
LEMMA RejectKeeps ==
    ASSUME HandlerInv, NEW i \in Invocation, RejectAttempt(i)
    PROVE  HandlerInv'
<1> DEFINE p == job[i]
<1>1. /\ p \in Permit /\ Rest /\ claim[i] = "claimed" /\ calls[p] = 1
      /\ attempt[p].state \in {"RUNNING", "TIMED_OUT"}
  BY DEF RejectAttempt, HandlerInv, HandlerTypeOK, InvocationInv, Before
<1>2. PICK code \in RejectionCode :
        \/ Reject(p, code, "rejected") /\ Sign(i, "rejected")
        \/ /\ \/ Reject(p, code, "not-rejectable")
              \/ Unanswered(Reject(p, code, "rejected"))
           /\ Fail(i, "error")
  BY DEF RejectAttempt
<1>3. UNCHANGED <<lease, attempt, generation>> \/ Reject(p, code, "rejected")
  BY <1>2 DEF Unanswered, NoRows, Reject
<1>4. RowStep(p)
  BY <1>1, <1>3, RejectRow, SameRows DEF NoRows, HandlerInv, FenceInv
<1>5. DecidedOnce
  BY <1>1, <1>4, RowsAfter DEF Rest, HandlerInv, HandlerTypeOK, FenceTypeOK
<1>6. Harmless(i)
  <2>1. "error" \in Failure \ Lost /\ "rejected" \in Says
    BY DEF Failure, Lost, Says
  <2>2. Reject(p, code, "rejected") =>
            generation'[p].status \in {"REJECTED", "PROVIDER_ERROR"}
    BY <1>1 DEF Reject, HandlerInv, FenceInv, FenceTypeOK
  <2>3. Reject(p, code, "rejected") => SaysTrue(p, "rejected")'
    BY <2>2, <1>1 DEF SaysTrue, Rest
  <2>4. QED
    BY <1>1, <1>2, <1>5, <2>1, <2>3, FailHarmless, SignHarmless DEF Rest
<1>7. attempt'[p].checkpoint = attempt[p].checkpoint
  BY <1>1, <1>3 DEF Reject, HandlerInv, FenceInv, FenceTypeOK, Attempt
<1>8. \A j \in Invocation : pc[j] \in Before /\ job[j] = p => j = i
  BY <1>1 DEF HandlerInv, InvocationInv, OneClaimant
<1>9. QED
  BY <1>1, <1>4, <1>6, <1>7, <1>8, ClaimsUnchanged, HarmlessKeeps DEF Rest

LEMMA LeaseStatusKeeps ==
    ASSUME HandlerInv, NEW i \in Invocation, ReadLeaseStatus(i)
    PROVE  HandlerInv'
<1> DEFINE p == job[i]
<1>1. p \in Permit /\ Rest
  BY DEF ReadLeaseStatus, HandlerInv, HandlerTypeOK
<1>2. RowStep(p) /\ QuietRow(p) /\ DecidedOnce /\ FenceInv'
  <2>1. NoRows \/ \E r \in StatusReply : LeaseStatus(p, r)
    BY DEF ReadLeaseStatus, Unanswered, StatusReply
  <2>2. RowStep(p) /\ QuietRow(p)
    BY <1>1, <2>1, NoRowsQuiet, StatusRow
  <2>3. QED
    BY <1>1, <2>2, RowsAfter DEF Rest, HandlerInv, HandlerTypeOK, FenceTypeOK
<1>3. ASSUME NEW r \in StatusReply \ {"terminal"}, LeaseStatus(p, r)
      PROVE  r \in Says /\ SaysTrue(p, r)'
  <2>1. r \in Says
    BY <1>3 DEF StatusReply, Says
  <2>2. /\ r = "indeterminate" => attempt'[p].state = "TIMED_OUT"
        /\ r = "cancelled" => lease'[p].state = "CANCELLED"
        /\ r = "running" => lease'[p].state = "RUNNING"
        /\ r \notin {"lease", "completed", "rejected"}
    BY <1>1, <1>3 DEF LeaseStatus, LeaseReply, StatusReply, HandlerInv, FenceInv,
                      FenceTypeOK, Lease, LeaseState
  <2>3. r = "running" => attempt'[p].state # "none"
    BY <1>1, <1>2, <2>2 DEF FenceInv, ClaimedOrNeverRun
  <2>4. QED
    BY <1>1, <2>1, <2>2, <2>3 DEF SaysTrue, Rest
<1>4. Harmless(i)
  <2>1. "error" \in Failure \ Lost /\ "find" \in After /\ "statusRaced" \in Site \ {"timeout"}
    BY DEF Failure, Lost, After, Label, Before, Site, StatusSite
  <2>2. QED
    BY <1>1, <1>2, <1>3, <2>1, FailHarmless, EnterHarmless, SignHarmless
       DEF ReadLeaseStatus, Rest
<1>5. QED
  BY <1>1, <1>2, <1>4, QuietKeeps

LEMMA StatusKeeps ==
    ASSUME HandlerInv, NEW i \in Invocation, Status(i)
    PROVE  HandlerInv'
<1>1. /\ NoRows /\ Rest /\ job[i] \in Permit /\ DecidedOnce
      /\ "find" \in After /\ "status" \in Site \ {"timeout"}
  BY NoRowsDecided DEF Status, HandlerInv, HandlerTypeOK, After, Label, Before, Site, StatusSite
<1>2. Harmless(i)
  BY <1>1, EnterHarmless DEF Status
<1>3. QED
  BY <1>1, <1>2, NoRowsQuiet, QuietKeeps

LEMMA CrashKeeps ==
    ASSUME HandlerInv, NEW i \in Invocation, Crash(i)
    PROVE  HandlerInv'
<1>1. NoRows /\ Rest /\ job[i] \in Permit /\ DecidedOnce /\ "crashed" \in Failure \ Lost
  BY NoRowsDecided DEF Crash, HandlerInv, HandlerTypeOK, Failure, Lost
<1>2. Harmless(i)
  BY <1>1, FailHarmless DEF Crash
<1>3. QED
  BY <1>1, <1>2, NoRowsQuiet, QuietKeeps

-----------------------------------------------------------------------------
(* Claiming, calling, and recording what was returned *)

\* A claim is won on a lease nobody has claimed: there is no attempt yet, hence
\* no claimant and no call.
LEMMA ClaimWonKeeps ==
    ASSUME HandlerInv, NEW i \in Invocation, NEW e \in Expiry,
           pc[i] = "idle", ClaimAttempt(job[i], e, "claimed"),
           claim' = [claim EXCEPT ![i] = "claimed"], Goto(i, "call"),
           UNCHANGED <<now, job, result, calls>>
    PROVE  HandlerInv'
<1> DEFINE p == job[i]
<1>1. p \in Permit /\ e \in Nat /\ InvocationInv(i) /\ PermitInv(p)
  BY FenceAssumption DEF HandlerInv, HandlerTypeOK
<1>2. RowStep(p) /\ now' \in Nat
  BY <1>1, ClaimRow DEF HandlerInv, FenceInv, FenceTypeOK
<1>3. /\ attempt[p].state = "none" /\ attempt[p].checkpoint = "none"
      /\ attempt'[p].state = "RUNNING" /\ attempt'[p].checkpoint = "none"
  BY <1>1 DEF ClaimAttempt, Claimable, HandlerInv, FenceInv, FenceTypeOK, ClaimedOrNeverRun
<1>4. FenceInv'
  BY <1>1, <1>2, RowsAfter
<1>5. HandlerTypeOK'
  BY <1>4 DEF Goto, HandlerInv, HandlerTypeOK, FenceInv, Label
<1>6. \A j \in Invocation : job[j] = p => claim[j] # "claimed"
  BY <1>3 DEF HandlerInv, InvocationInv
<1>7. calls[p] = 0
  BY <1>1, <1>3 DEF PermitInv
<1>8. InvocationInv(i)'
  <2>1. pc'[i] = "call" /\ claim'[i] = "claimed" /\ frame'[i] = frame[i]
        /\ answer'[i] = answer[i] /\ job'[i] = p /\ calls'[p] = 0
    BY <1>7 DEF Goto, HandlerInv, HandlerTypeOK
  <2>2. answer[i] \notin Lost
    BY <1>1, <1>3 DEF InvocationInv
  <2>3. QED
    BY <1>1, <1>3, <2>1, <2>2 DEF InvocationInv, Before
<1>9. ASSUME NEW j \in Invocation, j # i PROVE InvocationInv(j)'
  <2>1. UNCHANGED <<pc[j], claim[j], frame[j], result[j], answer[j]>>
    BY <1>9 DEF Goto, HandlerInv, HandlerTypeOK
  <2>2. pc[j] \in Before /\ job[j] = p => attempt'[p].state \in {"RUNNING", "TIMED_OUT"}
    BY <1>3
  <2>3. QED
    BY <1>1, <1>2, <2>1, <2>2, OtherInvocation
<1>10. \A q \in Permit : PermitInv(q)'
  <2>1. ASSUME NEW j \in Invocation, claim[j] = "claimed"
        PROVE  UNCHANGED <<claim[j], result[j]>>
    BY <1>6, <2>1 DEF HandlerInv, HandlerTypeOK
  <2>2. \A r \in Result : attempt'[p].checkpoint # r
    BY <1>3, FenceAssumption DEF Result
  <2>3. QED
    BY <1>1, <1>2, <1>3, <2>1, <2>2, PermitsKept
<1>11. OneClaimant'
  BY <1>6 DEF HandlerInv, OneClaimant, HandlerTypeOK
<1>12. SignedTrue'
  BY <1>1, <1>2, SignedKept DEF Goto
<1>13. QED
  BY <1>4, <1>5, <1>8, <1>9, <1>10, <1>11, <1>12 DEF HandlerInv

\* An invocation that did not win goes on to recover, or ends.
LEMMA ExecuteKeeps ==
    ASSUME HandlerInv, NEW i \in Invocation, Execute(i)
    PROVE  HandlerInv'
<1> DEFINE p == job[i]
<1>1. PICK e \in Expiry :
        \/ /\ ClaimAttempt(p, e, "claimed")
           /\ claim' = [claim EXCEPT ![i] = "claimed"]
           /\ Goto(i, "call")
        \/ /\ ClaimAttempt(p, e, "existing")
           /\ claim' = [claim EXCEPT ![i] = "existing"]
           /\ Recover(i, "existing")
        \/ /\ ClaimAttempt(p, e, "EXECUTION_NOT_CLAIMABLE")
           /\ Fail(i, "EXECUTION_NOT_CLAIMABLE")
           /\ UNCHANGED claim
        \/ /\ Unanswered(\E r \in ClaimReply : ClaimAttempt(p, e, r))
           /\ Fail(i, "error")
           /\ UNCHANGED claim
  BY DEF Execute
<1>2. /\ p \in Permit /\ e \in Nat /\ pc[i] = "idle" /\ claim[i] = "none" /\ PermitInv(p)
      /\ UNCHANGED <<now, job, result, calls>> /\ now' \in Nat
  BY FenceAssumption DEF Execute, HandlerInv, HandlerTypeOK, FenceTypeOK, InvocationInv
<1>3. CASE /\ ClaimAttempt(p, e, "claimed")
           /\ claim' = [claim EXCEPT ![i] = "claimed"]
           /\ Goto(i, "call")
  BY <1>2, <1>3, ClaimWonKeeps
<1>4. CASE \/ /\ ClaimAttempt(p, e, "existing")
              /\ claim' = [claim EXCEPT ![i] = "existing"]
              /\ Recover(i, "existing")
           \/ /\ ClaimAttempt(p, e, "EXECUTION_NOT_CLAIMABLE")
              /\ Fail(i, "EXECUTION_NOT_CLAIMABLE")
              /\ UNCHANGED claim
           \/ /\ Unanswered(\E r \in ClaimReply : ClaimAttempt(p, e, r))
              /\ Fail(i, "error")
              /\ UNCHANGED claim
  <2>1. NoRows \/ \E r : ClaimAttempt(p, e, r)
    BY <1>4 DEF Unanswered
  <2>2. RowStep(p)
    BY <1>2, <2>1, ClaimRow, SameRows DEF HandlerInv, FenceInv
  <2>3. /\ attempt'[p].checkpoint = attempt[p].checkpoint
        /\ attempt'[p].state \in {attempt[p].state, "RUNNING"}
    BY <1>2, <2>1 DEF NoRows, ClaimAttempt, Claimable, HandlerInv, FenceInv, FenceTypeOK,
                      ClaimedOrNeverRun
  <2>4. DecidedOnce
    BY <1>2, <2>2, RowsAfter
  <2>5. SameClaims(i)
    BY <1>2, <1>4, ClaimsUnchanged DEF SameClaims, HandlerInv, HandlerTypeOK
  <2>6. Harmless(i)
    <3>1. /\ {"EXECUTION_NOT_CLAIMABLE", "error"} \subseteq Failure \ Lost
          /\ "existing" \in Site \ {"timeout"}
      BY DEF Failure, Lost, Site, ExecuteSite
    <3>2. QED
      BY <1>4, <2>4, <3>1, FailHarmless, RecoverHarmless
  <2>7. ASSUME NEW j \in Invocation, pc[j] \in Before, job[j] = p
        PROVE  attempt'[p].state \in {"RUNNING", "TIMED_OUT"}
    BY <2>3, <2>7 DEF HandlerInv, InvocationInv
  <2>8. QED
    BY <1>2, <2>2, <2>3, <2>5, <2>6, <2>7, HarmlessKeeps DEF PermitInv
<1>5. QED
  BY <1>1, <1>3, <1>4

\* The claimant makes the one call of its permit.
LEMMA CallKeeps ==
    ASSUME HandlerInv, NEW i \in Invocation, Call(i)
    PROVE  HandlerInv'
<1> DEFINE p == job[i]
<1>1. /\ p \in Permit /\ InvocationInv(i) /\ PermitInv(p) /\ pc[i] = "call"
      /\ claim[i] = "claimed" /\ calls[p] = 0
      /\ attempt[p].state \in {"RUNNING", "TIMED_OUT"}
  BY DEF Call, HandlerInv, HandlerTypeOK, InvocationInv, Before
<1>2. /\ UNCHANGED <<lease, attempt, generation, now, job, claim, result>>
      /\ UNCHANGED <<frame, answer, receipts>>
      /\ pc' = [pc EXCEPT ![i] = "calling"]
      /\ calls' = [calls EXCEPT ![p] = 1]
  BY <1>1 DEF Call, Goto, HandlerInv, HandlerTypeOK
<1>3. FenceInv'
  BY <1>2 DEF HandlerInv, FenceInv, FenceTypeOK, TerminalEvidence, ClaimedOrNeverRun
<1>4. HandlerTypeOK'
  BY <1>1, <1>2, <1>3 DEF HandlerInv, HandlerTypeOK, FenceInv, Label
<1>5. ASSUME NEW j \in Invocation PROVE InvocationInv(j)'
  <2>1. CASE j = i
    BY <1>1, <1>2, <2>1 DEF InvocationInv, HandlerInv, HandlerTypeOK, Before
  <2>2. CASE j # i
    <3>1. pc[j] \in Before \cup {"checkpoint"} => job[j] # p
      BY <1>1, <2>2 DEF HandlerInv, OneClaimant, InvocationInv
    <3>2. pc[j] \in Before \cup {"checkpoint"} => UNCHANGED calls[job[j]]
      BY <1>2, <3>1 DEF HandlerInv, HandlerTypeOK
    <3>3. InvocationInv(j)
      BY DEF HandlerInv
    <3>4. UNCHANGED <<pc[j], claim[j], frame[j], result[j], answer[j], job[j], attempt>>
      BY <1>2, <2>2 DEF HandlerInv, HandlerTypeOK
    <3>5. QED
      BY <3>2, <3>3, <3>4 DEF InvocationInv, Before
  <2>3. QED
    BY <2>1, <2>2
<1>6. ASSUME NEW q \in Permit PROVE PermitInv(q)'
  <2>1. calls'[q] = IF q = p THEN 1 ELSE calls[q]
    BY <1>2, <1>6 DEF HandlerInv, HandlerTypeOK
  <2>2. PermitInv(q) /\ \A r : Returned(q, r) <=> Returned(q, r)'
    BY <1>2 DEF HandlerInv, Returned
  <2>3. QED
    BY <1>1, <1>2, <2>1, <2>2 DEF PermitInv
<1>7. OneClaimant' /\ SignedTrue'
  BY <1>2 DEF HandlerInv, OneClaimant, SignedTrue, SaysTrue
<1>8. QED
  BY <1>3, <1>4, <1>5, <1>6, <1>7 DEF HandlerInv

\* Its result is kept with the invocation; nothing is recorded yet.
LEMMA ReturnKeeps ==
    ASSUME HandlerInv, NEW i \in Invocation, Return(i)
    PROVE  HandlerInv'
<1> DEFINE p == job[i]
<1>1. /\ p \in Permit /\ InvocationInv(i) /\ pc[i] = "calling"
      /\ claim[i] = "claimed" /\ calls[p] = 1
      /\ attempt[p].state \in {"RUNNING", "TIMED_OUT"}
  BY DEF Return, HandlerInv, HandlerTypeOK, InvocationInv, Before
<1>2. PICK r \in Result \cup {"timeout", "failed"} :
          /\ result' = [result EXCEPT ![i] = r]
          /\ CASE r = "timeout" -> Goto(i, "markTimeout")
               [] r = "failed" -> Goto(i, "reject")
               [] OTHER -> Enter(i, "checkpoint", "none")
  BY DEF Return
<1>3. PICK l \in {"markTimeout", "reject", "checkpoint"}, f \in Frame :
          /\ pc' = [pc EXCEPT ![i] = l] /\ frame' = [frame EXCEPT ![i] = f]
          /\ f.site # "timeout"
          /\ l = "checkpoint" => r \in Result
  <2>1. [site |-> "none", tries |-> 0] \in Frame
    BY HandlerAssumption DEF Frame, Site, Tries
  <2>2. CASE r = "timeout"
    BY <1>2, <2>2, LocalRows DEF Goto
  <2>3. CASE r = "failed"
    BY <1>2, <2>3, LocalRows DEF Goto
  <2>4. CASE r \notin {"timeout", "failed"}
    BY <1>2, <2>1, <2>4 DEF Enter
  <2>5. QED
    BY <2>2, <2>3, <2>4
<1>4. /\ UNCHANGED <<lease, attempt, generation, now, job, claim, calls>>
      /\ UNCHANGED <<answer, receipts>>
  BY <1>2 DEF Return, Goto, Enter
<1>5. FenceInv'
  BY <1>4 DEF HandlerInv, FenceInv, FenceTypeOK, TerminalEvidence, ClaimedOrNeverRun
<1>6. HandlerTypeOK'
  BY <1>2, <1>3, <1>4, <1>5 DEF HandlerInv, HandlerTypeOK, FenceInv, Label, Frame
<1>7. ASSUME NEW j \in Invocation PROVE InvocationInv(j)'
  <2>1. CASE j = i
    <3>1. pc'[i] = l /\ frame'[i] = f /\ result'[i] = r
      BY <1>2, <1>3 DEF HandlerInv, HandlerTypeOK
    <3>2. QED
      BY <1>1, <1>3, <1>4, <2>1, <3>1 DEF InvocationInv, Before
  <2>2. CASE j # i
    <3>1. UNCHANGED <<pc[j], claim[j], frame[j], result[j], answer[j]>>
      BY <1>2, <1>3, <1>4, <2>2 DEF HandlerInv, HandlerTypeOK
    <3>2. InvocationInv(j)
      BY DEF HandlerInv
    <3>3. QED
      BY <1>4, <3>1, <3>2 DEF InvocationInv
  <2>3. QED
    BY <2>1, <2>2
<1>8. \A q \in Permit : PermitInv(q)'
  <2>1. ASSUME NEW j \in Invocation, pc[j] # "calling"
        PROVE  UNCHANGED <<claim[j], result[j]>>
    BY <1>1, <1>2, <1>4, <2>1 DEF HandlerInv, HandlerTypeOK
  <2>2. RowStep(p) /\ now' \in Nat /\ PermitInv(p)
    BY <1>1, <1>4, SameRows DEF NoRows, HandlerInv, HandlerTypeOK, FenceTypeOK
  <2>3. attempt[p].checkpoint = "none"
    BY <1>1 DEF HandlerInv, FenceInv, ClaimedOrNeverRun
  <2>4. QED
    BY <1>1, <1>4, <2>1, <2>2, <2>3, PermitsKept, FenceAssumption DEF Result
<1>9. OneClaimant' /\ SignedTrue'
  BY <1>4 DEF HandlerInv, OneClaimant, SignedTrue, SaysTrue
<1>10. QED
  BY <1>5, <1>6, <1>7, <1>8, <1>9 DEF HandlerInv

\* The claimant records what its call returned, or tries again.
LEMMA CheckpointKeeps ==
    ASSUME HandlerInv, NEW i \in Invocation, CheckpointResult(i)
    PROVE  HandlerInv'
<1> DEFINE p == job[i]
<1>1. /\ p \in Permit /\ Rest /\ InvocationInv(i) /\ PermitInv(p) /\ pc[i] = "checkpoint"
      /\ claim[i] = "claimed" /\ calls[p] = 1 /\ result[i] \in Result
      /\ frame[i] \in Frame /\ now' \in Nat
  BY LocalRows DEF CheckpointResult, Rest, HandlerInv, HandlerTypeOK, FenceTypeOK, InvocationInv,
                   Before
<1>2. NoRows \/ \E r : Checkpoint(p, result[i], r)
  BY DEF CheckpointResult, Unanswered
<1>3. RowStep(p)
  BY <1>1, <1>2, CheckpointRow, SameRows DEF HandlerInv, FenceInv
<1>4. attempt'[p].checkpoint \in {attempt[p].checkpoint, result[i]}
  BY <1>1, <1>2 DEF Checkpoint, NoRows, HandlerInv, FenceInv, FenceTypeOK, Attempt
<1>5. DecidedOnce /\ FenceInv'
  BY <1>1, <1>3, RowsAfter
<1>6. Returned(p, result[i])
  BY <1>1 DEF Returned
<1>7. \A j \in Invocation : pc[j] \in Before /\ job[j] = p => j = i
  BY <1>1 DEF HandlerInv, InvocationInv, OneClaimant
<1>8. CASE Harmless(i)
  BY <1>1, <1>3, <1>4, <1>6, <1>7, <1>8, ClaimsUnchanged, HarmlessKeeps DEF Rest
<1>9. CASE frame[i].tries + 1 < Tries /\ Retry(i, "checkpoint")
  <2> DEFINE f == [frame[i] EXCEPT !.tries = @ + 1]
  <2>1. /\ pc' = [pc EXCEPT ![i] = "checkpoint"] /\ frame' = [frame EXCEPT ![i] = f]
        /\ UNCHANGED <<answer, receipts>>
    BY <1>9 DEF Retry
  <2>2. f \in Frame /\ f.site = frame[i].site
    BY <1>1, <1>9, HandlerAssumption DEF Frame, Tries
  <2> HIDE DEF f
  <2>3. HandlerTypeOK'
    BY <1>1, <1>5, <2>1, <2>2 DEF Rest, HandlerInv, HandlerTypeOK, FenceInv, Label, Frame
  <2>4. InvocationInv(i)'
    <3>1. pc'[i] = "checkpoint" /\ frame'[i] = f /\ UNCHANGED <<claim, answer, result, job, calls>>
      BY <1>1, <2>1 DEF Rest, HandlerInv, HandlerTypeOK
    <3>2. attempt'[p].state # "none"
      BY <1>1, <1>3, RowsAfter DEF InvocationInv
    <3>3. answer[i] \in Lost => attempt'[p].state = "TIMED_OUT"
      BY <1>5, LostStays
    <3>4. QED
      BY <1>1, <2>2, <3>1, <3>2, <3>3 DEF InvocationInv, Before
  <2>5. ASSUME NEW j \in Invocation, j # i PROVE InvocationInv(j)'
    <3>1. UNCHANGED <<pc[j], claim[j], frame[j], result[j], answer[j]>>
      BY <1>1, <2>1, <2>5 DEF Rest, HandlerInv, HandlerTypeOK
    <3>2. QED
      BY <1>1, <1>3, <1>7, <2>5, <3>1, OtherInvocation DEF Rest
  <2>6. \A q \in Permit : PermitInv(q)'
    <3>1. \A r : Returned(p, r) => Returned(p, r)'
      BY <1>1 DEF Rest, Returned
    <3>2. \A r \in Result : attempt'[p].checkpoint = r =>
              attempt[p].checkpoint # "none" \/ Returned(p, r)'
      BY <1>4, <1>6, <3>1, FenceAssumption DEF Result
    <3>3. QED
      BY <1>1, <1>3, <3>2, PermitsKept DEF Rest
  <2>7. OneClaimant' /\ SignedTrue'
    BY <1>1, <1>3, <2>1, ClaimantsKept, SignedKept DEF Rest
  <2>8. QED
    BY <1>5, <2>3, <2>4, <2>5, <2>6, <2>7 DEF HandlerInv
<1>10. QED
  <2>1. /\ "completeRead" \in After
        /\ {"complete", "afterCheckpoint"} \subseteq Site \ {"timeout"}
    BY DEF After, Label, Before, Site, ExecuteSite
  <2>2. Harmless(i) \/ (frame[i].tries + 1 < Tries /\ Retry(i, "checkpoint"))
    BY <1>5, <2>1, EnterHarmless, RecoverHarmless DEF CheckpointResult
  <2>3. QED
    BY <1>8, <1>9, <2>2

-----------------------------------------------------------------------------
(* Preparing and cancelling, and the clock *)

\* An operation for a permit that no invocation runs.
LEMMA OutsideKeeps ==
    ASSUME HandlerInv, NEW p \in Permit, RowStep(p), QuietRow(p),
           UNCHANGED <<now, localVars, calls>>,
           \/ UNCHANGED receipts
           \/ \E s \in Says : receipts' = receipts \cup {<<p, s>>} /\ SaysTrue(p, s)'
    PROVE  HandlerInv'
<1>1. FenceInv' /\ now' \in Nat /\ PermitInv(p)
  BY RowsAfter DEF HandlerInv, HandlerTypeOK, FenceTypeOK
<1>2. HandlerTypeOK'
  BY <1>1 DEF HandlerInv, HandlerTypeOK, FenceInv, localVars
<1>3. ASSUME NEW j \in Invocation PROVE InvocationInv(j)'
  <2>1. pc[j] \in Before /\ job[j] = p => attempt'[p].state \in {"RUNNING", "TIMED_OUT"}
    BY DEF HandlerInv, InvocationInv, QuietRow
  <2>2. QED
    BY <1>1, <2>1, OtherInvocation DEF localVars
<1>4. \A q \in Permit : PermitInv(q)'
  <2>1. \A r : Returned(p, r) => Returned(p, r)'
    BY DEF Returned, localVars
  <2>2. \A r \in Result : attempt'[p].checkpoint = r => attempt[p].checkpoint # "none"
    BY FenceAssumption DEF QuietRow, Result
  <2>3. attempt'[p].state \in {"CHECKPOINTED", "SUCCEEDED", "FAILED"} => calls[p] = 1
    BY <1>1 DEF QuietRow, PermitInv
  <2>4. QED
    BY <1>1, <2>2, <2>3, PermitsKept DEF localVars
<1>5. OneClaimant' /\ SignedTrue'
  BY <1>1, ClaimantsKept, SignedKept DEF localVars
<1>6. QED
  BY <1>1, <1>2, <1>3, <1>4, <1>5 DEF HandlerInv

LEMMA PrepareKeeps ==
    ASSUME HandlerInv, NEW p \in Permit, Prepare(p)
    PROVE  HandlerInv'
<1>1. PICK e \in Expiry :
        \/ /\ \E r \in {"leased", "existing"} : PrepareLease(p, e, r)
           /\ receipts' = receipts \cup {<<p, "lease">>}
        \/ /\ \E r \in PrepareReply : PrepareLease(p, e, r)
           /\ UNCHANGED receipts
  BY DEF Prepare
<1>2. e \in Nat
  BY FenceAssumption
<1>3. RowStep(p) /\ QuietRow(p)
  BY <1>1, <1>2, PrepareQuiet
<1>4. (\E r \in {"leased", "existing"} : PrepareLease(p, e, r)) => SaysTrue(p, "lease")'
  BY DEF PrepareLease, HandlerInv, FenceInv, FenceTypeOK, SaysTrue
<1>5. QED
  BY <1>1, <1>3, <1>4, OutsideKeeps DEF Prepare, Says

LEMMA CancelKeeps ==
    ASSUME HandlerInv, NEW p \in Permit, CancelExpiredLease(p)
    PROVE  HandlerInv'
<1>1. RowStep(p) /\ QuietRow(p)
  BY CancelQuiet DEF CancelExpiredLease
<1>2. FenceInv'
  BY <1>1, RowsAfter DEF CancelExpiredLease, HandlerInv, HandlerTypeOK, FenceTypeOK
<1>3. ASSUME NEW r \in CancelReply \ {"LEASE_NOT_EXPIRED"}, CancelExpired(p, r)
      PROVE  r \in Says /\ SaysTrue(p, r)'
  <2>1. r \in Says /\ r \notin {"lease", "completed", "rejected"}
    BY <1>3 DEF CancelReply, StatusReply, Says
  <2>2. CASE lease' = [lease EXCEPT ![p].state = "CANCELLED"] /\ r = "cancelled"
    BY <2>1, <2>2 DEF SaysTrue, HandlerInv, FenceInv, FenceTypeOK, Lease
  <2>3. CASE /\ UNCHANGED lease
             /\ r = CASE attempt'[p].state = "TIMED_OUT" -> "indeterminate"
                      [] attempt'[p].state # "TIMED_OUT" /\ lease[p].state = "LEASED" ->
                             "LEASE_NOT_EXPIRED"
                      [] OTHER -> LeaseReply(lease[p].state)
    <3>1. attempt'[p].state = "TIMED_OUT" => lease[p].state = "RUNNING"
      BY <1>2, <2>3 DEF FenceInv, ClaimedOrNeverRun
    <3>2. CASE attempt'[p].state = "TIMED_OUT"
      BY <2>1, <2>3, <3>1, <3>2 DEF SaysTrue
    <3>3. CASE attempt'[p].state # "TIMED_OUT" /\ lease[p].state # "LEASED"
      <4>1. r = LeaseReply(lease[p].state)
        BY <2>3, <3>3
      <4>2. /\ r = "cancelled" => lease'[p].state = "CANCELLED"
            /\ r = "running" => lease'[p].state = "RUNNING"
            /\ r # "indeterminate"
        BY <2>3, <4>1 DEF LeaseReply, HandlerInv, FenceInv, FenceTypeOK, Lease, LeaseState
      <4>3. r = "running" => attempt'[p].state # "none"
        BY <1>2, <4>2 DEF FenceInv, ClaimedOrNeverRun
      <4>4. QED
        BY <2>1, <4>2, <4>3 DEF SaysTrue
    <3>4. CASE attempt'[p].state # "TIMED_OUT" /\ lease[p].state = "LEASED"
      BY <1>3, <2>3, <3>4
    <3>5. QED
      BY <3>2, <3>3, <3>4
  <2>4. QED
    BY <1>3, <2>2, <2>3 DEF CancelExpired
<1>4. QED
  BY <1>1, <1>3, OutsideKeeps DEF CancelExpiredLease

\* What the invariant says does not depend on the time.
LEMMA TimeKeeps ==
    ASSUME HandlerInv, UNCHANGED <<lease, attempt, generation, localVars, receipts, calls>>,
           now' \in Nat
    PROVE  HandlerInv'
<1>1. FenceInv'
  BY DEF HandlerInv, FenceInv, FenceTypeOK, TerminalEvidence, ClaimedOrNeverRun
<1>2. HandlerTypeOK'
  BY <1>1 DEF HandlerInv, HandlerTypeOK, FenceInv, localVars
<1>3. \A j \in Invocation : InvocationInv(j)'
  BY DEF HandlerInv, InvocationInv, localVars
<1>4. \A q \in Permit : PermitInv(q)'
  BY DEF HandlerInv, PermitInv, Returned, localVars
<1>5. OneClaimant' /\ SignedTrue'
  BY DEF HandlerInv, OneClaimant, SignedTrue, SaysTrue, localVars
<1>6. QED
  BY <1>1, <1>2, <1>3, <1>4, <1>5 DEF HandlerInv

LEMMA HandlerStepInv == HandlerInv /\ [HandlerNext]_vars => HandlerInv'
<1> SUFFICES ASSUME HandlerInv, [HandlerNext]_vars PROVE HandlerInv'
  OBVIOUS
<1>1. ASSUME NEW i \in Invocation, Step(i) PROVE HandlerInv'
  BY <1>1, FindKeeps, ReadsKeep, StateKeeps, CompleteLockKeeps, CallKeeps, ReturnKeeps,
     MarkTimeoutKeeps, RejectKeeps, CheckpointKeeps, MarkUnavailableKeeps, LeaseStatusKeeps
     DEF Step
<1>2. ASSUME NEW i \in Invocation, Execute(i) \/ Status(i) \/ Crash(i) PROVE HandlerInv'
  BY <1>2, ExecuteKeeps, StatusKeeps, CrashKeeps
<1>3. ASSUME NEW p \in Permit, Prepare(p) \/ CancelExpiredLease(p) PROVE HandlerInv'
  BY <1>3, PrepareKeeps, CancelKeeps
<1>4. CASE HandlerTick
  BY <1>4, TimeKeeps DEF HandlerTick, FenceTick, Tick, HandlerInv, HandlerTypeOK, FenceTypeOK
<1>5. CASE UNCHANGED vars
  BY <1>5, TimeKeeps DEF vars, fenceVars, HandlerInv, HandlerTypeOK, FenceTypeOK
<1>6. QED
  BY <1>1, <1>2, <1>3, <1>4, <1>5 DEF HandlerNext

\* Whatever invocations race, lose their answers or die, the rows, the receipts
\* and the invocations stay as HandlerInv says.
THEOREM HandlerSafety == HandlerSpec => []HandlerInv
<1>1. HandlerInit => HandlerInv
  BY HandlerInitInv
<1>2. HandlerInv /\ [HandlerNext]_vars => HandlerInv'
  BY HandlerStepInv
<1>3. QED
  BY <1>1, <1>2, PTL DEF HandlerSpec

\* Variables of the Generation function keep their types.
THEOREM HandlerTyped == HandlerSpec => []HandlerTypeOK
<1>1. HandlerInv => HandlerTypeOK
  BY DEF HandlerInv
<1>2. QED
  BY <1>1, HandlerSafety, PTL

\* A permit pays for one provider call at most, under a durable attempt.
THEOREM OneCallTheorem == HandlerSpec => []OneCallPerPermit
<1>1. HandlerInv => OneCallPerPermit
  BY DEF HandlerInv, PermitInv, OneCallPerPermit
<1>2. QED
  BY <1>1, HandlerSafety, PTL

\* A receipt is true for as long as it can be replayed, and what was reported
\* lost stays lost.
THEOREM ReceiptsTheorem == HandlerSpec => []ReceiptsAreTrue
<1>1. HandlerInv => ReceiptsAreTrue
  <2> SUFFICES ASSUME HandlerInv PROVE ReceiptsAreTrue
    OBVIOUS
  <2>1. ASSUME NEW p \in Permit, NEW s \in Says, <<p, s>> \in receipts
        PROVE  SaysTrue(p, s)
    BY <2>1 DEF HandlerInv, SignedTrue
  <2>2. \A i \in Invocation :
            answer[i] \in {"PROVIDER_RESULT_INDETERMINATE", "indeterminate"} =>
                attempt[job[i]].state = "TIMED_OUT"
    BY DEF HandlerInv, InvocationInv, Lost
  <2>3. QED
    BY <2>1, <2>2 DEF ReceiptsAreTrue, SaysTrue, Says
<1>2. QED
  BY <1>1, HandlerSafety, PTL

\* What is published is what the one call of its permit returned.
THEOREM ReturnedTheorem == HandlerSpec => []PublishedDraftWasReturned
<1>1. HandlerInv => PublishedDraftWasReturned
  BY DEF HandlerInv, FenceInv, TerminalEvidence, PermitInv, Returned, PublishedDraftWasReturned
<1>2. QED
  BY <1>1, HandlerSafety, PTL

-----------------------------------------------------------------------------
(* Refinement of the contract *)

OutcomeOfRows(l, a, g) ==
    CASE a.state = "TIMED_OUT" -> "lost"
      [] a.state = "SUCCEEDED" -> g.draft
      [] a.state = "FAILED" -> "rejected"
      [] a.state \in {"RUNNING", "CHECKPOINTED"} -> "claimed"
      [] a.state = "none" /\ l.state = "CANCELLED" -> "cancelled"
      [] OTHER -> "open"

\* Apart from the provider call, an action is one operation on one permit's rows.
LEMMA RowsOrCall ==
    ASSUME HandlerInv, HandlerNext
    PROVE  \/ \E p \in Permit : RowStep(p) /\ UNCHANGED calls
           \/ \E i \in Invocation : Call(i)
           \/ UNCHANGED <<lease, attempt, generation, calls>>
<1>1. ASSUME NEW i \in Invocation PROVE job[i] \in Permit
  BY DEF HandlerInv, HandlerTypeOK
<1>2. FenceTypeOK
  BY DEF HandlerInv, HandlerTypeOK
<1>3. ASSUME NEW i \in Invocation,
             Find(i) \/ Read(i) \/ Reread(i) \/ CompleteRead(i) \/ Status(i) \/ Crash(i)
      PROVE  UNCHANGED <<lease, attempt, generation, calls>>
  BY <1>3 DEF Find, Read, Reread, CompleteRead, Status, Crash, NoRows, Rest
<1>4. ASSUME NEW i \in Invocation, State(i)
      PROVE  RowStep(job[i]) /\ UNCHANGED calls
  BY <1>1, <1>4, RecoveryRow, NoRowsQuiet DEF State, Unanswered, Rest
<1>5. ASSUME NEW i \in Invocation, CompleteLock(i)
      PROVE  RowStep(job[i]) /\ UNCHANGED calls
  BY <1>1, <1>2, <1>5, FinalizeRow, NoRowsQuiet DEF CompleteLock, Unanswered, Rest
<1>6. ASSUME NEW i \in Invocation, MarkTimeout(i) \/ MarkUnavailable(i)
      PROVE  RowStep(job[i]) /\ UNCHANGED calls
  BY <1>1, <1>2, <1>6, MarkRow, NoRowsQuiet
     DEF MarkTimeout, MarkUnavailable, Unanswered, Rest
<1>7. ASSUME NEW i \in Invocation, RejectAttempt(i)
      PROVE  RowStep(job[i]) /\ UNCHANGED calls
  BY <1>1, <1>2, <1>7, RejectRow, NoRowsQuiet DEF RejectAttempt, Unanswered, Rest
<1>8. ASSUME NEW i \in Invocation, CheckpointResult(i)
      PROVE  RowStep(job[i]) /\ UNCHANGED calls
  <2>1. result[i] \in Result
    BY <1>8 DEF CheckpointResult, HandlerInv, InvocationInv
  <2>2. QED
    BY <1>1, <1>2, <1>8, <2>1, CheckpointRow, NoRowsQuiet
       DEF CheckpointResult, Unanswered, Rest
<1>9. ASSUME NEW i \in Invocation, ReadLeaseStatus(i)
      PROVE  RowStep(job[i]) /\ UNCHANGED calls
  BY <1>1, <1>9, StatusRow, NoRowsQuiet DEF ReadLeaseStatus, Unanswered, Rest
<1>10. ASSUME NEW i \in Invocation, Execute(i)
       PROVE  RowStep(job[i]) /\ UNCHANGED calls
  <2>1. Expiry \subseteq Nat
    BY FenceAssumption
  <2>2. QED
    BY <1>1, <1>2, <1>10, <2>1, ClaimRow, NoRowsQuiet DEF Execute, Unanswered
<1>11. ASSUME NEW i \in Invocation, Return(i)
       PROVE  UNCHANGED <<lease, attempt, generation>>
  BY <1>11 DEF Return
<1>12. ASSUME NEW i \in Invocation, Return(i) PROVE UNCHANGED calls
  BY <1>12 DEF Return
<1>13. ASSUME NEW p \in Permit, Prepare(p)
       PROVE  RowStep(p) /\ UNCHANGED calls
  BY <1>2, <1>13, FenceAssumption, PrepareRow DEF Prepare
<1>14. ASSUME NEW p \in Permit, CancelExpiredLease(p)
       PROVE  RowStep(p) /\ UNCHANGED calls
  BY <1>2, <1>14, CancelRow DEF CancelExpiredLease
<1>15. HandlerTick => UNCHANGED <<lease, attempt, generation, calls>>
  BY DEF HandlerTick, FenceTick
<1>16. QED
  BY <1>1, <1>3, <1>4, <1>5, <1>6, <1>7, <1>8, <1>9, <1>10, <1>11, <1>12, <1>13, <1>14, <1>15
     DEF HandlerNext, Step

\* An operation on the rows of a permit changes its outcome only.
LEMMA OutcomeStep ==
    ASSUME HandlerInv, NEW p \in Permit, NEW l, NEW a, NEW g,
           lease' = [lease EXCEPT ![p] = l],
           attempt' = [attempt EXCEPT ![p] = a],
           generation' = [generation EXCEPT ![p] = g]
    PROVE  /\ lease'[p] = l /\ attempt'[p] = a /\ generation'[p] = g
           /\ [q \in Permit |-> OutcomeOf(q)]' =
                  [[q \in Permit |-> OutcomeOf(q)] EXCEPT ![p] = OutcomeOfRows(l, a, g)]
<1>1. lease'[p] = l /\ attempt'[p] = a /\ generation'[p] = g
  BY DEF HandlerInv, HandlerTypeOK, FenceTypeOK
<1>2. OutcomeOf(p)' = OutcomeOfRows(l, a, g)
  BY <1>1 DEF OutcomeOf, OutcomeOfRows
<1>3. ASSUME NEW q \in Permit, q # p PROVE OutcomeOf(q)' = OutcomeOf(q)
  <2>1. lease'[q] = lease[q] /\ attempt'[q] = attempt[q] /\ generation'[q] = generation[q]
    BY <1>3 DEF HandlerInv, HandlerTypeOK, FenceTypeOK
  <2>2. QED
    BY <2>1 DEF OutcomeOf
<1>4. QED
  BY <1>1, <1>2, <1>3

LEMMA ClaimedOutcome ==
    ASSUME NEW p \in Permit, lease[p].state = "RUNNING",
           attempt[p].state \in {"RUNNING", "TIMED_OUT"}
    PROVE  OutcomeOf(p) \in {"claimed", "lost"}
<1>1. attempt[p].state = "RUNNING" => OutcomeOf(p) = "claimed"
  BY DEF OutcomeOf
<1>2. attempt[p].state = "TIMED_OUT" => OutcomeOf(p) = "lost"
  BY DEF OutcomeOf
<1>3. QED
  BY <1>1, <1>2

LEMMA CallsRefine ==
    ASSUME HandlerInv, NEW i \in Invocation, Call(i)
    PROVE  \E p \in Permit : Contract!Call(p)
<1> DEFINE p == job[i]
<1>1. p \in Permit /\ calls \in [Permit -> Nat] /\ calls[p] = 0
  BY DEF Call, HandlerInv, HandlerTypeOK, InvocationInv
<1>2. OutcomeOf(p) \in {"claimed", "lost"}
  <2>1. attempt[p].state \in {"RUNNING", "TIMED_OUT"} /\ lease[p].state = "RUNNING"
    BY <1>1 DEF Call, HandlerInv, InvocationInv, Before, FenceInv, ClaimedOrNeverRun
  <2>2. QED
    BY <1>1, <2>1, ClaimedOutcome
<1>3. UNCHANGED [q \in Permit |-> OutcomeOf(q)]
  BY DEF Call, OutcomeOf
<1>4. {q \in Permit : calls[q] > 0}' = {q \in Permit : calls[q] > 0} \cup {p}
  BY <1>1 DEF Call
<1>5. QED
  BY <1>1, <1>2, <1>3, <1>4 DEF Contract!Call

\* An operation decides the permit as the contract allows, or not at all.
LEMMA RowsRefine ==
    ASSUME HandlerInv, HandlerInv', NEW p \in Permit, RowStep(p), UNCHANGED calls
    PROVE  [Contract!Next]_<<[q \in Permit |-> OutcomeOf(q)], {q \in Permit : calls[q] > 0}>>
<1> DEFINE out == [q \in Permit |-> OutcomeOf(q)]
           made == {q \in Permit : calls[q] > 0}
<1>1. PICK l \in Lease, a \in Attempt, g \in Generation :
        /\ lease' = [lease EXCEPT ![p] = l]
        /\ attempt' = [attempt EXCEPT ![p] = a]
        /\ generation' = [generation EXCEPT ![p] = g]
        /\ RowChange(p, l, a, g)
  BY DEF RowStep
<1> DEFINE new == OutcomeOfRows(l, a, g)
<1>2. /\ lease'[p] = l /\ attempt'[p] = a /\ generation'[p] = g
      /\ out' = [out EXCEPT ![p] = new]
  BY <1>1, OutcomeStep
<1>3. out[p] = OutcomeOf(p) /\ made' = made
  OBVIOUS
<1>4. \A q \in Permit : (lease[q].state \in {"none", "LEASED", "CANCELLED"} <=>
          attempt[q].state = "none")
  BY DEF HandlerInv, FenceInv, FenceTypeOK, ClaimedOrNeverRun, Lease, LeaseState
<1>5. ASSUME new = OutcomeOf(p) PROVE UNCHANGED <<out, made>>
  BY <1>2, <1>3, <1>5
<1>6. CASE Unchanged(p, l, a, g) \/ Prepared(p, l, a, g) \/ Checkpointed(p, l, a, g)
  <2>1. new = OutcomeOf(p)
    BY <1>4, <1>6 DEF Unchanged, Prepared, Checkpointed, OutcomeOf, OutcomeOfRows
  <2>2. QED
    BY <1>5, <2>1
<1>7. CASE Claimed(p, l, a, g)
  <2>1. OutcomeOf(p) = "open" /\ new = "claimed"
    BY <1>4, <1>7 DEF Claimed, OutcomeOf, OutcomeOfRows
  <2>2. Contract!Claim(p)
    BY <1>2, <1>3, <2>1 DEF Contract!Claim, Contract!Become
  <2>3. QED
    BY <2>2 DEF Contract!Next
<1>8. CASE TimedOut(p, l, a, g)
  <2>1. OutcomeOf(p) = "claimed" /\ new = "lost"
    BY <1>8 DEF TimedOut, OutcomeOf, OutcomeOfRows
  <2>2. Contract!Lose(p)
    BY <1>2, <1>3, <2>1 DEF Contract!Lose, Contract!Become
  <2>3. QED
    BY <2>2 DEF Contract!Next
<1>9. CASE Cancelled(p, l, a, g)
  <2>1. OutcomeOf(p) = "open" /\ new = "cancelled"
    BY <1>4, <1>9 DEF Cancelled, OutcomeOf, OutcomeOfRows
  <2>2. Contract!Cancel(p)
    BY <1>2, <1>3, <2>1 DEF Contract!Cancel, Contract!Become
  <2>3. QED
    BY <2>2 DEF Contract!Next
<1>10. CASE Finished(p, l, a, g)
  <2>1. OutcomeOf(p) = "claimed" /\ new \in Draft \cup {"rejected"}
    <3>1. OutcomeOf(p) = "claimed"
      BY <1>10 DEF Finished, OutcomeOf
    <3>2. attempt[p].state = "CHECKPOINTED" => attempt[p].checkpoint \in Result
      BY DEF HandlerInv, FenceInv, FenceTypeOK, ClaimedOrNeverRun, Attempt
    <3>3. new \in Result
      BY <1>10, <3>2 DEF Finished, OutcomeOfRows, Result
    <3>4. QED
      BY <3>1, <3>3 DEF Result
  <2>2. a.state \in {"SUCCEEDED", "FAILED"}
    BY <1>10 DEF Finished
  <2>3. PermitInv(p)'
    BY DEF HandlerInv
  <2>4. calls[p] = 1
    BY <1>2, <2>2, <2>3 DEF PermitInv
  <2>5. p \in made
    BY <2>4
  <2>6. Contract!Become(p, "claimed", new)
    BY <1>2, <1>3, <2>1 DEF Contract!Become
  <2>7. Contract!Publish(p)
    BY <2>1, <2>5, <2>6 DEF Contract!Publish
  <2>8. QED
    BY <2>7 DEF Contract!Next
<1>11. QED
  BY <1>1, <1>6, <1>7, <1>8, <1>9, <1>10 DEF RowChange

\* The Generation function implements its contract: a permit is decided once, a
\* call is made once and only under a claim, and nothing is published without it.
THEOREM ContractTheorem == HandlerSpec => KeepsContract
<1> DEFINE out == [p \in Permit |-> OutcomeOf(p)]
           made == {p \in Permit : calls[p] > 0}
<1>1. HandlerInit => Contract!Init
  BY DEF HandlerInit, FenceInit, NoAttempt, NoLease, OutcomeOf, Contract!Init
<1>2. HandlerInv /\ HandlerInv' /\ [HandlerNext]_vars => [Contract!Next]_<<out, made>>
  <2> SUFFICES ASSUME HandlerInv, HandlerInv', [HandlerNext]_vars
               PROVE  [Contract!Next]_<<out, made>>
    OBVIOUS
  <2>1. ASSUME NEW q \in Permit, RowStep(q), UNCHANGED calls
        PROVE  [Contract!Next]_<<out, made>>
    BY <2>1, RowsRefine
  <2>2. ASSUME NEW i \in Invocation, Call(i) PROVE Contract!Next
    BY <2>2, CallsRefine DEF Contract!Next
  <2>3. ASSUME UNCHANGED <<lease, attempt, generation, calls>>
        PROVE  UNCHANGED <<out, made>>
    BY <2>3 DEF OutcomeOf
  <2>4. UNCHANGED vars => UNCHANGED <<lease, attempt, generation, calls>>
    BY DEF vars, fenceVars
  <2>5. QED
    BY <2>1, <2>2, <2>3, <2>4, RowsOrCall
<1> HIDE DEF out, made
<1>3. HandlerSpec => Contract!Init /\ [][Contract!Next]_<<out, made>>
  BY <1>1, <1>2, HandlerSafety, PTL DEF HandlerSpec
<1>4. QED
  BY <1>3, PTL DEF KeepsContract, Contract!Spec, out, made
=============================================================================
