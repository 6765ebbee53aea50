------------------------------ MODULE Admission ------------------------------
(***************************************************************************)
(* Concurrent `prepare' transactions (packages/db/src/admission): replay,   *)
(* rate windows, budget, the platform's capacity, and the reservation.  The *)
(* isolation is READ COMMITTED: each statement reads what is committed, and *)
(* only two locks order the transactions, the session row from the first    *)
(* statement and the platform's advisory lock from the claim, both held to  *)
(* the commit.  A permit is named after the invocation that mints it.       *)
(***************************************************************************)
EXTENDS Reservations, FiniteSetsExt

CONSTANTS Session, Tenant, Key,  \* Key: idempotency keys
          TenantOf,       \* the tenant of each session
          Funded,         \* sessions whose snapshot routes to a paid provider
          Cap,            \* the monthly budget in the snapshot of each session
          Worst,          \* worst-case cost of one funded request
          SessionLimit, SessionWindow,  \* 3 batches in 30 min
          TenantLimit, TenantWindow,    \* 10 batches in 1 h
          MinuteLimit, MinuteWindow,    \* 5 admissions in 1 min
          DayLimit, DayWindow,          \* 30 funded admissions in 1 day
          TxnLag,         \* an interactive transaction is closed after 5 s
          LeaseExpiry     \* expiry times of lease receipts

ASSUME AdmissionAssumption ==
    /\ Session # {} /\ Key # {}
    /\ TenantOf \in [Session -> Tenant]
    /\ Funded \subseteq Session
    /\ Cap \in [Session -> Nat]
    /\ {Worst, TxnLag} \subseteq Nat
    /\ {SessionLimit, TenantLimit, MinuteLimit, DayLimit} \subseteq Nat
    /\ {SessionWindow, TenantWindow, MinuteWindow, DayWindow} \subseteq Nat
    /\ LeaseExpiry \subseteq Nat
    /\ "none" \notin Permit
    /\ "rejected" \notin Permit

VARIABLES txn,    \* the prepare transaction of each invocation
          batch,  \* generation_batches, the ledger row and the cost of each permit
          reply   \* the permit each invocation was given

admissionVars == <<now, reservationVars, txn, batch, reply>>

TxnStep == {"idle", "begun", "locked", "limited", "priced", "claiming",
            "claimed", "done"}
Txn == [at : TxnStep, session : Session, key : Key, start : Nat, sampled : Nat]
Batch == [session : Session, key : Key, created : Nat, admitted : Nat, cost : Nat]

AnySession == CHOOSE s \in Session : TRUE
AnyKey == CHOOSE k \in Key : TRUE
NoTxn == [at |-> "idle", session |-> AnySession, key |-> AnyKey,
          start |-> 0, sampled |-> 0]
NoBatch == [session |-> AnySession, key |-> AnyKey,
            created |-> 0, admitted |-> 0, cost |-> 0]

AdmissionTypeOK ==
    /\ ReservationTypeOK
    /\ txn \in [Permit -> Txn]
    /\ batch \in [Permit -> Batch]
    /\ reply \in [Permit -> Permit \cup {"none", "rejected"}]

AdmissionInit ==
    /\ ReservationInit
    /\ ClockInit
    /\ txn = [p \in Permit |-> NoTxn]
    /\ batch = [p \in Permit |-> NoBatch]
    /\ reply = [p \in Permit |-> "none"]

-----------------------------------------------------------------------------
(* What a statement reads *)

Reserved == {q \in Permit : reservation[q].status # "none"}

OfSession(s) == {q \in Reserved : batch[q].session = s}
OfTenant(t) == {q \in Reserved : TenantOf[batch[q].session] = t}

\* The batch an idempotency key already has.
Replay(s, k) == {q \in OfSession(s) : batch[q].key = k}

\* Fault: the limit itself is still admitted.
BelowOrAt(permits, limit) == Cardinality(permits) <= limit

Below(permits, limit) == Cardinality(permits) < limit

CreatedWithin(permits, window) ==
    {q \in permits : batch[q].created > now - window}

AdmittedWithin(permits, window, time) ==
    {q \in permits : batch[q].admitted > time - window}

\* worstCaseReservationMicros, or nothing for the fake provider.
ReservedMicros(s) == IF s \in Funded THEN Worst ELSE 0

\* settled_micros + live_micros of a tenant; the model stays in one month.
Spend(t) ==
    MapThenSumSet(LAMBDA q : IF Live(q) THEN ReservedMicros(batch[q].session)
                             ELSE batch[q].cost,
                  OfTenant(t))

-----------------------------------------------------------------------------
(* prepare *)

HoldsSession(q, s) ==
    txn[q].session = s /\ txn[q].at \notin {"idle", "begun", "done"}
HoldsPlatform(q) == txn[q].at = "claimed"

Goto(p, next) == txn' = [txn EXCEPT ![p].at = next]

\* The transaction ends, and its invocation with it.
Answer(p, r) == /\ txn' = [txn EXCEPT ![p].at = "done",
                                      ![p].start = 0, ![p].sampled = 0]
                /\ reply' = [reply EXCEPT ![p] = r]

NoWrites == UNCHANGED <<now, reservationVars, batch>>

Begin(p) ==
    /\ txn[p].at = "idle"
    /\ \E s \in Session, k \in Key :
          txn' = [txn EXCEPT ![p] = [at |-> "begun", session |-> s, key |-> k,
                                     start |-> now, sampled |-> 0]]
    /\ UNCHANGED reply /\ NoWrites

\* SELECT ... FOR UPDATE OF session, then the replay of an admitted key.
LockSession(p) ==
    /\ txn[p].at = "begun"
    /\ \A q \in Permit : ~HoldsSession(q, txn[p].session)
    /\ LET replay == Replay(txn[p].session, txn[p].key) IN
       \/ /\ replay = {}
          /\ Goto(p, "locked") /\ UNCHANGED reply
       \/ \E q \in replay, t \in AppClock :
             Answer(p, IF reservation[q].expires > t THEN q ELSE "rejected")
    /\ NoWrites

\* The windows and the live reservations of the session and its tenant.
ReadLimits(p) ==
    /\ txn[p].at = "locked"
    /\ LET session == OfSession(txn[p].session)
           tenant == OfTenant(TenantOf[txn[p].session])
       IN /\ \A q \in tenant : ~Live(q)
          /\ Below(CreatedWithin(tenant, TenantWindow), TenantLimit)
          /\ Below(CreatedWithin(session, SessionWindow), SessionLimit)
    /\ Goto(p, "limited")
    /\ UNCHANGED reply /\ NoWrites

\* Fault: the request's own worst case is left out of the sum.
ReadSpendSoFar(p) ==
    /\ txn[p].at = "limited"
    /\ Spend(TenantOf[txn[p].session]) <= Cap[txn[p].session]
    /\ Goto(p, "priced")
    /\ UNCHANGED reply /\ NoWrites

\* The budget of a funded request.
ReadSpend(p) ==
    /\ txn[p].at = "limited"
    /\ LET s == txn[p].session IN
       s \in Funded => /\ Cap[s] > 0
                       /\ Spend(TenantOf[s]) + ReservedMicros(s) <= Cap[s]
    /\ Goto(p, "priced")
    /\ UNCHANGED reply /\ NoWrites

\* claim_platform_generation_capacity samples the clock before it locks ...
SampleClaim(p) ==
    /\ txn[p].at = "priced"
    /\ txn' = [txn EXCEPT ![p].at = "claiming", ![p].sampled = now]
    /\ UNCHANGED reply /\ NoWrites

\* Fault: only the rows that are still active are counted.
CapacityOfActive(p) ==
    /\ PlaceFree
    /\ Below(AdmittedWithin(active, MinuteWindow, txn[p].sampled), MinuteLimit)

\* What the claim checks once it holds the lock.
Capacity(p) ==
    /\ PlaceFree
    /\ Below(AdmittedWithin(Reserved, MinuteWindow, txn[p].sampled), MinuteLimit)
    /\ txn[p].session \in Funded =>
          Below({q \in AdmittedWithin(Reserved, DayWindow, txn[p].sampled) :
                     batch[q].session \in Funded}, DayLimit)

\* ... and counts under the lock.
ClaimPlace(p) ==
    /\ txn[p].at = "claiming"
    /\ \A q \in Permit : ~HoldsPlatform(q)
    /\ Capacity(p)
    /\ Goto(p, "claimed")
    /\ UNCHANGED reply /\ NoWrites

\* The rows become visible together, if the key is still unique; the answer
\* may be lost.
Commit(p) ==
    /\ txn[p].at = "claimed"
    /\ Replay(txn[p].session, txn[p].key) = {}
    /\ Reserve(p)
    /\ batch' = [batch EXCEPT ![p] =
            [session |-> txn[p].session, key |-> txn[p].key,
             created |-> txn[p].start, admitted |-> txn[p].sampled, cost |-> 0]]
    /\ \E r \in {p, "none"} : Answer(p, r)
    /\ UNCHANGED now

\* A gate that is not passed, an error, the transaction timeout or the death
\* of the process rolls everything back.
Refuse(p) ==
    /\ txn[p].at \notin {"idle", "done"}
    /\ Answer(p, "rejected")
    /\ NoWrites

-----------------------------------------------------------------------------
(* What becomes of a reservation *)

Redeem(p) ==
    /\ \E e \in LeaseExpiry : Activate(p, e, "activated")
    /\ UNCHANGED <<now, txn, batch, reply>>

\* settle refuses a cost above the reserved worst case.
Charge(p) ==
    /\ reservation[p].status = "REDEEMED"
    /\ Settle(p, "settled")
    /\ \E c \in 0..ReservedMicros(batch[p].session) :
          batch' = [batch EXCEPT ![p].cost = c]
    /\ UNCHANGED <<now, txn, reply>>

Free(p) ==
    /\ \E o \in {"no-lease", "cancelled"} : Release(p, o, "released")
    /\ UNCHANGED <<now, txn, batch, reply>>

\* No transaction outlives its timeout.
AdmissionTick ==
    /\ \A p \in Permit :
          txn[p].at \in {"idle", "done"} \/ now < txn[p].start + TxnLag
    /\ Tick
    /\ UNCHANGED <<reservationVars, txn, batch, reply>>

AdmissionNext ==
    \/ \E p \in Permit :
          \/ Begin(p) \/ LockSession(p) \/ ReadLimits(p) \/ ReadSpend(p)
          \/ SampleClaim(p) \/ ClaimPlace(p) \/ Commit(p) \/ Refuse(p)
          \/ Redeem(p) \/ Charge(p) \/ Free(p)
    \/ AdmissionTick

AdmissionSpec == AdmissionInit /\ [][AdmissionNext]_admissionVars

-----------------------------------------------------------------------------
(* Properties *)

AtMost(limit, permits, time(_), width) ==
    \A t \in 0..MaxTime :
        Cardinality({q \in permits : time(q) \in t..(t + width - 1)}) <= limit

\* In any window, however its requests interleave, a session is admitted no
\* more batches than its limit.  The window is shorter by the life of a
\* transaction, since created_at is the time it began.  And the platform's ledger
\* never holds more admissions in a minute, or funded admissions in a day, than
\* its limits, although each claim samples the clock before it waits for the lock.
WindowsHold ==
    /\ \A s \in Session :
         AtMost(SessionLimit, OfSession(s), LAMBDA q : batch[q].created,
                SessionWindow - TxnLag)
    /\ AtMost(MinuteLimit, Reserved, LAMBDA q : batch[q].admitted, MinuteWindow)
    /\ AtMost(DayLimit, {q \in Reserved : batch[q].session \in Funded},
              LAMBDA q : batch[q].admitted, DayWindow)

\* docs/SYSTEM-ARCHITECTURE.md: "Funded mode atomically requires settled cost +
\* live reservations + worst-case new cost <= its explicit cap."  So what a
\* tenant spent and may still spend stays within the cap of its snapshots.
WithinBudget ==
    \A t \in Tenant :
        Spend(t) > 0 => \E s \in Session : TenantOf[s] = t /\ Spend(t) <= Cap[s]
==============================================================================
