--------------------------- MODULE AdmissionProofs ---------------------------
(***************************************************************************)
(* Who is admitted: the calls of a public source, the sessions an invitation *)
(* opens and the batches a session prepares, for any number of calls,        *)
(* requests, permits and releases and any limits and windows.                *)
(*                                                                           *)
(* The three arguments are one another's like: whoever holds a lock is alone *)
(* with what he counted under it, so that what he found room for is still    *)
(* there when he takes it; and the row he then leaves is never unmade.       *)
(***************************************************************************)
EXTENDS Admission, EntryAdmission, SourceRateLimit, PaidWorkProtocolProofs,
        FiniteSetTheorems

-----------------------------------------------------------------------------
(* Counting *)

LEMMA Fewer ==
    ASSUME NEW S, IsFiniteSet(S), NEW T, T \subseteq S
    PROVE  /\ IsFiniteSet(T) /\ Cardinality(T) \in Nat /\ Cardinality(S) \in Nat
           /\ Cardinality(T) <= Cardinality(S)
<1>1. T \in SUBSET S
  OBVIOUS
<1>2. IsFiniteSet(T) /\ Cardinality(T) <= Cardinality(S)
  BY <1>1, FS_Subset
<1>3. QED
  BY <1>2, FS_CardinalityType

\* One more than fewer than the limit is the limit at most.
LEMMA OneMore ==
    ASSUME NEW S, IsFiniteSet(S), NEW n \in Nat, Cardinality(S) < n,
           NEW T, NEW x, T \subseteq S \cup {x}
    PROVE  Cardinality(T) <= n
<1>1. /\ IsFiniteSet(S \cup {x})
      /\ Cardinality(S \cup {x}) = IF x \in S THEN Cardinality(S) ELSE Cardinality(S) + 1
  BY FS_AddElement
<1>2. Cardinality(S) \in Nat
  BY FS_CardinalityType
<1>3. /\ Cardinality(T) \in Nat /\ Cardinality(S \cup {x}) \in Nat
      /\ Cardinality(T) <= Cardinality(S \cup {x})
  BY <1>1, Fewer
<1>4. QED
  BY <1>1, <1>2, <1>3

-----------------------------------------------------------------------------
(* The windows of prepare: the inductive invariant *)

\* What a transaction found room for, counted from the life it may still have.
SessionRoom(s, start) ==
    {q \in OfSession(s) : batch[q].created > start + TxnLag - SessionWindow}
MinuteRoom(sampled) == AdmittedWithin(Reserved, MinuteWindow, sampled)
DayRoom(sampled) ==
    {q \in AdmittedWithin(Reserved, DayWindow, sampled) : batch[q].session \in Funded}

\* A transaction that passed a gate passes it until it commits.
TxnInv(x) ==
    /\ x.at \notin {"idle", "done"} => now <= x.start + TxnLag
    /\ x.at \in {"limited", "priced", "claiming", "claimed"} =>
           Below(SessionRoom(x.session, x.start), SessionLimit)
    /\ x.at = "claimed" =>
           /\ Below(MinuteRoom(x.sampled), MinuteLimit)
           /\ x.session \in Funded => Below(DayRoom(x.sampled), DayLimit)

\* The session row and the platform's lock have one holder each.
HoldersApart ==
    /\ \A p, q \in Permit :
           HoldsSession(p, txn[p].session) /\ HoldsSession(q, txn[p].session) => p = q
    /\ \A p, q \in Permit : HoldsPlatform(p) /\ HoldsPlatform(q) => p = q

TxnTypeOK ==
    /\ txn \in [Permit -> Txn]
    /\ batch \in [Permit -> Batch]
    /\ reply \in [Permit -> Permit \cup {"none", "rejected"}]

PrepareInv ==
    /\ AdmissionInv
    /\ TxnTypeOK
    /\ IsFiniteSet(Reserved)
    /\ \A p \in Permit : TxnInv(txn[p])
    /\ HoldersApart
    /\ WindowsHold

LEMMA TxnOf ==
    ASSUME TxnTypeOK, NEW p \in Permit
    PROVE  /\ txn[p] \in Txn
           /\ txn[p].at \in TxnStep /\ txn[p].session \in Session
           /\ txn[p].key \in Key /\ txn[p].start \in Nat /\ txn[p].sampled \in Nat
           /\ batch[p] \in Batch
           /\ batch[p].session \in Session /\ batch[p].key \in Key
           /\ batch[p].created \in Nat /\ batch[p].admitted \in Nat
<1>1. txn[p] \in Txn /\ batch[p] \in Batch
  BY DEF TxnTypeOK
<1>2. QED
  BY <1>1 DEF Txn, Batch

\* A window as WindowsHold counts it.
SessionIn(s, t) ==
    {q \in OfSession(s) : batch[q].created \in t..(t + (SessionWindow - TxnLag) - 1)}
MinuteIn(t) == {q \in Reserved : batch[q].admitted \in t..(t + MinuteWindow - 1)}
DayIn(t) ==
    {q \in {r \in Reserved : batch[r].session \in Funded} :
        batch[q].admitted \in t..(t + DayWindow - 1)}

LEMMA WindowsOf ==
    WindowsHold <=>
        /\ \A s \in Session, t \in 0..MaxTime : Cardinality(SessionIn(s, t)) <= SessionLimit
        /\ \A t \in 0..MaxTime : Cardinality(MinuteIn(t)) <= MinuteLimit
        /\ \A t \in 0..MaxTime : Cardinality(DayIn(t)) <= DayLimit
  BY DEF WindowsHold, AtMost, SessionIn, MinuteIn, DayIn

-----------------------------------------------------------------------------
(* Steps that reserve nothing *)

\* What the gates count is as it was.
LedgerSame ==
    /\ Reserved' = Reserved
    /\ \A q \in Reserved : /\ batch'[q].session = batch[q].session
                           /\ batch'[q].created = batch[q].created
                           /\ batch'[q].admitted = batch[q].admitted

LEMMA CountsSame ==
    ASSUME LedgerSame
    PROVE  /\ \A s, n : SessionRoom(s, n)' = SessionRoom(s, n)
           /\ \A n : MinuteRoom(n)' = MinuteRoom(n) /\ DayRoom(n)' = DayRoom(n)
           /\ \A s, t : SessionIn(s, t)' = SessionIn(s, t)
           /\ \A t : MinuteIn(t)' = MinuteIn(t) /\ DayIn(t)' = DayIn(t)
<1>1. \A s : OfSession(s)' = OfSession(s)
  BY DEF LedgerSame, OfSession
<1>2. \A s : OfSession(s) \subseteq Reserved
  BY DEF OfSession
<1>3. ASSUME NEW s, NEW n
      PROVE  SessionRoom(s, n)' = SessionRoom(s, n) /\ SessionIn(s, n)' = SessionIn(s, n)
  BY <1>1, <1>2 DEF LedgerSame, SessionRoom, SessionIn
<1>4. ASSUME NEW n
      PROVE  /\ MinuteRoom(n)' = MinuteRoom(n) /\ DayRoom(n)' = DayRoom(n)
             /\ MinuteIn(n)' = MinuteIn(n) /\ DayIn(n)' = DayIn(n)
  BY DEF LedgerSame, MinuteRoom, DayRoom, AdmittedWithin, MinuteIn, DayIn
<1>5. QED
  BY <1>3, <1>4

LEMMA WindowsSame == ASSUME WindowsHold, LedgerSame PROVE WindowsHold'
<1>1. /\ \A s \in Session, t \in 0..MaxTime : Cardinality(SessionIn(s, t)) <= SessionLimit
      /\ \A t \in 0..MaxTime : Cardinality(MinuteIn(t)) <= MinuteLimit
      /\ \A t \in 0..MaxTime : Cardinality(DayIn(t)) <= DayLimit
  BY WindowsOf
<1>2. /\ \A s \in Session, t \in 0..MaxTime : Cardinality(SessionIn(s, t)') <= SessionLimit
      /\ \A t \in 0..MaxTime : Cardinality(MinuteIn(t)') <= MinuteLimit
      /\ \A t \in 0..MaxTime : Cardinality(DayIn(t)') <= DayLimit
  BY <1>1, CountsSame
<1>3. WindowsHold' <=>
          /\ \A s \in Session, t \in 0..MaxTime : Cardinality(SessionIn(s, t)') <= SessionLimit
          /\ \A t \in 0..MaxTime : Cardinality(MinuteIn(t)') <= MinuteLimit
          /\ \A t \in 0..MaxTime : Cardinality(DayIn(t)') <= DayLimit
  BY DEF WindowsHold, AtMost, SessionIn, MinuteIn, DayIn
<1>4. QED
  BY <1>2, <1>3

\* What a transaction is sure of stays so while nothing is reserved.
LEMMA RowSame ==
    ASSUME LedgerSame, NEW x, TxnInv(x),
           x.at \in {"idle", "done"} \/ now' <= x.start + TxnLag
    PROVE  TxnInv(x)'
<1>1. /\ SessionRoom(x.session, x.start)' = SessionRoom(x.session, x.start)
      /\ MinuteRoom(x.sampled)' = MinuteRoom(x.sampled)
      /\ DayRoom(x.sampled)' = DayRoom(x.sampled)
  BY CountsSame
<1>2. QED
  BY <1>1 DEF TxnInv, Below

LEMMA RowSameHere ==
    ASSUME LedgerSame, UNCHANGED now, NEW x, TxnInv(x)
    PROVE  TxnInv(x)'
<1>1. x.at \in {"idle", "done"} \/ now' <= x.start + TxnLag
  BY DEF TxnInv
<1>2. QED
  BY <1>1, RowSame

-----------------------------------------------------------------------------
(* The turns of a transaction *)

Turn(p, x) == txn' = [txn EXCEPT ![p] = x]

\* A transaction takes the locks it waited for and no others.
MayHold(p, x) ==
    /\ x.at \notin {"idle", "begun", "done"} =>
         /\ x.session = txn[p].session
         /\ \/ txn[p].at \notin {"idle", "begun", "done"}
            \/ \A q \in Permit : ~HoldsSession(q, x.session)
    /\ x.at = "claimed" =>
         txn[p].at = "claimed" \/ \A q \in Permit : ~HoldsPlatform(q)

LEMMA Turned ==
    ASSUME TxnTypeOK, NEW p \in Permit, NEW x \in Txn, Turn(p, x)
    PROVE  /\ txn' \in [Permit -> Txn]
           /\ txn'[p] = x
           /\ \A q \in Permit \ {p} : txn'[q] = txn[q]
  BY DEF TxnTypeOK, Turn

LEMMA HoldersKept ==
    ASSUME TxnTypeOK, HoldersApart, NEW p \in Permit, NEW x \in Txn,
           Turn(p, x), MayHold(p, x)
    PROVE  HoldersApart'
<1>1. txn'[p] = x /\ \A q \in Permit \ {p} : txn'[q] = txn[q]
  BY Turned
<1>2. ASSUME NEW r \in Permit, NEW q \in Permit,
             HoldsSession(r, txn[r].session)', HoldsSession(q, txn[r].session)'
      PROVE  r = q
  BY <1>1, <1>2 DEF HoldersApart, HoldsSession, MayHold
<1>3. ASSUME NEW r \in Permit, NEW q \in Permit, HoldsPlatform(r)', HoldsPlatform(q)'
      PROVE  r = q
  BY <1>1, <1>3 DEF HoldersApart, HoldsPlatform, MayHold
<1>4. HoldersApart' <=>
        /\ \A r, q \in Permit :
             HoldsSession(r, txn[r].session)' /\ HoldsSession(q, txn[r].session)' => r = q
        /\ \A r, q \in Permit : HoldsPlatform(r)' /\ HoldsPlatform(q)' => r = q
  BY DEF HoldersApart, HoldsSession, HoldsPlatform
<1>5. QED
  BY <1>2, <1>3, <1>4

\* A step that writes no row.
Quiet == NoWrites /\ reply' \in [Permit -> Permit \cup {"none", "rejected"}]

LEMMA QuietSame ==
    ASSUME PrepareInv, Quiet
    PROVE  AdmissionInv' /\ LedgerSame /\ UNCHANGED <<now, batch>>
<1>1. AdmissionInv'
  BY DEF PrepareInv, Quiet, NoWrites, AdmissionInv, ReservationTypeOK,
         LiveHoldsPlace, Live, reservationVars
<1>2. LedgerSame
  BY DEF Quiet, NoWrites, LedgerSame, Reserved, reservationVars
<1>3. QED
  BY <1>1, <1>2 DEF Quiet, NoWrites

LEMMA TurnKeeps ==
    ASSUME PrepareInv, NEW p \in Permit, NEW x \in Txn,
           Turn(p, x), MayHold(p, x), TxnInv(x), Quiet
    PROVE  PrepareInv'
<1>1. AdmissionInv' /\ LedgerSame /\ UNCHANGED <<now, batch>>
  BY QuietSame
<1>2. TxnTypeOK /\ HoldersApart /\ WindowsHold /\ IsFiniteSet(Reserved)
  BY DEF PrepareInv
<1>3. /\ txn' \in [Permit -> Txn] /\ txn'[p] = x
      /\ \A q \in Permit \ {p} : txn'[q] = txn[q]
  BY <1>2, Turned
<1>4. TxnTypeOK'
  BY <1>1, <1>2, <1>3 DEF TxnTypeOK, Quiet
<1>5. ASSUME NEW q \in Permit PROVE TxnInv(txn[q])'
  <2>1. PICK y : y = txn'[q]
    OBVIOUS
  <2>2. TxnInv(y)
    BY <1>3, <2>1 DEF PrepareInv
  <2>3. TxnInv(y)'
    BY <1>1, <2>2, RowSameHere
  <2>4. QED
    BY <2>1, <2>3 DEF TxnInv
<1>6. HoldersApart'
  BY <1>2, HoldersKept
<1>7. WindowsHold' /\ IsFiniteSet(Reserved)'
  BY <1>1, <1>2, WindowsSame DEF LedgerSame
<1>8. QED
  BY <1>1, <1>4, <1>5, <1>6, <1>7 DEF PrepareInv

LEMMA BeginKeeps ==
    ASSUME PrepareInv, NEW p \in Permit, Begin(p)
    PROVE  PrepareInv'
<1>1. PICK s \in Session, k \in Key :
        Turn(p, [at |-> "begun", session |-> s, key |-> k, start |-> now, sampled |-> 0])
  BY DEF Begin, Turn
<1> DEFINE x == [at |-> "begun", session |-> s, key |-> k, start |-> now, sampled |-> 0]
<1>2. x \in Txn
  BY DEF Txn, TxnStep, PrepareInv, AdmissionInv
<1>3. MayHold(p, x) /\ TxnInv(x)
  BY AdmissionAssumption DEF MayHold, TxnInv, PrepareInv, AdmissionInv
<1>4. Quiet
  BY DEF Begin, Quiet, PrepareInv, TxnTypeOK
<1> HIDE DEF x
<1>5. Turn(p, x)
  BY <1>1 DEF x
<1>6. QED
  BY <1>2, <1>3, <1>4, <1>5, TurnKeeps

\* Goto is a turn that changes nothing but where the transaction is.
LEMMA GotoTurn ==
    ASSUME TxnTypeOK, NEW p \in Permit, NEW next \in TxnStep, Goto(p, next)
    PROVE  \E x \in Txn :
             /\ Turn(p, x)
             /\ x.at = next /\ x.session = txn[p].session
             /\ x.start = txn[p].start /\ x.sampled = txn[p].sampled
<1> DEFINE x == [txn[p] EXCEPT !.at = next]
<1>1. /\ x \in Txn /\ x.at = next /\ x.session = txn[p].session
      /\ x.start = txn[p].start /\ x.sampled = txn[p].sampled
  BY TxnOf DEF Txn
<1>2. Turn(p, x)
  BY DEF Goto, Turn, TxnTypeOK
<1> HIDE DEF x
<1>3. QED
  BY <1>1, <1>2

LEMMA AnswerTurn ==
    ASSUME TxnTypeOK, NEW p \in Permit, NEW r, Answer(p, r)
    PROVE  \E x \in Txn : Turn(p, x) /\ x.at = "done"
<1> DEFINE x == [txn[p] EXCEPT !.at = "done", !.start = 0, !.sampled = 0]
<1>1. x \in Txn /\ x.at = "done"
  BY TxnOf DEF Txn, TxnStep
<1>2. Turn(p, x)
  BY DEF Answer, Turn, TxnTypeOK
<1> HIDE DEF x
<1>3. QED
  BY <1>1, <1>2

\* An answer without a write ends the transaction and its claims.
LEMMA AnswerKeeps ==
    ASSUME PrepareInv, NEW p \in Permit, NEW r \in Permit \cup {"none", "rejected"},
           Answer(p, r), NoWrites
    PROVE  PrepareInv'
<1>1. TxnTypeOK /\ Quiet
  BY DEF PrepareInv, TxnTypeOK, Quiet, Answer
<1>2. PICK x \in Txn : Turn(p, x) /\ x.at = "done"
  BY <1>1, AnswerTurn
<1>3. MayHold(p, x) /\ TxnInv(x)
  BY <1>2 DEF MayHold, TxnInv
<1>4. QED
  BY <1>1, <1>2, <1>3, TurnKeeps

LEMMA LockSessionKeeps ==
    ASSUME PrepareInv, NEW p \in Permit, LockSession(p)
    PROVE  PrepareInv'
<1>1. TxnTypeOK
  BY DEF PrepareInv
<1>2. CASE Goto(p, "locked") /\ UNCHANGED reply
  <2>1. "locked" \in TxnStep
    BY DEF TxnStep
  <2>2. PICK x \in Txn : /\ Turn(p, x) /\ x.at = "locked" /\ x.session = txn[p].session
                         /\ x.start = txn[p].start
    BY <1>1, <1>2, <2>1, GotoTurn
  <2>3. /\ \A q \in Permit : ~HoldsSession(q, txn[p].session)
        /\ txn[p].at = "begun" /\ NoWrites
    BY DEF LockSession
  <2>4. TxnInv(txn[p])
    BY DEF PrepareInv
  <2>5. MayHold(p, x) /\ TxnInv(x)
    BY <2>2, <2>3, <2>4 DEF MayHold, TxnInv
  <2>6. Quiet
    BY <1>1, <1>2, <2>3 DEF Quiet, TxnTypeOK
  <2>7. QED
    BY <2>2, <2>5, <2>6, TurnKeeps
<1>3. ASSUME NEW q \in Permit, NEW t,
             Answer(p, IF reservation[q].expires > t THEN q ELSE "rejected")
      PROVE  PrepareInv'
  <2> DEFINE r == IF reservation[q].expires > t THEN q ELSE "rejected"
  <2>1. r \in Permit \cup {"none", "rejected"}
    OBVIOUS
  <2>2. NoWrites /\ Answer(p, r)
    BY <1>3 DEF LockSession
  <2> HIDE DEF r
  <2>3. QED
    BY <2>1, <2>2, AnswerKeeps
<1>4. Replay(txn[p].session, txn[p].key) \subseteq Permit
  BY DEF Replay, OfSession, Reserved
<1>5. QED
  BY <1>2, <1>3, <1>4 DEF LockSession

\* The window that is read holds all that the room does: a transaction ends
\* before it is TxnLag old.
LEMMA ReadLimitsKeeps ==
    ASSUME PrepareInv, NEW p \in Permit, ReadLimits(p)
    PROVE  PrepareInv'
<1>1. TxnTypeOK /\ IsFiniteSet(Reserved) /\ now \in Nat
  BY DEF PrepareInv, AdmissionInv
<1>2. /\ txn[p].at = "locked" /\ NoWrites /\ UNCHANGED reply /\ Goto(p, "limited")
      /\ Below(CreatedWithin(OfSession(txn[p].session), SessionWindow), SessionLimit)
  BY DEF ReadLimits
<1>3. "limited" \in TxnStep
  BY DEF TxnStep
<1>4. PICK x \in Txn : /\ Turn(p, x) /\ x.at = "limited" /\ x.session = txn[p].session
                       /\ x.start = txn[p].start
  BY <1>1, <1>2, <1>3, GotoTurn
<1>5. now <= x.start + TxnLag /\ x.start \in Nat
  BY <1>1, <1>2, <1>4, TxnOf DEF PrepareInv, TxnInv
<1> DEFINE S == CreatedWithin(OfSession(x.session), SessionWindow)
<1>6. SessionRoom(x.session, x.start) \subseteq S
  <2>1. ASSUME NEW q \in OfSession(x.session),
               batch[q].created > x.start + TxnLag - SessionWindow
        PROVE  batch[q].created > now - SessionWindow
    <3>1. q \in Permit
      BY DEF OfSession, Reserved
    <3>2. batch[q].created \in Nat /\ SessionWindow \in Nat /\ TxnLag \in Nat
      BY <1>1, <3>1, TxnOf, AdmissionAssumption
    <3>3. QED
      BY <1>1, <1>5, <2>1, <3>2
  <2>2. QED
    BY <2>1 DEF SessionRoom, CreatedWithin
<1>7. S \subseteq Reserved
  BY DEF CreatedWithin, OfSession
<1>8. IsFiniteSet(S) /\ Cardinality(S) \in Nat /\ Cardinality(S) < SessionLimit
  BY <1>1, <1>2, <1>4, <1>7, Fewer DEF Below
<1> HIDE DEF S
<1>9. /\ Cardinality(SessionRoom(x.session, x.start)) \in Nat
      /\ Cardinality(SessionRoom(x.session, x.start)) <= Cardinality(S)
  BY <1>6, <1>8, Fewer
<1>10. TxnInv(x)
  BY <1>4, <1>5, <1>8, <1>9, AdmissionAssumption DEF TxnInv, Below
<1>11. MayHold(p, x)
  BY <1>2, <1>4 DEF MayHold
<1>12. Quiet
  BY <1>1, <1>2 DEF Quiet, TxnTypeOK
<1>13. QED
  BY <1>4, <1>10, <1>11, <1>12, TurnKeeps

LEMMA ReadSpendKeeps ==
    ASSUME PrepareInv, NEW p \in Permit, ReadSpend(p)
    PROVE  PrepareInv'
<1>1. TxnTypeOK /\ TxnInv(txn[p])
  BY DEF PrepareInv
<1>2. txn[p].at = "limited" /\ NoWrites /\ UNCHANGED reply /\ Goto(p, "priced")
  BY DEF ReadSpend
<1>3. "priced" \in TxnStep
  BY DEF TxnStep
<1>4. PICK x \in Txn : /\ Turn(p, x) /\ x.at = "priced" /\ x.session = txn[p].session
                       /\ x.start = txn[p].start
  BY <1>1, <1>2, <1>3, GotoTurn
<1>5. MayHold(p, x) /\ TxnInv(x)
  BY <1>1, <1>2, <1>4 DEF MayHold, TxnInv
<1>6. Quiet
  BY <1>1, <1>2 DEF Quiet, TxnTypeOK
<1>7. QED
  BY <1>4, <1>5, <1>6, TurnKeeps

LEMMA SampleClaimKeeps ==
    ASSUME PrepareInv, NEW p \in Permit, SampleClaim(p)
    PROVE  PrepareInv'
<1>1. TxnTypeOK /\ TxnInv(txn[p]) /\ now \in Nat
  BY DEF PrepareInv, AdmissionInv
<1>2. txn[p].at = "priced" /\ NoWrites /\ UNCHANGED reply
  BY DEF SampleClaim
<1> DEFINE x == [txn[p] EXCEPT !.at = "claiming", !.sampled = now]
<1>3. /\ x \in Txn /\ x.at = "claiming" /\ x.session = txn[p].session
      /\ x.start = txn[p].start
  BY <1>1, TxnOf DEF Txn, TxnStep
<1>4. Turn(p, x)
  BY <1>1 DEF SampleClaim, Turn, TxnTypeOK
<1> HIDE DEF x
<1>5. MayHold(p, x) /\ TxnInv(x)
  BY <1>1, <1>2, <1>3 DEF MayHold, TxnInv
<1>6. Quiet
  BY <1>1, <1>2 DEF Quiet, TxnTypeOK
<1>7. QED
  BY <1>3, <1>4, <1>5, <1>6, TurnKeeps

LEMMA ClaimPlaceKeeps ==
    ASSUME PrepareInv, NEW p \in Permit, ClaimPlace(p)
    PROVE  PrepareInv'
<1>1. TxnTypeOK /\ TxnInv(txn[p])
  BY DEF PrepareInv
<1>2. /\ txn[p].at = "claiming" /\ NoWrites /\ UNCHANGED reply /\ Goto(p, "claimed")
      /\ \A q \in Permit : ~HoldsPlatform(q)
      /\ Capacity(p)
  BY DEF ClaimPlace
<1>3. "claimed" \in TxnStep
  BY DEF TxnStep
<1>4. PICK x \in Txn : /\ Turn(p, x) /\ x.at = "claimed" /\ x.session = txn[p].session
                       /\ x.start = txn[p].start /\ x.sampled = txn[p].sampled
  BY <1>1, <1>2, <1>3, GotoTurn
<1>5. /\ Below(MinuteRoom(x.sampled), MinuteLimit)
      /\ x.session \in Funded => Below(DayRoom(x.sampled), DayLimit)
  BY <1>2, <1>4 DEF Capacity, MinuteRoom, DayRoom
<1>6. MayHold(p, x) /\ TxnInv(x)
  BY <1>1, <1>2, <1>4, <1>5 DEF MayHold, TxnInv
<1>7. Quiet
  BY <1>1, <1>2 DEF Quiet, TxnTypeOK
<1>8. QED
  BY <1>4, <1>6, <1>7, TurnKeeps

LEMMA RefuseKeeps ==
    ASSUME PrepareInv, NEW p \in Permit, Refuse(p)
    PROVE  PrepareInv'
  BY AnswerKeeps DEF Refuse

-----------------------------------------------------------------------------
(* What becomes of a reservation *)

\* A reservation that moves on stays counted: no operation of the plane unmakes one.
LEMMA LedgerKeeps ==
    ASSUME PrepareInv, AdmissionInv', LedgerSame, UNCHANGED <<now, txn, reply>>,
           batch' \in [Permit -> Batch]
    PROVE  PrepareInv'
<1>1. /\ TxnTypeOK /\ HoldersApart /\ WindowsHold /\ IsFiniteSet(Reserved)
      /\ \A q \in Permit : TxnInv(txn[q])
  BY DEF PrepareInv
<1>2. TxnTypeOK'
  BY <1>1 DEF TxnTypeOK
<1>3. ASSUME NEW q \in Permit PROVE TxnInv(txn[q])'
  <2>1. PICK y : y = txn[q]
    OBVIOUS
  <2>2. TxnInv(y)'
    BY <1>1, <2>1, RowSameHere
  <2>3. QED
    BY <2>1, <2>2 DEF TxnInv
<1>4. HoldersApart'
  BY <1>1 DEF HoldersApart, HoldsSession, HoldsPlatform
<1>5. WindowsHold' /\ IsFiniteSet(Reserved)'
  BY <1>1, WindowsSame DEF LedgerSame
<1>6. QED
  BY <1>2, <1>3, <1>4, <1>5 DEF PrepareInv

\* The row of p goes from a reservation to a reservation, or stays.
LEMMA StillReserved ==
    ASSUME NEW p \in Permit, OthersKept(p),
           \/ UNCHANGED reservation
           \/ reservation[p].status # "none" /\ reservation'[p].status # "none"
    PROVE  Reserved' = Reserved
<1>1. ASSUME NEW q \in Permit
      PROVE  reservation'[q].status # "none" <=> reservation[q].status # "none"
  BY DEF OthersKept
<1>2. QED
  BY <1>1 DEF Reserved

LEMMA RedeemKeeps ==
    ASSUME PrepareInv, NEW p \in Permit, Redeem(p)
    PROVE  PrepareInv'
<1>1. PICK e \in LeaseExpiry : Activate(p, e, "activated")
  BY DEF Redeem
<1>2. e \in Nat /\ AdmissionInv /\ UNCHANGED <<now, txn, batch, reply>>
  BY AdmissionAssumption DEF PrepareInv, Redeem
<1>3. /\ AdmissionInv' /\ OthersKept(p)
      /\ UNCHANGED reservation \/ Moved(p, "RESERVED", "REDEEMED")
  BY <1>1, <1>2, ActivateMoves
<1>4. Reserved' = Reserved
  BY <1>3, StillReserved DEF Moved
<1>5. LedgerSame /\ batch' \in [Permit -> Batch]
  BY <1>2, <1>4 DEF LedgerSame, PrepareInv, TxnTypeOK
<1>6. QED
  BY <1>2, <1>3, <1>5, LedgerKeeps

LEMMA ChargeKeeps ==
    ASSUME PrepareInv, NEW p \in Permit, Charge(p)
    PROVE  PrepareInv'
<1>1. PICK c \in 0..ReservedMicros(batch[p].session) :
          batch' = [batch EXCEPT ![p].cost = c]
  BY DEF Charge
<1>2. Settle(p, "settled") /\ AdmissionInv /\ TxnTypeOK /\ UNCHANGED <<now, txn, reply>>
  BY DEF PrepareInv, Charge
<1>3. /\ AdmissionInv' /\ OthersKept(p)
      /\ UNCHANGED <<reservation, queue>> \/ Moved(p, "REDEEMED", "SETTLED")
  BY <1>2, SettleMoves
<1>4. Reserved' = Reserved
  BY <1>3, StillReserved DEF Moved
<1>5. c \in Nat
  BY <1>1, AdmissionAssumption DEF ReservedMicros
<1> DEFINE b == [batch[p] EXCEPT !.cost = c]
<1>6. /\ b \in Batch /\ b.session = batch[p].session
      /\ b.created = batch[p].created /\ b.admitted = batch[p].admitted
  BY <1>2, <1>5, TxnOf DEF Batch
<1>7. batch' = [batch EXCEPT ![p] = b] /\ batch \in [Permit -> Batch]
  BY <1>1, <1>2 DEF TxnTypeOK
<1> HIDE DEF b
<1>8. batch' \in [Permit -> Batch]
  BY <1>6, <1>7
<1>9. ASSUME NEW q \in Permit
      PROVE  /\ batch'[q].session = batch[q].session
             /\ batch'[q].created = batch[q].created
             /\ batch'[q].admitted = batch[q].admitted
  BY <1>6, <1>7
<1>10. LedgerSame
  BY <1>4, <1>9 DEF LedgerSame, Reserved
<1>11. QED
  BY <1>2, <1>3, <1>8, <1>10, LedgerKeeps

LEMMA FreeKeeps ==
    ASSUME PrepareInv, NEW p \in Permit, Free(p)
    PROVE  PrepareInv'
<1>1. PICK o \in {"no-lease", "cancelled"} : Release(p, o, "released")
  BY DEF Free
<1>2. AdmissionInv /\ UNCHANGED <<now, txn, batch, reply>>
  BY DEF PrepareInv, Free
<1>3. /\ AdmissionInv' /\ OthersKept(p)
      /\ \/ UNCHANGED <<reservation, queue>>
         \/ Moved(p, "REDEEMED", "RELEASED")
         \/ Moved(p, "RESERVED", "RELEASED")
  BY <1>1, <1>2, ReleaseMoves
<1>4. Reserved' = Reserved
  BY <1>3, StillReserved DEF Moved
<1>5. LedgerSame /\ batch' \in [Permit -> Batch]
  BY <1>2, <1>4 DEF LedgerSame, PrepareInv, TxnTypeOK
<1>6. QED
  BY <1>2, <1>3, <1>5, LedgerKeeps

\* Time passes only while no transaction is too old.
LEMMA AdmissionTickKeeps ==
    ASSUME PrepareInv, AdmissionTick
    PROVE  PrepareInv'
<1>1. /\ AdmissionInv /\ TxnTypeOK /\ HoldersApart /\ WindowsHold /\ IsFiniteSet(Reserved)
      /\ \A q \in Permit : TxnInv(txn[q])
  BY DEF PrepareInv
<1>2. /\ UNCHANGED <<reservation, active, queue, txn, batch, reply>>
      /\ now' = now + 1 /\ now \in Nat
      /\ \A q \in Permit :
           txn[q].at \in {"idle", "done"} \/ now < txn[q].start + TxnLag
  BY <1>1 DEF AdmissionTick, Tick, reservationVars, AdmissionInv
<1>3. AdmissionInv'
  BY <1>1, <1>2 DEF AdmissionInv, ReservationTypeOK, LiveHoldsPlace, Live
<1>4. TxnTypeOK' /\ HoldersApart'
  BY <1>1, <1>2 DEF TxnTypeOK, HoldersApart, HoldsSession, HoldsPlatform
<1>5. LedgerSame
  BY <1>2 DEF LedgerSame, Reserved
<1>6. ASSUME NEW q \in Permit PROVE TxnInv(txn[q])'
  <2>1. PICK y : y = txn[q]
    OBVIOUS
  <2>2. y.at \in {"idle", "done"} \/ now' <= y.start + TxnLag
    BY <1>1, <1>2, <2>1, TxnOf, AdmissionAssumption
  <2>3. TxnInv(y)'
    BY <1>1, <1>5, <2>1, <2>2, RowSame
  <2>4. QED
    BY <1>2, <2>1, <2>3 DEF TxnInv
<1>7. WindowsHold' /\ IsFiniteSet(Reserved)'
  BY <1>1, <1>5, WindowsSame DEF LedgerSame
<1>8. QED
  BY <1>3, <1>4, <1>6, <1>7 DEF PrepareInv

-----------------------------------------------------------------------------
(* The reservation *)

\* The ledger gains the row of one transaction.
Filed(p) ==
    /\ p \notin Reserved
    /\ Reserved' = Reserved \cup {p}
    /\ \A q \in Reserved : batch'[q] = batch[q]
    /\ batch'[p].session = txn[p].session
    /\ batch'[p].created = txn[p].start
    /\ batch'[p].admitted = txn[p].sampled

LEMMA CommitFiles ==
    ASSUME PrepareInv, NEW p \in Permit, Commit(p)
    PROVE  /\ AdmissionInv' /\ Filed(p) /\ TxnTypeOK' /\ UNCHANGED now
           /\ IsFiniteSet(Reserved)'
           /\ txn'[p].at = "done"
           /\ \A q \in Permit \ {p} : txn'[q] = txn[q]
           /\ HoldersApart'
<1>1. AdmissionInv /\ TxnTypeOK /\ HoldersApart /\ IsFiniteSet(Reserved)
  BY DEF PrepareInv
<1>2. PICK r \in {p, "none"} : Answer(p, r)
  BY DEF Commit
<1>3. PICK x \in Txn : Turn(p, x) /\ x.at = "done"
  BY <1>1, <1>2, AnswerTurn
<1>4. /\ txn' \in [Permit -> Txn] /\ txn'[p] = x
      /\ \A q \in Permit \ {p} : txn'[q] = txn[q]
  BY <1>1, <1>3, Turned
<1>5. HoldersApart'
  BY <1>1, <1>3, HoldersKept DEF MayHold
<1>6. Reserve(p) /\ UNCHANGED now
  BY DEF Commit
<1>7. AdmissionInv' /\ OthersKept(p) /\ Moved(p, "none", "RESERVED")
  BY <1>1, <1>6, ReserveMoves
<1> DEFINE b == [session |-> txn[p].session, key |-> txn[p].key,
                 created |-> txn[p].start, admitted |-> txn[p].sampled, cost |-> 0]
<1>8. b \in Batch
  BY <1>1, TxnOf DEF Batch
<1>9. batch' = [batch EXCEPT ![p] = b] /\ batch \in [Permit -> Batch]
  BY <1>1 DEF Commit, TxnTypeOK
<1>10. b.session = txn[p].session /\ b.created = txn[p].start /\ b.admitted = txn[p].sampled
  OBVIOUS
<1> HIDE DEF b
<1>11. /\ batch' \in [Permit -> Batch] /\ batch'[p] = b
       /\ \A q \in Permit \ {p} : batch'[q] = batch[q]
  BY <1>8, <1>9
<1>12. ASSUME NEW q \in Permit
       PROVE  reservation'[q].status # "none" <=> reservation[q].status # "none" \/ q = p
  BY <1>7 DEF OthersKept, Moved
<1>13. Reserved' = Reserved \cup {p} /\ p \notin Reserved
  BY <1>7, <1>12 DEF Reserved, Moved
<1>14. \A q \in Reserved : q \in Permit \ {p}
  BY <1>13 DEF Reserved
<1>15. Filed(p)
  BY <1>10, <1>11, <1>13, <1>14 DEF Filed
<1>16. IsFiniteSet(Reserved)'
  BY <1>1, <1>13, FS_AddElement
<1>17. reply' \in [Permit -> Permit \cup {"none", "rejected"}]
  BY <1>1, <1>2 DEF TxnTypeOK, Answer
<1>18. TxnTypeOK'
  BY <1>4, <1>11, <1>17 DEF TxnTypeOK
<1>19. QED
  BY <1>3, <1>4, <1>5, <1>6, <1>7, <1>15, <1>16, <1>18

\* A window that gains the row is one the transaction found room in.
LEMMA SessionWindowFits ==
    ASSUME PrepareInv, NEW p \in Permit, Filed(p), TxnInv(txn[p]),
           txn[p].at = "claimed", NEW s \in Session, NEW t \in 0..MaxTime,
           Cardinality(SessionIn(s, t)) <= SessionLimit
    PROVE  Cardinality(SessionIn(s, t)') <= SessionLimit
<1>1. PICK n, m : n = txn[p].start /\ m = txn[p].session
  OBVIOUS
<1>2. TxnTypeOK /\ IsFiniteSet(Reserved)
  BY DEF PrepareInv
<1>3. n \in Nat /\ t \in Nat /\ SessionWindow \in Nat /\ TxnLag \in Nat /\ SessionLimit \in Nat
  BY <1>1, <1>2, TxnOf, AdmissionAssumption, ClockAssumption
<1>4. /\ SessionIn(s, t)' = {q \in Reserved' : /\ batch'[q].session = s
                                              /\ batch'[q].created \in
                                                   t..(t + (SessionWindow - TxnLag) - 1)}
      /\ SessionIn(s, t) = {q \in Reserved : /\ batch[q].session = s
                                             /\ batch[q].created \in
                                                  t..(t + (SessionWindow - TxnLag) - 1)}
      /\ SessionRoom(m, n) = {q \in Reserved : /\ batch[q].session = m
                                               /\ batch[q].created > n + TxnLag - SessionWindow}
  BY DEF SessionIn, SessionRoom, OfSession
<1>5. CASE s = m /\ n \in t..(t + (SessionWindow - TxnLag) - 1)
  <2>1. SessionIn(s, t)' \subseteq SessionRoom(m, n) \cup {p}
    <3>1. ASSUME NEW q \in Reserved, batch[q].created \in t..(t + (SessionWindow - TxnLag) - 1)
          PROVE  batch[q].created > n + TxnLag - SessionWindow
      BY <1>3, <1>5, <3>1
    <3>2. QED
      BY <1>4, <1>5, <3>1 DEF Filed
  <2>2. Below(SessionRoom(m, n), SessionLimit)
    BY <1>1 DEF TxnInv
  <2>3. SessionRoom(m, n) \subseteq Reserved
    BY <1>4
  <2>4. IsFiniteSet(SessionRoom(m, n)) /\ Cardinality(SessionRoom(m, n)) < SessionLimit
    BY <1>2, <2>2, <2>3, Fewer DEF Below
  <2>5. QED
    BY <1>3, <2>1, <2>4, OneMore
<1>6. CASE ~(s = m /\ n \in t..(t + (SessionWindow - TxnLag) - 1))
  <2>1. SessionIn(s, t)' = SessionIn(s, t)
    BY <1>1, <1>4, <1>6 DEF Filed
  <2>2. QED
    BY <2>1
<1>7. QED
  BY <1>5, <1>6

LEMMA MinuteWindowFits ==
    ASSUME PrepareInv, NEW p \in Permit, Filed(p), TxnInv(txn[p]),
           txn[p].at = "claimed", NEW t \in 0..MaxTime,
           Cardinality(MinuteIn(t)) <= MinuteLimit
    PROVE  Cardinality(MinuteIn(t)') <= MinuteLimit
<1>1. PICK n : n = txn[p].sampled
  OBVIOUS
<1>2. TxnTypeOK /\ IsFiniteSet(Reserved)
  BY DEF PrepareInv
<1>3. n \in Nat /\ t \in Nat /\ MinuteWindow \in Nat /\ MinuteLimit \in Nat
  BY <1>1, <1>2, TxnOf, AdmissionAssumption, ClockAssumption
<1>4. /\ MinuteIn(t)' = {q \in Reserved' : batch'[q].admitted \in t..(t + MinuteWindow - 1)}
      /\ MinuteIn(t) = {q \in Reserved : batch[q].admitted \in t..(t + MinuteWindow - 1)}
      /\ MinuteRoom(n) = {q \in Reserved : batch[q].admitted > n - MinuteWindow}
  BY DEF MinuteIn, MinuteRoom, AdmittedWithin
<1>5. CASE n \in t..(t + MinuteWindow - 1)
  <2>1. MinuteIn(t)' \subseteq MinuteRoom(n) \cup {p}
    <3>1. ASSUME NEW q \in Reserved, batch[q].admitted \in t..(t + MinuteWindow - 1)
          PROVE  batch[q].admitted > n - MinuteWindow
      BY <1>3, <1>5, <3>1
    <3>2. QED
      BY <1>4, <1>5, <3>1 DEF Filed
  <2>2. Below(MinuteRoom(n), MinuteLimit)
    BY <1>1 DEF TxnInv
  <2>3. MinuteRoom(n) \subseteq Reserved
    BY <1>4
  <2>4. IsFiniteSet(MinuteRoom(n)) /\ Cardinality(MinuteRoom(n)) < MinuteLimit
    BY <1>2, <2>2, <2>3, Fewer DEF Below
  <2>5. QED
    BY <1>3, <2>1, <2>4, OneMore
<1>6. CASE n \notin t..(t + MinuteWindow - 1)
  <2>1. MinuteIn(t)' = MinuteIn(t)
    BY <1>1, <1>4, <1>6 DEF Filed
  <2>2. QED
    BY <2>1
<1>7. QED
  BY <1>5, <1>6

LEMMA DayWindowFits ==
    ASSUME PrepareInv, NEW p \in Permit, Filed(p), TxnInv(txn[p]),
           txn[p].at = "claimed", NEW t \in 0..MaxTime,
           Cardinality(DayIn(t)) <= DayLimit
    PROVE  Cardinality(DayIn(t)') <= DayLimit
<1>1. PICK n, m : n = txn[p].sampled /\ m = txn[p].session
  OBVIOUS
<1>2. TxnTypeOK /\ IsFiniteSet(Reserved)
  BY DEF PrepareInv
<1>3. n \in Nat /\ t \in Nat /\ DayWindow \in Nat /\ DayLimit \in Nat
  BY <1>1, <1>2, TxnOf, AdmissionAssumption, ClockAssumption
<1>4. /\ DayIn(t)' = {q \in Reserved' : /\ batch'[q].session \in Funded
                                        /\ batch'[q].admitted \in t..(t + DayWindow - 1)}
      /\ DayIn(t) = {q \in Reserved : /\ batch[q].session \in Funded
                                      /\ batch[q].admitted \in t..(t + DayWindow - 1)}
      /\ DayRoom(n) = {q \in Reserved : /\ batch[q].session \in Funded
                                        /\ batch[q].admitted > n - DayWindow}
  BY DEF DayIn, DayRoom, AdmittedWithin
<1>5. CASE m \in Funded /\ n \in t..(t + DayWindow - 1)
  <2>1. DayIn(t)' \subseteq DayRoom(n) \cup {p}
    <3>1. ASSUME NEW q \in Reserved, batch[q].admitted \in t..(t + DayWindow - 1)
          PROVE  batch[q].admitted > n - DayWindow
      BY <1>3, <1>5, <3>1
    <3>2. QED
      BY <1>4, <1>5, <3>1 DEF Filed
  <2>2. Below(DayRoom(n), DayLimit)
    BY <1>1, <1>5 DEF TxnInv
  <2>3. DayRoom(n) \subseteq Reserved
    BY <1>4
  <2>4. IsFiniteSet(DayRoom(n)) /\ Cardinality(DayRoom(n)) < DayLimit
    BY <1>2, <2>2, <2>3, Fewer DEF Below
  <2>5. QED
    BY <1>3, <2>1, <2>4, OneMore
<1>6. CASE ~(m \in Funded /\ n \in t..(t + DayWindow - 1))
  <2>1. DayIn(t)' = DayIn(t)
    BY <1>1, <1>4, <1>6 DEF Filed
  <2>2. QED
    BY <2>1
<1>7. QED
  BY <1>5, <1>6

\* The others hold other sessions, and none of them the platform's lock.
LEMMA OthersStillFit ==
    ASSUME PrepareInv, NEW p \in Permit, Filed(p), txn[p].at = "claimed", UNCHANGED now,
           NEW q \in Permit \ {p}, NEW y, y = txn[q], TxnInv(y)
    PROVE  TxnInv(y)'
<1>1. HoldersApart
  BY DEF PrepareInv
<1>2. y.at # "claimed"
  BY <1>1 DEF HoldersApart, HoldsPlatform
<1>3. ASSUME y.at \in {"limited", "priced", "claiming"}
      PROVE  y.session # txn[p].session
  BY <1>1, <1>3 DEF HoldersApart, HoldsSession
<1>4. ASSUME y.session # txn[p].session
      PROVE  SessionRoom(y.session, y.start)' = SessionRoom(y.session, y.start)
  <2>1. /\ SessionRoom(y.session, y.start)' =
             {r \in Reserved' : /\ batch'[r].session = y.session
                                /\ batch'[r].created > y.start + TxnLag - SessionWindow}
        /\ SessionRoom(y.session, y.start) =
             {r \in Reserved : /\ batch[r].session = y.session
                               /\ batch[r].created > y.start + TxnLag - SessionWindow}
    BY DEF SessionRoom, OfSession
  <2>2. QED
    BY <1>4, <2>1 DEF Filed
<1>5. QED
  BY <1>2, <1>3, <1>4 DEF TxnInv, Below

LEMMA CommitKeeps ==
    ASSUME PrepareInv, NEW p \in Permit, Commit(p)
    PROVE  PrepareInv'
<1>1. /\ AdmissionInv' /\ Filed(p) /\ TxnTypeOK' /\ UNCHANGED now
      /\ IsFiniteSet(Reserved)' /\ txn'[p].at = "done"
      /\ \A q \in Permit \ {p} : txn'[q] = txn[q]
      /\ HoldersApart'
  BY CommitFiles
<1>2. txn[p].at = "claimed" /\ WindowsHold /\ \A q \in Permit : TxnInv(txn[q])
  BY DEF Commit, PrepareInv
<1>3. /\ \A s \in Session, t \in 0..MaxTime : Cardinality(SessionIn(s, t)) <= SessionLimit
      /\ \A t \in 0..MaxTime : Cardinality(MinuteIn(t)) <= MinuteLimit
      /\ \A t \in 0..MaxTime : Cardinality(DayIn(t)) <= DayLimit
  BY <1>2, WindowsOf
<1>4. TxnInv(txn[p])
  BY <1>2
<1>5. \A s \in Session, t \in 0..MaxTime : Cardinality(SessionIn(s, t)') <= SessionLimit
  BY <1>1, <1>2, <1>3, <1>4, SessionWindowFits
<1>6. \A t \in 0..MaxTime : Cardinality(MinuteIn(t)') <= MinuteLimit
  BY <1>1, <1>2, <1>3, <1>4, MinuteWindowFits
<1>7. \A t \in 0..MaxTime : Cardinality(DayIn(t)') <= DayLimit
  BY <1>1, <1>2, <1>3, <1>4, DayWindowFits
<1>8. WindowsHold'
  <2>1. WindowsHold' <=>
          /\ \A s \in Session, t \in 0..MaxTime : Cardinality(SessionIn(s, t)') <= SessionLimit
          /\ \A t \in 0..MaxTime : Cardinality(MinuteIn(t)') <= MinuteLimit
          /\ \A t \in 0..MaxTime : Cardinality(DayIn(t)') <= DayLimit
    BY DEF WindowsHold, AtMost, SessionIn, MinuteIn, DayIn
  <2>2. QED
    BY <1>5, <1>6, <1>7, <2>1
<1>9. ASSUME NEW q \in Permit PROVE TxnInv(txn[q])'
  <2>1. CASE q = p
    BY <1>1, <2>1 DEF TxnInv
  <2>2. CASE q # p
    <3>1. PICK y : y = txn[q]
      OBVIOUS
    <3>2. TxnInv(y)'
      BY <1>1, <1>2, <2>2, <3>1, OthersStillFit
    <3>3. QED
      BY <1>1, <2>2, <3>1, <3>2 DEF TxnInv
  <2>3. QED
    BY <2>1, <2>2
<1>10. QED
  BY <1>1, <1>8, <1>9 DEF PrepareInv

-----------------------------------------------------------------------------
(* Theorems *)

LEMMA PrepareInit == AdmissionInit => PrepareInv
<1> SUFFICES ASSUME AdmissionInit PROVE PrepareInv
  OBVIOUS
<1>1. /\ reservation = [p \in Permit |-> NoReservation]
      /\ active = {} /\ queue = [p \in Permit |-> NoItem] /\ now = 0
      /\ txn = [p \in Permit |-> NoTxn] /\ batch = [p \in Permit |-> NoBatch]
      /\ reply = [p \in Permit |-> "none"]
  BY DEF AdmissionInit, ReservationInit, ClockInit
<1>2. /\ NoReservation \in Reservation /\ NoReservation.status = "none"
      /\ NoItem \in QueueItem /\ ~NoItem.present
  BY DEF NoReservation, Reservation, ReservationStatus, NoItem, QueueItem
<1>3. AnySession \in Session /\ AnyKey \in Key
  BY AdmissionAssumption DEF AnySession, AnyKey
<1>4. /\ NoTxn \in Txn /\ NoTxn.at = "idle" /\ NoBatch \in Batch
  BY <1>3 DEF NoTxn, Txn, TxnStep, NoBatch, Batch
<1>5. AdmissionInv
  BY <1>1, <1>2 DEF AdmissionInv, ReservationTypeOK, LiveHoldsPlace, Live
<1>6. TxnTypeOK
  BY <1>1, <1>4 DEF TxnTypeOK
<1>7. Reserved = {}
  BY <1>1, <1>2 DEF Reserved
<1>8. IsFiniteSet(Reserved) /\ Cardinality({}) = 0
  BY <1>7, FS_EmptySet
<1>9. ASSUME NEW p \in Permit PROVE TxnInv(txn[p]) /\ txn[p].at = "idle"
  BY <1>1, <1>4 DEF TxnInv
<1>10. HoldersApart
  BY <1>9 DEF HoldersApart, HoldsSession, HoldsPlatform
<1>11. /\ \A s, t : SessionIn(s, t) = {}
       /\ \A t : MinuteIn(t) = {} /\ DayIn(t) = {}
  BY <1>7 DEF SessionIn, OfSession, MinuteIn, DayIn
<1>12. WindowsHold
  BY <1>8, <1>11, WindowsOf, AdmissionAssumption
<1>13. QED
  BY <1>5, <1>6, <1>8, <1>9, <1>10, <1>12 DEF PrepareInv

LEMMA PrepareNext == PrepareInv /\ [AdmissionNext]_admissionVars => PrepareInv'
<1> SUFFICES ASSUME PrepareInv, [AdmissionNext]_admissionVars PROVE PrepareInv'
  OBVIOUS
<1>1. ASSUME NEW p \in Permit,
             \/ Begin(p) \/ LockSession(p) \/ ReadLimits(p) \/ ReadSpend(p)
             \/ SampleClaim(p) \/ ClaimPlace(p) \/ Refuse(p)
      PROVE  PrepareInv'
  BY <1>1, BeginKeeps, LockSessionKeeps, ReadLimitsKeeps, ReadSpendKeeps,
     SampleClaimKeeps, ClaimPlaceKeeps, RefuseKeeps
<1>2. ASSUME NEW p \in Permit, Commit(p) \/ Redeem(p) \/ Charge(p) \/ Free(p)
      PROVE  PrepareInv'
  BY <1>2, CommitKeeps, RedeemKeeps, ChargeKeeps, FreeKeeps
<1>3. CASE UNCHANGED admissionVars
  <2>1. UNCHANGED <<now, reservation, active, queue, txn, batch, reply>>
    BY <1>3 DEF admissionVars, reservationVars
  <2>2. AdmissionInv' /\ LedgerSame
    BY <2>1 DEF PrepareInv, AdmissionInv, ReservationTypeOK, LiveHoldsPlace, Live,
                LedgerSame, Reserved
  <2>3. batch' \in [Permit -> Batch]
    BY <2>1 DEF PrepareInv, TxnTypeOK
  <2>4. QED
    BY <2>1, <2>2, <2>3, LedgerKeeps
<1>4. QED
  BY <1>1, <1>2, <1>3, AdmissionTickKeeps DEF AdmissionNext

\* Every row of prepare and of the admission plane under it keeps its type.
THEOREM AdmissionTyped == AdmissionSpec => []AdmissionTypeOK
<1>1. PrepareInv => AdmissionTypeOK
  BY DEF PrepareInv, AdmissionInv, TxnTypeOK, AdmissionTypeOK
<1>2. QED
  BY <1>1, PrepareInit, PrepareNext, PTL DEF AdmissionSpec

\* However prepare invocations interleave between their locks, with any number
\* of permits, sessions and keys and any lengths of the windows, no window ever
\* holds more batches or admissions than its limit.
THEOREM WindowsTheorem == AdmissionSpec => []WindowsHold
<1>1. PrepareInv => WindowsHold
  BY DEF PrepareInv
<1>2. QED
  BY <1>1, PrepareInit, PrepareNext, PTL DEF AdmissionSpec

\* The platform's one place, under prepare as under the protocol.
THEOREM AdmittedHoldsPlace == AdmissionSpec => []LiveHoldsPlace
<1>1. PrepareInv => LiveHoldsPlace
  BY DEF PrepareInv, AdmissionInv
<1>2. QED
  BY <1>1, PrepareInit, PrepareNext, PTL DEF AdmissionSpec

-----------------------------------------------------------------------------
(* The allowance of a source: days *)

LEMMA Division ==
    ASSUME NEW a \in Nat, NEW d \in Nat \ {0}
    PROVE  a \div d \in Nat /\ (a \div d) * d <= a /\ a < (a \div d) * d + d
  BY SMTT(20)

LEMMA NextMultiple ==
    ASSUME NEW x \in Nat, NEW y \in Nat, NEW d \in Nat \ {0}, x * d < y * d + d + d
    PROVE  x <= y + 1
<1>1. CASE x >= y + 2
  <2> DEFINE k == x - y - 2
  <2>1. k \in Nat /\ x = y + 2 + k
    BY <1>1
  <2> HIDE DEF k
  <2>2. x * d = y * d + d + d + k * d
    BY <2>1, SMTT(20)
  <2>3. k * d \in Nat /\ y * d \in Nat
    BY <2>1, SMTT(20)
  <2>4. QED
    BY <2>2, <2>3
<1>2. QED
  BY <1>1

\* What is at most a day later is filed on the next day at the latest.
LEMMA NextDay ==
    ASSUME NEW a \in Nat, NEW b \in Nat, a <= b + DayLength
    PROVE  DayOf(a) \in Nat /\ DayOf(b) \in Nat /\ DayOf(a) <= DayOf(b) + 1
<1>1. PICK d : d = DayLength
  OBVIOUS
<1>2. d \in Nat \ {0}
  BY <1>1, SourceAssumption
<1>3. /\ a \div d \in Nat /\ (a \div d) * d <= a
      /\ b \div d \in Nat /\ b < (b \div d) * d + d
  BY <1>2, Division
<1>4. PICK x, y : x = a \div d /\ y = b \div d
  OBVIOUS
<1>5. x \in Nat /\ y \in Nat /\ x * d \in Nat /\ y * d \in Nat
  BY <1>2, <1>3, <1>4
<1>6. x * d < y * d + d + d
  BY <1>1, <1>2, <1>3, <1>4, <1>5
<1>7. x <= y + 1
  BY <1>2, <1>5, <1>6, NextMultiple
<1>8. QED
  BY <1>1, <1>4, <1>5, <1>7 DEF DayOf

\* A day that a clock showed while a call of this time waited.
Near(day, time) ==
    \E t \in Nat : day = DayOf(t) /\ t <= time + Skew /\ time <= t + CallWait + Skew

\* Calls less than a window apart see each other's buckets.
LEMMA DaysMeet ==
    ASSUME NEW c \in Int, NEW d \in Int, NEW x \in Nat, NEW y \in Nat,
           Near(c, x), Near(d, y), y <= x, x < y + SourceWindow
    PROVE  d \in {c - 1, c, c + 1}
<1>1. PICK s \in Nat : c = DayOf(s) /\ s <= x + Skew /\ x <= s + CallWait + Skew
  BY DEF Near
<1>2. PICK t \in Nat : d = DayOf(t) /\ t <= y + Skew /\ y <= t + CallWait + Skew
  BY DEF Near
<1>3. /\ SourceWindow \in Nat \ {0} /\ CallWait \in Nat /\ Skew \in Nat /\ DayLength \in Nat
      /\ SourceWindow + CallWait + Skew + Skew <= DayLength + 1
  BY SourceAssumption, ClockAssumption
<1>4. s <= t + DayLength /\ t <= s + DayLength
  BY <1>1, <1>2, <1>3
<1>5. c \in Nat /\ d \in Nat /\ c <= d + 1 /\ d <= c + 1
  BY <1>1, <1>2, <1>4, NextDay
<1>6. QED
  BY <1>5

-----------------------------------------------------------------------------
(* The inductive invariant *)

Allowed == {i \in SourceCall : call[i].allowed}
WindowAt(t) ==
    {j \in Allowed : call[j].time <= t /\ call[j].time > t - SourceWindow}

\* What a call under way saw of its clock, and the events it counted.
CallSound(x) ==
    /\ x.at = "waiting" =>
         \E t \in Nat : x.day = DayOf(t) /\ t <= x.asked + Skew /\ x.asked <= t + Skew
                        /\ x.asked <= now
    /\ x.at \in {"locked", "counted"} =>
         /\ Near(x.day, x.time)
         /\ x.time <= now
         /\ \A j \in Allowed : call[j].time <= x.time
    /\ x.at = "locked" => now <= x.time + StmtLag
    /\ x.at = "counted" => Cardinality(WindowAt(x.time)) <= x.count
    /\ x.allowed => /\ x.at = "done" /\ x.time <= now
                    /\ Cardinality(WindowAt(x.time)) <= SourceLimit

\* An event is that of an allowed call, and stays until no window reaches back to it.
EventSound(i) ==
    /\ event[i].filed => /\ call[i].allowed
                         /\ event[i].time = call[i].time
                         /\ Near(event[i].day, event[i].time)
    /\ call[i].allowed => event[i].filed \/ call[i].time <= now - Retention

LocksApart == \A i, j \in SourceCall : Locking(i) /\ Locking(j) => i = j

SourceInv ==
    /\ SourceTypeOK /\ now \in Nat
    /\ IsFiniteSet(Allowed)
    /\ LocksApart
    /\ \A i \in SourceCall : CallSound(call[i]) /\ EventSound(i)

LEMMA CallOf ==
    ASSUME SourceTypeOK, NEW i \in SourceCall
    PROVE  /\ call[i] \in CallState
           /\ call[i].asked \in Nat /\ call[i].day \in Int /\ call[i].time \in Nat
           /\ call[i].count \in Nat /\ call[i].allowed \in BOOLEAN
           /\ call[i].at \in {"idle", "waiting", "locked", "counted", "done"}
           /\ event[i] \in EventRow
           /\ event[i].filed \in BOOLEAN /\ event[i].day \in Int /\ event[i].time \in Nat
<1>1. call[i] \in CallState /\ event[i] \in EventRow
  BY DEF SourceTypeOK
<1>2. QED
  BY <1>1 DEF CallState, EventRow

-----------------------------------------------------------------------------
(* Steps that allow nothing *)

AllowedSame ==
    /\ Allowed' = Allowed
    /\ \A j \in Allowed : call'[j].time = call[j].time

LEMMA WindowSame == ASSUME AllowedSame, NEW t PROVE WindowAt(t)' = WindowAt(t)
  BY DEF AllowedSame, WindowAt

\* Time only makes a row older.
LEMMA CallSame ==
    ASSUME SourceInv, AllowedSame, NEW x, CallSound(x), now' \in Nat, now <= now',
           x \in CallState, x.at = "locked" => now' <= x.time + StmtLag
    PROVE  CallSound(x)'
<1>1. WindowAt(x.time)' = WindowAt(x.time)
  BY WindowSame
<1>2. now \in Nat /\ x.time \in Nat /\ x.asked \in Nat
  BY DEF SourceInv, CallState
<1>3. Near(x.day, x.time)' <=> Near(x.day, x.time)
  BY DEF Near
<1>4. \A j \in Allowed' : j \in Allowed /\ call'[j].time = call[j].time
  BY DEF AllowedSame
<1>5. QED
  BY <1>1, <1>2, <1>3, <1>4 DEF CallSound

\* A call takes a turn; the others and the events are left alone.
CallTurn(i, x) == call' = [call EXCEPT ![i] = x]

LEMMA CallTurned ==
    ASSUME SourceTypeOK, NEW i \in SourceCall, NEW x \in CallState, CallTurn(i, x)
    PROVE  /\ call' \in [SourceCall -> CallState]
           /\ call'[i] = x
           /\ \A j \in SourceCall \ {i} : call'[j] = call[j]
  BY DEF SourceTypeOK, CallTurn

LEMMA UnderWayAllowsNothing ==
    ASSUME SourceInv, NEW i \in SourceCall, NEW x \in CallState, CallTurn(i, x),
           ~call[i].allowed, ~x.allowed
    PROVE  AllowedSame
<1>1. /\ call'[i] = x /\ \A j \in SourceCall \ {i} : call'[j] = call[j]
  BY CallTurned DEF SourceInv
<1>2. Allowed' = Allowed
  BY <1>1 DEF Allowed
<1>3. QED
  BY <1>1, <1>2 DEF AllowedSame, Allowed

LEMMA TurnAllowsNothing ==
    ASSUME SourceInv, NEW i \in SourceCall, NEW x \in CallState, CallTurn(i, x),
           ~call[i].allowed, ~x.allowed, UNCHANGED now,
           CallSound(x),
           x.at \in {"locked", "counted"} => Locking(i) \/ LockFree(i),
           event' \in [SourceCall -> EventRow],
           \A j \in SourceCall : \/ event'[j] = event[j]
                                 \/ event[j].time <= now - Retention /\ ~event'[j].filed
    PROVE  SourceInv'
<1>1. /\ call' \in [SourceCall -> CallState] /\ call'[i] = x
      /\ \A j \in SourceCall \ {i} : call'[j] = call[j]
      /\ SourceTypeOK /\ now \in Nat
  BY CallTurned DEF SourceInv
<1>2. AllowedSame
  BY UnderWayAllowsNothing
<1>3. SourceTypeOK' /\ now' \in Nat /\ IsFiniteSet(Allowed)'
  BY <1>1, <1>2 DEF SourceTypeOK, SourceInv, AllowedSame
<1>4. ASSUME NEW j \in SourceCall PROVE CallSound(call[j])'
  <2>1. PICK y : y = call'[j]
    OBVIOUS
  <2>2. y \in CallState /\ CallSound(y)
    BY <1>1, <2>1, CallOf DEF SourceInv
  <2>3. y.at = "locked" => now' <= y.time + StmtLag
    BY <2>2 DEF CallSound
  <2>4. CallSound(y)'
    BY <1>1, <1>2, <2>2, <2>3, CallSame
  <2>5. QED
    BY <2>1, <2>4 DEF CallSound
<1>5. ASSUME NEW j \in SourceCall PROVE EventSound(j)'
  <2>1. EventSound(j) /\ event[j].time \in Nat /\ call[j].time \in Nat
    BY <1>1, CallOf DEF SourceInv
  <2>2. call'[j].allowed <=> call[j].allowed
    BY <1>1
  <2>3. call[j].allowed => call'[j].time = call[j].time
    BY <1>1
  <2>4. \A d, t : Near(d, t)' <=> Near(d, t)
    BY DEF Near
  <2>5. CASE event'[j] = event[j]
    BY <2>1, <2>2, <2>3, <2>4, <2>5 DEF EventSound
  <2>6. CASE event[j].time <= now - Retention /\ ~event'[j].filed
    BY <2>1, <2>2, <2>3, <2>6 DEF EventSound
  <2>7. QED
    BY <2>5, <2>6
<1>6. LocksApart'
  <2>1. ASSUME NEW j \in SourceCall, NEW k \in SourceCall, Locking(j)', Locking(k)'
        PROVE  j = k
    BY <1>1, <2>1 DEF LocksApart, Locking, LockFree, SourceInv
  <2>2. QED
    BY <2>1 DEF LocksApart, Locking
<1>7. QED
  BY <1>3, <1>4, <1>5, <1>6 DEF SourceInv

LEMMA ConsumeKeeps ==
    ASSUME SourceInv, NEW i \in SourceCall, Consume(i)
    PROVE  SourceInv'
<1>1. SourceTypeOK /\ now \in Nat /\ CallSound(call[i]) /\ call[i].at = "idle"
  BY DEF SourceInv, Consume
<1>2. PICK t \in AppClock :
        call' = [call EXCEPT ![i].at = "waiting", ![i].asked = now, ![i].day = DayOf(t)]
  BY DEF Consume
<1>3. t \in Nat /\ t <= now + Skew /\ now <= t + Skew
  BY <1>1, <1>2, ClockAssumption DEF AppClock
<1>4. PICK d : d = DayOf(t) /\ d \in Nat
  <2>1. DayOf(t) \in Nat
    BY <1>3, NextDay, SourceAssumption
  <2>2. QED
    BY <2>1
<1> DEFINE x == [call[i] EXCEPT !.at = "waiting", !.asked = now, !.day = d]
<1>5. /\ x \in CallState /\ x.at = "waiting" /\ x.asked = now /\ x.day = d
      /\ x.allowed = call[i].allowed
  <2>1. call[i] \in CallState
    BY <1>1, CallOf
  <2>2. PICK y : y = call[i]
    OBVIOUS
  <2>3. d \in Int /\ now \in Nat
    BY <1>1, <1>4
  <2>4. x = [y EXCEPT !.at = "waiting", !.asked = now, !.day = d]
    BY <2>2
  <2> HIDE DEF x
  <2>5. QED
    BY <2>1, <2>2, <2>3, <2>4 DEF CallState
<1>6. CallTurn(i, x)
  BY <1>1, <1>2, <1>4 DEF CallTurn, SourceTypeOK
<1> HIDE DEF x
<1>7. ~call[i].allowed
  BY <1>1 DEF CallSound
<1>8. CallSound(x)
  BY <1>1, <1>3, <1>4, <1>5, <1>7 DEF CallSound
<1>9. UNCHANGED <<now, event>> /\ event' \in [SourceCall -> EventRow]
  BY <1>1 DEF Consume, SourceTypeOK
<1>10. QED
  BY <1>5, <1>6, <1>7, <1>8, <1>9, TurnAllowsNothing

\* Whoever was allowed before the locks were taken was sampled before.
LEMMA TakeLocksKeeps ==
    ASSUME SourceInv, NEW i \in SourceCall, TakeLocks(i)
    PROVE  SourceInv'
<1>1. SourceTypeOK /\ now \in Nat /\ CallSound(call[i]) /\ call[i].at = "waiting"
  BY DEF SourceInv, TakeLocks
<1> DEFINE x == [call[i] EXCEPT !.at = "locked", !.asked = 0, !.time = now]
<1>2. /\ x \in CallState /\ x.at = "locked" /\ x.time = now /\ x.day = call[i].day
      /\ x.allowed = call[i].allowed
  BY <1>1, CallOf DEF CallState
<1>3. CallTurn(i, x)
  BY <1>1 DEF TakeLocks, CallTurn, SourceTypeOK
<1> HIDE DEF x
<1>4. ~call[i].allowed
  BY <1>1 DEF CallSound
<1>5. PICK t \in Nat : /\ call[i].day = DayOf(t) /\ t <= call[i].asked + Skew
                       /\ call[i].asked <= t + Skew /\ call[i].asked <= now
  BY <1>1 DEF CallSound
<1>6. call[i].asked \in Nat /\ now <= call[i].asked + CallWait
  BY <1>1, CallOf DEF TakeLocks
<1>7. CallWait \in Nat /\ Skew \in Nat /\ StmtLag \in Nat
  BY SourceAssumption, ClockAssumption
<1>8. t <= now + Skew /\ now <= t + CallWait + Skew
  BY <1>1, <1>5, <1>6, <1>7
<1>9. Near(x.day, x.time)
  BY <1>2, <1>5, <1>8 DEF Near
<1>10. \A j \in Allowed : call[j].time <= now
  BY DEF SourceInv, CallSound, Allowed
<1>11. CallSound(x)
  BY <1>1, <1>2, <1>4, <1>7, <1>9, <1>10 DEF CallSound
<1>12. UNCHANGED <<now, event>> /\ event' \in [SourceCall -> EventRow] /\ LockFree(i)
  BY <1>1 DEF TakeLocks, SourceTypeOK
<1>13. QED
  BY <1>2, <1>3, <1>4, <1>11, <1>12, TurnAllowsNothing

\* Cleaning up removes what no window reaches.
LEMMA Cleaned ==
    ASSUME SourceTypeOK, now \in Nat,
           event' = [j \in SourceCall |->
               IF event[j].time <= now - Retention THEN NoEvent ELSE event[j]]
    PROVE  /\ event' \in [SourceCall -> EventRow]
           /\ \A j \in SourceCall : \/ event'[j] = event[j]
                                    \/ event[j].time <= now - Retention /\ ~event'[j].filed
<1>1. NoEvent \in EventRow /\ ~NoEvent.filed
  BY DEF NoEvent, EventRow
<1>2. QED
  BY <1>1 DEF SourceTypeOK

\* What is in the window is still filed, and in a bucket the call submits.
LEMMA WindowIsCounted ==
    ASSUME SourceInv, NEW i \in SourceCall, call[i].at = "locked"
    PROVE  WindowAt(call[i].time) \subseteq Counted(i) /\ Counted(i) \subseteq Allowed
<1>1. SourceTypeOK /\ now \in Nat /\ CallSound(call[i])
  BY DEF SourceInv
<1>2. /\ Near(call[i].day, call[i].time) /\ now <= call[i].time + StmtLag
      /\ call[i].time \in Nat /\ call[i].day \in Int
  BY <1>1, CallOf DEF CallSound
<1>3. /\ SourceWindow \in Nat /\ StmtLag \in Nat /\ Retention \in Int
      /\ SourceWindow + StmtLag <= Retention
  BY SourceAssumption, ClockAssumption
<1>4. ASSUME NEW j \in WindowAt(call[i].time)
      PROVE  j \in Counted(i)
  <2>1. /\ j \in SourceCall /\ call[j].allowed
        /\ call[j].time <= call[i].time /\ call[j].time > call[i].time - SourceWindow
    BY <1>4 DEF WindowAt, Allowed
  <2>2. EventSound(j) /\ call[j].time \in Nat /\ event[j].day \in Int
    BY <1>1, <2>1, CallOf DEF SourceInv
  <2>3. ~(call[j].time <= now - Retention)
    BY <1>1, <1>2, <1>3, <2>1, <2>2
  <2>4. event[j].filed /\ event[j].time = call[j].time /\ Near(event[j].day, call[j].time)
    BY <2>1, <2>2, <2>3 DEF EventSound
  <2>5. event[j].day \in {call[i].day - 1, call[i].day, call[i].day + 1}
    <3>1. call[i].time < call[j].time + SourceWindow
      BY <1>2, <1>3, <2>1, <2>2
    <3>2. QED
      BY <1>2, <2>1, <2>2, <2>4, <3>1, DaysMeet
  <2>6. QED
    BY <2>1, <2>4, <2>5 DEF Counted, Buckets
<1>5. ASSUME NEW j \in Counted(i) PROVE j \in Allowed
  <2>1. j \in SourceCall /\ event[j].filed
    BY <1>5 DEF Counted
  <2>2. EventSound(j)
    BY <2>1 DEF SourceInv
  <2>3. QED
    BY <2>1, <2>2 DEF EventSound, Allowed
<1>6. QED
  BY <1>4, <1>5

LEMMA CountEventsKeeps ==
    ASSUME SourceInv, NEW i \in SourceCall, CountEvents(i)
    PROVE  SourceInv'
<1>1. /\ SourceTypeOK /\ now \in Nat /\ CallSound(call[i]) /\ call[i].at = "locked"
      /\ IsFiniteSet(Allowed)
  BY DEF SourceInv, CountEvents
<1>2. PICK n : n = Cardinality(Counted(i))
  OBVIOUS
<1>3. WindowAt(call[i].time) \subseteq Counted(i) /\ Counted(i) \subseteq Allowed
  BY <1>1, WindowIsCounted
<1>4. IsFiniteSet(Counted(i)) /\ n \in Nat
  BY <1>1, <1>2, <1>3, Fewer
<1>5. Cardinality(WindowAt(call[i].time)) <= n
  BY <1>2, <1>3, <1>4, Fewer
<1> DEFINE x == [call[i] EXCEPT !.at = "counted", !.count = n]
<1>6. /\ x \in CallState /\ x.at = "counted" /\ x.count = n /\ x.time = call[i].time
      /\ x.day = call[i].day /\ x.allowed = call[i].allowed
  BY <1>1, <1>4, CallOf DEF CallState
<1>7. CallTurn(i, x)
  BY <1>1, <1>2 DEF CountEvents, CallTurn, SourceTypeOK
<1> HIDE DEF x
<1>8. ~call[i].allowed
  BY <1>1 DEF CallSound
<1>9. CallSound(x)
  BY <1>1, <1>5, <1>6, <1>8 DEF CallSound
<1>10. UNCHANGED now /\ Locking(i)
  BY <1>1 DEF CountEvents, Locking
<1>11. /\ event' \in [SourceCall -> EventRow]
       /\ \A j \in SourceCall : \/ event'[j] = event[j]
                                \/ event[j].time <= now - Retention /\ ~event'[j].filed
  BY <1>1, Cleaned DEF CountEvents
<1>12. QED
  BY <1>6, <1>7, <1>8, <1>9, <1>10, <1>11, TurnAllowsNothing

\* The end of a call.
Ended(i, b) == [NoCall EXCEPT !.at = "done", !.allowed = b, !.time = call[i].time]

LEMMA EndedIs ==
    ASSUME SourceTypeOK, NEW i \in SourceCall, NEW b \in BOOLEAN
    PROVE  /\ Ended(i, b) \in CallState
           /\ Ended(i, b).at = "done" /\ Ended(i, b).allowed = b
           /\ Ended(i, b).time = call[i].time
<1>1. PICK n \in Nat : n = call[i].time
  BY CallOf
<1>2. NoCall \in CallState
  BY DEF NoCall, CallState
<1>3. [NoCall EXCEPT !.at = "done"] \in CallState /\ [NoCall EXCEPT !.at = "done"].at = "done"
  BY <1>2 DEF CallState
<1>4. PICK x : x = [NoCall EXCEPT !.at = "done"]
  OBVIOUS
<1>5. /\ [x EXCEPT !.allowed = b, !.time = n] \in CallState
      /\ [x EXCEPT !.allowed = b, !.time = n].at = "done"
      /\ [x EXCEPT !.allowed = b, !.time = n].allowed = b
      /\ [x EXCEPT !.allowed = b, !.time = n].time = n
  BY <1>3, <1>4 DEF CallState
<1>6. Ended(i, b) = [x EXCEPT !.allowed = b, !.time = n]
  BY <1>1, <1>4 DEF Ended
<1>7. QED
  BY <1>1, <1>5, <1>6

LEMMA DecideTurn ==
    ASSUME SourceTypeOK, NEW i \in SourceCall, Decide(i), NEW b \in BOOLEAN,
           b <=> call[i].count < SourceLimit
    PROVE  CallTurn(i, Ended(i, b))
<1>1. b = (call[i].count < SourceLimit)
  OBVIOUS
<1>2. QED
  BY <1>1 DEF Decide, CallTurn, Ended

LEMMA RefusedKeeps ==
    ASSUME SourceInv, NEW i \in SourceCall, Decide(i), ~(call[i].count < SourceLimit)
    PROVE  SourceInv'
<1>1. SourceTypeOK /\ now \in Nat /\ CallSound(call[i]) /\ call[i].at = "counted"
  BY DEF SourceInv, Decide
<1>2. PICK x : x = Ended(i, FALSE)
  OBVIOUS
<1>3. x \in CallState /\ x.at = "done" /\ ~x.allowed
  BY <1>1, <1>2, EndedIs
<1>4. CallTurn(i, x)
  BY <1>1, <1>2, DecideTurn
<1>8. UNCHANGED <<now, event>>
  BY DEF Decide
<1>5. ~call[i].allowed
  BY <1>1 DEF CallSound
<1>6. CallSound(x) /\ event' \in [SourceCall -> EventRow]
  BY <1>1, <1>3, <1>8, <1>5 DEF CallSound, SourceTypeOK
<1>7. QED
  BY <1>3, <1>4, <1>8, <1>5, <1>6, TurnAllowsNothing

\* A call that is allowed is the latest of those that are, alone with its count.
LEMMA AllowedKeeps ==
    ASSUME SourceInv, NEW i \in SourceCall, Decide(i), call[i].count < SourceLimit
    PROVE  SourceInv'
<1>1. /\ SourceTypeOK /\ now \in Nat /\ CallSound(call[i]) /\ call[i].at = "counted"
      /\ IsFiniteSet(Allowed) /\ LocksApart
      /\ UNCHANGED now
  BY DEF SourceInv, Decide
<1>2. PICK x : x = Ended(i, TRUE)
  OBVIOUS
<1>3. PICK time : time = call[i].time
  OBVIOUS
<1>4. x \in CallState /\ x.at = "done" /\ x.allowed /\ x.time = time /\ time \in Nat
  BY <1>1, <1>2, <1>3, EndedIs, CallOf
<1>5. CallTurn(i, x)
  BY <1>1, <1>2, DecideTurn
<1>6. /\ call' \in [SourceCall -> CallState] /\ call'[i] = x
      /\ \A j \in SourceCall \ {i} : call'[j] = call[j]
  BY <1>1, <1>4, <1>5, CallTurned
<1>7. /\ ~call[i].allowed /\ Near(call[i].day, time) /\ time <= now
      /\ \A j \in Allowed : call[j].time <= time
      /\ Cardinality(WindowAt(time)) <= call[i].count
  BY <1>1, <1>3 DEF CallSound
<1>8. Allowed' = Allowed \cup {i} /\ i \notin Allowed /\ IsFiniteSet(Allowed')
  <2>1. Allowed' = Allowed \cup {i} /\ i \notin Allowed
    BY <1>4, <1>6, <1>7 DEF Allowed
  <2>2. QED
    BY <1>1, <2>1, FS_AddElement
<1>9. ASSUME NEW j \in Allowed PROVE call'[j] = call[j] /\ call[j].time \in Nat
  BY <1>1, <1>6, <1>8, CallOf DEF Allowed
<1>10. Cardinality(WindowAt(time)') <= SourceLimit
  <2>1. WindowAt(time)' \subseteq WindowAt(time) \cup {i}
    BY <1>8, <1>9 DEF WindowAt
  <2>2. WindowAt(time) \subseteq Allowed
    BY DEF WindowAt
  <2>3. /\ IsFiniteSet(WindowAt(time)) /\ Cardinality(WindowAt(time)) \in Nat
        /\ call[i].count \in Nat /\ SourceLimit \in Nat
    BY <1>1, <2>2, Fewer, CallOf, SourceAssumption
  <2>4. Cardinality(WindowAt(time)) < SourceLimit
    BY <1>7, <2>3
  <2>5. QED
    BY <2>1, <2>3, <2>4, OneMore
<1>11. ASSUME NEW t \in Nat, t < time
       PROVE  WindowAt(t)' = WindowAt(t)
  <2>1. ~(x.time <= t)
    BY <1>4, <1>11
  <2>2. QED
    BY <1>6, <1>8, <1>9, <2>1 DEF WindowAt
<1>12. ASSUME NEW j \in SourceCall PROVE CallSound(call[j])'
  <2>1. CASE j = i
    <3>1. CallSound(x)'
      BY <1>1, <1>4, <1>7, <1>10 DEF CallSound
    <3>2. QED
      BY <1>6, <2>1, <3>1 DEF CallSound
  <2>2. CASE j # i
    <3>1. PICK y : y = call[j]
      OBVIOUS
    <3>2. /\ CallSound(y) /\ y.at \notin {"locked", "counted"} /\ y.time \in Nat
          /\ y.allowed \in BOOLEAN
      BY <1>1, <2>2, <3>1, CallOf DEF SourceInv, LocksApart, Locking
    <3>3. CASE ~y.allowed
      <4>1. CallSound(y)'
        BY <1>1, <3>2, <3>3 DEF CallSound
      <4>2. QED
        BY <1>6, <2>2, <3>1, <4>1 DEF CallSound
    <3>4. CASE y.allowed
      <4>1. y.time <= time
        BY <1>7, <3>1, <3>4 DEF Allowed
      <4>2. Cardinality(WindowAt(y.time)') <= SourceLimit
        <5>1. CASE y.time = time
          BY <1>10, <5>1
        <5>2. CASE y.time < time
          BY <1>11, <3>2, <3>4, <5>2 DEF CallSound
        <5>3. QED
          BY <1>4, <3>2, <4>1, <5>1, <5>2
      <4>3. CallSound(y)'
        BY <1>1, <3>2, <3>4, <4>2 DEF CallSound
      <4>4. QED
        BY <1>6, <2>2, <3>1, <4>3 DEF CallSound
    <3>5. QED
      BY <3>2, <3>3, <3>4
  <2>3. QED
    BY <2>1, <2>2
<1> DEFINE e == [filed |-> TRUE, day |-> call[i].day, time |-> call[i].time]
<1>13. /\ e \in EventRow /\ e.filed /\ e.day = call[i].day /\ e.time = time
  BY <1>1, <1>3, CallOf DEF EventRow
<1>14. event' = [event EXCEPT ![i] = e]
  BY DEF Decide
<1> HIDE DEF e
<1>15. /\ event' \in [SourceCall -> EventRow] /\ event'[i] = e
       /\ \A j \in SourceCall \ {i} : event'[j] = event[j]
  BY <1>1, <1>13, <1>14 DEF SourceTypeOK
<1>16. ASSUME NEW j \in SourceCall PROVE EventSound(j)'
  <2>1. \A d, t : Near(d, t)' <=> Near(d, t)
    BY DEF Near
  <2>2. CASE j = i
    BY <1>4, <1>6, <1>7, <1>13, <1>15, <2>1, <2>2 DEF EventSound
  <2>3. CASE j # i
    <3>1. EventSound(j)
      BY DEF SourceInv
    <3>2. QED
      BY <1>1, <1>6, <1>15, <2>1, <2>3, <3>1 DEF EventSound
  <2>4. QED
    BY <2>2, <2>3
<1>17. LocksApart'
  BY <1>1, <1>4, <1>6 DEF LocksApart, Locking
<1>18. QED
  BY <1>1, <1>6, <1>8, <1>12, <1>15, <1>16, <1>17 DEF SourceInv, SourceTypeOK

-----------------------------------------------------------------------------
(* Steps of no call *)

LEMMA NoTurnKeeps ==
    ASSUME SourceInv, UNCHANGED call, now' \in Nat, now <= now',
           \A i \in SourceCall : call[i].at = "locked" => now' <= call[i].time + StmtLag,
           event' \in [SourceCall -> EventRow],
           \A j \in SourceCall : \/ event'[j] = event[j]
                                 \/ event[j].time <= now - Retention /\ ~event'[j].filed
    PROVE  SourceInv'
<1>1. /\ SourceTypeOK /\ now \in Nat /\ LocksApart /\ IsFiniteSet(Allowed)
      /\ Retention \in Int
  BY SourceAssumption, ClockAssumption DEF SourceInv
<1>2. AllowedSame
  BY DEF AllowedSame, Allowed
<1>3. ASSUME NEW j \in SourceCall PROVE CallSound(call[j])'
  <2>1. PICK y : y = call[j]
    OBVIOUS
  <2>2. y \in CallState /\ CallSound(y) /\ (y.at = "locked" => now' <= y.time + StmtLag)
    BY <1>1, <2>1, CallOf DEF SourceInv
  <2>3. CallSound(y)'
    BY <1>2, <2>2, CallSame
  <2>4. QED
    BY <2>1, <2>3 DEF CallSound
<1>4. ASSUME NEW j \in SourceCall PROVE EventSound(j)'
  <2>1. /\ EventSound(j) /\ event[j].time \in Nat /\ call[j].time \in Nat
        /\ \A d, t : Near(d, t)' <=> Near(d, t)
    BY <1>1, CallOf DEF SourceInv, Near
  <2>2. call[j].time <= now - Retention => call[j].time <= now' - Retention
    BY <1>1, <2>1
  <2>3. CASE event'[j] = event[j]
    BY <2>1, <2>2, <2>3 DEF EventSound
  <2>4. CASE event[j].time <= now - Retention /\ ~event'[j].filed
    BY <2>1, <2>2, <2>4 DEF EventSound
  <2>5. QED
    BY <2>3, <2>4
<1>5. SourceTypeOK' /\ LocksApart' /\ IsFiniteSet(Allowed)'
  BY <1>1, <1>2 DEF SourceTypeOK, LocksApart, Locking, AllowedSame
<1>6. QED
  BY <1>3, <1>4, <1>5 DEF SourceInv

LEMMA SourceTickKeeps == ASSUME SourceInv, SourceTick PROVE SourceInv'
<1>1. /\ UNCHANGED <<call, event>> /\ now' = now + 1 /\ now \in Nat /\ SourceTypeOK
  BY DEF SourceTick, Tick, SourceInv
<1>2. ASSUME NEW i \in SourceCall, call[i].at = "locked"
      PROVE  now' <= call[i].time + StmtLag
  <2>1. now < call[i].time + StmtLag /\ call[i].time \in Nat /\ StmtLag \in Nat
    BY <1>1, <1>2, CallOf, ClockAssumption DEF SourceTick
  <2>2. QED
    BY <1>1, <2>1
<1>3. event' \in [SourceCall -> EventRow]
  BY <1>1 DEF SourceTypeOK
<1>4. QED
  BY <1>1, <1>2, <1>3, NoTurnKeeps

LEMMA CleanupKeeps == ASSUME SourceInv, CleanupExpired PROVE SourceInv'
<1>1. /\ UNCHANGED <<now, call>> /\ now \in Nat /\ SourceTypeOK
      /\ \A i \in SourceCall : call[i].at = "locked" => now <= call[i].time + StmtLag
  BY DEF CleanupExpired, SourceInv, CallSound
<1>2. /\ event' \in [SourceCall -> EventRow]
      /\ \A j \in SourceCall : \/ event'[j] = event[j]
                               \/ event[j].time <= now - Retention /\ ~event'[j].filed
  BY <1>1, Cleaned DEF CleanupExpired
<1>3. QED
  BY <1>1, <1>2, NoTurnKeeps

-----------------------------------------------------------------------------
(* Theorems *)

LEMMA SourceInitInv == SourceInit => SourceInv
<1> SUFFICES ASSUME SourceInit PROVE SourceInv
  OBVIOUS
<1>1. NoCall \in CallState /\ NoCall.at = "idle" /\ ~NoCall.allowed
  BY DEF NoCall, CallState
<1>2. NoEvent \in EventRow /\ ~NoEvent.filed
  BY DEF NoEvent, EventRow
<1>3. /\ SourceTypeOK /\ now = 0
      /\ \A i \in SourceCall : call[i] = NoCall /\ event[i] = NoEvent
  BY <1>1, <1>2 DEF SourceInit, ClockInit, SourceTypeOK
<1>4. Allowed = {} /\ IsFiniteSet(Allowed)
  <2>1. Allowed = {}
    BY <1>1, <1>3 DEF Allowed
  <2>2. QED
    BY <2>1, FS_EmptySet
<1>5. \A i \in SourceCall : CallSound(call[i]) /\ EventSound(i) /\ ~Locking(i)
  BY <1>1, <1>2, <1>3 DEF CallSound, EventSound, Locking
<1>6. QED
  BY <1>3, <1>4, <1>5 DEF SourceInv, LocksApart

LEMMA SourceNextInv == SourceInv /\ [SourceNext]_sourceVars => SourceInv'
<1> SUFFICES ASSUME SourceInv, [SourceNext]_sourceVars PROVE SourceInv'
  OBVIOUS
<1>1. ASSUME NEW i \in SourceCall, Consume(i) \/ TakeLocks(i) \/ CountEvents(i) \/ Decide(i)
      PROVE  SourceInv'
  BY <1>1, ConsumeKeeps, TakeLocksKeeps, CountEventsKeeps, RefusedKeeps, AllowedKeeps
<1>2. CASE UNCHANGED sourceVars
  <2>1. UNCHANGED <<now, call, event>> /\ now \in Nat
    BY <1>2 DEF sourceVars, SourceInv
  <2>2. /\ \A i \in SourceCall : call[i].at = "locked" => now <= call[i].time + StmtLag
        /\ event' \in [SourceCall -> EventRow]
    BY <2>1 DEF SourceInv, CallSound, SourceTypeOK
  <2>3. QED
    BY <2>1, <2>2, NoTurnKeeps
<1>3. QED
  BY <1>1, <1>2, SourceTickKeeps, CleanupKeeps DEF SourceNext

\* The calls of a source and their events keep their types.
THEOREM SourceTyped == SourceSpec => []SourceTypeOK
<1>1. SourceInv => SourceTypeOK
  BY DEF SourceInv
<1>2. QED
  BY <1>1, SourceInitInv, SourceNextInv, PTL DEF SourceSpec

\* However calls of a source overlap around any number of midnights, no window
\* holds more of them than the limit: each counts all the events its window still
\* reaches, in whichever bucket, under a lock that keeps the next one out.
THEOREM SourceWindowTheorem == SourceSpec => []SourceWindowHolds
<1>1. SourceInv => SourceWindowHolds
  <2>1. ASSUME SourceInv, NEW i \in SourceCall, call[i].allowed
        PROVE  Cardinality({j \in SourceCall :
                   /\ call[j].allowed
                   /\ call[j].time <= call[i].time
                   /\ call[j].time > call[i].time - SourceWindow}) <= SourceLimit
    <3>1. {j \in SourceCall :
                   /\ call[j].allowed
                   /\ call[j].time <= call[i].time
                   /\ call[j].time > call[i].time - SourceWindow} = WindowAt(call[i].time)
      BY DEF WindowAt, Allowed
    <3>2. Cardinality(WindowAt(call[i].time)) <= SourceLimit
      BY <2>1 DEF SourceInv, CallSound
    <3>3. QED
      BY <3>1, <3>2
  <2>2. QED
    BY <2>1 DEF SourceWindowHolds
<1>2. QED
  BY <1>1, SourceInitInv, SourceNextInv, PTL DEF SourceSpec

-----------------------------------------------------------------------------
(***************************************************************************)
(* One session of each invitation, opened under the rules its challenge was *)
(* prepared with.  The argument: whoever has locked a challenge is alone    *)
(* with it and finds it not consumed; a session leaves its challenge and    *)
(* its token consumed for good; and what a challenge is bound to never      *)
(* changes.                                                                 *)
(***************************************************************************)

Active == {"resolved", "locked", "consumed"}
Holds(r) == entry[r].at \in {"locked", "consumed"}

\* A challenge that exists satisfies the rules of its release; one that does not
\* was never guessed at.
ChallengesSound == \A c \in Challenge :
    IF challenge[c].at = "absent" THEN guesses[c] = 0
    ELSE /\ Mode[challenge[c].release] = "invite" => challenge[c].token # NoToken
         /\ Mode[challenge[c].release] = "open-qr" => challenge[c].token = NoToken
         /\ challenge[c].release \in Verified => challenge[c].verification

\* A request under way has a challenge, and reaches its end by the way of its kind.
RequestsSound == \A r \in EntryRequest : entry[r].at \in Active =>
    LET c == entry[r].challenge IN
    /\ c \in Challenge
    /\ challenge[c].at # "absent"
    /\ entry[r].selection \in Selection
    /\ session[r] = NoSession
    /\ entry[r].at = "locked" => entry[r].kind = "verify" /\ challenge[c].failures < MaxFailures
    /\ entry[r].at = "consumed" =>
         \/ entry[r].kind = "advance" /\ ~challenge[c].verification
         \/ entry[r].kind = "verify" /\ entry[r].evidence
    /\ Holds(r) => challenge[c].at # "consumed"

\* A locked challenge has one holder.
LocksExclusive == \A r, s \in EntryRequest :
    r # s /\ Holds(r) /\ Holds(s) => entry[r].challenge # entry[s].challenge

\* A session keeps what it was made of consumed.
SessionsSound == \A r \in EntryRequest : session[r] # NoSession =>
    LET s == session[r] IN
    /\ s \in SessionRow
    /\ entry[r].at = "done"
    /\ challenge[s.challenge].at = "consumed"
    /\ s.token = challenge[s.challenge].token
    /\ s.release = challenge[s.challenge].release
    /\ s.token # NoToken => token[s.token] = "consumed"
    /\ s.release \in Verified => entry[r].kind = "verify" /\ entry[r].evidence

SessionsApart == \A r, s \in EntryRequest :
    r # s /\ session[r] # NoSession /\ session[s] # NoSession =>
        /\ session[r].challenge # session[s].challenge
        /\ session[r].token = session[s].token => session[r].token = NoToken

\* A wrong guess is a counted failure, but for one that met the challenge's end.
GuessesCounted == \A c \in Challenge :
    \/ guesses[c] <= challenge[c].failures
    \/ /\ guesses[c] <= challenge[c].failures + 1
       /\ challenge[c].failures < MaxFailures
       /\ challenge[c].at # "live"
       /\ \A r \in EntryRequest : entry[r].at = "locked" => entry[r].challenge # c

EntryInv == /\ EntryTypeOK
            /\ ChallengesSound
            /\ RequestsSound
            /\ LocksExclusive
            /\ SessionsSound
            /\ SessionsApart
            /\ GuessesCounted

-----------------------------------------------------------------------------
LEMMA NoChallengeTyped == NoChallenge \in ChallengeRow
<1>1. (CHOOSE r \in EntryRelease : TRUE) \in EntryRelease
  BY EntryAssumption
<1> QED  BY <1>1, EntryAssumption DEF NoChallenge, ChallengeRow

\* Initially there is no challenge, no request and no session.
LEMMA EntryInvInit == EntryInit => EntryInv
<1> SUFFICES ASSUME EntryInit PROVE EntryInv
  OBVIOUS
<1>1. NoRequest \in RequestState
  BY DEF NoRequest, RequestState, EntryReply
<1>2. EntryTypeOK
  BY <1>1, NoChallengeTyped DEF EntryInit, EntryTypeOK
<1>3. \A c \in Challenge : challenge[c].at = "absent" /\ guesses[c] = 0
                           /\ challenge[c].failures = 0
  BY DEF EntryInit, NoChallenge
<1>4. \A r \in EntryRequest : entry[r].at = "idle" /\ session[r] = NoSession
  BY DEF EntryInit, NoRequest
<1> QED
  BY <1>2, <1>3, <1>4 DEF EntryInv, ChallengesSound, RequestsSound, LocksExclusive,
     SessionsSound, SessionsApart, GuessesCounted, Holds, Active

-----------------------------------------------------------------------------
(* The steps that change no session and no token. *)

\* An answered request holds nothing and has no session.
LEMMA AnsweredTyped ==
    ASSUME EntryTypeOK, NEW r \in EntryRequest, NEW answer \in EntryReply,
           Answered(r, answer)
    PROVE  /\ entry' \in [EntryRequest -> RequestState]
           /\ entry'[r].at = "done" /\ entry'[r].kind = entry[r].kind
           /\ entry'[r].evidence = entry[r].evidence
           /\ \A s \in EntryRequest \ {r} : entry'[s] = entry[s]
<1> DEFINE ended == [entry EXCEPT ![r].at = "done"]
<1>1. /\ ended \in [EntryRequest -> RequestState]
      /\ ended[r].at = "done" /\ ended[r].kind = entry[r].kind
      /\ ended[r].evidence = entry[r].evidence
      /\ \A s \in EntryRequest \ {r} : ended[s] = entry[s]
  BY DEF EntryTypeOK, RequestState
<1>2. entry' = [ended EXCEPT ![r].reply = answer]
  BY DEF Answered
<1> HIDE DEF ended
<1> QED  BY <1>1, <1>2 DEF RequestState

\* A request that ends without a session leaves everything else as it was.
LEMMA AnsweredKeeps ==
    ASSUME EntryInv, NEW r \in EntryRequest, NEW answer \in EntryReply,
           Answered(r, answer), session[r] = NoSession,
           UNCHANGED <<live, token, challenge, session, guesses>>
    PROVE  EntryInv'
<1> USE AnsweredTyped DEF EntryInv
<1>1. EntryTypeOK'
  BY DEF EntryTypeOK
<1>2. ChallengesSound' /\ SessionsApart'
  BY DEF ChallengesSound, SessionsApart
<1>3. RequestsSound'
  BY DEF RequestsSound, Active, Holds
<1>4. LocksExclusive'
  BY DEF LocksExclusive, Holds
<1>5. SessionsSound'
  BY DEF SessionsSound
<1>6. GuessesCounted'
  BY DEF GuessesCounted
<1> QED  BY <1>1, <1>2, <1>3, <1>4, <1>5, <1>6

\* A request that takes the lock of a live challenge is alone with it.
LEMMA LockedKeeps ==
    ASSUME EntryInv, NEW r \in EntryRequest, NEW at \in {"locked", "consumed"},
           entry' = [entry EXCEPT ![r].at = at],
           entry[r].at \in Active,
           challenge[entry[r].challenge].at = "live",
           Unlocked(entry[r].challenge) \/ Holds(r),
           at = "locked" => /\ entry[r].kind = "verify"
                            /\ challenge[entry[r].challenge].failures < MaxFailures,
           at = "consumed" =>
               \/ entry[r].kind = "advance" /\ ~challenge[entry[r].challenge].verification
               \/ entry[r].kind = "verify" /\ entry[r].evidence,
           UNCHANGED <<live, token, challenge, session, guesses>>
    PROVE  EntryInv'
<1> USE DEF EntryInv
<1>1. /\ entry' \in [EntryRequest -> RequestState]
      /\ entry'[r].at = at /\ entry'[r].kind = entry[r].kind
      /\ entry'[r].evidence = entry[r].evidence
      /\ entry'[r].selection = entry[r].selection
      /\ entry'[r].challenge = entry[r].challenge
      /\ \A s \in EntryRequest \ {r} : entry'[s] = entry[s]
  BY DEF EntryTypeOK, RequestState
<1>2. EntryTypeOK'
  BY <1>1 DEF EntryTypeOK
<1>3. ChallengesSound' /\ SessionsApart'
  BY DEF ChallengesSound, SessionsApart
<1>4. RequestsSound'
  BY <1>1 DEF RequestsSound, Active, Holds
<1>5. LocksExclusive'
  BY <1>1 DEF LocksExclusive, Holds, Unlocked
<1>6. SessionsSound'
  BY <1>1 DEF SessionsSound, Active
<1>7. GuessesCounted'
  BY <1>1 DEF GuessesCounted
<1> QED  BY <1>2, <1>3, <1>4, <1>5, <1>6, <1>7
-----------------------------------------------------------------------------
(* The steps one by one *)

LEMMA PrepareKeeps ==
    ASSUME EntryInv, NEW c \in Challenge, NEW t \in Token \cup {NoToken},
           NEW release \in EntryRelease, PrepareChallenge(c, t, release)
    PROVE  EntryInv'
<1> USE DEF EntryInv, PrepareChallenge
<1> DEFINE verified == release \in Verified /\ t # NoToken
           row == [NoChallenge EXCEPT !.at = "live", !.token = t, !.release = release,
                                      !.verification = verified]
<1>1. /\ row \in ChallengeRow
      /\ row.at = "live" /\ row.token = t /\ row.release = release
      /\ row.verification = verified /\ row.failures = 0
  <2>1. verified \in BOOLEAN
    OBVIOUS
  <2> HIDE DEF verified
  <2> QED  BY <2>1, NoChallengeTyped DEF ChallengeRow, NoChallenge
<1>2. challenge' = [challenge EXCEPT ![c] = row]
  OBVIOUS
<1>3. guesses[c] = 0
  BY DEF ChallengesSound
<1>4. /\ Mode[release] = "invite" => t # NoToken
      /\ Mode[release] = "open-qr" => t = NoToken
      /\ release \in Verified => verified
  BY DEF Admissible
<1> HIDE DEF row, verified
<1> USE DEF EntryTypeOK
<1>5. challenge'[c] = row /\ \A d \in Challenge \ {c} : challenge'[d] = challenge[d]
  BY <1>2
<1>6. EntryTypeOK'
  BY <1>1, <1>2
<1>7. ChallengesSound'
  BY <1>1, <1>4, <1>5 DEF ChallengesSound
<1>8. RequestsSound'
  BY <1>1, <1>5 DEF RequestsSound, Holds
<1>9. LocksExclusive' /\ SessionsApart'
  BY DEF LocksExclusive, SessionsApart, Holds
<1>10. SessionsSound'
  BY <1>5 DEF SessionsSound, SessionRow
<1>11. GuessesCounted'
  <2>1. UNCHANGED <<guesses, entry>>
    OBVIOUS
  <2>2. guesses'[c] <= challenge'[c].failures
    <3>1. guesses'[c] = 0 /\ challenge'[c].failures = 0
      BY <1>1, <1>3, <1>5, <2>1
    <3> HIDE DEF PrepareChallenge, EntryTypeOK, EntryInv
    <3> QED  BY <3>1
  <2> HIDE DEF PrepareChallenge, EntryTypeOK
  <2> QED  BY <1>5, <2>1, <2>2 DEF GuessesCounted
<1> QED  BY <1>6, <1>7, <1>8, <1>9, <1>10, <1>11

LEMMA ResolveKeeps ==
    ASSUME EntryInv, NEW r \in EntryRequest, Resolve(r)
    PROVE  EntryInv'
<1> USE DEF EntryInv, Resolve
<1>1. PICK c \in Challenge, chosen \in Selection, right \in BOOLEAN,
           kind \in {"advance", "verify"} :
        /\ challenge[c].at = "live"
        /\ entry' = [entry EXCEPT
              ![r] = [kind |-> kind, at |-> "resolved", challenge |-> c,
                      selection |-> chosen, evidence |-> right, reply |-> "none"]]
  BY DEF Resolvable
<1>2. /\ entry'[r].at = "resolved" /\ entry'[r].challenge = c
      /\ entry'[r].selection = chosen
      /\ \A s \in EntryRequest \ {r} : entry'[s] = entry[s]
  BY <1>1 DEF EntryTypeOK
<1>3. EntryTypeOK'
  BY <1>1 DEF EntryTypeOK, RequestState, EntryReply
<1>4. session[r] = NoSession
  BY DEF SessionsSound
<1>5. ChallengesSound' /\ SessionsApart'
  BY DEF ChallengesSound, SessionsApart
<1>6. RequestsSound'
  BY <1>1, <1>2, <1>4 DEF RequestsSound, Active, Holds
<1>7. LocksExclusive'
  BY <1>2 DEF LocksExclusive, Holds
<1>8. SessionsSound'
  BY <1>2, <1>4 DEF SessionsSound
<1>9. GuessesCounted'
  BY <1>2 DEF GuessesCounted
<1> QED  BY <1>3, <1>5, <1>6, <1>7, <1>8, <1>9

\* The challenge of an unlocked request changes in its selection only.
LEMMA PendingKeeps ==
    ASSUME EntryInv, NEW r \in EntryRequest, AdvancePending(r)
    PROVE  EntryInv'
<1> USE DEF EntryInv, AdvancePending
<1>1. session[r] = NoSession /\ entry[r].challenge \in Challenge
      /\ entry[r].selection \in Selection
  BY DEF RequestsSound, Active
<1>2. CASE UNCHANGED challenge
  BY <1>1, <1>2, AnsweredKeeps DEF EntryReply
<1>3. CASE challenge[entry[r].challenge].at = "live"
           /\ challenge[entry[r].challenge].failures < MaxFailures
  <2> DEFINE c == entry[r].challenge
  <2>1. /\ challenge' \in [Challenge -> ChallengeRow]
        /\ \A d \in Challenge : /\ challenge'[d].at = challenge[d].at
                                /\ challenge'[d].token = challenge[d].token
                                /\ challenge'[d].release = challenge[d].release
                                /\ challenge'[d].verification = challenge[d].verification
                                /\ challenge'[d].failures = challenge[d].failures
    BY <1>1, <1>3 DEF EntryTypeOK, ChallengeRow
  <2>2. Answered(r, "verification-required")
    BY <1>3
  <2>3. /\ entry' \in [EntryRequest -> RequestState]
        /\ entry'[r].at = "done" /\ entry'[r].kind = entry[r].kind
        /\ entry'[r].evidence = entry[r].evidence
        /\ \A s \in EntryRequest \ {r} : entry'[s] = entry[s]
    BY <2>2, AnsweredTyped DEF EntryReply
  <2>4. EntryTypeOK'
    BY <2>1, <2>3 DEF EntryTypeOK
  <2>5. ChallengesSound' /\ SessionsApart'
    BY <2>1 DEF ChallengesSound, SessionsApart
  <2>6. RequestsSound'
    BY <2>1, <2>3 DEF RequestsSound, Active, Holds
  <2>7. LocksExclusive'
    BY <2>3 DEF LocksExclusive, Holds
  <2>8. SessionsSound'
    BY <1>1, <2>1, <2>3 DEF SessionsSound, SessionRow
  <2>9. GuessesCounted'
    BY <2>1, <2>3 DEF GuessesCounted
  <2> QED  BY <2>4, <2>5, <2>6, <2>7, <2>8, <2>9
<1> QED  BY <1>2, <1>3

\* A wrong guess is counted while the challenge is live; the guesser was alone
\* with it, and leaves it.
LEMMA WrongKeeps ==
    ASSUME EntryInv, NEW r \in EntryRequest, VerifyWrong(r)
    PROVE  EntryInv'
<1> USE DEF EntryInv, VerifyWrong
<1> DEFINE c == entry[r].challenge
<1>1. /\ c \in Challenge /\ session[r] = NoSession
      /\ challenge[c].at # "absent" /\ challenge[c].failures < MaxFailures
  BY DEF RequestsSound, Active
<1>2. guesses' = [guesses EXCEPT ![c] = @ + 1]
  OBVIOUS
<1>3. guesses[c] <= challenge[c].failures
  BY <1>1 DEF GuessesCounted
<1>4. /\ entry' \in [EntryRequest -> RequestState]
      /\ entry'[r].at = "done" /\ entry'[r].kind = entry[r].kind
      /\ entry'[r].evidence = entry[r].evidence
      /\ \A s \in EntryRequest \ {r} : entry'[s] = entry[s]
  BY AnsweredTyped DEF EntryReply
<1>5. /\ challenge' \in [Challenge -> ChallengeRow]
      /\ \A d \in Challenge : /\ challenge'[d].at = challenge[d].at
                              /\ challenge'[d].token = challenge[d].token
                              /\ challenge'[d].release = challenge[d].release
                              /\ challenge'[d].verification = challenge[d].verification
      /\ \A d \in Challenge \ {c} : challenge'[d].failures = challenge[d].failures
      /\ \/ challenge'[c].failures = challenge[c].failures + 1
         \/ challenge'[c].failures = challenge[c].failures /\ challenge[c].at # "live"
  <2>1. CASE challenge' = [challenge EXCEPT ![c].failures = @ + 1]
    <3>1. challenge[c].failures + 1 \in 0..MaxFailures
      BY <1>1, EntryAssumption DEF EntryTypeOK, ChallengeRow
    <3> QED  BY <1>1, <2>1, <3>1 DEF EntryTypeOK, ChallengeRow
  <2>2. CASE UNCHANGED challenge /\ challenge[c].at # "live"
    BY <2>2 DEF EntryTypeOK
  <2> QED  BY <1>1, <2>1, <2>2
<1>6. \A s \in EntryRequest \ {r} : entry[s].at = "locked" => entry[s].challenge # c
  BY DEF LocksExclusive, Holds
<1> HIDE DEF c, VerifyWrong
<1>7. UNCHANGED <<live, token, session>> /\ entry[r].at = "locked" /\ c = entry[r].challenge
  BY DEF VerifyWrong, c
<1>8. EntryTypeOK'
  <2>1. guesses' \in [Challenge -> Nat]
    BY <1>1, <1>2 DEF EntryTypeOK
  <2> QED  BY <1>4, <1>5, <1>7, <2>1 DEF EntryTypeOK
<1>9. ChallengesSound'
  BY <1>1, <1>2, <1>5 DEF ChallengesSound, EntryTypeOK
<1>10. RequestsSound'
  BY <1>4, <1>5, <1>6, <1>7 DEF RequestsSound, Active, Holds
<1>11. LocksExclusive'
  BY <1>4 DEF LocksExclusive, Holds
<1>12. SessionsSound' /\ SessionsApart'
  BY <1>1, <1>4, <1>5, <1>7 DEF SessionsSound, SessionsApart, SessionRow
<1>13. GuessesCounted'
  <2> SUFFICES ASSUME NEW d \in Challenge
               PROVE  \/ guesses'[d] <= challenge'[d].failures
                      \/ /\ guesses'[d] <= challenge'[d].failures + 1
                         /\ challenge'[d].failures < MaxFailures
                         /\ challenge'[d].at # "live"
                         /\ \A s \in EntryRequest :
                              entry'[s].at = "locked" => entry'[s].challenge # d
    BY DEF GuessesCounted
  <2>1. CASE d = c
    <3>1. guesses'[c] = guesses[c] + 1 /\ guesses[c] \in Nat /\ challenge[c].failures \in Nat
      BY <1>1, <1>2 DEF EntryTypeOK, ChallengeRow
    <3>2. \A s \in EntryRequest : entry'[s].at = "locked" => entry'[s].challenge # c
      BY <1>4, <1>6
    <3> QED  BY <1>1, <1>3, <1>5, <2>1, <3>1, <3>2
  <2>2. CASE d # c
    BY <1>2, <1>4, <1>5, <2>2 DEF GuessesCounted, EntryTypeOK
  <2> QED  BY <2>1, <2>2
<1> QED  BY <1>8, <1>9, <1>10, <1>11, <1>12, <1>13

\* A session is opened by the challenge's only holder, of a challenge and a
\* token nobody consumed.
LEMMA AdmitKeeps ==
    ASSUME EntryInv, NEW r \in EntryRequest, Admit(r)
    PROVE  EntryInv'
<1> DEFINE c == entry[r].challenge
           t == challenge[c].token
           made == [challenge |-> c, token |-> t, release |-> challenge[c].release,
                    selection |-> entry[r].selection]
<1> USE DEF EntryInv
<1>1. /\ c \in Challenge /\ session[r] = NoSession /\ entry[r].at = "consumed"
      /\ challenge[c].at \notin {"absent", "consumed"}
      /\ entry[r].selection \in Selection
      /\ \/ entry[r].kind = "advance" /\ ~challenge[c].verification
         \/ entry[r].kind = "verify" /\ entry[r].evidence
  BY DEF RequestsSound, Active, Holds, Admit
<1>2. CASE ~Consumable(t)
  BY <1>1, <1>2, AnsweredKeeps DEF Admit, EntryReply
<1>3. CASE Consumable(t)
  <2>1. /\ challenge' = [challenge EXCEPT ![c].at = "consumed"]
        /\ token' = [u \in Token |-> IF u = t THEN "consumed" ELSE token[u]]
        /\ session' = [session EXCEPT ![r] = made]
        /\ Answered(r, "admitted")
        /\ UNCHANGED <<live, guesses>>
    BY <1>3 DEF Admit, PinnedRelease, Chosen
  <2>2. /\ challenge' \in [Challenge -> ChallengeRow]
        /\ challenge'[c].at = "consumed"
        /\ \A d \in Challenge \ {c} : challenge'[d] = challenge[d]
        /\ \A d \in Challenge : /\ challenge'[d].token = challenge[d].token
                                /\ challenge'[d].release = challenge[d].release
                                /\ challenge'[d].verification = challenge[d].verification
                                /\ challenge'[d].failures = challenge[d].failures
    BY <1>1, <2>1 DEF EntryTypeOK, ChallengeRow
  <2>3. /\ entry' \in [EntryRequest -> RequestState]
        /\ entry'[r].at = "done" /\ entry'[r].kind = entry[r].kind
        /\ entry'[r].evidence = entry[r].evidence
        /\ \A s \in EntryRequest \ {r} : entry'[s] = entry[s]
    BY <2>1, AnsweredTyped DEF EntryReply
  <2>4. /\ made \in SessionRow /\ made.challenge = c /\ made.token = t
        /\ made.release = challenge[c].release
    BY <1>1 DEF SessionRow, EntryTypeOK, ChallengeRow
  <2>5. session'[r] = made /\ \A s \in EntryRequest \ {r} : session'[s] = session[s]
    BY <2>1 DEF EntryTypeOK
  <2>6. /\ \A u \in Token : token[u] = "consumed" => token'[u] = "consumed"
        /\ t # NoToken => token'[t] = "consumed" /\ token[t] = "live"
        /\ token' \in [Token -> {"live", "consumed", "expired"}]
    BY <1>1, <1>3, <2>1 DEF Consumable, EntryTypeOK, ChallengeRow
  <2>7. \A s \in EntryRequest \ {r} : Holds(s) => entry[s].challenge # c
    BY <1>1 DEF LocksExclusive, Holds
  <2>8. challenge[c].release \in Verified => entry[r].kind = "verify" /\ entry[r].evidence
    BY <1>1 DEF ChallengesSound
  <2>9. UNCHANGED <<live, guesses>>
    BY <2>1
  <2> HIDE DEF made, t, c
  <2>10. EntryTypeOK'
    BY <2>1, <2>2, <2>3, <2>4, <2>6 DEF EntryTypeOK
  <2>11. ChallengesSound'
    BY <1>1, <2>2, <2>9 DEF ChallengesSound
  <2>12. RequestsSound'
    BY <2>2, <2>3, <2>5, <2>7 DEF RequestsSound, Active, Holds
  <2>13. LocksExclusive'
    BY <2>3 DEF LocksExclusive, Holds
  <2>14. SessionsSound'
    <3> SUFFICES ASSUME NEW s \in EntryRequest, session'[s] # NoSession
                 PROVE  /\ session'[s] \in SessionRow
                        /\ entry'[s].at = "done"
                        /\ challenge'[session'[s].challenge].at = "consumed"
                        /\ session'[s].token = challenge'[session'[s].challenge].token
                        /\ session'[s].release = challenge'[session'[s].challenge].release
                        /\ session'[s].token # NoToken => token'[session'[s].token] = "consumed"
                        /\ session'[s].release \in Verified =>
                             entry'[s].kind = "verify" /\ entry'[s].evidence
      BY DEF SessionsSound
    <3>1. CASE s = r
      BY <1>1, <2>2, <2>3, <2>4, <2>5, <2>6, <2>8, <3>1 DEF t
    <3>2. CASE s # r
      <4>1. /\ session'[s] = session[s] /\ entry'[s] = entry[s]
            /\ session[s].challenge \in Challenge
            /\ session[s].token \in Token \cup {NoToken}
        BY <2>3, <2>5, <3>2 DEF SessionsSound, SessionRow
      <4> QED  BY <1>1, <2>2, <2>6, <4>1 DEF SessionsSound
    <3> QED  BY <3>1, <3>2
  <2>15. \A s \in EntryRequest \ {r} : session[s] # NoSession =>
           session[s].challenge # c /\ (session[s].token = t => t = NoToken)
    BY <1>1, <2>6 DEF SessionsSound
  <2>16. SessionsApart'
    BY <2>4, <2>5, <2>15 DEF SessionsApart
  <2>17. GuessesCounted'
    BY <2>2, <2>3, <2>9 DEF GuessesCounted
  <2> QED  BY <2>10, <2>11, <2>12, <2>13, <2>14, <2>16, <2>17
<1> QED  BY <1>2, <1>3

\* Time passes for a challenge; its holder may still be there.
LEMMA ExpireKeeps ==
    ASSUME EntryInv, NEW c \in Challenge, ExpireChallenge(c)
    PROVE  EntryInv'
<1> USE DEF EntryInv, ExpireChallenge
<1>1. /\ challenge' \in [Challenge -> ChallengeRow]
      /\ challenge'[c].at = "expired"
      /\ \A d \in Challenge \ {c} : challenge'[d] = challenge[d]
      /\ \A d \in Challenge : /\ challenge'[d].token = challenge[d].token
                              /\ challenge'[d].release = challenge[d].release
                              /\ challenge'[d].verification = challenge[d].verification
                              /\ challenge'[d].failures = challenge[d].failures
  BY DEF EntryTypeOK, ChallengeRow
<1>2. EntryTypeOK'
  BY <1>1 DEF EntryTypeOK
<1>3. ChallengesSound'
  BY <1>1 DEF ChallengesSound
<1>4. RequestsSound'
  BY <1>1 DEF RequestsSound, Active, Holds
<1>5. LocksExclusive' /\ SessionsApart'
  BY DEF LocksExclusive, SessionsApart, Holds
<1>6. SessionsSound'
  BY <1>1 DEF SessionsSound, SessionRow
<1>7. GuessesCounted'
  BY <1>1 DEF GuessesCounted
<1> QED  BY <1>2, <1>3, <1>4, <1>5, <1>6, <1>7

\* Every step keeps the invariant.
LEMMA EntryInvStep == EntryInv /\ [EntryNext]_entryVars => EntryInv'
<1> SUFFICES ASSUME EntryInv, [EntryNext]_entryVars PROVE EntryInv'
  OBVIOUS
<1>1. ASSUME NEW c \in Challenge, NEW t \in Token \cup {NoToken},
             NEW release \in {live, Candidate}, PrepareChallenge(c, t, release)
      PROVE  EntryInv'
  <2>1. release \in EntryRelease
    BY EntryAssumption DEF EntryInv, EntryTypeOK
  <2> QED  BY <1>1, <2>1, PrepareKeeps
<1>2. ASSUME NEW r \in EntryRequest, Resolve(r) PROVE EntryInv'
  BY <1>2, ResolveKeeps
<1>3. ASSUME NEW r \in EntryRequest, ResolvesNothing(r) PROVE EntryInv'
  BY <1>3, AnsweredKeeps DEF ResolvesNothing, EntryReply, EntryInv, SessionsSound
<1>4. ASSUME NEW r \in EntryRequest, RefuseConfiguration(r) PROVE EntryInv'
  BY <1>4, AnsweredKeeps DEF RefuseConfiguration, EntryReply, EntryInv, RequestsSound, Active
<1>5. ASSUME NEW r \in EntryRequest, AdvancePending(r) PROVE EntryInv'
  BY <1>5, PendingKeeps
<1>6. ASSUME NEW r \in EntryRequest, AdvanceConsume(r) PROVE EntryInv'
  <2>1. session[r] = NoSession /\ entry[r].at \in Active
    BY <1>6 DEF AdvanceConsume, EntryInv, RequestsSound, Active
  <2>2. CASE challenge[entry[r].challenge].at = "live"
    BY <1>6, <2>1, <2>2, LockedKeeps DEF AdvanceConsume
  <2>3. CASE challenge[entry[r].challenge].at # "live"
    BY <1>6, <2>1, <2>3, AnsweredKeeps DEF AdvanceConsume, EntryReply
  <2> QED  BY <2>2, <2>3
<1>7. ASSUME NEW r \in EntryRequest, VerifyLock(r) PROVE EntryInv'
  <2> DEFINE c == entry[r].challenge
  <2>1. session[r] = NoSession /\ entry[r].at \in Active /\ c \in Challenge
    BY <1>7 DEF VerifyLock, EntryInv, RequestsSound, Active
  <2>2. CASE \E answer \in EntryReply : Answered(r, answer)
    BY <1>7, <2>1, <2>2, AnsweredKeeps DEF VerifyLock
  <2>3. CASE entry' = [entry EXCEPT ![r].at = "locked"] /\ challenge[c].at = "live"
             /\ ~(challenge[c].failures >= MaxFailures)
    <3>1. challenge[c].failures < MaxFailures
      BY <2>1, <2>3, EntryAssumption DEF EntryInv, EntryTypeOK, ChallengeRow
    <3> QED  BY <1>7, <2>1, <2>3, <3>1, LockedKeeps DEF VerifyLock
  <2> QED  BY <1>7, <2>2, <2>3 DEF VerifyLock, EntryReply
<1>8. ASSUME NEW r \in EntryRequest, VerifyWrong(r) PROVE EntryInv'
  BY <1>8, WrongKeeps
<1>9. ASSUME NEW r \in EntryRequest, VerifyRight(r) PROVE EntryInv'
  <2>1. /\ session[r] = NoSession /\ entry[r].at \in Active /\ Holds(r)
        /\ entry[r].kind = "verify"
    BY <1>9 DEF VerifyRight, EntryInv, RequestsSound, Active, Holds
  <2>2. CASE Answered(r, "unavailable")
    BY <1>9, <2>1, <2>2, AnsweredKeeps DEF VerifyRight, EntryReply
  <2>3. CASE entry' = [entry EXCEPT ![r].at = "consumed"]
             /\ challenge[entry[r].challenge].at = "live"
    BY <1>9, <2>1, <2>3, LockedKeeps DEF VerifyRight
  <2> QED  BY <1>9, <2>2, <2>3 DEF VerifyRight
<1>10. ASSUME NEW r \in EntryRequest, Admit(r) PROVE EntryInv'
  BY <1>10, AdmitKeeps
<1>11. ASSUME NEW r \in EntryRequest, EntryCrash(r) PROVE EntryInv'
  BY <1>11, AnsweredKeeps DEF EntryCrash, EntryReply, EntryInv, RequestsSound, Active
<1>12. ASSUME NEW c \in Challenge, ExpireChallenge(c) PROVE EntryInv'
  BY <1>12, ExpireKeeps
<1>13. ASSUME NEW t \in Token, ExpireToken(t) PROVE EntryInv'
  <2>1. /\ token' \in [Token -> {"live", "consumed", "expired"}]
        /\ \A u \in Token : token[u] = "consumed" => token'[u] = "consumed"
    BY <1>13 DEF ExpireToken, EntryInv, EntryTypeOK
  <2>2. SessionsSound'
    BY <1>13, <2>1 DEF ExpireToken, EntryInv, SessionsSound, SessionRow
  <2> QED  BY <1>13, <2>1, <2>2 DEF ExpireToken, EntryInv, EntryTypeOK, ChallengesSound,
           RequestsSound, LocksExclusive, SessionsApart, GuessesCounted, Holds
<1>14. CASE GoLive
  BY <1>14 DEF GoLive, EntryInv, EntryTypeOK, ChallengesSound, RequestsSound, LocksExclusive,
     SessionsSound, SessionsApart, GuessesCounted, Holds
<1>15. CASE UNCHANGED entryVars
  BY <1>15 DEF entryVars, EntryInv, EntryTypeOK, ChallengesSound, RequestsSound,
     LocksExclusive, SessionsSound, SessionsApart, GuessesCounted, Holds
<1> QED
  BY <1>1, <1>2, <1>3, <1>4, <1>5, <1>6, <1>7, <1>8, <1>9, <1>10, <1>11, <1>12, <1>13,
     <1>14, <1>15 DEF EntryNext

-----------------------------------------------------------------------------
(* The rows, requests and sessions of the entry stay as the invariant says,  *)
(* whatever interleaves.                                                     *)
THEOREM EntrySafety == EntrySpec => []EntryInv
  BY EntryInvInit, EntryInvStep, PTL DEF EntrySpec

(* One review session of each invitation and of each challenge. *)
THEOREM OneSessionTheorem == EntrySpec => []OneSessionPerInvitation
<1>1. EntryInv => OneSessionPerInvitation
  BY DEF EntryInv, SessionsApart, OneSessionPerInvitation, Admitted
<1> QED  BY <1>1, EntrySafety, PTL

(* No challenge is guessed at more often than its limit. *)
THEOREM GuessesTheorem == EntrySpec => []GuessesBounded
<1>1. EntryInv => GuessesBounded
  BY EntryAssumption DEF EntryInv, EntryTypeOK, ChallengeRow, GuessesCounted, GuessesBounded
<1> QED  BY <1>1, EntrySafety, PTL

(* A session is opened under, and earned by, the rules of the release its    *)
(* challenge was prepared with.                                              *)
THEOREM ReleaseHonoured == EntrySpec => []EntryHonoursRelease
<1>1. ASSUME EntryInv, NEW r \in Admitted
      PROVE  LET s == session[r] IN
             /\ s.release = challenge[s.challenge].release
             /\ Mode[s.release] = "invite" => s.token # NoToken
             /\ Mode[s.release] = "open-qr" => s.token = NoToken
             /\ s.release \in Verified => entry[r].kind = "verify" /\ entry[r].evidence
  <2> DEFINE c == session[r].challenge
  <2>1. /\ c \in Challenge
        /\ challenge[c].at = "consumed"
        /\ session[r].token = challenge[c].token
        /\ session[r].release = challenge[c].release
        /\ session[r].release \in Verified => entry[r].kind = "verify" /\ entry[r].evidence
    BY <1>1 DEF EntryInv, SessionsSound, SessionRow, Admitted
  <2>2. /\ Mode[challenge[c].release] = "invite" => challenge[c].token # NoToken
        /\ Mode[challenge[c].release] = "open-qr" => challenge[c].token = NoToken
    BY <1>1, <2>1 DEF EntryInv, ChallengesSound
  <2> QED  BY <2>1, <2>2
<1>2. EntryInv => EntryHonoursRelease
  BY <1>1 DEF EntryHonoursRelease
<1> QED  BY <1>2, EntrySafety, PTL
=============================================================================
