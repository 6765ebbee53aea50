--------------------------- MODULE SourceRateLimit ---------------------------
(***************************************************************************)
(* The allowance of one public source under one policy                      *)
(* (consume_public_source_rate_limit, packages/db's migration 28, and the   *)
(* service that calls it).  Events are filed under a bucket that changes    *)
(* every UTC day.  A call computes its buckets from its own clock, waits    *)
(* for its advisory locks, and only then reads the database's clock.        *)
(***************************************************************************)
EXTENDS DatabaseClock, FiniteSets

CONSTANTS SourceCall,     \* calls for one source and policy
          LegacyCall,     \* those of a runtime that submits one bucket only
          DayLength,      \* 24 h
          SourceLimit, SourceWindow, \* 60 in 5 min, 10 in 5 min, 10 in 1 h
          Retention,      \* 23 h
          CallWait        \* the life of a call (main.tf): its Lambda is ended after it

ASSUME SourceAssumption ==
    /\ LegacyCall \subseteq SourceCall
    /\ {DayLength, SourceWindow} \subseteq Nat \ {0}
    /\ {SourceLimit, Retention} \subseteq Nat \ {0}
    /\ SourceWindow + StmtLag <= Retention /\ Retention < DayLength
    /\ CallWait \in Nat
    /\ SourceWindow + CallWait + 2 * Skew <= DayLength + 1

VARIABLES call,    \* the calls
          event    \* public_source_rate_limit_events: bucket and time of each call

sourceVars == <<now, call, event>>

CallState == [at : {"idle", "waiting", "locked", "counted", "done"},
              asked : Nat, day : Int, time : Nat, count : Nat, allowed : BOOLEAN]
NoCall == [at |-> "idle", asked |-> 0, day |-> 0, time |-> 0, count |-> 0, allowed |-> FALSE]
EventRow == [filed : BOOLEAN, day : Int, time : Nat]
NoEvent == [filed |-> FALSE, day |-> 0, time |-> 0]

SourceTypeOK ==
    /\ call \in [SourceCall -> CallState]
    /\ event \in [SourceCall -> EventRow]

SourceInit ==
    /\ ClockInit
    /\ call = [i \in SourceCall |-> NoCall]
    /\ event = [i \in SourceCall |-> NoEvent]

-----------------------------------------------------------------------------
\* The days whose buckets a call submits, by the UTC day of its own clock.
DayOf(t) == t \div DayLength

\* Fault: yesterday's events are out of sight.
BucketOfToday(i) == {call[i].day}

Buckets(i) == IF i \in LegacyCall THEN {call[i].day}
              ELSE {call[i].day - 1, call[i].day, call[i].day + 1}

\* The service reads its clock and calls the database.
Consume(i) ==
    /\ call[i].at = "idle"
    /\ \E t \in AppClock :
          call' = [call EXCEPT ![i].at = "waiting", ![i].asked = now, ![i].day = DayOf(t)]
    /\ UNCHANGED <<now, event>>

Locking(i) == call[i].at \in {"locked", "counted"}

\* Fault: a legacy caller and a new one lock different keys.
BucketsFree(i) == \A j \in SourceCall \ {i} :
    Locking(j) => (i \in LegacyCall) # (j \in LegacyCall)

\* Both overloads take the policy's global lock; the buckets' locks add nothing
\* to it.
LockFree(i) == \A j \in SourceCall \ {i} : ~Locking(j)

\* The locks are taken while the call lives, then v_now is sampled.
TakeLocks(i) ==
    /\ call[i].at = "waiting" /\ now <= call[i].asked + CallWait
    /\ LockFree(i)
    /\ call' = [call EXCEPT ![i].at = "locked", ![i].asked = 0, ![i].time = now]
    /\ UNCHANGED <<now, event>>

\* What the legacy overload counts is every source's; the new one counts the
\* source's three buckets.
Counted(i) == {j \in SourceCall :
    /\ event[j].filed
    /\ event[j].time > call[i].time - SourceWindow
    /\ i \in LegacyCall \/ event[j].day \in Buckets(i)}

\* cleanup_expired_public_source_rate_limits, and the count.
CountEvents(i) ==
    /\ call[i].at = "locked"
    /\ call' = [call EXCEPT ![i].at = "counted", ![i].count = Cardinality(Counted(i))]
    /\ event' = [j \in SourceCall |->
         IF event[j].time <= now - Retention THEN NoEvent ELSE event[j]]
    /\ UNCHANGED now

\* The call is refused, or its event is filed under its own day; it commits.
Decide(i) ==
    LET allowed == call[i].count < SourceLimit IN
    /\ call[i].at = "counted"
    /\ call' = [call EXCEPT ![i] = [NoCall EXCEPT !.at = "done", !.allowed = allowed,
                                                  !.time = call[i].time]]
    /\ event' = IF allowed
                THEN [event EXCEPT ![i] = [filed |-> TRUE, day |-> call[i].day,
                                           time |-> call[i].time]]
                ELSE event
    /\ UNCHANGED now

\* The hourly run of the reconciler cleans up as well.
CleanupExpired ==
    /\ event' = [j \in SourceCall |->
         IF event[j].time <= now - Retention THEN NoEvent ELSE event[j]]
    /\ event' # event
    /\ UNCHANGED <<now, call>>

\* v_now is at most StmtLag old when the events are counted.
SourceTick ==
    /\ \A i \in SourceCall : call[i].at = "locked" => now < call[i].time + StmtLag
    /\ Tick
    /\ UNCHANGED <<call, event>>

SourceNext ==
    \/ SourceTick
    \/ CleanupExpired
    \/ \E i \in SourceCall :
         \/ Consume(i)
         \/ TakeLocks(i)
         \/ CountEvents(i)
         \/ Decide(i)

SourceSpec == SourceInit /\ [][SourceNext]_sourceVars

-----------------------------------------------------------------------------
(* However calls of one source overlap, from a runtime of either generation, *)
(* at any distance from midnight and by whatever clocks they name the day,   *)
(* no window of time holds more than the limit of them.                      *)
SourceWindowHolds == \A i \in SourceCall :
    call[i].allowed =>
        Cardinality({j \in SourceCall :
            /\ call[j].allowed
            /\ call[j].time <= call[i].time
            /\ call[j].time > call[i].time - SourceWindow}) <= SourceLimit
==============================================================================
