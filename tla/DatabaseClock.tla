---------------------------- MODULE DatabaseClock ----------------------------
(***************************************************************************)
(* Time as the program reads it.  Every deadline is compared in SQL with    *)
(* clock_timestamp() of the one PostgreSQL server behind Context and        *)
(* Generation, so there is one clock `now'.  Two readings are not exact:    *)
(*   - a PL/pgSQL function samples clock_timestamp() once, in v_now, and    *)
(*     may take effect up to StmtLag later;                                 *)
(*   - Lambda code reads its own clock (Date.now()), which is up to Skew    *)
(*     away when the value takes effect.                                    *)
(***************************************************************************)
EXTENDS Integers

CONSTANTS MaxTime,  \* bound on the clock
          Skew,     \* greatest distance of a Date.now() from the database's
                    \* time at its use: the two clocks' and the delay's
          StmtLag   \* greatest age of v_now when its statement takes effect

ASSUME ClockAssumption ==
    /\ MaxTime \in Nat
    /\ Skew \in Nat
    /\ StmtLag \in Nat

VARIABLE now

ClockInit == now = 0

Tick == /\ now < MaxTime
        /\ now' = now + 1

\* The values Date.now() may return in a Lambda.
AppClock == {t \in 0..(now + Skew) : now <= t + Skew}

\* The values v_now may hold when its statement takes effect.
StatementClock == {t \in 0..now : now <= t + StmtLag}

\* LEAST(a, b) of the SQL.
Least(a, b) == IF a <= b THEN a ELSE b
==============================================================================
