----------------------------- MODULE RateWindow ----------------------------
(***************************************************************************)
(* One row of otp_rate_limits: the codes counted for one subject in a      *)
(* short and a long window.  A window opens with the first code after the  *)
(* last one closed; a request counts in both or in neither.  A handler     *)
(* reads its clock before the statement runs, so a time up to Lag old may  *)
(* be the one counted.  Old rows are pruned.                               *)
(***************************************************************************)
EXTENDS Integers, Functions

CONSTANTS
  Short, Long,            \* lengths of the windows: ten minutes, a day
  ShortLimit, LongLimit,  \* 3 and 10 for an email
  Retention,              \* age at which a row is pruned: two days
  Lag,                    \* bound on how old a handler's clock reading is
  MaxTime                 \* bound on the clock

(* What the values of the constants must satisfy: a reading may be a tick    *)
(* old, and a row is kept for longer than anything counted in it matters.    *)
RateAssumption ==
  /\ Short \in Nat \ {0} /\ Long \in Nat \ {0} /\ Lag \in Nat \ {0} /\ MaxTime \in Nat
  /\ ShortLimit \in Nat \ {0} /\ LongLimit \in Nat \ {0}
  /\ Retention \in Nat /\ Retention >= Short + 2 * Lag /\ Retention >= Long + 2 * Lag

VARIABLES
  row,     \* the row, or NoRow
  now,     \* the database's clock
  granted  \* history: how many codes were allowed at each time

rateVars == <<row, now, granted>>

NoRow == [shortStart |-> -1, shortCount |-> 0, longStart |-> -1, longCount |-> 0, updated |-> -1]
FirstRow(at) == [shortStart |-> at, shortCount |-> 1, longStart |-> at, longCount |-> 1, updated |-> at]

Times == 0..MaxTime

RateTypeOK ==
  /\ \/ row = NoRow
     \/ row \in [shortStart : Times, shortCount : 1..ShortLimit,
                 longStart : Times, longCount : 1..LongLimit, updated : Times]
  /\ now \in Times
  /\ granted \in [Times -> Nat]

RateInit == row = NoRow /\ now = 0 /\ granted = [t \in Times |-> 0]

(* A window is over when it began at or before the cutoff; a variant keeps   *)
(* counting from the old beginning.                                          *)
Over(start, length, at) == start <= at - length
WindowStartKept(start, length, at) == start
WindowStart(start, length, at) == IF Over(start, length, at) THEN at ELSE start
WindowCount(start, count, length, at) == IF Over(start, length, at) THEN 1 ELSE count + 1
HasRoom(start, count, limit, length, at) == Over(start, length, at) \/ count < limit

(* reserveOtpRateLimit: INSERT, or UPDATE where both windows have room.      *)
Allows(at) ==
  /\ HasRoom(row.shortStart, row.shortCount, ShortLimit, Short, at)
  /\ HasRoom(row.longStart, row.longCount, LongLimit, Long, at)
Updated(at) ==
  [shortStart |-> WindowStart(row.shortStart, Short, at),
   shortCount |-> WindowCount(row.shortStart, row.shortCount, Short, at),
   longStart  |-> WindowStart(row.longStart, Long, at),
   longCount  |-> WindowCount(row.longStart, row.longCount, Long, at),
   updated    |-> at]

ReserveRate ==
  /\ \E at \in (now - Lag)..now :
       /\ at >= 0
       /\ \/ row = NoRow /\ row' = FirstRow(at)
          \/ row # NoRow /\ Allows(at) /\ row' = Updated(at)
       /\ granted' = [granted EXCEPT ![at] = @ + 1]
  /\ UNCHANGED now

(* pruneOtpRateLimits.                                                       *)
Stale == row.updated < now - Retention
Prune == row # NoRow /\ Stale /\ row' = NoRow /\ UNCHANGED <<now, granted>>

Tick == now < MaxTime /\ now' = now + 1 /\ UNCHANGED <<row, granted>>

RateNext == ReserveRate \/ Prune \/ Tick
RateSpec == RateInit /\ [][RateNext]_rateVars

-----------------------------------------------------------------------------
(* How many codes were allowed within a length of time that ends at t.       *)
Span(t, length) == {u \in Times : t - length < u /\ u <= t}
Within(t, length) == SumFunctionOnSet(granted, Span(t, length))

(* Windows do not slide, so one may fill at its end and the next at its      *)
(* start; and a reading of the clock that is late is counted in the window   *)
(* after the one it falls in.  Still, nothing as long as a window less what  *)
(* a reading can be older than a tick has as many codes as two full windows, *)
(* which pruning an old row must not forget (reserveOtpRateLimit,            *)
(* pruneOtpRateLimits).                                                      *)
Holds(limit, length) == \A t \in 0..now : Within(t, length - Lag + 1) < 2 * limit
WindowsHold == RateTypeOK /\ Holds(ShortLimit, Short) /\ Holds(LongLimit, Long)
=============================================================================
