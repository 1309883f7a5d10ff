---------------------------- MODULE SessionClock ----------------------------
(***************************************************************************)
(* The time of day of an event, and what depends on it: the estimate of    *)
(* the underlying price (profiler.rs), the moneyness class of a contract   *)
(* at that price (options_math/moneyness.rs) and the time to expiry of a   *)
(* 0DTE contract (trackers/greeks.rs).  All of them convert the session    *)
(* hours of New York to UTC on their own.                                  *)
(*                                                                         *)
(* Time is counted in ticks, `Minute' of them a minute.  The estimate is   *)
(* kept as a whole number of 1/rth_duration of a price unit.               *)
(***************************************************************************)
EXTENDS Integers

CONSTANTS
  Minute,     \* ticks of ts_event in a minute
  Prices,     \* underlying prices at the open and at the close
  Strikes,
  AtmRange,   \* buckets.atm_range_pct, in thousandths
  DeepRange   \* buckets.deep_range_pct, in thousandths

ASSUME SessionAssumption ==
  /\ Minute \in Nat \ {0}
  /\ Prices \subseteq Nat \ {0}
  /\ Strikes \subseteq Nat
  /\ AtmRange \in Nat /\ DeepRange \in Nat /\ AtmRange <= DeepRange

VARIABLES
  now,                                \* ts_event, from the midnight UTC of the date
  utc_offset,                         \* of the trading date: -5 or -4
  underlying_open, underlying_close,
  strike                              \* of the contract looked at

day  == <<utc_offset, underlying_open, underlying_close, strike>>
vars == <<now, day>>

Hour == 60 * Minute
Day  == 24 * Hour
-----------------------------------------------------------------------------
(* profiler.rs                                                             *)
(* Fault: 14:30 is in UTC already                                        *)
rth_open_twice_converted == (14 - utc_offset) * Hour + 30 * Minute

rth_open == (9 - utc_offset) * Hour + 30 * Minute

rth_close == (16 - utc_offset) * Hour

rth_duration == rth_close - rth_open

event_tod == now % Day

(* Fault: the open outside the session, even after it                    *)
underlying_estimate_open_outside ==
  IF event_tod <= rth_open \/ event_tod >= rth_close THEN rth_duration * underlying_open
  ELSE rth_duration * underlying_open
         + (event_tod - rth_open) * (underlying_close - underlying_open)

(* The estimate of the underlying price, times rth_duration.               *)
underlying_estimate ==
  IF event_tod <= rth_open THEN rth_duration * underlying_open
  ELSE IF event_tod >= rth_close THEN rth_duration * underlying_close
  ELSE rth_duration * underlying_open
         + (event_tod - rth_open) * (underlying_close - underlying_open)
-----------------------------------------------------------------------------
(* greeks.rs                                                               *)
(* Fault: knows no summer time                                           *)
close_utc_standard_time == 21 * Hour

close_utc == (16 - utc_offset) * Hour

remaining == IF close_utc >= event_tod THEN close_utc - event_tod ELSE 0

(* Ticks to the close, at most a session of 390 minutes.                   *)
remaining_clamped == IF remaining <= 390 * Minute THEN remaining ELSE 390 * Minute
-----------------------------------------------------------------------------
(* moneyness.rs: the class of a contract at the estimate.  strike /        *)
(* estimate is compared with 1 - range and 1 + range, in thousandths.      *)
below(range) == 1000 * strike * rth_duration < (1000 - range) * underlying_estimate

above(range) == 1000 * strike * rth_duration > (1000 + range) * underlying_estimate

(* Fault: does not reverse the sides for a put                           *)
itm_side_of_call(type, range) == below(range)

itm_side(type, range) == IF type = "call" THEN below(range) ELSE above(range)

otm_side(type, range) == IF type = "call" THEN above(range) ELSE below(range)

classify(type) ==
  IF itm_side(type, DeepRange) THEN "deep_itm"
  ELSE IF otm_side(type, DeepRange) THEN "deep_otm"
  ELSE IF itm_side(type, AtmRange) THEN "itm"
  ELSE IF otm_side(type, AtmRange) THEN "otm"
  ELSE "atm"

moneyness_index ==
  [deep_itm |-> 0, itm |-> 1, atm |-> 2, otm |-> 3, deep_otm |-> 4]

index_of(type) == moneyness_index[classify(type)]
-----------------------------------------------------------------------------
(* A trading day of New York, from its midnight to the next.               *)
Midnight == (0 - utc_offset) * Hour

Init ==
  /\ utc_offset \in {-5, -4}
  /\ underlying_open \in Prices
  /\ underlying_close \in Prices
  /\ strike \in Strikes
  /\ now = Midnight

(* The next event is later, by a minute in this model.                     *)
Pass ==
  /\ now + Minute < Midnight + Day
  /\ now' = now + Minute
  /\ UNCHANGED day

Spec == Init /\ [][Pass]_vars
-----------------------------------------------------------------------------
TypeOK ==
  /\ utc_offset \in {-5, -4}
  /\ underlying_open \in Prices /\ underlying_close \in Prices
  /\ strike \in Strikes
  /\ now \in Nat

(* The two clocks agree: the share of the session the estimate has behind  *)
(* it and the time to expiry the Greeks see before it add up to the whole, *)
(* at every time of the day and on both sides of a clock change.           *)
ClocksAgree ==
  LET session == 390 * Minute
  IN  session * underlying_estimate =
        rth_duration * (session * underlying_open
          + (session - remaining_clamped) * (underlying_close - underlying_open))

distance(a, b) == IF a >= b THEN a - b ELSE b - a

(* Within a UTC day the estimate never jumps, at the open or at the close  *)
(* either: in a minute it moves by a 390th of the day's drift at most.     *)
(* (The session start once was converted to UTC twice, which left 90       *)
(* minutes to the whole drift: profiler.rs, DEFECT FIXED 2026-08-14.)      *)
DriftIsPaced ==
  [][ event_tod' > event_tod =>
        390 * distance(underlying_estimate', underlying_estimate)
          <= distance(underlying_close, underlying_open) * rth_duration ]_vars

(* A put and a call on one strike mirror each other at all times, and a    *)
(* contract goes from its class at the open to its class at the close      *)
(* without a step back.                                                    *)
RightsMirror == index_of("put") = 4 - index_of("call")

ClassFollowsDrift ==
  [][ event_tod' > event_tod =>
        IF underlying_close >= underlying_open
        THEN index_of("call")' <= index_of("call")
        ELSE index_of("call")' >= index_of("call") ]_vars

(* profiler.rs says that post-market events use the close.  The time of    *)
(* day is taken modulo 24 hours of UTC, whose midnight is at 19:00 or      *)
(* 20:00 in New York: what comes later is treated as before the open.      *)
PostMarketUsesClose ==
  now >= rth_close => underlying_estimate = rth_duration * underlying_close
=============================================================================
