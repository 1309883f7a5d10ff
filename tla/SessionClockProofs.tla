-------------------------- MODULE SessionClockProofs --------------------------
(***************************************************************************)
(* Theorems about SessionClock, for any length of the minute, and for all  *)
(* prices, strikes and ranges.                                             *)
(***************************************************************************)
EXTENDS SessionClock, TLAPS

(* The clock keeps its types.                                              *)
LEMMA ClockTypeOK == Spec => []TypeOK
<1>1. Init => TypeOK
  BY SessionAssumption DEF Init, TypeOK, Midnight, Hour
<1>2. TypeOK /\ [Pass]_vars => TypeOK'
  BY SessionAssumption DEF TypeOK, Pass, vars, day
<1> QED
  BY <1>1, <1>2, PTL DEF Spec

Session == 390 * Minute

(* Winter or summer, the session is as long as the Greeks take it to be,   *)
(* its close is the one they convert to UTC on their own, and the time of  *)
(* day is counted in whole ticks.                                          *)
LEMMA SessionHours ==
  ASSUME TypeOK
  PROVE  /\ Session \in Nat /\ Session > 0
         /\ rth_duration = Session
         /\ rth_open \in Nat /\ rth_close = rth_open + Session
         /\ close_utc = rth_close
         /\ event_tod \in Nat
         /\ underlying_open \in Nat /\ underlying_open > 0
         /\ underlying_close \in Nat /\ underlying_close > 0
<1> USE SessionAssumption
<1>1. utc_offset = -5 \/ utc_offset = -4
  BY DEF TypeOK
<1>2. Day \in Nat /\ Day > 0
  BY DEF Day, Hour
<1>3. event_tod \in Nat
  BY <1>2 DEF TypeOK, event_tod
<1>4. rth_duration = Session /\ rth_open \in Nat /\ rth_close = rth_open + Session
  BY <1>1 DEF rth_duration, rth_open, rth_close, Hour, Session
<1>5. close_utc = rth_close
  BY DEF close_utc, rth_close
<1> QED
  BY <1>3, <1>4, <1>5 DEF TypeOK, Session

(* The part of the session that is over.                                   *)
Elapsed ==
  IF event_tod <= rth_open THEN 0
  ELSE IF event_tod >= rth_close THEN Session
  ELSE event_tod - rth_open

LEMMA ElapsedBound == TypeOK => Elapsed \in 0..Session
BY SessionHours DEF Elapsed

(* Both clocks measure it: the estimate by interpolation over it, the      *)
(* Greeks as what it leaves of the session.                                *)
LEMMA EstimateByElapsed ==
  TypeOK => underlying_estimate =
              Session * underlying_open + Elapsed * (underlying_close - underlying_open)
<1> SUFFICES ASSUME TypeOK
             PROVE  underlying_estimate =
                      Session * underlying_open
                        + Elapsed * (underlying_close - underlying_open)
  OBVIOUS
<1> USE SessionHours
<1>1. CASE event_tod <= rth_open
  BY <1>1 DEF underlying_estimate, Elapsed
<1>2. CASE event_tod > rth_open /\ event_tod >= rth_close
  <2>1. underlying_estimate = Session * underlying_close /\ Elapsed = Session
    BY <1>2 DEF underlying_estimate, Elapsed
  <2>2. Session * underlying_close
          = Session * underlying_open + Session * (underlying_close - underlying_open)
    OBVIOUS
  <2> QED
    BY <2>1, <2>2
<1>3. CASE event_tod > rth_open /\ event_tod < rth_close
  BY <1>3 DEF underlying_estimate, Elapsed
<1> QED
  BY <1>1, <1>2, <1>3

LEMMA RemainingByElapsed ==
  ASSUME TypeOK
  PROVE  remaining_clamped = Session - Elapsed
BY SessionHours DEF remaining_clamped, remaining, Elapsed, Session

(* The share of the session the estimate has behind it and the time to     *)
(* expiry the Greeks see before it add up to the whole, at every time of   *)
(* the day and on both sides of a clock change.                            *)
THEOREM OneSession == Spec => []ClocksAgree
<1>1. TypeOK => ClocksAgree
  <2> SUFFICES ASSUME TypeOK PROVE ClocksAgree
    OBVIOUS
  <2>1. Session - remaining_clamped = Elapsed
    BY RemainingByElapsed, ElapsedBound, SessionHours
  <2>2. rth_duration = Session
    BY SessionHours
  <2> QED
    BY <2>1, <2>2, EstimateByElapsed DEF ClocksAgree, Session
<1> QED
  BY <1>1, ClockTypeOK, PTL

(* The estimate is a price: it never leaves the positive numbers.          *)
LEMMA EstimatePositive ==
  TypeOK => underlying_estimate \in Nat /\ underlying_estimate > 0
<1> SUFFICES ASSUME TypeOK
             PROVE  underlying_estimate \in Nat /\ underlying_estimate > 0
  OBVIOUS
<1> DEFINE x == Elapsed
           y == Session - Elapsed
           o == underlying_open
           c == underlying_close
<1>1. x \in Nat /\ y \in Nat /\ x + y > 0 /\ Session = x + y
  BY ElapsedBound, SessionHours
<1>2. o \in Nat /\ o > 0 /\ c \in Nat /\ c > 0
  BY SessionHours
<1>3. underlying_estimate = (x + y) * o + x * (c - o)
  BY <1>1, EstimateByElapsed
<1> HIDE DEF x, y, o, c
<1>4. (x + y) * o + x * (c - o) = y * o + x * c
  BY <1>1, <1>2
<1>5. y * o \in Nat /\ x * c \in Nat /\ (y > 0 => y * o > 0) /\ (x > 0 => x * c > 0)
  BY <1>1, <1>2
<1> QED
  BY <1>1, <1>3, <1>4, <1>5

(* No strike is on both sides of a range.                                  *)
LEMMA SidesExclude ==
  TypeOK => \A range \in {DeepRange, AtmRange} : ~ (below(range) /\ above(range))
<1> SUFFICES ASSUME TypeOK, NEW range \in {DeepRange, AtmRange}
             PROVE  ~ (below(range) /\ above(range))
  OBVIOUS
<1>a. range \in Nat
  BY SessionAssumption
<1>1. PICK e \in Nat : e = underlying_estimate /\ e > 0
  BY EstimatePositive
<1>2. PICK m \in Int : m = 1000 * strike * rth_duration
  BY SessionHours, SessionAssumption DEF TypeOK
<1>3. range * e >= 0 /\ range * e \in Int
  BY <1>1, <1>a
<1>4. (1000 - range) * e = 1000 * e - range * e /\ (1000 + range) * e = 1000 * e + range * e
  BY <1>1, <1>a
<1>5. ~ (m < 1000 * e - range * e /\ m > 1000 * e + range * e)
  BY <1>1, <1>2, <1>3
<1> QED
  BY <1>1, <1>2, <1>4, <1>5 DEF below, above

(* A put and a call on one strike mirror each other, whatever the price    *)
(* the estimate gives, the strike and the ranges are.                      *)
THEOREM Mirror == Spec => []RightsMirror
<1>1. TypeOK => RightsMirror
  <2> SUFFICES ASSUME TypeOK PROVE RightsMirror
    OBVIOUS
  <2>1. ~ (below(DeepRange) /\ above(DeepRange)) /\ ~ (below(AtmRange) /\ above(AtmRange))
    BY SidesExclude
  <2>2. CASE below(DeepRange) \/ above(DeepRange)
    BY <2>1, <2>2 DEF RightsMirror, index_of, moneyness_index, classify, itm_side, otm_side
  <2>3. CASE ~ below(DeepRange) /\ ~ above(DeepRange)
    BY <2>1, <2>3 DEF RightsMirror, index_of, moneyness_index, classify, itm_side, otm_side
  <2> QED
    BY <2>2, <2>3
<1> QED
  BY <1>1, ClockTypeOK, PTL

-----------------------------------------------------------------------------
(* now stays within one day of New York, so that the time of day in UTC    *)
(* starts over once.                                                       *)
WithinDay == now \in Midnight..(Midnight + Day - 1)

LEMMA ClockWithinDay == Spec => []WithinDay
<1>1. Init => WithinDay
  BY SessionAssumption DEF Init, WithinDay, Midnight, Day, Hour
<1>2. TypeOK /\ WithinDay /\ [Pass]_vars => WithinDay'
  BY SessionAssumption DEF TypeOK, WithinDay, Pass, vars, day, Midnight, Day, Hour
<1> QED
  BY <1>1, <1>2, ClockTypeOK, PTL DEF Spec

(* The remainder, up to twice the divisor.                                 *)
LEMMA OneTurn ==
  ASSUME NEW d \in Nat, d > 0, NEW n \in Nat, n < 2 * d
  PROVE  n % d = IF n < d THEN n ELSE n - d
<1>1. CASE n < d
  BY <1>1
<1>2. CASE n >= d
  BY <1>2
<1> QED
  BY <1>1, <1>2

(* Between two events of one day in UTC, nothing changes but the time.     *)
LEMMA DayGoesOn ==
  ASSUME TypeOK, WithinDay, Pass, event_tod' > event_tod
  PROVE  event_tod' = event_tod + Minute
<1> USE SessionAssumption
<1>1. Day \in Nat /\ Day > Minute /\ Midnight \in Nat /\ 2 * Midnight < Day
  BY DEF TypeOK, Midnight, Day, Hour
<1>2. now \in Nat /\ now < 2 * Day
  BY <1>1 DEF WithinDay
<1>3. now' = now + Minute /\ now' \in Nat /\ now' < 2 * Day
  BY <1>1, <1>2 DEF Pass
<1>4. event_tod = IF now < Day THEN now ELSE now - Day
  BY <1>1, <1>2, OneTurn DEF event_tod
<1>5. event_tod' = IF now' < Day THEN now' ELSE now' - Day
  BY <1>1, <1>3, OneTurn DEF event_tod, Day, Hour
<1> QED
  BY <1>1, <1>2, <1>3, <1>4, <1>5

(* What the session moves on by in a step, and what the estimate does.     *)
LEMMA StepOfSession ==
  ASSUME TypeOK, TypeOK', WithinDay, Pass, event_tod' > event_tod
  PROVE  \E k \in 0..Minute :
            /\ Elapsed' = Elapsed + k
            /\ underlying_estimate' =
                 underlying_estimate + k * (underlying_close - underlying_open)
<1>1. UNCHANGED <<underlying_open, underlying_close, rth_open, rth_close, Session>>
  BY DEF Pass, day, rth_open, rth_close, Hour, Session
<1>2. event_tod' = event_tod + Minute
  BY DayGoesOn
<1>3. Elapsed \in 0..Session
  BY ElapsedBound
<1>4. PICK k \in 0..Minute : Elapsed' = Elapsed + k
  <2>1. Elapsed' = IF event_tod' <= rth_open THEN 0
                   ELSE IF event_tod' >= rth_close THEN Session
                   ELSE event_tod' - rth_open
    BY <1>1 DEF Elapsed
  <2>2. Elapsed' - Elapsed \in 0..Minute /\ Elapsed' \in Int
    BY <1>2, <2>1, SessionHours, SessionAssumption DEF Elapsed
  <2>3. Elapsed \in Int
    BY <1>3, SessionHours
  <2>4. ASSUME NEW a \in Int, NEW b \in Int PROVE b = a + (b - a)
    OBVIOUS
  <2> QED
    BY <2>2, <2>3, <2>4
<1>5. underlying_estimate =
        Session * underlying_open + Elapsed * (underlying_close - underlying_open)
  BY EstimateByElapsed
<1>6. underlying_estimate' =
        Session * underlying_open + Elapsed' * (underlying_close - underlying_open)
  <2>1. (underlying_estimate =
           Session * underlying_open + Elapsed * (underlying_close - underlying_open))'
    BY EstimateByElapsed, PTL
  <2> QED
    BY <1>1, <2>1
<1>7. ASSUME NEW a \in Int, NEW e \in Int, NEW b \in Int
      PROVE  a + (e + k) * b = (a + e * b) + k * b
  BY <1>4
<1>8. Session * underlying_open \in Int
  BY SessionHours
<1> QED
  BY <1>3, <1>4, <1>5, <1>6, <1>7, <1>8, SessionHours

(* From one minute to the next the estimate moves by a 390th of the day's  *)
(* drift at most, whatever the prices are.                                 *)
THEOREM EstimatePaced == Spec => DriftIsPaced
<1>1. ASSUME TypeOK, TypeOK', WithinDay, [Pass]_vars, event_tod' > event_tod
      PROVE  390 * distance(underlying_estimate', underlying_estimate)
               <= distance(underlying_close, underlying_open) * rth_duration
  <2>1. Pass
    BY <1>1, SessionHours DEF vars, event_tod, Day, Hour
  <2>2. PICK k \in 0..Minute :
          underlying_estimate' =
            underlying_estimate + k * (underlying_close - underlying_open)
    BY <1>1, <2>1, StepOfSession
  <2>3. PICK b \in Int : b = underlying_close - underlying_open
    BY <1>1, SessionHours
  <2>4. underlying_estimate \in Nat
    BY <1>1, EstimatePositive
  <2>5. distance(underlying_close, underlying_open) = IF b >= 0 THEN b ELSE -b
    BY <1>1, <2>3, SessionHours DEF distance
  <2>6. CASE b >= 0
    <3>1. k * b >= 0 /\ k * b \in Int /\ 390 * (k * b) <= b * (390 * Minute)
      BY <2>6, SessionAssumption
    <3>2. distance(underlying_estimate', underlying_estimate) = k * b
      BY <2>2, <2>3, <2>4, <3>1 DEF distance
    <3> QED
      BY <1>1, <2>5, <2>6, <3>1, <3>2, SessionHours DEF Session
  <2>7. CASE b < 0
    <3>1. k * b <= 0 /\ k * b \in Int /\ 390 * (-(k * b)) <= (-b) * (390 * Minute)
      BY <2>7, SessionAssumption
    <3>2. distance(underlying_estimate', underlying_estimate) = -(k * b)
      BY <2>2, <2>3, <2>4, <3>1 DEF distance
    <3> QED
      BY <1>1, <2>5, <2>7, <3>1, <3>2, SessionHours DEF Session
  <2> QED
    BY <2>6, <2>7
<1> QED
  BY <1>1, ClockTypeOK, ClockWithinDay, PTL DEF Spec, DriftIsPaced

(* As the estimate rises a strike can only come to be below it, and can    *)
(* only cease to be above it.                                              *)
LEMMA SidesFollowEstimate ==
  ASSUME NEW m \in Nat, NEW e \in Nat, NEW f \in Nat, e <= f, NEW range \in Nat
  PROVE  /\ m < (1000 - range) * e => m < (1000 - range) * f
         /\ m > (1000 + range) * f => m > (1000 + range) * e
<1>1. (1000 + range) * e <= (1000 + range) * f
  OBVIOUS
<1>2. CASE range <= 1000
  <2>1. (1000 - range) * e <= (1000 - range) * f
    BY <1>2
  <2> QED
    BY <1>1, <2>1
<1>3. CASE range > 1000
  <2>1. (1000 - range) * e <= 0
    BY <1>3
  <2> QED
    BY <1>1, <2>1
<1> QED
  BY <1>2, <1>3

(* A contract goes from its class at the open to its class at the close    *)
(* without a step back, whatever the prices, the strike and the ranges.    *)
THEOREM ClassesInOrder == Spec => ClassFollowsDrift
<1>1. ASSUME TypeOK, TypeOK', WithinDay, [Pass]_vars, event_tod' > event_tod
      PROVE  IF underlying_close >= underlying_open
             THEN index_of("call")' <= index_of("call")
             ELSE index_of("call")' >= index_of("call")
  <2> DEFINE m == 1000 * strike * rth_duration
  <2>1. Pass
    BY <1>1, SessionHours DEF vars, event_tod, Day, Hour
  <2>b. PICK b \in Int : b = underlying_close - underlying_open
    BY <1>1, SessionHours
  <2>2. PICK k \in 0..Minute : underlying_estimate' = underlying_estimate + k * b
    BY <1>1, <2>1, <2>b, StepOfSession
  <2>3. underlying_estimate \in Nat /\ underlying_estimate' \in Nat
    <3>1. (underlying_estimate \in Nat /\ underlying_estimate > 0)'
      BY <1>1, EstimatePositive, PTL
    <3> QED
      BY <1>1, <3>1, EstimatePositive
  <2>4. m \in Nat /\ m' = m
    BY <1>1, <2>1, SessionHours, SessionAssumption
    DEF TypeOK, Pass, day, rth_duration, rth_open, rth_close, Hour
  <2>5. /\ ~ (below(DeepRange) /\ above(DeepRange))'
        /\ ~ (below(AtmRange) /\ above(AtmRange))'
    <3>1. (\A range \in {DeepRange, AtmRange} : ~ (below(range) /\ above(range)))'
      BY <1>1, SidesExclude, PTL
    <3> QED
      BY <3>1
  <2>6. CASE b >= 0
    <3>a. k * b \in Int /\ k * b >= 0
      BY <2>6, SessionAssumption
    <3>1. underlying_estimate <= underlying_estimate'
      BY <2>2, <2>3, <3>a
    <3>2. \A range \in {DeepRange, AtmRange} :
            (below(range) => below(range)') /\ (above(range)' => above(range))
      BY <2>3, <2>4, <3>1, SidesFollowEstimate, SessionAssumption DEF below, above
    <3>3. underlying_close >= underlying_open
      BY <1>1, <2>b, <2>6, SessionHours
    <3> QED
      BY <3>2, <3>3 DEF index_of, moneyness_index, classify, itm_side, otm_side
  <2>7. CASE b < 0
    <3>a. k * b \in Int /\ k * b <= 0
      BY <2>7, SessionAssumption
    <3>1. underlying_estimate' <= underlying_estimate
      BY <2>2, <2>3, <3>a
    <3>2. \A range \in {DeepRange, AtmRange} :
            (below(range)' => below(range)) /\ (above(range) => above(range)')
      BY <2>3, <2>4, <3>1, SidesFollowEstimate, SessionAssumption DEF below, above
    <3>3. ~ (underlying_close >= underlying_open)
      BY <1>1, <2>b, <2>7, SessionHours
    <3> QED
      BY <2>5, <3>2, <3>3 DEF index_of, moneyness_index, classify, itm_side, otm_side
  <2> QED
    BY <2>6, <2>7
<1> QED
  BY <1>1, ClockTypeOK, ClockWithinDay, PTL DEF Spec, ClassFollowsDrift
=============================================================================
