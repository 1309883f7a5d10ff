----------------------------- MODULE ImpliedVol -----------------------------
(***************************************************************************)
(* One sampled quote on its way through the implied-volatility solver:     *)
(* the time to expiry the GreeksTracker gives it (trackers/greeks.rs), the *)
(* guards and the Newton iteration of implied_vol() and the domain checks  *)
(* of the pricing functions (options_math/bsm.rs), and what the tracker    *)
(* does with the answer.                                                   *)
(*                                                                         *)
(* A volatility is a level of a grid.  Of the pricing formulas the model   *)
(* keeps what the control depends on: the price grows with the volatility, *)
(* so the levels below `low' price the option too low, those above `high'  *)
(* too high, those between within IV_TOL, if there are any; at the levels  *)
(* of `flat' vega is below 1e-12.  How far a Newton step goes is free.     *)
(***************************************************************************)
EXTENDS Integers

CONSTANTS
  MIN_IV, MAX_IV,     \* ends of the grid
  FLOOR_IV,           \* least first guess: 0.10
  max_iv,             \* the tracker's own limit
  MAX_IV_ITER,
  MIN_T,              \* least time to expiry the formulas take
  DAY_T, MINUTE_T,    \* a calendar day and a trading minute in the same unit
  MILL,               \* 0.001 in units of a price
  Mids, Underlyings, Strikes, Dtes,  \* what the quotes can be
  Minutes,            \* minutes to the close: 0 after it, at most 390
  None                \* Option::None

ASSUME ImpliedVolAssumption ==
  /\ {MIN_IV, MAX_IV, FLOOR_IV, max_iv, MAX_IV_ITER} \subseteq Nat
  /\ 0 < MIN_IV /\ MIN_IV <= FLOOR_IV /\ FLOOR_IV <= MAX_IV
  /\ {MIN_T, DAY_T, MINUTE_T, MILL} \subseteq Nat \ {0}
  /\ Mids \subseteq Nat \ {0} /\ Underlyings \subseteq Nat \ {0}
  /\ Strikes \subseteq Nat /\ Dtes \subseteq Int /\ Minutes \subseteq 0..390

Grid == MIN_IV..MAX_IV

VARIABLES
  mid, s, k, is_call, dte, remaining_minutes,  \* the quote
  low, high, flat,                             \* its pricing function
  stage,    \* "sampled", "iterating", "answered", "greeks", "counted"
  t,        \* time to expiry
  sigma,    \* volatility of the iteration
  iter,     \* iterations done
  iv        \* the answer of implied_vol()

quote == <<mid, s, k, is_call, dte, remaining_minutes, low, high, flat>>
vars == <<quote, stage, t, sigma, iter, iv>>

Init ==
  /\ mid \in Mids /\ s \in Underlyings /\ k \in Strikes /\ is_call \in BOOLEAN
  /\ dte \in Dtes /\ remaining_minutes \in Minutes
  /\ low \in MIN_IV..(MAX_IV + 1) /\ high \in (low - 1)..MAX_IV
  /\ flat \in SUBSET Grid
  /\ stage = "sampled"
  /\ t = 0 /\ sigma = 0 /\ iter = 0 /\ iv = None

-----------------------------------------------------------------------------
at_least(x, bound) == IF x < bound THEN bound ELSE x

minutes_to_years(minutes) == at_least(minutes * MINUTE_T, MIN_T)

(* A contract past its expiration has the least time, too.                 *)
time_to_expiry ==
  IF dte = 0 THEN minutes_to_years(remaining_minutes)
  ELSE at_least(dte * DAY_T, MIN_T)

intrinsic == at_least(IF is_call THEN s - k ELSE k - s, 0)

refused(time) == mid <= 0 \/ s <= 0 \/ k <= 0 \/ time < MIN_T

arbitrage == mid < intrinsic - MILL

Answer(value) ==
  /\ iv' = value
  /\ stage' = "answered"

Refuse ==
  /\ stage = "sampled"
  /\ t' = time_to_expiry
  /\ refused(t') \/ arbitrage
  /\ Answer(None)
  /\ UNCHANGED <<quote, sigma, iter>>

(* The first guess of Brenner and Subrahmanyam, clamped.                   *)
Guess ==
  /\ stage = "sampled"
  /\ t' = time_to_expiry
  /\ ~refused(t') /\ ~arbitrage
  /\ sigma' \in FLOOR_IV..MAX_IV
  /\ stage' = "iterating"
  /\ UNCHANGED <<quote, iter, iv>>

Converge ==
  /\ stage = "iterating" /\ iter < MAX_IV_ITER
  /\ low <= sigma /\ sigma <= high
  /\ Answer(sigma)
  /\ UNCHANGED <<quote, t, sigma, iter>>

Flat ==
  /\ stage = "iterating" /\ iter < MAX_IV_ITER
  /\ sigma < low \/ sigma > high
  /\ sigma \in flat
  /\ Answer(None)
  /\ UNCHANGED <<quote, t, sigma, iter>>

(* Fault: no lower end                                                   *)
clamp_above(x) == IF x > MAX_IV THEN MAX_IV ELSE x

clamp(x) == IF x > MAX_IV THEN MAX_IV ELSE at_least(x, MIN_IV)

(* Fault: iterates until it converges                                    *)
NewtonStep_uncapped ==
  /\ stage = "iterating"
  /\ sigma < low \/ sigma > high
  /\ sigma \notin flat
  /\ \E x \in (MIN_IV - 1)..(MAX_IV + 1) :
       /\ IF sigma < low THEN x > sigma ELSE x < sigma
       /\ sigma' = clamp(x)
  /\ UNCHANGED <<quote, stage, t, iter, iv>>

(* A step in the direction of the solution, and maybe past it.             *)
NewtonStep ==
  /\ stage = "iterating" /\ iter < MAX_IV_ITER
  /\ sigma < low \/ sigma > high
  /\ sigma \notin flat
  /\ \E x \in (MIN_IV - 1)..(MAX_IV + 1) :
       /\ IF sigma < low THEN x > sigma ELSE x < sigma
       /\ sigma' = clamp(x)
  /\ iter' = iter + 1
  /\ UNCHANGED <<quote, stage, t, iv>>

GiveUp ==
  /\ stage = "iterating" /\ iter = MAX_IV_ITER
  /\ Answer(None)
  /\ UNCHANGED <<quote, t, sigma, iter>>

accepted == iv # None /\ iv > 0 /\ iv < max_iv

(* Some(sigma) that the tracker takes; delta, gamma and vega for 0DTE.     *)
Accept ==
  /\ stage = "answered"
  /\ accepted
  /\ stage' = IF dte = 0 THEN "greeks" ELSE "counted"
  /\ UNCHANGED <<quote, t, sigma, iter, iv>>

(* iv_failed: no answer, or one the tracker does not believe.              *)
Fail ==
  /\ stage = "answered"
  /\ ~accepted
  /\ stage' = "counted"
  /\ UNCHANGED <<quote, t, sigma, iter, iv>>

AddGreeks ==
  /\ stage = "greeks"
  /\ stage' = "counted"
  /\ UNCHANGED <<quote, t, sigma, iter, iv>>

Next ==
  \/ Refuse \/ Guess \/ Converge \/ Flat \/ NewtonStep \/ GiveUp
  \/ Accept \/ Fail \/ AddGreeks

(* A call in the one thread of the program.                                *)
Spec == Init /\ [][Next]_vars /\ WF_vars(Next)
-----------------------------------------------------------------------------
(* The branch of call_price, put_price, vega, delta and gamma that leaves  *)
(* the formulas for the intrinsic value and for constants.                 *)
degenerate(volatility) == t < MIN_T \/ volatility < MIN_IV \/ s <= 0 \/ k <= 0

(* No implied volatility and no Greek of a report rests on a degenerate    *)
(* branch: wherever the iteration goes, it asks the formulas for a         *)
(* volatility they take, and so does the tracker with its answer.  Nor is  *)
(* a quote kept from the formulas for being late: at the close, after it,  *)
(* and past the expiration, one with a price its contract can have gets    *)
(* to them.                                                                *)
NeverDegenerate ==
  /\ stage = "iterating" => ~degenerate(sigma)
  /\ stage = "greeks" => ~degenerate(iv)
  /\ stage = "answered" /\ sigma = 0 => k = 0 \/ mid < intrinsic - MILL

(* Every sampled quote is counted, as computed or as failed: Newton steps  *)
(* that jump back and forth past the solution do not go on for ever.       *)
EveryAnswerComes == <>(stage = "counted")
=============================================================================
