--------------------------- MODULE ImpliedVolProofs ---------------------------
(***************************************************************************)
(* Theorems about ImpliedVol, for every grid, cap of the iteration, quote  *)
(* and time to expiry.                                                     *)
(***************************************************************************)
EXTENDS ImpliedVol, TLAPS

Quote ==
  /\ mid \in Nat \ {0} /\ s \in Nat \ {0} /\ k \in Nat /\ is_call \in BOOLEAN
  /\ dte \in Int /\ remaining_minutes \in 0..390
  /\ low \in MIN_IV..(MAX_IV + 1) /\ high \in (low - 1)..MAX_IV

(* The time is the least one at least once the caller has set it; what the *)
(* solver iterates over is a price, a strike and a volatility the formulas *)
(* take; its answer is a volatility it has tried.  That the iteration was  *)
(* begun can be told from sigma.                                           *)
InDomain ==
  /\ stage \in {"sampled", "iterating", "answered", "greeks", "counted"}
  /\ stage = "sampled" => sigma = 0 /\ iv = None
  /\ stage # "sampled" => t \in Int /\ t >= MIN_T
  /\ sigma = 0 \/ (sigma \in Grid /\ k > 0)
  /\ stage = "iterating" => sigma # 0
  /\ iv = None \/ (iv \in Grid /\ sigma # 0)
  /\ stage = "answered" /\ sigma = 0 => k = 0 \/ arbitrage
  /\ stage = "greeks" => iv # None

IInv == Quote /\ InDomain

(* The constants, and the ends of the grid.                                *)
LEMMA GridBounds ==
  /\ MIN_IV \in Nat /\ MAX_IV \in Nat /\ FLOOR_IV \in Nat /\ MAX_IV_ITER \in Nat
  /\ max_iv \in Nat
  /\ MIN_T \in Nat \ {0} /\ DAY_T \in Nat \ {0} /\ MINUTE_T \in Nat \ {0}
  /\ MILL \in Nat \ {0}
  /\ 0 < MIN_IV /\ MIN_IV <= FLOOR_IV /\ FLOOR_IV <= MAX_IV
BY ImpliedVolAssumption

(* at_least returns an integer not below its bound.                        *)
LEMMA AtLeastBound ==
  ASSUME NEW x \in Int, NEW bound \in Int
  PROVE  at_least(x, bound) \in Int /\ at_least(x, bound) >= bound
BY DEF at_least

(* clamp returns a level of the grid.                                      *)
LEMMA ClampInGrid ==
  ASSUME NEW x \in Int
  PROVE  clamp(x) \in Grid
BY GridBounds DEF clamp, at_least, Grid

(* The caller never passes less than the least time the solver takes, at   *)
(* the close, after it, and past the expiration.                           *)
LEMMA TimeIsEnough ==
  ASSUME dte \in Int, remaining_minutes \in 0..390
  PROVE  time_to_expiry \in Int /\ time_to_expiry >= MIN_T
<1>1. remaining_minutes * MINUTE_T \in Int /\ dte * DAY_T \in Int
  BY GridBounds
<1>2. at_least(remaining_minutes * MINUTE_T, MIN_T) \in Int
        /\ at_least(remaining_minutes * MINUTE_T, MIN_T) >= MIN_T
  BY <1>1, AtLeastBound, GridBounds
<1>3. at_least(dte * DAY_T, MIN_T) \in Int /\ at_least(dte * DAY_T, MIN_T) >= MIN_T
  BY <1>1, AtLeastBound, GridBounds
<1> QED
  BY <1>2, <1>3, Zenon DEF time_to_expiry, minutes_to_years

LEMMA InitIInv == Init => IInv
BY ImpliedVolAssumption DEF Init, IInv, Quote, InDomain

LEMMA NextIInv == IInv /\ [Next]_vars => IInv'
<1> SUFFICES ASSUME IInv, [Next]_vars PROVE IInv'
  OBVIOUS
<1> USE GridBounds DEF IInv, Quote, InDomain, quote
<1>1. CASE Refuse
  <2>1. t' \in Int /\ t' >= MIN_T
    BY <1>1, TimeIsEnough DEF Refuse
  <2>2. k = 0 \/ arbitrage
    BY <1>1, <2>1 DEF Refuse, refused
  <2>3. arbitrage' = arbitrage
    BY <1>1 DEF Refuse, arbitrage, intrinsic, at_least
  <2> QED
    BY <1>1, <2>1, <2>2, <2>3 DEF Refuse, Answer
<1>2. CASE Guess
  <2>1. t' \in Int /\ t' >= MIN_T
    BY <1>2, TimeIsEnough DEF Guess
  <2>2. k > 0
    BY <1>2 DEF Guess, refused
  <2>3. sigma' \in Grid /\ sigma' # 0
    BY <1>2 DEF Guess, Grid
  <2> QED
    BY <1>2, <2>1, <2>2, <2>3 DEF Guess
<1>3. CASE Converge
  BY <1>3 DEF Converge, Answer
<1>4. CASE Flat
  BY <1>4 DEF Flat, Answer
<1>5. CASE NewtonStep
  <2>1. sigma' \in Grid
    BY <1>5, ClampInGrid DEF NewtonStep
  <2>2. sigma' # 0
    BY <2>1 DEF Grid
  <2> QED
    BY <1>5, <2>1, <2>2 DEF NewtonStep
<1>6. CASE GiveUp
  BY <1>6 DEF GiveUp, Answer
<1>7. CASE Accept
  BY <1>7 DEF Accept, accepted
<1>8. CASE Fail
  BY <1>8 DEF Fail
<1>9. CASE AddGreeks
  BY <1>9 DEF AddGreeks
<1>10. CASE UNCHANGED vars
  BY <1>10 DEF vars, arbitrage, intrinsic
<1> QED
  BY <1>1, <1>2, <1>3, <1>4, <1>5, <1>6, <1>7, <1>8, <1>9, <1>10 DEF Next

(* However far the Newton steps jump and however late the quote is, the    *)
(* solver asks the pricing formulas only for what they are defined for, so *)
(* does the tracker, and only quotes without a possible price are refused. *)
THEOREM SolverInDomain == Spec => []NeverDegenerate
<1>1. IInv => NeverDegenerate
  BY GridBounds DEF IInv, Quote, InDomain, NeverDegenerate, degenerate, Grid, arbitrage
<1> QED
  BY <1>1, InitIInv, NextIInv, PTL DEF Spec
=============================================================================
