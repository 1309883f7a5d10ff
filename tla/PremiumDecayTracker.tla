------------------------- MODULE PremiumDecayTracker -------------------------
(* PremiumDecayTracker (trackers/premium_decay.rs): the first and the last  *)
(* mid of the at-the-money contracts that expire today, per right.         *)
EXTENDS OptionsEvent, Accumulators

VARIABLE self

None == NaN  \* Option::None of a mid: a stored mid is a number

new ==
  [utc_offset |-> -5,
   actual_call_curve |-> 0, actual_put_curve |-> 0,
   premium_to_spread_call |-> 0, premium_to_spread_put |-> 0,
   day_first_call_mid |-> None, day_last_call_mid |-> None,
   day_first_put_mid |-> None, day_last_put_mid |-> None,
   daily_call_decay_pct |-> 0, daily_put_decay_pct |-> 0,
   n_days |-> 0, n_0dte_days |-> 0]

State ==
  [utc_offset : {-5, -4},
   actual_call_curve : Nat, actual_put_curve : Nat,
   premium_to_spread_call : Nat, premium_to_spread_put : Nat,
   day_first_call_mid : Nat, day_last_call_mid : Nat,
   day_first_put_mid : Nat, day_last_put_mid : Nat,
   daily_call_decay_pct : Nat, daily_put_decay_pct : Nat,
   n_days : Nat, n_0dte_days : Nat]

Init == self = new

begin_day(ctx) == self' = [self EXCEPT !.utc_offset = ctx.utc_offset]

qualifies(event) ==
  zero_dte_atm(event) /\ has_valid_bbo(event)
    /\ is_finite(option_mid(event)) /\ option_mid(event) > 0

first_or(first, mid) == IF first = None THEN mid ELSE first

process_event(event) ==
  LET mid   == option_mid(event)
      ratio == is_finite(spread(event)) /\ spread(event) > 0
  IN  self' =
        IF ~qualifies(event) THEN self
        ELSE IF is_call(event)
        THEN [self EXCEPT
               !.actual_call_curve = @ + 1,
               !.day_first_call_mid = first_or(@, mid),
               !.day_last_call_mid = mid,
               !.premium_to_spread_call = @ + one_if(ratio)]
        ELSE [self EXCEPT
               !.actual_put_curve = @ + 1,
               !.day_first_put_mid = first_or(@, mid),
               !.day_last_put_mid = mid,
               !.premium_to_spread_put = @ + one_if(ratio)]

had_0dte == self.day_first_call_mid # None \/ self.day_first_put_mid # None

end_of_day ==
  self' = [self EXCEPT
            !.daily_call_decay_pct =
              @ + one_if(self.day_first_call_mid # None /\ self.day_last_call_mid # None),
            !.daily_put_decay_pct =
              @ + one_if(self.day_first_put_mid # None /\ self.day_last_put_mid # None),
            !.n_0dte_days = @ + one_if(had_0dte),
            !.n_days = @ + 1]

(* Fault: keeps the first mids of the day                                *)
reset_day_keeps_first ==
  self' = [self EXCEPT !.day_last_call_mid = None, !.day_last_put_mid = None]

reset_day ==
  self' = [self EXCEPT !.day_first_call_mid = None, !.day_last_call_mid = None,
                       !.day_first_put_mid = None, !.day_last_put_mid = None]

finalize ==
  [n_days |-> self.n_days, n_0dte_days |-> self.n_0dte_days,
   daily_call_decay_count |-> self.daily_call_decay_pct,
   daily_put_decay_count |-> self.daily_put_decay_pct]
=============================================================================
