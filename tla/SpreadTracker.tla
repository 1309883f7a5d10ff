---------------------------- MODULE SpreadTracker ----------------------------
(* SpreadTracker (trackers/spread.rs): the spreads of valid BBOs, by DTE    *)
(* and moneyness.  It keeps no per-day state.                              *)
EXTENDS OptionsEvent, Accumulators

VARIABLE self

(* A curve and a distribution that get the same samples share one counter. *)
new ==
  [utc_offset |-> -5,
   all_spread_usd |-> 0, all_spread_pct |-> 0,
   dte0_atm_spread_usd |-> 0, dte0_atm_spread_pct |-> 0, dte0_atm_intraday_mid |-> 0,
   per_moneyness_spread |-> [m \in Moneyness |-> 0],
   per_dte_spread |-> [b \in DteBucket |-> 0],
   n_days |-> 0]

State ==
  [utc_offset : {-5, -4},
   all_spread_usd : Nat, all_spread_pct : Nat,
   dte0_atm_spread_usd : Nat, dte0_atm_spread_pct : Nat, dte0_atm_intraday_mid : Nat,
   per_moneyness_spread : [Moneyness -> Nat], per_dte_spread : [DteBucket -> Nat],
   n_days : Nat]

Init == self = new

begin_day(ctx) == self' = [self EXCEPT !.utc_offset = ctx.utc_offset]

count_spread(event) ==
  LET width  == is_finite(spread(event))
      pct    == spread_pct_is_finite(event)
      target == zero_dte_atm(event)
  IN  [self EXCEPT
        !.all_spread_usd = @ + one_if(width),
        !.per_moneyness_spread[event.moneyness] = @ + one_if(width),
        !.per_dte_spread[dte_bucket(event.dte)] = @ + one_if(width),
        !.all_spread_pct = @ + one_if(pct),
        !.dte0_atm_spread_usd = @ + one_if(target /\ width),
        !.dte0_atm_spread_pct = @ + one_if(target /\ pct),
        !.dte0_atm_intraday_mid = @ + one_if(target /\ is_finite(option_mid(event)))]

(* Fault: ignores the BBO shown with a trade                             *)
process_event_quotes_only(event) ==
  self' = IF has_valid_bbo(event) /\ ~is_trade(event) THEN count_spread(event) ELSE self

process_event(event) == self' = IF has_valid_bbo(event) THEN count_spread(event) ELSE self

end_of_day == self' = [self EXCEPT !.n_days = @ + 1]

reset_day == UNCHANGED self

finalize ==
  [n_days |-> self.n_days,
   all_spread |-> self.all_spread_usd,
   spread_by_moneyness |-> self.per_moneyness_spread,
   spread_by_dte |-> self.per_dte_spread]
=============================================================================
