---------------------------- MODULE GreeksTracker ----------------------------
(* GreeksTracker (trackers/greeks.rs): which at-the-money quotes are        *)
(* sampled for an implied volatility, and what becomes of the samples.     *)
(* The Black-Scholes-Merton solver is not modelled: whether it finds a     *)
(* volatility the tracker accepts is chosen freely.                        *)
EXTENDS OptionsEvent, Accumulators

CONSTANT iv_sample_interval  \* at least 1: with_sample_interval sees to it

VARIABLE self

new ==
  [utc_offset |-> -5,
   dte0_atm_call_iv |-> 0, dte0_atm_put_iv |-> 0, dte0_atm_iv_curve |-> 0,
   dte_bucket_iv |-> [b \in DteBucket |-> 0],
   atm_sample_counter |-> iv_sample_interval - 1,
   atm_quote_count |-> 0, iv_computed |-> 0, iv_failed |-> 0, n_days |-> 0]

State ==
  [utc_offset : {-5, -4},
   dte0_atm_call_iv : Nat, dte0_atm_put_iv : Nat, dte0_atm_iv_curve : Nat,
   dte_bucket_iv : [DteBucket -> Nat],
   atm_sample_counter : Nat, atm_quote_count : Nat,
   iv_computed : Nat, iv_failed : Nat, n_days : Nat]

Init == self = new

begin_day(ctx) == self' = [self EXCEPT !.utc_offset = ctx.utc_offset]

qualifies(event) ==
  /\ is_atm(event) /\ has_valid_bbo(event)
  /\ is_finite(option_mid(event)) /\ option_mid(event) > 0
  /\ event.underlying_positive

counted ==
  [self EXCEPT !.atm_quote_count = @ + 1, !.atm_sample_counter = @ + 1]

(* Fault: tests the counter before it goes up                            *)
sampled_after_count == self.atm_sample_counter % iv_sample_interval = 0

sampled == (self.atm_sample_counter + 1) % iv_sample_interval = 0

(* The solver's result for a sampled quote: a volatility within max_iv.    *)
with_iv(event) ==
  LET today == is_zero_dte(event)
  IN  [counted EXCEPT
        !.iv_computed = @ + 1,
        !.dte_bucket_iv[dte_bucket(event.dte)] = @ + 1,
        !.dte0_atm_call_iv = @ + one_if(today /\ is_call(event)),
        !.dte0_atm_put_iv = @ + one_if(today /\ ~is_call(event)),
        !.dte0_atm_iv_curve = @ + one_if(today)]

without_iv == [counted EXCEPT !.iv_failed = @ + 1]

process_event(event) ==
  \/ ~qualifies(event) /\ UNCHANGED self
  \/ qualifies(event) /\ ~sampled /\ self' = counted
  \/ qualifies(event) /\ sampled /\ self' \in {with_iv(event), without_iv}

end_of_day == self' = [self EXCEPT !.n_days = @ + 1]

(* Fault: the counter runs on from day to day                              *)
reset_day_keeps_counter == UNCHANGED self

(* The counter starts one short of a sample: the first qualifying quote of *)
(* every day is sampled.                                                   *)
reset_day == self' = [self EXCEPT !.atm_sample_counter = iv_sample_interval - 1]

finalize ==
  [n_days |-> self.n_days,
   atm_quote_count |-> self.atm_quote_count,
   iv_computed |-> self.iv_computed, iv_failed |-> self.iv_failed,
   iv_success_rate |-> rate(self.iv_computed, self.iv_computed + self.iv_failed),
   iv_by_dte |-> self.dte_bucket_iv]
=============================================================================
