------------------------- MODULE PutCallRatioTracker -------------------------
(* PutCallRatioTracker (trackers/put_call.rs): put and call contracts and   *)
(* trades of a day, and on how many days their ratio exists.               *)
EXTENDS OptionsEvent, Accumulators

VARIABLE self

new ==
  [utc_offset |-> -5,
   day_call_vol |-> 0, day_put_vol |-> 0, day_call_trades |-> 0, day_put_trades |-> 0,
   day_0dte_call_vol |-> 0, day_0dte_put_vol |-> 0,
   pcr_volume_daily |-> 0, pcr_trades_daily |-> 0, pcr_0dte_daily |-> 0,
   intraday_call_vol |-> 0, intraday_put_vol |-> 0,
   intraday_0dte_call_vol |-> 0, intraday_0dte_put_vol |-> 0,
   n_days |-> 0]

State ==
  [utc_offset : {-5, -4},
   day_call_vol : Nat, day_put_vol : Nat, day_call_trades : Nat, day_put_trades : Nat,
   day_0dte_call_vol : Nat, day_0dte_put_vol : Nat,
   pcr_volume_daily : Nat, pcr_trades_daily : Nat, pcr_0dte_daily : Nat,
   intraday_call_vol : Nat, intraday_put_vol : Nat,
   intraday_0dte_call_vol : Nat, intraday_0dte_put_vol : Nat, n_days : Nat]

Init == self = new

begin_day(ctx) == self' = [self EXCEPT !.utc_offset = ctx.utc_offset]

count_call(event) ==
  LET vol == event.trade_size
  IN  [self EXCEPT
        !.day_call_vol = @ + vol,
        !.day_call_trades = @ + 1,
        !.intraday_call_vol = @ + 1,
        !.day_0dte_call_vol = @ + (IF is_zero_dte(event) THEN vol ELSE 0),
        !.intraday_0dte_call_vol = @ + one_if(is_zero_dte(event))]

count_put(event) ==
  LET vol == event.trade_size
  IN  [self EXCEPT
        !.day_put_vol = @ + vol,
        !.day_put_trades = @ + 1,
        !.intraday_put_vol = @ + 1,
        !.day_0dte_put_vol = @ + (IF is_zero_dte(event) THEN vol ELSE 0),
        !.intraday_0dte_put_vol = @ + one_if(is_zero_dte(event))]

(* Fault: ignores puts                                                   *)
process_event_calls_only(event) ==
  self' = IF traded(event) /\ is_call(event) THEN count_call(event) ELSE self

process_event(event) ==
  self' = IF ~traded(event) THEN self
          ELSE IF is_call(event) THEN count_call(event) ELSE count_put(event)

(* A ratio is a sample of the day only if its denominator is positive.     *)
end_of_day ==
  self' = [self EXCEPT
            !.pcr_volume_daily = @ + one_if(self.day_call_vol > 0),
            !.pcr_trades_daily = @ + one_if(self.day_call_trades > 0),
            !.pcr_0dte_daily = @ + one_if(self.day_0dte_call_vol > 0),
            !.n_days = @ + 1]

reset_day ==
  self' = [self EXCEPT !.day_call_vol = 0, !.day_put_vol = 0,
                       !.day_call_trades = 0, !.day_put_trades = 0,
                       !.day_0dte_call_vol = 0, !.day_0dte_put_vol = 0]

finalize ==
  [n_days |-> self.n_days,
   pcr_volume_count |-> self.pcr_volume_daily,
   pcr_0dte_count |-> self.pcr_0dte_daily]
=============================================================================
