---------------------------- MODULE VolumeTracker ----------------------------
(* VolumeTracker (trackers/volume.rs): contracts traded, by right, DTE,     *)
(* moneyness and day.                                                      *)
EXTENDS OptionsEvent, Accumulators

VARIABLE self

new ==
  [utc_offset |-> -5,
   total_trades |-> 0, total_volume |-> 0, call_volume |-> 0, put_volume |-> 0,
   trade_size_dist |-> 0, call_trade_size |-> 0, put_trade_size |-> 0,
   dte_volume |-> [b \in DteBucket |-> 0],
   dte_trades |-> [b \in DteBucket |-> 0],
   moneyness_volume |-> [m \in Moneyness |-> 0],
   intraday_all_volume |-> 0, intraday_0dte_volume |-> 0,
   daily_volume |-> EmptyWelford, daily_trades |-> EmptyWelford,
   day_volume |-> 0, day_trades |-> 0, n_days |-> 0]

State ==
  [utc_offset : {-5, -4},
   total_trades : Nat, total_volume : Nat, call_volume : Nat, put_volume : Nat,
   trade_size_dist : Nat, call_trade_size : Nat, put_trade_size : Nat,
   dte_volume : [DteBucket -> Nat], dte_trades : [DteBucket -> Nat],
   moneyness_volume : [Moneyness -> Nat],
   intraday_all_volume : Nat, intraday_0dte_volume : Nat,
   daily_volume : Welford, daily_trades : Welford,
   day_volume : Nat, day_trades : Nat, n_days : Nat]

Init == self = new

begin_day(ctx) == self' = [self EXCEPT !.utc_offset = ctx.utc_offset]

count_trade(event) ==
  LET vol    == event.trade_size
      bucket == dte_bucket(event.dte)
      call   == is_call(event)
  IN  [self EXCEPT
        !.total_trades = @ + 1,
        !.total_volume = @ + vol,
        !.day_trades = @ + 1,
        !.day_volume = @ + vol,
        !.trade_size_dist = @ + 1,
        !.call_volume = @ + (IF call THEN vol ELSE 0),
        !.call_trade_size = @ + one_if(call),
        !.put_volume = @ + (IF call THEN 0 ELSE vol),
        !.put_trade_size = @ + one_if(~call),
        !.dte_volume[bucket] = @ + vol,
        !.dte_trades[bucket] = @ + 1,
        !.moneyness_volume[event.moneyness] = @ + vol,
        !.intraday_all_volume = @ + 1,
        !.intraday_0dte_volume = @ + one_if(is_zero_dte(event))]

process_event(event) == self' = IF traded(event) THEN count_trade(event) ELSE self

end_of_day ==
  self' = [self EXCEPT
            !.daily_volume = update(@, self.day_volume),
            !.daily_trades = update(@, self.day_trades),
            !.n_days = @ + 1]

(* Fault: keeps the volume of the day                                    *)
reset_day_trades_only == self' = [self EXCEPT !.day_trades = 0]

reset_day == self' = [self EXCEPT !.day_volume = 0, !.day_trades = 0]

finalize ==
  [n_days |-> self.n_days,
   total_trades |-> self.total_trades, total_volume |-> self.total_volume,
   put_call_ratio_volume |-> quotient(self.put_volume, self.call_volume),
   dte0_volume_share |-> rate(self.dte_volume["0dte"], self.total_volume),
   daily_volume |-> mean(self.daily_volume), daily_trades |-> mean(self.daily_trades)]
=============================================================================
