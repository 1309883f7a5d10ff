--------------------------- MODULE ZeroDteTracker ---------------------------
(* ZeroDteTracker (trackers/zero_dte.rs): quotes and trades of the          *)
(* at-the-money contracts that expire today.                               *)
EXTENDS OptionsEvent, Accumulators

VARIABLE self

(* A curve and a distribution that get the same samples share one counter. *)
new ==
  [utc_offset |-> -5,
   atm_call_spread |-> 0, atm_put_spread |-> 0,
   atm_call_premium |-> 0, atm_put_premium |-> 0,
   atm_trade_size |-> 0, atm_trade_count_curve |-> EmptyWelford,
   atm_bid_ask_imbalance |-> 0,
   day_trade_count |-> 0, day_trade_volume |-> 0, day_0dte_atm_events |-> 0,
   trades_per_day |-> EmptyWelford, volume_per_day |-> EmptyWelford,
   n_days |-> 0, n_0dte_days |-> 0,
   total_0dte_atm_events |-> 0, total_0dte_atm_trades |-> 0]

State ==
  [utc_offset : {-5, -4},
   atm_call_spread : Nat, atm_put_spread : Nat, atm_call_premium : Nat,
   atm_put_premium : Nat, atm_trade_size : Nat, atm_trade_count_curve : Welford,
   atm_bid_ask_imbalance : Nat,
   day_trade_count : Nat, day_trade_volume : Nat, day_0dte_atm_events : Nat,
   trades_per_day : Welford, volume_per_day : Welford,
   n_days : Nat, n_0dte_days : Nat,
   total_0dte_atm_events : Nat, total_0dte_atm_trades : Nat]

Init == self = new

begin_day(ctx) == self' = [self EXCEPT !.utc_offset = ctx.utc_offset]

count_event(event) ==
  LET bbo     == has_valid_bbo(event)
      premium == bbo /\ is_finite(option_mid(event)) /\ option_mid(event) > 0
      width   == bbo /\ is_finite(spread(event))
      trade   == traded(event)
  IN  [self EXCEPT
        !.total_0dte_atm_events = @ + 1,
        !.day_0dte_atm_events = @ + 1,
        !.atm_bid_ask_imbalance = @ + one_if(bbo /\ event.bid_sz + event.ask_sz > 0),
        !.atm_call_spread = @ + one_if(width /\ is_call(event)),
        !.atm_put_spread = @ + one_if(width /\ ~is_call(event)),
        !.atm_call_premium = @ + one_if(premium /\ is_call(event)),
        !.atm_put_premium = @ + one_if(premium /\ ~is_call(event)),
        !.total_0dte_atm_trades = @ + one_if(trade),
        !.atm_trade_size = @ + one_if(trade),
        !.atm_trade_count_curve = IF trade THEN update(@, 1) ELSE @,
        !.day_trade_count = @ + one_if(trade),
        !.day_trade_volume = @ + (IF trade THEN event.trade_size ELSE 0)]

process_event(event) == self' = IF zero_dte_atm(event) THEN count_event(event) ELSE self

(* A day without such an event is no 0DTE day and gives no daily sample.   *)
end_of_day ==
  self' = IF self.day_0dte_atm_events > 0
          THEN [self EXCEPT
                 !.n_0dte_days = @ + 1,
                 !.trades_per_day = update(@, self.day_trade_count),
                 !.volume_per_day = update(@, self.day_trade_volume),
                 !.n_days = @ + 1]
          ELSE [self EXCEPT !.n_days = @ + 1]

reset_day ==
  self' = [self EXCEPT !.day_trade_count = 0, !.day_trade_volume = 0,
                       !.day_0dte_atm_events = 0]

(* A bin of a curve is listed if it has a sample, with its mean.           *)
finalize ==
  [n_days |-> self.n_days, n_0dte_days |-> self.n_0dte_days,
   total_0dte_atm_events |-> self.total_0dte_atm_events,
   total_0dte_atm_trades |-> self.total_0dte_atm_trades,
   trades_per_0dte_day |-> mean(self.trades_per_day),
   volume_per_0dte_day |-> mean(self.volume_per_day),
   intraday_atm_trade_count |->
     {[trade_count |-> mean(bin), count |-> bin.count] :
        bin \in {b \in {self.atm_trade_count_curve} : b.count > 0}}]
=============================================================================
