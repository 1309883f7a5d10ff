--------------------------- MODULE QualityTracker ---------------------------
(* QualityTracker (trackers/quality.rs): events, trades, quotes without a   *)
(* valid BBO and distinct contracts.                                       *)
EXTENDS OptionsEvent, Accumulators, FiniteSets

VARIABLE self

new ==
  [total_events |-> 0, quote_events |-> 0, trade_events |-> 0, sentinel_events |-> 0,
   unique_contracts_day |-> {}, unique_contracts_total |-> {},
   events_per_day |-> EmptyWelford, trades_per_day |-> EmptyWelford,
   contracts_per_day |-> EmptyWelford,
   day_events |-> 0, day_trades |-> 0, n_days |-> 0,
   dte_events |-> [b \in DteBucket |-> 0]]

State ==
  [total_events : Nat, quote_events : Nat, trade_events : Nat, sentinel_events : Nat,
   unique_contracts_day : SUBSET Instruments,
   unique_contracts_total : SUBSET Instruments,
   events_per_day : Welford, trades_per_day : Welford, contracts_per_day : Welford,
   day_events : Nat, day_trades : Nat, n_days : Nat, dte_events : [DteBucket -> Nat]]

Init == self = new

begin_day(ctx) == UNCHANGED self

(* Fault: counts trades as well                                          *)
sentinel_any_action(event) == ~has_valid_bbo(event)

(* Only a quote is expected to show a valid BBO.                           *)
sentinel(event) == ~has_valid_bbo(event) /\ ~is_trade(event)

process_event(event) ==
  self' = [self EXCEPT
            !.total_events = @ + 1,
            !.day_events = @ + 1,
            !.unique_contracts_day = @ \cup {event.instrument_id},
            !.unique_contracts_total = @ \cup {event.instrument_id},
            !.trade_events = @ + one_if(is_trade(event)),
            !.day_trades = @ + one_if(is_trade(event)),
            !.quote_events = @ + one_if(~is_trade(event)),
            !.sentinel_events = @ + one_if(sentinel(event)),
            !.dte_events[dte_bucket(event.dte)] = @ + 1]

end_of_day ==
  self' = [self EXCEPT
            !.events_per_day = update(@, self.day_events),
            !.trades_per_day = update(@, self.day_trades),
            !.contracts_per_day = update(@, Cardinality(self.unique_contracts_day)),
            !.n_days = @ + 1]

(* Fault: keeps the contracts of the day                                   *)
reset_day_keeps_contracts == self' = [self EXCEPT !.day_events = 0, !.day_trades = 0]

reset_day ==
  self' = [self EXCEPT !.day_events = 0, !.day_trades = 0, !.unique_contracts_day = {}]

finalize ==
  [n_days |-> self.n_days,
   total_events |-> self.total_events,
   trade_pct |-> rate(self.trade_events, self.total_events),
   quote_to_trade_ratio |-> quotient(self.quote_events, self.trade_events),
   sentinel_pct |-> rate(self.sentinel_events, self.total_events),
   unique_contracts_total |-> Cardinality(self.unique_contracts_total),
   events_per_day |-> mean(self.events_per_day),
   trades_per_day |-> mean(self.trades_per_day),
   contracts_per_day |-> mean(self.contracts_per_day)]
=============================================================================
