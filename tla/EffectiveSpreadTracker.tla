----------------------- MODULE EffectiveSpreadTracker -----------------------
(* OptionsEffectiveSpreadTracker (trackers/effective_spread.rs): where in   *)
(* the BBO trades are made, by size and, for the spreads paid and quoted,  *)
(* by DTE and moneyness.  It keeps no per-day state.                       *)
EXTENDS OptionsEvent, Accumulators

VARIABLE self

SizeBucket == {"1", "2-5", "6-10", "11-50", "51-100", "100+"}

size_bucket(size) ==
  CASE size <= 1 -> "1"
    [] size \in 2..5 -> "2-5"
    [] size \in 6..10 -> "6-10"
    [] size \in 11..50 -> "11-50"
    [] size \in 51..100 -> "51-100"
    [] OTHER -> "100+"

SizeTotal(f) == f["1"] + f["2-5"] + f["6-10"] + f["11-50"] + f["51-100"] + f["100+"]

Location == {"inside", "at", "outside"}

LocationTotal(f) == f["inside"] + f["at"] + f["outside"]

Cell == DteBucket \X Moneyness

new ==
  [utc_offset |-> -5,
   effective_spread_by_dte_moneyness |-> [c \in Cell |-> EmptyWelford],
   quoted_spread_by_dte_moneyness |-> [c \in Cell |-> EmptyWelford],
   effective_spread_by_size |-> [s \in SizeBucket |-> 0],
   trades_bbo |-> [l \in Location |-> 0],
   trades_bbo_0dte_atm |-> [l \in Location |-> 0],
   intraday_spread_0dte_atm |-> 0,
   total_trades |-> 0, n_days |-> 0]

State ==
  [utc_offset : {-5, -4},
   effective_spread_by_dte_moneyness : [Cell -> Welford],
   quoted_spread_by_dte_moneyness : [Cell -> Welford],
   effective_spread_by_size : [SizeBucket -> Nat],
   trades_bbo : [Location -> Nat], trades_bbo_0dte_atm : [Location -> Nat],
   intraday_spread_0dte_atm : Nat, total_trades : Nat, n_days : Nat]

Init == self = new

begin_day(ctx) == self' = [self EXCEPT !.utc_offset = ctx.utc_offset]

qualifies(event) ==
  /\ traded(event) /\ has_valid_bbo(event)
  /\ is_finite(event.trade_price) /\ event.trade_price > 0
  /\ is_finite(option_mid(event)) /\ option_mid(event) > 0

quoted_spread(event) == event.ask_px - event.bid_px

(* Fault: twice the distance of the price from the bid                     *)
effective_spread_from_bid(event) ==
  LET d == 2 * (event.trade_price - event.bid_px) IN IF d >= 0 THEN d ELSE -d

(* Twice the distance of the price from the mid.                           *)
effective_spread(event) ==
  LET d == 2 * event.trade_price - option_mid(event) IN IF d >= 0 THEN d ELSE -d

location(event) ==
  IF event.trade_price > event.bid_px /\ event.trade_price < event.ask_px THEN "inside"
  ELSE IF event.trade_price \in {event.bid_px, event.ask_px} THEN "at"
  ELSE "outside"

count_trade(event) ==
  LET target == zero_dte_atm(event)
      cell   == <<dte_bucket(event.dte), event.moneyness>>
  IN  [self EXCEPT
        !.effective_spread_by_dte_moneyness[cell] = update(@, effective_spread(event)),
        !.quoted_spread_by_dte_moneyness[cell] = update(@, quoted_spread(event)),
        !.effective_spread_by_size[size_bucket(event.trade_size)] = @ + 1,
        !.total_trades = @ + 1,
        !.trades_bbo[location(event)] = @ + 1,
        !.trades_bbo_0dte_atm[location(event)] = @ + one_if(target),
        !.intraday_spread_0dte_atm = @ + one_if(target)]

process_event(event) == self' = IF qualifies(event) THEN count_trade(event) ELSE self

end_of_day == self' = [self EXCEPT !.n_days = @ + 1]

reset_day == UNCHANGED self

(* A cell without a trade is left out of the report.                       *)
listed_cells == {c \in Cell : self.effective_spread_by_dte_moneyness[c].count > 0}

effective_vs_quoted_ratio(eff, quot) == quotient(eff.sum, quot.sum)

finalize_cell(eff, quot) ==
  [effective_spread |-> mean(eff), quoted_spread |-> mean(quot),
   count |-> eff.count,
   effective_vs_quoted_ratio |-> effective_vs_quoted_ratio(eff, quot)]

finalize_location(places) ==
  [trade_through_rate |-> rate(places["outside"], LocationTotal(places)),
   price_improvement_rate |-> rate(places["inside"], LocationTotal(places))]

finalize ==
  [n_days |-> self.n_days, total_trades |-> self.total_trades,
   all |-> finalize_location(self.trades_bbo),
   zero_dte_atm |-> finalize_location(self.trades_bbo_0dte_atm),
   by_dte_moneyness |->
     [c \in listed_cells |-> finalize_cell(self.effective_spread_by_dte_moneyness[c],
                                           self.quoted_spread_by_dte_moneyness[c])],
   by_size_bucket |->
     [s \in {b \in SizeBucket : self.effective_spread_by_size[b] > 0} |->
        self.effective_spread_by_size[s]]]
=============================================================================
