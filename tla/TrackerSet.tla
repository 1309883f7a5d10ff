------------------------------ MODULE TrackerSet ------------------------------
(***************************************************************************)
(* The eight trackers of the default configuration over a run of several   *)
(* days.  Their caller is the lifecycle of module OptionsTracker, which    *)
(* run() is shown to keep (Profiler); each of its steps is taken on all    *)
(* the trackers, and every event goes to all of them.                      *)
(*                                                                         *)
(* No tracker reads another one, but their reports describe the same       *)
(* events: what they count must agree wherever their populations do.       *)
(***************************************************************************)
EXTENDS OptionsEvent, Accumulators, Sequences, FiniteSets

CONSTANTS
  iv_sample_interval,
  FirstDate,  \* day number of the first trading date
  MaxDays,    \* bound: trading days of a run
  MaxEvents   \* bound: events of a run

ASSUME TrackerSetAssumption ==
  /\ iv_sample_interval \in Nat \ {0}
  /\ FirstDate \in Nat
  /\ MaxDays \in Nat
  /\ MaxEvents \in Nat

VARIABLES
  stage, pending, seen, days,            \* the caller: see OptionsTracker
  ctx,                                   \* DayContext of the latest day
  quality, spreads, zero_dte, premium_decay, volume, greeks, put_call,
  effective_spread,                      \* the trackers
  today                                  \* history: the events since begin_day

caller   == <<stage, pending, seen, days>>
trackers == <<quality, spreads, zero_dte, premium_decay, volume, greeks, put_call,
              effective_spread>>
vars == <<caller, ctx, trackers, today>>

Caller        == INSTANCE OptionsTracker
Quality       == INSTANCE QualityTracker WITH self <- quality
Spread        == INSTANCE SpreadTracker WITH self <- spreads
ZeroDte       == INSTANCE ZeroDteTracker WITH self <- zero_dte
PremiumDecay  == INSTANCE PremiumDecayTracker WITH self <- premium_decay
Volume        == INSTANCE VolumeTracker WITH self <- volume
Greeks        == INSTANCE GreeksTracker WITH self <- greeks
PutCall       == INSTANCE PutCallRatioTracker WITH self <- put_call
Effective     == INSTANCE EffectiveSpreadTracker WITH self <- effective_spread

Init ==
  /\ Caller!Init
  /\ ctx = [trading_date |-> FirstDate, utc_offset |-> -5]
  /\ Quality!Init /\ Spread!Init /\ ZeroDte!Init /\ PremiumDecay!Init
  /\ Volume!Init /\ Greeks!Init /\ PutCall!Init /\ Effective!Init
  /\ today = << >>

BeginDay ==
  /\ Caller!BeginDay
  /\ days < MaxDays
  /\ \E offset \in {-5, -4} :
       ctx' = [trading_date |-> FirstDate + days, utc_offset |-> offset]
  /\ Quality!begin_day(ctx') /\ Spread!begin_day(ctx') /\ ZeroDte!begin_day(ctx')
  /\ PremiumDecay!begin_day(ctx') /\ Volume!begin_day(ctx') /\ Greeks!begin_day(ctx')
  /\ PutCall!begin_day(ctx') /\ Effective!begin_day(ctx')
  /\ UNCHANGED today

Process(event) ==
  /\ Quality!process_event(event) /\ Spread!process_event(event)
  /\ ZeroDte!process_event(event) /\ PremiumDecay!process_event(event)
  /\ Volume!process_event(event) /\ Greeks!process_event(event)
  /\ PutCall!process_event(event) /\ Effective!process_event(event)
  /\ today' = Append(today, event)

ProcessEvent ==
  /\ Caller!ProcessEvent
  /\ seen < MaxEvents
  /\ \E record \in Records : Process(enrich(record, ctx.trading_date))
  /\ UNCHANGED ctx

EndOfDay ==
  /\ Caller!EndOfDay
  /\ Quality!end_of_day /\ Spread!end_of_day /\ ZeroDte!end_of_day
  /\ PremiumDecay!end_of_day /\ Volume!end_of_day /\ Greeks!end_of_day
  /\ PutCall!end_of_day /\ Effective!end_of_day
  /\ UNCHANGED <<ctx, today>>

ResetDay ==
  /\ Caller!ResetDay
  /\ Quality!reset_day /\ Spread!reset_day /\ ZeroDte!reset_day
  /\ PremiumDecay!reset_day /\ Volume!reset_day /\ Greeks!reset_day
  /\ PutCall!reset_day /\ Effective!reset_day
  /\ today' = << >>
  /\ UNCHANGED ctx

(* finalize(&self) of each tracker reads its state and leaves it alone.    *)
Finalize ==
  /\ Caller!Finalize
  /\ UNCHANGED <<ctx, trackers, today>>

Next == BeginDay \/ ProcessEvent \/ EndOfDay \/ ResetDay \/ Finalize

Spec == Init /\ [][Next]_vars
-----------------------------------------------------------------------------
TypeOK ==
  /\ stage \in Caller!Stages /\ pending \in Nat /\ seen \in Nat /\ days \in Nat
  /\ ctx \in [trading_date : Nat, utc_offset : {-5, -4}]
  /\ today \in Seq(Event)
  /\ quality \in Quality!State /\ spreads \in Spread!State
  /\ zero_dte \in ZeroDte!State /\ premium_decay \in PremiumDecay!State
  /\ volume \in Volume!State /\ greeks \in Greeks!State
  /\ put_call \in PutCall!State /\ effective_spread \in Effective!State

(* The parts of every breakdown a report prints add up to its whole: DTE   *)
(* and moneyness buckets, rights, trade sizes and places in the BBO.  The  *)
(* 0DTE curves and counters agree with the 0DTE bucket beside them, which  *)
(* an expired contract (negative DTE) or one of tomorrow is not part of.   *)
BreakdownsAddUp ==
  /\ volume.total_volume = DteTotal(volume.dte_volume)
  /\ volume.total_volume = MoneynessTotal(volume.moneyness_volume)
  /\ volume.total_volume = volume.call_volume + volume.put_volume
  /\ volume.total_trades = DteTotal(volume.dte_trades)
  /\ volume.total_trades = volume.call_trade_size + volume.put_trade_size
  /\ volume.intraday_0dte_volume = volume.dte_trades["0dte"]
  /\ quality.total_events = DteTotal(quality.dte_events)
  /\ quality.total_events = quality.trade_events + quality.quote_events
  /\ spreads.all_spread_usd = DteTotal(spreads.per_dte_spread)
  /\ spreads.all_spread_usd = MoneynessTotal(spreads.per_moneyness_spread)
  /\ greeks.iv_computed = DteTotal(greeks.dte_bucket_iv)
  /\ greeks.dte_bucket_iv["0dte"] = greeks.dte0_atm_call_iv + greeks.dte0_atm_put_iv
  /\ effective_spread.total_trades = Effective!LocationTotal(effective_spread.trades_bbo)
  /\ effective_spread.total_trades = Effective!SizeTotal(effective_spread.effective_spread_by_size)
  /\ effective_spread.intraday_spread_0dte_atm =
       Effective!LocationTotal(effective_spread.trades_bbo_0dte_atm)

(* What has been counted over the run but is in no daily sample yet.       *)
open(amount) == IF stage = "closed" THEN 0 ELSE amount

(* The days add up to the run: a daily sample covers what was counted      *)
(* since the previous one, no event is in two days or in none.  A day with *)
(* no 0DTE at-the-money event is left out of the 0DTE samples, which loses *)
(* no trade.                                                               *)
DaysAddUp ==
  /\ volume.total_volume = volume.daily_volume.sum + open(volume.day_volume)
  /\ volume.total_trades = volume.daily_trades.sum + open(volume.day_trades)
  /\ quality.total_events = quality.events_per_day.sum + open(quality.day_events)
  /\ quality.trade_events = quality.trades_per_day.sum + open(quality.day_trades)
  /\ zero_dte.total_0dte_atm_trades =
       zero_dte.trades_per_day.sum + open(zero_dte.day_trade_count)
  /\ zero_dte.trades_per_day.count = zero_dte.n_0dte_days
  /\ volume.daily_volume.count = days /\ quality.events_per_day.count = days

(* The reports on trades are about the same trades: the put and call       *)
(* counters of the day are the volume of the day split in two, and what is *)
(* at the money and expires today is a part of it.                         *)
SameTrades ==
  /\ volume.day_volume = put_call.day_call_vol + put_call.day_put_vol
  /\ volume.day_trades = put_call.day_call_trades + put_call.day_put_trades
  /\ volume.total_trades = put_call.intraday_call_vol + put_call.intraday_put_vol
  /\ volume.dte_trades["0dte"] =
       put_call.intraday_0dte_call_vol + put_call.intraday_0dte_put_vol
  /\ put_call.day_0dte_call_vol <= put_call.day_call_vol
  /\ put_call.day_0dte_put_vol <= put_call.day_put_vol
  /\ zero_dte.day_trade_volume <=
       put_call.day_0dte_call_vol + put_call.day_0dte_put_vol

(* The reports on quotes are about the same quotes: the 0DTE at-the-money  *)
(* spreads of two trackers have one count, so have the mids of three, and  *)
(* every premium is divided by a spread (the accessors of event.rs agree   *)
(* on which BBO is valid: F-NEW-R5-1).                                     *)
SameQuotes ==
  /\ spreads.dte0_atm_spread_usd = zero_dte.atm_call_spread + zero_dte.atm_put_spread
  /\ spreads.dte0_atm_intraday_mid = zero_dte.atm_call_premium + zero_dte.atm_put_premium
  /\ spreads.dte0_atm_spread_pct = spreads.dte0_atm_spread_usd
  /\ spreads.all_spread_pct = spreads.all_spread_usd
  /\ premium_decay.actual_call_curve = zero_dte.atm_call_premium
  /\ premium_decay.actual_put_curve = zero_dte.atm_put_premium
  /\ premium_decay.premium_to_spread_call = premium_decay.actual_call_curve
  /\ premium_decay.premium_to_spread_put = premium_decay.actual_put_curve

(* Where one report covers a part of what another one covers, it counts no *)
(* more.  The two n_0dte_days of the output differ: a day with 0DTE        *)
(* at-the-money events and no valid BBO among them is in one alone.        *)
PopulationsNest ==
  /\ quality.sentinel_events <= quality.quote_events
  /\ effective_spread.total_trades <= volume.total_trades
  /\ volume.total_trades <= quality.trade_events
  /\ Effective!LocationTotal(effective_spread.trades_bbo_0dte_atm)
       <= zero_dte.total_0dte_atm_trades
  /\ zero_dte.total_0dte_atm_trades <= volume.dte_trades["0dte"]
  /\ zero_dte.total_0dte_atm_trades <= zero_dte.total_0dte_atm_events
  /\ zero_dte.total_0dte_atm_events <= quality.dte_events["0dte"]
  /\ greeks.atm_quote_count <= spreads.per_moneyness_spread["atm"]
  /\ premium_decay.n_0dte_days <= zero_dte.n_0dte_days /\ zero_dte.n_0dte_days <= days
  /\ put_call.pcr_volume_daily = put_call.pcr_trades_daily
  /\ put_call.pcr_0dte_daily <= put_call.pcr_volume_daily
  /\ put_call.pcr_volume_daily <= days

Numbered(P(_)) == Cardinality({k \in DOMAIN today : P(today[k])})

FirstMid(type) ==
  LET Q == {k \in DOMAIN today : PremiumDecay!qualifies(today[k])
                                   /\ today[k].contract_type = type}
  IN  IF Q = {} THEN NaN
      ELSE option_mid(today[CHOOSE k \in Q : \A j \in Q : k <= j])

LastMid(type) ==
  LET Q == {k \in DOMAIN today : PremiumDecay!qualifies(today[k])
                                   /\ today[k].contract_type = type}
  IN  IF Q = {} THEN NaN
      ELSE option_mid(today[CHOOSE k \in Q : \A j \in Q : k >= j])

(* The per-day state of every tracker is a function of the events of the   *)
(* day alone: nothing of the day before is left in it (no begin_day clears *)
(* anything, so it all rests on reset_day).                                *)
DayStateIsOfToday ==
  /\ quality.day_events = Len(today) /\ Len(today) = pending
  /\ quality.day_trades = Numbered(is_trade)
  /\ quality.unique_contracts_day = {today[k].instrument_id : k \in DOMAIN today}
  /\ volume.day_trades = Numbered(traded)
  /\ zero_dte.day_0dte_atm_events = Numbered(zero_dte_atm)
  /\ premium_decay.day_first_call_mid = FirstMid("call")
  /\ premium_decay.day_last_call_mid = LastMid("call")
  /\ premium_decay.day_first_put_mid = FirstMid("put")
  /\ premium_decay.day_last_put_mid = LastMid("put")
  /\ greeks.atm_sample_counter = iv_sample_interval - 1 + Numbered(Greeks!qualifies)

samples == greeks.iv_computed + greeks.iv_failed

(* No quote is lost to the sampling, and no day samples more often than    *)
(* its interval says: q qualifying quotes on n days give between           *)
(* q / interval and q / interval + n samples.                              *)
IvIsSampled ==
  LET begun == days + one_if(stage = "in_day")
  IN  /\ samples * iv_sample_interval >= greeks.atm_quote_count
      /\ samples * iv_sample_interval
           <= greeks.atm_quote_count + begun * (iv_sample_interval - 1)

(* The first qualifying quote of each day is sampled, wherever in its      *)
(* interval the day before ended (greeks.rs, atm_sample_counter).          *)
FirstQuoteIsSampled ==
  [][ Numbered(Greeks!qualifies) = 0 /\ Numbered(Greeks!qualifies)' = 1
        => samples' = samples + 1 ]_vars

(* The reports, once finalize() has been called on every tracker.          *)
Finalized == stage = "finalized"

AtMostOne(value) == value.den > 0 /\ value.num <= value.den

(* A share of trades, quotes or places in the BBO; trades through the BBO  *)
(* and inside it are at most all trades.                                   *)
Shares ==
  /\ AtMostOne(Quality!finalize.trade_pct) /\ AtMostOne(Quality!finalize.sentinel_pct)
  /\ AtMostOne(Volume!finalize.dte0_volume_share)
  /\ AtMostOne(Greeks!finalize.iv_success_rate)
  /\ \A place \in {Effective!finalize.all, Effective!finalize.zero_dte_atm} :
       /\ AtMostOne(place.trade_through_rate)
       /\ AtMostOne(place.price_improvement_rate)
       /\ place.trade_through_rate.num + place.price_improvement_rate.num
            <= place.trade_through_rate.den

(* Reports agree on what cannot be computed.  A share is never null, also  *)
(* of a run without days, days without events, events without trades.  The *)
(* put-call ratio of the run is null exactly if no day has one; a run that *)
(* has it has a ratio of quotes to trades, and a run that measures the     *)
(* cost of a trade has that too; daily means exist exactly if there is a   *)
(* day, of the kind they are about.  All reports are of the same days.     *)
NullsAgree ==
  Finalized =>
    /\ Shares
    /\ Volume!finalize.put_call_ratio_volume = null <=> PutCall!finalize.pcr_volume_count = 0
    /\ Volume!finalize.put_call_ratio_volume # null
         => Quality!finalize.quote_to_trade_ratio # null
    /\ Quality!finalize.quote_to_trade_ratio = null => DOMAIN Effective!finalize.by_size_bucket = {}
    /\ \A value \in {Volume!finalize.daily_volume, Volume!finalize.daily_trades,
                     Quality!finalize.events_per_day, Quality!finalize.contracts_per_day} :
         value = null <=> days = 0
    /\ ZeroDte!finalize.trades_per_0dte_day = null <=> ZeroDte!finalize.n_0dte_days = 0
    /\ \A n \in {Quality!finalize.n_days, Spread!finalize.n_days, ZeroDte!finalize.n_days,
                 PremiumDecay!finalize.n_days, Volume!finalize.n_days, Greeks!finalize.n_days,
                 PutCall!finalize.n_days, Effective!finalize.n_days} : n = days

(* The sum over the cells of a table by DTE and moneyness.                 *)
CellTotal(f) ==
  DteTotal([b \in DteBucket |-> MoneynessTotal([m \in Moneyness |-> f[<<b, m>>]])])

(* The table of spreads and the places in the BBO of one report tell the   *)
(* same story: every counted trade is in one listed cell, each of which    *)
(* has a ratio; without a trade through the BBO no cell paid more than was *)
(* quoted, without one inside it none paid less.                           *)
CellsTellOfPlaces ==
  Finalized =>
    LET report == Effective!finalize
        cells  == report.by_dte_moneyness
        rows   == DOMAIN cells
    IN  /\ report.total_trades =
             CellTotal([c \in Effective!Cell |-> IF c \in rows THEN cells[c].count ELSE 0])
        /\ \A c \in rows :
             LET paid == cells[c].effective_vs_quoted_ratio
             IN  /\ paid.den > 0
                 /\ report.all.trade_through_rate.num = 0 => paid.num <= paid.den
                 /\ report.all.price_improvement_rate.num = 0 => paid.num >= paid.den

(* README.md lists, for the trades at the money that expire today, a curve *)
(* of their number per minute.  The curve gets the sample 1 for each trade *)
(* and reports the mean of its samples.                                    *)
TradeCountCurveCounts ==
  Finalized =>
    \A bin \in ZeroDte!finalize.intraday_atm_trade_count :
      bin.trade_count.num = bin.count * bin.trade_count.den
=============================================================================
