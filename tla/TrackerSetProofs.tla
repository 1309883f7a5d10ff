-------------------------- MODULE TrackerSetProofs --------------------------
(***************************************************************************)
(* Proofs about TrackerSet for every set of contracts and records, every   *)
(* sampling interval and any number of days and events.                    *)
(*                                                                         *)
(* The first part says what one lifecycle call does to each tracker, field *)
(* by field: a lemma for process_event and one for the calls made once a   *)
(* day; both say that the tracker keeps its type.  The second part puts    *)
(* the steps of the trackers together.                                     *)
(***************************************************************************)
EXTENDS TrackerSet, FiniteSetTheorems, TLAPS

-----------------------------------------------------------------------------
(* One call, one tracker                                                   *)

(* Contracts traded by an event.                                           *)
contracts(event) == IF traded(event) THEN event.trade_size ELSE 0

(* An enriched record is an event.                                         *)
LEMMA EnrichedIsEvent ==
  ASSUME NEW record \in Records, NEW date \in Nat
  PROVE  enrich(record, date) \in Event
<1>1. record \in Record
  BY OptionsEventAssumption
<1>2. /\ record.instrument_id \in Instruments /\ record.price \in Int /\ record.size \in Nat
      /\ record.bid_px \in Int /\ record.ask_px \in Int
      /\ record.bid_sz \in Nat /\ record.ask_sz \in Nat
      /\ record.classified \in Moneyness \cup {"none"}
  BY <1>1 DEF Record
<1>3. ContractOf[record.instrument_id] \in ContractInfo
  BY <1>2, OptionsEventAssumption
<1>4. /\ ContractOf[record.instrument_id].contract_type \in {"call", "put"}
      /\ ContractOf[record.instrument_id].expiration \in Nat
  BY <1>3 DEF ContractInfo
<1>5. ContractOf[record.instrument_id].expiration - date \in Int
  BY <1>4
<1>6. \A raw \in Int : price_or_nan(raw) \in Nat
  BY DEF price_or_nan, NaN
<1>7. action_of(record) \in {"trade", "quote", "other"} /\ trade_size(record) \in Nat
  BY <1>2 DEF action_of, trade_size
<1>8. moneyness_of(record) \in Moneyness
  BY <1>2 DEF moneyness_of, Moneyness
<1> QED
  BY <1>2, <1>4, <1>5, <1>6, <1>7, <1>8 DEF enrich, Event

(* The types of what the trackers ask of an event.                         *)
LEMMA EventFacts ==
  ASSUME NEW event \in Event
  PROVE  /\ event.instrument_id \in Instruments
         /\ event.contract_type \in {"call", "put"}
         /\ event.trade_size \in Nat /\ event.trade_price \in Nat
         /\ event.bid_px \in Nat /\ event.ask_px \in Nat
         /\ event.bid_sz \in Nat /\ event.ask_sz \in Nat
         /\ event.dte \in Int /\ event.moneyness \in Moneyness
         /\ event.underlying_positive \in BOOLEAN
         /\ dte_bucket(event.dte) \in DteBucket
         /\ contracts(event) \in Nat
         /\ traded(event) => contracts(event) > 0
         /\ ~traded(event) => contracts(event) = 0
  BY DEF Event, dte_bucket, DteBucket, contracts, traded

(* An event is counted for today exactly if it expires today.              *)
LEMMA ZeroDteBucket ==
  ASSUME NEW event \in Event
  PROVE  dte_bucket(event.dte) = "0dte" <=> is_zero_dte(event)
  BY DEF dte_bucket, is_zero_dte

(* Where the BBO is valid, its mid and its spread are positive numbers: no *)
(* accessor of event.rs disagrees with another.                            *)
LEMMA ValidBBO ==
  ASSUME NEW event \in Event, has_valid_bbo(event)
  PROVE  /\ is_finite(option_mid(event)) /\ option_mid(event) > 0
         /\ option_mid(event) \in Nat /\ option_mid(event) # NaN
         /\ is_finite(spread(event)) /\ spread(event) > 0
         /\ spread_pct_is_finite(event)
  BY EventFacts DEF has_valid_bbo, quoted, option_mid, spread, is_finite, NaN,
     spread_pct_is_finite

LEMMA OneIf ==
  /\ \A c : one_if(c) \in Nat
  /\ \A c : c => one_if(c) = 1
  /\ \A c : ~c => one_if(c) = 0
  BY DEF one_if

(* Counting n more in one bucket of a breakdown.                           *)
LEMMA DteAdd ==
  ASSUME NEW f \in [DteBucket -> Nat], NEW b \in DteBucket, NEW n \in Nat
  PROVE  /\ [f EXCEPT ![b] = @ + n] \in [DteBucket -> Nat]
         /\ DteTotal(f) \in Nat
         /\ DteTotal([f EXCEPT ![b] = @ + n]) = DteTotal(f) + n
         /\ [f EXCEPT ![b] = @ + n]["0dte"] = f["0dte"] + (IF b = "0dte" THEN n ELSE 0)
  BY DEF DteBucket, DteTotal

LEMMA MoneynessAdd ==
  ASSUME NEW f \in [Moneyness -> Nat], NEW m \in Moneyness, NEW n \in Nat
  PROVE  /\ [f EXCEPT ![m] = @ + n] \in [Moneyness -> Nat]
         /\ MoneynessTotal(f) \in Nat
         /\ MoneynessTotal([f EXCEPT ![m] = @ + n]) = MoneynessTotal(f) + n
         /\ [f EXCEPT ![m] = @ + n]["atm"] = f["atm"] + (IF m = "atm" THEN n ELSE 0)
  BY DEF Moneyness, MoneynessTotal
-----------------------------------------------------------------------------
(* QualityTracker                                                          *)

LEMMA QualityTypes ==
  ASSUME quality \in Quality!State
  PROVE  /\ quality.total_events \in Nat /\ quality.quote_events \in Nat
         /\ quality.trade_events \in Nat /\ quality.sentinel_events \in Nat
         /\ quality.unique_contracts_day \in SUBSET Instruments
         /\ quality.unique_contracts_total \in SUBSET Instruments
         /\ quality.events_per_day \in Quality!Welford
         /\ quality.trades_per_day \in Quality!Welford
         /\ quality.contracts_per_day \in Quality!Welford
         /\ quality.day_events \in Nat /\ quality.day_trades \in Nat /\ quality.n_days \in Nat
         /\ quality.dte_events \in [DteBucket -> Nat]
         /\ DteTotal(quality.dte_events) \in Nat
         /\ quality.dte_events["0dte"] \in Nat
         /\ quality.events_per_day.sum \in Nat /\ quality.events_per_day.count \in Nat
         /\ quality.trades_per_day.sum \in Nat /\ quality.trades_per_day.count \in Nat
         /\ quality.contracts_per_day.count \in Nat
<1>1. /\ quality.total_events \in Nat /\ quality.quote_events \in Nat
      /\ quality.trade_events \in Nat /\ quality.sentinel_events \in Nat
      /\ quality.unique_contracts_day \in SUBSET Instruments
      /\ quality.unique_contracts_total \in SUBSET Instruments
      /\ quality.events_per_day \in Quality!Welford
      /\ quality.trades_per_day \in Quality!Welford
      /\ quality.contracts_per_day \in Quality!Welford
      /\ quality.day_events \in Nat /\ quality.day_trades \in Nat /\ quality.n_days \in Nat
      /\ quality.dte_events \in [DteBucket -> Nat]
  BY DEF Quality!State, DteBucket, Quality!DteBucket
<1> QED
  BY <1>1 DEF DteBucket, DteTotal, Moneyness, MoneynessTotal, Quality!Welford

LEMMA QualityProcess ==
  ASSUME quality \in Quality!State, NEW event \in Event, Quality!process_event(event)
  PROVE  /\ quality' \in Quality!State
         /\ quality'.total_events = quality.total_events + 1
         /\ quality'.day_events = quality.day_events + 1
         /\ quality'.trade_events = quality.trade_events + one_if(is_trade(event))
         /\ quality'.day_trades = quality.day_trades + one_if(is_trade(event))
         /\ quality'.quote_events = quality.quote_events + one_if(~is_trade(event))
         /\ quality'.sentinel_events =
              quality.sentinel_events + one_if(~has_valid_bbo(event) /\ ~is_trade(event))
         /\ quality'.unique_contracts_day =
              quality.unique_contracts_day \cup {event.instrument_id}
         /\ DteTotal(quality'.dte_events) = DteTotal(quality.dte_events) + 1
         /\ quality'.dte_events["0dte"] =
              quality.dte_events["0dte"] + one_if(is_zero_dte(event))
         /\ quality'.events_per_day = quality.events_per_day
         /\ quality'.trades_per_day = quality.trades_per_day
         /\ quality'.contracts_per_day = quality.contracts_per_day
         /\ quality'.n_days = quality.n_days
<1>b. /\ quality'.total_events = quality.total_events + 1
      /\ quality'.day_events = quality.day_events + 1
      /\ quality'.trade_events = quality.trade_events + one_if(is_trade(event))
      /\ quality'.day_trades = quality.day_trades + one_if(is_trade(event))
      /\ quality'.quote_events = quality.quote_events + one_if(~is_trade(event))
      /\ quality'.sentinel_events =
           quality.sentinel_events + one_if(~has_valid_bbo(event) /\ ~is_trade(event))
  BY DEF Quality!State, Quality!process_event, one_if, is_trade, has_valid_bbo, quoted,
     is_finite, NaN, Quality!one_if, Quality!is_trade, Quality!has_valid_bbo, Quality!quoted,
     Quality!is_finite, Quality!NaN, Quality!sentinel
<1>c. /\ quality'.unique_contracts_day = quality.unique_contracts_day \cup {event.instrument_id}
      /\ quality'.unique_contracts_total =
           quality.unique_contracts_total \cup {event.instrument_id}
      /\ quality'.events_per_day = quality.events_per_day
      /\ quality'.trades_per_day = quality.trades_per_day
      /\ quality'.contracts_per_day = quality.contracts_per_day
      /\ quality'.n_days = quality.n_days
  BY DEF Quality!State, Quality!process_event
<1>d. quality'.dte_events = [quality.dte_events EXCEPT ![dte_bucket(event.dte)] = @ + 1]
  BY DEF Quality!State, Quality!process_event, dte_bucket, Quality!dte_bucket
<1>e. quality.dte_events \in [DteBucket -> Nat]
  BY QualityTypes DEF DteBucket, Quality!DteBucket
<1>f. /\ quality'.dte_events \in [DteBucket -> Nat]
      /\ DteTotal(quality'.dte_events) = DteTotal(quality.dte_events) + 1
      /\ quality'.dte_events["0dte"] = quality.dte_events["0dte"] + one_if(is_zero_dte(event))
  BY <1>d, <1>e, DteAdd, EventFacts, ZeroDteBucket DEF one_if
<1>g. quality' = [x \in DOMAIN quality |-> quality'[x]]
  BY ZenonT(60) DEF Quality!process_event
<1>h. quality' \in Quality!State
  BY QualityTypes, <1>b, <1>c, <1>f, <1>g, EventFacts, OneIf
     DEF Quality!State, DteBucket, Quality!DteBucket
<1> QED
  BY <1>b, <1>c, <1>f, <1>h

LEMMA SameCardinality == \A S : Quality!Cardinality(S) = Cardinality(S)
  BY Zenon DEF Cardinality, Quality!Cardinality

(* The mean of the contracts of a day needs them to be finitely many.      *)
LEMMA QualityEndOfDay ==
  ASSUME quality \in Quality!State, IsFiniteSet(quality.unique_contracts_day),
         Quality!end_of_day
  PROVE  /\ quality' \in Quality!State
         /\ quality'.total_events = quality.total_events
         /\ quality'.day_events = quality.day_events
         /\ quality'.trade_events = quality.trade_events
         /\ quality'.day_trades = quality.day_trades
         /\ quality'.quote_events = quality.quote_events
         /\ quality'.sentinel_events = quality.sentinel_events
         /\ quality'.unique_contracts_day = quality.unique_contracts_day
         /\ quality'.dte_events = quality.dte_events
         /\ quality'.events_per_day.sum = quality.events_per_day.sum + quality.day_events
         /\ quality'.events_per_day.count = quality.events_per_day.count + 1
         /\ quality'.trades_per_day.sum = quality.trades_per_day.sum + quality.day_trades
         /\ quality'.contracts_per_day.count = quality.contracts_per_day.count + 1
         /\ quality'.n_days = quality.n_days + 1
<1>a. /\ quality.events_per_day \in Quality!Welford
      /\ quality.trades_per_day \in Quality!Welford
      /\ quality.contracts_per_day \in Quality!Welford
      /\ quality.day_events \in Nat /\ quality.day_trades \in Nat /\ quality.n_days \in Nat
  BY DEF Quality!State
<1>n. PICK n \in Nat : n = Quality!Cardinality(quality.unique_contracts_day)
  BY FS_CardinalityType, SameCardinality
<1>c. /\ quality'.total_events = quality.total_events
      /\ quality'.day_events = quality.day_events
      /\ quality'.trade_events = quality.trade_events
      /\ quality'.day_trades = quality.day_trades
      /\ quality'.quote_events = quality.quote_events
      /\ quality'.sentinel_events = quality.sentinel_events
      /\ quality'.unique_contracts_day = quality.unique_contracts_day
      /\ quality'.unique_contracts_total = quality.unique_contracts_total
      /\ quality'.dte_events = quality.dte_events
  BY DEF Quality!State, Quality!end_of_day
<1>d. /\ quality'.events_per_day = Quality!update(quality.events_per_day, quality.day_events)
      /\ quality'.trades_per_day = Quality!update(quality.trades_per_day, quality.day_trades)
      /\ quality'.contracts_per_day = Quality!update(quality.contracts_per_day, n)
      /\ quality'.n_days = quality.n_days + 1
  BY <1>n DEF Quality!State, Quality!end_of_day
<1>e. /\ quality'.events_per_day \in Quality!Welford
      /\ quality'.trades_per_day \in Quality!Welford
      /\ quality'.contracts_per_day \in Quality!Welford
      /\ quality'.events_per_day.sum = quality.events_per_day.sum + quality.day_events
      /\ quality'.events_per_day.count = quality.events_per_day.count + 1
      /\ quality'.trades_per_day.sum = quality.trades_per_day.sum + quality.day_trades
      /\ quality'.contracts_per_day.count = quality.contracts_per_day.count + 1
  BY <1>a, <1>d, <1>n DEF Quality!update, Quality!Welford
<1>f. quality' = [x \in DOMAIN quality |-> quality'[x]]
  BY ZenonT(60) DEF Quality!end_of_day
<1>g. quality' \in Quality!State
  BY <1>a, <1>c, <1>d, <1>e, <1>f DEF Quality!State
<1> QED
  BY <1>c, <1>d, <1>e, <1>g

LEMMA QualityResetDay ==
  ASSUME quality \in Quality!State, Quality!reset_day
  PROVE  /\ quality' \in Quality!State
         /\ quality'.total_events = quality.total_events
         /\ quality'.day_events = 0
         /\ quality'.trade_events = quality.trade_events
         /\ quality'.day_trades = 0
         /\ quality'.quote_events = quality.quote_events
         /\ quality'.sentinel_events = quality.sentinel_events
         /\ quality'.unique_contracts_day = {}
         /\ quality'.dte_events = quality.dte_events
         /\ quality'.events_per_day = quality.events_per_day
         /\ quality'.trades_per_day = quality.trades_per_day
         /\ quality'.contracts_per_day = quality.contracts_per_day
         /\ quality'.n_days = quality.n_days
<1>1. quality' \in Quality!State
  BY DEF Quality!State, Quality!reset_day
<1> QED
  BY <1>1 DEF Quality!State, Quality!reset_day
-----------------------------------------------------------------------------
(* VolumeTracker                                                           *)

LEMMA VolumeTypes ==
  ASSUME volume \in Volume!State
  PROVE  /\ volume.total_trades \in Nat /\ volume.total_volume \in Nat
         /\ volume.call_volume \in Nat /\ volume.put_volume \in Nat
         /\ volume.trade_size_dist \in Nat /\ volume.call_trade_size \in Nat
         /\ volume.put_trade_size \in Nat /\ volume.intraday_all_volume \in Nat
         /\ volume.intraday_0dte_volume \in Nat
         /\ volume.dte_volume \in [DteBucket -> Nat] /\ volume.dte_trades \in [DteBucket -> Nat]
         /\ volume.moneyness_volume \in [Moneyness -> Nat]
         /\ volume.daily_volume \in Volume!Welford /\ volume.daily_trades \in Volume!Welford
         /\ volume.day_volume \in Nat /\ volume.day_trades \in Nat /\ volume.n_days \in Nat
         /\ volume.utc_offset \in {-5, -4}
         /\ DteTotal(volume.dte_volume) \in Nat /\ DteTotal(volume.dte_trades) \in Nat
         /\ volume.dte_volume["0dte"] \in Nat /\ volume.dte_trades["0dte"] \in Nat
         /\ MoneynessTotal(volume.moneyness_volume) \in Nat
         /\ volume.daily_volume.sum \in Nat /\ volume.daily_volume.count \in Nat
         /\ volume.daily_trades.sum \in Nat /\ volume.daily_trades.count \in Nat
<1>1. /\ volume.total_trades \in Nat /\ volume.total_volume \in Nat
      /\ volume.call_volume \in Nat /\ volume.put_volume \in Nat
      /\ volume.trade_size_dist \in Nat /\ volume.call_trade_size \in Nat
      /\ volume.put_trade_size \in Nat /\ volume.intraday_all_volume \in Nat
      /\ volume.intraday_0dte_volume \in Nat
      /\ volume.dte_volume \in [DteBucket -> Nat] /\ volume.dte_trades \in [DteBucket -> Nat]
      /\ volume.moneyness_volume \in [Moneyness -> Nat]
      /\ volume.daily_volume \in Volume!Welford /\ volume.daily_trades \in Volume!Welford
      /\ volume.day_volume \in Nat /\ volume.day_trades \in Nat /\ volume.n_days \in Nat
      /\ volume.utc_offset \in {-5, -4}
  BY DEF Volume!State, DteBucket, Volume!DteBucket, Moneyness, Volume!Moneyness
<1> QED
  BY <1>1 DEF DteBucket, DteTotal, Moneyness, MoneynessTotal, Volume!Welford

LEMMA VolumeProcess ==
  ASSUME volume \in Volume!State, NEW event \in Event, Volume!process_event(event)
  PROVE  /\ volume' \in Volume!State
         /\ volume'.total_trades = volume.total_trades + one_if(traded(event))
         /\ volume'.total_volume = volume.total_volume + contracts(event)
         /\ volume'.day_trades = volume.day_trades + one_if(traded(event))
         /\ volume'.day_volume = volume.day_volume + contracts(event)
         /\ volume'.call_volume =
              volume.call_volume + (IF is_call(event) THEN contracts(event) ELSE 0)
         /\ volume'.put_volume =
              volume.put_volume + (IF is_call(event) THEN 0 ELSE contracts(event))
         /\ volume'.call_trade_size =
              volume.call_trade_size + one_if(traded(event) /\ is_call(event))
         /\ volume'.put_trade_size =
              volume.put_trade_size + one_if(traded(event) /\ ~is_call(event))
         /\ volume'.intraday_0dte_volume =
              volume.intraday_0dte_volume + one_if(traded(event) /\ is_zero_dte(event))
         /\ DteTotal(volume'.dte_volume) = DteTotal(volume.dte_volume) + contracts(event)
         /\ volume'.dte_volume["0dte"] =
              volume.dte_volume["0dte"] + (IF is_zero_dte(event) THEN contracts(event) ELSE 0)
         /\ DteTotal(volume'.dte_trades) =
              DteTotal(volume.dte_trades) + one_if(traded(event))
         /\ volume'.dte_trades["0dte"] =
              volume.dte_trades["0dte"] + one_if(traded(event) /\ is_zero_dte(event))
         /\ MoneynessTotal(volume'.moneyness_volume) =
              MoneynessTotal(volume.moneyness_volume) + contracts(event)
         /\ volume'.daily_volume = volume.daily_volume
         /\ volume'.daily_trades = volume.daily_trades
         /\ volume'.n_days = volume.n_days
<1>1. CASE ~Volume!traded(event)
  <2>1. volume' = volume /\ ~traded(event)
    BY <1>1 DEF Volume!process_event, Volume!traded, traded, Volume!is_trade, is_trade
  <2>2. one_if(traded(event)) = 0 /\ contracts(event) = 0
    BY <2>1 DEF one_if, contracts
  <2>3. /\ volume.total_trades \in Nat /\ volume.total_volume \in Nat
        /\ volume.day_trades \in Nat /\ volume.day_volume \in Nat
        /\ volume.call_volume \in Nat /\ volume.put_volume \in Nat
        /\ volume.call_trade_size \in Nat /\ volume.put_trade_size \in Nat
        /\ volume.intraday_0dte_volume \in Nat
        /\ volume.dte_volume \in [Volume!DteBucket -> Nat]
        /\ volume.dte_trades \in [Volume!DteBucket -> Nat]
        /\ volume.moneyness_volume \in [Volume!Moneyness -> Nat]
    BY DEF Volume!State
  <2>4. /\ DteTotal(volume.dte_volume) \in Nat /\ DteTotal(volume.dte_trades) \in Nat
        /\ volume.dte_volume["0dte"] \in Nat /\ volume.dte_trades["0dte"] \in Nat
        /\ MoneynessTotal(volume.moneyness_volume) \in Nat
    BY <2>3 DEF Volume!DteBucket, Volume!Moneyness, DteTotal, MoneynessTotal
  <2> QED
    BY <2>1, <2>2, <2>3, <2>4 DEF one_if
<1>2. CASE Volume!traded(event)
  <2>1. /\ traded(event) /\ contracts(event) = event.trade_size
        /\ volume' = Volume!count_trade(event)
    BY <1>2 DEF Volume!process_event, Volume!traded, traded, Volume!is_trade, is_trade,
       contracts
  <2>b. /\ volume'.total_trades = volume.total_trades + 1
        /\ volume'.total_volume = volume.total_volume + event.trade_size
        /\ volume'.day_trades = volume.day_trades + 1
        /\ volume'.day_volume = volume.day_volume + event.trade_size
        /\ volume'.trade_size_dist = volume.trade_size_dist + 1
        /\ volume'.intraday_all_volume = volume.intraday_all_volume + 1
    BY <2>1 DEF Volume!State, Volume!count_trade
  <2>c. /\ volume'.call_volume =
             volume.call_volume + (IF is_call(event) THEN event.trade_size ELSE 0)
        /\ volume'.put_volume =
             volume.put_volume + (IF is_call(event) THEN 0 ELSE event.trade_size)
    BY <2>1 DEF Volume!State, Volume!count_trade, Volume!is_call, is_call
  <2>d. /\ volume'.call_trade_size = volume.call_trade_size + one_if(is_call(event))
        /\ volume'.put_trade_size = volume.put_trade_size + one_if(~is_call(event))
    BY <2>1 DEF Volume!State, Volume!count_trade, Volume!is_call, is_call, one_if,
       Volume!one_if
  <2>e. volume'.intraday_0dte_volume =
          volume.intraday_0dte_volume + one_if(is_zero_dte(event))
    BY <2>1 DEF Volume!State, Volume!count_trade, Volume!is_zero_dte, is_zero_dte, one_if,
       Volume!one_if
  <2>f. /\ volume'.dte_volume =
             [volume.dte_volume EXCEPT ![dte_bucket(event.dte)] = @ + event.trade_size]
        /\ volume'.dte_trades = [volume.dte_trades EXCEPT ![dte_bucket(event.dte)] = @ + 1]
    BY <2>1 DEF Volume!State, Volume!count_trade, Volume!dte_bucket, dte_bucket
  <2>g. volume'.moneyness_volume =
          [volume.moneyness_volume EXCEPT ![event.moneyness] = @ + event.trade_size]
    BY <2>1 DEF Volume!State, Volume!count_trade
  <2>h. /\ volume'.daily_volume = volume.daily_volume
        /\ volume'.daily_trades = volume.daily_trades
        /\ volume'.n_days = volume.n_days
        /\ volume'.utc_offset = volume.utc_offset
    BY <2>1 DEF Volume!State, Volume!count_trade
  <2>i. /\ volume'.dte_volume \in [DteBucket -> Nat]
        /\ DteTotal(volume'.dte_volume) = DteTotal(volume.dte_volume) + event.trade_size
        /\ volume'.dte_volume["0dte"] =
             volume.dte_volume["0dte"] + (IF is_zero_dte(event) THEN event.trade_size ELSE 0)
    BY VolumeTypes, <2>f, DteAdd, EventFacts, ZeroDteBucket
  <2>j. /\ volume'.dte_trades \in [DteBucket -> Nat]
        /\ DteTotal(volume'.dte_trades) = DteTotal(volume.dte_trades) + 1
        /\ volume'.dte_trades["0dte"] =
             volume.dte_trades["0dte"] + one_if(is_zero_dte(event))
    BY VolumeTypes, <2>f, DteAdd, EventFacts, ZeroDteBucket DEF one_if
  <2>k. /\ volume'.moneyness_volume \in [Moneyness -> Nat]
        /\ MoneynessTotal(volume'.moneyness_volume) =
             MoneynessTotal(volume.moneyness_volume) + event.trade_size
    BY VolumeTypes, <2>g, MoneynessAdd, EventFacts
  <2>l. volume' = [x \in DOMAIN volume |-> volume'[x]]
    BY <2>1, ZenonT(60) DEF Volume!count_trade
  <2>m. volume' \in Volume!State
    BY VolumeTypes, <2>b, <2>c, <2>d, <2>e, <2>h, <2>i, <2>j, <2>k, <2>l, EventFacts, OneIf
       DEF Volume!State, DteBucket, Volume!DteBucket, Moneyness, Volume!Moneyness
  <2> QED
    BY <2>1, <2>b, <2>c, <2>d, <2>e, <2>h, <2>i, <2>j, <2>k, <2>m DEF one_if
<1> QED
  BY <1>1, <1>2

LEMMA VolumeBeginDay ==
  ASSUME volume \in Volume!State, ctx'.utc_offset \in {-5, -4}, Volume!begin_day(ctx')
  PROVE  /\ volume' \in Volume!State
         /\ volume'.total_trades = volume.total_trades
         /\ volume'.total_volume = volume.total_volume
         /\ volume'.day_trades = volume.day_trades
         /\ volume'.day_volume = volume.day_volume
         /\ volume'.call_volume = volume.call_volume
         /\ volume'.put_volume = volume.put_volume
         /\ volume'.call_trade_size = volume.call_trade_size
         /\ volume'.put_trade_size = volume.put_trade_size
         /\ volume'.intraday_0dte_volume = volume.intraday_0dte_volume
         /\ volume'.dte_volume = volume.dte_volume
         /\ volume'.dte_trades = volume.dte_trades
         /\ volume'.moneyness_volume = volume.moneyness_volume
         /\ volume'.daily_volume = volume.daily_volume
         /\ volume'.daily_trades = volume.daily_trades
         /\ volume'.n_days = volume.n_days
<1>1. volume' \in Volume!State
  BY DEF Volume!State, Volume!begin_day
<1> QED
  BY <1>1 DEF Volume!State, Volume!begin_day

LEMMA VolumeEndOfDay ==
  ASSUME volume \in Volume!State, Volume!end_of_day
  PROVE  /\ volume' \in Volume!State
         /\ volume'.total_trades = volume.total_trades
         /\ volume'.total_volume = volume.total_volume
         /\ volume'.day_trades = volume.day_trades
         /\ volume'.day_volume = volume.day_volume
         /\ volume'.call_volume = volume.call_volume
         /\ volume'.put_volume = volume.put_volume
         /\ volume'.call_trade_size = volume.call_trade_size
         /\ volume'.put_trade_size = volume.put_trade_size
         /\ volume'.intraday_0dte_volume = volume.intraday_0dte_volume
         /\ volume'.dte_volume = volume.dte_volume
         /\ volume'.dte_trades = volume.dte_trades
         /\ volume'.moneyness_volume = volume.moneyness_volume
         /\ volume'.daily_volume.sum = volume.daily_volume.sum + volume.day_volume
         /\ volume'.daily_volume.count = volume.daily_volume.count + 1
         /\ volume'.daily_trades.sum = volume.daily_trades.sum + volume.day_trades
         /\ volume'.daily_trades.count = volume.daily_trades.count + 1
         /\ volume'.n_days = volume.n_days + 1
<1>a. /\ volume.daily_volume \in Volume!Welford /\ volume.daily_trades \in Volume!Welford
      /\ volume.day_volume \in Nat /\ volume.day_trades \in Nat /\ volume.n_days \in Nat
  BY DEF Volume!State
<1>b. /\ volume'.total_trades = volume.total_trades
      /\ volume'.total_volume = volume.total_volume
      /\ volume'.day_trades = volume.day_trades
      /\ volume'.day_volume = volume.day_volume
      /\ volume'.call_volume = volume.call_volume
      /\ volume'.put_volume = volume.put_volume
      /\ volume'.trade_size_dist = volume.trade_size_dist
      /\ volume'.call_trade_size = volume.call_trade_size
      /\ volume'.put_trade_size = volume.put_trade_size
      /\ volume'.intraday_all_volume = volume.intraday_all_volume
      /\ volume'.intraday_0dte_volume = volume.intraday_0dte_volume
      /\ volume'.dte_volume = volume.dte_volume
      /\ volume'.dte_trades = volume.dte_trades
      /\ volume'.moneyness_volume = volume.moneyness_volume
      /\ volume'.utc_offset = volume.utc_offset
  BY DEF Volume!State, Volume!end_of_day
<1>c. /\ volume'.daily_volume = Volume!update(volume.daily_volume, volume.day_volume)
      /\ volume'.daily_trades = Volume!update(volume.daily_trades, volume.day_trades)
      /\ volume'.n_days = volume.n_days + 1
  BY DEF Volume!State, Volume!end_of_day
<1>d. /\ volume'.daily_volume \in Volume!Welford /\ volume'.daily_trades \in Volume!Welford
      /\ volume'.daily_volume.sum = volume.daily_volume.sum + volume.day_volume
      /\ volume'.daily_volume.count = volume.daily_volume.count + 1
      /\ volume'.daily_trades.sum = volume.daily_trades.sum + volume.day_trades
      /\ volume'.daily_trades.count = volume.daily_trades.count + 1
  BY <1>a, <1>c DEF Volume!update, Volume!Welford
<1>e. volume' = [x \in DOMAIN volume |-> volume'[x]]
  BY ZenonT(60) DEF Volume!end_of_day
<1>f. volume' \in Volume!State
  BY <1>a, <1>b, <1>c, <1>d, <1>e DEF Volume!State
<1> QED
  BY <1>b, <1>c, <1>d, <1>f

LEMMA VolumeResetDay ==
  ASSUME volume \in Volume!State, Volume!reset_day
  PROVE  /\ volume' \in Volume!State
         /\ volume'.total_trades = volume.total_trades
         /\ volume'.total_volume = volume.total_volume
         /\ volume'.day_trades = 0
         /\ volume'.day_volume = 0
         /\ volume'.call_volume = volume.call_volume
         /\ volume'.put_volume = volume.put_volume
         /\ volume'.call_trade_size = volume.call_trade_size
         /\ volume'.put_trade_size = volume.put_trade_size
         /\ volume'.intraday_0dte_volume = volume.intraday_0dte_volume
         /\ volume'.dte_volume = volume.dte_volume
         /\ volume'.dte_trades = volume.dte_trades
         /\ volume'.moneyness_volume = volume.moneyness_volume
         /\ volume'.daily_volume = volume.daily_volume
         /\ volume'.daily_trades = volume.daily_trades
         /\ volume'.n_days = volume.n_days
<1>1. volume' \in Volume!State
  BY DEF Volume!State, Volume!reset_day
<1> QED
  BY <1>1 DEF Volume!State, Volume!reset_day
-----------------------------------------------------------------------------
(* SpreadTracker                                                           *)

LEMMA SpreadTypes ==
  ASSUME spreads \in Spread!State
  PROVE  /\ spreads.all_spread_usd \in Nat /\ spreads.all_spread_pct \in Nat
         /\ spreads.dte0_atm_spread_usd \in Nat /\ spreads.dte0_atm_spread_pct \in Nat
         /\ spreads.dte0_atm_intraday_mid \in Nat /\ spreads.n_days \in Nat
         /\ spreads.per_moneyness_spread \in [Moneyness -> Nat]
         /\ spreads.per_dte_spread \in [DteBucket -> Nat]
         /\ spreads.utc_offset \in {-5, -4}
         /\ DteTotal(spreads.per_dte_spread) \in Nat
         /\ MoneynessTotal(spreads.per_moneyness_spread) \in Nat
         /\ spreads.per_moneyness_spread["atm"] \in Nat
<1>1. /\ spreads.all_spread_usd \in Nat /\ spreads.all_spread_pct \in Nat
      /\ spreads.dte0_atm_spread_usd \in Nat /\ spreads.dte0_atm_spread_pct \in Nat
      /\ spreads.dte0_atm_intraday_mid \in Nat /\ spreads.n_days \in Nat
      /\ spreads.per_moneyness_spread \in [Moneyness -> Nat]
      /\ spreads.per_dte_spread \in [DteBucket -> Nat]
      /\ spreads.utc_offset \in {-5, -4}
  BY DEF Spread!State, DteBucket, Spread!DteBucket, Moneyness, Spread!Moneyness
<1> QED
  BY <1>1 DEF DteBucket, DteTotal, Moneyness, MoneynessTotal, Spread!Welford

LEMMA SpreadProcess ==
  ASSUME spreads \in Spread!State, NEW event \in Event, Spread!process_event(event)
  PROVE  /\ spreads' \in Spread!State
         /\ spreads'.all_spread_usd = spreads.all_spread_usd + one_if(has_valid_bbo(event))
         /\ spreads'.all_spread_pct = spreads.all_spread_pct + one_if(has_valid_bbo(event))
         /\ spreads'.dte0_atm_spread_usd =
              spreads.dte0_atm_spread_usd + one_if(has_valid_bbo(event) /\ zero_dte_atm(event))
         /\ spreads'.dte0_atm_spread_pct =
              spreads.dte0_atm_spread_pct + one_if(has_valid_bbo(event) /\ zero_dte_atm(event))
         /\ spreads'.dte0_atm_intraday_mid =
              spreads.dte0_atm_intraday_mid
                + one_if(has_valid_bbo(event) /\ zero_dte_atm(event))
         /\ DteTotal(spreads'.per_dte_spread) =
              DteTotal(spreads.per_dte_spread) + one_if(has_valid_bbo(event))
         /\ MoneynessTotal(spreads'.per_moneyness_spread) =
              MoneynessTotal(spreads.per_moneyness_spread) + one_if(has_valid_bbo(event))
         /\ spreads'.per_moneyness_spread["atm"] =
              spreads.per_moneyness_spread["atm"]
                + one_if(has_valid_bbo(event) /\ is_atm(event))
         /\ spreads'.n_days = spreads.n_days
<1>1. CASE ~has_valid_bbo(event)
  <2>1. spreads' = spreads
    BY <1>1 DEF Spread!process_event, has_valid_bbo, Spread!has_valid_bbo, quoted,
       Spread!quoted, is_finite, Spread!is_finite, NaN, Spread!NaN
  <2>2. /\ DteTotal(spreads.per_dte_spread) \in Nat
        /\ MoneynessTotal(spreads.per_moneyness_spread) \in Nat
        /\ spreads.per_moneyness_spread["atm"] \in Nat
    BY SpreadTypes DEF DteBucket, Moneyness, DteTotal, MoneynessTotal
  <2> QED
    BY <1>1, SpreadTypes, <2>1, <2>2 DEF one_if
<1>2. CASE has_valid_bbo(event)
  <2>1. /\ Spread!has_valid_bbo(event) /\ Spread!is_finite(Spread!spread(event))
        /\ Spread!spread_pct_is_finite(event) /\ Spread!is_finite(Spread!option_mid(event))
    BY <1>2, EventFacts DEF has_valid_bbo, Spread!has_valid_bbo, quoted, Spread!quoted,
       is_finite, Spread!is_finite, NaN, Spread!NaN, Spread!spread, Spread!option_mid,
       Spread!spread_pct_is_finite
  <2>2. spreads' = Spread!count_spread(event)
    BY <2>1 DEF Spread!process_event
  <2>3. /\ spreads'.all_spread_usd = spreads.all_spread_usd + 1
        /\ spreads'.all_spread_pct = spreads.all_spread_pct + 1
        /\ spreads'.n_days = spreads.n_days /\ spreads'.utc_offset = spreads.utc_offset
    BY <2>1, <2>2 DEF Spread!State, Spread!count_spread, Spread!one_if
  <2>4. /\ spreads'.dte0_atm_spread_usd =
             spreads.dte0_atm_spread_usd + one_if(zero_dte_atm(event))
        /\ spreads'.dte0_atm_spread_pct =
             spreads.dte0_atm_spread_pct + one_if(zero_dte_atm(event))
        /\ spreads'.dte0_atm_intraday_mid =
             spreads.dte0_atm_intraday_mid + one_if(zero_dte_atm(event))
    BY <2>1, <2>2 DEF Spread!State, Spread!count_spread, Spread!one_if, one_if,
       Spread!zero_dte_atm, zero_dte_atm, Spread!is_zero_dte, is_zero_dte, Spread!is_atm, is_atm
  <2>5. /\ spreads'.per_dte_spread =
             [spreads.per_dte_spread EXCEPT ![dte_bucket(event.dte)] = @ + 1]
        /\ spreads'.per_moneyness_spread =
             [spreads.per_moneyness_spread EXCEPT ![event.moneyness] = @ + 1]
    BY <2>1, <2>2 DEF Spread!State, Spread!count_spread, Spread!one_if, Spread!dte_bucket,
       dte_bucket
  <2>6. /\ spreads'.per_dte_spread \in [DteBucket -> Nat]
        /\ DteTotal(spreads'.per_dte_spread) = DteTotal(spreads.per_dte_spread) + 1
    BY SpreadTypes, <2>5, DteAdd, EventFacts
  <2>7. /\ spreads'.per_moneyness_spread \in [Moneyness -> Nat]
        /\ MoneynessTotal(spreads'.per_moneyness_spread) =
             MoneynessTotal(spreads.per_moneyness_spread) + 1
        /\ spreads'.per_moneyness_spread["atm"] =
             spreads.per_moneyness_spread["atm"] + one_if(is_atm(event))
    BY SpreadTypes, <2>5, MoneynessAdd, EventFacts DEF one_if, is_atm
  <2>8. spreads' = [x \in DOMAIN spreads |-> spreads'[x]]
    BY <2>2, ZenonT(60) DEF Spread!count_spread
  <2>9. spreads' \in Spread!State
    BY SpreadTypes, <2>3, <2>4, <2>6, <2>7, <2>8, OneIf
       DEF Spread!State, DteBucket, Spread!DteBucket, Moneyness, Spread!Moneyness
  <2> QED
    BY <1>2, <2>3, <2>4, <2>6, <2>7, <2>9 DEF one_if
<1> QED
  BY <1>1, <1>2

(* The calls made once a day change nothing but the number of days.        *)
LEMMA SpreadDay ==
  ASSUME spreads \in Spread!State, ctx'.utc_offset \in {-5, -4},
         Spread!begin_day(ctx') \/ Spread!end_of_day \/ Spread!reset_day
  PROVE  /\ spreads' \in Spread!State
         /\ spreads'.all_spread_usd = spreads.all_spread_usd
         /\ spreads'.all_spread_pct = spreads.all_spread_pct
         /\ spreads'.dte0_atm_spread_usd = spreads.dte0_atm_spread_usd
         /\ spreads'.dte0_atm_spread_pct = spreads.dte0_atm_spread_pct
         /\ spreads'.dte0_atm_intraday_mid = spreads.dte0_atm_intraday_mid
         /\ spreads'.per_dte_spread = spreads.per_dte_spread
         /\ spreads'.per_moneyness_spread = spreads.per_moneyness_spread
         /\ Spread!end_of_day => spreads'.n_days = spreads.n_days + 1
         /\ ~Spread!end_of_day => spreads'.n_days = spreads.n_days
<1>1. Spread!end_of_day => spreads'.n_days = spreads.n_days + 1
  BY DEF Spread!State, Spread!end_of_day
<1>2. CASE Spread!begin_day(ctx')
  <2>1. spreads' \in Spread!State
    BY <1>2 DEF Spread!State, Spread!begin_day
  <2> QED
    BY <1>1, <1>2, <2>1 DEF Spread!State, Spread!begin_day
<1>3. CASE Spread!end_of_day
  <2>1. spreads' \in Spread!State
    BY <1>3 DEF Spread!State, Spread!end_of_day
  <2> QED
    BY <1>3, <2>1 DEF Spread!State, Spread!end_of_day
<1>4. CASE Spread!reset_day
  BY <1>1, <1>4 DEF Spread!reset_day
<1> QED
  BY <1>2, <1>3, <1>4
-----------------------------------------------------------------------------
(* ZeroDteTracker                                                          *)

LEMMA ZeroDteTypes ==
  ASSUME zero_dte \in ZeroDte!State
  PROVE  /\ zero_dte.atm_call_spread \in Nat /\ zero_dte.atm_put_spread \in Nat
         /\ zero_dte.atm_call_premium \in Nat /\ zero_dte.atm_put_premium \in Nat
         /\ zero_dte.atm_trade_size \in Nat /\ zero_dte.atm_bid_ask_imbalance \in Nat
         /\ zero_dte.atm_trade_count_curve \in ZeroDte!Welford
         /\ zero_dte.day_trade_count \in Nat /\ zero_dte.day_trade_volume \in Nat
         /\ zero_dte.day_0dte_atm_events \in Nat
         /\ zero_dte.trades_per_day \in ZeroDte!Welford
         /\ zero_dte.volume_per_day \in ZeroDte!Welford
         /\ zero_dte.n_days \in Nat /\ zero_dte.n_0dte_days \in Nat
         /\ zero_dte.total_0dte_atm_events \in Nat /\ zero_dte.total_0dte_atm_trades \in Nat
         /\ zero_dte.utc_offset \in {-5, -4}
         /\ zero_dte.trades_per_day.sum \in Nat /\ zero_dte.trades_per_day.count \in Nat
<1>1. /\ zero_dte.atm_call_spread \in Nat /\ zero_dte.atm_put_spread \in Nat
      /\ zero_dte.atm_call_premium \in Nat /\ zero_dte.atm_put_premium \in Nat
      /\ zero_dte.atm_trade_size \in Nat /\ zero_dte.atm_bid_ask_imbalance \in Nat
      /\ zero_dte.atm_trade_count_curve \in ZeroDte!Welford
      /\ zero_dte.day_trade_count \in Nat /\ zero_dte.day_trade_volume \in Nat
      /\ zero_dte.day_0dte_atm_events \in Nat
      /\ zero_dte.trades_per_day \in ZeroDte!Welford
      /\ zero_dte.volume_per_day \in ZeroDte!Welford
      /\ zero_dte.n_days \in Nat /\ zero_dte.n_0dte_days \in Nat
      /\ zero_dte.total_0dte_atm_events \in Nat /\ zero_dte.total_0dte_atm_trades \in Nat
      /\ zero_dte.utc_offset \in {-5, -4}
  BY DEF ZeroDte!State
<1> QED
  BY <1>1 DEF DteBucket, DteTotal, Moneyness, MoneynessTotal, ZeroDte!Welford

LEMMA ZeroDteProcess ==
  ASSUME zero_dte \in ZeroDte!State, NEW event \in Event, ZeroDte!process_event(event)
  PROVE  /\ zero_dte' \in ZeroDte!State
         /\ zero_dte'.atm_call_spread =
              zero_dte.atm_call_spread
                + one_if(zero_dte_atm(event) /\ has_valid_bbo(event) /\ is_call(event))
         /\ zero_dte'.atm_put_spread =
              zero_dte.atm_put_spread
                + one_if(zero_dte_atm(event) /\ has_valid_bbo(event) /\ ~is_call(event))
         /\ zero_dte'.atm_call_premium =
              zero_dte.atm_call_premium
                + one_if(zero_dte_atm(event) /\ has_valid_bbo(event) /\ is_call(event))
         /\ zero_dte'.atm_put_premium =
              zero_dte.atm_put_premium
                + one_if(zero_dte_atm(event) /\ has_valid_bbo(event) /\ ~is_call(event))
         /\ zero_dte'.total_0dte_atm_events =
              zero_dte.total_0dte_atm_events + one_if(zero_dte_atm(event))
         /\ zero_dte'.day_0dte_atm_events =
              zero_dte.day_0dte_atm_events + one_if(zero_dte_atm(event))
         /\ zero_dte'.total_0dte_atm_trades =
              zero_dte.total_0dte_atm_trades + one_if(zero_dte_atm(event) /\ traded(event))
         /\ zero_dte'.day_trade_count =
              zero_dte.day_trade_count + one_if(zero_dte_atm(event) /\ traded(event))
         /\ zero_dte'.day_trade_volume =
              zero_dte.day_trade_volume
                + (IF zero_dte_atm(event) THEN contracts(event) ELSE 0)
         /\ zero_dte'.trades_per_day = zero_dte.trades_per_day
         /\ zero_dte'.n_days = zero_dte.n_days
         /\ zero_dte'.n_0dte_days = zero_dte.n_0dte_days
<1>b. ZeroDte!zero_dte_atm(event) <=> zero_dte_atm(event)
  BY DEF ZeroDte!zero_dte_atm, ZeroDte!is_zero_dte, ZeroDte!is_atm, zero_dte_atm, is_zero_dte,
     is_atm
<1>1. CASE ~zero_dte_atm(event)
  <2>1. zero_dte' = zero_dte
    BY <1>1, <1>b DEF ZeroDte!process_event
  <2> QED
    BY <1>1, ZeroDteTypes, <2>1 DEF one_if
<1>2. CASE zero_dte_atm(event)
  <2>1. zero_dte' = ZeroDte!count_event(event)
    BY <1>2, <1>b DEF ZeroDte!process_event
  <2>2. /\ ZeroDte!has_valid_bbo(event) <=> has_valid_bbo(event)
        /\ has_valid_bbo(event) =>
             /\ ZeroDte!is_finite(ZeroDte!spread(event))
             /\ ZeroDte!is_finite(ZeroDte!option_mid(event)) /\ ZeroDte!option_mid(event) > 0
    BY EventFacts DEF has_valid_bbo, ZeroDte!has_valid_bbo, quoted, ZeroDte!quoted, is_finite,
       ZeroDte!is_finite, NaN, ZeroDte!NaN, ZeroDte!spread, ZeroDte!option_mid
  <2>3. ZeroDte!is_call(event) <=> is_call(event)
    BY DEF is_call, ZeroDte!is_call
  <2>4. ZeroDte!traded(event) <=> traded(event)
    BY DEF traded, ZeroDte!traded, is_trade, ZeroDte!is_trade
  <2>5. /\ zero_dte'.atm_call_spread =
             zero_dte.atm_call_spread + one_if(has_valid_bbo(event) /\ is_call(event))
        /\ zero_dte'.atm_put_spread =
             zero_dte.atm_put_spread + one_if(has_valid_bbo(event) /\ ~is_call(event))
    BY <2>1, <2>2, <2>3 DEF ZeroDte!State, ZeroDte!count_event, ZeroDte!one_if, one_if
  <2>6. /\ zero_dte'.atm_call_premium =
             zero_dte.atm_call_premium + one_if(has_valid_bbo(event) /\ is_call(event))
        /\ zero_dte'.atm_put_premium =
             zero_dte.atm_put_premium + one_if(has_valid_bbo(event) /\ ~is_call(event))
    BY <2>1, <2>2, <2>3 DEF ZeroDte!State, ZeroDte!count_event, ZeroDte!one_if, one_if
  <2>7. /\ zero_dte'.total_0dte_atm_events = zero_dte.total_0dte_atm_events + 1
        /\ zero_dte'.day_0dte_atm_events = zero_dte.day_0dte_atm_events + 1
    BY <2>1 DEF ZeroDte!State, ZeroDte!count_event
  <2>8. /\ zero_dte'.total_0dte_atm_trades =
             zero_dte.total_0dte_atm_trades + one_if(traded(event))
        /\ zero_dte'.day_trade_count = zero_dte.day_trade_count + one_if(traded(event))
        /\ zero_dte'.atm_trade_size = zero_dte.atm_trade_size + one_if(traded(event))
    BY <2>1, <2>4 DEF ZeroDte!State, ZeroDte!count_event, ZeroDte!one_if, one_if
  <2>9. zero_dte'.day_trade_volume = zero_dte.day_trade_volume + contracts(event)
    BY <2>1, <2>4 DEF ZeroDte!State, ZeroDte!count_event, contracts
  <2>10. /\ zero_dte'.trades_per_day = zero_dte.trades_per_day
         /\ zero_dte'.volume_per_day = zero_dte.volume_per_day
         /\ zero_dte'.n_days = zero_dte.n_days
         /\ zero_dte'.n_0dte_days = zero_dte.n_0dte_days
         /\ zero_dte'.utc_offset = zero_dte.utc_offset
    BY <2>1 DEF ZeroDte!State, ZeroDte!count_event
  <2>11. zero_dte'.atm_trade_count_curve \in ZeroDte!Welford
    BY ZeroDteTypes, <2>1 DEF ZeroDte!State, ZeroDte!count_event, ZeroDte!update, ZeroDte!Welford
  <2>12. zero_dte'.atm_bid_ask_imbalance \in Nat
    BY ZeroDteTypes, <2>1 DEF ZeroDte!State, ZeroDte!count_event, ZeroDte!one_if
  <2>13. zero_dte' = [x \in DOMAIN zero_dte |-> zero_dte'[x]]
    BY <2>1, ZenonT(60) DEF ZeroDte!count_event
  <2>14. zero_dte' \in ZeroDte!State
    BY ZeroDteTypes, <2>5, <2>6, <2>7, <2>8, <2>9, <2>10, <2>11, <2>12, <2>13, OneIf, EventFacts
       DEF ZeroDte!State
  <2> QED
    BY <1>2, <2>5, <2>6, <2>7, <2>8, <2>9, <2>10, <2>14 DEF one_if
<1> QED
  BY <1>1, <1>2

(* A day without a 0DTE at-the-money event gives no daily sample.          *)
LEMMA ZeroDteEndOfDay ==
  ASSUME zero_dte \in ZeroDte!State, ZeroDte!end_of_day
  PROVE  /\ zero_dte' \in ZeroDte!State
         /\ zero_dte'.atm_call_spread = zero_dte.atm_call_spread
         /\ zero_dte'.atm_put_spread = zero_dte.atm_put_spread
         /\ zero_dte'.atm_call_premium = zero_dte.atm_call_premium
         /\ zero_dte'.atm_put_premium = zero_dte.atm_put_premium
         /\ zero_dte'.total_0dte_atm_events = zero_dte.total_0dte_atm_events
         /\ zero_dte'.day_0dte_atm_events = zero_dte.day_0dte_atm_events
         /\ zero_dte'.total_0dte_atm_trades = zero_dte.total_0dte_atm_trades
         /\ zero_dte'.day_trade_count = zero_dte.day_trade_count
         /\ zero_dte'.day_trade_volume = zero_dte.day_trade_volume
         /\ zero_dte'.trades_per_day.count =
              zero_dte.trades_per_day.count + one_if(zero_dte.day_0dte_atm_events > 0)
         /\ zero_dte'.trades_per_day.sum =
              zero_dte.trades_per_day.sum
                + (IF zero_dte.day_0dte_atm_events > 0 THEN zero_dte.day_trade_count ELSE 0)
         /\ zero_dte'.n_days = zero_dte.n_days + 1
         /\ zero_dte'.n_0dte_days =
              zero_dte.n_0dte_days + one_if(zero_dte.day_0dte_atm_events > 0)
<1>a. /\ zero_dte.trades_per_day \in ZeroDte!Welford
      /\ zero_dte.volume_per_day \in ZeroDte!Welford
      /\ zero_dte.day_trade_count \in Nat /\ zero_dte.day_trade_volume \in Nat
      /\ zero_dte.n_days \in Nat /\ zero_dte.n_0dte_days \in Nat
  BY DEF ZeroDte!State
<1>b. /\ zero_dte'.atm_call_spread = zero_dte.atm_call_spread
      /\ zero_dte'.atm_put_spread = zero_dte.atm_put_spread
      /\ zero_dte'.atm_call_premium = zero_dte.atm_call_premium
      /\ zero_dte'.atm_put_premium = zero_dte.atm_put_premium
      /\ zero_dte'.atm_trade_size = zero_dte.atm_trade_size
      /\ zero_dte'.atm_trade_count_curve = zero_dte.atm_trade_count_curve
      /\ zero_dte'.atm_bid_ask_imbalance = zero_dte.atm_bid_ask_imbalance
      /\ zero_dte'.total_0dte_atm_events = zero_dte.total_0dte_atm_events
      /\ zero_dte'.day_0dte_atm_events = zero_dte.day_0dte_atm_events
      /\ zero_dte'.total_0dte_atm_trades = zero_dte.total_0dte_atm_trades
      /\ zero_dte'.day_trade_count = zero_dte.day_trade_count
      /\ zero_dte'.day_trade_volume = zero_dte.day_trade_volume
      /\ zero_dte'.n_days = zero_dte.n_days + 1
      /\ zero_dte'.utc_offset = zero_dte.utc_offset
  BY DEF ZeroDte!State, ZeroDte!end_of_day
<1>c. zero_dte' = [x \in DOMAIN zero_dte |-> zero_dte'[x]]
  BY ZenonT(60) DEF ZeroDte!end_of_day
<1>1. CASE zero_dte.day_0dte_atm_events > 0
  <2>1. /\ zero_dte'.trades_per_day =
             ZeroDte!update(zero_dte.trades_per_day, zero_dte.day_trade_count)
        /\ zero_dte'.volume_per_day =
             ZeroDte!update(zero_dte.volume_per_day, zero_dte.day_trade_volume)
        /\ zero_dte'.n_0dte_days = zero_dte.n_0dte_days + 1
    BY <1>1 DEF ZeroDte!State, ZeroDte!end_of_day
  <2>2. /\ zero_dte'.trades_per_day \in ZeroDte!Welford
        /\ zero_dte'.volume_per_day \in ZeroDte!Welford
        /\ zero_dte'.trades_per_day.count = zero_dte.trades_per_day.count + 1
        /\ zero_dte'.trades_per_day.sum =
             zero_dte.trades_per_day.sum + zero_dte.day_trade_count
    BY <1>a, <2>1 DEF ZeroDte!update, ZeroDte!Welford
  <2>3. zero_dte' \in ZeroDte!State
    BY <1>a, <1>b, <1>c, <2>1, <2>2 DEF ZeroDte!State
  <2> QED
    BY <1>1, <1>b, <2>1, <2>2, <2>3 DEF one_if
<1>2. CASE ~(zero_dte.day_0dte_atm_events > 0)
  <2>1. /\ zero_dte'.trades_per_day = zero_dte.trades_per_day
        /\ zero_dte'.volume_per_day = zero_dte.volume_per_day
        /\ zero_dte'.n_0dte_days = zero_dte.n_0dte_days
    BY <1>2 DEF ZeroDte!State, ZeroDte!end_of_day
  <2>2. zero_dte' \in ZeroDte!State
    BY <1>a, <1>b, <1>c, <2>1 DEF ZeroDte!State
  <2>3. zero_dte.trades_per_day.count \in Nat /\ zero_dte.trades_per_day.sum \in Nat
    BY <1>a DEF ZeroDte!Welford
  <2> QED
    BY <1>2, <1>a, <1>b, <2>1, <2>2, <2>3 DEF one_if
<1> QED
  BY <1>1, <1>2

LEMMA ZeroDteBeginOrReset ==
  ASSUME zero_dte \in ZeroDte!State, ctx'.utc_offset \in {-5, -4},
         ZeroDte!begin_day(ctx') \/ ZeroDte!reset_day
  PROVE  /\ zero_dte' \in ZeroDte!State
         /\ zero_dte'.atm_call_spread = zero_dte.atm_call_spread
         /\ zero_dte'.atm_put_spread = zero_dte.atm_put_spread
         /\ zero_dte'.atm_call_premium = zero_dte.atm_call_premium
         /\ zero_dte'.atm_put_premium = zero_dte.atm_put_premium
         /\ zero_dte'.total_0dte_atm_events = zero_dte.total_0dte_atm_events
         /\ zero_dte'.total_0dte_atm_trades = zero_dte.total_0dte_atm_trades
         /\ zero_dte'.trades_per_day = zero_dte.trades_per_day
         /\ zero_dte'.n_days = zero_dte.n_days
         /\ zero_dte'.n_0dte_days = zero_dte.n_0dte_days
         /\ ZeroDte!reset_day => /\ zero_dte'.day_0dte_atm_events = 0
                                 /\ zero_dte'.day_trade_count = 0
                                 /\ zero_dte'.day_trade_volume = 0
         /\ ZeroDte!begin_day(ctx') =>
              /\ zero_dte'.day_0dte_atm_events = zero_dte.day_0dte_atm_events
              /\ zero_dte'.day_trade_count = zero_dte.day_trade_count
              /\ zero_dte'.day_trade_volume = zero_dte.day_trade_volume
<1>1. ZeroDte!reset_day => /\ zero_dte'.day_0dte_atm_events = 0
                          /\ zero_dte'.day_trade_count = 0
                          /\ zero_dte'.day_trade_volume = 0
  BY DEF ZeroDte!State, ZeroDte!reset_day
<1>2. ZeroDte!begin_day(ctx') =>
        /\ zero_dte'.day_0dte_atm_events = zero_dte.day_0dte_atm_events
        /\ zero_dte'.day_trade_count = zero_dte.day_trade_count
        /\ zero_dte'.day_trade_volume = zero_dte.day_trade_volume
  BY DEF ZeroDte!State, ZeroDte!begin_day
<1>3. CASE ZeroDte!begin_day(ctx')
  <2>1. zero_dte' \in ZeroDte!State
    BY <1>3 DEF ZeroDte!State, ZeroDte!begin_day
  <2> QED
    BY <1>1, <1>2, <1>3, <2>1 DEF ZeroDte!State, ZeroDte!begin_day
<1>4. CASE ZeroDte!reset_day
  <2>1. zero_dte' \in ZeroDte!State
    BY <1>4 DEF ZeroDte!State, ZeroDte!reset_day
  <2> QED
    BY <1>1, <1>2, <1>4, <2>1 DEF ZeroDte!State, ZeroDte!reset_day
<1> QED
  BY <1>3, <1>4
-----------------------------------------------------------------------------
(* PremiumDecayTracker                                                     *)

(* What the tracker measures is what the two others count a mid of.        *)
LEMMA PremiumDecayQualifies ==
  ASSUME NEW event \in Event
  PROVE  /\ PremiumDecay!qualifies(event) <=> zero_dte_atm(event) /\ has_valid_bbo(event)
         /\ PremiumDecay!qualifies(event) =>
              /\ PremiumDecay!option_mid(event) = option_mid(event)
              /\ PremiumDecay!is_finite(PremiumDecay!spread(event))
              /\ PremiumDecay!spread(event) > 0
         /\ PremiumDecay!is_call(event) <=> is_call(event)
<1>1. PremiumDecay!zero_dte_atm(event) <=> zero_dte_atm(event)
  BY DEF PremiumDecay!zero_dte_atm, PremiumDecay!is_zero_dte, PremiumDecay!is_atm,
     zero_dte_atm, is_zero_dte, is_atm
<1>2. /\ PremiumDecay!has_valid_bbo(event) <=> has_valid_bbo(event)
      /\ has_valid_bbo(event) =>
           /\ PremiumDecay!option_mid(event) = option_mid(event)
           /\ PremiumDecay!is_finite(PremiumDecay!option_mid(event))
           /\ PremiumDecay!option_mid(event) > 0
           /\ PremiumDecay!is_finite(PremiumDecay!spread(event))
           /\ PremiumDecay!spread(event) > 0
  BY EventFacts DEF has_valid_bbo, PremiumDecay!has_valid_bbo, quoted, PremiumDecay!quoted,
     is_finite, PremiumDecay!is_finite, NaN, PremiumDecay!NaN, PremiumDecay!spread,
     option_mid, PremiumDecay!option_mid
<1>3. PremiumDecay!is_call(event) <=> is_call(event)
  BY DEF is_call, PremiumDecay!is_call
<1> QED
  BY <1>1, <1>2, <1>3 DEF PremiumDecay!qualifies

LEMMA PremiumDecayTypes ==
  ASSUME premium_decay \in PremiumDecay!State
  PROVE  /\ premium_decay.actual_call_curve \in Nat /\ premium_decay.actual_put_curve \in Nat
         /\ premium_decay.premium_to_spread_call \in Nat
         /\ premium_decay.premium_to_spread_put \in Nat
         /\ premium_decay.day_first_call_mid \in Nat /\ premium_decay.day_last_call_mid \in Nat
         /\ premium_decay.day_first_put_mid \in Nat /\ premium_decay.day_last_put_mid \in Nat
         /\ premium_decay.daily_call_decay_pct \in Nat
         /\ premium_decay.daily_put_decay_pct \in Nat
         /\ premium_decay.n_days \in Nat /\ premium_decay.n_0dte_days \in Nat
         /\ premium_decay.utc_offset \in {-5, -4}
  BY DEF PremiumDecay!State

LEMMA PremiumDecayProcess ==
  ASSUME premium_decay \in PremiumDecay!State, NEW event \in Event,
         PremiumDecay!process_event(event)
  PROVE  LET q == zero_dte_atm(event) /\ has_valid_bbo(event)
         IN  /\ premium_decay' \in PremiumDecay!State
             /\ premium_decay'.actual_call_curve =
                  premium_decay.actual_call_curve + one_if(q /\ is_call(event))
             /\ premium_decay'.actual_put_curve =
                  premium_decay.actual_put_curve + one_if(q /\ ~is_call(event))
             /\ premium_decay'.premium_to_spread_call =
                  premium_decay.premium_to_spread_call + one_if(q /\ is_call(event))
             /\ premium_decay'.premium_to_spread_put =
                  premium_decay.premium_to_spread_put + one_if(q /\ ~is_call(event))
             /\ premium_decay'.day_first_call_mid =
                  IF q /\ is_call(event) /\ premium_decay.day_first_call_mid = NaN
                  THEN option_mid(event) ELSE premium_decay.day_first_call_mid
             /\ premium_decay'.day_first_put_mid =
                  IF q /\ ~is_call(event) /\ premium_decay.day_first_put_mid = NaN
                  THEN option_mid(event) ELSE premium_decay.day_first_put_mid
             /\ premium_decay'.day_last_call_mid =
                  IF q /\ is_call(event)
                  THEN option_mid(event) ELSE premium_decay.day_last_call_mid
             /\ premium_decay'.day_last_put_mid =
                  IF q /\ ~is_call(event)
                  THEN option_mid(event) ELSE premium_decay.day_last_put_mid
             /\ premium_decay'.n_days = premium_decay.n_days
             /\ premium_decay'.n_0dte_days = premium_decay.n_0dte_days
<1>1. CASE ~(zero_dte_atm(event) /\ has_valid_bbo(event))
  <2>1. premium_decay' = premium_decay
    BY <1>1, PremiumDecayQualifies DEF PremiumDecay!process_event
  <2> QED
    BY <1>1, PremiumDecayTypes, <2>1 DEF one_if
<1>2. CASE zero_dte_atm(event) /\ has_valid_bbo(event) /\ is_call(event)
  <2>1. /\ PremiumDecay!qualifies(event) /\ PremiumDecay!is_call(event)
        /\ PremiumDecay!option_mid(event) = option_mid(event)
        /\ PremiumDecay!is_finite(PremiumDecay!spread(event))
        /\ PremiumDecay!spread(event) > 0
        /\ option_mid(event) \in Nat
    BY <1>2, PremiumDecayQualifies, ValidBBO
  <2>2. premium_decay' =
          [premium_decay EXCEPT
             !.actual_call_curve = @ + 1,
             !.day_first_call_mid = PremiumDecay!first_or(@, option_mid(event)),
             !.day_last_call_mid = option_mid(event),
             !.premium_to_spread_call = @ + 1]
    BY <2>1 DEF PremiumDecay!process_event, PremiumDecay!one_if
  <2>a. premium_decay' = [x \in DOMAIN premium_decay |-> premium_decay'[x]]
    BY <2>2
  <2>b. /\ premium_decay'.actual_call_curve \in Nat
        /\ premium_decay'.day_first_call_mid \in Nat
        /\ premium_decay'.day_last_call_mid \in Nat
        /\ premium_decay'.premium_to_spread_call \in Nat
    BY PremiumDecayTypes, <2>1, <2>2 DEF PremiumDecay!State, PremiumDecay!first_or
  <2>c. /\ premium_decay'.actual_put_curve = premium_decay.actual_put_curve
        /\ premium_decay'.premium_to_spread_put = premium_decay.premium_to_spread_put
        /\ premium_decay'.day_first_put_mid = premium_decay.day_first_put_mid
        /\ premium_decay'.day_last_put_mid = premium_decay.day_last_put_mid
        /\ premium_decay'.daily_call_decay_pct = premium_decay.daily_call_decay_pct
        /\ premium_decay'.daily_put_decay_pct = premium_decay.daily_put_decay_pct
        /\ premium_decay'.n_days = premium_decay.n_days
        /\ premium_decay'.n_0dte_days = premium_decay.n_0dte_days
        /\ premium_decay'.utc_offset = premium_decay.utc_offset
    BY <2>2 DEF PremiumDecay!State
  <2>3. premium_decay' \in PremiumDecay!State
    BY PremiumDecayTypes, <2>a, <2>b, <2>c DEF PremiumDecay!State
  <2> QED
    BY <1>2, PremiumDecayTypes, <2>2, <2>3, <2>c
       DEF PremiumDecay!State, PremiumDecay!first_or, PremiumDecay!None, PremiumDecay!NaN, NaN,
       one_if
<1>3. CASE zero_dte_atm(event) /\ has_valid_bbo(event) /\ ~is_call(event)
  <2>1. /\ PremiumDecay!qualifies(event) /\ ~PremiumDecay!is_call(event)
        /\ PremiumDecay!option_mid(event) = option_mid(event)
        /\ PremiumDecay!is_finite(PremiumDecay!spread(event))
        /\ PremiumDecay!spread(event) > 0
        /\ option_mid(event) \in Nat
    BY <1>3, PremiumDecayQualifies, ValidBBO
  <2>2. premium_decay' =
          [premium_decay EXCEPT
             !.actual_put_curve = @ + 1,
             !.day_first_put_mid = PremiumDecay!first_or(@, option_mid(event)),
             !.day_last_put_mid = option_mid(event),
             !.premium_to_spread_put = @ + 1]
    BY <2>1 DEF PremiumDecay!process_event, PremiumDecay!one_if
  <2>a. premium_decay' = [x \in DOMAIN premium_decay |-> premium_decay'[x]]
    BY <2>2
  <2>b. /\ premium_decay'.actual_put_curve \in Nat
        /\ premium_decay'.day_first_put_mid \in Nat
        /\ premium_decay'.day_last_put_mid \in Nat
        /\ premium_decay'.premium_to_spread_put \in Nat
    BY PremiumDecayTypes, <2>1, <2>2 DEF PremiumDecay!State, PremiumDecay!first_or
  <2>c. /\ premium_decay'.actual_call_curve = premium_decay.actual_call_curve
        /\ premium_decay'.premium_to_spread_call = premium_decay.premium_to_spread_call
        /\ premium_decay'.day_first_call_mid = premium_decay.day_first_call_mid
        /\ premium_decay'.day_last_call_mid = premium_decay.day_last_call_mid
        /\ premium_decay'.daily_call_decay_pct = premium_decay.daily_call_decay_pct
        /\ premium_decay'.daily_put_decay_pct = premium_decay.daily_put_decay_pct
        /\ premium_decay'.n_days = premium_decay.n_days
        /\ premium_decay'.n_0dte_days = premium_decay.n_0dte_days
        /\ premium_decay'.utc_offset = premium_decay.utc_offset
    BY <2>2 DEF PremiumDecay!State
  <2>3. premium_decay' \in PremiumDecay!State
    BY PremiumDecayTypes, <2>a, <2>b, <2>c DEF PremiumDecay!State
  <2> QED
    BY <1>3, PremiumDecayTypes, <2>2, <2>3, <2>c
       DEF PremiumDecay!State, PremiumDecay!first_or, PremiumDecay!None, PremiumDecay!NaN, NaN,
       one_if
<1> QED
  BY <1>1, <1>2, <1>3

LEMMA PremiumDecayDay ==
  ASSUME premium_decay \in PremiumDecay!State, ctx'.utc_offset \in {-5, -4},
         PremiumDecay!begin_day(ctx') \/ PremiumDecay!end_of_day \/ PremiumDecay!reset_day
  PROVE  /\ premium_decay' \in PremiumDecay!State
         /\ premium_decay'.actual_call_curve = premium_decay.actual_call_curve
         /\ premium_decay'.actual_put_curve = premium_decay.actual_put_curve
         /\ premium_decay'.premium_to_spread_call = premium_decay.premium_to_spread_call
         /\ premium_decay'.premium_to_spread_put = premium_decay.premium_to_spread_put
         /\ PremiumDecay!end_of_day =>
              /\ premium_decay'.n_days = premium_decay.n_days + 1
              /\ premium_decay'.n_0dte_days =
                   premium_decay.n_0dte_days
                     + one_if(\/ premium_decay.day_first_call_mid # NaN
                              \/ premium_decay.day_first_put_mid # NaN)
         /\ ~PremiumDecay!end_of_day =>
              /\ premium_decay'.n_days = premium_decay.n_days
              /\ premium_decay'.n_0dte_days = premium_decay.n_0dte_days
         /\ PremiumDecay!reset_day =>
              /\ premium_decay'.day_first_call_mid = NaN
              /\ premium_decay'.day_last_call_mid = NaN
              /\ premium_decay'.day_first_put_mid = NaN
              /\ premium_decay'.day_last_put_mid = NaN
         /\ ~PremiumDecay!reset_day =>
              /\ premium_decay'.day_first_call_mid = premium_decay.day_first_call_mid
              /\ premium_decay'.day_last_call_mid = premium_decay.day_last_call_mid
              /\ premium_decay'.day_first_put_mid = premium_decay.day_first_put_mid
              /\ premium_decay'.day_last_put_mid = premium_decay.day_last_put_mid
<1>1. PremiumDecay!end_of_day =>
        /\ premium_decay'.n_days = premium_decay.n_days + 1
        /\ premium_decay'.n_0dte_days =
             premium_decay.n_0dte_days
               + one_if(\/ premium_decay.day_first_call_mid # NaN
                        \/ premium_decay.day_first_put_mid # NaN)
  BY DEF PremiumDecay!State, PremiumDecay!end_of_day, PremiumDecay!had_0dte,
     PremiumDecay!one_if, one_if, PremiumDecay!None, PremiumDecay!NaN, NaN
<1>2. PremiumDecay!reset_day =>
        /\ premium_decay'.day_first_call_mid = NaN
        /\ premium_decay'.day_last_call_mid = NaN
        /\ premium_decay'.day_first_put_mid = NaN
        /\ premium_decay'.day_last_put_mid = NaN
  BY DEF PremiumDecay!State, PremiumDecay!reset_day, PremiumDecay!None, PremiumDecay!NaN, NaN
<1>3. CASE PremiumDecay!begin_day(ctx')
  <2>1. premium_decay' \in PremiumDecay!State
    BY <1>3 DEF PremiumDecay!State, PremiumDecay!begin_day
  <2> QED
    BY <1>1, <1>2, <1>3, <2>1 DEF PremiumDecay!State, PremiumDecay!begin_day
<1>4. CASE PremiumDecay!end_of_day
  <2>1. premium_decay' \in PremiumDecay!State
    <3>1. premium_decay' = [x \in DOMAIN premium_decay |-> premium_decay'[x]]
      BY <1>4, ZenonT(60) DEF PremiumDecay!end_of_day
    <3>2. /\ premium_decay'.daily_call_decay_pct \in Nat
          /\ premium_decay'.daily_put_decay_pct \in Nat
          /\ premium_decay'.n_0dte_days \in Nat /\ premium_decay'.n_days \in Nat
      BY <1>4 DEF PremiumDecay!State, PremiumDecay!end_of_day, PremiumDecay!one_if
    <3>3. \A field \in {"utc_offset", "actual_call_curve", "actual_put_curve",
                        "premium_to_spread_call", "premium_to_spread_put",
                        "day_first_call_mid", "day_last_call_mid", "day_first_put_mid",
                        "day_last_put_mid"} :
            premium_decay'[field] = premium_decay[field]
      BY <1>4 DEF PremiumDecay!State, PremiumDecay!end_of_day
    <3> QED
      BY <3>1, <3>2, <3>3 DEF PremiumDecay!State
  <2> QED
    BY <1>1, <1>2, <1>4, <2>1 DEF PremiumDecay!State, PremiumDecay!end_of_day
<1>5. CASE PremiumDecay!reset_day
  <2>1. premium_decay' \in PremiumDecay!State
    BY <1>5 DEF PremiumDecay!State, PremiumDecay!reset_day, PremiumDecay!None,
       PremiumDecay!NaN
  <2> QED
    BY <1>1, <1>2, <1>5, <2>1 DEF PremiumDecay!State, PremiumDecay!reset_day
<1> QED
  BY <1>3, <1>4, <1>5
-----------------------------------------------------------------------------
(* GreeksTracker                                                           *)

(* A quote the tracker may sample.                                         *)
candidate(event) == is_atm(event) /\ has_valid_bbo(event) /\ event.underlying_positive

LEMMA GreeksQualifies ==
  ASSUME NEW event \in Event
  PROVE  Greeks!qualifies(event) <=> candidate(event)
<1>1. Greeks!is_atm(event) <=> is_atm(event)
  BY DEF Greeks!is_atm, is_atm
<1>2. /\ Greeks!has_valid_bbo(event) <=> has_valid_bbo(event)
      /\ has_valid_bbo(event) => /\ Greeks!is_finite(Greeks!option_mid(event))
                                 /\ Greeks!option_mid(event) > 0
  BY EventFacts DEF has_valid_bbo, Greeks!has_valid_bbo, quoted, Greeks!quoted, is_finite,
     Greeks!is_finite, NaN, Greeks!NaN, Greeks!option_mid
<1> QED
  BY <1>1, <1>2 DEF Greeks!qualifies, candidate

LEMMA GreeksTypes ==
  ASSUME greeks \in Greeks!State
  PROVE  /\ greeks.dte0_atm_call_iv \in Nat /\ greeks.dte0_atm_put_iv \in Nat
         /\ greeks.dte0_atm_iv_curve \in Nat /\ greeks.dte_bucket_iv \in [DteBucket -> Nat]
         /\ greeks.atm_sample_counter \in Nat /\ greeks.atm_quote_count \in Nat
         /\ greeks.iv_computed \in Nat /\ greeks.iv_failed \in Nat /\ greeks.n_days \in Nat
         /\ greeks.utc_offset \in {-5, -4}
         /\ DteTotal(greeks.dte_bucket_iv) \in Nat /\ greeks.dte_bucket_iv["0dte"] \in Nat
<1>1. /\ greeks.dte0_atm_call_iv \in Nat /\ greeks.dte0_atm_put_iv \in Nat
      /\ greeks.dte0_atm_iv_curve \in Nat /\ greeks.dte_bucket_iv \in [DteBucket -> Nat]
      /\ greeks.atm_sample_counter \in Nat /\ greeks.atm_quote_count \in Nat
      /\ greeks.iv_computed \in Nat /\ greeks.iv_failed \in Nat /\ greeks.n_days \in Nat
      /\ greeks.utc_offset \in {-5, -4}
  BY DEF Greeks!State, DteBucket, Greeks!DteBucket
<1> QED
  BY <1>1 DEF DteBucket, DteTotal, Moneyness, MoneynessTotal, Greeks!Welford

(* Of k samples, 0 or 1, the first c have a volatility.                    *)
LEMMA GreeksProcess ==
  ASSUME greeks \in Greeks!State, NEW event \in Event, Greeks!process_event(event)
  PROVE  /\ greeks' \in Greeks!State
         /\ greeks'.atm_quote_count = greeks.atm_quote_count + one_if(candidate(event))
         /\ greeks'.atm_sample_counter = greeks.atm_sample_counter + one_if(candidate(event))
         /\ \E c \in {0, 1}, f \in {0, 1} :
              /\ c + f = one_if(/\ candidate(event)
                                /\ (greeks.atm_sample_counter + 1) % iv_sample_interval = 0)
              /\ greeks'.iv_computed = greeks.iv_computed + c
              /\ greeks'.iv_failed = greeks.iv_failed + f
              /\ DteTotal(greeks'.dte_bucket_iv) = DteTotal(greeks.dte_bucket_iv) + c
              /\ greeks'.dte_bucket_iv["0dte"] =
                   greeks.dte_bucket_iv["0dte"] + (IF is_zero_dte(event) THEN c ELSE 0)
              /\ greeks'.dte0_atm_call_iv + greeks'.dte0_atm_put_iv =
                   greeks.dte0_atm_call_iv + greeks.dte0_atm_put_iv
                     + (IF is_zero_dte(event) THEN c ELSE 0)
         /\ greeks'.n_days = greeks.n_days
<1>b. Greeks!counted \in Greeks!State
  <2>1. greeks.atm_quote_count + 1 \in Nat /\ greeks.atm_sample_counter + 1 \in Nat
    BY GreeksTypes
  <2>2. \A m, n \in Nat :
          [greeks EXCEPT !.atm_quote_count = m, !.atm_sample_counter = n] \in Greeks!State
    BY DEF Greeks!State
  <2> QED
    BY <2>1, <2>2 DEF Greeks!counted
<1>1. CASE ~candidate(event)
  <2>1. greeks' = greeks
    BY <1>1, GreeksQualifies DEF Greeks!process_event
  <2> QED
    BY <1>1, GreeksTypes, <2>1 DEF one_if
<1>2. CASE candidate(event) /\ ~Greeks!sampled
  <2>1. greeks' = Greeks!counted
    BY <1>2, GreeksQualifies DEF Greeks!process_event
  <2>2. greeks' \in Greeks!State
    BY <1>b, <2>1
  <2>3. /\ greeks'.atm_quote_count = greeks.atm_quote_count + 1
        /\ greeks'.atm_sample_counter = greeks.atm_sample_counter + 1
        /\ greeks'.iv_computed = greeks.iv_computed /\ greeks'.iv_failed = greeks.iv_failed
        /\ greeks'.dte_bucket_iv = greeks.dte_bucket_iv
        /\ greeks'.dte0_atm_call_iv = greeks.dte0_atm_call_iv
        /\ greeks'.dte0_atm_put_iv = greeks.dte0_atm_put_iv
        /\ greeks'.n_days = greeks.n_days
    BY <2>1 DEF Greeks!State, Greeks!counted
  <2>4. ~((greeks.atm_sample_counter + 1) % iv_sample_interval = 0)
    BY <1>2 DEF Greeks!sampled
  <2> QED
    BY <1>2, GreeksTypes, <2>2, <2>3, <2>4 DEF one_if
<1>3. CASE candidate(event) /\ Greeks!sampled /\ greeks' = Greeks!without_iv
  <2>1. greeks' \in Greeks!State
    <3>1. Greeks!counted.iv_failed + 1 \in Nat
      BY <1>b DEF Greeks!State
    <3>2. \A g \in Greeks!State, n \in Nat : [g EXCEPT !.iv_failed = n] \in Greeks!State
      BY DEF Greeks!State
    <3> QED
      BY <1>3, <1>b, <3>1, <3>2 DEF Greeks!without_iv
  <2>2. /\ greeks'.atm_quote_count = greeks.atm_quote_count + 1
        /\ greeks'.atm_sample_counter = greeks.atm_sample_counter + 1
        /\ greeks'.iv_computed = greeks.iv_computed
        /\ greeks'.iv_failed = greeks.iv_failed + 1
        /\ greeks'.dte_bucket_iv = greeks.dte_bucket_iv
        /\ greeks'.dte0_atm_call_iv = greeks.dte0_atm_call_iv
        /\ greeks'.dte0_atm_put_iv = greeks.dte0_atm_put_iv
        /\ greeks'.n_days = greeks.n_days
    BY <1>3 DEF Greeks!State, Greeks!counted, Greeks!without_iv
  <2>3. (greeks.atm_sample_counter + 1) % iv_sample_interval = 0
    BY <1>3 DEF Greeks!sampled
  <2> QED
    BY <1>3, GreeksTypes, <2>1, <2>2, <2>3 DEF one_if
<1>4. CASE candidate(event) /\ Greeks!sampled /\ greeks' = Greeks!with_iv(event)
  <2>1. greeks' = [x \in DOMAIN greeks |-> greeks'[x]]
    BY <1>4, ZenonT(60) DEF Greeks!with_iv, Greeks!counted
  <2>2. /\ greeks'.atm_quote_count = greeks.atm_quote_count + 1
        /\ greeks'.atm_sample_counter = greeks.atm_sample_counter + 1
        /\ greeks'.iv_computed = greeks.iv_computed + 1
        /\ greeks'.iv_failed = greeks.iv_failed
        /\ greeks'.n_days = greeks.n_days
        /\ greeks'.utc_offset = greeks.utc_offset
    BY <1>4 DEF Greeks!State, Greeks!counted, Greeks!with_iv
  <2>3. /\ greeks'.dte0_atm_call_iv =
             greeks.dte0_atm_call_iv + one_if(is_zero_dte(event) /\ is_call(event))
        /\ greeks'.dte0_atm_put_iv =
             greeks.dte0_atm_put_iv + one_if(is_zero_dte(event) /\ ~is_call(event))
        /\ greeks'.dte0_atm_iv_curve = greeks.dte0_atm_iv_curve + one_if(is_zero_dte(event))
    BY <1>4 DEF Greeks!State, Greeks!counted, Greeks!with_iv, one_if, Greeks!one_if,
       is_zero_dte, Greeks!is_zero_dte, is_call, Greeks!is_call
  <2>4. greeks'.dte_bucket_iv =
          [greeks.dte_bucket_iv EXCEPT ![dte_bucket(event.dte)] = @ + 1]
    BY <1>4 DEF Greeks!State, Greeks!counted, Greeks!with_iv, dte_bucket, Greeks!dte_bucket
  <2>5. /\ greeks'.dte_bucket_iv \in [DteBucket -> Nat]
        /\ DteTotal(greeks'.dte_bucket_iv) = DteTotal(greeks.dte_bucket_iv) + 1
        /\ greeks'.dte_bucket_iv["0dte"] =
             greeks.dte_bucket_iv["0dte"] + (IF is_zero_dte(event) THEN 1 ELSE 0)
    BY GreeksTypes, <2>4, DteAdd, EventFacts, ZeroDteBucket
  <2>6. greeks' \in Greeks!State
    BY GreeksTypes, <2>1, <2>2, <2>3, <2>5, OneIf DEF Greeks!State, DteBucket, Greeks!DteBucket
  <2>7. (greeks.atm_sample_counter + 1) % iv_sample_interval = 0
    BY <1>4 DEF Greeks!sampled
  <2> QED
    BY <1>4, GreeksTypes, <2>2, <2>3, <2>5, <2>6, <2>7 DEF one_if
<1> QED
  BY <1>1, <1>2, <1>3, <1>4, GreeksQualifies DEF Greeks!process_event

LEMMA GreeksDay ==
  ASSUME greeks \in Greeks!State, ctx'.utc_offset \in {-5, -4},
         Greeks!begin_day(ctx') \/ Greeks!end_of_day \/ Greeks!reset_day
  PROVE  /\ greeks' \in Greeks!State
         /\ greeks'.atm_quote_count = greeks.atm_quote_count
         /\ greeks'.iv_computed = greeks.iv_computed
         /\ greeks'.iv_failed = greeks.iv_failed
         /\ greeks'.dte_bucket_iv = greeks.dte_bucket_iv
         /\ greeks'.dte0_atm_call_iv = greeks.dte0_atm_call_iv
         /\ greeks'.dte0_atm_put_iv = greeks.dte0_atm_put_iv
         /\ Greeks!end_of_day => greeks'.n_days = greeks.n_days + 1
         /\ ~Greeks!end_of_day => greeks'.n_days = greeks.n_days
         /\ Greeks!reset_day => greeks'.atm_sample_counter = iv_sample_interval - 1
         /\ ~Greeks!reset_day => greeks'.atm_sample_counter = greeks.atm_sample_counter
<1>1. Greeks!end_of_day => greeks'.n_days = greeks.n_days + 1
  BY DEF Greeks!State, Greeks!end_of_day
<1>2. Greeks!reset_day => greeks'.atm_sample_counter = iv_sample_interval - 1
  BY DEF Greeks!State, Greeks!reset_day
<1>3. CASE Greeks!begin_day(ctx')
  <2>1. greeks' \in Greeks!State
    BY <1>3 DEF Greeks!State, Greeks!begin_day
  <2> QED
    BY <1>1, <1>2, <1>3, <2>1 DEF Greeks!State, Greeks!begin_day
<1>4. CASE Greeks!end_of_day
  <2>1. greeks' \in Greeks!State
    BY <1>4 DEF Greeks!State, Greeks!end_of_day
  <2> QED
    BY <1>1, <1>2, <1>4, <2>1 DEF Greeks!State, Greeks!end_of_day
<1>5. CASE Greeks!reset_day
  <2>1. greeks' \in Greeks!State
    BY <1>5, TrackerSetAssumption DEF Greeks!State, Greeks!reset_day
  <2> QED
    BY <1>1, <1>2, <1>5, <2>1 DEF Greeks!State, Greeks!reset_day
<1> QED
  BY <1>3, <1>4, <1>5
-----------------------------------------------------------------------------
(* PutCallRatioTracker                                                     *)

LEMMA PutCallTypes ==
  ASSUME put_call \in PutCall!State
  PROVE  /\ put_call.day_call_vol \in Nat /\ put_call.day_put_vol \in Nat
         /\ put_call.day_call_trades \in Nat /\ put_call.day_put_trades \in Nat
         /\ put_call.day_0dte_call_vol \in Nat /\ put_call.day_0dte_put_vol \in Nat
         /\ put_call.pcr_volume_daily \in Nat /\ put_call.pcr_trades_daily \in Nat
         /\ put_call.pcr_0dte_daily \in Nat
         /\ put_call.intraday_call_vol \in Nat /\ put_call.intraday_put_vol \in Nat
         /\ put_call.intraday_0dte_call_vol \in Nat /\ put_call.intraday_0dte_put_vol \in Nat
         /\ put_call.n_days \in Nat /\ put_call.utc_offset \in {-5, -4}
  BY DEF PutCall!State

LEMMA PutCallProcess ==
  ASSUME put_call \in PutCall!State, NEW event \in Event, PutCall!process_event(event)
  PROVE  /\ put_call' \in PutCall!State
         /\ put_call'.day_call_vol =
              put_call.day_call_vol + (IF is_call(event) THEN contracts(event) ELSE 0)
         /\ put_call'.day_put_vol =
              put_call.day_put_vol + (IF is_call(event) THEN 0 ELSE contracts(event))
         /\ put_call'.day_call_trades =
              put_call.day_call_trades + one_if(traded(event) /\ is_call(event))
         /\ put_call'.day_put_trades =
              put_call.day_put_trades + one_if(traded(event) /\ ~is_call(event))
         /\ put_call'.intraday_call_vol =
              put_call.intraday_call_vol + one_if(traded(event) /\ is_call(event))
         /\ put_call'.intraday_put_vol =
              put_call.intraday_put_vol + one_if(traded(event) /\ ~is_call(event))
         /\ put_call'.day_0dte_call_vol =
              put_call.day_0dte_call_vol
                + (IF is_zero_dte(event) /\ is_call(event) THEN contracts(event) ELSE 0)
         /\ put_call'.day_0dte_put_vol =
              put_call.day_0dte_put_vol
                + (IF is_zero_dte(event) /\ ~is_call(event) THEN contracts(event) ELSE 0)
         /\ put_call'.intraday_0dte_call_vol =
              put_call.intraday_0dte_call_vol
                + one_if(traded(event) /\ is_zero_dte(event) /\ is_call(event))
         /\ put_call'.intraday_0dte_put_vol =
              put_call.intraday_0dte_put_vol
                + one_if(traded(event) /\ is_zero_dte(event) /\ ~is_call(event))
         /\ put_call'.pcr_volume_daily = put_call.pcr_volume_daily
         /\ put_call'.pcr_trades_daily = put_call.pcr_trades_daily
         /\ put_call'.pcr_0dte_daily = put_call.pcr_0dte_daily
         /\ put_call'.n_days = put_call.n_days
<1>b. /\ PutCall!traded(event) <=> traded(event)
      /\ PutCall!is_call(event) <=> is_call(event)
      /\ PutCall!is_zero_dte(event) <=> is_zero_dte(event)
  BY DEF PutCall!traded, traded, PutCall!is_trade, is_trade, PutCall!is_call, is_call,
     PutCall!is_zero_dte, is_zero_dte
<1>1. CASE ~traded(event)
  <2>1. put_call' = put_call
    BY <1>1, <1>b DEF PutCall!process_event
  <2>2. contracts(event) = 0
    BY <1>1 DEF contracts
  <2> QED
    BY <1>1, PutCallTypes, <2>1, <2>2 DEF one_if
<1>2. CASE traded(event) /\ is_call(event)
  <2>1. put_call' = PutCall!count_call(event) /\ contracts(event) = event.trade_size
    BY <1>2, <1>b DEF PutCall!process_event, contracts
  <2>2. put_call' = [x \in DOMAIN put_call |-> put_call'[x]]
    BY <2>1, ZenonT(60) DEF PutCall!count_call
  <2>3. /\ put_call'.day_call_vol = put_call.day_call_vol + event.trade_size
        /\ put_call'.day_call_trades = put_call.day_call_trades + 1
        /\ put_call'.intraday_call_vol = put_call.intraday_call_vol + 1
    BY <2>1 DEF PutCall!State, PutCall!count_call
  <2>4. /\ put_call'.day_0dte_call_vol =
             put_call.day_0dte_call_vol + (IF is_zero_dte(event) THEN event.trade_size ELSE 0)
        /\ put_call'.intraday_0dte_call_vol =
             put_call.intraday_0dte_call_vol + one_if(is_zero_dte(event))
    BY <2>1, <1>b DEF PutCall!State, PutCall!count_call, PutCall!one_if, one_if
  <2>5. \A field \in {"utc_offset", "day_put_vol", "day_put_trades", "day_0dte_put_vol",
                      "pcr_volume_daily", "pcr_trades_daily", "pcr_0dte_daily",
                      "intraday_put_vol", "intraday_0dte_put_vol", "n_days"} :
          put_call'[field] = put_call[field]
    BY <2>1 DEF PutCall!State, PutCall!count_call
  <2>6. put_call' \in PutCall!State
    BY PutCallTypes, <2>2, <2>3, <2>4, <2>5, EventFacts, OneIf DEF PutCall!State
  <2> QED
    BY <1>2, PutCallTypes, <2>1, <2>3, <2>4, <2>5, <2>6 DEF one_if
<1>3. CASE traded(event) /\ ~is_call(event)
  <2>1. put_call' = PutCall!count_put(event) /\ contracts(event) = event.trade_size
    BY <1>3, <1>b DEF PutCall!process_event, contracts
  <2>2. put_call' = [x \in DOMAIN put_call |-> put_call'[x]]
    BY <2>1, ZenonT(60) DEF PutCall!count_put
  <2>3. /\ put_call'.day_put_vol = put_call.day_put_vol + event.trade_size
        /\ put_call'.day_put_trades = put_call.day_put_trades + 1
        /\ put_call'.intraday_put_vol = put_call.intraday_put_vol + 1
    BY <2>1 DEF PutCall!State, PutCall!count_put
  <2>4. /\ put_call'.day_0dte_put_vol =
             put_call.day_0dte_put_vol + (IF is_zero_dte(event) THEN event.trade_size ELSE 0)
        /\ put_call'.intraday_0dte_put_vol =
             put_call.intraday_0dte_put_vol + one_if(is_zero_dte(event))
    BY <2>1, <1>b DEF PutCall!State, PutCall!count_put, PutCall!one_if, one_if
  <2>5. \A field \in {"utc_offset", "day_call_vol", "day_call_trades", "day_0dte_call_vol",
                      "pcr_volume_daily", "pcr_trades_daily", "pcr_0dte_daily",
                      "intraday_call_vol", "intraday_0dte_call_vol", "n_days"} :
          put_call'[field] = put_call[field]
    BY <2>1 DEF PutCall!State, PutCall!count_put
  <2>6. put_call' \in PutCall!State
    BY PutCallTypes, <2>2, <2>3, <2>4, <2>5, EventFacts, OneIf DEF PutCall!State
  <2> QED
    BY <1>3, PutCallTypes, <2>1, <2>3, <2>4, <2>5, <2>6 DEF one_if
<1> QED
  BY <1>1, <1>2, <1>3

LEMMA PutCallDay ==
  ASSUME put_call \in PutCall!State, ctx'.utc_offset \in {-5, -4},
         PutCall!begin_day(ctx') \/ PutCall!end_of_day \/ PutCall!reset_day
  PROVE  /\ put_call' \in PutCall!State
         /\ put_call'.intraday_call_vol = put_call.intraday_call_vol
         /\ put_call'.intraday_put_vol = put_call.intraday_put_vol
         /\ put_call'.intraday_0dte_call_vol = put_call.intraday_0dte_call_vol
         /\ put_call'.intraday_0dte_put_vol = put_call.intraday_0dte_put_vol
         /\ PutCall!end_of_day =>
              /\ put_call'.pcr_volume_daily =
                   put_call.pcr_volume_daily + one_if(put_call.day_call_vol > 0)
              /\ put_call'.pcr_trades_daily =
                   put_call.pcr_trades_daily + one_if(put_call.day_call_trades > 0)
              /\ put_call'.pcr_0dte_daily =
                   put_call.pcr_0dte_daily + one_if(put_call.day_0dte_call_vol > 0)
              /\ put_call'.n_days = put_call.n_days + 1
         /\ ~PutCall!end_of_day =>
              /\ put_call'.pcr_volume_daily = put_call.pcr_volume_daily
              /\ put_call'.pcr_trades_daily = put_call.pcr_trades_daily
              /\ put_call'.pcr_0dte_daily = put_call.pcr_0dte_daily
              /\ put_call'.n_days = put_call.n_days
         /\ PutCall!reset_day =>
              /\ put_call'.day_call_vol = 0 /\ put_call'.day_put_vol = 0
              /\ put_call'.day_call_trades = 0 /\ put_call'.day_put_trades = 0
              /\ put_call'.day_0dte_call_vol = 0 /\ put_call'.day_0dte_put_vol = 0
         /\ ~PutCall!reset_day =>
              /\ put_call'.day_call_vol = put_call.day_call_vol
              /\ put_call'.day_put_vol = put_call.day_put_vol
              /\ put_call'.day_call_trades = put_call.day_call_trades
              /\ put_call'.day_put_trades = put_call.day_put_trades
              /\ put_call'.day_0dte_call_vol = put_call.day_0dte_call_vol
              /\ put_call'.day_0dte_put_vol = put_call.day_0dte_put_vol
<1>1. PutCall!end_of_day =>
        /\ put_call'.pcr_volume_daily =
             put_call.pcr_volume_daily + one_if(put_call.day_call_vol > 0)
        /\ put_call'.pcr_trades_daily =
             put_call.pcr_trades_daily + one_if(put_call.day_call_trades > 0)
        /\ put_call'.pcr_0dte_daily =
             put_call.pcr_0dte_daily + one_if(put_call.day_0dte_call_vol > 0)
        /\ put_call'.n_days = put_call.n_days + 1
  BY DEF PutCall!State, PutCall!end_of_day, PutCall!one_if, one_if
<1>2. PutCall!reset_day =>
        /\ put_call'.day_call_vol = 0 /\ put_call'.day_put_vol = 0
        /\ put_call'.day_call_trades = 0 /\ put_call'.day_put_trades = 0
        /\ put_call'.day_0dte_call_vol = 0 /\ put_call'.day_0dte_put_vol = 0
  BY DEF PutCall!State, PutCall!reset_day
<1>3. CASE PutCall!begin_day(ctx')
  <2>1. put_call' \in PutCall!State
    BY <1>3 DEF PutCall!State, PutCall!begin_day
  <2> QED
    BY <1>1, <1>2, <1>3, <2>1 DEF PutCall!State, PutCall!begin_day
<1>4. CASE PutCall!end_of_day
  <2>1. put_call' = [x \in DOMAIN put_call |-> put_call'[x]]
    BY <1>4, ZenonT(60) DEF PutCall!end_of_day
  <2>2. \A field \in {"utc_offset", "day_call_vol", "day_put_vol", "day_call_trades",
                      "day_put_trades", "day_0dte_call_vol", "day_0dte_put_vol",
                      "intraday_call_vol", "intraday_put_vol", "intraday_0dte_call_vol",
                      "intraday_0dte_put_vol"} : put_call'[field] = put_call[field]
    BY <1>4 DEF PutCall!State, PutCall!end_of_day
  <2>3. /\ put_call'.pcr_volume_daily \in Nat /\ put_call'.pcr_trades_daily \in Nat
        /\ put_call'.pcr_0dte_daily \in Nat /\ put_call'.n_days \in Nat
    BY <1>4, <1>1, OneIf DEF PutCall!State
  <2>4. put_call' \in PutCall!State
    BY <2>1, <2>2, <2>3 DEF PutCall!State
  <2> QED
    BY <1>1, <1>2, <1>4, <2>2, <2>4
<1>5. CASE PutCall!reset_day
  <2>1. put_call' = [x \in DOMAIN put_call |-> put_call'[x]]
    BY <1>5, ZenonT(60) DEF PutCall!reset_day
  <2>2. \A field \in {"utc_offset", "pcr_volume_daily", "pcr_trades_daily", "pcr_0dte_daily",
                      "intraday_call_vol", "intraday_put_vol", "intraday_0dte_call_vol",
                      "intraday_0dte_put_vol", "n_days"} : put_call'[field] = put_call[field]
    BY <1>5 DEF PutCall!State, PutCall!reset_day
  <2>3. put_call' \in PutCall!State
    BY <1>2, <1>5, <2>1, <2>2 DEF PutCall!State
  <2> QED
    BY <1>1, <1>2, <1>5, <2>2, <2>3
<1> QED
  BY <1>3, <1>4, <1>5
-----------------------------------------------------------------------------
(* OptionsEffectiveSpreadTracker                                           *)

(* A trade with a price, in a BBO it can be compared with.                 *)
priced(event) == traded(event) /\ has_valid_bbo(event) /\ event.trade_price > 0

cell_of(event) == <<dte_bucket(event.dte), event.moneyness>>

LEMMA EffectiveQualifies ==
  ASSUME NEW event \in Event
  PROVE  Effective!qualifies(event) <=> priced(event)
<1>1. Effective!traded(event) <=> traded(event)
  BY DEF Effective!traded, traded, Effective!is_trade, is_trade
<1>2. /\ Effective!has_valid_bbo(event) <=> has_valid_bbo(event)
      /\ has_valid_bbo(event) => /\ Effective!is_finite(Effective!option_mid(event))
                                 /\ Effective!option_mid(event) > 0
  BY EventFacts DEF has_valid_bbo, Effective!has_valid_bbo, quoted, Effective!quoted, is_finite,
     Effective!is_finite, NaN, Effective!NaN, Effective!option_mid
<1>3. event.trade_price > 0 => Effective!is_finite(event.trade_price)
  BY EventFacts DEF Effective!is_finite, Effective!NaN
<1> QED
  BY <1>1, <1>2, <1>3 DEF Effective!qualifies, priced

(* A trade inside the BBO pays less than the quoted spread, one at it pays *)
(* the quoted spread, one outside it pays more.                            *)
LEMMA SpreadPaid ==
  ASSUME NEW event \in Event, priced(event)
  PROVE  /\ Effective!location(event) \in Effective!Location
         /\ Effective!effective_spread(event) \in Nat
         /\ Effective!quoted_spread(event) \in Nat /\ Effective!quoted_spread(event) > 0
         /\ Effective!location(event) # "outside" =>
              Effective!effective_spread(event) <= Effective!quoted_spread(event)
         /\ Effective!location(event) # "inside" =>
              Effective!effective_spread(event) >= Effective!quoted_spread(event)
<1>1. PICK p \in Nat, b \in Nat, a \in Nat :
        p = event.trade_price /\ b = event.bid_px /\ a = event.ask_px
  BY EventFacts
<1>2. b > 0 /\ a > b
  BY <1>1 DEF priced, has_valid_bbo, quoted
<1>3. Effective!option_mid(event) = b + a
  BY <1>1, <1>2 DEF Effective!option_mid, Effective!quoted, Effective!is_finite, Effective!NaN
<1>4. Effective!quoted_spread(event) = a - b
  BY <1>1 DEF Effective!quoted_spread
<1>5. Effective!effective_spread(event) =
        IF 2 * p - (b + a) >= 0 THEN 2 * p - (b + a) ELSE -(2 * p - (b + a))
  BY <1>1, <1>3 DEF Effective!effective_spread
<1>6. Effective!location(event) =
        IF p > b /\ p < a THEN "inside" ELSE IF p \in {b, a} THEN "at" ELSE "outside"
  BY <1>1 DEF Effective!location
<1>7. CASE p > b /\ p < a
  BY <1>2, <1>4, <1>5, <1>6, <1>7 DEF Effective!Location
<1>8. CASE p = b
  BY <1>2, <1>4, <1>5, <1>6, <1>8 DEF Effective!Location
<1>9. CASE p = a
  BY <1>2, <1>4, <1>5, <1>6, <1>9 DEF Effective!Location
<1>10. CASE p < b \/ p > a
  BY <1>2, <1>4, <1>5, <1>6, <1>10 DEF Effective!Location
<1> QED
  BY <1>7, <1>8, <1>9, <1>10

LEMMA LocationAdd ==
  ASSUME NEW f \in [Effective!Location -> Nat], NEW l \in Effective!Location, NEW n \in Nat
  PROVE  /\ [f EXCEPT ![l] = @ + n] \in [Effective!Location -> Nat]
         /\ Effective!LocationTotal(f) \in Nat
         /\ Effective!LocationTotal([f EXCEPT ![l] = @ + n]) = Effective!LocationTotal(f) + n
  BY DEF Effective!Location, Effective!LocationTotal

LEMMA SizeAdd ==
  ASSUME NEW f \in [Effective!SizeBucket -> Nat], NEW s \in Effective!SizeBucket
  PROVE  /\ [f EXCEPT ![s] = @ + 1] \in [Effective!SizeBucket -> Nat]
         /\ Effective!SizeTotal(f) \in Nat
         /\ Effective!SizeTotal([f EXCEPT ![s] = @ + 1]) = Effective!SizeTotal(f) + 1
  BY DEF Effective!SizeBucket, Effective!SizeTotal

LEMMA EffectiveTypes ==
  ASSUME effective_spread \in Effective!State
  PROVE  /\ effective_spread.effective_spread_by_dte_moneyness
              \in [Effective!Cell -> Effective!Welford]
         /\ effective_spread.quoted_spread_by_dte_moneyness
              \in [Effective!Cell -> Effective!Welford]
         /\ effective_spread.effective_spread_by_size \in [Effective!SizeBucket -> Nat]
         /\ effective_spread.trades_bbo \in [Effective!Location -> Nat]
         /\ effective_spread.trades_bbo_0dte_atm \in [Effective!Location -> Nat]
         /\ effective_spread.intraday_spread_0dte_atm \in Nat
         /\ effective_spread.total_trades \in Nat /\ effective_spread.n_days \in Nat
         /\ effective_spread.utc_offset \in {-5, -4}
         /\ Effective!SizeTotal(effective_spread.effective_spread_by_size) \in Nat
         /\ Effective!LocationTotal(effective_spread.trades_bbo) \in Nat
         /\ Effective!LocationTotal(effective_spread.trades_bbo_0dte_atm) \in Nat
<1>1. /\ effective_spread.effective_spread_by_dte_moneyness
           \in [Effective!Cell -> Effective!Welford]
      /\ effective_spread.quoted_spread_by_dte_moneyness
           \in [Effective!Cell -> Effective!Welford]
      /\ effective_spread.effective_spread_by_size \in [Effective!SizeBucket -> Nat]
      /\ effective_spread.trades_bbo \in [Effective!Location -> Nat]
      /\ effective_spread.trades_bbo_0dte_atm \in [Effective!Location -> Nat]
      /\ effective_spread.intraday_spread_0dte_atm \in Nat
      /\ effective_spread.total_trades \in Nat /\ effective_spread.n_days \in Nat
      /\ effective_spread.utc_offset \in {-5, -4}
  BY DEF Effective!State
<1> QED
  BY <1>1, LocationAdd, SizeAdd
     DEF Effective!SizeTotal, Effective!SizeBucket, Effective!LocationTotal, Effective!Location

LEMMA EffectiveProcess ==
  ASSUME effective_spread \in Effective!State, NEW event \in Event,
         Effective!process_event(event)
  PROVE  /\ effective_spread' \in Effective!State
         /\ effective_spread'.total_trades =
              effective_spread.total_trades + one_if(priced(event))
         /\ Effective!LocationTotal(effective_spread'.trades_bbo) =
              Effective!LocationTotal(effective_spread.trades_bbo) + one_if(priced(event))
         /\ Effective!SizeTotal(effective_spread'.effective_spread_by_size) =
              Effective!SizeTotal(effective_spread.effective_spread_by_size)
                + one_if(priced(event))
         /\ Effective!LocationTotal(effective_spread'.trades_bbo_0dte_atm) =
              Effective!LocationTotal(effective_spread.trades_bbo_0dte_atm)
                + one_if(priced(event) /\ zero_dte_atm(event))
         /\ effective_spread'.intraday_spread_0dte_atm =
              effective_spread.intraday_spread_0dte_atm
                + one_if(priced(event) /\ zero_dte_atm(event))
         /\ effective_spread'.n_days = effective_spread.n_days
         /\ ~priced(event) => effective_spread' = effective_spread
         /\ priced(event) =>
              /\ effective_spread'.effective_spread_by_dte_moneyness =
                   [effective_spread.effective_spread_by_dte_moneyness EXCEPT
                      ![cell_of(event)] =
                        [count |-> @.count + 1,
                         sum |-> @.sum + Effective!effective_spread(event)]]
              /\ effective_spread'.quoted_spread_by_dte_moneyness =
                   [effective_spread.quoted_spread_by_dte_moneyness EXCEPT
                      ![cell_of(event)] =
                        [count |-> @.count + 1,
                         sum |-> @.sum + Effective!quoted_spread(event)]]
              /\ effective_spread'.trades_bbo =
                   [effective_spread.trades_bbo EXCEPT ![Effective!location(event)] = @ + 1]
              /\ effective_spread'.effective_spread_by_size =
                   [effective_spread.effective_spread_by_size EXCEPT
                      ![Effective!size_bucket(event.trade_size)] = @ + 1]
<1>1. CASE ~priced(event)
  <2>1. effective_spread' = effective_spread
    BY <1>1, EffectiveQualifies DEF Effective!process_event
  <2> QED
    BY <1>1, <2>1, EffectiveTypes DEF one_if
<1>2. CASE priced(event)
  <2>1. effective_spread' = Effective!count_trade(event)
    BY <1>2, EffectiveQualifies DEF Effective!process_event
  <2>2. effective_spread' = [x \in DOMAIN effective_spread |-> effective_spread'[x]]
    BY <2>1, ZenonT(60) DEF Effective!count_trade
  <2>3. /\ effective_spread'.total_trades = effective_spread.total_trades + 1
        /\ effective_spread'.n_days = effective_spread.n_days
        /\ effective_spread'.utc_offset = effective_spread.utc_offset
    BY <2>1 DEF Effective!State, Effective!count_trade
  <2>4. effective_spread'.effective_spread_by_size =
          [effective_spread.effective_spread_by_size EXCEPT
             ![Effective!size_bucket(event.trade_size)] = @ + 1]
    BY <2>1 DEF Effective!State, Effective!count_trade
  <2>5. effective_spread'.trades_bbo =
          [effective_spread.trades_bbo EXCEPT ![Effective!location(event)] = @ + 1]
    BY <2>1 DEF Effective!State, Effective!count_trade
  <2>z. Effective!zero_dte_atm(event) <=> zero_dte_atm(event)
    BY DEF Effective!zero_dte_atm, Effective!is_zero_dte, Effective!is_atm, zero_dte_atm,
       is_zero_dte, is_atm
  <2>6. effective_spread'.trades_bbo_0dte_atm =
          [effective_spread.trades_bbo_0dte_atm EXCEPT
             ![Effective!location(event)] = @ + one_if(zero_dte_atm(event))]
    BY <2>1, <2>z DEF Effective!State, Effective!count_trade, Effective!one_if, one_if
  <2>7. effective_spread'.intraday_spread_0dte_atm =
          effective_spread.intraday_spread_0dte_atm + one_if(zero_dte_atm(event))
    BY <2>1, <2>z DEF Effective!State, Effective!count_trade, Effective!one_if, one_if
  <2>c. cell_of(event) \in Effective!Cell
    BY EventFacts DEF cell_of, Effective!Cell, DteBucket, Effective!DteBucket, Moneyness,
       Effective!Moneyness
  <2>8. effective_spread'.effective_spread_by_dte_moneyness =
          [effective_spread.effective_spread_by_dte_moneyness EXCEPT
             ![cell_of(event)] = [count |-> @.count + 1,
                                  sum |-> @.sum + Effective!effective_spread(event)]]
    BY <2>1 DEF Effective!State, Effective!count_trade, Effective!update, cell_of, dte_bucket,
       Effective!dte_bucket
  <2>9. effective_spread'.quoted_spread_by_dte_moneyness =
          [effective_spread.quoted_spread_by_dte_moneyness EXCEPT
             ![cell_of(event)] = [count |-> @.count + 1,
                                  sum |-> @.sum + Effective!quoted_spread(event)]]
    BY <2>1 DEF Effective!State, Effective!count_trade, Effective!update, cell_of, dte_bucket,
       Effective!dte_bucket
  <2>10. Effective!size_bucket(event.trade_size) \in Effective!SizeBucket
    BY DEF Effective!size_bucket, Effective!SizeBucket
  <2>11. /\ effective_spread'.effective_spread_by_size \in [Effective!SizeBucket -> Nat]
         /\ Effective!SizeTotal(effective_spread'.effective_spread_by_size) =
              Effective!SizeTotal(effective_spread.effective_spread_by_size) + 1
    BY <2>4, <2>10, SizeAdd, EffectiveTypes
  <2>12. /\ effective_spread'.trades_bbo \in [Effective!Location -> Nat]
         /\ Effective!LocationTotal(effective_spread'.trades_bbo) =
              Effective!LocationTotal(effective_spread.trades_bbo) + 1
    BY <1>2, <2>5, LocationAdd, EffectiveTypes, SpreadPaid
  <2>13. /\ effective_spread'.trades_bbo_0dte_atm \in [Effective!Location -> Nat]
         /\ Effective!LocationTotal(effective_spread'.trades_bbo_0dte_atm) =
              Effective!LocationTotal(effective_spread.trades_bbo_0dte_atm)
                + one_if(zero_dte_atm(event))
    <3>1. PICK n \in Nat : n = one_if(zero_dte_atm(event))
      BY OneIf
    <3> QED
      BY <1>2, <2>6, <3>1, LocationAdd, EffectiveTypes, SpreadPaid
  <2>14. /\ effective_spread'.effective_spread_by_dte_moneyness
              \in [Effective!Cell -> Effective!Welford]
         /\ effective_spread'.quoted_spread_by_dte_moneyness
              \in [Effective!Cell -> Effective!Welford]
    BY <1>2, <2>c, <2>8, <2>9, SpreadPaid, EffectiveTypes DEF Effective!Welford
  <2>15. effective_spread' \in Effective!State
    BY <2>2, <2>3, <2>7, <2>11, <2>12, <2>13, <2>14, EffectiveTypes, OneIf
       DEF Effective!State
  <2> QED
    BY <1>2, <2>3, <2>4, <2>5, <2>7, <2>8, <2>9, <2>11, <2>12, <2>13, <2>15 DEF one_if
<1> QED
  BY <1>1, <1>2

LEMMA EffectiveDay ==
  ASSUME effective_spread \in Effective!State, ctx'.utc_offset \in {-5, -4},
         Effective!begin_day(ctx') \/ Effective!end_of_day \/ Effective!reset_day
  PROVE  /\ effective_spread' \in Effective!State
         /\ effective_spread'.effective_spread_by_dte_moneyness =
              effective_spread.effective_spread_by_dte_moneyness
         /\ effective_spread'.quoted_spread_by_dte_moneyness =
              effective_spread.quoted_spread_by_dte_moneyness
         /\ effective_spread'.effective_spread_by_size =
              effective_spread.effective_spread_by_size
         /\ effective_spread'.trades_bbo = effective_spread.trades_bbo
         /\ effective_spread'.trades_bbo_0dte_atm = effective_spread.trades_bbo_0dte_atm
         /\ effective_spread'.intraday_spread_0dte_atm =
              effective_spread.intraday_spread_0dte_atm
         /\ effective_spread'.total_trades = effective_spread.total_trades
         /\ Effective!end_of_day => effective_spread'.n_days = effective_spread.n_days + 1
         /\ ~Effective!end_of_day => effective_spread'.n_days = effective_spread.n_days
<1>1. Effective!end_of_day => effective_spread'.n_days = effective_spread.n_days + 1
  BY DEF Effective!State, Effective!end_of_day
<1>2. CASE Effective!begin_day(ctx')
  <2>1. effective_spread' \in Effective!State
    BY <1>2 DEF Effective!State, Effective!begin_day
  <2> QED
    BY <1>1, <1>2, <2>1 DEF Effective!State, Effective!begin_day
<1>3. CASE Effective!end_of_day
  <2>1. effective_spread' \in Effective!State
    BY <1>3 DEF Effective!State, Effective!end_of_day
  <2> QED
    BY <1>3, <2>1 DEF Effective!State, Effective!end_of_day
<1>4. CASE Effective!reset_day
  BY <1>1, <1>4 DEF Effective!reset_day
<1> QED
  BY <1>2, <1>3, <1>4

-----------------------------------------------------------------------------
(* The trackers together                                                   *)

(* The types, and what the mean number of contracts of a day needs.        *)
Typed == TypeOK /\ IsFiniteSet(quality.unique_contracts_day)

LEMMA InitTyped == Init => Typed
<1> SUFFICES ASSUME Init PROVE Typed
  OBVIOUS
<1>1. quality \in Quality!State /\ quality.unique_contracts_day = {}
  BY DEF Init, Quality!Init, Quality!new, Quality!State, Quality!Welford, Quality!EmptyWelford
<1>2. spreads \in Spread!State
  BY DEF Init, Spread!Init, Spread!new, Spread!State
<1>3. zero_dte \in ZeroDte!State
  BY DEF Init, ZeroDte!Init, ZeroDte!new, ZeroDte!State, ZeroDte!Welford, ZeroDte!EmptyWelford
<1>4. premium_decay \in PremiumDecay!State
  BY DEF Init, PremiumDecay!Init, PremiumDecay!new, PremiumDecay!State, PremiumDecay!None,
     PremiumDecay!NaN
<1>5. volume \in Volume!State
  BY DEF Init, Volume!Init, Volume!new, Volume!State, Volume!Welford, Volume!EmptyWelford
<1>6. greeks \in Greeks!State
  BY TrackerSetAssumption DEF Init, Greeks!Init, Greeks!new, Greeks!State
<1>7. put_call \in PutCall!State
  BY DEF Init, PutCall!Init, PutCall!new, PutCall!State
<1>8. effective_spread \in Effective!State
  BY DEF Init, Effective!Init, Effective!new, Effective!State, Effective!Welford,
     Effective!EmptyWelford
<1>9. /\ stage \in Caller!Stages /\ pending \in Nat /\ seen \in Nat /\ days \in Nat
      /\ ctx \in [trading_date : Nat, utc_offset : {-5, -4}]
      /\ today \in Seq(Event)
  BY TrackerSetAssumption DEF Init, Caller!Init, Caller!Stages
<1> QED
  BY <1>1, <1>2, <1>3, <1>4, <1>5, <1>6, <1>7, <1>8, <1>9, FS_EmptySet DEF Typed, TypeOK

(* An event the trackers are given is an enriched record.                  *)
LEMMA ProcessesAnEvent ==
  ASSUME Typed, ProcessEvent
  PROVE  \E event \in Event : Process(event)
<1>1. ctx.trading_date \in Nat
  BY DEF Typed, TypeOK
<1> QED
  BY <1>1, EnrichedIsEvent DEF ProcessEvent

LEMMA OffsetTyped ==
  ASSUME Typed, Next
  PROVE  ctx'.utc_offset \in {-5, -4}
<1>1. ctx.utc_offset \in {-5, -4}
  BY DEF Typed, TypeOK
<1> QED
  BY <1>1 DEF Next, BeginDay, ProcessEvent, EndOfDay, ResetDay, Finalize

LEMMA StepTyped == Typed /\ [Next]_vars => Typed'
<1> SUFFICES ASSUME Typed, [Next]_vars PROVE Typed'
  OBVIOUS
<1> USE DEF Typed, TypeOK
<1>1. CASE BeginDay
  <2>1. quality' = quality
    BY <1>1 DEF BeginDay, Quality!begin_day
  <2>2. /\ spreads' \in Spread!State /\ zero_dte' \in ZeroDte!State
        /\ premium_decay' \in PremiumDecay!State /\ volume' \in Volume!State
        /\ greeks' \in Greeks!State /\ put_call' \in PutCall!State
        /\ effective_spread' \in Effective!State
    BY <1>1, OffsetTyped, SpreadDay, ZeroDteBeginOrReset, PremiumDecayDay,
       VolumeBeginDay, GreeksDay, PutCallDay, EffectiveDay DEF BeginDay, Next
  <2>3. /\ stage' \in Caller!Stages /\ pending' \in Nat /\ seen' \in Nat /\ days' \in Nat
        /\ ctx' \in [trading_date : Nat, utc_offset : {-5, -4}]
        /\ today' \in Seq(Event)
    BY <1>1, TrackerSetAssumption DEF BeginDay, Caller!BeginDay, Caller!Stages
  <2> QED
    BY <2>1, <2>2, <2>3
<1>2. CASE ProcessEvent
  <2>1. PICK event \in Event : Process(event)
    BY <1>2, ProcessesAnEvent
  <2>2. /\ quality' \in Quality!State
        /\ quality'.unique_contracts_day =
             quality.unique_contracts_day \cup {event.instrument_id}
    BY <2>1, QualityProcess DEF Process
  <2>3. IsFiniteSet(quality'.unique_contracts_day)
    <3>1. IsFiniteSet(quality.unique_contracts_day \cup {event.instrument_id})
      BY FS_AddElement
    <3> QED
      BY <2>2, <3>1
  <2>4. /\ spreads' \in Spread!State /\ zero_dte' \in ZeroDte!State
        /\ premium_decay' \in PremiumDecay!State /\ volume' \in Volume!State
        /\ greeks' \in Greeks!State /\ put_call' \in PutCall!State
        /\ effective_spread' \in Effective!State
    BY <2>1, SpreadProcess, ZeroDteProcess, PremiumDecayProcess, VolumeProcess, GreeksProcess,
       PutCallProcess, EffectiveProcess DEF Process
  <2>5. /\ stage' \in Caller!Stages /\ pending' \in Nat /\ seen' \in Nat /\ days' \in Nat
        /\ ctx' \in [trading_date : Nat, utc_offset : {-5, -4}]
        /\ today' \in Seq(Event)
    BY <1>2, <2>1 DEF ProcessEvent, Process, Caller!ProcessEvent, Caller!Stages
  <2> QED
    BY <2>2, <2>3, <2>4, <2>5
<1>3. CASE EndOfDay
  <2>1. /\ quality' \in Quality!State
        /\ quality'.unique_contracts_day = quality.unique_contracts_day
    BY <1>3, QualityEndOfDay DEF EndOfDay
  <2>2. /\ spreads' \in Spread!State /\ zero_dte' \in ZeroDte!State
        /\ premium_decay' \in PremiumDecay!State /\ volume' \in Volume!State
        /\ greeks' \in Greeks!State /\ put_call' \in PutCall!State
        /\ effective_spread' \in Effective!State
    BY <1>3, OffsetTyped, SpreadDay, ZeroDteEndOfDay, PremiumDecayDay, VolumeEndOfDay, GreeksDay, PutCallDay,
       EffectiveDay DEF EndOfDay, Next
  <2>3. /\ stage' \in Caller!Stages /\ pending' \in Nat /\ seen' \in Nat /\ days' \in Nat
        /\ ctx' \in [trading_date : Nat, utc_offset : {-5, -4}]
        /\ today' \in Seq(Event)
    BY <1>3 DEF EndOfDay, Caller!EndOfDay, Caller!Stages
  <2> QED
    BY <2>1, <2>2, <2>3
<1>4. CASE ResetDay
  <2>1. quality' \in Quality!State /\ quality'.unique_contracts_day = {}
    BY <1>4, QualityResetDay DEF ResetDay
  <2>2. /\ spreads' \in Spread!State /\ zero_dte' \in ZeroDte!State
        /\ premium_decay' \in PremiumDecay!State /\ volume' \in Volume!State
        /\ greeks' \in Greeks!State /\ put_call' \in PutCall!State
        /\ effective_spread' \in Effective!State
    BY <1>4, OffsetTyped, SpreadDay, ZeroDteBeginOrReset, PremiumDecayDay, VolumeResetDay, GreeksDay,
       PutCallDay, EffectiveDay DEF ResetDay, Next
  <2>3. /\ stage' \in Caller!Stages /\ pending' \in Nat /\ seen' \in Nat /\ days' \in Nat
        /\ ctx' \in [trading_date : Nat, utc_offset : {-5, -4}]
        /\ today' \in Seq(Event)
    BY <1>4 DEF ResetDay, Caller!ResetDay, Caller!Stages
  <2> QED
    BY <2>1, <2>2, <2>3, FS_EmptySet
<1>5. CASE Finalize
  BY <1>5 DEF Finalize, Caller!Finalize, Caller!Stages, trackers
<1>6. CASE UNCHANGED vars
  BY <1>6 DEF vars, caller, trackers
<1> QED
  BY <1>1, <1>2, <1>3, <1>4, <1>5, <1>6 DEF Next

(* Every variable stays in its type; the day's contracts are finitely many *)
(* because each was added by one event.                                    *)
THEOREM TypeCorrect == Spec => []TypeOK
<1>1. Typed => TypeOK
  BY DEF Typed
<1> QED
  BY <1>1, InitTyped, StepTyped, PTL DEF Spec
-----------------------------------------------------------------------------
(* What is counted over the run is counted by events alone.                *)
LEMMA RunTotalsKept ==
  ASSUME Typed, BeginDay \/ EndOfDay \/ ResetDay \/ Finalize \/ UNCHANGED vars
  PROVE  /\ quality'.total_events = quality.total_events
         /\ quality'.trade_events = quality.trade_events
         /\ quality'.quote_events = quality.quote_events
         /\ quality'.sentinel_events = quality.sentinel_events
         /\ quality'.dte_events = quality.dte_events
         /\ spreads'.all_spread_usd = spreads.all_spread_usd
         /\ spreads'.all_spread_pct = spreads.all_spread_pct
         /\ spreads'.dte0_atm_spread_usd = spreads.dte0_atm_spread_usd
         /\ spreads'.dte0_atm_spread_pct = spreads.dte0_atm_spread_pct
         /\ spreads'.dte0_atm_intraday_mid = spreads.dte0_atm_intraday_mid
         /\ spreads'.per_dte_spread = spreads.per_dte_spread
         /\ spreads'.per_moneyness_spread = spreads.per_moneyness_spread
         /\ zero_dte'.atm_call_spread = zero_dte.atm_call_spread
         /\ zero_dte'.atm_put_spread = zero_dte.atm_put_spread
         /\ zero_dte'.atm_call_premium = zero_dte.atm_call_premium
         /\ zero_dte'.atm_put_premium = zero_dte.atm_put_premium
         /\ zero_dte'.total_0dte_atm_events = zero_dte.total_0dte_atm_events
         /\ zero_dte'.total_0dte_atm_trades = zero_dte.total_0dte_atm_trades
         /\ premium_decay'.actual_call_curve = premium_decay.actual_call_curve
         /\ premium_decay'.actual_put_curve = premium_decay.actual_put_curve
         /\ premium_decay'.premium_to_spread_call = premium_decay.premium_to_spread_call
         /\ premium_decay'.premium_to_spread_put = premium_decay.premium_to_spread_put
         /\ volume'.total_trades = volume.total_trades
         /\ volume'.total_volume = volume.total_volume
         /\ volume'.call_volume = volume.call_volume
         /\ volume'.put_volume = volume.put_volume
         /\ volume'.call_trade_size = volume.call_trade_size
         /\ volume'.put_trade_size = volume.put_trade_size
         /\ volume'.intraday_0dte_volume = volume.intraday_0dte_volume
         /\ volume'.dte_volume = volume.dte_volume
         /\ volume'.dte_trades = volume.dte_trades
         /\ volume'.moneyness_volume = volume.moneyness_volume
         /\ greeks'.atm_quote_count = greeks.atm_quote_count
         /\ greeks'.iv_computed = greeks.iv_computed
         /\ greeks'.iv_failed = greeks.iv_failed
         /\ greeks'.dte_bucket_iv = greeks.dte_bucket_iv
         /\ greeks'.dte0_atm_call_iv = greeks.dte0_atm_call_iv
         /\ greeks'.dte0_atm_put_iv = greeks.dte0_atm_put_iv
         /\ put_call'.intraday_call_vol = put_call.intraday_call_vol
         /\ put_call'.intraday_put_vol = put_call.intraday_put_vol
         /\ put_call'.intraday_0dte_call_vol = put_call.intraday_0dte_call_vol
         /\ put_call'.intraday_0dte_put_vol = put_call.intraday_0dte_put_vol
         /\ effective_spread'.effective_spread_by_dte_moneyness =
              effective_spread.effective_spread_by_dte_moneyness
         /\ effective_spread'.quoted_spread_by_dte_moneyness =
              effective_spread.quoted_spread_by_dte_moneyness
         /\ effective_spread'.effective_spread_by_size =
              effective_spread.effective_spread_by_size
         /\ effective_spread'.trades_bbo = effective_spread.trades_bbo
         /\ effective_spread'.trades_bbo_0dte_atm = effective_spread.trades_bbo_0dte_atm
         /\ effective_spread'.intraday_spread_0dte_atm =
              effective_spread.intraday_spread_0dte_atm
         /\ effective_spread'.total_trades = effective_spread.total_trades
<1> USE DEF Typed, TypeOK
<1>1. CASE BeginDay
  BY <1>1, OffsetTyped, SpreadDay, ZeroDteBeginOrReset, PremiumDecayDay, VolumeBeginDay,
     GreeksDay, PutCallDay, EffectiveDay DEF BeginDay, Quality!begin_day, Next
<1>2. CASE EndOfDay
  BY <1>2, OffsetTyped, QualityEndOfDay, SpreadDay, ZeroDteEndOfDay, PremiumDecayDay,
     VolumeEndOfDay, GreeksDay, PutCallDay, EffectiveDay DEF EndOfDay, Next
<1>3. CASE ResetDay
  BY <1>3, OffsetTyped, QualityResetDay, SpreadDay, ZeroDteBeginOrReset, PremiumDecayDay,
     VolumeResetDay, GreeksDay, PutCallDay, EffectiveDay DEF ResetDay, Next
<1>4. CASE Finalize \/ UNCHANGED vars
  BY <1>4 DEF Finalize, trackers, vars
<1> QED
  BY <1>1, <1>2, <1>3, <1>4

LEMMA InitBreakdowns == Init => BreakdownsAddUp
<1> SUFFICES ASSUME Init PROVE BreakdownsAddUp
  OBVIOUS
<1>1. /\ volume.total_volume = DteTotal(volume.dte_volume)
      /\ volume.total_volume = MoneynessTotal(volume.moneyness_volume)
      /\ volume.total_volume = volume.call_volume + volume.put_volume
      /\ volume.total_trades = DteTotal(volume.dte_trades)
      /\ volume.total_trades = volume.call_trade_size + volume.put_trade_size
      /\ volume.intraday_0dte_volume = volume.dte_trades["0dte"]
  BY DEF Init, Volume!Init, Volume!new, DteTotal, MoneynessTotal, Volume!DteBucket,
     Volume!Moneyness
<1>2. /\ quality.total_events = DteTotal(quality.dte_events)
      /\ quality.total_events = quality.trade_events + quality.quote_events
  BY DEF Init, Quality!Init, Quality!new, DteTotal, Quality!DteBucket
<1>3. /\ spreads.all_spread_usd = DteTotal(spreads.per_dte_spread)
      /\ spreads.all_spread_usd = MoneynessTotal(spreads.per_moneyness_spread)
  BY DEF Init, Spread!Init, Spread!new, DteTotal, MoneynessTotal, Spread!DteBucket,
     Spread!Moneyness
<1>4. /\ greeks.iv_computed = DteTotal(greeks.dte_bucket_iv)
      /\ greeks.dte_bucket_iv["0dte"] = greeks.dte0_atm_call_iv + greeks.dte0_atm_put_iv
  BY DEF Init, Greeks!Init, Greeks!new, DteTotal, Greeks!DteBucket
<1>5. /\ effective_spread.total_trades = Effective!LocationTotal(effective_spread.trades_bbo)
      /\ effective_spread.total_trades =
           Effective!SizeTotal(effective_spread.effective_spread_by_size)
      /\ effective_spread.intraday_spread_0dte_atm =
           Effective!LocationTotal(effective_spread.trades_bbo_0dte_atm)
  BY DEF Init, Effective!Init, Effective!new, Effective!LocationTotal, Effective!Location,
     Effective!SizeTotal, Effective!SizeBucket
<1> QED
  BY <1>1, <1>2, <1>3, <1>4, <1>5 DEF BreakdownsAddUp

LEMMA StepBreakdowns == Typed /\ BreakdownsAddUp /\ [Next]_vars => BreakdownsAddUp'
<1> SUFFICES ASSUME Typed, BreakdownsAddUp, [Next]_vars PROVE BreakdownsAddUp'
  OBVIOUS
<1>1. CASE ProcessEvent
  <2>1. PICK event \in Event : Process(event)
    BY <1>1, ProcessesAnEvent
  <2>a. /\ volume \in Volume!State /\ Volume!process_event(event)
        /\ quality \in Quality!State /\ Quality!process_event(event)
        /\ spreads \in Spread!State /\ Spread!process_event(event)
        /\ greeks \in Greeks!State /\ Greeks!process_event(event)
        /\ effective_spread \in Effective!State /\ Effective!process_event(event)
    BY <2>1 DEF Process, Typed, TypeOK
  <2>2. /\ volume'.total_volume = DteTotal(volume'.dte_volume)
        /\ volume'.total_volume = MoneynessTotal(volume'.moneyness_volume)
        /\ volume'.total_trades = DteTotal(volume'.dte_trades)
        /\ volume'.intraday_0dte_volume = volume'.dte_trades["0dte"]
    BY <2>a, VolumeProcess DEF BreakdownsAddUp
  <2>3. volume'.total_volume = volume'.call_volume + volume'.put_volume
    <3>1. /\ volume'.total_volume = volume.total_volume + contracts(event)
          /\ volume'.call_volume =
               volume.call_volume + (IF is_call(event) THEN contracts(event) ELSE 0)
          /\ volume'.put_volume =
               volume.put_volume + (IF is_call(event) THEN 0 ELSE contracts(event))
      BY <2>a, VolumeProcess
    <3>2. /\ volume.total_volume = volume.call_volume + volume.put_volume
          /\ volume.total_volume \in Nat /\ volume.call_volume \in Nat
          /\ volume.put_volume \in Nat /\ contracts(event) \in Nat
      BY <2>a, VolumeTypes, EventFacts DEF BreakdownsAddUp
    <3> QED
      BY <3>1, <3>2
  <2>4. volume'.total_trades = volume'.call_trade_size + volume'.put_trade_size
    <3>1. /\ volume'.total_trades = volume.total_trades + one_if(traded(event))
          /\ volume'.call_trade_size =
               volume.call_trade_size + one_if(traded(event) /\ is_call(event))
          /\ volume'.put_trade_size =
               volume.put_trade_size + one_if(traded(event) /\ ~is_call(event))
      BY <2>a, VolumeProcess
    <3>2. /\ volume.total_trades = volume.call_trade_size + volume.put_trade_size
          /\ volume.total_trades \in Nat /\ volume.call_trade_size \in Nat
          /\ volume.put_trade_size \in Nat
      BY <2>a, VolumeTypes DEF BreakdownsAddUp
    <3> QED
      BY <3>1, <3>2 DEF one_if
  <2>5. quality'.total_events = DteTotal(quality'.dte_events)
    BY <2>a, QualityProcess DEF BreakdownsAddUp
  <2>6. quality'.total_events = quality'.trade_events + quality'.quote_events
    <3>1. /\ quality'.total_events = quality.total_events + 1
          /\ quality'.trade_events = quality.trade_events + one_if(is_trade(event))
          /\ quality'.quote_events = quality.quote_events + one_if(~is_trade(event))
      BY <2>a, QualityProcess
    <3>2. /\ quality.total_events = quality.trade_events + quality.quote_events
          /\ quality.total_events \in Nat /\ quality.trade_events \in Nat
          /\ quality.quote_events \in Nat
      BY <2>a, QualityTypes DEF BreakdownsAddUp
    <3> QED
      BY <3>1, <3>2 DEF one_if
  <2>7. /\ spreads'.all_spread_usd = DteTotal(spreads'.per_dte_spread)
        /\ spreads'.all_spread_usd = MoneynessTotal(spreads'.per_moneyness_spread)
    BY <2>a, SpreadProcess DEF BreakdownsAddUp
  <2>8. /\ greeks'.iv_computed = DteTotal(greeks'.dte_bucket_iv)
        /\ greeks'.dte_bucket_iv["0dte"] = greeks'.dte0_atm_call_iv + greeks'.dte0_atm_put_iv
    BY <2>a, GreeksProcess DEF BreakdownsAddUp
  <2>9. /\ effective_spread'.total_trades =
             Effective!LocationTotal(effective_spread'.trades_bbo)
        /\ effective_spread'.total_trades =
             Effective!SizeTotal(effective_spread'.effective_spread_by_size)
        /\ effective_spread'.intraday_spread_0dte_atm =
             Effective!LocationTotal(effective_spread'.trades_bbo_0dte_atm)
    <3>1. /\ effective_spread'.total_trades =
               effective_spread.total_trades + one_if(priced(event))
          /\ Effective!LocationTotal(effective_spread'.trades_bbo) =
               Effective!LocationTotal(effective_spread.trades_bbo) + one_if(priced(event))
          /\ Effective!SizeTotal(effective_spread'.effective_spread_by_size) =
               Effective!SizeTotal(effective_spread.effective_spread_by_size)
                 + one_if(priced(event))
          /\ effective_spread'.intraday_spread_0dte_atm =
               effective_spread.intraday_spread_0dte_atm
                 + one_if(priced(event) /\ zero_dte_atm(event))
          /\ Effective!LocationTotal(effective_spread'.trades_bbo_0dte_atm) =
               Effective!LocationTotal(effective_spread.trades_bbo_0dte_atm)
                 + one_if(priced(event) /\ zero_dte_atm(event))
      BY <2>a, EffectiveProcess
    <3> QED
      BY <3>1 DEF BreakdownsAddUp
  <2> QED
    BY <2>2, <2>3, <2>4, <2>5, <2>6, <2>7, <2>8, <2>9 DEF BreakdownsAddUp
<1>2. CASE ~ProcessEvent
  BY <1>2, RunTotalsKept DEF BreakdownsAddUp, Next
<1> QED
  BY <1>1, <1>2

(* The parts of every breakdown add up to its whole.                       *)
THEOREM BreakdownsCorrect == Spec => []BreakdownsAddUp
  BY InitTyped, StepTyped, InitBreakdowns, StepBreakdowns, PTL DEF Spec
-----------------------------------------------------------------------------
(* Neither begin_day nor finalize touches a per-day accumulator or a daily *)
(* sample.                                                                 *)
LEMMA DayKept ==
  ASSUME Typed, BeginDay \/ Finalize \/ UNCHANGED vars
  PROVE  /\ quality'.day_events = quality.day_events
         /\ quality'.day_trades = quality.day_trades
         /\ quality'.unique_contracts_day = quality.unique_contracts_day
         /\ quality'.events_per_day = quality.events_per_day
         /\ quality'.trades_per_day = quality.trades_per_day
         /\ quality'.contracts_per_day = quality.contracts_per_day
         /\ quality'.n_days = quality.n_days
         /\ spreads'.n_days = spreads.n_days
         /\ zero_dte'.day_0dte_atm_events = zero_dte.day_0dte_atm_events
         /\ zero_dte'.day_trade_count = zero_dte.day_trade_count
         /\ zero_dte'.day_trade_volume = zero_dte.day_trade_volume
         /\ zero_dte'.trades_per_day = zero_dte.trades_per_day
         /\ zero_dte'.n_days = zero_dte.n_days
         /\ zero_dte'.n_0dte_days = zero_dte.n_0dte_days
         /\ premium_decay'.day_first_call_mid = premium_decay.day_first_call_mid
         /\ premium_decay'.day_last_call_mid = premium_decay.day_last_call_mid
         /\ premium_decay'.day_first_put_mid = premium_decay.day_first_put_mid
         /\ premium_decay'.day_last_put_mid = premium_decay.day_last_put_mid
         /\ premium_decay'.n_days = premium_decay.n_days
         /\ premium_decay'.n_0dte_days = premium_decay.n_0dte_days
         /\ volume'.day_volume = volume.day_volume
         /\ volume'.day_trades = volume.day_trades
         /\ volume'.daily_volume = volume.daily_volume
         /\ volume'.daily_trades = volume.daily_trades
         /\ volume'.n_days = volume.n_days
         /\ greeks'.atm_sample_counter = greeks.atm_sample_counter
         /\ greeks'.n_days = greeks.n_days
         /\ put_call'.day_call_vol = put_call.day_call_vol
         /\ put_call'.day_put_vol = put_call.day_put_vol
         /\ put_call'.day_call_trades = put_call.day_call_trades
         /\ put_call'.day_put_trades = put_call.day_put_trades
         /\ put_call'.day_0dte_call_vol = put_call.day_0dte_call_vol
         /\ put_call'.day_0dte_put_vol = put_call.day_0dte_put_vol
         /\ put_call'.pcr_volume_daily = put_call.pcr_volume_daily
         /\ put_call'.pcr_trades_daily = put_call.pcr_trades_daily
         /\ put_call'.pcr_0dte_daily = put_call.pcr_0dte_daily
         /\ put_call'.n_days = put_call.n_days
         /\ effective_spread'.n_days = effective_spread.n_days
         /\ days' = days /\ pending' = pending /\ today' = today
<1> USE DEF Typed, TypeOK
<1>1. CASE BeginDay
  <2>1. quality' = quality
    BY <1>1 DEF BeginDay, Quality!begin_day
  <2>2. days' = days /\ pending' = pending /\ today' = today
    BY <1>1 DEF BeginDay, Caller!BeginDay
  <2>3. spreads'.n_days = spreads.n_days
    BY <1>1 DEF BeginDay, Spread!begin_day, Spread!State
  <2>4. /\ zero_dte'.day_0dte_atm_events = zero_dte.day_0dte_atm_events
        /\ zero_dte'.day_trade_count = zero_dte.day_trade_count
        /\ zero_dte'.day_trade_volume = zero_dte.day_trade_volume
        /\ zero_dte'.trades_per_day = zero_dte.trades_per_day
        /\ zero_dte'.n_days = zero_dte.n_days
        /\ zero_dte'.n_0dte_days = zero_dte.n_0dte_days
    BY <1>1 DEF BeginDay, ZeroDte!begin_day, ZeroDte!State
  <2>5. /\ premium_decay'.day_first_call_mid = premium_decay.day_first_call_mid
        /\ premium_decay'.day_last_call_mid = premium_decay.day_last_call_mid
        /\ premium_decay'.day_first_put_mid = premium_decay.day_first_put_mid
        /\ premium_decay'.day_last_put_mid = premium_decay.day_last_put_mid
        /\ premium_decay'.n_days = premium_decay.n_days
        /\ premium_decay'.n_0dte_days = premium_decay.n_0dte_days
    BY <1>1 DEF BeginDay, PremiumDecay!begin_day, PremiumDecay!State
  <2>6. /\ volume'.day_volume = volume.day_volume
        /\ volume'.day_trades = volume.day_trades
        /\ volume'.daily_volume = volume.daily_volume
        /\ volume'.daily_trades = volume.daily_trades
        /\ volume'.n_days = volume.n_days
    BY <1>1 DEF BeginDay, Volume!begin_day, Volume!State
  <2>7. /\ greeks'.atm_sample_counter = greeks.atm_sample_counter
        /\ greeks'.n_days = greeks.n_days
    BY <1>1 DEF BeginDay, Greeks!begin_day, Greeks!State
  <2>8. /\ put_call'.day_call_vol = put_call.day_call_vol
        /\ put_call'.day_put_vol = put_call.day_put_vol
        /\ put_call'.day_call_trades = put_call.day_call_trades
        /\ put_call'.day_put_trades = put_call.day_put_trades
        /\ put_call'.day_0dte_call_vol = put_call.day_0dte_call_vol
        /\ put_call'.day_0dte_put_vol = put_call.day_0dte_put_vol
        /\ put_call'.pcr_volume_daily = put_call.pcr_volume_daily
        /\ put_call'.pcr_trades_daily = put_call.pcr_trades_daily
        /\ put_call'.pcr_0dte_daily = put_call.pcr_0dte_daily
        /\ put_call'.n_days = put_call.n_days
    BY <1>1 DEF BeginDay, PutCall!begin_day, PutCall!State
  <2>9. effective_spread'.n_days = effective_spread.n_days
    BY <1>1 DEF BeginDay, Effective!begin_day, Effective!State
  <2> QED
    BY <2>1, <2>2, <2>3, <2>4, <2>5, <2>6, <2>7, <2>8, <2>9
<1>2. CASE Finalize \/ UNCHANGED vars
  BY <1>2 DEF Finalize, Caller!Finalize, trackers, vars, caller
<1> QED
  BY <1>1, <1>2

(* What the caller's steps do to the stage a day is in.                    *)
LEMMA StageSteps ==
  /\ BeginDay => stage = "idle" /\ stage' = "in_day" /\ days' = days
  /\ ProcessEvent => stage = "in_day" /\ stage' = "in_day" /\ days' = days
  /\ EndOfDay => stage = "in_day" /\ stage' = "closed" /\ days' = days + 1
  /\ ResetDay => stage = "closed" /\ stage' = "idle" /\ days' = days
  /\ Finalize => stage = "idle" /\ stage' = "finalized" /\ days' = days
  /\ UNCHANGED vars => stage' = stage /\ days' = days
  BY DEF BeginDay, Caller!BeginDay, ProcessEvent, Caller!ProcessEvent, EndOfDay,
     Caller!EndOfDay, ResetDay, Caller!ResetDay, Finalize, Caller!Finalize, vars, caller

(* A day that gives no 0DTE sample has no trade that would be lost by it.  *)
DaysInv ==
  /\ DaysAddUp
  /\ zero_dte.day_trade_count <= zero_dte.day_0dte_atm_events

LEMMA InitDays == Init => DaysInv
<1> SUFFICES ASSUME Init PROVE DaysInv
  OBVIOUS
<1>1. /\ volume.total_volume = 0 /\ volume.daily_volume.sum = 0 /\ volume.day_volume = 0
      /\ volume.total_trades = 0 /\ volume.daily_trades.sum = 0 /\ volume.day_trades = 0
      /\ volume.daily_volume.count = 0
  BY DEF Init, Volume!Init, Volume!new, Volume!EmptyWelford
<1>2. /\ quality.total_events = 0 /\ quality.events_per_day.sum = 0 /\ quality.day_events = 0
      /\ quality.trade_events = 0 /\ quality.trades_per_day.sum = 0 /\ quality.day_trades = 0
      /\ quality.events_per_day.count = 0
  BY DEF Init, Quality!Init, Quality!new, Quality!EmptyWelford
<1>3. /\ zero_dte.total_0dte_atm_trades = 0 /\ zero_dte.trades_per_day.sum = 0
      /\ zero_dte.day_trade_count = 0 /\ zero_dte.day_0dte_atm_events = 0
      /\ zero_dte.trades_per_day.count = 0 /\ zero_dte.n_0dte_days = 0
  BY DEF Init, ZeroDte!Init, ZeroDte!new, ZeroDte!EmptyWelford
<1>4. days = 0 /\ stage # "closed"
  BY DEF Init, Caller!Init
<1> QED
  BY <1>1, <1>2, <1>3, <1>4 DEF DaysInv, DaysAddUp, open

LEMMA StepDays == Typed /\ DaysInv /\ [Next]_vars => DaysInv'
<1> SUFFICES ASSUME Typed, DaysInv, [Next]_vars PROVE DaysInv'
  OBVIOUS
<1>a. /\ volume \in Volume!State /\ quality \in Quality!State /\ zero_dte \in ZeroDte!State
      /\ IsFiniteSet(quality.unique_contracts_day) /\ days \in Nat
  BY DEF Typed, TypeOK
<1>b. /\ DaysAddUp /\ zero_dte.day_trade_count <= zero_dte.day_0dte_atm_events
  BY DEF DaysInv
<1>1. CASE ProcessEvent
  <2>1. PICK event \in Event : Process(event)
    BY <1>1, ProcessesAnEvent
  <2>2. stage = "in_day" /\ stage' = "in_day" /\ days' = days
    BY <1>1, StageSteps
  <2>3. /\ volume'.total_volume = volume'.daily_volume.sum + open(volume.day_volume)'
        /\ volume'.total_trades = volume'.daily_trades.sum + open(volume.day_trades)'
        /\ volume'.daily_volume.count = days'
    <3>1. /\ volume'.total_volume = volume.total_volume + contracts(event)
          /\ volume'.day_volume = volume.day_volume + contracts(event)
          /\ volume'.total_trades = volume.total_trades + one_if(traded(event))
          /\ volume'.day_trades = volume.day_trades + one_if(traded(event))
          /\ volume'.daily_volume = volume.daily_volume
          /\ volume'.daily_trades = volume.daily_trades
      BY <1>a, <2>1, VolumeProcess DEF Process
    <3>2. one_if(traded(event)) \in Nat /\ contracts(event) \in Nat
      BY OneIf, EventFacts
    <3> QED
      BY <1>a, <1>b, <2>2, <3>1, <3>2, VolumeTypes DEF DaysAddUp, open
  <2>4. /\ quality'.total_events = quality'.events_per_day.sum + open(quality.day_events)'
        /\ quality'.trade_events = quality'.trades_per_day.sum + open(quality.day_trades)'
        /\ quality'.events_per_day.count = days'
    <3>1. /\ quality'.total_events = quality.total_events + 1
          /\ quality'.day_events = quality.day_events + 1
          /\ quality'.trade_events = quality.trade_events + one_if(is_trade(event))
          /\ quality'.day_trades = quality.day_trades + one_if(is_trade(event))
          /\ quality'.events_per_day = quality.events_per_day
          /\ quality'.trades_per_day = quality.trades_per_day
      BY <1>a, <2>1, QualityProcess DEF Process
    <3>2. one_if(is_trade(event)) \in Nat
      BY OneIf
    <3> QED
      BY <1>a, <1>b, <2>2, <3>1, <3>2, QualityTypes DEF DaysAddUp, open
  <2>5. /\ zero_dte'.total_0dte_atm_trades =
             zero_dte'.trades_per_day.sum + open(zero_dte.day_trade_count)'
        /\ zero_dte'.trades_per_day.count = zero_dte'.n_0dte_days
        /\ zero_dte'.day_trade_count <= zero_dte'.day_0dte_atm_events
    <3>1. /\ zero_dte'.total_0dte_atm_trades =
               zero_dte.total_0dte_atm_trades + one_if(zero_dte_atm(event) /\ traded(event))
          /\ zero_dte'.day_trade_count =
               zero_dte.day_trade_count + one_if(zero_dte_atm(event) /\ traded(event))
          /\ zero_dte'.day_0dte_atm_events =
               zero_dte.day_0dte_atm_events + one_if(zero_dte_atm(event))
          /\ zero_dte'.trades_per_day = zero_dte.trades_per_day
          /\ zero_dte'.n_0dte_days = zero_dte.n_0dte_days
      BY <1>a, <2>1, ZeroDteProcess DEF Process
    <3> QED
      BY <1>a, <1>b, <2>2, <3>1, ZeroDteTypes DEF DaysAddUp, open, one_if
  <2> QED
    BY <2>3, <2>4, <2>5 DEF DaysInv, DaysAddUp
<1>2. CASE EndOfDay
  <2>1. stage = "in_day" /\ stage' = "closed" /\ days' = days + 1
    BY <1>2, StageSteps
  <2>2. /\ volume'.total_volume = volume'.daily_volume.sum
        /\ volume'.total_trades = volume'.daily_trades.sum
        /\ volume'.daily_volume.count = days'
    BY <1>2, <1>a, <1>b, <2>1, VolumeEndOfDay, VolumeTypes DEF EndOfDay, DaysAddUp, open
  <2>3. /\ quality'.total_events = quality'.events_per_day.sum
        /\ quality'.trade_events = quality'.trades_per_day.sum
        /\ quality'.events_per_day.count = days'
    BY <1>2, <1>a, <1>b, <2>1, QualityEndOfDay, QualityTypes DEF EndOfDay, DaysAddUp, open
  <2>4. /\ zero_dte'.total_0dte_atm_trades = zero_dte'.trades_per_day.sum
        /\ zero_dte'.trades_per_day.count = zero_dte'.n_0dte_days
        /\ zero_dte'.day_trade_count <= zero_dte'.day_0dte_atm_events
    BY <1>2, <1>a, <1>b, <2>1, ZeroDteEndOfDay, ZeroDteTypes
       DEF EndOfDay, DaysAddUp, open, one_if
  <2>5. /\ volume' \in Volume!State /\ quality' \in Quality!State /\ zero_dte' \in ZeroDte!State
    BY <1>2, <1>a, VolumeEndOfDay, QualityEndOfDay, ZeroDteEndOfDay DEF EndOfDay
  <2>6. /\ volume'.daily_volume.sum \in Nat /\ volume'.daily_trades.sum \in Nat
        /\ quality'.events_per_day.sum \in Nat /\ quality'.trades_per_day.sum \in Nat
        /\ zero_dte'.trades_per_day.sum \in Nat
    BY <2>5 DEF Volume!State, Volume!Welford, Quality!State, Quality!Welford, ZeroDte!State,
       ZeroDte!Welford
  <2> QED
    BY <2>1, <2>2, <2>3, <2>4, <2>6 DEF DaysInv, DaysAddUp, open
<1>3. CASE ResetDay
  <2>1. stage = "closed" /\ stage' = "idle" /\ days' = days
    BY <1>3, StageSteps
  <2>2. /\ volume'.total_volume = volume'.daily_volume.sum + volume'.day_volume
        /\ volume'.total_trades = volume'.daily_trades.sum + volume'.day_trades
        /\ volume'.daily_volume.count = days'
    BY <1>3, <1>a, <1>b, <2>1, VolumeResetDay, VolumeTypes DEF ResetDay, DaysAddUp, open
  <2>3. /\ quality'.total_events = quality'.events_per_day.sum + quality'.day_events
        /\ quality'.trade_events = quality'.trades_per_day.sum + quality'.day_trades
        /\ quality'.events_per_day.count = days'
    BY <1>3, <1>a, <1>b, <2>1, QualityResetDay, QualityTypes DEF ResetDay, DaysAddUp, open
  <2>4. /\ zero_dte'.total_0dte_atm_trades =
             zero_dte'.trades_per_day.sum + zero_dte'.day_trade_count
        /\ zero_dte'.trades_per_day.count = zero_dte'.n_0dte_days
        /\ zero_dte'.day_trade_count <= zero_dte'.day_0dte_atm_events
    <3>1. /\ zero_dte'.total_0dte_atm_trades = zero_dte.total_0dte_atm_trades
          /\ zero_dte'.trades_per_day = zero_dte.trades_per_day
          /\ zero_dte'.n_0dte_days = zero_dte.n_0dte_days
          /\ zero_dte'.day_0dte_atm_events = 0
          /\ zero_dte'.day_trade_count = 0
      BY <1>3, <1>a, OffsetTyped, ZeroDteBeginOrReset DEF ResetDay, Next
    <3> QED
      BY <1>a, <1>b, <2>1, <3>1, ZeroDteTypes DEF DaysAddUp, open
  <2> QED
    BY <2>1, <2>2, <2>3, <2>4 DEF DaysInv, DaysAddUp, open
<1>4. CASE BeginDay \/ Finalize \/ UNCHANGED vars
  <2>1. (stage' = "closed") <=> (stage = "closed")
    BY <1>4, StageSteps
  <2> QED
    BY <1>4, <2>1, <1>b, DayKept, RunTotalsKept DEF DaysInv, DaysAddUp, open
<1> QED
  BY <1>1, <1>2, <1>3, <1>4 DEF Next

(* The days add up to the run.                                             *)
THEOREM DaysCorrect == Spec => []DaysAddUp
<1>1. DaysInv => DaysAddUp
  BY DEF DaysInv
<1> QED
  BY <1>1, InitTyped, StepTyped, InitDays, StepDays, PTL DEF Spec
-----------------------------------------------------------------------------
LEMMA InitSameTrades == Init => SameTrades
<1> SUFFICES ASSUME Init PROVE SameTrades
  OBVIOUS
<1>1. volume.day_volume = 0 /\ volume.day_trades = 0 /\ volume.total_trades = 0
      /\ volume.dte_trades["0dte"] = 0
  BY DEF Init, Volume!Init, Volume!new, Volume!DteBucket
<1>2. /\ put_call.day_call_vol = 0 /\ put_call.day_put_vol = 0
      /\ put_call.day_call_trades = 0 /\ put_call.day_put_trades = 0
      /\ put_call.intraday_call_vol = 0 /\ put_call.intraday_put_vol = 0
      /\ put_call.intraday_0dte_call_vol = 0 /\ put_call.intraday_0dte_put_vol = 0
      /\ put_call.day_0dte_call_vol = 0 /\ put_call.day_0dte_put_vol = 0
  BY DEF Init, PutCall!Init, PutCall!new
<1>3. zero_dte.day_trade_volume = 0
  BY DEF Init, ZeroDte!Init, ZeroDte!new
<1> QED
  BY <1>1, <1>2, <1>3 DEF SameTrades

LEMMA StepSameTrades == Typed /\ SameTrades /\ [Next]_vars => SameTrades'
<1> SUFFICES ASSUME Typed, SameTrades, [Next]_vars PROVE SameTrades'
  OBVIOUS
<1>a. /\ volume \in Volume!State /\ put_call \in PutCall!State /\ zero_dte \in ZeroDte!State
  BY DEF Typed, TypeOK
<1>1. CASE ProcessEvent
  <2>1. PICK event \in Event : Process(event)
    BY <1>1, ProcessesAnEvent
  <2>2. PICK n \in Nat : n = contracts(event)
    BY EventFacts
  <2>3. /\ volume'.day_volume = volume.day_volume + n
        /\ put_call'.day_call_vol =
             put_call.day_call_vol + (IF is_call(event) THEN n ELSE 0)
        /\ put_call'.day_put_vol =
             put_call.day_put_vol + (IF is_call(event) THEN 0 ELSE n)
        /\ put_call'.day_0dte_call_vol =
             put_call.day_0dte_call_vol
               + (IF is_zero_dte(event) /\ is_call(event) THEN n ELSE 0)
        /\ put_call'.day_0dte_put_vol =
             put_call.day_0dte_put_vol
               + (IF is_zero_dte(event) /\ ~is_call(event) THEN n ELSE 0)
        /\ zero_dte'.day_trade_volume =
             zero_dte.day_trade_volume + (IF zero_dte_atm(event) THEN n ELSE 0)
    BY <1>a, <2>1, <2>2, VolumeProcess, PutCallProcess, ZeroDteProcess DEF Process
  <2>4. /\ volume'.day_trades = volume.day_trades + one_if(traded(event))
        /\ volume'.total_trades = volume.total_trades + one_if(traded(event))
        /\ volume'.dte_trades["0dte"] =
             volume.dte_trades["0dte"] + one_if(traded(event) /\ is_zero_dte(event))
        /\ put_call'.day_call_trades =
             put_call.day_call_trades + one_if(traded(event) /\ is_call(event))
        /\ put_call'.day_put_trades =
             put_call.day_put_trades + one_if(traded(event) /\ ~is_call(event))
        /\ put_call'.intraday_call_vol =
             put_call.intraday_call_vol + one_if(traded(event) /\ is_call(event))
        /\ put_call'.intraday_put_vol =
             put_call.intraday_put_vol + one_if(traded(event) /\ ~is_call(event))
        /\ put_call'.intraday_0dte_call_vol =
             put_call.intraday_0dte_call_vol
               + one_if(traded(event) /\ is_zero_dte(event) /\ is_call(event))
        /\ put_call'.intraday_0dte_put_vol =
             put_call.intraday_0dte_put_vol
               + one_if(traded(event) /\ is_zero_dte(event) /\ ~is_call(event))
    BY <1>a, <2>1, VolumeProcess, PutCallProcess DEF Process
  <2>5. zero_dte_atm(event) => is_zero_dte(event)
    BY DEF zero_dte_atm
  <2>6. /\ volume'.day_volume = put_call'.day_call_vol + put_call'.day_put_vol
        /\ put_call'.day_0dte_call_vol <= put_call'.day_call_vol
        /\ put_call'.day_0dte_put_vol <= put_call'.day_put_vol
        /\ zero_dte'.day_trade_volume <=
             put_call'.day_0dte_call_vol + put_call'.day_0dte_put_vol
    BY <1>a, <2>2, <2>3, <2>5, VolumeTypes, PutCallTypes, ZeroDteTypes DEF SameTrades
  <2>7. /\ volume'.day_trades = put_call'.day_call_trades + put_call'.day_put_trades
        /\ volume'.total_trades = put_call'.intraday_call_vol + put_call'.intraday_put_vol
        /\ volume'.dte_trades["0dte"] =
             put_call'.intraday_0dte_call_vol + put_call'.intraday_0dte_put_vol
    BY <1>a, <2>4, VolumeTypes, PutCallTypes DEF SameTrades, one_if
  <2> QED
    BY <2>6, <2>7 DEF SameTrades
<1>2. CASE EndOfDay
  <2>1. /\ volume'.day_volume = volume.day_volume /\ volume'.day_trades = volume.day_trades
        /\ zero_dte'.day_trade_volume = zero_dte.day_trade_volume
    BY <1>2, <1>a, VolumeEndOfDay, ZeroDteEndOfDay DEF EndOfDay
  <2>2. /\ put_call'.day_call_vol = put_call.day_call_vol
        /\ put_call'.day_put_vol = put_call.day_put_vol
        /\ put_call'.day_call_trades = put_call.day_call_trades
        /\ put_call'.day_put_trades = put_call.day_put_trades
        /\ put_call'.day_0dte_call_vol = put_call.day_0dte_call_vol
        /\ put_call'.day_0dte_put_vol = put_call.day_0dte_put_vol
    BY <1>2, <1>a DEF EndOfDay, PutCall!end_of_day, PutCall!State
  <2> QED
    BY <1>2, <2>1, <2>2, RunTotalsKept DEF SameTrades
<1>3. CASE ResetDay
  <2>1. /\ volume'.day_volume = 0 /\ volume'.day_trades = 0
        /\ zero_dte'.day_trade_volume = 0
        /\ put_call'.day_call_vol = 0 /\ put_call'.day_put_vol = 0
        /\ put_call'.day_call_trades = 0 /\ put_call'.day_put_trades = 0
        /\ put_call'.day_0dte_call_vol = 0 /\ put_call'.day_0dte_put_vol = 0
    BY <1>3, <1>a, OffsetTyped, VolumeResetDay, ZeroDteBeginOrReset, PutCallDay
       DEF ResetDay, Next
  <2> QED
    BY <1>3, <2>1, RunTotalsKept DEF SameTrades
<1>4. CASE BeginDay \/ Finalize \/ UNCHANGED vars
  BY <1>4, DayKept, RunTotalsKept DEF SameTrades
<1> QED
  BY <1>1, <1>2, <1>3, <1>4 DEF Next

(* The reports on trades are about the same trades.                        *)
THEOREM SameTradesCorrect == Spec => []SameTrades
  BY InitTyped, StepTyped, InitSameTrades, StepSameTrades, PTL DEF Spec
-----------------------------------------------------------------------------
LEMMA InitSameQuotes == Init => SameQuotes
<1> SUFFICES ASSUME Init PROVE SameQuotes
  OBVIOUS
<1>1. /\ spreads.dte0_atm_spread_usd = 0 /\ spreads.dte0_atm_intraday_mid = 0
      /\ spreads.dte0_atm_spread_pct = 0 /\ spreads.all_spread_pct = 0
      /\ spreads.all_spread_usd = 0
  BY DEF Init, Spread!Init, Spread!new
<1>2. /\ zero_dte.atm_call_spread = 0 /\ zero_dte.atm_put_spread = 0
      /\ zero_dte.atm_call_premium = 0 /\ zero_dte.atm_put_premium = 0
  BY DEF Init, ZeroDte!Init, ZeroDte!new
<1>3. /\ premium_decay.actual_call_curve = 0 /\ premium_decay.actual_put_curve = 0
      /\ premium_decay.premium_to_spread_call = 0 /\ premium_decay.premium_to_spread_put = 0
  BY DEF Init, PremiumDecay!Init, PremiumDecay!new
<1> QED
  BY <1>1, <1>2, <1>3 DEF SameQuotes

LEMMA StepSameQuotes == Typed /\ SameQuotes /\ [Next]_vars => SameQuotes'
<1> SUFFICES ASSUME Typed, SameQuotes, [Next]_vars PROVE SameQuotes'
  OBVIOUS
<1>a. /\ spreads \in Spread!State /\ zero_dte \in ZeroDte!State
      /\ premium_decay \in PremiumDecay!State
  BY DEF Typed, TypeOK
<1>1. CASE ProcessEvent
  <2>1. PICK event \in Event : Process(event)
    BY <1>1, ProcessesAnEvent
  <2>2. /\ spreads'.all_spread_usd = spreads.all_spread_usd + one_if(has_valid_bbo(event))
        /\ spreads'.all_spread_pct = spreads.all_spread_pct + one_if(has_valid_bbo(event))
        /\ spreads'.dte0_atm_spread_usd =
             spreads.dte0_atm_spread_usd + one_if(has_valid_bbo(event) /\ zero_dte_atm(event))
        /\ spreads'.dte0_atm_spread_pct =
             spreads.dte0_atm_spread_pct + one_if(has_valid_bbo(event) /\ zero_dte_atm(event))
        /\ spreads'.dte0_atm_intraday_mid =
             spreads.dte0_atm_intraday_mid
               + one_if(has_valid_bbo(event) /\ zero_dte_atm(event))
    BY <1>a, <2>1, SpreadProcess DEF Process
  <2>3. /\ zero_dte'.atm_call_spread =
             zero_dte.atm_call_spread
               + one_if(zero_dte_atm(event) /\ has_valid_bbo(event) /\ is_call(event))
        /\ zero_dte'.atm_put_spread =
             zero_dte.atm_put_spread
               + one_if(zero_dte_atm(event) /\ has_valid_bbo(event) /\ ~is_call(event))
        /\ zero_dte'.atm_call_premium =
             zero_dte.atm_call_premium
               + one_if(zero_dte_atm(event) /\ has_valid_bbo(event) /\ is_call(event))
        /\ zero_dte'.atm_put_premium =
             zero_dte.atm_put_premium
               + one_if(zero_dte_atm(event) /\ has_valid_bbo(event) /\ ~is_call(event))
    BY <1>a, <2>1, ZeroDteProcess DEF Process
  <2>4. LET q == zero_dte_atm(event) /\ has_valid_bbo(event)
        IN  /\ premium_decay'.actual_call_curve =
                 premium_decay.actual_call_curve + one_if(q /\ is_call(event))
            /\ premium_decay'.actual_put_curve =
                 premium_decay.actual_put_curve + one_if(q /\ ~is_call(event))
            /\ premium_decay'.premium_to_spread_call =
                 premium_decay.premium_to_spread_call + one_if(q /\ is_call(event))
            /\ premium_decay'.premium_to_spread_put =
                 premium_decay.premium_to_spread_put + one_if(q /\ ~is_call(event))
    BY <1>a, <2>1, PremiumDecayProcess DEF Process
  <2> QED
    BY <1>a, <2>2, <2>3, <2>4, SpreadTypes, ZeroDteTypes, PremiumDecayTypes
       DEF SameQuotes, one_if
<1>2. CASE BeginDay \/ EndOfDay \/ ResetDay \/ Finalize \/ UNCHANGED vars
  BY <1>2, RunTotalsKept DEF SameQuotes
<1> QED
  BY <1>1, <1>2 DEF Next

(* The reports on quotes are about the same quotes.                        *)
THEOREM SameQuotesCorrect == Spec => []SameQuotes
  BY InitTyped, StepTyped, InitSameQuotes, StepSameQuotes, PTL DEF Spec
-----------------------------------------------------------------------------
(* A day has calls traded exactly if it has contracts of calls traded, and *)
(* a mid only of an event that made the day a 0DTE day.                    *)
PopulationsInv ==
  /\ PopulationsNest
  /\ put_call.day_call_vol > 0 <=> put_call.day_call_trades > 0
  /\ put_call.day_0dte_call_vol <= put_call.day_call_vol
  /\ (premium_decay.day_first_call_mid # NaN \/ premium_decay.day_first_put_mid # NaN)
       => zero_dte.day_0dte_atm_events > 0

LEMMA InitPopulations == Init => PopulationsInv
<1> SUFFICES ASSUME Init PROVE PopulationsInv
  OBVIOUS
<1>1. /\ quality.sentinel_events = 0 /\ quality.quote_events = 0 /\ quality.trade_events = 0
      /\ quality.dte_events["0dte"] = 0
  BY DEF Init, Quality!Init, Quality!new, Quality!DteBucket
<1>2. volume.total_trades = 0 /\ volume.dte_trades["0dte"] = 0
  BY DEF Init, Volume!Init, Volume!new, Volume!DteBucket
<1>3. /\ effective_spread.total_trades = 0
      /\ Effective!LocationTotal(effective_spread.trades_bbo_0dte_atm) = 0
  BY DEF Init, Effective!Init, Effective!new, Effective!LocationTotal, Effective!Location
<1>4. /\ zero_dte.total_0dte_atm_trades = 0 /\ zero_dte.total_0dte_atm_events = 0
      /\ zero_dte.n_0dte_days = 0
  BY DEF Init, ZeroDte!Init, ZeroDte!new
<1>5. greeks.atm_quote_count = 0
  BY DEF Init, Greeks!Init, Greeks!new
<1>6. spreads.per_moneyness_spread["atm"] = 0
  BY DEF Init, Spread!Init, Spread!new, Spread!Moneyness
<1>7. /\ premium_decay.n_0dte_days = 0
      /\ premium_decay.day_first_call_mid = NaN /\ premium_decay.day_first_put_mid = NaN
  BY DEF Init, PremiumDecay!Init, PremiumDecay!new, PremiumDecay!None, PremiumDecay!NaN, NaN
<1>8. /\ put_call.pcr_volume_daily = 0 /\ put_call.pcr_trades_daily = 0
      /\ put_call.pcr_0dte_daily = 0 /\ put_call.day_call_vol = 0
      /\ put_call.day_call_trades = 0 /\ put_call.day_0dte_call_vol = 0
  BY DEF Init, PutCall!Init, PutCall!new
<1>9. days = 0
  BY DEF Init, Caller!Init
<1> QED
  BY <1>1, <1>2, <1>3, <1>4, <1>5, <1>6, <1>7, <1>8, <1>9
     DEF PopulationsInv, PopulationsNest

LEMMA StepPopulations == Typed /\ PopulationsInv /\ [Next]_vars => PopulationsInv'
<1> SUFFICES ASSUME Typed, PopulationsInv, [Next]_vars PROVE PopulationsInv'
  OBVIOUS
<1>a. /\ quality \in Quality!State /\ spreads \in Spread!State /\ zero_dte \in ZeroDte!State
      /\ premium_decay \in PremiumDecay!State /\ volume \in Volume!State
      /\ greeks \in Greeks!State /\ put_call \in PutCall!State
      /\ effective_spread \in Effective!State /\ days \in Nat
  BY DEF Typed, TypeOK
<1>1. CASE ProcessEvent
  <2>1. PICK event \in Event : Process(event)
    BY <1>1, ProcessesAnEvent
  <2>p. /\ Quality!process_event(event) /\ Spread!process_event(event)
        /\ ZeroDte!process_event(event) /\ PremiumDecay!process_event(event)
        /\ Volume!process_event(event) /\ Greeks!process_event(event)
        /\ PutCall!process_event(event) /\ Effective!process_event(event)
        /\ days' = days
    BY <1>1, <2>1, StageSteps DEF Process
  <2>2. /\ quality'.trade_events = quality.trade_events + one_if(is_trade(event))
        /\ quality'.quote_events = quality.quote_events + one_if(~is_trade(event))
        /\ quality'.sentinel_events =
             quality.sentinel_events + one_if(~has_valid_bbo(event) /\ ~is_trade(event))
        /\ quality'.dte_events["0dte"] =
             quality.dte_events["0dte"] + one_if(is_zero_dte(event))
    BY <1>a, <2>p, QualityProcess
  <2>3. /\ volume'.total_trades = volume.total_trades + one_if(traded(event))
        /\ volume'.dte_trades["0dte"] =
             volume.dte_trades["0dte"] + one_if(traded(event) /\ is_zero_dte(event))
    BY <1>a, <2>p, VolumeProcess
  <2>4. /\ effective_spread'.total_trades =
             effective_spread.total_trades + one_if(priced(event))
        /\ Effective!LocationTotal(effective_spread'.trades_bbo_0dte_atm) =
             Effective!LocationTotal(effective_spread.trades_bbo_0dte_atm)
               + one_if(priced(event) /\ zero_dte_atm(event))
    BY <1>a, <2>p, EffectiveProcess
  <2>5. /\ zero_dte'.total_0dte_atm_events =
             zero_dte.total_0dte_atm_events + one_if(zero_dte_atm(event))
        /\ zero_dte'.day_0dte_atm_events =
             zero_dte.day_0dte_atm_events + one_if(zero_dte_atm(event))
        /\ zero_dte'.total_0dte_atm_trades =
             zero_dte.total_0dte_atm_trades + one_if(zero_dte_atm(event) /\ traded(event))
        /\ zero_dte'.n_0dte_days = zero_dte.n_0dte_days
    BY <1>a, <2>p, ZeroDteProcess
  <2>6. /\ greeks'.atm_quote_count = greeks.atm_quote_count + one_if(candidate(event))
        /\ spreads'.per_moneyness_spread["atm"] =
             spreads.per_moneyness_spread["atm"]
               + one_if(has_valid_bbo(event) /\ is_atm(event))
    BY <1>a, <2>p, GreeksProcess, SpreadProcess
  <2>7. LET q == zero_dte_atm(event) /\ has_valid_bbo(event)
        IN  /\ premium_decay'.day_first_call_mid =
                 IF q /\ is_call(event) /\ premium_decay.day_first_call_mid = NaN
                 THEN option_mid(event) ELSE premium_decay.day_first_call_mid
            /\ premium_decay'.day_first_put_mid =
                 IF q /\ ~is_call(event) /\ premium_decay.day_first_put_mid = NaN
                 THEN option_mid(event) ELSE premium_decay.day_first_put_mid
            /\ premium_decay'.n_0dte_days = premium_decay.n_0dte_days
    BY <1>a, <2>p, PremiumDecayProcess
  <2>8. PICK n \in Nat : n = contracts(event) /\ (traded(event) <=> n > 0)
    BY EventFacts
  <2>9. /\ put_call'.day_call_vol =
             put_call.day_call_vol + (IF is_call(event) THEN n ELSE 0)
        /\ put_call'.day_0dte_call_vol =
             put_call.day_0dte_call_vol
               + (IF is_zero_dte(event) /\ is_call(event) THEN n ELSE 0)
        /\ put_call'.day_call_trades =
             put_call.day_call_trades + one_if(traded(event) /\ is_call(event))
        /\ put_call'.pcr_volume_daily = put_call.pcr_volume_daily
        /\ put_call'.pcr_trades_daily = put_call.pcr_trades_daily
        /\ put_call'.pcr_0dte_daily = put_call.pcr_0dte_daily
    BY <1>a, <2>p, <2>8, PutCallProcess
  <2>10. /\ traded(event) => is_trade(event)
         /\ priced(event) => traded(event)
         /\ zero_dte_atm(event) => is_zero_dte(event)
         /\ candidate(event) => has_valid_bbo(event) /\ is_atm(event)
    BY DEF traded, priced, zero_dte_atm, candidate
  <2>11. /\ quality'.sentinel_events <= quality'.quote_events
         /\ effective_spread'.total_trades <= volume'.total_trades
         /\ volume'.total_trades <= quality'.trade_events
    BY <1>a, <2>2, <2>3, <2>4, <2>10, QualityTypes, VolumeTypes, EffectiveTypes
       DEF PopulationsInv, PopulationsNest, one_if
  <2>12. /\ Effective!LocationTotal(effective_spread'.trades_bbo_0dte_atm)
              <= zero_dte'.total_0dte_atm_trades
         /\ zero_dte'.total_0dte_atm_trades <= volume'.dte_trades["0dte"]
         /\ zero_dte'.total_0dte_atm_trades <= zero_dte'.total_0dte_atm_events
         /\ zero_dte'.total_0dte_atm_events <= quality'.dte_events["0dte"]
    BY <1>a, <2>2, <2>3, <2>4, <2>5, <2>10, QualityTypes, VolumeTypes, EffectiveTypes,
       ZeroDteTypes DEF PopulationsInv, PopulationsNest, one_if
  <2>13. greeks'.atm_quote_count <= spreads'.per_moneyness_spread["atm"]
    BY <1>a, <2>6, <2>10, GreeksTypes, SpreadTypes
       DEF PopulationsInv, PopulationsNest, one_if
  <2>14. /\ premium_decay'.n_0dte_days <= zero_dte'.n_0dte_days
         /\ zero_dte'.n_0dte_days <= days'
         /\ put_call'.pcr_volume_daily = put_call'.pcr_trades_daily
         /\ put_call'.pcr_0dte_daily <= put_call'.pcr_volume_daily
         /\ put_call'.pcr_volume_daily <= days'
    BY <2>p, <2>5, <2>7, <2>9 DEF PopulationsInv, PopulationsNest
  <2>15. /\ put_call'.day_call_vol > 0 <=> put_call'.day_call_trades > 0
         /\ put_call'.day_0dte_call_vol <= put_call'.day_call_vol
    BY <1>a, <2>8, <2>9, PutCallTypes DEF PopulationsInv, one_if
  <2>16. (premium_decay'.day_first_call_mid # NaN \/ premium_decay'.day_first_put_mid # NaN)
           => zero_dte'.day_0dte_atm_events > 0
    BY <1>a, <2>5, <2>7, ZeroDteTypes DEF PopulationsInv, one_if
  <2> QED
    BY <2>11, <2>12, <2>13, <2>14, <2>15, <2>16 DEF PopulationsInv, PopulationsNest
<1>2. CASE EndOfDay
  <2>1. /\ ZeroDte!end_of_day /\ PremiumDecay!end_of_day /\ PutCall!end_of_day
        /\ days' = days + 1
    BY <1>2, StageSteps DEF EndOfDay
  <2>2. /\ zero_dte'.day_0dte_atm_events = zero_dte.day_0dte_atm_events
        /\ zero_dte'.n_0dte_days =
             zero_dte.n_0dte_days + one_if(zero_dte.day_0dte_atm_events > 0)
    BY <1>a, <2>1, ZeroDteEndOfDay
  <2>3. /\ premium_decay'.n_0dte_days =
             premium_decay.n_0dte_days
               + one_if(\/ premium_decay.day_first_call_mid # NaN
                        \/ premium_decay.day_first_put_mid # NaN)
        /\ premium_decay'.day_first_call_mid = premium_decay.day_first_call_mid
        /\ premium_decay'.day_first_put_mid = premium_decay.day_first_put_mid
    BY <1>2, <1>a, <2>1, OffsetTyped, PremiumDecayDay
       DEF Next, PremiumDecay!end_of_day, PremiumDecay!State
  <2>4. /\ put_call'.pcr_volume_daily =
             put_call.pcr_volume_daily + one_if(put_call.day_call_vol > 0)
        /\ put_call'.pcr_trades_daily =
             put_call.pcr_trades_daily + one_if(put_call.day_call_trades > 0)
        /\ put_call'.pcr_0dte_daily =
             put_call.pcr_0dte_daily + one_if(put_call.day_0dte_call_vol > 0)
    BY <1>2, <1>a, <2>1, OffsetTyped, PutCallDay DEF Next
  <2>5. /\ put_call'.day_call_vol = put_call.day_call_vol
        /\ put_call'.day_call_trades = put_call.day_call_trades
        /\ put_call'.day_0dte_call_vol = put_call.day_0dte_call_vol
    BY <1>a, <2>1 DEF PutCall!end_of_day, PutCall!State
  <2>6. /\ premium_decay'.n_0dte_days <= zero_dte'.n_0dte_days
        /\ zero_dte'.n_0dte_days <= days'
    BY <1>a, <2>1, <2>2, <2>3, PremiumDecayTypes, ZeroDteTypes
       DEF PopulationsInv, PopulationsNest, one_if
  <2>7. /\ put_call'.pcr_volume_daily = put_call'.pcr_trades_daily
        /\ put_call'.pcr_0dte_daily <= put_call'.pcr_volume_daily
        /\ put_call'.pcr_volume_daily <= days'
    BY <1>a, <2>1, <2>4, PutCallTypes DEF PopulationsInv, PopulationsNest, one_if
  <2> QED
    BY <1>2, <2>2, <2>3, <2>5, <2>6, <2>7, RunTotalsKept DEF PopulationsInv, PopulationsNest
<1>3. CASE ResetDay
  <2>1. /\ ZeroDte!reset_day /\ PremiumDecay!reset_day /\ PutCall!reset_day /\ days' = days
    BY <1>3, StageSteps DEF ResetDay
  <2>2. zero_dte'.n_0dte_days = zero_dte.n_0dte_days
    BY <1>a, <2>1 DEF ZeroDte!reset_day, ZeroDte!State
  <2>3. /\ premium_decay'.n_0dte_days = premium_decay.n_0dte_days
        /\ premium_decay'.day_first_call_mid = NaN
        /\ premium_decay'.day_first_put_mid = NaN
    BY <1>a, <2>1 DEF PremiumDecay!reset_day, PremiumDecay!State, PremiumDecay!None,
       PremiumDecay!NaN, NaN
  <2>4. /\ put_call'.pcr_volume_daily = put_call.pcr_volume_daily
        /\ put_call'.pcr_trades_daily = put_call.pcr_trades_daily
        /\ put_call'.pcr_0dte_daily = put_call.pcr_0dte_daily
        /\ put_call'.day_call_vol = 0 /\ put_call'.day_call_trades = 0
        /\ put_call'.day_0dte_call_vol = 0
    BY <1>a, <2>1 DEF PutCall!reset_day, PutCall!State
  <2> QED
    BY <1>3, <2>1, <2>2, <2>3, <2>4, RunTotalsKept DEF PopulationsInv, PopulationsNest
<1>4. CASE BeginDay \/ Finalize \/ UNCHANGED vars
  BY <1>4, DayKept, RunTotalsKept DEF PopulationsInv, PopulationsNest
<1> QED
  BY <1>1, <1>2, <1>3, <1>4 DEF Next

(* Where one report covers a part of what another covers, it counts no     *)
(* more.                                                                   *)
THEOREM PopulationsCorrect == Spec => []PopulationsNest
<1>1. PopulationsInv => PopulationsNest
  BY DEF PopulationsInv
<1> QED
  BY <1>1, InitTyped, StepTyped, InitPopulations, StepPopulations, PTL DEF Spec
-----------------------------------------------------------------------------
(* All trackers close the same days, and the put-call ratio of a day is    *)
(* taken, when the day has one, before reset_day forgets its calls.        *)
NullsInv ==
  /\ volume.call_volume > 0 <=> put_call.pcr_volume_daily > 0 \/ put_call.day_call_vol > 0
  /\ stage \in {"idle", "finalized"} => put_call.day_call_vol = 0
  /\ stage = "closed" /\ put_call.day_call_vol > 0 => put_call.pcr_volume_daily > 0
  /\ volume.total_volume > 0 => volume.total_trades > 0
  /\ volume.daily_volume.count = days /\ volume.daily_trades.count = days
  /\ quality.events_per_day.count = days /\ quality.contracts_per_day.count = days
  /\ quality.n_days = days /\ spreads.n_days = days /\ zero_dte.n_days = days
  /\ premium_decay.n_days = days /\ volume.n_days = days /\ greeks.n_days = days
  /\ put_call.n_days = days /\ effective_spread.n_days = days

LEMMA InitNulls == Init => NullsInv
<1> SUFFICES ASSUME Init PROVE NullsInv
  OBVIOUS
<1>1. quality.n_days = 0 /\ quality.events_per_day.count = 0
      /\ quality.contracts_per_day.count = 0
  BY DEF Init, Quality!Init, Quality!new, Quality!EmptyWelford
<1>2. /\ volume.call_volume = 0 /\ volume.total_volume = 0 /\ volume.n_days = 0
      /\ volume.daily_volume.count = 0 /\ volume.daily_trades.count = 0
  BY DEF Init, Volume!Init, Volume!new, Volume!EmptyWelford
<1>3. put_call.pcr_volume_daily = 0 /\ put_call.day_call_vol = 0 /\ put_call.n_days = 0
  BY DEF Init, PutCall!Init, PutCall!new
<1>4. spreads.n_days = 0
  BY DEF Init, Spread!Init, Spread!new
<1>5. zero_dte.n_days = 0
  BY DEF Init, ZeroDte!Init, ZeroDte!new
<1>6. premium_decay.n_days = 0
  BY DEF Init, PremiumDecay!Init, PremiumDecay!new
<1>7. greeks.n_days = 0
  BY DEF Init, Greeks!Init, Greeks!new
<1>8. effective_spread.n_days = 0
  BY DEF Init, Effective!Init, Effective!new
<1>9. days = 0
  BY DEF Init, Caller!Init
<1> QED
  BY <1>1, <1>2, <1>3, <1>4, <1>5, <1>6, <1>7, <1>8, <1>9 DEF NullsInv

LEMMA StepNulls == Typed /\ NullsInv /\ [Next]_vars => NullsInv'
<1> SUFFICES ASSUME Typed, NullsInv, [Next]_vars PROVE NullsInv'
  OBVIOUS
<1>a. /\ quality \in Quality!State /\ spreads \in Spread!State /\ zero_dte \in ZeroDte!State
      /\ premium_decay \in PremiumDecay!State /\ volume \in Volume!State
      /\ greeks \in Greeks!State /\ put_call \in PutCall!State
      /\ effective_spread \in Effective!State /\ days \in Nat
      /\ IsFiniteSet(quality.unique_contracts_day)
  BY DEF Typed, TypeOK
<1>1. CASE ProcessEvent
  <2>1. PICK event \in Event : Process(event)
    BY <1>1, ProcessesAnEvent
  <2>2. stage = "in_day" /\ stage' = "in_day" /\ days' = days
    BY <1>1, StageSteps
  <2>3. PICK n \in Nat : n = contracts(event) /\ (traded(event) <=> n > 0)
    BY EventFacts
  <2>4. /\ volume'.total_trades = volume.total_trades + one_if(traded(event))
        /\ volume'.total_volume = volume.total_volume + n
        /\ volume'.call_volume = volume.call_volume + (IF is_call(event) THEN n ELSE 0)
        /\ volume'.daily_volume = volume.daily_volume
        /\ volume'.daily_trades = volume.daily_trades
        /\ volume'.n_days = volume.n_days
    BY <1>a, <2>1, <2>3, VolumeProcess DEF Process
  <2>5. /\ put_call'.day_call_vol =
             put_call.day_call_vol + (IF is_call(event) THEN n ELSE 0)
        /\ put_call'.pcr_volume_daily = put_call.pcr_volume_daily
        /\ put_call'.n_days = put_call.n_days
    BY <1>a, <2>1, <2>3, PutCallProcess DEF Process
  <2>6. /\ quality'.events_per_day = quality.events_per_day
        /\ quality'.contracts_per_day = quality.contracts_per_day
        /\ quality'.n_days = quality.n_days
    BY <1>a, <2>1, QualityProcess DEF Process
  <2>7. /\ spreads'.n_days = spreads.n_days /\ zero_dte'.n_days = zero_dte.n_days
        /\ premium_decay'.n_days = premium_decay.n_days /\ greeks'.n_days = greeks.n_days
        /\ effective_spread'.n_days = effective_spread.n_days
    BY <1>a, <2>1, SpreadProcess, ZeroDteProcess, PremiumDecayProcess, GreeksProcess,
       EffectiveProcess DEF Process
  <2>8. /\ volume'.call_volume > 0
             <=> put_call'.pcr_volume_daily > 0 \/ put_call'.day_call_vol > 0
        /\ volume'.total_volume > 0 => volume'.total_trades > 0
    BY <1>a, <2>3, <2>4, <2>5, VolumeTypes, PutCallTypes DEF NullsInv, one_if
  <2> QED
    BY <2>2, <2>4, <2>5, <2>6, <2>7, <2>8 DEF NullsInv
<1>2. CASE EndOfDay
  <2>1. stage = "in_day" /\ stage' = "closed" /\ days' = days + 1
    BY <1>2, StageSteps
  <2>2. /\ volume'.daily_volume.count = volume.daily_volume.count + 1
        /\ volume'.daily_trades.count = volume.daily_trades.count + 1
        /\ volume'.n_days = volume.n_days + 1
    BY <1>2, <1>a, VolumeEndOfDay DEF EndOfDay
  <2>3. /\ quality'.events_per_day.count = quality.events_per_day.count + 1
        /\ quality'.contracts_per_day.count = quality.contracts_per_day.count + 1
        /\ quality'.n_days = quality.n_days + 1
    BY <1>2, <1>a, QualityEndOfDay DEF EndOfDay
  <2>4. /\ put_call'.pcr_volume_daily =
             put_call.pcr_volume_daily + one_if(put_call.day_call_vol > 0)
        /\ put_call'.n_days = put_call.n_days + 1
    BY <1>2, <1>a, OffsetTyped, PutCallDay DEF EndOfDay, Next
  <2>5. put_call'.day_call_vol = put_call.day_call_vol
    BY <1>2, <1>a DEF EndOfDay, PutCall!end_of_day, PutCall!State
  <2>6. /\ spreads'.n_days = spreads.n_days + 1 /\ zero_dte'.n_days = zero_dte.n_days + 1
        /\ premium_decay'.n_days = premium_decay.n_days + 1
        /\ greeks'.n_days = greeks.n_days + 1
        /\ effective_spread'.n_days = effective_spread.n_days + 1
    BY <1>2, <1>a, OffsetTyped, SpreadDay, ZeroDteEndOfDay, PremiumDecayDay, GreeksDay,
       EffectiveDay DEF EndOfDay, Next
  <2>7. /\ volume'.call_volume = volume.call_volume
        /\ volume'.total_volume = volume.total_volume
        /\ volume'.total_trades = volume.total_trades
    BY <1>2, RunTotalsKept
  <2>8. /\ volume'.call_volume > 0
             <=> put_call'.pcr_volume_daily > 0 \/ put_call'.day_call_vol > 0
        /\ put_call'.day_call_vol > 0 => put_call'.pcr_volume_daily > 0
    BY <1>a, <2>4, <2>5, <2>7, PutCallTypes DEF NullsInv, one_if
  <2> QED
    BY <2>1, <2>2, <2>3, <2>4, <2>6, <2>7, <2>8 DEF NullsInv
<1>3. CASE ResetDay
  <2>1. stage = "closed" /\ stage' = "idle" /\ days' = days
    BY <1>3, StageSteps
  <2>2. /\ volume'.daily_volume = volume.daily_volume
        /\ volume'.daily_trades = volume.daily_trades
        /\ volume'.n_days = volume.n_days
    BY <1>3, <1>a, VolumeResetDay DEF ResetDay
  <2>3. /\ quality'.events_per_day = quality.events_per_day
        /\ quality'.contracts_per_day = quality.contracts_per_day
        /\ quality'.n_days = quality.n_days
    BY <1>3, <1>a, QualityResetDay DEF ResetDay
  <2>4. /\ put_call'.pcr_volume_daily = put_call.pcr_volume_daily
        /\ put_call'.n_days = put_call.n_days /\ put_call'.day_call_vol = 0
    BY <1>3, <1>a DEF ResetDay, PutCall!reset_day, PutCall!State
  <2>5. spreads'.n_days = spreads.n_days /\ effective_spread'.n_days = effective_spread.n_days
    BY <1>3 DEF ResetDay, Spread!reset_day, Effective!reset_day
  <2>6. zero_dte'.n_days = zero_dte.n_days
    BY <1>3, <1>a DEF ResetDay, ZeroDte!reset_day, ZeroDte!State
  <2>7. premium_decay'.n_days = premium_decay.n_days
    BY <1>3, <1>a DEF ResetDay, PremiumDecay!reset_day, PremiumDecay!State
  <2>8. greeks'.n_days = greeks.n_days
    BY <1>3, <1>a DEF ResetDay, Greeks!reset_day, Greeks!State
  <2>9. /\ volume'.call_volume = volume.call_volume
        /\ volume'.total_volume = volume.total_volume
        /\ volume'.total_trades = volume.total_trades
    BY <1>3, RunTotalsKept
  <2>10. volume'.call_volume > 0
           <=> put_call'.pcr_volume_daily > 0 \/ put_call'.day_call_vol > 0
    BY <2>1, <2>4, <2>9 DEF NullsInv
  <2> QED
    BY <2>1, <2>2, <2>3, <2>4, <2>5, <2>6, <2>7, <2>8, <2>9, <2>10 DEF NullsInv
<1>4. CASE BeginDay \/ Finalize \/ UNCHANGED vars
  <2>1. /\ stage' = "closed" <=> stage = "closed"
        /\ stage' \in {"idle", "finalized"} => stage \in {"idle", "finalized"}
    BY <1>4, StageSteps
  <2> QED
    BY <1>4, <2>1, DayKept, RunTotalsKept DEF NullsInv
<1> QED
  BY <1>1, <1>2, <1>3, <1>4 DEF Next

(* A quotient is null exactly without a denominator.                       *)
LEMMA QuotientNull ==
  \A n, d \in Nat : (IF d > 0 THEN [num |-> n, den |-> d] ELSE null) = null <=> d = 0
<1> SUFFICES ASSUME NEW n \in Nat, NEW d \in Nat
             PROVE  (IF d > 0 THEN [num |-> n, den |-> d] ELSE null) = null <=> d = 0
  OBVIOUS
<1>1. CASE d = 0
  BY <1>1
<1>2. CASE d > 0
  <2>1. [num |-> n, den |-> d].den = d /\ null.den = 0
    BY DEF null
  <2> QED
    BY <1>2, <2>1
<1> QED
  BY <1>1, <1>2

(* The modules of the trackers have their own copies of the fractions.     *)
LEMMA SameFractions ==
  /\ \A n, d : Volume!quotient(n, d) = IF d > 0 THEN [num |-> n, den |-> d] ELSE null
  /\ \A n, d : Quality!quotient(n, d) = IF d > 0 THEN [num |-> n, den |-> d] ELSE null
  /\ \A n, d : ZeroDte!quotient(n, d) = IF d > 0 THEN [num |-> n, den |-> d] ELSE null
  BY DEF Volume!quotient, Volume!null, Quality!quotient, Quality!null, ZeroDte!quotient,
     ZeroDte!null, null

LEMMA SharesFollow == Typed /\ BreakdownsAddUp /\ PopulationsNest => Shares
<1> SUFFICES ASSUME Typed, BreakdownsAddUp, PopulationsNest PROVE Shares
  OBVIOUS
<1>a. /\ quality \in Quality!State /\ volume \in Volume!State
      /\ greeks \in Greeks!State /\ effective_spread \in Effective!State
  BY DEF Typed, TypeOK
<1>1. AtMostOne(Quality!finalize.trade_pct) /\ AtMostOne(Quality!finalize.sentinel_pct)
  <2>1. /\ quality.trade_events <= quality.total_events
        /\ quality.sentinel_events <= quality.total_events
        /\ quality.trade_events \in Nat /\ quality.total_events \in Nat
        /\ quality.sentinel_events \in Nat
    BY <1>a, QualityTypes DEF BreakdownsAddUp, PopulationsNest
  <2> QED
    BY <2>1 DEF AtMostOne, Quality!finalize, Quality!rate
<1>2. AtMostOne(Volume!finalize.dte0_volume_share)
  <2>1. /\ volume.dte_volume \in [DteBucket -> Nat]
        /\ volume.total_volume = DteTotal(volume.dte_volume)
    BY <1>a, VolumeTypes DEF BreakdownsAddUp
  <2>2. /\ volume.dte_volume["0dte"] <= volume.total_volume
        /\ volume.dte_volume["0dte"] \in Nat /\ volume.total_volume \in Nat
    BY <2>1 DEF DteBucket, DteTotal
  <2> QED
    BY <2>2 DEF AtMostOne, Volume!finalize, Volume!rate
<1>3. AtMostOne(Greeks!finalize.iv_success_rate)
  <2>1. greeks.iv_computed \in Nat /\ greeks.iv_failed \in Nat
    BY <1>a, GreeksTypes
  <2> QED
    BY <2>1 DEF AtMostOne, Greeks!finalize, Greeks!rate
<1>4. ASSUME NEW f \in [Effective!Location -> Nat]
      PROVE  LET place == Effective!finalize_location(f)
             IN  /\ AtMostOne(place.trade_through_rate)
                 /\ AtMostOne(place.price_improvement_rate)
                 /\ place.trade_through_rate.num + place.price_improvement_rate.num
                      <= place.trade_through_rate.den
  <2>1. PICK i \in Nat, a \in Nat, o \in Nat :
          i = f["inside"] /\ a = f["at"] /\ o = f["outside"]
    BY DEF Effective!Location
  <2>2. Effective!LocationTotal(f) = i + a + o
    BY <2>1 DEF Effective!LocationTotal
  <2> QED
    BY <2>1, <2>2 DEF AtMostOne, Effective!finalize_location, Effective!rate
<1>5. /\ Effective!finalize.all = Effective!finalize_location(effective_spread.trades_bbo)
      /\ Effective!finalize.zero_dte_atm =
           Effective!finalize_location(effective_spread.trades_bbo_0dte_atm)
      /\ effective_spread.trades_bbo \in [Effective!Location -> Nat]
      /\ effective_spread.trades_bbo_0dte_atm \in [Effective!Location -> Nat]
  BY <1>a, EffectiveTypes DEF Effective!finalize
<1> QED
  BY <1>1, <1>2, <1>3, <1>4, <1>5 DEF Shares

LEMMA NullsFollow ==
  Typed /\ BreakdownsAddUp /\ DaysAddUp /\ PopulationsNest /\ NullsInv => NullsAgree
<1> SUFFICES ASSUME Typed, BreakdownsAddUp, DaysAddUp, PopulationsNest, NullsInv, Finalized
             PROVE  NullsAgree
  BY DEF NullsAgree
<1>a. /\ quality \in Quality!State /\ volume \in Volume!State /\ put_call \in PutCall!State
      /\ effective_spread \in Effective!State /\ zero_dte \in ZeroDte!State
  BY DEF Typed, TypeOK
<1>b. /\ volume.put_volume \in Nat /\ volume.call_volume \in Nat
      /\ volume.total_trades \in Nat /\ put_call.pcr_volume_daily \in Nat
      /\ volume.put_volume \in Nat /\ volume.total_volume \in Nat
      /\ quality.quote_events \in Nat /\ quality.trade_events \in Nat
      /\ volume.daily_volume \in Volume!Welford /\ volume.daily_trades \in Volume!Welford
      /\ quality.events_per_day \in Quality!Welford
      /\ quality.contracts_per_day \in Quality!Welford
      /\ zero_dte.trades_per_day \in ZeroDte!Welford
      /\ effective_spread.total_trades \in Nat
  BY <1>a, VolumeTypes, QualityTypes, PutCallTypes, ZeroDteTypes, EffectiveTypes
<1>1. Volume!finalize.put_call_ratio_volume = null <=> volume.call_volume = 0
  BY <1>b, QuotientNull, SameFractions DEF Volume!finalize
<1>2. Quality!finalize.quote_to_trade_ratio = null <=> quality.trade_events = 0
  BY <1>b, QuotientNull, SameFractions DEF Quality!finalize
<1>3. Volume!finalize.put_call_ratio_volume = null <=> PutCall!finalize.pcr_volume_count = 0
  <2>1. volume.call_volume > 0 <=> put_call.pcr_volume_daily > 0
    BY <1>a, PutCallTypes DEF NullsInv, Finalized
  <2> QED
    BY <1>1, <1>b, <2>1 DEF PutCall!finalize
<1>4. Volume!finalize.put_call_ratio_volume # null
        => Quality!finalize.quote_to_trade_ratio # null
  <2>1. volume.call_volume > 0 => quality.trade_events > 0
    BY <1>b DEF NullsInv, BreakdownsAddUp, PopulationsNest
  <2> QED
    BY <1>1, <1>2, <1>b, <2>1
<1>5. Quality!finalize.quote_to_trade_ratio = null
        => DOMAIN Effective!finalize.by_size_bucket = {}
  <2>1. quality.trade_events = 0
          => Effective!SizeTotal(effective_spread.effective_spread_by_size) = 0
    BY <1>b DEF BreakdownsAddUp, PopulationsNest
  <2>2. effective_spread.effective_spread_by_size \in [Effective!SizeBucket -> Nat]
    BY <1>a, EffectiveTypes
  <2>3. quality.trade_events = 0
          => \A b \in Effective!SizeBucket : effective_spread.effective_spread_by_size[b] = 0
    <3>1. ASSUME NEW f \in [Effective!SizeBucket -> Nat], Effective!SizeTotal(f) = 0
          PROVE  \A b \in Effective!SizeBucket : f[b] = 0
      <4>1. PICK n1 \in Nat, n2 \in Nat, n3 \in Nat, n4 \in Nat, n5 \in Nat, n6 \in Nat :
              /\ n1 = f["1"] /\ n2 = f["2-5"] /\ n3 = f["6-10"]
              /\ n4 = f["11-50"] /\ n5 = f["51-100"] /\ n6 = f["100+"]
        BY DEF Effective!SizeBucket
      <4>2. n1 + n2 + n3 + n4 + n5 + n6 = 0
        BY <3>1, <4>1 DEF Effective!SizeTotal
      <4>3. n1 = 0 /\ n2 = 0 /\ n3 = 0 /\ n4 = 0 /\ n5 = 0 /\ n6 = 0
        BY <4>2
      <4> QED
        BY <4>1, <4>3 DEF Effective!SizeBucket
    <3> QED
      BY <2>1, <2>2, <3>1
  <2>4. DOMAIN Effective!finalize.by_size_bucket =
          {b \in Effective!SizeBucket : effective_spread.effective_spread_by_size[b] > 0}
    BY DEF Effective!finalize
  <2> QED
    BY <1>2, <2>3, <2>4
<1>6. \A value \in {Volume!finalize.daily_volume, Volume!finalize.daily_trades,
                    Quality!finalize.events_per_day, Quality!finalize.contracts_per_day} :
        value = null <=> days = 0
  <2>1. /\ Volume!finalize.daily_volume = null <=> volume.daily_volume.count = 0
        /\ Volume!finalize.daily_trades = null <=> volume.daily_trades.count = 0
    BY <1>b, QuotientNull, SameFractions DEF Volume!finalize, Volume!mean, Volume!Welford
  <2>2. /\ Quality!finalize.events_per_day = null <=> quality.events_per_day.count = 0
        /\ Quality!finalize.contracts_per_day = null <=> quality.contracts_per_day.count = 0
    BY <1>b, QuotientNull, SameFractions DEF Quality!finalize, Quality!mean, Quality!Welford
  <2> QED
    BY <2>1, <2>2 DEF NullsInv
<1>7. ZeroDte!finalize.trades_per_0dte_day = null <=> ZeroDte!finalize.n_0dte_days = 0
  <2>1. ZeroDte!finalize.trades_per_0dte_day = null <=> zero_dte.trades_per_day.count = 0
    BY <1>b, QuotientNull, SameFractions DEF ZeroDte!finalize, ZeroDte!mean, ZeroDte!Welford
  <2> QED
    BY <2>1 DEF ZeroDte!finalize, DaysAddUp
<1>8. \A n \in {Quality!finalize.n_days, Spread!finalize.n_days, ZeroDte!finalize.n_days,
                PremiumDecay!finalize.n_days, Volume!finalize.n_days, Greeks!finalize.n_days,
                PutCall!finalize.n_days, Effective!finalize.n_days} : n = days
  BY DEF NullsInv, Quality!finalize, Spread!finalize, ZeroDte!finalize,
     PremiumDecay!finalize, Volume!finalize, Greeks!finalize, PutCall!finalize,
     Effective!finalize
<1> QED
  BY <1>3, <1>4, <1>5, <1>6, <1>7, <1>8, SharesFollow DEF NullsAgree

(* Once finalized, the reports agree on what cannot be computed.           *)
THEOREM NullsCorrect == Spec => []NullsAgree
<1>1. PopulationsInv => PopulationsNest
  BY DEF PopulationsInv
<1>2. DaysInv => DaysAddUp
  BY DEF DaysInv
<1> QED
  BY <1>1, <1>2, InitTyped, StepTyped, InitBreakdowns, StepBreakdowns, InitDays, StepDays,
     InitPopulations, StepPopulations, InitNulls, StepNulls, NullsFollow, PTL DEF Spec
-----------------------------------------------------------------------------
(* The counter that goes up by one is divisible exactly after the last     *)
(* remainder.                                                              *)
LEMMA ModStep ==
  ASSUME NEW c \in Nat, NEW i \in Nat \ {0}
  PROVE  /\ c % i \in 0..(i - 1)
         /\ (c + 1) % i = 0 <=> c % i = i - 1
         /\ (c + 1) % i # 0 => (c + 1) % i = (c % i) + 1
<1>1. c % i \in 0..(i - 1) /\ c = i * (c \div i) + (c % i)
  OBVIOUS
<1>2. (c + 1) % i \in 0..(i - 1) /\ c + 1 = i * ((c + 1) \div i) + ((c + 1) % i)
  OBVIOUS
<1>3. PICK q \in Int, r \in Int, p \in Int, t \in Int :
        q = c \div i /\ r = c % i /\ p = (c + 1) \div i /\ t = (c + 1) % i
  OBVIOUS
<1>4. i * q + r + 1 = i * p + t /\ 0 <= r /\ r <= i - 1 /\ 0 <= t /\ t <= i - 1
  BY <1>1, <1>2, <1>3
<1>5. i * (p - q) = i * p - i * q
  OBVIOUS
<1>6. PICK d \in Int : d = p - q
  OBVIOUS
<1>7. i * d = r + 1 - t
  BY <1>4, <1>5, <1>6
<1>8. d = 0 \/ d = 1
  <2>1. CASE d >= 2
    <3>1. i * d >= i * 2
      BY <2>1
    <3> QED
      BY <3>1, <1>4, <1>7
  <2>2. CASE d <= -1
    <3>1. i * d <= i * (-1)
      BY <2>2
    <3> QED
      BY <3>1, <1>4, <1>7
  <2> QED
    BY <2>1, <2>2
<1> QED
  BY <1>3, <1>4, <1>7, <1>8

LEMMA LastRemainder == \A i \in Nat \ {0} : (i - 1) % i = i - 1
<1> SUFFICES ASSUME NEW i \in Nat \ {0} PROVE (i - 1) % i = i - 1
  OBVIOUS
<1>1. i % i = 0
  OBVIOUS
<1>2. PICK c \in Nat : c + 1 = i /\ c = i - 1
  OBVIOUS
<1>3. (c + 1) % i = 0 <=> c % i = i - 1
  BY ModStep
<1> QED
  BY <1>1, <1>2, <1>3

(* Days whose quotes the counter has forgotten.                            *)
days_reset == IF stage = "closed" THEN days - 1 ELSE days

(* How far the counter is from its next sample.                            *)
to_sample == iv_sample_interval - 1 - (greeks.atm_sample_counter % iv_sample_interval)

(* Within a day the samples are the quotes divided by the interval, rounded *)
(* up; each day that is over may have rounded once.                         *)
SamplingInv ==
  /\ stage = "closed" => days > 0
  /\ stage \in {"idle", "finalized"} => greeks.atm_sample_counter = iv_sample_interval - 1
  /\ samples * iv_sample_interval >= greeks.atm_quote_count + to_sample
  /\ samples * iv_sample_interval
       <= greeks.atm_quote_count + to_sample + days_reset * (iv_sample_interval - 1)

(* The bounds over numbers: what one sample, one quote without a sample,   *)
(* and a reset of the counter do to them.                                  *)
LEMMA SamplingBounds ==
  ASSUME NEW i \in Nat \ {0}, NEW s \in Nat, NEW q \in Nat, NEW r \in 0..(i - 1), NEW d \in Nat,
         s * i >= q + (i - 1 - r),
         s * i <= q + (i - 1 - r) + d * (i - 1)
  PROVE  /\ r = i - 1 => /\ (s + 1) * i >= (q + 1) + (i - 1)
                         /\ (s + 1) * i <= (q + 1) + (i - 1) + d * (i - 1)
         /\ r # i - 1 => /\ s * i >= (q + 1) + (i - 1 - (r + 1))
                         /\ s * i <= (q + 1) + (i - 1 - (r + 1)) + d * (i - 1)
         /\ s * i >= q
         /\ s * i <= q + (d + 1) * (i - 1)
<1>1. (s + 1) * i = s * i + i /\ (d + 1) * (i - 1) = d * (i - 1) + (i - 1)
  OBVIOUS
<1>2. PICK x \in Int, y \in Int : x = s * i /\ y = d * (i - 1)
  OBVIOUS
<1> QED
  BY <1>1, <1>2

LEMMA InitSampling == Init => SamplingInv
<1> SUFFICES ASSUME Init PROVE SamplingInv
  OBVIOUS
<1>1. /\ greeks.atm_sample_counter = iv_sample_interval - 1 /\ greeks.atm_quote_count = 0
      /\ samples = 0
  BY DEF Init, Greeks!Init, Greeks!new, samples
<1>2. days = 0 /\ stage = "idle"
  BY DEF Init, Caller!Init
<1>3. (iv_sample_interval - 1) % iv_sample_interval = iv_sample_interval - 1
  BY LastRemainder, TrackerSetAssumption
<1>4. /\ 0 * iv_sample_interval = 0 /\ 0 * (iv_sample_interval - 1) = 0
      /\ iv_sample_interval \in Nat
  BY TrackerSetAssumption
<1> QED
  BY <1>1, <1>2, <1>3, <1>4 DEF SamplingInv, to_sample, days_reset

(* What the invariant needs of the state, over numbers.                    *)
LEMMA SamplingTypes ==
  ASSUME Typed, SamplingInv
  PROVE  /\ samples \in Nat /\ greeks.atm_quote_count \in Nat
         /\ greeks.atm_sample_counter \in Nat /\ iv_sample_interval \in Nat \ {0}
         /\ greeks.atm_sample_counter % iv_sample_interval \in 0..(iv_sample_interval - 1)
         /\ days_reset \in Nat /\ greeks \in Greeks!State /\ days \in Nat
<1>1. greeks \in Greeks!State /\ days \in Nat
  BY DEF Typed, TypeOK
<1>2. /\ samples \in Nat /\ greeks.atm_quote_count \in Nat
      /\ greeks.atm_sample_counter \in Nat /\ iv_sample_interval \in Nat \ {0}
  BY <1>1, GreeksTypes, TrackerSetAssumption DEF samples
<1>3. days_reset \in Nat
  BY <1>1 DEF SamplingInv, days_reset
<1> QED
  BY <1>1, <1>2, <1>3, ModStep

LEMMA StepSampling == Typed /\ SamplingInv /\ [Next]_vars => SamplingInv'
<1> SUFFICES ASSUME Typed, SamplingInv, [Next]_vars PROVE SamplingInv'
  OBVIOUS
<1>i. PICK i \in Nat \ {0} : i = iv_sample_interval
  BY TrackerSetAssumption
<1>s. PICK s \in Nat, q \in Nat, r \in 0..(i - 1), d \in Nat :
        /\ s = samples /\ q = greeks.atm_quote_count
        /\ r = greeks.atm_sample_counter % iv_sample_interval /\ d = days_reset
  BY <1>i, SamplingTypes
<1>b. s * i >= q + (i - 1 - r) /\ s * i <= q + (i - 1 - r) + d * (i - 1)
  BY <1>i, <1>s DEF SamplingInv, to_sample
<1>k. (i - 1) % i = i - 1
  BY LastRemainder
<1>1. CASE ProcessEvent
  <2>1. PICK event \in Event : Process(event)
    BY <1>1, ProcessesAnEvent
  <2>2. stage = "in_day" /\ stage' = "in_day" /\ days' = days
    BY <1>1, StageSteps
  <2>3. days_reset' = d
    BY <1>s, <2>2 DEF days_reset
  <2>4. PICK c \in {0, 1}, f \in {0, 1} :
          /\ c + f = one_if(/\ candidate(event)
                            /\ (greeks.atm_sample_counter + 1) % iv_sample_interval = 0)
          /\ greeks'.iv_computed = greeks.iv_computed + c
          /\ greeks'.iv_failed = greeks.iv_failed + f
          /\ greeks'.atm_quote_count = greeks.atm_quote_count + one_if(candidate(event))
          /\ greeks'.atm_sample_counter = greeks.atm_sample_counter + one_if(candidate(event))
    BY <2>1, SamplingTypes, GreeksProcess DEF Process
  <2>5. greeks.iv_computed \in Nat /\ greeks.iv_failed \in Nat
    BY SamplingTypes, GreeksTypes
  <2>6. samples' = s + (c + f)
    BY <1>s, <2>4, <2>5 DEF samples
  <2>7. CASE ~candidate(event)
    <3>1. /\ samples' = s /\ greeks'.atm_quote_count = q
          /\ greeks'.atm_sample_counter = greeks.atm_sample_counter
      BY <2>4, <2>6, <2>7, <1>s, SamplingTypes DEF one_if
    <3> QED
      BY <3>1, <2>2, <2>3, <1>i, <1>s, <1>b DEF SamplingInv, to_sample
  <2>8. CASE candidate(event) /\ r = i - 1
    <3>0. /\ greeks.atm_sample_counter \in Nat /\ iv_sample_interval \in Nat \ {0}
          /\ greeks.atm_sample_counter % iv_sample_interval = iv_sample_interval - 1
      BY <2>8, <1>i, <1>s, SamplingTypes
    <3>1. (greeks.atm_sample_counter + 1) % iv_sample_interval = 0
      BY <3>0, ModStep
    <3>2. /\ samples' = s + 1 /\ greeks'.atm_quote_count = q + 1
          /\ greeks'.atm_sample_counter % iv_sample_interval = 0
      BY <2>4, <2>6, <2>8, <3>1, <1>s, SamplingTypes DEF one_if
    <3>3. /\ (s + 1) * i >= (q + 1) + (i - 1)
          /\ (s + 1) * i <= (q + 1) + (i - 1) + d * (i - 1)
      BY <1>b, <2>8, SamplingBounds
    <3>4. to_sample' = i - 1
      BY <3>2, <1>i DEF to_sample
    <3> QED
      BY <3>2, <3>3, <3>4, <2>2, <2>3, <1>i DEF SamplingInv
  <2>9. CASE candidate(event) /\ r # i - 1
    <3>1. /\ (greeks.atm_sample_counter + 1) % iv_sample_interval # 0
          /\ (greeks.atm_sample_counter + 1) % iv_sample_interval = r + 1
      BY <2>9, <1>i, <1>s, SamplingTypes, ModStep
    <3>2. /\ samples' = s /\ greeks'.atm_quote_count = q + 1
          /\ greeks'.atm_sample_counter % iv_sample_interval = r + 1
      BY <2>4, <2>6, <2>9, <3>1, <1>s, SamplingTypes DEF one_if
    <3>3. /\ s * i >= (q + 1) + (i - 1 - (r + 1))
          /\ s * i <= (q + 1) + (i - 1 - (r + 1)) + d * (i - 1)
      BY <1>b, <2>9, SamplingBounds
    <3>4. to_sample' = i - 1 - (r + 1)
      BY <3>2, <1>i DEF to_sample
    <3> QED
      BY <3>2, <3>3, <3>4, <2>2, <2>3, <1>i DEF SamplingInv
  <2> QED
    BY <2>7, <2>8, <2>9
<1>2. CASE EndOfDay
  <2>1. stage = "in_day" /\ stage' = "closed" /\ days' = days + 1
    BY <1>2, StageSteps
  <2>2. greeks'.atm_sample_counter = greeks.atm_sample_counter
    BY <1>2, SamplingTypes DEF EndOfDay, Greeks!end_of_day, Greeks!State
  <2>3. /\ samples' = samples /\ greeks'.atm_quote_count = greeks.atm_quote_count
        /\ days_reset' = days_reset /\ days' > 0
    BY <1>2, <2>1, RunTotalsKept, SamplingTypes DEF samples, days_reset
  <2> QED
    BY <2>1, <2>2, <2>3 DEF SamplingInv, to_sample
<1>3. CASE ResetDay
  <2>1. stage = "closed" /\ stage' = "idle" /\ days' = days
    BY <1>3, StageSteps
  <2>2. greeks'.atm_sample_counter = i - 1
    BY <1>3, <1>i, SamplingTypes DEF ResetDay, Greeks!reset_day, Greeks!State
  <2>3. samples' = s /\ greeks'.atm_quote_count = q /\ days_reset' = d + 1
    BY <1>3, <1>s, <2>1, RunTotalsKept, SamplingTypes DEF samples, days_reset
  <2>4. to_sample' = 0
    BY <1>i, <1>k, <2>2 DEF to_sample
  <2>5. s * i >= q /\ s * i <= q + (d + 1) * (i - 1)
    BY <1>b, SamplingBounds
  <2> QED
    BY <1>i, <2>1, <2>2, <2>3, <2>4, <2>5 DEF SamplingInv
<1>4. CASE BeginDay \/ Finalize \/ UNCHANGED vars
  <2>1. /\ stage' = "closed" <=> stage = "closed"
        /\ stage' \in {"idle", "finalized"} => stage \in {"idle", "finalized"}
    BY <1>4, StageSteps
  <2>2. samples' = samples /\ greeks'.atm_quote_count = greeks.atm_quote_count
    BY <1>4, RunTotalsKept DEF samples
  <2>3. greeks'.atm_sample_counter = greeks.atm_sample_counter /\ days' = days
    BY <1>4, DayKept
  <2> QED
    BY <2>1, <2>2, <2>3 DEF SamplingInv, to_sample, days_reset
<1> QED
  BY <1>1, <1>2, <1>3, <1>4 DEF Next

LEMMA SamplingFollows == Typed /\ SamplingInv => IvIsSampled
<1> SUFFICES ASSUME Typed, SamplingInv PROVE IvIsSampled
  OBVIOUS
<1>i. PICK i \in Nat \ {0} : i = iv_sample_interval
  BY TrackerSetAssumption
<1>s. PICK s \in Nat, q \in Nat, r \in 0..(i - 1), d \in Nat :
        /\ s = samples /\ q = greeks.atm_quote_count
        /\ r = greeks.atm_sample_counter % iv_sample_interval /\ d = days_reset
  BY <1>i, SamplingTypes
<1>b. s * i >= q + (i - 1 - r) /\ s * i <= q + (i - 1 - r) + d * (i - 1)
  BY <1>i, <1>s DEF SamplingInv, to_sample
<1>1. s * i >= q /\ s * i <= q + (d + 1) * (i - 1)
  BY <1>b, SamplingBounds
<1>2. CASE stage = "in_day"
  <2>1. days + one_if(stage = "in_day") = d + 1
    BY <1>2, <1>s DEF one_if, days_reset
  <2> QED
    BY <1>i, <1>s, <1>1, <2>1 DEF IvIsSampled
<1>3. CASE stage = "closed"
  <2>1. days + one_if(stage = "in_day") = d + 1
    BY <1>3, <1>s, SamplingTypes DEF one_if, days_reset
  <2> QED
    BY <1>i, <1>s, <1>1, <2>1 DEF IvIsSampled
<1>4. CASE stage \in {"idle", "finalized"}
  <2>1. r = i - 1
    BY <1>4, <1>i, <1>s, LastRemainder DEF SamplingInv
  <2>2. days + one_if(stage = "in_day") = d
    BY <1>4, <1>s, SamplingTypes DEF one_if, days_reset
  <2>3. s * i <= q + d * (i - 1)
    BY <1>b, <2>1
  <2> QED
    BY <1>i, <1>s, <1>1, <2>2, <2>3 DEF IvIsSampled
<1> QED
  BY <1>2, <1>3, <1>4 DEF Typed, TypeOK, Caller!Stages

(* No quote is lost to the sampling, and no day samples more often than    *)
(* its interval says.                                                      *)
THEOREM SamplingCorrect == Spec => []IvIsSampled
  BY InitTyped, StepTyped, InitSampling, StepSampling, SamplingFollows, PTL DEF Spec
-----------------------------------------------------------------------------
(* Where a sequence has an element of A.                                   *)
positions(s, A) == {k \in DOMAIN s : s[k] \in A}

(* The mid at the first and at the last of the positions Q, or NaN.        *)
first_in(s, Q) ==
  IF Q = {} THEN NaN ELSE option_mid(s[CHOOSE k \in Q : \A j \in Q : k <= j])
last_in(s, Q) ==
  IF Q = {} THEN NaN ELSE option_mid(s[CHOOSE k \in Q : \A j \in Q : k >= j])

(* The sets of events the per-day accumulators are about.                  *)
Trades     == {event \in Event : is_trade(event)}
Traded     == {event \in Event : traded(event)}
ZeroDteAtm == {event \in Event : zero_dte_atm(event)}
Candidates == {event \in Event : Greeks!qualifies(event)}
Mids(type) ==
  {event \in Event : PremiumDecay!qualifies(event) /\ event.contract_type = type}

LEMMA PositionsAppend ==
  ASSUME NEW s \in Seq(Event), NEW event \in Event, NEW A
  PROVE  /\ positions(s, A) \in SUBSET (1..Len(s)) /\ IsFiniteSet(positions(s, A))
         /\ Len(s) \in Nat /\ Append(s, event) \in Seq(Event)
         /\ Len(Append(s, event)) = Len(s) + 1
         /\ Append(s, event)[Len(s) + 1] = event
         /\ \A k \in 1..Len(s) : Append(s, event)[k] = s[k]
         /\ event \in A
              => positions(Append(s, event), A) = positions(s, A) \cup {Len(s) + 1}
         /\ event \notin A => positions(Append(s, event), A) = positions(s, A)
<1>1. Len(s) \in Nat /\ DOMAIN s = 1..Len(s)
  OBVIOUS
<1>2. positions(s, A) \in SUBSET (1..Len(s))
  BY <1>1 DEF positions
<1>3. IsFiniteSet(positions(s, A))
  <2>1. IsFiniteSet(1..Len(s))
    BY <1>1, FS_Interval
  <2> QED
    BY <1>2, <2>1, FS_Subset
<1>4. /\ Append(s, event) \in Seq(Event) /\ Len(Append(s, event)) = Len(s) + 1
      /\ DOMAIN Append(s, event) = 1..(Len(s) + 1)
      /\ Append(s, event)[Len(s) + 1] = event
      /\ \A k \in 1..Len(s) : Append(s, event)[k] = s[k]
  OBVIOUS
<1>5. event \in A => positions(Append(s, event), A) = positions(s, A) \cup {Len(s) + 1}
  BY <1>1, <1>4 DEF positions
<1>6. event \notin A => positions(Append(s, event), A) = positions(s, A)
  BY <1>1, <1>4 DEF positions
<1> QED
  BY <1>1, <1>2, <1>3, <1>4, <1>5, <1>6

(* An event is one more of its kind.                                       *)
LEMMA NumberAppend ==
  ASSUME NEW s \in Seq(Event), NEW event \in Event, NEW A
  PROVE  /\ Cardinality(positions(s, A)) \in Nat
         /\ Cardinality(positions(Append(s, event), A)) =
              Cardinality(positions(s, A)) + one_if(event \in A)
<1>1. IsFiniteSet(positions(s, A)) /\ Len(s) + 1 \notin positions(s, A)
  BY PositionsAppend
<1>2. Cardinality(positions(s, A)) \in Nat
  BY <1>1, FS_CardinalityType
<1>3. CASE event \in A
  <2>1. positions(Append(s, event), A) = positions(s, A) \cup {Len(s) + 1}
    BY <1>3, PositionsAppend
  <2>2. Cardinality(positions(s, A) \cup {Len(s) + 1}) = Cardinality(positions(s, A)) + 1
    BY <1>1, FS_AddElement
  <2> QED
    BY <1>2, <1>3, <2>1, <2>2 DEF one_if
<1>4. CASE event \notin A
  BY <1>2, <1>4, PositionsAppend DEF one_if
<1> QED
  BY <1>2, <1>3, <1>4

(* Positions have a first and a last one, if there is any.                 *)
bounded(Q) ==
  Q # {} => /\ \E k \in Q : \A j \in Q : k <= j
            /\ \E k \in Q : \A j \in Q : k >= j

LEMMA BoundedAppend ==
  ASSUME NEW s \in Seq(Event), NEW event \in Event, NEW A, bounded(positions(s, A))
  PROVE  bounded(positions(Append(s, event), A))
<1>1. /\ positions(s, A) \in SUBSET (1..Len(s)) /\ Len(s) \in Nat
      /\ event \in A => positions(Append(s, event), A) = positions(s, A) \cup {Len(s) + 1}
      /\ event \notin A => positions(Append(s, event), A) = positions(s, A)
  BY PositionsAppend
<1>2. PICK Q \in SUBSET (1..Len(s)), n \in Nat : Q = positions(s, A) /\ n = Len(s)
  BY <1>1
<1>3. bounded(Q)
  BY <1>2
<1>4. bounded(Q \cup {n + 1})
  <2>1. \A j \in Q \cup {n + 1} : j \in Nat /\ n + 1 >= j
    BY <1>2
  <2>2. CASE Q = {}
    BY <2>1, <2>2 DEF bounded
  <2>3. CASE Q # {}
    <3>1. PICK k \in Q : \A j \in Q : k <= j
      BY <1>3, <2>3 DEF bounded
    <3>2. \A j \in Q \cup {n + 1} : k <= j
      BY <2>1, <3>1
    <3> QED
      BY <2>1, <3>1, <3>2 DEF bounded
  <2> QED
    BY <2>2, <2>3
<1> QED
  BY <1>1, <1>2, <1>3, <1>4

(* What the choice of the first and of the last position comes to.         *)
LEMMA FirstIs ==
  ASSUME NEW s, NEW Q \in SUBSET Nat, NEW k \in Q, \A j \in Q : k <= j
  PROVE  first_in(s, Q) = option_mid(s[k])
<1> DEFINE c == CHOOSE m \in Q : \A j \in Q : m <= j
<1>1. c \in Q /\ \A j \in Q : c <= j
  OBVIOUS
<1> HIDE DEF c
<1>2. c \in Nat /\ k \in Nat /\ c <= k /\ k <= c
  BY <1>1
<1>3. c = k
  BY <1>2
<1>4. Q # {}
  OBVIOUS
<1> QED
  BY <1>3, <1>4 DEF first_in, c

LEMMA LastIs ==
  ASSUME NEW s, NEW Q \in SUBSET Nat, NEW k \in Q, \A j \in Q : k >= j
  PROVE  last_in(s, Q) = option_mid(s[k])
<1> DEFINE c == CHOOSE m \in Q : \A j \in Q : m >= j
<1>1. c \in Q /\ \A j \in Q : c >= j
  OBVIOUS
<1> HIDE DEF c
<1>2. c \in Nat /\ k \in Nat /\ c >= k /\ k >= c
  BY <1>1
<1>3. c = k
  BY <1>2
<1>4. Q # {}
  OBVIOUS
<1> QED
  BY <1>3, <1>4 DEF last_in, c

LEMMA FirstAppend ==
  ASSUME NEW s \in Seq(Event), NEW event \in Event, NEW A, bounded(positions(s, A))
  PROVE  first_in(Append(s, event), positions(Append(s, event), A)) =
           IF positions(s, A) # {} THEN first_in(s, positions(s, A))
           ELSE IF event \in A THEN option_mid(event) ELSE NaN
<1>1. /\ positions(s, A) \in SUBSET (1..Len(s)) /\ Len(s) \in Nat
      /\ Append(s, event)[Len(s) + 1] = event
      /\ \A k \in 1..Len(s) : Append(s, event)[k] = s[k]
      /\ event \in A => positions(Append(s, event), A) = positions(s, A) \cup {Len(s) + 1}
      /\ event \notin A => positions(Append(s, event), A) = positions(s, A)
  BY PositionsAppend
<1>a. positions(Append(s, event), A) \in SUBSET Nat
  BY <1>1
<1> DEFINE Q == positions(s, A)
           P == positions(Append(s, event), A)
           t == Append(s, event)
           n == Len(s)
<1>2. /\ Q \in SUBSET (1..n) /\ Q \in SUBSET Nat /\ P \in SUBSET Nat /\ n \in Nat
      /\ t[n + 1] = event /\ bounded(Q)
      /\ \A k \in 1..n : t[k] = s[k]
      /\ event \in A => P = Q \cup {n + 1}
      /\ event \notin A => P = Q
  BY <1>1, <1>a
<1> HIDE DEF Q, P, t, n
<1>3. CASE Q # {}
  <2>1. PICK k \in Q : \A j \in Q : k <= j
    BY <1>2, <1>3 DEF bounded
  <2>2. k \in P /\ \A j \in P : k <= j
    BY <1>2, <2>1
  <2>3. first_in(t, P) = option_mid(t[k]) /\ first_in(s, Q) = option_mid(s[k])
    BY <1>2, <2>1, <2>2, FirstIs
  <2>4. t[k] = s[k]
    BY <1>2, <2>1
  <2> QED
    BY <1>3, <2>3, <2>4 DEF P, Q, t
<1>4. CASE Q = {} /\ event \in A
  <2>1. P = {n + 1}
    BY <1>2, <1>4
  <2>2. first_in(t, P) = option_mid(t[n + 1])
    BY <1>2, <2>1, FirstIs
  <2> QED
    BY <1>2, <1>4, <2>2 DEF P, Q, t
<1>5. CASE Q = {} /\ event \notin A
  BY <1>2, <1>5 DEF first_in, P, Q, t
<1> QED
  BY <1>3, <1>4, <1>5

LEMMA LastAppend ==
  ASSUME NEW s \in Seq(Event), NEW event \in Event, NEW A, bounded(positions(s, A))
  PROVE  last_in(Append(s, event), positions(Append(s, event), A)) =
           IF event \in A THEN option_mid(event) ELSE last_in(s, positions(s, A))
<1>1. /\ positions(s, A) \in SUBSET (1..Len(s)) /\ Len(s) \in Nat
      /\ Append(s, event)[Len(s) + 1] = event
      /\ \A k \in 1..Len(s) : Append(s, event)[k] = s[k]
      /\ event \in A => positions(Append(s, event), A) = positions(s, A) \cup {Len(s) + 1}
      /\ event \notin A => positions(Append(s, event), A) = positions(s, A)
  BY PositionsAppend
<1>a. positions(Append(s, event), A) \in SUBSET Nat
  BY <1>1
<1> DEFINE Q == positions(s, A)
           P == positions(Append(s, event), A)
           t == Append(s, event)
           n == Len(s)
<1>2. /\ Q \in SUBSET (1..n) /\ Q \in SUBSET Nat /\ P \in SUBSET Nat /\ n \in Nat
      /\ t[n + 1] = event /\ bounded(Q)
      /\ \A k \in 1..n : t[k] = s[k]
      /\ event \in A => P = Q \cup {n + 1}
      /\ event \notin A => P = Q
  BY <1>1, <1>a
<1> HIDE DEF Q, P, t, n
<1>3. CASE event \in A
  <2>1. n + 1 \in P /\ \A j \in P : n + 1 >= j
    BY <1>2, <1>3
  <2>2. last_in(t, P) = option_mid(t[n + 1])
    BY <1>2, <2>1, LastIs
  <2> QED
    BY <1>2, <1>3, <2>2 DEF P, t
<1>4. CASE event \notin A /\ Q # {}
  <2>1. PICK k \in Q : \A j \in Q : k >= j
    BY <1>2, <1>4 DEF bounded
  <2>2. P = Q /\ t[k] = s[k]
    BY <1>2, <1>4, <2>1
  <2>3. last_in(t, P) = option_mid(t[k]) /\ last_in(s, Q) = option_mid(s[k])
    BY <1>2, <2>1, <2>2, LastIs
  <2> QED
    BY <1>4, <2>2, <2>3 DEF P, Q, t
<1>5. CASE event \notin A /\ Q = {}
  BY <1>2, <1>5 DEF last_in, P, Q, t
<1> QED
  BY <1>3, <1>4, <1>5
-----------------------------------------------------------------------------
(* DayStateIsOfToday, said of the positions of events in today.            *)
DayStateByPosition ==
  /\ quality.day_events = Len(today) /\ Len(today) = pending
  /\ quality.day_trades = Cardinality(positions(today, Trades))
  /\ quality.unique_contracts_day = {today[k].instrument_id : k \in DOMAIN today}
  /\ volume.day_trades = Cardinality(positions(today, Traded))
  /\ zero_dte.day_0dte_atm_events = Cardinality(positions(today, ZeroDteAtm))
  /\ premium_decay.day_first_call_mid = first_in(today, positions(today, Mids("call")))
  /\ premium_decay.day_last_call_mid = last_in(today, positions(today, Mids("call")))
  /\ premium_decay.day_first_put_mid = first_in(today, positions(today, Mids("put")))
  /\ premium_decay.day_last_put_mid = last_in(today, positions(today, Mids("put")))
  /\ greeks.atm_sample_counter =
       iv_sample_interval - 1 + Cardinality(positions(today, Candidates))

LEMMA DayStateAs == today \in Seq(Event) => (DayStateByPosition <=> DayStateIsOfToday)
<1> SUFFICES ASSUME today \in Seq(Event) PROVE DayStateByPosition <=> DayStateIsOfToday
  OBVIOUS
<1>1. \A k \in DOMAIN today : today[k] \in Event
  OBVIOUS
<1>2. /\ {k \in DOMAIN today : is_trade(today[k])} = positions(today, Trades)
      /\ {k \in DOMAIN today : traded(today[k])} = positions(today, Traded)
      /\ {k \in DOMAIN today : zero_dte_atm(today[k])} = positions(today, ZeroDteAtm)
      /\ {k \in DOMAIN today : Greeks!qualifies(today[k])} = positions(today, Candidates)
  BY <1>1 DEF positions, Trades, Traded, ZeroDteAtm, Candidates
<1>3. /\ Numbered(is_trade) = Cardinality(positions(today, Trades))
      /\ Numbered(traded) = Cardinality(positions(today, Traded))
      /\ Numbered(zero_dte_atm) = Cardinality(positions(today, ZeroDteAtm))
      /\ Numbered(Greeks!qualifies) = Cardinality(positions(today, Candidates))
  BY <1>2 DEF Numbered
<1>4. ASSUME NEW type
      PROVE  /\ FirstMid(type) = first_in(today, positions(today, Mids(type)))
             /\ LastMid(type) = last_in(today, positions(today, Mids(type)))
  <2>1. {k \in DOMAIN today : PremiumDecay!qualifies(today[k])
                                /\ today[k].contract_type = type}
          = positions(today, Mids(type))
    BY <1>1 DEF positions, Mids
  <2>2. /\ FirstMid(type) =
             first_in(today, {k \in DOMAIN today : PremiumDecay!qualifies(today[k])
                                                     /\ today[k].contract_type = type})
        /\ LastMid(type) =
             last_in(today, {k \in DOMAIN today : PremiumDecay!qualifies(today[k])
                                                    /\ today[k].contract_type = type})
    BY Zenon DEF FirstMid, LastMid, first_in, last_in
  <2> QED
    BY <2>1, <2>2
<1> QED
  BY <1>3, <1>4 DEF DayStateByPosition, DayStateIsOfToday

(* Mids, where there are any, have a first and a last position.            *)
TodayInv ==
  /\ DayStateByPosition
  /\ bounded(positions(today, Mids("call"))) /\ bounded(positions(today, Mids("put")))

LEMMA NoPositions ==
  ASSUME NEW A
  PROVE  /\ positions(<< >>, A) = {} /\ Cardinality(positions(<< >>, A)) = 0
         /\ bounded(positions(<< >>, A))
         /\ first_in(<< >>, positions(<< >>, A)) = NaN
         /\ last_in(<< >>, positions(<< >>, A)) = NaN
<1>1. positions(<< >>, A) = {}
  BY DEF positions
<1> QED
  BY <1>1, FS_EmptySet DEF bounded, first_in, last_in

LEMMA InitToday == Init => TodayInv
<1> SUFFICES ASSUME Init PROVE TodayInv
  OBVIOUS
<1>1. today = << >> /\ pending = 0 /\ Len(today) = 0
  BY DEF Init, Caller!Init
<1>2. quality.day_events = 0 /\ quality.day_trades = 0 /\ quality.unique_contracts_day = {}
  BY DEF Init, Quality!Init, Quality!new
<1>3. volume.day_trades = 0
  BY DEF Init, Volume!Init, Volume!new
<1>4. zero_dte.day_0dte_atm_events = 0
  BY DEF Init, ZeroDte!Init, ZeroDte!new
<1>5. /\ premium_decay.day_first_call_mid = NaN /\ premium_decay.day_last_call_mid = NaN
      /\ premium_decay.day_first_put_mid = NaN /\ premium_decay.day_last_put_mid = NaN
  BY DEF Init, PremiumDecay!Init, PremiumDecay!new, PremiumDecay!None, PremiumDecay!NaN, NaN
<1>6. greeks.atm_sample_counter = iv_sample_interval - 1 + 0
  BY TrackerSetAssumption DEF Init, Greeks!Init, Greeks!new
<1>7. {today[k].instrument_id : k \in DOMAIN today} = {}
  BY <1>1
<1> QED
  BY <1>1, <1>2, <1>3, <1>4, <1>5, <1>6, <1>7, NoPositions DEF TodayInv, DayStateByPosition

(* Each event is in the sets the trackers count it for.                    *)
LEMMA EventKinds ==
  ASSUME NEW event \in Event
  PROVE  /\ event \in Trades <=> is_trade(event)
         /\ event \in Traded <=> traded(event)
         /\ event \in ZeroDteAtm <=> zero_dte_atm(event)
         /\ event \in Candidates <=> candidate(event)
         /\ event \in Mids("call")
              <=> zero_dte_atm(event) /\ has_valid_bbo(event) /\ is_call(event)
         /\ event \in Mids("put")
              <=> zero_dte_atm(event) /\ has_valid_bbo(event) /\ ~is_call(event)
  BY EventFacts, GreeksQualifies, PremiumDecayQualifies
     DEF Trades, Traded, ZeroDteAtm, Candidates, Mids, is_call

(* The first mid is missing exactly before the first event that has one.   *)
LEMMA FirstMidMissing ==
  ASSUME NEW s \in Seq(Event), NEW type \in {"call", "put"}, bounded(positions(s, Mids(type)))
  PROVE  first_in(s, positions(s, Mids(type))) = NaN <=> positions(s, Mids(type)) = {}
<1>1. CASE positions(s, Mids(type)) = {}
  BY <1>1 DEF first_in
<1>2. CASE positions(s, Mids(type)) # {}
  <2>1. PICK k \in positions(s, Mids(type)) : \A j \in positions(s, Mids(type)) : k <= j
    BY <1>2 DEF bounded
  <2>2. positions(s, Mids(type)) \in SUBSET Nat
    BY DEF positions
  <2>3. first_in(s, positions(s, Mids(type))) = option_mid(s[k])
    BY <2>1, <2>2, FirstIs
  <2>4. s[k] \in Event /\ PremiumDecay!qualifies(s[k])
    BY <2>1 DEF positions, Mids
  <2>5. option_mid(s[k]) # NaN
    BY <2>4, PremiumDecayQualifies, ValidBBO
  <2> QED
    BY <1>2, <2>3, <2>5
<1> QED
  BY <1>1, <1>2

LEMMA StepToday == Typed /\ TodayInv /\ [Next]_vars => TodayInv'
<1> SUFFICES ASSUME Typed, TodayInv, [Next]_vars PROVE TodayInv'
  OBVIOUS
<1>a. /\ quality \in Quality!State /\ zero_dte \in ZeroDte!State
      /\ premium_decay \in PremiumDecay!State /\ volume \in Volume!State
      /\ greeks \in Greeks!State /\ today \in Seq(Event) /\ pending \in Nat
      /\ IsFiniteSet(quality.unique_contracts_day)
  BY DEF Typed, TypeOK
<1>1. CASE ProcessEvent
  <2>1. PICK event \in Event : Process(event)
    BY <1>1, ProcessesAnEvent
  <2>2. today' = Append(today, event) /\ pending' = pending + 1
    BY <1>1, <2>1 DEF Process, ProcessEvent, Caller!ProcessEvent
  <2>k. /\ one_if(event \in Trades) = one_if(is_trade(event))
        /\ one_if(event \in Traded) = one_if(traded(event))
        /\ one_if(event \in ZeroDteAtm) = one_if(zero_dte_atm(event))
        /\ one_if(event \in Candidates) = one_if(candidate(event))
    BY EventKinds DEF one_if
  <2>3. /\ quality'.day_events = quality.day_events + 1
        /\ quality'.day_trades = quality.day_trades + one_if(event \in Trades)
        /\ quality'.unique_contracts_day =
             quality.unique_contracts_day \cup {event.instrument_id}
    BY <1>a, <2>1, <2>k, QualityProcess DEF Process
  <2>4. /\ volume'.day_trades = volume.day_trades + one_if(event \in Traded)
        /\ zero_dte'.day_0dte_atm_events =
             zero_dte.day_0dte_atm_events + one_if(event \in ZeroDteAtm)
        /\ greeks'.atm_sample_counter =
             greeks.atm_sample_counter + one_if(event \in Candidates)
    BY <1>a, <2>1, <2>k, VolumeProcess, ZeroDteProcess, GreeksProcess DEF Process
  <2>5. /\ premium_decay'.day_first_call_mid =
             IF event \in Mids("call") /\ premium_decay.day_first_call_mid = NaN
             THEN option_mid(event) ELSE premium_decay.day_first_call_mid
        /\ premium_decay'.day_first_put_mid =
             IF event \in Mids("put") /\ premium_decay.day_first_put_mid = NaN
             THEN option_mid(event) ELSE premium_decay.day_first_put_mid
        /\ premium_decay'.day_last_call_mid =
             IF event \in Mids("call")
             THEN option_mid(event) ELSE premium_decay.day_last_call_mid
        /\ premium_decay'.day_last_put_mid =
             IF event \in Mids("put")
             THEN option_mid(event) ELSE premium_decay.day_last_put_mid
    BY <1>a, <2>1, PremiumDecayProcess, EventKinds DEF Process
  <2>6. quality'.day_events = Len(today') /\ Len(today') = pending'
    BY <1>a, <2>2, <2>3 DEF TodayInv, DayStateByPosition
  <2>7. quality'.unique_contracts_day = {today'[k].instrument_id : k \in DOMAIN today'}
    <3>1. quality.unique_contracts_day = {today[k].instrument_id : k \in DOMAIN today}
      BY DEF TodayInv, DayStateByPosition
    <3>2. /\ DOMAIN today' = DOMAIN today \cup {Len(today) + 1}
          /\ today'[Len(today) + 1] = event
          /\ \A k \in DOMAIN today : today'[k] = today[k]
      BY <1>a, <2>2
    <3> QED
      BY <2>3, <3>1, <3>2
  <2>8. /\ quality'.day_trades = Cardinality(positions(today', Trades))
        /\ volume'.day_trades = Cardinality(positions(today', Traded))
        /\ zero_dte'.day_0dte_atm_events = Cardinality(positions(today', ZeroDteAtm))
    BY <1>a, <2>2, <2>3, <2>4, NumberAppend DEF TodayInv, DayStateByPosition
  <2>9. greeks'.atm_sample_counter =
          iv_sample_interval - 1 + Cardinality(positions(today', Candidates))
    <3>1. PICK i \in Nat, n \in Nat, m \in Nat :
            /\ i = iv_sample_interval /\ n = Cardinality(positions(today, Candidates))
            /\ m = one_if(event \in Candidates)
      BY <1>a, NumberAppend, TrackerSetAssumption, OneIf
    <3>2. /\ greeks.atm_sample_counter = i - 1 + n
          /\ greeks'.atm_sample_counter = greeks.atm_sample_counter + m
          /\ Cardinality(positions(today', Candidates)) = n + m
      BY <1>a, <2>2, <2>4, <3>1, NumberAppend DEF TodayInv, DayStateByPosition
    <3> QED
      BY <3>1, <3>2
  <2>10. ASSUME NEW type \in {"call", "put"}, bounded(positions(today, Mids(type)))
         PROVE  /\ bounded(positions(today', Mids(type)))
                /\ first_in(today', positions(today', Mids(type))) =
                     IF event \in Mids(type)
                          /\ first_in(today, positions(today, Mids(type))) = NaN
                     THEN option_mid(event)
                     ELSE first_in(today, positions(today, Mids(type)))
                /\ last_in(today', positions(today', Mids(type))) =
                     IF event \in Mids(type) THEN option_mid(event)
                     ELSE last_in(today, positions(today, Mids(type)))
    <3>1. bounded(positions(today', Mids(type)))
      BY <1>a, <2>2, <2>10, BoundedAppend
    <3>2. last_in(today', positions(today', Mids(type))) =
            IF event \in Mids(type) THEN option_mid(event)
            ELSE last_in(today, positions(today, Mids(type)))
      BY <1>a, <2>2, <2>10, LastAppend
    <3>3. first_in(today', positions(today', Mids(type))) =
            IF positions(today, Mids(type)) # {}
            THEN first_in(today, positions(today, Mids(type)))
            ELSE IF event \in Mids(type) THEN option_mid(event) ELSE NaN
      BY <1>a, <2>2, <2>10, FirstAppend
    <3>4. first_in(today, positions(today, Mids(type))) = NaN
            <=> positions(today, Mids(type)) = {}
      BY <1>a, <2>10, FirstMidMissing
    <3> QED
      BY <3>1, <3>2, <3>3, <3>4
  <2>11. /\ bounded(positions(today', Mids("call"))) /\ bounded(positions(today', Mids("put")))
         /\ premium_decay'.day_first_call_mid =
              first_in(today', positions(today', Mids("call")))
         /\ premium_decay'.day_last_call_mid =
              last_in(today', positions(today', Mids("call")))
         /\ premium_decay'.day_first_put_mid =
              first_in(today', positions(today', Mids("put")))
         /\ premium_decay'.day_last_put_mid =
              last_in(today', positions(today', Mids("put")))
    BY <2>5, <2>10 DEF TodayInv, DayStateByPosition
  <2> QED
    BY <2>6, <2>7, <2>8, <2>9, <2>11 DEF TodayInv, DayStateByPosition
<1>2. CASE EndOfDay
  <2>1. today' = today /\ pending' = pending
    BY <1>2 DEF EndOfDay, Caller!EndOfDay
  <2>2. /\ quality'.day_events = quality.day_events
        /\ quality'.day_trades = quality.day_trades
        /\ quality'.unique_contracts_day = quality.unique_contracts_day
        /\ volume'.day_trades = volume.day_trades
        /\ zero_dte'.day_0dte_atm_events = zero_dte.day_0dte_atm_events
    BY <1>2, <1>a, QualityEndOfDay, VolumeEndOfDay, ZeroDteEndOfDay DEF EndOfDay
  <2>3. /\ premium_decay'.day_first_call_mid = premium_decay.day_first_call_mid
        /\ premium_decay'.day_last_call_mid = premium_decay.day_last_call_mid
        /\ premium_decay'.day_first_put_mid = premium_decay.day_first_put_mid
        /\ premium_decay'.day_last_put_mid = premium_decay.day_last_put_mid
    BY <1>2, <1>a DEF EndOfDay, PremiumDecay!end_of_day, PremiumDecay!State
  <2>4. greeks'.atm_sample_counter = greeks.atm_sample_counter
    BY <1>2, <1>a DEF EndOfDay, Greeks!end_of_day, Greeks!State
  <2> QED
    BY <2>1, <2>2, <2>3, <2>4 DEF TodayInv, DayStateByPosition
<1>3. CASE ResetDay
  <2>1. today' = << >> /\ pending' = 0 /\ Len(today') = 0
    BY <1>3 DEF ResetDay, Caller!ResetDay
  <2>2. /\ quality'.day_events = 0 /\ quality'.day_trades = 0
        /\ quality'.unique_contracts_day = {}
        /\ volume'.day_trades = 0
    BY <1>3, <1>a, QualityResetDay, VolumeResetDay DEF ResetDay
  <2>3. zero_dte'.day_0dte_atm_events = 0
    BY <1>3, <1>a DEF ResetDay, ZeroDte!reset_day, ZeroDte!State
  <2>4. /\ premium_decay'.day_first_call_mid = NaN /\ premium_decay'.day_last_call_mid = NaN
        /\ premium_decay'.day_first_put_mid = NaN /\ premium_decay'.day_last_put_mid = NaN
    BY <1>3, <1>a DEF ResetDay, PremiumDecay!reset_day, PremiumDecay!State,
       PremiumDecay!None, PremiumDecay!NaN, NaN
  <2>5. greeks'.atm_sample_counter = iv_sample_interval - 1 + 0
    BY <1>3, <1>a, TrackerSetAssumption DEF ResetDay, Greeks!reset_day, Greeks!State
  <2>6. {today'[k].instrument_id : k \in DOMAIN today'} = {}
    BY <2>1
  <2> QED
    BY <2>1, <2>2, <2>3, <2>4, <2>5, <2>6, NoPositions DEF TodayInv, DayStateByPosition
<1>4. CASE BeginDay \/ Finalize \/ UNCHANGED vars
  BY <1>4, DayKept DEF TodayInv, DayStateByPosition
<1> QED
  BY <1>1, <1>2, <1>3, <1>4 DEF Next

LEMMA TodayFollows == Typed /\ TodayInv => DayStateIsOfToday
  BY DayStateAs DEF Typed, TypeOK, TodayInv

(* The per-day state of every tracker is a function of the events of the   *)
(* day alone.                                                              *)
THEOREM DayStateCorrect == Spec => []DayStateIsOfToday
  BY InitTyped, StepTyped, InitToday, StepToday, TodayFollows, PTL DEF Spec
-----------------------------------------------------------------------------
LEMMA CandidatesNumbered ==
  today \in Seq(Event)
    => Numbered(Greeks!qualifies) = Cardinality(positions(today, Candidates))
<1> SUFFICES ASSUME today \in Seq(Event)
             PROVE  Numbered(Greeks!qualifies) = Cardinality(positions(today, Candidates))
  OBVIOUS
<1>1. {k \in DOMAIN today : Greeks!qualifies(today[k])} = positions(today, Candidates)
  BY DEF positions, Candidates
<1> QED
  BY <1>1 DEF Numbered

LEMMA StepSampled ==
  Typed /\ TodayInv /\ [Next]_vars
    => [ Numbered(Greeks!qualifies) = 0 /\ Numbered(Greeks!qualifies)' = 1
           => samples' = samples + 1 ]_vars
<1> SUFFICES ASSUME Typed, TodayInv, [Next]_vars, ~UNCHANGED vars,
                    Numbered(Greeks!qualifies) = 0, Numbered(Greeks!qualifies)' = 1
             PROVE  samples' = samples + 1
  OBVIOUS
<1>a. greeks \in Greeks!State /\ today \in Seq(Event) /\ Typed'
  BY StepTyped DEF Typed, TypeOK
<1>b. today' \in Seq(Event)
  BY <1>a DEF Typed, TypeOK
<1>1. Numbered(Greeks!qualifies) = Cardinality(positions(today, Candidates))
  BY <1>a, CandidatesNumbered
<1>2. (today \in Seq(Event)
        => Numbered(Greeks!qualifies) = Cardinality(positions(today, Candidates)))'
  BY CandidatesNumbered, PTL
<1>3. Numbered(Greeks!qualifies)' = Cardinality(positions(today', Candidates))
  BY <1>b, <1>2
<1>4. today' # today /\ today' # << >>
  BY <1>1, <1>3, NoPositions
<1>5. ProcessEvent
  BY <1>4 DEF Next, BeginDay, EndOfDay, ResetDay, Finalize
<1>6. PICK event \in Event : Process(event)
  BY <1>5, ProcessesAnEvent
<1>7. event \in Candidates
  <2>1. Cardinality(positions(today', Candidates)) =
          Cardinality(positions(today, Candidates)) + one_if(event \in Candidates)
    BY <1>a, <1>6, NumberAppend DEF Process
  <2> QED
    BY <1>1, <1>3, <2>1 DEF one_if
<1>8. (greeks.atm_sample_counter + 1) % iv_sample_interval = 0
  <2>1. PICK i \in Nat \ {0} : i = iv_sample_interval
    BY TrackerSetAssumption
  <2>2. greeks.atm_sample_counter + 1 = i
    BY <1>1, <2>1 DEF TodayInv, DayStateByPosition
  <2>3. i % i = 0
    OBVIOUS
  <2> QED
    BY <2>1, <2>2, <2>3
<1>9. candidate(event)
  BY <1>7, EventKinds
<1>10. PICK c \in {0, 1}, f \in {0, 1} :
         /\ c + f = one_if(/\ candidate(event)
                           /\ (greeks.atm_sample_counter + 1) % iv_sample_interval = 0)
         /\ greeks'.iv_computed = greeks.iv_computed + c
         /\ greeks'.iv_failed = greeks.iv_failed + f
  BY <1>a, <1>6, GreeksProcess DEF Process
<1>11. c + f = 1
  BY <1>8, <1>9, <1>10 DEF one_if
<1>12. greeks.iv_computed \in Nat /\ greeks.iv_failed \in Nat
  BY <1>a, GreeksTypes
<1> QED
  BY <1>10, <1>11, <1>12 DEF samples

(* The first qualifying quote of each day is sampled.                      *)
THEOREM FirstQuoteCorrect == Spec => FirstQuoteIsSampled
  BY InitTyped, StepTyped, InitToday, StepToday, StepSampled, PTL
     DEF Spec, FirstQuoteIsSampled
-----------------------------------------------------------------------------
(* One more in a cell is one more in the table.                            *)
LEMMA CellAdd ==
  ASSUME NEW f \in [Effective!Cell -> Nat], NEW c \in Effective!Cell
  PROVE  CellTotal([f EXCEPT ![c] = @ + 1]) = CellTotal(f) + 1
<1> DEFINE row(g, b) == [m \in Moneyness |-> g[<<b, m>>]]
           h == [f EXCEPT ![c] = @ + 1]
           tot(g) == [b \in DteBucket |-> MoneynessTotal(row(g, b))]
<1>1. PICK d \in DteBucket, n \in Moneyness : c = <<d, n>>
  BY DEF Effective!Cell, Effective!DteBucket, Effective!Moneyness, DteBucket, Moneyness
<1>2. \A b \in DteBucket, m \in Moneyness : <<b, m>> \in Effective!Cell
  BY DEF Effective!Cell, Effective!DteBucket, Effective!Moneyness, DteBucket, Moneyness
<1>3. \A b \in DteBucket : row(f, b) \in [Moneyness -> Nat]
  BY <1>2
<1>4. row(h, d) = [row(f, d) EXCEPT ![n] = @ + 1]
  BY <1>1, <1>2
<1>5. \A b \in DteBucket : b # d => row(h, b) = row(f, b)
  BY <1>1, <1>2
<1> HIDE DEF row
<1>6. MoneynessTotal(row(h, d)) = MoneynessTotal(row(f, d)) + 1
  BY <1>3, <1>4, MoneynessAdd
<1>7. \A b \in DteBucket : MoneynessTotal(row(f, b)) \in Nat
  BY <1>3, MoneynessAdd DEF Moneyness, MoneynessTotal
<1>8. tot(f) \in [DteBucket -> Nat]
  BY <1>7
<1>9. tot(h) = [tot(f) EXCEPT ![d] = @ + 1]
  BY <1>5, <1>6
<1>10. DteTotal(tot(h)) = DteTotal(tot(f)) + 1
  BY <1>8, <1>9, DteAdd
<1> QED
  BY <1>10 DEF CellTotal, row

(* What the trades of a cell paid is bounded by what they were quoted, and *)
(* bounds it, as far as no trade was made outside, or inside, the BBO.     *)
CellsInv ==
  LET eff    == effective_spread.effective_spread_by_dte_moneyness
      quot   == effective_spread.quoted_spread_by_dte_moneyness
      places == effective_spread.trades_bbo
  IN  /\ effective_spread.total_trades = CellTotal([c \in Effective!Cell |-> eff[c].count])
      /\ \A c \in Effective!Cell :
           /\ eff[c].count > 0 => quot[c].sum > 0
           /\ places["outside"] = 0 => eff[c].sum <= quot[c].sum
           /\ places["inside"] = 0 => eff[c].sum >= quot[c].sum

LEMMA InitCells == Init => CellsInv
<1> SUFFICES ASSUME Init PROVE CellsInv
  OBVIOUS
<1>1. \A c \in Effective!Cell :
        /\ effective_spread.effective_spread_by_dte_moneyness[c] = [count |-> 0, sum |-> 0]
        /\ effective_spread.quoted_spread_by_dte_moneyness[c] = [count |-> 0, sum |-> 0]
  BY DEF Init, Effective!Init, Effective!new, Effective!EmptyWelford
<1>2. effective_spread.total_trades = 0
  BY DEF Init, Effective!Init, Effective!new
<1>3. CellTotal([c \in Effective!Cell |-> 0]) = 0
  <2>1. \A b \in DteBucket, m \in Moneyness : [c \in Effective!Cell |-> 0][<<b, m>>] = 0
    BY DEF Effective!Cell, Effective!DteBucket, Effective!Moneyness, DteBucket, Moneyness
  <2> QED
    BY <2>1 DEF CellTotal, DteTotal, DteBucket, MoneynessTotal, Moneyness
<1>4. [c \in Effective!Cell |-> effective_spread.effective_spread_by_dte_moneyness[c].count]
        = [c \in Effective!Cell |-> 0]
  BY <1>1
<1> QED
  BY <1>1, <1>2, <1>3, <1>4 DEF CellsInv

LEMMA StepCells == Typed /\ CellsInv /\ [Next]_vars => CellsInv'
<1> SUFFICES ASSUME Typed, CellsInv, [Next]_vars PROVE CellsInv'
  OBVIOUS
<1>a. effective_spread \in Effective!State
  BY DEF Typed, TypeOK
<1>1. ASSUME NEW event \in Event, Process(event), priced(event)
      PROVE  CellsInv'
  <2>p. Effective!process_event(event)
    BY <1>1 DEF Process
  <2> DEFINE E == effective_spread.effective_spread_by_dte_moneyness
             Q == effective_spread.quoted_spread_by_dte_moneyness
             B == effective_spread.trades_bbo
             F == effective_spread'.effective_spread_by_dte_moneyness
             R == effective_spread'.quoted_spread_by_dte_moneyness
             C == effective_spread'.trades_bbo
             a == cell_of(event)
             paid == Effective!effective_spread(event)
             asked == Effective!quoted_spread(event)
             l == Effective!location(event)
  <2>1. /\ E \in [Effective!Cell -> Effective!Welford]
        /\ Q \in [Effective!Cell -> Effective!Welford]
        /\ B \in [Effective!Location -> Nat]
        /\ effective_spread.total_trades \in Nat
    BY <1>a, EffectiveTypes
  <2>2. /\ F = [E EXCEPT ![a] = [count |-> @.count + 1, sum |-> @.sum + paid]]
        /\ R = [Q EXCEPT ![a] = [count |-> @.count + 1, sum |-> @.sum + asked]]
        /\ C = [B EXCEPT ![l] = @ + 1]
        /\ effective_spread'.total_trades = effective_spread.total_trades + 1
    BY <1>1, <1>a, <2>p, EffectiveProcess DEF one_if
  <2>3. /\ l \in Effective!Location /\ paid \in Nat /\ asked \in Nat /\ asked > 0
        /\ l # "outside" => paid <= asked
        /\ l # "inside" => paid >= asked
    BY <1>1, SpreadPaid
  <2>4. a \in Effective!Cell
    BY EventFacts DEF cell_of, Effective!Cell, DteBucket, Effective!DteBucket, Moneyness,
       Effective!Moneyness
  <2>5. /\ effective_spread.total_trades = CellTotal([c \in Effective!Cell |-> E[c].count])
        /\ \A c \in Effective!Cell :
             /\ E[c].count > 0 => Q[c].sum > 0
             /\ B["outside"] = 0 => E[c].sum <= Q[c].sum
             /\ B["inside"] = 0 => E[c].sum >= Q[c].sum
    BY DEF CellsInv
  <2> HIDE DEF E, Q, B, F, R, C, a, paid, asked, l
  <2>6. effective_spread'.total_trades = CellTotal([c \in Effective!Cell |-> F[c].count])
    <3> DEFINE f == [c \in Effective!Cell |-> E[c].count]
               g == [c \in Effective!Cell |-> F[c].count]
    <3>1. f \in [Effective!Cell -> Nat]
      BY <2>1 DEF Effective!Welford
    <3>2. g = [f EXCEPT ![a] = @ + 1]
      BY <2>1, <2>2, <2>4
    <3>3. CellTotal(g) = CellTotal(f) + 1
      BY <2>4, <3>1, <3>2, CellAdd
    <3> QED
      BY <2>2, <2>5, <3>3
  <2>7. ASSUME NEW c \in Effective!Cell
        PROVE  /\ F[c].count > 0 => R[c].sum > 0
               /\ C["outside"] = 0 => F[c].sum <= R[c].sum
               /\ C["inside"] = 0 => F[c].sum >= R[c].sum
    <3>1. /\ B["outside"] \in Nat /\ B["inside"] \in Nat
          /\ C["outside"] = 0 => B["outside"] = 0 /\ l # "outside"
          /\ C["inside"] = 0 => B["inside"] = 0 /\ l # "inside"
      BY <2>1, <2>2, <2>3 DEF Effective!Location
    <3>2. E[c].sum \in Nat /\ Q[c].sum \in Nat
      BY <2>1 DEF Effective!Welford
    <3>3. CASE c # a
      <4>1. F[c] = E[c] /\ R[c] = Q[c]
        BY <2>1, <2>2, <3>3
      <4> QED
        BY <2>5, <3>1, <4>1
    <3>4. CASE c = a
      <4>1. F[c].sum = E[c].sum + paid /\ R[c].sum = Q[c].sum + asked
        BY <2>1, <2>2, <3>4
      <4> QED
        BY <2>3, <2>5, <3>1, <3>2, <4>1
    <3> QED
      BY <3>3, <3>4
  <2> QED
    BY <2>6, <2>7 DEF CellsInv, F, R, C
<1>2. CASE ProcessEvent
  <2>1. PICK event \in Event : Process(event)
    BY <1>2, ProcessesAnEvent
  <2>2. CASE ~priced(event)
    <3>1. effective_spread' = effective_spread
      BY <1>a, <2>1, <2>2, EffectiveProcess DEF Process
    <3> QED
      BY <3>1 DEF CellsInv
  <2> QED
    BY <1>1, <2>1, <2>2
<1>3. CASE BeginDay \/ EndOfDay \/ ResetDay \/ Finalize \/ UNCHANGED vars
  BY <1>3, RunTotalsKept DEF CellsInv
<1> QED
  BY <1>2, <1>3 DEF Next

LEMMA CellsFollow == Typed /\ CellsInv => CellsTellOfPlaces
<1> SUFFICES ASSUME Typed, CellsInv PROVE CellsTellOfPlaces
  OBVIOUS
<1>a. effective_spread \in Effective!State
  BY DEF Typed, TypeOK
<1> DEFINE E == effective_spread.effective_spread_by_dte_moneyness
           Q == effective_spread.quoted_spread_by_dte_moneyness
           B == effective_spread.trades_bbo
           cells == Effective!finalize.by_dte_moneyness
           rows == DOMAIN cells
<1>1. /\ E \in [Effective!Cell -> Effective!Welford]
      /\ Q \in [Effective!Cell -> Effective!Welford]
      /\ B \in [Effective!Location -> Nat]
  BY <1>a, EffectiveTypes
<1>2. /\ rows = {c \in Effective!Cell : E[c].count > 0}
      /\ \A c \in rows :
           /\ cells[c].count = E[c].count
           /\ cells[c].effective_vs_quoted_ratio =
                IF Q[c].sum > 0 THEN [num |-> E[c].sum, den |-> Q[c].sum] ELSE Effective!null
  BY DEF Effective!finalize, Effective!finalize_cell, Effective!listed_cells,
     Effective!effective_vs_quoted_ratio, Effective!quotient
<1>3. /\ Effective!finalize.all.trade_through_rate.num = 0 => B["outside"] = 0
      /\ Effective!finalize.all.price_improvement_rate.num = 0 => B["inside"] = 0
  <2>1. PICK i \in Nat, t \in Nat, o \in Nat : i = B["inside"] /\ t = B["at"] /\ o = B["outside"]
    BY <1>1 DEF Effective!Location
  <2>2. Effective!LocationTotal(B) = i + t + o
    BY <2>1 DEF Effective!LocationTotal
  <2> QED
    BY <2>1, <2>2 DEF Effective!finalize, Effective!finalize_location, Effective!rate
<1>4. Effective!finalize.total_trades = effective_spread.total_trades
  BY DEF Effective!finalize
<1>5. /\ effective_spread.total_trades = CellTotal([c \in Effective!Cell |-> E[c].count])
      /\ \A c \in Effective!Cell :
           /\ E[c].count > 0 => Q[c].sum > 0
           /\ B["outside"] = 0 => E[c].sum <= Q[c].sum
           /\ B["inside"] = 0 => E[c].sum >= Q[c].sum
  BY DEF CellsInv
<1> HIDE DEF E, Q, B, cells, rows
<1>6. [c \in Effective!Cell |-> IF c \in rows THEN cells[c].count ELSE 0]
        = [c \in Effective!Cell |-> E[c].count]
  <2>1. \A c \in Effective!Cell : E[c].count \in Nat
    BY <1>1 DEF Effective!Welford
  <2>2. ASSUME NEW c \in Effective!Cell
        PROVE  (IF c \in rows THEN cells[c].count ELSE 0) = E[c].count
    <3>1. CASE c \in rows
      BY <1>2, <3>1
    <3>2. CASE c \notin rows
      <4>1. PICK n \in Nat : n = E[c].count
        BY <2>1
      <4>2. ~(n > 0)
        BY <1>2, <3>2, <4>1
      <4>3. n = 0
        BY <4>2
      <4> QED
        BY <3>2, <4>1, <4>3
    <3> QED
      BY <3>1, <3>2
  <2> QED
    BY <2>2
<1>7. ASSUME NEW c \in rows
      PROVE  LET paid == cells[c].effective_vs_quoted_ratio
             IN  /\ paid.den > 0
                 /\ Effective!finalize.all.trade_through_rate.num = 0 => paid.num <= paid.den
                 /\ Effective!finalize.all.price_improvement_rate.num = 0
                      => paid.num >= paid.den
  <2>1. cells[c].effective_vs_quoted_ratio = [num |-> E[c].sum, den |-> Q[c].sum]
    BY <1>2, <1>5
  <2> QED
    BY <1>2, <1>3, <1>5, <2>1
<1> QED
  BY <1>4, <1>5, <1>6, <1>7 DEF CellsTellOfPlaces, cells, rows

(* The table of spreads and the places in the BBO tell the same story.     *)
THEOREM CellsCorrect == Spec => []CellsTellOfPlaces
  BY InitTyped, StepTyped, InitCells, StepCells, CellsFollow, PTL DEF Spec
=============================================================================
