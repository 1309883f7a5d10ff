---------------------------- MODULE OptionsEvent ----------------------------
(***************************************************************************)
(* The enriched event run() hands to every tracker (event.rs), how it is   *)
(* made from a record and its contract (profiler.rs), and the buckets the  *)
(* trackers sort it into (report_utils.rs).                                *)
(*                                                                         *)
(* A price is a number of ticks.  NaN, what price_or_nan() makes of a raw  *)
(* price that is not positive, is written 0: no tracker does arithmetic on *)
(* a price before it has tested that it is a number.                       *)
(***************************************************************************)
EXTENDS Integers

CONSTANTS
  Instruments,  \* instrument ids the contract map knows
  ContractOf,   \* instrument id -> its contract
  Records,      \* the records the loader yields for them
  SENTINEL_I64  \* the raw price that means undefined

Moneyness == {"deep_itm", "itm", "atm", "otm", "deep_otm"}

DteBucket == {"0dte", "1dte", "2_7dte", "other"}

ContractInfo == [contract_type : {"call", "put"}, expiration : Nat]

(* A record, with what the moneyness classifier makes of its contract at   *)
(* the underlying estimate of its time: "none" if that is not positive.    *)
Record ==
  [instrument_id : Instruments, action : {"T", "A", "M", "unavailable"},
   price : Int, size : Nat, bid_px : Int, ask_px : Int, bid_sz : Nat, ask_sz : Nat,
   classified : Moneyness \cup {"none"}]

ASSUME OptionsEventAssumption ==
  /\ ContractOf \in [Instruments -> ContractInfo]
  /\ Records \subseteq Record
  /\ SENTINEL_I64 \in Nat

Event ==
  [instrument_id : Instruments, contract_type : {"call", "put"},
   action : {"trade", "quote", "other"}, trade_price : Nat, trade_size : Nat,
   bid_px : Nat, ask_px : Nat, bid_sz : Nat, ask_sz : Nat,
   dte : Int, moneyness : Moneyness, underlying_positive : BOOLEAN]
-----------------------------------------------------------------------------
NaN == 0

is_finite(price) == price # NaN

price_or_nan(raw) == IF raw = SENTINEL_I64 \/ raw <= 0 THEN NaN ELSE raw

action_of(record) ==
  CASE record.action = "T" -> "trade"
    [] record.action = "A" -> "quote"
    [] OTHER -> "other"

trade_size(record) == IF action_of(record) = "trade" THEN record.size ELSE 0

moneyness_of(record) ==
  IF record.classified = "none" THEN "otm" ELSE record.classified

(* The event made of a record dispatched on trading_date.                  *)
enrich(record, trading_date) ==
  [instrument_id |-> record.instrument_id,
   contract_type |-> ContractOf[record.instrument_id].contract_type,
   action |-> action_of(record),
   trade_price |-> price_or_nan(record.price),
   trade_size |-> trade_size(record),
   bid_px |-> price_or_nan(record.bid_px),
   ask_px |-> price_or_nan(record.ask_px),
   bid_sz |-> record.bid_sz,
   ask_sz |-> record.ask_sz,
   dte |-> ContractOf[record.instrument_id].expiration - trading_date,
   moneyness |-> moneyness_of(record),
   underlying_positive |-> record.classified # "none"]
-----------------------------------------------------------------------------
is_trade(event) == event.action = "trade"
is_call(event) == event.contract_type = "call"
(* Fault: takes expired contracts for 0DTE                               *)
is_zero_dte_or_expired(event) == event.dte <= 0
is_zero_dte(event) == event.dte = 0
is_atm(event) == event.moneyness = "atm"

quoted(event) ==
  is_finite(event.bid_px) /\ is_finite(event.ask_px) /\ event.ask_px > event.bid_px

has_valid_bbo(event) == quoted(event) /\ event.bid_px > 0

(* Twice the mid, so that it stays a number of ticks.                      *)
option_mid(event) == IF quoted(event) THEN event.bid_px + event.ask_px ELSE NaN

spread(event) == IF quoted(event) THEN event.ask_px - event.bid_px ELSE NaN

spread_pct_is_finite(event) == is_finite(option_mid(event))

(* A trade of at least one contract, what most trackers call a trade.      *)
traded(event) == is_trade(event) /\ event.trade_size # 0

zero_dte_atm(event) == is_zero_dte(event) /\ is_atm(event)

dte_bucket(dte) ==
  CASE dte = 0 -> "0dte"
    [] dte = 1 -> "1dte"
    [] dte \in 2..7 -> "2_7dte"
    [] OTHER -> "other"

DteTotal(f) == f["0dte"] + f["1dte"] + f["2_7dte"] + f["other"]

MoneynessTotal(f) ==
  f["deep_itm"] + f["itm"] + f["atm"] + f["otm"] + f["deep_otm"]
=============================================================================
