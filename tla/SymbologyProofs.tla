---------------------------- MODULE SymbologyProofs ----------------------------
(***************************************************************************)
(* Proofs about Symbology, for all ids, symbologies and dates that keep    *)
(* what the data promise (SymbologyAssumption): a record is dispatched     *)
(* under the contract of its own day, and counting the ids of a day counts *)
(* its contracts.                                                          *)
(*                                                                         *)
(* The second rests on two facts: the ids the QualityTracker holds are     *)
(* those of today's records, each under the one contract today's map gives *)
(* it (TodayInv), and the map gives no contract to two ids                 *)
(* (OneContractOneId).                                                     *)
(***************************************************************************)
EXTENDS Symbology, FiniteSetTheorems, TLAPS

(* The contract map is that of the file and its date for the whole day.    *)
MapInv ==
  stage = "in_day" =>
    metadata \in Metadatas /\ contract_map = from_dbn_metadata(metadata, trading_date)

Typed ==
  /\ stage \in {"idle", "in_day", "closed"}
  /\ day \in Nat \ {0}
  /\ stage # "idle" => day \in DOMAIN Dates
  /\ quality \in Quality!State
  /\ IsFiniteSet(quality.unique_contracts_day)

(* Every record of the log has the date of an earlier day, or of today.    *)
DatesInv ==
  \A r \in log : \E k \in DOMAIN Dates :
    r.date = Dates[k] /\ k <= day /\ (stage = "idle" => k < day)

(* The day's ids are those of today's records, each under the contract the *)
(* map gives it.                                                           *)
TodayInv ==
  /\ stage = "idle" => quality.unique_contracts_day = {}
  /\ stage = "in_day" =>
       /\ \A r \in dispatched : r.date = trading_date =>
            /\ r.id \in quality.unique_contracts_day
            /\ r.id \in DOMAIN contract_map /\ r.contract = contract_map[r.id]
       /\ \A id \in quality.unique_contracts_day :
            /\ id \in DOMAIN contract_map
            /\ \E r \in dispatched :
                 r.date = trading_date /\ r.id = id /\ r.contract = contract_map[id]

(* The distinct contracts of each date.                                    *)
contracts_seen == {<<r.date, r.contract>> : r \in dispatched}

CountInv ==
  /\ IsFiniteSet(contracts_seen)
  /\ Cardinality(contracts_seen) = quality.contracts_per_day.sum + open_contracts

IInv == Typed /\ MapInv /\ DatesInv /\ TodayInv /\ CountInv /\ ContractOfItsDay

-----------------------------------------------------------------------------
(* What the contract map is made of                                        *)

(* Two mappings that hold on one date hold on the later of their firsts.   *)
LEMMA OneMapping ==
  ASSUME NEW file \in Metadatas, NEW date \in Nat,
         NEW m \in file.mappings, NEW n \in file.mappings,
         valid_on(m, date), valid_on(n, date),
         \/ m.id = n.id
         \/ /\ parse_occ_symbol(m.symbol) # None
            /\ parse_occ_symbol(m.symbol) = parse_occ_symbol(n.symbol)
  PROVE  m = n
<1>1. m \in Mapping /\ n \in Mapping /\ OneToOne(file)
  BY SymbologyAssumption DEF Metadata
<1>2. m.from \in Nat /\ m.until \in Nat /\ n.from \in Nat /\ n.until \in Nat
  BY <1>1 DEF Mapping
<1>3. \E d \in {m.from, n.from} : valid_on(m, d) /\ valid_on(n, d)
  <2>1. CASE m.from <= n.from
    <3>1. valid_on(m, n.from) /\ valid_on(n, n.from)
      BY <1>2, <2>1 DEF valid_on
    <3> QED
      BY <3>1
  <2>2. CASE n.from <= m.from
    <3>1. valid_on(m, m.from) /\ valid_on(n, m.from)
      BY <1>2, <2>2 DEF valid_on
    <3> QED
      BY <3>1
  <2> QED
    BY <1>2, <2>1, <2>2
<1> QED
  BY <1>1, <1>3 DEF OneToOne

(* A symbol parses exactly if it is of the form the OCC prescribes.        *)
LEMMA ParsesWellFormed ==
  ASSUME NEW symbol \in Symbol, parsed(symbol) # None
  PROVE  /\ parse_occ_symbol(symbol) # None <=> WellFormed(symbol)
         /\ WellFormed(symbol) => parse_occ_symbol(symbol) = parsed(symbol)
<1>1. symbol.length \in Nat /\ symbol.right \in {"C", "P", "?"}
  BY DEF Symbol
<1>2. symbol.length >= 15 /\ symbol.length - 13 >= 8 <=> symbol.length >= 6 + 6 + 1 + 8
  BY <1>1
<1>3. symbol.right \in {"C", "P"} <=> symbol.right # "?"
  BY <1>1
<1>4. parse_occ_symbol(symbol) = IF WellFormed(symbol) THEN parsed(symbol) ELSE None
  BY <1>2, <1>3 DEF parse_occ_symbol, WellFormed
<1> QED
  BY <1>4

(* The map has an id exactly if a mapping of the file gives it a           *)
(* well-formed symbol on the date, and then the contract of that symbol.   *)
LEMMA MapEntry ==
  ASSUME NEW file \in Metadatas, NEW date \in Nat, NEW id,
         NEW m \in file.mappings, m.id = id, valid_on(m, date)
  PROVE  /\ id \in DOMAIN from_dbn_metadata(file, date)
              <=> covers(file, date) /\ WellFormed(m.symbol)
         /\ id \in DOMAIN from_dbn_metadata(file, date) =>
              from_dbn_metadata(file, date)[id] = parsed(m.symbol)
<1> DEFINE now == {n \in file.mappings : valid_on(n, date)}
           it == CHOOSE n \in now : n.id = id
<1>1. it \in now /\ it.id = id
  OBVIOUS
<1>2. it = m
  BY <1>1, OneMapping
<1>3. id \in DOMAIN symbol_map_for_date(file, date)
  BY DEF symbol_map_for_date
<1>4. symbol_map_for_date(file, date)[id] = m.symbol
  BY <1>2, <1>3 DEF symbol_map_for_date
<1>5. m.symbol \in Symbol /\ parsed(m.symbol) # None
  BY SymbologyAssumption DEF Metadata, Mapping
<1> QED
  BY <1>3, <1>4, <1>5, ParsesWellFormed DEF from_dbn_metadata

(* Where an entry comes from.                                              *)
LEMMA MapSource ==
  ASSUME NEW file \in Metadatas, NEW date \in Nat,
         NEW id \in DOMAIN from_dbn_metadata(file, date)
  PROVE  /\ id \in Ids /\ covers(file, date)
         /\ \E m \in file.mappings :
              /\ m.id = id /\ valid_on(m, date) /\ WellFormed(m.symbol)
              /\ m.symbol \in Symbol
              /\ from_dbn_metadata(file, date)[id] = parsed(m.symbol)
              /\ parse_occ_symbol(m.symbol) = parsed(m.symbol)
              /\ parsed(m.symbol) # None
<1>1. id \in DOMAIN symbol_map_for_date(file, date)
  BY DEF from_dbn_metadata
<1>2. PICK m \in file.mappings : m.id = id /\ valid_on(m, date)
  BY <1>1 DEF symbol_map_for_date
<1>3. m \in Mapping /\ parsed(m.symbol) # None
  BY SymbologyAssumption DEF Metadata
<1>4. m.symbol \in Symbol /\ m.id \in Ids
  BY <1>3 DEF Mapping
<1>5. /\ covers(file, date) /\ WellFormed(m.symbol)
      /\ from_dbn_metadata(file, date)[id] = parsed(m.symbol)
  BY <1>2, MapEntry
<1>6. parse_occ_symbol(m.symbol) = parsed(m.symbol)
  BY <1>3, <1>4, <1>5, ParsesWellFormed
<1> QED
  BY <1>2, <1>3, <1>4, <1>5, <1>6

(* On one date no two ids mean one contract.                               *)
LEMMA OneContractOneId ==
  ASSUME NEW file \in Metadatas, NEW date \in Nat,
         NEW i \in DOMAIN from_dbn_metadata(file, date),
         NEW j \in DOMAIN from_dbn_metadata(file, date),
         from_dbn_metadata(file, date)[i] = from_dbn_metadata(file, date)[j]
  PROVE  i = j
<1>1. PICK m \in file.mappings :
        /\ m.id = i /\ valid_on(m, date)
        /\ from_dbn_metadata(file, date)[i] = parsed(m.symbol)
        /\ parse_occ_symbol(m.symbol) = parsed(m.symbol) /\ parsed(m.symbol) # None
  BY MapSource
<1>2. PICK n \in file.mappings :
        /\ n.id = j /\ valid_on(n, date)
        /\ from_dbn_metadata(file, date)[j] = parsed(n.symbol)
        /\ parse_occ_symbol(n.symbol) = parsed(n.symbol) /\ parsed(n.symbol) # None
  BY MapSource
<1>3. m = n
  BY <1>1, <1>2, OneMapping
<1> QED
  BY <1>1, <1>2, <1>3

(***************************************************************************)
(* What the QualityTracker does with the calls                             *)
(***************************************************************************)

(* The instance has its own copy of Cardinality.                           *)
LEMMA SameCardinality == \A S : Quality!Cardinality(S) = Cardinality(S)
BY Zenon DEF Cardinality, Quality!Cardinality

(* The fields of the tracker.                                              *)
LEMMA QualityTypes ==
  ASSUME quality \in Quality!State
  PROVE  /\ quality.unique_contracts_day \in SUBSET Ids
         /\ quality.events_per_day \in Quality!Welford
         /\ quality.trades_per_day \in Quality!Welford
         /\ quality.contracts_per_day \in Quality!Welford
         /\ quality.contracts_per_day.sum \in Nat
         /\ quality.day_events \in Nat /\ quality.day_trades \in Nat
         /\ quality.dte_events \in [Quality!DteBucket -> Nat]
<1>1. /\ quality.unique_contracts_day \in SUBSET Ids
      /\ quality.events_per_day \in Quality!Welford
      /\ quality.trades_per_day \in Quality!Welford
      /\ quality.contracts_per_day \in Quality!Welford
      /\ quality.day_events \in Nat /\ quality.day_trades \in Nat
      /\ quality.dte_events \in [Quality!DteBucket -> Nat]
  BY DEF Quality!State
<1> QED
  BY <1>1 DEF Quality!Welford

(* An event adds its id to the day's, and no sample.                       *)
LEMMA QualityProcess ==
  ASSUME quality \in Quality!State, NEW e, e.instrument_id \in Ids,
         Quality!process_event(e)
  PROVE  /\ quality' \in Quality!State
         /\ quality'.unique_contracts_day = quality.unique_contracts_day \cup {e.instrument_id}
         /\ quality'.contracts_per_day = quality.contracts_per_day
<1>1. /\ quality'.unique_contracts_day = quality.unique_contracts_day \cup {e.instrument_id}
      /\ quality'.contracts_per_day = quality.contracts_per_day
  BY DEF Quality!State, Quality!process_event
<1>2. Quality!dte_bucket(e.dte) \in Quality!DteBucket
  BY DEF Quality!dte_bucket, Quality!DteBucket
<1>3. PICK t, q, s \in Nat :
        /\ t = Quality!one_if(Quality!is_trade(e))
        /\ q = Quality!one_if(~Quality!is_trade(e))
        /\ s = Quality!one_if(Quality!sentinel(e))
  BY DEF Quality!one_if
<1>4. quality'.dte_events \in [Quality!DteBucket -> Nat]
  <2> DEFINE b == Quality!dte_bucket(e.dte)
             f == quality.dte_events
  <2>1. quality'.dte_events = [f EXCEPT ![b] = @ + 1]
    BY DEF Quality!State, Quality!process_event
  <2>2. b \in Quality!DteBucket /\ f \in [Quality!DteBucket -> Nat]
    BY <1>2, QualityTypes
  <2> HIDE DEF b, f
  <2> QED
    BY <2>1, <2>2
<1>5. quality' = [x \in DOMAIN quality |-> quality'[x]]
  BY DEF Quality!process_event
<1>6. /\ quality'.total_events = quality.total_events + 1
      /\ quality'.day_events = quality.day_events + 1
      /\ quality'.unique_contracts_total
           = quality.unique_contracts_total \cup {e.instrument_id}
      /\ quality'.trade_events = quality.trade_events + t
      /\ quality'.day_trades = quality.day_trades + t
      /\ quality'.quote_events = quality.quote_events + q
      /\ quality'.sentinel_events = quality.sentinel_events + s
      /\ quality'.events_per_day = quality.events_per_day
      /\ quality'.trades_per_day = quality.trades_per_day
      /\ quality'.n_days = quality.n_days
  BY <1>3 DEF Quality!State, Quality!process_event
<1>7. quality' \in Quality!State
  BY <1>1, <1>4, <1>5, <1>6 DEF Quality!State
<1> QED
  BY <1>1, <1>7

(* The end of a day adds the number of its ids to the samples.             *)
LEMMA QualityEndOfDay ==
  ASSUME quality \in Quality!State, IsFiniteSet(quality.unique_contracts_day),
         Quality!end_of_day
  PROVE  /\ quality' \in Quality!State
         /\ quality'.unique_contracts_day = quality.unique_contracts_day
         /\ quality'.contracts_per_day.sum
              = quality.contracts_per_day.sum + Cardinality(quality.unique_contracts_day)
<1>1. PICK n \in Nat : n = Quality!Cardinality(quality.unique_contracts_day)
  BY FS_CardinalityType, SameCardinality
<1>2. n = Cardinality(quality.unique_contracts_day)
  BY <1>1, SameCardinality
<1>3. /\ quality'.unique_contracts_day = quality.unique_contracts_day
      /\ quality'.contracts_per_day = Quality!update(quality.contracts_per_day, n)
  BY <1>1 DEF Quality!State, Quality!end_of_day
<1>4. \A w \in Quality!Welford, k \in Nat :
        /\ Quality!update(w, k) \in Quality!Welford
        /\ Quality!update(w, k).sum = w.sum + k
  BY DEF Quality!update, Quality!Welford
<1>5. /\ quality'.events_per_day = Quality!update(quality.events_per_day, quality.day_events)
      /\ quality'.trades_per_day = Quality!update(quality.trades_per_day, quality.day_trades)
      /\ quality'.n_days = quality.n_days + 1
      /\ \A x \in {"total_events", "quote_events", "trade_events", "sentinel_events",
                   "unique_contracts_total", "day_events", "day_trades", "dte_events"} :
           quality'[x] = quality[x]
  BY DEF Quality!State, Quality!end_of_day
<1>6. quality' = [x \in DOMAIN quality |-> quality'[x]]
  BY DEF Quality!end_of_day
<1>7. /\ quality'.events_per_day \in Quality!Welford
      /\ quality'.trades_per_day \in Quality!Welford
      /\ quality'.contracts_per_day \in Quality!Welford
  BY <1>3, <1>4, <1>5, QualityTypes
<1>8. quality' \in Quality!State
  BY <1>3, <1>5, <1>6, <1>7 DEF Quality!State
<1> QED
  BY <1>2, <1>3, <1>4, <1>8, QualityTypes

(* The next day starts with no id.                                         *)
LEMMA QualityResetDay ==
  ASSUME quality \in Quality!State, Quality!reset_day
  PROVE  /\ quality' \in Quality!State
         /\ quality'.unique_contracts_day = {}
         /\ quality'.contracts_per_day = quality.contracts_per_day
BY DEF Quality!State, Quality!reset_day
-----------------------------------------------------------------------------
(* The first state.                                                        *)
LEMMA InitIInv == Init => IInv
<1> SUFFICES ASSUME Init PROVE IInv
  OBVIOUS
<1>1. quality \in Quality!State /\ quality.contracts_per_day.sum = 0
  BY DEF Init, Quality!Init, Quality!new, Quality!State, Quality!Welford,
         Quality!EmptyWelford, Quality!DteBucket
<1>2. quality.unique_contracts_day = {}
  BY DEF Init, Quality!Init, Quality!new
<1>3. dispatched = {} /\ contracts_seen = {}
  BY DEF Init, dispatched, contracts_seen
<1>4. Typed /\ MapInv /\ DatesInv /\ ContractOfItsDay
  BY <1>1, <1>2, FS_EmptySet DEF Init, Typed, MapInv, DatesInv, ContractOfItsDay
<1>5. TodayInv
  BY <1>2 DEF Init, TodayInv
<1>6. CountInv
  BY <1>1, <1>2, <1>3, FS_EmptySet DEF CountInv, Init, open_contracts
<1> QED
  BY <1>4, <1>5, <1>6 DEF IInv

-----------------------------------------------------------------------------
(* Once a day is open its date is a date.                                  *)
LEMMA TradingDate ==
  ASSUME Typed, stage # "idle"
  PROVE  trading_date \in Nat
BY SymbologyAssumption DEF Typed, trading_date

(* The new day has no record yet: every one logged is of an earlier date.  *)
LEMMA StepOpenDay ==
  ASSUME IInv, OpenDay
  PROVE  IInv'
<1> USE DEF IInv
<1>1. /\ stage = "idle" /\ stage' = "in_day" /\ metadata' \in Metadatas
      /\ contract_map' = from_dbn_metadata(metadata', trading_date)
      /\ UNCHANGED <<day, quality, log>>
      /\ day \in DOMAIN Dates
  BY SymbologyAssumption DEF OpenDay, Typed
<1>2. trading_date' = trading_date /\ dispatched' = dispatched
  BY <1>1 DEF trading_date, dispatched
<1>3. Typed' /\ MapInv' /\ DatesInv' /\ ContractOfItsDay'
  BY <1>1, <1>2 DEF Typed, MapInv, DatesInv, ContractOfItsDay
<1>4. \A r \in dispatched : r.date # trading_date
  BY <1>1, SymbologyAssumption DEF DatesInv, dispatched, trading_date
<1>5. TodayInv'
  BY <1>1, <1>2, <1>4 DEF TodayInv
<1>6. CountInv'
  BY <1>1, <1>2 DEF CountInv, contracts_seen, open_contracts
<1> QED
  BY <1>3, <1>5, <1>6

(* A record of an id the day's map does not have is of no well-formed      *)
(* symbol.                                                                 *)
LEMMA StepUnknown ==
  ASSUME IInv, stage = "in_day", NEW id \in Ids, UnknownInstrument(id),
         UNCHANGED <<stage, day, metadata, contract_map>>
  PROVE  IInv'
<1> USE DEF IInv
<1> DEFINE r0 == recorded(id, None)
<1>1. /\ id \notin DOMAIN contract_map /\ log' = log \cup {r0}
      /\ UNCHANGED <<stage, day, metadata, contract_map, quality>>
  BY DEF UnknownInstrument
<1>2. /\ r0.date = trading_date /\ r0.id = id /\ r0.metadata = metadata
      /\ r0.contract = None
  BY DEF recorded
<1> HIDE DEF r0
<1>3. trading_date' = trading_date /\ dispatched' = dispatched
  BY <1>1, <1>2 DEF trading_date, dispatched
<1>4. Typed' /\ MapInv' /\ TodayInv'
  BY <1>1, <1>3 DEF Typed, MapInv, TodayInv
<1>5. CountInv'
  BY <1>1, <1>3 DEF CountInv, contracts_seen, open_contracts
<1>6. DatesInv'
  BY <1>1, <1>2 DEF DatesInv, Typed, trading_date
<1>7. {m \in metadata.mappings :
         /\ m.id = id /\ valid_on(m, trading_date) /\ WellFormed(m.symbol)
         /\ covers(metadata, trading_date)} = {}
  BY <1>1, TradingDate, MapEntry DEF MapInv
<1>8. ContractOfItsDay'
  BY <1>1, <1>2, <1>7 DEF ContractOfItsDay
<1> QED
  BY <1>4, <1>5, <1>6, <1>8

(* A dispatched record is of a new contract of the day exactly if its id   *)
(* is new.                                                                 *)
LEMMA StepDispatch ==
  ASSUME IInv, stage = "in_day", NEW id \in Ids, Dispatch(id),
         UNCHANGED <<stage, day, metadata, contract_map>>
  PROVE  IInv'
<1> USE DEF IInv
<1> DEFINE c0 == contract_map[id]
           r0 == recorded(id, c0)
           p0 == <<trading_date, c0>>
<1>1. /\ id \in DOMAIN contract_map /\ log' = log \cup {r0}
      /\ UNCHANGED <<stage, day, metadata, contract_map>>
      /\ Quality!process_event(event(id))
  BY DEF Dispatch
<1>2. /\ r0.date = trading_date /\ r0.id = id /\ r0.metadata = metadata
      /\ r0.contract = c0
  BY DEF recorded
<1>3. PICK m \in metadata.mappings :
        /\ m.id = id /\ valid_on(m, trading_date) /\ WellFormed(m.symbol)
        /\ covers(metadata, trading_date)
        /\ c0 = parsed(m.symbol) /\ c0 # None
  BY <1>1, TradingDate, MapSource DEF MapInv
<1> HIDE DEF r0
<1>4. /\ quality' \in Quality!State
      /\ quality'.unique_contracts_day = quality.unique_contracts_day \cup {id}
      /\ quality'.contracts_per_day = quality.contracts_per_day
  <2>1. event(id).instrument_id = id
    BY DEF event
  <2> QED
    BY <1>1, <2>1, QualityProcess DEF Typed
<1>5. trading_date' = trading_date /\ dispatched' = dispatched \cup {r0}
  BY <1>1, <1>2, <1>3 DEF trading_date, dispatched
<1>6. contracts_seen' = contracts_seen \cup {p0}
  BY <1>2, <1>5 DEF contracts_seen
<1>7. Typed' /\ MapInv'
  BY <1>1, <1>4, <1>5, FS_AddElement DEF Typed, MapInv
<1>8. DatesInv'
  BY <1>1, <1>2 DEF DatesInv, Typed, trading_date
<1>9. ContractOfItsDay'
  BY <1>1, <1>2, <1>3 DEF ContractOfItsDay
<1>10. TodayInv'
  BY <1>1, <1>2, <1>4, <1>5 DEF TodayInv
<1>11. p0 \in contracts_seen <=> id \in quality.unique_contracts_day
  <2>1. ASSUME p0 \in contracts_seen PROVE id \in quality.unique_contracts_day
    <3>1. PICK r \in dispatched : r.date = trading_date /\ r.contract = c0
      BY <2>1 DEF contracts_seen
    <3>2. /\ r.id \in quality.unique_contracts_day
          /\ r.id \in DOMAIN contract_map /\ contract_map[r.id] = contract_map[id]
      BY <3>1 DEF TodayInv
    <3>3. r.id = id
      BY <1>1, <3>2, TradingDate, OneContractOneId DEF MapInv
    <3> QED
      BY <3>2, <3>3
  <2>2. ASSUME id \in quality.unique_contracts_day PROVE p0 \in contracts_seen
    BY <2>2 DEF TodayInv, contracts_seen
  <2> QED
    BY <2>1, <2>2
<1>12. CountInv'
  <2>1. /\ IsFiniteSet(contracts_seen')
        /\ Cardinality(contracts_seen') =
             IF p0 \in contracts_seen THEN Cardinality(contracts_seen)
             ELSE Cardinality(contracts_seen) + 1
    BY <1>6, FS_AddElement DEF CountInv
  <2>2. Cardinality(quality'.unique_contracts_day) =
          IF id \in quality.unique_contracts_day
          THEN Cardinality(quality.unique_contracts_day)
          ELSE Cardinality(quality.unique_contracts_day) + 1
    BY <1>4, FS_AddElement DEF Typed
  <2>3. Cardinality(quality.unique_contracts_day) \in Nat
    BY FS_CardinalityType DEF Typed
  <2>4. quality.contracts_per_day.sum \in Nat
    BY QualityTypes DEF Typed
  <2>5. Cardinality(contracts_seen)
          = quality.contracts_per_day.sum + Cardinality(quality.unique_contracts_day)
    BY DEF CountInv, open_contracts
  <2>6. Cardinality(contracts_seen')
          = quality'.contracts_per_day.sum + Cardinality(quality'.unique_contracts_day)
    BY <1>4, <1>11, <2>1, <2>2, <2>3, <2>4, <2>5
  <2> QED
    BY <1>1, <2>1, <2>6 DEF CountInv, open_contracts
<1> QED
  BY <1>7, <1>8, <1>9, <1>10, <1>12

(* What the open day counted becomes its sample.                           *)
LEMMA StepCloseDay ==
  ASSUME IInv, CloseDay
  PROVE  IInv'
<1> USE DEF IInv
<1>1. /\ stage = "in_day" /\ stage' = "closed" /\ Quality!end_of_day
      /\ UNCHANGED <<day, metadata, contract_map, log>>
  BY DEF CloseDay
<1>2. /\ quality' \in Quality!State
      /\ quality'.unique_contracts_day = quality.unique_contracts_day
      /\ quality'.contracts_per_day.sum
           = quality.contracts_per_day.sum + Cardinality(quality.unique_contracts_day)
  BY <1>1, QualityEndOfDay DEF Typed
<1>3. dispatched' = dispatched /\ contracts_seen' = contracts_seen
  BY <1>1 DEF dispatched, contracts_seen
<1>4. Typed' /\ MapInv' /\ DatesInv' /\ TodayInv' /\ ContractOfItsDay'
  BY <1>1, <1>2 DEF Typed, MapInv, DatesInv, TodayInv, ContractOfItsDay
<1>5. quality'.contracts_per_day.sum \in Nat
  BY <1>2 DEF Quality!State, Quality!Welford
<1>6. CountInv'
  BY <1>1, <1>2, <1>3, <1>5 DEF CountInv, open_contracts
<1> QED
  BY <1>4, <1>6

(* The ids of the day are forgotten with its map.                          *)
LEMMA StepResetDay ==
  ASSUME IInv, ResetDay
  PROVE  IInv'
<1> USE DEF IInv
<1>1. /\ stage = "closed" /\ stage' = "idle" /\ Quality!reset_day /\ day' = day + 1
      /\ UNCHANGED log
  BY DEF ResetDay
<1>2. /\ quality' \in Quality!State
      /\ quality'.unique_contracts_day = {}
      /\ quality'.contracts_per_day = quality.contracts_per_day
  BY <1>1, QualityResetDay DEF Typed
<1>3. dispatched' = dispatched /\ contracts_seen' = contracts_seen
  BY <1>1 DEF dispatched, contracts_seen
<1>4. Typed'
  BY <1>1, <1>2, FS_EmptySet DEF Typed
<1>5. DatesInv'
  BY <1>1, SymbologyAssumption DEF DatesInv, Typed
<1>6. MapInv' /\ TodayInv' /\ ContractOfItsDay'
  BY <1>1, <1>2 DEF MapInv, TodayInv, ContractOfItsDay
<1>7. CountInv'
  BY <1>1, <1>2, <1>3, FS_EmptySet, QualityTypes DEF CountInv, open_contracts, Typed
<1> QED
  BY <1>4, <1>5, <1>6, <1>7

(* Every step keeps the invariant.                                         *)
LEMMA StepIInv == IInv /\ [Next]_vars => IInv'
<1> SUFFICES ASSUME IInv, [Next]_vars PROVE IInv'
  OBVIOUS
<1>1. CASE OpenDay
  BY <1>1, StepOpenDay
<1>2. CASE HandleRecord
  BY <1>2, StepUnknown, StepDispatch DEF HandleRecord
<1>3. CASE CloseDay
  BY <1>3, StepCloseDay
<1>4. CASE ResetDay
  BY <1>4, StepResetDay
<1>5. CASE UNCHANGED vars
  BY <1>5 DEF vars, IInv, Typed, MapInv, DatesInv, TodayInv, CountInv, contracts_seen,
              open_contracts, ContractOfItsDay, dispatched, trading_date
<1> QED
  BY <1>1, <1>2, <1>3, <1>4, <1>5 DEF Next

-----------------------------------------------------------------------------
(* The inductive invariant, for every run of the program.                  *)
LEMMA Invariant == Spec => []IInv
BY InitIInv, StepIInv, PTL DEF Spec

(* contract.rs: whatever file a day brings, a record is dispatched under   *)
(* the contract that file gives its id on the date of the file, and is     *)
(* counted as unknown only if the file gives it none.                      *)
THEOREM ContractsOfTheirDay == Spec => []ContractOfItsDay
<1>1. IInv => ContractOfItsDay
  BY DEF IInv
<1> QED
  BY Invariant, <1>1, PTL

(* trackers/quality.rs counts the contracts of a day by their ids, and so  *)
(* counts each contract of each date once, although ids change hands       *)
(* between two days.                                                       *)
THEOREM ContractsCounted == Spec => []DailyContractsCounted
<1>1. IInv => DailyContractsCounted
  BY DEF IInv, CountInv, contracts_seen, DailyContractsCounted
<1> QED
  BY Invariant, <1>1, PTL
=============================================================================
