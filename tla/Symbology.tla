------------------------------ MODULE Symbology ------------------------------
(***************************************************************************)
(* What an instrument id means (contract.rs): every day file brings its    *)
(* own symbology, run() makes a contract map of it for the date of the     *)
(* file, and the trackers see the contract beside the id.  An id may mean  *)
(* one contract today and another one tomorrow.                            *)
(*                                                                         *)
(* Composed with the QualityTracker, the one tracker that keeps ids over   *)
(* the days.  A symbol is the parts parse_occ_symbol() cuts it into.       *)
(***************************************************************************)
EXTENDS Integers, Sequences, FiniteSets

CONSTANTS
  Ids,          \* instrument ids
  Metadatas,    \* the symbologies a day file can have
  Dates,        \* the dates of the files, in order
  MaxRecords,   \* bound: records of a day
  None          \* Option::None; a part of a symbol that is no number or date

(* length: of the symbol without trailing blanks; root: trimmed.           *)
Symbol ==
  [length : Nat, root : STRING, expiry : Nat \cup {None}, right : {"C", "P", "?"},
   strike : Nat \cup {None}]

Mapping == [symbol : Symbol, from : Nat, until : Nat, id : Ids]

(* The dates the file covers, and the symbols on them.                     *)
Metadata == [start : Nat, end : Nat, mappings : SUBSET Mapping]

parsed(symbol) ==
  [underlying |-> symbol.root, expiration |-> symbol.expiry,
   contract_type |-> IF symbol.right = "C" THEN "call" ELSE "put",
   strike |-> symbol.strike]

(* The 13 characters before the strike, of which it has at least 8.        *)
parse_occ_symbol(symbol) ==
  IF /\ symbol.length >= 15 /\ symbol.root # ""
     /\ symbol.length - 13 >= 8
     /\ symbol.expiry # None
     /\ symbol.right \in {"C", "P"} /\ symbol.strike # None
  THEN parsed(symbol) ELSE None

valid_on(mapping, date) == mapping.from <= date /\ date < mapping.until

(* What the data promise: on one date an id means one symbol, and no two   *)
(* ids have symbols that parse to the same contract.                       *)
OneToOne(metadata) ==
  \A m, n \in metadata.mappings :
    /\ \E date \in {m.from, n.from} : valid_on(m, date) /\ valid_on(n, date)
    /\ \/ m.id = n.id
       \/ /\ parse_occ_symbol(m.symbol) # None
          /\ parse_occ_symbol(m.symbol) = parse_occ_symbol(n.symbol)
    => m = n

(* The dates of the files increase (discover_files sorts them), and Some of *)
(* a contract is not None.                                                 *)
ASSUME SymbologyAssumption ==
  /\ Dates \in Seq(Nat) /\ \A i, j \in DOMAIN Dates : i < j => Dates[i] < Dates[j]
  /\ \A metadata \in Metadatas :
       /\ metadata \in Metadata
       /\ OneToOne(metadata)
       /\ \A m \in metadata.mappings : parsed(m.symbol) # None
  /\ MaxRecords \in Nat

VARIABLES
  stage,         \* "idle", "in_day", "closed": where run() is in the day
  day,           \* index of the file
  metadata,      \* symbology of the file
  contract_map,  \* ContractMap: id -> contract
  quality,       \* the QualityTracker
  log            \* history: [date, id, metadata, contract] of each record

vars == <<stage, day, metadata, contract_map, quality, log>>

Quality == INSTANCE QualityTracker WITH
             self <- quality, Instruments <- Ids, Records <- {}, SENTINEL_I64 <- 0,
             ContractOf <- [id \in Ids |-> [contract_type |-> "call", expiration |-> 0]]

Init ==
  /\ stage = "idle"
  /\ day = 1
  /\ metadata = None
  /\ contract_map = << >>
  /\ Quality!Init
  /\ log = {}

trading_date == Dates[day]
-----------------------------------------------------------------------------
dte(contract, date) == contract.expiration - date

(* dbn: the point-in-time map, an error for a date the file does not cover.*)
covers(file, date) == file.start <= date /\ date < file.end

symbol_map_for_date(file, date) ==
  LET now == {m \in file.mappings : valid_on(m, date)}
  IN  [id \in {m.id : m \in now} |-> (CHOOSE m \in now : m.id = id).symbol]

from_dbn_metadata(file, date) ==
  LET pit_map == symbol_map_for_date(file, date)
      known(id) == covers(file, date) /\ parse_occ_symbol(pit_map[id]) # None
  IN  [id \in {i \in DOMAIN pit_map : known(i)} |-> parse_occ_symbol(pit_map[id])]

(* Fault: the map is made for the first date the file covers             *)
OpenDay_of_start ==
  /\ stage = "idle" /\ day <= Len(Dates)
  /\ metadata' \in Metadatas
  /\ contract_map' = from_dbn_metadata(metadata', metadata'.start)
  /\ stage' = "in_day"
  /\ UNCHANGED <<day, quality, log>>

OpenDay ==
  /\ stage = "idle" /\ day <= Len(Dates)
  /\ metadata' \in Metadatas
  /\ contract_map' = from_dbn_metadata(metadata', trading_date)
  /\ stage' = "in_day"
  /\ UNCHANGED <<day, quality, log>>

recorded(id, contract) ==
  [date |-> trading_date, id |-> id, metadata |-> metadata, contract |-> contract]

UnknownInstrument(id) ==
  /\ id \notin DOMAIN contract_map
  /\ log' = log \cup {recorded(id, None)}
  /\ UNCHANGED quality

(* An event of a quote with a valid BBO; the tracker looks at the id, the  *)
(* action, the BBO and the DTE.                                            *)
event(id) ==
  [instrument_id |-> id, action |-> "quote", bid_px |-> 4, ask_px |-> 6,
   dte |-> dte(contract_map[id], trading_date)]

Dispatch(id) ==
  /\ id \in DOMAIN contract_map
  /\ Quality!process_event(event(id))
  /\ log' = log \cup {recorded(id, contract_map[id])}

HandleRecord ==
  /\ stage = "in_day" /\ quality.day_events < MaxRecords
  /\ \E id \in Ids : UnknownInstrument(id) \/ Dispatch(id)
  /\ UNCHANGED <<stage, day, metadata, contract_map>>

CloseDay ==
  /\ stage = "in_day"
  /\ Quality!end_of_day
  /\ stage' = "closed"
  /\ UNCHANGED <<day, metadata, contract_map, log>>

(* The map goes out of scope with the day.                                 *)
ResetDay ==
  /\ stage = "closed"
  /\ Quality!reset_day
  /\ contract_map' = << >>
  /\ metadata' = None
  /\ day' = day + 1
  /\ stage' = "idle"
  /\ UNCHANGED log

Next == OpenDay \/ HandleRecord \/ CloseDay \/ ResetDay

Spec == Init /\ [][Next]_vars
-----------------------------------------------------------------------------
dispatched == {r \in log : r.contract # None}

(* OCC: a root, a date, C or P, and eight digits of strike.                *)
WellFormed(symbol) ==
  /\ symbol.root # "" /\ symbol.expiry # None /\ symbol.right # "?"
  /\ symbol.strike # None /\ symbol.length >= 6 + 6 + 1 + 8

(* A record is dispatched under the contract its own file gives its id on  *)
(* the date of the file, never one of another date or of another file, and *)
(* is unknown only if there is none.                                       *)
ContractOfItsDay ==
  \A r \in log :
    LET meant == {m \in r.metadata.mappings :
                    /\ m.id = r.id /\ valid_on(m, r.date) /\ WellFormed(m.symbol)
                    /\ covers(r.metadata, r.date)}
    IN  IF r.contract = None THEN meant = {}
        ELSE \E m \in meant : r.contract = parsed(m.symbol)

open_contracts ==
  IF stage = "closed" THEN 0 ELSE Cardinality(quality.unique_contracts_day)

(* The contracts of a day are counted by their ids; on one day that is the *)
(* same, so the daily samples add up to the contracts really seen.         *)
DailyContractsCounted ==
  Cardinality({<<r.date, r.contract>> : r \in dispatched})
    = quality.contracts_per_day.sum + open_contracts
=============================================================================
