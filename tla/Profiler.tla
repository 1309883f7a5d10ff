------------------------------ MODULE Profiler ------------------------------
(***************************************************************************)
(* run() of profiler.rs: the single pass over the discovered OPRA day      *)
(* files.  For each day it begins the day on every tracker, opens the      *)
(* file, drains the record iterator (module Loader) into the trackers,     *)
(* harvests the iterator's counters, ends and resets the day.  Every `?'   *)
(* and ok_or_else of the function is an action that ends the run with Err. *)
(*                                                                         *)
(* A tracker is abstracted to what run() does to it: how often each method *)
(* of the trait was called, and how many events sit in its per-day         *)
(* accumulators.  The prices, sizes and quotes of a record are kept only   *)
(* where a counter or the O/S numerator depends on them.                   *)
(***************************************************************************)
EXTENDS Integers, Sequences, FiniteSets

CONSTANTS
  Dates,          \* day numbers an 8-digit file-name date can stand for
  CalendarDates,  \* those that are real dates
  Trackers,       \* the registered trackers
  Instruments,    \* instrument ids
  Expirations,    \* day numbers of expirations
  Sizes,          \* trade sizes, in contracts
  FlagSets,       \* the combinations of the three observed flag bits
  DteMin, DteMax, \* os_ratio.dte_min, os_ratio.dte_max
  MaxRecords,     \* bound: outcomes one file can hand out
  MAX_UNSUPPORTED_RTYPE_WARNINGS

Flag == {"bad_book_flagged", "bad_ts_flagged", "snapshot_flagged"}

ASSUME ProfilerAssumption ==
  /\ Dates \subseteq Nat /\ IsFiniteSet(Dates)
  /\ CalendarDates \subseteq Dates
  /\ Expirations \subseteq Nat
  /\ Sizes \subseteq Nat
  /\ FlagSets \subseteq SUBSET Flag
  /\ DteMin \in Int /\ DteMax \in Int
  /\ MaxRecords \in Nat
  /\ MAX_UNSUPPORTED_RTYPE_WARNINGS \in Nat \ {0}

VARIABLES
  \* arguments of run(), fixed for its duration
  files,           \* the dates of the discovered files, in processing order
  prices,          \* date -> is the underlying price positive
  os_enabled,      \* os_ratio.enabled
  \* control
  phase,           \* where run() is
  file_index,      \* index of the current file
  \* the record iterator of the current file
  decoder, records, logged, tape,
  \* locals of one day
  contract_map, day_events, day_opvol_os,
  \* locals of the whole run
  diag, total_events, total_decode_errors, day_index, os_daily_opvol,
  \* the trackers
  calls,           \* tracker -> method -> number of calls
  pending,         \* tracker -> events in its per-day accumulators
  \* history
  in_band          \* contracts in in-band trades dispatched over the run

config   == <<files, prices, os_enabled>>
iterator == <<decoder, records, logged, tape>>
locals   == <<contract_map, day_events, day_opvol_os>>
totals   == <<diag, total_events, total_decode_errors, day_index, os_daily_opvol>>
tracking == <<calls, pending>>
vars == <<config, phase, file_index, iterator, locals, totals, tracking, in_band>>

L == INSTANCE Loader

Phases == {"start", "days", "open", "read", "harvest", "closing", "done", "failed"}

Method == {"begin_day", "process_event", "end_of_day", "reset_day", "finalize"}

ActionCounter == {"action_trade", "action_quote", "action_other"}

(* The counters of ProfileDiagnostics, observability included.             *)
DiagField ==
  {"total_decoded", "unknown_instrument", "dispatched", "moneyness_fallback"}
    \cup L!LoaderCounter \cup ActionCounter \cup Flag

(* Loop counters over a record: each named counter goes up by one.         *)
Bump(fields) == [f \in DiagField |-> diag[f] + (IF f \in fields THEN 1 ELSE 0)]

(* `for tracker in trackers.iter_mut() { tracker.method() }'               *)
CallAll(method) == [t \in Trackers |-> [calls[t] EXCEPT ![method] = @ + 1]]

(* discover_files(): one file per date that matches the pattern and the    *)
(* date filters, sorted by date.                                           *)
Discoveries ==
  UNION { {s \in [1..n -> Dates] : \A i, j \in 1..n : i < j => s[i] < s[j]}
            : n \in 0..Cardinality(Dates) }

(* ContractMap::from_dbn_metadata(): the instruments whose symbol parses,  *)
(* with their expirations; empty when the symbol map cannot be built.      *)
ContractMaps == UNION { [S -> Expirations] : S \in SUBSET Instruments }

Init ==
  /\ files \in Discoveries
  /\ prices \in UNION { [S -> BOOLEAN] : S \in SUBSET Dates }
  /\ os_enabled \in BOOLEAN
  /\ phase = "start"
  /\ file_index = 1
  /\ L!Init
  /\ contract_map = << >>
  /\ day_events = 0
  /\ day_opvol_os = 0
  /\ diag = [f \in DiagField |-> 0]
  /\ total_events = 0
  /\ total_decode_errors = 0
  /\ day_index = 0
  /\ os_daily_opvol = << >>
  /\ calls = [t \in Trackers |-> [m \in Method |-> 0]]
  /\ pending = [t \in Trackers |-> 0]
  /\ in_band = 0

-----------------------------------------------------------------------------
trading_date == files[file_index]

(* Everything an early return leaves as it was.                            *)
ReturnErr ==
  /\ phase' = "failed"
  /\ UNCHANGED <<config, file_index, iterator, locals, totals, tracking, in_band>>

Start ==
  /\ phase = "start"
  /\ files # << >>
  /\ phase' = "days"
  /\ UNCHANGED <<config, file_index, iterator, locals, totals, tracking, in_band>>

NoFiles ==
  /\ phase = "start"
  /\ files = << >>
  /\ ReturnErr

(* Fault: skips the date instead of failing                              *)
RejectDay_skips ==
  /\ phase = "days"
  /\ file_index <= Len(files)
  /\ trading_date \notin CalendarDates \/ trading_date \notin DOMAIN prices
  /\ file_index' = file_index + 1
  /\ UNCHANGED <<config, phase, iterator, locals, totals, tracking, in_band>>

(* Fault: never gives up on the date                                     *)
RejectDay_waits ==
  /\ phase = "days"
  /\ file_index <= Len(files)
  /\ trading_date \notin CalendarDates \/ trading_date \notin DOMAIN prices
  /\ UNCHANGED vars

(* An impossible calendar date, or a date without an underlying price.     *)
RejectDay ==
  /\ phase = "days"
  /\ file_index <= Len(files)
  /\ trading_date \notin CalendarDates \/ trading_date \notin DOMAIN prices
  /\ ReturnErr

BeginDay ==
  /\ phase = "days"
  /\ file_index <= Len(files)
  /\ trading_date \in CalendarDates \cap DOMAIN prices
  /\ calls' = CallAll("begin_day")
  /\ phase' = "open"
  /\ UNCHANGED <<config, file_index, iterator, locals, totals, pending, in_band>>

(* Fault: a `?' after the record loop as well                            *)
OpenFails_after_loop ==
  /\ phase \in {"open", "harvest"}
  /\ ReturnErr

(* Cmbp1Loader::new or open: the file is gone or is no DBN stream.         *)
OpenFails ==
  /\ phase = "open"
  /\ ReturnErr

(* Fault: keeps symbols that do not parse                                *)
OpenFile_keeps_unparsed ==
  /\ phase = "open"
  /\ contract_map' \in [Instruments -> Expirations \cup {0}]
  /\ phase' = "read"
  /\ UNCHANGED <<config, file_index, iterator, day_events, day_opvol_os, totals,
                 tracking, in_band>>

OpenFile ==
  /\ phase = "open"
  /\ contract_map' \in ContractMaps
  /\ decoder' = L!FreshDecoder
  /\ records' = L!FreshRecords
  /\ logged' = L!NothingLogged
  /\ day_events' = 0
  /\ day_opvol_os' = 0
  /\ phase' = "read"
  /\ UNCHANGED <<config, file_index, tape, totals, tracking, in_band>>

-----------------------------------------------------------------------------
(* The record loop                                                         *)

(* An outcome next() skips: run() does not see it.                         *)
SkipRecord ==
  /\ phase = "read"
  /\ L!SkipUndecodable \/ L!SkipUnsupported
  /\ UNCHANGED <<config, phase, file_index, locals, totals, tracking, in_band>>

(* The part of a wire message run() looks at.  On CBBO the action byte is  *)
(* a reserved byte of the schema and can hold anything.                    *)
Message == [instrument : Instruments, action : {"T", "A", "M"}, size : Sizes,
            flags : FlagSets]

from_cmbp1(m) == m

(* Fault: reads the reserved byte as an action                           *)
from_cbbo_reserved_byte(m) == m

from_cbbo(m) == [m EXCEPT !.action = "unavailable"]

(* Fault: no counter for other actions                                   *)
action_counter_unmatched(record) ==
  CASE record.action = "T" -> "action_trade"
    [] record.action = "A" -> "action_quote"
    [] OTHER -> "uncounted"

action_counter(record) ==
  CASE record.action = "T" -> "action_trade"
    [] record.action = "A" -> "action_quote"
    [] OTHER -> "action_other"

trade_size(record) == IF record.action = "T" THEN record.size ELSE 0

(* Contracts the record adds to the O/S numerator.                         *)
opvol(record) ==
  LET dte == contract_map[record.instrument] - trading_date
  IN  IF dte >= DteMin /\ dte <= DteMax THEN trade_size(record) ELSE 0

(* Fault: does not count the record as decoded                           *)
UnknownInstrument_undecoded(record) ==
  /\ record.instrument \notin DOMAIN contract_map
  /\ diag' = Bump({"unknown_instrument"})
  /\ UNCHANGED <<locals, tracking, in_band>>

UnknownInstrument(record) ==
  /\ record.instrument \notin DOMAIN contract_map
  /\ diag' = Bump({"total_decoded", "unknown_instrument"})
  /\ UNCHANGED <<locals, tracking, in_band>>

(* The moneyness fallback applies when the underlying estimate is not      *)
(* positive, which only a price that is not positive can make it.          *)
Dispatch(record, fallback) ==
  /\ record.instrument \in DOMAIN contract_map
  /\ fallback => ~prices[trading_date]
  /\ diag' = Bump({"total_decoded", "dispatched", action_counter(record)}
                    \cup record.flags
                    \cup (IF fallback THEN {"moneyness_fallback"} ELSE {}))
  /\ calls' = CallAll("process_event")
  /\ pending' = [t \in Trackers |-> pending[t] + 1]
  /\ day_opvol_os' = day_opvol_os + (IF os_enabled THEN opvol(record) ELSE 0)
  /\ day_events' = day_events + 1
  /\ in_band' = in_band + opvol(record)
  /\ UNCHANGED contract_map

Handle(record) ==
  \/ UnknownInstrument(record)
  \/ \E fallback \in BOOLEAN : Dispatch(record, fallback)

HandleRecord ==
  /\ phase = "read"
  /\ \E m \in Message :
       \/ L!YieldCmbp1 /\ Handle(from_cmbp1(m))
       \/ L!YieldCbbo /\ Handle(from_cbbo(m))
  /\ UNCHANGED <<config, phase, file_index, total_events, total_decode_errors,
                 day_index, os_daily_opvol>>

(* next() returned None: the for loop ends, the iterator stays alive.      *)
EndOfFile ==
  /\ phase = "read"
  /\ L!Eof
  /\ phase' = "harvest"
  /\ UNCHANGED <<config, file_index, locals, totals, tracking, in_band>>

-----------------------------------------------------------------------------
(* Fault: harvests one counter less                                      *)
harvested_before_F003(f) ==
  IF f \in L!LoaderCounter \ {"unsupported_rtype"} THEN records[f] ELSE 0

(* What the harvest adds to a diagnostic counter.                          *)
harvested(f) == IF f \in L!LoaderCounter THEN records[f] ELSE 0

os_entry == [date |-> trading_date, opvol |-> day_opvol_os]

(* Fault: starts the series anew each day                                *)
os_push_fresh == IF os_enabled THEN <<os_entry>> ELSE os_daily_opvol

(* The series of daily O/S numerators, after the day.                      *)
os_push ==
  IF os_enabled THEN Append(os_daily_opvol, os_entry) ELSE os_daily_opvol

(* Read the iterator's counters, end the day on every tracker, close the   *)
(* day's totals; the iterator and the day's locals then go out of scope.   *)
CloseDay ==
  /\ phase = "harvest"
  /\ diag' = [f \in DiagField |-> diag[f] + harvested(f)]
  /\ total_decode_errors' = total_decode_errors + records["decode_errors"]
  /\ calls' = CallAll("end_of_day")
  /\ total_events' = total_events + day_events
  /\ os_daily_opvol' = os_push
  /\ day_index' = day_index + 1
  /\ decoder' = L!FreshDecoder
  /\ records' = L!FreshRecords
  /\ logged' = L!NothingLogged
  /\ contract_map' = << >>
  /\ day_events' = 0
  /\ day_opvol_os' = 0
  /\ phase' = "closing"
  /\ UNCHANGED <<config, file_index, tape, pending, in_band>>

(* Fault: resets no tracker                                              *)
ResetDay_forgotten ==
  /\ phase = "closing"
  /\ file_index' = file_index + 1
  /\ phase' = "days"
  /\ UNCHANGED <<config, iterator, locals, totals, tracking, in_band>>

(* reset_day() on every tracker, then the next file.                       *)
ResetDay ==
  /\ phase = "closing"
  /\ calls' = CallAll("reset_day")
  /\ pending' = [t \in Trackers |-> 0]
  /\ file_index' = file_index + 1
  /\ phase' = "days"
  /\ UNCHANGED <<config, iterator, locals, totals, in_band>>

(* Fault: ends without resetting the last day                            *)
Finish_unreset ==
  /\ phase = "closing"
  /\ file_index = Len(files)
  /\ calls' = CallAll("finalize")
  /\ phase' = "done"
  /\ UNCHANGED <<config, file_index, iterator, locals, totals, pending, in_band>>

(* All files done: every tracker makes its report, and run() returns Ok.   *)
Finish ==
  /\ phase = "days"
  /\ file_index > Len(files)
  /\ calls' = CallAll("finalize")
  /\ phase' = "done"
  /\ UNCHANGED <<config, file_index, iterator, locals, totals, pending, in_band>>

Returned ==
  /\ phase \in {"done", "failed"}
  /\ UNCHANGED vars

Next ==
  \/ Start \/ NoFiles \/ RejectDay \/ BeginDay \/ OpenFails \/ OpenFile
  \/ SkipRecord \/ HandleRecord \/ EndOfFile
  \/ CloseDay \/ ResetDay \/ Finish \/ Returned

Spec == Init /\ [][Next]_vars

(* One thread runs run() and nothing it waits for can withhold a step: the *)
(* file is local, and a decoder that fails still hands out an outcome.     *)
FairSpec == Spec /\ WF_vars(Next)
-----------------------------------------------------------------------------
TypeOK ==
  /\ files \in Discoveries
  /\ prices \in UNION { [S -> BOOLEAN] : S \in SUBSET Dates }
  /\ os_enabled \in BOOLEAN
  /\ phase \in Phases
  /\ file_index \in 1..(Len(files) + 1)
  /\ L!TypeOK
  /\ contract_map \in ContractMaps
  /\ day_events \in Nat
  /\ day_opvol_os \in Nat
  /\ diag \in [DiagField -> Nat]
  /\ total_events \in Nat
  /\ total_decode_errors \in Nat
  /\ day_index \in Nat
  /\ os_daily_opvol \in Seq([date : Dates, opvol : Nat])
  /\ calls \in [Trackers -> [Method -> Nat]]
  /\ pending \in [Trackers -> Nat]
  /\ in_band \in Nat

(* Nothing the decoder handed out over the whole run disappears: it is in  *)
(* the diagnostics, or still in the counters of the open iterator that the *)
(* harvest will read.  This is what the harvest after the loop, and the    *)
(* by_ref() that keeps the iterator alive for it, are for (F-003).         *)
NothingDroppedSilently ==
  /\ tape["cmbp1"] + tape["cbbo"] = diag["total_decoded"]
  /\ tape["error"] + tape["short"] = diag["decode_errors"] + records["decode_errors"]
  /\ tape["unsupported"] = diag["unsupported_rtype"] + records["unsupported_rtype"]
  /\ tape["cbbo"] = diag["cbbo_action_unavailable"] + records["cbbo_action_unavailable"]
  /\ total_decode_errors = diag["decode_errors"]

(* The two debug_assert!s at the end of run(), here at every step: the     *)
(* conservation law of diagnostics.rs, and the day totals against it.      *)
Conservation ==
  /\ diag["total_decoded"] = diag["unknown_instrument"] + diag["dispatched"]
  /\ total_events + day_events = diag["dispatched"]

(* The action counters partition the dispatched events, the other          *)
(* observations never exceed them, and the silent Otm fallback of the      *)
(* moneyness classifier stays unused as long as every price is positive.   *)
Observability ==
  /\ diag["action_trade"] + diag["action_quote"] + diag["action_other"]
       = diag["dispatched"]
  /\ \A f \in Flag \cup {"moneyness_fallback"} : diag[f] <= diag["dispatched"]
  /\ (\A d \in DOMAIN prices : prices[d]) => diag["moneyness_fallback"] = 0

(* A CBBO record has no action: each one that is dispatched lands in       *)
(* action_other, and a run over CBBO files alone reports no trade and no   *)
(* O/S volume, whatever the reserved byte of the schema holds.             *)
CbboNeverTrades ==
  /\ tape["cbbo"] <= diag["action_other"] + diag["unknown_instrument"]
  /\ tape["cmbp1"] = 0 =>
       /\ diag["action_trade"] = 0
       /\ day_opvol_os = 0
       /\ \A k \in 1..Len(os_daily_opvol) : os_daily_opvol[k].opvol = 0

(* Where run() is says which days are behind it: the files before the      *)
(* current one were all profiled with a price of their date, and outside   *)
(* the record loop nothing of a day is left in the locals.                 *)
Progress ==
  /\ file_index = day_index + (IF phase = "closing" THEN 0 ELSE 1)
  /\ \A k \in 1..day_index : files[k] \in CalendarDates \cap DOMAIN prices
  /\ phase \in {"open", "read", "harvest", "closing"} =>
       /\ file_index <= Len(files)
       /\ trading_date \in CalendarDates \cap DOMAIN prices
  /\ phase = "done" => file_index = Len(files) + 1
  /\ phase \notin {"read", "harvest"} =>
       /\ day_events = 0
       /\ day_opvol_os = 0
       /\ records = L!FreshRecords

(* Every tracker is given exactly the dispatched events, holds exactly     *)
(* those of the day in progress in its per-day accumulators, and has had   *)
(* the day-level calls of as many days as run() counts.                    *)
TrackerAgrees(t) ==
  /\ calls[t]["process_event"] = diag["dispatched"]
  /\ calls[t]["end_of_day"] = day_index
  /\ calls[t]["reset_day"] = IF phase = "closing" THEN day_index - 1 ELSE day_index
  /\ calls[t]["begin_day"] - day_index \in
       CASE phase \in {"open", "read", "harvest"} -> {1}
         [] phase = "failed" -> {0, 1}
         [] OTHER -> {0}
  /\ calls[t]["finalize"] = IF phase = "done" THEN 1 ELSE 0
  /\ phase # "closing" => pending[t] = day_events

TrackersAgree == \A t \in Trackers : TrackerAgrees(t)

(* Every `?' of the loop body stands before the first record of the day:   *)
(* however run() returns, no tracker is left holding part of a day.        *)
OnlyWholeDays ==
  phase \in {"done", "failed"} =>
    /\ day_events = 0
    /\ \A t \in Trackers :
         pending[t] = 0 /\ calls[t]["reset_day"] = calls[t]["end_of_day"]

(* Ok means that every discovered file was profiled as a day: a date with  *)
(* no price, an impossible date or an unreadable file is never skipped.    *)
OkCoversEveryFile ==
  phase = "done" =>
    /\ day_index = Len(files)
    /\ \A k \in 1..Len(files) : files[k] \in CalendarDates \cap DOMAIN prices

OpvolSum[k \in 0..Len(os_daily_opvol)] ==
  IF k = 0 THEN 0 ELSE OpvolSum[k - 1] + os_daily_opvol[k].opvol

(* No in-band contract is lost between two days or counted in both: the    *)
(* days' numerators and the one in progress add up to the run's volume.    *)
(* The series has one entry per closed day, in the order of the files,     *)
(* each with a price of its date: the join of compute_os_series never      *)
(* misses (os_ratio.rs calls a miss unreachable from the profiler).        *)
OsVolumeConserved ==
  os_enabled =>
    /\ OpvolSum[Len(os_daily_opvol)] + day_opvol_os = in_band
    /\ Len(os_daily_opvol) = day_index
    /\ \A k \in 1..day_index :
         os_daily_opvol[k].date = files[k] /\ files[k] \in DOMAIN prices

(* The stage of a tracker, read off the calls it has had.                  *)
stage_of(t) ==
  LET n == calls[t]
  IN  IF n["finalize"] > 0 THEN "finalized"
      ELSE IF n["begin_day"] > n["end_of_day"] THEN "in_day"
      ELSE IF n["end_of_day"] > n["reset_day"] THEN "closed"
      ELSE "idle"

Lifecycle(t) == INSTANCE OptionsTracker WITH
                  stage <- stage_of(t),
                  pending <- pending[t],
                  seen <- calls[t]["process_event"],
                  days <- calls[t]["end_of_day"]

(* run() implements OptionsTracker!Spec for every tracker: it calls the    *)
(* methods in the order of the trait and begins no day on pending events.  *)
TrackersSeeLifecycle ==
  /\ \A t \in Trackers : Lifecycle(t)!Init
  /\ [][\A t \in Trackers : [Lifecycle(t)!Next]_(Lifecycle(t)!vars)]_vars

(* run() returns.  What this needs is a decoder that ends the file after   *)
(* finitely many outcomes: next() loops over errors without a limit.       *)
Terminates == <>(phase \in {"done", "failed"})

(* diagnostics.rs says of cbbo_action_unavailable that it counts records   *)
(* that were dispatched and is bounded above by `dispatched'.  The loader  *)
(* counts a CBBO record when it yields it, known instrument or not.        *)
CbboBoundedByDispatched ==
  diag["cbbo_action_unavailable"] <= diag["dispatched"]
=============================================================================
