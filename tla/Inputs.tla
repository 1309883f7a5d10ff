------------------------------- MODULE Inputs -------------------------------
(***************************************************************************)
(* What the command reads before and while it profiles: the daily prices,  *)
(* from the configured OHLCV file or built in (main() of profile_opra.rs,  *)
(* load_underlying_prices_from_equs() of profiler.rs), the directory of    *)
(* day files (discover_files()), and how run() brings the two together     *)
(* day by day, for the moneyness and for the O/S report.                   *)
(*                                                                         *)
(* A file name is a sequence of pieces; eight digits are one piece.  Its   *)
(* path, the decoding of OHLCV timestamps, and the trackers are left out:  *)
(* Profiler models the processing of a day.  Module Command takes the      *)
(* steps.                                                                  *)
(***************************************************************************)
EXTENDS Integers, Sequences, FiniteSets, SequencesExt

CONSTANTS
  Fallback,        \* load_nvda_fallback_prices()
  DateOf,          \* piece of eight digits -> the day number it stands for
  CalendarDates,   \* the day numbers that are real dates
  None             \* Option::None; no directory; an outcome that is an error

Price == [date : Nat, open : Int, close : Int, volume : Nat]

(* date: the pattern has "{date}", between its prefix and its suffix.      *)
Pattern == [prefix : Seq(STRING), date : BOOLEAN, suffix : Seq(STRING)]

(* The [input] section.  A date filter is a day number, or None.           *)
Configuration ==
  [symbol : STRING, underlying_prices_file : STRING \cup {None},
   filename_pattern : Pattern,
   date_start : Nat \cup {None}, date_end : Nat \cup {None}]

VARIABLES
  input,              \* the [input] section
  directory,          \* data_dir: a set of file names
  price_file,         \* the OHLCV file: what its decoder hands out
  reading,            \* what the command is doing, or how it ended
  decoded,            \* outcomes of the price file consumed
  underlying_prices,  \* main()'s prices
  unread,             \* entries read_dir() has still to return
  files,              \* discover_files(): dates of the files listed
  profiled            \* history: the days run() profiled, with their price

environment == <<input, directory, price_file>>

-----------------------------------------------------------------------------
(* t has the entries of s in ascending order of their dates, those of one  *)
(* date in the order they had: slice::sort_by_key and sort_by are stable.  *)
sorted_by_date(s, t) ==
  \E p \in Bijection(DOMAIN s, DOMAIN s) :
    /\ \A j, k \in DOMAIN s : j < k =>
         \/ s[p[j]].date < s[p[k]].date
         \/ s[p[j]].date = s[p[k]].date /\ p[j] < p[k]
    /\ t = [k \in DOMAIN s |-> s[p[k]]]

Exit(status) ==
  /\ reading' = status
  /\ UNCHANGED <<environment, decoded, underlying_prices, unread, files, profiled>>

UsePriceFile ==
  /\ reading = "start"
  /\ input.underlying_prices_file # None
  /\ Exit("prices")

UseFallback ==
  /\ reading = "start"
  /\ input.underlying_prices_file = None /\ input.symbol = "NVDA"
  /\ underlying_prices' = Fallback
  /\ reading' = "discover"
  /\ UNCHANGED <<environment, decoded, unread, files, profiled>>

RefuseFallback ==
  /\ reading = "start"
  /\ input.underlying_prices_file = None /\ input.symbol # "NVDA"
  /\ Exit("exit_1")

usable(price) == price.open > 0 /\ price.close > 0

DecodePrice ==
  /\ reading = "prices"
  /\ decoded < Len(price_file) /\ price_file[decoded + 1] # None
  /\ decoded' = decoded + 1
  /\ underlying_prices' =
       IF usable(price_file[decoded + 1])
       THEN Append(underlying_prices, price_file[decoded + 1])
       ELSE underlying_prices
  /\ UNCHANGED <<environment, reading, unread, files, profiled>>

(* Fault: falls back to the built-in prices                              *)
PriceFileFails_falls_back ==
  /\ reading = "prices"
  /\ decoded = 0 \/ (decoded < Len(price_file) /\ price_file[decoded + 1] = None)
  /\ underlying_prices' = Fallback
  /\ reading' = "discover"
  /\ UNCHANGED <<environment, decoded, unread, files, profiled>>

(* The file cannot be opened, or a record of it is damaged or no OHLCV.    *)
PriceFileFails ==
  /\ reading = "prices"
  /\ decoded = 0 \/ (decoded < Len(price_file) /\ price_file[decoded + 1] = None)
  /\ Exit("exit_1")

PricesLoaded ==
  /\ reading = "prices"
  /\ decoded = Len(price_file)
  /\ sorted_by_date(underlying_prices, underlying_prices')
  /\ reading' = "discover"
  /\ UNCHANGED <<environment, decoded, unread, files, profiled>>

-----------------------------------------------------------------------------
prefix == input.filename_pattern.prefix
suffix == input.filename_pattern.suffix

(* Fault: one of the two is enough                                       *)
named_like_either(name) == IsPrefix(prefix, name) \/ IsSuffix(suffix, name)

named_like(name) == IsPrefix(prefix, name) /\ IsSuffix(suffix, name)

(* &name[prefix.len()..name.len() - suffix.len()] panics.                  *)
unsliceable(name) == Len(prefix) + Len(suffix) > Len(name)

date_part(name) == SubSeq(name, Len(prefix) + 1, Len(name) - Len(suffix))

in_range(date) ==
  /\ input.date_start # None => date >= input.date_start
  /\ input.date_end # None => date <= input.date_end

listed(name) ==
  /\ named_like(name)
  /\ \E d \in DOMAIN DateOf : date_part(name) = <<d>> /\ in_range(DateOf[d])

DiscoverFails ==
  /\ reading = "discover"
  /\ directory = None \/ ~input.filename_pattern.date
  /\ Exit("exit_1")

ReadDirectory ==
  /\ reading = "discover"
  /\ directory # None /\ input.filename_pattern.date
  /\ unread' = directory
  /\ reading' = "listing"
  /\ UNCHANGED <<environment, decoded, underlying_prices, files, profiled>>

(* The entries come in any order.                                          *)
ReadEntry ==
  /\ reading = "listing"
  /\ \E name \in unread :
       /\ ~(named_like(name) /\ unsliceable(name))
       /\ unread' = unread \ {name}
       /\ files' = IF listed(name)
                   THEN Append(files, [date |-> DateOf[date_part(name)[1]]])
                   ELSE files
  /\ UNCHANGED <<environment, reading, decoded, underlying_prices, profiled>>

(* The text before and after the date overlap in the name.                 *)
ReadEntryPanics ==
  /\ reading = "listing"
  /\ \E name \in unread : named_like(name) /\ unsliceable(name)
  /\ Exit("panicked")

(* read_dir() itself, or an entry of it, is an error.                      *)
ReadEntryFails ==
  /\ reading = "listing"
  /\ Exit("exit_1")

AllRead ==
  /\ reading = "listing" /\ unread = {}
  /\ sorted_by_date(files, files')
  /\ reading' = IF files = << >> THEN "exit_1" ELSE "days"
  /\ UNCHANGED <<environment, decoded, underlying_prices, unread, profiled>>

-----------------------------------------------------------------------------
day == files[Len(profiled) + 1].date

priced(date) == \E k \in DOMAIN underlying_prices : underlying_prices[k].date = date

(* find(): the first price of the date.                                    *)
price_of(date) ==
  LET k == SelectInSeq(underlying_prices, LAMBDA p : p.date = date)
  IN  underlying_prices[k]

ProfileDay ==
  /\ reading = "days" /\ Len(profiled) < Len(files)
  /\ day \in CalendarDates /\ priced(day)
  /\ profiled' = Append(profiled, price_of(day))
  /\ UNCHANGED <<environment, reading, decoded, underlying_prices, unread, files>>

RejectDay ==
  /\ reading = "days" /\ Len(profiled) < Len(files)
  /\ day \notin CalendarDates \/ ~priced(day)
  /\ Exit("exit_1")

(* run() returns Ok; the O/S report is made of the same prices.            *)
Finish ==
  /\ reading = "days" /\ Len(profiled) = Len(files)
  /\ Exit("ok")

LoadPrices ==
  UsePriceFile \/ UseFallback \/ RefuseFallback
    \/ DecodePrice \/ PriceFileFails \/ PricesLoaded

Run ==
  DiscoverFails \/ ReadDirectory
    \/ ReadEntry \/ ReadEntryPanics \/ ReadEntryFails \/ AllRead
    \/ ProfileDay \/ RejectDay \/ Finish
-----------------------------------------------------------------------------
(* D10 of the design notes: prices are those of the configured file, all   *)
(* of it, or, without one and for NVDA only, the built-in ones.            *)
OneSourceOfPrices ==
  IF input.underlying_prices_file # None
  THEN /\ None \notin ToSet(price_file)
       /\ ToSet(underlying_prices) = {p \in ToSet(price_file) : usable(p)}
  ELSE input.symbol = "NVDA" /\ underlying_prices = Fallback

(* The dates of the files the configuration asks for.                      *)
asked_for ==
  {DateOf[d] : d \in {e \in DOMAIN DateOf :
                        prefix \o <<e>> \o suffix \in directory /\ in_range(DateOf[e])}}

(* A run that succeeds has profiled exactly the dates asked for, each once *)
(* and in order, however the directory lists its entries and whatever else *)
(* is in it; on one source of prices, and on a positive price of the date  *)
(* at either end of each day.  A price file that fails half way never      *)
(* leaves a run on part of it or on the built-in prices.                   *)
OkProfilesWhatWasAsked ==
  reading = "ok" =>
    /\ {profiled[k].date : k \in DOMAIN profiled} = asked_for
    /\ \A j, k \in DOMAIN profiled : j < k => profiled[j].date < profiled[k].date
    /\ OneSourceOfPrices
    /\ \A k \in DOMAIN profiled :
         profiled[k] \in ToSet(underlying_prices)
           /\ profiled[k].open > 0 /\ profiled[k].close > 0

(* Files the pattern does not ask for never disturb the listing, unless    *)
(* the pattern can overlap with itself: its prefix ends as its suffix      *)
(* begins.                                                                 *)
OnlyOverlapPanics ==
  reading = "panicked" =>
    \E n \in 1..Len(prefix) :
      /\ n <= Len(suffix)
      /\ SubSeq(prefix, Len(prefix) - n + 1, Len(prefix)) = SubSeq(suffix, 1, n)

(* The O/S report of the run: compute_os_series() on the profiled days and *)
(* the same prices, with one contract in the band on every day.            *)
Os == INSTANCE OsRatio WITH
        Dates <- CalendarDates, OptionVolumes <- {1}, EquitySeries <- {},
        rolling_window_days <- 1, ROUND_LOT_SIZE <- 100,
        opvol_per_day <- [k \in DOMAIN profiled |->
                            [date |-> profiled[k].date, opvol |-> 1]],
        eqvol_per_day <- [k \in DOMAIN underlying_prices |->
                            [date |-> underlying_prices[k].date,
                             volume |-> underlying_prices[k].volume]]

(* The O/S report tells when the equity volume was missing: on built-in    *)
(* prices every ratio is null, and a null is never a join that missed.     *)
(* Of two prices of one date the report takes the last one, where run()    *)
(* takes the first: a null can come of the record run() did not use.       *)
NullMeansNoVolume ==
  reading = "ok" =>
    /\ Os!n_join_miss = 0
    /\ input.underlying_prices_file = None => Os!n_finite(Os!os_values) = 0
    /\ \A k \in DOMAIN profiled :
         Os!os_values[k] = None <=>
           \E j \in DOMAIN underlying_prices :
             /\ underlying_prices[j].date = profiled[k].date
             /\ \A i \in DOMAIN underlying_prices :
                  i > j => underlying_prices[i].date # profiled[k].date
             /\ underlying_prices[j].volume = 0
=============================================================================
