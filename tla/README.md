# A TLA+ verification of the OPRA statistical profiler

`opra-statistical-profiler` reads one OPRA file per trading day, in a single
pass and on one thread. It enriches every record into an event and hands the
event to a set of trackers, which accumulate statistics. At the end it writes
one JSON report per tracker. What can go wrong in it is mostly silent: a record
that is neither counted nor dispatched, a per-day accumulator that survives its
day, two reports about the same trades that disagree, an hour converted to UTC
twice. The modules here state what must hold, check it with TLC on small
instances, and prove the core for every size with TLAPS.

## 1. The system

| Part (source under `src/src/`) | State it keeps | Operations | Correct when |
|---|---|---|---|
| Loader, `loader.rs` | decoder position, four counters, warnings given | `new`, `open`, `next`, the getters | every outcome of the decoder is in exactly one counter; nothing is skipped without notice |
| Run, `profiler.rs: run` | diagnostics, run totals, the locals of one day, the O/S series | one call; a day loop around a record loop; seven early returns | `Ok` means all files; nothing is lost between loader, diagnostics and trackers; volume stays with its day |
| Diagnostics, `diagnostics.rs` | counters | `conservation_check` | the documented relations between the counters hold at all times |
| Tracker trait, `lib.rs` | (none) | `begin_day`, `process_event`, `end_of_day`, `reset_day`, `finalize` | called in this order, on clean per-day state |
| Event, `event.rs`, `report_utils.rs`, enrichment in `profiler.rs` | one event | accessors, buckets | the accessors agree on which quote is valid; the buckets partition |
| Eight trackers, `trackers/*.rs` | totals over the run, per-day accumulators | the five methods of the trait | breakdowns add up, reports agree, days do not leak into each other |
| Session clock, `profiler.rs` and `greeks.rs` | (pure) | session bounds, estimate, time to expiry | the two copies of the conversion agree; the estimate moves at the pace of the session |
| Moneyness, `options_math/moneyness.rs` | (pure) | `classify` | put and call mirror each other; classes follow the price |
| O/S ratio, `os_ratio.rs` | (pure) | `compute_os_series` | Delta O/S never looks ahead; every null is accounted for |
| Output and command, `profiler.rs: write_output`, `bin/profile_opra.rs` | the output directory | load, run, write report by report | exit status 0 means complete output, of what the configuration asked for, on the prices it names |
| File discovery and price loading, `profiler.rs`, `bin/profile_opra.rs` | (pure, file system) | `discover_files`, `load_underlying_prices_from_equs`, the built-in prices | one source of prices, read to its end; exactly the days asked for, in order |
| Contract map, `contract.rs` | instrument to contract, for one day | `from_dbn_metadata`, `parse_occ_symbol`, `get` | a record has the contract its id means on its day; an unparsable symbol makes an unknown instrument, never a wrong one |
| Solver, `options_math/bsm.rs`, called by `greeks.rs` | the iteration | `implied_vol`, `delta`, `gamma`, `vega`, `minutes_to_years` | it ends; it never leaves the domain of the formulas; no quote is refused for being late |
| Configuration, `config.rs` | the fields | `from_file`, the defaults, tracker registration in `main` | a file that loads is used entirely; what it leaves out has one default |

**How the parts interact.** `main` chooses the price source and the trackers
and calls `run`, then `write_output`. `run` discovers the files and, for each,
finds the price of the date (an error if there is none), calls `begin_day` on
all trackers, opens the file, builds the contract map, drains the loader's
iterator into the trackers, reads the iterator's counters, calls `end_of_day`,
appends to the O/S series and calls `reset_day`. After the last file it
collects `finalize()` of all trackers and `compute_os_series`.

**What is hard.** There are no threads and nothing is persisted but the reports.
The difficulty is in long sequences: errors returned in the middle of a day or
of a run, counters kept by one object and read by another after the loop,
per-day state cleared only by `reset_day`, conditions written once per tracker,
boundaries of time, price and position, ids that change their meaning between
files, inputs that fail half way or come in any order, an iteration that need
not converge, and writes that fail half way.
`PROJECT.json` lists these hazards, each at its line.

## 2. Modules

| Module | Models | State and actions |
|---|---|---|
| `Loader` | `Cmbp1RecordIterator` | `records` are the four counters, `logged` the warnings. One action per arm of `match decoded`. `decoder` and the choice of outcome stand for the external dbn crate; `tape` is history. |
| `OptionsTracker` | the trait's lifecycle | abstract: `stage`, `pending`, `seen`, `days`; one action per method |
| `Profiler` | `run()`, composed with `Loader` | `phase` is the place in the function, the other variables are its locals. Actions `Start` to `Finish` follow its text; `ReturnErr` is what every early return leaves as it was. Trackers are abstracted to `calls` and `pending`. |
| `ProfilerProofs`, `LoaderProofs`, `SessionClockProofs`, `ImpliedVolProofs`, `TrackerSetProofs`, `SymbologyProofs`, `CommandProofs`, `OsRatioProofs` | | theorems about `Profiler`, `Loader`, `SessionClock`, `ImpliedVol`, `TrackerSet`, `Symbology`, `Command`, `OsRatio` |
| `OptionsEvent` | enrichment, accessors, buckets | operators only; NaN is 0 |
| `Accumulators` | hft-statistics (external) | a count and a sum |
| `QualityTracker`, `SpreadTracker`, `ZeroDteTracker`, `PremiumDecayTracker`, `VolumeTracker`, `GreeksTracker`, `PutCallRatioTracker`, `EffectiveSpreadTracker` | one tracker each | `self` is the struct (field names kept); one action per method. Curves and distributions are the number of samples they were given, or count and sum where a report relates their values. `finalize` is the record of what the report says. |
| `TrackerSet` | the eight trackers under `OptionsTracker` | each lifecycle step taken on all trackers; `today` is history |
| `SessionClock` | session bounds, estimate, time to expiry, `classify` | `now` runs through a New York day; exact integer arithmetic, the estimate scaled by the session length, ranges in thousandths |
| `OsRatio` | `compute_os_series` | state is the input, the report is recomputed; ratios are exact fractions. The `k`-th day is the one with `k - 1` days before it, which is what the sort makes of days with a date each; a sum is a recursive function of the position |
| `Inputs` | the choice and loading of prices, `discover_files`, the price lookup of `run()`, composed with `OsRatio` | `reading` is the place in the program; one action per outcome of each step of `main`, of the decode loop and of the directory loop. File names are sequences of pieces, eight digits being one; dates are day numbers. `sorted_by_date` is what a stable sort promises of its result |
| `Symbology` | `ContractMap`, composed with `QualityTracker` | `metadata` and `contract_map` of the day; `OpenDay` builds the map, the other actions are those of the day in `run()`. dbn's point-in-time map is external. `log` is history |
| `ImpliedVol` | one sampled quote through `implied_vol` and back in the `GreeksTracker` | `stage` is the place in the call; one action per way out of it and one for a Newton step. Volatilities are levels of a grid, the pricing function is any monotone one, the length of a step is free |
| `Config` | `ProfilerConfig::from_file`, registration of trackers | a file is its headings and its assignments; `field_default` and `section_default` are the two sources of defaults in the code; `loading` is the place in `main`, `block` how many of its blocks `if config.trackers.<name>` are passed, one to a step |
| `Output` | `write_output` and the command around it | `process` is the state of the process, `dir` maps (position, name) to what the file holds; steps of several runs |
| `Command` | `main` from the configuration file to the exit status | the variables of `Config`, `Inputs` and `Output`; each action is one of theirs, allowed where `main` has got to. `StartCommand` takes whatever files are there and an empty memory |
| `MCProfiler`, `MCTrackerSet`, `MCOsRatio`, `MCSymbology`, `MCImpliedVol`, `MCCommand` | | instances for TLC |

`Profiler` composes `Loader` through `INSTANCE`: a record is yielded by a step
of the loader and handled by `run()` in the same step. `TrackerSet` composes the
trackers with `OptionsTracker`. That `Profiler` implements `OptionsTracker` for
every tracker (`TrackersSeeLifecycle`) is what entitles `TrackerSet` to let
`OptionsTracker` play the caller. `Command` composes `Config`, `Inputs` and `Output`:
the `[input]` section `Inputs` works on is what `Config` made of the file, the reports
`Output` writes are those of the trackers `Config` registered. The days are
profiled there by what `run()` does around them; what it does inside of one is
`Profiler`. `Inputs` hands the prices it loaded and the days
it profiled to `OsRatio` through `INSTANCE`, and `Symbology` the ids it dispatches
to `QualityTracker`, the one tracker that keeps ids over days.

**Faulty variants.** A definition preceded by a comment `Fault:` is a plausible
bug in the definition that follows it. No action uses it; putting it in place of
the right definition violates the property it is paired with under "mutants" in
`PROJECT.json`, which shows that the property can fail. Some are bugs the code
once had: `harvested_before_F003`, `rth_open_twice_converted`,
`reset_day_keeps_counter`.

## 3. Runs

| Run | Shows | Bounds, and why they are enough |
|---|---|---|
| `loader` | every outcome counted once; no silent skip | 13 outcomes of five kinds against the cap of 10 that the code has, so the cap is reached and passed by three |
| `profiler_control` | what `Ok` and `Err` mean; trackers in step; lifecycle refined; termination | three dates of which one is impossible, any subset with a file, any with a price, one outcome per file: two full days and a third that fails, or one that is missing. Two trackers |
| `profiler_counting` | nothing lost, conservation, observability, O/S volume conserved and joined | two days of up to two outcomes, two instruments known or not, in or out of the O/S band, prices of any sign. Two days show what crosses a day; one record of each side of every branch, in both orders |
| `cbbo_bound` (violation) | finding 1 | one file, one record |
| `tracker_set` | states and reports agree with each other; days do not leak; quotes are sampled at the right rate | none to two days of none to four events in all, from eleven kinds that reach each branch of each tracker: contracts that are in turn of today, of tomorrow and expired, trades at each place of the BBO, denominators that are zero in some state and not in another, several samples of a day and days that end in the middle of an interval of two |
| `trade_count_curve` (violation) | finding 3 | one day of trades |
| `session_clock` | clocks agree; drift at the pace of the session; classes mirrored and in order | all 1440 minutes of a day at either offset, rising, falling and flat days, strikes that cross band edges with the drift |
| `session_postmarket` (violation) | finding 2 | the same day |
| `os_ratio` | no look-ahead; deviation from the right dates; nulls accounted for; summaries speak of the same values | four dates in every order, window of two: warm-up, a full window and a window that moved; equity volumes missing, zero, duplicated |
| `command` | the configuration is the file; `Ok` means the days asked for, on one source of prices; when a listing panics; nulls of O/S; exit 0 is complete; partial output is a prefix | two runs over one directory, each in any of 244 environments: six `[input]` sections (both kinds of price, filters, another symbol, patterns with and without a date, one that overlaps with itself) on seven directories and five price files (unsorted, with a zero, with two records of a date, damaged after two records, empty), and thirty-odd ways to write, omit, misplace or misspell the rest of the file. Three trackers: a report can move by up to three positions over what the first run left |
| `symbology` | contract of its own day; daily contract counts | three days, each with any of five symbologies: ids given out anew, an id that changes hands inside a file, symbols that fail each test of the parser, a file of another date; two records a day |
| `implied_vol` | stays in the domain, however late the quote; every answer comes | a grid of five volatilities with every interval of solutions (none included) and every set of flat levels; prices at, above and below the intrinsic value, before, at and after close and expiration; four iterations, enough to overshoot in both directions |

Runs that say `CHECK_DEADLOCK FALSE` model something that ends: a file, a day, a
run. `Profiler` says it with the action `Returned` and is checked for deadlock.

**Fairness.** The liveness properties need weak fairness of `Next`, in `FairSpec`
of `Profiler` and in `Spec` of `ImpliedVol`. The program is one thread that
waits for nothing but local files, so as long as it has a step it takes one.
`Terminates` also rests on the decoder handing out finitely many outcomes
(`MaxRecords`): `next()` retries after errors without a limit, and would not
return on a decoder that reports one for ever. `EveryAnswerComes` rests on
nothing else: the iteration is capped by the code, and without the cap the
model does run for ever. `Command` states no fairness: it can be killed at any
time.

## 4. Findings

1. `cbbo_action_unavailable` is documented as a count of dispatched records,
   bounded by `dispatched` (`diagnostics.rs:59`, `:235`). The loader counts
   yielded records. With unknown instruments it exceeds `dispatched`; what
   `diagnostics.rs:64` says, that it equals `total_decoded` on a pure CBBO
   file, does hold (`EveryOutcomeCounted`, `NothingDroppedSilently`).
2. `profiler.rs:222` says post-market events use the close. The time of day is
   taken modulo 24 hours of UTC: from 19:00 (winter) or 20:00 (summer) in New
   York on, the open is used.
3. `README.md:98` lists an intraday curve of the trade count. The curve reports
   the mean of a sample that is 1 for each trade, so it is 1 in every minute
   (`zero_dte.rs:133`, `:195`). The count beside it is the number.

Each of these is the counterexample of a run. Further disagreements between the
code and its documents, met while modelling and visible in the definitions
named, have no run of their own:

- `event.rs:63` says `trade_price` is NaN for quote-only events. It is the
  record's price for every record; on CBBO input that is the last trade price
  (`OptionsEvent.enrich`). No tracker reads it without `is_trade()`.
- `README.md:177` says of `write_summaries`: write JSON reports to disk. Nothing
  reads it; reports are always written (`Command.StartWriting`).
- `CODEBASE.md:139` says that the same OHLCV records supply prices and volume. With
  two records for one date the price is of the first one (`profiler.rs:107`,
  `Inputs.price_of`) and the volume of the last one (`os_ratio.rs:76`,
  `OsRatio.eqvol_map`); `NullMeansNoVolume` has to speak of the last record.
- `CODEBASE.md:647` lists unique contracts per day and total. The total is a set of
  instrument ids over all days (`quality.rs:66`), which name contracts only on
  their own day; `DailyContractsCounted` holds of the daily counts alone.
- `README.md:153` calls `input.symbol` the underlying symbol for contract
  filtering. No contract is filtered by its underlying (`contract.rs:127`,
  `Symbology.from_dbn_metadata`).

The last three depend on data: on files with two records of a date, ids given out
anew, or contracts of several underlyings. What the data provider promises about
them is not in the repository.

## 5. What is proved

`ProfilerProofs` assumes nothing but `ProfilerAssumption`: finitely many dates,
natural sizes and expirations, a warning cap of at least one. The number of
trackers, files, instruments and records is arbitrary.

- `TypeCorrect`: `TypeOK /\ Progress` is invariant. `TypeOK` alone is not
  inductive: that `file_index` stays within the files, and that a day being read
  has a date among them, needs to know where in the loop `run()` is, which is
  `Progress`.
- `OkIsComplete`: `Ok` covers every file. It follows from `Progress` at `done`.
- `CountingLaws`: `NothingDroppedSilently`, `Conservation` and `Observability`
  are invariant together. They are inductive relative to `TypeOK /\ Progress`;
  `Progress` says that the locals of a day and the iterator's counters are zero
  outside the record loop, which is what makes `OpenFile`, which zeroes them,
  lose nothing.
- `TrackersInStep`: `TrackersAgree` is invariant, relative to `TypeOK /\ Progress`.
- `NoPartialDay`: `OnlyWholeDays`, from `TrackersAgree` and `Progress`.
- `LifecycleKept`: every step of `run()` is a step or a stutter of
  `OptionsTracker` for each tracker. `TrackersAgree` gives the stage a tracker
  is in for each phase; the proof has one step per action.

- `NoTradeFromCbbo`: `CbboNeverTrades`, inductive relative to `TypeOK`: only a
  CMBP-1 record has an action the dispatch takes for a trade.
- `RecordsConserved`, `ObservationsAgree`: `Conservation` and `Observability`, which
  `CountingLaws` states together, each by itself.
- `OsVolumeKept`: `OsVolumeConserved`, inductive relative to `TypeOK /\ Progress`. The
  sum over the days is a recursive function, so the proof goes by induction on their
  number: `LeastNumber` (a set of numbers has a least one) stands in for the
  induction rule, `SumsExist` shows that the recursion defines a function,
  `SumsAgree` that a pushed day leaves the sums before it.

The inductive invariant of the module is thus `TypeOK /\ Progress /\ Counted /\
TrackersAgree /\ CbboNeverTrades /\ OsVolumeConserved`, each part proved from the ones
before it.

`LoaderProofs` assumes `LoaderAssumption`: natural bounds, a warning cap of at
least one. The length of the file is arbitrary.

- `OutcomesCounted`: `EveryOutcomeCounted` is inductive with the types.
- `SkipsAnnounced`: the action property `NoSilentSkip`. A step that skips a record
  without a line of its own does so because the count is past the cap; that the
  notice was printed by then is not in the step. `NoticePrinted` (the notice is
  there just when the count has got to the cap) is the invariant that says so.

`SessionClockProofs` assumes `SessionAssumption`: any length of a minute, positive
prices, any strikes, any ranges. Arithmetic is exact. `Elapsed` is the part of the
session that is over; `EstimateByElapsed` and `RemainingByElapsed` say that the
estimate and the Greeks' clock are both functions of it, and the rest follows.

- `OneSession`: `ClocksAgree`.
- `Mirror`: `RightsMirror`. A positive estimate (`EstimatePositive`) keeps a strike
  from being on both sides of a range (`SidesExclude`).
- `EstimatePaced`, `ClassesInOrder`: the action properties `DriftIsPaced` and
  `ClassFollowsDrift`. Besides the types they need `WithinDay`: the time of day in UTC
  starts over once in a day of New York, so when it grows it grows by the step.

`ImpliedVolProofs` assumes `ImpliedVolAssumption`: a grid of any size with the
floor of the iteration in it, any cap, any positive least time.

- `SolverInDomain`: `NeverDegenerate`. It is not inductive: what is asked of the
  formulas in the next step depends on the strike, the time and the bounds of the
  search that were fixed before. `InDomain` says that the time is the least one
  at least once the caller has set it, that the iteration has begun only with a
  positive strike, and that each level tried is one of the grid.

`TrackerSetProofs` assumes the assumptions of `TrackerSet` and `OptionsEvent`: any
contracts, any records with integer prices, natural sizes, any positive sampling
interval. Days and events are as many as one likes. The first part of the module says
field by field what each method does to each tracker; the second argues about a
step of the whole set. Each property has the invariant it needs, all relative to
`Typed`:

- `TypeCorrect`; `Typed` adds that the ids of a day are finitely many.
- `BreakdownsCorrect`, `SameTradesCorrect`, `SameQuotesCorrect`: `BreakdownsAddUp`,
  `SameTrades` and `SameQuotes` are inductive as they stand: every event adds the
  same to both sides, and every reset takes the same away.
- `DaysCorrect`: `DaysAddUp` leaves days without 0DTE at-the-money events out of the
  0DTE samples; `DaysInv` adds that such a day has no 0DTE at-the-money trade either.
- `PopulationsCorrect`: `PopulationsInv` adds that the day's calls traded and the
  contracts of them vanish together, and that a mid of the day comes of an event
  that made it a 0DTE day.
- `NullsCorrect`: `NullsInv` ties the nulls to the totals: all trackers close the same
  days, and the put-call ratio of a day is taken before `reset_day` forgets its calls.
- `SamplingCorrect`: the two bounds of `IvIsSampled` are not inductive, since they do
  not say where in its interval the counter is. `SamplingInv` does: within a day
  the samples are the quotes divided by the interval, rounded up, and each day that
  is over may have rounded once.
- `DayStateCorrect`: `DayStateIsOfToday` compares the state with the events of the day,
  filtered. `DayStateByPosition` says it with positions in `today`, which makes
  appending an event a step of arithmetic; `TodayInv` adds that the positions of
  mids have a first and a last one. `FirstQuoteCorrect`, the action property
  `FirstQuoteIsSampled`, follows: the counter is one short of the interval plus the
  candidates of the day, of which there is none yet.
- `CellsCorrect`: `CellsInv` bounds what the trades of each cell paid by what they were
  quoted, as long as no trade was outside (or inside) the BBO.

`SymbologyProofs` assumes `SymbologyAssumption`: symbologies in which an id has one
contract on a date and a contract one id, and dates that ascend.

- `ContractsOfTheirDay`: `ContractOfItsDay`, from `MapInv` (the map is that of the open
  file and its date) and `DatesInv` (no record of the log is of a day to come).
- `ContractsCounted`: `DailyContractsCounted` compares a sum of daily counts of ids with
  the distinct pairs of date and contract. `TodayInv` says that the tracker's ids are
  those of today's records, each under the contract of today's map; `CountInv` that the
  pairs are as many as the sum and the day in progress have; that a new id is a
  new contract is the lemma `OneContractOneId`.

`CommandProofs` assumes `CommandAssumption`: any environments with configuration files
that TOML can express, patterns and file names that are sequences of strings, any
prices, built-in prices that are positive and come without an equity volume, dates
written in one way, and reports with names of their own. Trackers, files,
runs and the order of the blocks of `main` are arbitrary.

- `ConfigCorrect`: `ConfigIsTheFile`. `LoadIsTheFile` rests on `DefaultsAgree`: the two
  sources of defaults give each field the same value.
- `PrefixCorrect`, `ExitZeroCorrect`: `PrefixWritten`, `ExitZeroIsComplete`. Neither
  says which report is to be written next, so neither is inductive. `RegisterInv` says
  which reports are registered and that their numbers have no gap (`number`,
  `RegisteredNext`); `OutputInv` that the reports before `next` are there, whole, and
  that no other file is of this run.
- `PanicsCorrect`: `OnlyOverlapPanics`, from `TooShortOverlaps`: a name that starts with
  the prefix and ends with the suffix but is shorter than both together exists only
  if the prefix ends as the suffix begins.
- `DaysCorrect`: `OkProfilesWhatWasAsked`. `FilesInv` follows the listing: the files so
  far are those of the dates of which the entry was read, each once (`DatedName`: a name
  has one date, and a date one name). `SortedElements` and `SortedAscends` say what
  sorting does, `PricesInv` that the prices so far are the usable ones of the records
  decoded, `DaysInv` that the profiled days are the first files, on a price each.
  `Phases`, the order in which `main` gets to all this, is what holds the parts
  together.
- `NullsCorrect`: `NullMeansNoVolume`, of `run()` and the O/S report together. The
  profiled days ascend, so sorting them changes nothing (`ReportDays`); each has a
  price of its date, so there is a last one (`GreatestNumber`), and that is the one
  of which the report takes the volume (`LastPriceCounts`); the ratio is null just
  where this volume is 0 (`RatioOfDay`).

`OsRatioProofs` assumes `OsRatioAssumption`: any days, volumes and series of prices, any
window, 0 included, a positive round lot, and a null that is no fraction. The only
invariant is `Typed`: no date is given twice. Everything else is about what the
function makes of its input.

- `NeverLooksAhead`: `NoLookAhead`, an action property. A day that is added after
  another one leaves its rank alone (`DaysKept`), and its row is made of ranks
  below it (`RowKept`).
- `DeltaIsAgainstPriorDates`: `DeltaAgainstPriorDates`. The window by position, the
  places before a day, is the window by date, the dates closest before it
  (`WindowIsPrior`); `PlusAdds` says that the sum of two fractions is their sum,
  whichever denominator it keeps, and `SumZero` that a sum of ratios vanishes
  only if each does.
- `SummaryAddsUp`: `SummaryTellsOfVolume`. `DaysAccounted` counts the days with a ratio,
  without a price and without a volume; `SumBounded` keeps a sum between multiples
  of two bounds of its values, from which the mean is between the extremes
  (`MeanBetween`) and the variance vanishes just if all values are the mean
  (`VarianceZero`). What a sum is after `k` values is shown through the least `k`
  where it fails (`LeastNumber`), as the days are in `OsVolumeKept`.

## 6. What is only model-checked

- `Terminates`, `EveryAnswerComes`: liveness under fairness is outside the proof
  system's fragment.
- The type invariants of `Loader` and `SessionClock` are the lemmas `LoaderTypeOK` and
  `ClockTypeOK`, that of `TrackerSet` the theorem `TypeCorrect`. They belong to no run.

## 7. Plan

Built, in this order: `Loader`, `OptionsTracker`, `Profiler`, `ProfilerProofs`, the
trackers and `TrackerSet`, `SessionClock`, `OsRatio`, `Output`, `Inputs`,
`Symbology`, `ImpliedVol`, the reports of the trackers, `Config`, `Command`,
`LoaderProofs`, `SessionClockProofs`, `ImpliedVolProofs`, `TrackerSetProofs`,
`SymbologyProofs`, `CommandProofs`, `OsRatioProofs`. Every safety property of the runs is
now a theorem. To come: a measure that every fair step of `Profiler` and of
`ImpliedVol` makes smaller, which is the part of `Terminates` and `EveryAnswerComes`
that can be proved.

## 8. What is not modelled

- The formulas of `options_math/bsm.rs` and their floating-point values. `ImpliedVol`
  assumes of the price what it shows in exact arithmetic, that it grows with the
  volatility, and leaves the rest free; vega may vanish anywhere. NaN as an
  underlying price cannot reach the solver: prices of profiled days are positive
  (`OkProfilesWhatWasAsked`).
- Standard deviations, percentiles and curves by minute: they are computed by
  hft-statistics, which is not in the repository. Modelled is which samples are
  given to which accumulator, and means where reports relate them.
- JSON text (`finalize_curve` and the provenance block included), logging other
  than the loader's warnings, timings and throughput.
- The characters of OCC symbols and of file names: a symbol is the parts the parser
  cuts it into, a name the pieces the pattern is matched with.
- Operations nobody in `src/src/` calls but the tests: `MoneynessBuckets::ratio`,
  `ContractMap::iter`, `len`, `is_empty`.
- Integer widths: all counters are `u64` and count records or contracts of
  `u32` size; no run comes near the limit.
