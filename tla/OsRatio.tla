------------------------------- MODULE OsRatio -------------------------------
(***************************************************************************)
(* compute_os_series() of os_ratio.rs: the daily ratio of option volume to *)
(* equity volume, O/S, and its deviation from the mean of the days before, *)
(* Delta O/S.  A ratio is kept as a fraction, so that every value is exact.*)
(*                                                                         *)
(* The state is the input of the function; the report is recomputed from   *)
(* it, as run() would after any number of days.                            *)
(***************************************************************************)
EXTENDS Integers, Sequences, FiniteSets, SequencesExt

CONSTANTS
  Dates,               \* day numbers
  OptionVolumes,       \* contracts traded in the band on a day
  EquitySeries,        \* the sequences of daily equity volumes considered
  rolling_window_days,
  ROUND_LOT_SIZE,      \* shares of a round lot: 100
  None                 \* Option::None, null in the report

ASSUME OsRatioAssumption ==
  /\ Dates \subseteq Nat /\ OptionVolumes \subseteq Nat
  /\ EquitySeries \subseteq Seq([date : Nat, volume : Nat])
  /\ rolling_window_days \in Nat
  /\ ROUND_LOT_SIZE \in Nat \ {0}
  /\ None \notin [num : Int, den : Int]

VARIABLES
  opvol_per_day,  \* one entry per profiled day
  eqvol_per_day   \* one entry per daily price, in file order

vars == <<opvol_per_day, eqvol_per_day>>

Init ==
  /\ opvol_per_day = << >>
  /\ eqvol_per_day \in EquitySeries

(* The days come in any order: the function sorts them.                    *)
AddDay(date, opvol) ==
  /\ \A k \in 1..Len(opvol_per_day) : opvol_per_day[k].date # date
  /\ opvol_per_day' = Append(opvol_per_day, [date |-> date, opvol |-> opvol])
  /\ UNCHANGED eqvol_per_day

Next == \E date \in Dates, opvol \in OptionVolumes : AddDay(date, opvol)

Spec == Init /\ [][Next]_vars
-----------------------------------------------------------------------------
ratio(n, d) == [num |-> n, den |-> d]

plus(a, b) ==
  IF a.den % b.den = 0 THEN ratio(a.num + b.num * (a.den \div b.den), a.den)
  ELSE IF b.den % a.den = 0 THEN ratio(a.num * (b.den \div a.den) + b.num, b.den)
  ELSE ratio(a.num * b.den + b.num * a.den, a.den * b.den)

(* collect() into a map: of two entries for a date the last one stays.     *)
eqvol_map ==
  [d \in {eqvol_per_day[k].date : k \in 1..Len(eqvol_per_day)} |->
     LET last == CHOOSE k \in 1..Len(eqvol_per_day) :
                   /\ eqvol_per_day[k].date = d
                   /\ \A j \in (k + 1)..Len(eqvol_per_day) : eqvol_per_day[j].date # d
     IN  eqvol_per_day[last].volume]

(* Fault: latest day first                                               *)
days_descending ==
  [k \in DOMAIN opvol_per_day |->
     CHOOSE d \in ToSet(opvol_per_day) :
       Cardinality({e \in ToSet(opvol_per_day) : e.date > d.date}) = k - 1]

(* sort_by_key(): the k-th day has k - 1 days before it.  No two days have *)
(* one date.                                                               *)
days ==
  [k \in DOMAIN opvol_per_day |->
     CHOOSE d \in ToSet(opvol_per_day) :
       Cardinality({e \in ToSet(opvol_per_day) : e.date < d.date}) = k - 1]

n_days == Len(days)

join_miss(k) == days[k].date \notin DOMAIN eqvol_map

(* Fault: no equity volume gives the ratio 0                             *)
os_value_no_volume_is_zero(k) ==
  IF join_miss(k) THEN None
  ELSE IF eqvol_map[days[k].date] = 0 THEN ratio(0, 1)
  ELSE ratio(days[k].opvol * ROUND_LOT_SIZE, eqvol_map[days[k].date])

(* O/S of the k-th day: null without equity volume, 0 without option       *)
(* volume.                                                                 *)
os_value(k) ==
  IF join_miss(k) THEN None
  ELSE IF eqvol_map[days[k].date] = 0 THEN None
  ELSE ratio(days[k].opvol * ROUND_LOT_SIZE, eqvol_map[days[k].date])

os_values == [k \in 1..n_days |-> os_value(k)]

(* iter().sum(), of the values that are not null.                          *)
sum(values) ==
  LET total[k \in 0..Len(values)] ==
        IF k = 0 THEN ratio(0, 1)
        ELSE IF values[k] = None THEN total[k - 1]
        ELSE plus(total[k - 1], values[k])
  IN  total[Len(values)]

(* Fault: the window ends with the day itself                            *)
prior_with_today(k) ==
  [j \in 1..rolling_window_days |-> os_value(k - rolling_window_days + j)]

(* O/S on the days of the window of the k-th day: strictly before it.      *)
prior(k) == [j \in 1..rolling_window_days |-> os_value(k - rolling_window_days - 1 + j)]

window_sum(k) == sum(prior(k))

(* (O/S - mean) / mean, where mean is window_sum / rolling_window_days.    *)
delta_os(k) ==
  IF rolling_window_days = 0 \/ k <= rolling_window_days THEN None
  ELSE IF os_value(k) = None \/ \E j \in 1..rolling_window_days : prior(k)[j] = None THEN None
  ELSE IF window_sum(k).num = 0 THEN None
  ELSE ratio(os_value(k).num * rolling_window_days * window_sum(k).den
               - window_sum(k).num * os_value(k).den,
             os_value(k).den * window_sum(k).num)

row(k) == [day |-> days[k], os |-> os_value(k), delta |-> delta_os(k)]

n_join_miss == Cardinality({k \in 1..n_days : join_miss(k)})

n_warmup_null == IF rolling_window_days <= n_days THEN rolling_window_days ELSE n_days

delta_values == [k \in 1..n_days |-> delta_os(k)]

(* The values that are not null, of which the report gives statistics.     *)
finite(values) == {k \in DOMAIN values : values[k] # None}

n_finite(values) == Cardinality(finite(values))

less(a, b) == a.num * b.den < b.num * a.den

same(a, b) == ~less(a, b) /\ ~less(b, a)

over(r, n) == ratio(r.num, r.den * n)

mean(values) == over(sum(values), n_finite(values))

square(r) == ratio(r.num * r.num, r.den * r.den)

(* The square of the standard deviation of the report.                     *)
variance(values) ==
  LET m == mean(values)
  IN  over(sum([k \in DOMAIN values |->
                  IF values[k] = None THEN None
                  ELSE square(plus(values[k], ratio(-m.num, m.den)))]),
           n_finite(values))

(* Fault: the smallest value starts at 0                                   *)
smallest_from_zero(values) ==
  CHOOSE v \in {values[k] : k \in finite(values)} \cup {ratio(0, 1)} :
    ~less(ratio(0, 1), v) /\ \A k \in finite(values) : ~less(values[k], v)

(* The folds of f64::min and f64::max.                                     *)
smallest(values) ==
  CHOOSE v \in {values[k] : k \in finite(values)} :
    \A k \in finite(values) : ~less(values[k], v)

largest(values) ==
  CHOOSE v \in {values[k] : k \in finite(values)} :
    \A k \in finite(values) : ~less(v, values[k])

summary_stats(values) ==
  IF finite(values) = {}
  THEN [mean |-> None, min |-> None, max |-> None, n_finite |-> 0]
  ELSE [mean |-> mean(values), min |-> smallest(values), max |-> largest(values),
        n_finite |-> n_finite(values)]
-----------------------------------------------------------------------------
(* No look-ahead: the row of a date never changes when a later day is      *)
(* added, in whatever order the days were given.                           *)
NoLookAhead ==
  [][ \A k \in 1..n_days :
        days[k].date < opvol_per_day'[Len(opvol_per_day')].date => row(k)' = row(k) ]_vars

(* Delta O/S said with dates instead of positions: the deviation of a day  *)
(* from the mean of the rolling_window_days dates closest before it, null  *)
(* if there are not so many, or one of them has no O/S, or none has any    *)
(* option volume.                                                          *)
DeltaAgainstPriorDates ==
  \A k \in 1..n_days :
    LET before == {j \in 1..n_days : days[j].date < days[k].date}
        window == {j \in before :
                     Cardinality({i \in before : days[i].date > days[j].date})
                       < rolling_window_days}
        known  == window # {} /\ Cardinality(window) = rolling_window_days
                    /\ \A j \in window \cup {k} : os_value(j) # None
        nth(i) == CHOOSE j \in window :
                    Cardinality({h \in window : days[h].date < days[j].date}) = i - 1
        whole  == sum([i \in 1..rolling_window_days |-> os_value(nth(i))])
    IN  IF ~known THEN delta_os(k) = None
        ELSE IF \A j \in window : days[j].opvol = 0 THEN delta_os(k) = None
        ELSE (* mean * (1 + delta) = O/S *)
             /\ delta_os(k).den > 0
             /\ whole.num * (delta_os(k).den + delta_os(k).num) * os_value(k).den
                  = os_value(k).num * whole.den * rolling_window_days * delta_os(k).den

(* What the caveat in the report has its reader conclude: n_finite is 0    *)
(* exactly if no profiled day has an equity volume; the values, the join   *)
(* misses and the days without equity volume are all the days; the warm-up *)
(* is never more than the nulls of Delta O/S.  The statistics speak        *)
(* of the same values: the mean is between the extremes, a series that     *)
(* does not vary has neither a variance nor a deviation from its past.     *)
SummaryTellsOfVolume ==
  LET os     == summary_stats(os_values)
      delta  == summary_stats(delta_values)
      silent == {k \in 1..n_days : ~join_miss(k) /\ eqvol_map[days[k].date] = 0}
  IN  /\ os.n_finite + n_join_miss + Cardinality(silent) = n_days
      /\ delta.n_finite + n_warmup_null <= n_days
      /\ delta.n_finite > 0 => os.n_finite > rolling_window_days
      /\ os.n_finite > 0 =>
           /\ ~less(os.mean, os.min) /\ ~less(os.max, os.mean)
           /\ variance(os_values).num = 0 <=> same(os.min, os.max)
           /\ same(os.min, os.max) /\ delta.n_finite > 0 =>
                delta.min.num = 0 /\ delta.max.num = 0
=============================================================================
