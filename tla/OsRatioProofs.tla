---------------------------- MODULE OsRatioProofs ----------------------------
(***************************************************************************)
(* Proofs about OsRatio for any number of days in any order, any volumes,  *)
(* any series of equity volumes and any window.  A sum is a recursive      *)
(* function; what it computes is shown by taking the least place at which  *)
(* it would be wrong.                                                      *)
(***************************************************************************)
EXTENDS OsRatio, FiniteSetTheorems, SequenceTheorems, WellFoundedInduction, TLAPS

(* A day and its option volume.                                            *)
Entry == [date : Nat, opvol : Nat]

-----------------------------------------------------------------------------
(* Ranks                                                                   *)

(* The days of S before d.                                                 *)
Before(S, d) == {e \in S : e.date < d.date}

(* A finite set of days, no two of one date.                               *)
Calendar(S) ==
  /\ IsFiniteSet(S)
  /\ \A d \in S : d.date \in Nat
  /\ \A d, e \in S : d.date = e.date => d = e

(* Of two days the later one has more days before it.                      *)
LEMMA LaterRanksHigher ==
  ASSUME NEW S, Calendar(S), NEW d \in S, NEW e \in S, d.date < e.date
  PROVE  Cardinality(Before(S, d)) < Cardinality(Before(S, e))
<1>1. IsFiniteSet(Before(S, e)) /\ IsFiniteSet(Before(S, d))
  BY FS_Subset DEF Calendar, Before
<1>2. Before(S, d) \cup {d} \subseteq Before(S, e)
  BY DEF Calendar, Before
<1>3. d \notin Before(S, d)
  BY DEF Calendar, Before
<1>4. Cardinality(Before(S, d) \cup {d}) = Cardinality(Before(S, d)) + 1
  BY <1>1, <1>3, FS_AddElement
<1>5. Cardinality(Before(S, d) \cup {d}) <= Cardinality(Before(S, e))
  BY <1>1, <1>2, FS_Subset
<1> QED
  BY <1>1, <1>4, <1>5, FS_CardinalityType

(* Every rank below the number of days is that of one day.                 *)
LEMMA RankTaken ==
  ASSUME NEW S, Calendar(S), NEW n, n = Cardinality(S), NEW r \in 0..(n - 1)
  PROVE  \E d \in S : Cardinality(Before(S, d)) = r
<1>1. n \in Nat /\ IsFiniteSet(S)
  BY FS_CardinalityType DEF Calendar
<1>2. ASSUME NEW d \in S PROVE Cardinality(Before(S, d)) \in 0..(n - 1)
  <2>1. Before(S, d) \subseteq S \ {d}
    BY DEF Calendar, Before
  <2>2. IsFiniteSet(S \ {d}) /\ Cardinality(S \ {d}) = n - 1
    BY <1>1, FS_RemoveElement
  <2>3. IsFiniteSet(Before(S, d)) /\ Cardinality(Before(S, d)) <= n - 1
    BY <2>1, <2>2, FS_Subset
  <2> QED
    BY <1>1, <2>3, FS_CardinalityType
<1> DEFINE rank == [d \in S |-> Cardinality(Before(S, d))]
<1>3. rank \in [S -> 0..(n - 1)]
  BY <1>2
<1>4. ASSUME NEW d \in S, NEW e \in S, rank[d] = rank[e] PROVE d = e
  <2>1. d.date \in Nat /\ e.date \in Nat
    BY DEF Calendar
  <2>2. ~(d.date < e.date) /\ ~(e.date < d.date)
    BY <1>2, <1>4, LaterRanksHigher
  <2> QED
    BY <2>1, <2>2 DEF Calendar
<1>5. rank \in Injection(S, 0..(n - 1))
  BY <1>3, <1>4 DEF Injection, IsInjective
<1>6. IsFiniteSet(0..(n - 1)) /\ Cardinality(0..(n - 1)) = n
  BY <1>1, FS_Interval
<1>7. rank \in Surjection(S, 0..(n - 1))
  BY <1>5, <1>6, FS_Injection
<1>8. PICK d \in S : rank[d] = r
  BY <1>7 DEF Surjection
<1> QED
  BY <1>8

(* The set of a sequence of days of different dates.                       *)
Distinct(s) == \A j, k \in DOMAIN s : s[j].date = s[k].date => j = k

(* As a set they are a calendar of as many days.                           *)
LEMMA DistinctDays ==
  ASSUME NEW s \in Seq(Entry), Distinct(s)
  PROVE  /\ ToSet(s) \subseteq Entry
         /\ Calendar(ToSet(s)) /\ Cardinality(ToSet(s)) = Len(s)
<1>1. Len(s) \in Nat /\ DOMAIN s = 1..Len(s)
  OBVIOUS
<1>2. \A k \in DOMAIN s : s[k] \in Entry
  BY ElementOfSeq
<1>3. s \in Bijection(1..Len(s), ToSet(s))
  <2>1. s \in [1..Len(s) -> ToSet(s)]
    BY <1>1 DEF ToSet
  <2>2. \A j, k \in 1..Len(s) : s[j] = s[k] => j = k
    BY <1>1 DEF Distinct
  <2>3. \A d \in ToSet(s) : \E k \in 1..Len(s) : s[k] = d
    BY <1>1 DEF ToSet
  <2> QED
    BY <2>1, <2>2, <2>3 DEF Bijection, Injection, Surjection, IsInjective
<1>4. ExistsBijection(1..Len(s), ToSet(s))
  BY <1>3 DEF ExistsBijection
<1>5. IsFiniteSet(1..Len(s)) /\ Cardinality(1..Len(s)) = Len(s)
  BY <1>1, FS_Interval
<1>6. IsFiniteSet(ToSet(s)) /\ Cardinality(ToSet(s)) = Len(s)
  BY <1>4, <1>5, FS_Bijection
<1>7. ToSet(s) \subseteq Entry
  BY <1>2 DEF ToSet
<1>8. \A d \in ToSet(s) : d.date \in Nat
  BY <1>7 DEF Entry
<1>9. \A d, e \in ToSet(s) : d.date = e.date => d = e
  BY DEF ToSet, Distinct
<1> QED
  BY <1>6, <1>7, <1>8, <1>9 DEF Calendar

-----------------------------------------------------------------------------
(* The days in order                                                       *)

(* The types, and that no date is added twice.                             *)
Typed ==
  /\ opvol_per_day \in Seq(Entry) /\ Distinct(opvol_per_day)
  /\ eqvol_per_day \in Seq([date : Nat, volume : Nat])

(* No day is added at first.                                               *)
LEMMA InitTyped == Init => Typed
BY OsRatioAssumption DEF Init, Typed, Distinct

(* A day is added with a date of its own.                                  *)
LEMMA StepTyped == Typed /\ [Next]_vars => Typed'
<1> SUFFICES ASSUME Typed, [Next]_vars PROVE Typed'
  OBVIOUS
<1>1. ASSUME NEW date \in Dates, NEW opvol \in OptionVolumes, AddDay(date, opvol) PROVE Typed'
  <2>1. PICK d \in Entry : d = [date |-> date, opvol |-> opvol]
    BY OsRatioAssumption DEF Entry
  <2>2. /\ opvol_per_day' = Append(opvol_per_day, d) /\ opvol_per_day \in Seq(Entry)
        /\ \A k \in 1..Len(opvol_per_day) : opvol_per_day[k].date # d.date
        /\ eqvol_per_day' = eqvol_per_day
    BY <1>1, <2>1 DEF AddDay, Typed
  <2>3. /\ opvol_per_day' \in Seq(Entry) /\ Len(opvol_per_day') = Len(opvol_per_day) + 1
        /\ \A k \in 1..Len(opvol_per_day) : opvol_per_day'[k] = opvol_per_day[k]
        /\ opvol_per_day'[Len(opvol_per_day) + 1] = d
        /\ DOMAIN opvol_per_day' = 1..(Len(opvol_per_day) + 1)
        /\ DOMAIN opvol_per_day = 1..Len(opvol_per_day) /\ Len(opvol_per_day) \in Nat
    BY <2>2
  <2>4. Distinct(opvol_per_day')
    BY <2>2, <2>3 DEF Distinct, Typed
  <2> QED
    BY <2>2, <2>3, <2>4 DEF Typed
<1>2. CASE UNCHANGED vars
  BY <1>2 DEF vars, Typed, Distinct
<1> QED
  BY <1>1, <1>2 DEF Next

(* The report's days are those added, each at its rank, so in the order of *)
(* their dates.                                                            *)
Ordered ==
  /\ n_days = Len(opvol_per_day) /\ n_days \in Nat /\ DOMAIN days = 1..n_days
  /\ \A k \in 1..n_days :
       /\ days[k] \in ToSet(opvol_per_day)
       /\ Cardinality(Before(ToSet(opvol_per_day), days[k])) = k - 1
  /\ ToSet(opvol_per_day) = {days[k] : k \in 1..n_days}
  /\ \A j, k \in 1..n_days : j < k <=> days[j].date < days[k].date

(* sort_by_key() of os_ratio.rs puts them so.                              *)
LEMMA DaysSorted == Typed => Ordered
<1> SUFFICES ASSUME Typed PROVE Ordered
  OBVIOUS
<1> DEFINE S == ToSet(opvol_per_day)
           n == Len(opvol_per_day)
<1>1. Calendar(S) /\ Cardinality(S) = n /\ n \in Nat /\ DOMAIN opvol_per_day = 1..n
  BY DistinctDays DEF Typed
<1>2. days = [k \in 1..n |-> CHOOSE d \in S : Cardinality(Before(S, d)) = k - 1]
  BY <1>1, Zenon DEF days, Before
<1> HIDE DEF S, n
<1>3. ASSUME NEW k \in 1..n
      PROVE  days[k] \in S /\ Cardinality(Before(S, days[k])) = k - 1
  <2>1. \E d \in S : Cardinality(Before(S, d)) = k - 1
    BY <1>1, RankTaken
  <2>2. days[k] = CHOOSE d \in S : Cardinality(Before(S, d)) = k - 1
    BY <1>2
  <2> QED
    BY <2>1, <2>2
<1>4. days \in [1..n -> S]
  BY <1>2, <1>3
<1>5. n_days = n
  BY <1>1, <1>4 DEF n_days
<1>6. ASSUME NEW j \in 1..n, NEW k \in 1..n PROVE j < k <=> days[j].date < days[k].date
  <2>1. days[j].date \in Nat /\ days[k].date \in Nat
    BY <1>1, <1>3 DEF Calendar
  <2>2. days[j].date = days[k].date => j = k
    <3>1. SUFFICES ASSUME days[j].date = days[k].date PROVE j = k
      OBVIOUS
    <3>2. days[j] = days[k]
      BY <1>1, <1>3, <3>1 DEF Calendar
    <3>3. j - 1 = k - 1
      BY <1>3, <3>2
    <3> QED
      BY <3>3
  <2>3. days[j].date < days[k].date => j - 1 < k - 1
    BY <1>1, <1>3, LaterRanksHigher
  <2>4. days[k].date < days[j].date => k - 1 < j - 1
    BY <1>1, <1>3, LaterRanksHigher
  <2> QED
    BY <2>1, <2>2, <2>3, <2>4
<1>7. ASSUME NEW d \in S PROVE \E k \in 1..n : d = days[k]
  <2> DEFINE r == Cardinality(Before(S, d))
  <2>1. r \in 0..(n - 1)
    <3>1. Before(S, d) \subseteq S \ {d}
      BY <1>1 DEF Calendar, Before
    <3>2. IsFiniteSet(S \ {d}) /\ Cardinality(S \ {d}) = n - 1
      BY <1>1, FS_RemoveElement DEF Calendar
    <3>3. IsFiniteSet(Before(S, d)) /\ Cardinality(Before(S, d)) <= n - 1
      BY <3>1, <3>2, FS_Subset
    <3> QED
      BY <1>1, <3>3, FS_CardinalityType
  <2>2. r + 1 \in 1..n /\ Cardinality(Before(S, days[r + 1])) = r /\ days[r + 1] \in S
    <3> HIDE DEF r
    <3>1. r + 1 \in 1..n /\ (r + 1) - 1 = r
      BY <1>1, <2>1
    <3> QED
      BY <1>3, <3>1
  <2>3. ~(d.date < days[r + 1].date) /\ ~(days[r + 1].date < d.date)
    BY <1>1, <2>1, <2>2, LaterRanksHigher
  <2>4. d = days[r + 1]
    BY <1>1, <2>2, <2>3 DEF Calendar
  <2> QED
    BY <2>2, <2>4
<1>8. S = {days[k] : k \in 1..n}
  BY <1>3, <1>7
<1> QED
  BY <1>1, <1>3, <1>4, <1>5, <1>6, <1>8 DEF S, Ordered

-----------------------------------------------------------------------------
(* No look-ahead                                                           *)

(* The days before a new one keep their places.                            *)
LEMMA DaysKept ==
  ASSUME Typed, Typed', NEW d \in Entry, opvol_per_day' = Append(opvol_per_day, d),
         NEW k \in 1..n_days, days[k].date < d.date
  PROVE  n_days' = n_days + 1 /\ \A j \in 1..k : days'[j] = days[j]
<1> DEFINE S == ToSet(opvol_per_day)
           T == ToSet(opvol_per_day')
<1>1. T = S \cup {d} /\ Len(opvol_per_day') = Len(opvol_per_day) + 1
  <2>1. /\ opvol_per_day \in Seq(Entry) /\ Len(opvol_per_day) \in Nat
        /\ DOMAIN opvol_per_day = 1..Len(opvol_per_day)
    BY DEF Typed
  <2>2. /\ Len(opvol_per_day') = Len(opvol_per_day) + 1
        /\ DOMAIN opvol_per_day' = 1..(Len(opvol_per_day) + 1)
        /\ \A i \in 1..Len(opvol_per_day) : opvol_per_day'[i] = opvol_per_day[i]
        /\ opvol_per_day'[Len(opvol_per_day) + 1] = d
    BY <2>1
  <2>3. \A e \in T : e \in S \/ e = d
    BY <2>1, <2>2 DEF ToSet
  <2>4. \A e \in S : e \in T
    BY <2>1, <2>2 DEF ToSet
  <2>5. d \in T
    BY <2>1, <2>2 DEF ToSet
  <2> QED
    BY <2>2, <2>3, <2>4, <2>5
<1>2. Calendar(S) /\ Calendar(T)
  BY DistinctDays DEF Typed
<1>o. Ordered /\ Ordered'
  BY DaysSorted, PTL
<1>3. /\ n_days \in Nat /\ n_days = Len(opvol_per_day)
      /\ \A i \in 1..n_days : days[i] \in S /\ Cardinality(Before(S, days[i])) = i - 1
      /\ \A i, j \in 1..n_days : i < j <=> days[i].date < days[j].date
  BY <1>o DEF Ordered
<1>4. /\ n_days' = Len(opvol_per_day')
      /\ \A i \in 1..n_days' : days'[i] \in T /\ Cardinality(Before(T, days'[i])) = i - 1
  BY <1>o DEF Ordered
<1> HIDE DEF S, T
<1>5. ASSUME NEW j \in 1..k PROVE days'[j] = days[j]
  <2>1. j \in 1..n_days /\ j \in 1..n_days'
    BY <1>1, <1>3, <1>4
  <2>2. days[j].date < d.date
    <3>1. days[j].date \in Nat /\ days[k].date \in Nat /\ d.date \in Nat
      BY <1>2, <1>3, <2>1 DEF Calendar, Entry
    <3>2. j = k \/ days[j].date < days[k].date
      BY <1>3, <2>1
    <3> QED
      BY <3>1, <3>2
  <2>3. Before(T, days[j]) = Before(S, days[j])
    <3>1. days[j].date \in Nat /\ d.date \in Nat
      BY <1>2, <1>3, <2>1 DEF Calendar, Entry
    <3>2. ~(d.date < days[j].date)
      BY <2>2, <3>1
    <3> QED
      BY <1>1, <3>2 DEF Before
  <2>4. days[j] \in T /\ Cardinality(Before(T, days[j])) = j - 1
    BY <1>1, <1>3, <2>1, <2>3
  <2>5. days'[j] \in T /\ Cardinality(Before(T, days'[j])) = j - 1
    BY <1>4, <2>1
  <2>6. ~(days[j].date < days'[j].date) /\ ~(days'[j].date < days[j].date)
    BY <1>2, <2>4, <2>5, LaterRanksHigher
  <2> QED
    BY <1>2, <2>4, <2>5, <2>6 DEF Calendar
<1> QED
  BY <1>1, <1>3, <1>4, <1>5

(* A row depends on the days up to its own.                                *)
LEMMA RowKept ==
  ASSUME UNCHANGED eqvol_per_day, NEW k \in Nat \ {0},
         \A j \in 1..k : days'[j] = days[j]
  PROVE  row(k)' = row(k)
<1>1. eqvol_map' = eqvol_map
  BY DEF eqvol_map
<1>2. ASSUME NEW j \in 1..k PROVE os_value(j)' = os_value(j)
  BY <1>1 DEF os_value, join_miss
<1>3. rolling_window_days \in Nat
  BY OsRatioAssumption
<1>4. delta_os(k)' = delta_os(k)
  <2>1. CASE rolling_window_days = 0 \/ k <= rolling_window_days
    BY <2>1 DEF delta_os
  <2>2. CASE ~(rolling_window_days = 0 \/ k <= rolling_window_days)
    <3>1. \A j \in 1..rolling_window_days : k - rolling_window_days - 1 + j \in 1..k
      BY <1>3, <2>2
    <3>2. prior(k)' = prior(k)
      BY <1>2, <3>1 DEF prior
    <3>3. window_sum(k)' = window_sum(k)
      BY <3>2 DEF window_sum
    <3>4. os_value(k)' = os_value(k)
      BY <1>2
    <3> QED
      BY <3>2, <3>3, <3>4 DEF delta_os
  <2> QED
    BY <2>1, <2>2
<1> QED
  BY <1>2, <1>4 DEF row

(* compute_os_series() of os_ratio.rs: whatever days are added and in      *)
(* whatever order, the row of a date never tells of a later one.           *)
THEOREM NeverLooksAhead == Spec => NoLookAhead
<1>1. Typed /\ Typed' /\ [Next]_vars =>
        [\A k \in 1..n_days :
           days[k].date < opvol_per_day'[Len(opvol_per_day')].date => row(k)' = row(k)]_vars
  <2> SUFFICES ASSUME Typed, Typed', Next, NEW k \in 1..n_days,
                      days[k].date < opvol_per_day'[Len(opvol_per_day')].date
               PROVE  row(k)' = row(k)
    OBVIOUS
  <2>1. PICK date \in Dates, opvol \in OptionVolumes : AddDay(date, opvol)
    BY DEF Next
  <2>2. PICK d \in Entry : d = [date |-> date, opvol |-> opvol]
    BY OsRatioAssumption DEF Entry
  <2>3. opvol_per_day' = Append(opvol_per_day, d) /\ UNCHANGED eqvol_per_day
    BY <2>1, <2>2 DEF AddDay
  <2>4. opvol_per_day'[Len(opvol_per_day')] = d
    BY <2>3 DEF Typed
  <2>5. \A j \in 1..k : days'[j] = days[j]
    BY <2>3, <2>4, DaysKept
  <2>6. k \in Nat \ {0}
    BY DaysSorted DEF Ordered
  <2> QED
    BY <2>3, <2>5, <2>6, RowKept
<1> QED
  BY <1>1, InitTyped, StepTyped, PTL DEF Spec, NoLookAhead
-----------------------------------------------------------------------------
(* Sums of fractions                                                       *)

(* A ratio of volumes: not negative.                                       *)
Fraction == [num : Nat, den : Nat \ {0}]

(* Division without remainder.                                             *)
LEMMA Divides ==
  ASSUME NEW a \in Nat \ {0}, NEW b \in Nat \ {0}, a % b = 0
  PROVE  a \div b \in Nat \ {0} /\ b * (a \div b) = a
<1>1. a \div b \in Int /\ a = b * (a \div b) + (a % b)
  OBVIOUS
<1>2. a \div b \in Nat
  OBVIOUS
<1> QED
  BY <1>1, <1>2

(* plus() adds, whichever common denominator it takes.                     *)
LEMMA PlusAdds ==
  ASSUME NEW a \in [num : Int, den : Nat \ {0}], NEW b \in [num : Int, den : Nat \ {0}]
  PROVE  /\ plus(a, b) \in [num : Int, den : Nat \ {0}]
         /\ \E m \in Nat \ {0} :
              /\ plus(a, b).den * m = a.den * b.den
              /\ plus(a, b).num * m = a.num * b.den + b.num * a.den
<1> DEFINE an == a.num
           ad == a.den
           bn == b.num
           bd == b.den
<1>t. an \in Int /\ bn \in Int /\ ad \in Nat \ {0} /\ bd \in Nat \ {0}
  OBVIOUS
<1>1. CASE ad % bd = 0
  <2> DEFINE q == ad \div bd
  <2>1. q \in Nat \ {0} /\ bd * q = ad
    BY <1>t, <1>1, Divides
  <2>2. plus(a, b) = [num |-> an + bn * q, den |-> ad]
    BY <1>1 DEF plus, ratio
  <2> HIDE DEF q, an, ad, bn, bd
  <2>3. (an + bn * q) * bd = an * bd + bn * ad
    BY <1>t, <2>1
  <2>4. plus(a, b).den * bd = ad * bd /\ plus(a, b).num * bd = an * bd + bn * ad
    BY <1>t, <2>1, <2>2, <2>3
  <2>5. plus(a, b) \in [num : Int, den : Nat \ {0}]
    BY <1>t, <2>1, <2>2
  <2> QED
    BY <1>t, <2>4, <2>5 DEF an, ad, bn, bd
<1>2. CASE ad % bd # 0 /\ bd % ad = 0
  <2> DEFINE q == bd \div ad
  <2>1. q \in Nat \ {0} /\ ad * q = bd
    BY <1>t, <1>2, Divides
  <2>2. plus(a, b) = [num |-> an * q + bn, den |-> bd]
    BY <1>2 DEF plus, ratio
  <2> HIDE DEF q, an, ad, bn, bd
  <2>3. (an * q + bn) * ad = an * bd + bn * ad
    BY <1>t, <2>1
  <2>4. plus(a, b).den * ad = ad * bd /\ plus(a, b).num * ad = an * bd + bn * ad
    BY <1>t, <2>1, <2>2, <2>3
  <2>5. plus(a, b) \in [num : Int, den : Nat \ {0}]
    BY <1>t, <2>1, <2>2
  <2> QED
    BY <1>t, <2>4, <2>5 DEF an, ad, bn, bd
<1>3. CASE ad % bd # 0 /\ bd % ad # 0
  <2>2. plus(a, b) = [num |-> an * bd + bn * ad, den |-> ad * bd]
    BY <1>3 DEF plus, ratio
  <2> HIDE DEF an, ad, bn, bd
  <2>3. an * bd + bn * ad \in Int /\ ad * bd \in Nat \ {0}
    BY <1>t
  <2>4. plus(a, b).den * 1 = ad * bd /\ plus(a, b).num * 1 = an * bd + bn * ad
    BY <1>t, <2>2, <2>3
  <2>5. plus(a, b) \in [num : Int, den : Nat \ {0}]
    BY <1>t, <2>2, <2>3
  <2> QED
    BY <1>t, <2>4, <2>5 DEF an, ad, bn, bd
<1> QED
  BY <1>1, <1>2, <1>3

(* A sum of two ratios of volumes is 0 only if both are.                   *)
LEMMA PlusZero ==
  ASSUME NEW a \in Fraction, NEW b \in Fraction
  PROVE  /\ plus(a, b) \in Fraction
         /\ plus(a, b).num = 0 <=> a.num = 0 /\ b.num = 0
<1>1. PICK m \in Nat \ {0} : plus(a, b).num * m = a.num * b.den + b.num * a.den
  BY PlusAdds DEF Fraction
<1>2. plus(a, b) \in [num : Int, den : Nat \ {0}]
  BY PlusAdds DEF Fraction
<1> DEFINE p == plus(a, b).num
           x == a.num * b.den
           y == b.num * a.den
<1>3. /\ p \in Int /\ x \in Nat /\ y \in Nat /\ p * m = x + y
      /\ x = 0 <=> a.num = 0
      /\ y = 0 <=> b.num = 0
  <2>1. a.num \in Nat /\ b.num \in Nat /\ a.den \in Nat \ {0} /\ b.den \in Nat \ {0}
    BY DEF Fraction
  <2>2. ASSUME NEW i \in Nat, NEW d \in Nat \ {0} PROVE i * d \in Nat /\ (i * d = 0 <=> i = 0)
    OBVIOUS
  <2>3. x \in Nat /\ (x = 0 <=> a.num = 0)
    BY <2>1, <2>2
  <2>4. y \in Nat /\ (y = 0 <=> b.num = 0)
    BY <2>1, <2>2
  <2> QED
    BY <1>1, <1>2, <2>3, <2>4
<1> HIDE DEF p, x, y
<1>4. p \in Nat /\ (p = 0 <=> x = 0 /\ y = 0)
  BY <1>3
<1> QED
  BY <1>2, <1>3, <1>4 DEF Fraction, p

(* A set of numbers that is not empty has a least one: the form in which   *)
(* induction is used below.                                                *)
LEMMA LeastNumber ==
  ASSUME NEW I, I \subseteq Nat, I # {}
  PROVE  \E m \in I : \A i \in I : m <= i
<1> DEFINE R == OpToRel(<, Nat)
<1>1. PICK m \in I : \A i \in I : ~(<<i, m>> \in R)
  BY NatLessThanWellFounded, WFMin, Zenon
<1>2. \A i \in I : i \in Nat /\ m \in Nat /\ (i < m => <<i, m>> \in R)
  BY DEF OpToRel
<1> HIDE DEF R
<1>3. \A i \in I : i \in Nat /\ m \in Nat /\ ~(i < m)
  BY <1>1, <1>2, Zenon
<1> QED
  BY <1>3

(* A sequence of n values, some of them null.                              *)
Values(v, n) ==
  v = [k \in 1..n |-> v[k]] /\ \A k \in 1..n : v[k] = None \/ v[k] \in Fraction

(* g adds up the first n values of v, each time the one before.            *)
Totals(g, n, v) ==
  /\ g \in [0..n -> Fraction]
  /\ g[0] = ratio(0, 1)
  /\ \A k \in 1..n : g[k] = IF v[k] = None THEN g[k - 1] ELSE plus(g[k - 1], v[k])

(* There are sums of any number of values.                                 *)
LEMMA TotalsExist ==
  ASSUME NEW N \in Nat, NEW v, Values(v, N)
  PROVE  \E g : Totals(g, N, v)
<1> DEFINE Bad == {n \in 0..N : ~\E g : Totals(g, n, v)}
<1> SUFFICES ASSUME Bad # {} PROVE FALSE
  OBVIOUS
<1>1. PICK m \in Bad : \A i \in Bad : m <= i
  <2>1. Bad \subseteq Nat
    OBVIOUS
  <2> HIDE DEF Bad
  <2> QED
    BY <2>1, LeastNumber
<1>2. m \in 0..N /\ ~\E g : Totals(g, m, v)
  OBVIOUS
<1>0. ratio(0, 1) \in Fraction
  BY DEF ratio, Fraction
<1>3. m # 0
  <2> SUFFICES ASSUME m = 0 PROVE FALSE
    OBVIOUS
  <2>1. Totals([k \in 0..0 |-> ratio(0, 1)], 0, v)
    BY <1>0 DEF Totals
  <2> QED
    BY <1>2, <2>1
<1>4. m - 1 \in 0..N /\ m - 1 \notin Bad
  BY <1>1, <1>2, <1>3
<1>5. PICK g : Totals(g, m - 1, v)
  BY <1>4
<1> DEFINE last == IF v[m] = None THEN g[m - 1] ELSE plus(g[m - 1], v[m])
           h == [k \in 0..m |-> IF k = m THEN last ELSE g[k]]
<1>6. Totals(h, m, v)
  <2>1. m \in 1..N /\ g[m - 1] \in Fraction
    BY <1>2, <1>3, <1>5 DEF Totals
  <2>l. last \in Fraction
    BY <2>1, PlusZero DEF Values
  <2> HIDE DEF last
  <2>2. h \in [0..m -> Fraction] /\ h[0] = ratio(0, 1)
    BY <1>2, <1>3, <1>5, <2>l DEF Totals
  <2>3. ASSUME NEW k \in 1..m
        PROVE  h[k] = IF v[k] = None THEN h[k - 1] ELSE plus(h[k - 1], v[k])
    <3>1. CASE k = m
      <4>1. h[m] = last /\ h[m - 1] = g[m - 1]
        BY <1>2, <1>3
      <4> QED
        BY <3>1, <4>1 DEF last
    <3>2. CASE k # m
      <4>1. k \in 1..(m - 1) /\ k - 1 \in 0..m /\ k - 1 # m /\ k \in 0..m
        BY <1>2, <1>3, <3>2
      <4>2. h[k] = g[k] /\ h[k - 1] = g[k - 1]
        BY <3>2, <4>1
      <4> QED
        BY <1>5, <4>1, <4>2 DEF Totals
    <3> QED
      BY <3>1, <3>2
  <2> HIDE DEF h
  <2> QED
    BY <2>2, <2>3 DEF Totals
<1> QED
  BY <1>2, <1>6

(* sum() is what its recursion says.                                       *)
LEMMA SumTotals ==
  ASSUME NEW n \in Nat, NEW v \in Seq({None} \cup Fraction), Len(v) = n
  PROVE  Values(v, n) /\ \E g : Totals(g, n, v) /\ sum(v) = g[n]
<1>1. DOMAIN v = 1..n /\ Values(v, n)
  <2>1. DOMAIN v = 1..n /\ v = [k \in 1..n |-> v[k]]
    OBVIOUS
  <2>2. \A k \in 1..n : v[k] \in {None} \cup Fraction
    BY <2>1, ElementOfSeq
  <2> QED
    BY <2>1, <2>2 DEF Values
<1> DEFINE Rec(g) == g = [k \in 0..n |-> IF k = 0 THEN ratio(0, 1)
                                         ELSE IF v[k] = None THEN g[k - 1]
                                         ELSE plus(g[k - 1], v[k])]
           G == CHOOSE g : Rec(g)
<1>2. sum(v) = G[n]
  BY DEF sum
<1>3. PICK h : Totals(h, n, v)
  BY <1>1, TotalsExist
<1>4. Rec(h)
  <2>1. h = [k \in 0..n |-> h[k]]
    BY <1>3 DEF Totals
  <2>2. \A k \in 0..n : h[k] = IF k = 0 THEN ratio(0, 1)
                               ELSE IF v[k] = None THEN h[k - 1]
                               ELSE plus(h[k - 1], v[k])
    BY <1>3 DEF Totals
  <2> QED
    BY <2>1, <2>2
<1>5. Rec(G)
  <2> HIDE DEF Rec
  <2> QED
    BY <1>4
<1> HIDE DEF G
<1>6. \A k \in 0..n : G[k] = IF k = 0 THEN ratio(0, 1)
                             ELSE IF v[k] = None THEN G[k - 1]
                             ELSE plus(G[k - 1], v[k])
  BY <1>5
<1>7. \A k \in 0..n : G[k] = h[k]
  <2> DEFINE Bad == {k \in 0..n : G[k] # h[k]}
  <2> SUFFICES ASSUME Bad # {} PROVE FALSE
    BY DEF Bad
  <2>1. PICK m \in Bad : \A i \in Bad : m <= i
    <3>1. Bad \subseteq Nat
      OBVIOUS
    <3> HIDE DEF Bad
    <3> QED
      BY <3>1, LeastNumber
  <2>2. m \in 0..n /\ G[m] # h[m]
    OBVIOUS
  <2>3. m # 0
    BY <1>3, <1>6, <2>2 DEF Totals
  <2>4. m - 1 \in 0..n /\ m - 1 \notin Bad /\ m \in 1..n
    BY <2>1, <2>2, <2>3
  <2>5. G[m - 1] = h[m - 1]
    BY <2>4
  <2> HIDE DEF Rec, Bad
  <2> QED
    BY <1>3, <1>6, <2>2, <2>3, <2>4, <2>5 DEF Totals
<1> QED
  BY <1>1, <1>2, <1>3, <1>7

(* A sum of ratios of volumes is 0 only if all of them are.                *)
LEMMA SumZero ==
  ASSUME NEW n \in Nat, NEW v \in Seq({None} \cup Fraction), Len(v) = n
  PROVE  /\ sum(v) \in Fraction
         /\ sum(v).num = 0 <=> \A k \in 1..n : v[k] = None \/ v[k].num = 0
<1>1. PICK g : Totals(g, n, v) /\ sum(v) = g[n]
  BY SumTotals
<1>v. Values(v, n)
  BY SumTotals
<1>2. sum(v) \in Fraction
  BY <1>1 DEF Totals
<1> DEFINE Zero(k) == g[k].num = 0 <=> \A j \in 1..k : v[j] = None \/ v[j].num = 0
           Bad == {k \in 0..n : ~Zero(k)}
<1>3. SUFFICES ASSUME Bad # {} PROVE FALSE
  <2>1. Bad = {} => Zero(n)
    OBVIOUS
  <2> QED
    BY <1>1, <1>2, <1>3, <2>1
<1>4. PICK m \in Bad : \A i \in Bad : m <= i
  <2>1. Bad \subseteq Nat
    OBVIOUS
  <2> HIDE DEF Bad
  <2> QED
    BY <1>3, <2>1, LeastNumber
<1>5. m \in 0..n /\ ~Zero(m)
  OBVIOUS
<1>6. m # 0
  <2>1. Zero(0)
    BY <1>1 DEF Totals, ratio
  <2> QED
    BY <1>5, <2>1
<1>7. m - 1 \in 0..n /\ m - 1 \notin Bad /\ m \in 1..n
  BY <1>4, <1>5, <1>6
<1>8. Zero(m - 1)
  BY <1>7
<1>9. g[m].num = 0 <=> g[m - 1].num = 0 /\ (v[m] = None \/ v[m].num = 0)
  <2>1. g[m - 1] \in Fraction /\ g[m] = IF v[m] = None THEN g[m - 1] ELSE plus(g[m - 1], v[m])
    BY <1>1, <1>7 DEF Totals
  <2>2. v[m] = None \/ v[m] \in Fraction
    BY <1>v, <1>7 DEF Values
  <2> HIDE DEF Bad
  <2>3. CASE v[m] = None
    BY <2>1, <2>3
  <2>4. CASE v[m] # None
    BY <2>1, <2>2, <2>4, PlusZero
  <2> QED
    BY <2>3, <2>4
<1>10. \A j \in 1..m : j = m \/ j \in 1..(m - 1)
  BY <1>7
<1>11. \A j \in 1..(m - 1) : j \in 1..m
  BY <1>7
<1> QED
  BY <1>5, <1>7, <1>8, <1>9, <1>10, <1>11

-----------------------------------------------------------------------------
(* The ratio of a day                                                      *)

(* A set of numbers up to n that is not empty has a greatest one.          *)
LEMMA GreatestNumber ==
  ASSUME NEW n \in Nat, NEW I, I \subseteq 0..n, I # {}
  PROVE  \E m \in I : \A i \in I : i <= m
<1> DEFINE J == {n - i : i \in I}
<1>1. J \subseteq Nat /\ J # {}
  <2>1. \A i \in I : i \in 0..n /\ n - i \in Nat
    OBVIOUS
  <2> QED
    BY <2>1
<1>2. PICK j \in J : \A i \in J : j <= i
  <2> HIDE DEF J
  <2> QED
    BY <1>1, LeastNumber
<1>3. PICK m \in I : j = n - m
  OBVIOUS
<1>4. ASSUME NEW i \in I PROVE i <= m
  <2>1. n - i \in J
    OBVIOUS
  <2>2. j <= n - i
    BY <1>2, <2>1
  <2> QED
    BY <1>3, <2>2
<1> QED
  BY <1>4

(* The equity volume of a date is that of one of its prices.               *)
LEMMA EqvolTyped ==
  ASSUME Typed, NEW d \in DOMAIN eqvol_map
  PROVE  eqvol_map[d] \in Nat
<1>1. /\ eqvol_per_day \in Seq([date : Nat, volume : Nat]) /\ Len(eqvol_per_day) \in Nat
      /\ DOMAIN eqvol_per_day = 1..Len(eqvol_per_day)
  BY DEF Typed
<1> DEFINE n == Len(eqvol_per_day)
           I == {k \in 1..n : eqvol_per_day[k].date = d}
           IsLast(k) == /\ eqvol_per_day[k].date = d
                        /\ \A j \in (k + 1)..n : eqvol_per_day[j].date # d
           last == CHOOSE k \in 1..n : IsLast(k)
<1>2. I # {}
  BY DEF eqvol_map
<1>3. PICK m \in I : \A i \in I : i <= m
  <2>1. I \subseteq 0..n
    BY <1>1
  <2> HIDE DEF I, n
  <2> QED
    BY <1>1, <1>2, <2>1, GreatestNumber DEF n
<1>4. m \in 1..n /\ IsLast(m)
  <2>1. m \in 1..n /\ eqvol_per_day[m].date = d
    OBVIOUS
  <2>2. ASSUME NEW j \in (m + 1)..n, eqvol_per_day[j].date = d PROVE FALSE
    <3>1. j \in I /\ ~(j <= m)
      BY <1>1, <2>1, <2>2
    <3> QED
      BY <1>3, <3>1
  <2> QED
    BY <2>1, <2>2
<1>5. last \in 1..n
  <2> HIDE DEF IsLast, n
  <2> QED
    BY <1>4
<1>6. eqvol_map[d] = eqvol_per_day[last].volume
  BY DEF eqvol_map
<1> HIDE DEF last
<1>7. eqvol_per_day[last] \in [date : Nat, volume : Nat]
  BY <1>1, <1>5, ElementOfSeq
<1> QED
  BY <1>6, <1>7

(* The ratio of a day is a fraction, and 0 only without option volume.     *)
LEMMA OsValueTyped ==
  ASSUME Typed, NEW k \in 1..n_days
  PROVE  /\ os_value(k) = None \/ os_value(k) \in Fraction
         /\ os_value(k) # None => (os_value(k).num = 0 <=> days[k].opvol = 0)
<1>1. days[k].opvol \in Nat
  <2>1. days[k] \in ToSet(opvol_per_day)
    BY DaysSorted DEF Ordered
  <2>2. ToSet(opvol_per_day) \subseteq Entry
    BY DistinctDays DEF Typed
  <2> QED
    BY <2>1, <2>2 DEF Entry
<1>2. SUFFICES ASSUME ~join_miss(k), eqvol_map[days[k].date] # 0
               PROVE  /\ os_value(k) \in Fraction
                      /\ os_value(k).num = 0 <=> days[k].opvol = 0
  BY DEF os_value
<1> DEFINE v == eqvol_map[days[k].date]
           o == days[k].opvol
<1>3. v \in Nat /\ v # 0
  BY <1>2, EqvolTyped DEF join_miss
<1>4. os_value(k) = [num |-> o * ROUND_LOT_SIZE, den |-> v]
  BY <1>2 DEF os_value, ratio
<1> HIDE DEF o, v
<1>5. ROUND_LOT_SIZE \in Nat \ {0} /\ o \in Nat
  BY <1>1, OsRatioAssumption DEF o
<1>6. o * ROUND_LOT_SIZE \in Nat /\ (o * ROUND_LOT_SIZE = 0 <=> o = 0)
  BY <1>5
<1> QED
  BY <1>3, <1>4, <1>6 DEF Fraction, o

-----------------------------------------------------------------------------
(* The deviation from the past                                             *)

(* The dates before the k-th day, and those of the window among them.      *)
DatesBefore(k) == {j \in 1..n_days : days[j].date < days[k].date}

Window(k) ==
  {j \in DatesBefore(k) :
     Cardinality({i \in DatesBefore(k) : days[i].date > days[j].date}) < rolling_window_days}

(* compute_os_series() takes for the past of a day the places before it in *)
(* the series; those are the dates closest before it.                      *)
LEMMA WindowIsPrior ==
  ASSUME Typed, NEW k \in 1..n_days, NEW R, R = rolling_window_days
  PROVE  /\ k <= R => Cardinality(Window(k)) < R
         /\ R = 0 => Window(k) = {}
         /\ k > R => Window(k) = (k - R)..(k - 1) /\ Cardinality(Window(k)) = R
<1> DEFINE before == DatesBefore(k)
           window == Window(k)
<1>1. R \in Nat /\ n_days \in Nat /\ k \in 1..n_days
      /\ \A i, j \in 1..n_days : i < j <=> days[i].date < days[j].date
  BY OsRatioAssumption, DaysSorted DEF Ordered
<1>2. before = 1..(k - 1)
  BY <1>1 DEF DatesBefore
<1>3. ASSUME NEW j \in before
      PROVE  Cardinality({i \in before : days[i].date > days[j].date}) = k - 1 - j
  <2>1. {i \in before : days[i].date > days[j].date} = (j + 1)..(k - 1)
    BY <1>1, <1>2
  <2>2. Cardinality((j + 1)..(k - 1)) = k - 1 - j
    BY <1>1, <1>2, FS_Interval
  <2> QED
    BY <2>1, <2>2
<1>4. window = {j \in before : k - 1 - j < R}
  BY <1>3 DEF Window
<1> HIDE DEF before, window
<1>5. CASE k > R
  <2>1. window = (k - R)..(k - 1)
    BY <1>1, <1>2, <1>4, <1>5
  <2>2. Cardinality((k - R)..(k - 1)) = R
    BY <1>1, <1>5, FS_Interval
  <2>3. R = 0 => window = {}
    BY <1>1, <2>1
  <2> QED
    BY <1>1, <1>5, <2>1, <2>2, <2>3 DEF window
<1>6. CASE k <= R
  <2>1. window = 1..(k - 1)
    BY <1>1, <1>2, <1>4, <1>6
  <2>2. IsFiniteSet(1..(k - 1)) /\ Cardinality(1..(k - 1)) = k - 1
    BY <1>1, FS_Interval
  <2> QED
    BY <1>1, <1>6, <2>1, <2>2 DEF window
<1> QED
  BY <1>1, <1>5, <1>6 DEF window

(* The sum of a window of known ratios.                                    *)
LEMMA WindowSum ==
  ASSUME Typed, NEW k \in 1..n_days, NEW R, R = rolling_window_days, k > R
  PROVE  /\ window_sum(k) \in Fraction
         /\ (\A j \in 1..R : os_value(k - R - 1 + j) # None) =>
              (window_sum(k).num = 0 <=> \A j \in 1..R : days[k - R - 1 + j].opvol = 0)
<1>1. R \in Nat /\ n_days \in Nat
  BY OsRatioAssumption, DaysSorted DEF Ordered
<1>2. \A j \in 1..R : k - R - 1 + j \in 1..n_days
  BY <1>1
<1>3. /\ prior(k) = [j \in 1..R |-> os_value(k - R - 1 + j)]
      /\ \A j \in 1..R : os_value(k - R - 1 + j) \in {None} \cup Fraction
  BY <1>2, OsValueTyped DEF prior
<1>4. /\ prior(k) \in Seq({None} \cup Fraction) /\ Len(prior(k)) = R
      /\ \A j \in 1..R : prior(k)[j] = os_value(k - R - 1 + j)
  BY <1>1, <1>3
<1>5. /\ window_sum(k) \in Fraction
      /\ window_sum(k).num = 0 <=> \A j \in 1..R : prior(k)[j] = None \/ prior(k)[j].num = 0
  BY <1>1, <1>4, SumZero DEF window_sum
<1>6. ASSUME \A j \in 1..R : os_value(k - R - 1 + j) # None
      PROVE  window_sum(k).num = 0 <=> \A j \in 1..R : days[k - R - 1 + j].opvol = 0
  <2>1. ASSUME NEW j \in 1..R
        PROVE  prior(k)[j] = None \/ prior(k)[j].num = 0 <=> days[k - R - 1 + j].opvol = 0
    BY <1>2, <1>4, <1>6, OsValueTyped
  <2> QED
    BY <1>5, <2>1
<1> QED
  BY <1>5, <1>6

(* Mean times one plus delta is O/S again, without a denominator of 0.     *)
LEMMA DeltaIdentity ==
  ASSUME NEW os \in Fraction, NEW w \in Fraction, w.num # 0, NEW R \in Nat, NEW d,
         d = ratio(os.num * R * w.den - w.num * os.den, os.den * w.num)
  PROVE  /\ d.den > 0
         /\ w.num * (d.den + d.num) * os.den = os.num * w.den * R * d.den
<1> DEFINE x == os.num
           y == os.den
           p == w.num
           q == w.den
<1>1. x \in Nat /\ y \in Nat \ {0} /\ p \in Nat \ {0} /\ q \in Nat \ {0}
  BY DEF Fraction
<1>2. d.num = x * R * q - p * y /\ d.den = y * p
  BY DEF ratio
<1> HIDE DEF x, y, p, q
<1>3. y * p > 0
  BY <1>1
<1>4. y * p + (x * R * q - p * y) = x * R * q
  BY <1>1
<1>5. p * (x * R * q) * y = x * q * R * (y * p)
  BY <1>1
<1>6. d.den + d.num = x * R * q
  BY <1>2, <1>4
<1> QED
  BY <1>2, <1>3, <1>5, <1>6 DEF x, y, p, q

(* compute_os_series() of os_ratio.rs: whatever days, volumes and window,  *)
(* Delta O/S of a date is the deviation from the mean of the dates closest *)
(* before it, and null exactly if that mean is not known or 0.             *)
THEOREM DeltaIsAgainstPriorDates == Spec => []DeltaAgainstPriorDates
<1>1. Typed => DeltaAgainstPriorDates
  <2> SUFFICES ASSUME Typed PROVE DeltaAgainstPriorDates
    OBVIOUS
  <2> DEFINE R         == rolling_window_days
             before(k) == {j \in 1..n_days : days[j].date < days[k].date}
             window(k) == {j \in before(k) :
                             Cardinality({i \in before(k) : days[i].date > days[j].date}) < R}
             known(k)  == window(k) # {} /\ Cardinality(window(k)) = R
                             /\ \A j \in window(k) \cup {k} : os_value(j) # None
             nth(k, i) == CHOOSE j \in window(k) :
                            Cardinality({h \in window(k) : days[h].date < days[j].date}) = i - 1
             whole(k)  == sum([i \in 1..R |-> os_value(nth(k, i))])
             Claim(k)  == IF ~known(k) THEN delta_os(k) = None
                          ELSE IF \A j \in window(k) : days[j].opvol = 0 THEN delta_os(k) = None
                          ELSE /\ delta_os(k).den > 0
                               /\ whole(k).num * (delta_os(k).den + delta_os(k).num) * os_value(k).den
                                    = os_value(k).num * whole(k).den * R * delta_os(k).den
  <2>1. SUFFICES ASSUME NEW k \in 1..n_days PROVE Claim(k)
    BY Zenon DEF DeltaAgainstPriorDates
  <2>2. R \in Nat /\ n_days \in Nat /\ k \in 1..n_days
    BY OsRatioAssumption, DaysSorted DEF Ordered
  <2>3. /\ k <= R => Cardinality(window(k)) < R
        /\ R = 0 => window(k) = {}
        /\ k > R => window(k) = (k - R)..(k - 1) /\ Cardinality(window(k)) = R
    <3>1. window(k) = Window(k)
      BY DEF Window, DatesBefore
    <3> HIDE DEF window
    <3> QED
      BY <3>1, WindowIsPrior
  <2>4. CASE R = 0 \/ k <= R
    <3>1. ~known(k)
      <4> HIDE DEF window
      <4> QED
        BY <2>2, <2>3, <2>4
    <3>2. delta_os(k) = None
      BY <2>4 DEF delta_os
    <3> HIDE DEF known, whole, window, R
    <3> QED
      BY <3>1, <3>2
  <2>5. CASE R # 0 /\ k > R
    <3>1. window(k) = (k - R)..(k - 1) /\ window(k) # {} /\ Cardinality(window(k)) = R
      <4>1. window(k) = (k - R)..(k - 1) /\ Cardinality(window(k)) = R
        BY <2>3, <2>5
      <4> HIDE DEF window, R
      <4> QED
        BY <2>2, <2>5, <4>1
    <3>2. ASSUME NEW i \in 1..R PROVE nth(k, i) = k - R - 1 + i
      <4>1. ASSUME NEW j \in window(k)
            PROVE  Cardinality({h \in window(k) : days[h].date < days[j].date}) = j - k + R
        <5> HIDE DEF window, R
        <5>1. j \in (k - R)..(k - 1) /\ j \in 1..n_days
          BY <2>2, <2>5, <3>1
        <5>2. {h \in window(k) : days[h].date < days[j].date} = (k - R)..(j - 1)
          <6>1. \A h \in (k - R)..(k - 1) : h \in 1..n_days /\ (h < j <=> days[h].date < days[j].date)
            BY <2>2, <2>5, <5>1, DaysSorted DEF Ordered
          <6>2. \A h \in (k - R)..(j - 1) : h \in (k - R)..(k - 1) /\ h < j
            BY <2>2, <5>1
          <6>3. \A h \in (k - R)..(k - 1) : h < j => h \in (k - R)..(j - 1)
            BY <2>2, <5>1
          <6> QED
            BY <3>1, <6>1, <6>2, <6>3
        <5>3. Cardinality((k - R)..(j - 1)) = j - k + R
          <6>1. k - R \in Int /\ j - 1 \in Int /\ k - R <= j
            BY <2>2, <5>1
          <6>2. Cardinality((k - R)..(j - 1)) =
                  IF k - R > j - 1 THEN 0 ELSE (j - 1) - (k - R) + 1
            BY ONLY <6>1, FS_Interval
          <6> QED
            BY <2>2, <5>1, <6>1, <6>2
        <5> QED
          BY <5>2, <5>3
      <4>2. nth(k, i) = CHOOSE j \in window(k) : j - k + R = i - 1
        <5> DEFINE P(j) == Cardinality({h \in window(k) : days[h].date < days[j].date}) = i - 1
                   Q(j) == j - k + R = i - 1
        <5>1. \A j \in window(k) : P(j) <=> Q(j)
          BY <4>1, Zenon
        <5>2. (CHOOSE j \in window(k) : P(j)) = CHOOSE j \in window(k) : Q(j)
          <6> HIDE DEF P, Q, window
          <6> QED
            BY <5>1
        <5> QED
          BY <5>2, Zenon
      <4> HIDE DEF window, R, nth
      <4>3. k - R - 1 + i \in window(k) /\ (k - R - 1 + i) - k + R = i - 1
        BY <2>2, <2>5, <3>1
      <4>4. \A j \in window(k) : j - k + R = i - 1 => j = k - R - 1 + i
        BY <2>2, <3>1
      <4> QED
        BY <4>2, <4>3, <4>4
    <3>3. prior(k) = [i \in 1..R |-> os_value(nth(k, i))] /\ whole(k) = window_sum(k)
      <4>1. prior(k) = [i \in 1..R |-> os_value(k - R - 1 + i)]
        BY DEF prior
      <4> HIDE DEF nth, R
      <4>2. prior(k) = [i \in 1..R |-> os_value(nth(k, i))]
        BY <3>2, <4>1
      <4> QED
        BY <4>2 DEF window_sum
    <3> HIDE DEF window, nth, whole
    <3>4. CASE ~known(k)
      <4>1. PICK j \in window(k) \cup {k} : os_value(j) = None
        BY <3>1, <3>4
      <4>2. os_value(k) = None \/ \E i \in 1..R : prior(k)[i] = None
        <5> HIDE DEF R, known
        <5>1. CASE j \in window(k)
          <6>1. j - (k - R - 1) \in 1..R /\ k - R - 1 + (j - (k - R - 1)) = j
            BY <2>2, <3>1, <5>1
          <6>2. prior(k)[j - (k - R - 1)] = os_value(j)
            BY <3>2, <3>3, <6>1
          <6> QED
            BY <4>1, <6>1, <6>2
        <5> QED
          BY <4>1, <5>1
      <4>3. delta_os(k) = None
        BY <2>5, <4>2 DEF delta_os
      <4> HIDE DEF known, R
      <4> QED
        BY <3>4, <4>3
    <3>5. CASE known(k)
      <4>1. os_value(k) # None /\ \A j \in window(k) : os_value(j) # None
        BY <3>5
      <4>2. ASSUME NEW i \in 1..R
            PROVE  k - R - 1 + i \in window(k) /\ prior(k)[i] = os_value(k - R - 1 + i)
        <5> HIDE DEF R, known
        <5> QED
          BY <2>2, <3>1, <3>2, <3>3
      <4>3. \A i \in 1..R : prior(k)[i] # None /\ os_value(k - R - 1 + i) # None
        BY <4>1, <4>2
      <4>4. delta_os(k) = IF window_sum(k).num = 0 THEN None
                          ELSE ratio(os_value(k).num * R * window_sum(k).den
                                       - window_sum(k).num * os_value(k).den,
                                     os_value(k).den * window_sum(k).num)
        <5>1. ~(R = 0 \/ k <= R) /\ ~(os_value(k) = None \/ \E j \in 1..R : prior(k)[j] = None)
          <6> HIDE DEF R
          <6> QED
            BY <2>2, <2>5, <4>1, <4>3
        <5> QED
          BY <5>1, Zenon DEF delta_os
      <4>5. /\ window_sum(k) \in Fraction
            /\ window_sum(k).num = 0 <=> \A j \in 1..R : days[k - R - 1 + j].opvol = 0
        BY <2>2, <2>5, <4>3, WindowSum
      <4>6. (\A j \in 1..R : days[k - R - 1 + j].opvol = 0) <=> \A j \in window(k) : days[j].opvol = 0
        <5> HIDE DEF R, known
        <5>1. ASSUME NEW j \in window(k) PROVE \E i \in 1..R : j = k - R - 1 + i
          <6>1. j - (k - R - 1) \in 1..R /\ j = k - R - 1 + (j - (k - R - 1))
            BY <2>2, <3>1
          <6> QED
            BY <6>1
        <5> QED
          BY <4>2, <5>1
      <4>7. os_value(k) \in Fraction
        BY <4>1, OsValueTyped
      <4> HIDE DEF known, R
      <4>8. CASE \A j \in window(k) : days[j].opvol = 0
        BY <3>5, <4>4, <4>5, <4>6, <4>8
      <4>9. CASE ~\A j \in window(k) : days[j].opvol = 0
        <5>1. window_sum(k).num # 0
          BY <4>5, <4>6, <4>9
        <5>2. delta_os(k) = ratio(os_value(k).num * R * window_sum(k).den
                                       - window_sum(k).num * os_value(k).den,
                                     os_value(k).den * window_sum(k).num)
          BY <4>4, <5>1
        <5> DEFINE d == delta_os(k)
                   w == window_sum(k)
                   os == os_value(k)
        <5>3. /\ d.den > 0
              /\ w.num * (d.den + d.num) * os.den = os.num * w.den * R * d.den
          BY <2>2, <4>5, <4>7, <5>1, <5>2, DeltaIdentity
        <5> QED
          BY <3>3, <3>5, <4>9, <5>3, Zenon
      <4> QED
        BY <4>8, <4>9
    <3> QED
      BY <3>4, <3>5
  <2> HIDE DEF Claim, R
  <2> QED
    BY <2>2, <2>4, <2>5
<1> QED
  BY <1>1, InitTyped, StepTyped, PTL DEF Spec

-----------------------------------------------------------------------------
(* The statistics of the report                                            *)

(* A deviation: of either sign.                                            *)
Rational == [num : Int, den : Nat \ {0}]

(* A factor that is not negative keeps an inequality.                      *)
LEMMA TimesMonotone ==
  ASSUME NEW x \in Int, NEW y \in Int, NEW m \in Nat, x <= y
  PROVE  x * m <= y * m
OBVIOUS

(* A common factor cancels.                                                *)
LEMMA TimesCancels ==
  ASSUME NEW x \in Int, NEW y \in Int, NEW m \in Nat \ {0}, x * m <= y * m
  PROVE  x <= y
OBVIOUS

(* The order of fractions is transitive.                                   *)
LEMMA NotLessTransitive ==
  ASSUME NEW a \in Rational, NEW b \in Rational, NEW c \in Rational,
         ~less(b, a), ~less(c, b)
  PROVE  ~less(c, a)
<1> DEFINE an == a.num
           ad == a.den
           bn == b.num
           bd == b.den
           cn == c.num
           cd == c.den
<1>1. /\ an \in Int /\ bn \in Int /\ cn \in Int
      /\ ad \in Nat \ {0} /\ bd \in Nat \ {0} /\ cd \in Nat \ {0}
  BY DEF Rational
<1>2. /\ an * bd \in Int /\ bn * ad \in Int /\ bn * cd \in Int /\ cn * bd \in Int
      /\ an * cd \in Int /\ cn * ad \in Int
  BY <1>1
<1>3. an * bd <= bn * ad /\ bn * cd <= cn * bd
  BY <1>2 DEF less
<1>4. SUFFICES an * cd <= cn * ad
  BY <1>2 DEF less
<1> HIDE DEF an, ad, bn, bd, cn, cd
<1>5. (an * bd) * cd <= (bn * ad) * cd /\ (bn * cd) * ad <= (cn * bd) * ad
  BY <1>1, <1>2, <1>3, TimesMonotone
<1>6. /\ (an * bd) * cd = (an * cd) * bd /\ (bn * ad) * cd = (bn * cd) * ad
      /\ (cn * bd) * ad = (cn * ad) * bd
  BY <1>1
<1>7. (an * cd) * bd <= (cn * ad) * bd
  <2>1. (an * cd) * bd \in Int /\ (bn * cd) * ad \in Int /\ (cn * ad) * bd \in Int
    BY <1>1, <1>2
  <2> QED
    BY <1>5, <1>6, <2>1
<1> QED
  BY <1>1, <1>2, <1>7, TimesCancels

(* A sum of c + 1 values each at least l is at least (c + 1) * l.           *)
LEMMA PlusAtLeast ==
  ASSUME NEW a \in Fraction, NEW b \in Fraction, NEW l \in Fraction, NEW c \in Nat,
         c * l.num * a.den <= a.num * l.den, l.num * b.den <= b.num * l.den
  PROVE  (c + 1) * l.num * plus(a, b).den <= plus(a, b).num * l.den
<1>1. PICK m \in Nat \ {0} : /\ plus(a, b).den * m = a.den * b.den
                             /\ plus(a, b).num * m = a.num * b.den + b.num * a.den
  BY PlusAdds DEF Fraction
<1> DEFINE an == a.num
           ad == a.den
           bn == b.num
           bd == b.den
           ln == l.num
           ld == l.den
           pn == plus(a, b).num
           pd == plus(a, b).den
<1>2. /\ an \in Nat /\ bn \in Nat /\ ln \in Nat /\ pn \in Nat
      /\ ad \in Nat \ {0} /\ bd \in Nat \ {0} /\ ld \in Nat \ {0} /\ pd \in Nat \ {0}
  BY PlusZero DEF Fraction
<1>3. /\ pd * m = ad * bd /\ pn * m = an * bd + bn * ad
      /\ c * ln * ad <= an * ld /\ ln * bd <= bn * ld
  BY <1>1
<1> HIDE DEF an, ad, bn, bd, ln, ld, pn, pd
<1>4. (c * ln * ad) * bd <= (an * ld) * bd /\ (ln * bd) * ad <= (bn * ld) * ad
  <2>1. c * ln * ad \in Int /\ an * ld \in Int /\ ln * bd \in Int /\ bn * ld \in Int
    BY <1>2
  <2> QED
    BY <1>2, <1>3, <2>1, TimesMonotone
<1>5. ((c + 1) * ln * pd) * m = (c * ln * ad) * bd + (ln * bd) * ad
  <2>1. ((c + 1) * ln * pd) * m = (c + 1) * ln * (pd * m)
    BY <1>2
  <2>2. (c + 1) * ln * (ad * bd) = (c * ln * ad) * bd + (ln * bd) * ad
    BY <1>2
  <2> QED
    BY <1>3, <2>1, <2>2
<1>6. (pn * ld) * m = (an * ld) * bd + (bn * ld) * ad
  <2>1. (pn * ld) * m = (pn * m) * ld
    BY <1>2
  <2>2. (an * bd + bn * ad) * ld = (an * ld) * bd + (bn * ld) * ad
    BY <1>2
  <2> QED
    BY <1>3, <2>1, <2>2
<1>7. ((c + 1) * ln * pd) * m <= (pn * ld) * m
  <2>1. /\ (c * ln * ad) * bd \in Int /\ (ln * bd) * ad \in Int
        /\ (an * ld) * bd \in Int /\ (bn * ld) * ad \in Int
    BY <1>2
  <2> QED
    BY <1>4, <1>5, <1>6, <2>1
<1>8. (c + 1) * ln * pd \in Int /\ pn * ld \in Int
  BY <1>2
<1> QED
  BY <1>7, <1>8, TimesCancels DEF ln, ld, pn, pd

(* A sum of c + 1 values each at most h is at most (c + 1) * h.            *)
LEMMA PlusAtMost ==
  ASSUME NEW a \in Fraction, NEW b \in Fraction, NEW h \in Fraction, NEW c \in Nat,
         a.num * h.den <= c * h.num * a.den, b.num * h.den <= h.num * b.den
  PROVE  plus(a, b).num * h.den <= (c + 1) * h.num * plus(a, b).den
<1>1. PICK m \in Nat \ {0} : /\ plus(a, b).den * m = a.den * b.den
                             /\ plus(a, b).num * m = a.num * b.den + b.num * a.den
  BY PlusAdds DEF Fraction
<1> DEFINE an == a.num
           ad == a.den
           bn == b.num
           bd == b.den
           ln == h.num
           ld == h.den
           pn == plus(a, b).num
           pd == plus(a, b).den
<1>2. /\ an \in Nat /\ bn \in Nat /\ ln \in Nat /\ pn \in Nat
      /\ ad \in Nat \ {0} /\ bd \in Nat \ {0} /\ ld \in Nat \ {0} /\ pd \in Nat \ {0}
  BY PlusZero DEF Fraction
<1>3. /\ pd * m = ad * bd /\ pn * m = an * bd + bn * ad
      /\ an * ld <= c * ln * ad /\ bn * ld <= ln * bd
  BY <1>1
<1> HIDE DEF an, ad, bn, bd, ln, ld, pn, pd
<1>4. (an * ld) * bd <= (c * ln * ad) * bd /\ (bn * ld) * ad <= (ln * bd) * ad
  <2>1. c * ln * ad \in Int /\ an * ld \in Int /\ ln * bd \in Int /\ bn * ld \in Int
    BY <1>2
  <2> QED
    BY <1>2, <1>3, <2>1, TimesMonotone
<1>5. ((c + 1) * ln * pd) * m = (c * ln * ad) * bd + (ln * bd) * ad
  <2>1. ((c + 1) * ln * pd) * m = (c + 1) * ln * (pd * m)
    BY <1>2
  <2>2. (c + 1) * ln * (ad * bd) = (c * ln * ad) * bd + (ln * bd) * ad
    BY <1>2
  <2> QED
    BY <1>3, <2>1, <2>2
<1>6. (pn * ld) * m = (an * ld) * bd + (bn * ld) * ad
  <2>1. (pn * ld) * m = (pn * m) * ld
    BY <1>2
  <2>2. (an * bd + bn * ad) * ld = (an * ld) * bd + (bn * ld) * ad
    BY <1>2
  <2> QED
    BY <1>3, <2>1, <2>2
<1>7. (pn * ld) * m <= ((c + 1) * ln * pd) * m
  <2>1. /\ (c * ln * ad) * bd \in Int /\ (ln * bd) * ad \in Int
        /\ (an * ld) * bd \in Int /\ (bn * ld) * ad \in Int
    BY <1>2
  <2> QED
    BY <1>4, <1>5, <1>6, <2>1
<1>8. (c + 1) * ln * pd \in Int /\ pn * ld \in Int
  BY <1>2
<1> QED
  BY <1>7, <1>8, TimesCancels DEF ln, ld, pn, pd

(* The known values among the first m.                                     *)
Known(v, m) == {k \in 1..m : v[k] # None}

(* The m-th value is one more, unless it is null.                          *)
LEMMA KnownCounted ==
  ASSUME NEW v, NEW m \in Nat
  PROVE  /\ IsFiniteSet(Known(v, m)) /\ Cardinality(Known(v, m)) \in Nat
         /\ Cardinality(Known(v, 0)) = 0
         /\ m > 0 => Cardinality(Known(v, m)) =
                       Cardinality(Known(v, m - 1)) + (IF v[m] = None THEN 0 ELSE 1)
<1>1. ASSUME NEW i \in Nat PROVE IsFiniteSet(Known(v, i)) /\ Cardinality(Known(v, i)) \in Nat
  <2>1. Known(v, i) \subseteq 1..i /\ IsFiniteSet(1..i)
    BY FS_Interval DEF Known
  <2> QED
    BY <2>1, FS_Subset, FS_CardinalityType
<1>2. Cardinality(Known(v, 0)) = 0
  <2>1. Known(v, 0) = {}
    BY DEF Known
  <2> QED
    BY <2>1, FS_EmptySet
<1>3. ASSUME m > 0
      PROVE  Cardinality(Known(v, m)) =
               Cardinality(Known(v, m - 1)) + (IF v[m] = None THEN 0 ELSE 1)
  <2>1. m - 1 \in Nat /\ \A k \in 1..m : k = m \/ k \in 1..(m - 1)
    BY <1>3
  <2>2. m \in 1..m /\ \A k \in 1..(m - 1) : k \in 1..m /\ k # m
    BY <1>3
  <2>3. CASE v[m] = None
    <3>1. Known(v, m) = Known(v, m - 1)
      BY <2>1, <2>2, <2>3 DEF Known
    <3>2. Cardinality(Known(v, m - 1)) \in Nat
      BY <1>1, <2>1
    <3> QED
      BY <2>3, <3>1, <3>2
  <2>4. CASE v[m] # None
    <3>1. Known(v, m) = Known(v, m - 1) \cup {m} /\ m \notin Known(v, m - 1)
      BY <2>1, <2>2, <2>4 DEF Known
    <3>2. IsFiniteSet(Known(v, m - 1))
      BY <1>1, <2>1
    <3> QED
      BY <2>4, <3>1, <3>2, FS_AddElement
  <2> QED
    BY <2>3, <2>4
<1> QED
  BY <1>1, <1>2, <1>3

(* A sum lies between the number of its values times their least and their *)
(* greatest.                                                               *)
LEMMA SumBounded ==
  ASSUME NEW n \in Nat, NEW v \in Seq({None} \cup Fraction), Len(v) = n,
         NEW lo \in Fraction, NEW hi \in Fraction,
         \A k \in 1..n : v[k] # None => ~less(v[k], lo) /\ ~less(hi, v[k])
  PROVE  /\ Cardinality(Known(v, n)) * lo.num * sum(v).den <= sum(v).num * lo.den
         /\ sum(v).num * hi.den <= Cardinality(Known(v, n)) * hi.num * sum(v).den
<1>1. PICK g : Totals(g, n, v) /\ sum(v) = g[n]
  BY SumTotals
<1>v. Values(v, n)
  BY SumTotals
<1> DEFINE count(k) == Cardinality(Known(v, k))
           Bounded(k) == /\ count(k) * lo.num * g[k].den <= g[k].num * lo.den
                         /\ g[k].num * hi.den <= count(k) * hi.num * g[k].den
           Bad == {k \in 0..n : ~Bounded(k)}
<1>3. SUFFICES ASSUME Bad # {} PROVE FALSE
  <2>1. Bad = {} => Bounded(n)
    OBVIOUS
  <2> QED
    BY <1>1, <1>3, <2>1
<1>4. PICK m \in Bad : \A i \in Bad : m <= i
  <2>1. Bad \subseteq Nat
    OBVIOUS
  <2> HIDE DEF Bad
  <2> QED
    BY <1>3, <2>1, LeastNumber
<1>5. m \in 0..n /\ ~Bounded(m)
  OBVIOUS
<1>6. m # 0
  <2>1. Bounded(0)
    <3>1. count(0) = 0
      BY KnownCounted
    <3>2. g[0].num = 0 /\ g[0].den = 1
      BY <1>1 DEF Totals, ratio
    <3>3. lo.num \in Nat /\ lo.den \in Nat /\ hi.num \in Nat /\ hi.den \in Nat
      BY DEF Fraction
    <3> HIDE DEF count
    <3> QED
      BY <3>1, <3>2, <3>3
  <2> HIDE DEF Bounded
  <2> QED
    BY <1>5, <2>1
<1>7. m - 1 \in 0..n /\ m - 1 \notin Bad /\ m \in 1..n
  <2> HIDE DEF Bad
  <2> QED
    BY <1>4, <1>5, <1>6
<1>8. Bounded(m - 1)
  BY <1>7
<1>9. count(m - 1) \in Nat /\ count(m) = count(m - 1) + (IF v[m] = None THEN 0 ELSE 1)
  <2>1. m - 1 \in Nat /\ m \in Nat /\ m > 0
    BY <1>7
  <2> QED
    BY <2>1, KnownCounted
<1>10. g[m - 1] \in Fraction /\ g[m] = IF v[m] = None THEN g[m - 1] ELSE plus(g[m - 1], v[m])
  BY <1>1, <1>7 DEF Totals
<1>11. v[m] = None \/ v[m] \in Fraction
  BY <1>v, <1>7 DEF Values
<1> HIDE DEF Bad, count
<1>12. CASE v[m] = None
  BY <1>5, <1>8, <1>9, <1>10, <1>12
<1>13. CASE v[m] # None
  <2>1. ~less(v[m], lo) /\ ~less(hi, v[m])
    BY <1>7, <1>13
  <2>2. lo.num * v[m].den <= v[m].num * lo.den /\ v[m].num * hi.den <= hi.num * v[m].den
    <3>1. /\ lo.num * v[m].den \in Int /\ v[m].num * lo.den \in Int
          /\ v[m].num * hi.den \in Int /\ hi.num * v[m].den \in Int
      BY <1>11, <1>13 DEF Fraction
    <3> QED
      BY <2>1, <3>1 DEF less
  <2>3. g[m] = plus(g[m - 1], v[m]) /\ count(m) = count(m - 1) + 1
    BY <1>9, <1>10, <1>13
  <2>4. (count(m - 1) + 1) * lo.num * plus(g[m - 1], v[m]).den <= plus(g[m - 1], v[m]).num * lo.den
    BY <1>8, <1>9, <1>10, <1>11, <1>13, <2>2, PlusAtLeast
  <2>5. plus(g[m - 1], v[m]).num * hi.den <= (count(m - 1) + 1) * hi.num * plus(g[m - 1], v[m]).den
    BY <1>8, <1>9, <1>10, <1>11, <1>13, <2>2, PlusAtMost
  <2> QED
    BY <1>5, <2>3, <2>4, <2>5
<1> QED
  BY <1>12, <1>13

(* Of rational values that are not all null there is a least one.          *)
LEMMA SmallestIs ==
  ASSUME NEW n \in Nat, NEW v \in Seq({None} \cup Rational), Len(v) = n, finite(v) # {}
  PROVE  /\ finite(v) = Known(v, n) /\ \A k \in finite(v) : v[k] \in Rational
         /\ \E k \in finite(v) : smallest(v) = v[k]
         /\ \A k \in finite(v) : ~less(v[k], smallest(v))
<1>1. DOMAIN v = 1..n /\ \A k \in 1..n : v[k] \in {None} \cup Rational
  BY ElementOfSeq
<1>2. finite(v) = Known(v, n) /\ \A k \in Known(v, n) : v[k] \in Rational
  BY <1>1 DEF finite, Known
<1> DEFINE Least(k, m) == k \in Known(v, m) /\ \A i \in Known(v, m) : ~less(v[i], v[k])
           Bad == {m \in 0..n : Known(v, m) # {} /\ ~\E k \in 1..n : Least(k, m)}
<1>3. Bad = {}
  <2> SUFFICES ASSUME Bad # {} PROVE FALSE
    OBVIOUS
  <2>1. PICK m \in Bad : \A i \in Bad : m <= i
    <3>1. Bad \subseteq Nat
      OBVIOUS
    <3> HIDE DEF Bad
    <3> QED
      BY <3>1, LeastNumber
  <2>2. m \in 0..n /\ Known(v, m) # {} /\ ~\E k \in 1..n : Least(k, m)
    OBVIOUS
  <2>3. m # 0
    BY <2>2 DEF Known
  <2>4. m - 1 \in 0..n /\ m - 1 \notin Bad /\ m \in 1..n
    <3> HIDE DEF Bad
    <3> QED
      BY <2>1, <2>2, <2>3
  <2>5. Known(v, m) = IF v[m] = None THEN Known(v, m - 1) ELSE Known(v, m - 1) \cup {m}
    <3>1. \A k \in 1..m : k = m \/ k \in 1..(m - 1)
      BY <2>4
    <3>2. m \in 1..m /\ \A k \in 1..(m - 1) : k \in 1..m /\ k # m
      BY <2>4
    <3> QED
      BY <3>1, <3>2 DEF Known
  <2>6. \A k \in Known(v, m) : k \in 1..n /\ v[k] \in Rational
    BY <1>1, <2>2 DEF Known
  <2>7. ASSUME NEW a \in Rational, NEW b \in Rational PROVE ~less(a, b) \/ ~less(b, a)
    <3>1. a.num * b.den \in Int /\ b.num * a.den \in Int
      BY DEF Rational
    <3> QED
      BY <3>1 DEF less
  <2>8. v[m] # None
    <3> SUFFICES ASSUME v[m] = None PROVE FALSE
      OBVIOUS
    <3>1. Known(v, m) = Known(v, m - 1)
      BY <2>5
    <3> QED
      BY <2>2, <2>4, <3>1
  <2>9. m \in Known(v, m) /\ Known(v, m) = Known(v, m - 1) \cup {m}
    BY <2>5, <2>8
  <2>10. CASE Known(v, m - 1) = {}
    <3>1. Known(v, m) = {m}
      BY <2>9, <2>10
    <3>2. Least(m, m)
      BY <2>6, <2>7, <3>1
    <3> QED
      BY <2>2, <2>4, <3>2
  <2>11. CASE Known(v, m - 1) # {}
    <3>1. PICK k \in 1..n : Least(k, m - 1)
      BY <2>4, <2>11
    <3>2. k \in Known(v, m) /\ v[k] \in Rational /\ v[m] \in Rational
      BY <2>6, <2>9, <3>1
    <3>3. CASE ~less(v[m], v[k])
      <4>1. Least(k, m)
        BY <2>9, <3>1, <3>2, <3>3
      <4> QED
        BY <2>2, <4>1
    <3>4. CASE less(v[m], v[k])
      <4>1. ~less(v[k], v[m]) /\ ~less(v[m], v[m])
        BY <2>7, <3>2, <3>4
      <4>2. ASSUME NEW i \in Known(v, m - 1) PROVE ~less(v[i], v[m])
        <5>1. v[i] \in Rational /\ ~less(v[i], v[k])
          BY <2>6, <2>9, <3>1
        <5> QED
          BY <3>2, <4>1, <5>1, NotLessTransitive
      <4>3. Least(m, m)
        BY <2>9, <4>1, <4>2
      <4> QED
        BY <2>2, <2>4, <4>3
    <3> QED
      BY <3>3, <3>4
  <2> QED
    BY <2>10, <2>11
<1>4. PICK k \in 1..n : Least(k, n)
  <2>1. n \notin Bad
    BY <1>3
  <2> QED
    BY <1>2, <2>1
<1>5. \E x \in {v[i] : i \in finite(v)} : \A i \in finite(v) : ~less(v[i], x)
  BY <1>2, <1>4
<1>6. /\ smallest(v) \in {v[i] : i \in finite(v)}
      /\ \A i \in finite(v) : ~less(v[i], smallest(v))
  BY <1>5 DEF smallest
<1> QED
  BY <1>2, <1>6

(* And a greatest one: the least of the values with their signs changed.   *)
LEMMA LargestIs ==
  ASSUME NEW n \in Nat, NEW v \in Seq({None} \cup Rational), Len(v) = n, finite(v) # {}
  PROVE  /\ \E k \in finite(v) : largest(v) = v[k]
         /\ \A k \in finite(v) : ~less(largest(v), v[k])
<1> DEFINE minus(a) == [num |-> -a.num, den |-> a.den]
           w == [k \in 1..n |-> IF v[k] = None THEN None ELSE minus(v[k])]
<1>1. DOMAIN v = 1..n /\ \A k \in 1..n : v[k] \in {None} \cup Rational
  BY ElementOfSeq
<1>2. \A k \in finite(v) : v[k] \in Rational
  BY SmallestIs
<1>3. ASSUME NEW a \in Rational
      PROVE  minus(a) \in Rational /\ minus(a) # None
  <2>1. -a.num \in Int /\ a.den \in Nat \ {0}
    BY DEF Rational
  <2>2. minus(a) \in Rational /\ minus(a) \in [num : Int, den : Int]
    BY <2>1 DEF Rational
  <2> QED
    BY <2>2, OsRatioAssumption
<1>4. /\ w \in Seq({None} \cup Rational) /\ Len(w) = n /\ DOMAIN w = 1..n
      /\ \A k \in 1..n : w[k] = IF v[k] = None THEN None ELSE minus(v[k])
  <2>1. \A k \in 1..n : (IF v[k] = None THEN None ELSE minus(v[k])) \in {None} \cup Rational
    BY <1>1, <1>3
  <2> HIDE DEF minus
  <2>2. w \in [1..n -> {None} \cup Rational]
    BY <2>1
  <2> QED
    BY <2>2
<1>5. finite(w) = finite(v)
  BY <1>1, <1>3, <1>4 DEF finite
<1>6. PICK k \in finite(w) : smallest(w) = w[k]
  BY <1>4, <1>5, SmallestIs
<1>7. \A i \in finite(w) : ~less(w[i], w[k])
  BY <1>4, <1>5, <1>6, SmallestIs
<1>8. ASSUME NEW i \in finite(v) PROVE ~less(v[k], v[i])
  <2>1. /\ v[i] \in Rational /\ v[k] \in Rational
        /\ w[i] = minus(v[i]) /\ w[k] = minus(v[k])
    BY <1>1, <1>2, <1>4, <1>5 DEF finite
  <2>2. ~less(minus(v[i]), minus(v[k]))
    BY <1>5, <1>7, <2>1
  <2> DEFINE a == v[i].num
             b == v[i].den
             c == v[k].num
             d == v[k].den
  <2>3. a \in Int /\ b \in Int /\ c \in Int /\ d \in Int
    BY <2>1 DEF Rational
  <2>4. ~((-a) * d < (-c) * b)
    BY <2>2 DEF less
  <2>5. SUFFICES ~(c * b < a * d)
    BY DEF less
  <2> HIDE DEF a, b, c, d
  <2>6. (-a) * d = -(a * d) /\ (-c) * b = -(c * b) /\ a * d \in Int /\ c * b \in Int
    BY <2>3
  <2> QED
    BY <2>4, <2>6
<1>9. \E x \in {v[i] : i \in finite(v)} : \A i \in finite(v) : ~less(x, v[i])
  BY <1>5, <1>8
<1> HIDE DEF w
<1>10. /\ largest(v) \in {v[i] : i \in finite(v)}
       /\ \A i \in finite(v) : ~less(largest(v), v[i])
  BY <1>9 DEF largest
<1> QED
  BY <1>10

(* The mean of the known values lies between the least and the greatest.   *)
LEMMA MeanBetween ==
  ASSUME NEW n \in Nat, NEW v \in Seq({None} \cup Fraction), Len(v) = n, finite(v) # {}
  PROVE  /\ mean(v) \in Fraction
         /\ ~less(mean(v), smallest(v)) /\ ~less(largest(v), mean(v))
<1>1. v \in Seq({None} \cup Rational) /\ Fraction \subseteq Rational
  <2>1. Fraction \subseteq Rational
    BY DEF Fraction, Rational
  <2> QED
    BY <2>1
<1>2. /\ finite(v) = Known(v, n) /\ \A k \in finite(v) : v[k] \in Fraction
  <2>1. finite(v) = Known(v, n)
    BY <1>1, SmallestIs
  <2>2. \A k \in 1..n : v[k] \in {None} \cup Fraction
    BY ElementOfSeq
  <2> QED
    BY <2>1, <2>2 DEF Known
<1>3. /\ smallest(v) \in Fraction /\ largest(v) \in Fraction
      /\ \A k \in finite(v) : ~less(v[k], smallest(v)) /\ ~less(largest(v), v[k])
  BY <1>1, <1>2, SmallestIs, LargestIs
<1> DEFINE c == n_finite(v)
           s == sum(v)
           lo == smallest(v)
           hi == largest(v)
<1>4. c \in Nat \ {0}
  <2>1. IsFiniteSet(finite(v)) /\ Cardinality(finite(v)) \in Nat
    BY <1>2, KnownCounted
  <2>2. Cardinality(finite(v)) # 0
    BY <2>1, FS_EmptySet
  <2> QED
    BY <2>1, <2>2 DEF n_finite
<1>5. s \in Fraction
  BY SumZero
<1>6. /\ c * lo.num * s.den <= s.num * lo.den
      /\ s.num * hi.den <= c * hi.num * s.den
  <2>1. \A k \in 1..n : v[k] # None => ~less(v[k], lo) /\ ~less(hi, v[k])
    <3> HIDE DEF lo, hi
    <3> QED
      BY <1>2, <1>3 DEF Known, lo, hi
  <2>2. c = Cardinality(Known(v, n))
    BY <1>2 DEF n_finite
  <2> QED
    BY <1>3, <2>1, <2>2, SumBounded
<1>7. mean(v) = [num |-> s.num, den |-> s.den * c]
  BY DEF mean, over, ratio
<1>t. lo \in Fraction /\ hi \in Fraction
  BY <1>3
<1> HIDE DEF c, s, lo, hi
<1>8. s.den * c \in Nat \ {0} /\ s.num \in Nat
  BY <1>4, <1>5 DEF Fraction
<1>9. mean(v) \in Fraction
  BY <1>7, <1>8 DEF Fraction
<1>10. ~less(mean(v), lo)
  <2>1. lo.num \in Nat /\ lo.den \in Nat /\ s.num \in Nat /\ s.den \in Nat
    BY <1>5, <1>t DEF Fraction
  <2>2. lo.num * (s.den * c) = c * lo.num * s.den /\ c * lo.num * s.den \in Int /\ s.num * lo.den \in Int
    BY <1>4, <2>1
  <2> QED
    BY <1>6, <1>7, <2>2 DEF less
<1>11. ~less(hi, mean(v))
  <2>1. hi.num \in Nat /\ hi.den \in Nat /\ s.num \in Nat /\ s.den \in Nat
    BY <1>5, <1>t DEF Fraction
  <2>2. hi.num * (s.den * c) = c * hi.num * s.den /\ c * hi.num * s.den \in Int /\ s.num * hi.den \in Int
    BY <1>4, <2>1
  <2> QED
    BY <1>6, <1>7, <2>2 DEF less
<1> QED
  BY <1>9, <1>10, <1>11 DEF lo, hi

(* The standard deviation is 0 exactly if all known values are the mean.   *)
LEMMA VarianceZero ==
  ASSUME NEW n \in Nat, NEW v \in Seq({None} \cup Fraction), Len(v) = n, finite(v) # {}
  PROVE  variance(v).num = 0 <=> \A k \in finite(v) : same(v[k], mean(v))
<1> DEFINE m == mean(v)
           off(k) == plus(v[k], ratio(-m.num, m.den))
           w == [k \in 1..n |-> IF v[k] = None THEN None ELSE square(off(k))]
<1>1. m \in Fraction
  BY MeanBetween
<1>2. DOMAIN v = 1..n /\ \A k \in 1..n : v[k] \in {None} \cup Fraction
  BY ElementOfSeq
<1>3. variance(v).num = sum(w).num
  BY <1>2 DEF variance, over, ratio
<1> HIDE DEF m
<1>4. ASSUME NEW k \in 1..n, v[k] # None
      PROVE  /\ square(off(k)) \in Fraction
             /\ square(off(k)).num = 0 <=> same(v[k], m)
  <2> DEFINE a == v[k].num
             b == v[k].den
             c == m.num
             d == m.den
             r == ratio(-c, d)
  <2>1. a \in Nat /\ b \in Nat \ {0} /\ c \in Nat /\ d \in Nat \ {0}
    BY <1>1, <1>2, <1>4 DEF Fraction
  <2>2. r \in Rational /\ v[k] \in Rational /\ r.num = -c /\ r.den = d
    BY <1>2, <1>4, <2>1 DEF Rational, Fraction, ratio
  <2>3. off(k) \in Rational
    BY <2>2, PlusAdds DEF Rational
  <2>4. PICK q \in Nat \ {0} : off(k).num * q = a * d + (-c) * b
    <3> HIDE DEF off, r
    <3>1. \E q \in Nat \ {0} : plus(v[k], r).num * q = v[k].num * r.den + r.num * v[k].den
      BY <2>2, PlusAdds DEF Rational
    <3> QED
      BY <2>2, <3>1 DEF off, r
  <2> DEFINE x == off(k).num
             y == off(k).den
  <2>5. x \in Int /\ y \in Nat \ {0}
    BY <2>3 DEF Rational
  <2>6. square(off(k)) = [num |-> x * x, den |-> y * y]
    BY DEF square, ratio
  <2>7. x * q = a * d + (-c) * b
    BY <2>4
  <2>s. same(v[k], m) <=> ~(a * d < c * b) /\ ~(c * b < a * d)
    BY DEF same, less
  <2> HIDE DEF x, y, a, b, c, d, r
  <2>8. x * x \in Nat /\ y * y \in Nat \ {0} /\ (x * x = 0 <=> x = 0)
    BY <2>5
  <2>9. a * d \in Int /\ c * b \in Int /\ (-c) * b = -(c * b)
    BY <2>1
  <2>10. x = 0 <=> x * q = 0
    BY <2>5
  <2>11. x = 0 <=> a * d = c * b
    BY <2>7, <2>9, <2>10
  <2>12. same(v[k], m) <=> a * d = c * b
    BY <2>9, <2>s
  <2>13. square(off(k)) \in Fraction /\ square(off(k)).num = x * x
    BY <2>6, <2>8 DEF Fraction
  <2> QED
    BY <2>8, <2>11, <2>12, <2>13
<1> HIDE DEF off
<1>5. /\ w \in Seq({None} \cup Fraction) /\ Len(w) = n
      /\ \A k \in 1..n : w[k] = IF v[k] = None THEN None ELSE square(off(k))
  <2>1. w \in [1..n -> {None} \cup Fraction]
    BY <1>4
  <2> QED
    BY <2>1
<1>6. sum(w).num = 0 <=> \A k \in 1..n : w[k] = None \/ w[k].num = 0
  BY <1>5, SumZero
<1>7. \A f \in Fraction : f # None
  BY OsRatioAssumption DEF Fraction
<1> HIDE DEF w
<1>8. ASSUME NEW k \in 1..n
      PROVE  w[k] = None \/ w[k].num = 0 <=> v[k] = None \/ same(v[k], m)
  BY <1>4, <1>5, <1>7
<1>9. sum(w).num = 0 <=> \A k \in 1..n : v[k] = None \/ same(v[k], m)
  BY <1>6, <1>8
<1> QED
  BY <1>2, <1>3, <1>9 DEF finite, m

(* The first series of the report.                                         *)
LEMMA OsValuesTyped ==
  ASSUME Typed
  PROVE  /\ n_days \in Nat /\ os_values \in Seq({None} \cup Fraction) /\ Len(os_values) = n_days
         /\ \A k \in 1..n_days : os_values[k] = os_value(k)
         /\ finite(os_values) = {k \in 1..n_days : os_value(k) # None}
<1>1. n_days \in Nat
  BY DaysSorted DEF Ordered
<1>2. \A k \in 1..n_days : os_value(k) \in {None} \cup Fraction
  BY OsValueTyped
<1>3. os_values \in [1..n_days -> {None} \cup Fraction] /\ DOMAIN os_values = 1..n_days
  BY <1>2 DEF os_values
<1>4. \A k \in 1..n_days : os_values[k] = os_value(k)
  BY DEF os_values
<1> QED
  BY <1>1, <1>3, <1>4 DEF finite

(* Delta O/S is known only with a whole window of known days behind it.    *)
LEMMA DeltaKnown ==
  ASSUME Typed, NEW k \in 1..n_days, NEW R, R = rolling_window_days, delta_os(k) # None
  PROVE  /\ R # 0 /\ k > R /\ os_value(k) \in Fraction
         /\ \A j \in 1..R : os_value(k - R - 1 + j) # None
         /\ window_sum(k) \in Fraction /\ window_sum(k).num # 0
         /\ delta_os(k) = ratio(os_value(k).num * R * window_sum(k).den
                                  - window_sum(k).num * os_value(k).den,
                                os_value(k).den * window_sum(k).num)
         /\ delta_os(k) \in Rational
<1>1. ~(R = 0 \/ k <= R)
  BY DEF delta_os
<1>2. ~(os_value(k) = None \/ \E j \in 1..R : prior(k)[j] = None)
  BY <1>1 DEF delta_os
<1>3. window_sum(k).num # 0
  BY <1>1, <1>2 DEF delta_os
<1>4. delta_os(k) = ratio(os_value(k).num * R * window_sum(k).den
                            - window_sum(k).num * os_value(k).den,
                          os_value(k).den * window_sum(k).num)
  BY <1>1, <1>2, <1>3, Zenon DEF delta_os
<1>5. R \in Nat /\ n_days \in Nat
  BY OsRatioAssumption, DaysSorted DEF Ordered
<1>6. R # 0 /\ k > R
  BY <1>1, <1>5
<1>7. \A j \in 1..R : os_value(k - R - 1 + j) # None
  BY <1>2 DEF prior
<1>8. os_value(k) \in Fraction
  BY <1>2, OsValueTyped
<1>9. window_sum(k) \in Fraction
  BY <1>6, WindowSum
<1>10. delta_os(k) \in Rational
  <2> DEFINE x == os_value(k).num
             y == os_value(k).den
             p == window_sum(k).num
             q == window_sum(k).den
  <2>1. x \in Nat /\ y \in Nat \ {0} /\ p \in Nat \ {0} /\ q \in Nat \ {0}
    BY <1>3, <1>8, <1>9 DEF Fraction
  <2>2. delta_os(k) = [num |-> x * R * q - p * y, den |-> y * p]
    BY <1>4, Zenon DEF ratio
  <2> HIDE DEF x, y, p, q
  <2>3. x * R * q - p * y \in Int /\ y * p \in Nat \ {0}
    BY <1>5, <2>1
  <2> QED
    BY <2>2, <2>3 DEF Rational
<1> QED
  BY <1>3, <1>4, <1>6, <1>7, <1>8, <1>9, <1>10, Zenon

(* The second series of the report.                                        *)
LEMMA DeltaValuesTyped ==
  ASSUME Typed
  PROVE  /\ delta_values \in Seq({None} \cup Rational) /\ Len(delta_values) = n_days
         /\ \A k \in 1..n_days : delta_values[k] = delta_os(k)
         /\ finite(delta_values) = {k \in 1..n_days : delta_os(k) # None}
<1>1. n_days \in Nat
  BY DaysSorted DEF Ordered
<1>2. \A k \in 1..n_days : delta_os(k) \in {None} \cup Rational
  BY DeltaKnown
<1>3. delta_values \in [1..n_days -> {None} \cup Rational] /\ DOMAIN delta_values = 1..n_days
  BY <1>2 DEF delta_values
<1>4. \A k \in 1..n_days : delta_values[k] = delta_os(k)
  BY DEF delta_values
<1> QED
  BY <1>1, <1>3, <1>4 DEF finite

(* The sizes of sets without a common element add up.                      *)
LEMMA DisjointUnion ==
  ASSUME NEW S, NEW T, IsFiniteSet(S), IsFiniteSet(T), S \cap T = {}
  PROVE  Cardinality(S \cup T) = Cardinality(S) + Cardinality(T)
<1>1. Cardinality(S \cup T) = Cardinality(S) + Cardinality(T) - Cardinality(S \cap T)
  BY FS_Union
<1>2. Cardinality(S \cap T) = 0
  BY FS_EmptySet
<1>3. Cardinality(S) \in Nat /\ Cardinality(T) \in Nat
  BY FS_CardinalityType
<1> QED
  BY <1>1, <1>2, <1>3

(* Every day has a ratio, missed the join or had no equity volume.         *)
LEMMA DaysAccounted ==
  ASSUME Typed
  PROVE  n_finite(os_values) + n_join_miss
           + Cardinality({k \in 1..n_days : ~join_miss(k) /\ eqvol_map[days[k].date] = 0}) = n_days
<1> DEFINE A == finite(os_values)
           B == {k \in 1..n_days : join_miss(k)}
           C == {k \in 1..n_days : ~join_miss(k) /\ eqvol_map[days[k].date] = 0}
<1>1. A = {k \in 1..n_days : os_value(k) # None} /\ n_days \in Nat
  BY OsValuesTyped
<1>2. ASSUME NEW k \in 1..n_days
      PROVE  os_value(k) # None <=> ~join_miss(k) /\ eqvol_map[days[k].date] # 0
  <2>1. CASE join_miss(k) \/ eqvol_map[days[k].date] = 0
    BY <2>1 DEF os_value
  <2>2. CASE ~(join_miss(k) \/ eqvol_map[days[k].date] = 0)
    <3>1. os_value(k) = ratio(days[k].opvol * ROUND_LOT_SIZE, eqvol_map[days[k].date])
      BY <2>2 DEF os_value
    <3>2. days[k].opvol * ROUND_LOT_SIZE \in Int /\ eqvol_map[days[k].date] \in Int
      <4>1. eqvol_map[days[k].date] \in Nat
        BY <2>2, EqvolTyped DEF join_miss
      <4>2. days[k] \in ToSet(opvol_per_day)
        BY DaysSorted DEF Ordered
      <4>3. ToSet(opvol_per_day) \subseteq Entry
        BY DistinctDays DEF Typed
      <4>4. days[k].opvol \in Nat /\ ROUND_LOT_SIZE \in Nat
        BY <4>2, <4>3, OsRatioAssumption DEF Entry
      <4> QED
        BY <4>1, <4>4
    <3>3. os_value(k) \in [num : Int, den : Int]
      BY <3>1, <3>2 DEF ratio
    <3> QED
      BY <2>2, <3>3, OsRatioAssumption
  <2> QED
    BY <2>1, <2>2
<1>3. /\ A \cup B \cup C = 1..n_days /\ A \cap B = {} /\ (A \cup B) \cap C = {}
  BY <1>1, <1>2
<1>4. IsFiniteSet(1..n_days) /\ Cardinality(1..n_days) = n_days
  BY <1>1, FS_Interval
<1> HIDE DEF A, B, C
<1>5. IsFiniteSet(A) /\ IsFiniteSet(B) /\ IsFiniteSet(C) /\ IsFiniteSet(A \cup B)
  BY <1>3, <1>4, FS_Subset
<1>6. Cardinality(A \cup B) = Cardinality(A) + Cardinality(B)
  BY <1>3, <1>5, DisjointUnion
<1>7. Cardinality((A \cup B) \cup C) = Cardinality(A \cup B) + Cardinality(C)
  BY <1>3, <1>5, DisjointUnion
<1> QED
  BY <1>3, <1>4, <1>6, <1>7 DEF A, B, C, n_finite, n_join_miss

(* The first days of the series have no window; a day that has one has     *)
(* rolling_window_days known days before it.                               *)
LEMMA WarmupNull ==
  ASSUME Typed
  PROVE  /\ n_finite(delta_values) + n_warmup_null <= n_days
         /\ n_finite(delta_values) > 0 => n_finite(os_values) > rolling_window_days
<1> DEFINE R == rolling_window_days
           A == finite(delta_values)
           F == finite(os_values)
<1>1. /\ n_days \in Nat /\ R \in Nat
      /\ A = {k \in 1..n_days : delta_os(k) # None}
      /\ F = {k \in 1..n_days : os_value(k) # None}
  BY OsRatioAssumption, OsValuesTyped, DeltaValuesTyped
<1>t. \A k \in A : k \in 1..n_days /\ k > R
  BY <1>1, DeltaKnown
<1>2. A \subseteq (R + 1)..n_days
  BY <1>1, <1>t
<1>3. IsFiniteSet((R + 1)..n_days)
      /\ Cardinality((R + 1)..n_days) = IF R + 1 > n_days THEN 0 ELSE n_days - R
  <2>1. R + 1 \in Int /\ n_days \in Int /\ n_days - (R + 1) + 1 = n_days - R
    BY <1>1
  <2> HIDE DEF R
  <2> QED
    BY <2>1, FS_Interval
<1>4. IsFiniteSet(A) /\ Cardinality(A) \in Nat /\ Cardinality(A) <= Cardinality((R + 1)..n_days)
  BY <1>2, <1>3, FS_Subset, FS_CardinalityType
<1>5. n_finite(delta_values) + n_warmup_null <= n_days
  <2>1. n_warmup_null = IF R <= n_days THEN R ELSE n_days
    BY DEF n_warmup_null
  <2>2. n_finite(delta_values) = Cardinality(A)
    BY DEF n_finite
  <2> HIDE DEF A, R
  <2> QED
    BY <1>1, <1>3, <1>4, <2>1, <2>2
<1>6. ASSUME n_finite(delta_values) > 0 PROVE n_finite(os_values) > R
  <2>1. A # {}
    <3>1. Cardinality(A) # 0
      BY <1>4, <1>6 DEF n_finite
    <3> QED
      BY <3>1, FS_EmptySet
  <2>2. PICK k \in A : TRUE
    BY <2>1
  <2>3. /\ k \in 1..n_days /\ k > R /\ os_value(k) \in Fraction
        /\ \A j \in 1..R : os_value(k - R - 1 + j) # None
    BY <1>1, DeltaKnown
  <2>4. os_value(k) # None
    <3>1. Fraction \subseteq [num : Int, den : Int]
      BY DEF Fraction
    <3> QED
      BY <2>3, <3>1, OsRatioAssumption
  <2> HIDE DEF A, R
  <2>5. (k - R)..k \subseteq F
    <3>1. ASSUME NEW i \in (k - R)..k PROVE i \in 1..n_days /\ os_value(i) # None
      <4>1. CASE i = k
        BY <2>3, <2>4, <4>1
      <4>2. CASE i # k
        <5>1. i - (k - R - 1) \in 1..R /\ k - R - 1 + (i - (k - R - 1)) = i /\ i \in 1..n_days
          BY <1>1, <2>3, <4>2
        <5> QED
          BY <2>3, <5>1
      <4> QED
        BY <4>1, <4>2
    <3> QED
      BY <1>1, <3>1
  <2>6. Cardinality((k - R)..k) = R + 1
    <3>1. k - R \in Int /\ k \in Int /\ k - R <= k /\ k - (k - R) + 1 = R + 1
      BY <1>1, <2>3
    <3> QED
      BY <1>1, <3>1, FS_Interval
  <2>7. IsFiniteSet(F)
    <3>1. F \subseteq 1..n_days /\ IsFiniteSet(1..n_days)
      BY <1>1, FS_Interval
    <3> QED
      BY <3>1, FS_Subset
  <2>8. Cardinality((k - R)..k) <= Cardinality(F) /\ Cardinality(F) \in Nat
    BY <2>5, <2>7, FS_Subset, FS_CardinalityType
  <2> QED
    BY <1>1, <2>6, <2>8 DEF n_finite
<1> QED
  BY <1>5, <1>6

(* A series that does not vary has no deviation from its past.             *)
LEMMA NoVariation ==
  ASSUME Typed, NEW k \in 1..n_days, delta_os(k) # None,
         \A i, j \in 1..n_days : os_value(i) # None /\ os_value(j) # None =>
                                   ~less(os_value(i), os_value(j))
  PROVE  delta_os(k).num = 0
<1> DEFINE R == rolling_window_days
           os == os_value(k)
           w  == window_sum(k)
           v  == prior(k)
<1>1. /\ R # 0 /\ k > R /\ os \in Fraction
      /\ \A j \in 1..R : os_value(k - R - 1 + j) # None
      /\ w \in Fraction
      /\ delta_os(k) = ratio(os.num * R * w.den - w.num * os.den, os.den * w.num)
  BY DeltaKnown, Zenon
<1>2. R \in Nat /\ n_days \in Nat
  BY OsRatioAssumption, OsValuesTyped
<1>3. os # None
  <2>1. Fraction \subseteq [num : Int, den : Int]
    BY DEF Fraction
  <2> QED
    BY <1>1, <2>1, OsRatioAssumption
<1>4. ASSUME NEW j \in 1..R
      PROVE  /\ v[j] = os_value(k - R - 1 + j) /\ v[j] \in Fraction /\ v[j] # None
             /\ ~less(v[j], os) /\ ~less(os, v[j])
  <2>1. v[j] = os_value(k - R - 1 + j)
    BY DEF prior
  <2>2. k - R - 1 + j \in 1..n_days
    <3> HIDE DEF R
    <3> QED
      BY <1>1, <1>2
  <2>3. v[j] # None
    BY <1>1, <2>1
  <2>4. v[j] \in Fraction
    BY <2>1, <2>2, <2>3, OsValueTyped
  <2> HIDE DEF R, v
  <2> QED
    BY <1>3, <2>1, <2>2, <2>3, <2>4
<1>5. v \in Seq({None} \cup Fraction) /\ Len(v) = R
  <2>1. v = [j \in 1..R |-> v[j]]
    BY DEF prior
  <2> HIDE DEF v, R
  <2>2. v \in [1..R -> {None} \cup Fraction]
    BY <1>4, <2>1
  <2> QED
    BY <1>2, <2>2
<1>6. Cardinality(Known(v, R)) = R
  <2>1. Known(v, R) = 1..R
    BY <1>4 DEF Known
  <2>2. Cardinality(1..R) = R
    BY <1>2, FS_Interval
  <2> QED
    BY <2>1, <2>2
<1>7. w = sum(v)
  BY DEF window_sum
<1> HIDE DEF R, os, w, v
<1>8. /\ Cardinality(Known(v, R)) * os.num * sum(v).den <= sum(v).num * os.den
      /\ sum(v).num * os.den <= Cardinality(Known(v, R)) * os.num * sum(v).den
  BY <1>1, <1>2, <1>4, <1>5, SumBounded
<1>9. R * os.num * w.den <= w.num * os.den /\ w.num * os.den <= R * os.num * w.den
  BY <1>6, <1>7, <1>8
<1>10. os.num * R * w.den - w.num * os.den = 0
  <2>1. os.num \in Nat /\ os.den \in Nat /\ w.num \in Nat /\ w.den \in Nat
    BY <1>1 DEF Fraction
  <2>2. os.num * R * w.den = R * os.num * w.den /\ R * os.num * w.den \in Int /\ w.num * os.den \in Int
    BY <1>2, <2>1
  <2> QED
    BY <1>9, <2>2
<1> QED
  BY <1>1, <1>10 DEF ratio

(* compute_os_series() and summary_stats() of os_ratio.rs: for any days,   *)
(* volumes, prices and window, the report accounts for every day, knows a  *)
(* deviation only behind a full window, has its mean between its extremes, *)
(* and shows neither variance nor deviation of a series that is constant.  *)
THEOREM SummaryAddsUp == Spec => []SummaryTellsOfVolume
<1>1. Typed => SummaryTellsOfVolume
  <2> SUFFICES ASSUME Typed PROVE SummaryTellsOfVolume
    OBVIOUS
  <2> DEFINE v == os_values
             d == delta_values
             os == summary_stats(v)
             delta == summary_stats(d)
             lo == smallest(v)
             hi == largest(v)
  <2>1. /\ n_days \in Nat /\ v \in Seq({None} \cup Fraction) /\ Len(v) = n_days
        /\ \A k \in 1..n_days : v[k] = os_value(k)
        /\ finite(v) = {k \in 1..n_days : os_value(k) # None}
    BY OsValuesTyped
  <2>2. /\ d \in Seq({None} \cup Rational) /\ Len(d) = n_days
        /\ \A k \in 1..n_days : d[k] = delta_os(k)
        /\ finite(d) = {k \in 1..n_days : delta_os(k) # None}
    BY DeltaValuesTyped
  <2>3. n_finite(v) \in Nat /\ (n_finite(v) = 0 <=> finite(v) = {})
    <3>1. finite(v) \subseteq 1..n_days /\ IsFiniteSet(1..n_days)
      BY <2>1, FS_Interval
    <3>2. IsFiniteSet(finite(v))
      BY <3>1, FS_Subset
    <3> QED
      BY <3>2, FS_CardinalityType, FS_EmptySet DEF n_finite
  <2>4. n_finite(d) \in Nat /\ (n_finite(d) = 0 <=> finite(d) = {})
    <3>1. finite(d) \subseteq 1..n_days /\ IsFiniteSet(1..n_days)
      BY <2>1, <2>2, FS_Interval
    <3>2. IsFiniteSet(finite(d))
      BY <3>1, FS_Subset
    <3> QED
      BY <3>2, FS_CardinalityType, FS_EmptySet DEF n_finite
  <2>5. /\ os.n_finite = n_finite(v)
        /\ finite(v) # {} => os.mean = mean(v) /\ os.min = lo /\ os.max = hi
    BY <2>3 DEF summary_stats
  <2>6. /\ delta.n_finite = n_finite(d)
        /\ finite(d) # {} => delta.min = smallest(d) /\ delta.max = largest(d)
    BY <2>4 DEF summary_stats
  <2>7. n_finite(v) + n_join_miss
          + Cardinality({k \in 1..n_days : ~join_miss(k) /\ eqvol_map[days[k].date] = 0}) = n_days
    BY DaysAccounted
  <2>8. /\ n_finite(d) + n_warmup_null <= n_days
        /\ n_finite(d) > 0 => n_finite(v) > rolling_window_days
    BY WarmupNull
  <2>9. ASSUME finite(v) # {}
        PROVE  /\ ~less(mean(v), lo) /\ ~less(hi, mean(v))
               /\ variance(v).num = 0 <=> same(lo, hi)
               /\ same(lo, hi) /\ n_finite(d) > 0 =>
                    smallest(d).num = 0 /\ largest(d).num = 0
    <3>r. v \in Seq({None} \cup Rational) /\ Fraction \subseteq Rational
      <4>1. Fraction \subseteq Rational
        BY DEF Fraction, Rational
      <4> QED
        BY <2>1, <4>1
    <3>1. /\ \A k \in finite(v) : v[k] \in Rational
          /\ \E k \in finite(v) : lo = v[k]
          /\ \E k \in finite(v) : hi = v[k]
          /\ \A k \in finite(v) : ~less(v[k], lo) /\ ~less(hi, v[k])
      BY <2>1, <2>9, <3>r, SmallestIs, LargestIs
    <3>2. mean(v) \in Rational /\ ~less(mean(v), lo) /\ ~less(hi, mean(v))
      BY <2>1, <2>9, <3>r, MeanBetween
    <3>3. lo \in Rational /\ hi \in Rational
      BY <3>1
    <3>4. variance(v).num = 0 <=> \A k \in finite(v) : same(v[k], mean(v))
      BY <2>1, <2>9, VarianceZero
    <3> DEFINE m == mean(v)
    <3> HIDE DEF lo, hi, m, v
    <3>5. ASSUME \A k \in finite(v) : same(v[k], m) PROVE same(lo, hi)
      <4>1. ~less(lo, m) /\ ~less(m, hi)
        BY <3>1, <3>5 DEF same
      <4>2. ~less(lo, hi) /\ ~less(hi, lo)
        BY <3>1, <3>2, <3>3, <4>1, NotLessTransitive DEF m
      <4> QED
        BY <4>2 DEF same
    <3>6. ASSUME same(lo, hi)
          PROVE  /\ \A k \in finite(v) : same(v[k], m)
                 /\ \A i, j \in finite(v) : ~less(v[i], v[j])
      <4>1. ~less(lo, hi)
        BY <3>6 DEF same
      <4>2. ASSUME NEW k \in finite(v)
            PROVE  v[k] \in Rational /\ ~less(v[k], hi) /\ ~less(lo, v[k])
        <5>1. v[k] \in Rational /\ ~less(v[k], lo) /\ ~less(hi, v[k])
          BY <3>1
        <5> QED
          BY <3>3, <4>1, <5>1, NotLessTransitive
      <4>3. ASSUME NEW k \in finite(v) PROVE ~less(v[k], m) /\ ~less(m, v[k])
        <5>1. /\ v[k] \in Rational /\ ~less(v[k], hi) /\ ~less(lo, v[k])
              /\ m \in Rational /\ ~less(m, lo) /\ ~less(hi, m)
          BY <3>2, <4>2 DEF m
        <5> QED
          BY <3>3, <5>1, NotLessTransitive
      <4>4. ASSUME NEW i \in finite(v), NEW j \in finite(v) PROVE ~less(v[i], v[j])
        <5>1. /\ v[i] \in Rational /\ ~less(v[i], hi)
              /\ v[j] \in Rational /\ ~less(hi, v[j])
          BY <3>1, <4>2
        <5> QED
          BY <3>3, <5>1, NotLessTransitive
      <4> QED
        BY <4>3, <4>4 DEF same
    <3>7. ASSUME same(lo, hi), n_finite(d) > 0
          PROVE  smallest(d).num = 0 /\ largest(d).num = 0
      <4>1. finite(d) # {}
        BY <2>4, <3>7
      <4>2. \A i, j \in 1..n_days : os_value(i) # None /\ os_value(j) # None =>
                                      ~less(os_value(i), os_value(j))
        BY <2>1, <3>6, <3>7
      <4>3. \A k \in finite(d) : d[k].num = 0
        BY <2>2, <4>2, NoVariation
      <4>4. (\E k \in finite(d) : smallest(d) = d[k]) /\ (\E k \in finite(d) : largest(d) = d[k])
        BY <2>1, <2>2, <4>1, SmallestIs, LargestIs
      <4> QED
        BY <4>3, <4>4
    <3>8. variance(v).num = 0 <=> same(lo, hi)
      BY <3>4, <3>5, <3>6 DEF m
    <3> QED
      BY <3>2, <3>7, <3>8
  <2>10. os.n_finite > 0 =>
           /\ ~less(os.mean, os.min) /\ ~less(os.max, os.mean)
           /\ variance(v).num = 0 <=> same(os.min, os.max)
           /\ same(os.min, os.max) /\ delta.n_finite > 0 =>
                delta.min.num = 0 /\ delta.max.num = 0
    <3> HIDE DEF os, delta, lo, hi, v, d
    <3>1. SUFFICES ASSUME os.n_finite > 0
                   PROVE  /\ ~less(os.mean, os.min) /\ ~less(os.max, os.mean)
                          /\ variance(v).num = 0 <=> same(os.min, os.max)
                          /\ same(os.min, os.max) /\ delta.n_finite > 0 =>
                               delta.min.num = 0 /\ delta.max.num = 0
      OBVIOUS
    <3>2. finite(v) # {}
      BY <2>3, <2>5, <3>1
    <3>3. delta.n_finite > 0 => finite(d) # {}
      BY <2>4, <2>6
    <3> QED
      BY <2>5, <2>6, <2>9, <3>2, <3>3
  <2>11. os.n_finite + n_join_miss
           + Cardinality({k \in 1..n_days : ~join_miss(k) /\ eqvol_map[days[k].date] = 0}) = n_days
    BY <2>5, <2>7
  <2>12. /\ delta.n_finite + n_warmup_null <= n_days
         /\ delta.n_finite > 0 => os.n_finite > rolling_window_days
    BY <2>5, <2>6, <2>8
  <2> QED
    BY <2>10, <2>11, <2>12, Zenon DEF SummaryTellsOfVolume
<1> QED
  BY <1>1, InitTyped, StepTyped, PTL DEF Spec
=============================================================================
