----------------------------- MODULE CommandProofs -----------------------------
(***************************************************************************)
(* Proofs about Command, for every order of the trackers, every set of     *)
(* environments (configuration file, directory, price file) and any number *)
(* of runs over one output directory.                                      *)
(*                                                                         *)
(* The invariant is built part by part, each from the ones before it:      *)
(*   Surroundings, Phases   the place in main(), and what it reads         *)
(*   ConfigInv              the configuration is the file                  *)
(*   RegisterInv, OutputInv the reports, numbered, and the files of them   *)
(*   FilesInv               the days listed so far                         *)
(*   PricesInv              the prices loaded so far                       *)
(*   DaysInv                the days profiled so far                       *)
(* What the O/S report says of them follows from the last three.           *)
(***************************************************************************)
EXTENDS Command, FiniteSetTheorems, SequenceTheorems, WellFoundedInduction, TLAPS

(* The surroundings of a run are one of the environments.                  *)
Surroundings ==
  \E e \in Environments : file = e[1] /\ directory = e[2] /\ price_file = e[3]

(* A run is configured before it reads anything, and has registered its    *)
(* trackers before it lists the days.                                      *)
Phases ==
  /\ loading \in {"start", "configured", "exit_1"}
  /\ reading \in {"start", "prices", "discover", "listing", "days", "ok", "exit_1", "panicked"}
  /\ process \in {"profiling", "writing"} \cup Out!Ended
  /\ run_id \in Nat
  /\ run_id = 0 => process = "exit_0"
  /\ block \in 0..Len(Order)
  /\ loading # "configured" => reading = "start" /\ block = 0
  /\ reading \in {"start", "prices"} => block = 0
  /\ reading \in {"listing", "days", "ok", "panicked"} => block = Len(Order)
  /\ process = "writing" \/ (process = "exit_0" /\ run_id > 0) => reading = "ok"

(* What a file can be.                                                     *)
LEMMA SurroundingsTyped ==
  Surroundings =>
    /\ Cfg!WellFormed(file)
    /\ \A a \in file.given : a.section = "input" /\ a.key = "filename_pattern" =>
         a.value \in In!Pattern
    /\ directory = None \/ directory \subseteq Seq(STRING)
    /\ price_file \in Seq(In!Price \cup {None})
BY CommandAssumption DEF Surroundings

(* A run that has not begun is in the first phase.                         *)
LEMMA InitPhases == Init => Surroundings /\ Phases
<1>1. Len(Order) \in Nat
  BY CommandAssumption
<1>2. Init => Surroundings
  BY DEF Init, Surroundings
<1>3. Init => /\ loading = "start" /\ reading = "start" /\ process = "exit_0" /\ run_id = 0
              /\ block = 0
  BY Zenon DEF Init, Out!Init
<1>4. Init => Phases
  BY <1>1, <1>3 DEF Phases, Out!Ended
<1> QED
  BY <1>2, <1>4

(* Each step keeps to the order of main().                                 *)
LEMMA StepPhases == Surroundings /\ Phases /\ [Next]_vars => Surroundings' /\ Phases'
<1> SUFFICES ASSUME Surroundings, Phases, [Next]_vars PROVE Surroundings' /\ Phases'
  OBVIOUS
<1>l. Len(Order) \in Nat
  BY CommandAssumption
<1> USE <1>l DEF Surroundings, Phases, configuring, inputs, output, Out!Ended
<1>1. CASE StartCommand
  <2>1. Surroundings'
    BY <1>1 DEF StartCommand
  <2>2. /\ loading' = "start" /\ reading' = "start" /\ process' = "profiling"
        /\ run_id' = run_id + 1 /\ block' = 0
    BY <1>1, Zenon DEF StartCommand, Out!StartCommand, Fresh
  <2>3. Phases'
    BY <2>2
  <2> QED
    BY <2>1, <2>3
<1>2. CASE Configure
  BY <1>2 DEF Configure, Cfg!Usage, Cfg!LoadFails, Cfg!Load
<1>3. CASE LoadPrices
  BY <1>3 DEF LoadPrices, In!LoadPrices, In!UsePriceFile, In!UseFallback, In!RefuseFallback,
              In!DecodePrice, In!PriceFileFails, In!PricesLoaded, In!Exit, In!environment
<1>4. CASE RegisterTrackers
  BY <1>4 DEF RegisterTrackers, Cfg!RegisterTracker
<1>5. CASE ProfileDays
  BY <1>5 DEF ProfileDays, Cfg!running, In!Run, In!DiscoverFails, In!ReadDirectory, In!ReadEntry,
              In!ReadEntryPanics, In!ReadEntryFails, In!AllRead, In!ProfileDay, In!RejectDay,
              In!Finish, In!Exit, In!environment
<1>6. CASE Exit
  BY <1>6 DEF Exit, Out!ProfilingFails
<1>7. CASE StartWriting
  BY <1>7 DEF StartWriting, Out!ProfilingEnds
<1>8. CASE Write
  BY <1>8 DEF Write, Out!CreateDirFails, Out!WriteReport, Out!WriteFails, Out!Done
<1>9. CASE Killed
  BY <1>9 DEF Killed, Out!Killed
<1>10. CASE UNCHANGED vars
  BY <1>10 DEF vars
<1> QED
  BY <1>1, <1>2, <1>3, <1>4, <1>5, <1>6, <1>7, <1>8, <1>9, <1>10 DEF Next

-----------------------------------------------------------------------------
(* The configuration                                                       *)

(* The sections and their keys.                                            *)
LEMMA KeysOf ==
  /\ Cfg!Section = {"top", "input", "trackers", "output", "buckets", "os_ratio"}
  /\ Cfg!Keys["trackers"] = Cfg!Trackers
  /\ Cfg!Keys["output"] = {"output_dir", "write_summaries"}
  /\ Cfg!Keys["buckets"] = {"atm_range_pct", "deep_range_pct"}
  /\ Cfg!Keys["os_ratio"] = {"enabled", "rolling_window_days", "dte_min", "dte_max"}
BY DEF Cfg!Section, Cfg!Keys

(* A field is a section and a key of it.                                   *)
LEMMA FieldOf ==
  ASSUME NEW field \in Cfg!Field
  PROVE  \E s \in Cfg!Section : \E k \in Cfg!Keys[s] : field = <<s, k>>
BY DEF Cfg!Field

(* What Default::default() gives a field is what its own default function  *)
(* gives it.                                                               *)
LEMMA DefaultsAgree ==
  ASSUME NEW field \in Cfg!Field, field[1] \notin {"top", "input"}
  PROVE  Cfg!section_default(field) = Cfg!field_default(field)
<1>1. PICK s \in Cfg!Section : \E k \in Cfg!Keys[s] : field = <<s, k>>
  BY FieldOf
<1>2. PICK k \in Cfg!Keys[s] : field = <<s, k>>
  BY <1>1
<1>3. field[1] = s /\ field[2] = k
  BY <1>2
<1>4. CASE s = "trackers"
  BY <1>3, <1>4 DEF Cfg!section_default, Cfg!field_default
<1>5. CASE s \in {"output", "buckets", "os_ratio"}
  <2>1. k \in {"output_dir", "write_summaries", "atm_range_pct", "deep_range_pct",
              "enabled", "rolling_window_days", "dte_min", "dte_max"}
    BY <1>2, <1>5, KeysOf
  <2>2. k \in DOMAIN Cfg!Defaults
    BY <2>1 DEF Cfg!Defaults
  <2>3. Cfg!SectionDefaults[k] = Cfg!Defaults[k]
    <3>1. CASE k \in {"write_summaries", "enabled"}
      <4>1. Cfg!SectionDefaults["write_summaries"] = TRUE /\ Cfg!Defaults["write_summaries"] = TRUE
        BY DEF Cfg!Defaults, Cfg!SectionDefaults
      <4>2. Cfg!SectionDefaults["enabled"] = TRUE /\ Cfg!Defaults["enabled"] = TRUE
        BY DEF Cfg!Defaults, Cfg!SectionDefaults
      <4> QED
        BY <3>1, <4>1, <4>2
    <3>2. CASE k = "output_dir"
      BY <3>2 DEF Cfg!Defaults, Cfg!SectionDefaults
    <3>3. CASE k \in {"atm_range_pct", "deep_range_pct", "rolling_window_days", "dte_min", "dte_max"}
      BY <3>3 DEF Cfg!Defaults, Cfg!SectionDefaults
    <3> QED
      BY <2>1, <3>1, <3>2, <3>3
  <2> QED
    BY <1>3, <1>5, <2>2, <2>3 DEF Cfg!section_default, Cfg!field_default
<1> QED
  BY <1>1, <1>3, <1>4, <1>5, KeysOf

(* A configuration that loads is its file and the documented defaults.     *)
LEMMA LoadIsTheFile ==
  ASSUME Cfg!WellFormed(file), Cfg!Load
  PROVE  ConfigIsTheFile'
<1>1. /\ file' = file /\ file.readable /\ file.toml /\ ~Cfg!unknown_key
      /\ \A field \in Cfg!Required : Cfg!assigned(field) # {}
      /\ config' = [field \in Cfg!Field |-> Cfg!value_of(field)]
  BY DEF Cfg!Load
<1>2. file.headings \subseteq Cfg!Section
  BY <1>1 DEF Cfg!unknown_key
<1>3. ASSUME NEW a \in file.given
      PROVE  <<a.section, a.key>> \in Cfg!Field /\ config'[<<a.section, a.key>>] = a.value
  <2> DEFINE field == <<a.section, a.key>>
  <2>1. field \in Cfg!Field
    BY <1>1 DEF Cfg!unknown_key
  <2>2. Cfg!assigned(field) = {a}
    BY DEF Cfg!assigned, Cfg!WellFormed
  <2>3. Cfg!value_of(field) = a.value
    BY <2>2 DEF Cfg!value_of
  <2> QED
    BY <1>1, <2>1, <2>3
<1>4. ASSUME NEW field \in Cfg!Field, Cfg!assigned(field) = {}
      PROVE  config'[field] = Cfg!field_default(field)
  <2>1. CASE field[1] \in file.headings \cup {"top"}
    BY <1>1, <1>4, <2>1 DEF Cfg!value_of
  <2>2. CASE field[1] \notin file.headings \cup {"top"}
    <3>1. "input" \in file.headings
      <4>1. PICK a \in file.given : <<a.section, a.key>> = <<"input", "data_dir">>
        BY <1>1 DEF Cfg!Required, Cfg!assigned
      <4>2. a.section = "input"
        BY <4>1
      <4> QED
        BY <4>2 DEF Cfg!WellFormed
    <3>2. Cfg!section_default(field) = Cfg!field_default(field)
      BY <2>2, <3>1, DefaultsAgree
    <3> QED
      BY <1>1, <1>4, <2>2, <3>2 DEF Cfg!value_of
  <2> QED
    BY <2>1, <2>2
<1>5. \A field : (Cfg!assigned(field))' = Cfg!assigned(field)
  BY <1>1 DEF Cfg!assigned
<1> QED
  BY <1>1, <1>2, <1>3, <1>4, <1>5 DEF ConfigIsTheFile, Cfg!ConfigIsTheFile

(* What ConfigIsTheFile does not say of a configuration that loaded:       *)
(* nothing required is missing.                                            *)
ConfigInv ==
  /\ ConfigIsTheFile
  /\ loading = "configured" => \A field \in Cfg!Required : Cfg!assigned(field) # {}

(* A step that touches neither the file nor what was made of it.           *)
LEMMA ConfigUnchanged ==
  ASSUME UNCHANGED <<file, loading, config>>, ConfigInv
  PROVE  ConfigInv'
<1>1. ConfigIsTheFile'
  BY DEF ConfigInv, ConfigIsTheFile, Cfg!ConfigIsTheFile, Cfg!assigned
<1> QED
  BY <1>1 DEF ConfigInv, Cfg!assigned

(* Nothing is configured at first.                                         *)
LEMMA InitConfig == Init => ConfigInv
BY DEF Init, ConfigInv, ConfigIsTheFile, Cfg!ConfigIsTheFile

(* Only Configure writes the configuration, and it writes what             *)
(* LoadIsTheFile says.                                                     *)
LEMMA StepConfig == Surroundings /\ ConfigInv /\ [Next]_vars => ConfigInv'
<1> SUFFICES ASSUME Surroundings, ConfigInv, [Next]_vars PROVE ConfigInv'
  OBVIOUS
<1>1. CASE StartCommand
  <2>1. loading' = "start"
    BY <1>1, Zenon DEF StartCommand, Fresh
  <2> QED
    BY <2>1 DEF ConfigInv, ConfigIsTheFile, Cfg!ConfigIsTheFile
<1>2. CASE Configure
  <2>1. CASE Cfg!Load
    <3>1. ConfigIsTheFile'
      BY <2>1, SurroundingsTyped, LoadIsTheFile
    <3> QED
      BY <2>1, <3>1 DEF ConfigInv, Cfg!Load, Cfg!assigned
  <2>2. CASE Cfg!Usage \/ Cfg!LoadFails
    BY <2>2 DEF ConfigInv, ConfigIsTheFile, Cfg!ConfigIsTheFile, Cfg!Usage, Cfg!LoadFails
  <2> QED
    BY <1>2, <2>1, <2>2 DEF Configure
<1>3. CASE RegisterTrackers
  BY <1>3, ConfigUnchanged DEF RegisterTrackers, Cfg!RegisterTracker
<1>4. CASE LoadPrices \/ ProfileDays \/ Exit \/ StartWriting \/ Write \/ Killed \/ UNCHANGED vars
  <2>1. UNCHANGED <<file, loading, config>>
    BY <1>4 DEF LoadPrices, ProfileDays, Exit, StartWriting, Write, Killed, vars, configuring
  <2> QED
    BY <2>1, ConfigUnchanged
<1> QED
  BY <1>1, <1>2, <1>3, <1>4 DEF Next

-----------------------------------------------------------------------------
(* The trackers and the reports                                            *)

(* What a report can be called.                                            *)
Names == Cfg!Trackers \cup {"OsRatio"}

(* s are the first b reports, without those the file switches off.         *)
Registered(s, b) ==
  /\ s \in Seq(Names) /\ Len(s) = number(b)
  /\ \A k \in 1..b : asked_for(AllReports[k]) => s[number(k)] = AllReports[k]
  /\ \A i \in 1..Len(s) : \E k \in 1..b : asked_for(AllReports[k]) /\ number(k) = i

(* The report of the O/S ratio comes after those of the trackers.          *)
LEMMA AllReportsTyped ==
  /\ AllReports \in Seq(Names) /\ Len(AllReports) = Len(Order) + 1
  /\ Len(Order) \in Nat /\ DOMAIN AllReports = 1..Len(Order) + 1
  /\ \A k \in 1..Len(Order) : AllReports[k] = Order[k] /\ Order[k] # "OsRatio" /\ Order[k] \in Names
  /\ AllReports[Len(Order) + 1] = "OsRatio"
<1>1. Order \in Seq(Names)
  BY CommandAssumption DEF Names, Cfg!Trackers
<1>2. /\ AllReports \in Seq(Names) /\ Len(AllReports) = Len(Order) + 1
      /\ Len(Order) \in Nat /\ DOMAIN AllReports = 1..Len(Order) + 1
      /\ \A k \in 1..Len(Order) : AllReports[k] = Order[k] /\ Order[k] \in Names
      /\ AllReports[Len(Order) + 1] = "OsRatio"
  <2>1. "OsRatio" \in Names /\ \A k \in 1..Len(Order) : Order[k] \in Names
    BY <1>1 DEF Names, Cfg!Trackers
  <2>2. /\ Append(Order, "OsRatio") \in Seq(Names)
        /\ Len(Append(Order, "OsRatio")) = Len(Order) + 1
        /\ \A k \in 1..Len(Order) : Append(Order, "OsRatio")[k] = Order[k]
        /\ Append(Order, "OsRatio")[Len(Order) + 1] = "OsRatio"
    BY <1>1, <2>1, AppendProperties
  <2>3. Len(Order) \in Nat
    BY <1>1
  <2>4. DOMAIN Append(Order, "OsRatio") = 1..Len(Order) + 1
    BY <2>2, LenProperties
  <2> QED
    BY <2>1, <2>2, <2>3, <2>4 DEF AllReports
<1>3. \A k \in 1..Len(Order) : Order[k] # "OsRatio"
  BY <1>2, CommandAssumption
<1> QED
  BY <1>2, <1>3

(* Before the first block no report is numbered.                           *)
LEMMA NumberFirst == number(0) = 0
<1>1. {j \in 1..0 : asked_for(AllReports[j])} = {}
  OBVIOUS
<1> QED
  BY <1>1, FS_EmptySet DEF number

(* A block counts its report if the file asks for it, and leaves the       *)
(* numbers before it.                                                      *)
LEMMA NumberNext ==
  ASSUME NEW b \in Nat
  PROVE  /\ number(b) \in 0..b
         /\ number(b + 1) = IF asked_for(AllReports[b + 1]) THEN number(b) + 1 ELSE number(b)
         /\ \A k \in 1..b : asked_for(AllReports[k]) => number(k) \in 1..number(b)
<1> DEFINE S(k) == {j \in 1..k : asked_for(AllReports[j])}
<1>1. \A k \in Nat : IsFiniteSet(S(k)) /\ Cardinality(S(k)) \in 0..k
  <2> TAKE k \in Nat
  <2>1. IsFiniteSet(1..k) /\ Cardinality(1..k) = k
    BY FS_Interval
  <2>2. S(k) \in SUBSET (1..k)
    OBVIOUS
  <2>3. IsFiniteSet(S(k)) /\ Cardinality(S(k)) <= Cardinality(1..k)
    BY <2>1, <2>2, FS_Subset
  <2>4. Cardinality(S(k)) \in Nat
    BY <2>3, FS_CardinalityType
  <2> QED
    BY <2>1, <2>3, <2>4
<1>2. \A k : number(k) = Cardinality(S(k))
  BY DEF number
<1>3. number(b + 1) = IF asked_for(AllReports[b + 1]) THEN number(b) + 1 ELSE number(b)
  <2>1. CASE asked_for(AllReports[b + 1])
    <3>1. S(b + 1) = S(b) \cup {b + 1} /\ b + 1 \notin S(b)
      BY <2>1
    <3>2. Cardinality(S(b + 1)) = Cardinality(S(b)) + 1
      BY <1>1, <3>1, FS_AddElement
    <3> QED
      BY <1>2, <2>1, <3>2
  <2>2. CASE ~asked_for(AllReports[b + 1])
    <3>1. S(b + 1) = S(b)
      BY <2>2
    <3> QED
      BY <1>2, <2>2, <3>1
  <2> QED
    BY <2>1, <2>2
<1>4. ASSUME NEW k \in 1..b, asked_for(AllReports[k]) PROVE number(k) \in 1..number(b)
  <2>1. S(k) \in SUBSET S(b) /\ k \in S(k)
    BY <1>4
  <2>2. Cardinality(S(k)) <= Cardinality(S(b))
    BY <1>1, <2>1, FS_Subset
  <2>3. Cardinality(S(k)) # 0
    BY <1>1, <2>1, FS_EmptySet
  <2> QED
    BY <1>1, <1>2, <2>2, <2>3
<1> QED
  BY <1>1, <1>2, <1>3, <1>4

(* Before the first block nothing is registered.                           *)
LEMMA RegisteredFirst == Registered(<< >>, 0)
BY NumberFirst DEF Registered

(* What a block of main() does to the reports registered before it.        *)
LEMMA RegisteredNext ==
  ASSUME NEW s, NEW b \in 0..Len(Order), Registered(s, b)
  PROVE  /\ asked_for(AllReports[b + 1]) => Registered(Append(s, AllReports[b + 1]), b + 1)
         /\ ~asked_for(AllReports[b + 1]) => Registered(s, b + 1)
<1>1. b \in Nat /\ b + 1 \in 1..Len(Order) + 1 /\ AllReports[b + 1] \in Names
  BY AllReportsTyped
<1> DEFINE r == AllReports[b + 1]
           t == Append(s, r)
<1>2. s \in Seq(Names) /\ Len(s) = number(b) /\ number(b) \in Nat
  BY <1>1, NumberNext DEF Registered
<1>3. /\ \A k \in 1..b : asked_for(AllReports[k]) =>
           s[number(k)] = AllReports[k] /\ number(k) \in 1..number(b)
      /\ \A i \in 1..number(b) : \E k \in 1..b : asked_for(AllReports[k]) /\ number(k) = i
  BY <1>1, <1>2, NumberNext DEF Registered
<1>4. 1..b + 1 = (1..b) \cup {b + 1}
  BY <1>1
<1>5. ASSUME asked_for(r) PROVE Registered(t, b + 1)
  <2>1. number(b + 1) = number(b) + 1
    BY <1>1, <1>5, NumberNext
  <2>2. /\ t \in Seq(Names) /\ Len(t) = number(b) + 1
        /\ \A i \in 1..number(b) : t[i] = s[i]
        /\ t[number(b) + 1] = r
    BY <1>1, <1>2
  <2> HIDE DEF t
  <2>3. \A k \in 1..b + 1 : asked_for(AllReports[k]) => t[number(k)] = AllReports[k]
    BY <1>3, <1>4, <2>1, <2>2
  <2>4. \A i \in 1..Len(t) : \E k \in 1..b + 1 : asked_for(AllReports[k]) /\ number(k) = i
    <3> TAKE i \in 1..Len(t)
    <3>1. CASE i = number(b) + 1
      BY <1>4, <1>5, <2>1, <3>1
    <3>2. CASE i \in 1..number(b)
      BY <1>3, <1>4, <3>2
    <3> QED
      BY <1>2, <2>2, <3>1, <3>2
  <2> QED
    BY <2>1, <2>2, <2>3, <2>4 DEF Registered
<1>6. ASSUME ~asked_for(r) PROVE Registered(s, b + 1)
  <2>1. number(b + 1) = number(b)
    BY <1>1, <1>6, NumberNext
  <2> QED
    BY <1>2, <1>3, <1>4, <1>6, <2>1 DEF Registered
<1> QED
  BY <1>5, <1>6

(* The files of the reports are those the output directory can hold.       *)
LEMMA RegisteredFiles ==
  ASSUME NEW s, Registered(s, Len(AllReports))
  PROVE  /\ s \in Seq(Names)
         /\ \A i \in 1..Len(s) : <<i, s[i]>> \in Out!File
         /\ {<<i, s[i]>> : i \in 1..Len(s)} =
              {<<number(k), AllReports[k]>> :
                 k \in {j \in DOMAIN AllReports : asked_for(AllReports[j])}}
<1> DEFINE N == Len(AllReports)
<1>1. N \in Nat /\ DOMAIN AllReports = 1..N
  BY AllReportsTyped
<1>2. /\ s \in Seq(Names) /\ Len(s) = number(N)
      /\ \A k \in 1..N : asked_for(AllReports[k]) =>
           s[number(k)] = AllReports[k] /\ number(k) \in 1..number(N)
      /\ \A i \in 1..Len(s) : \E k \in 1..N : asked_for(AllReports[k]) /\ number(k) = i
  BY <1>1, NumberNext DEF Registered
<1>3. \A k \in 1..N : number(k) \in 0..k
  BY <1>1, NumberNext
<1>4. ASSUME NEW i \in 1..Len(s)
      PROVE  /\ <<i, s[i]>> \in Out!File
             /\ \E k \in 1..N : asked_for(AllReports[k]) /\ number(k) = i /\ s[i] = AllReports[k]
  <2>1. PICK k \in 1..N : asked_for(AllReports[k]) /\ number(k) = i
    BY <1>2
  <2>2. s[i] = AllReports[k] /\ i \in 1..N
    BY <1>1, <1>2, <1>3, <2>1
  <2> QED
    BY <1>1, <2>1, <2>2 DEF Out!File
<1>5. ASSUME NEW k \in 1..N, asked_for(AllReports[k])
      PROVE  number(k) \in 1..Len(s) /\ <<number(k), AllReports[k]>> = <<number(k), s[number(k)]>>
  BY <1>2, <1>5
<1> QED
  BY <1>1, <1>2, <1>4, <1>5

(* What the configuration says of a report is what the file asks for.      *)
LEMMA AskedIsConfigured ==
  ASSUME Surroundings, ConfigInv, loading = "configured"
  PROVE  /\ \A k \in 1..Len(Order) :
              asked_for(AllReports[k]) <=> config[<<"trackers", Order[k]>>]
         /\ asked_for("OsRatio") <=> config[<<"os_ratio", "enabled">>]
<1> DEFINE field(r) == IF r = "OsRatio" THEN <<"os_ratio", "enabled">> ELSE <<"trackers", r>>
<1>1. ASSUME NEW r, field(r) \in Cfg!Field, Cfg!field_default(field(r)) = TRUE
      PROVE  asked_for(r) <=> config[field(r)]
  <2>1. CASE Cfg!assigned(field(r)) = {}
    BY <1>1, <2>1 DEF asked_for, ConfigInv, ConfigIsTheFile, Cfg!ConfigIsTheFile
  <2>2. ASSUME NEW a \in Cfg!assigned(field(r)) PROVE asked_for(r) <=> config[field(r)]
    <3>1. a \in file.given /\ <<a.section, a.key>> = field(r)
      BY DEF Cfg!assigned
    <3>2. Cfg!assigned(field(r)) = {a}
      <4>1. ASSUME NEW b \in file.given, <<b.section, b.key>> = field(r) PROVE b = a
        BY <3>1, <4>1, SurroundingsTyped DEF Cfg!WellFormed
      <4> QED
        BY <3>1, <4>1 DEF Cfg!assigned
    <3>3. config[field(r)] = a.value
      BY <3>1 DEF ConfigInv, ConfigIsTheFile, Cfg!ConfigIsTheFile
    <3>4. asked_for(r) <=> a.value
      BY <3>2 DEF asked_for
    <3> QED
      BY <3>3, <3>4
  <2> QED
    BY <2>1, <2>2
<1>2. ASSUME NEW k \in 1..Len(Order)
      PROVE  asked_for(AllReports[k]) <=> config[<<"trackers", Order[k]>>]
  <2>1. field(AllReports[k]) = <<"trackers", Order[k]>>
    BY AllReportsTyped
  <2>2. <<"trackers", Order[k]>> \in Cfg!Field
    <3>1. Order[k] \in Cfg!Trackers
      BY CommandAssumption DEF Cfg!Trackers
    <3> QED
      BY <3>1, KeysOf DEF Cfg!Field
  <2>3. Cfg!field_default(<<"trackers", Order[k]>>) = TRUE
    BY DEF Cfg!field_default
  <2> QED
    BY <1>1, <2>1, <2>2, <2>3
<1>3. asked_for("OsRatio") <=> config[<<"os_ratio", "enabled">>]
  <2>1. <<"os_ratio", "enabled">> \in Cfg!Field
    BY KeysOf DEF Cfg!Field
  <2>2. Cfg!field_default(<<"os_ratio", "enabled">>) = Cfg!Defaults["enabled"]
    <3>1. "enabled" \in DOMAIN Cfg!Defaults
      BY DEF Cfg!Defaults
    <3>2. <<"os_ratio", "enabled">>[1] = "os_ratio" /\ <<"os_ratio", "enabled">>[2] = "enabled"
      OBVIOUS
    <3> QED
      BY <3>1, <3>2 DEF Cfg!field_default
  <2>3. Cfg!Defaults["enabled"] = TRUE
    BY DEF Cfg!Defaults
  <2> QED
    BY <1>1, <2>1, <2>2, <2>3
<1> QED
  BY <1>2, <1>3

-----------------------------------------------------------------------------
(* The output directory                                                    *)

(* The trackers registered so far, and the reports of a run that writes.   *)
RegisterInv ==
  /\ Registered(trackers, block)
  /\ process = "writing" \/ (process = "exit_0" /\ run_id > 0) =>
       Registered(reports, Len(AllReports))

(* The first n reports of this run are written, and nothing else is of it. *)
Written(n) ==
  /\ \A f \in Out!File : dir[f].run = run_id <=> \E i \in 1..n : f = Out!json_path(i)
  /\ \A i \in 1..n : dir[Out!json_path(i)] = [run |-> run_id, whole |-> TRUE]

(* PrefixWritten with the place in the writing: next is the report to be   *)
(* written, and those before it are there.                                 *)
OutputInv ==
  /\ dir \in [Out!File -> [run : Nat, whole : BOOLEAN]]
  /\ \A f \in Out!File : dir[f].run <= run_id /\ (dir[f].run = 0 => dir[f] = Out!Absent)
  /\ process = "profiling" =>
       next = 1 /\ \A f \in Out!File : dir[f].run # run_id
  /\ process = "writing" => next \in 1..Len(reports) + 1 /\ Written(next - 1)
  /\ process = "exit_0" /\ run_id > 0 => next = Len(reports) + 1 /\ Written(next - 1)
  /\ PrefixWritten

(* A file of this run is of a number that is not 0.                        *)
LEMMA WrittenBy ==
  ASSUME run_id \in Nat \ {0}
  PROVE  Out!written_by(run_id) = {f \in Out!File : dir[f].run = run_id}
BY DEF Out!written_by, Out!Absent

(* Before the first run there is no file of it.                            *)
LEMMA NoneWritten ==
  ASSUME OutputInv, run_id = 0
  PROVE  Out!written_by(run_id) = {}
BY DEF OutputInv, Out!written_by

(* The first reports whole and no other file of this run.                  *)
WholePrefix ==
  /\ run_id \in Nat \ {0} /\ Len(reports) \in Nat /\ next \in 1..Len(reports) + 1
  /\ Written(next - 1)

(* The next report torn, those before it whole, and no other file.         *)
TornPrefix ==
  /\ run_id \in Nat \ {0} /\ Len(reports) \in Nat /\ next \in 1..Len(reports)
  /\ process \in Out!Ended
  /\ \A f \in Out!File : dir[f].run = run_id <=> \E i \in 1..next : f = Out!json_path(i)
  /\ \A i \in 1..next - 1 : dir[Out!json_path(i)] = [run |-> run_id, whole |-> TRUE]

(* A run that has not torn a report satisfies PrefixWritten.               *)
LEMMA WholeIsPrefix == WholePrefix => PrefixWritten
<1> SUFFICES ASSUME WholePrefix, NEW f \in Out!File, dir[f].run = run_id
             PROVE  \E i \in 1..Len(reports) :
                      /\ f = Out!json_path(i) /\ i <= next
                      /\ ~dir[f].whole => i = next /\ process \in Out!Ended
                      /\ \A j \in 1..(i - 1) :
                           dir[Out!json_path(j)] = [run |-> run_id, whole |-> TRUE]
  BY WrittenBy DEF PrefixWritten, Out!PrefixWritten, WholePrefix
<1> USE DEF WholePrefix
<1>1. PICK i \in 1..next - 1 : f = Out!json_path(i)
  BY DEF Written
<1>2. dir[f].whole
  BY <1>1 DEF Written
<1>3. i \in 1..Len(reports) /\ i <= next /\ \A j \in 1..(i - 1) : j \in 1..next - 1
  BY <1>1
<1> QED
  BY <1>1, <1>2, <1>3 DEF Written

(* So does a run that ended inside of a report.                            *)
LEMMA TornIsPrefix == TornPrefix => PrefixWritten
<1> SUFFICES ASSUME TornPrefix, NEW f \in Out!File, dir[f].run = run_id
             PROVE  \E i \in 1..Len(reports) :
                      /\ f = Out!json_path(i) /\ i <= next
                      /\ ~dir[f].whole => i = next /\ process \in Out!Ended
                      /\ \A j \in 1..(i - 1) :
                           dir[Out!json_path(j)] = [run |-> run_id, whole |-> TRUE]
  BY WrittenBy DEF PrefixWritten, Out!PrefixWritten, TornPrefix
<1> USE DEF TornPrefix
<1>1. PICK i \in 1..next : f = Out!json_path(i)
  OBVIOUS
<1>2. ~dir[f].whole => i = next
  <2>1. i # next => i \in 1..next - 1
    BY <1>1
  <2> QED
    BY <1>1, <2>1
<1>3. i \in 1..Len(reports) /\ i <= next /\ \A j \in 1..(i - 1) : j \in 1..next - 1
  BY <1>1
<1> QED
  BY <1>1, <1>2, <1>3

(* Nothing of this run is there yet.                                       *)
LEMMA NothingIsPrefix ==
  run_id \in Nat \ {0} /\ (\A f \in Out!File : dir[f].run # run_id) => PrefixWritten
BY WrittenBy DEF PrefixWritten, Out!PrefixWritten

(* Nothing is registered and nothing written at first.                     *)
LEMMA InitOutput == Init => RegisterInv /\ OutputInv
<1> SUFFICES ASSUME Init PROVE RegisterInv /\ OutputInv
  OBVIOUS
<1>1. /\ trackers = << >> /\ block = 0 /\ process = "exit_0" /\ run_id = 0
      /\ dir = [f \in Out!File |-> Out!Absent]
  BY Zenon DEF Init, Out!Init
<1>2. RegisterInv
  BY <1>1, RegisteredFirst DEF RegisterInv
<1>3. \A f \in Out!File : dir[f] = Out!Absent
  BY <1>1
<1>4. /\ dir \in [Out!File -> [run : Nat, whole : BOOLEAN]]
      /\ \A f \in Out!File : dir[f].run <= run_id /\ (dir[f].run = 0 => dir[f] = Out!Absent)
  BY <1>1, <1>3 DEF Out!Absent
<1>5. PrefixWritten
  BY <1>3 DEF PrefixWritten, Out!PrefixWritten, Out!written_by
<1>6. OutputInv
  BY <1>1, <1>4, <1>5 DEF OutputInv
<1> QED
  BY <1>2, <1>6

(* What is asked for is the file's to say.                                 *)
LEMMA NumberUnchanged ==
  ASSUME UNCHANGED file
  PROVE  /\ \A r : asked_for(r)' <=> asked_for(r)
         /\ \A k : number(k)' = number(k)
<1>1. \A r : asked_for(r)' <=> asked_for(r)
  BY DEF asked_for, Cfg!assigned
<1> QED
  BY <1>1 DEF number

(* The trackers after a step that registers s.                             *)
LEMMA TrackersRegistered ==
  ASSUME UNCHANGED file, NEW s, NEW b, Registered(s, b), trackers' = s, block' = b
  PROVE  Registered(trackers, block)'
BY NumberUnchanged DEF Registered

(* The reports of a run that begins to write s.                            *)
LEMMA ReportsRegistered ==
  ASSUME UNCHANGED file, NEW s, Registered(s, Len(AllReports)), reports' = s
  PROVE  Registered(reports, Len(AllReports))'
BY NumberUnchanged DEF Registered

(* A block registers its tracker as RegisteredNext says; the O/S ratio is  *)
(* the last block.                                                         *)
LEMMA StepRegister ==
  Surroundings /\ Phases /\ ConfigInv /\ RegisterInv /\ [Next]_vars => RegisterInv'
<1> SUFFICES ASSUME Surroundings, Phases, ConfigInv, RegisterInv, [Next]_vars
             PROVE  RegisterInv'
  OBVIOUS
<1> USE DEF RegisterInv
<1>1. CASE StartCommand
  <2>1. trackers' = << >> /\ block' = 0 /\ process' = "profiling"
    BY <1>1, Zenon DEF StartCommand, Fresh, Out!StartCommand
  <2>2. number(0)' = 0
    <3>1. ({j \in 1..0 : asked_for(AllReports[j])})' = {}
      OBVIOUS
    <3> QED
      BY <3>1, FS_EmptySet DEF number
  <2>3. Registered(trackers, block)'
    BY <2>1, <2>2 DEF Registered
  <2> QED
    BY <2>1, <2>3
<1>2. CASE RegisterTrackers
  <2>1. /\ loading = "configured" /\ block < Len(Order) /\ block' = block + 1
        /\ trackers' = IF config[<<"trackers", Order[block + 1]>>]
                       THEN Append(trackers, Order[block + 1]) ELSE trackers
        /\ UNCHANGED file /\ UNCHANGED output /\ process = "profiling"
    BY <1>2 DEF RegisterTrackers, Cfg!RegisterTracker
  <2>2. block \in 0..Len(Order) /\ block + 1 \in 1..Len(Order)
    BY <2>1, AllReportsTyped DEF Phases
  <2>3. /\ AllReports[block + 1] = Order[block + 1]
        /\ asked_for(AllReports[block + 1]) <=> config[<<"trackers", Order[block + 1]>>]
    BY <2>1, <2>2, AllReportsTyped, AskedIsConfigured
  <2>4. Registered(trackers', block + 1)
    BY <2>1, <2>2, <2>3, RegisteredNext
  <2>5. Registered(trackers, block)'
    BY <2>1, <2>4, NumberUnchanged DEF Registered
  <2> QED
    BY <2>1, <2>5 DEF output
<1>3. CASE StartWriting
  <2>1. /\ reading = "ok" /\ UNCHANGED configuring
        /\ reports' = trackers \o IF config[<<"os_ratio", "enabled">>] THEN <<"OsRatio">> ELSE << >>
    BY <1>3 DEF StartWriting, Out!ProfilingEnds
  <2>2. loading = "configured" /\ block = Len(Order)
    BY <2>1 DEF Phases
  <2>3. /\ block \in 0..Len(Order) /\ AllReports[block + 1] = "OsRatio"
        /\ block + 1 = Len(AllReports)
        /\ asked_for("OsRatio") <=> config[<<"os_ratio", "enabled">>]
    BY <2>2, AllReportsTyped, AskedIsConfigured
  <2>4. trackers \in Seq(Names) /\ "OsRatio" \in Names
    BY DEF Registered, Names
  <2>5. /\ trackers \o <<"OsRatio">> = Append(trackers, "OsRatio")
        /\ trackers \o << >> = trackers
    BY <2>4, AppendIsConcat, ConcatEmptySeq
  <2>6. Registered(reports', Len(AllReports))
    BY <2>1, <2>3, <2>5, RegisteredNext
  <2>7. UNCHANGED <<file, trackers, block>>
    BY <2>1 DEF configuring
  <2>8. Registered(reports, Len(AllReports))'
    BY <2>6, <2>7, NumberUnchanged DEF Registered
  <2>9. Registered(trackers, block)'
    BY <2>7, TrackersRegistered
  <2> QED
    BY <2>8, <2>9
<1>4. CASE \/ Configure \/ LoadPrices \/ ProfileDays \/ Exit \/ Write \/ Killed \/ UNCHANGED vars
  <2>1. UNCHANGED <<file, trackers, block, reports>>
    BY <1>4 DEF Configure, Cfg!Usage, Cfg!LoadFails, Cfg!Load, LoadPrices, ProfileDays, Exit,
                Out!ProfilingFails, Write, Out!CreateDirFails, Out!WriteReport, Out!WriteFails,
                Out!Done, Killed, Out!Killed, vars, configuring, output
  <2>2. Registered(trackers, block)'
    BY <2>1, TrackersRegistered
  <2>3. process' = "writing" \/ (process' = "exit_0" /\ run_id' > 0)
          => process = "writing" \/ (process = "exit_0" /\ run_id > 0)
    BY <1>4 DEF Configure, LoadPrices, ProfileDays, Exit, Out!ProfilingFails, Write,
                Out!CreateDirFails, Out!WriteReport, Out!WriteFails, Out!Done, Killed, Out!Killed,
                vars, output
  <2>4. Registered(reports, Len(AllReports)) => Registered(reports, Len(AllReports))'
    BY <2>1, ReportsRegistered
  <2> QED
    BY <2>2, <2>3, <2>4
<1> QED
  BY <1>1, <1>2, <1>3, <1>4 DEF Next

(* Each write moves next past a whole report; a failure or a kill leaves   *)
(* it at a torn one or before it.                                          *)
LEMMA StepOutput ==
  Phases /\ RegisterInv /\ OutputInv /\ [Next]_vars /\ Phases' /\ RegisterInv' => OutputInv'
<1> SUFFICES ASSUME Phases, RegisterInv, OutputInv, [Next]_vars, Phases', RegisterInv'
             PROVE  OutputInv'
  OBVIOUS
<1>w. (WholePrefix' => PrefixWritten') /\ (TornPrefix' => PrefixWritten')
  BY WholeIsPrefix, TornIsPrefix, PTL
<1>n. run_id' \in Nat \ {0} /\ (\A f \in Out!File : dir[f].run # run_id)' => PrefixWritten'
  <2>1. (run_id \in Nat \ {0} /\ \A f \in Out!File : dir[f].run # run_id)' => PrefixWritten'
    BY NothingIsPrefix, PTL
  <2> QED
    BY <2>1
<1>r. process = "writing" => Len(reports) \in Nat /\ \A i \in 1..Len(reports) :
                                Out!json_path(i) \in Out!File
  BY RegisteredFiles DEF RegisterInv, Out!json_path
<1>p. process # "exit_0" => run_id \in Nat \ {0}
  BY DEF Phases
<1>1. CASE StartCommand
  <2>1. /\ run_id' = run_id + 1 /\ process' = "profiling" /\ next' = 1 /\ dir' = dir
    BY <1>1 DEF StartCommand, Out!StartCommand
  <2>2. run_id \in Nat
    BY DEF Phases
  <2>3. \A f \in Out!File : dir'[f].run <= run_id /\ dir[f].run \in Nat
    BY <2>1 DEF OutputInv
  <2>4. \A f \in Out!File : dir'[f].run # run_id'
    BY <2>1, <2>2, <2>3
  <2>5. PrefixWritten'
    BY <1>n, <2>1, <2>2, <2>4
  <2> QED
    BY <2>1, <2>2, <2>3, <2>4, <2>5 DEF OutputInv
<1>2. CASE Exit
  <2>1. /\ process = "profiling" /\ process' = "exit_1"
        /\ UNCHANGED <<run_id, reports, next, dir>>
    BY <1>2 DEF Exit, Out!ProfilingFails
  <2>2. PrefixWritten'
    BY <1>n, <1>p, <2>1 DEF OutputInv
  <2> QED
    BY <2>1, <2>2 DEF OutputInv
<1>3. CASE StartWriting
  <2>1. process = "profiling" /\ process' = "writing" /\ UNCHANGED <<run_id, next, dir>>
    BY <1>3 DEF StartWriting, Out!ProfilingEnds
  <2>2. PrefixWritten'
    BY <1>n, <1>p, <2>1 DEF OutputInv
  <2>3. Len(reports') \in Nat
    BY <2>1 DEF RegisterInv, Registered
  <2>4. next' \in 1..Len(reports') + 1 /\ Written(next - 1)'
    BY <2>1, <2>3 DEF OutputInv, Written
  <2> QED
    BY <2>1, <2>2, <2>4 DEF OutputInv
<1>4. CASE Write /\ Out!WriteReport
  <2>1. /\ process = "writing" /\ next <= Len(reports) /\ next' = next + 1
        /\ dir' = [dir EXCEPT ![Out!json_path(next)] = [run |-> run_id, whole |-> TRUE]]
        /\ UNCHANGED <<run_id, reports, process>>
    BY <1>4 DEF Out!WriteReport
  <2>2. /\ next \in 1..Len(reports) /\ Len(reports) \in Nat /\ run_id \in Nat \ {0}
        /\ Out!json_path(next) \in Out!File /\ Written(next - 1)
    BY <1>p, <1>r, <2>1 DEF OutputInv
  <2>3. \A i : Out!json_path(i)' = Out!json_path(i)
    BY <2>1 DEF Out!json_path
  <2>4. \A i : Out!json_path(i) = Out!json_path(next) => i = next
    BY DEF Out!json_path
  <2>5. /\ dir' \in [Out!File -> [run : Nat, whole : BOOLEAN]]
        /\ \A f \in Out!File : dir'[f] = IF f = Out!json_path(next)
                                         THEN [run |-> run_id, whole |-> TRUE] ELSE dir[f]
    BY <2>1, <2>2 DEF OutputInv
  <2>6. Written(next - 1)'
    <3>1. next' - 1 = next /\ 1..next = (1..next - 1) \cup {next}
      BY <2>1, <2>2
    <3>2. \A f \in Out!File : dir'[f].run = run_id <=> \E i \in 1..next : f = Out!json_path(i)
      BY <2>2, <2>5, <3>1 DEF Written
    <3>3. \A i \in 1..next : dir'[Out!json_path(i)] = [run |-> run_id, whole |-> TRUE]
      <4>1. \A i \in 1..next - 1 : i # next /\ Out!json_path(i) \in Out!File
        BY <1>r, <2>1, <2>2
      <4> QED
        BY <2>2, <2>4, <2>5, <3>1, <4>1 DEF Written
    <3> QED
      BY <2>1, <2>3, <3>1, <3>2, <3>3 DEF Written
  <2>7. PrefixWritten'
    BY <1>w, <2>1, <2>2, <2>6 DEF WholePrefix
  <2>8. \A f \in Out!File : dir'[f].run <= run_id /\ (dir'[f].run = 0 => dir'[f] = Out!Absent)
    BY <2>2, <2>5 DEF OutputInv
  <2>9. next' \in 1..Len(reports') + 1 /\ process' = "writing" /\ run_id' = run_id
    BY <2>1, <2>2
  <2> QED
    BY <2>5, <2>6, <2>7, <2>8, <2>9 DEF OutputInv
<1>5. ASSUME process = "writing", next <= Len(reports), process' \in Out!Ended \ {"exit_0"},
             UNCHANGED <<run_id, reports, next>>,
             dir' = [dir EXCEPT ![Out!json_path(next)] = [run |-> run_id, whole |-> FALSE]]
      PROVE  OutputInv'
  <2>2. /\ next \in 1..Len(reports) /\ Len(reports) \in Nat /\ run_id \in Nat \ {0}
        /\ Out!json_path(next) \in Out!File /\ Written(next - 1)
    BY <1>p, <1>r, <1>5 DEF OutputInv
  <2>3. \A i : Out!json_path(i)' = Out!json_path(i)
    BY <1>5 DEF Out!json_path
  <2>4. \A i : Out!json_path(i) = Out!json_path(next) => i = next
    BY DEF Out!json_path
  <2>5. /\ dir' \in [Out!File -> [run : Nat, whole : BOOLEAN]]
        /\ \A f \in Out!File : dir'[f] = IF f = Out!json_path(next)
                                         THEN [run |-> run_id, whole |-> FALSE] ELSE dir[f]
    BY <1>5, <2>2 DEF OutputInv
  <2>6. TornPrefix'
    <3>1. 1..next = (1..next - 1) \cup {next}
      BY <2>2
    <3>2. \A f \in Out!File : dir'[f].run = run_id <=> \E i \in 1..next : f = Out!json_path(i)
      BY <2>2, <2>5, <3>1 DEF Written
    <3>3. \A i \in 1..next - 1 : dir'[Out!json_path(i)] = [run |-> run_id, whole |-> TRUE]
      <4>1. \A i \in 1..next - 1 : i # next /\ Out!json_path(i) \in Out!File
        BY <1>r, <1>5, <2>2
      <4> QED
        BY <2>2, <2>4, <2>5, <4>1 DEF Written
    <3> QED
      BY <1>5, <2>2, <2>3, <3>2, <3>3 DEF TornPrefix
  <2>7. PrefixWritten'
    BY <1>w, <2>6
  <2>8. \A f \in Out!File : dir'[f].run <= run_id /\ (dir'[f].run = 0 => dir'[f] = Out!Absent)
    BY <2>2, <2>5 DEF OutputInv
  <2>9. process' # "profiling" /\ process' # "writing" /\ process' # "exit_0"
    BY <1>5 DEF Out!Ended
  <2> QED
    BY <1>5, <2>5, <2>7, <2>8, <2>9 DEF OutputInv
<1>6. ASSUME process \in {"profiling", "writing"}, process' \in Out!Ended,
             process' = "exit_0" => process = "writing" /\ next > Len(reports),
             UNCHANGED <<run_id, reports, next, dir>>
      PROVE  OutputInv'
  <2>1. PrefixWritten'
    <3>1. CASE process = "profiling"
      BY <1>n, <1>p, <1>6, <3>1 DEF OutputInv
    <3>2. CASE process = "writing"
      <4>1. WholePrefix
        BY <1>p, <1>r, <3>2 DEF OutputInv, WholePrefix
      <4>2. WholePrefix'
        BY <1>6, <4>1 DEF WholePrefix, Written, Out!json_path
      <4> QED
        BY <1>w, <4>2
    <3> QED
      BY <1>6, <3>1, <3>2
  <2>2. ASSUME process' = "exit_0" PROVE next' = Len(reports') + 1 /\ Written(next - 1)'
    <3>1. process = "writing" /\ next > Len(reports) /\ Len(reports) \in Nat
      BY <1>6, <1>r, <2>2
    <3>2. next \in 1..Len(reports) + 1 /\ Written(next - 1)
      BY <3>1 DEF OutputInv
    <3>3. Written(next - 1)'
      BY <1>6, <3>2 DEF Written, Out!json_path
    <3> QED
      BY <1>6, <3>1, <3>2, <3>3
  <2> QED
    BY <1>6, <2>1, <2>2 DEF OutputInv, Out!Ended
<1>7. CASE Write /\ ~Out!WriteReport
  <2>1. CASE Out!CreateDirFails
    BY <1>6, <2>1 DEF Out!CreateDirFails, Out!Ended
  <2>2. CASE Out!WriteFails
    BY <1>5, <1>6, <2>2 DEF Out!WriteFails, Out!Ended
  <2>3. CASE Out!Done
    BY <1>6, <2>3 DEF Out!Done, Out!Ended
  <2> QED
    BY <1>7, <2>1, <2>2, <2>3 DEF Write
<1>8. CASE Killed
  <2>1. process \in {"profiling", "writing"} /\ process' = "killed"
    BY <1>8 DEF Killed, Out!Killed, Phases
  <2> QED
    BY <1>5, <1>6, <1>8, <2>1 DEF Killed, Out!Killed, Out!Ended
<1>9. CASE Configure \/ LoadPrices \/ RegisterTrackers \/ ProfileDays \/ UNCHANGED vars
  <2>1. UNCHANGED <<run_id, process, reports, next, dir>>
    BY <1>9 DEF Configure, LoadPrices, RegisterTrackers, ProfileDays, vars, output
  <2>2. PrefixWritten'
    <3>1. PrefixWritten
      BY DEF OutputInv
    <3> QED
      BY ONLY <2>1, <3>1, Zenon
         DEF PrefixWritten, Out!PrefixWritten, Out!written_by, Out!json_path
  <2>3. Written(next - 1) => Written(next - 1)'
    BY <2>1 DEF Written, Out!json_path
  <2> QED
    BY <2>1, <2>2, <2>3 DEF OutputInv
<1> QED
  BY <1>1, <1>2, <1>3, <1>4, <1>7, <1>8, <1>9 DEF Next

(* When next is past the last report, the files are all there.             *)
LEMMA ExitZero ==
  Phases /\ RegisterInv /\ OutputInv => ExitZeroIsComplete
<1> SUFFICES ASSUME Phases, RegisterInv, OutputInv, process = "exit_0", run_id > 0
             PROVE  /\ Out!written_by(run_id) =
                         {<<number(k), AllReports[k]>> :
                            k \in {j \in DOMAIN AllReports : asked_for(AllReports[j])}}
                    /\ \A f \in Out!written_by(run_id) : dir[f].whole
  BY DEF ExitZeroIsComplete
<1>1. run_id \in Nat \ {0}
  BY DEF Phases
<1>2. Out!written_by(run_id) = {f \in Out!File : dir[f].run = run_id}
  BY <1>1, WrittenBy
<1>3. /\ reports \in Seq(Names)
      /\ \A i \in 1..Len(reports) : Out!json_path(i) \in Out!File
      /\ {Out!json_path(i) : i \in 1..Len(reports)} =
           {<<number(k), AllReports[k]>> :
              k \in {j \in DOMAIN AllReports : asked_for(AllReports[j])}}
  BY RegisteredFiles DEF RegisterInv, Out!json_path
<1>4. Written(Len(reports))
  <2>1. Len(reports) \in Nat /\ next = Len(reports) + 1 /\ Written(next - 1)
    BY <1>3 DEF OutputInv
  <2>2. next - 1 = Len(reports)
    BY <2>1
  <2> QED
    BY <2>1, <2>2
<1>5. \A f \in Out!File : dir[f].run = run_id <=> f \in {Out!json_path(i) : i \in 1..Len(reports)}
  BY <1>4 DEF Written
<1>6. Out!written_by(run_id) = {Out!json_path(i) : i \in 1..Len(reports)}
  BY ONLY <1>2, <1>3, <1>5
<1>7. \A f \in Out!written_by(run_id) : dir[f].whole
  BY ONLY <1>4, <1>6 DEF Written
<1> QED
  BY ONLY <1>3, <1>6, <1>7

-----------------------------------------------------------------------------
(* The names of the files                                                  *)

(* The pattern of a configuration that loads is one.                       *)
LEMMA PatternTyped ==
  ASSUME Surroundings, ConfigInv, loading = "configured"
  PROVE  input_section.filename_pattern \in In!Pattern
<1>1. PICK a \in file.given : <<a.section, a.key>> = <<"input", "filename_pattern">>
  BY DEF ConfigInv, Cfg!Required, Cfg!assigned
<1>2. a.section = "input" /\ a.key = "filename_pattern"
  BY <1>1
<1>3. a.value \in In!Pattern
  BY <1>2, SurroundingsTyped
<1>4. config[<<"input", "filename_pattern">>] = a.value
  BY <1>2 DEF ConfigInv, ConfigIsTheFile, Cfg!ConfigIsTheFile
<1>5. "filename_pattern" \in Cfg!Keys.input
  BY DEF Cfg!Keys
<1> QED
  BY <1>3, <1>4, <1>5 DEF input_section

(* The two sides of the pattern are sequences of pieces.                   *)
LEMMA AffixesTyped ==
  ASSUME Surroundings, ConfigInv, loading = "configured"
  PROVE  In!prefix \in Seq(STRING) /\ In!suffix \in Seq(STRING)
BY PatternTyped DEF In!prefix, In!suffix, In!Pattern

(* starts_with(), piece by piece.                                          *)
LEMMA StartsWith ==
  ASSUME NEW Piece, NEW p \in Seq(Piece), NEW name \in Seq(Piece)
  PROVE  In!IsPrefix(p, name) <=>
           Len(p) <= Len(name) /\ \A i \in 1..Len(p) : p[i] = name[i]
<1>1. ASSUME Len(p) <= Len(name)
      PROVE  SubSeq(p, 1, Len(p)) = SubSeq(name, 1, Len(p)) <=> \A i \in 1..Len(p) : p[i] = name[i]
  <2>1. /\ DOMAIN SubSeq(p, 1, Len(p)) = 1..Len(p)
        /\ DOMAIN SubSeq(name, 1, Len(p)) = 1..Len(p)
        /\ SubSeq(p, 1, Len(p)) \in Seq(Piece) /\ SubSeq(name, 1, Len(p)) \in Seq(Piece)
        /\ Len(SubSeq(p, 1, Len(p))) = Len(p) /\ Len(SubSeq(name, 1, Len(p))) = Len(p)
        /\ \A i \in 1..Len(p) : SubSeq(p, 1, Len(p))[i] = p[i] /\ SubSeq(name, 1, Len(p))[i] = name[i]
    BY <1>1
  <2> QED
    BY <2>1, SeqEqual
<1> QED
  BY <1>1 DEF In!IsPrefix

(* ends_with(), piece by piece from the end.                               *)
LEMMA EndsWith ==
  ASSUME NEW Piece, NEW s \in Seq(Piece), NEW name \in Seq(Piece)
  PROVE  In!IsSuffix(s, name) <=>
           /\ Len(s) <= Len(name)
           /\ \A i \in 1..Len(s) : s[i] = name[Len(name) - Len(s) + i]
<1>1. /\ In!Reverse(s) \in Seq(Piece) /\ Len(In!Reverse(s)) = Len(s)
      /\ In!Reverse(name) \in Seq(Piece) /\ Len(In!Reverse(name)) = Len(name)
      /\ \A i \in 1..Len(s) : In!Reverse(s)[i] = s[Len(s) - i + 1]
      /\ \A i \in 1..Len(name) : In!Reverse(name)[i] = name[Len(name) - i + 1]
  BY DEF In!Reverse
<1>2. In!IsSuffix(s, name) <=>
        Len(s) <= Len(name) /\ \A i \in 1..Len(s) : In!Reverse(s)[i] = In!Reverse(name)[i]
  <2>1. In!IsPrefix(In!Reverse(s), In!Reverse(name)) <=>
          /\ Len(In!Reverse(s)) <= Len(In!Reverse(name))
          /\ \A i \in 1..Len(In!Reverse(s)) : In!Reverse(s)[i] = In!Reverse(name)[i]
    BY <1>1, StartsWith
  <2> QED
    BY <1>1, <2>1 DEF In!IsSuffix
<1>3. ASSUME Len(s) <= Len(name)
      PROVE  (\A i \in 1..Len(s) : In!Reverse(s)[i] = In!Reverse(name)[i]) <=>
             (\A i \in 1..Len(s) : s[i] = name[Len(name) - Len(s) + i])
  <2>1. \A i \in 1..Len(s) :
          /\ Len(s) - i + 1 \in 1..Len(s) /\ Len(s) - (Len(s) - i + 1) + 1 = i
          /\ Len(name) - (Len(s) - i + 1) + 1 = Len(name) - Len(s) + i
          /\ Len(name) - Len(s) + (Len(s) - i + 1) = Len(name) - i + 1
          /\ i \in 1..Len(name)
    BY <1>3
  <2>2. ASSUME \A i \in 1..Len(s) : In!Reverse(s)[i] = In!Reverse(name)[i], NEW i \in 1..Len(s)
        PROVE  s[i] = name[Len(name) - Len(s) + i]
    <3> DEFINE j == Len(s) - i + 1
    <3>1. j \in 1..Len(s) /\ j \in 1..Len(name) /\ Len(s) - j + 1 = i
          /\ Len(name) - j + 1 = Len(name) - Len(s) + i
      BY <2>1
    <3>2. In!Reverse(s)[j] = s[i] /\ In!Reverse(name)[j] = name[Len(name) - Len(s) + i]
      BY <1>1, <3>1
    <3> QED
      BY <2>2, <3>1, <3>2
  <2>3. ASSUME \A i \in 1..Len(s) : s[i] = name[Len(name) - Len(s) + i], NEW i \in 1..Len(s)
        PROVE  In!Reverse(s)[i] = In!Reverse(name)[i]
    <3> DEFINE j == Len(s) - i + 1
    <3>1. j \in 1..Len(s) /\ Len(name) - Len(s) + j = Len(name) - i + 1 /\ i \in 1..Len(name)
      BY <2>1
    <3>2. s[j] = name[Len(name) - i + 1]
      BY <2>3, <3>1
    <3> QED
      BY <1>1, <3>1, <3>2
  <2> QED
    BY <2>2, <2>3
<1> QED
  BY <1>2, <1>3

(* A name that is like the pattern and too short for it: the end of the    *)
(* prefix is the beginning of the suffix.                                  *)
LEMMA TooShortOverlaps ==
  ASSUME NEW Piece, NEW p \in Seq(Piece), NEW s \in Seq(Piece), NEW name \in Seq(Piece),
         In!IsPrefix(p, name), In!IsSuffix(s, name), Len(p) + Len(s) > Len(name)
  PROVE  \E n \in 1..Len(p) :
           n <= Len(s) /\ SubSeq(p, Len(p) - n + 1, Len(p)) = SubSeq(s, 1, n)
<1> DEFINE n == Len(p) + Len(s) - Len(name)
<1>1. /\ Len(p) <= Len(name) /\ \A i \in 1..Len(p) : p[i] = name[i]
      /\ Len(s) <= Len(name) /\ \A i \in 1..Len(s) : s[i] = name[Len(name) - Len(s) + i]
  BY StartsWith, EndsWith
<1>2. /\ n \in 1..Len(p) /\ n <= Len(s) /\ Len(p) - n = Len(name) - Len(s)
      /\ Len(p) - n + 1 \in 1..Len(p)
  BY <1>1
<1>3. /\ SubSeq(p, Len(p) - n + 1, Len(p)) \in Seq(Piece)
      /\ SubSeq(s, 1, n) \in Seq(Piece)
      /\ Len(SubSeq(p, Len(p) - n + 1, Len(p))) = n /\ Len(SubSeq(s, 1, n)) = n
      /\ \A i \in 1..n : SubSeq(p, Len(p) - n + 1, Len(p))[i] = p[Len(p) - n + i]
      /\ \A i \in 1..n : SubSeq(s, 1, n)[i] = s[i]
  BY <1>2
<1>4. \A i \in 1..n : p[Len(p) - n + i] = s[i]
  <2> TAKE i \in 1..n
  <2>1. Len(p) - n + i \in 1..Len(p) /\ i \in 1..Len(s)
        /\ Len(p) - n + i = Len(name) - Len(s) + i
    BY <1>2
  <2> QED
    BY <1>1, <2>1
<1>5. SubSeq(p, Len(p) - n + 1, Len(p)) = SubSeq(s, 1, n)
  BY <1>3, <1>4, SeqEqual
<1> QED
  BY <1>2, <1>5

(* What a sequence made of two has at each place.                          *)
LEMMA Joined ==
  ASSUME NEW S, NEW a \in Seq(S), NEW b \in Seq(S)
  PROVE  /\ a \o b \in Seq(S) /\ Len(a \o b) = Len(a) + Len(b)
         /\ \A i \in 1..Len(a) : (a \o b)[i] = a[i]
         /\ \A i \in 1..Len(b) : (a \o b)[Len(a) + i] = b[i]
<1>1. a \o b \in Seq(S) /\ Len(a \o b) = Len(a) + Len(b)
  OBVIOUS
<1>2. ASSUME NEW i \in 1..Len(a) PROVE (a \o b)[i] = a[i]
  OBVIOUS
<1>3. ASSUME NEW i \in 1..Len(b) PROVE (a \o b)[Len(a) + i] = b[i]
  OBVIOUS
<1> QED
  BY <1>1, <1>2, <1>3

(* What a sequence made of three has at each place.                        *)
LEMMA JoinedTwice ==
  ASSUME NEW S, NEW a \in Seq(S), NEW b \in Seq(S), NEW c \in Seq(S)
  PROVE  /\ a \o b \o c \in Seq(S) /\ Len(a \o b \o c) = Len(a) + Len(b) + Len(c)
         /\ \A i \in 1..Len(a) : (a \o b \o c)[i] = a[i]
         /\ \A i \in 1..Len(b) : (a \o b \o c)[Len(a) + i] = b[i]
         /\ \A i \in 1..Len(c) : (a \o b \o c)[Len(a) + Len(b) + i] = c[i]
<1>1. PICK half : half = a \o b
  OBVIOUS
<1>2. half \in Seq(S) /\ Len(half) = Len(a) + Len(b)
  BY <1>1, Joined
<1>3. ASSUME NEW i \in 1..Len(a) PROVE half[i] = a[i]
  BY <1>1, Joined
<1>4. ASSUME NEW i \in 1..Len(b) PROVE half[Len(a) + i] = b[i]
  BY <1>1, Joined
<1>5. PICK whole : whole = half \o c
  OBVIOUS
<1>6. whole \in Seq(S) /\ Len(whole) = Len(half) + Len(c)
  BY <1>2, <1>5, Joined
<1>7. ASSUME NEW i \in 1..Len(half) PROVE whole[i] = half[i]
  BY <1>2, <1>5, Joined
<1>8. ASSUME NEW i \in 1..Len(c) PROVE whole[Len(half) + i] = c[i]
  BY <1>2, <1>5, Joined
<1>9. Len(a) \in Nat /\ Len(b) \in Nat /\ Len(c) \in Nat
  OBVIOUS
<1>10. ASSUME NEW i \in 1..Len(a) PROVE whole[i] = a[i]
  <2>1. i \in 1..Len(half)
    BY <1>2, <1>9
  <2> QED
    BY <1>3, <1>7, <2>1
<1>11. ASSUME NEW i \in 1..Len(b) PROVE whole[Len(a) + i] = b[i]
  <2>1. Len(a) + i \in 1..Len(half)
    BY <1>2, <1>9
  <2> QED
    BY <1>4, <1>7, <2>1
<1>12. ASSUME NEW i \in 1..Len(c) PROVE whole[Len(a) + Len(b) + i] = c[i]
  BY <1>2, <1>8
<1>13. whole = a \o b \o c /\ Len(whole) = Len(a) + Len(b) + Len(c)
  BY <1>1, <1>2, <1>5, <1>6
<1> QED
  BY <1>6, <1>10, <1>11, <1>12, <1>13, Zenon

(* The text between the prefix and the suffix of a name.                   *)
Between(p, name, s) == SubSeq(name, Len(p) + 1, Len(name) - Len(s))

(* A text between a prefix and a suffix.                                   *)
Around(p, one, s) == p \o one \o s

(* The names that make a date are those of the pattern with the date in it.*)
LEMMA DatedName ==
  ASSUME NEW Piece, NEW p \in Seq(Piece), NEW s \in Seq(Piece), NEW name \in Seq(Piece),
         NEW one \in Seq(Piece)
  PROVE  Len(one) = 1 =>
           (/\ In!IsPrefix(p, name) /\ In!IsSuffix(s, name)
            /\ Between(p, name, s) = one
            <=> name = Around(p, one, s))
<1> DEFINE n == Len(p) + 1 + Len(s)
<1>0. PICK whole : whole = p \o one \o s
  OBVIOUS
<1>a. whole \in Seq(Piece) /\ Len(whole) = Len(p) + Len(one) + Len(s)
  BY <1>0, JoinedTwice
<1>b. \A i \in 1..Len(p) : whole[i] = p[i]
  BY <1>0, JoinedTwice
<1>c. \A i \in 1..Len(one) : whole[Len(p) + i] = one[i]
  BY <1>0, JoinedTwice
<1>d. \A i \in 1..Len(s) : whole[Len(p) + Len(one) + i] = s[i]
  BY <1>0, JoinedTwice
<1> SUFFICES ASSUME Len(one) = 1
             PROVE  /\ In!IsPrefix(p, name) /\ In!IsSuffix(s, name)
                    /\ SubSeq(name, Len(p) + 1, Len(name) - Len(s)) = one
                    <=> name = whole
  BY <1>0 DEF Between, Around
<1>1. /\ whole \in Seq(Piece) /\ Len(whole) = n
      /\ \A i \in 1..Len(p) : whole[i] = p[i]
      /\ whole[Len(p) + 1] = one[1]
      /\ \A i \in 1..Len(s) : whole[Len(p) + 1 + i] = s[i]
  BY <1>a, <1>b, <1>c, <1>d
<1>2. ASSUME name = whole
      PROVE  /\ In!IsPrefix(p, name) /\ In!IsSuffix(s, name)
             /\ SubSeq(name, Len(p) + 1, Len(name) - Len(s)) = one
  <2>1. Len(name) = n /\ Len(name) - Len(s) = Len(p) + 1 /\ Len(p) + 1 \in 1..Len(name)
    BY <1>1, <1>2
  <2>2. In!IsPrefix(p, name)
    <3>1. Len(p) <= Len(name) /\ \A i \in 1..Len(p) : p[i] = name[i]
      BY <1>1, <1>2, <2>1
    <3> QED
      BY <3>1, StartsWith
  <2>3. In!IsSuffix(s, name)
    <3>1. Len(s) <= Len(name) /\ \A i \in 1..Len(s) : s[i] = name[Len(name) - Len(s) + i]
      <4> SUFFICES ASSUME NEW i \in 1..Len(s) PROVE s[i] = name[Len(name) - Len(s) + i]
        BY <2>1
      <4>1. Len(name) - Len(s) + i = Len(p) + 1 + i
        BY <2>1
      <4>2. whole[Len(p) + 1 + i] = s[i]
        BY <1>1
      <4> QED
        BY <1>2, <4>1, <4>2
    <3> QED
      BY <3>1, EndsWith
  <2>4. SubSeq(name, Len(p) + 1, Len(p) + 1) = one
    <3>1. name[Len(p) + 1] = one[1]
      BY <1>1, <1>2
    <3>2. /\ SubSeq(name, Len(p) + 1, Len(p) + 1) \in Seq(Piece)
          /\ Len(SubSeq(name, Len(p) + 1, Len(p) + 1)) = 1
          /\ SubSeq(name, Len(p) + 1, Len(p) + 1)[1] = name[Len(p) + 1]
      BY <2>1
    <3> QED
      BY <3>1, <3>2, SeqEqual
  <2> QED
    BY <2>1, <2>2, <2>3, <2>4
<1>3. ASSUME In!IsPrefix(p, name), In!IsSuffix(s, name),
             SubSeq(name, Len(p) + 1, Len(name) - Len(s)) = one
      PROVE  name = whole
  <2>1. /\ Len(p) <= Len(name) /\ \A i \in 1..Len(p) : p[i] = name[i]
        /\ Len(s) <= Len(name) /\ \A i \in 1..Len(s) : s[i] = name[Len(name) - Len(s) + i]
    BY <1>3, StartsWith, EndsWith
  <2>2. Len(name) = n
    <3>1. Len(SubSeq(name, Len(p) + 1, Len(name) - Len(s))) = 1
      BY <1>3
    <3> QED
      BY <2>1, <3>1
  <2>3. name[Len(p) + 1] = one[1]
    <3>1. SubSeq(name, Len(p) + 1, Len(p) + 1)[1] = name[Len(p) + 1]
      BY <2>2
    <3>2. Len(name) - Len(s) = Len(p) + 1
      BY <2>2
    <3> QED
      BY <1>3, <3>1, <3>2
  <2>4. \A i \in 1..Len(s) : name[Len(p) + 1 + i] = s[i]
    <3> TAKE i \in 1..Len(s)
    <3>1. Len(name) - Len(s) + i = Len(p) + 1 + i
      BY <2>2
    <3> QED
      BY <2>1, <3>1
  <2>5. \A i \in 1..n : name[i] = whole[i]
    <3> TAKE i \in 1..n
    <3>1. CASE i \in 1..Len(p)
      BY <1>1, <2>1, <3>1
    <3>2. CASE i = Len(p) + 1
      BY <1>1, <2>3, <3>2
    <3>3. CASE i > Len(p) + 1
      <4>1. i - Len(p) - 1 \in 1..Len(s) /\ Len(p) + 1 + (i - Len(p) - 1) = i
        BY <3>3
      <4> QED
        BY <1>1, <2>4, <4>1
    <3> QED
      BY <3>1, <3>2, <3>3
  <2> QED
    BY <1>1, <2>2, <2>5, SeqEqual
<1> QED
  BY <1>2, <1>3

(* What sort_by() does: nothing is lost, and dates ascend.                 *)
LEMMA SortedElements ==
  ASSUME NEW S, NEW s \in Seq(S), NEW t, In!sorted_by_date(s, t)
  PROVE  /\ t \in Seq(S) /\ Len(t) = Len(s)
         /\ \A k \in DOMAIN t : \E j \in DOMAIN s : t[k] = s[j]
         /\ \A j \in DOMAIN s : \E k \in DOMAIN t : t[k] = s[j]
<1>1. PICK p \in In!Bijection(DOMAIN s, DOMAIN s) : t = [k \in DOMAIN s |-> s[p[k]]]
  BY DEF In!sorted_by_date
<1>2. /\ p \in [DOMAIN s -> DOMAIN s]
      /\ \A k \in DOMAIN s : \E j \in DOMAIN s : p[j] = k
  BY DEF In!Bijection, In!Injection, In!Surjection
<1>3. DOMAIN s = 1..Len(s) /\ Len(s) \in Nat /\ \A k \in DOMAIN s : s[k] \in S
  OBVIOUS
<1>4. t \in Seq(S) /\ Len(t) = Len(s) /\ DOMAIN t = DOMAIN s
  BY <1>1, <1>2, <1>3, IsASeq
<1> QED
  BY <1>1, <1>2, <1>4

(* Without two days of one date the order is strict.                       *)
LEMMA SortedAscends ==
  ASSUME NEW s, NEW t, In!sorted_by_date(s, t),
         \A k \in DOMAIN s : k \in Nat /\ s[k].date \in Nat,
         \A j, k \in DOMAIN s : j # k => s[j].date # s[k].date
  PROVE  \A j, k \in DOMAIN t : j < k => t[j].date < t[k].date
<1>1. PICK p \in In!Bijection(DOMAIN s, DOMAIN s) :
        /\ \A j, k \in DOMAIN s : j < k =>
             \/ s[p[j]].date < s[p[k]].date
             \/ s[p[j]].date = s[p[k]].date /\ p[j] < p[k]
        /\ t = [k \in DOMAIN s |-> s[p[k]]]
  BY DEF In!sorted_by_date
<1>2. p \in [DOMAIN s -> DOMAIN s]
  BY DEF In!Bijection, In!Injection
<1>3. SUFFICES ASSUME NEW j \in DOMAIN s, NEW k \in DOMAIN s, j < k
               PROVE  s[p[j]].date < s[p[k]].date
  BY <1>1
<1>4. p[j] \in DOMAIN s /\ p[k] \in DOMAIN s
  BY <1>2
<1>5. p[j] < p[k] => p[j] # p[k]
  BY <1>4
<1> QED
  BY <1>1, <1>3, <1>4, <1>5

(* find() returns a price of the date, if there is one.                    *)
LEMMA PriceFound ==
  ASSUME underlying_prices \in Seq(In!Price), NEW date, In!priced(date)
  PROVE  /\ In!price_of(date) \in {underlying_prices[k] : k \in DOMAIN underlying_prices}
         /\ In!price_of(date).date = date
<1> DEFINE R == OpToRel(<, Nat)
           I == {i \in 1..Len(underlying_prices) : underlying_prices[i].date = date}
<1>1. I # {} /\ I \subseteq Nat
  BY DEF In!priced
<1>2. PICK m \in I : \A i \in I : m <= i
  <2>1. PICK m \in I : \A i \in I : ~(<<i, m>> \in R)
    BY <1>1, NatLessThanWellFounded, WFMin, Zenon
  <2>2. \A i \in I : i \in Nat /\ m \in Nat /\ (i < m => <<i, m>> \in R)
    BY <1>1 DEF OpToRel
  <2> HIDE DEF R
  <2>3. \A i \in I : i \in Nat /\ m \in Nat /\ ~(i < m)
    BY <2>1, <2>2, Zenon
  <2> QED
    BY <2>3
<1>3. In!Min(I) \in I
  BY <1>2 DEF In!Min
<1>4. In!price_of(date) = underlying_prices[In!Min(I)]
  BY <1>1 DEF In!price_of, In!SelectInSeq
<1>5. PICK i \in I : i = In!Min(I)
  BY <1>3
<1>6. In!price_of(date) = underlying_prices[i] /\ i \in DOMAIN underlying_prices
      /\ underlying_prices[i].date = date
  BY <1>4, <1>5
<1> QED
  BY <1>6

-----------------------------------------------------------------------------
(* The files that are listed                                               *)

(* The file of a date, and its date is asked for.                          *)
Named(e) == In!prefix \o <<e>> \o In!suffix

(* A file as discover_files() returns it.                                  *)
ListedFile == [date : Nat]

(* The dates of the files listed so far.                                   *)
FileDates == {files[k].date : k \in DOMAIN files}

(* The dates asked for of which the file has been read.                    *)
DatesRead ==
  {DateOf[d] : d \in {e \in DOMAIN DateOf : /\ Named(e) \in directory /\ Named(e) \notin unread
                                            /\ In!in_range(DateOf[e])}}

(* The files listed so far are those of the dates read so far, each date   *)
(* once, and the list is in order when the days begin.                     *)
FilesInv ==
  /\ files \in Seq(ListedFile)
  /\ \A j, k \in DOMAIN files : j # k => files[j].date # files[k].date
  /\ reading \in {"start", "prices", "discover"} => files = << >>
  /\ reading \in {"start", "prices", "discover", "listing"} => profiled = << >>
  /\ reading = "listing" =>
       directory # None /\ unread \subseteq directory /\ FileDates = DatesRead
  /\ reading \in {"days", "ok"} =>
       /\ FileDates = In!asked_for
       /\ \A j, k \in DOMAIN files : j < k => files[j].date < files[k].date

(* A sequence of one.                                                      *)
LEMMA Singleton ==
  ASSUME NEW S, NEW x \in S
  PROVE  <<x>> \in Seq(S) /\ Len(<<x>>) = 1 /\ <<x>>[1] = x
OBVIOUS

(* The code takes the date out of a name; the other way round, a date and  *)
(* the pattern make one name.                                              *)
LEMMA NamesOfDates ==
  ASSUME Surroundings, ConfigInv, loading = "configured",
         NEW name \in Seq(STRING), NEW e \in DOMAIN DateOf
  PROVE  /\ In!named_like(name) /\ In!date_part(name) = <<e>> <=> name = Named(e)
         /\ name = Named(e) => In!date_part(name)[1] = e
<1> DEFINE one == <<e>>
<1>1. e \in STRING
  BY CommandAssumption, Zenon
<1>2. one \in Seq(STRING) /\ Len(one) = 1 /\ one[1] = e
  BY <1>1, Singleton, Zenon
<1>3. PICK p \in Seq(STRING), s \in Seq(STRING) : p = In!prefix /\ s = In!suffix
  BY AffixesTyped
<1> HIDE DEF one
<1>4. /\ In!IsPrefix(p, name) /\ In!IsSuffix(s, name)
      /\ Between(p, name, s) = one
      <=> name = Around(p, one, s)
  BY <1>2, DatedName
<1>5. In!named_like(name) /\ In!date_part(name) = <<e>> <=> name = Named(e)
  BY <1>3, <1>4 DEF In!named_like, In!date_part, Named, Between, Around, one
<1> QED
  BY <1>2, <1>5 DEF one

(* The directory loop lists just the names made of a date asked for.       *)
LEMMA ListedIsNamed ==
  ASSUME Surroundings, ConfigInv, loading = "configured", NEW name \in Seq(STRING)
  PROVE  In!listed(name) <=>
           \E e \in DOMAIN DateOf : name = Named(e) /\ In!in_range(DateOf[e])
BY NamesOfDates DEF In!listed

(* A name is made of one date.                                             *)
LEMMA NamedOnce ==
  ASSUME Surroundings, ConfigInv, loading = "configured",
         NEW name \in Seq(STRING), NEW d \in DOMAIN DateOf, NEW e \in DOMAIN DateOf,
         name = Named(d), name = Named(e)
  PROVE  d = e
BY NamesOfDates

(* Names and ranges are the configuration's.                               *)
LEMMA NamedUnchanged ==
  ASSUME UNCHANGED config
  PROVE  /\ \A e \in DOMAIN DateOf : Named(e)' = Named(e)
         /\ \A e \in DOMAIN DateOf : In!in_range(DateOf[e])' <=> In!in_range(DateOf[e])
BY DEF Named, In!prefix, In!suffix, In!in_range, input_section

(* A step outside the directory loop.                                      *)
LEMMA FilesUnchanged ==
  ASSUME UNCHANGED <<config, inputs>>, FilesInv
  PROVE  FilesInv'
<1>1. UNCHANGED <<directory, reading, unread, files, profiled>>
  BY DEF inputs
<1>2. DatesRead' = DatesRead
  BY <1>1, NamedUnchanged DEF DatesRead
<1>3. In!asked_for' = In!asked_for
  BY <1>1 DEF In!asked_for, In!prefix, In!suffix, In!in_range, input_section
<1> QED
  BY <1>1, <1>2, <1>3 DEF FilesInv, FileDates

(* The loop begins with all the entries unread.                            *)
LEMMA StepReadDirectory ==
  ASSUME Surroundings, Phases, FilesInv, In!ReadDirectory, UNCHANGED config
  PROVE  FilesInv'
<1>1. /\ reading = "discover" /\ reading' = "listing" /\ directory # None
      /\ unread' = directory /\ UNCHANGED <<directory, files, profiled>>
  BY DEF In!ReadDirectory, In!environment
<1>2. DatesRead' = {}
  BY <1>1, NamedUnchanged DEF DatesRead
<1>3. files = << >> /\ profiled = << >>
  BY <1>1 DEF FilesInv
<1>4. FileDates' = {}
  BY <1>1, <1>3 DEF FileDates
<1> QED
  BY <1>1, <1>2, <1>3, <1>4 DEF FilesInv

(* An entry adds its date, if it is one asked for, and adds it once.       *)
LEMMA StepReadEntry ==
  ASSUME Surroundings, Phases, ConfigInv, FilesInv, In!ReadEntry, UNCHANGED config
  PROVE  FilesInv'
<1>1. PICK name \in unread :
        /\ unread' = unread \ {name}
        /\ files' = IF In!listed(name)
                    THEN Append(files, [date |-> DateOf[In!date_part(name)[1]]])
                    ELSE files
  BY DEF In!ReadEntry
<1>2. reading = "listing" /\ UNCHANGED <<directory, reading, profiled>>
  BY DEF In!ReadEntry, In!environment
<1>3. loading = "configured"
  BY <1>2 DEF Phases
<1>4. /\ directory # None /\ unread \subseteq directory /\ FileDates = DatesRead
      /\ profiled = << >> /\ files \in Seq(ListedFile)
      /\ \A j, k \in DOMAIN files : j # k => files[j].date # files[k].date
  BY <1>2 DEF FilesInv
<1>5. name \in Seq(STRING) /\ name \in directory
  BY <1>4, SurroundingsTyped
<1>6. FileDates' = DatesRead' /\ files' \in Seq(ListedFile)
      /\ \A j, k \in DOMAIN files' : j # k => files'[j].date # files'[k].date
  <2>1. CASE In!listed(name)
    <3>1. PICK e \in DOMAIN DateOf : name = Named(e) /\ In!in_range(DateOf[e])
      BY <1>3, <1>5, <2>1, ListedIsNamed
    <3>2. In!date_part(name)[1] = e
      BY <1>3, <1>5, <3>1, NamesOfDates
    <3> DEFINE file_ == [date |-> DateOf[e]]
    <3>3. files' = Append(files, file_)
      BY <1>1, <2>1, <3>2
    <3>4. DateOf[e] \in Nat /\ file_ \in ListedFile /\ file_.date = DateOf[e]
      BY CommandAssumption DEF ListedFile
    <3> HIDE DEF file_
    <3>5. /\ files' \in Seq(ListedFile) /\ DOMAIN files' = 1..Len(files) + 1
          /\ \A k \in DOMAIN files : files'[k] = files[k]
          /\ files'[Len(files) + 1] = file_
          /\ DOMAIN files = 1..Len(files) /\ Len(files) \in Nat
      BY <1>4, <3>3, <3>4
    <3>6. FileDates' = FileDates \cup {DateOf[e]}
      BY <3>4, <3>5 DEF FileDates
    <3>7. DatesRead' = DatesRead \cup {DateOf[e]}
      <4>1. \A d \in DOMAIN DateOf :
              Named(d) \in directory /\ Named(d) \notin unread' /\ In!in_range(DateOf[d]) <=>
                d = e \/ (Named(d) \in directory /\ Named(d) \notin unread /\ In!in_range(DateOf[d]))
        BY <1>1, <1>3, <1>5, <3>1, NamedOnce
      <4>2. DatesRead' = {DateOf[d] : d \in {x \in DOMAIN DateOf :
                /\ Named(x) \in directory /\ Named(x) \notin unread'
                /\ In!in_range(DateOf[x])}}
        BY <1>2, NamedUnchanged DEF DatesRead
      <4> QED
        BY <4>1, <4>2 DEF DatesRead
    <3>8. DateOf[e] \notin FileDates
      <4>1. ASSUME NEW d \in DOMAIN DateOf, Named(d) \notin unread, DateOf[d] = DateOf[e]
            PROVE  FALSE
        <5>1. d = e
          BY <4>1, CommandAssumption
        <5> QED
          BY <3>1, <4>1, <5>1
      <4> QED
        BY <1>4, <4>1 DEF DatesRead
    <3>9. \A j, k \in DOMAIN files' : j # k => files'[j].date # files'[k].date
      <4>1. \A k \in DOMAIN files : files[k].date # DateOf[e]
        BY <3>8 DEF FileDates
      <4> SUFFICES ASSUME NEW j \in 1..Len(files) + 1, NEW k \in 1..Len(files) + 1, j # k
                   PROVE  files'[j].date # files'[k].date
        BY <3>5
      <4>2. \A i \in 1..Len(files) + 1 : i \in DOMAIN files \/ i = Len(files) + 1
        BY <3>5
      <4>3. CASE j \in DOMAIN files /\ k \in DOMAIN files
        BY <1>4, <3>5, <4>3
      <4>4. CASE j \in DOMAIN files /\ k = Len(files) + 1
        BY <3>4, <3>5, <4>1, <4>4
      <4>5. CASE j = Len(files) + 1 /\ k \in DOMAIN files
        BY <3>4, <3>5, <4>1, <4>5
      <4> QED
        BY <4>2, <4>3, <4>4, <4>5
    <3> QED
      BY <1>4, <3>5, <3>6, <3>7, <3>9
  <2>2. CASE ~In!listed(name)
    <3>1. files' = files
      BY <1>1, <2>2
    <3>2. \A d \in DOMAIN DateOf : In!in_range(DateOf[d]) => Named(d) # name
      BY <1>3, <1>5, <2>2, ListedIsNamed
    <3>3. DatesRead' = DatesRead
      BY <1>1, <1>2, <3>2, NamedUnchanged DEF DatesRead
    <3> QED
      BY <1>4, <3>1, <3>3 DEF FileDates
  <2> QED
    BY <2>1, <2>2
<1> QED
  BY <1>1, <1>2, <1>4, <1>6 DEF FilesInv

(* With no entry left, the dates read are the dates asked for, and sorting *)
(* puts them in order.                                                     *)
LEMMA StepAllRead ==
  ASSUME Surroundings, Phases, ConfigInv, FilesInv, In!AllRead, UNCHANGED config
  PROVE  FilesInv' /\ (reading' = "days" => profiled' = << >>)
<1>1. /\ reading = "listing" /\ unread = {} /\ In!sorted_by_date(files, files')
      /\ reading' \in {"days", "exit_1"} /\ UNCHANGED <<directory, profiled>>
  BY DEF In!AllRead, In!environment
<1>2. /\ FileDates = DatesRead /\ profiled = << >> /\ files \in Seq(ListedFile)
      /\ \A j, k \in DOMAIN files : j # k => files[j].date # files[k].date
  BY <1>1 DEF FilesInv
<1>3. DatesRead = In!asked_for
  BY <1>1 DEF DatesRead, In!asked_for, Named
<1>4. In!asked_for' = In!asked_for
  BY <1>1 DEF In!asked_for, In!prefix, In!suffix, In!in_range, input_section
<1>5. PICK s, t : s = files /\ t = files'
  OBVIOUS
<1>6. /\ t \in Seq(ListedFile)
      /\ \A k \in DOMAIN t : \E j \in DOMAIN s : t[k] = s[j]
      /\ \A j \in DOMAIN s : \E k \in DOMAIN t : t[k] = s[j]
  <2>1. s \in Seq(ListedFile) /\ In!sorted_by_date(s, t)
    BY <1>1, <1>2, <1>5
  <2>2. t \in Seq(ListedFile)
    BY <2>1, SortedElements
  <2>3. /\ \A k \in DOMAIN t : \E j \in DOMAIN s : t[k] = s[j]
        /\ \A j \in DOMAIN s : \E k \in DOMAIN t : t[k] = s[j]
    BY <2>1, SortedElements
  <2> QED
    BY <2>2, <2>3
<1>7. \A j, k \in DOMAIN t : j < k => t[j].date < t[k].date
  <2>1. \A k \in DOMAIN s : k \in Nat /\ s[k].date \in Nat
    <3> TAKE k \in DOMAIN s
    <3>1. k \in Nat /\ s[k] \in ListedFile
      BY <1>2, <1>5
    <3> QED
      BY <3>1 DEF ListedFile
  <2>2. \A j, k \in DOMAIN s : j # k => s[j].date # s[k].date
    BY <1>2, <1>5
  <2> QED
    BY <1>1, <1>5, <2>1, <2>2, SortedAscends
<1>8. FileDates' = FileDates
  <2>1. FileDates' = {t[k].date : k \in DOMAIN t}
    BY <1>5 DEF FileDates
  <2>2. FileDates = {s[k].date : k \in DOMAIN s}
    BY <1>5 DEF FileDates
  <2> QED
    BY <1>6, <2>1, <2>2
<1>9. \A j, k \in DOMAIN t : j # k => t[j].date # t[k].date
  <2> TAKE j, k \in DOMAIN t
  <2>1. j \in Nat /\ k \in Nat /\ t[j] \in ListedFile /\ t[k] \in ListedFile
    BY <1>6
  <2>2. j # k => j < k \/ k < j
    BY <2>1
  <2> QED
    BY <1>7, <2>1, <2>2 DEF ListedFile
<1> QED
  BY <1>1, <1>2, <1>3, <1>4, <1>5, <1>6, <1>7, <1>8, <1>9 DEF FilesInv

(* No file was listed: as at the beginning of a run.                       *)
LEMMA NothingListed ==
  ASSUME files' = << >>, profiled' = << >>, reading' \in {"start", "prices", "discover", "exit_1"}
  PROVE  FilesInv'
BY DEF FilesInv

(* After an error nothing is claimed of the list.                          *)
LEMMA ListingStops ==
  ASSUME FilesInv, UNCHANGED files, reading' \in {"exit_1", "panicked"}
  PROVE  FilesInv'
BY DEF FilesInv

(* The list stays as it is while the days are profiled.                    *)
LEMMA ListingDone ==
  ASSUME FilesInv, UNCHANGED <<config, directory, files>>,
         reading = "days", reading' \in {"days", "ok"}
  PROVE  FilesInv'
<1>1. In!asked_for' = In!asked_for
  BY DEF In!asked_for, In!prefix, In!suffix, In!in_range, input_section
<1> QED
  BY <1>1 DEF FilesInv, FileDates

(* No file is listed at first.                                             *)
LEMMA InitFiles == Init => FilesInv
<1>1. Init => files = << >> /\ profiled = << >> /\ reading = "start"
  BY Zenon DEF Init
<1> QED
  BY <1>1 DEF FilesInv

(* One case for each action of main().                                     *)
LEMMA StepFiles ==
  Surroundings /\ Phases /\ ConfigInv /\ FilesInv /\ [Next]_vars => FilesInv'
<1> SUFFICES ASSUME Surroundings, Phases, ConfigInv, FilesInv, [Next]_vars PROVE FilesInv'
  OBVIOUS
<1>1. CASE StartCommand
  <2>1. files' = << >> /\ profiled' = << >> /\ reading' = "start"
    BY <1>1, Zenon DEF StartCommand, Fresh
  <2> QED
    BY <2>1, NothingListed
<1>2. CASE Configure
  <2>1. loading = "start" /\ UNCHANGED <<reading, files, profiled>>
    BY <1>2 DEF Configure, Cfg!Usage, Cfg!LoadFails, Cfg!Load, inputs
  <2>2. reading = "start"
    BY <2>1 DEF Phases
  <2>3. files = << >> /\ profiled = << >>
    BY <2>2 DEF FilesInv
  <2> QED
    BY <2>1, <2>2, <2>3, NothingListed
<1>3. CASE LoadPrices
  <2>1. /\ reading \in {"start", "prices"} /\ reading' \in {"prices", "discover", "exit_1"}
        /\ UNCHANGED <<files, profiled>>
    BY <1>3 DEF LoadPrices, In!LoadPrices, In!UsePriceFile, In!UseFallback, In!RefuseFallback,
                In!DecodePrice, In!PriceFileFails, In!PricesLoaded, In!Exit
  <2>2. files = << >> /\ profiled = << >>
    BY <2>1 DEF FilesInv
  <2> QED
    BY <2>1, <2>2, NothingListed
<1>4. CASE ProfileDays
  <2>1. UNCHANGED config /\ In!Run
    BY <1>4 DEF ProfileDays, configuring
  <2>2. CASE In!DiscoverFails
    <3>1. files = << >> /\ profiled = << >>
      BY <2>2 DEF In!DiscoverFails, FilesInv
    <3> QED
      BY <2>2, <3>1, NothingListed DEF In!DiscoverFails, In!Exit
  <2>3. CASE In!ReadDirectory
    BY <2>1, <2>3, StepReadDirectory
  <2>4. CASE In!ReadEntry
    BY <2>1, <2>4, StepReadEntry
  <2>5. CASE In!ReadEntryPanics \/ In!ReadEntryFails \/ In!RejectDay
    BY <2>5, ListingStops DEF In!ReadEntryPanics, In!ReadEntryFails, In!RejectDay, In!Exit
  <2>6. CASE In!AllRead
    BY <2>1, <2>6, StepAllRead
  <2>7. CASE In!ProfileDay \/ In!Finish
    BY <2>1, <2>7, ListingDone DEF In!ProfileDay, In!Finish, In!Exit, In!environment
  <2> QED
    BY <2>1, <2>2, <2>3, <2>4, <2>5, <2>6, <2>7 DEF In!Run
<1>5. CASE RegisterTrackers \/ Exit \/ StartWriting \/ Write \/ Killed \/ UNCHANGED vars
  <2>1. UNCHANGED <<config, inputs>>
    BY <1>5 DEF RegisterTrackers, Cfg!RegisterTracker, Exit, StartWriting, Write, Killed, vars,
                configuring
  <2> QED
    BY <2>1, FilesUnchanged
<1> QED
  BY <1>1, <1>2, <1>3, <1>4, <1>5 DEF Next

-----------------------------------------------------------------------------
(* A name that panics                                                      *)

(* A run that has not begun has not panicked.                              *)
LEMMA InitPanics == Init => OnlyOverlapPanics
BY Zenon DEF Init, OnlyOverlapPanics, In!OnlyOverlapPanics

(* Only a name whose affixes overlap is unsliceable, and TooShortOverlaps  *)
(* says of which patterns there are such names.                            *)
LEMMA StepPanics ==
  Surroundings /\ Phases /\ ConfigInv /\ FilesInv /\ OnlyOverlapPanics /\ [Next]_vars =>
    OnlyOverlapPanics'
<1> SUFFICES ASSUME Surroundings, Phases, ConfigInv, FilesInv, OnlyOverlapPanics, [Next]_vars,
                    reading' = "panicked"
             PROVE  OnlyOverlapPanics'
  BY DEF OnlyOverlapPanics, In!OnlyOverlapPanics
<1>1. CASE UNCHANGED <<config, reading>>
  BY <1>1 DEF OnlyOverlapPanics, In!OnlyOverlapPanics, In!prefix, In!suffix, input_section
<1>2. CASE ProfileDays
  <2>1. In!ReadEntryPanics
    BY <1>2 DEF ProfileDays, In!Run, In!DiscoverFails, In!ReadDirectory, In!ReadEntry,
                In!ReadEntryFails, In!AllRead, In!ProfileDay, In!RejectDay, In!Finish, In!Exit
  <2>2. PICK name \in unread : In!named_like(name) /\ In!unsliceable(name)
    BY <2>1 DEF In!ReadEntryPanics
  <2>3. reading = "listing" /\ loading = "configured"
    BY <2>1 DEF In!ReadEntryPanics, Phases
  <2>4. name \in Seq(STRING)
    BY <2>3, SurroundingsTyped DEF FilesInv
  <2>5. PICK p \in Seq(STRING), s \in Seq(STRING) : p = In!prefix /\ s = In!suffix
    BY <2>3, AffixesTyped
  <2>6. In!IsPrefix(p, name) /\ In!IsSuffix(s, name) /\ Len(p) + Len(s) > Len(name)
    BY <2>2, <2>5 DEF In!named_like, In!unsliceable
  <2>7. \E n \in 1..Len(p) :
          n <= Len(s) /\ SubSeq(p, Len(p) - n + 1, Len(p)) = SubSeq(s, 1, n)
    BY <2>4, <2>6, TooShortOverlaps
  <2>8. In!prefix' = p /\ In!suffix' = s
    BY <1>2, <2>5 DEF ProfileDays, configuring, In!prefix, In!suffix, input_section
  <2> QED
    BY <2>7, <2>8 DEF OnlyOverlapPanics, In!OnlyOverlapPanics
<1>3. CASE StartCommand \/ Configure \/ LoadPrices
  <2>1. ASSUME StartCommand PROVE FALSE
    <3>1. reading' = "start"
      BY <2>1, Zenon DEF StartCommand, Fresh
    <3> QED
      BY <3>1
  <2>2. ASSUME Configure PROVE FALSE
    <3>1. loading = "start" /\ reading' = reading
      BY <2>2 DEF Configure, Cfg!Usage, Cfg!LoadFails, Cfg!Load, inputs
    <3> QED
      BY <3>1 DEF Phases
  <2>3. ASSUME LoadPrices PROVE FALSE
    BY <2>3 DEF LoadPrices, In!LoadPrices, In!UsePriceFile, In!UseFallback, In!RefuseFallback,
                In!DecodePrice, In!PriceFileFails, In!PricesLoaded, In!Exit
  <2> QED
    BY <1>3, <2>1, <2>2, <2>3
<1>4. CASE RegisterTrackers \/ Exit \/ StartWriting \/ Write \/ Killed \/ UNCHANGED vars
  <2>1. UNCHANGED <<config, reading>>
    BY <1>4 DEF RegisterTrackers, Cfg!RegisterTracker, Exit, StartWriting, Write, Killed, vars,
                configuring, inputs
  <2> QED
    BY <1>1, <2>1
<1> QED
  BY <1>2, <1>3, <1>4 DEF Next

-----------------------------------------------------------------------------
(* The prices                                                              *)

(* The prices are the usable records of the file, as far as it is decoded. *)
Decoded ==
  /\ \A k \in 1..decoded : price_file[k] # None
  /\ \A k \in 1..decoded : In!usable(price_file[k]) =>
       \E j \in DOMAIN underlying_prices : underlying_prices[j] = price_file[k]
  /\ \A j \in DOMAIN underlying_prices :
       \E k \in 1..decoded : underlying_prices[j] = price_file[k]

(* The prices loaded so far are the usable ones of the records decoded so  *)
(* far; when they are all loaded they come of one source.                  *)
PricesInv ==
  /\ underlying_prices \in Seq(In!Price)
  /\ \A k \in DOMAIN underlying_prices : In!usable(underlying_prices[k])
  /\ decoded \in 0..Len(price_file)
  /\ reading = "start" => underlying_prices = << >> /\ decoded = 0
  /\ reading = "prices" => input_section.underlying_prices_file # None /\ Decoded
  /\ reading \in {"discover", "listing", "days", "ok"} => In!OneSourceOfPrices

(* A step that does not load prices.                                       *)
LEMMA PricesUnchanged ==
  ASSUME UNCHANGED <<config, price_file, decoded, underlying_prices>>, PricesInv,
         \/ reading' = reading
         \/ /\ reading \in {"discover", "listing", "days", "ok"}
            /\ reading' \in {"discover", "listing", "days", "ok"}
         \/ reading' \in {"exit_1", "panicked"}
  PROVE  PricesInv'
<1>1. input_section' = input_section
  BY DEF input_section
<1>2. In!OneSourceOfPrices' <=> In!OneSourceOfPrices
  BY <1>1, Zenon DEF In!OneSourceOfPrices
<1>3. Decoded' <=> Decoded
  BY Zenon DEF Decoded
<1> QED
  BY <1>1, <1>2, <1>3 DEF PricesInv

(* No price is loaded at first.                                            *)
LEMMA InitPrices == Init => Surroundings /\ PricesInv
<1>1. Init => Surroundings
  BY InitPhases
<1>2. Init => underlying_prices = << >> /\ decoded = 0 /\ reading = "start"
  BY Zenon DEF Init
<1>3. Surroundings => Len(price_file) \in Nat
  BY SurroundingsTyped
<1> QED
  BY <1>1, <1>2, <1>3 DEF PricesInv

(* A record adds its price, if it is usable.                               *)
LEMMA StepDecodePrice ==
  ASSUME Surroundings, PricesInv, In!DecodePrice, UNCHANGED config
  PROVE  PricesInv'
<1> DEFINE price == price_file[decoded + 1]
<1>1. /\ reading = "prices" /\ decoded < Len(price_file) /\ price # None
      /\ decoded' = decoded + 1 /\ UNCHANGED <<reading, price_file>>
      /\ underlying_prices' = IF In!usable(price) THEN Append(underlying_prices, price)
                              ELSE underlying_prices
  BY DEF In!DecodePrice, In!environment
<1>2. /\ underlying_prices \in Seq(In!Price) /\ decoded \in 0..Len(price_file)
      /\ \A k \in DOMAIN underlying_prices : In!usable(underlying_prices[k])
      /\ input_section.underlying_prices_file # None /\ Decoded
  BY <1>1 DEF PricesInv
<1>3. Len(price_file) \in Nat /\ price \in In!Price
  <2>1. price_file \in Seq(In!Price \cup {None}) /\ decoded + 1 \in 1..Len(price_file)
    BY <1>1, <1>2, SurroundingsTyped
  <2> QED
    BY <1>1, <2>1
<1> HIDE DEF price
<1>4. /\ underlying_prices' \in Seq(In!Price)
      /\ \A k \in DOMAIN underlying_prices' : In!usable(underlying_prices'[k])
      /\ \A j \in DOMAIN underlying_prices :
           j \in DOMAIN underlying_prices' /\ underlying_prices'[j] = underlying_prices[j]
      /\ \A j \in DOMAIN underlying_prices' :
           \/ j \in DOMAIN underlying_prices /\ underlying_prices'[j] = underlying_prices[j]
           \/ underlying_prices'[j] = price
      /\ In!usable(price) => \E j \in DOMAIN underlying_prices' : underlying_prices'[j] = price
  <2>1. CASE In!usable(price)
    <3>1. /\ underlying_prices' \in Seq(In!Price)
          /\ DOMAIN underlying_prices' = 1..Len(underlying_prices) + 1
          /\ DOMAIN underlying_prices = 1..Len(underlying_prices)
          /\ \A j \in 1..Len(underlying_prices) : underlying_prices'[j] = underlying_prices[j]
          /\ underlying_prices'[Len(underlying_prices) + 1] = price
          /\ Len(underlying_prices) \in Nat
      BY <1>1, <1>2, <1>3, <2>1
    <3>2. \A j \in DOMAIN underlying_prices' :
            j \in DOMAIN underlying_prices \/ j = Len(underlying_prices) + 1
      BY <3>1
    <3>3. Len(underlying_prices) + 1 \in DOMAIN underlying_prices'
      BY <3>1
    <3>4. \A j \in DOMAIN underlying_prices : j \in DOMAIN underlying_prices'
      BY <3>1
    <3> QED
      BY <1>2, <2>1, <3>1, <3>2, <3>3, <3>4
  <2>2. CASE ~In!usable(price)
    BY <1>1, <1>2, <2>2
  <2> QED
    BY <2>1, <2>2
<1>5. /\ \A k \in 1..decoded' : k \in 1..decoded \/ (k = decoded + 1 /\ price_file[k] = price)
      /\ \A k \in 1..decoded : k \in 1..decoded'
      /\ decoded + 1 \in 1..decoded' /\ price_file[decoded + 1] = price
      /\ decoded' \in 0..Len(price_file)
  BY <1>1, <1>2, <1>3 DEF price
<1>6. Decoded'
  <2>1. \A k \in 1..decoded' : price_file'[k] # None
    BY <1>1, <1>2, <1>5 DEF Decoded
  <2>2. \A k \in 1..decoded' : In!usable(price_file'[k]) =>
          \E j \in DOMAIN underlying_prices' : underlying_prices'[j] = price_file'[k]
    <3> SUFFICES ASSUME NEW k \in 1..decoded', In!usable(price_file[k])
                 PROVE  \E j \in DOMAIN underlying_prices' : underlying_prices'[j] = price_file[k]
      BY <1>1
    <3>1. CASE k \in 1..decoded
      <4>1. PICK j \in DOMAIN underlying_prices : underlying_prices[j] = price_file[k]
        BY <1>2, <3>1 DEF Decoded
      <4> QED
        BY <1>4, <4>1
    <3>2. CASE k = decoded + 1 /\ price_file[k] = price
      BY <1>4, <3>2
    <3> QED
      BY <1>5, <3>1, <3>2
  <2>3. \A j \in DOMAIN underlying_prices' :
          \E k \in 1..decoded' : underlying_prices'[j] = price_file'[k]
    BY <1>1, <1>2, <1>4, <1>5 DEF Decoded
  <2> QED
    BY <2>1, <2>2, <2>3 DEF Decoded
<1>7. input_section' = input_section
  BY DEF input_section
<1> QED
  BY <1>1, <1>2, <1>4, <1>5, <1>6, <1>7 DEF PricesInv

(* When the file ends, all of it has been decoded.                         *)
LEMMA StepPricesLoaded ==
  ASSUME Surroundings, PricesInv, In!PricesLoaded, UNCHANGED config
  PROVE  PricesInv'
<1>1. /\ reading = "prices" /\ decoded = Len(price_file) /\ reading' = "discover"
      /\ In!sorted_by_date(underlying_prices, underlying_prices')
      /\ UNCHANGED <<price_file, decoded>>
  BY DEF In!PricesLoaded, In!environment
<1>2. /\ underlying_prices \in Seq(In!Price) /\ decoded \in 0..Len(price_file)
      /\ \A k \in DOMAIN underlying_prices : In!usable(underlying_prices[k])
      /\ input_section.underlying_prices_file # None /\ Decoded
  BY <1>1 DEF PricesInv
<1>3. PICK s, t : s = underlying_prices /\ t = underlying_prices'
  OBVIOUS
<1>4. t \in Seq(In!Price)
  BY <1>1, <1>2, <1>3, SortedElements
<1>5. /\ \A k \in DOMAIN t : \E j \in DOMAIN s : t[k] = s[j]
      /\ \A j \in DOMAIN s : \E k \in DOMAIN t : t[k] = s[j]
  BY <1>1, <1>2, <1>3, SortedElements
<1>6. \A k \in DOMAIN t : In!usable(t[k])
  BY <1>2, <1>3, <1>5
<1>7. input_section' = input_section
  BY DEF input_section
<1>8. DOMAIN price_file = 1..decoded
  BY <1>1, SurroundingsTyped
<1>9. None \notin In!ToSet(price_file)
  BY <1>2, <1>8 DEF Decoded, In!ToSet
<1>10. In!ToSet(t) = {p \in In!ToSet(price_file) : In!usable(p)}
  <2>1. ASSUME NEW k \in DOMAIN t PROVE t[k] \in In!ToSet(price_file)
    <3>1. PICK j \in DOMAIN s : t[k] = s[j]
      BY <1>5
    <3>2. PICK i \in DOMAIN price_file : s[j] = price_file[i]
      BY <1>2, <1>3, <1>8 DEF Decoded
    <3> QED
      BY <3>1, <3>2 DEF In!ToSet
  <2>2. ASSUME NEW k \in DOMAIN price_file, In!usable(price_file[k])
        PROVE  \E j \in DOMAIN t : t[j] = price_file[k]
    BY <1>2, <1>3, <1>5, <1>8, <2>2 DEF Decoded
  <2> QED
    BY <1>6, <2>1, <2>2 DEF In!ToSet
<1>11. In!OneSourceOfPrices'
  BY <1>1, <1>2, <1>3, <1>7, <1>9, <1>10 DEF In!OneSourceOfPrices
<1> QED
  BY <1>1, <1>2, <1>3, <1>4, <1>6, <1>11 DEF PricesInv

(* A price file has a length.                                              *)
LEMMA PriceFileTyped == Surroundings => Len(price_file) \in Nat
BY SurroundingsTyped

(* No price was read: as at the beginning of a run.                        *)
LEMMA NoPrices ==
  ASSUME Surroundings', reading' = "start", underlying_prices' = << >>, decoded' = 0
  PROVE  PricesInv'
<1>1. (Len(price_file) \in Nat)'
  BY PriceFileTyped, PTL
<1> QED
  BY <1>1 DEF PricesInv

(* One case for each action of main().                                     *)
LEMMA StepPrices ==
  Surroundings /\ Phases /\ PricesInv /\ [Next]_vars /\ Surroundings' => PricesInv'
<1> SUFFICES ASSUME Surroundings, Phases, PricesInv, [Next]_vars, Surroundings' PROVE PricesInv'
  OBVIOUS
<1>1. CASE StartCommand
  <2>1. reading' = "start" /\ underlying_prices' = << >> /\ decoded' = 0
    BY <1>1, Zenon DEF StartCommand, Fresh
  <2> QED
    BY <2>1, NoPrices
<1>2. CASE Configure
  <2>1. loading = "start" /\ UNCHANGED <<reading, underlying_prices, decoded>>
    BY <1>2 DEF Configure, Cfg!Usage, Cfg!LoadFails, Cfg!Load, inputs
  <2>2. reading = "start"
    BY <2>1 DEF Phases
  <2>3. underlying_prices = << >> /\ decoded = 0
    BY <2>2 DEF PricesInv
  <2> QED
    BY <2>1, <2>2, <2>3, NoPrices
<1>3. CASE LoadPrices
  <2>1. UNCHANGED config /\ In!LoadPrices
    BY <1>3 DEF LoadPrices, configuring
  <2>2. input_section' = input_section
    BY <2>1 DEF input_section
  <2>3. CASE In!UsePriceFile
    <3>1. /\ reading = "start" /\ reading' = "prices"
          /\ UNCHANGED <<price_file, decoded, underlying_prices>>
          /\ input_section.underlying_prices_file # None
      BY <2>3 DEF In!UsePriceFile, In!Exit, In!environment
    <3>2. underlying_prices = << >> /\ decoded = 0 /\ Len(price_file) \in Nat
      BY <3>1, SurroundingsTyped DEF PricesInv
    <3> QED
      BY <2>2, <3>1, <3>2 DEF PricesInv, Decoded
  <2>4. CASE In!UseFallback
    <3>1. /\ reading = "start" /\ reading' = "discover" /\ UNCHANGED <<price_file, decoded>>
          /\ underlying_prices' = Fallback
          /\ input_section.underlying_prices_file = None /\ input_section.symbol = "NVDA"
      BY <2>4 DEF In!UseFallback, In!environment
    <3>2. In!OneSourceOfPrices'
      BY <2>2, <3>1 DEF In!OneSourceOfPrices
    <3>3. decoded \in 0..Len(price_file)
      BY DEF PricesInv
    <3>4. Fallback \in Seq(In!Price) /\ \A k \in DOMAIN Fallback : In!usable(Fallback[k])
      BY CommandAssumption
    <3> QED
      BY <3>1, <3>2, <3>3, <3>4 DEF PricesInv
  <2>5. CASE In!RefuseFallback \/ In!PriceFileFails
    BY <2>1, <2>5, PricesUnchanged DEF In!RefuseFallback, In!PriceFileFails, In!Exit, In!environment
  <2>6. CASE In!DecodePrice
    BY <2>1, <2>6, StepDecodePrice
  <2>7. CASE In!PricesLoaded
    BY <2>1, <2>7, StepPricesLoaded
  <2> QED
    BY <2>1, <2>3, <2>4, <2>5, <2>6, <2>7 DEF In!LoadPrices
<1>4. CASE ProfileDays
  <2>1. UNCHANGED <<config, price_file, decoded, underlying_prices>>
    BY <1>4 DEF ProfileDays, configuring, In!Run, In!DiscoverFails, In!ReadDirectory,
                In!ReadEntry, In!ReadEntryPanics, In!ReadEntryFails, In!AllRead, In!ProfileDay,
                In!RejectDay, In!Finish, In!Exit, In!environment
  <2>2. \/ reading' = reading
        \/ /\ reading \in {"discover", "listing", "days", "ok"}
           /\ reading' \in {"discover", "listing", "days", "ok"}
        \/ reading' \in {"exit_1", "panicked"}
    BY <1>4 DEF ProfileDays, In!Run, In!DiscoverFails, In!ReadDirectory, In!ReadEntry,
                In!ReadEntryPanics, In!ReadEntryFails, In!AllRead, In!ProfileDay,
                In!RejectDay, In!Finish, In!Exit
  <2> QED
    BY <2>1, <2>2, PricesUnchanged
<1>5. CASE RegisterTrackers \/ Exit \/ StartWriting \/ Write \/ Killed \/ UNCHANGED vars
  <2>1. UNCHANGED <<config, price_file, decoded, underlying_prices, reading>>
    BY <1>5 DEF RegisterTrackers, Cfg!RegisterTracker, Exit, StartWriting, Write, Killed, vars,
                configuring, inputs
  <2> QED
    BY <2>1, PricesUnchanged
<1> QED
  BY <1>1, <1>2, <1>3, <1>4, <1>5 DEF Next

-----------------------------------------------------------------------------
(* The days                                                                *)

(* The first of the listed days are profiled, each on a price of its date. *)
DaysInv ==
  reading \in {"days", "ok"} =>
    /\ profiled \in Seq(In!Price) /\ Len(profiled) <= Len(files)
    /\ reading = "ok" => Len(profiled) = Len(files)
    /\ \A k \in DOMAIN profiled :
         /\ profiled[k].date = files[k].date
         /\ profiled[k] \in {underlying_prices[j] : j \in DOMAIN underlying_prices}

(* No day is profiled at first.                                            *)
LEMMA InitDays == Init => DaysInv
BY Zenon DEF Init, DaysInv

(* The next file of the list is profiled on a price of its date.           *)
LEMMA StepProfileDay ==
  ASSUME FilesInv, PricesInv, DaysInv, In!ProfileDay
  PROVE  DaysInv'
<1>1. /\ reading = "days" /\ Len(profiled) < Len(files) /\ In!priced(In!day)
      /\ profiled' = Append(profiled, In!price_of(In!day))
      /\ UNCHANGED <<reading, underlying_prices, files>>
  BY DEF In!ProfileDay
<1>2. PICK price : price = In!price_of(In!day)
  OBVIOUS
<1>3. /\ price \in {underlying_prices[k] : k \in DOMAIN underlying_prices}
      /\ price.date = In!day
  <2>1. underlying_prices \in Seq(In!Price)
    BY DEF PricesInv
  <2> QED
    BY <1>1, <1>2, <2>1, PriceFound
<1>4. price \in In!Price
  BY <1>3 DEF PricesInv
<1>5. /\ profiled \in Seq(In!Price) /\ Len(files) \in Nat
      /\ \A k \in DOMAIN profiled :
           /\ profiled[k].date = files[k].date
           /\ profiled[k] \in {underlying_prices[j] : j \in DOMAIN underlying_prices}
  BY <1>1 DEF DaysInv, FilesInv
<1>6. /\ profiled' \in Seq(In!Price) /\ Len(profiled') = Len(profiled) + 1
      /\ \A k \in DOMAIN profiled' :
           \/ k \in DOMAIN profiled /\ profiled'[k] = profiled[k]
           \/ k = Len(profiled) + 1 /\ profiled'[k] = price
      /\ Len(profiled) \in Nat
  BY <1>1, <1>2, <1>4, <1>5
<1>7. In!day = files[Len(profiled) + 1].date
  BY DEF In!day
<1>8. \A k \in DOMAIN profiled' :
        /\ profiled'[k].date = files[k].date
        /\ profiled'[k] \in {underlying_prices[j] : j \in DOMAIN underlying_prices}
  BY <1>3, <1>5, <1>6, <1>7
<1> QED
  BY <1>1, <1>5, <1>6, <1>8 DEF DaysInv

(* One case for each action of main().                                     *)
LEMMA StepDays ==
  Surroundings /\ Phases /\ ConfigInv /\ FilesInv /\ PricesInv /\ DaysInv /\ [Next]_vars
    => DaysInv'
<1> SUFFICES ASSUME Surroundings, Phases, ConfigInv, FilesInv, PricesInv, DaysInv, [Next]_vars,
                    reading' \in {"days", "ok"}
             PROVE  DaysInv'
  BY DEF DaysInv
<1>1. CASE StartCommand
  <2>1. reading' = "start"
    BY <1>1, Zenon DEF StartCommand, Fresh
  <2> QED
    BY <2>1
<1>2. CASE Configure
  <2>1. loading = "start" /\ reading' = reading
    BY <1>2 DEF Configure, Cfg!Usage, Cfg!LoadFails, Cfg!Load, inputs
  <2> QED
    BY <2>1 DEF Phases
<1>3. CASE LoadPrices
  BY <1>3 DEF LoadPrices, In!LoadPrices, In!UsePriceFile, In!UseFallback, In!RefuseFallback,
              In!DecodePrice, In!PriceFileFails, In!PricesLoaded, In!Exit
<1>4. CASE ProfileDays
  <2>1. CASE In!ProfileDay
    BY <2>1, StepProfileDay
  <2>2. CASE In!AllRead
    <3>1. profiled' = << >> /\ files' \in Seq(ListedFile) /\ reading' = "days"
      <4>1. UNCHANGED config
        BY <1>4 DEF ProfileDays, configuring
      <4>2. FilesInv' /\ (reading' = "days" => profiled' = << >>)
        BY <2>2, <4>1, StepAllRead
      <4>3. reading' = "days"
        BY <2>2 DEF In!AllRead
      <4> QED
        BY <4>2, <4>3 DEF FilesInv
    <3>2. Len(files') \in Nat
      BY <3>1
    <3> QED
      BY <3>1, <3>2 DEF DaysInv
  <2>3. CASE In!Finish
    BY <2>3 DEF In!Finish, In!Exit, DaysInv
  <2>4. In!ProfileDay \/ In!AllRead \/ In!Finish
    BY <1>4 DEF ProfileDays, In!Run, In!DiscoverFails, In!ReadDirectory, In!ReadEntry,
                In!ReadEntryPanics, In!ReadEntryFails, In!RejectDay, In!Exit
  <2> QED
    BY <2>1, <2>2, <2>3, <2>4
<1>5. CASE RegisterTrackers \/ Exit \/ StartWriting \/ Write \/ Killed \/ UNCHANGED vars
  BY <1>5 DEF RegisterTrackers, Cfg!RegisterTracker, Exit, StartWriting, Write, Killed, vars,
              configuring, inputs, DaysInv
<1> QED
  BY <1>1, <1>2, <1>3, <1>4, <1>5 DEF Next

(* At Ok every file of the list is profiled.                               *)
LEMMA OkProfiles == FilesInv /\ PricesInv /\ DaysInv => OkProfilesWhatWasAsked
<1> SUFFICES ASSUME FilesInv, PricesInv, DaysInv, reading = "ok" PROVE OkProfilesWhatWasAsked
  BY DEF OkProfilesWhatWasAsked, In!OkProfilesWhatWasAsked
<1>1. /\ profiled \in Seq(In!Price) /\ Len(profiled) = Len(files)
      /\ \A k \in DOMAIN profiled :
           /\ profiled[k].date = files[k].date
           /\ profiled[k] \in {underlying_prices[j] : j \in DOMAIN underlying_prices}
  BY DEF DaysInv
<1>2. /\ files \in Seq(ListedFile) /\ FileDates = In!asked_for
      /\ \A j, k \in DOMAIN files : j < k => files[j].date < files[k].date
  BY DEF FilesInv
<1>3. DOMAIN profiled = DOMAIN files
  BY <1>1, <1>2
<1>4. {profiled[k].date : k \in DOMAIN profiled} = In!asked_for
  BY <1>1, <1>2, <1>3 DEF FileDates
<1>5. \A j, k \in DOMAIN profiled : j < k => profiled[j].date < profiled[k].date
  BY <1>1, <1>2, <1>3
<1>6. \A k \in DOMAIN profiled :
        profiled[k] \in In!ToSet(underlying_prices)
          /\ profiled[k].open > 0 /\ profiled[k].close > 0
  BY <1>1 DEF PricesInv, In!usable, In!ToSet
<1>7. In!OneSourceOfPrices
  BY DEF PricesInv
<1> QED
  BY <1>4, <1>5, <1>6, <1>7 DEF OkProfilesWhatWasAsked, In!OkProfilesWhatWasAsked

-----------------------------------------------------------------------------
(* The O/S report                                                          *)

(* The days before a date.                                                 *)
Before(S, date) == {e \in S : e.date < date}

(* Of days in ascending order the i-th has i - 1 days before it.           *)
LEMMA AscendingRanks ==
  ASSUME NEW n \in Nat, NEW s, NEW S, NEW i \in 1..n, S = {s[k] : k \in 1..n},
         \A k \in 1..n : s[k].date \in Nat,
         \A j, k \in 1..n : j < k => s[j].date < s[k].date
  PROVE  Cardinality(Before(S, s[i].date)) = i - 1
<1> DEFINE B == Before(S, s[i].date)
           f == [j \in 1..(i - 1) |-> s[j]]
<1>1. \A j \in 1..n : s[j].date < s[i].date <=> j < i
  <2> SUFFICES ASSUME NEW j \in 1..n PROVE s[j].date < s[i].date <=> j < i
    OBVIOUS
  <2>1. j < i \/ j = i \/ i < j
    OBVIOUS
  <2> QED
    BY <2>1
<1>2. \A j \in 1..(i - 1) : j \in 1..n /\ j < i
  OBVIOUS
<1>3. \A j \in 1..n : j < i => j \in 1..(i - 1)
  OBVIOUS
<1>4. f \in [1..(i - 1) -> B]
  BY <1>1, <1>2 DEF Before
<1>5. \A a, b \in 1..(i - 1) : f[a] = f[b] => a = b
  <2> SUFFICES ASSUME NEW a \in 1..(i - 1), NEW b \in 1..(i - 1), s[a] = s[b] PROVE a = b
    OBVIOUS
  <2>1. a \in 1..n /\ b \in 1..n /\ s[a].date \in Nat /\ s[b].date = s[a].date
    BY <1>2
  <2>2. a < b \/ a = b \/ b < a
    BY <2>1
  <2> QED
    BY <2>1, <2>2
<1>6. \A e \in B : \E a \in 1..(i - 1) : f[a] = e
  BY <1>1, <1>3 DEF Before
<1>7. f \in Bijection(1..(i - 1), B)
  <2> HIDE DEF B, f
  <2> QED
    BY <1>4, <1>5, <1>6 DEF Bijection, Injection, Surjection, IsInjective
<1>8. ExistsBijection(1..(i - 1), B)
  BY <1>7 DEF ExistsBijection
<1>9. IsFiniteSet(1..(i - 1)) /\ Cardinality(1..(i - 1)) = i - 1
  BY FS_Interval
<1> QED
  BY <1>8, <1>9, FS_Bijection

(* The input of the report.                                                *)
Opvol == [k \in DOMAIN profiled |-> [date |-> profiled[k].date, opvol |-> 1]]

(* compute_os_series() finds the days of a run that succeeds in order.     *)
LEMMA ReportDays ==
  ASSUME OkProfilesWhatWasAsked, DaysInv, reading = "ok"
  PROVE  /\ DOMAIN profiled = 1..Len(profiled) /\ Len(profiled) \in Nat
         /\ In!Os!days = Opvol /\ In!Os!n_days = Len(profiled)
<1>1. /\ profiled \in Seq(In!Price) /\ Len(profiled) \in Nat
      /\ DOMAIN profiled = 1..Len(profiled)
      /\ \A j, k \in DOMAIN profiled : j < k => profiled[j].date < profiled[k].date
  BY DEF DaysInv, OkProfilesWhatWasAsked, In!OkProfilesWhatWasAsked
<1> DEFINE n == Len(profiled)
           S == {Opvol[k] : k \in 1..n}
<1>2. \A k \in 1..n : profiled[k].date \in Nat
  <2> SUFFICES ASSUME NEW k \in 1..n PROVE profiled[k].date \in Nat
    OBVIOUS
  <2>1. profiled[k] \in In!Price
    BY <1>1, ElementOfSeq
  <2> QED
    BY <2>1 DEF In!Price
<1>3. DOMAIN Opvol = 1..n /\ \A k \in 1..n : Opvol[k].date = profiled[k].date
  BY <1>1 DEF Opvol
<1>4. In!Os!ToSet(Opvol) = S
  BY <1>3 DEF In!Os!ToSet
<1>5. In!Os!days = [k \in DOMAIN Opvol |->
                      CHOOSE d \in In!Os!ToSet(Opvol) :
                        Cardinality({e \in In!Os!ToSet(Opvol) : e.date < d.date}) = k - 1]
  BY Zenon DEF In!Os!days, Opvol, In!Os!Cardinality, Cardinality
<1>6. ASSUME NEW k \in 1..n
      PROVE  Opvol[k] = CHOOSE d \in S : Cardinality({e \in S : e.date < d.date}) = k - 1
  <2> DEFINE P(d) == Cardinality(Before(S, d.date)) = k - 1
  <2>1. ASSUME NEW i \in 1..n PROVE Cardinality(Before(S, Opvol[i].date)) = i - 1
    <3>1. \A j \in 1..n : Opvol[j].date \in Nat
      BY <1>2, <1>3
    <3>2. \A h, j \in 1..n : h < j => Opvol[h].date < Opvol[j].date
      BY <1>1, <1>3
    <3>3. n \in Nat /\ S = {Opvol[j] : j \in 1..n}
      BY <1>1
    <3> HIDE DEF n, S
    <3> QED
      BY <3>1, <3>2, <3>3, AscendingRanks
  <2>2. Opvol[k] \in S /\ P(Opvol[k])
    BY <2>1
  <2>3. ASSUME NEW d \in S, P(d) PROVE d = Opvol[k]
    <3>1. PICK i \in 1..n : d = Opvol[i]
      OBVIOUS
    <3>2. i - 1 = k - 1
      <4>1. Cardinality(Before(S, d.date)) = k - 1
        BY <2>3
      <4> HIDE DEF S
      <4> QED
        BY <2>1, <3>1, <4>1
    <3> QED
      BY <3>1, <3>2
  <2>4. (CHOOSE d \in S : P(d)) = Opvol[k]
    <3> HIDE DEF P, S
    <3> QED
      BY <2>2, <2>3
  <2> QED
    BY <2>4 DEF Before
<1>7. Opvol = [k \in 1..n |-> Opvol[k]]
  BY <1>3 DEF Opvol
<1>8. In!Os!days = Opvol
  <2>1. In!Os!days = [k \in 1..n |-> CHOOSE d \in S : Cardinality({e \in S : e.date < d.date}) = k - 1]
    BY <1>3, <1>4, <1>5
  <2> HIDE DEF S
  <2> QED
    BY <1>6, <1>7, <2>1
<1>9. In!Os!n_days = n
  <2>1. Len(Opvol) = Len(profiled)
    BY <1>1 DEF Opvol
  <2> QED
    BY <1>8, <2>1 DEF In!Os!n_days
<1> QED
  BY <1>1, <1>8, <1>9

(* A set of numbers that is not empty has a least one.                     *)
LEMMA LeastNumber ==
  ASSUME NEW I, I \subseteq Nat, I # {}
  PROVE  \E m \in I : \A i \in I : m <= i
<1> DEFINE R == OpToRel(<, Nat)
<1>1. PICK m \in I : \A i \in I : ~(<<i, m>> \in R)
  BY NatLessThanWellFounded, WFMin, Zenon
<1>2. \A i \in I : i \in Nat /\ m \in Nat /\ (i < m => <<i, m>> \in R)
  BY DEF OpToRel
<1> HIDE DEF R
<1>3. \A i \in I : i \in Nat /\ m \in Nat /\ ~(i < m)
  BY <1>1, <1>2, Zenon
<1> QED
  BY <1>3

(* A set of numbers up to n that is not empty has a greatest one.          *)
LEMMA GreatestNumber ==
  ASSUME NEW n \in Nat, NEW I, I \subseteq 0..n, I # {}
  PROVE  \E m \in I : \A i \in I : i <= m
<1> DEFINE J == {n - i : i \in I}
<1>1. J \subseteq Nat /\ J # {}
  <2>1. \A i \in I : i \in 0..n /\ n - i \in Nat
    OBVIOUS
  <2> QED
    BY <2>1
<1>2. PICK j \in J : \A i \in J : j <= i
  <2> HIDE DEF J
  <2> QED
    BY <1>1, LeastNumber
<1>3. PICK m \in I : j = n - m
  OBVIOUS
<1>4. ASSUME NEW i \in I PROVE i <= m
  <2>1. n - i \in J
    OBVIOUS
  <2>2. j <= n - i
    BY <1>2, <2>1
  <2> QED
    BY <1>3, <2>2
<1> QED
  BY <1>4

(* The prices of the report.                                               *)
Eqvol == [k \in DOMAIN underlying_prices |->
            [date |-> underlying_prices[k].date, volume |-> underlying_prices[k].volume]]

(* The j-th price is the last one of a date.                               *)
LastOf(date, j) ==
  /\ j \in DOMAIN underlying_prices /\ underlying_prices[j].date = date
  /\ \A i \in DOMAIN underlying_prices : i > j => underlying_prices[i].date # date

(* The equity volume of a date is that of the last price of the date.      *)
LEMMA LastPriceCounts ==
  ASSUME PricesInv, NEW date, NEW i \in DOMAIN underlying_prices,
         underlying_prices[i].date = date
  PROVE  /\ date \in DOMAIN In!Os!eqvol_map
         /\ \E j : LastOf(date, j)
         /\ \A j : LastOf(date, j) => In!Os!eqvol_map[date] = underlying_prices[j].volume
<1>1. /\ DOMAIN underlying_prices = 1..Len(underlying_prices)
      /\ Len(underlying_prices) \in Nat
  BY DEF PricesInv
<1> DEFINE n == Len(underlying_prices)
           L(k) == /\ Eqvol[k].date = date
                   /\ \A j \in (k + 1)..n : Eqvol[j].date # date
<1>2. /\ Len(Eqvol) = n
      /\ \A k \in 1..n : Eqvol[k].date = underlying_prices[k].date
                         /\ Eqvol[k].volume = underlying_prices[k].volume
  BY <1>1 DEF Eqvol
<1>3. In!Os!eqvol_map =
        [d \in {Eqvol[k].date : k \in 1..Len(Eqvol)} |->
           Eqvol[CHOOSE k \in 1..Len(Eqvol) :
                   /\ Eqvol[k].date = d
                   /\ \A j \in (k + 1)..Len(Eqvol) : Eqvol[j].date # d].volume]
  BY Zenon DEF In!Os!eqvol_map, Eqvol
<1>4. date \in {Eqvol[k].date : k \in 1..n}
  BY <1>1, <1>2
<1>5. /\ date \in DOMAIN In!Os!eqvol_map
      /\ In!Os!eqvol_map[date] = Eqvol[CHOOSE k \in 1..n : L(k)].volume
  BY <1>2, <1>3, <1>4
<1>6. \A j \in 1..n : L(j) <=> LastOf(date, j)
  BY <1>1, <1>2 DEF LastOf
<1>7. PICK last \in 1..n : LastOf(date, last)
  <2> DEFINE I == {k \in 1..n : underlying_prices[k].date = date}
  <2>1. I \subseteq 0..n /\ I # {}
    BY <1>1
  <2>2. PICK m \in I : \A k \in I : k <= m
    <3> HIDE DEF I, n
    <3> QED
      BY <1>1, <2>1, GreatestNumber DEF n
  <2> QED
    BY <1>1, <2>2 DEF LastOf
<1>8. \A j : LastOf(date, j) => j = last
  BY <1>1, <1>7 DEF LastOf
<1>9. (CHOOSE k \in 1..n : L(k)) = last
  <2> HIDE DEF L
  <2> QED
    BY <1>1, <1>6, <1>7, <1>8
<1>10. In!Os!eqvol_map[date] = underlying_prices[last].volume
  BY <1>2, <1>5, <1>9
<1> QED
  BY <1>5, <1>7, <1>8, <1>10

(* The k-th day of the report has an equity volume; its ratio is null only *)
(* if that is 0.                                                           *)
LEMMA RatioOfDay ==
  ASSUME Surroundings, OkProfilesWhatWasAsked, PricesInv, DaysInv, reading = "ok",
         NEW k \in 1..Len(profiled)
  PROVE  /\ \E j : LastOf(profiled[k].date, j)
         /\ ~In!Os!join_miss(k)
         /\ \A j : LastOf(profiled[k].date, j) =>
              (In!Os!os_value(k) = None <=> underlying_prices[j].volume = 0)
<1> DEFINE date == profiled[k].date
           map == In!Os!eqvol_map
<1>1. /\ DOMAIN profiled = 1..Len(profiled)
      /\ In!Os!days[k].date = date /\ In!Os!days[k].opvol = 1
  BY ReportDays DEF Opvol
<1>2. PICK i \in DOMAIN underlying_prices : underlying_prices[i].date = date
  BY <1>1 DEF DaysInv
<1>3. PICK j : LastOf(date, j)
  BY <1>2, LastPriceCounts
<1>4. date \in DOMAIN map /\ \A h : LastOf(date, h) => map[date] = underlying_prices[h].volume
  BY <1>2, LastPriceCounts
<1>5. ~In!Os!join_miss(k)
  BY <1>1, <1>4 DEF In!Os!join_miss
<1>6. underlying_prices[j].volume \in Nat
  <2>1. underlying_prices[j] \in In!Price
    BY <1>3, ElementOfSeq DEF PricesInv, LastOf
  <2> QED
    BY <2>1 DEF In!Price
<1>7. In!Os!os_value(k) = IF map[date] = 0 THEN None ELSE In!Os!ratio(1 * 100, map[date])
  BY <1>1, <1>5 DEF In!Os!os_value
<1>8. map[date] \in Nat
  BY <1>3, <1>4, <1>6
<1>9. In!Os!os_value(k) = None <=> map[date] = 0
  <2>1. In!Os!ratio(1 * 100, map[date]) \in [num : Int, den : Int]
    BY <1>8 DEF In!Os!ratio
  <2>2. None \notin [num : Int, den : Int]
    BY CommandAssumption
  <2> HIDE DEF map, date
  <2> QED
    BY <1>7, <2>1, <2>2
<1> QED
  BY <1>3, <1>4, <1>5, <1>9

(* Of a run that succeeds the O/S report is right about what is missing.   *)
LEMMA NullsAreMissing ==
  Surroundings /\ OkProfilesWhatWasAsked /\ PricesInv /\ DaysInv => NullMeansNoVolume
<1> SUFFICES ASSUME Surroundings, OkProfilesWhatWasAsked, PricesInv, DaysInv, reading = "ok"
             PROVE  NullMeansNoVolume
  BY DEF NullMeansNoVolume, In!NullMeansNoVolume
<1> DEFINE n == Len(profiled)
<1>1. DOMAIN profiled = 1..n /\ In!Os!n_days = n
  BY ReportDays
<1>2. \A k \in 1..n : /\ \E j : LastOf(profiled[k].date, j)
                      /\ ~In!Os!join_miss(k)
                      /\ \A j : LastOf(profiled[k].date, j) =>
                           (In!Os!os_value(k) = None <=> underlying_prices[j].volume = 0)
  BY RatioOfDay
<1>3. In!Os!n_join_miss = 0
  <2>1. {k \in 1..In!Os!n_days : In!Os!join_miss(k)} = {}
    BY <1>1, <1>2
  <2>2. In!Os!n_join_miss = Cardinality({k \in 1..In!Os!n_days : In!Os!join_miss(k)})
    BY Zenon DEF In!Os!n_join_miss, In!Os!Cardinality, Cardinality
  <2> QED
    BY <2>1, <2>2, FS_EmptySet
<1>4. In!Os!os_values = [k \in 1..n |-> In!Os!os_value(k)]
  BY <1>1 DEF In!Os!os_values
<1>5. ASSUME input_section.underlying_prices_file = None
      PROVE  In!Os!n_finite(In!Os!os_values) = 0
  <2>1. underlying_prices = Fallback
    BY <1>5 DEF PricesInv, In!OneSourceOfPrices
  <2>2. \A j \in DOMAIN underlying_prices : underlying_prices[j].volume = 0
    BY <2>1, CommandAssumption
  <2>3. \A k \in 1..n : In!Os!os_value(k) = None
    BY <1>2, <2>2 DEF LastOf
  <2>4. In!Os!finite(In!Os!os_values) = {}
    BY <1>4, <2>3 DEF In!Os!finite
  <2>5. In!Os!n_finite(In!Os!os_values) = Cardinality(In!Os!finite(In!Os!os_values))
    BY Zenon DEF In!Os!n_finite, In!Os!Cardinality, Cardinality
  <2> QED
    BY <2>4, <2>5, FS_EmptySet
<1>6. ASSUME NEW k \in DOMAIN profiled
      PROVE  In!Os!os_values[k] = None <=>
               \E j \in DOMAIN underlying_prices :
                 /\ underlying_prices[j].date = profiled[k].date
                 /\ \A i \in DOMAIN underlying_prices :
                      i > j => underlying_prices[i].date # profiled[k].date
                 /\ underlying_prices[j].volume = 0
  <2>1. In!Os!os_values[k] = None <=> In!Os!os_value(k) = None
    BY <1>1, <1>4
  <2>2. PICK j : LastOf(profiled[k].date, j)
    BY <1>1, <1>2
  <2>3. \A i : LastOf(profiled[k].date, i) =>
                 (In!Os!os_value(k) = None <=> underlying_prices[i].volume = 0)
    BY <1>1, <1>2
  <2> QED
    BY <2>1, <2>2, <2>3 DEF LastOf
<1> QED
  BY <1>3, <1>5, <1>6 DEF NullMeansNoVolume, In!NullMeansNoVolume

-----------------------------------------------------------------------------
(* The theorems                                                            *)

(* The order of main().                                                    *)
LEMMA PhasesInvariant == Spec => [](Surroundings /\ Phases)
BY InitPhases, StepPhases, PTL DEF Spec

(* The configuration.                                                      *)
LEMMA ConfigInvariant == Spec => []ConfigInv
BY PhasesInvariant, InitConfig, StepConfig, PTL DEF Spec

(* The registration and the writing.                                       *)
LEMMA OutputInvariant == Spec => [](RegisterInv /\ OutputInv)
<1>1. Surroundings /\ Phases /\ ConfigInv /\ RegisterInv /\ OutputInv /\ [Next]_vars
      /\ Surroundings' /\ Phases' => RegisterInv' /\ OutputInv'
  BY StepRegister, StepOutput
<1> QED
  BY PhasesInvariant, ConfigInvariant, InitOutput, <1>1, PTL DEF Spec

(* config.rs: whatever the file and however its headings are arranged, the *)
(* configuration the command runs on is what the file says, and the        *)
(* documented default wherever it says nothing.                            *)
THEOREM ConfigCorrect == Spec => []ConfigIsTheFile
<1>1. ConfigInv => ConfigIsTheFile
  BY DEF ConfigInv
<1> QED
  BY ConfigInvariant, <1>1, PTL

(* write_output() of profiler.rs: at any time, and after any end, the      *)
(* files of the latest run are its first reports, at most the last of them *)
(* torn, and that only if the run has ended.                               *)
THEOREM PrefixCorrect == Spec => []PrefixWritten
<1>1. OutputInv => PrefixWritten
  BY DEF OutputInv
<1> QED
  BY OutputInvariant, <1>1, PTL

(* main() of profile_opra.rs: for any number of trackers and of runs over  *)
(* one directory, status 0 means that the files of the run are the reports *)
(* its configuration file does not switch off, whole and numbered without  *)
(* a gap.                                                                  *)
THEOREM ExitZeroCorrect == Spec => []ExitZeroIsComplete
BY PhasesInvariant, OutputInvariant, ExitZero, PTL

(* The list of files.                                                      *)
LEMMA FilesInvariant == Spec => []FilesInv
BY PhasesInvariant, ConfigInvariant, InitFiles, StepFiles, PTL DEF Spec

(* The prices.                                                             *)
LEMMA PricesInvariant == Spec => []PricesInv
BY PhasesInvariant, InitPrices, StepPrices, PTL DEF Spec

(* The profiled days.                                                      *)
LEMMA DaysInvariant == Spec => []DaysInv
BY PhasesInvariant, ConfigInvariant, FilesInvariant, PricesInvariant, InitDays, StepDays, PTL
   DEF Spec

(* discover_files() of profiler.rs: whatever the pattern and the names in  *)
(* the directory, a slice out of range comes only of a pattern whose       *)
(* prefix ends as its suffix begins.                                       *)
THEOREM PanicsCorrect == Spec => []OnlyOverlapPanics
BY PhasesInvariant, ConfigInvariant, FilesInvariant, InitPanics, StepPanics, PTL DEF Spec

(* discover_files() and run() of profiler.rs: whatever else the directory  *)
(* holds and in whatever order it lists it, a run that succeeds has        *)
(* profiled exactly the dates asked for, each once and in order, on the    *)
(* prices of one source, all of them, and positive ones.                   *)
THEOREM DaysCorrect == Spec => []OkProfilesWhatWasAsked
BY FilesInvariant, PricesInvariant, DaysInvariant, OkProfiles, PTL

(* run() and compute_os_series(): of any run that succeeds, a null in the  *)
(* O/S report is a day whose last price has no equity volume, never a      *)
(* price that is missing; on the built-in prices it is every day.          *)
THEOREM NullsCorrect == Spec => []NullMeansNoVolume
BY PhasesInvariant, PricesInvariant, DaysInvariant, DaysCorrect, NullsAreMissing, PTL
=============================================================================
