-------------------------------- MODULE Command --------------------------------
(***************************************************************************)
(* The profile_opra command, from its configuration file to its exit       *)
(* status: main() of bin/profile_opra.rs loads the configuration (Config), *)
(* loads the prices, registers the trackers, lists and profiles the days   *)
(* (Inputs), and writes the reports (Output).  It is run several times, on *)
(* whatever files are there, over one output directory, and can be killed  *)
(* at any time.                                                            *)
(***************************************************************************)
EXTENDS Integers, Sequences, FiniteSets

CONSTANTS
  Environments,   \* what a run can find: <<configuration file, data_dir, OHLCV file>>
  Fallback, DateOf, CalendarDates,  \* see Inputs
  Order,          \* names of the trackers
  MaxRuns,        \* bound: runs of the command
  None            \* Option::None

VARIABLES
  file, loading, config, block, trackers,           \* see Config
  directory, price_file, reading, decoded, underlying_prices,
  unread, files, profiled,                          \* see Inputs
  run_id, process, reports, next, dir               \* see Output

configuring == <<file, loading, config, block, trackers>>
inputs == <<directory, price_file, reading, decoded, underlying_prices, unread, files,
            profiled>>
output == <<run_id, process, reports, next, dir>>
vars == <<configuring, inputs, output>>

AllReports == Append(Order, "OsRatio")

Cfg == INSTANCE Config

input_section == [key \in Cfg!Keys.input |-> config[<<"input", key>>]]

In  == INSTANCE Inputs WITH input <- input_section
Out == INSTANCE Output

ASSUME CommandAssumption ==
  /\ \A e \in Environments :
       /\ Cfg!WellFormed(e[1])
       /\ \A a \in e[1].given : a.section = "input" /\ a.key = "filename_pattern" =>
            a.value \in In!Pattern
       /\ e[2] = None \/ e[2] \subseteq Seq(STRING)
       /\ e[3] \in Seq(In!Price \cup {None})
  /\ Fallback \in Seq(In!Price) /\ \A k \in DOMAIN Fallback : In!usable(Fallback[k])
  /\ \A k \in DOMAIN Fallback : Fallback[k].volume = 0
  /\ DOMAIN DateOf \subseteq STRING
  /\ \A c, d \in DOMAIN DateOf : DateOf[c] \in Nat /\ (DateOf[c] = DateOf[d] => c = d)
  /\ Order \in Seq(STRING)
  /\ \A j, k \in DOMAIN AllReports : AllReports[j] = AllReports[k] => j = k
  /\ MaxRuns \in Nat
  /\ None \notin [num : Int, den : Int]

-----------------------------------------------------------------------------
(* Nothing is left in memory of an earlier run.                            *)
Fresh ==
  /\ loading' = "start" /\ config' = << >> /\ block' = 0 /\ trackers' = << >>
  /\ reading' = "start" /\ decoded' = 0 /\ underlying_prices' = << >>
  /\ unread' = {} /\ files' = << >> /\ profiled' = << >>

Init ==
  /\ \E e \in Environments : file = e[1] /\ directory = e[2] /\ price_file = e[3]
  /\ loading = "start" /\ config = << >> /\ block = 0 /\ trackers = << >>
  /\ reading = "start" /\ decoded = 0 /\ underlying_prices = << >>
  /\ unread = {} /\ files = << >> /\ profiled = << >>
  /\ Out!Init

StartCommand ==
  /\ Out!StartCommand
  /\ \E e \in Environments : file' = e[1] /\ directory' = e[2] /\ price_file' = e[3]
  /\ Fresh

Configure ==
  /\ process = "profiling"
  /\ Cfg!Usage \/ Cfg!LoadFails \/ Cfg!Load
  /\ UNCHANGED <<inputs, output>>

LoadPrices ==
  /\ process = "profiling" /\ loading = "configured"
  /\ UNCHANGED <<configuring, output>>
  /\ In!LoadPrices

RegisterTrackers ==
  /\ process = "profiling" /\ reading = "discover"
  /\ Cfg!RegisterTracker
  /\ UNCHANGED <<inputs, output>>

ProfileDays ==
  /\ process = "profiling" /\ Cfg!running
  /\ UNCHANGED <<configuring, output>>
  /\ In!Run

(* A panic ends the process with status 101: as good as 1 to its caller.   *)
Exit ==
  /\ loading = "exit_1" \/ reading \in {"exit_1", "panicked"}
  /\ Out!ProfilingFails
  /\ UNCHANGED <<configuring, inputs>>

(* run() returns one report for each tracker, then the one it makes itself.*)
StartWriting ==
  /\ reading = "ok"
  /\ Out!ProfilingEnds(trackers \o
       IF config[<<"os_ratio", "enabled">>] THEN <<"OsRatio">> ELSE << >>)
  /\ UNCHANGED <<configuring, inputs>>

Write ==
  /\ Out!CreateDirFails \/ Out!WriteReport \/ Out!WriteFails \/ Out!Done
  /\ UNCHANGED <<configuring, inputs>>

Killed == Out!Killed /\ UNCHANGED <<configuring, inputs>>

Next ==
  \/ StartCommand \/ Configure \/ LoadPrices \/ RegisterTrackers \/ ProfileDays
  \/ Exit \/ StartWriting \/ Write \/ Killed

Spec == Init /\ [][Next]_vars

-----------------------------------------------------------------------------
(* The configuration of a run is its file and the documented defaults,     *)
(* wherever a default is taken from (see Config).                          *)
ConfigIsTheFile == Cfg!ConfigIsTheFile

(* run() returns Ok only after exactly the dates that were asked for, in   *)
(* order, on one source of prices (see Inputs).                            *)
OkProfilesWhatWasAsked == In!OkProfilesWhatWasAsked

(* Slicing the date out of a file name panics for no directory, unless the *)
(* pattern overlaps with itself (see Inputs).                              *)
OnlyOverlapPanics == In!OnlyOverlapPanics

(* A null in the O/S report means that the equity volume was missing (see  *)
(* Inputs).                                                                *)
NullMeansNoVolume == In!NullMeansNoVolume

(* A run that does not end well leaves a prefix of its reports, at most    *)
(* one of them torn (see Output).                                          *)
PrefixWritten == Out!PrefixWritten

(* The file does not switch the report off.                                *)
asked_for(report) ==
  LET field == IF report = "OsRatio" THEN <<"os_ratio", "enabled">>
                                     ELSE <<"trackers", report>>
  IN  \A a \in Cfg!assigned(field) : a.value

(* The reports up to the k-th that the file does not switch off.           *)
number(k) == Cardinality({j \in 1..k : asked_for(AllReports[j])})

(* Status 0 tells that every report the configuration file does not switch *)
(* off is in the output directory, whole, of this run, numbered without a  *)
(* gap, and that no other file of the directory is of this run: whatever   *)
(* earlier runs, complete or not, had left there.                          *)
ExitZeroIsComplete ==
  process = "exit_0" /\ run_id > 0 =>
    /\ Out!written_by(run_id) =
         {<<number(k), AllReports[k]>> :
            k \in {j \in DOMAIN AllReports : asked_for(AllReports[j])}}
    /\ \A f \in Out!written_by(run_id) : dir[f].whole
=============================================================================
