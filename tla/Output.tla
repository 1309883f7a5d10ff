------------------------------- MODULE Output -------------------------------
(***************************************************************************)
(* The profile_opra command (bin/profile_opra.rs) around run(), and        *)
(* write_output() of profiler.rs: runs of the command, one after the       *)
(* other, over one output directory that nobody empties.  A run can fail   *)
(* before it writes, and writing can fail or be killed at any report.      *)
(* Module Command takes the steps.                                         *)
(***************************************************************************)
EXTENDS Naturals, Sequences

CONSTANTS
  AllReports,  \* names of all reports, in the order main() registers trackers
  MaxRuns      \* bound: runs of the command

VARIABLES
  run_id,   \* number of the latest run
  process,  \* "profiling", "writing", or how it ended
  reports,  \* ProfileResult.reports: their names
  next,     \* index of the report it writes next
  dir       \* the output directory: file -> what is in it

Ended == {"exit_0", "exit_1", "killed"}

File == (DOMAIN AllReports) \X {AllReports[k] : k \in DOMAIN AllReports}

Content == [run : 0..MaxRuns, whole : BOOLEAN]

Absent == [run |-> 0, whole |-> FALSE]  \* no such file

(* "{:02}_{}.json": position in this run, and name.                        *)
json_path(i) == <<i, reports[i]>>

Init ==
  /\ run_id = 0
  /\ reports = << >>
  /\ process = "exit_0"
  /\ next = 1
  /\ dir = [f \in File |-> Absent]

-----------------------------------------------------------------------------
StartCommand ==
  /\ process \in Ended
  /\ run_id < MaxRuns
  /\ run_id' = run_id + 1
  /\ process' = "profiling"
  /\ next' = 1
  /\ UNCHANGED <<reports, dir>>

(* No usable configuration or prices, or Err from run().                   *)
ProfilingFails ==
  /\ process = "profiling"
  /\ process' = "exit_1"
  /\ UNCHANGED <<run_id, reports, next, dir>>

ProfilingEnds(result) ==
  /\ process = "profiling"
  /\ reports' = result
  /\ process' = "writing"
  /\ UNCHANGED <<run_id, next, dir>>

(* Fault: writes the reports from the last to the first                  *)
WriteReport_last_first ==
  /\ process = "writing"
  /\ next <= Len(reports)
  /\ dir' = [dir EXCEPT ![json_path(Len(reports) + 1 - next)] =
                           [run |-> run_id, whole |-> TRUE]]
  /\ next' = next + 1
  /\ UNCHANGED <<run_id, reports, process>>

WriteReport ==
  /\ process = "writing"
  /\ next <= Len(reports)
  /\ dir' = [dir EXCEPT ![json_path(next)] = [run |-> run_id, whole |-> TRUE]]
  /\ next' = next + 1
  /\ UNCHANGED <<run_id, reports, process>>

(* Fault: goes on with the next report                                   *)
WriteFails_continues ==
  /\ process = "writing"
  /\ next <= Len(reports)
  /\ dir' = [dir EXCEPT ![json_path(next)] = [run |-> run_id, whole |-> FALSE]]
  /\ next' = next + 1
  /\ UNCHANGED <<run_id, reports, process>>

(* create_dir_all or fs::write returns Err: fs::write has truncated the    *)
(* file by then, or could not open it.                                     *)
WriteFails ==
  /\ process = "writing"
  /\ next <= Len(reports)
  /\ dir' \in {dir, [dir EXCEPT ![json_path(next)] = [run |-> run_id, whole |-> FALSE]]}
  /\ process' = "exit_1"
  /\ UNCHANGED <<run_id, reports, next>>

CreateDirFails ==
  /\ process = "writing"
  /\ next = 1
  /\ process' = "exit_1"
  /\ UNCHANGED <<run_id, reports, next, dir>>

(* The process is killed between two steps, or inside fs::write.           *)
Killed ==
  /\ process \notin Ended
  /\ \/ UNCHANGED dir
     \/ /\ process = "writing" /\ next <= Len(reports)
        /\ dir' = [dir EXCEPT ![json_path(next)] = [run |-> run_id, whole |-> FALSE]]
  /\ process' = "killed"
  /\ UNCHANGED <<run_id, reports, next>>

Done ==
  /\ process = "writing"
  /\ next > Len(reports)
  /\ process' = "exit_0"
  /\ UNCHANGED <<run_id, reports, next, dir>>

-----------------------------------------------------------------------------
written_by(run) == {f \in File : dir[f] # Absent /\ dir[f].run = run}

(* Any other end leaves the output of a run that got part of the way: the  *)
(* first reports whole, at most one torn file, and that the next one.      *)
(* A reader can tell from the number of whole files how far the run got.   *)
PrefixWritten ==
  \A f \in written_by(run_id) :
    \E i \in 1..Len(reports) :
      /\ f = json_path(i) /\ i <= next
      /\ ~dir[f].whole => i = next /\ process \in Ended
      /\ \A j \in 1..(i - 1) : dir[json_path(j)] = [run |-> run_id, whole |-> TRUE]
=============================================================================
