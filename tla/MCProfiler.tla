----------------------------- MODULE MCProfiler -----------------------------
(* Small instances of Profiler: see the .cfg files for what each fixes.    *)
EXTENDS Profiler

MCFlagSets == {{}, {"bad_book_flagged", "snapshot_flagged"}}

(* Every date has a file and a price of whatever sign, O/S is on: the runs *)
(* that look at what is counted leave the early returns to the others.     *)
MCCountingInit ==
  /\ Init
  /\ Len(files) = Cardinality(Dates)
  /\ DOMAIN prices = Dates
  /\ os_enabled

MCCountingSpec == MCCountingInit /\ [][Next]_vars
=============================================================================
