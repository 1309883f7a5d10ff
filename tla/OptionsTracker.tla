--------------------------- MODULE OptionsTracker ---------------------------
(***************************************************************************)
(* What the OptionsTracker trait (lib.rs) promises a tracker about its     *)
(* caller: the order of the lifecycle calls.  The profiler is shown to     *)
(* implement it for every registered tracker; a tracker may rely on it.    *)
(*                                                                         *)
(* A tracker keeps state of two kinds: totals over the run, and per-day    *)
(* accumulators that end_of_day folds into daily statistics and reset_day  *)
(* clears.  begin_day clears nothing in any tracker, so the per-day        *)
(* accumulators are right only if no event is pending when a day begins.   *)
(***************************************************************************)
EXTENDS Naturals

VARIABLES
  stage,   \* where the tracker is in its lifecycle
  pending, \* events in the per-day accumulators since the last reset_day
  seen,    \* events over the whole run
  days     \* days closed by end_of_day

vars == <<stage, pending, seen, days>>

Stages == {"idle", "in_day", "closed", "finalized"}

Init ==
  /\ stage = "idle"
  /\ pending = 0
  /\ seen = 0
  /\ days = 0

(* 1. once at the start of each trading day, on clean per-day state        *)
BeginDay ==
  /\ stage = "idle"
  /\ pending = 0
  /\ stage' = "in_day"
  /\ UNCHANGED <<pending, seen, days>>

(* 2. for every enriched event of the day                                  *)
ProcessEvent ==
  /\ stage = "in_day"
  /\ pending' = pending + 1
  /\ seen' = seen + 1
  /\ UNCHANGED <<stage, days>>

(* 3. once when the day is over                                            *)
EndOfDay ==
  /\ stage = "in_day"
  /\ stage' = "closed"
  /\ days' = days + 1
  /\ UNCHANGED <<pending, seen>>

(* 4. to prepare for the next day                                          *)
ResetDay ==
  /\ stage = "closed"
  /\ stage' = "idle"
  /\ pending' = 0
  /\ UNCHANGED <<seen, days>>

(* 5. once after all data, never inside a day                              *)
Finalize ==
  /\ stage = "idle"
  /\ stage' = "finalized"
  /\ UNCHANGED <<pending, seen, days>>

Next == BeginDay \/ ProcessEvent \/ EndOfDay \/ ResetDay \/ Finalize

Spec == Init /\ [][Next]_vars
=============================================================================
