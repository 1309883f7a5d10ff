-------------------------------- MODULE Config --------------------------------
(***************************************************************************)
(* The configuration file (config.rs) on its way into the command: what    *)
(* from_file() makes of it, and the trackers main() registers for it.      *)
(*                                                                         *)
(* A file is a set of assignments, each of a key in a section, and the set *)
(* of the sections that have a heading.  serde fills what a file leaves    *)
(* out from two places: a section without a heading is the value of        *)
(* Default::default(), a key missing below a heading is the value of the   *)
(* default function named at its field.  A percentage is a whole number, a *)
(* path or a text a value of its own.  Module Command takes the steps.     *)
(***************************************************************************)
EXTENDS Integers, Sequences

CONSTANTS
  Order,  \* names of the trackers, in the order of the blocks in main()
  None    \* Option::None

Trackers == {Order[k] : k \in DOMAIN Order}

(* The reservoir capacity is a key above all headings.                     *)
Keys ==
  [top |-> {"reservoir_capacity"},
   input |-> {"data_dir", "filename_pattern", "symbol", "underlying_prices_file",
              "risk_free_rate", "date_start", "date_end"},
   trackers |-> Trackers,
   output |-> {"output_dir", "write_summaries"},
   buckets |-> {"atm_range_pct", "deep_range_pct"},
   os_ratio |-> {"enabled", "rolling_window_days", "dte_min", "dte_max"}]

Section == DOMAIN Keys

Field == UNION {{<<s, k>> : k \in Keys[s]} : s \in Section}

(* A file has readable and toml (it is there; it is well-formed and of the  *)
(* types of its fields), headings, and given, the assignments: records of  *)
(* section, key and value.  They are below a heading, no key comes twice.   *)
WellFormed(file) ==
  /\ \A a \in file.given : a.section = "top" \/ a.section \in file.headings
  /\ \A a, b \in file.given : a.section = b.section /\ a.key = b.key => a = b

VARIABLES
  file,      \* the file: fixed
  loading,   \* "start", "configured" or "exit_1"
  config,    \* ProfilerConfig: field -> value
  block,     \* blocks of main() passed, each of which registers a tracker or not
  trackers   \* names of the registered trackers, in order

-----------------------------------------------------------------------------
(* The value of a key that is missing below its heading: default_*().      *)
Defaults ==
  [reservoir_capacity |-> 10000, symbol |-> "NVDA", risk_free_rate |-> 5,
   output_dir |-> "output_opra", write_summaries |-> TRUE,
   atm_range_pct |-> 2, deep_range_pct |-> 10,
   enabled |-> TRUE, rolling_window_days |-> 6, dte_min |-> 5, dte_max |-> 35]

field_default(field) ==
  IF field[1] = "trackers" THEN TRUE
  ELSE IF field[2] \in DOMAIN Defaults THEN Defaults[field[2]] ELSE None

(* Fault: Default is derived, not written                                  *)
section_default_derived(field) ==
  IF field[2] \in Trackers \cup {"write_summaries", "enabled"} THEN FALSE
  ELSE IF field[2] = "output_dir" THEN "" ELSE 0

(* The value of a key whose section has no heading: impl Default.          *)
SectionDefaults ==
  [output_dir |-> "output_opra", write_summaries |-> TRUE,
   atm_range_pct |-> 2, deep_range_pct |-> 10,
   enabled |-> TRUE, rolling_window_days |-> 6, dte_min |-> 5, dte_max |-> 35]

section_default(field) ==
  IF field[1] = "trackers" THEN TRUE ELSE SectionDefaults[field[2]]

Required == {<<"input", "data_dir">>, <<"input", "filename_pattern">>}

assigned(field) == {a \in file.given : <<a.section, a.key>> = field}

(* deny_unknown_fields, on every struct.                                   *)
unknown_key ==
  \/ ~(file.headings \subseteq Section \ {"top"})
  \/ \E a \in file.given : <<a.section, a.key>> \notin Field

value_of(field) ==
  IF assigned(field) # {} THEN (CHOOSE a \in assigned(field) : TRUE).value
  ELSE IF field[1] \in file.headings \cup {"top"} THEN field_default(field)
  ELSE section_default(field)

Usage ==
  /\ loading = "start"
  /\ loading' = "exit_1"
  /\ UNCHANGED <<file, config, block, trackers>>

LoadFails ==
  /\ loading = "start"
  /\ \/ ~file.readable \/ ~file.toml \/ unknown_key
     \/ \E field \in Required : assigned(field) = {}
  /\ loading' = "exit_1"
  /\ UNCHANGED <<file, config, block, trackers>>

Load ==
  /\ loading = "start"
  /\ file.readable /\ file.toml /\ ~unknown_key
  /\ \A field \in Required : assigned(field) # {}
  /\ config' = [field \in Field |-> value_of(field)]
  /\ loading' = "configured"
  /\ UNCHANGED <<file, block, trackers>>

(* The next block of main(): if config.trackers.<name> { trackers.push() } *)
RegisterTracker ==
  /\ loading = "configured" /\ block < Len(Order)
  /\ block' = block + 1
  /\ trackers' = IF config[<<"trackers", Order[block']>>]
                 THEN Append(trackers, Order[block']) ELSE trackers
  /\ UNCHANGED <<file, loading, config>>

running == loading = "configured" /\ block = Len(Order)

-----------------------------------------------------------------------------
(* The configuration is the file and the documented defaults: the two      *)
(* sources of defaults agree, so that a heading with nothing below it      *)
(* changes nothing and a key below it changes no other one; and what the   *)
(* file says is used, no heading or key of it is skipped as unknown (D9 of *)
(* the design notes tells of one that was).                                *)
ConfigIsTheFile ==
  loading = "configured" =>
    /\ file.headings \subseteq Section
    /\ \A a \in file.given :
         <<a.section, a.key>> \in Field /\ config[<<a.section, a.key>>] = a.value
    /\ \A field \in Field : assigned(field) = {} => config[field] = field_default(field)
=============================================================================
