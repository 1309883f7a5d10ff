------------------------------ MODULE MCCommand ------------------------------
(* A small instance of Command: three trackers stand for the eight, three  *)
(* dates and one that is none, two patterns, of which one overlaps with    *)
(* itself, and one without a date.                                         *)
EXTENDS Command

MCOrder == <<"quality", "volume", "greeks">>

MCDateOf == [d1 |-> 1, d2 |-> 2, d3 |-> 3, d4 |-> 4]

price(d, o, c, v) == [date |-> d, open |-> o, close |-> c, volume |-> v]

MCFallback == <<price(1, 9, 8, 0), price(2, 8, 9, 0)>>

-----------------------------------------------------------------------------
key(s, k, v) == [section |-> s, key |-> k, value |-> v]

(* What a file can say of a section: heading or none, and keys below it.   *)
says(headings, given) == [headings |-> headings, given |-> given]

says_both(a, b) == says(a.headings \cup b.headings, a.given \cup b.given)

silent == says({}, {})
title(s) == says({s}, {})

MCFile(a) == [readable |-> TRUE, toml |-> TRUE, headings |-> a.headings, given |-> a.given]

dashed  == [prefix |-> <<"opra", "-">>, date |-> TRUE, suffix |-> <<".", "zst">>]
dotted  == [prefix |-> <<"opra", ".">>, date |-> TRUE, suffix |-> <<".", "zst">>]
dateless == [prefix |-> <<"opra">>, date |-> FALSE, suffix |-> << >>]

input_of(pattern, others) ==
  says({"input"}, {key("input", "data_dir", "d"), key("input", "filename_pattern", pattern)}
                    \cup {key("input", k, others[k]) : k \in DOMAIN others})

plain == input_of(dashed, << >>)

MCInput ==
  { plain,
    input_of(dashed, [underlying_prices_file |-> "p", date_end |-> 2]),
    input_of(dotted, [underlying_prices_file |-> "p", date_start |-> 1]),
    input_of(dateless, [underlying_prices_file |-> "p"]),
    input_of(dashed, [symbol |-> "other"]),
    input_of(dashed, [symbol |-> "other", underlying_prices_file |-> "p",
                      date_start |-> 2, date_end |-> 3]) }

(* What the rest of a file says.  D9 of the design notes tells of a        *)
(* capacity that once stood below the wrong heading.                       *)
MCTrackers ==
  { silent, title("trackers"),
    says({"trackers"}, {key("trackers", "greeks", FALSE), key("trackers", "volume", TRUE)}),
    says({"trackers"}, {key("trackers", "quality", FALSE)}),
    says({"trackers"}, {key("trackers", "gamma", TRUE)}) }

MCBuckets ==
  { silent, title("buckets"), says({"buckets"}, {key("buckets", "atm_range_pct", 3)}),
    says({"buckets"}, {key("buckets", "reservoir_capacity", 500)}),
    says({}, {key("top", "reservoir_capacity", 500)}) }

MCOsRatio ==
  { silent, title("os_ratio"),
    says({"os_ratio"}, {key("os_ratio", "enabled", FALSE),
                        key("os_ratio", "rolling_window_days", 20)}),
    title("os-ratio") }

MCOutput == { title("output"), says({"output"}, {key("output", "write_summaries", FALSE)}) }

(* Sections taken two by two: a tracker switched off with every mistake.   *)
MCRest ==
  {says_both(t, r) : t \in MCTrackers, r \in MCOsRatio}
    \cup {says_both(t, b) : t \in {silent, title("trackers")}, b \in MCBuckets}
    \cup MCOutput

MCMistaken ==
  { [readable |-> FALSE, toml |-> FALSE, headings |-> {}, given |-> {}],
    [readable |-> TRUE, toml |-> FALSE, headings |-> {}, given |-> {}],
    MCFile(silent), MCFile(says({"input"}, {key("input", "data_dir", "d")})) }

-----------------------------------------------------------------------------
day_files(pattern, dates) == {pattern.prefix \o <<d>> \o pattern.suffix : d \in dates}

(* What else lies in the directory: no date, two dates, a name that is the *)
(* pattern without its date, one that is shorter, one of another kind.     *)
junk ==
  { <<"opra", "-", "all", ".", "zst">>, <<"opra", "-", "d1", "d2", ".", "zst">>,
    <<"opra", ".", "zst">>, <<".", "zst">>, <<"opra", "-", "d2">> }

good == day_files(dashed, {"d1", "d2"})

MCDirectories ==
  { None, {}, junk,
    day_files(dashed, {"d1", "d2", "d3"}),
    good \cup day_files(dotted, {"d2", "d3"}),
    good \cup {<<"opra", "-", "all", ".", "zst">>, <<"opra", "-", "d2">>},
    day_files(dashed, {"d2", "d4"}) \cup day_files(dotted, {"d1"}) }

(* Days out of order and one without an open; two records of one date, one *)
(* without volume; a file damaged after two records; an empty one.         *)
shuffled == <<price(3, 7, 7, 5), price(1, 5, 6, 3), price(2, 6, 7, 4)>>

MCPriceFiles ==
  { shuffled,
    <<price(2, 6, 7, 4), price(1, 0, 6, 3), price(3, 7, 7, 5)>>,
    <<price(1, 5, 6, 3), price(2, 6, 7, 4), None, price(3, 7, 7, 5)>>,
    <<price(1, 5, 6, 3), price(2, 6, 7, 4), price(1, 50, 60, 0)>>,
    << >> }

(* Every [input] section on every directory and price file, and every      *)
(* other part of the file on good ones.                                    *)
MCEnvironments ==
  {<<MCFile(i), d, p>> : i \in MCInput, d \in MCDirectories, p \in MCPriceFiles}
    \cup {<<MCFile(says_both(plain, r)), good, shuffled>> : r \in MCRest}
    \cup {<<f, good, shuffled>> : f \in MCMistaken}
=============================================================================
