----------------------------- MODULE MCSymbology -----------------------------
(* A small instance of Symbology: two ids, three contracts of two roots,   *)
(* and two symbols that do not parse.                                      *)
EXTENDS Symbology

symbol(length, root, expiry, right, strike) ==
  [length |-> length, root |-> root, expiry |-> expiry, right |-> right, strike |-> strike]

call    == symbol(21, "NVDA", 12, "C", 185)
put     == symbol(21, "NVDA", 11, "P", 185)
other   == symbol(21, "NVDX", 12, "C", 20)
short   == symbol(17, "NVDA", 12, "C", 185)
blank   == symbol(21, "", 12, "C", 185)
undated == symbol(21, "NVDA", None, "P", 185)
future  == symbol(21, "NVDA", 12, "?", 185)

map(s, from, until, id) == [symbol |-> s, from |-> from, until |-> until, id |-> id]

file(start, end, mappings) == [start |-> start, end |-> end, mappings |-> mappings]

MCDates == <<10, 11, 12>>

(* Files of one day with the ids given out anew; a file of two days with   *)
(* an id that changes hands; unparsable symbols; a file of another day.    *)
MCMetadatas ==
  { file(10, 13, {map(call, 10, 13, 1), map(put, 10, 13, 2)}),
    file(10, 13, {map(put, 10, 13, 1), map(other, 10, 13, 2)}),
    file(10, 13, {map(call, 10, 11, 1), map(put, 11, 13, 1), map(short, 10, 13, 2)}),
    file(10, 13, {map(blank, 10, 13, 1), map(undated, 10, 12, 2), map(future, 12, 13, 2)}),
    file(11, 12, {map(call, 11, 12, 1), map(other, 11, 12, 2)}) }
=============================================================================
