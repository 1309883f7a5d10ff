------------------------------- MODULE Loader -------------------------------
(***************************************************************************)
(* Cmbp1RecordIterator (loader.rs): the streaming iterator over one OPRA   *)
(* .dbn.zst file.  Every turn of the loop in next() asks the dbn decoder   *)
(* for one outcome; an outcome is either yielded to the caller as a record *)
(* or counted, logged and skipped.                                         *)
(*                                                                         *)
(* The decoder itself is the external dbn crate: `decoder' stands for how  *)
(* far it is in the file, and its outcomes are chosen freely.              *)
(***************************************************************************)
EXTENDS Naturals

CONSTANTS
  MaxRecords,                    \* bound: outcomes one file can hand out
  MAX_UNSUPPORTED_RTYPE_WARNINGS \* per-record warnings before the notice

ASSUME LoaderAssumption ==
  /\ MaxRecords \in Nat
  /\ MAX_UNSUPPORTED_RTYPE_WARNINGS \in Nat \ {0}

VARIABLES
  decoder,  \* the external decoder: outcomes handed out, end of file reached
  records,  \* the counters the iterator exposes to its caller
  logged,   \* the warnings emitted for this file
  tape      \* history: how many outcomes of each kind were ever handed out

vars == <<decoder, records, logged, tape>>

(* What decode_record_ref() and the rtype dispatch make of one record.     *)
Outcome == {"cmbp1", "cbbo", "error", "short", "unsupported"}

LoaderCounter == {"decode_errors", "unsupported_rtype", "cbbo_action_unavailable"}

Warning == {"cbbo", "undecodable", "unsupported", "suppression"}

FreshDecoder == [position |-> 0, eof |-> FALSE]

FreshRecords ==
  [c \in LoaderCounter \cup {"count"} |-> 0]

NothingLogged == [w \in Warning |-> 0]

Init ==
  /\ decoder = FreshDecoder
  /\ records = FreshRecords
  /\ logged  = NothingLogged
  /\ tape    = [o \in Outcome |-> 0]

-----------------------------------------------------------------------------
(* One outcome leaves the decoder.                                         *)
HandsOut(o) ==
  /\ ~decoder.eof
  /\ decoder.position < MaxRecords
  /\ decoder' = [decoder EXCEPT !.position = @ + 1]
  /\ tape' = [tape EXCEPT ![o] = @ + 1]

(* A CMBP-1 or TCBBO record: counted and yielded.                          *)
YieldCmbp1 ==
  /\ HandsOut("cmbp1")
  /\ records' = [records EXCEPT !["count"] = @ + 1]
  /\ UNCHANGED logged

(* A CBBO-1s/1m record: it has no action byte.  The first one of a file is *)
(* announced, each one is counted, and it is yielded like any other.       *)
YieldCbbo ==
  /\ HandsOut("cbbo")
  /\ records' = [records EXCEPT !["cbbo_action_unavailable"] = @ + 1, !["count"] = @ + 1]
  /\ logged' = [logged EXCEPT !["cbbo"] = 1]

(* Fault: forgets to count short records                                 *)
SkipUndecodable_short_uncounted ==
  \/ /\ HandsOut("error")
     /\ records' = [records EXCEPT !["decode_errors"] = @ + 1]
     /\ logged' = [logged EXCEPT !["undecodable"] = @ + 1]
  \/ /\ HandsOut("short")
     /\ logged' = [logged EXCEPT !["undecodable"] = @ + 1]
     /\ UNCHANGED records

(* DecodeError or ShortRecord: counted, logged, skipped.                   *)
SkipUndecodable ==
  /\ HandsOut("error") \/ HandsOut("short")
  /\ records' = [records EXCEPT !["decode_errors"] = @ + 1]
  /\ logged' = [logged EXCEPT !["undecodable"] = @ + 1]

(* Fault: stops warning without the notice                               *)
SkipUnsupported_no_notice ==
  LET n == records["unsupported_rtype"] + 1
  IN  /\ HandsOut("unsupported")
      /\ records' = [records EXCEPT !["unsupported_rtype"] = n]
      /\ logged' = IF n > MAX_UNSUPPORTED_RTYPE_WARNINGS THEN logged
                   ELSE [logged EXCEPT !["unsupported"] = @ + 1]

(* UnsupportedRtype: counted exactly, logged for the first few records of  *)
(* the file; the last of those warnings also announces the suppression.    *)
SkipUnsupported ==
  LET n == records["unsupported_rtype"] + 1
  IN  /\ HandsOut("unsupported")
      /\ records' = [records EXCEPT !["unsupported_rtype"] = n]
      /\ logged' = IF n > MAX_UNSUPPORTED_RTYPE_WARNINGS THEN logged
                   ELSE [logged EXCEPT
                           !["unsupported"] = @ + 1,
                           !["suppression"] =
                             IF n = MAX_UNSUPPORTED_RTYPE_WARNINGS THEN @ + 1 ELSE @]

(* Ok(None): the caller's for loop ends.                                   *)
Eof ==
  /\ ~decoder.eof
  /\ decoder' = [decoder EXCEPT !.eof = TRUE]
  /\ UNCHANGED <<records, logged, tape>>

Next == YieldCmbp1 \/ YieldCbbo \/ SkipUndecodable \/ SkipUnsupported \/ Eof

Spec == Init /\ [][Next]_vars

-----------------------------------------------------------------------------
TypeOK ==
  /\ decoder \in [position : 0..MaxRecords, eof : BOOLEAN]
  /\ records \in [LoaderCounter \cup {"count"} -> Nat]
  /\ logged \in [Warning -> Nat]
  /\ tape \in [Outcome -> Nat]

(* Every outcome of the decoder is in exactly one of the counters the      *)
(* caller can read (count, decode_errors, unsupported_rtype), and the CBBO *)
(* observation equals the CBBO records among the yielded ones: loader.rs   *)
(* documents it as count() for a pure CBBO file and 0 for pure CMBP-1.     *)
EveryOutcomeCounted ==
  /\ records["count"] = tape["cmbp1"] + tape["cbbo"]
  /\ records["cbbo_action_unavailable"] = tape["cbbo"]
  /\ records["decode_errors"] = tape["error"] + tape["short"]
  /\ records["unsupported_rtype"] = tape["unsupported"]
  /\ decoder.position = records["count"] + records["decode_errors"]
                          + records["unsupported_rtype"]

(* The warning cap bounds the volume of the log, never its information: a  *)
(* record may be skipped without a line of its own only after the          *)
(* suppression notice, printed once, has said so.                          *)
NoSilentSkip ==
  [][ records'["count"] = records["count"] /\ tape' # tape
        => logged' # logged \/ logged["suppression"] = 1 ]_vars
=============================================================================
