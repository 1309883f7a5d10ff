----------------------------- MODULE LoaderProofs -----------------------------
(***************************************************************************)
(* Theorems about Loader, for files of any length and any warning cap.     *)
(***************************************************************************)
EXTENDS Loader, TLAPS

(* Any step of the decoder hands out one outcome of some kind.             *)
LEMMA HandsOutKeepsType ==
  ASSUME TypeOK, NEW o \in Outcome, HandsOut(o)
  PROVE  /\ decoder' \in [position : 0..MaxRecords, eof : BOOLEAN]
         /\ tape' \in [Outcome -> Nat]
BY LoaderAssumption DEF TypeOK, HandsOut

(* The iterator keeps its types.                                           *)
LEMMA LoaderTypeOK == Spec => []TypeOK
<1>1. Init => TypeOK
  BY LoaderAssumption
  DEF Init, TypeOK, FreshDecoder, FreshRecords, NothingLogged, LoaderCounter
<1>2. TypeOK /\ [Next]_vars => TypeOK'
  <2> SUFFICES ASSUME TypeOK, [Next]_vars PROVE TypeOK'
    OBVIOUS
  <2> USE DEF Outcome, LoaderCounter, Warning
  <2>1. CASE YieldCmbp1
    BY <2>1, HandsOutKeepsType DEF YieldCmbp1, TypeOK
  <2>2. CASE YieldCbbo
    BY <2>2, HandsOutKeepsType DEF YieldCbbo, TypeOK
  <2>3. CASE SkipUndecodable
    BY <2>3, HandsOutKeepsType DEF SkipUndecodable, TypeOK
  <2>4. CASE SkipUnsupported
    BY <2>4, HandsOutKeepsType, LoaderAssumption DEF SkipUnsupported, TypeOK
  <2>5. CASE Eof
    BY <2>5 DEF Eof, TypeOK
  <2>6. CASE UNCHANGED vars
    BY <2>6 DEF vars, TypeOK
  <2> QED
    BY <2>1, <2>2, <2>3, <2>4, <2>5, <2>6 DEF Next
<1> QED
  BY <1>1, <1>2, PTL DEF Spec

(* Every outcome of the decoder is in exactly one counter that the caller  *)
(* of next() can read, however long and however damaged the file is.       *)
THEOREM OutcomesCounted == Spec => []EveryOutcomeCounted
<1>1. Init => EveryOutcomeCounted
  BY DEF Init, EveryOutcomeCounted, FreshDecoder, FreshRecords, LoaderCounter, Outcome
<1>2. TypeOK /\ EveryOutcomeCounted /\ [Next]_vars => EveryOutcomeCounted'
  <2> SUFFICES ASSUME TypeOK, EveryOutcomeCounted, [Next]_vars
               PROVE  EveryOutcomeCounted'
    OBVIOUS
  <2> USE DEF TypeOK, EveryOutcomeCounted, Outcome, LoaderCounter, HandsOut
  <2>1. CASE YieldCmbp1
    BY <2>1 DEF YieldCmbp1
  <2>2. CASE YieldCbbo
    BY <2>2 DEF YieldCbbo
  <2>3. CASE SkipUndecodable
    <3>1. CASE HandsOut("error")
      BY <2>3, <3>1 DEF SkipUndecodable
    <3>2. CASE HandsOut("short")
      BY <2>3, <3>2 DEF SkipUndecodable
    <3> QED
      BY <2>3, <3>1, <3>2 DEF SkipUndecodable
  <2>4. CASE SkipUnsupported
    BY <2>4 DEF SkipUnsupported
  <2>5. CASE Eof
    BY <2>5 DEF Eof
  <2>6. CASE UNCHANGED vars
    BY <2>6 DEF vars
  <2> QED
    BY <2>1, <2>2, <2>3, <2>4, <2>5, <2>6 DEF Next
<1> QED
  BY <1>1, <1>2, LoaderTypeOK, PTL DEF Spec

(* The notice is printed once, when the count of unsupported records gets  *)
(* to the cap.                                                             *)
NoticePrinted ==
  logged["suppression"] =
    IF records["unsupported_rtype"] >= MAX_UNSUPPORTED_RTYPE_WARNINGS THEN 1 ELSE 0

LEMMA NoticeAtCap == Spec => []NoticePrinted
<1>1. Init => NoticePrinted
  BY LoaderAssumption
  DEF Init, NoticePrinted, NothingLogged, FreshRecords, LoaderCounter, Warning
<1>2. TypeOK /\ NoticePrinted /\ [Next]_vars => NoticePrinted'
  <2> SUFFICES ASSUME TypeOK, NoticePrinted, [Next]_vars PROVE NoticePrinted'
    OBVIOUS
  <2> USE DEF TypeOK, NoticePrinted, LoaderCounter, Warning
  <2>1. CASE YieldCmbp1
    BY <2>1 DEF YieldCmbp1
  <2>2. CASE YieldCbbo
    BY <2>2 DEF YieldCbbo
  <2>3. CASE SkipUndecodable
    BY <2>3 DEF SkipUndecodable
  <2>4. CASE SkipUnsupported
    <3>1. CASE records["unsupported_rtype"] + 1 > MAX_UNSUPPORTED_RTYPE_WARNINGS
      BY <2>4, <3>1, LoaderAssumption DEF SkipUnsupported
    <3>2. CASE records["unsupported_rtype"] + 1 = MAX_UNSUPPORTED_RTYPE_WARNINGS
      BY <2>4, <3>2, LoaderAssumption DEF SkipUnsupported
    <3>3. CASE records["unsupported_rtype"] + 1 < MAX_UNSUPPORTED_RTYPE_WARNINGS
      BY <2>4, <3>3, LoaderAssumption DEF SkipUnsupported
    <3> QED
      BY <3>1, <3>2, <3>3, LoaderAssumption
  <2>5. CASE Eof
    BY <2>5 DEF Eof
  <2>6. CASE UNCHANGED vars
    BY <2>6 DEF vars
  <2> QED
    BY <2>1, <2>2, <2>3, <2>4, <2>5, <2>6 DEF Next
<1> QED
  BY <1>1, <1>2, LoaderTypeOK, PTL DEF Spec

(* No record is skipped without a line in the log before the notice that   *)
(* says so, whatever the cap is.                                           *)
THEOREM SkipsAnnounced == Spec => NoSilentSkip
<1> DEFINE Announced ==
      records'["count"] = records["count"] /\ tape' # tape
        => logged' # logged \/ logged["suppression"] = 1
<1>1. TypeOK /\ NoticePrinted /\ [Next]_vars => [Announced]_vars
  <2> SUFFICES ASSUME TypeOK, NoticePrinted, [Next]_vars PROVE [Announced]_vars
    OBVIOUS
  <2> USE DEF TypeOK, LoaderCounter, Warning
  <2>1. CASE YieldCmbp1
    BY <2>1 DEF YieldCmbp1
  <2>2. CASE YieldCbbo
    BY <2>2 DEF YieldCbbo
  <2>3. CASE SkipUndecodable
    <3>1. logged'["undecodable"] # logged["undecodable"]
      BY <2>3 DEF SkipUndecodable
    <3> QED
      BY <3>1
  <2>4. CASE SkipUnsupported
    <3>1. CASE records["unsupported_rtype"] + 1 > MAX_UNSUPPORTED_RTYPE_WARNINGS
      BY <3>1, LoaderAssumption DEF NoticePrinted
    <3>2. CASE ~(records["unsupported_rtype"] + 1 > MAX_UNSUPPORTED_RTYPE_WARNINGS)
      <4>1. logged'["unsupported"] = logged["unsupported"] + 1
        BY <2>4, <3>2 DEF SkipUnsupported
      <4> QED
        BY <4>1
    <3> QED
      BY <3>1, <3>2
  <2>5. CASE Eof
    BY <2>5 DEF Eof
  <2>6. CASE UNCHANGED vars
    BY <2>6 DEF vars
  <2> QED
    BY <2>1, <2>2, <2>3, <2>4, <2>5, <2>6 DEF Next
<1> QED
  BY <1>1, LoaderTypeOK, NoticeAtCap, PTL DEF Spec, NoSilentSkip
=============================================================================
