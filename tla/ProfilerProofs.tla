--------------------------- MODULE ProfilerProofs ---------------------------
(***************************************************************************)
(* Proofs about Profiler for every set of dates, trackers, instruments and *)
(* sizes and every length of the files.                                    *)
(***************************************************************************)
EXTENDS Profiler, FiniteSetTheorems, SequenceTheorems, WellFoundedInduction, TLAPS

(* A discovery is a sequence of dates.                                     *)
LEMMA DiscoveriesAreSequences ==
  ASSUME NEW s \in Discoveries
  PROVE  s \in Seq(Dates)
<1>1. Cardinality(Dates) \in Nat
  BY ProfilerAssumption, FS_CardinalityType
<1>2. PICK n \in 0..Cardinality(Dates) : s \in [1..n -> Dates]
  BY DEF Discoveries
<1>3. n \in Nat
  BY <1>1, <1>2
<1> QED
  BY <1>2, <1>3

(* The map of a file whose symbology cannot be read.                       *)
LEMMA EmptyContractMap == << >> \in ContractMaps
<1>1. << >> \in [{} -> Expirations]
  OBVIOUS
<1>2. {} \in SUBSET Instruments
  OBVIOUS
<1> QED
  BY <1>1, <1>2 DEF ContractMaps

(* run() starts in a state of the right type.                              *)
LEMMA InitTypeOK == Init => TypeOK
<1> SUFFICES ASSUME Init PROVE TypeOK
  OBVIOUS
<1>1. L!TypeOK
  BY ProfilerAssumption DEF Init, L!Init, L!TypeOK, L!FreshDecoder, L!FreshRecords,
     L!NothingLogged
<1>2. file_index \in 1..(Len(files) + 1)
  BY DiscoveriesAreSequences DEF Init
<1>3. os_daily_opvol \in Seq([date : Dates, opvol : Nat])
  BY DEF Init
<1> QED
  BY <1>1, <1>2, <1>3, EmptyContractMap DEF Init, TypeOK, Phases

(* Whatever the message, the iterator keeps its types when it hands out an *)
(* outcome.                                                                *)
LEMMA LoaderStepTypeOK == L!TypeOK /\ L!Next => L!TypeOK'
<1> SUFFICES ASSUME L!TypeOK, L!Next PROVE L!TypeOK'
  OBVIOUS
<1> USE DEF L!TypeOK, L!HandsOut, L!Outcome, L!Warning, L!LoaderCounter
<1>1. ASSUME NEW o \in L!Outcome, L!HandsOut(o)
      PROVE  /\ decoder' \in [position : 0..MaxRecords, eof : BOOLEAN]
             /\ tape' \in [L!Outcome -> Nat]
  BY <1>1, ProfilerAssumption
<1>2. CASE L!YieldCmbp1
  BY <1>1, <1>2 DEF L!YieldCmbp1
<1>3. CASE L!YieldCbbo
  BY <1>1, <1>3 DEF L!YieldCbbo
<1>4. CASE L!SkipUndecodable
  BY <1>1, <1>4 DEF L!SkipUndecodable
<1>5. CASE L!SkipUnsupported
  BY <1>1, <1>5 DEF L!SkipUnsupported
<1>6. CASE L!Eof
  BY <1>6 DEF L!Eof
<1> QED
  BY <1>2, <1>3, <1>4, <1>5, <1>6 DEF L!Next

(* A record adds a number of contracts to the O/S numerator, or none.      *)
LEMMA OpvolIsNat ==
  ASSUME NEW m \in Message, NEW record \in {from_cmbp1(m), from_cbbo(m)}
  PROVE  opvol(record) \in Nat
BY ProfilerAssumption
   DEF Message, from_cmbp1, from_cbbo, opvol, trade_size

(* The counters stay numbers when some of them go up by one.               *)
LEMMA BumpIsTyped ==
  ASSUME diag \in [DiagField -> Nat], NEW fields
  PROVE  Bump(fields) \in [DiagField -> Nat]
BY DEF Bump

(* Calling a method on all trackers keeps the type of the call counts.     *)
LEMMA CallAllIsTyped ==
  ASSUME calls \in [Trackers -> [Method -> Nat]], NEW method \in Method
  PROVE  CallAll(method) \in [Trackers -> [Method -> Nat]]
BY DEF CallAll

(* Every step of run() keeps the types; the file index needs Progress.     *)
LEMMA NextTypeOK == TypeOK /\ Progress /\ [Next]_vars => TypeOK'
<1> SUFFICES ASSUME TypeOK, Progress, [Next]_vars PROVE TypeOK'
  OBVIOUS
<1> USE DEF TypeOK, config, iterator, locals, totals, tracking
<1>a. files \in Seq(Dates) /\ Len(files) \in Nat
  BY DiscoveriesAreSequences
<1>b. {"begin_day", "process_event", "end_of_day", "reset_day", "finalize"} = Method
  BY DEF Method
<1>c. ASSUME UNCHANGED iterator PROVE L!TypeOK'
  BY <1>c DEF L!TypeOK
<1>1. CASE Start
  BY <1>1, <1>c DEF Start, Phases
<1>2. CASE NoFiles
  BY <1>2, <1>c DEF NoFiles, ReturnErr, Phases
<1>3. CASE RejectDay
  BY <1>3, <1>c DEF RejectDay, ReturnErr, Phases
<1>4. CASE BeginDay
  BY <1>4, <1>c, <1>b, CallAllIsTyped DEF BeginDay, Phases
<1>5. CASE OpenFails
  BY <1>5, <1>c DEF OpenFails, ReturnErr, Phases
<1>6. CASE OpenFile
  <2>1. L!TypeOK'
    BY <1>6, ProfilerAssumption DEF OpenFile, L!TypeOK, L!FreshDecoder, L!FreshRecords,
       L!NothingLogged
  <2> QED
    BY <1>6, <2>1 DEF OpenFile, Phases
<1>7. CASE SkipRecord
  <2>1. L!TypeOK'
    BY <1>7, LoaderStepTypeOK DEF SkipRecord, L!Next
  <2> QED
    BY <1>7, <2>1 DEF SkipRecord
<1>8. CASE HandleRecord
  <2>1. PICK m \in Message :
          \/ L!YieldCmbp1 /\ Handle(from_cmbp1(m))
          \/ L!YieldCbbo /\ Handle(from_cbbo(m))
    BY <1>8 DEF HandleRecord
  <2>2. L!TypeOK'
    BY <2>1, LoaderStepTypeOK DEF L!Next
  <2>3. PICK record \in {from_cmbp1(m), from_cbbo(m)} : Handle(record)
    BY <2>1
  <2>4. UNCHANGED <<config, phase, file_index, total_events, total_decode_errors,
                    day_index, os_daily_opvol>>
    BY <1>8 DEF HandleRecord
  <2>5. CASE UnknownInstrument(record)
    BY <2>2, <2>4, <2>5, BumpIsTyped DEF UnknownInstrument
  <2>6. ASSUME NEW fallback \in BOOLEAN, Dispatch(record, fallback) PROVE TypeOK'
    <3>1. opvol(record) \in Nat
      BY <2>3, OpvolIsNat
    <3> QED
      BY <2>2, <2>4, <2>6, <3>1, <1>b, BumpIsTyped, CallAllIsTyped DEF Dispatch
  <2> QED
    BY <2>3, <2>5, <2>6 DEF Handle
<1>9. CASE EndOfFile
  <2>1. L!TypeOK'
    BY <1>9, LoaderStepTypeOK DEF EndOfFile, L!Next
  <2> QED
    BY <1>9, <2>1 DEF EndOfFile, Phases
<1>10. CASE CloseDay
  <2>1. L!TypeOK'
    BY <1>10, ProfilerAssumption DEF CloseDay, L!TypeOK, L!FreshDecoder, L!FreshRecords,
       L!NothingLogged
  <2>2. trading_date \in Dates
    BY <1>10, ProfilerAssumption DEF CloseDay, Progress
  <2>3. /\ records["decode_errors"] \in Nat
        /\ \A f \in DiagField : harvested(f) \in Nat
    BY DEF L!TypeOK, L!LoaderCounter, harvested
  <2>4. diag' \in [DiagField -> Nat] /\ total_decode_errors' \in Nat
    BY <1>10, <2>3 DEF CloseDay, os_push, os_entry
  <2>5. os_daily_opvol' \in Seq([date : Dates, opvol : Nat])
    <3> DEFINE entry == [date |-> trading_date, opvol |-> day_opvol_os]
    <3>1. entry \in [date : Dates, opvol : Nat]
      BY <2>2
    <3>2. Append(os_daily_opvol, entry) \in Seq([date : Dates, opvol : Nat])
      BY <3>1
    <3>3. os_daily_opvol' \in {Append(os_daily_opvol, entry), os_daily_opvol}
      BY <1>10 DEF CloseDay, os_push, os_entry
    <3> QED
      BY <3>2, <3>3
  <2> QED
    BY <1>10, <1>b, <2>1, <2>4, <2>5, EmptyContractMap, CallAllIsTyped
    DEF CloseDay, Phases
<1>11. CASE ResetDay
  <2>1. file_index' \in 1..(Len(files) + 1)
    BY <1>11, <1>a DEF ResetDay, Progress
  <2> QED
    BY <1>11, <1>b, <1>c, <2>1, CallAllIsTyped DEF ResetDay, Phases
<1>12. CASE Finish
  BY <1>12, <1>c, <1>b, CallAllIsTyped DEF Finish, Phases
<1>13. CASE Returned
  BY <1>13, <1>c DEF Returned, vars
<1>14. CASE UNCHANGED vars
  BY <1>14, <1>c DEF vars
<1> QED
  BY <1>1, <1>2, <1>3, <1>4, <1>5, <1>6, <1>7, <1>8, <1>9, <1>10, <1>11, <1>12,
     <1>13, <1>14 DEF Next

-----------------------------------------------------------------------------
(* Before run() starts no day is behind it.                                *)
LEMMA InitProgress == Init => Progress
BY DEF Init, Progress, L!Init

(* No step lets run() lose its place among the files.                      *)
LEMMA NextProgress == TypeOK /\ Progress /\ [Next]_vars => Progress'
<1> SUFFICES ASSUME TypeOK, Progress, [Next]_vars PROVE Progress'
  OBVIOUS
<1> USE DEF Progress, trading_date, config, iterator, locals, totals, tracking
<1>a. /\ Len(files) \in Nat
      /\ file_index \in 1..(Len(files) + 1)
      /\ day_index \in Nat
  BY DiscoveriesAreSequences DEF TypeOK
<1>1. CASE Start
  BY <1>1 DEF Start
<1>2. CASE NoFiles
  BY <1>2 DEF NoFiles, ReturnErr
<1>3. CASE RejectDay
  BY <1>3 DEF RejectDay, ReturnErr
<1>4. CASE BeginDay
  BY <1>4 DEF BeginDay
<1>5. CASE OpenFails
  BY <1>5 DEF OpenFails, ReturnErr
<1>6. CASE OpenFile
  BY <1>6 DEF OpenFile
<1>7. CASE SkipRecord
  BY <1>7 DEF SkipRecord
<1>8. CASE HandleRecord
  BY <1>8 DEF HandleRecord
<1>9. CASE EndOfFile
  BY <1>9 DEF EndOfFile
<1>10. CASE CloseDay
  BY <1>10, <1>a DEF CloseDay
<1>11. CASE ResetDay
  BY <1>11, <1>a DEF ResetDay
<1>12. CASE Finish
  BY <1>12, <1>a DEF Finish
<1>13. CASE Returned
  BY <1>13 DEF Returned, vars
<1>14. CASE UNCHANGED vars
  BY <1>14 DEF vars
<1> QED
  BY <1>1, <1>2, <1>3, <1>4, <1>5, <1>6, <1>7, <1>8, <1>9, <1>10, <1>11, <1>12,
     <1>13, <1>14 DEF Next

(* Every state run() reaches is one of its declared types, and the days    *)
(* behind it are the files before the current one, each with a price.      *)
THEOREM TypeCorrect == Spec => [](TypeOK /\ Progress)
<1>1. Init => TypeOK /\ Progress
  BY InitTypeOK, InitProgress
<1>2. TypeOK /\ Progress /\ [Next]_vars => (TypeOK /\ Progress)'
  BY NextTypeOK, NextProgress
<1> QED
  BY <1>1, <1>2, PTL DEF Spec

(* An Ok result covers every discovered file, whatever the files are.      *)
THEOREM OkIsComplete == Spec => []OkCoversEveryFile
<1>1. TypeOK /\ Progress => OkCoversEveryFile
  BY DiscoveriesAreSequences DEF TypeOK, Progress, OkCoversEveryFile
<1> QED
  BY <1>1, TypeCorrect, PTL

-----------------------------------------------------------------------------
(* The counting laws together: none of them is inductive without the types *)
(* of the counters.                                                        *)
Counted == NothingDroppedSilently /\ Conservation /\ Observability

(* All counters start at zero, so the counting laws hold.                  *)
LEMMA InitCounted == Init => Counted
BY DEF Init, L!Init, Counted, NothingDroppedSilently, Conservation, Observability,
   DiagField, ActionCounter, Flag, L!LoaderCounter, L!Outcome, L!FreshRecords

(* What one record does to the diagnostics when its instrument is unknown. *)
LEMMA UnknownInstrumentCounts ==
  ASSUME TypeOK, NEW record, UnknownInstrument(record)
  PROVE  /\ diag'["total_decoded"] = diag["total_decoded"] + 1
         /\ diag'["unknown_instrument"] = diag["unknown_instrument"] + 1
         /\ \A f \in DiagField \ {"total_decoded", "unknown_instrument"} :
              diag'[f] = diag[f]
BY DEF TypeOK, UnknownInstrument, Bump, DiagField

(* What one record does to the diagnostics when it is dispatched.          *)
LEMMA DispatchCounts ==
  ASSUME TypeOK, NEW m \in Message, NEW record \in {from_cmbp1(m), from_cbbo(m)},
         NEW fallback \in BOOLEAN, Dispatch(record, fallback)
  PROVE  /\ action_counter(record) \in ActionCounter
         /\ \A f \in {"total_decoded", "dispatched", action_counter(record)} :
              diag'[f] = diag[f] + 1
         /\ \A f \in Flag \cup {"moneyness_fallback"} : diag'[f] \in {diag[f], diag[f] + 1}
         /\ ~fallback => diag'["moneyness_fallback"] = diag["moneyness_fallback"]
         /\ \A f \in L!LoaderCounter \cup {"unknown_instrument"}
                     \cup (ActionCounter \ {action_counter(record)}) : diag'[f] = diag[f]
<1>1. action_counter(record) \in ActionCounter
  BY DEF action_counter, ActionCounter
<1>2. record.flags \subseteq Flag
  BY ProfilerAssumption DEF Message, from_cmbp1, from_cbbo
<1>3. diag' = Bump({"total_decoded", "dispatched", action_counter(record)}
                     \cup record.flags
                     \cup (IF fallback THEN {"moneyness_fallback"} ELSE {}))
  BY DEF Dispatch
<1> DEFINE up == {"total_decoded", "dispatched", action_counter(record)}
                   \cup record.flags
                   \cup (IF fallback THEN {"moneyness_fallback"} ELSE {})
<1>4. \A f \in DiagField : diag'[f] = diag[f] + (IF f \in up THEN 1 ELSE 0)
  BY <1>3 DEF Bump
<1>5. \A f \in DiagField : diag[f] \in Nat
  BY DEF TypeOK
<1>6. \A f \in {"total_decoded", "dispatched", action_counter(record)} :
        f \in up /\ f \in DiagField
  BY <1>1 DEF DiagField
<1>7. \A f \in Flag \cup {"moneyness_fallback"} : f \in DiagField
  BY DEF DiagField
<1>8. ~fallback => "moneyness_fallback" \notin up
  BY <1>1, <1>2 DEF ActionCounter, Flag
<1>9. \A f \in L!LoaderCounter \cup {"unknown_instrument"}
                \cup (ActionCounter \ {action_counter(record)}) :
        f \notin up /\ f \in DiagField
  BY <1>1, <1>2 DEF DiagField, L!LoaderCounter, ActionCounter, Flag
<1> HIDE DEF up
<1> QED
  BY <1>1, <1>4, <1>5, <1>6, <1>7, <1>8, <1>9

(* Every step counts what it takes, and takes what it counts.              *)
LEMMA NextCounted == TypeOK /\ Progress /\ Counted /\ [Next]_vars => Counted'
<1> SUFFICES ASSUME TypeOK, Progress, Counted, [Next]_vars PROVE Counted'
  OBVIOUS
<1> USE DEF Counted, NothingDroppedSilently, Conservation, Observability, config,
            iterator, locals, totals, tracking
<1>a. /\ diag \in [DiagField -> Nat] /\ total_events \in Nat /\ day_events \in Nat
      /\ total_decode_errors \in Nat
      /\ records \in [L!LoaderCounter \cup {"count"} -> Nat]
      /\ tape \in [L!Outcome -> Nat]
  BY DEF TypeOK, L!TypeOK
<1>1. CASE Start
  BY <1>1 DEF Start
<1>2. CASE NoFiles \/ RejectDay \/ OpenFails
  BY <1>2 DEF NoFiles, RejectDay, OpenFails, ReturnErr
<1>3. CASE BeginDay
  BY <1>3 DEF BeginDay
<1>4. CASE OpenFile
  BY <1>4 DEF OpenFile, Progress
<1>5. CASE SkipRecord
  <2>1. UNCHANGED <<prices, diag, total_events, day_events, total_decode_errors>>
    BY <1>5 DEF SkipRecord
  <2>2. CASE L!SkipUndecodable
    <3>1. /\ tape'["error"] + tape'["short"] = tape["error"] + tape["short"] + 1
          /\ \A o \in {"cmbp1", "cbbo", "unsupported"} : tape'[o] = tape[o]
          /\ records'["decode_errors"] = records["decode_errors"] + 1
          /\ \A c \in L!LoaderCounter \ {"decode_errors"} : records'[c] = records[c]
      BY <2>2, <1>a DEF L!SkipUndecodable, L!HandsOut, L!LoaderCounter, L!Outcome
    <3> QED
      BY <2>1, <3>1, <1>a DEF L!LoaderCounter, L!Outcome, DiagField
  <2>3. CASE L!SkipUnsupported
    <3>1. /\ tape'["unsupported"] = tape["unsupported"] + 1
          /\ \A o \in L!Outcome \ {"unsupported"} : tape'[o] = tape[o]
          /\ records'["unsupported_rtype"] = records["unsupported_rtype"] + 1
          /\ \A c \in L!LoaderCounter \ {"unsupported_rtype"} : records'[c] = records[c]
      BY <2>3, <1>a DEF L!SkipUnsupported, L!HandsOut, L!LoaderCounter, L!Outcome
    <3> QED
      BY <2>1, <3>1, <1>a DEF L!LoaderCounter, L!Outcome, DiagField
  <2> QED
    BY <1>5, <2>2, <2>3 DEF SkipRecord
<1>6. CASE HandleRecord
  <2>1. PICK m \in Message :
          \/ L!YieldCmbp1 /\ Handle(from_cmbp1(m))
          \/ L!YieldCbbo /\ Handle(from_cbbo(m))
    BY <1>6 DEF HandleRecord
  <2>2. PICK record \in {from_cmbp1(m), from_cbbo(m)} : Handle(record)
    BY <2>1
  <2>3. UNCHANGED <<prices, total_events, total_decode_errors>>
    BY <1>6 DEF HandleRecord
  <2>4. /\ tape'["cmbp1"] + tape'["cbbo"] = tape["cmbp1"] + tape["cbbo"] + 1
        /\ tape'["cbbo"] - records'["cbbo_action_unavailable"]
             = tape["cbbo"] - records["cbbo_action_unavailable"]
        /\ \A o \in {"error", "short", "unsupported"} : tape'[o] = tape[o]
        /\ \A c \in {"decode_errors", "unsupported_rtype"} : records'[c] = records[c]
        /\ records' \in [L!LoaderCounter \cup {"count"} -> Nat]
        /\ tape' \in [L!Outcome -> Nat]
    BY <2>1, <1>a DEF L!YieldCmbp1, L!YieldCbbo, L!HandsOut, L!LoaderCounter, L!Outcome
  <2>5. CASE UnknownInstrument(record)
    <3>1. UNCHANGED day_events
      BY <2>5 DEF UnknownInstrument
    <3> QED
      BY <2>3, <2>4, <2>5, <3>1, <1>a, UnknownInstrumentCounts
      DEF DiagField, L!LoaderCounter, L!Outcome, ActionCounter, Flag
  <2>6. ASSUME NEW fallback \in BOOLEAN, Dispatch(record, fallback) PROVE Counted'
    <3>1. day_events' = day_events + 1 /\ (fallback => ~prices[trading_date])
      BY <2>6 DEF Dispatch
    <3>2. trading_date \in DOMAIN prices
      BY <1>6 DEF HandleRecord, Progress
    <3>3. NothingDroppedSilently' /\ Conservation'
      BY <2>2, <2>3, <2>4, <2>6, <3>1, <1>a, DispatchCounts
      DEF DiagField, L!LoaderCounter, L!Outcome
    <3>4. Observability'
      BY <2>2, <2>3, <2>6, <3>1, <3>2, <1>a, DispatchCounts
      DEF DiagField, ActionCounter, Flag
    <3> QED
      BY <3>3, <3>4
  <2> QED
    BY <2>2, <2>5, <2>6 DEF Handle
<1>7. CASE EndOfFile
  BY <1>7 DEF EndOfFile, L!Eof
<1>8. CASE CloseDay
  <2>1. \A f \in DiagField \ L!LoaderCounter : diag'[f] = diag[f]
    BY <1>8, <1>a DEF CloseDay, harvested
  <2>2. \A f \in L!LoaderCounter : diag'[f] = diag[f] + records[f] /\ records'[f] = 0
    BY <1>8 DEF CloseDay, harvested, L!FreshRecords, DiagField
  <2>3. /\ UNCHANGED <<prices, tape>>
        /\ total_events' + day_events' = total_events + day_events
        /\ total_decode_errors' = total_decode_errors + records["decode_errors"]
    BY <1>8, <1>a DEF CloseDay
  <2>4. NothingDroppedSilently'
    BY <2>1, <2>2, <2>3, <1>a DEF DiagField, L!LoaderCounter, L!Outcome
  <2>5. Conservation' /\ Observability'
    BY <2>1, <2>3, <1>a DEF DiagField, L!LoaderCounter, ActionCounter, Flag
  <2> QED
    BY <2>4, <2>5
<1>9. CASE ResetDay \/ Finish \/ Returned \/ UNCHANGED vars
  BY <1>9 DEF ResetDay, Finish, Returned, vars
<1> QED
  BY <1>1, <1>2, <1>3, <1>4, <1>5, <1>6, <1>7, <1>8, <1>9 DEF Next

(* The conservation law of diagnostics.rs and the two debug_assert!s of    *)
(* run() hold at every step, nothing the decoder handed out is dropped     *)
(* silently, and the observations agree with what was dispatched.          *)
THEOREM CountingLaws == Spec => [](NothingDroppedSilently /\ Conservation /\ Observability)
<1>1. Init => Counted
  BY InitCounted
<1>2. TypeOK /\ Progress /\ Counted /\ [Next]_vars => Counted'
  BY NextCounted
<1> QED
  BY <1>1, <1>2, TypeCorrect, PTL DEF Spec, Counted

(* Every record handed out is filtered, quarantined or dispatched: the     *)
(* law diagnostics.rs states, at every step of every run.                  *)
THEOREM RecordsConserved == Spec => []Conservation
BY CountingLaws, PTL

(* Each observation of diagnostics.rs is of a dispatched record, so none   *)
(* of its counters runs ahead of the records behind it.                    *)
THEOREM ObservationsAgree == Spec => []Observability
BY CountingLaws, PTL

-----------------------------------------------------------------------------
(* A record of CBBO is neither a trade nor part of the O/S numerator,      *)
(* whatever the bytes of the message are.                                  *)
LEMMA CbboIsNoTrade ==
  ASSUME NEW m \in Message
  PROVE  action_counter(from_cbbo(m)) = "action_other" /\ opvol(from_cbbo(m)) = 0
<1>1. from_cbbo(m).action = "unavailable"
  BY DEF Message, from_cbbo
<1> QED
  BY <1>1 DEF action_counter, opvol, trade_size

(* Before the first record there is no trade.                              *)
LEMMA InitCbboNeverTrades == Init => CbboNeverTrades
BY DEF Init, L!Init, CbboNeverTrades, DiagField, ActionCounter, L!Outcome

(* Nothing but a CMBP-1 record makes a trade, and no CBBO record escapes   *)
(* the two counters it can land in.                                        *)
LEMMA NextCbboNeverTrades ==
  TypeOK /\ Progress /\ CbboNeverTrades /\ [Next]_vars => CbboNeverTrades'
<1> SUFFICES ASSUME TypeOK, Progress, CbboNeverTrades, [Next]_vars
             PROVE  CbboNeverTrades'
  OBVIOUS
<1> USE DEF CbboNeverTrades, config, iterator, locals, totals, tracking
<1>a. /\ diag \in [DiagField -> Nat] /\ tape \in [L!Outcome -> Nat]
      /\ day_opvol_os \in Nat /\ os_daily_opvol \in Seq([date : Dates, opvol : Nat])
  BY DEF TypeOK, L!TypeOK
<1>b. {"action_trade", "action_other", "unknown_instrument"} \subseteq DiagField
  BY DEF DiagField, ActionCounter
<1>1. CASE Start \/ NoFiles \/ RejectDay \/ BeginDay \/ OpenFails
  BY <1>1 DEF Start, NoFiles, RejectDay, BeginDay, OpenFails, ReturnErr
<1>2. CASE OpenFile
  BY <1>2 DEF OpenFile
<1>3. CASE SkipRecord
  <2>1. tape'["cmbp1"] = tape["cmbp1"] /\ tape'["cbbo"] = tape["cbbo"]
    BY <1>3, <1>a DEF SkipRecord, L!SkipUndecodable, L!SkipUnsupported, L!HandsOut,
       L!Outcome
  <2>2. UNCHANGED <<diag, day_opvol_os, os_daily_opvol>>
    BY <1>3 DEF SkipRecord
  <2> QED
    BY <2>1, <2>2
<1>4. CASE HandleRecord
  <2>1. PICK m \in Message :
          \/ L!YieldCmbp1 /\ Handle(from_cmbp1(m))
          \/ L!YieldCbbo /\ Handle(from_cbbo(m))
    BY <1>4 DEF HandleRecord
  <2>2. UNCHANGED os_daily_opvol
    BY <1>4 DEF HandleRecord
  <2>3. CASE L!YieldCmbp1 /\ Handle(from_cmbp1(m))
    <3>1. tape'["cmbp1"] = tape["cmbp1"] + 1 /\ tape'["cbbo"] = tape["cbbo"]
      BY <2>3, <1>a DEF L!YieldCmbp1, L!HandsOut, L!Outcome
    <3>2. CASE UnknownInstrument(from_cmbp1(m))
      BY <3>1, <3>2, <1>a, <1>b, UnknownInstrumentCounts DEF L!Outcome, ActionCounter, DiagField
    <3>3. ASSUME NEW fallback \in BOOLEAN, Dispatch(from_cmbp1(m), fallback)
          PROVE  CbboNeverTrades'
      <4>1. /\ diag'["unknown_instrument"] = diag["unknown_instrument"]
            /\ diag'["action_other"] \in {diag["action_other"], diag["action_other"] + 1}
        BY <3>3, DispatchCounts DEF ActionCounter
      <4> QED
        BY <3>1, <4>1, <1>a, <1>b DEF L!Outcome
    <3> QED
      BY <2>3, <3>2, <3>3 DEF Handle
  <2>4. CASE L!YieldCbbo /\ Handle(from_cbbo(m))
    <3>1. tape'["cbbo"] = tape["cbbo"] + 1 /\ tape'["cmbp1"] = tape["cmbp1"]
      BY <2>4, <1>a DEF L!YieldCbbo, L!HandsOut, L!Outcome
    <3>2. CASE UnknownInstrument(from_cbbo(m))
      <4>1. UNCHANGED day_opvol_os
        BY <3>2 DEF UnknownInstrument, locals
      <4>2. /\ diag'["unknown_instrument"] = diag["unknown_instrument"] + 1
            /\ diag'["action_other"] = diag["action_other"]
            /\ diag'["action_trade"] = diag["action_trade"]
        BY <3>2, <1>b, UnknownInstrumentCounts
      <4> QED
        BY <2>2, <3>1, <4>1, <4>2, <1>a, <1>b DEF L!Outcome
    <3>3. ASSUME NEW fallback \in BOOLEAN, Dispatch(from_cbbo(m), fallback)
          PROVE  CbboNeverTrades'
      <4>1. /\ diag'["unknown_instrument"] = diag["unknown_instrument"]
            /\ diag'["action_other"] = diag["action_other"] + 1
            /\ diag'["action_trade"] = diag["action_trade"]
        BY <3>3, DispatchCounts, CbboIsNoTrade DEF ActionCounter
      <4>2. day_opvol_os' = day_opvol_os
        BY <3>3, <1>a, CbboIsNoTrade DEF Dispatch
      <4> QED
        BY <2>2, <3>1, <4>1, <4>2, <1>a, <1>b DEF L!Outcome
    <3> QED
      BY <2>4, <3>2, <3>3 DEF Handle
  <2> QED
    BY <2>1, <2>3, <2>4
<1>5. CASE EndOfFile
  BY <1>5 DEF EndOfFile, L!Eof
<1>6. CASE CloseDay
  <2>1. \A f \in {"action_trade", "action_other", "unknown_instrument"} : diag'[f] = diag[f]
    BY <1>6, <1>a, <1>b DEF CloseDay, harvested, L!LoaderCounter
  <2>2. UNCHANGED tape /\ day_opvol_os' = 0
    BY <1>6 DEF CloseDay
  <2>3. ASSUME day_opvol_os = 0, \A k \in 1..Len(os_daily_opvol) : os_daily_opvol[k].opvol = 0
        PROVE  \A k \in 1..Len(os_daily_opvol') : os_daily_opvol'[k].opvol = 0
    <3> DEFINE entry == [date |-> trading_date, opvol |-> day_opvol_os]
    <3>1. os_daily_opvol' \in {Append(os_daily_opvol, entry), os_daily_opvol}
      BY <1>6 DEF CloseDay, os_push, os_entry
    <3>2. entry.opvol = 0
      BY <2>3
    <3> HIDE DEF entry
    <3>3. CASE os_daily_opvol' = Append(os_daily_opvol, entry)
      <4>1. /\ Len(os_daily_opvol') = Len(os_daily_opvol) + 1
            /\ os_daily_opvol'[Len(os_daily_opvol) + 1] = entry
            /\ \A k \in 1..Len(os_daily_opvol) : os_daily_opvol'[k] = os_daily_opvol[k]
        BY <3>3, <1>a
      <4>2. Len(os_daily_opvol) \in Nat
        BY <1>a
      <4> QED
        BY <2>3, <3>2, <4>1, <4>2
    <3> QED
      BY <2>3, <3>1, <3>3
  <2> QED
    BY <2>1, <2>2, <2>3
<1>7. CASE ResetDay \/ Finish \/ Returned \/ UNCHANGED vars
  BY <1>7 DEF ResetDay, Finish, Returned, vars
<1> QED
  BY <1>1, <1>2, <1>3, <1>4, <1>5, <1>6, <1>7 DEF Next

(* A run over CBBO files alone reports no trade and no O/S volume, however *)
(* many there are and whatever the reserved bytes of the schema hold.      *)
THEOREM NoTradeFromCbbo == Spec => []CbboNeverTrades
<1>1. Init => CbboNeverTrades
  BY InitCbboNeverTrades
<1>2. TypeOK /\ Progress /\ CbboNeverTrades /\ [Next]_vars => CbboNeverTrades'
  BY NextCbboNeverTrades
<1> QED
  BY <1>1, <1>2, TypeCorrect, PTL DEF Spec

-----------------------------------------------------------------------------
(* One call to a method of every tracker.                                  *)
LEMMA CallAllCounts ==
  ASSUME TypeOK, NEW method \in Method, NEW t \in Trackers
  PROVE  /\ CallAll(method)[t][method] = calls[t][method] + 1
         /\ \A m \in Method \ {method} : CallAll(method)[t][m] = calls[t][m]
BY DEF TypeOK, CallAll

(* The trackers start with no call made.                                   *)
LEMMA InitTrackersAgree == Init => TrackersAgree
BY DEF Init, TrackersAgree, TrackerAgrees, DiagField, Method

(* Every step treats all trackers alike, in step with the counters.        *)
LEMMA NextTrackersAgree ==
  TypeOK /\ Progress /\ TrackersAgree /\ [Next]_vars => TrackersAgree'
<1> SUFFICES ASSUME TypeOK, Progress, TrackersAgree, [Next]_vars,
                    NEW t \in Trackers
             PROVE  TrackerAgrees(t)'
  BY DEF TrackersAgree
<1> USE DEF TrackersAgree, TrackerAgrees, config, iterator, locals, totals, tracking, Method
<1>a. /\ day_index \in Nat /\ day_events \in Nat
      /\ pending \in [Trackers -> Nat]
      /\ \A m \in Method : calls[t][m] \in Nat
      /\ diag["dispatched"] \in Nat
  BY DEF TypeOK, DiagField
<1>1. CASE Start
  BY <1>1, <1>a DEF Start
<1>2. CASE NoFiles \/ RejectDay \/ OpenFails
  BY <1>2, <1>a DEF NoFiles, RejectDay, OpenFails, ReturnErr
<1>3. CASE BeginDay
  <2>1. /\ calls'[t]["begin_day"] = calls[t]["begin_day"] + 1
        /\ \A n \in Method \ {"begin_day"} : calls'[t][n] = calls[t][n]
    BY <1>3, CallAllCounts DEF BeginDay
  <2> QED
    BY <1>3, <1>a, <2>1 DEF BeginDay
<1>4. CASE OpenFile
  BY <1>4, <1>a DEF OpenFile, Progress
<1>5. CASE SkipRecord
  BY <1>5, <1>a DEF SkipRecord
<1>6. CASE HandleRecord
  <2>1. PICK m \in Message : \E record \in {from_cmbp1(m), from_cbbo(m)} : Handle(record)
    BY <1>6 DEF HandleRecord
  <2>2. PICK record \in {from_cmbp1(m), from_cbbo(m)} : Handle(record)
    BY <2>1
  <2>3. UNCHANGED <<phase, day_index>> /\ phase = "read"
    BY <1>6 DEF HandleRecord
  <2>4. CASE UnknownInstrument(record)
    BY <2>3, <2>4, <1>a, UnknownInstrumentCounts DEF UnknownInstrument, DiagField
  <2>5. ASSUME NEW fallback \in BOOLEAN, Dispatch(record, fallback)
        PROVE  TrackerAgrees(t)'
    <3>1. diag'["dispatched"] = diag["dispatched"] + 1
      BY <2>2, <2>5, DispatchCounts
    <3>2. pending'[t] = pending[t] + 1 /\ day_events' = day_events + 1
      BY <2>5 DEF Dispatch
    <3>3. /\ calls'[t]["process_event"] = calls[t]["process_event"] + 1
          /\ \A n \in Method \ {"process_event"} : calls'[t][n] = calls[t][n]
      BY <2>5, CallAllCounts DEF Dispatch
    <3> QED
      BY <2>3, <3>1, <3>2, <3>3, <1>a
  <2> QED
    BY <2>2, <2>4, <2>5 DEF Handle
<1>7. CASE EndOfFile
  BY <1>7, <1>a DEF EndOfFile
<1>8. CASE CloseDay
  <2>1. diag'["dispatched"] = diag["dispatched"]
    BY <1>8, <1>a DEF CloseDay, harvested, L!LoaderCounter, DiagField
  <2>2. /\ calls'[t]["end_of_day"] = calls[t]["end_of_day"] + 1
        /\ \A n \in Method \ {"end_of_day"} : calls'[t][n] = calls[t][n]
    BY <1>8, CallAllCounts DEF CloseDay
  <2> QED
    <3>1. /\ calls[t]["begin_day"] = day_index + 1
          /\ calls[t]["reset_day"] = day_index
          /\ calls[t]["finalize"] = 0
      BY <1>8, <1>a DEF CloseDay
    <3>2. phase' = "closing" /\ day_index' = day_index + 1
      BY <1>8 DEF CloseDay
    <3> QED
      BY <1>a, <2>1, <2>2, <3>1, <3>2
<1>9. CASE ResetDay
  <2>1. /\ calls'[t]["reset_day"] = calls[t]["reset_day"] + 1
        /\ \A n \in Method \ {"reset_day"} : calls'[t][n] = calls[t][n]
    BY <1>9, CallAllCounts DEF ResetDay
  <2> QED
    <3>1. /\ calls[t]["begin_day"] = day_index
          /\ calls[t]["reset_day"] = day_index - 1
          /\ calls[t]["finalize"] = 0
          /\ day_events = 0
      BY <1>9, <1>a DEF ResetDay, Progress
    <3>2. /\ phase' = "days"
          /\ pending'[t] = 0
          /\ UNCHANGED <<day_index, day_events, diag>>
      BY <1>9 DEF ResetDay
    <3> QED
      BY <1>a, <2>1, <3>1, <3>2
<1>10. CASE Finish
  <2>1. /\ calls'[t]["finalize"] = calls[t]["finalize"] + 1
        /\ \A n \in Method \ {"finalize"} : calls'[t][n] = calls[t][n]
    BY <1>10, CallAllCounts DEF Finish
  <2> QED
    <3>1. /\ calls[t]["begin_day"] = day_index
          /\ calls[t]["reset_day"] = day_index
          /\ calls[t]["finalize"] = 0
      BY <1>10, <1>a DEF Finish
    <3>2. /\ phase' = "done"
          /\ UNCHANGED <<day_index, day_events, pending, diag>>
      BY <1>10 DEF Finish
    <3> QED
      BY <1>a, <2>1, <3>1, <3>2
<1>11. CASE Returned \/ UNCHANGED vars
  BY <1>11, <1>a DEF Returned, vars
<1> QED
  BY <1>1, <1>2, <1>3, <1>4, <1>5, <1>6, <1>7, <1>8, <1>9, <1>10, <1>11 DEF Next

(* All trackers are in step with run() and with each other.                *)
THEOREM TrackersInStep == Spec => []TrackersAgree
<1>1. Init => TrackersAgree
  BY InitTrackersAgree
<1>2. TypeOK /\ Progress /\ TrackersAgree /\ [Next]_vars => TrackersAgree'
  BY NextTrackersAgree
<1> QED
  BY <1>1, <1>2, TypeCorrect, PTL DEF Spec

(* However run() returns, no tracker is left holding part of a day.        *)
THEOREM NoPartialDay == Spec => []OnlyWholeDays
<1>1. TypeOK /\ Progress /\ TrackersAgree => OnlyWholeDays
  BY DEF Progress, TrackersAgree, TrackerAgrees, OnlyWholeDays
<1> QED
  BY <1>1, TypeCorrect, TrackersInStep, PTL

-----------------------------------------------------------------------------
(* A fresh tracker is where the lifecycle of OptionsTracker starts.        *)
LEMMA InitLifecycle == Init => \A t \in Trackers : Lifecycle(t)!Init
BY DEF Init, Lifecycle!Init, stage_of, Method

(* The stage of a tracker follows from the phase run() is in.              *)
StageFollowsPhase ==
  \A t \in Trackers :
    /\ phase = "done" => stage_of(t) = "finalized"
    /\ phase \in {"open", "read", "harvest"} => stage_of(t) = "in_day"
    /\ phase = "closing" => stage_of(t) = "closed"
    /\ phase \in {"start", "days"} => stage_of(t) = "idle"

(* The stage read off the calls is the one the phase of run() stands for.  *)
LEMMA Stages == TypeOK /\ TrackersAgree => StageFollowsPhase
<1> SUFFICES ASSUME TypeOK, TrackersAgree, NEW t \in Trackers
             PROVE  /\ phase = "done" => stage_of(t) = "finalized"
                    /\ phase \in {"open", "read", "harvest"} => stage_of(t) = "in_day"
                    /\ phase = "closing" => stage_of(t) = "closed"
                    /\ phase \in {"start", "days"} => stage_of(t) = "idle"
  BY DEF StageFollowsPhase
<1> DEFINE n == calls[t]
<1>1. /\ n["begin_day"] \in Nat /\ n["end_of_day"] \in Nat
      /\ n["reset_day"] \in Nat /\ n["finalize"] \in Nat /\ day_index \in Nat
  BY DEF TypeOK, Method
<1>2. /\ n["end_of_day"] = day_index
      /\ n["reset_day"] = IF phase = "closing" THEN day_index - 1 ELSE day_index
      /\ n["begin_day"] - day_index \in
           CASE phase \in {"open", "read", "harvest"} -> {1}
             [] phase = "failed" -> {0, 1}
             [] OTHER -> {0}
      /\ n["finalize"] = IF phase = "done" THEN 1 ELSE 0
  BY DEF TrackersAgree, TrackerAgrees
<1>3. stage_of(t) =
        IF n["finalize"] > 0 THEN "finalized"
        ELSE IF n["begin_day"] > n["end_of_day"] THEN "in_day"
        ELSE IF n["end_of_day"] > n["reset_day"] THEN "closed"
        ELSE "idle"
  BY DEF stage_of
<1> HIDE DEF n
<1>4. CASE phase = "done"
  BY <1>1, <1>2, <1>3, <1>4
<1>5. CASE phase \in {"open", "read", "harvest"}
  BY <1>1, <1>2, <1>3, <1>5
<1>6. CASE phase = "closing"
  BY <1>1, <1>2, <1>3, <1>6
<1>7. CASE phase \in {"start", "days"}
  BY <1>1, <1>2, <1>3, <1>7
<1> QED
  BY <1>4, <1>5, <1>6, <1>7

(* A step of run() is the next call of the trait on every tracker, or none.*)
LEMMA NextLifecycle ==
  ASSUME TypeOK, Progress, TrackersAgree, TypeOK', TrackersAgree', [Next]_vars,
         NEW t \in Trackers
  PROVE  [Lifecycle(t)!Next]_(Lifecycle(t)!vars)
<1> USE DEF config, iterator, locals, totals, tracking, Method, Lifecycle!vars,
            Lifecycle!Next
<1>a. /\ pending \in [Trackers -> Nat]
      /\ calls \in [Trackers -> [Method -> Nat]]
  BY DEF TypeOK
<1>b. StageFollowsPhase /\ StageFollowsPhase'
  BY Stages, PTL
<1>c. ASSUME UNCHANGED tracking PROVE UNCHANGED Lifecycle(t)!vars
  BY <1>c DEF stage_of
<1>1. CASE \/ Start \/ NoFiles \/ RejectDay \/ OpenFails \/ OpenFile \/ SkipRecord
           \/ EndOfFile \/ Returned \/ UNCHANGED vars
  BY <1>1, <1>c DEF Start, NoFiles, RejectDay, OpenFails, ReturnErr, OpenFile,
     SkipRecord, EndOfFile, Returned, vars
<1>2. CASE BeginDay
  <2>1. /\ stage_of(t) = "idle" /\ stage_of(t)' = "in_day"
        /\ pending[t] = 0 /\ UNCHANGED pending
    BY <1>2, <1>b DEF StageFollowsPhase, BeginDay, TrackersAgree, TrackerAgrees, Progress
  <2>2. \A n \in Method \ {"begin_day"} : calls'[t][n] = calls[t][n]
    BY <1>2, CallAllCounts DEF BeginDay
  <2>3. Lifecycle(t)!BeginDay
    BY <2>1, <2>2 DEF Lifecycle!BeginDay
  <2> QED
    BY <2>3
<1>3. CASE HandleRecord
  <2>1. PICK m \in Message : \E record \in {from_cmbp1(m), from_cbbo(m)} : Handle(record)
    BY <1>3 DEF HandleRecord
  <2>2. PICK record \in {from_cmbp1(m), from_cbbo(m)} : Handle(record)
    BY <2>1
  <2>3. CASE UnknownInstrument(record)
    BY <2>3, <1>c DEF UnknownInstrument
  <2>4. ASSUME NEW fallback \in BOOLEAN, Dispatch(record, fallback)
        PROVE  Lifecycle(t)!ProcessEvent
    <3>1. /\ stage_of(t) = "in_day" /\ stage_of(t)' = "in_day"
          /\ pending'[t] = pending[t] + 1
      BY <1>3, <2>4, <1>b DEF StageFollowsPhase, HandleRecord, Dispatch
    <3>2. /\ calls'[t]["process_event"] = calls[t]["process_event"] + 1
          /\ \A n \in Method \ {"process_event"} : calls'[t][n] = calls[t][n]
      BY <2>4, CallAllCounts DEF Dispatch
    <3> QED
      BY <3>1, <3>2 DEF Lifecycle!ProcessEvent
  <2> QED
    BY <2>2, <2>3, <2>4 DEF Handle
<1>4. CASE CloseDay
  <2>1. /\ stage_of(t) = "in_day" /\ stage_of(t)' = "closed" /\ UNCHANGED pending
    BY <1>4, <1>b DEF StageFollowsPhase, CloseDay
  <2>2. /\ calls'[t]["end_of_day"] = calls[t]["end_of_day"] + 1
        /\ \A n \in Method \ {"end_of_day"} : calls'[t][n] = calls[t][n]
    BY <1>4, CallAllCounts DEF CloseDay
  <2>3. Lifecycle(t)!EndOfDay
    BY <2>1, <2>2 DEF Lifecycle!EndOfDay
  <2> QED
    BY <2>3
<1>5. CASE ResetDay
  <2>1. stage_of(t) = "closed" /\ stage_of(t)' = "idle" /\ pending'[t] = 0
    BY <1>5, <1>b DEF StageFollowsPhase, ResetDay
  <2>2. \A n \in Method \ {"reset_day"} : calls'[t][n] = calls[t][n]
    BY <1>5, CallAllCounts DEF ResetDay
  <2>3. Lifecycle(t)!ResetDay
    BY <2>1, <2>2 DEF Lifecycle!ResetDay
  <2> QED
    BY <2>3
<1>6. CASE Finish
  <2>1. stage_of(t) = "idle" /\ stage_of(t)' = "finalized" /\ UNCHANGED pending
    BY <1>6, <1>b DEF StageFollowsPhase, Finish
  <2>2. \A n \in Method \ {"finalize"} : calls'[t][n] = calls[t][n]
    BY <1>6, CallAllCounts DEF Finish
  <2>3. Lifecycle(t)!Finalize
    BY <2>1, <2>2 DEF Lifecycle!Finalize
  <2> QED
    BY <2>3
<1> QED
  BY <1>1, <1>2, <1>3, <1>4, <1>5, <1>6 DEF Next

(* run() implements the lifecycle of the trait towards every tracker.      *)
THEOREM LifecycleKept == Spec => TrackersSeeLifecycle
<1>1. Init => \A t \in Trackers : Lifecycle(t)!Init
  BY InitLifecycle
<1>2. ASSUME TypeOK, Progress, TrackersAgree, TypeOK', TrackersAgree', [Next]_vars
      PROVE  [\A t \in Trackers : [Lifecycle(t)!Next]_(Lifecycle(t)!vars)]_vars
  BY <1>2, NextLifecycle
<1> QED
  BY <1>1, <1>2, TypeCorrect, TrackersInStep, PTL DEF Spec, TrackersSeeLifecycle

-----------------------------------------------------------------------------
(* The O/S numerators                                                      *)

(* A set of numbers that is not empty has a least one: the form in which   *)
(* induction is used below.                                                *)
LEMMA LeastNumber ==
  ASSUME NEW I, I \subseteq Nat, I # {}
  PROVE  \E m \in I : \A i \in I : m <= i
<1> DEFINE R == OpToRel(<, Nat)
<1>1. PICK m \in I : \A i \in I : ~(<<i, m>> \in R)
  BY NatLessThanWellFounded, WFMin, Zenon
<1>2. \A i \in I : i \in Nat /\ m \in Nat /\ (i < m => <<i, m>> \in R)
  BY DEF OpToRel
<1> HIDE DEF R
<1>3. \A i \in I : i \in Nat /\ m \in Nat /\ ~(i < m)
  BY <1>1, <1>2, Zenon
<1> QED
  BY <1>3

(* g adds up the first n volumes of v, each time the one before.           *)
AddsUp(g, n, v) ==
  /\ g \in [0..n -> Nat]
  /\ g[0] = 0
  /\ \A k \in 1..n : g[k] = g[k - 1] + v[k]

(* There are sums of any number of volumes.                                *)
LEMMA SumsExist ==
  ASSUME NEW N \in Nat, NEW v, \A k \in 1..N : v[k] \in Nat
  PROVE  \E g : AddsUp(g, N, v)
<1> DEFINE Bad == {n \in 0..N : ~\E g : AddsUp(g, n, v)}
<1> SUFFICES ASSUME Bad # {} PROVE FALSE
  OBVIOUS
<1>1. PICK m \in Bad : \A i \in Bad : m <= i
  <2>1. Bad \subseteq Nat
    OBVIOUS
  <2> HIDE DEF Bad
  <2> QED
    BY <2>1, LeastNumber
<1>2. m \in 0..N /\ ~\E g : AddsUp(g, m, v)
  OBVIOUS
<1>3. m # 0
  <2> SUFFICES ASSUME m = 0 PROVE FALSE
    OBVIOUS
  <2>1. AddsUp([k \in 0..0 |-> 0], 0, v)
    BY DEF AddsUp
  <2> QED
    BY <1>2, <2>1
<1>4. m - 1 \in 0..N /\ m - 1 \notin Bad
  BY <1>1, <1>2, <1>3
<1>5. PICK g : AddsUp(g, m - 1, v)
  BY <1>4
<1> DEFINE h == [k \in 0..m |-> IF k = m THEN g[m - 1] + v[m] ELSE g[k]]
<1>6. AddsUp(h, m, v)
  <2>1. v[m] \in Nat /\ m \in 1..N
    BY <1>2, <1>3
  <2>2. h \in [0..m -> Nat] /\ h[0] = 0
    BY <1>2, <1>3, <1>5, <2>1 DEF AddsUp
  <2>3. ASSUME NEW k \in 1..m PROVE h[k] = h[k - 1] + v[k]
    <3>1. CASE k = m
      BY <1>2, <1>3, <3>1
    <3>2. CASE k # m
      <4>1. k \in 1..(m - 1) /\ k - 1 \in 0..m /\ k - 1 # m /\ k \in 0..m
        BY <1>2, <1>3, <3>2
      <4>2. h[k] = g[k] /\ h[k - 1] = g[k - 1]
        BY <3>2, <4>1
      <4> QED
        BY <1>5, <4>1, <4>2 DEF AddsUp
    <3> QED
      BY <3>1, <3>2
  <2> HIDE DEF h
  <2> QED
    BY <2>2, <2>3 DEF AddsUp
<1> QED
  BY <1>2, <1>6

(* The sums of a series and of a longer one agree on the shorter one.      *)
LEMMA SumsAgree ==
  ASSUME NEW N \in Nat, NEW M \in Nat, N <= M, NEW v, NEW w, NEW g, NEW h,
         AddsUp(g, N, v), AddsUp(h, M, w), \A k \in 1..N : v[k] = w[k]
  PROVE  g[N] = h[N]
<1> DEFINE Bad == {n \in 0..N : g[n] # h[n]}
<1> SUFFICES ASSUME Bad # {} PROVE FALSE
  BY DEF Bad
<1>1. PICK m \in Bad : \A i \in Bad : m <= i
  <2>1. Bad \subseteq Nat
    OBVIOUS
  <2> HIDE DEF Bad
  <2> QED
    BY <2>1, LeastNumber
<1>2. m \in 0..N /\ g[m] # h[m]
  OBVIOUS
<1>3. m # 0
  BY <1>2 DEF AddsUp
<1>4. m - 1 \in 0..N /\ m - 1 \notin Bad
  BY <1>1, <1>2, <1>3
<1>5. g[m - 1] = h[m - 1]
  BY <1>4
<1>6. m \in 1..N /\ m \in 1..M
  BY <1>2, <1>3
<1> QED
  BY <1>2, <1>5, <1>6 DEF AddsUp

(* OpvolSum is what its recursion says.                                    *)
LEMMA OpvolSumAddsUp ==
  os_daily_opvol \in Seq([date : Dates, opvol : Nat]) =>
    AddsUp(OpvolSum, Len(os_daily_opvol), [k \in DOMAIN os_daily_opvol |-> os_daily_opvol[k].opvol])
<1> SUFFICES ASSUME os_daily_opvol \in Seq([date : Dates, opvol : Nat])
             PROVE  AddsUp(OpvolSum, Len(os_daily_opvol),
                           [k \in DOMAIN os_daily_opvol |-> os_daily_opvol[k].opvol])
  OBVIOUS
<1> DEFINE N == Len(os_daily_opvol)
           v == [k \in DOMAIN os_daily_opvol |-> os_daily_opvol[k].opvol]
           Rec(g) == g = [k \in 0..N |-> IF k = 0 THEN 0 ELSE g[k - 1] + os_daily_opvol[k].opvol]
<1>1. N \in Nat /\ \A k \in 1..N : v[k] = os_daily_opvol[k].opvol /\ v[k] \in Nat
  <2>1. N \in Nat /\ DOMAIN os_daily_opvol = 1..N
    OBVIOUS
  <2>2. ASSUME NEW k \in 1..N PROVE os_daily_opvol[k].opvol \in Nat
    <3>1. os_daily_opvol[k] \in [date : Dates, opvol : Nat]
      BY ElementOfSeq
    <3> QED
      BY <3>1
  <2> QED
    BY <2>1, <2>2
<1>2. OpvolSum = CHOOSE g : Rec(g)
  BY DEF OpvolSum
<1> HIDE DEF N, v
<1>3. PICK g : AddsUp(g, N, v)
  BY <1>1, SumsExist
<1>4. Rec(g)
  <2>1. g = [k \in 0..N |-> g[k]]
    BY <1>3 DEF AddsUp
  <2>2. \A k \in 0..N : g[k] = IF k = 0 THEN 0 ELSE g[k - 1] + os_daily_opvol[k].opvol
    BY <1>1, <1>3 DEF AddsUp
  <2> QED
    BY <2>1, <2>2
<1>5. Rec(OpvolSum)
  <2> HIDE DEF Rec
  <2> QED
    BY <1>2, <1>4
<1>6. \A k \in 0..N : OpvolSum[k] = IF k = 0 THEN 0 ELSE OpvolSum[k - 1] + os_daily_opvol[k].opvol
  BY <1>5
<1>7. ASSUME NEW k \in 1..N PROVE OpvolSum[k] = OpvolSum[k - 1] + v[k]
  BY <1>1, <1>6
<1>8. OpvolSum[0] = 0
  BY <1>1, <1>6
<1>9. OpvolSum = [k \in 0..N |-> OpvolSum[k]]
  BY <1>5
<1>10. \A k \in 0..N : OpvolSum[k] \in Nat
  <2> DEFINE Bad == {n \in 0..N : OpvolSum[n] \notin Nat}
  <2> SUFFICES ASSUME Bad # {} PROVE FALSE
    BY DEF Bad
  <2>1. PICK m \in Bad : \A i \in Bad : m <= i
    <3>1. Bad \subseteq Nat
      BY <1>1
    <3> HIDE DEF Bad
    <3> QED
      BY <3>1, LeastNumber
  <2>2. m \in 0..N /\ OpvolSum[m] \notin Nat /\ m # 0
    BY <1>8
  <2>3. m - 1 \in 0..N /\ m - 1 \notin Bad
    BY <1>1, <2>1, <2>2
  <2>4. OpvolSum[m - 1] \in Nat /\ m \in 1..N
    BY <2>2, <2>3, <1>1
  <2>5. OpvolSum[m] = OpvolSum[m - 1] + v[m] /\ v[m] \in Nat
    BY <1>1, <1>7, <2>4
  <2> QED
    BY <2>2, <2>4, <2>5
<1>11. OpvolSum \in [0..N -> Nat]
  BY <1>9, <1>10
<1> QED
  BY <1>7, <1>8, <1>11 DEF AddsUp, N, v

(* Nothing is pushed at first.                                             *)
LEMMA InitOsVolume == Init => OsVolumeConserved
<1> SUFFICES ASSUME Init PROVE OsVolumeConserved
  OBVIOUS
<1>1. /\ os_daily_opvol = << >> /\ day_opvol_os = 0 /\ in_band = 0 /\ day_index = 0
  BY Zenon DEF Init
<1>2. AddsUp(OpvolSum, Len(os_daily_opvol), [k \in DOMAIN os_daily_opvol |-> os_daily_opvol[k].opvol])
  BY <1>1, OpvolSumAddsUp
<1>3. OpvolSum[0] = 0
  BY <1>2 DEF AddsUp
<1> QED
  BY <1>1, <1>3 DEF OsVolumeConserved

(* A series that is unchanged has its sum unchanged.                       *)
LEMMA SameSum ==
  ASSUME TypeOK, UNCHANGED os_daily_opvol
  PROVE  OpvolSum'[Len(os_daily_opvol')] = OpvolSum[Len(os_daily_opvol)]
<1>1. AddsUp(OpvolSum, Len(os_daily_opvol), [k \in DOMAIN os_daily_opvol |-> os_daily_opvol[k].opvol])
  BY OpvolSumAddsUp DEF TypeOK
<1>2. AddsUp(OpvolSum, Len(os_daily_opvol), [k \in DOMAIN os_daily_opvol |-> os_daily_opvol[k].opvol])'
  <2>1. (os_daily_opvol \in Seq([date : Dates, opvol : Nat]))'
    BY DEF TypeOK
  <2> QED
    BY <2>1, OpvolSumAddsUp, PTL
<1>3. Len(os_daily_opvol) \in Nat
  BY DEF TypeOK
<1> QED
  BY <1>1, <1>2, <1>3, SumsAgree

(* Only CloseDay pushes, and it empties the accumulator it pushes.         *)
LEMMA NextOsVolume == TypeOK /\ Progress /\ OsVolumeConserved /\ [Next]_vars => OsVolumeConserved'
<1> SUFFICES ASSUME TypeOK, Progress, OsVolumeConserved, [Next]_vars PROVE OsVolumeConserved'
  OBVIOUS
<1>t. /\ os_daily_opvol \in Seq([date : Dates, opvol : Nat]) /\ Len(os_daily_opvol) \in Nat
      /\ day_index \in Nat /\ day_opvol_os \in Nat /\ in_band \in Nat
  BY DEF TypeOK
<1>s. AddsUp(OpvolSum, Len(os_daily_opvol), [k \in DOMAIN os_daily_opvol |-> os_daily_opvol[k].opvol])
  BY <1>t, OpvolSumAddsUp
<1>n. OpvolSum[Len(os_daily_opvol)] \in Nat
  BY <1>s, <1>t DEF AddsUp
<1>1. ASSUME UNCHANGED <<config, os_daily_opvol, day_index, day_opvol_os, in_band>>
      PROVE  OsVolumeConserved'
  BY <1>1, SameSum DEF OsVolumeConserved, config
<1>2. CASE Start \/ NoFiles \/ RejectDay \/ BeginDay \/ OpenFails \/ EndOfFile \/ Finish \/ Returned
           \/ SkipRecord \/ ResetDay \/ UNCHANGED vars
  BY <1>1, <1>2, Zenon DEF Start, NoFiles, RejectDay, BeginDay, OpenFails, EndOfFile, Finish, Returned,
     ResetDay, SkipRecord, ReturnErr, vars, locals, totals
<1>3. CASE OpenFile
  <2>1. day_opvol_os = 0
    BY <1>3 DEF OpenFile, Progress
  <2>2. UNCHANGED <<config, os_daily_opvol, day_index, day_opvol_os, in_band>>
    BY <1>3, <2>1 DEF OpenFile, totals
  <2> QED
    BY <1>1, <2>2
<1>4. CASE HandleRecord
  <2>0. PICK m \in Message :
          \/ L!YieldCmbp1 /\ Handle(from_cmbp1(m))
          \/ L!YieldCbbo /\ Handle(from_cbbo(m))
    BY <1>4 DEF HandleRecord
  <2>1. PICK record \in {from_cmbp1(m), from_cbbo(m)} : Handle(record)
    BY <2>0
  <2>2. UNCHANGED <<config, os_daily_opvol, day_index>>
    BY <1>4 DEF HandleRecord
  <2>3. CASE UnknownInstrument(record)
    BY <1>1, <2>2, <2>3 DEF UnknownInstrument, locals
  <2>4. ASSUME NEW fallback \in BOOLEAN, Dispatch(record, fallback) PROVE OsVolumeConserved'
    <3>1. opvol(record) \in Nat
      BY <2>1, OpvolIsNat
    <3>2. /\ day_opvol_os' = day_opvol_os + (IF os_enabled THEN opvol(record) ELSE 0)
          /\ in_band' = in_band + opvol(record)
      BY <2>4 DEF Dispatch
    <3> HIDE DEF opvol
    <3> QED
      BY <2>2, <3>1, <3>2, <1>t, <1>n, SameSum DEF OsVolumeConserved, config
  <2> QED
    BY <2>1, <2>3, <2>4 DEF Handle
<1>5. CASE CloseDay
  <2>1. /\ os_daily_opvol' = os_push /\ day_index' = day_index + 1 /\ day_opvol_os' = 0
        /\ UNCHANGED config /\ UNCHANGED in_band /\ phase = "harvest"
    BY <1>5, Zenon DEF CloseDay
  <2> SUFFICES ASSUME os_enabled PROVE OsVolumeConserved'
    BY <2>1 DEF OsVolumeConserved, config
  <2>2. os_daily_opvol' = Append(os_daily_opvol, os_entry)
    BY <2>1 DEF os_push
  <2>3. /\ trading_date = files[day_index + 1] /\ trading_date \in Dates
        /\ trading_date \in DOMAIN prices
    <3>1. file_index = day_index + 1 /\ trading_date \in CalendarDates \cap DOMAIN prices
      BY <2>1 DEF Progress
    <3> QED
      BY <3>1, ProfilerAssumption DEF trading_date
  <2>4. os_entry \in [date : Dates, opvol : Nat]
    BY <2>3, <1>t DEF os_entry
  <2>5. /\ os_daily_opvol' \in Seq([date : Dates, opvol : Nat])
        /\ Len(os_daily_opvol') = Len(os_daily_opvol) + 1
        /\ \A k \in 1..Len(os_daily_opvol) : os_daily_opvol'[k] = os_daily_opvol[k]
        /\ os_daily_opvol'[Len(os_daily_opvol) + 1] = os_entry
    BY <2>2, <2>4, <1>t
  <2>6. AddsUp(OpvolSum, Len(os_daily_opvol), [k \in DOMAIN os_daily_opvol |-> os_daily_opvol[k].opvol])'
    <3>1. (os_daily_opvol \in Seq([date : Dates, opvol : Nat]))'
      BY <2>5
    <3> QED
      BY <3>1, OpvolSumAddsUp, PTL
  <2> DEFINE n == Len(os_daily_opvol)
             v == [k \in DOMAIN os_daily_opvol |-> os_daily_opvol[k].opvol]
             w == [k \in DOMAIN os_daily_opvol' |-> os_daily_opvol'[k].opvol]
  <2>7. AddsUp(OpvolSum', n + 1, w)
    BY <2>5, <2>6
  <2>8. \A k \in 1..n : v[k] = w[k]
    BY <2>5, <1>t
  <2>9. w[n + 1] = day_opvol_os
    BY <2>5, <1>t DEF os_entry
  <2>10. AddsUp(OpvolSum, n, v) /\ n \in Nat
    BY <1>s, <1>t
  <2> HIDE DEF v, w
  <2>11. OpvolSum'[n] = OpvolSum[n]
    BY <2>7, <2>8, <2>10, SumsAgree
  <2>12. OpvolSum'[n + 1] = OpvolSum[n] + day_opvol_os
    BY <2>7, <2>9, <2>10, <2>11 DEF AddsUp
  <2>13. OpvolSum'[Len(os_daily_opvol')] + day_opvol_os' = in_band'
    BY <2>1, <2>5, <2>12, <1>n, <1>t DEF OsVolumeConserved
  <2>14. Len(os_daily_opvol') = day_index'
    BY <2>1, <2>5 DEF OsVolumeConserved
  <2>15. ASSUME NEW k \in 1..(day_index + 1)
         PROVE  os_daily_opvol'[k].date = files[k] /\ files[k] \in DOMAIN prices
    <3>1. CASE k \in 1..day_index
      BY <3>1, <2>5 DEF OsVolumeConserved
    <3>2. CASE k = day_index + 1
      BY <3>2, <2>3, <2>5 DEF OsVolumeConserved, os_entry
    <3> QED
      BY <3>1, <3>2, <1>t
  <2> QED
    BY <2>1, <2>13, <2>14, <2>15 DEF OsVolumeConserved, config
<1> QED
  BY <1>2, <1>3, <1>4, <1>5 DEF Next

(* run() of profiler.rs: for any number of days and records, the daily     *)
(* numerators of the O/S ratio and the one in progress add up to the       *)
(* contracts dispatched in the band, one entry per day, each of a date     *)
(* that has a price.                                                       *)
THEOREM OsVolumeKept == Spec => []OsVolumeConserved
BY InitOsVolume, NextOsVolume, TypeCorrect, PTL DEF Spec
=============================================================================
