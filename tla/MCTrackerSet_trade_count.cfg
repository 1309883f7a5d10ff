\* One day of two events: the curve of the number of trades.
CONSTANTS
  Instruments <- MCInstruments
  ContractOf <- MCContractOf
  Records <- MCRecords
  SENTINEL_I64 = 99
  iv_sample_interval = 2
  FirstDate = 10
  MaxDays = 1
  MaxEvents = 2
SPECIFICATION Spec
INVARIANT TradeCountCurveCounts
\* After finalize a run is over.
CHECK_DEADLOCK FALSE
