\* Runs of up to two days and four events, out of eleven kinds: a contract of
\* tomorrow, of today and of yesterday, several events of a day and none.
CONSTANTS
  Instruments <- MCInstruments
  ContractOf <- MCContractOf
  Records <- MCRecords
  SENTINEL_I64 = 99
  iv_sample_interval = 2
  FirstDate = 10
  MaxDays = 2
  MaxEvents = 4
SPECIFICATION Spec
INVARIANTS
  BreakdownsAddUp
  DaysAddUp
  SameTrades
  SameQuotes
  PopulationsNest
  DayStateIsOfToday
  IvIsSampled
  NullsAgree
  CellsTellOfPlaces
PROPERTY FirstQuoteIsSampled
\* After finalize a run is over.
CHECK_DEADLOCK FALSE
