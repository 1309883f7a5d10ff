\* Three days, whose files have any of five symbologies, of up to two records.
CONSTANTS
  Ids = {1, 2}
  Metadatas <- MCMetadatas
  Dates <- MCDates
  MaxRecords = 2
  None = None
SPECIFICATION Spec
INVARIANTS
  ContractOfItsDay
  DailyContractsCounted
\* The last day ends.
CHECK_DEADLOCK FALSE
