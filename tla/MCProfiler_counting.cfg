\* Two days, two instruments that may be unknown, in or out of the O/S band,
\* and up to two outcomes a file: every way the counters can go up.
CONSTANTS
  Dates = {1, 2}
  CalendarDates = {1, 2}
  Trackers = {t1}
  Instruments = {i1, i2}
  Expirations = {2, 3}
  Sizes = {0, 2}
  FlagSets <- MCFlagSets
  DteMin = 1
  DteMax = 1
  MaxRecords = 2
  MAX_UNSUPPORTED_RTYPE_WARNINGS = 1
SPECIFICATION MCCountingSpec
INVARIANTS
  TypeOK
  NothingDroppedSilently
  Conservation
  Observability
  CbboNeverTrades
  OsVolumeConserved
