\* One file, one CBBO record, one instrument that may be missing from the map.
CONSTANTS
  Dates = {1}
  CalendarDates = {1}
  Trackers = {t1}
  Instruments = {i1}
  Expirations = {2}
  Sizes = {0}
  FlagSets = {{}}
  DteMin = 1
  DteMax = 1
  MaxRecords = 1
  MAX_UNSUPPORTED_RTYPE_WARNINGS = 1
SPECIFICATION Spec
INVARIANT CbboBoundedByDispatched
