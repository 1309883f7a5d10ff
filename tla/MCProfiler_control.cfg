\* Three file-name dates, one of them no calendar date: every way a run over
\* several files can start, fail or finish, with at most one outcome a file.
CONSTANTS
  Dates = {1, 2, 3}
  CalendarDates = {1, 2}
  Trackers = {t1, t2}
  Instruments = {i1}
  Expirations = {2}
  Sizes = {2}
  FlagSets = {{}}
  DteMin = 1
  DteMax = 1
  MaxRecords = 1
  MAX_UNSUPPORTED_RTYPE_WARNINGS = 1
SPECIFICATION FairSpec
INVARIANTS
  TrackersAgree
  OnlyWholeDays
  OkCoversEveryFile
PROPERTIES
  TrackersSeeLifecycle
  Terminates
