\* Two runs of the command in any of the environments, over one directory.
CONSTANTS
  Environments <- MCEnvironments
  Fallback <- MCFallback
  DateOf <- MCDateOf
  CalendarDates = {1, 2, 3}
  Order <- MCOrder
  MaxRuns = 2
  None = None
SPECIFICATION Spec
INVARIANTS
  ConfigIsTheFile
  OkProfilesWhatWasAsked
  OnlyOverlapPanics
  NullMeansNoVolume
  ExitZeroIsComplete
  PrefixWritten
\* The last run ends.
CHECK_DEADLOCK FALSE
