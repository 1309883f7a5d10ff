\* Four days in every order, with no, some and much option volume, against five
\* series of equity volumes; a window of two days.
CONSTANTS
  Dates = {1, 2, 3, 4}
  OptionVolumes = {0, 1, 3}
  EquitySeries <- MCEquitySeries
  rolling_window_days = 2
  ROUND_LOT_SIZE = 2
  None = None
SPECIFICATION Spec
INVARIANTS
  DeltaAgainstPriorDates
  SummaryTellsOfVolume
PROPERTY NoLookAhead
\* All days are in.
CHECK_DEADLOCK FALSE
