\* A whole day, minute by minute, in winter and in summer time; a day that
\* rises, one that falls, one that stays; strikes on both sides of both prices.
CONSTANTS
  Minute = 1
  Prices = {180, 200}
  Strikes = {150, 185, 196, 240}
  AtmRange = 20
  DeepRange = 100
SPECIFICATION Spec
INVARIANTS
  ClocksAgree
  RightsMirror
PROPERTIES
  DriftIsPaced
  ClassFollowsDrift
\* The day ends.
CHECK_DEADLOCK FALSE
