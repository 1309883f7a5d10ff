\* A day with a drift: the estimate after the close of the session.
CONSTANTS
  Minute = 1
  Prices = {180, 200}
  Strikes = {150, 185, 196, 240}
  AtmRange = 20
  DeepRange = 100
SPECIFICATION Spec
INVARIANT PostMarketUsesClose
\* The day ends.
CHECK_DEADLOCK FALSE
