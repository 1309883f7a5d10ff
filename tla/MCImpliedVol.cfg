\* Volatilities on a grid of five, of which the tracker believes three; quotes
\* in and out of the money, at no strike, at and after the close, expired.
CONSTANTS
  MIN_IV = 1
  MAX_IV = 5
  FLOOR_IV = 2
  max_iv = 4
  MAX_IV_ITER = 4
  MIN_T = 1
  DAY_T = 2740
  MINUTE_T = 10
  MILL = 1
  Mids = {5, 90}
  Underlyings = {100}
  Strikes = {0, 90, 180}
  Dtes <- MCDtes
  Minutes = {0, 390}
  None = None
SPECIFICATION Spec
INVARIANT NeverDegenerate
PROPERTY EveryAnswerComes
\* The quote is counted.
CHECK_DEADLOCK FALSE
