CONSTANTS
  MaxRecords = 13
  MAX_UNSUPPORTED_RTYPE_WARNINGS = 10
SPECIFICATION Spec
INVARIANT EveryOutcomeCounted
PROPERTY NoSilentSkip
\* A file ends: after Eof the iterator has nothing left to do.
CHECK_DEADLOCK FALSE
