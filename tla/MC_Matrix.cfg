CONSTANTS
  ROWS_NUM = 2
  COLS_NUM = 1
  MS_DEBOUNCE = 1
  ClockMod = 32
  MaxMs = 9
  Stall = 1
SPECIFICATION Spec
INVARIANTS
  TypeOK
  ReportedInTime
PROPERTIES
  StableBeforeTaken
  NoChatter
