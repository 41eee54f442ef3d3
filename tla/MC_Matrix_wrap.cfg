CONSTANTS
  ROWS_NUM = 2
  COLS_NUM = 1
  MS_DEBOUNCE = 1
  ClockMod = 8
  MaxMs = 8
  Stall = 1
SPECIFICATION Spec
PROPERTY StableBeforeTaken
