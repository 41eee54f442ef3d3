CONSTANTS
  a = a
  b = b
  EP_KEYBOARD = EP_KEYBOARD
  EP_NKRO = EP_NKRO
  Endpoint = {EP_KEYBOARD, EP_NKRO}
  SEND_RETRIES = 1
  MaxResets = 1
  Key = {1}
  MACRO_MAXLEN = 4
  Stroke = {a, b}
  SwitchStroke = {a}
  NoStroke = NoStroke
  Phrase <- MCPhrase
  Saved <- MCSaved
  MaxBothers = 3
SPECIFICATION MSpec
INVARIANTS
  MTypeOK
  NothingLeftDown
PROPERTIES
  TypesThePhrase
  MacroEnds
CHECK_DEADLOCK FALSE
