CONSTANTS
  a = a
  b = b
  EP_KEYBOARD = EP_KEYBOARD
  EP_NKRO = EP_NKRO
  Endpoint = {EP_KEYBOARD, EP_NKRO}
  SEND_RETRIES = 1
  MaxResets = 1
  Key = {1}
  MACRO_MAXLEN = 4
  Stroke = {a, b}
  SwitchStroke = {a, b}
  NoStroke = NoStroke
  Phrase <- MCPhrase
  Saved <- MCSaved
  MaxBothers = 4
SPECIFICATION ScanSpec
INVARIANT HostInStep
CHECK_DEADLOCK FALSE
