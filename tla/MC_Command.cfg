CONSTANTS
  Char <- MCChar
  Eol = {"eol"}
  Simple = {"n"}
  CMD_KEYMAP_SET = "K"
  CMD_MACRO_SET = "M"
  KEYMAP_ARGS = 1
  HexValue <- MCHexValue
  SERIAL_BUF_SIZEIN = 7
  Packet <- MCPacket
SPECIFICATION CommandSpec
INVARIANTS
  CommandTypeOK
  NoLineWaits
PROPERTIES
  ExecutesLines
