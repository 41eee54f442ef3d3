SPECIFICATION Spec
CONSTANTS
  a = a
  b = b
  Byte <- MCByte
  Message <- MCMessage
  MainByte <- MCMainByte
  SERIAL_BUF_SIZEOUT = 4
  EP_SIZE = 2
  MaxResets = 1
INVARIANTS TypeOK LostOnlyAfterAttach
PROPERTIES LogsInOrder Drains
