CONSTANTS
  a = a
  b = b
  Erased = Erased
  Torn = Torn
  NoConfig = NoConfig
  FLASH_PAGE_NUM = 3
  PageWords = 2
  DataWords = 3
  Value = {a, b}
  crc_calculate <- MCCrc
  Config <- MCConfig
  Factory <- MCFactory
SPECIFICATION Spec
INVARIANTS
  TypeOK
  WriteTells
PROPERTIES
  KeepsConfig
