CONSTANTS
  Interface = {IF_KEYBOARD, IF_NKRO, IF_SERIALCOMM}
  MS_ENUMERATE = 9
  Stall = 1
  Recovery = 3
  Patience = 1
  MaxResets = 3
SPECIFICATION Spec
INVARIANTS
  TypeOK
  DeafInTime
PROPERTIES
  NoSpuriousReset
  Scans
