CONSTANTS
  s1 = s1
  s2 = s2
  s3 = s3
  shift = shift
  ctrl = ctrl
  NoSwitch = NoSwitch
  Switch <- MCSwitch
  ModBit = {shift, ctrl}
  LAYERS_NUM = 2
  KeysNum = 2
  NkroNum = 224
  FactoryMap <- TwoLayers
  NewEvents <- MCNewEvents
  SavedConfigs <- MCSavedConfigs
SPECIFICATION Spec
CONSTRAINT FewChanges
INVARIANTS
  TypeOK
  SlotsBacked
  AllUpAllClear
  Rollover
  ModifiersExact
