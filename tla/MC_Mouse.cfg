CONSTANTS
  click = click
  wheel = wheel
  auto = auto
  play = play
  sleep = sleep
  button1 = button1
  EP_MOUSE = EP_MOUSE
  EP_EXTRAKEY = EP_EXTRAKEY
  Endpoint = {EP_MOUSE, EP_EXTRAKEY}
  SEND_RETRIES = 1
  MaxResets = 1
  Switch <- MCSwitch
  Event <- MCEvent
  Button = {button1}
  Code = {205, 130}
  HostLeds <- MCHostLeds
  Budgets <- MCBudgets
SPECIFICATION MouseSpec
INVARIANTS
  MouseTypeOK
  WakeUpPending
  BusyOnlyIfCrowded
  NoDrift
  WheelTurnsOnce
  ExtraKeysLetGo
  LedsOff
PROPERTIES
  IdleOrDropped
  Clicks
CHECK_DEADLOCK FALSE
