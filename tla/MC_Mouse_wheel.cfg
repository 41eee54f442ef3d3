CONSTANTS
  click = click
  wheel = wheel
  auto = auto
  play = play
  sleep = sleep
  button1 = button1
  EP_MOUSE = EP_MOUSE
  EP_EXTRAKEY = EP_EXTRAKEY
  Endpoint = {EP_MOUSE, EP_EXTRAKEY}
  SEND_RETRIES = 1
  MaxResets = 1
  Switch <- MCSwitch
  Event <- MCEvent
  Button = {button1}
  Code = {205, 130}
  HostLeds <- MCHostLeds
  Budgets <- MCBudgets
SPECIFICATION MouseSpec
INVARIANT WheelStays
CHECK_DEADLOCK FALSE
