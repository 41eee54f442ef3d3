CONSTANTS
  Endpoint = {EP_KEYBOARD, EP_NKRO}
  SEND_RETRIES = 2
  MaxResets = 2
SPECIFICATION Spec
PROPERTY IdleAfterReset
