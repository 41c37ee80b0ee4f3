\* One message.
CONSTANTS
  maker = maker
  partner = partner
  MaxSends = 1
  MaxClock = 0
  MaxOpens = 2
SPECIFICATION Spec
INVARIANTS NoBlankMessage
