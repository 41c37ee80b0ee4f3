\* Two messages in two seconds, and pages opened three times.
CONSTANTS
  maker = maker
  partner = partner
  MaxSends = 2
  MaxClock = 1
  MaxOpens = 3
SPECIFICATION FairSpec
INVARIANTS TypeOK SpeakerOrder ReadInSecond
PROPERTIES LogSpec OpenPagesRead
