\* Two dialogs, two amounts, one purchase, and both copies of an update late.
CONSTANTS
  Module = {m1, m2}
  Amount = {10,20}
  MaxBuys = 1
  MaxLate = 2
SPECIFICATION Spec
SYMMETRY Symmetry
INVARIANTS TypeOK ConsumedIsCredited NeverAhead LedgersAgree
PROPERTIES AbandonedStays
CHECK_DEADLOCK FALSE
