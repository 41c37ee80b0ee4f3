\* One dialog and one purchase are enough.
CONSTANTS
  Module = {m1}
  Amount = {10, 20}
  MaxBuys = 1
  MaxLate = 1
SPECIFICATION Spec
SYMMETRY Symmetry
INVARIANT CreditedIsPaid
CHECK_DEADLOCK FALSE
