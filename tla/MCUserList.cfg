\* Two partners, three refreshes at a time, and the second row that throws.
CONSTANTS
  Partner = {p1, p2}
  Chain = {c1, c2, c3}
  MaxRows = 2
SPECIFICATION Spec
SYMMETRY Symmetry
INVARIANTS TypeOK HiddenWhenDone OrderWhenDone
