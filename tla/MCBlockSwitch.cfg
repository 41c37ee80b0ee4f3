\* Two chains at a time, and two rows of the user: more than one is a matter for UserList.
CONSTANTS
  Chain = {c1, c2}
  MaxLate = 3
  MaxRows = 2
SPECIFICATION Spec
SYMMETRY Symmetry
INVARIANTS TypeOK CopiesAgree
