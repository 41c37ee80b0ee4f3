\* The claim of the channel page about expressioneach, refuted.
CONSTANTS
  u1 = u1
  u2 = u2
  User = {u1, u2}
  Request = {r1}
  Together <- Mutual
  MaxEach = 2
  MaxShows = 1
SPECIFICATION Spec
INVARIANTS EachIsMutual
