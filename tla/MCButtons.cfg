\* A like whose button is on a page or in a list; visits, and a profile opened
\* for candies meanwhile; two requests at a time.
CONSTANTS
  u1 = u1
  u2 = u2
  User = {u1, u2}
  Request = {r1, r2}
  Together <- Pairs
  MaxEach = 2
  MaxShows = 1
SPECIFICATION ButtonsSpec
SYMMETRY Symmetry
INVARIANTS TypeOK NoChargeWithoutShow OneVisit AgreesUnlessDisturbed
PROPERTIES StuckStays FrozenStays
