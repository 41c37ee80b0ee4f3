\* Two taps of the button, two questions, one of them in table user and one with
\* several options, two updates of the form under way at a time and one of the
\* edit page.
CONSTANTS
  c1 = c1
  c2 = c2
  t1 = t1
  t2 = t2
  m1 = m1
  Chain = {c1, c2}
  Questions = 2
  UserTable = {1}
  Several = {2}
  OnPage = {1, 2}
  EditTap = {m1}
  MaxTaps = 1
  MaxLeft = 0
  Tap = {t1, t2}
  MaxHasty = 1
SPECIFICATION EntrySpec
SYMMETRY Symmetry

INVARIANTS TypeOK SkipsAreHasty AnswersBelong EnabledIsAnswered PageKnows TextBelongs
PROPERTY HalfStays
