\* Every handler of the program; two requests with two branches each fill both
\* connections and the queue.  No symmetry: TaskEnds is a liveness property.
CONSTANTS
  Request = {r1, r2}
  Conn = {c1, c2}
  QueueLimit = 1
  Handlers <- AllHandlers
  Idle = Idle
  Leaked = Leaked
SPECIFICATION FairSpec
CHECK_DEADLOCK FALSE
INVARIANTS TypeOK OneClaim NoForgottenTask NoLostWakeup OneAnswer
PROPERTIES LeaksUntilRestart TaskEnds
