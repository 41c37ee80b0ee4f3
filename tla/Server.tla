------------------------------- MODULE Server -------------------------------
(***************************************************************************)
(* The Node process of src/Server: Express handlers that issue SQL         *)
(* functions, and the mysql connection pool those functions share.         *)
(*                                                                         *)
(* JavaScript runs each callback to completion, so one action here is one  *)
(* turn of the event loop.  A request is handled by a handler; a handler   *)
(* starts at most two branches, each a chain of SQL functions in which the *)
(* callback of one starts the next.  What the SQL text does is left out:   *)
(* only who holds which connection, who waits, who is answered, and what   *)
(* kills the process.  A branch of a request is called a task.             *)
(***************************************************************************)
EXTENDS Naturals, Sequences

CONSTANTS Request,      \* the HTTP requests clients may send, one use each
          Conn,         \* connectionLimit connections
          QueueLimit,   \* queueLimit
          Handlers,     \* what a mounted route may do (module Routes)
          Idle, Leaked  \* marks for a connection nobody holds / nobody will return

\* How an SQL function treats its connection:
\*   plain   - release in the query's callback, getConnection's error ignored
\*   guarded - the same, but a getConnection error is logged and dropped
\*   leaky   - guarded, and never releases (check_chat_room)
\*   early   - releases before it queries (get_point, get_usertype)
Shapes == {"plain", "guarded", "leaky", "early"}

\* What the last callback of a branch does: send, nothing, throw, or not be
\* there at all (the SQL function then calls an undefined callback).
Ends == {"reply", "silent", "throw", "nocallback"}

Path == [calls : Seq(Shapes), end : Ends]

\* sync is what the handler does before it returns: nothing, send, or throw.
Handler == [paths : Seq(Path), sync : {"none", "reply", "throw"}]

Branch == {1, 2}
Task == Request \X Branch

ASSUME ServerAssumption ==
  /\ QueueLimit \in Nat \ {0}
  /\ \A h \in Handlers :
       /\ h \in Handler
       /\ DOMAIN h.paths \subseteq Branch
       /\ \A b \in DOMAIN h.paths : h.paths[b].calls # <<>>
  /\ Idle # Leaked /\ Idle \notin Task /\ Leaked \notin Task

VARIABLES up,        \* the process runs
          phase,     \* what the client of each request has seen
          plan,      \* the SQL functions each task has still to finish
          pool,      \* conn, queue, denied: see below
          querying   \* tasks whose query MySQL is executing

vars == <<up, phase, plan, pool, querying>>
-----------------------------------------------------------------------------
(* The pool of config/db_config.js.  conn maps a connection to the task    *)
(* that holds it; queue holds the getConnection callbacks that wait; denied*)
(* those that will be called with an error on the next tick.               *)

EmptyPool == [conn |-> [c \in Conn |-> Idle], queue |-> <<>>, denied |-> {}]

PoolType == [conn : [Conn -> Task \cup {Idle, Leaked}], queue : Seq(Task), denied : SUBSET Task]

\* Mutant: a connection that was never returned counts as free.
IdleConnReclaims(p) == {c \in Conn : p.conn[c] \in {Idle, Leaked}}

IdleConn(p) == {c \in Conn : p.conn[c] = Idle}
Holding(p, t) == \E c \in Conn : p.conn[c] = t
ConnOf(p, t) == CHOOSE c \in Conn : p.conn[c] = t
Waiting(p, t) == \E i \in DOMAIN p.queue : p.queue[i] = t
Claims(p, t) == Holding(p, t) \/ Waiting(p, t) \/ t \in p.denied

\* Mutants: a queue one longer than queueLimit; a full queue drops the caller.
getConnectionOffByOne(p, t) ==
  IF IdleConn(p) # {}
  THEN [p EXCEPT !.conn = [@ EXCEPT ![CHOOSE c \in IdleConn(p) : TRUE] = t]]
  ELSE IF Len(p.queue) <= QueueLimit
  THEN [p EXCEPT !.queue = Append(@, t)]
  ELSE [p EXCEPT !.denied = @ \cup {t}]

getConnectionDrops(p, t) ==
  IF IdleConn(p) # {}
  THEN [p EXCEPT !.conn = [@ EXCEPT ![CHOOSE c \in IdleConn(p) : TRUE] = t]]
  ELSE IF Len(p.queue) < QueueLimit THEN [p EXCEPT !.queue = Append(@, t)] ELSE p

getConnection(p, t) ==
  IF IdleConn(p) # {}
  THEN [p EXCEPT !.conn = [@ EXCEPT ![CHOOSE c \in IdleConn(p) : TRUE] = t]]
  ELSE IF Len(p.queue) < QueueLimit
  THEN [p EXCEPT !.queue = Append(@, t)]
  ELSE [p EXCEPT !.denied = @ \cup {t}]

\* Mutant: the connection goes idle whoever waits.
releaseNoHandover(p, c) == [p EXCEPT !.conn = [@ EXCEPT ![c] = Idle]]

\* A released connection goes straight to the first callback that waits.
release(p, c) ==
  IF p.queue = <<>>
  THEN [p EXCEPT !.conn = [@ EXCEPT ![c] = Idle]]
  ELSE [p EXCEPT !.conn = [@ EXCEPT ![c] = Head(p.queue)], !.queue = Tail(@)]
-----------------------------------------------------------------------------
NoPlan == [calls |-> <<>>, end |-> "silent"]
Active(t) == plan[t].calls # <<>>
Shape(t) == Head(plan[t].calls)
Ended(t) == [plan EXCEPT ![t] = NoPlan]

Init ==
  /\ up = TRUE
  /\ phase = [r \in Request |-> "new"]
  /\ plan = [t \in Task |-> NoPlan]
  /\ pool = EmptyPool
  /\ querying = {}

\* What the client is told when the handler returns.  A synchronous throw is
\* answered by the error handler of app.js; the branches it started go on.
Told(sync) ==
  CASE sync = "none" -> "open" [] sync = "reply" -> "answered" [] sync = "throw" -> "error"

\* Express runs a handler: it starts its branches, in order, and returns.
Receive(r, h) ==
  /\ up
  /\ phase[r] = "new"
  /\ phase' = [phase EXCEPT ![r] = Told(h.sync)]
  /\ plan' = [t \in Task |-> IF t[1] = r /\ t[2] \in DOMAIN h.paths THEN h.paths[t[2]] ELSE plan[t]]
  /\ pool' = CASE h.paths = <<>>     -> pool
               [] Len(h.paths) = 1 -> getConnection(pool, <<r, 1>>)
               [] OTHER            -> getConnection(getConnection(pool, <<r, 1>>), <<r, 2>>)
  /\ UNCHANGED <<up, querying>>

\* An exception in a callback: nothing catches it and the process ends, with
\* every request in flight and every connection.
Crash ==
  /\ up' = FALSE
  /\ phase' = [r \in Request |-> IF phase[r] = "open" THEN "lost" ELSE phase[r]]
  /\ plan' = [t \in Task |-> NoPlan]
  /\ pool' = EmptyPool
  /\ querying' = {}

\* The getConnection callback with a connection: the SQL function queries it.
Query(t) ==
  /\ up /\ Holding(pool, t) /\ t \notin querying
  /\ querying' = querying \cup {t}
  /\ pool' = IF Shape(t) = "early" THEN release(pool, ConnOf(pool, t)) ELSE pool
  /\ UNCHANGED <<up, phase, plan>>

\* The getConnection callback with an error.  Only chat_room_sql looks at it:
\* elsewhere con is undefined and con.query, or con.release, throws.
NoConnection(t, p) ==
  IF Shape(t) \in {"guarded", "leaky"}
  THEN /\ pool' = p
       /\ plan' = Ended(t)
       /\ UNCHANGED <<up, phase, querying>>
  ELSE Crash

Denied(t) ==
  /\ up /\ t \in pool.denied
  /\ NoConnection(t, [pool EXCEPT !.denied = @ \ {t}])

ConnectFails(t) ==
  /\ up /\ Holding(pool, t) /\ t \notin querying
  /\ NoConnection(t, release(pool, ConnOf(pool, t)))

\* Mutant: one more function without con.release().
AfterQueryForgets(t) == pool

\* The pool once the query of t has called back.
AfterQuery(t) ==
  CASE Shape(t) = "early" -> pool
    [] Shape(t) = "leaky" -> [pool EXCEPT !.conn = [@ EXCEPT ![ConnOf(pool, t)] = Leaked]]
    [] OTHER              -> release(pool, ConnOf(pool, t))

\* The callback of a successful query: the next SQL function, or the end.
QueryOk(t) ==
  /\ up /\ t \in querying
  /\ \/ /\ Tail(plan[t].calls) # <<>>
        /\ plan' = [plan EXCEPT ![t].calls = Tail(@)]
        /\ pool' = getConnection(AfterQuery(t), t)
        /\ querying' = querying \ {t}
        /\ UNCHANGED <<up, phase>>
     \/ /\ Tail(plan[t].calls) = <<>>
        /\ plan[t].end = "reply" => phase[t[1]] = "open"
        /\ plan[t].end \in {"reply", "silent"}
        /\ phase' = IF plan[t].end = "reply" THEN [phase EXCEPT ![t[1]] = "answered"] ELSE phase
        /\ plan' = Ended(t)
        /\ pool' = AfterQuery(t)
        /\ querying' = querying \ {t}
        /\ UNCHANGED up
     \/ /\ Tail(plan[t].calls) = <<>>
        /\ plan[t].end = "reply" => phase[t[1]] # "open"    \* headers already sent
        /\ plan[t].end # "silent"
        /\ Crash

\* The callback of a failed query: every function or route logs and stops.
QueryFails(t) ==
  /\ up /\ t \in querying
  /\ IF Tail(plan[t].calls) = <<>> /\ plan[t].end = "nocallback"
     THEN Crash
     ELSE /\ plan' = Ended(t)
          /\ pool' = AfterQuery(t)
          /\ querying' = querying \ {t}
          /\ UNCHANGED <<up, phase>>

Restart ==
  /\ ~up
  /\ up' = TRUE
  /\ UNCHANGED <<phase, plan, pool, querying>>

\* The client is done with the request, or times out, and may send another.
NewRequest(r) ==
  /\ phase[r] # "new"
  /\ \A b \in Branch : ~Active(<<r, b>>)
  /\ phase' = [phase EXCEPT ![r] = "new"]
  /\ UNCHANGED <<up, plan, pool, querying>>

Progress(t) == Query(t) \/ ConnectFails(t) \/ Denied(t) \/ QueryOk(t) \/ QueryFails(t)

Next ==
  \/ \E r \in Request, h \in Handlers : Receive(r, h)
  \/ \E t \in Task : Progress(t)
  \/ Restart
  \/ \E r \in Request : NewRequest(r)

Spec == Init /\ [][Next]_vars

\* The event loop delivers every callback that is due, and MySQL ends every
\* query one way or the other.  Nobody has to send requests or restart.
FairSpec == Spec /\ \A t \in Task : WF_vars(Progress(t))
-----------------------------------------------------------------------------
TypeOK ==
  /\ up \in BOOLEAN
  /\ phase \in [Request -> {"new", "open", "answered", "error", "lost"}]
  /\ plan \in [Task -> Path]
  /\ pool \in PoolType /\ Len(pool.queue) <= QueueLimit
  /\ querying \in SUBSET Task

\* A task makes one claim on the pool at a time: it holds one connection, or
\* has one place in the queue, or waits for its error.  In particular no task
\* waits for a connection while it holds one, so tasks cannot wait for each
\* other in a circle.
OneClaim ==
  /\ \A c, d \in Conn : pool.conn[c] = pool.conn[d] /\ pool.conn[c] \in Task => c = d
  /\ \A i, j \in DOMAIN pool.queue : pool.queue[i] = pool.queue[j] => i = j
  /\ \A t \in Task : Waiting(pool, t) => ~Holding(pool, t) /\ t \notin pool.denied
  /\ \A t \in pool.denied : ~Holding(pool, t)

\* Every unfinished task is on somebody's list: it has a claim on the pool, or
\* a query of its own under way; and a finished one is on none.  A task on no
\* list would hang for ever, its request with it; a finished one that still
\* claims a connection would keep it from the others.
NoForgottenTask == \A t \in Task : Active(t) <=> Claims(pool, t) \/ t \in querying

\* Nobody waits for a connection while one is idle.
NoLostWakeup == pool.queue # <<>> => IdleConn(pool) = {}

\* No handler sends a second answer of its own: while a task may still answer,
\* the request is open, or the handler has thrown and the error handler has
\* answered for it.  Then the task's res.send comes too late and ends the
\* process: chat_room's '/' does that, whenever its second query finds a row.
OneAnswer ==
  \A t \in Task : Active(t) /\ plan[t].end = "reply" => phase[t[1]] \in {"open", "error"}

\* A leaked connection is gone for the life of the process: only a crash gives
\* it back.  After connectionLimit calls of chat_room/check nothing is served.
LeaksUntilRestart ==
  [][\A c \in Conn : pool.conn[c] = Leaked /\ up' => pool'.conn[c] = Leaked]_vars

\* Unless a connection leaks, every task a handler starts comes to an end,
\* although tasks queue for the connections and others keep arriving.
TaskEnds ==
  [](\A c \in Conn : pool.conn[c] # Leaked) => \A t \in Task : Active(t) ~> ~Active(t)

=============================================================================
