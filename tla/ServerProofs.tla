---------------------------- MODULE ServerProofs ----------------------------
(***************************************************************************)
(* Proofs about Server, for any number of requests and connections, any    *)
(* queue limit and any table of handlers that meets ServerAssumption.      *)
(***************************************************************************)
EXTENDS Server, Routes, FiniteSetTheorems, TLAPS

\* The part of the invariant that speaks of the pool alone.
PoolOK(p) ==
  /\ p \in PoolType /\ Len(p.queue) <= QueueLimit
  /\ \A c, d \in Conn : p.conn[c] = p.conn[d] /\ p.conn[c] \in Task => c = d
  /\ \A i, j \in DOMAIN p.queue : p.queue[i] = p.queue[j] => i = j
  /\ \A t \in Task : Waiting(p, t) => ~Holding(p, t) /\ t \notin p.denied
  /\ \A t \in p.denied : ~Holding(p, t)
  /\ p.queue # <<>> => IdleConn(p) = {}

\* q is p but for the claim of t: the other tasks keep theirs, and keep the
\* connection if they hold one.
SameForOthers(p, q, t) ==
  \A u \in Task \ {t} : /\ Claims(q, u) <=> Claims(p, u)
                        /\ Holding(p, u) => Holding(q, u)

\* What ties the pool to the tasks.
TasksOK ==
  /\ \A t \in Task : Claims(pool, t) => Active(t)
  /\ \A t \in Task : Active(t) => Claims(pool, t) \/ t \in querying
  /\ \A t \in querying : Active(t)
  /\ \A t \in querying : Shape(t) # "early" => Holding(pool, t)
  /\ \A t \in querying : Shape(t) = "early" => ~Claims(pool, t)
  /\ \A r \in Request : phase[r] = "new" => \A b \in Branch : ~Active(<<r, b>>)

IInv == TypeOK /\ PoolOK(pool) /\ TasksOK
-----------------------------------------------------------------------------
(* The operators of the pool.                                              *)

LEMMA GetConnectionOK ==
  ASSUME NEW p, PoolOK(p), NEW t \in Task, ~Claims(p, t)
  PROVE  /\ PoolOK(getConnection(p, t))
         /\ Claims(getConnection(p, t), t)
         /\ SameForOthers(p, getConnection(p, t), t)
<1> DEFINE q == getConnection(p, t)
<1> p \in PoolType
  BY DEF PoolOK
<1>1. CASE IdleConn(p) # {}
  <2> DEFINE c == CHOOSE c \in IdleConn(p) : TRUE
  <2>1. c \in Conn /\ p.conn[c] = Idle
    BY <1>1 DEF IdleConn
  <2>2. q = [p EXCEPT !.conn = [@ EXCEPT ![c] = t]]
    BY <1>1 DEF getConnection
  <2> HIDE DEF c
  <2>3. /\ q \in PoolType
        /\ q.conn = [p.conn EXCEPT ![c] = t]
        /\ q.queue = p.queue /\ q.denied = p.denied
    BY <2>1, <2>2 DEF PoolType
  <2> HIDE DEF q
  <2>4. \A u \in Task \ {t} : Holding(q, u) <=> Holding(p, u)
    BY <2>1, <2>3, ServerAssumption DEF Holding, PoolType
  <2>5. \A u : Waiting(q, u) <=> Waiting(p, u)
    BY <2>3 DEF Waiting
  <2>6. Holding(q, t)
    BY <2>1, <2>3 DEF Holding, PoolType
  <2>7. p.queue = <<>>
    BY <1>1 DEF PoolOK
  <2>8. PoolOK(q)
    <3>1. \A d, e \in Conn : q.conn[d] = q.conn[e] /\ q.conn[d] \in Task => d = e
      BY <2>1, <2>3 DEF PoolOK, Claims, Holding, PoolType
    <3>2. \A u \in Task : ~Waiting(q, u)
      BY <2>7, <2>3 DEF Waiting
    <3>3. \A u \in q.denied : ~Holding(q, u)
      BY <2>3, <2>4 DEF PoolOK, Claims, PoolType
    <3> QED
      BY <2>3, <2>7, <3>1, <3>2, <3>3 DEF PoolOK
  <2>9. SameForOthers(p, q, t)
    BY <2>3, <2>4, <2>5 DEF SameForOthers, Claims
  <2> QED
    BY <2>6, <2>8, <2>9 DEF Claims, q
<1>2. CASE IdleConn(p) = {} /\ Len(p.queue) < QueueLimit
  <2>1. q = [p EXCEPT !.queue = Append(p.queue, t)]
    BY <1>2 DEF getConnection
  <2>0. Append(p.queue, t) \in Seq(Task)
    BY DEF PoolType
  <2>2. /\ q \in PoolType
        /\ q.queue = Append(p.queue, t)
        /\ q.conn = p.conn /\ q.denied = p.denied
    BY <2>0, <2>1 DEF PoolType
  <2> HIDE DEF q
  <2>3. p.queue \in Seq(Task)
    BY DEF PoolType
  <2>4. \A u \in Task : Waiting(q, u) <=> u = t \/ Waiting(p, u)
    BY <2>2, <2>3 DEF Waiting
  <2>5. \A u : Holding(q, u) <=> Holding(p, u)
    BY <2>2 DEF Holding
  <2>6. PoolOK(q)
    <3>1. \A i, j \in DOMAIN q.queue : q.queue[i] = q.queue[j] => i = j
      BY <2>2, <2>3 DEF PoolOK, Claims, Waiting
    <3>2. \A u \in Task : Waiting(q, u) => ~Holding(q, u) /\ u \notin q.denied
      BY <2>2, <2>4, <2>5 DEF PoolOK, Claims
    <3>3. IdleConn(q) = {}
      BY <1>2, <2>2 DEF IdleConn
    <3>4. Len(q.queue) <= QueueLimit
      <4>1. Len(q.queue) = Len(p.queue) + 1 /\ Len(p.queue) \in Nat
        BY <2>2, <2>3
      <4> QED
        BY <1>2, <4>1, ServerAssumption
    <3> QED
      BY <2>2, <2>5, <3>1, <3>2, <3>3, <3>4 DEF PoolOK
  <2>7. SameForOthers(p, q, t)
    BY <2>2, <2>4, <2>5 DEF SameForOthers, Claims
  <2> QED
    BY <2>4, <2>6, <2>7 DEF Claims, q
<1>3. CASE IdleConn(p) = {} /\ ~(Len(p.queue) < QueueLimit)
  <2>1. q = [p EXCEPT !.denied = @ \cup {t}]
    BY <1>3 DEF getConnection
  <2>2. /\ q \in PoolType
        /\ q.denied = p.denied \cup {t}
        /\ q.conn = p.conn /\ q.queue = p.queue
    BY <2>1 DEF PoolType
  <2> HIDE DEF q
  <2>3. \A u : /\ Waiting(q, u) <=> Waiting(p, u)
               /\ Holding(q, u) <=> Holding(p, u)
    BY <2>2 DEF Waiting, Holding
  <2>4. PoolOK(q)
    BY <2>2, <2>3, <1>3 DEF PoolOK, Claims, IdleConn
  <2>5. SameForOthers(p, q, t)
    BY <2>2, <2>3 DEF SameForOthers, Claims
  <2> QED
    BY <2>2, <2>4, <2>5 DEF Claims, q
<1> QED
  BY <1>1, <1>2, <1>3

\* A held connection goes idle, or to the first task that waits.
LEMMA ReleaseOK ==
  ASSUME NEW p, PoolOK(p), NEW c \in Conn, NEW t \in Task, p.conn[c] = t
  PROVE  /\ PoolOK(release(p, c))
         /\ ~Claims(release(p, c), t)
         /\ SameForOthers(p, release(p, c), t)
<1> DEFINE q == release(p, c)
<1> p \in PoolType
  BY DEF PoolOK
<1>0. Holding(p, t) /\ ~Waiting(p, t) /\ t \notin p.denied
  BY DEF PoolOK, Holding
<1>1. CASE p.queue = <<>>
  <2>1. q = [p EXCEPT !.conn = [p.conn EXCEPT ![c] = Idle]]
    BY <1>1 DEF release
  <2>2. /\ q \in PoolType
        /\ q.conn = [p.conn EXCEPT ![c] = Idle]
        /\ q.queue = p.queue /\ q.denied = p.denied
    BY <2>1 DEF PoolType
  <2> HIDE DEF q
  <2>3. \A u \in Task \ {t} : Holding(q, u) <=> Holding(p, u)
    BY <2>2, ServerAssumption DEF Holding, PoolType
  <2>4. ~Holding(q, t)
    BY <2>2, ServerAssumption DEF Holding, PoolType, PoolOK
  <2>5. \A u : ~Waiting(q, u) /\ ~Waiting(p, u)
    BY <1>1, <2>2 DEF Waiting
  <2>6. \A d, e \in Conn : q.conn[d] = q.conn[e] /\ q.conn[d] \in Task => d = e
    BY <2>2, ServerAssumption DEF PoolOK, PoolType
  <2>7. \A u \in q.denied : ~Holding(q, u)
    BY <1>0, <2>2, <2>3 DEF PoolOK, PoolType
  <2>8. PoolOK(q)
    BY <1>1, <2>2, <2>5, <2>6, <2>7 DEF PoolOK
  <2> QED
    BY <1>0, <2>2, <2>3, <2>4, <2>5, <2>8 DEF SameForOthers, Claims, q
<1>2. CASE p.queue # <<>>
  <2> DEFINE h == Head(p.queue)
  <2>0. p.queue \in Seq(Task) /\ h \in Task /\ Tail(p.queue) \in Seq(Task)
    BY <1>2 DEF PoolType
  <2>1. q = [p EXCEPT !.conn = [p.conn EXCEPT ![c] = h], !.queue = Tail(p.queue)]
    BY <1>2 DEF release
  <2>2. /\ q \in PoolType
        /\ q.conn = [p.conn EXCEPT ![c] = h]
        /\ q.queue = Tail(p.queue) /\ q.denied = p.denied
    BY <2>0, <2>1 DEF PoolType
  <2>3. Waiting(p, h) /\ h # t /\ ~Holding(p, h) /\ h \notin p.denied
    <3>1. 1 \in DOMAIN p.queue /\ p.queue[1] = h
      BY <1>2, <2>0
    <3> QED
      BY <1>0, <2>0, <3>1 DEF Waiting, PoolOK
  <2> HIDE DEF q
  <2>4. \A u : Waiting(q, u) => Waiting(p, u) /\ u # h
    <3> SUFFICES ASSUME NEW i \in DOMAIN q.queue
                 PROVE  Waiting(p, q.queue[i]) /\ q.queue[i] # h
      BY DEF Waiting
    <3>1. i + 1 \in DOMAIN p.queue /\ q.queue[i] = p.queue[i + 1] /\ i + 1 # 1
      BY <1>2, <2>0, <2>2
    <3>2. 1 \in DOMAIN p.queue /\ p.queue[1] = h
      BY <1>2, <2>0
    <3> QED
      BY <3>1, <3>2 DEF Waiting, PoolOK
  <2>5. \A u : Waiting(p, u) /\ u # h => Waiting(q, u)
    <3> SUFFICES ASSUME NEW i \in DOMAIN p.queue, p.queue[i] # h
                 PROVE  Waiting(q, p.queue[i])
      BY DEF Waiting
    <3>1. i - 1 \in DOMAIN q.queue /\ q.queue[i - 1] = p.queue[i]
      BY <1>2, <2>0, <2>2
    <3> QED
      BY <3>1 DEF Waiting
  <2> HIDE DEF h
  <2>6. \A u \in Task \ {t, h} : Holding(q, u) <=> Holding(p, u)
    BY <2>2 DEF Holding, PoolType
  <2>7. Holding(q, h)
    BY <2>2 DEF Holding, PoolType
  <2>8. ~Holding(q, t)
    BY <2>0, <2>2, <2>3 DEF Holding, PoolType, PoolOK
  <2>9. PoolOK(q)
    <3>1. \A d, e \in Conn : q.conn[d] = q.conn[e] /\ q.conn[d] \in Task => d = e
      BY <2>2, <2>3 DEF PoolOK, PoolType, Holding
    <3>2. \A i, j \in DOMAIN q.queue : q.queue[i] = q.queue[j] => i = j
      <4> SUFFICES ASSUME NEW i \in DOMAIN q.queue, NEW j \in DOMAIN q.queue,
                          q.queue[i] = q.queue[j]
                   PROVE  i = j
        OBVIOUS
      <4>1. /\ i + 1 \in DOMAIN p.queue /\ q.queue[i] = p.queue[i + 1]
            /\ j + 1 \in DOMAIN p.queue /\ q.queue[j] = p.queue[j + 1]
            /\ i \in Nat /\ j \in Nat
        BY <1>2, <2>0, <2>2
      <4>2. i + 1 = j + 1
        BY <4>1 DEF PoolOK
      <4> QED
        BY <4>1, <4>2
    <3>3. \A u \in Task : Waiting(q, u) => ~Holding(q, u) /\ u \notin q.denied
      BY <1>0, <2>2, <2>4, <2>6 DEF PoolOK
    <3>4. \A u \in q.denied : ~Holding(q, u)
      BY <1>0, <2>2, <2>3, <2>6 DEF PoolOK, PoolType
    <3>5. IdleConn(q) = {}
      BY <1>2, <2>0, <2>2, ServerAssumption DEF PoolOK, IdleConn, PoolType
    <3>6. Len(q.queue) <= QueueLimit
      <4>1. Len(q.queue) = Len(p.queue) - 1 /\ Len(p.queue) \in Nat
        BY <1>2, <2>0, <2>2
      <4> QED
        BY <4>1, ServerAssumption DEF PoolOK
    <3> QED
      BY <2>2, <3>1, <3>2, <3>3, <3>4, <3>5, <3>6 DEF PoolOK
  <2>10. SameForOthers(p, q, t)
    BY <2>2, <2>3, <2>4, <2>5, <2>6, <2>7 DEF SameForOthers, Claims
  <2>11. ~Claims(q, t)
    BY <1>0, <2>2, <2>4, <2>8 DEF Claims
  <2> QED
    BY <2>9, <2>10, <2>11 DEF q
<1> QED
  BY <1>1, <1>2

\* A connection that is never returned: its holder lets go of it, and no one
\* else gains or loses anything.
LEMMA LeakOK ==
  ASSUME NEW p, PoolOK(p), NEW c \in Conn, NEW t \in Task, p.conn[c] = t,
         NEW q, q = [p EXCEPT !.conn = [p.conn EXCEPT ![c] = Leaked]]
  PROVE  /\ PoolOK(q)
         /\ ~Claims(q, t)
         /\ SameForOthers(p, q, t)
<1> p \in PoolType
  BY DEF PoolOK
<1>1. /\ q \in PoolType
      /\ q.conn = [p.conn EXCEPT ![c] = Leaked]
      /\ q.queue = p.queue /\ q.denied = p.denied
  BY DEF PoolType
<1>2. \A u \in Task \ {t} : Holding(q, u) <=> Holding(p, u)
  BY <1>1, ServerAssumption DEF Holding, PoolType
<1>3. ~Holding(q, t)
  BY <1>1, ServerAssumption DEF Holding, PoolType, PoolOK
<1>4. \A u : Waiting(q, u) <=> Waiting(p, u)
  BY <1>1 DEF Waiting
<1>5. Holding(p, t)
  BY DEF Holding
<1>6. PoolOK(q)
  <2>1. \A d, e \in Conn : q.conn[d] = q.conn[e] /\ q.conn[d] \in Task => d = e
    BY <1>1, ServerAssumption DEF PoolOK, PoolType
  <2>2. \A u \in Task : Waiting(q, u) => ~Holding(q, u) /\ u \notin q.denied
    BY <1>1, <1>2, <1>3, <1>4 DEF PoolOK
  <2>3. \A u \in q.denied : ~Holding(q, u)
    BY <1>1, <1>2, <1>3 DEF PoolOK, PoolType
  <2>4. IdleConn(q) \subseteq IdleConn(p)
    BY <1>1, ServerAssumption DEF IdleConn, PoolType
  <2> QED
    BY <1>1, <2>1, <2>2, <2>3, <2>4 DEF PoolOK
<1> QED
  BY <1>1, <1>2, <1>3, <1>4, <1>5, <1>6 DEF SameForOthers, Claims, PoolOK

\* The error is delivered: the task is off the list.
LEMMA DeliverOK ==
  ASSUME NEW p, PoolOK(p), NEW t \in p.denied,
         NEW q, q = [p EXCEPT !.denied = p.denied \ {t}]
  PROVE  /\ PoolOK(q)
         /\ ~Claims(q, t)
         /\ SameForOthers(p, q, t)
<1> p \in PoolType
  BY DEF PoolOK
<1>1. /\ q \in PoolType
      /\ q.denied = p.denied \ {t}
      /\ q.queue = p.queue /\ q.conn = p.conn
  BY DEF PoolType
<1>2. \A u : (Waiting(q, u) <=> Waiting(p, u)) /\ (Holding(q, u) <=> Holding(p, u))
  BY <1>1 DEF Waiting, Holding
<1>3. PoolOK(q)
  BY <1>1, <1>2 DEF PoolOK, IdleConn
<1>4. t \in Task
  BY DEF PoolType
<1> QED
  BY <1>1, <1>2, <1>3, <1>4 DEF SameForOthers, Claims, PoolOK

LEMMA EmptyPoolOK == PoolOK(EmptyPool) /\ \A t \in Task : ~Claims(EmptyPool, t)
<1>1. EmptyPool \in PoolType
  BY DEF EmptyPool, PoolType
<1>2. \A t \in Task : ~Holding(EmptyPool, t) /\ ~Waiting(EmptyPool, t)
  BY ServerAssumption DEF EmptyPool, Holding, Waiting
<1>3. EmptyPool.queue = <<>> /\ EmptyPool.denied = {} /\ \A c \in Conn : EmptyPool.conn[c] = Idle
  BY DEF EmptyPool
<1>4. \A i, j \in DOMAIN EmptyPool.queue : EmptyPool.queue[i] = EmptyPool.queue[j] => i = j
  BY <1>3
<1>5. \A c, d \in Conn :
        EmptyPool.conn[c] = EmptyPool.conn[d] /\ EmptyPool.conn[c] \in Task => c = d
  BY <1>3, ServerAssumption
<1>6. PoolOK(EmptyPool)
  <2>1. Len(EmptyPool.queue) = 0
    BY <1>3
  <2> QED
    BY <1>1, <1>2, <1>3, <1>4, <1>5, <2>1, ServerAssumption DEF PoolOK
<1> QED
  BY <1>2, <1>3, <1>6 DEF Claims

LEMMA ConnOfOK ==
  ASSUME NEW p, NEW t, Holding(p, t)
  PROVE  ConnOf(p, t) \in Conn /\ p.conn[ConnOf(p, t)] = t
BY DEF Holding, ConnOf

\* However a task's SQL function treats its connection, after the query the
\* task has no claim, and the others have what they had.
LEMMA AfterQueryOK ==
  ASSUME IInv, NEW t \in querying
  PROVE  /\ PoolOK(AfterQuery(t))
         /\ ~Claims(AfterQuery(t), t)
         /\ SameForOthers(pool, AfterQuery(t), t)
<1> t \in Task /\ PoolOK(pool)
  BY DEF IInv, TypeOK
<1>1. CASE Shape(t) = "early"
  <2>1. AfterQuery(t) = pool
    BY <1>1 DEF AfterQuery
  <2> QED
    BY <1>1, <2>1 DEF IInv, TasksOK, SameForOthers
<1>2. CASE Shape(t) = "leaky"
  <2>1. AfterQuery(t) = [pool EXCEPT !.conn = [pool.conn EXCEPT ![ConnOf(pool, t)] = Leaked]]
    BY <1>2 DEF AfterQuery
  <2>2. Holding(pool, t)
    BY <1>2 DEF IInv, TasksOK
  <2> QED
    BY <2>1, <2>2, ConnOfOK, LeakOK
<1>3. CASE Shape(t) # "early" /\ Shape(t) # "leaky"
  <2>1. AfterQuery(t) = release(pool, ConnOf(pool, t))
    BY <1>3 DEF AfterQuery
  <2>2. Holding(pool, t)
    BY <1>3 DEF IInv, TasksOK
  <2> QED
    BY <2>1, <2>2, ConnOfOK, ReleaseOK
<1> QED
  BY <1>1, <1>2, <1>3
-----------------------------------------------------------------------------
(* The steps.                                                              *)

LEMMA CrashOK == ASSUME IInv, Crash PROVE IInv'
<1>1. TypeOK' /\ PoolOK(pool)'
  <2>1. NoPlan \in Path
    BY DEF NoPlan, Path, Ends
  <2> QED
    BY <2>1, EmptyPoolOK DEF IInv, TypeOK, Crash, PoolOK
<1>2. \A t \in Task : ~Active(t)'
  BY DEF Crash, Active, NoPlan
<1>3. TasksOK'
  BY <1>1, <1>2, EmptyPoolOK DEF Crash, TasksOK, Task
<1> QED
  BY <1>1, <1>3 DEF IInv

\* A task ends: what is left is a pool without its claim.
LEMMA FinishOK ==
  ASSUME IInv, NEW t \in Task,
         PoolOK(pool'), ~Claims(pool', t), SameForOthers(pool, pool', t),
         plan' = Ended(t), querying' = querying \ {t},
         up' \in BOOLEAN,
         phase' \in [Request -> {"new", "open", "answered", "error", "lost"}],
         \A r \in Request : phase'[r] = "new" => phase[r] = "new"
  PROVE  IInv'
<1>1. NoPlan \in Path /\ NoPlan.calls = <<>>
  BY DEF NoPlan, Path, Ends
<1>2. TypeOK'
  BY <1>1 DEF IInv, TypeOK, Ended, PoolOK
<1>3. ~Active(t)' /\ \A u \in Task \ {t} : Active(u)' <=> Active(u)
  BY <1>1 DEF Active, Ended, IInv, TypeOK
<1>4. \A u \in Task \ {t} : Shape(u)' = Shape(u)
  BY DEF Shape, Ended, IInv, TypeOK
<1>5. TasksOK'
  <2>1. \A u \in Task : Claims(pool', u) => Active(u)'
    BY <1>3 DEF SameForOthers, IInv, TasksOK
  <2>2. \A u \in Task : Active(u)' => Claims(pool', u) \/ u \in querying'
    BY <1>3 DEF SameForOthers, IInv, TasksOK
  <2>3. \A u \in querying' : Active(u)'
    BY <1>3 DEF IInv, TasksOK, TypeOK
  <2>4. \A u \in querying' : Shape(u)' # "early" => Holding(pool', u)
    BY <1>4 DEF SameForOthers, IInv, TasksOK, TypeOK
  <2>5. \A u \in querying' : Shape(u)' = "early" => ~Claims(pool', u)
    BY <1>4 DEF SameForOthers, IInv, TasksOK, TypeOK
  <2>6. \A r \in Request : phase'[r] = "new" => \A b \in Branch : ~Active(<<r, b>>)'
    BY <1>3 DEF IInv, TasksOK, Task
  <2> QED
    BY <2>1, <2>2, <2>3, <2>4, <2>5, <2>6 DEF TasksOK
<1> QED
  BY <1>2, <1>5 DEF IInv

LEMMA QueryStep == ASSUME IInv, NEW t \in Task, Query(t) PROVE IInv'
<1>1. /\ Holding(pool, t) /\ t \notin querying
      /\ querying' = querying \cup {t}
      /\ up' = up /\ phase' = phase /\ plan' = plan
  BY DEF Query
<1>2. /\ ConnOf(pool, t) \in Conn /\ pool.conn[ConnOf(pool, t)] = t
      /\ PoolOK(pool) /\ Active(t)
  BY <1>1, ConnOfOK DEF IInv, TasksOK, Claims
<1>3. \A u \in Task : (Active(u)' <=> Active(u)) /\ Shape(u)' = Shape(u)
  BY <1>1 DEF Active, Shape
<1>4. CASE Shape(t) = "early"
  <2>1. pool' = release(pool, ConnOf(pool, t))
    BY <1>4 DEF Query
  <2>2. PoolOK(pool') /\ ~Claims(pool', t) /\ SameForOthers(pool, pool', t)
    BY <1>2, <2>1, ReleaseOK
  <2>3. TypeOK'
    BY <1>1, <2>2 DEF IInv, TypeOK, PoolOK
  <2>4. TasksOK'
    <3>1. \A u \in Task : Claims(pool', u) => Active(u)'
      BY <1>2, <1>3, <2>2 DEF SameForOthers, IInv, TasksOK
    <3>2. \A u \in Task : Active(u)' => Claims(pool', u) \/ u \in querying'
      BY <1>1, <1>3, <2>2 DEF SameForOthers, IInv, TasksOK
    <3>3. \A u \in querying' : Active(u)'
      BY <1>1, <1>2, <1>3 DEF IInv, TasksOK, TypeOK
    <3>4. \A u \in querying' : Shape(u)' # "early" => Holding(pool', u)
      BY <1>1, <1>3, <1>4, <2>2 DEF SameForOthers, IInv, TasksOK, TypeOK
    <3>5. \A u \in querying' : Shape(u)' = "early" => ~Claims(pool', u)
      BY <1>1, <1>3, <2>2 DEF SameForOthers, IInv, TasksOK, TypeOK
    <3>6. \A r \in Request : phase'[r] = "new" => \A b \in Branch : ~Active(<<r, b>>)'
      BY <1>1, <1>3 DEF IInv, TasksOK, Task
    <3> QED
      BY <3>1, <3>2, <3>3, <3>4, <3>5, <3>6 DEF TasksOK
  <2> QED
    BY <2>2, <2>3, <2>4 DEF IInv
<1>5. CASE Shape(t) # "early"
  <2>1. pool' = pool
    BY <1>5 DEF Query
  <2>2. TypeOK'
    BY <1>1, <2>1 DEF IInv, TypeOK
  <2>3. TasksOK'
    BY <1>1, <1>2, <1>3, <1>5, <2>1 DEF IInv, TasksOK, TypeOK, Task
  <2> QED
    BY <2>1, <2>2, <2>3 DEF IInv
<1> QED
  BY <1>4, <1>5

LEMMA NoConnectionStep ==
  ASSUME IInv, NEW t \in Task, t \notin querying, NEW p,
         PoolOK(p), ~Claims(p, t), SameForOthers(pool, p, t),
         NoConnection(t, p)
  PROVE  IInv'
<1>1. CASE Shape(t) \in {"guarded", "leaky"}
  <2>1. pool' = p /\ plan' = Ended(t) /\ up' = up /\ phase' = phase /\ querying' = querying
    BY <1>1 DEF NoConnection
  <2>2. querying' = querying \ {t}
    BY <2>1
  <2>3. up' \in BOOLEAN /\ phase' \in [Request -> {"new", "open", "answered", "error", "lost"}]
    BY <2>1 DEF IInv, TypeOK
  <2> QED
    BY <2>1, <2>2, <2>3, FinishOK
<1>2. CASE Shape(t) \notin {"guarded", "leaky"}
  BY <1>2, CrashOK DEF NoConnection
<1> QED
  BY <1>1, <1>2

LEMMA DeniedStep == ASSUME IInv, NEW t \in Task, Denied(t) PROVE IInv'
<1> DEFINE p == [pool EXCEPT !.denied = pool.denied \ {t}]
<1>1. t \in pool.denied /\ NoConnection(t, p)
  BY DEF Denied
<1>2. PoolOK(pool) /\ ~Holding(pool, t)
  BY <1>1 DEF IInv, PoolOK
<1>3. t \notin querying
  BY <1>1, <1>2 DEF IInv, TasksOK, Claims
<1>4. PoolOK(p) /\ ~Claims(p, t) /\ SameForOthers(pool, p, t)
  BY <1>1, <1>2, DeliverOK
<1> QED
  BY <1>1, <1>3, <1>4, NoConnectionStep

LEMMA ConnectFailsStep == ASSUME IInv, NEW t \in Task, ConnectFails(t) PROVE IInv'
<1> DEFINE p == release(pool, ConnOf(pool, t))
<1>1. Holding(pool, t) /\ t \notin querying /\ NoConnection(t, p)
  BY DEF ConnectFails
<1>2. PoolOK(p) /\ ~Claims(p, t) /\ SameForOthers(pool, p, t)
  BY <1>1, ConnOfOK, ReleaseOK DEF IInv
<1> HIDE DEF p
<1> QED
  BY <1>1, <1>2, NoConnectionStep

\* The next SQL function of a chain: the task gives up one claim, then makes
\* the next.
LEMMA NextCallStep ==
  ASSUME IInv, NEW t \in querying, Tail(plan[t].calls) # <<>>,
         plan' = [plan EXCEPT ![t].calls = Tail(@)],
         pool' = getConnection(AfterQuery(t), t),
         querying' = querying \ {t}, up' = up, phase' = phase
  PROVE  IInv'
<1> t \in Task
  BY DEF IInv, TypeOK
<1>1. /\ PoolOK(AfterQuery(t)) /\ ~Claims(AfterQuery(t), t)
      /\ SameForOthers(pool, AfterQuery(t), t)
  BY AfterQueryOK
<1>2. /\ PoolOK(pool') /\ Claims(pool', t)
      /\ SameForOthers(AfterQuery(t), pool', t)
  BY <1>1, GetConnectionOK
<1>3. SameForOthers(pool, pool', t)
  BY <1>1, <1>2 DEF SameForOthers
<1>4. /\ plan[t] \in Path
      /\ Tail(plan[t].calls) \in Seq(Shapes) /\ Tail(plan[t].calls) # <<>>
  <2>1. plan[t] \in Path /\ plan[t].calls \in Seq(Shapes) /\ plan[t].calls # <<>>
    BY DEF IInv, TypeOK, Path, TasksOK, Active
  <2> QED
    BY <2>1
<1>5. TypeOK'
  BY <1>2, <1>4 DEF IInv, TypeOK, Path, PoolOK
<1>6. \A u \in Task : Active(u)' <=> Active(u)
  <2>1. Active(t) /\ Active(t)'
    BY <1>4 DEF Active, IInv, TasksOK, TypeOK
  <2>2. \A u \in Task \ {t} : Active(u)' <=> Active(u)
    BY DEF Active, IInv, TypeOK
  <2> QED
    BY <2>1, <2>2
<1>7. \A u \in Task \ {t} : Shape(u)' = Shape(u)
  BY DEF Shape, IInv, TypeOK
<1>8. TasksOK'
  <2>1. \A u \in Task : Claims(pool', u) => Active(u)'
    BY <1>2, <1>3, <1>6 DEF SameForOthers, IInv, TasksOK
  <2>2. \A u \in Task : Active(u)' => Claims(pool', u) \/ u \in querying'
    BY <1>2, <1>3, <1>6 DEF SameForOthers, IInv, TasksOK
  <2>3. \A u \in querying' : Active(u)'
    BY <1>6 DEF IInv, TasksOK, TypeOK
  <2>4. \A u \in querying' : Shape(u)' # "early" => Holding(pool', u)
    BY <1>3, <1>7 DEF SameForOthers, IInv, TasksOK, TypeOK
  <2>5. \A u \in querying' : Shape(u)' = "early" => ~Claims(pool', u)
    BY <1>3, <1>7 DEF SameForOthers, IInv, TasksOK, TypeOK
  <2>6. \A r \in Request : phase'[r] = "new" => \A b \in Branch : ~Active(<<r, b>>)'
    BY <1>6 DEF IInv, TasksOK, Task
  <2> QED
    BY <2>1, <2>2, <2>3, <2>4, <2>5, <2>6 DEF TasksOK
<1> QED
  BY <1>2, <1>5, <1>8 DEF IInv

LEMMA QueryOkStep == ASSUME IInv, NEW t \in Task, QueryOk(t) PROVE IInv'
<1>1. t \in querying
  BY DEF QueryOk
<1>2. CASE Tail(plan[t].calls) # <<>> /\ ~Crash
  BY <1>1, <1>2, NextCallStep DEF QueryOk
<1>3. CASE Tail(plan[t].calls) = <<>> /\ ~Crash
  <2>1. /\ plan' = Ended(t) /\ pool' = AfterQuery(t) /\ querying' = querying \ {t} /\ up' = up
        /\ phase' = IF plan[t].end = "reply" THEN [phase EXCEPT ![t[1]] = "answered"] ELSE phase
    BY <1>3 DEF QueryOk
  <2>2. PoolOK(pool') /\ ~Claims(pool', t) /\ SameForOthers(pool, pool', t)
    BY <1>1, <2>1, AfterQueryOK
  <2>3. /\ up' \in BOOLEAN
        /\ phase' \in [Request -> {"new", "open", "answered", "error", "lost"}]
        /\ \A r \in Request : phase'[r] = "new" => phase[r] = "new"
    BY <2>1 DEF IInv, TypeOK
  <2> QED
    BY <2>1, <2>2, <2>3, FinishOK
<1> QED
  BY <1>2, <1>3, CrashOK

LEMMA QueryFailsStep == ASSUME IInv, NEW t \in Task, QueryFails(t) PROVE IInv'
<1>1. CASE Crash
  BY <1>1, CrashOK
<1>2. CASE ~Crash
  <2>1. /\ t \in querying /\ plan' = Ended(t) /\ pool' = AfterQuery(t)
        /\ querying' = querying \ {t} /\ up' = up /\ phase' = phase
    BY <1>2 DEF QueryFails
  <2>2. PoolOK(pool') /\ ~Claims(pool', t) /\ SameForOthers(pool, pool', t)
    BY <2>1, AfterQueryOK
  <2>3. up' \in BOOLEAN /\ phase' \in [Request -> {"new", "open", "answered", "error", "lost"}]
    BY <2>1 DEF IInv, TypeOK
  <2> QED
    BY <2>1, <2>2, <2>3, FinishOK
<1> QED
  BY <1>1, <1>2

LEMMA NewRequestStep == ASSUME IInv, NEW r \in Request, NewRequest(r) PROVE IInv'
<1>1. TypeOK' /\ PoolOK(pool')
  BY DEF NewRequest, IInv, TypeOK
<1>2. TasksOK'
  BY DEF NewRequest, IInv, TypeOK, TasksOK, Active, Shape
<1> QED
  BY <1>1, <1>2 DEF IInv

LEMMA ToldType ==
  ASSUME NEW sync \in {"none", "reply", "throw"}
  PROVE  Told(sync) \in {"new", "open", "answered", "error", "lost"}
BY DEF Told

\* A handler's branches are issued one after the other, each by a task that
\* has no claim yet.
LEMMA ReceiveStep ==
  ASSUME IInv, NEW r \in Request, NEW h \in Handlers, Receive(r, h),
         NEW one, one = <<r, 1>>, NEW two, two = <<r, 2>>
  PROVE  IInv'
<1>1. /\ h \in Handler /\ DOMAIN h.paths \subseteq Branch
      /\ \A b \in DOMAIN h.paths : h.paths[b] \in Path /\ h.paths[b].calls # <<>>
  BY ServerAssumption DEF Handler
<1>2. /\ one \in Task /\ two \in Task /\ one # two
      /\ \A t \in Task : t[1] = r => t = one \/ t = two
      /\ one[1] = r /\ one[2] = 1 /\ two[1] = r /\ two[2] = 2
  BY DEF Task, Branch
<1>3. ~Active(one) /\ ~Active(two)
  BY DEF Receive, IInv, TasksOK, Branch
<1>4. PoolOK(pool) /\ ~Claims(pool, one) /\ ~Claims(pool, two) /\ one \notin querying /\ two \notin querying
  BY <1>2, <1>3 DEF IInv, TasksOK
<1>5. h.paths \in Seq(Path) /\ Len(h.paths) \in 0..2 /\ DOMAIN h.paths = 1..Len(h.paths)
  <2>1. h.paths \in Seq(Path)
    BY <1>1 DEF Handler
  <2>2. Len(h.paths) \in Nat /\ DOMAIN h.paths = 1..Len(h.paths)
    BY <2>1
  <2>3. Len(h.paths) # 0 => Len(h.paths) \in 1..Len(h.paths)
    BY <2>2
  <2>4. Len(h.paths) \in {0, 1, 2}
    BY <1>1, <2>2, <2>3 DEF Branch
  <2> QED
    BY <2>1, <2>2, <2>4
\* The pool afterwards: the tasks issued have claims, the others what they had.
<1>6. /\ PoolOK(pool')
      /\ 1 \in DOMAIN h.paths <=> Claims(pool', one)
      /\ 2 \in DOMAIN h.paths <=> Claims(pool', two)
      /\ \A u \in Task \ {one, two} : /\ Claims(pool', u) <=> Claims(pool, u)
                                      /\ Holding(pool, u) => Holding(pool', u)
  <2>1. CASE Len(h.paths) = 0
    <3>1. h.paths = <<>> /\ pool' = pool
      BY <1>5, <2>1 DEF Receive
    <3> QED
      BY <1>4, <1>5, <2>1, <3>1
  <2>2. CASE Len(h.paths) = 1
    <3>1. pool' = getConnection(pool, one)
      BY <1>5, <2>2 DEF Receive
    <3>2. PoolOK(pool') /\ Claims(pool', one) /\ SameForOthers(pool, pool', one)
      BY <1>2, <1>4, <3>1, GetConnectionOK
    <3> QED
      BY <1>2, <1>4, <1>5, <2>2, <3>2 DEF SameForOthers
  <2>3. CASE Len(h.paths) = 2
    <3> DEFINE p == getConnection(pool, one)
    <3>1. pool' = getConnection(p, two)
      BY <1>5, <2>3 DEF Receive
    <3>2. PoolOK(p) /\ Claims(p, one) /\ SameForOthers(pool, p, one)
      BY <1>2, <1>4, GetConnectionOK
    <3> HIDE DEF p
    <3>3. ~Claims(p, two)
      BY <1>2, <1>4, <3>2 DEF SameForOthers
    <3>4. PoolOK(pool') /\ Claims(pool', two) /\ SameForOthers(p, pool', two)
      BY <1>2, <3>1, <3>2, <3>3, GetConnectionOK
    <3> QED
      BY <1>2, <1>5, <2>3, <3>2, <3>4 DEF SameForOthers
  <2> QED
    BY <1>5, <2>1, <2>2, <2>3
<1>7. /\ up' = up /\ querying' = querying
      /\ phase' = [phase EXCEPT ![r] = Told(h.sync)]
      /\ plan' = [t \in Task |-> IF t[1] = r /\ t[2] \in DOMAIN h.paths THEN h.paths[t[2]] ELSE plan[t]]
  BY DEF Receive
<1>8. TypeOK'
  <2>1. plan' \in [Task -> Path]
    BY <1>1, <1>7 DEF IInv, TypeOK
  <2>2. Told(h.sync) \in {"new", "open", "answered", "error", "lost"}
    BY <1>1, ToldType DEF Handler
  <2> QED
    BY <1>6, <1>7, <2>1, <2>2 DEF IInv, TypeOK, PoolOK
<1>9. \A u \in Task \ {one, two} : plan'[u] = plan[u]
  BY <1>2, <1>7
<1>10. (Active(one)' <=> 1 \in DOMAIN h.paths) /\ (Active(two)' <=> 2 \in DOMAIN h.paths)
  BY <1>1, <1>2, <1>3, <1>7 DEF Active
<1>11. \A u \in Task \ {one, two} : (Active(u)' <=> Active(u)) /\ Shape(u)' = Shape(u)
  BY <1>9 DEF Active, Shape
<1>12. \A u \in querying' : u \in Task \ {one, two} /\ u \in querying
  BY <1>4, <1>7 DEF IInv, TypeOK
<1>13. TasksOK'
  <2>1. \A u \in Task : Claims(pool', u) => Active(u)'
    BY <1>6, <1>10, <1>11 DEF IInv, TasksOK
  <2>2. \A u \in Task : Active(u)' => Claims(pool', u) \/ u \in querying'
    BY <1>6, <1>7, <1>10, <1>11 DEF IInv, TasksOK
  <2>4. \A u \in querying' : Active(u)'
    BY <1>11, <1>12 DEF IInv, TasksOK
  <2>5. \A u \in querying' : Shape(u)' # "early" => Holding(pool', u)
    BY <1>6, <1>11, <1>12 DEF IInv, TasksOK
  <2>6. \A u \in querying' : Shape(u)' = "early" => ~Claims(pool', u)
    BY <1>6, <1>11, <1>12 DEF IInv, TasksOK
  <2>7. \A s \in Request : phase'[s] = "new" => \A b \in Branch : ~Active(<<s, b>>)'
    <3> SUFFICES ASSUME NEW s \in Request, phase'[s] = "new", NEW b \in Branch
                 PROVE  ~Active(<<s, b>>)'
      OBVIOUS
    <3>1. s # r /\ phase[s] = "new"
      <4>1. Told(h.sync) # "new"
        BY <1>1 DEF Handler, Told
      <4> QED
        BY <1>7, <4>1 DEF IInv, TypeOK
    <3>2. <<s, b>> \in Task \ {one, two}
      BY <3>1 DEF Task
    <3> QED
      BY <1>9, <3>1, <3>2 DEF IInv, TasksOK, Active
  <2> QED
    BY <2>1, <2>2, <2>4, <2>5, <2>6, <2>7 DEF TasksOK
<1> QED
  BY <1>6, <1>8, <1>13 DEF IInv
-----------------------------------------------------------------------------
LEMMA InitOK == Init => IInv
<1> SUFFICES ASSUME Init PROVE IInv
  OBVIOUS
<1>1. NoPlan \in Path /\ NoPlan.calls = <<>>
  BY DEF NoPlan, Path, Ends
<1>2. TypeOK
  BY <1>1, EmptyPoolOK DEF Init, TypeOK, PoolOK
<1>3. \A t \in Task : ~Active(t)
  BY <1>1 DEF Init, Active
<1>4. TasksOK
  BY <1>3, EmptyPoolOK DEF Init, TasksOK, Task
<1> QED
  BY <1>2, <1>4, EmptyPoolOK DEF Init, IInv

LEMMA NextOK == IInv /\ [Next]_vars => IInv'
<1> SUFFICES ASSUME IInv, [Next]_vars PROVE IInv'
  OBVIOUS
<1>1. CASE \E r \in Request, h \in Handlers : Receive(r, h)
  BY <1>1, ReceiveStep
<1>2. CASE \E t \in Task : Progress(t)
  BY <1>2, QueryStep, ConnectFailsStep, DeniedStep, QueryOkStep, QueryFailsStep DEF Progress
<1>3. CASE Restart
  BY <1>3 DEF Restart, IInv, TypeOK, TasksOK, Active, Shape
<1>4. CASE \E r \in Request : NewRequest(r)
  BY <1>4, NewRequestStep
<1>5. CASE UNCHANGED vars
  BY <1>5 DEF vars, IInv, TypeOK, TasksOK, Active, Shape
<1> QED
  BY <1>1, <1>2, <1>3, <1>4, <1>5 DEF Next

THEOREM Invariance == Spec => []IInv
BY InitOK, NextOK, PTL DEF Spec

\* Types, for every handler table, connection count and queue limit.
THEOREM ServerTypeCorrect == Spec => []TypeOK
<1>1. IInv => TypeOK
  BY DEF IInv
<1> QED
  BY <1>1, Invariance, PTL

\* No task ever waits for a connection while it holds one, no connection has
\* two holders, and no task waits twice: the pool cannot deadlock on itself.
THEOREM ServerOneClaim == Spec => []OneClaim
<1>1. IInv => OneClaim
  BY DEF IInv, PoolOK, OneClaim
<1> QED
  BY <1>1, Invariance, PTL

\* Every unfinished task is on somebody's list, and no finished one is.
THEOREM ServerNoForgottenTask == Spec => []NoForgottenTask
<1>1. IInv => NoForgottenTask
  BY DEF IInv, TypeOK, TasksOK, NoForgottenTask
<1> QED
  BY <1>1, Invariance, PTL

\* Nobody waits while a connection is idle.
THEOREM ServerNoLostWakeup == Spec => []NoLostWakeup
<1>1. IInv => NoLostWakeup
  BY DEF IInv, PoolOK, NoLostWakeup
<1> QED
  BY <1>1, Invariance, PTL
-----------------------------------------------------------------------------
(* Leaks.                                                                  *)

KeepsLeaks(p, q) == \A c \in Conn : p.conn[c] = Leaked => q.conn[c] = Leaked

LEMMA GetConnectionKeepsLeaks ==
  ASSUME NEW p \in PoolType, NEW t \in Task PROVE KeepsLeaks(p, getConnection(p, t))
<1> DEFINE q == getConnection(p, t)
<1>1. CASE IdleConn(p) # {}
  <2> DEFINE c == CHOOSE c \in IdleConn(p) : TRUE
  <2>1. c \in Conn /\ p.conn[c] = Idle
    BY <1>1 DEF IdleConn
  <2>2. q = [p EXCEPT !.conn = [@ EXCEPT ![c] = t]]
    BY <1>1 DEF getConnection
  <2> HIDE DEF c
  <2>3. q.conn = [p.conn EXCEPT ![c] = t]
    BY <2>1, <2>2 DEF PoolType
  <2> HIDE DEF q
  <2>4. KeepsLeaks(p, q)
    BY <2>1, <2>3, ServerAssumption DEF KeepsLeaks, PoolType
  <2> QED
    BY <2>4 DEF q
<1>2. CASE IdleConn(p) = {}
  <2>1. q.conn = p.conn
    BY <1>2 DEF getConnection, PoolType
  <2> QED
    BY <2>1 DEF KeepsLeaks
<1> QED
  BY <1>1, <1>2

LEMMA ReleaseKeepsLeaks ==
  ASSUME NEW p \in PoolType, NEW t \in Task, NEW c \in Conn, p.conn[c] = t
  PROVE  KeepsLeaks(p, release(p, c))
<1>1. \E v : release(p, c).conn = [p.conn EXCEPT ![c] = v]
  BY DEF release, PoolType
<1> QED
  BY <1>1, ServerAssumption DEF KeepsLeaks, PoolType

LEMMA AfterQueryKeepsLeaks ==
  ASSUME IInv, NEW t \in querying PROVE KeepsLeaks(pool, AfterQuery(t))
<1> t \in Task /\ pool \in PoolType
  BY DEF IInv, TypeOK
<1>1. CASE Shape(t) = "early"
  BY <1>1 DEF AfterQuery, KeepsLeaks
<1>2. CASE Shape(t) # "early"
  <2> DEFINE c == ConnOf(pool, t)
  <2>1. c \in Conn /\ pool.conn[c] = t
    BY <1>2, ConnOfOK DEF IInv, TasksOK
  <2> HIDE DEF c
  <2>2. CASE Shape(t) = "leaky"
    <3>1. AfterQuery(t).conn = [pool.conn EXCEPT ![c] = Leaked]
      BY <2>2 DEF AfterQuery, PoolType, c
    <3> QED
      BY <2>1, <3>1, ServerAssumption DEF KeepsLeaks, PoolType
  <2>3. CASE Shape(t) # "leaky"
    <3>1. AfterQuery(t) = release(pool, c)
      BY <1>2, <2>3 DEF AfterQuery, c
    <3> QED
      BY <2>1, <3>1, ReleaseKeepsLeaks
  <2> QED
    BY <2>2, <2>3
<1> QED
  BY <1>1, <1>2

\* No step but the end of the process gives a leaked connection back.
LEMMA StepKeepsLeaks == ASSUME IInv, [Next]_vars, up' PROVE KeepsLeaks(pool, pool')
<1> pool \in PoolType /\ ~Crash
  BY DEF IInv, TypeOK, Crash
<1>1. CASE \E r \in Request, h \in Handlers : Receive(r, h)
  <2>1. PICK r \in Request, h \in Handlers : Receive(r, h)
    BY <1>1
  <2> DEFINE p == getConnection(pool, <<r, 1>>)
  <2>2. <<r, 1>> \in Task /\ <<r, 2>> \in Task
    BY DEF Task, Branch
  <2>3. KeepsLeaks(pool, p)
    BY <2>2, GetConnectionKeepsLeaks
  <2>4. PoolOK(p)
    <3>1. ~Claims(pool, <<r, 1>>) /\ PoolOK(pool)
      BY <2>1, <2>2 DEF Receive, IInv, TasksOK, Branch
    <3> QED
      BY <2>2, <3>1, GetConnectionOK
  <2>5. pool' \in {pool, p, getConnection(p, <<r, 2>>)}
    BY <2>1 DEF Receive
  <2>6. KeepsLeaks(p, getConnection(p, <<r, 2>>))
    BY <2>2, <2>4, GetConnectionKeepsLeaks DEF PoolOK
  <2> HIDE DEF p
  <2> QED
    BY <2>3, <2>5, <2>6 DEF KeepsLeaks
<1>2. CASE \E t \in Task : Progress(t)
  <2>1. PICK t \in Task : Progress(t)
    BY <1>2
  <2>2. CASE Query(t)
    BY <2>2, ConnOfOK, ReleaseKeepsLeaks DEF Query, KeepsLeaks
  <2>3. CASE ConnectFails(t)
    <3>1. pool' = release(pool, ConnOf(pool, t)) /\ Holding(pool, t)
      BY <2>3 DEF ConnectFails, NoConnection
    <3> QED
      BY <3>1, ConnOfOK, ReleaseKeepsLeaks
  <2>4. CASE Denied(t)
    <3>1. pool'.conn = pool.conn
      BY <2>4 DEF Denied, NoConnection, PoolType
    <3> QED
      BY <3>1 DEF KeepsLeaks
  <2>5. CASE QueryOk(t)
    <3>1. t \in querying /\ pool' \in {AfterQuery(t), getConnection(AfterQuery(t), t)}
      BY <2>5 DEF QueryOk
    <3>2. KeepsLeaks(pool, AfterQuery(t)) /\ AfterQuery(t) \in PoolType
      BY <3>1, AfterQueryKeepsLeaks, AfterQueryOK DEF PoolOK
    <3>3. KeepsLeaks(AfterQuery(t), getConnection(AfterQuery(t), t))
      BY <3>2, GetConnectionKeepsLeaks
    <3> QED
      BY <3>1, <3>2, <3>3 DEF KeepsLeaks
  <2>6. CASE QueryFails(t)
    BY <2>6, AfterQueryKeepsLeaks DEF QueryFails
  <2> QED
    BY <2>1, <2>2, <2>3, <2>4, <2>5, <2>6 DEF Progress
<1>3. CASE Restart \/ (\E r \in Request : NewRequest(r)) \/ UNCHANGED vars
  BY <1>3 DEF Restart, NewRequest, vars, KeepsLeaks
<1> QED
  BY <1>1, <1>2, <1>3 DEF Next

\* What check_chat_room takes from the pool comes back only with a restart.
THEOREM ServerLeaksUntilRestart == Spec => LeaksUntilRestart
<1>1. IInv /\ [Next]_vars =>
        [\A c \in Conn : pool.conn[c] = Leaked /\ up' => pool'.conn[c] = Leaked]_vars
  BY StepKeepsLeaks DEF KeepsLeaks
<1> QED
  BY <1>1, Invariance, PTL DEF Spec, LeaksUntilRestart
-----------------------------------------------------------------------------
(* Who answers a request.                                                  *)

\* A handler answers in one branch, when the client has been told one of told.
OneSender(h, told) ==
  \A b \in DOMAIN h.paths : h.paths[b].end = "reply" =>
    Told(h.sync) \in told /\ \A c \in DOMAIN h.paths : h.paths[c].end = "reply" => c = b

\* A task that will answer is the only one of its request, whose client has
\* been told one of told: nothing, or that the handler threw.
Replying(t) == Active(t) /\ plan[t].end = "reply"
OneReplies(told) ==
  \A t \in Task : Replying(t) =>
    phase[t[1]] \in told /\ \A u \in Task : u[1] = t[1] /\ Replying(u) => u = t

\* A step that begins nothing and answers nothing.
LEMMA RepliesKept ==
  ASSUME NEW CONSTANT told, OneReplies(told), \A t \in Task : Replying(t)' => Replying(t) /\ phase'[t[1]] = phase[t[1]]
  PROVE  OneReplies(told)'
BY DEF OneReplies, Replying, Active

LEMMA NoPlanSilent == NoPlan.calls = <<>>
BY DEF NoPlan

\* A task that ends begins nothing.
LEMMA EndedReplies ==
  ASSUME IInv, NEW t \in Task, plan' = Ended(t), NEW u \in Task, Replying(u)'
  PROVE  u # t /\ Replying(u)
<1>1. plan \in [Task -> Path]
  BY DEF IInv, TypeOK
<1>2. plan'[u] = IF u = t THEN NoPlan ELSE plan[u]
  BY <1>1 DEF Ended
<1> QED
  BY <1>2, NoPlanSilent DEF Replying, Active

LEMMA CrashReplies == ASSUME NEW CONSTANT told, Crash PROVE OneReplies(told)'
BY NoPlanSilent DEF Crash, OneReplies, Replying, Active

LEMMA ReceiveReplies ==
  ASSUME NEW CONSTANT told, IInv, OneReplies(told), NEW r \in Request, NEW h \in Handlers, OneSender(h, told), Receive(r, h)
  PROVE  OneReplies(told)'
<1>0. /\ plan \in [Task -> Path] /\ phase \in [Request -> {"new", "open", "answered", "error", "lost"}]
      /\ \A t \in Task : t[1] \in Request /\ t[2] \in Branch /\ t = <<t[1], t[2]>>
  BY DEF IInv, TypeOK, Task
<1>1. \A t \in Task : t[1] = r => ~Active(t)
  BY <1>0 DEF IInv, TasksOK, Receive
<1>2. /\ \A t \in Task : plan'[t] = IF t[1] = r /\ t[2] \in DOMAIN h.paths THEN h.paths[t[2]] ELSE plan[t]
      /\ \A s \in Request : phase'[s] = IF s # r THEN phase[s]
                                        ELSE Told(h.sync)
  BY <1>0 DEF Receive
<1>3. ASSUME NEW t \in Task, Replying(t)', t[1] = r
      PROVE  t[2] \in DOMAIN h.paths /\ h.paths[t[2]].end = "reply"
  BY <1>1, <1>2, <1>3 DEF Replying, Active
<1>4. ASSUME NEW t \in Task, Replying(t)', t[1] # r
      PROVE  Replying(t) /\ phase'[t[1]] = phase[t[1]]
  BY <1>0, <1>2, <1>4 DEF Replying, Active
<1> SUFFICES ASSUME NEW t \in Task, Replying(t)'
             PROVE  phase'[t[1]] \in told /\ \A u \in Task : u[1] = t[1] /\ Replying(u)' => u = t
  BY DEF OneReplies, Replying, Active
<1>5. CASE t[1] = r
  <2>1. Told(h.sync) \in told /\ \A c \in DOMAIN h.paths : h.paths[c].end = "reply" => c = t[2]
    BY <1>3, <1>5 DEF OneSender
  <2>2. ASSUME NEW u \in Task, u[1] = t[1], Replying(u)' PROVE u = t
    <3>1. u[2] = t[2]
      BY <1>3, <1>5, <2>1, <2>2
    <3> QED
      BY <1>0, <2>2, <3>1
  <2> QED
    BY <1>2, <1>5, <2>1, <2>2
<1>6. CASE t[1] # r
  BY <1>4, <1>6 DEF OneReplies
<1> QED
  BY <1>5, <1>6

\* The last callback of a task answers, and nobody else of its request will.
LEMMA QueryOkReplies ==
  ASSUME NEW CONSTANT told, IInv, OneReplies(told), NEW t \in Task, QueryOk(t) PROVE OneReplies(told)'
<1>0. /\ plan \in [Task -> Path] /\ phase \in [Request -> {"new", "open", "answered", "error", "lost"}]
      /\ t[1] \in Request /\ Active(t)
  BY DEF IInv, TypeOK, Task, TasksOK, QueryOk
<1>1. CASE plan' = [plan EXCEPT ![t].calls = Tail(@)] /\ UNCHANGED phase
  <2>1. \A u \in Task : plan'[u].end = plan[u].end /\ (u # t => plan'[u] = plan[u])
    BY <1>0, <1>1 DEF Path
  <2>2. \A u \in Task : Replying(u)' => Replying(u)
    BY <1>0, <2>1 DEF Replying, Active
  <2> QED
    BY <1>1, <2>2, RepliesKept
<1>2. CASE plan' = Ended(t) /\ phase' = IF plan[t].end = "reply" THEN [phase EXCEPT ![t[1]] = "answered"] ELSE phase
  <2>1. \A u \in Task : Replying(u)' => u # t /\ Replying(u)
    BY <1>2, EndedReplies
  <2>2. ASSUME NEW u \in Task, Replying(u)' PROVE phase'[u[1]] = phase[u[1]]
    <3>1. Replying(t) => u[1] # t[1]
      BY <2>1, <2>2 DEF OneReplies
    <3> QED
      BY <1>0, <1>2, <3>1 DEF Replying
  <2> QED
    BY <2>1, <2>2, RepliesKept
<1>3. CASE Crash
  BY <1>3, CrashReplies
<1> QED
  BY <1>1, <1>2, <1>3 DEF QueryOk

LEMMA NoConnectionReplies ==
  ASSUME NEW CONSTANT told, IInv, OneReplies(told), NEW t \in Task, NEW p, NoConnection(t, p) PROVE OneReplies(told)'
<1>1. CASE plan' = Ended(t) /\ UNCHANGED phase
  BY <1>1, EndedReplies, RepliesKept
<1>2. CASE Crash
  BY <1>2, CrashReplies
<1> QED
  BY <1>1, <1>2 DEF NoConnection

LEMMA StepReplies ==
  ASSUME NEW CONSTANT told, IInv, OneReplies(told), [Next]_vars, \A h \in Handlers : OneSender(h, told) PROVE OneReplies(told)'
<1>1. ASSUME NEW r \in Request, NEW h \in Handlers, Receive(r, h) PROVE OneReplies(told)'
  BY <1>1, ReceiveReplies
<1>2. ASSUME NEW t \in Task, Progress(t) PROVE OneReplies(told)'
  <2>1. CASE Query(t)
    <3>1. UNCHANGED <<plan, phase>>
      BY <2>1 DEF Query
    <3> QED
      BY <3>1, RepliesKept DEF Replying, Active
  <2>2. CASE ConnectFails(t) \/ Denied(t)
    BY <2>2, NoConnectionReplies DEF ConnectFails, Denied
  <2>3. CASE QueryOk(t)
    BY <2>3, QueryOkReplies
  <2>4. CASE QueryFails(t)
    <3>1. CASE Crash
      BY <3>1, CrashReplies
    <3>2. CASE plan' = Ended(t) /\ UNCHANGED phase
      BY <3>2, EndedReplies, RepliesKept
    <3> QED
      BY <2>4, <3>1, <3>2 DEF QueryFails
  <2> QED
    BY <1>2, <2>1, <2>2, <2>3, <2>4 DEF Progress
<1>3. CASE Restart \/ UNCHANGED vars
  <2>1. UNCHANGED <<plan, phase>>
    BY <1>3 DEF Restart, vars
  <2> QED
    BY <2>1, RepliesKept DEF Replying, Active
<1>4. ASSUME NEW r \in Request, NewRequest(r) PROVE OneReplies(told)'
  <2>0. /\ phase \in [Request -> {"new", "open", "answered", "error", "lost"}]
        /\ \A u \in Task : u[1] \in Request /\ u[2] \in Branch /\ u = <<u[1], u[2]>>
    BY DEF IInv, TypeOK, Task
  <2>1. plan' = plan /\ \A u \in Task : Active(u) => u[1] # r
    BY <1>4, <2>0 DEF NewRequest
  <2>2. \A u \in Task : Active(u) => phase'[u[1]] = phase[u[1]]
    BY <1>4, <2>0, <2>1 DEF NewRequest
  <2> QED
    BY <2>1, <2>2, RepliesKept DEF Replying, Active
<1> QED
  BY <1>1, <1>2, <1>3, <1>4 DEF Next

\* No request is answered twice by its handler, in whatever order its queries
\* end, if no handler answers in two places (OneAnswer): a second answer can
\* only follow the one of the error handler.
THEOREM ServerOneAnswer ==
  (\A h \in Handlers : OneSender(h, {"open", "error"})) => (Spec => []OneAnswer)
<1> SUFFICES ASSUME \A h \in Handlers : OneSender(h, {"open", "error"}) PROVE Spec => []OneAnswer
  OBVIOUS
<1> DEFINE Replies == OneReplies({"open", "error"})
<1>1. Init => Replies
  BY NoPlanSilent DEF Init, OneReplies, Replying, Active
<1>2. IInv /\ Replies /\ [Next]_vars => Replies'
  BY StepReplies
<1>3. Replies => OneAnswer
  BY DEF OneReplies, Replying, OneAnswer
<1> HIDE DEF Replies
<1> QED
  BY <1>1, <1>2, <1>3, Invariance, PTL DEF Spec

\* What OneAnswer would say without its exception.
NoSecondAnswer ==
  \A t \in Task : Active(t) /\ plan[t].end = "reply" => phase[t[1]] = "open"

\* If besides no handler throws with a branch under way that answers, then no
\* request is answered twice, by the error handler or by its own.
THEOREM ServerNoSecondAnswer ==
  (\A h \in Handlers : OneSender(h, {"open"})) => (Spec => []NoSecondAnswer)
<1> SUFFICES ASSUME \A h \in Handlers : OneSender(h, {"open"}) PROVE Spec => []NoSecondAnswer
  OBVIOUS
<1> DEFINE Replies == OneReplies({"open"})
<1>1. Init => Replies
  BY NoPlanSilent DEF Init, OneReplies, Replying, Active
<1>2. IInv /\ Replies /\ [Next]_vars => Replies'
  BY StepReplies
<1>3. Replies => NoSecondAnswer
  BY DEF OneReplies, Replying, NoSecondAnswer
<1> HIDE DEF Replies
<1> QED
  BY <1>1, <1>2, <1>3, Invariance, PTL DEF Spec
-----------------------------------------------------------------------------
(* The handler table.                                                      *)

LEMMA ChainOneSender == ASSUME NEW calls, NEW end PROVE OneSender(Chain(calls, end), {"open"})
BY DEF OneSender, Chain, Ending, Told

LEMMA AtOnceOneSender == ASSUME NEW sync PROVE OneSender(AtOnce(sync), {"open"})
BY DEF OneSender, AtOnce

\* Two branches of which the first answers nothing; the same in a handler that
\* throws; and one that answers nothing, whatever the handler does.
LEMMA TwoOneSender ==
  ASSUME NEW first, NEW second, NEW end
  PROVE  OneSender([paths |-> <<Ending(first, "silent"), Ending(second, end)>>, sync |-> "none"], {"open"})
BY DEF OneSender, Ending, Told

LEMMA ThrownOneSender ==
  ASSUME NEW first, NEW second, NEW end
  PROVE  OneSender([paths |-> <<Ending(first, "silent"), Ending(second, end)>>, sync |-> "throw"],
                   {"open", "error"})
BY DEF OneSender, Ending, Told

LEMMA SilentOneSender ==
  ASSUME NEW calls, NEW sync
  PROVE  OneSender([paths |-> <<Ending(calls, "silent")>>, sync |-> sync], {"open"})
BY DEF OneSender, Ending

LEMMA UserOneSender == \A h \in Of(user) : OneSender(h, {"open"})
BY ChainOneSender, AtOnceOneSender DEF Of, user, Answers
LEMMA ExpressionOneSender == \A h \in Of(expression) : OneSender(h, {"open"})
BY ChainOneSender DEF Of, expression, Answers
LEMMA RegisterOneSender == \A h \in Of(register) : OneSender(h, {"open"})
BY ChainOneSender, AtOnceOneSender, TwoOneSender DEF Of, register, Answers
LEMMA ChatRoomOneSender ==
  \A h \in Of(chat_room) :
    \/ OneSender(h, {"open"})
    \/ h \in chat_room.create /\ OneSender(h, {"open", "error"})
<1> SUFFICES ASSUME NEW h \in Of(chat_room)
             PROVE  \/ OneSender(h, {"open"})
                    \/ h \in chat_room.create /\ OneSender(h, {"open", "error"})
  OBVIOUS
<1>1. CASE h \in chat_room.create
  <2>1. \A g \in chat_room.create : OneSender(g, {"open", "error"})
    BY ThrownOneSender DEF chat_room
  <2> QED
    BY <1>1, <2>1
<1>2. CASE h \in chat_room.my_room \cup chat_room.check
  BY <1>2, ChainOneSender DEF chat_room, Answers
<1> QED
  BY <1>1, <1>2 DEF Of, chat_room
LEMMA FollowOneSender == \A h \in Of(follow) : OneSender(h, {"open"})
BY ChainOneSender, AtOnceOneSender DEF Of, follow, Answers
LEMMA ViewOneSender == \A h \in Of(view) : OneSender(h, {"open"})
BY ChainOneSender DEF Of, view, Answers
LEMMA WishlistOneSender == \A h \in Of(wishlist) : OneSender(h, {"open"})
BY ChainOneSender, AtOnceOneSender DEF Of, wishlist, Answers
LEMMA PaymentOneSender == \A h \in Of(payment) : OneSender(h, {"open"})
BY ChainOneSender, SilentOneSender DEF Of, payment, Answers
LEMMA OtherOneSender == \A h \in Of(inquire) \cup Of(point) \cup Of(usertypechange) : OneSender(h, {"open"})
BY ChainOneSender DEF Of, inquire, point, usertypechange, Answers

\* No handler of the program answers in two places, mounted or not; that of
\* chat_room/create alone throws with a branch under way that answers.
THEOREM RoutesOneSender ==
  \A h \in Mounted \cup Unmounted :
    \/ OneSender(h, {"open"})
    \/ h \in chat_room.create /\ OneSender(h, {"open", "error"})
BY UserOneSender, ExpressionOneSender, RegisterOneSender, ChatRoomOneSender, FollowOneSender,
   ViewOneSender, WishlistOneSender, PaymentOneSender, OtherOneSender DEF Mounted, Unmounted

\* So in the server of the program a second answer only follows the one of the
\* error handler ...
THEOREM ServerRoutesOneAnswer == Handlers \subseteq Mounted \cup Unmounted => (Spec => []OneAnswer)
<1> SUFFICES ASSUME Handlers \subseteq Mounted \cup Unmounted PROVE Spec => []OneAnswer
  OBVIOUS
<1>1. \A h \in Handlers : OneSender(h, {"open", "error"})
  BY RoutesOneSender DEF OneSender
<1> QED
  BY <1>1, ServerOneAnswer

\* ... and but for chat_room/create nothing is ever answered twice.
THEOREM ServerRoutesNoSecondAnswer ==
  Handlers \subseteq (Mounted \cup Unmounted) \ chat_room.create => (Spec => []NoSecondAnswer)
<1> SUFFICES ASSUME Handlers \subseteq (Mounted \cup Unmounted) \ chat_room.create
             PROVE  Spec => []NoSecondAnswer
  OBVIOUS
<1>1. \A h \in Handlers : OneSender(h, {"open"})
  BY RoutesOneSender
<1> QED
  BY <1>1, ServerNoSecondAnswer

\* A handler that returns every connection; all do but that of chat_room/check.
Careful(h) ==
  \A b \in DOMAIN h.paths : \A i \in DOMAIN h.paths[b].calls : h.paths[b].calls[i] # "leaky"
CarefulCalls(calls) == \A i \in DOMAIN calls : calls[i] # "leaky"

LEMMA CallsCareful ==
  /\ \A a : a # "leaky" => CarefulCalls(<<a>>)
  /\ \A a, b : a # "leaky" /\ b # "leaky" => CarefulCalls(<<a, b>>)
  /\ \A a, b, c : a # "leaky" /\ b # "leaky" /\ c # "leaky" => CarefulCalls(<<a, b, c>>)
BY DEF CarefulCalls

LEMMA ChainCareful == ASSUME NEW calls, NEW end, CarefulCalls(calls) PROVE Careful(Chain(calls, end))
BY DEF Careful, Chain, Ending, CarefulCalls

LEMMA AtOnceCareful == ASSUME NEW sync PROVE Careful(AtOnce(sync))
BY DEF Careful, AtOnce

LEMMA TwoCareful ==
  ASSUME NEW first, NEW second, NEW end, NEW sync, CarefulCalls(first), CarefulCalls(second)
  PROVE  Careful([paths |-> <<Ending(first, "silent"), Ending(second, end)>>, sync |-> sync])
BY DEF Careful, Ending, CarefulCalls

LEMMA SilentCareful ==
  ASSUME NEW calls, NEW sync, CarefulCalls(calls)
  PROVE  Careful([paths |-> <<Ending(calls, "silent")>>, sync |-> sync])
BY DEF Careful, Ending, CarefulCalls

LEMMA UserCareful == \A h \in Of(user) : Careful(h)
BY ChainCareful, AtOnceCareful, CallsCareful DEF Of, user, Answers, user_sql, expression_sql, File
LEMMA ExpressionCareful == \A h \in Of(expression) : Careful(h)
BY ChainCareful, CallsCareful DEF Of, expression, Answers, user_sql, expression_sql, File
LEMMA RegisterCareful == \A h \in Of(register) : Careful(h)
BY ChainCareful, AtOnceCareful, TwoCareful, CallsCareful DEF Of, register, Answers, register_sql, File
LEMMA ChatRoomCareful == \A h \in Of(chat_room) : Careful(h) \/ h \in chat_room.check
BY ChainCareful, TwoCareful, CallsCareful DEF Of, chat_room, Answers, chat_room_sql
LEMMA FollowCareful == \A h \in Of(follow) : Careful(h)
BY ChainCareful, AtOnceCareful, CallsCareful DEF Of, follow, Answers, follow_sql, File
LEMMA ViewCareful == \A h \in Of(view) : Careful(h)
BY ChainCareful, CallsCareful DEF Of, view, Answers, view_sql, File
LEMMA WishlistCareful == \A h \in Of(wishlist) : Careful(h)
BY ChainCareful, AtOnceCareful, CallsCareful DEF Of, wishlist, Answers, wishlist_sql, File
LEMMA PaymentCareful == \A h \in Of(payment) : Careful(h)
BY ChainCareful, SilentCareful, CallsCareful DEF Of, payment, Answers, payment_sql, File
LEMMA OtherCareful == \A h \in Of(inquire) \cup Of(point) \cup Of(usertypechange) : Careful(h)
BY ChainCareful, CallsCareful
   DEF Of, inquire, point, usertypechange, Answers, inquire_sql, point_sql, usertypechange_sql, File

\* Of the program's handlers only chat_room/check keeps a connection.
THEOREM RoutesCareful == \A h \in Mounted \cup Unmounted : Careful(h) \/ h \in chat_room.check
BY UserCareful, ExpressionCareful, RegisterCareful, ChatRoomCareful, FollowCareful, ViewCareful,
   WishlistCareful, PaymentCareful, OtherCareful DEF Mounted, Unmounted
-----------------------------------------------------------------------------
(* What the pool gives back.                                               *)

NoLeak(p) == \A c \in Conn : p.conn[c] # Leaked
CarefulPlans == \A t \in Task : CarefulCalls(plan[t].calls)

LEMMA GetConnectionNoLeak ==
  ASSUME NEW p \in PoolType, NEW t \in Task, NoLeak(p) PROVE NoLeak(getConnection(p, t))
<1>1. \/ getConnection(p, t).conn = p.conn
      \/ \E c \in Conn : getConnection(p, t).conn = [p.conn EXCEPT ![c] = t]
  <2>1. CASE IdleConn(p) # {}
    <3> DEFINE c == CHOOSE c \in IdleConn(p) : TRUE
    <3>1. c \in Conn
      BY <2>1 DEF IdleConn
    <3>2. getConnection(p, t).conn = [p.conn EXCEPT ![c] = t]
      BY <2>1 DEF getConnection, PoolType
    <3> HIDE DEF c
    <3> QED
      BY <3>1, <3>2
  <2>2. CASE IdleConn(p) = {}
    BY <2>2 DEF getConnection, PoolType
  <2> QED
    BY <2>1, <2>2
<1> QED
  BY <1>1, ServerAssumption DEF NoLeak, PoolType

LEMMA ReleaseNoLeak ==
  ASSUME NEW p \in PoolType, NEW c \in Conn, NoLeak(p) PROVE NoLeak(release(p, c))
<1>1. CASE p.queue = <<>>
  <2>1. release(p, c).conn = [p.conn EXCEPT ![c] = Idle]
    BY <1>1 DEF release, PoolType
  <2> QED
    BY <2>1, ServerAssumption DEF NoLeak, PoolType
<1>2. CASE p.queue # <<>>
  <2>1. release(p, c).conn = [p.conn EXCEPT ![c] = Head(p.queue)]
    BY <1>2 DEF release, PoolType
  <2>2. Head(p.queue) \in Task
    BY <1>2 DEF PoolType
  <2> QED
    BY <2>1, <2>2, ServerAssumption DEF NoLeak, PoolType
<1> QED
  BY <1>1, <1>2

LEMMA AfterQueryNoLeak ==
  ASSUME IInv, CarefulPlans, NoLeak(pool), NEW t \in querying PROVE NoLeak(AfterQuery(t))
<1>0. t \in Task /\ Active(t) /\ plan[t].calls \in Seq(Shapes) /\ pool \in PoolType
  BY DEF IInv, TypeOK, TasksOK, Path
<1>1. Shape(t) # "leaky"
  BY <1>0 DEF CarefulPlans, CarefulCalls, Active, Shape
<1>2. CASE Shape(t) = "early"
  BY <1>2 DEF AfterQuery
<1>3. CASE Shape(t) # "early"
  <2>1. Holding(pool, t) /\ AfterQuery(t) = release(pool, ConnOf(pool, t))
    BY <1>1, <1>3 DEF IInv, TasksOK, AfterQuery
  <2> QED
    BY <1>0, <2>1, ConnOfOK, ReleaseNoLeak
<1> QED
  BY <1>2, <1>3

LEMMA CrashNoLeak == ASSUME Crash PROVE CarefulPlans' /\ NoLeak(pool)'
<1>1. \A t \in Task : plan'[t].calls = <<>>
  BY DEF Crash, NoPlan
<1>2. CarefulPlans'
  BY <1>1 DEF CarefulPlans, CarefulCalls
<1>3. NoLeak(pool)'
  BY ServerAssumption DEF Crash, EmptyPool, NoLeak
<1> QED
  BY <1>2, <1>3

LEMMA EndedCareful == ASSUME IInv, CarefulPlans, NEW t \in Task, plan' = Ended(t) PROVE CarefulPlans'
<1>1. \A u \in Task : plan'[u] = plan[u] \/ plan'[u].calls = <<>>
  BY DEF IInv, TypeOK, Ended, NoPlan
<1> QED
  BY <1>1 DEF CarefulPlans, CarefulCalls

LEMMA StepNoLeak ==
  ASSUME IInv, CarefulPlans, NoLeak(pool), [Next]_vars, \A h \in Handlers : Careful(h)
  PROVE  CarefulPlans' /\ NoLeak(pool)'
<1>0. pool \in PoolType /\ plan \in [Task -> Path]
  BY DEF IInv, TypeOK
<1>1. ASSUME NEW r \in Request, NEW h \in Handlers, Receive(r, h) PROVE CarefulPlans' /\ NoLeak(pool)'
  <2> DEFINE p == getConnection(pool, <<r, 1>>)
  <2>1. <<r, 1>> \in Task /\ <<r, 2>> \in Task
    BY DEF Task, Branch
  <2>2. NoLeak(p)
    BY <1>0, <2>1, GetConnectionNoLeak
  <2>3. p \in PoolType
    <3>1. ~Claims(pool, <<r, 1>>) /\ PoolOK(pool)
      BY <1>1, <2>1 DEF Receive, IInv, TasksOK, Branch
    <3> QED
      BY <2>1, <3>1, GetConnectionOK DEF PoolOK
  <2>4. pool' \in {pool, p, getConnection(p, <<r, 2>>)}
    BY <1>1 DEF Receive
  <2>5. NoLeak(getConnection(p, <<r, 2>>))
    BY <2>1, <2>2, <2>3, GetConnectionNoLeak
  <2> HIDE DEF p
  <2>6. NoLeak(pool')
    BY <2>2, <2>4, <2>5
  <2>7. \A t \in Task : plan'[t] = plan[t] \/ (t[2] \in DOMAIN h.paths /\ plan'[t] = h.paths[t[2]])
    BY <1>1 DEF Receive
  <2>8. CarefulPlans'
    BY <2>7 DEF CarefulPlans, CarefulCalls, Careful
  <2> QED
    BY <2>6, <2>8 DEF NoLeak
<1>2. ASSUME NEW t \in Task, NEW p \in PoolType, NoLeak(p), NoConnection(t, p)
      PROVE  CarefulPlans' /\ NoLeak(pool)'
  <2>1. CASE pool' = p /\ plan' = Ended(t)
    BY <1>2, <2>1, EndedCareful DEF NoLeak
  <2>2. CASE Crash
    BY <2>2, CrashNoLeak
  <2> QED
    BY <1>2, <2>1, <2>2 DEF NoConnection
<1>3. ASSUME NEW t \in Task, Progress(t) PROVE CarefulPlans' /\ NoLeak(pool)'
  <2>1. CASE Query(t)
    <3>1. plan' = plan /\ Holding(pool, t) /\ pool' \in {pool, release(pool, ConnOf(pool, t))}
      BY <2>1 DEF Query
    <3>2. NoLeak(release(pool, ConnOf(pool, t)))
      BY <1>0, <3>1, ConnOfOK, ReleaseNoLeak
    <3> QED
      BY <3>1, <3>2 DEF CarefulPlans, NoLeak
  <2>2. CASE ConnectFails(t)
    <3>1. Holding(pool, t) /\ NoConnection(t, release(pool, ConnOf(pool, t))) /\ PoolOK(pool)
      BY <2>2 DEF ConnectFails, IInv
    <3>2. ConnOf(pool, t) \in Conn /\ pool.conn[ConnOf(pool, t)] = t
      BY <3>1, ConnOfOK
    <3>3. NoLeak(release(pool, ConnOf(pool, t))) /\ release(pool, ConnOf(pool, t)) \in PoolType
      BY <1>0, <3>1, <3>2, ReleaseNoLeak, ReleaseOK DEF PoolOK
    <3> QED
      BY <1>2, <3>1, <3>3
  <2>3. CASE Denied(t)
    <3> DEFINE p == [pool EXCEPT !.denied = @ \ {t}]
    <3>1. p \in PoolType /\ p.conn = pool.conn
      BY <1>0 DEF PoolType
    <3>2. NoLeak(p)
      BY <3>1 DEF NoLeak
    <3>3. NoConnection(t, p)
      BY <2>3 DEF Denied
    <3> HIDE DEF p
    <3> QED
      BY <1>2, <3>1, <3>2, <3>3
  <2>4. CASE QueryOk(t) \/ QueryFails(t)
    <3>1. t \in querying
      BY <2>4 DEF QueryOk, QueryFails
    <3>2. NoLeak(AfterQuery(t)) /\ AfterQuery(t) \in PoolType
      BY <3>1, AfterQueryNoLeak, AfterQueryOK DEF PoolOK
    <3>3. NoLeak(getConnection(AfterQuery(t), t))
      BY <3>2, GetConnectionNoLeak
    <3>4. CASE Crash
      BY <3>4, CrashNoLeak
    <3>5. CASE plan' = Ended(t) /\ pool' = AfterQuery(t)
      BY <3>2, <3>5, EndedCareful DEF NoLeak
    <3>6. CASE Tail(plan[t].calls) # <<>> /\ plan' = [plan EXCEPT ![t].calls = Tail(@)]
               /\ pool' = getConnection(AfterQuery(t), t)
      <4>1. plan[t].calls \in Seq(Shapes) /\ plan[t].calls # <<>>
        BY <1>0, <3>1 DEF IInv, TasksOK, Active, Path
      <4>2. CarefulCalls(Tail(plan[t].calls))
        BY <4>1 DEF CarefulPlans, CarefulCalls
      <4>3. \A u \in Task : plan'[u].calls = IF u = t THEN Tail(plan[t].calls) ELSE plan[u].calls
        BY <1>0, <3>6 DEF Path
      <4>4. CarefulPlans'
        BY <4>2, <4>3 DEF CarefulPlans, CarefulCalls
      <4> QED
        BY <3>3, <3>6, <4>4 DEF NoLeak
    <3> QED
      BY <2>4, <3>4, <3>5, <3>6 DEF QueryOk, QueryFails
  <2> QED
    BY <1>3, <2>1, <2>2, <2>3, <2>4 DEF Progress
<1>4. CASE Restart \/ (\E r \in Request : NewRequest(r)) \/ UNCHANGED vars
  <2>1. UNCHANGED <<pool, plan>>
    BY <1>4 DEF Restart, NewRequest, vars
  <2> QED
    BY <2>1 DEF CarefulPlans, NoLeak
<1> QED
  BY <1>1, <1>3, <1>4 DEF Next

\* If every handler returns its connections, in whatever way it ends, none is
\* ever lost: the hypothesis of TaskEnds holds.
THEOREM ServerNoLeak ==
  (\A h \in Handlers : Careful(h)) => (Spec => [](\A c \in Conn : pool.conn[c] # Leaked))
<1> SUFFICES ASSUME \A h \in Handlers : Careful(h)
             PROVE  Spec => [](\A c \in Conn : pool.conn[c] # Leaked)
  OBVIOUS
<1> DEFINE LInv == CarefulPlans /\ NoLeak(pool)
<1>1. Init => LInv
  <2> SUFFICES ASSUME Init PROVE LInv
    OBVIOUS
  <2>1. \A t \in Task : plan[t].calls = <<>>
    BY DEF Init, NoPlan
  <2>2. CarefulPlans
    BY <2>1 DEF CarefulPlans, CarefulCalls
  <2>3. NoLeak(pool)
    BY ServerAssumption DEF Init, EmptyPool, NoLeak
  <2> QED
    BY <2>2, <2>3
<1>2. IInv /\ LInv /\ [Next]_vars => LInv'
  BY StepNoLeak
<1>3. LInv => \A c \in Conn : pool.conn[c] # Leaked
  BY DEF NoLeak
<1> QED
  BY <1>1, <1>2, <1>3, Invariance, PTL DEF Spec

\* So without chat_room/check the server of the program would lose none.
THEOREM ServerRoutesNoLeak ==
  Handlers \subseteq (Mounted \cup Unmounted) \ chat_room.check =>
    (Spec => [](\A c \in Conn : pool.conn[c] # Leaked))
BY RoutesCareful, ServerNoLeak
-----------------------------------------------------------------------------
(* What the tasks wait for.                                                *)

\* The guards of Query, ConnectFails, Denied and QueryFails: while the process
\* runs, one of these steps of t can be taken.
Moves(t) == Holding(pool, t) \/ t \in pool.denied \/ t \in querying

\* While one connection is not leaked, the unfinished tasks never all wait:
\* one of them has a connection, an error to hear of or a query under way.
THEOREM ServerSomeoneMoves ==
  Spec => []((\E t \in Task : Active(t)) /\ (\E c \in Conn : pool.conn[c] # Leaked)
               => \E t \in Task : Moves(t))
<1>1. IInv => ((\E t \in Task : Active(t)) /\ (\E c \in Conn : pool.conn[c] # Leaked)
                 => \E t \in Task : Moves(t))
  <2> SUFFICES ASSUME IInv, NEW t \in Task, Active(t), NEW c \in Conn, pool.conn[c] # Leaked,
                      \A u \in Task : ~Moves(u)
               PROVE  FALSE
    OBVIOUS
  <2>1. Waiting(pool, t)
    BY DEF IInv, TasksOK, Moves, Claims
  <2>2. pool.queue # <<>>
    BY <2>1 DEF Waiting
  <2>3. pool.conn[c] # Idle
    BY <2>2 DEF IInv, PoolOK, IdleConn
  <2>4. pool.conn[c] \in Task
    BY <2>3 DEF IInv, TypeOK, PoolType
  <2> QED
    BY <2>4 DEF Moves, Holding
<1> QED
  BY <1>1, Invariance, PTL

\* The connections bound the queries under way, but for those of the functions
\* that release before they query.
THEOREM ServerQueriesBounded ==
  ASSUME IsFiniteSet(Conn)
  PROVE  Spec => [](Cardinality({t \in querying : Shape(t) # "early"}) <= Cardinality(Conn))
<1>1. IInv => Cardinality({t \in querying : Shape(t) # "early"}) <= Cardinality(Conn)
  <2> SUFFICES ASSUME IInv
               PROVE  Cardinality({t \in querying : Shape(t) # "early"}) <= Cardinality(Conn)
    OBVIOUS
  <2> DEFINE S == {t \in querying : Shape(t) # "early"}
             f == [t \in S |-> ConnOf(pool, t)]
  <2>1. \A t \in S : ConnOf(pool, t) \in Conn /\ pool.conn[ConnOf(pool, t)] = t
    BY ConnOfOK DEF IInv, TasksOK
  <2> HIDE DEF S
  <2>2. f \in Injection(S, Conn)
    <3>1. f \in [S -> Conn]
      BY <2>1
    <3>2. \A t, u \in S : f[t] = f[u] => t = u
      BY <2>1
    <3> QED
      BY <3>1, <3>2 DEF Injection, IsInjective
  <2>3. Cardinality(S) <= Cardinality(Conn)
    BY <2>2, FS_Injection
  <2> QED
    BY <2>3 DEF S
<1> QED
  BY <1>1, Invariance, PTL
-----------------------------------------------------------------------------
(* The order of the queue.                                                 *)

\* t waits before u.
Before(p, t, u) ==
  \E i, j \in DOMAIN p.queue : i < j /\ p.queue[i] = t /\ p.queue[j] = u

\* From p to q who waits before another stays so, or has his connection while
\* the other still waits.
InTurn(p, q) ==
  \A t, u \in Task : Before(p, t, u) => Before(q, t, u) \/ (Holding(q, t) /\ Waiting(q, u))

LEMMA BeforeWaits == ASSUME NEW p, NEW t, NEW u, Before(p, t, u) PROVE Waiting(p, u)
BY DEF Before, Waiting

\* Who asks for a connection takes nobody's place.
LEMMA GetConnectionKeeps ==
  ASSUME NEW p \in PoolType, NEW t \in Task
  PROVE  /\ getConnection(p, t) \in PoolType
         /\ \A u \in Task : Waiting(p, u) => Waiting(getConnection(p, t), u)
         /\ \A u \in Task : Holding(p, u) => Holding(getConnection(p, t), u)
         /\ \A u, v \in Task : Before(p, u, v) => Before(getConnection(p, t), u, v)
<1> DEFINE q == getConnection(p, t)
<1>0. p.queue \in Seq(Task) /\ p.conn \in [Conn -> Task \cup {Idle, Leaked}]
  BY DEF PoolType
<1>1. CASE IdleConn(p) # {}
  <2> DEFINE c == CHOOSE c \in IdleConn(p) : TRUE
  <2>1. c \in Conn /\ p.conn[c] = Idle
    BY <1>1 DEF IdleConn
  <2>2. q = [p EXCEPT !.conn = [@ EXCEPT ![c] = t]]
    BY <1>1 DEF getConnection
  <2> HIDE DEF c
  <2>3. q \in PoolType /\ q.queue = p.queue /\ q.conn = [p.conn EXCEPT ![c] = t]
    BY <2>1, <2>2 DEF PoolType
  <2>4. \A u \in Task : Holding(p, u) => Holding(q, u)
    BY <1>0, <2>1, <2>3, ServerAssumption DEF Holding
  <2> QED
    BY <2>3, <2>4 DEF Waiting, Before
<1>2. CASE IdleConn(p) = {} /\ Len(p.queue) < QueueLimit
  <2>1. q = [p EXCEPT !.queue = Append(p.queue, t)]
    BY <1>2 DEF getConnection
  <2>2. Append(p.queue, t) \in Seq(Task)
    BY <1>0
  <2>3. q \in PoolType /\ q.queue = Append(p.queue, t) /\ q.conn = p.conn
    BY <2>1, <2>2 DEF PoolType
  <2>4. \A i \in DOMAIN p.queue : i \in DOMAIN q.queue /\ q.queue[i] = p.queue[i]
    BY <1>0, <2>3
  <2> HIDE DEF q
  <2>5. \A u \in Task : Holding(p, u) => Holding(q, u)
    BY <2>3 DEF Holding
  <2>6. \A u \in Task : Waiting(p, u) => Waiting(q, u)
    BY <2>4 DEF Waiting
  <2>7. \A u, v \in Task : Before(p, u, v) => Before(q, u, v)
    BY <2>4 DEF Before
  <2> QED
    BY <2>3, <2>5, <2>6, <2>7 DEF q
<1>3. CASE IdleConn(p) = {} /\ ~(Len(p.queue) < QueueLimit)
  <2>1. q = [p EXCEPT !.denied = @ \cup {t}]
    BY <1>3 DEF getConnection
  <2>2. q \in PoolType /\ q.queue = p.queue /\ q.conn = p.conn
    BY <2>1 DEF PoolType
  <2> QED
    BY <2>2 DEF Waiting, Before, Holding
<1> QED
  BY <1>1, <1>2, <1>3

\* A connection that is returned goes to the one who waits before all others.
LEMMA ReleaseInTurn ==
  ASSUME NEW p \in PoolType, NEW c \in Conn
  PROVE  release(p, c) \in PoolType /\ InTurn(p, release(p, c))
<1> DEFINE q == release(p, c)
<1>0. p.queue \in Seq(Task) /\ p.conn \in [Conn -> Task \cup {Idle, Leaked}]
  BY DEF PoolType
<1>1. CASE p.queue = <<>>
  <2>1. q = [p EXCEPT !.conn = [p.conn EXCEPT ![c] = Idle]]
    BY <1>1 DEF release
  <2>2. q \in PoolType
    BY <2>1 DEF PoolType
  <2> QED
    BY <1>1, <2>2 DEF InTurn, Before
<1>2. CASE p.queue # <<>>
  <2>1. q = [p EXCEPT !.conn = [p.conn EXCEPT ![c] = Head(p.queue)], !.queue = Tail(p.queue)]
    BY <1>2 DEF release
  <2>2. Head(p.queue) = p.queue[1] /\ Head(p.queue) \in Task /\ Tail(p.queue) \in Seq(Task)
    BY <1>0, <1>2
  <2>3. /\ q \in PoolType /\ q.queue = Tail(p.queue)
        /\ q.conn = [p.conn EXCEPT ![c] = Head(p.queue)]
    BY <2>1, <2>2 DEF PoolType
  <2>4. \A i \in DOMAIN p.queue : i # 1 =>
          i - 1 \in DOMAIN q.queue /\ q.queue[i - 1] = p.queue[i]
    BY <1>0, <1>2, <2>3
  <2>5. Holding(q, p.queue[1])
    BY <1>0, <2>2, <2>3 DEF Holding
  <2> HIDE DEF q
  <2>6. ASSUME NEW t \in Task, NEW u \in Task, Before(p, t, u)
        PROVE  Before(q, t, u) \/ (Holding(q, t) /\ Waiting(q, u))
    <3>1. PICK i \in DOMAIN p.queue, j \in DOMAIN p.queue :
            i < j /\ p.queue[i] = t /\ p.queue[j] = u
      BY <2>6 DEF Before
    <3>2. i \in Nat \ {0} /\ j \in Nat \ {0} /\ j # 1
      BY <1>0, <3>1
    <3>3. j - 1 \in DOMAIN q.queue /\ q.queue[j - 1] = u
      BY <2>4, <3>1, <3>2
    <3>4. CASE i = 1
      BY <2>5, <3>1, <3>3, <3>4 DEF Waiting
    <3>5. CASE i # 1
      <4>1. i - 1 \in DOMAIN q.queue /\ q.queue[i - 1] = t /\ i - 1 < j - 1
        BY <2>4, <3>1, <3>2, <3>5
      <4> QED
        BY <3>3, <4>1 DEF Before
    <3> QED
      BY <3>4, <3>5
  <2> QED
    BY <2>3, <2>6 DEF InTurn, q
<1> QED
  BY <1>1, <1>2

LEMMA SameQueueInTurn ==
  ASSUME NEW p, NEW q, q.queue = p.queue PROVE InTurn(p, q)
BY DEF InTurn, Before

\* Also when the task that returned its connection asks for the next at once.
LEMMA InTurnThenGet ==
  ASSUME NEW p, NEW q \in PoolType, InTurn(p, q), NEW t \in Task
  PROVE  InTurn(p, getConnection(q, t))
<1> DEFINE r == getConnection(q, t)
<1>1. /\ \A u \in Task : (Waiting(q, u) => Waiting(r, u)) /\ (Holding(q, u) => Holding(r, u))
      /\ \A u, v \in Task : Before(q, u, v) => Before(r, u, v)
  BY GetConnectionKeeps
<1> HIDE DEF r
<1>2. InTurn(p, r)
  BY <1>1 DEF InTurn
<1> QED
  BY <1>2 DEF r

LEMMA AfterQueryInTurn ==
  ASSUME IInv, NEW t \in querying PROVE AfterQuery(t) \in PoolType /\ InTurn(pool, AfterQuery(t))
<1>0. pool \in PoolType
  BY DEF IInv, TypeOK
<1>1. CASE Shape(t) = "early"
  BY <1>0, <1>1, SameQueueInTurn DEF AfterQuery
<1>2. CASE Shape(t) # "early"
  <2>1. ConnOf(pool, t) \in Conn
    BY <1>2, ConnOfOK DEF IInv, TasksOK
  <2>2. CASE Shape(t) = "leaky"
    <3>1. AfterQuery(t) = [pool EXCEPT !.conn = [@ EXCEPT ![ConnOf(pool, t)] = Leaked]]
      BY <1>2, <2>2 DEF AfterQuery
    <3>2. AfterQuery(t) \in PoolType /\ AfterQuery(t).queue = pool.queue
      BY <1>0, <3>1 DEF PoolType
    <3> QED
      BY <3>2, SameQueueInTurn
  <2>3. CASE Shape(t) # "leaky"
    <3>1. AfterQuery(t) = release(pool, ConnOf(pool, t))
      BY <1>2, <2>3 DEF AfterQuery
    <3> QED
      BY <1>0, <2>1, <3>1, ReleaseInTurn
  <2> QED
    BY <2>2, <2>3
<1> QED
  BY <1>1, <1>2

LEMMA StepInTurn == ASSUME IInv, [Next]_vars, up' PROVE InTurn(pool, pool')
<1>0. pool \in PoolType
  BY DEF IInv, TypeOK
<1>1. ASSUME NEW r \in Request, NEW h \in Handlers, Receive(r, h) PROVE InTurn(pool, pool')
  <2>1. <<r, 1>> \in Task /\ <<r, 2>> \in Task
    BY DEF Task, Branch
  <2>2. InTurn(pool, pool)
    BY SameQueueInTurn
  <2>3. getConnection(pool, <<r, 1>>) \in PoolType /\ InTurn(pool, getConnection(pool, <<r, 1>>))
    BY <1>0, <2>1, <2>2, GetConnectionKeeps, InTurnThenGet
  <2>4. InTurn(pool, getConnection(getConnection(pool, <<r, 1>>), <<r, 2>>))
    BY <2>1, <2>3, InTurnThenGet
  <2>5. \/ pool' = pool \/ pool' = getConnection(pool, <<r, 1>>)
        \/ pool' = getConnection(getConnection(pool, <<r, 1>>), <<r, 2>>)
    BY <1>1 DEF Receive
  <2> QED
    BY <2>2, <2>3, <2>4, <2>5
<1>2. ASSUME NEW t \in Task, Progress(t) PROVE InTurn(pool, pool')
  <2>0. ~Crash
    BY DEF Crash
  <2>1. CASE Query(t)
    <3>1. ConnOf(pool, t) \in Conn
      BY <2>1, ConnOfOK DEF Query
    <3> QED
      BY <1>0, <2>1, <3>1, ReleaseInTurn, SameQueueInTurn DEF Query
  <2>2. CASE ConnectFails(t)
    <3>1. ConnOf(pool, t) \in Conn /\ pool' = release(pool, ConnOf(pool, t))
      BY <2>0, <2>2, ConnOfOK DEF ConnectFails, NoConnection
    <3> QED
      BY <1>0, <3>1, ReleaseInTurn
  <2>3. CASE Denied(t)
    <3>1. pool' = [pool EXCEPT !.denied = @ \ {t}]
      BY <2>0, <2>3 DEF Denied, NoConnection
    <3>2. pool'.queue = pool.queue
      BY <1>0, <3>1 DEF PoolType
    <3> QED
      BY <3>2, SameQueueInTurn
  <2>4. CASE QueryOk(t)
    <3>1. pool' = AfterQuery(t) \/ pool' = getConnection(AfterQuery(t), t)
      BY <2>0, <2>4 DEF QueryOk
    <3>2. AfterQuery(t) \in PoolType /\ InTurn(pool, AfterQuery(t))
      BY <2>4, AfterQueryInTurn DEF QueryOk
    <3> QED
      BY <3>1, <3>2, InTurnThenGet
  <2>5. CASE QueryFails(t)
    BY <2>0, <2>5, AfterQueryInTurn DEF QueryFails
  <2> QED
    BY <1>2, <2>1, <2>2, <2>3, <2>4, <2>5 DEF Progress
<1>3. CASE Restart \/ (\E r \in Request : NewRequest(r)) \/ UNCHANGED vars
  BY <1>3, SameQueueInTurn DEF Restart, NewRequest, vars
<1> QED
  BY <1>1, <1>2, <1>3 DEF Next

\* The pool serves in turn: as long as the process lives, a task that waits
\* before another has its connection before the other has, however handlers
\* chain, fork, fail or leak; a task that chains queries goes to the end of the
\* queue for each.
THEOREM ServerServesInTurn ==
  Spec => [][up' => \A t, u \in Task : Before(pool, t, u) =>
               \/ Before(pool, t, u)'
               \/ Holding(pool, t)' /\ Waiting(pool, u)' /\ ~Holding(pool, u)']_vars
<1>1. IInv /\ IInv' /\ [Next]_vars =>
        [up' => \A t, u \in Task : Before(pool, t, u) =>
           \/ Before(pool, t, u)'
           \/ Holding(pool, t)' /\ Waiting(pool, u)' /\ ~Holding(pool, u)']_vars
  <2> SUFFICES ASSUME IInv, IInv', [Next]_vars, up', NEW t \in Task, NEW u \in Task, Before(pool, t, u)
               PROVE  \/ Before(pool, t, u)'
                      \/ Holding(pool, t)' /\ Waiting(pool, u)' /\ ~Holding(pool, u)'
    OBVIOUS
  <2>1. Before(pool', t, u) \/ (Holding(pool', t) /\ Waiting(pool', u))
    BY StepInTurn DEF InTurn
  <2>2. Waiting(pool', u) => ~Holding(pool', u)
    BY DEF IInv, PoolOK
  <2> QED
    BY <2>1, <2>2 DEF Before, Holding, Waiting
<1> QED
  BY <1>1, Invariance, PTL DEF Spec
=============================================================================
