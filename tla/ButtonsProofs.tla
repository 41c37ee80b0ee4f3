--------------------------- MODULE ButtonsProofs ---------------------------
(***************************************************************************)
(* Proofs about Expression and about Buttons, its client, for any users,   *)
(* any number of requests under way at a time and any keys.                *)
(***************************************************************************)
EXTENDS Buttons, FiniteSetTheorems, TLAPS

-----------------------------------------------------------------------------
(* Expression.                                                             *)

LEMMA FreeIdle == Free.at = "idle" /\ Free \notin Going
BY DEF Free, Going, Checks, Writes

\* A query that goes on goes on with the same key.
LEMMA ThenOK ==
  ASSUME TypeOK, NEW r \in Request, req[r] # Free,
         NEW at \in Checks \cup Writes \cup {"idle"}, Then(r, at)
  PROVE  /\ req' \in [Request -> {Free} \cup Going]
         /\ \A q \in Request \ {r} : req'[q] = req[q]
         /\ req'[r] = Free \/ (req'[r].at = at /\ req'[r].key = req[r].key)
<1>1. req[r] \in Going
  BY DEF TypeOK
<1>2. CASE req[r].alive /\ at # "idle"
  <2>1. req' = [req EXCEPT ![r] = [req[r] EXCEPT !.at = at]]
    BY <1>2 DEF Then
  <2>2. /\ [req[r] EXCEPT !.at = at] \in Going
        /\ [req[r] EXCEPT !.at = at].at = at /\ [req[r] EXCEPT !.at = at].key = req[r].key
    BY <1>1, <1>2 DEF Going
  <2> QED
    BY <2>1, <2>2 DEF TypeOK
<1>3. CASE ~(req[r].alive /\ at # "idle")
  <2>1. req' = [req EXCEPT ![r] = Free]
    BY <1>3 DEF Then
  <2> QED
    BY <2>1 DEF TypeOK
<1> QED
  BY <1>2, <1>3

LEMMA DiesOK ==
  ASSUME TypeOK, NEW others \in SUBSET Request, Dies(others)
  PROVE  /\ up' \in BOOLEAN
         /\ req' \in [Request -> {Free} \cup Going]
         /\ \A q \in Request :
              req'[q] = Free \/ (req'[q].at = req[q].at /\ req'[q].key = req[q].key)
<1>1. \A q \in Request : req'[q] = IF q \in others /\ req[q] # Free
                                   THEN [req[q] EXCEPT !.alive = FALSE] ELSE Free
  BY DEF Dies
<1>2. \A q \in Request : req[q] # Free =>
        /\ [req[q] EXCEPT !.alive = FALSE] \in Going
        /\ [req[q] EXCEPT !.alive = FALSE].at = req[q].at
        /\ [req[q] EXCEPT !.alive = FALSE].key = req[q].key
  <2> SUFFICES ASSUME NEW q \in Request, req[q] # Free
               PROVE  /\ [req[q] EXCEPT !.alive = FALSE] \in Going
                      /\ [req[q] EXCEPT !.alive = FALSE].at = req[q].at
                      /\ [req[q] EXCEPT !.alive = FALSE].key = req[q].key
    OBVIOUS
  <2>1. req[q] \in Going
    BY DEF TypeOK
  <2> QED
    BY <2>1 DEF Going
<1>3. \A q \in Request : /\ req'[q] \in {Free} \cup Going
                         /\ \/ req'[q] = Free
                            \/ req'[q].at = req[q].at /\ req'[q].key = req[q].key
  BY <1>1, <1>2
<1>4. req' = [q \in Request |-> req'[q]]
  BY DEF Dies
<1>5. up' \in BOOLEAN
  BY DEF Dies
<1> QED
  BY <1>3, <1>4, <1>5

\* How one step changes the rows of a key and the deletions that may reach
\* them: the rows go only by a deletion past its check, and a deletion gets
\* past its check only while there is at most one row.
StepShape ==
  \A k \in Key :
    /\ expr'[k] < expr[k] => \E r \in Request : req[r].key = k /\ req[r].at = "delete"
    /\ \A r \in Request :
         /\ req'[r].key = k /\ req'[r].at \in {"deleteEach", "delete"}
         => \/ req[r].key = k /\ req[r].at \in {"deleteEach", "delete"}
            \/ expr[k] < 2 /\ expr' = expr

LEMMA InitTypeOK == Init => TypeOK
BY DEF Init, TypeOK

\* A query that is no orphan's and no check leads to its successor only.
LEMMA WriteShape ==
  ASSUME TypeOK, NEW r \in Request, req[r] # Free,
         NEW at \in (Writes \cup {"idle"}) \ {"deleteEach"}, Then(r, at),
         at = "delete" => req[r].at = "deleteEach",
         expr' \in [Key -> Nat],
         \A k \in Key : expr'[k] < expr[k] => req[r].key = k /\ req[r].at = "delete"
  PROVE  StepShape
<1>1. at \in Checks \cup Writes \cup {"idle"}
  OBVIOUS
<1>2. /\ \A q \in Request \ {r} : req'[q] = req[q]
      /\ req'[r] = Free \/ (req'[r].at = at /\ req'[r].key = req[r].key)
  BY <1>1, ThenOK
<1> QED
  BY <1>2, FreeIdle DEF StepShape

\* A step that only frees or orphans requests, or leaves them alone.
LEMMA CalmShape ==
  ASSUME \A q \in Request : \/ req'[q] = Free
                            \/ req'[q].at = req[q].at /\ req'[q].key = req[q].key,
         expr \in [Key -> Nat], expr' \in [Key -> Nat],
         \A k \in Key : expr'[k] >= expr[k]
  PROVE  StepShape
BY FreeIdle DEF StepShape

LEMMA NextTypeOK == TypeOK /\ [Next]_vars => TypeOK' /\ StepShape
<1> SUFFICES ASSUME TypeOK, [Next]_vars PROVE TypeOK' /\ StepShape
  OBVIOUS
<1> USE DEF At
<1>s. ASSUME NEW r \in Request, NEW at \in Checks \cup {"insertShow"}, NEW k \in Key, Start(r, at, k)
      PROVE  TypeOK' /\ StepShape
  <2>1. req' = [req EXCEPT ![r] = [at |-> at, key |-> k, alive |-> TRUE]]
    BY <1>s DEF Start
  <2>2. [at |-> at, key |-> k, alive |-> TRUE] \in Going
    BY DEF Going, Writes
  <2>3. TypeOK'
    BY <1>s, <2>1, <2>2 DEF Start, TypeOK
  <2>4. \A q \in Request : q # r => req'[q] = req[q]
    BY <2>1 DEF TypeOK
  <2>5. req'[r].at = at
    BY <2>1 DEF TypeOK
  <2>6. at \notin {"deleteEach", "delete"}
    BY DEF Checks
  <2>7. expr' = expr
    BY <1>s DEF Start
  <2>8. \A j \in Key : ~(expr'[j] < expr[j])
    BY <2>7 DEF TypeOK
  <2> QED
    BY <2>3, <2>4, <2>5, <2>6, <2>8 DEF StepShape
<1>1. ASSUME NEW r \in Request, NEW k \in Key, insert(r, k) PROVE TypeOK' /\ StepShape
  BY <1>1, <1>s DEF insert, Checks
<1>2. ASSUME NEW r \in Request, NEW k \in Key, delete(r, k) PROVE TypeOK' /\ StepShape
  BY <1>2, <1>s DEF delete, Checks
<1>3. ASSUME NEW r \in Request, NEW k \in Key, save_showprofile(r, k) \/ insert_history(r, k)
      PROVE  TypeOK' /\ StepShape
  BY <1>3, <1>s DEF save_showprofile, insert_history, Checks
<1>4. ASSUME NEW r \in Request, Check(r) PROVE TypeOK' /\ StepShape
  <2> DEFINE at == AfterCheck(req[r].at, check_expression_data(req[r].key))
  <2>1. req[r] # Free /\ req[r] \in Going
    BY <1>4, FreeIdle DEF Check, Checks, TypeOK
  <2>2. Then(r, at)
    BY <1>4 DEF Check
  <2>3. at \in Writes \cup {"idle"}
    BY DEF AfterCheck, Writes
  <2>4. at \in {"deleteEach", "delete"} => expr[req[r].key] < 2
    BY DEF AfterCheck, check_expression_data
  <2> HIDE DEF at
  <2>5. /\ req' \in [Request -> {Free} \cup Going]
        /\ \A q \in Request \ {r} : req'[q] = req[q]
        /\ req'[r] = Free \/ (req'[r].at = at /\ req'[r].key = req[r].key)
    BY <2>1, <2>2, <2>3, ThenOK
  <2>6. TypeOK'
    BY <1>4, <2>5 DEF Check, TypeOK
  <2>7. expr' = expr
    BY <1>4 DEF Check
  <2>8. \A j \in Key : ~(expr'[j] < expr[j])
    BY <2>7 DEF TypeOK
  <2> QED
    BY <2>4, <2>5, <2>6, <2>7, <2>8, FreeIdle DEF StepShape
<1>5. ASSUME NEW r \in Request, InsertFirst(r) PROVE TypeOK' /\ StepShape
  <2>1. req[r] # Free /\ req[r] \in Going
    BY <1>5, FreeIdle DEF InsertFirst, TypeOK
  <2>2. expr' \in [Key -> Nat] /\ \A k \in Key : expr'[k] >= expr[k]
    <3>1. expr' = expr \/ expr' = [expr EXCEPT ![req[r].key] = expr[req[r].key] + 1]
      BY <1>5 DEF InsertFirst
    <3>2. req[r].key \in Key
      BY <2>1 DEF Going
    <3> QED
      BY <3>1, <3>2 DEF TypeOK
  <2>3. CASE req[r].alive
    <3>1. Dies(Request \ {r})
      BY <1>5, <2>3 DEF InsertFirst
    <3>2. TypeOK'
      BY <1>5, <2>2, <3>1, DiesOK DEF InsertFirst, TypeOK
    <3>3. \A q \in Request : req'[q] = Free \/ (req'[q].at = req[q].at /\ req'[q].key = req[q].key)
      BY <3>1, DiesOK
    <3>4. expr \in [Key -> Nat]
      BY DEF TypeOK
    <3> QED
      BY <2>2, <3>2, <3>3, <3>4, CalmShape
  <2>4. CASE ~req[r].alive
    <3>1. Then(r, "idle") /\ UNCHANGED up
      BY <1>5, <2>4 DEF InsertFirst
    <3>2. req' = [req EXCEPT ![r] = Free]
      BY <3>1 DEF Then
    <3>3. TypeOK'
      BY <1>5, <2>2, <3>1, <3>2 DEF InsertFirst, TypeOK
    <3>4. \A q \in Request : req'[q] = Free \/ req'[q] = req[q]
      BY <3>2 DEF TypeOK
    <3>5. expr \in [Key -> Nat]
      BY DEF TypeOK
    <3> QED
      BY <2>2, <3>3, <3>4, <3>5, CalmShape
  <2> QED
    BY <2>3, <2>4
<1>6. ASSUME NEW r \in Request,
             \/ InsertAgain(r) \/ InsertEach(r) \/ DeleteEach(r) \/ Delete(r)
             \/ InsertShow(r) \/ Charge(r) \/ InsertVisit(r) \/ UpdateVisit(r)
      PROVE TypeOK' /\ StepShape
  <2>1. req[r] # Free /\ req[r] \in Going
    BY <1>6, FreeIdle DEF InsertAgain, InsertEach, DeleteEach, Delete, InsertShow, Charge, InsertVisit, UpdateVisit, TypeOK
  <2>2. req[r].key \in Key
    BY <2>1 DEF Going
  <2>3. /\ up' = up
        /\ expr' \in [Key -> Nat] /\ each' \in [Key -> Nat] /\ paid' \in [Key -> Nat]
        /\ \A k \in Key : expr'[k] < expr[k] => req[r].key = k /\ req[r].at = "delete"
        /\ \E at \in (Writes \cup {"idle"}) \ {"deleteEach"} :
             Then(r, at) /\ (at = "delete" => req[r].at = "deleteEach")
    <3>1. CASE InsertAgain(r)
      <4>1. expr' = [expr EXCEPT ![req[r].key] = expr[req[r].key] + 1]
        BY <3>1 DEF InsertAgain
      <4>2. expr' \in [Key -> Nat] /\ \A k \in Key : expr'[k] >= expr[k]
        BY <2>2, <4>1 DEF TypeOK
      <4> QED
        BY <3>1, <4>2 DEF InsertAgain, TypeOK, Writes
    <3>2. CASE InsertEach(r)
      <4>1. each' = [each EXCEPT ![req[r].key] = each[req[r].key] + 1]
        BY <3>2 DEF InsertEach
      <4>2. each' \in [Key -> Nat]
        BY <2>2, <4>1 DEF TypeOK
      <4> QED
        BY <3>2, <4>2 DEF InsertEach, TypeOK
    <3>3. CASE DeleteEach(r)
      <4>1. each' \in [Key -> Nat]
        BY <3>3 DEF DeleteEach, delete_expressioneach_data, TypeOK
      <4> QED
        BY <3>3, <4>1 DEF DeleteEach, TypeOK, Writes
    <3>4. CASE Delete(r)
      <4>1. expr' = [expr EXCEPT ![req[r].key] = 0]
        BY <3>4 DEF Delete
      <4>2. expr' \in [Key -> Nat] /\ \A k \in Key : k # req[r].key => expr'[k] = expr[k]
        BY <2>2, <4>1 DEF TypeOK
      <4> QED
        BY <3>4, <4>2 DEF Delete, TypeOK
    <3>5. CASE InsertShow(r)
      <4>1. expr' = [expr EXCEPT ![req[r].key] = expr[req[r].key] + 1]
        BY <3>5 DEF InsertShow
      <4>2. expr' \in [Key -> Nat] /\ \A k \in Key : expr'[k] >= expr[k]
        BY <2>2, <4>1 DEF TypeOK
      <4> QED
        BY <3>5, <4>2 DEF InsertShow, TypeOK, Writes
    <3>6. CASE Charge(r)
      <4>1. paid' = [paid EXCEPT ![req[r].key] = paid[req[r].key] + 1]
        BY <3>6 DEF Charge
      <4>2. paid' \in [Key -> Nat]
        BY <2>2, <4>1 DEF TypeOK
      <4> QED
        BY <3>6, <4>2 DEF Charge, TypeOK
    <3>7. CASE InsertVisit(r)
      <4>1. expr' = [expr EXCEPT ![req[r].key] = expr[req[r].key] + 1]
        BY <3>7 DEF InsertVisit
      <4>2. expr' \in [Key -> Nat] /\ \A k \in Key : expr'[k] >= expr[k]
        BY <2>2, <4>1 DEF TypeOK
      <4> QED
        BY <3>7, <4>2 DEF InsertVisit, TypeOK
    <3>8. CASE UpdateVisit(r)
      BY <3>8 DEF UpdateVisit, TypeOK
    <3> QED
      BY <1>6, <3>1, <3>2, <3>3, <3>4, <3>5, <3>6, <3>7, <3>8
  <2>4. PICK at \in (Writes \cup {"idle"}) \ {"deleteEach"} :
          Then(r, at) /\ (at = "delete" => req[r].at = "deleteEach")
    BY <2>3
  <2>5. req' \in [Request -> {Free} \cup Going]
    BY <2>1, <2>4, ThenOK
  <2>6. StepShape
    BY <2>1, <2>3, <2>4, WriteShape
  <2> QED
    BY <2>3, <2>5, <2>6 DEF TypeOK
<1>7. ASSUME NEW r \in Request, Fails(r) PROVE TypeOK' /\ StepShape
  <2>1. req' = [req EXCEPT ![r] = Free] /\ expr' = expr
    BY <1>7 DEF Fails
  <2>2. \A q \in Request : req'[q] = Free \/ req'[q] = req[q]
    BY <2>1 DEF TypeOK
  <2>3. TypeOK'
    BY <1>7, <2>1 DEF Fails, TypeOK
  <2>4. expr \in [Key -> Nat] /\ \A k \in Key : expr'[k] >= expr[k]
    BY <2>1 DEF TypeOK
  <2> QED
    BY <2>1, <2>2, <2>3, <2>4, CalmShape
<1>8. ASSUME Crash PROVE TypeOK' /\ StepShape
  <2>1. Dies(Request) /\ UNCHANGED <<expr, each, paid>>
    BY <1>8 DEF Crash
  <2>2. TypeOK' /\ \A q \in Request :
          req'[q] = Free \/ (req'[q].at = req[q].at /\ req'[q].key = req[q].key)
    BY <2>1, DiesOK DEF TypeOK
  <2>3. expr \in [Key -> Nat] /\ \A k \in Key : expr'[k] >= expr[k]
    BY <2>1 DEF TypeOK
  <2> QED
    BY <2>1, <2>2, <2>3, CalmShape
<1>9. ASSUME UNCHANGED <<req, expr, each, paid>>, up' \in BOOLEAN PROVE TypeOK' /\ StepShape
  <2>1. expr \in [Key -> Nat] /\ \A k \in Key : expr'[k] >= expr[k]
    BY <1>9 DEF TypeOK
  <2>2. TypeOK'
    BY <1>9 DEF TypeOK
  <2> QED
    BY <1>9, <2>1, <2>2, CalmShape
<1>10. CASE Restart
  BY <1>9, <1>10 DEF Restart
<1>11. CASE UNCHANGED vars
  BY <1>9, <1>11 DEF vars, TypeOK
<1> QED
  BY <1>1, <1>2, <1>3, <1>4, <1>5, <1>6, <1>7, <1>8, <1>10, <1>11 DEF Next, Query
-----------------------------------------------------------------------------
\* The tables hold numbers of rows and every request is at a query of its chain.
THEOREM ExpressionTypeCorrect == Spec => []TypeOK
BY InitTypeOK, NextTypeOK, PTL DEF Spec

\* A like that was inserted twice can never be withdrawn.
THEOREM ExpressionStuckStays == Spec => StuckStays
<1>1. TypeOK /\ TypeOK' /\ StepShape => \A k \in Key : Stuck(k) => Stuck(k)'
  BY DEF StepShape, Stuck, TypeOK
<1>2. TypeOK /\ [Next]_vars => [\A k \in Key : Stuck(k) => Stuck(k)']_vars
  BY <1>1, NextTypeOK
<1> QED
  BY <1>2, ExpressionTypeCorrect, PTL DEF Spec, StuckStays
-----------------------------------------------------------------------------
\* One step of the server, by what it does to the rows, to the charges and to
\* the requests: one begins, one query is executed, or some requests end.
LikingAt == {"checkInsert", "checkDelete", "insertFirst", "insertAgain", "insertEach", "deleteEach", "delete"}
ShowAt == {"insertShow", "charge"}
VisitAt == {"checkVisit", "insertVisit", "updateVisit"}
KindOf(at, k) ==
  /\ at \in LikingAt => k[3] \in Liking
  /\ at \in ShowAt => k[3] = "show"
  /\ at \in VisitAt => k[3] = "visit"

Follow(at, count) ==
  IF at \in Checks THEN AfterCheck(at, count)
  ELSE IF at = "insertAgain" THEN "insertEach"
  ELSE IF at = "deleteEach" THEN "delete"
  ELSE IF at = "insertShow" THEN "charge" ELSE "idle"

Adds == {"insertFirst", "insertAgain", "insertShow", "insertVisit"}

Same(q) == req'[q] = Free \/ (req[q] # Free /\ req'[q].at = req[q].at /\ req'[q].key = req[q].key)

Begins(r, at, k) ==
  /\ at \in Checks \cup {"insertShow"} /\ KindOf(at, k) /\ req[r] = Free
  /\ req'[r] # Free /\ req'[r].at = at /\ req'[r].key = k
  /\ \A q \in Request \ {r} : req'[q] = req[q]
  /\ expr' = expr /\ paid' = paid

Runs(r) ==
  /\ req[r] # Free /\ req[r].key \in Key
  /\ \/ req'[r] = Free
     \/ req'[r].key = req[r].key /\ req'[r].at = Follow(req[r].at, expr[req[r].key])
  /\ \A q \in Request \ {r} : Same(q)
  /\ expr' = IF req[r].at \in Adds THEN [expr EXCEPT ![req[r].key] = @ + 1]
             ELSE IF req[r].at = "delete" THEN [expr EXCEPT ![req[r].key] = 0] ELSE expr
  /\ paid' = IF req[r].at = "charge" THEN [paid EXCEPT ![req[r].key] = @ + 1] ELSE paid

Calm == (\A q \in Request : Same(q)) /\ expr' = expr /\ paid' = paid

LEMMA StartCases ==
  ASSUME TypeOK, NEW r \in Request, NEW k \in Key
  PROVE  /\ insert(r, k) => Begins(r, "checkInsert", k)
         /\ delete(r, k) => Begins(r, "checkDelete", k)
         /\ save_showprofile(r, k) => Begins(r, "insertShow", k)
         /\ insert_history(r, k) => Begins(r, "checkVisit", k)
<1>s. ASSUME NEW at \in Checks \cup {"insertShow"}, KindOf(at, k), Start(r, at, k)
      PROVE  Begins(r, at, k)
  <2>1. req' = [req EXCEPT ![r] = [at |-> at, key |-> k, alive |-> TRUE]] /\ req[r] = Free
    BY <1>s DEF Start
  <2>2. req'[r] = [at |-> at, key |-> k, alive |-> TRUE] /\ \A q \in Request \ {r} : req'[q] = req[q]
    BY <2>1 DEF TypeOK
  <2>3. at # "idle"
    BY DEF Checks
  <2>4. req'[r] # Free
    BY <2>2, <2>3, FreeIdle
  <2> QED
    BY <1>s, <2>1, <2>2, <2>4 DEF Begins, Start
<1> QED
  BY <1>s DEF insert, delete, save_showprofile, insert_history, KindOf, LikingAt, ShowAt, VisitAt, Checks

LEMMA EndsSame ==
  ASSUME TypeOK
  PROVE  /\ \A others \in SUBSET Request : Dies(others) => \A q \in Request : Same(q)
         /\ \A r \in Request : req' = [req EXCEPT ![r] = Free] => \A q \in Request : Same(q)
<1>d. ASSUME NEW others \in SUBSET Request, Dies(others), NEW q \in Request, req'[q] # Free PROVE Same(q)
  <2>1. req[q] # Free
    BY <1>d DEF Dies
  <2> QED
    BY <1>d, <2>1, DiesOK DEF Same
<1>f. ASSUME NEW r \in Request, req' = [req EXCEPT ![r] = Free] PROVE \A q \in Request : Same(q)
  BY <1>f DEF TypeOK, Same
<1> QED
  BY <1>d, <1>f DEF Same

LEMMA QueryCases ==
  ASSUME TypeOK, NEW r \in Request, Query(r) PROVE Runs(r) \/ Calm
<1> USE DEF At
<1>t. ASSUME req[r] # Free, NEW at \in Checks \cup Writes \cup {"idle"},
             at = Follow(req[r].at, expr[req[r].key]), Then(r, at)
      PROVE  /\ req[r].key \in Key
             /\ req'[r] = Free \/ (req'[r].key = req[r].key /\ req'[r].at = Follow(req[r].at, expr[req[r].key]))
             /\ \A q \in Request \ {r} : Same(q)
  <2>1. /\ \A q \in Request \ {r} : req'[q] = req[q]
        /\ req'[r] = Free \/ (req'[r].at = at /\ req'[r].key = req[r].key)
    BY <1>t, ThenOK
  <2>2. req[r] \in Going
    BY <1>t DEF TypeOK
  <2> QED
    BY <1>t, <2>1, <2>2 DEF Same, Going
<1>2. CASE Check(r)
  <2>1. req[r] # Free /\ req[r].at \in Checks
    BY <1>2, FreeIdle DEF Check, Checks
  <2>2. Then(r, AfterCheck(req[r].at, expr[req[r].key])) /\ expr' = expr /\ paid' = paid
    BY <1>2 DEF Check, check_expression_data
  <2>3. AfterCheck(req[r].at, expr[req[r].key]) \in Checks \cup Writes \cup {"idle"}
    BY DEF AfterCheck, Writes
  <2>4. AfterCheck(req[r].at, expr[req[r].key]) = Follow(req[r].at, expr[req[r].key])
    BY <2>1 DEF Follow
  <2>5. req[r].at \notin Adds /\ req[r].at \notin {"delete", "charge"}
    BY <2>1 DEF Checks, Adds
  <2> QED
    BY <2>1, <2>2, <2>3, <2>4, <2>5, <1>t DEF Runs
<1>3. CASE \/ InsertAgain(r) \/ InsertEach(r) \/ DeleteEach(r) \/ Delete(r)
           \/ InsertShow(r) \/ Charge(r) \/ InsertVisit(r) \/ UpdateVisit(r)
  <2>1. req[r] # Free /\ req[r].at \notin Checks
    BY <1>3, FreeIdle DEF InsertAgain, InsertEach, DeleteEach, Delete, InsertShow, Charge, InsertVisit,
                          UpdateVisit, Checks
  <2>2. Follow(req[r].at, expr[req[r].key]) \in Writes \cup {"idle"}
    BY <2>1 DEF Follow, Writes
  <2>3. Then(r, Follow(req[r].at, expr[req[r].key]))
    BY <1>3 DEF InsertAgain, InsertEach, DeleteEach, Delete, InsertShow, Charge, InsertVisit,
                UpdateVisit, Checks, Follow
  <2>4. /\ expr' = IF req[r].at \in Adds THEN [expr EXCEPT ![req[r].key] = @ + 1]
                   ELSE IF req[r].at = "delete" THEN [expr EXCEPT ![req[r].key] = 0] ELSE expr
        /\ paid' = IF req[r].at = "charge" THEN [paid EXCEPT ![req[r].key] = @ + 1] ELSE paid
    BY <1>3 DEF InsertAgain, InsertEach, DeleteEach, Delete, InsertShow, Charge, InsertVisit,
                UpdateVisit, Adds
  <2> QED
    BY <2>1, <2>2, <2>3, <2>4, <1>t DEF Runs
<1>4. CASE InsertFirst(r)
  <2>1. req[r] # Free /\ req[r].at = "insertFirst" /\ req[r] \in Going
    BY <1>4, FreeIdle DEF InsertFirst, TypeOK
  <2>2. \A q \in Request : Same(q)
    <3>1. CASE req[r].alive
      BY <1>4, EndsSame, <3>1 DEF InsertFirst
    <3>2. CASE ~req[r].alive
      BY <1>4, EndsSame, <3>2 DEF InsertFirst, Then
    <3> QED
      BY <3>1, <3>2
  <2>3. req'[r] = Free
    <3>1. CASE req[r].alive
      BY <1>4, <3>1 DEF InsertFirst, Dies
    <3>2. CASE ~req[r].alive
      BY <1>4, <3>2 DEF InsertFirst, Then, TypeOK
    <3> QED
      BY <3>1, <3>2
  <2>4. paid' = paid /\ (expr' = expr \/ expr' = [expr EXCEPT ![req[r].key] = @ + 1])
    BY <1>4 DEF InsertFirst
  <2>5. req[r].key \in Key
    BY <2>1 DEF Going
  <2>6. req[r].at \in Adds /\ req[r].at # "charge"
    BY <2>1 DEF Adds
  <2> QED
    BY <2>1, <2>2, <2>3, <2>4, <2>5, <2>6 DEF Runs, Calm
<1>5. CASE Fails(r)
  BY <1>5, EndsSame DEF Fails, Calm
<1> QED
  BY <1>2, <1>3, <1>4, <1>5 DEF Query

LEMMA CalmCases == ASSUME TypeOK, Crash \/ Restart \/ UNCHANGED vars PROVE Calm
<1>1. CASE Crash
  BY <1>1, EndsSame DEF Crash, Calm
<1>2. CASE Restart \/ UNCHANGED vars
  <2>1. UNCHANGED <<req, expr, paid>>
    BY <1>2 DEF Restart, vars
  <2> QED
    BY <2>1 DEF Calm, Same
<1> QED
  BY <1>1, <1>2

LEMMA ServerCases ==
  ASSUME TypeOK, [Next]_vars
  PROVE  \/ \E r \in Request, k \in Key, at \in Checks \cup {"insertShow"} : Begins(r, at, k)
         \/ \E r \in Request : Runs(r)
         \/ Calm
<1>1. ASSUME NEW r \in Request, NEW k \in Key,
             insert(r, k) \/ delete(r, k) \/ save_showprofile(r, k) \/ insert_history(r, k)
      PROVE  \E at \in Checks \cup {"insertShow"} : Begins(r, at, k)
  BY <1>1, StartCases DEF Checks
<1> QED
  BY <1>1, QueryCases, CalmCases DEF Next
-----------------------------------------------------------------------------
\* A request is where requests of its key's type go, and only openings are
\* charged.
KindOK ==
  /\ \A r \in Request : KindOf(req[r].at, req[r].key)
  /\ \A k \in Key : paid[k] # 0 => k[3] = "show"

LEMMA FollowKind ==
  ASSUME NEW at, NEW count, NEW k, KindOf(at, k) PROVE KindOf(Follow(at, count), k)
BY DEF KindOf, Follow, AfterCheck, Checks, LikingAt, ShowAt, VisitAt

LEMMA KindStep == ASSUME TypeOK, KindOK, [Next]_vars PROVE KindOK'
<1>f. KindOf("idle", Free.key) /\ Free.at = "idle"
  BY FreeIdle DEF KindOf, LikingAt, ShowAt, VisitAt
<1>s. ASSUME NEW q \in Request, Same(q) PROVE KindOf(req'[q].at, req'[q].key)
  BY <1>f, <1>s DEF Same, KindOK
<1>1. ASSUME NEW r \in Request, NEW k \in Key, NEW at \in Checks \cup {"insertShow"}, Begins(r, at, k)
      PROVE  KindOK'
  <2>1. \A q \in Request \ {r} : req'[q] = req[q]
    BY <1>1 DEF Begins
  <2>2. KindOf(req'[r].at, req'[r].key) /\ paid' = paid
    BY <1>1 DEF Begins
  <2> QED
    BY <2>1, <2>2 DEF KindOK
<1>2. ASSUME NEW r \in Request, Runs(r) PROVE KindOK'
  <2>1. KindOf(req[r].at, req[r].key)
    BY DEF KindOK
  <2>2. KindOf(req'[r].at, req'[r].key)
    BY <1>2, <1>f, <2>1, FollowKind DEF Runs
  <2>3. \A q \in Request \ {r} : KindOf(req'[q].at, req'[q].key)
    BY <1>2, <1>s DEF Runs
  <2>4. ASSUME NEW k \in Key, paid'[k] # 0 PROVE k[3] = "show"
    <3>1. CASE req[r].at = "charge"
      <4>1. req[r].key[3] = "show"
        BY <2>1, <3>1 DEF KindOf, ShowAt
      <4> QED
        BY <1>2, <2>4, <3>1, <4>1 DEF Runs, KindOK, TypeOK
    <3>2. CASE req[r].at # "charge"
      BY <1>2, <2>4, <3>2 DEF Runs, KindOK
    <3> QED
      BY <3>1, <3>2
  <2> QED
    BY <2>2, <2>3, <2>4 DEF KindOK
<1>3. CASE Calm
  BY <1>3, <1>s DEF Calm, KindOK
<1> QED
  BY <1>1, <1>2, <1>3, ServerCases

\* What a key was charged grows by a query that leaves the charges under way,
\* and those grow only when a row was written for them.
LEMMA ChargeStep ==
  ASSUME TypeOK, KindOK, NoChargeWithoutShow, [Next]_vars PROVE NoChargeWithoutShow'
<1>f. Free.at # "charge"
  BY FreeIdle
<1> SUFFICES ASSUME NEW k \in Key PROVE paid'[k] + Cardinality(Charging(k)') <= expr'[k]
  BY DEF NoChargeWithoutShow
<1>0. /\ IsFiniteSet(Charging(k)) /\ Cardinality(Charging(k)) \in Nat
      /\ paid[k] \in Nat /\ expr[k] \in Nat
      /\ paid[k] + Cardinality(Charging(k)) <= expr[k]
  <2>1. IsFiniteSet(Charging(k))
    BY ExpressionAssumption, FS_Subset DEF Charging
  <2> QED
    BY <2>1, FS_CardinalityType DEF TypeOK, NoChargeWithoutShow
<1>c. ASSUME Charging(k)' \subseteq Charging(k)
      PROVE  Cardinality(Charging(k)') \in Nat /\ Cardinality(Charging(k)') <= Cardinality(Charging(k))
  BY <1>0, <1>c, FS_Subset, FS_CardinalityType
<1>a. ASSUME Charging(k)' \subseteq Charging(k), paid'[k] = paid[k], expr'[k] \in Nat, expr'[k] >= expr[k]
      PROVE  paid'[k] + Cardinality(Charging(k)') <= expr'[k]
  BY <1>0, <1>a, <1>c
<1>s. ASSUME NEW q \in Request, Same(q), q \in Charging(k)' PROVE q \in Charging(k)
  BY <1>f, <1>s DEF Same, Charging, At
<1>1. ASSUME NEW r \in Request, NEW j \in Key, NEW at \in Checks \cup {"insertShow"}, Begins(r, at, j)
      PROVE  paid'[k] + Cardinality(Charging(k)') <= expr'[k]
  <2>1. at # "charge"
    BY DEF Checks
  <2>2. Charging(k)' \subseteq Charging(k)
    BY <1>1, <2>1 DEF Begins, Charging, At
  <2> QED
    BY <1>0, <1>1, <1>a, <2>2 DEF Begins
<1>2. ASSUME NEW r \in Request, Runs(r)
      PROVE  paid'[k] + Cardinality(Charging(k)') <= expr'[k]
  <2>1. Charging(k)' \subseteq Charging(k) \cup {r}
    BY <1>2, <1>s DEF Runs, Charging
  <2>2. /\ req[r].key \in Key
        /\ req'[r] = Free \/ (req'[r].key = req[r].key /\ req'[r].at = Follow(req[r].at, expr[req[r].key]))
    BY <1>2 DEF Runs
  <2>3. req[r].at # "insertShow" => req'[r].at # "charge"
    BY <2>2, <1>f DEF Follow, AfterCheck
  <2>4. req[r].key # k => r \notin Charging(k)'
    BY <2>2, <2>3, <1>f DEF Charging, At
  <2>5. CASE req[r].key # k
    <3>1. Charging(k)' \subseteq Charging(k)
      BY <2>1, <2>4, <2>5
    <3>2. paid'[k] = paid[k] /\ expr'[k] = expr[k]
      BY <1>2, <2>2, <2>5 DEF Runs, TypeOK
    <3> QED
      BY <1>0, <1>a, <3>1, <3>2
  <2>6. CASE req[r].key = k /\ req[r].at = "insertShow"
    <3>1. expr'[k] = expr[k] + 1 /\ paid'[k] = paid[k]
      BY <1>2, <2>2, <2>6 DEF Runs, TypeOK, Adds
    <3>a. /\ IsFiniteSet(Charging(k) \cup {r})
          /\ Cardinality(Charging(k) \cup {r}) = IF r \in Charging(k) THEN Cardinality(Charging(k))
                                                 ELSE Cardinality(Charging(k)) + 1
      BY <1>0, FS_AddElement
    <3>2. Cardinality(Charging(k) \cup {r}) <= Cardinality(Charging(k)) + 1 /\ IsFiniteSet(Charging(k) \cup {r})
      BY <1>0, <3>a
    <3>3. Cardinality(Charging(k)') <= Cardinality(Charging(k) \cup {r})
      BY <2>1, <3>2, FS_Subset
    <3>4. Cardinality(Charging(k)') \in Nat /\ Cardinality(Charging(k) \cup {r}) \in Nat
      BY <2>1, <3>2, FS_Subset, FS_CardinalityType
    <3> QED
      BY <1>0, <3>1, <3>2, <3>3, <3>4
  <2>7. CASE req[r].key = k /\ req[r].at = "charge"
    <3>1. expr'[k] = expr[k] /\ paid'[k] = paid[k] + 1
      BY <1>2, <2>2, <2>7 DEF Runs, TypeOK, Adds
    <3>2. r \in Charging(k) /\ r \notin Charging(k)'
      BY <2>3, <2>7 DEF Charging, At
    <3>3. Cardinality(Charging(k) \ {r}) = Cardinality(Charging(k)) - 1 /\ IsFiniteSet(Charging(k) \ {r})
      BY <1>0, <3>2, FS_RemoveElement
    <3>4. Charging(k)' \subseteq Charging(k) \ {r}
      BY <2>1, <3>2
    <3>5. Cardinality(Charging(k)') <= Cardinality(Charging(k)) - 1 /\ Cardinality(Charging(k)') \in Nat
      BY <3>3, <3>4, FS_Subset, FS_CardinalityType
    <3> QED
      BY <1>0, <3>1, <3>5
  <2>8. CASE req[r].key = k /\ req[r].at = "delete"
    <3>1. k[3] \in Liking
      BY <2>8 DEF KindOK, KindOf, LikingAt
    <3>2. k[3] # "show"
      BY <3>1 DEF Liking
    <3>3. Charging(k)' = {}
      <4>1. Charging(k) = {}
        BY <3>2 DEF KindOK, KindOf, ShowAt, Charging, At
      <4> QED
        BY <2>1, <2>3, <2>8, <4>1 DEF Charging, At
    <3>4. paid'[k] = 0 /\ expr'[k] = 0
      BY <1>2, <2>2, <2>8, <3>2 DEF Runs, KindOK, TypeOK, Adds
    <3> QED
      BY <3>3, <3>4, FS_EmptySet
  <2>9. CASE req[r].key = k /\ req[r].at \notin {"insertShow", "charge", "delete"}
    <3>1. Charging(k)' \subseteq Charging(k)
      BY <2>1, <2>3, <2>9 DEF Charging, At
    <3>2. paid'[k] = paid[k] /\ expr'[k] \in Nat /\ expr'[k] >= expr[k]
      BY <1>2, <2>2, <2>9 DEF Runs, TypeOK
    <3> QED
      BY <1>a, <3>1, <3>2
  <2> QED
    BY <2>5, <2>6, <2>7, <2>8, <2>9
<1>3. CASE Calm
  <2>1. Charging(k)' \subseteq Charging(k)
    BY <1>3, <1>s DEF Calm, Charging
  <2> QED
    BY <1>0, <1>3, <1>a, <2>1 DEF Calm
<1> QED
  BY <1>1, <1>2, <1>3, ServerCases

\* Nobody is charged for a profile that was not opened to them, for any
\* number of requests and whatever fails between the two queries.
THEOREM ExpressionNoChargeWithoutShow == Spec => []NoChargeWithoutShow
<1>1. Init => KindOK /\ NoChargeWithoutShow
  <2> SUFFICES ASSUME Init PROVE KindOK /\ NoChargeWithoutShow
    OBVIOUS
  <2>1. \A r \in Request : req[r] = Free
    BY DEF Init
  <2>2. KindOK
    BY <2>1, FreeIdle DEF Init, KindOK, KindOf, LikingAt, ShowAt, VisitAt
  <2>3. \A k \in Key : Charging(k) = {}
    BY <2>1, FreeIdle DEF Charging, At
  <2> QED
    BY <2>2, <2>3, FS_EmptySet DEF Init, NoChargeWithoutShow
<1>2. TypeOK /\ KindOK /\ NoChargeWithoutShow /\ [Next]_vars => (KindOK /\ NoChargeWithoutShow)'
  BY KindStep, ChargeStep
<1> QED
  BY <1>1, <1>2, ExpressionTypeCorrect, PTL DEF Spec
-----------------------------------------------------------------------------
(* Buttons.                                                                *)

\* The state a tap starts from, without the two relations of ButtonsTypeOK.
ClientTypeOK ==
  /\ shown \in [Key -> BOOLEAN] /\ inList \in [Key -> BOOLEAN] /\ item \in [Key -> BOOLEAN] /\ reading \in [Key -> Reading]
  /\ waits \in [Request -> {NoTap} \cup Tap] /\ disturbed \in [Key -> BOOLEAN]

LEMMA NoTapOK == NoTap.for = "nothing" /\ ~NoTap.heard /\ NoTap \notin Tap
BY DEF NoTap, Tap

\* What Send makes of a request that waits for nothing.
MadeTap(for, k) == [NoTap EXCEPT !.for = for, !.key = k]

LEMMA TapMade ==
  ASSUME NEW for \in {"insert", "delete", "visit"}, NEW k \in Key
  PROVE  /\ MadeTap(for, k) \in Tap /\ MadeTap(for, k) # NoTap /\ MadeTap(for, k).key = k
         /\ MadeTap(for, k).for = for /\ ~MadeTap(for, k).heard /\ ~MadeTap(for, k).gone
BY DEF NoTap, Tap, MadeTap

LEMMA TapOK ==
  ASSUME NEW tap \in Tap
  PROVE  tap # NoTap /\ tap.key \in Key /\ tap.for \in {"insert", "delete", "visit"}
BY NoTapOK DEF Tap

LEMMA HeardOK ==
  ASSUME NEW tap \in Tap, NEW t, t = [tap EXCEPT !.heard = TRUE]
  PROVE  t \in Tap /\ t # NoTap /\ t.key = tap.key /\ t.for = tap.for /\ t.heard /\ t.gone = tap.gone
BY NoTapOK DEF Tap

LEMMA AgainOK ==
  ASSUME NEW tap \in Tap, NEW t, t = [tap EXCEPT !.again = TRUE, !.heard = FALSE]
  PROVE  t \in Tap /\ t.key = tap.key /\ ~t.heard
BY DEF Tap

LEMMA GoneOK ==
  ASSUME NEW tap \in Tap, NEW t, t = [tap EXCEPT !.gone = TRUE]
  PROVE  t \in Tap /\ t # NoTap /\ t.key = tap.key /\ t.heard = tap.heard
BY NoTapOK DEF Tap

LEMMA HandlerOK ==
  ASSUME TypeOK, NEW r \in Request, NEW k \in Key, NEW for \in {"insert", "delete", "visit"}, Handler(r, for, k)
  PROVE  /\ \E at \in Checks : /\ Begins(r, at, k)
                               /\ at = "checkInsert" <=> for = "insert"
                               /\ at = "checkDelete" <=> for = "delete"
         /\ for = "visit" <=> k[3] = "visit"
         /\ for # "visit" <=> k[3] \in Liking
         /\ Next
<1>1. CASE for = "insert"
  BY <1>1, StartCases DEF Handler, Next, insert, Checks, Liking
<1>2. CASE for = "delete"
  BY <1>2, StartCases DEF Handler, Next, delete, Checks, Liking
<1>3. CASE for = "visit"
  BY <1>3, StartCases DEF Handler, Next, insert_history, Checks, Liking
<1> QED
  BY <1>1, <1>2, <1>3

\* A client beside the tables takes no step that Expression does not know, so
\* that what is proved of Expression holds beside it.
LEMMA ButtonsSteps == TypeOK /\ ClientTypeOK /\ [ButtonsNext]_buttonsVars => [Next]_vars
<1> SUFFICES ASSUME TypeOK, ClientTypeOK, [ButtonsNext]_buttonsVars PROVE Next \/ UNCHANGED vars
  OBVIOUS
<1>1. ASSUME NEW r \in Request, NEW k \in Key, Send(r, k) PROVE Next
  BY <1>1, HandlerOK DEF Send, Purpose
<1>2. ASSUME NEW r \in Request, NEW k \in Key, ShowsProfile(r, k) PROVE Next
  BY <1>2 DEF ShowsProfile, Next
<1>3. ASSUME NEW r \in Request, ServerStep(r) PROVE Next
  BY <1>3 DEF ServerStep, Answers, Next, Query
<1>4. ASSUME NEW r \in Request, Reply(r) \/ GivesUp(r) PROVE UNCHANGED vars
  BY <1>4 DEF Reply, GivesUp
<1>5. ASSUME NEW r \in Request, NEW s \in Request, SentAgain(r, s) PROVE Next
  <2>1. waits[r] \in Tap
    BY <1>5 DEF SentAgain, ClientTypeOK
  <2>2. Handler(s, waits[r].for, waits[r].key)
    BY <1>5 DEF SentAgain
  <2> QED
    BY <2>1, <2>2, TapOK, HandlerOK
<1>6. ASSUME NEW k, Page(k) PROVE UNCHANGED vars
  BY <1>6 DEF Page, TapLost, Opens, Refreshes, Rebinds, Returns, ServerReads, ReadReply, ReadFails, Closes
<1>7. CASE (Crash \/ Restart) /\ UNCHANGED client
  BY <1>7 DEF Next
<1>8. CASE UNCHANGED buttonsVars
  BY <1>8 DEF buttonsVars
<1> QED
  BY <1>1, <1>2, <1>3, <1>4, <1>5, <1>6, <1>7, <1>8 DEF ButtonsNext

\* A query whose callback answers frees its request; no other query does more
\* to a request than ServerCases says.
LEMMA AnswersOK ==
  ASSUME TypeOK, NEW r \in Request, Answers(r)
  PROVE  req[r] # Free /\ req'[r] = Free /\ Runs(r) /\ \A q \in Request \ {r} : req'[q] = req[q]
<1>1. Query(r) /\ Then(r, "idle") /\ req[r] # Free
  BY FreeIdle DEF Answers, Query, InsertEach, Delete, InsertVisit, UpdateVisit, At
<1>2. req' = [req EXCEPT ![r] = Free]
  BY <1>1 DEF Then
<1>3. Runs(r) \/ Calm
  BY <1>1, QueryCases
<1>4. req'[r] = Free /\ \A q \in Request \ {r} : req'[q] = req[q]
  BY <1>2 DEF TypeOK
<1>5. Runs(r)
  <2>1. req[r].key \in Key
    BY <1>1 DEF TypeOK, Going
  <2>2. \A q \in Request \ {r} : Same(q)
    BY <1>4 DEF Same
  <2>3. /\ expr' = IF req[r].at \in Adds THEN [expr EXCEPT ![req[r].key] = @ + 1]
                   ELSE IF req[r].at = "delete" THEN [expr EXCEPT ![req[r].key] = 0] ELSE expr
        /\ paid' = IF req[r].at = "charge" THEN [paid EXCEPT ![req[r].key] = @ + 1] ELSE paid
    BY DEF Answers, InsertEach, Delete, InsertVisit, UpdateVisit, At, Adds
  <2> QED
    BY <1>1, <1>4, <2>1, <2>2, <2>3 DEF Runs
<1> QED
  BY <1>1, <1>4, <1>5

LEMMA ClientTypeStep ==
  ASSUME TypeOK, ClientTypeOK, [ButtonsNext]_buttonsVars PROVE ClientTypeOK'
<1>1. ASSUME NEW r \in Request, NEW k \in Key, Send(r, k) PROVE ClientTypeOK'
  <2>1. Purpose(k) \in {"insert", "delete", "visit"}
    BY DEF Purpose
  <2>2. [NoTap EXCEPT !.for = Purpose(k), !.key = k] \in Tap
    BY <2>1, TapMade DEF MadeTap
  <2>3. shown' \in [Key -> BOOLEAN]
    BY <1>1 DEF Send, Turned, ClientTypeOK
  <2>4. disturbed' \in [Key -> BOOLEAN]
    <3>1. (disturbed[k] \/ Open(k) \/ reading[k] # "no") \in BOOLEAN
      BY Zenon
    <3>2. disturbed' = [disturbed EXCEPT ![k] = disturbed[k] \/ Open(k) \/ reading[k] # "no"]
      BY <1>1 DEF Send
    <3> QED
      BY <3>1, <3>2 DEF ClientTypeOK
  <2> QED
    BY <1>1, <2>2, <2>3, <2>4 DEF Send, ClientTypeOK
<1>2. ASSUME NEW r \in Request, ServerStep(r) PROVE ClientTypeOK'
  <2>1. CASE UNCHANGED client
    BY <2>1 DEF client, ClientTypeOK
  <2>2. CASE Answers(r) /\ waits' = [waits EXCEPT ![r] = IF @ = NoTap THEN @ ELSE [@ EXCEPT !.heard = TRUE]]
                        /\ UNCHANGED <<shown, inList, item, reading, disturbed>>
    <3>1. waits[r] # NoTap => [waits[r] EXCEPT !.heard = TRUE] \in Tap
      BY HeardOK DEF ClientTypeOK
    <3> QED
      BY <2>2, <3>1 DEF ClientTypeOK
  <2> QED
    BY <1>2, <2>1, <2>2 DEF ServerStep
<1>3. ASSUME NEW r \in Request, Reply(r) \/ GivesUp(r) PROVE ClientTypeOK'
  <2>1. waits[r] \in Tap
    BY <1>3, NoTapOK DEF Reply, GivesUp, ClientTypeOK
  <2>2. waits[r].key \in Key
    BY <2>1, TapOK
  <2>3. CASE Reply(r)
    BY <2>2, <2>3 DEF Reply, ClientTypeOK
  <2>4. CASE GivesUp(r)
    <3>1. disturbed' \in [Key -> BOOLEAN]
      <4>1. (disturbed[waits[r].key] \/ waits[r].key[3] \in Liking) \in BOOLEAN
        BY Zenon
      <4> QED
        BY <2>2, <2>4, <4>1 DEF GivesUp, ClientTypeOK
    <3> QED
      BY <2>4, <3>1 DEF GivesUp, ClientTypeOK
  <2> QED
    BY <1>3, <2>3, <2>4
<1>4. ASSUME NEW r \in Request, NEW s \in Request, SentAgain(r, s) PROVE ClientTypeOK'
  <2>1. waits[r] \in Tap
    BY <1>4 DEF SentAgain, ClientTypeOK
  <2>2. [waits[r] EXCEPT !.again = TRUE, !.heard = FALSE] \in Tap
    BY <2>1, AgainOK
  <2> QED
    BY <1>4, <2>2 DEF SentAgain, ClientTypeOK
<1>5. ASSUME NEW k \in Used, Page(k) PROVE ClientTypeOK'
  <2>1. CASE TapLost(k)
    BY <2>1 DEF TapLost, Turned, ClientTypeOK
  <2>2. CASE Opens(k)
    <3>1. disturbed' \in [Key -> BOOLEAN]
      <4>1. Open(k) \in BOOLEAN
        BY Zenon DEF Open
      <4> QED
        BY <2>2, <4>1 DEF Opens, ClientTypeOK
    <3>2. /\ shown' \in [Key -> BOOLEAN] /\ inList' \in [Key -> BOOLEAN] /\ item' \in [Key -> BOOLEAN]
          /\ reading' \in [Key -> Reading]
      BY <2>2 DEF Opens, ClientTypeOK, Reading
    <3>3. waits' \in [Request -> {NoTap} \cup Tap]
      <4>1. \A r \in Request : waits[r] # NoTap => [waits[r] EXCEPT !.gone = TRUE] \in Tap
        BY GoneOK DEF ClientTypeOK
      <4> QED
        BY <2>2, <4>1 DEF Opens, ClientTypeOK
    <3> QED
      BY <3>1, <3>2, <3>3 DEF ClientTypeOK
  <2>3. CASE ServerReads(k)
    BY <2>3 DEF ServerReads, ClientTypeOK, Reading
  <2>4. CASE ReadReply(k)
    <3>1. /\ (reading[k] = "on" \/ (shown[k] /\ ~inList[k])) \in BOOLEAN
          /\ (reading[k] = "on" /\ inList[k]) \in BOOLEAN
      BY Zenon
    <3> QED
      BY <2>4, <3>1 DEF ReadReply, ClientTypeOK, Reading
  <2>5. CASE ReadFails(k)
    BY <2>5 DEF ReadFails, ClientTypeOK, Reading
  <2>6. CASE Closes(k)
    BY <2>6 DEF Closes, ClientTypeOK
  <2>7. CASE Refreshes(k)
    <3>1. (disturbed[k] \/ Open(k) \/ reading[k] # "no") \in BOOLEAN
      BY Zenon
    <3> QED
      BY <2>7, <3>1 DEF Refreshes, ClientTypeOK, Reading
  <2>8. CASE Rebinds(k)
    BY <2>8 DEF Rebinds, ClientTypeOK
  <2>9. CASE Returns(k)
    <3>1. PICK on \in BOOLEAN, stored \in BOOLEAN, what \in Reading :
            /\ shown' = [shown EXCEPT ![k] = on] /\ item' = [item EXCEPT ![k] = stored]
            /\ reading' = [reading EXCEPT ![k] = what]
            /\ disturbed' = [disturbed EXCEPT ![k] = \/ disturbed[k] \/ on # shown[k] \/ Open(k)
                                                    \/ reading[k] # "no" \/ what # "no"]
      BY <2>9 DEF Returns
    <3>2. (disturbed[k] \/ on # shown[k] \/ Open(k) \/ reading[k] # "no" \/ what # "no") \in BOOLEAN
      BY Zenon
    <3> QED
      BY <2>9, <3>1, <3>2 DEF Returns, ClientTypeOK
  <2> QED
    BY <1>5, <2>1, <2>2, <2>3, <2>4, <2>5, <2>6, <2>7, <2>8, <2>9 DEF Page
<1>6. CASE UNCHANGED client
  BY <1>6 DEF client, ClientTypeOK
<1> QED
  BY <1>1, <1>2, <1>3, <1>4, <1>5, <1>6 DEF ButtonsNext, ShowsProfile, buttonsVars
-----------------------------------------------------------------------------
\* What a client waits for is what the server is at, and an answer that was
\* heard ends it.
WaitsOK ==
  /\ \A r \in Request : waits[r].heard => req[r] = Free
  /\ \A r \in Request : waits[r] # NoTap /\ req[r] # Free => req[r].key = waits[r].key

\* A page that is opened anew leaves all that is asked for as it is.
LEMMA OpensWaits ==
  ASSUME ClientTypeOK, NEW k, Opens(k), NEW q \in Request
  PROVE  \/ waits'[q] = waits[q]
         \/ /\ waits[q] # NoTap /\ waits'[q] # NoTap /\ waits[q].key = k
            /\ waits'[q].key = waits[q].key /\ waits'[q].heard = waits[q].heard
<1>1. CASE waits[q] # NoTap /\ waits[q].key = k
  <2>1. waits[q] \in Tap /\ waits'[q] = [waits[q] EXCEPT !.gone = TRUE]
    BY <1>1 DEF Opens, ClientTypeOK
  <2> QED
    BY <1>1, <2>1, GoneOK
<1>2. CASE ~(waits[q] # NoTap /\ waits[q].key = k)
  BY <1>2 DEF Opens
<1> QED
  BY <1>1, <1>2

LEMMA BeginsSame ==
  ASSUME NEW r \in Request, NEW at, NEW k, Begins(r, at, k)
  PROVE  /\ req[r] = Free /\ req'[r] # Free /\ req'[r].at = at /\ req'[r].key = k
         /\ \A q \in Request : q # r => req'[q] = req[q]
         /\ expr' = expr
BY DEF Begins

LEMMA WaitsStep ==
  ASSUME TypeOK, ClientTypeOK, WaitsOK, [ButtonsNext]_buttonsVars PROVE WaitsOK'
<1>s. ASSUME \A q \in Request : /\ waits'[q] = NoTap \/ waits'[q] = waits[q]
                                /\ Same(q) \/ (req[q] # Free /\ req'[q].key = req[q].key)
      PROVE  WaitsOK'
  <2> SUFFICES ASSUME NEW q \in Request
               PROVE  /\ waits'[q].heard => req'[q] = Free
                      /\ waits'[q] # NoTap /\ req'[q] # Free => req'[q].key = waits'[q].key
    BY DEF WaitsOK
  <2>1. CASE waits'[q] = NoTap
    <3>1. ~waits'[q].heard
      BY <2>1, NoTapOK, Zenon
    <3> QED
      BY <2>1, <3>1
  <2>2. CASE waits'[q] = waits[q]
    <3>1. /\ waits[q].heard => req[q] = Free
          /\ waits[q] # NoTap /\ req[q] # Free => req[q].key = waits[q].key
      BY DEF WaitsOK
    <3>2. req'[q] = Free \/ (req[q] # Free /\ req'[q].key = req[q].key)
      BY <1>s DEF Same
    <3>3. ASSUME waits'[q].heard PROVE req'[q] = Free
      BY <2>2, <3>1, <3>2, <3>3, Zenon
    <3>4. waits'[q] # NoTap /\ req'[q] # Free => req'[q].key = waits'[q].key
      BY <2>2, <3>1, <3>2
    <3> QED
      BY <3>3, <3>4
  <2> QED
    BY <1>s, <2>1, <2>2
<1>u. ASSUME UNCHANGED req, \A q \in Request : waits'[q] = NoTap \/ waits'[q] = waits[q] PROVE WaitsOK'
  <2>1. \A q \in Request : req'[q] = Free \/ (req[q] # Free /\ req'[q].key = req[q].key)
    BY <1>u
  <2> QED
    BY <1>s, <1>u, <2>1 DEF Same
<1>b. ASSUME NEW r \in Request, NEW at, NEW k, Begins(r, at, k), ~waits'[r].heard,
             waits'[r] = NoTap \/ waits'[r].key = k,
             \A q \in Request : q # r => waits'[q] = NoTap \/ waits'[q] = waits[q]
      PROVE  WaitsOK'
  <2> SUFFICES ASSUME NEW q \in Request
               PROVE  /\ waits'[q].heard => req'[q] = Free
                      /\ waits'[q] # NoTap /\ req'[q] # Free => req'[q].key = waits'[q].key
    BY DEF WaitsOK
  <2>1. CASE q = r
    BY <1>b, <2>1, BeginsSame
  <2>2. CASE q # r /\ waits'[q] = NoTap
    <3>1. ~waits'[q].heard
      BY <2>2, NoTapOK, Zenon
    <3> QED
      BY <2>2, <3>1
  <2>3. CASE q # r /\ waits'[q] = waits[q]
    <3>1. req'[q] = req[q]
      BY <1>b, <2>3, BeginsSame
    <3>2. waits'[q].heard => req'[q] = Free
      BY <2>3, <3>1, Zenon DEF WaitsOK
    <3> QED
      BY <2>3, <3>1, <3>2 DEF WaitsOK
  <2> QED
    BY <1>b, <2>1, <2>2, <2>3
<1>1. ASSUME NEW r \in Request, NEW k \in Key, Send(r, k) PROVE WaitsOK'
  <2>1. Purpose(k) \in {"insert", "delete", "visit"}
    BY DEF Purpose
  <2>2. PICK at \in Checks : Begins(r, at, k)
    BY <1>1, <2>1, HandlerOK DEF Send
  <2>a. waits'[r] = MadeTap(Purpose(k), k) /\ \A q \in Request : q # r => waits'[q] = waits[q]
    BY <1>1 DEF Send, ClientTypeOK, MadeTap
  <2>b. ~MadeTap(Purpose(k), k).heard /\ MadeTap(Purpose(k), k).key = k
    BY <2>1, TapMade
  <2>3. ~waits'[r].heard /\ waits'[r].key = k /\ \A q \in Request : q # r => waits'[q] = waits[q]
    BY <2>a, <2>b, Zenon
  <2> QED
    BY <1>b, <2>2, <2>3
<1>2. ASSUME NEW r \in Request, NEW k \in Key, ShowsProfile(r, k) PROVE WaitsOK'
  <2>1. Begins(r, "insertShow", k) /\ waits' = waits /\ waits[r] = NoTap
    BY <1>2, StartCases DEF ShowsProfile, client
  <2> QED
    BY <1>b, <2>1, NoTapOK
<1>3. ASSUME NEW r \in Request, ServerStep(r) PROVE WaitsOK'
  <2>1. CASE Query(r) /\ UNCHANGED client
    <3>1. Runs(r) \/ Calm
      BY <2>1, QueryCases
    <3>2. \A q \in Request : Same(q) \/ (req[q] # Free /\ req'[q].key = req[q].key)
      BY <3>1 DEF Runs, Calm, Same
    <3> QED
      BY <1>s, <2>1, <3>2 DEF client
  <2>2. CASE Answers(r) /\ waits' = [waits EXCEPT ![r] = IF @ = NoTap THEN @ ELSE [@ EXCEPT !.heard = TRUE]]
    <3>1. req'[r] = Free /\ \A q \in Request \ {r} : req'[q] = req[q]
      BY <2>2, AnswersOK
    <3>2. \A q \in Request \ {r} : waits'[q] = waits[q]
      BY <2>2 DEF ClientTypeOK
    <3> QED
      BY <3>1, <3>2 DEF WaitsOK
  <2> QED
    BY <1>3, <2>1, <2>2 DEF ServerStep
<1>4. ASSUME NEW r \in Request, Reply(r) \/ GivesUp(r) PROVE WaitsOK'
  <2>1. UNCHANGED req /\ waits' = [waits EXCEPT ![r] = NoTap]
    BY <1>4 DEF Reply, GivesUp, vars
  <2> QED
    BY <1>u, <2>1 DEF ClientTypeOK
<1>5. ASSUME NEW r \in Request, NEW s \in Request, SentAgain(r, s) PROVE WaitsOK'
  <2>1. waits[r] \in Tap
    BY <1>5 DEF SentAgain, ClientTypeOK
  <2>2. PICK at \in Checks : Begins(s, at, waits[r].key)
    BY <1>5, <2>1, TapOK, HandlerOK DEF SentAgain
  <2>3. /\ waits'[s] = [waits[r] EXCEPT !.again = TRUE, !.heard = FALSE]
        /\ \A q \in Request : q # s => waits'[q] = NoTap \/ waits'[q] = waits[q]
    BY <1>5 DEF SentAgain, ClientTypeOK
  <2>4. ~waits'[s].heard /\ waits'[s].key = waits[r].key
    BY <2>1, <2>3, AgainOK
  <2> QED
    BY <1>b, <2>2, <2>3, <2>4
<1>6. ASSUME NEW k, Page(k) PROVE WaitsOK'
  <2>1. CASE Opens(k)
    <3> SUFFICES ASSUME NEW q \in Request
                 PROVE  /\ waits'[q].heard => req'[q] = Free
                        /\ waits'[q] # NoTap /\ req'[q] # Free => req'[q].key = waits'[q].key
      BY DEF WaitsOK
    <3>1. req' = req
      BY <2>1 DEF Opens, vars
    <3>2. /\ waits'[q].heard = waits[q].heard
          /\ waits'[q] # NoTap => waits[q] # NoTap /\ waits'[q].key = waits[q].key
      BY <2>1, OpensWaits
    <3>3. waits'[q].heard => req'[q] = Free
      BY <3>1, <3>2, Zenon DEF WaitsOK
    <3> QED
      BY <3>1, <3>2, <3>3 DEF WaitsOK
  <2>2. CASE ~Opens(k)
    <3>1. UNCHANGED req /\ waits' = waits
      BY <1>6, <2>2 DEF Page, TapLost, Refreshes, Rebinds, Returns, ServerReads, ReadReply, ReadFails, Closes, vars
    <3> QED
      BY <1>u, <3>1
  <2> QED
    BY <2>1, <2>2
<1>7. CASE (Crash \/ Restart \/ UNCHANGED vars) /\ UNCHANGED client
  BY <1>7, <1>s, CalmCases DEF Calm, client
<1>8. CASE UNCHANGED buttonsVars
  BY <1>7, <1>8 DEF buttonsVars
<1> QED
  BY <1>1, <1>2, <1>3, <1>4, <1>5, <1>6, <1>7, <1>8 DEF ButtonsNext

LEMMA ButtonsInvariance == ButtonsSpec => [](TypeOK /\ KindOK /\ ClientTypeOK /\ WaitsOK)
<1>1. ButtonsInit => TypeOK /\ KindOK /\ ClientTypeOK /\ WaitsOK
  <2> SUFFICES ASSUME ButtonsInit PROVE TypeOK /\ KindOK /\ ClientTypeOK /\ WaitsOK
    OBVIOUS
  <2>1. Init
    BY DEF ButtonsInit
  <2>2. \A r \in Request : req[r] = Free /\ waits[r] = NoTap
    BY DEF ButtonsInit, Init
  <2>3. KindOK
    BY <2>1, <2>2, FreeIdle DEF Init, KindOK, KindOf, LikingAt, ShowAt, VisitAt
  <2>4. ClientTypeOK
    BY DEF ButtonsInit, ClientTypeOK, Reading
  <2>5. WaitsOK
    BY <2>2 DEF WaitsOK
  <2> QED
    BY <2>1, <2>3, <2>4, <2>5, InitTypeOK
<1>2. TypeOK /\ KindOK /\ ClientTypeOK /\ WaitsOK /\ [ButtonsNext]_buttonsVars
      => (TypeOK /\ KindOK /\ ClientTypeOK /\ WaitsOK)'
  BY ButtonsSteps, NextTypeOK, KindStep, ClientTypeStep, WaitsStep
<1> QED
  BY <1>1, <1>2, PTL DEF ButtonsSpec

\* A client beside the tables refines them: every step is one of Expression or
\* leaves the tables alone.
THEOREM ButtonsKeepTables == ButtonsSpec => Spec
<1>1. ButtonsInit => Init
  BY DEF ButtonsInit
<1> QED
  BY <1>1, ButtonsSteps, ButtonsInvariance, PTL DEF ButtonsSpec, Spec

\* The type invariant of the client, for any users and requests.
THEOREM ButtonsTypeCorrect == ButtonsSpec => []ButtonsTypeOK
<1>1. ClientTypeOK /\ WaitsOK => ButtonsTypeOK
  BY DEF ClientTypeOK, WaitsOK, ButtonsTypeOK
<1> QED
  BY <1>1, ButtonsInvariance, PTL
-----------------------------------------------------------------------------
(* Frozen buttons.                                                         *)

\* The part of Frozen that the server keeps.
FrozenTables(k) ==
  /\ k[3] # "show" /\ expr[k] >= 2
  /\ \A r \in Request : req[r].key = k => req[r].at \in Checks \cup {"idle"}

\* At two rows a check leads nowhere.
LEMMA FrozenTablesStep ==
  ASSUME TypeOK, NEW k \in Key, FrozenTables(k), [Next]_vars PROVE FrozenTables(k)'
<1>s. ASSUME NEW q \in Request, Same(q), req'[q].key = k PROVE req'[q].at \in Checks \cup {"idle"}
  BY <1>s, FreeIdle DEF Same, FrozenTables
<1>1. ASSUME NEW r \in Request, NEW j \in Key, NEW at \in Checks \cup {"insertShow"}, Begins(r, at, j)
      PROVE  FrozenTables(k)'
  <2>1. j = k => at \in Checks
    BY <1>1 DEF Begins, KindOf, ShowAt, FrozenTables
  <2> QED
    BY <1>1, <2>1 DEF Begins, FrozenTables
<1>2. ASSUME NEW r \in Request, Runs(r) PROVE FrozenTables(k)'
  <2>1. req[r] # Free /\ req[r] \in Going /\ req[r].key \in Key
    BY <1>2 DEF Runs, TypeOK
  <2>2. CASE req[r].key = k
    <3>1. req[r].at \in Checks
      BY <2>1, <2>2 DEF FrozenTables, Going, Checks, Writes
    <3>2. expr[k] \in Nat /\ expr[k] >= 2
      BY DEF TypeOK, FrozenTables
    <3>3. Follow(req[r].at, expr[k]) = "idle"
      BY <3>1, <3>2 DEF Follow, AfterCheck, Checks
    <3>4. expr' = expr
      BY <1>2, <3>1 DEF Runs, Checks, Adds
    <3>5. req'[r].at = "idle"
      BY <1>2, <2>2, <3>3, FreeIdle DEF Runs
    <3>6. \A q \in Request \ {r} : Same(q)
      BY <1>2 DEF Runs
    <3> QED
      BY <1>s, <3>4, <3>5, <3>6 DEF FrozenTables
  <2>3. CASE req[r].key # k
    <3>1. expr'[k] = expr[k]
      BY <1>2, <2>1, <2>3 DEF Runs, TypeOK
    <3>2. req'[r].key = k => req'[r].at = "idle"
      BY <1>2, <2>3, FreeIdle DEF Runs
    <3>3. \A q \in Request \ {r} : Same(q)
      BY <1>2 DEF Runs
    <3> QED
      BY <1>s, <3>1, <3>2, <3>3 DEF FrozenTables
  <2> QED
    BY <2>2, <2>3
<1>3. CASE Calm
  BY <1>3, <1>s DEF Calm, FrozenTables
<1> QED
  BY <1>1, <1>2, <1>3, ServerCases

\* No answer for a frozen button comes on its way, and no reply, other than
\* one about its state, turns it.
LEMMA FrozenClientStep ==
  ASSUME TypeOK, ClientTypeOK, WaitsOK, NEW k \in Key, Frozen(k), [ButtonsNext]_buttonsVars
  PROVE  /\ \A r \in Request : waits'[r].key = k => ~waits'[r].heard
         /\ \/ shown'[k] = shown[k] \/ inList[k]
            \/ Opens(k) \/ Returns(k) \/ ReadReply(k) \/ Closes(k)
<1> DEFINE Unheard == \A r \in Request : waits'[r].key = k => ~waits'[r].heard
           Keeps == \/ shown'[k] = shown[k] \/ inList[k]
                    \/ Opens(k) \/ Returns(k) \/ ReadReply(k) \/ Closes(k)
<1>0. \A r \in Request : waits[r].key = k => ~waits[r].heard
  BY DEF Frozen
<1>u. ASSUME \A r \in Request : waits'[r] = NoTap \/ waits'[r] = waits[r] PROVE Unheard
  <2> SUFFICES ASSUME NEW r \in Request, waits'[r].key = k PROVE ~waits'[r].heard
    OBVIOUS
  <2>1. CASE waits'[r] = NoTap
    BY <2>1, NoTapOK, Zenon
  <2>2. CASE waits'[r] = waits[r]
    BY <1>0, <2>2, Zenon
  <2> QED
    BY <1>u, <2>1, <2>2
<1>1. ASSUME NEW r \in Request, NEW j \in Key, Send(r, j) PROVE Unheard /\ Keeps
  <2>1. Purpose(j) \in {"insert", "delete", "visit"}
    BY DEF Purpose
  <2>3. waits'[r] = MadeTap(Purpose(j), j) /\ \A q \in Request : q # r => waits'[q] = waits[q]
    BY <1>1 DEF Send, ClientTypeOK, MadeTap
  <2>2. ~MadeTap(Purpose(j), j).heard
    BY <2>1, TapMade
  <2>4. ~waits'[r].heard
    BY <2>2, <2>3, Zenon
  <2>5. \A q \in Request : q # r /\ waits'[q].key = k => ~waits'[q].heard
    BY <1>0, <2>3, Zenon
  <2>6. Keeps
    BY <1>1 DEF Send, Turned, ClientTypeOK
  <2> QED
    BY <2>4, <2>5, <2>6
<1>2. ASSUME NEW r \in Request, ServerStep(r) PROVE Unheard /\ Keeps
  <2>1. CASE UNCHANGED client
    BY <1>0, <2>1 DEF client
  <2>2. CASE Answers(r) /\ waits' = [waits EXCEPT ![r] = IF @ = NoTap THEN @ ELSE [@ EXCEPT !.heard = TRUE]]
                        /\ UNCHANGED <<shown, inList, item, reading, disturbed>>
    <3>1. req[r] # Free /\ req[r].at \notin Checks \cup {"idle"}
      BY <2>2, FreeIdle DEF Answers, InsertEach, Delete, InsertVisit, UpdateVisit, At, Checks
    <3>2. req[r].key # k
      BY <3>1 DEF Frozen
    <3>3. \A q \in Request \ {r} : waits'[q] = waits[q]
      BY <2>2 DEF ClientTypeOK
    <3>4. CASE waits[r] = NoTap
      <4>1. waits'[r] = waits[r]
        BY <2>2, <3>4 DEF ClientTypeOK
      <4> QED
        BY <1>u, <2>2, <3>3, <4>1
    <3>5. CASE waits[r] # NoTap
      <4>1. waits[r].key = req[r].key /\ waits[r] \in Tap
        BY <3>1, <3>5 DEF WaitsOK, ClientTypeOK
      <4>2. waits'[r] = [waits[r] EXCEPT !.heard = TRUE]
        BY <2>2, <3>5 DEF ClientTypeOK
      <4>3. waits'[r].key # k
        BY <3>2, <4>1, <4>2, HeardOK
      <4> QED
        BY <1>0, <2>2, <3>3, <4>3
    <3> QED
      BY <3>4, <3>5
  <2> QED
    BY <1>2, <2>1, <2>2 DEF ServerStep
<1>3. ASSUME NEW r \in Request, Reply(r) PROVE Unheard /\ Keeps
  <2>1. waits[r].key # k
    BY <1>0, <1>3 DEF Reply
  <2>2. shown'[k] = shown[k]
    BY <1>3, <2>1 DEF Reply, ClientTypeOK
  <2>3. \A q \in Request : waits'[q] = NoTap \/ waits'[q] = waits[q]
    BY <1>3 DEF Reply, ClientTypeOK
  <2> QED
    BY <1>u, <2>2, <2>3
<1>4. ASSUME NEW r \in Request, GivesUp(r) PROVE Unheard /\ Keeps
  BY <1>4, <1>u DEF GivesUp, ClientTypeOK
<1>5. ASSUME NEW r \in Request, NEW s \in Request, SentAgain(r, s) PROVE Unheard /\ Keeps
  <2>1. waits[r] \in Tap
    BY <1>5 DEF SentAgain, ClientTypeOK
  <2>2. /\ waits'[s] = [waits[r] EXCEPT !.again = TRUE, !.heard = FALSE]
        /\ \A q \in Request : q # s => waits'[q] = NoTap \/ waits'[q] = waits[q]
    BY <1>5 DEF SentAgain, ClientTypeOK
  <2>3. ~waits'[s].heard
    BY <2>1, <2>2, AgainOK
  <2>4. \A q \in Request : q # s /\ waits'[q].key = k => ~waits'[q].heard
    BY <1>0, <2>2, NoTapOK, Zenon
  <2> QED
    BY <1>5, <2>3, <2>4 DEF SentAgain
<1>6. ASSUME NEW j \in Used, Page(j) PROVE Unheard /\ Keeps
  <2>1. Unheard
    <3>1. CASE Opens(j)
      <4>1. \A q \in Request : waits'[q].key = waits[q].key /\ waits'[q].heard = waits[q].heard
        BY <3>1, OpensWaits
      <4> QED
        BY <1>0, <4>1, Zenon
    <3>2. CASE ~Opens(j)
      <4>1. waits' = waits
        BY <1>6, <3>2 DEF Page, TapLost, Refreshes, Rebinds, Returns, ServerReads, ReadReply, ReadFails, Closes
      <4> QED
        BY <1>u, <4>1
    <3> QED
      BY <3>1, <3>2
  <2>2. ASSUME j = k PROVE Keeps
    BY <1>6, <2>2 DEF Page, TapLost, Refreshes, Rebinds, ServerReads, ReadFails
  <2>3. ASSUME j # k PROVE Keeps
    BY <1>6, <2>3 DEF Page, TapLost, Turned, Opens, Refreshes, Rebinds, Returns, ServerReads, ReadReply, ReadFails, Closes, ClientTypeOK
  <2> QED
    BY <2>1, <2>2, <2>3
<1>7. CASE UNCHANGED client
  BY <1>0, <1>7 DEF client
<1> QED
  BY <1>1, <1>2, <1>3, <1>4, <1>5, <1>6, <1>7 DEF ButtonsNext, ShowsProfile, buttonsVars

\* Once a like, a wish or a visit has two rows and nothing past its check, no
\* tap does anything about it any more, for any clients and however many
\* requests they send.
THEOREM ButtonsFrozenStays == ButtonsSpec => FrozenStays
<1> DEFINE Stays == \A k \in Key : Frozen(k) =>
              /\ Frozen(k)'
              /\ \/ shown'[k] = shown[k] \/ inList[k]
                 \/ Opens(k) \/ Returns(k) \/ ReadReply(k) \/ Closes(k)
<1>1. TypeOK /\ KindOK /\ ClientTypeOK /\ WaitsOK /\ [ButtonsNext]_buttonsVars => [Stays]_buttonsVars
  <2> SUFFICES ASSUME TypeOK, ClientTypeOK, WaitsOK, [ButtonsNext]_buttonsVars, NEW k \in Key, Frozen(k)
               PROVE  /\ Frozen(k)'
                      /\ \/ shown'[k] = shown[k] \/ inList[k]
                         \/ Opens(k) \/ Returns(k) \/ ReadReply(k) \/ Closes(k)
    OBVIOUS
  <2>1. FrozenTables(k)
    BY DEF Frozen, FrozenTables
  <2>2. FrozenTables(k)'
    BY <2>1, ButtonsSteps, FrozenTablesStep
  <2> QED
    BY <2>2, FrozenClientStep DEF Frozen, FrozenTables
<1> QED
  BY <1>1, ButtonsInvariance, PTL DEF ButtonsSpec, FrozenStays
-----------------------------------------------------------------------------
(* Visits.                                                                 *)

\* Only the page or the list, opened anew, makes up for what was disturbed.
LEMMA DisturbedStays ==
  ASSUME ClientTypeOK, [ButtonsNext]_buttonsVars, NEW k \in Key, disturbed[k], ~disturbed'[k] PROVE Opens(k)
<1>0. disturbed[k] = TRUE /\ disturbed \in [Key -> BOOLEAN]
  BY DEF ClientTypeOK
<1>1. ASSUME NEW r \in Request, NEW j \in Key, Send(r, j) PROVE disturbed'[k]
  BY <1>0, <1>1, Zenon DEF Send
<1>2. ASSUME NEW r \in Request, GivesUp(r) PROVE disturbed'[k]
  BY <1>0, <1>2, Zenon DEF GivesUp
<1>3. ASSUME NEW j, TapLost(j) \/ ReadFails(j) \/ Refreshes(j) \/ Rebinds(j) \/ Returns(j) PROVE disturbed'[k]
  <2>1. CASE TapLost(j) \/ ReadFails(j) \/ Rebinds(j)
    BY <1>0, <2>1, Zenon DEF TapLost, ReadFails, Rebinds
  <2>2. CASE Refreshes(j)
    BY <1>0, <2>2, Zenon DEF Refreshes
  <2>3. CASE Returns(j)
    BY <1>0, <2>3, Zenon DEF Returns
  <2> QED
    BY <1>3, <2>1, <2>2, <2>3
<1>4. ASSUME NEW r \in Request, NEW s \in Request, SentAgain(r, s) PROVE disturbed'[k]
  BY <1>0, <1>4, Zenon DEF SentAgain
<1>5. ASSUME NEW j, Opens(j) PROVE j = k
  BY <1>0, <1>5, Zenon DEF Opens
<1>6. ASSUME NEW r \in Request, ServerStep(r) \/ Reply(r) PROVE disturbed'[k]
  BY <1>6 DEF ServerStep, Reply, client
<1>7. ASSUME NEW j, ServerReads(j) \/ ReadReply(j) \/ Closes(j) PROVE disturbed'[k]
  BY <1>7 DEF ServerReads, ReadReply, Closes
<1>8. CASE UNCHANGED client
  BY <1>8 DEF client
<1> QED
  BY <1>1, <1>2, <1>3, <1>4, <1>5, <1>6, <1>7, <1>8 DEF ButtonsNext, ShowsProfile, buttonsVars, Page

\* A request for an undisturbed like, wish or visit begins when there is no other.
LEMMA UndisturbedTables ==
  ASSUME TypeOK, ClientTypeOK, [ButtonsNext]_buttonsVars, NEW k \in Key, ~disturbed'[k], k[3] # "show"
  PROVE  \/ ~Open(k) /\ \E r \in Request, at \in Checks : Begins(r, at, k)
         \/ \E r \in Request, j \in Key \ {k}, at \in Checks \cup {"insertShow"} : Begins(r, at, j)
         \/ \E r \in Request : Runs(r)
         \/ Calm
<1> DEFINE Goal == \/ ~Open(k) /\ \E r \in Request, at \in Checks : Begins(r, at, k)
                   \/ \E r \in Request, j \in Key \ {k}, at \in Checks \cup {"insertShow"} : Begins(r, at, j)
                   \/ \E r \in Request : Runs(r)
                   \/ Calm
<1>1. ASSUME NEW r \in Request, NEW j \in Key, Send(r, j) PROVE Goal
  <2>1. PICK at \in Checks : Begins(r, at, j)
    BY <1>1, HandlerOK DEF Send, Purpose
  <2>2. j = k => ~Open(k)
    BY <1>1, Zenon DEF Send, ClientTypeOK
  <2> QED
    BY <2>1, <2>2
<1>2. ASSUME NEW r \in Request, NEW j \in Key, ShowsProfile(r, j) PROVE Goal
  <2>1. Begins(r, "insertShow", j) /\ j # k
    BY <1>2, StartCases DEF ShowsProfile, save_showprofile
  <2> QED
    BY <2>1
<1>3. ASSUME NEW r \in Request, ServerStep(r) PROVE Goal
  BY <1>3, AnswersOK, QueryCases DEF ServerStep
<1>4. ASSUME NEW r \in Request, NEW s \in Request, SentAgain(r, s) PROVE Goal
  <2>1. waits[r] \in Tap
    BY <1>4 DEF SentAgain, ClientTypeOK
  <2>2. PICK at \in Checks : Begins(s, at, waits[r].key)
    BY <1>4, <2>1, TapOK, HandlerOK DEF SentAgain
  <2>3. waits[r].key \in Key /\ waits[r].key # k
    BY <1>4, <2>1, TapOK DEF SentAgain, ClientTypeOK
  <2> QED
    BY <2>2, <2>3
<1>5. ASSUME Crash \/ Restart \/ UNCHANGED vars PROVE Goal
  BY <1>5, CalmCases
<1>6. ASSUME NEW r \in Request, Reply(r) \/ GivesUp(r) PROVE UNCHANGED vars
  BY <1>6 DEF Reply, GivesUp
<1>7. ASSUME NEW j, Page(j) PROVE UNCHANGED vars
  BY <1>7 DEF Page, TapLost, Opens, Refreshes, Rebinds, Returns, ServerReads, ReadReply, ReadFails, Closes
<1> QED
  BY <1>1, <1>2, <1>3, <1>4, <1>5, <1>6, <1>7 DEF ButtonsNext, buttonsVars

\* An undisturbed visit has one request at a time, and that inserts a row only
\* where there is none.
VisitOK(k) ==
  /\ \A r, s \in Request : req[r] # Free /\ req[s] # Free /\ req[r].key = k /\ req[s].key = k => r = s
  /\ \A r \in Request : req[r].at = "insertVisit" /\ req[r].key = k => expr[k] = 0
  /\ expr[k] <= 1

Visits == \A k \in Key : k[3] = "visit" /\ ~disturbed[k] => VisitOK(k)

LEMMA VisitsStep ==
  ASSUME TypeOK, KindOK, ClientTypeOK, Visits, [ButtonsNext]_buttonsVars PROVE Visits'
<1> SUFFICES ASSUME NEW k \in Key, k[3] = "visit", ~disturbed'[k] PROVE VisitOK(k)'
  BY DEF Visits
<1>0. VisitOK(k) /\ k[3] \notin Liking /\ expr[k] \in Nat
  BY DisturbedStays DEF Visits, Opens, Liking, TypeOK
<1>s. ASSUME NEW q \in Request, Same(q)
      PROVE  /\ req'[q] # Free => req[q] # Free /\ req'[q].key = req[q].key
             /\ req'[q].at = "insertVisit" => req[q].at = "insertVisit" /\ req'[q].key = req[q].key
  BY <1>s, FreeIdle DEF Same
<1>1. CASE ~Open(k) /\ \E r \in Request, at \in Checks : Begins(r, at, k)
  <2>1. PICK r \in Request, at \in Checks : Begins(r, at, k)
    BY <1>1
  <2>2. \A q \in Request : req[q] # Free => req[q].key # k
    BY <1>1 DEF Open
  <2>3. at # "insertVisit"
    BY DEF Checks
  <2> QED
    BY <1>0, <2>1, <2>2, <2>3 DEF Begins, VisitOK
<1>2. ASSUME NEW r \in Request, NEW j \in Key \ {k}, NEW at \in Checks \cup {"insertShow"}, Begins(r, at, j)
      PROVE  VisitOK(k)'
  BY <1>0, <1>2 DEF Begins, VisitOK
<1>3. ASSUME NEW r \in Request, Runs(r) PROVE VisitOK(k)'
  <2>1. req[r] # Free /\ req[r].key \in Key /\ \A q \in Request \ {r} : Same(q)
    BY <1>3 DEF Runs
  <2>2. req'[r] = Free \/ (req'[r].key = req[r].key /\ req'[r].at = Follow(req[r].at, expr[req[r].key]))
    BY <1>3 DEF Runs
  <2>3. CASE req[r].key # k
    <3>1. expr'[k] = expr[k]
      BY <1>3, <2>3 DEF Runs, TypeOK
    <3>2. req'[r] # Free => req'[r].key # k
      BY <2>2, <2>3
    <3>3. req'[r].at = "insertVisit" => req'[r].key # k
      BY <2>2, <2>3, FreeIdle
    <3> QED
      BY <1>0, <1>s, <2>1, <3>1, <3>2, <3>3 DEF VisitOK
  <2>4. CASE req[r].key = k
    <3>1. req[r].at \in VisitAt
      <4>1. req[r].at \in LikingAt \cup ShowAt \cup VisitAt
        BY <2>1 DEF TypeOK, Going, Checks, Writes, LikingAt, ShowAt, VisitAt
      <4>2. req[r].at \notin LikingAt /\ req[r].at \notin ShowAt
        BY <1>0, <2>4 DEF KindOK, KindOf
      <4> QED
        BY <4>1, <4>2
    <3>2. expr'[k] = IF req[r].at = "insertVisit" THEN expr[k] + 1 ELSE expr[k]
      BY <1>3, <2>4, <3>1 DEF Runs, TypeOK, Adds, VisitAt
    <3>3. req'[r].at = "insertVisit" => req[r].at = "checkVisit" /\ expr[k] = 0
      BY <2>2, <2>4, <3>1, FreeIdle DEF Follow, AfterCheck, VisitAt, Checks
    <3>4. \A q \in Request \ {r} : req'[q] # Free => req'[q].key # k
      BY <1>0, <1>s, <2>1, <2>4 DEF VisitOK
    <3>5. \A q \in Request \ {r} : req'[q].at = "insertVisit" => req'[q].key # k
      BY <3>4, FreeIdle
    <3> QED
      BY <1>0, <2>4, <3>2, <3>3, <3>4, <3>5 DEF VisitOK
  <2> QED
    BY <2>3, <2>4
<1>4. CASE Calm
  BY <1>0, <1>4, <1>s DEF Calm, VisitOK
<1> QED
  BY <1>1, <1>2, <1>3, <1>4, UndisturbedTables

\* One visitor has one row in the history of a profile, for any number of
\* requests and failures, unless two of his visits overlapped.
THEOREM ButtonsOneVisit == ButtonsSpec => []OneVisit
<1>1. ButtonsInit => Visits
  <2> SUFFICES ASSUME ButtonsInit PROVE Visits
    OBVIOUS
  <2>1. \A r \in Request : req[r] = Free
    BY DEF ButtonsInit, Init
  <2>2. \A k \in Key : expr[k] = 0
    BY DEF ButtonsInit, Init
  <2> QED
    BY <2>1, <2>2, FreeIdle DEF Visits, VisitOK
<1>2. TypeOK /\ KindOK /\ ClientTypeOK /\ Visits /\ [ButtonsNext]_buttonsVars => Visits'
  BY VisitsStep
<1>3. Visits => OneVisit
  BY DEF Visits, VisitOK, OneVisit
<1> QED
  BY <1>1, <1>2, <1>3, ButtonsInvariance, PTL DEF ButtonsSpec
-----------------------------------------------------------------------------
(* Likes and wishes.                                                       *)

OpenAt(r, k) == (waits[r] # NoTap /\ waits[r].key = k) \/ (req[r] # Free /\ req[r].key = k)

\* The tap on an undisturbed button: what is waited for is what the button was
\* before it, and the rows are what the button was, until the answer.
Tapped(r, k) ==
  /\ waits[r] # NoTap /\ waits[r].key = k /\ ~waits[r].gone /\ reading[k] = "no"
  /\ shown[k] <=> (inList[k] <=> waits[r].for # "delete")
  /\ waits[r].heard => waits[r].for = "delete" /\ expr[k] = 0
  /\ req[r] # Free =>
       \/ waits[r].for = "insert" /\ req[r].at \in {"checkInsert", "insertFirst"} /\ expr[k] = 0
       \/ waits[r].for = "delete" /\ req[r].at \in {"checkDelete", "deleteEach", "delete"} /\ expr[k] > 0

LikeOK(k) ==
  /\ \A r, s \in Request : OpenAt(r, k) /\ OpenAt(s, k) => r = s
  /\ \A r \in Request : OpenAt(r, k) => Tapped(r, k)
  /\ reading[k] # "no" /\ ~inList[k] => ~shown[k]
  /\ reading[k] = "on" => expr[k] > 0
  /\ reading[k] = "off" => expr[k] = 0
  /\ reading[k] = "no" /\ ~Open(k) => (shown[k] <=> expr[k] > 0)

Likes == \A k \in Key : k[3] \in Liking /\ ~disturbed[k] => LikeOK(k)

\* A step about other buttons.
LEMMA LikeKept ==
  ASSUME NEW k \in Key, LikeOK(k), WaitsOK',
         expr'[k] = expr[k], shown'[k] = shown[k], inList'[k] = inList[k], reading'[k] = reading[k],
         \A q \in Request : waits[q] # NoTap /\ waits[q].key = k => waits'[q] = waits[q],
         \A q \in Request : waits'[q] # NoTap /\ waits'[q].key = k => waits'[q] = waits[q],
         \A q \in Request : req'[q] # Free /\ req'[q].key = k =>
                              req[q] # Free /\ req[q].key = k /\ req'[q].at = req[q].at
  PROVE  LikeOK(k)'
<1>1. \A q \in Request : OpenAt(q, k)' <=> OpenAt(q, k)
  BY DEF LikeOK, OpenAt, Tapped
<1>2. ASSUME NEW q \in Request, OpenAt(q, k)' PROVE Tapped(q, k)'
  <2>1. Tapped(q, k) /\ waits'[q] = waits[q]
    BY <1>1, <1>2 DEF LikeOK, Tapped
  <2>2. ~waits'[q].gone /\ (waits'[q].heard => waits'[q].for = "delete" /\ expr'[k] = 0)
    BY <2>1, Zenon DEF Tapped
  <2>3. req'[q] # Free => req[q] # Free /\ req'[q].at = req[q].at
    <3>1. req'[q] # Free => req'[q].key = k
      BY <2>1 DEF Tapped, WaitsOK
    <3> QED
      BY <3>1
  <2> QED
    BY <2>1, <2>2, <2>3 DEF Tapped
<1>3. Open(k)' <=> Open(k)
  BY <1>1 DEF Open, OpenAt
<1> QED
  BY <1>1, <1>2, <1>3 DEF LikeOK

\* A tap on an undisturbed button; nothing else is under way for it.
LEMMA LikeTapped ==
  ASSUME TypeOK, ClientTypeOK, NEW k \in Key, k[3] \in Liking, LikeOK(k),
         NEW r \in Request, Send(r, k), ~disturbed'[k]
  PROVE  LikeOK(k)'
<1>1. ~Open(k) /\ reading[k] = "no"
  BY Zenon DEF Send, ClientTypeOK
<1>2. shown[k] <=> expr[k] > 0
  BY <1>1 DEF LikeOK
<1>3. Purpose(k) = IF shown[k] THEN "delete" ELSE "insert"
  BY DEF Purpose, Liking
<1>4. PICK at \in Checks : /\ Begins(r, at, k)
                           /\ at = "checkInsert" <=> Purpose(k) = "insert"
                           /\ at = "checkDelete" <=> Purpose(k) = "delete"
  BY <1>3, HandlerOK DEF Send
<1> DEFINE tap == MadeTap(Purpose(k), k)
<1>5. tap \in Tap /\ tap # NoTap /\ tap.key = k /\ tap.for = Purpose(k) /\ ~tap.heard /\ ~tap.gone
  <2>1. Purpose(k) \in {"insert", "delete", "visit"}
    BY <1>3
  <2> QED
    BY <2>1, TapMade
<1>6. waits'[r] = tap /\ \A q \in Request : q # r => waits'[q] = waits[q]
  BY DEF Send, ClientTypeOK, MadeTap
<1> HIDE DEF tap
<1>7. \A q \in Request : OpenAt(q, k)' <=> q = r
  BY <1>1, <1>4, <1>5, <1>6 DEF Open, OpenAt, Begins
<1>8. shown'[k] <=> (inList'[k] <=> Purpose(k) # "delete")
  BY <1>3 DEF Send, Turned, ClientTypeOK
<1>9. Tapped(r, k)'
  <2>1. waits'[r] # NoTap /\ waits'[r].key = k /\ waits'[r].for = Purpose(k) /\ reading'[k] = "no"
    BY <1>1, <1>5, <1>6 DEF Send
  <2>2. ~waits'[r].heard /\ ~waits'[r].gone
    BY <1>5, <1>6, Zenon
  <2>3. req'[r].at = at /\ expr' = expr /\ expr[k] \in Nat
    BY <1>4 DEF Begins, TypeOK
  <2>4. \/ Purpose(k) = "insert" /\ at = "checkInsert" /\ expr[k] = 0
        \/ Purpose(k) = "delete" /\ at = "checkDelete" /\ expr[k] > 0
    BY <1>2, <1>3, <1>4, <2>3
  <2> QED
    BY <1>8, <2>1, <2>2, <2>3, <2>4 DEF Tapped
<1>10. Open(k)'
  BY <1>7 DEF Open, OpenAt
<1> QED
  BY <1>1, <1>7, <1>9, <1>10 DEF LikeOK, Send

\* A query for an undisturbed button is the only one, and says success only
\* when it has deleted the rows.
LEMMA LikeRuns ==
  ASSUME TypeOK, TypeOK', ClientTypeOK, WaitsOK, NEW k \in Key, k[3] \in Liking, LikeOK(k),
         NEW r \in Request, ServerStep(r), Runs(r), req[r].key = k
  PROVE  LikeOK(k)'
<1>1. req[r] # Free /\ \A q \in Request \ {r} : Same(q)
  BY DEF Runs
<1>2. /\ Tapped(r, k) /\ expr[k] \in Nat /\ waits[r] \in Tap
      /\ \A q \in Request \ {r} : ~OpenAt(q, k)
  BY <1>1 DEF LikeOK, OpenAt, TypeOK, ClientTypeOK, Tapped
<1>3. ~waits[r].heard
  BY <1>1 DEF WaitsOK
<1>4. /\ shown' = shown /\ inList' = inList /\ reading' = reading
      /\ \A q \in Request \ {r} : waits'[q] = waits[q]
      /\ \/ waits'[r] = waits[r]
         \/ Answers(r) /\ waits'[r] = [waits[r] EXCEPT !.heard = TRUE]
  <2>1. CASE UNCHANGED client
    BY <2>1 DEF client
  <2>2. CASE Answers(r) /\ waits' = [waits EXCEPT ![r] = IF @ = NoTap THEN @ ELSE [@ EXCEPT !.heard = TRUE]]
                        /\ UNCHANGED <<shown, inList, item, reading, disturbed>>
    BY <2>2 DEF ClientTypeOK
  <2> QED
    BY <2>1, <2>2 DEF ServerStep
<1>5. waits'[r] # NoTap /\ waits'[r].key = k /\ waits'[r].for = waits[r].for /\ ~waits'[r].gone
  <2>1. CASE waits'[r] = waits[r]
    BY <1>2, <2>1, Zenon DEF Tapped
  <2>2. CASE waits'[r] = [waits[r] EXCEPT !.heard = TRUE]
    <3>1. /\ waits'[r] # NoTap /\ waits'[r].key = waits[r].key /\ waits'[r].for = waits[r].for
          /\ waits'[r].gone = waits[r].gone
      BY <1>2, <2>2, HeardOK
    <3> QED
      BY <1>2, <3>1, Zenon DEF Tapped
  <2> QED
    BY <1>4, <2>1, <2>2
<1>6. \A q \in Request : OpenAt(q, k)' <=> q = r
  BY <1>1, <1>2, <1>4, <1>5 DEF OpenAt, Same
<1>7. Open(k)'
  BY <1>5 DEF Open
<1>8. /\ req'[r] = Free \/ req'[r].at = Follow(req[r].at, expr[k])
      /\ req'[r].at = "idle" => req'[r] = Free
      /\ expr'[k] = IF req[r].at \in Adds THEN expr[k] + 1
                    ELSE IF req[r].at = "delete" THEN 0 ELSE expr[k]
  BY DEF Runs, TypeOK, Going, Checks, Writes
<1>9. Answers(r) => req[r].at = "delete" /\ waits[r].for = "delete"
  BY <1>1, <1>2 DEF Tapped, Answers, InsertEach, Delete, InsertVisit, UpdateVisit, At
<1>10. waits'[r].heard => waits'[r].for = "delete" /\ expr'[k] = 0
  BY <1>3, <1>4, <1>5, <1>8, <1>9, Zenon DEF Adds
<1>11. req'[r] # Free =>
       \/ waits'[r].for = "insert" /\ req'[r].at \in {"checkInsert", "insertFirst"} /\ expr'[k] = 0
       \/ waits'[r].for = "delete" /\ req'[r].at \in {"checkDelete", "deleteEach", "delete"} /\ expr'[k] > 0
  <2>1. CASE waits[r].for = "insert" /\ req[r].at \in {"checkInsert", "insertFirst"} /\ expr[k] = 0
    BY <1>5, <1>8, <2>1 DEF Follow, AfterCheck, Checks, Adds
  <2>2. CASE waits[r].for = "delete" /\ req[r].at \in {"checkDelete", "deleteEach", "delete"} /\ expr[k] > 0
    BY <1>2, <1>5, <1>8, <2>2 DEF Follow, AfterCheck, Checks, Adds
  <2> QED
    BY <1>1, <1>2, <2>1, <2>2 DEF Tapped
<1>12. Tapped(r, k)'
  BY <1>2, <1>4, <1>5, <1>10, <1>11 DEF Tapped
<1> QED
  BY <1>2, <1>4, <1>6, <1>7, <1>12 DEF LikeOK, Tapped

\* The answer turns a page's button off; that of a list has turned already.
LEMMA LikeReplied ==
  ASSUME TypeOK, ClientTypeOK, WaitsOK, NEW k \in Key, k[3] \in Liking, LikeOK(k),
         NEW r \in Request, Reply(r), waits[r].key = k
  PROVE  LikeOK(k)'
<1>1. waits[r].heard /\ waits[r] \in Tap /\ waits[r] # NoTap
  BY NoTapOK, Zenon DEF Reply, ClientTypeOK
<1>2. Tapped(r, k) /\ req[r] = Free /\ \A q \in Request \ {r} : ~OpenAt(q, k)
  BY <1>1 DEF LikeOK, OpenAt, WaitsOK
<1>3. waits[r].for = "delete" /\ expr[k] = 0 /\ reading[k] = "no" /\ (inList[k] => ~shown[k]) /\ ~waits[r].gone
  BY <1>1, <1>2, Zenon DEF Tapped
<1>4. ~shown'[k] /\ expr'[k] = 0 /\ reading'[k] = "no"
  BY <1>3 DEF Reply, ClientTypeOK, vars
<1>5. \A q \in Request : ~OpenAt(q, k)'
  BY <1>2 DEF Reply, ClientTypeOK, OpenAt, vars
<1> QED
  BY <1>4, <1>5 DEF LikeOK, Open, OpenAt

\* What the page or the list reads is true as long as nobody taps.
LEMMA LikeRead ==
  ASSUME TypeOK, ClientTypeOK, NEW k \in Key, LikeOK(k), ServerReads(k) \/ ReadReply(k)
  PROVE  LikeOK(k)'
<1>1. reading[k] # "no" /\ (~inList[k] => ~shown[k])
  BY DEF LikeOK, ServerReads, ReadReply
<1>2. \A q \in Request : ~OpenAt(q, k)
  BY <1>1 DEF LikeOK, Tapped
<1>3. waits' = waits /\ req' = req /\ expr' = expr /\ inList' = inList /\ expr[k] \in Nat
  BY DEF ServerReads, ReadReply, vars, TypeOK
<1>4. \A q \in Request : ~OpenAt(q, k)'
  BY <1>2, <1>3 DEF OpenAt
<1>5. CASE ServerReads(k)
  BY <1>1, <1>3, <1>4, <1>5 DEF ServerReads, ClientTypeOK, LikeOK
<1>6. CASE ReadReply(k)
  <2>1. reading'[k] = "no"
    BY <1>6 DEF ReadReply, ClientTypeOK
  <2>2. shown'[k] = (reading[k] = "on" \/ (shown[k] /\ ~inList[k]))
    BY <1>6, Zenon DEF ReadReply, ClientTypeOK
  <2>3. shown'[k] <=> reading[k] = "on"
    BY <1>1, <2>2, Zenon
  <2>4. reading[k] = "on" <=> expr[k] > 0
    BY <1>3, <1>6 DEF ReadReply, LikeOK
  <2> QED
    BY <1>3, <1>4, <2>1, <2>3, <2>4 DEF LikeOK
<1> QED
  BY <1>5, <1>6

\* A list that asks again while nothing is under way, and one that is there
\* again and shows what the page did, say what is true.
LEMMA LikeListed ==
  ASSUME TypeOK, ClientTypeOK, NEW k \in Key, LikeOK(k), Refreshes(k) \/ Returns(k), ~disturbed'[k]
  PROVE  LikeOK(k)'
<1>1. waits' = waits /\ req' = req /\ expr' = expr
  BY DEF Refreshes, Returns, vars
<1>2. ~Open(k) /\ reading[k] = "no" /\ inList'[k] /\ (shown'[k] <=> shown[k]) /\ reading'[k] \in {"no", "asked"}
  <2>1. CASE Refreshes(k)
    <3>1. ~Open(k) /\ reading[k] = "no"
      BY <2>1, Zenon DEF Refreshes, ClientTypeOK
    <3> QED
      BY <2>1, <3>1 DEF Refreshes, ClientTypeOK
  <2>2. CASE Returns(k)
    <3>1. PICK on \in BOOLEAN, what \in Reading :
            /\ shown' = [shown EXCEPT ![k] = on] /\ reading' = [reading EXCEPT ![k] = what]
            /\ disturbed' = [disturbed EXCEPT ![k] = \/ disturbed[k] \/ on # shown[k] \/ Open(k)
                                                    \/ reading[k] # "no" \/ what # "no"]
      BY <2>2 DEF Returns
    <3>2. on = shown[k] /\ ~Open(k) /\ reading[k] = "no" /\ what = "no"
      BY <3>1, Zenon DEF ClientTypeOK
    <3>3. inList'[k] /\ shown'[k] = on /\ reading'[k] = what
      BY <2>2, <3>1, Zenon DEF Returns, ClientTypeOK
    <3> QED
      BY <3>2, <3>3
  <2> QED
    BY <2>1, <2>2
<1>3. \A q \in Request : ~OpenAt(q, k)'
  BY <1>1, <1>2 DEF Open, OpenAt
<1>4. shown[k] <=> expr[k] > 0
  BY <1>2 DEF LikeOK
<1> QED
  BY <1>1, <1>2, <1>3, <1>4 DEF LikeOK

LEMMA LikesStep ==
  ASSUME TypeOK, TypeOK', KindOK, ClientTypeOK, WaitsOK, WaitsOK', Likes, [ButtonsNext]_buttonsVars
  PROVE  Likes'
<1> SUFFICES ASSUME NEW k \in Key, k[3] \in Liking, ~disturbed'[k] PROVE LikeOK(k)'
  BY DEF Likes
<1>k. k[3] # "visit" /\ k[3] # "show"
  BY DEF Liking
<1>o. ASSUME Opens(k) PROVE LikeOK(k)'
  <2>1. ~Open(k)
    BY <1>o, Zenon DEF Opens, ClientTypeOK
  <2>2. req' = req /\ waits' = waits
    <3>1. \A q \in Request : waits'[q] = waits[q]
      BY <1>o, <2>1, OpensWaits DEF Open
    <3>2. waits' = [q \in Request |-> waits'[q]] /\ waits = [q \in Request |-> waits[q]]
      BY <1>o DEF Opens, ClientTypeOK
    <3> QED
      BY <1>o, <3>1, <3>2, Zenon DEF Opens, vars
  <2>3. \A q \in Request : ~OpenAt(q, k)'
    BY <2>1, <2>2 DEF Open, OpenAt
  <2>4. reading'[k] = "asked" /\ ~shown'[k]
    BY <1>o DEF Opens, ClientTypeOK
  <2> QED
    BY <2>3, <2>4 DEF LikeOK
<1> SUFFICES ASSUME ~Opens(k) PROVE LikeOK(k)'
  BY <1>o
<1>0. LikeOK(k)
  BY DisturbedStays DEF Likes
<1>c. ASSUME UNCHANGED client, expr'[k] = expr[k],
             \A q \in Request : req'[q] # Free /\ req'[q].key = k =>
                                  req[q] # Free /\ req[q].key = k /\ req'[q].at = req[q].at
      PROVE  LikeOK(k)'
  BY <1>0, <1>c, LikeKept DEF client
<1>v. ASSUME UNCHANGED vars, shown'[k] = shown[k], inList'[k] = inList[k], reading'[k] = reading[k],
             \A q \in Request : waits[q] # NoTap /\ waits[q].key = k => waits'[q] = waits[q],
             \A q \in Request : waits'[q] # NoTap /\ waits'[q].key = k => waits'[q] = waits[q]
      PROVE  LikeOK(k)'
  BY <1>0, <1>v, LikeKept DEF vars
<1>1. ASSUME NEW r \in Request, NEW j \in Key, Send(r, j) PROVE LikeOK(k)'
  <2>1. CASE j = k
    BY <1>0, <1>1, <2>1, LikeTapped
  <2>2. CASE j # k
    <3>1. PICK at \in Checks : Begins(r, at, j)
      BY <1>1, HandlerOK DEF Send, Purpose
    <3>p. Purpose(j) \in {"insert", "delete", "visit"}
      BY DEF Purpose
    <3>2. waits[r] = NoTap /\ waits'[r] = MadeTap(Purpose(j), j) /\ \A q \in Request \ {r} : waits'[q] = waits[q]
      BY <1>1 DEF Send, ClientTypeOK, MadeTap
    <3>3. waits[r] = NoTap /\ waits'[r].key = j /\ \A q \in Request \ {r} : waits'[q] = waits[q]
      BY <3>p, <3>2, TapMade
    <3>4. shown'[k] = shown[k] /\ inList' = inList /\ reading' = reading
      BY <1>1, <2>2 DEF Send, Turned, ClientTypeOK
    <3>5. \A q \in Request : req'[q] # Free /\ req'[q].key = k =>
                               req[q] # Free /\ req[q].key = k /\ req'[q].at = req[q].at
      BY <2>2, <3>1 DEF Begins
    <3>6. expr' = expr
      BY <3>1 DEF Begins
    <3> QED
      BY <1>0, <2>2, <3>3, <3>4, <3>5, <3>6, LikeKept
  <2> QED
    BY <2>1, <2>2
<1>2. ASSUME NEW r \in Request, NEW j \in Key, ShowsProfile(r, j) PROVE LikeOK(k)'
  <2>1. Begins(r, "insertShow", j) /\ j # k /\ UNCHANGED client
    BY <1>2, <1>k, StartCases DEF ShowsProfile, save_showprofile
  <2> QED
    BY <1>c, <2>1 DEF Begins
<1>3. CASE Calm /\ UNCHANGED client
  BY <1>c, <1>3 DEF Calm, Same
<1>4. ASSUME NEW r \in Request, ServerStep(r) PROVE LikeOK(k)'
  <2>1. Runs(r) \/ (Calm /\ UNCHANGED client)
    BY <1>4, AnswersOK, QueryCases DEF ServerStep
  <2>2. CASE Runs(r) /\ req[r].key = k
    BY <1>0, <1>4, <2>2, LikeRuns
  <2>3. CASE Runs(r) /\ req[r].key # k
    <3>1. expr'[k] = expr[k]
      BY <2>3 DEF Runs, TypeOK
    <3>2. \A q \in Request : req'[q] # Free /\ req'[q].key = k =>
                               req[q] # Free /\ req[q].key = k /\ req'[q].at = req[q].at
      BY <2>3 DEF Runs, Same
    <3>3. CASE UNCHANGED client
      BY <1>c, <3>1, <3>2, <3>3
    <3>4. CASE Answers(r) /\ waits' = [waits EXCEPT ![r] = IF @ = NoTap THEN @ ELSE [@ EXCEPT !.heard = TRUE]]
                          /\ UNCHANGED <<shown, inList, item, reading, disturbed>>
      <4>1. req[r] # Free
        BY <2>3 DEF Runs
      <4>2. waits[r] # NoTap => waits[r].key # k /\ waits[r] \in Tap
        BY <2>3, <4>1 DEF WaitsOK, ClientTypeOK
      <4>3. waits'[r] = NoTap \/ waits'[r].key # k
        BY <3>4, <4>2, HeardOK DEF ClientTypeOK
      <4>4. \A q \in Request \ {r} : waits'[q] = waits[q]
        BY <3>4 DEF ClientTypeOK
      <4>5. waits[r] = NoTap \/ waits[r].key # k
        BY <4>2
      <4> QED
        BY <1>0, <3>1, <3>2, <3>4, <4>3, <4>4, <4>5, LikeKept
    <3> QED
      BY <1>4, <3>3, <3>4 DEF ServerStep
  <2> QED
    BY <1>3, <2>1, <2>2, <2>3
<1>5. ASSUME NEW r \in Request, Reply(r) PROVE LikeOK(k)'
  <2>1. CASE waits[r].key = k
    BY <1>0, <1>5, <2>1, LikeReplied
  <2>2. CASE waits[r].key # k
    <3>1. UNCHANGED vars /\ shown'[k] = shown[k] /\ inList' = inList /\ reading' = reading
      BY <1>5, <2>2 DEF Reply, ClientTypeOK
    <3>2. waits'[r] = NoTap /\ \A q \in Request \ {r} : waits'[q] = waits[q]
      BY <1>5 DEF Reply, ClientTypeOK
    <3> QED
      BY <1>v, <2>2, <3>1, <3>2
  <2> QED
    BY <2>1, <2>2
<1>6. ASSUME NEW r \in Request, GivesUp(r) PROVE LikeOK(k)'
  <2>1. waits[r].key # k
    BY <1>6, Zenon DEF GivesUp, ClientTypeOK
  <2>2. UNCHANGED <<vars, shown, inList, item, reading>>
    BY <1>6 DEF GivesUp
  <2>3. waits'[r] = NoTap /\ \A q \in Request \ {r} : waits'[q] = waits[q]
    BY <1>6 DEF GivesUp, ClientTypeOK
  <2> QED
    BY <1>v, <2>1, <2>2, <2>3
<1>7. ASSUME NEW r \in Request, NEW s \in Request, SentAgain(r, s) PROVE LikeOK(k)'
  <2>1. waits[r] \in Tap /\ (s # r => waits[s] = NoTap)
    BY <1>7 DEF SentAgain, ClientTypeOK
  <2>2. PICK at \in Checks : Begins(s, at, waits[r].key)
    BY <1>7, <2>1, TapOK, HandlerOK DEF SentAgain
  <2>3. waits[r].key \in Key /\ waits[r].key # k
    BY <1>7, <2>1, TapOK DEF SentAgain, ClientTypeOK
  <2>4. /\ waits'[s] = [waits[r] EXCEPT !.again = TRUE, !.heard = FALSE]
        /\ r # s => waits'[r] = NoTap
        /\ \A q \in Request \ {r, s} : waits'[q] = waits[q]
    BY <1>7 DEF SentAgain, ClientTypeOK
  <2>5. waits'[s].key # k
    BY <2>1, <2>3, <2>4, AgainOK
  <2>6. \A q \in Request : req'[q] # Free /\ req'[q].key = k =>
                             req[q] # Free /\ req[q].key = k /\ req'[q].at = req[q].at
    BY <2>2, <2>3 DEF Begins
  <2>7. expr' = expr /\ UNCHANGED <<shown, inList, reading>>
    BY <1>7, <2>2 DEF SentAgain, Begins
  <2> QED
    BY <1>0, <2>1, <2>3, <2>4, <2>5, <2>6, <2>7, LikeKept
<1>8. ASSUME NEW j \in Used, Page(j) PROVE LikeOK(k)'
  <2>1. ASSUME j = k PROVE ServerReads(k) \/ ReadReply(k) \/ Refreshes(k) \/ Returns(k)
    <3>1. ~(TapLost(k) \/ ReadFails(k) \/ Rebinds(k))
      BY Zenon DEF TapLost, ReadFails, Rebinds, ClientTypeOK
    <3> QED
      BY <1>8, <1>k, <2>1, <3>1 DEF Page, Closes
  <2>2. CASE j = k
    BY <1>0, <2>1, <2>2, LikeRead, LikeListed
  <2>3. CASE j # k
    <3>1. UNCHANGED vars
      BY <1>8 DEF Page, TapLost, Opens, Refreshes, Rebinds, Returns, ServerReads, ReadReply, ReadFails, Closes
    <3>2. shown'[k] = shown[k] /\ inList'[k] = inList[k] /\ reading'[k] = reading[k]
      BY <1>8, <2>3 DEF Page, TapLost, Turned, Opens, Refreshes, Rebinds, Returns, ServerReads, ReadReply, ReadFails, Closes, ClientTypeOK
    <3>3. CASE Opens(j)
      <4>1. \A q \in Request : \/ waits'[q] = waits[q]
                               \/ waits[q].key # k /\ waits'[q].key # k
        BY <2>3, <3>3, OpensWaits
      <4> QED
        BY <1>v, <3>1, <3>2, <4>1
    <3>4. CASE ~Opens(j)
      <4>1. waits' = waits
        BY <1>8, <3>4 DEF Page, TapLost, Refreshes, Rebinds, Returns, ServerReads, ReadReply, ReadFails, Closes
      <4> QED
        BY <1>v, <3>1, <3>2, <4>1
    <3> QED
      BY <3>3, <3>4
  <2> QED
    BY <2>2, <2>3
<1>9. ASSUME ((Crash \/ Restart) /\ UNCHANGED client) \/ UNCHANGED buttonsVars PROVE LikeOK(k)'
  BY <1>3, <1>9, CalmCases DEF buttonsVars
<1> QED
  BY <1>1, <1>2, <1>4, <1>5, <1>6, <1>7, <1>8, <1>9 DEF ButtonsNext

\* A button nobody is waiting for shows whether the user has a row, for any
\* number of requests and whatever fails at the server, unless its taps were
\* disturbed.
THEOREM ButtonsAgreeUnlessDisturbed == ButtonsSpec => []AgreesUnlessDisturbed
<1>1. ButtonsInit => Likes
  <2> SUFFICES ASSUME ButtonsInit, NEW k \in Key PROVE LikeOK(k)
    BY DEF Likes
  <2>1. \A r \in Request : req[r] = Free /\ waits[r] = NoTap
    BY DEF ButtonsInit, Init
  <2>2. expr[k] = 0 /\ ~shown[k] /\ reading[k] = "no"
    BY DEF ButtonsInit, Init
  <2> QED
    BY <2>1, <2>2 DEF LikeOK, OpenAt
<1>2. TypeOK /\ TypeOK' /\ KindOK /\ ClientTypeOK /\ WaitsOK /\ WaitsOK' /\ Likes /\ [ButtonsNext]_buttonsVars
      => Likes'
  BY LikesStep
<1>3. Likes => AgreesUnlessDisturbed
  BY DEF Likes, LikeOK, AgreesUnlessDisturbed
<1> QED
  BY <1>1, <1>2, <1>3, ButtonsInvariance, PTL DEF ButtonsSpec
=============================================================================
