----------------------------- MODULE Expression -----------------------------
(***************************************************************************)
(* Likes: the tables expression, expressioneach and viewhistory, and the   *)
(* handlers /expression/insert, /delete, /save/showprofile and             *)
(* /insert/history that write them.                                        *)
(*                                                                         *)
(* A handler is a chain of queries; between two of them any other request, *)
(* a database error, or the end of the process may come.  An action is one *)
(* query together with its callback.  When the process dies, a query that  *)
(* was already sent is still executed, but nobody hears of it.             *)
(***************************************************************************)
EXTENDS Naturals, FiniteSets

CONSTANTS User, Request,
          Together,      \* bound: sets of keys that have rows or requests at a time
          MaxEach,       \* bound: rows of expressioneach from which on nothing is
          MaxShows       \* asked about a key; rows of a profile opened, likewise

Liking == {"like", "meet"}

\* The rows (user_id, partner_id, expression_type); the date does not matter,
\* and no table has a key, so that a row may be there several times.  A visit
\* of a profile is a row of viewhistory.
Key == {k \in User \X User \X (Liking \cup {"show", "visit"}) : k[1] # k[2]}

ASSUME ExpressionAssumption == IsFiniteSet(Request) /\ MaxEach \in Nat /\ MaxShows \in Nat

VARIABLES up,     \* the process runs
          req,    \* what each request is about to do to the tables
          expr,   \* how many rows expression, or viewhistory, has for a key
          each,   \* how many rows expressioneach has for a key
          paid    \* how many times the user was charged for a key

vars == <<up, req, expr, each, paid>>

Checks == {"checkInsert", "checkDelete", "checkVisit"}
Writes == {"insertFirst", "insertAgain", "insertEach", "deleteEach", "delete",
           "insertShow", "charge", "insertVisit", "updateVisit"}

\* alive: the process that started the query is still there to hear of it.
Free == [at |-> "idle", key |-> CHOOSE k \in Key : TRUE, alive |-> FALSE]
Going == [at : Checks \cup Writes, key : Key, alive : BOOLEAN]
At(r, at) == req[r].at = at

Init ==
  /\ up = TRUE
  /\ req = [r \in Request |-> Free]
  /\ expr = [k \in Key |-> 0]
  /\ each = [k \in Key |-> 0]
  /\ paid = [k \in Key |-> 0]
-----------------------------------------------------------------------------
\* The callback starts the next query, or answers and is done; no callback
\* hears of an orphan's query.
Then(r, at) ==
  req' = [req EXCEPT ![r] = IF @.alive /\ at # "idle" THEN [@ EXCEPT !.at = at] ELSE Free]

InUse ==
  {k \in Key : expr[k] > 0 \/ each[k] > 0 \/ \E r \in Request : req[r] # Free /\ req[r].key = k}

Start(r, at, k) ==
  /\ up
  /\ req[r] = Free
  /\ each[k] < MaxEach /\ \E keys \in Together : InUse \cup {k} \subseteq keys
  /\ req' = [req EXCEPT ![r] = [at |-> at, key |-> k, alive |-> TRUE]]
  /\ UNCHANGED <<up, expr, each, paid>>

insert(r, k) == k[3] \in Liking /\ Start(r, "checkInsert", k)
delete(r, k) == k[3] \in Liking /\ Start(r, "checkDelete", k)
save_showprofile(r, k) == k[3] = "show" /\ expr[k] < MaxShows /\ Start(r, "insertShow", k)
insert_history(r, k) == k[3] = "visit" /\ Start(r, "checkVisit", k)

\* check_expression_data takes the partner first and is called with the
\* partner first: what it counts are the user's own rows.  check_visit_data
\* counts those of viewhistory.
check_expression_data(k) == expr[k]

\* Mutant: the deletion stops only at three rows.
AfterCheckLate(at, count) ==
  CASE at = "checkInsert" /\ count = 0 -> "insertFirst"
    [] at = "checkInsert" /\ count = 1 -> "insertAgain"
    [] at = "checkDelete" /\ count = 0 -> "delete"
    [] at = "checkDelete" /\ count \in {1, 2} -> "deleteEach"
    [] at = "checkVisit" /\ count = 0 -> "insertVisit"
    [] at = "checkVisit" /\ count = 1 -> "updateVisit"
    [] OTHER -> "idle"

\* Mutant: a visit is inserted until there are two.
AfterCheckTwice(at, count) ==
  CASE at = "checkInsert" /\ count = 0 -> "insertFirst"
    [] at = "checkInsert" /\ count = 1 -> "insertAgain"
    [] at = "checkDelete" /\ count = 0 -> "delete"
    [] at = "checkDelete" /\ count = 1 -> "deleteEach"
    [] at = "checkVisit" /\ count \in {0, 1} -> "insertVisit"
    [] OTHER -> "idle"

\* With two rows or more no handler does, or answers, anything.
AfterCheck(at, count) ==
  CASE at = "checkInsert" /\ count = 0 -> "insertFirst"
    [] at = "checkInsert" /\ count = 1 -> "insertAgain"
    [] at = "checkDelete" /\ count = 0 -> "delete"
    [] at = "checkDelete" /\ count = 1 -> "deleteEach"
    [] at = "checkVisit" /\ count = 0 -> "insertVisit"
    [] at = "checkVisit" /\ count = 1 -> "updateVisit"
    [] OTHER -> "idle"

Check(r) ==
  /\ req[r].at \in Checks
  /\ Then(r, AfterCheck(req[r].at, check_expression_data(req[r].key)))
  /\ UNCHANGED <<up, expr, each, paid>>

\* The process ends; every query under way is an orphan.
Dies(others) ==
  /\ up' = FALSE
  /\ req' = [r \in Request |-> IF r \in others /\ req[r] # Free
                               THEN [req[r] EXCEPT !.alive = FALSE] ELSE Free]

\* The first like passes its callback as the date and no callback.  The row
\* may or may not be accepted, and then the SQL function calls undefined.
InsertFirst(r) ==
  /\ At(r, "insertFirst")
  /\ expr' \in {expr, [expr EXCEPT ![req[r].key] = @ + 1]}
  /\ IF req[r].alive THEN Dies(Request \ {r}) ELSE (Then(r, "idle") /\ UNCHANGED up)
  /\ UNCHANGED <<each, paid>>

InsertAgain(r) ==
  /\ At(r, "insertAgain")
  /\ expr' = [expr EXCEPT ![req[r].key] = @ + 1]
  /\ Then(r, "insertEach")
  /\ UNCHANGED <<up, each, paid>>

InsertEach(r) ==
  /\ At(r, "insertEach")
  /\ each' = [each EXCEPT ![req[r].key] = @ + 1]
  /\ Then(r, "idle")
  /\ UNCHANGED <<up, expr, paid>>

\* Mutant: one row at a time.
delete_expressioneach_row(k) ==
  [j \in Key |-> IF j = k \/ <<j[1], j[2]>> = <<k[2], k[1]>> THEN each[j] - 1 ELSE each[j]]

\* type = t and (user and partner) or (partner and user): the partner's rows
\* of every type go.
delete_expressioneach_data(k) ==
  [j \in Key |-> IF j = k \/ <<j[1], j[2]>> = <<k[2], k[1]>> THEN 0 ELSE each[j]]

DeleteEach(r) ==
  /\ At(r, "deleteEach")
  /\ each' = delete_expressioneach_data(req[r].key)
  /\ Then(r, "delete")
  /\ UNCHANGED <<up, expr, paid>>

Delete(r) ==
  /\ At(r, "delete")
  /\ expr' = [expr EXCEPT ![req[r].key] = 0]
  /\ Then(r, "idle")
  /\ UNCHANGED <<up, each, paid>>

\* Mutant: /save/showprofile does not wait for its insert before it charges.
InsertShowEarly(r) ==
  /\ At(r, "insertShow")
  /\ expr' \in {expr, [expr EXCEPT ![req[r].key] = @ + 1]}
  /\ Then(r, "charge")
  /\ UNCHANGED <<up, each, paid>>

InsertShow(r) ==
  /\ At(r, "insertShow")
  /\ expr' = [expr EXCEPT ![req[r].key] = @ + 1]
  /\ Then(r, "charge")
  /\ UNCHANGED <<up, each, paid>>

\* decrease_candy: no balance is looked at.
Charge(r) ==
  /\ At(r, "charge")
  /\ paid' = [paid EXCEPT ![req[r].key] = @ + 1]
  /\ Then(r, "idle")
  /\ UNCHANGED <<up, expr, each>>

\* A new row, or a new date in the one there is.
InsertVisit(r) ==
  /\ At(r, "insertVisit")
  /\ expr' = [expr EXCEPT ![req[r].key] = @ + 1]
  /\ Then(r, "idle")
  /\ UNCHANGED <<up, each, paid>>

UpdateVisit(r) ==
  /\ At(r, "updateVisit")
  /\ Then(r, "idle")
  /\ UNCHANGED <<up, expr, each, paid>>

\* A query ends with an error (a missing callback is called there, too), or
\* an orphan was never sent: nothing more happens.
Fails(r) ==
  /\ req[r] # Free
  /\ ~(req[r].alive /\ At(r, "insertFirst"))
  /\ req' = [req EXCEPT ![r] = Free]
  /\ UNCHANGED <<up, expr, each, paid>>

\* Another handler throws in a callback.
Crash == up /\ Dies(Request) /\ UNCHANGED <<expr, each, paid>>

Restart == ~up /\ up' = TRUE /\ UNCHANGED <<req, expr, each, paid>>

Query(r) ==
  \/ Check(r) \/ InsertFirst(r) \/ InsertAgain(r) \/ InsertEach(r)
  \/ DeleteEach(r) \/ Delete(r) \/ InsertShow(r) \/ Charge(r)
  \/ InsertVisit(r) \/ UpdateVisit(r) \/ Fails(r)

Next ==
  \/ \E r \in Request, k \in Key :
       insert(r, k) \/ delete(r, k) \/ save_showprofile(r, k) \/ insert_history(r, k)
  \/ \E r \in Request : Query(r)
  \/ Crash
  \/ Restart

Spec == Init /\ [][Next]_vars
-----------------------------------------------------------------------------
TypeOK ==
  /\ up \in BOOLEAN
  /\ req \in [Request -> {Free} \cup Going]
  /\ expr \in [Key -> Nat] /\ each \in [Key -> Nat]
  /\ paid \in [Key -> Nat]

\* A pair with two rows, and no deletion past its check.
Stuck(k) ==
  /\ expr[k] >= 2
  /\ \A r \in Request : req[r].key = k => req[r].at \notin {"deleteEach", "delete"}

\* A like that was inserted twice can never be withdrawn: no sequence of
\* requests, errors and restarts brings it back under two rows, since both
\* handlers do nothing at two rows.
StuckStays == [][\A k \in Key : Stuck(k) => Stuck(k)']_vars

Charging(k) == {r \in Request : At(r, "charge") /\ req[r].key = k}

\* Nobody is charged for a profile that was not opened to them: the charges,
\* with those under way, never outnumber the rows, whatever is lost between.
NoChargeWithoutShow == \A k \in Key : paid[k] + Cardinality(Charging(k)) <= expr[k]

\* ChannelFragment.kt:535 presents the rows of expressioneach as the people
\* with whom a like is mutual.  That is what this says; it is not so.
EachIsMutual ==
  \A k \in Key : each[k] > 0 => expr[k] > 0 /\ expr[<<k[2], k[1], k[3]>>] > 0
=============================================================================
