------------------------- MODULE BlockSwitchProofs -------------------------
(***************************************************************************)
(* Proofs about BlockSwitch, for any number of chains at a time and any    *)
(* bounds on the copies under way and the rows of the table.               *)
(***************************************************************************)
EXTENDS BlockSwitch, FiniteSetTheorems, TLAPS

\* What the two requests of a chain to the state of the switch are for.
FirstDone == IF switch THEN user.number ELSE blocking = 0
SecondDone == IF switch THEN blocking > 0 ELSE ~user.number

\* Since an undisturbed click everything that is under way, or waits to be,
\* says what the switch says.
SameTarget ==
  /\ \A q \in Request : late[q] > 0 => q.to = switch
  /\ \A c \in Chain : chain[c] # Idle => chain[c].to = switch

\* The flag has arrived, or is on its way.
FlagComes == user.flag = switch \/ late[[to |-> switch, what |-> "flag"]] > 0

\* One chain runs, and has done so far what it has been answered.
OneChain ==
  /\ \A c, d \in Chain : chain[c] # Idle /\ chain[d] # Idle => c = d
  /\ \A c \in Chain : chain[c] # Idle =>
       /\ login = "no"
       /\ chain[c].done \/ chain[c].at = "second" => FirstDone
       /\ chain[c].done /\ chain[c].at = "second" => SecondDone

\* When none runs, the copies agree, or the login is about to make them.
Settled ==
  (\A c \in Chain : chain[c] = Idle) =>
    FirstDone /\ SecondDone /\ app.flag = switch /\ (login = "no" => app.number = switch)

LoginOK == login # "no" => switch /\ login # "none"

Clean == SameTarget /\ FlagComes /\ OneChain /\ Settled /\ LoginOK

IInv == TypeOK /\ (~messy => Clean)
-----------------------------------------------------------------------------
(* Requests, copies and chains.                                            *)

LEMMA RequestFinite == IsFiniteSet(Request)
<1> DEFINE Pair == BOOLEAN \X {"first", "second", "flag"}
           f == [q \in Request |-> <<q.to, q.what>>]
<1>1. IsFiniteSet(BOOLEAN) /\ IsFiniteSet({"first", "second", "flag"})
  <2>1. IsFiniteSet({"first"} \cup {"second"}) /\ IsFiniteSet({TRUE} \cup {FALSE})
    BY FS_Singleton, FS_Union
  <2>2. IsFiniteSet(({"first"} \cup {"second"}) \cup {"flag"})
    BY <2>1, FS_AddElement
  <2>3. ({"first"} \cup {"second"}) \cup {"flag"} = {"first", "second", "flag"} /\ {TRUE} \cup {FALSE} = BOOLEAN
    OBVIOUS
  <2> QED
    BY <2>1, <2>2, <2>3
<1>2. IsFiniteSet(Pair)
  BY <1>1, FS_Product
<1>3. f \in Injection(Request, Pair)
  <2>1. \A q \in Request : <<q.to, q.what>> \in Pair
    BY DEF Request, Step
  <2>2. \A q, s \in Request : <<q.to, q.what>> = <<s.to, s.what>> => q = s
    BY DEF Request
  <2> QED
    BY <2>1, <2>2 DEF Injection, IsInjective
<1> QED
  BY <1>2, <1>3, FS_Injection

\* The bound on all copies is one on the copies of each request.
LEMMA RoomOK ==
  ASSUME late \in [Request -> 0..MaxLate], NEW q \in Request, NEW n \in Nat, Room(n)
  PROVE  late[q] + n <= MaxLate
<1> DEFINE S == {q} \X (1..late[q])
<1>0. late[q] \in 0..MaxLate /\ MaxLate \in Nat
  BY BlockSwitchAssumption
<1>1. IsFiniteSet(OnTheWay)
  <2>0. IsFiniteSet(1..MaxLate)
    BY <1>0, FS_Interval
  <2>1. IsFiniteSet(Request \X (1..MaxLate))
    BY <2>0, RequestFinite, FS_Product
  <2>2. OnTheWay \in SUBSET (Request \X (1..MaxLate))
    BY DEF OnTheWay
  <2> QED
    BY <2>1, <2>2, FS_Subset
<1>2. S \in SUBSET OnTheWay
  BY <1>0 DEF OnTheWay
<1>3. Cardinality(S) = late[q]
  <2>1. IsFiniteSet(1..late[q]) /\ Cardinality(1..late[q]) = late[q]
    BY <1>0, FS_Interval
  <2>2. IsFiniteSet({q}) /\ Cardinality({q}) = 1
    BY FS_Singleton
  <2>3. Cardinality(S) = 1 * late[q]
    BY <2>1, <2>2, FS_Product
  <2> QED
    BY <1>0, <2>3
<1>4. Cardinality(S) <= Cardinality(OnTheWay) /\ Cardinality(OnTheWay) \in Nat
  BY <1>1, <1>2, FS_Subset, FS_CardinalityType
<1> QED
  BY <1>0, <1>3, <1>4 DEF Room

LEMMA IdleOK == Idle.at = "idle" /\ Idle \notin Running
BY DEF Idle, Running, Step

\* A chain that runs waits for one of its two requests.
LEMMA ChainOK ==
  ASSUME TypeOK, NEW c \in Chain, chain[c] # Idle
  PROVE  /\ chain[c] \in Running /\ chain[c].at \in Step /\ chain[c].to \in BOOLEAN
         /\ Of(c) \in Request /\ Of(c).to = chain[c].to /\ Of(c).what = chain[c].at
BY DEF TypeOK, Running, Of, Request, Step

LEMMA CopiesOK ==
  ASSUME NEW b \in BOOLEAN
  PROVE  /\ Both(b) \in Copies /\ Both(b).flag = b /\ Both(b).number = b
         /\ [to |-> b, what |-> "flag"] \in Request
BY DEF Both, Copies, Request, Step

\* What a request does to the server, and what one to the state of the switch
\* leaves alone.
LEMMA ExecutesOK ==
  ASSUME TypeOK, NEW q \in Request, Executes(q)
  PROVE  /\ user' \in Copies /\ blocking' \in 0..MaxRows
         /\ q.to = switch /\ switch' = switch =>
              /\ FirstDone \/ q.what = "first" => FirstDone'
              /\ SecondDone \/ q.what = "second" => SecondDone'
              /\ user.flag = switch \/ q.what = "flag" => user'.flag = switch
<1>0. /\ user \in Copies /\ blocking \in 0..MaxRows /\ MaxRows \in Nat /\ switch \in BOOLEAN
      /\ blocking' <= MaxRows
  BY BlockSwitchAssumption DEF TypeOK, Executes
<1>1. CASE q.what = "flag"
  <2>1. user' = [user EXCEPT !.flag = q.to] /\ blocking' = blocking /\ q.to \in BOOLEAN
    BY <1>1 DEF Executes, Request
  <2>2. user' \in Copies /\ user'.flag = q.to /\ user'.number = user.number
    BY <1>0, <2>1 DEF Copies
  <2> QED
    BY <1>0, <1>1, <2>1, <2>2 DEF FirstDone, SecondDone
<1>2. CASE q = [to |-> TRUE, what |-> "first"]
  <2>a. q.what = "first" /\ q.to = TRUE
    BY <1>2
  <2>1. user' = [user EXCEPT !.number = TRUE] /\ blocking' = blocking
    BY <1>2 DEF Executes
  <2>2. user' \in Copies /\ user'.flag = user.flag /\ user'.number
    BY <1>0, <2>1 DEF Copies
  <2> QED
    BY <1>0, <2>a, <2>1, <2>2 DEF FirstDone, SecondDone
<1>3. CASE q = [to |-> TRUE, what |-> "second"]
  <2>a. q.what = "second" /\ q.to = TRUE
    BY <1>3
  <2>1. user' = user /\ blocking' = blocking + 1
    BY <1>3 DEF Executes
  <2> QED
    BY <1>0, <2>a, <2>1 DEF FirstDone, SecondDone
<1>4. CASE q = [to |-> FALSE, what |-> "first"]
  <2>a. q.what = "first" /\ q.to = FALSE
    BY <1>4
  <2>1. user' = user /\ blocking' = 0
    BY <1>4 DEF Executes
  <2> QED
    BY <1>0, <2>a, <2>1 DEF FirstDone, SecondDone
<1>5. CASE q = [to |-> FALSE, what |-> "second"]
  <2>a. q.what = "second" /\ q.to = FALSE
    BY <1>5
  <2>1. user' = [user EXCEPT !.number = FALSE] /\ blocking' = blocking
    BY <1>5 DEF Executes
  <2>2. user' \in Copies /\ user'.flag = user.flag /\ ~user'.number
    BY <1>0, <2>1 DEF Copies
  <2> QED
    BY <1>0, <2>a, <2>1, <2>2 DEF FirstDone, SecondDone
<1> QED
  <2>1. q = [to |-> q.to, what |-> q.what] /\ q.to \in BOOLEAN /\ q.what \in {"first", "second", "flag"}
    BY DEF Request, Step
  <2> QED
    BY <1>1, <1>2, <1>3, <1>4, <1>5, <2>1
-----------------------------------------------------------------------------
LEMMA TypeStep == TypeOK /\ [Next]_vars => TypeOK'
<1> SUFFICES ASSUME TypeOK, [Next]_vars PROVE TypeOK'
  OBVIOUS
<1>0. /\ late \in [Request -> 0..MaxLate] /\ MaxLate \in Nat /\ chain \in [Chain -> {Idle} \cup Running]
      /\ user \in Copies /\ app \in Copies /\ switch \in BOOLEAN
  BY BlockSwitchAssumption DEF TypeOK
<1>a. \A q \in Request, n \in Nat : Room(n) => late[q] + n \in 0..MaxLate
  BY <1>0, RoomOK
<1>l. \A q \in Request : late[q] > 0 => late[q] - 1 \in 0..MaxLate
  BY <1>0
<1>b. ASSUME NEW b \in BOOLEAN, Begins(b)
      PROVE  chain' \in [Chain -> {Idle} \cup Running] /\ late' \in [Request -> 0..MaxLate]
             /\ switch' = b /\ messy' \in BOOLEAN
  <2>1. PICK c \in Chain, copies \in 1..2 :
          /\ chain' = [chain EXCEPT ![c] = [at |-> "first", to |-> b, try |-> 1, done |-> FALSE]]
          /\ Room(copies) /\ late' = [late EXCEPT ![[to |-> b, what |-> "flag"]] = @ + copies]
          /\ switch' = b /\ messy' = ~Quiet
    BY <1>b DEF Begins
  <2>2. [at |-> "first", to |-> b, try |-> 1, done |-> FALSE] \in Running
    BY DEF Running, Step
  <2>3. messy' \in BOOLEAN
    BY <2>1, Zenon
  <2>4. [to |-> b, what |-> "flag"] \in Request
    BY CopiesOK
  <2>5. late[[to |-> b, what |-> "flag"]] + copies \in 0..MaxLate
    BY <1>a, <2>1, <2>4
  <2>6. late' \in [Request -> 0..MaxLate]
    BY <1>0, <2>1, <2>5
  <2>7. chain' \in [Chain -> {Idle} \cup Running]
    BY <1>0, <2>1, <2>2
  <2> QED
    BY <2>1, <2>3, <2>6, <2>7
<1>1. CASE TurnOff
  BY <1>1, <1>b DEF TurnOff, TypeOK, server
<1>2. CASE TurnOn
  BY <1>2, <1>b DEF TurnOn, TypeOK, server
<1>3. CASE Asks \/ Denied
  <2>1. CASE Asks
    BY <2>1 DEF Asks, TypeOK, server
  <2>2. CASE Denied
    BY <2>2 DEF Denied, TypeOK, server
  <2> QED
    BY <1>3, <2>1, <2>2
<1>4. CASE Allowed
  BY <1>4, <1>b DEF Allowed, TypeOK, server
<1>5. CASE Opens
  <2>1. messy' \in BOOLEAN
    BY <1>5, Zenon DEF Opens
  <2>2. app.flag \in BOOLEAN
    BY <1>0 DEF Copies
  <2> QED
    BY <1>5, <2>1, <2>2 DEF Opens, TypeOK, server
<1>6. ASSUME NEW c \in Chain, Arrives(c) PROVE TypeOK'
  <2>1. user' \in Copies /\ blocking' \in 0..MaxRows
    BY <1>6, ChainOK, ExecutesOK DEF Arrives
  <2>2. [chain[c] EXCEPT !.done = TRUE] \in Running
    BY <1>0, <1>6 DEF Arrives, Running
  <2>3. chain' \in [Chain -> {Idle} \cup Running]
    BY <1>0, <1>6, <2>2 DEF Arrives
  <2> QED
    BY <1>6, <2>1, <2>3 DEF Arrives, TypeOK, page
<1>7. ASSUME NEW c \in Chain, SentAgain(c) PROVE TypeOK'
  <2>1. [chain[c] EXCEPT !.try = 2, !.done = FALSE] \in Running
    <3>1. chain[c] \in Running /\ 2 \in 1..2
      BY <1>7, ChainOK DEF SentAgain
    <3> QED
      BY <3>1 DEF Running
  <2>2. chain' = [chain EXCEPT ![c] = [chain[c] EXCEPT !.try = 2, !.done = FALSE]]
    BY <1>0, <1>7 DEF SentAgain
  <2>3. Of(c) \in Request
    BY <1>7, ChainOK DEF SentAgain
  <2>4. late' \in [Request -> 0..MaxLate]
    BY <1>0, <1>7, <1>a, <2>3 DEF SentAgain
  <2>5. chain' \in [Chain -> {Idle} \cup Running]
    BY <1>0, <2>1, <2>2
  <2> QED
    BY <1>7, <2>4, <2>5 DEF SentAgain, TypeOK, server, page
<1>8. ASSUME NEW c \in Chain, Answered(c) PROVE TypeOK'
  <2>1. chain[c] \in Running
    BY <1>0, <1>8, IdleOK DEF Answered
  <2>2. [chain[c] EXCEPT !.at = "second", !.try = 1, !.done = FALSE] \in Running
    <3>1. 1 \in 1..2 /\ "second" \in Step
      BY DEF Step
    <3> QED
      BY <2>1, <3>1 DEF Running
  <2>3. chain' \in [Chain -> {Idle} \cup Running]
    BY <1>0, <1>8, <2>2 DEF Answered
  <2> QED
    BY <1>8, <2>3 DEF Answered, TypeOK, server, page
<1>9. ASSUME NEW c \in Chain, Completed(c) PROVE TypeOK'
  <2>1. chain[c].to \in BOOLEAN
    BY <1>9, IdleOK, ChainOK DEF Completed
  <2> QED
    BY <1>9, <2>1, CopiesOK DEF Completed, TypeOK, server
<1>10. ASSUME NEW c \in Chain, Fails(c) PROVE TypeOK'
  <2>1. Of(c) \in Request
    BY <1>10, ChainOK DEF Fails
  <2>2. late' \in [Request -> 0..MaxLate]
    BY <1>0, <1>10, <1>a, <2>1 DEF Fails
  <2>3. app' \in Copies
    BY <1>0, <1>10, CopiesOK DEF Fails
  <2> QED
    BY <1>10, <2>2, <2>3 DEF Fails, TypeOK, server
<1>11. ASSUME NEW q \in Request, LateArrives(q) PROVE TypeOK'
  <2>1. user' \in Copies /\ blocking' \in 0..MaxRows
    BY <1>11, ExecutesOK DEF LateArrives
  <2> QED
    BY <1>0, <1>11, <1>l, <2>1 DEF LateArrives, TypeOK, page
<1>12. ASSUME NEW q \in Request, LateLost(q) PROVE TypeOK'
  BY <1>0, <1>12, <1>l DEF LateLost, TypeOK, server, page
<1>13. CASE Restarts
  <2>1. PICK sent \in SUBSET Chain :
          /\ Room(Cardinality(sent))
          /\ late' = [q \in Request |-> late[q] + Cardinality({c \in sent : Of(c) = q})]
    BY <1>13 DEF Restarts
  <2>2. IsFiniteSet(sent) /\ Cardinality(sent) \in Nat
    BY BlockSwitchAssumption, FS_Subset, FS_CardinalityType
  <2>3. ASSUME NEW q \in Request PROVE late'[q] \in 0..MaxLate
    <3>1. {c \in sent : Of(c) = q} \in SUBSET sent
      OBVIOUS
    <3> DEFINE n == Cardinality({c \in sent : Of(c) = q})
    <3>2. n \in Nat /\ n <= Cardinality(sent)
      BY <2>2, <3>1, FS_Subset, FS_CardinalityType
    <3>3. late[q] + Cardinality(sent) \in 0..MaxLate /\ late[q] \in 0..MaxLate
      BY <1>0, <1>a, <2>1, <2>2
    <3>4. late'[q] = late[q] + n
      BY <2>1
    <3> HIDE DEF n
    <3> QED
      BY <1>0, <2>2, <3>2, <3>3, <3>4
  <2>4. late' \in [Request -> 0..MaxLate]
    BY <2>1, <2>3
  <2>5. app' \in Copies /\ switch' \in BOOLEAN
    BY <1>0, <1>13 DEF Restarts, Copies
  <2>6. messy' \in BOOLEAN
    BY <1>13, Zenon DEF Restarts
  <2> QED
    BY <1>13, <2>4, <2>5, <2>6 DEF Restarts, TypeOK, server
<1>14. CASE LoginRead \/ LoginReply \/ LoginFails
  <2>1. CASE LoginRead
    BY <2>1 DEF LoginRead, TypeOK, server, page
  <2>3. CASE LoginFails
    BY <2>3 DEF LoginFails, TypeOK, server, page
  <2>2. CASE LoginReply
    <3>1. app' \in Copies
      BY <1>0, <2>2 DEF LoginReply, Copies
    <3> QED
      BY <2>2, <3>1 DEF LoginReply, TypeOK, server
  <2> QED
    BY <1>14, <2>1, <2>2, <2>3
<1>15. CASE UNCHANGED vars
  BY <1>15 DEF vars, server, page, TypeOK
<1> QED
  BY <1>1, <1>2, <1>3, <1>4, <1>5, <1>6, <1>7, <1>8, <1>9, <1>10, <1>11, <1>12, <1>13, <1>14, <1>15 DEF Next
-----------------------------------------------------------------------------
(* One quiet click repairs all.                                            *)

\* A click when nothing else is under way, whatever the copies say.
LEMMA BeginsClean ==
  ASSUME TypeOK, NEW b \in BOOLEAN, Begins(b), UNCHANGED <<server, app, login>>, ~messy' PROVE Clean'
<1> DEFINE flag == [to |-> b, what |-> "flag"]
           start == [at |-> "first", to |-> b, try |-> 1, done |-> FALSE]
<1>1. PICK c \in Chain, copies \in 1..2 :
        /\ chain' = [chain EXCEPT ![c] = start]
        /\ late' = [late EXCEPT ![flag] = @ + copies]
        /\ switch' = b /\ messy' = ~Quiet
  BY DEF Begins
<1>2. Quiet
  BY <1>1, Zenon
<1>3. /\ \A q \in Request : late[q] = 0
      /\ \A d \in Chain : chain[d] = Idle
      /\ login' = "no"
  BY <1>2 DEF Quiet, Done
<1>4. flag \in Request /\ flag.to = b
  BY CopiesOK
<1>5. start # Idle /\ start.at = "first" /\ start.to = b /\ ~start.done
  BY DEF Idle
<1>6. /\ \A d \in Chain : chain'[d] = IF d = c THEN start ELSE Idle
      /\ \A q \in Request : late'[q] = IF q = flag THEN copies ELSE 0
  BY <1>1, <1>3, <1>4 DEF TypeOK
<1> HIDE DEF start
<1>7. \A d \in Chain : chain'[d] # Idle => d = c /\ chain'[d].to = switch'
  BY <1>1, <1>5, <1>6
<1>8. \A q \in Request : late'[q] > 0 => q.to = switch'
  BY <1>1, <1>4, <1>6
<1>9. FlagComes'
  BY <1>1, <1>4, <1>6 DEF FlagComes
<1>10. \A d \in Chain : chain'[d] # Idle => ~chain'[d].done /\ chain'[d].at = "first"
  BY <1>5, <1>6, <1>7, Zenon
<1>11. OneChain'
  BY <1>3, <1>7, <1>10 DEF OneChain
<1>12. Settled'
  BY <1>5, <1>6 DEF Settled
<1> QED
  BY <1>3, <1>7, <1>8, <1>9, <1>11, <1>12 DEF Clean, SameTarget, LoginOK

\* An undisturbed state in which nothing runs.
LEMMA QuietClean ==
  ASSUME TypeOK, Clean, Quiet
  PROVE  user.flag = switch /\ app.flag = switch /\ FirstDone /\ SecondDone
         /\ \A c \in Chain : chain[c] = Idle
<1>1. \A q \in Request : late[q] = 0
  BY DEF Quiet
<1>2. [to |-> switch, what |-> "flag"] \in Request
  BY CopiesOK DEF TypeOK
<1> QED
  BY <1>1, <1>2 DEF Clean, FlagComes, Settled, Quiet, Done

\* A step that the chains and the copies do not notice.
LEMMA CleanKept ==
  ASSUME Clean, UNCHANGED <<server, switch, app, chain, late, login>> PROVE Clean'
BY DEF Clean, SameTarget, FlagComes, OneChain, Settled, LoginOK, FirstDone, SecondDone, server

\* The server executes a request to the state of the switch.
LEMMA ExecutesClean ==
  ASSUME TypeOK, Clean, NEW q \in Request, Executes(q), q.to = switch, UNCHANGED <<switch, login>>,
         app' = app, \A s \in Request : late'[s] > 0 => late[s] > 0,
         \A s \in Request : late[s] > 0 => late'[s] > 0 \/ s = q,
         \A c \in Chain : chain'[c] = chain[c] \/
           (chain[c] # Idle /\ q = Of(c) /\ chain'[c] = [chain[c] EXCEPT !.done = TRUE])
  PROVE  Clean'
<1>1. /\ FirstDone \/ q.what = "first" => FirstDone'
      /\ SecondDone \/ q.what = "second" => SecondDone'
      /\ user.flag = switch \/ q.what = "flag" => user'.flag = switch
  BY ExecutesOK
<1>2. \A c \in Chain :
        /\ chain'[c] # Idle <=> chain[c] # Idle
        /\ chain'[c] # Idle => /\ chain'[c].to = chain[c].to /\ chain'[c].at = chain[c].at
                               /\ chain'[c].done => chain[c].done \/ q.what = chain[c].at
  <2> SUFFICES ASSUME NEW c \in Chain
               PROVE  /\ chain'[c] # Idle <=> chain[c] # Idle
                      /\ chain'[c] # Idle => /\ chain'[c].to = chain[c].to /\ chain'[c].at = chain[c].at
                                             /\ chain'[c].done => chain[c].done \/ q.what = chain[c].at
    OBVIOUS
  <2>1. CASE chain'[c] = chain[c]
    BY <2>1, Zenon
  <2>2. CASE chain[c] # Idle /\ q = Of(c) /\ chain'[c] = [chain[c] EXCEPT !.done = TRUE]
    <3>1. chain[c] \in Running /\ q.what = chain[c].at
      BY <2>2, ChainOK
    <3>2. chain'[c].at = chain[c].at /\ chain'[c].to = chain[c].to /\ chain[c].at \in Step
      BY <2>2, <3>1 DEF Running
    <3>3. chain'[c] # Idle
      BY <3>2 DEF Idle, Step
    <3> QED
      BY <2>2, <3>1, <3>2, <3>3
  <2> QED
    BY <2>1, <2>2
<1>3. SameTarget'
  BY <1>2 DEF Clean, SameTarget
<1>4. FlagComes'
  <2>1. [to |-> switch, what |-> "flag"] \in Request
    BY CopiesOK DEF TypeOK
  <2> QED
    BY <1>1, <2>1 DEF Clean, FlagComes
<1>5. OneChain'
  <2>1. ASSUME NEW c \in Chain, chain'[c] # Idle
        PROVE  /\ login' = "no"
               /\ chain'[c].done \/ chain'[c].at = "second" => FirstDone'
               /\ chain'[c].done /\ chain'[c].at = "second" => SecondDone'
    <3>1. /\ login = "no" /\ chain[c] # Idle
          /\ chain[c].done \/ chain[c].at = "second" => FirstDone
          /\ chain[c].done /\ chain[c].at = "second" => SecondDone
      BY <1>2, <2>1, Zenon DEF Clean, OneChain
    <3>2. /\ chain'[c].at = chain[c].at /\ chain[c].at \in {"first", "second"}
          /\ chain'[c].done => chain[c].done \/ q.what = chain[c].at
      BY <1>2, <2>1, <3>1, ChainOK DEF Step
    <3>3. chain'[c].done \/ chain'[c].at = "second" => FirstDone'
      BY <1>1, <3>1, <3>2, Zenon
    <3>4. chain'[c].done /\ chain'[c].at = "second" => SecondDone'
      BY <1>1, <3>1, <3>2, Zenon
    <3> QED
      BY <3>1, <3>3, <3>4
  <2> QED
    BY <1>2, <2>1 DEF Clean, OneChain
<1>6. Settled'
  BY <1>1, <1>2 DEF Clean, Settled
<1> QED
  BY <1>3, <1>4, <1>5, <1>6 DEF Clean, LoginOK

\* Volley's second copy of a chain's request; what was answered stays done.
LEMMA SentAgainClean == ASSUME TypeOK, Clean, NEW c \in Chain, SentAgain(c) PROVE Clean'
<1> DEFINE again == [chain[c] EXCEPT !.try = 2, !.done = FALSE]
<1>1. chain' = [chain EXCEPT ![c] = again] /\ UNCHANGED <<server, page, login>> /\ chain[c] # Idle
  BY DEF SentAgain, TypeOK
<1>2. chain[c] \in Running /\ Of(c) \in Request /\ Of(c).to = chain[c].to /\ chain[c].to = switch
  BY <1>1, ChainOK DEF Clean, SameTarget
<1>3. again.at = chain[c].at /\ again.to = chain[c].to /\ ~again.done /\ again # Idle
  BY <1>2 DEF Running, Idle, Step
<1> HIDE DEF again
<1>4. \A d \in Chain : chain'[d] = IF d = c THEN again ELSE chain[d]
  BY <1>1 DEF TypeOK
<1>5. \A q \in Request : late'[q] = late[q] \/ (q = Of(c) /\ late'[q] = late[q] + 1)
  BY <1>2 DEF SentAgain, TypeOK
<1>6. SameTarget'
  <2>1. \A q \in Request : late'[q] > 0 => q.to = switch
    BY <1>2, <1>5 DEF Clean, SameTarget
  <2> QED
    BY <1>1, <1>2, <1>3, <1>4, <2>1 DEF Clean, SameTarget, page
<1>7. FlagComes'
  <2>1. [to |-> switch, what |-> "flag"] \in Request /\ late \in [Request -> 0..MaxLate]
    BY CopiesOK DEF TypeOK
  <2> QED
    BY <1>1, <1>5, <2>1 DEF Clean, FlagComes, server, page
<1>8. FirstDone' = FirstDone /\ SecondDone' = SecondDone
  BY <1>1 DEF FirstDone, SecondDone, server, page
<1>9. OneChain'
  <2>1. \A d \in Chain : chain'[d] # Idle => chain[d] # Idle
    BY <1>1, <1>4
  <2>2. \A d \in Chain : chain'[d] # Idle => d = c
    BY <1>1, <2>1 DEF Clean, OneChain
  <2>3. login' = "no" /\ (chain[c].at = "second" => FirstDone)
    BY <1>1 DEF Clean, OneChain
  <2>4. chain'[c].at = chain[c].at /\ ~chain'[c].done
    BY <1>3, <1>4, Zenon
  <2> QED
    BY <1>8, <2>2, <2>3, <2>4, Zenon DEF OneChain
<1>10. Settled'
  BY <1>3, <1>4 DEF Settled
<1> QED
  BY <1>1, <1>6, <1>7, <1>9, <1>10 DEF Clean, LoginOK, page

\* The answer to a chain's first request.
LEMMA AnsweredClean == ASSUME TypeOK, Clean, NEW c \in Chain, Answered(c) PROVE Clean'
<1> DEFINE next == [chain[c] EXCEPT !.at = "second", !.try = 1, !.done = FALSE]
<1>1. chain' = [chain EXCEPT ![c] = next] /\ UNCHANGED <<server, page, late, login>>
      /\ chain[c].at = "first" /\ chain[c].done
  BY DEF Answered, TypeOK
<1>2. chain[c] # Idle
  BY <1>1, IdleOK
<1>3. chain[c] \in Running /\ chain[c].to = switch
  BY <1>2, ChainOK DEF Clean, SameTarget
<1>4. next.at = "second" /\ next.to = chain[c].to /\ ~next.done /\ next # Idle
  BY <1>3 DEF Running, Idle
<1> HIDE DEF next
<1>5. \A d \in Chain : chain'[d] = IF d = c THEN next ELSE chain[d]
  BY <1>1 DEF TypeOK
<1>6. /\ SameTarget' /\ FlagComes' /\ UNCHANGED <<switch, login, app>>
      /\ FirstDone' = FirstDone /\ SecondDone' = SecondDone
  BY <1>1, <1>2, <1>3, <1>4, <1>5
     DEF Clean, SameTarget, FlagComes, FirstDone, SecondDone, server, page
<1>7. OneChain'
  <2>1. \A d \in Chain : chain'[d] # Idle => d = c
    BY <1>2, <1>5 DEF Clean, OneChain
  <2>2. login = "no" /\ FirstDone
    BY <1>1, <1>2 DEF Clean, OneChain
  <2>3. ~chain'[c].done
    BY <1>4, <1>5, Zenon
  <2> QED
    BY <1>6, <2>1, <2>2, <2>3, Zenon DEF OneChain
<1>8. Settled'
  BY <1>4, <1>5 DEF Settled
<1> QED
  BY <1>6, <1>7, <1>8 DEF Clean, LoginOK

\* The answer to its second: all has been done, and UserInfo says so.
LEMMA CompletedClean == ASSUME TypeOK, Clean, NEW c \in Chain, Completed(c) PROVE Clean'
<1>1. /\ chain' = [chain EXCEPT ![c] = Idle] /\ app' = Both(chain[c].to)
      /\ UNCHANGED <<server, switch, late, login>> /\ chain[c].at = "second" /\ chain[c].done
  BY DEF Completed
<1>2. chain[c] # Idle
  BY <1>1, IdleOK
<1>3. chain[c].to = switch /\ FirstDone /\ SecondDone /\ login = "no"
  BY <1>1, <1>2, Zenon DEF Clean, SameTarget, OneChain
<1>4. \A d \in Chain : chain'[d] = Idle
  BY <1>1, <1>2 DEF Clean, OneChain, TypeOK
<1>5. app'.flag = switch /\ app'.number = switch
  BY <1>1, <1>3, CopiesOK DEF TypeOK
<1>6. FirstDone' /\ SecondDone'
  BY <1>1, <1>3 DEF FirstDone, SecondDone, server
<1>7. SameTarget' /\ OneChain' /\ LoginOK'
  BY <1>1, <1>3, <1>4 DEF Clean, SameTarget, OneChain, LoginOK
<1>8. FlagComes'
  BY <1>1 DEF Clean, FlagComes, server
<1>9. Settled'
  BY <1>1, <1>5, <1>6 DEF Settled
<1> QED
  BY <1>7, <1>8, <1>9 DEF Clean

\* A restart when nothing is under way or on its way.
LEMMA RestartsClean == ASSUME TypeOK, Clean, Quiet, Restarts PROVE Clean'
<1>1. /\ user.flag = switch /\ FirstDone /\ SecondDone
      /\ \A c \in Chain : chain[c] = Idle
  BY QuietClean
<1>2. PICK sent \in SUBSET {c \in Chain : chain[c] # Idle /\ ~chain[c].done} :
        late' = [q \in Request |-> late[q] + Cardinality({c \in sent : Of(c) = q})]
  BY DEF Restarts
<1>3. \A q \in Request : {c \in sent : Of(c) = q} = {}
  BY <1>1, <1>2
<1>4. Cardinality({}) = 0
  BY FS_EmptySet
<1>5. \A q \in Request : late'[q] = 0
  <2> SUFFICES ASSUME NEW q \in Request PROVE late'[q] = 0
    OBVIOUS
  <2>1. late'[q] = late[q] + Cardinality({})
    BY <1>2, <1>3
  <2> QED
    BY <1>4, <2>1 DEF Quiet
<1>6. /\ UNCHANGED server /\ switch' = user.flag /\ app' = [flag |-> user.flag, number |-> FALSE]
      /\ login' = (IF user.flag THEN "asked" ELSE "no") /\ chain' = [c \in Chain |-> Idle]
  BY DEF Restarts
<1>7. switch' = switch /\ app'.flag = switch /\ ~app'.number /\ user'.flag = switch
      /\ \A c \in Chain : chain'[c] = Idle
  BY <1>1, <1>6 DEF server
<1>8. FirstDone' /\ SecondDone'
  BY <1>1, <1>6, <1>7 DEF FirstDone, SecondDone, server
<1>9. SameTarget' /\ FlagComes' /\ OneChain'
  BY <1>5, <1>7 DEF SameTarget, FlagComes, OneChain
<1>10. LoginOK' /\ (login' = "no" => ~switch)
  BY <1>1, <1>6, <1>7 DEF LoginOK
<1>11. switch \in BOOLEAN
  BY DEF TypeOK
<1>12. Settled'
  <2>1. app'.flag = switch' /\ (login' = "no" => app'.number = switch')
    BY <1>6, <1>7, <1>10, <1>11
  <2> QED
    BY <1>8, <2>1 DEF Settled
<1> QED
  BY <1>9, <1>10, <1>12 DEF Clean

\* The login that reads the rows back: it finds some, for the switch is on.
LEMMA LoginClean == ASSUME TypeOK, Clean, LoginRead \/ LoginReply PROVE Clean'
<1>1. login # "no" /\ switch
  BY DEF LoginRead, LoginReply, Clean, LoginOK
<1>2. (\A c \in Chain : chain[c] = Idle) /\ FirstDone /\ SecondDone /\ app.flag = switch
  BY <1>1 DEF Clean, OneChain, Settled
<1>3. UNCHANGED <<server, switch, chain, late>>
  BY DEF LoginRead, LoginReply, page
<1>4. SameTarget' /\ FlagComes' /\ OneChain' /\ FirstDone' /\ SecondDone'
  BY <1>2, <1>3 DEF Clean, SameTarget, FlagComes, OneChain, FirstDone, SecondDone, server
<1>5. CASE LoginRead
  <2>1. app' = app /\ login' = "rows"
    BY <1>1, <1>2, <1>5 DEF LoginRead, SecondDone, page
  <2> QED
    BY <1>1, <1>2, <1>3, <1>4, <2>1 DEF Clean, LoginOK, Settled
<1>6. CASE LoginReply
  <2>1. login = "rows" /\ login' = "no" /\ app' = [app EXCEPT !.number = TRUE]
    BY <1>6 DEF LoginReply, Clean, LoginOK
  <2>2. app'.number /\ app'.flag = app.flag
    BY <2>1 DEF TypeOK, Copies
  <2> QED
    BY <1>1, <1>2, <1>3, <1>4, <2>1, <2>2 DEF Clean, LoginOK, Settled
<1> QED
  BY <1>5, <1>6

\* Every step keeps the copies on their way to agreement, or says that it did
\* not.
LEMMA CleanStep == IInv /\ [Next]_vars => (~messy' => Clean')
<1> SUFFICES ASSUME IInv, [Next]_vars, ~messy' PROVE Clean'
  OBVIOUS
<1>0. TypeOK /\ (~messy => Clean)
  BY DEF IInv
<1>1. CASE TurnOff
  <2>1. Begins(FALSE) /\ UNCHANGED <<server, app, login>>
    BY <1>1 DEF TurnOff
  <2> QED
    BY <1>0, <2>1, BeginsClean
<1>2. CASE TurnOn
  <2>1. Begins(TRUE) /\ UNCHANGED <<server, app, login>>
    BY <1>2 DEF TurnOn
  <2> QED
    BY <1>0, <2>1, BeginsClean
<1>3. CASE Allowed
  <2>1. Begins(TRUE) /\ UNCHANGED <<server, app, login>>
    BY <1>3 DEF Allowed
  <2> QED
    BY <1>0, <2>1, BeginsClean
<1>4. CASE Asks
  <2>1. ~messy /\ UNCHANGED <<server, switch, app, chain, late, login>>
    BY <1>4 DEF Asks
  <2> QED
    BY <1>0, <2>1, CleanKept
<1>5. CASE Denied
  <2>1. ~messy /\ UNCHANGED <<server, app, chain, late, login>> /\ switch' = FALSE /\ ~switch
    BY <1>0, <1>5 DEF Denied, TypeOK
  <2>2. switch' = switch
    BY <1>0, <2>1 DEF TypeOK
  <2> QED
    BY <1>0, <2>1, <2>2, CleanKept
<1>6. CASE Opens
  <2>1. ~messy /\ Quiet
    BY <1>6, Zenon DEF Opens
  <2>2. app.flag = switch
    BY <1>0, <2>1, QuietClean
  <2>3. UNCHANGED <<server, switch, app, chain, late, login>>
    BY <1>6, <2>2 DEF Opens
  <2> QED
    BY <1>0, <2>1, <2>3, CleanKept
<1>7. ASSUME NEW c \in Chain, Arrives(c) PROVE Clean'
  <2>1. /\ ~messy /\ chain[c] # Idle /\ Executes(Of(c)) /\ UNCHANGED <<switch, app, login, late>>
        /\ chain' = [chain EXCEPT ![c].done = TRUE]
    BY <1>7 DEF Arrives, page
  <2>2. Of(c) \in Request /\ Of(c).to = switch
    BY <1>0, <2>1, ChainOK DEF Clean, SameTarget
  <2>3. \A d \in Chain : chain'[d] = chain[d] \/
          (chain[d] # Idle /\ Of(c) = Of(d) /\ chain'[d] = [chain[d] EXCEPT !.done = TRUE])
    BY <1>0, <2>1 DEF TypeOK
  <2> QED
    BY <1>0, <2>1, <2>2, <2>3, ExecutesClean
<1>8. ASSUME NEW c \in Chain, SentAgain(c) PROVE Clean'
  <2>1. ~messy
    BY <1>8 DEF SentAgain
  <2> QED
    BY <1>0, <1>8, <2>1, SentAgainClean
<1>9. ASSUME NEW c \in Chain, Answered(c) PROVE Clean'
  <2>1. ~messy
    BY <1>9 DEF Answered
  <2> QED
    BY <1>0, <1>9, <2>1, AnsweredClean
<1>10. ASSUME NEW c \in Chain, Completed(c) PROVE Clean'
  <2>1. ~messy
    BY <1>10 DEF Completed
  <2> QED
    BY <1>0, <1>10, <2>1, CompletedClean
<1>11. ASSUME NEW c \in Chain, Fails(c) PROVE FALSE
  BY <1>11 DEF Fails
<1>12. ASSUME NEW q \in Request, LateArrives(q) PROVE Clean'
  <2>1. /\ ~messy /\ Executes(q) /\ UNCHANGED <<switch, app, login, chain>>
        /\ late[q] > 0 /\ late' = [late EXCEPT ![q] = @ - 1]
    BY <1>12 DEF LateArrives, page
  <2>2. q.to = switch
    BY <1>0, <2>1 DEF Clean, SameTarget
  <2>3. /\ \A s \in Request : late'[s] > 0 => late[s] > 0
        /\ \A s \in Request : late[s] > 0 => late'[s] > 0 \/ s = q
    <3>1. late \in [Request -> 0..MaxLate] /\ MaxLate \in Nat
      BY <1>0, BlockSwitchAssumption DEF TypeOK
    <3> QED
      BY <2>1, <3>1
  <2> QED
    BY <1>0, <2>1, <2>2, <2>3, ExecutesClean
<1>13. ASSUME NEW q \in Request, LateLost(q) PROVE FALSE
  BY <1>13 DEF LateLost
<1>14. CASE Restarts
  <2>1. ~messy /\ Quiet
    BY <1>14, Zenon DEF Restarts
  <2> QED
    BY <1>0, <1>14, <2>1, RestartsClean
<1>15. CASE LoginRead \/ LoginReply
  <2>1. ~messy
    BY <1>15 DEF LoginRead, LoginReply
  <2> QED
    BY <1>0, <1>15, <2>1, LoginClean
<1>16. ~LoginFails
  BY DEF LoginFails
<1>17. CASE UNCHANGED vars
  BY <1>0, <1>17, CleanKept DEF vars, page
<1> QED
  BY <1>1, <1>2, <1>3, <1>4, <1>5, <1>6, <1>7, <1>8, <1>9, <1>10, <1>11, <1>12, <1>13, <1>14,
     <1>15, <1>16, <1>17 DEF Next
-----------------------------------------------------------------------------
LEMMA InitInv == Init => IInv
<1> SUFFICES ASSUME Init PROVE IInv
  OBVIOUS
<1>0. MaxLate \in Nat \ {0} /\ MaxRows \in Nat \ {0}
  BY BlockSwitchAssumption
<1>1. PICK b \in BOOLEAN :
        user = Both(b) /\ blocking = (IF b THEN 1 ELSE 0) /\ switch = b /\ app = Both(b)
  BY DEF Init
<1>2. Both(b) \in Copies /\ Both(b).flag = b /\ Both(b).number = b
  BY CopiesOK
<1>3. /\ asking = FALSE /\ chain = [c \in Chain |-> Idle] /\ late = [q \in Request |-> 0]
      /\ login = "no" /\ messy = FALSE /\ granted \in BOOLEAN
  BY DEF Init
<1>4. TypeOK
  <2>1. chain \in [Chain -> {Idle} \cup Running] /\ late \in [Request -> 0..MaxLate]
    BY <1>0, <1>3
  <2>2. user \in Copies /\ app \in Copies /\ switch \in BOOLEAN /\ blocking \in 0..MaxRows
    BY <1>0, <1>1, <1>2
  <2> QED
    BY <1>3, <2>1, <2>2 DEF TypeOK
<1>5. FirstDone /\ SecondDone
  BY <1>1, <1>2 DEF FirstDone, SecondDone
<1>6. (\A c \in Chain : chain[c] = Idle) /\ (\A q \in Request : late[q] = 0)
  BY <1>3
<1>7. Clean
  BY <1>1, <1>2, <1>3, <1>5, <1>6
     DEF Clean, SameTarget, FlagComes, OneChain, Settled, LoginOK
<1> QED
  BY <1>4, <1>7 DEF IInv

LEMMA StepInv == IInv /\ [Next]_vars => IInv'
BY TypeStep, CleanStep DEF IInv

\* The state of the switch, of its copies and of the requests is always well
\* formed: neither the copies on their way nor the rows exceed their bounds,
\* and the switch is off while the dialog of the permission is open.
THEOREM BlockSwitchTypeCorrect == Spec => []TypeOK
<1>1. TypeOK /\ [Next]_vars => TypeOK'
  BY TypeStep
<1>2. Init => TypeOK
  BY InitInv DEF IInv
<1> QED
  BY <1>1, <1>2, PTL DEF Spec

\* One undisturbed click makes the five copies agree, whatever they said
\* before and however late the second copies of its requests are executed, and
\* a restart that finds nothing on its way keeps them so (CopiesAgree).
THEOREM BlockSwitchCopiesAgree == Spec => []CopiesAgree
<1>1. IInv => CopiesAgree
  <2> SUFFICES ASSUME IInv, Done, ~messy
               PROVE  /\ app = Both(user.number) /\ (blocking > 0) = user.number
                      /\ ~asking => switch = user.number
                      /\ Quiet => user.flag = user.number
    BY Zenon DEF CopiesAgree
  <2>1. TypeOK /\ Clean
    BY DEF IInv
  <2>2. FirstDone /\ SecondDone /\ app.flag = switch /\ app.number = switch
    BY <2>1 DEF Done, Clean, Settled
  <2>3. user.number = switch /\ (blocking > 0) = switch
    BY <2>1, <2>2, BlockSwitchAssumption DEF FirstDone, SecondDone, TypeOK, Copies
  <2>4. app = Both(switch)
    BY <2>1, <2>2 DEF TypeOK, Copies, Both
  <2>5. Quiet => user.flag = switch
    BY <2>1, QuietClean
  <2> QED
    BY <2>3, <2>4, <2>5
<1> QED
  BY <1>1, InitInv, StepInv, PTL DEF Spec
=============================================================================
