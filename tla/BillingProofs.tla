--------------------------- MODULE BillingProofs ---------------------------
(* Proofs about Billing, for any dialogs, amounts and number of purchases. *)
EXTENDS Billing, FiniteSetTheorems, TLAPS

\* What leads to consuming a purchase: an answer for it, or a request to Play.
Answered == \A n \in Notice : notice[n].at = "done" => credited[n[2]] > 0
Consuming == \A p \in consuming : credited[p] > 0

IInv == TypeOK /\ Answered /\ Consuming /\ ConsumedIsCredited

ModuleStep ==
  \/ \E m \in Module : Opens(m) \/ \E amount \in Amount : Accepts(m, amount)
  \/ Closes \/ Cancels
PlayStep(p) == Pays(p) \/ Declines(p) \/ Consume(p) \/ ConsumeFails(p)

LEMMA Split ==
  ASSUME Next
  PROVE  \/ ModuleStep \/ Dies \/ \E as \in {"pending", "paid"} : Buys(as)
         \/ \E p \in Purchase : PlayStep(p)
         \/ \E n \in Notice : \/ PurchasesUpdated(n) \/ UpdateCandy(n) \/ LateUpdate(n)
                              \/ SentAgain(n) \/ Success(n) \/ Fails(n)
BY DEF Next, ModuleStep, PlayStep

\* The three parts of a notice.
LEMMA Parts ==
  ASSUME NEW n \in Notice
  PROVE  n[1] \in Module /\ n[2] \in Purchase /\ n[3] \in {"pending", "paid"}
BY DEF Notice

LEMMA UnknownOK ==
  /\ Unknown \in NoticeState
  /\ [Unknown EXCEPT !.at = "told"] \in NoticeState
  /\ Unknown.at = "none" /\ [Unknown EXCEPT !.at = "told"].at = "told"
BY DEF Unknown, NoticeState

LEMMA OverOK ==
  ASSUME NEW state \in NoticeState
  PROVE  Over(state) \in NoticeState /\ Over(state).at = "over"
BY DEF Over, NoticeState
-----------------------------------------------------------------------------
LEMMA TypeStep == TypeOK /\ [Next]_vars => TypeOK'
<1> SUFFICES ASSUME TypeOK, [Next]_vars PROVE TypeOK'
  OBVIOUS
<1> USE BillingAssumption
<1>0. \A n \in Notice : notice[n] \in NoticeState /\ notice[n].amount \in Amount \cup {0}
                        /\ n[1] \in Module /\ n[2] \in Purchase
  BY Parts DEF TypeOK, NoticeState
<1>a. Amount \cup {0} \subseteq Nat OBVIOUS
<1>1. CASE ModuleStep
  <2>1. ASSUME NEW m \in Module, Opens(m) PROVE TypeOK'
    BY <2>1 DEF Opens, TypeOK, play, server
  <2>2. ASSUME NEW m \in Module, NEW amount \in Amount, Accepts(m, amount) PROVE TypeOK'
    <3>1. amount # 0 BY DEF TypeOK
    <3>2. \A k \in flow' : candyCount'[k] # 0 BY <2>2, <3>1 DEF Accepts, TypeOK
    <3> QED BY <2>2, <3>2 DEF Accepts, TypeOK, play, server
  <2>3. CASE Closes \/ Cancels
    BY <2>3 DEF Closes, Cancels, TypeOK, play, server
  <2> QED BY <1>1, <2>1, <2>2, <2>3 DEF ModuleStep
<1>2. CASE Dies
  <2>1. status' \in [Module -> {"new", "connected", "gone"}] BY <1>2 DEF Dies, TypeOK
  <2>2. late' \in [Notice -> 0..MaxLate]
    <3>1. PICK sent \in SUBSET {n \in Notice : notice[n].at = "sent" /\ late[n] < MaxLate} :
            late' = [n \in Notice |-> IF n \in sent THEN late[n] + 1 ELSE late[n]]
      BY <1>2 DEF Dies
    <3>2. \A n \in Notice : late[n] \in 0..MaxLate BY DEF TypeOK
    <3> QED BY <3>1, <3>2
  <2>3. notice' \in [Notice -> NoticeState] BY <1>2, <1>0, UnknownOK, OverOK DEF Dies
  <2> QED BY <1>2, <2>1, <2>2, <2>3 DEF Dies, TypeOK, play, server
<1>3. ASSUME NEW as \in {"pending", "paid"}, Buys(as) PROVE TypeOK'
  <2> PICK m \in flow, p \in Purchase :
         /\ purchase' = [purchase EXCEPT ![p] = as]
         /\ chosen' = [chosen EXCEPT ![p] = candyCount[m]]
         /\ Tells(p, as)
    BY <1>3 DEF Buys
  <2>1. notice' \in [Notice -> NoticeState] BY <1>0, UnknownOK DEF Tells
  <2>2. purchase' \in [Purchase -> PlayState] /\ chosen' \in [Purchase -> Amount \cup {0}]
    BY DEF TypeOK, PlayState
  <2> QED BY <1>3, <2>1, <2>2 DEF Buys, TypeOK, server
<1>4. ASSUME NEW p \in Purchase, PlayStep(p) PROVE TypeOK'
  <2>1. CASE Pays(p)
    <3>1. notice' \in [Notice -> NoticeState] BY <2>1, <1>0, UnknownOK DEF Pays, Tells
    <3> QED BY <2>1, <3>1 DEF Pays, TypeOK, PlayState, client, server
  <2>2. CASE Declines(p)
    BY <2>2 DEF Declines, TypeOK, PlayState, client, server
  <2>3. CASE Consume(p)
    BY <2>3 DEF Consume, TypeOK, PlayState, client, server
  <2>4. CASE ConsumeFails(p)
    BY <2>4 DEF ConsumeFails, TypeOK, client, server
  <2> QED BY <1>4, <2>1, <2>2, <2>3, <2>4 DEF PlayStep
<1>5. ASSUME NEW n \in Notice, PurchasesUpdated(n) PROVE TypeOK'
  <2>1. [at |-> "sent", again |-> FALSE, amount |-> candyCount[n[1]]] \in NoticeState
    BY <1>0 DEF NoticeState, TypeOK
  <2> QED BY <1>5, <2>1 DEF PurchasesUpdated, TypeOK, client, play, server
<1>6. ASSUME NEW n \in Notice, Executes(n)
      PROVE  credited' \in [Purchase -> Nat] /\ candy' \in Nat
  <2>1. notice[n].amount \in Nat /\ n[2] \in Purchase BY <1>0, <1>a
  <2>2. credited \in [Purchase -> Nat] /\ candy \in Nat BY DEF TypeOK
  <2> QED BY <1>6, <2>1, <2>2 DEF Executes
<1>7. ASSUME NEW n \in Notice, UpdateCandy(n) PROVE TypeOK'
  <2>1. [notice[n] EXCEPT !.at = "done"] \in NoticeState BY <1>0 DEF NoticeState
  <2>2. notice' \in [Notice -> NoticeState]
    BY <1>7, <2>1 DEF UpdateCandy, TypeOK
  <2> QED BY <1>6, <1>7, <2>2 DEF UpdateCandy, TypeOK, client, play
<1>8. ASSUME NEW n \in Notice, LateUpdate(n) PROVE TypeOK'
  BY <1>6, <1>8 DEF LateUpdate, TypeOK, client, play
<1>9. ASSUME NEW n \in Notice, SentAgain(n) PROVE TypeOK'
  <2>1. [at |-> "sent", again |-> TRUE, amount |-> notice[n].amount] \in NoticeState
    BY <1>0 DEF NoticeState
  <2>2. late' \in [Notice -> 0..MaxLate] BY <1>9 DEF SentAgain, TypeOK
  <2> QED BY <1>9, <2>1, <2>2 DEF SentAgain, TypeOK, client, play, server
<1>10. ASSUME NEW n \in Notice, Success(n) PROVE TypeOK'
  <2>1. notice' \in [Notice -> NoticeState] BY <1>0, <1>10, OverOK DEF Success, TypeOK
  <2>2. CANDYCOUNT' \in Nat
    <3>1. candyCount[n[1]] \in Nat BY <1>0, <1>a DEF TypeOK
    <3>2. CANDYCOUNT \in Nat BY DEF TypeOK
    <3> QED BY <1>10, <3>1, <3>2 DEF Success
  <2> QED BY <1>0, <1>10, <2>1, <2>2 DEF Success, TypeOK, client, server
<1>11. ASSUME NEW n \in Notice, Fails(n) PROVE TypeOK'
  <2>1. notice' \in [Notice -> NoticeState] BY <1>0, <1>11, OverOK DEF Fails, TypeOK
  <2>2. late' \in [Notice -> 0..MaxLate] BY <1>11 DEF Fails, TypeOK
  <2> QED BY <1>11, <2>1, <2>2 DEF Fails, TypeOK, client, play, server
<1>12. CASE UNCHANGED vars
  BY <1>12 DEF vars, client, play, server, TypeOK
<1> QED BY <1>1, <1>2, <1>3, <1>4, <1>5, <1>7, <1>8, <1>9, <1>10, <1>11, <1>12, Split
-----------------------------------------------------------------------------
\* No step takes an update back, so it is enough to look at what is new.
LEMMA CreditStep == IInv /\ [Next]_vars => (Answered /\ Consuming /\ ConsumedIsCredited)'
<1> SUFFICES ASSUME IInv, [Next]_vars PROVE (Answered /\ Consuming /\ ConsumedIsCredited)'
  OBVIOUS
<1>0. /\ credited \in [Purchase -> Nat] /\ notice \in [Notice -> NoticeState]
      /\ purchase \in [Purchase -> PlayState] /\ consuming \subseteq Purchase
      /\ \A n \in Notice : n[2] \in Purchase
  BY Parts DEF IInv, TypeOK
<1> USE DEF IInv, Answered, Consuming, ConsumedIsCredited
<1>1. ASSUME UNCHANGED <<play, server, notice>>
      PROVE  (Answered /\ Consuming /\ ConsumedIsCredited)'
  BY <1>1 DEF play, server
<1>2. CASE ModuleStep
  BY <1>1, <1>2 DEF ModuleStep, Opens, Accepts, Closes, Cancels
<1>3. CASE Dies
  BY <1>0, <1>3, UnknownOK, OverOK DEF Dies, play, server
<1>4. ASSUME NEW as \in {"pending", "paid"}, Buys(as)
      PROVE  (Answered /\ Consuming /\ ConsumedIsCredited)'
  <2> PICK p \in Purchase : purchase' = [purchase EXCEPT ![p] = as] /\ Tells(p, as)
    BY <1>4 DEF Buys
  <2> QED BY <1>0, <1>4, UnknownOK DEF Buys, Tells, server
<1>5. ASSUME NEW p \in Purchase, PlayStep(p)
      PROVE  (Answered /\ Consuming /\ ConsumedIsCredited)'
  <2>1. CASE Pays(p)
    BY <1>0, <2>1, UnknownOK DEF Pays, Tells, server
  <2>2. CASE Declines(p)
    BY <1>0, <2>2 DEF Declines, server
  <2>3. CASE Consume(p)
    BY <1>0, <2>3 DEF Consume, server
  <2>4. CASE ConsumeFails(p)
    BY <1>0, <2>4 DEF ConsumeFails, server
  <2> QED BY <1>5, <2>1, <2>2, <2>3, <2>4 DEF PlayStep
<1>6. ASSUME NEW n \in Notice, PurchasesUpdated(n) \/ SentAgain(n)
      PROVE  (Answered /\ Consuming /\ ConsumedIsCredited)'
  BY <1>0, <1>6 DEF PurchasesUpdated, SentAgain, play, server
<1>7. ASSUME NEW n \in Notice, Executes(n)
      PROVE  credited'[n[2]] > 0 /\ \A p \in Purchase : credited[p] > 0 => credited'[p] > 0
  <2>1. credited[n[2]] \in Nat BY <1>0
  <2> QED BY <1>0, <1>7, <2>1 DEF Executes
<1>8. ASSUME NEW n \in Notice, UpdateCandy(n) \/ LateUpdate(n)
      PROVE  (Answered /\ Consuming /\ ConsumedIsCredited)'
  <2>1. Executes(n) /\ UNCHANGED play BY <1>8 DEF UpdateCandy, LateUpdate
  <2>2. \A k \in Notice : k # n => notice'[k] = notice[k]
    BY <1>0, <1>8 DEF UpdateCandy, LateUpdate
  <2> QED BY <1>0, <1>7, <2>1, <2>2 DEF play
<1>9. ASSUME NEW n \in Notice, Success(n) \/ Fails(n)
      PROVE  (Answered /\ Consuming /\ ConsumedIsCredited)'
  <2>1. /\ \A k \in Notice : notice'[k].at = "done" => notice[k].at = "done"
        /\ UNCHANGED <<server, purchase>>
    BY <1>0, <1>9, OverOK DEF Success, Fails, play
  <2>2. consuming' = consuming \/ (notice[n].at = "done" /\ consuming' = consuming \cup {n[2]})
    BY <1>9 DEF Success, Fails, play
  <2> QED BY <1>0, <2>1, <2>2 DEF server
<1>10. CASE UNCHANGED vars
  BY <1>1, <1>10 DEF vars
<1> QED BY <1>2, <1>3, <1>4, <1>5, <1>6, <1>8, <1>9, <1>10, Split
-----------------------------------------------------------------------------
LEMMA Start == Init => IInv
<1> SUFFICES ASSUME Init PROVE IInv
  OBVIOUS
<1>1. TypeOK
  <2>1. notice \in [Notice -> NoticeState] BY UnknownOK DEF Init
  <2>2. purchase \in [Purchase -> PlayState] BY DEF Init, PlayState
  <2>3. late \in [Notice -> 0..MaxLate] BY BillingAssumption DEF Init
  <2>4. credited \in [Purchase -> Nat] /\ candy \in Nat /\ CANDYCOUNT \in Nat BY DEF Init
  <2> QED BY <2>1, <2>2, <2>3, <2>4 DEF Init, TypeOK
<1>2. Answered BY UnknownOK DEF Init, Answered
<1>3. Consuming /\ ConsumedIsCredited BY DEF Init, Consuming, ConsumedIsCredited
<1> QED BY <1>1, <1>2, <1>3 DEF IInv

LEMMA Keeps == Spec => []IInv
<1>1. IInv /\ [Next]_vars => IInv'
  BY TypeStep, CreditStep DEF IInv
<1> QED BY Start, <1>1, PTL DEF Spec

\* The type invariant, for any dialogs, amounts and number of purchases.
THEOREM BillingTypeCorrect == Spec => []TypeOK
<1>1. IInv => TypeOK BY DEF IInv
<1> QED BY Keeps, <1>1, PTL

\* Whatever fails, repeats or ends between the requests of onPurchasesUpdated,
\* a purchase is consumed only when the server has executed an update for it.
THEOREM BillingConsumedIsCredited == Spec => []ConsumedIsCredited
<1>1. IInv => ConsumedIsCredited BY DEF IInv
<1> QED BY Keeps, <1>1, PTL

\* What no module has in hand no step gives to one: only Play's own reports do,
\* and those it made of a paid purchase are over.
LEMMA AbandonedStep ==
  ASSUME TypeOK, NEW p \in Purchase, Abandoned(p), [Next]_vars
  PROVE  Abandoned(p)' /\ \A q \in Purchase : purchase[q] = "none" => purchase'[q] = "none"
<1> DEFINE Goal == Abandoned(p)' /\ \A q \in Purchase : purchase[q] = "none" => purchase'[q] = "none"
<1>0. /\ notice \in [Notice -> NoticeState] /\ purchase \in [Purchase -> PlayState]
      /\ \A n \in Notice : n[2] \in Purchase
  BY Parts DEF TypeOK
<1>a. purchase[p] = "paid" /\ p \notin consuming
  BY DEF Abandoned
<1>b. \A n \in Notice : n[2] = p => notice[n].at = "none" \/ notice[n].at = "over"
  BY DEF Abandoned
<1>1. CASE ModuleStep \/ UNCHANGED vars
  BY <1>1 DEF Abandoned, ModuleStep, Opens, Accepts, Closes, Cancels, play, vars
<1>2. CASE Dies
  BY <1>0, <1>a, <1>b, <1>2, UnknownOK, OverOK DEF Abandoned, Dies, play
<1>3. ASSUME NEW as \in {"pending", "paid"}, Buys(as) PROVE Goal
  <2>1. PICK q \in Purchase : Sells(q) BY <1>3 DEF Buys
  <2> QED BY <1>a, <2>1 DEF Sells
<1>4. ASSUME NEW q \in Purchase, PlayStep(q) PROVE Goal
  <2>1. CASE Pays(q)
    BY <1>0, <1>a, <1>b, <2>1 DEF Abandoned, Pays, Tells
  <2>2. CASE Declines(q) \/ Consume(q) \/ ConsumeFails(q)
    BY <1>0, <1>a, <1>b, <2>2 DEF Abandoned, Declines, Consume, ConsumeFails
  <2> QED BY <1>4, <2>1, <2>2 DEF PlayStep
<1>5. ASSUME NEW n \in Notice,
             \/ PurchasesUpdated(n) \/ UpdateCandy(n) \/ LateUpdate(n)
             \/ SentAgain(n) \/ Success(n) \/ Fails(n)
      PROVE  Goal
  <2>1. purchase' = purchase
    BY <1>5 DEF PurchasesUpdated, UpdateCandy, LateUpdate, SentAgain, Success, Fails, play
  <2>2. n[2] = p => LateUpdate(n)
    BY <1>b, <1>5 DEF PurchasesUpdated, UpdateCandy, SentAgain, Success, Fails
  <2>3. p \notin consuming'
    BY <1>a, <1>5, <2>2 DEF PurchasesUpdated, UpdateCandy, LateUpdate, SentAgain, Success, Fails, play
  <2>4. \A k \in Notice : k[2] = p => notice'[k] = notice[k]
    BY <1>0, <1>5, <2>2 DEF PurchasesUpdated, UpdateCandy, LateUpdate, SentAgain, Success, Fails
  <2> QED BY <1>a, <1>b, <2>1, <2>3, <2>4 DEF Abandoned
<1> QED BY <1>1, <1>2, <1>3, <1>4, <1>5, Split

\* A paid purchase that nobody will consume is never consumed, and it keeps
\* Play from selling again, whatever modules are opened later.
THEOREM BillingAbandonedStays == Spec => AbandonedStays
<1>1. IInv => TypeOK BY DEF IInv
<1>2. TypeOK /\ [Next]_vars =>
        [\A p \in Purchase : Abandoned(p) =>
           /\ Abandoned(p)'
           /\ \A q \in Purchase : purchase[q] = "none" => purchase'[q] = "none"]_vars
  BY AbandonedStep
<1> QED BY Keeps, <1>1, <1>2, PTL DEF Spec, AbandonedStays
-----------------------------------------------------------------------------
(* The sums of amounts: the units f[x] of each x of S, one by one.         *)

Units(S, f) == UNION {{x} \X (1..f[x]) : x \in S}

LEMMA UnitsFinite ==
  ASSUME NEW S, IsFiniteSet(S), NEW f, \A x \in S : f[x] \in Nat PROVE IsFiniteSet(Units(S, f))
<1> DEFINE part == [x \in S |-> {x} \X (1..f[x])]
           parts == {{x} \X (1..f[x]) : x \in S}
<1>1. part \in Surjection(S, parts)
  BY DEF Surjection
<1>2. IsFiniteSet(parts)
  BY <1>1, FS_Surjection
<1>3. ASSUME NEW x \in S PROVE IsFiniteSet({x} \X (1..f[x]))
  <2>1. IsFiniteSet({x})
    BY FS_Singleton
  <2>2. IsFiniteSet(1..f[x])
    BY FS_Interval
  <2> QED
    BY <2>1, <2>2, FS_Product
<1>4. \A T \in parts : IsFiniteSet(T)
  BY <1>3
<1> HIDE DEF parts
<1>5. IsFiniteSet(UNION parts)
  BY <1>2, <1>4, FS_UNION
<1> QED
  BY <1>5 DEF Units, parts

LEMMA UnitsAdd ==
  ASSUME NEW S, IsFiniteSet(S), NEW x, x \notin S, NEW f, \A y \in S \cup {x} : f[y] \in Nat
  PROVE  Cardinality(Units(S \cup {x}, f)) = Cardinality(Units(S, f)) + f[x]
<1> DEFINE own == {x} \X (1..f[x])
<1>1. IsFiniteSet(Units(S, f))
  BY UnitsFinite
<1>2. IsFiniteSet(own) /\ Cardinality(own) = f[x]
  <2>0. f[x] \in Nat
    OBVIOUS
  <2>1. IsFiniteSet({x}) /\ Cardinality({x}) = 1
    BY FS_Singleton
  <2>2. IsFiniteSet(1..f[x]) /\ Cardinality(1..f[x]) = f[x]
    BY <2>0, FS_Interval
  <2>3. IsFiniteSet(own) /\ Cardinality(own) = 1 * f[x]
    BY <2>1, <2>2, FS_Product
  <2> QED
    BY <2>0, <2>3
<1>3. Units(S \cup {x}, f) = Units(S, f) \cup own
  BY DEF Units
<1>4. Units(S, f) \cap own = {}
  BY DEF Units
<1> HIDE DEF own
<1>5. Cardinality(Units(S, f) \cup own)
        = Cardinality(Units(S, f)) + Cardinality(own) - Cardinality(Units(S, f) \cap own)
  BY <1>1, <1>2, FS_Union
<1>6. Cardinality(Units(S, f) \cap own) = 0
  BY <1>4, FS_EmptySet
<1>7. Cardinality(Units(S, f)) \in Nat /\ f[x] \in Nat
  BY <1>1, FS_CardinalityType
<1>8. Cardinality(Units(S \cup {x}, f)) = Cardinality(Units(S, f)) + f[x] - 0
  BY <1>2, <1>3, <1>5, <1>6, Zenon
<1> QED
  BY <1>7, <1>8

LEMMA UnitsRemove ==
  ASSUME NEW S, IsFiniteSet(S), NEW x \in S, NEW f, \A y \in S : f[y] \in Nat
  PROVE  Cardinality(Units(S, f)) = Cardinality(Units(S \ {x}, f)) + f[x]
<1>1. IsFiniteSet(S \ {x})
  BY FS_RemoveElement
<1>2. (S \ {x}) \cup {x} = S /\ x \notin S \ {x}
  OBVIOUS
<1>3. Cardinality(Units((S \ {x}) \cup {x}, f)) = Cardinality(Units(S \ {x}, f)) + f[x]
  BY <1>1, <1>2, UnitsAdd
<1> QED
  BY <1>2, <1>3

LEMMA UnitsSame ==
  ASSUME NEW S, NEW f, NEW g, \A x \in S : f[x] = g[x] PROVE Units(S, f) = Units(S, g)
BY DEF Units

LEMMA UnitsNat ==
  ASSUME NEW S, IsFiniteSet(S), NEW f, \A x \in S : f[x] \in Nat PROVE Cardinality(Units(S, f)) \in Nat
BY UnitsFinite, FS_CardinalityType

LEMMA NoticeFinite == IsFiniteSet(Notice)
<1> DEFINE f == [n \in Notice |-> <<<<n[1], n[2]>>, n[3]>>]
           pairs == (Module \X Purchase) \X {"pending", "paid"}
<1>1. IsFiniteSet({"pending", "paid"})
  <2>1. IsFiniteSet({"pending"} \cup {"paid"})
    BY FS_Singleton, FS_Union
  <2>2. {"pending"} \cup {"paid"} = {"pending", "paid"}
    OBVIOUS
  <2> QED
    BY <2>1, <2>2
<1>2. IsFiniteSet(Purchase)
  BY BillingAssumption, FS_Interval DEF Purchase
<1>3. IsFiniteSet(Module \X Purchase)
  BY <1>2, BillingAssumption, FS_Product
<1>4. IsFiniteSet(pairs)
  BY <1>1, <1>3, FS_Product
<1>5. f \in Injection(Notice, pairs)
  <2>1. \A n \in Notice : <<<<n[1], n[2]>>, n[3]>> \in pairs
    BY Parts
  <2>2. \A k, n \in Notice : <<<<k[1], k[2]>>, k[3]>> = <<<<n[1], n[2]>>, n[3]>> => k = n
    BY DEF Notice
  <2> QED
    BY <2>1, <2>2 DEF Injection, IsInjective
<1> QED
  BY <1>4, <1>5, FS_Injection
-----------------------------------------------------------------------------
(* What Play has told, of which module and purchase.                       *)

Told(n) == notice[n].at # "none"

\* A sheet that is open belongs to a connected module, and so does a dialog.
Launched ==
  /\ \A m \in flow \cup dialog : status[m] = "connected"
  /\ flow # {} => dialog = {}

\* Only opened modules are told, of what Play has sold, and as paid only then.
Heard == \A n \in Notice :
  /\ ~Told(n) => notice[n] = Unknown
  /\ notice[n].at = "told" => ~notice[n].again
  /\ Told(n) => status[n[1]] # "new" /\ purchase[n[2]] # "none"
  /\ Told(n) /\ n[3] = "paid" => purchase[n[2]] \in {"paid", "consumed"}

\* Some module was told of a pending purchase, and lives until the process ends.
Sales == \A p \in Purchase :
  /\ purchase[p] = "none" => chosen[p] = 0
  /\ purchase[p] = "pending" =>
       \E m \in Module : Told(<<m, p, "pending">>) /\ (failed \/ status[m] = "connected")

Records == TypeOK /\ Launched /\ Heard /\ Sales

LEMMA UnknownFields ==
  /\ Unknown.at = "none" /\ ~Unknown.again
  /\ [Unknown EXCEPT !.at = "told"].at = "told" /\ ~[Unknown EXCEPT !.at = "told"].again
BY DEF Unknown

\* Nothing that was told is forgotten.
LEMMA ToldStays == ASSUME TypeOK, [Next]_vars, NEW n \in Notice, Told(n) PROVE Told(n)'
<1>0. notice \in [Notice -> NoticeState]
  BY DEF TypeOK
<1>1. CASE ModuleStep \/ UNCHANGED vars
  BY <1>1 DEF Told, ModuleStep, Opens, Accepts, Closes, Cancels, vars
<1>2. CASE Dies
  BY <1>0, <1>2, OverOK DEF Told, Dies
<1>3. ASSUME NEW as \in {"pending", "paid"}, Buys(as) PROVE Told(n)'
  BY <1>3, UnknownOK DEF Told, Buys, Tells
<1>4. ASSUME NEW p \in Purchase, PlayStep(p) PROVE Told(n)'
  BY <1>4, UnknownOK DEF Told, PlayStep, Pays, Declines, Consume, ConsumeFails, Tells
<1>5. ASSUME NEW k \in Notice,
             \/ PurchasesUpdated(k) \/ UpdateCandy(k) \/ LateUpdate(k)
             \/ SentAgain(k) \/ Success(k) \/ Fails(k)
      PROVE  Told(n)'
  <2>1. CASE PurchasesUpdated(k) \/ SentAgain(k)
    BY <1>0, <2>1 DEF Told, PurchasesUpdated, SentAgain
  <2>2. CASE UpdateCandy(k) \/ LateUpdate(k)
    BY <1>0, <2>2 DEF Told, UpdateCandy, LateUpdate, NoticeState
  <2>3. CASE Success(k) \/ Fails(k)
    BY <1>0, <2>3, OverOK DEF Told, Success, Fails
  <2> QED
    BY <1>5, <2>1, <2>2, <2>3
<1> QED
  BY <1>1, <1>2, <1>3, <1>4, <1>5, Split

LEMMA LaunchedStep == TypeOK /\ Launched /\ [Next]_vars => Launched'
<1> SUFFICES ASSUME TypeOK, Launched, [Next]_vars PROVE Launched'
  OBVIOUS
<1>1. CASE UNCHANGED client
  BY <1>1 DEF Launched, client
<1>2. CASE ModuleStep
  <2>1. ASSUME NEW m \in Module, Opens(m) PROVE Launched'
    BY <2>1 DEF Opens, Launched, TypeOK
  <2>2. ASSUME NEW m \in Module, NEW amount \in Amount, Accepts(m, amount) PROVE Launched'
    BY <2>2 DEF Accepts, Launched
  <2>3. CASE Closes \/ Cancels
    BY <2>3 DEF Closes, Cancels, Launched
  <2> QED
    BY <1>2, <2>1, <2>2, <2>3 DEF ModuleStep
<1>3. CASE Dies
  BY <1>3 DEF Dies, Launched
<1>4. ASSUME NEW as \in {"pending", "paid"}, Buys(as) PROVE Launched'
  BY <1>4 DEF Buys, Launched
<1>5. ASSUME NEW p \in Purchase, PlayStep(p) PROVE UNCHANGED client
  BY <1>5 DEF PlayStep, Pays, Declines, Consume, ConsumeFails
<1>6. ASSUME NEW n \in Notice,
             \/ PurchasesUpdated(n) \/ UpdateCandy(n) \/ LateUpdate(n)
             \/ SentAgain(n) \/ Success(n) \/ Fails(n)
      PROVE  UNCHANGED client
  BY <1>6 DEF PurchasesUpdated, UpdateCandy, LateUpdate, SentAgain, Success, Fails
<1> QED
  BY <1>1, <1>2, <1>3, <1>4, <1>5, <1>6, Split DEF vars

\* What the application and the server do with a notice.
Acts(k) ==
  \/ PurchasesUpdated(k) \/ UpdateCandy(k) \/ LateUpdate(k)
  \/ SentAgain(k) \/ Success(k) \/ Fails(k)

LEMMA ActsOK ==
  ASSUME TypeOK, NEW k \in Notice, Acts(k)
  PROVE  /\ UNCHANGED <<client, purchase, chosen>> /\ (failed => failed')
         /\ \A n \in Notice : notice'[n] = notice[n]
              \/ (n = k /\ Told(k) /\ notice'[k].at \notin {"none", "told"})
<1>0. notice \in [Notice -> NoticeState]
  BY DEF TypeOK
<1>1. CASE PurchasesUpdated(k)
  BY <1>0, <1>1 DEF Told, PurchasesUpdated, play
<1>2. CASE UpdateCandy(k)
  BY <1>0, <1>2 DEF Told, UpdateCandy, play, NoticeState
<1>3. CASE LateUpdate(k)
  BY <1>0, <1>3 DEF LateUpdate, play
<1>4. CASE SentAgain(k)
  BY <1>0, <1>4 DEF Told, SentAgain, play
<1>5. CASE Success(k)
  BY <1>0, <1>5, OverOK DEF Told, Success, play
<1>6. CASE Fails(k)
  BY <1>0, <1>6, OverOK DEF Told, Fails, play
<1> QED
  BY <1>1, <1>2, <1>3, <1>4, <1>5, <1>6 DEF Acts

LEMMA HeardStep == Records /\ [Next]_vars => Heard'
<1> SUFFICES ASSUME Records, [Next]_vars, NEW n \in Notice
             PROVE  /\ ~Told(n)' => notice'[n] = Unknown
                    /\ notice'[n].at = "told" => ~notice'[n].again
                    /\ Told(n)' => status'[n[1]] # "new" /\ purchase'[n[2]] # "none"
                    /\ Told(n)' /\ n[3] = "paid" => purchase'[n[2]] \in {"paid", "consumed"}
  BY DEF Heard, Told
<1> DEFINE Goal == /\ ~Told(n)' => notice'[n] = Unknown
                   /\ notice'[n].at = "told" => ~notice'[n].again
                   /\ Told(n)' => status'[n[1]] # "new" /\ purchase'[n[2]] # "none"
                   /\ Told(n)' /\ n[3] = "paid" => purchase'[n[2]] \in {"paid", "consumed"}
<1>0. /\ TypeOK /\ notice \in [Notice -> NoticeState] /\ purchase \in [Purchase -> PlayState]
      /\ status \in [Module -> {"new", "connected", "gone"}] /\ chosen \in [Purchase -> Amount \cup {0}]
      /\ n[1] \in Module /\ n[2] \in Purchase
  BY Parts DEF Records, TypeOK
<1>a. /\ ~Told(n) => notice[n] = Unknown
      /\ notice[n].at = "told" => ~notice[n].again
      /\ Told(n) => status[n[1]] # "new" /\ purchase[n[2]] # "none"
      /\ Told(n) /\ n[3] = "paid" => purchase[n[2]] \in {"paid", "consumed"}
  BY DEF Records, Heard
<1>b. ASSUME notice'[n] = notice[n], status'[n[1]] = status[n[1]], purchase'[n[2]] = purchase[n[2]]
      PROVE  Goal
  BY <1>a, <1>b DEF Told
<1>1. CASE ModuleStep \/ UNCHANGED vars
  <2>1. ASSUME NEW m \in Module, Opens(m) PROVE Goal
    <3>1. UNCHANGED <<notice, purchase>> /\ (status[n[1]] # "new" => status'[n[1]] # "new")
      BY <1>0, <2>1 DEF Opens, play
    <3> QED
      BY <1>a, <3>1 DEF Told
  <2>2. CASE UNCHANGED vars \/ (ModuleStep /\ \A m \in Module : ~Opens(m))
    BY <1>b, <2>2 DEF ModuleStep, Accepts, Closes, Cancels, vars, client, play
  <2> QED
    BY <1>1, <2>1, <2>2
<1>2. CASE Dies
  <2>1. UNCHANGED purchase /\ (status[n[1]] # "new" => status'[n[1]] # "new")
    BY <1>0, <1>2 DEF Dies, play
  <2>2. notice'[n] = IF Told(n) THEN Over(notice[n]) ELSE Unknown
    BY <1>2 DEF Dies, Told
  <2>3. Over(notice[n]).at = "over"
    BY <1>0, OverOK
  <2> QED
    BY <1>a, <2>1, <2>2, <2>3, UnknownFields DEF Told
<1>3. ASSUME NEW p \in Purchase, NEW as \in {"pending", "paid"}, Tells(p, as),
             UNCHANGED status, purchase' = [purchase EXCEPT ![p] = as],
             purchase[p] = "none" \/ (purchase[p] = "pending" /\ as = "paid")
      PROVE  Goal
  <2>1. CASE n[2] = p /\ n[3] = as /\ status[n[1]] = "connected"
    <3>1. notice'[n] = [Unknown EXCEPT !.at = "told"]
      BY <1>3, <2>1 DEF Tells
    <3>2. purchase'[n[2]] = as
      BY <1>0, <1>3, <2>1
    <3> QED
      BY <1>3, <2>1, <3>1, <3>2, UnknownFields DEF Told
  <2>2. CASE ~(n[2] = p /\ n[3] = as /\ status[n[1]] = "connected")
    <3>1. notice'[n] = notice[n]
      BY <1>3, <2>2 DEF Tells
    <3>2. CASE n[2] # p
      BY <1>0, <1>3, <1>b, <3>1, <3>2
    <3>3. CASE n[2] = p
      <4>1. purchase'[n[2]] = as /\ (Told(n) => n[3] # "paid" /\ purchase[p] = "pending")
        BY <1>0, <1>a, <1>3, <3>3
      <4> QED
        BY <1>a, <1>3, <3>1, <4>1 DEF Told
    <3> QED
      BY <3>2, <3>3
  <2> QED
    BY <2>1, <2>2
<1>4. ASSUME NEW as \in {"pending", "paid"}, Buys(as) PROVE Goal
  BY <1>3, <1>4 DEF Buys, Sells
<1>5. ASSUME NEW p \in Purchase, PlayStep(p) PROVE Goal
  <2>1. CASE Pays(p)
    BY <1>3, <2>1 DEF Pays, client
  <2>2. CASE Declines(p)
    <3>1. UNCHANGED <<notice, status>> /\ purchase' = [purchase EXCEPT ![p] = "declined"] /\ purchase[p] = "pending"
      BY <2>2 DEF Declines, client
    <3> QED
      BY <1>0, <1>a, <3>1 DEF Told
  <2>3. CASE Consume(p)
    <3>1. UNCHANGED <<notice, status>>
          /\ purchase' = [purchase EXCEPT ![p] = IF @ = "paid" THEN "consumed" ELSE @]
      BY <2>3 DEF Consume, client
    <3> QED
      BY <1>0, <1>a, <3>1 DEF Told
  <2>4. CASE ConsumeFails(p)
    BY <1>b, <2>4 DEF ConsumeFails, client
  <2> QED
    BY <1>5, <2>1, <2>2, <2>3, <2>4 DEF PlayStep
<1>6. ASSUME NEW k \in Notice, Acts(k) PROVE Goal
  <2>1. UNCHANGED <<status, purchase>>
        /\ (notice'[n] = notice[n] \/ (Told(n) /\ notice'[n].at \notin {"none", "told"}))
    BY <1>0, <1>6, ActsOK DEF client
  <2> QED
    BY <1>a, <2>1 DEF Told
<1> QED
  BY <1>1, <1>2, <1>4, <1>5, <1>6, Split DEF Acts

LEMMA SalesStep == Records /\ [Next]_vars => Sales'
<1> SUFFICES ASSUME Records, [Next]_vars, NEW p \in Purchase
             PROVE  /\ purchase'[p] = "none" => chosen'[p] = 0
                    /\ purchase'[p] = "pending" => \E m \in Module :
                         Told(<<m, p, "pending">>)' /\ (failed' \/ status'[m] = "connected")
  BY DEF Sales
<1> DEFINE Goal == /\ purchase'[p] = "none" => chosen'[p] = 0
                   /\ purchase'[p] = "pending" => \E m \in Module :
                        Told(<<m, p, "pending">>)' /\ (failed' \/ status'[m] = "connected")
<1>0. /\ TypeOK /\ notice \in [Notice -> NoticeState] /\ purchase \in [Purchase -> PlayState]
      /\ status \in [Module -> {"new", "connected", "gone"}] /\ chosen \in [Purchase -> Amount \cup {0}]
      /\ flow \subseteq Module
  BY DEF Records, TypeOK
<1>a. /\ purchase[p] = "none" => chosen[p] = 0
      /\ purchase[p] = "pending" => \E m \in Module :
           Told(<<m, p, "pending">>) /\ (failed \/ status[m] = "connected")
  BY DEF Records, Sales
<1>b. ASSUME chosen'[p] = chosen[p], purchase'[p] = purchase[p] \/ purchase'[p] \notin {"none", "pending"},
             failed => failed', \A m \in Module : status[m] = "connected" => failed' \/ status'[m] = "connected"
      PROVE  Goal
  <2>1. \A m \in Module : <<m, p, "pending">> \in Notice
    BY DEF Notice
  <2>2. \A m \in Module : Told(<<m, p, "pending">>) => Told(<<m, p, "pending">>)'
    BY <1>0, <2>1, ToldStays
  <2> QED
    BY <1>a, <1>b, <2>2
<1>1. CASE ModuleStep \/ UNCHANGED vars
  <2>1. CASE ModuleStep
    <3>1. UNCHANGED <<purchase, chosen, failed>>
          /\ \A m \in Module : status[m] = "connected" => status'[m] = "connected"
      BY <1>0, <2>1 DEF ModuleStep, Opens, Accepts, Closes, Cancels, play
    <3> QED
      BY <1>b, <3>1
  <2>2. CASE UNCHANGED vars
    BY <1>b, <2>2 DEF vars, client, play
  <2> QED
    BY <1>1, <2>1, <2>2
<1>2. CASE Dies
  BY <1>b, <1>2 DEF Dies, play
<1>3. ASSUME NEW as \in {"pending", "paid"}, Buys(as) PROVE Goal
  <2>1. PICK m \in flow, q \in Purchase :
          /\ purchase' = [purchase EXCEPT ![q] = as]
          /\ chosen' = [chosen EXCEPT ![q] = candyCount[m]]
          /\ Tells(q, as)
    BY <1>3 DEF Buys
  <2>2. UNCHANGED <<status, failed>> /\ m \in Module /\ status[m] = "connected"
    BY <1>0, <1>3 DEF Buys, Records, Launched
  <2>3. CASE q # p
    BY <1>0, <1>b, <2>1, <2>2, <2>3
  <2>4. CASE q = p
    <3>1. purchase'[p] = as
      BY <1>0, <2>1, <2>4
    <3>2. <<m, p, as>> \in Notice
      BY <2>2 DEF Notice
    <3>3. Told(<<m, p, as>>)'
      BY <2>1, <2>2, <2>4, <3>2, UnknownFields DEF Tells, Told
    <3> QED
      BY <2>2, <3>1, <3>3
  <2> QED
    BY <2>3, <2>4
<1>4. ASSUME NEW q \in Purchase, PlayStep(q) PROVE Goal
  <2>1. UNCHANGED <<status, chosen>> /\ (failed => failed')
    BY <1>4 DEF PlayStep, Pays, Declines, Consume, ConsumeFails, client
  <2>2. purchase'[p] = purchase[p] \/ purchase'[p] \notin {"none", "pending"}
    BY <1>0, <1>4 DEF PlayStep, Pays, Declines, Consume, ConsumeFails
  <2> QED
    BY <1>b, <2>1, <2>2
<1>5. ASSUME NEW k \in Notice, Acts(k) PROVE Goal
  BY <1>0, <1>5, <1>b, ActsOK DEF client
<1> QED
  BY <1>1, <1>2, <1>3, <1>4, <1>5, Split DEF Acts

LEMMA RecordsStep == Records /\ [Next]_vars => Records'
BY TypeStep, LaunchedStep, HeardStep, SalesStep DEF Records

LEMMA RecordsStart == Init => Records
<1> SUFFICES ASSUME Init PROVE Records
  OBVIOUS
<1>1. TypeOK
  BY Start DEF IInv
<1>2. Heard
  BY UnknownFields DEF Heard, Told, Init
<1> QED
  BY <1>1, <1>2 DEF Records, Launched, Sales, Init
-----------------------------------------------------------------------------
(* The sums of the ledgers.                                                *)

\* What an update asks for is the amount its module was opened with, and no
\* module that was told can be given another.
Priced == \A n \in Notice :
  /\ Told(n) => n[1] \notin dialog
  /\ notice[n].at \in {"sent", "done"} => notice[n].amount = candyCount[n[1]]

Price == [n \in Notice |-> candyCount[n[1]]]
DoneAt == {n \in Notice : notice[n].at = "done"}
UnsentAt == {n \in Notice : notice[n].at \in {"told", "sent"}}

\* The server has added what the application will, and will add what is unsent.
Due == Cardinality(Units(DoneAt, Price))
Unsent == Cardinality(Units(UnsentAt, Price))

NoPending == \A n \in Notice : n[3] = "pending" => notice[n] = Unknown
Ahead == NoPending => Priced /\ CANDYCOUNT + Due <= candy

\* One notice of each purchase, nothing failed and nothing sent twice: then
\* every sum is equal.
Single ==
  /\ ~failed /\ \A n \in Notice : ~notice[n].again
  /\ \A k, n \in Notice : Told(k) /\ Told(n) /\ k[2] = n[2] => k = n
Chosen == \A n \in Notice : late[n] = 0 /\ (Told(n) => chosen[n[2]] = candyCount[n[1]])
Equal == candy + Unsent = Cardinality(Units(Purchase, chosen)) /\ CANDYCOUNT + Due = candy
Agree == Single => Priced /\ Chosen /\ Equal

LEMMA PriceOK ==
  ASSUME TypeOK
  PROVE  /\ \A n \in Notice : Price[n] \in Nat
         /\ IsFiniteSet(DoneAt) /\ IsFiniteSet(UnsentAt) /\ Due \in Nat /\ Unsent \in Nat
<1>1. \A n \in Notice : Price[n] \in Nat
  <2>1. Amount \cup {0} \subseteq Nat
    BY BillingAssumption
  <2>2. \A m \in Module : candyCount[m] \in Nat
    BY <2>1 DEF TypeOK
  <2> QED
    BY <2>2, Parts DEF Price
<1>2. DoneAt \in SUBSET Notice /\ UnsentAt \in SUBSET Notice
  BY DEF DoneAt, UnsentAt
<1>3. IsFiniteSet(DoneAt)
  BY <1>2, NoticeFinite, FS_Subset
<1>4. IsFiniteSet(UnsentAt)
  BY <1>2, NoticeFinite, FS_Subset
<1>5. Due \in Nat
  BY <1>1, <1>2, <1>3, UnitsNat DEF Due
<1>6. Unsent \in Nat
  BY <1>1, <1>2, <1>4, UnitsNat DEF Unsent
<1> QED
  BY <1>1, <1>3, <1>4, <1>5, <1>6

\* Play cannot be paid later when no pending purchase was reported, nor, while
\* the process lives, when one notice is given of each purchase.
LEMMA NoPays ==
  ASSUME Records, [Next]_vars, NoPending' \/ Single', NEW p \in Purchase, Pays(p) PROVE FALSE
<1>0. /\ TypeOK /\ purchase[p] = "pending" /\ Tells(p, "paid") /\ failed' = failed
      /\ notice \in [Notice -> NoticeState]
  BY DEF Records, Pays, TypeOK
<1>1. PICK m \in Module : Told(<<m, p, "pending">>) /\ (failed \/ status[m] = "connected")
  BY <1>0 DEF Records, Sales
<1>2. <<m, p, "pending">> \in Notice /\ <<m, p, "paid">> \in Notice
  BY DEF Notice
<1>3. Told(<<m, p, "pending">>)'
  BY <1>0, <1>1, <1>2, ToldStays
<1>4. ~NoPending'
  BY <1>2, <1>3, UnknownFields DEF NoPending, Told
<1>5. CASE failed
  BY <1>0, <1>4, <1>5 DEF Single
<1>6. CASE status[m] = "connected"
  <2>1. Told(<<m, p, "paid">>)'
    BY <1>0, <1>2, <1>6, UnknownFields DEF Tells, Told
  <2>2. ~Single'
    BY <1>2, <1>3, <2>1 DEF Single, Told
  <2> QED
    BY <1>4, <2>2
<1> QED
  BY <1>1, <1>5, <1>6

LEMMA PricedStep ==
  ASSUME Records, Priced, [Next]_vars, \A p \in Purchase : ~Pays(p)
  PROVE  Priced' /\ \A n \in Notice : Told(n) => Price'[n] = Price[n]
<1> DEFINE Kept == \A n \in Notice : Told(n) => candyCount'[n[1]] = candyCount[n[1]]
<1>0. /\ TypeOK /\ notice \in [Notice -> NoticeState] /\ candyCount \in [Module -> Amount \cup {0}]
      /\ \A n \in Notice : n[1] \in Module /\ notice[n] \in NoticeState
  BY Parts DEF Records, TypeOK
<1>b. ASSUME notice' = notice, candyCount' = candyCount, \A n \in Notice : Told(n) => n[1] \notin dialog'
      PROVE  Priced' /\ Kept
  BY <1>b DEF Priced, Told
<1>1. ASSUME ModuleStep \/ UNCHANGED vars PROVE Priced' /\ Kept
  <2>1. ASSUME NEW m \in Module, Opens(m) PROVE Priced' /\ Kept
    <3>1. \A n \in Notice : Told(n) => n[1] # m
      BY <2>1 DEF Opens, Records, Heard
    <3> QED
      BY <1>b, <2>1, <3>1 DEF Opens
  <2>2. ASSUME NEW m \in Module, NEW amount \in Amount, Accepts(m, amount) PROVE Priced' /\ Kept
    <3>1. /\ m \in dialog /\ candyCount' = [candyCount EXCEPT ![m] = amount]
          /\ dialog' = {} /\ notice' = notice
      BY <2>2 DEF Accepts
    <3>2. Kept
      BY <1>0, <3>1 DEF Priced
    <3>3. ASSUME NEW n \in Notice
          PROVE  notice'[n].at \in {"sent", "done"} => notice'[n].amount = candyCount'[n[1]]
      BY <3>1, <3>2 DEF Priced, Told
    <3> QED
      BY <3>1, <3>2, <3>3 DEF Priced
  <2>3. ASSUME Closes \/ Cancels \/ UNCHANGED vars PROVE Priced' /\ Kept
    BY <1>b, <2>3 DEF Closes, Cancels, Priced, vars, client
  <2> QED
    BY <1>1, <2>1, <2>2, <2>3 DEF ModuleStep
<1>2. ASSUME Dies PROVE Priced' /\ Kept
  <2>1. dialog' = {} /\ UNCHANGED candyCount
    BY <1>2 DEF Dies
  <2>2. \A n \in Notice : notice'[n].at \in {"none", "over"}
    BY <1>0, <1>2, OverOK, UnknownFields DEF Dies
  <2> QED
    BY <2>1, <2>2 DEF Priced
<1>3. ASSUME NEW as \in {"pending", "paid"}, Buys(as) PROVE Priced' /\ Kept
  <2>1. PICK p \in Purchase : Tells(p, as)
    BY <1>3 DEF Buys
  <2>2. UNCHANGED <<dialog, candyCount>> /\ dialog = {}
    BY <1>3 DEF Buys, Records, Launched
  <2>3. \A n \in Notice : notice'[n] = notice[n] \/ notice'[n].at = "told"
    BY <2>1, UnknownFields DEF Tells
  <2> QED
    BY <2>2, <2>3 DEF Priced
<1>4. ASSUME NEW p \in Purchase, PlayStep(p) PROVE Priced' /\ Kept
  <2>1. UNCHANGED <<client, notice>>
    BY <1>4 DEF PlayStep, Declines, Consume, ConsumeFails
  <2> QED
    BY <1>b, <2>1 DEF client, Priced
<1>5. ASSUME NEW k \in Notice, Acts(k) PROVE Priced' /\ Kept
  <2>1. /\ UNCHANGED <<dialog, candyCount>>
        /\ \A n \in Notice : notice'[n] = notice[n]
              \/ (n = k /\ Told(k) /\ notice'[k].at \notin {"none", "told"})
    BY <1>0, <1>5, ActsOK DEF client
  <2>2. notice'[k].at \in {"sent", "done"} => notice'[k].amount = candyCount[k[1]]
    <3>1. CASE PurchasesUpdated(k)
      BY <1>0, <3>1 DEF PurchasesUpdated
    <3>2. CASE UpdateCandy(k)
      BY <1>0, <3>2 DEF UpdateCandy, NoticeState, Priced
    <3>3. CASE LateUpdate(k)
      BY <3>3 DEF LateUpdate, Priced
    <3>4. CASE SentAgain(k)
      BY <1>0, <3>4 DEF SentAgain, Priced
    <3>5. CASE Success(k) \/ Fails(k)
      BY <1>0, <3>5, OverOK DEF Success, Fails
    <3> QED
      BY <1>5, <3>1, <3>2, <3>3, <3>4, <3>5 DEF Acts
  <2> QED
    BY <2>1, <2>2 DEF Priced, Told
<1>6. Priced' /\ Kept
  BY <1>1, <1>2, <1>3, <1>4, <1>5, Split DEF Acts, Dies
<1> QED
  BY <1>6 DEF Price

\* What the sets of notices become, and so the sums.
LEMMA DoneKept ==
  ASSUME TypeOK, \A n \in Notice : Told(n) => Price'[n] = Price[n], DoneAt' = DoneAt
  PROVE  Due' = Due
<1>1. \A n \in DoneAt : Price'[n] = Price[n]
  BY DEF DoneAt, Told
<1>2. Units(DoneAt, Price') = Units(DoneAt, Price)
  BY <1>1, UnitsSame
<1>3. Due' = Cardinality(Units(DoneAt', Price'))
  BY DEF Due, Units
<1> QED
  BY <1>2, <1>3 DEF Due

LEMMA UnsentKept ==
  ASSUME TypeOK, \A n \in Notice : Told(n) => Price'[n] = Price[n], UnsentAt' = UnsentAt
  PROVE  Unsent' = Unsent
<1>1. \A n \in UnsentAt : Price'[n] = Price[n]
  BY DEF UnsentAt, Told
<1>2. Units(UnsentAt, Price') = Units(UnsentAt, Price)
  BY <1>1, UnitsSame
<1>3. Unsent' = Cardinality(Units(UnsentAt', Price'))
  BY DEF Unsent, Units
<1> QED
  BY <1>2, <1>3 DEF Unsent

LEMMA DoneLess ==
  ASSUME TypeOK, candyCount' = candyCount, NEW n \in DoneAt, DoneAt' = DoneAt \ {n}
  PROVE  Due' \in Nat /\ Due' + Price[n] = Due
<1>1. /\ IsFiniteSet(DoneAt) /\ \A k \in DoneAt : Price[k] \in Nat
      /\ Due \in Nat /\ Price[n] \in Nat
  BY PriceOK DEF DoneAt
<1>2. Cardinality(Units(DoneAt, Price)) = Cardinality(Units(DoneAt \ {n}, Price)) + Price[n]
  BY <1>1, UnitsRemove
<1>3. Price' = Price
  BY DEF Price
<1>4. Due' = Cardinality(Units(DoneAt \ {n}, Price))
  BY <1>3 DEF Due, Units
<1>5. IsFiniteSet(DoneAt \ {n})
  BY <1>1, FS_RemoveElement
<1>6. Cardinality(Units(DoneAt \ {n}, Price)) \in Nat
  BY <1>1, <1>5, UnitsNat
<1> QED
  BY <1>2, <1>4, <1>6 DEF Due

LEMMA DoneMore ==
  ASSUME TypeOK, candyCount' = candyCount, NEW n \in Notice, n \notin DoneAt, DoneAt' = DoneAt \cup {n}
  PROVE  Due' = Due + Price[n]
<1>1. IsFiniteSet(DoneAt) /\ \A k \in DoneAt \cup {n} : Price[k] \in Nat
  BY PriceOK DEF DoneAt
<1>2. Cardinality(Units(DoneAt \cup {n}, Price)) = Cardinality(Units(DoneAt, Price)) + Price[n]
  BY <1>1, UnitsAdd
<1>3. Price' = Price
  BY DEF Price
<1>4. Due' = Cardinality(Units(DoneAt \cup {n}, Price))
  BY <1>3 DEF Due, Units
<1> QED
  BY <1>2, <1>4 DEF Due

LEMMA UnsentLess ==
  ASSUME TypeOK, candyCount' = candyCount, NEW n \in UnsentAt, UnsentAt' = UnsentAt \ {n}
  PROVE  Unsent' \in Nat /\ Unsent' + Price[n] = Unsent
<1>1. IsFiniteSet(UnsentAt) /\ \A k \in UnsentAt : Price[k] \in Nat
  BY PriceOK DEF UnsentAt
<1>2. Cardinality(Units(UnsentAt, Price)) = Cardinality(Units(UnsentAt \ {n}, Price)) + Price[n]
  BY <1>1, UnitsRemove
<1>3. Price' = Price
  BY DEF Price
<1>4. Unsent' = Cardinality(Units(UnsentAt \ {n}, Price))
  BY <1>3 DEF Unsent, Units
<1>5. IsFiniteSet(UnsentAt \ {n})
  BY <1>1, FS_RemoveElement
<1>6. Cardinality(Units(UnsentAt \ {n}, Price)) \in Nat
  BY <1>1, <1>5, UnitsNat
<1> QED
  BY <1>2, <1>4, <1>6 DEF Unsent

LEMMA UnsentMore ==
  ASSUME TypeOK, candyCount' = candyCount, NEW n \in Notice, n \notin UnsentAt,
         UnsentAt' = UnsentAt \cup {n}
  PROVE  Unsent' = Unsent + Price[n]
<1>1. IsFiniteSet(UnsentAt) /\ \A k \in UnsentAt \cup {n} : Price[k] \in Nat
  BY PriceOK DEF UnsentAt
<1>2. Cardinality(Units(UnsentAt \cup {n}, Price)) = Cardinality(Units(UnsentAt, Price)) + Price[n]
  BY <1>1, UnitsAdd
<1>3. Price' = Price
  BY DEF Price
<1>4. Unsent' = Cardinality(Units(UnsentAt \cup {n}, Price))
  BY <1>3 DEF Unsent, Units
<1> QED
  BY <1>2, <1>4 DEF Unsent

LEMMA NoneDue == ASSUME DoneAt = {} PROVE Due = 0
<1>1. Units({}, Price) = {}
  BY DEF Units
<1>2. Cardinality({}) = 0
  BY FS_EmptySet
<1> QED
  BY <1>1, <1>2, Zenon DEF Due

LEMMA NoneUnsent == ASSUME UnsentAt = {} PROVE Unsent = 0
<1>1. Units({}, Price) = {}
  BY DEF Units
<1>2. Cardinality({}) = 0
  BY FS_EmptySet
<1> QED
  BY <1>1, <1>2, Zenon DEF Unsent

LEMMA NothingMoves == ASSUME notice' = notice PROVE DoneAt' = DoneAt /\ UnsentAt' = UnsentAt
BY DEF DoneAt, UnsentAt

\* Play's report of a purchase it sells now reaches those that heard nothing.
LEMMA BuysMoves ==
  ASSUME Records, NEW p \in Purchase, purchase[p] = "none", NEW as \in {"pending", "paid"}, Tells(p, as)
  PROVE  /\ DoneAt' = DoneAt
         /\ UnsentAt' = UnsentAt \cup
              {n \in Notice : n[2] = p /\ n[3] = as /\ status[n[1]] = "connected"}
         /\ \A n \in Notice : n[2] = p => n \notin UnsentAt
<1>1. \A n \in Notice : n[2] = p => notice[n].at = "none"
  BY DEF Records, Heard, Told
<1>2. \A n \in Notice :
        notice'[n] = IF n[2] = p /\ n[3] = as /\ status[n[1]] = "connected"
                     THEN [Unknown EXCEPT !.at = "told"] ELSE notice[n]
  BY DEF Tells
<1>3. DoneAt' = DoneAt
  BY <1>1, <1>2, UnknownFields DEF DoneAt
<1>4. UnsentAt' = UnsentAt \cup
        {n \in Notice : n[2] = p /\ n[3] = as /\ status[n[1]] = "connected"}
  BY <1>1, <1>2, UnknownFields DEF UnsentAt
<1> QED
  BY <1>1, <1>3, <1>4 DEF UnsentAt

LEMMA ActsMoves ==
  ASSUME TypeOK, NEW n \in Notice, Acts(n)
  PROVE  \/ /\ PurchasesUpdated(n) \/ LateUpdate(n)
            /\ DoneAt' = DoneAt /\ UnsentAt' = UnsentAt
         \/ /\ UpdateCandy(n)
            /\ n \in UnsentAt /\ n \notin DoneAt
            /\ DoneAt' = DoneAt \cup {n} /\ UnsentAt' = UnsentAt \ {n}
         \/ /\ SentAgain(n)
            /\ DoneAt' = DoneAt \ {n}
         \/ /\ Success(n)
            /\ n \in DoneAt /\ DoneAt' = DoneAt \ {n} /\ UnsentAt' = UnsentAt
         \/ /\ Fails(n)
            /\ DoneAt' = DoneAt \ {n}
<1>0. notice \in [Notice -> NoticeState] /\ notice[n] \in NoticeState
  BY DEF TypeOK
<1>1. CASE PurchasesUpdated(n)
  BY <1>0, <1>1 DEF PurchasesUpdated, DoneAt, UnsentAt
<1>2. CASE LateUpdate(n)
  BY <1>2, NothingMoves DEF LateUpdate
<1>3. CASE UpdateCandy(n)
  <2>1. notice[n].at = "sent" /\ notice'[n].at = "done" /\ \A k \in Notice : k # n => notice'[k] = notice[k]
    BY <1>0, <1>3 DEF UpdateCandy, NoticeState
  <2> QED
    BY <1>3, <2>1 DEF DoneAt, UnsentAt
<1>4. CASE SentAgain(n)
  <2>1. notice'[n].at = "sent" /\ \A k \in Notice : k # n => notice'[k] = notice[k]
    BY <1>0, <1>4 DEF SentAgain
  <2> QED
    BY <1>4, <2>1 DEF DoneAt
<1>5. CASE Success(n)
  <2>1. notice[n].at = "done" /\ notice'[n].at = "over" /\ \A k \in Notice : k # n => notice'[k] = notice[k]
    BY <1>0, <1>5, OverOK DEF Success
  <2> QED
    BY <1>5, <2>1 DEF DoneAt, UnsentAt
<1>6. CASE Fails(n)
  <2>1. notice'[n].at = "over" /\ \A k \in Notice : k # n => notice'[k] = notice[k]
    BY <1>0, <1>6, OverOK DEF Fails
  <2> QED
    BY <1>6, <2>1 DEF DoneAt
<1> QED
  BY <1>1, <1>2, <1>3, <1>4, <1>5, <1>6 DEF Acts

\* Without pending purchases the application adds only what the server has.
LEMMA AheadStep == Records /\ Ahead /\ [Next]_vars => Ahead'
<1> SUFFICES ASSUME Records, Ahead, [Next]_vars, NoPending'
             PROVE  Priced' /\ CANDYCOUNT' + Due' <= candy'
  BY DEF Ahead
<1> DEFINE Sums == CANDYCOUNT' + Due' <= candy'
<1>0. TypeOK /\ notice \in [Notice -> NoticeState]
  BY DEF Records, TypeOK
<1>1. NoPending
  <2> SUFFICES ASSUME NEW n \in Notice, n[3] = "pending" PROVE notice[n] = Unknown
    BY DEF NoPending
  <2>1. ~Told(n)'
    BY UnknownFields DEF NoPending, Told
  <2>2. ~Told(n)
    BY <1>0, <2>1, ToldStays
  <2> QED
    BY <2>2 DEF Records, Heard
<1>2. Priced /\ CANDYCOUNT + Due <= candy
  BY <1>1 DEF Ahead
<1>3. \A p \in Purchase : ~Pays(p)
  BY NoPays
<1>4. Priced' /\ \A n \in Notice : Told(n) => Price'[n] = Price[n]
  BY <1>2, <1>3, PricedStep
<1>5. /\ Due \in Nat /\ CANDYCOUNT \in Nat /\ candy \in Nat
      /\ \A n \in Notice : Price[n] \in Nat
      /\ \A n \in Notice : notice[n].at \in {"sent", "done"} => notice[n].amount = Price[n]
  BY <1>0, <1>2, PriceOK DEF TypeOK, Priced, Price
<1>6. ASSUME UNCHANGED <<candy, CANDYCOUNT>>, DoneAt' = DoneAt PROVE Sums
  BY <1>0, <1>2, <1>4, <1>6, DoneKept
<1>7. ASSUME ModuleStep \/ UNCHANGED vars PROVE Sums
  <2>1. UNCHANGED <<candy, CANDYCOUNT, notice>>
    BY <1>7 DEF ModuleStep, Opens, Accepts, Closes, Cancels, vars, server
  <2> QED
    BY <1>6, <2>1, NothingMoves
<1>8. ASSUME Dies PROVE Sums
  <2>1. CANDYCOUNT' = candy /\ candy' = candy
    BY <1>8 DEF Dies, server
  <2>2. \A n \in Notice : notice'[n].at \in {"none", "over"}
    BY <1>0, <1>8, OverOK, UnknownFields DEF Dies
  <2>3. DoneAt' = {}
    BY <2>2 DEF DoneAt
  <2>4. Due' = Cardinality(Units(DoneAt', Price'))
    BY DEF Due, Units
  <2>5. Units({}, Price') = {} /\ Cardinality({}) = 0
    BY FS_EmptySet DEF Units
  <2>6. Due' = 0
    BY <2>3, <2>4, <2>5, Zenon
  <2> QED
    BY <1>5, <2>1, <2>6
<1>9. ASSUME NEW as \in {"pending", "paid"}, Buys(as) PROVE Sums
  <2>1. PICK p \in Purchase : Tells(p, as) /\ purchase[p] = "none"
    BY <1>9 DEF Buys, Sells
  <2>2. UNCHANGED <<candy, CANDYCOUNT>>
    BY <1>9 DEF Buys, server
  <2> QED
    BY <1>6, <2>1, <2>2, BuysMoves
<1>10. ASSUME NEW p \in Purchase, PlayStep(p) PROVE Sums
  <2>1. UNCHANGED <<candy, CANDYCOUNT, notice>>
    BY <1>3, <1>10 DEF PlayStep, Declines, Consume, ConsumeFails, server
  <2> QED
    BY <1>6, <2>1, NothingMoves
<1>11. ASSUME NEW n \in Notice, Acts(n) PROVE Sums
  <2>a. DoneAt' = DoneAt \ {n} => Due' \in Nat /\ Due' <= Due /\ (n \in DoneAt => Due' + Price[n] = Due)
    <3>1. SUFFICES ASSUME DoneAt' = DoneAt \ {n}
                   PROVE  Due' \in Nat /\ Due' <= Due /\ (n \in DoneAt => Due' + Price[n] = Due)
      OBVIOUS
    <3>2. candyCount' = candyCount
      BY <1>0, <1>11, ActsOK DEF client
    <3>3. CASE n \in DoneAt
      <4>1. Due' \in Nat /\ Due' + Price[n] = Due
        BY <1>0, <3>1, <3>2, <3>3, DoneLess
      <4> QED
        BY <1>5, <4>1
    <3>4. CASE n \notin DoneAt
      <4>1. DoneAt' = DoneAt
        BY <3>1, <3>4
      <4> QED
        BY <1>0, <1>4, <1>5, <3>4, <4>1, DoneKept
    <3> QED
      BY <3>3, <3>4
  <2>1. CASE PurchasesUpdated(n) /\ DoneAt' = DoneAt
    BY <1>6, <2>1 DEF PurchasesUpdated, server
  <2>2. CASE LateUpdate(n) /\ DoneAt' = DoneAt
    <3>1. Due' = Due
      BY <1>0, <1>4, <2>2, DoneKept
    <3>2. notice[n].amount \in Nat
      <4>1. Amount \cup {0} \subseteq Nat
        BY BillingAssumption
      <4>2. notice[n].amount \in Amount \cup {0}
        BY <1>0 DEF NoticeState
      <4> QED
        BY <4>1, <4>2
    <3>3. candy' = candy + notice[n].amount /\ CANDYCOUNT' = CANDYCOUNT
      BY <2>2 DEF LateUpdate, Executes
    <3> QED
      BY <1>2, <1>5, <3>1, <3>2, <3>3
  <2>3. CASE UpdateCandy(n) /\ n \notin DoneAt /\ DoneAt' = DoneAt \cup {n}
    <3>1. candyCount' = candyCount /\ CANDYCOUNT' = CANDYCOUNT /\ candy' = candy + Price[n]
      BY <1>5, <2>3 DEF UpdateCandy, Executes, client
    <3>2. Due' = Due + Price[n]
      BY <1>0, <2>3, <3>1, DoneMore
    <3> QED
      BY <1>2, <1>5, <3>1, <3>2
  <2>4. CASE (SentAgain(n) \/ Fails(n)) /\ DoneAt' = DoneAt \ {n}
    <3>1. UNCHANGED <<candy, CANDYCOUNT>>
      BY <2>4 DEF SentAgain, Fails, server
    <3> QED
      BY <1>2, <1>5, <2>4, <2>a, <3>1
  <2>5. CASE Success(n) /\ n \in DoneAt /\ DoneAt' = DoneAt \ {n}
    <3>1. candy' = candy /\ CANDYCOUNT' = CANDYCOUNT + Price[n]
      BY <2>5 DEF Success, server, Price
    <3> QED
      BY <1>2, <1>5, <2>5, <2>a, <3>1
  <2> QED
    BY <1>0, <1>11, <2>1, <2>2, <2>3, <2>4, <2>5, ActsMoves
<1> QED
  BY <1>4, <1>7, <1>8, <1>9, <1>10, <1>11, Split DEF Acts

\* Neither is it forgotten that something failed, or was sent again.
LEMMA SingleStays ==
  ASSUME Records, [Next]_vars, Single', \A p \in Purchase : ~Pays(p) PROVE Single
<1>0. TypeOK /\ notice \in [Notice -> NoticeState]
  BY DEF Records, TypeOK
<1>1. failed => failed'
  <2>1. CASE ModuleStep \/ UNCHANGED vars
    BY <2>1 DEF ModuleStep, Opens, Accepts, Closes, Cancels, vars
  <2>2. CASE Dies
    BY <2>2 DEF Dies
  <2>3. ASSUME NEW as \in {"pending", "paid"}, Buys(as) PROVE failed => failed'
    BY <2>3 DEF Buys
  <2>4. ASSUME NEW p \in Purchase, PlayStep(p) PROVE failed => failed'
    BY <2>4 DEF PlayStep, Pays, Declines, Consume, ConsumeFails
  <2>5. ASSUME NEW n \in Notice, Acts(n) PROVE failed => failed'
    BY <1>0, <2>5, ActsOK
  <2> QED
    BY <2>1, <2>2, <2>3, <2>4, <2>5, Split DEF Acts
<1>2. ASSUME NEW n \in Notice, notice[n].again PROVE notice'[n].again
  <2>0. Told(n) /\ notice[n].at # "told" /\ notice[n] \in NoticeState
    BY <1>0, <1>2, UnknownFields DEF Records, Heard
  <2>1. CASE ModuleStep \/ UNCHANGED vars
    BY <1>2, <2>1 DEF ModuleStep, Opens, Accepts, Closes, Cancels, vars
  <2>2. CASE Dies
    BY <2>2 DEF Dies, Single
  <2>3. ASSUME NEW as \in {"pending", "paid"}, Buys(as) PROVE notice'[n].again
    <3>1. PICK p \in Purchase : purchase[p] = "none" /\ Tells(p, as)
      BY <2>3 DEF Buys, Sells
    <3>2. n[2] # p
      BY <2>0, <3>1 DEF Records, Heard
    <3> QED
      BY <1>2, <3>1, <3>2 DEF Tells
  <2>4. ASSUME NEW p \in Purchase, PlayStep(p) PROVE notice'[n].again
    <3>1. ~Pays(p)
      OBVIOUS
    <3> QED
      BY <1>2, <2>4, <3>1 DEF PlayStep, Declines, Consume, ConsumeFails
  <2>5. ASSUME NEW k \in Notice, Acts(k) PROVE notice'[n].again
    <3>1. CASE PurchasesUpdated(k)
      BY <1>0, <1>2, <2>0, <3>1 DEF PurchasesUpdated
    <3>2. CASE UpdateCandy(k)
      BY <1>0, <1>2, <2>0, <3>2 DEF UpdateCandy, NoticeState
    <3>3. CASE LateUpdate(k)
      BY <1>2, <3>3 DEF LateUpdate
    <3>4. CASE SentAgain(k)
      BY <1>0, <1>2, <3>4 DEF SentAgain
    <3>5. CASE Success(k) \/ Fails(k)
      <4>1. notice'[n] = notice[n] \/ notice'[n] = Over(notice[n])
        BY <1>0, <3>5 DEF Success, Fails
      <4>2. Over(notice[n]).again = notice[n].again
        BY <2>0 DEF Over, NoticeState
      <4> QED
        BY <1>2, <4>1, <4>2
    <3> QED
      BY <2>5, <3>1, <3>2, <3>3, <3>4, <3>5 DEF Acts
  <2> QED
    BY <2>1, <2>2, <2>3, <2>4, <2>5, Split DEF Acts
<1>3. \A n \in Notice : Told(n) => Told(n)'
  BY <1>0, ToldStays
<1> QED
  BY <1>1, <1>2, <1>3, Zenon DEF Single

\* What Play sells is chosen, and its one notice is given to who opened it.
LEMMA BuysAgree ==
  ASSUME Records, Single', Chosen, Equal, NEW as \in {"pending", "paid"}, Buys(as),
         \A n \in Notice : Told(n) => Price'[n] = Price[n]
  PROVE  Chosen' /\ Equal'
<1>0. /\ TypeOK /\ chosen \in [Purchase -> Amount \cup {0}] /\ Amount \cup {0} \subseteq Nat
      /\ candyCount \in [Module -> Amount \cup {0}] /\ candy \in Nat /\ CANDYCOUNT \in Nat
  BY BillingAssumption DEF Records, TypeOK
<1>1. PICK m \in flow, p \in Purchase :
        purchase[p] = "none" /\ chosen' = [chosen EXCEPT ![p] = candyCount[m]] /\ Tells(p, as)
  BY DEF Buys, Sells
<1>2. m \in Module /\ status[m] = "connected" /\ UNCHANGED <<candyCount, candy, CANDYCOUNT, late>>
  BY DEF Buys, Records, TypeOK, Launched, server
<1> DEFINE new == <<m, p, as>>
<1>3. new \in Notice /\ new[1] = m /\ new[2] = p /\ new[3] = as
  BY <1>2 DEF Notice
<1> HIDE DEF new
<1>4. \A n \in Notice :
        notice'[n] = IF n[2] = p /\ n[3] = as /\ status[n[1]] = "connected"
                     THEN [Unknown EXCEPT !.at = "told"] ELSE notice[n]
  BY <1>1 DEF Tells
<1>5. \A n \in Notice : n[2] = p => ~Told(n)
  BY <1>1 DEF Records, Heard
<1>6. \A n \in Notice : n[2] = p /\ n[3] = as /\ status[n[1]] = "connected" <=> n = new
  <2>1. ASSUME NEW n \in Notice, n[2] = p, n[3] = as, status[n[1]] = "connected" PROVE n = new
    <3>1. Told(n)' /\ Told(new)'
      BY <1>2, <1>3, <1>4, <2>1, UnknownFields DEF Told
    <3> QED
      BY <1>3, <2>1, <3>1 DEF Single, Told
  <2> QED
    BY <1>2, <1>3, <2>1
<1>7. DoneAt' = DoneAt /\ UnsentAt' = UnsentAt \cup {new} /\ new \notin UnsentAt
  BY <1>1, <1>3, <1>6, BuysMoves
<1>8. Due' = Due
  BY <1>0, <1>7, DoneKept
<1>9. Unsent' = Unsent + Price[new] /\ Unsent \in Nat /\ Due \in Nat /\ Price[new] \in Nat
  BY <1>0, <1>2, <1>3, <1>7, UnsentMore, PriceOK
<1>10. Price[new] = candyCount[m]
  BY <1>3 DEF Price
<1>11. Cardinality(Units(Purchase, chosen')) = Cardinality(Units(Purchase, chosen)) + candyCount[m]
  <2> DEFINE rest == Purchase \ {p}
  <2>1. IsFiniteSet(Purchase)
    BY BillingAssumption, FS_Interval DEF Purchase
  <2>2. chosen[p] = 0 /\ chosen'[p] = candyCount[m] /\ \A q \in rest : chosen'[q] = chosen[q]
    BY <1>0, <1>1 DEF Records, Sales
  <2>3. candyCount[m] \in Nat /\ \A q \in Purchase : chosen[q] \in Nat /\ chosen'[q] \in Nat
    BY <1>0, <1>1, <1>2
  <2>4. Cardinality(Units(Purchase, chosen')) = Cardinality(Units(rest, chosen')) + chosen'[p]
    BY <2>1, <2>3, UnitsRemove
  <2>5. Cardinality(Units(Purchase, chosen)) = Cardinality(Units(rest, chosen)) + chosen[p]
    BY <2>1, <2>3, UnitsRemove
  <2>6. Units(rest, chosen') = Units(rest, chosen)
    BY <2>2, UnitsSame
  <2>7. IsFiniteSet(rest)
    BY <2>1, FS_RemoveElement
  <2>8. Cardinality(Units(rest, chosen)) \in Nat
    BY <2>3, <2>7, UnitsNat
  <2>9. Cardinality(Units(Purchase, chosen')) = Cardinality(Units(rest, chosen)) + chosen'[p]
    BY <2>4, <2>6, Zenon
  <2> HIDE DEF rest
  <2> QED
    BY <2>2, <2>3, <2>5, <2>8, <2>9
<1>12. Equal'
  <2>1. Cardinality(Units(Purchase, chosen))' = Cardinality(Units(Purchase, chosen'))
    BY DEF Units
  <2>2. candy + Unsent = Cardinality(Units(Purchase, chosen)) /\ CANDYCOUNT + Due = candy
    BY DEF Equal
  <2>3. candy' + Unsent' = Cardinality(Units(Purchase, chosen))'
    BY <1>0, <1>2, <1>9, <1>10, <1>11, <2>1, <2>2
  <2>4. CANDYCOUNT' + Due' = candy'
    BY <1>2, <1>8, <2>2
  <2> QED
    BY <2>3, <2>4 DEF Equal
<1>13. Chosen'
  <2> SUFFICES ASSUME NEW n \in Notice PROVE late'[n] = 0 /\ (Told(n)' => chosen'[n[2]] = candyCount'[n[1]])
    BY DEF Chosen, Told
  <2>1. CASE n = new
    BY <1>0, <1>1, <1>2, <1>3, <2>1 DEF Chosen
  <2>2. CASE n # new
    <3>1. notice'[n] = notice[n] /\ (Told(n)' => Told(n) /\ n[2] # p)
      BY <1>4, <1>5, <1>6, <2>2 DEF Told
    <3> QED
      BY <1>0, <1>1, <1>2, <2>2, <3>1, Parts DEF Chosen
  <2> QED
    BY <2>1, <2>2
<1> QED
  BY <1>12, <1>13

\* With one notice of each purchase, and none of them sent again, every candy
\* is unsent, or the server has it, and due or seen.
LEMMA AgreeStep == Records /\ Agree /\ [Next]_vars => Agree'
<1> SUFFICES ASSUME Records, Agree, [Next]_vars, Single' PROVE Priced' /\ Chosen' /\ Equal'
  BY DEF Agree
<1>0. TypeOK /\ notice \in [Notice -> NoticeState]
  BY DEF Records, TypeOK
<1>1. \A p \in Purchase : ~Pays(p)
  BY NoPays
<1>2. Single
  BY <1>1, SingleStays
<1>3. Priced /\ Chosen /\ Equal
  BY <1>2 DEF Agree
<1>4. Priced' /\ \A n \in Notice : Told(n) => Price'[n] = Price[n]
  BY <1>1, <1>3, PricedStep
<1>5. /\ Due \in Nat /\ Unsent \in Nat /\ CANDYCOUNT \in Nat /\ candy \in Nat
      /\ \A n \in Notice : Price[n] \in Nat
      /\ \A n \in Notice : notice[n].at \in {"sent", "done"} => notice[n].amount = Price[n]
  BY <1>0, <1>3, PriceOK DEF TypeOK, Priced, Price
<1>6. ASSUME UNCHANGED <<candy, CANDYCOUNT, chosen, notice, late>> PROVE Chosen' /\ Equal'
  <2>1. Due' = Due /\ Unsent' = Unsent
    BY <1>0, <1>4, <1>6, NothingMoves, DoneKept, UnsentKept
  <2>2. \A n \in Notice : Told(n) => candyCount'[n[1]] = candyCount[n[1]]
    BY <1>4 DEF Price
  <2> QED
    BY <1>3, <1>6, <2>1, <2>2 DEF Chosen, Equal, Told
<1>7. ASSUME ModuleStep \/ UNCHANGED vars PROVE Chosen' /\ Equal'
  BY <1>6, <1>7 DEF ModuleStep, Opens, Accepts, Closes, Cancels, vars, server, play
<1>8. ASSUME Dies PROVE FALSE
  BY <1>8 DEF Dies, Single
<1>9. ASSUME NEW as \in {"pending", "paid"}, Buys(as) PROVE Chosen' /\ Equal'
  BY <1>3, <1>4, <1>9, BuysAgree
<1>10. ASSUME NEW p \in Purchase, PlayStep(p) PROVE Chosen' /\ Equal'
  BY <1>1, <1>6, <1>10 DEF PlayStep, Declines, Consume, ConsumeFails, server
<1>11. ASSUME NEW n \in Notice, Acts(n) PROVE Chosen' /\ Equal'
  <2>0. UNCHANGED <<candyCount, chosen>> /\ \A k \in Notice : Told(k)' => Told(k)
    BY <1>0, <1>11, ActsOK DEF client, Told
  <2>a. late' = late => Chosen'
    BY <1>3, <2>0 DEF Chosen
  <2>b. ASSUME candy' + Unsent' = candy + Unsent, CANDYCOUNT' + Due' = candy' PROVE Equal'
    BY <1>3, <2>0, <2>b DEF Equal
  <2>1. CASE PurchasesUpdated(n) /\ DoneAt' = DoneAt /\ UnsentAt' = UnsentAt
    <3>1. UNCHANGED <<candy, CANDYCOUNT, late>>
      BY <2>1 DEF PurchasesUpdated, server
    <3>2. Due' = Due /\ Unsent' = Unsent
      BY <1>0, <1>4, <2>1, DoneKept, UnsentKept
    <3>3. CANDYCOUNT + Due = candy
      BY <1>3 DEF Equal
    <3> QED
      BY <2>a, <2>b, <3>1, <3>2, <3>3
  <2>2. CASE UpdateCandy(n) /\ n \in UnsentAt /\ n \notin DoneAt
             /\ DoneAt' = DoneAt \cup {n} /\ UnsentAt' = UnsentAt \ {n}
    <3>1. UNCHANGED <<candyCount, CANDYCOUNT, late>> /\ candy' = candy + Price[n]
      BY <1>5, <2>2 DEF UpdateCandy, Executes, client
    <3>2. Due' = Due + Price[n]
      BY <1>0, <2>2, <3>1, DoneMore
    <3>3. Unsent' \in Nat /\ Unsent' + Price[n] = Unsent
      BY <1>0, <2>2, <3>1, UnsentLess
    <3>4. CANDYCOUNT + Due = candy /\ Price[n] \in Nat
      BY <1>3, <1>5 DEF Equal
    <3>5. candy' + Unsent' = candy + Unsent /\ CANDYCOUNT' + Due' = candy'
      BY <1>5, <3>1, <3>2, <3>3, <3>4
    <3> QED
      BY <2>a, <2>b, <3>1, <3>5
  <2>3. CASE Success(n) /\ n \in DoneAt /\ DoneAt' = DoneAt \ {n} /\ UnsentAt' = UnsentAt
    <3>1. UNCHANGED <<candyCount, candy, late>> /\ CANDYCOUNT' = CANDYCOUNT + Price[n]
      BY <2>3 DEF Success, client, server, Price
    <3>2. Due' \in Nat /\ Due' + Price[n] = Due
      BY <1>0, <2>3, <3>1, DoneLess
    <3>3. Unsent' = Unsent
      BY <1>0, <1>4, <2>3, UnsentKept
    <3>4. CANDYCOUNT + Due = candy /\ Price[n] \in Nat
      BY <1>3, <1>5 DEF Equal
    <3>5. candy' + Unsent' = candy + Unsent /\ CANDYCOUNT' + Due' = candy'
      BY <1>5, <3>1, <3>2, <3>3, <3>4
    <3> QED
      BY <2>a, <2>b, <3>1, <3>5
  <2>4. ~LateUpdate(n)
    BY <1>3 DEF LateUpdate, Chosen
  <2>5. ~SentAgain(n)
    BY <1>0 DEF SentAgain, Single
  <2>6. ~Fails(n)
    BY DEF Fails, Single
  <2> QED
    BY <1>0, <1>11, <2>1, <2>2, <2>3, <2>4, <2>5, <2>6, ActsMoves
<1> QED
  BY <1>4, <1>7, <1>8, <1>9, <1>10, <1>11, Split DEF Acts
-----------------------------------------------------------------------------
Ledgers == Records /\ Ahead /\ Agree

LEMMA LedgersStart == Init => Ledgers
<1> SUFFICES ASSUME Init PROVE Ledgers
  OBVIOUS
<1>0. Records
  BY RecordsStart
<1>1. \A n \in Notice : notice[n].at = "none" /\ late[n] = 0
  BY UnknownFields DEF Init
<1>2. DoneAt = {} /\ UnsentAt = {} /\ Priced
  BY <1>1 DEF DoneAt, UnsentAt, Priced, Told
<1>3. Due = 0 /\ Unsent = 0
  BY <1>2, NoneDue, NoneUnsent
<1>4. candy = 0 /\ CANDYCOUNT = 0 /\ chosen = [p \in Purchase |-> 0]
  BY DEF Init
<1>5. Cardinality(Units(Purchase, chosen)) = 0
  <2>1. \A p \in Purchase : 1..chosen[p] = {}
    BY <1>4
  <2>2. Units(Purchase, chosen) = {}
    BY <2>1 DEF Units
  <2> QED
    BY <2>2, FS_EmptySet
<1>6. Chosen
  BY <1>1 DEF Chosen, Told
<1> QED
  BY <1>0, <1>2, <1>3, <1>4, <1>5, <1>6 DEF Ledgers, Ahead, Agree, Equal

LEMMA LedgersKept == Spec => []Ledgers
<1>1. Ledgers /\ [Next]_vars => Ledgers'
  BY RecordsStep, AheadStep, AgreeStep DEF Ledgers
<1> QED
  BY LedgersStart, <1>1, PTL DEF Spec

\* The application never shows more candy than the server has, in whatever
\* order the answers come and whatever fails, as long as nothing is bought
\* against a later payment (NeverAhead).
THEOREM BillingNeverAhead == Spec => []NeverAhead
<1>1. Ledgers => NeverAhead
  <2> SUFFICES ASSUME Ledgers, NoPending PROVE CANDYCOUNT <= candy
    BY DEF NeverAhead, NoPending
  <2>1. CANDYCOUNT + Due <= candy /\ TypeOK
    BY DEF Ledgers, Ahead, Records
  <2>2. Due \in Nat /\ CANDYCOUNT \in Nat /\ candy \in Nat
    BY <2>1, PriceOK DEF TypeOK
  <2> QED
    BY <2>1, <2>2
<1> QED
  BY LedgersKept, <1>1, PTL

\* What the user chose in the dialogs, what the server added and what the
\* application shows are equal once everything has been answered, when nothing
\* failed, nothing was sent again and one module was told of each purchase
\* (LedgersAgree).
THEOREM BillingLedgersAgree == Spec => []LedgersAgree
<1>1. Ledgers => LedgersAgree
  <2> SUFFICES ASSUME Ledgers, ~failed,
                      \A n \in Notice : notice[n].at \in {"none", "over"} /\ ~notice[n].again,
                      \A p \in Purchase : Cardinality({n \in Notice : n[2] = p /\ notice[n] # Unknown}) <= 1
               PROVE  candy = Cardinality(Sold) /\ CANDYCOUNT = candy
    BY DEF LedgersAgree
  <2>1. ASSUME NEW k \in Notice, NEW n \in Notice, Told(k), Told(n), k[2] = n[2] PROVE k = n
    <3> DEFINE told == {i \in Notice : i[2] = n[2] /\ notice[i] # Unknown}
    <3>1. told \in SUBSET Notice /\ k \in told /\ n \in told
      BY <2>1, UnknownFields DEF Told
    <3>2. Cardinality(told) <= 1
      BY Parts
    <3> HIDE DEF told
    <3>3. IsFiniteSet(told)
      BY <3>1, NoticeFinite, FS_Subset
    <3>4. {k} \in SUBSET told
      BY <3>1
    <3>5. Cardinality({k}) = 1
      BY FS_Singleton
    <3>6. Cardinality(told) \in Nat
      BY <3>3, FS_CardinalityType
    <3>7. Cardinality({k}) <= Cardinality(told) /\ (Cardinality(told) = Cardinality({k}) => told = {k})
      BY <3>3, <3>4, FS_Subset
    <3>8. told = {k}
      BY <3>2, <3>5, <3>6, <3>7
    <3> QED
      BY <3>1, <3>8
  <2>2. Equal
    BY <2>1 DEF Single, Ledgers, Agree
  <2>3. DoneAt = {} /\ UnsentAt = {}
    BY DEF DoneAt, UnsentAt
  <2>4. Due = 0 /\ Unsent = 0
    BY <2>3, NoneDue, NoneUnsent
  <2>5. candy \in Nat /\ CANDYCOUNT \in Nat
    BY DEF Ledgers, Records, TypeOK
  <2> QED
    BY <2>2, <2>4, <2>5 DEF Equal, Sold, Units
<1> QED
  BY LedgersKept, <1>1, PTL
-----------------------------------------------------------------------------
(* What candy is added for: an update, in time or late, goes back to what   *)
(* some module was told.                                                   *)

Grounded ==
  /\ \A p \in Purchase : credited[p] > 0 => \E n \in Notice : n[2] = p /\ Told(n)
  /\ \A n \in Notice : late[n] > 0 => Told(n)

LEMMA GroundedStep == TypeOK /\ Grounded /\ [Next]_vars => Grounded'
<1> SUFFICES ASSUME TypeOK, Grounded, [Next]_vars PROVE Grounded'
  OBVIOUS
<1>0. /\ notice \in [Notice -> NoticeState] /\ late \in [Notice -> 0..MaxLate]
      /\ credited \in [Purchase -> Nat] /\ \A n \in Notice : n[2] \in Purchase
  BY Parts DEF TypeOK
<1>a. \A n \in Notice : Told(n) => Told(n)'
  BY ToldStays
<1>b. ASSUME \A p \in Purchase : credited'[p] > 0 =>
               credited[p] > 0 \/ \E n \in Notice : n[2] = p /\ Told(n),
             \A n \in Notice : late'[n] > 0 => late[n] > 0 \/ Told(n)
      PROVE  Grounded'
  <2>1. \A p \in Purchase : credited'[p] > 0 => \E n \in Notice : n[2] = p /\ Told(n)
    BY <1>b DEF Grounded
  <2>2. \A n \in Notice : late'[n] > 0 => Told(n)
    BY <1>b DEF Grounded
  <2>3. \A p \in Purchase : credited'[p] > 0 => \E n \in Notice : n[2] = p /\ Told(n)'
    BY <1>a, <2>1
  <2>4. \A n \in Notice : late'[n] > 0 => Told(n)'
    BY <1>a, <2>2
  <2> QED
    BY <2>3, <2>4 DEF Grounded, Told
<1>1. CASE ModuleStep \/ UNCHANGED vars
  BY <1>1, <1>b DEF ModuleStep, Opens, Accepts, Closes, Cancels, vars, server
<1>2. CASE Dies
  <2>1. PICK sent \in SUBSET {n \in Notice : notice[n].at = "sent" /\ late[n] < MaxLate} :
          late' = [n \in Notice |-> IF n \in sent THEN late[n] + 1 ELSE late[n]]
    BY <1>2 DEF Dies
  <2>2. \A n \in Notice : late'[n] > 0 => late[n] > 0 \/ Told(n)
    BY <2>1 DEF Told
  <2> QED
    BY <1>2, <1>b, <2>2 DEF Dies, server
<1>3. ASSUME NEW as \in {"pending", "paid"}, Buys(as) PROVE Grounded'
  BY <1>3, <1>b DEF Buys, server
<1>4. ASSUME NEW p \in Purchase, PlayStep(p) PROVE Grounded'
  BY <1>4, <1>b DEF PlayStep, Pays, Declines, Consume, ConsumeFails, server
<1>5. ASSUME NEW k \in Notice, Executes(k), Told(k), \A n \in Notice : late'[n] > 0 => late[n] > 0
      PROVE  Grounded'
  <2>1. \A p \in Purchase : p # k[2] => credited'[p] = credited[p]
    BY <1>0, <1>5 DEF Executes
  <2> QED
    BY <1>5, <1>b, <2>1
<1>6. ASSUME NEW k \in Notice, Acts(k) PROVE Grounded'
  <2>1. CASE UpdateCandy(k)
    BY <1>5, <2>1 DEF UpdateCandy, Told
  <2>2. CASE LateUpdate(k)
    <3>1. Told(k)
      BY <2>2 DEF LateUpdate, Grounded
    <3>2. \A n \in Notice : late'[n] > 0 => late[n] > 0
      BY <1>0, <2>2 DEF LateUpdate
    <3> QED
      BY <1>5, <2>2, <3>1, <3>2 DEF LateUpdate
  <2>3. CASE PurchasesUpdated(k) \/ Success(k)
    BY <1>b, <2>3 DEF PurchasesUpdated, Success, server
  <2>4. CASE SentAgain(k) \/ Fails(k)
    <3>1. \A n \in Notice : late'[n] > 0 => late[n] > 0 \/ Told(n)
      BY <1>0, <2>4 DEF SentAgain, Fails, Told
    <3> QED
      BY <1>b, <2>4, <3>1 DEF SentAgain, Fails, server
  <2> QED
    BY <1>6, <2>1, <2>2, <2>3, <2>4 DEF Acts
<1> QED
  BY <1>1, <1>2, <1>3, <1>4, <1>6, Split DEF Acts

\* The server adds candy only for what is paid, whatever is sent again, late or
\* lost, as long as Play reports no pending purchase: pending purchases are the
\* one way to what CreditedIsPaid denies.
THEOREM BillingPaidUnlessPending == Spec => [](NoPending => CreditedIsPaid)
<1>1. Init => Grounded
  BY DEF Init, Grounded
<1>2. Records /\ Grounded /\ NoPending => CreditedIsPaid
  <2> SUFFICES ASSUME Records, Grounded, NoPending, NEW p \in Purchase, credited[p] > 0
               PROVE  purchase[p] \in {"paid", "consumed"}
    BY DEF CreditedIsPaid
  <2>1. PICK n \in Notice : n[2] = p /\ Told(n)
    BY DEF Grounded
  <2>2. n[3] = "paid"
    BY <2>1, Parts, UnknownFields DEF NoPending, Told
  <2> QED
    BY <2>1, <2>2 DEF Records, Heard
<1>3. Records /\ Grounded /\ [Next]_vars => (Records /\ Grounded)'
  BY RecordsStep, GroundedStep DEF Records
<1> QED
  BY RecordsStart, <1>1, <1>2, <1>3, PTL DEF Spec
=============================================================================
