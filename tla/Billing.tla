------------------------------ MODULE Billing ------------------------------
(***************************************************************************)
(* Buying candy on Android.  Each tap on an amount opens a dialog with a   *)
(* BillingModule of its own (PSDialog.setUpdateCandy), which stays         *)
(* connected to Google Play until the process ends; Play tells every       *)
(* connected module of every purchase.  A module that is told asks the     *)
(* server to add its candyCount and, when the server says it did, consumes *)
(* the purchase.  One product exists, and Play sells it again only when    *)
(* the last one is consumed.                                               *)
(*                                                                         *)
(* Play and the endpoint /user/update/candy are external.  Volley sends a  *)
(* request again when its answer is late, and both may be executed.        *)
(***************************************************************************)
EXTENDS Integers, FiniteSets

CONSTANTS Module,       \* the dialogs that are opened
          Amount,       \* the amounts on offer
          MaxBuys,      \* bound: purchases
          MaxLate       \* bound: copies of one update that nobody waits for

ASSUME BillingAssumption ==
  IsFiniteSet(Module) /\ Amount \subseteq Nat \ {0} /\ MaxBuys \in Nat /\ MaxLate \in Nat

Purchase == 1..MaxBuys

VARIABLES status,       \* of each module
          candyCount,   \* of each module: 0 until its flow is launched
          dialog,       \* the module whose dialog is open, as a set
          flow,         \* the module whose purchase sheet is open, as a set
          purchase,     \* what Play says of each purchase
          chosen,       \* what the user accepted to buy with it
          notice,       \* of each module and purchase, as pending or as paid
          late,         \* updates on their way that nobody waits for
          credited,     \* updates the server has executed for a purchase
          candy,        \* the server's user_candycount
          CANDYCOUNT,   \* UserInfo.CANDYCOUNT
          consuming,    \* purchases on their way to be consumed
          failed        \* an update got no answer, or the process ended

client == <<status, candyCount, dialog, flow>>
play == <<purchase, chosen, consuming>>
server == <<credited, candy>>
vars == <<client, play, server, notice, late, CANDYCOUNT, failed>>

Notice == Module \X Purchase \X {"pending", "paid"}
\* amount: what the update of a notice asks the server to add.
Unknown == [at |-> "none", again |-> FALSE, amount |-> 0]
NoticeState == [at : {"none", "told", "sent", "done", "over"}, again : BOOLEAN,
                amount : Amount \cup {0}]
Over(state) == [state EXCEPT !.at = "over"]
PlayState == {"none", "pending", "declined", "paid", "consumed"}

\* Play sells the product, as purchase p, when no other purchase is held.
Sells(p) ==
  /\ purchase[p] = "none" /\ \A q \in 1..p - 1 : purchase[q] # "none"
  /\ \A q \in Purchase : purchase[q] \notin {"pending", "paid"}

Init ==
  /\ status = [m \in Module |-> "new"] /\ candyCount = [m \in Module |-> 0] /\ dialog = {} /\ flow = {}
  /\ purchase = [p \in Purchase |-> "none"] /\ chosen = [p \in Purchase |-> 0]
  /\ consuming = {}
  /\ notice = [n \in Notice |-> Unknown] /\ late = [n \in Notice |-> 0]
  /\ credited = [p \in Purchase |-> 0] /\ candy = 0 /\ CANDYCOUNT = 0
  /\ failed = FALSE

\* Mutant: a module that connects asks Play what is paid and not consumed.
OpensAndAsks(m) ==
  /\ status[m] = "new" /\ dialog = {} /\ flow = {}
  /\ status' = [status EXCEPT ![m] = "connected"]
  /\ dialog' = {m}
  /\ notice' = [n \in Notice |-> IF n[1] = m /\ n[3] = "paid" /\ purchase[n[2]] = "paid"
                                 THEN [Unknown EXCEPT !.at = "told"] ELSE notice[n]]
  /\ UNCHANGED <<candyCount, flow, play, server, late, CANDYCOUNT, failed>>

\* A tap on an amount: a new BillingModule connects.
Opens(m) ==
  /\ status[m] = "new" /\ dialog = {} /\ flow = {}
  /\ status' = [status EXCEPT ![m] = "connected"]
  /\ dialog' = {m}
  /\ UNCHANGED <<candyCount, flow, play, server, notice, late, CANDYCOUNT, failed>>

\* The cancel button.  The module stays connected.
Closes ==
  /\ dialog # {}
  /\ dialog' = {}
  /\ UNCHANGED <<status, candyCount, flow, play, server, notice, late, CANDYCOUNT, failed>>

\* Mutant: the flow is launched without the amount.
AcceptsNoAmount(m, amount) ==
  /\ m \in dialog
  /\ dialog' = {} /\ flow' = {m}
  /\ UNCHANGED <<status, candyCount, play, server, notice, late, CANDYCOUNT, failed>>

\* The accept button: doBillingFlow, after which the dialog is gone.
Accepts(m, amount) ==
  /\ m \in dialog
  /\ candyCount' = [candyCount EXCEPT ![m] = amount]
  /\ dialog' = {}
  /\ flow' = {m}
  /\ UNCHANGED <<status, play, server, notice, late, CANDYCOUNT, failed>>

\* The user leaves the sheet, or Play does not sell: no module does anything.
Cancels ==
  /\ flow # {}
  /\ flow' = {}
  /\ UNCHANGED <<status, candyCount, dialog, play, server, notice, late, CANDYCOUNT, failed>>

\* Every connected module hears of p.
Tells(p, as) ==
  notice' = [n \in Notice |->
    IF n[2] = p /\ n[3] = as /\ status[n[1]] = "connected"
    THEN [Unknown EXCEPT !.at = "told"] ELSE notice[n]]

\* Play sells the product, for money or against a later payment.
Buys(as) ==
  /\ \E m \in flow, p \in Purchase :
       /\ Sells(p)
       /\ purchase' = [purchase EXCEPT ![p] = as]
       /\ chosen' = [chosen EXCEPT ![p] = candyCount[m]]
       /\ Tells(p, as)
  /\ flow' = {}
  /\ UNCHANGED <<status, candyCount, dialog, consuming, server, late, CANDYCOUNT, failed>>

\* The later payment is made, or not.
Pays(p) ==
  /\ purchase[p] = "pending"
  /\ purchase' = [purchase EXCEPT ![p] = "paid"]
  /\ Tells(p, "paid")
  /\ UNCHANGED <<client, chosen, consuming, server, late, CANDYCOUNT, failed>>

Declines(p) ==
  /\ purchase[p] = "pending"
  /\ purchase' = [purchase EXCEPT ![p] = "declined"]
  /\ UNCHANGED <<client, chosen, consuming, server, notice, late, CANDYCOUNT, failed>>
-----------------------------------------------------------------------------
\* Mutant: consume first, then tell the server.
PurchasesUpdatedConsumes(n) ==
  /\ notice[n].at = "told"
  /\ notice' = [notice EXCEPT ![n] = [at |-> "sent", again |-> FALSE, amount |-> candyCount[n[1]]]]
  /\ consuming' = consuming \cup {n[2]}
  /\ UNCHANGED <<client, purchase, chosen, server, late, CANDYCOUNT, failed>>

\* onPurchasesUpdated, with OK: updateCandyReq, whatever the purchase state.
PurchasesUpdated(n) ==
  /\ notice[n].at = "told"
  /\ notice' = [notice EXCEPT ![n] = [at |-> "sent", again |-> FALSE, amount |-> candyCount[n[1]]]]
  /\ UNCHANGED <<client, play, server, late, CANDYCOUNT, failed>>

Executes(n) ==
  /\ credited' = [credited EXCEPT ![n[2]] = @ + 1]
  /\ candy' = candy + notice[n].amount

UpdateCandy(n) ==
  /\ notice[n].at = "sent"
  /\ Executes(n)
  /\ notice' = [notice EXCEPT ![n].at = "done"]
  /\ UNCHANGED <<client, play, late, CANDYCOUNT, failed>>

LateUpdate(n) ==
  /\ late[n] > 0
  /\ Executes(n)
  /\ late' = [late EXCEPT ![n] = @ - 1]
  /\ UNCHANGED <<client, play, notice, CANDYCOUNT, failed>>

\* The answer is late and the update is sent again, once.
SentAgain(n) ==
  /\ notice[n].at \in {"sent", "done"} /\ ~notice[n].again
  /\ \/ notice[n].at = "done" /\ UNCHANGED late
     \/ /\ notice[n].at = "sent" /\ late[n] < MaxLate
        /\ late' = [late EXCEPT ![n] = @ + 1]
  /\ notice' = [notice EXCEPT ![n] = [at |-> "sent", again |-> TRUE, amount |-> @.amount]]
  /\ UNCHANGED <<client, play, server, CANDYCOUNT, failed>>

\* Mutant: the amount is added for each purchase Play reports, answered or not.
SuccessTwice(n) ==
  /\ notice[n].at = "done"
  /\ notice' = [notice EXCEPT ![n] = Over(@)]
  /\ consuming' = consuming \cup {n[2]}
  /\ CANDYCOUNT' = CANDYCOUNT + 2 * candyCount[n[1]]
  /\ UNCHANGED <<client, purchase, chosen, server, late, failed>>

\* Mutant: the application learns of its candy only when it starts again.
SuccessUnseen(n) ==
  /\ notice[n].at = "done"
  /\ notice' = [notice EXCEPT ![n] = Over(@)]
  /\ consuming' = consuming \cup {n[2]}
  /\ UNCHANGED <<client, purchase, chosen, server, late, CANDYCOUNT, failed>>

\* The answer is success: consume, and add the amount here too.
Success(n) ==
  /\ notice[n].at = "done"
  /\ notice' = [notice EXCEPT ![n] = Over(@)]
  /\ consuming' = consuming \cup {n[2]}
  /\ CANDYCOUNT' = CANDYCOUNT + candyCount[n[1]]
  /\ UNCHANGED <<client, purchase, chosen, server, late, failed>>

\* No answer: the ErrorListener is empty.  The update may still be executed.
Fails(n) ==
  /\ notice[n].at \in {"sent", "done"}
  /\ notice' = [notice EXCEPT ![n] = Over(@)]
  /\ \/ UNCHANGED late
     \/ /\ notice[n].at = "sent" /\ late[n] < MaxLate
        /\ late' = [late EXCEPT ![n] = @ + 1]
  /\ failed' = TRUE
  /\ UNCHANGED <<client, play, server, CANDYCOUNT>>

\* consumeAsync: Play consumes what is paid, once; or the request fails.
Consume(p) ==
  /\ p \in consuming
  /\ consuming' = consuming \ {p}
  /\ purchase' = [purchase EXCEPT ![p] =
       IF @ = "paid" THEN "consumed" ELSE @]
  /\ UNCHANGED <<client, chosen, server, notice, late, CANDYCOUNT, failed>>

ConsumeFails(p) ==
  /\ p \in consuming
  /\ consuming' = consuming \ {p}
  /\ failed' = TRUE
  /\ UNCHANGED <<client, purchase, chosen, server, notice, late, CANDYCOUNT>>

\* The process ends; the next login reads the server's count.  Nobody asks
\* Play what is bought and not consumed.
Dies ==
  /\ \E m \in Module : status[m] = "connected"
  /\ status' = [m \in Module |-> IF status[m] = "connected" THEN "gone" ELSE status[m]]
  /\ dialog' = {} /\ flow' = {} /\ UNCHANGED candyCount
  /\ \E sent \in SUBSET {n \in Notice : notice[n].at = "sent" /\ late[n] < MaxLate} :
       late' = [n \in Notice |-> IF n \in sent THEN late[n] + 1 ELSE late[n]]
  /\ notice' = [n \in Notice |->
       IF notice[n].at = "none" THEN Unknown ELSE Over(notice[n])]
  /\ CANDYCOUNT' = candy
  /\ failed' = TRUE
  /\ UNCHANGED <<play, server>>

Next ==
  \/ \E m \in Module : Opens(m) \/ \E amount \in Amount : Accepts(m, amount)
  \/ Closes \/ Cancels \/ Dies
  \/ \E as \in {"pending", "paid"} : Buys(as)
  \/ \E p \in Purchase : Pays(p) \/ Declines(p) \/ Consume(p) \/ ConsumeFails(p)
  \/ \E n \in Notice : \/ PurchasesUpdated(n) \/ UpdateCandy(n) \/ LateUpdate(n)
                       \/ SentAgain(n) \/ Success(n) \/ Fails(n)

Spec == Init /\ [][Next]_vars
-----------------------------------------------------------------------------
\* The type invariant; a purchase sheet belongs to a module that launched it.
TypeOK ==
  /\ status \in [Module -> {"new", "connected", "gone"}]
  /\ candyCount \in [Module -> Amount \cup {0}]
  /\ dialog \subseteq Module /\ flow \subseteq Module /\ (\A m \in flow : candyCount[m] # 0)
  /\ purchase \in [Purchase -> PlayState] /\ chosen \in [Purchase -> Amount \cup {0}]
  /\ consuming \subseteq Purchase
  /\ notice \in [Notice -> NoticeState] /\ late \in [Notice -> 0..MaxLate]
  /\ credited \in [Purchase -> Nat] /\ candy \in Nat /\ CANDYCOUNT \in Nat
  /\ failed \in BOOLEAN

\* A purchase is consumed only after the server has executed an update for it:
\* whatever fails, repeats or ends between the two requests, Play does not
\* forget a purchase of which the server never heard.
ConsumedIsCredited ==
  \A p \in Purchase : purchase[p] = "consumed" => credited[p] > 0

\* The application never shows more candy than the server has: it adds an
\* amount only when the server has added it, also with answers that come after
\* other updates, and reads the server's count when it starts.  With a pending
\* purchase this is not so: when it is paid, a module may be told whose dialog
\* is open, and the answer then adds the amount accepted since.
NeverAhead ==
  (\A n \in Notice : n[3] = "pending" => notice[n] = Unknown) => CANDYCOUNT <= candy

\* The candy that was chosen in the dialogs of what Play sold, one by one.
Sold == UNION {{p} \X (1..chosen[p]) : p \in Purchase}

\* When nothing fails and nothing is under way, the three ledgers agree: the
\* server and the application have the candy that was chosen in the dialogs of
\* what Play sold.  This needs that one notice was given of each purchase (one
\* module connected, paid at once) and that no update was sent again.
LedgersAgree ==
  /\ ~failed /\ \A n \in Notice : notice[n].at \in {"none", "over"} /\ ~notice[n].again
  /\ \A p \in Purchase : Cardinality({n \in Notice : n[2] = p /\ notice[n] # Unknown}) <= 1
  => candy = Cardinality(Sold) /\ CANDYCOUNT = candy

\* A paid purchase of which no module will do anything more.
Abandoned(p) ==
  /\ purchase[p] = "paid" /\ p \notin consuming
  /\ \A n \in Notice : n[2] = p => notice[n].at \in {"none", "over"}

\* A purchase whose update or consumption failed, or whose process ended on the
\* way, is never taken up again, not by the modules that are opened later nor
\* after a restart; and Play sells this user nothing from then on.
AbandonedStays ==
  [][\A p \in Purchase : Abandoned(p) =>
       /\ Abandoned(p)'
       /\ \A q \in Purchase : purchase[q] = "none" => purchase'[q] = "none"]_vars

\* What the log says before the update, that the payment has succeeded: the
\* server adds candy for a purchase only when it is paid.
CreditedIsPaid ==
  \A p \in Purchase : credited[p] > 0 => purchase[p] \in {"paid", "consumed"}
=============================================================================
