------------------------------ MODULE Buttons ------------------------------
(***************************************************************************)
(* The client's half of Expression: the hearts and call buttons of a       *)
(* partner's page (PartnerActivity) and of the lists (UserListAdapter,     *)
(* PartnerListAdapter), and the visit that opens the page.                 *)
(*                                                                         *)
(* The page changes its button when the server says "success"; a LikeButton *)
(* of a list turns by itself at the tap, and the answer only sets its      *)
(* picture.  Whenever the list draws the button again it takes its state   *)
(* from the item the list was read into, which no tap and no answer        *)
(* changes.  Neither waits for an answer before it takes the next tap.  An  *)
(* error is never shown: the ErrorListeners are empty.                     *)
(***************************************************************************)
EXTENDS Expression

VARIABLES shown,        \* the button is on; of a visit: the page is open
          inList,       \* the button is a LikeButton
          item,         \* of a LikeButton: what the list has stored for it
          reading,      \* what the page or list waits for to know the state
          waits,        \* the tap a request answers
          disturbed     \* see Send, TapLost, GivesUp, SentAgain and Page

client == <<shown, inList, item, reading, waits, disturbed>>
buttonsVars == <<vars, client>>

\* heard: the answer "success" is on its way; gone: the page tapped is closed.
NoTap == [for |-> "nothing", key |-> Free.key, again |-> FALSE, heard |-> FALSE, gone |-> FALSE]
Tap == [for : {"insert", "delete", "visit"}, key : Key, again : BOOLEAN, heard : BOOLEAN, gone : BOOLEAN]

Reading == {"no", "asked", "off", "on"}

\* The keys whose buttons are looked at.
Used == UNION Together

\* A request for k that the client waits for, or the server is at.
Open(k) == \E r \in Request : (waits[r] # NoTap /\ waits[r].key = k) \/ (req[r] # Free /\ req[r].key = k)

ButtonsInit ==
  /\ Init
  /\ shown = [k \in Key |-> FALSE] /\ inList = [k \in Key |-> FALSE]
  /\ item = [k \in Key |-> FALSE] /\ reading = [k \in Key |-> "no"]
  /\ waits = [r \in Request |-> NoTap] /\ disturbed = [k \in Key |-> FALSE]
-----------------------------------------------------------------------------
Handler(r, for, k) ==
  CASE for = "insert" -> insert(r, k)
    [] for = "delete" -> delete(r, k)
    [] for = "visit" -> insert_history(r, k)

\* What a tap asks for, and how the button looks at once.
Purpose(k) == IF k[3] = "visit" THEN "visit" ELSE IF shown[k] THEN "delete" ELSE "insert"
Turned(k) == IF inList[k] THEN [shown EXCEPT ![k] = ~@] ELSE shown

\* A tap; nothing keeps it from being the second before the first is answered,
\* or from coming before the page or the refreshed list knows what it shows.
Send(r, k) ==
  /\ waits[r] = NoTap
  /\ Handler(r, Purpose(k), k)
  /\ waits' = [waits EXCEPT ![r] = [NoTap EXCEPT !.for = Purpose(k), !.key = k]]
  /\ shown' = Turned(k)
  /\ disturbed' = [disturbed EXCEPT ![k] = @ \/ Open(k) \/ reading[k] # "no"]
  /\ UNCHANGED <<inList, item, reading>>

\* The request of a LikeButton does not reach the server; or the button is
\* turned on while the user's own profile is not complete (UserInfo.ENABLE),
\* and none is sent.
TapLost(k) ==
  /\ inList[k]
  /\ shown' = Turned(k) /\ disturbed' = [disturbed EXCEPT ![k] = TRUE]
  /\ UNCHANGED <<vars, inList, item, reading, waits>>

\* The query whose callback answers "success".
Answers(r) == req[r].alive /\ (InsertEach(r) \/ Delete(r) \/ InsertVisit(r) \/ UpdateVisit(r))

ServerStep(r) ==
  \/ Answers(r) /\ waits' = [waits EXCEPT ![r] = IF @ = NoTap THEN @ ELSE [@ EXCEPT !.heard = TRUE]]
                /\ UNCHANGED <<shown, inList, item, reading, disturbed>>
  \/ Query(r) /\ ~Answers(r) /\ UNCHANGED client

\* Mutant: the page turns its button on whatever was asked.
ReplyOn(r) ==
  /\ waits[r].heard
  /\ shown' = IF inList[waits[r].key] \/ waits[r].gone THEN shown ELSE [shown EXCEPT ![waits[r].key] = TRUE]
  /\ waits' = [waits EXCEPT ![r] = NoTap]
  /\ UNCHANGED <<vars, inList, item, reading, disturbed>>

\* The answer turns the button of the page that is still open.
Reply(r) ==
  /\ waits[r].heard
  /\ shown' = IF inList[waits[r].key] \/ waits[r].gone THEN shown
              ELSE [shown EXCEPT ![waits[r].key] = waits[r].for # "delete"]
  /\ waits' = [waits EXCEPT ![r] = NoTap]
  /\ UNCHANGED <<vars, inList, item, reading, disturbed>>

\* No answer, or none that arrives.
GivesUp(r) ==
  /\ waits[r] # NoTap
  /\ waits' = [waits EXCEPT ![r] = NoTap]
  /\ disturbed' = [disturbed EXCEPT ![waits[r].key] = @ \/ waits[r].key[3] \in Liking]
  /\ UNCHANGED <<vars, shown, inList, item, reading>>

\* Volley does not wait longer and asks again, once.
SentAgain(r, s) ==
  /\ waits[r] # NoTap /\ ~waits[r].again /\ (s # r => waits[s] = NoTap)
  /\ Handler(s, waits[r].for, waits[r].key)
  /\ waits' = [waits EXCEPT ![r] = NoTap, ![s] = [waits[r] EXCEPT !.again = TRUE, !.heard = FALSE]]
  /\ disturbed' = [disturbed EXCEPT ![waits[r].key] = TRUE]
  /\ UNCHANGED <<shown, inList, item, reading>>

\* A page, or a list, is opened anew and asks for its buttons.  What was asked
\* for before goes on, but its answers reach a page that is gone.
Opens(k) ==
  /\ k[3] \in Liking
  /\ \E list \in BOOLEAN : inList' = [inList EXCEPT ![k] = list]
  /\ shown' = [shown EXCEPT ![k] = FALSE] /\ item' = [item EXCEPT ![k] = FALSE]
  /\ reading' = [reading EXCEPT ![k] = "asked"]
  /\ waits' = [r \in Request |-> IF waits[r] # NoTap /\ waits[r].key = k
                                THEN [waits[r] EXCEPT !.gone = TRUE] ELSE waits[r]]
  /\ disturbed' = [disturbed EXCEPT ![k] = Open(k)]
  /\ UNCHANGED vars

\* The list asks again, and can be tapped until the last reply replaces it.
\* (Of two refreshes at a time the last is followed; the button is disturbed.)
Refreshes(k) ==
  /\ inList[k]
  /\ reading' = [reading EXCEPT ![k] = "asked"]
  /\ disturbed' = [disturbed EXCEPT ![k] = @ \/ Open(k) \/ reading[k] # "no"]
  /\ UNCHANGED <<vars, shown, inList, item, waits>>

\* The list draws its row again and takes the button's state from its item.
Rebinds(k) ==
  /\ inList[k] /\ shown[k] # item[k]
  /\ shown' = [shown EXCEPT ![k] = item[k]]
  /\ disturbed' = [disturbed EXCEPT ![k] = TRUE]
  /\ UNCHANGED <<vars, inList, item, reading, waits>>

\* The page is closed, and the list under it is there as it was left, drawn
\* again or refreshed meanwhile; it does not ask again.
Returns(k) ==
  /\ k[3] \in Liking /\ ~inList[k]
  /\ inList' = [inList EXCEPT ![k] = TRUE]
  /\ \E on, stored \in BOOLEAN, what \in Reading :
       /\ shown' = [shown EXCEPT ![k] = on] /\ item' = [item EXCEPT ![k] = stored]
       /\ reading' = [reading EXCEPT ![k] = what]
       /\ disturbed' = [disturbed EXCEPT ![k] = \/ @ \/ on # shown[k] \/ Open(k)
                                               \/ reading[k] # "no" \/ what # "no"]
  /\ UNCHANGED <<vars, waits>>

ServerReads(k) ==
  /\ up /\ reading[k] = "asked"
  /\ reading' = [reading EXCEPT ![k] = IF expr[k] > 0 THEN "on" ELSE "off"]
  /\ UNCHANGED <<vars, shown, inList, item, waits, disturbed>>

\* On a page only a 1 changes the button; a list is filled anew.
ReadReply(k) ==
  /\ reading[k] \in {"on", "off"}
  /\ shown' = [shown EXCEPT ![k] = reading[k] = "on" \/ (@ /\ ~inList[k])]
  /\ item' = [item EXCEPT ![k] = reading[k] = "on" /\ inList[k]]
  /\ reading' = [reading EXCEPT ![k] = "no"]
  /\ UNCHANGED <<vars, inList, waits, disturbed>>

ReadFails(k) ==
  /\ reading[k] # "no"
  /\ reading' = [reading EXCEPT ![k] = "no"] /\ disturbed' = [disturbed EXCEPT ![k] = TRUE]
  /\ UNCHANGED <<vars, shown, inList, item, waits>>

\* The profile's page is closed.
Closes(k) ==
  /\ k[3] = "visit" /\ shown[k]
  /\ shown' = [shown EXCEPT ![k] = FALSE]
  /\ UNCHANGED <<vars, inList, item, reading, waits, disturbed>>

Page(k) ==
  \/ TapLost(k) \/ Opens(k) \/ Refreshes(k) \/ Rebinds(k) \/ Returns(k)
  \/ ServerReads(k) \/ ReadReply(k) \/ ReadFails(k) \/ Closes(k)

\* Asked for by some other client: this one uses a path the server has not.
ShowsProfile(r, k) == waits[r] = NoTap /\ save_showprofile(r, k) /\ UNCHANGED client

ButtonsNext ==
  \/ \E r \in Request, k \in Key : Send(r, k) \/ ShowsProfile(r, k)
  \/ \E r \in Request : ServerStep(r) \/ Reply(r) \/ GivesUp(r)
  \/ \E r, s \in Request : SentAgain(r, s)
  \/ \E k \in Used : Page(k)
  \/ (Crash \/ Restart) /\ UNCHANGED client

ButtonsSpec == ButtonsInit /\ [][ButtonsNext]_buttonsVars
-----------------------------------------------------------------------------
ButtonsTypeOK ==
  /\ shown \in [Key -> BOOLEAN] /\ inList \in [Key -> BOOLEAN] /\ item \in [Key -> BOOLEAN] /\ reading \in [Key -> Reading]
  /\ waits \in [Request -> {NoTap} \cup Tap] /\ disturbed \in [Key -> BOOLEAN]
  /\ \A r \in Request : waits[r].heard => req[r] = Free
  /\ \A r \in Request : waits[r] # NoTap /\ req[r] # Free => req[r].key = waits[r].key

\* A button that nobody is waiting for shows whether the user has a row, unless
\* since the page or the list was opened taps overlapped, came before it knew
\* its state, were sent twice or not at all, went without an answer, or the list
\* took back what a tap had shown: drawn again from its item, or left under a
\* page.
AgreesUnlessDisturbed ==
  \A k \in Key : k[3] \in Liking /\ ~disturbed[k] /\ ~Open(k) /\ reading[k] = "no" =>
                   (shown[k] <=> expr[k] > 0)

\* One visitor has one row in the history of a profile, unless two of his
\* visits were under way at a time, or one was sent again.
OneVisit == \A k \in Key : k[3] = "visit" /\ ~disturbed[k] => expr[k] <= 1

\* A like, a wish or a visit with two rows, no request past its check and no
\* answer on its way.
Frozen(k) ==
  /\ k[3] # "show" /\ expr[k] >= 2
  /\ \A r \in Request : req[r].key = k => req[r].at \in Checks \cup {"idle"}
  /\ \A r \in Request : waits[r].key = k => ~waits[r].heard

\* Then no tap does anything any more, however often it is repeated: the rows
\* stay, a page's button keeps its state until the page is left, and the profile
\* is not opened by any further visit.
FrozenStays ==
  [][\A k \in Key : Frozen(k) =>
       /\ Frozen(k)'
       /\ \/ shown'[k] = shown[k] \/ inList[k]
          \/ Opens(k) \/ Returns(k) \/ ReadReply(k) \/ Closes(k)]_buttonsVars
=============================================================================
