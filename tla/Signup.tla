------------------------------- MODULE Signup -------------------------------
(***************************************************************************)
(* Signing up (SignupActivity): the button that stores a new user, the     *)
(* chain of dialogs that then ask one question after the other, each with  *)
(* an update of its own, and the update at the end that lets the user in.  *)
(*                                                                         *)
(* A tap of the button starts a chain.  The next dialog of a chain is the  *)
(* dismiss listener of the one before, whoever dismissed it: the answer to *)
(* an update, or the user's back key.  The questions of the code are       *)
(* numbered in the order of the chain; which option of a question is chosen *)
(* is left out, but not which question an option belongs to.  The process  *)
(* may die at any step: what it had sent may still be executed.            *)
(***************************************************************************)
EXTENDS Naturals, FiniteSets

CONSTANTS Chain,      \* taps of the button
          Questions,  \* their number
          UserTable,  \* the questions whose column is in table user
          Several,    \* the questions of which several options may be chosen
          Tap,        \* bound: updates under way at a time, each with a mark of its own
          MaxHasty    \* bound: taps of a chain while an update of the same dialog is out

ASSUME SignupAssumption ==
  /\ Questions \in Nat \ {0}
  /\ UserTable \subseteq 1 .. Questions /\ Several \subseteq 1 .. Questions
  /\ MaxHasty \in Nat

Question == 1 .. Questions
Step == {"idle", "user", "useroption", "asks", "enabling", "over",
         "lost", "left", "gone"}   \* the process has died: how much it had sent

VARIABLES chain,    \* of each chain: where it is, at which question, and whether it found both rows
          shown,    \* the chains with a dialog on the screen
          above,    \* <<c, d>>: the dialog of c was shown over the one of d
          data,     \* PSDialog.userOptionData: the question its option belongs to, 0 for none
          updates,  \* the updates of answers that are under way
          rows, stored, enable,   \* the database: tables with a row of the user, their columns
          hasty     \* of each chain: back keys, and taps while an update of the same dialog was out

vars == <<chain, shown, above, data, updates, rows, stored, enable, hasty>>

Update == [id : Tap, by : Chain, q : Question, data : Question, done : BOOLEAN, live : BOOLEAN]

Table(q) == IF q \in UserTable THEN "user" ELSE "useroption"
OnTop(c) == c \in shown /\ \A d \in shown : <<d, c>> \notin above
Tapped == \E c, d \in Chain : c # d /\ chain[c].at # "idle" /\ chain[d].at # "idle"
Out(c, q) == {u \in updates : u.by = c /\ u.q = q /\ u.live}
-----------------------------------------------------------------------------
Init ==
  /\ chain = [c \in Chain |-> [at |-> "idle", q |-> 1, ready |-> FALSE]]
  /\ shown = {} /\ above = {}
  /\ data = 0
  /\ updates = {}
  /\ rows = {} /\ enable = FALSE
  /\ stored = [q \in Question |-> 0]
  /\ hasty = [c \in Chain |-> 0]

\* btn_save, whose fields are filled in.  Nothing disables it afterwards.
Save(c) ==
  /\ shown = {} /\ chain[c].at = "idle"
  /\ chain' = [chain EXCEPT ![c].at = "user"]
  /\ UNCHANGED <<shown, above, data, updates, rows, stored, enable, hasty>>

\* The server executes an insert or the update of user_enable: at any time
\* after it was sent, whatever the application has heard of it, or never.  One
\* that is sent again has no more effect than the first.
Executes(c) ==
  /\ \/ /\ chain[c].at # "idle"
        /\ rows' = rows \cup {"user"} /\ UNCHANGED enable
     \/ /\ chain[c].at \notin {"idle", "user", "lost"}
        /\ rows' = rows \cup {"useroption"} /\ UNCHANGED enable
     \/ /\ chain[c].at \in {"enabling", "over", "gone"} /\ "user" \in rows
        /\ enable' = TRUE /\ UNCHANGED rows
  /\ UNCHANGED <<chain, shown, above, data, updates, stored, hasty>>

\* insertReq calls back for an error too: with the row or without it the ID is
\* kept and the next insert is sent.
UserInserted(c) ==
  /\ chain[c].at = "user"
  /\ chain' = [chain EXCEPT ![c].at = "useroption"]
  /\ UNCHANGED <<shown, above, data, updates, rows, stored, enable, hasty>>

\* Mutant: a dialog that keeps what the one before has chosen.
ShowKeepsData(c) ==
  /\ shown' = shown \cup {c} /\ above' = above \cup ({c} \X shown)
  /\ UNCHANGED data

\* setUserOption_signup and show: on top of what is there, nothing chosen.
Show(c) ==
  /\ shown' = shown \cup {c} /\ above' = above \cup ({c} \X shown)
  /\ data' = 0

OptionInserted(c) ==
  /\ chain[c].at = "useroption"
  /\ chain' = [chain EXCEPT ![c].at = "asks", ![c].ready = (rows = {"user", "useroption"})]
  /\ Show(c)
  /\ UNCHANGED <<updates, rows, stored, enable, hasty>>

\* What a tap on an option leaves chosen: UserOptionAdapter the option, which
\* cannot be taken back; PersonalityAdapter all that are chosen now, or none.
Choices(q) == {q} \cup IF q \in Several THEN {0} ELSE {}

\* The user taps an option of the dialog on top.
Select(c) ==
  /\ OnTop(c)
  /\ data' \in Choices(chain[c].q)
  /\ UNCHANGED <<chain, shown, above, updates, rows, stored, enable, hasty>>

\* The button of the dialog.  It is not disabled while its update is out.
Answer(c) ==
  /\ OnTop(c) /\ data # 0
  /\ Out(c, chain[c].q) # {} => hasty[c] < MaxHasty
  /\ \E id \in Tap \ {u.id : u \in updates} :
       updates' = updates \cup
         {[id |-> id, by |-> c, q |-> chain[c].q, data |-> data, done |-> FALSE, live |-> TRUE]}
  /\ hasty' = IF Out(c, chain[c].q) = {} THEN hasty ELSE [hasty EXCEPT ![c] = @ + 1]
  /\ UNCHANGED <<chain, shown, above, data, rows, stored, enable>>

\* /user/update/option and .../city: an update of no row succeeds as well.
Store(u) ==
  /\ u \in updates /\ ~u.done
  /\ updates' = (updates \ {u}) \cup IF u.live THEN {[u EXCEPT !.done = TRUE]} ELSE {}
  /\ stored' = IF Table(u.q) \in rows THEN [stored EXCEPT ![u.q] = u.data] ELSE stored
  /\ UNCHANGED <<chain, shown, above, data, rows, enable, hasty>>

\* PSDialog.dismiss(): the dialog its chain shows by now, whichever that is.
Dismiss(c) ==
  /\ shown' = shown \ {c}
  /\ above' = {p \in above : p[1] # c /\ p[2] # c}

Stored(u) ==
  /\ u \in updates /\ u.done
  /\ updates' = updates \ {u}
  /\ Dismiss(u.by)
  /\ UNCHANGED <<chain, data, rows, stored, enable, hasty>>

\* Mutant: the answer dismisses the dialog, success or not.
NotStoredDismisses(u) ==
  /\ u \in updates /\ u.live
  /\ updates' = (updates \ {u}) \cup IF u.done THEN {} ELSE {[u EXCEPT !.live = FALSE]}
  /\ Dismiss(u.by)
  /\ UNCHANGED <<chain, data, rows, stored, enable, hasty>>

\* An error: the ErrorListener does nothing.  The server may still execute it.
NotStored(u) ==
  /\ u \in updates /\ u.live
  /\ updates' = (updates \ {u}) \cup IF u.done THEN {} ELSE {[u EXCEPT !.live = FALSE]}
  /\ UNCHANGED <<chain, shown, above, data, rows, stored, enable, hasty>>

\* An update the server never gets to see.
Lost(u) ==
  /\ u \in updates /\ ~u.done /\ ~u.live
  /\ updates' = updates \ {u}
  /\ UNCHANGED <<chain, shown, above, data, rows, stored, enable, hasty>>

Back(c) ==
  /\ OnTop(c)
  /\ Dismiss(c)
  /\ hasty' = [hasty EXCEPT ![c] = @ + 1]
  /\ UNCHANGED <<chain, data, updates, rows, stored, enable>>

\* Mutant: the listener of the last dialog asks on.
DismissedAsksOn(c) ==
  /\ chain[c].at = "asks" /\ c \notin shown
  /\ chain' = [chain EXCEPT ![c].q = @ + 1]
  /\ Show(c) /\ UNCHANGED <<updates, rows, stored, enable, hasty>>

\* The dismiss listener: the next question, or the update of user_enable.
Dismissed(c) ==
  /\ chain[c].at = "asks" /\ c \notin shown
  /\ \/ /\ chain[c].q < Questions
        /\ chain' = [chain EXCEPT ![c].q = @ + 1]
        /\ Show(c)
     \/ /\ chain[c].q = Questions
        /\ chain' = [chain EXCEPT ![c].at = "enabling"]
        /\ UNCHANGED <<shown, above, data>>
  /\ UNCHANGED <<updates, rows, stored, enable, hasty>>

\* The answer opens SplashActivity, an error nothing; either ends the chain.
Enabled(c) ==
  /\ chain[c].at = "enabling"
  /\ chain' = [chain EXCEPT ![c].at = "over"]
  /\ UNCHANGED <<shown, above, data, updates, rows, stored, enable, hasty>>

\* The process dies, and with it what the dialogs and the callbacks knew.
\* Nothing takes a chain up again: it is known only by what it has sent.
Abandoned(step) ==
  CASE step = "idle" -> "idle"
    [] step \in {"user", "lost"} -> "lost"
    [] step \in {"useroption", "asks", "left"} -> "left"
    [] step \in {"enabling", "over", "gone"} -> "gone"

Unheard(requests) == {[u EXCEPT !.live = FALSE] : u \in {v \in requests : ~v.done}}

Dies ==
  /\ chain' = [c \in Chain |-> [at |-> Abandoned(chain[c].at), q |-> 1, ready |-> FALSE]]
  /\ hasty' = [c \in Chain |-> 0]
  /\ shown' = {} /\ above' = {} /\ data' = 0
  /\ updates' = Unheard(updates)
  /\ UNCHANGED <<rows, stored, enable>>

\* The other users of PSDialog and of the rows (Entry has the one there is):
\* they store options of their own questions and change user_enable.  With a
\* second chain they may come to be above a dialog of the form.
Elsewhere ==
  /\ \/ /\ shown = {} \/ Tapped
        /\ data' \in 0 .. Questions /\ UNCHANGED <<stored, enable>>
     \/ \E q, d \in Question : /\ Table(q) \in rows /\ (d = q \/ Tapped)
                               /\ stored' = [stored EXCEPT ![q] = d]
                               /\ UNCHANGED <<data, enable>>
     \/ enable' \in BOOLEAN /\ UNCHANGED <<data, stored>>
  /\ UNCHANGED <<chain, shown, above, updates, rows, hasty>>

Next ==
  \/ \E c \in Chain : \/ Save(c) \/ UserInserted(c) \/ OptionInserted(c)
                      \/ Select(c) \/ Answer(c) \/ Back(c) \/ Dismissed(c) \/ Enabled(c)
                      \/ Executes(c)
  \/ \E u \in updates : Store(u) \/ Stored(u) \/ NotStored(u) \/ Lost(u)
  \/ Dies \/ Elsewhere

Spec == Init /\ [][Next]_vars
-----------------------------------------------------------------------------
TypeOK ==
  /\ chain \in [Chain -> [at : Step, q : Question, ready : BOOLEAN]]
  /\ shown \in SUBSET Chain /\ above \in SUBSET (shown \X shown)
  /\ \A c \in shown : chain[c].at = "asks"
  /\ data \in 0 .. Questions
  /\ updates \in SUBSET Update
  /\ \A u, v \in updates : u.id = v.id => u = v
  /\ rows \in SUBSET {"user", "useroption"} /\ enable \in BOOLEAN
  /\ stored \in [Question -> 0 .. Questions]
  /\ hasty \in [Chain -> Nat]

\* A user who is let in has answered every question, except as many as he has
\* been hasty: he pressed back, or tapped the button again while an update of
\* that dialog was out.  (Each answer to an update dismisses a dialog, and an
\* answer too many dismisses the dialog of a later question.)  It takes both
\* rows; without a row an update stores nothing and is answered all the same.
SkipsAreHasty ==
  \A c \in Chain : chain[c].at \in {"enabling", "over"} /\ chain[c].ready
                     => Cardinality({q \in Question : stored[q] = 0}) <= hasty[c]

\* A column holds an option of its own question, unless the button was tapped
\* twice: then a dialog that comes to light again finds the option chosen in
\* the dialogs that covered it.
AnswersBelong == (\E q \in Question : stored[q] \notin {0, q}) => Tapped

=============================================================================
