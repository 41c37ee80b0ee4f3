------------------------------- MODULE Entry -------------------------------
(***************************************************************************)
(* The way in and back: SplashActivity, the check of StartActivity, the    *)
(* form of Signup, the login, and EditProfileActivity, where the questions *)
(* of the form can be answered again.  Whether a user may use the          *)
(* application is asked of the server once (/user/check); whether he has   *)
(* answered everything is asked of the texts on the page.                  *)
(*                                                                         *)
(* Signup's actions are taken over: those of the user while the form is on *)
(* top, those of its callbacks at any time.                                *)
(***************************************************************************)
EXTENDS Signup

CONSTANTS OnPage,   \* the questions the edit page has; the form has one more, user_language
          EditTap,  \* bound: updates of the edit page under way at a time, each with a mark of its own
          MaxTaps,  \* bound: taps of the form's button by a user who opens the edit page
          MaxLeft   \* bound: what the form has out when the page is opened, or the page when
                    \* the form is used

ASSUME EntryAssumption ==
  /\ OnPage \subseteq 1 .. Questions
  /\ MaxTaps \in Nat /\ MaxLeft \in Nat

VARIABLES at,       \* the activity on top; "absent" and "present": start, with an answer under way
          known,    \* the preferences hold an ID
          form,     \* a SignupActivity is on the stack
          text,     \* what the edit page shows: the question an option belongs to, 0 for an empty text
          load,     \* the request for the stored options, and what the server has read
          dialog,   \* the question the edit page asks, Confirm, or 0
          edits,    \* the updates of the edit page that are under way
          leaving,  \* the values for user_enable that are under way
          blind,    \* an update has been executed without a row to store it in
          hurried,  \* a second update, or the back key, while an update was out
          unheard,  \* an answer to an update has failed
          late      \* since the options were read, an update was executed that is not the page's own

page == <<text, load, dialog, hurried, unheard, late>>
entryVars == <<at, known, form, page, edits, leaving, blind>>
allVars == <<vars, entryVars>>

Activity == {"start", "absent", "present", "form", "splash", "main", "edit"}
Unset == Questions + 1     \* the text of the layout, "please choose"
Confirm == Questions + 1   \* the dialog of setIncompleteEditProfile

Closed == [at |-> "over", saw |-> [q \in OnPage |-> 0]]

\* An update that the page has not sent, or has heard of as failed, is executed:
\* the page does not know of it, unless it has still to read the options.
Misses == late' = (late \/ (at = "edit" /\ load.at # "asked"))
Under(c) == chain[c].at \in {"user", "useroption", "asks", "enabling"}
-----------------------------------------------------------------------------
NewPage(a) ==
  /\ text' = [q \in OnPage |-> Unset]
  /\ load' = [Closed EXCEPT !.at = a]
  /\ dialog' = 0 /\ hurried' = FALSE /\ unheard' = FALSE /\ late' = FALSE

EntryInit ==
  /\ Init
  /\ at = "start" /\ known = FALSE /\ form = FALSE
  /\ text = [q \in OnPage |-> Unset] /\ load = Closed
  /\ dialog = 0 /\ edits = {} /\ leaving = {}
  /\ blind = FALSE /\ hurried = FALSE /\ unheard = FALSE /\ late = FALSE
-----------------------------------------------------------------------------
\* Mutant: the check counts users that have both rows.
CheckReadsBoth ==
  /\ at = "start" /\ ~form
  /\ at' = IF rows = {"user", "useroption"} THEN "present" ELSE "absent"
  /\ UNCHANGED <<vars, known, form, page, edits, leaving, blind>>

\* userCheckReq, once the number that was sent to the phone is typed in.  (Bound:
\* not above another form.)
CheckRead ==
  /\ at = "start" /\ ~form
  /\ at' = IF "user" \in rows THEN "present" ELSE "absent"
  /\ UNCHANGED <<vars, known, form, page, edits, leaving, blind>>

\* The answer: a user is logged in, anybody else gets the form.
CheckReply ==
  /\ at \in {"absent", "present"}
  /\ \/ /\ at = "present" /\ at' = "splash" /\ known' = TRUE /\ UNCHANGED form
     \/ /\ at = "absent" /\ at' = "form" /\ form' = TRUE /\ UNCHANGED known
  /\ UNCHANGED <<vars, page, edits, leaving, blind>>

CheckFails ==
  /\ at \in {"absent", "present"} /\ at' = "start"
  /\ UNCHANGED <<vars, known, form, page, edits, leaving, blind>>

\* The back key of the form.  (With a chain under way its next dialog has no
\* window to be shown in, and throws: Die.)
LeaveForm ==
  /\ at = "form" /\ \A c \in Chain : ~Under(c)
  /\ at' = "start" /\ form' = FALSE
  /\ UNCHANGED <<vars, known, page, edits, leaving, blind>>

\* The steps of Signup.  The ID is kept after the first insert, failed or not;
\* the answer to the last update, unless it fails, opens SplashActivity.  (Bound:
\* not above the edit page; it takes a second chain to get there.)
FormStep ==
  \/ /\ at = "form" /\ Cardinality(edits) + Cardinality(leaving) <= MaxLeft
     /\ \E c \in Chain : Save(c)
     /\ UNCHANGED entryVars
  \/ /\ at = "form" /\ \E c \in Chain : Select(c) \/ Answer(c) \/ Back(c)
     /\ UNCHANGED entryVars
  \/ /\ \/ \E c \in Chain : OptionInserted(c) \/ Dismissed(c) \/ Executes(c)
        \/ \E u \in updates : Stored(u) \/ NotStored(u) \/ Lost(u)
     /\ UNCHANGED entryVars
  \/ /\ \E u \in updates : Store(u)
     /\ Misses
     /\ UNCHANGED <<at, known, form, text, load, dialog, hurried, unheard, edits, leaving, blind>>
  \/ /\ \E c \in Chain : UserInserted(c)
     /\ known' = TRUE /\ UNCHANGED <<at, form, page, edits, leaving, blind>>
  \/ /\ \E c \in Chain : Enabled(c)
     /\ at' \in {at} \cup IF at = "edit" THEN {} ELSE {"splash"}
     /\ UNCHANGED <<known, form, page, edits, leaving, blind>>

\* loginReq.  Its code 3 leads to MainActivity, 0 to StartActivity; any other
\* is handled nowhere and leaves the user where he is.
LoginReply ==
  /\ at = "splash"
  /\ at' \in {"start"} \cup IF "user" \in rows THEN {"main"} ELSE {}
  /\ UNCHANGED <<vars, known, form, page, edits, leaving, blind>>

\* The back key of MainActivity: what is below it, or the application anew.
LeaveMain ==
  /\ at = "main"
  /\ at' \in IF form THEN {"form"} ELSE {"start", "splash"}
  /\ UNCHANGED <<vars, known, form, page, edits, leaving, blind>>
-----------------------------------------------------------------------------
\* EditProfileActivity.onCreate, whatever the form or an earlier visit of the
\* page still has out: finish() cancels nothing.
OpenEdit ==
  /\ at = "main" /\ at' = "edit"
  /\ Cardinality({c \in Chain : chain[c].at # "idle"}) <= MaxTaps
  /\ Cardinality(updates) + Cardinality(leaving) <= MaxLeft
  /\ NewPage("asked")
  /\ UNCHANGED <<vars, known, form, edits, leaving, blind>>

\* /user/get/option joins the two rows; there is no answer without both.
OptionsRead ==
  /\ load.at = "asked" /\ rows = {"user", "useroption"}
  /\ load' = [at |-> "read", saw |-> [q \in OnPage |-> stored[q]]]
  /\ UNCHANGED <<vars, at, known, form, text, dialog, hurried, unheard, late, edits, leaving, blind>>

\* Mutant: the answer is the whole of what the page shows.
OptionsReplyForgets ==
  /\ load.at = "read"
  /\ text' = [q \in OnPage |-> IF load.saw[q] # 0 THEN load.saw[q] ELSE Unset]
  /\ load' = Closed
  /\ UNCHANGED <<vars, at, known, form, dialog, hurried, unheard, late, edits, leaving, blind>>

\* A column that is null leaves its text alone.
OptionsReply ==
  /\ load.at = "read"
  /\ text' = [q \in OnPage |-> IF load.saw[q] # 0 THEN load.saw[q] ELSE text[q]]
  /\ load' = Closed
  /\ UNCHANGED <<vars, at, known, form, dialog, hurried, unheard, late, edits, leaving, blind>>

\* An error is not handled: the page goes on with the texts of its layout.
OptionsFail ==
  /\ load.at \in {"asked", "read"}
  /\ load' = [Closed EXCEPT !.at = "failed"]
  /\ UNCHANGED <<vars, at, known, form, text, dialog, hurried, unheard, late, edits, leaving, blind>>

\* Mutant: what was chosen last is still chosen.
AskKeepsData(q) ==
  /\ at = "edit" /\ dialog = 0 /\ dialog' = q
  /\ UNCHANGED <<vars, at, known, form, text, load, hurried, unheard, late, edits, leaving, blind>>

\* setUserOption and show.
Ask(q) ==
  /\ at = "edit" /\ dialog = 0 /\ dialog' = q
  /\ data' = 0
  /\ UNCHANGED <<chain, shown, above, updates, rows, stored, enable, hasty>>
  /\ UNCHANGED <<at, known, form, text, load, hurried, unheard, late, edits, leaving, blind>>

Choose ==
  /\ dialog \in Question
  /\ data' \in Choices(dialog)
  /\ UNCHANGED <<chain, shown, above, updates, rows, stored, enable, hasty>>
  /\ UNCHANGED entryVars

\* The button of the dialog.
SendEdit ==
  /\ dialog \in Question /\ data # 0
  /\ \E t \in EditTap \ {u.id : u \in edits} :
       edits' = edits \cup {[id |-> t, q |-> dialog, data |-> data, done |-> FALSE, live |-> TRUE]}
  /\ hurried' = (hurried \/ \E u \in edits : u.live)
  /\ UNCHANGED <<vars, at, known, form, text, load, dialog, unheard, late, leaving, blind>>

\* As in Signup, an update of no row is a success.
EditStore(u) ==
  /\ u \in edits /\ ~u.done
  /\ edits' = (edits \ {u}) \cup IF u.live THEN {[u EXCEPT !.done = TRUE]} ELSE {}
  /\ stored' = IF Table(u.q) \in rows THEN [stored EXCEPT ![u.q] = u.data] ELSE stored
  /\ blind' = (blind \/ Table(u.q) \notin rows)
  /\ IF u.live THEN UNCHANGED late ELSE Misses
  /\ UNCHANGED <<chain, shown, above, data, updates, rows, enable, hasty>>
  /\ UNCHANGED <<at, known, form, text, load, dialog, hurried, unheard, leaving>>

\* The answer shows what is chosen by now, and dismisses what is shown by now.
EditStored(u) ==
  /\ u \in edits /\ u.done
  /\ edits' = edits \ {u}
  /\ text' = [text EXCEPT ![u.q] = data]
  /\ dialog' = IF dialog = Confirm THEN dialog ELSE 0
  /\ UNCHANGED <<vars, at, known, form, load, hurried, unheard, late, leaving, blind>>

\* Mutant: the text is set before anything is known of the update.
EditNotStoredShows(u) ==
  /\ u \in edits /\ u.live
  /\ edits' = (edits \ {u}) \cup IF u.done THEN {} ELSE {[u EXCEPT !.live = FALSE]}
  /\ text' = [text EXCEPT ![u.q] = u.data]
  /\ unheard' = TRUE
  /\ UNCHANGED <<vars, at, known, form, load, dialog, hurried, late, leaving, blind>>

EditNotStored(u) ==
  /\ u \in edits /\ u.live
  /\ edits' = (edits \ {u}) \cup IF u.done THEN {} ELSE {[u EXCEPT !.live = FALSE]}
  /\ unheard' = TRUE
  /\ UNCHANGED <<vars, at, known, form, text, load, dialog, hurried, late, leaving, blind>>

EditLost(u) ==
  /\ u \in edits /\ ~u.done /\ ~u.live
  /\ edits' = edits \ {u}
  /\ UNCHANGED <<vars, at, known, form, page, leaving, blind>>

\* The back key of a dialog, and the button that stays on the page.
BackDialog ==
  /\ dialog # 0 /\ dialog' = 0
  /\ hurried' = (hurried \/ (dialog # Confirm /\ \E u \in edits : u.live))
  /\ UNCHANGED <<vars, at, known, form, text, load, unheard, late, edits, leaving, blind>>

\* The page is gone: the answers to its updates have nothing left to change.
Leave(value) ==
  /\ at' = "main" /\ leaving' = leaving \cup {value}
  /\ NewPage("over") /\ edits' = Unheard(edits)
  /\ UNCHANGED <<vars, known, form, blind>>

\* onBackPressed, checkIncomplete: it goes by the texts, whatever they were set by.
BackEdit ==
  /\ at = "edit" /\ dialog = 0
  /\ \/ /\ \A q \in OnPage : text[q] # Unset
        /\ Leave(1)
     \/ /\ \E q \in OnPage : text[q] = Unset
        /\ dialog' = Confirm
        /\ UNCHANGED <<vars, at, known, form, text, load, hurried, unheard, late, edits, leaving, blind>>

\* The other button of the dialog: the user leaves and is disabled.
Cancel == dialog = Confirm /\ Leave(0)

\* The updates of user_enable, in any order, or never.
SetEnable(value) ==
  /\ value \in leaving /\ leaving' = leaving \ {value}
  /\ enable' = IF "user" \in rows THEN value = 1 ELSE enable
  /\ UNCHANGED <<chain, shown, above, data, updates, rows, stored, hasty>>
  /\ UNCHANGED <<at, known, form, page, edits, blind>>

EnableLost(value) ==
  /\ value \in leaving /\ leaving' = leaving \ {value}
  /\ UNCHANGED <<vars, at, known, form, page, edits, blind>>
-----------------------------------------------------------------------------
\* The process dies; the next one starts with SplashActivity, which goes on to
\* StartActivity without an ID.
Die ==
  /\ Dies
  /\ at' = IF known THEN "splash" ELSE "start"
  /\ form' = FALSE /\ NewPage("over") /\ edits' = Unheard(edits)
  /\ UNCHANGED <<known, leaving, blind>>

EntryNext ==
  \/ CheckRead \/ CheckReply \/ CheckFails \/ LeaveForm \/ FormStep
  \/ LoginReply \/ LeaveMain
  \/ OpenEdit \/ OptionsRead \/ OptionsReply \/ OptionsFail
  \/ \E q \in OnPage : Ask(q)
  \/ Choose \/ SendEdit \/ BackDialog \/ BackEdit \/ Cancel
  \/ \E u \in edits : EditStore(u) \/ EditStored(u) \/ EditNotStored(u) \/ EditLost(u)
  \/ \E value \in leaving : SetEnable(value) \/ EnableLost(value)
  \/ Die

EntrySpec == EntryInit /\ [][EntryNext]_allVars
-----------------------------------------------------------------------------
Edit == [id : EditTap, q : OnPage, data : Question, done : BOOLEAN, live : BOOLEAN]

EntryTypeOK ==
  /\ at \in Activity /\ known \in BOOLEAN /\ form \in BOOLEAN
  /\ text \in [OnPage -> 0 .. Unset]
  /\ load \in [at : {"asked", "read", "over", "failed"}, saw : [OnPage -> 0 .. Questions]]
  /\ dialog \in OnPage \cup {0, Confirm}
  /\ at # "edit" => dialog = 0 /\ \A u \in edits : ~u.live
  /\ at \in {"main", "edit"} => "user" \in rows
  /\ edits \in SUBSET Edit
  /\ leaving \in SUBSET {0, 1}
  /\ blind \in BOOLEAN /\ hurried \in BOOLEAN /\ unheard \in BOOLEAN /\ late \in BOOLEAN

\* A process that died between the two inserts leaves a user without a row for
\* his options.  The check and the login know him, so nothing sends him to the
\* form again: he stays without, and all he ever answers is stored nowhere.
Half ==
  /\ rows = {"user"} /\ ~form /\ at # "absent"
  /\ \A c \in Chain : chain[c].at \in {"idle", "lost"}
HalfStays == [][Half => Half']_allVars

\* Whom the edit page lets in has an answer in the database to every question
\* of the page, whatever the page was told late, twice or not at all; unless an
\* update found no row to be stored in.  (The one question the page has not,
\* user_language, is asked by the form only, and may have been skipped.)
EnabledIsAnswered ==
  1 \in leaving => blind \/ \A q \in OnPage : stored[q] # 0

\* Once the stored options have arrived, an answer that is stored is shown, and
\* so cannot get a user disabled; unless the answer to an update was an error,
\* or an update of the form, or of an earlier visit of the page, was executed
\* only after the options had been read.
PageKnows ==
  at = "edit" /\ load.at = "over" /\ (\A u \in edits : ~u.live) /\ ~unheard /\ ~late
    => \A q \in OnPage : stored[q] # 0 => text[q] # Unset

\* The page shows an option of another question only after a second update or
\* the back key while an update was out, or after two taps of the form's button,
\* whose answers may be in the wrong columns.  Without these it shows an empty
\* text, which passes for an answer, only where several options may be chosen:
\* when the last one is taken back before the update is answered.
TextBelongs ==
  (\E q \in OnPage : text[q] \notin {Unset} \cup Choices(q)) => hurried \/ Tapped

=============================================================================
