---------------------------- MODULE BlockSwitch ----------------------------
(***************************************************************************)
(* The switch that blocks the contacts of a user (AlarmSettingActivity).   *)
(* Its state has five copies: the switch, UserInfo.BLOCKING with           *)
(* BLOCKINGNUMBER in the application, two columns of the server's row of   *)
(* the user and the rows of table blocking.  A change is one request that  *)
(* nobody waits for and a chain of two; Volley sends a request again when  *)
(* an answer is late, and the late copy is still executed.  The next start *)
(* of the application (SplashActivity) reads the copies back.              *)
(*                                                                         *)
(* The contacts are one value that is not empty.  The server's endpoints   *)
(* are external.                                                           *)
(***************************************************************************)
EXTENDS Integers, FiniteSets

CONSTANTS Chain,        \* chains that may run at a time
          MaxLate,      \* bound: requests on their way that nobody waits for
          MaxRows       \* bound: rows of the user in table blocking

ASSUME BlockSwitchAssumption ==
  IsFiniteSet(Chain) /\ MaxLate \in Nat \ {0} /\ MaxRows \in Nat \ {0}

VARIABLES user,         \* the row of the user: user_blocking, user_blockingnumber # ''
          blocking,     \* how many rows table blocking has for the user
          switch,       \* switch_blockfriend.isChecked
          app,          \* UserInfo: BLOCKING, BLOCKINGNUMBER # ""
          granted,      \* the permission to read the contacts
          asking,       \* its dialog is open
          chain,        \* what each chain does and waits for
          late,         \* copies on their way that nobody waits for
          login,        \* what SplashActivity waits for
          messy         \* since the latest click, a request was lost or something overlapped

server == <<user, blocking>>
page == <<switch, app, granted, asking>>
vars == <<server, page, chain, late, login, messy>>

Copies == [flag : BOOLEAN, number : BOOLEAN]
Both(b) == [flag |-> b, number |-> b]

\* A request: flag is updateAlarm; on, first is updateReq and second insertReq;
\* off, first is deleteReq and second updateReq.
Step == {"first", "second"}
Request == [to : BOOLEAN, what : Step \cup {"flag"}]
Idle == [at |-> "idle", to |-> FALSE, try |-> 1, done |-> FALSE]
Running == [at : Step, to : BOOLEAN, try : 1..2, done : BOOLEAN]
Of(c) == [to |-> chain[c].to, what |-> chain[c].at]

\* Nobody waits for anything; and nothing is on its way either.
Done == login = "no" /\ \A c \in Chain : chain[c] = Idle
Quiet == Done /\ \A q \in Request : late[q] = 0

\* The copies that nobody waits for, one by one; and the bound, for n more.
OnTheWay == {copy \in Request \X (1..MaxLate) : copy[2] <= late[copy[1]]}
Room(n) == Cardinality(OnTheWay) + n <= MaxLate

Init ==
  /\ \E b \in BOOLEAN :
       /\ user = Both(b) /\ blocking = (IF b THEN 1 ELSE 0)
       /\ switch = b /\ app = Both(b)
  /\ granted \in BOOLEAN /\ asking = FALSE
  /\ chain = [c \in Chain |-> Idle] /\ late = [q \in Request |-> 0]
  /\ login = "no" /\ messy = FALSE

\* What the server does with a request.
Executes(q) ==
  /\ user' = CASE q.what = "flag" -> [user EXCEPT !.flag = q.to]
               [] q = [to |-> TRUE, what |-> "first"] -> [user EXCEPT !.number = TRUE]
               [] q = [to |-> FALSE, what |-> "second"] -> [user EXCEPT !.number = FALSE]
               [] OTHER -> user
  /\ blocking' = CASE q = [to |-> TRUE, what |-> "second"] -> blocking + 1
                   [] q = [to |-> FALSE, what |-> "first"] -> 0
                   [] OTHER -> blocking
  /\ blocking' <= MaxRows

\* Mutant: turning the switch on does not tell the server's row of the user.
BeginsSilently(b) ==
  \E c \in Chain :
    /\ chain[c] = Idle
    /\ chain' = [chain EXCEPT ![c] = [at |-> "first", to |-> b, try |-> 1, done |-> FALSE]]
    /\ switch' = b /\ UNCHANGED late
    /\ messy' = ~Quiet

\* updateAlarm, once or, with an answer that is late, twice; and the first
\* request of the chain.
Begins(b) ==
  \E c \in Chain, copies \in 1..2 :
    LET flag == [to |-> b, what |-> "flag"]
    IN  /\ chain[c] = Idle
        /\ chain' = [chain EXCEPT ![c] = [at |-> "first", to |-> b, try |-> 1, done |-> FALSE]]
        /\ Room(copies)
        /\ late' = [late EXCEPT ![flag] = @ + copies]
        /\ switch' = b
        /\ messy' = ~Quiet

\* The listener of switch_blockfriend, when the click turned it off.
TurnOff ==
  /\ switch /\ ~asking
  /\ Begins(FALSE)
  /\ UNCHANGED <<server, app, granted, asking, login>>

\* ... when it turned it on: checkContactsPermission.
TurnOn ==
  /\ ~switch /\ ~asking /\ granted
  /\ Begins(TRUE)
  /\ UNCHANGED <<server, app, granted, asking, login>>

\* Mutant: the switch stays on while the dialog is open.
AsksSwitchedOn ==
  /\ ~switch /\ ~asking /\ ~granted
  /\ asking' = TRUE /\ switch' = TRUE
  /\ UNCHANGED <<server, app, granted, chain, late, login, messy>>

\* ... without the permission, the switch goes back and the dialog opens.
Asks ==
  /\ ~switch /\ ~asking /\ ~granted
  /\ asking' = TRUE
  /\ UNCHANGED <<server, switch, app, granted, chain, late, login, messy>>

\* onRequestPermissionsResult.
Allowed ==
  /\ asking
  /\ asking' = FALSE /\ granted' = TRUE
  /\ Begins(TRUE)
  /\ UNCHANGED <<server, app, login>>

Denied ==
  /\ asking
  /\ asking' = FALSE /\ switch' = FALSE
  /\ UNCHANGED <<server, app, granted, chain, late, login, messy>>

\* onCreate, when the user comes back to the page: settingSwitch.
Opens ==
  /\ ~asking
  /\ switch' = app.flag
  /\ messy' = (messy \/ ~Quiet)
  /\ UNCHANGED <<server, app, granted, asking, chain, late, login>>
-----------------------------------------------------------------------------
\* The request that chain c waits for is executed.
Arrives(c) ==
  /\ chain[c] # Idle /\ ~chain[c].done
  /\ Executes(Of(c))
  /\ chain' = [chain EXCEPT ![c].done = TRUE]
  /\ UNCHANGED <<page, late, login, messy>>

\* Its answer is late, and it is sent again, once; the first copy is on its
\* way or executed.
SentAgain(c) ==
  /\ chain[c] # Idle /\ chain[c].try = 1
  /\ chain' = [chain EXCEPT ![c].try = 2, ![c].done = FALSE]
  /\ \/ chain[c].done /\ UNCHANGED late
     \/ /\ ~chain[c].done /\ Room(1)
        /\ late' = [late EXCEPT ![Of(c)] = @ + 1]
  /\ UNCHANGED <<server, page, login, messy>>

\* A copy that nobody waits for is executed.
LateArrives(q) ==
  /\ late[q] > 0
  /\ Executes(q)
  /\ late' = [late EXCEPT ![q] = @ - 1]
  /\ UNCHANGED <<page, chain, login, messy>>

LateLost(q) ==
  /\ late[q] > 0
  /\ late' = [late EXCEPT ![q] = @ - 1]
  /\ messy' = TRUE
  /\ UNCHANGED <<server, page, chain, login>>

\* The answer to the first request: send the second.
Answered(c) ==
  /\ chain[c].at = "first" /\ chain[c].done
  /\ chain' = [chain EXCEPT ![c] = [@ EXCEPT !.at = "second", !.try = 1, !.done = FALSE]]
  /\ UNCHANGED <<server, page, late, login, messy>>

\* The answer to the second: UserInfo.
Completed(c) ==
  /\ chain[c].at = "second" /\ chain[c].done
  /\ chain' = [chain EXCEPT ![c] = Idle]
  /\ app' = Both(chain[c].to)
  /\ UNCHANGED <<server, switch, granted, asking, late, login, messy>>

\* An error instead of an answer.  insertReq reports it as if it had worked;
\* the other listeners are empty.  The request may still be executed.
Fails(c) ==
  /\ chain[c] # Idle
  /\ chain' = [chain EXCEPT ![c] = Idle]
  /\ app' = IF chain[c].at = "second" /\ chain[c].to THEN Both(TRUE) ELSE app
  /\ \/ UNCHANGED late
     \/ /\ ~chain[c].done /\ Room(1)
        /\ late' = [late EXCEPT ![Of(c)] = @ + 1]
  /\ messy' = TRUE
  /\ UNCHANGED <<server, switch, granted, asking, login>>
-----------------------------------------------------------------------------
\* The process ends, as it does when the permission is taken back; what it had
\* sent may still arrive.  The application starts again: loginReq gives it the row, and if the row says so it
\* asks for the list.
Restarts ==
  /\ chain' = [c \in Chain |-> Idle]
  /\ app' = [flag |-> user.flag, number |-> FALSE]
  /\ switch' = user.flag
  /\ granted' \in {granted, FALSE} /\ asking' = FALSE
  /\ login' = IF user.flag THEN "asked" ELSE "no"
  /\ messy' = (messy \/ ~Quiet)
  /\ \E sent \in SUBSET {c \in Chain : chain[c] # Idle /\ ~chain[c].done} :
       /\ Room(Cardinality(sent))
       /\ late' = [q \in Request |-> late[q] + Cardinality({c \in sent : Of(c) = q})]
  /\ UNCHANGED server

\* The server answers getMyBlockingListReq with a row or with none.
LoginRead ==
  /\ login = "asked"
  /\ login' = IF blocking > 0 THEN "rows" ELSE "none"
  /\ UNCHANGED <<server, page, chain, late, messy>>

LoginReply ==
  /\ login \in {"rows", "none"}
  /\ app' = [app EXCEPT !.number = IF login = "rows" THEN TRUE ELSE @]
  /\ login' = "no"
  /\ UNCHANGED <<server, switch, granted, asking, chain, late, messy>>

LoginFails ==
  /\ login # "no"
  /\ login' = "no" /\ messy' = TRUE
  /\ UNCHANGED <<server, page, chain, late>>

Next ==
  \/ TurnOff \/ TurnOn \/ Asks \/ Allowed \/ Denied \/ Opens
  \/ \E c \in Chain : Arrives(c) \/ SentAgain(c) \/ Answered(c) \/ Completed(c) \/ Fails(c)
  \/ \E q \in Request : LateArrives(q) \/ LateLost(q)
  \/ Restarts \/ LoginRead \/ LoginReply \/ LoginFails

Spec == Init /\ [][Next]_vars
-----------------------------------------------------------------------------
\* The type invariant.
TypeOK ==
  /\ user \in Copies /\ blocking \in 0..MaxRows
  /\ switch \in BOOLEAN /\ app \in Copies /\ granted \in BOOLEAN /\ asking \in BOOLEAN
  /\ chain \in [Chain -> {Idle} \cup Running]
  /\ late \in [Request -> 0..MaxLate]
  /\ login \in {"no", "asked", "rows", "none"} /\ messy \in BOOLEAN
  /\ asking => ~switch

\* A click while nothing else is under way, of which no request is lost, ends
\* with all copies saying the same, whatever they said before and however
\* often and how late Volley's second copies of its requests are executed; and
\* they still do after a restart.  So one quiet click repairs what failures
\* and quick clicks have left behind.  All but user_blocking, which nobody
\* waits for (updateAlarm), agree as soon as the chain is done.
CopiesAgree ==
  Done /\ ~messy =>
    /\ app = Both(user.number) /\ (blocking > 0) = user.number
    /\ ~asking => switch = user.number
    /\ Quiet => user.flag = user.number
=============================================================================
