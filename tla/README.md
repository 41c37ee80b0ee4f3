# A verification project for *ilove*

*ilove* is a dating application: a Node/Express server over MySQL (`src/Server`), an Android client
(`src/Application`, Kotlin) and an iOS client (`src/IOS`, Swift).  The clients talk to the server
over HTTP and to each other through Firebase, which keeps the log of every chat and delivers push
messages; Google Play sells the application's candy.  The repository has no test of its own logic,
no database schema and next to no documents: what follows is read from the code.

The project has models of the parts, which TLC checks on small instances, and proofs, which TLAPS
checks, that the most important of their properties hold for any number of users, requests, rows,
pages or purchases.

1. [The system](#1-the-system) – parts, state, operations, what is hard, what is correct
2. [Modules](#2-modules) – which module stands for which code, and how
3. [Runs](#3-runs) – what each shows, its bounds and why they are enough
4. [Fairness](#4-fairness)
5. [Proofs](#5-proofs)
6. [Disagreements found](#6-disagreements-found)
7. [Not modelled](#7-not-modelled)
8. [Plan](#8-plan)

## 1. The system

### How the parts interact

    Android pages ──HTTP (VolleyService)──▶ app.js ▶ routes/* ▶ public/SQL/* ▶ pool ▶ MySQL
       │   ▲                                    (one process, one thread, restarted by supervisor)
       │   └── push message ◀── Firebase Cloud Messaging
       ├── log of a room ◀──▶ Firebase Realtime Database ◀──▶ the partner's page
       └── billing client ◀──▶ Google Play

Every page is written as callbacks on Android's main thread.  Callbacks of several requests share
the page's lists, the static `UserInfo` and the static lists of fragments; nothing is cancelled
when a page is left or refreshed, so replies arrive late, twice or in any order.  The server's
handlers are chains of SQL functions, each of which borrows a connection for one query: between two
queries of a handler any query of another may run, a query may fail, and an exception in any
callback ends the process.

Not all of the server that the clients use is in the repository: `app.js` mounts `/user`,
`/register`, `/chat_room`, `/wishlist`, `/payment`, `/view`, `/follow`, `/point` and
`/usertypechange`.  The routers of the likes (`expression`) and of inquiries are in the repository
but not mounted, the one of images does not even load, and `/chat/*`, `/user/db/*`,
`/user/update/candy|alarm` and `/expression/get/partner` exist on no router.  Some handlers that do
exist cannot serve this client: `/user/login` calls an SQL function there is none of, and
`/user/get/my/blocking` reads an array where the client sends an object; both throw.  The server
the clients were written for is evidently a later one.  The likes are modelled as if mounted, since
all clients call them; what is absent, or cannot answer, is external: it is modelled from how the
clients use it, and `Server` has the handlers as they are.

### Inventory

| Component | State | Operations | Hard | Correct when |
|---|---|---|---|---|
| Server process and pool (`app.js`, `bin/www`, `config/db_config.js`) | the connections, the queue of waiting callbacks, life of the process | receive, getConnection, query, release, exception, restart | queue limit, leaks, exceptions in callbacks, two branches of one handler | no task is forgotten, waits while a connection is idle, or waits for another in a circle |
| Routes and SQL functions (`routes/*`, `public/SQL/*`) | none | one chain per endpoint | how each chain ends: answers, falls silent, throws, has no callback | nobody is answered twice – one is (below) |
| Likes, wishes to meet, opened profiles (`routes/expression.js`, `user_sql.js`) | tables `expression`, `expressioneach`, the candy count | insert, delete, save/showprofile | check, then act, in separate queries; crash between them; a row of each of two tables | rows can be taken back; a charge has its row; mutual likes are mutual |
| User list (`ListFragment.kt`) | `userList`, `upProfileUserList` | sortTime, sortGps, each three requests | two refreshes fill and filter one list | the hidden stay hidden, the order is one of the orders asked for |
| Blocking switch (`AlarmSettingActivity.kt`, `SplashActivity.kt`) | five copies of one flag in client and server | turn on, permission, turn off, start | chain of requests, Volley's second copy, restart | the copies agree |
| Chat of a room (`ChatActivity.kt`, `ChatAdapter.kt`) | the page's list, the log, the server's rows | send, answer, added, changed, open, leave | late answers, local echo, page gone, process gone | stored once, each speaker in order, read marks have a ground |
| Room list (`MessageFragment.kt`, `ChatRoomAdapter.kt`) | `chatRoomList` | refreshList, from resume and push | N+1 replies per refresh, overlapping refreshes | nobody missing or out of date |
| Buying candy (`BillingModule.kt`, `PSDialog.kt`) | Play's purchase, the server's count, `CANDYCOUNT` | open, accept, purchase told, update, consume | every module is told, repeats, pending purchases, crash | the three ledgers agree |
| Signing up (`SignupActivity.kt`, `PSDialog.kt`) | rows, columns, the stack of dialogs, one static choice | save, a dialog per question, the update that lets the user in | dismissal by whichever answer comes, failures taken for success | who is let in has answered, each column its own question |
| Visit history (`expression.js:203`) | table of visits | check, then insert or update | two visits at once are never answered again | a visit is counted once and answered |
| Like buttons, partner page (`PartnerActivity.kt`, `UserListAdapter.kt`, …) | `like`, `meet`, the button, the item of a list | tap, refresh, draw again | tap while an answer is out, failed answers, an item no tap changes | button and rows agree when all is quiet |
| Channels (`ChannelFragment.kt`) | eight lists | eight chains like the user list's | the same filter, one list each | as for the user list |
| Stories (`StoryActivity.kt`, `StoryFragment.kt`, `image.js`) | likes' rows and a count | like, unlike, view | two queries, a count beside the rows | count = rows |
| Opening a room (`PartnerListAdapter.kt`, `PSDialog.kt`) | rooms, subscriptions | check, create, subscribe | both users create | one room per pair |
| Start and login (`SplashActivity.kt`, `StartActivity.kt`, `PSDialog.kt`) | the ID in the preferences, rows of the user | check of the number, login, the process that dies | a process that dies between two inserts, answers it does not know | who is known has both his rows – he has not (below) |
| Editing a profile (`EditProfileActivity.kt`) | texts of the page, updates, columns of the user | load, one dialog and update per option, leaving | a late load, late answers, a page that decides by its texts | who is enabled has answered, the page shows what is stored |
| Settings, items, inquiries | columns of the user | one request each | – | – |
| Place and time (`GpsTracker.kt`) | – | distance and time as text | boundaries of units | total, and monotone in the time |
| iOS client (`src/IOS`) | as Android's, fewer features | as Android's | a busy wait, buttons that turn on a failure | as Android's |

The steps at which this can go wrong are listed, at their lines, under `hazards` in `PROJECT.json`,
each with the properties that watch it or the reason why none does.

## 2. Modules

| Module | Stands for | Proofs |
|---|---|---|
| `Server`, with the table `Routes` | the Node process, the pool and every endpoint | `ServerProofs` |
| `Expression` | `/expression/insert`, `/delete`, `/save/showprofile`, `/insert/history`, query by query | `ButtonsProofs` |
| `Buttons`, beside `Expression` | the hearts and call buttons of `PartnerActivity` and the lists, and the tap that opens a profile | `ButtonsProofs` |
| `UserList` | `ListFragment`'s two refreshes and the filter | `UserListProofs` |
| `Chat` | `ChatActivity` and `ChatAdapter` of both users of a room | `ChatProofs` |
| `ChatLog` | what `Chat` promises: an abstract log that two readers see | `ChatProofs` |
| `RoomList` | `MessageFragment.refreshList` | `RoomListProofs` |
| `Rooms`, beside `RoomList` | checking and creating a room, from a page and from the dialogs of Android and iOS | `RoomListProofs` |
| `BlockSwitch` | `AlarmSettingActivity`'s switch, `SplashActivity`'s reading | `BlockSwitchProofs` |
| `Billing` | `BillingModule` and the dialog that opens it | `BillingProofs` |
| `Signup` | `SignupActivity`'s button and `PSDialog`'s questions | `SignupProofs` |
| `Entry`, around `Signup` | `SplashActivity`, the check of `StartActivity`, `EditProfileActivity`, and the process that dies | `SignupProofs` |

Each `MC…` module extends one of these with symmetry sets or values for its constants.  Operators
whose comment begins with *Mutant* are variants of a definition with a plausible bug; they are
there to show that the properties tell the difference, and no specification uses them.

**Server.**  JavaScript runs a callback to its end, so an action is one turn of the event loop: a
handler (`Receive`), a `getConnection` callback with a connection (`Query`) or without one
(`Denied` when the queue was full, `ConnectFails` when MySQL refused), the callback of a query
(`QueryOk`, `QueryFails`), the supervisor (`Restart`).  What a handler *is* comes from `Routes`: a
handler starts at most two branches, a branch is a sequence of SQL functions and an ending.  Of an
SQL function only its treatment of the connection matters (`Shapes`): nearly all release it in the
query's callback; `check_chat_room` never does, `get_point` and `get_usertype` do so before they
query, and only `chat_room_sql.js` looks at `getConnection`'s error.  A choice that depends on data
(an empty result whose first row is indexed) is a set of alternatives.  When the handler returns the
client has been told nothing, or has its answer, or the error handler of `app.js` has answered for a
handler that threw (`Told`); the branches it had started go on all the same, and one of
`chat_room`'s `/` answers once more.  `pool` is the package
`mysql`: idle connections first, then a queue in order, then an error; it is external.

**Expression.**  An action is one query *with its callback*.  A request remembers which query it
has sent; `Fails` answers it with an error, `Crash` ends the process and leaves the queries that
were sent as orphans, which MySQL may still execute and nobody hears of.  No table has a key, so
the state is how many rows a key has; a visit is a row of `viewhistory` and goes through a check of
its own.  `/insert` really asks for the *user's own* rows where it means the partner's (section 6);
and the insert of a first like passes its callback in the place of the date and no callback, so
that what follows the query ends the process (`InsertFirst`).

**Buttons** extends `Expression` with the client.  A tap (`Send`) asks for what the button's state
says; a page's button changes with the answer (`Reply`), a `LikeButton` of a list at the tap.
Nothing keeps a second tap from coming before the first is answered, or a first one from coming
before the page has read its state (`reading`); Volley sends a request again (`SentAgain`) or gives
up (`GivesUp`); and a `LikeButton` turns although nothing is sent, for a user whose profile is not
complete (`TapLost`).  The page or the list may be opened anew at any time (`Opens`): what was asked
for goes on and may be sent again, but its answers reach a page that is gone (`gone`).  A list is
asked again only by a refresh (`Refreshes`), during which the old one can be tapped.  Its adapters
set the button from the stored item whenever a row is drawn (`Rebinds`), and no tap changes the item
(`item`); a page that is closed uncovers the list as it was left, drawn again or refreshed meanwhile
(`Returns` takes any state of it).  `disturbed` remembers that one of these happened since the page
or the list was opened, and made, or may make, a difference.  The server's queries are those of
`Expression`, and `ButtonsKeepTables` proves that the composition takes no step `Expression` does
not know.

**UserList.**  A refresh is a chain of three replies; the third is split into the server's reading
(`ServerReads`) and its arrival (`BlockingReply`).  All partners are in each answer, so a list is
its order and whom it lost.  A name removed twice throws from `iter.remove()` and ends the
application (`Throws`, `AppDies`).  `since` remembers who was hidden without a break
since the latest refresh began, and `lost` that a chain ended without its reply; they are history,
for the properties only.

**Chat.**  `Click` sends, `Store` is the server, `Reply` the answer that writes to the log,
`Commit` Firebase, `Added` and `Changed` the listeners of a page.  A page shows its own write at
once (`Tell`) and other writes in the order of the log.  A send whose page is gone (`fresh` is
FALSE) is answered on a page whose `ref` is null: `LateReply` ends the process, and with it all
writes that are not in the log yet.  `Close` and `Open` may happen at any time; a page without its
image that has to show a message hangs (`chatConversation` waits on the thread that would bring the
image).

**RoomList.**  `Refresh` clears the list and asks; `RoomsReply` asks for an image per room;
`ImageReply` adds the row and sorts.  Because a sort follows each insertion, the list is a set of
rows.

**Rooms** extends `RoomList`: a row of the list is there because somebody created its room.  A page
checks and then creates (`Check`, `ServerChecks`, `CheckReply`, `ServerCreates`, `CreateReply`), a
dialog creates at once; Volley repeats a creation.  The iOS page spins until another thread brings
the answer.  Several rooms may be created for one pair, and the list shows them all.

**ChatLog** is the abstract specification of a room: messages are stored by a second, logged once
in an order, and read.  `Chat` refines it (`LogSpec`): the run checks it and `ChatImplementsLog`
proves it.

**BlockSwitch.**  The five copies are the switch, `UserInfo.BLOCKING` with `BLOCKINGNUMBER`, two
columns of the user and the rows of table `blocking`.  A change is `updateAlarm`, which nobody
waits for, and a chain of two requests; Volley sends a request again when its answer is late, and
the first copy stays on its way (`late`).  `messy` remembers that something was lost or overlapped
since the latest click.

**Billing.**  Each dialog has a `BillingModule`, which hears of each purchase as long as the
process lives.  A notice – module, purchase, and whether it was reported while pending – goes
through told, sent, done, over; `Success` is the answer and adds the module's *present* `candyCount`.
`Dies` ends the process with everything under way; copies on the wire are still executed.

**Signup.**  A tap of the button starts a chain: a row in `user`, a row in `useroption`, one dialog
per question, an update that enables the user.  `PSDialog.userOptionData` is one static field for
all dialogs (`data`).  The answer to an update dismisses whatever dialog its `PSDialog` shows by
then, and the dismissal asks the next question.  The code's `insertReq` reports an error as success
(0), so the chain goes on without its row (`ready`).  Each request may be executed at any time
after it was sent (`Executes`, `Store`).  An option is a question's own; where several may be chosen
(`Several`) the adapter empties the text and puts it together again at every tap, so that taking the
last one back leaves the empty text (`Choices`).  How many options two of the questions ask for is
not counted: of a choice `Answer` requires only that there was one.
`Dies` ends the process: of a chain nothing is left but the requests it had sent (`Abandoned`), which
may still be executed.  `Elsewhere` is what other parts of the application may do to the static
choice, the columns and `user_enable`; `Entry` says what they do.

**Entry** extends `Signup` with the way in and back.  `at` is the activity on top.  The check
(`CheckRead`, `CheckReply`) counts the rows of `user` and sends a user to the login and anybody else
to the form; the login (`LoginReply`) knows the codes 3 and 0 – with any other code, that of a
timeout included, the user stays where he is.  `FormStep` takes the steps of `Signup`: the user's
with the form on top, the callbacks at any time.  The edit page loads the stored options (`OpenEdit`,
`OptionsRead`, `OptionsReply`) and may be used before they arrive; an option is chosen in a dialog
(`Ask`, `Choose`), sent (`SendEdit`), executed (`EditStore`) and heard of (`EditStored`), which shows
the static choice *of that moment* and dismisses the dialog *of that moment*.  When the user leaves,
`checkIncomplete` enables him if no text is the layout's "please choose" (`BackEdit`), and `Cancel`
disables him; nobody waits for either update (`leaving`).  The page has fewer questions than the form
(`OnPage`): `checkIncomplete` looks at 26 texts, of which none is for `user_language`.  The page may
be opened again while updates of an earlier visit, or of the form, are still on their way; `finish()`
cancels nothing.  `late` remembers that one of these was executed after the page's options were read.
`Die` restarts at `SplashActivity`, or, if
no ID was kept, at `StartActivity`.  `/user/get/option` of this repository sends an array where the
client expects an object; `OptionsRead` is external like the other endpoints that cannot answer.  Of
the gender, whose text is made from the letter that was stored, only that it is an option is told.

## 3. Runs

| Run | Module, configuration | Shows | Distinct states |
|---|---|---|---|
| `server` | `MCServer` | the pool's bookkeeping, single answers, leaks, and that tasks end | 13 482 |
| `expression` | `MCButtons` | an undisturbed button shows what the tables hold; piles of rows are never taken back, and then no tap does anything; no charge without its row | 1 638 945 |
| `expression_mutual` | `MCExpression`, `…Mutual.cfg` | violation: one user's likes make a mutual like | about 90 |
| `user_list` | `MCUserList` | after overlapping refreshes nobody hidden is listed, in one order | 2 117 710 |
| `chat` | `MCChat` | stored once, speaker order, read marks, the abstract log, and that messages get read | 303 912 |
| `chat_blank` | `MCChat`, `…Blank.cfg` | violation: an empty message in the log | 60 |
| `chat_wait` | `MCChat`, `…Wait.cfg` | violation: the wait for the image does not end | 459 |
| `room_list` | `MCRooms` | every room, as new as the latest refresh could know; one room for a pair; taps end | 576 520 |
| `block_switch` | `MCBlockSwitch` | one quiet click makes five copies agree | 2 759 108 |
| `billing` | `MCBilling` | what is consumed was credited; ledgers; what is abandoned stays so | 1 282 383 |
| `billing_pending` | `MCBilling`, `…Pending.cfg` | violation: candy for a purchase not paid | about 60 |
| `signup` | `MCEntry` | from the first start to the edit page, through crashes: missing answers are accounted for, columns and texts get their own options, who is enabled has answered, half a user stays half | 6 601 270 |

The four small runs are refutations, which stop at the first counterexample.

### What the properties say, and the bounds

**server.**  `OneClaim`, `NoForgottenTask` and `NoLostWakeup` are what makes the pool's sharing
work: a task holds one connection, or one place in the queue, or waits for its error; each
unfinished task is on exactly one such list or has a query out; the queue is empty while a
connection is idle.  So tasks never wait for one another in a circle, although handlers chain and
fork.  `OneAnswer` is about the endpoints: in every chain of `Routes`, whoever may still answer is
the only one of the handler, and a second answer can only follow that of the error handler.  This
happens: `chat_room`'s `/` throws with both its queries under way, and `get_room_info`'s callback
sends its row after the client was told of the error (the second `send` throws in turn, and ends the
process).  `ServerRoutesNoSecondAnswer` proves that no other endpoint does it.  `LeaksUntilRestart` and `TaskEnds` are the two sides of `chat_room/check`: what it
leaks is gone until a crash, and unless something leaks every task ends.  Two requests with up to
two branches each want four connections, of two, with one place in the queue: connections are
shared, the queue is used in order and overflows into `denied`.  All endpoints are in the instance,
mounted or not.  A request may be used again when it is over, so behaviours have no end.

**expression.**  Two requests at a time; rows or requests of a visit and an opened profile
together, or of a like alone (`Together`); at most two rows of `expressioneach` (`MaxEach`), one
opening (`MaxShows`).  Two requests are enough for every check-then-act race.  Keys share nothing
but the process, whose end takes all requests, and the deletion that takes the partner's rows of
`expressioneach` of every type along; the instance `expression_mutual` has both directions.  Rows
are not bounded: a handler inserts at zero and one row only, so that two requests reach three.
`StuckStays` and `FrozenStays` are the strong form of a complaint: once a key has two rows and no
deletion is past its check, no sequence of taps, errors, crashes and orphans brings it under two,
and no tap changes a page's button or opens the profile any more, since the handlers do not even
answer.  `AgreesUnlessDisturbed` and `OneVisit` say what it takes to get there: overlapping taps, a
tap before the page knows its state, a repeated request, a lost answer; and, in a list, a tap for
which nothing is sent, a row drawn again from an item that is out of date, a list found under a page
on which something was tapped.  Of two refreshes of a list at a time the model follows the last
reply; the button counts as disturbed from then on.  `NoChargeWithoutShow`
counts, per profile: charges and charges under way never exceed the rows that were written for
them, although either query may be lost with the process.

**user_list.**  Three refreshes at a time and two partners, the rows of whom come and go.  Two
chains show a refill that exposes what another has filtered; the third one begins in the middle.
Two rows of one partner are the number at which the second removal throws.

**chat.**  Two messages, two seconds, three openings of a page.  Two messages of one second are
what tells a message from its second (`ReadInSecond`), two of one user or of both what an order is
about, and the third opening lets a page be left and opened again while messages are on their way.
`LogSpec` is the abstract log: stored before said, said before logged, logged before read, each at
most once and none taken back, and a message that another of its speaker has overtaken never comes.
It contains `StoredOnce`, which is proved and has no check of its own.

**room_list.**  Two refreshes of the list, two taps that open a room, two rooms, times up to 2
(absent, silent, one chat), so that a room may change, or come to be, between the readings of the
two refreshes.  `FreshWhenDone` and `OnceUnlessOverlap` are about the list.  `OneRoomUnlessRaced`
says that the page's check is enough as long as taps do not overlap, no dialog creates a room
without looking and Volley does not repeat a creation; each of these makes two rooms for one pair,
and two rooms are all it takes to be wrong.  `TapEnds` is a liveness property, which is why the run
has no symmetry: a tap ends, on iOS possibly in a page that spins for good, which only a request
that failed can bring about.

**block_switch.**  Two chains at a time, two rows, up to three late copies.  Two chains overlap in
all ways two steps can; a third would begin only after a further click, and `messy` already is
TRUE.  More than two rows behave like two: `deleteReq` removes all, and the rest asks for "any".

**billing.**  Two dialogs, two amounts, one purchase, two late copies of each update.  One purchase
is enough for what is told twice (paid at once or pending and later paid, to two modules); Play
does not sell a second one before the first is consumed, and amounts that differ show whose amount
was added; `BillingLedgersAgree` covers any number.  `LedgersAgree` is conditional, and its conditions are the ways in which the ledgers
really come apart: a failure, a repeated update, a notice to two modules.  A repeated update is
added twice by the server and once by the application; two modules credit one purchase twice.
`AbandonedStays` is an action property about crashes: a purchase that was paid and that no module
has in hand any more – the process ended, or an update or a consumption failed – is in nobody's
hand ever after, since `BillingModule` asks Play for open purchases nowhere.

**signup.**  Two taps of the button, two questions of two tables, one of them with several options,
both also on the edit page; two updates of the form at a time and one of the edit page; one hasty
tap.  With three questions or two hasty taps the dialogs nest deeper, but a chain's dialogs are
handled alike, and the proofs cover any number.  In the instance the page has the form's questions:
with a third one that it has not there are more than twenty million states.  Further bounds are in
the guards of `Entry`, and named there: one form at a time, and not `SplashActivity` above the edit
page.  `MaxTaps` = 1 and `MaxLeft` = 0 keep the two users of `PSDialog`'s static choice apart in the
run: the form of a user who opens the edit page had one tap of its button, and no update of the form
or of `user_enable` is out when the page opens – those of an earlier visit of the page may be, also
unheard of.  The theorems hold for any `MaxTaps`, `MaxLeft`, `EditTap` and `OnPage`; that two taps of
the form put an option under a question of the page (`Tapped` in `TextBelongs`) is proved and not run.
`HalfStays` is an action property about a crash: with a row in `user` and none in `useroption`, and
the form gone, no sequence of starts, logins and edits brings the second row.  `EnabledIsAnswered`
relates what `checkIncomplete` sees, the texts, to what the database has: whom the page enables has
an answer stored to every question *of the page*, although a text may be that of a late load, of
another dialog's choice, or empty; it fails only for a user without his second row (`blind`), whose
updates succeed and store nothing.  The language, which only the form asks, may have been skipped
there with the back key: its column then stays NULL for a user who is enabled.  `PageKnows` is the
other direction: a stored answer is shown, so that leaving the page does not disable its user, unless
an answer to an update was an error (`unheard`), or an update that is not this visit's own was
executed after the options were read (`late`): the page is left with an update out, opened again, and
reads too early.  `TextBelongs` says what it takes to show an option under a question it does not
belong to: haste, or two chains of the form.  The empty text is no such option where several may be
chosen: one that is taken back while the update is out leaves it, and it passes for an answer.  There
is no liveness: any request may fail, and a login that fails with another code than 0 leaves the user
on `SplashActivity`.

No run constrains the state space other than by the bounds named as constants.  Deadlock is checked
in `room_list`, `block_switch`, `user_list`, `chat`, `expression` and `signup`, which never stop; it
is off where the system may really be done: `billing` (no purchase left) and `server`
(all requests are over and nobody sends another).

The types of what is composed with a module that has one already (`ButtonsTypeOK`, `RoomsTypeOK`,
`EntryTypeOK`) are proved and have no check of their own.

Each property of a passing run has a mutant in `PROJECT.json`: a change of the model as a bug would
make it (a dropped guard, a connection not returned, an answer handled twice, a query not waited
for) under which TLC finds the property violated.

## 4. Fairness

Only three runs need any.  `Server.FairSpec` has weak fairness of the steps of each task
(`Progress`): Node's event loop delivers every callback that is due, and MySQL ends each query with
a result or an error.  Nobody has to send requests, and nothing is assumed of the supervisor.
`Chat.FairSpec` has weak fairness of `PageStep` – Android's main thread handles what is queued for
a page – and of `Commit`: Firebase's client repeats a write until it is in the log.  Users need not
type, stay or open, and the server need not answer.  `OpenPagesRead` therefore claims something
only for messages already written and while both pages stay open, which is what the code can
promise.  `Rooms.FairRoomsSpec` has weak fairness of `Answered(o)`, the steps of one tap that the
server, the network and the page's callbacks take; a request may fail instead, which ends the tap
as well.  Other liveness – every refresh ends, every dialog is answered – is not claimed: Volley's
requests may all fail, and most error listeners are empty.

## 5. Proofs

A theorem below holds for all values of the constants that satisfy the assumption named in its
module.  The assumptions say that bounds are numbers, that a mark is no user, and that the requests
of `Expression`, the chains of `BlockSwitch` and the modules of `Billing` are finitely many, without
which they could not be counted.  A further hypothesis is part of the theorem's statement: of
`ServerOneAnswer` and `ServerNoLeak` the condition on the table of handlers, which
`RoutesOneSender` and `RoutesCareful` discharge, and of `ServerQueriesBounded` that the connections
are finitely many.

| Theorem | Says |
|---|---|
| `ServerTypeCorrect`, `ServerOneClaim`, `ServerNoForgottenTask`, `ServerNoLostWakeup` | the pool's bookkeeping for any number of requests and connections, any queue limit and **any table of handlers** |
| `ServerLeaksUntilRestart` | a leak lasts as long as the process |
| `ServerOneAnswer`, `RoutesOneSender`, `ServerRoutesOneAnswer` | for any table in which one place of a handler answers, a second answer only follows that of the error handler; the table of this program is one, mounted or not |
| `ServerNoSecondAnswer`, `ServerRoutesNoSecondAnswer` | if besides no handler throws with a branch under way that answers, nothing is answered twice at all; of this program that is every endpoint but `chat_room`'s `/` |
| `ServerNoLeak`, `RoutesCareful`, `ServerRoutesNoLeak` | without leaky functions no connection is ever lost, and `chat_room/check` is the only endpoint that has one |
| `ServerSomeoneMoves`, `ServerServesInTurn`, `ServerQueriesBounded` | while one connection is left the tasks never all wait; nobody is overtaken in the queue; the pool bounds the queries under way |
| `ExpressionTypeCorrect`, `ExpressionStuckStays` | for any users and requests; counts never go below zero, piles stay |
| `ExpressionNoChargeWithoutShow` | for any users, requests, crashes and orphans: every charge has its row |
| `ButtonsKeepTables`, `ButtonsTypeCorrect` | the client beside the server takes no step `Expression` does not know, so the theorems above hold of the composition; its type |
| `ButtonsFrozenStays`, `ButtonsOneVisit`, `ButtonsAgreeUnlessDisturbed` | for any clients, taps, requests, failures and crashes |
| `UserListTypeCorrect`, `UserListHiddenWhenDone`, `UserListOrderWhenDone` | for any number of partners and overlapping refreshes |
| `ChatTypeCorrect`, `ChatStoredOnce`, `ChatReadInSecond`, `ChatSpeakerOrder` | for any number of messages, seconds and openings |
| `ChatImplementsLog` | `Chat` implements the abstract log of `ChatLog` |
| `RoomListTypeCorrect`, `RoomListFreshWhenDone`, `RoomListOnceUnlessOverlap` | for any rooms and refreshes |
| `RoomsKeepList`, `RoomsTypeCorrect`, `RoomsOneRoom` | the taps beside the list implement `RoomList`; for any number of taps, failures and late creations |
| `BlockSwitchTypeCorrect`, `BlockSwitchCopiesAgree` | for any number of chains, late copies and rows |
| `BillingTypeCorrect`, `BillingConsumedIsCredited`, `BillingAbandonedStays` | for any dialogs, amounts and purchases |
| `BillingNeverAhead`, `BillingLedgersAgree` | the sums, for any dialogs, amounts and purchases |
| `BillingPaidUnlessPending` | without pending purchases the claim that `billing_pending` refutes is true |
| `SignupTypeCorrect`, `SignupSkipsAreHasty`, `SignupAnswersBelong` | for any number of taps, questions and updates |
| `EntryKeepsSignup` | `Entry` takes no step `Signup` does not know, so the three above hold of it |
| `EntryTypeCorrect`, `EntryHalfStays`, `EntryEnabledIsAnswered`, `EntryPageKnows`, `EntryTextBelongs` | for any number of taps, questions, updates and crashes |

Each is the usual argument, `Init => IInv`, `IInv /\ [Next]_vars => IInv'`, `IInv => Inv`; the
strengthenings are where the work is:

* **Server**: `TypeOK /\ PoolOK(pool) /\ TasksOK`.  `PoolOK` is `OneClaim` and `NoLostWakeup` with
  the disjointness of the lists, `TasksOK` says that exactly the active tasks have a claim or a
  query.  Each operation of the pool gets a lemma that says what it does for its task and that it
  changes nothing for the others (`GetConnectionOK`, `ReleaseOK`, `LeakOK`, `DeliverOK`); the steps
  are then compositions of these, also the step that releases and asks again at once.
  `OneAnswer` is split in two.  For any table, a task that will answer is the only one of its
  request, whose client was told nothing yet, or only of an error (`OneReplies`), if every handler of
  the table has one place that answers (`OneSender`); and that is shown of the table of `Routes`,
  router by router.  Both have as a parameter what the client may have been told: with "open" alone
  the same argument is that of `NoSecondAnswer`.  In the same way a
  connection is lost only by a function that is `leaky`, and the routers are looked through for
  these (`Careful`).  `ServerNoLeak` is the hypothesis of `TaskEnds`, and `ServerSomeoneMoves` and
  `ServerServesInTurn` are what `TaskEnds` rests on besides fairness: no circle of tasks that wait,
  and no task that others pass by.
* **Expression**: `StuckStays` is about a step.  `StepShape` states what any step can do – rows
  only decrease by a request that is at its `delete`, which comes only from `deleteEach`, which
  comes only from a check that saw exactly one row – and is proved of every action together with
  `TypeOK`.  `NoChargeWithoutShow` counts per profile: charges, charges under way and charges still due are at
  most the rows written (`KindOK` says which queries may be out for a key, `ChargeStep` what each
  step does to the count).
* **Buttons**: every step of the composition is a step of `Expression` or a stutter; its type needs
  besides that a tap that waits is answered by a request of its own kind and key (`WaitsOK`).
  `OneVisit` and `AgreesUnlessDisturbed` are proved key by key.  A request for a key that is not
  disturbed begins only when no other is open (`UndisturbedTables`), and `disturbed` ends only with
  the page or the list opened anew (`DisturbedStays`), with nothing under way for the key.  A visit then has one request, which inserts only into an
  empty history (`VisitOK`).  A button has one tap, and while it waits, the rows are what the button
  showed *before* the tap, until the query that changes both (`Tapped`, `LikeOK`); a list that asks
  again, or is uncovered, undisturbed does so with nothing under way (`LikeListed`): this is the
  relation between client and server that the run's property leaves out, since it only looks when
  nothing is under way.  `FrozenStays` needs that no request for a frozen key is past its check
  (`FrozenTables`); a check that counts two rows leads nowhere and is not answered.
* **UserList**: unless a reply was lost, whoever is hidden and still listed will be removed by a
  chain that is still to come (`Exposed`), and if the list is not in the order of its source a chain
  is still to refill it (`WillRefill`).  `SinceOK` ties the history variable to the rows.
* **Chat**: every send without an answer has no message yet (`Unanswered`), and whatever is queued
  anywhere – writes, events, items of a page – speaks of messages that exist, are where it says
  they are, and, if it says "read", have a ground in the log (`Flow`).  The bound on the log is a
  pigeon-hole argument (`Pigeons`): messages inject into sends.
  Speaker order and the refinement rest on `InOrder`: what a client has on its way to the log comes
  after what the log has of its user, and what a page is going to show after what it shows.  Then
  each action of `Chat` is one step of the abstract log, whose `said` is `msgs`, or a stutter:
  `Store`, `Reply` and `Commit` are the steps, all others stutter.
* **RoomList**: each room is listed or some refresh still carries it, recently enough (`FreshInv`);
  without overlap one refresh runs, and what it carries is not in the list (`OnceInv`).  `Rooms`
  refines it, and without a race there is one tap under way, which looked, and created nothing
  if a room was there.
* **BlockSwitch**: `TypeOK /\ (~messy => Clean)`.  `Clean` is one condition for each stage of a
  click: whatever is on its way asks for what the switch shows (`SameTarget`); the flag has arrived
  or is on its way (`FlagComes`); at most one chain runs and has done what it was answered
  (`OneChain`); without one the copies agree, or the login is about to make them (`Settled`,
  `LoginOK`).  An action either makes the state messy, begins a click from a quiet state, or keeps
  each part.  The type needs a count: the copies on their way, taken one by one (`OnTheWay`), have
  room for those that a step adds (`RoomOK`).
* **Billing**: an answer, or a consumption under way, is preceded by an executed update
  (`Answered`, `Consuming`).  The ledgers are sums over notices and purchases.  A sum is the number
  of elements of a set of pieces of candy (`Units`), so that what a step does to it is a fact about
  finite sets (`UnitsAdd`, `UnitsRemove`, `UnitsSame`).  With `Due` the candy of the answers still
  to come and `Unsent` that of the updates still to be executed, `NeverAhead` is
  `CANDYCOUNT + Due <= candy` (`Ahead`), and `LedgersAgree` is `candy + Unsent` = what was chosen and
  `CANDYCOUNT + Due = candy` (`Agree`), each under its condition.  Both need that the amount a
  module would add now is the one its update carries (`Priced`), which is where a pending purchase
  breaks them, and what Play may have told whom (`Records`).  `BillingPaidUnlessPending` needs that
  each update, a late one too, goes back to a notice (`Grounded`).
* **Signup**: for `SkipsAreHasty`, `Flow` relates where a chain is to the updates it may have out,
  and `Budget` counts: the questions a chain has passed without an answer stored, plus the updates
  out for them in excess of the one that is due, never exceed its hasty steps.  For
  `AnswersBelong`, with one chain the static choice and every update carry the chain's own question.

* **Entry**: every step is a step of `Signup`, some of them its `Elsewhere`, or a stutter; for that
  `Base` has the type of `Entry`, and that no chain of the form is under way beside the edit page.
  `EnabledIsAnswered` needs, of every text that is set and every update that was executed, that the
  question has an answer stored (`Answered`), and that no stored answer is ever taken back
  (`StoredStays`).  For `PageKnows`, a stored answer is on the page, or in the load, or in an update
  whose answer is still to come (`Heard`), unless the page is `late`.  For `TextBelongs`, without haste one update is out, for
  the dialog that is open (`Belongs`), and the columns a load reads are in order (`OwnOptions`, from
  `SignupAnswersBelong`).

With this every invariant and every action property that a passing run checks is stated by a
theorem.  Only model-checked are the liveness properties `TaskEnds`, `OpenPagesRead` and `TapEnds`
– liveness under fairness is beyond the prover – and that the systems of
the six runs named in section 3 are never stuck, which is a statement about `ENABLED`.  The four claims that the runs refute are, of
course, not proved; `BillingPaidUnlessPending` says under which condition one of them would hold.

## 6. Disagreements found

* **A mutual like of one** (`expression_mutual`).  `/insert` passes (partner, user) to
  `check_expression_data`, which compares its first parameter with `partner_id`: it finds the
  user's *own* rows.  A second like of the same user writes the row of `expressioneach` which the
  channel page presents as a like by both.
* **The message that is sent is not the one in the log** (`chat_blank`).  The answer to the send
  writes what the box holds by then; the click has emptied it.
* **A page waits on the thread that would end its wait** (`chat_wait`).
* **A pending purchase is taken for a payment** (`billing_pending`).

Two more were seen while the properties were found, and are conditions of them now: a sender's page
marks *all* his messages of one second as read when one was (`ReadInSecond` says what is left), and
an update of candy that Volley repeats is added twice by the server (`LedgersAgree`).

## 7. Not modelled

* What SQL text does beyond rows and counts, and escaping; formatting, layout, colours and wording.
* The order of rows *within* a list (distance, time): a list is all partners in one order.
* In `Signup` and `Entry`: the form's checks, the photo, which and how many options of a question are
  chosen (with fewer than two of some, the dialog stays), the list of options of a dialog that
  another covers – the upper one has cleared it, and a tap in the lower throws; the model lets it
  choose –, `parenting`
  (a question no chain reaches), the SMS and its number, the permission and the place
  `SplashActivity` asks for, and on the edit page the introductions, the photos and their upload.
  In `Billing`: the list of products.  In `BlockSwitch`: the other
  switches of the page (one request each) and the branch for systems before Android M, which the
  minimum version excludes.
* Google Play, Firebase, Volley, `mysql` and Express are external: only what the code relies on
  is there.
* The endpoints that are in no router (section 1) are modelled as the clients expect them to be:
  they do what their name says, or fail, and answer or not.
* Of `Buttons`: the rest of the partner's page (its fields, images and the layout of its tags,
  `setLayout`), the pictures and messages of an answer, and the list that is under a page: what becomes
  of it meanwhile is any state, when it is seen again.  While a list is asked again, the rows and the
  adapter on the screen share the list that the second reply clears and refills
  (`ListFragment.kt:133-153`), and a tap finds its user by position: it may then be for another user
  or throw.  The model takes a tap as that of the row's user; a button tapped during a refresh counts
  as disturbed.
* Parts without a module are listed in `PROJECT.json` with their reasons: most are planned (below);
  pages that show one request's result, drawing, templates, leftovers and vendored code are not.

**How much of the code this is.**  Of the 51 681 lines of JavaScript in the repository some 45 000
are `mdb`, `jquery`, `bootstrap` and `popper` under `src/Server/public/js`, copies of published
libraries.  `common.js` and `component.js` beside them and `lib/view.js` are leftovers of another
project: no page or route of this one uses them.  Some 2 400 lines are the server's own, and two
thirds of these are modelled; the rest are the routes and SQL functions of inquiries, items and
settings, one query each, which `Server` has as rows of its table without their data, and
`image.js`, which does not load (`multer` and `path` are not declared) and hands
`insert_expression_data` a date where the callback belongs.  The program's own logic is in the
clients, in Kotlin and Swift, and the larger part of the modules is about these.

## 8. Plan

Done so far, in this order: the pool and the routes; likes and opened profiles, then visits and the
buttons of the clients beside them; the user list; chat and the abstract log it implements; the
list of rooms, then how rooms come to be; the blocking switch; candy; signing up, then the start,
the login and the edit page around it.  What is left, in order of what is at stake:

1. **StoryLike** – the count and the rows, two queries, and the page's own count.
2. **Place and time** – `timeDiff`, `getDistance` and the adapter's variant, as functions against a
   reference definition; total and monotone over the boundaries of their units.
3. **Channels** – the filter of `UserList` for eight lists, as instances.
4. **Photos** – the upload from the form and the edit page, and `/register`'s two queries at a time.
5. **iOS** – `ChatView` and the like buttons as variants of the Android modules.
6. An abstract pool (a bag of tasks served in order) that `Server` implements.

Proofs next: the conditions under which the other refuted claims would hold (`EachIsMutual`,
`NoBlankMessage`, and of `WaitEnds` that only a page that lacks its image can hang), the refinement
of point 6, and of each module of points 1 to 3 its type and its first invariant.
