--------------------------- MODULE RoomListProofs ---------------------------
(* Proofs about RoomList and Rooms, for any rooms, refreshes and taps at a *)
(* time and any number of chats.                                           *)
EXTENDS Rooms, TLAPS

\* A room of the latest refresh is in the list, or a refresh under way will
\* put it there: one that the server has yet to answer, or whose answer is as
\* new as what the server had when the latest began.
Carries(c, r) ==
  \/ refresh[c].at = "asked"
  \/ refresh[c].at # "idle" /\ refresh[c].answer[r] >= seen[r]
Listed(r) == \E row \in rows : row.room = r /\ row.time >= seen[r]
FreshInv ==
  ~lost => \A r \in Room : seen[r] # Absent => Listed(r) \/ \E c \in Refreshes : Carries(c, r)

\* What the server had is no newer than what it has.
SeenOK == \A r \in Room : seen[r] <= last[r]

\* Without an overlap one refresh runs, and no row is one it still awaits.
OneRuns == \A c, d \in Refreshes : refresh[c] # Idle /\ refresh[d] # Idle => c = d
NoneTwice == \A row \in rows, c \in Refreshes :
               \/ refresh[c].at = "images" /\ refresh[c].answer[row.room] = Absent
               \/ refresh[c] = Idle
Once == \A x, y \in rows : x.room = y.room => x = y
OnceInv == ~overlap => OneRuns /\ NoneTwice /\ Once

IInv == TypeOK /\ SeenOK /\ FreshInv /\ OnceInv

ActionsOf(c) == Refresh(c) \/ ServerReads(c) \/ RoomsReply(c) \/ Fails(c)
ImagesOf(c, r) == ImageReply(c, r) \/ ImageFails(c, r)

LEMMA Shapes ==
  ASSUME TypeOK, NEW c \in Refreshes, refresh[c].at # "idle"
  PROVE  /\ refresh[c] \in Waiting /\ refresh[c] # Idle
         /\ refresh[c].answer \in [Room -> Time]
<1>1. refresh[c] \in {Idle} \cup Waiting BY DEF TypeOK
<1>2. Idle.at = "idle" BY DEF Idle
<1> QED BY <1>1, <1>2 DEF Waiting

LEMMA Nil == Nothing \in [Room -> Time] /\ \A r \in Room : Nothing[r] = 0
BY RoomListAssumption DEF Nothing, Time, Absent

\* What a refresh awaits once r is in the list: r no longer, the rest as before.
LEMMA Rest ==
  ASSUME TypeOK, NEW c \in Refreshes, NEW r \in Room,
         refresh[c].at = "images", refresh[c].answer[r] # Absent
  PROVE  /\ Without(c, r) \in {Idle} \cup Waiting
         /\ Without(c, r) # Idle => /\ Without(c, r).at = "images"
                                    /\ Without(c, r).answer # Nothing
         /\ Without(c, r).answer[r] = Absent
         /\ \A s \in Room : s # r => Without(c, r).answer[s] = refresh[c].answer[s]
<1>1. refresh[c].answer \in [Room -> Time] BY Shapes
<1>2. PICK rest : rest = [refresh[c].answer EXCEPT ![r] = Absent] OBVIOUS
<1>3. rest \in [Room -> Time] /\ rest[r] = Absent
      /\ \A s \in Room : s # r => rest[s] = refresh[c].answer[s]
  BY <1>1, <1>2, RoomListAssumption DEF Time, Absent
<1>4. CASE rest = Nothing
  <2>1. Without(c, r) = Idle BY <1>2, <1>4 DEF Without
  <2>2. Idle.answer = rest BY <1>4 DEF Idle
  <2> QED BY <2>1, <2>2, <1>3
<1>5. CASE rest # Nothing
  <2>1. Without(c, r) = [at |-> "images", answer |-> rest] BY <1>2, <1>5 DEF Without
  <2>2. Without(c, r) \in Waiting BY <2>1, <1>3 DEF Waiting
  <2> QED BY <2>1, <2>2, <1>3, <1>5
<1> QED BY <1>4, <1>5
-----------------------------------------------------------------------------
LEMMA TypeStep == TypeOK /\ [Next]_vars => TypeOK'
<1> SUFFICES ASSUME TypeOK, [Next]_vars PROVE TypeOK'
  OBVIOUS
<1> USE RoomListAssumption
<1>0. Idle.at = "idle" /\ Nothing \in [Room -> Time]
  BY Nil DEF Idle
<1>1. ASSUME NEW c \in Refreshes, Refresh(c) PROVE TypeOK'
  <2>1. [at |-> "asked", answer |-> Nothing] \in Waiting BY <1>0 DEF Waiting
  <2> QED BY <1>1, <2>1 DEF Refresh, TypeOK
<1>2. ASSUME NEW c \in Refreshes, ServerReads(c) PROVE TypeOK'
  <2>1. [at |-> "answered", answer |-> last] \in Waiting BY DEF Waiting, TypeOK
  <2> QED BY <1>2, <2>1 DEF ServerReads, TypeOK
<1>3. ASSUME NEW c \in Refreshes, RoomsReply(c) PROVE TypeOK'
  <2>1. PICK a : a = refresh[c].answer OBVIOUS
  <2>2. a \in [Room -> Time] BY <1>3, <2>1, Shapes DEF RoomsReply
  <2>3. [at |-> "images", answer |-> a] \in Waiting BY <2>2 DEF Waiting
  <2>4. refresh' = [refresh EXCEPT ![c] =
                      IF a = Nothing THEN Idle ELSE [at |-> "images", answer |-> a]]
    BY <1>3, <2>1 DEF RoomsReply
  <2>5. CASE a = Nothing
    BY <1>3, <2>4, <2>5, <1>0 DEF RoomsReply, TypeOK
  <2>6. CASE a # Nothing
    BY <1>3, <2>3, <2>4, <2>6 DEF RoomsReply, TypeOK
  <2> QED BY <2>5, <2>6
<1>4. ASSUME NEW c \in Refreshes, Fails(c) PROVE TypeOK'
  BY <1>4, <1>0 DEF Fails, TypeOK
<1>5. ASSUME NEW c \in Refreshes, NEW r \in Room, ImagesOf(c, r) PROVE TypeOK'
  <2>1. PICK w : w = Without(c, r) OBVIOUS
  <2>2. refresh[c].at = "images" /\ refresh[c].answer[r] # Absent
        /\ refresh' = [refresh EXCEPT ![c] = w]
    BY <1>5, <2>1 DEF ImagesOf, ImageReply, ImageFails
  <2>3. w \in {Idle} \cup Waiting /\ (w # Idle => w.answer # Nothing)
    BY <2>1, <2>2, Rest
  <2>4. [by |-> c, room |-> r, time |-> refresh[c].answer[r]] \in Row
    BY <2>2, Shapes DEF Row
  <2>5. rows' \subseteq Row
    BY <1>5, <2>4 DEF ImagesOf, ImageReply, ImageFails, TypeOK
  <2>6. refresh' \in [Refreshes -> {Idle} \cup Waiting]
    BY <2>2, <2>3 DEF TypeOK
  <2>7. \A d \in Refreshes : refresh'[d].at = "images" => refresh'[d].answer # Nothing
    BY <2>2, <2>3, <1>0 DEF TypeOK
  <2> QED BY <1>5, <2>5, <2>6, <2>7 DEF ImagesOf, ImageReply, ImageFails, TypeOK
<1>6. ASSUME NEW r \in Room, Chat(r) PROVE TypeOK'
  BY <1>6 DEF Chat, TypeOK, Time, Absent
<1>7. CASE UNCHANGED vars
  BY <1>7 DEF vars, TypeOK
<1> QED BY <1>1, <1>2, <1>3, <1>4, <1>5, <1>6, <1>7 DEF Next, ImagesOf

LEMMA SeenStep == TypeOK /\ SeenOK /\ [Next]_vars => SeenOK'
<1> SUFFICES ASSUME TypeOK, SeenOK, [Next]_vars PROVE SeenOK'
  OBVIOUS
<1> USE RoomListAssumption DEF SeenOK, TypeOK, Time, Absent
<1>1. ASSUME NEW c \in Refreshes, ActionsOf(c) PROVE SeenOK'
  BY <1>1 DEF ActionsOf, Refresh, ServerReads, RoomsReply, Fails
<1>2. ASSUME NEW c \in Refreshes, NEW r \in Room, ImagesOf(c, r) PROVE SeenOK'
  BY <1>2 DEF ImagesOf, ImageReply, ImageFails
<1>3. ASSUME NEW r \in Room, Chat(r) PROVE SeenOK'
  BY <1>3 DEF Chat
<1>4. CASE UNCHANGED vars
  BY <1>4 DEF vars
<1> QED BY <1>1, <1>2, <1>3, <1>4 DEF Next, ActionsOf, ImagesOf
-----------------------------------------------------------------------------
LEMMA FreshStep == TypeOK /\ SeenOK /\ FreshInv /\ [Next]_vars => FreshInv'
<1> SUFFICES ASSUME TypeOK, SeenOK, FreshInv, [Next]_vars, ~lost',
                    NEW r \in Room, seen'[r] # Absent
             PROVE  Listed(r)' \/ \E c \in Refreshes : Carries(c, r)'
  BY DEF FreshInv
<1>0. Idle.at = "idle" BY DEF Idle
<1>t. seen \in [Room -> Time] /\ last \in [Room -> Time] /\ refresh \in [Refreshes -> {Idle} \cup Waiting]
  BY DEF TypeOK
<1>1. ASSUME NEW c \in Refreshes, Refresh(c) PROVE Carries(c, r)'
  <2>1. refresh'[c] = [at |-> "asked", answer |-> Nothing] BY <1>1, <1>t DEF Refresh
  <2> QED BY <2>1 DEF Carries
\* Every other step leaves seen alone and removes no row.
<1>2. ASSUME ~lost, seen' = seen, rows \subseteq rows',
             \A c \in Refreshes : Carries(c, r) => Carries(c, r)' \/ Listed(r)'
      PROVE  Listed(r)' \/ \E c \in Refreshes : Carries(c, r)'
  <2>1. Listed(r) \/ \E c \in Refreshes : Carries(c, r)
    BY <1>2 DEF FreshInv
  <2>2. Listed(r) => Listed(r)' BY <1>2 DEF Listed
  <2> QED BY <1>2, <2>1, <2>2
<1>3. ASSUME NEW c \in Refreshes, ServerReads(c)
      PROVE  Listed(r)' \/ \E d \in Refreshes : Carries(d, r)'
  <2>1. ~lost /\ seen' = seen /\ rows' = rows BY <1>3 DEF ServerReads
  <2>2. refresh'[c] = [at |-> "answered", answer |-> last] BY <1>3, <1>t DEF ServerReads
  <2>3. last[r] >= seen[r] BY <1>t, RoomListAssumption DEF SeenOK, Time, Absent
  <2>4. Carries(c, r)' BY <2>1, <2>2, <2>3 DEF Carries
  <2> QED BY <2>4
<1>4. ASSUME NEW c \in Refreshes, RoomsReply(c)
      PROVE  Listed(r)' \/ \E d \in Refreshes : Carries(d, r)'
  <2>1. ~lost /\ seen' = seen /\ rows' = rows /\ refresh[c].at = "answered"
    BY <1>4 DEF RoomsReply
  <2>2. ASSUME Carries(c, r) PROVE Carries(c, r)'
    <3>1. refresh[c].answer[r] >= seen[r] BY <2>1, <2>2 DEF Carries
    <3>2. refresh[c].answer # Nothing
      BY <3>1, <1>t, <2>1, Nil, RoomListAssumption DEF Time, Absent
    <3>3. refresh'[c] = [at |-> "images", answer |-> refresh[c].answer]
      BY <1>4, <3>2, <1>t DEF RoomsReply
    <3> QED BY <2>1, <3>1, <3>3 DEF Carries
  <2>3. \A d \in Refreshes : d # c => refresh'[d] = refresh[d]
    BY <1>4, <1>t DEF RoomsReply
  <2> QED BY <1>2, <2>1, <2>2, <2>3 DEF Carries
<1>5. ASSUME NEW c \in Refreshes, NEW s \in Room, ImageReply(c, s)
      PROVE  Listed(r)' \/ \E d \in Refreshes : Carries(d, r)'
  <2>1. /\ ~lost /\ seen' = seen /\ rows \subseteq rows'
        /\ refresh[c].at = "images" /\ refresh[c].answer[s] # Absent
    BY <1>5 DEF ImageReply
  <2>2. PICK w : w = Without(c, s) OBVIOUS
  <2>3. refresh' = [refresh EXCEPT ![c] = w] BY <1>5, <2>2 DEF ImageReply
  <2>4. ASSUME Carries(c, r), r = s PROVE Listed(r)'
    <3>1. PICK t : t = refresh[c].answer[r] OBVIOUS
    <3>2. t >= seen[r] BY <2>1, <2>4, <3>1 DEF Carries
    <3>3. [by |-> c, room |-> r, time |-> t] \in rows'
      BY <1>5, <2>4, <3>1 DEF ImageReply
    <3> QED BY <2>1, <3>2, <3>3 DEF Listed
  <2>5. ASSUME Carries(c, r), r # s PROVE Carries(c, r)'
    <3>1. refresh[c].answer[r] >= seen[r] BY <2>1, <2>5 DEF Carries
    <3>2. w.answer[r] = refresh[c].answer[r] BY <2>1, <2>2, <2>5, Rest
    <3>3. w # Idle
      <4>1. refresh[c].answer[r] # 0
        BY <3>1, <1>t, <2>1, Shapes, RoomListAssumption DEF Time, Absent
      <4>2. Idle.answer[r] = 0 BY Nil DEF Idle
      <4> QED BY <3>2, <4>1, <4>2
    <3>4. w.at = "images" BY <2>1, <2>2, <3>3, Rest
    <3> QED BY <1>t, <2>1, <2>3, <3>1, <3>2, <3>4 DEF Carries
  <2>6. \A d \in Refreshes : d # c => refresh'[d] = refresh[d]
    BY <2>3, <1>t
  <2> QED BY <1>2, <2>1, <2>4, <2>5, <2>6 DEF Carries
<1>6. ASSUME NEW s \in Room, Chat(s)
      PROVE  Listed(r)' \/ \E d \in Refreshes : Carries(d, r)'
  BY <1>2, <1>6 DEF Chat, Carries
<1>7. CASE UNCHANGED vars
  BY <1>2, <1>7 DEF vars, Carries
<1>8. ASSUME NEW c \in Refreshes, NEW s \in Room, Fails(c) \/ ImageFails(c, s) PROVE FALSE
  BY <1>8 DEF Fails, ImageFails
<1>9. ASSUME NEW c \in Refreshes, Fails(c) PROVE FALSE
  BY <1>9 DEF Fails
<1> QED BY <1>1, <1>3, <1>4, <1>5, <1>6, <1>7, <1>8, <1>9 DEF Next
-----------------------------------------------------------------------------
LEMMA OnceStep == TypeOK /\ OnceInv /\ [Next]_vars => OnceInv'
<1> SUFFICES ASSUME TypeOK, OnceInv, [Next]_vars, ~overlap'
             PROVE  OneRuns' /\ NoneTwice' /\ Once'
  BY DEF OnceInv
<1>0. Idle.at = "idle" BY DEF Idle
<1>t. refresh \in [Refreshes -> {Idle} \cup Waiting] BY DEF TypeOK
<1>1. ASSUME NEW c \in Refreshes, Refresh(c) PROVE OneRuns' /\ NoneTwice' /\ Once'
  <2>1. rows' = {} /\ Quiet BY <1>1 DEF Refresh
  <2>2. \A d \in Refreshes : d # c => refresh'[d] = Idle
    BY <1>1, <1>t, <2>1 DEF Refresh, Quiet
  <2> QED BY <2>1, <2>2 DEF OneRuns, NoneTwice, Once
\* Every other step leaves overlap alone and starts no refresh.
<1>2. ASSUME overlap' = overlap PROVE OneRuns /\ NoneTwice /\ Once
  BY <1>2 DEF OnceInv
<1>3. ASSUME NEW c \in Refreshes, ServerReads(c) \/ RoomsReply(c) \/ Fails(c)
      PROVE  OneRuns' /\ NoneTwice' /\ Once'
  <2>1. /\ overlap' = overlap /\ rows' = rows /\ refresh[c] # Idle /\ refresh[c].at # "idle"
        /\ \A d \in Refreshes : d # c => refresh'[d] = refresh[d]
    BY <1>0, <1>3, <1>t DEF ServerReads, RoomsReply, Fails
  <2>2. OneRuns /\ NoneTwice /\ Once BY <1>2, <2>1
  <2>3. refresh[c].at \in {"asked", "answered"}
    BY <1>3 DEF ServerReads, RoomsReply, Fails
  <2>4. rows = {} BY <2>1, <2>2, <2>3 DEF NoneTwice
  <2> QED BY <2>1, <2>2, <2>4 DEF OneRuns, NoneTwice, Once
<1>4. ASSUME NEW c \in Refreshes, NEW r \in Room, ImagesOf(c, r)
      PROVE  OneRuns' /\ NoneTwice' /\ Once'
  <2>1. /\ overlap' = overlap /\ refresh[c] # Idle
        /\ refresh[c].at = "images" /\ refresh[c].answer[r] # Absent
    BY <1>0, <1>4 DEF ImagesOf, ImageReply, ImageFails
  <2>2. OneRuns /\ NoneTwice /\ Once BY <1>2, <2>1
  <2>3. PICK w : w = Without(c, r) OBVIOUS
  <2>4. refresh'[c] = w /\ \A d \in Refreshes : d # c => refresh'[d] = refresh[d]
    BY <1>4, <1>t, <2>3 DEF ImagesOf, ImageReply, ImageFails
  <2>5. /\ w = Idle \/ w.at = "images"
        /\ w.answer[r] = Absent
        /\ \A s \in Room : s # r => w.answer[s] = refresh[c].answer[s]
    BY <2>1, <2>3, Rest
  <2>6. PICK new : new = [by |-> c, room |-> r, time |-> refresh[c].answer[r]] OBVIOUS
  <2>7. rows' \subseteq rows \cup {new} /\ new.room = r
    BY <1>4, <2>6 DEF ImagesOf, ImageReply, ImageFails
  <2>8. \A row \in rows : row.room \in Room /\ row.room # r /\ w.answer[row.room] = Absent
    <3> SUFFICES ASSUME NEW row \in rows
                 PROVE  row.room \in Room /\ row.room # r /\ w.answer[row.room] = Absent
      OBVIOUS
    <3>1. row.room \in Room BY DEF TypeOK, Row
    <3>2. refresh[c].answer[row.room] = Absent BY <2>1, <2>2 DEF NoneTwice
    <3> QED BY <2>1, <2>5, <3>1, <3>2
  <2>9. \A d \in Refreshes : d # c => refresh'[d] = Idle
    BY <2>1, <2>2, <2>4 DEF OneRuns
  <2>10. OneRuns' BY <2>9 DEF OneRuns
  <2>11. NoneTwice' BY <2>4, <2>5, <2>7, <2>8, <2>9 DEF NoneTwice
  <2>12. Once' BY <2>2, <2>7, <2>8 DEF Once
  <2> QED BY <2>10, <2>11, <2>12
<1>5. ASSUME NEW r \in Room, Chat(r) PROVE OneRuns' /\ NoneTwice' /\ Once'
  BY <1>2, <1>5 DEF Chat, OneRuns, NoneTwice, Once
<1>6. CASE UNCHANGED vars
  BY <1>2, <1>6 DEF vars, OneRuns, NoneTwice, Once
<1> QED BY <1>1, <1>3, <1>4, <1>5, <1>6 DEF Next, ImagesOf
-----------------------------------------------------------------------------
LEMMA Start == Init => IInv
<1> SUFFICES ASSUME Init PROVE IInv
  OBVIOUS
<1>0. Idle.at = "idle" /\ Nothing \in [Room -> Time] /\ \A r \in Room : seen[r] = 0
  BY Nil DEF Idle, Init
<1>a. last \in [Room -> {0, 1}] BY DEF Init, Absent, Silent
<1>1. TypeOK
  <2>1. last \in [Room -> Time] BY <1>a, RoomListAssumption DEF Time, Absent
  <2> QED BY <1>0, <2>1 DEF Init, TypeOK
<1>2. SeenOK
  <2> SUFFICES ASSUME NEW r \in Room PROVE seen[r] <= last[r]
    BY DEF SeenOK
  <2>1. seen[r] = 0 /\ last[r] \in {0, 1} BY <1>0, <1>a
  <2> QED BY <2>1
<1>3. FreshInv BY <1>0 DEF FreshInv, Absent
<1>4. OnceInv BY DEF Init, OnceInv, OneRuns, NoneTwice, Once
<1> QED BY <1>1, <1>2, <1>3, <1>4 DEF IInv

LEMMA Keeps == Spec => []IInv
<1>1. IInv /\ [Next]_vars => IInv'
  BY TypeStep, SeenStep, FreshStep, OnceStep DEF IInv
<1> QED BY Start, <1>1, PTL DEF Spec

\* The type invariant holds for any rooms, refreshes and number of chats.
THEOREM RoomListTypeCorrect == Spec => []TypeOK
<1>1. IInv => TypeOK BY DEF IInv
<1> QED BY Keeps, <1>1, PTL

\* When every refresh is answered, each room that the server had when the
\* latest began is listed, as new as it was then (MessageFragment.refreshList).
THEOREM RoomListFreshWhenDone == Spec => []FreshWhenDone
<1>1. IInv => FreshWhenDone
  <2> SUFFICES ASSUME IInv, Quiet, ~lost, NEW r \in Room, seen[r] # Absent
               PROVE  Listed(r)
    BY DEF FreshWhenDone, Listed
  <2>1. \A c \in Refreshes : refresh[c].at = "idle" BY DEF Quiet, Idle
  <2>2. ~\E c \in Refreshes : Carries(c, r) BY <2>1 DEF Carries
  <2> QED BY <2>2 DEF IInv, FreshInv
<1> QED BY Keeps, <1>1, PTL

\* A room is listed twice only if two refreshes ran at a time.
THEOREM RoomListOnceUnlessOverlap == Spec => []OnceUnlessOverlap
<1>1. IInv => OnceUnlessOverlap BY DEF IInv, OnceInv, Once, OnceUnlessOverlap
<1> QED BY Keeps, <1>1, PTL
-----------------------------------------------------------------------------
\* A room that is created is one that has no chat.
LEMMA CreatesIsChat ==
  ASSUME TypeOK, NEW r \in Room, Creates(r) PROVE Chat(r)
<1>1. last \in [Room -> Nat] /\ MaxTime \in Nat \ {0}
  BY RoomListAssumption DEF TypeOK, Time, Absent
<1>2. last[r] = 0 BY DEF Creates, There, Absent
<1>3. last' = [last EXCEPT ![r] = 1] BY DEF Creates, Silent
<1>4. last[r] < MaxTime /\ last' = [last EXCEPT ![r] = @ + 1]
  BY <1>1, <1>2, <1>3
<1> QED BY <1>4 DEF Creates, Chat

\* With taps that open rooms, the list is still that of RoomList: what is
\* proved of it above holds beside them.
THEOREM RoomsKeepList == RoomsSpec => Spec
<1>1. RoomsInit => Init BY DEF RoomsInit
<1>2. TypeOK /\ [RoomsNext]_roomsVars => [Next]_vars
  <2> SUFFICES ASSUME TypeOK, [RoomsNext]_roomsVars PROVE Next \/ UNCHANGED vars
    OBVIOUS
  <2>1. CASE ListStep BY <2>1 DEF ListStep, Next, There
  <2>2. ASSUME NEW o \in Opening, OpeningStep(o) PROVE Next \/ UNCHANGED vars
    <3>1. CASE ServerCreates(o) BY <3>1, CreatesIsChat DEF ServerCreates, Next
    <3> QED BY <2>2, <3>1 DEF OpeningStep, Answered, Check, CreateAtOnce, ServerChecks, CheckReply,
                              CreateReply, SentAgain, OpeningFails, Leaves
  <2>3. CASE LateCreates BY <2>3, CreatesIsChat DEF LateCreates, Next
  <2>4. CASE UNCHANGED roomsVars BY <2>4 DEF roomsVars
  <2> QED BY <2>1, <2>2, <2>3, <2>4 DEF RoomsNext
<1>3. TypeOK /\ [Next]_vars => TypeOK' BY TypeStep
<1>4. Init => TypeOK BY Start DEF IInv
<1> QED BY <1>1, <1>2, <1>3, <1>4, PTL DEF RoomsSpec, Spec

\* Until a tap is raced, one is under way, or one creation nobody waits for;
\* and a room is created only where none is.
Creating(o) == opening[o].at = "creating" \/ (opening[o].at = "checked" /\ ~opening[o].found)
Alone ==
  ~raced =>
    /\ \A r, s \in There : r = s
    /\ \A o, p \in Opening : UnderWay(o) /\ UnderWay(p) => o = p
    /\ late <= 1 /\ (late > 0 => There = {} /\ \A o \in Opening : ~UnderWay(o))
    /\ \A o \in Opening : Creating(o) => There = {}

LEMMA TapOK ==
  /\ Ready \in Tap /\ Ready.at = "ready"
  /\ \A tap \in Tap : [tap EXCEPT !.at = "created"] \in Tap /\ [tap EXCEPT !.at = "created"].at = "created"
  /\ \A tap \in Tap, found \in BOOLEAN :
       LET t == [tap EXCEPT !.at = "checked", !.found = found]
       IN  t \in Tap /\ t.at = "checked" /\ t.found = found
  /\ \A tap \in Tap :
       LET t == [tap EXCEPT !.at = "creating", !.again = TRUE] IN t \in Tap /\ t.at = "creating"
  /\ \A ios \in BOOLEAN :
       LET t == [Ready EXCEPT !.at = "creating", !.ios = ios] IN t \in Tap /\ t.at = "creating"
  /\ [Ready EXCEPT !.at = "creating"] \in Tap /\ [Ready EXCEPT !.at = "creating"].at = "creating"
  /\ [Ready EXCEPT !.at = "checking"] \in Tap /\ [Ready EXCEPT !.at = "checking"].at = "checking"
  /\ LET t == [Ready EXCEPT !.at = "spins", !.ios = TRUE] IN t \in Tap /\ t.at = "spins"
  /\ ~[Ready EXCEPT !.at = "checking"].found
  /\ ~Ready.found /\ ~[Ready EXCEPT !.at = "creating"].found
BY DEF Ready, Tap

LEMMA RoomsTypeStep ==
  ASSUME TypeOK, RoomsTypeOK, [RoomsNext]_roomsVars PROVE RoomsTypeOK'
<1>0. /\ opening \in [Opening -> Tap] /\ late \in Nat /\ raced \in BOOLEAN
      /\ last \in [Room -> Time]
      /\ \A o \in Opening : opening[o].found \/ opening[o].at = "created" => There # {}
  BY DEF RoomsTypeOK, TypeOK
<1>a. There # {} => There' # {}
  <2> SUFFICES ASSUME NEW r \in There PROVE r \in There'
    OBVIOUS
  <2>1. r \in Room /\ last[r] # 0 /\ last[r] \in Nat
    BY <1>0, RoomListAssumption DEF There, Absent, Time
  <2>2. last'[r] = last[r] \/ last'[r] = last[r] + 1
    <3>1. \A s \in Room : Creates(s) \/ Chat(s) => last' = [last EXCEPT ![s] = @ + 1]
      BY CreatesIsChat DEF Chat
    <3>2. \/ last' = last \/ \E s \in Room : Creates(s) \/ Chat(s)
      BY DEF RoomsNext, ListStep, OpeningStep, Answered, Check, CreateAtOnce, ServerChecks, CheckReply,
             ServerCreates, LateCreates, CreateReply, SentAgain, OpeningFails, Leaves, roomsVars, vars, There,
             Refresh, ServerReads, RoomsReply, Fails, ImageReply, ImageFails
    <3> QED BY <1>0, <2>1, <3>1, <3>2
  <2> QED BY <2>1, <2>2 DEF There, Absent
<1>1. CASE (ListStep /\ UNCHANGED <<opening, late, raced>>) \/ UNCHANGED roomsVars
  BY <1>0, <1>1, <1>a DEF roomsVars, RoomsTypeOK
<1>2. ASSUME NEW o \in Opening, NEW tap \in Tap, Becomes(o, tap), late' \in Nat, raced' \in BOOLEAN,
             tap.found \/ tap.at = "created" => There' # {}
      PROVE  RoomsTypeOK'
  BY <1>0, <1>2, <1>a DEF Becomes, RoomsTypeOK
<1>3. ASSUME NEW o \in Opening, OpeningStep(o) PROVE RoomsTypeOK'
  <2>0. opening[o] \in Tap BY <1>0
  <2>1. CASE Check(o)
    <3>1. /\ Becomes(o, [Ready EXCEPT !.at = "checking"]) /\ late' = late
          /\ raced' = (raced \/ Others(o) # {} \/ late > 0)
      BY <2>1 DEF Check
    <3>2. raced' \in BOOLEAN
      <4>1. CASE raced \/ Others(o) # {} \/ late > 0 BY <3>1, <4>1, Zenon
      <4>2. CASE ~(raced \/ Others(o) # {} \/ late > 0) BY <3>1, <4>2, Zenon
      <4> QED BY <4>1, <4>2
    <3>3. [Ready EXCEPT !.at = "checking"].at # "created" BY TapOK
    <3> QED BY <1>0, <1>2, <3>1, <3>2, <3>3, TapOK
  <2>2. ASSUME NEW ios \in BOOLEAN, CreateAtOnce(o, ios) PROVE RoomsTypeOK'
    <3>1. ~[Ready EXCEPT !.at = "creating", !.ios = ios].found BY DEF Ready
    <3>2. /\ Becomes(o, [Ready EXCEPT !.at = "creating", !.ios = ios]) /\ late' = late
          /\ raced' = (raced \/ Others(o) # {} \/ late > 0 \/ There # {})
      BY <2>2 DEF CreateAtOnce
    <3>3. raced' \in BOOLEAN
      <4>1. CASE raced \/ Others(o) # {} \/ late > 0 \/ There # {} BY <3>2, <4>1, Zenon
      <4>2. CASE ~(raced \/ Others(o) # {} \/ late > 0 \/ There # {}) BY <3>2, <4>2, Zenon
      <4> QED BY <4>1, <4>2
    <3>4. [Ready EXCEPT !.at = "creating", !.ios = ios].at # "created" BY DEF Ready
    <3> QED BY <1>0, <1>2, <3>1, <3>2, <3>3, <3>4, TapOK
  <2>3. CASE ServerChecks(o)
    <3>1. There' = There BY <2>3 DEF ServerChecks, There, vars
    <3> QED BY <1>0, <1>2, <2>0, <2>3, <3>1, TapOK DEF ServerChecks
  <2>4. CASE CheckReply(o) \/ CreateReply(o) BY <1>0, <1>2, <2>4, TapOK DEF CheckReply, CreateReply
  <2>5. CASE ServerCreates(o)
    <3>1. There' # {} BY <1>0, <2>5 DEF ServerCreates, Creates, There, Absent, Silent
    <3> QED BY <1>0, <1>2, <2>0, <2>5, <3>1, TapOK DEF ServerCreates, Creates
  <2>6. CASE SentAgain(o)
    <3>1. PICK tap \in Tap : Becomes(o, tap) /\ tap.found = opening[o].found /\ tap.at # "created"
      <4>1. PICK tap : tap = [opening[o] EXCEPT !.at = "creating", !.again = TRUE] OBVIOUS
      <4>2. tap \in Tap /\ tap.found = opening[o].found /\ tap.at # "created"
        BY <2>0, <4>1 DEF Tap
      <4>3. Becomes(o, tap) BY <2>6, <4>1 DEF SentAgain
      <4> QED BY <4>2, <4>3
    <3>2. late' \in Nat /\ raced' \in BOOLEAN BY <1>0, <2>6 DEF SentAgain
    <3>3. tap.found => There' # {} BY <1>0, <1>a, <3>1
    <3> QED BY <1>2, <3>1, <3>2, <3>3
  <2>7. CASE OpeningFails(o)
    <3>1. PICK tap \in Tap : Becomes(o, tap) /\ ~tap.found /\ tap.at # "created"
      <4>1. LET t == [Ready EXCEPT !.at = "spins", !.ios = TRUE] IN ~t.found /\ t.at # "created"
        BY DEF Ready
      <4> QED BY <2>7, <4>1, TapOK DEF OpeningFails
    <3>2. late' \in Nat BY <1>0, <2>7 DEF OpeningFails
    <3>3. raced' \in BOOLEAN BY <1>0, <2>7 DEF OpeningFails
    <3> QED BY <1>2, <3>1, <3>2, <3>3
  <2>8. CASE Leaves(o) BY <1>0, <1>2, <2>8, TapOK DEF Leaves
  <2> QED BY <1>3, <2>1, <2>2, <2>3, <2>4, <2>5, <2>6, <2>7, <2>8 DEF OpeningStep, Answered
<1>4. CASE LateCreates
  BY <1>0, <1>4, <1>a DEF LateCreates, Creates, RoomsTypeOK
<1> QED BY <1>1, <1>3, <1>4 DEF RoomsNext

LEMMA AloneStep ==
  ASSUME TypeOK, RoomsTypeOK, Alone, [RoomsNext]_roomsVars PROVE Alone'
<1>0. /\ opening \in [Opening -> Tap] /\ late \in Nat /\ raced \in BOOLEAN
      /\ last \in [Room -> Time]
  BY DEF RoomsTypeOK, TypeOK
<1> SUFFICES ASSUME ~raced' PROVE Alone'
  BY DEF Alone
<1>1. There' = There /\ UNCHANGED <<opening, late, raced>> => Alone'
  BY DEF Alone, UnderWay, Creating
<1>2. CASE (ListStep /\ UNCHANGED <<opening, late, raced>>) \/ UNCHANGED roomsVars
  <2>1. There' = There
    <3>1. ASSUME NEW r \in There, Chat(r) PROVE There' = There
      <4>1. r \in Room /\ last[r] \in Nat /\ last[r] # 0
        BY <1>0, RoomListAssumption DEF There, Absent, Time
      <4>2. last' = [last EXCEPT ![r] = last[r] + 1] BY <3>1 DEF Chat
      <4> QED BY <1>0, <4>1, <4>2 DEF There, Absent
    <3> QED BY <1>2, <3>1 DEF ListStep, There, roomsVars, vars, Refresh, ServerReads, RoomsReply, Fails,
                              ImageReply, ImageFails
  <2> QED BY <1>1, <1>2, <2>1 DEF roomsVars
<1>3. CASE LateCreates
  <2>1. PICK r \in Room : Creates(r) BY <1>3 DEF LateCreates
  <2>2. ~raced /\ late = 1 /\ There = {} /\ late' = 0 /\ opening' = opening
    BY <1>0, <1>3, <2>1 DEF LateCreates, Creates, Alone
  <2>3. There' = {r} BY <1>0, <2>1, <2>2 DEF Creates, There, Absent, Silent
  <2>4. \A o \in Opening : ~UnderWay(o)' /\ ~Creating(o)'
    BY <2>2 DEF Alone, UnderWay, Creating
  <2> QED BY <2>2, <2>3, <2>4 DEF Alone
<1>4. ASSUME NEW o \in Opening, OpeningStep(o) PROVE Alone'
  <2>0. opening[o] \in Tap BY <1>0
  <2>a. ASSUME NEW tap \in Tap, Becomes(o, tap)
        PROVE  opening'[o] = tap /\ \A p \in Opening : p # o => opening'[p] = opening[p]
    BY <1>0, <2>a DEF Becomes
  <2>b. ASSUME NEW tap \in Tap, Becomes(o, tap), ~raced, UNCHANGED vars, late' = late, late = 0,
               \A p \in Opening : UnderWay(p) => p = o,
               tap.at = "creating" \/ (tap.at = "checked" /\ ~tap.found) => There = {}
        PROVE  Alone'
    <3>1. There' = There /\ \A r, s \in There : r = s BY <2>b DEF There, vars, Alone
    <3>2. \A p \in Opening : p # o => ~UnderWay(p)' /\ ~Creating(p)'
      BY <2>a, <2>b DEF UnderWay, Creating
    <3>3. Creating(o)' => There = {} BY <2>a, <2>b DEF Creating
    <3> QED BY <2>b, <3>1, <3>2, <3>3 DEF Alone
  <2>c. UnderWay(o) /\ ~raced => late = 0 /\ \A p \in Opening : UnderWay(p) => p = o
    BY <1>0 DEF Alone
  <2>1. CASE Check(o)
    <3>0. raced' = (raced \/ Others(o) # {} \/ late > 0) BY <2>1 DEF Check
    <3>1. ~raced /\ Others(o) = {} /\ ~(late > 0) BY <3>0, Zenon
    <3>2. late = 0 BY <1>0, <3>1
    <3>3. \A p \in Opening : UnderWay(p) => p = o BY <3>1 DEF Others
    <3>4. LET t == [Ready EXCEPT !.at = "checking"] IN t.at # "creating" /\ t.at # "checked"
      BY TapOK
    <3>5. Becomes(o, [Ready EXCEPT !.at = "checking"]) /\ UNCHANGED vars /\ late' = late
      BY <2>1 DEF Check
    <3> QED BY <2>b, <3>1, <3>2, <3>3, <3>4, <3>5, TapOK
  <2>2. ASSUME NEW ios \in BOOLEAN, CreateAtOnce(o, ios) PROVE Alone'
    <3>0. raced' = (raced \/ Others(o) # {} \/ late > 0 \/ There # {}) BY <2>2 DEF CreateAtOnce
    <3>1. ~raced /\ Others(o) = {} /\ ~(late > 0) /\ There = {} BY <3>0, Zenon
    <3>2. late = 0 BY <1>0, <3>1
    <3>3. \A p \in Opening : UnderWay(p) => p = o BY <3>1 DEF Others
    <3>4. Becomes(o, [Ready EXCEPT !.at = "creating", !.ios = ios]) /\ UNCHANGED vars /\ late' = late
      BY <2>2 DEF CreateAtOnce
    <3> QED BY <2>b, <3>1, <3>2, <3>3, <3>4, TapOK
  <2>3. CASE ServerChecks(o)
    <3>1. UnderWay(o) /\ ~raced BY <2>3 DEF ServerChecks, UnderWay
    <3> QED BY <2>0, <2>3, <2>b, <2>c, <3>1, TapOK DEF ServerChecks
  <2>4. CASE CheckReply(o)
    <3>1. UnderWay(o) /\ ~raced BY <2>4 DEF CheckReply, UnderWay
    <3>2. ~opening[o].found => There = {} BY <2>4, <3>1 DEF CheckReply, Alone, Creating
    <3> QED BY <2>4, <2>b, <2>c, <3>1, <3>2, TapOK DEF CheckReply
  <2>5. CASE CreateReply(o)
    <3>1. UnderWay(o) /\ ~raced BY <2>5 DEF CreateReply, UnderWay
    <3> QED BY <2>5, <2>b, <2>c, <3>1, TapOK DEF CreateReply
  <2>6. CASE ServerCreates(o)
    <3>1. PICK r \in Room : Creates(r) /\ Becomes(o, [opening[o] EXCEPT !.at = "created"])
      BY <2>6 DEF ServerCreates
    <3>2. UnderWay(o) /\ ~raced /\ There = {} /\ late' = 0
      BY <2>6, <2>c, <3>1 DEF ServerCreates, Creates, UnderWay, Alone, Creating
    <3>3. There' = {r} BY <1>0, <3>1, <3>2 DEF Creates, There, Absent, Silent
    <3>a. PICK tap \in Tap : tap.at = "created" /\ Becomes(o, tap)
      BY <2>0, <3>1, TapOK
    <3>b. opening'[o] = tap /\ \A p \in Opening : p # o => opening'[p] = opening[p]
      BY <2>a, <3>a
    <3>c. \A p \in Opening : UnderWay(p) => p = o BY <2>c, <3>2
    <3>4. opening'[o].at = "created" /\ \A p \in Opening : p # o => ~UnderWay(p)' /\ ~Creating(p)'
      BY <3>a, <3>b, <3>c DEF UnderWay, Creating
    <3>5. ~Creating(o)' BY <3>4 DEF Creating
    <3> QED BY <3>2, <3>3, <3>4, <3>5 DEF Alone
  <2>7. CASE SentAgain(o) BY <2>7 DEF SentAgain
  <2>8. CASE OpeningFails(o)
    <3>1. ~raced /\ UnderWay(o) /\ late = 0 BY <2>8, <2>c DEF OpeningFails
    <3>2. PICK tap \in Tap : tap.at \in {"ready", "spins"} /\ Becomes(o, tap)
      BY <2>8, TapOK DEF OpeningFails
    <3>3. \A p \in Opening : ~UnderWay(p)' /\ ~Creating(p)'
      BY <2>a, <2>c, <3>1, <3>2 DEF UnderWay, Creating
    <3>4. There' = There /\ late' \in {0, 1} /\ (late' # 0 => There = {})
      BY <2>8, <3>1 DEF OpeningFails, There, vars, Alone, Creating
    <3>5. \A r, s \in There : r = s BY <3>1 DEF Alone
    <3> QED BY <3>3, <3>4, <3>5 DEF Alone
  <2>9. CASE Leaves(o)
    <3>1. ~raced /\ There' = There /\ late' = late BY <2>9 DEF Leaves, There, vars
    <3>a. opening'[o] = Ready /\ \A p \in Opening : p # o => opening'[p] = opening[p]
      BY <2>9, <2>a, TapOK DEF Leaves
    <3>b. ~UnderWay(o)' /\ ~Creating(o)' BY <3>a, TapOK DEF UnderWay, Creating
    <3>c. \A p \in Opening : p # o => (UnderWay(p)' = UnderWay(p)) /\ (Creating(p)' = Creating(p))
      BY <3>a DEF UnderWay, Creating
    <3>2. \A p \in Opening : (UnderWay(p)' => UnderWay(p)) /\ (Creating(p)' => Creating(p))
      BY <3>b, <3>c
    <3> QED BY <3>1, <3>2 DEF Alone
  <2> QED BY <1>4, <2>1, <2>2, <2>3, <2>4, <2>5, <2>6, <2>7, <2>8, <2>9 DEF OpeningStep, Answered
<1> QED BY <1>2, <1>3, <1>4 DEF RoomsNext

LEMMA RoomsInvariance == RoomsSpec => [](RoomsTypeOK /\ Alone)
<1>1. RoomsInit => RoomsTypeOK /\ Alone
  <2> SUFFICES ASSUME RoomsInit PROVE RoomsTypeOK /\ Alone
    OBVIOUS
  <2>1. \A o \in Opening : opening[o] = Ready BY DEF RoomsInit
  <2>2. RoomsTypeOK BY <2>1, TapOK DEF RoomsInit, RoomsTypeOK
  <2>3. \A o \in Opening : ~UnderWay(o) /\ ~Creating(o) BY <2>1, TapOK DEF UnderWay, Creating
  <2> QED BY <2>2, <2>3 DEF RoomsInit, Alone
<1>2. TypeOK /\ RoomsTypeOK /\ Alone /\ [RoomsNext]_roomsVars => (RoomsTypeOK /\ Alone)'
  BY RoomsTypeStep, AloneStep
<1>3. RoomsSpec => []TypeOK BY RoomsKeepList, RoomListTypeCorrect, PTL
<1> QED BY <1>1, <1>2, <1>3, PTL DEF RoomsSpec

\* The type invariant of the taps, for any number of them.
THEOREM RoomsTypeCorrect == RoomsSpec => []RoomsTypeOK
BY RoomsInvariance, PTL

\* Two users have one room unless a tap could not know of another.
THEOREM RoomsOneRoom == RoomsSpec => []OneRoomUnlessRaced
<1>1. Alone => OneRoomUnlessRaced BY DEF Alone, OneRoomUnlessRaced
<1> QED BY <1>1, RoomsInvariance, PTL
=============================================================================
