------------------------------ MODULE RoomList ------------------------------
(***************************************************************************)
(* The list of chat rooms of the Android client (MessageFragment).  A      *)
(* refresh, on onResume or when a push message reaches the handler, clears *)
(* the list at once, asks for my rooms and then, room by room, for the     *)
(* partner's image; each image reply adds one row and sorts the list.      *)
(* Nothing keeps two refreshes apart.                                      *)
(*                                                                         *)
(* Every insertion is followed by the sort, so the rows are a set here; a  *)
(* refresh adds a room at most once, so a row carries its refresh.         *)
(***************************************************************************)
EXTENDS Integers

CONSTANTS Room,         \* the rooms this user is or will be in
          Refreshes,    \* refreshes that may run at a time
          MaxTime       \* bound: last the clock of chat_time goes to

ASSUME RoomListAssumption == MaxTime \in Nat \ {0}

VARIABLES last,         \* the server's last chat of each room; see Absent, Silent
          refresh,      \* what each refresh waits for
          rows,         \* chatRoomList
          lost,         \* a refresh of the current burst ended without a reply
          overlap,      \* two refreshes of the current burst ran at a time
          seen          \* last, when the latest refresh began

vars == <<last, refresh, rows, lost, overlap, seen>>

Absent == 0             \* the room is not there yet
Silent == 1             \* it has no chat: chat_time is "null"
Time == Absent..MaxTime
Nothing == [r \in Room |-> Absent]

\* answer: the rooms, with their times, whose image reply is awaited.
Idle == [at |-> "idle", answer |-> Nothing]
Waiting == [at : {"asked", "answered", "images"}, answer : [Room -> Time]]
Quiet == \A c \in Refreshes : refresh[c] = Idle
Row == [by : Refreshes, room : Room, time : Time \ {Absent}]

Init ==
  /\ last \in [Room -> {Absent, Silent}]
  /\ refresh = [c \in Refreshes |-> Idle] /\ rows = {}
  /\ lost = FALSE /\ overlap = FALSE /\ seen = Nothing

\* A chat, or a new room.  The push message it causes may come at any time or
\* not at all, and the user may come back to the list at any time: Refresh.
Chat(r) ==
  /\ last[r] < MaxTime
  /\ last' = [last EXCEPT ![r] = @ + 1]
  /\ UNCHANGED <<refresh, rows, lost, overlap, seen>>

\* Mutant: the old rows stay until the list of rooms is there.
RefreshKeepsRows(c) ==
  /\ refresh[c] = Idle
  /\ refresh' = [refresh EXCEPT ![c] = [at |-> "asked", answer |-> Nothing]]
  /\ rows' = {row \in rows : row.by # c}
  /\ lost' = (lost /\ ~Quiet) /\ overlap' = ~Quiet
  /\ seen' = last /\ UNCHANGED last

\* refreshList: the clear is synchronous, the rest is not.
Refresh(c) ==
  /\ refresh[c] = Idle
  /\ refresh' = [refresh EXCEPT ![c] = [at |-> "asked", answer |-> Nothing]]
  /\ rows' = {}
  /\ lost' = (lost /\ ~Quiet) /\ overlap' = ~Quiet
  /\ seen' = last /\ UNCHANGED last

ServerReads(c) ==
  /\ refresh[c].at = "asked"
  /\ refresh' = [refresh EXCEPT ![c] = [at |-> "answered", answer |-> last]]
  /\ UNCHANGED <<last, rows, lost, overlap, seen>>

\* Mutant: the images are waited for before the list is known to hold a room.
RoomsReplyEmpty(c) ==
  /\ refresh[c].at = "answered"
  /\ refresh' = [refresh EXCEPT ![c] = [at |-> "images", answer |-> @.answer]]
  /\ UNCHANGED <<last, rows, lost, overlap, seen>>

\* The reply to getMyRoomReq.  With no room in it there is nothing to ask for.
RoomsReply(c) ==
  /\ refresh[c].at = "answered"
  /\ refresh' = [refresh EXCEPT ![c] =
       IF @.answer = Nothing THEN Idle ELSE [at |-> "images", answer |-> @.answer]]
  /\ UNCHANGED <<last, rows, lost, overlap, seen>>

\* What is left of the answer of c once r is in the list.
Without(c, r) ==
  LET rest == [refresh[c].answer EXCEPT ![r] = Absent]
  IN  IF rest = Nothing THEN Idle ELSE [at |-> "images", answer |-> rest]

\* Mutant: a room that is in the list is not added again.
ImageReplyOnlyNew(c, r) ==
  /\ refresh[c].at = "images" /\ refresh[c].answer[r] # Absent
  /\ rows' = IF \E row \in rows : row.room = r THEN rows
             ELSE rows \cup {[by |-> c, room |-> r, time |-> refresh[c].answer[r]]}
  /\ refresh' = [refresh EXCEPT ![c] = Without(c, r)]
  /\ UNCHANGED <<last, lost, overlap, seen>>

\* A reply to getProfileImageReq, in any order: addChatRoom with what the list
\* of rooms said of the room, then sortByLastChat.
ImageReply(c, r) ==
  /\ refresh[c].at = "images" /\ refresh[c].answer[r] # Absent
  /\ rows' = rows \cup {[by |-> c, room |-> r, time |-> refresh[c].answer[r]]}
  /\ refresh' = [refresh EXCEPT ![c] = Without(c, r)]
  /\ UNCHANGED <<last, lost, overlap, seen>>

\* A request for an image fails: the room is not listed.
ImageFails(c, r) ==
  /\ refresh[c].at = "images" /\ refresh[c].answer[r] # Absent
  /\ refresh' = [refresh EXCEPT ![c] = Without(c, r)]
  /\ lost' = TRUE
  /\ UNCHANGED <<last, rows, overlap, seen>>

\* getMyRoomReq fails: its ErrorListener is empty and the list stays cleared.
Fails(c) ==
  /\ refresh[c].at \in {"asked", "answered"}
  /\ refresh' = [refresh EXCEPT ![c] = Idle]
  /\ lost' = TRUE
  /\ UNCHANGED <<last, rows, overlap, seen>>

Next ==
  \/ \E r \in Room : Chat(r)
  \/ \E c \in Refreshes : Refresh(c) \/ ServerReads(c) \/ RoomsReply(c) \/ Fails(c)
  \/ \E c \in Refreshes, r \in Room : ImageReply(c, r) \/ ImageFails(c, r)

Spec == Init /\ [][Next]_vars
-----------------------------------------------------------------------------
\* The type invariant: an idle refresh awaits nothing, and one that waits for
\* images has one to wait for.
TypeOK ==
  /\ last \in [Room -> Time] /\ seen \in [Room -> Time]
  /\ refresh \in [Refreshes -> {Idle} \cup Waiting]
  /\ \A c \in Refreshes : refresh[c].at = "images" => refresh[c].answer # Nothing
  /\ rows \subseteq Row
  /\ lost \in BOOLEAN /\ overlap \in BOOLEAN

\* Once every refresh has had its replies, in whatever order, each room that
\* was there when the latest began is listed, with a last chat no older than
\* what the server had then: a late reply of an earlier refresh adds, it does
\* not replace (addChatRoom), and no clear comes after the rows it should keep.
FreshWhenDone ==
  Quiet /\ ~lost =>
    \A r \in Room : seen[r] # Absent =>
      \E row \in rows : row.room = r /\ row.time >= seen[r]

\* A room is listed twice only if two refreshes ran at a time: what one
\* refresh left in the list does not survive into the next (the clear of
\* refreshList runs before its request).
OnceUnlessOverlap ==
  ~overlap => \A x, y \in rows : x.room = y.room => x = y
=============================================================================
