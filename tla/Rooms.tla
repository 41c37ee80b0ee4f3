------------------------------- MODULE Rooms -------------------------------
(***************************************************************************)
(* How a chat room comes to be, beside the list of RoomList: two users who *)
(* like each other may open their room from the page of mutual likes,      *)
(* which asks the server for it first (PartnerListAdapter), or from the    *)
(* dialog that tells them so, which creates one at once (PSDialog; on iOS  *)
(* EachLikeAlert and ChatView).  Taps of both users run at a time.         *)
(*                                                                         *)
(* The server's /chat is external: a check finds a room of the two if one  *)
(* is there, and a creation always makes one.                              *)
(***************************************************************************)
EXTENDS RoomList, FiniteSets

CONSTANTS Opening       \* taps that may be under way at a time, of either user

VARIABLES opening,      \* what each tap waits for
          late,         \* creations on their way that nobody waits for
          raced         \* a tap did not see what another did: see Check,
                        \* CreateAtOnce and SentAgain

roomsVars == <<vars, opening, late, raced>>

There == {r \in Room : last[r] # Absent}

\* found: what the check answered; again: Volley sent the creation again.
Ready == [at |-> "ready", ios |-> FALSE, found |-> FALSE, again |-> FALSE]
Tap == [at : {"ready", "checking", "checked", "creating", "created", "spins"},
        ios : BOOLEAN, found : BOOLEAN, again : BOOLEAN]

UnderWay(o) == opening[o].at \in {"checking", "checked", "creating", "created"}
Others(o) == {p \in Opening \ {o} : UnderWay(p)}

\* Bound: there is a room left for every creation that may come.
RoomLeft == Cardinality({o \in Opening : UnderWay(o)}) + late < Cardinality(Room \ There)

RoomsInit ==
  /\ Init
  /\ \A r, s \in There : r = s
  /\ opening = [o \in Opening |-> Ready]
  /\ late = 0 /\ raced = FALSE

Becomes(o, tap) == opening' = [opening EXCEPT ![o] = tap]

\* A tap on "talk" in the list: it checks.  The dialogs create at once.
Check(o) ==
  /\ opening[o].at = "ready" /\ RoomLeft
  /\ Becomes(o, [Ready EXCEPT !.at = "checking"])
  /\ raced' = (raced \/ Others(o) # {} \/ late > 0)
  /\ UNCHANGED <<vars, late>>

CreateAtOnce(o, ios) ==
  /\ opening[o].at = "ready" /\ RoomLeft
  /\ Becomes(o, [Ready EXCEPT !.at = "creating", !.ios = ios])
  /\ raced' = (raced \/ Others(o) # {} \/ late > 0 \/ There # {})
  /\ UNCHANGED <<vars, late>>

ServerChecks(o) ==
  /\ opening[o].at = "checking"
  /\ Becomes(o, [opening[o] EXCEPT !.at = "checked", !.found = There # {}])
  /\ UNCHANGED <<vars, late, raced>>

\* Mutant: the page creates a room whatever the check found.
CheckReplyBlind(o) ==
  /\ opening[o].at = "checked"
  /\ Becomes(o, [Ready EXCEPT !.at = "creating"])
  /\ UNCHANGED <<vars, late, raced>>

\* The room opens; or the answer was no JSON, which is what no room looks like,
\* and one is created.
CheckReply(o) ==
  /\ opening[o].at = "checked"
  /\ Becomes(o, IF opening[o].found THEN Ready ELSE [Ready EXCEPT !.at = "creating"])
  /\ UNCHANGED <<vars, late, raced>>

\* A room nobody has chatted in.
Creates(r) ==
  /\ r \notin There
  /\ last' = [last EXCEPT ![r] = Silent]
  /\ UNCHANGED <<refresh, rows, lost, overlap, seen, raced>>

ServerCreates(o) ==
  /\ opening[o].at = "creating"
  /\ \E r \in Room : Creates(r) /\ Becomes(o, [opening[o] EXCEPT !.at = "created"])
  /\ UNCHANGED late

LateCreates ==
  /\ late > 0
  /\ \E r \in Room : Creates(r)
  /\ late' = late - 1
  /\ UNCHANGED opening

\* Volley asks again when the answer is late; URLSession does not.
SentAgain(o) ==
  /\ opening[o].at \in {"creating", "created"} /\ ~opening[o].ios /\ ~opening[o].again
  /\ RoomLeft
  /\ Becomes(o, [opening[o] EXCEPT !.at = "creating", !.again = TRUE])
  /\ late' = IF opening[o].at = "creating" THEN late + 1 ELSE late
  /\ raced' = TRUE
  /\ UNCHANGED vars

\* Mutant: the answer reaches the iOS page on the thread that waits for it.
CreateReplyOnMain(o) ==
  /\ opening[o].at = "created" /\ ~opening[o].ios
  /\ Becomes(o, Ready)
  /\ UNCHANGED <<vars, late, raced>>

\* The answer opens the room; to the iOS page another thread brings it.
CreateReply(o) ==
  /\ opening[o].at = "created"
  /\ Becomes(o, Ready)
  /\ UNCHANGED <<vars, late, raced>>

\* A request fails; a creation may be executed all the same.  Android's
\* ErrorListener does nothing; on iOS nobody calls back, and the page goes on
\* waiting for its room.
OpeningFails(o) ==
  /\ UnderWay(o)
  /\ Becomes(o, IF opening[o].ios THEN [Ready EXCEPT !.at = "spins", !.ios = TRUE] ELSE Ready)
  /\ late' \in IF opening[o].at = "creating" THEN {late, late + 1} ELSE {late}
  /\ UNCHANGED <<vars, raced>>

\* The user ends an application that hangs.
Leaves(o) ==
  /\ opening[o].at = "spins"
  /\ Becomes(o, Ready)
  /\ UNCHANGED <<vars, late, raced>>

\* Rooms come from the taps only; otherwise the list is that of RoomList.
ListStep ==
  \/ \E r \in There : Chat(r)
  \/ \E c \in Refreshes : Refresh(c) \/ ServerReads(c) \/ RoomsReply(c) \/ Fails(c)
  \/ \E c \in Refreshes, r \in Room : ImageReply(c, r) \/ ImageFails(c, r)

Answered(o) == ServerChecks(o) \/ CheckReply(o) \/ ServerCreates(o) \/ CreateReply(o)

OpeningStep(o) ==
  \/ Check(o) \/ \E ios \in BOOLEAN : CreateAtOnce(o, ios)
  \/ Answered(o) \/ SentAgain(o) \/ OpeningFails(o) \/ Leaves(o)

RoomsNext ==
  \/ ListStep /\ UNCHANGED <<opening, late, raced>>
  \/ \E o \in Opening : OpeningStep(o)
  \/ LateCreates

RoomsSpec == RoomsInit /\ [][RoomsNext]_roomsVars

\* The server and the network answer in the end, or the request fails.
FairRoomsSpec == RoomsSpec /\ \A o \in Opening : WF_roomsVars(Answered(o))
-----------------------------------------------------------------------------
RoomsTypeOK ==
  /\ opening \in [Opening -> Tap] /\ late \in Nat /\ raced \in BOOLEAN
  /\ \A o \in Opening : opening[o].found \/ opening[o].at = "created" => There # {}

\* The two users have one room, and their pages show the same, unless a tap
\* could not know of another: they overlapped, a dialog created a room where
\* one was, or a creation was sent again.  The check of the page is enough for
\* the rest, whatever fails on the way.
OneRoomUnlessRaced == ~raced => \A r, s \in There : r = s

\* A tap ends: the room opens, or Android gives up, or the iOS page spins
\* because its request failed, and only then.
TapEnds == \A o \in Opening : UnderWay(o) ~> ~UnderWay(o)
=============================================================================
