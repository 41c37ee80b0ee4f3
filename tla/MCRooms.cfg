\* Two refreshes of the list and two taps that open a room, of a pair that may
\* have one; a room is absent, silent or has a chat.  No symmetry: TapEnds is a
\* liveness property.
CONSTANTS
  Room = {r1, r2}
  Refreshes = {c1, c2}
  MaxTime = 2
  Opening = {o1, o2}
SPECIFICATION FairRoomsSpec
INVARIANTS TypeOK FreshWhenDone OnceUnlessOverlap OneRoomUnlessRaced
PROPERTIES TapEnds
