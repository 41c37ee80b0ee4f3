------------------------------ MODULE MCRooms ------------------------------
\* Two rooms, two refreshes and two taps; see MCRooms.cfg.
EXTENDS Rooms
=============================================================================
