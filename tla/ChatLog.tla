------------------------------ MODULE ChatLog ------------------------------
(***************************************************************************)
(* What the chat of a room promises, whatever pages, processes and         *)
(* requests do meanwhile: a message is stored by the server, then said by  *)
(* its sender, then in the log of the room, then read; each step at most   *)
(* once, none taken back, and the log in the order in which each user      *)
(* spoke.  A step that never comes leaves the message where it is.         *)
(***************************************************************************)
EXTENDS Naturals, Sequences

CONSTANTS Send,       \* the requests to store a message
          Message     \* records; by: who speaks, send: the request

VARIABLES stored,     \* the requests the server has executed
          said,       \* messages, in the order they were written
          log, read   \* those in the log, and those read there

vars == <<stored, said, log, read>>

Init == stored = {} /\ said = <<>> /\ log = {} /\ read = {}

Stores ==
  /\ \E s \in Send \ stored : stored' = stored \cup {s}
  /\ UNCHANGED <<said, log, read>>

Says ==
  /\ \E m \in Message :
       /\ m.send \in stored /\ \A n \in DOMAIN said : said[n].send # m.send
       /\ said' = Append(said, m)
  /\ UNCHANGED <<stored, log, read>>

\* A message that another of its speaker overtook does not come any more.
Enters ==
  /\ \E n \in DOMAIN said \ log :
       /\ \A m \in log : said[m].by = said[n].by => m < n
       /\ log' = log \cup {n}
  /\ UNCHANGED <<stored, said, read>>

Reads ==
  /\ \E n \in log \ read : read' = read \cup {n}
  /\ UNCHANGED <<stored, said, log>>

Next == Stores \/ Says \/ Enters \/ Reads

Spec == Init /\ [][Next]_vars
=============================================================================
