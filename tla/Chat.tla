-------------------------------- MODULE Chat --------------------------------
(***************************************************************************)
(* The chat of one room (ChatActivity, ChatAdapter).  A message is sent to *)
(* the server first; when the server answers, the sender's page writes it  *)
(* to the log of the room in Firebase, whose events fill the pages of both *)
(* users.  The partner's page marks the message as read in the log, and    *)
(* the change makes the sender's page mark it too.                         *)
(*                                                                         *)
(* Firebase shows a client its own writes at once, brings them to the log  *)
(* in their order, and tells the other clients of the log in its order.    *)
(***************************************************************************)
EXTENDS Integers, Sequences, FiniteSets

CONSTANTS maker, partner,       \* the two users of the room
          MaxSends,             \* bound: messages sent
          MaxClock,             \* bound: seconds
          MaxOpens              \* bound: times a page is opened

ASSUME ChatAssumption == maker # partner /\ MaxSends \in Nat /\ MaxClock \in Nat /\ MaxOpens \in Nat

VARIABLES clock,        \* chat_time is a second
          sent,         \* messages sent so far
          sends,        \* requests insertChatReq of a user without an answer yet
          stored,       \* sends the server has stored
          msgs,         \* messages by the order of their keys
          up,           \* writes of a client not yet in the log
          log,          \* messages in the log
          read,         \* those with unread_count 0
          opens,        \* times a page was opened
          page,         \* the chat page of a user
          events        \* events of the log the page has not handled yet

vars == <<clock, sent, sends, stored, msgs, up, log, read, opens, page, events>>

User == {maker, partner}
Other(u) == IF u = maker THEN partner ELSE maker

Send == [id : 1..MaxSends, time : 0..MaxClock, fresh : BOOLEAN]
Message == [by : User, time : 0..MaxClock, send : 1..MaxSends, blank : BOOLEAN]
Write == [op : {"put", "read"}, n : 1..MaxSends]
Event == [type : {"add", "change"}, n : 1..MaxSends, unread : BOOLEAN]
Item == [n : 1..MaxSends, unread : BOOLEAN]
Page == [at : {"closed", "open", "hung"}, image : BOOLEAN, chatList : Seq(Item)]

Closed == [at |-> "closed", image |-> FALSE, chatList |-> <<>>]
Pending(u, op) == {up[u][i].n : i \in {i \in DOMAIN up[u] : up[u][i].op = op}}

Init ==
  /\ clock = 0 /\ sent = 0 /\ stored = {} /\ msgs = <<>> /\ log = {} /\ read = {} /\ opens = 0
  /\ sends = [u \in User |-> {}] /\ up = [u \in User |-> <<>>]
  /\ page = [u \in User |-> Closed] /\ events = [u \in User |-> <<>>]

Tick ==
  /\ clock < MaxClock
  /\ clock' = clock + 1
  /\ UNCHANGED <<sent, sends, stored, msgs, up, log, read, opens, page, events>>

\* What a new listener is told: the log, with the writes of its own client,
\* in the order of the keys.
Ordered(S) == {q \in [1..Cardinality(S) -> S] : \A i, j \in DOMAIN q : i < j => q[i] < q[j]}

Snapshots(u) ==
  {[i \in DOMAIN q |->
     [type |-> "add", n |-> q[i], unread |-> q[i] \notin read \cup Pending(u, "read")]] :
   q \in Ordered(log \cup Pending(u, "put"))}

\* Mutant: onResume adds the listener a second time.
OpenListensTwice(u) ==
  /\ page[u].at = "closed" /\ opens < MaxOpens
  /\ opens' = opens + 1
  /\ \E known \in BOOLEAN :
       page' = [page EXCEPT ![u] = [at |-> "open", image |-> known, chatList |-> <<>>]]
  /\ \E s \in Snapshots(u) : events' = [events EXCEPT ![u] = s \o s]
  /\ UNCHANGED <<clock, sent, sends, stored, msgs, up, log, read>>

\* onCreate, onResume.  The image of the partner is known if the page was
\* opened from the list of rooms, and asked for otherwise.
Open(u) ==
  /\ page[u].at = "closed" /\ opens < MaxOpens
  /\ opens' = opens + 1
  /\ \E known \in BOOLEAN :
       page' = [page EXCEPT ![u] = [at |-> "open", image |-> known, chatList |-> <<>>]]
  /\ \E s \in Snapshots(u) : events' = [events EXCEPT ![u] = s]
  /\ UNCHANGED <<clock, sent, sends, stored, msgs, up, log, read>>

ImageReply(u) ==
  /\ page[u].at = "open" /\ ~page[u].image
  /\ page' = [page EXCEPT ![u].image = TRUE]
  /\ UNCHANGED <<clock, sent, sends, stored, msgs, up, log, read, opens, events>>

\* onPause: the page ends.  Its listener stays, and does nothing without ref.
Close(u) ==
  /\ page[u].at = "open"
  /\ page' = [page EXCEPT ![u] = Closed]
  /\ events' = [events EXCEPT ![u] = <<>>]
  /\ sends' = [sends EXCEPT ![u] = {[id |-> s.id, time |-> s.time, fresh |-> FALSE] : s \in @}]
  /\ UNCHANGED <<clock, sent, stored, msgs, up, log, read, opens>>

\* The process of the application ends, and with it what only it knew.
Dies(u) ==
  /\ page' = [page EXCEPT ![u] = Closed]
  /\ events' = [events EXCEPT ![u] = <<>>]
  /\ sends' = [sends EXCEPT ![u] = {}]
  /\ up' = [up EXCEPT ![u] = <<>>]
  /\ UNCHANGED <<clock, sent, stored, msgs, log, read, opens>>

\* The user, or the system, ends it; a page that hangs ends no other way.
Kill(u) == Dies(u)

\* A click on btn_send, with something in the box, which it empties.
Click(u) ==
  /\ page[u].at = "open" /\ sent < MaxSends
  /\ sent' = sent + 1
  /\ sends' = [sends EXCEPT ![u] = @ \cup {[id |-> sent + 1, time |-> clock, fresh |-> TRUE]}]
  /\ UNCHANGED <<clock, stored, msgs, up, log, read, opens, page, events>>

Store(u, s) ==
  /\ s \in sends[u] /\ s.id \notin stored
  /\ stored' = stored \cup {s.id}
  /\ UNCHANGED <<clock, sent, sends, msgs, up, log, read, opens, page, events>>

\* Mutant: the write overtakes those the client has not got through yet.
writeFirebaseFirst(u, s) ==
  LET n == Len(msgs) + 1
  IN  /\ \E blank \in BOOLEAN :
           msgs' = Append(msgs, [by |-> u, time |-> s.time, send |-> s.id, blank |-> blank])
      /\ up' = [up EXCEPT ![u] = <<[op |-> "put", n |-> n]>> \o @]
      /\ events' = [events EXCEPT ![u] = Append(@, [type |-> "add", n |-> n, unread |-> TRUE])]

\* writeFirebase, with what is in the box by now: the user may have begun the
\* next message or not.  The event of the write is queued for the page that
\* made it.
writeFirebase(u, s) ==
  LET n == Len(msgs) + 1
  IN  /\ \E blank \in BOOLEAN :
           msgs' = Append(msgs, [by |-> u, time |-> s.time, send |-> s.id, blank |-> blank])
      /\ up' = [up EXCEPT ![u] = Append(@, [op |-> "put", n |-> n])]
      /\ events' = [events EXCEPT ![u] = Append(@, [type |-> "add", n |-> n, unread |-> TRUE])]

\* Mutant: an answer delivered twice writes twice.
ReplyTwice(u, s) ==
  /\ s \in sends[u] /\ s.id \in stored /\ page[u].at # "hung" /\ s.fresh
  /\ writeFirebase(u, s)
  /\ UNCHANGED <<clock, sent, sends, stored, log, read, opens, page>>

\* The answer to insertChatReq for the page that sent it.
Reply(u, s) ==
  /\ s \in sends[u] /\ s.id \in stored /\ page[u].at # "hung" /\ s.fresh
  /\ sends' = [sends EXCEPT ![u] = @ \ {s}]
  /\ writeFirebase(u, s)
  /\ UNCHANGED <<clock, sent, stored, log, read, opens, page>>

\* The answer for a page that is gone: ref!! throws.
LateReply(u, s) ==
  /\ s \in sends[u] /\ s.id \in stored /\ page[u].at # "hung" /\ ~s.fresh
  /\ Dies(u)

Fail(u, s) ==
  /\ s \in sends[u]
  /\ sends' = [sends EXCEPT ![u] = @ \ {s}]
  /\ UNCHANGED <<clock, sent, stored, msgs, up, log, read, opens, page, events>>

\* Firebase takes the next write of a client and tells the other client, if
\* it listens.
Tell(u, e) == IF page[u].at = "closed" THEN events ELSE [events EXCEPT ![u] = Append(@, e)]

Commit(u) ==
  LET w == Head(up[u])
  IN  /\ up[u] # <<>>
      /\ up' = [up EXCEPT ![u] = Tail(@)]
      /\ \/ /\ w.op = "put"
            /\ log' = log \cup {w.n} /\ UNCHANGED read
            /\ events' = Tell(Other(u), [type |-> "add", n |-> w.n, unread |-> TRUE])
         \/ /\ w.op = "read"
            /\ read' = read \cup {w.n} /\ UNCHANGED log
            /\ events' = IF w.n \in read THEN events
                         ELSE Tell(Other(u), [type |-> "change", n |-> w.n, unread |-> FALSE])
      /\ UNCHANGED <<clock, sent, sends, stored, msgs, opens, page>>

\* Mutant: of the messages queued, only the last is marked.
MarksLast(u, e) == msgs[e.n].by # u /\ Len(events[u]) = 1

\* A page marks what the other user said.
Marks(u, e) == msgs[e.n].by # u

\* chatConversation(_, "add").  A message of the other user is marked as read,
\* an event of its own; then the page waits for the image, on the thread that
\* would handle its arrival.
Added(u) ==
  LET e == Head(events[u])
      marks == Marks(u, e)
  IN  /\ page[u].at = "open" /\ events[u] # <<>> /\ e.type = "add"
      /\ up' = IF marks THEN [up EXCEPT ![u] = Append(@, [op |-> "read", n |-> e.n])] ELSE up
      /\ events' = [events EXCEPT ![u] =
           IF marks /\ e.unread
           THEN Append(Tail(@), [type |-> "change", n |-> e.n, unread |-> FALSE]) ELSE Tail(@)]
      /\ page' = IF page[u].image
                  THEN [page EXCEPT ![u].chatList = Append(@, [n |-> e.n, unread |-> e.unread])]
                  ELSE [page EXCEPT ![u].at = "hung"]
      /\ UNCHANGED <<clock, sent, sends, stored, msgs, log, read, opens>>

\* Mutant: every message of the speaker is marked.
readChatAll(items, m) ==
  [i \in DOMAIN items |->
    IF msgs[items[i].n].by = m.by THEN [items[i] EXCEPT !.unread = FALSE] ELSE items[i]]

\* ChatAdapter.readChat: the items of this speaker and this second.
readChat(items, m) ==
  [i \in DOMAIN items |->
    IF msgs[items[i].n].by = m.by /\ msgs[items[i].n].time = m.time
    THEN [items[i] EXCEPT !.unread = FALSE] ELSE items[i]]

\* chatConversation(_, "change").
Changed(u) ==
  LET e == Head(events[u])
  IN  /\ page[u].at = "open" /\ events[u] # <<>> /\ e.type = "change"
      /\ events' = [events EXCEPT ![u] = Tail(@)]
      /\ page' = [page EXCEPT ![u].chatList = readChat(@, msgs[e.n])]
      /\ UNCHANGED <<clock, sent, sends, stored, msgs, up, log, read, opens>>

UserStep(u) == Open(u) \/ Close(u) \/ Kill(u) \/ Click(u)
PageStep(u) == ImageReply(u) \/ Added(u) \/ Changed(u)
ServerStep(u) == \E s \in sends[u] : Store(u, s) \/ Reply(u, s) \/ LateReply(u, s) \/ Fail(u, s)

Next == Tick \/ \E u \in User : UserStep(u) \/ PageStep(u) \/ ServerStep(u) \/ Commit(u)

Spec == Init /\ [][Next]_vars

\* The main thread of a page handles what is queued for it, and Firebase keeps
\* on with the writes.  Nobody has to type, to wait for an answer, or to stay.
FairSpec == Spec /\ \A u \in User : WF_vars(PageStep(u)) /\ WF_vars(Commit(u))
-----------------------------------------------------------------------------
TypeOK ==
  /\ clock \in 0..MaxClock /\ sent \in 0..MaxSends /\ opens \in 0..MaxOpens
  /\ sends \in [User -> SUBSET Send] /\ stored \subseteq 1..sent
  /\ msgs \in Seq(Message) /\ Len(msgs) <= sent
  /\ up \in [User -> Seq(Write)] /\ events \in [User -> Seq(Event)]
  /\ log \subseteq 1..Len(msgs) /\ read \subseteq log
  /\ page \in [User -> Page]

\* A message the pages show was stored by the server, and no send of the
\* server's makes two: not with late answers, pages left and opened again, or
\* the application ended in between.
StoredOnce ==
  /\ \A n \in DOMAIN msgs : msgs[n].send \in stored
  /\ \A m, n \in DOMAIN msgs : msgs[m].send = msgs[n].send => m = n

\* A page shows what one user said in the order he said it, every message
\* once, although its own writes overtake those of the log.
SpeakerOrder ==
  \A u \in User : \A i, j \in DOMAIN page[u].chatList :
    LET a == page[u].chatList[i].n
        b == page[u].chatList[j].n
    IN  i < j /\ msgs[a].by = msgs[b].by => a < b

\* The chat implements the log of ChatLog: each message takes its steps in
\* order and once, with retried openings, late answers and dead processes.
Log == INSTANCE ChatLog WITH Send <- 1..MaxSends, said <- msgs
LogSpec == Log!Spec

\* A sender whose page says a message was read has written, in that second, a
\* message which is read in the log.
ReadInSecond ==
  \A u \in User : \A i \in DOMAIN page[u].chatList :
    LET it == page[u].chatList[i]
    IN  msgs[it.n].by = u /\ ~it.unread =>
          \E m \in read : msgs[m].by = u /\ msgs[m].time = msgs[it.n].time

\* What the click handler makes sure of: no message is empty.
NoBlankMessage == \A n \in DOMAIN msgs : ~msgs[n].blank

\* A message on its way to the log, or there, is read in the log, if both
\* pages stay open.
OpenPagesRead ==
  \A n \in 1..MaxSends :
    (\E u \in User : n \in log \cup Pending(u, "put")) ~>
      n \in read \/ \E u \in User : page[u].at # "open"

\* What the log line of chatConversation says of a page that waits for the
\* image: the wait ends.
WaitEnds == \A u \in User : page[u].at = "hung" ~> page[u].at # "hung"
=============================================================================
