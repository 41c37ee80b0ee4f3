----------------------------- MODULE ChatProofs -----------------------------
(***************************************************************************)
(* Proofs about Chat, for any number of messages, of seconds and of pages. *)
(***************************************************************************)
EXTENDS Chat, FunctionTheorems, FiniteSetTheorems, SequenceTheorems, TLAPS

Elems(s) == {s[i] : i \in DOMAIN s}

LEMMA ElemsEmpty == Elems(<<>>) = {}
BY DEF Elems

LEMMA ElemsAppend ==
  ASSUME NEW S, NEW s \in Seq(S), NEW e \in S
  PROVE  Append(s, e) \in Seq(S) /\ Elems(Append(s, e)) = Elems(s) \cup {e}
<1>1. /\ Append(s, e) \in Seq(S)
      /\ Len(Append(s, e)) = Len(s) + 1
      /\ \A i \in 1..Len(s) : Append(s, e)[i] = s[i]
      /\ Append(s, e)[Len(s) + 1] = e
  BY AppendProperties
<1>2. DOMAIN s = 1..Len(s) /\ Len(s) \in Nat /\ DOMAIN Append(s, e) = 1..(Len(s) + 1)
  BY <1>1
<1>3. \A x \in Elems(Append(s, e)) : x \in Elems(s) \cup {e}
  <2> TAKE x \in Elems(Append(s, e))
  <2> PICK i \in 1..(Len(s) + 1) : x = Append(s, e)[i]
    BY <1>2 DEF Elems
  <2>1. i \in 1..Len(s) \/ i = Len(s) + 1
    BY <1>2
  <2> QED BY <2>1, <1>1, <1>2 DEF Elems
<1>4. \A x \in Elems(s) \cup {e} : x \in Elems(Append(s, e))
  BY <1>1, <1>2 DEF Elems
<1> QED BY <1>1, <1>3, <1>4

LEMMA ElemsTail ==
  ASSUME NEW S, NEW s \in Seq(S), s # <<>>
  PROVE  /\ Tail(s) \in Seq(S) /\ Elems(Tail(s)) \subseteq Elems(s)
         /\ Head(s) \in S /\ Head(s) \in Elems(s)
<1>1. /\ Head(s) \in S /\ Tail(s) \in Seq(S)
      /\ Len(Tail(s)) = Len(s) - 1
      /\ \A i \in 1..Len(Tail(s)) : Tail(s)[i] = s[i + 1]
  BY HeadTailProperties
<1>2. DOMAIN s = 1..Len(s) /\ Len(s) \in Nat /\ Len(s) > 0 /\ Head(s) = s[1]
  BY EmptySeq
<1>3. DOMAIN Tail(s) = 1..(Len(s) - 1)
  BY <1>1
<1>4. \A i \in DOMAIN Tail(s) : i + 1 \in DOMAIN s /\ Tail(s)[i] = s[i + 1]
  BY <1>1, <1>2, <1>3
<1> QED BY <1>1, <1>2, <1>4 DEF Elems

LEMMA ElemsIn ==
  ASSUME NEW S, NEW s \in Seq(S) PROVE Elems(s) \subseteq S
BY DEF Elems

-----------------------------------------------------------------------------
\* A client writes its own messages, and the reading of the other user's
\* which are in the log.
WriteOK(u, w) ==
  /\ w.n \in DOMAIN msgs
  /\ w.op = "put" => msgs[w.n].by = u
  /\ w.op = "read" => msgs[w.n].by # u /\ w.n \in log

\* A page is told of the other user's messages when they are in the log, and
\* of the reading of its own when that is.
EventOK(u, e) ==
  /\ e.n \in DOMAIN msgs
  /\ e.type = "add" /\ msgs[e.n].by # u => e.n \in log
  /\ msgs[e.n].by = u /\ (e.type = "change" \/ e.unread = FALSE) => e.n \in read

\* What ReadInSecond says of one item.
ItemOK(u, it) ==
  /\ it.n \in DOMAIN msgs
  /\ msgs[it.n].by = u /\ it.unread = FALSE =>
       \E m \in read : msgs[m].by = u /\ msgs[m].time = msgs[it.n].time

Flow == \A u \in User :
  /\ \A w \in Elems(up[u]) : WriteOK(u, w)
  /\ \A e \in Elems(events[u]) : EventOK(u, e)
  /\ \A it \in Elems(page[u].chatList) : ItemOK(u, it)

\* The sends without an answer are not in the messages, and no two are the same.
Unanswered ==
  /\ \A u \in User : \A s \in sends[u] : s.id <= sent
  /\ \A u \in User : \A s \in sends[u] : \A n \in DOMAIN msgs : msgs[n].send # s.id
  /\ \A u, v \in User : \A s \in sends[u], t \in sends[v] : s.id = t.id => u = v /\ s = t

IInv == TypeOK /\ StoredOnce /\ Unanswered /\ Flow

\* Messages, the log and the reading in it only grow.
Grows ==
  /\ \A n \in DOMAIN msgs : n \in DOMAIN msgs' /\ msgs'[n] = msgs[n]
  /\ log \subseteq log' /\ read \subseteq read'

LEMMA Kept ==
  ASSUME Grows, read \subseteq DOMAIN msgs, NEW u
  PROVE  /\ \A w : WriteOK(u, w) => WriteOK(u, w)'
         /\ \A e : EventOK(u, e) => EventOK(u, e)'
         /\ \A it : ItemOK(u, it) => ItemOK(u, it)'
<1>1. \A w : WriteOK(u, w) => WriteOK(u, w)'
  BY DEF Grows, WriteOK
<1>2. \A e : EventOK(u, e) => EventOK(u, e)'
  BY DEF Grows, EventOK
<1>3. ASSUME NEW it, ItemOK(u, it) PROVE ItemOK(u, it)'
  <2>1. it.n \in DOMAIN msgs /\ msgs'[it.n] = msgs[it.n] /\ it.n \in DOMAIN msgs'
    BY <1>3 DEF Grows, ItemOK
  <2>2. CASE msgs[it.n].by = u /\ it.unread = FALSE
    <3> PICK m \in read : msgs[m].by = u /\ msgs[m].time = msgs[it.n].time
      BY <1>3, <2>2 DEF ItemOK
    <3>1. m \in read' /\ msgs'[m] = msgs[m]
      BY DEF Grows
    <3> QED BY <2>1, <3>1 DEF ItemOK
  <2> QED BY <2>1, <2>2 DEF ItemOK
<1> QED BY <1>1, <1>2, <1>3

LEMMA OtherOK == \A u \in User : Other(u) \in User /\ Other(u) # u
BY ChatAssumption DEF User, Other

LEMMA ClosedOK == Closed \in Page /\ Elems(Closed.chatList) = {} /\ Closed.chatList = <<>>
<1>1. <<>> \in Seq(Item)
  OBVIOUS
<1> QED BY <1>1, ElemsEmpty DEF Closed, Page

\* What a page is told when it opens.
LEMMA SnapshotOK ==
  ASSUME IInv, NEW u \in User, NEW s \in Snapshots(u)
  PROVE  s \in Seq(Event) /\ \A e \in Elems(s) : EventOK(u, e)
<1> DEFINE S == log \cup Pending(u, "put")
<1>1. up[u] \in Seq(Write) /\ up[u] \in [1..Len(up[u]) -> Write] /\ Len(up[u]) \in Nat
  BY DEF IInv, TypeOK
<1>2. \A n \in Pending(u, "put") : n \in DOMAIN msgs /\ msgs[n].by = u
  BY DEF Pending, IInv, Flow, WriteOK, Elems
<1>3. \A n \in Pending(u, "read") : n \in DOMAIN msgs /\ msgs[n].by # u
  BY DEF Pending, IInv, Flow, WriteOK, Elems
<1>4. DOMAIN msgs = 1..Len(msgs) /\ Len(msgs) \in Nat /\ Len(msgs) <= MaxSends /\ MaxSends \in Nat
  BY ChatAssumption DEF IInv, TypeOK
<1>5. S \subseteq 1..Len(msgs) /\ S \subseteq 1..MaxSends
  <2>1. \A n \in S : n \in 1..Len(msgs)
    BY <1>2, <1>4 DEF IInv, TypeOK
  <2>2. \A n \in 1..Len(msgs) : n \in 1..MaxSends
    BY <1>4
  <2> QED BY <2>1, <2>2
<1>6. Cardinality(S) \in Nat
  <2>1. IsFiniteSet(1..Len(msgs))
    BY <1>4, FS_Interval
  <2>2. IsFiniteSet(S)
    BY <2>1, <1>5, FS_Subset
  <2> QED BY <2>2, FS_CardinalityType
<1>7. PICK q \in Ordered(S) :
        s = [i \in DOMAIN q |->
              [type |-> "add", n |-> q[i], unread |-> q[i] \notin read \cup Pending(u, "read")]]
  BY DEF Snapshots
<1>8. q \in [1..Cardinality(S) -> S]
  BY <1>7 DEF Ordered
<1>9. \A i \in 1..Cardinality(S) : s[i] \in Event /\ EventOK(u, s[i])
  <2> TAKE i \in 1..Cardinality(S)
  <2>1. q[i] \in S
    BY <1>8
  <2>2. s[i].type = "add" /\ s[i].n = q[i] /\ s[i].unread = (q[i] \notin read \cup Pending(u, "read"))
    BY <1>7, <1>8
  <2>3. s[i] \in Event
    BY <1>5, <1>7, <1>8, <2>1 DEF Event
  <2>4. q[i] \in DOMAIN msgs /\ (msgs[q[i]].by # u => q[i] \in log)
    BY <1>2, <1>4, <1>5, <2>1
  <2>5. msgs[q[i]].by = u /\ s[i].unread = FALSE => q[i] \in read
    BY <1>3, <2>2
  <2> QED BY <2>2, <2>3, <2>4, <2>5 DEF EventOK
<1>10. s \in [1..Cardinality(S) -> Event]
  BY <1>7, <1>8, <1>9
<1>11. s \in Seq(Event)
  BY <1>6, <1>10, SeqDef
<1> QED BY <1>9, <1>10, <1>11 DEF Elems

-----------------------------------------------------------------------------
\* One lemma per action: the invariant after it.
Good == TypeOK' /\ Flow'

\* The sends and the messages do not change, or only sends go.
LEMMA SendsKept ==
  ASSUME StoredOnce, Unanswered, UNCHANGED <<msgs, sent>>, stored \subseteq stored',
         \A u \in User : sends'[u] \subseteq sends[u]
  PROVE  StoredOnce' /\ Unanswered'
<1>1. StoredOnce'
  BY DEF StoredOnce
<1>2. Unanswered'
  BY DEF Unanswered
<1> QED BY <1>1, <1>2

LEMMA Quiet ==
  ASSUME UNCHANGED msgs PROVE read \subseteq read' /\ log \subseteq log' => Grows
BY DEF Grows

LEMMA InFlow ==
  ASSUME IInv, NEW u \in User
  PROVE  /\ up[u] \in Seq(Write) /\ events[u] \in Seq(Event)
         /\ page[u] \in Page /\ page[u].chatList \in Seq(Item)
         /\ \A w \in Elems(up[u]) : WriteOK(u, w)
         /\ \A e \in Elems(events[u]) : EventOK(u, e)
         /\ \A it \in Elems(page[u].chatList) : ItemOK(u, it)
         /\ read \subseteq log /\ log \subseteq DOMAIN msgs /\ DOMAIN msgs = 1..Len(msgs)
BY DEF IInv, TypeOK, Flow, Page

\* Flow only asks about what is new.
LEMMA FlowKept ==
  ASSUME IInv, Grows,
         \A u \in User :
           /\ \A w \in Elems(up'[u]) : w \in Elems(up[u]) \/ WriteOK(u, w)'
           /\ \A e \in Elems(events'[u]) : e \in Elems(events[u]) \/ EventOK(u, e)'
           /\ \A it \in Elems(page'[u].chatList) : it \in Elems(page[u].chatList) \/ ItemOK(u, it)'
  PROVE  Flow'
<1> SUFFICES ASSUME NEW u \in User
             PROVE  /\ \A w \in Elems(up'[u]) : WriteOK(u, w)'
                    /\ \A e \in Elems(events'[u]) : EventOK(u, e)'
                    /\ \A it \in Elems(page'[u].chatList) : ItemOK(u, it)'
  BY DEF Flow
<1>1. read \subseteq DOMAIN msgs
  BY InFlow
<1>2. /\ \A w \in Elems(up[u]) : WriteOK(u, w)'
      /\ \A e \in Elems(events[u]) : EventOK(u, e)'
      /\ \A it \in Elems(page[u].chatList) : ItemOK(u, it)'
  BY <1>1, Kept, InFlow
<1> QED BY <1>2

LEMMA OpenGood ==
  ASSUME IInv, NEW u \in User, Open(u) PROVE Good
<1> PICK known \in BOOLEAN :
      page' = [page EXCEPT ![u] = [at |-> "open", image |-> known, chatList |-> <<>>]]
  BY DEF Open
<1> PICK s \in Snapshots(u) : events' = [events EXCEPT ![u] = s]
  BY DEF Open
<1>1. s \in Seq(Event) /\ \A e \in Elems(s) : EventOK(u, e)
  BY SnapshotOK
<1>2. [at |-> "open", image |-> known, chatList |-> <<>>] \in Page
  <2>1. <<>> \in Seq(Item)
    OBVIOUS
  <2> QED BY <2>1 DEF Page
<1>3. opens' \in 0..MaxOpens
  BY ChatAssumption DEF Open, IInv, TypeOK
<1>4. TypeOK'
  BY <1>1, <1>2, <1>3 DEF Open, IInv, TypeOK
<1>5. Grows
  BY DEF Grows, Open
<1>6. \A e \in Elems(s) : EventOK(u, e)'
  BY <1>1, <1>5, Kept, InFlow
<1>7. \A v \in User : up'[v] = up[v]
  BY DEF Open
<1>8. \A v \in User : \/ v = u /\ events'[v] = s
                     \/ events'[v] = events[v]
  BY DEF IInv, TypeOK
<1>9. \A v \in User : \/ v = u /\ Elems(page'[v].chatList) = {}
                     \/ page'[v].chatList = page[v].chatList
  BY ElemsEmpty DEF IInv, TypeOK
<1>10. Flow'
  BY <1>5, <1>6, <1>7, <1>8, <1>9, FlowKept
<1> QED BY <1>4, <1>10 DEF Good

LEMMA ImageReplyGood ==
  ASSUME IInv, NEW u \in User, ImageReply(u) PROVE Good
<1>1. page[u] \in Page /\ page' = [page EXCEPT ![u] = [page[u] EXCEPT !.image = TRUE]]
  BY DEF ImageReply, IInv, TypeOK
<1>2. [page[u] EXCEPT !.image = TRUE] \in Page /\ [page[u] EXCEPT !.image = TRUE].chatList = page[u].chatList
  BY <1>1 DEF Page
<1>3. TypeOK'
  BY <1>1, <1>2 DEF ImageReply, IInv, TypeOK
<1>4. \A v \in User : page'[v].chatList = page[v].chatList
  BY <1>1, <1>2 DEF IInv, TypeOK
<1>5. Grows
  BY DEF ImageReply, Grows
<1>6. Flow'
  BY <1>4, <1>5, FlowKept DEF ImageReply
<1> QED BY <1>3, <1>6 DEF Good

LEMMA CloseGood ==
  ASSUME IInv, NEW u \in User, Close(u) PROVE Good
<1>1. <<>> \in Seq(Event) /\ Closed \in Page /\ Closed.chatList = <<>>
  BY ClosedOK
<1>2. {[id |-> s.id, time |-> s.time, fresh |-> FALSE] : s \in sends[u]} \in SUBSET Send
  <2>1. \A s \in sends[u] : [id |-> s.id, time |-> s.time, fresh |-> FALSE] \in Send
    BY DEF Send, IInv, TypeOK
  <2> QED BY <2>1
<1>3. TypeOK'
  BY <1>1, <1>2 DEF Close, IInv, TypeOK
<1>4. \A v \in User : up'[v] = up[v]
  BY DEF Close
<1>5. \A v \in User : \/ v = u /\ Elems(events'[v]) = {}
                     \/ events'[v] = events[v]
  BY ElemsEmpty DEF Close, IInv, TypeOK
<1>6. \A v \in User : \/ v = u /\ Elems(page'[v].chatList) = {}
                     \/ page'[v].chatList = page[v].chatList
  BY ClosedOK DEF Close, IInv, TypeOK
<1>7. Grows
  BY DEF Close, Grows
<1>8. Flow'
  BY <1>4, <1>5, <1>6, <1>7, FlowKept
<1> QED BY <1>3, <1>8 DEF Good

LEMMA DiesGood ==
  ASSUME IInv, NEW u \in User, Dies(u) PROVE Good
<1>1. <<>> \in Seq(Event) /\ <<>> \in Seq(Write) /\ Closed \in Page /\ Closed.chatList = <<>>
  BY ClosedOK
<1>2. TypeOK'
  BY <1>1 DEF Dies, IInv, TypeOK
<1>3. \A v \in User : \/ v = u /\ Elems(up'[v]) = {}
                     \/ up'[v] = up[v]
  BY ElemsEmpty DEF Dies, IInv, TypeOK
<1>4. \A v \in User : \/ v = u /\ Elems(events'[v]) = {}
                     \/ events'[v] = events[v]
  BY ElemsEmpty DEF Dies, IInv, TypeOK
<1>5. \A v \in User : \/ v = u /\ Elems(page'[v].chatList) = {}
                     \/ page'[v].chatList = page[v].chatList
  BY ClosedOK DEF Dies, IInv, TypeOK
<1>6. Grows
  BY DEF Dies, Grows
<1>7. Flow'
  BY <1>3, <1>4, <1>5, <1>6, FlowKept
<1> QED BY <1>2, <1>7 DEF Good

\* No more messages than sends: each has one of its own.
LEMMA Pigeons ==
  ASSUME NEW k \in Nat, NEW q \in Seq(Message),
         \A n \in DOMAIN q : q[n].send \in 1..k,
         \A m, n \in DOMAIN q : q[m].send = q[n].send => m = n
  PROVE  Len(q) <= k
<1> DEFINE f == [n \in 1..Len(q) |-> q[n].send]
<1>1. Len(q) \in Nat /\ DOMAIN q = 1..Len(q)
  BY LenProperties
<1>2. f \in Injection(1..Len(q), 1..k)
  <2>1. f \in [1..Len(q) -> 1..k]
    BY <1>1
  <2>2. \A a, b \in DOMAIN f : f[a] = f[b] => a = b
    BY <1>1
  <2> QED BY <2>1, <2>2, Fun_IsInj
<1>3. \A i \in Nat : IsFiniteSet(1..i) /\ Cardinality(1..i) = i
  <2> TAKE i \in Nat
  <2>1. 1 \in Int /\ i \in Int
    OBVIOUS
  <2>2. IsFiniteSet(1..i) /\ Cardinality(1..i) = IF 1 > i THEN 0 ELSE i - 1 + 1
    BY ONLY <2>1, FS_Interval
  <2> QED BY <2>2
<1> HIDE DEF f
<1>4. Cardinality(1..Len(q)) <= Cardinality(1..k)
  BY <1>2, <1>3, FS_Injection
<1> QED BY <1>1, <1>3, <1>4

LEMMA ReplyGood ==
  ASSUME IInv, NEW u \in User, NEW s \in sends[u], Reply(u, s)
  PROVE  Good /\ StoredOnce' /\ Unanswered'
<1> PICK n : n = Len(msgs) + 1
  OBVIOUS
<1> PICK blank \in BOOLEAN :
      msgs' = Append(msgs, [by |-> u, time |-> s.time, send |-> s.id, blank |-> blank])
  BY DEF Reply, writeFirebase
<1> DEFINE m == [by |-> u, time |-> s.time, send |-> s.id, blank |-> blank]
<1>1. s \in Send /\ s.id \in stored /\ s.id \in 1..sent /\ sent \in Nat
  <2>1. sends[u] \subseteq Send /\ stored \subseteq 1..sent
    BY DEF IInv, TypeOK
  <2>2. sent \in Nat
    BY ChatAssumption DEF IInv, TypeOK
  <2> QED BY <2>1, <2>2 DEF Reply
<1>2. m \in Message
  BY <1>1 DEF Message, Send
<1>3. /\ msgs' \in Seq(Message) /\ Len(msgs') = n /\ DOMAIN msgs' = 1..n
      /\ \A i \in DOMAIN msgs : i \in DOMAIN msgs' /\ msgs'[i] = msgs[i] /\ i # n
      /\ msgs'[n] = m /\ n \in DOMAIN msgs' /\ DOMAIN msgs = 1..Len(msgs) /\ Len(msgs) \in Nat
      /\ \A i \in DOMAIN msgs' : i \in DOMAIN msgs \/ i = n
  <2>1. msgs \in Seq(Message)
    BY DEF IInv, TypeOK
  <2>2. /\ msgs' \in Seq(Message) /\ Len(msgs') = n
        /\ \A i \in 1..Len(msgs) : msgs'[i] = msgs[i]
        /\ msgs'[n] = m
    BY <1>2, <2>1, AppendProperties
  <2>3. Len(msgs) \in Nat /\ DOMAIN msgs = 1..Len(msgs) /\ DOMAIN msgs' = 1..n
    BY <2>1, <2>2, LenProperties
  <2> QED BY <2>2, <2>3
<1>4. StoredOnce'
  <2>1. \A i \in DOMAIN msgs : msgs[i].send \in stored /\ msgs[i].send # s.id
    BY DEF IInv, StoredOnce, Unanswered
  <2>2. m.send = s.id
    OBVIOUS
  <2>3. stored' = stored
    BY DEF Reply
  <2>4. \A i \in DOMAIN msgs' : msgs'[i].send \in stored'
    BY <1>1, <1>3, <2>1, <2>2, <2>3
  <2>5. \A i, j \in DOMAIN msgs' : msgs'[i].send = msgs'[j].send => i = j
    BY <1>3, <2>1, <2>2 DEF IInv, StoredOnce
  <2> QED BY <2>4, <2>5 DEF StoredOnce
<1>5. Unanswered'
  <2>1. sends' = [sends EXCEPT ![u] = @ \ {s}] /\ sent' = sent
    BY DEF Reply
  <2>2. \A v \in User : sends'[v] \subseteq sends[v] /\ s \notin sends'[u]
    BY <2>1 DEF IInv, TypeOK
  <2>3. \A v \in User : \A t \in sends'[v] : t.id # s.id
    BY <2>2 DEF IInv, Unanswered
  <2>4. m.send = s.id
    OBVIOUS
  <2>5. \A v \in User : \A t \in sends'[v] : \A i \in DOMAIN msgs' : msgs'[i].send # t.id
    BY <1>3, <2>2, <2>3, <2>4 DEF IInv, Unanswered
  <2> QED BY <2>1, <2>2, <2>5 DEF IInv, Unanswered
<1>6. Len(msgs') <= sent
  <2>1. \A i \in DOMAIN msgs' : msgs'[i].send \in 1..sent
    BY <1>4 DEF StoredOnce, Reply, IInv, TypeOK
  <2> QED BY <1>1, <1>3, <1>4, <2>1, Pigeons DEF StoredOnce
<1>7. n \in 1..MaxSends
  BY <1>1, <1>3, <1>6, ChatAssumption DEF IInv, TypeOK
<1> DEFINE w == [op |-> "put", n |-> n]
           e == [type |-> "add", n |-> n, unread |-> TRUE]
<1>8. w \in Write /\ e \in Event
  BY <1>7 DEF Write, Event
<1>9. up' = [up EXCEPT ![u] = Append(up[u], w)] /\ events' = [events EXCEPT ![u] = Append(events[u], e)]
  BY DEF Reply, writeFirebase
<1> HIDE DEF w, e, m
<1>10. /\ Append(up[u], w) \in Seq(Write) /\ Elems(Append(up[u], w)) = Elems(up[u]) \cup {w}
       /\ Append(events[u], e) \in Seq(Event) /\ Elems(Append(events[u], e)) = Elems(events[u]) \cup {e}
  <2>1. up[u] \in Seq(Write) /\ events[u] \in Seq(Event)
    BY InFlow
  <2> QED BY <1>8, <2>1, ElemsAppend
<1>11. TypeOK'
  <2>1. sends' \in [User -> SUBSET Send]
    BY DEF Reply, IInv, TypeOK
  <2>2. up' \in [User -> Seq(Write)] /\ events' \in [User -> Seq(Event)]
    BY <1>9, <1>10 DEF IInv, TypeOK
  <2>3. 1..Len(msgs) \subseteq 1..Len(msgs')
    BY <1>3
  <2>4. log' \subseteq 1..Len(msgs')
    BY <2>3 DEF Reply, IInv, TypeOK
  <2> QED BY <1>3, <1>6, <2>1, <2>2, <2>4 DEF Reply, IInv, TypeOK
<1>12. Grows
  BY <1>3 DEF Reply, Grows
<1>13. WriteOK(u, w)' /\ EventOK(u, e)'
  <2>1. n \in DOMAIN msgs' /\ msgs'[n].by = u
    BY <1>3 DEF m
  <2>2. WriteOK(u, w)'
    BY <2>1 DEF WriteOK, w
  <2>3. EventOK(u, e)'
    BY <2>1 DEF EventOK, e
  <2> QED BY <2>2, <2>3
<1>14. \A v \in User : \/ v = u /\ Elems(up'[v]) = Elems(up[v]) \cup {w}
                      \/ up'[v] = up[v]
  BY <1>9, <1>10 DEF IInv, TypeOK
<1>15. \A v \in User : \/ v = u /\ Elems(events'[v]) = Elems(events[v]) \cup {e}
                      \/ events'[v] = events[v]
  BY <1>9, <1>10 DEF IInv, TypeOK
<1>16. \A v \in User : page'[v] = page[v]
  BY DEF Reply
<1>17. \A v \in User :
         /\ \A x \in Elems(up'[v]) : x \in Elems(up[v]) \/ WriteOK(v, x)'
         /\ \A x \in Elems(events'[v]) : x \in Elems(events[v]) \/ EventOK(v, x)'
  BY <1>13, <1>14, <1>15
<1>18. Flow'
  BY <1>12, <1>16, <1>17, FlowKept
<1> QED BY <1>4, <1>5, <1>11, <1>18 DEF Good

\* Telling a client of something it may be told.
LEMMA TellOK ==
  ASSUME IInv, NEW v \in User, NEW e \in Event
  PROVE  /\ Tell(v, e) \in [User -> Seq(Event)]
         /\ \A x \in User : \/ x = v /\ Elems(Tell(v, e)[x]) = Elems(events[x]) \cup {e}
                          \/ Tell(v, e)[x] = events[x]
<1>1. events \in [User -> Seq(Event)] /\ events[v] \in Seq(Event)
  BY DEF IInv, TypeOK
<1>2. Append(events[v], e) \in Seq(Event) /\ Elems(Append(events[v], e)) = Elems(events[v]) \cup {e}
  BY <1>1, ElemsAppend
<1> QED BY <1>1, <1>2 DEF Tell

LEMMA CommitGood ==
  ASSUME IInv, NEW u \in User, Commit(u) PROVE Good
<1> PICK w : w = Head(up[u])
  OBVIOUS
<1> PICK v : v = Other(u)
  OBVIOUS
<1>1. v \in User /\ v # u
  BY OtherOK
<1>2. /\ Tail(up[u]) \in Seq(Write) /\ Elems(Tail(up[u])) \subseteq Elems(up[u])
      /\ w \in Write /\ w \in Elems(up[u])
  <2>1. up[u] \in Seq(Write) /\ up[u] # <<>>
    BY InFlow DEF Commit
  <2> QED BY <2>1, ElemsTail
<1>3. WriteOK(u, w)
  BY <1>2, InFlow
<1>4. up' = [up EXCEPT ![u] = Tail(up[u])]
  BY DEF Commit
<1>5. up' \in [User -> Seq(Write)] /\ \A x \in User : Elems(up'[x]) \subseteq Elems(up[x])
  BY <1>2, <1>4 DEF IInv, TypeOK
<1>6. read \subseteq log /\ log \subseteq DOMAIN msgs /\ DOMAIN msgs = 1..Len(msgs)
  BY InFlow
<1>7. CASE w.op = "put" /\ log' = log \cup {w.n} /\ UNCHANGED read
           /\ events' = Tell(v, [type |-> "add", n |-> w.n, unread |-> TRUE])
  <2> PICK e : e = [type |-> "add", n |-> w.n, unread |-> TRUE]
    OBVIOUS
  <2>1. e \in Event
    BY <1>2 DEF Write, Event
  <2>2. /\ events' \in [User -> Seq(Event)]
        /\ \A x \in User : \/ x = v /\ Elems(events'[x]) = Elems(events[x]) \cup {e}
                         \/ events'[x] = events[x]
    BY <1>1, <1>7, <2>1, TellOK
  <2>3. log' \subseteq 1..Len(msgs) /\ read' \subseteq log'
    BY <1>3, <1>6, <1>7 DEF WriteOK
  <2>4. TypeOK'
    BY <1>5, <2>2, <2>3 DEF Commit, IInv, TypeOK
  <2>5. Grows
    BY <1>7 DEF Commit, Grows
  <2>6. EventOK(v, e)'
    <3>1. msgs' = msgs
      BY DEF Commit
    <3>2. w.n \in DOMAIN msgs /\ msgs[w.n].by = u
      BY <1>3, <1>7 DEF WriteOK
    <3> QED BY <1>1, <1>7, <3>1, <3>2 DEF EventOK
  <2>7. \A x \in User : page'[x] = page[x]
    BY DEF Commit
  <2>8. \A x \in User : \A y \in Elems(events'[x]) : y \in Elems(events[x]) \/ EventOK(x, y)'
    BY <2>2, <2>6
  <2>9. Flow'
    BY <1>5, <2>5, <2>7, <2>8, FlowKept
  <2> QED BY <2>4, <2>9 DEF Good
<1>8. CASE w.op = "read" /\ read' = read \cup {w.n} /\ UNCHANGED log
           /\ events' = IF w.n \in read THEN events
                       ELSE Tell(v, [type |-> "change", n |-> w.n, unread |-> FALSE])
  <2> PICK e : e = [type |-> "change", n |-> w.n, unread |-> FALSE]
    OBVIOUS
  <2>1. e \in Event
    BY <1>2 DEF Write, Event
  <2>2. /\ events' \in [User -> Seq(Event)]
        /\ \A x \in User : \/ x = v /\ Elems(events'[x]) = Elems(events[x]) \cup {e}
                         \/ events'[x] = events[x]
    BY <1>1, <1>8, <2>1, TellOK DEF IInv, TypeOK
  <2>3. log' \subseteq 1..Len(msgs) /\ read' \subseteq log'
    BY <1>3, <1>6, <1>8 DEF WriteOK
  <2>4. TypeOK'
    BY <1>5, <2>2, <2>3 DEF Commit, IInv, TypeOK
  <2>5. Grows
    BY <1>8 DEF Commit, Grows
  <2>6. EventOK(v, e)'
    <3>1. msgs' = msgs
      BY DEF Commit
    <3>2. w.n \in DOMAIN msgs /\ w.n \in read'
      BY <1>3, <1>8 DEF WriteOK
    <3> QED BY <1>8, <3>1, <3>2 DEF EventOK
  <2>7. \A x \in User : page'[x] = page[x]
    BY DEF Commit
  <2>8. \A x \in User : \A y \in Elems(events'[x]) : y \in Elems(events[x]) \/ EventOK(x, y)'
    BY <2>2, <2>6
  <2>9. Flow'
    BY <1>5, <2>5, <2>7, <2>8, FlowKept
  <2> QED BY <2>4, <2>9 DEF Good
<1> QED BY <1>7, <1>8 DEF Commit

LEMMA AddedGood ==
  ASSUME IInv, NEW u \in User, Added(u) PROVE Good
<1> PICK e : e = Head(events[u])
  OBVIOUS
<1>0. /\ page[u] \in Page /\ page[u].chatList \in Seq(Item) /\ up[u] \in Seq(Write)
      /\ events[u] \in Seq(Event) /\ events[u] # <<>> /\ e.type = "add"
  BY InFlow DEF Added
<1>1. /\ Tail(events[u]) \in Seq(Event) /\ Elems(Tail(events[u])) \subseteq Elems(events[u])
      /\ e \in Event /\ e \in Elems(events[u])
  BY <1>0, ElemsTail
<1>2. EventOK(u, e)
  BY <1>1, InFlow
<1>3. Grows
  BY DEF Added, Grows
<1> PICK w : w = [op |-> "read", n |-> e.n]
  OBVIOUS
<1>4. w \in Write
  BY <1>1 DEF Write, Event
<1>5. Append(up[u], w) \in Seq(Write) /\ Elems(Append(up[u], w)) = Elems(up[u]) \cup {w}
  BY <1>0, <1>4, ElemsAppend
<1>6. up' = IF Marks(u, e) THEN [up EXCEPT ![u] = Append(up[u], w)] ELSE up
  BY DEF Added
<1>7. up' \in [User -> Seq(Write)]
  BY <1>5, <1>6 DEF IInv, TypeOK
<1>8. \A x \in User : \/ x = u /\ Marks(u, e) /\ Elems(up'[x]) = Elems(up[x]) \cup {w}
                     \/ up'[x] = up[x]
  BY <1>5, <1>6 DEF IInv, TypeOK
<1>9. Marks(u, e) => WriteOK(u, w)'
  <2>1. msgs' = msgs /\ log' = log
    BY DEF Added
  <2>2. Marks(u, e) => e.n \in DOMAIN msgs /\ msgs[e.n].by # u /\ e.n \in log
    BY <1>0, <1>2 DEF EventOK, Marks
  <2> QED BY <2>1, <2>2 DEF WriteOK
<1> PICK c : c = [type |-> "change", n |-> e.n, unread |-> FALSE]
  OBVIOUS
<1>10. c \in Event
  BY <1>1 DEF Event
<1>11. /\ Append(Tail(events[u]), c) \in Seq(Event)
       /\ Elems(Append(Tail(events[u]), c)) = Elems(Tail(events[u])) \cup {c}
  <2> PICK rest : rest = Tail(events[u])
    OBVIOUS
  <2>1. rest \in Seq(Event)
    BY <1>1
  <2>2. Append(rest, c) \in Seq(Event) /\ Elems(Append(rest, c)) = Elems(rest) \cup {c}
    BY ONLY <1>10, <2>1, ElemsAppend
  <2> QED BY <2>2
<1>12. events' = [events EXCEPT ![u] =
          IF Marks(u, e) /\ e.unread THEN Append(Tail(events[u]), c) ELSE Tail(events[u])]
  BY DEF Added
<1>13. events' \in [User -> Seq(Event)]
  BY <1>1, <1>11, <1>12 DEF IInv, TypeOK
<1>14. \A x \in User : \/ x = u /\ Marks(u, e) /\ Elems(events'[x]) \subseteq Elems(events[x]) \cup {c}
                      \/ Elems(events'[x]) \subseteq Elems(events[x])
  BY <1>1, <1>11, <1>12 DEF IInv, TypeOK
<1>15. Marks(u, e) => EventOK(u, c)'
  <2>1. msgs' = msgs
    BY DEF Added
  <2>2. Marks(u, e) => e.n \in DOMAIN msgs /\ msgs[e.n].by # u
    BY <1>2 DEF EventOK, Marks
  <2> QED BY <2>1, <2>2 DEF EventOK
<1> PICK it : it = [n |-> e.n, unread |-> e.unread]
  OBVIOUS
<1>16. it \in Item /\ e.n \in 1..Len(msgs)
  BY <1>1, <1>2, InFlow DEF Item, Event, EventOK
<1>17. /\ Append(page[u].chatList, it) \in Seq(Item)
       /\ Elems(Append(page[u].chatList, it)) = Elems(page[u].chatList) \cup {it}
  BY <1>0, <1>16, ElemsAppend
<1>18. ItemOK(u, it)'
  <2>1. msgs' = msgs /\ read' = read
    BY DEF Added
  <2>2. e.n \in DOMAIN msgs /\ (msgs[e.n].by = u /\ e.unread = FALSE => e.n \in read)
    BY <1>2 DEF EventOK
  <2> QED BY <2>1, <2>2 DEF ItemOK
<1>19. /\ page' \in [User -> Page]
       /\ \A x \in User : \/ x = u /\ Elems(page'[x].chatList) = Elems(page[x].chatList) \cup {it}
                        \/ page'[x].chatList = page[x].chatList
  <2>0. page \in [User -> Page]
    BY DEF IInv, TypeOK
  <2>1. CASE page' = [page EXCEPT ![u].chatList = Append(@, it)]
    <3>1. page' = [page EXCEPT ![u] = [page[u] EXCEPT !.chatList = Append(page[u].chatList, it)]]
      BY <2>1
    <3>2. /\ [page[u] EXCEPT !.chatList = Append(page[u].chatList, it)] \in Page
          /\ [page[u] EXCEPT !.chatList = Append(page[u].chatList, it)].chatList = Append(page[u].chatList, it)
      BY <1>0, <1>17 DEF Page
    <3> QED BY <1>17, <2>0, <3>1, <3>2
  <2>2. CASE page' = [page EXCEPT ![u].at = "hung"]
    <3>1. page' = [page EXCEPT ![u] = [page[u] EXCEPT !.at = "hung"]]
      BY <2>2
    <3>2. /\ [page[u] EXCEPT !.at = "hung"] \in Page
          /\ [page[u] EXCEPT !.at = "hung"].chatList = page[u].chatList
      BY <1>0 DEF Page
    <3> QED BY <2>0, <2>2, <3>1, <3>2
  <2> QED BY <2>1, <2>2 DEF Added
<1>20. TypeOK'
  BY <1>7, <1>13, <1>19 DEF Added, IInv, TypeOK
<1>21. \A x \in User :
         /\ \A y \in Elems(up'[x]) : y \in Elems(up[x]) \/ WriteOK(x, y)'
         /\ \A y \in Elems(events'[x]) : y \in Elems(events[x]) \/ EventOK(x, y)'
         /\ \A y \in Elems(page'[x].chatList) : y \in Elems(page[x].chatList) \/ ItemOK(x, y)'
  BY <1>8, <1>9, <1>14, <1>15, <1>18, <1>19
<1>22. Flow'
  BY <1>3, <1>21, FlowKept
<1> QED BY <1>20, <1>22 DEF Good

LEMMA ChangedGood ==
  ASSUME IInv, NEW u \in User, Changed(u) PROVE Good
<1> PICK e : e = Head(events[u])
  OBVIOUS
<1> PICK items : items = page[u].chatList
  OBVIOUS
<1>0. /\ page[u] \in Page /\ items \in Seq(Item)
      /\ events[u] \in Seq(Event) /\ events[u] # <<>> /\ e.type = "change"
  BY InFlow DEF Changed
<1>1. /\ Tail(events[u]) \in Seq(Event) /\ Elems(Tail(events[u])) \subseteq Elems(events[u])
      /\ e \in Event /\ e \in Elems(events[u])
  BY <1>0, ElemsTail
<1>2. EventOK(u, e)
  BY <1>1, InFlow
<1>3. Grows
  BY DEF Changed, Grows
<1> PICK q : q = readChat(items, msgs[e.n])
  OBVIOUS
<1>4. /\ DOMAIN q = DOMAIN items
      /\ \A i \in DOMAIN items :
           q[i] = IF msgs[items[i].n].by = msgs[e.n].by /\ msgs[items[i].n].time = msgs[e.n].time
                  THEN [items[i] EXCEPT !.unread = FALSE] ELSE items[i]
  BY DEF readChat
<1>5. DOMAIN items = 1..Len(items) /\ Len(items) \in Nat /\ \A i \in DOMAIN items : items[i] \in Item
  BY <1>0
<1>6. \A i \in DOMAIN items : q[i] \in Item /\ ItemOK(u, q[i])
  <2> TAKE i \in DOMAIN items
  <2>1. items[i] \in Item /\ ItemOK(u, items[i])
    BY <1>5, InFlow DEF Elems
  <2>2. CASE q[i] = items[i]
    BY <2>1, <2>2
  <2>3. CASE /\ msgs[items[i].n].by = msgs[e.n].by /\ msgs[items[i].n].time = msgs[e.n].time
             /\ q[i] = [items[i] EXCEPT !.unread = FALSE]
    <3>1. q[i] \in Item /\ q[i].n = items[i].n
      BY <2>1, <2>3 DEF Item
    <3>2. msgs[e.n].by = u => e.n \in read
      BY <1>0, <1>2 DEF EventOK
    <3> QED BY <2>1, <2>3, <3>1, <3>2 DEF ItemOK
  <2> QED BY <1>4, <2>2, <2>3
<1>7. q \in Seq(Item) /\ \A it \in Elems(q) : ItemOK(u, it)
  <2>1. q \in [1..Len(items) -> Item]
    BY <1>4, <1>5, <1>6 DEF readChat
  <2>2. q \in Seq(Item)
    BY <1>5, <2>1, SeqDef
  <2> QED BY <1>4, <1>6, <2>2 DEF Elems
<1>8. page' = [page EXCEPT ![u] = [page[u] EXCEPT !.chatList = q]]
  BY DEF Changed
<1>9. [page[u] EXCEPT !.chatList = q] \in Page /\ [page[u] EXCEPT !.chatList = q].chatList = q
  BY <1>0, <1>7 DEF Page
<1>10. events' = [events EXCEPT ![u] = Tail(events[u])]
  BY DEF Changed
<1>11. TypeOK'
  <2>1. page' \in [User -> Page]
    BY <1>8, <1>9 DEF IInv, TypeOK
  <2>2. events' \in [User -> Seq(Event)]
    BY <1>1, <1>10 DEF IInv, TypeOK
  <2> QED BY <2>1, <2>2 DEF Changed, IInv, TypeOK
<1>12. \A x \in User : Elems(events'[x]) \subseteq Elems(events[x])
  BY <1>1, <1>10 DEF IInv, TypeOK
<1>13. \A x \in User : \/ x = u /\ page'[x].chatList = q
                      \/ page'[x].chatList = page[x].chatList
  BY <1>8, <1>9 DEF IInv, TypeOK
<1>14. \A it \in Elems(q) : ItemOK(u, it)'
  BY <1>3, <1>7, Kept, InFlow
<1>15. \A x \in User : up'[x] = up[x]
  BY DEF Changed
<1>16. Flow'
  BY <1>3, <1>12, <1>13, <1>14, <1>15, FlowKept
<1> QED BY <1>11, <1>16 DEF Good

LEMMA StillGood ==
  ASSUME IInv, UNCHANGED <<msgs, up, log, read, opens, page, events>>,
         clock' \in 0..MaxClock, sent' \in 0..MaxSends, sent' >= sent,
         sends' \in [User -> SUBSET Send], stored' \subseteq 1..sent'
  PROVE  Good
<1>1. Len(msgs) \in Nat /\ sent \in Nat /\ sent' \in Nat /\ Len(msgs) <= sent'
  BY ChatAssumption DEF IInv, TypeOK
<1>2. TypeOK'
  BY <1>1 DEF IInv, TypeOK
<1>3. Flow'
  BY FlowKept DEF Grows
<1> QED BY <1>2, <1>3 DEF Good

LEMMA ClickGood ==
  ASSUME IInv, NEW u \in User, Click(u) PROVE Good /\ StoredOnce' /\ Unanswered'
<1> PICK s : s = [id |-> sent + 1, time |-> clock, fresh |-> TRUE]
  OBVIOUS
<1>1. sent \in Nat /\ sent < MaxSends /\ MaxSends \in Nat /\ sent' = sent + 1
  BY ChatAssumption DEF Click, IInv, TypeOK
<1>2. s \in Send /\ s.id = sent + 1
  BY <1>1 DEF Send, IInv, TypeOK
<1>3. sends' = [sends EXCEPT ![u] = sends[u] \cup {s}]
  BY DEF Click
<1>4. sends' \in [User -> SUBSET Send]
  BY <1>2, <1>3 DEF IInv, TypeOK
<1>5. \A v \in User : \A t \in sends'[v] : \/ t \in sends[v]
                                           \/ t = s /\ v = u
  <2>1. sends \in [User -> SUBSET Send]
    BY DEF IInv, TypeOK
  <2>2. \A v \in User : sends'[v] = IF v = u THEN sends[u] \cup {s} ELSE sends[v]
    BY <1>3, <2>1
  <2> TAKE v \in User
  <2> TAKE t \in sends'[v]
  <2>3. CASE v = u
    BY <2>2, <2>3
  <2>4. CASE v # u
    BY <2>2, <2>4
  <2> QED BY <2>3, <2>4
<1>6. \A v \in User : \A t \in sends[v] : t.id <= sent /\ t.id \in Nat
  <2> TAKE v \in User
  <2> TAKE t \in sends[v]
  <2>1. t \in Send
    BY DEF IInv, TypeOK
  <2>2. t.id <= sent
    BY DEF IInv, Unanswered
  <2> QED BY <2>1, <2>2 DEF Send
<1>7. \A n \in DOMAIN msgs : msgs[n].send \in 1..sent
  BY DEF IInv, StoredOnce, TypeOK
<1>8. Unanswered'
  <2>1. \A v \in User : \A t \in sends'[v] : t.id <= sent'
    BY <1>1, <1>2, <1>5, <1>6
  <2>2. msgs' = msgs
    BY DEF Click
  <2>3. \A n \in DOMAIN msgs : msgs[n].send # s.id
    BY <1>1, <1>2, <1>7
  <2>4. \A v \in User : \A t \in sends'[v] : \A n \in DOMAIN msgs : msgs[n].send # t.id
    BY <1>5, <2>3 DEF IInv, Unanswered
  <2>5. \A v \in User : \A t \in sends[v] : t.id # s.id
    BY <1>1, <1>2, <1>6
  <2>6. ASSUME NEW v \in User, NEW x \in User, NEW t \in sends'[v], NEW y \in sends'[x], t.id = y.id
        PROVE  v = x /\ t = y
    <3>1. CASE t \in sends[v] /\ y \in sends[x]
      BY <2>6, <3>1 DEF IInv, Unanswered
    <3>2. CASE t = s /\ v = u /\ y = s /\ x = u
      BY <3>2
    <3>3. CASE t \in sends[v] /\ y = s
      BY <2>5, <2>6, <3>3
    <3>4. CASE t = s /\ y \in sends[x]
      BY <2>5, <2>6, <3>4
    <3> QED BY <1>5, <3>1, <3>2, <3>3, <3>4
  <2> QED BY <2>1, <2>2, <2>4, <2>6 DEF Unanswered
<1>9. StoredOnce'
  BY DEF Click, IInv, StoredOnce
<1>10. /\ sent' \in 0..MaxSends /\ sent' >= sent /\ clock' \in 0..MaxClock
       /\ stored' \subseteq 1..sent'
  <2>1. stored \subseteq 1..sent /\ stored' = stored /\ clock' = clock /\ clock \in 0..MaxClock
    BY DEF Click, IInv, TypeOK
  <2>2. 1..sent \subseteq 1..sent'
    BY <1>1
  <2> QED BY <1>1, <2>1, <2>2
<1>11. Good
  BY <1>4, <1>10, StillGood DEF Click
<1> QED BY <1>8, <1>9, <1>11

LEMMA StoreGood ==
  ASSUME IInv, NEW u \in User, NEW s \in sends[u], Store(u, s)
  PROVE  Good /\ StoredOnce' /\ Unanswered'
<1>1. s.id \in 1..sent /\ sent \in Nat
  <2>1. s \in Send /\ s.id <= sent /\ sent \in Nat
    BY ChatAssumption DEF IInv, TypeOK, Unanswered
  <2> QED BY <2>1 DEF Send
<1>2. stored' \subseteq 1..sent /\ stored \subseteq stored'
  BY <1>1 DEF Store, IInv, TypeOK
<1>3. Good
  BY <1>1, <1>2, StillGood DEF Store, IInv, TypeOK
<1> QED BY <1>2, <1>3, SendsKept DEF Store, IInv

LEMMA FailGood ==
  ASSUME IInv, NEW u \in User, NEW s \in sends[u], Fail(u, s)
  PROVE  Good /\ StoredOnce' /\ Unanswered'
<1>1. sends' \in [User -> SUBSET Send] /\ \A v \in User : sends'[v] \subseteq sends[v]
  BY DEF Fail, IInv, TypeOK
<1>2. sent \in Nat
  BY ChatAssumption DEF IInv, TypeOK
<1>3. Good
  BY <1>1, <1>2, StillGood DEF Fail, IInv, TypeOK
<1> QED BY <1>1, <1>3, SendsKept DEF Fail, IInv

LEMMA TickGood ==
  ASSUME IInv, Tick PROVE Good /\ StoredOnce' /\ Unanswered'
<1>1. clock' \in 0..MaxClock /\ sent \in Nat
  BY ChatAssumption DEF Tick, IInv, TypeOK
<1>2. Good
  BY <1>1, StillGood DEF Tick, IInv, TypeOK
<1> QED BY <1>2, SendsKept DEF Tick, IInv

LEMMA CloseSends ==
  ASSUME IInv, NEW u \in User, Close(u) PROVE StoredOnce' /\ Unanswered'
<1> DEFINE Stale(s) == [id |-> s.id, time |-> s.time, fresh |-> FALSE]
<1>1. sends' = [sends EXCEPT ![u] = {Stale(s) : s \in sends[u]}]
  BY DEF Close
<1>2. \A v \in User : \A t \in sends'[v] :
        \E s \in sends[v] : t.id = s.id /\ (v # u => t = s) /\ (v = u => t = Stale(s))
  BY <1>1 DEF IInv, TypeOK
<1> HIDE DEF Stale
<1>3. UNCHANGED <<msgs, stored, sent>>
  BY DEF Close
<1>4. \A v \in User : \A t \in sends'[v] : t.id <= sent'
  BY <1>2, <1>3 DEF IInv, Unanswered
<1>5. \A v \in User : \A t \in sends'[v] : \A n \in DOMAIN msgs' : msgs'[n].send # t.id
  BY <1>2, <1>3 DEF IInv, Unanswered
<1>6. ASSUME NEW v \in User, NEW x \in User, NEW t \in sends'[v], NEW y \in sends'[x], t.id = y.id
      PROVE  v = x /\ t = y
  <2> PICK s \in sends[v] : t.id = s.id /\ (v # u => t = s) /\ (v = u => t = Stale(s))
    BY <1>2
  <2> PICK r \in sends[x] : y.id = r.id /\ (x # u => y = r) /\ (x = u => y = Stale(r))
    BY <1>2
  <2>1. v = x /\ s = r
    BY <1>6 DEF IInv, Unanswered
  <2> QED BY <2>1
<1>7. Unanswered'
  BY <1>4, <1>5, <1>6 DEF Unanswered
<1>8. StoredOnce'
  BY <1>3 DEF IInv, StoredOnce
<1> QED BY <1>7, <1>8

LEMMA DiesSends ==
  ASSUME IInv, NEW u \in User, Dies(u) PROVE StoredOnce' /\ Unanswered'
<1>1. \A v \in User : sends'[v] \subseteq sends[v]
  BY DEF Dies, IInv, TypeOK
<1> QED BY <1>1, SendsKept DEF Dies, IInv

-----------------------------------------------------------------------------
LEMMA InitOK == Init => IInv
<1> SUFFICES ASSUME Init PROVE IInv
  OBVIOUS
<1>1. <<>> \in Seq(Write) /\ <<>> \in Seq(Event) /\ <<>> \in Seq(Message) /\ Len(<<>>) = 0
  BY EmptySeq
<1>2. Closed \in Page
  BY ClosedOK
<1>3. up \in [User -> Seq(Write)] /\ events \in [User -> Seq(Event)] /\ page \in [User -> Page]
  BY <1>1, <1>2 DEF Init
<1>4. TypeOK
  BY <1>1, <1>3, ChatAssumption DEF Init, TypeOK
<1>5. StoredOnce /\ Unanswered
  BY DEF Init, StoredOnce, Unanswered
<1>6. \A u \in User : Elems(up[u]) = {} /\ Elems(events[u]) = {} /\ Elems(page[u].chatList) = {}
  BY ElemsEmpty, ClosedOK DEF Init
<1>7. Flow
  BY <1>6 DEF Flow
<1> QED BY <1>4, <1>5, <1>7 DEF IInv

LEMMA StepOK == IInv /\ [Next]_vars => IInv'
<1> SUFFICES ASSUME IInv, [Next]_vars PROVE Good /\ StoredOnce' /\ Unanswered'
  BY DEF Good, IInv
<1>1. CASE Tick
  BY <1>1, TickGood
<1>2. ASSUME NEW u \in User, Open(u) PROVE Good /\ StoredOnce' /\ Unanswered'
  BY <1>2, OpenGood, SendsKept DEF Open, IInv
<1>3. ASSUME NEW u \in User, Close(u) PROVE Good /\ StoredOnce' /\ Unanswered'
  BY <1>3, CloseGood, CloseSends
<1>4. ASSUME NEW u \in User, Dies(u) PROVE Good /\ StoredOnce' /\ Unanswered'
  BY <1>4, DiesGood, DiesSends
<1>5. ASSUME NEW u \in User, Click(u) PROVE Good /\ StoredOnce' /\ Unanswered'
  BY <1>5, ClickGood
<1>6. ASSUME NEW u \in User, ImageReply(u) PROVE Good /\ StoredOnce' /\ Unanswered'
  BY <1>6, ImageReplyGood, SendsKept DEF ImageReply, IInv
<1>7. ASSUME NEW u \in User, Added(u) PROVE Good /\ StoredOnce' /\ Unanswered'
  BY <1>7, AddedGood, SendsKept DEF Added, IInv
<1>8. ASSUME NEW u \in User, Changed(u) PROVE Good /\ StoredOnce' /\ Unanswered'
  BY <1>8, ChangedGood, SendsKept DEF Changed, IInv
<1>9. ASSUME NEW u \in User, Commit(u) PROVE Good /\ StoredOnce' /\ Unanswered'
  BY <1>9, CommitGood, SendsKept DEF Commit, IInv
<1>10. ASSUME NEW u \in User, NEW s \in sends[u],
              Store(u, s) \/ Reply(u, s) \/ LateReply(u, s) \/ Fail(u, s)
       PROVE  Good /\ StoredOnce' /\ Unanswered'
  BY <1>4, <1>10, StoreGood, ReplyGood, FailGood DEF LateReply
<1>11. CASE UNCHANGED vars
  <2>1. Good
    BY <1>11, FlowKept DEF Good, vars, IInv, TypeOK, Grows
  <2> QED BY <2>1, <1>11 DEF vars, IInv, StoredOnce, Unanswered
<1> QED
  BY <1>1, <1>2, <1>3, <1>4, <1>5, <1>6, <1>7, <1>8, <1>9, <1>10, <1>11
     DEF Next, UserStep, PageStep, ServerStep, Kill

LEMMA Invariance == Spec => []IInv
BY InitOK, StepOK, PTL DEF Spec

\* The type invariant of the chat: in particular what is read is in the log,
\* and there are no more messages than were sent.
THEOREM ChatTypeCorrect == Spec => []TypeOK
BY Invariance, PTL DEF IInv

\* Every message in Firebase was stored by the server, from a send of its own.
THEOREM ChatStoredOnce == Spec => []StoredOnce
BY Invariance, PTL DEF IInv

\* A page that shows a message of its user as read has one of that second
\* which is read in the log.
THEOREM ChatReadInSecond == Spec => []ReadInSecond
<1>1. IInv => ReadInSecond
  <2> SUFFICES ASSUME IInv, NEW u \in User, NEW i \in DOMAIN page[u].chatList,
                      NEW it, it = page[u].chatList[i],
                      msgs[it.n].by = u, ~it.unread
               PROVE  \E m \in read : msgs[m].by = u /\ msgs[m].time = msgs[it.n].time
    BY DEF ReadInSecond
  <2>1. it \in Elems(page[u].chatList)
    BY DEF Elems
  <2>2. it \in Item /\ ItemOK(u, it)
    BY <2>1, InFlow, ElemsIn
  <2>3. it.unread = FALSE
    BY <2>2 DEF Item
  <2> QED BY <2>2, <2>3 DEF ItemOK
<1> QED BY <1>1, Invariance, PTL
-----------------------------------------------------------------------------
\* Every two elements of a sequence, the earlier first, are in R.
InTurn(s, R) == \A i, j \in DOMAIN s : i < j => <<s[i], s[j]>> \in R

LEMMA InTurnAppend ==
  ASSUME NEW S, NEW R, NEW s \in Seq(S), NEW e \in S,
         InTurn(s, R), \A x \in Elems(s) : <<x, e>> \in R
  PROVE  InTurn(Append(s, e), R)
<1>1. /\ Len(Append(s, e)) = Len(s) + 1 /\ Append(s, e) \in Seq(S)
      /\ \A i \in 1..Len(s) : Append(s, e)[i] = s[i]
      /\ Append(s, e)[Len(s) + 1] = e
  BY AppendProperties
<1>2. DOMAIN s = 1..Len(s) /\ Len(s) \in Nat /\ DOMAIN Append(s, e) = 1..(Len(s) + 1)
  BY <1>1
<1> SUFFICES ASSUME NEW i \in 1..(Len(s) + 1), NEW j \in 1..(Len(s) + 1), i < j
             PROVE  <<Append(s, e)[i], Append(s, e)[j]>> \in R
  BY <1>2 DEF InTurn
<1>3. i \in 1..Len(s) /\ s[i] \in Elems(s)
  BY <1>2 DEF Elems
<1>4. CASE j \in 1..Len(s)
  BY <1>1, <1>2, <1>3, <1>4 DEF InTurn
<1>5. CASE j = Len(s) + 1
  BY <1>1, <1>3, <1>5
<1> QED BY <1>2, <1>4, <1>5

LEMMA InTurnTail ==
  ASSUME NEW S, NEW R, NEW s \in Seq(S), s # <<>>, InTurn(s, R)
  PROVE  InTurn(Tail(s), R) /\ \A x \in Elems(Tail(s)) : <<Head(s), x>> \in R
<1>1. /\ Tail(s) \in Seq(S) /\ Len(Tail(s)) = Len(s) - 1
      /\ \A i \in 1..Len(Tail(s)) : Tail(s)[i] = s[i + 1]
  BY HeadTailProperties
<1>2. DOMAIN s = 1..Len(s) /\ Len(s) \in Nat /\ Len(s) > 0 /\ Head(s) = s[1]
  BY EmptySeq
<1>3. DOMAIN Tail(s) = 1..(Len(s) - 1)
  BY <1>1
<1>4. \A i \in DOMAIN Tail(s) : i + 1 \in DOMAIN s /\ Tail(s)[i] = s[i + 1] /\ 1 < i + 1
  BY <1>1, <1>2, <1>3
<1>5. InTurn(Tail(s), R)
  <2> SUFFICES ASSUME NEW i \in DOMAIN Tail(s), NEW j \in DOMAIN Tail(s), i < j
               PROVE  <<Tail(s)[i], Tail(s)[j]>> \in R
    BY DEF InTurn
  <2>1. i + 1 < j + 1 BY <1>2, <1>3
  <2> QED BY <1>4, <2>1 DEF InTurn
<1>6. \A x \in Elems(Tail(s)) : <<Head(s), x>> \in R
  <2> TAKE x \in Elems(Tail(s))
  <2> PICK i \in DOMAIN Tail(s) : x = Tail(s)[i] BY DEF Elems
  <2>1. 1 \in DOMAIN s BY <1>2
  <2> QED BY <1>2, <1>4, <2>1 DEF InTurn
<1> QED BY <1>5, <1>6

LEMMA InTurnEmpty == \A R : InTurn(<<>>, R)
BY DEF InTurn
-----------------------------------------------------------------------------
\* Of one speaker, m was said before n.
Before(m, n) == msgs[m].by = msgs[n].by => m < n

PutOrder == {p \in Write \X Write : p[1].op = "put" /\ p[2].op = "put" => p[1].n < p[2].n}
AddOrder == {p \in Event \X Event : p[1].type = "add" /\ p[2].type = "add" => Before(p[1].n, p[2].n)}
ItemOrder == {p \in Item \X Item : Before(p[1].n, p[2].n)}

\* What a client has on its way to the log comes after what the log has of its
\* user; what a page is going to show, after what it shows.
OrderOK(u) ==
  /\ InTurn(up[u], PutOrder)
  /\ \A w \in Elems(up[u]) : w.op = "put" => \A m \in log : msgs[m].by = u => m < w.n
  /\ InTurn(events[u], AddOrder)
  /\ InTurn(page[u].chatList, ItemOrder)
  /\ \A it \in Elems(page[u].chatList) : msgs[it.n].by # u => it.n \in log
  /\ \A it \in Elems(page[u].chatList), e \in Elems(events[u]) : e.type = "add" => Before(it.n, e.n)

InOrder == \A u \in User : OrderOK(u)

\* The log may get more of others.
LEMMA OrderKept ==
  ASSUME IInv, NEW v \in User, OrderOK(v), msgs' = msgs,
         up'[v] = up[v], events'[v] = events[v], page'[v].chatList = page[v].chatList,
         log \subseteq log', \A m \in log' : m \in log \/ msgs[m].by # v
  PROVE  OrderOK(v)'
<1>1. AddOrder' = AddOrder /\ ItemOrder' = ItemOrder /\ PutOrder' = PutOrder
  BY DEF AddOrder, ItemOrder, PutOrder, Before
<1>2. \A m, n : Before(m, n) => Before(m, n)'
  BY DEF Before
<1> QED BY <1>1, <1>2 DEF OrderOK

LEMMA OpenOrder ==
  ASSUME IInv, InOrder, NEW u \in User, Open(u) PROVE InOrder'
<1> PICK known \in BOOLEAN :
      page' = [page EXCEPT ![u] = [at |-> "open", image |-> known, chatList |-> <<>>]]
  BY DEF Open
<1> PICK s \in Snapshots(u) : events' = [events EXCEPT ![u] = s]
  BY DEF Open
<1>0. page \in [User -> Page] /\ events \in [User -> Seq(Event)] /\ s \in Seq(Event) /\ DOMAIN s = 1..Len(s)
  BY SnapshotOK DEF IInv, TypeOK
<1>1. InTurn(s, AddOrder)
  <2> DEFINE S == log \cup Pending(u, "put")
  <2>1. PICK q \in Ordered(S) :
          s = [i \in DOMAIN q |->
                [type |-> "add", n |-> q[i], unread |-> q[i] \notin read \cup Pending(u, "read")]]
    BY DEF Snapshots
  <2>2. \A i, j \in DOMAIN s : i < j => s[i].n < s[j].n
    BY <2>1 DEF Ordered
  <2>3. \A i \in DOMAIN s : s[i] \in Event BY <1>0
  <2> QED BY <2>2, <2>3 DEF InTurn, AddOrder, Before
<1>2. UNCHANGED <<msgs, up, log>> BY DEF Open
<1>3. AddOrder' = AddOrder /\ PutOrder' = PutOrder
  BY <1>2 DEF AddOrder, PutOrder, Before
<1>4. OrderOK(u)'
  <2>1. page'[u].chatList = <<>> /\ events'[u] = s BY <1>0
  <2> QED BY <1>1, <1>2, <1>3, <2>1, InTurnEmpty, ElemsEmpty DEF InOrder, OrderOK
<1>5. \A v \in User : v # u => OrderOK(v)'
  BY <1>0, <1>2, OrderKept DEF InOrder
<1> QED BY <1>4, <1>5 DEF InOrder

\* A page that is left, with or without its process.
LEMMA LeaveOrder ==
  ASSUME IInv, InOrder, NEW u \in User, UNCHANGED <<msgs, log>>,
         page' = [page EXCEPT ![u] = Closed], events' = [events EXCEPT ![u] = <<>>],
         up' = up \/ up' = [up EXCEPT ![u] = <<>>]
  PROVE  InOrder'
<1>0. page \in [User -> Page] /\ events \in [User -> Seq(Event)] /\ up \in [User -> Seq(Write)]
  BY DEF IInv, TypeOK
<1>1. PutOrder' = PutOrder BY DEF PutOrder
<1>2. OrderOK(u)'
  <2>1. page'[u].chatList = <<>> /\ events'[u] = <<>> /\ (up'[u] = <<>> \/ up'[u] = up[u])
    BY <1>0, ClosedOK
  <2> QED BY <1>1, <2>1, InTurnEmpty, ElemsEmpty DEF InOrder, OrderOK
<1>3. \A v \in User : v # u => OrderOK(v)'
  BY <1>0, OrderKept DEF InOrder
<1> QED BY <1>2, <1>3 DEF InOrder

\* A message that is written comes after all others.
LEMMA ReplyOrder ==
  ASSUME IInv, InOrder, NEW u \in User, NEW s \in sends[u], Reply(u, s), TypeOK'
  PROVE  InOrder'
<1> PICK n : n = Len(msgs) + 1
  OBVIOUS
<1> PICK blank \in BOOLEAN :
      msgs' = Append(msgs, [by |-> u, time |-> s.time, send |-> s.id, blank |-> blank])
  BY DEF Reply, writeFirebase
<1>1. /\ \A i \in DOMAIN msgs : msgs'[i] = msgs[i] /\ i < n
      /\ msgs'[n].by = u /\ n \in 1..MaxSends
  <2>1. msgs \in Seq(Message) /\ msgs' \in Seq(Message) /\ Len(msgs') <= MaxSends /\ MaxSends \in Nat
    BY ChatAssumption DEF IInv, TypeOK
  <2>2. Len(msgs) \in Nat /\ DOMAIN msgs = 1..Len(msgs) BY <2>1
  <2> QED BY <2>1, <2>2
<1> DEFINE w == [op |-> "put", n |-> n]
           e == [type |-> "add", n |-> n, unread |-> TRUE]
<1>2. w \in Write /\ e \in Event BY <1>1 DEF Write, Event
<1>3. /\ up' = [up EXCEPT ![u] = Append(up[u], w)] /\ events' = [events EXCEPT ![u] = Append(events[u], e)]
      /\ page' = page /\ log' = log
  BY DEF Reply, writeFirebase
<1>4. \A v \in User : /\ up[v] \in Seq(Write) /\ events[v] \in Seq(Event) /\ page[v].chatList \in Seq(Item)
                      /\ \A x \in Elems(up[v]) : x \in Write /\ x.n \in DOMAIN msgs
                      /\ \A x \in Elems(events[v]) : x \in Event /\ x.n \in DOMAIN msgs
                      /\ \A x \in Elems(page[v].chatList) : x \in Item /\ x.n \in DOMAIN msgs
                      /\ log \subseteq DOMAIN msgs
  BY InFlow, ElemsIn DEF WriteOK, EventOK, ItemOK
<1>5. w.op = "put" /\ w.n = n /\ e.type = "add" /\ e.n = n
  OBVIOUS
<1> HIDE DEF w, e
<1>6. \A a \in DOMAIN msgs : \A b \in DOMAIN msgs : Before(a, b) => Before(a, b)'
  BY <1>1 DEF Before
<1>7. \A v \in User : /\ InTurn(up[v], PutOrder) /\ InTurn(events[v], AddOrder')
                      /\ InTurn(page[v].chatList, ItemOrder')
  <2> TAKE v \in User
  <2>1. InTurn(up[v], PutOrder) /\ InTurn(events[v], AddOrder) /\ InTurn(page[v].chatList, ItemOrder)
    BY DEF InOrder, OrderOK
  <2>2. InTurn(events[v], AddOrder')
    <3>1. \A i \in DOMAIN events[v] : events[v][i] \in Event /\ events[v][i].n \in DOMAIN msgs
      BY <1>4 DEF Elems
    <3> QED BY <1>6, <2>1, <3>1 DEF InTurn, AddOrder
  <2>3. InTurn(page[v].chatList, ItemOrder')
    <3>1. \A i \in DOMAIN page[v].chatList : page[v].chatList[i] \in Item /\ page[v].chatList[i].n \in DOMAIN msgs
      BY <1>4 DEF Elems
    <3> QED BY <1>6, <2>1, <3>1 DEF InTurn, ItemOrder
  <2> QED BY <2>1, <2>2, <2>3
<1>8. InTurn(Append(up[u], w), PutOrder)
  <2>1. \A x \in Elems(up[u]) : <<x, w>> \in PutOrder
    BY <1>1, <1>2, <1>4, <1>5 DEF PutOrder
  <2> QED BY <1>2, <1>4, <1>7, <2>1, InTurnAppend
<1>9. InTurn(Append(events[u], e), AddOrder')
  <2>1. \A x \in Elems(events[u]) : <<x, e>> \in AddOrder'
    BY <1>1, <1>2, <1>4, <1>5 DEF AddOrder, Before
  <2> QED BY <1>2, <1>4, <1>7, <2>1, InTurnAppend
<1>10. PutOrder' = PutOrder BY DEF PutOrder
<1>11. ASSUME NEW v \in User PROVE OrderOK(v)'
  <2>1. /\ up'[v] = (IF v = u THEN Append(up[u], w) ELSE up[v])
        /\ events'[v] = (IF v = u THEN Append(events[u], e) ELSE events[v])
    BY <1>3 DEF IInv, TypeOK
  <2>2. /\ \A x \in Elems(up'[v]) : x \in Elems(up[v]) \/ (v = u /\ x = w)
        /\ \A x \in Elems(events'[v]) : x \in Elems(events[v]) \/ (v = u /\ x = e)
    <3>1. Elems(Append(up[u], w)) = Elems(up[u]) \cup {w}
      BY <1>2, <1>4, ElemsAppend
    <3>2. Elems(Append(events[u], e)) = Elems(events[u]) \cup {e}
      BY <1>2, <1>4, ElemsAppend
    <3> QED BY <2>1, <3>1, <3>2
  <2>3. InTurn(up'[v], PutOrder') /\ InTurn(events'[v], AddOrder')
    BY <1>7, <1>8, <1>9, <1>10, <2>1
  <2>4. \A x \in Elems(up'[v]) : x.op = "put" => \A m \in log : msgs[m].by = v => m < x.n
    <3>1. \A m \in log : m < w.n BY <1>1, <1>4, <1>5
    <3> QED BY <2>2, <3>1 DEF InOrder, OrderOK
  <2>5. \A x \in Elems(up'[v]) : x.op = "put" => \A m \in log' : msgs'[m].by = v => m < x.n
    BY <1>1, <1>3, <1>4, <2>4
  <2>6. \A it \in Elems(page[v].chatList) : msgs'[it.n].by # v => it.n \in log'
    BY <1>1, <1>3, <1>4 DEF InOrder, OrderOK
  <2>7. \A it \in Elems(page[v].chatList), x \in Elems(events'[v]) : x.type = "add" => Before(it.n, x.n)'
    <3>1. \A it \in Elems(page[v].chatList) : Before(it.n, e.n)'
      BY <1>1, <1>4, <1>5 DEF Before
    <3>2. \A it \in Elems(page[v].chatList), x \in Elems(events[v]) : x.type = "add" => Before(it.n, x.n)'
      BY <1>4, <1>6 DEF InOrder, OrderOK
    <3> QED BY <2>2, <3>1, <3>2
  <2> QED BY <1>3, <1>7, <2>3, <2>5, <2>6, <2>7 DEF OrderOK
<1> QED BY <1>11 DEF InOrder

\* The log takes the first of what a client wrote.
LEMMA CommitOrder ==
  ASSUME IInv, InOrder, NEW u \in User, Commit(u) PROVE InOrder'
<1> PICK w : w = Head(up[u])
  OBVIOUS
<1> PICK v : v = Other(u)
  OBVIOUS
<1>1. v \in User /\ v # u /\ \A x \in User : x = u \/ x = v
  BY OtherOK DEF User, Other
<1>2. /\ up[u] \in Seq(Write) /\ up[u] # <<>> /\ w \in Write /\ w \in Elems(up[u]) /\ WriteOK(u, w)
      /\ Elems(Tail(up[u])) \subseteq Elems(up[u])
  <2>1. up[u] \in Seq(Write) /\ up[u] # <<>>
    BY InFlow DEF Commit
  <2> QED BY <2>1, ElemsTail, InFlow
<1>3. /\ up' = [up EXCEPT ![u] = Tail(up[u])] /\ UNCHANGED <<msgs, page>>
      /\ log' = (IF w.op = "put" THEN log \cup {w.n} ELSE log)
      /\ \E e \in Event : /\ e.type = "add" => w.op = "put" /\ e.n = w.n
                          /\ events' = events \/ events' = Tell(v, e)
  <2>1. [type |-> "add", n |-> w.n, unread |-> TRUE] \in Event /\ [type |-> "change", n |-> w.n, unread |-> FALSE] \in Event
    BY <1>2 DEF Write, Event
  <2>2. \/ w.op = "put" /\ log' = log \cup {w.n} /\ events' = Tell(v, [type |-> "add", n |-> w.n, unread |-> TRUE])
        \/ w.op = "read" /\ log' = log /\ (events' = events \/ events' = Tell(v, [type |-> "change", n |-> w.n, unread |-> FALSE]))
    BY DEF Commit
  <2>3. [type |-> "add", n |-> w.n, unread |-> TRUE].n = w.n /\ [type |-> "change", n |-> w.n, unread |-> FALSE].type # "add"
    OBVIOUS
  <2>4. up' = [up EXCEPT ![u] = Tail(up[u])] /\ UNCHANGED <<msgs, page>> BY DEF Commit
  <2>5. CASE w.op = "put" BY <2>1, <2>2, <2>3, <2>4, <2>5
  <2>6. CASE w.op = "read" BY <2>1, <2>2, <2>3, <2>4, <2>6
  <2> QED BY <2>2, <2>5, <2>6
<1>4. up'[u] = Tail(up[u]) /\ up'[v] = up[v] /\ events'[u] = events[u]
  BY <1>1, <1>3 DEF Tell, IInv, TypeOK
<1>5. AddOrder' = AddOrder /\ ItemOrder' = ItemOrder /\ PutOrder' = PutOrder
  BY <1>3 DEF AddOrder, ItemOrder, PutOrder, Before
<1>6. \A m, n : Before(m, n) => Before(m, n)'
  BY <1>3 DEF Before
<1>7. w.op = "put" => w.n \in DOMAIN msgs /\ msgs[w.n].by = u
  BY <1>2 DEF WriteOK
<1>8. OrderOK(u)'
  <2>1. InTurn(up'[u], PutOrder) /\ \A x \in Elems(up'[u]) : <<w, x>> \in PutOrder
    BY <1>2, <1>4, InTurnTail DEF InOrder, OrderOK
  <2>2. \A x \in Elems(up'[u]) : x.op = "put" => \A m \in log' : msgs[m].by = u => m < x.n
    <3> SUFFICES ASSUME NEW x \in Elems(up'[u]), x.op = "put", NEW m \in log', msgs[m].by = u
                 PROVE  m < x.n
      OBVIOUS
    <3>1. CASE m \in log BY <1>2, <1>4, <3>1 DEF InOrder, OrderOK
    <3>2. CASE w.op = "put" /\ m = w.n BY <2>1, <3>2 DEF PutOrder
    <3> QED BY <1>3, <3>1, <3>2
  <2> QED BY <1>3, <1>4, <1>5, <1>6, <2>1, <2>2 DEF InOrder, OrderOK
<1>9. OrderOK(v)'
  <2> PICK e \in Event : /\ e.type = "add" => w.op = "put" /\ e.n = w.n
                         /\ events' = events \/ events' = Tell(v, e)
    BY <1>3
  <2>0. /\ events \in [User -> Seq(Event)] /\ events[v] \in Seq(Event)
        /\ \A x \in Elems(events[v]) : x \in Event /\ EventOK(v, x)
        /\ \A it \in Elems(page[v].chatList) : it.n \in DOMAIN msgs
    BY <1>1, InFlow, ElemsIn DEF IInv, TypeOK, ItemOK
  <2>1. \A m \in log' : m \in log \/ msgs[m].by # v
    BY <1>1, <1>3, <1>7
  <2>2. CASE events'[v] = events[v]
    BY <1>1, <1>3, <1>4, <2>1, <2>2, OrderKept DEF InOrder
  <2>3. CASE events'[v] = Append(events[v], e)
    <3>1. e.type = "add" => \A m \in log : msgs[m].by = u => m < e.n
      BY <1>2 DEF InOrder, OrderOK
    <3>2. \A x \in Elems(events[v]) : <<x, e>> \in AddOrder
      <4> SUFFICES ASSUME NEW x \in Elems(events[v]), x.type = "add", e.type = "add", msgs[x.n].by = msgs[e.n].by
                   PROVE  x.n < e.n
        BY <2>0 DEF AddOrder, Before
      <4>1. msgs[x.n].by = u BY <1>7
      <4>2. x.n \in log BY <1>1, <2>0, <4>1 DEF EventOK
      <4> QED BY <3>1, <4>1, <4>2
    <3>3. InTurn(events'[v], AddOrder)
      BY <1>1, <2>0, <2>3, <3>2, InTurnAppend DEF InOrder, OrderOK
    <3>4. Elems(events'[v]) = Elems(events[v]) \cup {e}
      BY <2>0, <2>3, ElemsAppend
    <3>5. \A it \in Elems(page[v].chatList) : e.type = "add" => Before(it.n, e.n)
      <4> SUFFICES ASSUME NEW it \in Elems(page[v].chatList), e.type = "add", msgs[it.n].by = msgs[e.n].by
                   PROVE  it.n < e.n
        BY DEF Before
      <4>1. msgs[it.n].by = u BY <1>7
      <4>2. it.n \in log BY <1>1, <4>1 DEF InOrder, OrderOK
      <4> QED BY <3>1, <4>1, <4>2
    <3>6. \A it \in Elems(page[v].chatList), x \in Elems(events'[v]) : x.type = "add" => Before(it.n, x.n)
      BY <1>1, <3>4, <3>5 DEF InOrder, OrderOK
    <3>7. \A x \in Elems(up[v]) : x.op = "put" => \A m \in log' : msgs[m].by = v => m < x.n
      BY <1>1, <2>1 DEF InOrder, OrderOK
    <3>8. \A it \in Elems(page[v].chatList) : msgs[it.n].by # v => it.n \in log'
      BY <1>1, <1>3 DEF InOrder, OrderOK
    <3> QED BY <1>1, <1>3, <1>4, <1>5, <1>6, <3>3, <3>6, <3>7, <3>8 DEF InOrder, OrderOK
  <2> QED BY <1>1, <2>0, <2>2, <2>3 DEF Tell
<1> QED BY <1>1, <1>8, <1>9 DEF InOrder

\* A page shows the first of what it was told, or hangs.
LEMMA AddedOrder ==
  ASSUME IInv, InOrder, NEW u \in User, Added(u) PROVE InOrder'
<1> PICK e : e = Head(events[u])
  OBVIOUS
<1>0. /\ up[u] \in Seq(Write) /\ page[u] \in Page /\ page[u].chatList \in Seq(Item)
      /\ events[u] \in Seq(Event) /\ events[u] # <<>> /\ e.type = "add"
      /\ page \in [User -> Page] /\ events \in [User -> Seq(Event)] /\ up \in [User -> Seq(Write)]
  BY InFlow DEF Added, IInv, TypeOK
<1> DEFINE rest == Tail(events[u])
<1>1. /\ rest \in Seq(Event) /\ Elems(rest) \subseteq Elems(events[u])
      /\ e \in Event /\ e \in Elems(events[u]) /\ EventOK(u, e)
  BY <1>0, ElemsTail, InFlow
<1>2. InTurn(rest, AddOrder) /\ \A x \in Elems(rest) : <<e, x>> \in AddOrder
  BY <1>0, InTurnTail DEF InOrder, OrderOK
<1> HIDE DEF rest
<1>3. UNCHANGED <<msgs, log>> /\ AddOrder' = AddOrder /\ ItemOrder' = ItemOrder /\ PutOrder' = PutOrder
  BY DEF Added, AddOrder, ItemOrder, PutOrder, Before
<1>4. \A m, n : Before(m, n) => Before(m, n)'
  BY <1>3 DEF Before
<1> DEFINE w == [op |-> "read", n |-> e.n]
           c == [type |-> "change", n |-> e.n, unread |-> FALSE]
           it == [n |-> e.n, unread |-> e.unread]
<1>5. w \in Write /\ w.op # "put" /\ c \in Event /\ c.type # "add"
  BY <1>1 DEF Write, Event
<1>6. it \in Item /\ it.n = e.n
  BY <1>1 DEF Item, Event
<1>7. /\ up'[u] = up[u] \/ up'[u] = Append(up[u], w)
      /\ events'[u] = rest \/ events'[u] = Append(rest, c)
      /\ page'[u].chatList = page[u].chatList \/ page'[u].chatList = Append(page[u].chatList, it)
      /\ \A v \in User : v # u => up'[v] = up[v] /\ events'[v] = events[v] /\ page'[v] = page[v]
  BY <1>0 DEF Added, rest, Page
<1> HIDE DEF w, c, it
<1>8. /\ InTurn(up'[u], PutOrder)
      /\ \A x \in Elems(up'[u]) : x \in Elems(up[u]) \/ x = w
  <2>1. \A x \in Elems(up[u]) : <<x, w>> \in PutOrder
    BY <1>0, <1>5, ElemsIn DEF PutOrder
  <2>2. InTurn(up[u], PutOrder) BY DEF InOrder, OrderOK
  <2>3. InTurn(Append(up[u], w), PutOrder) /\ Elems(Append(up[u], w)) = Elems(up[u]) \cup {w}
    BY <1>0, <1>5, <2>1, <2>2, InTurnAppend, ElemsAppend
  <2> QED BY <1>7, <2>2, <2>3
<1>9. /\ InTurn(events'[u], AddOrder)
      /\ \A x \in Elems(events'[u]) : x \in Elems(rest) \/ x = c
  <2>1. \A x \in Elems(rest) : <<x, c>> \in AddOrder
    BY <1>1, <1>5, ElemsIn DEF AddOrder
  <2>2. InTurn(Append(rest, c), AddOrder) /\ Elems(Append(rest, c)) = Elems(rest) \cup {c}
    BY <1>1, <1>2, <1>5, <2>1, InTurnAppend, ElemsAppend
  <2> QED BY <1>2, <1>7, <2>2
<1>10. /\ InTurn(page'[u].chatList, ItemOrder)
       /\ \A x \in Elems(page'[u].chatList) : x \in Elems(page[u].chatList) \/ x = it
  <2>1. \A x \in Elems(page[u].chatList) : Before(x.n, e.n) /\ x \in Item
    BY <1>0, <1>1, ElemsIn DEF InOrder, OrderOK
  <2>2. \A x \in Elems(page[u].chatList) : <<x, it>> \in ItemOrder
    BY <1>6, <2>1 DEF ItemOrder
  <2>3. InTurn(page[u].chatList, ItemOrder) BY DEF InOrder, OrderOK
  <2>4. /\ InTurn(Append(page[u].chatList, it), ItemOrder)
        /\ Elems(Append(page[u].chatList, it)) = Elems(page[u].chatList) \cup {it}
    BY <1>0, <1>6, <2>2, <2>3, InTurnAppend, ElemsAppend
  <2> QED BY <1>7, <2>3, <2>4
<1>11. \A x \in Elems(page'[u].chatList), y \in Elems(events'[u]) : y.type = "add" => Before(x.n, y.n)
  <2> SUFFICES ASSUME NEW x \in Elems(page'[u].chatList), NEW y \in Elems(events'[u]), y.type = "add"
               PROVE  Before(x.n, y.n)
    OBVIOUS
  <2>1. y \in Elems(rest) BY <1>5, <1>9
  <2>2. CASE x \in Elems(page[u].chatList) BY <1>1, <2>1, <2>2 DEF InOrder, OrderOK
  <2>3. CASE x = it BY <1>0, <1>2, <1>6, <2>1, <2>3 DEF AddOrder
  <2> QED BY <1>10, <2>2, <2>3
<1>12. \A x \in Elems(page'[u].chatList) : msgs[x.n].by # u => x.n \in log
  BY <1>0, <1>1, <1>6, <1>10 DEF InOrder, OrderOK, EventOK
<1>13. \A x \in Elems(up'[u]) : x.op = "put" => \A m \in log : msgs[m].by = u => m < x.n
  BY <1>5, <1>8 DEF InOrder, OrderOK
<1>14. OrderOK(u)'
  BY <1>3, <1>4, <1>8, <1>9, <1>10, <1>11, <1>12, <1>13 DEF OrderOK
<1>15. \A v \in User : v # u => OrderOK(v)'
  BY <1>3, <1>7, OrderKept DEF InOrder
<1> QED BY <1>14, <1>15 DEF InOrder

\* Marking items as read leaves them where they are.
LEMMA ChangedOrder ==
  ASSUME IInv, InOrder, NEW u \in User, Changed(u) PROVE InOrder'
<1> PICK items : items = page[u].chatList
  OBVIOUS
<1> PICK q : q = readChat(items, msgs[Head(events[u]).n])
  OBVIOUS
<1>0. /\ page[u] \in Page /\ items \in Seq(Item) /\ DOMAIN items = 1..Len(items)
      /\ events[u] \in Seq(Event) /\ events[u] # <<>>
      /\ page \in [User -> Page] /\ events \in [User -> Seq(Event)]
  BY InFlow DEF Changed, IInv, TypeOK
<1>1. /\ UNCHANGED <<msgs, log, up>>
      /\ events'[u] = Tail(events[u]) /\ page'[u].chatList = q
      /\ \A v \in User : v # u => events'[v] = events[v] /\ page'[v] = page[v]
  BY <1>0 DEF Changed, Page
<1>2. DOMAIN q = DOMAIN items /\ \A i \in DOMAIN items : q[i] \in Item /\ q[i].n = items[i].n
  <2>1. \A i \in DOMAIN items : items[i] \in Item BY <1>0
  <2> QED BY <2>1 DEF readChat, Item
<1>3. AddOrder' = AddOrder /\ ItemOrder' = ItemOrder /\ PutOrder' = PutOrder
  BY <1>1 DEF AddOrder, ItemOrder, PutOrder, Before
<1>4. InTurn(q, ItemOrder)
  <2>1. InTurn(items, ItemOrder) BY DEF InOrder, OrderOK
  <2> SUFFICES ASSUME NEW i \in DOMAIN items, NEW j \in DOMAIN items, i < j
               PROVE  <<q[i], q[j]>> \in ItemOrder
    BY <1>2 DEF InTurn
  <2>2. Before(items[i].n, items[j].n) BY <2>1 DEF InTurn, ItemOrder
  <2>3. q[i] \in Item /\ q[j] \in Item /\ Before(q[i].n, q[j].n) BY <1>2, <2>2
  <2> QED BY <2>3 DEF ItemOrder
<1>5. \A x \in Elems(q) : \E y \in Elems(items) : x.n = y.n
  BY <1>2 DEF Elems
<1>6. InTurn(Tail(events[u]), AddOrder) /\ Elems(Tail(events[u])) \subseteq Elems(events[u])
  BY <1>0, InTurnTail, ElemsTail DEF InOrder, OrderOK
<1>7. \A m, n : Before(m, n) => Before(m, n)'
  BY <1>1 DEF Before
<1>8. \A x \in Elems(q), y \in Elems(Tail(events[u])) : y.type = "add" => Before(x.n, y.n)'
  BY <1>5, <1>6, <1>7 DEF InOrder, OrderOK
<1>9. \A x \in Elems(q) : msgs[x.n].by # u => x.n \in log
  BY <1>5 DEF InOrder, OrderOK
<1>10. OrderOK(u)'
  BY <1>1, <1>3, <1>4, <1>6, <1>8, <1>9 DEF InOrder, OrderOK
<1>11. \A v \in User : v # u => OrderOK(v)'
  BY <1>1, OrderKept DEF InOrder
<1> QED BY <1>10, <1>11 DEF InOrder
-----------------------------------------------------------------------------
LEMMA OrderStep == IInv /\ IInv' /\ InOrder /\ [Next]_vars => InOrder'
<1> SUFFICES ASSUME IInv, IInv', InOrder, [Next]_vars PROVE InOrder'
  OBVIOUS
<1>0. ASSUME UNCHANGED <<msgs, log, up, events>>, \A v \in User : page'[v].chatList = page[v].chatList
      PROVE  InOrder'
  BY <1>0, OrderKept DEF InOrder
<1>1. CASE Tick \/ UNCHANGED vars
  BY <1>0, <1>1 DEF Tick, vars
<1>2. ASSUME NEW u \in User, UserStep(u) PROVE InOrder'
  BY <1>0, <1>2, OpenOrder, LeaveOrder DEF UserStep, Close, Kill, Dies, Click
<1>3. ASSUME NEW u \in User, PageStep(u) PROVE InOrder'
  <2>1. CASE ImageReply(u)
    <3>1. page'[u].chatList = page[u].chatList /\ \A v \in User : v # u => page'[v] = page[v]
      BY <2>1 DEF ImageReply, IInv, TypeOK, Page
    <3> QED BY <1>0, <2>1, <3>1 DEF ImageReply
  <2> QED BY <1>3, <2>1, AddedOrder, ChangedOrder DEF PageStep
<1>4. ASSUME NEW u \in User, ServerStep(u) PROVE InOrder'
  <2> PICK s \in sends[u] : Store(u, s) \/ Reply(u, s) \/ LateReply(u, s) \/ Fail(u, s)
    BY <1>4 DEF ServerStep
  <2>1. CASE Store(u, s) \/ Fail(u, s) BY <1>0, <2>1 DEF Store, Fail
  <2>2. CASE Reply(u, s) BY <2>2, ReplyOrder DEF IInv
  <2>3. CASE LateReply(u, s) BY <2>3, LeaveOrder DEF LateReply, Dies
  <2> QED BY <2>1, <2>2, <2>3
<1>5. ASSUME NEW u \in User, Commit(u) PROVE InOrder'
  BY <1>5, CommitOrder
<1> QED BY <1>1, <1>2, <1>3, <1>4, <1>5 DEF Next

LEMMA OrderInvariance == Spec => []InOrder
<1>1. Init => InOrder
  BY InTurnEmpty, ElemsEmpty, ClosedOK DEF Init, InOrder, OrderOK
<1> QED BY <1>1, Invariance, OrderStep, PTL DEF Spec

\* Each page shows what one user said in the order he said it, for any number
\* of messages, pages and lost writes.
THEOREM ChatSpeakerOrder == Spec => []SpeakerOrder
<1>1. IInv /\ InOrder => SpeakerOrder
  BY DEF InOrder, OrderOK, InTurn, ItemOrder, Before, SpeakerOrder
<1> QED BY <1>1, Invariance, OrderInvariance, PTL
-----------------------------------------------------------------------------
LEMMA LogStep == IInv /\ IInv' /\ InOrder /\ [Next]_vars => [Log!Next]_Log!vars
<1> SUFFICES ASSUME IInv, IInv', InOrder, [Next]_vars PROVE Log!Next \/ UNCHANGED Log!vars
  OBVIOUS
<1>0. ASSUME UNCHANGED <<stored, msgs, log, read>> PROVE UNCHANGED Log!vars
  BY <1>0 DEF Log!vars
<1>1. CASE Tick \/ UNCHANGED vars
  BY <1>0, <1>1 DEF Tick, vars
<1>2. ASSUME NEW u \in User, UserStep(u) \/ PageStep(u) PROVE UNCHANGED Log!vars
  BY <1>0, <1>2 DEF UserStep, Open, Close, Kill, Dies, Click, PageStep, ImageReply, Added, Changed
<1>3. ASSUME NEW u \in User, NEW s \in sends[u], Store(u, s) PROVE Log!Stores
  <2>1. s \in Send BY DEF IInv, TypeOK
  <2> QED BY <1>3, <2>1 DEF Store, Log!Stores, Send
<1>4. ASSUME NEW u \in User, NEW s \in sends[u], Reply(u, s) PROVE Log!Says
  <2> PICK blank \in BOOLEAN :
        msgs' = Append(msgs, [by |-> u, time |-> s.time, send |-> s.id, blank |-> blank])
    BY <1>4 DEF Reply, writeFirebase
  <2>1. s \in Send BY DEF IInv, TypeOK
  <2>2. [by |-> u, time |-> s.time, send |-> s.id, blank |-> blank] \in Message
    BY <2>1 DEF Send, Message
  <2>3. \A n \in DOMAIN msgs : msgs[n].send # s.id BY DEF IInv, Unanswered
  <2> QED BY <1>4, <2>2, <2>3 DEF Reply, Log!Says
<1>5. ASSUME NEW u \in User, NEW s \in sends[u], LateReply(u, s) \/ Fail(u, s) PROVE UNCHANGED Log!vars
  BY <1>0, <1>5 DEF LateReply, Fail, Dies
<1>6. ASSUME NEW u \in User, Commit(u) PROVE Log!Next \/ UNCHANGED Log!vars
  <2> PICK w : w = Head(up[u])
    OBVIOUS
  <2>1. w \in Elems(up[u]) /\ WriteOK(u, w)
    BY <1>6, InFlow, ElemsTail DEF Commit
  <2>2. CASE w.op = "put" /\ log' = log \cup {w.n} /\ UNCHANGED read
    <3>1. /\ w.n \in DOMAIN msgs /\ w.n \notin log
          /\ \A m \in log : msgs[m].by = msgs[w.n].by => m < w.n
      <4>1. w.n \in DOMAIN msgs /\ msgs[w.n].by = u BY <2>1, <2>2 DEF WriteOK
      <4>2. \A m \in log : msgs[m].by = u => m < w.n BY <2>1, <2>2 DEF InOrder, OrderOK
      <4>3. w.n \in Nat BY <4>1, InFlow
      <4> QED BY <4>1, <4>2, <4>3
    <3>2. UNCHANGED <<stored, msgs>> BY <1>6 DEF Commit
    <3> QED BY <2>2, <3>1, <3>2 DEF Log!Next, Log!Enters
  <2>3. CASE w.op = "read" /\ read' = read \cup {w.n} /\ UNCHANGED log
    <3>1. w.n \in log BY <2>1, <2>3 DEF WriteOK
    <3>2. UNCHANGED <<stored, msgs>> BY <1>6 DEF Commit
    <3>3. CASE w.n \in read
      <4>1. read' = read BY <2>3, <3>3
      <4> QED BY <2>3, <3>2, <4>1 DEF Log!vars
    <3>4. CASE w.n \notin read
      BY <2>3, <3>1, <3>2, <3>4 DEF Log!Next, Log!Reads
    <3> QED BY <3>3, <3>4
  <2> QED BY <1>6, <2>2, <2>3 DEF Commit
<1> QED BY <1>1, <1>2, <1>3, <1>4, <1>5, <1>6 DEF Next, ServerStep, Log!Next

\* The chat, with its pages, processes and requests, implements the log a user
\* may rely on.
THEOREM ChatImplementsLog == Spec => LogSpec
<1>1. Init => Log!Init BY DEF Init, Log!Init
<1> QED BY <1>1, LogStep, Invariance, OrderInvariance, PTL DEF Spec, LogSpec, Log!Spec
=============================================================================
