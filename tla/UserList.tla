------------------------------ MODULE UserList ------------------------------
(***************************************************************************)
(* The list of users of the Android client (ListFragment) and who is kept  *)
(* from it.  A refresh, sortTime or sortGps, is a chain of three requests  *)
(* whose callbacks share two lists of the fragment: the first fills and    *)
(* sorts userList, the second refills upProfileUserList, the list on the   *)
(* screen, from it, the third removes the users who block me and the       *)
(* contacts I block.  The user may start a chain while others run.         *)
(*                                                                         *)
(* Every user of the other gender is in the server's answer, so what       *)
(* matters about a list is its order and who was removed from it.          *)
(***************************************************************************)
EXTENDS Integers

CONSTANTS Partner,      \* the users of the other gender
          Chain,        \* chains that may run at a time
          MaxRows       \* bound: rows of blocking for one user

ASSUME UserListAssumption == MaxRows \in Nat

VARIABLES blocking,     \* rows of table blocking by which a partner blocks me
          contacts,     \* partners in UserInfo.BLOCKINGNUMBER, if BLOCKING is 1
          chain,        \* what each chain sorts by and waits for
          sorted,       \* the order of userList
          order,        \* the order of upProfileUserList
          removed,      \* who was removed from upProfileUserList since its last refill
          lost,         \* a chain of the current burst ended without its reply
          since         \* partners hidden without a break since the last chain began

vars == <<blocking, contacts, chain, sorted, order, removed, lost, since>>

Sort == {"gps", "time"}
NoAnswer == [p \in Partner |-> 0]
Idle == [at |-> "idle", by |-> "gps", answer |-> NoAnswer]
Stage == [at : {"list", "up", "block", "reply"}, by : Sort, answer : [Partner -> 0..MaxRows]]
Quiet == \A c \in Chain : chain[c] = Idle

Blockers == {p \in Partner : blocking[p] > 0}

Init ==
  /\ blocking = NoAnswer /\ contacts = {}
  /\ chain = [c \in Chain |-> Idle]
  /\ sorted = "gps" /\ order = "gps" /\ removed = {}
  /\ lost = FALSE /\ since = {}

\* A tap on one of the sort buttons, or a swipe.
Refresh(c) ==
  /\ chain[c] = Idle
  /\ \E s \in Sort :
       chain' = [chain EXCEPT ![c] = [at |-> "list", by |-> s, answer |-> NoAnswer]]
  /\ since' = Blockers \cup contacts
  /\ lost' = (lost /\ ~Quiet)
  /\ UNCHANGED <<blocking, contacts, sorted, order, removed>>

\* getUserListReq: userList is cleared, filled and sorted, and the next request sent.
ListReply(c) ==
  /\ chain[c].at = "list"
  /\ sorted' = chain[c].by
  /\ chain' = [chain EXCEPT ![c].at = "up"]
  /\ UNCHANGED <<blocking, contacts, order, removed, lost, since>>

\* Mutant: the list is sorted when its chain asked for it, not when it arrives.
UpProfileReplyOwnOrder(c) ==
  /\ chain[c].at = "up"
  /\ removed' = {} /\ order' = chain[c].by
  /\ chain' = [chain EXCEPT ![c].at = "block"]
  /\ UNCHANGED <<blocking, contacts, sorted, lost, since>>

\* getUpProfileUserListReq: the list on the screen is cleared and refilled,
\* with everybody, from userList as it is now.
UpProfileReply(c) ==
  /\ chain[c].at = "up"
  /\ removed' = {} /\ order' = sorted
  /\ chain' = [chain EXCEPT ![c].at = "block"]
  /\ UNCHANGED <<blocking, contacts, sorted, lost, since>>

\* The server answers getBlockingListReq with a row per row of the table.
ServerReads(c) ==
  /\ chain[c].at = "block"
  /\ chain' = [chain EXCEPT ![c] = [at |-> "reply", by |-> @.by, answer |-> blocking]]
  /\ UNCHANGED <<blocking, contacts, sorted, order, removed, lost, since>>

\* Mutant: with BLOCKING 1 only the contacts are removed.
RemovedByEither(answer) ==
  IF contacts # {} THEN contacts ELSE {p \in Partner : answer[p] > 0}

RemovedBy(answer) == contacts \cup {p \in Partner : answer[p] > 0}

\* iter.remove() runs once for every row that names the user, and the second
\* call for one user throws.
Throws(answer) == \E p \in Partner \ (removed \cup contacts) : answer[p] > 1

\* The reply to getBlockingListReq.
BlockingReply(c) ==
  /\ chain[c].at = "reply"
  /\ ~Throws(chain[c].answer)
  /\ removed' = removed \cup RemovedBy(chain[c].answer)
  /\ chain' = [chain EXCEPT ![c] = Idle]
  /\ UNCHANGED <<blocking, contacts, sorted, order, lost, since>>

\* The exception ends the application; the user opens it again, and has his
\* contacts back once the login has read them.
AppDies ==
  /\ \E c \in Chain : chain[c].at = "reply" /\ Throws(chain[c].answer)
  /\ contacts' \in {contacts, {}}
  /\ chain' = [c \in Chain |-> Idle]
  /\ sorted' = "gps" /\ order' = "gps" /\ removed' = {}
  /\ lost' = FALSE /\ since' = {}
  /\ UNCHANGED blocking

\* A request fails: its ErrorListener is empty.
Fails(c) ==
  /\ chain[c] # Idle
  /\ chain' = [chain EXCEPT ![c] = Idle]
  /\ lost' = TRUE
  /\ UNCHANGED <<blocking, contacts, sorted, order, removed, since>>

\* A partner turns the blocking switch of the settings on.  A row is inserted
\* whether or not one is there.
Blocks(p) ==
  /\ blocking[p] < MaxRows
  /\ blocking' = [blocking EXCEPT ![p] = @ + 1]
  /\ UNCHANGED <<contacts, chain, sorted, order, removed, lost, since>>

\* Mutant: the rows are counted down, not deleted, and nobody looks for one.
UnblocksCountsDown(p) ==
  /\ blocking' = [blocking EXCEPT ![p] = @ - 1]
  /\ since' = since \ {p}
  /\ UNCHANGED <<contacts, chain, sorted, order, removed, lost>>

\* He turns it off: all his rows go.
Unblocks(p) ==
  /\ blocking[p] > 0
  /\ blocking' = [blocking EXCEPT ![p] = 0]
  /\ since' = since \ {p}
  /\ UNCHANGED <<contacts, chain, sorted, order, removed, lost>>

\* I turn mine on, or off.
SetContacts(ps) ==
  /\ contacts' = ps
  /\ since' = since \ (contacts \ ps)
  /\ UNCHANGED <<blocking, chain, sorted, order, removed, lost>>

Next ==
  \/ \E c \in Chain : \/ Refresh(c) \/ ListReply(c) \/ UpProfileReply(c)
                      \/ ServerReads(c) \/ BlockingReply(c) \/ Fails(c)
  \/ AppDies
  \/ \E p \in Partner : Blocks(p) \/ Unblocks(p)
  \/ \E ps \in SUBSET Partner : SetContacts(ps)

Spec == Init /\ [][Next]_vars
-----------------------------------------------------------------------------
\* The type invariant: an idle chain holds no answer.
TypeOK ==
  /\ blocking \in [Partner -> 0..MaxRows] /\ contacts \in SUBSET Partner
  /\ chain \in [Chain -> {Idle} \cup Stage]
  /\ sorted \in Sort /\ order \in Sort /\ lost \in BOOLEAN
  /\ removed \in SUBSET Partner /\ since \in SUBSET Partner

\* Once every chain of a burst has had its replies, in whatever order, nobody
\* is left in the list who was hidden from me when the last of them began and
\* stayed so.  The chains share the list: a refill (ListFragment's clear and
\* addAll) exposes everybody again, also after the filter of a later chain.
HiddenWhenDone == Quiet /\ ~lost => since \subseteq removed

\* ... and the list has the order of userList, that of the reply that came
\* last: no refill is left behind by a later sort of its source.
OrderWhenDone == Quiet /\ ~lost => order = sorted
=============================================================================
