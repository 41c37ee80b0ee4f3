--------------------------- MODULE UserListProofs ---------------------------
(* Proofs about UserList, for any partners, any number of chains and any   *)
(* number of rows.                                                         *)
EXTENDS UserList, TLAPS

ActionsOf(c) == \/ Refresh(c) \/ ListReply(c) \/ UpProfileReply(c)
                \/ ServerReads(c) \/ BlockingReply(c) \/ Fails(c)

\* Who is hidden has a reason.
SinceOK == since \subseteq Blockers \cup contacts

\* A chain under way that will hide p: it has yet to ask who blocks me, or the
\* answer names p, or the contacts do.
WillHide(c, p) ==
  \/ chain[c].at \in {"list", "up", "block"}
  \/ chain[c].at = "reply" /\ (chain[c].answer[p] > 0 \/ p \in contacts)

Exposed == \A p \in since \ removed : \E c \in Chain : WillHide(c, p)

\* A chain under way that will refill the list.
WillRefill == \E c \in Chain : chain[c].at \in {"list", "up"}

IInv == /\ TypeOK
        /\ SinceOK
        /\ ~lost => Exposed
        /\ ~lost => order = sorted \/ WillRefill

LEMMA TypeStep == TypeOK /\ [Next]_vars => TypeOK'
<1> SUFFICES ASSUME TypeOK, [Next]_vars PROVE TypeOK'
  OBVIOUS
<1> USE UserListAssumption
<1>0. NoAnswer \in [Partner -> 0..MaxRows] /\ \A c \in Chain : chain[c] \in {Idle} \cup Stage
  BY DEF NoAnswer, TypeOK
<1>s. \A c \in Chain : chain[c] # Idle => chain[c] \in Stage
  BY <1>0
<1>1. ASSUME NEW c \in Chain, Refresh(c) PROVE TypeOK'
  <2> PICK s \in Sort :
        chain' = [chain EXCEPT ![c] = [at |-> "list", by |-> s, answer |-> NoAnswer]]
    BY <1>1 DEF Refresh
  <2>1. [at |-> "list", by |-> s, answer |-> NoAnswer] \in Stage
    BY <1>0 DEF Stage
  <2> QED BY <1>1, <2>1 DEF Refresh, TypeOK, Blockers
<1>2. ASSUME NEW c \in Chain, ListReply(c) PROVE TypeOK'
  <2>1. chain[c] \in Stage BY <1>s, <1>2 DEF ListReply, Idle
  <2>2. [chain[c] EXCEPT !.at = "up"] \in Stage /\ chain[c].by \in Sort BY <2>1 DEF Stage
  <2> QED BY <1>2, <2>2 DEF ListReply, TypeOK
<1>3. ASSUME NEW c \in Chain, UpProfileReply(c) PROVE TypeOK'
  <2>1. chain[c] \in Stage BY <1>s, <1>3 DEF UpProfileReply, Idle
  <2>2. [chain[c] EXCEPT !.at = "block"] \in Stage BY <2>1 DEF Stage
  <2> QED BY <1>3, <2>2 DEF UpProfileReply, TypeOK
<1>4. ASSUME NEW c \in Chain, ServerReads(c) PROVE TypeOK'
  <2>1. chain[c] \in Stage BY <1>s, <1>4 DEF ServerReads, Idle
  <2>2. [at |-> "reply", by |-> chain[c].by, answer |-> blocking] \in Stage
    BY <2>1 DEF Stage, TypeOK
  <2> QED BY <1>4, <2>2 DEF ServerReads, TypeOK
<1>5. ASSUME NEW c \in Chain, BlockingReply(c) PROVE TypeOK'
  BY <1>5 DEF BlockingReply, TypeOK, RemovedBy
<1>6. ASSUME NEW c \in Chain, Fails(c) PROVE TypeOK'
  BY <1>6 DEF Fails, TypeOK
<1>7. CASE AppDies
  BY <1>7 DEF AppDies, TypeOK, Sort
<1>8. ASSUME NEW p \in Partner, Blocks(p) PROVE TypeOK'
  BY <1>8 DEF Blocks, TypeOK
<1>9. ASSUME NEW p \in Partner, Unblocks(p) PROVE TypeOK'
  BY <1>9 DEF Unblocks, TypeOK
<1>10. ASSUME NEW ps \in SUBSET Partner, SetContacts(ps) PROVE TypeOK'
  BY <1>10 DEF SetContacts, TypeOK
<1>11. CASE UNCHANGED vars
  BY <1>11 DEF vars, TypeOK
<1> QED BY <1>1, <1>2, <1>3, <1>4, <1>5, <1>6, <1>7, <1>8, <1>9, <1>10, <1>11 DEF Next

LEMMA SinceStep == TypeOK /\ SinceOK /\ [Next]_vars => SinceOK'
<1> SUFFICES ASSUME TypeOK, SinceOK, [Next]_vars PROVE SinceOK'
  OBVIOUS
<1> USE DEF SinceOK, Blockers
<1>1. ASSUME NEW c \in Chain, ActionsOf(c) PROVE SinceOK'
  BY <1>1 DEF ActionsOf, Refresh, ListReply, UpProfileReply, ServerReads, BlockingReply, Fails
<1>2. CASE AppDies
  BY <1>2 DEF AppDies
<1>3. ASSUME NEW p \in Partner, Blocks(p) PROVE SinceOK'
  BY <1>3 DEF Blocks, TypeOK
<1>4. ASSUME NEW p \in Partner, Unblocks(p) PROVE SinceOK'
  BY <1>4 DEF Unblocks, TypeOK
<1>5. ASSUME NEW ps \in SUBSET Partner, SetContacts(ps) PROVE SinceOK'
  BY <1>5 DEF SetContacts
<1>6. CASE UNCHANGED vars
  BY <1>6 DEF vars
<1> QED BY <1>1, <1>2, <1>3, <1>4, <1>5, <1>6 DEF Next, ActionsOf

LEMMA ExposedStep ==
  TypeOK /\ SinceOK /\ (~lost => Exposed) /\ [Next]_vars => (~lost' => Exposed')
<1> SUFFICES ASSUME TypeOK, SinceOK, ~lost => Exposed, [Next]_vars, ~lost',
                    NEW p \in since' \ removed'
             PROVE  \E c \in Chain : WillHide(c, p)'
  BY DEF Exposed
<1> USE DEF WillHide
<1>0. chain \in [Chain -> {Idle} \cup Stage] /\ p \in Partner
  BY TypeStep DEF TypeOK
<1>1. ASSUME NEW c \in Chain, Refresh(c) PROVE WillHide(c, p)'
  BY <1>0, <1>1 DEF Refresh, Idle
<1>2. ASSUME NEW c \in Chain, ListReply(c) PROVE \E d \in Chain : WillHide(d, p)'
  <2> PICK d \in Chain : WillHide(d, p)
    BY <1>2 DEF ListReply, Exposed
  <2>1. CASE d = c BY <1>0, <1>2, <2>1 DEF ListReply, Idle, Stage
  <2>2. CASE d # c BY <1>0, <1>2, <2>2 DEF ListReply
  <2> QED BY <2>1, <2>2
<1>3. ASSUME NEW c \in Chain, UpProfileReply(c) PROVE WillHide(c, p)'
  BY <1>0, <1>3 DEF UpProfileReply, Idle, Stage
<1>4. ASSUME NEW c \in Chain, ServerReads(c) PROVE \E d \in Chain : WillHide(d, p)'
  <2> PICK d \in Chain : WillHide(d, p)
    BY <1>4 DEF ServerReads, Exposed
  <2>0. blocking[p] > 0 \/ p \in contacts
    BY <1>4 DEF ServerReads, SinceOK, Blockers
  <2>1. CASE d = c
    <3>1. chain'[c].at = "reply" /\ chain'[c].answer = blocking /\ contacts' = contacts
      BY <1>0, <1>4 DEF ServerReads, Idle, Stage
    <3> QED BY <2>0, <3>1
  <2>2. CASE d # c BY <1>0, <1>4, <2>2 DEF ServerReads
  <2> QED BY <2>1, <2>2
<1>5. ASSUME NEW c \in Chain, BlockingReply(c) PROVE \E d \in Chain : WillHide(d, p)'
  <2> PICK d \in Chain : WillHide(d, p)
    BY <1>5 DEF BlockingReply, Exposed
  <2>1. d # c
    BY <1>0, <1>5 DEF BlockingReply, RemovedBy
  <2> QED BY <1>0, <1>5, <2>1 DEF BlockingReply
<1>6. ASSUME NEW c \in Chain, Fails(c) PROVE FALSE
  BY <1>6 DEF Fails
<1>7. CASE AppDies
  BY <1>7 DEF AppDies
<1>8. ASSUME NEW q \in Partner, Blocks(q) PROVE \E d \in Chain : WillHide(d, p)'
  BY <1>8 DEF Blocks, Exposed
<1>9. ASSUME NEW q \in Partner, Unblocks(q) PROVE \E d \in Chain : WillHide(d, p)'
  BY <1>9 DEF Unblocks, Exposed
<1>10. ASSUME NEW ps \in SUBSET Partner, SetContacts(ps) PROVE \E d \in Chain : WillHide(d, p)'
  <2> PICK d \in Chain : WillHide(d, p)
    BY <1>10 DEF SetContacts, Exposed
  <2>1. p \in contacts => p \in contacts'
    BY <1>10 DEF SetContacts
  <2> QED BY <1>10, <2>1 DEF SetContacts
<1>11. CASE UNCHANGED vars
  BY <1>11 DEF vars, Exposed
<1> QED BY <1>1, <1>2, <1>3, <1>4, <1>5, <1>6, <1>7, <1>8, <1>9, <1>10, <1>11 DEF Next

LEMMA OrderStep ==
  TypeOK /\ (~lost => order = sorted \/ WillRefill) /\ [Next]_vars
    => (~lost' => order' = sorted' \/ WillRefill')
<1> SUFFICES ASSUME TypeOK, ~lost => order = sorted \/ WillRefill, [Next]_vars, ~lost'
             PROVE  order' = sorted' \/ WillRefill'
  OBVIOUS
<1>0. chain \in [Chain -> {Idle} \cup Stage]
  BY DEF TypeOK
<1> USE DEF WillRefill
<1>1. ASSUME NEW c \in Chain, Refresh(c) PROVE WillRefill'
  BY <1>0, <1>1 DEF Refresh, Idle
<1>2. ASSUME NEW c \in Chain, ListReply(c) PROVE WillRefill'
  BY <1>0, <1>2 DEF ListReply, Idle, Stage
<1>3. ASSUME NEW c \in Chain, UpProfileReply(c) PROVE order' = sorted'
  BY <1>3 DEF UpProfileReply
<1>4. ASSUME NEW c \in Chain, ServerReads(c) PROVE order' = sorted' \/ WillRefill'
  BY <1>0, <1>4 DEF ServerReads
<1>5. ASSUME NEW c \in Chain, BlockingReply(c) PROVE order' = sorted' \/ WillRefill'
  BY <1>0, <1>5 DEF BlockingReply
<1>6. ASSUME NEW c \in Chain, Fails(c) PROVE FALSE
  BY <1>6 DEF Fails
<1>7. CASE AppDies
  BY <1>7 DEF AppDies
<1>8. ASSUME NEW p \in Partner, Blocks(p) \/ Unblocks(p) PROVE order' = sorted' \/ WillRefill'
  BY <1>8 DEF Blocks, Unblocks
<1>9. ASSUME NEW ps \in SUBSET Partner, SetContacts(ps) PROVE order' = sorted' \/ WillRefill'
  BY <1>9 DEF SetContacts
<1>10. CASE UNCHANGED vars
  BY <1>10 DEF vars
<1> QED BY <1>1, <1>2, <1>3, <1>4, <1>5, <1>6, <1>7, <1>8, <1>9, <1>10 DEF Next

LEMMA Invariance == Spec => []IInv
<1>0. NoAnswer \in [Partner -> 0..MaxRows] /\ 0 \in 0..MaxRows
  BY UserListAssumption DEF NoAnswer
<1>1. Init => IInv
  <2>1. Init => TypeOK
    BY <1>0 DEF Init, TypeOK, Sort
  <2>2. Init => SinceOK /\ Exposed /\ order = sorted
    BY DEF Init, SinceOK, Exposed
  <2> QED BY <2>1, <2>2 DEF IInv
<1>2. IInv /\ [Next]_vars => IInv'
  BY TypeStep, SinceStep, ExposedStep, OrderStep DEF IInv
<1> QED BY <1>1, <1>2, PTL DEF Spec

\* The type invariant of the fragment's lists and chains, for any constants.
THEOREM UserListTypeCorrect == Spec => []TypeOK
BY Invariance, PTL DEF IInv

\* Whoever was hidden when the last of a burst of overlapping refreshes began
\* is not in the list when the burst is over.
THEOREM UserListHiddenWhenDone == Spec => []HiddenWhenDone
<1>1. IInv => HiddenWhenDone
  BY DEF IInv, HiddenWhenDone, Quiet, Exposed, WillHide, Idle
<1> QED BY <1>1, Invariance, PTL

\* When the burst is over the list has the order of the source it was filled
\* from.
THEOREM UserListOrderWhenDone == Spec => []OrderWhenDone
<1>1. IInv => OrderWhenDone
  BY DEF IInv, OrderWhenDone, Quiet, WillRefill, Idle
<1> QED BY <1>1, Invariance, PTL
=============================================================================
