---------------------------- MODULE SignupProofs ----------------------------
(* Proofs about Signup, for any number of taps, questions and updates, and *)
(* about Entry, which implements it.                                       *)
EXTENDS Entry, FiniteSetTheorems, TLAPS

\* The steps of a chain, and those of an update.
ChainStep(c) ==
  \/ Save(c) \/ UserInserted(c) \/ OptionInserted(c) \/ Select(c) \/ Answer(c)
  \/ Back(c) \/ Dismissed(c) \/ Enabled(c) \/ Executes(c)
UpdateStep(u) == Store(u) \/ Stored(u) \/ NotStored(u) \/ Lost(u)

LEMMA Split ==
  ASSUME [Next]_vars
  PROVE  \/ \E c \in Chain : ChainStep(c)
         \/ \E u \in updates : UpdateStep(u)
         \/ Dies \/ Elsewhere \/ UNCHANGED vars
BY DEF Next, ChainStep, UpdateStep

LEMMA UpdateParts ==
  ASSUME TypeOK, NEW u \in updates
  PROVE  /\ u \in Update
         /\ u.id \in Tap /\ u.by \in Chain /\ u.q \in Question /\ u.data \in Question
         /\ u.done \in BOOLEAN /\ u.live \in BOOLEAN
BY DEF TypeOK, Update

\* An update that was executed, and one nobody listens to any more.
LEMMA EditedParts ==
  ASSUME TypeOK, NEW u \in updates, NEW v \in {[u EXCEPT !.done = TRUE], [u EXCEPT !.live = FALSE]}
  PROVE  v \in Update /\ v.id = u.id /\ v.by = u.by /\ v.q = u.q /\ v.data = u.data
BY UpdateParts DEF Update

\* The updates of a process that has died.
LEMMA UnheardParts ==
  ASSUME TypeOK, NEW v \in Unheard(updates)
  PROVE  \E u \in updates : /\ ~u.done /\ v = [u EXCEPT !.live = FALSE]
                            /\ v \in Update /\ v.id = u.id /\ v.by = u.by /\ v.q = u.q
                            /\ v.data = u.data /\ ~v.live /\ ~v.done
<1>1. PICK u \in updates : ~u.done /\ v = [u EXCEPT !.live = FALSE] BY DEF Unheard
<1>2. ~v.live /\ v.done = u.done BY <1>1, UpdateParts DEF Update
<1> QED BY <1>1, <1>2, EditedParts

LEMMA UnheardFinite == ASSUME NEW S, IsFiniteSet(S) PROVE IsFiniteSet(Unheard(S))
<1> DEFINE T == {v \in S : ~v.done}
           f == [u \in T |-> [u EXCEPT !.live = FALSE]]
<1>1. IsFiniteSet(T) BY FS_Subset
<1>2. f \in Surjection(T, Unheard(S)) BY DEF Surjection, Unheard
<1> QED BY <1>1, <1>2, FS_Surjection

\* What is left of a chain.
LEMMA AbandonedParts ==
  ASSUME TypeOK, Dies, NEW c \in Chain
  PROVE  /\ chain'[c] = [at |-> Abandoned(chain[c].at), q |-> 1, ready |-> FALSE]
         /\ chain'[c].at = Abandoned(chain[c].at) /\ chain'[c].q = 1 /\ ~chain'[c].ready
         /\ Abandoned(chain[c].at) \in Step
         /\ Abandoned(chain[c].at) = "idle" <=> chain[c].at = "idle"
         /\ chain[c].at \in {"asks", "left"} => Abandoned(chain[c].at) = "left"
         /\ chain[c].at \in {"enabling", "over", "gone"} => Abandoned(chain[c].at) = "gone"
         /\ Abandoned(chain[c].at) \in {"idle", "lost", "left", "gone"}
<1>1. chain[c].at \in Step BY DEF TypeOK
<1>2. /\ Abandoned(chain[c].at) \in Step
      /\ Abandoned(chain[c].at) = "idle" <=> chain[c].at = "idle"
      /\ chain[c].at \in {"asks", "left"} => Abandoned(chain[c].at) = "left"
      /\ chain[c].at \in {"enabling", "over", "gone"} => Abandoned(chain[c].at) = "gone"
      /\ Abandoned(chain[c].at) \in {"idle", "lost", "left", "gone"}
  BY <1>1 DEF Abandoned, Step
<1>3. chain'[c] = [at |-> Abandoned(chain[c].at), q |-> 1, ready |-> FALSE] BY DEF Dies
<1> QED BY <1>2, <1>3
-----------------------------------------------------------------------------
LEMMA TypeInit == Init => TypeOK
<1> SUFFICES ASSUME Init PROVE TypeOK
  OBVIOUS
<1> USE SignupAssumption DEF Init
<1>1. chain \in [Chain -> [at : Step, q : Question, ready : BOOLEAN]] BY DEF Step, Question
<1>2. shown \in SUBSET Chain /\ above \in SUBSET (shown \X shown) /\ updates \in SUBSET Update OBVIOUS
<1>3. stored \in [Question -> 0 .. Questions] /\ data \in 0 .. Questions /\ hasty \in [Chain -> Nat]
  OBVIOUS
<1> QED BY <1>1, <1>2, <1>3 DEF TypeOK

LEMMA ShowTypeOK ==
  ASSUME TypeOK, NEW c \in Chain, Show(c), c \notin shown
  PROVE  /\ shown' \in SUBSET Chain /\ above' \in SUBSET (shown' \X shown')
         /\ data' \in 0 .. Questions
BY SignupAssumption DEF TypeOK, Show

LEMMA DismissTypeOK ==
  ASSUME TypeOK, NEW c \in Chain, Dismiss(c)
  PROVE  /\ shown' \in SUBSET Chain /\ above' \in SUBSET (shown' \X shown')
         /\ shown' \subseteq shown
BY DEF TypeOK, Dismiss

\* The first dialog of a chain.
LEMMA AskedParts ==
  ASSUME TypeOK, NEW c \in Chain, OptionInserted(c)
  PROVE  /\ chain' \in [Chain -> [at : Step, q : Question, ready : BOOLEAN]]
         /\ chain'[c].at = "asks" /\ chain'[c].q = chain[c].q
         /\ chain'[c].ready => rows = {"user", "useroption"}
         /\ \A d \in Chain : d # c => chain'[d] = chain[d]
<1> DEFINE both == rows = {"user", "useroption"}
<1>1. chain' = [chain EXCEPT ![c] = [@ EXCEPT !.at = "asks", !.ready = both]]
  BY DEF OptionInserted
<1>2. \A x \in [at : Step, q : Question, ready : BOOLEAN], b \in BOOLEAN :
        LET y == [x EXCEPT !.at = "asks", !.ready = b]
        IN  y \in [at : Step, q : Question, ready : BOOLEAN] /\ y.at = "asks" /\ y.q = x.q /\ y.ready = b
  BY DEF Step
<1>3. both \in BOOLEAN OBVIOUS
<1>4. chain'[c].ready => both
  <2>1. chain'[c].ready = both BY <1>1, <1>2, <1>3 DEF TypeOK
  <2> QED BY <2>1
<1> QED BY <1>1, <1>2, <1>3, <1>4 DEF TypeOK

LEMMA TypeStep == TypeOK /\ [Next]_vars => TypeOK'
<1> SUFFICES ASSUME TypeOK, [Next]_vars PROVE TypeOK'
  OBVIOUS
<1> USE SignupAssumption DEF Question, Step
<1>1. ASSUME NEW c \in Chain, Save(c) PROVE TypeOK'
  BY <1>1 DEF Save, TypeOK
<1>2. ASSUME NEW c \in Chain, UserInserted(c) PROVE TypeOK'
  BY <1>2 DEF UserInserted, TypeOK
<1>3. ASSUME NEW c \in Chain, OptionInserted(c) PROVE TypeOK'
  <2>1. c \notin shown BY <1>3 DEF OptionInserted, TypeOK
  <2>2. chain' \in [Chain -> [at : Step, q : Question, ready : BOOLEAN]]
    BY <1>3, AskedParts
  <2>3. \A d \in shown' : chain'[d].at = "asks" BY <1>3 DEF OptionInserted, Show, TypeOK
  <2> QED BY <1>3, <2>1, <2>2, <2>3, ShowTypeOK DEF OptionInserted, TypeOK
<1>4. ASSUME NEW c \in Chain, Select(c) PROVE TypeOK'
  BY <1>4 DEF Select, Choices, TypeOK
<1>5. ASSUME NEW c \in Chain, Answer(c) PROVE TypeOK'
  <2>1. PICK mark \in Tap \ {u.id : u \in updates} :
          updates' = updates \cup
            {[id |-> mark, by |-> c, q |-> chain[c].q, data |-> data, done |-> FALSE, live |-> TRUE]}
    BY <1>5 DEF Answer
  <2> DEFINE new == [id |-> mark, by |-> c, q |-> chain[c].q, data |-> data, done |-> FALSE, live |-> TRUE]
  <2>a. data \in Question /\ chain[c].q \in Question BY <1>5 DEF Answer, TypeOK
  <2>b. new \in Update /\ new.id = mark BY <2>a DEF Update
  <2>2. updates' \in SUBSET Update BY <2>1, <2>b DEF TypeOK
  <2>3. \A u, v \in updates' : u.id = v.id => u = v
    <3>1. updates' = updates \cup {new} BY <2>1
    <3>2. \A u \in updates : u.id # new.id BY <2>b
    <3> HIDE DEF new
    <3> QED BY <3>1, <3>2 DEF TypeOK
  <2>4. hasty' \in [Chain -> Nat] BY <1>5 DEF Answer, TypeOK
  <2> QED BY <1>5, <2>2, <2>3, <2>4 DEF Answer, TypeOK
<1>6. ASSUME NEW c \in Chain, Back(c) PROVE TypeOK'
  <2>1. hasty' \in [Chain -> Nat] BY <1>6 DEF Back, TypeOK
  <2>2. /\ shown' \in SUBSET Chain /\ above' \in SUBSET (shown' \X shown')
        /\ shown' \subseteq shown
    BY <1>6, DismissTypeOK DEF Back
  <2> QED BY <1>6, <2>1, <2>2 DEF Back, TypeOK
<1>7. ASSUME NEW c \in Chain, Dismissed(c) PROVE TypeOK'
  <2>1. CASE chain[c].q < Questions /\ Show(c) /\ chain' = [chain EXCEPT ![c].q = @ + 1]
    <3>1. chain' \in [Chain -> [at : Step, q : Question, ready : BOOLEAN]]
      <4>1. chain[c].q + 1 \in 1 .. Questions BY <2>1 DEF TypeOK
      <4> QED BY <2>1, <4>1 DEF TypeOK
    <3>2. /\ shown' \in SUBSET Chain /\ above' \in SUBSET (shown' \X shown')
          /\ data' \in 0 .. Questions
      BY <1>7, <2>1, ShowTypeOK DEF Dismissed
    <3>3. \A d \in shown' : chain'[d].at = "asks" BY <1>7, <2>1 DEF Dismissed, Show, TypeOK
    <3> QED BY <1>7, <3>1, <3>2, <3>3 DEF Dismissed, TypeOK
  <2>2. CASE UNCHANGED <<shown, above, data>> /\ chain' = [chain EXCEPT ![c].at = "enabling"]
    BY <1>7, <2>2 DEF Dismissed, TypeOK
  <2> QED BY <1>7, <2>1, <2>2 DEF Dismissed
<1>8. ASSUME NEW c \in Chain, Enabled(c) PROVE TypeOK'
  BY <1>8 DEF Enabled, TypeOK
<1>9. ASSUME NEW c \in Chain, Executes(c) PROVE TypeOK'
  BY <1>9 DEF Executes, TypeOK
<1>10. ASSUME NEW u \in updates, Store(u) PROVE TypeOK'
  <2> DEFINE new == [u EXCEPT !.done = TRUE]
  <2>a. new \in Update /\ new.id = u.id BY EditedParts
  <2>b. updates' \subseteq (updates \ {u}) \cup {new} BY <1>10 DEF Store
  <2> HIDE DEF new
  <2>1. updates' \in SUBSET Update BY <2>a, <2>b DEF TypeOK
  <2>2. \A v, w \in updates' : v.id = w.id => v = w
    BY <2>a, <2>b DEF TypeOK
  <2>3. stored' \in [Question -> 0 .. Questions]
    <3>1. u.data \in 0 .. Questions BY UpdateParts
    <3> QED BY <1>10, <3>1 DEF Store, TypeOK
  <2> QED BY <1>10, <2>1, <2>2, <2>3 DEF Store, TypeOK
<1>11. ASSUME NEW u \in updates, Stored(u) PROVE TypeOK'
  BY <1>11, UpdateParts, DismissTypeOK DEF Stored, TypeOK
<1>12. ASSUME NEW u \in updates, NotStored(u) PROVE TypeOK'
  <2> DEFINE new == [u EXCEPT !.live = FALSE]
  <2>a. new \in Update /\ new.id = u.id BY EditedParts
  <2>b. updates' \subseteq (updates \ {u}) \cup {new} BY <1>12 DEF NotStored
  <2> HIDE DEF new
  <2>1. updates' \in SUBSET Update BY <2>a, <2>b DEF TypeOK
  <2>2. \A v, w \in updates' : v.id = w.id => v = w
    BY <2>a, <2>b DEF TypeOK
  <2> QED BY <1>12, <2>1, <2>2 DEF NotStored, TypeOK
<1>13. ASSUME NEW u \in updates, Lost(u) PROVE TypeOK'
  BY <1>13 DEF Lost, TypeOK
<1>14. ASSUME Dies PROVE TypeOK'
  <2>1. chain' \in [Chain -> [at : Step, q : Question, ready : BOOLEAN]]
    <3>1. chain' = [c \in Chain |-> [at |-> Abandoned(chain[c].at), q |-> 1, ready |-> FALSE]]
      BY <1>14 DEF Dies
    <3>2. \A c \in Chain : Abandoned(chain[c].at) \in Step BY <1>14, AbandonedParts
    <3> QED BY <3>1, <3>2
  <2>2. updates' \in SUBSET Update
    BY <1>14, UnheardParts DEF Dies
  <2>3. \A v, w \in updates' : v.id = w.id => v = w
    <3> SUFFICES ASSUME NEW v \in Unheard(updates), NEW w \in Unheard(updates), v.id = w.id PROVE v = w
      BY <1>14 DEF Dies
    <3>1. PICK t \in updates : v = [t EXCEPT !.live = FALSE] /\ v.id = t.id BY UnheardParts
    <3>2. PICK u \in updates : w = [u EXCEPT !.live = FALSE] /\ w.id = u.id BY UnheardParts
    <3>3. t.id = u.id BY <3>1, <3>2
    <3>4. t = u BY <3>3 DEF TypeOK
    <3> QED BY <3>1, <3>2, <3>4
  <2>4. /\ hasty' \in [Chain -> Nat] /\ data' \in 0 .. Questions /\ shown' = {} /\ above' = {}
        /\ UNCHANGED <<rows, stored, enable>>
    BY <1>14 DEF Dies
  <2> QED BY <2>1, <2>2, <2>3, <2>4 DEF TypeOK
<1>15. ASSUME Elsewhere PROVE TypeOK'
  <2>1. stored' \in [Question -> 0 .. Questions] BY <1>15 DEF Elsewhere, TypeOK
  <2>2. data' \in 0 .. Questions /\ enable' \in BOOLEAN BY <1>15 DEF Elsewhere, TypeOK
  <2> QED BY <1>15, <2>1, <2>2 DEF Elsewhere, TypeOK
<1>16. CASE UNCHANGED vars BY <1>16 DEF vars, TypeOK
<1> QED BY Split, <1>1, <1>2, <1>3, <1>4, <1>5, <1>6, <1>7, <1>8, <1>9, <1>10, <1>11, <1>12,
           <1>13, <1>14, <1>15, <1>16 DEF ChainStep, UpdateStep

\* SignupTypeCorrect: every variable has its type, for any constants: a dialog
\* is on the screen only while its chain asks, and no chain asks past its end.
THEOREM SignupTypeCorrect == Spec => []TypeOK
<1>1. Init => TypeOK BY TypeInit
<1>2. TypeOK /\ [Next]_vars => TypeOK' BY TypeStep
<1> QED BY <1>1, <1>2, PTL DEF Spec
-----------------------------------------------------------------------------
\* AnswersBelong is inductive with what it says of the options on their way.
OwnOptions ==
  ~Tapped => /\ \A c \in shown : data \in {0, chain[c].q}
             /\ \A u \in updates : u.data = u.q
             /\ \A q \in Question : stored[q] \in {0, q}

LEMMA TappedStays == TypeOK /\ [Next]_vars /\ Tapped => Tapped'
<1> SUFFICES ASSUME TypeOK, [Next]_vars,
               NEW c \in Chain, NEW d \in Chain, c # d, chain[c].at # "idle", chain[d].at # "idle"
             PROVE  chain'[c].at # "idle" /\ chain'[d].at # "idle"
  BY DEF Tapped
<1>1. ASSUME NEW e \in Chain, ChainStep(e) PROVE chain'[c].at # "idle" /\ chain'[d].at # "idle"
  BY <1>1 DEF TypeOK, ChainStep, Save, UserInserted, OptionInserted, Select, Answer, Back,
              Dismissed, Enabled, Executes
<1>2. ASSUME NEW u \in updates, UpdateStep(u) PROVE UNCHANGED chain
  BY <1>2 DEF UpdateStep, Store, Stored, NotStored, Lost
<1>3. CASE Dies BY <1>3, AbandonedParts
<1>4. CASE Elsewhere BY <1>4 DEF Elsewhere
<1> QED BY Split, <1>1, <1>2, <1>3, <1>4 DEF vars

LEMMA OptionsStep == TypeOK /\ OwnOptions /\ [Next]_vars => OwnOptions'
<1> SUFFICES ASSUME TypeOK, OwnOptions, [Next]_vars, ~Tapped' PROVE OwnOptions'
  BY DEF OwnOptions
<1>0. ~Tapped BY TappedStays
<1>a. /\ \A c \in shown : data \in {0, chain[c].q}
      /\ \A u \in updates : u.data = u.q
      /\ \A q \in Question : stored[q] \in {0, q}
  BY <1>0 DEF OwnOptions
<1>b. \A c, d \in Chain : c \in shown' /\ d \in shown' => c = d
  BY TypeStep DEF TypeOK, Tapped
<1>1. ASSUME NEW c \in Chain, ChainStep(c) PROVE OwnOptions'
  <2>1. CASE Save(c) \/ UserInserted(c) \/ Enabled(c) \/ Executes(c)
    BY <2>1, <1>a DEF Save, UserInserted, Enabled, Executes, OwnOptions, TypeOK
  <2>2. CASE OptionInserted(c) \/ Select(c)
    BY <2>2, <1>a, <1>b DEF OptionInserted, Select, Choices, Show, OnTop, OwnOptions, TypeOK
  <2>3. CASE Answer(c)
    BY <2>3, <1>a DEF Answer, OnTop, OwnOptions, TypeOK
  <2>4. CASE Back(c)
    BY <2>4, <1>a DEF Back, Dismiss, OwnOptions
  <2>5. CASE Dismissed(c)
    BY <2>5, <1>a, <1>b DEF Dismissed, Show, OwnOptions, TypeOK
  <2> QED BY <1>1, <2>1, <2>2, <2>3, <2>4, <2>5 DEF ChainStep
<1>2. ASSUME NEW u \in updates, UpdateStep(u) PROVE OwnOptions'
  <2>1. CASE Store(u)
    <3> DEFINE new == [u EXCEPT !.done = TRUE]
    <3>a. new.data = u.data /\ new.q = u.q BY EditedParts
    <3>b. updates' \subseteq updates \cup {new} BY <2>1 DEF Store
    <3> HIDE DEF new
    <3>1. \A v \in updates' : v.data = v.q BY <1>a, <3>a, <3>b
    <3>2. \A q \in Question : stored'[q] \in {0, q} BY <2>1, <1>a, UpdateParts DEF Store, TypeOK
    <3> QED BY <2>1, <1>a, <3>1, <3>2 DEF Store, OwnOptions
  <2>2. CASE Stored(u)
    BY <2>2, <1>a DEF Stored, Dismiss, OwnOptions
  <2>3. CASE NotStored(u)
    <3> DEFINE new == [u EXCEPT !.live = FALSE]
    <3>a. new.data = u.data /\ new.q = u.q BY EditedParts
    <3>b. updates' \subseteq updates \cup {new} BY <2>3 DEF NotStored
    <3> HIDE DEF new
    <3>1. \A v \in updates' : v.data = v.q BY <1>a, <3>a, <3>b
    <3> QED BY <2>3, <1>a, <3>1 DEF NotStored, OwnOptions
  <2>4. CASE Lost(u)
    BY <2>4, <1>a DEF Lost, OwnOptions
  <2> QED BY <1>2, <2>1, <2>2, <2>3, <2>4 DEF UpdateStep
<1>3. CASE Dies
  BY <1>3, <1>a, UnheardParts DEF Dies, OwnOptions
<1>4. CASE Elsewhere
  BY <1>0, <1>4, <1>a DEF Elsewhere, OwnOptions, TypeOK
<1>5. CASE UNCHANGED vars BY <1>5, <1>a DEF vars, OwnOptions
<1> QED BY Split, <1>1, <1>2, <1>3, <1>4, <1>5

\* SignupAnswersBelong: unless the button was tapped twice, no column gets an
\* option of another question, whatever fails or comes late.
THEOREM SignupAnswersBelong == Spec => []AnswersBelong
<1>1. Init => TypeOK /\ OwnOptions
  BY TypeInit DEF Init, OwnOptions
<1>2. TypeOK /\ OwnOptions /\ [Next]_vars => (TypeOK /\ OwnOptions)'
  BY TypeStep, OptionsStep
<1>3. TypeOK /\ OwnOptions => AnswersBelong
  BY DEF OwnOptions, Tapped, AnswersBelong
<1> QED BY <1>1, <1>2, <1>3, PTL DEF Spec
-----------------------------------------------------------------------------
\* What the questions of a chain have come to.  Passed are those whose dialog
\* is gone; a passed one without an answer in the database is Missing unless an
\* update of it is still out.
Passed(c) == {q \in Question : q < chain[c].q \/ (q = chain[c].q /\ c \notin shown)}
LiveOf(c) == {u \in updates : u.by = c /\ u.live}
Missing(c) == {q \in Passed(c) : stored[q] = 0 /\ Out(c, q) = {}}
Current(c) == c \in shown /\ Out(c, chain[c].q) # {}

\* Every update that is out may dismiss a dialog; one is entitled to, if it is
\* of the dialog on the screen.  The others, and what is missing already, are
\* paid for by hasty taps and back keys.
BudgetOf(c) ==
  Cardinality(Missing(c)) + Cardinality(LiveOf(c)) <= hasty[c] + (IF Current(c) THEN 1 ELSE 0)
Budget == \A c \in Chain : chain[c].ready => BudgetOf(c)

\* How the variables of a chain go together.
Flow ==
  /\ \A c \in Chain :
       /\ chain[c].at \notin {"asks", "enabling", "over"} => ~chain[c].ready /\ chain[c].q = 1
       /\ chain[c].at \in {"enabling", "over"} => chain[c].q = Questions
       /\ chain[c].ready => rows = {"user", "useroption"}
  /\ \A u \in updates :
       /\ chain[u.by].at \in {"asks", "enabling", "over", "left", "gone"}
       /\ chain[u.by].at \in {"left", "gone"} => ~u.live
       /\ chain[u.by].at \in {"asks", "enabling", "over"} => u.q <= chain[u.by].q
       /\ u.done => u.live /\ (chain[u.by].ready => stored[u.q] # 0)
  /\ IsFiniteSet(updates)

LEMMA FlowStep == TypeOK /\ Flow /\ [Next]_vars => Flow'
<1> SUFFICES ASSUME TypeOK, Flow, [Next]_vars PROVE Flow'
  OBVIOUS
<1> USE SignupAssumption DEF Question
<1>0. \A u \in updates : u.by \in Chain /\ u.q \in Question /\ u.data \in Question BY UpdateParts
<1>a. \A c \in Chain : chain[c].q \in Nat /\ chain[c].ready \in BOOLEAN BY DEF TypeOK
<1>1. ASSUME NEW c \in Chain, ChainStep(c) PROVE Flow'
  <2>1. CASE Save(c)
    BY <1>0, <2>1 DEF Save, Flow, TypeOK
  <2>2. CASE UserInserted(c)
    BY <1>0, <2>2 DEF UserInserted, Flow, TypeOK
  <2>3. CASE OptionInserted(c)
    <3>1. \A u \in updates : u.by # c BY <2>3 DEF OptionInserted, Flow
    <3>2. chain'[c].at = "asks" /\ (chain'[c].ready => rows = {"user", "useroption"})
          /\ chain'[c].q = chain[c].q
      BY <2>3, AskedParts
    <3>3. \A d \in Chain : d # c => chain'[d] = chain[d] BY <2>3, AskedParts
    <3> QED BY <1>0, <2>3, <3>1, <3>2, <3>3 DEF OptionInserted, Flow
  <2>4. CASE Select(c)
    BY <2>4 DEF Select, Flow
  <2>5. CASE Answer(c)
    <3>1. PICK mark \in Tap :
            updates' = updates \cup
              {[id |-> mark, by |-> c, q |-> chain[c].q, data |-> data, done |-> FALSE, live |-> TRUE]}
      BY <2>5 DEF Answer
    <3>2. chain[c].at = "asks" BY <2>5 DEF Answer, OnTop, TypeOK
    <3>3. IsFiniteSet(updates')
      <4> DEFINE new == [id |-> mark, by |-> c, q |-> chain[c].q, data |-> data, done |-> FALSE, live |-> TRUE]
      <4>1. updates' = updates \cup {new} BY <3>1
      <4> HIDE DEF new
      <4> QED BY <4>1, FS_AddElement DEF Flow
    <3> QED BY <1>a, <2>5, <3>1, <3>2, <3>3 DEF Answer, Flow
  <2>6. CASE Back(c)
    BY <2>6 DEF Back, Flow
  <2>7. CASE Dismissed(c)
    <3>1. \A d \in Chain : d # c => chain'[d] = chain[d] BY <2>7 DEF Dismissed, TypeOK
    <3>2. /\ chain'[c].at \in {"asks", "enabling"} /\ chain'[c].ready = chain[c].ready
          /\ chain'[c].q \in {chain[c].q, chain[c].q + 1}
          /\ chain'[c].at = "enabling" => chain'[c].q = Questions
      BY <2>7 DEF Dismissed, TypeOK
    <3>3. chain[c].at = "asks" /\ UNCHANGED <<updates, rows, stored>> BY <2>7 DEF Dismissed
    <3> QED BY <1>0, <1>a, <3>1, <3>2, <3>3 DEF Flow
  <2>8. CASE Enabled(c)
    BY <1>0, <2>8 DEF Enabled, Flow, TypeOK
  <2>9. CASE Executes(c)
    <3>1. rows \subseteq rows' /\ rows' \subseteq {"user", "useroption"}
      BY <2>9 DEF Executes, TypeOK
    <3> QED BY <2>9, <3>1 DEF Executes, Flow
  <2> QED BY <1>1, <2>1, <2>2, <2>3, <2>4, <2>5, <2>6, <2>7, <2>8, <2>9 DEF ChainStep
<1>2. ASSUME NEW u \in updates, UpdateStep(u) PROVE Flow'
  <2>0. IsFiniteSet(updates \ {u}) BY FS_RemoveElement DEF Flow
  <2>1. CASE Store(u)
    <3> DEFINE new == [u EXCEPT !.done = TRUE]
    <3>1. new.by = u.by /\ new.q = u.q /\ new.live = u.live BY UpdateParts DEF Update
    <3>2. updates' = (updates \ {u}) \cup IF u.live THEN {new} ELSE {} BY <2>1 DEF Store
    <3>3. IsFiniteSet(updates')
      <4>1. IsFiniteSet((updates \ {u}) \cup {new}) BY <2>0, FS_AddElement
      <4> QED BY <2>0, <3>2, <4>1
    <3> HIDE DEF new
    <3>4. \A q \in Question : stored[q] # 0 => stored'[q] # 0 BY <1>0, <2>1 DEF Store, TypeOK
    <3>5. chain[u.by].ready => stored'[u.q] # 0 BY <1>0, <2>1 DEF Store, TypeOK, Flow, Table
    <3>6. UNCHANGED <<chain, rows>> BY <2>1 DEF Store
    <3> QED BY <1>0, <3>1, <3>2, <3>3, <3>4, <3>5, <3>6 DEF Flow
  <2>2. CASE Stored(u)
    BY <2>0, <2>2 DEF Stored, Flow
  <2>3. CASE NotStored(u)
    <3> DEFINE new == [u EXCEPT !.live = FALSE]
    <3>1. new.by = u.by /\ new.q = u.q /\ new.done = u.done /\ ~new.live BY UpdateParts DEF Update
    <3>2. updates' = (updates \ {u}) \cup IF u.done THEN {} ELSE {new} BY <2>3 DEF NotStored
    <3>3. IsFiniteSet(updates')
      <4>1. IsFiniteSet((updates \ {u}) \cup {new}) BY <2>0, FS_AddElement
      <4> QED BY <2>0, <3>2, <4>1
    <3> HIDE DEF new
    <3>4. UNCHANGED <<chain, rows, stored>> BY <2>3 DEF NotStored
    <3> QED BY <3>1, <3>2, <3>3, <3>4 DEF Flow
  <2>4. CASE Lost(u)
    BY <2>0, <2>4 DEF Lost, Flow
  <2> QED BY <1>2, <2>1, <2>2, <2>3, <2>4 DEF UpdateStep
<1>3. CASE Dies
  <2>1. \A c \in Chain : ~chain'[c].ready /\ chain'[c].q = 1 /\ chain'[c].at \in {"idle", "lost", "left", "gone"}
    BY <1>3, AbandonedParts
  <2>2. \A v \in updates' : v.by \in Chain /\ chain'[v.by].at \in {"left", "gone"} /\ ~v.live /\ ~v.done
    <3> SUFFICES ASSUME NEW v \in Unheard(updates)
                 PROVE  v.by \in Chain /\ chain'[v.by].at \in {"left", "gone"} /\ ~v.live /\ ~v.done
      BY <1>3 DEF Dies
    <3>1. PICK u \in updates : v.by = u.by /\ ~v.live /\ ~v.done BY UnheardParts
    <3>2. chain[u.by].at \in {"asks", "enabling", "over", "left", "gone"} BY DEF Flow
    <3> QED BY <1>0, <1>3, <3>1, <3>2, AbandonedParts
  <2>3. IsFiniteSet(updates') BY <1>3, UnheardFinite DEF Dies, Flow
  <2> QED BY <2>1, <2>2, <2>3 DEF Flow
<1>4. CASE Elsewhere
  <2>1. UNCHANGED <<chain, rows, updates>> BY <1>4 DEF Elsewhere
  <2>2. \A q \in Question : stored[q] # 0 => stored'[q] # 0 BY <1>4 DEF Elsewhere, TypeOK
  <2> QED BY <1>0, <2>1, <2>2 DEF Flow
<1>5. CASE UNCHANGED vars BY <1>5 DEF vars, Flow
<1> QED BY Split, <1>1, <1>2, <1>3, <1>4, <1>5
-----------------------------------------------------------------------------
LEMMA OneMore ==
  ASSUME NEW S, IsFiniteSet(S), NEW x, NEW T \in SUBSET (S \cup {x})
  PROVE  IsFiniteSet(T) /\ Cardinality(T) \in Nat /\ Cardinality(S) \in Nat
         /\ Cardinality(T) <= Cardinality(S) + 1
<1>1. IsFiniteSet(S \cup {x}) /\ Cardinality(S \cup {x}) <= Cardinality(S) + 1
      /\ Cardinality(S) \in Nat
  BY FS_AddElement, FS_CardinalityType
<1>2. IsFiniteSet(T) /\ Cardinality(T) <= Cardinality(S \cup {x}) BY <1>1, FS_Subset
<1>3. Cardinality(T) \in Nat /\ Cardinality(S \cup {x}) \in Nat BY <1>1, <1>2, FS_CardinalityType
<1> QED BY <1>1, <1>2, <1>3

LEMMA NoMore ==
  ASSUME NEW S, IsFiniteSet(S), NEW T \in SUBSET S
  PROVE  IsFiniteSet(T) /\ Cardinality(T) \in Nat /\ Cardinality(S) \in Nat
         /\ Cardinality(T) <= Cardinality(S)
BY FS_Subset, FS_CardinalityType

LEMMA OneLess ==
  ASSUME NEW S, IsFiniteSet(S), NEW x \in S, NEW T \in SUBSET (S \ {x})
  PROVE  IsFiniteSet(T) /\ Cardinality(T) \in Nat /\ Cardinality(S) \in Nat
         /\ Cardinality(T) + 1 <= Cardinality(S)
<1>1. IsFiniteSet(S \ {x}) /\ Cardinality(S \ {x}) = Cardinality(S) - 1
  BY FS_RemoveElement
<1>2. IsFiniteSet(T) /\ Cardinality(T) <= Cardinality(S \ {x}) BY <1>1, FS_Subset
<1>3. Cardinality(S) \in Nat /\ Cardinality(T) \in Nat BY <1>2, FS_CardinalityType
<1> QED BY <1>1, <1>2, <1>3

LEMMA BudgetFinite ==
  ASSUME TypeOK, Flow, NEW c \in Chain
  PROVE  /\ IsFiniteSet(Missing(c)) /\ Cardinality(Missing(c)) \in Nat
         /\ IsFiniteSet(LiveOf(c)) /\ Cardinality(LiveOf(c)) \in Nat
         /\ hasty[c] \in Nat
<1>1. IsFiniteSet(Question) BY SignupAssumption, FS_Interval DEF Question
<1>2. Missing(c) \in SUBSET Question BY DEF Missing, Passed
<1>3. LiveOf(c) \in SUBSET updates BY DEF LiveOf
<1> QED BY <1>1, <1>2, <1>3, NoMore DEF Flow, TypeOK

LEMMA OutIsLive == \A c, q : Out(c, q) = {u \in LiveOf(c) : u.q = q}
BY DEF Out, LiveOf

\* A step that leaves a chain and its live updates alone keeps its budget.
LEMMA Untouched ==
  ASSUME TypeOK, Flow, NEW c \in Chain, BudgetOf(c),
         chain'[c].q = chain[c].q, c \in shown' <=> c \in shown, hasty'[c] = hasty[c],
         LiveOf(c)' = LiveOf(c), \A q \in Question : stored[q] # 0 => stored'[q] # 0
  PROVE  BudgetOf(c)'
<1>1. \A q : Out(c, q)' = Out(c, q) BY DEF Out, LiveOf
<1>2. Current(c)' = Current(c) BY <1>1 DEF Current
<1>3. Missing(c)' \in SUBSET Missing(c) BY <1>1 DEF Missing, Passed
<1>4. Cardinality(Missing(c)') <= Cardinality(Missing(c)) /\ Cardinality(Missing(c)') \in Nat
  BY <1>3, BudgetFinite, NoMore
<1> QED BY <1>2, <1>4, BudgetFinite DEF BudgetOf

LEMMA AnswerBudget ==
  ASSUME TypeOK, Flow, NEW c \in Chain, BudgetOf(c), Answer(c)
  PROVE  BudgetOf(c)'
<1> DEFINE q == chain[c].q
<1>1. PICK new : /\ updates' = updates \cup {new}
                 /\ new.by = c /\ new.q = q /\ new.live
  <2>1. PICK mark \in Tap :
          updates' = updates \cup
            {[id |-> mark, by |-> c, q |-> chain[c].q, data |-> data, done |-> FALSE, live |-> TRUE]}
    BY DEF Answer
  <2> DEFINE new == [id |-> mark, by |-> c, q |-> chain[c].q, data |-> data, done |-> FALSE, live |-> TRUE]
  <2>2. updates' = updates \cup {new} BY <2>1
  <2>3. new.by = c /\ new.q = q /\ new.live OBVIOUS
  <2> HIDE DEF new
  <2> QED BY <2>2, <2>3
<1>2. c \in shown /\ UNCHANGED <<chain, shown, stored>> BY DEF Answer, OnTop
<1>3. LiveOf(c)' \in SUBSET (LiveOf(c) \cup {new}) BY <1>1 DEF LiveOf
<1>4. Missing(c)' \in SUBSET Missing(c) BY <1>1, <1>2 DEF Missing, Passed, Out
<1>5. Current(c)' BY <1>1, <1>2 DEF Current, Out
<1>6. hasty'[c] = IF Current(c) THEN hasty[c] + 1 ELSE hasty[c]
  BY <1>2 DEF Answer, Current, TypeOK
<1>7. /\ Cardinality(LiveOf(c)') \in Nat /\ Cardinality(LiveOf(c)') <= Cardinality(LiveOf(c)) + 1
      /\ Cardinality(Missing(c)') \in Nat /\ Cardinality(Missing(c)') <= Cardinality(Missing(c))
  <2>1. IsFiniteSet(LiveOf(c)) /\ IsFiniteSet(Missing(c)) BY BudgetFinite
  <2> QED BY <1>3, <1>4, <2>1, OneMore, NoMore
<1> QED BY <1>5, <1>6, <1>7, BudgetFinite DEF BudgetOf

LEMMA BackBudget ==
  ASSUME TypeOK, Flow, NEW c \in Chain, BudgetOf(c), Back(c)
  PROVE  BudgetOf(c)'
<1> DEFINE q == chain[c].q
<1>1. c \in shown /\ shown' = shown \ {c} /\ UNCHANGED <<chain, stored, updates>>
  BY DEF Back, Dismiss, OnTop
<1>2. LiveOf(c)' = LiveOf(c) /\ \A p : Out(c, p)' = Out(c, p) BY <1>1 DEF LiveOf, Out
<1>3. ~Current(c)' BY <1>1 DEF Current
<1>4. hasty'[c] = hasty[c] + 1 BY DEF Back, TypeOK
<1>5. IsFiniteSet(Missing(c)) BY BudgetFinite
<1>6. CASE Current(c)
  <2>1. Missing(c)' \in SUBSET Missing(c) BY <1>1, <1>2, <1>6 DEF Missing, Passed, Current
  <2>2. Cardinality(Missing(c)') \in Nat /\ Cardinality(Missing(c)') <= Cardinality(Missing(c))
    BY <1>5, <2>1, NoMore
  <2> QED BY <1>2, <1>3, <1>4, <1>6, <2>2, BudgetFinite DEF BudgetOf
<1>7. CASE ~Current(c)
  <2>1. Missing(c)' \in SUBSET (Missing(c) \cup {q}) BY <1>1, <1>2 DEF Missing, Passed
  <2>2. Cardinality(Missing(c)') \in Nat /\ Cardinality(Missing(c)') <= Cardinality(Missing(c)) + 1
    BY <1>5, <2>1, OneMore
  <2> QED BY <1>2, <1>3, <1>4, <1>7, <2>2, BudgetFinite DEF BudgetOf
<1> QED BY <1>6, <1>7

LEMMA StoredBudget ==
  ASSUME TypeOK, Flow, NEW u \in updates, chain[u.by].ready, BudgetOf(u.by), Stored(u)
  PROVE  BudgetOf(u.by)'
<1> DEFINE c == u.by
           q == chain[c].q
<1>0. c \in Chain /\ u \in LiveOf(c) /\ stored[u.q] # 0
  BY UpdateParts DEF Stored, LiveOf, Flow
<1>1. shown' = shown \ {c} /\ updates' = updates \ {u} /\ UNCHANGED <<chain, stored, hasty>>
  BY DEF Stored, Dismiss
<1> HIDE DEF c
<1>2. LiveOf(c)' \in SUBSET (LiveOf(c) \ {u}) BY <1>1 DEF LiveOf
<1>3. \A p : p # u.q => Out(c, p)' = Out(c, p) BY <1>1 DEF Out
<1>4. ~Current(c)' BY <1>1 DEF Current
<1>5. IsFiniteSet(Missing(c)) /\ IsFiniteSet(LiveOf(c)) BY <1>0, BudgetFinite
<1>6. Cardinality(LiveOf(c)') \in Nat /\ Cardinality(LiveOf(c)') + 1 <= Cardinality(LiveOf(c))
  BY <1>0, <1>2, <1>5, OneLess
<1>7. Missing(c)' \in SUBSET (Missing(c) \cup {q}) BY <1>0, <1>1, <1>3 DEF Missing, Passed
<1>8. CASE Current(c)
  <2>1. Missing(c)' \in SUBSET Missing(c) BY <1>0, <1>1, <1>3, <1>8 DEF Missing, Passed, Current
  <2>2. Cardinality(Missing(c)') \in Nat /\ Cardinality(Missing(c)') <= Cardinality(Missing(c))
    BY <1>5, <2>1, NoMore
  <2>3. BudgetOf(c) BY DEF c
  <2>4. BudgetOf(c)' BY <1>0, <1>1, <1>4, <1>6, <1>8, <2>2, <2>3, BudgetFinite DEF BudgetOf
  <2> QED BY <2>4 DEF c
<1>9. CASE ~Current(c)
  <2>2. Cardinality(Missing(c)') \in Nat /\ Cardinality(Missing(c)') <= Cardinality(Missing(c)) + 1
    BY <1>5, <1>7, OneMore
  <2>3. BudgetOf(c) BY DEF c
  <2>4. BudgetOf(c)' BY <1>0, <1>1, <1>4, <1>6, <1>9, <2>2, <2>3, BudgetFinite DEF BudgetOf
  <2> QED BY <2>4 DEF c
<1> QED BY <1>8, <1>9

LEMMA NotStoredBudget ==
  ASSUME TypeOK, Flow, NEW u \in updates, BudgetOf(u.by), NotStored(u)
  PROVE  BudgetOf(u.by)'
<1> DEFINE c == u.by
           new == [u EXCEPT !.live = FALSE]
<1>0. c \in Chain /\ u \in LiveOf(c)
  BY UpdateParts DEF NotStored, LiveOf
<1>a. ~new.live BY UpdateParts DEF Update
<1>1. updates' \subseteq (updates \ {u}) \cup {new} /\ updates \ {u} \subseteq updates'
      /\ UNCHANGED <<chain, shown, stored, hasty>>
  BY DEF NotStored
<1> HIDE DEF c, new
<1>2. LiveOf(c)' = LiveOf(c) \ {u} BY <1>a, <1>1 DEF LiveOf
<1>3. \A p : p # u.q => Out(c, p)' = Out(c, p) BY <1>2, OutIsLive DEF Out, LiveOf
<1>5. IsFiniteSet(Missing(c)) /\ IsFiniteSet(LiveOf(c)) BY <1>0, BudgetFinite
<1>6. Cardinality(LiveOf(c)') \in Nat /\ Cardinality(LiveOf(c)') + 1 <= Cardinality(LiveOf(c))
  BY <1>0, <1>2, <1>5, OneLess
<1>7. CASE c \in shown /\ u.q = chain[c].q
  <2>1. Current(c) BY <1>0, <1>7 DEF Current, Out, LiveOf
  <2>2. Missing(c)' \in SUBSET Missing(c)
    <3>1. u.q \notin Passed(c)' BY <1>1, <1>7, UpdateParts DEF Passed, Question
    <3>2. Passed(c)' = Passed(c) BY <1>1 DEF Passed
    <3> QED BY <1>1, <1>3, <3>1, <3>2 DEF Missing
  <2>3. Cardinality(Missing(c)') \in Nat /\ Cardinality(Missing(c)') <= Cardinality(Missing(c))
    BY <1>5, <2>2, NoMore
  <2>4. BudgetOf(c) BY DEF c
  <2>5. BudgetOf(c)' BY <1>0, <1>1, <1>6, <2>1, <2>3, <2>4, BudgetFinite DEF BudgetOf
  <2> QED BY <2>5 DEF c
<1>8. CASE ~(c \in shown /\ u.q = chain[c].q)
  <2>1. Current(c)' = Current(c) BY <1>1, <1>3, <1>8 DEF Current
  <2>2. Missing(c)' \in SUBSET (Missing(c) \cup {u.q}) BY <1>1, <1>3 DEF Missing, Passed
  <2>3. Cardinality(Missing(c)') \in Nat /\ Cardinality(Missing(c)') <= Cardinality(Missing(c)) + 1
    BY <1>5, <2>2, OneMore
  <2>4. BudgetOf(c) BY DEF c
  <2>5. BudgetOf(c)' BY <1>0, <1>1, <1>6, <2>1, <2>3, <2>4, BudgetFinite DEF BudgetOf
  <2> QED BY <2>5 DEF c
<1> QED BY <1>7, <1>8

LEMMA StoreBudget ==
  ASSUME TypeOK, Flow, NEW u \in updates, u.live, BudgetOf(u.by), Store(u)
  PROVE  BudgetOf(u.by)'
<1> DEFINE c == u.by
           new == [u EXCEPT !.done = TRUE]
<1>0. c \in Chain /\ u \in LiveOf(c) BY UpdateParts DEF LiveOf
<1>a. new.live /\ new.by = c /\ new.q = u.q BY UpdateParts DEF Update
<1>1. updates' = (updates \ {u}) \cup {new} /\ UNCHANGED <<chain, shown, hasty>>
  BY DEF Store
<1>b. \A q \in Question : stored[q] # 0 => stored'[q] # 0 BY UpdateParts DEF Store, TypeOK, Question
<1> HIDE DEF c, new
<1>2. LiveOf(c)' = (LiveOf(c) \ {u}) \cup {new} BY <1>a, <1>1 DEF LiveOf
<1>3. \A p : Out(c, p)' = {} <=> Out(c, p) = {}
  <2>1. \A p : Out(c, p)' = {v \in LiveOf(c)' : v.q = p} BY DEF Out, LiveOf
  <2> QED BY <1>0, <1>a, <1>2, <2>1, OutIsLive
<1>4. Current(c)' = Current(c) BY <1>1, <1>3 DEF Current
<1>5. Missing(c)' \in SUBSET Missing(c) BY <1>1, <1>b, <1>3 DEF Missing, Passed
<1>6. Cardinality(Missing(c)') \in Nat /\ Cardinality(Missing(c)') <= Cardinality(Missing(c))
  BY <1>0, <1>5, NoMore, BudgetFinite
<1>7. Cardinality(LiveOf(c)') \in Nat /\ Cardinality(LiveOf(c)') <= Cardinality(LiveOf(c))
  <2>1. /\ IsFiniteSet(LiveOf(c) \ {u}) /\ Cardinality(LiveOf(c) \ {u}) \in Nat
        /\ Cardinality(LiveOf(c) \ {u}) + 1 <= Cardinality(LiveOf(c))
        /\ Cardinality(LiveOf(c)) \in Nat
    BY <1>0, OneLess, BudgetFinite
  <2>2. /\ Cardinality(LiveOf(c)') \in Nat
        /\ Cardinality(LiveOf(c)') <= Cardinality(LiveOf(c) \ {u}) + 1
    BY <1>2, <2>1, OneMore
  <2> QED BY <2>1, <2>2
<1>8. BudgetOf(c) BY DEF c
<1>9. BudgetOf(c)' BY <1>0, <1>1, <1>4, <1>6, <1>7, <1>8, BudgetFinite DEF BudgetOf
<1> QED BY <1>9 DEF c

LEMMA DismissedBudget ==
  ASSUME TypeOK, Flow, NEW c \in Chain, BudgetOf(c), Dismissed(c)
  PROVE  BudgetOf(c)'
<1>1. chain[c].at = "asks" /\ c \notin shown /\ UNCHANGED <<updates, stored, hasty>> BY DEF Dismissed
<1>2. LiveOf(c)' = LiveOf(c) BY <1>1 DEF LiveOf
<1>3. CASE chain' = [chain EXCEPT ![c].q = @ + 1] /\ Show(c)
  <2>1. chain'[c].q = chain[c].q + 1 /\ chain[c].q \in Nat /\ c \in shown'
    BY <1>3 DEF Show, TypeOK, Question
  <2>2. \A u \in updates : u.by = c => u.q \in Nat /\ u.q <= chain[c].q
    BY <1>1, UpdateParts DEF Flow, Question
  <2>3. ~Current(c)' BY <1>1, <2>1, <2>2 DEF Current, Out
  <2>4. Passed(c)' = Passed(c) BY <1>1, <2>1 DEF Passed, Question
  <2>5. Missing(c)' = Missing(c) BY <1>1, <2>4 DEF Missing, Out
  <2>6. ~Current(c) BY <1>1 DEF Current
  <2> QED BY <1>1, <1>2, <2>3, <2>5, <2>6 DEF BudgetOf
<1>4. CASE chain' = [chain EXCEPT ![c].at = "enabling"] /\ UNCHANGED shown
  BY <1>1, <1>2, <1>4, Untouched DEF TypeOK
<1> QED BY <1>3, <1>4 DEF Dismissed

LEMMA BudgetStep == TypeOK /\ Flow /\ Budget /\ [Next]_vars => Budget'
<1> SUFFICES ASSUME TypeOK, Flow, Budget, [Next]_vars, NEW c \in Chain, chain'[c].ready
             PROVE  BudgetOf(c)'
  BY DEF Budget
<1>1. ASSUME NEW e \in Chain, ChainStep(e) PROVE BudgetOf(c)'
  <2>1. CASE OptionInserted(e) /\ e = c
    <3>1. chain'[c].q = 1 /\ c \in shown' /\ UNCHANGED <<updates, hasty>>
      BY <2>1, AskedParts DEF OptionInserted, Show, Flow
    <3>2. LiveOf(c)' = {} BY <2>1, <3>1 DEF LiveOf, Flow, OptionInserted
    <3>3. Missing(c)' = {} BY <3>1 DEF Missing, Passed, Question
    <3> QED BY <3>1, <3>2, <3>3, FS_EmptySet, BudgetFinite DEF BudgetOf
  <2>2. CASE ~(OptionInserted(e) /\ e = c)
    <3>1. chain[c].ready
      BY <1>1, <2>2, AskedParts
         DEF ChainStep, Save, UserInserted, Select, Answer, Back, Dismissed, Enabled, Executes, TypeOK
    <3>2. BudgetOf(c) BY <3>1 DEF Budget
    <3>3. CASE e = c
      <4>1. CASE Save(c) \/ UserInserted(c) \/ OptionInserted(c)
        BY <3>1, <4>1 DEF Save, UserInserted, OptionInserted, Flow
      <4>2. CASE Select(c) \/ Enabled(c) \/ Executes(c)
        <5>1. UNCHANGED <<shown, updates, stored, hasty>> /\ chain'[c].q = chain[c].q
          BY <4>2 DEF Select, Enabled, Executes, TypeOK
        <5>2. LiveOf(c)' = LiveOf(c) BY <5>1 DEF LiveOf
        <5> QED BY <3>2, <5>1, <5>2, Untouched
      <4> QED BY <1>1, <3>2, <3>3, <4>1, <4>2, AnswerBudget, BackBudget, DismissedBudget DEF ChainStep
    <3>4. CASE e # c
      <4>1. chain'[c] = chain[c] /\ hasty'[c] = hasty[c] /\ UNCHANGED stored
            /\ (c \in shown' <=> c \in shown)
        BY <1>1, <3>4, AskedParts
           DEF ChainStep, Save, UserInserted, OptionInserted, Select, Answer, Back, Dismissed, Enabled,
               Executes, Show, Dismiss, TypeOK
      <4>2. LiveOf(c)' = LiveOf(c)
        <5>1. CASE Answer(e)
          <6>1. PICK mark \in Tap :
                  updates' = updates \cup
                    {[id |-> mark, by |-> e, q |-> chain[e].q, data |-> data, done |-> FALSE, live |-> TRUE]}
            BY <5>1 DEF Answer
          <6> QED BY <3>4, <6>1 DEF LiveOf
        <5>2. CASE ~Answer(e)
          BY <1>1, <5>2 DEF LiveOf, ChainStep, Save, UserInserted, OptionInserted, Select, Back,
                            Dismissed, Enabled, Executes
        <5> QED BY <5>1, <5>2
      <4> QED BY <3>2, <4>1, <4>2, Untouched
    <3> QED BY <3>3, <3>4
  <2> QED BY <2>1, <2>2
<1>2. ASSUME NEW u \in updates, UpdateStep(u) PROVE BudgetOf(c)'
  <2>0. UNCHANGED <<chain, hasty>> BY <1>2 DEF UpdateStep, Store, Stored, NotStored, Lost
  <2>1. chain[c].ready /\ BudgetOf(c) BY <2>0 DEF Budget
  <2>2. CASE u.by = c /\ u.live /\ ~Lost(u)
    BY <1>2, <2>1, <2>2, StoreBudget, StoredBudget, NotStoredBudget DEF UpdateStep
  <2>3. CASE ~(u.by = c /\ u.live /\ ~Lost(u))
    <3>1. LiveOf(c)' = LiveOf(c)
      <4>1. \A v \in {[u EXCEPT !.done = TRUE], [u EXCEPT !.live = FALSE]} : v.by = u.by
        BY EditedParts
      <4>2. ~u.live => ~[u EXCEPT !.done = TRUE].live BY UpdateParts DEF Update
      <4>3. CASE Store(u) BY <2>3, <4>1, <4>2, <4>3 DEF Store, Lost, LiveOf
      <4>4. CASE Stored(u) BY <2>3, <4>4 DEF Stored, Lost, LiveOf, Flow
      <4>5. CASE NotStored(u) BY <2>3, <4>1, <4>5 DEF NotStored, Lost, LiveOf
      <4>6. CASE Lost(u) BY <4>6 DEF Lost, LiveOf
      <4> QED BY <1>2, <4>3, <4>4, <4>5, <4>6 DEF UpdateStep
    <3>2. c \in shown' <=> c \in shown
      BY <1>2, <2>3 DEF UpdateStep, Store, Stored, NotStored, Lost, Dismiss, Flow
    <3>3. \A q \in Question : stored[q] # 0 => stored'[q] # 0
      <4>1. CASE Store(u) BY <4>1, UpdateParts DEF Store, TypeOK, Question
      <4>2. CASE ~Store(u) BY <1>2, <4>2 DEF UpdateStep, Stored, NotStored, Lost
      <4> QED BY <4>1, <4>2
    <3> QED BY <2>0, <2>1, <3>1, <3>2, <3>3, Untouched
  <2> QED BY <2>2, <2>3
<1>3. CASE Dies BY <1>3, AbandonedParts
<1>4. CASE Elsewhere
  <2>1. UNCHANGED <<chain, shown, updates, hasty>> BY <1>4 DEF Elsewhere
  <2>2. LiveOf(c)' = LiveOf(c) BY <2>1 DEF LiveOf
  <2>3. \A q \in Question : stored[q] # 0 => stored'[q] # 0
    BY <1>4, SignupAssumption DEF Elsewhere, TypeOK, Question
  <2> QED BY <2>1, <2>2, <2>3, Untouched DEF Budget
<1>5. CASE UNCHANGED vars
  <2>1. LiveOf(c)' = LiveOf(c) BY <1>5 DEF LiveOf, vars
  <2> QED BY <1>5, <2>1, Untouched DEF vars, Budget
<1> QED BY Split, <1>1, <1>2, <1>3, <1>4, <1>5

\* SignupSkipsAreHasty: whatever fails, repeats or comes late, a user who is
\* let in misses no more answers than he has been hasty, for any number of
\* questions, taps and updates under way.
THEOREM SignupSkipsAreHasty == Spec => []SkipsAreHasty
<1> DEFINE IInv == TypeOK /\ Flow /\ Budget
<1>1. Init => IInv
  <2> SUFFICES ASSUME Init PROVE Flow /\ Budget
    BY TypeInit
  <2> QED BY FS_EmptySet DEF Init, Flow, Budget
<1>2. IInv /\ [Next]_vars => IInv'
  BY TypeStep, FlowStep, BudgetStep
<1>3. IInv => SkipsAreHasty
  <2> SUFFICES ASSUME IInv, NEW c \in Chain, chain[c].at \in {"enabling", "over"}, chain[c].ready
               PROVE  Cardinality({q \in Question : stored[q] = 0}) <= hasty[c]
    BY DEF SkipsAreHasty
  <2> DEFINE zero == {q \in Question : stored[q] = 0}
  <2>1. c \notin shown /\ chain[c].q = Questions BY DEF TypeOK, Flow
  <2>2. Passed(c) = Question BY <2>1, SignupAssumption DEF Passed, Question
  <2> DEFINE out == {u.q : u \in LiveOf(c)}
             f == [u \in LiveOf(c) |-> u.q]
  <2>3. IsFiniteSet(LiveOf(c)) /\ Cardinality(LiveOf(c)) \in Nat
        /\ IsFiniteSet(Missing(c)) /\ Cardinality(Missing(c)) \in Nat /\ hasty[c] \in Nat
    BY BudgetFinite
  <2>4. IsFiniteSet(out) /\ Cardinality(out) <= Cardinality(LiveOf(c)) /\ Cardinality(out) \in Nat
    <3>1. f \in Surjection(LiveOf(c), out) BY DEF Surjection
    <3> QED BY <2>3, <3>1, FS_Surjection, FS_CardinalityType
  <2>5. zero \in SUBSET (Missing(c) \cup out)
    BY <2>2, OutIsLive DEF Missing
  <2>6. /\ IsFiniteSet(Missing(c) \cup out) /\ Cardinality(Missing(c) \cup out) \in Nat
        /\ Cardinality(Missing(c) \cup out) <= Cardinality(Missing(c)) + Cardinality(out)
    <3>1. /\ IsFiniteSet(Missing(c) \cap out) /\ Cardinality(Missing(c) \cap out) \in Nat
      BY <2>3, FS_Subset, FS_CardinalityType
    <3> HIDE DEF out
    <3>2. /\ IsFiniteSet(Missing(c) \cup out)
          /\ Cardinality(Missing(c) \cup out)
               = Cardinality(Missing(c)) + Cardinality(out) - Cardinality(Missing(c) \cap out)
      BY <2>3, <2>4, FS_Union
    <3>3. Cardinality(Missing(c) \cup out) \in Nat BY <3>2, FS_CardinalityType
    <3> QED BY <2>3, <2>4, <3>1, <3>2, <3>3
  <2>7. Cardinality(zero) \in Nat /\ Cardinality(zero) <= Cardinality(Missing(c) \cup out)
    BY <2>5, <2>6, NoMore
  <2>8. ~Current(c) /\ BudgetOf(c) BY <2>1 DEF Current, Budget
  <2> HIDE DEF zero, out
  <2>9. Cardinality(zero) <= hasty[c] BY <2>3, <2>4, <2>6, <2>7, <2>8 DEF BudgetOf
  <2> QED BY <2>9 DEF zero
<1> QED BY <1>1, <1>2, <1>3, PTL DEF Spec
-----------------------------------------------------------------------------
\* Entry.  Its actions in groups: between activities, on the edit page, its
\* updates.
Moves == CheckRead \/ CheckReply \/ CheckFails \/ LeaveForm \/ LoginReply \/ LeaveMain
Loads == OpenEdit \/ OptionsRead \/ OptionsReply \/ OptionsFail
Asks == (\E q \in OnPage : Ask(q)) \/ Choose \/ SendEdit \/ BackDialog
Leaves == BackEdit \/ Cancel
EditStep(u) == EditStore(u) \/ EditStored(u) \/ EditNotStored(u) \/ EditLost(u)
Sets(value) == SetEnable(value) \/ EnableLost(value)

LEMMA EntrySplit ==
  ASSUME [EntryNext]_allVars
  PROVE  \/ Moves \/ FormStep \/ Loads \/ Asks \/ Leaves \/ Die
         \/ \E u \in edits : EditStep(u)
         \/ \E value \in leaving : Sets(value)
         \/ UNCHANGED allVars
BY DEF EntryNext, Moves, Loads, Asks, Leaves, EditStep, Sets

\* Without a second tap of the form's button the edit page is alone with the
\* options: the chain that let the user in is over.
Alone ==
  /\ at # "form" => Tapped \/ \A c \in Chain : ~Under(c)
  /\ at = "form" => form
  /\ dialog \in Question => Tapped \/ data \in {0, dialog}
  /\ \A u \in edits : (Tapped \/ u.data = u.q) /\ (u.done => u.live)
Base == EntryTypeOK /\ Alone

LEMMA PageQuestions ==
  /\ OnPage \subseteq Question
  /\ 0 \notin Question /\ 0 \notin OnPage /\ Confirm \notin Question /\ Confirm \notin OnPage
BY SignupAssumption, EntryAssumption DEF Question, Confirm

LEMMA EditParts ==
  ASSUME Base, NEW u \in edits
  PROVE  /\ u \in Edit /\ u.id \in EditTap /\ u.q \in OnPage /\ u.q \in Question
         /\ u.data \in Question /\ (Tapped \/ u.data = u.q)
         /\ u.done \in BOOLEAN /\ u.live \in BOOLEAN /\ (u.done => u.live)
BY PageQuestions DEF Base, EntryTypeOK, Alone, Edit

LEMMA EditEditedParts ==
  ASSUME Base, NEW u \in edits
  PROVE  /\ \A v \in {[u EXCEPT !.done = TRUE], [u EXCEPT !.live = FALSE]} :
              v \in Edit /\ v.id = u.id /\ v.q = u.q /\ v.data = u.data
         /\ [u EXCEPT !.done = TRUE].done /\ [u EXCEPT !.done = TRUE].live = u.live
         /\ ~[u EXCEPT !.live = FALSE].live /\ [u EXCEPT !.live = FALSE].done = u.done
BY EditParts DEF Edit

LEMMA UnheardEdits ==
  ASSUME Base
  PROVE  \A v \in Unheard(edits) : v \in Edit /\ (Tapped \/ v.data = v.q) /\ ~v.live /\ ~v.done
<1> SUFFICES ASSUME NEW v \in Unheard(edits)
             PROVE  v \in Edit /\ (Tapped \/ v.data = v.q) /\ ~v.live /\ ~v.done
  OBVIOUS
<1>1. PICK u \in edits : ~u.done /\ v = [u EXCEPT !.live = FALSE] BY DEF Unheard
<1>2. v \in Edit /\ v.q = u.q /\ v.data = u.data BY <1>1, EditEditedParts
<1>3. ~v.live /\ v.done = u.done BY <1>1, EditEditedParts
<1> QED BY <1>1, <1>2, <1>3, EditParts

\* Whatever steps of the form go on, they leave the page alone.
LEMMA FormLeavesPage ==
  ASSUME FormStep
  PROVE  /\ UNCHANGED <<form, text, load, dialog, hurried, unheard, edits, leaving, blind>>
         /\ (at' = at \/ (at # "edit" /\ at' = "splash")) /\ (late' \in BOOLEAN \/ UNCHANGED late) /\ (known' \/ UNCHANGED known)
BY DEF FormStep, Misses, entryVars, page

\* Away from the form, and without a second tap, only its requests go on.
LEMMA FormIsStill ==
  ASSUME TypeOK, Base, at # "form", ~Tapped, FormStep
  PROVE  UNCHANGED <<chain, shown, data, at, known>> /\ rows \subseteq rows'
<1>0. \A c \in Chain : ~Under(c) BY DEF Base, Alone
<1>1. shown = {} BY <1>0 DEF TypeOK, Under
<1>2. ~\E c \in Chain : OptionInserted(c) \/ UserInserted(c) \/ Dismissed(c) \/ Enabled(c)
  BY <1>0 DEF Under, OptionInserted, UserInserted, Dismissed, Enabled
<1>3. CASE \E c \in Chain : Executes(c) /\ UNCHANGED entryVars
  BY <1>3 DEF Executes, entryVars
<1>4. ASSUME NEW u \in updates, Stored(u) \/ NotStored(u) \/ Lost(u), UNCHANGED entryVars
      PROVE  UNCHANGED <<chain, shown, data, at, known>> /\ rows \subseteq rows'
  BY <1>1, <1>4 DEF Stored, Dismiss, NotStored, Lost, entryVars
<1>5. ASSUME NEW u \in updates, Store(u), UNCHANGED <<at, known>>
      PROVE  UNCHANGED <<chain, shown, data, at, known>> /\ rows \subseteq rows'
  BY <1>5 DEF Store
<1> QED BY <1>2, <1>3, <1>4, <1>5 DEF FormStep

\* Every step of Entry is one of Signup, or none.
LEMMA EntryImplements ==
  ASSUME TypeOK, Base, [EntryNext]_allVars
  PROVE  [Next]_vars
<1>1. CASE Moves \/ Loads
  BY <1>1 DEF Moves, Loads, CheckRead, CheckReply, CheckFails, LeaveForm, LoginReply, LeaveMain,
              OpenEdit, OptionsRead, OptionsReply, OptionsFail
<1>2. CASE FormStep
  BY <1>2 DEF FormStep, Next
<1>3. CASE Asks
  <2>1. CASE SendEdit \/ BackDialog BY <2>1 DEF SendEdit, BackDialog
  <2>2. CASE (\E q \in OnPage : Ask(q)) \/ Choose
    <3>1. at = "edit" BY <2>2, PageQuestions DEF Ask, Choose, Base, EntryTypeOK
    <3>2. shown = {} \/ Tapped BY <3>1 DEF Base, Alone, TypeOK, Under
    <3>3. data' \in 0 .. Questions BY <2>2, SignupAssumption DEF Ask, Choose, Choices, Question
    <3> QED BY <2>2, <3>2, <3>3 DEF Ask, Choose, Next, Elsewhere
  <2> QED BY <1>3, <2>1, <2>2 DEF Asks
<1>4. CASE Leaves BY <1>4 DEF Leaves, BackEdit, Cancel, Leave
<1>5. CASE Die BY <1>5 DEF Die, Next
<1>6. ASSUME NEW u \in edits, EditStep(u) PROVE [Next]_vars
  <2>1. CASE EditStore(u)
    <3>1. u.q \in Question /\ u.data \in Question /\ (u.data = u.q \/ Tapped) BY EditParts
    <3>2. CASE Table(u.q) \in rows BY <2>1, <3>1, <3>2 DEF EditStore, Next, Elsewhere
    <3>3. CASE Table(u.q) \notin rows BY <2>1, <3>3 DEF EditStore, vars
    <3> QED BY <3>2, <3>3
  <2> QED BY <1>6, <2>1 DEF EditStep, EditStored, EditNotStored, EditLost
<1>7. ASSUME NEW value \in leaving, Sets(value) PROVE [Next]_vars
  <2>1. CASE SetEnable(value)
    <3>1. enable' \in BOOLEAN BY <2>1 DEF SetEnable, TypeOK
    <3> QED BY <2>1, <3>1 DEF SetEnable, Next, Elsewhere
  <2> QED BY <1>7, <2>1 DEF Sets, EnableLost
<1>8. CASE UNCHANGED allVars BY <1>8 DEF allVars
<1> QED BY EntrySplit, <1>1, <1>2, <1>3, <1>4, <1>5, <1>6, <1>7, <1>8

LEMMA NewPageParts ==
  ASSUME NEW a \in {"asked", "read", "over", "failed"}, NewPage(a)
  PROVE  /\ text' \in [OnPage -> 0 .. Unset] /\ \A q \in OnPage : text'[q] = Unset
         /\ load' \in [at : {"asked", "read", "over", "failed"}, saw : [OnPage -> 0 .. Questions]]
         /\ load'.at = a /\ \A q \in OnPage : load'.saw[q] = 0
         /\ dialog' = 0 /\ hurried' = FALSE /\ unheard' = FALSE /\ late' = FALSE
<1>1. load' = [at |-> a, saw |-> [q \in OnPage |-> 0]] BY DEF NewPage, Closed
<1>2. Unset \in 0 .. Unset /\ 0 \in 0 .. Questions BY SignupAssumption DEF Unset
<1>3. text' \in [OnPage -> 0 .. Unset] /\ \A q \in OnPage : text'[q] = Unset BY <1>2 DEF NewPage
<1>4. /\ load' \in [at : {"asked", "read", "over", "failed"}, saw : [OnPage -> 0 .. Questions]]
      /\ load'.at = a /\ \A q \in OnPage : load'.saw[q] = 0
  BY <1>1, <1>2
<1> QED BY <1>3, <1>4 DEF NewPage

LEMMA BaseInit == EntryInit => Base
<1> SUFFICES ASSUME EntryInit PROVE Base
  OBVIOUS
<1> USE SignupAssumption DEF EntryInit
<1>1. load \in [at : {"asked", "read", "over", "failed"}, saw : [OnPage -> 0 .. Questions]]
  BY DEF Closed
<1>2. text \in [OnPage -> 0 .. Unset] /\ dialog = 0 /\ 0 \notin Question
  BY PageQuestions DEF Unset
<1>3. \A c \in Chain : ~Under(c) BY DEF Init, Under
<1> QED BY <1>1, <1>2, <1>3 DEF Base, EntryTypeOK, Alone, Activity

\* Edits that are executed, answered or lost.
LEMMA EditStepBase == ASSUME TypeOK, Base, NEW u \in edits, EditStep(u) PROVE Base'
<1> USE SignupAssumption
<1>t. Tapped' <=> Tapped
  BY DEF EditStep, EditStore, EditStored, EditNotStored, EditLost, Tapped, vars
<1>0. u \in Edit /\ u.q \in OnPage /\ (Tapped \/ u.data = u.q) /\ u.done \in BOOLEAN /\ u.live \in BOOLEAN
      /\ (u.done => u.live)
  BY EditParts
<1>1. CASE EditStore(u)
  <2> DEFINE new == [u EXCEPT !.done = TRUE]
  <2>a. new \in Edit /\ new.q = u.q /\ new.data = u.data BY EditEditedParts
  <2>b. new.done /\ new.live = u.live BY EditEditedParts
  <2>1. new \in Edit /\ (Tapped \/ new.data = new.q) /\ new.done /\ new.live = u.live
    BY <1>0, <2>a, <2>b
  <2>2. edits' \subseteq (edits \ {u}) \cup {new} /\ (~u.live => edits' = edits \ {u})
    BY <1>1 DEF EditStore
  <2> HIDE DEF new
  <2>3. /\ UNCHANGED <<chain, data, updates, rows, at, form, text, load, dialog, known, leaving>>
        /\ UNCHANGED <<hurried, unheard>>
    BY <1>1 DEF EditStore
  <2>5. blind' \in BOOLEAN /\ late' \in BOOLEAN
    BY <1>1 DEF EditStore, Misses, Base, EntryTypeOK
  <2>4. \A v \in edits' : v \in Edit /\ (Tapped \/ v.data = v.q) /\ (v.done => v.live) /\ (v.live => at = "edit")
    BY <1>0, <2>1, <2>2 DEF Base, EntryTypeOK, Alone
  <2> QED BY <1>t, <2>3, <2>4, <2>5 DEF Base, EntryTypeOK, Alone, Under
<1>2. CASE EditStored(u)
  <2>1. /\ UNCHANGED <<chain, data, updates, rows, at, form, load, known, leaving, blind>>
        /\ UNCHANGED <<hurried, unheard, late>> /\ edits' \subseteq edits /\ dialog' \in {0, dialog}
    BY <1>2 DEF EditStored, vars
  <2>2. data \in 0 .. Unset BY DEF TypeOK, Unset
  <2>3. text' \in [OnPage -> 0 .. Unset] BY <1>2, <2>2 DEF EditStored, Base, EntryTypeOK
  <2> QED BY <1>t, <2>1, <2>3, PageQuestions DEF Base, EntryTypeOK, Alone, Under
<1>3. CASE EditNotStored(u)
  <2> DEFINE new == [u EXCEPT !.live = FALSE]
  <2>a. new \in Edit /\ new.q = u.q /\ new.data = u.data BY EditEditedParts
  <2>b. new.done = u.done /\ ~new.live BY EditEditedParts
  <2>1. new \in Edit /\ (Tapped \/ new.data = new.q) /\ new.done = u.done /\ ~new.live
    BY <1>0, <2>a, <2>b
  <2>2. edits' \subseteq (edits \ {u}) \cup {new} /\ (u.done => edits' = edits \ {u})
    BY <1>3 DEF EditNotStored
  <2> HIDE DEF new
  <2>3. /\ UNCHANGED <<chain, data, updates, rows, at, form, text, load, dialog, known, leaving>>
        /\ UNCHANGED <<hurried, blind, late>> /\ unheard' \in BOOLEAN
    BY <1>3 DEF EditNotStored, vars
  <2>4. \A v \in edits' : v \in Edit /\ (Tapped \/ v.data = v.q) /\ (v.done => v.live) /\ (v.live => at = "edit")
    BY <1>0, <2>1, <2>2 DEF Base, EntryTypeOK, Alone
  <2> QED BY <1>t, <2>3, <2>4 DEF Base, EntryTypeOK, Alone, Under
<1>4. CASE EditLost(u)
  BY <1>t, <1>4 DEF EditLost, vars, page, Base, EntryTypeOK, Alone, Under
<1> QED BY <1>1, <1>2, <1>3, <1>4 DEF EditStep

LEMMA LeaveBase == ASSUME TypeOK, Base, NEW value \in {0, 1}, at = "edit", Leave(value) PROVE Base'
<1>1. "over" \in {"asked", "read", "over", "failed"} /\ NewPage("over") BY DEF Leave
<1>2. UNCHANGED <<vars, known, form, blind>> /\ at' = "main" /\ leaving' = leaving \cup {value}
      /\ edits' = Unheard(edits)
  BY DEF Leave
<1>3. \A v \in edits' : v \in Edit /\ (Tapped \/ v.data = v.q) /\ ~v.live /\ ~v.done BY <1>2, UnheardEdits
<1>4. /\ text' \in [OnPage -> 0 .. Unset] /\ dialog' = 0 /\ hurried' = FALSE /\ unheard' = FALSE /\ late' = FALSE
      /\ load' \in [at : {"asked", "read", "over", "failed"}, saw : [OnPage -> 0 .. Questions]]
  BY <1>1, NewPageParts
<1>5. (Tapped' <=> Tapped) /\ UNCHANGED <<chain, rows, data>> BY <1>2 DEF vars, Tapped
<1> QED BY <1>2, <1>3, <1>4, <1>5, PageQuestions DEF Base, EntryTypeOK, Alone, Under, Activity

\* Nobody is on the edit page but a step of the form may send him away: then the
\* chain that does is not the only one, or none is under way.
LEMMA FormIsOver ==
  ASSUME TypeOK, Base, FormStep, Tapped => Tapped', at' # "form"
  PROVE  Tapped' \/ \A c \in Chain : ~Under(c)'
<1> SUFFICES ASSUME ~Tapped' PROVE \A c \in Chain : ~Under(c)'
  OBVIOUS
<1>1. CASE at # "form"
  BY <1>1, FormIsStill DEF Base, Alone, Under
<1>2. CASE at = "form"
  <2>1. PICK c \in Chain : Enabled(c)
    BY <1>2 DEF FormStep, entryVars
  <2>2. chain'[c].at = "over" BY <2>1 DEF Enabled, TypeOK
  <2>3. \A d \in Chain : d # c => chain'[d].at = "idle" BY <2>2 DEF Tapped
  <2> QED BY <2>2, <2>3 DEF Under
<1> QED BY <1>1, <1>2

LEMMA BaseStep == TypeOK /\ Base /\ [EntryNext]_allVars => Base'
<1> SUFFICES ASSUME TypeOK, Base, [EntryNext]_allVars PROVE Base'
  OBVIOUS
<1> USE SignupAssumption
<1>t. Tapped => Tapped' BY EntryImplements, TappedStays
<1>1. CASE Moves
  <2>1. UNCHANGED <<chain, data, rows, page, edits, leaving, blind>>
    BY <1>1 DEF Moves, CheckRead, CheckReply, CheckFails, LeaveForm, LoginReply, LeaveMain, vars
  <2>2. /\ at' \in Activity /\ at' # "edit" /\ known' \in BOOLEAN /\ form' \in BOOLEAN
        /\ at # "edit" /\ (at' = "main" => "user" \in rows) /\ (at' = "form" => form')
        /\ at = "form" => \A c \in Chain : ~Under(c)
    BY <1>1 DEF Moves, CheckRead, CheckReply, CheckFails, LeaveForm, LoginReply, LeaveMain,
                Activity, Base, EntryTypeOK
  <2> QED BY <1>t, <2>1, <2>2 DEF Base, EntryTypeOK, Alone, Under, page
<1>2. CASE FormStep
  <2>1. /\ UNCHANGED <<form, text, load, dialog, hurried, unheard, edits, leaving, blind>>
        /\ (at' = at \/ (at # "edit" /\ at' = "splash")) /\ late' \in BOOLEAN /\ known' \in BOOLEAN
    BY <1>2, FormLeavesPage DEF Base, EntryTypeOK
  <2>2. rows \subseteq rows'
    BY <1>2 DEF FormStep, Save, UserInserted, OptionInserted, Select, Answer, Back, Dismissed,
                Enabled, Executes, Store, Stored, NotStored, Lost
  <2>3. EntryTypeOK'
    BY <2>1, <2>2, PageQuestions DEF Base, EntryTypeOK, Activity
  <2>4. at' # "form" => Tapped' \/ \A c \in Chain : ~Under(c)'
    BY <1>2, <1>t, FormIsOver
  <2>5. dialog \in Question => Tapped' \/ data' \in {0, dialog}
    <3>1. dialog \in Question => at = "edit" BY PageQuestions DEF Base, EntryTypeOK
    <3> QED BY <1>t, <1>2, <3>1, FormIsStill DEF Base, Alone
  <2> QED BY <1>t, <2>1, <2>3, <2>4, <2>5 DEF Base, Alone
<1>3. CASE Loads
  <2>1. CASE OpenEdit
    <3>1. "asked" \in {"asked", "read", "over", "failed"} /\ NewPage("asked") BY <2>1 DEF OpenEdit
    <3>2. /\ text' \in [OnPage -> 0 .. Unset] /\ dialog' = 0 /\ hurried' = FALSE /\ unheard' = FALSE /\ late' = FALSE
          /\ load' \in [at : {"asked", "read", "over", "failed"}, saw : [OnPage -> 0 .. Questions]]
      BY <3>1, NewPageParts
    <3>3. /\ UNCHANGED <<chain, data, rows, known, form, edits, leaving, blind>> /\ at = "main" /\ at' = "edit"
      BY <2>1 DEF OpenEdit, vars
    <3> QED BY <1>t, <3>2, <3>3, PageQuestions DEF Base, EntryTypeOK, Alone, Under, Activity
  <2>2. CASE OptionsRead
    <3>1. load' \in [at : {"asked", "read", "over", "failed"}, saw : [OnPage -> 0 .. Questions]]
      BY <2>2, PageQuestions DEF OptionsRead, TypeOK
    <3> QED BY <1>t, <2>2, <3>1 DEF OptionsRead, vars, Base, EntryTypeOK, Alone, Under
  <2>3. CASE OptionsReply
    <3>1. \A q \in OnPage : load.saw[q] \in 0 .. Unset BY DEF Base, EntryTypeOK, Unset
    <3>2. text' \in [OnPage -> 0 .. Unset]
      BY <2>3, <3>1 DEF OptionsReply, Base, EntryTypeOK
    <3>3. load' \in [at : {"asked", "read", "over", "failed"}, saw : [OnPage -> 0 .. Questions]]
      BY <2>3 DEF OptionsReply, Closed
    <3> QED BY <1>t, <2>3, <3>2, <3>3 DEF OptionsReply, vars, Base, EntryTypeOK, Alone, Under
  <2>4. CASE OptionsFail
    <3>1. load' \in [at : {"asked", "read", "over", "failed"}, saw : [OnPage -> 0 .. Questions]]
      BY <2>4 DEF OptionsFail, Closed
    <3> QED BY <1>t, <2>4, <3>1 DEF OptionsFail, vars, Base, EntryTypeOK, Alone, Under
  <2> QED BY <1>3, <2>1, <2>2, <2>3, <2>4 DEF Loads
<1>4. CASE Asks
  <2>1. ASSUME NEW q \in OnPage, Ask(q) PROVE Base'
    BY <1>t, <2>1, PageQuestions DEF Ask, Base, EntryTypeOK, Alone, Under
  <2>2. CASE Choose
    BY <1>t, <2>2 DEF Choose, Choices, Base, EntryTypeOK, Alone, Under, entryVars, page
  <2>3. CASE SendEdit
    <3>1. PICK mark \in EditTap :
            edits' = edits \cup {[id |-> mark, q |-> dialog, data |-> data, done |-> FALSE, live |-> TRUE]}
      BY <2>3 DEF SendEdit
    <3>2. dialog \in OnPage /\ data \in Question /\ (Tapped \/ data = dialog)
      BY <2>3, PageQuestions DEF SendEdit, Base, EntryTypeOK, Alone, TypeOK, Question
    <3>3. [id |-> mark, q |-> dialog, data |-> data, done |-> FALSE, live |-> TRUE] \in Edit
      BY <3>2 DEF Edit
    <3>4. at = "edit" BY <3>2, PageQuestions DEF Base, EntryTypeOK
    <3>5. /\ UNCHANGED <<chain, data, updates, rows, at, form, text, load, dialog, known, leaving>>
          /\ UNCHANGED <<blind, unheard, late>> /\ hurried' \in BOOLEAN
      BY <2>3 DEF SendEdit, vars, Base, EntryTypeOK
    <3> DEFINE new == [id |-> mark, q |-> dialog, data |-> data, done |-> FALSE, live |-> TRUE]
    <3>a. new \in Edit /\ (Tapped \/ new.data = new.q) /\ new.live BY <3>2, <3>3
    <3>b. edits' = edits \cup {new} BY <3>1
    <3> HIDE DEF new
    <3>6. \A v \in edits' : v \in Edit /\ (Tapped \/ v.data = v.q) /\ (v.done => v.live)
      BY <3>a, <3>b DEF Base, EntryTypeOK, Alone
    <3> QED BY <1>t, <3>4, <3>5, <3>6 DEF Base, EntryTypeOK, Alone, Under
  <2>4. CASE BackDialog
    <3>1. hurried' \in BOOLEAN BY <2>4 DEF BackDialog, Base, EntryTypeOK
    <3> QED BY <1>t, <2>4, <3>1, PageQuestions DEF BackDialog, vars, Base, EntryTypeOK, Alone, Under
  <2> QED BY <1>4, <2>1, <2>2, <2>3, <2>4 DEF Asks
<1>5. CASE Leaves
  <2>1. CASE Cancel
    <3>1. at = "edit" BY <2>1, SignupAssumption DEF Cancel, Base, EntryTypeOK, Confirm
    <3> QED BY <2>1, <3>1, LeaveBase DEF Cancel
  <2>2. CASE BackEdit /\ Leave(1) BY <2>2, LeaveBase DEF BackEdit
  <2>3. CASE BackEdit /\ ~Leave(1)
    BY <1>t, <2>3, PageQuestions DEF BackEdit, vars, Base, EntryTypeOK, Alone, Under
  <2> QED BY <1>5, <2>1, <2>2, <2>3 DEF Leaves
<1>6. CASE Die
  <2>1. "over" \in {"asked", "read", "over", "failed"} /\ NewPage("over") BY <1>6 DEF Die
  <2>2. /\ UNCHANGED <<known, leaving, blind, rows>> /\ at' \in {"splash", "start"} /\ ~form'
        /\ edits' = Unheard(edits)
    BY <1>6 DEF Die, Dies
  <2>3. \A v \in edits' : v \in Edit /\ (Tapped \/ v.data = v.q) /\ ~v.live /\ ~v.done BY <2>2, UnheardEdits
  <2>4. /\ text' \in [OnPage -> 0 .. Unset] /\ dialog' = 0 /\ hurried' = FALSE /\ unheard' = FALSE /\ late' = FALSE
        /\ load' \in [at : {"asked", "read", "over", "failed"}, saw : [OnPage -> 0 .. Questions]]
    BY <2>1, NewPageParts
  <2>5. form' \in BOOLEAN BY <1>6 DEF Die
  <2>6. \A c \in Chain : ~Under(c)' BY <1>6, AbandonedParts DEF Die, Under
  <2> QED BY <1>t, <2>2, <2>3, <2>4, <2>5, <2>6, PageQuestions DEF Base, EntryTypeOK, Alone, Activity
<1>7. ASSUME NEW value \in leaving, Sets(value) PROVE Base'
  BY <1>t, <1>7 DEF Sets, SetEnable, EnableLost, vars, page, Base, EntryTypeOK, Alone, Under
<1>8. CASE UNCHANGED allVars
  BY <1>t, <1>8 DEF allVars, vars, entryVars, page, Base, EntryTypeOK, Alone, Under
<1> QED BY EntrySplit, <1>1, <1>2, <1>3, <1>4, <1>5, <1>6, <1>7, <1>8, EditStepBase

\* EntryKeepsSignup: with its way in and the edit page around it, and whatever
\* they do to the user's rows, the form still behaves as Signup says.
THEOREM EntryKeepsSignup == EntrySpec => Spec
<1>1. EntryInit => Init /\ TypeOK /\ Base BY TypeInit, BaseInit DEF EntryInit
<1>2. TypeOK /\ Base /\ [EntryNext]_allVars => [Next]_vars /\ TypeOK' /\ Base'
  BY EntryImplements, TypeStep, BaseStep
<1> QED BY <1>1, <1>2, PTL DEF EntrySpec, Spec

\* EntryTypeCorrect: every variable has its type; no dialog and nobody who
\* listens to an answer outlives the edit page, and only a user with a row gets
\* to it.
THEOREM EntryTypeCorrect == EntrySpec => []EntryTypeOK
<1>1. EntryInit => TypeOK /\ Base BY TypeInit, BaseInit DEF EntryInit
<1>2. TypeOK /\ Base /\ [EntryNext]_allVars => (TypeOK /\ Base)'
  BY EntryImplements, TypeStep, BaseStep
<1>3. Base => EntryTypeOK BY DEF Base
<1> QED BY <1>1, <1>2, <1>3, PTL DEF EntrySpec
-----------------------------------------------------------------------------
LEMMA HalfStep ==
  ASSUME TypeOK, Base, Half, [EntryNext]_allVars
  PROVE  Half'
<1>0. /\ rows = {"user"} /\ ~form /\ at \notin {"absent", "form"}
      /\ \A c \in Chain : chain[c].at \in {"idle", "lost"}
  BY DEF Half, Base, Alone
<1>1. CASE Moves
  BY <1>0, <1>1 DEF Moves, CheckRead, CheckReply, CheckFails, LeaveForm, LoginReply, LeaveMain, vars, Half
<1>2. CASE FormStep
  <2>1. shown = {} BY <1>0 DEF TypeOK
  <2>2. ~\E c \in Chain : OptionInserted(c) \/ UserInserted(c) \/ Dismissed(c) \/ Enabled(c)
    BY <1>0 DEF OptionInserted, UserInserted, Dismissed, Enabled
  <2>3. UNCHANGED <<at, form>>
    BY <1>0, <1>2, <2>2 DEF FormStep, entryVars
  <2>4. UNCHANGED <<chain, rows>>
    <3>1. ASSUME NEW c \in Chain, Executes(c) PROVE UNCHANGED <<chain, rows>>
      BY <1>0, <3>1 DEF Executes
    <3>2. ASSUME NEW u \in updates, UpdateStep(u) PROVE UNCHANGED <<chain, rows>>
      BY <3>2 DEF UpdateStep, Store, Stored, NotStored, Lost
    <3> QED BY <1>0, <1>2, <2>2, <3>1, <3>2 DEF FormStep, UpdateStep
  <2> QED BY <1>0, <2>3, <2>4 DEF Half
<1>3. CASE Loads \/ Asks
  BY <1>0, <1>3 DEF Loads, OpenEdit, OptionsRead, OptionsReply, OptionsFail,
                    Asks, Ask, Choose, SendEdit, BackDialog, vars, entryVars, Half
<1>4. CASE Leaves BY <1>0, <1>4 DEF Leaves, BackEdit, Cancel, Leave, vars, Half
<1>5. CASE Die
  <2>1. \A c \in Chain : chain'[c].at = Abandoned(chain[c].at) BY <1>5, AbandonedParts DEF Die
  <2>2. \A c \in Chain : chain'[c].at \in {"idle", "lost"} BY <1>0, <2>1 DEF Abandoned
  <2> QED BY <1>0, <1>5, <2>2 DEF Die, Dies, Half
<1>6. ASSUME NEW u \in edits, EditStep(u) PROVE Half'
  BY <1>0, <1>6 DEF EditStep, EditStore, EditStored, EditNotStored, EditLost, vars, Half
<1>7. ASSUME NEW value \in leaving, Sets(value) PROVE Half'
  BY <1>0, <1>7 DEF Sets, SetEnable, EnableLost, vars, Half
<1>8. CASE UNCHANGED allVars BY <1>0, <1>8 DEF allVars, vars, entryVars, Half
<1> QED BY EntrySplit, <1>1, <1>2, <1>3, <1>4, <1>5, <1>6, <1>7, <1>8

\* EntryHalfStays: a user whose process died between the two inserts, and whose
\* second insert was never sent, is without a row for his options for good.
THEOREM EntryHalfStays == EntrySpec => HalfStays
<1>1. EntryInit => TypeOK /\ Base BY TypeInit, BaseInit DEF EntryInit
<1>2. TypeOK /\ Base /\ [EntryNext]_allVars => (TypeOK /\ Base)'
  BY EntryImplements, TypeStep, BaseStep
<1>3. TypeOK /\ Base /\ [EntryNext]_allVars => [Half => Half']_allVars
  BY HalfStep
<1> QED BY <1>1, <1>2, <1>3, PTL DEF EntrySpec, HalfStays
-----------------------------------------------------------------------------
\* EnabledIsAnswered is inductive with where a text may come from: an update
\* that was executed, or what the server has read.
Grounded(q) == blind \/ stored[q] # 0
Answered ==
  /\ \A q \in OnPage : text[q] # Unset => Grounded(q)
  /\ \A q \in OnPage : load.saw[q] # 0 => stored[q] # 0
  /\ \A u \in edits : u.done => Grounded(u.q)
  /\ EnabledIsAnswered

\* What is stored stays, and so does what a text is grounded on.
LEMMA StoredStays ==
  ASSUME TypeOK, Base, [EntryNext]_allVars
  PROVE  \A q \in Question : (stored[q] # 0 => stored'[q] # 0) /\ (blind => blind')
<1>0. 0 \notin Question BY PageQuestions
<1>1. \A q \in Question : stored[q] # 0 => stored'[q] # 0
  <2>1. [Next]_vars BY EntryImplements
  <2>2. ASSUME NEW c \in Chain, ChainStep(c) PROVE UNCHANGED stored
    BY <2>2 DEF ChainStep, Save, UserInserted, OptionInserted, Select, Answer, Back, Dismissed,
                Enabled, Executes
  <2>3. ASSUME NEW u \in updates, UpdateStep(u) PROVE \A q \in Question : stored[q] # 0 => stored'[q] # 0
    BY <1>0, <2>3, UpdateParts DEF UpdateStep, Store, Stored, NotStored, Lost, TypeOK
  <2>4. CASE Dies BY <2>4 DEF Dies
  <2>5. CASE Elsewhere BY <1>0, <2>5 DEF Elsewhere, TypeOK
  <2>6. CASE UNCHANGED vars BY <2>6 DEF vars
  <2> QED BY <2>1, Split, <2>2, <2>3, <2>4, <2>5, <2>6
<1>2. blind => blind'
  <2>1. CASE FormStep BY <2>1, FormLeavesPage
  <2>2. CASE Moves \/ Loads \/ Asks \/ Leaves \/ Die
    BY <2>2 DEF Moves, CheckRead, CheckReply, CheckFails, LeaveForm, LoginReply, LeaveMain,
                Loads, OpenEdit, OptionsRead, OptionsReply, OptionsFail, Asks, Ask, Choose, SendEdit,
                BackDialog, Leaves, BackEdit, Cancel, Leave, Die, entryVars
  <2>3. ASSUME NEW u \in edits, EditStep(u) PROVE blind => blind'
    BY <2>3 DEF EditStep, EditStore, EditStored, EditNotStored, EditLost
  <2>4. ASSUME NEW value \in leaving, Sets(value) PROVE blind => blind'
    BY <2>4 DEF Sets, SetEnable, EnableLost
  <2> QED BY EntrySplit, <2>1, <2>2, <2>3, <2>4 DEF allVars, entryVars
<1> QED BY <1>1, <1>2

\* A step that brings no new text, no new answer and no new value for
\* user_enable keeps Answered.
LEMMA AnsweredKept ==
  ASSUME TypeOK, Base, Answered, [EntryNext]_allVars,
         \A q \in OnPage : text'[q] \in {text[q], Unset},
         \A q \in OnPage : load'.saw[q] \in {load.saw[q], 0, stored[q]},
         \A u \in edits' : u.done => u \in edits,
         1 \in leaving' => 1 \in leaving \/ \A q \in OnPage : text[q] # Unset
  PROVE  Answered'
<1>1. \A q \in OnPage : (stored[q] # 0 => stored'[q] # 0) /\ (blind => blind')
  BY StoredStays, PageQuestions
<1>2. \A q \in OnPage : Grounded(q) => Grounded(q)'
  BY <1>1 DEF Grounded
<1>3. (\A q \in OnPage : text'[q] # Unset => Grounded(q)')
  BY <1>2 DEF Answered
<1>4. (\A q \in OnPage : load'.saw[q] # 0 => stored'[q] # 0) BY <1>1 DEF Answered
<1>5. \A u \in edits' : u.done => Grounded(u.q)' BY <1>2, EditParts DEF Answered
<1>6. EnabledIsAnswered'
  BY <1>1, StoredStays DEF Answered, EnabledIsAnswered, Grounded
<1> QED BY <1>3, <1>4, <1>5, <1>6 DEF Answered, Grounded, Unset

LEMMA AnsweredStep == TypeOK /\ Base /\ Answered /\ [EntryNext]_allVars => Answered'
<1> SUFFICES ASSUME TypeOK, Base, Answered, [EntryNext]_allVars PROVE Answered'
  OBVIOUS
<1>1. CASE Moves \/ FormStep \/ Asks \/ UNCHANGED allVars
  <2>1. CASE Asks
    <3>1. UNCHANGED <<text, load, leaving>>
      BY <2>1 DEF Asks, Ask, Choose, SendEdit, BackDialog, entryVars, page
    <3>2. \A u \in edits' : u.done => u \in edits
      BY <2>1 DEF Asks, Ask, Choose, SendEdit, BackDialog, entryVars
    <3> QED BY <3>1, <3>2, AnsweredKept
  <2>2. CASE Moves \/ FormStep \/ UNCHANGED allVars
    <3>1. UNCHANGED <<text, load, leaving, edits>>
      BY <2>2, FormLeavesPage
         DEF Moves, CheckRead, CheckReply, CheckFails, LeaveForm, LoginReply, LeaveMain,
             allVars, entryVars, page
    <3> QED BY <3>1, AnsweredKept
  <2> QED BY <1>1, <2>1, <2>2
<1>2. CASE Loads
  <2>1. CASE OpenEdit
    <3>1. "asked" \in {"asked", "read", "over", "failed"} /\ NewPage("asked") /\ UNCHANGED <<edits, leaving>>
      BY <2>1 DEF OpenEdit
    <3>2. (\A q \in OnPage : text'[q] = Unset) /\ (\A q \in OnPage : load'.saw[q] = 0)
      BY <3>1, NewPageParts
    <3> QED BY <3>1, <3>2, AnsweredKept
  <2>2. CASE OptionsRead
    <3>1. (\A q \in OnPage : load'.saw[q] = stored[q]) /\ UNCHANGED <<text, edits, leaving>>
      BY <2>2 DEF OptionsRead
    <3> QED BY <3>1, AnsweredKept
  <2>3. CASE OptionsReply
    <3>1. \A q \in OnPage : text'[q] # Unset => Grounded(q)
      BY <2>3 DEF OptionsReply, Answered, Grounded, Base, EntryTypeOK
    <3>2. (\A q \in OnPage : load'.saw[q] = 0) /\ UNCHANGED <<vars, edits, leaving, blind>>
      BY <2>3 DEF OptionsReply, Closed
    <3> QED BY <3>1, <3>2 DEF Answered, Grounded, EnabledIsAnswered, vars
  <2>4. CASE OptionsFail
    <3>1. (\A q \in OnPage : load'.saw[q] = 0) /\ UNCHANGED <<text, edits, leaving>>
      BY <2>4 DEF OptionsFail, Closed
    <3> QED BY <3>1, AnsweredKept
  <2> QED BY <1>2, <2>1, <2>2, <2>3, <2>4 DEF Loads
<1>3. CASE Leaves
  <2>1. ASSUME NEW value \in {0, 1}, Leave(value), value = 1 => \A q \in OnPage : text[q] # Unset
        PROVE  Answered'
    <3>1. "over" \in {"asked", "read", "over", "failed"} /\ NewPage("over")
          /\ leaving' = leaving \cup {value} /\ edits' = Unheard(edits)
      BY <2>1 DEF Leave
    <3>2. (\A q \in OnPage : text'[q] = Unset) /\ (\A q \in OnPage : load'.saw[q] = 0)
      BY <3>1, NewPageParts
    <3>3. \A u \in edits' : ~u.done BY <3>1, UnheardEdits
    <3> QED BY <2>1, <3>1, <3>2, <3>3, AnsweredKept
  <2>2. CASE Cancel BY <2>1, <2>2 DEF Cancel
  <2>3. CASE BackEdit /\ Leave(1) /\ \A q \in OnPage : text[q] # Unset BY <2>1, <2>3
  <2>4. CASE BackEdit /\ ~(Leave(1) /\ \A q \in OnPage : text[q] # Unset)
    <3>1. UNCHANGED <<text, load, edits, leaving>> BY <2>4 DEF BackEdit
    <3> QED BY <3>1, AnsweredKept
  <2> QED BY <1>3, <2>2, <2>3, <2>4 DEF Leaves
<1>4. CASE Die
  <2>1. "over" \in {"asked", "read", "over", "failed"} /\ NewPage("over")
        /\ UNCHANGED leaving /\ edits' = Unheard(edits)
    BY <1>4 DEF Die
  <2>2. (\A q \in OnPage : text'[q] = Unset) /\ (\A q \in OnPage : load'.saw[q] = 0)
    BY <2>1, NewPageParts
  <2>3. \A u \in edits' : ~u.done BY <2>1, UnheardEdits
  <2> QED BY <2>1, <2>2, <2>3, AnsweredKept
<1>5. ASSUME NEW u \in edits, EditStep(u) PROVE Answered'
  <2>0. u.q \in OnPage /\ u.q \in Question /\ u.data # 0 /\ u.live \in BOOLEAN
    BY EditParts, PageQuestions
  <2>1. CASE EditStore(u)
    <3> DEFINE new == [u EXCEPT !.done = TRUE]
    <3>1. new.q = u.q BY EditEditedParts
    <3>2. edits' \subseteq edits \cup {new} /\ UNCHANGED <<text, load, leaving>>
      BY <2>1 DEF EditStore
    <3>3. blind' \/ stored'[u.q] # 0 BY <2>0, <2>1 DEF EditStore, TypeOK
    <3>4. \A q \in OnPage : (stored[q] # 0 => stored'[q] # 0) /\ (blind => blind')
      BY StoredStays, PageQuestions
    <3> HIDE DEF new
    <3>5. \A v \in edits' : v.done => Grounded(v.q)'
      BY <3>1, <3>2, <3>3, <3>4, EditParts DEF Answered, Grounded
    <3> QED BY <2>0, <3>2, <3>4, <3>5 DEF Answered, Grounded, EnabledIsAnswered
  <2>2. CASE EditStored(u)
    <3>1. \A q \in OnPage : text'[q] # Unset => Grounded(q)
      BY <2>0, <2>2 DEF EditStored, Answered, Base, EntryTypeOK
    <3>2. edits' \subseteq edits /\ UNCHANGED <<stored, load, leaving, blind>> BY <2>2 DEF EditStored, vars
    <3> QED BY <3>1, <3>2 DEF Answered, Grounded, EnabledIsAnswered
  <2>3. CASE EditNotStored(u)
    <3>1. \A v \in edits' : v.done => v \in edits
      <4> DEFINE new == [u EXCEPT !.live = FALSE]
      <4>1. new.done = u.done BY EditEditedParts
      <4>2. edits' = (edits \ {u}) \cup IF u.done THEN {} ELSE {new} BY <2>3 DEF EditNotStored
      <4> HIDE DEF new
      <4> QED BY <4>1, <4>2
    <3>2. UNCHANGED <<text, load, leaving>> BY <2>3 DEF EditNotStored
    <3> QED BY <3>1, <3>2, AnsweredKept
  <2>4. CASE EditLost(u)
    <3>1. edits' \subseteq edits /\ UNCHANGED <<text, load, leaving>> BY <2>4 DEF EditLost, page
    <3> QED BY <3>1, AnsweredKept
  <2> QED BY <1>5, <2>1, <2>2, <2>3, <2>4 DEF EditStep
<1>6. ASSUME NEW value \in leaving, Sets(value) PROVE Answered'
  <2>1. UNCHANGED <<text, load, edits>> /\ leaving' \subseteq leaving
    BY <1>6 DEF Sets, SetEnable, EnableLost, page
  <2> QED BY <2>1, AnsweredKept
<1> QED BY EntrySplit, <1>1, <1>2, <1>3, <1>4, <1>5, <1>6

\* EntryEnabledIsAnswered: whatever the page was told late, twice or not at
\* all, it lets in nobody whose answers to its own questions are not all in the
\* database (the question only the form asks may be missing), unless an
\* update found no row to be stored in.
THEOREM EntryEnabledIsAnswered == EntrySpec => []EnabledIsAnswered
<1>1. EntryInit => TypeOK /\ Base /\ Answered
  <2>1. ASSUME EntryInit PROVE Answered
    BY <2>1 DEF EntryInit, Closed, Answered, EnabledIsAnswered
  <2> QED BY <2>1, TypeInit, BaseInit DEF EntryInit
<1>2. TypeOK /\ Base /\ Answered /\ [EntryNext]_allVars => (TypeOK /\ Base /\ Answered)'
  BY EntryImplements, TypeStep, BaseStep, AnsweredStep
<1>3. Answered => EnabledIsAnswered BY DEF Answered
<1> QED BY <1>1, <1>2, <1>3, PTL DEF EntrySpec
-----------------------------------------------------------------------------
\* PageKnows is inductive with where an answer may still be: with the server,
\* on its way, or in an update whose answer is awaited.
Awaited(q) ==
  \/ load.at \in {"asked", "failed"}
  \/ load.at = "read" /\ load.saw[q] # 0
  \/ \E u \in edits : u.live /\ u.q = q
Heard ==
  at = "edit" /\ ~unheard /\ ~late =>
    \A q \in OnPage : stored[q] # 0 => text[q] # Unset \/ Awaited(q)

LEMMA HeardStep == TypeOK /\ Base /\ Heard /\ [EntryNext]_allVars => Heard'
<1> SUFFICES ASSUME TypeOK, Base, Heard, [EntryNext]_allVars, at' = "edit", ~unheard', ~late'
             PROVE  \A q \in OnPage : stored'[q] # 0 => text'[q] # Unset \/ Awaited(q)'
  BY DEF Heard
<1> DEFINE Goal == \A q \in OnPage : stored'[q] # 0 => text'[q] # Unset \/ Awaited(q)'
<1>a. ASSUME at = "edit", ~unheard, ~late
      PROVE  \A q \in OnPage : stored[q] # 0 => text[q] # Unset \/ Awaited(q)
  BY <1>a DEF Heard
<1>1. CASE Moves
  BY <1>1 DEF Moves, CheckRead, CheckReply, CheckFails, LeaveForm, LoginReply, LeaveMain
<1>2. CASE FormStep
  <2>1. UNCHANGED <<at, text, load, edits, unheard>> BY <1>2, FormLeavesPage
  <2>2. CASE \E u \in updates : Store(u) /\ Misses
    <3>1. ~late /\ load.at = "asked" BY <2>1, <2>2 DEF Misses
    <3> QED BY <2>1, <3>1 DEF Awaited
  <2>3. CASE ~\E u \in updates : Store(u) /\ Misses
    <3>1. UNCHANGED <<stored, late>>
      BY <1>2, <2>3 DEF FormStep, entryVars, page, Save, UserInserted, OptionInserted, Select, Answer,
                        Back, Dismissed, Enabled, Executes, Stored, NotStored, Lost
    <3> QED BY <1>a, <2>1, <3>1 DEF Awaited
  <2> QED BY <2>2, <2>3
<1>3. CASE Loads
  <2>1. CASE OpenEdit
    <3>1. "asked" \in {"asked", "read", "over", "failed"} /\ NewPage("asked")
      BY <2>1 DEF OpenEdit
    <3>2. load'.at = "asked" BY <3>1, NewPageParts
    <3> QED BY <3>1, <3>2 DEF Awaited
  <2>2. CASE OptionsRead
    <3>1. load'.at = "read" /\ \A q \in OnPage : load'.saw[q] = stored[q]
      BY <2>2 DEF OptionsRead
    <3>2. UNCHANGED <<vars, at, text, unheard, late, edits>> BY <2>2 DEF OptionsRead
    <3> QED BY <1>a, <3>1, <3>2 DEF Awaited, vars
  <2>3. CASE OptionsReply
    <3>1. \A q \in OnPage : text'[q] = IF load.saw[q] # 0 THEN load.saw[q] ELSE text[q]
      BY <2>3 DEF OptionsReply
    <3>2. load.at = "read" /\ UNCHANGED <<vars, at, unheard, late, edits>> BY <2>3 DEF OptionsReply
    <3>3. \A q \in OnPage : load.saw[q] # Unset
      BY SignupAssumption DEF Base, EntryTypeOK, Unset
    <3> QED BY <1>a, <3>1, <3>2, <3>3 DEF Awaited, vars
  <2>4. CASE OptionsFail
    <3>1. load'.at = "failed" /\ UNCHANGED <<vars, at, text, unheard, late, edits>>
      BY <2>4 DEF OptionsFail, Closed
    <3> QED BY <1>a, <3>1 DEF Awaited, vars
  <2> QED BY <1>3, <2>1, <2>2, <2>3, <2>4 DEF Loads
<1>4. CASE Asks
  <2>1. UNCHANGED <<stored, at, text, load, unheard, late>>
    BY <1>4 DEF Asks, Ask, Choose, SendEdit, BackDialog, entryVars, page, vars
  <2>2. CASE SendEdit
    <3>1. PICK mark \in EditTap :
            edits' = edits \cup {[id |-> mark, q |-> dialog, data |-> data, done |-> FALSE, live |-> TRUE]}
      BY <2>2 DEF SendEdit
    <3> QED BY <1>a, <2>1, <3>1 DEF Awaited
  <2>3. CASE ~SendEdit
    <3>1. UNCHANGED edits BY <1>4, <2>3 DEF Asks, Ask, Choose, BackDialog, entryVars
    <3> QED BY <1>a, <2>1, <3>1 DEF Awaited
  <2> QED BY <2>2, <2>3
<1>5. CASE Leaves
  <2>1. UNCHANGED <<stored, at, text, load, unheard, late, edits>>
    BY <1>5 DEF Leaves, BackEdit, Cancel, Leave, vars
  <2> QED BY <1>a, <2>1 DEF Awaited
<1>6. CASE Die BY <1>6 DEF Die
<1>7. ASSUME NEW u \in edits, EditStep(u) PROVE Goal
  <2>0. u.q \in OnPage /\ u.q \in Question /\ (u.done => u.live) /\ u.live \in BOOLEAN BY EditParts
  <2>1. CASE EditStore(u)
    <3> DEFINE new == [u EXCEPT !.done = TRUE]
    <3>1. new.q = u.q BY EditEditedParts
    <3>2. new.live = u.live BY EditEditedParts
    <3>3. UNCHANGED <<at, unheard, text, load>> BY <2>1 DEF EditStore
    <3>4. CASE ~u.live
      <4>1. load.at = "asked" BY <2>1, <3>3, <3>4 DEF EditStore, Misses
      <4> QED BY <3>3, <4>1 DEF Awaited
    <3>5. CASE u.live
      <4>1. edits' = (edits \ {u}) \cup {new} /\ UNCHANGED late
        BY <2>1, <3>5 DEF EditStore
      <4>2. \A q \in OnPage : q # u.q => stored'[q] = stored[q]
        BY <2>1, PageQuestions DEF EditStore, TypeOK
      <4> HIDE DEF new
      <4>3. \A q \in OnPage : Awaited(q) => Awaited(q)' BY <3>1, <3>2, <3>3, <4>1 DEF Awaited
      <4>4. Awaited(u.q)' BY <3>1, <3>2, <3>5, <4>1 DEF Awaited
      <4> QED BY <1>a, <3>3, <4>1, <4>2, <4>3, <4>4
    <3> QED BY <3>4, <3>5
  <2>2. CASE EditStored(u)
    <3>1. edits' = edits \ {u} /\ UNCHANGED <<stored, at, load, unheard, late>>
      BY <2>2 DEF EditStored, vars
    <3>2. data # Unset BY SignupAssumption DEF TypeOK, Unset
    <3>3. text'[u.q] # Unset /\ \A q \in OnPage : q # u.q => text'[q] = text[q]
      BY <2>0, <2>2, <3>2 DEF EditStored, Base, EntryTypeOK
    <3>4. \A q \in OnPage : q # u.q /\ Awaited(q) => Awaited(q)' BY <3>1 DEF Awaited
    <3> QED BY <1>a, <3>1, <3>3, <3>4
  <2>3. CASE EditNotStored(u) BY <2>3 DEF EditNotStored
  <2>4. CASE EditLost(u)
    <3>1. ~u.live /\ edits' = edits \ {u} /\ UNCHANGED <<vars, at, page>> BY <2>4 DEF EditLost
    <3> QED BY <1>a, <3>1 DEF Awaited, page, vars
  <2> QED BY <1>7, <2>1, <2>2, <2>3, <2>4 DEF EditStep
<1>8. ASSUME NEW value \in leaving, Sets(value) PROVE Goal
  <2>1. UNCHANGED <<stored, at, text, load, unheard, late, edits>>
    BY <1>8 DEF Sets, SetEnable, EnableLost, vars, page
  <2> QED BY <1>a, <2>1 DEF Awaited
<1>9. CASE UNCHANGED allVars
  <2>1. UNCHANGED <<stored, at, text, load, unheard, late, edits>> BY <1>9 DEF allVars, vars, entryVars, page
  <2> QED BY <1>a, <2>1 DEF Awaited
<1> QED BY EntrySplit, <1>1, <1>2, <1>3, <1>4, <1>5, <1>6, <1>7, <1>8, <1>9

\* EntryPageKnows: once the stored options have arrived, the page shows every
\* answer that is stored, in whatever order reads, updates and answers came;
\* unless the answer to an update was an error, or an update that is not the
\* page's own, of the form or of an earlier visit, was executed after the read.
THEOREM EntryPageKnows == EntrySpec => []PageKnows
<1>1. EntryInit => TypeOK /\ Base /\ Heard
  BY TypeInit, BaseInit DEF EntryInit, Heard
<1>2. TypeOK /\ Base /\ Heard /\ [EntryNext]_allVars => (TypeOK /\ Base /\ Heard)'
  BY EntryImplements, TypeStep, BaseStep, HeardStep
<1>3. Heard => PageKnows BY DEF Heard, Awaited, PageKnows
<1> QED BY <1>1, <1>2, <1>3, PTL DEF EntrySpec
-----------------------------------------------------------------------------
\* TextBelongs is inductive with what an answer will find: the dialog of its
\* own question, and what was chosen in it.
OneAsks ==
  /\ \A q \in OnPage : text[q] \in {Unset} \cup Choices(q)
  /\ \A u, v \in edits : u.live /\ v.live => u = v
  /\ \A u \in edits : u.live => dialog = u.q /\ data \in Choices(u.q)
Belongs ==
  ~Tapped => /\ \A q \in OnPage : load.saw[q] \in {0, q}
             /\ ~hurried => OneAsks

LEMMA BelongsStep == TypeOK /\ OwnOptions /\ Base /\ Belongs /\ [EntryNext]_allVars => Belongs'
<1> SUFFICES ASSUME TypeOK, OwnOptions, Base, Belongs, [EntryNext]_allVars, ~Tapped'
             PROVE  /\ \A q \in OnPage : load'.saw[q] \in {0, q}
                    /\ ~hurried' => OneAsks'
  BY DEF Belongs
<1> DEFINE Goal == /\ \A q \in OnPage : load'.saw[q] \in {0, q}
                   /\ ~hurried' => OneAsks'
<1>0. ~Tapped BY EntryImplements, TappedStays
<1>a. /\ \A q \in OnPage : stored[q] \in {0, q} /\ load.saw[q] \in {0, q}
      /\ ~hurried => OneAsks
  BY <1>0, PageQuestions DEF OwnOptions, Belongs
<1>b. \A q : q \in Choices(q) BY DEF Choices
<1>c. ASSUME NEW a \in {"asked", "read", "over", "failed"}, NewPage(a), \A u \in edits' : ~u.live PROVE Goal
  BY <1>c, NewPageParts DEF OneAsks
<1>1. CASE Moves
  BY <1>a, <1>1 DEF Moves, CheckRead, CheckReply, CheckFails, LeaveForm, LoginReply, LeaveMain, OneAsks,
                    vars, page
<1>2. CASE FormStep
  <2>1. UNCHANGED <<text, load, dialog, hurried, edits>> BY <1>2, FormLeavesPage
  <2>2. CASE at = "edit"
    <3>1. UNCHANGED data BY <1>0, <1>2, <2>2, FormIsStill
    <3> QED BY <1>a, <2>1, <3>1 DEF OneAsks
  <2>3. CASE at # "edit"
    <3>1. \A u \in edits : ~u.live BY <2>3 DEF Base, EntryTypeOK
    <3> QED BY <1>a, <2>1, <3>1 DEF OneAsks
  <2> QED BY <2>2, <2>3
<1>3. CASE Loads
  <2>1. CASE OpenEdit
    <3>1. "asked" \in {"asked", "read", "over", "failed"} /\ NewPage("asked")
      BY <2>1 DEF OpenEdit
    <3>2. \A u \in edits' : ~u.live BY <2>1 DEF OpenEdit, Base, EntryTypeOK
    <3> QED BY <1>c, <3>1, <3>2
  <2>2. CASE OptionsRead
    <3>1. \A q \in OnPage : load'.saw[q] = stored[q] BY <2>2 DEF OptionsRead
    <3> QED BY <1>a, <2>2, <3>1 DEF OptionsRead, OneAsks, vars
  <2>3. CASE OptionsReply
    <3>1. \A q \in OnPage : ~hurried => text'[q] \in {Unset} \cup Choices(q)
      BY <1>a, <1>b, <2>3 DEF OptionsReply, OneAsks
    <3>2. \A q \in OnPage : load'.saw[q] = 0 BY <2>3 DEF OptionsReply, Closed
    <3> QED BY <1>a, <2>3, <3>1, <3>2 DEF OptionsReply, OneAsks, vars
  <2>4. CASE OptionsFail
    <3>1. \A q \in OnPage : load'.saw[q] = 0 BY <2>4 DEF OptionsFail, Closed
    <3> QED BY <1>a, <2>4, <3>1 DEF OptionsFail, OneAsks, vars
  <2> QED BY <1>3, <2>1, <2>2, <2>3, <2>4 DEF Loads
<1>4. CASE Asks
  <2>1. ASSUME NEW q \in OnPage, Ask(q) PROVE Goal
    <3>1. ~hurried => \A u \in edits : ~u.live
      BY <1>a, <2>1, EditParts, PageQuestions DEF Ask, OneAsks
    <3> QED BY <1>a, <2>1, <3>1 DEF Ask, OneAsks
  <2>2. CASE Choose BY <1>a, <2>2 DEF Choose, OneAsks, entryVars, page
  <2>3. CASE SendEdit
    <3>1. PICK mark \in EditTap :
            edits' = edits \cup {[id |-> mark, q |-> dialog, data |-> data, done |-> FALSE, live |-> TRUE]}
      BY <2>3 DEF SendEdit
    <3>2. data = dialog BY <1>0, <2>3 DEF SendEdit, Base, Alone
    <3> DEFINE new == [id |-> mark, q |-> dialog, data |-> data, done |-> FALSE, live |-> TRUE]
    <3>3. edits' = edits \cup {new} /\ new.q = dialog BY <3>1
    <3> HIDE DEF new
    <3>4. ~hurried' => ~hurried /\ \A u \in edits : ~u.live BY <2>3 DEF SendEdit
    <3>5. UNCHANGED <<text, load, dialog, data>> BY <2>3 DEF SendEdit, vars
    <3> QED BY <1>a, <1>b, <3>2, <3>3, <3>4, <3>5 DEF OneAsks
  <2>4. CASE BackDialog
    <3>1. ~hurried' => ~hurried /\ \A u \in edits : ~u.live
      BY <1>a, <2>4, EditParts, PageQuestions DEF BackDialog, OneAsks
    <3> QED BY <1>a, <2>4, <3>1 DEF BackDialog, OneAsks, vars
  <2> QED BY <1>4, <2>1, <2>2, <2>3, <2>4 DEF Asks
<1>5. CASE Leaves
  <2>1. ASSUME NEW value, Leave(value) PROVE Goal
    <3>1. "over" \in {"asked", "read", "over", "failed"} /\ NewPage("over") /\ edits' = Unheard(edits)
      BY <2>1 DEF Leave
    <3>2. \A u \in edits' : ~u.live BY <3>1, UnheardEdits
    <3> QED BY <1>c, <3>1, <3>2
  <2>2. CASE BackEdit /\ ~Leave(1)
    <3>1. ~hurried => \A u \in edits : ~u.live
      BY <1>a, <2>2, EditParts, PageQuestions DEF BackEdit, OneAsks
    <3> QED BY <1>a, <2>2, <3>1 DEF BackEdit, OneAsks, vars
  <2> QED BY <1>5, <2>1, <2>2 DEF Leaves, Cancel
<1>6. CASE Die
  <2>1. "over" \in {"asked", "read", "over", "failed"} /\ NewPage("over") /\ edits' = Unheard(edits)
    BY <1>6 DEF Die
  <2>2. \A u \in edits' : ~u.live BY <2>1, UnheardEdits
  <2> QED BY <1>c, <2>1, <2>2
<1>7. ASSUME NEW u \in edits, EditStep(u) PROVE Goal
  <2>0. u.q \in OnPage /\ u.live \in BOOLEAN /\ (u.done => u.live) BY EditParts
  <2>1. CASE EditStore(u)
    <3> DEFINE new == [u EXCEPT !.done = TRUE]
    <3>1. new.q = u.q BY EditEditedParts
    <3>2. new.live = u.live BY EditEditedParts
    <3>3. edits' \subseteq (edits \ {u}) \cup {new} /\ UNCHANGED <<text, load, dialog, hurried, data>>
      BY <2>1 DEF EditStore
    <3> HIDE DEF new
    <3> QED BY <1>a, <3>1, <3>2, <3>3 DEF OneAsks
  <2>2. CASE EditStored(u)
    <3>1. u.live /\ edits' = edits \ {u} /\ UNCHANGED <<load, hurried, data>>
      BY <2>0, <2>2 DEF EditStored, vars
    <3>2. ~hurried => /\ \A v \in edits' : ~v.live
                      /\ \A q \in OnPage : text'[q] \in {Unset} \cup Choices(q)
      BY <1>a, <2>0, <2>2, <3>1, EditParts DEF EditStored, OneAsks, Base, EntryTypeOK
    <3> QED BY <1>a, <3>1, <3>2 DEF OneAsks
  <2>3. CASE EditNotStored(u)
    <3> DEFINE new == [u EXCEPT !.live = FALSE]
    <3>1. ~new.live BY EditEditedParts
    <3>2. edits' \subseteq (edits \ {u}) \cup {new} /\ UNCHANGED <<text, load, dialog, hurried, data>>
      BY <2>3 DEF EditNotStored, vars
    <3> HIDE DEF new
    <3> QED BY <1>a, <3>1, <3>2 DEF OneAsks
  <2>4. CASE EditLost(u)
    BY <1>a, <2>4 DEF EditLost, OneAsks, vars, page
  <2> QED BY <1>7, <2>1, <2>2, <2>3, <2>4 DEF EditStep
<1>8. ASSUME NEW value \in leaving, Sets(value) PROVE Goal
  BY <1>a, <1>8 DEF Sets, SetEnable, EnableLost, vars, page, OneAsks
<1>9. CASE UNCHANGED allVars
  BY <1>a, <1>9 DEF allVars, vars, entryVars, page, OneAsks
<1> QED BY EntrySplit, <1>1, <1>2, <1>3, <1>4, <1>5, <1>6, <1>7, <1>8, <1>9

\* EntryTextBelongs: unless the user was hasty, on the page or in the form, the
\* page shows at every question an option of that question, its layout's text,
\* or, where several options may be chosen, the text of none.
THEOREM EntryTextBelongs == EntrySpec => []TextBelongs
<1>1. EntryInit => TypeOK /\ OwnOptions /\ Base /\ Belongs
  BY TypeInit, BaseInit DEF EntryInit, Init, OwnOptions, Closed, Belongs, OneAsks
<1>2. TypeOK /\ OwnOptions /\ Base /\ Belongs /\ [EntryNext]_allVars
        => (TypeOK /\ OwnOptions /\ Base /\ Belongs)'
  BY EntryImplements, TypeStep, OptionsStep, BaseStep, BelongsStep
<1>3. Belongs => TextBelongs BY DEF Belongs, OneAsks, TextBelongs
<1> QED BY <1>1, <1>2, <1>3, PTL DEF EntrySpec
=============================================================================
