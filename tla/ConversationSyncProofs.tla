------------------------ MODULE ConversationSyncProofs ------------------------
(***************************************************************************)
(* Proofs about ConversationSync for every bound on chats, ids, versions   *)
(* and calls in flight: types, the timer, the mixing of conversations, and *)
(* what the account holds at rest.                                         *)
(***************************************************************************)
EXTENDS ConversationSync, FiniteSetTheorems, SequenceTheorems, TLAPS

\* The deletions in flight that will begin a chat.
Beginning == {c \in calls : "new" \in c.then}

\* A call as the page or the server can have left it: it names a conversation
\* that was created, and waits for what its kind of call is followed by.
GoodCall(c) ==
    /\ c \in Call
    /\ c.kind # "create" \/ c.answered => c.id \in Ids
    /\ c.answered => c.then # {}
    /\ c.kind = "delete" => c.then \subseteq {"new"}
    /\ "new" \in c.then => c.kind = "delete"
    /\ c.kind = "update" => c.then = {}
CallInv == IsFiniteSet(calls) /\ \A c \in calls : GoodCall(c)

\* Every deletion in flight can still begin its chat.
BeginInv == chats + Cardinality(Beginning) <= MaxChats

\* Until the page is raced, a call carries the messages of the conversation
\* that its id was created for.
OwnerInv ==
    \/ raced
    \/ /\ activeId # NoId => owner[activeId] = open.chat
       /\ \A id \in Ids : cloud[id] # Absent => cloud[id].chat = owner[id]
       /\ \A c \in calls :
             c.kind # "create" \/ c.answered => owner[c.id] = c.doc.chat

\* The page has nothing scheduled for the conversation that is open.
Resting == ~generating /\ ~timer.armed /\ activeId # NoId

\* While calls neither overlap nor fail there is one at a time; what was read
\* is what the account holds, and the account holds the open list or the one
\* call in flight brings it there.
RestBody ==
    /\ \A c, d \in calls : c = d
    /\ \A c \in calls :
          /\ c.kind = "put" \/ (c.kind = "get" /\ c.answered) => cloud[c.id] = c.doc
          /\ c.kind = "delete" /\ c.then = {} => c.id # activeId
          /\ c.kind = "update" /\ Resting => c.id = activeId /\ c.doc = open
    /\ Resting =>
          \/ cloud[activeId] = open
          \/ \E c \in calls : c.kind = "update"
          \/ \E c \in calls : c.kind = "delete" /\ c.answered
RestInv == ~raced /\ ~troubled => RestBody

\* The types, by part of the system.
PageOK ==
    /\ open \in Doc
    /\ activeId \in {NoId} \cup Ids
    /\ generating \in BOOLEAN
    /\ saved \in [doc : Doc, id : {NoId} \cup Ids]
    /\ \/ timer = NoTimer
       \/ timer \in [armed : {TRUE}, doc : Doc, id : {NoId} \cup Ids]
ServerOK ==
    /\ owner \in Seq(1 .. MaxChats) /\ Len(owner) <= MaxIds
    /\ cloud \in [Ids -> Doc \cup {Absent}]
HistoryOK ==
    /\ chats \in 1 .. MaxChats
    /\ {unsent, raced, troubled} \subseteq BOOLEAN
TypeInv == PageOK /\ ServerOK /\ HistoryOK /\ CallInv /\ BeginInv

-----------------------------------------------------------------------------
(* Types *)

LEMMA TypeOfInv == TypeInv => TypeOK
BY DEF TypeInv, PageOK, ServerOK, HistoryOK, CallInv, GoodCall, TypeOK

LEMMA IdsRange == ASSUME ServerOK PROVE Ids = 1 .. Len(owner) /\ Len(owner) \in Nat
BY LenProperties DEF ServerOK, Ids

LEMMA InitType == Init => TypeInv
<1> SUFFICES ASSUME Init PROVE TypeInv
  OBVIOUS
<1>1. MaxChats \in Nat \ {0} /\ MaxIds \in Nat /\ MaxVersion \in Nat
  BY BoundsAssumption
<1>2. EmptyDoc(1) \in Doc
  BY <1>1 DEF EmptyDoc, Doc
<1>3. PageOK
  BY <1>2 DEF Init, PageOK
<1>4. owner = <<>> /\ owner \in Seq(1 .. MaxChats) /\ Len(owner) = 0
  BY EmptySeq DEF Init
<1>5. ServerOK
  BY <1>1, <1>4, LenProperties DEF Init, ServerOK, Ids
<1>6. HistoryOK
  <2>1. chats \in 1 .. MaxChats
    BY <1>1 DEF Init
  <2>2. {unsent, raced, troubled} \subseteq BOOLEAN
    BY DEF Init
  <2>3. QED
    BY <2>1, <2>2 DEF HistoryOK
<1>7. Beginning = {} /\ CallInv
  BY FS_EmptySet DEF Init, Beginning, CallInv
<1>8. BeginInv
  BY <1>1, <1>7, FS_EmptySet DEF Init, BeginInv
<1>9. QED
  BY <1>3, <1>5, <1>6, <1>7, <1>8 DEF TypeInv

\* What the effect leaves is a timer for the list and id it was given.
LEMMA EffectOK ==
    ASSUME NEW skip \in BOOLEAN, NEW doc \in Doc, NEW I, NEW id \in I, NEW gen \in BOOLEAN
    PROVE  \/ PersistEffect(skip, doc, id, gen) = NoTimer
           \/ PersistEffect(skip, doc, id, gen) \in [armed : {TRUE}, doc : Doc, id : I]
BY DEF PersistEffect, Armed

\* A list keeps its type and its conversation when it is sanitized.
LEMMA SanitizedOK ==
    ASSUME NEW doc \in Doc, NEW new \in Sanitized(doc)
    PROVE  new \in Doc /\ new.chat = doc.chat
<1>1. CASE new = doc
  BY <1>1
<1>2. ASSUME NEW n \in {doc.n + 1} \cap 2 .. MaxVersion, new = [doc EXCEPT !.n = n]
      PROVE  new \in Doc /\ new.chat = doc.chat
  <2>1. n \in 0 .. MaxVersion
    BY BoundsAssumption
  <2>2. QED
    BY <1>2, <2>1 DEF Doc
<1>3. QED
  BY <1>1, <1>2 DEF Sanitized

LEMMA SaveOK ==
    ASSUME PageOK, NEW doc \in Doc, NEW I, NEW id \in I, saved.id \in I,
           SaveMessages(doc, id)
    PROVE  saved' \in [doc : Doc, id : I]
<1>1. saved.doc \in Doc
  BY DEF PageOK
<1>2. {doc} \cup (IF doc.n = 0 THEN {} ELSE {saved.doc}) \subseteq Doc
  BY <1>1
<1>3. {id} \cup (IF id = NoId THEN {} ELSE {saved.id}) \subseteq I
  OBVIOUS
<1>4. QED
  BY <1>2, <1>3 DEF SaveMessages

LEMMA ChangeOK ==
    ASSUME TypeInv, NEW doc \in Doc, NEW gen \in BOOLEAN, ChangeTo(doc, gen)
    PROVE  TypeInv'
<1>1. UNCHANGED <<activeId, calls, cloud, owner, chats, raced, troubled>> /\ PageOK
      /\ open' = doc /\ generating' = gen /\ unsent' = TRUE /\ Ids' = Ids
  BY DEF ChangeTo, server, TypeInv, Ids
<1>2. saved' \in [doc : Doc, id : {NoId} \cup Ids]
  BY <1>1, SaveOK DEF ChangeTo, PageOK
<1>3. \/ timer' = NoTimer
      \/ timer' \in [armed : {TRUE}, doc : Doc, id : {NoId} \cup Ids]
  BY <1>1, EffectOK DEF ChangeTo, PageOK
<1>4. PageOK'
  BY <1>1, <1>2, <1>3 DEF PageOK
<1>5. ServerOK' /\ HistoryOK'
  BY <1>1 DEF TypeInv, ServerOK, HistoryOK
<1>6. CallInv' /\ BeginInv'
  BY <1>1 DEF TypeInv, CallInv, GoodCall, BeginInv, Beginning
<1>7. QED
  BY <1>4, <1>5, <1>6 DEF TypeInv

LEMMA ReplaceOK ==
    ASSUME PageOK, ServerOK, NEW doc \in Doc, NEW id \in {NoId} \cup Ids,
           ReplaceBy(doc, id), owner' = owner
    PROVE  PageOK'
<1>1. open' = doc /\ activeId' = id /\ generating' = generating /\ Ids' = Ids
  BY DEF ReplaceBy, Ids
<1>2. saved' \in [doc : Doc, id : {NoId} \cup Ids]
  <2>1. saved.id \in {NoId} \cup Ids /\ SaveMessages(doc, id)
    BY DEF ReplaceBy, PageOK
  <2>2. QED
    BY <2>1, SaveOK
<1>3. \/ timer' = NoTimer
      \/ timer' \in [armed : {TRUE}, doc : Doc, id : {NoId} \cup Ids]
  BY EffectOK DEF ReplaceBy, PageOK
<1>4. QED
  BY <1>1, <1>2, <1>3 DEF PageOK

\* A page that does not change keeps its type when conversations are created.
LEMMA PageKept ==
    ASSUME PageOK, UNCHANGED page, Ids \subseteq Ids'
    PROVE  PageOK'
BY DEF PageOK, page

LEMMA CallsKept ==
    ASSUME CallInv, IsFiniteSet(calls'), Ids \subseteq Ids',
           \A d \in calls' : d \in calls \/ GoodCall(d)'
    PROVE  CallInv'
BY DEF CallInv, GoodCall

\* The chats that deletions will begin are finitely many.
LEMMA BeginningFinite ==
    ASSUME CallInv
    PROVE  IsFiniteSet(Beginning) /\ Cardinality(Beginning) \in Nat
<1>1. Beginning \in SUBSET calls
  BY DEF Beginning
<1>2. IsFiniteSet(Beginning)
  BY <1>1, FS_Subset DEF CallInv
<1>3. QED
  BY <1>2, FS_CardinalityType

\* Fewer deletions in flight, and no new chat.
LEMMA BeginKept ==
    ASSUME CallInv, HistoryOK, BeginInv, chats' = chats, Beginning' \subseteq Beginning
    PROVE  BeginInv'
<1>1. Cardinality(Beginning') <= Cardinality(Beginning) /\ IsFiniteSet(Beginning')
  BY BeginningFinite, FS_Subset
<1>2. Cardinality(Beginning') \in Nat
  BY <1>1, FS_CardinalityType
<1>3. QED
  BY <1>1, <1>2, BeginningFinite, BoundsAssumption DEF BeginInv, HistoryOK

\* One deletion takes the place of another.
LEMMA BeginSwapped ==
    ASSUME CallInv, HistoryOK, BeginInv, chats' = chats, NEW c \in Beginning, NEW d,
           Beginning' \subseteq (Beginning \ {c}) \cup {d}
    PROVE  BeginInv'
<1> DEFINE R == Beginning \ {c}
<1>1. IsFiniteSet(R) /\ Cardinality(R) = Cardinality(Beginning) - 1
  BY BeginningFinite, FS_RemoveElement
<1>2. IsFiniteSet(R \cup {d}) /\ Cardinality(R \cup {d}) <= Cardinality(Beginning)
  <2>1. /\ IsFiniteSet(R \cup {d})
        /\ Cardinality(R \cup {d}) = IF d \in R THEN Cardinality(R) ELSE Cardinality(R) + 1
    BY <1>1, FS_AddElement
  <2> HIDE DEF R
  <2>2. Cardinality(Beginning) \in Nat
    BY BeginningFinite
  <2>3. QED
    BY <1>1, <2>1, <2>2
<1>3. IsFiniteSet(Beginning') /\ Cardinality(Beginning') <= Cardinality(R \cup {d})
  BY <1>2, FS_Subset
<1>4. Cardinality(Beginning') \in Nat /\ Cardinality(R \cup {d}) \in Nat
  BY <1>2, <1>3, FS_CardinalityType
<1>5. QED
  BY <1>2, <1>3, <1>4, BeginningFinite, BoundsAssumption DEF BeginInv, HistoryOK

\* What the server's answer does to the calls.
LEMMA AnswerOK ==
    ASSUME CallInv, BeginInv, HistoryOK, chats' = chats, NEW c \in calls, NEW a \in Call,
           a.kind = c.kind, a.then = c.then, a.id \in Ids', Ids \subseteq Ids',
           Answer(c, a)
    PROVE  CallInv' /\ BeginInv'
<1> DEFINE d == [a EXCEPT !.answered = TRUE]
<1>1. /\ d \in Call /\ d.kind = a.kind /\ d.then = a.then /\ d.id = a.id
      /\ d.doc = a.doc /\ d.answered = TRUE
  BY DEF Call
<1>2. calls' = (calls \ {c}) \cup (IF c.then = {} THEN {} ELSE {d})
  BY DEF Answer
<1>3. IsFiniteSet(calls')
  <2>1. IsFiniteSet(calls \ {c})
    BY FS_RemoveElement DEF CallInv
  <2>2. IsFiniteSet((calls \ {c}) \cup {d})
    BY <2>1, FS_AddElement
  <2>3. QED
    BY <1>2, <2>1, <2>2
<1>4. c.then # {} => GoodCall(d)'
  BY <1>1 DEF GoodCall, CallInv
<1>5. CallInv'
  BY <1>2, <1>3, <1>4, CallsKept
<1>6. CASE "new" \in c.then
  <2>1. c \in Beginning /\ Beginning' \subseteq (Beginning \ {c}) \cup {d}
    BY <1>2, <1>6 DEF Beginning
  <2>2. BeginInv'
    BY <2>1, BeginSwapped
  <2>3. QED
    BY <1>5, <2>2
<1>7. CASE "new" \notin c.then
  <2>1. Beginning' \subseteq Beginning
    BY <1>1, <1>2, <1>7 DEF Beginning
  <2>2. QED
    BY <1>5, <2>1, BeginKept
<1>8. QED
  BY <1>6, <1>7

\* A call that is dropped.
LEMMA ForgetOK ==
    ASSUME CallInv, BeginInv, HistoryOK, chats' = chats, Ids \subseteq Ids',
           NEW c \in calls, Forget(c)
    PROVE  CallInv' /\ BeginInv'
<1>1. calls' = calls \ {c} /\ IsFiniteSet(calls')
  BY FS_RemoveElement DEF Forget, CallInv
<1>2. CallInv'
  BY <1>1, CallsKept
<1>3. Beginning' \subseteq Beginning
  BY <1>1 DEF Beginning
<1>4. QED
  BY <1>2, <1>3, BeginKept

\* A call that is sent and begins no chat.
LEMMA SendOK ==
    ASSUME CallInv, BeginInv, HistoryOK, chats' = chats, Ids \subseteq Ids',
           NEW T \in SUBSET calls, NEW c, GoodCall(c)', "new" \notin c.then,
           calls' = T \cup {c}
    PROVE  CallInv' /\ BeginInv'
<1>1. IsFiniteSet(T)
  BY FS_Subset DEF CallInv
<1>2. IsFiniteSet(calls')
  BY <1>1, FS_AddElement
<1>3. CallInv'
  BY <1>2, CallsKept
<1>4. Beginning' \subseteq Beginning
  BY DEF Beginning
<1>5. QED
  BY <1>3, <1>4, BeginKept

-----------------------------------------------------------------------------
(* Types, action by action *)

LEMMA SendType == ASSUME TypeInv, Send PROVE TypeInv'
<1>1. [open EXCEPT !.n = @ + 1] \in Doc
  <2>1. open.n + 1 \in 0 .. MaxVersion
    BY BoundsAssumption DEF Send, TypeInv, PageOK, Doc
  <2>2. QED
    BY <2>1 DEF TypeInv, PageOK, Doc
<1>2. QED
  BY <1>1, ChangeOK DEF Send

LEMMA EditType == ASSUME TypeInv, NEW n \in 0 .. MaxVersion, Edit(n) PROVE TypeInv'
<1>1. [open EXCEPT !.n = n] \in Doc /\ generating \in BOOLEAN
  BY DEF TypeInv, PageOK, Doc
<1>2. QED
  BY <1>1, ChangeOK DEF Edit

\* The effect runs again, for the list, the id and the mode they have now.
LEMMA EffectType ==
    ASSUME TypeInv, NEW gen \in BOOLEAN, generating' = gen,
           timer' = PersistEffect(FALSE, open, activeId, gen),
           UNCHANGED <<open, activeId, saved, cloud, owner>>
    PROVE  PageOK' /\ ServerOK' /\ Ids' = Ids
<1>1. Ids' = Ids
  BY DEF Ids
<1>2. \/ timer' = NoTimer
      \/ timer' \in [armed : {TRUE}, doc : Doc, id : {NoId} \cup Ids]
  BY EffectOK DEF TypeInv, PageOK
<1>3. QED
  BY <1>1, <1>2 DEF TypeInv, PageOK, ServerOK

LEMMA EndType == ASSUME TypeInv, EndGeneration PROVE TypeInv'
<1>1. CASE open.n \in 1 .. MaxVersion - 1 /\ ChangeTo([open EXCEPT !.n = @ + 1], FALSE)
  <2>1. [open EXCEPT !.n = @ + 1] \in Doc
    <3>1. open.n + 1 \in 0 .. MaxVersion
      BY <1>1, BoundsAssumption
    <3>2. QED
      BY <3>1 DEF TypeInv, PageOK, Doc
  <2>2. QED
    BY <1>1, <2>1, ChangeOK
<1>2. CASE /\ generating' = FALSE /\ timer' = PersistEffect(FALSE, open, activeId, FALSE)
           /\ UNCHANGED <<open, activeId, saved, calls, server, history>>
  <2>1. /\ generating' = FALSE /\ timer' = PersistEffect(FALSE, open, activeId, FALSE)
        /\ UNCHANGED <<open, activeId, saved, calls, cloud, owner, chats, unsent,
                       raced, troubled>>
    BY <1>2 DEF server, history
  <2>2. PageOK' /\ ServerOK' /\ Ids' = Ids
    BY <2>1, EffectType
  <2>3. QED
    BY <2>1, <2>2 DEF TypeInv, HistoryOK, CallInv, GoodCall, BeginInv, Beginning
<1>3. QED
  BY <1>1, <1>2 DEF EndGeneration

LEMMA SettingsType == ASSUME TypeInv, ChangeSettings PROVE TypeInv'
<1>1. /\ timer' = PersistEffect(FALSE, open, activeId, generating)
      /\ UNCHANGED <<open, activeId, generating, saved, calls, cloud, owner, chats, unsent,
                     raced, troubled>>
  BY DEF ChangeSettings, server, history
<1>2. PageOK' /\ ServerOK' /\ Ids' = Ids
  BY <1>1, EffectType DEF TypeInv, PageOK
<1>3. QED
  BY <1>1, <1>2 DEF TypeInv, HistoryOK, CallInv, GoodCall, BeginInv, Beginning

\* A new chat.
LEMMA NewPageOK ==
    ASSUME PageOK, ServerOK, HistoryOK, chats < MaxChats, NewPage,
           UNCHANGED <<owner, cloud, raced, troubled>>
    PROVE  PageOK' /\ ServerOK' /\ HistoryOK' /\ Ids' = Ids
<1>1. EmptyDoc(chats + 1) \in Doc /\ chats + 1 \in 1 .. MaxChats
  BY BoundsAssumption DEF HistoryOK, EmptyDoc, Doc
<1>2. Ids' = Ids
  BY DEF Ids
<1>3. PageOK'
  BY <1>1, ReplaceOK DEF NewPage
<1>4. HistoryOK'
  BY <1>1 DEF NewPage, ReplaceBy, HistoryOK
<1>5. QED
  BY <1>2, <1>3, <1>4 DEF ServerOK

LEMMA NewType == ASSUME TypeInv, NewConversation PROVE TypeInv'
<1>1. /\ chats + Cardinality(Beginning) < MaxChats /\ chats' = chats + 1
      /\ NewPage /\ UNCHANGED <<calls, cloud, owner, raced, troubled>>
  BY DEF NewConversation, MayBegin, Beginning, NewPage, server
<1>2. Cardinality(Beginning) \in Nat
  BY BeginningFinite DEF TypeInv
<1>3. PageOK' /\ ServerOK' /\ HistoryOK' /\ Ids' = Ids
  BY <1>1, <1>2, NewPageOK, BoundsAssumption DEF TypeInv, HistoryOK
<1>4. CallInv'
  BY <1>1, <1>3 DEF TypeInv, CallInv, GoodCall
<1>5. Beginning' = Beginning
  BY <1>1 DEF Beginning
<1>6. BeginInv'
  BY <1>1, <1>2, <1>5, BoundsAssumption DEF TypeInv, HistoryOK, BeginInv
<1>7. QED
  BY <1>3, <1>4, <1>6 DEF TypeInv

\* A conversation that was created has an id within the bound, and an owner.
LEMMA IdOK ==
    ASSUME ServerOK, NEW id \in Ids
    PROVE  id \in 0 .. MaxIds /\ id # NoId /\ EmptyDoc(owner[id]) \in Doc
           /\ EmptyDoc(owner[id]).chat = owner[id]
<1>1. id \in 1 .. Len(owner) /\ Len(owner) \in Nat /\ MaxIds \in Nat /\ MaxVersion \in Nat
  BY IdsRange, BoundsAssumption
<1>2. owner[id] \in 1 .. MaxChats
  BY <1>1, ElementOfSeq DEF ServerOK
<1>3. QED
  BY <1>1, <1>2 DEF ServerOK, NoId, EmptyDoc, Doc

\* The calls that a select or a rename joins.
Joined(id) == {c \in calls : c.kind = "get" /\ c.id = id /\ c.then # {}}
Joining(id, then) == [c \in Joined(id) |-> [c EXCEPT !.then = @ \cup {then}]]

LEMMA JoinOK ==
    ASSUME CallInv, NEW id, NEW then \in {"select", "rename"}, NEW c \in Joined(id)
    PROVE  LET d == [c EXCEPT !.then = @ \cup {then}]
           IN  /\ d \in Call /\ d.kind = "get" /\ d.id = c.id /\ d.doc = c.doc
               /\ d.answered = c.answered /\ d.then = c.then \cup {then}
BY DEF CallInv, GoodCall, Joined, Call

LEMMA GetOK ==
    ASSUME TypeInv, NEW id \in Ids, NEW then \in {"select", "rename"},
           GetConversation(id, then), UNCHANGED <<cloud, owner, chats>>
    PROVE  CallInv' /\ BeginInv' /\ troubled' \in BOOLEAN
<1>0. Ids' = Ids /\ CallInv /\ BeginInv /\ HistoryOK /\ ServerOK
  BY DEF Ids, TypeInv
<1>1. CASE Joined(id) = {}
  <2>0. PICK c : c = NewCall("get", id, EmptyDoc(owner[id]), {then})
    OBVIOUS
  <2>1. calls' = calls \cup {c} /\ troubled' = (troubled \/ calls # {})
    BY <1>1, <2>0 DEF GetConversation, Joined, Issue
  <2>2. c \in Call /\ c.kind = "get" /\ c.id = id /\ c.then = {then} /\ c.answered = FALSE
    <3>1. {then} \in SUBSET {"adopt", "select", "rename", "title", "new"}
      OBVIOUS
    <3>2. QED
      BY <1>0, <2>0, <3>1, IdOK DEF NewCall, Call
  <2>3. GoodCall(c)'
    BY <1>0, <2>2 DEF GoodCall
  <2>4. QED
    BY <1>0, <2>1, <2>2, <2>3, SendOK
<1>2. CASE Joined(id) # {}
  <2> DEFINE J == Joined(id)
             f == Joining(id, then)
             T == {[c EXCEPT !.then = @ \cup {then}] : c \in J}
  <2>1. calls' = (calls \ J) \cup T /\ troubled' = TRUE
    BY <1>2 DEF GetConversation, Joined
  <2>2. J \in SUBSET calls /\ IsFiniteSet(J) /\ IsFiniteSet(calls \ J)
    BY <1>0, FS_Subset, FS_Difference DEF Joined, CallInv
  <2>3. f \in Surjection(J, T)
    BY DEF Joining, Surjection
  <2>4. IsFiniteSet(T)
    BY <2>2, <2>3, FS_Surjection
  <2>5. IsFiniteSet(calls')
    BY <2>1, <2>2, <2>4, FS_Union
  <2>6. \A d \in T : d \in Call /\ d.kind = "get" /\ d.id = id /\ then \in d.then
                     /\ "new" \notin d.then
    <3> SUFFICES ASSUME NEW c \in J
        PROVE  LET d == [c EXCEPT !.then = @ \cup {then}]
               IN  d \in Call /\ d.kind = "get" /\ d.id = id /\ then \in d.then
                     /\ "new" \notin d.then
      OBVIOUS
    <3>1. c.id = id /\ "new" \notin c.then
      BY <1>0 DEF Joined, CallInv, GoodCall
    <3>2. QED
      BY <1>0, <3>1, JoinOK
  <2> HIDE DEF T, J
  <2>7. \A d \in T : GoodCall(d)'
    BY <1>0, <2>6 DEF GoodCall
  <2>8. CallInv'
    BY <1>0, <2>1, <2>5, <2>7, CallsKept
  <2>9. Beginning' \subseteq Beginning
    BY <2>1, <2>6 DEF Beginning
  <2>10. QED
    BY <1>0, <2>1, <2>8, <2>9, BeginKept
<1>3. QED
  BY <1>1, <1>2

LEMMA GetType ==
    ASSUME TypeInv, NEW id \in Ids, SelectConversation(id) \/ RenameConversation(id)
    PROVE  TypeInv'
<1>1. /\ UNCHANGED page /\ UNCHANGED <<cloud, owner, chats, unsent, raced>>
      /\ GetConversation(id, "select") \/ GetConversation(id, "rename")
      /\ Ids' = Ids
  BY DEF SelectConversation, RenameConversation, server, Ids
<1>2. CallInv' /\ BeginInv' /\ troubled' \in BOOLEAN
  BY <1>1, GetOK
<1>3. PageOK'
  BY <1>1, PageKept DEF TypeInv
<1>4. QED
  BY <1>1, <1>2, <1>3 DEF TypeInv, ServerOK, HistoryOK

LEMMA DeleteType ==
    ASSUME TypeInv, NEW id \in Ids, DeleteConversation(id)
    PROVE  TypeInv'
<1> DEFINE t == IF activeId = id THEN {"new"} ELSE {}
<1>0. Ids' = Ids /\ CallInv /\ BeginInv /\ HistoryOK /\ ServerOK /\ PageOK
      /\ UNCHANGED page /\ UNCHANGED <<cloud, owner, chats, unsent, raced>>
  BY DEF DeleteConversation, server, Ids, TypeInv
<1>a. PICK c : c = NewCall("delete", id, EmptyDoc(owner[id]), t)
  OBVIOUS
<1>1. calls' = calls \cup {c} /\ troubled' = (troubled \/ calls # {})
  BY <1>a DEF DeleteConversation, Issue
<1>2. c \in Call /\ c.kind = "delete" /\ c.id = id /\ c.then = t /\ c.answered = FALSE
  <2>1. t \in SUBSET {"adopt", "select", "rename", "title", "new"}
    OBVIOUS
  <2>2. QED
    BY <1>0, <1>a, <2>1, IdOK DEF NewCall, Call
<1>3. PageOK' /\ ServerOK' /\ HistoryOK'
  BY <1>0, <1>1, PageKept DEF ServerOK, HistoryOK
<1>4. GoodCall(c)'
  BY <1>0, <1>2 DEF GoodCall
<1>5. CASE activeId # id
  BY <1>0, <1>1, <1>2, <1>3, <1>4, <1>5, SendOK DEF TypeInv
<1>6. CASE activeId = id
  <2>1. chats + Cardinality(Beginning) < MaxChats
    BY <1>6 DEF DeleteConversation, MayBegin, Beginning
  <2>2. Beginning' = Beginning \cup {c}
    BY <1>1, <1>2, <1>6 DEF Beginning
  <2>3. Cardinality(Beginning') <= Cardinality(Beginning) + 1
        /\ IsFiniteSet(Beginning') /\ Cardinality(Beginning) \in Nat
    <3>1. /\ IsFiniteSet(Beginning) /\ Cardinality(Beginning) \in Nat
      BY <1>0, BeginningFinite
    <3>2. /\ IsFiniteSet(Beginning \cup {c})
          /\ Cardinality(Beginning \cup {c}) =
                IF c \in Beginning THEN Cardinality(Beginning) ELSE Cardinality(Beginning) + 1
      BY <3>1, FS_AddElement
    <3>3. QED
      BY <2>2, <3>1, <3>2
  <2>4. Cardinality(Beginning') \in Nat
    BY <2>3, FS_CardinalityType
  <2>5. BeginInv'
    BY <1>0, <2>1, <2>3, <2>4, BoundsAssumption DEF BeginInv, HistoryOK
  <2>6. IsFiniteSet(calls')
    BY <1>0, <1>1, FS_AddElement DEF CallInv
  <2>7. CallInv'
    BY <1>0, <1>1, <1>4, <2>6, CallsKept
  <2>8. QED
    BY <1>3, <2>5, <2>7 DEF TypeInv
<1>7. QED
  BY <1>5, <1>6

\* The writes that a reload leaves to the server.
Left == {c \in calls : ~c.answered /\ c.kind # "get"}
Orphan(c) == [c EXCEPT !.then = {}]

LEMMA OrphanOK ==
    ASSUME CallInv, NEW c \in Left
    PROVE  /\ Orphan(c) \in Call /\ Orphan(c).kind = c.kind /\ Orphan(c).id = c.id
           /\ Orphan(c).doc = c.doc /\ ~Orphan(c).answered /\ Orphan(c).then = {}
           /\ GoodCall(Orphan(c))
<1>1. c \in Call /\ ~c.answered /\ GoodCall(c)
  BY DEF CallInv, GoodCall, Left
<1>2. /\ Orphan(c) \in Call /\ Orphan(c).kind = c.kind /\ Orphan(c).id = c.id
      /\ Orphan(c).doc = c.doc /\ Orphan(c).answered = c.answered /\ Orphan(c).then = {}
  BY <1>1 DEF Call, Orphan
<1>3. QED
  BY <1>1, <1>2 DEF GoodCall

LEMMA ReloadCalls ==
    ASSUME CallInv, Reload
    PROVE  calls' = {Orphan(c) : c \in Left}
BY DEF Reload, Orphan, Left

LEMMA ReloadType == ASSUME TypeInv, Reload PROVE TypeInv'
<1>0. /\ Ids' = Ids /\ CallInv /\ BeginInv /\ HistoryOK /\ ServerOK /\ PageOK
      /\ UNCHANGED <<cloud, owner, chats>>
      /\ activeId' = saved.id /\ generating' = FALSE
      /\ saved.doc \in Doc /\ saved.id \in {NoId} \cup Ids
  BY DEF Reload, server, Ids, TypeInv, PageOK
<1>1. PageOK'
  <2>1. PICK doc \in Sanitized(saved.doc) :
           /\ open' = doc /\ SaveMessages(doc, saved.id)
           /\ timer' = PersistEffect(FALSE, doc, saved.id, FALSE)
    BY DEF Reload
  <2>2. doc \in Doc
    BY <1>0, SanitizedOK
  <2>3. \/ timer' = NoTimer
        \/ timer' \in [armed : {TRUE}, doc : Doc, id : {NoId} \cup Ids]
    BY <1>0, <2>1, <2>2, EffectOK
  <2>4. saved' \in [doc : Doc, id : {NoId} \cup Ids]
    BY <1>0, <2>1, <2>2, SaveOK
  <2>5. QED
    BY <1>0, <2>1, <2>2, <2>3, <2>4 DEF PageOK
<1>2. ServerOK' /\ HistoryOK'
  BY <1>0 DEF Reload, ServerOK, HistoryOK
<1>3. calls' = {Orphan(c) : c \in Left}
  BY <1>0, ReloadCalls
<1>4. IsFiniteSet(calls')
  <2>1. Left \in SUBSET calls /\ IsFiniteSet(Left)
    BY <1>0, FS_Subset DEF Left, CallInv
  <2>2. [c \in Left |-> Orphan(c)] \in Surjection(Left, calls')
    BY <1>3 DEF Surjection
  <2>3. QED
    BY <2>1, <2>2, FS_Surjection
<1>5. \A d \in calls' : GoodCall(d) /\ d.then = {}
  BY <1>0, <1>3, OrphanOK
<1>6. CallInv'
  BY <1>0, <1>4, <1>5 DEF CallInv, GoodCall
<1>7. Beginning' \subseteq Beginning
  BY <1>5 DEF Beginning
<1>8. QED
  BY <1>0, <1>1, <1>2, <1>6, <1>7, BeginKept DEF TypeInv

LEMMA FireType == ASSUME TypeInv, FireTimer PROVE TypeInv'
<1>0. /\ Ids' = Ids /\ CallInv /\ BeginInv /\ HistoryOK /\ ServerOK /\ PageOK
      /\ UNCHANGED <<open, activeId, generating, saved, cloud, owner, chats, raced>>
      /\ timer.armed /\ timer' = NoTimer /\ unsent' = FALSE
  BY DEF FireTimer, server, Ids, TypeInv
<1>1. timer.doc \in Doc /\ timer.id \in {NoId} \cup Ids
  <2>1. timer # NoTimer
    BY <1>0 DEF NoTimer
  <2>2. timer \in [armed : {TRUE}, doc : Doc, id : {NoId} \cup Ids]
    BY <1>0, <2>1 DEF PageOK
  <2>3. QED
    BY <2>2
<1>2. PICK c : c = SaveCall(timer.doc, timer.id)
  OBVIOUS
<1>3. calls' = calls \cup {c} /\ troubled' = (troubled \/ calls # {})
  BY <1>2 DEF FireTimer, Issue
<1>4. c \in Call /\ "new" \notin c.then /\ GoodCall(c)'
  <2>1. timer.id \in 0 .. MaxIds
    <3>1. CASE timer.id = NoId
      BY <3>1, BoundsAssumption DEF NoId
    <3>2. CASE timer.id \in Ids
      BY <1>0, <3>2, IdOK
    <3>3. QED
      BY <1>1, <3>1, <3>2
  <2>2. CASE timer.id = NoId
    <3>1. {"adopt"} \in SUBSET {"adopt", "select", "rename", "title", "new"}
      OBVIOUS
    <3>2. /\ c \in Call /\ c.kind = "create" /\ c.then = {"adopt"} /\ c.answered = FALSE
      BY <1>1, <1>2, <2>1, <2>2, <3>1 DEF SaveCall, NewCall, Call
    <3>3. QED
      BY <3>2 DEF GoodCall
  <2>3. CASE timer.id # NoId
    <3>1. /\ c \in Call /\ c.kind = "update" /\ c.then = {} /\ c.answered = FALSE
          /\ c.id = timer.id
      BY <1>1, <1>2, <2>1, <2>3 DEF SaveCall, NewCall, Call
    <3>2. QED
      BY <1>0, <1>1, <2>3, <3>1 DEF GoodCall
  <2>4. QED
    BY <2>2, <2>3
<1>5. CallInv' /\ BeginInv'
  BY <1>0, <1>3, <1>4, SendOK
<1>6. QED
  BY <1>0, <1>3, <1>5 DEF TypeInv, PageOK, ServerOK, HistoryOK

LEMMA ServerType ==
    ASSUME TypeInv, NEW c \in calls, ServerHandles(c)
    PROVE  TypeInv'
<1>0. /\ CallInv /\ BeginInv /\ HistoryOK /\ ServerOK /\ PageOK /\ GoodCall(c) /\ c \in Call
      /\ UNCHANGED page /\ UNCHANGED <<chats, unsent, raced, troubled>>
  BY DEF ServerHandles, history, TypeInv, CallInv, GoodCall
<1>1. HistoryOK'
  BY <1>0 DEF HistoryOK
<1>2. CASE CreateRow(c)
  <2> DEFINE n == Len(owner)
  <2>1. n \in Nat /\ Ids = 1 .. n /\ MaxIds \in Nat /\ n < MaxIds
    BY <1>0, <1>2, IdsRange, BoundsAssumption DEF CreateRow
  <2>2. c.doc \in Doc /\ c.doc.chat \in 1 .. MaxChats
    BY <1>0 DEF Call, Doc
  <2>3. /\ owner' \in Seq(1 .. MaxChats) /\ Len(owner') = n + 1
    BY <1>0, <1>2, <2>2, AppendProperties DEF CreateRow, ServerOK
  <2>4. Ids' = 1 .. n + 1
    BY <2>3, LenProperties DEF Ids
  <2>5. cloud \in Seq(Doc \cup {Absent}) /\ Len(cloud) = n
    <3>1. cloud \in [1 .. n -> Doc \cup {Absent}]
      BY <1>0, <2>1 DEF ServerOK
    <3>2. cloud \in Seq(Doc \cup {Absent})
      BY <2>1, <3>1, SeqDef
    <3>3. QED
      BY <2>1, <3>1, <3>2, LenProperties
  <2>6. cloud' \in Seq(Doc \cup {Absent}) /\ Len(cloud') = n + 1
    BY <1>2, <2>2, <2>5, AppendProperties DEF CreateRow
  <2>7. ServerOK'
    BY <2>1, <2>3, <2>4, <2>6, LenProperties DEF ServerOK
  <2>8. Ids \subseteq Ids' /\ n + 1 \in Ids'
    BY <2>1, <2>4
  <2>9. PICK a : a = [c EXCEPT !.id = n + 1]
    OBVIOUS
  <2>10. a \in Call /\ a.kind = c.kind /\ a.then = c.then /\ a.id = n + 1
    BY <1>0, <2>1, <2>9 DEF Call
  <2>11. Answer(c, a)
    BY <1>2, <2>9 DEF CreateRow
  <2>12. CallInv' /\ BeginInv'
    BY <1>0, <2>8, <2>10, <2>11, AnswerOK
  <2>13. QED
    BY <1>0, <1>1, <2>7, <2>8, <2>12, PageKept DEF TypeInv
<1>3. CASE UpdateRow(c) \/ GetRow(c) \/ DeleteRow(c)
  <2>1. owner' = owner /\ Ids' = Ids /\ c.id \in Ids
    BY <1>0, <1>3 DEF UpdateRow, GetRow, DeleteRow, server, Ids, GoodCall
  <2>2. cloud' \in [Ids -> Doc \cup {Absent}]
    BY <1>0, <1>3, <2>1 DEF UpdateRow, GetRow, DeleteRow, server, ServerOK, Call
  <2>3. PICK a \in Call : a.kind = c.kind /\ a.then = c.then /\ a.id = c.id /\ Answer(c, a)
    <3>1. CASE UpdateRow(c) \/ DeleteRow(c)
      BY <1>0, <3>1 DEF UpdateRow, DeleteRow
    <3>2. CASE GetRow(c)
      <4>1. cloud[c.id] \in Doc
        BY <1>0, <2>1, <3>2 DEF GetRow, ServerOK
      <4>2. LET a == [c EXCEPT !.doc = cloud[c.id]]
            IN  a \in Call /\ a.kind = c.kind /\ a.then = c.then /\ a.id = c.id
        BY <1>0, <4>1 DEF Call
      <4>3. QED
        BY <3>2, <4>2 DEF GetRow
    <3>3. QED
      BY <1>3, <3>1, <3>2
  <2>4. CallInv' /\ BeginInv'
    BY <1>0, <2>1, <2>3, AnswerOK
  <2>5. QED
    BY <1>0, <1>1, <2>1, <2>2, <2>4, PageKept DEF TypeInv, ServerOK
<1>4. QED
  BY <1>2, <1>3 DEF ServerHandles

LEMMA RefuseType ==
    ASSUME TypeInv, NEW c \in calls, ServerRefuses(c) \/ AnswerLost(c)
    PROVE  TypeInv'
<1>0. /\ CallInv /\ BeginInv /\ HistoryOK /\ ServerOK /\ PageOK /\ GoodCall(c) /\ c \in Call
      /\ UNCHANGED page /\ UNCHANGED <<cloud, owner, chats, unsent, raced>>
      /\ troubled' = TRUE /\ Ids' = Ids
  BY DEF ServerRefuses, AnswerLost, server, TypeInv, CallInv, GoodCall, Ids
<1>1. CASE Forget(c)
  BY <1>0, <1>1, ForgetOK, PageKept DEF TypeInv, HistoryOK, ServerOK
<1>2. CASE c.kind \in {"put", "delete"} /\ Answer(c, c)
  <2>1. CallInv' /\ BeginInv'
    BY <1>0, <1>2, AnswerOK DEF GoodCall
  <2>2. QED
    BY <1>0, <2>1, PageKept DEF TypeInv, HistoryOK, ServerOK
<1>3. QED
  BY <1>1, <1>2 DEF ServerRefuses, AnswerLost, Forget

LEMMA ContinueType ==
    ASSUME TypeInv, NEW c \in calls, PageContinues(c)
    PROVE  TypeInv'
<1>0. /\ CallInv /\ BeginInv /\ HistoryOK /\ ServerOK /\ PageOK /\ GoodCall(c) /\ c \in Call
      /\ c.answered /\ UNCHANGED <<cloud, owner, troubled>> /\ Ids' = Ids /\ ServerOK'
      /\ c.id \in Ids /\ c.doc \in Doc
  BY DEF PageContinues, CreateReturns, GetReturns, PutReturns, DeleteReturns, Returned,
         server, history, TypeInv, CallInv, GoodCall, Ids, ServerOK, Call
<1>1. CASE CreateReturns(c)
  <2>1. /\ Forget(c) /\ activeId' = c.id /\ saved' \in {saved, [saved EXCEPT !.id = c.id]}
        /\ timer' = PersistEffect(FALSE, open, c.id, generating)
        /\ raced' \in BOOLEAN /\ UNCHANGED <<open, generating, chats, unsent>>
    BY <1>0, <1>1 DEF CreateReturns, HistoryOK
  <2>2. \/ timer' = NoTimer
        \/ timer' \in [armed : {TRUE}, doc : Doc, id : {NoId} \cup Ids]
    <3>1. open \in Doc /\ generating \in BOOLEAN /\ FALSE \in BOOLEAN /\ c.id \in {NoId} \cup Ids
      BY <1>0 DEF PageOK
    <3>2. timer' = PersistEffect(FALSE, open, c.id, generating)
      BY <2>1
    <3> QED
      BY ZenonT(60), <3>1, <3>2, EffectOK
  <2>3. PageOK'
    BY <1>0, <2>1, <2>2 DEF PageOK
  <2>4. QED
    BY <1>0, <2>1, <2>3, ForgetOK DEF TypeInv, HistoryOK
<1>2. CASE GetReturns(c)
  <2>1. UNCHANGED <<chats, raced>>
    BY <1>2 DEF GetReturns
  <2>2. PageOK' /\ unsent' \in BOOLEAN
    <3>1. CASE "select" \in c.then
      <4>1. ReplaceBy(c.doc, c.id)
        BY <1>2, <3>1 DEF GetReturns
      <4>2. QED
        BY <1>0, <4>1, ReplaceOK DEF ReplaceBy
    <3>2. CASE "select" \notin c.then
      BY <1>0, <1>2, <3>2, PageKept DEF GetReturns, HistoryOK
    <3>3. QED
      BY <3>1, <3>2
  <2>3. CallInv' /\ BeginInv'
    <3>1. CASE "rename" \in c.then
      <4>1. PICK d : d = NewCall("put", c.id, c.doc, {"title"})
        OBVIOUS
      <4>2. {"title"} \in SUBSET {"adopt", "select", "rename", "title", "new"}
            /\ c.id \in 0 .. MaxIds
        BY <1>0 DEF Call
      <4>3. d \in Call /\ d.kind = "put" /\ d.id = c.id /\ d.then = {"title"}
            /\ d.answered = FALSE
        BY <1>0, <4>1, <4>2 DEF NewCall, Call
      <4>4. calls' = (calls \ {c}) \cup {d} /\ GoodCall(d)'
        BY <1>0, <1>2, <3>1, <4>1, <4>3 DEF GetReturns, GoodCall
      <4>5. QED
        BY <1>0, <2>1, <4>3, <4>4, SendOK
    <3>2. CASE "rename" \notin c.then
      BY <1>0, <1>2, <2>1, <3>2, ForgetOK DEF GetReturns
    <3>3. QED
      BY <3>1, <3>2
  <2>4. QED
    BY <1>0, <2>1, <2>2, <2>3 DEF TypeInv, HistoryOK
<1>3. CASE PutReturns(c)
  <2>1. /\ Forget(c) /\ UNCHANGED <<open, activeId, generating, saved, chats, unsent, raced>>
        /\ timer' = timer \/ timer' = PersistEffect(FALSE, open, activeId, generating)
    BY <1>3 DEF PutReturns, history
  <2>2. \/ timer' = NoTimer
        \/ timer' \in [armed : {TRUE}, doc : Doc, id : {NoId} \cup Ids]
    <3>1. CASE timer' = timer
      BY <1>0, <3>1 DEF PageOK
    <3>2. CASE timer' = PersistEffect(FALSE, open, activeId, generating)
      BY <1>0, <3>2, EffectOK DEF PageOK
    <3>3. QED
      BY <2>1, <3>1, <3>2
  <2>3. PageOK'
    BY <1>0, <2>1, <2>2 DEF PageOK
  <2>4. QED
    BY <1>0, <2>1, <2>3, ForgetOK DEF TypeInv, HistoryOK
<1>4. CASE DeleteReturns(c)
  <2>1. calls' = calls \ {c} /\ NewPage /\ chats' = chats + 1 /\ UNCHANGED raced
    BY <1>4 DEF DeleteReturns, Forget, NewPage
  <2>2. c \in Beginning
    BY <1>0, <1>4 DEF DeleteReturns, Returned, GoodCall, Beginning
  <2>3. Beginning' = Beginning \ {c}
    BY <2>1 DEF Beginning
  <2>4. IsFiniteSet(Beginning) /\ Cardinality(Beginning) \in Nat
    BY <1>0, BeginningFinite
  <2>5. IsFiniteSet(Beginning') /\ Cardinality(Beginning') = Cardinality(Beginning) - 1
    BY <2>2, <2>3, <2>4, FS_RemoveElement
  <2>6. Cardinality(Beginning') \in Nat
    BY <2>5, FS_CardinalityType
  <2>7. chats < MaxChats /\ BeginInv'
    BY <1>0, <2>1, <2>4, <2>5, <2>6, BoundsAssumption DEF BeginInv, HistoryOK
  <2>8. PageOK' /\ HistoryOK'
    BY <1>0, <2>1, <2>7, NewPageOK
  <2>9. IsFiniteSet(calls')
    BY <1>0, <2>1, FS_RemoveElement DEF CallInv
  <2>10. CallInv'
    BY <1>0, <2>1, <2>9, CallsKept
  <2>11. QED
    BY <1>0, <2>7, <2>8, <2>10 DEF TypeInv
<1>5. QED
  BY <1>1, <1>2, <1>3, <1>4 DEF PageContinues

LEMMA NextType == TypeInv /\ [Next]_vars => TypeInv'
<1> SUFFICES ASSUME TypeInv, [Next]_vars PROVE TypeInv'
  OBVIOUS
<1>1. CASE UserAction
  BY <1>1, SendType, EditType, SettingsType, NewType, GetType, DeleteType, ReloadType
  DEF UserAction
<1>2. CASE EndGeneration \/ FireTimer
  BY <1>2, EndType, FireType
<1>3. CASE \E c \in calls : CallProceeds(c) \/ AnswerLost(c)
  BY <1>3, ServerType, RefuseType, ContinueType DEF CallProceeds
<1>4. CASE UNCHANGED vars
  BY <1>4 DEF vars, TypeInv, PageOK, ServerOK, HistoryOK, CallInv, GoodCall, BeginInv,
              Beginning, Ids
<1>5. QED
  BY <1>1, <1>2, <1>3, <1>4 DEF Next

LEMMA AlwaysType == Spec => []TypeInv
BY InitType, NextType, PTL DEF Spec

\* The page, its draft, its calls and the account keep their types; every
\* call names a conversation that was created, and no chat is begun beyond
\* the bound by a deletion that returns late (index.tsx, storage.ts,
\* conversation-rail.tsx, controller/conversation.go).
THEOREM TypeCorrect == Spec => []TypeOK
BY AlwaysType, TypeOfInv, PTL

-----------------------------------------------------------------------------
(* The timer *)

\* Whatever a step changes of what the effect depends on, the effect has run
\* for it.
LEMMA EffectRuns ==
    ASSUME [Next]_vars
    PROVE  \/ UNCHANGED <<open, activeId, generating, timer>>
           \/ timer' = NoTimer /\ UNCHANGED <<open, activeId, generating>>
           \/ \E skip \in BOOLEAN :
                 timer' = PersistEffect(skip, open', activeId', generating')
<1> USE DEF page
<1>1. CASE UserAction
  BY <1>1 DEF UserAction, Send, Edit, ChangeSettings, NewConversation, SelectConversation,
      RenameConversation, DeleteConversation, Reload, ChangeTo, NewPage, ReplaceBy
<1>2. CASE EndGeneration \/ FireTimer
  BY <1>2 DEF EndGeneration, FireTimer, ChangeTo
<1>3. ASSUME NEW c \in calls, CallProceeds(c) \/ AnswerLost(c)
      PROVE  \/ UNCHANGED <<open, activeId, generating, timer>>
             \/ \E skip \in BOOLEAN :
                   timer' = PersistEffect(skip, open', activeId', generating')
  <2>1. CASE ServerHandles(c) \/ ServerRefuses(c) \/ AnswerLost(c)
    BY <2>1 DEF ServerHandles, ServerRefuses, AnswerLost
  <2>2. CASE PageContinues(c)
    BY <2>2 DEF PageContinues, CreateReturns, GetReturns, PutReturns, DeleteReturns,
                NewPage, ReplaceBy
  <2>3. QED
    BY <1>3, <2>1, <2>2 DEF CallProceeds
<1>4. CASE UNCHANGED vars
  BY <1>4 DEF vars
<1>5. QED
  BY <1>1, <1>2, <1>3, <1>4 DEF Next

\* The effect arms a timer for what it was given, and not during a generation.
LEMMA EffectArmed ==
    ASSUME NEW skip, NEW doc, NEW id, NEW gen, PersistEffect(skip, doc, id, gen).armed
    PROVE  PersistEffect(skip, doc, id, gen) = Armed(doc, id) /\ ~gen
BY DEF PersistEffect, NoTimer

LEMMA TimerNext == TimerIsCurrent /\ [Next]_vars => TimerIsCurrent'
<1> SUFFICES ASSUME TimerIsCurrent, [Next]_vars, timer'.armed
    PROVE  timer' = Armed(open', activeId') /\ ~generating'
  BY DEF TimerIsCurrent, Armed
<1>1. CASE UNCHANGED <<open, activeId, generating, timer>>
  BY <1>1 DEF TimerIsCurrent, Armed
<1>2. CASE timer' = NoTimer
  BY <1>2 DEF NoTimer
<1>3. CASE \E skip \in BOOLEAN :
              timer' = PersistEffect(skip, open', activeId', generating')
  BY <1>3, EffectArmed
<1>4. QED
  BY <1>1, <1>2, <1>3, EffectRuns

\* A scheduled save is of the list on screen and to its present id, and none
\* is scheduled during a generation, whatever is selected, created, renamed,
\* deleted, reloaded or answered meanwhile (index.tsx, the persist effect).
THEOREM TimerCurrent == Spec => []TimerIsCurrent
<1>1. Init => TimerIsCurrent
  BY DEF Init, TimerIsCurrent, NoTimer
<1>2. QED
  BY <1>1, TimerNext, PTL DEF Spec

-----------------------------------------------------------------------------
(* What the calls carry *)

\* The lists that a call of the next state can carry.
FromCall(d) ==
    \E c \in calls :
        /\ d.doc = c.doc /\ d.id = c.id
        /\ c.kind = "create" /\ ~c.answered => d.kind = "create" /\ ~d.answered
FromCreate(d) ==
    \E c \in calls : CreateRow(c) /\ d.doc = c.doc /\ d.id = Len(owner) + 1
FromNothing(d) == d.id \in Ids /\ d.doc = EmptyDoc(owner[d.id])
FromAccount(d) == d.id \in Ids /\ cloud[d.id] # Absent /\ d.doc = cloud[d.id]
FromTimer(d) ==
    /\ timer.armed /\ d.doc = timer.doc /\ d.id = timer.id
    /\ timer.id = NoId => d.kind = "create" /\ ~d.answered
Origin(d) ==
    FromCall(d) \/ FromCreate(d) \/ FromNothing(d) \/ FromAccount(d) \/ FromTimer(d)

LEMMA AnswerOrigin ==
    ASSUME CallInv, NEW c \in calls, NEW a \in Call, Answer(c, a), NEW d \in calls'
    PROVE  \/ d \in calls
           \/ /\ d.doc = a.doc /\ d.id = a.id /\ d.kind = a.kind
              /\ d.then = a.then /\ d.answered = TRUE /\ c.then # {}
BY DEF Answer, Call

LEMMA Origins ==
    ASSUME TypeInv, [Next]_vars, NEW d \in calls'
    PROVE  Origin(d)
<1>0. CallInv /\ ServerOK
  BY DEF TypeInv
<1>1. CASE d \in calls
  BY <1>1 DEF Origin, FromCall
<1>2. CASE UserAction /\ d \notin calls
  <2>1. ASSUME NEW id \in Ids, NEW then \in {"select", "rename"}, GetConversation(id, then)
        PROVE  Origin(d)
    <3>1. CASE Joined(id) = {}
      <4>1. d = NewCall("get", id, EmptyDoc(owner[id]), {then})
        BY <1>2, <2>1, <3>1 DEF GetConversation, Joined, Issue
      <4>2. QED
        BY <4>1 DEF NewCall, Origin, FromNothing
    <3>2. CASE Joined(id) # {}
      <4>1. PICK c \in Joined(id) : d = [c EXCEPT !.then = @ \cup {then}]
        BY <1>2, <2>1, <3>2 DEF GetConversation, Joined
      <4>2. d.doc = c.doc /\ d.id = c.id /\ c.kind = "get" /\ c \in calls
        BY <1>0, <4>1, JoinOK DEF Joined
      <4>3. QED
        BY <4>2 DEF Origin, FromCall
    <3>3. QED
      BY <3>1, <3>2
  <2>2. ASSUME NEW id \in Ids, DeleteConversation(id)
        PROVE  Origin(d)
    <3>1. PICK t : d = NewCall("delete", id, EmptyDoc(owner[id]), t)
      BY <1>2, <2>2 DEF DeleteConversation, Issue
    <3>2. QED
      BY <3>1 DEF NewCall, Origin, FromNothing
  <2>3. CASE Reload
    <3>1. PICK c \in Left : d = Orphan(c)
      BY <1>0, <2>3, ReloadCalls
    <3>2. d.doc = c.doc /\ d.id = c.id /\ d.kind = c.kind /\ ~d.answered /\ c \in calls
      BY <1>0, <3>1, OrphanOK DEF Left
    <3>3. QED
      BY <3>2 DEF Origin, FromCall
  <2>4. CASE Send \/ (\E n \in 0 .. MaxVersion : Edit(n)) \/ ChangeSettings \/ NewConversation
    BY <1>2, <2>4 DEF Send, Edit, ChangeSettings, NewConversation, ChangeTo
  <2>5. QED
    BY <1>2, <2>1, <2>2, <2>3, <2>4 DEF UserAction, SelectConversation, RenameConversation
<1>3. CASE (EndGeneration \/ FireTimer) /\ d \notin calls
  <2>1. FireTimer
    BY <1>3 DEF EndGeneration, ChangeTo
  <2>2. timer.armed /\ d = SaveCall(timer.doc, timer.id)
    BY <1>3, <2>1 DEF FireTimer, Issue
  <2>3. QED
    BY <2>2 DEF SaveCall, NewCall, Origin, FromTimer
<1>4. ASSUME NEW c \in calls, CallProceeds(c) \/ AnswerLost(c), d \notin calls
      PROVE  Origin(d)
  <2>0. c \in Call /\ GoodCall(c)
    BY <1>0 DEF CallInv, GoodCall
  <2>1. CASE ServerHandles(c)
    <3>1. CASE CreateRow(c)
      <4>1. PICK a : a = [c EXCEPT !.id = Len(owner) + 1]
        OBVIOUS
      <4>2. a \in Call /\ a.id = Len(owner) + 1 /\ a.doc = c.doc
        <5>1. Len(owner) + 1 \in 0 .. MaxIds
          BY <1>0, <3>1, IdsRange, BoundsAssumption DEF CreateRow
        <5>2. QED
          BY <2>0, <4>1, <5>1 DEF Call
      <4>3. d.doc = c.doc /\ d.id = Len(owner) + 1
        BY <1>0, <1>4, <3>1, <4>1, <4>2, AnswerOrigin DEF CreateRow
      <4>4. QED
        BY <3>1, <4>3 DEF Origin, FromCreate
    <3>2. CASE UpdateRow(c) \/ DeleteRow(c)
      <4>1. Answer(c, c) /\ c.kind # "create"
        BY <3>2 DEF UpdateRow, DeleteRow
      <4>2. d.doc = c.doc /\ d.id = c.id
        BY <1>0, <1>4, <2>0, <4>1, AnswerOrigin
      <4>3. QED
        BY <4>1, <4>2 DEF Origin, FromCall
    <3>3. CASE GetRow(c)
      <4>1. PICK a : a = [c EXCEPT !.doc = cloud[c.id]]
        OBVIOUS
      <4>2. c.id \in Ids /\ cloud[c.id] # Absent /\ cloud[c.id] \in Doc
        BY <1>0, <2>0, <3>3 DEF GetRow, ServerOK, GoodCall
      <4>3. a \in Call /\ a.id = c.id /\ a.doc = cloud[c.id]
        BY <2>0, <4>1, <4>2 DEF Call
      <4>4. d.doc = cloud[c.id] /\ d.id = c.id
        BY ZenonT(60), <1>0, <1>4, <3>3, <4>1, <4>3, AnswerOrigin DEF GetRow
      <4>5. QED
        BY <4>2, <4>4 DEF Origin, FromAccount
    <3>4. QED
      BY <2>1, <3>1, <3>2, <3>3 DEF ServerHandles
  <2>2. CASE ServerRefuses(c)
    <3>1. c.kind \in {"put", "delete"} /\ Answer(c, c)
      BY <1>4, <2>2 DEF ServerRefuses
    <3>2. d.doc = c.doc /\ d.id = c.id
      BY <1>0, <1>4, <2>0, <3>1, AnswerOrigin
    <3>3. QED
      BY <3>1, <3>2 DEF Origin, FromCall
  <2>3. CASE PageContinues(c)
    <3>1. c.answered /\ d = NewCall("put", c.id, c.doc, {"title"})
      BY <1>4, <2>3 DEF PageContinues, CreateReturns, GetReturns, PutReturns, DeleteReturns,
                        Forget, Returned
    <3>2. QED
      BY <3>1 DEF NewCall, Origin, FromCall
  <2>4. QED
    BY <1>4, <2>1, <2>2, <2>3 DEF CallProceeds, AnswerLost
<1>5. QED
  BY <1>1, <1>2, <1>3, <1>4 DEF Next, vars

\* What a created conversation gets, and that the others stay.
LEMMA CreateFacts ==
    ASSUME TypeInv, NEW c \in calls, CreateRow(c)
    PROVE  LET n == Len(owner)
           IN  /\ n \in Nat /\ Ids = 1 .. n /\ Ids' = 1 .. n + 1
               /\ \A id \in Ids : owner'[id] = owner[id] /\ cloud'[id] = cloud[id]
               /\ owner'[n + 1] = c.doc.chat /\ cloud'[n + 1] = c.doc
<1> DEFINE n == Len(owner)
<1>0. ServerOK /\ c \in Call
  BY DEF TypeInv, CallInv, GoodCall
<1>1. n \in Nat /\ Ids = 1 .. n
  BY <1>0, IdsRange
<1>2. c.doc \in Doc \cup {Absent} /\ c.doc.chat \in 1 .. MaxChats
  BY <1>0 DEF Call, Doc
<1>3. /\ owner' \in Seq(1 .. MaxChats) /\ Len(owner') = n + 1
      /\ \A i \in 1 .. n : owner'[i] = owner[i]
      /\ owner'[n + 1] = c.doc.chat
  BY <1>0, <1>2, AppendProperties DEF CreateRow, ServerOK
<1>4. cloud \in Seq(Doc \cup {Absent}) /\ Len(cloud) = n
  <2>1. cloud \in [1 .. n -> Doc \cup {Absent}]
    BY <1>0, <1>1 DEF ServerOK
  <2>2. cloud \in Seq(Doc \cup {Absent})
    BY <1>1, <2>1, SeqDef
  <2>3. QED
    BY <1>1, <2>1, <2>2, LenProperties
<1>5. (\A i \in 1 .. n : cloud'[i] = cloud[i]) /\ cloud'[n + 1] = c.doc
  BY <1>2, <1>4, AppendProperties DEF CreateRow
<1>6. Ids' = 1 .. n + 1
  BY <1>3, LenProperties DEF Ids
<1>7. QED
  BY <1>1, <1>3, <1>5, <1>6

\* Where a row of the next state comes from.
LEMMA Rows ==
    ASSUME TypeInv, [Next]_vars
    PROVE  /\ Ids \subseteq Ids'
           /\ \A id \in Ids : owner'[id] = owner[id]
           /\ \A id \in Ids' :
                 \/ id \in Ids /\ cloud'[id] = cloud[id]
                 \/ cloud'[id] = Absent
                 \/ \E c \in calls :
                       /\ cloud'[id] = c.doc
                       /\ \/ owner'[id] = c.doc.chat
                          \/ c.kind # "create" /\ c.id = id /\ id \in Ids
<1>0. ServerOK /\ \A c \in calls : GoodCall(c)
  BY DEF TypeInv, CallInv
<1>1. CASE UNCHANGED <<cloud, owner>>
  BY <1>1 DEF Ids
<1>2. ASSUME NEW c \in calls, CreateRow(c)
      PROVE  /\ Ids \subseteq Ids'
             /\ \A id \in Ids : owner'[id] = owner[id]
             /\ \A id \in Ids' :
                   \/ id \in Ids /\ cloud'[id] = cloud[id]
                   \/ owner'[id] = c.doc.chat /\ cloud'[id] = c.doc
  BY <1>2, CreateFacts
<1>3. ASSUME NEW c \in calls, UpdateRow(c) \/ DeleteRow(c)
      PROVE  /\ Ids' = Ids /\ owner' = owner
             /\ \A id \in Ids' :
                   \/ cloud'[id] = cloud[id]
                   \/ cloud'[id] = Absent
                   \/ cloud'[id] = c.doc /\ c.kind # "create" /\ c.id = id
  BY <1>0, <1>3 DEF UpdateRow, DeleteRow, Ids, ServerOK, GoodCall
<1>4. \/ UNCHANGED <<cloud, owner>>
      \/ \E c \in calls : CreateRow(c) \/ UpdateRow(c) \/ DeleteRow(c)
  <2>1. CASE UserAction \/ EndGeneration \/ FireTimer
    BY <2>1 DEF UserAction, Send, Edit, ChangeSettings, NewConversation, SelectConversation,
      RenameConversation, DeleteConversation, Reload, ChangeTo, EndGeneration, FireTimer, server
  <2>2. ASSUME NEW c \in calls, CallProceeds(c) \/ AnswerLost(c)
        PROVE  \/ UNCHANGED <<cloud, owner>>
               \/ CreateRow(c) \/ UpdateRow(c) \/ DeleteRow(c)
    BY <2>2 DEF CallProceeds, AnswerLost, ServerHandles, ServerRefuses, PageContinues, GetRow,
      CreateReturns, GetReturns, PutReturns, DeleteReturns, server
  <2>3. QED
    BY <2>1, <2>2 DEF Next, vars
<1>5. QED
  BY <1>1, <1>2, <1>3, <1>4

-----------------------------------------------------------------------------
(* Conversations do not mix *)

LEMMA RacedStays ==
    ASSUME [Next]_vars, raced
    PROVE  raced'
<1>1. CASE UserAction \/ EndGeneration \/ FireTimer
  BY <1>1 DEF UserAction, Send, Edit, ChangeSettings, NewConversation, SelectConversation,
      RenameConversation, DeleteConversation, Reload, ChangeTo, EndGeneration, FireTimer, history
<1>2. ASSUME NEW c \in calls, CallProceeds(c) \/ AnswerLost(c)
      PROVE  raced'
  BY <1>2 DEF CallProceeds, AnswerLost, ServerHandles, ServerRefuses, PageContinues,
      CreateReturns, GetReturns, PutReturns, DeleteReturns, history
<1>3. QED
  BY <1>1, <1>2 DEF Next, vars

LEMMA OwnerNext ==
    ASSUME TypeInv, TimerIsCurrent, OwnerInv, [Next]_vars
    PROVE  OwnerInv'
<1> SUFFICES ASSUME ~raced'
    PROVE  /\ (activeId # NoId => owner[activeId] = open.chat)'
           /\ \A id \in Ids' : cloud'[id] # Absent => cloud'[id].chat = owner'[id]
           /\ \A d \in calls' :
                 d.kind # "create" \/ d.answered => owner'[d.id] = d.doc.chat
  BY DEF OwnerInv
<1>0. ServerOK /\ PageOK /\ CallInv /\ HistoryOK
  BY DEF TypeInv
<1>1. /\ ~raced
      /\ activeId # NoId => owner[activeId] = open.chat
      /\ \A id \in Ids : cloud[id] # Absent => cloud[id].chat = owner[id]
      /\ \A c \in calls :
            c.kind # "create" \/ c.answered => owner[c.id] = c.doc.chat
  BY RacedStays DEF OwnerInv
<1>2. \A c \in calls : c.kind # "create" \/ c.answered => c.id \in Ids
  BY <1>0 DEF CallInv, GoodCall
<1>3. Ids \subseteq Ids' /\ \A id \in Ids : owner'[id] = owner[id]
  BY Rows
<1>4. \A id \in Ids' : cloud'[id] # Absent => cloud'[id].chat = owner'[id]
  BY <1>1, <1>3, Rows
<1>5. ASSUME NEW d \in calls', d.kind # "create" \/ d.answered
      PROVE  owner'[d.id] = d.doc.chat
  <2>1. Origin(d)
    BY Origins
  <2>2. CASE FromCall(d)
    BY <1>1, <1>2, <1>3, <1>5, <2>2 DEF FromCall
  <2>3. CASE FromCreate(d)
    BY <2>3, CreateFacts DEF FromCreate
  <2>4. CASE FromNothing(d)
    BY <1>3, <2>4 DEF FromNothing, EmptyDoc
  <2>5. CASE FromAccount(d)
    BY <1>1, <1>3, <2>5 DEF FromAccount
  <2>6. CASE FromTimer(d)
    <3>1. timer.id = activeId /\ timer.doc = open
      BY <2>6 DEF FromTimer, TimerIsCurrent, Armed
    <3>2. activeId # NoId /\ activeId \in Ids
      BY <1>0, <1>5, <2>6, <3>1 DEF FromTimer, PageOK
    <3>3. QED
      BY <1>1, <1>3, <2>6, <3>1, <3>2 DEF FromTimer
  <2>7. QED
    BY <2>1, <2>2, <2>3, <2>4, <2>5, <2>6 DEF Origin
<1>6. activeId' # NoId => owner'[activeId'] = open'.chat
  <2>0. ASSUME UNCHANGED activeId, open'.chat = open.chat
        PROVE  activeId' # NoId => owner'[activeId'] = open'.chat
    BY <1>0, <1>1, <1>3, <2>0 DEF PageOK
  <2>1. CASE Send
    <3>1. UNCHANGED activeId /\ open'.chat = open.chat
      BY <1>0, <2>1 DEF Send, ChangeTo, PageOK, Doc
    <3>2. QED
      BY <2>0, <3>1
  <2>2. ASSUME NEW n \in 0 .. MaxVersion, Edit(n)
        PROVE  activeId' # NoId => owner'[activeId'] = open'.chat
    <3>1. UNCHANGED activeId /\ open'.chat = open.chat
      BY <1>0, <2>2 DEF Edit, ChangeTo, PageOK, Doc
    <3>2. QED
      BY <2>0, <3>1
  <2>3. CASE EndGeneration
    <3>1. UNCHANGED activeId /\ open'.chat = open.chat
      BY <1>0, <2>3 DEF EndGeneration, ChangeTo, PageOK, Doc
    <3>2. QED
      BY <2>0, <3>1
  <2>4. CASE NewPage
    BY <2>4 DEF NewPage, ReplaceBy
  <2>5. CASE Reload
    <3>1. open'.chat = saved.doc.chat
      BY <1>0, <2>5, SanitizedOK DEF Reload, PageOK
    <3>2. QED
      BY <1>0, <2>5, <3>1 DEF Reload, server
  <2>6. ASSUME NEW c \in calls, PageContinues(c)
        PROVE  activeId' # NoId => owner'[activeId'] = open'.chat
    <3>1. c.answered => c.id \in Ids /\ owner[c.id] = c.doc.chat
      BY <1>1, <1>2
    <3>2. CASE CreateReturns(c)
      BY <1>3, <3>1, <3>2 DEF CreateReturns, Returned
    <3>3. CASE GetReturns(c) /\ "select" \in c.then
      BY <1>3, <3>1, <3>3 DEF GetReturns, ReplaceBy, Returned
    <3>4. CASE (GetReturns(c) /\ "select" \notin c.then) \/ PutReturns(c)
      BY <2>0, <3>4 DEF GetReturns, PutReturns, page
    <3>5. QED
      BY <2>4, <2>6, <3>2, <3>3, <3>4 DEF PageContinues, DeleteReturns
  <2>7. CASE UNCHANGED <<open, activeId>>
    BY <2>0, <2>7
  <2>8. QED
    BY <2>1, <2>2, <2>3, <2>4, <2>5, <2>6, <2>7
    DEF Next, UserAction, NewConversation, SelectConversation, RenameConversation, vars, page,
        DeleteConversation, CallProceeds, AnswerLost, ServerHandles, ServerRefuses,
        ChangeSettings, FireTimer
<1>7. QED
  BY <1>4, <1>5, <1>6

LEMMA InitOwner == Init => OwnerInv
BY DEF Init, OwnerInv, Ids, NoId

\* The messages of one conversation never overwrite those of another, by a
\* save, a rename or a create in flight when the user moved on, but for the
\* two races that the property names (index.tsx, handleSelectConversation,
\* the continuation of createConversation and the restored draft).
THEOREM ConversationsApart == Spec => []NoCrossTalk
<1>1. Init => TypeInv /\ TimerIsCurrent /\ OwnerInv
  <2>1. Init => TimerIsCurrent
    BY DEF Init, TimerIsCurrent, NoTimer
  <2>2. QED
    BY <2>1, InitType, InitOwner
<1>2. TypeInv /\ TimerIsCurrent /\ OwnerInv /\ [Next]_vars
         => (TypeInv /\ TimerIsCurrent /\ OwnerInv)'
  BY NextType, TimerNext, OwnerNext
<1>3. OwnerInv => NoCrossTalk
  BY DEF OwnerInv, NoCrossTalk
<1>4. QED
  BY <1>1, <1>2, <1>3, PTL DEF Spec

-----------------------------------------------------------------------------
(* The account at rest *)

LEMMA TroubledStays ==
    ASSUME [Next]_vars, troubled
    PROVE  troubled'
<1>1. CASE UserAction \/ EndGeneration \/ FireTimer
  BY <1>1 DEF UserAction, Send, Edit, ChangeSettings, NewConversation, SelectConversation,
      RenameConversation, DeleteConversation, Reload, ChangeTo, EndGeneration, FireTimer, history,
      GetConversation, Issue
<1>2. ASSUME NEW c \in calls, CallProceeds(c) \/ AnswerLost(c)
      PROVE  troubled'
  BY <1>2 DEF CallProceeds, AnswerLost, ServerHandles, ServerRefuses, PageContinues,
      CreateReturns, GetReturns, PutReturns, DeleteReturns, history
<1>3. QED
  BY <1>1, <1>2 DEF Next, vars

\* A list with an id that is not being written always has a save scheduled
\* after the effect ran for it.
LEMMA EffectArms ==
    ASSUME NEW doc, NEW id, id # NoId, NEW gen, ~gen
    PROVE  PersistEffect(FALSE, doc, id, gen).armed
BY DEF PersistEffect, Armed

\* The effect ran, or a new chat was begun, and no call or row changed.
LEMMA QuietRest ==
    ASSUME TypeInv, RestBody, UNCHANGED <<calls, cloud>>, activeId' \in {activeId, NoId},
           ~Resting'
    PROVE  RestBody'
<1>1. \A c \in calls : c.kind = "delete" => c.id # NoId
  BY IdOK DEF TypeInv, CallInv, GoodCall
<1>2. QED
  BY <1>1 DEF RestBody

LEMMA EffectRest ==
    ASSUME timer' = PersistEffect(FALSE, open', activeId', generating')
    PROVE  ~Resting'
BY EffectArms DEF Resting

LEMMA UserRest ==
    ASSUME TypeInv, RestBody, ~troubled', UserAction \/ EndGeneration
    PROVE  RestBody'
<1>0. PageOK /\ ServerOK
  BY DEF TypeInv
<1>1. CASE Send \/ (\E n \in 0 .. MaxVersion : Edit(n)) \/ ChangeSettings \/ EndGeneration
  <2>1. /\ timer' = PersistEffect(FALSE, open', activeId', generating')
        /\ UNCHANGED <<calls, cloud, activeId>>
    BY <1>1 DEF Send, Edit, ChangeSettings, EndGeneration, ChangeTo, server
  <2>2. QED
    BY <2>1, EffectRest, QuietRest
<1>2. CASE NewConversation
  <2>1. activeId' = NoId /\ UNCHANGED <<calls, cloud>>
    BY <1>2 DEF NewConversation, NewPage, ReplaceBy, server
  <2>2. QED
    BY <2>1, QuietRest DEF Resting
<1>3. ASSUME NEW id \in Ids, NEW then \in {"select", "rename"}, GetConversation(id, then),
             UNCHANGED page, UNCHANGED cloud
      PROVE  RestBody'
  <2>1. Joined(id) = {} /\ calls = {}
    BY <1>3 DEF GetConversation, Joined, Issue
  <2>2. PICK n : n = NewCall("get", id, EmptyDoc(owner[id]), {then})
    OBVIOUS
  <2>3. \A c, d \in calls' : c = d /\ c.kind = "get" /\ c.answered = FALSE
    <3>1. calls' = {n}
      BY <1>3, <2>1, <2>2 DEF GetConversation, Joined, Issue
    <3>2. n.kind = "get" /\ n.answered = FALSE
      BY <2>2 DEF NewCall
    <3>3. QED
      BY <3>1, <3>2
  <2>4. Resting => cloud[activeId] = open
    BY <2>1 DEF RestBody
  <2>5. QED
    BY <1>3, <2>3, <2>4 DEF RestBody, Resting, page
<1>4. ASSUME NEW id \in Ids, DeleteConversation(id)
      PROVE  RestBody'
  <2>1. calls = {} /\ UNCHANGED <<open, activeId, generating, timer, cloud>>
    BY <1>4 DEF DeleteConversation, Issue, page, server
  <2>2. PICK n : n = NewCall("delete", id, EmptyDoc(owner[id]),
                             IF activeId = id THEN {"new"} ELSE {})
    OBVIOUS
  <2>3. \A c, d \in calls' : /\ c = d /\ c.kind = "delete" /\ c.id = id
                              /\ c.then = IF activeId = id THEN {"new"} ELSE {}
    <3>1. calls' = {n}
      BY <1>4, <2>1, <2>2 DEF DeleteConversation, Issue
    <3>2. /\ n.kind = "delete" /\ n.id = id
          /\ n.then = IF activeId = id THEN {"new"} ELSE {}
      BY <2>2 DEF NewCall
    <3>3. QED
      BY <3>1, <3>2
  <2>4. Resting => cloud[activeId] = open
    BY <2>1 DEF RestBody
  <2>5. QED
    BY <2>1, <2>3, <2>4 DEF RestBody, Resting
<1>5. CASE Reload
  <2>1. calls = {} /\ calls' = {} /\ cloud' = cloud
        /\ timer' = PersistEffect(FALSE, open', activeId', generating')
    BY <1>5 DEF Reload, server
  <2>2. QED
    BY <2>1, EffectRest DEF RestBody
<1>6. QED
  BY <1>1, <1>2, <1>3, <1>4, <1>5 DEF UserAction, SelectConversation, RenameConversation, server

LEMMA FireRest ==
    ASSUME TypeInv, TimerIsCurrent, RestBody, ~troubled', FireTimer
    PROVE  RestBody'
<1>1. calls = {} /\ UNCHANGED <<open, activeId, generating, cloud>>
      /\ calls' = {SaveCall(timer.doc, timer.id)}
  BY DEF FireTimer, Issue, server
<1>2. timer.doc = open /\ timer.id = activeId
  BY DEF FireTimer, TimerIsCurrent, Armed
<1>3. CASE activeId = NoId
  <2>1. \A c, d \in calls' : c = d /\ c.kind = "create"
    <3>1. PICK c : c = NewCall("create", NoId, open, {"adopt"})
      OBVIOUS
    <3>2. calls' = {c}
      BY <1>1, <1>2, <1>3, <3>1 DEF SaveCall
    <3>3. c.kind = "create"
      BY <3>1 DEF NewCall
    <3>4. QED
      BY <3>2, <3>3
  <2>2. QED
    BY <1>1, <1>3, <2>1 DEF RestBody, Resting
<1>4. CASE activeId # NoId
  <2>1. /\ calls' # {}
        /\ \A c, d \in calls' :
              c = d /\ c.kind = "update" /\ c.id = activeId /\ c.doc = open
    BY <1>1, <1>2, <1>4 DEF SaveCall, NewCall
  <2>2. QED
    BY <1>1, <2>1 DEF RestBody
<1>5. QED
  BY <1>3, <1>4

\* The one call in flight is answered.
LEMMA AnswerRest ==
    ASSUME TypeInv, RestBody, NEW c \in calls, NEW a \in Call, Answer(c, a)
    PROVE  /\ calls = {c}
           /\ c.then = {} <=> calls' = {}
           /\ \A d, e \in calls' : d = e
           /\ \A d \in calls' : /\ d.kind = a.kind /\ d.then = a.then /\ d.id = a.id
                                /\ d.doc = a.doc /\ d.answered = TRUE
<1>1. calls = {c}
  BY DEF RestBody
<1>2. PICK d : d = [a EXCEPT !.answered = TRUE]
  OBVIOUS
<1>3. d.kind = a.kind /\ d.then = a.then /\ d.id = a.id /\ d.doc = a.doc /\ d.answered = TRUE
  BY <1>2 DEF Call
<1>4. calls' = IF c.then = {} THEN {} ELSE {d}
  BY <1>1, <1>2 DEF Answer
<1>5. QED
  BY <1>1, <1>3, <1>4

LEMMA ServerRest ==
    ASSUME TypeInv, RestBody, NEW c \in calls, ServerHandles(c)
    PROVE  RestBody'
<1>0. /\ PageOK /\ ServerOK /\ c \in Call /\ GoodCall(c) /\ ~c.answered
      /\ UNCHANGED <<open, activeId, generating, timer>> /\ Resting' = Resting
      /\ calls = {c}
  BY DEF TypeInv, CallInv, GoodCall, ServerHandles, page, Resting, RestBody
<1>1. CASE CreateRow(c)
  <2>1. PICK a : a = [c EXCEPT !.id = Len(owner) + 1]
    OBVIOUS
  <2>2. a \in Call /\ a.kind = "create"
    <3>1. Len(owner) + 1 \in 0 .. MaxIds
      BY <1>0, <1>1, IdsRange, BoundsAssumption DEF CreateRow
    <3>2. QED
      BY <1>0, <1>1, <2>1, <3>1 DEF Call, CreateRow
  <2>3. \A d, e \in calls' : d = e /\ d.kind = "create"
    BY ZenonT(60), <1>1, <2>1, <2>2, AnswerRest DEF CreateRow
  <2>4. Resting => activeId \in Ids /\ cloud[activeId] = open
    BY <1>0, <1>1 DEF RestBody, Resting, PageOK, CreateRow
  <2>5. Resting => cloud'[activeId] = open
    BY <1>1, <2>4, CreateFacts
  <2>6. QED
    BY <1>0, <2>3, <2>5 DEF RestBody
<1>2. CASE UpdateRow(c) /\ c.kind = "update"
  <2>1. calls' = {} /\ c.id \in Ids /\ cloud' = [cloud EXCEPT ![c.id] = c.doc]
    BY <1>0, <1>2, AnswerRest DEF UpdateRow, GoodCall
  <2>2. Resting => cloud'[activeId] = open
    BY <1>0, <1>2, <2>1 DEF RestBody, ServerOK
  <2>3. QED
    BY <1>0, <2>1, <2>2 DEF RestBody
<1>3. CASE UpdateRow(c) /\ c.kind = "put"
  <2>1. c.id \in Ids /\ cloud[c.id] = c.doc /\ cloud' = cloud
    BY <1>0, <1>3 DEF UpdateRow, GoodCall, RestBody, ServerOK
  <2>2. Resting => cloud[activeId] = open
    BY <1>0, <1>3 DEF RestBody
  <2>3. \A d, e \in calls' : d = e /\ d.kind = "put" /\ d.id = c.id /\ d.doc = c.doc
    BY ZenonT(60), <1>0, <1>3, AnswerRest DEF UpdateRow
  <2>4. QED
    BY <1>0, <2>1, <2>2, <2>3 DEF RestBody
<1>4. CASE GetRow(c)
  <2>1. PICK a : a = [c EXCEPT !.doc = cloud[c.id]]
    OBVIOUS
  <2>2. c.id \in Ids /\ cloud[c.id] \in Doc /\ cloud' = cloud
    BY <1>0, <1>4 DEF GetRow, ServerOK, GoodCall, server
  <2>3. a \in Call /\ a.kind = "get" /\ a.id = c.id /\ a.doc = cloud[c.id]
    BY <1>0, <1>4, <2>1, <2>2 DEF Call, GetRow
  <2>4. \A d, e \in calls' : d = e /\ d.kind = "get" /\ d.id = c.id /\ d.doc = cloud[c.id]
    BY ZenonT(60), <1>4, <2>1, <2>3, AnswerRest DEF GetRow
  <2>5. Resting => cloud[activeId] = open
    BY <1>0, <1>4 DEF RestBody, GetRow
  <2>6. QED
    BY <1>0, <2>2, <2>4, <2>5 DEF RestBody
<1>5. CASE DeleteRow(c)
  <2>1. c.id \in Ids /\ c.kind = "delete" /\ cloud' = [cloud EXCEPT ![c.id] = Absent]
    BY <1>0, <1>5 DEF DeleteRow, GoodCall
  <2>2. Resting => cloud[activeId] = open
    BY <1>0, <2>1 DEF RestBody
  <2>3. CASE c.then = {}
    <3>1. calls' = {}
      BY <1>0, <1>5, <2>3, AnswerRest DEF DeleteRow
    <3>2. Resting => cloud'[activeId] = open
      BY <1>0, <2>1, <2>2, <2>3 DEF RestBody, ServerOK, PageOK, Resting
    <3>3. QED
      BY <1>0, <3>1, <3>2 DEF RestBody
  <2>4. CASE c.then # {}
    <3>1. /\ calls' # {}
          /\ \A d, e \in calls' : d = e /\ d.kind = "delete" /\ d.then # {} /\ d.answered
      BY ZenonT(60), <1>0, <1>5, <2>1, <2>4, AnswerRest DEF DeleteRow
    <3>2. QED
      BY <1>0, <3>1 DEF RestBody
  <2>5. QED
    BY <2>3, <2>4
<1>6. QED
  BY <1>2, <1>3, <1>1, <1>4, <1>5 DEF ServerHandles, UpdateRow

LEMMA ContinueRest ==
    ASSUME TypeInv, RestBody, NEW c \in calls, PageContinues(c)
    PROVE  RestBody'
<1>0. /\ calls = {c} /\ c.answered /\ cloud' = cloud
  BY DEF RestBody, PageContinues, CreateReturns, GetReturns, PutReturns, DeleteReturns,
         Returned, server
<1>1. CASE CreateReturns(c)
  <2>1. calls' = {} /\ timer' = PersistEffect(FALSE, open', activeId', generating')
    BY <1>0, <1>1 DEF CreateReturns, Forget
  <2>2. QED
    BY <2>1, EffectRest DEF RestBody
<1>2. CASE GetReturns(c)
  <2>1. cloud[c.id] = c.doc /\ c.kind = "get"
    BY <1>0, <1>2 DEF GetReturns, Returned, RestBody
  <2>2. \A d, e \in calls' : d = e /\ d.kind = "put" /\ d.id = c.id /\ d.doc = c.doc
    <3>1. CASE "rename" \in c.then
      <4>1. PICK d : d = NewCall("put", c.id, c.doc, {"title"})
        OBVIOUS
      <4>2. calls' = {d}
        BY <1>0, <1>2, <3>1, <4>1 DEF GetReturns
      <4>3. d.kind = "put" /\ d.id = c.id /\ d.doc = c.doc
        BY <4>1 DEF NewCall
      <4>4. QED
        BY <4>2, <4>3
    <3>2. CASE "rename" \notin c.then
      BY <1>0, <1>2, <3>2 DEF GetReturns, Forget
    <3>3. QED
      BY <3>1, <3>2
  <2>3. Resting' => cloud[activeId'] = open'
    <3>1. CASE "select" \in c.then
      BY <1>2, <2>1, <3>1 DEF GetReturns, ReplaceBy
    <3>2. CASE "select" \notin c.then
      BY <1>0, <1>2, <2>1, <3>2 DEF GetReturns, page, RestBody, Resting
    <3>3. QED
      BY <3>1, <3>2
  <2>4. QED
    BY <1>0, <2>1, <2>2, <2>3 DEF RestBody
<1>3. CASE PutReturns(c)
  <2>1. calls' = {} /\ c.kind = "put" /\ UNCHANGED <<open, activeId, generating>>
        /\ \/ timer' = timer
           \/ timer' = PersistEffect(FALSE, open', activeId', generating')
    BY <1>0, <1>3 DEF PutReturns, Forget, Returned
  <2>2. Resting => cloud[activeId] = open
    BY <1>0, <2>1 DEF RestBody
  <2>3. Resting' => cloud[activeId'] = open'
    BY <2>1, <2>2, EffectRest DEF Resting
  <2>4. QED
    BY <1>0, <2>1, <2>3 DEF RestBody
<1>4. CASE DeleteReturns(c)
  <2>1. calls' = {} /\ activeId' = NoId
    BY <1>0, <1>4 DEF DeleteReturns, Forget, NewPage, ReplaceBy
  <2>2. QED
    BY <2>1 DEF RestBody, Resting
<1>5. QED
  BY <1>1, <1>2, <1>3, <1>4 DEF PageContinues

LEMMA RestNext ==
    ASSUME TypeInv, TimerIsCurrent, RestInv, [Next]_vars
    PROVE  RestInv'
<1> SUFFICES ASSUME ~raced', ~troubled' PROVE RestBody'
  BY DEF RestInv
<1>1. RestBody
  BY RacedStays, TroubledStays DEF RestInv
<1>2. CASE UNCHANGED vars
  BY <1>1, <1>2 DEF vars, RestBody, Resting
<1>3. ASSUME NEW c \in calls, ServerRefuses(c) \/ AnswerLost(c)
      PROVE  FALSE
  BY <1>3 DEF ServerRefuses, AnswerLost
<1>4. QED
  BY <1>1, <1>2, <1>3, UserRest, FireRest, ServerRest, ContinueRest DEF Next, CallProceeds

\* With no timer, no call in flight and no reply being written the account
\* holds what is on screen, as long as calls did not overlap or fail: no
\* change made while a save, a create, a select or a rename is in flight is
\* forgotten (index.tsx, the persist effect and its dependencies).
THEOREM AccountAtRest == Spec => []SavedAtRest
<1>1. Init => TypeInv /\ TimerIsCurrent /\ RestInv
  <2>1. Init => TimerIsCurrent /\ RestInv
    BY DEF Init, TimerIsCurrent, NoTimer, RestInv, RestBody, Resting
  <2>2. QED
    BY <2>1, InitType
<1>2. TypeInv /\ TimerIsCurrent /\ RestInv /\ [Next]_vars
         => (TypeInv /\ TimerIsCurrent /\ RestInv)'
  BY NextType, TimerNext, RestNext
<1>3. RestInv => SavedAtRest
  BY DEF RestInv, RestBody, SavedAtRest, Resting
<1>4. QED
  BY <1>1, <1>2, <1>3, PTL DEF Spec

=============================================================================
