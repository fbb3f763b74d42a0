--------------------------- MODULE ConversationSync ---------------------------
(***************************************************************************)
(* Saving the conversation of the chat playground to the account           *)
(* (web/default/src/features/playground/index.tsx, storage.ts and          *)
(* conversation-rail.tsx, against controller/conversation.go).             *)
(*                                                                         *)
(* The page keeps the open conversation in React state, a draft of it in   *)
(* localStorage, and saves it 800 ms after the last change: the first save *)
(* creates the conversation and learns its id, later ones overwrite it.    *)
(* Every call is three steps: the page sends it, the server handles it,    *)
(* the page continues; the user acts between them.                         *)
(*                                                                         *)
(* A message list is a document: the conversation it belongs to (history;  *)
(* the code has no such identity) and a version number, 0 for the empty    *)
(* list.  The replies in it and their statuses are in ChatGeneration, with *)
(* what of them may be saved.  Here isGenerating goes on with Send and off *)
(* with EndGeneration, and a request may change the list under either: a   *)
(* plain answer arrives after Stop as well.  One tab; the titles and the   *)
(* settings saved with the messages are left out.                          *)
(***************************************************************************)
EXTENDS Naturals, Sequences, FiniteSets

CONSTANTS
    MaxChats,     \* bound on the conversations begun
    MaxIds,       \* bound on the conversations created on the server
    MaxVersion,   \* bound on the changes of one conversation
    MaxCalls      \* bound on the calls in flight

ASSUME BoundsAssumption ==
    {MaxChats, MaxIds, MaxVersion, MaxCalls} \subseteq Nat \ {0}

VARIABLES
    open,         \* messages: the document on screen
    activeId,     \* activeConversationId, NoId when not saved yet
    generating,   \* isGenerating
    saved,        \* localStorage: document and conversation id
    timer,        \* persistTimerRef with what its closure captured
    calls,        \* calls of this page, and of the page before a reload
    cloud,        \* the conversations of the account, by id
    owner,        \* history: the chat each id was created for
    chats,        \* history: number of chats begun
    unsent,       \* history: open holds changes that no call carried
    raced,        \* history: the open document got the id of another chat
    troubled      \* history: calls overlapped, or one of them failed

page == <<open, activeId, generating, saved, timer>>
server == <<cloud, owner>>
history == <<chats, unsent, raced, troubled>>
vars == <<open, activeId, generating, saved, timer, calls, cloud, owner,
          chats, unsent, raced, troubled>>

NoId == 0

Doc == [chat : 1 .. MaxChats, n : 0 .. MaxVersion]
EmptyDoc(c) == [chat |-> c, n |-> 0]

Absent == EmptyDoc(0)   \* no row
NoTimer == [armed |-> FALSE, doc |-> Absent, id |-> NoId]
Armed(doc, id) == [armed |-> TRUE, doc |-> doc, id |-> id]

Ids == DOMAIN owner

\* then: the continuations of the page that the answer changes something in.
\* A save and the deletion of another conversation have none, nor has a call
\* that a reload left behind.
Call ==
    [kind : {"create", "update", "get", "put", "delete"}, id : 0 .. MaxIds,
     doc : Doc, then : SUBSET {"adopt", "select", "rename", "title", "new"},
     answered : BOOLEAN]

-----------------------------------------------------------------------------
(* The persist effect.  It runs after every change of the messages, the id,*)
(* the settings or isGenerating; its clean-up first drops the timer of the *)
(* run before.  skip is skipNextPersistRef, which the handlers that load   *)
(* another list set and this run resets.                                   *)

\* Mutated forms: "or" between the last two conditions; isGenerating is not
\* looked at.
PersistEffectWithoutId(skip, doc, id, gen) ==
    IF skip \/ gen \/ doc.n = 0 \/ id = NoId THEN NoTimer ELSE Armed(doc, id)
PersistEffectWhileGenerating(skip, doc, id, gen) ==
    IF skip \/ (doc.n = 0 /\ id = NoId) THEN NoTimer ELSE Armed(doc, id)
PersistEffect(skip, doc, id, gen) ==
    IF skip \/ gen \/ (doc.n = 0 /\ id = NoId)
    THEN NoTimer
    ELSE Armed(doc, id)

\* saveMessages and saveActiveConversationId: localStorage may refuse either
\* (quota), which is only logged or not even that; the empty list and the
\* removal of the id always fit.
SaveMessages(doc, id) ==
    saved' \in [doc : {doc} \cup (IF doc.n = 0 THEN {} ELSE {saved.doc}),
               id : {id} \cup (IF id = NoId THEN {} ELSE {saved.id})]

Issue(c) ==
    /\ Cardinality(calls) < MaxCalls
    /\ calls' = calls \cup {c}
    /\ troubled' = (troubled \/ calls # {})

NewCall(kind, id, doc, then) ==
    [kind |-> kind, id |-> id, doc |-> doc, then |-> then,
     answered |-> FALSE]

\* updateMessages with a changed list of the same conversation.
ChangeTo(doc, gen) ==
    /\ open' = doc
    /\ generating' = gen
    /\ SaveMessages(doc, saved.id)
    /\ timer' = PersistEffect(FALSE, doc, activeId, gen)
    /\ unsent' = TRUE
    /\ UNCHANGED <<activeId, calls, server, chats, raced, troubled>>

\* The list, its id and the draft are replaced; the effect is skipped.
ReplaceBy(doc, id) ==
    /\ open' = doc
    /\ activeId' = id
    /\ SaveMessages(doc, id)
    /\ timer' = PersistEffect(TRUE, doc, id, generating)
    /\ unsent' = FALSE
    /\ UNCHANGED generating

-----------------------------------------------------------------------------
(* The user *)

Send ==
    /\ ~generating
    /\ open.n < MaxVersion
    /\ ChangeTo([open EXCEPT !.n = @ + 1], TRUE)

\* The last stream or counted request ends, or the user stops: with a change
\* of the list (an answer, an error, a reply cut short) or without one (an
\* answer without choices, a list that was replaced meanwhile).
EndGeneration ==
    /\ generating
    /\ \/ /\ open.n \in 1 .. MaxVersion - 1
          /\ ChangeTo([open EXCEPT !.n = @ + 1], FALSE)
       \/ /\ generating' = FALSE
          /\ timer' = PersistEffect(FALSE, open, activeId, FALSE)
          /\ UNCHANGED <<open, activeId, saved, calls, server, history>>

\* An edit, a deletion, another version, or what a request writes into a
\* reply: any other change of the list.  An editor that is open saves during
\* a generation too; deleting waits for it.
Edit(n) ==
    /\ open.n > 0
    /\ n = 0 => ~generating
    /\ n \in {0, open.n + 1} /\ n <= MaxVersion
    /\ ChangeTo([open EXCEPT !.n = n], generating)

\* A change of title or settings runs the effect and nothing else.
ChangeSettings ==
    /\ timer' = PersistEffect(FALSE, open, activeId, generating)
    /\ UNCHANGED <<open, activeId, generating, saved, calls, server, history>>

\* What handleNewConversation does to the page, from the rail's button or
\* after the open conversation was deleted.
\* The mutated form leaves the id of the conversation before.
NewPageKeepingId ==
    /\ chats' = chats + 1
    /\ ReplaceBy(EmptyDoc(chats + 1), activeId)
NewPage ==
    /\ chats' = chats + 1
    /\ ReplaceBy(EmptyDoc(chats + 1), NoId)

\* The bound on chats, with those that the deletions in flight will begin.
MayBegin == chats + Cardinality({c \in calls : "new" \in c.then}) < MaxChats

NewConversation ==
    /\ ~generating
    /\ MayBegin
    /\ NewPage
    /\ UNCHANGED <<calls, server, raced, troubled>>

\* api.get joins a GET of the same URL that is in flight.
GetConversation(id, then) ==
    LET joined == {c \in calls : c.kind = "get" /\ c.id = id /\ c.then # {}}
    IN  IF joined = {}
        THEN Issue(NewCall("get", id, EmptyDoc(owner[id]), {then}))
        ELSE /\ calls' = (calls \ joined) \cup
                           {[c EXCEPT !.then = @ \cup {then}] : c \in joined}
             /\ troubled' = TRUE

\* The rail may still list a conversation that was deleted.
SelectConversation(id) ==
    /\ ~generating
    /\ GetConversation(id, "select")
    /\ UNCHANGED <<page, server, chats, unsent, raced>>

RenameConversation(id) ==
    /\ GetConversation(id, "rename")
    /\ UNCHANGED <<page, server, chats, unsent, raced>>

\* Not disabled during a generation; whether the open conversation is the
\* one deleted is decided when the user confirms.
DeleteConversation(id) ==
    /\ activeId = id => MayBegin
    /\ Issue(NewCall("delete", id, EmptyDoc(owner[id]),
                     IF activeId = id THEN {"new"} ELSE {}))
    /\ UNCHANGED <<page, server, chats, unsent, raced>>

\* What sanitizeMessagesOnLoad makes of a draft: the same list, or a changed
\* one when some of its replies were not there yet.
Sanitized(doc) ==
    {doc} \cup {[doc EXCEPT !.n = n] : n \in {doc.n + 1} \cap 2 .. MaxVersion}

\* The draft is loaded and saved again, and the effect runs on mount.  The
\* server still handles the writes that were sent.
Reload ==
    /\ \E doc \in Sanitized(saved.doc) :
         /\ open' = doc
         /\ SaveMessages(doc, saved.id)
         /\ timer' = PersistEffect(FALSE, doc, saved.id, FALSE)
    /\ activeId' = saved.id
    /\ generating' = FALSE
    /\ calls' = {[c EXCEPT !.then = {}] :
                    c \in {d \in calls : ~d.answered /\ d.kind # "get"}}
    /\ unsent' = TRUE
    /\ raced' = (raced \/ (saved.id # NoId /\ owner[saved.id] # saved.doc.chat))
    /\ troubled' = (troubled \/ calls # {})
    /\ UNCHANGED <<server, chats>>

-----------------------------------------------------------------------------
(* The timer *)

\* The mutated form does not ask whether there is an id.
SaveCallUpdates(doc, id) == NewCall("update", id, doc, {})
SaveCall(doc, id) ==
    IF id = NoId
    THEN NewCall("create", NoId, doc, {"adopt"})
    ELSE NewCall("update", id, doc, {})

FireTimer ==
    /\ timer.armed
    /\ timer' = NoTimer
    /\ Issue(SaveCall(timer.doc, timer.id))
    /\ unsent' = FALSE
    /\ UNCHANGED <<open, activeId, generating, saved, server, chats, raced>>

-----------------------------------------------------------------------------
(* The server *)

\* The answer of a call without continuations is seen by nobody.
Answer(c, a) ==
    calls' = (calls \ {c}) \cup
               (IF c.then = {} THEN {} ELSE {[a EXCEPT !.answered = TRUE]})

\* controller/conversation.go: one row read or written.
CreateRow(c) ==
    /\ c.kind = "create"
    /\ Len(owner) < MaxIds
    /\ cloud' = Append(cloud, c.doc)
    /\ owner' = Append(owner, c.doc.chat)
    /\ Answer(c, [c EXCEPT !.id = Len(owner) + 1])

\* An update reads its row and then writes it; a row that was deleted between
\* the two is not written, and as nobody looks at the answer of an update
\* that is the update of a missing row.
UpdateRow(c) ==
    /\ c.kind \in {"update", "put"}
    /\ cloud[c.id] # Absent
    /\ cloud' = [cloud EXCEPT ![c.id] = c.doc]
    /\ Answer(c, c)
    /\ UNCHANGED owner

GetRow(c) ==
    /\ c.kind = "get"
    /\ cloud[c.id] # Absent
    /\ Answer(c, [c EXCEPT !.doc = cloud[c.id]])
    /\ UNCHANGED server

DeleteRow(c) ==
    /\ c.kind = "delete"
    /\ cloud' = [cloud EXCEPT ![c.id] = Absent]
    /\ Answer(c, c)
    /\ UNCHANGED owner

ServerHandles(c) ==
    /\ ~c.answered
    /\ CreateRow(c) \/ UpdateRow(c) \/ GetRow(c) \/ DeleteRow(c)
    /\ UNCHANGED <<page, history>>

\* success: false (a missing row, a limit, the database).  The page looks at
\* it after a create and a get only; a rename and a deletion go on.
ServerRefuses(c) ==
    /\ ~c.answered
    /\ IF c.kind \in {"put", "delete"} THEN Answer(c, c) ELSE calls' = calls \ {c}
    /\ troubled' = TRUE
    /\ UNCHANGED <<page, server, chats, unsent, raced>>

\* No answer arrives, before or after the server handled the call: every
\* continuation ends in a catch that changes nothing.
AnswerLost(c) ==
    /\ calls' = calls \ {c}
    /\ troubled' = TRUE
    /\ UNCHANGED <<page, server, chats, unsent, raced>>

-----------------------------------------------------------------------------
(* The page continues *)

Returned(c, kind) == c.answered /\ c.kind = kind
Forget(c) == calls' = calls \ {c}

\* The mutated form does not run the effect for the new id: what changed
\* meanwhile waits for the next change.
CreateReturnsUnseen(c) ==
    /\ Returned(c, "create")
    /\ Forget(c)
    /\ activeId' = c.id
    /\ saved' \in {saved, [saved EXCEPT !.id = c.id]}
    /\ timer' = NoTimer
    /\ raced' = (raced \/ c.doc.chat # open.chat)
    /\ UNCHANGED <<open, generating, server, chats, unsent, troubled>>
\* The created id becomes the id of whatever is open.
CreateReturns(c) ==
    /\ Returned(c, "create")
    /\ Forget(c)
    /\ activeId' = c.id
    /\ saved' \in {saved, [saved EXCEPT !.id = c.id]}
    /\ timer' = PersistEffect(FALSE, open, c.id, generating)
    /\ raced' = (raced \/ c.doc.chat # open.chat)
    /\ UNCHANGED <<open, generating, server, chats, unsent, troubled>>

\* A select shows what was read; a rename writes it back under a new title.
GetReturns(c) ==
    /\ Returned(c, "get")
    /\ IF "rename" \in c.then
       THEN calls' = (calls \ {c}) \cup {NewCall("put", c.id, c.doc, {"title"})}
       ELSE Forget(c)
    /\ IF "select" \in c.then
       THEN ReplaceBy(c.doc, c.id)
       ELSE UNCHANGED <<page, unsent>>
    /\ UNCHANGED <<server, chats, raced, troubled>>

\* onRenamed: the new title of the open conversation runs the effect.
PutReturns(c) ==
    /\ Returned(c, "put")
    /\ Forget(c)
    /\ timer' = IF c.id = activeId
                THEN PersistEffect(FALSE, open, activeId, generating)
                ELSE timer
    /\ UNCHANGED <<open, activeId, generating, saved, server, history>>

\* The open conversation was deleted.
DeleteReturns(c) ==
    /\ Returned(c, "delete")
    /\ Forget(c)
    /\ NewPage
    /\ UNCHANGED <<server, raced, troubled>>

PageContinues(c) ==
    \/ CreateReturns(c)
    \/ GetReturns(c)
    \/ PutReturns(c)
    \/ DeleteReturns(c)

-----------------------------------------------------------------------------
Init ==
    /\ open = EmptyDoc(1)
    /\ activeId = NoId
    /\ generating = FALSE
    /\ saved = [doc |-> EmptyDoc(1), id |-> NoId]
    /\ timer = NoTimer
    /\ calls = {}
    /\ cloud = <<>> /\ owner = <<>>
    /\ chats = 1
    /\ unsent = FALSE /\ raced = FALSE /\ troubled = FALSE

UserAction ==
    \/ Send
    \/ \E n \in 0 .. MaxVersion : Edit(n)
    \/ ChangeSettings
    \/ NewConversation
    \/ \E id \in Ids : \/ SelectConversation(id)
                       \/ RenameConversation(id)
                       \/ DeleteConversation(id)
    \/ Reload

CallProceeds(c) == ServerHandles(c) \/ ServerRefuses(c) \/ PageContinues(c)

Next ==
    \/ UserAction
    \/ EndGeneration
    \/ FireTimer
    \/ \E c \in calls : CallProceeds(c) \/ AnswerLost(c)

\* The timer fires: the user does not change something every 800 ms for ever,
\* and what disables it while it is armed is the bound MaxCalls alone, hence
\* strong fairness.  Calls end, in failure if the server is down.
Fairness ==
    /\ SF_vars(FireTimer)
    /\ WF_vars(\E c \in calls : CallProceeds(c))

Spec == Init /\ [][Next]_vars /\ Fairness

-----------------------------------------------------------------------------
(* Properties *)

\* Every variable holds what the page, the browser and the account keep;
\* calls name conversations that were created.
TypeOK ==
    /\ open \in Doc
    /\ activeId \in {NoId} \cup Ids
    /\ generating \in BOOLEAN
    /\ saved \in [doc : Doc, id : {NoId} \cup Ids]
    /\ \/ timer = NoTimer
       \/ timer \in [armed : {TRUE}, doc : Doc, id : {NoId} \cup Ids]
    /\ calls \subseteq Call
    /\ \A c \in calls : c.kind # "create" => c.id \in Ids
    /\ cloud \in [Ids -> Doc \cup {Absent}]
    /\ owner \in Seq(1 .. MaxChats) /\ Len(owner) <= MaxIds
    /\ chats \in 1 .. MaxChats
    /\ {unsent, raced, troubled} \subseteq BOOLEAN

\* A scheduled save is of the list on screen, to the id it has now, and none
\* is scheduled while isGenerating is on: no select, new chat, created
\* id or generation leaves an older timer behind (index.tsx, the clean-up and
\* the dependencies of the persist effect).
TimerIsCurrent ==
    timer.armed =>
        timer = Armed(open, activeId) /\ ~generating

\* The messages of one conversation never overwrite those of another, and the
\* open list carries the id it was saved under, unless the page was switched
\* while the call creating its conversation was in flight or was reloaded
\* after localStorage had refused the list or the id of the one selected.
NoCrossTalk ==
    raced \/ /\ activeId # NoId => owner[activeId] = open.chat
             /\ \A id \in Ids :
                  cloud[id] # Absent => cloud[id].chat = owner[id]

\* At rest the account holds what is on screen, also for changes made while
\* the conversation was being created: with no timer, no call in flight and
\* isGenerating off, as long as calls did not overlap or fail.
SavedAtRest ==
    (/\ ~raced /\ ~troubled /\ ~generating
     /\ ~timer.armed /\ calls = {} /\ activeId # NoId)
        => cloud[activeId] = open

\* The open list has something to save that no call carried yet.
Pending == unsent /\ ~generating /\ (open.n > 0 \/ activeId # NoId)

\* A list with changes does not wait for its save for ever: it is handed to
\* one, or the user writes on or leaves it, however often calls fail, ids
\* arrive and timers are dropped (the dependencies of the persist effect).
ChangesAreSent == Pending ~> ~Pending

=============================================================================
