---------------------------- MODULE ChatGeneration ----------------------------
(***************************************************************************)
(* Generation of replies in the chat playground of the web console         *)
(* (web/default/src/features/playground): the message list, the requests   *)
(* that fill it and the user's operations on it.                           *)
(*                                                                         *)
(*   use-stream-request.ts   sources (sourcesRef), completed (completedRef)*)
(*   use-chat-handler.ts     pendingCount, the callbacks that write replies*)
(*   message-utils.ts        the transformations of one message            *)
(*   index.tsx               the handlers of the page                      *)
(*   storage.ts              what a reload of the page restores            *)
(*                                                                         *)
(* Only assistant messages are kept; the user and tool messages between    *)
(* them are the boundaries of a turn.  The text of a version (content,     *)
(* reasoning, tool calls) is the set of the requests that wrote into it,   *)
(* with PageText for what the page wrote itself (an error text, an edit).  *)
(* A request is a fetch of the browser (sse.js, external, when streamed;   *)
(* axios when plain): a closed stream delivers nothing more, a plain       *)
(* request cannot be closed.                                               *)
(*                                                                         *)
(* One conversation of the account is followed: its row, the saves of the  *)
(* list on screen into it, and a select of it, whose answer replaces that  *)
(* list whatever runs by then.  ConversationSync has the calls, the ids,   *)
(* the rename and the other conversations.                                 *)
(***************************************************************************)
EXTENDS Naturals, Sequences, FiniteSets

CONSTANTS
    MaxKeys,     \* bound on the assistant messages created
    MaxReq,      \* bound on the requests of one behaviour
    MaxTargets   \* bound on the models compared side by side

ASSUME MaxKeysAssumption == MaxKeys \in Nat
ASSUME MaxReqAssumption == MaxReq \in Nat
ASSUME MaxTargetsAssumption == MaxTargets \in Nat \ {0}

\* The key of an assistant message (nanoid: never reused), in the order in
\* which the messages are created.
Keys == 1 .. MaxKeys
NoReq == 0
PageText == 0

VARIABLES
    messages,      \* the list on screen, and its copy in localStorage
    reqs,          \* every request made, in order
    sources,       \* sourcesRef: the stream registered for each key
    completed,     \* completedRef: keys whose last stream saw [DONE]
    pendingCount,  \* the counter of plain requests
    row,           \* the list as the account last got it, empty before
    fetched,       \* the list in the answer of a select, empty when none is due
    disturbed,     \* history: keys of which the user changed the version, or
                   \* an older plain answer arrived, while a request ran
    restored       \* history: keys that a select brought back over their own
                   \* stream, or as waiting for a request that is over

net == <<reqs, sources, completed, pendingCount>>
account == <<row, fetched, restored>>
vars == <<messages, reqs, sources, completed, pendingCount, row, fetched,
          disturbed, restored>>

Waiting == {"loading", "streaming"}
Settled == {"complete", "error", "truncated"}

Message ==
    [key : Keys, turn : Nat, status : Waiting \cup Settled,
     versions : Seq(SUBSET (0 .. MaxReq)) \ {<<>>}, active : Nat]

Request ==
    [key : Keys, stream : BOOLEAN,
     state : {"open",    \* running
              "cut",     \* the stream ended without [DONE]; still registered
              "empty",   \* answered without a choice
              "over"}]   \* answered, failed, closed or left by a reload

-----------------------------------------------------------------------------
(* Helpers on the list *)

KeysOf(list) == {list[i].key : i \in DOMAIN list}
At(list, k) == CHOOSE i \in DOMAIN list : list[i].key = k
LastTurn(list) == IF list = <<>> THEN 0 ELSE list[Len(list)].turn

\* getActiveVersionIndex: an index out of range means the last version.
ActiveVersion(m) ==
    IF m.active \in DOMAIN m.versions THEN m.active ELSE Len(m.versions)

Text(m) == m.versions[ActiveVersion(m)]
WithText(m, text) == [m EXCEPT !.versions[ActiveVersion(m)] = text]

LoadingMessage(k, t) ==
    [key |-> k, turn |-> t, status |-> "loading", versions |-> <<{}>>,
     active |-> 1]

\* The mutated form keeps the version that was active.
PushVersionKeepingActive(m) ==
    [m EXCEPT !.versions = Append(@, {}), !.status = "loading"]
PushAssistantVersion(m) ==
    [m EXCEPT !.versions = Append(@, {}), !.active = Len(m.versions) + 1,
              !.status = "loading"]

SetError(m) == [WithText(m, {PageText}) EXCEPT !.status = "error"]

\* finalizeMessage with truncated: true, as Stop applies it; the mutated form
\* overlooks the messages that have no text yet.
TruncateStreamingOnly(m) ==
    IF m.status = "streaming" THEN [m EXCEPT !.status = "truncated"] ELSE m
Truncate(m) ==
    IF m.status \in Waiting THEN [m EXCEPT !.status = "truncated"] ELSE m

SanitizeOnLoad(m) ==
    IF m.status \in Waiting /\ Text(m) = {}
    THEN SetError(m)
    ELSE Truncate(m)

-----------------------------------------------------------------------------
(* updateMessages: the new list goes to the screen and to localStorage     *)
(* (ConversationSync has the writes that localStorage refuses).            *)

UpdateMessages(list) == messages' = list

Shown(k) == messages[At(messages, k)]

\* updateMessageByKey: nothing happens to a list without the key.
UpdateMessageByKey(k, new) ==
    UpdateMessages([i \in DOMAIN messages |->
                      IF messages[i].key = k THEN new ELSE messages[i]])

IsGenerating == (\E k \in Keys : sources[k] # NoReq) \/ pendingCount > 0

RequestsOf(k) == {r \in DOMAIN reqs : reqs[r].key = k}
LastRequest(k) == CHOOSE r \in RequestsOf(k) : \A q \in RequestsOf(k) : q <= r
KeysUsed == Cardinality({k \in Keys : RequestsOf(k) # {}})
OpenPlain == {r \in DOMAIN reqs : ~reqs[r].stream /\ reqs[r].state = "open"}

-----------------------------------------------------------------------------
(* sendChat: one request for every target key, all streamed or all plain.  *)
(* A stream replaces the one registered for its key and forgets that it    *)
(* completed before.                                                       *)

SendChat(ks, stream) ==
    LET first == Len(reqs)
        n == Len(ks)
    IN  /\ first + n <= MaxReq
        /\ reqs' =
             [r \in 1 .. first + n |->
                IF r > first
                THEN [key |-> ks[r - first], stream |-> stream,
                      state |-> "open"]
                ELSE IF stream /\ \E i \in 1 .. n : sources[ks[i]] = r
                THEN [reqs[r] EXCEPT !.state = "over"]
                ELSE reqs[r]]
        /\ IF stream
           THEN /\ sources' = [k \in Keys |->
                                 IF \E i \in 1 .. n : ks[i] = k
                                 THEN first + CHOOSE i \in 1 .. n : ks[i] = k
                                 ELSE sources[k]]
                /\ completed' = completed \ {ks[i] : i \in 1 .. n}
                /\ UNCHANGED pendingCount
           ELSE /\ pendingCount' = pendingCount + n
                /\ UNCHANGED <<sources, completed>>

\* The fresh keys of a new turn, one for each model compared.
Targets ==
    {[i \in 1 .. n |-> KeysUsed + i] : n \in 1 .. MaxTargets}
        \cap Seq(Keys)
NewTurn(ks, t) == [i \in 1 .. Len(ks) |-> LoadingMessage(ks[i], t)]

SendMessage(ks, stream) ==
    /\ ~IsGenerating
    /\ UpdateMessages(messages \o NewTurn(ks, LastTurn(messages) + 1))
    /\ SendChat(ks, stream)
    /\ UNCHANGED <<account, disturbed>>

\* The results of the tool calls of a reply of the latest turn, and one more
\* reply; any reply may hold tool calls.
SubmitToolResults(k, ks, stream) ==
    /\ ~IsGenerating
    /\ k \in KeysOf(messages)
    /\ Text(Shown(k)) \ {PageText} # {}
    /\ Shown(k).turn = LastTurn(messages)
    /\ Len(ks) = 1
    /\ UpdateMessages(messages \o NewTurn(ks, LastTurn(messages) + 1))
    /\ SendChat(ks, stream)
    /\ UNCHANGED <<account, disturbed>>

RegenerateMessage(k, stream) ==
    /\ ~IsGenerating
    /\ k \in KeysOf(messages)
    /\ Shown(k).status \notin Waiting
    /\ UpdateMessageByKey(k, PushAssistantVersion(Shown(k)))
    /\ SendChat(<<k>>, stream)
    /\ UNCHANGED <<account, disturbed>>

\* handleActiveVersionChange: the arrows are never disabled.
ChangeVersion(k, i) ==
    /\ k \in KeysOf(messages)
    /\ Len(Shown(k).versions) > 1 /\ i \in DOMAIN Shown(k).versions
    /\ UpdateMessageByKey(k, [Shown(k) EXCEPT !.active = i])
    /\ disturbed' = IF \E r \in RequestsOf(k) : reqs[r].state = "open"
                    THEN disturbed \cup {k} ELSE disturbed
    /\ UNCHANGED <<net, account>>

DeleteMessage(k) ==
    /\ ~IsGenerating
    /\ k \in KeysOf(messages)
    /\ LET i == At(messages, k)
       IN  UpdateMessages(SubSeq(messages, 1, i - 1)
                            \o SubSeq(messages, i + 1, Len(messages)))
    /\ UNCHANGED <<net, account, disturbed>>

\* applyEdit without submit, of an assistant message.  Opening the editor is
\* guarded by isGenerating, but an editor that is open stays open when a
\* generation starts and its buttons stay enabled: saving has no guard.  An
\* index out of range, left by a plain answer, matches no version here and
\* nothing changes.
SaveEdit(k) ==
    /\ k \in KeysOf(messages)
    /\ Shown(k).active \in DOMAIN Shown(k).versions
    /\ UpdateMessageByKey(k, WithText(Shown(k), {PageText}))
    /\ UNCHANGED <<net, account, disturbed>>

\* applyEdit with submit, of the user message that opens the turn of reply
\* i, the first one of it: what follows is dropped and asked again.
SaveEditAndSubmit(i, ks, stream) ==
    /\ i \in DOMAIN messages
    /\ \A j \in 1 .. i - 1 : messages[j].turn # messages[i].turn
    /\ UpdateMessages(SubSeq(messages, 1, i - 1)
                        \o NewTurn(ks, messages[i].turn))
    /\ SendChat(ks, stream)
    /\ UNCHANGED <<account, disturbed>>

\* clearMessages: New chat, or the open conversation deleted in the rail,
\* which is possible during a generation.
ClearMessages ==
    /\ messages # <<>>
    /\ UpdateMessages(<<>>)
    /\ UNCHANGED <<net, account, disturbed>>

-----------------------------------------------------------------------------
(* Streamed requests *)

Streaming(r) ==
    r \in DOMAIN reqs /\ reqs[r].stream /\ reqs[r].state = "open"

\* The mutated form closes the stream and leaves it registered.
CloseStreamStillRegistered(k) == sources' = sources
CloseStream(k) == sources' = [sources EXCEPT ![k] = NoReq]

\* One message event.  Only onUpdate looks at the status.
StreamChunk(r, kind) ==
    /\ Streaming(r)
    /\ LET m == Shown(reqs[r].key)
           text == Text(m) \cup (IF kind = "refusal" THEN {} ELSE {r})
       IN  UpdateMessageByKey(reqs[r].key,
             IF kind # "tools" /\ m.status = "error"
             THEN m
             ELSE [WithText(m, text) EXCEPT !.status = "streaming"])
    /\ UNCHANGED <<net, account, disturbed>>

\* [DONE]: the stream is closed, then onComplete settles the message unless
\* something else did.
StreamDone(r) ==
    /\ Streaming(r)
    /\ reqs' = [reqs EXCEPT ![r].state = "over"]
    /\ completed' = completed \cup {reqs[r].key}
    /\ CloseStream(reqs[r].key)
    /\ LET m == Shown(reqs[r].key)
       IN  UpdateMessageByKey(reqs[r].key,
             IF m.status \in Settled THEN m
             ELSE [m EXCEPT !.status = "complete"])
    /\ UNCHANGED <<pendingCount, account, disturbed>>

\* An unparsable event, a failed response or a stream that cannot start.
StreamError(r) ==
    /\ Streaming(r)
    /\ reqs' = [reqs EXCEPT ![r].state = "over"]
    /\ IF reqs[r].key \in completed
       THEN UNCHANGED <<messages, sources>>
       ELSE /\ UpdateMessageByKey(reqs[r].key, SetError(Shown(reqs[r].key)))
            /\ CloseStream(reqs[r].key)
    /\ UNCHANGED <<completed, pendingCount, account, disturbed>>

\* The response ends without [DONE]: no listener of the page is called.
StreamCut(r) ==
    /\ Streaming(r)
    /\ reqs' = [reqs EXCEPT ![r].state = "cut"]
    /\ UNCHANGED <<messages, sources, completed, pendingCount, account, disturbed>>

-----------------------------------------------------------------------------
(* Plain requests *)

\* The mutated form is without Math.max.
SettlePendingUnclamped == pendingCount' = pendingCount - 1
SettlePending == pendingCount' = IF pendingCount = 0 THEN 0 ELSE pendingCount - 1

\* Mutated forms: an answer is dropped when nothing counts as pending, or
\* when its message is no longer shown.
PlainEndsIfPending(r, state) ==
    /\ r \in OpenPlain /\ pendingCount > 0
    /\ reqs' = [reqs EXCEPT ![r].state = state]
    /\ SettlePending
    /\ UNCHANGED <<sources, completed>>
PlainEndsIfShown(r, state) ==
    /\ r \in OpenPlain /\ reqs[r].key \in KeysOf(messages)
    /\ reqs' = [reqs EXCEPT ![r].state = state]
    /\ SettlePending
    /\ UNCHANGED <<sources, completed>>
PlainEnds(r, state) ==
    /\ r \in OpenPlain
    /\ reqs' = [reqs EXCEPT ![r].state = state]
    /\ SettlePending
    /\ UNCHANGED <<sources, completed>>

\* The answer replaces the list of versions by the active one, whatever the
\* status of the message.
PlainAnswer(r) ==
    /\ PlainEnds(r, "over")
    /\ UpdateMessageByKey(reqs[r].key,
         [Shown(reqs[r].key) EXCEPT !.versions = <<{r}>>,
                                    !.status = "complete"])
    /\ disturbed' = IF r = LastRequest(reqs[r].key)
                    THEN disturbed ELSE disturbed \cup {reqs[r].key}
    /\ UNCHANGED account

\* An answer without choices: the handler returns.
PlainEmpty(r) ==
    /\ PlainEnds(r, "empty")
    /\ UNCHANGED <<messages, account, disturbed>>

PlainError(r) ==
    /\ PlainEnds(r, "over")
    /\ UpdateMessageByKey(reqs[r].key, SetError(Shown(reqs[r].key)))
    /\ UNCHANGED <<account, disturbed>>

-----------------------------------------------------------------------------
(* Stop, and a reload of the page *)

\* The mutated form clears the map without closing the streams.
CloseSourcesNot(live) == reqs
CloseSources(live) ==
    [r \in DOMAIN reqs |->
       IF reqs[r].state \in {"open", "cut"} /\ live[r]
       THEN [reqs[r] EXCEPT !.state = "over"]
       ELSE reqs[r]]

StopGeneration ==
    /\ IsGenerating
    /\ reqs' = CloseSources([r \in DOMAIN reqs |-> reqs[r].stream])
    /\ sources' = [k \in Keys |-> NoReq]
    /\ pendingCount' = 0
    /\ UpdateMessages([i \in DOMAIN messages |-> Truncate(messages[i])])
    /\ UNCHANGED <<completed, account, disturbed>>

Reload ==
    /\ reqs' = CloseSources([r \in DOMAIN reqs |-> TRUE])
    /\ sources' = [k \in Keys |-> NoReq]
    /\ completed' = {}
    /\ pendingCount' = 0
    /\ messages' = [i \in DOMAIN messages |-> SanitizeOnLoad(messages[i])]
    /\ fetched' = <<>>
    /\ UNCHANGED <<row, restored, disturbed>>

-----------------------------------------------------------------------------
(* The account *)

\* The timer of the persist effect fires: the list is saved as it is on
\* screen, which isGenerating alone delays.  The mutated form does not look
\* at isGenerating.
PersistAnyTime ==
    /\ row' = messages
    /\ UNCHANGED <<messages, net, fetched, restored, disturbed>>
Persist ==
    /\ ~IsGenerating
    /\ row' = messages
    /\ UNCHANGED <<messages, net, fetched, restored, disturbed>>

\* handleSelectConversation up to its await.  The rail is disabled during a
\* generation.
SelectConversation ==
    /\ ~IsGenerating
    /\ row # <<>> /\ fetched = <<>>
    /\ fetched' = row
    /\ UNCHANGED <<messages, net, row, restored, disturbed>>

\* The rest of it, whenever the answer arrives: the list is replaced as it
\* was saved, with the keys it had; it is not sanitized, and nothing asks
\* whether a reply is being generated by now.
Overtaken(m) ==
    \/ sources[m.key] # NoReq
    \/ m.status \in Waiting /\ reqs[LastRequest(m.key)].state = "over"
SelectReturns ==
    /\ fetched # <<>>
    /\ UpdateMessages(fetched)
    /\ restored' = restored \cup
          {fetched[i].key : i \in {j \in DOMAIN fetched : Overtaken(fetched[j])}}
    /\ fetched' = <<>>
    /\ UNCHANGED <<net, row, disturbed>>

\* The conversation is gone, or the call failed: a toast.
SelectFails ==
    /\ fetched # <<>>
    /\ fetched' = <<>>
    /\ UNCHANGED <<messages, net, row, restored, disturbed>>

-----------------------------------------------------------------------------
Init ==
    /\ messages = <<>>
    /\ reqs = <<>>
    /\ sources = [k \in Keys |-> NoReq]
    /\ completed = {}
    /\ pendingCount = 0
    /\ row = <<>> /\ fetched = <<>>
    /\ disturbed = {} /\ restored = {}

UserAction ==
    \/ \E ks \in Targets, stream \in BOOLEAN : SendMessage(ks, stream)
    \/ \E k \in Keys, ks \in Targets, stream \in BOOLEAN :
          SubmitToolResults(k, ks, stream)
    \/ \E k \in Keys, stream \in BOOLEAN : RegenerateMessage(k, stream)
    \/ \E k \in Keys, i \in 1 .. MaxReq : ChangeVersion(k, i)
    \/ \E k \in Keys : DeleteMessage(k)
    \/ \E k \in Keys : SaveEdit(k)
    \/ \E i \in DOMAIN messages, ks \in Targets, stream \in BOOLEAN :
          SaveEditAndSubmit(i, ks, stream)
    \/ ClearMessages
    \/ StopGeneration
    \/ Reload
    \/ SelectConversation

AccountAction == Persist \/ SelectReturns \/ SelectFails

ResponseEnds(r) ==
    \/ StreamDone(r)
    \/ StreamError(r)
    \/ StreamCut(r)
    \/ PlainAnswer(r)
    \/ PlainEmpty(r)
    \/ PlainError(r)

ServerAction ==
    \E r \in 1 .. MaxReq :
        \/ \E kind \in {"text", "refusal", "tools"} :
              StreamChunk(r, kind)
        \/ ResponseEnds(r)

Next == UserAction \/ AccountAction \/ ServerAction

\* The server ends every response it started; the user and the account owe
\* nothing.
Fairness == \A r \in 1 .. MaxReq : WF_vars(ResponseEnds(r))

Spec == Init /\ [][Next]_vars /\ Fairness
-----------------------------------------------------------------------------
(* Properties *)

\* The variables hold what the page and the account keep: assistant messages
\* with at least one version, at most one registered stream for a key, a counter that is
\* never negative (use-chat-handler.ts, Math.max in the finally block).
TypeOK ==
    /\ messages \in Seq(Message)
    /\ reqs \in Seq(Request)
    /\ sources \in [Keys -> 0 .. MaxReq]
    /\ completed \subseteq Keys
    /\ pendingCount \in Nat
    /\ row \in Seq(Message) /\ fetched \in Seq(Message)
    /\ disturbed \subseteq Keys /\ restored \subseteq Keys

\* A message shown as loading or streaming waits for its own last request,
\* and that request has neither answered, failed nor been closed: a stop, a
\* reload, an edit or an answer to an older request never leaves a message
\* spinning behind (stopGeneration, sanitizeMessagesOnLoad, onError).  Not so
\* a reply that was saved while it waited and is selected after it ended.
WaitingHasRequest ==
    \A i \in DOMAIN messages :
        messages[i].status \in Waiting /\ messages[i].key \notin restored =>
            /\ RequestsOf(messages[i].key) # {}
            /\ reqs[LastRequest(messages[i].key)].state
                  \in {"open", "cut", "empty"}

\* isGenerating, which disables the input and delays the cloud save, is
\* never left on by a request that is over: a registered stream is running
\* or was cut, and the counter never exceeds the plain requests that run,
\* also when answers arrive after Stop reset it.
GeneratingMatchesRequests ==
    /\ \A k \in Keys :
         sources[k] # NoReq => /\ reqs[sources[k]].key = k
                               /\ reqs[sources[k]].state \in {"open", "cut"}
    /\ pendingCount <= Cardinality(OpenPlain)

\* The text of one version comes from one request, unless the user changed
\* the version or an older plain answer arrived while a request ran, or a
\* select brought the reply back over its own stream: a regenerated reply
\* never continues the text of the reply it replaces (pushAssistantVersion,
\* processStreamingContent).
VersionsDoNotMix ==
    \A i \in DOMAIN messages :
        messages[i].key \notin disturbed \cup restored =>
            \A v \in DOMAIN messages[i].versions :
                Cardinality(messages[i].versions[v] \ {PageText}) <= 1

\* No half-written reply reaches the account, whatever a stop, a reload or a
\* select did before: a reply that is saved while it waits has no text of a
\* running stream in it, it is one that was asked for plainly and of which
\* nothing is there yet (the isGenerating guard of the persist effect,
\* sanitizeMessagesOnLoad).  Such a plain reply is saved: an answer without
\* choices, or one that arrives after Stop, takes isGenerating away from it.
NoHalfReplySaved ==
    \A i \in DOMAIN row :
        row[i].status \in Waiting =>
            /\ row[i].status = "loading"
            /\ \E r \in RequestsOf(row[i].key) : ~reqs[r].stream

\* A reply that was stopped never starts streaming again: the streams Stop
\* closed deliver nothing into the message, and no list selected from the
\* account brings a streaming reply with it (stopStream, stopGeneration, the
\* guard of the persist effect).  Excepted is a stopped reply that a select
\* brought back over the stream that regenerates it.
StopIsFinal ==
    [][\A k \in KeysOf(messages) \cap KeysOf(messages') :
          messages[At(messages, k)].status = "truncated" /\ k \notin restored =>
             messages'[At(messages', k)].status # "streaming"]_vars

IsWaiting(k) ==
    k \in KeysOf(messages) /\ Shown(k).status \in Waiting
Unanswered(k) == reqs[LastRequest(k)].state \in {"cut", "empty"}

\* Every reply settles, whatever the user does meanwhile, unless the server
\* cut its stream before [DONE] or answered without a choice, or a select
\* brought it back as it was before it ended.
EveryReplySettles ==
    \A k \in Keys :
        IsWaiting(k) ~> (~IsWaiting(k) \/ Unanswered(k) \/ k \in restored)

\* The page stops generating, so that its input is enabled and the save can
\* run, unless a stream was cut before [DONE] and waits for Stop.
GenerationEnds ==
    IsGenerating ~> (~IsGenerating \/ \E r \in DOMAIN reqs :
                                           reqs[r].state = "cut")

=============================================================================
