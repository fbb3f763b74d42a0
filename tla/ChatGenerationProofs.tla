------------------------ MODULE ChatGenerationProofs ------------------------
(***************************************************************************)
(* Proofs about ChatGeneration for every bound on replies, requests and    *)
(* models compared: types, what keeps the page generating, what a waiting  *)
(* reply waits for, that a stop is final and that texts do not mix.        *)
(***************************************************************************)
EXTENDS ChatGeneration, FiniteSetTheorems, SequenceTheorems, TLAPS

\* The replies on screen.
Replies == {messages[i] : i \in DOMAIN messages}

\* r is the last request of reply k.
Last(k, r) == r \in RequestsOf(k) /\ \A q \in RequestsOf(k) : q <= r

\* A registered stream is running or was cut, and is the last request of its
\* key; no other stream of the key is running; a key that completed has none.
StreamInv ==
  /\ \A k \in Keys : sources[k] # NoReq =>
        /\ Last(k, sources[k])
        /\ reqs[sources[k]].stream /\ reqs[sources[k]].state \in {"open", "cut"}
        /\ k \notin completed
  /\ \A r \in DOMAIN reqs :
        reqs[r].stream /\ reqs[r].state \in {"open", "cut"} => sources[reqs[r].key] = r

\* The counter does not exceed the plain requests that run.
PendingInv == pendingCount <= Cardinality(OpenPlain)

\* The keys are given in order, and each has a last request.
KeyInv ==
  /\ Len(reqs) <= MaxReq
  /\ {k \in Keys : RequestsOf(k) # {}} = 1 .. KeysUsed
  /\ \A k \in Keys : RequestsOf(k) # {} => \E r \in DOMAIN reqs : Last(k, r)

\* Every reply was asked for and its key is its own.
OwnKeyInv ==
  /\ \A m \in Replies : RequestsOf(m.key) # {}
  /\ \A i, j \in DOMAIN messages : messages[i].key = messages[j].key => i = j

\* Unless a select brought it back in the wrong moment, a reply that waits has
\* a last request that did not end, and one that was stopped has no stream.  In
\* any case a reply that waits has a stream, or was asked for plainly and has
\* nothing yet.
HasPlain(k) == \E r \in RequestsOf(k) : ~reqs[r].stream
StatusInv(m) ==
  /\ m.status \in Waiting /\ m.key \notin restored =>
        \E r \in DOMAIN reqs :
           Last(m.key, r) /\ reqs[r].state \in {"open", "cut", "empty"}
  /\ m.status = "truncated" /\ m.key \notin restored => sources[m.key] = NoReq
  /\ m.status \in Waiting =>
        sources[m.key] # NoReq \/ (m.status = "loading" /\ HasPlain(m.key))

\* A version has the text of one request, the one shown that of the stream
\* that runs.
From(text, r) == text \subseteq {r, PageText}
OneEach(m) == \A v \in DOMAIN m.versions : \E r \in 0 .. MaxReq : From(m.versions[v], r)
Streams(k) == sources[k] # NoReq /\ reqs[sources[k]].state = "open"
TextInv(m) ==
  m.key \notin disturbed \cup restored =>
    OneEach(m) /\ (Streams(m.key) => From(Text(m), sources[m.key]))

NetType ==
  /\ reqs \in Seq(Request)
  /\ sources \in [Keys -> 0 .. MaxReq]
  /\ completed \subseteq Keys
  /\ pendingCount \in Nat
NetInv == NetType /\ StreamInv /\ PendingInv /\ KeyInv
ListType == messages \in Seq(Message) /\ disturbed \subseteq Keys /\ restored \subseteq Keys
ReplyInv(m) == StatusInv(m) /\ TextInv(m)

IInv ==
  /\ NetInv /\ ListType /\ OwnKeyInv
  /\ \A m \in Replies : ReplyInv(m)

\* What holds of a list that was saved: its replies were asked for, their
\* keys are their own, those that wait have nothing yet and were asked for
\* plainly, and the texts do not mix.
CopyInv(list) ==
  /\ list \in Seq(Message)
  /\ \A i, j \in DOMAIN list : list[i].key = list[j].key => i = j
  /\ \A i \in DOMAIN list :
        /\ RequestsOf(list[i].key) # {}
        /\ list[i].status \in Waiting => list[i].status = "loading" /\ HasPlain(list[i].key)
        /\ list[i].key \notin disturbed \cup restored => OneEach(list[i])
AccountInv == CopyInv(row) /\ CopyInv(fetched)

-----------------------------------------------------------------------------
(* Requests *)

\* A function on 1 .. n is a list of n elements.
LEMMA ListOf ==
  ASSUME NEW S, NEW n \in Nat, NEW f \in [1 .. n -> S]
  PROVE  f \in Seq(S) /\ DOMAIN f = 1 .. n /\ Len(f) = n
<1>1. f \in Seq(S)
  BY SeqDef
<1>2. DOMAIN f = 1 .. n /\ DOMAIN f = 1 .. Len(f) /\ Len(f) \in Nat
  BY <1>1
<1>3. QED
  BY <1>1, <1>2

LEMMA RequestAt ==
  ASSUME NetType, NEW r \in DOMAIN reqs
  PROVE  /\ reqs[r] \in Request /\ reqs[r].key \in Keys /\ reqs[r].stream \in BOOLEAN
         /\ r \in RequestsOf(reqs[r].key) /\ r \in Nat /\ r # NoReq
<1>1. reqs[r] \in Request /\ r \in Nat /\ r # NoReq
  BY DEF NetType, NoReq
<1>2. reqs[r].key \in Keys
  BY <1>1 DEF Request
<1>3. reqs[r].stream \in BOOLEAN
  BY <1>1, Zenon DEF Request
<1>4. QED
  BY <1>1, <1>2, <1>3 DEF RequestsOf

\* A request changes its state and nothing else.
Ends(r, state) ==
  r \in DOMAIN reqs /\ reqs' = [reqs EXCEPT ![r].state = state]

LEMMA EndsFacts ==
  ASSUME NetType, NEW r, NEW state \in {"open", "cut", "empty", "over"}, Ends(r, state)
  PROVE  /\ reqs' \in Seq(Request) /\ DOMAIN reqs' = DOMAIN reqs /\ Len(reqs') = Len(reqs)
         /\ reqs'[r].key = reqs[r].key /\ reqs'[r].stream = reqs[r].stream
         /\ reqs'[r].state = state
         /\ \A q \in DOMAIN reqs : q # r => reqs'[q] = reqs[q]
<1>1. reqs[r] \in Request
  BY DEF NetType, Ends
<1>2. reqs' = [reqs EXCEPT ![r] = [reqs[r] EXCEPT !.state = state]]
  BY DEF Ends
<1>3. [reqs[r] EXCEPT !.state = state] \in Request
  BY <1>1 DEF Request
<1>4. QED
  BY <1>1, <1>2, <1>3 DEF NetType, Ends, Request

\* The requests keep their keys and their kind and are as many as before.
SameRequests ==
  /\ reqs' \in Seq(Request) /\ DOMAIN reqs' = DOMAIN reqs /\ Len(reqs') = Len(reqs)
  /\ \A q \in DOMAIN reqs : reqs'[q].key = reqs[q].key /\ reqs'[q].stream = reqs[q].stream

LEMMA SameKeys ==
  ASSUME SameRequests
  PROVE  /\ \A k : RequestsOf(k)' = RequestsOf(k)
         /\ \A k : HasPlain(k)' <=> HasPlain(k)
         /\ \A k, r : Last(k, r)' <=> Last(k, r)
         /\ KeysUsed' = KeysUsed
         /\ KeyInv => KeyInv'
<1>1. ASSUME NEW k PROVE RequestsOf(k)' = RequestsOf(k)
  BY DEF SameRequests, RequestsOf
<1>2. ASSUME NEW k, NEW r PROVE Last(k, r)' <=> Last(k, r)
  BY <1>1 DEF Last
<1>3. KeysUsed' = KeysUsed
  <2>1. {k \in Keys : RequestsOf(k) # {}}' = {k \in Keys : RequestsOf(k) # {}}
    BY <1>1
  <2>2. QED
    BY <2>1 DEF KeysUsed
<1>4. KeyInv => KeyInv'
  BY <1>1, <1>2, <1>3 DEF KeyInv, SameRequests
<1>5. ASSUME NEW k PROVE HasPlain(k)' <=> HasPlain(k)
  BY <1>1 DEF HasPlain, SameRequests, RequestsOf
<1>6. QED
  BY <1>1, <1>2, <1>3, <1>4, <1>5

\* An open plain request is one of finitely many.
LEMMA OpenPlainFinite ==
  ASSUME NetType
  PROVE  IsFiniteSet(OpenPlain) /\ Cardinality(OpenPlain) \in Nat
<1>1. IsFiniteSet(DOMAIN reqs)
  BY FS_Interval DEF NetType
<1>2. OpenPlain \subseteq DOMAIN reqs
  BY DEF OpenPlain
<1>3. QED
  BY <1>1, <1>2, FS_Subset, FS_CardinalityType

\* A stream that runs is the one its key has registered, and its key has not
\* completed.
LEMMA StreamingFacts ==
  ASSUME NetInv, NEW r, Streaming(r)
  PROVE  /\ r \in DOMAIN reqs /\ reqs[r].key \in Keys /\ r # NoReq
         /\ reqs[r].stream /\ reqs[r].state = "open"
         /\ sources[reqs[r].key] = r /\ Last(reqs[r].key, r)
         /\ reqs[r].key \notin completed
<1>1. r \in DOMAIN reqs /\ reqs[r].stream /\ reqs[r].state = "open"
  BY DEF Streaming
<1>2. reqs[r].key \in Keys /\ r # NoReq
  BY <1>1, RequestAt DEF NetInv
<1>3. sources[reqs[r].key] = r
  BY <1>1 DEF NetInv, StreamInv
<1>4. QED
  BY <1>1, <1>2, <1>3 DEF NetInv, StreamInv

\* StreamInv for a request r that ends while its key registers s: r itself
\* when it was a plain request or was cut, nothing when it was a stream.
LEMMA EndsStreams ==
  ASSUME NetInv, NEW r, NEW state \in {"cut", "empty", "over"}, Ends(r, state),
         completed' \subseteq completed \cup {reqs[r].key},
         \/ /\ reqs[r].stream /\ reqs[r].state = "open"
            /\ sources' = [sources EXCEPT ![reqs[r].key] = NoReq]
            /\ state = "over"
         \/ /\ reqs[r].stream /\ reqs[r].state = "open" /\ sources' = sources
            /\ state = "cut" /\ completed' = completed
         \/ ~reqs[r].stream /\ sources' = sources /\ completed' = completed
  PROVE  StreamInv' /\ sources' \in [Keys -> 0 .. MaxReq] /\ completed' \subseteq Keys
<1>1. /\ NetType /\ r \in DOMAIN reqs /\ reqs[r].key \in Keys
  BY RequestAt DEF NetInv, Ends
<1>2. /\ DOMAIN reqs' = DOMAIN reqs
      /\ reqs'[r].key = reqs[r].key /\ reqs'[r].stream = reqs[r].stream
      /\ reqs'[r].state = state
      /\ \A q \in DOMAIN reqs : q # r => reqs'[q] = reqs[q]
  BY <1>1, EndsFacts
<1>3. SameRequests
  BY <1>1, EndsFacts DEF SameRequests
<1>4. \A k : RequestsOf(k)' = RequestsOf(k)
  BY <1>3, SameKeys
<1>5. sources' \in [Keys -> 0 .. MaxReq] /\ completed' \subseteq Keys
  <2>1. 0 \in 0 .. MaxReq
    BY MaxReqAssumption
  <2>2. QED
    BY <1>1, <2>1 DEF NetType, NoReq
<1>6. CASE reqs[r].stream /\ state = "over"
  <2>1. sources' = [sources EXCEPT ![reqs[r].key] = NoReq] /\ sources[reqs[r].key] = r
    BY <1>1, <1>6 DEF NetInv, StreamInv
  <2>2. ASSUME NEW k \in Keys, sources'[k] # NoReq
        PROVE  (/\ Last(k, sources[k])
                /\ reqs[sources[k]].stream /\ reqs[sources[k]].state \in {"open", "cut"}
                /\ k \notin completed)'
    <3>1. k # reqs[r].key /\ sources'[k] = sources[k]
      BY <1>1, <2>1, <2>2 DEF NetType
    <3>2. Last(k, sources[k]) /\ k \notin completed
          /\ reqs[sources[k]].stream /\ reqs[sources[k]].state \in {"open", "cut"}
      BY <2>2, <3>1 DEF NetInv, StreamInv
    <3>3. sources[k] \in DOMAIN reqs /\ sources[k] # r
      BY <3>1, <3>2 DEF Last, RequestsOf
    <3>4. QED
      BY <1>2, <1>4, <3>1, <3>2, <3>3 DEF Last
  <2>3. ASSUME NEW q \in DOMAIN reqs', reqs'[q].stream, reqs'[q].state \in {"open", "cut"}
        PROVE  sources'[reqs'[q].key] = q
    <3>1. q # r /\ reqs'[q] = reqs[q] /\ q \in DOMAIN reqs
      BY <1>2, <1>6, <2>3
    <3>2. sources[reqs[q].key] = q
      BY <2>3, <3>1 DEF NetInv, StreamInv
    <3>3. reqs[q].key \in Keys
      BY <1>1, <3>1, RequestAt
    <3>4. QED
      BY <1>1, <2>1, <3>1, <3>2, <3>3 DEF NetType
  <2>4. QED
    BY <1>5, <2>2, <2>3 DEF StreamInv
<1>7. CASE sources' = sources /\ completed' = completed /\ (reqs[r].stream => state = "cut" /\ reqs[r].state = "open")
  <2>2. ASSUME NEW k \in Keys, sources'[k] # NoReq
        PROVE  (/\ Last(k, sources[k])
                /\ reqs[sources[k]].stream /\ reqs[sources[k]].state \in {"open", "cut"}
                /\ k \notin completed)'
    <3>1. sources'[k] = sources[k]
      BY <1>7
    <3>2. Last(k, sources[k]) /\ k \notin completed
          /\ reqs[sources[k]].stream /\ reqs[sources[k]].state \in {"open", "cut"}
      BY <2>2, <3>1 DEF NetInv, StreamInv
    <3>3. sources[k] \in DOMAIN reqs
      BY <3>2 DEF Last, RequestsOf
    <3>4. CASE sources[k] = r
      BY <1>2, <1>4, <1>7, <3>1, <3>2, <3>4 DEF Last
    <3>5. CASE sources[k] # r
      BY <1>2, <1>4, <1>7, <3>1, <3>2, <3>3, <3>5 DEF Last
    <3>6. QED
      BY <3>4, <3>5
  <2>3. ASSUME NEW q \in DOMAIN reqs', reqs'[q].stream, reqs'[q].state \in {"open", "cut"}
        PROVE  sources'[reqs'[q].key] = q
    <3>1. CASE q = r
      BY <1>1, <1>2, <1>7, <2>3, <3>1 DEF NetInv, StreamInv
    <3>2. CASE q # r
      BY <1>1, <1>2, <1>7, <2>3, <3>2 DEF NetInv, StreamInv
    <3>3. QED
      BY <3>1, <3>2
  <2>4. QED
    BY <1>5, <2>2, <2>3 DEF StreamInv
<1>8. QED
  BY <1>6, <1>7

\* A stream that ends leaves the counter and the plain requests alone.
LEMMA StreamEndsNet ==
  ASSUME NetInv, NEW r, Streaming(r), NEW state \in {"cut", "over"}, Ends(r, state),
         pendingCount' = pendingCount,
         \/ /\ sources' = [sources EXCEPT ![reqs[r].key] = NoReq] /\ state = "over"
            /\ completed' \subseteq completed \cup {reqs[r].key}
         \/ sources' = sources /\ state = "cut" /\ completed' = completed
  PROVE  NetInv'
<1>1. NetType /\ r \in DOMAIN reqs /\ reqs[r].stream /\ reqs[r].state = "open"
  BY StreamingFacts DEF NetInv
<1>2. /\ reqs' \in Seq(Request) /\ DOMAIN reqs' = DOMAIN reqs
      /\ reqs'[r].stream = reqs[r].stream
      /\ \A q \in DOMAIN reqs : q # r => reqs'[q] = reqs[q]
  BY <1>1, EndsFacts
<1>3. StreamInv' /\ sources' \in [Keys -> 0 .. MaxReq] /\ completed' \subseteq Keys
  BY <1>1, EndsStreams
<1>4. SameRequests
  BY <1>1, EndsFacts DEF SameRequests
<1>5. OpenPlain' = OpenPlain
  BY <1>1, <1>2 DEF OpenPlain
<1>6. KeyInv' /\ PendingInv'
  BY <1>4, <1>5, SameKeys DEF NetInv, PendingInv
<1>7. QED
  BY <1>1, <1>2, <1>3, <1>6 DEF NetInv, NetType

\* An answer to a plain request counts it off, unless Stop already did.
LEMMA PlainEndsNet ==
  ASSUME NetInv, NEW r, NEW state \in {"empty", "over"}, PlainEnds(r, state)
  PROVE  NetInv' /\ Ends(r, state) /\ ~reqs[r].stream /\ reqs[r].state = "open"
<1>1. /\ NetType /\ r \in DOMAIN reqs /\ ~reqs[r].stream /\ reqs[r].state = "open"
      /\ Ends(r, state) /\ r \in OpenPlain
      /\ sources' = sources /\ completed' = completed /\ SettlePending
  BY DEF NetInv, PlainEnds, OpenPlain, Ends
<1>2. /\ reqs' \in Seq(Request) /\ DOMAIN reqs' = DOMAIN reqs
      /\ reqs'[r].state = state
      /\ \A q \in DOMAIN reqs : q # r => reqs'[q] = reqs[q]
  BY <1>1, EndsFacts
<1>3. StreamInv' /\ sources' \in [Keys -> 0 .. MaxReq] /\ completed' \subseteq Keys
  BY <1>1, EndsStreams
<1>4. SameRequests
  BY <1>1, EndsFacts DEF SameRequests
<1>5. OpenPlain' = OpenPlain \ {r}
  BY <1>1, <1>2 DEF OpenPlain
<1>6. Cardinality(OpenPlain') = Cardinality(OpenPlain) - 1 /\ Cardinality(OpenPlain) \in Nat
  BY <1>1, <1>5, OpenPlainFinite, FS_RemoveElement
<1>7. Cardinality(OpenPlain') \in Nat
  BY <1>1, <1>5, OpenPlainFinite, FS_RemoveElement, FS_CardinalityType
<1>8. PendingInv' /\ pendingCount' \in Nat
  BY <1>1, <1>6, <1>7 DEF NetInv, NetType, PendingInv, SettlePending
<1>9. KeyInv'
  BY <1>4, SameKeys DEF NetInv
<1>10. QED
  BY <1>1, <1>2, <1>3, <1>8, <1>9 DEF NetInv, NetType

\* Stop closes the streams, a reload leaves every request.
LEMMA CloseSourcesNet ==
  ASSUME NetInv, NEW live \in [DOMAIN reqs -> BOOLEAN],
         \A r \in DOMAIN reqs : reqs[r].stream => live[r],
         reqs' = CloseSources(live), sources' = [k \in Keys |-> NoReq],
         pendingCount' = 0, completed' \in {completed, {}}
  PROVE  NetInv' /\ SameRequests
<1>1. NetType
  BY DEF NetInv
<1>2. ASSUME NEW r \in DOMAIN reqs
      PROVE  /\ [reqs[r] EXCEPT !.state = "over"] \in Request
             /\ reqs'[r] \in Request /\ reqs'[r].key = reqs[r].key
             /\ reqs'[r].stream = reqs[r].stream
             /\ reqs'[r] = reqs[r] \/ reqs'[r].state = "over"
             /\ reqs[r].stream => reqs'[r].state \notin {"open", "cut"}
  <2>1. reqs[r] \in Request
    BY <1>1, RequestAt
  <2>2. /\ [reqs[r] EXCEPT !.state = "over"] \in Request
        /\ [reqs[r] EXCEPT !.state = "over"].key = reqs[r].key
        /\ [reqs[r] EXCEPT !.state = "over"].stream = reqs[r].stream
        /\ [reqs[r] EXCEPT !.state = "over"].state = "over"
    BY <2>1 DEF Request
  <2>3. reqs'[r] = IF reqs[r].state \in {"open", "cut"} /\ live[r]
                   THEN [reqs[r] EXCEPT !.state = "over"] ELSE reqs[r]
    BY DEF CloseSources
  <2>4. QED
    BY <2>1, <2>2, <2>3
<1>3. reqs' \in Seq(Request) /\ DOMAIN reqs' = DOMAIN reqs /\ Len(reqs') = Len(reqs)
  <2>1. Len(reqs) \in Nat /\ DOMAIN reqs = 1 .. Len(reqs)
    BY <1>1 DEF NetType
  <2>2. reqs' \in [1 .. Len(reqs) -> Request]
    BY <1>2, <2>1 DEF CloseSources
  <2>3. QED
    BY <2>1, <2>2, ListOf
<1>4. SameRequests
  BY <1>2, <1>3 DEF SameRequests
<1>5. StreamInv'
  BY <1>1, <1>2, <1>3 DEF StreamInv, NetType
<1>6. PendingInv' /\ KeyInv'
  <2>1. reqs' \in Seq(Request) => Cardinality(OpenPlain') \in Nat
    <3>1. OpenPlain' \subseteq DOMAIN reqs
      BY <1>3 DEF OpenPlain
    <3>2. IsFiniteSet(DOMAIN reqs)
      BY <1>1, FS_Interval DEF NetType
    <3>3. QED
      BY <3>1, <3>2, FS_Subset, FS_CardinalityType
  <2>2. QED
    BY <1>3, <1>4, <2>1, SameKeys DEF NetInv, PendingInv
<1>7. NetType'
  BY <1>1, <1>3, MaxReqAssumption DEF NetType, NoReq
<1>8. QED
  BY <1>4, <1>5, <1>6, <1>7 DEF NetInv

-----------------------------------------------------------------------------
(* sendChat *)

\* The targets of a call of sendChat: no key twice, none with a stream.
Free(ks) ==
  /\ ks \in Seq(Keys) /\ Len(ks) > 0
  /\ \A i, j \in DOMAIN ks : ks[i] = ks[j] => i = j
  /\ \A i \in DOMAIN ks : sources[ks[i]] = NoReq

LEMMA FreeLen ==
  ASSUME NEW ks, Free(ks)
  PROVE  Len(ks) \in Nat /\ Len(ks) > 0 /\ DOMAIN ks = 1 .. Len(ks)
         /\ \A i \in DOMAIN ks : ks[i] \in Keys
  BY DEF Free

\* sendChat adds one open request for every target, after the ones there are.
LEMMA SendChatRequests ==
  ASSUME NetType, NEW ks, Free(ks), NEW stream \in BOOLEAN, SendChat(ks, stream)
  PROVE  /\ reqs' \in Seq(Request) /\ Len(reqs') = Len(reqs) + Len(ks)
         /\ Len(reqs) + Len(ks) <= MaxReq /\ Len(reqs) \in Nat
         /\ DOMAIN reqs = 1 .. Len(reqs) /\ DOMAIN reqs' = 1 .. Len(reqs) + Len(ks)
         /\ \A r \in DOMAIN reqs : reqs'[r] = reqs[r]
         /\ \A i \in DOMAIN ks : reqs'[Len(reqs) + i] =
                                   [key |-> ks[i], stream |-> stream, state |-> "open"]
         /\ \A r \in DOMAIN reqs' : r \in DOMAIN reqs \/ \E i \in DOMAIN ks : r = Len(reqs) + i
<1> DEFINE first == Len(reqs)
           n == Len(ks)
<1>1. /\ first \in Nat /\ n \in Nat /\ first + n \in Nat
      /\ DOMAIN reqs = 1 .. first /\ DOMAIN ks = 1 .. n
  BY FreeLen DEF NetType
<1>2. /\ first + n <= MaxReq
      /\ reqs' = [r \in 1 .. first + n |->
                    IF r > first
                    THEN [key |-> ks[r - first], stream |-> stream, state |-> "open"]
                    ELSE IF stream /\ \E i \in 1 .. n : sources[ks[i]] = r
                    THEN [reqs[r] EXCEPT !.state = "over"]
                    ELSE reqs[r]]
  BY DEF SendChat
<1>3. ASSUME NEW r \in 1 .. first PROVE reqs'[r] = reqs[r] /\ reqs[r] \in Request
  <2>1. ~ \E i \in 1 .. n : sources[ks[i]] = r
    BY <1>1 DEF Free, NoReq
  <2>2. r \in 1 .. first + n /\ ~(r > first)
    BY <1>1
  <2>3. QED
    BY <1>1, <1>2, <2>1, <2>2 DEF NetType
<1>4. ASSUME NEW i \in 1 .. n
      PROVE  /\ reqs'[first + i] = [key |-> ks[i], stream |-> stream, state |-> "open"]
             /\ reqs'[first + i] \in Request
  <2>1. first + i \in 1 .. first + n /\ first + i > first /\ (first + i) - first = i
    BY <1>1
  <2>2. reqs'[first + i] = [key |-> ks[i], stream |-> stream, state |-> "open"]
    BY <1>2, <2>1
  <2>3. ks[i] \in Keys
    BY <1>1, FreeLen
  <2>4. [key |-> ks[i], stream |-> stream, state |-> "open"] \in Request
    BY <2>3 DEF Request
  <2>5. QED
    BY <2>2, <2>4
<1>5. ASSUME NEW r \in 1 .. first + n
      PROVE  r \in 1 .. first \/ \E i \in 1 .. n : r = first + i
  <2>1. CASE r <= first
    BY <1>1, <2>1
  <2>2. CASE r > first
    <3>1. r - first \in 1 .. n /\ r = first + (r - first)
      BY <1>1, <2>2
    <3>2. QED
      BY <3>1
  <2>3. QED
    BY <1>1, <2>1, <2>2
<1>6. reqs' \in [1 .. first + n -> Request]
  <2>1. DOMAIN reqs' = 1 .. first + n /\ reqs' = [r \in DOMAIN reqs' |-> reqs'[r]]
    BY <1>2
  <2>2. \A r \in 1 .. first + n : reqs'[r] \in Request
    BY <1>3, <1>4, <1>5
  <2>3. QED
    BY <2>1, <2>2
<1>7. reqs' \in Seq(Request) /\ DOMAIN reqs' = 1 .. first + n /\ Len(reqs') = first + n
  BY <1>1, <1>6, ListOf
<1>8. QED
  BY <1>1, <1>2, <1>3, <1>4, <1>5, <1>7

\* The new request is the last one of its target; other keys are left alone.
LastAfter(k, r) == r \in RequestsOf(k)' /\ \A q \in RequestsOf(k)' : q <= r

LEMMA SendChatKeys ==
  ASSUME NetType, NEW ks, Free(ks), NEW stream \in BOOLEAN, SendChat(ks, stream)
  PROVE  /\ \A i \in DOMAIN ks : LastAfter(ks[i], Len(reqs) + i)
         /\ \A k : (\A i \in DOMAIN ks : ks[i] # k) => RequestsOf(k)' = RequestsOf(k)
<1> DEFINE first == Len(reqs)
<1>1. /\ first \in Nat /\ Len(ks) \in Nat /\ DOMAIN ks = 1 .. Len(ks)
      /\ DOMAIN reqs = 1 .. first /\ DOMAIN reqs' = 1 .. first + Len(ks)
      /\ \A r \in DOMAIN reqs : reqs'[r] = reqs[r]
      /\ \A i \in DOMAIN ks : reqs'[first + i].key = ks[i]
      /\ \A r \in DOMAIN reqs' : r \in DOMAIN reqs \/ \E i \in DOMAIN ks : r = first + i
  <2>1. \A i \in DOMAIN ks : reqs'[first + i] =
                               [key |-> ks[i], stream |-> stream, state |-> "open"]
    BY SendChatRequests
  <2>2. ASSUME NEW i \in DOMAIN ks PROVE reqs'[first + i].key = ks[i]
    <3>1. [key |-> ks[i], stream |-> stream, state |-> "open"].key = ks[i]
      OBVIOUS
    <3>2. QED
      BY <2>1, <3>1, Zenon
  <2>3. QED
    BY <2>2, FreeLen, SendChatRequests, Zenon
<1>2. ASSUME NEW i \in DOMAIN ks
      PROVE  first + i \in RequestsOf(ks[i])' /\ \A q \in RequestsOf(ks[i])' : q <= first + i
  <2>1. first + i \in DOMAIN reqs' /\ i \in Nat
    BY <1>1
  <2>2. first + i \in RequestsOf(ks[i])'
    BY <1>1, <2>1 DEF RequestsOf
  <2>3. ASSUME NEW q \in RequestsOf(ks[i])' PROVE q <= first + i
    <3>1. q \in DOMAIN reqs' /\ reqs'[q].key = ks[i]
      BY DEF RequestsOf
    <3>2. CASE q \in DOMAIN reqs
      BY <1>1, <2>1, <3>2
    <3>3. CASE \E j \in DOMAIN ks : q = first + j
      <4>1. PICK j \in DOMAIN ks : q = first + j
        BY <3>3
      <4>2. ks[j] = ks[i]
        BY <1>1, <3>1, <4>1
      <4>3. j = i
        BY <4>2 DEF Free
      <4>4. QED
        BY <1>1, <2>1, <4>1, <4>3
    <3>4. QED
      BY <1>1, <3>1, <3>2, <3>3
  <2>4. QED
    BY <2>2, <2>3
<1>3. ASSUME NEW k, \A i \in DOMAIN ks : ks[i] # k PROVE RequestsOf(k)' = RequestsOf(k)
  <2>1. ASSUME NEW r \in RequestsOf(k) PROVE r \in RequestsOf(k)'
    BY <1>1 DEF RequestsOf
  <2>2. ASSUME NEW r \in RequestsOf(k)' PROVE r \in RequestsOf(k)
    BY <1>1, <1>3 DEF RequestsOf
  <2>3. QED
    BY <2>1, <2>2
<1>4. QED
  BY <1>2, <1>3 DEF LastAfter

\* A stream is registered for its target; the plain requests are counted.
LEMMA SendChatSources ==
  ASSUME NetType, NEW ks, Free(ks), NEW stream \in BOOLEAN, SendChat(ks, stream)
  PROVE  /\ sources' \in [Keys -> 0 .. MaxReq]
         /\ \A k \in Keys : (\A i \in DOMAIN ks : ks[i] # k) => sources'[k] = sources[k]
         /\ \A i \in DOMAIN ks : sources'[ks[i]] = IF stream THEN Len(reqs) + i ELSE NoReq
         /\ completed' \subseteq completed
         /\ stream => \A i \in DOMAIN ks : ks[i] \notin completed'
         /\ pendingCount' = IF stream THEN pendingCount ELSE pendingCount + Len(ks)
<1> DEFINE first == Len(reqs)
           n == Len(ks)
<1>1. /\ first \in Nat /\ n \in Nat /\ first + n <= MaxReq /\ DOMAIN ks = 1 .. n
      /\ \A i \in DOMAIN ks : ks[i] \in Keys
      /\ sources \in [Keys -> 0 .. MaxReq]
  BY FreeLen, SendChatRequests DEF NetType
<1>2. CASE stream
  <2>1. /\ sources' = [k \in Keys |-> IF \E i \in 1 .. n : ks[i] = k
                                      THEN first + CHOOSE i \in 1 .. n : ks[i] = k
                                      ELSE sources[k]]
        /\ completed' = completed \ {ks[i] : i \in 1 .. n}
        /\ pendingCount' = pendingCount
    BY <1>2 DEF SendChat
  <2>2. ASSUME NEW i \in DOMAIN ks
        PROVE  sources'[ks[i]] = first + i /\ first + i \in 0 .. MaxReq
    <3>1. ks[i] \in Keys /\ i \in 1 .. n
      BY <1>1
    <3>2. (CHOOSE j \in 1 .. n : ks[j] = ks[i]) = i
      <4>1. \A j \in 1 .. n : ks[j] = ks[i] => j = i
        BY <1>1 DEF Free
      <4>2. QED
        BY <3>1, <4>1
    <3>3. sources'[ks[i]] = first + CHOOSE j \in 1 .. n : ks[j] = ks[i]
      BY <2>1, <3>1
    <3>4. first + i \in 0 .. MaxReq
      BY <1>1, <3>1, MaxReqAssumption
    <3>5. QED
      BY <3>2, <3>3, <3>4, Zenon
  <2>3. ASSUME NEW k \in Keys, \A i \in DOMAIN ks : ks[i] # k PROVE sources'[k] = sources[k]
    BY <1>1, <2>1, <2>3
  <2>4. sources' \in [Keys -> 0 .. MaxReq]
    <3>1. \A k \in Keys : sources'[k] \in 0 .. MaxReq
      BY <1>1, <2>2, <2>3
    <3>2. QED
      BY <2>1, <3>1
  <2>5. QED
    BY <1>1, <1>2, <2>1, <2>2, <2>3, <2>4
<1>3. CASE ~stream
  <2>1. sources' = sources /\ completed' = completed /\ pendingCount' = pendingCount + n
    BY <1>3 DEF SendChat
  <2>2. QED
    BY <1>1, <1>3, <2>1 DEF Free
<1>4. QED
  BY <1>2, <1>3

\* What sendChat adds keeps the streams, the counter and the order of keys,
\* when the targets are new keys, the next ones in order, or had requests.
LEMMA SendChatStreams ==
  ASSUME NetInv, NEW ks, Free(ks), NEW stream \in BOOLEAN, SendChat(ks, stream)
  PROVE  StreamInv'
<1> DEFINE first == Len(reqs)
<1>0. NetType
  BY DEF NetInv
<1>1. /\ first \in Nat /\ DOMAIN reqs = 1 .. first
      /\ DOMAIN reqs' = 1 .. first + Len(ks) /\ Len(ks) \in Nat /\ DOMAIN ks = 1 .. Len(ks)
      /\ \A r \in DOMAIN reqs : reqs'[r] = reqs[r]
      /\ \A r \in DOMAIN reqs' : r \in DOMAIN reqs \/ \E i \in DOMAIN ks : r = first + i
      /\ \A i \in DOMAIN ks : ks[i] \in Keys
  BY <1>0, FreeLen, SendChatRequests, Zenon
<1>2. ASSUME NEW i \in DOMAIN ks
      PROVE  /\ reqs'[first + i].key = ks[i] /\ reqs'[first + i].stream = stream
             /\ reqs'[first + i].state = "open"
             /\ LastAfter(ks[i], first + i)
             /\ sources'[ks[i]] = IF stream THEN first + i ELSE NoReq
             /\ stream => ks[i] \notin completed'
  <2>1. reqs'[first + i] = [key |-> ks[i], stream |-> stream, state |-> "open"]
    BY <1>0, SendChatRequests
  <2>2. /\ [key |-> ks[i], stream |-> stream, state |-> "open"].key = ks[i]
        /\ [key |-> ks[i], stream |-> stream, state |-> "open"].stream = stream
        /\ [key |-> ks[i], stream |-> stream, state |-> "open"].state = "open"
    OBVIOUS
  <2>3. QED
    BY <1>0, <2>1, <2>2, SendChatKeys, SendChatSources, Zenon
<1>3. ASSUME NEW k \in Keys, sources'[k] # NoReq
      PROVE  (/\ Last(k, sources[k])
              /\ reqs[sources[k]].stream /\ reqs[sources[k]].state \in {"open", "cut"}
              /\ k \notin completed)'
  <2>1. CASE \E i \in DOMAIN ks : ks[i] = k
    BY <1>2, <1>3, <2>1 DEF Last, LastAfter
  <2>2. CASE \A i \in DOMAIN ks : ks[i] # k
    <3>1. sources'[k] = sources[k] /\ RequestsOf(k)' = RequestsOf(k) /\ completed' \subseteq completed
      BY <1>0, <2>2, SendChatKeys, SendChatSources
    <3>2. Last(k, sources[k]) /\ k \notin completed
          /\ reqs[sources[k]].stream /\ reqs[sources[k]].state \in {"open", "cut"}
      BY <1>3, <3>1 DEF NetInv, StreamInv
    <3>3. sources[k] \in DOMAIN reqs
      BY <3>2 DEF Last, RequestsOf
    <3>4. QED
      BY <1>1, <3>1, <3>2, <3>3 DEF Last
  <2>3. QED
    BY <2>1, <2>2
<1>4. ASSUME NEW r \in DOMAIN reqs', reqs'[r].stream, reqs'[r].state \in {"open", "cut"}
      PROVE  sources'[reqs'[r].key] = r
  <2>1. CASE r \in DOMAIN reqs
    <3>1. reqs'[r] = reqs[r]
      BY <1>1, <2>1
    <3>2. sources[reqs[r].key] = r /\ reqs[r].key \in Keys /\ r # NoReq
      BY <1>0, <1>4, <2>1, <3>1, RequestAt DEF NetInv, StreamInv
    <3>3. \A i \in DOMAIN ks : ks[i] # reqs[r].key
      BY <3>2 DEF Free
    <3>4. QED
      BY <1>0, <3>1, <3>2, <3>3, SendChatSources
  <2>2. CASE \E i \in DOMAIN ks : r = first + i
    BY <1>2, <1>4, <2>2
  <2>3. QED
    BY <1>1, <2>1, <2>2
<1>5. QED
  BY <1>3, <1>4 DEF StreamInv

LEMMA SendChatPending ==
  ASSUME NetInv, NEW ks, Free(ks), NEW stream \in BOOLEAN, SendChat(ks, stream)
  PROVE  PendingInv' /\ pendingCount' \in Nat
<1> DEFINE first == Len(reqs)
           new == first + 1 .. first + Len(ks)
<1>0. NetType
  BY DEF NetInv
<1>1. /\ first \in Nat /\ DOMAIN reqs = 1 .. first
      /\ DOMAIN reqs' = 1 .. first + Len(ks) /\ Len(ks) \in Nat /\ DOMAIN ks = 1 .. Len(ks)
      /\ \A r \in DOMAIN reqs : reqs'[r] = reqs[r]
      /\ \A r \in DOMAIN reqs' : r \in DOMAIN reqs \/ \E i \in DOMAIN ks : r = first + i
  BY <1>0, FreeLen, SendChatRequests, Zenon
<1>2. ASSUME NEW r \in new
      PROVE  reqs'[r].stream = stream /\ reqs'[r].state = "open" /\ r \in DOMAIN reqs'
  <2>1. r - first \in DOMAIN ks /\ r = first + (r - first) /\ r \in DOMAIN reqs'
    BY <1>1
  <2>2. PICK i \in DOMAIN ks : r = first + i
    BY <2>1
  <2>3. reqs'[first + i] = [key |-> ks[i], stream |-> stream, state |-> "open"]
    BY <1>0, SendChatRequests
  <2>4. /\ [key |-> ks[i], stream |-> stream, state |-> "open"].stream = stream
        /\ [key |-> ks[i], stream |-> stream, state |-> "open"].state = "open"
    OBVIOUS
  <2>5. QED
    BY <2>1, <2>2, <2>3, <2>4, Zenon
<1>3. \A r \in DOMAIN reqs' : r \in DOMAIN reqs \/ r \in new
  BY <1>1
<1>4. DOMAIN reqs \cap new = {}
  BY <1>1
<1>5. /\ IsFiniteSet(OpenPlain) /\ Cardinality(OpenPlain) \in Nat
      /\ OpenPlain \subseteq DOMAIN reqs
  BY <1>0, OpenPlainFinite DEF OpenPlain
<1>6. pendingCount \in Nat /\ pendingCount <= Cardinality(OpenPlain)
  BY DEF NetInv, NetType, PendingInv
<1>7. pendingCount' = IF stream THEN pendingCount ELSE pendingCount + Len(ks)
  BY <1>0, SendChatSources
<1>8. CASE stream
  <2>1. OpenPlain' = OpenPlain
    <3>1. \A r \in OpenPlain : r \in OpenPlain'
      BY <1>1 DEF OpenPlain
    <3>2. \A r \in OpenPlain' : r \in OpenPlain
      BY <1>1, <1>2, <1>3, <1>8 DEF OpenPlain
    <3>3. QED
      BY <3>1, <3>2
  <2>2. QED
    BY <1>6, <1>7, <1>8, <2>1 DEF PendingInv
<1>9. CASE ~stream
  <2>1. OpenPlain' = OpenPlain \cup new
    <3>1. \A r \in OpenPlain \cup new : r \in OpenPlain'
      BY <1>1, <1>2, <1>9 DEF OpenPlain
    <3>2. \A r \in OpenPlain' : r \in OpenPlain \cup new
      BY <1>1, <1>2, <1>3, <1>9 DEF OpenPlain
    <3>3. QED
      BY <3>1, <3>2
  <2>2. IsFiniteSet(new) /\ Cardinality(new) = Len(ks)
    <3> DEFINE a == first + 1
               b == first + Len(ks)
    <3>1. a \in Int /\ b \in Int /\ (IF a > b THEN 0 ELSE b - a + 1) = Len(ks)
      BY <1>1
    <3> HIDE DEF a, b
    <3>2. IsFiniteSet(a .. b) /\ Cardinality(a .. b) = IF a > b THEN 0 ELSE b - a + 1
      BY <3>1, FS_Interval
    <3>3. QED
      BY <3>1, <3>2 DEF a, b
  <2>3. OpenPlain \cap new = {}
    BY <1>4, <1>5
  <2>4. Cardinality(OpenPlain') = Cardinality(OpenPlain) + Len(ks)
    <3>1. Cardinality(OpenPlain \cap new) = 0
      BY <2>3, FS_EmptySet
    <3>2. Cardinality(OpenPlain \cup new)
            = Cardinality(OpenPlain) + Cardinality(new) - Cardinality(OpenPlain \cap new)
      BY <1>5, <2>2, FS_Union
    <3>3. QED
      BY <1>1, <1>5, <2>1, <2>2, <3>1, <3>2
  <2>5. QED
    BY <1>1, <1>5, <1>6, <1>7, <1>9, <2>4 DEF PendingInv
<1>10. QED
  BY <1>8, <1>9

\* The targets are the next new keys, in order, or keys with requests.
InOrder(ks) ==
  \/ \A i \in DOMAIN ks : ks[i] = KeysUsed + i
  \/ \A i \in DOMAIN ks : RequestsOf(ks[i]) # {}

LEMMA KeysUsedType ==
  KeysUsed \in Nat
<1>1. IsFiniteSet(Keys)
  BY MaxKeysAssumption, FS_Interval DEF Keys
<1>2. {k \in Keys : RequestsOf(k) # {}} \subseteq Keys
  OBVIOUS
<1>3. IsFiniteSet({k \in Keys : RequestsOf(k) # {}})
  BY <1>1, <1>2, FS_Subset
<1>4. QED
  BY <1>3, FS_CardinalityType DEF KeysUsed

LEMMA SendChatOrder ==
  ASSUME NetInv, NEW ks, Free(ks), InOrder(ks), NEW stream \in BOOLEAN, SendChat(ks, stream)
  PROVE  KeyInv'
<1> DEFINE first == Len(reqs)
           used == {k \in Keys : RequestsOf(k) # {}}
           n == Len(ks)
<1>0. NetType
  BY DEF NetInv
<1>1. /\ first \in Nat /\ n \in Nat /\ DOMAIN ks = 1 .. n
      /\ \A i \in DOMAIN ks : ks[i] \in Keys
      /\ DOMAIN reqs' = 1 .. first + n /\ Len(reqs') = first + n
      /\ first + n <= MaxReq
  BY <1>0, FreeLen, SendChatRequests, Zenon
<1>2. \A i \in DOMAIN ks : LastAfter(ks[i], first + i)
  BY <1>0, SendChatKeys
<1>3. \A k : (\A i \in DOMAIN ks : ks[i] # k) => RequestsOf(k)' = RequestsOf(k)
  BY <1>0, SendChatKeys
<1>4. used = 1 .. KeysUsed /\ KeysUsed \in Nat
  BY KeysUsedType DEF NetInv, KeyInv
<1>5. used' = used \cup {ks[i] : i \in DOMAIN ks}
  <2>1. ASSUME NEW i \in DOMAIN ks PROVE ks[i] \in used'
    BY <1>1, <1>2 DEF LastAfter
  <2>2. ASSUME NEW k \in Keys, \A i \in DOMAIN ks : ks[i] # k PROVE k \in used' <=> k \in used
    BY <1>3, <2>2
  <2>3. QED
    BY <1>1, <2>1, <2>2
<1>6. PICK m \in Nat : used' = 1 .. m
  <2>1. CASE \A i \in DOMAIN ks : ks[i] = KeysUsed + i
    <3>1. {ks[i] : i \in DOMAIN ks} = KeysUsed + 1 .. KeysUsed + n
      <4>1. ASSUME NEW x \in KeysUsed + 1 .. KeysUsed + n
            PROVE  \E i \in DOMAIN ks : ks[i] = x
        <5>1. x - KeysUsed \in DOMAIN ks /\ KeysUsed + (x - KeysUsed) = x
          BY <1>1, <1>4
        <5>2. QED
          BY <2>1, <5>1
      <4>2. ASSUME NEW i \in DOMAIN ks PROVE ks[i] \in KeysUsed + 1 .. KeysUsed + n
        BY <1>1, <1>4, <2>1
      <4>3. QED
        BY <4>1, <4>2
    <3>2. used' = 1 .. KeysUsed + n /\ KeysUsed + n \in Nat
      BY <1>1, <1>4, <1>5, <3>1
    <3>3. QED
      BY <3>2
  <2>2. CASE \A i \in DOMAIN ks : RequestsOf(ks[i]) # {}
    BY <1>1, <1>4, <1>5, <2>2
  <2>3. QED
    BY <2>1, <2>2 DEF InOrder
<1>7. KeysUsed' = m
  <2>1. Cardinality(1 .. m) = m
    <3>1. Cardinality(1 .. m) = IF 1 > m THEN 0 ELSE m - 1 + 1
      BY FS_Interval
    <3>2. QED
      BY <3>1
  <2>2. KeysUsed' = Cardinality(used')
    BY DEF KeysUsed
  <2>3. QED
    BY <1>6, <2>1, <2>2
<1>8. ASSUME NEW k \in Keys, RequestsOf(k)' # {} PROVE \E r \in DOMAIN reqs' : Last(k, r)'
  <2>1. CASE \E i \in DOMAIN ks : ks[i] = k
    <3>1. PICK i \in DOMAIN ks : ks[i] = k
      BY <2>1
    <3>2. LastAfter(k, first + i) /\ first + i \in DOMAIN reqs'
      BY <1>1, <1>2, <3>1
    <3>3. QED
      BY <3>2 DEF Last, LastAfter
  <2>2. CASE \A i \in DOMAIN ks : ks[i] # k
    <3>1. RequestsOf(k)' = RequestsOf(k)
      BY <1>3, <2>2
    <3>2. PICK r \in DOMAIN reqs : Last(k, r)
      BY <1>8, <3>1 DEF NetInv, KeyInv
    <3>3. r \in DOMAIN reqs'
      BY <3>1, <3>2 DEF Last, RequestsOf
    <3>4. QED
      BY <3>1, <3>2, <3>3 DEF Last
  <2>3. QED
    BY <2>1, <2>2
<1>9. QED
  BY <1>1, <1>6, <1>7, <1>8 DEF KeyInv

\* sendChat keeps the invariant of the requests.
LEMMA SendChatNet ==
  ASSUME NetInv, NEW ks, Free(ks), InOrder(ks), NEW stream \in BOOLEAN, SendChat(ks, stream)
  PROVE  NetInv'
<1>0. NetType
  BY DEF NetInv
<1>1. reqs' \in Seq(Request) /\ sources' \in [Keys -> 0 .. MaxReq] /\ completed' \subseteq completed
  BY <1>0, SendChatRequests, SendChatSources
<1>2. PendingInv' /\ pendingCount' \in Nat
  BY SendChatPending
<1>3. StreamInv' /\ KeyInv'
  BY SendChatStreams, SendChatOrder
<1>4. QED
  BY <1>0, <1>1, <1>2, <1>3 DEF NetInv, NetType

\* The keys of a new turn are new.
LEMMA TargetsNew ==
  ASSUME NetInv, NEW ks \in Targets
  PROVE  /\ Free(ks) /\ InOrder(ks)
         /\ \A i \in DOMAIN ks : ks[i] \in Keys /\ RequestsOf(ks[i]) = {}
<1>1. PICK n \in 1 .. MaxTargets : ks = [i \in 1 .. n |-> KeysUsed + i]
  BY DEF Targets
<1>2. ks \in Seq(Keys) /\ n \in Nat /\ n > 0
  BY MaxTargetsAssumption DEF Targets
<1>3. DOMAIN ks = 1 .. n /\ Len(ks) = n
  <2>1. DOMAIN ks = 1 .. n /\ ks \in [1 .. n -> Keys]
    BY <1>1, <1>2
  <2>2. QED
    BY <1>2, <2>1, ListOf
<1>4. /\ \A i \in DOMAIN ks : ks[i] = KeysUsed + i /\ ks[i] \in Keys
      /\ KeysUsed \in Nat
  BY <1>1, <1>2, <1>3, KeysUsedType
<1>5. ASSUME NEW i \in DOMAIN ks PROVE RequestsOf(ks[i]) = {}
  <2>1. ks[i] \notin 1 .. KeysUsed
    BY <1>3, <1>4
  <2>2. QED
    BY <1>4, <2>1 DEF NetInv, KeyInv
<1>6. ASSUME NEW i \in DOMAIN ks PROVE sources[ks[i]] = NoReq
  BY <1>4, <1>5 DEF NetInv, StreamInv, Last
<1>7. \A i, j \in DOMAIN ks : ks[i] = ks[j] => i = j
  BY <1>3, <1>4
<1>8. QED
  BY <1>2, <1>3, <1>4, <1>5, <1>6, <1>7 DEF Free, InOrder

\* A reply is asked again when nothing generates.
LEMMA AgainFree ==
  ASSUME NetInv, NEW k \in Keys, RequestsOf(k) # {}, ~IsGenerating
  PROVE  Free(<<k>>) /\ InOrder(<<k>>) /\ Len(<<k>>) = 1 /\ DOMAIN <<k>> = {1} /\ <<k>>[1] = k
<1>1. <<k>> \in Seq(Keys) /\ Len(<<k>>) = 1 /\ DOMAIN <<k>> = {1} /\ <<k>>[1] = k
  OBVIOUS
<1>2. sources[k] = NoReq
  BY DEF IsGenerating
<1>3. QED
  BY <1>1, <1>2 DEF Free, InOrder

-----------------------------------------------------------------------------
(* Replies *)

\* A reply keeps its invariant while nothing happens to its requests.
LEMMA Unmoved ==
  ASSUME NEW m, ReplyInv(m),
         RequestsOf(m.key)' = RequestsOf(m.key),
         \A r \in RequestsOf(m.key) : reqs'[r] = reqs[r],
         sources'[m.key] = sources[m.key],
         sources[m.key] # NoReq => sources[m.key] \in RequestsOf(m.key),
         disturbed \subseteq disturbed' /\ restored' = restored
  PROVE  ReplyInv(m)'
<1>1. StatusInv(m)'
  <2>1. ASSUME m.status \in Waiting, m.key \notin restored'
        PROVE  \E r \in DOMAIN reqs' :
                 Last(m.key, r)' /\ reqs'[r].state \in {"open", "cut", "empty"}
    <3>1. PICK r \in DOMAIN reqs :
             Last(m.key, r) /\ reqs[r].state \in {"open", "cut", "empty"}
      BY <2>1 DEF ReplyInv, StatusInv
    <3>2. r \in RequestsOf(m.key) /\ r \in DOMAIN reqs' /\ reqs'[r] = reqs[r]
      BY <3>1 DEF Last, RequestsOf
    <3>3. QED
      BY <3>1, <3>2 DEF Last
  <2>2. HasPlain(m.key) => HasPlain(m.key)'
    BY DEF HasPlain
  <2>3. QED
    BY <2>1, <2>2 DEF ReplyInv, StatusInv
<1>2. TextInv(m)'
  BY DEF ReplyInv, TextInv, Streams
<1>3. QED
  BY <1>1, <1>2 DEF ReplyInv

Texts == SUBSET (0 .. MaxReq)

LEMMA MessageFields ==
  ASSUME NEW m \in Message
  PROVE  /\ m.key \in Keys /\ m.turn \in Nat /\ m.status \in Waiting \cup Settled
         /\ m.versions \in Seq(Texts) /\ m.active \in Nat
         /\ Len(m.versions) \in Nat /\ Len(m.versions) > 0
         /\ DOMAIN m.versions = 1 .. Len(m.versions)
<1>1. /\ m.key \in Keys /\ m.turn \in Nat /\ m.status \in Waiting \cup Settled
      /\ m.versions \in Seq(Texts) \ {<<>>} /\ m.active \in Nat
  BY DEF Message, Texts
<1>2. Len(m.versions) \in Nat \ {0}
  BY <1>1, EmptySeq
<1>3. QED
  BY <1>1, <1>2

\* The version shown is one of the versions.
LEMMA TextFacts ==
  ASSUME NEW m \in Message
  PROVE  ActiveVersion(m) \in DOMAIN m.versions /\ Text(m) \in Texts
<1>1. ActiveVersion(m) \in DOMAIN m.versions
  BY MessageFields DEF ActiveVersion
<1>2. QED
  BY <1>1, MessageFields DEF Text

\* Another status.
LEMMA StatusFacts ==
  ASSUME NEW m \in Message, NEW s \in Waiting \cup Settled
  PROVE  LET n == [m EXCEPT !.status = s]
         IN  /\ n \in Message /\ n.key = m.key /\ n.status = s
             /\ n.versions = m.versions /\ n.active = m.active /\ Text(n) = Text(m)
<1> DEFINE n == [m EXCEPT !.status = s]
<1>1. n \in Message /\ n.key = m.key /\ n.status = s /\ n.versions = m.versions /\ n.active = m.active
  BY DEF Message
<1>2. Text(n) = Text(m)
  BY <1>1 DEF Text, ActiveVersion
<1>3. QED
  BY <1>1, <1>2

\* Another text in the version shown.
LEMMA WithTextFacts ==
  ASSUME NEW m \in Message, NEW text \in Texts
  PROVE  LET n == WithText(m, text)
         IN  /\ n \in Message /\ n.key = m.key /\ n.status = m.status
             /\ DOMAIN n.versions = DOMAIN m.versions /\ Text(n) = text
             /\ \A v \in DOMAIN m.versions : n.versions[v] = m.versions[v] \/ n.versions[v] = text
<1> DEFINE n == WithText(m, text)
           a == ActiveVersion(m)
           vs == [m.versions EXCEPT ![a] = text]
<1>1. a \in DOMAIN m.versions
  BY TextFacts
<1>2. /\ vs \in Seq(Texts) /\ Len(vs) = Len(m.versions) /\ DOMAIN vs = DOMAIN m.versions
      /\ vs[a] = text /\ \A v \in DOMAIN m.versions : v # a => vs[v] = m.versions[v]
  BY <1>1, MessageFields
<1>3. vs # <<>>
  BY <1>2, MessageFields
<1>4. n = [m EXCEPT !.versions = vs]
  BY DEF WithText
<1>5. vs \in Seq(SUBSET (0 .. MaxReq)) \ {<<>>}
  BY <1>2, <1>3 DEF Texts
<1>6. /\ n \in Message /\ n.key = m.key /\ n.status = m.status
      /\ n.versions = vs /\ n.active = m.active
  <2> HIDE DEF vs
  <2>1. QED
    BY <1>4, <1>5 DEF Message
<1>7. ActiveVersion(n) = a
  BY <1>2, <1>6 DEF ActiveVersion
<1>8. Text(n) = text
  BY <1>2, <1>6, <1>7 DEF Text
<1>9. QED
  BY <1>2, <1>6, <1>8

LEMMA ReplyFacts ==
  ASSUME ListType, NEW m \in Replies
  PROVE  m \in Message /\ m.key \in Keys
<1>1. m \in Message
  BY DEF ListType, Replies
<1>2. QED
  BY <1>1, MessageFields

\* The reply with a given key.
LEMMA ShownFacts ==
  ASSUME ListType, OwnKeyInv, NEW k, k \in KeysOf(messages)
  PROVE  /\ At(messages, k) \in DOMAIN messages
         /\ Shown(k) \in Replies /\ Shown(k) \in Message /\ Shown(k).key = k
         /\ k \in Keys /\ RequestsOf(k) # {}
         /\ \A i \in DOMAIN messages : messages[i].key = k => i = At(messages, k)
         /\ \A m \in Replies : m.key = k => m = Shown(k)
<1>1. \E i \in DOMAIN messages : messages[i].key = k
  BY DEF KeysOf
<1>2. At(messages, k) \in DOMAIN messages /\ messages[At(messages, k)].key = k
  BY <1>1 DEF At
<1>3. Shown(k) \in Replies /\ Shown(k).key = k
  BY <1>2 DEF Shown, Replies
<1>4. Shown(k) \in Message /\ k \in Keys /\ RequestsOf(k) # {}
  BY <1>3, ReplyFacts DEF OwnKeyInv
<1>5. \A i \in DOMAIN messages : messages[i].key = k => i = At(messages, k)
  BY <1>2 DEF OwnKeyInv
<1>6. \A m \in Replies : m.key = k => m = Shown(k)
  BY <1>5 DEF Replies, Shown
<1>7. QED
  BY <1>2, <1>3, <1>4, <1>5, <1>6

\* updateMessageByKey replaces the reply with the key, when there is one.
LEMMA Updated ==
  ASSUME ListType, OwnKeyInv, NEW k, NEW new, UpdateMessageByKey(k, new),
         k \in KeysOf(messages) => new \in Message /\ new.key = k
  PROVE  /\ messages' \in Seq(Message)
         /\ \A m \in Replies' : \/ m \in Replies /\ m.key # k
                                \/ k \in KeysOf(messages) /\ m = new /\ m.key = k
         /\ \A i, j \in DOMAIN messages' : messages'[i].key = messages'[j].key => i = j
         /\ DOMAIN messages' = DOMAIN messages
         /\ \A i \in DOMAIN messages : messages'[i].key = messages[i].key
<1>1. /\ DOMAIN messages' = DOMAIN messages
      /\ \A i \in DOMAIN messages :
            messages'[i] = IF messages[i].key = k THEN new ELSE messages[i]
      /\ messages' = [i \in DOMAIN messages |->
                        IF messages[i].key = k THEN new ELSE messages[i]]
  BY DEF UpdateMessageByKey, UpdateMessages
<1>2. ASSUME NEW i \in DOMAIN messages
      PROVE  messages'[i] \in Message /\ messages'[i].key = messages[i].key
  <2>1. messages[i] \in Message
    BY DEF ListType
  <2>2. CASE messages[i].key = k
    <3>1. k \in KeysOf(messages)
      BY <2>2 DEF KeysOf
    <3>2. QED
      BY <1>1, <2>2, <3>1
  <2>3. CASE messages[i].key # k
    BY <1>1, <2>1, <2>3
  <2>4. QED
    BY <2>2, <2>3
<1>3. messages' \in Seq(Message)
  <2>1. Len(messages) \in Nat /\ DOMAIN messages = 1 .. Len(messages)
    BY DEF ListType
  <2>2. messages' \in [1 .. Len(messages) -> Message]
    BY <1>1, <1>2, <2>1
  <2>3. QED
    BY <2>1, <2>2, ListOf
<1>4. ASSUME NEW m \in Replies'
      PROVE  \/ m \in Replies /\ m.key # k
             \/ k \in KeysOf(messages) /\ m = new /\ m.key = k
  <2>1. PICK i \in DOMAIN messages : m = messages'[i]
    BY <1>1 DEF Replies
  <2>2. CASE messages[i].key = k
    BY <1>1, <2>1, <2>2 DEF KeysOf
  <2>3. CASE messages[i].key # k
    BY <1>1, <2>1, <2>3 DEF Replies
  <2>4. QED
    BY <2>2, <2>3
<1>5. \A i, j \in DOMAIN messages' : messages'[i].key = messages'[j].key => i = j
  BY <1>1, <1>2 DEF OwnKeyInv
<1>6. QED
  BY <1>1, <1>2, <1>3, <1>4, <1>5

\* The texts of a reply after each of the transformations of message-utils.ts.
LEMMA PageTextFacts ==
  PageText \in 0 .. MaxReq /\ {PageText} \in Texts /\ {} \in Texts
  /\ \A r : From({PageText}, r) /\ From({}, r)
  BY MaxReqAssumption DEF PageText, Texts, From

LEMMA WithTextOneEach ==
  ASSUME NEW m \in Message, NEW text \in Texts, OneEach(m),
         NEW r \in 0 .. MaxReq, From(text, r)
  PROVE  OneEach(WithText(m, text))
  BY WithTextFacts DEF OneEach

LEMMA SetErrorFacts ==
  ASSUME NEW m \in Message
  PROVE  LET n == SetError(m)
         IN  /\ n \in Message /\ n.key = m.key /\ n.status = "error"
             /\ Text(n) = {PageText} /\ (OneEach(m) => OneEach(n))
<1> DEFINE w == WithText(m, {PageText})
           n == SetError(m)
<1>1. /\ w \in Message /\ w.key = m.key /\ Text(w) = {PageText}
  BY PageTextFacts, WithTextFacts
<1>2. OneEach(m) => OneEach(w)
  BY PageTextFacts, WithTextOneEach
<1>3. n = [w EXCEPT !.status = "error"] /\ "error" \in Waiting \cup Settled
  BY DEF SetError, Settled
<1>4. n \in Message /\ n.key = w.key /\ n.status = "error" /\ n.versions = w.versions /\ Text(n) = Text(w)
  <2> HIDE DEF w
  <2>1. QED
    BY <1>1, <1>3, StatusFacts
<1>5. QED
  BY <1>1, <1>2, <1>4 DEF OneEach

LEMMA TruncateFacts ==
  ASSUME NEW m \in Message
  PROVE  LET n == Truncate(m)
         IN  /\ n \in Message /\ n.key = m.key /\ n.status \notin Waiting
             /\ n.status # "streaming" /\ (OneEach(m) => OneEach(n))
<1>1. CASE m.status \in Waiting
  <2>1. Truncate(m) = [m EXCEPT !.status = "truncated"] /\ "truncated" \in Waiting \cup Settled
    BY <1>1 DEF Truncate, Settled
  <2>2. /\ Truncate(m) \in Message /\ Truncate(m).key = m.key
        /\ Truncate(m).status = "truncated" /\ Truncate(m).versions = m.versions
    BY <2>1, StatusFacts
  <2>3. QED
    BY <2>2 DEF Waiting, OneEach
<1>2. CASE m.status \notin Waiting
  BY <1>2 DEF Truncate, Waiting
<1>3. QED
  BY <1>1, <1>2

LEMMA SanitizeFacts ==
  ASSUME NEW m \in Message
  PROVE  LET n == SanitizeOnLoad(m)
         IN  /\ n \in Message /\ n.key = m.key /\ n.status \notin Waiting
             /\ n.status # "streaming" /\ (OneEach(m) => OneEach(n))
<1>1. SanitizeOnLoad(m) \in {SetError(m), Truncate(m)}
  BY DEF SanitizeOnLoad
<1>2. QED
  BY <1>1, SetErrorFacts, TruncateFacts DEF Waiting

LEMMA PushVersionFacts ==
  ASSUME NEW m \in Message
  PROVE  LET n == PushAssistantVersion(m)
         IN  /\ n \in Message /\ n.key = m.key /\ n.status = "loading"
             /\ Text(n) = {} /\ (OneEach(m) => OneEach(n))
<1> DEFINE vs == Append(m.versions, {})
           n == PushAssistantVersion(m)
<1>1. /\ vs \in Seq(Texts) /\ vs # <<>> /\ Len(vs) = Len(m.versions) + 1
      /\ DOMAIN vs = 1 .. Len(m.versions) + 1 /\ vs[Len(m.versions) + 1] = {}
      /\ \A v \in DOMAIN m.versions : vs[v] = m.versions[v]
  BY MessageFields, PageTextFacts, AppendProperties
<1>2. n = [m EXCEPT !.versions = vs, !.active = Len(m.versions) + 1, !.status = "loading"]
  BY DEF PushAssistantVersion
<1>3. Len(m.versions) \in Nat /\ Len(m.versions) + 1 \in Nat /\ Len(m.versions) + 1 \in DOMAIN vs
      /\ DOMAIN m.versions = 1 .. Len(m.versions)
  BY <1>1, MessageFields
<1>4. vs \in Seq(SUBSET (0 .. MaxReq)) \ {<<>>}
  BY <1>1 DEF Texts
<1>5. /\ n \in Message /\ n.key = m.key /\ n.status = "loading"
      /\ n.versions = vs /\ n.active = Len(m.versions) + 1
  <2> HIDE DEF vs
  <2>1. QED
    BY <1>2, <1>3, <1>4 DEF Message, Waiting
<1>6. Text(n) = {}
  BY <1>1, <1>3, <1>5 DEF Text, ActiveVersion
<1>7. ASSUME OneEach(m) PROVE OneEach(n)
  <2>1. ASSUME NEW v \in DOMAIN vs PROVE \E r \in 0 .. MaxReq : From(vs[v], r)
    <3>1. CASE v \in DOMAIN m.versions
      BY <1>1, <1>7, <3>1 DEF OneEach
    <3>2. CASE v \notin DOMAIN m.versions
      <4>1. v = Len(m.versions) + 1
        BY <1>1, <1>3, <3>2
      <4>2. QED
        BY <1>1, <4>1, PageTextFacts
    <3>3. QED
      BY <3>1, <3>2
  <2>2. QED
    BY <1>5, <2>1 DEF OneEach
<1>8. QED
  BY <1>5, <1>6, <1>7

LEMMA LoadingFacts ==
  ASSUME NEW k \in Keys, NEW t \in Nat
  PROVE  LET n == LoadingMessage(k, t)
         IN  /\ n \in Message /\ n.key = k /\ n.status = "loading"
             /\ Text(n) = {} /\ OneEach(n)
<1> DEFINE n == LoadingMessage(k, t)
<1>1. <<{}>> \in Seq(SUBSET (0 .. MaxReq)) \ {<<>>}
  OBVIOUS
<1>2. n.key = k /\ n.status = "loading" /\ n.versions = <<{}>> /\ n.active = 1
  BY DEF LoadingMessage
<1>3. n \in Message
  BY <1>1 DEF LoadingMessage, Message, Waiting
<1>4. Text(n) = {}
  BY <1>2 DEF Text, ActiveVersion
<1>5. OneEach(n)
  BY <1>2, PageTextFacts DEF OneEach
<1>6. QED
  BY <1>2, <1>3, <1>4, <1>5

\* A plain answer.
Answered(m, r) == [m EXCEPT !.versions = <<{r}>>, !.status = "complete"]
LEMMA AnsweredFacts ==
  ASSUME NEW m \in Message, NEW r \in 0 .. MaxReq
  PROVE  LET n == Answered(m, r)
         IN  n \in Message /\ n.key = m.key /\ n.status = "complete" /\ OneEach(n)
<1> DEFINE n == Answered(m, r)
<1>1. <<{r}>> \in Seq(SUBSET (0 .. MaxReq)) \ {<<>>}
  OBVIOUS
<1>2. n.key = m.key /\ n.status = "complete" /\ n.versions = <<{r}>> /\ n \in Message
  BY <1>1 DEF Answered, Message, Settled
<1>3. OneEach(n)
  BY <1>2 DEF OneEach, From
<1>4. QED
  BY <1>2, <1>3

\* Another version shown.
LEMMA ActiveFacts ==
  ASSUME NEW m \in Message, NEW i \in Nat
  PROVE  LET n == [m EXCEPT !.active = i]
         IN  n \in Message /\ n.key = m.key /\ n.status = m.status /\ n.versions = m.versions
  BY DEF Message

-----------------------------------------------------------------------------
(* Steps on one reply *)

\* A step on the requests and the reply of key k keeps the invariant when the
\* reply that is shown afterwards satisfies it.
LEMMA OneReply ==
  ASSUME IInv, NetInv', SameRequests, NEW k, NEW new, UpdateMessageByKey(k, new),
         \A q \in DOMAIN reqs : reqs[q].key # k => reqs'[q] = reqs[q],
         \A j \in Keys : j # k => sources'[j] = sources[j],
         disturbed \subseteq disturbed' /\ restored' = restored, disturbed' \subseteq Keys,
         k \in KeysOf(messages) => new \in Message /\ new.key = k /\ ReplyInv(new)'
  PROVE  IInv'
<1>0. NetInv /\ ListType /\ OwnKeyInv
  BY DEF IInv
<1>1. /\ messages' \in Seq(Message)
      /\ \A m \in Replies' : \/ m \in Replies /\ m.key # k
                             \/ k \in KeysOf(messages) /\ m = new /\ m.key = k
      /\ \A i, j \in DOMAIN messages' : messages'[i].key = messages'[j].key => i = j
  BY <1>0, Updated
<1>2. \A j : RequestsOf(j)' = RequestsOf(j)
  BY SameKeys
<1>3. ASSUME NEW m \in Replies' PROVE ReplyInv(m)' /\ RequestsOf(m.key)' # {}
  <2>1. CASE m \in Replies /\ m.key # k
    <3>1. m.key \in Keys /\ ReplyInv(m) /\ RequestsOf(m.key) # {}
      BY <1>0, <2>1, ReplyFacts DEF IInv, OwnKeyInv
    <3>2. \A r \in RequestsOf(m.key) : reqs'[r] = reqs[r]
      BY <2>1 DEF RequestsOf
    <3>3. sources'[m.key] = sources[m.key]
      BY <2>1, <3>1
    <3>4. sources[m.key] # NoReq => sources[m.key] \in RequestsOf(m.key)
      BY <1>0, <3>1 DEF NetInv, StreamInv, Last
    <3>5. ReplyInv(m)'
      BY <1>2, <3>1, <3>2, <3>3, <3>4, Unmoved
    <3>6. QED
      BY <1>2, <3>1, <3>5
  <2>2. CASE k \in KeysOf(messages) /\ m = new /\ m.key = k
    <3>1. RequestsOf(k) # {}
      BY <1>0, <2>2, ShownFacts
    <3>2. QED
      BY <1>2, <2>2, <3>1
  <2>3. QED
    BY <1>1, <2>1, <2>2
<1>4. OwnKeyInv' /\ ListType'
  BY <1>0, <1>1, <1>3 DEF OwnKeyInv, ListType
<1>5. QED
  BY <1>3, <1>4 DEF IInv

\* Nothing changes in the list.
LEMMA SameList ==
  ASSUME ListType, OwnKeyInv, NEW k, messages' = messages
  PROVE  UpdateMessageByKey(k, Shown(k))
<1>1. \A i \in DOMAIN messages : messages[i].key = k => messages[i] = Shown(k)
  <2>1. ASSUME NEW i \in DOMAIN messages, messages[i].key = k PROVE messages[i] = Shown(k)
    <3>1. k \in KeysOf(messages)
      BY <2>1 DEF KeysOf
    <3>2. QED
      BY <2>1, <3>1, ShownFacts DEF Shown
  <2>2. QED
    BY <2>1
<1>2. messages = [i \in DOMAIN messages |-> messages[i]]
  BY DEF ListType
<1>3. messages' = [i \in DOMAIN messages |->
                     IF messages[i].key = k THEN Shown(k) ELSE messages[i]]
  BY <1>1, <1>2
<1>4. QED
  BY <1>3 DEF UpdateMessageByKey, UpdateMessages

\* A step that leaves the requests alone.
LEMMA SameNet ==
  ASSUME NetInv, UNCHANGED net
  PROVE  /\ NetInv' /\ SameRequests /\ reqs' = reqs /\ sources' = sources
         /\ \A k : RequestsOf(k)' = RequestsOf(k)
         /\ \A k, r : Last(k, r)' <=> Last(k, r)
<1>1. reqs' = reqs /\ sources' = sources /\ completed' = completed /\ pendingCount' = pendingCount
  BY DEF net
<1>2. SameRequests
  BY <1>1 DEF SameRequests, NetInv, NetType
<1>3. NetType' /\ StreamInv' /\ PendingInv'
  <2>1. OpenPlain' = OpenPlain
    BY <1>1 DEF OpenPlain
  <2>2. \A k : RequestsOf(k)' = RequestsOf(k)
    BY <1>2, SameKeys
  <2>3. StreamInv'
    BY <1>1, <2>2 DEF NetInv, StreamInv, Last
  <2>4. QED
    BY <1>1, <2>1, <2>3 DEF NetInv, NetType, PendingInv
<1>4. QED
  BY <1>1, <1>2, <1>3, SameKeys DEF NetInv

\* The user changes a reply that is shown, and no request.
LEMMA ChangeVersionKeeps ==
  ASSUME IInv, NEW k \in Keys, NEW i, ChangeVersion(k, i)
  PROVE  IInv'
<1>0. NetInv /\ ListType /\ OwnKeyInv /\ k \in KeysOf(messages)
  BY DEF IInv, ChangeVersion, account
<1>1. /\ NetInv' /\ SameRequests /\ reqs' = reqs /\ sources' = sources
      /\ \A j : RequestsOf(j)' = RequestsOf(j)
  BY <1>0, SameNet DEF ChangeVersion, account
<1>2. PICK m : m = Shown(k)
  OBVIOUS
<1>3. PICK n : n = [m EXCEPT !.active = i]
  OBVIOUS
<1>4. m \in Message /\ m \in Replies /\ m.key = k
  BY <1>0, <1>2, ShownFacts
<1>5. i \in Nat
  BY <1>2, <1>4, MessageFields DEF ChangeVersion, account
<1>6. n \in Message /\ n.key = k /\ n.status = m.status /\ n.versions = m.versions
  BY <1>3, <1>4, <1>5, ActiveFacts
<1>7. disturbed \subseteq disturbed' /\ restored' = restored /\ disturbed' \subseteq Keys
  BY <1>0 DEF ChangeVersion, ListType, account
<1>8. ReplyInv(n)'
  <2>1. ReplyInv(m)
    BY <1>4 DEF IInv
  <2>2. StatusInv(n)'
    BY <1>1, <1>4, <1>6, <1>7, <2>1 DEF ReplyInv, StatusInv, Last, HasPlain
  <2>3. TextInv(n)'
    <3>1. CASE \E r \in RequestsOf(k) : reqs[r].state = "open"
      BY <1>6, <3>1 DEF ChangeVersion, TextInv, account
    <3>2. CASE ~ \E r \in RequestsOf(k) : reqs[r].state = "open"
      <4>1. ~ Streams(k)
        BY <1>0, <3>2 DEF Streams, NetInv, StreamInv, Last
      <4>2. disturbed' = disturbed /\ restored' = restored
        BY <3>2 DEF ChangeVersion, account
      <4>3. k \notin disturbed \cup restored => OneEach(n)
        BY <1>4, <1>6, <2>1 DEF ReplyInv, TextInv, OneEach
      <4>4. QED
        BY <1>1, <1>6, <4>1, <4>2, <4>3 DEF TextInv, Streams
    <3>3. QED
      BY <3>1, <3>2
  <2>4. QED
    BY <2>2, <2>3 DEF ReplyInv
<1>9. UpdateMessageByKey(k, n)
  BY <1>2, <1>3 DEF ChangeVersion, account
<1>10. QED
  BY <1>1, <1>6, <1>7, <1>8, <1>9, OneReply

LEMMA SaveEditKeeps ==
  ASSUME IInv, NEW k \in Keys, SaveEdit(k)
  PROVE  IInv'
<1>0. NetInv /\ ListType /\ OwnKeyInv /\ k \in KeysOf(messages)
  BY DEF IInv, SaveEdit, account
<1>1. /\ NetInv' /\ SameRequests /\ reqs' = reqs /\ sources' = sources
      /\ \A j : RequestsOf(j)' = RequestsOf(j)
  BY <1>0, SameNet DEF SaveEdit, account
<1>2. PICK m : m = Shown(k)
  OBVIOUS
<1>3. PICK n : n = WithText(m, {PageText})
  OBVIOUS
<1>4. m \in Message /\ m \in Replies /\ m.key = k
  BY <1>0, <1>2, ShownFacts
<1>5. n \in Message /\ n.key = k /\ n.status = m.status /\ Text(n) = {PageText}
  BY <1>3, <1>4, PageTextFacts, WithTextFacts
<1>6. OneEach(m) => OneEach(n)
  BY <1>3, <1>4, PageTextFacts, WithTextOneEach
<1>7. disturbed' = disturbed /\ restored' = restored /\ disturbed \subseteq Keys
  BY <1>0 DEF SaveEdit, ListType, account
<1>8. ReplyInv(n)'
  <2>1. ReplyInv(m)
    BY <1>4 DEF IInv
  <2>2. StatusInv(n)'
    BY <1>1, <1>4, <1>5, <1>7, <2>1 DEF ReplyInv, StatusInv, Last, HasPlain
  <2>3. TextInv(n)'
    BY <1>4, <1>5, <1>6, <1>7, <2>1, PageTextFacts DEF ReplyInv, TextInv
  <2>4. QED
    BY <2>2, <2>3 DEF ReplyInv
<1>9. UpdateMessageByKey(k, n)
  BY <1>2, <1>3 DEF SaveEdit, account
<1>10. QED
  BY <1>1, <1>5, <1>7, <1>8, <1>9, OneReply

\* A chunk writes into the version of the stream that runs.
LEMMA StreamChunkKeeps ==
  ASSUME IInv, NEW r, NEW kind, StreamChunk(r, kind)
  PROVE  IInv'
<1>0. NetInv /\ ListType /\ OwnKeyInv /\ Streaming(r)
  BY DEF IInv, StreamChunk, account
<1>1. /\ NetInv' /\ SameRequests /\ reqs' = reqs /\ sources' = sources
      /\ \A j : RequestsOf(j)' = RequestsOf(j)
  BY <1>0, SameNet DEF StreamChunk, account
<1>2. PICK k : k = reqs[r].key
  OBVIOUS
<1>3. /\ r \in DOMAIN reqs /\ reqs[r].state = "open" /\ r # NoReq
      /\ k \in Keys /\ sources[k] = r /\ Last(k, r)
  BY <1>0, <1>2, StreamingFacts
<1>4. r \in 0 .. MaxReq
  BY <1>0, <1>3 DEF NetInv, NetType
<1>5. PICK m : m = Shown(k)
  OBVIOUS
<1>6. PICK text : text = Text(m) \cup (IF kind = "refusal" THEN {} ELSE {r})
  OBVIOUS
<1>7. PICK n : n = IF kind # "tools" /\ m.status = "error" THEN m
                   ELSE [WithText(m, text) EXCEPT !.status = "streaming"]
  OBVIOUS
<1>8. disturbed' = disturbed /\ restored' = restored /\ disturbed \subseteq Keys
  BY <1>0 DEF StreamChunk, ListType, account
<1>9. UpdateMessageByKey(k, n)
  BY <1>2, <1>5, <1>6, <1>7 DEF StreamChunk, account
<1>10. ASSUME k \in KeysOf(messages) PROVE n \in Message /\ n.key = k /\ ReplyInv(n)'
  <2>1. m \in Message /\ m \in Replies /\ m.key = k /\ ReplyInv(m)
    BY <1>0, <1>5, <1>10, ShownFacts DEF IInv
  <2>2. text \in Texts
    BY <1>4, <1>6, <2>1, TextFacts DEF Texts
  <2>3. CASE n = m
    <3>1. StatusInv(m)'
      BY <1>1, <1>8, <2>1 DEF ReplyInv, StatusInv, Last, HasPlain
    <3>2. TextInv(m)'
      BY <1>1, <1>8, <2>1 DEF ReplyInv, TextInv, Streams
    <3>3. QED
      BY <2>1, <2>3, <3>1, <3>2 DEF ReplyInv
  <2>4. CASE n # m
    <3>1. PICK w : w = WithText(m, text)
      OBVIOUS
    <3>2. w \in Message /\ w.key = k /\ Text(w) = text
      BY <2>1, <2>2, <3>1, WithTextFacts
    <3>3. n = [w EXCEPT !.status = "streaming"] /\ "streaming" \in Waiting \cup Settled
      BY <1>7, <2>4, <3>1 DEF Waiting
    <3>4. /\ n \in Message /\ n.key = k /\ n.status = "streaming"
          /\ n.versions = w.versions /\ Text(n) = text
      BY <3>2, <3>3, StatusFacts
    <3>5. StatusInv(n)'
      BY <1>1, <1>3, <3>4 DEF StatusInv, Last
    <3>6. ASSUME k \notin disturbed \cup restored PROVE OneEach(n) /\ From(text, r)
      <4>1. OneEach(m) /\ From(Text(m), r)
        BY <1>3, <2>1, <3>6 DEF ReplyInv, TextInv, Streams
      <4>2. From(text, r)
        BY <1>6, <4>1 DEF From
      <4>3. OneEach(w)
        BY <1>4, <2>1, <2>2, <3>1, <4>1, <4>2, WithTextOneEach
      <4>4. QED
        BY <3>4, <4>2, <4>3 DEF OneEach
    <3>7. TextInv(n)'
      BY <1>1, <1>3, <1>8, <3>4, <3>6 DEF TextInv
    <3>8. QED
      BY <3>4, <3>5, <3>7 DEF ReplyInv
  <2>5. QED
    BY <2>3, <2>4
<1>11. QED
  BY <1>1, <1>8, <1>9, <1>10, OneReply

\* The stream of k ends and its reply is settled.
LEMMA StreamSettles ==
  ASSUME IInv, NEW r, Streaming(r), Ends(r, "over"), NEW k, k = reqs[r].key,
         sources' = [sources EXCEPT ![k] = NoReq],
         completed' \subseteq completed \cup {k},
         pendingCount' = pendingCount, disturbed' = disturbed /\ restored' = restored,
         NEW m, m = Shown(k), NEW n, UpdateMessageByKey(k, n),
         m \in Message /\ m.key = k =>
            /\ n \in Message /\ n.key = k /\ n.status \notin Waiting
            /\ OneEach(m) => OneEach(n)
  PROVE  IInv'
<1>0. NetInv /\ ListType /\ OwnKeyInv
  BY DEF IInv
<1>1. NetInv'
  BY <1>0, StreamEndsNet
<1>2. r \in DOMAIN reqs /\ k \in Keys /\ NetType
  BY <1>0, StreamingFacts DEF NetInv
<1>3. SameRequests /\ \A q \in DOMAIN reqs : reqs[q].key # k => reqs'[q] = reqs[q]
  BY <1>2, EndsFacts DEF SameRequests
<1>4. \A j \in Keys : j # k => sources'[j] = sources[j]
  BY <1>2 DEF NetType
<1>5. sources'[k] = NoReq
  BY <1>2 DEF NetType
<1>6. ASSUME k \in KeysOf(messages) PROVE n \in Message /\ n.key = k /\ ReplyInv(n)'
  <2>1. m \in Message /\ m.key = k /\ ReplyInv(m)
    BY <1>0, <1>6, ShownFacts DEF IInv
  <2>2. StatusInv(n)'
    BY <1>5, <2>1 DEF StatusInv, Waiting
  <2>3. TextInv(n)'
    BY <1>5, <2>1 DEF ReplyInv, TextInv, Streams
  <2>4. QED
    BY <2>1, <2>2, <2>3 DEF ReplyInv
<1>7. QED
  BY <1>0, <1>1, <1>3, <1>4, <1>6, OneReply DEF ListType

LEMMA StreamDoneKeeps ==
  ASSUME IInv, NEW r, StreamDone(r)
  PROVE  IInv'
<1>1. PICK k, m, n : /\ k = reqs[r].key /\ m = Shown(k)
                     /\ n = IF m.status \in Settled THEN m ELSE [m EXCEPT !.status = "complete"]
  OBVIOUS
<1>2. /\ Streaming(r) /\ Ends(r, "over") /\ sources' = [sources EXCEPT ![k] = NoReq]
      /\ completed' \subseteq completed \cup {k} /\ pendingCount' = pendingCount
      /\ disturbed' = disturbed /\ restored' = restored /\ UpdateMessageByKey(k, n)
  BY <1>1 DEF StreamDone, Streaming, Ends, CloseStream, account
<1>3. ASSUME m \in Message, m.key = k
      PROVE  /\ n \in Message /\ n.key = k /\ n.status \notin Waiting
             /\ OneEach(m) => OneEach(n)
  <2>1. CASE m.status \in Settled
    BY <1>1, <1>3, <2>1 DEF Settled, Waiting
  <2>2. CASE m.status \notin Settled
    <3>1. n = [m EXCEPT !.status = "complete"] /\ "complete" \in Waiting \cup Settled
      BY <1>1, <2>2 DEF Settled
    <3>2. n \in Message /\ n.key = k /\ n.status = "complete" /\ n.versions = m.versions
      BY <1>3, <3>1, StatusFacts
    <3>3. QED
      BY <3>2 DEF OneEach, Waiting
  <2>3. QED
    BY <2>1, <2>2
<1>4. QED
  BY <1>1, <1>2, <1>3, StreamSettles

LEMMA StreamErrorKeeps ==
  ASSUME IInv, NEW r, StreamError(r)
  PROVE  IInv'
<1>1. PICK k, m, n : k = reqs[r].key /\ m = Shown(k) /\ n = SetError(m)
  OBVIOUS
<1>2. Streaming(r) /\ Ends(r, "over") /\ k \notin completed
  BY <1>1, StreamingFacts DEF StreamError, Streaming, Ends, IInv, account
<1>3. /\ sources' = [sources EXCEPT ![k] = NoReq]
      /\ completed' \subseteq completed \cup {k} /\ pendingCount' = pendingCount
      /\ disturbed' = disturbed /\ restored' = restored /\ UpdateMessageByKey(k, n)
  BY <1>1, <1>2 DEF StreamError, CloseStream, account
<1>4. ASSUME m \in Message, m.key = k
      PROVE  /\ n \in Message /\ n.key = k /\ n.status \notin Waiting
             /\ OneEach(m) => OneEach(n)
  BY <1>1, <1>4, SetErrorFacts DEF Waiting
<1>5. QED
  BY <1>1, <1>2, <1>3, <1>4, StreamSettles

\* A request that ends without a word to the page leaves its reply waiting.
LEMMA SilentEnd ==
  ASSUME IInv, NetInv', NEW r, NEW state \in {"cut", "empty"}, Ends(r, state),
         sources' = sources, messages' = messages, disturbed' = disturbed /\ restored' = restored
  PROVE  IInv'
<1>0. NetInv /\ ListType /\ OwnKeyInv /\ NetType
  BY DEF IInv, NetInv
<1>1. PICK k, m : k = reqs[r].key /\ m = Shown(k)
  OBVIOUS
<1>2. /\ SameRequests /\ reqs'[r].state = state
      /\ \A q \in DOMAIN reqs : q # r => reqs'[q] = reqs[q]
      /\ DOMAIN reqs' = DOMAIN reqs
  BY <1>0, EndsFacts DEF SameRequests
<1>3. \A j : RequestsOf(j)' = RequestsOf(j)
  BY <1>2, SameKeys
<1>4. UpdateMessageByKey(k, m)
  BY <1>0, <1>1, SameList
<1>5. ASSUME k \in KeysOf(messages) PROVE m \in Message /\ m.key = k /\ ReplyInv(m)'
  <2>1. m \in Message /\ m.key = k /\ ReplyInv(m) /\ k \in Keys
    BY <1>0, <1>1, <1>5, ShownFacts DEF IInv
  <2>2. StatusInv(m)'
    <3>1. ASSUME m.status \in Waiting, m.key \notin restored'
          PROVE  \E q \in DOMAIN reqs' :
                   Last(m.key, q)' /\ reqs'[q].state \in {"open", "cut", "empty"}
      <4>1. PICK q \in DOMAIN reqs :
               Last(m.key, q) /\ reqs[q].state \in {"open", "cut", "empty"}
        BY <2>1, <3>1 DEF ReplyInv, StatusInv
      <4>2. reqs'[q].state \in {"open", "cut", "empty"}
        BY <1>2, <4>1
      <4>3. Last(m.key, q)'
        BY <1>3, <4>1 DEF Last
      <4>4. QED
        BY <1>2, <4>1, <4>2, <4>3
    <3>2. HasPlain(k)' <=> HasPlain(k)
      BY <1>2, SameKeys
    <3>3. QED
      BY <2>1, <3>1, <3>2 DEF ReplyInv, StatusInv
  <2>3. TextInv(m)'
    <3>1. Streams(k)' => Streams(k)
      <4>1. ASSUME sources[k] # NoReq, reqs'[sources[k]].state = "open"
            PROVE  reqs[sources[k]].state = "open"
        <5>1. sources[k] \in DOMAIN reqs
          BY <1>0, <2>1, <4>1 DEF NetInv, StreamInv, Last, RequestsOf
        <5>2. QED
          BY <1>2, <4>1, <5>1
      <4>2. QED
        BY <4>1 DEF Streams
    <3>2. QED
      BY <2>1, <3>1 DEF ReplyInv, TextInv
  <2>4. QED
    BY <2>1, <2>2, <2>3 DEF ReplyInv
<1>6. QED
  BY <1>0, <1>1, <1>2, <1>4, <1>5, OneReply DEF ListType

LEMMA StreamCutKeeps ==
  ASSUME IInv, NEW r, StreamCut(r)
  PROVE  IInv'
<1>1. /\ Streaming(r) /\ Ends(r, "cut") /\ sources' = sources /\ messages' = messages
      /\ disturbed' = disturbed /\ restored' = restored /\ completed' = completed /\ pendingCount' = pendingCount
  BY DEF StreamCut, Streaming, Ends, account
<1>2. NetInv'
  BY <1>1, StreamEndsNet DEF IInv
<1>3. QED
  BY <1>1, <1>2, SilentEnd

LEMMA PlainEmptyKeeps ==
  ASSUME IInv, NEW r, PlainEmpty(r)
  PROVE  IInv'
<1>1. NetInv' /\ Ends(r, "empty")
  BY PlainEndsNet DEF IInv, PlainEmpty, account
<1>2. sources' = sources /\ messages' = messages /\ disturbed' = disturbed /\ restored' = restored
  BY DEF PlainEmpty, PlainEnds, account
<1>3. QED
  BY <1>1, <1>2, SilentEnd

\* The last request of a key that has one.
LEMMA LastRequestFacts ==
  ASSUME NetInv, NEW k \in Keys, RequestsOf(k) # {}
  PROVE  /\ Last(k, LastRequest(k)) /\ LastRequest(k) \in DOMAIN reqs
         /\ \A r : Last(k, r) => r = LastRequest(k)
<1>1. PICK r \in DOMAIN reqs : Last(k, r)
  BY DEF NetInv, KeyInv
<1>2. LastRequest(k) \in RequestsOf(k) /\ \A q \in RequestsOf(k) : q <= LastRequest(k)
  BY <1>1 DEF LastRequest, Last
<1>3. \A q \in RequestsOf(k) : q \in Nat
  BY DEF RequestsOf, NetInv, NetType
<1>4. QED
  BY <1>2, <1>3 DEF Last, RequestsOf

\* A plain request is answered or fails, and its reply is settled.
LEMMA PlainSettles ==
  ASSUME IInv, NEW r, PlainEnds(r, "over"), NEW k, k = reqs[r].key,
         disturbed \subseteq disturbed' /\ restored' = restored, disturbed' \subseteq disturbed \cup {k},
         NEW m, m = Shown(k), NEW n, UpdateMessageByKey(k, n),
         m \in Message /\ m.key = k =>
            /\ n \in Message /\ n.key = k /\ n.status \notin Waiting /\ n.status # "truncated"
            /\ OneEach(m) => OneEach(n)
            /\ (\A q : From(Text(n), q)) \/ (r = LastRequest(k)) \/ k \in disturbed'
  PROVE  IInv'
<1>0. NetInv /\ ListType /\ OwnKeyInv /\ NetType
  BY DEF IInv, NetInv
<1>1. NetInv' /\ Ends(r, "over") /\ ~reqs[r].stream /\ sources' = sources
  BY <1>0, PlainEndsNet DEF PlainEnds
<1>2. /\ SameRequests /\ reqs'[r].state = "over"
      /\ \A q \in DOMAIN reqs : q # r => reqs'[q] = reqs[q]
  BY <1>0, <1>1, EndsFacts DEF SameRequests
<1>3. r \in DOMAIN reqs /\ k \in Keys
  BY <1>0, <1>1, RequestAt DEF Ends
<1>4. disturbed' \subseteq Keys
  BY <1>0, <1>3 DEF ListType
<1>5. ASSUME k \in KeysOf(messages) PROVE n \in Message /\ n.key = k /\ ReplyInv(n)'
  <2>1. m \in Message /\ m.key = k /\ ReplyInv(m) /\ RequestsOf(k) # {}
    BY <1>0, <1>5, ShownFacts DEF IInv
  <2>2. StatusInv(n)'
    BY <2>1 DEF StatusInv, Waiting
  <2>3. ASSUME k \notin (disturbed \cup restored)', Streams(k)' PROVE From(Text(n), sources[k])
    <3>1. sources[k] # NoReq
      BY <1>1, <2>3 DEF Streams
    <3>2. Last(k, sources[k]) /\ reqs[sources[k]].stream
      BY <1>0, <1>3, <3>1 DEF NetInv, StreamInv
    <3>3. r # LastRequest(k)
      BY <1>0, <1>1, <1>3, <2>1, <3>2, LastRequestFacts
    <3>4. QED
      BY <2>1, <2>3, <3>3
  <2>4. TextInv(n)'
    BY <1>1, <2>1, <2>3 DEF ReplyInv, TextInv
  <2>5. QED
    BY <2>1, <2>2, <2>4 DEF ReplyInv
<1>6. QED
  BY <1>1, <1>2, <1>4, <1>5, OneReply

LEMMA PlainAnswerKeeps ==
  ASSUME IInv, NEW r, PlainAnswer(r)
  PROVE  IInv'
<1>1. PICK k, m, n : k = reqs[r].key /\ m = Shown(k) /\ n = Answered(m, r)
  OBVIOUS
<1>2. PlainEnds(r, "over") /\ UpdateMessageByKey(k, n)
  BY <1>1 DEF PlainAnswer, Answered, account
<1>3. /\ disturbed' = IF r = LastRequest(k) THEN disturbed ELSE disturbed \cup {k}
      /\ restored' = restored
  BY <1>1 DEF PlainAnswer, account
<1>4. r \in 0 .. MaxReq
  <2>1. r \in DOMAIN reqs /\ reqs \in Seq(Request) /\ Len(reqs) <= MaxReq
    BY <1>2 DEF PlainEnds, OpenPlain, IInv, NetInv, NetType, KeyInv
  <2>2. QED
    BY <2>1, MaxReqAssumption
<1>5. ASSUME m \in Message, m.key = k
      PROVE  n \in Message /\ n.key = k /\ n.status = "complete" /\ OneEach(n)
  BY <1>1, <1>4, <1>5, AnsweredFacts
<1>6. QED
  BY <1>1, <1>2, <1>3, <1>5, PlainSettles DEF Waiting

LEMMA PlainErrorKeeps ==
  ASSUME IInv, NEW r, PlainError(r)
  PROVE  IInv'
<1>1. PICK k, m, n : k = reqs[r].key /\ m = Shown(k) /\ n = SetError(m)
  OBVIOUS
<1>2. PlainEnds(r, "over") /\ UpdateMessageByKey(k, n) /\ disturbed' = disturbed /\ restored' = restored
  BY <1>1 DEF PlainError, account
<1>3. ASSUME m \in Message, m.key = k
      PROVE  /\ n \in Message /\ n.key = k /\ n.status = "error"
             /\ OneEach(m) => OneEach(n)
             /\ \A q : From(Text(n), q)
  BY <1>1, <1>3, SetErrorFacts, PageTextFacts
<1>4. QED
  BY <1>1, <1>2, <1>3, PlainSettles DEF Waiting

-----------------------------------------------------------------------------
(* Steps on the whole list *)

\* Every reply is settled when nothing is registered any more.
LEMMA AllSettled ==
  ASSUME IInv, NetInv', SameRequests, sources' = [k \in Keys |-> NoReq],
         disturbed' = disturbed /\ restored' = restored, messages' \in [DOMAIN messages -> Message],
         \A i \in DOMAIN messages :
            /\ messages'[i].key = messages[i].key /\ messages'[i].status \notin Waiting
            /\ OneEach(messages[i]) => OneEach(messages'[i])
  PROVE  IInv'
<1>0. ListType /\ OwnKeyInv
  BY DEF IInv
<1>1. Len(messages) \in Nat /\ DOMAIN messages = 1 .. Len(messages)
  BY <1>0 DEF ListType
<1>2. messages' \in Seq(Message) /\ DOMAIN messages' = DOMAIN messages
  BY <1>1, ListOf
<1>3. \A j : RequestsOf(j)' = RequestsOf(j)
  BY SameKeys
<1>4. ASSUME NEW m \in Replies' PROVE ReplyInv(m)' /\ RequestsOf(m.key)' # {}
  <2>1. PICK i \in DOMAIN messages : m = messages'[i]
    BY <1>2 DEF Replies
  <2>2. PICK o : o = messages[i]
    OBVIOUS
  <2>3. o \in Replies /\ ReplyInv(o) /\ m.key = o.key /\ m.status \notin Waiting
        /\ (OneEach(o) => OneEach(m)) /\ RequestsOf(o.key) # {} /\ o.key \in Keys
    BY <1>0, <2>1, <2>2, ReplyFacts DEF Replies, IInv, OwnKeyInv
  <2>4. sources'[m.key] = NoReq
    BY <2>3
  <2>5. StatusInv(m)'
    BY <2>3, <2>4 DEF StatusInv, Waiting
  <2>6. TextInv(m)'
    BY <2>3, <2>4 DEF ReplyInv, TextInv, Streams
  <2>7. QED
    BY <1>3, <2>3, <2>5, <2>6 DEF ReplyInv
<1>5. OwnKeyInv' /\ ListType'
  BY <1>0, <1>2, <1>4 DEF OwnKeyInv, ListType
<1>6. QED
  BY <1>4, <1>5 DEF IInv

LEMMA StopKeeps ==
  ASSUME IInv, StopGeneration
  PROVE  IInv'
<1>0. NetInv /\ ListType /\ NetType
  BY DEF IInv, NetInv
<1>1. [r \in DOMAIN reqs |-> reqs[r].stream] \in [DOMAIN reqs -> BOOLEAN]
  BY <1>0, RequestAt, Zenon
<1>2. NetInv' /\ SameRequests
  BY <1>0, <1>1, CloseSourcesNet DEF StopGeneration, account
<1>3. ASSUME NEW i \in DOMAIN messages
      PROVE  /\ messages'[i] \in Message /\ messages'[i].key = messages[i].key
             /\ messages'[i].status \notin Waiting
             /\ OneEach(messages[i]) => OneEach(messages'[i])
  <2>1. messages[i] \in Message /\ messages'[i] = Truncate(messages[i])
    BY <1>0 DEF ListType, StopGeneration, UpdateMessages, account
  <2>2. QED
    BY <2>1, TruncateFacts
<1>4. messages' \in [DOMAIN messages -> Message]
  <2>1. messages' = [i \in DOMAIN messages |-> Truncate(messages[i])]
    BY DEF StopGeneration, UpdateMessages, account
  <2>2. QED
    BY <1>3, <2>1
<1>5. QED
  BY <1>2, <1>3, <1>4, AllSettled DEF StopGeneration, account

LEMMA ReloadKeeps ==
  ASSUME IInv, Reload
  PROVE  IInv'
<1>0. NetInv /\ ListType
  BY DEF IInv
<1>1. NetInv' /\ SameRequests
  BY <1>0, CloseSourcesNet DEF Reload
<1>2. ASSUME NEW i \in DOMAIN messages
      PROVE  /\ messages'[i] \in Message /\ messages'[i].key = messages[i].key
             /\ messages'[i].status \notin Waiting
             /\ OneEach(messages[i]) => OneEach(messages'[i])
  <2>1. messages[i] \in Message /\ messages'[i] = SanitizeOnLoad(messages[i])
    BY <1>0 DEF ListType, Reload
  <2>2. QED
    BY <2>1, SanitizeFacts
<1>3. messages' \in [DOMAIN messages -> Message]
  BY <1>2 DEF Reload
<1>4. QED
  BY <1>1, <1>2, <1>3, AllSettled DEF Reload

\* Replies leave the list and no request changes.
LEMMA FewerReplies ==
  ASSUME IInv, UNCHANGED net, disturbed' = disturbed /\ restored' = restored, messages' \in Seq(Message),
         \A m \in Replies' : m \in Replies,
         \A i, j \in DOMAIN messages' : messages'[i].key = messages'[j].key => i = j
  PROVE  IInv'
<1>1. /\ NetInv' /\ reqs' = reqs /\ sources' = sources
      /\ \A j : RequestsOf(j)' = RequestsOf(j)
  BY SameNet DEF IInv
<1>2. ASSUME NEW m \in Replies' PROVE ReplyInv(m)' /\ RequestsOf(m.key)' # {}
  <2>1. m.key \in Keys /\ ReplyInv(m) /\ RequestsOf(m.key) # {}
    BY ReplyFacts DEF IInv, OwnKeyInv
  <2>2. sources[m.key] # NoReq => sources[m.key] \in RequestsOf(m.key)
    BY <2>1 DEF IInv, NetInv, StreamInv, Last
  <2>3. ReplyInv(m)'
    BY <1>1, <2>1, <2>2, Unmoved
  <2>4. QED
    BY <1>1, <2>1, <2>3
<1>3. OwnKeyInv' /\ ListType'
  BY <1>2 DEF IInv, OwnKeyInv, ListType
<1>4. QED
  BY <1>1, <1>2, <1>3 DEF IInv

LEMMA ClearKeeps ==
  ASSUME IInv, ClearMessages
  PROVE  IInv'
<1>1. messages' = <<>> /\ disturbed' = disturbed /\ restored' = restored /\ UNCHANGED net
  BY DEF ClearMessages, UpdateMessages, account
<1>2. DOMAIN messages' = {} /\ messages' \in Seq(Message)
  BY <1>1
<1>3. \A m \in Replies' : m \in Replies
  BY <1>2 DEF Replies
<1>4. QED
  BY <1>1, <1>2, <1>3, FewerReplies

LEMMA DeletedList ==
  ASSUME IInv, NEW k \in Keys, DeleteMessage(k)
  PROVE  /\ messages' \in Seq(Message) /\ \A m \in Replies' : m \in Replies
         /\ \A j, l \in DOMAIN messages' : messages'[j].key = messages'[l].key => j = l
<1>0. ListType /\ OwnKeyInv /\ k \in KeysOf(messages)
  BY DEF IInv, DeleteMessage, account
<1>1. PICK i : i = At(messages, k)
  OBVIOUS
<1>2. /\ i \in DOMAIN messages /\ DOMAIN messages = 1 .. Len(messages)
      /\ Len(messages) \in Nat /\ messages \in Seq(Message)
  BY <1>0, <1>1, ShownFacts DEF ListType
<1>3. messages' = SubSeq(messages, 1, i - 1) \o SubSeq(messages, i + 1, Len(messages))
  BY <1>1 DEF DeleteMessage, UpdateMessages, account
<1>4. /\ SubSeq(messages, 1, i - 1) \in Seq(Message) /\ Len(SubSeq(messages, 1, i - 1)) = i - 1
      /\ \A j \in 1 .. i - 1 : SubSeq(messages, 1, i - 1)[j] = messages[j]
  BY <1>2
<1>5. /\ SubSeq(messages, i + 1, Len(messages)) \in Seq(Message)
      /\ Len(SubSeq(messages, i + 1, Len(messages))) = Len(messages) - i
      /\ \A j \in 1 .. Len(messages) - i :
            SubSeq(messages, i + 1, Len(messages))[j] = messages[i + j]
  BY <1>2
<1>6. /\ messages' \in Seq(Message) /\ Len(messages') = Len(messages) - 1
      /\ \A j \in 1 .. Len(messages) - 1 :
            messages'[j] = IF j < i THEN messages[j] ELSE messages[j + 1]
  <2> DEFINE a == SubSeq(messages, 1, i - 1)
             b == SubSeq(messages, i + 1, Len(messages))
  <2>1. /\ a \in Seq(Message) /\ Len(a) = i - 1 /\ \A j \in 1 .. i - 1 : a[j] = messages[j]
        /\ b \in Seq(Message) /\ Len(b) = Len(messages) - i
        /\ \A j \in 1 .. Len(messages) - i : b[j] = messages[i + j]
        /\ messages' = a \o b
    BY <1>3, <1>4, <1>5
  <2> HIDE DEF a, b
  <2>2. /\ a \o b \in Seq(Message) /\ Len(a \o b) = Len(a) + Len(b)
        /\ \A j \in 1 .. Len(a) + Len(b) :
              (a \o b)[j] = IF j <= Len(a) THEN a[j] ELSE b[j - Len(a)]
    BY <2>1, ConcatProperties
  <2>3. ASSUME NEW j \in 1 .. Len(messages) - 1
        PROVE  messages'[j] = IF j < i THEN messages[j] ELSE messages[j + 1]
    <3>1. CASE j < i
      BY <1>2, <2>1, <2>2, <3>1
    <3>2. CASE ~(j < i)
      <4>1. j - (i - 1) \in 1 .. Len(messages) - i /\ i + (j - (i - 1)) = j + 1
        BY <1>2, <3>2
      <4>2. messages'[j] = b[j - (i - 1)]
        <5>1. j \in 1 .. Len(a) + Len(b) /\ ~(j <= Len(a)) /\ j - Len(a) = j - (i - 1)
          BY <1>2, <2>1, <3>2
        <5>2. QED
          BY <2>1, <2>2, <5>1
      <4>3. QED
        BY <2>1, <3>2, <4>1, <4>2
    <3>3. QED
      BY <3>1, <3>2
  <2>4. QED
    BY <1>2, <2>1, <2>2, <2>3
<1>7. DOMAIN messages' = 1 .. Len(messages) - 1
  BY <1>6
<1>8. \A m \in Replies' : m \in Replies
  BY SMTT(40), <1>2, <1>6, <1>7 DEF Replies
<1>9. ASSUME NEW j \in DOMAIN messages', NEW l \in DOMAIN messages',
             messages'[j].key = messages'[l].key
      PROVE  j = l
  <2>1. PICK a \in DOMAIN messages : messages'[j] = messages[a] /\ a = IF j < i THEN j ELSE j + 1
    BY <1>2, <1>6, <1>7
  <2>2. PICK b \in DOMAIN messages : messages'[l] = messages[b] /\ b = IF l < i THEN l ELSE l + 1
    BY <1>2, <1>6, <1>7
  <2>3. a = b
    BY <1>0, <1>9, <2>1, <2>2 DEF OwnKeyInv
  <2>4. QED
    BY <1>2, <1>7, <2>1, <2>2, <2>3
<1>10. QED
  BY <1>6, <1>8, <1>9

LEMMA DeleteKeeps ==
  ASSUME IInv, NEW k \in Keys, DeleteMessage(k)
  PROVE  IInv'
  BY DeletedList, FewerReplies DEF DeleteMessage, account

-----------------------------------------------------------------------------
(* Steps that ask for replies *)

\* The replies of a new turn after the first ones of the list.
LEMMA NewTurnList ==
  ASSUME ListType, OwnKeyInv, NEW n \in 0 .. Len(messages), NEW t \in Nat, NEW ks,
         Free(ks), \A i \in DOMAIN ks : RequestsOf(ks[i]) = {},
         messages' = SubSeq(messages, 1, n) \o NewTurn(ks, t)
  PROVE  /\ messages' \in Seq(Message)
         /\ \A m \in Replies' : \/ m \in Replies
                                \/ \E i \in DOMAIN ks : m = LoadingMessage(ks[i], t)
         /\ \A i, j \in DOMAIN messages' : messages'[i].key = messages'[j].key => i = j
<1> DEFINE a == SubSeq(messages, 1, n)
           b == NewTurn(ks, t)
<1>1. /\ Len(messages) \in Nat /\ DOMAIN messages = 1 .. Len(messages)
      /\ messages \in Seq(Message) /\ n \in Nat /\ n <= Len(messages)
  BY DEF ListType
<1>2. a \in Seq(Message) /\ Len(a) = n /\ \A j \in 1 .. n : a[j] = messages[j]
  BY <1>1
<1>3. Len(ks) \in Nat /\ DOMAIN ks = 1 .. Len(ks) /\ \A i \in DOMAIN ks : ks[i] \in Keys
  BY FreeLen
<1>4. /\ b \in Seq(Message) /\ Len(b) = Len(ks)
      /\ \A i \in 1 .. Len(ks) : b[i] = LoadingMessage(ks[i], t) /\ b[i].key = ks[i]
  <2>1. \A i \in 1 .. Len(ks) : /\ LoadingMessage(ks[i], t) \in Message
                                /\ LoadingMessage(ks[i], t).key = ks[i]
    BY <1>3, LoadingFacts
  <2>2. b = [i \in 1 .. Len(ks) |-> LoadingMessage(ks[i], t)]
    BY DEF NewTurn
  <2>3. b \in [1 .. Len(ks) -> Message]
    BY <2>1, <2>2
  <2>4. b \in Seq(Message) /\ Len(b) = Len(ks)
    BY <1>3, <2>3, ListOf
  <2>5. QED
    BY <2>1, <2>2, <2>4
<1>5. messages' = a \o b
  OBVIOUS
<1> HIDE DEF a, b
<1>6. /\ messages' \in Seq(Message) /\ Len(messages') = n + Len(ks)
      /\ \A j \in 1 .. n + Len(ks) :
            messages'[j] = IF j <= n THEN a[j] ELSE b[j - n]
  <2>1. /\ a \o b \in Seq(Message) /\ Len(a \o b) = Len(a) + Len(b)
        /\ \A j \in 1 .. Len(a) + Len(b) :
              (a \o b)[j] = IF j <= Len(a) THEN a[j] ELSE b[j - Len(a)]
    BY ZenonT(60), <1>2, <1>4, ConcatProperties
  <2>2. QED
    BY <1>2, <1>4, <1>5, <2>1
<1>7. DOMAIN messages' = 1 .. n + Len(ks)
  BY <1>6
<1>8. ASSUME NEW j \in DOMAIN messages'
      PROVE  \/ j \in 1 .. n /\ messages'[j] = messages[j]
             \/ /\ j - n \in DOMAIN ks /\ j > n
                /\ messages'[j] = LoadingMessage(ks[j - n], t) /\ messages'[j].key = ks[j - n]
  <2>1. CASE j <= n
    BY <1>1, <1>2, <1>6, <1>7, <2>1
  <2>2. CASE ~(j <= n)
    <3>1. j - n \in 1 .. Len(ks) /\ j > n
      BY <1>1, <1>3, <1>7, <2>2
    <3>2. messages'[j] = b[j - n]
      BY <1>6, <1>7, <2>2
    <3>3. QED
      BY <1>3, <1>4, <3>1, <3>2
  <2>3. QED
    BY <2>1, <2>2
<1>9. ASSUME NEW m \in Replies'
      PROVE  m \in Replies \/ \E i \in DOMAIN ks : m = LoadingMessage(ks[i], t)
  <2>1. PICK j \in DOMAIN messages' : m = messages'[j]
    BY DEF Replies
  <2>2. CASE j \in 1 .. n /\ messages'[j] = messages[j]
    BY <1>1, <2>1, <2>2 DEF Replies
  <2>3. CASE j - n \in DOMAIN ks /\ messages'[j] = LoadingMessage(ks[j - n], t)
    BY <2>1, <2>3
  <2>4. QED
    BY <1>8, <2>2, <2>3
<1>10. ASSUME NEW i \in 1 .. n, NEW j \in DOMAIN ks PROVE messages[i].key # ks[j]
  BY <1>1 DEF OwnKeyInv, Replies
<1>11. ASSUME NEW i \in DOMAIN messages', NEW j \in DOMAIN messages',
              messages'[i].key = messages'[j].key
       PROVE  i = j
  <2>1. i \in Nat /\ j \in Nat
    BY <1>7
  <2>2. CASE i \in 1 .. n /\ j \in 1 .. n
    BY <1>1, <1>8, <1>11, <2>2 DEF OwnKeyInv
  <2>3. CASE i > n /\ j > n
    <3>1. i - n \in DOMAIN ks /\ j - n \in DOMAIN ks /\ ks[i - n] = ks[j - n]
      BY <1>1, <1>8, <1>11, <2>1, <2>3
    <3>2. i - n = j - n
      BY <3>1 DEF Free
    <3>3. QED
      BY <1>1, <2>1, <3>2
  <2>4. CASE i \in 1 .. n /\ j > n
    BY <1>1, <1>8, <1>10, <1>11, <2>1, <2>4
  <2>5. CASE i > n /\ j \in 1 .. n
    BY <1>1, <1>8, <1>10, <1>11, <2>1, <2>5
  <2>6. QED
    BY <1>1, <1>7, <2>1, <2>2, <2>3, <2>4, <2>5
<1>12. QED
  BY <1>6, <1>9, <1>11

\* A reply that is asked for, with nothing in the version shown.
LEMMA AskedReply ==
  ASSUME NetType, NEW ks, Free(ks), NEW stream \in BOOLEAN, SendChat(ks, stream),
         NEW i \in DOMAIN ks, NEW m, m.key = ks[i], m.status = "loading", Text(m) = {},
         m.key \notin (disturbed \cup restored)' => OneEach(m)
  PROVE  ReplyInv(m)' /\ RequestsOf(m.key)' # {}
<1>1. LastAfter(m.key, Len(reqs) + i)
  BY SendChatKeys
<1>2. reqs'[Len(reqs) + i] = [key |-> ks[i], stream |-> stream, state |-> "open"]
  BY SendChatRequests
<1>3. PICK r : r = Len(reqs) + i
  OBVIOUS
<1>4. reqs'[r].state = "open" /\ LastAfter(m.key, r)
  <2>1. [key |-> ks[i], stream |-> stream, state |-> "open"].state = "open"
    OBVIOUS
  <2>2. QED
    BY <1>1, <1>2, <1>3, <2>1, Zenon
<1>5. r \in DOMAIN reqs' /\ Last(m.key, r)'
  BY <1>4 DEF LastAfter, Last, RequestsOf
<1>6. StatusInv(m)'
  <2>1. stream => sources'[m.key] # NoReq
    <3>1. r \in Nat /\ r # NoReq
      BY <1>3, SendChatRequests DEF Free, NoReq
    <3>2. sources'[ks[i]] = IF stream THEN Len(reqs) + i ELSE NoReq
      BY SendChatSources
    <3>3. QED
      BY <1>3, <3>1, <3>2
  <2>2. ~stream => HasPlain(m.key)'
    <3>1. [key |-> ks[i], stream |-> stream, state |-> "open"].stream = stream
      OBVIOUS
    <3>2. reqs'[r].stream = stream
      BY <1>2, <1>3, <3>1, Zenon
    <3>3. QED
      BY <1>4, <3>2 DEF HasPlain, LastAfter
  <2>3. QED
    BY <1>4, <1>5, <2>1, <2>2 DEF StatusInv
<1>7. TextInv(m)'
  BY PageTextFacts DEF TextInv
<1>8. QED
  BY <1>4, <1>6, <1>7 DEF ReplyInv, LastAfter

\* A reply whose key is not a target of sendChat.
LEMMA NotAsked ==
  ASSUME IInv, NEW ks, Free(ks), NEW stream \in BOOLEAN, SendChat(ks, stream),
         NEW m \in Replies, \A i \in DOMAIN ks : ks[i] # m.key, disturbed' = disturbed /\ restored' = restored
  PROVE  ReplyInv(m)' /\ RequestsOf(m.key)' # {}
<1>1. NetType /\ m.key \in Keys /\ ReplyInv(m) /\ RequestsOf(m.key) # {}
  BY ReplyFacts DEF IInv, NetInv, OwnKeyInv
<1>2. RequestsOf(m.key)' = RequestsOf(m.key) /\ sources'[m.key] = sources[m.key]
  BY <1>1, SendChatKeys, SendChatSources
<1>3. \A r \in RequestsOf(m.key) : reqs'[r] = reqs[r]
  BY <1>1, SendChatRequests DEF RequestsOf
<1>4. sources[m.key] # NoReq => sources[m.key] \in RequestsOf(m.key)
  BY <1>1 DEF IInv, NetInv, StreamInv, Last
<1>5. QED
  BY <1>1, <1>2, <1>3, <1>4, Unmoved

LEMMA NewTurnKeeps ==
  ASSUME IInv, NEW ks \in Targets, NEW stream \in BOOLEAN, SendChat(ks, stream),
         disturbed' = disturbed /\ restored' = restored, NEW n \in 0 .. Len(messages), NEW t \in Nat,
         messages' = SubSeq(messages, 1, n) \o NewTurn(ks, t)
  PROVE  IInv'
<1>0. NetInv /\ NetType /\ ListType /\ OwnKeyInv
  BY DEF IInv, NetInv
<1>1. /\ Free(ks) /\ InOrder(ks)
      /\ \A i \in DOMAIN ks : ks[i] \in Keys /\ RequestsOf(ks[i]) = {}
  BY <1>0, TargetsNew
<1>2. NetInv'
  BY <1>0, <1>1, SendChatNet
<1>3. /\ messages' \in Seq(Message)
      /\ \A m \in Replies' : \/ m \in Replies
                             \/ \E i \in DOMAIN ks : m = LoadingMessage(ks[i], t)
      /\ \A i, j \in DOMAIN messages' : messages'[i].key = messages'[j].key => i = j
  BY <1>0, <1>1, NewTurnList
<1>4. ASSUME NEW m \in Replies' PROVE ReplyInv(m)' /\ RequestsOf(m.key)' # {}
  <2>1. CASE m \in Replies
    <3>1. \A i \in DOMAIN ks : ks[i] # m.key
      BY <1>0, <1>1, <2>1 DEF OwnKeyInv
    <3>2. QED
      BY <1>1, <2>1, <3>1, NotAsked
  <2>2. CASE \E i \in DOMAIN ks : m = LoadingMessage(ks[i], t)
    <3>1. PICK i \in DOMAIN ks : m = LoadingMessage(ks[i], t)
      BY <2>2
    <3>2. m.key = ks[i] /\ m.status = "loading" /\ Text(m) = {} /\ OneEach(m)
      BY <1>1, <3>1, LoadingFacts
    <3>3. QED
      BY <1>0, <1>1, <3>2, AskedReply
  <2>3. QED
    BY <1>3, <2>1, <2>2
<1>5. OwnKeyInv' /\ ListType'
  BY <1>0, <1>3, <1>4 DEF OwnKeyInv, ListType
<1>6. QED
  BY <1>2, <1>4, <1>5 DEF IInv

LEMMA AppendedTurn ==
  ASSUME IInv, NEW ks, messages' = messages \o NewTurn(ks, LastTurn(messages) + 1)
  PROVE  \E n \in 0 .. Len(messages), t \in Nat :
            messages' = SubSeq(messages, 1, n) \o NewTurn(ks, t)
<1>1. messages \in Seq(Message) /\ Len(messages) \in Nat
  BY DEF IInv, ListType
<1>2. messages = SubSeq(messages, 1, Len(messages))
  BY <1>1, SubSeqFull
<1>3. LastTurn(messages) + 1 \in Nat
  <2>1. CASE messages = <<>>
    BY <2>1 DEF LastTurn
  <2>2. CASE messages # <<>>
    <3>1. messages[Len(messages)] \in Message
      BY <1>1, <2>2, EmptySeq, ElementOfSeq
    <3>2. messages[Len(messages)].turn \in Nat
      BY <3>1, MessageFields
    <3>3. QED
      BY <2>2, <3>2 DEF LastTurn
  <2>3. QED
    BY <2>1, <2>2
<1>4. PICK n, t : n = Len(messages) /\ t = LastTurn(messages) + 1
  OBVIOUS
<1>5. messages' = SubSeq(messages, 1, n) \o NewTurn(ks, t) /\ n \in 0 .. Len(messages) /\ t \in Nat
  <2>1. SubSeq(messages, 1, n) = messages
    BY <1>2, <1>4, Zenon
  <2>2. messages' = SubSeq(messages, 1, n) \o NewTurn(ks, t)
    BY <1>4, <2>1, Zenon
  <2>3. n \in 0 .. Len(messages) /\ t \in Nat
    BY <1>1, <1>3, <1>4
  <2>4. QED
    BY <2>2, <2>3
<1>6. QED
  BY <1>5

LEMMA AppendTurnKeeps ==
  ASSUME IInv, NEW ks \in Targets, NEW stream \in BOOLEAN, SendChat(ks, stream),
         disturbed' = disturbed /\ restored' = restored,
         messages' = messages \o NewTurn(ks, LastTurn(messages) + 1)
  PROVE  IInv'
  BY AppendedTurn, NewTurnKeeps

LEMMA SubmitKeeps ==
  ASSUME IInv, NEW i \in DOMAIN messages, NEW ks \in Targets, NEW stream \in BOOLEAN,
         SaveEditAndSubmit(i, ks, stream)
  PROVE  IInv'
<1>1. messages \in Seq(Message) /\ i - 1 \in 0 .. Len(messages)
  BY DEF IInv, ListType
<1>2. messages[i].turn \in Nat
  <2>1. messages[i] \in Message
    BY <1>1
  <2>2. QED
    BY <2>1, MessageFields
<1>3. PICK n, t : n = i - 1 /\ t = messages[i].turn
  OBVIOUS
<1>4. /\ messages' = SubSeq(messages, 1, n) \o NewTurn(ks, t)
      /\ SendChat(ks, stream) /\ disturbed' = disturbed /\ restored' = restored
  BY <1>3 DEF SaveEditAndSubmit, UpdateMessages, account
<1>5. QED
  BY <1>1, <1>2, <1>3, <1>4, NewTurnKeeps

LEMMA RegenerateKeeps ==
  ASSUME IInv, NEW k \in Keys, NEW stream \in BOOLEAN, RegenerateMessage(k, stream)
  PROVE  IInv'
<1>0. NetInv /\ NetType /\ ListType /\ OwnKeyInv /\ k \in KeysOf(messages)
  BY DEF IInv, NetInv, RegenerateMessage, account
<1>1. PICK m, n : m = Shown(k) /\ n = PushAssistantVersion(m)
  OBVIOUS
<1>2. m \in Message /\ m \in Replies /\ m.key = k /\ ReplyInv(m) /\ RequestsOf(k) # {}
  BY <1>0, <1>1, ShownFacts DEF IInv
<1>3. /\ n \in Message /\ n.key = k /\ n.status = "loading" /\ Text(n) = {}
      /\ OneEach(m) => OneEach(n)
  BY <1>1, <1>2, PushVersionFacts
<1>4. PICK ks : ks = <<k>>
  OBVIOUS
<1>5. Free(ks) /\ InOrder(ks) /\ DOMAIN ks = {1} /\ ks[1] = k
  BY <1>0, <1>2, <1>4, AgainFree DEF RegenerateMessage, account
<1>6. /\ SendChat(ks, stream) /\ disturbed' = disturbed /\ restored' = restored /\ UpdateMessageByKey(k, n)
  BY <1>1, <1>4 DEF RegenerateMessage, account
<1>7. NetInv'
  BY <1>0, <1>5, <1>6, SendChatNet
<1>8. /\ messages' \in Seq(Message)
      /\ \A o \in Replies' : \/ o \in Replies /\ o.key # k
                             \/ k \in KeysOf(messages) /\ o = n /\ o.key = k
      /\ \A i, j \in DOMAIN messages' : messages'[i].key = messages'[j].key => i = j
  BY <1>0, <1>3, <1>6, Updated
<1>9. ASSUME NEW o \in Replies' PROVE ReplyInv(o)' /\ RequestsOf(o.key)' # {}
  <2>1. CASE o \in Replies /\ o.key # k
    <3>1. \A i \in DOMAIN ks : ks[i] # o.key
      BY <1>5, <2>1
    <3>2. QED
      BY <1>5, <1>6, <2>1, <3>1, NotAsked
  <2>2. CASE o = n
    <3>1. n.key \notin (disturbed \cup restored)' => OneEach(n)
      BY <1>2, <1>3, <1>6 DEF ReplyInv, TextInv
    <3>2. 1 \in DOMAIN ks /\ n.key = ks[1]
      BY <1>3, <1>5
    <3>3. QED
      BY <1>0, <1>3, <1>5, <1>6, <2>2, <3>1, <3>2, AskedReply
  <2>3. QED
    BY <1>8, <2>1, <2>2
<1>10. OwnKeyInv' /\ ListType'
  BY <1>0, <1>6, <1>8, <1>9 DEF OwnKeyInv, ListType
<1>11. QED
  BY <1>7, <1>9, <1>10 DEF IInv

-----------------------------------------------------------------------------
(* The invariant *)

LEMMA InitHolds == Init => IInv
<1> SUFFICES ASSUME Init PROVE IInv
  OBVIOUS
<1>1. /\ messages = <<>> /\ reqs = <<>> /\ sources = [k \in Keys |-> NoReq]
      /\ completed = {} /\ pendingCount = 0 /\ disturbed = {} /\ restored = {}
      /\ row = <<>> /\ fetched = <<>>
  BY DEF Init
<1>2. DOMAIN messages = {} /\ DOMAIN reqs = {} /\ Len(reqs) = 0
  BY <1>1
<1>3. \A k : RequestsOf(k) = {}
  BY <1>2 DEF RequestsOf
<1>4. OpenPlain = {}
  BY <1>2 DEF OpenPlain
<1>5. KeysUsed = 0
  <2>1. {k \in Keys : RequestsOf(k) # {}} = {}
    BY <1>3
  <2>2. QED
    BY <2>1, FS_EmptySet DEF KeysUsed
<1>6. NetType
  BY <1>1, MaxReqAssumption DEF NetType, NoReq
<1>7. StreamInv
  BY <1>1, <1>2 DEF StreamInv
<1>8. PendingInv
  <2>1. Cardinality(OpenPlain) = 0
    BY <1>4, FS_EmptySet
  <2>2. QED
    BY <1>1, <2>1 DEF PendingInv
<1>9. KeyInv
  <2>1. {k \in Keys : RequestsOf(k) # {}} = 1 .. KeysUsed
    BY <1>3, <1>5
  <2>2. QED
    BY <1>2, <1>3, <2>1, MaxReqAssumption DEF KeyInv
<1>10. ListType /\ OwnKeyInv /\ \A m \in Replies : ReplyInv(m)
  BY <1>1, <1>2 DEF ListType, OwnKeyInv, Replies
<1>11. QED
  BY <1>6, <1>7, <1>8, <1>9, <1>10 DEF IInv, NetInv

\* Neither the list nor the requests change.
LEMMA SameMessages ==
  ASSUME IInv, UNCHANGED net, messages' = messages, disturbed' = disturbed, restored' = restored
  PROVE  IInv'
<1>1. \A m \in Replies' : m \in Replies
  BY DEF Replies
<1>2. messages' \in Seq(Message)
      /\ \A i, j \in DOMAIN messages' : messages'[i].key = messages'[j].key => i = j
  BY DEF IInv, ListType, OwnKeyInv
<1>3. QED
  BY <1>1, <1>2, FewerReplies

\* The user's operations.
LEMMA UserKeeps ==
  ASSUME IInv, UserAction
  PROVE  IInv'
<1>1. ASSUME NEW ks \in Targets, NEW stream \in BOOLEAN, SendMessage(ks, stream)
      PROVE  IInv'
  BY <1>1, AppendTurnKeeps DEF SendMessage, UpdateMessages, account
<1>2. ASSUME NEW k \in Keys, NEW ks \in Targets, NEW stream \in BOOLEAN,
             SubmitToolResults(k, ks, stream)
      PROVE  IInv'
  BY <1>2, AppendTurnKeeps DEF SubmitToolResults, UpdateMessages, account
<1>3. ASSUME NEW k \in Keys, NEW stream \in BOOLEAN, RegenerateMessage(k, stream)
      PROVE  IInv'
  BY <1>3, RegenerateKeeps
<1>4. ASSUME NEW k \in Keys, NEW i \in 1 .. MaxReq, ChangeVersion(k, i) PROVE IInv'
  BY <1>4, ChangeVersionKeeps
<1>5. ASSUME NEW k \in Keys, DeleteMessage(k) \/ SaveEdit(k) PROVE IInv'
  BY <1>5, DeleteKeeps, SaveEditKeeps
<1>6. ASSUME NEW i \in DOMAIN messages, NEW ks \in Targets, NEW stream \in BOOLEAN,
             SaveEditAndSubmit(i, ks, stream)
      PROVE  IInv'
  BY <1>6, SubmitKeeps
<1>7. CASE ClearMessages \/ StopGeneration \/ Reload
  BY <1>7, ClearKeeps, StopKeeps, ReloadKeeps
<1>8. CASE SelectConversation
  BY <1>8, SameMessages DEF SelectConversation
<1>9. QED
  BY <1>1, <1>2, <1>3, <1>4, <1>5, <1>6, <1>7, <1>8, Zenon DEF UserAction

\* What the server sends.
LEMMA ServerKeeps ==
  ASSUME IInv, ServerAction
  PROVE  IInv'
<1>1. PICK r \in 1 .. MaxReq :
         (\E kind \in {"text", "refusal", "tools"} : StreamChunk(r, kind)) \/ ResponseEnds(r)
  BY DEF ServerAction
<1>2. ASSUME NEW kind, StreamChunk(r, kind) PROVE IInv'
  BY <1>2, StreamChunkKeeps
<1>3. CASE StreamDone(r) \/ StreamError(r) \/ StreamCut(r)
  BY <1>3, StreamDoneKeeps, StreamErrorKeeps, StreamCutKeeps
<1>4. CASE PlainAnswer(r) \/ PlainEmpty(r) \/ PlainError(r)
  BY <1>4, PlainAnswerKeeps, PlainEmptyKeeps, PlainErrorKeeps
<1>5. QED
  BY <1>1, <1>2, <1>3, <1>4, Zenon DEF ResponseEnds

\* A select brings the list that was saved.
LEMMA SelectKeeps ==
  ASSUME IInv, CopyInv(fetched), SelectReturns
  PROVE  IInv'
<1>0. NetInv /\ ListType
  BY DEF IInv
<1>1. /\ NetInv' /\ reqs' = reqs /\ sources' = sources
      /\ \A j : RequestsOf(j)' = RequestsOf(j)
      /\ \A k, r : Last(k, r)' <=> Last(k, r)
  BY <1>0, SameNet DEF SelectReturns
<1>2. messages' = fetched /\ disturbed' = disturbed /\ restored \subseteq restored'
  BY DEF SelectReturns, UpdateMessages
<1>3. ASSUME NEW i \in DOMAIN fetched, fetched[i].key \notin restored'
      PROVE  ~Overtaken(fetched[i])
  BY <1>3 DEF SelectReturns
<1>4. ASSUME NEW i \in DOMAIN fetched, NEW m, m = fetched[i]
      PROVE  ReplyInv(m)' /\ m.key \in Keys /\ RequestsOf(m.key) # {}
  <2>1. /\ m \in Message /\ m.key \in Keys /\ RequestsOf(m.key) # {}
        /\ m.status \in Waiting => m.status = "loading" /\ HasPlain(m.key)
        /\ m.key \notin disturbed \cup restored => OneEach(m)
    <3>1. m \in Message
      BY <1>4 DEF CopyInv
    <3>2. QED
      BY <1>4, <3>1, MessageFields, Zenon DEF CopyInv
  <2>2. ASSUME m.key \notin restored'
        PROVE  /\ sources'[m.key] = NoReq
               /\ m.status \in Waiting =>
                     \E r \in DOMAIN reqs' :
                        Last(m.key, r)' /\ reqs'[r].state \in {"open", "cut", "empty"}
    <3>1. ~Overtaken(m)
      BY <1>3, <1>4, <2>2
    <3>2. Last(m.key, LastRequest(m.key)) /\ LastRequest(m.key) \in DOMAIN reqs
      BY <1>0, <2>1, LastRequestFacts
    <3>3. reqs[LastRequest(m.key)].state \in {"open", "cut", "empty", "over"}
      BY <1>0, <3>2, RequestAt DEF NetInv, Request
    <3>4. PICK r : r = LastRequest(m.key)
      OBVIOUS
    <3>5. QED
      BY <1>1, <3>1, <3>2, <3>3, <3>4 DEF Overtaken
  <2>3. StatusInv(m)'
    <3>1. HasPlain(m.key) => HasPlain(m.key)'
      BY <1>1 DEF HasPlain
    <3>2. QED
      BY <2>1, <2>2, <3>1 DEF StatusInv
  <2>4. TextInv(m)'
    BY <1>2, <2>1, <2>2 DEF TextInv, Streams
  <2>5. QED
    BY <2>1, <2>3, <2>4 DEF ReplyInv
<1>5. ASSUME NEW m \in Replies' PROVE ReplyInv(m)' /\ RequestsOf(m.key)' # {}
  <2>1. PICK i \in DOMAIN fetched : m = fetched[i]
    BY <1>2 DEF Replies
  <2>2. QED
    BY <1>1, <1>4, <2>1
<1>6. restored' \subseteq Keys
  BY <1>0, <1>4 DEF SelectReturns, ListType
<1>7. OwnKeyInv' /\ ListType'
  BY <1>0, <1>2, <1>5, <1>6 DEF OwnKeyInv, ListType, CopyInv
<1>8. QED
  BY <1>1, <1>5, <1>7 DEF IInv

LEMMA AccountKeeps ==
  ASSUME IInv, AccountInv, AccountAction
  PROVE  IInv'
<1>1. CASE Persist \/ SelectFails
  BY <1>1, SameMessages DEF Persist, SelectFails
<1>2. CASE SelectReturns
  BY <1>2, SelectKeeps DEF AccountInv
<1>3. QED
  BY <1>1, <1>2 DEF AccountAction

LEMMA StutterKeeps ==
  ASSUME IInv, UNCHANGED vars
  PROVE  IInv'
  BY SameMessages DEF vars, net

-----------------------------------------------------------------------------
(* The copies of the list *)

\* Requests are never forgotten and the histories grow.
Grows ==
  /\ \A q \in DOMAIN reqs :
       q \in DOMAIN reqs' /\ reqs'[q].key = reqs[q].key /\ reqs'[q].stream = reqs[q].stream
  /\ disturbed \subseteq disturbed' /\ restored \subseteq restored'

LEMMA CopyStays ==
  ASSUME NEW list, CopyInv(list), Grows
  PROVE  CopyInv(list)'
<1>1. ASSUME NEW k, RequestsOf(k) # {} PROVE RequestsOf(k)' # {}
  BY <1>1 DEF RequestsOf, Grows
<1>2. ASSUME NEW k, HasPlain(k) PROVE HasPlain(k)'
  BY <1>2 DEF HasPlain, RequestsOf, Grows
<1>3. QED
  BY <1>1, <1>2 DEF CopyInv, Grows

LEMMA SendChatGrows ==
  ASSUME NetType, NEW ks, Len(ks) \in Nat, NEW stream, SendChat(ks, stream),
         disturbed' = disturbed /\ restored' = restored
  PROVE  Grows
<1> DEFINE first == Len(reqs)
           n == Len(ks)
<1>1. first \in Nat /\ DOMAIN reqs = 1 .. first
  BY DEF NetType
<1>2. reqs' = [r \in 1 .. first + n |->
                 IF r > first
                 THEN [key |-> ks[r - first], stream |-> stream, state |-> "open"]
                 ELSE IF stream /\ \E i \in 1 .. n : sources[ks[i]] = r
                 THEN [reqs[r] EXCEPT !.state = "over"]
                 ELSE reqs[r]]
  BY DEF SendChat
<1>3. ASSUME NEW q \in DOMAIN reqs
      PROVE  q \in DOMAIN reqs' /\ reqs'[q].key = reqs[q].key /\ reqs'[q].stream = reqs[q].stream
  <2>1. q \in 1 .. first + n /\ ~(q > first)
    BY <1>1
  <2>2. reqs[q] \in Request
    BY RequestAt
  <2>3. /\ [reqs[q] EXCEPT !.state = "over"].key = reqs[q].key
        /\ [reqs[q] EXCEPT !.state = "over"].stream = reqs[q].stream
    BY <2>2 DEF Request
  <2>4. reqs'[q] \in {[reqs[q] EXCEPT !.state = "over"], reqs[q]}
    BY <1>2, <2>1
  <2>5. QED
    BY <1>2, <2>1, <2>3, <2>4
<1>4. QED
  BY <1>3 DEF Grows

LEMMA EndsGrows ==
  ASSUME NetType, NEW r, NEW state \in {"cut", "empty", "over"}, Ends(r, state),
         disturbed \subseteq disturbed', restored \subseteq restored'
  PROVE  Grows
  BY EndsFacts DEF Grows

LEMMA CloseSourcesGrows ==
  ASSUME NetType, NEW live, reqs' = CloseSources(live),
         disturbed \subseteq disturbed', restored \subseteq restored'
  PROVE  Grows
<1>1. ASSUME NEW q \in DOMAIN reqs
      PROVE  q \in DOMAIN reqs' /\ reqs'[q].key = reqs[q].key /\ reqs'[q].stream = reqs[q].stream
  <2>1. reqs[q] \in Request
    BY RequestAt
  <2>2. /\ [reqs[q] EXCEPT !.state = "over"].key = reqs[q].key
        /\ [reqs[q] EXCEPT !.state = "over"].stream = reqs[q].stream
    BY <2>1 DEF Request
  <2>3. q \in DOMAIN reqs' /\ reqs'[q] \in {[reqs[q] EXCEPT !.state = "over"], reqs[q]}
    BY DEF CloseSources
  <2>4. QED
    BY <2>2, <2>3
<1>2. QED
  BY <1>1 DEF Grows

LEMMA TargetsLen ==
  ASSUME NEW ks \in Targets
  PROVE  Len(ks) \in Nat
  BY DEF Targets

LEMMA UserGrows ==
  ASSUME IInv, UserAction
  PROVE  Grows /\ row' = row /\ fetched' \in {fetched, row, <<>>}
<1>0. NetType
  BY DEF IInv, NetInv
<1>1. ASSUME NEW ks \in Targets, NEW stream \in BOOLEAN, SendMessage(ks, stream)
      PROVE  Grows /\ row' = row /\ fetched' = fetched
  BY <1>0, <1>1, TargetsLen, SendChatGrows DEF SendMessage, account
<1>2. ASSUME NEW k \in Keys, NEW ks \in Targets, NEW stream \in BOOLEAN,
             SubmitToolResults(k, ks, stream)
      PROVE  Grows /\ row' = row /\ fetched' = fetched
  BY <1>0, <1>2, TargetsLen, SendChatGrows DEF SubmitToolResults, account
<1>3. ASSUME NEW k \in Keys, NEW stream \in BOOLEAN, RegenerateMessage(k, stream)
      PROVE  Grows /\ row' = row /\ fetched' = fetched
  <2>1. Len(<<k>>) \in Nat
    OBVIOUS
  <2>2. QED
    BY <1>0, <1>3, <2>1, SendChatGrows DEF RegenerateMessage, account
<1>4. ASSUME NEW i \in DOMAIN messages, NEW ks \in Targets, NEW stream \in BOOLEAN,
             SaveEditAndSubmit(i, ks, stream)
      PROVE  Grows /\ row' = row /\ fetched' = fetched
  BY <1>0, <1>4, TargetsLen, SendChatGrows DEF SaveEditAndSubmit, account
<1>5. ASSUME NEW k \in Keys, NEW i \in 1 .. MaxReq, ChangeVersion(k, i)
      PROVE  Grows /\ row' = row /\ fetched' = fetched
  BY <1>5 DEF ChangeVersion, account, net, Grows
<1>6. ASSUME NEW k \in Keys, DeleteMessage(k) \/ SaveEdit(k)
      PROVE  Grows /\ row' = row /\ fetched' = fetched
  BY <1>6 DEF DeleteMessage, SaveEdit, account, net, Grows
<1>7. CASE ClearMessages
  BY <1>7 DEF ClearMessages, account, net, Grows
<1>8. CASE StopGeneration
  BY <1>0, <1>8, CloseSourcesGrows DEF StopGeneration, account
<1>9. CASE Reload
  BY <1>0, <1>9, CloseSourcesGrows DEF Reload
<1>10. CASE SelectConversation
  BY <1>10 DEF SelectConversation, net, Grows
<1>11. QED
  BY <1>1, <1>2, <1>3, <1>4, <1>5, <1>6, <1>7, <1>8, <1>9, <1>10 DEF UserAction

LEMMA ServerGrows ==
  ASSUME IInv, ServerAction
  PROVE  Grows /\ row' = row /\ fetched' = fetched
<1>0. NetType
  BY DEF IInv, NetInv
<1>1. PICK r \in 1 .. MaxReq :
         (\E kind \in {"text", "refusal", "tools"} : StreamChunk(r, kind)) \/ ResponseEnds(r)
  BY DEF ServerAction
<1>2. ASSUME NEW kind, StreamChunk(r, kind)
      PROVE  Grows /\ row' = row /\ fetched' = fetched
  BY <1>2 DEF StreamChunk, account, net, Grows
<1>3. CASE StreamDone(r) \/ StreamError(r)
  <2>1. Ends(r, "over")
    BY <1>3 DEF StreamDone, StreamError, Streaming, Ends
  <2>2. disturbed' = disturbed /\ restored' = restored /\ row' = row /\ fetched' = fetched
    BY <1>3 DEF StreamDone, StreamError, account
  <2>3. QED
    BY <1>0, <2>1, <2>2, EndsGrows
<1>4. CASE StreamCut(r)
  <2>1. Ends(r, "cut")
    BY <1>4 DEF StreamCut, Streaming, Ends
  <2>2. QED
    BY <1>0, <1>4, <2>1, EndsGrows DEF StreamCut, account
<1>5. CASE PlainAnswer(r) \/ PlainEmpty(r) \/ PlainError(r)
  <2>1. Ends(r, "over") \/ Ends(r, "empty")
    BY <1>5 DEF PlainAnswer, PlainEmpty, PlainError, PlainEnds, OpenPlain, Ends
  <2>2. disturbed \subseteq disturbed' /\ restored' = restored /\ row' = row /\ fetched' = fetched
    BY <1>5 DEF PlainAnswer, PlainEmpty, PlainError, account
  <2>3. QED
    BY <1>0, <2>1, <2>2, EndsGrows
<1>6. QED
  BY <1>1, <1>2, <1>3, <1>4, <1>5, Zenon DEF ResponseEnds

\* A reply of a list that is saved waits for nothing, or for a plain request.
LEMMA PersistCopies ==
  ASSUME IInv, Persist
  PROVE  CopyInv(messages)
<1>1. messages \in Seq(Message)
      /\ \A i, j \in DOMAIN messages : messages[i].key = messages[j].key => i = j
  BY DEF IInv, ListType, OwnKeyInv
<1>2. ASSUME NEW i \in DOMAIN messages, NEW m, m = messages[i]
      PROVE  /\ RequestsOf(m.key) # {}
             /\ m.status \in Waiting => m.status = "loading" /\ HasPlain(m.key)
             /\ m.key \notin disturbed \cup restored => OneEach(m)
  <2>1. m \in Replies /\ ReplyInv(m) /\ RequestsOf(m.key) # {} /\ m.key \in Keys
    BY <1>2, ReplyFacts DEF Replies, IInv, OwnKeyInv
  <2>2. sources[m.key] = NoReq
    BY <2>1 DEF Persist, IsGenerating
  <2>3. QED
    BY <2>1, <2>2 DEF ReplyInv, StatusInv, TextInv
<1>3. QED
  BY <1>1, <1>2 DEF CopyInv

LEMMA CopiesKept ==
  ASSUME IInv, AccountInv, [Next]_vars
  PROVE  AccountInv'
<1>0. CopyInv(<<>>)
  BY DEF CopyInv
<1>1. PICK a, b, c : a = row /\ b = fetched /\ c = messages
  OBVIOUS
<1>2. CopyInv(a) /\ CopyInv(b)
  BY <1>1 DEF AccountInv
<1>3. CASE UserAction \/ ServerAction
  <2>1. Grows /\ row' = a /\ fetched' \in {a, b, <<>>}
    BY <1>1, <1>3, UserGrows, ServerGrows
  <2>2. CopyInv(a)' /\ CopyInv(b)' /\ CopyInv(<<>>)'
    BY <1>0, <1>2, <2>1, CopyStays
  <2>3. QED
    BY <2>1, <2>2 DEF AccountInv
<1>4. CASE AccountAction
  <2>1. Grows /\ fetched' \in {b, <<>>}
    BY <1>1, <1>4 DEF AccountAction, Persist, SelectReturns, SelectFails, net, Grows
  <2>2. CopyInv(b)' /\ CopyInv(<<>>)' /\ CopyInv(a)'
    BY <1>0, <1>2, <2>1, CopyStays
  <2>3. CopyInv(row)'
    <3>1. CASE Persist
      <4>1. CopyInv(c) /\ row' = c
        BY <1>1, <3>1, PersistCopies DEF Persist
      <4>2. CopyInv(c)'
        BY <2>1, <4>1, CopyStays
      <4>3. QED
        BY <4>1, <4>2
    <3>2. CASE row' = a
      BY <2>2, <3>2
    <3>3. QED
      BY <1>1, <1>4, <3>1, <3>2 DEF AccountAction, SelectReturns, SelectFails
  <2>4. QED
    BY <2>1, <2>2, <2>3 DEF AccountInv
<1>5. CASE UNCHANGED vars
  <2>1. Grows /\ row' = a /\ fetched' = b
    BY <1>1, <1>5 DEF vars, Grows
  <2>2. CopyInv(a)' /\ CopyInv(b)'
    BY <1>2, <2>1, CopyStays
  <2>3. QED
    BY <2>1, <2>2 DEF AccountInv
<1>6. QED
  BY <1>3, <1>4, <1>5 DEF Next

LEMMA InvHolds == Spec => [](IInv /\ AccountInv)
<1>1. IInv /\ AccountInv /\ [Next]_vars => IInv'
  BY UserKeeps, ServerKeeps, AccountKeeps, StutterKeeps DEF Next
<1>2. IInv /\ AccountInv /\ [Next]_vars => AccountInv'
  BY CopiesKept
<1>3. Init => AccountInv
  BY DEF Init, AccountInv, CopyInv
<1>4. QED
  BY InitHolds, <1>1, <1>2, <1>3, PTL DEF Spec

-----------------------------------------------------------------------------
(* The theorems *)

\* The list, the requests, the registered streams and the counter keep their
\* types: no reply without a version, no counter below zero.
THEOREM TypeCorrect == Spec => []TypeOK
<1>1. IInv /\ AccountInv => TypeOK
  BY DEF IInv, AccountInv, CopyInv, NetInv, NetType, ListType, TypeOK
<1>2. QED
  BY <1>1, InvHolds, PTL

\* isGenerating is never left on by a request that is over, whatever the
\* answers that arrive after a stop, a reload, an edit or a new chat.
THEOREM GeneratingIsHonest == Spec => []GeneratingMatchesRequests
<1>1. ASSUME IInv PROVE GeneratingMatchesRequests
  <2>1. ASSUME NEW k \in Keys, sources[k] # NoReq
        PROVE  reqs[sources[k]].key = k /\ reqs[sources[k]].state \in {"open", "cut"}
    BY <1>1, <2>1 DEF IInv, NetInv, StreamInv, Last, RequestsOf
  <2>2. QED
    BY <1>1, <2>1 DEF GeneratingMatchesRequests, IInv, NetInv, PendingInv
<1>2. QED
  BY <1>1, InvHolds, PTL

\* A reply that is shown as loading or streaming waits for its own last
\* request, and that one has neither answered, failed nor been closed, unless
\* a select brought the reply back as it was before its request ended.
THEOREM NoReplyLeftWaiting == Spec => []WaitingHasRequest
<1>1. ASSUME IInv PROVE WaitingHasRequest
  <2>1. ASSUME NEW i \in DOMAIN messages, messages[i].status \in Waiting, messages[i].key \notin restored
        PROVE  /\ RequestsOf(messages[i].key) # {}
               /\ reqs[LastRequest(messages[i].key)].state \in {"open", "cut", "empty"}
    <3>1. PICK m : m = messages[i]
      OBVIOUS
    <3>2. m \in Replies /\ m.key \in Keys /\ StatusInv(m) /\ RequestsOf(m.key) # {}
      BY <1>1, <3>1, ReplyFacts DEF Replies, IInv, ReplyInv, OwnKeyInv
    <3>3. PICK r \in DOMAIN reqs :
             Last(m.key, r) /\ reqs[r].state \in {"open", "cut", "empty"}
      BY <2>1, <3>1, <3>2 DEF StatusInv
    <3>4. r = LastRequest(m.key)
      BY <1>1, <3>2, <3>3, LastRequestFacts DEF IInv
    <3>5. QED
      BY <3>1, <3>2, <3>3, <3>4
  <2>2. QED
    BY <2>1 DEF WaitingHasRequest
<1>2. QED
  BY <1>1, InvHolds, PTL

\* A version never mixes the texts of two requests, unless the user turned
\* to another version, an older plain answer arrived or a select brought the
\* reply back while one ran.
THEOREM TextsDoNotMix == Spec => []VersionsDoNotMix
<1>1. ASSUME IInv PROVE VersionsDoNotMix
  <2>1. ASSUME NEW i \in DOMAIN messages, messages[i].key \notin disturbed \cup restored,
               NEW v \in DOMAIN messages[i].versions
        PROVE  Cardinality(messages[i].versions[v] \ {PageText}) <= 1
    <3>1. PICK r \in 0 .. MaxReq : From(messages[i].versions[v], r)
      BY <1>1, <2>1 DEF IInv, ReplyInv, TextInv, OneEach, Replies
    <3>2. messages[i].versions[v] \ {PageText} \subseteq {r}
      BY <3>1 DEF From
    <3>3. IsFiniteSet({r}) /\ Cardinality({r}) = 1
      BY FS_Singleton
    <3>4. QED
      BY <3>2, <3>3, FS_Subset
  <2>2. QED
    BY <2>1 DEF VersionsDoNotMix
<1>2. QED
  BY <1>1, InvHolds, PTL

\* A reply that the account holds as waiting was asked for plainly and has
\* nothing yet: no list is saved with a stream in it.
THEOREM HalfRepliesNotSaved == Spec => []NoHalfReplySaved
<1>1. ASSUME AccountInv PROVE NoHalfReplySaved
  BY <1>1 DEF AccountInv, CopyInv, HasPlain, NoHalfReplySaved
<1>2. QED
  BY <1>1, InvHolds, PTL

\* Only a chunk makes a reply stream: after any other step a reply was there
\* before or is not streaming.
NoNewStreaming == \A n \in Replies' : n \in Replies \/ n.status # "streaming"

\* A reply is not streaming after a step when it was stopped before it.
StaysStopped ==
  \A n \in Replies' :
     n.key \in KeysOf(messages) /\ n.key \notin restored /\ Shown(n.key).status = "truncated"
        => n.status # "streaming"

LEMMA UpdateStaysStopped ==
  ASSUME IInv, NEW k, NEW m, m = Shown(k), NEW new, UpdateMessageByKey(k, new),
         m \in Message /\ m.key = k =>
            /\ new \in Message /\ new.key = k
            /\ new.status = m.status \/ new.status # "streaming"
  PROVE  StaysStopped
<1>1. k \in KeysOf(messages) => m \in Message /\ m.key = k
  BY ShownFacts DEF IInv
<1>2. \A n \in Replies' : \/ n \in Replies /\ n.key # k
                          \/ k \in KeysOf(messages) /\ n = new /\ n.key = k
  BY <1>1, Updated DEF IInv
<1>3. ASSUME NEW n \in Replies', n.key \in KeysOf(messages), Shown(n.key).status = "truncated"
      PROVE  n.status # "streaming"
  <2>1. CASE n \in Replies
    <3>1. n = Shown(n.key)
      BY <1>3, <2>1, ShownFacts DEF IInv
    <3>2. QED
      BY <1>3, <3>1
  <2>2. CASE k \in KeysOf(messages) /\ n = new /\ n.key = k
    BY <1>1, <1>3, <2>2
  <2>3. QED
    BY <1>2, <2>1, <2>2
<1>4. QED
  BY <1>3 DEF StaysStopped

LEMMA NoNewStaysStopped ==
  ASSUME IInv, NoNewStreaming
  PROVE  StaysStopped
<1>1. ASSUME NEW n \in Replies', n.key \in KeysOf(messages), Shown(n.key).status = "truncated"
      PROVE  n.status # "streaming"
  <2>1. CASE n \in Replies
    <3>1. n = Shown(n.key)
      BY <1>1, <2>1, ShownFacts DEF IInv
    <3>2. QED
      BY <1>1, <3>1
  <2>2. QED
    BY <2>1 DEF NoNewStreaming
<1>2. QED
  BY <1>1 DEF StaysStopped

LEMMA AskedStaysStopped ==
  ASSUME IInv, NEW ks \in Targets, NEW n \in 0 .. Len(messages), NEW t \in Nat,
         messages' = SubSeq(messages, 1, n) \o NewTurn(ks, t)
  PROVE  StaysStopped
<1>1. Free(ks) /\ \A i \in DOMAIN ks : ks[i] \in Keys /\ RequestsOf(ks[i]) = {}
  BY TargetsNew DEF IInv
<1>2. \A m \in Replies' : \/ m \in Replies
                          \/ \E i \in DOMAIN ks : m = LoadingMessage(ks[i], t)
  <2>1. ListType /\ OwnKeyInv
    BY DEF IInv
  <2>2. \A i \in DOMAIN ks : RequestsOf(ks[i]) = {}
    BY <1>1
  <2>3. QED
    BY <1>1, <2>1, <2>2, NewTurnList, ZenonT(60)
<1>3. \A i \in DOMAIN ks : LoadingMessage(ks[i], t).status # "streaming"
  BY DEF LoadingMessage
<1>4. NoNewStreaming
  BY <1>2, <1>3 DEF NoNewStreaming
<1>5. QED
  BY <1>4, NoNewStaysStopped

LEMMA UserStaysStopped ==
  ASSUME IInv, UserAction
  PROVE  StaysStopped
<1>0. /\ messages \in Seq(Message) /\ Len(messages) \in Nat /\ DOMAIN messages = 1 .. Len(messages)
      /\ ListType /\ OwnKeyInv
  BY DEF IInv, ListType
<1>1. ASSUME NEW ks \in Targets, messages' = messages \o NewTurn(ks, LastTurn(messages) + 1)
      PROVE  StaysStopped
  BY <1>1, AppendedTurn, AskedStaysStopped
<1>2. ASSUME NEW k \in Keys, NEW stream \in BOOLEAN, RegenerateMessage(k, stream)
      PROVE  StaysStopped
  <2>1. PICK m, n : m = Shown(k) /\ n = PushAssistantVersion(m)
    OBVIOUS
  <2>2. UpdateMessageByKey(k, n)
    BY <1>2, <2>1 DEF RegenerateMessage, account
  <2>3. QED
    BY <2>1, <2>2, PushVersionFacts, UpdateStaysStopped
<1>3. ASSUME NEW k \in Keys, NEW i \in 1 .. MaxReq, ChangeVersion(k, i) PROVE StaysStopped
  <2>1. PICK m, n : m = Shown(k) /\ n = [m EXCEPT !.active = i]
    OBVIOUS
  <2>2. UpdateMessageByKey(k, n)
    BY <1>3, <2>1 DEF ChangeVersion, account
  <2>3. m \in Message => n \in Message /\ n.key = m.key /\ n.status = m.status
    <3>1. i \in Nat
      BY MaxReqAssumption
    <3>2. QED
      BY <2>1, <3>1, ActiveFacts
  <2>4. QED
    BY <2>1, <2>2, <2>3, UpdateStaysStopped
<1>4. ASSUME NEW k \in Keys, SaveEdit(k) PROVE StaysStopped
  <2>1. PICK m, n : m = Shown(k) /\ n = WithText(m, {PageText})
    OBVIOUS
  <2>2. UpdateMessageByKey(k, n)
    BY <1>4, <2>1 DEF SaveEdit, account
  <2>3. QED
    BY <2>1, <2>2, PageTextFacts, WithTextFacts, UpdateStaysStopped
<1>5. ASSUME NEW k \in Keys, DeleteMessage(k) PROVE StaysStopped
  BY <1>5, DeletedList, NoNewStaysStopped DEF NoNewStreaming
<1>6. ASSUME NEW i \in DOMAIN messages, NEW ks \in Targets, NEW stream \in BOOLEAN,
             SaveEditAndSubmit(i, ks, stream)
      PROVE  StaysStopped
  <2>1. PICK n, t : n = i - 1 /\ t = messages[i].turn
    OBVIOUS
  <2>2. messages[i] \in Message
    BY <1>0
  <2>3. n \in 0 .. Len(messages) /\ t \in Nat
    BY <1>0, <2>1, <2>2, MessageFields
  <2>4. messages' = SubSeq(messages, 1, n) \o NewTurn(ks, t)
    BY <1>6, <2>1 DEF SaveEditAndSubmit, UpdateMessages, account
  <2>5. QED
    BY <2>3, <2>4, AskedStaysStopped
<1>7. CASE ClearMessages
  <2>1. DOMAIN messages' = {}
    BY <1>7 DEF ClearMessages, UpdateMessages, account
  <2>2. QED
    BY <2>1 DEF StaysStopped, Replies
<1>8. CASE StopGeneration \/ Reload
  <2>1. ASSUME NEW i \in DOMAIN messages' PROVE messages'[i].status # "streaming"
    <3>1. DOMAIN messages' = DOMAIN messages
      BY <1>8 DEF StopGeneration, Reload, UpdateMessages, account
    <3>2. messages[i] \in Message
      BY <1>0, <3>1
    <3>3. messages'[i] \in {Truncate(messages[i]), SanitizeOnLoad(messages[i])}
      BY <1>8, <3>1 DEF StopGeneration, Reload, UpdateMessages, account
    <3>4. QED
      BY <3>2, <3>3, TruncateFacts, SanitizeFacts
  <2>2. QED
    BY <2>1 DEF StaysStopped, Replies
<1>9. CASE SelectConversation
  BY <1>9, NoNewStaysStopped DEF SelectConversation, NoNewStreaming, Replies
<1>10. QED
  BY <1>1, <1>2, <1>3, <1>4, <1>5, <1>6, <1>7, <1>8, <1>9
  DEF UserAction, SendMessage, SubmitToolResults, UpdateMessages, account

LEMMA ServerStaysStopped ==
  ASSUME IInv, ServerAction
  PROVE  StaysStopped
<1>1. PICK r \in 1 .. MaxReq :
         (\E kind \in {"text", "refusal", "tools"} : StreamChunk(r, kind)) \/ ResponseEnds(r)
  BY DEF ServerAction
<1>2. PICK k, m : k = reqs[r].key /\ m = Shown(k)
  OBVIOUS
<1>3. ASSUME NEW kind, StreamChunk(r, kind) PROVE StaysStopped
  <2>1. Streaming(r) /\ NetInv /\ ListType /\ OwnKeyInv
    BY <1>3 DEF StreamChunk, IInv, account
  <2>2. sources[k] = r /\ r # NoReq
    BY <1>2, <2>1, StreamingFacts
  <2>3. k \in KeysOf(messages) /\ k \notin restored => m.status # "truncated" /\ m.key = k
    BY <1>2, <2>1, <2>2, ShownFacts DEF IInv, ReplyInv, StatusInv
  <2>4. PICK text : text = Text(m) \cup (IF kind = "refusal" THEN {} ELSE {r})
    OBVIOUS
  <2>5. PICK n : n = IF kind # "tools" /\ m.status = "error" THEN m
                     ELSE [WithText(m, text) EXCEPT !.status = "streaming"]
    OBVIOUS
  <2>6. UpdateMessageByKey(k, n)
    BY <1>2, <1>3, <2>4, <2>5 DEF StreamChunk, account
  <2>7. ASSUME k \in KeysOf(messages) PROVE n \in Message /\ n.key = k
    <3>1. m \in Message /\ m.key = k
      BY <1>2, <2>1, <2>7, ShownFacts
    <3>2. text \in Texts
      BY <2>4, <3>1, TextFacts DEF Texts
    <3>3. PICK w : w = WithText(m, text)
      OBVIOUS
    <3>4. w \in Message /\ w.key = k /\ "streaming" \in Waiting \cup Settled
      BY <3>1, <3>2, <3>3, WithTextFacts DEF Waiting
    <3>5. [w EXCEPT !.status = "streaming"] \in Message /\ [w EXCEPT !.status = "streaming"].key = k
      BY <3>4, StatusFacts
    <3>6. QED
      BY <2>5, <3>1, <3>3, <3>5
  <2>8. \A o \in Replies' : o \in Replies \/ (k \in KeysOf(messages) /\ o.key = k)
    BY <2>1, <2>6, <2>7, Updated
  <2>9. ASSUME NEW o \in Replies', o.key \in KeysOf(messages), o.key \notin restored,
               Shown(o.key).status = "truncated"
        PROVE  o.status # "streaming"
    <3>1. o.key # k
      BY <1>2, <2>3, <2>9
    <3>2. o = Shown(o.key)
      BY <2>1, <2>8, <2>9, <3>1, ShownFacts
    <3>3. QED
      BY <2>9, <3>2
  <2>10. QED
    BY <2>9 DEF StaysStopped
<1>4. CASE StreamCut(r) \/ PlainEmpty(r)
  <2>1. messages' = messages
    BY <1>4 DEF StreamCut, PlainEmpty, account
  <2>2. NoNewStreaming
    BY <2>1 DEF NoNewStreaming, Replies
  <2>3. QED
    BY <2>2, NoNewStaysStopped
<1>5. CASE StreamDone(r)
  <2>1. PICK n : n = IF m.status \in Settled THEN m ELSE [m EXCEPT !.status = "complete"]
    OBVIOUS
  <2>2. UpdateMessageByKey(k, n) /\ "complete" \in Waiting \cup Settled
    BY <1>2, <1>5, <2>1 DEF StreamDone, Settled, account
  <2>3. ASSUME m \in Message
        PROVE  n \in Message /\ n.key = m.key /\ (n.status = m.status \/ n.status # "streaming")
    <3>1. PICK w : w = [m EXCEPT !.status = "complete"]
      OBVIOUS
    <3>2. w \in Message /\ w.key = m.key /\ w.status = "complete"
      BY <2>2, <2>3, <3>1, StatusFacts
    <3>3. QED
      BY <2>1, <2>3, <3>1, <3>2
  <2>4. QED
    BY <1>2, <2>2, <2>3, UpdateStaysStopped
<1>6. CASE StreamError(r) \/ PlainError(r)
  <2>1. PICK n : n = SetError(m)
    OBVIOUS
  <2>2. UpdateMessageByKey(k, n) \/ messages' = messages
    BY <1>2, <1>6, <2>1 DEF StreamError, PlainError, account
  <2>3. CASE messages' = messages
    <3>1. NoNewStreaming
      BY <2>3 DEF NoNewStreaming, Replies
    <3>2. QED
      BY <3>1, NoNewStaysStopped
  <2>4. CASE UpdateMessageByKey(k, n)
    BY <1>2, <2>1, <2>4, SetErrorFacts, UpdateStaysStopped
  <2>5. QED
    BY <2>2, <2>3, <2>4
<1>7. CASE PlainAnswer(r)
  <2>1. PICK n : n = Answered(m, r)
    OBVIOUS
  <2>2. UpdateMessageByKey(k, n)
    BY <1>2, <1>7, <2>1 DEF PlainAnswer, Answered, account
  <2>3. r \in 0 .. MaxReq
    BY MaxReqAssumption
  <2>4. QED
    BY <1>2, <2>1, <2>2, <2>3, AnsweredFacts, UpdateStaysStopped
<1>8. QED
  BY <1>1, <1>3, <1>4, <1>5, <1>6, <1>7 DEF ResponseEnds

LEMMA AccountStaysStopped ==
  ASSUME IInv, CopyInv(fetched), AccountAction
  PROVE  StaysStopped
<1>1. CASE messages' = messages
  BY <1>1, NoNewStaysStopped DEF NoNewStreaming, Replies
<1>2. CASE messages' = fetched
  BY <1>2 DEF StaysStopped, Replies, CopyInv, Waiting
<1>3. QED
  BY <1>1, <1>2 DEF AccountAction, Persist, SelectReturns, SelectFails, UpdateMessages

\* A reply that was stopped never starts streaming again: no chunk of the
\* streams that Stop closed is written into it, and no list that a select
\* brings holds a reply that streams.
THEOREM StopHolds == Spec => StopIsFinal
<1>1. ASSUME IInv, AccountInv, [Next]_vars,
             NEW k \in KeysOf(messages) \cap KeysOf(messages'),
             messages[At(messages, k)].status = "truncated", k \notin restored
      PROVE  messages'[At(messages', k)].status # "streaming"
  <2>1. StaysStopped
    <3>1. CASE UNCHANGED vars
      BY <1>1, <3>1, NoNewStaysStopped DEF vars, NoNewStreaming, Replies
    <3>2. CASE Next
      BY <1>1, <3>2, UserStaysStopped, ServerStaysStopped, AccountStaysStopped DEF Next, AccountInv
    <3>3. QED
      BY <1>1, <3>1, <3>2
  <2>2. PICK n : n = messages'[At(messages', k)]
    OBVIOUS
  <2>3. n \in Replies' /\ n.key = k
    <3>1. \E i \in DOMAIN messages' : messages'[i].key = k
      BY DEF KeysOf
    <3>2. At(messages', k) \in DOMAIN messages' /\ messages'[At(messages', k)].key = k
      BY <3>1 DEF At
    <3>3. QED
      BY <2>2, <3>2 DEF Replies
  <2>4. Shown(k).status = "truncated"
    BY <1>1 DEF Shown
  <2>5. QED
    BY <1>1, <2>1, <2>2, <2>3, <2>4 DEF StaysStopped
<1>2. IInv /\ AccountInv /\ [Next]_vars =>
        [\A k \in KeysOf(messages) \cap KeysOf(messages') :
            messages[At(messages, k)].status = "truncated" /\ k \notin restored =>
               messages'[At(messages', k)].status # "streaming"]_vars
  BY <1>1
<1>3. QED
  BY <1>2, InvHolds, PTL DEF Spec, StopIsFinal

=============================================================================
