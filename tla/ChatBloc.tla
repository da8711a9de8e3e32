------------------------------ MODULE ChatBloc ------------------------------
(***************************************************************************)
(* One open chat: ChatBloc (the list of message containers it keeps and    *)
(* sends to the page) and the page's part in it, ChatView: it announces    *)
(* that it is ready to show, passes on a request for more messages at a    *)
(* LoadMore container, and closes.  The bloc runs its event handlers concurrently,  *)
(* so several _loadMore may wait for TDLib at a time, for one container    *)
(* too.                                                                    *)
(*                                                                         *)
(* TDLib sends answers and updates to the bloc in one order, and the model *)
(* lets the bloc see them at once: what is delayed is the request.  The    *)
(* chat grows at its newest end and loses messages anywhere.  A message is *)
(* its id.                                                                 *)
(***************************************************************************)
EXTENDS Integers, Sequences, FiniteSets, FiniteSetsExt, SequencesExt

CONSTANTS MaxMessages,    \* bound: ids a chat may use
          MaxDeletions,   \* bound: messages deleted
          MaxAsked,       \* bound: LoadMore events without an answer
          InitialLimit,   \* the limit of _loadInitialMessages, 20
          LoadMoreCount,  \* _kLoadMoreCount, 10
          Directions      \* the values of older it is asked with: FALSE by the page

ASSUME LimitsAssumption == InitialLimit \in Nat \ {0} /\ LoadMoreCount \in Nat \ {0, 1}
ASSUME DirectionsAssumption == Directions \subseteq BOOLEAN
ASSUME ChatBoundsAssumption == /\ MaxMessages \in Nat
                               /\ MaxDeletions \in Nat
                               /\ MaxAsked \in Nat

(***************************************************************************)
(* history, newest, deleted   the chat at TDLib: its messages, the largest *)
(*      id it has used, how many were deleted;                             *)
(* opening    where _preload waits: for the chat, for the messages (from   *)
(*      the id from), for the page, for the type of the chat;              *)
(* uiReady    the completer: held by the field _uiReady, completed;        *)
(* lastMessage  _chat.lastMessage, 0 for none;                             *)
(* containers, data   _containers, and the keys of _messagesData;          *)
(* asked      the containers of the LoadMore events being handled;         *)
(* made       LoadMore objects made so far: containers are compared by     *)
(*      identity, so each LoadMore carries its number.                     *)
(***************************************************************************)
VARIABLES history, newest, deleted, opening, from, uiReady, lastMessage,
          blocState, containers, data, asked, made, closed

chat == <<history, newest, deleted>>
vars == <<history, newest, deleted, opening, from, uiReady, lastMessage,
          blocState, containers, data, asked, made, closed>>

MessageId(m) == [kind |-> "message", id |-> m, older |-> FALSE, made |-> 0]
NoMore(older) == [kind |-> "end", id |-> 0, older |-> older, made |-> 0]
LoadMore(m, older, n) == [kind |-> "more", id |-> m, older |-> older, made |-> n]

Container == [kind : {"message", "end", "more"}, id : 0 .. MaxMessages,
              older : BOOLEAN, made : Nat]

TypeOK ==
  /\ newest \in 0 .. MaxMessages
  /\ history \subseteq 1 .. newest
  /\ deleted \in 0 .. MaxDeletions
  /\ opening \in {"chat", "history", "page", "type", "done"}
  /\ from \in 0 .. MaxMessages
  /\ uiReady \in [held : BOOLEAN, completed : BOOLEAN]
  /\ lastMessage \in 0 .. MaxMessages
  /\ blocState \in {"loading", "ready", "error"}
  /\ containers \in Seq(Container)
  /\ data \subseteq 1 .. MaxMessages
  /\ asked \in Seq(Container)
  /\ made \in Nat
  /\ closed \in BOOLEAN

(***************************************************************************)
(* What TDLib answers to GetChatHistory: newest first, up to -offset       *)
(* messages newer than the given one, then up to limit + offset from that  *)
(* one on to older ones; 0 stands for the end of the chat.  That the given *)
(* message is itself in the answer is what _loadChunk relies on, that      *)
(* older ones do not make up for newer ones what _loadMore does.           *)
(***************************************************************************)
Above(h, S) == {k \in S : k > h}
Below(h, S) == {k \in S : k < h}
NewestFirst(S) ==
  [i \in 1 .. Cardinality(S) |-> CHOOSE h \in S : Cardinality(Above(h, S)) = i - 1]

Newer(m) == IF m = 0 THEN {} ELSE Above(m, history)

Around(m, offset, limit) ==
  LET newer == Newer(m)
      older == history \ newer
  IN  {h \in newer : Cardinality(Below(h, newer)) < 0 - offset}
        \cup {h \in older : Cardinality(Above(h, older)) < limit + offset}

History(m, offset, limit) == NewestFirst(Around(m, offset, limit))

\* Mutant: -1 stands for no last message.
NewestOrMinusOne(S) == IF S = {} THEN 0 - 1 ELSE Max(S)

NewestOf(S) == IF S = {} THEN 0 ELSE Max(S)

Init ==
  /\ newest \in 0 .. MaxMessages
  /\ history = 1 .. newest
  /\ deleted = 0
  /\ opening = "chat"
  /\ from = 0
  /\ uiReady = [held |-> TRUE, completed |-> FALSE]
  /\ lastMessage = 0
  /\ blocState = "loading"
  /\ containers = << >>
  /\ data = {}
  /\ asked = << >>
  /\ made = 0
  /\ closed = FALSE

\* A closed bloc has cancelled its emitters: emitting changes nothing.
Emit(s) == blocState' = IF closed THEN blocState ELSE s

Ids(messages) == {messages[i] : i \in DOMAIN messages}
AsContainers(messages) == [i \in DOMAIN messages |-> MessageId(messages[i])]

(***************************************************************************)
(* _preload: the chat, the subscription to its updates, and the request    *)
(* for the messages around the last one read, on this device or another.   *)
(***************************************************************************)
ChatLoaded ==
  /\ opening = "chat"
  /\ opening' = "history"
  /\ from' \in 0 .. newest
  /\ lastMessage' = NewestOf(history)
  /\ UNCHANGED <<chat, uiReady, blocState, containers, data, asked, made, closed>>

\* The container at the older end of a first answer, and at its newer end.
OlderEnd(messages) ==
  IF Len(messages) >= InitialLimit THEN LoadMore(Last(messages), TRUE, made + 1)
  ELSE NoMore(TRUE)

\* Mutant: newer messages are loaded from the last message of the chat.
NewerEndFromLast(messages) ==
  IF messages[1] # lastMessage THEN LoadMore(lastMessage, FALSE, made + 2)
  ELSE NoMore(FALSE)

NewerEnd(messages) ==
  IF messages[1] # lastMessage THEN LoadMore(messages[1], FALSE, made + 2)
  ELSE NoMore(FALSE)

InitialList(messages) ==
  IF messages = << >> THEN <<NoMore(TRUE)>>
  ELSE <<OlderEnd(messages)>> \o AsContainers(Reverse(messages)) \o <<NewerEnd(messages)>>

\* After the messages _preload awaits _uiReady, unless the page was sooner.
MessagesLoaded ==
  /\ opening = "history"
  /\ LET messages == History(from, 0, InitialLimit)
     IN  /\ containers' = InitialList(messages)
         /\ data' = Ids(messages)
  /\ made' = 2
  /\ opening' = IF uiReady.held THEN "page" ELSE "type"
  /\ UNCHANGED <<chat, from, uiReady, lastMessage, blocState, asked, closed>>

\* Mutant: the field is cleared before it is completed.
ReleasedLate(c) == [held |-> FALSE, completed |-> c.completed]

\* The page sends ReadyToShow once, if it is still there: _setUiReady.
Released(c) == [held |-> FALSE, completed |-> c.held \/ c.completed]

ReadyToShow ==
  /\ uiReady.held
  /\ ~closed
  /\ uiReady' = Released(uiReady)
  /\ UNCHANGED <<chat, opening, from, lastMessage, blocState, containers, data,
                 asked, made, closed>>

PageAwaited ==
  /\ opening = "page"
  /\ uiReady.completed
  /\ opening' = "type"
  /\ UNCHANGED <<chat, from, uiReady, lastMessage, blocState, containers, data,
                 asked, made, closed>>

Ready ==
  /\ opening = "type"
  /\ opening' = "done"
  /\ Emit("ready")
  /\ UNCHANGED <<chat, from, uiReady, lastMessage, containers, data, asked, made,
                 closed>>

\* TDLib refuses a request of _preload, or is silent for ten seconds.
PreloadFails ==
  /\ opening \in {"chat", "history", "type"}
  /\ opening' = "done"
  /\ Emit("error")
  /\ UNCHANGED <<chat, from, uiReady, lastMessage, containers, data, asked, made,
                 closed>>

(***************************************************************************)
(* When its list asks for more (onLoadMore), the page passes that on for   *)
(* the first LoadMore at the newer end.  The bloc handles the older end    *)
(* alike, but no page asks there: Directions says which events come.       *)
(***************************************************************************)
Markers(older) ==
  {i \in DOMAIN containers : containers[i].kind = "more" /\ containers[i].older = older}

Marker(older) == containers[Min(Markers(older))]

AskForMore(older) ==
  /\ blocState = "ready"
  /\ ~closed
  /\ Markers(older) # {}
  /\ Len(asked) < MaxAsked
  /\ asked' = Append(asked, Marker(older))
  /\ UNCHANGED <<chat, opening, from, uiReady, lastMessage, blocState, containers,
                 data, made, closed>>

(***************************************************************************)
(* The answer to one _loadMore.  The container may be gone by now: another *)
(* event for it was answered first.  The messages are inserted one by one  *)
(* at its place, which reverses them, and the container of the next load   *)
(* in front of them.                                                       *)
(***************************************************************************)
OffsetOf(marker) == IF marker.older THEN 0 ELSE 0 - (LoadMoreCount - 1)
AnswerFor(marker) == History(marker.id, OffsetOf(marker), LoadMoreCount)

NextContainer(marker, messages) ==
  IF Len(messages) >= LoadMoreCount
  THEN LoadMore(IF marker.older THEN Last(messages) ELSE messages[1],
                marker.older, made + 1)
  ELSE NoMore(marker.older)

\* Mutant: the container that asked is not removed.
ReplacedKept(list, i, marker, messages) ==
  SubSeq(list, 1, i) \o <<NextContainer(marker, messages)>>
    \o AsContainers(IF marker.older THEN messages ELSE Reverse(messages))
    \o SubSeq(list, i + 1, Len(list))

Replaced(list, i, marker, messages) ==
  LET inserted == IF marker.older THEN messages ELSE Reverse(messages)
  IN  SubSeq(list, 1, i - 1) \o <<NextContainer(marker, messages)>>
        \o AsContainers(inserted) \o SubSeq(list, i + 1, Len(list))

\* Mutant: an answer that is not full is taken for an empty one.
ListedWhenFull(list, marker, messages) ==
  IF Len(messages) >= LoadMoreCount /\ Contains(list, marker)
  THEN Replaced(list, CHOOSE i \in DOMAIN list : list[i] = marker, marker, messages)
  ELSE list

Listed(list, marker, messages) ==
  IF messages # << >> /\ Contains(list, marker)
  THEN Replaced(list, CHOOSE i \in DOMAIN list : list[i] = marker, marker, messages)
  ELSE list

\* Mutant: the messages are kept before the container is looked for.
LearnedAtOnce(ids, list, marker, messages) == ids \cup Ids(messages)

Learned(ids, list, marker, messages) ==
  IF Contains(list, marker) THEN ids \cup Ids(messages) ELSE ids

MoreLoaded(k) ==
  LET marker   == asked[k]
      messages == AnswerFor(marker)
  IN  /\ containers' = Listed(containers, marker, messages)
      /\ data' = Learned(data, containers, marker, messages)
      /\ made' = IF containers' # containers THEN made + 1 ELSE made
      /\ asked' = RemoveAt(asked, k)
      /\ UNCHANGED <<chat, opening, from, uiReady, lastMessage, blocState, closed>>

\* One failed request replaces the whole chat by an error.
LoadMoreFails(k) ==
  /\ asked' = RemoveAt(asked, k)
  /\ Emit("error")
  /\ UNCHANGED <<chat, opening, from, uiReady, lastMessage, containers, data, made,
                 closed>>

(***************************************************************************)
(* The chat changes.  Once subscribed, and after the page has closed too,  *)
(* the bloc hears of its last message, and of nothing else that is shown.  *)
(***************************************************************************)
ChatChanges ==
  /\ lastMessage' = IF opening = "chat" THEN lastMessage ELSE NewestOf(history')
  /\ UNCHANGED <<opening, from, uiReady, blocState, containers, data, asked, made,
                 closed>>

NewMessage ==
  /\ newest < MaxMessages
  /\ newest' = newest + 1
  /\ history' = history \cup {newest + 1}
  /\ ChatChanges
  /\ UNCHANGED deleted

DeleteMessage ==
  /\ deleted < MaxDeletions
  /\ \E m \in history : history' = history \ {m}
  /\ deleted' = deleted + 1
  /\ ChatChanges
  /\ UNCHANGED newest

\* The page is disposed of: it closes the bloc and never calls dispose().
Close ==
  /\ ~closed
  /\ closed' = TRUE
  /\ UNCHANGED <<chat, opening, from, uiReady, lastMessage, blocState, containers,
                 data, asked, made>>

Next ==
  \/ ChatLoaded
  \/ MessagesLoaded
  \/ ReadyToShow
  \/ PageAwaited
  \/ Ready
  \/ PreloadFails
  \/ \E older \in Directions : AskForMore(older)
  \/ \E k \in DOMAIN asked : MoreLoaded(k)
  \/ \E k \in DOMAIN asked : LoadMoreFails(k)
  \/ NewMessage
  \/ DeleteMessage
  \/ Close

Spec == Init /\ [][Next]_vars

(***************************************************************************)
(* TDLib answers every request or it fails, the handlers go on, and the    *)
(* page becomes ready after 100 ms.  Nothing makes anybody ask for more,   *)
(* the chat change, a request fail or the page close.                      *)
(***************************************************************************)
Opening == ChatLoaded \/ MessagesLoaded \/ PageAwaited \/ Ready
Answering(older) == \E k \in DOMAIN asked : asked[k].older = older /\ MoreLoaded(k)

FairSpec ==
  /\ Spec
  /\ WF_vars(Opening)
  /\ WF_vars(ReadyToShow)
  /\ \A older \in Directions : WF_vars(Answering(older))

-----------------------------------------------------------------------------
\* The ids listed are the ids whose message is known: the page reads the
\* message of each container of a list it is sent.
ListedAreKnown ==
  {c.id : c \in {containers[i] : i \in {j \in DOMAIN containers :
                                          containers[j].kind = "message"}}} = data

\* However many events ask at one container, and whatever order their answers
\* come in, the list has at most one LoadMore or NoMoreMessages per direction.
OneEndEach ==
  \A older \in BOOLEAN :
    Cardinality({i \in DOMAIN containers : /\ containers[i].kind # "message"
                                           /\ containers[i].older = older}) <= 1

\* Loading from the LoadMore containers never skips a message: whatever the
\* chat still has between two messages shown is shown too.
NoGap ==
  \A m \in history :
    (\E a, b \in data : a < m /\ m < b) => m \in data

\* _preload never waits for a page that was ready before it.
OpeningEnds == <>(blocState # "loading" \/ closed)

\* A LoadMore container that is asked for more gives way to its answer, however
\* many events ask at it and whatever the chat gains or loses meanwhile, unless
\* a request failed, the page was closed, or the container's message was deleted
\* with all that its answer could hold (an empty answer changes nothing).
LoadingEnds ==
  \A n \in 1 .. 2 * MaxMessages :
    (\E k \in DOMAIN asked : asked[k].made = n) ~>
      (\/ \A i \in DOMAIN containers : containers[i].made # n
       \/ \E k \in DOMAIN asked : asked[k].made = n /\ AnswerFor(asked[k]) = << >>
       \/ blocState # "ready"
       \/ closed)
=============================================================================
