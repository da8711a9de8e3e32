----------------------------- MODULE ChatLists -----------------------------
(***************************************************************************)
(* ChatListsProvider and its ChatList objects (providers/chat_lists): the  *)
(* sorted lists of chats that the home pages render, kept up to date by    *)
(* TDLib's updates.  A handler runs to its end without an await, so each   *)
(* update is one step.  pos.source and pos.isPinned are carried along as   *)
(* opaque data by the code and left out.                                   *)
(***************************************************************************)
EXTENDS Naturals, Sequences, SequencesExt

CONSTANTS Chats,      \* chat identifiers
          Main,       \* td.ChatListMain
          Folders,    \* chat folders; the archive, whose ChatList gets no
                      \* updates, acts as a folder that is never opened
          Orders,     \* values of td.ChatPosition.order
          Messages,   \* contents of a last message
          Drafts,     \* contents of a draft
          None        \* a null field

ASSUME ChatListsAssumption ==
  /\ Orders \subseteq Nat /\ 0 \in Orders
  /\ IsFiniteSet(Folders) /\ Main \notin Folders
  /\ None \notin Messages /\ None \notin Drafts
  /\ Chats # {}

Lists == {Main} \cup Folders

Placing == Orders \ {0}

BriefChatInfo ==
  [chatId : Chats,
   order : Placing,
   lastMessage : Messages \cup {None},
   lastDraftMessage : Drafts \cup {None}]

VARIABLES
  folders,           \* chatListsFolders, the folder pages in TDLib's order
  mainChatPosition,  \* _mainChatPosition
  chats,             \* chats[l]: ChatList._chats of list object l
  unseen,            \* unseen[l]: chats whose entry changed since _update() ran for l
  latest             \* latest[c]: contents TDLib announced last for c

vars == <<folders, mainChatPosition, chats, unseen, latest>>

Open == DOMAIN chats

FolderLists == { fs \in BoundedSeq(Folders, Cardinality(Folders)) : IsInjective(fs) }

\* The getter chatLists: the pages of the home screen.
chatLists == InsertAt(folders, mainChatPosition + 1, Main)

TypeOK ==
  /\ folders \in FolderLists
  /\ mainChatPosition \in 0..Len(folders)
  /\ ToSet(chatLists) = Open
  /\ \A l \in Open : chats[l] \in Seq(BriefChatInfo)
  /\ unseen \in [Open -> SUBSET Chats]
  /\ latest \in [Chats -> [message : Messages \cup {None}, draft : Drafts \cup {None}]]

Init ==
  /\ folders = <<>>
  /\ mainChatPosition = 0
  /\ chats = [l \in {Main} |-> <<>>]
  /\ unseen = [l \in {Main} |-> {}]
  /\ latest = [c \in Chats |-> [message |-> None, draft |-> None]]

-----------------------------------------------------------------------------
(* ChatList: the list of one page *)

\* List.indexWhere on the indices that pass its test, counted from 1; 0 when there is none.
IndexWhere(I) == IF I = {} THEN 0 ELSE Min(I)

IndexOf(s, c) == IndexWhere({ i \in DOMAIN s : s[i].chatId = c })

Holds(s, c) == IndexOf(s, c) # 0

\* A bug: every chat of that order leaves with the chat.
WithoutItsOrder(s, c) ==
  IF Holds(s, c) THEN SelectSeq(s, LAMBDA e : e.order # s[IndexOf(s, c)].order) ELSE s

WithoutChat(s, c) == IF Holds(s, c) THEN RemoveAt(s, IndexOf(s, c)) ELSE s

\* Before the first chat of a smaller order, else at the end.
InsertByOrder(s, e) ==
  LET next == IndexWhere({ i \in DOMAIN s : s[i].order < e.order })
  IN IF next # 0 THEN InsertAt(s, next, e) ELSE Append(s, e)

\* The entry of chat c, if any.
Entry(s, c) == IF Holds(s, c) THEN s[IndexOf(s, c)] ELSE None

\* A bug: the draft is not carried over.
ReplacedWithoutDraft(s, c, o) ==
  LET lastInfo == Entry(s, c)
  IN [chatId |-> c,
      order |-> o,
      lastMessage |-> IF lastInfo = None THEN None ELSE lastInfo.lastMessage,
      lastDraftMessage |-> None]

\* A re-placed chat keeps the contents of its old entry.
Replaced(s, c, o) ==
  LET lastInfo == Entry(s, c)
  IN [chatId |-> c,
      order |-> o,
      lastMessage |-> IF lastInfo = None THEN None ELSE lastInfo.lastMessage,
      lastDraftMessage |-> IF lastInfo = None THEN None ELSE lastInfo.lastDraftMessage]

\* A bug: order 0 is a position like any other.
updatePositionZero(s, c, o) == InsertByOrder(WithoutChat(s, c), Replaced(s, c, o))

\* A bug: the old entry is looked up before and removed after the insertion.
updatePositionLate(s, c, o) ==
  IF o = 0 THEN WithoutChat(s, c)
  ELSE LET t == InsertByOrder(s, Replaced(s, c, o))
       IN IF Holds(s, c) THEN RemoveAt(t, IndexOf(s, c)) ELSE t

updateChatPosition(s, c, o) ==
  IF o = 0 THEN WithoutChat(s, c) ELSE InsertByOrder(WithoutChat(s, c), Replaced(s, c, o))

updateLastMessage(s, c, m) ==
  IF Holds(s, c) THEN [s EXCEPT ![IndexOf(s, c)].lastMessage = m] ELSE s

updateDraftMessage(s, c, d) ==
  IF Holds(s, c) THEN [s EXCEPT ![IndexOf(s, c)].lastDraftMessage = d] ELSE s

\* List l's entries after the positions an update carries for it, if any.
Moved(l, c, positions) ==
  IF l \in DOMAIN positions THEN updateChatPosition(chats[l], c, positions[l]) ELSE chats[l]

-----------------------------------------------------------------------------
(* ChatListsProvider.updatesListener: one action per update of TDLib *)

Positions == UNION { [ls -> Placing] : ls \in SUBSET Lists }

\* The entries of the kept lists that this step changes are unseen until a listener runs.
Notify(ls) ==
  unseen' = [l \in Open' |->
               IF l \in ls \/ l \notin Open THEN {}
               ELSE unseen[l] \cup { c \in Chats : Entry(chats[l], c) # Entry(chats'[l], c) }]

\* Leaving a list (order 0) returns before _update(): no listener runs.
UpdateChatPosition(l, c, o) ==
  /\ chats' = [k \in Open |-> Moved(k, c, [j \in {l} |-> o])]
  /\ Notify(IF o = 0 THEN {} ELSE {l})
  /\ UNCHANGED <<folders, mainChatPosition, latest>>

\* "Possible case if user hadn't joined this chat yet": only then are there no positions.
Announceable(c, positions) ==
  DOMAIN positions = {} => \A l \in Open : ~Holds(chats[l], c)

\* Being moved in a list and getting new contents there both call _update().
ListingBefore(c) == { l \in Open : Holds(chats[l], c) }   \* a bug: who held it before

Listing(c) == { l \in Open' : Holds(chats'[l], c) }

\* A bug: a list whose position comes along is moved and not given the message.
UpdateLastMessageElse(c, positions, m) ==
  /\ Announceable(c, positions)
  /\ chats' = [l \in Open |-> IF l \in DOMAIN positions THEN Moved(l, c, positions)
                             ELSE updateLastMessage(chats[l], c, m)]
  /\ Notify(Listing(c))
  /\ latest' = [latest EXCEPT ![c].message = m]
  /\ UNCHANGED <<folders, mainChatPosition>>

UpdateChatLastMessage(c, positions, m) ==
  /\ Announceable(c, positions)
  /\ chats' = IF DOMAIN positions = {} THEN chats
              ELSE [l \in Open |-> updateLastMessage(Moved(l, c, positions), c, m)]
  /\ Notify(Listing(c))
  /\ latest' = [latest EXCEPT ![c].message = m]
  /\ UNCHANGED <<folders, mainChatPosition>>

UpdateChatDraftMessage(c, positions, d) ==
  /\ Announceable(c, positions)
  /\ chats' = IF DOMAIN positions = {} THEN chats
              ELSE [l \in Open |-> updateDraftMessage(Moved(l, c, positions), c, d)]
  /\ Notify(Listing(c))
  /\ latest' = [latest EXCEPT ![c].draft = d]
  /\ UNCHANGED <<folders, mainChatPosition>>

\* A known folder keeps its ChatList, a new one gets an empty one; then every
\* folder list looks up its own info and notifies.
UpdateChatFolders(fs, position) ==
  /\ folders' = fs
  /\ mainChatPosition' = position
  /\ chats' = [l \in {Main} \cup ToSet(fs) |-> IF l \in Open THEN chats[l] ELSE <<>>]
  /\ Notify(ToSet(fs))
  /\ UNCHANGED latest

Next ==
  \/ \E l \in Lists, c \in Chats, o \in Orders : UpdateChatPosition(l, c, o)
  \/ \E c \in Chats, positions \in Positions, m \in Messages \cup {None} :
       UpdateChatLastMessage(c, positions, m)
  \/ \E c \in Chats, positions \in Positions, d \in Drafts \cup {None} :
       UpdateChatDraftMessage(c, positions, d)
  \/ \E fs \in FolderLists : \E position \in 0..Len(fs) : UpdateChatFolders(fs, position)

Spec == Init /\ [][Next]_vars

-----------------------------------------------------------------------------
(* Properties *)

Ordered(s) ==
  \A i, j \in DOMAIN s : i < j => s[i].order >= s[j].order /\ s[i].chatId # s[j].chatId

\* A page lists a chat at most once and by falling order, whatever sequence of
\* position, message and draft updates reached it: re-placing a chat removes its
\* old entry before the search for the new place.
OrderedByPosition == \A l \in Open : Ordered(chats[l])

\* An entry shows the last message and the draft announced last for its chat, or
\* none: re-placing a chat copies its contents and never brings an older one back.
ShowsLatestContent ==
  \A l \in Open : \A i \in DOMAIN chats[l] :
    LET e == chats[l][i]
    IN /\ e.lastMessage \in {None, latest[e.chatId].message}
       /\ e.lastDraftMessage \in {None, latest[e.chatId].draft}

\* What the listeners of a page have not been told of is only chats that left it:
\* any arrival, move or new content has been notified.
StaleOnlyByRemoval ==
  \A l \in Open : \A c \in unseen[l] : ~Holds(chats[l], c)

Precedes(s, d, e) ==
  \E i, j \in DOMAIN s : i <= j /\ s[i].chatId = d /\ s[j].chatId = e

\* One update moves at most one chat: the others of a page stay, and keep their
\* relative places, equal orders included.
OneChatMoves ==
  [][\A l \in Open \cap Open' : \E c \in Chats : \A d, e \in Chats \ {c} :
       Precedes(chats'[l], d, e) <=> Precedes(chats[l], d, e)]_vars

\* Every page holds exactly the chats, positions and contents ChatPositions promises.
ViewOf(s) ==
  [c \in Chats |->
     LET e == Entry(s, c)
     IN IF e = None THEN None
        ELSE [order |-> e.order, lastMessage |-> e.lastMessage,
              lastDraftMessage |-> e.lastDraftMessage]]

Abstract == INSTANCE ChatPositions WITH view <- [l \in Open |-> ViewOf(chats[l])]

ImplementsPositions == Abstract!Spec

\* Null is not an entry of a list, nor what an entry shows.
ASSUME NullAssumption == None \notin BriefChatInfo /\ None \notin Abstract!View
=============================================================================
