--------------------------- MODULE ChatPositions ---------------------------
(***************************************************************************)
(* What the chat lists of an account promise, without any ordering: for    *)
(* every open list, which chats it holds, each at the position announced   *)
(* last and with the content it was given since it entered the list.       *)
(* ChatLists implements this specification with sorted Dart lists.         *)
(***************************************************************************)
CONSTANTS Chats,      \* chat identifiers
          Main,       \* td.ChatListMain
          Folders,    \* chat folders, and the archive
          Orders,     \* values of td.ChatPosition.order
          Messages,   \* contents of a last message
          Drafts,     \* contents of a draft
          None        \* a null field, and a chat that is not in a list

Placing == Orders \ {0}

View == [order : Placing,
         lastMessage : Messages \cup {None},
         lastDraftMessage : Drafts \cup {None}]

VARIABLE view   \* view[l][c]: how open list l shows chat c, or None

Open == DOMAIN view

TypeOK ==
  /\ Main \in Open /\ Open \subseteq {Main} \cup Folders
  /\ \A l \in Open : view[l] \in [Chats -> View \cup {None}]

Empty == [c \in Chats |-> None]

Init == view = [l \in {Main} |-> Empty]

\* Chat view v once the list has announced order o for it.
Placed(v, o) ==
  IF o = 0 THEN None
  ELSE [order |-> o,
        lastMessage |-> IF v = None THEN None ELSE v.lastMessage,
        lastDraftMessage |-> IF v = None THEN None ELSE v.lastDraftMessage]

WithMessage(v, m) == IF v = None THEN None ELSE [v EXCEPT !.lastMessage = m]
WithDraft(v, d) == IF v = None THEN None ELSE [v EXCEPT !.lastDraftMessage = d]

(* What a step from view v to view w may do. *)

OnlyChat(c, v, w) ==
  /\ DOMAIN w = DOMAIN v
  /\ \A l \in DOMAIN v, d \in Chats \ {c} : w[l][d] = v[l][d]

PositionAnnounced(c, v, w) ==
  \E l \in DOMAIN v :
    /\ \E o \in Orders : w[l][c] = Placed(v[l][c], o)
    /\ \A k \in DOMAIN v \ {l} : w[k][c] = v[k][c]

\* Contents come with new positions in some of the lists.
MessageAnnounced(c, v, w) ==
  \E m \in Messages \cup {None} : \A l \in DOMAIN v :
    \/ w[l][c] = WithMessage(v[l][c], m)
    \/ \E o \in Placing : w[l][c] = WithMessage(Placed(v[l][c], o), m)

DraftAnnounced(c, v, w) ==
  \E d \in Drafts \cup {None} : \A l \in DOMAIN v :
    \/ w[l][c] = WithDraft(v[l][c], d)
    \/ \E o \in Placing : w[l][c] = WithDraft(Placed(v[l][c], o), d)

\* A folder that stays keeps what it shows; a new one starts empty.
FoldersAnnounced(v, w) ==
  /\ Main \in DOMAIN w /\ DOMAIN w \subseteq {Main} \cup Folders
  /\ \A l \in DOMAIN w : w[l] = IF l \in DOMAIN v THEN v[l] ELSE Empty

Step(v, w) ==
  \/ \E c \in Chats :
       /\ OnlyChat(c, v, w)
       /\ PositionAnnounced(c, v, w) \/ MessageAnnounced(c, v, w) \/ DraftAnnounced(c, v, w)
  \/ FoldersAnnounced(v, w)

Next == Step(view, view')

Spec == Init /\ [][Next]_view
=============================================================================
