-------------------------- MODULE ChatListsProofs --------------------------
(***************************************************************************)
(* For any chats, folders and orders: every page of ChatLists is sorted    *)
(* and lists no chat twice, and ChatLists implements ChatPositions. What   *)
(* follows from it: entries show the latest contents, only removals go     *)
(* unnoticed, and one update moves one chat.                               *)
(***************************************************************************)
EXTENDS ChatLists, SequenceTheorems, FiniteSetTheorems, WellFoundedInduction, TLAPS

-----------------------------------------------------------------------------
(* Sequences: removing, inserting, searching *)

\* List.removeAt: the entries after the index move up by one.
LEMMA RemoveAtElements ==
  ASSUME NEW S, NEW s \in Seq(S), NEW i \in DOMAIN s
  PROVE  LET r == RemoveAt(s, i)
         IN /\ r \in Seq(S)
            /\ Len(r) = Len(s) - 1
            /\ \A j \in DOMAIN r : r[j] = IF j < i THEN s[j] ELSE s[j + 1]
<1> DEFINE a == SubSeq(s, 1, i - 1)
           b == SubSeq(s, i + 1, Len(s))
<1>0. i \in 1..Len(s) /\ Len(s) \in Nat
  BY LenProperties
<1>1. a \in Seq(S) /\ Len(a) = i - 1 /\ \A j \in 1..(i - 1) : a[j] = s[j]
  BY <1>0, SubSeqProperties
<1>2. b \in Seq(S) /\ Len(b) = Len(s) - i /\ \A j \in 1..(Len(s) - i) : b[j] = s[i + j]
  BY <1>0, SubSeqProperties
<1> HIDE DEF a, b
<1>3. a \o b \in Seq(S) /\ Len(a \o b) = Len(s) - 1
  BY <1>0, <1>1, <1>2, ConcatProperties
<1>4. ASSUME NEW j \in DOMAIN (a \o b)
      PROVE  (a \o b)[j] = IF j < i THEN s[j] ELSE s[j + 1]
  <2>1. j \in 1..(Len(s) - 1)
    BY <1>3, LenProperties
  <2>2. (a \o b)[j] = IF j <= Len(a) THEN a[j] ELSE b[j - Len(a)]
    BY <1>0, <1>1, <1>2, <2>1, ConcatProperties
  <2>3. CASE j < i
    BY <1>0, <1>1, <2>1, <2>2, <2>3
  <2>4. CASE ~(j < i)
    <3>1. (a \o b)[j] = b[j - i + 1] /\ j - i + 1 \in 1..(Len(s) - i)
      BY <1>0, <1>1, <2>1, <2>2, <2>4
    <3>2. b[j - i + 1] = s[j + 1]
      <4>1. b[j - i + 1] = s[i + (j - i + 1)]
        BY <1>2, <3>1
      <4> QED
        BY <1>0, <2>1, <4>1
    <3> QED
      BY <2>4, <3>1, <3>2
  <2> QED
    BY <2>3, <2>4
<1> QED
  BY <1>3, <1>4 DEF RemoveAt, a, b

\* List.insert: the entries from the index on move down by one.
LEMMA InsertAtElements ==
  ASSUME NEW S, NEW s \in Seq(S), NEW e \in S, NEW i \in 1..(Len(s) + 1)
  PROVE  LET r == InsertAt(s, i, e)
         IN /\ r \in Seq(S)
            /\ Len(r) = Len(s) + 1
            /\ r[i] = e
            /\ \A j \in DOMAIN r : r[j] = IF j < i THEN s[j] ELSE IF j = i THEN e ELSE s[j - 1]
<1> DEFINE a == SubSeq(s, 1, i - 1)
           b == SubSeq(s, i, Len(s))
<1>0. i \in Nat /\ i >= 1 /\ i <= Len(s) + 1 /\ Len(s) \in Nat
  BY LenProperties
<1>1. a \in Seq(S) /\ Len(a) = i - 1 /\ \A j \in 1..(i - 1) : a[j] = s[j]
  BY <1>0, SubSeqProperties
<1>2. b \in Seq(S) /\ Len(b) = Len(s) - i + 1
      /\ \A j \in 1..(Len(s) - i + 1) : b[j] = s[i + j - 1]
  BY <1>0, SubSeqProperties
<1> HIDE DEF a, b
<1>3. <<e>> \in Seq(S) /\ Len(<<e>>) = 1 /\ <<e>>[1] = e
  OBVIOUS
<1>4. /\ a \o <<e>> \in Seq(S) /\ Len(a \o <<e>>) = i
      /\ \A j \in 1..i : (a \o <<e>>)[j] = IF j < i THEN s[j] ELSE e
  BY <1>0, <1>1, <1>3, ConcatProperties
<1> DEFINE ae == a \o <<e>>
           r == ae \o b
<1> HIDE DEF ae
<1>4a. ae \in Seq(S) /\ Len(ae) = i /\ \A j \in 1..i : ae[j] = IF j < i THEN s[j] ELSE e
  BY <1>4 DEF ae
<1>5. r \in Seq(S) /\ Len(r) = Len(s) + 1
  <2>1. r \in Seq(S) /\ Len(r) = Len(ae) + Len(b)
    BY <1>2, <1>4a, ConcatProperties
  <2> QED
    BY <1>0, <1>2, <1>4a, <2>1
<1> HIDE DEF r
<1>6. ASSUME NEW j \in DOMAIN r
      PROVE  r[j] = IF j < i THEN s[j] ELSE IF j = i THEN e ELSE s[j - 1]
  BY <1>0, <1>2, <1>4a, <1>5, ConcatProperties DEF r
<1>7. r[i] = e
  BY <1>0, <1>5, <1>6
<1> QED
  BY <1>5, <1>6, <1>7 DEF InsertAt, a, b, r, ae

\* The order of the naturals as a relation, to use that it is well-founded.
Less == { p \in Nat \X Nat : p[1] < p[2] }

\* indexWhere finds the first index that passes the test.
LEMMA IndexWhereFinds ==
  ASSUME NEW I \in SUBSET Nat, I # {}
  PROVE  IndexWhere(I) \in I /\ \A j \in I : IndexWhere(I) <= j
<1>1. IsWellFoundedOn(Less, Nat)
  <2>1. OpToRel(<, Nat) = Less
    BY DEF OpToRel, Less
  <2> QED
    BY <2>1, NatLessThanWellFounded, Zenon
<1>2. PICK x \in I : \A y \in I : ~(<<y, x>> \in Less)
  BY <1>1, WFMin
<1>3. \A y \in I : x <= y
  <2>1. SUFFICES ASSUME NEW y \in I PROVE x <= y
    OBVIOUS
  <2>2. x \in Nat /\ y \in Nat
    OBVIOUS
  <2>3. <<y, x>> \in Less <=> y < x
    BY <2>2 DEF Less
  <2> QED
    BY <1>2, <2>2, <2>3
<1> QED
  BY <1>3 DEF IndexWhere, Min

\* It finds the entry of a chat, or nothing if the list has none.
LEMMA IndexOfFinds ==
  ASSUME NEW S, NEW s \in Seq(S), NEW c
  PROVE  \/ /\ ~Holds(s, c)
            /\ \A j \in DOMAIN s : s[j].chatId # c
         \/ /\ Holds(s, c)
            /\ IndexOf(s, c) \in DOMAIN s
            /\ s[IndexOf(s, c)].chatId = c
<1> DEFINE I == { j \in DOMAIN s : s[j].chatId = c }
<1>0. DOMAIN s = 1..Len(s) /\ Len(s) \in Nat
  BY LenProperties
<1>1. CASE I = {}
  BY <1>1 DEF Holds, IndexOf, IndexWhere
<1>2. CASE I # {}
  <2>1. I \in SUBSET Nat
    BY <1>0
  <2>2. IndexOf(s, c) \in I
    BY <1>2, <2>1, IndexWhereFinds DEF IndexOf
  <2> QED
    BY <1>0, <2>2 DEF Holds
<1> QED
  BY <1>1, <1>2

-----------------------------------------------------------------------------
(* One list: every operation of ChatList keeps it sorted and free of repeats *)

Sorted(s) == s \in Seq(BriefChatInfo) /\ Ordered(s)

LEMMA EntryFields ==
  ASSUME NEW e \in BriefChatInfo
  PROVE  e.chatId \in Chats /\ e.order \in Nat
BY ChatListsAssumption DEF BriefChatInfo, Placing

LEMMA WithoutChatSorted ==
  ASSUME NEW s, Sorted(s), NEW c
  PROVE  /\ Sorted(WithoutChat(s, c))
         /\ \A j \in DOMAIN WithoutChat(s, c) : WithoutChat(s, c)[j].chatId # c
<1> USE DEF Sorted
<1> DEFINE r == WithoutChat(s, c)
           i == IndexOf(s, c)
<1>0. DOMAIN s = 1..Len(s) /\ Len(s) \in Nat
  BY LenProperties
<1>1. CASE ~Holds(s, c)
  BY <1>1, IndexOfFinds DEF WithoutChat
<1>2. CASE Holds(s, c)
  <2>1. i \in DOMAIN s /\ s[i].chatId = c
    BY <1>2, IndexOfFinds
  <2>2. r = RemoveAt(s, i)
    BY <1>2 DEF WithoutChat
  <2> HIDE DEF r, i
  <2>3. /\ r \in Seq(BriefChatInfo) /\ Len(r) = Len(s) - 1
        /\ \A j \in DOMAIN r : r[j] = IF j < i THEN s[j] ELSE s[j + 1]
    BY <2>1, <2>2, RemoveAtElements
  <2>4. DOMAIN r = 1..(Len(s) - 1)
    BY <2>3, LenProperties
  <2>5. ASSUME NEW j \in DOMAIN r, NEW k \in DOMAIN r, j < k
        PROVE  r[j].order >= r[k].order /\ r[j].chatId # r[k].chatId
    <3> DEFINE p(m) == IF m < i THEN m ELSE m + 1
    <3>1. r[j] = s[p(j)] /\ r[k] = s[p(k)]
      BY <2>3
    <3>2. p(j) \in DOMAIN s /\ p(k) \in DOMAIN s /\ p(j) < p(k)
      BY <1>0, <2>1, <2>4, <2>5
    <3> HIDE DEF p
    <3>3. s[p(j)].order >= s[p(k)].order /\ s[p(j)].chatId # s[p(k)].chatId
      BY <3>2 DEF Ordered
    <3> QED
      BY <3>1, <3>3
  <2>6. ASSUME NEW j \in DOMAIN r
        PROVE  r[j].chatId # c
    BY <1>0, <2>1, <2>3, <2>4 DEF Ordered
  <2> QED
    BY <2>3, <2>5, <2>6 DEF Ordered, r
<1> QED
  BY <1>1, <1>2

LEMMA InsertByOrderSorted ==
  ASSUME NEW s, Sorted(s), NEW e \in BriefChatInfo,
         \A j \in DOMAIN s : s[j].chatId # e.chatId
  PROVE  Sorted(InsertByOrder(s, e))
<1> USE DEF Sorted
<1> DEFINE r == InsertByOrder(s, e)
           I == { i \in DOMAIN s : s[i].order < e.order }
           n == IndexWhere(I)
<1>0. DOMAIN s = 1..Len(s) /\ Len(s) \in Nat
  BY LenProperties
<1>1. /\ e.order \in Nat
      /\ \A j \in DOMAIN s : s[j] \in BriefChatInfo /\ s[j].order \in Nat
  BY EntryFields, ElementOfSeq
<1>2. CASE I = {}
  <2>1. r = Append(s, e)
    BY <1>2 DEF InsertByOrder, IndexWhere
  <2>2. /\ r \in Seq(BriefChatInfo) /\ Len(r) = Len(s) + 1 /\ r[Len(s) + 1] = e
        /\ \A j \in 1..Len(s) : r[j] = s[j]
    BY <2>1, AppendProperties
  <2>3. DOMAIN r = 1..(Len(s) + 1)
    BY <2>2, LenProperties
  <2>4. \A j \in 1..Len(s) : s[j].order >= e.order
    BY <1>0, <1>1, <1>2
  <2> HIDE DEF r
  <2>5. ASSUME NEW j \in DOMAIN r, NEW k \in DOMAIN r, j < k
        PROVE  r[j].order >= r[k].order /\ r[j].chatId # r[k].chatId
    BY <1>0, <2>2, <2>3, <2>4, <2>5 DEF Ordered
  <2> QED
    BY <2>2, <2>5 DEF Ordered, r
<1>3. CASE I # {}
  <2>0. I \in SUBSET Nat
    BY <1>0
  <2>1. n \in I /\ \A j \in I : n <= j
    <3> HIDE DEF I
    <3> QED
      BY <1>3, <2>0, IndexWhereFinds
  <2>2. n \in 1..Len(s) /\ s[n].order < e.order
    BY <1>0, <2>1
  <2>3. \A j \in 1..Len(s) : j < n => s[j].order >= e.order
    <3>1. SUFFICES ASSUME NEW j \in 1..Len(s), j < n PROVE s[j].order >= e.order
      OBVIOUS
    <3>2. j \notin I
      <4>1. ~(n <= j)
        BY <1>0, <2>2, <3>1
      <4> HIDE DEF I, n
      <4> QED
        BY <2>1, <4>1
    <3> QED
      BY <1>0, <1>1, <3>2
  <2>4. \A j \in 1..Len(s) : n <= j => e.order >= s[j].order
    <3>1. SUFFICES ASSUME NEW j \in 1..Len(s), n < j PROVE s[n].order >= s[j].order
      BY <1>0, <1>1, <2>2
    <3> QED
      BY <1>0, <2>2, <3>1 DEF Ordered
  <2>5. r = InsertAt(s, n, e)
    BY <1>0, <2>2 DEF InsertByOrder
  <2> HIDE DEF r, n, I
  <2>6. /\ r \in Seq(BriefChatInfo) /\ Len(r) = Len(s) + 1
        /\ \A j \in DOMAIN r : r[j] = IF j < n THEN s[j] ELSE IF j = n THEN e ELSE s[j - 1]
    <3>1. n \in 1..(Len(s) + 1) /\ s \in Seq(BriefChatInfo)
      BY <1>0, <2>2
    <3> DEFINE t == InsertAt(s, n, e)
    <3>2. /\ t \in Seq(BriefChatInfo) /\ Len(t) = Len(s) + 1
          /\ \A j \in DOMAIN t : t[j] = IF j < n THEN s[j] ELSE IF j = n THEN e ELSE s[j - 1]
      BY <3>1, InsertAtElements
    <3> QED
      BY <2>5, <3>2
  <2>7. DOMAIN r = 1..(Len(s) + 1)
    BY <2>6, LenProperties
  <2>8. ASSUME NEW j \in DOMAIN r, NEW k \in DOMAIN r, j < k
        PROVE  r[j].order >= r[k].order /\ r[j].chatId # r[k].chatId
    <3>1. CASE k < n
      BY <1>0, <2>2, <2>6, <2>7, <2>8, <3>1 DEF Ordered
    <3>2. CASE k = n
      <4>1. r[j] = s[j] /\ r[k] = e /\ j \in 1..Len(s)
        BY <2>2, <2>6, <2>7, <2>8, <3>2
      <4> QED
        BY <1>0, <2>3, <2>8, <3>2, <4>1
    <3>3. CASE k > n /\ j < n
      <4>1. r[j] = s[j] /\ r[k] = s[k - 1]
        BY <2>2, <2>6, <2>7, <2>8, <3>3
      <4>2. j \in DOMAIN s /\ k - 1 \in DOMAIN s /\ j < k - 1
        BY <1>0, <2>2, <2>7, <3>3
      <4>3. s[j].order >= s[k - 1].order /\ s[j].chatId # s[k - 1].chatId
        BY <4>2 DEF Ordered
      <4> QED
        BY <4>1, <4>3
    <3>4. CASE k > n /\ j = n
      BY <1>0, <2>2, <2>4, <2>6, <2>7, <2>8, <3>4
    <3>5. CASE k > n /\ j > n
      <4>1. r[j] = s[j - 1] /\ r[k] = s[k - 1]
        BY <2>2, <2>6, <2>7, <3>5
      <4>2. j - 1 \in DOMAIN s /\ k - 1 \in DOMAIN s /\ j - 1 < k - 1
        BY <1>0, <2>2, <2>7, <2>8, <3>5
      <4>3. s[j - 1].order >= s[k - 1].order /\ s[j - 1].chatId # s[k - 1].chatId
        BY <4>2 DEF Ordered
      <4> QED
        BY <4>1, <4>3
    <3> QED
      BY <2>2, <2>7, <3>1, <3>2, <3>3, <3>4, <3>5
  <2> QED
    BY <2>6, <2>8 DEF Ordered, r
<1> QED
  BY <1>2, <1>3

LEMMA ReplacedType ==
  ASSUME NEW s \in Seq(BriefChatInfo), NEW c \in Chats, NEW o \in Placing
  PROVE  Replaced(s, c, o) \in BriefChatInfo /\ Replaced(s, c, o).chatId = c
<1> DEFINE e == Entry(s, c)
<1>1. e = None \/ e \in BriefChatInfo
  BY IndexOfFinds, ElementOfSeq DEF Entry
<1>2. e # None => /\ e.lastMessage \in Messages \cup {None}
                  /\ e.lastDraftMessage \in Drafts \cup {None}
  BY <1>1 DEF BriefChatInfo
<1> HIDE DEF e
<1>3. Replaced(s, c, o) =
        [chatId |-> c, order |-> o,
         lastMessage |-> IF e = None THEN None ELSE e.lastMessage,
         lastDraftMessage |-> IF e = None THEN None ELSE e.lastDraftMessage]
  BY DEF Replaced, e
<1> QED
  BY <1>2, <1>3 DEF BriefChatInfo

LEMMA UpdateChatPositionSorted ==
  ASSUME NEW s, Sorted(s), NEW c \in Chats, NEW o \in Orders
  PROVE  Sorted(updateChatPosition(s, c, o))
<1>1. CASE o = 0
  BY <1>1, WithoutChatSorted DEF updateChatPosition
<1>2. CASE o # 0
  <2>1. Replaced(s, c, o) \in BriefChatInfo /\ Replaced(s, c, o).chatId = c
    BY <1>2, ReplacedType DEF Sorted, Placing
  <2>2. /\ Sorted(WithoutChat(s, c))
        /\ \A j \in DOMAIN WithoutChat(s, c) : WithoutChat(s, c)[j].chatId # c
    BY WithoutChatSorted
  <2>3. Sorted(InsertByOrder(WithoutChat(s, c), Replaced(s, c, o)))
    BY <2>1, <2>2, InsertByOrderSorted
  <2> QED
    BY <1>2, <2>3 DEF updateChatPosition
<1> QED
  BY <1>1, <1>2

\* New contents leave places and chats as they are.
LEMMA UpdateContentSorted ==
  ASSUME NEW s, Sorted(s), NEW c
  PROVE  /\ \A m \in Messages \cup {None} : Sorted(updateLastMessage(s, c, m))
         /\ \A d \in Drafts \cup {None} : Sorted(updateDraftMessage(s, c, d))
<1> USE DEF Sorted
<1> DEFINE i == IndexOf(s, c)
<1>1. CASE ~Holds(s, c)
  BY <1>1 DEF updateLastMessage, updateDraftMessage
<1>2. CASE Holds(s, c)
  <2>1. i \in DOMAIN s /\ i \in 1..Len(s) /\ s[i] \in BriefChatInfo
    BY <1>2, IndexOfFinds, ElementOfSeq, LenProperties
  <2> HIDE DEF i
  <2>2. ASSUME NEW e \in BriefChatInfo, e.order = s[i].order, e.chatId = s[i].chatId
        PROVE  Sorted([s EXCEPT ![i] = e])
    <3>1. [s EXCEPT ![i] = e] \in Seq(BriefChatInfo)
      BY <2>1, <2>2, ExceptSeq
    <3>2. \A j \in DOMAIN s : /\ [s EXCEPT ![i] = e][j].order = s[j].order
                              /\ [s EXCEPT ![i] = e][j].chatId = s[j].chatId
      BY <2>1, <2>2
    <3> QED
      BY <3>1, <3>2 DEF Ordered
  <2>3. ASSUME NEW m \in Messages \cup {None}
        PROVE  Sorted(updateLastMessage(s, c, m))
    <3>1. [s[i] EXCEPT !.lastMessage = m] \in BriefChatInfo
      BY <2>1, <2>3 DEF BriefChatInfo
    <3>2. updateLastMessage(s, c, m) = [s EXCEPT ![i] = [s[i] EXCEPT !.lastMessage = m]]
      BY <1>2 DEF updateLastMessage, i
    <3> QED
      BY <2>1, <2>2, <3>1, <3>2 DEF BriefChatInfo
  <2>4. ASSUME NEW d \in Drafts \cup {None}
        PROVE  Sorted(updateDraftMessage(s, c, d))
    <3>1. [s[i] EXCEPT !.lastDraftMessage = d] \in BriefChatInfo
      BY <2>1, <2>4 DEF BriefChatInfo
    <3>2. updateDraftMessage(s, c, d) = [s EXCEPT ![i] = [s[i] EXCEPT !.lastDraftMessage = d]]
      BY <1>2 DEF updateDraftMessage, i
    <3> QED
      BY <2>1, <2>2, <3>1, <3>2 DEF BriefChatInfo
  <2> QED
    BY <2>3, <2>4
<1> QED
  BY <1>1, <1>2

-----------------------------------------------------------------------------
(* The pages *)

LEMMA FolderListsAreSequences ==
  ASSUME NEW fs \in FolderLists
  PROVE  fs \in Seq(Folders) /\ Len(fs) \in Nat
<1>1. Cardinality(Folders) \in Nat
  BY ChatListsAssumption, FS_CardinalityType
<1>2. PICK n \in 0..Cardinality(Folders) : fs \in [1..n -> Folders]
  BY DEF FolderLists, BoundedSeq, SeqOf
<1> QED
  BY <1>1, <1>2, IsASeq, LenProperties

\* The pages are the main list and every folder list, wherever the main one is shown.
LEMMA PagesAreMainAndFolders ==
  ASSUME NEW fs \in Seq(Folders), NEW position \in 0..Len(fs)
  PROVE  ToSet(InsertAt(fs, position + 1, Main)) = {Main} \cup ToSet(fs)
<1> DEFINE r == InsertAt(fs, position + 1, Main)
           p == position + 1
<1>0. Len(fs) \in Nat /\ DOMAIN fs = 1..Len(fs)
  BY LenProperties
<1>1. fs \in Seq(Lists) /\ Main \in Lists
  BY SeqMonotonic DEF Lists
<1>2. p \in 1..(Len(fs) + 1)
  BY <1>0
<1>3. /\ r \in Seq(Lists) /\ Len(r) = Len(fs) + 1
      /\ \A j \in DOMAIN r : r[j] = IF j < p THEN fs[j] ELSE IF j = p THEN Main ELSE fs[j - 1]
  BY <1>1, <1>2, InsertAtElements
<1>4. DOMAIN r = 1..(Len(fs) + 1)
  BY <1>3, LenProperties
<1> HIDE DEF r, p
<1>5. ASSUME NEW j \in DOMAIN r
      PROVE  r[j] \in {Main} \cup { fs[k] : k \in DOMAIN fs }
  <2>1. CASE j < p
    BY <1>0, <1>2, <1>3, <1>4, <2>1
  <2>2. CASE j = p
    BY <1>3, <2>2
  <2>3. CASE j > p
    <3>1. r[j] = fs[j - 1] /\ j - 1 \in DOMAIN fs
      BY <1>0, <1>2, <1>3, <1>4, <2>3
    <3> QED
      BY <3>1
  <2> QED
    BY <1>2, <1>4, <2>1, <2>2, <2>3
<1>6. Main \in { r[j] : j \in DOMAIN r }
  <2>1. p \in DOMAIN r /\ r[p] = Main
    BY <1>2, <1>3, <1>4
  <2> QED
    BY <2>1
<1>7. ASSUME NEW k \in DOMAIN fs
      PROVE  fs[k] \in { r[j] : j \in DOMAIN r }
  <2>1. CASE k < p
    <3>1. k \in DOMAIN r /\ r[k] = fs[k]
      BY <1>0, <1>2, <1>3, <1>4, <2>1
    <3> QED
      BY <3>1
  <2>2. CASE ~(k < p)
    <3>1. k + 1 \in DOMAIN r /\ r[k + 1] = fs[k]
      BY <1>0, <1>2, <1>3, <1>4, <2>2
    <3> QED
      BY <3>1
  <2> QED
    BY <2>1, <2>2
<1> QED
  BY <1>5, <1>6, <1>7 DEF ToSet, r, p

-----------------------------------------------------------------------------
(* The invariant *)

\* TypeOK and OrderedByPosition, with what they say of a list said once.
IInv ==
  /\ folders \in FolderLists
  /\ mainChatPosition \in 0..Len(folders)
  /\ Open = {Main} \cup ToSet(folders)
  /\ \A l \in Open : Sorted(chats[l])
  /\ unseen \in [Open -> SUBSET Chats]
  /\ latest \in [Chats -> [message : Messages \cup {None}, draft : Drafts \cup {None}]]

LEMMA IInvImplies == IInv => TypeOK /\ OrderedByPosition
<1> SUFFICES ASSUME IInv PROVE TypeOK /\ OrderedByPosition
  OBVIOUS
<1>1. ToSet(chatLists) = Open
  BY FolderListsAreSequences, PagesAreMainAndFolders DEF IInv, chatLists
<1> QED
  BY <1>1 DEF IInv, TypeOK, OrderedByPosition, Sorted

LEMMA InitIInv == Init => IInv
<1> SUFFICES ASSUME Init PROVE IInv
  OBVIOUS
<1>1. <<>> \in FolderLists /\ Len(<<>>) = 0 /\ ToSet(<<>>) = {}
  <2>1. 0 \in 0..Cardinality(Folders)
    BY ChatListsAssumption, FS_CardinalityType
  <2>2. <<>> \in [1..0 -> Folders]
    OBVIOUS
  <2>3. <<>> \in BoundedSeq(Folders, Cardinality(Folders))
    BY <2>1, <2>2 DEF BoundedSeq, SeqOf
  <2> QED
    BY <2>3 DEF FolderLists, IsInjective, ToSet
<1>2. Sorted(<<>>)
  BY DEF Sorted, Ordered
<1> QED
  BY <1>1, <1>2 DEF Init, IInv, Open

\* Whatever a step moves or notifies, unseen keeps its type.
LEMMA NotifyType ==
  ASSUME NEW ls, unseen \in [Open -> SUBSET Chats], Notify(ls)
  PROVE  unseen' \in [Open' -> SUBSET Chats]
BY DEF Notify

\* A move leaves every open list sorted, and so do contents that follow it.
LEMMA MovedSorted ==
  ASSUME NEW l, Sorted(chats[l]), NEW c \in Chats, NEW positions,
         l \in DOMAIN positions => positions[l] \in Orders
  PROVE  Sorted(Moved(l, c, positions))
BY UpdateChatPositionSorted DEF Moved

LEMMA NextIInv == IInv /\ [Next]_vars => IInv'
<1> SUFFICES ASSUME IInv, [Next]_vars PROVE IInv'
  OBVIOUS
<1> USE DEF Open
<1>1. ASSUME NEW l \in Lists, NEW c \in Chats, NEW o \in Orders, UpdateChatPosition(l, c, o)
      PROVE  IInv'
  <2>1. \A k \in Open : Sorted(Moved(k, c, [j \in {l} |-> o]))
    BY MovedSorted DEF IInv
  <2>2. Open' = Open /\ \A k \in Open' : Sorted(chats'[k])
    BY <1>1, <2>1 DEF UpdateChatPosition
  <2> QED
    BY <1>1, <2>2, NotifyType DEF UpdateChatPosition, IInv
<1>2. ASSUME NEW c \in Chats, NEW positions \in Positions, NEW m \in Messages \cup {None},
             UpdateChatLastMessage(c, positions, m)
      PROVE  IInv'
  <2>1. \A l \in DOMAIN positions : positions[l] \in Orders
    BY DEF Positions, Placing
  <2>2. \A l \in Open : Sorted(updateLastMessage(Moved(l, c, positions), c, m))
    BY <2>1, MovedSorted, UpdateContentSorted DEF IInv
  <2>3. Open' = Open /\ \A k \in Open' : Sorted(chats'[k])
    BY <1>2, <2>2 DEF UpdateChatLastMessage, IInv
  <2>4. latest' \in [Chats -> [message : Messages \cup {None}, draft : Drafts \cup {None}]]
    BY <1>2 DEF UpdateChatLastMessage, IInv
  <2> QED
    BY <1>2, <2>3, <2>4, NotifyType DEF UpdateChatLastMessage, IInv
<1>3. ASSUME NEW c \in Chats, NEW positions \in Positions, NEW d \in Drafts \cup {None},
             UpdateChatDraftMessage(c, positions, d)
      PROVE  IInv'
  <2>1. \A l \in DOMAIN positions : positions[l] \in Orders
    BY DEF Positions, Placing
  <2>2. \A l \in Open : Sorted(updateDraftMessage(Moved(l, c, positions), c, d))
    BY <2>1, MovedSorted, UpdateContentSorted DEF IInv
  <2>3. Open' = Open /\ \A k \in Open' : Sorted(chats'[k])
    BY <1>3, <2>2 DEF UpdateChatDraftMessage, IInv
  <2>4. latest' \in [Chats -> [message : Messages \cup {None}, draft : Drafts \cup {None}]]
    BY <1>3 DEF UpdateChatDraftMessage, IInv
  <2> QED
    BY <1>3, <2>3, <2>4, NotifyType DEF UpdateChatDraftMessage, IInv
<1>4. ASSUME NEW fs \in FolderLists, NEW position \in 0..Len(fs),
             UpdateChatFolders(fs, position)
      PROVE  IInv'
  <2>1. Sorted(<<>>)
    BY DEF Sorted, Ordered
  <2>2. Open' = {Main} \cup ToSet(fs) /\ \A k \in Open' : Sorted(chats'[k])
    BY <1>4, <2>1 DEF UpdateChatFolders, IInv
  <2> QED
    BY <1>4, <2>2, NotifyType DEF UpdateChatFolders, IInv
<1>5. CASE UNCHANGED vars
  BY <1>5 DEF vars, IInv, Sorted
<1> QED
  BY <1>1, <1>2, <1>3, <1>4, <1>5 DEF Next

\* The variables of ChatLists keep their types in every behaviour, for any chats,
\* folders, orders and contents.
THEOREM TypeCorrect == Spec => []TypeOK
<1>1. Spec => []IInv
  BY InitIInv, NextIInv, PTL DEF Spec
<1> QED
  BY <1>1, IInvImplies, PTL

\* Every page is sorted by falling order and lists no chat twice, after any sequence
\* of TDLib's updates (ChatList._updateChatPosition).
THEOREM PagesAreSorted == Spec => []OrderedByPosition
<1>1. Spec => []IInv
  BY InitIInv, NextIInv, PTL DEF Spec
<1> QED
  BY <1>1, IInvImplies, PTL

-----------------------------------------------------------------------------
(* A sorted list is the set of its entries: one a chat *)

LEMMA EntryOfElement ==
  ASSUME NEW s, Sorted(s), NEW i \in DOMAIN s
  PROVE  /\ Entry(s, s[i].chatId) = s[i]
         /\ Holds(s, s[i].chatId)
         /\ s[i] # None
<1> USE DEF Sorted
<1> DEFINE c == s[i].chatId
           k == IndexOf(s, c)
<1>0. DOMAIN s = 1..Len(s) /\ Len(s) \in Nat
  BY LenProperties
<1>1. Holds(s, c) /\ k \in DOMAIN s /\ s[k].chatId = c
  <2> HIDE DEF k
  <2> QED
    BY IndexOfFinds DEF k
<1> HIDE DEF k
<1>2. k = i
  <2>1. ~(k < i)
    BY <1>1 DEF Ordered
  <2>2. ~(i < k)
    BY <1>1 DEF Ordered
  <2> QED
    BY <1>0, <1>1, <2>1, <2>2
<1>3. s[i] \in BriefChatInfo
  BY ElementOfSeq
<1> QED
  BY <1>1, <1>2, <1>3, NullAssumption DEF Entry, k

\* Entry is an entry of the chat, or None if there is none.
LEMMA EntryCases ==
  ASSUME NEW s, Sorted(s), NEW c
  PROVE  \/ /\ Holds(s, c)
            /\ Entry(s, c) # None
            /\ \E i \in DOMAIN s : s[i] = Entry(s, c) /\ s[i].chatId = c
            /\ Entry(s, c) \in BriefChatInfo /\ Entry(s, c).chatId = c
         \/ /\ ~Holds(s, c)
            /\ Entry(s, c) = None
            /\ \A i \in DOMAIN s : s[i].chatId # c
<1>1. CASE Holds(s, c)
  <2>1. PICK i \in DOMAIN s : s[i].chatId = c
    BY <1>1, IndexOfFinds DEF Sorted
  <2>2. Entry(s, c) = s[i] /\ s[i] # None
    BY <2>1, EntryOfElement
  <2>3. s[i] \in BriefChatInfo
    BY ElementOfSeq DEF Sorted
  <2> QED
    BY <1>1, <2>1, <2>2, <2>3
<1>2. CASE ~Holds(s, c)
  BY <1>2, IndexOfFinds DEF Sorted, Entry
<1> QED
  BY <1>1, <1>2

\* Two lists with the same entries of a chat hold the same Entry.
LEMMA SameElementsSameEntry ==
  ASSUME NEW s, Sorted(s), NEW r, Sorted(r), NEW d,
         \A i \in DOMAIN s : s[i].chatId = d => \E j \in DOMAIN r : r[j] = s[i],
         \A j \in DOMAIN r : r[j].chatId = d => \E i \in DOMAIN s : s[i] = r[j]
  PROVE  Entry(r, d) = Entry(s, d)
<1>1. CASE Holds(s, d)
  <2>1. PICK i \in DOMAIN s : s[i] = Entry(s, d) /\ s[i].chatId = d
    BY <1>1, EntryCases
  <2>2. PICK j \in DOMAIN r : r[j] = s[i]
    BY <2>1
  <2>3. Entry(r, r[j].chatId) = r[j]
    BY EntryOfElement
  <2> QED
    BY <2>1, <2>2, <2>3
<1>2. CASE ~Holds(s, d)
  <2>1. Entry(s, d) = None /\ \A i \in DOMAIN s : s[i].chatId # d
    BY <1>2, EntryCases
  <2>2. \A j \in DOMAIN r : r[j].chatId # d
    BY <2>1
  <2> QED
    BY <2>1, <2>2, EntryCases
<1> QED
  BY <1>1, <1>2

-----------------------------------------------------------------------------
(* The operations of a list touch one chat: its entry, and nobody's place *)

\* Places of r are those of s without place i.
Without(s, i, r) ==
  /\ \A j \in DOMAIN r : r[j] = IF j < i THEN s[j] ELSE s[j + 1]
  /\ \A j \in DOMAIN r : (IF j < i THEN j ELSE j + 1) \in DOMAIN s \ {i}
  /\ \A j \in DOMAIN s \ {i} : (IF j < i THEN j ELSE j - 1) \in DOMAIN r
  /\ DOMAIN s \subseteq Nat /\ DOMAIN r \subseteq Nat /\ i \in Nat

LEMMA RemoveAtIsWithout ==
  ASSUME NEW S, NEW s \in Seq(S), NEW i \in DOMAIN s
  PROVE  Without(s, i, RemoveAt(s, i))
<1> DEFINE r == RemoveAt(s, i)
<1>0. DOMAIN s = 1..Len(s) /\ Len(s) \in Nat
  BY LenProperties
<1>1. /\ r \in Seq(S) /\ Len(r) = Len(s) - 1
      /\ \A j \in DOMAIN r : r[j] = IF j < i THEN s[j] ELSE s[j + 1]
  BY RemoveAtElements
<1> HIDE DEF r
<1>2. DOMAIN r = 1..(Len(s) - 1)
  BY <1>1, LenProperties
<1> QED
  BY <1>0, <1>1, <1>2 DEF Without, r

LEMMA InsertAtIsWith ==
  ASSUME NEW S, NEW s \in Seq(S), NEW e \in S, NEW i \in 1..(Len(s) + 1)
  PROVE  Without(InsertAt(s, i, e), i, s) /\ InsertAt(s, i, e)[i] = e
                                          /\ i \in DOMAIN InsertAt(s, i, e)
<1> DEFINE r == InsertAt(s, i, e)
<1>0. DOMAIN s = 1..Len(s) /\ Len(s) \in Nat
  BY LenProperties
<1>1. /\ r \in Seq(S) /\ Len(r) = Len(s) + 1 /\ r[i] = e
      /\ \A j \in DOMAIN r : r[j] = IF j < i THEN s[j] ELSE IF j = i THEN e ELSE s[j - 1]
  BY InsertAtElements
<1> HIDE DEF r
<1>2. DOMAIN r = 1..(Len(s) + 1)
  BY <1>1, LenProperties
<1>3. ASSUME NEW j \in DOMAIN s
      PROVE  s[j] = IF j < i THEN r[j] ELSE r[j + 1]
  <2>1. CASE j < i
    BY <1>0, <1>1, <1>2, <2>1
  <2>2. CASE ~(j < i)
    <3>1. j + 1 \in DOMAIN r /\ ~(j + 1 < i) /\ j + 1 # i
      BY <1>0, <1>2, <2>2
    <3>2. r[j + 1] = s[(j + 1) - 1]
      BY <1>1, <3>1
    <3> QED
      BY <1>0, <2>2, <3>2
  <2> QED
    BY <2>1, <2>2
<1> QED
  BY <1>0, <1>1, <1>2, <1>3 DEF Without, r

LEMMA AppendIsWith ==
  ASSUME NEW S, NEW s \in Seq(S), NEW e \in S
  PROVE  LET i == Len(s) + 1
         IN Without(Append(s, e), i, s) /\ Append(s, e)[i] = e /\ i \in DOMAIN Append(s, e)
<1>0. DOMAIN s = 1..Len(s) /\ Len(s) \in Nat
  BY LenProperties
<1>1. /\ Append(s, e) \in Seq(S) /\ Len(Append(s, e)) = Len(s) + 1
      /\ Append(s, e)[Len(s) + 1] = e
      /\ \A j \in 1..Len(s) : Append(s, e)[j] = s[j]
  BY AppendProperties
<1>2. DOMAIN Append(s, e) = 1..(Len(s) + 1)
  BY <1>1, LenProperties
<1> QED
  BY <1>0, <1>1, <1>2 DEF Without

\* The places other than i hold the same entries, in the same order.
LEMMA WithoutKeepsOthers ==
  ASSUME NEW s, NEW i, NEW r, Without(s, i, r)
  PROVE  /\ \A j \in DOMAIN r : \E k \in DOMAIN s \ {i} : s[k] = r[j]
         /\ \A k \in DOMAIN s \ {i} : \E j \in DOMAIN r : r[j] = s[k]
         /\ \A d, e : d # s[i].chatId /\ e # s[i].chatId =>
              (Precedes(r, d, e) <=> Precedes(s, d, e))
<1> DEFINE p(j) == IF j < i THEN j ELSE j + 1
           q(j) == IF j < i THEN j ELSE j - 1
<1>1. \A j \in DOMAIN r : p(j) \in DOMAIN s \ {i} /\ s[p(j)] = r[j]
  BY DEF Without
<1>2. \A j \in DOMAIN s \ {i} : q(j) \in DOMAIN r /\ r[q(j)] = s[j]
  <2>1. SUFFICES ASSUME NEW j \in DOMAIN s \ {i}
                 PROVE  q(j) \in DOMAIN r /\ r[q(j)] = s[j]
    OBVIOUS
  <2>2. q(j) \in DOMAIN r
    BY DEF Without
  <2>3. p(q(j)) = j
    BY <2>1 DEF Without
  <2> QED
    BY <1>1, <2>2, <2>3
<1>3. \A j, k \in DOMAIN r : j <= k => p(j) <= p(k)
  BY DEF Without
<1>4. \A j, k \in DOMAIN s \ {i} : j <= k => q(j) <= q(k)
  BY DEF Without
<1> HIDE DEF p, q
<1>5. ASSUME NEW d, NEW e, d # s[i].chatId, e # s[i].chatId
      PROVE  Precedes(r, d, e) <=> Precedes(s, d, e)
  <2>1. ASSUME Precedes(r, d, e) PROVE Precedes(s, d, e)
    BY <1>1, <1>3, <2>1 DEF Precedes
  <2>2. ASSUME Precedes(s, d, e) PROVE Precedes(r, d, e)
    <3>1. PICK j, k \in DOMAIN s : j <= k /\ s[j].chatId = d /\ s[k].chatId = e
      BY <2>2 DEF Precedes
    <3>2. j # i /\ k # i
      BY <1>5, <3>1
    <3> QED
      BY <1>2, <1>4, <3>1, <3>2 DEF Precedes
  <2> QED
    BY <2>1, <2>2
<1> QED
  BY <1>1, <1>2, <1>5

\* What an operation on list s for chat c, whose result is r, leaves alone.
OnlyTouches(c, s, r) ==
  /\ \A d : d # c => Entry(r, d) = Entry(s, d)
  /\ \A d, e : d # c /\ e # c => (Precedes(r, d, e) <=> Precedes(s, d, e))

LEMMA WithoutTouches ==
  ASSUME NEW s, Sorted(s), NEW r, Sorted(r), NEW i \in DOMAIN s, Without(s, i, r)
  PROVE  OnlyTouches(s[i].chatId, s, r)
<1>1. ASSUME NEW d, d # s[i].chatId PROVE Entry(r, d) = Entry(s, d)
  <2>1. \A k \in DOMAIN s : s[k].chatId = d => \E j \in DOMAIN r : r[j] = s[k]
    BY <1>1, WithoutKeepsOthers
  <2>2. \A j \in DOMAIN r : r[j].chatId = d => \E k \in DOMAIN s : s[k] = r[j]
    BY WithoutKeepsOthers
  <2> QED
    BY <2>1, <2>2, SameElementsSameEntry
<1>2. \A d, e : d # s[i].chatId /\ e # s[i].chatId =>
        (Precedes(r, d, e) <=> Precedes(s, d, e))
  BY WithoutKeepsOthers
<1> QED
  BY <1>1, <1>2 DEF OnlyTouches

LEMMA WithoutChatEntries ==
  ASSUME NEW s, Sorted(s), NEW c
  PROVE  /\ OnlyTouches(c, s, WithoutChat(s, c))
         /\ ~Holds(WithoutChat(s, c), c)
         /\ Entry(WithoutChat(s, c), c) = None
<1> DEFINE r == WithoutChat(s, c)
<1>1. Sorted(r) /\ \A j \in DOMAIN r : r[j].chatId # c
  BY WithoutChatSorted
<1>2. ~Holds(r, c) /\ Entry(r, c) = None
  BY <1>1, EntryCases
<1>3. CASE ~Holds(s, c)
  BY <1>2, <1>3 DEF WithoutChat, OnlyTouches
<1>4. CASE Holds(s, c)
  <2>1. IndexOf(s, c) \in DOMAIN s /\ s[IndexOf(s, c)].chatId = c
    BY <1>4, IndexOfFinds DEF Sorted
  <2>2. Without(s, IndexOf(s, c), r)
    BY <1>4, <2>1, RemoveAtIsWithout DEF WithoutChat, Sorted
  <2> HIDE DEF r
  <2> QED
    BY <1>1, <1>2, <2>1, <2>2, WithoutTouches DEF r
<1> QED
  BY <1>3, <1>4

LEMMA InsertByOrderEntries ==
  ASSUME NEW s, Sorted(s), NEW e \in BriefChatInfo,
         \A j \in DOMAIN s : s[j].chatId # e.chatId
  PROVE  /\ OnlyTouches(e.chatId, s, InsertByOrder(s, e))
         /\ Entry(InsertByOrder(s, e), e.chatId) = e
<1> DEFINE r == InsertByOrder(s, e)
           I == { i \in DOMAIN s : s[i].order < e.order }
<1>0. DOMAIN s = 1..Len(s) /\ Len(s) \in Nat
  BY LenProperties DEF Sorted
<1>1. Sorted(r)
  BY InsertByOrderSorted
<1>2. PICK i : i \in DOMAIN r /\ r[i] = e /\ Without(r, i, s)
  <2>1. CASE I = {}
    <3>1. r = Append(s, e)
      BY <2>1 DEF InsertByOrder, IndexWhere
    <3> HIDE DEF r
    <3> QED
      BY <3>1, AppendIsWith DEF Sorted
  <2>2. CASE I # {}
    <3>0. I \in SUBSET Nat
      BY <1>0
    <3>1. IndexWhere(I) \in I
      <4> HIDE DEF I
      <4> QED
        BY <2>2, <3>0, IndexWhereFinds
    <3>2. IndexWhere(I) \in 1..(Len(s) + 1) /\ IndexWhere(I) # 0
      BY <1>0, <3>1
    <3>3. r = InsertAt(s, IndexWhere(I), e)
      BY <3>2 DEF InsertByOrder
    <3> HIDE DEF r, I
    <3> QED
      BY <3>2, <3>3, InsertAtIsWith DEF Sorted
  <2> QED
    BY <2>1, <2>2
<1> HIDE DEF r
<1>3. OnlyTouches(e.chatId, r, s)
  BY <1>1, <1>2, WithoutTouches
<1>4. Entry(r, e.chatId) = e
  BY <1>1, <1>2, EntryOfElement
<1> QED
  BY <1>3, <1>4 DEF OnlyTouches, r

LEMMA OnlyTouchesTwice ==
  ASSUME NEW c, NEW s, NEW r, NEW t, OnlyTouches(c, s, r), OnlyTouches(c, r, t)
  PROVE  OnlyTouches(c, s, t)
BY DEF OnlyTouches

LEMMA UpdateChatPositionEntries ==
  ASSUME NEW s, Sorted(s), NEW c \in Chats, NEW o \in Orders
  PROVE  /\ OnlyTouches(c, s, updateChatPosition(s, c, o))
         /\ Entry(updateChatPosition(s, c, o), c) = IF o = 0 THEN None ELSE Replaced(s, c, o)
<1> DEFINE w == WithoutChat(s, c)
<1>1. OnlyTouches(c, s, w) /\ Entry(w, c) = None
  BY WithoutChatEntries
<1>2. CASE o = 0
  BY <1>1, <1>2 DEF updateChatPosition
<1>3. CASE o # 0
  <2>1. Replaced(s, c, o) \in BriefChatInfo /\ Replaced(s, c, o).chatId = c
    BY <1>3, ReplacedType DEF Sorted, Placing
  <2>2. Sorted(w) /\ \A j \in DOMAIN w : w[j].chatId # c
    BY WithoutChatSorted
  <2>3. /\ OnlyTouches(c, w, InsertByOrder(w, Replaced(s, c, o)))
        /\ Entry(InsertByOrder(w, Replaced(s, c, o)), c) = Replaced(s, c, o)
    <3> HIDE DEF w
    <3> QED
      BY <2>1, <2>2, InsertByOrderEntries
  <2> QED
    BY <1>1, <1>3, <2>3, OnlyTouchesTwice DEF updateChatPosition
<1> QED
  BY <1>2, <1>3

\* An entry exchanged for another one of the same chat and order, in its place.
LEMMA ExchangedTouches ==
  ASSUME NEW s, Sorted(s), NEW i \in DOMAIN s,
         NEW e \in BriefChatInfo, e.chatId = s[i].chatId, e.order = s[i].order
  PROVE  /\ OnlyTouches(s[i].chatId, s, [s EXCEPT ![i] = e])
         /\ Entry([s EXCEPT ![i] = e], s[i].chatId) = e
<1> DEFINE r == [s EXCEPT ![i] = e]
<1>1. r \in Seq(BriefChatInfo) /\ DOMAIN r = DOMAIN s /\ DOMAIN s = 1..Len(s)
  BY ExceptSeq, LenProperties DEF Sorted
<1>2. \A j \in DOMAIN s : /\ r[j].order = s[j].order /\ r[j].chatId = s[j].chatId
                          /\ j # i => r[j] = s[j]
  BY <1>1
<1>3. r[i] = e
  BY <1>1
<1> HIDE DEF r
<1>4. Sorted(r)
  BY <1>1, <1>2 DEF Sorted, Ordered
<1>5. ASSUME NEW d, d # s[i].chatId PROVE Entry(r, d) = Entry(s, d)
  <2>1. \A j \in DOMAIN s : s[j].chatId = d => r[j] = s[j]
    BY <1>2, <1>5
  <2> QED
    BY <1>1, <1>2, <1>4, <2>1, SameElementsSameEntry
<1>6. \A d, f : Precedes(r, d, f) <=> Precedes(s, d, f)
  BY <1>1, <1>2 DEF Precedes
<1>7. Entry(r, e.chatId) = e
  BY <1>1, <1>3, <1>4, EntryOfElement
<1> QED
  BY <1>5, <1>6, <1>7 DEF OnlyTouches, r

LEMMA UpdateContentEntries ==
  ASSUME NEW s, Sorted(s), NEW c
  PROVE  /\ \A m \in Messages \cup {None} :
              /\ OnlyTouches(c, s, updateLastMessage(s, c, m))
              /\ Entry(updateLastMessage(s, c, m), c) =
                   IF Entry(s, c) = None THEN None ELSE [Entry(s, c) EXCEPT !.lastMessage = m]
         /\ \A d \in Drafts \cup {None} :
              /\ OnlyTouches(c, s, updateDraftMessage(s, c, d))
              /\ Entry(updateDraftMessage(s, c, d), c) =
                   IF Entry(s, c) = None THEN None ELSE [Entry(s, c) EXCEPT !.lastDraftMessage = d]
<1> DEFINE i == IndexOf(s, c)
<1>1. CASE ~Holds(s, c)
  BY <1>1, EntryCases DEF updateLastMessage, updateDraftMessage, OnlyTouches
<1>2. CASE Holds(s, c)
  <2>1. /\ i \in DOMAIN s /\ s[i].chatId = c
        /\ Entry(s, c) = s[i] /\ s[i] # None /\ s[i] \in BriefChatInfo
    <3>1. IndexOf(s, c) \in DOMAIN s /\ s[IndexOf(s, c)].chatId = c
      BY <1>2, IndexOfFinds DEF Sorted
    <3> QED
      BY <3>1, EntryOfElement, ElementOfSeq DEF Sorted
  <2>2. /\ \A m : updateLastMessage(s, c, m) = [s EXCEPT ![i] = [s[i] EXCEPT !.lastMessage = m]]
        /\ \A d : updateDraftMessage(s, c, d) =
                    [s EXCEPT ![i] = [s[i] EXCEPT !.lastDraftMessage = d]]
    BY <1>2 DEF updateLastMessage, updateDraftMessage
  <2> HIDE DEF i
  <2>3. ASSUME NEW m \in Messages \cup {None}
        PROVE  /\ OnlyTouches(c, s, updateLastMessage(s, c, m))
               /\ Entry(updateLastMessage(s, c, m), c) = [s[i] EXCEPT !.lastMessage = m]
    <3> DEFINE e == [s[i] EXCEPT !.lastMessage = m]
    <3>1. e \in BriefChatInfo /\ e.chatId = s[i].chatId /\ e.order = s[i].order
      BY <2>1, <2>3 DEF BriefChatInfo
    <3> HIDE DEF e
    <3>2. OnlyTouches(s[i].chatId, s, [s EXCEPT ![i] = e]) /\ Entry([s EXCEPT ![i] = e], s[i].chatId) = e
      BY <2>1, <3>1, ExchangedTouches
    <3> QED
      BY <2>1, <2>2, <3>2 DEF e
  <2>4. ASSUME NEW d \in Drafts \cup {None}
        PROVE  /\ OnlyTouches(c, s, updateDraftMessage(s, c, d))
               /\ Entry(updateDraftMessage(s, c, d), c) = [s[i] EXCEPT !.lastDraftMessage = d]
    <3> DEFINE e == [s[i] EXCEPT !.lastDraftMessage = d]
    <3>1. e \in BriefChatInfo /\ e.chatId = s[i].chatId /\ e.order = s[i].order
      BY <2>1, <2>4 DEF BriefChatInfo
    <3> HIDE DEF e
    <3>2. OnlyTouches(s[i].chatId, s, [s EXCEPT ![i] = e]) /\ Entry([s EXCEPT ![i] = e], s[i].chatId) = e
      BY <2>1, <3>1, ExchangedTouches
    <3> QED
      BY <2>1, <2>2, <3>2 DEF e
  <2> QED
    BY <2>1, <2>3, <2>4
<1> QED
  BY <1>1, <1>2

-----------------------------------------------------------------------------
(* What a list shows *)

\* The view of a chat that an entry gives; ViewOf is Shown of every Entry.
Shown(e) ==
  IF e = None THEN None
  ELSE [order |-> e.order, lastMessage |-> e.lastMessage, lastDraftMessage |-> e.lastDraftMessage]

LEMMA ViewIsShown ==
  ASSUME NEW s, NEW c \in Chats
  PROVE  ViewOf(s)[c] = Shown(Entry(s, c))
BY DEF ViewOf, Shown

LEMMA ShownIsView ==
  ASSUME NEW e \in BriefChatInfo
  PROVE  /\ e # None /\ Shown(e) # None
         /\ Shown(e) = [order |-> e.order, lastMessage |-> e.lastMessage,
                        lastDraftMessage |-> e.lastDraftMessage]
<1>1. e # None
  BY NullAssumption
<1>2. Shown(e) \in Abstract!View
  BY <1>1 DEF Shown, BriefChatInfo, Abstract!View, Placing, Abstract!Placing
<1> QED
  BY <1>1, <1>2, NullAssumption DEF Shown

\* A chat is placed as ChatPositions says.
LEMMA PlacedView ==
  ASSUME NEW s, Sorted(s), NEW c \in Chats, NEW o \in Orders
  PROVE  ViewOf(updateChatPosition(s, c, o))[c] = Abstract!Placed(ViewOf(s)[c], o)
<1> DEFINE e == Entry(s, c)
<1>1. Entry(updateChatPosition(s, c, o), c) = IF o = 0 THEN None ELSE Replaced(s, c, o)
  BY UpdateChatPositionEntries
<1>2. CASE o = 0
  BY <1>1, <1>2, ViewIsShown DEF Shown, Abstract!Placed
<1>3. CASE o # 0
  <2>1. Replaced(s, c, o) \in BriefChatInfo
    BY <1>3, ReplacedType DEF Sorted, Placing
  <2>2. Replaced(s, c, o) =
          [chatId |-> c, order |-> o,
           lastMessage |-> IF e = None THEN None ELSE e.lastMessage,
           lastDraftMessage |-> IF e = None THEN None ELSE e.lastDraftMessage]
    BY DEF Replaced
  <2>3. ViewOf(updateChatPosition(s, c, o))[c] = Shown(Replaced(s, c, o))
    BY <1>1, <1>3, ViewIsShown
  <2>4. ViewOf(s)[c] = Shown(e)
    BY ViewIsShown
  <2>5. e = None \/ e \in BriefChatInfo
    BY EntryCases
  <2> HIDE DEF e
  <2>6. Shown(Replaced(s, c, o)) =
          [order |-> o,
           lastMessage |-> IF e = None THEN None ELSE e.lastMessage,
           lastDraftMessage |-> IF e = None THEN None ELSE e.lastDraftMessage]
    BY <2>1, <2>2, ShownIsView
  <2>7. CASE e = None
    BY <1>3, <2>3, <2>4, <2>6, <2>7 DEF Abstract!Placed, Shown
  <2>8. CASE e \in BriefChatInfo
    BY <1>3, <2>3, <2>4, <2>6, <2>8, ShownIsView DEF Abstract!Placed
  <2> QED
    BY <2>5, <2>7, <2>8
<1> QED
  BY <1>2, <1>3

LEMMA ContentView ==
  ASSUME NEW s, Sorted(s), NEW c \in Chats
  PROVE  /\ \A m \in Messages \cup {None} :
              ViewOf(updateLastMessage(s, c, m))[c] = Abstract!WithMessage(ViewOf(s)[c], m)
         /\ \A d \in Drafts \cup {None} :
              ViewOf(updateDraftMessage(s, c, d))[c] = Abstract!WithDraft(ViewOf(s)[c], d)
<1> DEFINE e == Entry(s, c)
<1>1. e = None \/ e \in BriefChatInfo
  BY EntryCases
<1>2. ViewOf(s)[c] = Shown(e)
  BY ViewIsShown
<1>3. \A m \in Messages \cup {None} :
        ViewOf(updateLastMessage(s, c, m))[c] =
          Shown(IF e = None THEN None ELSE [e EXCEPT !.lastMessage = m])
  BY UpdateContentEntries, ViewIsShown
<1>4. \A d \in Drafts \cup {None} :
        ViewOf(updateDraftMessage(s, c, d))[c] =
          Shown(IF e = None THEN None ELSE [e EXCEPT !.lastDraftMessage = d])
  BY UpdateContentEntries, ViewIsShown
<1> HIDE DEF e
<1>5. CASE e = None
  BY <1>2, <1>3, <1>4, <1>5 DEF Shown, Abstract!WithMessage, Abstract!WithDraft
<1>6. CASE e \in BriefChatInfo
  <2>1. ASSUME NEW m \in Messages \cup {None}
        PROVE  Shown([e EXCEPT !.lastMessage = m]) = [Shown(e) EXCEPT !.lastMessage = m]
    <3>1. [e EXCEPT !.lastMessage = m] \in BriefChatInfo
      BY <1>6, <2>1 DEF BriefChatInfo
    <3> QED
      BY <1>6, <3>1, ShownIsView DEF BriefChatInfo
  <2>2. ASSUME NEW d \in Drafts \cup {None}
        PROVE  Shown([e EXCEPT !.lastDraftMessage = d]) = [Shown(e) EXCEPT !.lastDraftMessage = d]
    <3>1. [e EXCEPT !.lastDraftMessage = d] \in BriefChatInfo
      BY <1>6, <2>2 DEF BriefChatInfo
    <3> QED
      BY <1>6, <3>1, ShownIsView DEF BriefChatInfo
  <2> QED
    BY <1>2, <1>3, <1>4, <1>6, <2>1, <2>2, ShownIsView DEF Abstract!WithMessage, Abstract!WithDraft
<1> QED
  BY <1>1, <1>5, <1>6

-----------------------------------------------------------------------------
(* What an update does to the lists *)

\* New positions of chat c in list l.
LEMMA MovedEntries ==
  ASSUME NEW l, Sorted(chats[l]), NEW c \in Chats, NEW positions,
         l \in DOMAIN positions => positions[l] \in Orders
  PROVE  /\ OnlyTouches(c, chats[l], Moved(l, c, positions))
         /\ ViewOf(Moved(l, c, positions))[c] =
              IF l \in DOMAIN positions THEN Abstract!Placed(ViewOf(chats[l])[c], positions[l])
              ELSE ViewOf(chats[l])[c]
BY UpdateChatPositionEntries, PlacedView DEF Moved, OnlyTouches

\* The three updates of a chat touch it alone, in every list.
OnlyTouched(c) ==
  /\ Open' = Open
  /\ \A l \in Open : OnlyTouches(c, chats[l], chats'[l])

LEMMA PositionTouches ==
  ASSUME IInv, NEW l, NEW c \in Chats, NEW o \in Orders, UpdateChatPosition(l, c, o)
  PROVE  /\ OnlyTouched(c)
         /\ \A k \in Open : ViewOf(chats'[k])[c] =
              IF k = l THEN Abstract!Placed(ViewOf(chats[k])[c], o) ELSE ViewOf(chats[k])[c]
<1> DEFINE positions == [j \in {l} |-> o]
<1>1. Open' = Open /\ \A k \in Open : chats'[k] = Moved(k, c, positions)
  BY DEF UpdateChatPosition, Open
<1>2. \A k : k \in DOMAIN positions <=> k = l
  OBVIOUS
<1>3. positions[l] = o
  OBVIOUS
<1> HIDE DEF positions
<1>4. \A k \in Open : Sorted(chats[k])
  BY DEF IInv
<1>5. \A k \in Open : OnlyTouches(c, chats[k], Moved(k, c, positions))
  BY <1>2, <1>3, <1>4, MovedEntries
<1>6. \A k \in Open : ViewOf(Moved(k, c, positions))[c] =
         IF k = l THEN Abstract!Placed(ViewOf(chats[k])[c], o) ELSE ViewOf(chats[k])[c]
  BY <1>2, <1>3, <1>4, MovedEntries
<1> QED
  BY <1>1, <1>5, <1>6 DEF OnlyTouched

LEMMA PositionsAreOrders ==
  ASSUME NEW positions \in Positions
  PROVE  \A l \in DOMAIN positions : positions[l] \in Placing /\ positions[l] \in Orders
BY DEF Positions, Placing

\* Without positions nobody holds the chat: the lists are as if they had been updated.
LEMMA MessageTouches ==
  ASSUME IInv, NEW c \in Chats, NEW positions \in Positions, NEW m \in Messages \cup {None},
         UpdateChatLastMessage(c, positions, m)
  PROVE  /\ OnlyTouched(c)
         /\ \A l \in Open :
              /\ Sorted(Moved(l, c, positions))
              /\ chats'[l] = updateLastMessage(Moved(l, c, positions), c, m)
              /\ ViewOf(chats'[l])[c] = Abstract!WithMessage(ViewOf(Moved(l, c, positions))[c], m)
<1>1. Open' = Open
  BY DEF UpdateChatLastMessage, Open
<1>2. \A l \in Open : chats'[l] = updateLastMessage(Moved(l, c, positions), c, m)
  <2>1. CASE DOMAIN positions = {}
    BY <2>1 DEF UpdateChatLastMessage, Announceable, updateLastMessage, Moved
  <2>2. CASE DOMAIN positions # {}
    BY <2>2 DEF UpdateChatLastMessage
  <2> QED
    BY <2>1, <2>2
<1>3. ASSUME NEW l \in Open
      PROVE  /\ Sorted(Moved(l, c, positions))
             /\ OnlyTouches(c, chats[l], Moved(l, c, positions))
  BY PositionsAreOrders, MovedSorted, MovedEntries DEF IInv
<1>4. ASSUME NEW l \in Open
      PROVE  OnlyTouches(c, chats[l], chats'[l])
  BY <1>2, <1>3, UpdateContentEntries, OnlyTouchesTwice
<1>5. ASSUME NEW l \in Open
      PROVE  ViewOf(chats'[l])[c] = Abstract!WithMessage(ViewOf(Moved(l, c, positions))[c], m)
  BY <1>2, <1>3, ContentView
<1> QED
  BY <1>1, <1>2, <1>3, <1>4, <1>5 DEF OnlyTouched

LEMMA DraftTouches ==
  ASSUME IInv, NEW c \in Chats, NEW positions \in Positions, NEW d \in Drafts \cup {None},
         UpdateChatDraftMessage(c, positions, d)
  PROVE  /\ OnlyTouched(c)
         /\ \A l \in Open :
              /\ Sorted(Moved(l, c, positions))
              /\ chats'[l] = updateDraftMessage(Moved(l, c, positions), c, d)
              /\ ViewOf(chats'[l])[c] = Abstract!WithDraft(ViewOf(Moved(l, c, positions))[c], d)
<1>1. Open' = Open
  BY DEF UpdateChatDraftMessage, Open
<1>2. \A l \in Open : chats'[l] = updateDraftMessage(Moved(l, c, positions), c, d)
  <2>1. CASE DOMAIN positions = {}
    BY <2>1 DEF UpdateChatDraftMessage, Announceable, updateDraftMessage, Moved
  <2>2. CASE DOMAIN positions # {}
    BY <2>2 DEF UpdateChatDraftMessage
  <2> QED
    BY <2>1, <2>2
<1>3. ASSUME NEW l \in Open
      PROVE  /\ Sorted(Moved(l, c, positions))
             /\ OnlyTouches(c, chats[l], Moved(l, c, positions))
  BY PositionsAreOrders, MovedSorted, MovedEntries DEF IInv
<1>4. ASSUME NEW l \in Open
      PROVE  OnlyTouches(c, chats[l], chats'[l])
  BY <1>2, <1>3, UpdateContentEntries, OnlyTouchesTwice
<1>5. ASSUME NEW l \in Open
      PROVE  ViewOf(chats'[l])[c] = Abstract!WithDraft(ViewOf(Moved(l, c, positions))[c], d)
  BY <1>2, <1>3, ContentView
<1> QED
  BY <1>1, <1>2, <1>3, <1>4, <1>5 DEF OnlyTouched

-----------------------------------------------------------------------------
(* The refinement *)

\* What the pages show; ChatPositions' view.
Pages == [l \in Open |-> ViewOf(chats[l])]

LEMMA TouchedIsOnlyChat ==
  ASSUME NEW c \in Chats, OnlyTouched(c)
  PROVE  Abstract!OnlyChat(c, Pages, Pages')
<1>1. \A l \in Open, d \in Chats \ {c} : ViewOf(chats'[l])[d] = ViewOf(chats[l])[d]
  BY ViewIsShown DEF OnlyTouched, OnlyTouches
<1> QED
  BY <1>1 DEF OnlyTouched, Abstract!OnlyChat, Pages

LEMMA PositionImplements ==
  ASSUME IInv, NEW l \in Lists, NEW c \in Chats, NEW o \in Orders, UpdateChatPosition(l, c, o)
  PROVE  Abstract!Next \/ UNCHANGED Pages
<1>0. Open' = Open
  BY PositionTouches DEF OnlyTouched
<1>1. CASE l \notin Open
  <2>1. \A k \in Open : chats'[k] = chats[k]
    BY <1>1 DEF UpdateChatPosition, Moved
  <2> QED
    BY <1>0, <2>1 DEF Pages
<1>2. CASE l \in Open
  <2>1. Abstract!OnlyChat(c, Pages, Pages')
    BY PositionTouches, TouchedIsOnlyChat
  <2>2. /\ Pages'[l][c] = Abstract!Placed(Pages[l][c], o)
        /\ \A k \in Open \ {l} : Pages'[k][c] = Pages[k][c]
    BY <1>0, <1>2, PositionTouches DEF Pages
  <2>3. Abstract!PositionAnnounced(c, Pages, Pages')
    BY <1>2, <2>2 DEF Abstract!PositionAnnounced, Pages
  <2>4. Abstract!Step(Pages, Pages')
    BY <2>1, <2>3 DEF Abstract!Step
  <2> QED
    BY <2>4 DEF Abstract!Next, Pages
<1> QED
  BY <1>1, <1>2

LEMMA MessageImplements ==
  ASSUME IInv, NEW c \in Chats, NEW positions \in Positions, NEW m \in Messages \cup {None},
         UpdateChatLastMessage(c, positions, m)
  PROVE  Abstract!Next
<1>1. Abstract!OnlyChat(c, Pages, Pages')
  BY MessageTouches, TouchedIsOnlyChat
<1>2. ASSUME NEW l \in Open
      PROVE  \/ Pages'[l][c] = Abstract!WithMessage(Pages[l][c], m)
             \/ \E o \in Placing :
                  Pages'[l][c] = Abstract!WithMessage(Abstract!Placed(Pages[l][c], o), m)
  <2>1. /\ l \in Open'
        /\ ViewOf(chats'[l])[c] = Abstract!WithMessage(ViewOf(Moved(l, c, positions))[c], m)
    BY MessageTouches DEF OnlyTouched
  <2>2. ViewOf(Moved(l, c, positions))[c] =
          IF l \in DOMAIN positions THEN Abstract!Placed(ViewOf(chats[l])[c], positions[l])
          ELSE ViewOf(chats[l])[c]
    BY PositionsAreOrders, MovedEntries DEF IInv
  <2> QED
    BY <2>1, <2>2, PositionsAreOrders DEF Pages
<1>3. Abstract!MessageAnnounced(c, Pages, Pages')
  <2>1. DOMAIN Pages = Open /\ Abstract!Placing = Placing
    BY DEF Pages, Abstract!Placing, Placing
  <2> QED
    BY <1>2, <2>1 DEF Abstract!MessageAnnounced
<1>4. Abstract!Step(Pages, Pages')
  BY <1>1, <1>3 DEF Abstract!Step
<1> QED
  BY <1>4 DEF Abstract!Next, Pages

LEMMA DraftImplements ==
  ASSUME IInv, NEW c \in Chats, NEW positions \in Positions, NEW d \in Drafts \cup {None},
         UpdateChatDraftMessage(c, positions, d)
  PROVE  Abstract!Next
<1>1. Abstract!OnlyChat(c, Pages, Pages')
  BY DraftTouches, TouchedIsOnlyChat
<1>2. ASSUME NEW l \in Open
      PROVE  \/ Pages'[l][c] = Abstract!WithDraft(Pages[l][c], d)
             \/ \E o \in Placing :
                  Pages'[l][c] = Abstract!WithDraft(Abstract!Placed(Pages[l][c], o), d)
  <2>1. /\ l \in Open'
        /\ ViewOf(chats'[l])[c] = Abstract!WithDraft(ViewOf(Moved(l, c, positions))[c], d)
    BY DraftTouches DEF OnlyTouched
  <2>2. ViewOf(Moved(l, c, positions))[c] =
          IF l \in DOMAIN positions THEN Abstract!Placed(ViewOf(chats[l])[c], positions[l])
          ELSE ViewOf(chats[l])[c]
    BY PositionsAreOrders, MovedEntries DEF IInv
  <2> QED
    BY <2>1, <2>2, PositionsAreOrders DEF Pages
<1>3. Abstract!DraftAnnounced(c, Pages, Pages')
  <2>1. DOMAIN Pages = Open /\ Abstract!Placing = Placing
    BY DEF Pages, Abstract!Placing, Placing
  <2> QED
    BY <1>2, <2>1 DEF Abstract!DraftAnnounced
<1>4. Abstract!Step(Pages, Pages')
  BY <1>1, <1>3 DEF Abstract!Step
<1> QED
  BY <1>4 DEF Abstract!Next, Pages

\* A page without entries shows no chat.
LEMMA NoEntries == ViewOf(<<>>) = Abstract!Empty
<1>1. \A c \in Chats : ~Holds(<<>>, c)
  BY DEF Holds, IndexOf, IndexWhere
<1> QED
  BY <1>1 DEF ViewOf, Entry, Abstract!Empty

LEMMA FoldersImplement ==
  ASSUME IInv, NEW fs \in FolderLists, NEW position \in 0..Len(fs),
         UpdateChatFolders(fs, position)
  PROVE  Abstract!Next
<1>1. Open' = {Main} \cup ToSet(fs)
  BY DEF UpdateChatFolders, Open
<1>2. \A l \in Open' : chats'[l] = IF l \in Open THEN chats[l] ELSE <<>>
  BY <1>1 DEF UpdateChatFolders
<1>3. ToSet(fs) \subseteq Folders
  BY FolderListsAreSequences DEF ToSet
<1>4. Abstract!FoldersAnnounced(Pages, Pages')
  BY <1>1, <1>2, <1>3, NoEntries DEF Pages, Abstract!FoldersAnnounced
<1> QED
  BY <1>4 DEF Abstract!Next, Abstract!Step, Pages

\* Every page shows exactly the chats, positions and contents TDLib announced for it:
\* the sorted lists implement ChatPositions, in every behaviour.
THEOREM ImplementsChatPositions == Spec => ImplementsPositions
<1>1. Init => Abstract!Init
  BY NoEntries DEF Init, Abstract!Init, Open
<1>2. IInv /\ [Next]_vars => Abstract!Next \/ UNCHANGED Pages
  <2>1. CASE UNCHANGED vars
    BY <2>1 DEF vars, Pages, Open
  <2> QED
    BY <2>1, PositionImplements, MessageImplements, DraftImplements, FoldersImplement DEF Next
<1>3. IInv /\ [Next]_vars => [Abstract!Next]_([l \in Open |-> ViewOf(chats[l])])
  BY <1>2 DEF Pages
<1>4. Spec => []IInv
  BY InitIInv, NextIInv, PTL DEF Spec
<1> QED
  BY <1>1, <1>3, <1>4, PTL DEF Spec, ImplementsPositions, Abstract!Spec

-----------------------------------------------------------------------------
(* Contents: an entry shows what was announced last, or nothing *)

\* View v of a chat shows no older contents than a, the ones announced last.
ShowsLatest(v, a) ==
  v = None \/ (v.lastMessage \in {None, a.message} /\ v.lastDraftMessage \in {None, a.draft})

LatestShown == \A l \in Open, c \in Chats : ShowsLatest(ViewOf(chats[l])[c], latest[c])

\* What is said of the entries of a list is said of what it shows of each chat.
LEMMA LatestShownOfEntries == IInv => (ShowsLatestContent <=> LatestShown)
<1> SUFFICES ASSUME IInv PROVE ShowsLatestContent <=> LatestShown
  OBVIOUS
<1>1. ASSUME NEW l \in Open, NEW i \in DOMAIN chats[l]
      PROVE  LET e == chats[l][i]
             IN /\ e.chatId \in Chats
                /\ ViewOf(chats[l])[e.chatId] = Shown(e)
                /\ e \in BriefChatInfo
  <2>1. Sorted(chats[l])
    BY DEF IInv
  <2>2. chats[l][i] \in BriefChatInfo
    BY <2>1, ElementOfSeq DEF Sorted
  <2>3. chats[l][i].chatId \in Chats
    BY <2>2, EntryFields
  <2> QED
    BY <2>1, <2>2, <2>3, EntryOfElement, ViewIsShown
<1>2. ASSUME LatestShown PROVE ShowsLatestContent
  <2>1. SUFFICES ASSUME NEW l \in Open, NEW i \in DOMAIN chats[l]
                 PROVE  LET e == chats[l][i]
                        IN /\ e.lastMessage \in {None, latest[e.chatId].message}
                           /\ e.lastDraftMessage \in {None, latest[e.chatId].draft}
    BY DEF ShowsLatestContent
  <2> DEFINE e == chats[l][i]
  <2>2. e.chatId \in Chats /\ ViewOf(chats[l])[e.chatId] = Shown(e) /\ e \in BriefChatInfo
    BY <1>1
  <2>3. ShowsLatest(Shown(e), latest[e.chatId])
    BY <1>2, <2>2 DEF LatestShown
  <2> HIDE DEF e
  <2>4. /\ e.lastMessage \in {None, latest[e.chatId].message}
        /\ e.lastDraftMessage \in {None, latest[e.chatId].draft}
    BY <2>2, <2>3, ShownIsView DEF ShowsLatest
  <2> QED
    BY <2>4 DEF e
<1>3. ASSUME ShowsLatestContent PROVE LatestShown
  <2>1. SUFFICES ASSUME NEW l \in Open, NEW c \in Chats
                 PROVE  ShowsLatest(ViewOf(chats[l])[c], latest[c])
    BY DEF LatestShown
  <2>2. CASE Holds(chats[l], c)
    <3>1. PICK i \in DOMAIN chats[l] : chats[l][i].chatId = c
      BY <2>2, IndexOfFinds DEF IInv, Sorted
    <3> DEFINE e == chats[l][i]
    <3>2. ViewOf(chats[l])[c] = Shown(e) /\ e \in BriefChatInfo
      BY <1>1, <3>1
    <3>3. /\ e.lastMessage \in {None, latest[c].message}
          /\ e.lastDraftMessage \in {None, latest[c].draft}
      BY <1>3, <3>1 DEF ShowsLatestContent
    <3> HIDE DEF e
    <3> QED
      BY <3>2, <3>3, ShownIsView DEF ShowsLatest
  <2>3. CASE ~Holds(chats[l], c)
    BY <2>3, ViewIsShown DEF Entry, Shown, ShowsLatest
  <2> QED
    BY <2>2, <2>3
<1> QED
  BY <1>2, <1>3

LEMMA PlacedShowsLatest ==
  ASSUME NEW v, NEW a, ShowsLatest(v, a), NEW o
  PROVE  ShowsLatest(Abstract!Placed(v, o), a)
BY DEF ShowsLatest, Abstract!Placed

LEMMA MovedShowsLatest ==
  ASSUME IInv, LatestShown, NEW l \in Open, NEW c \in Chats, NEW positions \in Positions
  PROVE  /\ ShowsLatest(ViewOf(Moved(l, c, positions))[c], latest[c])
         /\ ViewOf(Moved(l, c, positions))[c] \in Abstract!View \cup {None}
<1>1. Sorted(chats[l]) /\ Sorted(Moved(l, c, positions))
  BY PositionsAreOrders, MovedSorted DEF IInv
<1>2. ShowsLatest(ViewOf(chats[l])[c], latest[c])
  BY DEF LatestShown
<1>3. ShowsLatest(ViewOf(Moved(l, c, positions))[c], latest[c])
  BY <1>1, <1>2, PositionsAreOrders, MovedEntries, PlacedShowsLatest
<1>4. ViewOf(Moved(l, c, positions))[c] \in Abstract!View \cup {None}
  <2> DEFINE e == Entry(Moved(l, c, positions), c)
  <2>1. ViewOf(Moved(l, c, positions))[c] = Shown(e)
    BY ViewIsShown
  <2>2. e = None \/ e \in BriefChatInfo
    BY <1>1, EntryCases
  <2> HIDE DEF e
  <2> QED
    BY <2>1, <2>2 DEF Shown, BriefChatInfo, Abstract!View, Placing, Abstract!Placing
<1> QED
  BY <1>3, <1>4

\* Contents announced now are the latest, in every list that shows the chat.
LEMMA OthersShowLatest ==
  ASSUME LatestShown, NEW c \in Chats, OnlyTouched(c),
         \A d \in Chats \ {c} : latest'[d] = latest[d],
         \A l \in Open : ShowsLatest(ViewOf(chats'[l])[c], latest'[c])
  PROVE  LatestShown'
<1>1. ASSUME NEW l \in Open, NEW d \in Chats \ {c}
      PROVE  ShowsLatest(ViewOf(chats'[l])[d], latest'[d])
  <2>1. ViewOf(chats'[l])[d] = ViewOf(chats[l])[d]
    BY ViewIsShown DEF OnlyTouched, OnlyTouches
  <2> QED
    BY <2>1 DEF LatestShown
<1>2. \A l \in Open', d \in Chats : ShowsLatest(ViewOf(chats'[l])[d], latest'[d])
  BY <1>1 DEF OnlyTouched
<1> QED
  BY <1>2 DEF LatestShown

LEMMA NextLatestShown == IInv /\ LatestShown /\ [Next]_vars => LatestShown'
<1> SUFFICES ASSUME IInv, LatestShown, [Next]_vars PROVE LatestShown'
  OBVIOUS
<1>1. ASSUME NEW l \in Lists, NEW c \in Chats, NEW o \in Orders, UpdateChatPosition(l, c, o)
      PROVE  LatestShown'
  <2>1. latest' = latest
    BY <1>1 DEF UpdateChatPosition
  <2>2. \A k \in Open : ShowsLatest(ViewOf(chats'[k])[c], latest[c])
    BY <1>1, PositionTouches, PlacedShowsLatest DEF LatestShown
  <2> QED
    BY <1>1, <2>1, <2>2, PositionTouches, OthersShowLatest
<1>2. ASSUME NEW c \in Chats, NEW positions \in Positions, NEW m \in Messages \cup {None},
             UpdateChatLastMessage(c, positions, m)
      PROVE  LatestShown'
  <2>1. /\ latest' = [latest EXCEPT ![c].message = m]
        /\ latest \in [Chats -> [message : Messages \cup {None}, draft : Drafts \cup {None}]]
    BY <1>2 DEF UpdateChatLastMessage, IInv
  <2>2. /\ latest'[c].message = m /\ latest'[c].draft = latest[c].draft
        /\ \A d \in Chats \ {c} : latest'[d] = latest[d]
    BY <2>1
  <2>3. ASSUME NEW l \in Open PROVE ShowsLatest(ViewOf(chats'[l])[c], latest'[c])
    <3> DEFINE v == ViewOf(Moved(l, c, positions))[c]
    <3>1. ShowsLatest(v, latest[c]) /\ v \in Abstract!View \cup {None}
      BY MovedShowsLatest
    <3>2. ViewOf(chats'[l])[c] = Abstract!WithMessage(v, m)
      BY <1>2, MessageTouches
    <3> HIDE DEF v
    <3> QED
      BY <2>2, <3>1, <3>2, NullAssumption DEF ShowsLatest, Abstract!WithMessage, Abstract!View
  <2> QED
    BY <1>2, <2>2, <2>3, MessageTouches, OthersShowLatest
<1>3. ASSUME NEW c \in Chats, NEW positions \in Positions, NEW d \in Drafts \cup {None},
             UpdateChatDraftMessage(c, positions, d)
      PROVE  LatestShown'
  <2>1. /\ latest' = [latest EXCEPT ![c].draft = d]
        /\ latest \in [Chats -> [message : Messages \cup {None}, draft : Drafts \cup {None}]]
    BY <1>3 DEF UpdateChatDraftMessage, IInv
  <2>2. /\ latest'[c].draft = d /\ latest'[c].message = latest[c].message
        /\ \A e \in Chats \ {c} : latest'[e] = latest[e]
    BY <2>1
  <2>3. ASSUME NEW l \in Open PROVE ShowsLatest(ViewOf(chats'[l])[c], latest'[c])
    <3> DEFINE v == ViewOf(Moved(l, c, positions))[c]
    <3>1. ShowsLatest(v, latest[c]) /\ v \in Abstract!View \cup {None}
      BY MovedShowsLatest
    <3>2. ViewOf(chats'[l])[c] = Abstract!WithDraft(v, d)
      BY <1>3, DraftTouches
    <3> HIDE DEF v
    <3> QED
      BY <2>2, <3>1, <3>2, NullAssumption DEF ShowsLatest, Abstract!WithDraft, Abstract!View
  <2> QED
    BY <1>3, <2>2, <2>3, DraftTouches, OthersShowLatest
<1>4. ASSUME NEW fs \in FolderLists, NEW position \in 0..Len(fs),
             UpdateChatFolders(fs, position)
      PROVE  LatestShown'
  <2>1. /\ latest' = latest
        /\ \A l \in Open' : chats'[l] = IF l \in Open THEN chats[l] ELSE <<>>
    BY <1>4 DEF UpdateChatFolders, Open
  <2>2. \A a, c \in Chats : ShowsLatest(ViewOf(<<>>)[c], latest[a])
    BY NoEntries DEF Abstract!Empty, ShowsLatest
  <2>3. \A l \in Open', c \in Chats : ShowsLatest(ViewOf(chats'[l])[c], latest[c])
    BY <2>1, <2>2 DEF LatestShown
  <2> QED
    BY <2>1, <2>3 DEF LatestShown
<1>5. CASE UNCHANGED vars
  BY <1>5 DEF vars, LatestShown, Open
<1> QED
  BY <1>1, <1>2, <1>3, <1>4, <1>5 DEF Next

\* No page ever shows an older message or draft than the one TDLib announced last for
\* the chat: re-placing a chat copies the contents of the entry it removes
\* (ChatList._updateChatPosition, updateChatLastMessage, updateChatDraftMessage).
THEOREM EntriesShowLatest == Spec => []ShowsLatestContent
<1>1. Init => IInv /\ LatestShown
  BY InitIInv, NoEntries DEF Init, LatestShown, Open, Abstract!Empty, ShowsLatest
<1>2. IInv /\ LatestShown /\ [Next]_vars => (IInv /\ LatestShown)'
  BY NextIInv, NextLatestShown
<1>3. IInv /\ LatestShown => ShowsLatestContent
  BY LatestShownOfEntries
<1> QED
  BY <1>1, <1>2, <1>3, PTL DEF Spec

-----------------------------------------------------------------------------
(* Notifications: only a removal goes unnoticed *)

\* A list that is not notified either changed no entry of c or holds c no longer.
LEMMA NotifyStale ==
  ASSUME IInv, IInv', StaleOnlyByRemoval, NEW c \in Chats, OnlyTouched(c), NEW ls, Notify(ls),
         \A l \in Open : \/ l \in ls
                         \/ ~Holds(chats'[l], c)
                         \/ chats'[l] = chats[l]
  PROVE  StaleOnlyByRemoval'
<1>1. SUFFICES ASSUME NEW l \in Open', NEW d \in unseen'[l]
               PROVE  ~Holds(chats'[l], d)
  BY DEF StaleOnlyByRemoval
<1>2. l \in Open /\ Sorted(chats[l]) /\ Sorted(chats'[l])
  BY DEF OnlyTouched, IInv
<1>3. /\ l \notin ls
      /\ d \in unseen[l] \/ Entry(chats[l], d) # Entry(chats'[l], d)
  BY <1>1, <1>2 DEF Notify
<1>4. CASE d = c
  BY <1>2, <1>3, <1>4 DEF StaleOnlyByRemoval
<1>5. CASE d # c
  <2>1. Entry(chats'[l], d) = Entry(chats[l], d)
    BY <1>2, <1>5 DEF OnlyTouched, OnlyTouches
  <2>2. ~Holds(chats[l], d)
    BY <1>2, <1>3, <2>1 DEF StaleOnlyByRemoval
  <2> QED
    BY <1>2, <2>1, <2>2, EntryCases
<1> QED
  BY <1>4, <1>5

LEMMA NextStale == IInv /\ StaleOnlyByRemoval /\ [Next]_vars => StaleOnlyByRemoval'
<1> SUFFICES ASSUME IInv, StaleOnlyByRemoval, [Next]_vars PROVE StaleOnlyByRemoval'
  OBVIOUS
<1>0. IInv'
  BY NextIInv
<1>1. ASSUME NEW l \in Lists, NEW c \in Chats, NEW o \in Orders, UpdateChatPosition(l, c, o)
      PROVE  StaleOnlyByRemoval'
  <2>1. /\ OnlyTouched(c) /\ Notify(IF o = 0 THEN {} ELSE {l})
        /\ \A k \in Open \ {l} : chats'[k] = chats[k]
    BY <1>1, PositionTouches DEF UpdateChatPosition, Moved
  <2>2. CASE o # 0
    BY <1>0, <2>1, <2>2, NotifyStale
  <2>3. CASE o = 0
    <3>1. l \in Open => chats'[l] = WithoutChat(chats[l], c)
      BY <1>1, <2>3 DEF UpdateChatPosition, Moved, updateChatPosition
    <3>2. l \in Open => ~Holds(chats'[l], c)
      BY <3>1, WithoutChatEntries DEF IInv
    <3> QED
      BY <1>0, <2>1, <3>2, NotifyStale
  <2> QED
    BY <2>2, <2>3
<1>2. ASSUME NEW c \in Chats, NEW positions \in Positions, NEW m \in Messages \cup {None},
             UpdateChatLastMessage(c, positions, m)
      PROVE  StaleOnlyByRemoval'
  <2>1. OnlyTouched(c) /\ Notify(Listing(c))
    BY <1>2, MessageTouches DEF UpdateChatLastMessage
  <2>2. \A l \in Open : l \in Listing(c) \/ ~Holds(chats'[l], c)
    BY <2>1 DEF Listing, OnlyTouched
  <2> QED
    BY <1>0, <2>1, <2>2, NotifyStale
<1>3. ASSUME NEW c \in Chats, NEW positions \in Positions, NEW d \in Drafts \cup {None},
             UpdateChatDraftMessage(c, positions, d)
      PROVE  StaleOnlyByRemoval'
  <2>1. OnlyTouched(c) /\ Notify(Listing(c))
    BY <1>3, DraftTouches DEF UpdateChatDraftMessage
  <2>2. \A l \in Open : l \in Listing(c) \/ ~Holds(chats'[l], c)
    BY <2>1 DEF Listing, OnlyTouched
  <2> QED
    BY <1>0, <2>1, <2>2, NotifyStale
<1>4. ASSUME NEW fs \in FolderLists, NEW position \in 0..Len(fs),
             UpdateChatFolders(fs, position)
      PROVE  StaleOnlyByRemoval'
  <2>1. /\ Notify(ToSet(fs))
        /\ \A l \in Open' \cap Open : chats'[l] = chats[l]
    BY <1>4 DEF UpdateChatFolders, Open
  <2>2. SUFFICES ASSUME NEW l \in Open', NEW d \in unseen'[l]
                 PROVE  ~Holds(chats'[l], d)
    BY DEF StaleOnlyByRemoval
  <2>3. l \in Open /\ (d \in unseen[l] \/ Entry(chats[l], d) # Entry(chats'[l], d))
    BY <2>1, <2>2 DEF Notify
  <2> QED
    BY <2>1, <2>3 DEF StaleOnlyByRemoval
<1>5. CASE UNCHANGED vars
  BY <1>5 DEF vars, StaleOnlyByRemoval, Open
<1> QED
  BY <1>1, <1>2, <1>3, <1>4, <1>5 DEF Next

\* What the listeners of a page were not told of is only chats that left it
\* (ChatList._updateChatPosition returns before _update() when the order is 0).
THEOREM OnlyRemovalsUnnoticed == Spec => []StaleOnlyByRemoval
<1>1. Init => IInv /\ StaleOnlyByRemoval
  BY InitIInv DEF Init, StaleOnlyByRemoval, Open
<1>2. IInv /\ StaleOnlyByRemoval /\ [Next]_vars => (IInv /\ StaleOnlyByRemoval)'
  BY NextIInv, NextStale
<1> QED
  BY <1>1, <1>2, PTL DEF Spec

-----------------------------------------------------------------------------
(* Places: an update moves one chat at most *)

\* An update moves at most one chat of a page; the others stay and keep their relative
\* places, chats of equal orders included (ChatList's removeAt and insert).
THEOREM UpdatesMoveOneChat == Spec => OneChatMoves
<1> DEFINE Keeps(l) == \E c \in Chats : \A d, e \in Chats \ {c} :
                         Precedes(chats'[l], d, e) <=> Precedes(chats[l], d, e)
<1>1. ASSUME NEW c \in Chats, OnlyTouched(c), NEW l \in Open
      PROVE  Keeps(l)
  BY <1>1 DEF OnlyTouched, OnlyTouches
<1>2. ASSUME NEW l, chats'[l] = chats[l]
      PROVE  Keeps(l)
  BY <1>2, ChatListsAssumption
<1>3. IInv /\ [Next]_vars => [\A l \in Open \cap Open' : Keeps(l)]_vars
  <2> SUFFICES ASSUME IInv, Next, NEW l \in Open \cap Open' PROVE Keeps(l)
    OBVIOUS
  <2> HIDE DEF Keeps
  <2>1. ASSUME NEW k \in Lists, NEW c \in Chats, NEW o \in Orders, UpdateChatPosition(k, c, o)
        PROVE  Keeps(l)
    BY <1>1, <2>1, PositionTouches
  <2>2. ASSUME NEW c \in Chats, NEW positions \in Positions, NEW m \in Messages \cup {None},
               UpdateChatLastMessage(c, positions, m)
        PROVE  Keeps(l)
    BY <1>1, <2>2, MessageTouches
  <2>3. ASSUME NEW c \in Chats, NEW positions \in Positions, NEW d \in Drafts \cup {None},
               UpdateChatDraftMessage(c, positions, d)
        PROVE  Keeps(l)
    BY <1>1, <2>3, DraftTouches
  <2>4. ASSUME NEW fs \in FolderLists, NEW position \in 0..Len(fs),
               UpdateChatFolders(fs, position)
        PROVE  Keeps(l)
    <3>1. chats'[l] = chats[l]
      BY <2>4 DEF UpdateChatFolders, Open
    <3> QED
      BY <1>2, <3>1
  <2> QED
    BY <2>1, <2>2, <2>3, <2>4 DEF Next
<1>4. IInv /\ [Next]_vars =>
        [\A l \in Open \cap Open' : \E c \in Chats : \A d, e \in Chats \ {c} :
           Precedes(chats'[l], d, e) <=> Precedes(chats[l], d, e)]_vars
  BY <1>3
<1>5. Spec => []IInv
  BY InitIInv, NextIInv, PTL DEF Spec
<1> QED
  BY <1>4, <1>5, PTL DEF Spec, OneChatMoves
=============================================================================
