--------------------------- MODULE ChatBlocProofs ---------------------------
(***************************************************************************)
(* For chats of any length, any limits of the requests and any number of   *)
(* requests at a time: the list shows what it knows, marks each end once,  *)
(* and skips no message.                                                   *)
(***************************************************************************)
EXTENDS ChatBloc, FiniteSetTheorems, SequenceTheorems, TLAPS

-----------------------------------------------------------------------------
(* Answers *)

\* A message further from the end has more messages on that side.
LEMMA Ranks ==
  ASSUME NEW S \in SUBSET Int, IsFiniteSet(S), NEW a \in S, NEW b \in S, a < b
  PROVE  /\ Cardinality(Above(a, S)) \in Nat /\ Cardinality(Below(b, S)) \in Nat
         /\ Cardinality(Above(b, S)) \in Nat /\ Cardinality(Below(a, S)) \in Nat
         /\ Cardinality(Above(b, S)) < Cardinality(Above(a, S))
         /\ Cardinality(Below(a, S)) < Cardinality(Below(b, S))
<1>1. /\ Above(b, S) \in SUBSET Above(a, S) /\ Above(a, S) \in SUBSET S
      /\ Below(a, S) \in SUBSET Below(b, S) /\ Below(b, S) \in SUBSET S
  <2>1. \A x \in S : (x > b => x > a) /\ (x < a => x < b)
    <3>1. SUFFICES ASSUME NEW x \in S PROVE (x > b => x > a) /\ (x < a => x < b)
      OBVIOUS
    <3>2. x \in Int /\ a \in Int /\ b \in Int
      OBVIOUS
    <3> QED
      BY <3>2
  <2> QED
    BY <2>1 DEF Above, Below
<1>2. Above(a, S) # Above(b, S) /\ Below(a, S) # Below(b, S)
  <2>1. b \in Above(a, S) /\ b \notin Above(b, S) /\ a \in Below(b, S) /\ a \notin Below(a, S)
    BY DEF Above, Below
  <2> QED
    BY <2>1
<1>3. IsFiniteSet(Above(a, S)) /\ IsFiniteSet(Below(b, S))
  BY <1>1, FS_Subset
<1>4. IsFiniteSet(Above(b, S)) /\ IsFiniteSet(Below(a, S))
  BY <1>1, <1>3, FS_Subset
<1>5. /\ Cardinality(Above(b, S)) <= Cardinality(Above(a, S))
      /\ Cardinality(Above(b, S)) # Cardinality(Above(a, S))
      /\ Cardinality(Below(a, S)) <= Cardinality(Below(b, S))
      /\ Cardinality(Below(a, S)) # Cardinality(Below(b, S))
  BY <1>1, <1>2, <1>3, FS_Subset
<1>6. /\ Cardinality(Above(a, S)) \in Nat /\ Cardinality(Below(b, S)) \in Nat
      /\ Cardinality(Above(b, S)) \in Nat /\ Cardinality(Below(a, S)) \in Nat
  BY <1>3, <1>4, FS_CardinalityType
<1> QED
  BY <1>5, <1>6

\* NewestFirst lists a set, largest first: the ranks of its members are the numbers
\* below its cardinality.
LEMMA Sorted ==
  ASSUME NEW S \in SUBSET Int, IsFiniteSet(S)
  PROVE  /\ NewestFirst(S) \in Seq(S) /\ Len(NewestFirst(S)) = Cardinality(S)
         /\ Ids(NewestFirst(S)) = S
         /\ \A i, j \in DOMAIN NewestFirst(S) : i < j => NewestFirst(S)[i] > NewestFirst(S)[j]
<1> DEFINE n == Cardinality(S)
           rank == [h \in S |-> Cardinality(Above(h, S))]
           s == NewestFirst(S)
<1>1. n \in Nat
  BY FS_CardinalityType
<1>2. ASSUME NEW h \in S PROVE Cardinality(Above(h, S)) \in 0..(n - 1)
  <2>1. Above(h, S) \in SUBSET S /\ h \notin Above(h, S)
    BY DEF Above
  <2>2. /\ IsFiniteSet(Above(h, S)) /\ Cardinality(Above(h, S)) <= n
        /\ Cardinality(Above(h, S)) # n
    BY <2>1, FS_Subset
  <2>3. Cardinality(Above(h, S)) \in Nat
    BY <2>2, FS_CardinalityType
  <2> QED
    BY <1>1, <2>2, <2>3
<1>3. ASSUME NEW a \in S, NEW b \in S, Cardinality(Above(a, S)) = Cardinality(Above(b, S))
      PROVE  a = b
  <2>1. a \in Int /\ b \in Int
    OBVIOUS
  <2>2. ~(a < b) /\ ~(b < a)
    BY <1>3, Ranks
  <2> QED
    BY <2>1, <2>2
<1>4. rank \in Injection(S, 0..(n - 1))
  <2>1. rank \in [S -> 0..(n - 1)]
    BY <1>2
  <2>2. \A a, b \in S : rank[a] = rank[b] => a = b
    BY <1>3
  <2> QED
    BY <2>1, <2>2 DEF Injection, IsInjective
<1>5. IsFiniteSet(0..(n - 1)) /\ Cardinality(0..(n - 1)) = n
  <2>1. /\ IsFiniteSet(0..(n - 1))
        /\ Cardinality(0..(n - 1)) = IF 0 > n - 1 THEN 0 ELSE (n - 1) - 0 + 1
    <3>1. 0 \in Int /\ n - 1 \in Int
      BY <1>1
    <3> HIDE DEF n
    <3> QED
      BY <3>1, FS_Interval
  <2> QED
    BY <1>1, <2>1
<1>6. rank \in Surjection(S, 0..(n - 1))
  BY <1>4, <1>5, FS_Injection
<1>7. \A r \in 0..(n - 1) : \E h \in S : Cardinality(Above(h, S)) = r
  BY <1>6 DEF Surjection
<1> HIDE DEF rank
<1>8. \A i \in 1..n : s[i] \in S /\ Cardinality(Above(s[i], S)) = i - 1
  <2>1. SUFFICES ASSUME NEW i \in 1..n PROVE s[i] \in S /\ Cardinality(Above(s[i], S)) = i - 1
    OBVIOUS
  <2>2. i - 1 \in 0..(n - 1)
    BY <1>1
  <2>3. \E h \in S : Cardinality(Above(h, S)) = i - 1
    BY <1>7, <2>2
  <2>4. s[i] = CHOOSE h \in S : Cardinality(Above(h, S)) = i - 1
    BY DEF NewestFirst
  <2> QED
    BY <2>3, <2>4
<1>9. s \in Seq(S) /\ Len(s) = n /\ DOMAIN s = 1..n
  <2>1. s = [i \in 1..n |-> s[i]]
    BY DEF NewestFirst
  <2> QED
    BY <1>1, <1>8, <2>1, IsASeq
<1>10. Ids(s) = S
  <2>1. ASSUME NEW h \in S PROVE h \in Ids(s)
    <3>1. Cardinality(Above(h, S)) + 1 \in 1..n
      BY <1>1, <1>2
    <3>2. s[Cardinality(Above(h, S)) + 1] = h
      <4> DEFINE k == Cardinality(Above(h, S)) + 1
      <4>1. Cardinality(Above(h, S)) \in Nat
        BY <1>2
      <4>2. k \in 1..n /\ k - 1 = Cardinality(Above(h, S))
        BY <3>1, <4>1
      <4> HIDE DEF k
      <4>3. s[k] \in S /\ Cardinality(Above(s[k], S)) = Cardinality(Above(h, S))
        BY <1>8, <4>2
      <4>4. s[k] = h
        BY <1>3, <4>3
      <4> QED
        BY <4>4 DEF k
    <3> QED
      BY <1>9, <3>1, <3>2 DEF Ids
  <2> QED
    BY <1>8, <1>9, <2>1 DEF Ids
<1>11. ASSUME NEW i \in 1..n, NEW j \in 1..n, i < j PROVE s[i] > s[j]
  <2>1. s[i] \in Int /\ s[j] \in Int
    BY <1>8
  <2>2. s[i] # s[j]
    BY <1>1, <1>8, <1>11
  <2>3. ~(s[i] < s[j])
    <3>1. SUFFICES ASSUME s[i] < s[j] PROVE FALSE
      OBVIOUS
    <3>2. Cardinality(Above(s[j], S)) < Cardinality(Above(s[i], S))
      BY <1>8, <3>1, Ranks
    <3> QED
      BY <1>8, <1>11, <3>2
  <2> QED
    BY <2>1, <2>2, <2>3
<1> QED
  BY <1>9, <1>10, <1>11

\* TDLib answers with messages of the chat, each once, newest first.
LEMMA Answer ==
  ASSUME history \in SUBSET Int, IsFiniteSet(history),
         NEW m, NEW offset, NEW limit
  PROVE  LET messages == History(m, offset, limit)
         IN  /\ messages \in Seq(history) /\ Len(messages) \in Nat
             /\ Ids(messages) = Around(m, offset, limit)
             /\ Around(m, offset, limit) \in SUBSET history
<1>1. Newer(m) \in SUBSET history
  BY DEF Newer, Above
<1>2. Around(m, offset, limit) \in SUBSET history
  BY <1>1 DEF Around
<1>3. IsFiniteSet(Around(m, offset, limit)) /\ Around(m, offset, limit) \in SUBSET Int
  BY <1>2, FS_Subset
<1>4. /\ History(m, offset, limit) \in Seq(Around(m, offset, limit))
      /\ Ids(History(m, offset, limit)) = Around(m, offset, limit)
  BY <1>3, Sorted DEF History
<1>5. History(m, offset, limit) \in Seq(history)
  BY <1>2, <1>4, SeqMonotonic
<1> QED
  BY <1>2, <1>4, <1>5, LenProperties

\* A message left out of an answer is beyond it, on its own side of the message asked
\* at: nothing is skipped.
LEMMA LeftOut ==
  ASSUME history \in SUBSET (Int \ {0}), IsFiniteSet(history),
         NEW m \in Int, NEW offset \in Int, NEW limit \in Int,
         NEW h \in history, h \notin Around(m, offset, limit),
         NEW x \in Around(m, offset, limit)
  PROVE  (h \in Newer(m) => x < h) /\ (h \notin Newer(m) => h < x)
<1> DEFINE newer == Newer(m)
           older == history \ Newer(m)
<1>1. /\ newer \in SUBSET history /\ older \in SUBSET history
      /\ newer \in SUBSET Int /\ older \in SUBSET Int
  BY DEF Newer, Above
<1>2. IsFiniteSet(newer) /\ IsFiniteSet(older)
  BY <1>1, FS_Subset
<1>3. x \in Int /\ h \in Int /\ x # h /\ x \in history
  BY <1>1 DEF Around
<1>4. /\ \A k \in newer : /\ k \in Around(m, offset, limit) <=> Cardinality(Below(k, newer)) < 0 - offset
                          /\ Cardinality(Below(k, newer)) \in Nat
      /\ \A k \in older : /\ k \in Around(m, offset, limit) <=> Cardinality(Above(k, older)) < limit + offset
                          /\ Cardinality(Above(k, older)) \in Nat
  <2>1. ASSUME NEW k \in newer PROVE Cardinality(Below(k, newer)) \in Nat
    <3>1. Below(k, newer) \in SUBSET newer
      BY DEF Below
    <3> QED
      BY <1>2, <3>1, FS_Subset, FS_CardinalityType
  <2>2. ASSUME NEW k \in older PROVE Cardinality(Above(k, older)) \in Nat
    <3>1. Above(k, older) \in SUBSET older
      BY DEF Above
    <3> QED
      BY <1>2, <3>1, FS_Subset, FS_CardinalityType
  <2> QED
    BY <2>1, <2>2 DEF Around
<1>5. \A a \in newer, b \in older : b < a
  <2>1. SUFFICES ASSUME NEW a \in newer, NEW b \in older PROVE b < a
    OBVIOUS
  <2>2. a \in Int /\ b \in Int
    BY <1>1
  <2>3. m # 0 /\ a > m /\ ~(b > m)
    BY <2>1 DEF Newer, Above
  <2> QED
    BY <2>2, <2>3
<1> HIDE DEF newer, older
<1>6. CASE h \in newer
  <2>1. CASE x \in older
    BY <1>5, <1>6, <2>1 DEF newer
  <2>2. CASE x \in newer
    <3>1. SUFFICES ASSUME h < x PROVE FALSE
      BY <1>3, <1>6 DEF newer
    <3>2. Cardinality(Below(h, newer)) < Cardinality(Below(x, newer))
      BY <1>1, <1>2, <1>6, <2>2, <3>1, Ranks
    <3>3. Cardinality(Below(x, newer)) < 0 - offset /\ ~(Cardinality(Below(h, newer)) < 0 - offset)
      BY <1>4, <1>6, <2>2
    <3> QED
      BY <1>4, <1>6, <2>2, <3>2, <3>3
  <2> QED
    BY <1>3, <2>1, <2>2 DEF newer, older
<1>7. CASE h \in older
  <2>1. CASE x \in newer
    BY <1>5, <1>7, <2>1 DEF newer, older
  <2>2. CASE x \in older
    <3>1. SUFFICES ASSUME x < h PROVE FALSE
      BY <1>3, <1>7 DEF newer, older
    <3>2. Cardinality(Above(h, older)) < Cardinality(Above(x, older))
      BY <1>1, <1>2, <1>7, <2>2, <3>1, Ranks
    <3>3. Cardinality(Above(x, older)) < limit + offset /\ ~(Cardinality(Above(h, older)) < limit + offset)
      BY <1>4, <1>7, <2>2
    <3> QED
      BY <1>4, <1>7, <2>2, <3>2, <3>3
  <2> QED
    BY <1>3, <2>1, <2>2 DEF newer, older
<1> QED
  BY <1>6, <1>7 DEF newer, older

-----------------------------------------------------------------------------
(* Lists *)

\* The list with c and then A in the place of its element i.
Splice(list, i, c, A) ==
  SubSeq(list, 1, i - 1) \o <<c>> \o A \o SubSeq(list, i + 1, Len(list))

\* Where an element q of such a list was before, if it is not one of A's.
Origin(q, i, A) == IF q <= i THEN q ELSE q - Len(A)

\* What such a list holds: at i, among A, and elsewhere.
LEMMA Spliced ==
  ASSUME NEW T, NEW list \in Seq(T), NEW i \in DOMAIN list, NEW c \in T, NEW A \in Seq(T)
  PROVE  LET r == Splice(list, i, c, A)
         IN  /\ r \in Seq(T) /\ Len(r) = Len(list) + Len(A)
             /\ r[i] = c
             /\ \A p \in 1..Len(A) : r[i + p] = A[p]
             /\ \A q \in 1..Len(r) : (q < i \/ q > i + Len(A)) => r[q] = list[Origin(q, i, A)]
<1> DEFINE s == SubSeq(list, 1, i - 1)
           u == SubSeq(list, i + 1, Len(list))
           r == Splice(list, i, c, A)
<1>1. Len(list) \in Nat /\ i \in 1..Len(list) /\ Len(A) \in Nat
  BY LenProperties
<1>2. /\ s \in Seq(T) /\ Len(s) = i - 1
      /\ \A q \in 1..(i - 1) : s[q] = list[q]
  <2>1. /\ s \in Seq(T)
        /\ Len(s) = IF 1 <= i - 1 THEN (i - 1) - 1 + 1 ELSE 0
        /\ \A q \in 1..((i - 1) - 1 + 1) : s[q] = list[1 + q - 1]
    BY <1>1, SubSeqProperties
  <2>2. \A q \in 1..(i - 1) : q \in 1..((i - 1) - 1 + 1) /\ 1 + q - 1 = q
    BY <1>1
  <2> QED
    BY <1>1, <2>1, <2>2
<1>3. /\ u \in Seq(T) /\ Len(u) = Len(list) - i
      /\ \A q \in 1..(Len(list) - i) : u[q] = list[i + q]
  <2>1. /\ u \in Seq(T)
        /\ Len(u) = IF i + 1 <= Len(list) THEN Len(list) - (i + 1) + 1 ELSE 0
        /\ \A q \in 1..(Len(list) - (i + 1) + 1) : u[q] = list[(i + 1) + q - 1]
    BY <1>1, SubSeqProperties
  <2>2. \A q \in 1..(Len(list) - i) : q \in 1..(Len(list) - (i + 1) + 1) /\ (i + 1) + q - 1 = i + q
    BY <1>1
  <2> QED
    BY <1>1, <2>1, <2>2
<1>4. <<c>> \in Seq(T) /\ Len(<<c>>) = 1 /\ <<c>>[1] = c
  OBVIOUS
<1> DEFINE one == <<c>>
           w == s \o one
           v == w \o A
<1> HIDE DEF s, u, one
<1>5. /\ v \in Seq(T) /\ Len(v) = i + Len(A)
      /\ \A q \in 1..(i + Len(A)) :
           v[q] = IF q <= i - 1 THEN s[q] ELSE IF q <= i THEN one[q - (i - 1)] ELSE A[q - i]
  <2>1. one \in Seq(T) /\ Len(one) = 1
    BY <1>4 DEF one
  <2>2. /\ w \in Seq(T) /\ Len(w) = i
        /\ \A q \in 1..i : w[q] = IF q <= i - 1 THEN s[q] ELSE one[q - (i - 1)]
    <3>1. /\ w \in Seq(T) /\ Len(w) = Len(s) + Len(one)
          /\ \A q \in 1..(Len(s) + Len(one)) : w[q] = IF q <= Len(s) THEN s[q] ELSE one[q - Len(s)]
      BY <1>2, <2>1, ConcatProperties
    <3> QED
      <4>1. Len(s) = i - 1 /\ Len(s) + Len(one) = i
        BY <1>1, <1>2, <2>1
      <4> HIDE DEF w
      <4> QED
        BY <3>1, <4>1
  <2> HIDE DEF w
  <2>3. /\ v \in Seq(T) /\ Len(v) = Len(w) + Len(A)
        /\ \A q \in 1..(Len(w) + Len(A)) : v[q] = IF q <= Len(w) THEN w[q] ELSE A[q - Len(w)]
    BY <2>2, ConcatProperties
  <2> HIDE DEF v
  <2>4. ASSUME NEW q \in 1..(i + Len(A))
        PROVE  v[q] = IF q <= i - 1 THEN s[q] ELSE IF q <= i THEN one[q - (i - 1)] ELSE A[q - i]
    <3>1. v[q] = IF q <= i THEN w[q] ELSE A[q - i]
      BY <2>2, <2>3
    <3>2. q <= i => w[q] = IF q <= i - 1 THEN s[q] ELSE one[q - (i - 1)]
      BY <1>1, <2>2
    <3>3. q <= i - 1 => q <= i
      BY <1>1
    <3> QED
      BY <3>1, <3>2, <3>3
  <2> QED
    BY <2>2, <2>3, <2>4
<1>6. r = v \o u
  BY DEF Splice, s, u, one
<1> HIDE DEF w, v
<1>7. /\ r \in Seq(T) /\ Len(r) = (i + Len(A)) + Len(u)
      /\ \A q \in 1..((i + Len(A)) + Len(u)) :
           r[q] = IF q <= i + Len(A) THEN v[q] ELSE u[q - (i + Len(A))]
  <2>1. /\ v \o u \in Seq(T) /\ Len(v \o u) = Len(v) + Len(u)
        /\ \A q \in 1..(Len(v) + Len(u)) : (v \o u)[q] = IF q <= Len(v) THEN v[q] ELSE u[q - Len(v)]
    BY <1>3, <1>5, ConcatProperties
  <2> QED
    BY <1>5, <1>6, <2>1
<1> HIDE DEF r
<1>8. Len(r) = Len(list) + Len(A)
  BY <1>1, <1>3, <1>7
<1>9. r[i] = c
  <2>1. i \in 1..((i + Len(A)) + Len(u)) /\ i \in 1..(i + Len(A)) /\ i <= i + Len(A)
    BY <1>1, <1>3
  <2>2. ~(i <= i - 1) /\ i <= i /\ i - (i - 1) = 1
    BY <1>1
  <2> QED
    BY <1>4, <1>5, <1>7, <2>1, <2>2 DEF one
<1>10. ASSUME NEW p \in 1..Len(A) PROVE r[i + p] = A[p]
  <2>1. i + p \in 1..((i + Len(A)) + Len(u)) /\ i + p \in 1..(i + Len(A)) /\ i + p <= i + Len(A)
    BY <1>1, <1>3
  <2>2. ~(i + p <= i - 1) /\ ~(i + p <= i) /\ (i + p) - i = p
    BY <1>1
  <2> QED
    BY <1>5, <1>7, <2>1, <2>2
<1>11. ASSUME NEW q \in 1..Len(r), q < i \/ q > i + Len(A) PROVE r[q] = list[Origin(q, i, A)]
  <2>1. q \in 1..((i + Len(A)) + Len(u))
    BY <1>7
  <2>2. CASE q < i
    <3>1. q <= i + Len(A) /\ q \in 1..(i + Len(A)) /\ q <= i - 1 /\ q \in 1..(i - 1) /\ q <= i
      BY <1>1, <2>2
    <3> QED
      BY <1>2, <1>5, <1>7, <2>1, <3>1 DEF Origin
  <2>3. CASE q > i + Len(A)
    <3>1. /\ ~(q <= i + Len(A)) /\ ~(q <= i)
          /\ q - (i + Len(A)) \in 1..(Len(list) - i) /\ i + (q - (i + Len(A))) = q - Len(A)
      BY <1>1, <1>8, <2>3
    <3> QED
      BY <1>3, <1>7, <2>1, <3>1 DEF Origin
  <2> QED
    BY <1>11, <2>2, <2>3
<1> QED
  BY <1>7, <1>8, <1>9, <1>10, <1>11 DEF r

\* Containers of messages, in the order of the answer or in the other one.
LEMMA Inserted ==
  ASSUME NEW messages \in Seq(1..MaxMessages), MaxMessages \in Nat
  PROVE  \A list \in {messages, Reverse(messages)} :
           /\ AsContainers(list) \in Seq(Container) /\ Len(AsContainers(list)) = Len(messages)
           /\ \A p \in 1..Len(messages) : /\ AsContainers(list)[p].kind = "message"
                                          /\ AsContainers(list)[p].id \in Ids(messages)
           /\ \A m \in Ids(messages) : \E p \in 1..Len(messages) : AsContainers(list)[p].id = m
<1>1. /\ Len(messages) \in Nat /\ DOMAIN messages = 1..Len(messages)
      /\ \A p \in 1..Len(messages) : messages[p] \in 1..MaxMessages
  BY LenProperties, ElementOfSeq
<1>2. Reverse(messages) = [p \in 1..Len(messages) |-> messages[(Len(messages) - p) + 1]]
  BY DEF Reverse
<1>3. \A p \in 1..Len(messages) : (Len(messages) - p) + 1 \in 1..Len(messages)
  BY <1>1
<1>4. /\ DOMAIN Reverse(messages) = 1..Len(messages)
      /\ \A p \in 1..Len(messages) : /\ Reverse(messages)[p] = messages[(Len(messages) - p) + 1]
                                     /\ Reverse(messages)[p] \in 1..MaxMessages
  BY <1>1, <1>2, <1>3
<1>5. ASSUME NEW list \in {messages, Reverse(messages)}
      PROVE  /\ DOMAIN list = 1..Len(messages)
             /\ \A p \in 1..Len(messages) : list[p] \in 1..MaxMessages /\ list[p] \in Ids(messages)
             /\ \A m \in Ids(messages) : \E p \in 1..Len(messages) : list[p] = m
  <2>1. CASE list = messages
    BY <1>1, <2>1 DEF Ids
  <2>2. CASE list = Reverse(messages)
    <3>1. \A p \in 1..Len(messages) : list[p] \in 1..MaxMessages /\ list[p] \in Ids(messages)
      BY <1>1, <1>3, <1>4, <2>2 DEF Ids
    <3>2. ASSUME NEW m \in Ids(messages) PROVE \E p \in 1..Len(messages) : list[p] = m
      <4>1. PICK k \in 1..Len(messages) : m = messages[k]
        BY <1>1 DEF Ids
      <4> DEFINE p == (Len(messages) - k) + 1
      <4>2. p \in 1..Len(messages) /\ (Len(messages) - p) + 1 = k
        BY <1>1
      <4> HIDE DEF p
      <4>3. list[p] = m
        BY <1>4, <2>2, <4>1, <4>2
      <4> QED
        BY <4>2, <4>3
    <3> QED
      BY <1>4, <2>2, <3>1, <3>2
  <2> QED
    BY <2>1, <2>2
<1>6. ASSUME NEW list \in {messages, Reverse(messages)}
      PROVE  /\ AsContainers(list) \in Seq(Container) /\ Len(AsContainers(list)) = Len(messages)
             /\ \A p \in 1..Len(messages) : /\ AsContainers(list)[p].kind = "message"
                                             /\ AsContainers(list)[p].id \in Ids(messages)
             /\ \A m \in Ids(messages) : \E p \in 1..Len(messages) : AsContainers(list)[p].id = m
  <2> DEFINE A == AsContainers(list)
  <2>1. A = [p \in 1..Len(messages) |-> MessageId(list[p])]
    BY <1>5 DEF AsContainers
  <2>2. \A p \in 1..Len(messages) : MessageId(list[p]) \in Container
    <3>1. SUFFICES ASSUME NEW p \in 1..Len(messages) PROVE MessageId(list[p]) \in Container
      OBVIOUS
    <3>2. list[p] \in 0..MaxMessages
      <4>1. list[p] \in 1..MaxMessages
        BY <1>5
      <4> QED
        BY <4>1
    <3> QED
      BY <3>2 DEF MessageId, Container
  <2>3. \A p \in 1..Len(messages) : A[p].kind = "message" /\ A[p].id = list[p]
    BY <2>1 DEF MessageId
  <2>4. A \in Seq(Container) /\ Len(A) = Len(messages)
    BY <1>1, <2>1, <2>2, IsASeq
  <2> HIDE DEF A
  <2>5. /\ \A p \in 1..Len(messages) : A[p].kind = "message" /\ A[p].id \in Ids(messages)
        /\ \A m \in Ids(messages) : \E p \in 1..Len(messages) : A[p].id = m
    <3>1. /\ \A p \in 1..Len(messages) : list[p] \in Ids(messages)
          /\ \A m \in Ids(messages) : \E p \in 1..Len(messages) : list[p] = m
      BY <1>5
    <3> QED
      BY <2>3, <3>1
  <2> QED
    BY <2>4, <2>5 DEF A
<1> QED
  BY <1>6

\* A list that shows the messages ids and no other, loads from them only, and marks each
\* end at most once.
ListInv(list, ids) ==
  /\ list \in Seq(Container)
  /\ \A i \in DOMAIN list : list[i].kind \in {"message", "more"} => list[i].id \in ids
  /\ \A m \in ids : \E i \in DOMAIN list : list[i].kind = "message" /\ list[i].id = m
  /\ \A i, j \in DOMAIN list :
       /\ list[i].kind # "message"
       /\ list[j].kind # "message"
       /\ list[i].older = list[j].older
       => i = j

\* A LoadMore replaced by messages and a container for its direction leaves such a list.
LEMMA SpliceKeeps ==
  ASSUME NEW list, NEW ids, ListInv(list, ids), NEW i \in DOMAIN list, list[i].kind = "more",
         NEW c \in Container, c.kind # "message", c.older = list[i].older,
         NEW more, c.kind = "more" => c.id \in more,
         NEW A \in Seq(Container),
         \A p \in 1..Len(A) : A[p].kind = "message" /\ A[p].id \in more,
         \A m \in more : \E p \in 1..Len(A) : A[p].id = m
  PROVE  ListInv(Splice(list, i, c, A), ids \cup more)
<1> DEFINE r == Splice(list, i, c, A)
<1>0. list \in Seq(Container)
  BY DEF ListInv
<1>1. Len(list) \in Nat /\ DOMAIN list = 1..Len(list) /\ i \in 1..Len(list) /\ Len(A) \in Nat
  BY <1>0, LenProperties
<1>2. /\ r \in Seq(Container) /\ Len(r) = Len(list) + Len(A)
      /\ r[i] = c
      /\ \A p \in 1..Len(A) : r[i + p] = A[p]
      /\ \A q \in 1..Len(r) : (q < i \/ q > i + Len(A)) => r[q] = list[Origin(q, i, A)]
  BY <1>0, Spliced
<1> HIDE DEF r
<1>3. DOMAIN r = 1..Len(r)
  BY <1>2, LenProperties
<1>4. ASSUME NEW q \in 1..Len(r), q > i, q <= i + Len(A)
      PROVE  r[q].kind = "message" /\ r[q].id \in more
  <2>1. q - i \in 1..Len(A) /\ i + (q - i) = q
    BY <1>1, <1>4
  <2>2. r[i + (q - i)] = A[q - i]
    BY <1>2, <2>1
  <2> QED
    BY <2>1, <2>2
<1>5. ASSUME NEW q \in 1..Len(r), ~(q > i /\ q <= i + Len(A))
      PROVE  /\ Origin(q, i, A) \in DOMAIN list
             /\ q # i => r[q] = list[Origin(q, i, A)]
             /\ q = i => Origin(q, i, A) = i
  <2>1. Origin(q, i, A) \in 1..Len(list)
    BY <1>1, <1>2, <1>5 DEF Origin
  <2>2. q # i => (q < i \/ q > i + Len(A))
    BY <1>1, <1>2, <1>5
  <2>3. q = i => Origin(q, i, A) = i
    BY <1>1 DEF Origin
  <2> QED
    BY <1>1, <1>2, <2>1, <2>2, <2>3
<1>6. ASSUME NEW q \in 1..Len(r), r[q].kind \in {"message", "more"} PROVE r[q].id \in ids \cup more
  <2>1. CASE q > i /\ q <= i + Len(A)
    BY <1>4, <2>1
  <2>2. CASE q = i
    BY <1>2, <1>6, <2>2
  <2>3. CASE ~(q > i /\ q <= i + Len(A)) /\ q # i
    <3>1. Origin(q, i, A) \in DOMAIN list /\ r[q] = list[Origin(q, i, A)]
      BY <1>5, <2>3
    <3> QED
      BY <1>6, <3>1 DEF ListInv
  <2> QED
    BY <2>1, <2>2, <2>3
<1>7. ASSUME NEW m \in ids \cup more PROVE \E q \in 1..Len(r) : r[q].kind = "message" /\ r[q].id = m
  <2>1. CASE m \in more
    <3>1. PICK p \in 1..Len(A) : A[p].id = m
      BY <2>1
    <3>2. i + p \in 1..Len(r)
      BY <1>1, <1>2
    <3>3. r[i + p] = A[p]
      BY <1>2
    <3> QED
      BY <3>1, <3>2, <3>3
  <2>2. CASE m \in ids
    <3>1. PICK j \in DOMAIN list : list[j].kind = "message" /\ list[j].id = m
      BY <2>2 DEF ListInv
    <3> DEFINE q == IF j < i THEN j ELSE j + Len(A)
    <3>2. j \in 1..Len(list) /\ j # i
      BY <1>1, <3>1
    <3>3. /\ q \in 1..Len(r) /\ (q < i \/ q > i + Len(A))
          /\ Origin(q, i, A) = j
      BY <1>1, <1>2, <3>2 DEF Origin
    <3> HIDE DEF q
    <3>4. r[q] = list[j]
      BY <1>2, <3>3
    <3> QED
      BY <3>1, <3>3, <3>4
  <2> QED
    BY <2>1, <2>2
<1>8. ASSUME NEW q \in 1..Len(r), r[q].kind # "message"
      PROVE  /\ ~(q > i /\ q <= i + Len(A))
             /\ Origin(q, i, A) \in DOMAIN list
             /\ list[Origin(q, i, A)].kind # "message"
             /\ list[Origin(q, i, A)].older = r[q].older
  <2>1. ~(q > i /\ q <= i + Len(A))
    BY <1>4, <1>8
  <2>2. CASE q = i
    BY <1>2, <1>5, <2>1, <2>2
  <2>3. CASE q # i
    BY <1>5, <1>8, <2>1, <2>3
  <2> QED
    BY <1>5, <2>1, <2>2, <2>3
<1>9. ASSUME NEW q \in 1..Len(r), NEW k \in 1..Len(r),
             r[q].kind # "message", r[k].kind # "message", r[q].older = r[k].older
      PROVE  q = k
  <2>1. Origin(q, i, A) = Origin(k, i, A)
    BY <1>8, <1>9 DEF ListInv
  <2>2. ~(q > i /\ q <= i + Len(A)) /\ ~(k > i /\ k <= i + Len(A))
    BY <1>8, <1>9
  <2>3. q \in Int /\ k \in Int /\ i \in Int
    BY <1>1, <1>2
  <2> QED
    BY <1>1, <2>1, <2>2, <2>3 DEF Origin
<1> QED
  BY <1>2, <1>3, <1>6, <1>7, <1>9 DEF ListInv, r

\* So is the list made of a first answer.
LEMMA InitialKeeps ==
  ASSUME NEW messages \in Seq(1..MaxMessages), MaxMessages \in Nat, made \in Nat
  PROVE  ListInv(InitialList(messages), Ids(messages))
<1> DEFINE A == AsContainers(Reverse(messages))
           o == OlderEnd(messages)
           e == NewerEnd(messages)
           r == InitialList(messages)
<1>1. /\ Len(messages) \in Nat /\ DOMAIN messages = 1..Len(messages)
      /\ \A p \in 1..Len(messages) : messages[p] \in 1..MaxMessages
  BY LenProperties, ElementOfSeq
<1>2. CASE messages = << >>
  <2>1. Ids(messages) = {}
    BY <1>2 DEF Ids
  <2>2. r = <<NoMore(TRUE)>>
    BY <1>2 DEF InitialList
  <2>3. NoMore(TRUE) \in Container /\ NoMore(TRUE).kind = "end"
    BY DEF NoMore, Container
  <2> HIDE DEF r
  <2> DEFINE e1 == NoMore(TRUE)
  <2> HIDE DEF e1
  <2>4. r \in Seq(Container) /\ DOMAIN r = 1..1 /\ r[1] = e1
    <3>1. r = <<e1>> /\ e1 \in Container
      BY <2>2, <2>3 DEF e1
    <3> QED
      BY <3>1
  <2> QED
    <3>1. e1.kind = "end"
      BY <2>3 DEF e1
    <3>2. \A i \in DOMAIN r : i = 1 /\ r[i].kind = "end"
      BY <2>4, <3>1
    <3>3. ListInv(r, {})
      BY <2>4, <3>2 DEF ListInv
    <3> QED
      BY <2>1, <3>3 DEF r
<1>3. CASE messages # << >>
  <2>1. Len(messages) >= 1
    BY <1>1, <1>3, EmptySeq
  <2>2. /\ messages[1] \in 0..MaxMessages /\ Last(messages) \in 0..MaxMessages
        /\ messages[1] \in Ids(messages) /\ Last(messages) \in Ids(messages)
    <3>1. 1 \in 1..Len(messages) /\ Len(messages) \in 1..Len(messages)
      BY <1>1, <2>1
    <3>2. messages[1] \in 1..MaxMessages /\ messages[Len(messages)] \in 1..MaxMessages
      BY <1>1, <3>1
    <3>3. messages[1] \in Ids(messages) /\ messages[Len(messages)] \in Ids(messages)
      BY <1>1, <3>1 DEF Ids
    <3>4. Last(messages) = messages[Len(messages)]
      BY DEF Last
    <3> QED
      BY <3>2, <3>3, <3>4
  <2>3. /\ o \in Container /\ o.kind # "message" /\ o.older = TRUE
        /\ o.kind = "more" => o.id \in Ids(messages)
    BY <2>2 DEF OlderEnd, LoadMore, NoMore, Container
  <2>4. /\ e \in Container /\ e.kind # "message" /\ e.older = FALSE
        /\ e.kind = "more" => e.id \in Ids(messages)
    BY <2>2 DEF NewerEnd, LoadMore, NoMore, Container
  <2>5. /\ A \in Seq(Container) /\ Len(A) = Len(messages)
        /\ \A p \in 1..Len(A) : A[p].kind = "message" /\ A[p].id \in Ids(messages)
        /\ \A m \in Ids(messages) : \E p \in 1..Len(A) : A[p].id = m
    BY Inserted
  <2> HIDE DEF A
  <2>6. r = <<o>> \o A \o <<e>>
    BY <1>3 DEF InitialList, A
  <2> DEFINE n == Len(A)
  <2> HIDE DEF o, e, r
  <2>7. n \in Nat
    BY <1>1, <2>5
  <2>8. /\ <<o>> \o A \in Seq(Container) /\ Len(<<o>> \o A) = 1 + n
        /\ (<<o>> \o A)[1] = o
        /\ \A p \in 1..n : (<<o>> \o A)[1 + p] = A[p]
    BY <2>3, <2>5, <2>7
  <2> DEFINE v == <<o>> \o A
  <2>9. r = v \o <<e>>
    BY <2>6
  <2> HIDE DEF v
  <2>10. /\ v \in Seq(Container) /\ Len(v) = 1 + n /\ v[1] = o /\ \A p \in 1..n : v[1 + p] = A[p]
    BY <2>8 DEF v
  <2>11. /\ r \in Seq(Container) /\ Len(r) = n + 2 /\ r[n + 2] = e
         /\ \A q \in 1..(n + 1) : r[q] = v[q]
    BY <2>4, <2>7, <2>9, <2>10
  <2>12. r[1] = o /\ \A p \in 1..n : 1 + p \in 1..(n + 2) /\ r[1 + p] = A[p]
    <3>1. 1 \in 1..(n + 1) /\ \A p \in 1..n : 1 + p \in 1..(n + 1) /\ 1 + p \in 1..(n + 2)
      BY <2>7
    <3> QED
      BY <2>10, <2>11, <3>1
  <2>13. DOMAIN r = 1..(n + 2)
    BY <2>7, <2>11, LenProperties
  <2>14. ASSUME NEW q \in 1..(n + 2), q # 1, q # n + 2
         PROVE  r[q].kind = "message" /\ r[q].id \in Ids(messages)
    <3>1. q - 1 \in 1..n /\ 1 + (q - 1) = q
      BY <2>7, <2>14
    <3>2. r[1 + (q - 1)] = A[q - 1]
      BY <2>12, <3>1
    <3> QED
      BY <2>5, <3>1, <3>2
  <2>15. ASSUME NEW m \in Ids(messages)
         PROVE  \E q \in 1..(n + 2) : r[q].kind = "message" /\ r[q].id = m
    <3>1. PICK p \in 1..n : A[p].id = m
      BY <2>5
    <3> QED
      BY <2>5, <2>12, <3>1
  <2>16. ASSUME NEW q \in 1..(n + 2), NEW k \in 1..(n + 2),
                r[q].kind # "message", r[k].kind # "message", r[q].older = r[k].older
         PROVE  q = k
    <3>1. (q = 1 \/ q = n + 2) /\ (k = 1 \/ k = n + 2)
      BY <2>14, <2>16
    <3> QED
      BY <2>3, <2>4, <2>11, <2>12, <2>16, <3>1
  <2>17. ASSUME NEW q \in 1..(n + 2), r[q].kind \in {"message", "more"}
         PROVE  r[q].id \in Ids(messages)
    BY <2>3, <2>4, <2>11, <2>12, <2>14, <2>17
  <2> QED
    BY <2>11, <2>13, <2>15, <2>16, <2>17 DEF ListInv, r
<1> QED
  BY <1>2, <1>3

\* The last message of a chat is the largest of its ids.
LEMMA NewestIsId ==
  ASSUME NEW n \in Nat, NEW S \in SUBSET (1..n)
  PROVE  NewestOf(S) \in 0..n
<1>1. CASE S = {}
  BY <1>1 DEF NewestOf
<1>2. CASE S # {}
  <2>1. IsFiniteSet(1..n) /\ S \in SUBSET Int
    BY FS_Interval
  <2>2. IsFiniteSet(S) /\ S \in SUBSET Int
    BY <2>1, FS_Subset, Zenon
  <2> DEFINE s == NewestFirst(S)
  <2>3. /\ s \in Seq(S) /\ Ids(s) = S
        /\ \A i, j \in DOMAIN s : i < j => s[i] > s[j]
    BY <2>2, Sorted
  <2> HIDE DEF s
  <2>4. Len(s) \in Nat /\ DOMAIN s = 1..Len(s)
    BY <2>3, LenProperties
  <2>5. 1 \in DOMAIN s
    <3>1. PICK i \in DOMAIN s : TRUE
      BY <1>2, <2>3 DEF Ids
    <3> QED
      BY <2>4, <3>1
  <2>6. s[1] \in S
    BY <2>3, <2>5 DEF Ids
  <2>7. \A y \in S : s[1] >= y
    <3>1. SUFFICES ASSUME NEW y \in S PROVE s[1] >= y
      OBVIOUS
    <3>2. PICK j \in DOMAIN s : y = s[j]
      BY <2>3 DEF Ids
    <3>3. j = 1 \/ 1 < j
      BY <2>4, <3>2
    <3>4. s[1] \in Int /\ y \in Int
      BY <2>2, <2>6
    <3> QED
      BY <2>3, <2>5, <3>2, <3>3, <3>4
  <2>8. Max(S) \in S
    BY <2>6, <2>7 DEF Max
  <2>9. NewestOf(S) \in 1..n
    BY <1>2, <2>8, Zenon DEF NewestOf
  <2> QED
    BY <2>9
<1> QED
  BY <1>1, <1>2

-----------------------------------------------------------------------------
(* The invariant *)

LoadMores == {c \in Container : c.kind = "more"}

IInv ==
  /\ TypeOK
  /\ data \in SUBSET (1..newest)
  /\ asked \in Seq(LoadMores)
  /\ ListInv(containers, data)
  /\ NoGap

\* What holds of every answer in such a state.
LEMMA ChatFacts ==
  ASSUME TypeOK
  PROVE  /\ history \in SUBSET (Int \ {0}) /\ history \in SUBSET Int /\ IsFiniteSet(history)
         /\ history \in SUBSET (1..MaxMessages) /\ newest \in Nat /\ newest <= MaxMessages
         /\ \A m, offset, limit : History(m, offset, limit) \in Seq(1..MaxMessages)
<1>1. newest \in Nat /\ newest <= MaxMessages /\ MaxMessages \in Nat /\ history \in SUBSET (1..newest)
  BY ChatBoundsAssumption DEF TypeOK
<1>2. 1..newest \in SUBSET (Int \ {0}) /\ 1..newest \in SUBSET (1..MaxMessages)
  BY <1>1
<1>3. IsFiniteSet(1..newest)
  BY <1>1, FS_Interval
<1>4. IsFiniteSet(history)
  BY <1>1, <1>3, FS_Subset, Zenon
<1>5. /\ history \in SUBSET (Int \ {0}) /\ history \in SUBSET Int
      /\ history \in SUBSET (1..MaxMessages)
  BY <1>1, <1>2
<1>6. ASSUME NEW m, NEW offset, NEW limit PROVE History(m, offset, limit) \in Seq(1..MaxMessages)
  <2>1. History(m, offset, limit) \in Seq(history)
    BY <1>4, <1>5, Answer
  <2> QED
    BY <1>5, <2>1, SeqMonotonic
<1> QED
  BY <1>1, <1>4, <1>5, <1>6

\* An answer about a message that is shown joins what is shown: no message is left out
\* between the two.
LEMMA AnswerJoins ==
  ASSUME TypeOK, data \in SUBSET (1..newest), NoGap,
         NEW m \in data, NEW offset \in Int, NEW limit \in Int,
         NEW h \in history, NEW a \in data \cup Around(m, offset, limit),
         NEW b \in data \cup Around(m, offset, limit), a < h, h < b
  PROVE  h \in data \cup Around(m, offset, limit)
<1> DEFINE answer == Around(m, offset, limit)
<1>1. SUFFICES ASSUME h \notin answer, h # m PROVE h \in data
  OBVIOUS
<1>2. /\ history \in SUBSET (Int \ {0}) /\ IsFiniteSet(history) /\ history \in SUBSET Int
      /\ newest \in Nat
  BY ChatFacts
<1>3. answer \in SUBSET history
  BY <1>2, Answer
<1>4. a \in Int /\ b \in Int /\ h \in Int /\ m \in Int /\ m # 0
  <2>1. 1..newest \in SUBSET (Int \ {0})
    BY <1>2
  <2> QED
    BY <1>2, <1>3, <2>1
<1>5. \A x \in answer : (h \in Newer(m) => x < h) /\ (h \notin Newer(m) => h < x)
  BY <1>1, <1>2, <1>4, LeftOut
<1>6. h \in Newer(m) <=> h > m
  BY <1>4 DEF Newer, Above
<1> HIDE DEF answer
<1>7. CASE h > m
  <2>1. b \in data
    BY <1>4, <1>5, <1>6, <1>7 DEF answer
  <2> QED
    BY <1>4, <1>7, <2>1 DEF NoGap
<1>8. CASE ~(h > m)
  <2>1. a \in data
    BY <1>4, <1>5, <1>6, <1>8 DEF answer
  <2>2. h < m
    BY <1>1, <1>4, <1>8
  <2> QED
    BY <2>1, <2>2 DEF NoGap
<1> QED
  BY <1>7, <1>8

\* A first answer alone has no gap.
LEMMA AnswerIsWhole ==
  ASSUME TypeOK, NEW m \in Int, NEW offset \in Int, NEW limit \in Int,
         NEW h \in history, NEW a \in Around(m, offset, limit),
         NEW b \in Around(m, offset, limit), a < h, h < b
  PROVE  h \in Around(m, offset, limit)
<1> DEFINE answer == Around(m, offset, limit)
<1>1. SUFFICES ASSUME h \notin answer PROVE FALSE
  OBVIOUS
<1>2. /\ history \in SUBSET (Int \ {0}) /\ IsFiniteSet(history) /\ history \in SUBSET Int
  BY ChatFacts
<1>3. answer \in SUBSET history
  BY <1>2, Answer
<1>4. a \in Int /\ b \in Int /\ h \in Int
  BY <1>2, <1>3
<1>5. \A x \in answer : (h \in Newer(m) => x < h) /\ (h \notin Newer(m) => h < x)
  BY <1>1, <1>2, LeftOut
<1> QED
  BY <1>4, <1>5

\* What RemoveAt keeps.
LEMMA Removed ==
  ASSUME NEW T, NEW s \in Seq(T), NEW k \in DOMAIN s
  PROVE  RemoveAt(s, k) \in Seq(T)
<1>1. Len(s) \in Nat /\ k \in 1..Len(s)
  BY LenProperties
<1>2. SubSeq(s, 1, k - 1) \in Seq(T) /\ SubSeq(s, k + 1, Len(s)) \in Seq(T)
  BY <1>1, SubSeqProperties
<1> QED
  BY <1>2, ConcatProperties DEF RemoveAt

\* The LoadMore the page asks at is one of the list's.
LEMMA MarkerIsListed ==
  ASSUME IInv, NEW older \in BOOLEAN, Markers(older) # {}
  PROVE  Marker(older) \in LoadMores
<1>1. PICK i \in Markers(older) : TRUE
  OBVIOUS
<1>2. containers \in Seq(Container)
  BY DEF IInv, TypeOK
<1>3. DOMAIN containers \in SUBSET Int
  <2>1. DOMAIN containers = 1..Len(containers) /\ Len(containers) \in Nat
    BY <1>2, LenProperties
  <2> QED
    BY <2>1
<1>4. \A j \in Markers(older) : i = j
  BY <1>1 DEF Markers, IInv, ListInv
<1>5. i \in Int
  BY <1>3 DEF Markers
<1>6. i \in Markers(older) /\ \A j \in Markers(older) : i =< j
  BY <1>4, <1>5
<1>7. Min(Markers(older)) \in Markers(older)
  BY <1>6 DEF Min
<1> QED
  BY <1>2, <1>7, ElementOfSeq DEF Marker, Markers, LoadMores

\* The initial states: nothing is loaded.
LEMMA InitInv == Init => IInv
<1>1. SUFFICES ASSUME Init PROVE IInv
  OBVIOUS
<1>2. MaxMessages \in Nat /\ MaxDeletions \in Nat
  BY ChatBoundsAssumption
<1>3. TypeOK
  <2>1. /\ newest \in 0..MaxMessages /\ history \in SUBSET (1..newest)
        /\ deleted \in 0..MaxDeletions /\ from \in 0..MaxMessages /\ lastMessage \in 0..MaxMessages
    BY <1>1, <1>2 DEF Init
  <2>2. /\ uiReady \in [held : BOOLEAN, completed : BOOLEAN]
        /\ containers \in Seq(Container) /\ asked \in Seq(Container)
        /\ data \in SUBSET (1..MaxMessages) /\ made \in Nat
    BY <1>1 DEF Init
  <2> QED
    BY <1>1, <2>1, <2>2 DEF Init, TypeOK
<1>4. ListInv(containers, data)
  BY <1>1 DEF Init, ListInv
<1>5. asked \in Seq(LoadMores) /\ data \in SUBSET (1..newest) /\ NoGap
  BY <1>1 DEF Init, NoGap
<1> QED
  BY <1>3, <1>4, <1>5 DEF IInv

\* The first answer replaces whatever there was.
LEMMA MessagesLoadedInv == ASSUME IInv, MessagesLoaded PROVE IInv'
<1> DEFINE messages == History(from, 0, InitialLimit)
           answer == Around(from, 0, InitialLimit)
<1>1. TypeOK /\ InitialLimit \in Int /\ from \in Int
  BY LimitsAssumption DEF IInv, TypeOK
<1>2. /\ history \in SUBSET Int /\ IsFiniteSet(history) /\ history \in SUBSET (1..newest)
      /\ messages \in Seq(1..MaxMessages)
  BY <1>1, ChatFacts DEF TypeOK
<1>3. Ids(messages) = answer /\ answer \in SUBSET history
  BY <1>2, Answer
<1>4. UNCHANGED <<history, newest, deleted, from, uiReady, lastMessage, blocState, asked, closed>>
  BY DEF MessagesLoaded, chat
<1>5. containers' = InitialList(messages) /\ data' = answer
  BY <1>3 DEF MessagesLoaded
<1>6. made' = 2 /\ opening' \in {"page", "type"}
  BY DEF MessagesLoaded
<1>7. ListInv(containers', data')
  BY <1>1, <1>2, <1>3, <1>5, InitialKeeps, ChatBoundsAssumption DEF TypeOK
<1> HIDE DEF messages, answer
<1>8. TypeOK'
  <2>1. containers' \in Seq(Container)
    BY <1>7 DEF ListInv
  <2>2. data' \in SUBSET (1..MaxMessages)
    BY <1>1, <1>3, <1>5, ChatFacts
  <2> QED
    BY <1>1, <1>4, <1>6, <2>1, <2>2 DEF TypeOK
<1>9. data' \in SUBSET (1..newest')
  BY <1>2, <1>3, <1>4, <1>5
<1>10. NoGap'
  BY <1>1, <1>4, <1>5, AnswerIsWhole DEF NoGap, answer
<1> QED
  BY <1>4, <1>7, <1>8, <1>9, <1>10 DEF IInv

\* An answer to a LoadMore that is still there joins the list at its place.
LEMMA MoreLoadedInv == ASSUME IInv, NEW k \in DOMAIN asked, MoreLoaded(k) PROVE IInv'
<1> DEFINE marker == asked[k]
           messages == AnswerFor(marker)
           answer == Around(marker.id, OffsetOf(marker), LoadMoreCount)
           inserted == IF marker.older THEN messages ELSE Reverse(messages)
           next == NextContainer(marker, messages)
           A == AsContainers(inserted)
<1>1. TypeOK /\ LoadMoreCount \in Int /\ asked \in Seq(LoadMores)
  BY LimitsAssumption DEF IInv
<1>2. marker \in LoadMores
  BY <1>1, ElementOfSeq, LenProperties
<1>3. marker \in Container /\ marker.kind = "more" /\ marker.older \in BOOLEAN /\ marker.id \in Int
  BY <1>2 DEF LoadMores, Container
<1>4. OffsetOf(marker) \in Int
  BY <1>1, <1>3 DEF OffsetOf
<1>5. /\ history \in SUBSET Int /\ IsFiniteSet(history) /\ history \in SUBSET (1..newest)
      /\ messages \in Seq(1..MaxMessages)
  BY <1>1, ChatFacts DEF TypeOK, AnswerFor
<1>6. Ids(messages) = answer /\ answer \in SUBSET history
  BY <1>5, Answer DEF AnswerFor
<1>7. /\ UNCHANGED <<history, newest, deleted, opening, from, uiReady, lastMessage, blocState, closed>>
      /\ containers' = Listed(containers, marker, messages)
      /\ data' = Learned(data, containers, marker, messages)
      /\ made' = IF containers' # containers THEN made + 1 ELSE made
      /\ asked' = RemoveAt(asked, k)
  BY DEF MoreLoaded, chat
<1>8. asked' \in Seq(LoadMores)
  BY <1>1, <1>7, Removed
<1>9. asked' \in Seq(Container)
  <2>1. LoadMores \in SUBSET Container
    BY DEF LoadMores
  <2> QED
    BY <1>8, <2>1, SeqMonotonic
<1>10. made' \in Nat
  BY <1>1, <1>7 DEF TypeOK
<1>11. CASE Contains(containers, marker)
  <2> DEFINE i == CHOOSE i \in DOMAIN containers : containers[i] = marker
  <2>1. containers \in Seq(Container) /\ ListInv(containers, data) /\ data \in SUBSET (1..newest) /\ NoGap
    BY DEF IInv, ListInv
  <2>2. i \in DOMAIN containers /\ containers[i] = marker
    <3>1. \E j \in DOMAIN containers : containers[j] = marker
      BY <1>11, <2>1, LenProperties DEF Contains
    <3> QED
      BY <3>1
  <2>3. marker.id \in data
    BY <1>3, <2>1, <2>2 DEF ListInv
  <2>4. data' = data \cup answer
    BY <1>6, <1>7, <1>11 DEF Learned
  <2>5. ListInv(containers', data')
    <3>1. CASE messages = << >>
      <4>1. answer = {}
        BY <1>6, <3>1 DEF Ids
      <4>2. containers' = containers
        BY <1>7, <3>1 DEF Listed
      <4>3. data' = data
        BY <2>4, <4>1
      <4> QED
        BY <2>1, <4>2, <4>3
    <3>2. CASE messages # << >>
      <4>1. containers' = Splice(containers, i, next, A)
        BY <1>7, <1>11, <3>2 DEF Listed, Replaced, Splice
      <4>2. inserted \in {messages, Reverse(messages)}
        BY DEF inserted
      <4>3. /\ A \in Seq(Container) /\ Len(A) = Len(messages)
            /\ \A p \in 1..Len(messages) : A[p].kind = "message" /\ A[p].id \in Ids(messages)
            /\ \A m \in Ids(messages) : \E p \in 1..Len(messages) : A[p].id = m
        BY <1>5, <4>2, Inserted, ChatBoundsAssumption
      <4>4. /\ messages[1] \in Ids(messages) /\ Last(messages) \in Ids(messages)
            /\ messages[1] \in 1..MaxMessages /\ Last(messages) \in 1..MaxMessages
        <5>1. Len(messages) \in Nat /\ DOMAIN messages = 1..Len(messages)
          BY <1>5, LenProperties
        <5>2. Len(messages) # 0
          BY <1>5, <3>2, EmptySeq
        <5>3. 1 \in DOMAIN messages /\ Len(messages) \in DOMAIN messages
          BY <5>1, <5>2
        <5> QED
          BY <1>5, <5>1, <5>3, ElementOfSeq DEF Ids, Last
      <4>5. /\ next \in Container /\ next.kind # "message" /\ next.older = marker.older
            /\ next.kind = "more" => next.id \in Ids(messages)
        <5>1. 1..MaxMessages \in SUBSET (0..MaxMessages) /\ made + 1 \in Nat
          BY <1>1, ChatBoundsAssumption DEF TypeOK
        <5>2. messages[1] \in 0..MaxMessages /\ Last(messages) \in 0..MaxMessages
          BY <4>4, <5>1
        <5> DEFINE x == IF marker.older THEN Last(messages) ELSE messages[1]
        <5>3. x \in 0..MaxMessages /\ x \in Ids(messages)
          BY <4>4, <5>2
        <5>4. \/ next = LoadMore(x, marker.older, made + 1)
              \/ next = NoMore(marker.older)
          BY DEF NextContainer
        <5> HIDE DEF x, next, marker, messages
        <5>5. CASE next = LoadMore(x, marker.older, made + 1)
          BY <1>3, <5>1, <5>3, <5>5 DEF LoadMore, Container
        <5>6. CASE next = NoMore(marker.older)
          BY <1>3, <5>6, ChatBoundsAssumption DEF NoMore, Container
        <5> QED
          BY <5>4, <5>5, <5>6
      <4> HIDE DEF marker, messages, answer, inserted, next, A, i
      <4>6. containers[i].kind = "more" /\ next.older = containers[i].older
        BY <1>3, <2>2, <4>5
      <4>7. ListInv(Splice(containers, i, next, A), data \cup Ids(messages))
        BY <2>1, <2>2, <4>3, <4>5, <4>6, SpliceKeeps
      <4> QED
        BY <1>6, <2>4, <4>1, <4>7
    <3> QED
      BY <3>1, <3>2
  <2> HIDE DEF marker, messages, answer, inserted, next, A, i
  <2>6. NoGap'
    <3>1. \A h \in history : (\E a, b \in data \cup answer : a < h /\ h < b) => h \in data \cup answer
      BY <1>1, <1>4, <2>1, <2>3, AnswerJoins DEF answer
    <3> QED
      BY <1>7, <2>4, <3>1 DEF NoGap
  <2>7. data' \in SUBSET (1..newest')
    BY <1>5, <1>6, <1>7, <2>1, <2>4
  <2>8. data' \in SUBSET (1..MaxMessages) /\ containers' \in Seq(Container)
    <3>1. answer \in SUBSET (1..MaxMessages)
      BY <1>1, <1>6, ChatFacts
    <3> QED
      BY <1>1, <2>4, <2>5, <3>1 DEF TypeOK, ListInv
  <2>9. TypeOK'
    BY <1>1, <1>7, <1>9, <1>10, <2>8 DEF TypeOK
  <2> QED
    BY <1>8, <2>5, <2>6, <2>7, <2>9 DEF IInv
<1>12. CASE ~Contains(containers, marker)
  <2>1. containers' = containers /\ data' = data
    BY <1>7, <1>12 DEF Listed, Learned
  <2>2. TypeOK'
    BY <1>1, <1>7, <1>9, <1>10, <2>1 DEF TypeOK
  <2> QED
    BY <1>7, <1>8, <2>1, <2>2 DEF IInv, ListInv, NoGap
<1> QED
  BY <1>11, <1>12

\* The page asks, or a request fails: only what is being handled changes.
LEMMA AskForMoreInv ==
  ASSUME IInv, NEW older \in Directions, AskForMore(older) PROVE IInv'
<1>1. older \in BOOLEAN
  BY DirectionsAssumption
<1>2. /\ UNCHANGED <<history, newest, deleted, opening, from, uiReady, lastMessage, blocState,
                     containers, data, made, closed>>
      /\ asked' = Append(asked, Marker(older)) /\ Markers(older) # {}
  BY DEF AskForMore, chat
<1>3. Marker(older) \in LoadMores
  BY <1>1, <1>2, MarkerIsListed
<1>4. asked \in Seq(LoadMores) /\ TypeOK
  BY DEF IInv
<1>5. asked' \in Seq(LoadMores)
  BY <1>2, <1>3, <1>4, AppendProperties
<1>6. asked' \in Seq(Container)
  <2>1. LoadMores \in SUBSET Container
    BY DEF LoadMores
  <2> QED
    BY <1>5, <2>1, SeqMonotonic
<1>7. TypeOK'
  BY <1>2, <1>4, <1>6 DEF TypeOK
<1> QED
  BY <1>2, <1>5, <1>7 DEF IInv, ListInv, NoGap

LEMMA LoadMoreFailsInv ==
  ASSUME IInv, NEW k \in DOMAIN asked, LoadMoreFails(k) PROVE IInv'
<1>1. /\ UNCHANGED <<history, newest, deleted, opening, from, uiReady, lastMessage,
                     containers, data, made, closed>>
      /\ asked' = RemoveAt(asked, k)
      /\ blocState' = IF closed THEN blocState ELSE "error"
  BY DEF LoadMoreFails, Emit, chat
<1>2. asked \in Seq(LoadMores) /\ TypeOK
  BY DEF IInv
<1>3. asked' \in Seq(LoadMores)
  BY <1>1, <1>2, Removed
<1>4. asked' \in Seq(Container)
  <2>1. LoadMores \in SUBSET Container
    BY DEF LoadMores
  <2> QED
    BY <1>3, <2>1, SeqMonotonic
<1>5. blocState' \in {"loading", "ready", "error"}
  BY <1>1, <1>2 DEF TypeOK
<1>6. TypeOK'
  BY <1>1, <1>2, <1>4, <1>5 DEF TypeOK
<1> QED
  BY <1>1, <1>3, <1>6 DEF IInv, ListInv, NoGap

\* The chat grows at its newest end: a new message is above all that is shown.
LEMMA NewMessageInv == ASSUME IInv, NewMessage PROVE IInv'
<1>1. /\ UNCHANGED <<opening, from, uiReady, blocState, containers, data, asked, made, closed>>
      /\ newest < MaxMessages /\ newest' = newest + 1 /\ history' = history \cup {newest + 1}
      /\ deleted' = deleted
      /\ lastMessage' = IF opening = "chat" THEN lastMessage ELSE NewestOf(history')
  BY DEF NewMessage, ChatChanges
<1>2. TypeOK /\ data \in SUBSET (1..newest) /\ NoGap /\ MaxMessages \in Nat
  BY ChatBoundsAssumption DEF IInv
<1>3. newest \in Nat /\ history \in SUBSET (1..newest) /\ newest + 1 <= MaxMessages
  BY <1>1, <1>2 DEF TypeOK
<1>4. /\ newest' \in Nat /\ newest' <= MaxMessages /\ history' \in SUBSET (1..newest')
      /\ data' \in SUBSET (1..newest')
  <2>1. newest + 1 \in Nat /\ 1..newest \in SUBSET (1..(newest + 1)) /\ newest + 1 \in 1..(newest + 1)
    BY <1>3
  <2> QED
    BY <1>1, <1>2, <1>3, <2>1
<1>5. NewestOf(history') \in 0..newest'
  BY <1>4, NewestIsId
<1>6. lastMessage' \in 0..MaxMessages
  <2>1. NewestOf(history') \in 0..MaxMessages
    BY <1>2, <1>4, <1>5
  <2> QED
    BY <1>1, <1>2, <2>1 DEF TypeOK
<1>7. TypeOK'
  <2>1. newest' \in 0..MaxMessages
    BY <1>2, <1>4
  <2> QED
    BY <1>1, <1>2, <1>4, <1>6, <2>1 DEF TypeOK
<1>8. NoGap'
  <2>1. SUFFICES ASSUME NEW m \in history', NEW a \in data, NEW b \in data, a < m, m < b
                 PROVE  m \in data
    BY <1>1 DEF NoGap
  <2>2. b \in 1..newest
    BY <1>2
  <2>3. m # newest + 1
    BY <1>3, <2>1, <2>2
  <2> QED
    BY <1>1, <1>2, <2>1, <2>3 DEF NoGap
<1> QED
  BY <1>1, <1>4, <1>7, <1>8 DEF IInv, ListInv

\* And loses messages anywhere.
LEMMA DeleteMessageInv == ASSUME IInv, DeleteMessage PROVE IInv'
<1>1. /\ UNCHANGED <<opening, from, uiReady, blocState, containers, data, asked, made, closed>>
      /\ history' \in SUBSET history /\ newest' = newest
      /\ deleted < MaxDeletions /\ deleted' = deleted + 1
      /\ lastMessage' = IF opening = "chat" THEN lastMessage ELSE NewestOf(history')
  BY DEF DeleteMessage, ChatChanges
<1>2. TypeOK /\ data \in SUBSET (1..newest) /\ NoGap /\ MaxMessages \in Nat /\ MaxDeletions \in Nat
  BY ChatBoundsAssumption DEF IInv
<1>3. newest \in Nat /\ newest <= MaxMessages /\ history' \in SUBSET (1..newest)
  BY <1>1, <1>2 DEF TypeOK
<1>4. lastMessage' \in 0..MaxMessages
  <2>1. NewestOf(history') \in 0..newest
    BY <1>3, NewestIsId
  <2>2. NewestOf(history') \in 0..MaxMessages
    BY <1>2, <1>3, <2>1
  <2> QED
    BY <1>1, <1>2, <2>2 DEF TypeOK
<1>5. deleted' \in 0..MaxDeletions
  BY <1>1, <1>2 DEF TypeOK
<1>6. TypeOK'
  BY <1>1, <1>2, <1>3, <1>4, <1>5 DEF TypeOK
<1>7. NoGap'
  BY <1>1, <1>2 DEF NoGap
<1> QED
  BY <1>1, <1>2, <1>6, <1>7 DEF IInv, ListInv

\* The other steps leave the list, what it knows and what is asked alone.
LEMMA OpeningInv ==
  ASSUME IInv, ChatLoaded \/ ReadyToShow \/ PageAwaited \/ Ready \/ PreloadFails \/ Close
  PROVE  IInv'
<1>1. TypeOK
  BY DEF IInv
<1>2. UNCHANGED <<history, newest, deleted, containers, data, asked, made>>
  BY DEF ChatLoaded, ReadyToShow, PageAwaited, Ready, PreloadFails, Close, chat
<1>3. TypeOK'
  <2>1. CASE ChatLoaded
    <3>1. newest \in Nat /\ newest <= MaxMessages /\ MaxMessages \in Nat
      BY <1>1, ChatBoundsAssumption DEF TypeOK
    <3>2. NewestOf(history) \in 0..newest
      BY <1>1, <3>1, NewestIsId DEF TypeOK
    <3>3. from' \in 0..MaxMessages /\ lastMessage' \in 0..MaxMessages
      BY <2>1, <3>1, <3>2 DEF ChatLoaded
    <3> QED
      BY <1>1, <1>2, <2>1, <3>3 DEF TypeOK, ChatLoaded
  <2>2. CASE ReadyToShow
    <3>1. uiReady' \in [held : BOOLEAN, completed : BOOLEAN]
      BY <1>1, <2>2 DEF ReadyToShow, Released, TypeOK
    <3> QED
      BY <1>1, <1>2, <2>2, <3>1 DEF TypeOK, ReadyToShow
  <2>3. CASE PageAwaited
    BY <1>1, <1>2, <2>3 DEF TypeOK, PageAwaited
  <2>4. CASE Ready
    <3>1. blocState' \in {"loading", "ready", "error"}
      BY <1>1, <2>4 DEF Ready, Emit, TypeOK
    <3> QED
      BY <1>1, <1>2, <2>4, <3>1 DEF TypeOK, Ready
  <2>5. CASE PreloadFails
    <3>1. blocState' \in {"loading", "ready", "error"}
      BY <1>1, <2>5 DEF PreloadFails, Emit, TypeOK
    <3> QED
      BY <1>1, <1>2, <2>5, <3>1 DEF TypeOK, PreloadFails
  <2>6. CASE Close
    BY <1>1, <1>2, <2>6 DEF TypeOK, Close
  <2> QED
    BY <2>1, <2>2, <2>3, <2>4, <2>5, <2>6
<1> QED
  BY <1>2, <1>3 DEF IInv, ListInv, NoGap

\* Every step keeps the invariant.
LEMMA NextInv == IInv /\ [Next]_vars => IInv'
<1>1. SUFFICES ASSUME IInv, [Next]_vars PROVE IInv'
  OBVIOUS
<1>2. CASE ChatLoaded \/ ReadyToShow \/ PageAwaited \/ Ready \/ PreloadFails \/ Close
  BY <1>1, <1>2, OpeningInv
<1>3. CASE MessagesLoaded
  BY <1>1, <1>3, MessagesLoadedInv
<1>4. CASE \E older \in Directions : AskForMore(older)
  BY <1>1, <1>4, AskForMoreInv
<1>5. CASE \E k \in DOMAIN asked : MoreLoaded(k)
  BY <1>1, <1>5, MoreLoadedInv
<1>6. CASE \E k \in DOMAIN asked : LoadMoreFails(k)
  BY <1>1, <1>6, LoadMoreFailsInv
<1>7. CASE NewMessage
  BY <1>1, <1>7, NewMessageInv
<1>8. CASE DeleteMessage
  BY <1>1, <1>8, DeleteMessageInv
<1>9. CASE UNCHANGED vars
  <2>1. TypeOK'
    BY <1>1, <1>9 DEF IInv, TypeOK, vars
  <2> QED
    BY <1>1, <1>9, <2>1 DEF IInv, ListInv, NoGap, vars
<1> QED
  BY <1>1, <1>2, <1>3, <1>4, <1>5, <1>6, <1>7, <1>8, <1>9 DEF Next

LEMMA SpecIInv == Spec => []IInv
  BY InitInv, NextInv, PTL DEF Spec

-----------------------------------------------------------------------------
(* What it gives *)

\* The variables of the bloc and of the page keep their types.
THEOREM TypesHold == Spec => []TypeOK
<1>1. IInv => TypeOK
  BY DEF IInv
<1> QED
  BY SpecIInv, <1>1, PTL

\* The page finds the message of every container it is sent, and there is no message
\* without a container, in whatever order the answers of _loadMore come.
THEOREM ListShowsWhatItKnows == Spec => []ListedAreKnown
<1>1. IInv => ListedAreKnown
  <2>1. SUFFICES ASSUME IInv PROVE ListedAreKnown
    OBVIOUS
  <2>2. /\ \A i \in DOMAIN containers : containers[i].kind = "message" => containers[i].id \in data
        /\ \A m \in data : \E i \in DOMAIN containers : /\ containers[i].kind = "message"
                                                        /\ containers[i].id = m
    BY <2>1 DEF IInv, ListInv
  <2> QED
    BY <2>2 DEF ListedAreKnown
<1> QED
  BY SpecIInv, <1>1, PTL

\* Several _loadMore of one container leave one container of its direction.
THEOREM OneContainerPerEnd == Spec => []OneEndEach
<1>1. IInv => OneEndEach
  <2>1. SUFFICES ASSUME IInv, NEW older \in BOOLEAN
                 PROVE  Cardinality({i \in DOMAIN containers : /\ containers[i].kind # "message"
                                                               /\ containers[i].older = older}) <= 1
    BY DEF OneEndEach
  <2> DEFINE ends == {i \in DOMAIN containers : /\ containers[i].kind # "message"
                                                /\ containers[i].older = older}
  <2>2. \A i, j \in ends : i = j
    BY <2>1 DEF IInv, ListInv
  <2> HIDE DEF ends
  <2>3. Cardinality(ends) <= 1
    <3>1. CASE ends = {}
      BY <3>1, FS_EmptySet
    <3>2. CASE ends # {}
      <4>1. PICK i \in ends : TRUE
        BY <3>2
      <4>2. ends = {i}
        BY <2>2, <4>1
      <4>3. Cardinality({i}) = 1
        BY FS_Singleton
      <4> QED
        BY <4>2, <4>3
    <3> QED
      BY <3>1, <3>2
  <2> QED
    BY <2>3 DEF ends
<1> QED
  BY SpecIInv, <1>1, PTL

\* However many LoadMore events are handled, for either end, and whatever the chat
\* does meanwhile, no message between two shown ones is missing.
THEOREM NothingSkipped == Spec => []NoGap
<1>1. IInv => NoGap
  BY DEF IInv
<1> QED
  BY SpecIInv, <1>1, PTL
=============================================================================
