-------------------------- MODULE OggPackerProofs --------------------------
(***************************************************************************)
(* For any size of segment, page and packet, any number of packets and     *)
(* streams: the pages of the packer tile its two buffers, however often    *)
(* these are shifted or grow, no call leaves a page waiting longer than    *)
(* the muxing delay, every page has the bytes that its lacing values       *)
(* announce, and the packer implements OggPages. The last two follow the   *)
(* content of the struct (Content): its pages and what waits, wherever     *)
(* they lie in the buffers.                                                *)
(***************************************************************************)
EXTENDS OggPacker, SumProofs, SequenceTheorems, TLAPS

Oggs == [serialno : Nat,
         buf : Seq(Nat \X Nat), buf_size : Nat, buf_begin : Nat,
         lacing : Seq(0..Unit), lacing_size : Nat, lacing_begin : Nat,
         pages : Seq(PageRecord), pages_size : Nat,
         is_eos : BOOLEAN, curr_granule : Nat, last_granule : Nat,
         pageno : Nat, muxing_delay : Nat]

-----------------------------------------------------------------------------
(* The inductive invariant: the shape of the struct, and what a call relies *)
(* on from one step to the next.                                            *)

Filled(o) == o.lacing_begin <= Len(o.lacing) /\ o.buf_begin <= Len(o.buf)

Room(o) ==
  /\ Len(o.lacing) <= o.lacing_size
  /\ Len(o.buf) <= o.buf_size
  /\ Len(o.pages) <= o.pages_size

PagesInRange(o) ==
  \A i \in 1..Len(o.pages) :
    /\ o.pages[i].lacing_size \in 1..PageLacings
    /\ o.pages[i].lacing_pos + o.pages[i].lacing_size <= o.lacing_begin
    /\ o.pages[i].buf_pos + o.pages[i].buf_size <= o.buf_begin

PagesInOrder(o) ==
  \A i, j \in 1..Len(o.pages) : i <= j =>
    /\ o.pages[i].lacing_pos <= o.pages[j].lacing_pos
    /\ o.pages[i].buf_pos <= o.pages[j].buf_pos

PagesAdjoin(o) ==
  LET n == Len(o.pages)
  IN /\ \A i \in 1..(n - 1) : Adjoin(o.pages[i], o.pages[i + 1])
     /\ n > 0 => /\ o.pages[n].lacing_pos + o.pages[n].lacing_size = o.lacing_begin
                 /\ o.pages[n].buf_pos + o.pages[n].buf_size = o.buf_begin

\* What fills more than a page is one packet: every lacing value but the last is
\* full, and so many bytes there are.
Oversized(o) ==
  NbLacing(o) > PageLacings =>
    /\ \A i \in (o.lacing_begin + 1)..(Len(o.lacing) - 1) : o.lacing[i] = Unit
    /\ (NbLacing(o) - 1) * Unit <= Len(o.buf) - o.buf_begin

NothingLeft(o) == NbLacing(o) = 0 => o.buf_begin = Len(o.buf)

Shape(o) ==
  /\ o \in Oggs
  /\ Filled(o) /\ Room(o)
  /\ PagesInRange(o) /\ PagesInOrder(o) /\ PagesAdjoin(o)
  /\ Oversized(o)

\* A packet waits to be appended, after the flush that makes room for it.
Appending == pc = "append" \/ (pc = "flush" /\ call.next = "append")

Control ==
  /\ pc = "flush" => NbLacing(oggp) > 0
  /\ pc = "chain" => NbLacing(oggp) = 0
  /\ Appending => asked = -1 /\ Len(oggp.buf) + call.bytes <= oggp.buf_size
  /\ pc = "append" => \/ NbLacing(oggp) + call.bytes \div Unit + 1 <= PageLacings
                      \/ NbLacing(oggp) = 0
  /\ pc # "torn" => NothingLeft(oggp)
  /\ Len(oggp.buf) + asked <= oggp.buf_size

IInv == TypeOK /\ Shape(oggp) /\ Control

-----------------------------------------------------------------------------
(* What a caller can tell of the struct, wherever it lies in the buffers *)

Seen(o, p) ==
  [lacing |-> SubSeq(o.lacing, p.lacing_pos + 1, p.lacing_pos + p.lacing_size),
   body |-> SubSeq(o.buf, p.buf_pos + 1, p.buf_pos + p.buf_size),
   granulepos |-> p.granulepos, cont |-> p.cont, bos |-> p.bos, eos |-> p.eos,
   pageno |-> p.pageno]

Content(o) ==
  [pages   |-> [i \in 1..Len(o.pages) |-> Seen(o, o.pages[i])],
   lacing  |-> SubSeq(o.lacing, o.lacing_begin + 1, Len(o.lacing)),
   body    |-> SubSeq(o.buf, o.buf_begin + 1, Len(o.buf)),
   granule |-> o.curr_granule, eos |-> o.is_eos, pageno |-> o.pageno]

-----------------------------------------------------------------------------
(* Fields *)

LEMMA PageFields ==
  ASSUME NEW p \in PageRecord
  PROVE  /\ p.lacing_pos \in Nat /\ p.lacing_size \in Nat
         /\ p.buf_pos \in Nat /\ p.buf_size \in Nat
BY DEF PageRecord

LEMMA OggFields ==
  ASSUME NEW o \in Oggs
  PROVE  /\ o.lacing \in Seq(0..Unit) /\ Len(o.lacing) \in Nat /\ o.lacing_begin \in Nat
         /\ \A i \in 1..Len(o.lacing) : o.lacing[i] \in 0..Unit
         /\ o.buf \in Seq(Nat \X Nat) /\ Len(o.buf) \in Nat /\ o.buf_begin \in Nat
         /\ \A i \in 1..Len(o.buf) : o.buf[i] \in Nat \X Nat
         /\ o.pages \in Seq(PageRecord) /\ Len(o.pages) \in Nat
         /\ DOMAIN o.pages = 1..Len(o.pages) /\ DOMAIN o.buf = 1..Len(o.buf)
         /\ \A i \in 1..Len(o.pages) :
              /\ o.pages[i] \in PageRecord
              /\ o.pages[i].lacing_pos \in Nat /\ o.pages[i].lacing_size \in Nat
              /\ o.pages[i].buf_pos \in Nat /\ o.pages[i].buf_size \in Nat
<1>1. /\ o.lacing \in Seq(0..Unit) /\ o.lacing_begin \in Nat
      /\ o.buf \in Seq(Nat \X Nat) /\ o.buf_begin \in Nat
      /\ o.pages \in Seq(PageRecord)
  BY DEF Oggs
<1>2. Len(o.lacing) \in Nat /\ Len(o.buf) \in Nat /\ Len(o.pages) \in Nat
      /\ DOMAIN o.pages = 1..Len(o.pages) /\ DOMAIN o.buf = 1..Len(o.buf)
  BY <1>1, LenProperties
<1>3. ASSUME NEW i \in 1..Len(o.lacing) PROVE o.lacing[i] \in 0..Unit
  BY <1>1, ElementOfSeq
<1>4. ASSUME NEW i \in 1..Len(o.buf) PROVE o.buf[i] \in Nat \X Nat
  BY <1>1, ElementOfSeq
<1>5. ASSUME NEW i \in 1..Len(o.pages)
      PROVE  /\ o.pages[i] \in PageRecord
             /\ o.pages[i].lacing_pos \in Nat /\ o.pages[i].lacing_size \in Nat
             /\ o.pages[i].buf_pos \in Nat /\ o.pages[i].buf_size \in Nat
  <2>1. o.pages[i] \in PageRecord
    BY <1>1, ElementOfSeq
  <2> QED
    BY <2>1, PageFields
<1> QED
  BY <1>1, <1>2, <1>3, <1>4, <1>5

-----------------------------------------------------------------------------
(* Shifting *)

SameFlags(p, q) ==
  /\ q.granulepos = p.granulepos /\ q.pageno = p.pageno
  /\ q.cont = p.cont /\ q.bos = p.bos /\ q.eos = p.eos

Carried(o, s, b) ==
  /\ \A i \in 1..Len(s.buf) : s.buf[i] = o.buf[i + b]
  /\ \A i \in 1..Len(o.pages) : SameFlags(o.pages[i], s.pages[i])
  /\ s.pageno = o.pageno

\* s is o without its first a lacing values and its first b bytes.
Moved(o, s, a, b) ==
  /\ Carried(o, s, b)
  /\ s \in Oggs
  /\ Len(o.lacing) = Len(s.lacing) + a /\ o.lacing_begin = s.lacing_begin + a
  /\ \A i \in 1..Len(s.lacing) : s.lacing[i] = o.lacing[i + a]
  /\ Len(o.buf) = Len(s.buf) + b /\ o.buf_begin = s.buf_begin + b
  /\ Len(s.pages) = Len(o.pages)
  /\ \A i \in 1..Len(o.pages) :
       /\ o.pages[i].lacing_pos = s.pages[i].lacing_pos + a
       /\ o.pages[i].buf_pos = s.pages[i].buf_pos + b
       /\ s.pages[i].lacing_size = o.pages[i].lacing_size
       /\ s.pages[i].buf_size = o.pages[i].buf_size
  /\ s.buf_size = o.buf_size /\ s.lacing_size = o.lacing_size
  /\ s.pages_size = o.pages_size
  /\ s.curr_granule = o.curr_granule /\ s.last_granule = o.last_granule
  /\ s.muxing_delay = o.muxing_delay /\ s.is_eos = o.is_eos

LEMMA MovedByNothing ==
  ASSUME NEW o \in Oggs
  PROVE  Moved(o, o, 0, 0)
<1>1. Carried(o, o, 0)
  BY OggFields DEF Carried, SameFlags
<1> QED
  BY <1>1, OggFields DEF Moved

LEMMA LacingPosMoves ==
  ASSUME NEW p \in PageRecord, NEW n \in Nat, n <= p.lacing_pos,
         NEW q, q = [p EXCEPT !.lacing_pos = @ - n]
  PROVE  /\ q \in PageRecord
         /\ p.lacing_pos = q.lacing_pos + n /\ p.buf_pos = q.buf_pos + 0
         /\ q.lacing_size = p.lacing_size /\ q.buf_size = p.buf_size
         /\ SameFlags(p, q)
BY DEF PageRecord, SameFlags

LEMMA BufPosMoves ==
  ASSUME NEW p \in PageRecord, NEW n \in Nat, n <= p.buf_pos,
         NEW q, q = [p EXCEPT !.buf_pos = @ - n]
  PROVE  /\ q \in PageRecord
         /\ p.lacing_pos = q.lacing_pos + 0 /\ p.buf_pos = q.buf_pos + n
         /\ q.lacing_size = p.lacing_size /\ q.buf_size = p.buf_size
         /\ SameFlags(p, q)
BY DEF PageRecord, SameFlags

\* The first n elements of a sequence dropped.
LEMMA DropFirst ==
  ASSUME NEW S, NEW s \in Seq(S), NEW n \in 0..Len(s)
  PROVE  LET l == SubSeq(s, n + 1, Len(s))
         IN /\ l \in Seq(S)
            /\ Len(s) = Len(l) + n
            /\ \A i \in 1..Len(l) : l[i] = s[i + n]
<1>1. Len(s) \in Nat /\ n \in Nat
  BY LenProperties
<1>2. ASSUME NEW i \in (n + 1)..Len(s) PROVE s[i] \in S
  BY <1>1, ElementOfSeq
<1>3. /\ SubSeq(s, n + 1, Len(s)) \in Seq(S)
      /\ Len(SubSeq(s, n + 1, Len(s))) =
           IF n + 1 <= Len(s) THEN Len(s) - (n + 1) + 1 ELSE 0
      /\ \A i \in 1..(Len(s) - (n + 1) + 1) :
           SubSeq(s, n + 1, Len(s))[i] = s[n + 1 + i - 1]
  BY <1>1, <1>2, SubSeqProperties
<1> QED
  BY <1>1, <1>3

LEMMA FunctionIsSeq ==
  ASSUME NEW S, NEW n \in Nat, NEW f \in [1..n -> S]
  PROVE  f \in Seq(S) /\ Len(f) = n
OBVIOUS

LEMMA ShiftLacingMoves ==
  ASSUME NEW o \in Oggs, NEW n \in 0..o.lacing_begin, Filled(o),
         \A i \in 1..Len(o.pages) : n <= o.pages[i].lacing_pos
  PROVE  \E a \in 0..n : Moved(o, ShiftLacing(o, n), a, 0)
<1>1. CASE ~(4 * n > Len(o.lacing))
  <2>1. ShiftLacing(o, n) = o
    BY <1>1 DEF ShiftLacing
  <2>2. 0 \in 0..n
    BY OggFields
  <2> QED
    BY <2>1, <2>2, MovedByNothing
<1>2. CASE 4 * n > Len(o.lacing)
  <2> DEFINE l == SubSeq(o.lacing, n + 1, Len(o.lacing))
             q == [i \in DOMAIN o.pages |->
                     [o.pages[i] EXCEPT !.lacing_pos = @ - n]]
             k == o.lacing_begin - n
             s == [o EXCEPT !.lacing = l, !.lacing_begin = k, !.pages = q]
  <2>1. ShiftLacing(o, n) = s
    BY <1>2 DEF ShiftLacing
  <2>2. /\ n \in Nat /\ n \in 0..n /\ k \in Nat /\ n \in 0..Len(o.lacing)
        /\ o.lacing \in Seq(0..Unit) /\ Len(o.lacing) \in Nat
        /\ Len(o.buf) \in Nat /\ o.buf_begin \in Nat
        /\ Len(o.pages) \in Nat /\ DOMAIN o.pages = 1..Len(o.pages)
    BY OggFields DEF Filled
  <2>2a. /\ o.lacing_begin = k + n
         /\ o.buf_begin = o.buf_begin + 0 /\ Len(o.buf) = Len(o.buf) + 0
    BY <2>2, OggFields
  <2>3. /\ l \in Seq(0..Unit)
        /\ Len(o.lacing) = Len(l) + n
        /\ \A i \in 1..Len(l) : l[i] = o.lacing[i + n]
    BY <2>2, DropFirst
  <2>4. ASSUME NEW i \in 1..Len(o.pages)
        PROVE  /\ q[i] \in PageRecord
               /\ o.pages[i].lacing_pos = q[i].lacing_pos + n
               /\ o.pages[i].buf_pos = q[i].buf_pos + 0
               /\ q[i].lacing_size = o.pages[i].lacing_size
               /\ q[i].buf_size = o.pages[i].buf_size
               /\ SameFlags(o.pages[i], q[i])
    <3>1. q[i] = [o.pages[i] EXCEPT !.lacing_pos = @ - n]
      BY <2>2
    <3>2. o.pages[i] \in PageRecord /\ n <= o.pages[i].lacing_pos /\ n \in Nat
      BY <2>2, OggFields
    <3> DEFINE r == o.pages[i]
               t == q[i]
    <3>3. /\ r \in PageRecord /\ n <= r.lacing_pos /\ n \in Nat
          /\ t = [r EXCEPT !.lacing_pos = @ - n]
      BY <3>1, <3>2
    <3> HIDE DEF r, t
    <3>4. /\ t \in PageRecord
          /\ r.lacing_pos = t.lacing_pos + n /\ r.buf_pos = t.buf_pos + 0
          /\ t.lacing_size = r.lacing_size /\ t.buf_size = r.buf_size
          /\ SameFlags(r, t)
      BY <3>3, LacingPosMoves, ZenonT(60)
    <3> QED
      BY <3>4 DEF r, t
  <2>5. q \in Seq(PageRecord) /\ Len(q) = Len(o.pages)
    <3>1. q \in [1..Len(o.pages) -> PageRecord]
      BY <2>2, <2>4
    <3> QED
      BY <2>2, <3>1, FunctionIsSeq
  <2> HIDE DEF q, l, k
  <2>6. /\ s \in Oggs
        /\ s.lacing = l /\ s.lacing_begin = k /\ s.pages = q
        /\ s.buf = o.buf /\ s.buf_begin = o.buf_begin
        /\ s.buf_size = o.buf_size /\ s.lacing_size = o.lacing_size
        /\ s.pages_size = o.pages_size
        /\ s.curr_granule = o.curr_granule /\ s.last_granule = o.last_granule
        /\ s.muxing_delay = o.muxing_delay /\ s.is_eos = o.is_eos
        /\ s.pageno = o.pageno
    BY <2>2, <2>3, <2>5 DEF Oggs
  <2> HIDE DEF s
  <2>6a. Carried(o, s, 0)
    <3>1. \A i \in 1..Len(o.buf) : o.buf[i] = o.buf[i + 0]
      BY <2>2
    <3> QED
      BY <2>4, <2>6, <3>1 DEF Carried
  <2>7. Moved(o, s, n, 0)
    BY <2>6a, <2>2a, <2>3, <2>4, <2>5, <2>6 DEF Moved
  <2> QED
    BY <2>1, <2>2, <2>7
<1> QED
  BY <1>1, <1>2

LEMMA ShiftBufMoves ==
  ASSUME NEW o \in Oggs, NEW n \in 0..o.buf_begin, Filled(o),
         \A i \in 1..Len(o.pages) : n <= o.pages[i].buf_pos
  PROVE  \E b \in 0..n : Moved(o, ShiftBuf(o, n), 0, b)
<1>1. CASE ~(4 * n > Len(o.buf))
  <2>1. ShiftBuf(o, n) = o
    BY <1>1 DEF ShiftBuf
  <2>2. 0 \in 0..n
    BY OggFields
  <2> QED
    BY <2>1, <2>2, MovedByNothing
<1>2. CASE 4 * n > Len(o.buf)
  <2> DEFINE l == SubSeq(o.buf, n + 1, Len(o.buf))
             q == [i \in DOMAIN o.pages |->
                     [o.pages[i] EXCEPT !.buf_pos = @ - n]]
             k == o.buf_begin - n
             s == [o EXCEPT !.buf = l, !.buf_begin = k, !.pages = q]
  <2>1. ShiftBuf(o, n) = s
    BY <1>2 DEF ShiftBuf
  <2>2. /\ n \in Nat /\ n \in 0..n /\ k \in Nat /\ n \in 0..Len(o.buf)
        /\ o.buf \in Seq(Nat \X Nat) /\ Len(o.lacing) \in Nat
        /\ Len(o.buf) \in Nat /\ o.lacing_begin \in Nat
        /\ Len(o.pages) \in Nat /\ DOMAIN o.pages = 1..Len(o.pages)
    BY OggFields DEF Filled
  <2>2a. /\ o.buf_begin = k + n
         /\ o.lacing_begin = o.lacing_begin + 0 /\ Len(o.lacing) = Len(o.lacing) + 0
         /\ \A i \in 1..Len(o.lacing) : o.lacing[i] = o.lacing[i + 0]
    BY <2>2, OggFields
  <2>3. /\ l \in Seq(Nat \X Nat)
        /\ Len(o.buf) = Len(l) + n
        /\ \A i \in 1..Len(l) : l[i] = o.buf[i + n]
    BY <2>2, DropFirst
  <2>4. ASSUME NEW i \in 1..Len(o.pages)
        PROVE  /\ q[i] \in PageRecord
               /\ o.pages[i].lacing_pos = q[i].lacing_pos + 0
               /\ o.pages[i].buf_pos = q[i].buf_pos + n
               /\ q[i].lacing_size = o.pages[i].lacing_size
               /\ q[i].buf_size = o.pages[i].buf_size
               /\ SameFlags(o.pages[i], q[i])
    <3>1. q[i] = [o.pages[i] EXCEPT !.buf_pos = @ - n]
      BY <2>2
    <3>2. o.pages[i] \in PageRecord /\ n <= o.pages[i].buf_pos /\ n \in Nat
      BY <2>2, OggFields
    <3> DEFINE r == o.pages[i]
               t == q[i]
    <3>3. /\ r \in PageRecord /\ n <= r.buf_pos /\ n \in Nat
          /\ t = [r EXCEPT !.buf_pos = @ - n]
      BY <3>1, <3>2
    <3> HIDE DEF r, t
    <3>4. /\ t \in PageRecord
          /\ r.lacing_pos = t.lacing_pos + 0 /\ r.buf_pos = t.buf_pos + n
          /\ t.lacing_size = r.lacing_size /\ t.buf_size = r.buf_size
          /\ SameFlags(r, t)
      BY <3>3, BufPosMoves, ZenonT(60)
    <3> QED
      BY <3>4 DEF r, t
  <2>5. q \in Seq(PageRecord) /\ Len(q) = Len(o.pages)
    <3>1. q \in [1..Len(o.pages) -> PageRecord]
      BY <2>2, <2>4
    <3> QED
      BY <2>2, <3>1, FunctionIsSeq
  <2> HIDE DEF q, l, k
  <2>6. /\ s \in Oggs
        /\ s.buf = l /\ s.buf_begin = k /\ s.pages = q
        /\ s.lacing = o.lacing /\ s.lacing_begin = o.lacing_begin
        /\ s.buf_size = o.buf_size /\ s.lacing_size = o.lacing_size
        /\ s.pages_size = o.pages_size
        /\ s.curr_granule = o.curr_granule /\ s.last_granule = o.last_granule
        /\ s.muxing_delay = o.muxing_delay /\ s.is_eos = o.is_eos
        /\ s.pageno = o.pageno
    BY <2>2, <2>3, <2>5 DEF Oggs
  <2> HIDE DEF s
  <2>6a. Carried(o, s, n)
    BY <2>3, <2>4, <2>6 DEF Carried
  <2>7. Moved(o, s, 0, n)
    BY <2>6a, <2>2a, <2>3, <2>4, <2>5, <2>6 DEF Moved
  <2> QED
    BY <2>1, <2>2, <2>7
<1> QED
  BY <1>1, <1>2

-----------------------------------------------------------------------------
(* What shifting keeps *)

LEMMA Cancel ==
  /\ \A x, y, z, a \in Nat : (x + a) + y <= z + a => x + y <= z
  /\ \A x, z, a \in Nat : x + a <= z + a => x <= z
  /\ \A x, z, a \in Nat : x + a <= z => x <= z
  /\ \A x, z, a \in Nat : (x + a) - (z + a) = x - z
OBVIOUS

Laid(o) == o \in Oggs /\ Filled(o) /\ PagesInRange(o) /\ PagesInOrder(o) /\ PagesAdjoin(o)

Kept(o, s) ==
  /\ Laid(s)
  /\ Content(s) = Content(o)
  /\ Room(o) => Room(s)
  /\ Oversized(o) => Oversized(s)
  /\ NothingLeft(o) => NothingLeft(s)
  /\ NbLacing(s) = NbLacing(o)
  /\ Len(s.buf) <= Len(o.buf)
  /\ Len(s.buf) - s.buf_begin = Len(o.buf) - o.buf_begin
  /\ s.buf_size = o.buf_size /\ s.lacing_size = o.lacing_size
  /\ s.curr_granule = o.curr_granule /\ s.last_granule = o.last_granule
  /\ s.muxing_delay = o.muxing_delay

\* A slice of n elements after the first x.
LEMMA Slice ==
  ASSUME NEW S, NEW s \in Seq(S), NEW x \in Nat, NEW n \in Nat, x + n <= Len(s)
  PROVE  LET t == SubSeq(s, x + 1, x + n)
         IN t \in Seq(S) /\ Len(t) = n /\ \A i \in 1..n : t[i] = s[x + i]
<1>1. Len(s) \in Nat
  BY LenProperties
<1>2. ASSUME NEW i \in (x + 1)..(x + n) PROVE s[i] \in S
  <2>1. i \in 1..Len(s)
    BY <1>1
  <2> QED
    BY <2>1, ElementOfSeq
<1> DEFINE m == x + 1
           k == x + n
           t == SubSeq(s, m, k)
<1>3. /\ m \in Int /\ k \in Int /\ k - m + 1 = n
      /\ (IF m <= k THEN k - m + 1 ELSE 0) = n
      /\ \A i \in 1..n : m + i - 1 = x + i
  OBVIOUS
<1>4. /\ t \in Seq(S) /\ Len(t) = IF m <= k THEN k - m + 1 ELSE 0
      /\ \A i \in 1..(k - m + 1) : t[i] = s[m + i - 1]
  <2> HIDE DEF m, k
  <2> QED
    BY <1>2, <1>3, SubSeqProperties DEF m, k
<1> QED
  BY <1>3, <1>4

LEMMA SameSlice ==
  ASSUME NEW S, NEW s \in Seq(S), NEW t \in Seq(S),
         NEW x \in Nat, NEW y \in Nat, NEW n \in Nat,
         x + n <= Len(s), y + n <= Len(t), \A i \in 1..n : s[x + i] = t[y + i]
  PROVE  SubSeq(s, x + 1, x + n) = SubSeq(t, y + 1, y + n)
<1> DEFINE u == SubSeq(s, x + 1, x + n)
           v == SubSeq(t, y + 1, y + n)
<1>1. u \in Seq(S) /\ Len(u) = n /\ \A i \in 1..n : u[i] = s[x + i]
  BY Slice
<1>2. v \in Seq(S) /\ Len(v) = n /\ \A i \in 1..n : v[i] = t[y + i]
  BY Slice
<1> HIDE DEF u, v
<1>3. Len(u) = Len(v) /\ \A i \in 1..Len(u) : u[i] = v[i]
  BY <1>1, <1>2
<1>4. u = v
  BY <1>1, <1>2, <1>3, SeqEqual
<1> QED
  BY <1>4 DEF u, v

\* Slices of what is left when the first a elements are gone.
LEMMA SliceMoves ==
  ASSUME NEW S, NEW s \in Seq(S), NEW t \in Seq(S), NEW a \in Nat,
         Len(s) = Len(t) + a, \A i \in 1..Len(t) : t[i] = s[i + a],
         NEW x \in Nat, NEW n \in Nat, x + n <= Len(t)
  PROVE  SubSeq(t, x + 1, x + n) = SubSeq(s, (x + a) + 1, (x + a) + n)
<1>1. Len(t) \in Nat
  BY LenProperties
<1>2. x + a \in Nat /\ (x + a) + n <= Len(s)
  BY <1>1
<1>3. ASSUME NEW i \in 1..n PROVE t[x + i] = s[(x + a) + i]
  <2>1. x + i \in 1..Len(t) /\ (x + i) + a = (x + a) + i
    BY <1>1
  <2> QED
    BY <2>1
<1> QED
  BY <1>2, <1>3, SameSlice

\* All that follows position x, likewise.
LEMMA RestMoves ==
  ASSUME NEW S, NEW s \in Seq(S), NEW t \in Seq(S), NEW a \in Nat,
         Len(s) = Len(t) + a, \A i \in 1..Len(t) : t[i] = s[i + a],
         NEW x \in Nat, x <= Len(t)
  PROVE  SubSeq(t, x + 1, Len(t)) = SubSeq(s, (x + a) + 1, Len(s))
<1> DEFINE n == Len(t) - x
<1>1. Len(t) \in Nat
  BY LenProperties
<1>2. n \in Nat /\ x + n = Len(t) /\ (x + a) + n = Len(s) /\ x + n <= Len(t)
  BY <1>1
<1> HIDE DEF n
<1>3. SubSeq(t, x + 1, x + n) = SubSeq(s, (x + a) + 1, (x + a) + n)
  BY <1>2, SliceMoves
<1> QED
  BY <1>2, <1>3

LEMMA MovedShowsTheSame ==
  ASSUME NEW o, Laid(o), NEW a \in Nat, NEW b \in Nat, NEW s, Moved(o, s, a, b), Laid(s)
  PROVE  Content(s) = Content(o)
<1>1. o \in Oggs /\ s \in Oggs
  BY DEF Laid
<1>2. /\ s.lacing \in Seq(0..Unit) /\ Len(s.lacing) \in Nat /\ s.lacing_begin \in Nat
      /\ s.buf \in Seq(Nat \X Nat) /\ Len(s.buf) \in Nat /\ s.buf_begin \in Nat
      /\ Len(s.pages) \in Nat /\ o.lacing \in Seq(0..Unit) /\ o.buf \in Seq(Nat \X Nat)
  BY <1>1, OggFields
<1>3. /\ Len(o.lacing) = Len(s.lacing) + a /\ o.lacing_begin = s.lacing_begin + a
      /\ \A i \in 1..Len(s.lacing) : s.lacing[i] = o.lacing[i + a]
      /\ Len(o.buf) = Len(s.buf) + b /\ o.buf_begin = s.buf_begin + b
      /\ \A i \in 1..Len(s.buf) : s.buf[i] = o.buf[i + b]
      /\ Len(s.pages) = Len(o.pages)
      /\ s.curr_granule = o.curr_granule /\ s.is_eos = o.is_eos /\ s.pageno = o.pageno
  BY DEF Moved, Carried
<1>4. /\ s.lacing_begin <= Len(s.lacing) /\ s.buf_begin <= Len(s.buf)
      /\ PagesInRange(s)
  BY DEF Laid, Filled
<1> DEFINE L(x, n) == SubSeq(s.lacing, x + 1, x + n) = SubSeq(o.lacing, (x + a) + 1, (x + a) + n)
           B(x, n) == SubSeq(s.buf, x + 1, x + n) = SubSeq(o.buf, (x + b) + 1, (x + b) + n)
<1>5. ASSUME NEW x \in Nat, NEW n \in Nat, x + n <= Len(s.lacing) PROVE L(x, n)
  BY <1>2, <1>3, <1>5, SliceMoves
<1>6. ASSUME NEW x \in Nat, NEW n \in Nat, x + n <= Len(s.buf) PROVE B(x, n)
  BY <1>2, <1>3, <1>6, SliceMoves
<1>7. /\ SubSeq(s.lacing, s.lacing_begin + 1, Len(s.lacing))
           = SubSeq(o.lacing, o.lacing_begin + 1, Len(o.lacing))
      /\ SubSeq(s.buf, s.buf_begin + 1, Len(s.buf))
           = SubSeq(o.buf, o.buf_begin + 1, Len(o.buf))
  <2>1. SubSeq(s.lacing, s.lacing_begin + 1, Len(s.lacing))
          = SubSeq(o.lacing, (s.lacing_begin + a) + 1, Len(o.lacing))
    <3> DEFINE t == s.lacing
               r == o.lacing
               x == s.lacing_begin
               S == 0..Unit
    <3>1. /\ t \in Seq(S) /\ r \in Seq(S) /\ Len(r) = Len(t) + a
          /\ \A i \in 1..Len(t) : t[i] = r[i + a]
          /\ x \in Nat /\ x <= Len(t)
      BY <1>2, <1>3, <1>4
    <3> HIDE DEF t, r, x, S
    <3>2. SubSeq(t, x + 1, Len(t)) = SubSeq(r, (x + a) + 1, Len(r))
      BY <3>1, RestMoves
    <3> QED
      BY <3>2 DEF t, r, x
  <2>2. SubSeq(s.buf, s.buf_begin + 1, Len(s.buf))
          = SubSeq(o.buf, (s.buf_begin + b) + 1, Len(o.buf))
    <3> DEFINE t == s.buf
               r == o.buf
               x == s.buf_begin
               S == Nat \X Nat
    <3>1. /\ t \in Seq(S) /\ r \in Seq(S) /\ Len(r) = Len(t) + b
          /\ \A i \in 1..Len(t) : t[i] = r[i + b]
          /\ x \in Nat /\ x <= Len(t)
      BY <1>2, <1>3, <1>4
    <3> HIDE DEF t, r, x, S
    <3>2. SubSeq(t, x + 1, Len(t)) = SubSeq(r, (x + b) + 1, Len(r))
      BY <3>1, RestMoves
    <3> QED
      BY <3>2 DEF t, r, x
  <2> QED
    BY <1>3, <2>1, <2>2
<1>8. ASSUME NEW i \in 1..Len(o.pages) PROVE Seen(s, s.pages[i]) = Seen(o, o.pages[i])
  <2> DEFINE p == o.pages[i]
             q == s.pages[i]
  <2>1. /\ p.lacing_pos = q.lacing_pos + a /\ p.buf_pos = q.buf_pos + b
        /\ q.lacing_size = p.lacing_size /\ q.buf_size = p.buf_size
        /\ SameFlags(p, q)
    BY DEF Moved, Carried
  <2>2. /\ q.lacing_pos \in Nat /\ q.lacing_size \in Nat
        /\ q.buf_pos \in Nat /\ q.buf_size \in Nat
    BY <1>1, <1>3, OggFields
  <2>3. /\ q.lacing_pos + q.lacing_size <= s.lacing_begin
        /\ q.buf_pos + q.buf_size <= s.buf_begin
    BY <1>3, <1>4 DEF PagesInRange
  <2> HIDE DEF p, q, L, B
  <2>4. /\ q.lacing_pos + q.lacing_size <= Len(s.lacing)
        /\ q.buf_pos + q.buf_size <= Len(s.buf)
    <3>1. \A x, y, z, w \in Nat : x + y <= z /\ z <= w => x + y <= w
      OBVIOUS
    <3> QED
      BY <1>2, <1>4, <2>2, <2>3, <3>1
  <2>5. L(q.lacing_pos, q.lacing_size) /\ B(q.buf_pos, q.buf_size)
    BY <1>5, <1>6, <2>2, <2>4
  <2>6. Seen(s, q) = Seen(o, p)
    BY <2>1, <2>5 DEF L, B, Seen, SameFlags
  <2> QED
    BY <2>6 DEF p, q
<1>9. [i \in 1..Len(s.pages) |-> Seen(s, s.pages[i])]
        = [i \in 1..Len(o.pages) |-> Seen(o, o.pages[i])]
  BY <1>3, <1>8
<1> QED
  BY <1>3, <1>7, <1>9 DEF Content

LEMMA MovedKeeps ==
  ASSUME NEW o, Laid(o), NEW a \in Nat, NEW b \in Nat, NEW s, Moved(o, s, a, b)
  PROVE  Kept(o, s)
<1>1. s \in Oggs
  BY DEF Moved
<1>2. /\ Len(s.lacing) \in Nat /\ s.lacing_begin \in Nat
      /\ Len(s.buf) \in Nat /\ s.buf_begin \in Nat
      /\ Len(s.pages) \in Nat
  BY <1>1, OggFields
<1>3. /\ Len(o.lacing) = Len(s.lacing) + a /\ o.lacing_begin = s.lacing_begin + a
      /\ Len(o.buf) = Len(s.buf) + b /\ o.buf_begin = s.buf_begin + b
      /\ Len(s.pages) = Len(o.pages)
      /\ s.buf_size = o.buf_size /\ s.lacing_size = o.lacing_size
      /\ s.pages_size = o.pages_size
  BY DEF Moved
<1>4. ASSUME NEW i \in 1..Len(s.pages)
      PROVE  /\ o.pages[i].lacing_pos = s.pages[i].lacing_pos + a
             /\ o.pages[i].buf_pos = s.pages[i].buf_pos + b
             /\ s.pages[i].lacing_size = o.pages[i].lacing_size
             /\ s.pages[i].buf_size = o.pages[i].buf_size
             /\ s.pages[i].lacing_pos \in Nat /\ s.pages[i].lacing_size \in Nat
             /\ s.pages[i].buf_pos \in Nat /\ s.pages[i].buf_size \in Nat
  <2>1. i \in 1..Len(o.pages)
    BY <1>3
  <2>2. /\ o.pages[i].lacing_pos = s.pages[i].lacing_pos + a
        /\ o.pages[i].buf_pos = s.pages[i].buf_pos + b
        /\ s.pages[i].lacing_size = o.pages[i].lacing_size
        /\ s.pages[i].buf_size = o.pages[i].buf_size
    BY <2>1 DEF Moved
  <2>3. /\ s.pages[i].lacing_pos \in Nat /\ s.pages[i].lacing_size \in Nat
        /\ s.pages[i].buf_pos \in Nat /\ s.pages[i].buf_size \in Nat
    BY <1>1, OggFields
  <2> QED
    BY <2>2, <2>3
<1>5. Filled(o) /\ PagesInRange(o) /\ PagesInOrder(o) /\ PagesAdjoin(o)
  BY DEF Laid
<1>6. NbLacing(s) = NbLacing(o) /\ Len(s.buf) - s.buf_begin = Len(o.buf) - o.buf_begin
  BY <1>2, <1>3, Cancel, SMTT(60) DEF NbLacing
<1>7. Filled(s)
  BY <1>2, <1>3, <1>5, Cancel, SMTT(60) DEF Filled
<1>8. PagesInRange(s)
  <2>1. ASSUME NEW i \in 1..Len(s.pages)
        PROVE  /\ s.pages[i].lacing_size \in 1..PageLacings
               /\ s.pages[i].lacing_pos + s.pages[i].lacing_size <= s.lacing_begin
               /\ s.pages[i].buf_pos + s.pages[i].buf_size <= s.buf_begin
    <3>1. /\ o.pages[i].lacing_size \in 1..PageLacings
          /\ o.pages[i].lacing_pos + o.pages[i].lacing_size <= o.lacing_begin
          /\ o.pages[i].buf_pos + o.pages[i].buf_size <= o.buf_begin
      BY <1>3, <1>5 DEF PagesInRange
    <3>2. /\ (s.pages[i].lacing_pos + a) + s.pages[i].lacing_size <= s.lacing_begin + a
          /\ (s.pages[i].buf_pos + b) + s.pages[i].buf_size <= s.buf_begin + b
      BY <1>3, <1>4, <3>1
    <3> QED
      BY <1>2, <1>4, <3>1, <3>2, Cancel
  <2> QED
    BY <2>1 DEF PagesInRange
<1>9. PagesInOrder(s)
  <2>1. ASSUME NEW i \in 1..Len(s.pages), NEW j \in 1..Len(s.pages), i <= j
        PROVE  /\ s.pages[i].lacing_pos <= s.pages[j].lacing_pos
               /\ s.pages[i].buf_pos <= s.pages[j].buf_pos
    <3>1. /\ o.pages[i].lacing_pos <= o.pages[j].lacing_pos
          /\ o.pages[i].buf_pos <= o.pages[j].buf_pos
      BY <1>3, <1>5, <2>1 DEF PagesInOrder
    <3> DEFINE x == s.pages[i].lacing_pos  u == s.pages[i].buf_pos
               y == s.pages[j].lacing_pos  v == s.pages[j].buf_pos
    <3>2. x + a <= y + a /\ u + b <= v + b
      BY <1>4, <3>1
    <3>3. x \in Nat /\ y \in Nat /\ u \in Nat /\ v \in Nat
      BY <1>4
    <3> HIDE DEF x, y, u, v
    <3>4. x <= y /\ u <= v
      BY <3>2, <3>3
    <3> QED
      BY <3>4 DEF x, y, u, v
  <2> QED
    BY <2>1 DEF PagesInOrder
<1>10. PagesAdjoin(s)
  <2>1. ASSUME NEW i \in 1..(Len(s.pages) - 1)
        PROVE  Adjoin(s.pages[i], s.pages[i + 1])
    <3>1. i \in 1..Len(s.pages) /\ i + 1 \in 1..Len(s.pages)
      BY <1>2
    <3>2. /\ o.pages[i].lacing_pos + o.pages[i].lacing_size = o.pages[i + 1].lacing_pos
          /\ o.pages[i].buf_pos + o.pages[i].buf_size = o.pages[i + 1].buf_pos
      BY <1>3, <1>5 DEF PagesAdjoin, Adjoin
    <3> DEFINE x == s.pages[i].lacing_pos   u == s.pages[i].buf_pos
               y == s.pages[i].lacing_size  v == s.pages[i].buf_size
               z == s.pages[i + 1].lacing_pos  w == s.pages[i + 1].buf_pos
    <3>3. (x + a) + y = z + a /\ (u + b) + v = w + b
      BY <1>4, <3>1, <3>2
    <3>4. x \in Nat /\ y \in Nat /\ z \in Nat /\ u \in Nat /\ v \in Nat /\ w \in Nat
      BY <1>4, <3>1
    <3> HIDE DEF x, y, z, u, v, w
    <3>5. x + y = z /\ u + v = w
      BY <3>3, <3>4
    <3> QED
      BY <3>5 DEF x, y, z, u, v, w, Adjoin
  <2>2. ASSUME Len(s.pages) > 0
        PROVE  LET n == Len(s.pages)
               IN /\ s.pages[n].lacing_pos + s.pages[n].lacing_size = s.lacing_begin
                  /\ s.pages[n].buf_pos + s.pages[n].buf_size = s.buf_begin
    <3> DEFINE n == Len(s.pages)
    <3>1. n \in 1..Len(s.pages)
      BY <1>2, <2>2
    <3>2. /\ o.pages[n].lacing_pos + o.pages[n].lacing_size = o.lacing_begin
          /\ o.pages[n].buf_pos + o.pages[n].buf_size = o.buf_begin
      BY <1>3, <1>5, <2>2 DEF PagesAdjoin
    <3> HIDE DEF n
    <3> DEFINE x == s.pages[n].lacing_pos   u == s.pages[n].buf_pos
               y == s.pages[n].lacing_size  v == s.pages[n].buf_size
               z == s.lacing_begin          w == s.buf_begin
    <3>3. (x + a) + y = z + a /\ (u + b) + v = w + b
      BY <1>3, <1>4, <3>1, <3>2
    <3>4. x \in Nat /\ y \in Nat /\ z \in Nat /\ u \in Nat /\ v \in Nat /\ w \in Nat
      BY <1>2, <1>4, <3>1
    <3> HIDE DEF x, y, z, u, v, w
    <3>5. x + y = z /\ u + v = w
      BY <3>3, <3>4
    <3> QED
      BY <3>5 DEF x, y, z, u, v, w, n
  <2> QED
    BY <2>1, <2>2 DEF PagesAdjoin
<1>11. ASSUME Room(o) PROVE Room(s)
  <2>1. s.lacing_size \in Nat /\ s.buf_size \in Nat /\ s.pages_size \in Nat
    BY <1>1 DEF Oggs
  <2>2. Len(s.lacing) + a <= s.lacing_size /\ Len(s.buf) + b <= s.buf_size
        /\ Len(s.pages) <= s.pages_size
    BY <1>3, <1>11 DEF Room
  <2> QED
    BY <1>2, <2>1, <2>2, Cancel DEF Room
<1>12. ASSUME Oversized(o), NbLacing(s) > PageLacings
       PROVE  /\ \A i \in (s.lacing_begin + 1)..(Len(s.lacing) - 1) : s.lacing[i] = Unit
              /\ (NbLacing(s) - 1) * Unit <= Len(s.buf) - s.buf_begin
  <2>1. /\ \A i \in (o.lacing_begin + 1)..(Len(o.lacing) - 1) : o.lacing[i] = Unit
        /\ (NbLacing(o) - 1) * Unit <= Len(o.buf) - o.buf_begin
    BY <1>6, <1>12 DEF Oversized
  <2>2. ASSUME NEW i \in (s.lacing_begin + 1)..(Len(s.lacing) - 1)
        PROVE  s.lacing[i] = Unit
    <3>1. i \in 1..Len(s.lacing)
      BY <1>2
    <3>2. i + a \in ((s.lacing_begin + a) + 1)..((Len(s.lacing) + a) - 1)
      BY <1>2
    <3>3. s.lacing[i] = o.lacing[i + a]
      BY <3>1 DEF Moved
    <3> QED
      BY <1>3, <2>1, <3>2, <3>3
  <2> QED
    BY <1>6, <2>1, <2>2
<1>13. ASSUME NothingLeft(o) PROVE NothingLeft(s)
  BY <1>2, <1>3, <1>6, <1>13, SMTT(60) DEF NothingLeft
<1>14. Len(s.buf) <= Len(o.buf)
  BY <1>2, <1>3
<1>15. /\ s.curr_granule = o.curr_granule /\ s.last_granule = o.last_granule
       /\ s.muxing_delay = o.muxing_delay
  BY DEF Moved
<1>16. Laid(s)
  BY <1>1, <1>7, <1>8, <1>9, <1>10 DEF Laid
<1>17. Content(s) = Content(o)
  BY <1>16, MovedShowsTheSame
<1> QED
  BY <1>3, <1>6, <1>11, <1>12, <1>13, <1>14, <1>15, <1>16, <1>17 DEF Kept, Oversized

LEMMA ShiftedKeeps ==
  ASSUME NEW o, Laid(o)
  PROVE  Kept(o, Shifted(o))
<1> DEFINE bs == IF o.pages # <<>> THEN o.pages[1].buf_pos ELSE o.buf_begin
           ls == IF o.pages # <<>> THEN o.pages[1].lacing_pos ELSE o.lacing_begin
           m == ShiftLacing(o, ls)
           s == ShiftBuf(m, bs)
<1>1. /\ o \in Oggs /\ Filled(o)
      /\ PagesInRange(o) /\ PagesInOrder(o)
  BY DEF Laid
<1>2. /\ o.lacing_begin \in Nat /\ o.buf_begin \in Nat
      /\ Len(o.pages) \in Nat
      /\ o.pages \in Seq(PageRecord)
  BY <1>1, OggFields
<1>3. /\ ls \in 0..o.lacing_begin /\ bs \in 0..o.buf_begin
      /\ \A i \in 1..Len(o.pages) : ls <= o.pages[i].lacing_pos /\ bs <= o.pages[i].buf_pos
  <2>1. CASE o.pages = <<>>
    BY <1>2, <2>1
  <2>2. CASE o.pages # <<>>
    <3>1. 1 \in 1..Len(o.pages)
      BY <1>2, <2>2, EmptySeq
    <3>2. /\ o.pages[1].lacing_pos \in Nat /\ o.pages[1].lacing_size \in Nat
          /\ o.pages[1].buf_pos \in Nat /\ o.pages[1].buf_size \in Nat
      BY <1>1, <3>1, OggFields
    <3>3. /\ o.pages[1].lacing_pos + o.pages[1].lacing_size <= o.lacing_begin
          /\ o.pages[1].buf_pos + o.pages[1].buf_size <= o.buf_begin
      BY <1>1, <3>1 DEF PagesInRange
    <3>4. /\ o.pages[1].lacing_pos \in 0..o.lacing_begin
          /\ o.pages[1].buf_pos \in 0..o.buf_begin
      BY <1>2, <3>2, <3>3, SMTT(60)
    <3>5. ASSUME NEW i \in 1..Len(o.pages)
          PROVE  /\ o.pages[1].lacing_pos <= o.pages[i].lacing_pos
                 /\ o.pages[1].buf_pos <= o.pages[i].buf_pos
      <4>1. 1 <= i
        BY <1>2
      <4> QED
        BY <1>1, <3>1, <4>1 DEF PagesInOrder
    <3> QED
      BY <2>2, <3>4, <3>5
  <2> QED
    BY <2>1, <2>2
<1>4. Shifted(o) = s
  BY DEF Shifted
<1> HIDE DEF bs, ls
<1>5. PICK a \in 0..ls : Moved(o, m, a, 0)
  BY <1>1, <1>3, ShiftLacingMoves
<1>6. a \in Nat /\ 0 \in Nat
  BY <1>2, <1>3
<1>7. Kept(o, m)
  BY <1>5, <1>6, MovedKeeps
<1>8. Laid(m) /\ m \in Oggs /\ Filled(m)
  BY <1>7 DEF Kept, Laid
<1>9. m.buf_begin \in Nat /\ o.buf_begin = m.buf_begin + 0
  BY <1>5, <1>8, OggFields DEF Moved
<1>10. bs \in 0..m.buf_begin
  BY <1>3, <1>9
<1>11. ASSUME NEW i \in 1..Len(m.pages)
       PROVE  bs <= m.pages[i].buf_pos
  <2>1. i \in 1..Len(o.pages) /\ o.pages[i].buf_pos = m.pages[i].buf_pos + 0
    BY <1>5 DEF Moved
  <2>2. m.pages[i].buf_pos \in Nat
    BY <1>8, OggFields
  <2>3. o.pages[i].buf_pos = m.pages[i].buf_pos
    BY <2>1, <2>2
  <2>4. bs <= o.pages[i].buf_pos
    BY <1>3, <2>1
  <2> QED
    BY <2>3, <2>4
<1> HIDE DEF m
<1>12. PICK b \in 0..bs : Moved(m, s, 0, b)
  BY <1>8, <1>10, <1>11, ShiftBufMoves
<1>13. b \in Nat
  BY <1>9, <1>10
<1> HIDE DEF s
<1>14. Kept(m, s)
  BY <1>6, <1>8, <1>12, <1>13, MovedKeeps
<1>15. Kept(o, s)
  <2>1. o \in Oggs /\ m \in Oggs /\ s \in Oggs
    BY <1>1, <1>8, <1>14 DEF Kept, Laid
  <2>2. Len(o.buf) \in Nat /\ Len(m.buf) \in Nat /\ Len(s.buf) \in Nat
    BY <2>1, OggFields
  <2>3. Len(s.buf) <= Len(m.buf) /\ Len(m.buf) <= Len(o.buf)
    BY <1>7, <1>14 DEF Kept
  <2>4. Len(s.buf) <= Len(o.buf)
    BY <2>2, <2>3
  <2> QED
    BY <1>7, <1>14, <2>4 DEF Kept
<1> QED
  BY <1>4, <1>15
-----------------------------------------------------------------------------
(* The other changes of the struct *)

\* s has the buffers and the pages of o.
SameRanges(o, s) ==
  /\ s \in Oggs
  /\ s.lacing = o.lacing /\ s.lacing_begin = o.lacing_begin
  /\ s.buf = o.buf /\ s.buf_begin = o.buf_begin
  /\ s.pages = o.pages

LEMMA SameRangesKeep ==
  ASSUME NEW o, Laid(o), NEW s, SameRanges(o, s)
  PROVE  /\ Laid(s) /\ NbLacing(s) = NbLacing(o)
         /\ Oversized(o) => Oversized(s)
         /\ NothingLeft(o) => NothingLeft(s)
<1>1. NbLacing(s) = NbLacing(o)
  BY DEF SameRanges, NbLacing
<1>2. Filled(s) /\ PagesInRange(s) /\ PagesInOrder(s) /\ PagesAdjoin(s)
  BY DEF SameRanges, Laid, Filled, PagesInRange, PagesInOrder, PagesAdjoin
<1> QED
  BY <1>1, <1>2 DEF SameRanges, Laid, Oversized, NothingLeft

LEMMA Grows ==
  /\ \A x, y \in Nat : /\ (x * 3) \div 2 \in Nat /\ x <= (x * 3) \div 2
                       /\ ((x + y) * 3) \div 2 \in Nat /\ x <= ((x + y) * 3) \div 2
  /\ \A x \in Nat : 1 + (x * 3) \div 2 \in Nat /\ x + 1 <= 1 + (x * 3) \div 2
OBVIOUS

LEMMA GrownBufKeeps ==
  ASSUME NEW o, Laid(o), Room(o), NEW bytes \in Nat
  PROVE  LET s == GrownBuf(o, bytes)
         IN SameRanges(o, s) /\ Room(s) /\ BufFits(s, bytes)
<1>1. o \in Oggs /\ Len(o.buf) \in Nat /\ MaxHeaderSize \in Nat
  BY OggFields, PackerAssumption DEF Laid, MaxHeaderSize
<1> DEFINE z == ((Len(o.buf) + bytes + MaxHeaderSize) * 3) \div 2
           s == [o EXCEPT !.buf_size = z]
<1>2. z \in Nat /\ Len(o.buf) + bytes <= z /\ Len(o.buf) <= z
  <2>1. Len(o.buf) + bytes \in Nat /\ Len(o.buf) <= Len(o.buf) + bytes
    BY <1>1
  <2>2. z \in Nat /\ Len(o.buf) + bytes <= z
    BY <1>1, <2>1, Grows
  <2> HIDE DEF z
  <2> QED
    BY <1>1, <2>1, <2>2
<1>3. GrownBuf(o, bytes) = s
  BY DEF GrownBuf
<1> HIDE DEF z
<1>4. /\ SameRanges(o, s) /\ s.buf_size = z /\ s.lacing_size = o.lacing_size
      /\ s.pages_size = o.pages_size
  BY <1>1, <1>2 DEF SameRanges, Oggs
<1> HIDE DEF s
<1>5. Room(s) /\ BufFits(s, bytes)
  BY <1>2, <1>4 DEF SameRanges, Room, BufFits
<1> QED
  BY <1>3, <1>4, <1>5

LEMMA GrownLacingKeeps ==
  ASSUME NEW o, Laid(o), NEW n \in Nat
  PROVE  LET s == GrownLacing(o, n)
         IN /\ SameRanges(o, s) /\ LacingFits(s, n)
            /\ s.buf_size = o.buf_size /\ s.pages_size = o.pages_size
            /\ s.curr_granule = o.curr_granule /\ s.last_granule = o.last_granule
            /\ s.muxing_delay = o.muxing_delay
<1>1. o \in Oggs /\ Len(o.lacing) \in Nat
  BY OggFields DEF Laid
<1> DEFINE z == ((Len(o.lacing) + n) * 3) \div 2
           s == [o EXCEPT !.lacing_size = z]
<1>2. z \in Nat /\ Len(o.lacing) + n <= z
  <2>1. Len(o.lacing) + n \in Nat
    BY <1>1
  <2> QED
    BY <2>1, Grows
<1>3. GrownLacing(o, n) = s
  BY DEF GrownLacing
<1> HIDE DEF z
<1>4. /\ SameRanges(o, s) /\ s.lacing_size = z
      /\ s.buf_size = o.buf_size /\ s.pages_size = o.pages_size
      /\ s.curr_granule = o.curr_granule /\ s.last_granule = o.last_granule
      /\ s.muxing_delay = o.muxing_delay
  BY <1>1, <1>2 DEF SameRanges, Oggs
<1> HIDE DEF s
<1>5. LacingFits(s, n)
  BY <1>2, <1>4 DEF SameRanges, LacingFits
<1> QED
  BY <1>3, <1>4, <1>5

LEMMA GrownPagesKeeps ==
  ASSUME NEW o, Laid(o), Room(o)
  PROVE  LET s == GrownPages(o)
         IN /\ SameRanges(o, s) /\ Room(s) /\ Len(s.pages) + 1 <= s.pages_size
            /\ s.buf_size = o.buf_size /\ s.curr_granule = o.curr_granule
            /\ s.last_granule = o.last_granule /\ s.muxing_delay = o.muxing_delay
<1>1. o \in Oggs /\ Len(o.pages) \in Nat /\ o.pages_size \in Nat
  BY OggFields DEF Laid, Oggs
<1>2. CASE Len(o.pages) >= o.pages_size
  <2> DEFINE z == 1 + (o.pages_size * 3) \div 2
             s == [o EXCEPT !.pages_size = z]
  <2>1. Len(o.pages) <= o.pages_size
    BY DEF Room
  <2>2. z \in Nat /\ Len(o.pages) + 1 <= z /\ Len(o.pages) <= z
    BY <1>1, <2>1, Grows
  <2>3. GrownPages(o) = s
    BY <1>2 DEF GrownPages
  <2> HIDE DEF z
  <2>4. /\ SameRanges(o, s) /\ s.pages_size = z /\ s.lacing_size = o.lacing_size
        /\ s.buf_size = o.buf_size /\ s.curr_granule = o.curr_granule
        /\ s.last_granule = o.last_granule /\ s.muxing_delay = o.muxing_delay
    BY <1>1, <2>2 DEF SameRanges, Oggs
  <2> HIDE DEF s
  <2>5. Room(s) /\ Len(s.pages) + 1 <= s.pages_size
    BY <2>2, <2>4 DEF SameRanges, Room
  <2> QED
    BY <2>3, <2>4, <2>5
<1>3. CASE ~(Len(o.pages) >= o.pages_size)
  <2>1. GrownPages(o) = o
    BY <1>3 DEF GrownPages
  <2>2. Len(o.pages) + 1 <= o.pages_size
    BY <1>1, <1>3
  <2> QED
    BY <1>1, <2>1, <2>2 DEF SameRanges
<1> QED
  BY <1>2, <1>3
-----------------------------------------------------------------------------
(* A packet joins the buffers *)

LEMMA Divides ==
  ASSUME NEW x \in Nat, NEW u \in Nat \ {0}
  PROVE  /\ x \div u \in Nat
         /\ x - u * (x \div u) \in 0..u
         /\ (x \div u) * u <= x
OBVIOUS

LEMMA LacingOf ==
  ASSUME NEW bytes \in Nat
  PROVE  /\ Lacing(bytes) \in Seq(0..Unit)
         /\ bytes \div Unit \in Nat
         /\ Len(Lacing(bytes)) = bytes \div Unit + 1
         /\ \A i \in 1..(bytes \div Unit) : Lacing(bytes)[i] = Unit
         /\ (bytes \div Unit) * Unit <= bytes
<1> DEFINE d == bytes \div Unit
           r == bytes - Unit * d
           f == [i \in 1..(d + 1) |-> IF i <= d THEN Unit ELSE r]
<1>1. d \in Nat /\ r \in 0..Unit /\ d * Unit <= bytes /\ Unit \in 0..Unit
  BY Divides, PackerAssumption
<1>2. Lacing(bytes) = f
  BY DEF Lacing
<1> HIDE DEF d, r
<1>3. d + 1 \in Nat /\ f \in [1..(d + 1) -> 0..Unit]
  BY <1>1
<1>4. f \in Seq(0..Unit) /\ Len(f) = d + 1
  BY <1>3, FunctionIsSeq
<1>5. \A i \in 1..d : f[i] = Unit
  BY <1>1
<1> QED
  BY <1>1, <1>2, <1>4, <1>5 DEF d

LEMMA PacketDataOf ==
  ASSUME NEW k \in Nat, NEW bytes \in Nat
  PROVE  PacketData(k, bytes) \in Seq(Nat \X Nat) /\ Len(PacketData(k, bytes)) = bytes
<1>1. PacketData(k, bytes) \in [1..bytes -> Nat \X Nat]
  BY DEF PacketData
<1> QED
  BY <1>1, FunctionIsSeq

\* The pages stay where they are, and what they end at.
SamePages(o, s) ==
  /\ s \in Oggs
  /\ s.lacing_begin = o.lacing_begin /\ s.buf_begin = o.buf_begin
  /\ s.pages = o.pages

LEMMA SamePagesKeep ==
  ASSUME NEW o, Laid(o), NEW s, SamePages(o, s), Filled(s)
  PROVE  Laid(s)
BY DEF SamePages, Laid, PagesInRange, PagesInOrder, PagesAdjoin

LEMMA Joined ==
  ASSUME NEW S, NEW s \in Seq(S), NEW t \in Seq(S)
  PROVE  /\ s \o t \in Seq(S)
         /\ Len(s \o t) = Len(s) + Len(t)
         /\ \A i \in 1..Len(s) : (s \o t)[i] = s[i]
         /\ \A i \in 1..Len(t) : (s \o t)[Len(s) + i] = t[i]
<1>1. Len(s) \in Nat /\ Len(t) \in Nat
  BY LenProperties
<1>2. /\ s \o t \in Seq(S)
      /\ Len(s \o t) = Len(s) + Len(t)
      /\ \A i \in 1..(Len(s) + Len(t)) :
           (s \o t)[i] = IF i <= Len(s) THEN s[i] ELSE t[i - Len(s)]
  BY ConcatProperties
<1>3. ASSUME NEW i \in 1..Len(t) PROVE (s \o t)[Len(s) + i] = t[i]
  <2>1. /\ Len(s) + i \in 1..(Len(s) + Len(t)) /\ ~(Len(s) + i <= Len(s))
        /\ (Len(s) + i) - Len(s) = i
    BY <1>1
  <2> QED
    BY <1>2, <2>1
<1> QED
  BY <1>1, <1>2, <1>3

LEMMA WithPacketKeeps ==
  ASSUME NEW o, Laid(o), NEW k \in Nat, NEW bytes \in Nat
  PROVE  LET s == [o EXCEPT !.buf = @ \o PacketData(k, bytes)]
         IN /\ Laid(s)
            /\ s.lacing = o.lacing /\ s.lacing_begin = o.lacing_begin
            /\ s.buf_begin = o.buf_begin /\ Len(s.buf) = Len(o.buf) + bytes
            /\ s.pages = o.pages
            /\ s.buf_size = o.buf_size /\ s.lacing_size = o.lacing_size
            /\ s.pages_size = o.pages_size
            /\ s.curr_granule = o.curr_granule /\ s.last_granule = o.last_granule
            /\ s.muxing_delay = o.muxing_delay
<1>1. /\ o \in Oggs /\ o.buf \in Seq(Nat \X Nat)
      /\ Len(o.buf) \in Nat /\ o.buf_begin \in Nat
  BY OggFields DEF Laid
<1> DEFINE b == o.buf \o PacketData(k, bytes)
           s == [o EXCEPT !.buf = b]
<1>2. b \in Seq(Nat \X Nat) /\ Len(b) = Len(o.buf) + bytes
  <2>1. PacketData(k, bytes) \in Seq(Nat \X Nat) /\ Len(PacketData(k, bytes)) = bytes
    BY PacketDataOf
  <2> DEFINE r == o.buf
             t == PacketData(k, bytes)
             S == Nat \X Nat
  <2>2. r \in Seq(S) /\ t \in Seq(S) /\ Len(t) = bytes
    BY <1>1, <2>1
  <2> HIDE DEF r, t, S
  <2>3. r \o t \in Seq(S) /\ Len(r \o t) = Len(r) + bytes
    BY <2>2, Joined
  <2> QED
    BY <2>3 DEF r, t, S
<1> HIDE DEF b
<1>3. /\ s \in Oggs
      /\ s.lacing = o.lacing /\ s.lacing_begin = o.lacing_begin
      /\ s.buf_begin = o.buf_begin /\ s.buf = b /\ s.pages = o.pages
      /\ s.buf_size = o.buf_size /\ s.lacing_size = o.lacing_size
      /\ s.pages_size = o.pages_size
      /\ s.curr_granule = o.curr_granule /\ s.last_granule = o.last_granule
      /\ s.muxing_delay = o.muxing_delay
  BY <1>1, <1>2 DEF Oggs
<1> HIDE DEF s
<1>4. o.buf_begin <= Len(b)
  <2>1. o.buf_begin <= Len(o.buf)
    BY DEF Laid, Filled
  <2> QED
    BY <1>1, <1>2, <2>1
<1>5. Filled(s)
  BY <1>3, <1>4 DEF Laid, Filled
<1>6. Laid(s)
  BY <1>3, <1>5, SamePagesKeep DEF SamePages
<1> QED
  BY <1>2, <1>3, <1>6 DEF s, b

LEMMA WithLacingKeeps ==
  ASSUME NEW o, Laid(o), NEW bytes \in Nat, NEW g \in Nat, NEW eos \in BOOLEAN,
         LacingFits(o, bytes \div Unit + 1),
         Len(o.buf) <= o.buf_size, Len(o.pages) <= o.pages_size,
         \/ NbLacing(o) + bytes \div Unit + 1 <= PageLacings
         \/ NbLacing(o) = 0 /\ Len(o.buf) - o.buf_begin = bytes
  PROVE  LET s == WithLacing(o, bytes, g, eos)
         IN /\ Shape(s) /\ NbLacing(s) > 0
            /\ s.buf = o.buf /\ s.buf_size = o.buf_size
            /\ s.curr_granule = g /\ s.last_granule = o.last_granule
            /\ s.muxing_delay = o.muxing_delay
<1> DEFINE d == bytes \div Unit
           t == Lacing(bytes)
           l == o.lacing \o t
           s == [o EXCEPT !.lacing = l, !.curr_granule = g, !.is_eos = eos]
<1>1. /\ o \in Oggs /\ o.lacing \in Seq(0..Unit)
      /\ Len(o.lacing) \in Nat /\ o.lacing_begin \in Nat
      /\ Len(o.buf) \in Nat /\ o.buf_begin \in Nat
  BY OggFields DEF Laid
<1>2. /\ t \in Seq(0..Unit) /\ d \in Nat /\ Len(t) = d + 1
      /\ \A i \in 1..d : t[i] = Unit
      /\ d * Unit <= bytes
  BY LacingOf
<1>3. WithLacing(o, bytes, g, eos) = s
  BY DEF WithLacing
<1>4. \/ NbLacing(o) + d + 1 <= PageLacings
      \/ NbLacing(o) = 0 /\ Len(o.buf) - o.buf_begin = bytes
  OBVIOUS
<1>5. Len(o.lacing) + (d + 1) <= o.lacing_size
  BY DEF LacingFits
<1> HIDE DEF d, t
<1>6. /\ l \in Seq(0..Unit) /\ Len(l) = Len(o.lacing) + (d + 1)
      /\ \A i \in 1..(d + 1) : l[Len(o.lacing) + i] = t[i]
  <2> DEFINE r == o.lacing
             S == 0..Unit
  <2>2. r \in Seq(S) /\ t \in Seq(S)
    BY <1>1, <1>2
  <2> HIDE DEF r, S
  <2>3. /\ r \o t \in Seq(S) /\ Len(r \o t) = Len(r) + Len(t)
        /\ \A i \in 1..Len(t) : (r \o t)[Len(r) + i] = t[i]
    BY <2>2, Joined
  <2>1. /\ l \in Seq(0..Unit) /\ Len(l) = Len(o.lacing) + Len(t)
        /\ \A i \in 1..Len(t) : l[Len(o.lacing) + i] = t[i]
    BY <2>3 DEF r, S
  <2> HIDE DEF l
  <2> QED
    BY <1>2, <2>1
<1> HIDE DEF l
<1>7. /\ s \in Oggs
      /\ s.lacing = l /\ s.lacing_begin = o.lacing_begin
      /\ s.buf_begin = o.buf_begin /\ s.buf = o.buf /\ s.pages = o.pages
      /\ s.buf_size = o.buf_size /\ s.lacing_size = o.lacing_size
      /\ s.pages_size = o.pages_size
      /\ s.curr_granule = g /\ s.last_granule = o.last_granule
      /\ s.muxing_delay = o.muxing_delay
  BY <1>1, <1>6 DEF Oggs
<1> HIDE DEF s
<1>8. o.lacing_begin <= Len(o.lacing) /\ o.lacing_begin <= Len(l)
  <2> DEFINE x == Len(o.lacing)  y == o.lacing_begin
  <2>1. y <= x
    BY DEF Laid, Filled
  <2>2. x \in Nat /\ y \in Nat /\ d \in Nat /\ Len(l) = x + (d + 1)
    BY <1>1, <1>2, <1>6
  <2> HIDE DEF x, y
  <2>3. y <= x + (d + 1)
    BY <2>1, <2>2
  <2> QED
    BY <2>1, <2>2, <2>3 DEF x, y
<1>9. Laid(s)
  <2>1. Filled(s)
    BY <1>7, <1>8 DEF Laid, Filled
  <2> QED
    BY <1>7, <2>1, SamePagesKeep DEF SamePages
<1>10. Room(s)
  BY <1>5, <1>6, <1>7 DEF Room
<1>11. NbLacing(s) = NbLacing(o) + (d + 1) /\ NbLacing(s) > 0 /\ NbLacing(o) \in Nat
  <2>1. NbLacing(o) = Len(o.lacing) - o.lacing_begin
        /\ NbLacing(s) = Len(l) - o.lacing_begin
    BY <1>7 DEF NbLacing
  <2> DEFINE x == Len(o.lacing)  y == o.lacing_begin
  <2>2. x \in Nat /\ y \in Nat /\ y <= x /\ d \in Nat
    BY <1>1, <1>2, <1>8
  <2>3. NbLacing(o) = x - y /\ NbLacing(s) = (x + (d + 1)) - y
    BY <1>6, <2>1
  <2> HIDE DEF x, y
  <2> QED
    BY <2>2, <2>3
<1>12. ASSUME NbLacing(s) > PageLacings
       PROVE  /\ \A i \in (s.lacing_begin + 1)..(Len(s.lacing) - 1) : s.lacing[i] = Unit
              /\ (NbLacing(s) - 1) * Unit <= Len(s.buf) - s.buf_begin
  <2>1. NbLacing(o) = 0 /\ Len(o.buf) - o.buf_begin = bytes
    BY <1>2, <1>4, <1>11, <1>12, PackerAssumption
  <2>2. NbLacing(s) - 1 = d
    BY <1>2, <1>11, <2>1
  <2>3. Len(o.lacing) = o.lacing_begin
    BY <1>1, <2>1 DEF NbLacing
  <2> DEFINE x == Len(o.lacing)
  <2>4. x \in Nat /\ Len(l) = x + (d + 1)
    BY <1>1, <1>6
  <2>5. \A i \in 1..(d + 1) : l[x + i] = t[i]
    BY <1>6
  <2>6. s.lacing = l /\ s.lacing_begin = x /\ Len(s.buf) - s.buf_begin = bytes
    BY <1>7, <2>1, <2>3
  <2> HIDE DEF x
  <2>7. ASSUME NEW i \in (x + 1)..(Len(l) - 1)
        PROVE  l[i] = Unit
    <3>1. /\ i - x \in 1..d /\ i - x \in 1..(d + 1) /\ x + (i - x) = i
      BY <1>2, <2>4
    <3> QED
      BY <1>2, <2>5, <3>1
  <2> QED
    BY <1>2, <2>2, <2>6, <2>7
<1>13. Shape(s)
  BY <1>9, <1>10, <1>12 DEF Shape, Laid, Oversized
<1> QED
  BY <1>3, <1>7, <1>11, <1>13

-----------------------------------------------------------------------------
(* A page is made of what waits *)

\* s has page p besides those of o, after them.
OneMorePage(o, s, p) ==
  /\ s \in Oggs
  /\ s.lacing = o.lacing /\ s.buf = o.buf
  /\ s.pages = Append(o.pages, p)
  /\ p.lacing_pos = o.lacing_begin /\ p.buf_pos = o.buf_begin
  /\ p.lacing_size \in 1..PageLacings
  /\ s.lacing_begin = o.lacing_begin + p.lacing_size
  /\ s.buf_begin = o.buf_begin + p.buf_size

LEMMA AddUp ==
  /\ \A x, y, z, a \in Nat : x + y <= z => x + y <= z + a /\ x <= z
  /\ \A x, y \in Nat : x + y <= x + y
OBVIOUS

LEMMA OneMorePageKeeps ==
  ASSUME NEW o, Laid(o), NEW p \in PageRecord, NEW s, OneMorePage(o, s, p), Filled(s)
  PROVE  Laid(s)
<1> DEFINE n == Len(o.pages)
           q == s.pages
<1>1. o \in Oggs /\ n \in Nat /\ o.pages \in Seq(PageRecord) /\ s \in Oggs
  BY OggFields DEF Laid, OneMorePage
<1>2. /\ q = Append(o.pages, p)
      /\ p.lacing_pos = o.lacing_begin /\ p.buf_pos = o.buf_begin
      /\ p.lacing_size \in 1..PageLacings
      /\ s.lacing_begin = p.lacing_pos + p.lacing_size
      /\ s.buf_begin = p.buf_pos + p.buf_size
  BY DEF OneMorePage
<1>3. /\ Len(q) = n + 1 /\ q[n + 1] = p
      /\ \A i \in 1..n : q[i] = o.pages[i]
  BY <1>1, <1>2, AppendProperties
<1>4. \A i \in 1..n : /\ o.pages[i].lacing_pos \in Nat /\ o.pages[i].lacing_size \in Nat
                      /\ o.pages[i].buf_pos \in Nat /\ o.pages[i].buf_size \in Nat
  BY <1>1, OggFields
<1>5. /\ p.lacing_pos \in Nat /\ p.lacing_size \in Nat
      /\ p.buf_pos \in Nat /\ p.buf_size \in Nat
  BY PageFields
<1>6. \A i \in 1..n : /\ o.pages[i].lacing_size \in 1..PageLacings
                      /\ o.pages[i].lacing_pos + o.pages[i].lacing_size <= p.lacing_pos
                      /\ o.pages[i].buf_pos + o.pages[i].buf_size <= p.buf_pos
  BY <1>2 DEF Laid, PagesInRange
<1>7. \A i, j \in 1..n : i <= j =>
        /\ o.pages[i].lacing_pos <= o.pages[j].lacing_pos
        /\ o.pages[i].buf_pos <= o.pages[j].buf_pos
  BY DEF Laid, PagesInOrder
<1>8. /\ \A i \in 1..(n - 1) : Adjoin(o.pages[i], o.pages[i + 1])
      /\ n > 0 => /\ o.pages[n].lacing_pos + o.pages[n].lacing_size = p.lacing_pos
                  /\ o.pages[n].buf_pos + o.pages[n].buf_size = p.buf_pos
  BY <1>2 DEF Laid, PagesAdjoin
<1> HIDE DEF n, q
<1>9. ASSUME NEW i \in 1..(n + 1) PROVE i \in 1..n \/ i = n + 1
  BY <1>1
<1>10. PagesInRange(s)
  <2>1. ASSUME NEW i \in 1..(n + 1)
        PROVE  /\ q[i].lacing_size \in 1..PageLacings
               /\ q[i].lacing_pos + q[i].lacing_size <= s.lacing_begin
               /\ q[i].buf_pos + q[i].buf_size <= s.buf_begin
    <3>1. CASE i \in 1..n
      <4>1. /\ q[i] = o.pages[i] /\ o.pages[i].lacing_size \in 1..PageLacings
            /\ o.pages[i].lacing_pos \in Nat /\ o.pages[i].lacing_size \in Nat
            /\ o.pages[i].buf_pos \in Nat /\ o.pages[i].buf_size \in Nat
            /\ o.pages[i].lacing_pos + o.pages[i].lacing_size <= p.lacing_pos
            /\ o.pages[i].buf_pos + o.pages[i].buf_size <= p.buf_pos
        BY <1>3, <1>4, <1>6, <3>1
      <4>2. /\ o.pages[i].lacing_pos + o.pages[i].lacing_size <= s.lacing_begin
            /\ o.pages[i].buf_pos + o.pages[i].buf_size <= s.buf_begin
        <5>1. /\ o.pages[i].lacing_pos + o.pages[i].lacing_size
                     <= p.lacing_pos + p.lacing_size
              /\ o.pages[i].buf_pos + o.pages[i].buf_size <= p.buf_pos + p.buf_size
          BY <1>5, <4>1, AddUp
        <5> QED
          BY <1>2, <5>1
      <4> QED
        BY <4>1, <4>2
    <3>2. CASE i = n + 1
      BY <1>2, <1>3, <1>5, <3>2, AddUp
    <3> QED
      BY <1>9, <3>1, <3>2
  <2> QED
    BY <1>3, <2>1 DEF PagesInRange, q
<1>11. PagesInOrder(s)
  <2>1. ASSUME NEW i \in 1..(n + 1), NEW j \in 1..(n + 1), i <= j
        PROVE  q[i].lacing_pos <= q[j].lacing_pos /\ q[i].buf_pos <= q[j].buf_pos
    <3>1. CASE i \in 1..n /\ j \in 1..n
      BY <1>3, <1>7, <2>1, <3>1
    <3>2. CASE i \in 1..n /\ j = n + 1
      BY <1>3, <1>4, <1>5, <1>6, <3>2, AddUp
    <3>3. CASE i = n + 1
      <4>1. j = n + 1
        BY <1>1, <2>1, <3>3
      <4>2. p.lacing_pos <= p.lacing_pos /\ p.buf_pos <= p.buf_pos
        BY <1>5
      <4> QED
        BY <1>3, <3>3, <4>1, <4>2
    <3> QED
      BY <1>9, <3>1, <3>2, <3>3
  <2> QED
    BY <1>3, <2>1 DEF PagesInOrder, q
<1>12. PagesAdjoin(s)
  <2>1. ASSUME NEW i \in 1..n PROVE Adjoin(q[i], q[i + 1])
    <3>1. CASE i \in 1..(n - 1)
      <4>1. i + 1 \in 1..n
        BY <1>1, <3>1
      <4> QED
        BY <1>3, <1>8, <3>1, <4>1
    <3>2. CASE i = n /\ n > 0
      BY <1>3, <1>8, <3>2 DEF Adjoin
    <3> QED
      BY <1>1, <3>1, <3>2
  <2>2. (n + 1) - 1 = n
    BY <1>1
  <2> QED
    BY <1>2, <1>3, <2>1, <2>2 DEF PagesAdjoin, q
<1> QED
  BY <1>1, <1>10, <1>11, <1>12 DEF Laid

\* A full page of a packet whose lacing values are u, but for the last.
LEMMA FullPage ==
  ASSUME NEW n \in Nat, NEW m \in Nat, n > m, NEW u \in Nat,
         NEW x \in Nat, NEW y \in Nat, (n - 1) * u <= x - y
  PROVE  /\ m * u \in Nat /\ y + m * u <= x
         /\ (n - m) - 1 \in Nat
         /\ ((n - m) - 1) * u <= x - (y + m * u)
<1> DEFINE k == (n - 1) - m
           a == m * u
           b == k * u
<1>1. k \in Nat /\ n - 1 = m + k /\ (n - m) - 1 = k
  OBVIOUS
<1>2. a \in Nat /\ b \in Nat
  BY <1>1
<1>3. (n - 1) * u = a + b
  <2>1. (m + k) * u = m * u + k * u
    BY <1>1
  <2> QED
    BY <1>1, <2>1
<1> HIDE DEF a, b
<1>4. a + b <= x - y
  BY <1>3
<1>5. y + a <= x /\ b <= x - (y + a)
  BY <1>2, <1>4
<1> QED
  BY <1>1, <1>2, <1>5 DEF a, b

\* The record WithPage appends, and its two sizes.
LacingTaken(o) == IF NbLacing(o) > PageLacings THEN PageLacings ELSE NbLacing(o)

BytesTaken(o) ==
  IF NbLacing(o) > PageLacings
  THEN PageLacings * o.lacing[o.lacing_begin + 2]
  ELSE Len(o.buf) - o.buf_begin

LEMMA WithPageTakes ==
  ASSUME NEW o, Laid(o), Oversized(o), NothingLeft(o), NbLacing(o) > 0
  PROVE  /\ LacingTaken(o) \in 1..PageLacings /\ BytesTaken(o) \in Nat
         /\ o.lacing_begin + LacingTaken(o) <= Len(o.lacing)
         /\ o.buf_begin + BytesTaken(o) <= Len(o.buf)
         /\ LET n == Len(o.lacing) - (o.lacing_begin + LacingTaken(o))
                b == Len(o.buf) - (o.buf_begin + BytesTaken(o))
            IN /\ n > 0 => NbLacing(o) > PageLacings /\ (n - 1) * Unit <= b
               /\ n = 0 => b = 0
<1> DEFINE x == Len(o.lacing)
           y == o.lacing_begin
           u == Len(o.buf)
           v == o.buf_begin
<1>1. /\ x \in Nat /\ y \in Nat /\ u \in Nat /\ v \in Nat
      /\ y <= x /\ v <= u /\ NbLacing(o) = x - y
      /\ PageLacings \in Nat /\ PageLacings > 1 /\ Unit \in Nat
  <2>1. o \in Oggs /\ y <= x /\ v <= u
    BY DEF Laid, Filled
  <2>2. PageLacings \in Nat /\ PageLacings > 1 /\ Unit \in Nat
    BY PackerAssumption
  <2> QED
    BY <2>1, <2>2, OggFields DEF NbLacing
<1>2. CASE NbLacing(o) > PageLacings
  <2>1. /\ \A i \in (y + 1)..(x - 1) : o.lacing[i] = Unit
        /\ (x - y - 1) * Unit <= u - v
    BY <1>1, <1>2 DEF Oversized
  <2> HIDE DEF x, y, u, v
  <2>2. y + 2 \in (y + 1)..(x - 1)
    BY <1>1, <1>2
  <2>3. o.lacing[y + 2] = Unit
    BY <2>1, <2>2
  <2>4. LacingTaken(o) = PageLacings /\ BytesTaken(o) = PageLacings * Unit
    BY <1>2, <2>3 DEF LacingTaken, BytesTaken, y
  <2>5. /\ x - y \in Nat /\ x - y > PageLacings /\ x - (y + PageLacings) = (x - y) - PageLacings
        /\ y + PageLacings <= x
    BY <1>1, <1>2
  <2>6. /\ PageLacings * Unit \in Nat /\ v + PageLacings * Unit <= u
        /\ ((x - y) - PageLacings) - 1 \in Nat
        /\ (((x - y) - PageLacings) - 1) * Unit <= u - (v + PageLacings * Unit)
    BY <1>1, <2>1, <2>5, FullPage
  <2> DEFINE c == PageLacings * Unit
             e == (((x - y) - PageLacings) - 1) * Unit
  <2>7. (x - (y + PageLacings)) - 1 = ((x - y) - PageLacings) - 1
    BY <2>5
  <2>8. LacingTaken(o) \in 1..PageLacings /\ x - (y + PageLacings) # 0
    BY <1>1, <2>4, <2>5
  <2> QED
    BY <1>2, <2>4, <2>5, <2>6, <2>7, <2>8 DEF x, y, u, v
<1>3. CASE ~(NbLacing(o) > PageLacings)
  <2>1. LacingTaken(o) = x - y /\ BytesTaken(o) = u - v
    BY <1>1, <1>3 DEF LacingTaken, BytesTaken
  <2>2. x - y > 0 /\ ~(x - y > PageLacings)
    BY <1>1, <1>3
  <2> HIDE DEF x, y, u, v
  <2>3. /\ x - y \in 1..PageLacings /\ u - v \in Nat
        /\ y + (x - y) = x /\ v + (u - v) = u /\ x - x = 0 /\ u - u = 0
        /\ x <= x /\ u <= u
    BY <1>1, <2>2
  <2> QED
    BY <2>1, <2>3 DEF x, y, u, v
<1> QED
  BY <1>2, <1>3

LEMMA WithPageKeeps ==
  ASSUME NEW o, Laid(o), Room(o), Len(o.pages) + 1 <= o.pages_size,
         Oversized(o), NothingLeft(o), NbLacing(o) > 0, NEW cont \in BOOLEAN
  PROVE  LET s == WithPage(o, cont)
         IN /\ Shape(s) /\ NothingLeft(s) /\ NbLacing(s) \in Nat
            /\ s.buf = o.buf /\ s.buf_size = o.buf_size
            /\ s.curr_granule = o.curr_granule /\ s.last_granule = o.last_granule
            /\ s.muxing_delay = o.muxing_delay
<1> DEFINE full == NbLacing(o) > PageLacings
           n == LacingTaken(o)
           z == BytesTaken(o)
           p == [granulepos |-> IF full THEN -1 ELSE o.curr_granule,
                 lacing_pos |-> o.lacing_begin,
                 lacing_size |-> n,
                 buf_pos |-> o.buf_begin,
                 buf_size |-> z,
                 cont |-> cont,
                 eos |-> ~full /\ o.is_eos,
                 bos |-> o.pageno = 0,
                 pageno |-> o.pageno]
           q == Append(o.pages, p)
           k == o.lacing_begin + n
           m == o.buf_begin + z
           s == [o EXCEPT !.pages = q, !.lacing_begin = k, !.buf_begin = m,
                          !.pageno = @ + 1]
<1>1. /\ o \in Oggs /\ Len(o.pages) \in Nat /\ o.pages \in Seq(PageRecord)
      /\ o.lacing_begin \in Nat /\ o.buf_begin \in Nat
      /\ Len(o.lacing) \in Nat /\ Len(o.buf) \in Nat
  BY OggFields DEF Laid
<1>2. /\ n \in 1..PageLacings /\ z \in Nat
      /\ k <= Len(o.lacing) /\ m <= Len(o.buf)
      /\ Len(o.lacing) - k > 0 =>
           full /\ ((Len(o.lacing) - k) - 1) * Unit <= Len(o.buf) - m
      /\ Len(o.lacing) - k = 0 => Len(o.buf) - m = 0
  BY WithPageTakes
<1>3. WithPage(o, cont) = s
  BY DEF WithPage, LacingTaken, BytesTaken
<1>4. n \in Nat /\ k \in Nat /\ m \in Nat
  <2>1. n \in Nat /\ z \in Nat /\ o.lacing_begin \in Nat /\ o.buf_begin \in Nat
    BY <1>1, <1>2
  <2> HIDE DEF n, z
  <2> QED
    BY <2>1
<1> HIDE DEF n, z
<1>5. p \in PageRecord
  <2>1. o.curr_granule \in Nat /\ o.is_eos \in BOOLEAN /\ o.pageno \in Nat
    BY <1>1 DEF Oggs
  <2>2. (IF full THEN -1 ELSE o.curr_granule) \in Int
    BY <2>1
  <2> QED
    BY <1>1, <1>2, <1>4, <2>1, <2>2 DEF PageRecord
<1>6. /\ p.lacing_pos = o.lacing_begin /\ p.buf_pos = o.buf_begin
      /\ p.lacing_size = n /\ p.buf_size = z
  OBVIOUS
<1> HIDE DEF p
<1>7. q \in Seq(PageRecord) /\ Len(q) = Len(o.pages) + 1
  BY <1>1, <1>5, AppendProperties
<1> HIDE DEF q, k, m
<1>8. /\ s \in Oggs
      /\ s.lacing = o.lacing /\ s.lacing_begin = k
      /\ s.buf_begin = m /\ s.buf = o.buf /\ s.pages = q
      /\ s.buf_size = o.buf_size /\ s.lacing_size = o.lacing_size
      /\ s.pages_size = o.pages_size
      /\ s.curr_granule = o.curr_granule /\ s.last_granule = o.last_granule
      /\ s.muxing_delay = o.muxing_delay
  <2>1. o.pageno + 1 \in Nat
    BY <1>1 DEF Oggs
  <2> QED
    BY <1>1, <1>4, <1>7, <2>1 DEF Oggs
<1> HIDE DEF s
<1>9. Filled(s)
  BY <1>2, <1>8 DEF Filled
<1>10. Laid(s)
  <2>1. OneMorePage(o, s, p)
    BY <1>2, <1>6, <1>8 DEF OneMorePage, q, k, m
  <2> QED
    BY <1>5, <1>9, <2>1, OneMorePageKeeps
<1>11. Room(s)
  BY <1>7, <1>8 DEF Room
<1>12. NbLacing(s) = Len(o.lacing) - k /\ Len(s.buf) - s.buf_begin = Len(o.buf) - m
  BY <1>8 DEF NbLacing
<1>13. NbLacing(s) \in Nat
  <2> DEFINE x == Len(o.lacing)
  <2>1. x \in Nat /\ k \in Nat /\ k <= x /\ NbLacing(s) = x - k
    BY <1>1, <1>2, <1>4, <1>12
  <2> HIDE DEF x
  <2> QED
    BY <2>1
<1>14. NothingLeft(s)
  <2>1. ASSUME NbLacing(s) = 0 PROVE s.buf_begin = Len(s.buf)
    <3> DEFINE u == Len(o.buf)
    <3>1. u - m = 0 /\ s.buf_begin = m /\ Len(s.buf) = u /\ u \in Nat /\ m \in Nat
      BY <1>1, <1>2, <1>4, <1>8, <1>12, <2>1
    <3> HIDE DEF u
    <3> QED
      BY <3>1
  <2> QED
    BY <2>1 DEF NothingLeft
<1>15. Oversized(s)
  <2>1. ASSUME NbLacing(s) > PageLacings
        PROVE  /\ \A i \in (s.lacing_begin + 1)..(Len(s.lacing) - 1) : s.lacing[i] = Unit
               /\ (NbLacing(s) - 1) * Unit <= Len(s.buf) - s.buf_begin
    <3>1. Len(o.lacing) - k > 0
      BY <1>12, <1>13, <2>1, PackerAssumption
    <3>2. (NbLacing(s) - 1) * Unit <= Len(s.buf) - s.buf_begin
      BY <1>2, <1>12, <3>1
    <3>3. \A i \in (o.lacing_begin + 1)..(Len(o.lacing) - 1) : o.lacing[i] = Unit
      BY <1>2, <3>1 DEF Oversized
    <3> DEFINE x == Len(o.lacing)
               y == o.lacing_begin
    <3>4. ASSUME NEW i \in (k + 1)..(x - 1) PROVE o.lacing[i] = Unit
      <4>1. x \in Nat /\ y \in Nat /\ k = y + n /\ n \in Nat
        BY <1>1, <1>4 DEF k
      <4>2. i \in (y + 1)..(x - 1)
        <5> HIDE DEF x, y
        <5> QED
          BY <4>1
      <4> QED
        BY <3>3, <4>2
    <3> QED
      BY <1>8, <3>2, <3>4
  <2> QED
    BY <2>1 DEF Oversized
<1>16. Shape(s)
  BY <1>10, <1>11, <1>15 DEF Shape, Laid
<1> QED
  BY <1>3, <1>8, <1>13, <1>14, <1>16

-----------------------------------------------------------------------------
(* Whole operations on the struct *)

\* What a call that commits nothing keeps.
Stays(o, s) ==
  /\ Shape(s) /\ NothingLeft(s) /\ NbLacing(s) = NbLacing(o)
  /\ Len(s.buf) <= Len(o.buf)
  /\ s.curr_granule = o.curr_granule /\ s.last_granule = o.last_granule
  /\ s.muxing_delay = o.muxing_delay

LEMMA ShiftedStays ==
  ASSUME NEW o, Shape(o), NothingLeft(o)
  PROVE  Stays(o, Shifted(o)) /\ Shifted(o).buf_size = o.buf_size
<1>1. Laid(o) /\ Room(o) /\ Oversized(o)
  BY DEF Shape, Laid
<1>2. Kept(o, Shifted(o))
  BY <1>1, ShiftedKeeps
<1> QED
  BY <1>1, <1>2 DEF Kept, Stays, Shape, Laid

LEMMA StaysItself ==
  ASSUME NEW o, Shape(o), NothingLeft(o)
  PROVE  Stays(o, o)
<1>1. Len(o.buf) \in Nat
  BY OggFields DEF Shape
<1>2. Len(o.buf) <= Len(o.buf)
  BY <1>1
<1> QED
  BY <1>2 DEF Stays

LEMMA GrownBufStays ==
  ASSUME NEW o, Shape(o), NothingLeft(o), NEW bytes \in Nat
  PROVE  Stays(o, GrownBuf(o, bytes)) /\ BufFits(GrownBuf(o, bytes), bytes)
<1> DEFINE s == GrownBuf(o, bytes)
<1>1. Laid(o) /\ Room(o) /\ Oversized(o) /\ o \in Oggs
  BY DEF Shape, Laid
<1>2. /\ s.curr_granule = o.curr_granule /\ s.last_granule = o.last_granule
      /\ s.muxing_delay = o.muxing_delay
  BY <1>1 DEF GrownBuf, Oggs
<1> HIDE DEF s
<1>3. SameRanges(o, s) /\ Room(s) /\ BufFits(s, bytes)
  BY <1>1, GrownBufKeeps DEF s
<1>4. Laid(s) /\ NbLacing(s) = NbLacing(o) /\ Oversized(s) /\ NothingLeft(s)
  BY <1>1, <1>3, SameRangesKeep
<1>5. Len(s.buf) <= Len(o.buf)
  <2>1. s.buf = o.buf /\ Len(o.buf) \in Nat
    BY <1>1, <1>3, OggFields DEF SameRanges
  <2> QED
    BY <2>1
<1> QED
  BY <1>2, <1>3, <1>4, <1>5 DEF Stays, Shape, Laid, s

\* The packet's bytes in the buffer; its lacing values too, as AppendPacket has it.
FilledWith(o, k, bytes) == [o EXCEPT !.buf = @ \o PacketData(k, bytes)]

Appended(o, k, bytes, g, eos) ==
  LET n == bytes \div Unit + 1
      filled == FilledWith(o, k, bytes)
      shifted == IF LacingFits(filled, n) THEN filled ELSE Shifted(filled)
      grown == IF LacingFits(shifted, n) THEN shifted ELSE GrownLacing(shifted, n)
  IN WithLacing(grown, bytes, g, eos)

LEMMA PacketJoins ==
  ASSUME NEW o, Shape(o), NothingLeft(o),
         NEW k \in Nat, NEW bytes \in Nat, NEW g \in Nat, NEW eos \in BOOLEAN,
         Len(o.buf) + bytes <= o.buf_size,
         NbLacing(o) + bytes \div Unit + 1 <= PageLacings \/ NbLacing(o) = 0
  PROVE  LET s == Appended(o, k, bytes, g, eos)
             torn == Shifted(FilledWith(o, k, bytes))
         IN /\ Shape(s) /\ NbLacing(s) > 0
            /\ s.curr_granule = g /\ s.last_granule = o.last_granule
            /\ s.muxing_delay = o.muxing_delay
            /\ s.buf_size = o.buf_size /\ Len(s.buf) <= Len(o.buf) + bytes
            /\ Shape(torn)
            /\ torn.buf_size = o.buf_size /\ Len(torn.buf) <= Len(o.buf) + bytes
<1> DEFINE n == bytes \div Unit + 1
           filled == FilledWith(o, k, bytes)
           shifted == IF LacingFits(filled, n) THEN filled ELSE Shifted(filled)
           grown == IF LacingFits(shifted, n) THEN shifted ELSE GrownLacing(shifted, n)
           s == WithLacing(grown, bytes, g, eos)
<1>1. Laid(o) /\ Room(o) /\ Oversized(o) /\ o \in Oggs
  BY DEF Shape, Laid
<1>2. /\ Laid(filled)
      /\ filled.lacing = o.lacing /\ filled.lacing_begin = o.lacing_begin
      /\ filled.buf_begin = o.buf_begin /\ Len(filled.buf) = Len(o.buf) + bytes
      /\ filled.pages = o.pages
      /\ filled.buf_size = o.buf_size /\ filled.lacing_size = o.lacing_size
      /\ filled.pages_size = o.pages_size
      /\ filled.curr_granule = o.curr_granule /\ filled.last_granule = o.last_granule
      /\ filled.muxing_delay = o.muxing_delay
  BY <1>1, WithPacketKeeps, ZenonT(60) DEF FilledWith
<1> HIDE DEF filled
<1>3. Room(filled)
  BY <1>1, <1>2 DEF Room
<1>4. NbLacing(filled) = NbLacing(o)
  BY <1>2 DEF NbLacing
<1>5. Oversized(filled)
  <2>1. ASSUME NbLacing(o) > PageLacings
        PROVE  (NbLacing(o) - 1) * Unit <= Len(filled.buf) - filled.buf_begin
    <3> DEFINE x == (NbLacing(o) - 1) * Unit
               u == Len(o.buf)
               v == o.buf_begin
    <3>1. x <= u - v
      BY <1>1, <2>1 DEF Oversized
    <3>2. /\ u \in Nat /\ v \in Nat
          /\ Len(filled.buf) - filled.buf_begin = (u + bytes) - v
      BY <1>1, <1>2, OggFields
    <3>3. x \in Int
      <4>1. NbLacing(o) \in Int /\ Unit \in Int
        BY <1>1, OggFields, PackerAssumption DEF NbLacing
      <4> QED
        BY <4>1
    <3> HIDE DEF x, u, v
    <3>4. x <= (u + bytes) - v
      BY <3>1, <3>2, <3>3
    <3> QED
      BY <3>2, <3>4 DEF x
  <2> QED
    BY <1>1, <1>2, <1>4, <2>1 DEF Oversized
<1>6. NbLacing(o) = 0 => Len(filled.buf) - filled.buf_begin = bytes
  <2> DEFINE u == Len(o.buf)
  <2>1. ASSUME NbLacing(o) = 0 PROVE Len(filled.buf) = u + bytes /\ filled.buf_begin = u
    BY <1>2, <2>1 DEF NothingLeft
  <2>2. u \in Nat
    BY <1>1, OggFields
  <2>3. (u + bytes) - u = bytes
    <3> HIDE DEF u
    <3> QED
      BY <2>2
  <2> QED
    BY <2>1, <2>3
<1>7. Kept(filled, Shifted(filled))
  BY <1>2, ShiftedKeeps
<1>8. /\ Shape(Shifted(filled)) /\ NbLacing(Shifted(filled)) = NbLacing(o)
      /\ Shifted(filled).buf_size = o.buf_size
      /\ Len(Shifted(filled).buf) <= Len(o.buf) + bytes
  BY <1>2, <1>3, <1>4, <1>5, <1>7 DEF Kept, Shape, Laid
<1>9. /\ Laid(shifted) /\ Room(shifted) /\ NbLacing(shifted) = NbLacing(o)
      /\ Len(shifted.buf) - shifted.buf_begin = Len(filled.buf) - filled.buf_begin
      /\ shifted.last_granule = o.last_granule /\ shifted.muxing_delay = o.muxing_delay
      /\ shifted.buf_size = o.buf_size /\ Len(shifted.buf) <= Len(o.buf) + bytes
  <2>1. Len(filled.buf) <= Len(o.buf) + bytes
    BY <1>1, <1>2, OggFields
  <2> QED
    BY <1>2, <1>3, <1>4, <1>7, <1>8, <2>1 DEF Kept
<1> HIDE DEF shifted
<1>10. n \in Nat
  BY LacingOf
<1> HIDE DEF n
<1>11. /\ Laid(grown) /\ NbLacing(grown) = NbLacing(o) /\ LacingFits(grown, n)
       /\ Len(grown.buf) <= grown.buf_size /\ Len(grown.pages) <= grown.pages_size
       /\ Len(grown.buf) - grown.buf_begin = Len(filled.buf) - filled.buf_begin
       /\ grown.last_granule = o.last_granule /\ grown.muxing_delay = o.muxing_delay
       /\ grown.buf_size = o.buf_size /\ Len(grown.buf) <= Len(o.buf) + bytes
  <2>1. CASE LacingFits(shifted, n)
    BY <1>9, <2>1 DEF Room
  <2>2. CASE ~LacingFits(shifted, n)
    <3> DEFINE w == GrownLacing(shifted, n)
    <3>1. /\ SameRanges(shifted, w) /\ LacingFits(w, n)
          /\ w.buf_size = shifted.buf_size /\ w.pages_size = shifted.pages_size
          /\ w.last_granule = shifted.last_granule /\ w.muxing_delay = shifted.muxing_delay
      BY <1>9, <1>10, GrownLacingKeeps
    <3>2. grown = w
      BY <2>2
    <3> HIDE DEF w, grown
    <3>3. Laid(w) /\ NbLacing(w) = NbLacing(shifted)
      BY <1>9, <3>1, SameRangesKeep
    <3> QED
      BY <1>9, <3>1, <3>2, <3>3 DEF SameRanges, Room
  <2> QED
    BY <2>1, <2>2
<1> HIDE DEF grown
<1>12. \/ NbLacing(grown) + bytes \div Unit + 1 <= PageLacings
       \/ NbLacing(grown) = 0 /\ Len(grown.buf) - grown.buf_begin = bytes
  BY <1>6, <1>11
<1>13. /\ Shape(s) /\ NbLacing(s) > 0
       /\ s.curr_granule = g /\ s.last_granule = grown.last_granule
       /\ s.muxing_delay = grown.muxing_delay
       /\ s.buf = grown.buf /\ s.buf_size = grown.buf_size
  BY <1>11, <1>12, WithLacingKeeps DEF n
<1> QED
  <2>1. Appended(o, k, bytes, g, eos) = s
    BY DEF Appended, s, grown, shifted, n, filled
  <2> HIDE DEF s
  <2>2. /\ Shape(s) /\ NbLacing(s) > 0
        /\ s.curr_granule = g /\ s.last_granule = o.last_granule
        /\ s.muxing_delay = o.muxing_delay
        /\ s.buf_size = o.buf_size /\ Len(s.buf) <= Len(o.buf) + bytes
    BY <1>11, <1>13
  <2> QED
    BY <1>8, <2>1, <2>2 DEF filled

Handed == [lacing : Seq(0..Unit), body : Seq(Nat \X Nat), granulepos : Int,
           cont : BOOLEAN, bos : BOOLEAN, eos : BOOLEAN, pageno : Nat \cup {-1},
           serialno : Nat]

\* A range of a sequence is a sequence.
LEMMA RangeIsSeq ==
  ASSUME NEW S, NEW s \in Seq(S), NEW x \in Nat, NEW y \in Nat, x + y <= Len(s)
  PROVE  SubSeq(s, x + 1, x + y) \in Seq(S)
<1>1. Len(s) \in Nat
  BY LenProperties
<1>2. ASSUME NEW i \in (x + 1)..(x + y) PROVE s[i] \in S
  <2>1. i \in 1..Len(s)
    BY <1>1
  <2> QED
    BY <2>1, ElementOfSeq
<1> QED
  BY <1>2, SubSeqProperties

LEMMA WithHeaderKeeps ==
  ASSUME NEW o \in Oggs, NEW p
  PROVE  LET h == WithHeader(o, p)
         IN /\ h \in Oggs /\ Len(h.buf) = Len(o.buf)
            /\ h.lacing = o.lacing /\ h.lacing_begin = o.lacing_begin
            /\ h.buf_begin = o.buf_begin /\ h.pages = o.pages
            /\ h.buf_size = o.buf_size /\ h.lacing_size = o.lacing_size
            /\ h.pages_size = o.pages_size /\ h.serialno = o.serialno
            /\ h.curr_granule = o.curr_granule /\ h.last_granule = o.last_granule
            /\ h.muxing_delay = o.muxing_delay
<1> DEFINE b == [x \in DOMAIN o.buf |->
                   IF x - 1 < p.buf_pos /\ x - 1 >= p.buf_pos - (FixedHeader + p.lacing_size)
                   THEN HeaderByte ELSE o.buf[x]]
           h == [o EXCEPT !.buf = b]
<1>1. /\ Len(o.buf) \in Nat /\ DOMAIN o.buf = 1..Len(o.buf)
      /\ \A i \in 1..Len(o.buf) : o.buf[i] \in Nat \X Nat
  BY OggFields
<1>2. HeaderByte \in Nat \X Nat
  BY DEF HeaderByte
<1>3. b \in [1..Len(o.buf) -> Nat \X Nat]
  BY <1>1, <1>2
<1>4. b \in Seq(Nat \X Nat) /\ Len(b) = Len(o.buf)
  BY <1>1, <1>3, FunctionIsSeq
<1>5. WithHeader(o, p) = h
  BY DEF WithHeader
<1> HIDE DEF b
<1>6. /\ h \in Oggs /\ h.buf = b
      /\ h.lacing = o.lacing /\ h.lacing_begin = o.lacing_begin
      /\ h.buf_begin = o.buf_begin /\ h.pages = o.pages
      /\ h.buf_size = o.buf_size /\ h.lacing_size = o.lacing_size
      /\ h.pages_size = o.pages_size /\ h.serialno = o.serialno
      /\ h.curr_granule = o.curr_granule /\ h.last_granule = o.last_granule
      /\ h.muxing_delay = o.muxing_delay
  BY <1>4 DEF Oggs
<1> HIDE DEF h
<1> QED
  BY <1>4, <1>5, <1>6

LEMMA PageAtType ==
  ASSUME NEW h, Laid(h), NEW i \in 1..Len(h.pages)
  PROVE  PageAt(h, h.pages[i]) \in Handed
<1> DEFINE p == h.pages[i]
<1>1. /\ h \in Oggs /\ h.serialno \in Nat
      /\ h.lacing \in Seq(0..Unit) /\ Len(h.lacing) \in Nat /\ h.lacing_begin \in Nat
      /\ h.buf \in Seq(Nat \X Nat) /\ Len(h.buf) \in Nat /\ h.buf_begin \in Nat
      /\ p \in PageRecord
      /\ p.lacing_pos \in Nat /\ p.lacing_size \in Nat
      /\ p.buf_pos \in Nat /\ p.buf_size \in Nat
  BY OggFields DEF Laid, Oggs
<1>2. /\ p.granulepos \in Int /\ p.cont \in BOOLEAN /\ p.eos \in BOOLEAN
      /\ p.bos \in BOOLEAN /\ p.pageno \in Nat
  BY <1>1 DEF PageRecord
<1>3. /\ p.lacing_pos + p.lacing_size <= h.lacing_begin /\ h.lacing_begin <= Len(h.lacing)
      /\ p.buf_pos + p.buf_size <= h.buf_begin /\ h.buf_begin <= Len(h.buf)
  BY DEF Laid, Filled, PagesInRange
<1> HIDE DEF p
<1>4. /\ p.lacing_pos + p.lacing_size <= Len(h.lacing)
      /\ p.buf_pos + p.buf_size <= Len(h.buf)
  <2>1. \A x, y, z, w \in Nat : x + y <= z /\ z <= w => x + y <= w
    OBVIOUS
  <2> QED
    BY <1>1, <1>3, <2>1
<1>5. /\ SubSeq(h.lacing, p.lacing_pos + 1, p.lacing_pos + p.lacing_size) \in Seq(0..Unit)
      /\ SubSeq(h.buf, p.buf_pos + 1, p.buf_pos + p.buf_size) \in Seq(Nat \X Nat)
  BY <1>1, <1>4, RangeIsSeq
<1>6. PageAt(h, p) \in Handed
  BY <1>1, <1>2, <1>5 DEF PageAt, Handed
<1> QED
  BY <1>6 DEF p

\* The first page leaves the queue.
LEMMA HandedOutStays ==
  ASSUME NEW o, Shape(o), NothingLeft(o), o.pages # <<>>
  PROVE  LET h == WithHeader(o, o.pages[1])
             s == [h EXCEPT !.pages = Tail(@)]
         IN Stays(o, s) /\ Len(s.buf) = Len(o.buf) /\ s.buf_size = o.buf_size
            /\ PageAt(h, o.pages[1]) \in Handed
<1> DEFINE h == WithHeader(o, o.pages[1])
           q == Tail(h.pages)
           s == [h EXCEPT !.pages = q]
           n == Len(o.pages)
<1>1. /\ o \in Oggs /\ Filled(o) /\ Room(o) /\ Oversized(o)
      /\ PagesInRange(o) /\ PagesInOrder(o) /\ PagesAdjoin(o)
      /\ n \in Nat /\ o.pages \in Seq(PageRecord) /\ Len(o.buf) \in Nat
      /\ o.pages_size \in Nat
  BY OggFields DEF Shape, Oggs
<1>2. /\ h \in Oggs /\ Len(h.buf) = Len(o.buf)
      /\ h.lacing = o.lacing /\ h.lacing_begin = o.lacing_begin
      /\ h.buf_begin = o.buf_begin /\ h.pages = o.pages
      /\ h.buf_size = o.buf_size /\ h.lacing_size = o.lacing_size
      /\ h.pages_size = o.pages_size
      /\ h.curr_granule = o.curr_granule /\ h.last_granule = o.last_granule
      /\ h.muxing_delay = o.muxing_delay
  BY <1>1, WithHeaderKeeps
<1> HIDE DEF h
<1>3. n > 0 /\ 1 \in 1..n
  BY <1>1, EmptySeq
<1>4. Laid(h)
  BY <1>1, <1>2 DEF Laid, Filled, PagesInRange, PagesInOrder, PagesAdjoin
<1>5. PageAt(h, o.pages[1]) \in Handed
  BY <1>2, <1>3, <1>4, PageAtType
<1>6. /\ q \in Seq(PageRecord) /\ Len(q) = n - 1
      /\ \A i \in 1..(n - 1) : q[i] = o.pages[i + 1]
  <2>1. /\ q \in Seq(PageRecord) /\ Len(q) = n - 1
        /\ \A i \in 1..Len(q) : q[i] = o.pages[i + 1]
    BY <1>1, <1>2, HeadTailProperties
  <2> QED
    BY <2>1
<1> HIDE DEF q
<1>7. /\ s \in Oggs /\ s.pages = q /\ s.buf = h.buf
      /\ s.lacing = o.lacing /\ s.lacing_begin = o.lacing_begin
      /\ s.buf_begin = o.buf_begin
      /\ s.buf_size = o.buf_size /\ s.lacing_size = o.lacing_size
      /\ s.pages_size = o.pages_size
      /\ s.curr_granule = o.curr_granule /\ s.last_granule = o.last_granule
      /\ s.muxing_delay = o.muxing_delay
  BY <1>2, <1>6 DEF Oggs
<1> HIDE DEF s
<1>8. /\ \A i \in 1..n :
           /\ o.pages[i].lacing_size \in 1..PageLacings
           /\ o.pages[i].lacing_pos + o.pages[i].lacing_size <= o.lacing_begin
           /\ o.pages[i].buf_pos + o.pages[i].buf_size <= o.buf_begin
      /\ \A i, j \in 1..n : i <= j =>
           /\ o.pages[i].lacing_pos <= o.pages[j].lacing_pos
           /\ o.pages[i].buf_pos <= o.pages[j].buf_pos
      /\ \A i \in 1..(n - 1) : Adjoin(o.pages[i], o.pages[i + 1])
      /\ o.pages[n].lacing_pos + o.pages[n].lacing_size = o.lacing_begin
      /\ o.pages[n].buf_pos + o.pages[n].buf_size = o.buf_begin
  BY <1>1, <1>3 DEF PagesInRange, PagesInOrder, PagesAdjoin
<1>9. Len(q) <= s.pages_size
  BY <1>1, <1>6, <1>7 DEF Room
<1> HIDE DEF n
<1>10. /\ \A i \in 1..(n - 1) : i + 1 \in 1..n
       /\ \A i, j \in 1..(n - 1) : i <= j => i + 1 <= j + 1
       /\ \A i \in 1..(n - 2) : i \in 1..(n - 1) /\ i + 1 \in 1..(n - 1)
       /\ (n - 1) - 1 = n - 2
       /\ n - 1 > 0 => n - 1 \in 1..(n - 1) /\ (n - 1) + 1 = n
  BY <1>1
<1>11. PagesInRange(s)
  BY <1>6, <1>7, <1>8, <1>10 DEF PagesInRange
<1>12. PagesInOrder(s)
  BY <1>6, <1>7, <1>8, <1>10 DEF PagesInOrder
<1>13. PagesAdjoin(s)
  <2>1. \A i \in 1..(n - 2) : Adjoin(q[i], q[i + 1])
    BY <1>6, <1>8, <1>10
  <2>2. n - 1 > 0 => q[n - 1] = o.pages[n]
    BY <1>6, <1>10
  <2> QED
    BY <1>6, <1>7, <1>8, <1>10, <2>1, <2>2 DEF PagesAdjoin
<1>14. Filled(s) /\ Room(s)
  BY <1>1, <1>2, <1>7, <1>9 DEF Filled, Room
<1>15. NbLacing(s) = NbLacing(o)
  BY <1>7 DEF NbLacing
<1>16. Oversized(s) /\ NothingLeft(s)
  BY <1>1, <1>2, <1>7, <1>15 DEF Oversized, NothingLeft
<1>17. Len(s.buf) = Len(o.buf) /\ Len(s.buf) <= Len(o.buf)
  BY <1>1, <1>2, <1>7
<1>18. Stays(o, s)
  BY <1>7, <1>11, <1>12, <1>13, <1>14, <1>15, <1>16, <1>17 DEF Stays, Shape
<1> QED
  BY <1>5, <1>7, <1>17, <1>18 DEF s, q, h

-----------------------------------------------------------------------------
(* The invariant is inductive *)

Calls == [bytes : Nat, granule : Nat, eos : BOOLEAN,
          next : {"idle", "append", "chain"}, cont : BOOLEAN]

LEMMA Types ==
  TypeOK <=> /\ oggp \in Oggs /\ alloc_size \in Nat
             /\ pc \in {"idle", "flush", "append", "chain", "torn", "overrun", "aborted"}
             /\ call \in Calls /\ asked \in Nat \cup {-1} /\ page \in Handed
             /\ committed \in Nat
BY DEF TypeOK, Oggs, Calls, Handed

LEMMA TypesNext ==
  ASSUME oggp' \in Oggs, alloc_size' \in Nat,
         pc' \in {"idle", "flush", "append", "chain", "torn", "overrun", "aborted"},
         call' \in Calls, asked' \in Nat \cup {-1}, page' \in Handed, committed' \in Nat
  PROVE  TypeOK'
BY DEF TypeOK, Oggs, Calls, Handed

LEMMA NoCallType == NoCall \in Calls
BY DEF NoCall, Calls

\* Control after a call that does not wait to append a packet.
LEMMA ControlNext ==
  ASSUME NothingLeft(oggp'), Len(oggp'.buf) + asked' <= oggp'.buf_size,
         \/ pc' = "idle"
         \/ pc' = "flush" /\ NbLacing(oggp') > 0 /\ call'.next # "append"
         \/ pc' = "chain" /\ NbLacing(oggp') = 0
  PROVE  Control'
BY DEF Control, Appending

LEMMA FlushStarts ==
  ASSUME NEW o, NbLacing(o) \in Nat, NEW next \in {"idle", "append", "chain"},
         NEW c \in Calls, StartFlush(o, next, c)
  PROVE  /\ call' \in Calls /\ call'.next = next
         /\ call'.bytes = c.bytes /\ call'.granule = c.granule /\ call'.cont = FALSE
         /\ \/ pc' = "flush" /\ NbLacing(o) > 0
            \/ pc' = next /\ NbLacing(o) = 0
<1> DEFINE n == NbLacing(o)
           r == [c EXCEPT !.next = next, !.cont = FALSE]
<1>1. call' = r /\ pc' = IF n = 0 THEN next ELSE "flush"
  BY DEF StartFlush
<1>2. /\ r \in Calls /\ r.next = next /\ r.bytes = c.bytes /\ r.granule = c.granule
      /\ r.cont = FALSE
  BY DEF Calls
<1>3. n \in Nat
  OBVIOUS
<1> HIDE DEF n, r
<1>4. (n > 0 /\ n # 0) \/ n = 0
  BY <1>3
<1>5. (pc' = "flush" /\ n > 0) \/ (pc' = next /\ n = 0)
  <2>1. pc' = IF n = 0 THEN next ELSE "flush"
    BY <1>1
  <2>2. CASE n = 0
    BY <2>1, <2>2
  <2>3. CASE n > 0 /\ n # 0
    BY <2>1, <2>3
  <2> QED
    BY <1>4, <2>2, <2>3
<1> QED
  BY <1>1, <1>2, <1>5 DEF n

LEMMA Counts ==
  ASSUME NEW o, Shape(o)
  PROVE  NbLacing(o) \in Nat /\ o \in Oggs /\ Len(o.buf) \in Nat /\ o.buf_size \in Nat
<1> DEFINE x == Len(o.lacing)
           y == o.lacing_begin
<1>1. x \in Nat /\ y \in Nat /\ y <= x /\ NbLacing(o) = x - y
  BY OggFields DEF Shape, Filled, NbLacing
<1>2. o \in Oggs /\ Len(o.buf) \in Nat /\ o.buf_size \in Nat
  BY OggFields DEF Shape, Oggs
<1> HIDE DEF x, y
<1> QED
  BY <1>1, <1>2

LEMMA FitsAsk ==
  ASSUME NEW x \in Nat, NEW y \in Nat, NEW z \in Nat, NEW a \in Nat \cup {-1},
         y <= x, x + a <= z
  PROVE  y + a <= z
OBVIOUS

LEMMA HeaderSize == MaxHeaderSize \in Nat /\ \A x \in Nat : x + MaxHeaderSize \in Nat
BY PackerAssumption DEF MaxHeaderSize

LEMMA InitIInv == Init => IInv
<1> SUFFICES ASSUME Init PROVE IInv
  OBVIOUS
<1>1. MaxPageSize \in Nat
  <2>1. PageLacings * Unit \in Nat
    BY PackerAssumption
  <2> QED
    BY <2>1, PackerAssumption DEF MaxPageSize, MaxHeaderSize
<1>2. PageLacings + 1 \in Nat /\ InitialPages \in Nat
  BY PackerAssumption
<1>3. <<>> \in Seq(Nat \X Nat) /\ <<>> \in Seq(0..Unit) /\ <<>> \in Seq(PageRecord)
      /\ Len(<<>>) = 0
  BY EmptySeq
<1>4. /\ oggp \in Oggs
      /\ oggp.buf = <<>> /\ oggp.buf_size = MaxPageSize /\ oggp.buf_begin = 0
      /\ oggp.lacing = <<>> /\ oggp.lacing_size = PageLacings + 1 /\ oggp.lacing_begin = 0
      /\ oggp.pages = <<>> /\ oggp.pages_size = InitialPages
  BY <1>1, <1>2, <1>3 DEF Init, Create, Oggs
<1>5. NbLacing(oggp) = 0
  BY <1>3, <1>4 DEF NbLacing
<1>6. Shape(oggp)
  <2>1. Filled(oggp) /\ Room(oggp)
    BY <1>1, <1>2, <1>3, <1>4 DEF Filled, Room
  <2>2. PagesInRange(oggp) /\ PagesInOrder(oggp) /\ PagesAdjoin(oggp)
    BY <1>3, <1>4 DEF PagesInRange, PagesInOrder, PagesAdjoin
  <2>3. Oversized(oggp)
    BY <1>5, PackerAssumption DEF Oversized
  <2> QED
    BY <1>4, <2>1, <2>2, <2>3 DEF Shape
<1>7. TypeOK
  <2>1. NoPage \in Handed
    BY <1>3 DEF NoPage, Handed
  <2> QED
    BY <1>1, <1>4, <2>1, HeaderSize, NoCallType, Types DEF Init
<1>8. Control
  <2>1. NothingLeft(oggp)
    BY <1>3, <1>4 DEF NothingLeft
  <2>2. Len(oggp.buf) + asked <= oggp.buf_size
    BY <1>1, <1>3, <1>4 DEF Init
  <2> QED
    BY <2>1, <2>2 DEF Init, Control, Appending
<1> QED
  BY <1>6, <1>7, <1>8 DEF IInv

\* What holds between two calls.
LEMMA AtRest ==
  ASSUME IInv
  PROVE  /\ Shape(oggp) /\ oggp \in Oggs /\ call \in Calls /\ asked \in Nat \cup {-1}
         /\ page \in Handed /\ committed \in Nat
         /\ alloc_size \in Nat
         /\ pc \in {"idle", "flush", "append", "chain", "torn", "overrun", "aborted"}
         /\ NbLacing(oggp) \in Nat /\ Len(oggp.buf) \in Nat /\ oggp.buf_size \in Nat
         /\ Len(oggp.buf) + asked <= oggp.buf_size
         /\ pc # "torn" => NothingLeft(oggp)
BY Types, Counts DEF IInv, Control

LEMMA SetMuxingDelayStep ==
  ASSUME IInv, NEW delay \in Delays, SetMuxingDelay(delay)
  PROVE  IInv'
<1> DEFINE s == [oggp EXCEPT !.muxing_delay = delay]
<1>1. delay \in Nat
  BY PackerAssumption
<1>2. Shape(oggp) /\ NothingLeft(oggp) /\ oggp \in Oggs /\ pc = "idle"
  BY AtRest DEF SetMuxingDelay
<1>3. /\ SameRanges(oggp, s) /\ s.buf_size = oggp.buf_size
      /\ s.lacing_size = oggp.lacing_size /\ s.pages_size = oggp.pages_size
  BY <1>1, <1>2 DEF SameRanges, Oggs
<1>4. oggp' = s /\ UNCHANGED <<alloc_size, pc, call, asked, page, committed>>
  BY DEF SetMuxingDelay
<1> HIDE DEF s
<1>5. Shape(s) /\ NothingLeft(s) /\ Len(s.buf) = Len(oggp.buf)
  BY <1>2, <1>3, SameRangesKeep DEF Shape, Laid, Room, SameRanges
<1>6. Shape(oggp') /\ NothingLeft(oggp')
  BY <1>4, <1>5
<1>7. TypeOK'
  BY <1>4, <1>6, AtRest, TypesNext DEF Shape
<1>8. Control'
  <2>1. Len(oggp'.buf) + asked' <= oggp'.buf_size
    BY <1>3, <1>4, <1>5, AtRest
  <2> QED
    BY <1>2, <1>4, <1>6, <2>1, ControlNext
<1> QED
  BY <1>6, <1>7, <1>8 DEF IInv

LEMMA GetPacketBufferStep ==
  ASSUME IInv, NEW bytes \in Sizes, GetPacketBuffer(bytes)
  PROVE  IInv'
<1> DEFINE o == IF BufFits(oggp, bytes) THEN oggp ELSE Shifted(oggp)
           s == IF BufFits(o, bytes) THEN o ELSE GrownBuf(o, bytes)
<1>1. bytes \in Nat
  BY PackerAssumption
<1>2. Shape(oggp) /\ NothingLeft(oggp) /\ pc = "idle"
  BY AtRest DEF GetPacketBuffer
<1>3. oggp' = s /\ asked' = bytes /\ UNCHANGED <<pc, call, page, committed>>
  BY DEF GetPacketBuffer
<1>4. Shape(o) /\ NothingLeft(o)
  BY <1>2, ShiftedStays DEF Stays
<1> HIDE DEF o
<1>5. Shape(s) /\ NothingLeft(s) /\ BufFits(s, bytes)
  BY <1>1, <1>4, GrownBufStays DEF Stays
<1> HIDE DEF s
<1>6. /\ Shape(oggp') /\ NothingLeft(oggp') /\ oggp' \in Oggs
      /\ Len(oggp'.buf) + asked' <= oggp'.buf_size
  BY <1>3, <1>5 DEF Shape, BufFits
<1>7. TypeOK'
  <2>1. alloc_size' = alloc_size \/ alloc_size' = oggp'.buf_size
    BY DEF GetPacketBuffer
  <2>2. alloc_size' \in Nat
    BY <1>6, <2>1, AtRest DEF Oggs
  <2> QED
    BY <1>1, <1>3, <1>6, <2>2, AtRest, TypesNext
<1>8. Control'
  BY <1>2, <1>3, <1>6, ControlNext
<1> QED
  BY <1>6, <1>7, <1>8 DEF IInv

LEMMA GetNoPacketBufferStep ==
  ASSUME IInv, NEW bytes \in Sizes, GetNoPacketBuffer(bytes)
  PROVE  IInv'
<1> DEFINE s == Shifted(oggp)
<1>1. Shape(oggp) /\ NothingLeft(oggp) /\ pc = "idle"
  BY AtRest DEF GetNoPacketBuffer
<1>2. oggp' = s /\ asked' = -1 /\ UNCHANGED <<alloc_size, pc, call, page, committed>>
  BY DEF GetNoPacketBuffer
<1>3. Shape(s) /\ NothingLeft(s)
  BY <1>1, ShiftedStays DEF Stays
<1> HIDE DEF s
<1>4. Shape(oggp') /\ NothingLeft(oggp') /\ oggp' \in Oggs
  BY <1>2, <1>3 DEF Shape
<1>5. Len(oggp'.buf) + asked' <= oggp'.buf_size
  <2> DEFINE x == Len(oggp'.buf)
             y == oggp'.buf_size
  <2>1. x \in Nat /\ y \in Nat /\ x <= y
    BY <1>4, Counts DEF Shape, Room
  <2> HIDE DEF x, y
  <2>2. x + (-1) <= y
    BY <2>1
  <2> QED
    BY <1>2, <2>2 DEF x, y
<1>6. TypeOK'
  BY <1>2, <1>4, AtRest, TypesNext
<1>7. Control'
  BY <1>1, <1>2, <1>4, <1>5, ControlNext
<1> QED
  BY <1>4, <1>6, <1>7 DEF IInv

\* FlushPage and Chain: the struct is left alone.
LEMMA FlushStep ==
  ASSUME IInv, NEW next \in {"idle", "chain"}, pc = "idle",
         StartFlush(oggp, next, NoCall), UNCHANGED <<oggp, alloc_size, asked, page, committed>>
  PROVE  IInv'
<1>1. /\ call' \in Calls /\ call'.next = next
      /\ \/ pc' = "flush" /\ NbLacing(oggp) > 0
         \/ pc' = next /\ NbLacing(oggp) = 0
  <2>1. NbLacing(oggp) \in Nat /\ next \in {"idle", "append", "chain"}
    BY AtRest
  <2> QED
    BY <2>1, NoCallType, FlushStarts
<1>2. /\ Shape(oggp') /\ NothingLeft(oggp') /\ oggp' \in Oggs
      /\ NbLacing(oggp') = NbLacing(oggp)
      /\ Len(oggp'.buf) + asked' <= oggp'.buf_size
  BY AtRest
<1>3. TypeOK'
  BY <1>1, <1>2, AtRest, TypesNext
<1>4. Control'
  BY <1>1, <1>2, ControlNext
<1> QED
  BY <1>2, <1>3, <1>4 DEF IInv

LEMMA CommitPacketStep ==
  ASSUME IInv, NEW bytes \in Sizes, NEW d \in Steps, NEW eos \in BOOLEAN,
         CommitPacket(bytes, oggp.curr_granule + d, eos)
  PROVE  IInv'
<1> DEFINE g == oggp.curr_granule + d
           c == [NoCall EXCEPT !.bytes = bytes, !.granule = g, !.eos = eos]
<1>1. bytes \in Nat /\ g \in Nat
  <2>1. oggp.curr_granule \in Nat
    BY AtRest DEF Oggs
  <2> QED
    BY <2>1, PackerAssumption
<1>2. c \in Calls /\ c.bytes = bytes /\ c.granule = g
  BY <1>1 DEF NoCall, Calls
<1>3. /\ pc = "idle" /\ bytes <= asked /\ asked' = -1
      /\ UNCHANGED <<oggp, alloc_size, page, committed>>
  BY DEF CommitPacket
<1>4. \/ StartFlush(oggp, "append", c)
      \/ /\ NbLacing(oggp) + bytes \div Unit + 1 <= PageLacings
         /\ pc' = "append" /\ call' = c
  <2> DEFINE k == bytes \div Unit
             n == NbLacing(oggp)
  <2>1. n \in Nat /\ k \in Nat /\ PageLacings \in Nat
    BY <1>1, AtRest, LacingOf, PackerAssumption
  <2>2. \/ StartFlush(oggp, "append", c)
        \/ ~(n + k + 1 > PageLacings) /\ pc' = "append" /\ call' = c
    BY DEF CommitPacket
  <2> HIDE DEF k, n
  <2>3. ~(n + k + 1 > PageLacings) => n + k + 1 <= PageLacings
    BY <2>1
  <2> QED
    BY <2>2, <2>3 DEF k, n
<1> HIDE DEF c, g
<1>5. /\ call' \in Calls /\ call'.bytes = bytes
      /\ \/ pc' = "flush" /\ NbLacing(oggp) > 0
         \/ /\ pc' = "append"
            /\ \/ NbLacing(oggp) + bytes \div Unit + 1 <= PageLacings
               \/ NbLacing(oggp) = 0
  <2>1. NbLacing(oggp) \in Nat
    BY AtRest
  <2> QED
    BY <1>2, <1>4, <2>1, FlushStarts
<1>6. Shape(oggp') /\ NothingLeft(oggp') /\ oggp' \in Oggs /\ NbLacing(oggp') = NbLacing(oggp)
  BY <1>3, AtRest
<1>7. TypeOK'
  BY <1>3, <1>5, <1>6, AtRest, TypesNext
<1>8. /\ Len(oggp'.buf) + bytes <= oggp'.buf_size
      /\ Len(oggp'.buf) + asked' <= oggp'.buf_size
  <2> DEFINE x == Len(oggp.buf)
             y == oggp.buf_size
  <2>1. /\ x \in Nat /\ y \in Nat /\ asked \in Nat \cup {-1}
        /\ x + asked <= y /\ oggp' = oggp
    BY <1>3, AtRest
  <2>2. x = Len(oggp'.buf) /\ y = oggp'.buf_size
    BY <2>1
  <2> HIDE DEF x, y
  <2>3. x + bytes <= y /\ x + (-1) <= y
    BY <1>1, <1>3, <2>1
  <2> QED
    BY <1>3, <2>2, <2>3
<1>9. Control'
  BY <1>3, <1>5, <1>6, <1>8 DEF Control, Appending
<1> QED
  BY <1>6, <1>7, <1>9 DEF IInv

LEMMA NewStreamStep ==
  ASSUME IInv, NewStream
  PROVE  IInv' /\ NbLacing(oggp') = 0
<1> DEFINE s == [oggp EXCEPT !.serialno = @ + 1, !.curr_granule = 0,
                             !.last_granule = 0, !.is_eos = FALSE, !.pageno = 0]
<1>1. /\ pc = "chain" /\ oggp' = s /\ pc' = "idle" /\ call' = NoCall
      /\ UNCHANGED <<alloc_size, asked, page, committed>>
  BY DEF NewStream
<1>2. Shape(oggp) /\ NothingLeft(oggp) /\ oggp \in Oggs /\ NbLacing(oggp) = 0
  BY <1>1, AtRest DEF IInv, Control
<1>3. /\ SameRanges(oggp, s) /\ s.buf_size = oggp.buf_size
      /\ s.lacing_size = oggp.lacing_size /\ s.pages_size = oggp.pages_size
  <2>1. oggp.serialno + 1 \in Nat
    BY <1>2 DEF Oggs
  <2> QED
    BY <1>2, <2>1 DEF SameRanges, Oggs
<1> HIDE DEF s
<1>4. /\ Shape(s) /\ NothingLeft(s) /\ NbLacing(s) = NbLacing(oggp)
      /\ Len(s.buf) = Len(oggp.buf)
  BY <1>2, <1>3, SameRangesKeep DEF Shape, Laid, Room, SameRanges
<1>5. /\ Shape(oggp') /\ NothingLeft(oggp') /\ oggp' \in Oggs /\ NbLacing(oggp') = 0
      /\ Len(oggp'.buf) + asked' <= oggp'.buf_size
  BY <1>1, <1>2, <1>3, <1>4, AtRest DEF Shape
<1>6. TypeOK'
  BY <1>1, <1>5, AtRest, NoCallType, TypesNext
<1>7. Control'
  BY <1>1, <1>5, ControlNext
<1> QED
  BY <1>5, <1>6, <1>7 DEF IInv

LEMMA GetNextPageStep ==
  ASSUME IInv, GetNextPage
  PROVE  IInv'
<1> DEFINE h == WithHeader(oggp, oggp.pages[1])
           s == [h EXCEPT !.pages = Tail(@)]
<1>1. /\ pc = "idle" /\ oggp.pages # <<>>
      /\ page' = PageAt(h, oggp.pages[1]) /\ oggp' = s
      /\ UNCHANGED <<alloc_size, pc, call, asked, committed>>
  BY DEF GetNextPage
<1>2. Shape(oggp) /\ NothingLeft(oggp)
  BY <1>1, AtRest
<1>3. /\ Stays(oggp, s) /\ Len(s.buf) = Len(oggp.buf) /\ s.buf_size = oggp.buf_size
      /\ PageAt(h, oggp.pages[1]) \in Handed
  BY <1>1, <1>2, HandedOutStays
<1> HIDE DEF s, h
<1>4. /\ Shape(oggp') /\ NothingLeft(oggp') /\ oggp' \in Oggs /\ page' \in Handed
      /\ Len(oggp'.buf) + asked' <= oggp'.buf_size
  BY <1>1, <1>3, AtRest DEF Stays, Shape
<1>5. TypeOK'
  BY <1>1, <1>4, AtRest, TypesNext
<1>6. Control'
  BY <1>1, <1>4, ControlNext
<1> QED
  BY <1>4, <1>5, <1>6 DEF IInv

LEMMA AppendPacketStep ==
  ASSUME IInv, AppendPacket
  PROVE  IInv' /\ oggp'.curr_granule = call.granule
         /\ oggp'.last_granule = oggp.last_granule
         /\ oggp'.muxing_delay = oggp.muxing_delay
         /\ oggp'.buf_size = oggp.buf_size /\ Len(oggp'.buf) <= Len(oggp.buf) + call.bytes
         /\ ~Appending'
<1> DEFINE k == committed + 1
           b == call.bytes
           g == call.granule
           e == call.eos
           s == Appended(oggp, k, b, g, e)
<1>1. /\ pc = "append" /\ oggp' = s /\ committed' = committed + 1
      /\ UNCHANGED <<alloc_size, asked, page>>
      /\ StartFlush(oggp', "idle", NoCall) \/ (pc' = "idle" /\ call' = NoCall)
  BY DEF AppendPacket, Appended, FilledWith
<1>2. /\ Shape(oggp) /\ NothingLeft(oggp)
      /\ committed + 1 \in Nat
      /\ call.bytes \in Nat /\ call.granule \in Nat /\ call.eos \in BOOLEAN
  BY <1>1, AtRest DEF Calls
<1>3. /\ asked = -1 /\ Len(oggp.buf) + call.bytes <= oggp.buf_size
      /\ NbLacing(oggp) + call.bytes \div Unit + 1 <= PageLacings \/ NbLacing(oggp) = 0
  BY <1>1 DEF IInv, Control, Appending
<1>4. /\ Shape(s) /\ NbLacing(s) > 0
      /\ s.curr_granule = call.granule /\ s.last_granule = oggp.last_granule
      /\ s.muxing_delay = oggp.muxing_delay
      /\ s.buf_size = oggp.buf_size /\ Len(s.buf) <= Len(oggp.buf) + call.bytes
  <2>1. /\ k \in Nat /\ b \in Nat /\ g \in Nat /\ e \in BOOLEAN
        /\ Len(oggp.buf) + b <= oggp.buf_size
        /\ NbLacing(oggp) + b \div Unit + 1 <= PageLacings \/ NbLacing(oggp) = 0
    BY <1>2, <1>3
  <2> HIDE DEF k, b, g, e
  <2>2. /\ Shape(s) /\ NbLacing(s) > 0
        /\ s.curr_granule = g /\ s.last_granule = oggp.last_granule
        /\ s.muxing_delay = oggp.muxing_delay
        /\ s.buf_size = oggp.buf_size /\ Len(s.buf) <= Len(oggp.buf) + b
    BY <1>2, <2>1, PacketJoins
  <2> QED
    BY <2>2 DEF b, g
<1> HIDE DEF s
<1>5. Shape(oggp') /\ oggp' \in Oggs /\ NbLacing(oggp') > 0 /\ NbLacing(oggp') \in Nat
  BY <1>1, <1>4, Counts DEF Shape
<1>6. NothingLeft(oggp')
  <2>1. NbLacing(oggp') # 0
    BY <1>5
  <2> QED
    BY <2>1 DEF NothingLeft
<1>7. /\ call' \in Calls
      /\ pc' = "idle" \/ (pc' = "flush" /\ call'.next = "idle")
  BY <1>1, <1>5, NoCallType, FlushStarts
<1>8. Len(oggp'.buf) + asked' <= oggp'.buf_size
  <2> DEFINE x == Len(oggp'.buf)
             y == oggp'.buf_size
  <2>1. x \in Nat /\ y \in Nat /\ x <= y
    BY <1>5, Counts DEF Shape, Room
  <2> HIDE DEF x, y
  <2>2. x + (-1) <= y
    BY <2>1
  <2> QED
    BY <1>1, <1>3, <2>2 DEF x, y
<1>9. TypeOK'
  BY <1>1, <1>2, <1>5, <1>7, AtRest, TypesNext
<1>10. Control'
  BY <1>5, <1>6, <1>7, <1>8, ControlNext
<1>11. ~Appending'
  BY <1>7 DEF Appending
<1> QED
  BY <1>1, <1>4, <1>5, <1>9, <1>10, <1>11 DEF IInv

LEMMA AppendFailsStep ==
  ASSUME IInv, AppendFails
  PROVE  IInv' /\ oggp'.buf_size = oggp.buf_size /\ Len(oggp'.buf) <= Len(oggp.buf) + call.bytes
<1> DEFINE s == Shifted(FilledWith(oggp, committed + 1, call.bytes))
<1>1. /\ pc = "append" /\ oggp' = s /\ pc' = "torn"
      /\ UNCHANGED <<alloc_size, call, asked, page, committed>>
  BY DEF AppendFails, FilledWith
<1>2. /\ Shape(oggp) /\ NothingLeft(oggp)
      /\ committed + 1 \in Nat
      /\ call.bytes \in Nat /\ call.granule \in Nat /\ call.eos \in BOOLEAN
  BY <1>1, AtRest DEF Calls
<1>3. /\ asked = -1 /\ Len(oggp.buf) + call.bytes <= oggp.buf_size
      /\ NbLacing(oggp) + call.bytes \div Unit + 1 <= PageLacings \/ NbLacing(oggp) = 0
  BY <1>1 DEF IInv, Control, Appending
<1>4. /\ Shape(s)
      /\ s.buf_size = oggp.buf_size /\ Len(s.buf) <= Len(oggp.buf) + call.bytes
  BY <1>2, <1>3, PacketJoins
<1> HIDE DEF s
<1>5. Shape(oggp') /\ oggp' \in Oggs
  BY <1>1, <1>4 DEF Shape
<1>6. Len(oggp'.buf) + asked' <= oggp'.buf_size
  <2> DEFINE x == Len(oggp'.buf)
             y == oggp'.buf_size
  <2>1. x \in Nat /\ y \in Nat /\ x <= y
    BY <1>5, Counts DEF Shape, Room
  <2> HIDE DEF x, y
  <2>2. x + (-1) <= y
    BY <2>1
  <2> QED
    BY <1>1, <1>3, <2>2 DEF x, y
<1>7. TypeOK'
  BY <1>1, <1>5, AtRest, TypesNext
<1>8. Control'
  BY <1>1, <1>6 DEF Control, Appending
<1> QED
  BY <1>1, <1>4, <1>5, <1>7, <1>8 DEF IInv

LEMMA MakePageStep ==
  ASSUME IInv, MakePage
  PROVE  /\ IInv' /\ (pc' = "idle" => NbLacing(oggp') = 0)
         /\ oggp'.buf = oggp.buf /\ oggp'.buf_size = oggp.buf_size
         /\ Appending' => Appending /\ call'.bytes = call.bytes
<1> DEFINE w == GrownPages(oggp)
           o == WithPage(w, call.cont)
           done == NbLacing(o) = 0
           f == [o EXCEPT !.last_granule = o.curr_granule]
           c == [call EXCEPT !.cont = ~done]
<1>1. /\ pc = "flush" /\ UNCHANGED <<alloc_size, asked, page, committed>>
      /\ oggp' = IF done THEN f ELSE o
      /\ pc' = IF done THEN call.next ELSE "flush"
      /\ call' = IF done /\ call.next = "idle" THEN NoCall ELSE c
  BY DEF MakePage
<1>2. /\ Shape(oggp) /\ NothingLeft(oggp) /\ NbLacing(oggp) > 0
      /\ call.cont \in BOOLEAN /\ call.next \in {"idle", "append", "chain"}
      /\ call \in Calls
      /\ call.next = "append" => asked = -1 /\ Len(oggp.buf) + call.bytes <= oggp.buf_size
  BY <1>1, AtRest DEF IInv, Control, Appending, Calls
<1>3. Laid(oggp) /\ Room(oggp) /\ Oversized(oggp)
  BY <1>2 DEF Shape, Laid
<1>4. /\ Laid(w) /\ Room(w) /\ Len(w.pages) + 1 <= w.pages_size
      /\ Oversized(w) /\ NothingLeft(w) /\ NbLacing(w) > 0
      /\ w.buf = oggp.buf /\ w.buf_size = oggp.buf_size
  <2>1. /\ SameRanges(oggp, w) /\ Room(w) /\ Len(w.pages) + 1 <= w.pages_size
        /\ w.buf_size = oggp.buf_size
    BY <1>3, GrownPagesKeeps
  <2> HIDE DEF w
  <2>2. /\ Laid(w) /\ NbLacing(w) = NbLacing(oggp) /\ Oversized(w) /\ NothingLeft(w)
    BY <1>2, <1>3, <2>1, SameRangesKeep
  <2> QED
    BY <1>2, <2>1, <2>2 DEF SameRanges
<1> HIDE DEF w
<1>5. /\ Shape(o) /\ NothingLeft(o) /\ NbLacing(o) \in Nat
      /\ o.buf = oggp.buf /\ o.buf_size = oggp.buf_size
  BY <1>2, <1>4, WithPageKeeps
<1> HIDE DEF o
<1>6. /\ Shape(f) /\ NothingLeft(f) /\ NbLacing(f) = NbLacing(o)
      /\ f.buf = o.buf /\ f.buf_size = o.buf_size
  <2>1. o \in Oggs /\ Laid(o) /\ Room(o) /\ Oversized(o)
    BY <1>5 DEF Shape, Laid
  <2>2. /\ SameRanges(o, f) /\ f.buf_size = o.buf_size
        /\ f.lacing_size = o.lacing_size /\ f.pages_size = o.pages_size
    BY <2>1 DEF SameRanges, Oggs
  <2> HIDE DEF f
  <2>3. Laid(f) /\ NbLacing(f) = NbLacing(o) /\ Oversized(f) /\ NothingLeft(f)
    BY <1>5, <2>1, <2>2, SameRangesKeep
  <2> QED
    BY <2>1, <2>2, <2>3 DEF SameRanges, Shape, Laid, Room
<1>7. /\ c \in Calls /\ c.bytes = call.bytes /\ c.next = call.next
  BY <1>2 DEF Calls
<1> HIDE DEF f, c
<1>8. /\ Shape(oggp') /\ NothingLeft(oggp') /\ oggp' \in Oggs
      /\ NbLacing(oggp') = NbLacing(o)
      /\ oggp'.buf = oggp.buf /\ oggp'.buf_size = oggp.buf_size
  BY <1>1, <1>5, <1>6 DEF Shape
<1>9. /\ pc' \in {"idle", "flush", "append", "chain"} /\ call' \in Calls
      /\ pc' # "flush" => NbLacing(oggp') = 0
      /\ pc' = "flush" => NbLacing(oggp') # 0 /\ call'.next = call.next
      /\ pc' = "append" => call.next = "append"
      /\ call.next = "append" => call'.bytes = call.bytes
  <2>1. CASE done
    BY <1>1, <1>2, <1>7, <1>8, <2>1, NoCallType
  <2>2. CASE ~done
    BY <1>1, <1>2, <1>7, <1>8, <2>2
  <2> QED
    BY <2>1, <2>2
<1>10. TypeOK'
  BY <1>1, <1>8, <1>9, AtRest, TypesNext
<1>11. Control'
  <2>1. Len(oggp'.buf) + asked' <= oggp'.buf_size
    BY <1>1, <1>8, AtRest
  <2>2. NbLacing(oggp') # 0 => NbLacing(oggp') > 0
    BY <1>5, <1>8
  <2>3. Appending' => asked' = -1 /\ Len(oggp'.buf) + call'.bytes <= oggp'.buf_size
    <3>1. Appending' => call.next = "append"
      BY <1>9 DEF Appending
    <3> QED
      BY <1>1, <1>2, <1>8, <1>9, <3>1
  <2> QED
    BY <1>8, <1>9, <2>1, <2>2, <2>3 DEF Control
<1>12. Appending' => Appending /\ call'.bytes = call.bytes
  BY <1>1, <1>9 DEF Appending
<1> QED
  BY <1>8, <1>9, <1>10, <1>11, <1>12 DEF IInv

\* Overruns and PagesFail: the program ends where it is.
LEMMA EndStep ==
  ASSUME IInv, \/ pc = "idle" /\ pc' = "overrun"
               \/ pc = "flush" /\ pc' = "aborted",
         UNCHANGED <<oggp, alloc_size, call, asked, page, committed>>
  PROVE  IInv'
<1>1. /\ Shape(oggp') /\ NothingLeft(oggp') /\ oggp' \in Oggs
      /\ Len(oggp'.buf) + asked' <= oggp'.buf_size
  BY AtRest
<1>2. TypeOK'
  BY AtRest, TypesNext
<1>3. Control'
  BY <1>1 DEF Control, Appending
<1> QED
  BY <1>1, <1>2, <1>3 DEF IInv

LEMMA NextKeepsIInv == IInv /\ [Next]_vars => IInv'
<1> SUFFICES ASSUME IInv, [Next]_vars PROVE IInv'
  OBVIOUS
<1>1. ASSUME NEW delay \in Delays, SetMuxingDelay(delay) PROVE IInv'
  BY <1>1, SetMuxingDelayStep
<1>2. ASSUME NEW bytes \in Sizes, GetPacketBuffer(bytes) PROVE IInv'
  BY <1>2, GetPacketBufferStep
<1>3. ASSUME NEW bytes \in Sizes, GetNoPacketBuffer(bytes) PROVE IInv'
  BY <1>3, GetNoPacketBufferStep
<1>4. ASSUME NEW bytes \in Sizes, NEW d \in Steps, NEW eos \in BOOLEAN,
             CommitPacket(bytes, oggp.curr_granule + d, eos)
      PROVE  IInv'
  BY <1>4, CommitPacketStep
<1>5. CASE AppendPacket
  BY <1>5, AppendPacketStep
<1>6. CASE AppendFails
  BY <1>6, AppendFailsStep
<1>7. CASE FlushPage
  BY <1>7, FlushStep DEF FlushPage
<1>8. CASE MakePage
  BY <1>8, MakePageStep
<1>9. CASE GetNextPage
  BY <1>9, GetNextPageStep
<1>10. CASE Chain
  BY <1>10, FlushStep DEF Chain
<1>11. CASE NewStream
  BY <1>11, NewStreamStep
<1>12. ASSUME NEW bytes \in Sizes, Overruns(bytes) PROVE IInv'
  BY <1>12, EndStep DEF Overruns
<1>13. CASE PagesFail
  BY <1>13, EndStep DEF PagesFail
<1>14. CASE UNCHANGED vars
  BY <1>14 DEF vars, IInv, TypeOK, Control, Appending
<1> QED
  BY <1>1, <1>2, <1>3, <1>4, <1>5, <1>6, <1>7, <1>8, <1>9, <1>10, <1>11, <1>12, <1>13,
     <1>14 DEF Next

-----------------------------------------------------------------------------
(* Theorems *)

THEOREM IInvAlways == Spec => []IInv
BY InitIInv, NextKeepsIInv, PTL DEF Spec

\* Positions, sizes and granules never leave the naturals, whatever is shifted.
THEOREM TypeCorrect == Spec => []TypeOK
<1>1. IInv => TypeOK
  BY DEF IInv
<1> QED
  BY <1>1, IInvAlways, PTL

-----------------------------------------------------------------------------
(* The bytes in the buffer lie in what is allocated, with MaxHeaderSize in  *)
(* front of them: CommitPacket tests it, and a shift takes bytes away.      *)

AllocInv ==
  /\ oggp.buf_size <= alloc_size
  /\ Len(oggp.buf) + MaxHeaderSize <= alloc_size
  /\ Appending => Len(oggp.buf) + call.bytes + MaxHeaderSize <= alloc_size

LEMMA InitAllocInv == Init => AllocInv
<1> SUFFICES ASSUME Init PROVE AllocInv
  OBVIOUS
<1>1. MaxPageSize \in Nat /\ MaxHeaderSize \in Nat
  <2>1. PageLacings * Unit \in Nat
    BY PackerAssumption
  <2> QED
    BY <2>1, PackerAssumption DEF MaxPageSize, MaxHeaderSize
<1>2. /\ oggp.buf = <<>> /\ oggp.buf_size = MaxPageSize /\ pc = "idle"
      /\ alloc_size = MaxPageSize + MaxHeaderSize /\ Len(<<>>) = 0
  BY EmptySeq DEF Init, Create
<1> QED
  BY <1>1, <1>2 DEF AllocInv, Appending

\* A step that allocates nothing and leaves no more in the buffer.
LEMMA AllocStays ==
  ASSUME IInv, AllocInv, alloc_size' = alloc_size, oggp'.buf_size = oggp.buf_size,
         Len(oggp'.buf) \in Nat, Len(oggp'.buf) <= Len(oggp.buf), ~Appending'
  PROVE  AllocInv'
<1> DEFINE x == Len(oggp.buf)
           y == Len(oggp'.buf)
           h == MaxHeaderSize
<1>1. x \in Nat /\ y \in Nat /\ h \in Nat /\ alloc_size \in Nat /\ y <= x
  BY AtRest, HeaderSize
<1>2. x + h <= alloc_size
  BY DEF AllocInv
<1> HIDE DEF x, y, h
<1>3. y + h <= alloc_size
  BY <1>1, <1>2
<1> QED
  BY <1>3 DEF AllocInv, y, h

\* The packet that was waited for.
LEMMA AllocTaken ==
  ASSUME IInv, AllocInv, Appending, call.bytes \in Nat, alloc_size' = alloc_size,
         oggp'.buf_size = oggp.buf_size, Len(oggp'.buf) \in Nat,
         Len(oggp'.buf) <= Len(oggp.buf) + call.bytes, ~Appending'
  PROVE  AllocInv'
<1> DEFINE x == Len(oggp.buf)
           y == Len(oggp'.buf)
           b == call.bytes
           h == MaxHeaderSize
<1>1. /\ x \in Nat /\ y \in Nat /\ b \in Nat /\ h \in Nat /\ alloc_size \in Nat
      /\ y <= x + b
  BY AtRest, HeaderSize
<1>2. x + b + h <= alloc_size
  BY DEF AllocInv
<1> HIDE DEF x, y, b, h
<1>3. y + h <= alloc_size
  BY <1>1, <1>2
<1> QED
  BY <1>3 DEF AllocInv, y, h

LEMMA GetPacketBufferAllocs ==
  ASSUME IInv, IInv', AllocInv, NEW bytes \in Sizes, GetPacketBuffer(bytes)
  PROVE  AllocInv'
<1> DEFINE o == IF BufFits(oggp, bytes) THEN oggp ELSE Shifted(oggp)
<1>1. /\ bytes \in Nat /\ Shape(oggp) /\ NothingLeft(oggp) /\ pc = "idle" /\ pc' = pc
  BY PackerAssumption, AtRest DEF GetPacketBuffer
<1>2. ~Appending'
  BY <1>1 DEF Appending
<1>3. /\ Shape(o) /\ o.buf_size = oggp.buf_size /\ Len(o.buf) <= Len(oggp.buf)
  BY <1>1, ShiftedStays, StaysItself DEF Stays
<1>4. /\ oggp' = IF BufFits(o, bytes) THEN o ELSE GrownBuf(o, bytes)
      /\ alloc_size' = IF oggp'.buf_size = oggp.buf_size THEN alloc_size ELSE oggp'.buf_size
  BY DEF GetPacketBuffer
<1> HIDE DEF o
<1>5. Len(o.buf) \in Nat /\ o.buf_size \in Nat /\ o \in Oggs /\ MaxHeaderSize \in Nat
  BY <1>3, Counts, HeaderSize
<1>6. CASE BufFits(o, bytes)
  BY <1>2, <1>3, <1>4, <1>5, <1>6, AllocStays
<1>7. CASE ~BufFits(o, bytes)
  <2> DEFINE x == Len(o.buf)
             h == MaxHeaderSize
             z == ((x + bytes + h) * 3) \div 2
  <2>1. x \in Nat /\ h \in Nat /\ bytes \in Nat /\ o.buf_size \in Nat
    BY <1>1, <1>5
  <2>2. ~(x + bytes <= o.buf_size)
    BY <1>7 DEF BufFits
  <2>3. oggp' = [o EXCEPT !.buf_size = z]
    BY <1>4, <1>7 DEF GrownBuf
  <2>4. z \in Nat /\ x + bytes + h <= z
    <3>1. (x + bytes) + h \in Nat
      BY <2>1
    <3> QED
      BY <3>1, Grows
  <2>5. oggp'.buf_size = z /\ oggp'.buf = o.buf
    BY <1>5, <2>3 DEF Oggs
  <2> HIDE DEF x, h, z
  <2>6. z # o.buf_size /\ x + h <= z /\ z <= z
    BY <2>1, <2>2, <2>4
  <2>7. alloc_size' = z
    BY <1>3, <1>4, <2>5, <2>6
  <2> QED
    BY <1>2, <2>5, <2>6, <2>7 DEF AllocInv, x, h
<1> QED
  BY <1>6, <1>7

LEMMA CommitPacketAllocs ==
  ASSUME IInv, IInv', AllocInv, NEW bytes \in Sizes, NEW d \in Steps, NEW eos \in BOOLEAN,
         CommitPacket(bytes, oggp.curr_granule + d, eos)
  PROVE  AllocInv'
<1> DEFINE g == oggp.curr_granule + d
           c == [NoCall EXCEPT !.bytes = bytes, !.granule = g, !.eos = eos]
<1>1. bytes \in Nat /\ g \in Nat
  <2>1. oggp.curr_granule \in Nat
    BY AtRest DEF Oggs
  <2> QED
    BY <2>1, PackerAssumption
<1>2. c \in Calls /\ c.bytes = bytes
  BY <1>1 DEF NoCall, Calls
<1>3. /\ UNCHANGED <<oggp, alloc_size>> /\ Len(oggp.buf) + bytes <= Allocated
      /\ StartFlush(oggp, "append", c) \/ (pc' = "append" /\ call' = c)
  BY DEF CommitPacket
<1> HIDE DEF c
<1>4. call'.bytes = bytes
  <2>1. NbLacing(oggp) \in Nat
    BY AtRest
  <2> QED
    BY <1>2, <1>3, <2>1, FlushStarts
<1>5. Len(oggp.buf) + bytes + MaxHeaderSize <= alloc_size
  <2> DEFINE x == Len(oggp.buf)
             h == MaxHeaderSize
  <2>1. x \in Nat /\ h \in Nat /\ alloc_size \in Nat
    BY AtRest, HeaderSize
  <2>2. x + bytes <= alloc_size - h
    BY <1>3 DEF Allocated
  <2> HIDE DEF x, h
  <2>3. x + bytes + h <= alloc_size
    BY <1>1, <2>1, <2>2
  <2> QED
    BY <2>3 DEF x, h
<1> QED
  BY <1>3, <1>4, <1>5 DEF AllocInv

LEMMA NextKeepsAllocInv == IInv /\ AllocInv /\ [Next]_vars => AllocInv'
<1> SUFFICES ASSUME IInv, AllocInv, [Next]_vars PROVE AllocInv'
  OBVIOUS
<1>1. IInv'
  BY NextKeepsIInv
<1>2. /\ Shape(oggp) /\ Len(oggp.buf) \in Nat /\ Len(oggp'.buf) \in Nat
      /\ Len(oggp.buf) <= Len(oggp.buf) /\ oggp \in Oggs
      /\ call.bytes \in Nat
  <2>1. Len(oggp'.buf) \in Nat
    BY <1>1, AtRest
  <2> QED
    BY <2>1, AtRest DEF Calls
<1>3. ASSUME NEW delay \in Delays, SetMuxingDelay(delay) PROVE AllocInv'
  <2>1. /\ oggp'.buf = oggp.buf /\ oggp'.buf_size = oggp.buf_size
        /\ alloc_size' = alloc_size /\ pc' = "idle"
    BY <1>2, <1>3 DEF SetMuxingDelay, Oggs
  <2> QED
    BY <1>2, <2>1, AllocStays DEF Appending
<1>4. ASSUME NEW bytes \in Sizes, GetPacketBuffer(bytes) PROVE AllocInv'
  BY <1>1, <1>4, GetPacketBufferAllocs
<1>5. ASSUME NEW bytes \in Sizes, GetNoPacketBuffer(bytes) PROVE AllocInv'
  <2>1. NothingLeft(oggp) /\ oggp' = Shifted(oggp) /\ alloc_size' = alloc_size /\ pc' = "idle"
    BY <1>5, AtRest DEF GetNoPacketBuffer
  <2>2. oggp'.buf_size = oggp.buf_size /\ Len(oggp'.buf) <= Len(oggp.buf)
    BY <1>2, <2>1, ShiftedStays DEF Stays
  <2> QED
    BY <1>2, <2>1, <2>2, AllocStays DEF Appending
<1>6. ASSUME NEW bytes \in Sizes, NEW d \in Steps, NEW eos \in BOOLEAN,
             CommitPacket(bytes, oggp.curr_granule + d, eos)
      PROVE  AllocInv'
  BY <1>1, <1>6, CommitPacketAllocs
<1>7. CASE AppendPacket
  <2>1. pc = "append" /\ alloc_size' = alloc_size
    BY <1>7 DEF AppendPacket
  <2> QED
    BY <1>2, <1>7, <2>1, AppendPacketStep, AllocTaken DEF Appending
<1>8. CASE AppendFails
  <2>1. pc = "append" /\ alloc_size' = alloc_size /\ pc' = "torn"
    BY <1>8 DEF AppendFails
  <2> QED
    BY <1>2, <1>8, <2>1, AppendFailsStep, AllocTaken DEF Appending
<1>9. CASE FlushPage \/ Chain
  <2>1. /\ UNCHANGED <<oggp, alloc_size>>
        /\ \E next \in {"idle", "chain"} : StartFlush(oggp, next, NoCall)
    BY <1>9 DEF FlushPage, Chain
  <2>2. NbLacing(oggp) \in Nat
    BY AtRest
  <2>3. ~Appending'
    BY <2>1, <2>2, NoCallType, FlushStarts DEF Appending
  <2> QED
    BY <1>2, <2>1, <2>3, AllocStays
<1>10. CASE MakePage
  <2>1. alloc_size' = alloc_size
    BY <1>10 DEF MakePage
  <2> QED
    BY <1>10, <2>1, MakePageStep DEF AllocInv
<1>11. CASE GetNextPage
  <2>1. /\ pc' = "idle" /\ NothingLeft(oggp) /\ oggp.pages # <<>> /\ alloc_size' = alloc_size
        /\ oggp' = [WithHeader(oggp, oggp.pages[1]) EXCEPT !.pages = Tail(@)]
    BY <1>11, AtRest DEF GetNextPage
  <2>2. Len(oggp'.buf) = Len(oggp.buf) /\ oggp'.buf_size = oggp.buf_size
    BY <1>2, <2>1, HandedOutStays
  <2> QED
    BY <1>2, <2>1, <2>2, AllocStays DEF Appending
<1>12. CASE NewStream
  <2>1. /\ oggp'.buf = oggp.buf /\ oggp'.buf_size = oggp.buf_size
        /\ alloc_size' = alloc_size /\ pc' = "idle"
    BY <1>2, <1>12 DEF NewStream, Oggs
  <2> QED
    BY <1>2, <2>1, AllocStays DEF Appending
<1>13. ASSUME NEW bytes \in Sizes, Overruns(bytes) PROVE AllocInv'
  <2>1. UNCHANGED <<oggp, alloc_size>> /\ pc' = "overrun"
    BY <1>13 DEF Overruns
  <2> QED
    BY <1>2, <2>1, AllocStays DEF Appending
<1>14. CASE PagesFail
  <2>1. UNCHANGED <<oggp, alloc_size>> /\ pc' = "aborted"
    BY <1>14 DEF PagesFail
  <2> QED
    BY <1>2, <2>1, AllocStays DEF Appending
<1>15. CASE UNCHANGED vars
  BY <1>15 DEF vars, AllocInv, Appending
<1> QED
  BY <1>3, <1>4, <1>5, <1>6, <1>7, <1>8, <1>9, <1>10, <1>11, <1>12, <1>13, <1>14,
     <1>15 DEF Next

\* The pages that wait lie side by side in both buffers; no fill passes the size
\* it is compared with, what is committed lies in what is allocated, and what a
\* caller is given ends at most MaxHeaderSize past it, which is how far off
\* buf_size may be (ogg_packer.c:212-256, 264-309, 313-361).
THEOREM PagesAlwaysTile == Spec => []PagesTile
<1>1. ASSUME IInv, AllocInv PROVE PagesTile
  <2>1. /\ Filled(oggp) /\ Room(oggp) /\ PagesInRange(oggp) /\ PagesAdjoin(oggp)
        /\ Len(oggp.buf) + asked <= oggp.buf_size
    BY <1>1, AtRest DEF Shape
  <2>2. Len(oggp.buf) <= Allocated /\ oggp.buf_size <= Allocated + MaxHeaderSize
    <3> DEFINE x == Len(oggp.buf)
               y == oggp.buf_size
               h == MaxHeaderSize
    <3>1. x \in Nat /\ y \in Nat /\ h \in Nat /\ alloc_size \in Nat
      BY <1>1, AtRest, HeaderSize
    <3>2. y <= alloc_size /\ x + h <= alloc_size
      BY <1>1 DEF AllocInv
    <3> HIDE DEF x, y, h
    <3>3. x <= alloc_size - h /\ y <= (alloc_size - h) + h
      BY <3>1, <3>2
    <3> QED
      BY <3>3 DEF Allocated, x, y, h
  <2> QED
    BY <2>1, <2>2 DEF PagesTile, Filled, Room, PagesInRange, PagesAdjoin
<1>2. IInv /\ AllocInv => PagesTile
  BY <1>1
<1>3. Spec => []AllocInv
  BY IInvAlways, InitAllocInv, NextKeepsAllocInv, PTL DEF Spec
<1> QED
  BY <1>2, <1>3, IInvAlways, PTL

\* A call that returns leaves nothing waiting as old as the muxing delay
\* (ogg_packer.c:206-207, 269-272, 303-306).
THEOREM DelayAlwaysKept == Spec => DelayKept
<1> DEFINE Kept1 == pc # "idle" /\ pc' = "idle" /\ oggp'.muxing_delay # 0 =>
                      \/ NbLacing(oggp') = 0
                      \/ oggp'.curr_granule - oggp'.last_granule < oggp'.muxing_delay
<1>1. ASSUME IInv, [Next]_vars PROVE [Kept1]_vars
  <2> SUFFICES ASSUME pc # "idle", pc' = "idle", oggp'.muxing_delay # 0
               PROVE  \/ NbLacing(oggp') = 0
                      \/ oggp'.curr_granule - oggp'.last_granule < oggp'.muxing_delay
    OBVIOUS
  <2>1. AppendPacket \/ MakePage \/ NewStream
    <3>1. /\ ~\E delay \in Delays : SetMuxingDelay(delay)
          /\ ~\E bytes \in Sizes : \/ GetPacketBuffer(bytes) \/ GetNoPacketBuffer(bytes)
                                   \/ Overruns(bytes)
          /\ ~(FlushPage \/ GetNextPage \/ Chain)
      BY DEF SetMuxingDelay, GetPacketBuffer, GetNoPacketBuffer, Overruns, FlushPage,
             GetNextPage, Chain
    <3>2. ~\E bytes \in Sizes, d \in Steps, eos \in BOOLEAN :
             CommitPacket(bytes, oggp.curr_granule + d, eos)
      BY DEF CommitPacket
    <3>3. ~AppendFails /\ ~PagesFail /\ ~UNCHANGED vars
      BY DEF AppendFails, PagesFail, vars
    <3> QED
      BY <1>1, <3>1, <3>2, <3>3 DEF Next
  <2>2. CASE AppendPacket
    <3> DEFINE g == call.granule
               l == oggp.last_granule
               m == oggp.muxing_delay
    <3>1. /\ oggp'.curr_granule = g /\ oggp'.last_granule = l /\ oggp'.muxing_delay = m
          /\ g \in Nat /\ l \in Nat /\ m \in Nat
      BY <1>1, <2>2, AppendPacketStep, AtRest DEF Oggs, Calls
    <3>2. CASE m # 0 /\ g - l >= m
      BY <2>2, <3>2 DEF AppendPacket, StartFlush
    <3>3. CASE ~(g - l >= m)
      <4>1. g - l < m
        <5> HIDE DEF g, l, m
        <5> QED
          BY <3>1, <3>3
      <4> QED
        BY <3>1, <4>1
    <3> QED
      BY <3>1, <3>2, <3>3
  <2>3. CASE MakePage
    BY <1>1, <2>3, MakePageStep
  <2>4. CASE NewStream
    BY <1>1, <2>4, NewStreamStep
  <2> QED
    BY <2>1, <2>2, <2>3, <2>4
<1> QED
  BY <1>1, IInvAlways, PTL DEF Spec, DelayKept

-----------------------------------------------------------------------------
(* What each change of the struct does to its content *)

SeenPages == [lacing : Seq(0..Unit), body : Seq(Nat \X Nat), granulepos : Int,
              cont : BOOLEAN, bos : BOOLEAN, eos : BOOLEAN, pageno : Nat]

Contents == [pages : Seq(SeenPages), lacing : Seq(0..Unit), body : Seq(Nat \X Nat),
             granule : Nat, eos : BOOLEAN, pageno : Nat]

\* Where the ranges of a page lie.
LEMMA PageRanges ==
  ASSUME NEW o, Laid(o), NEW i \in 1..Len(o.pages)
  PROVE  LET p == o.pages[i]
         IN /\ p \in PageRecord
            /\ p.lacing_pos \in Nat /\ p.lacing_size \in Nat
            /\ p.buf_pos \in Nat /\ p.buf_size \in Nat
            /\ p.lacing_pos + p.lacing_size <= Len(o.lacing)
            /\ p.buf_pos + p.buf_size <= Len(o.buf)
<1> DEFINE p == o.pages[i]
<1>1. /\ p \in PageRecord
      /\ p.lacing_pos \in Nat /\ p.lacing_size \in Nat
      /\ p.buf_pos \in Nat /\ p.buf_size \in Nat
      /\ o.lacing_begin \in Nat /\ o.buf_begin \in Nat
      /\ Len(o.lacing) \in Nat /\ Len(o.buf) \in Nat
  BY OggFields DEF Laid
<1>2. /\ p.lacing_pos + p.lacing_size <= o.lacing_begin
      /\ p.buf_pos + p.buf_size <= o.buf_begin
      /\ o.lacing_begin <= Len(o.lacing) /\ o.buf_begin <= Len(o.buf)
  BY DEF Laid, PagesInRange, Filled
<1>3. \A x, y, z, w \in Nat : x + y <= z /\ z <= w => x + y <= w
  OBVIOUS
<1> HIDE DEF p
<1>4. p.lacing_pos + p.lacing_size <= Len(o.lacing) /\ p.buf_pos + p.buf_size <= Len(o.buf)
  BY <1>1, <1>2, <1>3
<1> QED
  BY <1>1, <1>4 DEF p

LEMMA SeenType ==
  ASSUME NEW o, Laid(o), NEW i \in 1..Len(o.pages)
  PROVE  LET p == o.pages[i]
         IN /\ Seen(o, p) \in SeenPages
            /\ Len(Seen(o, p).lacing) = p.lacing_size
            /\ Len(Seen(o, p).body) = p.buf_size
<1> DEFINE p == o.pages[i]
           l == SubSeq(o.lacing, p.lacing_pos + 1, p.lacing_pos + p.lacing_size)
           b == SubSeq(o.buf, p.buf_pos + 1, p.buf_pos + p.buf_size)
<1>1. /\ p \in PageRecord
      /\ p.lacing_pos \in Nat /\ p.lacing_size \in Nat
      /\ p.buf_pos \in Nat /\ p.buf_size \in Nat
      /\ p.lacing_pos + p.lacing_size <= Len(o.lacing)
      /\ p.buf_pos + p.buf_size <= Len(o.buf)
  BY PageRanges
<1>2. o.lacing \in Seq(0..Unit) /\ o.buf \in Seq(Nat \X Nat)
  BY OggFields DEF Laid
<1> HIDE DEF p
<1>3. l \in Seq(0..Unit) /\ Len(l) = p.lacing_size
  <2> DEFINE S == 0..Unit
             t == o.lacing
             x == p.lacing_pos
             n == p.lacing_size
  <2>1. t \in Seq(S) /\ x \in Nat /\ n \in Nat /\ x + n <= Len(t)
    BY <1>1, <1>2
  <2> HIDE DEF S, t, x, n
  <2>2. SubSeq(t, x + 1, x + n) \in Seq(S) /\ Len(SubSeq(t, x + 1, x + n)) = n
    BY <2>1, Slice
  <2> QED
    BY <2>2 DEF S, t, x, n
<1>4. b \in Seq(Nat \X Nat) /\ Len(b) = p.buf_size
  <2> DEFINE S == Nat \X Nat
             t == o.buf
             x == p.buf_pos
             n == p.buf_size
  <2>1. t \in Seq(S) /\ x \in Nat /\ n \in Nat /\ x + n <= Len(t)
    BY <1>1, <1>2
  <2> HIDE DEF S, t, x, n
  <2>2. SubSeq(t, x + 1, x + n) \in Seq(S) /\ Len(SubSeq(t, x + 1, x + n)) = n
    BY <2>1, Slice
  <2> QED
    BY <2>2 DEF S, t, x, n
<1>5. /\ p.granulepos \in Int /\ p.cont \in BOOLEAN /\ p.bos \in BOOLEAN /\ p.eos \in BOOLEAN
      /\ p.pageno \in Nat
  BY <1>1 DEF PageRecord
<1>6. Seen(o, p) = [lacing |-> l, body |-> b, granulepos |-> p.granulepos, cont |-> p.cont,
                    bos |-> p.bos, eos |-> p.eos, pageno |-> p.pageno]
  BY DEF Seen
<1> HIDE DEF l, b
<1> QED
  BY <1>3, <1>4, <1>5, <1>6 DEF SeenPages, p

LEMMA ContentType ==
  ASSUME NEW o, Laid(o)
  PROVE  /\ Content(o) \in Contents
         /\ Len(Content(o).lacing) = NbLacing(o)
         /\ Len(Content(o).body) = Len(o.buf) - o.buf_begin
         /\ Len(Content(o).pages) = Len(o.pages)
         /\ \A i \in 1..Len(o.pages) : Content(o).pages[i] = Seen(o, o.pages[i])
         /\ \A i \in 1..NbLacing(o) : Content(o).lacing[i] = o.lacing[o.lacing_begin + i]
<1> DEFINE q == [i \in 1..Len(o.pages) |-> Seen(o, o.pages[i])]
           l == SubSeq(o.lacing, o.lacing_begin + 1, Len(o.lacing))
           b == SubSeq(o.buf, o.buf_begin + 1, Len(o.buf))
<1>1. /\ o \in Oggs /\ o.lacing \in Seq(0..Unit) /\ o.buf \in Seq(Nat \X Nat)
      /\ Len(o.lacing) \in Nat /\ Len(o.buf) \in Nat /\ Len(o.pages) \in Nat
      /\ o.lacing_begin \in Nat /\ o.buf_begin \in Nat
      /\ o.lacing_begin <= Len(o.lacing) /\ o.buf_begin <= Len(o.buf)
  BY OggFields DEF Laid, Filled
<1>2. q \in Seq(SeenPages) /\ Len(q) = Len(o.pages)
  <2>1. q \in [1..Len(o.pages) -> SeenPages]
    BY SeenType
  <2> HIDE DEF q
  <2> QED
    BY <1>1, <2>1, FunctionIsSeq
<1>3. l \in Seq(0..Unit) /\ Len(l) = NbLacing(o)
      /\ \A i \in 1..NbLacing(o) : l[i] = o.lacing[o.lacing_begin + i]
  <2>1. o.lacing_begin \in 0..Len(o.lacing)
    BY <1>1
  <2>2. /\ l \in Seq(0..Unit) /\ Len(o.lacing) = Len(l) + o.lacing_begin
        /\ \A i \in 1..Len(l) : l[i] = o.lacing[i + o.lacing_begin]
    BY <1>1, <2>1, DropFirst, ZenonT(60)
  <2>3. Len(l) \in Nat
    BY <2>2, LenProperties
  <2> HIDE DEF l
  <2>4. Len(l) = NbLacing(o)
    BY <1>1, <2>2, <2>3 DEF NbLacing
  <2>5. \A i \in 1..Len(l) : i + o.lacing_begin = o.lacing_begin + i
    BY <1>1
  <2> QED
    BY <2>2, <2>4, <2>5
<1>4. b \in Seq(Nat \X Nat) /\ Len(b) = Len(o.buf) - o.buf_begin
  <2> DEFINE S == Nat \X Nat
  <2>1. o.buf_begin \in 0..Len(o.buf) /\ o.buf \in Seq(S)
    BY <1>1
  <2> HIDE DEF S
  <2>2. b \in Seq(S) /\ Len(o.buf) = Len(b) + o.buf_begin
    BY <2>1, DropFirst
  <2>3. Len(b) \in Nat
    BY <2>2, LenProperties
  <2> HIDE DEF b
  <2>4. Len(b) = Len(o.buf) - o.buf_begin
    BY <1>1, <2>2, <2>3
  <2> QED
    BY <2>2, <2>4 DEF S
<1>5. o.curr_granule \in Nat /\ o.is_eos \in BOOLEAN /\ o.pageno \in Nat
  BY <1>1 DEF Oggs
<1>6. /\ Content(o).pages = q /\ Content(o).lacing = l /\ Content(o).body = b
      /\ Content(o) = [pages |-> q, lacing |-> l, body |-> b, granule |-> o.curr_granule,
                       eos |-> o.is_eos, pageno |-> o.pageno]
  BY DEF Content
<1>7. \A i \in 1..Len(o.pages) : q[i] = Seen(o, o.pages[i])
  OBVIOUS
<1> HIDE DEF q, l, b
<1>8. Content(o) \in Contents
  BY <1>2, <1>3, <1>4, <1>5, <1>6 DEF Contents
<1> QED
  BY <1>2, <1>3, <1>4, <1>6, <1>7, <1>8

LEMMA SliceAlike ==
  ASSUME NEW S, NEW s \in Seq(S), NEW t \in Seq(S), NEW x \in Nat, NEW n \in Nat,
         x + n <= Len(s), x + n <= Len(t), \A i \in 1..n : s[x + i] = t[x + i]
  PROVE  SubSeq(s, x + 1, x + n) = SubSeq(t, x + 1, x + n)
<1> DEFINE u == SubSeq(s, x + 1, x + n)
           v == SubSeq(t, x + 1, x + n)
<1>1. u \in Seq(S) /\ Len(u) = n /\ \A i \in 1..n : u[i] = s[x + i]
  BY Slice
<1>2. v \in Seq(S) /\ Len(v) = n /\ \A i \in 1..n : v[i] = t[x + i]
  BY Slice
<1> HIDE DEF u, v
<1>3. Len(u) = Len(v) /\ \A i \in 1..Len(u) : u[i] = v[i]
  BY <1>1, <1>2
<1>4. u = v
  BY <1>1, <1>2, <1>3, SeqEqual
<1> QED
  BY <1>4 DEF u, v

\* A page shows the same wherever its ranges hold the same.
LEMMA SeenStays ==
  ASSUME NEW o, Laid(o), NEW s, Laid(s),
         NEW i \in 1..Len(o.pages), NEW j \in 1..Len(s.pages), s.pages[j] = o.pages[i],
         \A x \in (o.pages[i].lacing_pos + 1)..Len(o.lacing) :
           x <= o.lacing_begin => s.lacing[x] = o.lacing[x],
         \A x \in (o.pages[i].buf_pos + 1)..Len(o.buf) :
           x <= o.buf_begin => s.buf[x] = o.buf[x]
  PROVE  Seen(s, s.pages[j]) = Seen(o, o.pages[i])
<1> DEFINE p == o.pages[i]
<1>1. /\ p.lacing_pos \in Nat /\ p.lacing_size \in Nat
      /\ p.buf_pos \in Nat /\ p.buf_size \in Nat
      /\ p.lacing_pos + p.lacing_size <= Len(o.lacing)
      /\ p.buf_pos + p.buf_size <= Len(o.buf)
      /\ p.lacing_pos + p.lacing_size <= Len(s.lacing)
      /\ p.buf_pos + p.buf_size <= Len(s.buf)
  BY PageRanges
<1>2. /\ p.lacing_pos + p.lacing_size <= o.lacing_begin
      /\ p.buf_pos + p.buf_size <= o.buf_begin
  BY DEF Laid, PagesInRange
<1>3. /\ o.lacing \in Seq(0..Unit) /\ o.buf \in Seq(Nat \X Nat)
      /\ s.lacing \in Seq(0..Unit) /\ s.buf \in Seq(Nat \X Nat)
      /\ Len(o.lacing) \in Nat /\ Len(o.buf) \in Nat
      /\ o.lacing_begin \in Nat /\ o.buf_begin \in Nat
  BY OggFields DEF Laid
<1>4. \A x, y, z, w \in Nat : x + y <= z /\ x + y <= w =>
         \A k \in 1..y : x + k \in (x + 1)..w /\ x + k <= z
  OBVIOUS
<1> HIDE DEF p
<1>5. \A k \in 1..p.lacing_size : s.lacing[p.lacing_pos + k] = o.lacing[p.lacing_pos + k]
  <2>1. ASSUME NEW k \in 1..p.lacing_size
        PROVE  /\ p.lacing_pos + k \in (p.lacing_pos + 1)..Len(o.lacing)
               /\ p.lacing_pos + k <= o.lacing_begin
    BY <1>1, <1>2, <1>3, <1>4
  <2> QED
    BY <2>1 DEF p
<1>6. \A k \in 1..p.buf_size : s.buf[p.buf_pos + k] = o.buf[p.buf_pos + k]
  <2>1. ASSUME NEW k \in 1..p.buf_size
        PROVE  /\ p.buf_pos + k \in (p.buf_pos + 1)..Len(o.buf)
               /\ p.buf_pos + k <= o.buf_begin
    BY <1>1, <1>2, <1>3, <1>4
  <2> QED
    BY <2>1 DEF p
<1>7. SubSeq(s.lacing, p.lacing_pos + 1, p.lacing_pos + p.lacing_size)
        = SubSeq(o.lacing, p.lacing_pos + 1, p.lacing_pos + p.lacing_size)
  <2> DEFINE S == 0..Unit
             r == s.lacing
             t == o.lacing
             x == p.lacing_pos
             n == p.lacing_size
  <2>1. /\ r \in Seq(S) /\ t \in Seq(S) /\ x \in Nat /\ n \in Nat
        /\ x + n <= Len(r) /\ x + n <= Len(t) /\ \A k \in 1..n : r[x + k] = t[x + k]
    BY <1>1, <1>3, <1>5
  <2> HIDE DEF S, r, t, x, n
  <2>2. SubSeq(r, x + 1, x + n) = SubSeq(t, x + 1, x + n)
    BY <2>1, SliceAlike, ZenonT(60)
  <2> QED
    BY <2>2 DEF r, t, x, n
<1>8. SubSeq(s.buf, p.buf_pos + 1, p.buf_pos + p.buf_size)
        = SubSeq(o.buf, p.buf_pos + 1, p.buf_pos + p.buf_size)
  <2> DEFINE S == Nat \X Nat
             r == s.buf
             t == o.buf
             x == p.buf_pos
             n == p.buf_size
  <2>1. /\ r \in Seq(S) /\ t \in Seq(S) /\ x \in Nat /\ n \in Nat
        /\ x + n <= Len(r) /\ x + n <= Len(t) /\ \A k \in 1..n : r[x + k] = t[x + k]
    BY <1>1, <1>3, <1>6
  <2> HIDE DEF S, r, t, x, n
  <2>2. SubSeq(r, x + 1, x + n) = SubSeq(t, x + 1, x + n)
    BY <2>1, SliceAlike
  <2> QED
    BY <2>2 DEF r, t, x, n
<1>9. Seen(s, p) = Seen(o, p)
  BY <1>7, <1>8 DEF Seen
<1> QED
  BY <1>9 DEF p

\* What follows position x, when more is appended.
LEMMA RestOfJoined ==
  ASSUME NEW S, NEW s \in Seq(S), NEW t \in Seq(S), NEW x \in 0..Len(s)
  PROVE  SubSeq(s \o t, x + 1, Len(s \o t)) = SubSeq(s, x + 1, Len(s)) \o t
<1> DEFINE u == s \o t
           v == SubSeq(u, x + 1, Len(u))
           r == SubSeq(s, x + 1, Len(s))
<1>1. Len(s) \in Nat /\ Len(t) \in Nat /\ x \in Nat
  BY LenProperties
<1>2. /\ u \in Seq(S) /\ Len(u) = Len(s) + Len(t)
      /\ \A i \in 1..(Len(s) + Len(t)) : u[i] = IF i <= Len(s) THEN s[i] ELSE t[i - Len(s)]
  BY ConcatProperties
<1> HIDE DEF u
<1>3. x \in 0..Len(u)
  BY <1>1, <1>2
<1>4. v \in Seq(S) /\ Len(u) = Len(v) + x /\ \A i \in 1..Len(v) : v[i] = u[i + x]
  BY <1>2, <1>3, DropFirst
<1>5. r \in Seq(S) /\ Len(s) = Len(r) + x /\ \A i \in 1..Len(r) : r[i] = s[i + x]
  BY DropFirst
<1>6. Len(v) \in Nat /\ Len(r) \in Nat
  BY <1>4, <1>5, LenProperties
<1> HIDE DEF v, r
<1>7. /\ r \o t \in Seq(S) /\ Len(r \o t) = Len(r) + Len(t)
      /\ \A i \in 1..(Len(r) + Len(t)) :
           (r \o t)[i] = IF i <= Len(r) THEN r[i] ELSE t[i - Len(r)]
  BY <1>5, ConcatProperties
<1>8. Len(v) = Len(r) + Len(t)
  BY <1>1, <1>2, <1>4, <1>5, <1>6
<1>9. ASSUME NEW i \in 1..Len(v) PROVE v[i] = (r \o t)[i]
  <2>1. /\ i + x \in 1..(Len(s) + Len(t)) /\ i \in 1..(Len(r) + Len(t))
        /\ i <= Len(r) <=> i + x <= Len(s)
        /\ (i + x) - Len(s) = i - Len(r)
        /\ i <= Len(r) => i \in 1..Len(r)
    BY <1>1, <1>2, <1>4, <1>5, <1>6
  <2> QED
    BY <1>2, <1>4, <1>5, <1>7, <2>1
<1>10. v = r \o t
  BY <1>4, <1>7, <1>8, <1>9, SeqEqual
<1> QED
  BY <1>10 DEF u, v, r

\* Growing changes sizes only.
LEMMA SameRangesShowTheSame ==
  ASSUME NEW o, NEW s, SameRanges(o, s),
         s.curr_granule = o.curr_granule, s.is_eos = o.is_eos, s.pageno = o.pageno
  PROVE  Content(s) = Content(o)
BY DEF SameRanges, Content, Seen

LEMMA GrownShowTheSame ==
  ASSUME NEW o, Laid(o), Room(o), NEW n \in Nat
  PROVE  /\ Content(GrownBuf(o, n)) = Content(o)
         /\ Content(GrownLacing(o, n)) = Content(o)
         /\ Content(GrownPages(o)) = Content(o)
<1>1. o \in Oggs
  BY DEF Laid
<1>2. Content(GrownBuf(o, n)) = Content(o)
  <2> DEFINE s == GrownBuf(o, n)
  <2>1. s.curr_granule = o.curr_granule /\ s.is_eos = o.is_eos /\ s.pageno = o.pageno
    BY <1>1 DEF GrownBuf, Oggs
  <2>2. SameRanges(o, s)
    BY GrownBufKeeps
  <2> HIDE DEF s
  <2>3. Content(s) = Content(o)
    BY <2>1, <2>2, SameRangesShowTheSame
  <2> QED
    BY <2>3 DEF s
<1>3. Content(GrownLacing(o, n)) = Content(o)
  <2> DEFINE s == GrownLacing(o, n)
  <2>1. s.curr_granule = o.curr_granule /\ s.is_eos = o.is_eos /\ s.pageno = o.pageno
    BY <1>1 DEF GrownLacing, Oggs
  <2>2. SameRanges(o, s)
    BY GrownLacingKeeps
  <2> HIDE DEF s
  <2>3. Content(s) = Content(o)
    BY <2>1, <2>2, SameRangesShowTheSame
  <2> QED
    BY <2>3 DEF s
<1>4. Content(GrownPages(o)) = Content(o)
  <2> DEFINE s == GrownPages(o)
  <2>1. s.curr_granule = o.curr_granule /\ s.is_eos = o.is_eos /\ s.pageno = o.pageno
    BY <1>1 DEF GrownPages, Oggs
  <2>2. SameRanges(o, s)
    BY GrownPagesKeeps
  <2> HIDE DEF s
  <2>3. Content(s) = Content(o)
    BY <2>1, <2>2, SameRangesShowTheSame
  <2> QED
    BY <2>3 DEF s
<1> QED
  BY <1>2, <1>3, <1>4

\* The pages show the same as long as what they lie in does.
LEMMA PagesShowTheSame ==
  ASSUME NEW o, Laid(o), NEW s, Laid(s), SamePages(o, s),
         \A x \in 1..Len(o.lacing) : s.lacing[x] = o.lacing[x],
         \A x \in 1..Len(o.buf) : s.buf[x] = o.buf[x]
  PROVE  Content(s).pages = Content(o).pages
<1>1. s.pages = o.pages /\ Len(o.pages) \in Nat
  BY OggFields DEF SamePages, Laid
<1>2. ASSUME NEW i \in 1..Len(o.pages) PROVE Seen(s, s.pages[i]) = Seen(o, o.pages[i])
  <2>1. o.pages[i].lacing_pos \in Nat /\ o.pages[i].buf_pos \in Nat
    BY PageRanges
  <2>2. /\ (o.pages[i].lacing_pos + 1)..Len(o.lacing) \subseteq 1..Len(o.lacing)
        /\ (o.pages[i].buf_pos + 1)..Len(o.buf) \subseteq 1..Len(o.buf)
    BY <2>1
  <2>3. i \in 1..Len(s.pages) /\ s.pages[i] = o.pages[i]
    BY <1>1
  <2>4. /\ \A x \in (o.pages[i].lacing_pos + 1)..Len(o.lacing) :
             x <= o.lacing_begin => s.lacing[x] = o.lacing[x]
        /\ \A x \in (o.pages[i].buf_pos + 1)..Len(o.buf) :
             x <= o.buf_begin => s.buf[x] = o.buf[x]
    BY <2>2
  <2> QED
    BY <2>3, <2>4, SeenStays
<1> QED
  BY <1>1, <1>2 DEF Content

BodyJoins(c, d) == [c EXCEPT !.body = @ \o d]

LacingJoins(c, l, g, eos) == [c EXCEPT !.lacing = @ \o l, !.granule = g, !.eos = eos]

\* The page made of the first n lacing values and z bytes that wait.
NewPage(c, n, z, full, cont) ==
  [lacing |-> SubSeq(c.lacing, 1, n), body |-> SubSeq(c.body, 1, z),
   granulepos |-> IF full THEN -1 ELSE c.granule, cont |-> cont, bos |-> c.pageno = 0,
   eos |-> ~full /\ c.eos, pageno |-> c.pageno]

PageCut(c, n, z, full, cont) ==
  [c EXCEPT !.pages = Append(@, NewPage(c, n, z, full, cont)),
            !.lacing = SubSeq(@, n + 1, Len(@)),
            !.body = SubSeq(@, z + 1, Len(@)),
            !.pageno = @ + 1]

PageGiven(c) == [c EXCEPT !.pages = Tail(@)]

LEMMA FilledShows ==
  ASSUME NEW o, Laid(o), NEW k \in Nat, NEW bytes \in Nat
  PROVE  Content(FilledWith(o, k, bytes)) = BodyJoins(Content(o), PacketData(k, bytes))
<1> DEFINE d == PacketData(k, bytes)
           s == FilledWith(o, k, bytes)
           S == Nat \X Nat
<1>1. d \in Seq(S)
  BY PacketDataOf
<1>2. /\ o \in Oggs /\ o.buf \in Seq(S) /\ o.buf_begin \in 0..Len(o.buf)
      /\ o.lacing \in Seq(0..Unit)
  BY OggFields DEF Laid, Filled
<1>3. /\ s.buf = o.buf \o d /\ s.buf_begin = o.buf_begin
      /\ s.lacing = o.lacing /\ s.lacing_begin = o.lacing_begin /\ s.pages = o.pages
      /\ s.curr_granule = o.curr_granule /\ s.is_eos = o.is_eos /\ s.pageno = o.pageno
  BY <1>2 DEF FilledWith, Oggs
<1>4. Laid(s)
  BY WithPacketKeeps DEF FilledWith
<1> HIDE DEF s, d, S
<1>5. \A x \in 1..Len(o.buf) : s.buf[x] = o.buf[x]
  BY <1>1, <1>2, <1>3, Joined
<1>6. Content(s).pages = Content(o).pages
  <2>1. SamePages(o, s)
    BY <1>3, <1>4 DEF SamePages, Laid
  <2> QED
    BY <1>3, <1>4, <1>5, <2>1, PagesShowTheSame
<1>7. SubSeq(s.buf, s.buf_begin + 1, Len(s.buf)) = SubSeq(o.buf, o.buf_begin + 1, Len(o.buf)) \o d
  <2> DEFINE t == o.buf
             x == o.buf_begin
  <2>1. t \in Seq(S) /\ x \in 0..Len(t)
    BY <1>2
  <2> HIDE DEF t, x
  <2>2. SubSeq(t \o d, x + 1, Len(t \o d)) = SubSeq(t, x + 1, Len(t)) \o d
    BY <1>1, <2>1, RestOfJoined
  <2> QED
    BY <1>3, <2>2 DEF t, x
<1>8. /\ Content(s).lacing = Content(o).lacing /\ Content(s).body = Content(o).body \o d
      /\ Content(s).granule = Content(o).granule /\ Content(s).eos = Content(o).eos
      /\ Content(s).pageno = Content(o).pageno
  BY <1>3, <1>7 DEF Content
<1> QED
  BY <1>6, <1>8 DEF Content, s, d, BodyJoins

LEMMA WithLacingShows ==
  ASSUME NEW o, Laid(o), NEW bytes \in Nat, NEW g \in Nat, NEW eos \in BOOLEAN,
         Laid(WithLacing(o, bytes, g, eos))
  PROVE  Content(WithLacing(o, bytes, g, eos))
           = LacingJoins(Content(o), Lacing(bytes), g, eos)
<1> DEFINE l == Lacing(bytes)
           s == WithLacing(o, bytes, g, eos)
           S == 0..Unit
<1>1. l \in Seq(S)
  BY LacingOf
<1>2. o \in Oggs /\ o.lacing \in Seq(S) /\ o.lacing_begin \in 0..Len(o.lacing)
  BY OggFields DEF Laid, Filled
<1>3. /\ s.lacing = o.lacing \o l /\ s.lacing_begin = o.lacing_begin
      /\ s.buf = o.buf /\ s.buf_begin = o.buf_begin /\ s.pages = o.pages
      /\ s.curr_granule = g /\ s.is_eos = eos /\ s.pageno = o.pageno
  BY <1>2 DEF WithLacing, Oggs
<1>4. Laid(s)
  OBVIOUS
<1> HIDE DEF s, l, S
<1>5. \A x \in 1..Len(o.lacing) : s.lacing[x] = o.lacing[x]
  BY <1>1, <1>2, <1>3, Joined
<1>6. Content(s).pages = Content(o).pages
  <2>1. SamePages(o, s)
    BY <1>3, <1>4 DEF SamePages, Laid
  <2> QED
    BY <1>3, <1>4, <1>5, <2>1, PagesShowTheSame
<1>7. SubSeq(s.lacing, s.lacing_begin + 1, Len(s.lacing))
        = SubSeq(o.lacing, o.lacing_begin + 1, Len(o.lacing)) \o l
  <2> DEFINE t == o.lacing
             x == o.lacing_begin
  <2>1. t \in Seq(S) /\ x \in 0..Len(t)
    BY <1>2
  <2> HIDE DEF t, x
  <2>2. SubSeq(t \o l, x + 1, Len(t \o l)) = SubSeq(t, x + 1, Len(t)) \o l
    BY <1>1, <2>1, RestOfJoined
  <2> QED
    BY <1>3, <2>2 DEF t, x
<1>8. /\ Content(s).lacing = Content(o).lacing \o l /\ Content(s).body = Content(o).body
      /\ Content(s).granule = g /\ Content(s).eos = eos
      /\ Content(s).pageno = Content(o).pageno
  BY <1>3, <1>7 DEF Content
<1> QED
  BY <1>6, <1>8 DEF Content, s, l, LacingJoins

\* A slice of what follows position x.
LEMMA SliceOfRest ==
  ASSUME NEW S, NEW s \in Seq(S), NEW x \in Nat, NEW n \in Nat, x + n <= Len(s)
  PROVE  LET r == SubSeq(s, x + 1, Len(s))
         IN /\ SubSeq(s, x + 1, x + n) = SubSeq(r, 1, n)
            /\ SubSeq(s, (x + n) + 1, Len(s)) = SubSeq(r, n + 1, Len(r))
<1> DEFINE r == SubSeq(s, x + 1, Len(s))
           m == Len(r)
<1>1. Len(s) \in Nat
  BY LenProperties
<1>2. x \in 0..Len(s)
  BY <1>1
<1>3. r \in Seq(S) /\ Len(s) = Len(r) + x /\ \A i \in 1..Len(r) : r[i] = s[i + x]
  BY <1>2, DropFirst
<1> HIDE DEF r
<1>4. m \in Nat
  BY <1>3, LenProperties
<1>5. Len(s) = m + x /\ n <= m
  BY <1>1, <1>3, <1>4
<1>6. /\ 0 + n <= Len(r) /\ 0 + 1 = 1 /\ 0 + n = n /\ 0 + x = x /\ n + x = x + n
      /\ n <= Len(r) /\ 0 \in Nat
  BY <1>4, <1>5
<1>7. SubSeq(r, 0 + 1, 0 + n) = SubSeq(s, (0 + x) + 1, (0 + x) + n)
  BY <1>3, <1>6, SliceMoves, SMTT(60)
<1>8. SubSeq(r, n + 1, Len(r)) = SubSeq(s, (n + x) + 1, Len(s))
  BY <1>3, <1>6, RestMoves
<1> QED
  BY <1>6, <1>7, <1>8 DEF r

LEMMA WithPageShows ==
  ASSUME NEW o, Laid(o), Oversized(o), NothingLeft(o), NbLacing(o) > 0, NEW cont \in BOOLEAN,
         Laid(WithPage(o, cont))
  PROVE  LET c == Content(o)
             n == LacingTaken(o)
             z == BytesTaken(o)
         IN Content(WithPage(o, cont)) = PageCut(c, n, z, NbLacing(o) > PageLacings, cont)
<1> DEFINE c == Content(o)
           n == LacingTaken(o)
           z == BytesTaken(o)
           full == NbLacing(o) > PageLacings
           p == [granulepos |-> IF full THEN -1 ELSE o.curr_granule,
                 lacing_pos |-> o.lacing_begin, lacing_size |-> n,
                 buf_pos |-> o.buf_begin, buf_size |-> z,
                 cont |-> cont, eos |-> ~full /\ o.is_eos, bos |-> o.pageno = 0,
                 pageno |-> o.pageno]
           s == WithPage(o, cont)
           np == NewPage(c, n, z, full, cont)
<1>1. /\ n \in Nat /\ z \in Nat
      /\ o.lacing_begin + n <= Len(o.lacing) /\ o.buf_begin + z <= Len(o.buf)
  BY WithPageTakes, PackerAssumption
<1>2. /\ o \in Oggs /\ o.lacing \in Seq(0..Unit) /\ o.buf \in Seq(Nat \X Nat)
      /\ o.lacing_begin \in Nat /\ o.buf_begin \in Nat /\ Len(o.pages) \in Nat
      /\ o.pages \in Seq(PageRecord) /\ o.curr_granule \in Nat /\ o.pageno \in Nat
      /\ o.is_eos \in BOOLEAN
  BY OggFields DEF Laid, Oggs
<1>3. s = [o EXCEPT !.pages = Append(@, p), !.lacing_begin = @ + p.lacing_size,
                    !.buf_begin = @ + p.buf_size, !.pageno = @ + 1]
  BY DEF WithPage, LacingTaken, BytesTaken
<1>4. /\ s.lacing = o.lacing /\ s.buf = o.buf /\ s.pages = Append(o.pages, p)
      /\ s.lacing_begin = o.lacing_begin + n /\ s.buf_begin = o.buf_begin + z
      /\ s.curr_granule = o.curr_granule /\ s.is_eos = o.is_eos /\ s.pageno = o.pageno + 1
  <2> HIDE DEF n, z
  <2> QED
    BY <1>2, <1>3 DEF Oggs
<1>5. Laid(s)
  OBVIOUS
<1> HIDE DEF s
<1>6. /\ SubSeq(o.lacing, o.lacing_begin + 1, o.lacing_begin + n) = SubSeq(c.lacing, 1, n)
      /\ SubSeq(o.lacing, (o.lacing_begin + n) + 1, Len(o.lacing))
           = SubSeq(c.lacing, n + 1, Len(c.lacing))
  <2> DEFINE S == 0..Unit
             t == o.lacing
             x == o.lacing_begin
  <2>1. t \in Seq(S) /\ x \in Nat /\ n \in Nat /\ x + n <= Len(t)
    BY <1>1, <1>2
  <2>2. c.lacing = SubSeq(t, x + 1, Len(t))
    BY DEF Content
  <2> HIDE DEF S, t, x, n, c
  <2>3. /\ SubSeq(t, x + 1, x + n) = SubSeq(SubSeq(t, x + 1, Len(t)), 1, n)
        /\ SubSeq(t, (x + n) + 1, Len(t))
             = SubSeq(SubSeq(t, x + 1, Len(t)), n + 1, Len(SubSeq(t, x + 1, Len(t))))
    BY <2>1, SliceOfRest
  <2> QED
    BY <2>2, <2>3 DEF t, x
<1>7. /\ SubSeq(o.buf, o.buf_begin + 1, o.buf_begin + z) = SubSeq(c.body, 1, z)
      /\ SubSeq(o.buf, (o.buf_begin + z) + 1, Len(o.buf))
           = SubSeq(c.body, z + 1, Len(c.body))
  <2> DEFINE S == Nat \X Nat
             t == o.buf
             x == o.buf_begin
  <2>1. t \in Seq(S) /\ x \in Nat /\ z \in Nat /\ x + z <= Len(t)
    BY <1>1, <1>2
  <2>2. c.body = SubSeq(t, x + 1, Len(t))
    BY DEF Content
  <2> HIDE DEF S, t, x, z, c
  <2>3. /\ SubSeq(t, x + 1, x + z) = SubSeq(SubSeq(t, x + 1, Len(t)), 1, z)
        /\ SubSeq(t, (x + z) + 1, Len(t))
             = SubSeq(SubSeq(t, x + 1, Len(t)), z + 1, Len(SubSeq(t, x + 1, Len(t))))
    BY <2>1, SliceOfRest
  <2> QED
    BY <2>2, <2>3 DEF t, x
<1>8. Seen(s, p) = np
  <2>1. c.granule = o.curr_granule /\ c.eos = o.is_eos /\ c.pageno = o.pageno
    BY DEF Content
  <2> HIDE DEF n, z, c, full
  <2> QED
    BY <1>4, <1>6, <1>7, <2>1 DEF Seen, NewPage
<1>9. Content(s).pages = Append(c.pages, np)
  <2> DEFINE m == Len(o.pages)
             q == Content(s).pages
  <2>1. m \in Nat /\ Len(s.pages) = m + 1 /\ s.pages[m + 1] = p
        /\ \A i \in 1..m : s.pages[i] = o.pages[i]
    <3>1. p \in PageRecord
      <4> HIDE DEF n, z, full
      <4> QED
        BY <1>1, <1>2 DEF PageRecord
    <3> HIDE DEF p
    <3> QED
      BY <1>2, <1>4, <3>1, AppendProperties
  <2>2. q = [i \in 1..(m + 1) |-> Seen(s, s.pages[i])]
    BY <2>1 DEF Content
  <2>3. ASSUME NEW i \in 1..m PROVE Seen(s, s.pages[i]) = Seen(o, o.pages[i])
    <3>1. i \in 1..Len(s.pages) /\ s.pages[i] = o.pages[i] /\ i \in 1..Len(o.pages)
      BY <2>1
    <3> QED
      BY <1>4, <1>5, <3>1, SeenStays
  <2>4. /\ c.pages \in Seq(SeenPages) /\ Len(c.pages) = m
        /\ \A i \in 1..m : c.pages[i] = Seen(o, o.pages[i])
    BY ContentType DEF Contents
  <2>5. /\ q \in Seq(SeenPages) /\ Len(q) = m + 1 /\ q[m + 1] \in SeenPages
        /\ q[m + 1] = np /\ \A i \in 1..m : q[i] = c.pages[i]
    <3>1. q \in Seq(SeenPages) /\ Len(q) = m + 1
      BY <1>5, <2>1, ContentType DEF Contents
    <3>2. m + 1 \in 1..Len(q) /\ m + 1 \in 1..(m + 1)
      BY <2>1, <3>1
    <3>3. q[m + 1] = np
      BY <1>8, <2>1, <2>2, <3>2
    <3>4. ASSUME NEW i \in 1..m PROVE q[i] = c.pages[i]
      <4>1. i \in 1..(m + 1)
        BY <2>1
      <4> QED
        BY <2>2, <2>3, <2>4, <4>1
    <3>5. q[m + 1] \in SeenPages
      BY <3>1, <3>2, ElementOfSeq
    <3> QED
      BY <3>1, <3>3, <3>4, <3>5
  <2> HIDE DEF q, m, np, c
  <2> DEFINE r == Append(c.pages, np)
  <2>6. /\ r \in Seq(SeenPages) /\ Len(r) = m + 1 /\ r[m + 1] = np
        /\ \A i \in 1..m : r[i] = c.pages[i]
    BY <2>4, <2>5, AppendProperties
  <2> HIDE DEF r
  <2>7. \A i \in 1..Len(q) : q[i] = r[i]
    <3>1. \A i \in 1..(m + 1) : i \in 1..m \/ i = m + 1
      BY <2>1
    <3> QED
      BY <2>5, <2>6, <3>1
  <2>8. q = r
    BY <2>5, <2>6, <2>7, SeqEqual
  <2> QED
    BY <2>8 DEF q, r
<1>10. /\ Content(s).lacing = SubSeq(c.lacing, n + 1, Len(c.lacing))
       /\ Content(s).body = SubSeq(c.body, z + 1, Len(c.body))
       /\ Content(s).granule = c.granule /\ Content(s).eos = c.eos
       /\ Content(s).pageno = c.pageno + 1
  BY <1>4, <1>6, <1>7 DEF Content
<1>11. /\ Content(s) = [pages |-> Content(s).pages, lacing |-> Content(s).lacing,
                        body |-> Content(s).body, granule |-> Content(s).granule,
                        eos |-> Content(s).eos, pageno |-> Content(s).pageno]
       /\ c = [pages |-> c.pages, lacing |-> c.lacing, body |-> c.body,
               granule |-> c.granule, eos |-> c.eos, pageno |-> c.pageno]
  BY DEF Content
<1> HIDE DEF np
<1>12. Content(s) = [c EXCEPT !.pages = Append(@, np), !.lacing = SubSeq(@, n + 1, Len(@)),
                              !.body = SubSeq(@, z + 1, Len(@)), !.pageno = @ + 1]
  <2> HIDE DEF c, n, z
  <2> QED
    BY <1>9, <1>10, <1>11
<1> QED
  BY <1>12 DEF s, np, PageCut

\* A packet waits with its lacing values, or, if they found no room, without.
LEMMA AppendedShows ==
  ASSUME NEW o, Shape(o), NothingLeft(o),
         NEW k \in Nat, NEW bytes \in Nat, NEW g \in Nat, NEW eos \in BOOLEAN,
         Len(o.buf) + bytes <= o.buf_size,
         NbLacing(o) + bytes \div Unit + 1 <= PageLacings \/ NbLacing(o) = 0
  PROVE  /\ Content(Appended(o, k, bytes, g, eos))
              = LacingJoins(BodyJoins(Content(o), PacketData(k, bytes)), Lacing(bytes), g, eos)
         /\ Content(Shifted(FilledWith(o, k, bytes)))
              = BodyJoins(Content(o), PacketData(k, bytes))
<1> DEFINE n == bytes \div Unit + 1
           filled == FilledWith(o, k, bytes)
           torn == Shifted(filled)
           shifted == IF LacingFits(filled, n) THEN filled ELSE torn
           grown == IF LacingFits(shifted, n) THEN shifted ELSE GrownLacing(shifted, n)
           s == WithLacing(grown, bytes, g, eos)
           c == BodyJoins(Content(o), PacketData(k, bytes))
<1>1. Laid(o) /\ Room(o)
  BY DEF Shape, Laid
<1>2. Laid(filled) /\ Room(filled) /\ Content(filled) = c
  <2>1. Content(filled) = c
    BY <1>1, FilledShows
  <2>2. /\ Laid(filled) /\ filled.lacing = o.lacing /\ Len(filled.buf) = Len(o.buf) + bytes
        /\ filled.pages = o.pages /\ filled.buf_size = o.buf_size
        /\ filled.lacing_size = o.lacing_size /\ filled.pages_size = o.pages_size
    BY <1>1, WithPacketKeeps, ZenonT(60) DEF FilledWith
  <2> HIDE DEF filled, c
  <2>3. Room(filled)
    BY <1>1, <2>2 DEF Room
  <2> QED
    BY <2>1, <2>2, <2>3
<1> HIDE DEF filled, c
<1>3. Laid(torn) /\ Room(torn) /\ Content(torn) = c
  BY <1>2, ShiftedKeeps DEF Kept
<1> HIDE DEF torn
<1>4. Laid(shifted) /\ Room(shifted) /\ Content(shifted) = c
  BY <1>2, <1>3
<1> HIDE DEF shifted
<1>5. n \in Nat
  BY LacingOf
<1> HIDE DEF n
<1>6. Laid(grown) /\ Content(grown) = c
  <2>1. Content(GrownLacing(shifted, n)) = c
    BY <1>4, <1>5, GrownShowTheSame
  <2>2. Laid(GrownLacing(shifted, n))
    <3> DEFINE w == GrownLacing(shifted, n)
    <3>1. SameRanges(shifted, w)
      BY <1>4, <1>5, GrownLacingKeeps
    <3> HIDE DEF w
    <3>2. Laid(w)
      BY <1>4, <3>1, SameRangesKeep
    <3> QED
      BY <3>2 DEF w
  <2> QED
    BY <1>4, <2>1, <2>2
<1>7. Appended(o, k, bytes, g, eos) = s
  BY DEF Appended, s, grown, shifted, n, filled, torn
<1>8. Laid(s)
  <2>1. Shape(Appended(o, k, bytes, g, eos))
    BY PacketJoins
  <2> QED
    BY <1>7, <2>1 DEF Shape, Laid
<1> HIDE DEF grown
<1>9. Content(s) = LacingJoins(Content(grown), Lacing(bytes), g, eos)
  BY <1>6, <1>8, WithLacingShows
<1> QED
  BY <1>3, <1>6, <1>7, <1>9 DEF torn, filled, c

\* The header of a page goes over bytes that no page has and none waits in.
LEMMA HandedOutShows ==
  ASSUME NEW o, Shape(o), NothingLeft(o), o.pages # <<>>
  PROVE  LET h == WithHeader(o, o.pages[1])
             s == [h EXCEPT !.pages = Tail(@)]
         IN /\ Content(s) = PageGiven(Content(o))
            /\ Content(o).pages # <<>>
            /\ PageOf(PageAt(h, o.pages[1])) = PageOf(Head(Content(o).pages))
<1> DEFINE h == WithHeader(o, o.pages[1])
           s == [h EXCEPT !.pages = Tail(@)]
           n == Len(o.pages)
           p == o.pages[1]
<1>1. /\ Laid(o) /\ o \in Oggs /\ n \in Nat /\ o.pages \in Seq(PageRecord)
      /\ PagesInOrder(o) /\ o.buf_begin \in Nat /\ Len(o.buf) \in Nat /\ DOMAIN o.buf = 1..Len(o.buf)
      /\ o.buf \in Seq(Nat \X Nat) /\ o.buf_begin <= Len(o.buf)
  BY OggFields DEF Shape, Laid, Filled
<1>2. n > 0 /\ 1 \in 1..n
  BY <1>1, EmptySeq
<1>3. /\ h \in Oggs /\ Len(h.buf) = Len(o.buf)
      /\ h.lacing = o.lacing /\ h.lacing_begin = o.lacing_begin
      /\ h.buf_begin = o.buf_begin /\ h.pages = o.pages
      /\ h.buf = [x \in 1..Len(o.buf) |->
                    IF x - 1 < p.buf_pos /\ x - 1 >= p.buf_pos - (FixedHeader + p.lacing_size)
                    THEN HeaderByte ELSE o.buf[x]]
      /\ h.curr_granule = o.curr_granule /\ h.is_eos = o.is_eos /\ h.pageno = o.pageno
  <2>1. /\ h \in Oggs /\ Len(h.buf) = Len(o.buf)
        /\ h.lacing = o.lacing /\ h.lacing_begin = o.lacing_begin
        /\ h.buf_begin = o.buf_begin /\ h.pages = o.pages
        /\ h.curr_granule = o.curr_granule
    BY <1>1, WithHeaderKeeps
  <2>2. h.is_eos = o.is_eos /\ h.pageno = o.pageno
    BY <1>1 DEF WithHeader, Oggs
  <2>3. h.buf = [x \in 1..Len(o.buf) |->
                    IF x - 1 < p.buf_pos /\ x - 1 >= p.buf_pos - (FixedHeader + p.lacing_size)
                    THEN HeaderByte ELSE o.buf[x]]
    BY <1>1 DEF WithHeader, Oggs
  <2> QED
    BY <2>1, <2>2, <2>3
<1>4. p.buf_pos \in Nat
  BY <1>1, <1>2, PageRanges
<1> HIDE DEF h
<1>5. \A x \in (p.buf_pos + 1)..Len(o.buf) : h.buf[x] = o.buf[x]
  <2>1. ASSUME NEW x \in (p.buf_pos + 1)..Len(o.buf)
        PROVE  x \in 1..Len(o.buf) /\ ~(x - 1 < p.buf_pos)
    <3> DEFINE y == p.buf_pos
               m == Len(o.buf)
    <3>1. y \in Nat /\ m \in Nat /\ x \in (y + 1)..m
      BY <1>1, <1>4
    <3> HIDE DEF y, m
    <3>2. x \in 1..m /\ ~(x - 1 < y)
      BY <3>1
    <3> QED
      BY <3>2 DEF y, m
  <2> QED
    BY <1>3, <2>1
<1>6. Laid(h)
  BY <1>1, <1>3 DEF Laid, Filled, PagesInRange, PagesInOrder, PagesAdjoin
<1>7. ASSUME NEW i \in 1..n PROVE Seen(h, o.pages[i]) = Seen(o, o.pages[i])
  <2>1. /\ o.pages[1].buf_pos <= o.pages[i].buf_pos
        /\ o.pages[i].buf_pos \in Nat /\ o.pages[i].lacing_pos \in Nat
    <3>1. 1 <= i
      BY <1>1
    <3>2. o.pages[1].buf_pos <= o.pages[i].buf_pos
      BY <1>1, <1>2, <3>1 DEF PagesInOrder
    <3> QED
      BY <1>1, <3>2, PageRanges
  <2>2. (o.pages[i].buf_pos + 1)..Len(o.buf) \subseteq (p.buf_pos + 1)..Len(o.buf)
    <3> DEFINE x == o.pages[i].buf_pos
               y == p.buf_pos
               m == Len(o.buf)
    <3>1. x \in Nat /\ y \in Nat /\ y <= x /\ m \in Nat
      BY <1>1, <1>4, <2>1
    <3> HIDE DEF x, y, m
    <3>2. (x + 1)..m \subseteq (y + 1)..m
      BY <3>1
    <3> QED
      BY <3>2 DEF x, y, m
  <2>3. /\ i \in 1..Len(h.pages) /\ i \in 1..Len(o.pages) /\ h.pages[i] = o.pages[i]
        /\ \A x \in (o.pages[i].lacing_pos + 1)..Len(o.lacing) :
             x <= o.lacing_begin => h.lacing[x] = o.lacing[x]
        /\ \A x \in (o.pages[i].buf_pos + 1)..Len(o.buf) :
             x <= o.buf_begin => h.buf[x] = o.buf[x]
    BY <1>3, <1>5, <2>2
  <2> HIDE DEF n, p
  <2>4. Laid(o) /\ Laid(h)
    BY <1>1, <1>6
  <2>5. Seen(h, h.pages[i]) = Seen(o, o.pages[i])
    BY <2>3, <2>4, SeenStays
  <2> QED
    BY <2>3, <2>5
<1>8. /\ s.lacing = o.lacing /\ s.lacing_begin = o.lacing_begin
      /\ s.buf_begin = o.buf_begin /\ s.buf = h.buf /\ s.pages = Tail(o.pages)
      /\ s.curr_granule = o.curr_granule /\ s.is_eos = o.is_eos /\ s.pageno = o.pageno
  BY <1>3 DEF Oggs
<1> HIDE DEF s
<1>9. SubSeq(h.buf, o.buf_begin + 1, Len(h.buf)) = SubSeq(o.buf, o.buf_begin + 1, Len(o.buf))
  <2>1. p.buf_pos <= o.buf_begin
    <3>1. /\ p.buf_pos \in Nat /\ p.buf_size \in Nat /\ p.buf_pos + p.buf_size <= o.buf_begin
      BY <1>1, <1>2, PageRanges DEF Laid, PagesInRange
    <3> QED
      BY <1>1, <3>1
  <2> DEFINE t == o.buf
             r == h.buf
             x == o.buf_begin
             m == Len(o.buf) - x
             S == Nat \X Nat
  <2>2. /\ t \in Seq(S) /\ r \in Seq(S) /\ x \in Nat /\ m \in Nat
        /\ x + m = Len(t) /\ Len(r) = Len(t) /\ x + m <= Len(t) /\ x + m <= Len(r)
    <3>1. r \in Seq(S)
      BY <1>3, OggFields
    <3> DEFINE v == Len(o.buf)
    <3>2. v \in Nat /\ x \in Nat /\ x <= v
      BY <1>1
    <3> HIDE DEF v
    <3>3. v - x \in Nat /\ x + (v - x) = v /\ v <= v
      BY <3>2
    <3> QED
      BY <1>1, <1>3, <3>1, <3>3 DEF v
  <2>3. \A k \in 1..m : r[x + k] = t[x + k]
    <3>1. ASSUME NEW k \in 1..m PROVE x + k \in (p.buf_pos + 1)..Len(o.buf)
      <4> DEFINE y == p.buf_pos
                 w == Len(o.buf)
      <4>1. y \in Nat /\ w \in Nat /\ y <= x /\ x + m = w
        BY <1>1, <1>4, <2>1, <2>2
      <4> HIDE DEF y, w, x, m
      <4>2. x + k \in (y + 1)..w
        BY <2>2, <4>1
      <4> QED
        BY <4>2 DEF y, w
    <3> QED
      BY <1>5, <3>1
  <2> HIDE DEF t, r, x, m, S
  <2>4. SubSeq(r, x + 1, x + m) = SubSeq(t, x + 1, x + m)
    BY <2>2, <2>3, SliceAlike
  <2> QED
    BY <2>2, <2>4 DEF t, r, x
<1>10. Content(s).pages = Tail(Content(o).pages) /\ Content(o).pages # <<>>
       /\ Head(Content(o).pages) = Seen(o, p)
  <2> DEFINE c == Content(o)
             q == Content(s).pages
             r == Tail(c.pages)
  <2>1. /\ c.pages \in Seq(SeenPages) /\ Len(c.pages) = n
        /\ \A i \in 1..n : c.pages[i] = Seen(o, o.pages[i])
    BY <1>1, ContentType DEF Contents
  <2>2. c.pages # <<>>
    <3> HIDE DEF c
    <3> QED
      BY <1>2, <2>1, EmptySeq
  <2>3. Head(c.pages) = c.pages[1]
    <3> HIDE DEF c
    <3> QED
      BY <2>1, <2>2
  <2>4. /\ r \in Seq(SeenPages) /\ Len(r) = n - 1
        /\ \A i \in 1..(n - 1) : r[i] = c.pages[i + 1]
    <3> HIDE DEF c, n
    <3>1. /\ r \in Seq(SeenPages) /\ Len(r) = n - 1
          /\ \A i \in 1..Len(r) : r[i] = c.pages[i + 1]
      BY <2>1, <2>2, HeadTailProperties
    <3> QED
      BY <3>1
  <2>5. /\ Len(s.pages) = n - 1
        /\ \A i \in 1..(n - 1) : s.pages[i] = o.pages[i + 1]
    <3> DEFINE u == o.pages
               v == Tail(u)
    <3>1. /\ v \in Seq(PageRecord) /\ Len(v) = n - 1
          /\ \A i \in 1..Len(v) : v[i] = u[i + 1]
      BY <1>1, HeadTailProperties
    <3> QED
      BY <1>8, <3>1
  <2>6. q = [i \in 1..(n - 1) |-> Seen(s, s.pages[i])]
    BY <2>5 DEF Content
  <2>7. ASSUME NEW i \in 1..(n - 1) PROVE q[i] = r[i] /\ q[i] \in SeenPages
    <3>1. i + 1 \in 1..n
      BY <1>1
    <3>2. Seen(s, s.pages[i]) = Seen(h, o.pages[i + 1])
      BY <1>3, <1>8, <2>5 DEF Seen
    <3>3. Seen(h, o.pages[i + 1]) = Seen(o, o.pages[i + 1]) /\ Seen(o, o.pages[i + 1]) \in SeenPages
      BY <1>1, <1>7, <3>1, SeenType
    <3> QED
      BY <2>1, <2>4, <2>6, <3>1, <3>2, <3>3
  <2>8. n - 1 \in Nat
    BY <1>1, <1>2
  <2>9. q \in Seq(SeenPages) /\ Len(q) = n - 1
    <3>1. q \in [1..(n - 1) -> SeenPages]
      BY <2>6, <2>7
    <3> HIDE DEF q
    <3> QED
      BY <2>8, <3>1, FunctionIsSeq
  <2> HIDE DEF q, r, c
  <2>10. q = r
    BY <2>4, <2>7, <2>9, SeqEqual
  <2> QED
    BY <1>2, <2>1, <2>2, <2>3, <2>10 DEF q, r, c
<1>11. /\ Content(s).lacing = Content(o).lacing /\ Content(s).body = Content(o).body
       /\ Content(s).granule = Content(o).granule /\ Content(s).eos = Content(o).eos
       /\ Content(s).pageno = Content(o).pageno
  BY <1>8, <1>9 DEF Content
<1>12. PageOf(PageAt(h, p)) = PageOf(Seen(h, p))
  BY DEF PageOf, PageAt, Seen
<1>13. PageOf(PageAt(h, p)) = PageOf(Head(Content(o).pages))
  BY <1>2, <1>7, <1>10, <1>12
<1>14. Content(s) = PageGiven(Content(o))
  BY <1>10, <1>11, ZenonT(60) DEF Content, PageGiven
<1> QED
  BY <1>10, <1>13, <1>14 DEF s, h

-----------------------------------------------------------------------------
(* Where the segments of a run of lacing values end *)

Octets == Nat \X Nat

LEMMA EndsAre ==
  ASSUME NEW l \in Seq(0..Unit)
  PROVE  RunningSums(Ends(l), l, Len(l))
<1> DEFINE n == Len(l)
           e == Ends(l)
<1>1. n \in Nat /\ \A i \in 1..n : l[i] \in Nat
  BY PackerAssumption, LenProperties, ElementOfSeq
<1>2. PICK g : RunningSums(g, l, n)
  BY <1>1, SumsExist
<1>3. g = [i \in 0..n |-> IF i = 0 THEN 0 ELSE g[i - 1] + l[i]]
  <2>1. g = [i \in 0..n |-> g[i]]
    BY <1>2 DEF RunningSums
  <2>2. ASSUME NEW i \in 0..n PROVE g[i] = IF i = 0 THEN 0 ELSE g[i - 1] + l[i]
    <3>1. i = 0 \/ i \in 1..n
      BY <1>1
    <3> QED
      BY <1>2, <3>1 DEF RunningSums
  <2> QED
    BY <2>1, <2>2
<1>4. e = [i \in 0..n |-> IF i = 0 THEN 0 ELSE e[i - 1] + l[i]]
  <2>1. e = CHOOSE f : f = [i \in 0..n |-> IF i = 0 THEN 0 ELSE f[i - 1] + l[i]]
    BY DEF Ends
  <2> HIDE DEF e, n
  <2> QED
    BY <1>3, <2>1
<1> HIDE DEF e, n
<1> DEFINE T == {i \in Nat : i <= n => e[i] = g[i]}
<1>5. 0 \in T
  BY <1>1, <1>2, <1>4 DEF RunningSums
<1>6. ASSUME NEW i \in Nat, i \in T, i + 1 <= n PROVE e[i + 1] = g[i + 1]
  <2>1. /\ i <= n /\ i + 1 \in 1..n /\ i + 1 \in 0..n /\ i + 1 # 0 /\ (i + 1) - 1 = i
    BY <1>1, <1>6
  <2>2. e[i + 1] = e[i] + l[i + 1]
    BY <1>4, <2>1
  <2>3. g[i + 1] = g[i] + l[i + 1]
    BY <1>2, <2>1 DEF RunningSums
  <2> QED
    BY <1>6, <2>1, <2>2, <2>3
<1>7. \A i \in Nat : i \in T => i + 1 \in T
  BY <1>6
<1> HIDE DEF T
<1>8. \A i \in Nat : i \in T
  BY <1>5, <1>7, AllNaturals
<1>9. \A i \in 0..n : e[i] = g[i]
  BY <1>8 DEF T
<1>10. e = g
  BY <1>2, <1>4, <1>9 DEF RunningSums
<1> QED
  BY <1>2, <1>10 DEF e, n

LEMMA EndsType ==
  ASSUME NEW l \in Seq(0..Unit)
  PROVE  /\ Len(l) \in Nat
         /\ Ends(l) \in [0..Len(l) -> Nat] /\ Ends(l)[0] = 0
         /\ \A i \in 1..Len(l) : /\ Ends(l)[i] = Ends(l)[i - 1] + l[i]
                                 /\ l[i] \in Nat /\ i - 1 \in 0..Len(l) /\ i \in 0..Len(l)
                                 /\ Ends(l)[i] \in Nat /\ Ends(l)[i - 1] \in Nat
         /\ Bytes(l) \in Nat
         /\ \A i \in 0..Len(l) : Ends(l)[i] <= Bytes(l)
<1> DEFINE n == Len(l)
           e == Ends(l)
<1>1. n \in Nat
  BY LenProperties
<1>2. RunningSums(e, l, n)
  BY EndsAre
<1>3. Bytes(l) = e[n]
  BY DEF Bytes
<1> HIDE DEF n, e
<1>4. /\ e \in [0..n -> Nat] /\ e[0] = 0
      /\ \A i \in 1..n : l[i] \in Nat /\ e[i] = e[i - 1] + l[i]
  BY <1>2 DEF RunningSums
<1>5. \A i \in 1..n : i - 1 \in 0..n /\ i \in 0..n
  BY <1>1
<1>6. e[n] \in Nat
  BY <1>1, <1>4
<1>7. \A i \in 0..n : e[i] <= e[n]
  <2>1. ASSUME NEW i \in 0..n PROVE e[i] <= e[n]
    <3>1. n \in 0..n /\ i <= n
      BY <1>1
    <3> QED
      BY <1>1, <1>2, <3>1, SumsGrow
  <2> QED
    BY <2>1
<1>8. \A i \in 1..n : e[i] \in Nat /\ e[i - 1] \in Nat
  BY <1>4, <1>5
<1> QED
  BY <1>1, <1>3, <1>4, <1>5, <1>6, <1>7, <1>8 DEF n, e

LEMMA EndsJoin ==
  ASSUME NEW l \in Seq(0..Unit), NEW m \in Seq(0..Unit)
  PROVE  /\ l \o m \in Seq(0..Unit) /\ Len(l \o m) = Len(l) + Len(m)
         /\ \A i \in 0..Len(l) : Ends(l \o m)[i] = Ends(l)[i]
         /\ \A i \in 0..Len(m) : Ends(l \o m)[Len(l) + i] = Bytes(l) + Ends(m)[i]
         /\ Bytes(l \o m) = Bytes(l) + Bytes(m)
<1> DEFINE u == l \o m
           n == Len(l)
           k == Len(m)
<1>1. /\ u \in Seq(0..Unit) /\ Len(u) = n + k
      /\ \A i \in 1..n : u[i] = l[i]
      /\ \A i \in 1..k : u[n + i] = m[i]
  BY Joined
<1>2. n \in Nat /\ k \in Nat /\ 0 \in Nat
  BY LenProperties
<1> HIDE DEF u
<1>3. /\ RunningSums(Ends(u), u, n + k) /\ RunningSums(Ends(l), l, n)
      /\ RunningSums(Ends(m), m, k) /\ n + k \in Nat
  <2>1. RunningSums(Ends(u), u, Len(u)) /\ RunningSums(Ends(l), l, Len(l))
        /\ RunningSums(Ends(m), m, Len(m))
    BY <1>1, EndsAre
  <2> QED
    BY <1>1, <1>2, <2>1
<1>4. \A i \in 0..n : Ends(u)[i] = Ends(l)[i]
  <2> DEFINE e == Ends(u)
             f == Ends(l)
  <2>1. RunningSums(e, u, n + k) /\ RunningSums(f, l, n)
    BY <1>3
  <2>2. 0 + n <= n + k /\ \A i \in 1..n : l[i] = u[0 + i]
    <3>1. \A i \in 1..n : 0 + i = i
      OBVIOUS
    <3> QED
      BY <1>1, <1>2, <3>1
  <2> HIDE DEF e, f, n, k
  <2>3. \A i \in 0..n : e[0 + i] = e[0] + f[i]
    BY <1>2, <1>3, <2>1, <2>2, SumsOfRun
  <2>4. e[0] = 0 /\ f \in [0..n -> Nat]
    BY <2>1 DEF RunningSums
  <2>5. ASSUME NEW i \in 0..n PROVE e[i] = f[i]
    <3>1. 0 + i = i /\ f[i] \in Nat
      BY <2>4
    <3>2. 0 + f[i] = f[i]
      BY <3>1
    <3> QED
      BY <2>3, <2>4, <3>1, <3>2
  <2> QED
    BY <2>5 DEF e, f
<1>5. \A i \in 0..k : Ends(u)[n + i] = Ends(u)[n] + Ends(m)[i]
  <2> DEFINE e == Ends(u)
             f == Ends(m)
  <2>1. RunningSums(e, u, n + k) /\ RunningSums(f, m, k) /\ n + k <= n + k
    BY <1>2, <1>3
  <2>2. \A i \in 1..k : m[i] = u[n + i]
    BY <1>1
  <2> HIDE DEF e, f, n, k
  <2>3. \A i \in 0..k : e[n + i] = e[n] + f[i]
    BY <1>2, <1>3, <2>1, <2>2, SumsOfRun, SMTT(60)
  <2> QED
    BY <2>3 DEF e, f
<1>6. Ends(u)[n] = Bytes(l)
  <2>1. n \in 0..n
    BY <1>2
  <2> QED
    BY <1>4, <2>1 DEF Bytes
<1>7. Bytes(u) = Bytes(l) + Bytes(m)
  <2>1. k \in 0..k
    BY <1>2
  <2> QED
    BY <1>1, <1>5, <1>6, <2>1 DEF Bytes
<1> QED
  BY <1>1, <1>4, <1>5, <1>6, <1>7 DEF u

LEMMA NoBytes == Bytes(<<>>) = 0 /\ Len(<<>>) = 0
<1>1. <<>> \in Seq(0..Unit) /\ Len(<<>>) = 0
  BY EmptySeq
<1>2. Ends(<<>>)[0] = 0
  BY <1>1, EndsType
<1> QED
  BY <1>1, <1>2 DEF Bytes

\* Every segment of a run that is there has its bytes.
LEMMA CutIs ==
  ASSUME NEW b \in Seq(Octets), NEW l \in Seq(0..Unit), Bytes(l) <= Len(b)
  PROVE  /\ Cut(b, l) \in Seq(Seq(Octets)) /\ Len(Cut(b, l)) = Len(l)
         /\ \A i \in 1..Len(l) :
              /\ Cut(b, l)[i] = SubSeq(b, Ends(l)[i - 1] + 1, Ends(l)[i - 1] + l[i])
              /\ Ends(l)[i - 1] + l[i] <= Len(b)
              /\ Len(Cut(b, l)[i]) = l[i]
<1> DEFINE n == Len(l)
           e == Ends(l)
           c == [i \in 1..n |-> SubSeq(b, e[i - 1] + 1, e[i])]
<1>1. /\ n \in Nat /\ Bytes(l) \in Nat /\ Len(b) \in Nat
      /\ \A i \in 1..n : /\ e[i] = e[i - 1] + l[i] /\ e[i] \in Nat /\ e[i - 1] \in Nat
                         /\ l[i] \in Nat /\ e[i] <= Bytes(l)
  BY EndsType, LenProperties
<1>2. Cut(b, l) = c
  BY DEF Cut
<1> HIDE DEF e, n
<1>3. ASSUME NEW i \in 1..n
      PROVE  /\ c[i] = SubSeq(b, e[i - 1] + 1, e[i - 1] + l[i])
             /\ e[i - 1] + l[i] <= Len(b) /\ Len(c[i]) = l[i] /\ c[i] \in Seq(Octets)
  <2> DEFINE x == e[i - 1]
             m == l[i]
  <2>1. x \in Nat /\ m \in Nat /\ e[i] = x + m /\ e[i] <= Bytes(l)
    BY <1>1
  <2> HIDE DEF x, m
  <2>2. x + m <= Len(b)
    BY <1>1, <2>1
  <2>3. SubSeq(b, x + 1, x + m) \in Seq(Octets) /\ Len(SubSeq(b, x + 1, x + m)) = m
    BY <2>1, <2>2, Slice
  <2>4. c[i] = SubSeq(b, x + 1, x + m)
    BY <2>1 DEF x, m
  <2> QED
    BY <2>2, <2>3, <2>4 DEF x, m
<1>4. c \in Seq(Seq(Octets)) /\ Len(c) = n
  <2>1. c \in [1..n -> Seq(Octets)]
    BY <1>3
  <2> HIDE DEF c
  <2> QED
    BY <1>1, <2>1, FunctionIsSeq
<1> HIDE DEF c
<1> QED
  BY <1>2, <1>3, <1>4 DEF n, e

\* A slice of either part of what was joined.
LEMMA SlicesOfJoined ==
  ASSUME NEW S, NEW b \in Seq(S), NEW d \in Seq(S)
  PROVE  /\ b \o d \in Seq(S) /\ Len(b \o d) = Len(b) + Len(d)
         /\ \A p, w \in Nat :
              p + w <= Len(b) => SubSeq(b \o d, p + 1, p + w) = SubSeq(b, p + 1, p + w)
         /\ \A p, w \in Nat :
              p + w <= Len(d) =>
                SubSeq(b \o d, (Len(b) + p) + 1, (Len(b) + p) + w) = SubSeq(d, p + 1, p + w)
<1> DEFINE v == b \o d
           q == Len(b)
<1>1. /\ v \in Seq(S) /\ Len(v) = q + Len(d)
      /\ \A i \in 1..q : v[i] = b[i]
      /\ \A i \in 1..Len(d) : v[q + i] = d[i]
  BY Joined
<1>2. q \in Nat /\ Len(d) \in Nat
  BY LenProperties
<1> HIDE DEF v, q
<1>3. ASSUME NEW p \in Nat, NEW w \in Nat, p + w <= q
      PROVE  SubSeq(v, p + 1, p + w) = SubSeq(b, p + 1, p + w)
  <2>1. p + w <= Len(v) /\ \A j \in 1..w : v[p + j] = b[p + j]
    <3>1. \A j \in 1..w : p + j \in 1..q
      BY <1>2, <1>3
    <3> QED
      BY <1>1, <1>2, <1>3, <3>1
  <2>2. v \in Seq(S) /\ b \in Seq(S) /\ p + w <= Len(b)
    BY <1>1, <1>3 DEF q
  <2> QED
    BY <2>1, <2>2, SliceAlike
<1>4. ASSUME NEW p \in Nat, NEW w \in Nat, p + w <= Len(d)
      PROVE  SubSeq(v, (q + p) + 1, (q + p) + w) = SubSeq(d, p + 1, p + w)
  <2> DEFINE x == q + p
  <2>1. x \in Nat /\ x + w <= Len(v)
    BY <1>1, <1>2, <1>4
  <2>2. ASSUME NEW j \in 1..w PROVE v[x + j] = d[p + j]
    <3>1. p + j \in 1..Len(d) /\ x + j = q + (p + j)
      BY <1>2, <1>4
    <3> QED
      BY <1>1, <3>1
  <2> HIDE DEF x, q
  <2>3. SubSeq(v, x + 1, x + w) = SubSeq(d, p + 1, p + w)
    <3>1. /\ v \in Seq(S) /\ d \in Seq(S) /\ x \in Nat /\ p \in Nat /\ w \in Nat
          /\ x + w <= Len(v) /\ p + w <= Len(d) /\ \A j \in 1..w : v[x + j] = d[p + j]
      BY <1>1, <1>4, <2>1, <2>2
    <3> DEFINE f == SubSeq(v, x + 1, x + w)
               g == SubSeq(d, p + 1, p + w)
    <3>2. f \in Seq(S) /\ Len(f) = w /\ \A i \in 1..w : f[i] = v[x + i]
      BY <3>1, Slice
    <3>3. g \in Seq(S) /\ Len(g) = w /\ \A i \in 1..w : g[i] = d[p + i]
      BY <3>1, Slice
    <3> HIDE DEF f, g
    <3>4. Len(f) = Len(g) /\ \A i \in 1..Len(f) : f[i] = g[i]
      BY <3>1, <3>2, <3>3
    <3>5. f = g
      BY <3>2, <3>3, <3>4, SeqEqual
    <3> QED
      BY <3>5 DEF f, g
  <2> QED
    BY <2>3 DEF x
<1> QED
  BY <1>1, <1>3, <1>4 DEF v, q

\* The segments of two runs, one after the other.
LEMMA CutJoins ==
  ASSUME NEW b \in Seq(Octets), NEW l \in Seq(0..Unit),
         NEW d \in Seq(Octets), NEW m \in Seq(0..Unit)
  PROVE  Len(b) = Bytes(l) /\ Bytes(m) <= Len(d) =>
           Cut(b \o d, l \o m) = Cut(b, l) \o Cut(d, m)
<1> DEFINE u == l \o m
           v == b \o d
           n == Len(l)
           k == Len(m)
           x == Cut(v, u)
           y == Cut(b, l)
           z == Cut(d, m)
<1>1. /\ u \in Seq(0..Unit) /\ Len(u) = n + k
      /\ \A i \in 1..n : u[i] = l[i]
      /\ \A i \in 1..k : u[n + i] = m[i]
  BY Joined
<1>2. /\ v \in Seq(Octets) /\ Len(v) = Len(b) + Len(d)
      /\ \A p, w \in Nat :
           p + w <= Len(b) => SubSeq(v, p + 1, p + w) = SubSeq(b, p + 1, p + w)
      /\ \A p, w \in Nat :
           p + w <= Len(d) =>
             SubSeq(v, (Len(b) + p) + 1, (Len(b) + p) + w) = SubSeq(d, p + 1, p + w)
  BY SlicesOfJoined
<1> HAVE Len(b) = Bytes(l) /\ Bytes(m) <= Len(d)
<1>3. /\ n \in Nat /\ k \in Nat /\ Len(b) \in Nat /\ Len(d) \in Nat /\ Bytes(m) \in Nat
      /\ Bytes(l) \in Nat
  BY LenProperties, EndsType
<1>4. /\ \A i \in 0..n : Ends(u)[i] = Ends(l)[i]
      /\ \A i \in 0..k : Ends(u)[n + i] = Len(b) + Ends(m)[i]
      /\ Bytes(u) = Bytes(l) + Bytes(m)
  BY EndsJoin
<1> HIDE DEF u, v
<1>5. Bytes(u) <= Len(v)
  BY <1>2, <1>3, <1>4
<1>6. /\ x \in Seq(Seq(Octets)) /\ Len(x) = n + k
      /\ \A i \in 1..(n + k) : x[i] = SubSeq(v, Ends(u)[i - 1] + 1, Ends(u)[i - 1] + u[i])
  <2>1. /\ x \in Seq(Seq(Octets)) /\ Len(x) = Len(u)
        /\ \A i \in 1..Len(u) : x[i] = SubSeq(v, Ends(u)[i - 1] + 1, Ends(u)[i - 1] + u[i])
    BY <1>1, <1>2, <1>5, CutIs
  <2> QED
    BY <1>1, <2>1
<1>7. /\ y \in Seq(Seq(Octets)) /\ Len(y) = n
      /\ \A i \in 1..n : /\ y[i] = SubSeq(b, Ends(l)[i - 1] + 1, Ends(l)[i - 1] + l[i])
                         /\ Ends(l)[i - 1] + l[i] <= Len(b)
  <2>1. Bytes(l) <= Len(b)
    BY <1>3
  <2> QED
    BY <2>1, CutIs
<1>8. /\ z \in Seq(Seq(Octets)) /\ Len(z) = k
      /\ \A i \in 1..k : /\ z[i] = SubSeq(d, Ends(m)[i - 1] + 1, Ends(m)[i - 1] + m[i])
                         /\ Ends(m)[i - 1] + m[i] <= Len(d)
  BY CutIs
<1> HIDE DEF x, y, z
<1>9. /\ y \o z \in Seq(Seq(Octets)) /\ Len(y \o z) = n + k
      /\ \A i \in 1..n : (y \o z)[i] = y[i]
      /\ \A i \in 1..k : (y \o z)[n + i] = z[i]
  <2> DEFINE S == Seq(Octets)
  <2>1. y \in Seq(S) /\ z \in Seq(S)
    BY <1>7, <1>8
  <2> HIDE DEF S, n, k
  <2>2. /\ y \o z \in Seq(S) /\ Len(y \o z) = Len(y) + Len(z)
        /\ \A i \in 1..Len(y) : (y \o z)[i] = y[i]
        /\ \A i \in 1..Len(z) : (y \o z)[Len(y) + i] = z[i]
    BY <2>1, Joined
  <2> QED
    BY <1>7, <1>8, <2>2 DEF S
<1>10. ASSUME NEW i \in 1..n PROVE x[i] = y[i]
  <2>1. i \in 1..(n + k) /\ i - 1 \in 0..n
    BY <1>3
  <2> DEFINE p == Ends(l)[i - 1]
             w == l[i]
  <2>2. p \in Nat /\ w \in Nat /\ p + w <= Len(b)
    BY <1>7, EndsType
  <2>3. x[i] = SubSeq(v, p + 1, p + w) /\ y[i] = SubSeq(b, p + 1, p + w)
    BY <1>1, <1>4, <1>6, <1>7, <2>1
  <2> HIDE DEF p, w
  <2>5. SubSeq(v, p + 1, p + w) = SubSeq(b, p + 1, p + w)
    BY <1>2, <2>2
  <2> QED
    BY <2>3, <2>5
<1>11. ASSUME NEW i \in 1..k PROVE x[n + i] = z[i]
  <2>1. n + i \in 1..(n + k) /\ (n + i) - 1 = n + (i - 1) /\ i - 1 \in 0..k
    BY <1>3
  <2> DEFINE p == Ends(m)[i - 1]
             w == m[i]
             q == Len(b)
  <2>2. p \in Nat /\ w \in Nat /\ p + w <= Len(d) /\ q \in Nat
    BY <1>3, <1>8, EndsType
  <2>3. x[n + i] = SubSeq(v, (q + p) + 1, (q + p) + w) /\ z[i] = SubSeq(d, p + 1, p + w)
    <3>1. Ends(u)[(n + i) - 1] = q + p /\ u[n + i] = w
      BY <1>1, <1>4, <2>1
    <3>2. x[n + i] = SubSeq(v, Ends(u)[(n + i) - 1] + 1, Ends(u)[(n + i) - 1] + u[n + i])
      BY <1>6, <2>1
    <3>3. z[i] = SubSeq(d, p + 1, p + w)
      BY <1>8
    <3> HIDE DEF p, w, q
    <3> QED
      BY <3>1, <3>2, <3>3
  <2>7. SubSeq(v, (q + p) + 1, (q + p) + w) = SubSeq(d, p + 1, p + w)
    BY <1>2, <2>2
  <2> QED
    BY <2>3, <2>7
<1>12. \A i \in 1..Len(x) : x[i] = (y \o z)[i]
  <2>1. ASSUME NEW i \in 1..Len(x) PROVE i \in 1..n \/ \E j \in 1..k : i = n + j
    <3>1. CASE i <= n
      BY <1>3, <1>6, <3>1
    <3>2. CASE ~(i <= n)
      <4>1. i - n \in 1..k /\ i = n + (i - n)
        BY <1>3, <1>6, <3>2
      <4> QED
        BY <4>1
    <3> QED
      BY <3>1, <3>2
  <2> QED
    BY <1>9, <1>10, <1>11, <2>1, ZenonT(60)
<1>13. x = y \o z
  BY <1>6, <1>9, <1>12, SeqEqual
<1> QED
  BY <1>13 DEF x, y, z, u, v

LEMMA CutNothing ==
  ASSUME NEW b
  PROVE  Cut(b, <<>>) = <<>>
<1>1. Len(<<>>) = 0
  BY EmptySeq
<1>2. Cut(b, <<>>) = [i \in 1..0 |-> SubSeq(b, Ends(<<>>)[i - 1] + 1, Ends(<<>>)[i])]
  BY <1>1 DEF Cut
<1> DEFINE c == Cut(b, <<>>)
<1>3. c \in [1..0 -> Seq(Octets)]
  <2>1. 1..0 = {}
    OBVIOUS
  <2> QED
    BY <1>2, <2>1
<1> HIDE DEF c
<1>4. c \in Seq(Seq(Octets)) /\ Len(c) = 0
  BY <1>3, FunctionIsSeq
<1>5. c = <<>>
  BY <1>4, EmptySeq
<1> QED
  BY <1>5 DEF c

\* Bytes behind the last segment do not matter.
LEMMA CutIgnores ==
  ASSUME NEW b \in Seq(Octets), NEW l \in Seq(0..Unit), Len(b) = Bytes(l), NEW d \in Seq(Octets)
  PROVE  Cut(b \o d, l) = Cut(b, l)
<1>1. <<>> \in Seq(0..Unit) /\ Bytes(<<>>) <= Len(d)
  BY NoBytes, EmptySeq, LenProperties
<1>2. Cut(b \o d, l \o <<>>) = Cut(b, l) \o Cut(d, <<>>)
  BY <1>1, CutJoins
<1>3. l \o <<>> = l
  BY ConcatEmptySeq
<1>4. Cut(b, l) \in Seq(Seq(Octets))
  <2>1. Bytes(l) <= Len(b)
    BY EndsType
  <2> QED
    BY <2>1, CutIs
<1>5. Cut(b, l) \o <<>> = Cut(b, l)
  BY <1>4, ConcatEmptySeq
<1> QED
  BY <1>2, <1>3, <1>5, CutNothing

-----------------------------------------------------------------------------
(* The lacing values of one packet *)

LEMMA RestIsLess ==
  ASSUME NEW x \in Nat, NEW u \in Nat \ {0}
  PROVE  x - u * (x \div u) < u
OBVIOUS

LEMMA LacingEnds ==
  ASSUME NEW bytes \in Nat
  PROVE  LET d == bytes \div Unit
         IN /\ Lacing(bytes)[d + 1] < Unit
            /\ \A i \in 0..d : Ends(Lacing(bytes))[i] = i * Unit
            /\ Ends(Lacing(bytes))[d + 1] = bytes
            /\ Bytes(Lacing(bytes)) = bytes
            /\ \A i \in 1..d : i * Unit \in Nat /\ i * Unit <= bytes
            /\ (d + 1) * Unit \in Nat /\ bytes < (d + 1) * Unit
<1> DEFINE d == bytes \div Unit
           l == Lacing(bytes)
           r == bytes - Unit * d
           e == Ends(l)
<1>1. /\ d \in Nat /\ d * Unit <= bytes /\ Unit \in Nat \ {0}
      /\ r \in Nat /\ r < Unit
  BY PackerAssumption, Divides, RestIsLess
<1>2. /\ l \in Seq(0..Unit) /\ Len(l) = d + 1
      /\ \A i \in 1..d : l[i] = Unit
  BY LacingOf
<1>3. l[d + 1] = r
  <2>1. d + 1 \in 1..(d + 1) /\ ~(d + 1 <= d)
    BY <1>1
  <2> QED
    BY <2>1 DEF Lacing
<1>4. RunningSums(e, l, d + 1)
  <2>1. RunningSums(e, l, Len(l))
    BY <1>2, EndsAre
  <2> QED
    BY <1>2, <2>1
<1>5. d * Unit \in Nat /\ Unit * d = d * Unit /\ bytes = d * Unit + r
  <2> DEFINE x == d * Unit
  <2>1. Unit * d = x
    BY <1>1
  <2>2. x \in Nat
    BY <1>1
  <2>3. r = bytes - x
    BY <2>1
  <2> HIDE DEF x, r
  <2>4. bytes = x + r
    BY <2>2, <2>3
  <2> QED
    BY <2>1, <2>2, <2>4 DEF x
<1> HIDE DEF d, l, r, e
<1>6. \A i \in 0..d : e[i] = i * Unit
  <2> DEFINE u == Unit
             n == d + 1
  <2>1. /\ n \in Nat /\ d \in 0..n /\ u \in Nat
        /\ RunningSums(e, l, n) /\ \A i \in 1..d : l[i] = u
    BY <1>1, <1>2, <1>4
  <2> HIDE DEF u, n
  <2>2. \A i \in 0..d : e[i] = i * u
    BY <2>1, SumsOfEquals
  <2> QED
    BY <2>2 DEF u
<1>7. e[d + 1] = bytes
  <2>1. d + 1 \in 1..(d + 1) /\ (d + 1) - 1 = d /\ d \in 0..d
    BY <1>1
  <2>2. e[d + 1] = e[d] + l[d + 1]
    BY <1>4, <2>1 DEF RunningSums
  <2> QED
    BY <1>3, <1>5, <1>6, <2>1, <2>2
<1>8. ASSUME NEW i \in 1..d PROVE i * Unit \in Nat /\ i * Unit <= bytes
  <2> DEFINE x == i * Unit
             y == (d - i) * Unit
             z == d * Unit
  <2>1. x \in Nat /\ y \in Nat /\ z \in Nat /\ x + y = z
    <3>1. i \in Nat /\ d - i \in Nat /\ i + (d - i) = d
      BY <1>1
    <3>2. (i + (d - i)) * Unit = i * Unit + (d - i) * Unit
      BY <1>1, <3>1
    <3> QED
      BY <1>1, <3>1, <3>2
  <2>2. z <= bytes
    BY <1>1
  <2> HIDE DEF x, y, z
  <2>3. x <= bytes
    BY <2>1, <2>2
  <2> QED
    BY <2>1, <2>3 DEF x
<1>9. (d + 1) * Unit \in Nat /\ bytes < (d + 1) * Unit
  <2> DEFINE z == d * Unit
  <2>1. (d + 1) * Unit = z + Unit
    BY <1>1
  <2>2. z \in Nat /\ bytes = z + r
    BY <1>5
  <2> HIDE DEF z
  <2> QED
    BY <1>1, <2>1, <2>2
<1>10. Bytes(l) = bytes
  BY <1>2, <1>7 DEF Bytes, e
<1> QED
  BY <1>1, <1>3, <1>6, <1>7, <1>8, <1>9, <1>10 DEF d, l, e

\* The lacing values of a packet cut it as OggPages says.
LEMMA PacketIsCut ==
  ASSUME NEW k \in Nat, NEW bytes \in Nat
  PROVE  /\ Cut(PacketData(k, bytes), Lacing(bytes)) = Pages!Segments(PacketData(k, bytes))
         /\ PacketData(k, bytes) \in Seq(Octets) /\ Len(PacketData(k, bytes)) = bytes
         /\ Lacing(bytes) \in Seq(0..Unit) /\ Bytes(Lacing(bytes)) = bytes
         /\ Len(Lacing(bytes)) = bytes \div Unit + 1
         /\ Len(Pages!Segments(PacketData(k, bytes))) = bytes \div Unit + 1
<1> DEFINE p == PacketData(k, bytes)
           l == Lacing(bytes)
           d == bytes \div Unit
           e == Ends(l)
<1>1. p \in Seq(Octets) /\ Len(p) = bytes
  BY PacketDataOf DEF Octets
<1>2. /\ l \in Seq(0..Unit) /\ Len(l) = d + 1 /\ d \in Nat
  BY LacingOf
<1>3. /\ \A i \in 0..d : e[i] = i * Unit
      /\ e[d + 1] = bytes /\ Bytes(l) = bytes
      /\ \A i \in 1..d : i * Unit \in Nat /\ i * Unit <= bytes
      /\ (d + 1) * Unit \in Nat /\ bytes < (d + 1) * Unit
  BY LacingEnds
<1>4. Cut(p, l) = [i \in 1..(d + 1) |-> SubSeq(p, e[i - 1] + 1, e[i])]
  BY <1>2 DEF Cut
<1>5. Pages!Segments(p) = [i \in 1..(d + 1) |->
        SubSeq(p, (i - 1) * Unit + 1, IF i * Unit < bytes THEN i * Unit ELSE bytes)]
  BY <1>1 DEF Pages!Segments
<1> HIDE DEF p, l, d, e
<1>6. ASSUME NEW i \in 1..(d + 1)
      PROVE  /\ e[i - 1] = (i - 1) * Unit
             /\ e[i] = IF i * Unit < bytes THEN i * Unit ELSE bytes
  <2>1. i - 1 \in 0..d
    BY <1>2
  <2>2. CASE i = d + 1
    <3>1. ~(i * Unit < bytes)
      <4> DEFINE z == (d + 1) * Unit
      <4>1. z \in Nat /\ bytes < z
        BY <1>3
      <4> HIDE DEF z
      <4>2. ~(z < bytes)
        BY <4>1
      <4> QED
        BY <2>2, <4>2 DEF z
    <3> QED
      BY <1>3, <2>1, <2>2, <3>1
  <2>3. CASE i # d + 1
    <3>1. i \in 1..d /\ i \in 0..d
      BY <1>2, <2>3
    <3>2. e[i] = i * Unit /\ i * Unit \in Nat /\ i * Unit <= bytes
      BY <1>3, <3>1
    <3> DEFINE z == i * Unit
    <3> HIDE DEF z
    <3>3. e[i] = z /\ z \in Nat /\ z <= bytes
      BY <3>2 DEF z
    <3>4. e[i] = IF z < bytes THEN z ELSE bytes
      BY <3>3
    <3> QED
      BY <1>3, <2>1, <3>4 DEF z
  <2> QED
    BY <2>2, <2>3
<1>7. Cut(p, l) = Pages!Segments(p)
  BY <1>4, <1>5, <1>6
<1>8. Len(Cut(p, l)) = d + 1
  <2>1. Bytes(l) <= Len(p)
    BY <1>1, <1>3
  <2> QED
    BY <1>1, <1>2, <2>1, CutIs
<1> QED
  BY <1>1, <1>2, <1>3, <1>7, <1>8 DEF p, l, d

-----------------------------------------------------------------------------
(* A run of lacing values in two parts *)

LEMMA SplitSeq ==
  ASSUME NEW S, NEW s \in Seq(S), NEW n \in 0..Len(s)
  PROVE  LET a == SubSeq(s, 1, n)
             b == SubSeq(s, n + 1, Len(s))
         IN /\ a \in Seq(S) /\ b \in Seq(S) /\ s = a \o b
            /\ Len(a) = n /\ Len(b) = Len(s) - n
            /\ \A i \in 1..n : a[i] = s[i]
            /\ \A i \in 1..Len(b) : b[i] = s[n + i]
<1> DEFINE a == SubSeq(s, 1, n)
           b == SubSeq(s, n + 1, Len(s))
           m == Len(s)
<1>1. m \in Nat /\ n \in Nat /\ n <= m
  BY LenProperties
<1>2. a \in Seq(S) /\ Len(a) = n /\ \A i \in 1..n : a[i] = s[i]
  <2> DEFINE z == 0
             t == SubSeq(s, z + 1, z + n)
  <2>1. z \in Nat /\ z + n <= Len(s)
    BY <1>1
  <2> HIDE DEF z
  <2>2. t \in Seq(S) /\ Len(t) = n /\ \A i \in 1..n : t[i] = s[z + i]
    BY <1>1, <2>1, Slice
  <2>3. z + 1 = 1 /\ z + n = n /\ \A i \in 1..n : z + i = i
    BY <1>1 DEF z
  <2> QED
    BY <2>2, <2>3
<1>3. b \in Seq(S) /\ Len(s) = Len(b) + n /\ \A i \in 1..Len(b) : b[i] = s[i + n]
  BY DropFirst
<1>4. Len(b) \in Nat
  BY <1>3, LenProperties
<1>5. \A i \in 1..Len(b) : b[i] = s[n + i]
  <2>1. \A i \in 1..Len(b) : i + n = n + i
    BY <1>1
  <2> QED
    BY <1>3, <2>1
<1>6. s = a \o b
  <2> HIDE DEF a, b
  <2>1. /\ a \o b \in Seq(S) /\ Len(a \o b) = Len(a) + Len(b)
        /\ \A i \in 1..Len(a) : (a \o b)[i] = a[i]
        /\ \A i \in 1..Len(b) : (a \o b)[Len(a) + i] = b[i]
    <3>1. a \in Seq(S) /\ b \in Seq(S)
      BY <1>2, <1>3
    <3> QED
      BY <3>1, Joined
  <2>2. Len(s) = Len(a \o b)
    BY <1>1, <1>2, <1>3, <1>4, <2>1
  <2>3. ASSUME NEW i \in 1..Len(s) PROVE s[i] = (a \o b)[i]
    <3>1. CASE i <= n
      <4>1. i \in 1..n
        BY <1>1, <3>1
      <4> QED
        BY <1>2, <2>1, <4>1
    <3>2. CASE ~(i <= n)
      <4>1. i - n \in 1..Len(b) /\ n + (i - n) = i
        BY <1>1, <1>3, <1>4, <3>2
      <4>2. b[i - n] = s[i] /\ (a \o b)[i] = b[i - n]
        BY <1>2, <1>5, <2>1, <4>1
      <4> QED
        BY <4>2
    <3> QED
      BY <3>1, <3>2
  <2> QED
    BY <2>1, <2>2, <2>3, SeqEqual
<1>7. Len(b) = m - n
  BY <1>1, <1>3, <1>4
<1> QED
  BY <1>2, <1>3, <1>5, <1>6, <1>7 DEF a, b, m

\* A full page of a packet: so many bytes for each of its lacing values.
LEMMA FullRun ==
  ASSUME NEW l \in Seq(0..Unit), NEW n \in Nat, Len(l) = n, \A i \in 1..n : l[i] = Unit
  PROVE  Bytes(l) = n * Unit
<1>1. RunningSums(Ends(l), l, Len(l))
  BY EndsAre
<1> DEFINE e == Ends(l)
<1>2. RunningSums(e, l, n) /\ Bytes(l) = e[n]
  BY <1>1 DEF Bytes
<1> HIDE DEF e
<1>3. Unit \in Nat /\ n \in 0..n
  BY PackerAssumption
<1>4. \A i \in 0..n : e[i] = i * Unit
  <2> DEFINE u == Unit
  <2>1. /\ n \in 0..n /\ u \in Nat
        /\ RunningSums(e, l, n) /\ \A i \in 1..n : l[i] = u
    BY <1>2, <1>3
  <2> HIDE DEF u
  <2>2. \A i \in 0..n : e[i] = i * u
    BY <2>1, SumsOfEquals
  <2> QED
    BY <2>2 DEF u
<1> QED
  BY <1>2, <1>3, <1>4

\* What was joined, taken apart.
LEMMA PartsOfJoined ==
  ASSUME NEW S, NEW s \in Seq(S), NEW t \in Seq(S)
  PROVE  /\ SubSeq(s \o t, 1, Len(s)) = s
         /\ SubSeq(s \o t, Len(s) + 1, Len(s \o t)) = t
<1> DEFINE u == s \o t
           n == Len(s)
           a == SubSeq(u, 1, n)
           b == SubSeq(u, n + 1, Len(u))
<1>1. /\ u \in Seq(S) /\ Len(u) = n + Len(t)
      /\ \A i \in 1..n : u[i] = s[i]
      /\ \A i \in 1..Len(t) : u[n + i] = t[i]
  BY Joined
<1>2. n \in Nat /\ Len(t) \in Nat
  BY LenProperties
<1>3. n \in 0..Len(u)
  BY <1>1, <1>2
<1> HIDE DEF u
<1>4. /\ a \in Seq(S) /\ b \in Seq(S)
      /\ Len(a) = n /\ Len(b) = Len(u) - n
      /\ \A i \in 1..n : a[i] = u[i]
      /\ \A i \in 1..Len(b) : b[i] = u[n + i]
  BY <1>1, <1>3, SplitSeq
<1> HIDE DEF a, b
<1>5. a = s
  <2>1. Len(a) = Len(s) /\ \A i \in 1..Len(a) : a[i] = s[i]
    BY <1>1, <1>4
  <2> QED
    BY <1>4, <2>1, SeqEqual
<1>6. b = t
  <2>1. Len(b) = Len(t)
    BY <1>1, <1>2, <1>4
  <2>2. \A i \in 1..Len(b) : b[i] = t[i]
    BY <1>1, <1>4, <2>1
  <2> QED
    BY <1>4, <2>1, <2>2, SeqEqual
<1> QED
  BY <1>5, <1>6 DEF a, b, u, n

\* Segments cut in two parts are the segments.
LEMMA CutSplits ==
  ASSUME NEW b \in Seq(Octets), NEW l \in Seq(0..Unit), NEW n \in 0..Len(l),
         NEW z \in 0..Len(b)
  PROVE  LET m == SubSeq(l, 1, n)
             r == SubSeq(l, n + 1, Len(l))
             f == SubSeq(b, 1, z)
             g == SubSeq(b, z + 1, Len(b))
         IN Len(b) = Bytes(l) /\ z = Bytes(m)
            => /\ Len(f) = Bytes(m) /\ Len(g) = Bytes(r)
               /\ Cut(b, l) \in Seq(Seq(Octets)) /\ Len(Cut(b, l)) = Len(l)
               /\ SubSeq(Cut(b, l), 1, n) = Cut(f, m)
               /\ SubSeq(Cut(b, l), n + 1, Len(Cut(b, l))) = Cut(g, r)
<1> DEFINE m == SubSeq(l, 1, n)
           r == SubSeq(l, n + 1, Len(l))
           f == SubSeq(b, 1, z)
           g == SubSeq(b, z + 1, Len(b))
           c == Cut(b, l)
           x == Cut(f, m)
           y == Cut(g, r)
<1>1. /\ m \in Seq(0..Unit) /\ r \in Seq(0..Unit) /\ l = m \o r
      /\ Len(m) = n /\ Len(r) = Len(l) - n
  BY SplitSeq, ZenonT(60)
<1>2. /\ f \in Seq(Octets) /\ g \in Seq(Octets) /\ b = f \o g
      /\ Len(f) = z /\ Len(g) = Len(b) - z
  BY SplitSeq, ZenonT(60)
<1>3. /\ Len(b) \in Nat /\ Bytes(m) \in Nat /\ Bytes(r) \in Nat /\ Len(l) \in Nat
      /\ Bytes(l) \in Nat
  BY <1>1, LenProperties, EndsType
<1>4. Bytes(l) = Bytes(m) + Bytes(r)
  <2>1. m \in Seq(0..Unit) /\ r \in Seq(0..Unit)
    BY <1>1
  <2> HIDE DEF m, r
  <2>2. Bytes(m \o r) = Bytes(m) + Bytes(r)
    BY <2>1, EndsJoin
  <2> QED
    BY <1>1, <2>2
<1> HIDE DEF m, r, f, g
<1> SUFFICES ASSUME Len(b) = Bytes(l), z = Bytes(m)
             PROVE  /\ Len(f) = Bytes(m) /\ Len(g) = Bytes(r)
                    /\ c \in Seq(Seq(Octets)) /\ Len(c) = Len(l)
                    /\ SubSeq(c, 1, n) = x
                    /\ SubSeq(c, n + 1, Len(c)) = y
  BY DEF m, r, f, g
<1>5. Len(f) = Bytes(m) /\ Len(g) = Bytes(r) /\ Bytes(r) <= Len(g) /\ Bytes(m) <= Len(f)
      /\ Bytes(l) <= Len(b)
  <2> DEFINE h == Len(g)
             i == Len(f)
             j == Len(b)
             v == Bytes(m)
             w == Bytes(r)
             t == Bytes(l)
  <2>1. /\ j \in Nat /\ v \in Nat /\ w \in Nat /\ t \in Nat
        /\ t = v + w /\ i = z /\ h = j - z /\ j = t /\ z = v
    BY <1>2, <1>3, <1>4
  <2> HIDE DEF h, i, j, v, w, t
  <2>2. i = v /\ h = w /\ w <= h /\ v <= i /\ t <= j
    BY <2>1
  <2> QED
    BY <2>2 DEF h, i, j, v, w, t
<1>6. c = x \o y
  BY <1>1, <1>2, <1>5, CutJoins, SMTT(60)
<1>7. c \in Seq(Seq(Octets)) /\ Len(c) = Len(l)
  BY <1>5, CutIs
<1>8. x \in Seq(Seq(Octets)) /\ Len(x) = n
  BY <1>1, <1>2, <1>5, CutIs
<1>9. y \in Seq(Seq(Octets)) /\ Len(y) = Len(l) - n
  BY <1>1, <1>2, <1>5, CutIs
<1> HIDE DEF x, y, c
<1>10. SubSeq(c, 1, n) = x /\ SubSeq(c, n + 1, Len(c)) = y
  <2> DEFINE S == Seq(Octets)
  <2>1. x \in Seq(S) /\ y \in Seq(S) /\ c = x \o y /\ Len(x) = n
    BY <1>6, <1>8, <1>9
  <2> HIDE DEF S
  <2>2. SubSeq(x \o y, 1, Len(x)) = x /\ SubSeq(x \o y, Len(x) + 1, Len(x \o y)) = y
    BY <2>1, PartsOfJoined
  <2> QED
    BY <2>1, <2>2
<1> QED
  BY <1>5, <1>7, <1>10

-----------------------------------------------------------------------------
(* The pages of OggPages that a content stands for *)

PendOf(c, f) ==
  IF c.lacing = <<>>
  THEN [segs |-> <<>>, granule |-> 0, eos |-> FALSE, cont |-> FALSE]
  ELSE [segs |-> Cut(c.body, c.lacing), granule |-> c.granule, eos |-> c.eos, cont |-> f]

QueueOf(c) == [i \in 1..Len(c.pages) |-> PageOf(c.pages[i])]

\* The bytes that wait are the ones laced, and the last lacing value ends a packet.
Laced(c) == Len(c.body) = Bytes(c.lacing)

LastEnds(c) == c.lacing # <<>> => c.lacing[Len(c.lacing)] < Unit

PagesLaced(c) == \A i \in 1..Len(c.pages) : Len(c.pages[i].body) = Bytes(c.pages[i].lacing)

LEMMA ContentFields ==
  ASSUME NEW c \in Contents
  PROVE  /\ c.pages \in Seq(SeenPages) /\ c.lacing \in Seq(0..Unit) /\ c.body \in Seq(Octets)
         /\ c.granule \in Nat /\ c.eos \in BOOLEAN /\ c.pageno \in Nat
         /\ Len(c.lacing) \in Nat /\ Len(c.body) \in Nat /\ Len(c.pages) \in Nat
         /\ c.lacing # <<>> <=> Len(c.lacing) > 0
<1>1. /\ c.pages \in Seq(SeenPages) /\ c.lacing \in Seq(0..Unit) /\ c.body \in Seq(Octets)
      /\ c.granule \in Nat /\ c.eos \in BOOLEAN /\ c.pageno \in Nat
  BY DEF Contents, Octets
<1>2. Len(c.lacing) \in Nat /\ Len(c.body) \in Nat /\ Len(c.pages) \in Nat
  BY <1>1, LenProperties
<1>3. Len(<<>>) = 0 /\ (c.lacing # <<>> => Len(c.lacing) \in Nat \ {0})
  BY <1>1, EmptySeq
<1>4. c.lacing # <<>> <=> Len(c.lacing) > 0
  <2>1. CASE c.lacing = <<>>
    BY <1>3, <2>1
  <2>2. CASE c.lacing # <<>>
    BY <1>3, <2>2
  <2> QED
    BY <2>1, <2>2
<1> QED
  BY <1>1, <1>2, <1>4

LEMMA PendSegs ==
  ASSUME NEW c \in Contents, Laced(c), NEW f
  PROVE  /\ PendOf(c, f).segs = Cut(c.body, c.lacing)
         /\ PendOf(c, f).segs \in Seq(Seq(Octets))
         /\ Len(PendOf(c, f).segs) = Len(c.lacing)
         /\ PendOf(c, f).segs = <<>> <=> c.lacing = <<>>
<1> DEFINE x == Cut(c.body, c.lacing)
<1>1. PendOf(c, f).segs = x
  BY CutNothing DEF PendOf
<1>2. /\ c.lacing \in Seq(0..Unit) /\ c.body \in Seq(Octets)
      /\ Len(c.body) \in Nat /\ Len(c.lacing) \in Nat
      /\ c.lacing # <<>> <=> Len(c.lacing) > 0
  BY ContentFields
<1>3. Bytes(c.lacing) <= Len(c.body)
  BY <1>2 DEF Laced
<1>4. x \in Seq(Seq(Octets)) /\ Len(x) = Len(c.lacing)
  <2> DEFINE b == c.body
             l == c.lacing
  <2>1. b \in Seq(Octets) /\ l \in Seq(0..Unit) /\ Bytes(l) <= Len(b)
    BY <1>2, <1>3
  <2> HIDE DEF b, l
  <2>2. Cut(b, l) \in Seq(Seq(Octets)) /\ Len(Cut(b, l)) = Len(l)
    BY <2>1, CutIs
  <2> QED
    BY <2>2 DEF b, l
<1> HIDE DEF x
<1>5. x = <<>> <=> c.lacing = <<>>
  <2>1. x # <<>> => Len(x) \in Nat \ {0}
    BY <1>4, EmptySeq
  <2>2. Len(<<>>) = 0
    BY EmptySeq
  <2>3. CASE x = <<>>
    BY <1>2, <1>4, <2>2, <2>3
  <2>4. CASE x # <<>>
    <3>1. Len(x) > 0
      BY <2>1, <2>4
    <3> QED
      BY <1>2, <1>4, <2>4, <3>1
  <2> QED
    BY <2>3, <2>4
<1> QED
  BY <1>1, <1>4, <1>5 DEF x

\* What waits with one packet more, as Add has it.
PacketAdded(q, data, g, eos) ==
  [segs |-> q.segs \o Pages!Segments(data), granule |-> g, eos |-> eos, cont |-> FALSE]

\* s is the content c with the packet data at its end.
AddedTo(c, data, g, eos, s) ==
  /\ Laced(s) /\ LastEnds(s)
  /\ s.pages = c.pages /\ s.pageno = c.pageno /\ s.granule = g
  /\ PendOf(s, FALSE) = PacketAdded(PendOf(c, FALSE), data, g, eos)

\* A packet with its lacing values joins.
LEMMA AddShows ==
  ASSUME NEW c \in Contents, Laced(c), NEW k \in Nat, NEW bytes \in Nat,
         NEW g, NEW eos, NEW s,
         s = LacingJoins(BodyJoins(c, PacketData(k, bytes)), Lacing(bytes), g, eos)
  PROVE  AddedTo(c, PacketData(k, bytes), g, eos, s)
<1> DEFINE p == PacketData(k, bytes)
           l == Lacing(bytes)
           d == bytes \div Unit
<1>1. /\ Cut(p, l) = Pages!Segments(p)
      /\ p \in Seq(Octets) /\ Len(p) = bytes
      /\ l \in Seq(0..Unit) /\ Bytes(l) = bytes /\ Len(l) = d + 1
  BY PacketIsCut
<1>2. d \in Nat /\ l[d + 1] < Unit
  BY LacingOf, LacingEnds
<1>3. /\ c.lacing \in Seq(0..Unit) /\ c.body \in Seq(Octets)
      /\ Len(c.lacing) \in Nat /\ Len(c.body) \in Nat
  BY ContentFields
<1> HIDE DEF p, l, d
<1>4. /\ s.pages = c.pages /\ s.pageno = c.pageno /\ s.granule = g /\ s.eos = eos
      /\ s.lacing = c.lacing \o l /\ s.body = c.body \o p
  BY DEF Contents, LacingJoins, BodyJoins, p, l
<1>5. /\ Len(s.lacing) = Len(c.lacing) + (d + 1)
      /\ s.lacing[Len(c.lacing) + (d + 1)] = l[d + 1]
      /\ Len(s.body) = Len(c.body) + bytes
  <2> DEFINE t == c.lacing
             b == c.body
  <2>1. t \in Seq(0..Unit) /\ b \in Seq(Octets)
    BY <1>3
  <2> HIDE DEF t, b
  <2>2. Len(t \o l) = Len(t) + Len(l) /\ \A i \in 1..Len(l) : (t \o l)[Len(t) + i] = l[i]
    <3> DEFINE S == 0..Unit
    <3>1. t \in Seq(S) /\ l \in Seq(S)
      BY <1>1, <2>1
    <3> HIDE DEF S
    <3> QED
      BY <3>1, Joined
  <2>3. Len(b \o p) = Len(b) + Len(p)
    BY <1>1, <2>1, SlicesOfJoined
  <2>4. d + 1 \in 1..(d + 1)
    BY <1>2
  <2>5. (t \o l)[Len(t) + (d + 1)] = l[d + 1]
    BY <1>1, <2>2, <2>4
  <2> QED
    BY <1>1, <1>4, <2>2, <2>3, <2>5 DEF t, b
<1>6. LastEnds(s)
  BY <1>2, <1>5 DEF LastEnds
<1>7. Laced(s)
  <2>1. Bytes(c.lacing \o l) = Bytes(c.lacing) + Bytes(l)
    <3> DEFINE t == c.lacing
    <3>1. t \in Seq(0..Unit)
      BY <1>3
    <3> HIDE DEF t
    <3>2. Bytes(t \o l) = Bytes(t) + Bytes(l)
      BY <1>1, <3>1, EndsJoin
    <3> QED
      BY <3>2 DEF t
  <2> QED
    BY <1>1, <1>4, <1>5, <2>1 DEF Laced
<1>8. Cut(s.body, s.lacing) = Cut(c.body, c.lacing) \o Cut(p, l)
  <2> DEFINE t == c.lacing
             b == c.body
  <2>1. t \in Seq(0..Unit) /\ b \in Seq(Octets) /\ Len(b) = Bytes(t) /\ Bytes(l) <= Len(p)
    BY <1>1, <1>3 DEF Laced
  <2> HIDE DEF t, b
  <2>2. Cut(b \o p, t \o l) = Cut(b, t) \o Cut(p, l)
    BY <1>1, <2>1, CutJoins
  <2> QED
    BY <1>4, <2>2 DEF t, b
<1>9. s.lacing # <<>>
  <2>1. Len(s.lacing) # 0 /\ Len(<<>>) = 0
    <3>1. Len(<<>>) = 0
      BY EmptySeq
    <3> DEFINE x == Len(c.lacing)
    <3>2. x \in Nat
      BY <1>3
    <3> HIDE DEF x
    <3>3. x + (d + 1) # 0
      BY <1>2, <3>2
    <3> QED
      BY <1>5, <3>1, <3>3 DEF x
  <2> QED
    BY <2>1
<1>10. PendOf(c, FALSE).segs = Cut(c.body, c.lacing)
  BY PendSegs
<1>11. PendOf(s, FALSE) = PacketAdded(PendOf(c, FALSE), p, g, eos)
  BY <1>1, <1>4, <1>8, <1>9, <1>10 DEF PendOf, PacketAdded
<1> QED
  BY <1>4, <1>6, <1>7, <1>11 DEF p, l, AddedTo

\* A page is cut off what waits.
LEMMA CutShows ==
  ASSUME NEW c \in Contents, Laced(c), LastEnds(c), c.lacing # <<>>, NEW f \in BOOLEAN,
         Len(c.lacing) > PageLacings =>
           \A i \in 1..(Len(c.lacing) - 1) : c.lacing[i] = Unit
  PROVE  LET full == Len(c.lacing) > PageLacings
             n == IF full THEN PageLacings ELSE Len(c.lacing)
             z == IF full THEN PageLacings * Unit ELSE Len(c.body)
             p == NewPage(c, n, z, full, f)
             s == PageCut(c, n, z, full, f)
         IN /\ Laced(s) /\ LastEnds(s) /\ (s.lacing = <<>> <=> ~full)
            /\ s.pages = Append(c.pages, p) /\ s.pageno = c.pageno + 1
            /\ s.granule = c.granule
            /\ Len(p.body) = Bytes(p.lacing)
            /\ PageOf(p) = Pages!NextPageOf(PendOf(c, f), c.pageno)
            /\ PendOf(s, full) = Pages!RestOf(PendOf(c, f))
<1> DEFINE w == Len(c.lacing)
           full == w > PageLacings
           n == IF full THEN PageLacings ELSE w
           z == IF full THEN PageLacings * Unit ELSE Len(c.body)
           p == NewPage(c, n, z, full, f)
           s == PageCut(c, n, z, full, f)
           l == c.lacing
           b == c.body
           m == SubSeq(l, 1, n)
           r == SubSeq(l, n + 1, Len(l))
           u == SubSeq(b, 1, z)
           v == SubSeq(b, z + 1, Len(b))
           x == Cut(b, l)
<1>1. /\ l \in Seq(0..Unit) /\ b \in Seq(Octets)
      /\ w \in Nat /\ w > 0 /\ Len(b) \in Nat /\ l # <<>>
  BY ContentFields
<1>2. /\ PageLacings \in Nat /\ PageLacings > 1 /\ Unit \in Nat /\ Unit > 0
      /\ PageLacings * Unit \in Nat
  BY PackerAssumption
<1>3. n \in 0..w /\ n > 0 /\ (~full => n = w) /\ (full => n = PageLacings /\ n < w)
  BY <1>1, <1>2
<1>4. Len(b) = Bytes(l) /\ l[w] < Unit
  BY <1>1 DEF Laced, LastEnds
<1>5. full => \A i \in 1..n : l[i] = Unit
  <2>1. full => \A i \in 1..n : i \in 1..(w - 1)
    BY <1>1, <1>3
  <2> QED
    BY <2>1
<1>6. /\ s.pages = Append(c.pages, p) /\ s.pageno = c.pageno + 1
      /\ s.lacing = r /\ s.body = v /\ s.granule = c.granule /\ s.eos = c.eos
  BY DEF PageCut, Contents
<1>7. /\ p.lacing = m /\ p.body = u /\ p.granulepos = (IF full THEN -1 ELSE c.granule)
      /\ p.cont = f /\ p.bos = (c.pageno = 0) /\ p.eos = (~full /\ c.eos)
      /\ p.pageno = c.pageno
  BY DEF NewPage
<1> HIDE DEF s, p
<1>8. /\ m \in Seq(0..Unit) /\ r \in Seq(0..Unit) /\ l = m \o r
      /\ Len(m) = n /\ Len(r) = w - n
      /\ \A i \in 1..n : m[i] = l[i]
      /\ \A i \in 1..Len(r) : r[i] = l[n + i]
  <2>1. n \in 0..Len(l)
    BY <1>3
  <2> HIDE DEF n
  <2> QED
    BY <1>1, <2>1, SplitSeq
<1>9. Bytes(l) = Bytes(m) + Bytes(r) /\ Bytes(m) \in Nat /\ Bytes(r) \in Nat
  <2> HIDE DEF m, r, n
  <2>1. Bytes(m \o r) = Bytes(m) + Bytes(r)
    BY <1>8, EndsJoin
  <2> QED
    BY <1>8, <2>1, EndsType
<1>10. z = Bytes(m) /\ z \in 0..Len(b)
  <2>1. CASE full
    <3>1. Bytes(m) = n * Unit
      <4>1. n \in Nat /\ \A i \in 1..n : m[i] = Unit
        BY <1>3, <1>5, <1>8, <2>1
      <4> HIDE DEF m, n
      <4> QED
        BY <1>8, <4>1, FullRun
    <3>2. z = Bytes(m)
      BY <1>3, <2>1, <3>1
    <3> HIDE DEF z, m, r
    <3> QED
      BY <1>4, <1>9, <3>2
  <2>2. CASE ~full
    <3>1. m = l
      <4>1. Len(m) = Len(l) /\ \A i \in 1..Len(m) : m[i] = l[i]
        BY <1>3, <1>8, <2>2
      <4> HIDE DEF m, l
      <4> QED
        BY <1>1, <1>8, <4>1, SeqEqual
    <3>2. z = Len(b) /\ Bytes(m) = Bytes(l)
      BY <2>2, <3>1
    <3> HIDE DEF z, m, l, b
    <3> QED
      BY <1>1, <1>4, <3>2
  <2> QED
    BY <2>1, <2>2
<1> HIDE DEF z
<1>11. /\ Len(u) = Bytes(m) /\ Len(v) = Bytes(r)
       /\ x \in Seq(Seq(Octets)) /\ Len(x) = w
       /\ SubSeq(x, 1, n) = Cut(u, m)
       /\ SubSeq(x, n + 1, Len(x)) = Cut(v, r)
  <2>1. n \in 0..Len(l)
    BY <1>3
  <2> HIDE DEF n, l, b
  <2>2. /\ Len(u) = Bytes(m) /\ Len(v) = Bytes(r)
        /\ x \in Seq(Seq(Octets)) /\ Len(x) = Len(l)
        /\ SubSeq(x, 1, n) = Cut(u, m)
        /\ SubSeq(x, n + 1, Len(x)) = Cut(v, r)
    BY <1>1, <1>4, <1>10, <2>1, CutSplits, ZenonT(60)
  <2> QED
    BY <2>2 DEF l
<1>12. \A i \in 1..w : Len(x[i]) = l[i]
  <2>1. Bytes(l) <= Len(b)
    BY <1>1, <1>4
  <2> HIDE DEF l, b
  <2>2. \A i \in 1..Len(l) : Len(Cut(b, l)[i]) = l[i]
    BY <1>1, <2>1, CutIs
  <2> QED
    BY <2>2 DEF l
<1> DEFINE q == PendOf(c, f)
<1>13. q = [segs |-> x, granule |-> c.granule, eos |-> c.eos, cont |-> f]
  BY <1>1 DEF PendOf
<1> HIDE DEF q, x, u, v, m, r
<1>14. Laced(s) /\ Len(p.body) = Bytes(p.lacing)
  BY <1>6, <1>7, <1>11 DEF Laced
<1>15. s.lacing = <<>> <=> ~full
  <2>1. Len(<<>>) = 0 /\ (r # <<>> => Len(r) # 0)
    BY <1>8, EmptySeq
  <2>2. Len(r) = 0 <=> ~full
    BY <1>1, <1>3, <1>8
  <2> QED
    BY <1>6, <2>1, <2>2
<1>16. LastEnds(s)
  <2>1. full => Len(r) \in 1..Len(r) /\ n + Len(r) = w
    BY <1>1, <1>3, <1>8
  <2>2. full => r[Len(r)] = l[w]
    BY <1>8, <2>1
  <2> QED
    BY <1>4, <1>6, <1>15, <2>2 DEF LastEnds
<1>17. PageOf(p) = Pages!NextPageOf(q, c.pageno)
  <2>1. (IF Len(q.segs) < PageLacings THEN Len(q.segs) ELSE PageLacings) = n
    BY <1>1, <1>2, <1>11, <1>13
  <2>2. (\E k \in 1..n : Pages!EndsPacket(SubSeq(x, 1, n)[k])) <=> ~full
    <3>1. \A k \in 1..n : Len(SubSeq(x, 1, n)[k]) = l[k]
      <4> DEFINE S == Seq(Octets)
                 y == SubSeq(x, 1, n)
      <4>1. x \in Seq(S) /\ n \in 0..Len(x)
        BY <1>3, <1>11
      <4> HIDE DEF S, n
      <4>2. \A k \in 1..n : y[k] = x[k]
        BY <4>1, SplitSeq
      <4>3. \A k \in 1..n : k \in 1..w
        BY <1>1, <1>3
      <4> QED
        BY <1>12, <4>2, <4>3
    <3>2. full => \A k \in 1..n : ~(l[k] < Unit)
      BY <1>2, <1>5
    <3>3. ~full => n \in 1..n /\ l[n] < Unit
      BY <1>1, <1>3, <1>4
    <3> DEFINE y == SubSeq(x, 1, n)
    <3> HIDE DEF y, n, full, l
    <3>4. \A k \in 1..n : Pages!EndsPacket(y[k]) <=> l[k] < Unit
      BY <3>1 DEF y, Pages!EndsPacket
    <3> QED
      BY <3>2, <3>3, <3>4 DEF y
  <2> QED
    <3> DEFINE y == SubSeq(x, 1, n)
    <3> HIDE DEF n, full, l, b, w
    <3>1. Pages!NextPageOf(q, c.pageno) =
            [segs    |-> y,
             granule |-> IF \E k \in 1..n : Pages!EndsPacket(y[k]) THEN c.granule ELSE -1,
             cont    |-> f, bos |-> c.pageno = 0,
             eos     |-> c.eos /\ n = w, pageno |-> c.pageno]
      BY <1>11, <1>13, <2>1 DEF Pages!NextPageOf
    <3> HIDE DEF y
    <3>2. (\E k \in 1..n : Pages!EndsPacket(y[k])) <=> ~full
      BY <2>2 DEF y
    <3>3. (n = w) <=> ~full
      BY <1>1, <1>3 DEF full
    <3>4. PageOf(p) = [segs |-> y, granule |-> IF full THEN -1 ELSE c.granule, cont |-> f,
                       bos |-> c.pageno = 0, eos |-> ~full /\ c.eos, pageno |-> c.pageno]
      BY <1>7, <1>11 DEF PageOf, y
    <3>5. (c.eos /\ n = w) = (~full /\ c.eos)
      BY <1>13, <3>3
    <3> QED
      BY <3>1, <3>2, <3>4, <3>5
<1>18. PendOf(s, full) = Pages!RestOf(q)
  <2>1. CASE full
    <3>1. ~(Len(q.segs) <= PageLacings) /\ n = PageLacings /\ n \in 1..n /\ n \in 1..w
      BY <1>1, <1>2, <1>3, <1>11, <1>13, <2>1
    <3>2. Len(x[n]) = Unit
      BY <1>5, <1>12, <2>1, <3>1
    <3>3. ~Pages!EndsPacket(x[n])
      BY <1>2, <3>2 DEF Pages!EndsPacket
    <3> HIDE DEF n, full, w, l, b
    <3>4. Pages!RestOf(q) = [segs |-> SubSeq(x, n + 1, Len(x)), granule |-> c.granule,
                             eos |-> c.eos, cont |-> TRUE]
      BY <1>13, <3>1, <3>3 DEF Pages!RestOf
    <3>5. PendOf(s, TRUE) = [segs |-> Cut(v, r), granule |-> c.granule,
                             eos |-> c.eos, cont |-> TRUE]
      BY <1>6, <1>15, <2>1 DEF PendOf
    <3> QED
      BY <1>11, <2>1, <3>4, <3>5
  <2>2. CASE ~full
    <3>1. Len(q.segs) <= PageLacings
      BY <1>1, <1>2, <1>11, <1>13, <2>2
    <3> QED
      BY <1>15, <2>2, <3>1 DEF PendOf, Pages!RestOf, Pages!NothingPending
  <2> QED
    BY <2>1, <2>2
<1> QED
  BY <1>6, <1>14, <1>15, <1>16, <1>17, <1>18 DEF s, p, q, z

LEMMA QueueIs ==
  ASSUME NEW o, Laid(o)
  PROVE  [i \in DOMAIN o.pages |-> PageOf(PageAt(o, o.pages[i]))] = QueueOf(Content(o))
<1>1. /\ DOMAIN o.pages = 1..Len(o.pages) /\ Len(Content(o).pages) = Len(o.pages)
      /\ \A i \in 1..Len(o.pages) : Content(o).pages[i] = Seen(o, o.pages[i])
  <2>1. o.pages \in Seq(PageRecord)
    BY OggFields DEF Laid
  <2> QED
    BY <2>1, ContentType, LenProperties
<1>2. \A p : PageOf(PageAt(o, p)) = PageOf(Seen(o, p))
  BY DEF PageOf, PageAt, Seen
<1> QED
  BY <1>1, <1>2 DEF QueueOf

LEMMA QueueType ==
  ASSUME NEW c \in Contents
  PROVE  LET S == {PageOf(p) : p \in SeenPages}
         IN /\ QueueOf(c) \in Seq(S) /\ Len(QueueOf(c)) = Len(c.pages)
            /\ \A i \in 1..Len(c.pages) : QueueOf(c)[i] = PageOf(c.pages[i])
<1> DEFINE S == {PageOf(p) : p \in SeenPages}
           n == Len(c.pages)
           q == QueueOf(c)
<1>1. c.pages \in Seq(SeenPages) /\ n \in Nat
  BY ContentFields
<1>2. \A i \in 1..n : c.pages[i] \in SeenPages
  BY <1>1, ElementOfSeq
<1>3. q = [i \in 1..n |-> PageOf(c.pages[i])]
  BY DEF QueueOf
<1>4. q \in [1..n -> S]
  BY <1>2, <1>3
<1> HIDE DEF S, n, q
<1>5. q \in Seq(S) /\ Len(q) = n
  BY <1>1, <1>4, FunctionIsSeq
<1> QED
  BY <1>3, <1>5 DEF S, n, q

\* A page more, a page less.
LEMMA QueueGrows ==
  ASSUME NEW c \in Contents, NEW s \in Contents, NEW p, s.pages = Append(c.pages, p)
  PROVE  /\ QueueOf(s) = Append(QueueOf(c), PageOf(p))
         /\ PagesLaced(c) /\ Len(p.body) = Bytes(p.lacing) => PagesLaced(s)
<1> DEFINE n == Len(c.pages)
           x == QueueOf(c)
           y == QueueOf(s)
           T == {PageOf(q) : q \in SeenPages}
<1>1. c.pages \in Seq(SeenPages) /\ n \in Nat
  BY ContentFields
<1>2. /\ Len(s.pages) = n + 1 /\ s.pages[n + 1] = p
      /\ \A i \in 1..n : s.pages[i] = c.pages[i]
  <2> DEFINE S == SeenPages \cup {p}
             t == c.pages
  <2>1. t \in Seq(S) /\ p \in S
    BY <1>1
  <2> HIDE DEF S, t
  <2>2. /\ Len(Append(t, p)) = Len(t) + 1 /\ Append(t, p)[Len(t) + 1] = p
        /\ \A i \in 1..Len(t) : Append(t, p)[i] = t[i]
    BY <2>1, AppendProperties
  <2> QED
    BY <2>2 DEF t
<1>3. x \in Seq(T) /\ Len(x) = n /\ \A i \in 1..n : x[i] = PageOf(c.pages[i])
  BY QueueType
<1>4. y \in Seq(T) /\ Len(y) = n + 1 /\ \A i \in 1..(n + 1) : y[i] = PageOf(s.pages[i])
  BY <1>2, QueueType
<1> HIDE DEF n, x, y, T
<1>5. y = Append(x, PageOf(p))
  <2>1. y[n + 1] = PageOf(p) /\ n + 1 \in 1..(n + 1)
    BY <1>1, <1>2, <1>4
  <2>2. PageOf(p) \in T
    BY <1>4, <2>1, ElementOfSeq
  <2> DEFINE z == Append(x, PageOf(p))
  <2>3. /\ z \in Seq(T) /\ Len(z) = n + 1 /\ z[n + 1] = PageOf(p)
        /\ \A i \in 1..n : z[i] = x[i]
    BY <1>3, <2>2, AppendProperties
  <2> HIDE DEF z
  <2>4. ASSUME NEW i \in 1..Len(y) PROVE y[i] = z[i]
    <3>1. i \in 1..(n + 1) /\ (i \in 1..n \/ i = n + 1)
      BY <1>1, <1>4
    <3> QED
      BY <1>2, <1>3, <1>4, <2>1, <2>3, <3>1
  <2>5. y = z
    BY <1>4, <2>3, <2>4, SeqEqual
  <2> QED
    BY <2>5 DEF z
<1>6. ASSUME PagesLaced(c), Len(p.body) = Bytes(p.lacing) PROVE PagesLaced(s)
  <2>1. \A i \in 1..(n + 1) : i \in 1..n \/ i = n + 1
    BY <1>1
  <2> QED
    BY <1>2, <1>6, <2>1 DEF PagesLaced, n
<1> QED
  BY <1>5, <1>6 DEF x, y

LEMMA QueueShrinks ==
  ASSUME NEW c \in Contents, NEW s \in Contents, c.pages # <<>>, s.pages = Tail(c.pages)
  PROVE  /\ QueueOf(c) # <<>> /\ Head(QueueOf(c)) = PageOf(Head(c.pages))
         /\ QueueOf(s) = Tail(QueueOf(c))
         /\ PagesLaced(c) => PagesLaced(s)
<1> DEFINE n == Len(c.pages)
           x == QueueOf(c)
           y == QueueOf(s)
           T == {PageOf(q) : q \in SeenPages}
<1>1. c.pages \in Seq(SeenPages) /\ n \in Nat /\ n > 0
  <2>1. c.pages \in Seq(SeenPages) /\ n \in Nat
    BY ContentFields
  <2>2. n \in Nat \ {0}
    BY <2>1, EmptySeq
  <2> QED
    BY <2>1, <2>2
<1>2. /\ Len(s.pages) = n - 1
      /\ \A i \in 1..(n - 1) : s.pages[i] = c.pages[i + 1]
  BY <1>1, HeadTailProperties
<1>3. x \in Seq(T) /\ Len(x) = n /\ \A i \in 1..n : x[i] = PageOf(c.pages[i])
  BY QueueType
<1>4. y \in Seq(T) /\ Len(y) = n - 1 /\ \A i \in 1..(n - 1) : y[i] = PageOf(s.pages[i])
  BY <1>2, QueueType
<1>5. Head(c.pages) = c.pages[1]
  BY <1>1
<1> HIDE DEF n, x, y, T
<1>6. x # <<>> /\ Head(x) = x[1]
  <2>1. Len(<<>>) = 0
    BY EmptySeq
  <2>2. x # <<>>
    BY <1>1, <1>3, <2>1
  <2> QED
    BY <1>3, <2>2
<1>7. y = Tail(x)
  <2> DEFINE z == Tail(x)
  <2>1. z \in Seq(T) /\ Len(z) = n - 1 /\ \A i \in 1..Len(z) : z[i] = x[i + 1]
    BY <1>3, <1>6, HeadTailProperties
  <2> HIDE DEF z
  <2>2. \A i \in 1..(n - 1) : i + 1 \in 1..n
    BY <1>1
  <2>3. Len(y) = Len(z) /\ \A i \in 1..Len(y) : y[i] = z[i]
    BY <1>2, <1>3, <1>4, <2>1, <2>2
  <2>4. y = z
    BY <1>4, <2>1, <2>3, SeqEqual
  <2> QED
    BY <2>4 DEF z
<1>8. ASSUME PagesLaced(c) PROVE PagesLaced(s)
  <2>1. \A i \in 1..(n - 1) : i + 1 \in 1..n
    BY <1>1
  <2> QED
    BY <1>2, <1>8, <2>1 DEF PagesLaced, n
<1>9. 1 \in 1..n
  BY <1>1
<1> QED
  BY <1>3, <1>5, <1>6, <1>7, <1>8, <1>9 DEF x, y

-----------------------------------------------------------------------------
(* The invariant of the bytes, and the steps of OggPages *)

Flows ==
  /\ PagesLaced(Content(oggp)) /\ LastEnds(Content(oggp))
  /\ pc # "torn" => Laced(Content(oggp))

\* No packet after the last, and no granule position past the last step.
Counted ==
  /\ asked # -1 \/ Appending => committed < MaxPackets
  /\ Appending => /\ call.bytes \in Sizes
                  /\ call.granule <= (committed + 1) * LongestStep
  /\ oggp.curr_granule <= committed * LongestStep

LInv == IInv /\ Flows /\ Counted

LEMMA WaitingIs ==
  /\ Waiting = PendOf(Content(oggp), pc \in {"flush", "aborted"} /\ call.cont)
  /\ Waiting' = PendOf(Content(oggp'), pc' \in {"flush", "aborted"} /\ call'.cont)
BY DEF Waiting, Pending, PendingBody, PendOf, Content

LEMMA MadeIs ==
  /\ Laid(oggp) => Made = QueueOf(Content(oggp))
  /\ Laid(oggp') => Made' = QueueOf(Content(oggp'))
<1>1. Laid(oggp) => Made = QueueOf(Content(oggp))
  BY QueueIs DEF Made
<1>2. Laid(oggp') => Made' = QueueOf(Content(oggp'))
  BY QueueIs DEF Made
<1> QED
  BY <1>1, <1>2

\* A step that changes neither what waits nor the pages made.
LEMMA Stutters ==
  ASSUME Waiting' = Waiting, Made' = Made, page' = page, oggp'.pageno = oggp.pageno
  PROVE  UNCHANGED Pages!pageVars
BY DEF Pages!pageVars, Given

\* The page that GrownPages and WithPage make.
LEMMA PageMade ==
  ASSUME NEW o, Laid(o), Room(o), Oversized(o), NothingLeft(o), NbLacing(o) > 0,
         NEW cont \in BOOLEAN
  PROVE  LET s == WithPage(GrownPages(o), cont)
             c == Content(o)
             full == Len(c.lacing) > PageLacings
             n == IF full THEN PageLacings ELSE Len(c.lacing)
             z == IF full THEN PageLacings * Unit ELSE Len(c.body)
         IN /\ Content(s) = PageCut(c, n, z, full, cont)
            /\ Content(s) \in Contents /\ c \in Contents /\ c.lacing # <<>>
            /\ Laid(s) /\ NbLacing(s) = Len(Content(s).lacing)
            /\ full => \A i \in 1..(Len(c.lacing) - 1) : c.lacing[i] = Unit
<1> DEFINE w == GrownPages(o)
           s == WithPage(w, cont)
           c == Content(o)
           k == Len(c.lacing)
           full == k > PageLacings
           n == IF full THEN PageLacings ELSE k
           z == IF full THEN PageLacings * Unit ELSE Len(c.body)
<1>1. /\ Laid(w) /\ Room(w) /\ Len(w.pages) + 1 <= w.pages_size
      /\ Oversized(w) /\ NothingLeft(w) /\ NbLacing(w) > 0 /\ NbLacing(w) = NbLacing(o)
  <2>1. SameRanges(o, w) /\ Room(w) /\ Len(w.pages) + 1 <= w.pages_size
    BY GrownPagesKeeps
  <2> HIDE DEF w
  <2>2. Laid(w) /\ NbLacing(w) = NbLacing(o) /\ Oversized(w) /\ NothingLeft(w)
    BY <2>1, SameRangesKeep
  <2> QED
    BY <2>1, <2>2
<1>2. Content(w) = c
  <2>1. 0 \in Nat
    OBVIOUS
  <2> QED
    BY <2>1, GrownShowTheSame
<1> HIDE DEF w
<1>3. Laid(s)
  <2>1. Shape(s)
    BY <1>1, WithPageKeeps
  <2> HIDE DEF s
  <2> QED
    BY <2>1 DEF Shape, Laid
<1>4. Content(s) = PageCut(c, LacingTaken(w), BytesTaken(w), NbLacing(w) > PageLacings, cont)
  BY <1>1, <1>2, <1>3, WithPageShows
<1> HIDE DEF s
<1>5. /\ c \in Contents /\ k = NbLacing(w) /\ Len(c.body) = Len(w.buf) - w.buf_begin
      /\ \A i \in 1..k : c.lacing[i] = w.lacing[w.lacing_begin + i]
  BY <1>1, <1>2, ContentType
<1>6. Content(s) \in Contents /\ NbLacing(s) = Len(Content(s).lacing)
  BY <1>3, ContentType
<1>7. c.lacing # <<>>
  BY <1>1, <1>5, ContentFields
<1> HIDE DEF c
<1>8. /\ PageLacings \in Nat /\ PageLacings > 1 /\ w.lacing_begin \in Nat
      /\ Len(w.lacing) \in Nat /\ k \in Nat /\ k = Len(w.lacing) - w.lacing_begin
  <2>1. w \in Oggs
    BY <1>1 DEF Laid
  <2>2. w.lacing_begin \in Nat /\ Len(w.lacing) \in Nat
    BY <2>1, OggFields
  <2>3. k \in Nat
    BY <1>5, ContentFields
  <2>4. PageLacings \in Nat /\ PageLacings > 1
    BY PackerAssumption
  <2>5. k = Len(w.lacing) - w.lacing_begin
    BY <1>5 DEF NbLacing
  <2> HIDE DEF w, k
  <2> QED
    BY <2>2, <2>3, <2>4, <2>5
<1>9. full => \A i \in (w.lacing_begin + 1)..(Len(w.lacing) - 1) : w.lacing[i] = Unit
  BY <1>1, <1>5 DEF Oversized
<1>10. full => \A i \in 1..(k - 1) : c.lacing[i] = Unit
  <2> DEFINE x == w.lacing_begin
             y == Len(w.lacing)
  <2>1. x \in Nat /\ y \in Nat /\ k = y - x
    BY <1>8
  <2> HIDE DEF x, y, k
  <2>2. \A i \in 1..(k - 1) : x + i \in (x + 1)..(y - 1) /\ i \in 1..k
    BY <2>1
  <2> QED
    BY <1>5, <1>9, <2>2 DEF x, y
<1>11. full => w.lacing[w.lacing_begin + 2] = Unit
  <2> DEFINE x == w.lacing_begin
             y == Len(w.lacing)
  <2>1. x \in Nat /\ y \in Nat /\ k = y - x
    BY <1>8
  <2> HIDE DEF x, y, k
  <2>2. k > PageLacings => x + 2 \in (x + 1)..(y - 1)
    BY <1>8, <2>1
  <2> QED
    BY <1>9, <2>2 DEF x, y
<1>12. LacingTaken(w) = n /\ BytesTaken(w) = z
  BY <1>5, <1>11 DEF LacingTaken, BytesTaken
<1> QED
  BY <1>3, <1>4, <1>5, <1>6, <1>7, <1>10, <1>12 DEF s, w, c

-----------------------------------------------------------------------------
(* The bounds *)

LEMMA Longest == LongestStep \in Nat /\ \A d \in Steps : d \in Nat /\ d <= LongestStep
<1>1. \E d \in Steps : \A e \in Steps : e <= d
  BY BoundsAssumption
<1>2. LongestStep \in Steps /\ \A e \in Steps : e <= LongestStep
  BY <1>1 DEF LongestStep
<1> QED
  BY <1>2, PackerAssumption

LEMMA NextStep ==
  ASSUME NEW c \in Nat, NEW u \in Nat
  PROVE  c * u \in Nat /\ (c + 1) * u = c * u + u
OBVIOUS

LEMMA GranuleBound ==
  ASSUME NEW c \in Nat, NEW m \in Nat, c < m, NEW u \in Nat, NEW g \in Nat, g <= (c + 1) * u
  PROVE  g \in 0..(m * u)
<1> DEFINE k == m - (c + 1)
           x == (c + 1) * u
           y == k * u
<1>1. k \in Nat /\ m = (c + 1) + k /\ c + 1 \in Nat
  OBVIOUS
<1>2. m * u = x + y /\ x \in Nat /\ y \in Nat
  <2>1. ((c + 1) + k) * u = (c + 1) * u + k * u
    BY <1>1
  <2> QED
    BY <1>1, <2>1
<1>3. g <= x
  OBVIOUS
<1> HIDE DEF x, y
<1> QED
  BY <1>2, <1>3

\* The step of OggPages, and the invariant after it.
Maps == Flows' /\ Counted' /\ [Pages!PagesNext]_(Pages!pageVars)

LEMMA AtPages ==
  ASSUME LInv, IInv'
  PROVE  /\ Laid(oggp) /\ Laid(oggp')
         /\ Content(oggp) \in Contents /\ Content(oggp') \in Contents
         /\ Made = QueueOf(Content(oggp)) /\ Made' = QueueOf(Content(oggp'))
         /\ Waiting = PendOf(Content(oggp), pc \in {"flush", "aborted"} /\ call.cont)
         /\ Waiting' = PendOf(Content(oggp'), pc' \in {"flush", "aborted"} /\ call'.cont)
         /\ oggp.pageno = Content(oggp).pageno /\ oggp'.pageno = Content(oggp').pageno
         /\ oggp.curr_granule = Content(oggp).granule
         /\ oggp'.curr_granule = Content(oggp').granule
<1>1. Laid(oggp) /\ Laid(oggp')
  BY DEF LInv, IInv, Shape, Laid
<1>2. \A o : /\ o.pageno = Content(o).pageno /\ o.curr_granule = Content(o).granule
  BY DEF Content
<1> QED
  BY <1>1, <1>2, ContentType, WaitingIs, MadeIs

\* Nothing a caller can tell has changed.
LEMMA SameContent ==
  ASSUME LInv, IInv', Content(oggp') = Content(oggp), page' = page, pc # "torn",
         ~(pc \in {"flush", "aborted"} /\ call.cont), ~(pc' \in {"flush", "aborted"} /\ call'.cont), Counted'
  PROVE  Maps
<1>1. Flows'
  BY DEF LInv, Flows
<1>2. (pc \in {"flush", "aborted"} /\ call.cont) = FALSE /\ (pc' \in {"flush", "aborted"} /\ call'.cont) = FALSE
  OBVIOUS
<1>3. Waiting' = Waiting /\ Made' = Made /\ oggp'.pageno = oggp.pageno
  BY <1>2, AtPages
<1> QED
  BY <1>1, <1>3, Stutters DEF Maps

LEMMA CountedStays ==
  ASSUME LInv, UNCHANGED <<committed, asked>>, oggp'.curr_granule = oggp.curr_granule,
         Appending' => /\ Appending /\ call'.bytes = call.bytes
                       /\ call'.granule = call.granule
  PROVE  Counted'
BY DEF LInv, Counted

LEMMA SetMuxingDelayMaps ==
  ASSUME LInv, IInv', NEW delay \in Delays, SetMuxingDelay(delay)
  PROVE  Maps
<1>1. /\ pc = "idle" /\ oggp' = [oggp EXCEPT !.muxing_delay = delay]
      /\ UNCHANGED <<alloc_size, pc, call, asked, page, committed>>
  BY DEF SetMuxingDelay
<1>2. Content(oggp') = Content(oggp) /\ oggp'.curr_granule = oggp.curr_granule
  <2>1. oggp \in Oggs
    BY AtRest DEF LInv
  <2>2. /\ oggp'.pages = oggp.pages /\ oggp'.lacing = oggp.lacing /\ oggp'.buf = oggp.buf
        /\ oggp'.lacing_begin = oggp.lacing_begin /\ oggp'.buf_begin = oggp.buf_begin
        /\ oggp'.curr_granule = oggp.curr_granule /\ oggp'.is_eos = oggp.is_eos
        /\ oggp'.pageno = oggp.pageno
    BY <1>1, <2>1 DEF Oggs
  <2> QED
    BY <2>2 DEF Content, Seen
<1>3. ~Appending'
  BY <1>1 DEF Appending
<1>4. Counted'
  BY <1>1, <1>2, <1>3, CountedStays
<1> QED
  BY <1>1, <1>2, <1>4, SameContent

LEMMA GetPacketBufferMaps ==
  ASSUME LInv, IInv', NEW bytes \in Sizes, GetPacketBuffer(bytes)
  PROVE  Maps
<1> DEFINE o == IF BufFits(oggp, bytes) THEN oggp ELSE Shifted(oggp)
           s == IF BufFits(o, bytes) THEN o ELSE GrownBuf(o, bytes)
<1>1. bytes \in Nat
  BY PackerAssumption
<1>2. /\ pc = "idle" /\ committed < MaxPackets /\ oggp' = s
      /\ UNCHANGED <<pc, call, page, committed>>
  BY DEF GetPacketBuffer
<1>3. Laid(oggp) /\ Room(oggp)
  BY DEF LInv, IInv, Shape, Laid
<1>4. Laid(o) /\ Room(o) /\ Content(o) = Content(oggp)
  BY <1>3, ShiftedKeeps DEF Kept
<1> HIDE DEF o
<1>5. Content(s) = Content(oggp)
  BY <1>1, <1>4, GrownShowTheSame
<1> HIDE DEF s
<1>6. Content(oggp') = Content(oggp)
  BY <1>2, <1>5
<1>7. Counted'
  BY <1>2, <1>6, AtPages DEF LInv, Counted, Appending
<1> QED
  BY <1>2, <1>6, <1>7, SameContent

LEMMA GetNoPacketBufferMaps ==
  ASSUME LInv, IInv', NEW bytes \in Sizes, GetNoPacketBuffer(bytes)
  PROVE  Maps
<1>1. /\ pc = "idle" /\ oggp' = Shifted(oggp) /\ asked' = -1
      /\ UNCHANGED <<alloc_size, pc, call, page, committed>>
  BY DEF GetNoPacketBuffer
<1>2. Laid(oggp)
  BY DEF LInv, IInv, Shape, Laid
<1>3. Content(oggp') = Content(oggp)
  BY <1>1, <1>2, ShiftedKeeps DEF Kept
<1>4. Counted'
  BY <1>1, <1>3, AtPages DEF LInv, Counted, Appending
<1> QED
  BY <1>1, <1>3, <1>4, SameContent

LEMMA CommitPacketMaps ==
  ASSUME LInv, IInv', NEW bytes \in Sizes, NEW d \in Steps, NEW eos \in BOOLEAN,
         CommitPacket(bytes, oggp.curr_granule + d, eos)
  PROVE  Maps
<1> DEFINE g == oggp.curr_granule + d
           c == [NoCall EXCEPT !.bytes = bytes, !.granule = g, !.eos = eos]
<1>1. /\ bytes \in Nat /\ d \in Nat /\ d <= LongestStep /\ LongestStep \in Nat
      /\ oggp.curr_granule \in Nat /\ committed \in Nat /\ g \in Nat
      /\ asked \in Nat \cup {-1} /\ NbLacing(oggp) \in Nat
  <2>1. bytes \in Nat /\ d \in Nat /\ d <= LongestStep /\ LongestStep \in Nat
    BY PackerAssumption, Longest
  <2>2. /\ oggp \in Oggs /\ committed \in Nat /\ asked \in Nat \cup {-1}
        /\ NbLacing(oggp) \in Nat
    BY AtRest DEF LInv
  <2>3. oggp.curr_granule \in Nat
    BY <2>2 DEF Oggs
  <2> QED
    BY <2>1, <2>2, <2>3
<1>2. c \in Calls /\ c.bytes = bytes /\ c.granule = g /\ c.cont = FALSE
  BY <1>1 DEF NoCall, Calls
<1>3. /\ pc = "idle" /\ bytes <= asked /\ asked' = -1
      /\ UNCHANGED <<oggp, alloc_size, page, committed>>
      /\ StartFlush(oggp, "append", c) \/ (pc' = "append" /\ call' = c)
  BY DEF CommitPacket
<1>4. call'.bytes = bytes /\ call'.granule = g /\ call'.cont = FALSE
  BY <1>1, <1>2, <1>3, FlushStarts
<1>5. committed < MaxPackets
  <2>1. asked # -1
    BY <1>1, <1>3
  <2> QED
    BY <2>1 DEF LInv, Counted
<1>6. g <= (committed + 1) * LongestStep
  <2> DEFINE x == committed * LongestStep
             v == oggp.curr_granule
  <2>1. x \in Nat /\ (committed + 1) * LongestStep = x + LongestStep
    BY <1>1, NextStep
  <2>2. v <= x /\ v \in Nat
    BY <1>1 DEF LInv, Counted
  <2> HIDE DEF x, v
  <2>3. v + d <= x + LongestStep
    BY <1>1, <2>1, <2>2
  <2> QED
    BY <2>1, <2>3 DEF v
<1> HIDE DEF g, c
<1>7. Counted'
  BY <1>3, <1>4, <1>5, <1>6 DEF LInv, Counted
<1> QED
  BY <1>3, <1>4, <1>7, SameContent

\* FlushPage and Chain.
LEMMA FlushMaps ==
  ASSUME LInv, IInv', NEW next \in {"idle", "chain"}, pc = "idle",
         StartFlush(oggp, next, NoCall), UNCHANGED <<oggp, alloc_size, asked, page, committed>>
  PROVE  Maps
<1>1. /\ call'.next = next /\ call'.cont = FALSE /\ pc' # "append"
  <2>1. NbLacing(oggp) \in Nat /\ next \in {"idle", "append", "chain"}
    BY AtRest DEF LInv
  <2> QED
    BY <2>1, NoCallType, FlushStarts
<1>2. ~Appending'
  BY <1>1 DEF Appending
<1>3. Counted'
  BY <1>2, CountedStays
<1> QED
  BY <1>1, <1>3, SameContent

LEMMA AppendPacketMaps ==
  ASSUME LInv, IInv', AppendPacket
  PROVE  Maps
<1> DEFINE k == committed + 1
           b == call.bytes
           g == call.granule
           e == call.eos
           p == PacketData(k, b)
           c == Content(oggp)
           s == LacingJoins(BodyJoins(c, p), Lacing(b), g, e)
           n == b \div Unit + 1
<1>1. /\ pc = "append" /\ oggp' = Appended(oggp, k, b, g, e) /\ committed' = k
      /\ UNCHANGED <<alloc_size, asked, page>>
      /\ StartFlush(oggp', "idle", NoCall) \/ (pc' = "idle" /\ call' = NoCall)
  BY DEF AppendPacket, Appended, FilledWith
<1>2. /\ Shape(oggp) /\ NothingLeft(oggp) /\ committed \in Nat /\ k \in Nat
      /\ b \in Nat /\ g \in Nat /\ e \in BOOLEAN
  BY <1>1, AtRest DEF LInv, Calls
<1>3. /\ asked = -1 /\ Len(oggp.buf) + b <= oggp.buf_size
      /\ NbLacing(oggp) + b \div Unit + 1 <= PageLacings \/ NbLacing(oggp) = 0
  BY <1>1 DEF LInv, IInv, Control, Appending
<1>4. /\ committed < MaxPackets /\ b \in Sizes /\ g <= (committed + 1) * LongestStep
  BY <1>1 DEF LInv, Counted, Appending
<1>5. Laced(c) /\ c \in Contents /\ Content(oggp') \in Contents
  BY <1>1, AtPages DEF LInv, Flows
<1>6. ~(pc \in {"flush", "aborted"} /\ call.cont) /\ ~(pc' \in {"flush", "aborted"} /\ call'.cont) /\ ~Appending'
  <2>1. CASE pc' = "idle" /\ call' = NoCall
    BY <1>1, <2>1 DEF Appending
  <2>2. CASE StartFlush(oggp', "idle", NoCall)
    <3>1. NbLacing(oggp') \in Nat
      BY AtRest, Counts DEF IInv
    <3>2. /\ call'.next = "idle" /\ call'.cont = FALSE /\ (pc' = "flush" \/ pc' = "idle")
      BY <2>2, <3>1, NoCallType, FlushStarts
    <3> QED
      BY <1>1, <3>2 DEF Appending
  <2> QED
    BY <1>1, <2>1, <2>2
<1>7. Waiting = PendOf(c, FALSE) /\ Waiting' = PendOf(Content(oggp'), FALSE)
  <2>1. (pc \in {"flush", "aborted"} /\ call.cont) = FALSE /\ (pc' \in {"flush", "aborted"} /\ call'.cont) = FALSE
    BY <1>6
  <2> QED
    BY <2>1, AtPages
<1>8. /\ Made = QueueOf(c) /\ Made' = QueueOf(Content(oggp'))
      /\ oggp.pageno = c.pageno /\ oggp'.pageno = Content(oggp').pageno
      /\ oggp'.curr_granule = Content(oggp').granule
  BY AtPages
<1>9. NbLacing(oggp) = Len(c.lacing)
  BY AtPages, ContentType
<1> HIDE DEF k, b, g, e, c
<1>10. Content(oggp') = s
  BY <1>1, <1>2, <1>3, AppendedShows DEF c
<1>11. s = LacingJoins(BodyJoins(c, p), Lacing(b), g, e)
  OBVIOUS
<1> HIDE DEF s
<1>12. /\ Laced(s) /\ LastEnds(s)
       /\ s.pages = c.pages /\ s.pageno = c.pageno /\ s.granule = g
       /\ PendOf(s, FALSE) = PacketAdded(PendOf(c, FALSE), p, g, e)
  <2>1. c \in Contents /\ Laced(c) /\ k \in Nat /\ b \in Nat /\ g \in Nat /\ e \in BOOLEAN
    BY <1>2, <1>5
  <2> HIDE DEF n
  <2>2. AddedTo(c, PacketData(k, b), g, e, s)
    BY <1>11, <2>1, AddShows
  <2> QED
    BY <2>2 DEF AddedTo
<1>13. Flows'
  <2>1. PagesLaced(c)
    BY DEF LInv, Flows, c
  <2> QED
    BY <1>10, <1>12, <2>1 DEF Flows, PagesLaced
<1>14. Counted'
  BY <1>1, <1>3, <1>4, <1>6, <1>8, <1>10, <1>12 DEF Counted, k
<1>15. Pages!Add(p, g, e)
  <2>1. Made' = Made /\ oggp'.pageno = oggp.pageno
    BY <1>8, <1>10, <1>12 DEF QueueOf
  <2>2. ~Waiting.cont
    BY <1>7 DEF PendOf
  <2>3. Waiting.segs # <<>> => Len(Waiting.segs) + Len(Pages!Segments(p)) <= PageLacings
    <3>1. /\ Len(Waiting.segs) = Len(c.lacing) /\ Len(Pages!Segments(p)) = n
          /\ Waiting.segs = <<>> <=> c.lacing = <<>>
      BY <1>2, <1>5, <1>7, PendSegs, PacketIsCut
    <3>2. /\ c.lacing # <<>> <=> Len(c.lacing) > 0
          /\ Len(c.lacing) \in Nat /\ b \div Unit \in Nat /\ PageLacings \in Nat
      BY <1>2, <1>5, ContentFields, LacingOf, PackerAssumption
    <3> DEFINE w == Len(c.lacing)
               d == b \div Unit
    <3>3. w + d + 1 <= PageLacings \/ w = 0
      BY <1>3, <1>9 DEF b
    <3> HIDE DEF w, d
    <3>4. w > 0 => w + (d + 1) <= PageLacings
      BY <3>2, <3>3 DEF w, d
    <3> QED
      BY <3>1, <3>2, <3>4 DEF w, d
  <2>4. Waiting' = [segs |-> Waiting.segs \o Pages!Segments(p), granule |-> g,
                    eos |-> e, cont |-> FALSE]
    BY <1>7, <1>10, <1>12 DEF PacketAdded
  <2> HIDE DEF p
  <2> QED
    BY <1>1, <2>1, <2>2, <2>3, <2>4 DEF Pages!Add, Given
<1>16. /\ p \in {PacketData(i, bytes) : i \in 1..MaxPackets, bytes \in Sizes}
       /\ g \in 0..(MaxPackets * LongestStep)
  <2>1. MaxPackets \in Nat /\ LongestStep \in Nat
    BY BoundsAssumption, Longest
  <2>2. k \in 1..MaxPackets
    BY <1>2, <1>4, <2>1 DEF k
  <2>3. g \in 0..(MaxPackets * LongestStep)
    <3> DEFINE u == LongestStep
               m == MaxPackets
    <3>1. /\ committed \in Nat /\ m \in Nat /\ committed < m /\ u \in Nat
          /\ g \in Nat /\ g <= (committed + 1) * u
      BY <1>2, <1>4, <2>1
    <3> HIDE DEF u, m
    <3>2. g \in 0..(m * u)
      BY <3>1, GranuleBound
    <3> QED
      BY <3>2 DEF u, m
  <2> QED
    BY <1>4, <2>2, <2>3
<1>17. Pages!PagesNext
  <2> HIDE DEF p
  <2> QED
    BY <1>2, <1>15, <1>16 DEF Pages!PagesNext
<1> QED
  BY <1>13, <1>14, <1>17 DEF Maps

\* The bytes stay in the buffer; OggPages sees nothing of them.
LEMMA AppendFailsMaps ==
  ASSUME LInv, IInv', AppendFails
  PROVE  Maps
<1> DEFINE k == committed + 1
           b == call.bytes
           p == PacketData(k, b)
           c == Content(oggp)
           s == BodyJoins(c, p)
           g == call.granule
           e == call.eos
<1>1. /\ pc = "append" /\ oggp' = Shifted(FilledWith(oggp, k, b)) /\ pc' = "torn"
      /\ UNCHANGED <<alloc_size, call, asked, page, committed>>
  BY DEF AppendFails, FilledWith
<1>2. /\ Shape(oggp) /\ NothingLeft(oggp) /\ k \in Nat /\ b \in Nat
      /\ g \in Nat /\ e \in BOOLEAN
  BY <1>1, AtRest DEF LInv, Calls
<1>3. /\ Len(oggp.buf) + b <= oggp.buf_size
      /\ NbLacing(oggp) + b \div Unit + 1 <= PageLacings \/ NbLacing(oggp) = 0
  BY <1>1 DEF LInv, IInv, Control, Appending
<1>4. /\ Laced(c) /\ c \in Contents /\ Content(oggp') \in Contents
      /\ PagesLaced(c) /\ LastEnds(c)
  BY <1>1, AtPages DEF LInv, Flows
<1>5. Waiting = PendOf(c, FALSE) /\ Waiting' = PendOf(Content(oggp'), FALSE)
  <2>1. (pc \in {"flush", "aborted"} /\ call.cont) = FALSE /\ (pc' \in {"flush", "aborted"} /\ call'.cont) = FALSE
    BY <1>1
  <2> QED
    BY <2>1, AtPages
<1>6. /\ Made = QueueOf(c) /\ Made' = QueueOf(Content(oggp'))
      /\ oggp.pageno = c.pageno /\ oggp'.pageno = Content(oggp').pageno
      /\ oggp.curr_granule = c.granule
      /\ oggp'.curr_granule = Content(oggp').granule
  BY AtPages
<1> HIDE DEF k, b, c, g, e
<1>7. Content(oggp') = s
  BY <1>1, <1>2, <1>3, AppendedShows DEF c
<1>8. /\ s.pages = c.pages /\ s.lacing = c.lacing /\ s.body = c.body \o p
      /\ s.granule = c.granule /\ s.eos = c.eos /\ s.pageno = c.pageno
  BY <1>4 DEF BodyJoins, Contents
<1>9. PendOf(s, FALSE) = PendOf(c, FALSE)
  <2>1. c.lacing \in Seq(0..Unit) /\ c.body \in Seq(Octets) /\ p \in Seq(Octets)
    BY <1>2, <1>4, ContentFields, PacketIsCut
  <2> DEFINE t == c.lacing
             v == c.body
  <2>2. t \in Seq(0..Unit) /\ v \in Seq(Octets) /\ Len(v) = Bytes(t)
    BY <1>4, <2>1 DEF Laced
  <2> HIDE DEF t, v, p
  <2>3. Cut(v \o p, t) = Cut(v, t)
    BY <2>1, <2>2, CutIgnores
  <2> QED
    BY <1>8, <2>3 DEF PendOf, t, v
<1> HIDE DEF s
<1>10. Flows'
  BY <1>1, <1>4, <1>7, <1>8 DEF Flows, PagesLaced, LastEnds
<1>11. Counted'
  <2>1. ~Appending'
    BY <1>1 DEF Appending
  <2> QED
    BY <1>1, <1>6, <1>7, <1>8, <2>1, CountedStays
<1>12. Waiting' = Waiting /\ Made' = Made /\ oggp'.pageno = oggp.pageno
  BY <1>5, <1>6, <1>7, <1>8, <1>9 DEF QueueOf
<1> QED
  BY <1>1, <1>10, <1>11, <1>12, Stutters DEF Maps

LEMMA MakePageMaps ==
  ASSUME LInv, IInv', MakePage
  PROVE  Maps
<1> DEFINE f == call.cont
           o == WithPage(GrownPages(oggp), f)
           done == NbLacing(o) = 0
           h == [o EXCEPT !.last_granule = o.curr_granule]
           c == Content(oggp)
           full == Len(c.lacing) > PageLacings
           n == IF full THEN PageLacings ELSE Len(c.lacing)
           z == IF full THEN PageLacings * Unit ELSE Len(c.body)
           p == NewPage(c, n, z, full, f)
           s == PageCut(c, n, z, full, f)
<1>1. /\ pc = "flush" /\ UNCHANGED <<alloc_size, asked, page, committed>>
      /\ oggp' = IF done THEN h ELSE o
      /\ pc' = IF done THEN call.next ELSE "flush"
      /\ call' = IF done /\ call.next = "idle" THEN NoCall ELSE [call EXCEPT !.cont = ~done]
  BY DEF MakePage
<1>2. /\ Shape(oggp) /\ NothingLeft(oggp) /\ NbLacing(oggp) > 0
      /\ f \in BOOLEAN /\ call.next \in {"idle", "append", "chain"} /\ call \in Calls
  BY <1>1, AtRest DEF LInv, IInv, Control, Calls
<1>3. Laid(oggp) /\ Room(oggp) /\ Oversized(oggp)
  BY <1>2 DEF Shape, Laid
<1> HIDE DEF f
<1>4. /\ Content(o) = s /\ s \in Contents /\ c \in Contents /\ c.lacing # <<>>
      /\ Laid(o) /\ NbLacing(o) = Len(s.lacing)
      /\ full => \A i \in 1..(Len(c.lacing) - 1) : c.lacing[i] = Unit
  BY <1>2, <1>3, PageMade
<1>5. /\ Laced(c) /\ LastEnds(c) /\ PagesLaced(c) /\ Waiting = PendOf(c, f)
      /\ Made = QueueOf(c) /\ oggp.pageno = c.pageno /\ oggp.curr_granule = c.granule
  <2>1. (pc \in {"flush", "aborted"} /\ call.cont) = f
    BY <1>1, <1>2 DEF f
  <2> QED
    BY <1>1, <2>1, AtPages DEF LInv, Flows
<1> HIDE DEF c
<1>6. /\ Laced(s) /\ LastEnds(s) /\ (s.lacing = <<>> <=> ~full)
      /\ s.pages = Append(c.pages, p) /\ s.pageno = c.pageno + 1
      /\ s.granule = c.granule
      /\ Len(p.body) = Bytes(p.lacing)
      /\ PageOf(p) = Pages!NextPageOf(PendOf(c, f), c.pageno)
      /\ PendOf(s, full) = Pages!RestOf(PendOf(c, f))
  BY <1>2, <1>4, <1>5, CutShows
<1>7. (done <=> ~full) /\ full \in BOOLEAN
  <2> HIDE DEF p, s, n, z
  <2> QED
    BY <1>4, <1>6, ContentFields
<1> HIDE DEF p, s, n, z, full
<1> HIDE DEF o
<1>8. Content(oggp') = s
  <2>1. Content(h) = Content(o)
    <3>1. o \in Oggs
      BY <1>4 DEF Laid
    <3>2. /\ h.pages = o.pages /\ h.lacing = o.lacing /\ h.buf = o.buf
          /\ h.lacing_begin = o.lacing_begin /\ h.buf_begin = o.buf_begin
          /\ h.curr_granule = o.curr_granule /\ h.is_eos = o.is_eos /\ h.pageno = o.pageno
      BY <3>1 DEF Oggs
    <3> QED
      BY <3>2 DEF Content, Seen
  <2> QED
    BY <1>1, <1>4, <2>1
<1> HIDE DEF h
<1>9. (pc' \in {"flush", "aborted"} /\ call'.cont) = full
  <2>1. CASE done
    <3>1. pc' \notin {"flush", "aborted"} /\ ~full
      BY <1>1, <1>2, <1>7, <2>1
    <3> QED
      BY <1>7, <3>1
  <2>2. CASE ~done
    <3>1. pc' = "flush" /\ call'.cont = TRUE /\ full
      BY <1>1, <1>2, <1>7, <2>2 DEF Calls
    <3> QED
      BY <1>7, <3>1
  <2> QED
    BY <2>1, <2>2
<1>10. /\ Waiting' = PendOf(s, full) /\ Made' = QueueOf(s) /\ oggp'.pageno = s.pageno
       /\ oggp'.curr_granule = s.granule
  BY <1>8, <1>9, AtPages
<1>11. QueueOf(s) = Append(QueueOf(c), PageOf(p)) /\ PagesLaced(s)
  BY <1>4, <1>5, <1>6, QueueGrows
<1>12. Flows'
  BY <1>6, <1>8, <1>11 DEF Flows
<1>13. Counted'
  <2>1. Appending' => Appending /\ call'.bytes = call.bytes /\ call'.granule = call.granule
    <3>1. CASE done /\ call.next = "idle"
      BY <1>1, <3>1 DEF Appending
    <3>2. CASE ~(done /\ call.next = "idle")
      <4>1. /\ call'.bytes = call.bytes /\ call'.granule = call.granule
            /\ call'.next = call.next
        BY <1>1, <1>2, <3>2 DEF Calls
      <4>2. Appending' => call.next = "append"
        BY <1>1, <4>1 DEF Appending
      <4> QED
        BY <1>1, <4>1, <4>2 DEF Appending
    <3> QED
      BY <3>1, <3>2
  <2> QED
    BY <1>1, <1>5, <1>6, <1>10, <2>1, CountedStays
<1>14. Waiting.segs # <<>>
  BY <1>4, <1>5, PendSegs
<1>15. Pages!Cut
  BY <1>1, <1>5, <1>6, <1>10, <1>11, <1>14 DEF Pages!Cut, Given
<1> QED
  BY <1>12, <1>13, <1>15 DEF Maps, Pages!PagesNext

LEMMA GetNextPageMaps ==
  ASSUME LInv, IInv', GetNextPage
  PROVE  Maps
<1> DEFINE h == WithHeader(oggp, oggp.pages[1])
           c == Content(oggp)
           s == PageGiven(c)
<1>1. /\ pc = "idle" /\ oggp.pages # <<>>
      /\ page' = PageAt(h, oggp.pages[1]) /\ oggp' = [h EXCEPT !.pages = Tail(@)]
      /\ UNCHANGED <<alloc_size, pc, call, asked, committed>>
  BY DEF GetNextPage
<1>2. Shape(oggp) /\ NothingLeft(oggp)
  BY <1>1, AtRest DEF LInv
<1>3. /\ Content(oggp') = s /\ c.pages # <<>>
      /\ PageOf(PageAt(h, oggp.pages[1])) = PageOf(Head(c.pages))
  BY <1>1, <1>2, HandedOutShows
<1> HIDE DEF h
<1>4. /\ Laced(c) /\ LastEnds(c) /\ PagesLaced(c) /\ c \in Contents /\ s \in Contents
      /\ Made = QueueOf(c) /\ Made' = QueueOf(s)
      /\ oggp.pageno = c.pageno /\ oggp.curr_granule = c.granule
      /\ oggp'.pageno = s.pageno /\ oggp'.curr_granule = s.granule
      /\ Waiting = PendOf(c, FALSE) /\ Waiting' = PendOf(s, FALSE)
  <2>1. (pc \in {"flush", "aborted"} /\ call.cont) = FALSE /\ (pc' \in {"flush", "aborted"} /\ call'.cont) = FALSE
    BY <1>1
  <2> QED
    BY <1>1, <1>3, <2>1, AtPages DEF LInv, Flows
<1> HIDE DEF c
<1>5. /\ s.pages = Tail(c.pages) /\ s.lacing = c.lacing /\ s.body = c.body
      /\ s.granule = c.granule /\ s.eos = c.eos /\ s.pageno = c.pageno
  BY <1>4 DEF PageGiven, Contents
<1> HIDE DEF s
<1>6. /\ QueueOf(c) # <<>> /\ Head(QueueOf(c)) = PageOf(Head(c.pages))
      /\ QueueOf(s) = Tail(QueueOf(c)) /\ PagesLaced(s)
  BY <1>3, <1>4, <1>5, QueueShrinks
<1>7. Flows'
  BY <1>3, <1>4, <1>5, <1>6 DEF Flows, Laced, LastEnds
<1>8. Counted'
  <2>1. ~Appending'
    BY <1>1 DEF Appending
  <2> QED
    BY <1>1, <1>4, <1>5, <2>1, CountedStays
<1>9. Given' = Head(Made) /\ Waiting' = Waiting /\ oggp'.pageno = oggp.pageno
  BY <1>1, <1>3, <1>4, <1>5, <1>6 DEF Given, PendOf
<1>10. Pages!Give
  BY <1>4, <1>6, <1>9 DEF Pages!Give
<1> QED
  BY <1>7, <1>8, <1>10 DEF Maps, Pages!PagesNext

LEMMA NewStreamMaps ==
  ASSUME LInv, IInv', NewStream
  PROVE  Maps
<1> DEFINE c == Content(oggp)
           s == Content(oggp')
<1>1. /\ pc = "chain" /\ pc' = "idle" /\ call' = NoCall
      /\ oggp' = [oggp EXCEPT !.serialno = @ + 1, !.curr_granule = 0,
                              !.last_granule = 0, !.is_eos = FALSE, !.pageno = 0]
      /\ UNCHANGED <<alloc_size, asked, page, committed>>
  BY DEF NewStream
<1>2. oggp \in Oggs /\ NbLacing(oggp) = 0 /\ committed \in Nat
  BY <1>1, AtRest DEF LInv, IInv, Control
<1>3. /\ s.pages = c.pages /\ s.lacing = c.lacing /\ s.body = c.body
      /\ s.granule = 0 /\ s.pageno = 0
  <2>1. /\ oggp'.pages = oggp.pages /\ oggp'.lacing = oggp.lacing /\ oggp'.buf = oggp.buf
        /\ oggp'.lacing_begin = oggp.lacing_begin /\ oggp'.buf_begin = oggp.buf_begin
        /\ oggp'.curr_granule = 0 /\ oggp'.pageno = 0
    BY <1>1, <1>2 DEF Oggs
  <2> QED
    BY <2>1 DEF Content, Seen
<1>4. /\ Laced(c) /\ LastEnds(c) /\ PagesLaced(c) /\ c \in Contents /\ s \in Contents
      /\ Made = QueueOf(c) /\ Made' = QueueOf(s)
      /\ oggp'.pageno = s.pageno /\ oggp'.curr_granule = s.granule
      /\ Waiting = PendOf(c, FALSE) /\ Waiting' = PendOf(s, FALSE)
      /\ Len(c.lacing) = NbLacing(oggp)
  <2>1. (pc \in {"flush", "aborted"} /\ call.cont) = FALSE /\ (pc' \in {"flush", "aborted"} /\ call'.cont) = FALSE
    BY <1>1
  <2> QED
    BY <1>1, <2>1, AtPages, ContentType DEF LInv, Flows
<1> HIDE DEF c, s
<1>5. c.lacing = <<>>
  BY <1>2, <1>4, ContentFields
<1>6. Waiting.segs = <<>> /\ Waiting' = Waiting /\ Made' = Made
  BY <1>3, <1>4, <1>5 DEF PendOf, QueueOf
<1>7. Flows'
  BY <1>3, <1>4, <1>5 DEF Flows, Laced, LastEnds, PagesLaced, s
<1>8. Counted'
  <2>1. ~Appending'
    BY <1>1 DEF Appending
  <2>2. 0 <= committed' * LongestStep
    <3>1. committed * LongestStep \in Nat
      BY <1>2, Longest, NextStep
    <3> DEFINE x == committed * LongestStep
    <3> HIDE DEF x
    <3>2. x \in Nat
      BY <3>1 DEF x
    <3>3. 0 <= x
      BY <3>2
    <3> QED
      BY <1>1, <3>3 DEF x
  <2> QED
    BY <1>1, <1>3, <1>4, <2>1, <2>2 DEF LInv, Counted, Appending
<1>9. Pages!NewStream
  BY <1>1, <1>3, <1>4, <1>6 DEF Pages!NewStream, Given
<1> QED
  BY <1>7, <1>8, <1>9 DEF Maps, Pages!PagesNext

\* Overruns and PagesFail: OggPages sees nothing of them.
LEMMA EndMaps ==
  ASSUME LInv, IInv', \/ pc = "idle" /\ pc' = "overrun"
                      \/ pc = "flush" /\ pc' = "aborted",
         UNCHANGED <<oggp, alloc_size, call, asked, page, committed>>
  PROVE  Maps
<1>1. Flows'
  BY DEF LInv, Flows
<1>2. Counted'
  <2>1. ~Appending'
    BY DEF Appending
  <2> QED
    BY <2>1, CountedStays
<1>3. (pc \in {"flush", "aborted"} /\ call.cont) = (pc' \in {"flush", "aborted"} /\ call'.cont)
  OBVIOUS
<1>4. Waiting' = Waiting /\ Made' = Made
  BY <1>3, AtPages
<1> QED
  BY <1>1, <1>2, <1>4, Stutters DEF Maps

LEMMA InitMaps == Init => LInv /\ Pages!PagesInit
<1> SUFFICES ASSUME Init PROVE LInv /\ Pages!PagesInit
  OBVIOUS
<1>1. IInv
  BY InitIInv
<1>2. /\ oggp = Create(1) /\ pc = "idle" /\ asked = -1 /\ page = NoPage /\ committed = 0
  BY DEF Init
<1>3. /\ oggp.pages = <<>> /\ oggp.lacing = <<>> /\ oggp.buf = <<>>
      /\ oggp.lacing_begin = 0 /\ oggp.buf_begin = 0
      /\ oggp.curr_granule = 0 /\ oggp.pageno = 0
  BY <1>2 DEF Create
<1>4. /\ <<>> \in Seq(0..Unit) /\ <<>> \in Seq(Octets) /\ Len(<<>>) = 0
      /\ DOMAIN <<>> = 1..0
  BY EmptySeq, LenProperties
<1>5. SubSeq(<<>>, 0 + 1, Len(<<>>)) = <<>>
  BY <1>4, SubSeqEmpty
<1> DEFINE c == Content(oggp)
<1>6. c.lacing = <<>> /\ c.body = <<>> /\ Len(c.pages) = 0
  <2>1. Laid(oggp)
    BY <1>1 DEF IInv, Shape, Laid
  <2> QED
    BY <1>3, <1>4, <1>5, <2>1, ContentType DEF Content
<1>7. Flows
  <2>1. 1..0 = {}
    OBVIOUS
  <2> QED
    BY <1>4, <1>6, <2>1, NoBytes DEF Flows, PagesLaced, LastEnds, Laced
<1>8. Counted
  <2>1. 0 * LongestStep = 0
    BY Longest
  <2> QED
    BY <1>2, <1>3, <2>1 DEF Counted, Appending
<1>9. Pages!PagesInit
  <2>1. Waiting = Pages!NothingPending
    BY <1>6, WaitingIs DEF PendOf, Pages!NothingPending
  <2>2. Made = <<>>
    BY <1>3, <1>4 DEF Made
  <2>3. Given = Pages!NoPage
    <3>1. page.body = <<>> /\ page.lacing = <<>>
      BY <1>2 DEF NoPage
    <3> QED
      BY <1>2, <3>1, CutNothing DEF Given, PageOf, NoPage, Pages!NoPage
  <2> QED
    BY <1>3, <2>1, <2>2, <2>3 DEF Pages!PagesInit
<1> QED
  BY <1>1, <1>7, <1>8, <1>9 DEF LInv

LEMMA NextMaps == LInv /\ [Next]_vars => LInv' /\ [Pages!PagesNext]_(Pages!pageVars)
<1> SUFFICES ASSUME LInv, [Next]_vars PROVE LInv' /\ [Pages!PagesNext]_(Pages!pageVars)
  OBVIOUS
<1>1. IInv'
  BY NextKeepsIInv DEF LInv
<1> SUFFICES Maps
  BY <1>1 DEF Maps, LInv
<1>2. ASSUME NEW delay \in Delays, SetMuxingDelay(delay) PROVE Maps
  BY <1>1, <1>2, SetMuxingDelayMaps
<1>3. ASSUME NEW bytes \in Sizes, GetPacketBuffer(bytes) PROVE Maps
  BY <1>1, <1>3, GetPacketBufferMaps
<1>4. ASSUME NEW bytes \in Sizes, GetNoPacketBuffer(bytes) PROVE Maps
  BY <1>1, <1>4, GetNoPacketBufferMaps
<1>5. ASSUME NEW bytes \in Sizes, NEW d \in Steps, NEW eos \in BOOLEAN,
             CommitPacket(bytes, oggp.curr_granule + d, eos)
      PROVE  Maps
  BY <1>1, <1>5, CommitPacketMaps
<1>6. CASE AppendPacket
  BY <1>1, <1>6, AppendPacketMaps
<1>7. CASE AppendFails
  BY <1>1, <1>7, AppendFailsMaps
<1>8. CASE FlushPage
  BY <1>1, <1>8, FlushMaps DEF FlushPage
<1>9. CASE MakePage
  BY <1>1, <1>9, MakePageMaps
<1>10. CASE GetNextPage
  BY <1>1, <1>10, GetNextPageMaps
<1>11. CASE Chain
  BY <1>1, <1>11, FlushMaps DEF Chain
<1>12. CASE NewStream
  BY <1>1, <1>12, NewStreamMaps
<1>13. ASSUME NEW bytes \in Sizes, Overruns(bytes) PROVE Maps
  BY <1>1, <1>13, EndMaps DEF Overruns
<1>14. CASE PagesFail
  BY <1>1, <1>14, EndMaps DEF PagesFail
<1>15. CASE UNCHANGED vars
  <2>1. UNCHANGED <<oggp, alloc_size, pc, call, asked, page, committed>>
    BY <1>15 DEF vars
  <2>2. Flows' /\ Counted'
    BY <2>1 DEF LInv, Flows, Counted, Appending
  <2>3. Waiting' = Waiting /\ Made' = Made
    BY <2>1 DEF Waiting, Pending, PendingBody, Made
  <2> QED
    BY <2>1, <2>2, <2>3, Stutters DEF Maps
<1> QED
  BY <1>2, <1>3, <1>4, <1>5, <1>6, <1>7, <1>8, <1>9, <1>10, <1>11, <1>12, <1>13, <1>14,
     <1>15 DEF Next

\* A page has the bytes its lacing values announce, also when a packet is split
\* between pages, and so has what waits (ogg_packer.c:331-356).
THEOREM BytesAreAlwaysLaced == Spec => []BytesAreLaced
<1>1. ASSUME LInv PROVE BytesAreLaced
  <2> DEFINE c == Content(oggp)
  <2>1. Laid(oggp)
    BY <1>1 DEF LInv, IInv, Shape, Laid
  <2>2. /\ DOMAIN oggp.pages = 1..Len(oggp.pages) /\ Len(c.pages) = Len(oggp.pages)
        /\ \A i \in 1..Len(oggp.pages) : c.pages[i] = Seen(oggp, oggp.pages[i])
    <3>1. oggp.pages \in Seq(PageRecord)
      BY <2>1, OggFields DEF Laid
    <3> QED
      BY <2>1, <3>1, ContentType, LenProperties
  <2>3. PagesLaced(c) /\ (pc # "torn" => Laced(c))
    BY <1>1 DEF LInv, Flows
  <2>4. c.lacing = Pending /\ c.body = PendingBody
    BY DEF Content, Pending, PendingBody
  <2> HIDE DEF c
  <2>5. ASSUME NEW i \in DOMAIN oggp.pages
        PROVE  LET p == PageAt(oggp, oggp.pages[i])
               IN Len(p.body) = oggp.pages[i].buf_size /\ Len(p.body) = Bytes(p.lacing)
    <3> DEFINE p == PageAt(oggp, oggp.pages[i])
               q == Seen(oggp, oggp.pages[i])
    <3>1. p.body = q.body /\ p.lacing = q.lacing
      BY DEF PageAt, Seen
    <3>2. i \in 1..Len(oggp.pages)
      BY <2>2
    <3>3. Len(q.body) = oggp.pages[i].buf_size
      BY <2>1, <3>2, SeenType
    <3>4. Len(q.body) = Bytes(q.lacing)
      BY <2>2, <2>3, <3>2 DEF PagesLaced
    <3> HIDE DEF p, q
    <3>5. Len(p.body) = oggp.pages[i].buf_size /\ Len(p.body) = Bytes(p.lacing)
      BY <3>1, <3>3, <3>4
    <3> QED
      BY <3>5 DEF p
  <2> QED
    BY <2>3, <2>4, <2>5 DEF BytesAreLaced, Laced
<1>2. LInv => BytesAreLaced
  BY <1>1
<1> QED
  BY <1>2, InitMaps, NextMaps, PTL DEF Spec

\* The packer implements OggPages: shifting, growing, writing headers in place and
\* handing out pages in the middle of a call change no byte of a packet, no page
\* boundary and no flag (ogg_packer.c:211-402).
THEOREM PackerImplementsPages == Spec => ImplementsPages
BY InitMaps, NextMaps, PTL DEF Spec, ImplementsPages, Pages!PagesSpec
=============================================================================
