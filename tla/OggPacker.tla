----------------------------- MODULE OggPacker -----------------------------
(***************************************************************************)
(* oggpacker of libopusenc (ogg_packer.c): packets are appended to one     *)
(* buffer, their lacing values to another; a page is a range of both.      *)
(* Pages are handed out in place: the header is written over the bytes     *)
(* before the page's own.  When a buffer is full, what has been handed out *)
(* is shifted away, or the buffer grows.                                   *)
(*                                                                         *)
(* Positions count from 0 as in C: byte x of the buffer is buf[x + 1].     *)
(* The loop of oggp_flush_page is one step a page; pc tells where a call   *)
(* is, "idle" between two calls.  The model ends where the C program has   *)
(* no meaning left: "torn" when a packet has lost its lacing values,       *)
(* "overrun" when its bytes do not fit what is allocated, "aborted" when   *)
(* the assertion in oggp_flush_page fails.                                 *)
(***************************************************************************)
EXTENDS Integers, Sequences

CONSTANTS Unit,           \* 255, a full lacing value
          PageLacings,    \* 255, lacing values of a full page
          FixedHeader,    \* 27, bytes of a page header before its lacing values
          InitialPages,   \* 10, pages allocated at first
          Sizes,          \* sizes of packets, and of the buffers asked for
          Steps,          \* how far a packet moves the granule position
          Delays,         \* values of the muxing delay
          MaxPackets,     \* bound on the packets committed
          MaxStreams      \* bound on the logical streams

ASSUME PackerAssumption ==
  /\ Unit \in Nat \ {0}
  /\ PageLacings \in Nat \ {0, 1}
  /\ FixedHeader \in Nat
  /\ InitialPages \in Nat \ {0}
  /\ Sizes \subseteq Nat /\ Steps \subseteq Nat /\ Delays \subseteq Nat

\* The bounds of the model: so many packets, and a longest step.
ASSUME BoundsAssumption ==
  /\ MaxPackets \in Nat
  /\ \E d \in Steps : \A e \in Steps : e <= d

VARIABLES oggp,       \* struct oggpacker
          alloc_size, \* bytes allocated at its alloc_buf
          pc,         \* where the call under way is
          call,       \* its arguments and local variables
          asked,      \* size of the packet buffer the caller holds, or -1
          page,       \* what oggp_get_next_page returned last
          committed   \* packets committed so far: names the bytes of a packet

vars == <<oggp, alloc_size, pc, call, asked, page, committed>>

MaxHeaderSize == FixedHeader + PageLacings
MaxPageSize == PageLacings * Unit + MaxHeaderSize

\* Byte i of the k-th packet; a byte of a page header.
PacketData(k, bytes) == [i \in 1..bytes |-> <<k, i>>]
HeaderByte == <<0, 0>>

NoCall == [bytes |-> 0, granule |-> 0, eos |-> FALSE, next |-> "idle", cont |-> FALSE]

NoPage == [lacing |-> <<>>, body |-> <<>>, granulepos |-> 0, cont |-> FALSE,
           bos |-> FALSE, eos |-> FALSE, pageno |-> -1, serialno |-> 0]

-----------------------------------------------------------------------------
(* Helpers on the struct *)

NbLacing(o) == Len(o.lacing) - o.lacing_begin

\* Mutant: the pages keep the positions they had.
ShiftLacingOnly(o, n) ==
  IF 4 * n > Len(o.lacing)
  THEN [o EXCEPT !.lacing = SubSeq(@, n + 1, Len(@)), !.lacing_begin = @ - n]
  ELSE o

\* memmove of the lacing values, and of the positions that point to them.
ShiftLacing(o, n) ==
  IF 4 * n > Len(o.lacing)
  THEN [o EXCEPT !.lacing = SubSeq(@, n + 1, Len(@)),
                 !.lacing_begin = @ - n,
                 !.pages = [i \in DOMAIN o.pages |->
                              [o.pages[i] EXCEPT !.lacing_pos = @ - n]]]
  ELSE o

ShiftBuf(o, n) ==
  IF 4 * n > Len(o.buf)
  THEN [o EXCEPT !.buf = SubSeq(@, n + 1, Len(@)),
                 !.buf_begin = @ - n,
                 !.pages = [i \in DOMAIN o.pages |->
                              [o.pages[i] EXCEPT !.buf_pos = @ - n]]]
  ELSE o

\* Mutant: pages not handed out yet are not looked at.
ShiftedToBegin(o) == ShiftBuf(ShiftLacing(o, o.lacing_begin), o.buf_begin)

\* shift_buffer: drop what lies before the first page not handed out.
Shifted(o) ==
  LET buf_shift == IF o.pages # <<>> THEN o.pages[1].buf_pos ELSE o.buf_begin
      lacing_shift == IF o.pages # <<>> THEN o.pages[1].lacing_pos ELSE o.lacing_begin
  IN ShiftBuf(ShiftLacing(o, lacing_shift), buf_shift)

\* Room for so many bytes: shift if there is none, grow if that is not enough.
BufFits(o, bytes) == Len(o.buf) + bytes <= o.buf_size

\* So many bytes are allocated at alloc_buf; buf, which begins behind the room
\* for a header, is given the same size.
GrownBuf(o, bytes) ==
  [o EXCEPT !.buf_size = ((Len(o.buf) + bytes + MaxHeaderSize) * 3) \div 2]

LacingFits(o, n) == Len(o.lacing) + n <= o.lacing_size

GrownLacing(o, n) == [o EXCEPT !.lacing_size = ((Len(o.lacing) + n) * 3) \div 2]

GrownPages(o) ==
  IF Len(o.pages) >= o.pages_size
  THEN [o EXCEPT !.pages_size = 1 + (@ * 3) \div 2]
  ELSE o

\* The lacing values of a packet.
Lacing(bytes) ==
  [i \in 1..(bytes \div Unit + 1) |->
     IF i <= bytes \div Unit THEN Unit ELSE bytes - Unit * (bytes \div Unit)]

WithLacing(o, bytes, granulepos, eos) ==
  [o EXCEPT !.lacing = @ \o Lacing(bytes),
            !.curr_granule = granulepos,
            !.is_eos = eos]

\* Mutant: the last lacing value stands for all of them.
WithPageByLast(o, cont) ==
  LET full == NbLacing(o) > PageLacings
      p == [granulepos |-> IF full THEN -1 ELSE o.curr_granule,
            lacing_pos |-> o.lacing_begin,
            lacing_size |-> IF full THEN PageLacings ELSE NbLacing(o),
            buf_pos |-> o.buf_begin,
            buf_size |-> IF full THEN PageLacings * o.lacing[Len(o.lacing)]
                         ELSE Len(o.buf) - o.buf_begin,
            cont |-> cont,
            eos |-> ~full /\ o.is_eos,
            bos |-> o.pageno = 0,
            pageno |-> o.pageno]
  IN [o EXCEPT !.pages = Append(@, p),
               !.lacing_begin = @ + p.lacing_size,
               !.buf_begin = @ + p.buf_size,
               !.pageno = @ + 1]

\* Mutant: every page of a split packet ends the stream.
WithPageEos(o, cont) ==
  LET full == NbLacing(o) > PageLacings
      p == [granulepos |-> IF full THEN -1 ELSE o.curr_granule,
            lacing_pos |-> o.lacing_begin,
            lacing_size |-> IF full THEN PageLacings ELSE NbLacing(o),
            buf_pos |-> o.buf_begin,
            buf_size |-> IF full THEN PageLacings * o.lacing[o.lacing_begin + 2]
                         ELSE Len(o.buf) - o.buf_begin,
            cont |-> cont,
            eos |-> o.is_eos,
            bos |-> o.pageno = 0,
            pageno |-> o.pageno]
  IN [o EXCEPT !.pages = Append(@, p),
               !.lacing_begin = @ + p.lacing_size,
               !.buf_begin = @ + p.buf_size,
               !.pageno = @ + 1]

\* One round of the loop of oggp_flush_page.
WithPage(o, cont) ==
  LET full == NbLacing(o) > PageLacings
      p == [granulepos |-> IF full THEN -1 ELSE o.curr_granule,
            lacing_pos |-> o.lacing_begin,
            lacing_size |-> IF full THEN PageLacings ELSE NbLacing(o),
            buf_pos |-> o.buf_begin,
            buf_size |-> IF full THEN PageLacings * o.lacing[o.lacing_begin + 2]
                         ELSE Len(o.buf) - o.buf_begin,
            cont |-> cont,
            eos |-> ~full /\ o.is_eos,
            bos |-> o.pageno = 0,
            pageno |-> o.pageno]
  IN [o EXCEPT !.pages = Append(@, p),
               !.lacing_begin = @ + p.lacing_size,
               !.buf_begin = @ + p.buf_size,
               !.pageno = @ + 1]

\* The header is written in front of page p, over bytes handed out already; what
\* lies before position 0 goes to the reserve kept in front of the buffer.
WithHeader(o, p) ==
  [o EXCEPT !.buf = [x \in DOMAIN @ |->
     IF x - 1 < p.buf_pos /\ x - 1 >= p.buf_pos - (FixedHeader + p.lacing_size)
     THEN HeaderByte ELSE @[x]]]

\* What a reader of the returned pointer sees.
PageAt(o, p) ==
  [lacing |-> SubSeq(o.lacing, p.lacing_pos + 1, p.lacing_pos + p.lacing_size),
   body |-> SubSeq(o.buf, p.buf_pos + 1, p.buf_pos + p.buf_size),
   granulepos |-> p.granulepos, cont |-> p.cont, bos |-> p.bos, eos |-> p.eos,
   pageno |-> p.pageno, serialno |-> o.serialno]

-----------------------------------------------------------------------------
(* The calls *)

\* oggp_create
Create(serialno) ==
  [serialno |-> serialno,
   buf |-> <<>>, buf_size |-> MaxPageSize, buf_begin |-> 0,
   lacing |-> <<>>, lacing_size |-> PageLacings + 1, lacing_begin |-> 0,
   pages |-> <<>>, pages_size |-> InitialPages,
   is_eos |-> FALSE, curr_granule |-> 0, last_granule |-> 0,
   pageno |-> 0, muxing_delay |-> 0]

Init ==
  /\ oggp = Create(1)
  /\ alloc_size = MaxPageSize + MaxHeaderSize
  /\ pc = "idle"
  /\ call = NoCall
  /\ asked = -1
  /\ page = NoPage
  /\ committed = 0

SetMuxingDelay(delay) ==
  /\ pc = "idle"
  /\ oggp' = [oggp EXCEPT !.muxing_delay = delay]
  /\ UNCHANGED <<alloc_size, pc, call, asked, page, committed>>

GetPacketBuffer(bytes) ==
  /\ pc = "idle" /\ committed < MaxPackets
  /\ LET o == IF BufFits(oggp, bytes) THEN oggp ELSE Shifted(oggp)
     IN oggp' = IF BufFits(o, bytes) THEN o ELSE GrownBuf(o, bytes)
  /\ alloc_size' = IF oggp'.buf_size = oggp.buf_size THEN alloc_size ELSE oggp'.buf_size
  /\ asked' = bytes
  /\ UNCHANGED <<pc, call, page, committed>>

\* realloc fails: the caller gets NULL.
GetNoPacketBuffer(bytes) ==
  /\ pc = "idle" /\ committed < MaxPackets
  /\ ~BufFits(oggp, bytes) /\ ~BufFits(Shifted(oggp), bytes)
  /\ oggp' = Shifted(oggp)
  /\ asked' = -1
  /\ UNCHANGED <<alloc_size, pc, call, page, committed>>

\* The room that is allocated behind buf.
Allocated == alloc_size - MaxHeaderSize

\* The caller writes the bytes it asked for, past what is allocated.
Overruns(bytes) ==
  /\ pc = "idle"
  /\ bytes <= asked /\ ~oggp.is_eos
  /\ Len(oggp.buf) + bytes > Allocated
  /\ pc' = "overrun"
  /\ UNCHANGED <<oggp, alloc_size, call, asked, page, committed>>

\* A flush that then goes on with step next.
StartFlush(o, next, c) ==
  /\ pc' = IF NbLacing(o) = 0 THEN next ELSE "flush"
  /\ call' = [c EXCEPT !.next = next, !.cont = FALSE]

\* oggp_commit_packet, up to the flush that may come first.  Its only caller,
\* opusenc.c, commits nothing between the last packet of a stream and oggp_chain.
CommitPacket(bytes, granulepos, eos) ==
  LET arguments == [NoCall EXCEPT !.bytes = bytes, !.granule = granulepos, !.eos = eos]
  IN
  /\ pc = "idle"
  /\ bytes <= asked /\ ~oggp.is_eos
  /\ Len(oggp.buf) + bytes <= Allocated
  /\ asked' = -1
  /\ IF \/ NbLacing(oggp) + bytes \div Unit + 1 > PageLacings
        \/ /\ oggp.muxing_delay # 0
           /\ granulepos - oggp.last_granule > oggp.muxing_delay
     THEN StartFlush(oggp, "append", arguments)
     ELSE pc' = "append" /\ call' = arguments
  /\ UNCHANGED <<oggp, alloc_size, page, committed>>

\* Mutant: a packet that just reaches the delay waits for the next one.
AppendPacketLate ==
  LET n == call.bytes \div Unit + 1
      filled == [oggp EXCEPT !.buf = @ \o PacketData(committed + 1, call.bytes)]
      shifted == IF LacingFits(filled, n) THEN filled ELSE Shifted(filled)
      grown == IF LacingFits(shifted, n) THEN shifted ELSE GrownLacing(shifted, n)
  IN
  /\ pc = "append"
  /\ committed' = committed + 1
  /\ oggp' = WithLacing(grown, call.bytes, call.granule, call.eos)
  /\ IF /\ oggp.muxing_delay # 0
        /\ call.granule - oggp.last_granule > oggp.muxing_delay
     THEN StartFlush(oggp', "idle", NoCall)
     ELSE pc' = "idle" /\ call' = NoCall
  /\ UNCHANGED <<alloc_size, asked, page>>

\* The rest of it: the packet joins the buffers; a flush may follow.
AppendPacket ==
  LET n == call.bytes \div Unit + 1
      filled == [oggp EXCEPT !.buf = @ \o PacketData(committed + 1, call.bytes)]
      shifted == IF LacingFits(filled, n) THEN filled ELSE Shifted(filled)
      grown == IF LacingFits(shifted, n) THEN shifted ELSE GrownLacing(shifted, n)
  IN
  /\ pc = "append"
  /\ committed' = committed + 1
  /\ oggp' = WithLacing(grown, call.bytes, call.granule, call.eos)
  /\ IF /\ oggp.muxing_delay # 0
        /\ call.granule - oggp.last_granule >= oggp.muxing_delay
     THEN StartFlush(oggp', "idle", NoCall)
     ELSE pc' = "idle" /\ call' = NoCall
  /\ UNCHANGED <<alloc_size, asked, page>>

\* realloc fails: the bytes stay in the buffer without lacing values, and every
\* later page would hold them; the model ends here.
AppendFails ==
  LET n == call.bytes \div Unit + 1
      filled == [oggp EXCEPT !.buf = @ \o PacketData(committed + 1, call.bytes)]
  IN
  /\ pc = "append"
  /\ ~LacingFits(filled, n) /\ ~LacingFits(Shifted(filled), n)
  /\ oggp' = Shifted(filled)
  /\ pc' = "torn"
  /\ UNCHANGED <<alloc_size, call, asked, page, committed>>

FlushPage ==
  /\ pc = "idle" /\ NbLacing(oggp) > 0
  /\ StartFlush(oggp, "idle", NoCall)
  /\ UNCHANGED <<oggp, alloc_size, asked, page, committed>>

\* One page of a flush; the last one closes it.
MakePage ==
  LET o == WithPage(GrownPages(oggp), call.cont)
      done == NbLacing(o) = 0
  IN
  /\ pc = "flush"
  /\ oggp' = IF done THEN [o EXCEPT !.last_granule = o.curr_granule] ELSE o
  /\ pc' = IF done THEN call.next ELSE "flush"
  /\ call' = IF done /\ call.next = "idle" THEN NoCall ELSE [call EXCEPT !.cont = ~done]
  /\ UNCHANGED <<alloc_size, asked, page, committed>>

\* realloc fails: the assertion of oggp_flush_page does, too.
PagesFail ==
  /\ pc = "flush"
  /\ Len(oggp.pages) >= oggp.pages_size
  /\ pc' = "aborted"
  /\ UNCHANGED <<oggp, alloc_size, call, asked, page, committed>>

GetNextPage ==
  /\ pc = "idle" /\ oggp.pages # <<>>
  /\ LET p == oggp.pages[1]
         o == WithHeader(oggp, p)
     IN /\ page' = PageAt(o, p)
        /\ oggp' = [o EXCEPT !.pages = Tail(@)]
  /\ UNCHANGED <<alloc_size, pc, call, asked, committed>>

\* oggp_chain: a flush, then a new logical stream.
Chain ==
  /\ pc = "idle" /\ oggp.serialno < MaxStreams
  /\ StartFlush(oggp, "chain", NoCall)
  /\ UNCHANGED <<oggp, alloc_size, asked, page, committed>>

NewStream ==
  /\ pc = "chain"
  /\ oggp' = [oggp EXCEPT !.serialno = @ + 1, !.curr_granule = 0,
                          !.last_granule = 0, !.is_eos = FALSE, !.pageno = 0]
  /\ pc' = "idle"
  /\ call' = NoCall
  /\ UNCHANGED <<alloc_size, asked, page, committed>>

Next ==
  \/ \E delay \in Delays : SetMuxingDelay(delay)
  \/ \E bytes \in Sizes : GetPacketBuffer(bytes)
  \/ \E bytes \in Sizes : GetNoPacketBuffer(bytes)
  \/ \E bytes \in Sizes : Overruns(bytes)
  \/ \E bytes \in Sizes, d \in Steps, eos \in BOOLEAN :
       CommitPacket(bytes, oggp.curr_granule + d, eos)
  \/ AppendPacket
  \/ AppendFails
  \/ FlushPage
  \/ MakePage
  \/ PagesFail
  \/ GetNextPage
  \/ Chain
  \/ NewStream

Spec == Init /\ [][Next]_vars

-----------------------------------------------------------------------------
(* Properties *)

PageRecord == [granulepos : Int, lacing_pos : Nat, lacing_size : Nat,
               buf_pos : Nat, buf_size : Nat, cont : BOOLEAN, eos : BOOLEAN,
               bos : BOOLEAN, pageno : Nat]

\* Type invariant.
TypeOK ==
  /\ oggp \in [serialno : Nat,
               buf : Seq(Nat \X Nat), buf_size : Nat, buf_begin : Nat,
               lacing : Seq(0..Unit), lacing_size : Nat, lacing_begin : Nat,
               pages : Seq(PageRecord), pages_size : Nat,
               is_eos : BOOLEAN, curr_granule : Nat, last_granule : Nat,
               pageno : Nat, muxing_delay : Nat]
  /\ alloc_size \in Nat
  /\ pc \in {"idle", "flush", "append", "chain", "torn", "overrun", "aborted"}
  /\ call \in [bytes : Nat, granule : Nat, eos : BOOLEAN,
               next : {"idle", "append", "chain"}, cont : BOOLEAN]
  /\ asked \in Nat \cup {-1}
  /\ page \in [lacing : Seq(0..Unit), body : Seq(Nat \X Nat), granulepos : Int,
               cont : BOOLEAN, bos : BOOLEAN, eos : BOOLEAN, pageno : Nat \cup {-1},
               serialno : Nat]
  /\ committed \in Nat

\* One range follows the other.
Adjoin(p, q) ==
  /\ p.lacing_pos + p.lacing_size = q.lacing_pos
  /\ p.buf_pos + p.buf_size = q.buf_pos

\* The pages not handed out yet lie side by side in both buffers, none empty or
\* over-full, up to what no page holds; whatever has been shifted or has grown,
\* no fill is past the size it is compared with (212-256, 264-309, 313-361).
\* What is committed lies in what is allocated; what is asked for may end
\* MaxHeaderSize past it, and no further.
PagesTile ==
  LET n == Len(oggp.pages)
  IN /\ \A i \in 1..n : oggp.pages[i].lacing_size \in 1..PageLacings
     /\ \A i \in 1..(n - 1) : Adjoin(oggp.pages[i], oggp.pages[i + 1])
     /\ n > 0 => /\ oggp.pages[n].lacing_pos + oggp.pages[n].lacing_size = oggp.lacing_begin
                 /\ oggp.pages[n].buf_pos + oggp.pages[n].buf_size = oggp.buf_begin
     /\ oggp.lacing_begin <= Len(oggp.lacing) /\ Len(oggp.lacing) <= oggp.lacing_size
     /\ oggp.buf_begin <= Len(oggp.buf) /\ Len(oggp.buf) <= Allocated
     /\ Len(oggp.buf) + asked <= oggp.buf_size
     /\ oggp.buf_size <= Allocated + MaxHeaderSize
     /\ n <= oggp.pages_size

\* Where each segment of a run of lacing values ends.
Ends(lacing) ==
  LET f[i \in 0..Len(lacing)] == IF i = 0 THEN 0 ELSE f[i - 1] + lacing[i] IN f

Bytes(lacing) == Ends(lacing)[Len(lacing)]

Pending == SubSeq(oggp.lacing, oggp.lacing_begin + 1, Len(oggp.lacing))

PendingBody == SubSeq(oggp.buf, oggp.buf_begin + 1, Len(oggp.buf))

\* A page has the bytes its lacing values announce, also when a packet is split,
\* where flush takes them all to be as long as one of them (340-343).
BytesAreLaced ==
  /\ \A i \in DOMAIN oggp.pages :
       LET p == PageAt(oggp, oggp.pages[i])
       IN Len(p.body) = oggp.pages[i].buf_size /\ Len(p.body) = Bytes(p.lacing)
  /\ pc # "torn" => Len(PendingBody) = Bytes(Pending)

\* When a call returns, nothing waits that is as old as the muxing delay:
\* "Pages will be auto-flushed to enforce the delay" (206-207), by one flush
\* before the packet, one after it, or both.
DelayKept ==
  [][pc # "idle" /\ pc' = "idle" /\ oggp'.muxing_delay # 0 =>
       \/ NbLacing(oggp') = 0
       \/ oggp'.curr_granule - oggp'.last_granule < oggp'.muxing_delay]_vars

Cut(body, lacing) ==
  LET end == Ends(lacing)
  IN [i \in 1..Len(lacing) |-> SubSeq(body, end[i - 1] + 1, end[i])]

PageOf(p) ==
  [segs |-> Cut(p.body, p.lacing), granule |-> p.granulepos, cont |-> p.cont,
   bos |-> p.bos, eos |-> p.eos, pageno |-> p.pageno]

LongestStep == CHOOSE d \in Steps : \A e \in Steps : e <= d

\* What no page holds yet, and the pages made, as OggPages has them.
Waiting ==
  IF Pending = <<>>
  THEN [segs |-> <<>>, granule |-> 0, eos |-> FALSE, cont |-> FALSE]
  ELSE [segs |-> Cut(PendingBody, Pending), granule |-> oggp.curr_granule,
        eos |-> oggp.is_eos, cont |-> pc \in {"flush", "aborted"} /\ call.cont]

Made == [i \in DOMAIN oggp.pages |-> PageOf(PageAt(oggp, oggp.pages[i]))]

Given == PageOf(page)

Pages == INSTANCE OggPages WITH
  Packets  <- {PacketData(k, bytes) : k \in 1..MaxPackets, bytes \in Sizes},
  Granules <- 0..(MaxPackets * LongestStep),
  pend     <- Waiting,
  queue    <- Made,
  given    <- Given,
  pageno   <- oggp.pageno

\* The packer implements OggPages: shifting, growing, writing headers in place
\* and handing out pages in the middle of a packet's call change no byte of a
\* packet, no page boundary and no flag.
ImplementsPages == Pages!PagesSpec
=============================================================================
