----------------------------- MODULE OggPages ------------------------------
(***************************************************************************)
(* What the Ogg packer of libopusenc promises, without any buffer: packets *)
(* in, pages out.  A packet is cut in segments of Unit bytes, the last one *)
(* shorter; a page holds up to PageLacings segments, in order, and says    *)
(* whether it begins inside a packet, where the last packet that ends on   *)
(* it ends, and whether it is the first or the last of its stream.         *)
(* When to make a page is left open, but for one thing: a packet is split  *)
(* between pages only if a page is too small for it alone.                 *)
(* OggPacker implements this specification; OpusEnc is built on it.        *)
(***************************************************************************)
EXTENDS Integers, Sequences

CONSTANTS Unit,          \* bytes of a full segment (255), not 0
          PageLacings,   \* segments of a full page (255), 2 at least
          Packets,       \* the packets that may come
          Granules       \* the positions they may end at, naturals

VARIABLES pend,     \* what no page holds yet: [segs, granule, eos, cont]
          queue,    \* the pages made and not handed out yet, in order
          given,    \* the page handed out last, or NoPage
          pageno    \* the number of the next page of the stream

pageVars == <<pend, queue, given, pageno>>

NothingPending == [segs |-> <<>>, granule |-> 0, eos |-> FALSE, cont |-> FALSE]

NoPage == [segs |-> <<>>, granule |-> 0, cont |-> FALSE, bos |-> FALSE,
           eos |-> FALSE, pageno |-> -1]

\* The segments of a packet; the last one is not full, empty if need be.
Segments(data) ==
  [k \in 1..(Len(data) \div Unit + 1) |->
     SubSeq(data, (k - 1) * Unit + 1,
            IF k * Unit < Len(data) THEN k * Unit ELSE Len(data))]

EndsPacket(seg) == Len(seg) < Unit

\* The next page: a page on which no packet ends has no granule position.
NextPageOf(p, no) ==
  LET n == IF Len(p.segs) < PageLacings THEN Len(p.segs) ELSE PageLacings
      segs == SubSeq(p.segs, 1, n)
  IN [segs    |-> segs,
      granule |-> IF \E k \in 1..n : EndsPacket(segs[k]) THEN p.granule ELSE -1,
      cont    |-> p.cont,
      bos     |-> no = 0,
      eos     |-> p.eos /\ n = Len(p.segs),
      pageno  |-> no]

RestOf(p) ==
  IF Len(p.segs) <= PageLacings THEN NothingPending
  ELSE [p EXCEPT !.segs = SubSeq(@, PageLacings + 1, Len(@)),
                 !.cont = ~EndsPacket(p.segs[PageLacings])]

PagesInit ==
  /\ pend = NothingPending
  /\ queue = <<>>
  /\ given = NoPage
  /\ pageno = 0

\* A packet that ends at granule position g; eos if it is the last of the stream.
Add(data, g, eos) ==
  /\ ~pend.cont
  /\ pend.segs # <<>> => Len(pend.segs) + Len(Segments(data)) <= PageLacings
  /\ pend' = [segs |-> pend.segs \o Segments(data), granule |-> g,
              eos |-> eos, cont |-> FALSE]
  /\ UNCHANGED <<queue, given, pageno>>

Cut ==
  /\ pend.segs # <<>>
  /\ queue' = Append(queue, NextPageOf(pend, pageno))
  /\ pend' = RestOf(pend)
  /\ pageno' = pageno + 1
  /\ UNCHANGED given

Give ==
  /\ queue # <<>>
  /\ given' = Head(queue)
  /\ queue' = Tail(queue)
  /\ UNCHANGED <<pend, pageno>>

\* A new stream begins; the pages of the last one can still be handed out.
NewStream ==
  /\ pend.segs = <<>>
  /\ pageno' = 0
  /\ UNCHANGED <<pend, queue, given>>

PagesNext ==
  \/ \E data \in Packets, g \in Granules, eos \in BOOLEAN : Add(data, g, eos)
  \/ Cut
  \/ Give
  \/ NewStream

PagesSpec == PagesInit /\ [][PagesNext]_pageVars
=============================================================================
