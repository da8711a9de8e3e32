------------------------------ MODULE OpusEnc ------------------------------
(***************************************************************************)
(* The Ogg Opus encoder of libopusenc (opusenc.c), on top of OggPages:     *)
(* samples come in calls of any length, wait in one buffer, leave it a     *)
(* frame at a time as packets; packets become pages, and pages go to the   *)
(* file of the first stream of a list.  A stream ends in the middle of a   *)
(* frame; that frame opens the next stream too, behind a copy of the one   *)
(* before it (the chaining keyframe), which the decoder skips.             *)
(*                                                                         *)
(* The input is at 48 kHz (enc->re is NULL).  The time unit is 2.5 ms; a   *)
(* sample, its value and the bytes of a packet do not matter: a packet is  *)
(* its kind and a number, what it skips or how long it plays.  When a page *)
(* is full enough for the muxing delay is left open, as in OggPages.       *)
(*                                                                         *)
(* A call of the library is a sequence of steps; pc says which comes next, *)
(* "idle" between two calls.  write(), close(), malloc() and the encoder   *)
(* may fail, MaxFaults times.  Three calls that the library takes but does *)
(* not survive end the model: they are named under Misuse.                 *)
(***************************************************************************)
EXTENDS Integers, Sequences, FiniteSets

CONSTANTS LpcInput, LpcPadding,  \* LPC_INPUT, LPC_PADDING
          Lookahead,             \* what OPUS_GET_LOOKAHEAD answers
          MaxLookahead,          \* MAX_LOOKAHEAD
          BufferSamples,         \* BUFFER_SAMPLES
          PagePackets,           \* packets of a page at most
          Lengths,               \* samples of a call
          Requests,              \* frame durations asked for, 4 is 20 ms, 5 is 40 ms
          DecisionDelays,        \* decision delays asked for
          MaxSamples, MaxStreams, MaxFaults, MaxCtls

\* compute_frame_samples: 120 << n, then multiples of 960.
compute_frame_samples(request) ==
  IF request <= 5 THEN 2 ^ (request - 1) ELSE (request - 3) * 8

LongestFrame == compute_frame_samples(CHOOSE r \in Requests : \A q \in Requests : q <= r)

ASSUME NumbersAssumption ==
  /\ {LpcInput, LpcPadding, Lookahead, MaxLookahead, BufferSamples} \subseteq Nat
  /\ {MaxSamples, MaxStreams, MaxFaults, MaxCtls} \cup Lengths \subseteq Nat

\* A page has room for a packet; the format's limit is 255 lacing values.
ASSUME PageAssumption == PagePackets \in Nat \ {0}

\* What BUFFER_EXTRA leaves room for besides MAX_LOOKAHEAD.
ASSUME BufferAssumption ==
  /\ Requests \subseteq 4..9 /\ 4 \in Requests
  /\ DecisionDelays \subseteq 0..MaxLookahead
  /\ BufferSamples > LpcInput + MaxLookahead + 2 * LongestFrame + Lookahead + LpcPadding

VARIABLES enc,       \* struct OggOpusEnc
          streams,   \* its list of EncStream, from streams to last_stream
          pc,        \* the next step of the call under way
          call,      \* its arguments and local variables
          reader,    \* what a reader of the pages written or pulled knows
          closed,    \* for each file, how often it was closed
          starts,    \* for each stream, write_granule when it was made
          marked,    \* the files a failing ope_encoder_chain_current marked last
          faults,    \* faults left to come
          ctls,      \* settings left to change
          pend, queue, given, pageno   \* the packer

vars == <<enc, streams, pc, call, reader, closed, starts, marked, faults, ctls,
          pend, queue, given, pageno>>
packer == <<pend, queue, given, pageno>>
bounds == <<starts, marked, faults, ctls>>

Packer == INSTANCE OggPages WITH
  Unit <- 2, PageLacings <- PagePackets, Packets <- {}, Granules <- {}

Packet(kind, n) == <<[kind |-> kind, n |-> n]>>

Greater(a, b) == IF a >= b THEN a ELSE b
Lesser(a, b) == IF a <= b THEN a ELSE b

frame_size == compute_frame_samples(enc.request)

NoCall == [op |-> "none", left |-> 0, data |-> <<>>, granule |-> 0, eos |-> FALSE,
           flush |-> FALSE, push |-> FALSE, then |-> "idle", ret |-> "idle",
           key |-> FALSE, copied |-> FALSE, nb |-> 0]

\* An EncStream writing to a file.
Stream(user, end_granule) ==
  [user |-> user, close_at_end |-> TRUE, stream_is_init |-> FALSE,
   header_is_frozen |-> FALSE, end_granule |-> end_granule, granule_offset |-> 0]

Last(s) == s[Len(s)]

\* How long the packets of a page play.
Duration(page) ==
  LET f[k \in 0..Len(page.segs)] == IF k = 0 THEN 0 ELSE f[k - 1] + page.segs[k][1].n
  IN f[Len(page.segs)]

\* The reader counts streams and pages, learns what to skip and adds up the time.
Reads(user, page) ==
  IF page.bos
  THEN [reader EXCEPT !.heads = @ + 1, !.user = user, !.pages = 1,
                      !.skip = page.segs[1][1].n, !.time = 0]
  ELSE [reader EXCEPT !.pages = @ + 1, !.time = @ + Duration(page)]

Failed == enc.unrecoverable # "OK"

Fault(code) ==
  /\ faults > 0
  /\ faults' = faults - 1
  /\ enc' = [enc EXCEPT !.unrecoverable = code]

-----------------------------------------------------------------------------
(* Creating the encoder *)

NewEnc(pull, deferred) ==
  [unrecoverable |-> IF deferred THEN "TOO_LATE" ELSE "OK", pull_api |-> pull,
   oggp |-> FALSE, request |-> 4, decision_delay |-> MaxLookahead,
   global_granule_offset |-> -1, curr_granule |-> 0, write_granule |-> 0,
   draining |-> FALSE, buffer_start |-> 0, buffer_end |-> 0, preskip |-> 0,
   chaining_keyframe |-> 0]

Init ==
  /\ \E pull, deferred \in BOOLEAN : enc = NewEnc(pull, deferred)
  /\ streams = <<Stream(1, 0)>>
  /\ pc = "idle"
  /\ call = NoCall
  /\ reader = [heads |-> 0, user |-> 0, pages |-> 0, skip |-> 0, time |-> 0, uneven |-> FALSE]
  /\ closed = <<0>>
  /\ starts = <<0>>
  /\ marked = {}
  /\ faults = MaxFaults
  /\ ctls = MaxCtls
  /\ Packer!PagesInit

\* ope_encoder_deferred_init_with_mapping of an encoder made with family -1.
DeferredInit ==
  /\ pc = "idle" /\ enc.unrecoverable = "TOO_LATE"
  /\ enc' = [enc EXCEPT !.unrecoverable = "OK"]
  /\ UNCHANGED <<streams, pc, call, reader, closed, bounds, packer>>

-----------------------------------------------------------------------------
(* Committing a packet, making pages, writing them *)

\* oggp_commit_packet and what follows it: flush a page, push the pages out.
Commits(data, granule, eos, flush, push, then, c) ==
  /\ pc' = "commit"
  /\ call' = [c EXCEPT !.data = data, !.granule = granule, !.eos = eos,
                       !.flush = flush, !.push = push, !.then = then]

\* A flush before the packet: the page is full, or the muxing delay is over.
FlushBefore ==
  /\ pc = "commit"
  /\ Packer!Cut
  /\ UNCHANGED <<enc, streams, pc, call, reader, closed, bounds>>

Commit ==
  /\ pc = "commit"
  /\ Packer!Add(call.data, call.granule, call.eos)
  /\ pc' = "page"
  /\ UNCHANGED <<enc, streams, call, reader, closed, bounds>>

AfterPage == IF call.push /\ ~enc.pull_api THEN "output" ELSE call.then

\* oe_flush_page, or the packer's own flush for the muxing delay.
Page ==
  /\ pc = "page"
  /\ Packer!Cut
  /\ pc' = AfterPage
  /\ UNCHANGED <<enc, streams, call, reader, closed, bounds>>

NoPage ==
  /\ pc = "page" /\ ~call.flush
  /\ pc' = AfterPage
  /\ UNCHANGED <<enc, streams, call, reader, closed, bounds, packer>>

\* output_pages, a page at a time, to the file of the first stream.
WritePage ==
  /\ pc = "output"
  /\ Packer!Give
  /\ reader' = Reads(streams[1].user, given')
  /\ UNCHANGED <<enc, streams, pc, call, closed, bounds>>

PagesWritten ==
  /\ pc = "output" /\ queue = <<>>
  /\ pc' = call.then
  /\ UNCHANGED <<enc, streams, call, reader, closed, bounds, packer>>

\* write() fails: the page is lost.  A header is given up, but its caller goes
\* on; an audio packet ends the call.
WriteFails ==
  /\ pc = "output"
  /\ Packer!Give
  /\ Fault("WRITE_FAIL")
  /\ pc' = IF call.then \in {"tags", "inited"} THEN call.ret ELSE "encoded"
  /\ UNCHANGED <<streams, call, reader, closed, starts, marked, ctls>>

-----------------------------------------------------------------------------
(* init_stream: the two headers of the first stream of the list *)

StartInit(ret, c) == pc' = "init" /\ call' = [c EXCEPT !.ret = ret]

NoPacker ==
  /\ pc = "init"
  /\ ~enc.oggp
  /\ Fault("ALLOC_FAIL")
  /\ pc' = call.ret
  /\ UNCHANGED <<streams, call, reader, closed, starts, marked, ctls, packer>>

\* oggp_create or oggp_chain, the preskip of a first stream, the first header.
InitStream ==
  LET first == enc.global_granule_offset = -1
      preskip == IF first THEN Lookahead ELSE enc.preskip
  IN
  /\ pc = "init"
  /\ Packer!NewStream
  /\ enc' = [enc EXCEPT !.oggp = TRUE, !.preskip = preskip,
                        !.global_granule_offset = IF first THEN preskip ELSE @]
  /\ Commits(Packet("head", preskip), 0, FALSE, TRUE, TRUE, "tags", call)
  /\ UNCHANGED <<streams, reader, closed, bounds>>

Tags ==
  /\ pc = "tags"
  /\ Commits(Packet("tags", 0), 0, FALSE, TRUE, TRUE, "inited", call)
  /\ UNCHANGED <<enc, streams, reader, closed, bounds, packer>>

StreamInited ==
  /\ pc = "inited"
  /\ streams' = [streams EXCEPT ![1].stream_is_init = TRUE]
  /\ pc' = call.ret
  /\ UNCHANGED <<enc, call, reader, closed, bounds, packer>>

-----------------------------------------------------------------------------
(* encode_buffer *)

\* Rounded up to 48 kHz, at the end of the lookahead.
end_granule48k == streams[1].end_granule + enc.global_granule_offset

Enough(e) == e.buffer_end - e.buffer_start > compute_frame_samples(e.request) + e.decision_delay

\* Mutant: the end of the samples stays where it was.
ShiftStartOnly(e) ==
  IF e.buffer_start > LpcInput
  THEN [e EXCEPT !.buffer_start = LpcInput]
  ELSE e

\* Leave LPC_INPUT samples before the first one not encoded.
shift_buffer(e) ==
  IF e.buffer_start > LpcInput
  THEN [e EXCEPT !.buffer_end = @ - (e.buffer_start - LpcInput), !.buffer_start = LpcInput]
  ELSE e

\* Mutant: a full buffer is not shifted.
LoopEndsFull ==
  /\ pc = "loop" /\ ~Enough(enc)
  /\ enc' = enc
  /\ pc' = IF enc'.buffer_end < BufferSamples THEN "encoded" ELSE "abort"
  /\ UNCHANGED <<streams, call, reader, closed, bounds, packer>>

\* Mutant: a full buffer is neither shifted nor noticed.
LoopEndsUnasserted ==
  /\ pc = "loop" /\ ~Enough(enc)
  /\ pc' = "encoded"
  /\ UNCHANGED <<enc, streams, call, reader, closed, bounds, packer>>

LoopEnds ==
  /\ pc = "loop" /\ ~Enough(enc)
  /\ enc' = IF enc.buffer_end = BufferSamples THEN shift_buffer(enc) ELSE enc
  /\ pc' = IF enc'.buffer_end < BufferSamples THEN "encoded" ELSE "abort"
  /\ UNCHANGED <<streams, call, reader, closed, bounds, packer>>

LoopStops ==
  /\ pc = "loop" /\ Enough(enc) /\ Failed
  /\ pc' = "encoded"
  /\ UNCHANGED <<enc, streams, call, reader, closed, bounds, packer>>

\* The last frame of a drain is cut to the shortest request that still ends the
\* stream, 20 ms at least.
LastRequest ==
  LET min_samples == end_granule48k - enc.curr_granule
      Fits(r) == compute_frame_samples(r) >= min_samples
  IN CHOOSE r \in 4..9 : Fits(r) /\ \A q \in 4..(r - 1) : ~Fits(q)

EncodeFrame ==
  LET request == IF /\ enc.curr_granule + frame_size >= end_granule48k
                    /\ enc.draining /\ enc.request > 4
                 THEN LastRequest ELSE enc.request
      nb == compute_frame_samples(request)
  IN
  /\ pc = "loop" /\ Enough(enc) /\ ~Failed
  /\ enc' = [enc EXCEPT !.request = request, !.curr_granule = @ + nb]
  /\ call' = [call EXCEPT !.nb = nb, !.copied = FALSE,
                !.key = /\ enc.curr_granule + 2 * frame_size >= end_granule48k
                        /\ Len(streams) > 1]
  /\ pc' = IF request <= enc.request THEN "packet" ELSE "abort"
  /\ UNCHANGED <<streams, reader, closed, bounds, packer>>

EncodeFails ==
  /\ pc = "loop" /\ Enough(enc) /\ ~Failed
  /\ Fault("INTERNAL_ERROR")
  /\ pc' = "encoded"
  /\ UNCHANGED <<streams, call, reader, closed, starts, marked, ctls, packer>>

\* The packet of the frame, for the stream that is the first one now.
CommitPacket ==
  LET e_o_s == enc.curr_granule >= end_granule48k
      granule == IF e_o_s THEN end_granule48k ELSE enc.curr_granule
  IN
  /\ pc = "packet"
  /\ Commits(Packet("audio", call.nb), granule - streams[1].granule_offset,
             e_o_s, e_o_s, TRUE, "sent", [call EXCEPT !.copied = e_o_s \/ call.key \/ @])
  /\ UNCHANGED <<enc, streams, reader, closed, bounds, packer>>

CopyFails ==
  /\ pc = "packet" /\ ~call.copied
  /\ call.key \/ enc.curr_granule >= end_granule48k
  /\ Fault("ALLOC_FAIL")
  /\ pc' = "encoded"
  /\ UNCHANGED <<streams, call, reader, closed, starts, marked, ctls, packer>>

FrameDone ==
  /\ pc = "sent" /\ ~call.eos
  /\ enc' = [enc EXCEPT !.chaining_keyframe = IF call.key THEN call.nb ELSE 0,
                        !.buffer_start = @ + frame_size]
  /\ call' = [call EXCEPT !.nb = 0]
  /\ pc' = "loop"
  /\ UNCHANGED <<streams, reader, closed, bounds, packer>>

MustClose(s) == s.close_at_end /\ ~enc.pull_api

Closed == IF MustClose(streams[1]) THEN [closed EXCEPT ![streams[1].user] = @ + 1] ELSE closed

CloseFails ==
  /\ pc = "sent" /\ call.eos /\ MustClose(streams[1])
  /\ Fault("CLOSE_FAIL")
  /\ closed' = Closed
  /\ pc' = "encoded"
  /\ UNCHANGED <<streams, call, reader, starts, marked, ctls, packer>>

LastStreamEnds ==
  /\ pc = "sent" /\ call.eos /\ Len(streams) = 1
  /\ closed' = Closed
  /\ streams' = <<>>
  /\ pc' = "encoded"
  /\ UNCHANGED <<enc, call, reader, bounds, packer>>

\* Mutant: the preskip is taken the wrong way round.
NextStreamSwapped ==
  LET again == IF enc.chaining_keyframe # 0 THEN frame_size ELSE 0
  IN
  /\ pc = "sent" /\ call.eos /\ Len(streams) > 1
  /\ closed' = Closed
  /\ enc' = [enc EXCEPT !.preskip = enc.curr_granule - end_granule48k - frame_size + again]
  /\ streams' = [Tail(streams) EXCEPT ![1].granule_offset =
                   enc.curr_granule - frame_size - again]
  /\ reader' = [reader EXCEPT !.uneven = @ \/ enc.chaining_keyframe \notin {0, frame_size}]
  /\ StartInit("chained", call)
  /\ UNCHANGED <<bounds, packer>>

\* Mutant: the keyframe is not skipped.
NextStreamWithoutKeyframe ==
  LET again == IF enc.chaining_keyframe # 0 THEN frame_size ELSE 0
  IN
  /\ pc = "sent" /\ call.eos /\ Len(streams) > 1
  /\ closed' = Closed
  /\ enc' = [enc EXCEPT !.preskip = end_granule48k + frame_size - enc.curr_granule]
  /\ streams' = [Tail(streams) EXCEPT ![1].granule_offset =
                   enc.curr_granule - frame_size - again]
  /\ reader' = [reader EXCEPT !.uneven = @ \/ enc.chaining_keyframe \notin {0, frame_size}]
  /\ StartInit("chained", call)
  /\ UNCHANGED <<bounds, packer>>

\* The next stream skips what the frame, and the keyframe if there is one, hold
\* of this one.
NextStreamBegins ==
  LET again == IF enc.chaining_keyframe # 0 THEN frame_size ELSE 0
  IN
  /\ pc = "sent" /\ call.eos /\ Len(streams) > 1
  /\ closed' = Closed
  /\ enc' = [enc EXCEPT !.preskip = end_granule48k + frame_size - enc.curr_granule + again]
  /\ streams' = [Tail(streams) EXCEPT ![1].granule_offset =
                   enc.curr_granule - frame_size - again]
  /\ reader' = [reader EXCEPT !.uneven = @ \/ enc.chaining_keyframe \notin {0, frame_size}]
  /\ StartInit("chained", call)
  /\ UNCHANGED <<bounds, packer>>

\* Mutant: the keyframe ends where the frame does.
ChainedLate ==
  /\ pc = "chained"
  /\ IF enc.chaining_keyframe # 0
     THEN Commits(Packet("audio", enc.chaining_keyframe),
                  enc.curr_granule - streams[1].granule_offset,
                  FALSE, FALSE, FALSE, "packet", call)
     ELSE pc' = "packet" /\ UNCHANGED call
  /\ UNCHANGED <<enc, streams, reader, closed, bounds, packer>>

Chained ==
  /\ pc = "chained"
  /\ IF enc.chaining_keyframe # 0
     THEN Commits(Packet("audio", enc.chaining_keyframe),
                  enc.curr_granule - streams[1].granule_offset - frame_size,
                  FALSE, FALSE, FALSE, "packet", call)
     ELSE pc' = "packet" /\ UNCHANGED call
  /\ UNCHANGED <<enc, streams, reader, closed, bounds, packer>>

-----------------------------------------------------------------------------
(* The calls *)

\* ope_encoder_write and ope_encoder_write_float.
Write(samples) ==
  /\ pc = "idle" /\ ~Failed /\ streams # <<>>
  /\ enc.write_granule + samples <= MaxSamples
  /\ streams' = [streams EXCEPT ![Len(streams)].header_is_frozen = TRUE]
  /\ LET c == [NoCall EXCEPT !.op = "write", !.left = samples]
     IN IF streams[1].stream_is_init
        THEN pc' = "begin" /\ call' = c
        ELSE StartInit("begin", c)
  /\ UNCHANGED <<enc, reader, closed, bounds, packer>>

\* The samples count from here on, headers written or not.
Begin ==
  /\ pc = "begin"
  /\ enc' = [enc EXCEPT !.write_granule = @ + call.left]
  /\ streams' = [streams EXCEPT ![Len(streams)].end_granule = enc'.write_granule]
  /\ call' = [call EXCEPT !.ret = "idle"]
  /\ pc' = "fill"
  /\ UNCHANGED <<reader, closed, bounds, packer>>

Fill ==
  LET curr == Lesser(call.left, BufferSamples - enc.buffer_end)
  IN
  /\ pc = "fill"
  /\ enc' = [enc EXCEPT !.buffer_end = @ + curr]
  /\ call' = [call EXCEPT !.left = @ - curr]
  /\ pc' = "loop"
  /\ UNCHANGED <<streams, reader, closed, bounds, packer>>

Drain(op) ==
  /\ pc = "idle" /\ ~Failed /\ streams # <<>>
  /\ LET c == [NoCall EXCEPT !.op = op]
     IN IF streams[1].stream_is_init
        THEN pc' = "pad" /\ call' = c
        ELSE StartInit("pad", c)
  /\ UNCHANGED <<enc, streams, reader, closed, bounds, packer>>

\* Padding for the lookahead and for the last frame; it must fit.
Pad ==
  LET pad_samples == Greater(LpcPadding, enc.global_granule_offset + frame_size + 1)
      shifted == shift_buffer(enc)
  IN
  /\ pc = "pad"
  /\ enc' = [shifted EXCEPT !.buffer_end = @ + pad_samples,
                            !.decision_delay = 0, !.draining = TRUE]
  /\ pc' = IF enc'.buffer_end <= BufferSamples THEN "loop" ELSE "abort"
  /\ UNCHANGED <<streams, call, reader, closed, bounds, packer>>

\* encode_buffer has returned: write goes on, drain asserts that every stream ended.
WriteGoesOn ==
  /\ pc = "encoded" /\ call.op = "write" /\ call.left > 0 /\ ~Failed
  /\ pc' = "fill"
  /\ UNCHANGED <<enc, streams, call, reader, closed, bounds, packer>>

Return ==
  /\ pc = "encoded"
  /\ Failed \/ call.left = 0
  /\ pc' = CASE call.op = "finish" -> "destroy"
             [] call.op = "drain" /\ ~Failed /\ streams # <<>> -> "abort"
             [] OTHER -> "idle"
  /\ call' = NoCall
  /\ UNCHANGED <<enc, streams, reader, closed, bounds, packer>>

\* opusFinish: drain, then destroy whatever drain returned.
FinishTooLate ==
  /\ pc = "idle" /\ (Failed \/ streams = <<>>)
  /\ pc' = "destroy"
  /\ UNCHANGED <<enc, streams, call, reader, closed, bounds, packer>>

\* ope_encoder_destroy closes what is left; errors are ignored.
Destroy ==
  /\ pc = "destroy"
  /\ closed' = [u \in DOMAIN closed |->
       closed[u] + Cardinality({i \in DOMAIN streams :
                                  streams[i].user = u /\ MustClose(streams[i])})]
  /\ pc' = "gone"
  /\ UNCHANGED <<enc, streams, call, reader, bounds, packer>>

\* ope_encoder_continue_new_callbacks, for a new file.  When stream_create fails
\* it changes nothing.
ContinueNew ==
  /\ pc = "idle" /\ ~Failed /\ streams # <<>> /\ Len(starts) < MaxStreams
  /\ closed' = Append(closed, 0)
  /\ streams' = Append(streams, Stream(Len(closed'), enc.write_granule))
  /\ starts' = Append(starts, enc.write_granule)
  /\ UNCHANGED <<enc, pc, call, reader, marked, faults, ctls, packer>>

\* Mutant: the stream still closes the file.
ChainCurrentClosing ==
  /\ pc = "idle" /\ ~Failed /\ streams # <<>> /\ Len(starts) < MaxStreams
  /\ streams' = Append(streams, Stream(Last(streams).user, enc.write_granule))
  /\ starts' = Append(starts, enc.write_granule)
  /\ marked' = marked \ {Last(streams).user}
  /\ UNCHANGED <<enc, pc, call, reader, closed, faults, ctls, packer>>

\* The last stream of the list leaves its file open.
KeptOpen == [streams EXCEPT ![Len(streams)].close_at_end = FALSE]

\* ope_encoder_chain_current: the file stays open for the next stream.
ChainCurrent ==
  /\ pc = "idle" /\ ~Failed /\ streams # <<>> /\ Len(starts) < MaxStreams
  /\ streams' = Append(KeptOpen, Stream(Last(streams).user, enc.write_granule))
  /\ starts' = Append(starts, enc.write_granule)
  /\ marked' = marked \ {Last(streams).user}
  /\ UNCHANGED <<enc, pc, call, reader, closed, faults, ctls, packer>>

\* The file stays open also if there will be no next stream: the encoder has
\* failed or waits for its deferred initialisation, or stream_create fails, which
\* is no failure of the encoder.
ChainFails ==
  /\ pc = "idle" /\ streams # <<>>
  /\ \/ Failed /\ UNCHANGED faults
     \/ ~Failed /\ faults > 0 /\ faults' = faults - 1
  /\ streams' = KeptOpen
  /\ marked' = marked \cup {Last(streams).user}
  /\ UNCHANGED <<enc, pc, call, reader, closed, starts, ctls, packer>>

\* ope_encoder_flush_header tests the last stream, init_stream works on the first.
CanFlushHeader ==
  /\ pc = "idle" /\ ~Failed /\ streams # <<>>
  /\ ~Last(streams).header_is_frozen /\ ~Last(streams).stream_is_init

FlushHeader ==
  /\ CanFlushHeader /\ ~streams[1].stream_is_init
  /\ StartInit("idle", NoCall)
  /\ UNCHANGED <<enc, streams, reader, closed, bounds, packer>>

\* ope_encoder_get_page: what the packer holds becomes a page if flush, the
\* caller gets the first page.
GetPage(flush) ==
  /\ pc = "idle" /\ ~Failed /\ enc.pull_api /\ enc.oggp
  /\ IF flush
     THEN pc' = "pull" /\ Packer!Cut /\ UNCHANGED reader
     ELSE pc' = pc /\ Packer!Give /\ reader' = Reads(1, given')
  /\ UNCHANGED <<enc, streams, call, closed, bounds>>

PullPage ==
  /\ pc = "pull"
  /\ Packer!Give /\ reader' = Reads(1, given')
  /\ pc' = "idle"
  /\ UNCHANGED <<enc, streams, call, closed, bounds>>

\* The first stream has been begun: init_stream asserts that it has not.
FlushHeaderTwice ==
  /\ CanFlushHeader /\ streams[1].stream_is_init
  /\ pc' = "twice"
  /\ UNCHANGED <<enc, streams, call, reader, closed, bounds, packer>>

\* ope_encoder_get_page before the first header hands the packer a NULL pointer.
GetPageTooSoon ==
  /\ pc = "idle" /\ ~Failed /\ enc.pull_api /\ ~enc.oggp
  /\ pc' = "nopacker"
  /\ UNCHANGED <<enc, streams, call, reader, closed, bounds, packer>>

\* After a drain there is no stream: ope_encoder_continue_new_callbacks asserts
\* that there is one, write, chain_current and flush_header follow the pointer.
CallAfterDrain ==
  /\ pc = "idle" /\ ~Failed /\ streams = <<>>
  /\ pc' = "nostream"
  /\ UNCHANGED <<enc, streams, call, reader, closed, bounds, packer>>

\* ope_encoder_ctl: OPUS_SET_EXPERT_FRAME_DURATION, OPE_SET_DECISION_DELAY.
Ctl(e) ==
  /\ pc = "idle" /\ ~Failed /\ ctls > 0
  /\ e # enc
  /\ enc' = e
  /\ ctls' = ctls - 1
  /\ UNCHANGED <<streams, pc, call, reader, closed, starts, marked, faults, packer>>

SetFrameDuration(request) == Ctl([enc EXCEPT !.request = request])
SetDecisionDelay(value) == Ctl([enc EXCEPT !.decision_delay = Lesser(value, MaxLookahead)])

Encodes ==
  \/ LoopEnds \/ LoopStops \/ EncodeFrame \/ EncodeFails \/ CommitPacket \/ CopyFails
  \/ FrameDone \/ CloseFails \/ LastStreamEnds \/ NextStreamBegins \/ Chained

InitsStream ==
  \/ NoPacker \/ InitStream \/ Tags \/ StreamInited

Outputs ==
  \/ FlushBefore \/ Commit \/ Page \/ NoPage \/ WritePage \/ PagesWritten \/ WriteFails

Goes ==
  \/ Encodes \/ InitsStream \/ Outputs
  \/ Begin \/ Fill \/ Pad \/ WriteGoesOn \/ Return \/ Destroy \/ PullPage

Calls ==
  \/ DeferredInit
  \/ \E samples \in Lengths : Write(samples)
  \/ \E op \in {"drain", "finish"} : Drain(op)
  \/ FinishTooLate
  \/ ContinueNew \/ ChainCurrent \/ ChainFails \/ FlushHeader
  \/ \E flush \in BOOLEAN : GetPage(flush)
  \/ \E request \in Requests : SetFrameDuration(request)
  \/ \E value \in DecisionDelays : SetDecisionDelay(value)

Misuse == FlushHeaderTwice \/ GetPageTooSoon \/ CallAfterDrain

Next == Calls \/ Goes \/ Misuse

Spec == Init /\ [][Next]_vars

\* A call runs on one thread, which does not stop inside it.
FairSpec == Spec /\ WF_vars(Goes)

-----------------------------------------------------------------------------
(* Properties *)

\* Where the calls under Misuse end.
Misused == {"twice", "nopacker", "nostream"}

\* Type invariant.
TypeOK ==
  /\ enc \in [unrecoverable : {"OK", "TOO_LATE", "WRITE_FAIL", "CLOSE_FAIL", "ALLOC_FAIL",
                               "INTERNAL_ERROR"},
              pull_api : BOOLEAN, oggp : BOOLEAN, request : 4..9,
              decision_delay : 0..MaxLookahead, global_granule_offset : Nat \cup {-1},
              curr_granule : Nat, write_granule : Nat, draining : BOOLEAN,
              buffer_start : 0..BufferSamples, buffer_end : 0..BufferSamples,
              preskip : Nat, chaining_keyframe : Nat]
  /\ streams \in Seq([user : 1..Len(closed), close_at_end : BOOLEAN,
                     stream_is_init : BOOLEAN, header_is_frozen : BOOLEAN,
                     end_granule : Nat, granule_offset : Int])
  /\ pc \in {"idle", "begin", "fill", "loop", "packet", "commit", "page", "output", "sent",
             "init", "tags", "inited", "chained", "pad", "encoded", "destroy", "gone",
             "pull", "abort"} \cup Misused
  /\ call.left \in Nat /\ call.granule \in Nat /\ call.nb \in Nat
  /\ closed \in Seq(Nat) /\ starts \in Seq(Nat)
  /\ marked \subseteq DOMAIN closed /\ faults \in Nat /\ ctls \in Nat

\* Five assertions on the way of the samples hold, whatever is written, set and
\* chained between: the buffer is never left full (714), the padding fits (829,
\* 849), a shorter last frame is allowed (615), and a drain that succeeds has ended
\* every stream (853).  Whoever begins a stream, a write, a drain or the end of the
\* stream before it, finds it not begun (519); ope_encoder_flush_header may not, but
\* only with a stream chained behind.  And a stream to work on is missing (904)
\* only once the encoder has been drained.
NeverAborts ==
  /\ pc # "abort"
  /\ pc = "init" => ~streams[1].stream_is_init
  /\ pc = "twice" => Len(streams) > 1
  /\ pc = "nostream" => enc.draining

\* What has been written and is not encoded is in the buffer, and nothing else:
\* the buffer is filled, emptied and shifted (587-715, 735-755, 572-580) while
\* three counters of samples advance on their own.
BufferIsUnencoded ==
  ~Failed /\ ~enc.draining =>
    enc.curr_granule - call.nb + (enc.buffer_end - enc.buffer_start) =
      enc.write_granule - (IF pc = "begin" \/ call.ret = "begin" THEN 0 ELSE call.left)

\* A stream is a header page, a page of tags, then pages of audio, numbered from 0,
\* in one file; a page ends where its packets end, but the last page of the stream,
\* which ends inside its last packet (518-570, 587-715).  Left out: what follows a
\* keyframe that is not as long as the frame after it.
StreamIsWellFormed ==
  [][reader'.pages # reader.pages /\ ~Failed' =>
       LET k == reader'.pages
           kinds == {given'.segs[i][1].kind : i \in DOMAIN given'.segs}
       IN /\ given'.pageno = k - 1 /\ given'.bos = (k = 1) /\ ~given'.cont
          /\ k > 1 => reader'.user = reader.user /\ ~given.eos
          /\ kinds = {CASE k = 1 -> "head" [] k = 2 -> "tags" [] OTHER -> "audio"}
          /\ ~reader.uneven =>
               IF given'.eos
               THEN /\ given'.granule <= reader'.time
                    /\ given'.granule > reader'.time - Last(given'.segs)[1].n
               ELSE given'.granule = reader'.time]_vars

\* A stream plays the samples written while it was the last of the list, no more
\* and no less: the end its last page gives, less what its header says to skip,
\* is their number, also when it begins and ends inside frames it shares with
\* its neighbours (587-715).
StreamPlaysItsSamples ==
  ~Failed /\ given.eos =>
    LET i == reader.heads
        end == IF i < Len(starts) THEN starts[i + 1] ELSE enc.write_granule
    IN given.granule - reader.skip = end - starts[i]

\* A file is closed once: at most once unless close() failed, and when the encoder
\* is gone the files left open are those whose last chain_current failed: it marks
\* the file before it can fail (878), and unless a later one succeeds no stream
\* closes it, drained or not (660-667, 858-863).
FilesCloseOnce ==
  ~enc.pull_api =>
    /\ enc.unrecoverable # "CLOSE_FAIL" => \A u \in DOMAIN closed : closed[u] <= 1
    /\ pc = "gone" => \A u \in DOMAIN closed :
         /\ closed[u] = 0 => u \in marked
         /\ u \in marked => closed[u] = 0 \/ enc.unrecoverable = "CLOSE_FAIL"

\* Every call returns: filling and emptying the buffer, and the loop of streams
\* that end at one packet, come to an end.
CallsReturn == (pc # "idle") ~> (pc \in {"idle", "gone"} \cup Misused)
=============================================================================
