--------------------------- MODULE OpusEncProofs ---------------------------
(***************************************************************************)
(* For any lengths, settings, chaining and failures, and any buffer that   *)
(* satisfies BufferAssumption: no assertion of opusenc.c fails, and the    *)
(* buffer holds what has been written and is not encoded.                  *)
(***************************************************************************)
EXTENDS OpusEnc, SequenceTheorems, FiniteSetTheorems, TLAPS

-----------------------------------------------------------------------------
(* Frames and the buffer *)

LEMMA FrameSamples ==
  ASSUME NEW r \in 4..9
  PROVE  compute_frame_samples(r) = (r - 3) * 8
<1>1. 2 ^ 3 = 8 /\ 2 ^ 4 = 16
  OBVIOUS
<1>2. CASE r = 4
  BY <1>1, <1>2 DEF compute_frame_samples
<1>3. CASE r = 5
  BY <1>1, <1>3 DEF compute_frame_samples
<1>4. CASE r \in 6..9
  BY <1>4 DEF compute_frame_samples
<1> QED
  BY <1>2, <1>3, <1>4

LEMMA LongestIsLongest ==
  /\ LongestFrame \in 8..48
  /\ \A r \in Requests : compute_frame_samples(r) <= LongestFrame
<1> DEFINE Top(r) == \A q \in Requests : q <= r
<1>1. \E r \in Requests : Top(r)
  <2>1. CASE 9 \in Requests
    BY <2>1, BufferAssumption
  <2>2. CASE 9 \notin Requests /\ 8 \in Requests
    BY <2>2, BufferAssumption
  <2>3. CASE 9 \notin Requests /\ 8 \notin Requests /\ 7 \in Requests
    BY <2>3, BufferAssumption
  <2>4. CASE 9 \notin Requests /\ 8 \notin Requests /\ 7 \notin Requests /\ 6 \in Requests
    BY <2>4, BufferAssumption
  <2>5. CASE Requests \cap 6..9 = {} /\ 5 \in Requests
    BY <2>5, BufferAssumption
  <2>6. CASE Requests \cap 5..9 = {}
    BY <2>6, BufferAssumption
  <2> QED
    BY <2>1, <2>2, <2>3, <2>4, <2>5, <2>6
<1> DEFINE top == CHOOSE r \in Requests : Top(r)
<1>2. top \in Requests /\ Top(top)
  BY <1>1
<1>3. LongestFrame = compute_frame_samples(top)
  BY DEF LongestFrame
<1> HIDE DEF top
<1>4. LongestFrame = (top - 3) * 8 /\ top \in 4..9
  BY <1>2, <1>3, FrameSamples, BufferAssumption
<1>5. ASSUME NEW r \in Requests PROVE compute_frame_samples(r) <= LongestFrame
  <2>1. r \in 4..9 /\ r <= top
    BY <1>2, BufferAssumption
  <2> QED
    BY <1>4, <2>1, FrameSamples
<1> QED
  BY <1>4, <1>5

\* The numbers of the buffer, as the proofs use them.
LEMMA Room ==
  /\ LpcInput \in Nat /\ LpcPadding \in Nat /\ Lookahead \in Nat /\ MaxLookahead \in Nat
  /\ BufferSamples \in Nat /\ LongestFrame \in Nat
  /\ BufferSamples > LpcInput + MaxLookahead + 2 * LongestFrame + Lookahead + LpcPadding
BY NumbersAssumption, BufferAssumption, LongestIsLongest

-----------------------------------------------------------------------------
(* The invariant *)

Codes == {"OK", "TOO_LATE", "WRITE_FAIL", "CLOSE_FAIL", "ALLOC_FAIL", "INTERNAL_ERROR"}

Encoders ==
  [unrecoverable : Codes, pull_api : BOOLEAN, oggp : BOOLEAN, request : 4..9,
   decision_delay : 0..MaxLookahead, global_granule_offset : {-1, Lookahead},
   curr_granule : Nat, write_granule : Nat, draining : BOOLEAN,
   buffer_start : 0..BufferSamples, buffer_end : 0..BufferSamples,
   preskip : Nat, chaining_keyframe : Nat]

EncStreams ==
  [user : Nat \ {0}, close_at_end : BOOLEAN, stream_is_init : BOOLEAN,
   header_is_frozen : BOOLEAN, end_granule : Nat, granule_offset : Int]

Data == Seq([kind : {"head", "tags", "audio"}, n : Nat])

CallStates ==
  [op : {"none", "write", "drain", "finish"}, left : Nat, data : Data, granule : Nat,
   eos : BOOLEAN, flush : BOOLEAN, push : BOOLEAN,
   then : {"idle", "tags", "inited", "sent", "packet"},
   ret : {"idle", "begin", "pad", "chained"},
   key : BOOLEAN, copied : BOOLEAN, nb : Nat]

Steps == {"idle", "begin", "fill", "loop", "packet", "commit", "page", "output", "sent",
          "init", "tags", "inited", "chained", "pad", "encoded", "destroy", "gone", "pull",
          "twice", "nopacker", "nostream"}

TypeInv ==
  /\ enc \in Encoders
  /\ streams \in Seq(EncStreams)
  /\ pc \in Steps
  /\ call \in CallStates
  /\ closed \in Seq(Nat) /\ starts \in Seq(Nat)
  /\ marked \subseteq 1..Len(closed) /\ faults \in Nat /\ ctls \in Nat
  /\ \A i \in DOMAIN streams : streams[i].user \in 1..Len(closed)

\* No call has failed (deferred initialisation is not a failure).
Sound == enc.unrecoverable \in {"OK", "TOO_LATE"}

Drains == {"drain", "finish"}

\* The headers of a stream are being made.
Heading ==
  \/ pc \in {"init", "tags", "inited"}
  \/ pc \in {"commit", "page", "output"} /\ call.then \in {"tags", "inited"}

\* A packet of audio is on its way.
Sending == pc \in {"commit", "page", "output"} /\ call.then \in {"sent", "packet"}

\* A frame is encoded and not yet dropped from the buffer; a stream may begin in it.
InFrame ==
  \/ pc \in {"packet", "chained", "sent"}
  \/ Sending
  \/ Heading /\ call.ret = "chained"

\* Samples that curr_granule counts and the buffer still holds.
Ahead == IF InFrame THEN frame_size ELSE 0

\* Where a call may be.
ControlInv ==
  /\ enc.unrecoverable = "TOO_LATE" => pc \in {"idle", "destroy", "gone"}
  /\ pc \in {"commit", "page", "output"} => call.then # "idle"
  /\ pc \in {"idle", "pull", "destroy", "gone"} => call.op = "none"
  /\ pc \in {"begin", "fill"} => call.op = "write"
  /\ pc = "pad" => call.op \in Drains
  /\ pc \in {"loop", "encoded"} \/ InFrame => call.op # "none"
  /\ Heading => \/ call.ret = "idle" /\ call.op = "none"
                \/ call.ret = "begin" /\ call.op = "write"
                \/ call.ret = "pad" /\ call.op \in Drains
                \/ call.ret = "chained"
  /\ call.ret = "begin" => pc = "begin" \/ Heading
  /\ call.op # "write" => call.left = 0

\* The streams: made when needed, the first one at work.
StreamInv ==
  /\ pc \in {"begin", "fill", "loop", "pad"} \/ Heading \/ InFrame => streams # <<>>
  /\ pc = "init" => ~streams[1].stream_is_init
  /\ \A i \in DOMAIN streams : i > 1 => ~streams[i].stream_is_init
  /\ streams # <<>> => Last(streams).end_granule = enc.write_granule
  /\ \A i, j \in DOMAIN streams : i < j => streams[i].end_granule <= streams[j].end_granule
  /\ \A i \in DOMAIN streams : streams[i].granule_offset <= enc.curr_granule - Ahead
  /\ streams # <<>> => (streams[1].stream_is_init => enc.global_granule_offset = Lookahead)
  /\ (Heading /\ pc # "init") \/ InFrame => enc.global_granule_offset = Lookahead
  /\ ~Failed /\ call.op # "none" /\ ~Heading => enc.global_granule_offset = Lookahead

\* The frame under way is in the buffer and begins before its stream ends.
FrameInv ==
  /\ frame_size <= LongestFrame
  /\ enc.buffer_start <= enc.buffer_end
  /\ InFrame => /\ call.nb = frame_size
                /\ enc.buffer_end - enc.buffer_start > frame_size
                /\ frame_size <= enc.curr_granule
                /\ enc.curr_granule - frame_size <= streams[1].end_granule + Lookahead
  /\ ~InFrame /\ Sound /\ streams # <<>> =>
        call.nb = 0 /\ enc.curr_granule <= streams[1].end_granule + Lookahead
  /\ pc = "sent" \/ (Sending /\ call.then = "sent") =>
        (call.eos <=> enc.curr_granule >= streams[1].end_granule + Lookahead)

\* BufferIsUnencoded; while draining, what is in the buffer ends every stream; and
\* the buffer has room for the padding whenever a drain may come.
SamplesInv ==
  /\ Sound /\ ~enc.draining =>
       /\ streams # <<>>
       /\ enc.curr_granule - call.nb + (enc.buffer_end - enc.buffer_start) =
            enc.write_granule - (IF pc = "begin" \/ call.ret = "begin" THEN 0 ELSE call.left)
  /\ Sound /\ enc.draining /\ streams # <<>> =>
       /\ pc = "loop" \/ InFrame
       /\ enc.curr_granule - call.nb + (enc.buffer_end - enc.buffer_start) >
            enc.write_granule + Lookahead + frame_size
  /\ call.op \in Drains /\ (pc \in {"loop", "encoded"} \/ InFrame) =>
       enc.draining /\ enc.decision_delay = 0
  /\ call.op = "write" /\ Sound => ~enc.draining
  /\ \/ pc = "pad"
     \/ Heading /\ call.ret = "pad"
     \/ Sound /\ streams # <<>> /\
          (pc \in {"idle", "pull", "encoded"} \/ (Heading /\ call.ret = "idle"))
     => enc.buffer_end - enc.buffer_start <= LongestFrame + MaxLookahead

IInv == TypeInv /\ ControlInv /\ StreamInv /\ FrameInv /\ SamplesInv

\* What the fields of the variables are.
LEMMA Fields ==
  ASSUME TypeInv
  PROVE  /\ enc.request \in 4..9 /\ enc.decision_delay \in Nat
         /\ enc.decision_delay <= MaxLookahead
         /\ enc.global_granule_offset \in Int
         /\ enc.curr_granule \in Nat /\ enc.write_granule \in Nat
         /\ enc.buffer_start \in Nat /\ enc.buffer_end \in Nat
         /\ enc.buffer_start <= BufferSamples /\ enc.buffer_end <= BufferSamples
         /\ enc.draining \in BOOLEAN /\ enc.pull_api \in BOOLEAN
         /\ call.left \in Nat /\ call.nb \in Nat /\ call.eos \in BOOLEAN
         /\ frame_size = (enc.request - 3) * 8 /\ frame_size \in Nat /\ frame_size > 0
         /\ DOMAIN streams = 1..Len(streams) /\ Len(streams) \in Nat
         /\ (streams # <<>> <=> Len(streams) > 0)
         /\ \A i \in DOMAIN streams :
              /\ streams[i] \in EncStreams
              /\ streams[i].end_granule \in Nat /\ streams[i].granule_offset \in Int
              /\ streams[i].stream_is_init \in BOOLEAN
<1>1. enc.request \in 4..9
  BY DEF TypeInv, Encoders
<1>2. frame_size = (enc.request - 3) * 8
  BY <1>1, FrameSamples DEF frame_size
<1>3. DOMAIN streams = 1..Len(streams) /\ Len(streams) \in Nat /\ (streams # <<>> <=> Len(streams) > 0)
  BY LenProperties, EmptySeq DEF TypeInv
<1>4. \A i \in DOMAIN streams : streams[i] \in EncStreams
  BY ElementOfSeq DEF TypeInv
<1>5. /\ enc.decision_delay \in 0..MaxLookahead
      /\ enc.global_granule_offset \in {-1, Lookahead}
      /\ enc.curr_granule \in Nat /\ enc.write_granule \in Nat
      /\ enc.buffer_start \in 0..BufferSamples /\ enc.buffer_end \in 0..BufferSamples
      /\ enc.draining \in BOOLEAN /\ enc.pull_api \in BOOLEAN
  BY DEF TypeInv, Encoders
<1>6. call.left \in Nat /\ call.nb \in Nat /\ call.eos \in BOOLEAN
  BY DEF TypeInv, CallStates
<1>7. \A i \in DOMAIN streams :
        /\ streams[i].end_granule \in Nat /\ streams[i].granule_offset \in Int
        /\ streams[i].stream_is_init \in BOOLEAN
  BY <1>4 DEF EncStreams
<1>8. frame_size \in Nat /\ frame_size > 0
  BY <1>1, <1>2
<1> QED
  BY <1>1, <1>2, <1>3, <1>4, <1>5, <1>6, <1>7, <1>8, Room

\* Its numbers, without the streams.
LEMMA Numbers ==
  ASSUME TypeInv
  PROVE  /\ enc.request \in 4..9 /\ enc.decision_delay \in Nat
         /\ enc.decision_delay <= MaxLookahead
         /\ enc.curr_granule \in Nat /\ enc.write_granule \in Nat
         /\ enc.buffer_start \in Nat /\ enc.buffer_end \in Nat
         /\ enc.buffer_start <= BufferSamples /\ enc.buffer_end <= BufferSamples
         /\ call.left \in Nat /\ call.nb \in Nat
         /\ frame_size = (enc.request - 3) * 8 /\ frame_size \in Nat /\ frame_size > 0
         /\ Lookahead \in Nat /\ LongestFrame \in Nat /\ MaxLookahead \in Nat
         /\ BufferSamples \in Nat
BY Fields, Room

-----------------------------------------------------------------------------
(* Pages are made and written: the encoder does not notice *)

OutputMove ==
  /\ pc \in {"commit", "page", "output"}
  /\ pc' \in {"commit", "page", "output", call.then}
  /\ UNCHANGED <<enc, streams, call, closed, starts, marked, faults, ctls>>

LEMMA OutputMoves ==
  FlushBefore \/ Commit \/ Page \/ NoPage \/ WritePage \/ PagesWritten => OutputMove
BY DEF FlushBefore, Commit, Page, NoPage, WritePage, PagesWritten, AfterPage, OutputMove, bounds

LEMMA OutputKeeps ==
  ASSUME IInv, OutputMove
  PROVE  IInv'
<1>1. /\ call.then \in {"tags", "inited", "sent", "packet"}
      /\ pc' \in {"commit", "page", "output", "tags", "inited", "sent", "packet"}
      /\ pc \in {"commit", "page", "output"}
      /\ pc' \in {"commit", "page", "output"} \/ pc' = call.then
  BY DEF IInv, TypeInv, ControlInv, CallStates, OutputMove
<1>2. /\ enc' = enc /\ streams' = streams /\ call' = call
      /\ closed' = closed /\ starts' = starts /\ marked' = marked /\ faults' = faults /\ ctls' = ctls
  BY DEF OutputMove
<1>3. (Heading' <=> Heading) /\ (InFrame' <=> InFrame)
  BY <1>1, <1>2 DEF Heading, InFrame, Sending
<1>4. frame_size' = frame_size /\ Ahead' = Ahead
  BY <1>2, <1>3 DEF frame_size, Ahead
<1>5. TypeInv'
  BY <1>1, <1>2 DEF IInv, TypeInv, Steps
<1>6. ControlInv'
  BY <1>1, <1>2, <1>3 DEF IInv, ControlInv
<1>7. StreamInv'
  BY <1>1, <1>2, <1>3, <1>4 DEF IInv, StreamInv, Failed
<1>8. FrameInv'
  BY <1>1, <1>2, <1>3, <1>4 DEF IInv, FrameInv, Sound, Sending
<1>9. SamplesInv'
  BY <1>1, <1>2, <1>3, <1>4 DEF IInv, SamplesInv, Sound
<1> QED
  BY <1>5, <1>6, <1>7, <1>8, <1>9 DEF IInv

-----------------------------------------------------------------------------
(* Failures *)

\* The code of the failure is all that is new in enc.
FailsWith(code) ==
  /\ code \in Codes \ {"OK", "TOO_LATE"}
  /\ enc' = [enc EXCEPT !.unrecoverable = code]
  /\ faults' \in Nat
  /\ closed' \in Seq(Nat) /\ Len(closed') = Len(closed)
  /\ UNCHANGED <<streams, call, starts, marked, ctls>>

LEMMA FailsWithFields ==
  ASSUME TypeInv, NEW code, FailsWith(code)
  PROVE  /\ enc' \in Encoders /\ enc'.unrecoverable = code
         /\ enc'.pull_api = enc.pull_api /\ enc'.oggp = enc.oggp /\ enc'.request = enc.request
         /\ enc'.decision_delay = enc.decision_delay
         /\ enc'.global_granule_offset = enc.global_granule_offset
         /\ enc'.curr_granule = enc.curr_granule /\ enc'.write_granule = enc.write_granule
         /\ enc'.draining = enc.draining
         /\ enc'.buffer_start = enc.buffer_start /\ enc'.buffer_end = enc.buffer_end
         /\ enc'.preskip = enc.preskip /\ enc'.chaining_keyframe = enc.chaining_keyframe
         /\ frame_size' = frame_size
         /\ ~Sound' /\ Failed' /\ code # "TOO_LATE"
         /\ pc' \in Steps => TypeInv'
<1>1. /\ enc \in Encoders /\ enc' = [enc EXCEPT !.unrecoverable = code]
      /\ code \in Codes \ {"OK", "TOO_LATE"}
  BY DEF TypeInv, FailsWith
<1>2. /\ enc' \in Encoders /\ enc'.unrecoverable = code
      /\ enc'.pull_api = enc.pull_api /\ enc'.oggp = enc.oggp /\ enc'.request = enc.request
      /\ enc'.decision_delay = enc.decision_delay
      /\ enc'.global_granule_offset = enc.global_granule_offset
      /\ enc'.curr_granule = enc.curr_granule /\ enc'.write_granule = enc.write_granule
      /\ enc'.draining = enc.draining
      /\ enc'.buffer_start = enc.buffer_start /\ enc'.buffer_end = enc.buffer_end
      /\ enc'.preskip = enc.preskip /\ enc'.chaining_keyframe = enc.chaining_keyframe
  BY <1>1 DEF Encoders
<1> QED
  BY <1>1, <1>2 DEF TypeInv, FailsWith, frame_size, Sound, Failed

\* A file may be closed once more.
LEMMA ClosedType ==
  ASSUME TypeInv, streams # <<>>
  PROVE  Closed \in Seq(Nat) /\ Len(Closed) = Len(closed)
<1>1. closed \in Seq(Nat) /\ streams[1].user \in 1..Len(closed)
  <2>1. 1 \in DOMAIN streams
    BY Fields
  <2> QED
    BY <2>1 DEF TypeInv
<1>2. closed[streams[1].user] \in Nat
  BY <1>1, LenProperties, ElementOfSeq
<1>3. [closed EXCEPT ![streams[1].user] = @ + 1] \in Seq(Nat)
  BY <1>1, <1>2, LenProperties, ExceptSeq
<1> QED
  BY <1>1, <1>3, ExceptSeq, LenProperties DEF Closed

\* A failure that ends the call.
LEMMA BreaksOff ==
  ASSUME IInv, NEW code, FailsWith(code), pc' = "encoded",
         pc = "loop" \/ InFrame
  PROVE  IInv'
<1> USE FailsWithFields DEF IInv
<1>1. ~Heading' /\ ~InFrame' /\ ~Sending'
  BY DEF Heading, InFrame, Sending
<1>2. Ahead' = 0 /\ Ahead \in Nat
  BY <1>1, Fields DEF Ahead
<1>3. streams' = streams /\ call' = call
  BY DEF FailsWith
<1>4. TypeInv'
  BY DEF Steps
<1>5. ControlInv'
  BY <1>1, <1>3 DEF ControlInv, Heading, InFrame, Sending
<1>6. StreamInv'
  <2>1. /\ enc.curr_granule \in Nat /\ enc'.curr_granule = enc.curr_granule
        /\ \A i \in DOMAIN streams : streams[i].granule_offset \in Int
    BY Fields
  <2>2. \A o \in Int, c, a \in Nat : o <= c - a => o <= c - 0
    OBVIOUS
  <2>3. \A i \in DOMAIN streams : streams[i].granule_offset <= enc.curr_granule - Ahead
    BY DEF StreamInv
  <2>4. \A i \in DOMAIN streams : streams'[i].granule_offset <= enc'.curr_granule - Ahead'
    BY <1>2, <1>3, <2>1, <2>2, <2>3
  <2> QED
    BY <1>1, <1>3, <2>4 DEF StreamInv, Failed
<1>7. FrameInv'
  BY <1>1, <1>3 DEF FrameInv
<1>8. SamplesInv'
  BY <1>1, <1>3 DEF SamplesInv
<1> QED
  BY <1>4, <1>5, <1>6, <1>7, <1>8

\* A header that fails is given up, and the call goes on.
LEMMA HeaderFails ==
  ASSUME IInv, NEW code, FailsWith(code), Heading, pc' = call.ret
  PROVE  IInv'
<1> USE FailsWithFields DEF IInv
<1>1. call.ret \in {"idle", "begin", "pad", "chained"} /\ ~Sending /\ pc # "pad"
  BY DEF TypeInv, CallStates, Heading, Sending
<1>2. ~Heading' /\ ~Sending' /\ (InFrame' <=> InFrame)
  BY <1>1 DEF Heading, InFrame, Sending
<1>3. Ahead' = Ahead
  BY <1>2 DEF Ahead
<1>4. streams' = streams /\ call' = call
  BY DEF FailsWith
<1>5. TypeInv'
  BY <1>1 DEF Steps
<1>6. ControlInv'
  BY <1>1, <1>2, <1>4 DEF ControlInv, Heading, InFrame, Sending
<1>7. StreamInv'
  BY <1>1, <1>2, <1>3, <1>4 DEF StreamInv, InFrame, Heading, Sending, Failed
<1>8. FrameInv'
  BY <1>1, <1>2, <1>4 DEF FrameInv, InFrame, Heading, Sending
<1>9. SamplesInv'
  BY <1>1, <1>2, <1>4 DEF SamplesInv, Heading, InFrame
<1> QED
  BY <1>5, <1>6, <1>7, <1>8, <1>9

LEMMA FailuresKeep ==
  ASSUME IInv, WriteFails \/ NoPacker \/ EncodeFails \/ CopyFails \/ CloseFails
  PROVE  IInv'
<1>1. ASSUME NEW code, Fault(code), code \in Codes \ {"OK", "TOO_LATE"}, closed' = closed,
             UNCHANGED <<streams, call, starts, marked, ctls>>
      PROVE  FailsWith(code)
  <2>1. faults > 0 /\ faults' = faults - 1 /\ enc' = [enc EXCEPT !.unrecoverable = code]
    BY <1>1 DEF Fault
  <2>2. faults \in Nat /\ closed \in Seq(Nat)
    BY DEF IInv, TypeInv
  <2>3. faults' \in Nat
    BY <2>1, <2>2
  <2> QED
    BY <1>1, <2>1, <2>2, <2>3 DEF FailsWith
<1>2. CASE WriteFails
  <2>1. FailsWith("WRITE_FAIL")
    BY <1>1, <1>2 DEF WriteFails, Codes
  <2>2. CASE call.then \in {"tags", "inited"}
    BY <1>2, <2>1, <2>2, HeaderFails DEF WriteFails, Heading
  <2>3. CASE call.then \notin {"tags", "inited"}
    <3>1. Sending
      BY <1>2, <2>3 DEF WriteFails, Sending, IInv, TypeInv, CallStates, ControlInv
    <3> QED
      BY <1>2, <2>1, <2>3, <3>1, BreaksOff DEF WriteFails, InFrame
  <2> QED
    BY <2>2, <2>3
<1>3. CASE NoPacker
  <2>1. FailsWith("ALLOC_FAIL")
    BY <1>1, <1>3 DEF NoPacker, Codes
  <2> QED
    BY <1>3, <2>1, HeaderFails DEF NoPacker, Heading
<1>4. CASE EncodeFails
  <2>1. FailsWith("INTERNAL_ERROR")
    BY <1>1, <1>4 DEF EncodeFails, Codes
  <2> QED
    BY <1>4, <2>1, BreaksOff DEF EncodeFails
<1>5. CASE CopyFails
  <2>1. FailsWith("ALLOC_FAIL")
    BY <1>1, <1>5 DEF CopyFails, Codes
  <2> QED
    BY <1>5, <2>1, BreaksOff DEF CopyFails, InFrame
<1>6. CASE CloseFails
  <2>1. closed' \in Seq(Nat) /\ Len(closed') = Len(closed)
    BY <1>6, ClosedType DEF CloseFails, InFrame, StreamInv, IInv
  <2>2. FailsWith("CLOSE_FAIL")
    <3>1. /\ faults > 0 /\ faults' = faults - 1
          /\ enc' = [enc EXCEPT !.unrecoverable = "CLOSE_FAIL"]
          /\ UNCHANGED <<streams, call, starts, marked, ctls>>
      BY <1>6 DEF CloseFails, Fault
    <3>2. faults \in Nat
      BY DEF IInv, TypeInv
    <3>3. faults' \in Nat
      BY <3>1, <3>2
    <3> QED
      BY <2>1, <3>1, <3>3 DEF FailsWith, Codes
  <2> QED
    BY <1>6, <2>2, BreaksOff DEF CloseFails, InFrame
<1> QED
  BY <1>2, <1>3, <1>4, <1>5, <1>6

-----------------------------------------------------------------------------
(* The headers of a stream *)

LEMMA CommitsCall ==
  ASSUME NEW c \in CallStates, NEW data \in Data, NEW granule \in Nat, NEW eos \in BOOLEAN,
         NEW flush \in BOOLEAN, NEW push \in BOOLEAN,
         NEW then \in {"tags", "inited", "sent", "packet"},
         Commits(data, granule, eos, flush, push, then, c)
  PROVE  /\ pc' = "commit" /\ call' \in CallStates
         /\ call'.op = c.op /\ call'.left = c.left /\ call'.ret = c.ret /\ call'.nb = c.nb
         /\ call'.eos = eos /\ call'.then = then /\ call'.key = c.key
         /\ call'.flush = flush /\ call'.push = push
         /\ call'.data = data /\ call'.granule = granule
<1>1. call' = [c EXCEPT !.data = data, !.granule = granule, !.eos = eos,
                        !.flush = flush, !.push = push, !.then = then]
      /\ pc' = "commit"
  BY DEF Commits
<1>2. c = [op |-> c.op, left |-> c.left, data |-> c.data, granule |-> c.granule,
           eos |-> c.eos, flush |-> c.flush, push |-> c.push, then |-> c.then,
           ret |-> c.ret, key |-> c.key, copied |-> c.copied, nb |-> c.nb]
  BY DEF CallStates
<1>3. call' = [op |-> c.op, left |-> c.left, data |-> data, granule |-> granule,
               eos |-> eos, flush |-> flush, push |-> push, then |-> then,
               ret |-> c.ret, key |-> c.key, copied |-> c.copied, nb |-> c.nb]
  BY <1>1, <1>2
<1>4. /\ c.op \in {"none", "write", "drain", "finish"} /\ c.left \in Nat
      /\ c.ret \in {"idle", "begin", "pad", "chained"} /\ c.key \in BOOLEAN
      /\ c.copied \in BOOLEAN /\ c.nb \in Nat
  BY DEF CallStates
<1>5. call' \in CallStates
  BY <1>3, <1>4 DEF CallStates
<1> QED
  BY <1>1, <1>3, <1>5

LEMMA PacketIsData ==
  ASSUME NEW kind \in {"head", "tags", "audio"}, NEW n \in Nat
  PROVE  /\ Packet(kind, n) \in Data
         /\ Packet(kind, n)[1] = [kind |-> kind, n |-> n] /\ Len(Packet(kind, n)) = 1
BY DEF Packet, Data

LEMMA InitStreamKeeps ==
  ASSUME IInv, InitStream
  PROVE  IInv'
<1> USE DEF IInv
<1> DEFINE first == enc.global_granule_offset = -1
           preskip == IF first THEN Lookahead ELSE enc.preskip
<1>1. /\ enc' = [enc EXCEPT !.oggp = TRUE, !.preskip = preskip,
                            !.global_granule_offset = IF first THEN preskip ELSE @]
      /\ preskip \in Nat /\ enc \in Encoders
      /\ first \/ enc.global_granule_offset = Lookahead
  BY Room DEF InitStream, TypeInv, Encoders
<1>2. /\ enc' \in Encoders /\ enc'.global_granule_offset = Lookahead
      /\ enc'.unrecoverable = enc.unrecoverable /\ enc'.request = enc.request
      /\ enc'.decision_delay = enc.decision_delay
      /\ enc'.curr_granule = enc.curr_granule /\ enc'.write_granule = enc.write_granule
      /\ enc'.draining = enc.draining
      /\ enc'.buffer_start = enc.buffer_start /\ enc'.buffer_end = enc.buffer_end
  BY <1>1 DEF Encoders
<1>3. Packet("head", preskip) \in Data
  BY <1>1, PacketIsData
<1>4. /\ Commits(Packet("head", preskip), 0, FALSE, TRUE, TRUE, "tags", call)
      /\ pc = "init" /\ streams' = streams /\ UNCHANGED <<closed, starts, marked, faults, ctls>>
  BY DEF InitStream, bounds
<1> HIDE DEF first, preskip
<1>5. /\ pc' = "commit" /\ call' \in CallStates
      /\ call'.op = call.op /\ call'.left = call.left /\ call'.ret = call.ret
      /\ call'.nb = call.nb /\ call'.then = "tags"
  BY <1>3, <1>4, CommitsCall DEF TypeInv
<1>6. /\ Heading /\ Heading' /\ (InFrame' <=> InFrame) /\ ~Sending /\ ~Sending'
      /\ Failed' = Failed /\ Sound' = Sound /\ frame_size' = frame_size
  BY <1>2, <1>4, <1>5 DEF Heading, InFrame, Sending, Failed, Sound, frame_size
<1>7. Ahead' = Ahead
  BY <1>6 DEF Ahead
<1>8. TypeInv'
  BY <1>2, <1>4, <1>5 DEF TypeInv, Steps
<1>9. ControlInv'
  BY <1>2, <1>4, <1>5, <1>6 DEF ControlInv
<1>10. StreamInv'
  BY <1>2, <1>4, <1>5, <1>6, <1>7 DEF StreamInv
<1>11. FrameInv'
  BY <1>2, <1>4, <1>5, <1>6, <1>7 DEF FrameInv
<1>12. SamplesInv'
  BY <1>2, <1>4, <1>5, <1>6, <1>7 DEF SamplesInv
<1> QED
  BY <1>8, <1>9, <1>10, <1>11, <1>12

LEMMA TagsKeeps ==
  ASSUME IInv, Tags
  PROVE  IInv'
<1> USE DEF IInv
<1>1. /\ Commits(Packet("tags", 0), 0, FALSE, TRUE, TRUE, "inited", call)
      /\ pc = "tags" /\ streams' = streams /\ enc' = enc
      /\ UNCHANGED <<closed, starts, marked, faults, ctls>>
  BY DEF Tags, bounds
<1>2. /\ pc' = "commit" /\ call' \in CallStates
      /\ call'.op = call.op /\ call'.left = call.left /\ call'.ret = call.ret
      /\ call'.nb = call.nb /\ call'.then = "inited"
  BY <1>1, CommitsCall, PacketIsData DEF TypeInv
<1>3. /\ Heading /\ Heading' /\ (InFrame' <=> InFrame) /\ ~Sending /\ ~Sending'
      /\ Failed' = Failed /\ Sound' = Sound /\ frame_size' = frame_size
  BY <1>1, <1>2 DEF Heading, InFrame, Sending, Failed, Sound, frame_size
<1>4. Ahead' = Ahead
  BY <1>3 DEF Ahead
<1>5. TypeInv'
  BY <1>1, <1>2 DEF TypeInv, Steps
<1>6. ControlInv'
  BY <1>1, <1>2, <1>3 DEF ControlInv
<1>7. StreamInv'
  BY <1>1, <1>2, <1>3, <1>4 DEF StreamInv
<1>8. FrameInv'
  BY <1>1, <1>2, <1>3, <1>4 DEF FrameInv
<1>9. SamplesInv'
  BY <1>1, <1>2, <1>3, <1>4 DEF SamplesInv
<1> QED
  BY <1>5, <1>6, <1>7, <1>8, <1>9

\* A field of one stream of the list is set.
LEMMA SetStream ==
  ASSUME streams \in Seq(EncStreams), NEW i \in DOMAIN streams, NEW s \in EncStreams
  PROVE  LET r == [streams EXCEPT ![i] = s]
         IN /\ r \in Seq(EncStreams) /\ Len(r) = Len(streams) /\ DOMAIN r = DOMAIN streams
            /\ r # <<>>
            /\ r[i] = s /\ \A j \in DOMAIN streams : j # i => r[j] = streams[j]
<1>1. DOMAIN streams = 1..Len(streams) /\ Len(streams) \in Nat
  BY LenProperties
<1> QED
  BY <1>1, ExceptSeq, LenProperties, EmptySeq

LEMMA StreamInitedKeeps ==
  ASSUME IInv, StreamInited
  PROVE  IInv'
<1> USE DEF IInv
<1>1. /\ pc = "inited" /\ pc' = call.ret /\ enc' = enc /\ call' = call
      /\ streams' = [streams EXCEPT ![1] = [streams[1] EXCEPT !.stream_is_init = TRUE]]
      /\ UNCHANGED <<closed, starts, marked, faults, ctls>>
      /\ pc' \in {"idle", "begin", "pad", "chained"}
  BY DEF StreamInited, bounds, TypeInv, CallStates
<1>2. Heading /\ ~Sending /\ ~Heading' /\ ~Sending' /\ (InFrame' <=> InFrame)
  BY <1>1 DEF Heading, Sending, InFrame
<1>3. 1 \in DOMAIN streams /\ streams # <<>>
  BY <1>2, Fields DEF StreamInv
<1> DEFINE s == [streams[1] EXCEPT !.stream_is_init = TRUE]
<1>4. /\ s \in EncStreams /\ s.end_granule = streams[1].end_granule
      /\ s.granule_offset = streams[1].granule_offset /\ s.user = streams[1].user
  BY <1>3, Fields DEF EncStreams
<1> HIDE DEF s
<1>5. /\ streams' \in Seq(EncStreams) /\ Len(streams') = Len(streams)
      /\ DOMAIN streams' = DOMAIN streams /\ streams' # <<>>
      /\ streams'[1] = s /\ \A j \in DOMAIN streams : j # 1 => streams'[j] = streams[j]
  BY <1>1, <1>3, <1>4, SetStream DEF TypeInv, s
<1>6. \A j \in DOMAIN streams : /\ streams'[j].end_granule = streams[j].end_granule
                                /\ streams'[j].granule_offset = streams[j].granule_offset
                                /\ streams'[j].user = streams[j].user
  BY <1>4, <1>5
<1>7. /\ Failed' = Failed /\ Sound' = Sound /\ frame_size' = frame_size /\ Ahead' = Ahead
  BY <1>1, <1>2 DEF Failed, Sound, frame_size, Ahead
<1>8. TypeInv'
  BY <1>1, <1>5, <1>6 DEF TypeInv, Steps
<1>9. ControlInv'
  BY <1>1, <1>2 DEF ControlInv, InFrame, Sending
<1>10. StreamInv'
  <2>1. Last(streams').end_granule = Last(streams).end_granule
    BY <1>3, <1>5, <1>6, Fields DEF Last
  <2> QED
    BY <1>1, <1>2, <1>3, <1>5, <1>6, <1>7, <2>1 DEF StreamInv, Failed
<1>11. FrameInv'
  BY <1>1, <1>2, <1>3, <1>5, <1>6, <1>7 DEF FrameInv
<1>12. SamplesInv'
  BY <1>1, <1>2, <1>3, <1>5, <1>7 DEF SamplesInv, InFrame
<1> QED
  BY <1>8, <1>9, <1>10, <1>11, <1>12

-----------------------------------------------------------------------------
(* encode_buffer *)

LEMMA ShiftFields ==
  ASSUME TypeInv, enc.buffer_start <= enc.buffer_end
  PROVE  LET e == shift_buffer(enc)
         IN /\ e \in Encoders
            /\ e.buffer_start <= e.buffer_end
            /\ e.buffer_end - e.buffer_start = enc.buffer_end - enc.buffer_start
            /\ e.buffer_start <= LpcInput
            /\ enc.buffer_start > LpcInput => e.buffer_end < enc.buffer_end
            /\ e.unrecoverable = enc.unrecoverable /\ e.request = enc.request
            /\ e.decision_delay = enc.decision_delay
            /\ e.global_granule_offset = enc.global_granule_offset
            /\ e.curr_granule = enc.curr_granule /\ e.write_granule = enc.write_granule
            /\ e.draining = enc.draining /\ e.pull_api = enc.pull_api /\ e.oggp = enc.oggp
            /\ e.preskip = enc.preskip /\ e.chaining_keyframe = enc.chaining_keyframe
<1>0. /\ enc.buffer_start \in Nat /\ enc.buffer_end \in Nat
      /\ enc.buffer_end <= BufferSamples /\ BufferSamples \in Nat /\ LpcInput \in Nat
      /\ BufferSamples > LpcInput
  BY Fields, Room
<1>1. enc \in Encoders
  BY DEF TypeInv
<1>2. CASE enc.buffer_start > LpcInput
  <2> DEFINE a == enc.buffer_end - (enc.buffer_start - LpcInput)
             b == LpcInput
  <2>1. a \in 0..BufferSamples /\ b \in 0..BufferSamples /\ b <= a /\ a < enc.buffer_end
        /\ a - b = enc.buffer_end - enc.buffer_start
    BY <1>0, <1>2
  <2>2. shift_buffer(enc) = [enc EXCEPT !.buffer_end = a, !.buffer_start = b]
    BY <1>2 DEF shift_buffer
  <2>3. b <= LpcInput
    BY Room
  <2> HIDE DEF a, b
  <2> DEFINE r == [enc EXCEPT !.buffer_end = a, !.buffer_start = b]
  <2>4. /\ r \in Encoders /\ r.buffer_end = a /\ r.buffer_start = b
        /\ r.unrecoverable = enc.unrecoverable /\ r.request = enc.request
        /\ r.decision_delay = enc.decision_delay
        /\ r.global_granule_offset = enc.global_granule_offset
        /\ r.curr_granule = enc.curr_granule /\ r.write_granule = enc.write_granule
        /\ r.draining = enc.draining /\ r.pull_api = enc.pull_api /\ r.oggp = enc.oggp
        /\ r.preskip = enc.preskip /\ r.chaining_keyframe = enc.chaining_keyframe
    BY <1>1, <2>1 DEF Encoders
  <2> HIDE DEF r
  <2>5. shift_buffer(enc) = r
    BY <2>2 DEF r
  <2> QED
    BY <2>1, <2>3, <2>4, <2>5
<1>3. CASE ~(enc.buffer_start > LpcInput)
  <2>1. shift_buffer(enc) = enc
    BY <1>3 DEF shift_buffer
  <2> QED
    BY <1>1, <1>3, <2>1, Fields, Room
<1> QED
  BY <1>2, <1>3

\* Every stream ends at the samples written, at the latest.
LEMMA EndsAreWritten ==
  ASSUME TypeInv, StreamInv, NEW i \in DOMAIN streams
  PROVE  streams[i].end_granule <= enc.write_granule
<1>1. i \in 1..Len(streams) /\ Len(streams) \in DOMAIN streams /\ streams # <<>>
  BY Fields
<1>2. streams[Len(streams)].end_granule = enc.write_granule
  BY <1>1 DEF StreamInv, Last
<1>3. CASE i = Len(streams)
  BY <1>2, <1>3, Fields
<1>4. CASE i < Len(streams)
  BY <1>1, <1>2, <1>4 DEF StreamInv
<1> QED
  BY <1>1, <1>3, <1>4, Fields

\* A drain does not end here: what is in the buffer is more than a frame.
LEMMA LoopEndsKeeps ==
  ASSUME IInv, LoopEnds
  PROVE  IInv'
<1> USE DEF IInv
<1>1. /\ pc = "loop" /\ ~Enough(enc) /\ streams' = streams /\ call' = call
      /\ enc' = IF enc.buffer_end = BufferSamples THEN shift_buffer(enc) ELSE enc
      /\ pc' = IF enc'.buffer_end < BufferSamples THEN "encoded" ELSE "abort"
      /\ UNCHANGED <<closed, starts, marked, faults, ctls>>
  BY DEF LoopEnds, bounds
<1>2. ~Heading /\ ~InFrame /\ ~Sending
  BY <1>1 DEF Heading, InFrame, Sending
<1>3. /\ enc.buffer_end - enc.buffer_start <= frame_size + enc.decision_delay
      /\ frame_size <= LongestFrame /\ enc.buffer_start <= enc.buffer_end
  <2>1. ~(enc.buffer_end - enc.buffer_start > frame_size + enc.decision_delay)
    BY <1>1 DEF Enough, frame_size
  <2>2. frame_size <= LongestFrame /\ enc.buffer_start <= enc.buffer_end
    BY DEF FrameInv
  <2>3. /\ enc.buffer_start \in Nat /\ enc.buffer_end \in Nat /\ frame_size \in Nat
        /\ enc.decision_delay \in Nat
    BY Numbers
  <2> QED
    BY <2>1, <2>2, <2>3
<1>4. enc.buffer_end = BufferSamples => enc.buffer_start > LpcInput
  <2>1. /\ enc.buffer_start \in Nat /\ enc.buffer_end \in Nat /\ frame_size \in Nat
        /\ enc.decision_delay \in Nat /\ enc.decision_delay <= MaxLookahead
    BY Numbers
  <2> QED
    BY <1>3, <2>1, Room
<1>5. /\ enc'.buffer_start <= enc'.buffer_end /\ enc'.buffer_end < BufferSamples
      /\ enc'.buffer_end - enc'.buffer_start = enc.buffer_end - enc.buffer_start
      /\ enc' \in Encoders
      /\ enc'.unrecoverable = enc.unrecoverable /\ enc'.request = enc.request
      /\ enc'.decision_delay = enc.decision_delay
      /\ enc'.global_granule_offset = enc.global_granule_offset
      /\ enc'.curr_granule = enc.curr_granule /\ enc'.write_granule = enc.write_granule
      /\ enc'.draining = enc.draining
  <2>1. CASE enc.buffer_end = BufferSamples
    <3>1. enc' = shift_buffer(enc)
      BY <1>1, <2>1
    <3> QED
      BY <1>3, <1>4, <2>1, <3>1, ShiftFields
  <2>2. CASE enc.buffer_end # BufferSamples
    <3>1. enc' = enc /\ enc \in Encoders
      BY <1>1, <2>2 DEF TypeInv
    <3>2. enc.buffer_end < BufferSamples
      BY <2>2, Fields, Room
    <3> QED
      BY <1>3, <3>1, <3>2
  <2> QED
    BY <2>1, <2>2
<1>6. pc' = "encoded"
  BY <1>1, <1>5
<1>7. enc' \in Encoders
  BY <1>5
<1>8. ~Heading' /\ ~InFrame' /\ ~Sending'
  BY <1>6 DEF Heading, InFrame, Sending
<1>9. /\ Failed' = Failed /\ Sound' = Sound /\ frame_size' = frame_size
      /\ Ahead' = 0 /\ Ahead = 0
  BY <1>2, <1>5, <1>8 DEF Failed, Sound, frame_size, Ahead
<1>10. TypeInv'
  BY <1>1, <1>6, <1>7 DEF TypeInv, Steps
<1>11. ControlInv'
  BY <1>1, <1>2, <1>5, <1>6, <1>8 DEF ControlInv
<1>12. StreamInv'
  BY <1>1, <1>2, <1>5, <1>6, <1>8, <1>9 DEF StreamInv
<1>13. FrameInv'
  BY <1>1, <1>2, <1>3, <1>5, <1>6, <1>7, <1>8, <1>9 DEF FrameInv
<1>14. SamplesInv'
  <2>1. Sound /\ streams # <<>> => ~enc.draining
    <3>1. SUFFICES ASSUME Sound, streams # <<>>, enc.draining PROVE FALSE
      OBVIOUS
    <3>2. call.op # "none" /\ call.op # "write"
      BY <1>1, <3>1 DEF ControlInv, SamplesInv
    <3>3. enc.decision_delay = 0
      BY <1>1, <3>2 DEF SamplesInv, TypeInv, CallStates, Drains
    <3>4. /\ enc.curr_granule - call.nb + (enc.buffer_end - enc.buffer_start) >
               enc.write_granule + Lookahead + frame_size
          /\ call.nb = 0 /\ enc.curr_granule <= streams[1].end_granule + Lookahead
      BY <1>2, <3>1 DEF SamplesInv, FrameInv
    <3>5. 1 \in DOMAIN streams
      BY <3>1, Fields
    <3>6. streams[1].end_granule <= enc.write_granule /\ streams[1].end_granule \in Nat
      BY <3>5, EndsAreWritten, Fields
    <3>7. /\ enc.curr_granule \in Nat /\ enc.write_granule \in Nat /\ frame_size \in Nat
          /\ enc.buffer_start \in Nat /\ enc.buffer_end \in Nat /\ Lookahead \in Nat
      BY Fields, Room
    <3> QED
      BY <1>3, <3>3, <3>4, <3>6, <3>7
  <2>2. enc.buffer_end - enc.buffer_start <= LongestFrame + MaxLookahead
    <3>1. /\ enc.buffer_start \in Nat /\ enc.buffer_end \in Nat /\ frame_size \in Nat
          /\ enc.decision_delay \in Nat /\ enc.decision_delay <= MaxLookahead
      BY Fields
    <3>2. LongestFrame \in Nat /\ MaxLookahead \in Nat
      BY Room
    <3> QED
      BY <1>3, <3>1, <3>2
  <2>3. call.ret # "begin"
    BY <1>1, <1>2 DEF ControlInv
  <2> QED
    BY <1>1, <1>2, <1>5, <1>6, <1>7, <1>8, <1>9, <2>1, <2>2, <2>3 DEF SamplesInv
<1> QED
  BY <1>10, <1>11, <1>12, <1>13, <1>14

LEMMA LoopStopsKeeps ==
  ASSUME IInv, LoopStops
  PROVE  IInv'
<1> USE DEF IInv
<1>1. /\ pc = "loop" /\ pc' = "encoded" /\ Failed
      /\ UNCHANGED <<enc, streams, call, closed, starts, marked, faults, ctls>>
  BY DEF LoopStops, bounds
<1>2. /\ ~Heading /\ ~InFrame /\ ~Sending /\ ~Heading' /\ ~InFrame' /\ ~Sending'
  BY <1>1 DEF Heading, InFrame, Sending
<1>3. ~Sound /\ ~Sound' /\ Failed' /\ Ahead' = 0 /\ Ahead = 0 /\ frame_size' = frame_size
  BY <1>1, <1>2 DEF Sound, Failed, ControlInv, Ahead, frame_size
<1>4. TypeInv'
  BY <1>1 DEF TypeInv, Steps
<1>5. ControlInv'
  BY <1>1, <1>2 DEF ControlInv
<1>6. StreamInv'
  BY <1>1, <1>2, <1>3 DEF StreamInv
<1>7. FrameInv'
  BY <1>1, <1>2, <1>3 DEF FrameInv
<1>8. SamplesInv'
  BY <1>1, <1>2, <1>3 DEF SamplesInv
<1> QED
  BY <1>4, <1>5, <1>6, <1>7, <1>8

\* A frame that would do is never made longer (the assertion after the search).
LEMMA LastRequestFits ==
  ASSUME TypeInv, enc.curr_granule + frame_size >= end_granule48k, end_granule48k \in Int
  PROVE  LastRequest \in 4..enc.request
<1> DEFINE min_samples == end_granule48k - enc.curr_granule
           Fits(r) == compute_frame_samples(r) >= min_samples
           Least(r) == Fits(r) /\ \A q \in 4..(r - 1) : ~Fits(q)
<1>1. enc.request \in 4..9 /\ Fits(enc.request)
  BY Fields DEF frame_size
<1> HIDE DEF Fits
<1>2. \E r \in 4..9 : Least(r)
  <2>1. CASE Fits(4)
    <3>1. Least(4)
      BY <2>1
    <3> QED
      BY <3>1
  <2>2. CASE ~Fits(4) /\ Fits(5)
    <3>1. 4..(5 - 1) = {4}
      OBVIOUS
    <3>2. Least(5)
      BY <2>2, <3>1
    <3> QED
      BY <3>2
  <2>3. CASE ~Fits(4) /\ ~Fits(5) /\ Fits(6)
    <3>1. 4..(6 - 1) = {4, 5}
      OBVIOUS
    <3>2. Least(6)
      BY <2>3, <3>1
    <3> QED
      BY <3>2
  <2>4. CASE ~Fits(4) /\ ~Fits(5) /\ ~Fits(6) /\ Fits(7)
    <3>1. 4..(7 - 1) = {4, 5, 6}
      OBVIOUS
    <3>2. Least(7)
      BY <2>4, <3>1
    <3> QED
      BY <3>2
  <2>5. CASE ~Fits(4) /\ ~Fits(5) /\ ~Fits(6) /\ ~Fits(7) /\ Fits(8)
    <3>1. 4..(8 - 1) = {4, 5, 6, 7}
      OBVIOUS
    <3>2. Least(8)
      BY <2>5, <3>1
    <3> QED
      BY <3>2
  <2>6. CASE ~Fits(4) /\ ~Fits(5) /\ ~Fits(6) /\ ~Fits(7) /\ ~Fits(8) /\ Fits(9)
    <3>1. 4..(9 - 1) = {4, 5, 6, 7, 8}
      OBVIOUS
    <3>2. Least(9)
      BY <2>6, <3>1
    <3> QED
      BY <3>2
  <2> QED
    BY <1>1, <2>1, <2>2, <2>3, <2>4, <2>5, <2>6
<1> DEFINE r0 == CHOOSE r \in 4..9 : Least(r)
<1>3. r0 \in 4..9 /\ Least(r0)
  BY <1>2
<1>4. LastRequest = r0
  BY DEF LastRequest, Fits
<1> HIDE DEF r0
<1>5. r0 <= enc.request
  <2>1. SUFFICES ASSUME enc.request < r0 PROVE FALSE
    BY <1>1, <1>3
  <2>2. enc.request \in 4..(r0 - 1)
    BY <1>1, <1>3, <2>1
  <2> QED
    BY <1>1, <1>3, <2>2
<1> QED
  BY <1>3, <1>4, <1>5

LEMMA EncodeFrameKeeps ==
  ASSUME IInv, EncodeFrame
  PROVE  IInv'
<1> USE DEF IInv
<1> DEFINE request == IF /\ enc.curr_granule + frame_size >= end_granule48k
                         /\ enc.draining /\ enc.request > 4
                      THEN LastRequest ELSE enc.request
           n == compute_frame_samples(request)
<1> HIDE DEF request, n
<1>1. /\ pc = "loop" /\ Enough(enc) /\ ~Failed /\ streams' = streams
      /\ enc' = [enc EXCEPT !.request = request, !.curr_granule = @ + n]
      /\ \E key \in BOOLEAN :
           call' = [call EXCEPT !.nb = n, !.copied = FALSE, !.key = key]
      /\ pc' = IF request <= enc.request THEN "packet" ELSE "abort"
      /\ UNCHANGED <<closed, starts, marked, faults, ctls>>
  BY DEF EncodeFrame, bounds, request, n
<1>2. ~Heading /\ ~InFrame /\ ~Sending /\ Sound /\ streams # <<>> /\ 1 \in DOMAIN streams
  <2>1. ~Heading /\ ~InFrame /\ ~Sending /\ Sound
    BY <1>1 DEF Heading, InFrame, Sending, Sound, Failed
  <2>2. streams # <<>>
    BY <1>1 DEF StreamInv
  <2> QED
    BY <2>1, <2>2, Fields
<1>3. request \in 4..enc.request
  <2>1. end_granule48k \in Int
    <3>1. streams[1].end_granule \in Nat /\ enc.global_granule_offset \in Int
      BY <1>2, Fields
    <3> QED
      BY <3>1 DEF end_granule48k
  <2>2. enc.request \in 4..9
    BY Numbers
  <2> QED
    BY <2>1, <2>2, LastRequestFits DEF request
<1>4. n \in Nat /\ n = (request - 3) * 8 /\ n <= frame_size /\ n > 0 /\ request \in 4..9
  <2>1. request \in 4..9 /\ enc.request \in 4..9
    BY <1>3, Numbers
  <2>2. n = (request - 3) * 8
    BY <2>1, FrameSamples DEF n
  <2>3. frame_size = (enc.request - 3) * 8
    BY Numbers
  <2> QED
    BY <1>3, <2>1, <2>2, <2>3
<1>5. pc' = "packet"
  BY <1>1, <1>3, Numbers
<1>6. /\ enc' \in Encoders /\ enc'.request = request
      /\ enc'.curr_granule = enc.curr_granule + n
      /\ enc'.unrecoverable = enc.unrecoverable
      /\ enc'.decision_delay = enc.decision_delay
      /\ enc'.global_granule_offset = enc.global_granule_offset
      /\ enc'.write_granule = enc.write_granule /\ enc'.draining = enc.draining
      /\ enc'.buffer_start = enc.buffer_start /\ enc'.buffer_end = enc.buffer_end
  <2>0. enc.curr_granule + n \in Nat
    BY <1>4, Numbers
  <2>1. enc \in Encoders /\ enc.curr_granule + n \in Nat
    BY <2>0 DEF TypeInv
  <2>2. enc' = [enc EXCEPT !.request = request, !.curr_granule = enc.curr_granule + n]
    BY <1>1, <2>1 DEF Encoders
  <2> QED
    BY <1>4, <2>1, <2>2 DEF Encoders
<1>7. /\ call' \in CallStates /\ call'.nb = n
      /\ call'.op = call.op /\ call'.left = call.left /\ call'.ret = call.ret
  <2>1. PICK key \in BOOLEAN : call' = [call EXCEPT !.nb = n, !.copied = FALSE, !.key = key]
    BY <1>1
  <2>2. call \in CallStates /\ n \in Nat
    BY <1>4 DEF TypeInv
  <2> QED
    BY <2>1, <2>2 DEF CallStates
<1>8. ~Heading' /\ InFrame' /\ ~Sending' /\ Sound' /\ ~Failed'
  BY <1>1, <1>5, <1>6 DEF Heading, InFrame, Sending, Sound, Failed
<1>9. frame_size' = n
  BY <1>4, <1>6 DEF frame_size, n
<1>10. Ahead' = n /\ Ahead = 0
  BY <1>2, <1>8, <1>9 DEF Ahead
<1>11. enc.curr_granule \in Nat /\ enc'.curr_granule - n = enc.curr_granule
       /\ n <= enc'.curr_granule
  <2>1. enc.curr_granule \in Nat /\ n \in Nat /\ enc'.curr_granule = enc.curr_granule + n
    BY <1>4, <1>6, Numbers
  <2> QED
    BY <2>1
<1>12. /\ call.nb = 0 /\ enc.curr_granule <= streams[1].end_granule + Lookahead
       /\ frame_size <= LongestFrame
  BY <1>2 DEF FrameInv
<1>13. call.op # "none" /\ call.ret # "begin"
  BY <1>1, <1>2 DEF ControlInv
<1>14. TypeInv'
  BY <1>1, <1>5, <1>6, <1>7 DEF TypeInv, Steps
<1>15. ControlInv'
  BY <1>1, <1>2, <1>5, <1>6, <1>7, <1>8, <1>13 DEF ControlInv
<1>16. StreamInv'
  <2>1. \A i \in DOMAIN streams : streams[i].granule_offset <= enc.curr_granule
    BY <1>10, <1>11, Fields DEF StreamInv
  <2>2. enc.global_granule_offset = Lookahead
    BY <1>1, <1>2, <1>13 DEF StreamInv
  <2> QED
    BY <1>1, <1>2, <1>5, <1>6, <1>7, <1>8, <1>10, <1>11, <2>1, <2>2 DEF StreamInv
<1>17. FrameInv'
  <2>1. enc.buffer_end - enc.buffer_start > n
    <3>1. enc.buffer_end - enc.buffer_start > frame_size + enc.decision_delay
      BY <1>1 DEF Enough, frame_size
    <3>2. /\ enc.buffer_start \in Nat /\ enc.buffer_end \in Nat /\ frame_size \in Nat
          /\ enc.decision_delay \in Nat
      BY Numbers
    <3> QED
      BY <1>4, <3>1, <3>2
  <2>2. n <= LongestFrame
    BY <1>4, <1>12, Fields, Room
  <2> QED
    BY <1>1, <1>5, <1>6, <1>7, <1>8, <1>9, <1>11, <1>12, <2>1, <2>2 DEF FrameInv
<1>18. SamplesInv'
  <2>1. enc'.curr_granule - call'.nb = enc.curr_granule - call.nb
    BY <1>7, <1>11, <1>12
  <2>2. enc.draining =>
          enc.curr_granule - call.nb + (enc.buffer_end - enc.buffer_start) >
            enc.write_granule + Lookahead + n
    <3>1. SUFFICES ASSUME enc.draining
                   PROVE enc.curr_granule - call.nb + (enc.buffer_end - enc.buffer_start) >
                           enc.write_granule + Lookahead + n
      OBVIOUS
    <3>2. enc.curr_granule - call.nb + (enc.buffer_end - enc.buffer_start) >
            enc.write_granule + Lookahead + frame_size
      BY <1>2, <3>1 DEF SamplesInv
    <3> QED
      BY <1>4, <3>2, Numbers
  <2> QED
    BY <1>1, <1>2, <1>5, <1>6, <1>7, <1>8, <1>9, <1>13, <2>1, <2>2 DEF SamplesInv
<1> QED
  BY <1>14, <1>15, <1>16, <1>17, <1>18

LEMMA CommitPacketKeeps ==
  ASSUME IInv, CommitPacket
  PROVE  IInv'
<1> USE DEF IInv
<1> DEFINE e_o_s == enc.curr_granule >= end_granule48k
           granule == (IF e_o_s THEN end_granule48k ELSE enc.curr_granule)
                        - streams[1].granule_offset
<1>1. /\ pc = "packet" /\ enc' = enc /\ streams' = streams
      /\ UNCHANGED <<closed, starts, marked, faults, ctls>>
      /\ Commits(Packet("audio", call.nb), granule, e_o_s, e_o_s, TRUE, "sent",
                 [call EXCEPT !.copied = e_o_s \/ call.key \/ @])
  BY DEF CommitPacket, bounds
<1>2. InFrame /\ ~Heading /\ ~Sending /\ streams # <<>> /\ 1 \in DOMAIN streams
  <2>1. InFrame /\ ~Heading /\ ~Sending
    BY <1>1 DEF InFrame, Heading, Sending
  <2>2. streams # <<>>
    BY <2>1 DEF StreamInv
  <2> QED
    BY <2>1, <2>2, Fields
<1>3. /\ streams[1].end_granule \in Nat /\ streams[1].granule_offset \in Int
      /\ end_granule48k = streams[1].end_granule + Lookahead
      /\ streams[1].granule_offset <= enc.curr_granule - frame_size
      /\ enc.curr_granule - frame_size <= streams[1].end_granule + Lookahead
  BY <1>2, Fields DEF StreamInv, FrameInv, Ahead, end_granule48k
<1>4. granule \in Nat
  BY <1>3, Numbers
<1>5. e_o_s \in BOOLEAN /\ (e_o_s <=> enc.curr_granule >= streams[1].end_granule + Lookahead)
  BY <1>3
<1> HIDE DEF e_o_s, granule
<1>6. [call EXCEPT !.copied = e_o_s \/ call.key \/ @] \in CallStates
  BY <1>5 DEF TypeInv, CallStates
<1> DEFINE c == [call EXCEPT !.copied = e_o_s \/ call.key \/ @]
<1>7. c.op = call.op /\ c.left = call.left /\ c.ret = call.ret /\ c.nb = call.nb
  BY DEF TypeInv, CallStates
<1> HIDE DEF c
<1>8. Packet("audio", call.nb) \in Data
  BY PacketIsData, Numbers
<1>9. /\ pc' = "commit" /\ call' \in CallStates
      /\ call'.op = call.op /\ call'.left = call.left /\ call'.ret = call.ret
      /\ call'.nb = call.nb /\ call'.then = "sent" /\ call'.eos = e_o_s
  <2>1. Commits(Packet("audio", call.nb), granule, e_o_s, e_o_s, TRUE, "sent", c)
    BY <1>1 DEF c
  <2>2. c \in CallStates
    BY <1>6 DEF c
  <2> QED
    BY <1>4, <1>5, <1>7, <1>8, <2>1, <2>2 DEF Commits, CallStates
<1>10. ~Heading' /\ InFrame' /\ Sending'
  BY <1>9 DEF Heading, InFrame, Sending
<1>11. /\ Failed' = Failed /\ Sound' = Sound /\ frame_size' = frame_size
       /\ Ahead' = Ahead
  BY <1>1, <1>2, <1>10 DEF Failed, Sound, frame_size, Ahead
<1>12. TypeInv'
  BY <1>1, <1>9 DEF TypeInv, Steps
<1>13. ControlInv'
  BY <1>1, <1>2, <1>9, <1>10 DEF ControlInv
<1>14. StreamInv'
  BY <1>1, <1>2, <1>9, <1>10, <1>11 DEF StreamInv
<1>15. FrameInv'
  BY <1>1, <1>2, <1>5, <1>9, <1>10, <1>11 DEF FrameInv
<1>16. SamplesInv'
  BY <1>1, <1>2, <1>9, <1>10, <1>11 DEF SamplesInv
<1> QED
  BY <1>12, <1>13, <1>14, <1>15, <1>16

LEMMA FrameDoneKeeps ==
  ASSUME IInv, FrameDone
  PROVE  IInv'
<1> USE DEF IInv
<1>1. /\ pc = "sent" /\ ~call.eos /\ pc' = "loop" /\ streams' = streams
      /\ enc' = [enc EXCEPT !.chaining_keyframe = IF call.key THEN call.nb ELSE 0,
                            !.buffer_start = @ + frame_size]
      /\ call' = [call EXCEPT !.nb = 0]
      /\ UNCHANGED <<closed, starts, marked, faults, ctls>>
  BY DEF FrameDone, bounds
<1>2. InFrame /\ ~Heading /\ ~Sending /\ streams # <<>> /\ 1 \in DOMAIN streams
  <2>1. InFrame /\ ~Heading /\ ~Sending
    BY <1>1 DEF InFrame, Heading, Sending
  <2>2. streams # <<>>
    BY <2>1 DEF StreamInv
  <2> QED
    BY <2>1, <2>2, Fields
<1>3. /\ call.nb = frame_size /\ enc.buffer_end - enc.buffer_start > frame_size
      /\ frame_size <= LongestFrame
      /\ ~(enc.curr_granule >= streams[1].end_granule + Lookahead)
      /\ streams[1].end_granule \in Nat
  <2>1. streams[1].end_granule \in Nat
    BY <1>2, Fields
  <2> QED
    BY <1>1, <1>2, <2>1 DEF FrameInv
<1> DEFINE b == enc.buffer_start + frame_size
           k == IF call.key THEN call.nb ELSE 0
<1>4. b \in 0..BufferSamples /\ b <= enc.buffer_end /\ k \in Nat
      /\ enc.buffer_end - b = enc.buffer_end - enc.buffer_start - frame_size
  BY <1>3, Numbers
<1>5. enc' = [enc EXCEPT !.chaining_keyframe = k, !.buffer_start = b] /\ enc \in Encoders
  BY <1>1 DEF TypeInv, Encoders
<1> HIDE DEF b, k
<1>6. /\ enc' \in Encoders /\ enc'.request = enc.request
      /\ enc'.curr_granule = enc.curr_granule
      /\ enc'.unrecoverable = enc.unrecoverable
      /\ enc'.decision_delay = enc.decision_delay
      /\ enc'.global_granule_offset = enc.global_granule_offset
      /\ enc'.write_granule = enc.write_granule /\ enc'.draining = enc.draining
      /\ enc'.buffer_start = b /\ enc'.buffer_end = enc.buffer_end
  BY <1>4, <1>5 DEF Encoders
<1>7. /\ call' \in CallStates /\ call'.nb = 0
      /\ call'.op = call.op /\ call'.left = call.left /\ call'.ret = call.ret
  BY <1>1 DEF TypeInv, CallStates
<1>8. ~Heading' /\ ~InFrame' /\ ~Sending'
  BY <1>1 DEF Heading, InFrame, Sending
<1>9. /\ Failed' = Failed /\ Sound' = Sound /\ frame_size' = frame_size
      /\ Ahead' = 0 /\ Ahead = frame_size
  BY <1>2, <1>6, <1>8 DEF Failed, Sound, frame_size, Ahead
<1>10. TypeInv'
  BY <1>1, <1>6, <1>7 DEF TypeInv, Steps
<1>11. ControlInv'
  BY <1>1, <1>2, <1>6, <1>7, <1>8 DEF ControlInv
<1>12. StreamInv'
  <2>1. \A i \in DOMAIN streams : streams[i].granule_offset <= enc.curr_granule
    <3>1. \A i \in DOMAIN streams : /\ streams[i].granule_offset <= enc.curr_granule - frame_size
                                    /\ streams[i].granule_offset \in Int
      BY <1>9, Fields DEF StreamInv
    <3> QED
      BY <3>1, Numbers
  <2>2. \A i \in DOMAIN streams : streams[i].granule_offset <= enc'.curr_granule - Ahead'
    BY <1>6, <1>9, <2>1, Numbers
  <2> QED
    BY <1>1, <1>2, <1>6, <1>7, <1>8, <1>9, <2>2 DEF StreamInv
<1>13. FrameInv'
  <2>1. enc.curr_granule <= streams[1].end_granule + Lookahead
    BY <1>3, Numbers
  <2> QED
    BY <1>1, <1>2, <1>3, <1>4, <1>6, <1>7, <1>8, <1>9, <2>1 DEF FrameInv
<1>14. SamplesInv'
  <2>1. enc'.curr_granule - call'.nb + (enc'.buffer_end - enc'.buffer_start) =
          enc.curr_granule - call.nb + (enc.buffer_end - enc.buffer_start)
    BY <1>3, <1>4, <1>6, <1>7, Numbers
  <2> QED
    BY <1>1, <1>2, <1>6, <1>7, <1>8, <1>9, <2>1 DEF SamplesInv
<1> QED
  BY <1>10, <1>11, <1>12, <1>13, <1>14

\* The last stream ends in a drain only: nobody writes past the samples of the buffer.
LEMMA LastStreamEndsKeeps ==
  ASSUME IInv, LastStreamEnds
  PROVE  IInv'
<1> USE DEF IInv
<1>1. /\ pc = "sent" /\ call.eos /\ Len(streams) = 1 /\ pc' = "encoded"
      /\ streams' = <<>> /\ closed' = Closed
      /\ enc' = enc /\ call' = call /\ UNCHANGED <<starts, marked, faults, ctls>>
  BY DEF LastStreamEnds, bounds
<1>2. InFrame /\ ~Heading /\ ~Sending /\ streams # <<>> /\ 1 \in DOMAIN streams
  BY <1>1, Fields DEF InFrame, Heading, Sending
<1>3. ~Heading' /\ ~InFrame' /\ ~Sending'
  BY <1>1 DEF Heading, InFrame, Sending
<1>4. /\ Failed' = Failed /\ Sound' = Sound /\ frame_size' = frame_size
  BY <1>1 DEF Failed, Sound, frame_size
<1>5. Sound => enc.draining
  <2>1. SUFFICES ASSUME Sound, ~enc.draining PROVE FALSE
    OBVIOUS
  <2>2. /\ enc.curr_granule >= streams[1].end_granule + Lookahead
        /\ enc.buffer_end - enc.buffer_start > frame_size
        /\ call.nb = frame_size
    BY <1>1, <1>2 DEF FrameInv
  <2>3. call.ret # "begin"
    BY <1>1, <1>2 DEF ControlInv
  <2>4. enc.curr_granule - call.nb + (enc.buffer_end - enc.buffer_start) =
          enc.write_granule - call.left
    BY <1>1, <2>1, <2>3 DEF SamplesInv
  <2>5. streams[1].end_granule = enc.write_granule
    BY <1>1, <1>2 DEF StreamInv, Last
  <2> QED
    BY <2>2, <2>4, <2>5, Numbers
<1>6. DOMAIN streams' = {} /\ streams' \in Seq(EncStreams)
  BY <1>1
<1>7. TypeInv'
  BY <1>1, <1>2, <1>6, ClosedType DEF TypeInv, Steps
<1>8. ControlInv'
  BY <1>1, <1>2, <1>3 DEF ControlInv
<1>9. StreamInv'
  BY <1>1, <1>2, <1>3, <1>4, <1>6 DEF StreamInv
<1>10. FrameInv'
  BY <1>1, <1>2, <1>3, <1>4 DEF FrameInv
<1>11. SamplesInv'
  BY <1>1, <1>2, <1>3, <1>4, <1>5 DEF SamplesInv
<1> QED
  BY <1>7, <1>8, <1>9, <1>10, <1>11

LEMMA NextStreamBeginsKeeps ==
  ASSUME IInv, NextStreamBegins
  PROVE  IInv'
<1> USE DEF IInv
<1> DEFINE again == IF enc.chaining_keyframe # 0 THEN frame_size ELSE 0
           p == end_granule48k + frame_size - enc.curr_granule + again
           o == enc.curr_granule - frame_size - again
           t == Tail(streams)
           s == [t[1] EXCEPT !.granule_offset = o]
<1>1. /\ pc = "sent" /\ call.eos /\ Len(streams) > 1 /\ closed' = Closed
      /\ enc' = [enc EXCEPT !.preskip = p]
      /\ streams' = [t EXCEPT ![1] = s]
      /\ pc' = "init" /\ call' = [call EXCEPT !.ret = "chained"]
      /\ UNCHANGED <<starts, marked, faults, ctls>>
  BY DEF NextStreamBegins, bounds, StartInit
<1>2. /\ InFrame /\ ~Heading /\ ~Sending /\ streams # <<>>
      /\ 1 \in DOMAIN streams /\ 2 \in DOMAIN streams
  BY <1>1, Fields DEF InFrame, Heading, Sending
<1>3. /\ enc.global_granule_offset = Lookahead
      /\ call.nb = frame_size /\ enc.buffer_end - enc.buffer_start > frame_size
      /\ frame_size <= LongestFrame /\ frame_size <= enc.curr_granule
      /\ enc.curr_granule - frame_size <= streams[1].end_granule + Lookahead
      /\ streams[1].end_granule \in Nat /\ streams[2].end_granule \in Nat
      /\ streams[1].end_granule <= streams[2].end_granule
      /\ enc.buffer_start <= enc.buffer_end
  <2>1. streams[1].end_granule \in Nat /\ streams[2].end_granule \in Nat
    BY <1>2, Fields
  <2> QED
    BY <1>2, <2>1 DEF FrameInv, StreamInv
<1>4. again \in Nat
  BY Numbers
<1>5. p \in Nat /\ o \in Int /\ o <= enc.curr_granule - frame_size
  BY <1>3, <1>4, Numbers DEF end_granule48k
<1>6. /\ t \in Seq(EncStreams) /\ Len(t) = Len(streams) - 1
      /\ \A j \in 1..Len(t) : t[j] = streams[j + 1]
  BY <1>2, HeadTailProperties DEF TypeInv
<1>7. t[1] = streams[2] /\ streams[2] \in EncStreams
  BY <1>1, <1>2, <1>6, Fields
<1> HIDE DEF again, p, o, t
<1>8. /\ s \in EncStreams /\ s.end_granule = streams[2].end_granule
      /\ s.granule_offset = o /\ s.user = streams[2].user
      /\ s.stream_is_init = streams[2].stream_is_init
  BY <1>5, <1>7 DEF EncStreams
<1> HIDE DEF s
<1>9. /\ streams' \in Seq(EncStreams) /\ Len(streams') = Len(streams) - 1
      /\ DOMAIN streams' = 1..(Len(streams) - 1) /\ streams' # <<>>
      /\ streams'[1] = s
      /\ \A j \in DOMAIN streams' : j # 1 => streams'[j] = streams[j + 1]
  <2>1. 1 \in 1..Len(t) /\ Len(t) \in Nat
    <3>1. Len(streams) \in Nat
      BY Fields
    <3> QED
      BY <1>1, <1>6, <3>1
  <2>2. /\ streams' \in Seq(EncStreams) /\ Len(streams') = Len(t) /\ streams'[1] = s
        /\ \A j \in 1..Len(t) : j # 1 => streams'[j] = t[j]
    <3>1. t \in Seq(EncStreams) /\ s \in EncStreams /\ streams' = [t EXCEPT ![1] = s]
      BY <1>1, <1>6, <1>8
    <3> QED
      BY <2>1, <3>1, ExceptSeq
  <2>3. DOMAIN streams' = 1..Len(streams') /\ streams' # <<>>
    BY <2>1, <2>2, LenProperties, EmptySeq
  <2> QED
    BY <1>6, <2>2, <2>3
<1>10. \A j \in DOMAIN streams' :
         /\ j + 1 \in DOMAIN streams
         /\ streams'[j].end_granule = streams[j + 1].end_granule
         /\ streams'[j].user = streams[j + 1].user
         /\ streams'[j].stream_is_init = streams[j + 1].stream_is_init
  <2>1. SUFFICES ASSUME NEW j \in DOMAIN streams'
                 PROVE  /\ j + 1 \in DOMAIN streams
                        /\ streams'[j].end_granule = streams[j + 1].end_granule
                        /\ streams'[j].user = streams[j + 1].user
                        /\ streams'[j].stream_is_init = streams[j + 1].stream_is_init
    OBVIOUS
  <2>2. j \in 1..(Len(streams) - 1) /\ Len(streams) \in Nat /\ DOMAIN streams = 1..Len(streams)
    BY <1>9, <2>1, Fields
  <2>3. j + 1 \in DOMAIN streams
    BY <2>2
  <2>4. CASE j = 1
    BY <1>8, <1>9, <2>3, <2>4
  <2>5. CASE j # 1
    BY <1>9, <2>1, <2>3, <2>5
  <2> QED
    BY <2>4, <2>5
<1>11. \A j \in DOMAIN streams' : streams'[j].granule_offset <= enc.curr_granule - frame_size
  <2>1. SUFFICES ASSUME NEW j \in DOMAIN streams', j # 1
                 PROVE  streams[j + 1].granule_offset <= enc.curr_granule - frame_size
    BY <1>5, <1>8, <1>9
  <2> QED
    BY <1>2, <1>10 DEF StreamInv, Ahead
<1>12. /\ enc' \in Encoders /\ enc'.request = enc.request
       /\ enc'.curr_granule = enc.curr_granule
       /\ enc'.unrecoverable = enc.unrecoverable
       /\ enc'.decision_delay = enc.decision_delay
       /\ enc'.global_granule_offset = enc.global_granule_offset
       /\ enc'.write_granule = enc.write_granule /\ enc'.draining = enc.draining
       /\ enc'.buffer_start = enc.buffer_start /\ enc'.buffer_end = enc.buffer_end
  <2>1. enc \in Encoders
    BY DEF TypeInv
  <2> QED
    BY <1>1, <1>5, <2>1 DEF Encoders
<1>13. /\ call' \in CallStates /\ call'.nb = call.nb /\ call'.ret = "chained"
       /\ call'.op = call.op /\ call'.left = call.left
  BY <1>1 DEF TypeInv, CallStates
<1>14. Heading' /\ InFrame' /\ ~Sending'
  BY <1>1, <1>13 DEF Heading, InFrame, Sending
<1>15. /\ Failed' = Failed /\ Sound' = Sound /\ frame_size' = frame_size
       /\ Ahead' = frame_size
  BY <1>12, <1>14 DEF Failed, Sound, frame_size, Ahead
<1>16. TypeInv'
  <2>1. closed' \in Seq(Nat) /\ Len(closed') = Len(closed)
    BY <1>1, <1>2, ClosedType
  <2>2. \A j \in DOMAIN streams' : streams'[j].user \in 1..Len(closed')
    BY <1>10, <2>1 DEF TypeInv
  <2> QED
    BY <1>1, <1>9, <1>12, <1>13, <2>1, <2>2 DEF TypeInv, Steps
<1>17. ControlInv'
  BY <1>1, <1>2, <1>12, <1>13, <1>14 DEF ControlInv
<1>18. StreamInv'
  <2>1. Last(streams').end_granule = enc.write_granule
    <3>1. Len(streams') \in DOMAIN streams' /\ Len(streams') + 1 = Len(streams)
      BY <1>1, <1>9, Fields
    <3>2. streams'[Len(streams')].end_granule = streams[Len(streams)].end_granule
      BY <1>10, <3>1
    <3> QED
      BY <1>2, <3>2 DEF StreamInv, Last
  <2>2. \A i, j \in DOMAIN streams' : i < j => streams'[i].end_granule <= streams'[j].end_granule
    <3>1. SUFFICES ASSUME NEW i \in DOMAIN streams', NEW j \in DOMAIN streams', i < j
                   PROVE  streams[i + 1].end_granule <= streams[j + 1].end_granule
      BY <1>10
    <3>2. i + 1 < j + 1
      BY <1>9, <3>1, Fields
    <3> QED
      BY <1>10, <3>2 DEF StreamInv
  <2>3. \A i \in DOMAIN streams' : ~streams'[i].stream_is_init
    <3>1. SUFFICES ASSUME NEW i \in DOMAIN streams' PROVE ~streams[i + 1].stream_is_init
      BY <1>10
    <3>2. i + 1 > 1
      BY <1>9, Fields
    <3> QED
      BY <1>10, <3>2 DEF StreamInv
  <2>4. 1 \in DOMAIN streams'
    BY <1>1, <1>9, Fields
  <2> QED
    BY <1>1, <1>3, <1>9, <1>11, <1>12, <1>14, <1>15, <2>1, <2>2, <2>3, <2>4 DEF StreamInv
<1>19. FrameInv'
  <2>1. enc.curr_granule - frame_size <= streams'[1].end_granule + Lookahead
    <3>1. streams'[1].end_granule = streams[2].end_granule
      BY <1>8, <1>9
    <3>2. enc.curr_granule - frame_size <= streams[2].end_granule + Lookahead
      BY <1>3, Numbers
    <3> QED
      BY <3>1, <3>2
  <2> QED
    BY <1>1, <1>3, <1>12, <1>13, <1>14, <1>15, <2>1 DEF FrameInv
<1>20. SamplesInv'
  BY <1>1, <1>2, <1>9, <1>12, <1>13, <1>14, <1>15 DEF SamplesInv, ControlInv
<1> QED
  BY <1>16, <1>17, <1>18, <1>19, <1>20

LEMMA ChainedKeeps ==
  ASSUME IInv, Chained
  PROVE  IInv'
<1> USE DEF IInv
<1> DEFINE granule == enc.curr_granule - streams[1].granule_offset - frame_size
<1>1. /\ pc = "chained" /\ enc' = enc /\ streams' = streams
      /\ UNCHANGED <<closed, starts, marked, faults, ctls>>
      /\ \/ Commits(Packet("audio", enc.chaining_keyframe), granule, FALSE, FALSE, FALSE,
                    "packet", call)
         \/ pc' = "packet" /\ call' = call
  BY DEF Chained, bounds
<1>2. InFrame /\ ~Heading /\ ~Sending /\ streams # <<>> /\ 1 \in DOMAIN streams
  <2>1. InFrame /\ ~Heading /\ ~Sending
    BY <1>1 DEF InFrame, Heading, Sending
  <2>2. streams # <<>>
    BY <2>1 DEF StreamInv
  <2> QED
    BY <2>1, <2>2, Fields
<1>3. granule \in Nat
  <2>1. /\ streams[1].granule_offset \in Int
        /\ streams[1].granule_offset <= enc.curr_granule - frame_size
    BY <1>2, Fields DEF StreamInv, Ahead
  <2> QED
    BY <2>1, Numbers
<1> HIDE DEF granule
<1>4. Packet("audio", enc.chaining_keyframe) \in Data
  BY PacketIsData DEF TypeInv, Encoders
<1>5. /\ pc' \in {"commit", "packet"} /\ call' \in CallStates
      /\ call'.op = call.op /\ call'.left = call.left /\ call'.ret = call.ret
      /\ call'.nb = call.nb
      /\ pc' = "commit" => call'.then = "packet"
  <2>1. call \in CallStates
    BY DEF TypeInv
  <2>2. CASE Commits(Packet("audio", enc.chaining_keyframe), granule, FALSE, FALSE, FALSE,
                     "packet", call)
    BY <1>3, <1>4, <2>1, <2>2, CommitsCall
  <2>3. CASE pc' = "packet" /\ call' = call
    BY <2>1, <2>3
  <2> QED
    BY <1>1, <2>2, <2>3
<1>6. ~Heading' /\ InFrame' /\ (Sending' => call'.then = "packet")
  BY <1>5 DEF Heading, InFrame, Sending
<1>7. /\ Failed' = Failed /\ Sound' = Sound /\ frame_size' = frame_size
      /\ Ahead' = Ahead
  BY <1>1, <1>2, <1>6 DEF Failed, Sound, frame_size, Ahead
<1>8. TypeInv'
  BY <1>1, <1>5 DEF TypeInv, Steps
<1>9. ControlInv'
  BY <1>1, <1>2, <1>5, <1>6 DEF ControlInv
<1>10. StreamInv'
  BY <1>1, <1>2, <1>5, <1>6, <1>7 DEF StreamInv
<1>11. FrameInv'
  BY <1>1, <1>2, <1>5, <1>6, <1>7 DEF FrameInv
<1>12. SamplesInv'
  BY <1>1, <1>2, <1>5, <1>6, <1>7 DEF SamplesInv
<1> QED
  BY <1>8, <1>9, <1>10, <1>11, <1>12

-----------------------------------------------------------------------------
(* Between two calls, and how a call begins *)

\* Nothing is under way between two calls, and a drain that succeeded left no stream.
LEMMA BetweenCalls ==
  ASSUME IInv, pc \in {"idle", "pull", "destroy", "gone"}
  PROVE  /\ ~Heading /\ ~InFrame /\ ~Sending
         /\ call.op = "none" /\ call.left = 0 /\ call.ret # "begin"
         /\ Sound /\ streams # <<>> =>
              /\ ~enc.draining /\ call.nb = 0
              /\ enc.curr_granule + (enc.buffer_end - enc.buffer_start) = enc.write_granule
              /\ enc.curr_granule <= streams[1].end_granule + Lookahead
              /\ pc \in {"idle", "pull"} =>
                   enc.buffer_end - enc.buffer_start <= LongestFrame + MaxLookahead
<1> USE DEF IInv
<1>1. ~Heading /\ ~Sending
  BY DEF Heading, Sending
<1>2. call.op = "none" /\ call.left = 0 /\ call.ret # "begin"
  BY <1>1 DEF ControlInv
<1>3. ~InFrame
  BY <1>2 DEF ControlInv
<1>4. ASSUME Sound, streams # <<>>
      PROVE  /\ ~enc.draining /\ call.nb = 0
             /\ enc.curr_granule + (enc.buffer_end - enc.buffer_start) = enc.write_granule
             /\ enc.curr_granule <= streams[1].end_granule + Lookahead
             /\ pc \in {"idle", "pull"} =>
                  enc.buffer_end - enc.buffer_start <= LongestFrame + MaxLookahead
  <2>1. ~enc.draining
    BY <1>3, <1>4 DEF SamplesInv
  <2>2. call.nb = 0 /\ enc.curr_granule <= streams[1].end_granule + Lookahead
    BY <1>3, <1>4 DEF FrameInv
  <2>3. enc.curr_granule - call.nb + (enc.buffer_end - enc.buffer_start) =
          enc.write_granule - call.left
    BY <1>2, <1>4, <2>1 DEF SamplesInv
  <2>4. enc.curr_granule + (enc.buffer_end - enc.buffer_start) = enc.write_granule
    BY <1>2, <2>2, <2>3, Numbers
  <2>5. pc \in {"idle", "pull"} =>
          enc.buffer_end - enc.buffer_start <= LongestFrame + MaxLookahead
    BY <1>4 DEF SamplesInv
  <2> QED
    BY <2>1, <2>2, <2>4, <2>5
<1> QED
  BY <1>1, <1>2, <1>3, <1>4

LEMMA NoCallFields ==
  /\ NoCall \in CallStates /\ NoCall.op = "none" /\ NoCall.left = 0 /\ NoCall.nb = 0
  /\ NoCall.ret = "idle"
BY DEF NoCall, CallStates, Data

\* A call begins, with the headers of the first stream if they are still to be made.
CallStart ==
  /\ pc = "idle" /\ ~Failed /\ streams # <<>>
  /\ streams' \in Seq(EncStreams) /\ Len(streams') = Len(streams)
  /\ \A i \in DOMAIN streams : /\ streams'[i].user = streams[i].user
                               /\ streams'[i].end_granule = streams[i].end_granule
                               /\ streams'[i].granule_offset = streams[i].granule_offset
                               /\ streams'[i].stream_is_init = streams[i].stream_is_init
  /\ call' \in CallStates /\ call'.nb = 0 /\ (call'.op # "write" => call'.left = 0)
  /\ \/ /\ streams[1].stream_is_init /\ call'.ret = "idle"
        /\ (pc' = "begin" /\ call'.op = "write") \/ (pc' = "pad" /\ call'.op \in Drains)
     \/ /\ ~streams[1].stream_is_init /\ pc' = "init"
        /\ \/ call'.ret = "begin" /\ call'.op = "write"
           \/ call'.ret = "pad" /\ call'.op \in Drains
           \/ call'.ret = "idle" /\ call'.op = "none"
  /\ UNCHANGED <<enc, closed, starts, marked, faults, ctls>>

LEMMA CallStartKeeps ==
  ASSUME IInv, CallStart
  PROVE  IInv'
<1> USE DEF IInv
<1>1. /\ pc = "idle" /\ ~Failed /\ streams # <<>> /\ enc' = enc
      /\ streams' \in Seq(EncStreams) /\ Len(streams') = Len(streams)
      /\ call' \in CallStates /\ call'.nb = 0 /\ (call'.op # "write" => call'.left = 0)
      /\ UNCHANGED <<closed, starts, marked, faults, ctls>>
  BY DEF CallStart
<1>2. /\ ~Heading /\ ~InFrame /\ ~enc.draining /\ Sound /\ Sound' /\ ~Failed'
      /\ enc.curr_granule + (enc.buffer_end - enc.buffer_start) = enc.write_granule
      /\ enc.curr_granule <= streams[1].end_granule + Lookahead
      /\ enc.buffer_end - enc.buffer_start <= LongestFrame + MaxLookahead
  BY <1>1, BetweenCalls DEF Sound, Failed
<1>3. /\ pc' \in {"begin", "pad", "init"}
      /\ pc' = "begin" => call'.op = "write" /\ call'.ret = "idle"
      /\ pc' = "pad" => call'.op \in Drains /\ call'.ret = "idle"
      /\ pc' # "init" => streams[1].stream_is_init
      /\ pc' = "init" =>
           /\ ~streams[1].stream_is_init
           /\ \/ call'.ret = "begin" /\ call'.op = "write"
              \/ call'.ret = "pad" /\ call'.op \in Drains
              \/ call'.ret = "idle" /\ call'.op = "none"
  BY DEF CallStart
<1>4. ~InFrame' /\ ~Sending' /\ (Heading' <=> pc' = "init")
  BY <1>3 DEF Heading, InFrame, Sending
<1>5. frame_size' = frame_size /\ Ahead' = 0 /\ Ahead = 0
  BY <1>1, <1>2, <1>4 DEF frame_size, Ahead
<1>6. DOMAIN streams' = DOMAIN streams /\ streams' # <<>> /\ 1 \in DOMAIN streams
      /\ Len(streams) \in DOMAIN streams
  BY <1>1, LenProperties, EmptySeq, Fields
<1>7. \A i \in DOMAIN streams : /\ streams'[i].user = streams[i].user
                                /\ streams'[i].end_granule = streams[i].end_granule
                                /\ streams'[i].granule_offset = streams[i].granule_offset
                                /\ streams'[i].stream_is_init = streams[i].stream_is_init
  BY DEF CallStart
<1>8. TypeInv'
  BY <1>1, <1>3, <1>6, <1>7 DEF TypeInv, Steps
<1>9. ControlInv'
  BY <1>1, <1>3, <1>4 DEF ControlInv, Failed, Drains
<1>10. StreamInv'
  <2>1. Last(streams').end_granule = enc'.write_granule
    BY <1>1, <1>6, <1>7 DEF StreamInv, Last
  <2>2. \A i \in DOMAIN streams' : streams'[i].granule_offset <= enc'.curr_granule - Ahead'
    BY <1>1, <1>5, <1>6, <1>7 DEF StreamInv
  <2>3. streams'[1].stream_is_init => enc'.global_granule_offset = Lookahead
    BY <1>1, <1>6, <1>7 DEF StreamInv
  <2> QED
    BY <1>1, <1>3, <1>4, <1>6, <1>7, <2>1, <2>2, <2>3 DEF StreamInv
<1>11. FrameInv'
  BY <1>1, <1>2, <1>3, <1>4, <1>5, <1>6, <1>7 DEF FrameInv
<1>12. SamplesInv'
  <2>1. enc'.curr_granule - call'.nb + (enc'.buffer_end - enc'.buffer_start) =
          enc'.write_granule
          - (IF pc' = "begin" \/ call'.ret = "begin" THEN 0 ELSE call'.left)
    <3>1. pc' = "begin" \/ call'.ret = "begin" \/ call'.left = 0
      BY <1>1, <1>3 DEF Drains
    <3>2. enc.curr_granule - 0 + (enc.buffer_end - enc.buffer_start) = enc.write_granule - 0
      BY <1>2, Numbers
    <3> QED
      BY <1>1, <3>1, <3>2
  <2> QED
    BY <1>1, <1>2, <1>3, <1>4, <1>6, <2>1 DEF SamplesInv
<1> QED
  BY <1>8, <1>9, <1>10, <1>11, <1>12

LEMMA CallsStartKeep ==
  ASSUME IInv,
         \/ \E samples \in Lengths : Write(samples)
         \/ \E op \in {"drain", "finish"} : Drain(op)
         \/ FlushHeader
  PROVE  IInv'
<1> USE DEF IInv
<1>1. ASSUME NEW samples \in Lengths, Write(samples) PROVE CallStart
  <2> DEFINE n == Len(streams)
             s == [streams[n] EXCEPT !.header_is_frozen = TRUE]
             c == [NoCall EXCEPT !.op = "write", !.left = samples]
  <2>1. /\ pc = "idle" /\ ~Failed /\ streams # <<>>
        /\ streams' = [streams EXCEPT ![n] = s]
        /\ UNCHANGED <<enc, closed, starts, marked, faults, ctls>>
        /\ IF streams[1].stream_is_init
           THEN pc' = "begin" /\ call' = c
           ELSE pc' = "init" /\ call' = [c EXCEPT !.ret = "begin"]
    BY <1>1 DEF Write, bounds, StartInit
  <2>2. n \in DOMAIN streams /\ streams[n] \in EncStreams /\ streams \in Seq(EncStreams)
    BY <2>1, Fields DEF TypeInv
  <2>3. /\ s \in EncStreams /\ s.user = streams[n].user
        /\ s.end_granule = streams[n].end_granule /\ s.granule_offset = streams[n].granule_offset
        /\ s.stream_is_init = streams[n].stream_is_init
    BY <2>2 DEF EncStreams
  <2> HIDE DEF s
  <2>4. /\ streams' \in Seq(EncStreams) /\ Len(streams') = Len(streams)
        /\ streams'[n] = s
        /\ \A i \in DOMAIN streams : i # n => streams'[i] = streams[i]
    BY <2>1, <2>2, <2>3, ExceptSeq
  <2>5. samples \in Nat
    BY NumbersAssumption
  <2>6. /\ call' \in CallStates /\ call'.nb = 0 /\ call'.op = "write"
        /\ call'.ret = IF streams[1].stream_is_init THEN "idle" ELSE "begin"
    <3>1. c \in CallStates /\ c.nb = 0 /\ c.op = "write" /\ c.ret = "idle"
      BY <2>5, NoCallFields DEF CallStates
    <3> HIDE DEF c
    <3>2. call' \in {c, [c EXCEPT !.ret = "begin"]}
      BY <2>1
    <3> QED
      BY <2>1, <3>1, <3>2 DEF CallStates
  <2> QED
    BY <2>1, <2>2, <2>3, <2>4, <2>6 DEF CallStart
<1>2. ASSUME NEW op \in {"drain", "finish"}, Drain(op) PROVE CallStart
  <2> DEFINE c == [NoCall EXCEPT !.op = op]
  <2>1. /\ pc = "idle" /\ ~Failed /\ streams # <<>> /\ streams' = streams
        /\ UNCHANGED <<enc, closed, starts, marked, faults, ctls>>
        /\ IF streams[1].stream_is_init
           THEN pc' = "pad" /\ call' = c
           ELSE pc' = "init" /\ call' = [c EXCEPT !.ret = "pad"]
    BY <1>2 DEF Drain, bounds, StartInit
  <2>2. /\ call' \in CallStates /\ call'.nb = 0 /\ call'.op = op /\ call'.left = 0
        /\ call'.ret = IF streams[1].stream_is_init THEN "idle" ELSE "pad"
    <3>1. c \in CallStates /\ c.nb = 0 /\ c.op = op /\ c.ret = "idle" /\ c.left = 0
      BY NoCallFields DEF CallStates
    <3> HIDE DEF c
    <3>2. call' \in {c, [c EXCEPT !.ret = "pad"]}
      BY <2>1
    <3> QED
      BY <2>1, <3>1, <3>2 DEF CallStates
  <2> QED
    BY <1>2, <2>1, <2>2 DEF CallStart, Drains, TypeInv
<1>3. ASSUME FlushHeader PROVE CallStart
  <2>1. /\ pc = "idle" /\ ~Failed /\ streams # <<>> /\ streams' = streams
        /\ ~streams[1].stream_is_init
        /\ UNCHANGED <<enc, closed, starts, marked, faults, ctls>>
        /\ pc' = "init" /\ call' = [NoCall EXCEPT !.ret = "idle"]
    BY <1>3 DEF FlushHeader, CanFlushHeader, bounds, StartInit
  <2>2. /\ call' \in CallStates /\ call'.nb = 0 /\ call'.op = "none" /\ call'.left = 0
        /\ call'.ret = "idle"
    BY <2>1, NoCallFields DEF CallStates
  <2> QED
    BY <2>1, <2>2 DEF CallStart, TypeInv
<1> QED
  BY <1>1, <1>2, <1>3, CallStartKeeps

LEMMA DeferredInitKeeps ==
  ASSUME IInv, DeferredInit
  PROVE  IInv'
<1> USE DEF IInv
<1>1. /\ pc = "idle" /\ pc' = pc /\ enc.unrecoverable = "TOO_LATE"
      /\ enc' = [enc EXCEPT !.unrecoverable = "OK"] /\ enc \in Encoders
      /\ streams' = streams /\ call' = call
      /\ UNCHANGED <<closed, starts, marked, faults, ctls>>
  BY DEF DeferredInit, bounds, TypeInv
<1>2. /\ enc' \in Encoders /\ enc'.unrecoverable = "OK"
      /\ enc'.request = enc.request /\ enc'.decision_delay = enc.decision_delay
      /\ enc'.global_granule_offset = enc.global_granule_offset
      /\ enc'.curr_granule = enc.curr_granule /\ enc'.write_granule = enc.write_granule
      /\ enc'.draining = enc.draining
      /\ enc'.buffer_start = enc.buffer_start /\ enc'.buffer_end = enc.buffer_end
  BY <1>1 DEF Encoders, Codes
<1>3. /\ ~Heading /\ ~InFrame /\ ~Sending /\ call.op = "none"
      /\ Heading' = Heading /\ InFrame' = InFrame /\ Sending' = Sending
  BY <1>1, BetweenCalls DEF Heading, InFrame, Sending
<1>4. Sound /\ Sound' /\ frame_size' = frame_size /\ Ahead' = Ahead
  BY <1>1, <1>2, <1>3 DEF Sound, frame_size, Ahead
<1>5. TypeInv'
  BY <1>1, <1>2 DEF TypeInv
<1>6. ControlInv'
  BY <1>1, <1>2, <1>3 DEF ControlInv
<1>7. StreamInv'
  BY <1>1, <1>2, <1>3, <1>4 DEF StreamInv
<1>8. FrameInv'
  BY <1>1, <1>2, <1>3, <1>4 DEF FrameInv
<1>9. SamplesInv'
  BY <1>1, <1>2, <1>3, <1>4 DEF SamplesInv
<1> QED
  BY <1>5, <1>6, <1>7, <1>8, <1>9

\* A call is left, goes on, or does nothing.
LEMMA ReturnKeeps ==
  ASSUME IInv, WriteGoesOn \/ Return
  PROVE  IInv'
<1> USE DEF IInv
<1>1. /\ pc = "encoded" /\ enc' = enc /\ streams' = streams
      /\ UNCHANGED <<closed, starts, marked, faults, ctls>>
      /\ \/ pc' = "fill" /\ call' = call /\ call.op = "write" /\ ~Failed
         \/ /\ Failed \/ call.left = 0
            /\ call' = NoCall
            /\ pc' = CASE call.op = "finish" -> "destroy"
                       [] call.op = "drain" /\ ~Failed /\ streams # <<>> -> "abort"
                       [] OTHER -> "idle"
  BY DEF WriteGoesOn, Return, bounds
<1>2. ~Heading /\ ~InFrame /\ ~Sending /\ call.op # "none" /\ Ahead = 0
  <2>1. ~Heading /\ ~Sending
    BY <1>1 DEF Heading, Sending
  <2>2. ~InFrame
    BY <1>1, <2>1 DEF InFrame
  <2> QED
    BY <1>1, <2>1, <2>2 DEF ControlInv, Ahead
<1>3. Sound /\ call.op \in Drains => streams = <<>> /\ enc.draining
  BY <1>1, <1>2 DEF SamplesInv
<1>4. call.op # "finish" => streams = <<>> \/ call.op = "write" \/ Failed
  <2>1. call.op \in {"write", "drain", "finish"}
    BY <1>2 DEF TypeInv, CallStates
  <2> QED
    BY <1>3, <2>1 DEF Drains, Failed, Sound
<1>5. call.op = "drain" => Failed \/ streams = <<>>
  BY <1>3 DEF Drains, Failed, Sound
<1>6. /\ frame_size' = frame_size /\ Failed' = Failed /\ Sound' = Sound
  BY <1>1 DEF frame_size, Failed, Sound
<1>7. CASE pc' = "fill" /\ call' = call /\ call.op = "write" /\ ~Failed
  <2>1. ~Heading' /\ ~InFrame' /\ ~Sending' /\ Ahead' = 0
    BY <1>2, <1>7 DEF Heading, InFrame, Sending, Ahead
  <2>2. Sound /\ ~enc.draining /\ streams # <<>>
    BY <1>7 DEF Sound, Failed, SamplesInv
  <2>3. TypeInv'
    BY <1>1, <1>7 DEF TypeInv, Steps
  <2>4. ControlInv'
    BY <1>1, <1>2, <1>7, <2>1 DEF ControlInv, Failed
  <2>5. StreamInv'
    BY <1>1, <1>2, <1>6, <1>7, <2>1, <2>2 DEF StreamInv
  <2>6. FrameInv'
    BY <1>1, <1>2, <1>6, <1>7, <2>1 DEF FrameInv
  <2>7. SamplesInv'
    BY <1>1, <1>2, <1>6, <1>7, <2>1, <2>2 DEF SamplesInv, Drains
  <2> QED
    BY <2>3, <2>4, <2>5, <2>6, <2>7
<1>8. CASE /\ Failed \/ call.left = 0
           /\ call' = NoCall /\ pc' \in {"idle", "destroy"}
  <2>1. ~Heading' /\ ~InFrame' /\ ~Sending' /\ Ahead' = 0
    BY <1>8, NoCallFields DEF Heading, InFrame, Sending, Ahead
  <2>2. /\ call' \in CallStates /\ call'.op = "none" /\ call'.left = 0
        /\ call'.nb = 0 /\ call'.ret = "idle"
    BY <1>8, NoCallFields
  <2>3. TypeInv'
    BY <1>1, <1>8, <2>2 DEF TypeInv, Steps
  <2>4. ControlInv'
    BY <1>1, <1>8, <2>1, <2>2 DEF ControlInv, Drains
  <2>5. StreamInv'
    BY <1>1, <1>2, <1>6, <1>8, <2>1, <2>2 DEF StreamInv
  <2>6. FrameInv'
    BY <1>1, <1>2, <1>6, <1>8, <2>1, <2>2 DEF FrameInv
  <2>7. SamplesInv'
    <3>1. Sound /\ ~enc.draining => call.left = 0 /\ call.nb = 0 /\ call.op = "write"
                                    /\ streams # <<>>
      <4>1. ASSUME Sound, ~enc.draining PROVE streams # <<>> /\ call.op = "write"
        <5>1. streams # <<>>
          BY <4>1 DEF SamplesInv
        <5>2. call.op \in {"write", "drain", "finish"}
          BY <1>2 DEF TypeInv, CallStates
        <5> QED
          BY <1>3, <4>1, <5>1, <5>2 DEF Drains
      <4>2. ASSUME Sound, ~enc.draining PROVE ~Failed
        BY <1>1, <4>2 DEF Sound, Failed, ControlInv
      <4> QED
        BY <1>2, <1>8, <4>1, <4>2 DEF FrameInv
    <3>2. Sound /\ enc.draining => streams = <<>>
      BY <1>1, <1>2 DEF SamplesInv
    <3> QED
      BY <1>1, <1>2, <1>6, <1>8, <2>1, <2>2, <3>1, <3>2 DEF SamplesInv, Drains, ControlInv
  <2> QED
    BY <2>3, <2>4, <2>5, <2>6, <2>7
<1> QED
  BY <1>1, <1>5, <1>7, <1>8

\* What moves between two calls and leaves the encoder alone.
QuietMove ==
  /\ \/ pc \in {"idle", "pull"} /\ pc' \in {"idle", "destroy"}
     \/ pc = "idle" /\ pc' = "pull" /\ ~Failed
     \/ pc = "destroy" /\ pc' = "gone"
     \/ pc = "idle" /\ pc' \in Misused /\ ~Failed
  /\ closed' \in Seq(Nat) /\ Len(closed') = Len(closed)
  /\ UNCHANGED <<enc, streams, call, starts, marked, faults, ctls>>

LEMMA QuietMoveKeeps ==
  ASSUME IInv, QuietMove
  PROVE  IInv'
<1> USE DEF IInv
<1>1. /\ pc \in {"idle", "pull", "destroy"}
      /\ pc' \in {"idle", "pull", "destroy", "gone", "twice", "nopacker", "nostream"}
      /\ pc' \in {"idle", "pull"} => pc \in {"idle", "pull"}
      /\ pc' \in {"pull", "twice", "nopacker", "nostream"} => ~Failed
      /\ closed' \in Seq(Nat) /\ Len(closed') = Len(closed)
      /\ enc' = enc /\ streams' = streams /\ call' = call
      /\ UNCHANGED <<starts, marked, faults, ctls>>
  BY DEF QuietMove, Misused
<1>2. /\ ~Heading /\ ~InFrame /\ ~Sending
      /\ call.op = "none" /\ call.left = 0 /\ call.ret # "begin"
      /\ Sound /\ streams # <<>> => ~enc.draining
  BY <1>1, BetweenCalls
<1>3. ~Heading' /\ ~InFrame' /\ ~Sending' /\ Ahead' = 0 /\ Ahead = 0
  BY <1>1, <1>2 DEF Heading, InFrame, Sending, Ahead
<1>4. frame_size' = frame_size /\ Sound' = Sound /\ Failed' = Failed
  BY <1>1 DEF frame_size, Sound, Failed
<1>5. TypeInv'
  BY <1>1 DEF TypeInv, Steps
<1>6. ControlInv'
  BY <1>1, <1>2, <1>3 DEF ControlInv, Failed, Drains
<1>7. StreamInv'
  BY <1>1, <1>2, <1>3, <1>4 DEF StreamInv
<1>8. FrameInv'
  BY <1>1, <1>2, <1>3, <1>4 DEF FrameInv
<1>9. SamplesInv'
  BY <1>1, <1>2, <1>3, <1>4 DEF SamplesInv, Drains
<1> QED
  BY <1>5, <1>6, <1>7, <1>8, <1>9

LEMMA QuietMoves ==
  ASSUME IInv,
         \/ FinishTooLate \/ Destroy \/ PullPage \/ Misuse
         \/ \E flush \in BOOLEAN : GetPage(flush)
  PROVE  IInv'
<1> USE DEF IInv
<1>4. CASE Misuse
  BY <1>4, QuietMoveKeeps DEF Misuse, FlushHeaderTwice, CanFlushHeader, GetPageTooSoon,
     CallAfterDrain, Misused, QuietMove, bounds, TypeInv
<1>1. CASE FinishTooLate \/ PullPage
  BY <1>1, QuietMoveKeeps DEF FinishTooLate, PullPage, QuietMove, bounds, TypeInv
<1>2. CASE \E flush \in BOOLEAN : GetPage(flush)
  <2>1. PICK flush \in BOOLEAN : GetPage(flush)
    BY <1>2
  <2>2. /\ pc = "idle" /\ ~Failed /\ pc' \in {"idle", "pull"}
        /\ UNCHANGED <<enc, streams, call, closed, starts, marked, faults, ctls>>
    BY <2>1 DEF GetPage, bounds
  <2> QED
    BY <2>2, QuietMoveKeeps DEF QuietMove, TypeInv
<1>3. CASE Destroy
  <2> DEFINE left(u) == {i \in DOMAIN streams : streams[i].user = u /\ MustClose(streams[i])}
  <2>1. /\ closed' = [u \in DOMAIN closed |-> closed[u] + Cardinality(left(u))]
        /\ pc = "destroy" /\ pc' = "gone"
        /\ UNCHANGED <<enc, streams, call, starts, marked, faults, ctls>>
    BY <1>3 DEF Destroy, bounds
  <2>2. ASSUME NEW u \in DOMAIN closed PROVE closed[u] + Cardinality(left(u)) \in Nat
    <3>1. IsFiniteSet(1..Len(streams)) /\ left(u) \subseteq 1..Len(streams)
      BY Fields, FS_Interval
    <3>2. Cardinality(left(u)) \in Nat
      BY <3>1, FS_Subset, FS_CardinalityType
    <3>3. closed[u] \in Nat
      BY ElementOfSeq DEF TypeInv
    <3> QED
      BY <3>2, <3>3
  <2> HIDE DEF left
  <2>3. DOMAIN closed = 1..Len(closed) /\ Len(closed) \in Nat
    BY LenProperties DEF TypeInv
  <2>4. closed' \in Seq(Nat) /\ Len(closed') = Len(closed)
    BY <2>1, <2>2, <2>3, IsASeq, LenProperties
  <2> QED
    BY <2>1, <2>4, QuietMoveKeeps DEF QuietMove
<1> QED
  BY <1>1, <1>2, <1>3, <1>4

\* Settings change between calls; the longest frame still fits.
LEMMA CtlKeeps ==
  ASSUME IInv,
         \/ \E request \in Requests : SetFrameDuration(request)
         \/ \E value \in DecisionDelays : SetDecisionDelay(value)
  PROVE  IInv'
<1> USE DEF IInv
<1>1. PICK r \in Requests \cup {enc.request}, d \in Int :
        /\ d = enc.decision_delay \/ \E value \in DecisionDelays : d = Lesser(value, MaxLookahead)
        /\ Ctl([enc EXCEPT !.request = r, !.decision_delay = d])
  <2>1. enc \in Encoders /\ enc.decision_delay \in Int
    <3>1. enc.decision_delay \in Nat
      BY Numbers
    <3> QED
      BY <3>1 DEF TypeInv
  <2>2. CASE \E request \in Requests : SetFrameDuration(request)
    <3>1. PICK request \in Requests : SetFrameDuration(request)
      BY <2>2
    <3>2. [enc EXCEPT !.request = request] =
            [enc EXCEPT !.request = request, !.decision_delay = enc.decision_delay]
      BY <2>1 DEF Encoders
    <3> QED
      BY <2>1, <3>1, <3>2 DEF SetFrameDuration
  <2>3. CASE \E value \in DecisionDelays : SetDecisionDelay(value)
    <3>1. PICK value \in DecisionDelays : SetDecisionDelay(value)
      BY <2>3
    <3>2. [enc EXCEPT !.decision_delay = Lesser(value, MaxLookahead)] =
            [enc EXCEPT !.request = enc.request, !.decision_delay = Lesser(value, MaxLookahead)]
      BY <2>1 DEF Encoders
    <3>3. Lesser(value, MaxLookahead) \in Int
      BY BufferAssumption, Room DEF Lesser
    <3> QED
      BY <2>1, <3>1, <3>2, <3>3 DEF SetDecisionDelay
  <2> QED
    BY <2>2, <2>3
<1>2. d \in 0..MaxLookahead
  <2>1. enc.decision_delay \in 0..MaxLookahead
    BY DEF TypeInv, Encoders
  <2>2. \A value \in DecisionDelays : Lesser(value, MaxLookahead) \in 0..MaxLookahead
    BY BufferAssumption, Room DEF Lesser
  <2> QED
    BY <1>1, <2>1, <2>2
<1>3. r \in 4..9 /\ compute_frame_samples(r) <= LongestFrame
  BY LongestIsLongest, BufferAssumption, Numbers DEF FrameInv, frame_size
<1>4. /\ pc = "idle" /\ ~Failed /\ ctls > 0 /\ pc' = pc
      /\ enc' = [enc EXCEPT !.request = r, !.decision_delay = d] /\ enc \in Encoders
      /\ ctls' = ctls - 1 /\ streams' = streams /\ call' = call
      /\ UNCHANGED <<closed, starts, marked, faults>>
  BY <1>1 DEF Ctl, TypeInv
<1>5. /\ enc' \in Encoders /\ enc'.request = r /\ enc'.decision_delay = d
      /\ enc'.unrecoverable = enc.unrecoverable
      /\ enc'.global_granule_offset = enc.global_granule_offset
      /\ enc'.curr_granule = enc.curr_granule /\ enc'.write_granule = enc.write_granule
      /\ enc'.draining = enc.draining
      /\ enc'.buffer_start = enc.buffer_start /\ enc'.buffer_end = enc.buffer_end
  BY <1>2, <1>3, <1>4 DEF Encoders
<1>6. ctls' \in Nat
  BY <1>4 DEF TypeInv
<1>7. /\ ~Heading /\ ~InFrame /\ ~Sending /\ call.op = "none"
      /\ Heading' = Heading /\ InFrame' = InFrame /\ Sending' = Sending
      /\ Sound /\ streams # <<>> => ~enc.draining
  BY <1>4, BetweenCalls DEF Heading, InFrame, Sending
<1>8. Sound' = Sound /\ Failed' = Failed /\ Ahead' = 0 /\ Ahead = 0
      /\ frame_size' = compute_frame_samples(r)
  BY <1>5, <1>7 DEF Sound, Failed, Ahead, frame_size
<1>9. TypeInv'
  BY <1>4, <1>5, <1>6 DEF TypeInv
<1>10. ControlInv'
  BY <1>4, <1>5, <1>7 DEF ControlInv
<1>11. StreamInv'
  BY <1>4, <1>5, <1>7, <1>8 DEF StreamInv
<1>12. FrameInv'
  BY <1>3, <1>4, <1>5, <1>7, <1>8 DEF FrameInv
<1>13. SamplesInv'
  BY <1>4, <1>5, <1>7, <1>8 DEF SamplesInv
<1> QED
  BY <1>9, <1>10, <1>11, <1>12, <1>13

LEMMA OneMore ==
  ASSUME NEW S, NEW s \in Seq(S), NEW e \in S
  PROVE  /\ Append(s, e) \in Seq(S) /\ Append(s, e) # <<>>
         /\ Len(Append(s, e)) = Len(s) + 1
         /\ \A i \in 1..Len(s) : Append(s, e)[i] = s[i]
         /\ Append(s, e)[Len(s) + 1] = e
BY AppendProperties

\* Streams but for who closes their files.
AsLong(s) ==
  /\ s \in Seq(EncStreams) /\ Len(s) = Len(streams)
  /\ \A i \in DOMAIN streams : /\ s[i].user = streams[i].user
                               /\ s[i].end_granule = streams[i].end_granule
                               /\ s[i].granule_offset = streams[i].granule_offset
                               /\ s[i].stream_is_init = streams[i].stream_is_init

\* Between two calls a stream is added to the list, which begins and ends where
\* writing has come to, or the one before it is changed and none is added.
Grows(s, u) ==
  /\ pc = "idle" /\ streams # <<>> /\ AsLong(s)
  /\ closed' \in Seq(Nat) /\ Len(closed) <= Len(closed') /\ starts' \in Seq(Nat)
  /\ u \in 1..Len(closed')
  /\ streams' = s \/ streams' = Append(s, Stream(u, enc.write_granule))
  /\ marked' \subseteq 1..Len(closed') /\ faults' \in Nat
  /\ UNCHANGED <<enc, pc, call, ctls>>

LEMMA ListGrows ==
  ASSUME IInv, NEW s, NEW u, Grows(s, u)
  PROVE  IInv'
<1> USE DEF IInv
<1> DEFINE n == Len(streams)
           new == Stream(u, enc.write_granule)
<1>a. /\ pc = "idle" /\ streams # <<>> /\ AsLong(s)
      /\ closed' \in Seq(Nat) /\ Len(closed) <= Len(closed') /\ starts' \in Seq(Nat)
      /\ u \in 1..Len(closed')
      /\ marked' \subseteq 1..Len(closed') /\ faults' \in Nat
      /\ UNCHANGED <<enc, pc, call, ctls>>
  BY DEF Grows
<1>b. streams' = s \/ streams' = Append(s, new)
  BY DEF Grows
<1>1. /\ n \in Nat /\ n > 0 /\ DOMAIN streams = 1..n /\ DOMAIN s = 1..n
      /\ s \in Seq(EncStreams) /\ Len(s) = n /\ Len(closed) \in Nat /\ Len(closed') \in Nat
  BY <1>a, Fields, LenProperties DEF AsLong, TypeInv
<1>2. \A i \in DOMAIN streams : /\ s[i].user = streams[i].user
                                /\ s[i].end_granule = streams[i].end_granule
                                /\ s[i].granule_offset = streams[i].granule_offset
                                /\ s[i].stream_is_init = streams[i].stream_is_init
  BY <1>a DEF AsLong
<1>3. /\ new \in EncStreams /\ new.user = u /\ new.end_granule = enc.write_granule
      /\ new.granule_offset = 0 /\ ~new.stream_is_init
  <2>1. u \in Nat \ {0} /\ enc.write_granule \in Nat
    BY <1>a, <1>1, Numbers
  <2> QED
    BY <2>1 DEF Stream, EncStreams
<1> HIDE DEF new, n
<1>0. n \in Nat /\ n > 0 /\ 1 \in 1..n /\ n \in 1..n
  BY <1>1
<1>4. /\ streams' \in Seq(EncStreams) /\ streams' # <<>> /\ Len(streams') \in {n, n + 1}
      /\ DOMAIN streams' = 1..Len(streams')
      /\ \A i \in 1..n : streams'[i] = s[i]
      /\ Len(streams') = n + 1 => streams'[n + 1] = new
  <2>1. CASE streams' = s
    <3>1. s # <<>> /\ n # n + 1
      BY <1>0, <1>1, EmptySeq
    <3> QED
      BY <1>1, <2>1, <3>1
  <2>2. CASE streams' = Append(s, new)
    <3>1. /\ streams' \in Seq(EncStreams) /\ streams' # <<>> /\ Len(streams') = n + 1
          /\ \A i \in 1..n : streams'[i] = s[i]
          /\ streams'[n + 1] = new
      <4>1. s \in Seq(EncStreams) /\ new \in EncStreams /\ Len(s) = n
        BY <1>1, <1>3
      <4>2. /\ Append(s, new) \in Seq(EncStreams) /\ Append(s, new) # <<>>
            /\ Len(Append(s, new)) = Len(s) + 1
            /\ \A i \in 1..Len(s) : Append(s, new)[i] = s[i]
            /\ Append(s, new)[Len(s) + 1] = new
        BY <4>1, OneMore
      <4> QED
        BY <2>2, <4>1, <4>2
    <3>2. DOMAIN streams' = 1..Len(streams')
      BY <3>1, LenProperties
    <3> QED
      BY <3>1, <3>2
  <2> QED
    BY <1>b, <2>1, <2>2
<1>5. /\ ~Heading /\ ~InFrame /\ ~Sending /\ call.op = "none"
      /\ Heading' = Heading /\ InFrame' = InFrame /\ Sending' = Sending
      /\ Sound /\ streams # <<>> => ~enc.draining
  BY <1>a, BetweenCalls DEF Heading, InFrame, Sending
<1>6. /\ Sound' = Sound /\ Failed' = Failed /\ Ahead' = 0 /\ Ahead = 0
      /\ frame_size' = frame_size
  BY <1>a, <1>5 DEF Sound, Failed, Ahead, frame_size
<1>7. \A i \in DOMAIN streams' : i \in 1..n \/ (i = n + 1 /\ Len(streams') = n + 1)
  <2>1. CASE Len(streams') = n
    BY <1>4, <2>1
  <2>2. CASE Len(streams') = n + 1
    <3>1. \A i \in 1..(n + 1) : i \in 1..n \/ i = n + 1
      BY <1>0
    <3> QED
      BY <1>4, <2>2, <3>1
  <2> QED
    BY <1>4, <2>1, <2>2
<1>8. TypeInv'
  <2>1. ASSUME NEW i \in DOMAIN streams' PROVE streams'[i].user \in 1..Len(closed')
    <3>1. CASE i \in 1..n
      <4>1. streams'[i].user = streams[i].user /\ i \in DOMAIN streams
        BY <1>1, <1>2, <1>4, <3>1
      <4>2. streams[i].user \in 1..Len(closed)
        BY <4>1 DEF TypeInv
      <4> QED
        BY <1>a, <1>1, <4>1, <4>2
    <3>2. CASE i = n + 1 /\ Len(streams') = n + 1
      BY <1>a, <1>3, <1>4, <3>2
    <3> QED
      BY <1>7, <2>1, <3>1, <3>2
  <2> QED
    BY <1>a, <1>4, <2>1 DEF TypeInv
<1>9. ControlInv'
  BY <1>a, <1>5 DEF ControlInv
<1>10. /\ \A i \in 1..n : /\ i \in DOMAIN streams
                          /\ streams'[i].end_granule = streams[i].end_granule
                          /\ streams'[i].granule_offset = streams[i].granule_offset
                          /\ streams'[i].stream_is_init = streams[i].stream_is_init
       /\ Len(streams') = n + 1 => /\ streams'[n + 1].end_granule = enc.write_granule
                                   /\ streams'[n + 1].granule_offset = 0
                                   /\ ~streams'[n + 1].stream_is_init
  <2>1. DOMAIN streams = 1..n
    BY <1>1
  <2> QED
    BY <2>1, <1>2, <1>3, <1>4
<1>11. StreamInv'
  <2>1. /\ \A i \in DOMAIN streams : i > 1 => ~streams[i].stream_is_init
        /\ Last(streams).end_granule = enc.write_granule
        /\ \A i, j \in DOMAIN streams :
              i < j => streams[i].end_granule <= streams[j].end_granule
        /\ \A i \in DOMAIN streams : streams[i].granule_offset <= enc.curr_granule - Ahead
        /\ streams[1].stream_is_init => enc.global_granule_offset = Lookahead
    BY <1>a DEF StreamInv
  <2>2. streams[n].end_granule = enc.write_granule
    BY <2>1 DEF Last, n
  <2>3. Last(streams').end_granule = enc.write_granule
    <3>1. CASE Len(streams') = n
      <4>1. streams'[n].end_granule = streams[n].end_granule
        BY <1>0, <1>10
      <4> QED
        BY <2>2, <3>1, <4>1 DEF Last
    <3>2. CASE Len(streams') = n + 1
      BY <1>10, <3>2 DEF Last
    <3> QED
      BY <1>4, <3>1, <3>2
  <2>4. ASSUME NEW i \in DOMAIN streams', i > 1 PROVE ~streams'[i].stream_is_init
    <3>1. CASE i \in 1..n
      BY <1>10, <2>1, <2>4, <3>1
    <3>2. CASE i = n + 1 /\ Len(streams') = n + 1
      BY <1>10, <3>2
    <3> QED
      BY <1>7, <2>4, <3>1, <3>2
  <2>5. ASSUME NEW i \in DOMAIN streams', NEW j \in DOMAIN streams', i < j
        PROVE  streams'[i].end_granule <= streams'[j].end_granule
    <3>1. i \in 1..n
      <4>1. i \in 1..Len(streams') /\ j \in 1..Len(streams') /\ Len(streams') \in {n, n + 1}
        BY <1>4, <2>5
      <4> QED
        BY <1>0, <2>5, <4>1
    <3>2. streams'[i].end_granule = streams[i].end_granule /\ i \in DOMAIN streams
      BY <1>10, <3>1
    <3>3. streams[i].end_granule \in Nat
      BY <3>2, Fields
    <3>4. CASE j \in 1..n
      <4>1. j \in DOMAIN streams /\ streams'[j].end_granule = streams[j].end_granule
        BY <1>10, <3>4
      <4> QED
        BY <2>1, <2>5, <3>2, <4>1
    <3>5. CASE j = n + 1 /\ Len(streams') = n + 1
      <4>1. streams[i].end_granule <= streams[n].end_granule
        <5>1. CASE i = n
          BY <3>3, <5>1
        <5>2. CASE i # n
          <6>1. i < n
            BY <1>0, <3>1, <5>2
          <6>2. n \in DOMAIN streams
            BY <1>0, <1>10
          <6> QED
            BY <2>1, <3>2, <6>1, <6>2
        <5> QED
          BY <5>1, <5>2
      <4>2. streams'[j].end_granule = enc.write_granule
        BY <1>10, <3>5
      <4> QED
        BY <2>2, <3>2, <4>1, <4>2
    <3> QED
      BY <1>7, <2>5, <3>4, <3>5
  <2>6. ASSUME NEW i \in DOMAIN streams'
        PROVE  streams'[i].granule_offset <= enc.curr_granule - Ahead
    <3>1. CASE i \in 1..n
      BY <1>10, <2>1, <3>1
    <3>2. CASE i = n + 1 /\ Len(streams') = n + 1
      <4>1. streams'[i].granule_offset = 0
        BY <1>10, <3>2
      <4>2. 0 <= enc.curr_granule - 0
        <5>1. enc.curr_granule \in Nat
          BY Numbers
        <5> QED
          BY <5>1
      <4> QED
        BY <1>6, <4>1, <4>2
    <3> QED
      BY <1>7, <2>6, <3>1, <3>2
  <2>7. streams'[1].stream_is_init => enc.global_granule_offset = Lookahead
    BY <1>0, <1>10, <2>1
  <2>8. /\ enc' = enc /\ pc' = "idle" /\ call'.op = "none" /\ streams' # <<>>
        /\ ~Heading' /\ ~InFrame' /\ Ahead' = Ahead
    BY <1>a, <1>4, <1>5, <1>6
  <2> HIDE DEF IInv
  <2> QED
    BY <2>3, <2>4, <2>5, <2>6, <2>7, <2>8 DEF StreamInv
<1>12. FrameInv'
  <2>1. streams'[1].end_granule = streams[1].end_granule
    BY <1>0, <1>10
  <2> QED
    BY <1>a, <1>5, <1>6, <2>1 DEF FrameInv
<1>13. SamplesInv'
  BY <1>a, <1>4, <1>5, <1>6 DEF SamplesInv
<1> QED
  BY <1>8, <1>9, <1>11, <1>12, <1>13

LEMMA NewStreamsKeep ==
  ASSUME IInv, ContinueNew \/ ChainCurrent \/ ChainFails
  PROVE  IInv'
<1> USE DEF IInv
<1>1. pc = "idle" /\ streams # <<>> /\ UNCHANGED <<enc, pc, call, ctls>>
  BY DEF ContinueNew, ChainCurrent, ChainFails
<1>0. faults' \in Nat
  <2>1. faults \in Nat
    BY DEF TypeInv
  <2>2. faults' = faults \/ (faults > 0 /\ faults' = faults - 1)
    BY DEF ContinueNew, ChainCurrent, ChainFails
  <2> QED
    BY <2>1, <2>2
<1>2. enc.write_granule \in Nat /\ starts \in Seq(Nat) /\ closed \in Seq(Nat)
      /\ streams \in Seq(EncStreams) /\ Len(closed) \in Nat
  BY Numbers, LenProperties DEF TypeInv
<1>3. CASE ContinueNew
  <2>1. /\ closed' = Append(closed, 0)
        /\ streams' = Append(streams, Stream(Len(closed'), enc.write_granule))
        /\ starts' = Append(starts, enc.write_granule)
    BY <1>3 DEF ContinueNew
  <2>2. /\ closed' \in Seq(Nat) /\ Len(closed') = Len(closed) + 1
        /\ starts' \in Seq(Nat)
    BY <1>2, <2>1, AppendProperties
  <2>3. AsLong(streams)
    BY <1>2 DEF AsLong
  <2>4. Len(closed) <= Len(closed') /\ Len(closed') \in 1..Len(closed')
    BY <1>2, <2>2
  <2>5. marked' \subseteq 1..Len(closed')
    <3>1. marked' = marked /\ marked \subseteq 1..Len(closed)
      BY <1>3 DEF ContinueNew, TypeInv
    <3> QED
      BY <1>2, <2>2, <3>1
  <2> QED
    <3>1. Grows(streams, Len(closed'))
      BY <1>0, <1>1, <2>1, <2>2, <2>3, <2>4, <2>5 DEF Grows
    <3> QED
      BY <3>1, ListGrows
<1>4. CASE ChainCurrent \/ ChainFails
  <2> DEFINE n == Len(streams)
             last == [streams[n] EXCEPT !.close_at_end = FALSE]
             s == [streams EXCEPT ![n] = last]
  <2>1. /\ closed' = closed
        /\ \/ streams' = s /\ starts' = starts
           \/ /\ streams' = Append(s, Stream(streams[n].user, enc.write_granule))
              /\ starts' = Append(starts, enc.write_granule)
        /\ marked' \subseteq marked \cup {streams[n].user}
    BY <1>4 DEF ChainCurrent, ChainFails, KeptOpen, Last
  <2>2. /\ n \in DOMAIN streams /\ streams[n] \in EncStreams
        /\ streams[n].user \in 1..Len(closed)
    <3>1. n \in Nat /\ n # 0 /\ DOMAIN streams = 1..n
      BY <1>1, <1>2, Fields, EmptySeq
    <3>2. n \in DOMAIN streams
      BY <3>1
    <3>3. streams[n] \in EncStreams
      BY <1>2, <3>2, ElementOfSeq
    <3> QED
      BY <3>2, <3>3 DEF TypeInv
  <2>3. /\ last \in EncStreams /\ last.user = streams[n].user
        /\ last.end_granule = streams[n].end_granule
        /\ last.granule_offset = streams[n].granule_offset
        /\ last.stream_is_init = streams[n].stream_is_init
    BY <2>2 DEF EncStreams
  <2> HIDE DEF last
  <2>4. /\ s \in Seq(EncStreams) /\ Len(s) = n /\ s[n] = last
        /\ \A i \in DOMAIN streams : i # n => s[i] = streams[i]
    BY <1>2, <2>2, <2>3, ExceptSeq
  <2> HIDE DEF s
  <2>5. AsLong(s)
    BY <2>2, <2>3, <2>4 DEF AsLong
  <2>6. streams[n].user \in 1..Len(closed') /\ marked' \subseteq 1..Len(closed')
    BY <2>1, <2>2 DEF TypeInv
  <2>7. starts' \in Seq(Nat)
    <3>1. starts' \in {starts, Append(starts, enc.write_granule)}
      BY <2>1
    <3>2. Append(starts, enc.write_granule) \in Seq(Nat)
      BY <1>2, AppendProperties
    <3> QED
      BY <1>2, <3>1, <3>2
  <2>8. closed' \in Seq(Nat) /\ Len(closed) <= Len(closed')
    BY <1>2, <2>1
  <2> QED
    <3>1. Grows(s, streams[n].user)
      BY <1>0, <1>1, <2>1, <2>5, <2>6, <2>7, <2>8 DEF Grows
    <3> QED
      BY <3>1, ListGrows
<1> QED
  BY <1>3, <1>4

-----------------------------------------------------------------------------
(* Filling the buffer *)

\* The samples count: the last stream ends where they do.
LEMMA BeginKeeps ==
  ASSUME IInv, Begin
  PROVE  IInv'
<1> USE DEF IInv
<1> DEFINE w == enc.write_granule + call.left
           n == Len(streams)
           s == [streams[n] EXCEPT !.end_granule = w]
<1>1. /\ pc = "begin" /\ pc' = "fill" /\ enc' = [enc EXCEPT !.write_granule = w]
      /\ streams' = [streams EXCEPT ![n] = s]
      /\ call' = [call EXCEPT !.ret = "idle"]
      /\ UNCHANGED <<closed, starts, marked, faults, ctls>>
  <2>1. enc' = [enc EXCEPT !.write_granule = w] /\ enc \in Encoders
    BY DEF Begin, TypeInv
  <2>2. enc'.write_granule = w
    BY <2>1 DEF Encoders
  <2> QED
    BY <2>1, <2>2 DEF Begin, bounds
<1>2. /\ ~Heading /\ ~InFrame /\ ~Sending /\ streams # <<>> /\ call.op = "write"
  <2>1. ~Heading /\ ~Sending
    BY <1>1 DEF Heading, Sending
  <2>2. ~InFrame
    BY <1>1, <2>1 DEF InFrame
  <2> QED
    BY <1>1, <2>1, <2>2 DEF ControlInv, StreamInv
<1>3. /\ n \in Nat /\ n > 0 /\ 1 \in 1..n /\ n \in 1..n /\ DOMAIN streams = 1..n
      /\ streams \in Seq(EncStreams) /\ streams[n] \in EncStreams
      /\ w \in Nat /\ enc.write_granule <= w
  <2>1. n \in Nat /\ n > 0 /\ DOMAIN streams = 1..n
    BY <1>2, Fields
  <2>2. 1 \in 1..n /\ n \in 1..n
    BY <2>1
  <2>3. streams \in Seq(EncStreams) /\ streams[n] \in EncStreams
    BY <2>1, <2>2, Fields DEF TypeInv
  <2>4. w \in Nat /\ enc.write_granule <= w
    BY Numbers
  <2> QED
    BY <2>1, <2>2, <2>3, <2>4
<1> HIDE DEF w
<1>4. /\ s \in EncStreams /\ s.end_granule = w /\ s.user = streams[n].user
      /\ s.granule_offset = streams[n].granule_offset
      /\ s.stream_is_init = streams[n].stream_is_init
  BY <1>3 DEF EncStreams
<1> HIDE DEF s, n
<1>5. /\ streams' \in Seq(EncStreams) /\ Len(streams') = n /\ streams'[n] = s
      /\ \A i \in 1..n : i # n => streams'[i] = streams[i]
      /\ DOMAIN streams' = 1..n /\ streams' # <<>>
  <2>1. n = Len(streams)
    BY DEF n
  <2> QED
    BY <1>1, <1>3, <1>4, <2>1, ExceptSeq, LenProperties, EmptySeq
<1>6. \A i \in 1..n : /\ streams'[i].user = streams[i].user
                      /\ streams'[i].granule_offset = streams[i].granule_offset
                      /\ streams'[i].stream_is_init = streams[i].stream_is_init
  BY <1>4, <1>5
<1>7. \A i \in 1..n : /\ streams[i].end_granule \in Nat /\ streams'[i].end_granule \in Nat
                      /\ streams[i].end_granule <= enc.write_granule
                      /\ streams[i].end_granule <= streams'[i].end_granule
                      /\ streams'[i].end_granule <= w
  <2>1. SUFFICES ASSUME NEW i \in 1..n
                 PROVE  /\ streams[i].end_granule \in Nat /\ streams'[i].end_granule \in Nat
                        /\ streams[i].end_granule <= enc.write_granule
                        /\ streams[i].end_granule <= streams'[i].end_granule
                        /\ streams'[i].end_granule <= w
    OBVIOUS
  <2>2. streams[n].end_granule = enc.write_granule
    BY <1>2 DEF StreamInv, Last, n
  <2>3. streams[i].end_granule \in Nat /\ enc.write_granule \in Nat
    BY <1>3, Fields
  <2>4. CASE i = n
    BY <1>3, <1>4, <1>5, <2>2, <2>3, <2>4
  <2>5. CASE i # n
    <3>1. i < n
      BY <1>3, <2>5
    <3>2. streams[i].end_granule <= streams[n].end_granule
      BY <1>3, <3>1 DEF StreamInv
    <3> QED
      BY <1>3, <1>5, <2>2, <2>3, <2>5, <3>2
  <2> QED
    BY <2>4, <2>5
<1>8. /\ enc' \in Encoders /\ enc'.write_granule = w
      /\ enc'.unrecoverable = enc.unrecoverable /\ enc'.request = enc.request
      /\ enc'.decision_delay = enc.decision_delay
      /\ enc'.global_granule_offset = enc.global_granule_offset
      /\ enc'.curr_granule = enc.curr_granule /\ enc'.draining = enc.draining
      /\ enc'.buffer_start = enc.buffer_start /\ enc'.buffer_end = enc.buffer_end
  <2>1. enc \in Encoders
    BY DEF TypeInv
  <2> QED
    BY <1>1, <1>3, <2>1 DEF Encoders
<1>9. /\ call' \in CallStates /\ call'.op = "write" /\ call'.ret = "idle"
      /\ call'.left = call.left /\ call'.nb = call.nb
  BY <1>1, <1>2 DEF TypeInv, CallStates
<1>10. ~Heading' /\ ~InFrame' /\ ~Sending'
  BY <1>1 DEF Heading, InFrame, Sending
<1>11. /\ Failed' = Failed /\ Sound' = Sound /\ frame_size' = frame_size
       /\ Ahead' = 0 /\ Ahead = 0
  BY <1>2, <1>8, <1>10 DEF Failed, Sound, frame_size, Ahead
<1>12. TypeInv'
  BY <1>1, <1>3, <1>5, <1>6, <1>8, <1>9 DEF TypeInv, Steps
<1>13. ControlInv'
  BY <1>1, <1>2, <1>8, <1>9, <1>10 DEF ControlInv, Drains
<1>14. StreamInv'
  <2>1. \A i, j \in DOMAIN streams' : i < j => streams'[i].end_granule <= streams'[j].end_granule
    <3>1. SUFFICES ASSUME NEW i \in 1..n, NEW j \in 1..n, i < j
                   PROVE  streams'[i].end_granule <= streams'[j].end_granule
      BY <1>5
    <3>2. CASE j = n
      BY <1>4, <1>5, <1>7, <3>2
    <3>3. CASE j # n
      <4>1. i # n
        BY <1>3, <3>1
      <4> QED
        BY <1>3, <1>5, <3>1, <3>3, <4>1 DEF StreamInv
    <3> QED
      BY <3>2, <3>3
  <2>2. Last(streams').end_granule = enc'.write_granule
    BY <1>4, <1>5, <1>8 DEF Last
  <2>3. \A i \in DOMAIN streams' : streams'[i].granule_offset <= enc'.curr_granule - Ahead'
    BY <1>3, <1>5, <1>6, <1>8, <1>11 DEF StreamInv
  <2> QED
    BY <1>1, <1>2, <1>3, <1>5, <1>6, <1>8, <1>9, <1>10, <1>11, <2>1, <2>2, <2>3 DEF StreamInv
<1>15. FrameInv'
  <2>1. Sound => call.nb = 0 /\ enc.curr_granule <= streams[1].end_granule + Lookahead
    BY <1>2 DEF FrameInv
  <2>2. Sound => enc.curr_granule <= streams'[1].end_granule + Lookahead
    <3>1. /\ streams[1].end_granule \in Nat /\ streams'[1].end_granule \in Nat
          /\ streams[1].end_granule <= streams'[1].end_granule
      BY <1>3, <1>7
    <3> QED
      BY <2>1, <3>1, Numbers
  <2> QED
    BY <1>1, <1>8, <1>9, <1>10, <1>11, <2>1, <2>2 DEF FrameInv
<1>16. SamplesInv'
  <2>1. Sound => ~enc.draining
    BY <1>2 DEF SamplesInv
  <2>2. Sound => enc.curr_granule - call.nb + (enc.buffer_end - enc.buffer_start) =
                   enc.write_granule - 0
    BY <1>1, <2>1 DEF SamplesInv
  <2>3. enc.write_granule - 0 = w - call.left
    BY Numbers DEF w
  <2> QED
    BY <1>1, <1>2, <1>5, <1>8, <1>9, <1>10, <1>11, <2>1, <2>2, <2>3 DEF SamplesInv, Drains
<1> QED
  BY <1>12, <1>13, <1>14, <1>15, <1>16

LEMMA FillKeeps ==
  ASSUME IInv, Fill
  PROVE  IInv'
<1> USE DEF IInv
<1> DEFINE curr == Lesser(call.left, BufferSamples - enc.buffer_end)
           b == enc.buffer_end + curr
           l == call.left - curr
<1>1. /\ pc = "fill" /\ pc' = "loop" /\ enc' = [enc EXCEPT !.buffer_end = b]
      /\ call' = [call EXCEPT !.left = l] /\ streams' = streams
      /\ UNCHANGED <<closed, starts, marked, faults, ctls>>
  BY DEF Fill, bounds
<1>2. /\ ~Heading /\ ~InFrame /\ ~Sending /\ streams # <<>> /\ call.op = "write"
      /\ call.ret # "begin"
  <2>1. ~Heading /\ ~Sending
    BY <1>1 DEF Heading, Sending
  <2>2. ~InFrame
    BY <1>1, <2>1 DEF InFrame
  <2> QED
    BY <1>1, <2>1, <2>2 DEF ControlInv, StreamInv
<1>3. /\ l \in Nat /\ b \in 0..BufferSamples /\ enc.buffer_start <= b
      /\ (b - enc.buffer_start) + l = (enc.buffer_end - enc.buffer_start) + call.left
  <2>1. enc.buffer_start <= enc.buffer_end
    BY DEF FrameInv
  <2>2. CASE call.left <= BufferSamples - enc.buffer_end
    <3>1. curr = call.left
      BY <2>2 DEF Lesser
    <3> QED
      BY <2>1, <2>2, <3>1, Numbers
  <2>3. CASE ~(call.left <= BufferSamples - enc.buffer_end)
    <3>1. curr = BufferSamples - enc.buffer_end
      BY <2>3 DEF Lesser
    <3> QED
      BY <2>1, <2>3, <3>1, Numbers
  <2> QED
    BY <2>2, <2>3
<1> HIDE DEF b, l
<1>4. /\ enc' \in Encoders /\ enc'.buffer_end = b
      /\ enc'.unrecoverable = enc.unrecoverable /\ enc'.request = enc.request
      /\ enc'.decision_delay = enc.decision_delay
      /\ enc'.global_granule_offset = enc.global_granule_offset
      /\ enc'.curr_granule = enc.curr_granule /\ enc'.draining = enc.draining
      /\ enc'.buffer_start = enc.buffer_start /\ enc'.write_granule = enc.write_granule
  <2>1. enc \in Encoders
    BY DEF TypeInv
  <2> QED
    BY <1>1, <1>3, <2>1 DEF Encoders
<1>5. /\ call' \in CallStates /\ call'.op = "write" /\ call'.ret = call.ret
      /\ call'.left = l /\ call'.nb = call.nb
  BY <1>1, <1>2, <1>3 DEF TypeInv, CallStates
<1>6. ~Heading' /\ ~InFrame' /\ ~Sending'
  BY <1>1 DEF Heading, InFrame, Sending
<1>7. /\ Failed' = Failed /\ Sound' = Sound /\ frame_size' = frame_size
      /\ Ahead' = 0 /\ Ahead = 0
  BY <1>2, <1>4, <1>6 DEF Failed, Sound, frame_size, Ahead
<1>8. TypeInv'
  BY <1>1, <1>4, <1>5 DEF TypeInv, Steps
<1>9. ControlInv'
  BY <1>1, <1>2, <1>4, <1>5, <1>6 DEF ControlInv
<1>10. StreamInv'
  BY <1>1, <1>2, <1>4, <1>5, <1>6, <1>7 DEF StreamInv
<1>11. FrameInv'
  BY <1>1, <1>2, <1>3, <1>4, <1>5, <1>6, <1>7 DEF FrameInv
<1>12. SamplesInv'
  <2>1. Sound => ~enc.draining
    BY <1>2 DEF SamplesInv
  <2>2. Sound => enc.curr_granule - call.nb + (enc.buffer_end - enc.buffer_start) =
                   enc.write_granule - call.left
    BY <1>1, <1>2, <2>1 DEF SamplesInv
  <2>3. b \in Nat
    BY <1>3
  <2>4. Sound => enc.curr_granule - call.nb + (b - enc.buffer_start) = enc.write_granule - l
    <3>1. /\ enc.curr_granule \in Nat /\ enc.write_granule \in Nat /\ call.nb \in Nat
          /\ enc.buffer_start \in Nat /\ enc.buffer_end \in Nat
      BY Numbers
    <3>2. l \in Nat /\ call.left \in Nat
          /\ (b - enc.buffer_start) + l = (enc.buffer_end - enc.buffer_start) + call.left
      BY <1>3, Numbers
    <3> HIDE DEF IInv
    <3> QED
      BY <2>2, <2>3, <3>1, <3>2
  <2> QED
    BY <1>1, <1>2, <1>4, <1>5, <1>6, <1>7, <2>1, <2>4 DEF SamplesInv, Drains
<1> QED
  BY <1>8, <1>9, <1>10, <1>11, <1>12

\* The padding fits (849), and what the buffer holds then ends every stream.
LEMMA PadKeeps ==
  ASSUME IInv, Pad
  PROVE  IInv'
<1> USE DEF IInv
<1> DEFINE pad == Greater(LpcPadding, enc.global_granule_offset + frame_size + 1)
           e == shift_buffer(enc)
           b == e.buffer_end + pad
<1>1. /\ pc = "pad" /\ streams' = streams /\ call' = call
      /\ enc' = [e EXCEPT !.buffer_end = b, !.decision_delay = 0, !.draining = TRUE]
      /\ pc' = IF enc'.buffer_end <= BufferSamples THEN "loop" ELSE "abort"
      /\ UNCHANGED <<closed, starts, marked, faults, ctls>>
  BY DEF Pad, bounds
<1>2. /\ ~Heading /\ ~InFrame /\ ~Sending /\ streams # <<>> /\ call.op \in Drains
      /\ call.ret # "begin"
  <2>1. ~Heading /\ ~Sending
    BY <1>1 DEF Heading, Sending
  <2>2. ~InFrame
    BY <1>1, <2>1 DEF InFrame
  <2> QED
    BY <1>1, <2>1, <2>2 DEF ControlInv, StreamInv
<1>3. /\ e \in Encoders /\ e.buffer_start <= e.buffer_end
      /\ e.buffer_end - e.buffer_start = enc.buffer_end - enc.buffer_start
      /\ e.buffer_start <= LpcInput
      /\ e.unrecoverable = enc.unrecoverable /\ e.request = enc.request
      /\ e.global_granule_offset = enc.global_granule_offset
      /\ e.curr_granule = enc.curr_granule /\ e.write_granule = enc.write_granule
  BY ShiftFields DEF FrameInv
<1> HIDE DEF e
<1>4. e.buffer_start \in Nat /\ e.buffer_end \in Nat
  BY <1>3 DEF Encoders
<1>5. /\ enc.global_granule_offset \in {-1, Lookahead} /\ frame_size <= LongestFrame
      /\ enc.buffer_end - enc.buffer_start <= LongestFrame + MaxLookahead
  BY <1>1 DEF TypeInv, Encoders, FrameInv, SamplesInv
<1>6. pad \in Nat /\ pad <= LpcPadding + Lookahead + LongestFrame + 1
      /\ enc.global_granule_offset + frame_size + 1 <= pad
  BY <1>5, Numbers, Room DEF Greater
<1> HIDE DEF pad
<1>7. b \in 0..BufferSamples /\ e.buffer_start <= b
      /\ b - e.buffer_start = enc.buffer_end - enc.buffer_start + pad
  BY <1>3, <1>4, <1>5, <1>6, Numbers, Room
<1> HIDE DEF b
<1>8. /\ enc' \in Encoders /\ enc'.buffer_end = b /\ enc'.draining /\ enc'.decision_delay = 0
      /\ enc'.unrecoverable = enc.unrecoverable /\ enc'.request = enc.request
      /\ enc'.global_granule_offset = enc.global_granule_offset
      /\ enc'.curr_granule = enc.curr_granule /\ enc'.write_granule = enc.write_granule
      /\ enc'.buffer_start = e.buffer_start
  <2>1. 0 \in 0..MaxLookahead
    BY Room
  <2> QED
    BY <1>1, <1>3, <1>7, <2>1 DEF Encoders
<1>9. pc' = "loop"
  BY <1>1, <1>7, <1>8
<1>10. ~Heading' /\ ~InFrame' /\ ~Sending'
  BY <1>9 DEF Heading, InFrame, Sending
<1>11. /\ Failed' = Failed /\ Sound' = Sound /\ frame_size' = frame_size
       /\ Ahead' = 0 /\ Ahead = 0
  BY <1>2, <1>8, <1>10 DEF Failed, Sound, frame_size, Ahead
<1>12. TypeInv'
  BY <1>1, <1>8, <1>9 DEF TypeInv, Steps
<1>13. ControlInv'
  BY <1>1, <1>2, <1>8, <1>9, <1>10 DEF ControlInv, Drains
<1>14. StreamInv'
  BY <1>1, <1>2, <1>8, <1>9, <1>10, <1>11 DEF StreamInv
<1>15. FrameInv'
  BY <1>1, <1>2, <1>7, <1>8, <1>9, <1>10, <1>11 DEF FrameInv
<1>16. SamplesInv'
  <2>1. ASSUME Sound
        PROVE  enc'.curr_granule - call'.nb + (enc'.buffer_end - enc'.buffer_start) >
                 enc'.write_granule + Lookahead + frame_size'
    <3>1. ~enc.draining /\ ~Failed
      BY <1>1, <1>2, <2>1 DEF SamplesInv, ControlInv, Sound, Failed
    <3>2. enc.global_granule_offset = Lookahead
      BY <1>2, <3>1 DEF StreamInv, Drains
    <3>3. call.left = 0
      BY <1>2 DEF ControlInv, Drains
    <3>4. enc.curr_granule - call.nb + (enc.buffer_end - enc.buffer_start) =
            enc.write_granule - call.left
      BY <1>1, <1>2, <2>1, <3>1 DEF SamplesInv
    <3>5. enc.curr_granule - call.nb + (b - e.buffer_start) >
            enc.write_granule + Lookahead + frame_size
      BY <1>6, <1>7, <3>2, <3>3, <3>4, Numbers
    <3> QED
      BY <1>1, <1>8, <1>11, <3>5
  <2> QED
    BY <1>1, <1>2, <1>8, <1>9, <1>10, <1>11, <2>1 DEF SamplesInv, Drains
<1> QED
  BY <1>12, <1>13, <1>14, <1>15, <1>16

-----------------------------------------------------------------------------
(* The theorems *)

LEMMA InitIInv == Init => IInv
<1> SUFFICES ASSUME Init PROVE IInv
  OBVIOUS
<1>1. PICK pull \in BOOLEAN, deferred \in BOOLEAN : enc = NewEnc(pull, deferred)
  BY DEF Init
<1>2. /\ enc.unrecoverable \in {"OK", "TOO_LATE"} /\ enc.request = 4
      /\ enc.global_granule_offset = -1 /\ enc.curr_granule = 0 /\ enc.write_granule = 0
      /\ ~enc.draining /\ enc.buffer_start = 0 /\ enc.buffer_end = 0
      /\ enc \in Encoders
  <2>1. MaxLookahead \in 0..MaxLookahead /\ 0 \in 0..BufferSamples /\ 4 \in 4..9
    BY Room
  <2> QED
    BY <1>1, <2>1 DEF NewEnc, Encoders, Codes
<1>3. frame_size = 8
  BY <1>2, FrameSamples DEF frame_size
<1>4. /\ streams = <<Stream(1, 0)>> /\ pc = "idle" /\ call = NoCall
      /\ closed = <<0>> /\ starts = <<0>> /\ marked = {}
      /\ faults = MaxFaults /\ ctls = MaxCtls
  BY DEF Init
<1>5. /\ Stream(1, 0) \in EncStreams /\ Stream(1, 0).user = 1
      /\ Stream(1, 0).end_granule = 0 /\ Stream(1, 0).granule_offset = 0
      /\ ~Stream(1, 0).stream_is_init
  BY DEF Stream, EncStreams
<1>6. /\ streams \in Seq(EncStreams) /\ Len(streams) = 1 /\ DOMAIN streams = {1}
      /\ streams[1] = Stream(1, 0) /\ streams # <<>>
      /\ closed \in Seq(Nat) /\ Len(closed) = 1 /\ starts \in Seq(Nat)
  BY <1>4, <1>5
<1>7. ~Heading /\ ~InFrame /\ ~Sending
  BY <1>4 DEF Heading, InFrame, Sending
<1>8. TypeInv
  BY <1>2, <1>4, <1>5, <1>6, NoCallFields, NumbersAssumption DEF TypeInv, Steps
<1>9. ControlInv
  BY <1>4, <1>7, NoCallFields DEF ControlInv, Drains
<1>10. StreamInv
  BY <1>2, <1>4, <1>5, <1>6, <1>7, NoCallFields DEF StreamInv, Last, Ahead
<1>11. FrameInv
  BY <1>2, <1>3, <1>4, <1>5, <1>6, <1>7, NoCallFields, Room, LongestIsLongest DEF FrameInv
<1>12. SamplesInv
  BY <1>2, <1>4, <1>6, <1>7, NoCallFields, Room, LongestIsLongest DEF SamplesInv, Drains
<1> QED
  BY <1>8, <1>9, <1>10, <1>11, <1>12 DEF IInv

LEMMA NextIInv == IInv /\ [Next]_vars => IInv'
<1> SUFFICES ASSUME IInv, [Next]_vars PROVE IInv'
  OBVIOUS
<1>1. CASE Calls
  BY <1>1, DeferredInitKeeps, CallsStartKeep, QuietMoves, NewStreamsKeep, CtlKeeps DEF Calls
<1>2. CASE Encodes
  BY <1>2, LoopEndsKeeps, LoopStopsKeeps, EncodeFrameKeeps, FailuresKeep, CommitPacketKeeps,
     FrameDoneKeeps, LastStreamEndsKeeps, NextStreamBeginsKeeps, ChainedKeeps DEF Encodes
<1>3. CASE InitsStream
  BY <1>3, FailuresKeep, InitStreamKeeps, TagsKeeps, StreamInitedKeeps DEF InitsStream
<1>4. CASE Outputs
  BY <1>4, OutputMoves, OutputKeeps, FailuresKeep DEF Outputs
<1>5. CASE Begin \/ Fill \/ Pad \/ WriteGoesOn \/ Return \/ Destroy \/ PullPage
  BY <1>5, BeginKeeps, FillKeeps, PadKeeps, ReturnKeeps, QuietMoves
<1>7. CASE Misuse
  BY <1>7, QuietMoves
<1>6. CASE UNCHANGED vars
  BY <1>6 DEF vars, IInv, TypeInv, ControlInv, StreamInv, FrameInv, SamplesInv, Heading,
              InFrame, Sending, Ahead, Sound, Failed, frame_size
<1> QED
  BY <1>1, <1>2, <1>3, <1>4, <1>5, <1>6, <1>7 DEF Next, Goes

\* How the calls under Misuse come about.
EndInv ==
  /\ pc = "twice" => Len(streams) > 1
  /\ pc = "nostream" => enc.draining

\* No other step leads there.
LEMMA OthersDoNotEnd ==
  ASSUME IInv, Calls \/ Goes, pc' \in {"twice", "nostream"}
  PROVE  UNCHANGED <<pc, streams>> /\ enc'.draining = enc.draining /\ pc \notin Misused
<1>1. /\ call.then \in {"idle", "tags", "inited", "sent", "packet"}
      /\ call.ret \in {"idle", "begin", "pad", "chained"}
  BY DEF IInv, TypeInv, CallStates
<1>2. CASE Calls
  <2>1. ASSUME NEW flush \in BOOLEAN, GetPage(flush) PROVE FALSE
    BY <2>1 DEF GetPage
  <2>2. ASSUME NEW e, Ctl(e) PROVE FALSE
    BY <2>2 DEF Ctl
  <2>3. ASSUME NEW samples, Write(samples) PROVE FALSE
    BY <2>3 DEF Write, StartInit
  <2>4. ASSUME NEW op, Drain(op) PROVE FALSE
    BY <2>4 DEF Drain, StartInit
  <2> QED
    BY <1>2, <2>1, <2>2, <2>3, <2>4 DEF Calls, DeferredInit, FinishTooLate, ContinueNew,
       ChainCurrent, ChainFails, FlushHeader, StartInit, SetFrameDuration, SetDecisionDelay
<1>3. CASE Encodes
  BY <1>3 DEF Encodes, LoopEnds, LoopStops, EncodeFrame, EncodeFails, CommitPacket, CopyFails,
     FrameDone, CloseFails, LastStreamEnds, NextStreamBegins, Chained, Commits, StartInit
<1>4. CASE InitsStream
  BY <1>1, <1>4 DEF InitsStream, NoPacker, InitStream, Tags, StreamInited, Commits
<1>5. CASE Outputs
  BY <1>1, <1>5 DEF Outputs, FlushBefore, Commit, Page, NoPage, WritePage, PagesWritten,
     WriteFails, AfterPage
<1>6. CASE Begin \/ Fill \/ Pad \/ WriteGoesOn \/ Return \/ Destroy \/ PullPage
  BY <1>6 DEF Begin, Fill, Pad, WriteGoesOn, Return, Destroy, PullPage
<1> QED
  BY <1>2, <1>3, <1>4, <1>5, <1>6 DEF Goes

LEMMA NextEndInv == IInv /\ EndInv /\ [Next]_vars => EndInv'
<1> SUFFICES ASSUME IInv, EndInv, [Next]_vars PROVE EndInv'
  OBVIOUS
<1>1. CASE Calls \/ Goes
  BY <1>1, OthersDoNotEnd DEF EndInv, Misused
<1>2. CASE FlushHeaderTwice
  <2>1. /\ streams # <<>> /\ streams[1].stream_is_init /\ ~Last(streams).stream_is_init
        /\ pc' = "twice" /\ streams' = streams
    BY <1>2 DEF FlushHeaderTwice, CanFlushHeader
  <2>2. Len(streams) \in Nat /\ Len(streams) > 0 /\ Len(streams) # 1
    BY <2>1, Fields DEF IInv, Last
  <2>3. Len(streams) > 1
    <3>1. \A n \in Nat : n > 0 /\ n # 1 => n > 1
      OBVIOUS
    <3> QED
      BY <2>2, <3>1
  <2>4. Len(streams') > 1 /\ pc' # "nostream"
    BY <2>1, <2>3
  <2> QED
    BY <2>4 DEF EndInv
<1>3. CASE GetPageTooSoon
  BY <1>3 DEF GetPageTooSoon, EndInv
<1>4. CASE CallAfterDrain
  <2>1. ~Failed /\ streams = <<>> /\ pc' = "nostream" /\ enc' = enc
    BY <1>4 DEF CallAfterDrain
  <2>2. ~(Sound /\ ~enc.draining)
    BY <2>1 DEF IInv, SamplesInv
  <2>3. Sound
    BY <2>1 DEF Sound, Failed
  <2>4. pc' # "twice" /\ enc'.draining
    BY <2>1, <2>2, <2>3
  <2> QED
    BY <2>4 DEF EndInv
<1>5. CASE UNCHANGED vars
  BY <1>5 DEF vars, EndInv
<1> QED
  BY <1>1, <1>2, <1>3, <1>4, <1>5 DEF Next, Misuse

LEMMA IInvImplies == IInv /\ EndInv => TypeOK /\ NeverAborts /\ BufferIsUnencoded
<1> SUFFICES ASSUME IInv, EndInv PROVE TypeOK /\ NeverAborts /\ BufferIsUnencoded
  OBVIOUS
<1> USE DEF IInv
<1>1. NeverAborts
  BY DEF NeverAborts, TypeInv, Steps, StreamInv, EndInv
<1>2. BufferIsUnencoded
  BY DEF BufferIsUnencoded, SamplesInv, Sound, Failed
<1>3. TypeOK
  <2>1. /\ enc \in [unrecoverable : Codes, pull_api : BOOLEAN, oggp : BOOLEAN,
                    request : 4..9, decision_delay : 0..MaxLookahead,
                    global_granule_offset : Nat \cup {-1},
                    curr_granule : Nat, write_granule : Nat, draining : BOOLEAN,
                    buffer_start : 0..BufferSamples, buffer_end : 0..BufferSamples,
                    preskip : Nat, chaining_keyframe : Nat]
    <3>1. enc \in Encoders /\ {-1, Lookahead} \subseteq Nat \cup {-1}
      BY Room DEF TypeInv
    <3> QED
      BY <3>1 DEF Encoders
  <2> DEFINE S == [user : 1..Len(closed), close_at_end : BOOLEAN,
                   stream_is_init : BOOLEAN, header_is_frozen : BOOLEAN,
                   end_granule : Nat, granule_offset : Int]
  <2>2. \A i \in DOMAIN streams : streams[i] \in S
    <3>1. SUFFICES ASSUME NEW i \in DOMAIN streams PROVE streams[i] \in S
      OBVIOUS
    <3>2. streams[i] \in EncStreams /\ streams[i].user \in 1..Len(closed)
      BY Fields DEF TypeInv
    <3> QED
      BY <3>2 DEF EncStreams
  <2> HIDE DEF S
  <2>3. streams \in Seq(S)
    <3>1. streams \in Seq(EncStreams) /\ DOMAIN streams = 1..Len(streams)
      BY Fields DEF TypeInv
    <3>2. streams = [i \in 1..Len(streams) |-> streams[i]] /\ Len(streams) \in Nat
      BY <3>1, LenProperties
    <3> QED
      BY <2>2, <3>1, <3>2, IsASeq
  <2>4. call.left \in Nat /\ call.granule \in Nat /\ call.nb \in Nat
    BY DEF TypeInv, CallStates
  <2>5. marked \subseteq DOMAIN closed
    BY LenProperties DEF TypeInv
  <2> QED
    BY <2>1, <2>3, <2>4, <2>5 DEF TypeOK, TypeInv, Codes, Steps, Misused, S
<1> QED
  BY <1>1, <1>2, <1>3

LEMMA SpecIInv == Spec => []IInv
BY InitIInv, NextIInv, PTL DEF Spec

LEMMA SpecEndInv == Spec => []EndInv
<1>1. Init => EndInv
  BY DEF Init, EndInv
<1> QED
  BY <1>1, SpecIInv, NextEndInv, PTL DEF Spec

\* The variables stay in their types: the buffer is never filled past its end, no
\* count of samples goes below zero, every stream has a file.
THEOREM TypesHold == Spec => []TypeOK
BY SpecIInv, SpecEndInv, IInvImplies, PTL

\* The assertions on the way of the samples hold (615, 714, 829, 849, 853): the
\* invariant says what the buffer holds at every step of a call, and that it leaves
\* room for the longest frame, the decision delay and the padding.  A stream is begun
\* twice (519) only by ope_encoder_flush_header with a stream chained behind, and a
\* stream is missing (904) only after a drain.
THEOREM NoAssertionOnTheWayFails == Spec => []NeverAborts
BY SpecIInv, SpecEndInv, IInvImplies, PTL

\* What has been written and is not encoded is in the buffer, and nothing else.
THEOREM BufferHoldsUnencoded == Spec => []BufferIsUnencoded
BY SpecIInv, SpecEndInv, IInvImplies, PTL
=============================================================================
