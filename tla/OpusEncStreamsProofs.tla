------------------------ MODULE OpusEncStreamsProofs ------------------------
(***************************************************************************)
(* What becomes of the streams, for any number of them and any failures:   *)
(* each file is closed once, whatever is chained and whatever fails; and   *)
(* without a failure each stream plays the samples written while it was    *)
(* the last one, wherever its frames and those of its neighbours fall, and *)
(* is a well-formed run of pages whose positions add up.                   *)
(***************************************************************************)
EXTENDS OpusEncProofs, SumProofs

-----------------------------------------------------------------------------
(* The invariant *)

\* The streams of the list write to files in order; a stream that closes its file
\* is the last to write to it.
InOrder ==
  \A i, j \in DOMAIN streams : i < j =>
    /\ streams[i].user <= streams[j].user
    /\ streams[i].close_at_end => streams[i].user < streams[j].user

\* A stream of the list writes to the file; one closes it when it ends.
Writing(u) == \E i \in DOMAIN streams : streams[i].user = u
Closing(u) == \E i \in DOMAIN streams : streams[i].user = u /\ streams[i].close_at_end

\* The file has not been closed; a close() that failed does not count.
Unclosed(u) == enc.unrecoverable # "CLOSE_FAIL" => closed[u] = 0

\* A file is left to the stream that closes it, or is kept open by a chain_current
\* that failed, or is closed and done with.
Standing(u) ==
  \/ Closing(u) /\ u \notin marked /\ Unclosed(u)
  \/ ~Closing(u) /\ u \in marked /\ Unclosed(u)
  \/ ~Closing(u) /\ u \notin marked /\ ~Writing(u) /\ closed[u] = 1

Counts == ~enc.pull_api => \A u \in DOMAIN closed : Standing(u)

FileInv ==
  /\ enc.unrecoverable = "CLOSE_FAIL" => pc \in {"encoded", "idle", "destroy", "gone"}
  /\ pc # "gone" => InOrder /\ Counts
  /\ pc = "gone" => FilesCloseOnce

\* The users, as the proofs use them.
LEMMA Users ==
  ASSUME TypeInv
  PROVE  /\ Len(closed) \in Nat /\ DOMAIN closed = 1..Len(closed)
         /\ Len(streams) \in Nat /\ DOMAIN streams = 1..Len(streams)
         /\ (streams # <<>> <=> Len(streams) > 0)
         /\ \A u \in DOMAIN closed : closed[u] \in Nat
         /\ \A i \in DOMAIN streams : /\ streams[i].user \in 1..Len(closed)
                                      /\ streams[i].user \in Nat
                                      /\ streams[i].close_at_end \in BOOLEAN
<1>1. /\ Len(closed) \in Nat /\ DOMAIN closed = 1..Len(closed)
      /\ \A u \in DOMAIN closed : closed[u] \in Nat
  BY LenProperties, ElementOfSeq DEF TypeInv
<1>2. \A i \in DOMAIN streams : streams[i] \in EncStreams
  BY Fields
<1>3. \A i \in DOMAIN streams : /\ streams[i].user \in 1..Len(closed)
                                /\ streams[i].user \in Nat
                                /\ streams[i].close_at_end \in BOOLEAN
  BY <1>2 DEF TypeInv, EncStreams
<1> QED
  BY <1>1, <1>3, Fields

-----------------------------------------------------------------------------
(* Steps that leave the files alone *)

FileStep ==
  /\ pc # "gone" /\ pc' # "gone" /\ closed' = closed /\ marked' = marked
  /\ enc'.pull_api = enc.pull_api
  /\ DOMAIN streams' = DOMAIN streams
  /\ \A i \in DOMAIN streams : /\ streams'[i].user = streams[i].user
                               /\ streams'[i].close_at_end = streams[i].close_at_end
  /\ (enc'.unrecoverable = "CLOSE_FAIL" <=> enc.unrecoverable = "CLOSE_FAIL")
  /\ enc.unrecoverable = "CLOSE_FAIL" => pc' \in {"encoded", "idle", "destroy"}

LEMMA FileStepKeeps ==
  ASSUME TypeInv, FileInv, FileStep
  PROVE  FileInv'
<1>1. /\ pc # "gone" /\ pc' # "gone" /\ closed' = closed /\ marked' = marked
      /\ enc'.pull_api = enc.pull_api
      /\ DOMAIN streams' = DOMAIN streams
      /\ \A i \in DOMAIN streams : /\ streams'[i].user = streams[i].user
                                   /\ streams'[i].close_at_end = streams[i].close_at_end
      /\ (enc'.unrecoverable = "CLOSE_FAIL" <=> enc.unrecoverable = "CLOSE_FAIL")
      /\ enc.unrecoverable = "CLOSE_FAIL" => pc' \in {"encoded", "idle", "destroy"}
  BY DEF FileStep
<1>2. InOrder'
  BY <1>1 DEF FileInv, InOrder
<1>3. ASSUME NEW u \in DOMAIN closed, ~enc.pull_api PROVE Standing(u)'
  <2>1. Standing(u)
    BY <1>1, <1>3 DEF FileInv, Counts
  <2>2. (Writing(u)' <=> Writing(u)) /\ (Closing(u)' <=> Closing(u))
    BY <1>1 DEF Writing, Closing
  <2>3. Unclosed(u)' <=> Unclosed(u)
    BY <1>1 DEF Unclosed
  <2> QED
    BY <1>1, <2>1, <2>2, <2>3 DEF Standing
<1>4. Counts'
  BY <1>1, <1>3 DEF Counts
<1> QED
  BY <1>1, <1>2, <1>4 DEF FileInv

\* The fields of enc these steps may change are none of the files' concern.
SameEnc ==
  /\ enc'.pull_api = enc.pull_api
  /\ enc'.unrecoverable = enc.unrecoverable

LEMMA FileSteps ==
  ASSUME TypeInv, FileInv,
         \/ DeferredInit
         \/ FlushBefore \/ Commit \/ Page \/ NoPage \/ WritePage \/ PagesWritten
         \/ WriteFails \/ NoPacker \/ EncodeFails \/ CopyFails
         \/ InitStream \/ Tags
         \/ LoopStops \/ EncodeFrame \/ CommitPacket \/ FrameDone \/ Chained
         \/ (\E op \in {"drain", "finish"} : Drain(op))
         \/ Fill \/ WriteGoesOn \/ Return \/ FinishTooLate \/ FlushHeader \/ Misuse
         \/ (\E flush \in BOOLEAN : GetPage(flush)) \/ PullPage
         \/ (\E request \in Requests : SetFrameDuration(request))
         \/ (\E value \in DecisionDelays : SetDecisionDelay(value))
  PROVE  FileInv'
<1>1. enc \in Encoders
  BY DEF TypeInv
<1>2. enc.unrecoverable = "CLOSE_FAIL" => pc \in {"encoded", "idle", "destroy", "gone"}
  BY DEF FileInv
<1>3. call.ret \in {"idle", "begin", "pad", "chained"}
      /\ call.then \in {"idle", "tags", "inited", "sent", "packet"}
  BY DEF TypeInv, CallStates
<1>4. ASSUME closed' = closed, marked' = marked, streams' = streams, pc # "gone",
             pc' # "gone", SameEnc,
             enc.unrecoverable = "CLOSE_FAIL" => pc' \in {"encoded", "idle", "destroy"}
      PROVE  FileInv'
  BY <1>4, FileStepKeeps DEF FileStep, SameEnc
<1>5. CASE FlushBefore \/ Commit \/ Page \/ NoPage \/ WritePage \/ PagesWritten
  BY <1>2, <1>3, <1>4, <1>5 DEF FlushBefore, Commit, Page, NoPage, WritePage, PagesWritten,
                                AfterPage, SameEnc, bounds
<1>6. CASE LoopStops \/ CommitPacket \/ Chained \/ Tags
  BY <1>2, <1>4, <1>6 DEF LoopStops, CommitPacket, Chained, Tags, Commits, SameEnc, bounds
<1>7. CASE WriteGoesOn \/ Return \/ FinishTooLate \/ FlushHeader \/ PullPage
  BY <1>2, <1>4, <1>7 DEF WriteGoesOn, Return, FinishTooLate, FlushHeader, PullPage,
                          CanFlushHeader, StartInit, SameEnc, Failed, bounds
<1>8. CASE (\E op \in {"drain", "finish"} : Drain(op)) \/ (\E flush \in BOOLEAN : GetPage(flush))
  BY <1>2, <1>4, <1>8 DEF Drain, GetPage, StartInit, SameEnc, Failed, bounds
<1>9. CASE InitStream \/ EncodeFrame \/ FrameDone \/ Fill
  <2>1. SameEnc
    BY <1>1, <1>9 DEF InitStream, EncodeFrame, FrameDone, Fill, SameEnc, Encoders
  <2> QED
    BY <1>2, <1>4, <1>9, <2>1 DEF InitStream, EncodeFrame, FrameDone, Fill, Commits, bounds
<1>10. CASE \/ \E request \in Requests : SetFrameDuration(request)
            \/ \E value \in DecisionDelays : SetDecisionDelay(value)
  <2>1. SameEnc
    BY <1>1, <1>10 DEF SetFrameDuration, SetDecisionDelay, Ctl, SameEnc, Encoders
  <2> QED
    BY <1>2, <1>4, <1>10, <2>1 DEF SetFrameDuration, SetDecisionDelay, Ctl, Failed
<1>11. CASE DeferredInit
  <2>1. enc' = [enc EXCEPT !.unrecoverable = "OK"] /\ enc.unrecoverable = "TOO_LATE"
        /\ pc = "idle" /\ pc' = "idle" /\ streams' = streams /\ closed' = closed
        /\ marked' = marked
    BY <1>11 DEF DeferredInit, bounds
  <2>2. enc'.unrecoverable = "OK" /\ enc'.pull_api = enc.pull_api
    BY <1>1, <2>1 DEF Encoders
  <2> QED
    BY <2>1, <2>2, FileStepKeeps DEF FileStep
<1>12. CASE WriteFails \/ NoPacker \/ EncodeFails \/ CopyFails
  <2>1. PICK code \in {"WRITE_FAIL", "ALLOC_FAIL", "INTERNAL_ERROR"} : Fault(code)
    BY <1>12 DEF WriteFails, NoPacker, EncodeFails, CopyFails
  <2>2. enc'.unrecoverable = code /\ enc'.pull_api = enc.pull_api
    BY <1>1, <2>1 DEF Fault, Encoders
  <2>3. /\ pc \in {"output", "init", "loop", "packet"}
        /\ pc' \in {"encoded", "idle", "begin", "pad", "chained"}
        /\ streams' = streams /\ closed' = closed /\ marked' = marked
    BY <1>3, <1>12 DEF WriteFails, NoPacker, EncodeFails, CopyFails
  <2> QED
    BY <1>2, <2>2, <2>3, FileStepKeeps DEF FileStep
<1>13. CASE Misuse
  BY <1>2, <1>4, <1>13 DEF Misuse, FlushHeaderTwice, CanFlushHeader, GetPageTooSoon,
                           CallAfterDrain, SameEnc, Failed, bounds
<1> QED
  BY <1>5, <1>6, <1>7, <1>8, <1>9, <1>10, <1>11, <1>12, <1>13

\* These change the buffer, or a stream, but for its file.
LEMMA BufferSteps ==
  ASSUME IInv, FileInv,
         \/ LoopEnds \/ Pad \/ StreamInited \/ Begin
         \/ (\E samples \in Lengths : Write(samples))
  PROVE  FileInv'
<1> USE DEF IInv
<1>1. enc \in Encoders /\ enc.buffer_start <= enc.buffer_end
  BY DEF TypeInv, FrameInv
<1>2. enc.unrecoverable = "CLOSE_FAIL" => pc \in {"encoded", "idle", "destroy", "gone"}
  BY DEF FileInv
<1>3. CASE LoopEnds \/ Pad
  <2> DEFINE e == shift_buffer(enc)
  <2>1. e \in Encoders /\ e.unrecoverable = enc.unrecoverable /\ e.pull_api = enc.pull_api
    BY <1>1, ShiftFields
  <2> HIDE DEF e
  <2>2. SameEnc
    <3>1. CASE LoopEnds
      <4>1. enc' \in {e, enc}
        BY <3>1 DEF LoopEnds, e
      <4> QED
        BY <2>1, <4>1 DEF SameEnc
    <3>2. CASE Pad
      <4>1. PICK b : enc' = [e EXCEPT !.buffer_end = b, !.decision_delay = 0, !.draining = TRUE]
        BY <3>2 DEF Pad, e
      <4> QED
        BY <2>1, <4>1 DEF SameEnc, Encoders
    <3> QED
      BY <1>3, <3>1, <3>2
  <2>3. /\ pc \in {"loop", "pad"} /\ pc' # "gone" /\ streams' = streams /\ closed' = closed
        /\ marked' = marked
    BY <1>3 DEF LoopEnds, Pad, bounds
  <2> QED
    BY <1>2, <2>2, <2>3, FileStepKeeps DEF FileStep, SameEnc
<1>4. CASE StreamInited \/ Begin \/ (\E samples \in Lengths : Write(samples))
  <2>1. /\ pc \in {"inited", "begin", "idle"} /\ closed' = closed /\ marked' = marked
        /\ pc' \in {"idle", "begin", "pad", "chained", "fill", "init"}
        /\ pc = "idle" => ~Failed
    BY <1>4 DEF StreamInited, Begin, Write, StartInit, TypeInv, CallStates, bounds
  <2>2. SameEnc
    BY <1>1, <1>4 DEF StreamInited, Begin, Write, SameEnc, Encoders
  <2>3. streams # <<>>
    BY <1>4 DEF StreamInited, Begin, Write, Heading, StreamInv
  <2>4. \E k \in DOMAIN streams : \E r :
          /\ streams' = [streams EXCEPT ![k] = r]
          /\ \E v : r \in {[streams[k] EXCEPT !.stream_is_init = v],
                         [streams[k] EXCEPT !.end_granule = v],
                         [streams[k] EXCEPT !.header_is_frozen = v]}
    <3>1. 1 \in DOMAIN streams /\ Len(streams) \in DOMAIN streams
      BY <2>3, Users
    <3>2. CASE StreamInited
      <4>1. streams' = [streams EXCEPT ![1] = [streams[1] EXCEPT !.stream_is_init = TRUE]]
        BY <3>2 DEF StreamInited
      <4> QED
        BY <3>1, <4>1
    <3>3. CASE Begin
      <4>1. streams' = [streams EXCEPT ![Len(streams)] =
                          [streams[Len(streams)] EXCEPT !.end_granule = enc'.write_granule]]
        BY <3>3 DEF Begin
      <4> QED
        BY <3>1, <4>1
    <3>4. CASE \E samples \in Lengths : Write(samples)
      <4>1. streams' = [streams EXCEPT ![Len(streams)] =
                          [streams[Len(streams)] EXCEPT !.header_is_frozen = TRUE]]
        BY <3>4 DEF Write
      <4> QED
        BY <3>1, <4>1
    <3> QED
      BY <1>4, <3>2, <3>3, <3>4
  <2>5. PICK k \in DOMAIN streams :
            \E r : /\ streams' = [streams EXCEPT ![k] = r]
                   /\ \E v : r \in {[streams[k] EXCEPT !.stream_is_init = v],
                                  [streams[k] EXCEPT !.end_granule = v],
                                  [streams[k] EXCEPT !.header_is_frozen = v]}
    BY <2>4
  <2>6. PICK r : /\ streams' = [streams EXCEPT ![k] = r]
                 /\ \E v : r \in {[streams[k] EXCEPT !.stream_is_init = v],
                                [streams[k] EXCEPT !.end_granule = v],
                                [streams[k] EXCEPT !.header_is_frozen = v]}
    BY <2>5
  <2>7. /\ streams \in Seq(EncStreams) /\ streams[k] \in EncStreams
        /\ DOMAIN streams = 1..Len(streams) /\ Len(streams) \in Nat
    BY Fields, LenProperties DEF TypeInv
  <2>8. /\ DOMAIN streams' = DOMAIN streams /\ Len(streams') = Len(streams)
        /\ streams'[k].user = streams[k].user
        /\ streams'[k].close_at_end = streams[k].close_at_end
        /\ \A i \in DOMAIN streams : i # k => streams'[i] = streams[i]
    <3>1. r.user = streams[k].user /\ r.close_at_end = streams[k].close_at_end
      BY <2>6, <2>7 DEF EncStreams
    <3>2. DOMAIN streams' = 1..Len(streams)
      BY <2>6, <2>7
    <3> QED
      BY <2>6, <2>7, <3>1, <3>2
  <2> QED
    BY <1>2, <2>1, <2>2, <2>3, <2>8, FileStepKeeps DEF FileStep, SameEnc, Failed
<1> QED
  BY <1>3, <1>4

-----------------------------------------------------------------------------
(* A stream ends *)

LEMMA ClosedCounts ==
  ASSUME TypeInv, streams # <<>>
  PROVE  /\ DOMAIN Closed = DOMAIN closed
         /\ \A u \in DOMAIN closed :
              Closed[u] = IF u = streams[1].user /\ MustClose(streams[1])
                          THEN closed[u] + 1 ELSE closed[u]
<1>1. streams[1].user \in DOMAIN closed
  BY Users
<1> QED
  BY <1>1 DEF Closed

\* A stream that closes its file does so when it ends; the others leave it as it is.
LEMMA StreamEndsKeeps ==
  ASSUME IInv, FileInv, CloseFails \/ LastStreamEnds \/ NextStreamBegins
  PROVE  FileInv'
<1> USE DEF IInv
<1>1. /\ pc = "sent" /\ streams # <<>> /\ 1 \in DOMAIN streams
      /\ Len(streams) \in DOMAIN streams /\ Len(streams) \in Nat
  <2>1. pc = "sent"
    BY DEF CloseFails, LastStreamEnds, NextStreamBegins
  <2>2. streams # <<>>
    BY <2>1 DEF StreamInv, InFrame
  <2> QED
    BY <2>1, <2>2, Users
<1>2. /\ closed' = Closed /\ pc' # "gone" /\ enc'.pull_api = enc.pull_api
      /\ marked' = marked /\ enc \in Encoders
  BY DEF CloseFails, LastStreamEnds, NextStreamBegins, StartInit, Fault, TypeInv, Encoders,
         bounds
<1>3. enc.unrecoverable # "CLOSE_FAIL" /\ InOrder /\ Counts
  BY <1>1 DEF FileInv
<1> DEFINE first == streams[1].user
<1>4. /\ first \in DOMAIN closed /\ DOMAIN closed' = DOMAIN closed
      /\ \A u \in DOMAIN closed :
           closed'[u] = IF u = first /\ MustClose(streams[1]) THEN closed[u] + 1 ELSE closed[u]
  BY <1>1, <1>2, ClosedCounts, Users
<1>5. CASE CloseFails
  <2>1. /\ streams' = streams /\ pc' = "encoded" /\ enc'.unrecoverable = "CLOSE_FAIL"
        /\ MustClose(streams[1])
    BY <1>2, <1>5 DEF CloseFails, Fault, Encoders
  <2>2. InOrder'
    BY <1>3, <2>1 DEF InOrder
  <2>3. ASSUME NEW u \in DOMAIN closed, ~enc.pull_api PROVE Standing(u)'
    <3>1. Standing(u) /\ (Closing(u)' <=> Closing(u)) /\ (Writing(u)' <=> Writing(u))
      BY <1>3, <2>1, <2>3 DEF Counts, Closing, Writing
    <3>2. Unclosed(u)'
      BY <2>1 DEF Unclosed
    <3>3. u = first => Closing(u)
      BY <1>1, <2>1 DEF Closing, MustClose
    <3>4. u # first => closed'[u] = closed[u]
      BY <1>4
    <3> QED
      BY <1>2, <3>1, <3>2, <3>3, <3>4 DEF Standing
  <2>4. Counts'
    BY <1>2, <1>4, <2>3 DEF Counts
  <2> QED
    BY <2>1, <2>2, <2>4 DEF FileInv
\* The first stream leaves the list, the others move up.
<1>6. ASSUME NEW n \in Nat, n = Len(streams), DOMAIN streams' = 1..(n - 1),
             \A i \in 1..(n - 1) : /\ streams'[i].user = streams[i + 1].user
                                   /\ streams'[i].close_at_end = streams[i + 1].close_at_end,
             enc'.unrecoverable = enc.unrecoverable
      PROVE  FileInv'
  <2>1. DOMAIN streams = 1..n /\ n > 0
    BY <1>1, <1>6, Users
  <2>2. \A i \in 1..(n - 1) : i + 1 \in DOMAIN streams
    BY <2>1
  <2>3. \A i \in DOMAIN streams : i = 1 \/ (i - 1 \in 1..(n - 1) /\ (i - 1) + 1 = i /\ 1 < i)
    BY <2>1
  <2>4. InOrder'
    <3>1. SUFFICES ASSUME NEW i \in DOMAIN streams', NEW j \in DOMAIN streams', i < j
                   PROVE  /\ streams'[i].user <= streams'[j].user
                          /\ streams'[i].close_at_end => streams'[i].user < streams'[j].user
      BY DEF InOrder
    <3>2. i \in 1..(n - 1) /\ j \in 1..(n - 1) /\ i + 1 < j + 1
      BY <1>6, <3>1
    <3>3. /\ streams[i + 1].user <= streams[j + 1].user
          /\ streams[i + 1].close_at_end => streams[i + 1].user < streams[j + 1].user
      BY <1>3, <2>2, <3>2 DEF InOrder
    <3> QED
      BY <1>6, <3>2, <3>3
  <2>5. ASSUME NEW u \in DOMAIN closed, ~enc.pull_api PROVE Standing(u)'
    <3>1. Standing(u)
      BY <1>3, <2>5 DEF Counts
    <3>2. (Closing(u)' => Closing(u)) /\ (Writing(u)' => Writing(u))
      <4>1. ASSUME NEW i \in DOMAIN streams'
            PROVE  /\ i + 1 \in DOMAIN streams /\ streams'[i].user = streams[i + 1].user
                   /\ streams'[i].close_at_end = streams[i + 1].close_at_end
        BY <1>6, <2>2, <4>1
      <4> QED
        BY <4>1 DEF Closing, Writing
    <3>3. Closing(u) => Closing(u)' \/ (u = first /\ streams[1].close_at_end)
      <4>1. SUFFICES ASSUME NEW i \in DOMAIN streams, streams[i].user = u,
                            streams[i].close_at_end, i # 1
                     PROVE  Closing(u)'
        BY DEF Closing
      <4>2. /\ i - 1 \in 1..(n - 1) /\ (i - 1) + 1 = i
        BY <2>3, <4>1
      <4>3. i - 1 \in DOMAIN streams' /\ streams'[i - 1].user = u /\ streams'[i - 1].close_at_end
        BY <1>6, <4>1, <4>2
      <4> QED
        BY <4>3 DEF Closing
    <3>4. CASE u = first /\ streams[1].close_at_end
      <4>1. ~Writing(u)'
        <5>1. SUFFICES ASSUME NEW i \in 1..(n - 1), streams[i + 1].user = u PROVE FALSE
          BY <1>6 DEF Writing
        <5>2. i + 1 \in DOMAIN streams /\ 1 < i + 1
          BY <2>2
        <5>3. first < streams[i + 1].user
          BY <1>1, <1>3, <3>4, <5>2 DEF InOrder
        <5> QED
          BY <1>1, <3>4, <5>1, <5>3, Users
      <4>2. ~Closing(u)'
        BY <4>1 DEF Closing, Writing
      <4>3. Closing(u)
        BY <1>1, <3>4 DEF Closing
      <4>4. u \notin marked /\ closed[u] = 0
        BY <1>3, <3>1, <4>3 DEF Standing, Unclosed
      <4>5. closed'[u] = closed[u] + 1
        BY <1>4, <2>5, <3>4 DEF MustClose
      <4>6. closed'[u] = 1
        BY <4>4, <4>5
      <4> QED
        BY <1>2, <4>1, <4>2, <4>4, <4>6 DEF Standing
    <3>5. CASE ~(u = first /\ streams[1].close_at_end)
      <4>1. closed'[u] = closed[u]
        BY <1>4, <3>5 DEF MustClose
      <4>2. Unclosed(u)' <=> Unclosed(u)
        BY <1>6, <4>1 DEF Unclosed
      <4> QED
        BY <1>2, <3>1, <3>2, <3>3, <3>5, <4>1, <4>2 DEF Standing
    <3> QED
      BY <3>4, <3>5
  <2>6. Counts'
    BY <1>2, <1>4, <2>5 DEF Counts
  <2> QED
    BY <1>2, <1>3, <1>6, <2>4, <2>6 DEF FileInv
<1>7. CASE LastStreamEnds
  <2>1. streams' = <<>> /\ enc' = enc /\ Len(streams) = 1
    BY <1>7 DEF LastStreamEnds
  <2>2. DOMAIN streams' = 1..(1 - 1) /\ 1 \in Nat /\ 1..(1 - 1) = {}
    BY <2>1
  <2> QED
    BY <1>6, <2>1, <2>2
<1>8. CASE NextStreamBegins
  <2> DEFINE n == Len(streams)
  <2>1. PICK o, p :
          /\ streams' = [Tail(streams) EXCEPT ![1] = [Tail(streams)[1] EXCEPT !.granule_offset = o]]
          /\ enc' = [enc EXCEPT !.preskip = p]
          /\ n > 1 /\ pc' = "init"
    BY <1>8 DEF NextStreamBegins, StartInit
  <2>2. enc'.unrecoverable = enc.unrecoverable
    BY <1>2, <2>1 DEF Encoders
  <2>3. /\ Tail(streams) \in Seq(EncStreams) /\ Len(Tail(streams)) = n - 1
        /\ \A i \in 1..(n - 1) : Tail(streams)[i] = streams[i + 1]
        /\ DOMAIN Tail(streams) = 1..(n - 1)
    <3>1. Tail(streams) \in Seq(EncStreams) /\ Len(Tail(streams)) = n - 1
      BY <1>1, <2>1, HeadTailProperties DEF TypeInv
    <3>2. DOMAIN Tail(streams) = 1..(n - 1)
      BY <3>1, LenProperties
    <3> QED
      BY <1>1, <2>1, <3>1, <3>2, HeadTailProperties DEF TypeInv
  <2>4. 1 \in 1..(n - 1) /\ 2 \in DOMAIN streams /\ n \in Nat
    BY <1>1, <2>1, Users
  <2>5. Tail(streams)[1] = streams[2] /\ streams[2] \in EncStreams
    BY <2>3, <2>4, Fields
  <2>6. [streams[2] EXCEPT !.granule_offset = o].user = streams[2].user
        /\ [streams[2] EXCEPT !.granule_offset = o].close_at_end = streams[2].close_at_end
    BY <2>5 DEF EncStreams
  <2>7. DOMAIN streams' = 1..(n - 1)
    BY <2>1, <2>3
  <2>8. ASSUME NEW i \in 1..(n - 1)
        PROVE  /\ streams'[i].user = streams[i + 1].user
               /\ streams'[i].close_at_end = streams[i + 1].close_at_end
    <3>1. CASE i = 1
      BY <2>1, <2>3, <2>4, <2>5, <2>6, <3>1
    <3>2. CASE i # 1
      BY <2>1, <2>3, <3>2
    <3> QED
      BY <3>1, <3>2
  <2> QED
    BY <1>6, <2>2, <2>4, <2>7, <2>8
<1> QED
  BY <1>5, <1>7, <1>8

-----------------------------------------------------------------------------
(* A stream is added, or is not *)

LEMMA NewStreamFiles ==
  ASSUME IInv, FileInv, ContinueNew \/ ChainCurrent \/ ChainFails
  PROVE  FileInv'
<1> USE DEF IInv
<1> DEFINE n == Len(streams)
           m == Len(closed)
<1>1. pc = "idle" /\ pc' = "idle" /\ enc' = enc /\ streams # <<>>
  BY DEF ContinueNew, ChainCurrent, ChainFails
<1>2. /\ n \in Nat /\ n > 0 /\ n \in 1..n /\ DOMAIN streams = 1..n
      /\ streams \in Seq(EncStreams) /\ closed \in Seq(Nat)
      /\ m \in Nat /\ DOMAIN closed = 1..m
  BY <1>1, Users DEF TypeInv
<1>3. InOrder /\ Counts
  BY <1>1 DEF FileInv
<1>4. \A i \in 1..n : /\ streams[i].user \in 1..m /\ streams[i].user \in Nat
                      /\ streams[i].close_at_end \in BOOLEAN
  BY <1>2, Users
<1>5. \A i \in 1..(n + 1) : i \in 1..n \/ i = n + 1
  BY <1>2
<1>6. enc.write_granule \in Nat
  BY Numbers
<1>7. CASE ContinueNew
  <2> DEFINE new == Stream(m + 1, enc.write_granule)
  <2>1. /\ closed' = Append(closed, 0) /\ marked' = marked
        /\ streams' = Append(streams, Stream(Len(closed'), enc.write_granule))
    BY <1>7 DEF ContinueNew
  <2>2. /\ Len(closed') = m + 1 /\ DOMAIN closed' = 1..(m + 1)
        /\ \A u \in 1..m : closed'[u] = closed[u]
        /\ closed'[m + 1] = 0
    <3>1. closed' \in Seq(Nat)
      BY <1>2, <2>1, OneMore
    <3> QED
      BY <1>2, <2>1, <3>1, OneMore, LenProperties
  <2>3. new.user = m + 1 /\ new.close_at_end /\ new \in EncStreams
    <3>1. m + 1 \in Nat \ {0}
      BY <1>2
    <3> QED
      BY <1>6, <3>1 DEF Stream, EncStreams
  <2>4. streams' = Append(streams, new)
    BY <2>1, <2>2
  <2> HIDE DEF new
  <2>5. /\ DOMAIN streams' = 1..(n + 1) /\ n + 1 \in 1..(n + 1)
        /\ \A i \in 1..n : i \in 1..(n + 1) /\ streams'[i] = streams[i]
        /\ streams'[n + 1] = new
    <3>1. streams' \in Seq(EncStreams)
      BY <1>2, <2>3, <2>4, OneMore
    <3> QED
      BY <1>2, <2>3, <2>4, <3>1, OneMore, LenProperties
  <2>6. InOrder'
    <3>1. SUFFICES ASSUME NEW i \in DOMAIN streams', NEW j \in DOMAIN streams', i < j
                   PROVE  /\ streams'[i].user <= streams'[j].user
                          /\ streams'[i].close_at_end => streams'[i].user < streams'[j].user
      BY DEF InOrder
    <3>2. i \in 1..n
      BY <1>2, <2>5, <3>1
    <3>3. CASE j \in 1..n
      BY <1>2, <1>3, <2>5, <3>1, <3>2, <3>3 DEF InOrder
    <3>4. CASE j = n + 1
      <4>1. streams[i].user \in 1..m
        BY <1>4, <3>2
      <4>2. streams[i].user < m + 1 /\ streams[i].user <= m + 1
        BY <1>2, <4>1
      <4>3. streams'[i].user = streams[i].user /\ streams'[j].user = m + 1
        BY <2>3, <2>5, <3>2, <3>4
      <4> QED
        BY <4>2, <4>3
    <3> QED
      BY <1>5, <2>5, <3>3, <3>4
  <2>7. ASSUME NEW u \in 1..(m + 1), ~enc.pull_api PROVE Standing(u)'
    <3>1. CASE u = m + 1
      <4>1. Closing(u)'
        BY <2>3, <2>5, <3>1 DEF Closing
      <4>2. u \notin marked'
        <5>1. marked \subseteq 1..m /\ m + 1 \notin 1..m
          BY <1>2 DEF TypeInv
        <5> QED
          BY <2>1, <3>1, <5>1
      <4>3. Unclosed(u)'
        BY <2>2, <3>1 DEF Unclosed
      <4> QED
        BY <4>1, <4>2, <4>3 DEF Standing
    <3>2. CASE u # m + 1
      <4>1. u \in 1..m /\ Standing(u)
        BY <1>2, <1>3, <2>7, <3>2 DEF Counts
      <4>2. (Closing(u)' <=> Closing(u)) /\ (Writing(u)' <=> Writing(u))
        <5>1. streams'[n + 1].user # u
          BY <2>3, <2>5, <3>2
        <5>2. \A i \in DOMAIN streams' : i \in 1..n \/ i = n + 1
          BY <1>5, <2>5
        <5> QED
          BY <1>2, <2>5, <5>1, <5>2 DEF Closing, Writing
      <4>3. closed'[u] = closed[u] /\ (Unclosed(u)' <=> Unclosed(u))
        BY <1>1, <2>2, <4>1 DEF Unclosed
      <4> QED
        BY <2>1, <4>1, <4>2, <4>3 DEF Standing
    <3> QED
      BY <3>1, <3>2
  <2>8. Counts'
    BY <1>1, <2>2, <2>7 DEF Counts
  <2> QED
    BY <1>1, <2>6, <2>8 DEF FileInv
\* The stream that was the last keeps its file open.
<1> DEFINE last == [streams[n] EXCEPT !.close_at_end = FALSE]
           s == [streams EXCEPT ![n] = last]
           user == streams[n].user
<1>8. last \in EncStreams /\ last.user = user /\ ~last.close_at_end
  BY <1>2, Fields DEF EncStreams
<1> HIDE DEF last
<1>9. /\ s \in Seq(EncStreams) /\ Len(s) = n /\ DOMAIN s = 1..n
      /\ \A i \in 1..n : /\ s[i].user = streams[i].user
                         /\ s[i].close_at_end <=> streams[i].close_at_end /\ i # n
  <2>1. /\ s \in Seq(EncStreams) /\ Len(s) = n /\ s[n] = last
        /\ \A i \in DOMAIN streams : i # n => s[i] = streams[i]
    BY <1>2, <1>8, ExceptSeq
  <2>2. DOMAIN s = 1..n
    BY <2>1, LenProperties
  <2>3. \A i \in 1..n : s[i] = IF i = n THEN last ELSE streams[i]
    BY <1>2, <2>1
  <2> QED
    BY <1>4, <1>8, <2>1, <2>2, <2>3
<1> HIDE DEF s
<1>10. user \in 1..m /\ user \in Nat /\ user \in DOMAIN closed
  BY <1>2, <1>4
\* No stream before it closes that file.
<1>11. \A i \in 1..n : i # n => /\ streams[i].user <= user
                                /\ streams[i].close_at_end => streams[i].user < user
  <2>1. \A k \in Nat : \A i \in 1..k : i # k => i < k
    OBVIOUS
  <2>2. ASSUME NEW i \in 1..n, i # n
        PROVE  i < n /\ i \in DOMAIN streams /\ n \in DOMAIN streams
    BY <1>2, <2>1, <2>2
  <2> HIDE DEF n
  <2> QED
    BY <1>3, <2>2 DEF InOrder
<1>12. ~enc.pull_api => Unclosed(user)
  <2>1. Writing(user)
    BY <1>2 DEF Writing
  <2> QED
    BY <1>3, <1>10, <2>1 DEF Counts, Standing
<1>13. \A i \in 1..n : streams[i].user = user => ~s[i].close_at_end
  <2>1. SUFFICES ASSUME NEW i \in 1..n, streams[i].user = user, s[i].close_at_end
                 PROVE  FALSE
    OBVIOUS
  <2>2. i # n /\ streams[i].close_at_end
    BY <1>9, <2>1
  <2>3. streams[i].user < user
    BY <1>11, <2>2
  <2> QED
    BY <1>10, <2>1, <2>3
<1>14. CASE ChainFails
  <2>1. /\ closed' = closed /\ streams' = s /\ marked' = marked \cup {user}
    BY <1>14 DEF ChainFails, KeptOpen, Last, s, last
  <2>2. InOrder'
    BY <1>2, <1>3, <1>9, <2>1 DEF InOrder
  <2>3. ASSUME NEW u \in 1..m, ~enc.pull_api PROVE Standing(u)'
    <3>1. CASE u = user
      <4>1. ~Closing(u)'
        BY <1>9, <1>13, <2>1, <3>1 DEF Closing
      <4>2. Unclosed(u)'
        BY <1>1, <1>12, <2>1, <2>3, <3>1 DEF Unclosed
      <4> QED
        BY <2>1, <3>1, <4>1, <4>2 DEF Standing
    <3>2. CASE u # user
      <4>1. Standing(u)
        BY <1>2, <1>3, <2>3 DEF Counts
      <4>2. (Closing(u)' <=> Closing(u)) /\ (Writing(u)' <=> Writing(u))
        BY <1>2, <1>9, <2>1, <3>2 DEF Closing, Writing
      <4>3. Unclosed(u)' <=> Unclosed(u)
        BY <1>1, <2>1 DEF Unclosed
      <4> QED
        BY <2>1, <3>2, <4>1, <4>2, <4>3 DEF Standing
    <3> QED
      BY <3>1, <3>2
  <2>4. Counts'
    BY <1>1, <1>2, <2>1, <2>3 DEF Counts
  <2> QED
    BY <1>1, <2>2, <2>4 DEF FileInv
<1>15. CASE ChainCurrent
  <2> DEFINE new == Stream(user, enc.write_granule)
  <2>1. /\ closed' = closed /\ enc.unrecoverable # "CLOSE_FAIL"
        /\ streams' = Append(s, new) /\ marked' = marked \ {user}
    BY <1>15 DEF ChainCurrent, KeptOpen, Last, Failed, s, last
  <2>2. new.user = user /\ new.close_at_end /\ new \in EncStreams
    <3>1. user \in Nat \ {0}
      BY <1>10
    <3> QED
      BY <1>6, <3>1 DEF Stream, EncStreams
  <2> HIDE DEF new
  <2>3. /\ DOMAIN streams' = 1..(n + 1) /\ n + 1 \in 1..(n + 1)
        /\ \A i \in 1..n : i \in 1..(n + 1) /\ streams'[i] = s[i]
        /\ streams'[n + 1] = new
    <3>1. /\ Append(s, new) \in Seq(EncStreams) /\ Len(Append(s, new)) = Len(s) + 1
          /\ \A i \in 1..Len(s) : Append(s, new)[i] = s[i]
          /\ Append(s, new)[Len(s) + 1] = new
      <4>1. s \in Seq(EncStreams) /\ new \in EncStreams
        BY <1>9, <2>2
      <4> QED
        BY <4>1, OneMore
    <3>2. DOMAIN Append(s, new) = 1..Len(Append(s, new))
      BY <3>1, LenProperties
    <3>3. n + 1 \in 1..(n + 1) /\ \A i \in 1..n : i \in 1..(n + 1)
      BY <1>2
    <3>4. streams' = Append(s, new) /\ Len(s) = n
      BY <1>9, <2>1
    <3> HIDE DEF n
    <3> QED
      BY <3>1, <3>2, <3>3, <3>4
  <2>4. InOrder'
    <3>1. SUFFICES ASSUME NEW i \in DOMAIN streams', NEW j \in DOMAIN streams', i < j
                   PROVE  /\ streams'[i].user <= streams'[j].user
                          /\ streams'[i].close_at_end => streams'[i].user < streams'[j].user
      BY DEF InOrder
    <3>2. i \in 1..n
      BY <1>2, <2>3, <3>1
    <3>3. CASE j \in 1..n
      BY <1>2, <1>3, <1>9, <2>3, <3>1, <3>2, <3>3 DEF InOrder
    <3>4. CASE j = n + 1
      <4>1. /\ streams'[j].user = user /\ streams'[i].user = streams[i].user
            /\ streams'[i].close_at_end => streams[i].close_at_end /\ i # n
        BY <1>9, <2>2, <2>3, <3>2, <3>4
      <4>2. streams[i].user <= user
        BY <1>10, <1>11, <3>2
      <4> QED
        BY <1>11, <3>2, <4>1, <4>2
    <3> QED
      BY <1>5, <2>3, <3>3, <3>4
  <2>5. ASSUME NEW u \in 1..m, ~enc.pull_api PROVE Standing(u)'
    <3>1. CASE u = user
      <4>1. Closing(u)'
        BY <2>2, <2>3, <3>1 DEF Closing
      <4>2. Unclosed(u)'
        BY <1>1, <1>12, <2>1, <2>5, <3>1 DEF Unclosed
      <4> QED
        BY <2>1, <3>1, <4>1, <4>2 DEF Standing
    <3>2. CASE u # user
      <4>1. Standing(u)
        BY <1>2, <1>3, <2>5 DEF Counts
      <4>2. (Closing(u)' <=> Closing(u)) /\ (Writing(u)' <=> Writing(u))
        <5>1. streams'[n + 1].user # u
          BY <2>2, <2>3, <3>2
        <5>2. \A i \in DOMAIN streams' : i \in 1..n \/ i = n + 1
          BY <1>5, <2>3
        <5>3. \A i \in 1..n :
                /\ streams'[i].user = streams[i].user
                /\ streams[i].user = u =>
                     (streams'[i].close_at_end <=> streams[i].close_at_end)
          BY <1>9, <2>3, <3>2
        <5> QED
          BY <1>2, <2>3, <5>1, <5>2, <5>3 DEF Closing, Writing
      <4>3. Unclosed(u)' <=> Unclosed(u)
        BY <1>1, <2>1 DEF Unclosed
      <4> QED
        BY <2>1, <3>2, <4>1, <4>2, <4>3 DEF Standing
    <3> QED
      BY <3>1, <3>2
  <2>6. Counts'
    BY <1>1, <1>2, <2>1, <2>5 DEF Counts
  <2> QED
    BY <1>1, <2>1, <2>4, <2>6 DEF FileInv
<1> QED
  BY <1>7, <1>14, <1>15

-----------------------------------------------------------------------------
(* The encoder is destroyed *)

\* Each file left open is closed by the one stream that has to.
LEMMA DestroyKeeps ==
  ASSUME IInv, FileInv, Destroy
  PROVE  FileInv'
<1> USE DEF IInv
<1> DEFINE left(u) == {i \in DOMAIN streams : streams[i].user = u /\ MustClose(streams[i])}
<1>1. /\ pc = "destroy" /\ pc' = "gone" /\ enc' = enc /\ streams' = streams
      /\ closed' = [u \in DOMAIN closed |-> closed[u] + Cardinality(left(u))]
      /\ marked' = marked
  BY DEF Destroy, bounds
<1>2. InOrder /\ Counts
  BY <1>1 DEF FileInv
<1> HIDE DEF left
<1>3. ASSUME NEW u \in DOMAIN closed, ~enc.pull_api
      PROVE  /\ enc.unrecoverable # "CLOSE_FAIL" => closed'[u] <= 1
             /\ closed'[u] = 0 => u \in marked
             /\ u \in marked => closed'[u] = 0 \/ enc.unrecoverable = "CLOSE_FAIL"
  <2>1. closed'[u] = closed[u] + Cardinality(left(u)) /\ closed[u] \in Nat
    BY <1>1, Users
  <2>2. Standing(u)
    BY <1>2, <1>3 DEF Counts
  <2>3. CASE ~Closing(u)
    <3>1. left(u) = {}
      BY <2>3 DEF Closing, left, MustClose
    <3>2. closed'[u] = closed[u]
      BY <2>1, <3>1, FS_EmptySet
    <3>3. CASE u \in marked
      <4>1. Unclosed(u)
        BY <2>2, <2>3, <3>3 DEF Standing
      <4> QED
        BY <3>2, <3>3, <4>1 DEF Unclosed
    <3>4. CASE u \notin marked
      <4>1. closed[u] = 1
        BY <2>2, <2>3, <3>4 DEF Standing
      <4> QED
        BY <3>2, <3>4, <4>1
    <3> QED
      BY <3>3, <3>4
  <2>4. CASE Closing(u)
    <3>1. PICK i \in DOMAIN streams : streams[i].user = u /\ streams[i].close_at_end
      BY <2>4 DEF Closing
    <3>2. left(u) = {i}
      <4>1. i \in left(u)
        BY <1>3, <3>1 DEF left, MustClose
      <4>2. ASSUME NEW j \in left(u) PROVE j = i
        <5>1. j \in DOMAIN streams /\ streams[j].user = u /\ streams[j].close_at_end
          BY <4>2 DEF left, MustClose
        <5>2. ASSUME NEW k \in DOMAIN streams, NEW l \in DOMAIN streams, k < l,
                     streams[k].user = u, streams[k].close_at_end, streams[l].user = u
              PROVE  FALSE
          BY <1>2, <5>2, Users DEF InOrder
        <5>3. ~(i < j) /\ ~(j < i)
          BY <3>1, <5>1, <5>2
        <5> QED
          BY <3>1, <5>1, <5>3, Users
      <4> QED
        BY <4>1, <4>2
    <3>3. Cardinality(left(u)) = 1
      BY <3>2, FS_Singleton
    <3>4. u \notin marked /\ Unclosed(u)
      BY <2>2, <2>4 DEF Standing
    <3>5. closed'[u] = closed[u] + 1
      BY <2>1, <3>3
    <3>6. closed'[u] # 0
      BY <2>1, <3>5
    <3>7. enc.unrecoverable # "CLOSE_FAIL" => closed'[u] <= 1
      BY <3>4, <3>5 DEF Unclosed
    <3> QED
      BY <3>4, <3>6, <3>7
  <2> QED
    BY <2>3, <2>4
<1>4. FilesCloseOnce'
  <2>1. DOMAIN closed' = DOMAIN closed
    BY <1>1
  <2> QED
    BY <1>1, <1>3, <2>1 DEF FilesCloseOnce
<1> QED
  BY <1>1, <1>4 DEF FileInv

-----------------------------------------------------------------------------
(* The theorem *)

LEMMA InitFileInv == Init => FileInv
<1> SUFFICES ASSUME Init PROVE FileInv
  OBVIOUS
<1>1. /\ streams = <<Stream(1, 0)>> /\ pc = "idle" /\ closed = <<0>>
      /\ enc.unrecoverable \in {"OK", "TOO_LATE"}
  BY DEF Init, NewEnc
<1>2. /\ Len(streams) = 1 /\ DOMAIN streams = {1} /\ streams # <<>>
      /\ streams[1] = Stream(1, 0) /\ Len(closed) = 1 /\ DOMAIN closed = {1} /\ closed[1] = 0
  BY <1>1
<1>3. streams[1].user = 1 /\ streams[1].close_at_end
  BY <1>2 DEF Stream
<1>4. Closing(1) /\ 1 \notin marked /\ Unclosed(1)
  BY <1>1, <1>2, <1>3 DEF Closing, Unclosed, Init
<1> QED
  BY <1>1, <1>2, <1>4 DEF FileInv, InOrder, Counts, Standing

LEMMA NextFileInv == IInv /\ FileInv /\ [Next]_vars => FileInv'
<1> SUFFICES ASSUME IInv, FileInv, [Next]_vars PROVE FileInv'
  OBVIOUS
<1>1. TypeInv
  BY DEF IInv
<1>2. CASE Calls
  BY <1>1, <1>2, FileSteps, BufferSteps, NewStreamFiles DEF Calls
<1>3. CASE Encodes
  BY <1>1, <1>3, FileSteps, BufferSteps, StreamEndsKeeps DEF Encodes
<1>4. CASE InitsStream
  BY <1>1, <1>4, FileSteps, BufferSteps DEF InitsStream
<1>5. CASE Outputs
  BY <1>1, <1>5, FileSteps DEF Outputs
<1>6. CASE Begin \/ Fill \/ Pad \/ WriteGoesOn \/ Return \/ Destroy \/ PullPage
  BY <1>1, <1>6, FileSteps, BufferSteps, DestroyKeeps
<1>7. CASE UNCHANGED vars
  BY <1>7 DEF vars, FileInv, InOrder, Counts, Standing, Writing, Closing, Unclosed,
              FilesCloseOnce
<1>8. CASE Misuse
  BY <1>1, <1>8, FileSteps
<1> QED
  BY <1>2, <1>3, <1>4, <1>5, <1>6, <1>7, <1>8 DEF Next, Goes

LEMMA FileInvImplies == IInv /\ FileInv => FilesCloseOnce
<1> SUFFICES ASSUME IInv, FileInv, pc # "gone", ~enc.pull_api,
                    enc.unrecoverable # "CLOSE_FAIL", NEW u \in DOMAIN closed
             PROVE  closed[u] <= 1
  BY DEF FileInv, FilesCloseOnce
<1>1. closed[u] = 0 \/ closed[u] = 1
  BY DEF FileInv, Counts, Standing, Unclosed
<1> QED
  BY <1>1

\* A file is closed once, whatever is written and chained between, whatever fails,
\* write(), close(), malloc() or the encoder, and whenever the encoder is destroyed:
\* at most once unless close() failed, and in the end a file is open exactly if the
\* last chain_current on it failed, also where the encoder records no failure.
THEOREM ClosedOnce == Spec => []FilesCloseOnce
<1>1. Spec => []FileInv
  BY InitFileInv, NextFileInv, SpecIInv, PTL DEF Spec
<1> QED
  BY <1>1, SpecIInv, FileInvImplies, PTL

-----------------------------------------------------------------------------
(* What a stream plays: the invariant *)

\* Streams that have ended, streams whose header has been begun, and streams whose
\* header is on a page.
Gone == Len(starts) - Len(streams)
Headed == streams # <<>> /\ (streams[1].stream_is_init \/ (Heading /\ pc # "init"))
Begun == IF Headed THEN Gone + 1 ELSE Gone
HeadPages == IF pageno = 0 /\ Begun > 0 THEN Begun - 1 ELSE Begun

\* What had been written when the next stream was made, or so far; and what was
\* written while stream n was the last.
End(n) == IF n < Len(starts) THEN starts[n + 1] ELSE enc.write_granule
Plays(n) == End(n) - starts[n]

\* The last packet of the first stream is in the packer; all of stream n is.
LastSent == call.eos /\ (pc = "sent" \/ (pc \in {"page", "output"} /\ call.then = "sent"))
Over(n) == n \in 1..Gone \/ (n = Gone + 1 /\ streams # <<>> /\ LastSent)

\* The streams end where the next one was begun, and the preskip of the first one
\* makes up for where its granule positions begin.
StartsInv ==
  /\ Gone \in Nat /\ starts # <<>> /\ starts[1] = 0
  /\ \A j \in DOMAIN streams : streams[j].end_granule = End(Gone + j)
  /\ streams # <<>> =>
       IF enc.global_granule_offset = -1
       THEN Gone = 0 /\ streams[1].granule_offset = 0
       ELSE enc.preskip + streams[1].granule_offset = starts[Gone + 1] + Lookahead
  /\ call.op # "none" /\ ~Heading /\ streams # <<>> => streams[1].stream_is_init

PageSet ==
  [segs : Seq(Data), granule : Int, cont : BOOLEAN, bos : BOOLEAN, eos : BOOLEAN, pageno : Nat]

\* What the packer holds: packets of one segment, a page's worth at most.
PackerInv ==
  /\ pend \in [segs : Seq(Data), granule : Int, eos : BOOLEAN, cont : BOOLEAN]
  /\ \A i \in DOMAIN pend.segs : Len(pend.segs[i]) = 1
  /\ Len(pend.segs) <= PagePackets
  /\ queue \in Seq(PageSet) /\ pageno \in Nat
  /\ reader = [heads |-> reader.heads, user |-> reader.user, pages |-> reader.pages,
               skip |-> reader.skip, time |-> reader.time, uneven |-> reader.uneven]
  /\ pc = "commit" => Len(call.data) = 1
  /\ pc \in {"commit", "page"} /\ (call.eos \/ call.then \in {"tags", "inited"}) => call.flush

\* The last packet of a stream says where it ends, and does not stay in the packer.
LastPacketInv ==
  /\ pend.eos => /\ pc = "page" /\ call.then = "sent" /\ call.eos
                 /\ pend.granule = Plays(Gone + 1) + enc.preskip
  /\ pc = "commit" /\ call.eos =>
       call.then = "sent" /\ call.granule = Plays(Gone + 1) + enc.preskip

\* Before the first page of a stream nothing but its header, with its preskip.
HeadInv ==
  pageno = 0 =>
    \/ Begun = 0 /\ pend.segs = <<>>
    \/ /\ pc = "commit" /\ call.then = "tags" /\ pend.segs = <<>>
       /\ call.data[1].n = enc.preskip
    \/ /\ pc = "page" /\ call.then = "tags" /\ pend.segs # <<>>
       /\ pend.segs[1][1].n = enc.preskip

\* skip says what the header of each stream tells to skip, num of which stream the
\* page read last and the pages in the queue are; a last page agrees with both.
Follows(skip, num) ==
  /\ skip \in [Nat -> Int] /\ num \in [0..Len(queue) -> Nat]
  /\ num[0] = reader.heads /\ num[Len(queue)] = HeadPages
  /\ \A i \in 1..Len(queue) :
       /\ num[i] = (IF queue[i].bos THEN num[i - 1] + 1 ELSE num[i - 1])
       /\ num[i] <= HeadPages
       /\ queue[i].bos => queue[i].segs[1][1].n = skip[num[i]]
       /\ queue[i].eos => Over(num[i]) /\ queue[i].granule = Plays(num[i]) + skip[num[i]]
  /\ reader.heads <= HeadPages /\ reader.skip = skip[reader.heads]
  /\ given.eos => /\ Over(reader.heads)
                  /\ given.granule = Plays(reader.heads) + skip[reader.heads]
  /\ Headed => skip[Gone + 1] = enc.preskip

PlayInv ==
  /\ PackerInv
  /\ Sound => /\ StartsInv /\ LastPacketInv /\ HeadInv
              /\ \E skip, num : Follows(skip, num)

-----------------------------------------------------------------------------
(* The packer: a packet is a segment, what is pending a page *)

LEMMA PacketIsSegment ==
  ASSUME NEW data \in Data, Len(data) = 1
  PROVE  Packer!Segments(data) = <<data>>
<1>1. SubSeq(data, 1, 1) = data
  BY SubSeqFull DEF Data
<1>2. 1 \div 2 + 1 = 1
  OBVIOUS
<1>3. Packer!Segments(data) = [k \in 1..1 |-> SubSeq(data, (k - 1) * 2 + 1,
                                                     IF k * 2 < 1 THEN k * 2 ELSE 1)]
  BY <1>2 DEF Packer!Segments
<1>4. Packer!Segments(data) = [k \in 1..1 |-> data]
  BY <1>1, <1>3
<1> QED
  BY <1>4

LEMMA PendingIsPage ==
  ASSUME PackerInv, pend.segs # <<>>
  PROVE  /\ Packer!NextPageOf(pend, pageno) =
              [segs |-> pend.segs, granule |-> pend.granule, cont |-> pend.cont,
               bos |-> (pageno = 0), eos |-> pend.eos, pageno |-> pageno]
         /\ Packer!RestOf(pend) = Packer!NothingPending
         /\ Packer!NextPageOf(pend, pageno) \in PageSet
<1> DEFINE n == IF Len(pend.segs) < PagePackets THEN Len(pend.segs) ELSE PagePackets
<1>1. /\ pend.segs \in Seq(Data) /\ pend.granule \in Int /\ pend.eos \in BOOLEAN
      /\ pend.cont \in BOOLEAN /\ pageno \in Nat
      /\ Len(pend.segs) \in Nat /\ Len(pend.segs) <= PagePackets /\ PagePackets \in Nat
  BY PageAssumption, LenProperties DEF PackerInv
<1>2. n = Len(pend.segs)
  BY <1>1
<1>3. 1 \in DOMAIN pend.segs /\ 1 \in 1..Len(pend.segs)
  BY <1>1, LenProperties, EmptySeq
<1>4. Len(pend.segs[1]) = 1
  BY <1>3 DEF PackerInv
<1>5. SubSeq(pend.segs, 1, Len(pend.segs)) = pend.segs
  BY <1>1, SubSeqFull
<1>6. Packer!EndsPacket(pend.segs[1])
  BY <1>4 DEF Packer!EndsPacket
<1>7. Packer!NextPageOf(pend, pageno) =
        [segs |-> pend.segs, granule |-> pend.granule, cont |-> pend.cont,
         bos |-> (pageno = 0), eos |-> pend.eos, pageno |-> pageno]
  <2>1. Packer!NextPageOf(pend, pageno) =
          [segs |-> SubSeq(pend.segs, 1, n),
           granule |-> IF \E k \in 1..n : Packer!EndsPacket(SubSeq(pend.segs, 1, n)[k])
                       THEN pend.granule ELSE -1,
           cont |-> pend.cont, bos |-> (pageno = 0),
           eos |-> pend.eos /\ n = Len(pend.segs), pageno |-> pageno]
    BY DEF Packer!NextPageOf
  <2> HIDE DEF n
  <2>2. SubSeq(pend.segs, 1, n) = pend.segs
    BY <1>2, <1>5
  <2>3. \E k \in 1..n : Packer!EndsPacket(SubSeq(pend.segs, 1, n)[k])
    BY <1>2, <1>3, <1>6, <2>2
  <2>4. (pend.eos /\ n = Len(pend.segs)) = pend.eos
    BY <1>1, <1>2
  <2> QED
    BY <2>1, <2>2, <2>3, <2>4
<1>8. Packer!RestOf(pend) = Packer!NothingPending
  BY <1>1 DEF Packer!RestOf
<1> QED
  BY <1>1, <1>7, <1>8 DEF PageSet

-----------------------------------------------------------------------------
(* The numbers *)

LEMMA PlayNumbers ==
  ASSUME TypeInv, StartsInv
  PROVE  /\ Gone \in Nat /\ Len(starts) \in Nat /\ Len(streams) \in Nat
         /\ Gone + Len(streams) = Len(starts) /\ Len(starts) > 0
         /\ (streams # <<>> <=> Len(streams) > 0)
         /\ \A n \in 1..Len(starts) : starts[n] \in Nat /\ End(n) \in Nat /\ Plays(n) \in Int
         /\ Begun \in Nat /\ Begun <= Gone + 1 /\ Gone <= Begun
         /\ HeadPages \in Nat /\ HeadPages <= Begun
         /\ \A n : Over(n) => n \in 1..Len(starts) /\ n <= Gone + 1 /\ n > 0
         /\ enc.preskip \in Nat /\ enc.write_granule \in Nat
<1>1. /\ Len(starts) \in Nat /\ Len(streams) \in Nat
      /\ DOMAIN starts = 1..Len(starts) /\ (starts # <<>> => Len(starts) > 0)
      /\ (streams # <<>> <=> Len(streams) > 0)
      /\ \A n \in 1..Len(starts) : starts[n] \in Nat
  BY LenProperties, EmptySeq, ElementOfSeq DEF TypeInv
<1>2. Gone \in Nat /\ Gone + Len(streams) = Len(starts) /\ Len(starts) > 0
  BY <1>1 DEF StartsInv, Gone
<1>3. enc.preskip \in Nat /\ enc.write_granule \in Nat
  BY DEF TypeInv, Encoders
<1>4. \A n \in 1..Len(starts) : starts[n] \in Nat /\ End(n) \in Nat /\ Plays(n) \in Int
  <2>1. SUFFICES ASSUME NEW n \in 1..Len(starts)
                 PROVE  starts[n] \in Nat /\ End(n) \in Nat /\ Plays(n) \in Int
    OBVIOUS
  <2>2. End(n) \in Nat
    BY <1>1, <1>3 DEF End
  <2> QED
    BY <1>1, <2>2 DEF Plays
<1>5. /\ Begun \in Nat /\ Begun <= Gone + 1 /\ Gone <= Begun
      /\ HeadPages \in Nat /\ HeadPages <= Begun
  <2> HIDE DEF Gone
  <2> QED
    BY <1>2 DEF Begun, HeadPages
<1>6. \A n : Over(n) => n \in 1..Len(starts) /\ n <= Gone + 1 /\ n > 0
  <2> HIDE DEF Gone
  <2> QED
    BY <1>1, <1>2 DEF Over
<1> QED
  BY <1>1, <1>2, <1>3, <1>4, <1>5, <1>6

\* A step that hands out no page, makes none and begins no stream.
LEMMA FollowsStays ==
  ASSUME NEW skip, NEW num, Follows(skip, num),
         queue' = queue, given' = given,
         reader'.heads = reader.heads, reader'.skip = reader.skip, HeadPages' = HeadPages,
         \A n : Over(n) => Over(n)' /\ Plays(n)' = Plays(n),
         Headed' => Headed /\ Gone' = Gone /\ enc'.preskip = enc.preskip
  PROVE  Follows(skip, num)'
<1>1. /\ skip \in [Nat -> Int] /\ num \in [0..Len(queue') -> Nat]
      /\ num[0] = reader'.heads /\ num[Len(queue')] = HeadPages'
  BY DEF Follows
<1>2. \A i \in 1..Len(queue') :
        /\ num[i] = (IF queue'[i].bos THEN num[i - 1] + 1 ELSE num[i - 1])
        /\ num[i] <= HeadPages'
        /\ queue'[i].bos => queue'[i].segs[1][1].n = skip[num[i]]
        /\ queue'[i].eos => Over(num[i])' /\ queue'[i].granule = Plays(num[i])' + skip[num[i]]
  <2>1. SUFFICES ASSUME NEW i \in 1..Len(queue)
        PROVE /\ num[i] = (IF queue[i].bos THEN num[i - 1] + 1 ELSE num[i - 1])
              /\ num[i] <= HeadPages
              /\ queue[i].bos => queue[i].segs[1][1].n = skip[num[i]]
              /\ queue[i].eos => Over(num[i])' /\ queue[i].granule = Plays(num[i])' + skip[num[i]]
    OBVIOUS
  <2>2. Over(num[i]) => Over(num[i])' /\ Plays(num[i])' = Plays(num[i])
    OBVIOUS
  <2> QED
    BY <2>2 DEF Follows
<1>3. /\ reader'.heads <= HeadPages' /\ reader'.skip = skip[reader'.heads]
      /\ given'.eos => /\ Over(reader.heads)'
                       /\ given'.granule = Plays(reader.heads)' + skip[reader'.heads]
      /\ Headed' => skip[Gone' + 1] = enc'.preskip
  <2>2. Over(reader.heads) => Over(reader.heads)' /\ Plays(reader.heads)' = Plays(reader.heads)
    OBVIOUS
  <2> QED
    BY <2>2 DEF Follows
<1> QED
  BY <1>1, <1>2, <1>3 DEF Follows

-----------------------------------------------------------------------------
(* Steps that have nothing to do with packets *)

SameEnds ==
  /\ starts' = starts /\ Len(streams') = Len(streams) /\ DOMAIN streams' = DOMAIN streams
  /\ (streams' = <<>> <=> streams = <<>>)
  /\ \A j \in DOMAIN streams : /\ streams'[j].end_granule = streams[j].end_granule
                               /\ streams'[j].granule_offset = streams[j].granule_offset

SameSkip ==
  /\ enc'.preskip = enc.preskip /\ enc'.write_granule = enc.write_granule
  /\ enc'.global_granule_offset = enc.global_granule_offset

Working ==
  call.op # "none" /\ ~Heading /\ streams # <<>> => streams[1].stream_is_init

QuietPlay ==
  /\ pc \notin {"commit", "page"} /\ pc' \notin {"commit", "page"}
  /\ UNCHANGED <<pend, queue, given, pageno, reader>>
  /\ SameEnds /\ SameSkip
  /\ Sound' => Sound /\ Working'
  /\ (Headed' <=> Headed) /\ (LastSent' <=> LastSent)

\* Streams that end where they ended.
LEMMA SameEndsKeep ==
  ASSUME TypeInv, StartsInv, SameEnds, SameSkip, Working'
  PROVE  /\ StartsInv' /\ Gone' = Gone
         /\ \A n : Plays(n)' = Plays(n)
         /\ (LastSent' <=> LastSent) => \A n : Over(n) => Over(n)'
         /\ (Headed' <=> Headed) => Begun' = Begun
<1>1. Gone' = Gone
  BY DEF SameEnds, Gone
<1>2. \A n : End(n)' = End(n) /\ Plays(n)' = Plays(n)
  BY DEF SameEnds, SameSkip, End, Plays
<1>3. \A j \in DOMAIN streams : streams'[j].end_granule = End(Gone + j)'
  BY <1>1, <1>2 DEF StartsInv, SameEnds
<1>4. streams # <<>> => 1 \in DOMAIN streams
  BY Fields
<1>5. streams' # <<>> =>
       IF enc'.global_granule_offset = -1
       THEN Gone' = 0 /\ streams'[1].granule_offset = 0
       ELSE enc'.preskip + streams'[1].granule_offset = starts'[Gone' + 1] + Lookahead
  BY <1>1, <1>4 DEF StartsInv, SameEnds, SameSkip
<1>6. StartsInv'
  BY <1>1, <1>3, <1>5 DEF StartsInv, SameEnds, Working
<1> QED
  BY <1>1, <1>2, <1>6 DEF Over, Begun, SameEnds

LEMMA QuietPlayKeeps ==
  ASSUME TypeInv, PlayInv, QuietPlay
  PROVE  PlayInv'
<1>1. /\ pc \notin {"commit", "page"} /\ pc' \notin {"commit", "page"}
      /\ pend' = pend /\ queue' = queue /\ given' = given /\ pageno' = pageno
      /\ reader' = reader
      /\ SameEnds /\ SameSkip /\ (Sound' => Sound /\ Working')
      /\ (Headed' <=> Headed) /\ (LastSent' <=> LastSent)
  BY DEF QuietPlay
<1>2. PackerInv'
  BY <1>1 DEF PlayInv, PackerInv
<1>3. SUFFICES ASSUME Sound, Working', StartsInv, LastPacketInv, HeadInv,
                      \E skip, num : Follows(skip, num)
               PROVE  StartsInv' /\ LastPacketInv' /\ HeadInv'
                      /\ (\E skip, num : Follows(skip, num))'
  BY <1>1, <1>2 DEF PlayInv
<1>4. /\ StartsInv' /\ Gone' = Gone /\ Begun' = Begun
      /\ \A n : Plays(n)' = Plays(n) /\ (Over(n) => Over(n)')
  BY <1>1, <1>3, SameEndsKeep
<1>5. HeadPages' = HeadPages
  BY <1>1, <1>4 DEF HeadPages
<1>6. LastPacketInv'
  BY <1>1, <1>3 DEF LastPacketInv
<1>7. HeadInv'
  BY <1>1, <1>3, <1>4 DEF HeadInv
<1>8. PICK skip, num : Follows(skip, num)
  BY <1>3
<1>9. Follows(skip, num)'
  BY <1>1, <1>4, <1>5, <1>8, FollowsStays DEF SameSkip
<1> QED
  BY <1>4, <1>6, <1>7, <1>9

LEMMA QuietSteps ==
  ASSUME IInv, PlayInv,
         \/ DeferredInit \/ FinishTooLate \/ Return \/ WriteGoesOn \/ Destroy
         \/ LoopStops \/ PagesWritten \/ Misuse
         \/ (\E op \in {"drain", "finish"} : Drain(op)) \/ FlushHeader
         \/ EncodeFrame \/ FrameDone \/ Fill \/ LoopEnds \/ Pad
         \/ (\E request \in Requests : SetFrameDuration(request))
         \/ (\E value \in DecisionDelays : SetDecisionDelay(value))
         \/ StreamInited \/ (\E samples \in Lengths : Write(samples))
  PROVE  PlayInv'
<1> USE DEF IInv
<1>1. /\ enc \in Encoders /\ streams \in Seq(EncStreams)
      /\ call.ret \in {"idle", "begin", "pad", "chained"}
      /\ call.then \in {"idle", "tags", "inited", "sent", "packet"}
      /\ pc \in {"idle", "destroy"} => call.op = "none"
      /\ pc \in {"commit", "page", "output"} => call.then # "idle"
  BY DEF TypeInv, CallStates, ControlInv
<1>2. Sound => Working
  BY DEF PlayInv, StartsInv, Working
\* The streams stay as they are.
<1>3. ASSUME UNCHANGED <<pend, queue, given, pageno, reader, streams, starts>>, SameSkip,
             pc \notin {"commit", "page"}, pc' \notin {"commit", "page"}, Sound' => Sound,
             Heading' <=> Heading, pc' = "init" <=> pc = "init", LastSent' <=> LastSent,
             \/ call'.op = "none"
             \/ call'.op = call.op
             \/ streams[1].stream_is_init
      PROVE  PlayInv'
  <2>1. SameEnds
    BY <1>3 DEF SameEnds
  <2>2. Headed' <=> Headed
    BY <1>3 DEF Headed
  <2>3. Sound' => Working'
    BY <1>2, <1>3 DEF Working
  <2> QED
    BY <1>3, <2>1, <2>2, <2>3, QuietPlayKeeps DEF QuietPlay
<1>4. CASE FinishTooLate \/ Return \/ WriteGoesOn \/ Destroy \/ LoopStops
  <2>1. SameSkip /\ (Sound' => Sound)
    BY <1>4 DEF FinishTooLate, Return, WriteGoesOn, Destroy, LoopStops, SameSkip, Sound
  <2> QED
    BY <1>1, <1>3, <1>4, <2>1 DEF FinishTooLate, Return, WriteGoesOn, Destroy, LoopStops,
         bounds, packer, Heading, LastSent, NoCall
<1>11. CASE Misuse
  <2>1. /\ pc = "idle" /\ pc' \in {"twice", "nopacker", "nostream"}
        /\ enc' = enc /\ call' = call
        /\ UNCHANGED <<pend, queue, given, pageno, reader, streams, starts>>
    BY <1>11 DEF Misuse, FlushHeaderTwice, CanFlushHeader, GetPageTooSoon, CallAfterDrain,
                 bounds, packer
  <2>2. SameSkip /\ (Sound' => Sound)
    BY <2>1 DEF SameSkip, Sound
  <2> QED
    BY <1>1, <1>3, <2>1, <2>2 DEF Heading, LastSent
<1>5. CASE PagesWritten
  <2>1. SameSkip /\ (Sound' => Sound)
    BY <1>5 DEF PagesWritten, SameSkip, Sound
  <2> QED
    BY <1>1, <1>3, <1>5, <2>1 DEF PagesWritten, bounds, packer, Heading, LastSent
<1>6. CASE \/ DeferredInit
           \/ \E request \in Requests : SetFrameDuration(request)
           \/ \E value \in DecisionDelays : SetDecisionDelay(value)
  <2>1. SameSkip /\ (Sound' => Sound)
    BY <1>1, <1>6 DEF DeferredInit, SetFrameDuration, SetDecisionDelay, Ctl, SameSkip, Sound,
         Encoders, Failed
  <2> QED
    BY <1>1, <1>3, <1>6, <2>1 DEF DeferredInit, SetFrameDuration, SetDecisionDelay, Ctl,
         bounds, packer, Heading, LastSent
<1>7. CASE EncodeFrame \/ FrameDone \/ Fill
  <2>1. SameSkip /\ (Sound' => Sound)
    BY <1>1, <1>7 DEF EncodeFrame, FrameDone, Fill, SameSkip, Sound, Encoders
  <2>2. /\ call'.op = call.op /\ pc \in {"loop", "sent", "fill"} /\ (pc = "sent" => ~call.eos)
        /\ pc' \in {"packet", "abort", "loop"}
        /\ UNCHANGED <<pend, queue, given, pageno, reader, streams, starts>>
    BY <1>7 DEF EncodeFrame, FrameDone, Fill, bounds, packer, TypeInv, CallStates
  <2> QED
    BY <1>3, <2>1, <2>2 DEF Heading, LastSent
<1>8. CASE LoopEnds \/ Pad
  <2> DEFINE e == shift_buffer(enc)
  <2>1. e \in {enc, [enc EXCEPT !.buffer_end = e.buffer_end, !.buffer_start = e.buffer_start]}
    BY <1>1 DEF shift_buffer, Encoders
  <2>2. /\ e.preskip = enc.preskip /\ e.write_granule = enc.write_granule
        /\ e.global_granule_offset = enc.global_granule_offset
        /\ e.unrecoverable = enc.unrecoverable
    BY <1>1 DEF shift_buffer, Encoders
  <2>3. e \in Encoders
    BY <1>1, ShiftFields DEF FrameInv
  <2> HIDE DEF e
  <2>4. \/ enc' \in {e, enc}
        \/ \E b : enc' = [e EXCEPT !.buffer_end = b, !.decision_delay = 0, !.draining = TRUE]
    BY <1>8 DEF LoopEnds, Pad, e
  <2>5. SameSkip /\ (Sound' => Sound)
    BY <2>2, <2>3, <2>4 DEF SameSkip, Sound, Encoders
  <2> QED
    BY <1>3, <1>8, <2>5 DEF LoopEnds, Pad, bounds, packer, Heading, LastSent
<1>9. CASE (\E op \in {"drain", "finish"} : Drain(op)) \/ FlushHeader
           \/ \E samples \in Lengths : Write(samples)
  <2>1. SameSkip /\ (Sound' => Sound)
    BY <1>9 DEF Drain, FlushHeader, Write, SameSkip, Sound
  <2>2. /\ pc = "idle" /\ pc' \in {"init", "begin", "pad"} /\ streams # <<>>
        /\ pc' # "init" => streams[1].stream_is_init
        /\ UNCHANGED <<pend, queue, given, pageno, reader, starts>>
    <3>1. CASE FlushHeader
      BY <3>1 DEF FlushHeader, CanFlushHeader, StartInit, bounds, packer
    <3>2. CASE \E op \in {"drain", "finish"} : Drain(op)
      BY <3>2 DEF Drain, StartInit, bounds, packer
    <3>3. CASE \E samples \in Lengths : Write(samples)
      BY <3>3 DEF Write, StartInit, bounds, packer
    <3> QED
      BY <1>9, <3>1, <3>2, <3>3
  <2>3. streams' = streams \/ streams' = [streams EXCEPT ![Len(streams)] =
                                [streams[Len(streams)] EXCEPT !.header_is_frozen = TRUE]]
    BY <1>9 DEF Drain, FlushHeader, Write
  <2>4. /\ Len(streams) \in DOMAIN streams /\ 1 \in DOMAIN streams
        /\ \A j \in DOMAIN streams : streams[j] \in EncStreams
    BY <2>2, Fields
  <2>5. /\ Len(streams') = Len(streams) /\ DOMAIN streams' = DOMAIN streams /\ streams' # <<>>
        /\ \A j \in DOMAIN streams : /\ streams'[j].end_granule = streams[j].end_granule
                                     /\ streams'[j].granule_offset = streams[j].granule_offset
                                     /\ streams'[j].stream_is_init = streams[j].stream_is_init
    <3> DEFINE k == Len(streams)
               s == [streams[k] EXCEPT !.header_is_frozen = TRUE]
    <3>1. CASE streams' = streams
      BY <2>2, <3>1
    <3>2. CASE streams' = [streams EXCEPT ![k] = s]
      <4>1. /\ s \in EncStreams /\ s.end_granule = streams[k].end_granule
            /\ s.granule_offset = streams[k].granule_offset
            /\ s.stream_is_init = streams[k].stream_is_init
        BY <2>4 DEF EncStreams
      <4> HIDE DEF s
      <4>2. /\ Len(streams') = Len(streams) /\ DOMAIN streams' = DOMAIN streams /\ streams' # <<>>
            /\ streams'[k] = s /\ \A j \in DOMAIN streams : j # k => streams'[j] = streams[j]
        BY <1>1, <2>4, <3>2, <4>1, SetStream
      <4> HIDE DEF k
      <4> QED
        BY <4>1, <4>2
    <3> QED
      BY <2>3, <3>1, <3>2
  <2>6. SameEnds /\ (Headed' <=> Headed) /\ Working' /\ (LastSent' <=> LastSent)
    BY <2>2, <2>4, <2>5 DEF SameEnds, Headed, Heading, Working, LastSent
  <2> QED
    BY <2>1, <2>2, <2>6, QuietPlayKeeps DEF QuietPlay
<1>10. CASE StreamInited
  <2>1. SameSkip /\ (Sound' => Sound)
    BY <1>10 DEF StreamInited, SameSkip, Sound
  <2>2. /\ pc = "inited" /\ pc' \in {"idle", "begin", "pad", "chained"} /\ streams # <<>>
        /\ UNCHANGED <<pend, queue, given, pageno, reader, starts>>
        /\ streams' = [streams EXCEPT ![1] = [streams[1] EXCEPT !.stream_is_init = TRUE]]
    BY <1>1, <1>10 DEF StreamInited, bounds, packer, StreamInv, Heading
  <2>3. /\ 1 \in DOMAIN streams /\ \A j \in DOMAIN streams : streams[j] \in EncStreams
    BY <2>2, Fields
  <2> DEFINE s == [streams[1] EXCEPT !.stream_is_init = TRUE]
  <2>4. /\ s \in EncStreams /\ s.end_granule = streams[1].end_granule
        /\ s.granule_offset = streams[1].granule_offset /\ s.stream_is_init = TRUE
    BY <2>3 DEF EncStreams
  <2> HIDE DEF s
  <2>5. /\ Len(streams') = Len(streams) /\ DOMAIN streams' = DOMAIN streams /\ streams' # <<>>
        /\ streams'[1] = s /\ \A j \in DOMAIN streams : j # 1 => streams'[j] = streams[j]
    BY <1>1, <2>2, <2>3, <2>4, SetStream DEF s
  <2>6. SameEnds /\ (Headed' <=> Headed) /\ Working' /\ (LastSent' <=> LastSent)
    BY <2>2, <2>4, <2>5 DEF SameEnds, Headed, Heading, Working, LastSent
  <2> QED
    BY <2>1, <2>2, <2>6, QuietPlayKeeps DEF QuietPlay
<1> QED
  BY <1>4, <1>5, <1>6, <1>7, <1>8, <1>9, <1>10, <1>11

-----------------------------------------------------------------------------
(* Packets on their way to the packer *)

LEMMA CommitsFields ==
  ASSUME TypeInv, NEW data, NEW granule, NEW eos, NEW flush, NEW push, NEW then,
         NEW c \in CallStates, Commits(data, granule, eos, flush, push, then, c)
  PROVE  /\ pc' = "commit" /\ call'.data = data /\ call'.granule = granule
         /\ call'.eos = eos /\ call'.flush = flush /\ call'.then = then /\ call'.op = c.op
BY DEF Commits, CallStates

\* A packet for the first stream; the last one is where what it plays ends.
LEMMA PacketComes ==
  ASSUME TypeInv, PlayInv,
         UNCHANGED <<pend, queue, given, pageno, reader, streams, starts, enc>>,
         pc \notin {"init", "commit", "page"}, pc' = "commit", call'.op = call.op,
         Heading' <=> Heading, ~LastSent,
         Len(call'.data) = 1, call'.eos \/ call'.then \in {"tags", "inited"} => call'.flush,
         call'.eos => call'.then = "sent",
         Sound /\ call'.eos => call'.granule = Plays(Gone + 1) + enc.preskip
  PROVE  PlayInv'
<1>1. PackerInv'
  BY DEF PlayInv, PackerInv
<1>2. SUFFICES ASSUME Sound, StartsInv, LastPacketInv, HeadInv,
                      \E skip, num : Follows(skip, num)
               PROVE  StartsInv' /\ LastPacketInv' /\ HeadInv'
                      /\ (\E skip, num : Follows(skip, num))'
  BY <1>1 DEF PlayInv, Sound
<1>3. SameEnds /\ SameSkip /\ Working' /\ (Headed' <=> Headed) /\ ~LastSent'
  BY <1>2 DEF SameEnds, SameSkip, Working, StartsInv, Headed, LastSent
<1>4. /\ StartsInv' /\ Gone' = Gone /\ Begun' = Begun
      /\ \A n : Plays(n)' = Plays(n) /\ (Over(n) => Over(n)')
  BY <1>2, <1>3, SameEndsKeep
<1>5. HeadPages' = HeadPages
  BY <1>4 DEF HeadPages
<1>6. LastPacketInv'
  BY <1>2, <1>4 DEF LastPacketInv
<1>7. HeadInv'
  BY <1>2, <1>4 DEF HeadInv
<1>8. PICK skip, num : Follows(skip, num)
  BY <1>2
<1>9. Follows(skip, num)'
  BY <1>3, <1>4, <1>5, <1>8, FollowsStays DEF SameSkip
<1> QED
  BY <1>4, <1>6, <1>7, <1>9

LEMMA PacketsKeep ==
  ASSUME IInv, PlayInv, Tags \/ CommitPacket \/ Chained
  PROVE  PlayInv'
<1> USE DEF IInv
<1>1. call \in CallStates
  BY DEF TypeInv
<1>2. /\ UNCHANGED <<pend, queue, given, pageno, reader, streams, starts, enc>>
      /\ pc \in {"tags", "packet", "chained"} /\ ~LastSent
  BY DEF Tags, CommitPacket, Chained, bounds, packer, LastSent
<1>3. \A kind, n : Len(Packet(kind, n)) = 1
  BY DEF Packet
<1>4. CASE Tags
  <2>1. Commits(Packet("tags", 0), 0, FALSE, TRUE, TRUE, "inited", call) /\ pc = "tags"
    BY <1>4 DEF Tags
  <2>2. /\ pc' = "commit" /\ call'.data = Packet("tags", 0) /\ call'.eos = FALSE
        /\ call'.flush = TRUE /\ call'.then = "inited" /\ call'.op = call.op
    BY <1>1, <2>1, CommitsFields
  <2>3. Heading' <=> Heading
    BY <2>1, <2>2 DEF Heading
  <2> QED
    BY <1>2, <1>3, <2>2, <2>3, PacketComes
<1>5. CASE CommitPacket
  <2> DEFINE e_o_s == enc.curr_granule >= end_granule48k
             granule == IF e_o_s THEN end_granule48k ELSE enc.curr_granule
             copied == e_o_s \/ call.key \/ call.copied
             c == [call EXCEPT !.copied = copied]
  <2>1. /\ Commits(Packet("audio", call.nb), granule - streams[1].granule_offset,
                   e_o_s, e_o_s, TRUE, "sent", c)
        /\ pc = "packet"
    BY <1>5 DEF CommitPacket
  <2>2. c \in CallStates /\ c.op = call.op
    BY <1>1 DEF CallStates
  <2> HIDE DEF c, e_o_s, granule
  <2>3. /\ pc' = "commit" /\ call'.data = Packet("audio", call.nb) /\ call'.eos = e_o_s
        /\ call'.granule = granule - streams[1].granule_offset
        /\ call'.flush = e_o_s /\ call'.then = "sent" /\ call'.op = call.op
    BY <2>1, <2>2, CommitsFields
  <2>4. ASSUME Sound, e_o_s
        PROVE  call'.granule = Plays(Gone + 1) + enc.preskip
    <3>1. InFrame /\ streams # <<>> /\ enc.global_granule_offset = Lookahead
      BY <2>1 DEF InFrame, StreamInv
    <3>0. 1 \in DOMAIN streams
      BY <3>1, Fields
    <3>2. /\ StartsInv /\ 1 \in DOMAIN streams
          /\ streams[1].end_granule \in Nat /\ streams[1].granule_offset \in Int
      BY <2>4, <3>0, Fields DEF PlayInv
    <3>3. /\ streams[1].end_granule = End(Gone + 1)
          /\ enc.preskip + streams[1].granule_offset = starts[Gone + 1] + Lookahead
      BY <3>1, <3>2, Room DEF StartsInv
    <3>4. call'.granule = streams[1].end_granule + Lookahead - streams[1].granule_offset
      <4>1. granule = end_granule48k
        BY <2>4 DEF granule
      <4>2. end_granule48k = streams[1].end_granule + Lookahead
        BY <3>1 DEF end_granule48k
      <4>3. call'.granule = granule - streams[1].granule_offset
        BY <2>3
      <4> QED
        BY <3>1, <3>2, <4>1, <4>2, <4>3, Room
    <3>5. enc.preskip \in Nat /\ starts[Gone + 1] \in Nat /\ Lookahead \in Nat
      <4>1. 1 \in 1..Len(streams) /\ Gone \in Nat /\ Gone + Len(streams) = Len(starts)
            /\ Len(streams) \in Nat /\ Len(starts) \in Nat
        BY <3>2, PlayNumbers, LenProperties DEF TypeInv
      <4>2. Gone + 1 \in 1..Len(starts)
        BY <4>1
      <4>3. starts[Gone + 1] \in Nat /\ enc.preskip \in Nat
        BY <3>2, <4>2, PlayNumbers
      <4> QED
        BY <4>3, Room
    <3>6. \A a, p, s, l \in Nat, o \in Int : p + o = s + l => a + l - o = a - s + p
      OBVIOUS
    <3> QED
      BY <3>2, <3>3, <3>4, <3>5, <3>6 DEF Plays
  <2>5. Heading' <=> Heading
    BY <2>1, <2>3 DEF Heading
  <2> QED
    BY <1>2, <1>3, <2>3, <2>4, <2>5, PacketComes
<1>6. CASE Chained
  <2> DEFINE granule == enc.curr_granule - streams[1].granule_offset - frame_size
  <2>1. CASE enc.chaining_keyframe # 0
    <3>1. /\ Commits(Packet("audio", enc.chaining_keyframe), granule,
                     FALSE, FALSE, FALSE, "packet", call)
          /\ pc = "chained"
      BY <1>6, <2>1 DEF Chained
    <3> HIDE DEF granule
    <3>2. /\ pc' = "commit" /\ call'.data = Packet("audio", enc.chaining_keyframe)
          /\ call'.eos = FALSE /\ call'.then = "packet" /\ call'.op = call.op
      BY <1>1, <3>1, CommitsFields
    <3>3. Heading' <=> Heading
      BY <3>1, <3>2 DEF Heading
    <3> QED
      BY <1>2, <1>3, <3>2, <3>3, PacketComes
  <2>2. CASE enc.chaining_keyframe = 0
    <3>1. pc = "chained" /\ pc' = "packet" /\ call' = call
      BY <1>6, <2>2 DEF Chained
    <3>2. SameEnds /\ SameSkip /\ (Sound' => Sound) /\ (Headed' <=> Headed) /\ ~LastSent'
      BY <1>2, <3>1 DEF SameEnds, SameSkip, Sound, Headed, Heading, LastSent
    <3>3. Sound' => Working'
      BY <1>2, <3>1 DEF PlayInv, StartsInv, Working, Heading, Sound
    <3> QED
      BY <1>2, <3>1, <3>2, <3>3, QuietPlayKeeps DEF QuietPlay
  <2> QED
    BY <2>1, <2>2
<1> QED
  BY <1>4, <1>5, <1>6

\* The header of a stream comes: it says what this stream tells to skip.
LEMMA InitStreamPlays ==
  ASSUME IInv, PlayInv, InitStream
  PROVE  PlayInv'
<1> USE DEF IInv
<1> DEFINE first == enc.global_granule_offset = -1
           preskip == IF first THEN Lookahead ELSE enc.preskip
<1>1. call \in CallStates /\ enc \in Encoders /\ Lookahead \in Nat
  BY Room DEF TypeInv
<1>2. /\ pc = "init" /\ pend.segs = <<>> /\ pageno' = 0
      /\ UNCHANGED <<pend, queue, given, reader, streams, starts>>
      /\ Commits(Packet("head", preskip), 0, FALSE, TRUE, TRUE, "tags", call)
      /\ enc' = [enc EXCEPT !.oggp = TRUE, !.preskip = preskip,
                   !.global_granule_offset = IF first THEN preskip ELSE enc.global_granule_offset]
  BY DEF InitStream, Packer!NewStream, bounds
<1>3. /\ enc'.preskip = preskip /\ enc'.write_granule = enc.write_granule
      /\ enc'.global_granule_offset = (IF first THEN Lookahead ELSE enc.global_granule_offset)
      /\ enc'.unrecoverable = enc.unrecoverable
      /\ preskip \in Nat
  BY <1>1, <1>2 DEF Encoders
<1> HIDE DEF preskip
<1>4. /\ pc' = "commit" /\ call'.data = Packet("head", preskip) /\ call'.eos = FALSE
      /\ call'.flush = TRUE /\ call'.then = "tags" /\ call'.op = call.op
  BY <1>1, <1>2, CommitsFields
<1>5. Len(call'.data) = 1 /\ call'.data[1].n = preskip
  BY <1>4 DEF Packet
<1>6. PackerInv'
  BY <1>2, <1>4, <1>5 DEF PlayInv, PackerInv
<1>7. SUFFICES ASSUME Sound, StartsInv, LastPacketInv, HeadInv,
                      \E skip, num : Follows(skip, num)
               PROVE  StartsInv' /\ LastPacketInv' /\ HeadInv'
                      /\ (\E skip, num : Follows(skip, num))'
  BY <1>3, <1>6 DEF PlayInv, Sound
<1>8. /\ streams # <<>> /\ ~streams[1].stream_is_init
      /\ Heading /\ Heading' /\ ~LastSent /\ ~LastSent' /\ ~Headed /\ Headed'
  BY <1>2, <1>4 DEF StreamInv, Heading, LastSent, Headed
<1>9. /\ Gone \in Nat /\ Gone' = Gone /\ Begun = Gone /\ Begun' = Gone + 1
      /\ HeadPages = Gone /\ HeadPages' = Gone
  <2>1. Gone \in Nat /\ Gone' = Gone
    BY <1>2, <1>7 DEF StartsInv, Gone
  <2>2. Begun = Gone /\ Begun' = Gone + 1
    BY <1>8, <2>1 DEF Begun
  <2>3. pageno = 0 => Begun = 0
    BY <1>2, <1>7 DEF HeadInv
  <2> QED
    BY <1>2, <2>1, <2>2, <2>3 DEF HeadPages
<1>10. StartsInv'
  <2>1. \A j \in DOMAIN streams' : streams'[j].end_granule = End(Gone + j)'
    BY <1>2, <1>3, <1>7, <1>9 DEF StartsInv, End
  <2>2. enc.preskip \in Nat /\ starts[1] = 0
    BY <1>1, <1>7 DEF Encoders, StartsInv
  <2>3. IF enc'.global_granule_offset = -1
        THEN Gone' = 0 /\ streams'[1].granule_offset = 0
        ELSE enc'.preskip + streams'[1].granule_offset = starts'[Gone' + 1] + Lookahead
    <3>1. CASE first
      BY <1>1, <1>2, <1>3, <1>7, <1>8, <1>9, <2>2, <3>1 DEF StartsInv, preskip
    <3>2. CASE ~first
      BY <1>2, <1>3, <1>7, <1>8, <1>9, <3>2 DEF StartsInv, preskip
    <3> QED
      BY <3>1, <3>2
  <2> QED
    BY <1>2, <1>7, <1>8, <1>9, <2>1, <2>2, <2>3 DEF StartsInv
<1>11. LastPacketInv'
  BY <1>2, <1>4, <1>7 DEF LastPacketInv
<1>12. HeadInv'
  BY <1>2, <1>3, <1>4, <1>5 DEF HeadInv
<1>13. PICK skip, num : Follows(skip, num)
  BY <1>7
<1>14. PICK now : /\ now \in [Nat -> Int] /\ now[Gone + 1] = preskip
                  /\ \A n \in Nat : n <= Gone => now[n] = skip[n]
  <2> DEFINE f == [skip EXCEPT ![Gone + 1] = preskip]
  <2>1. skip \in [Nat -> Int] /\ Gone + 1 \in Nat /\ preskip \in Int
    BY <1>3, <1>9, <1>13 DEF Follows
  <2>2. f \in [Nat -> Int] /\ f[Gone + 1] = preskip /\ \A n \in Nat : n <= Gone => f[n] = skip[n]
    BY <1>9, <2>1
  <2> HIDE DEF f
  <2> QED
    BY <2>2
<1>15. \A n : Plays(n)' = Plays(n) /\ (Over(n) => Over(n)')
  BY <1>2, <1>3, <1>8, <1>9 DEF Plays, End, Over
<1>16. Follows(now, num)'
  <2>1. /\ num \in [0..Len(queue') -> Nat]
        /\ num[0] = reader'.heads /\ num[Len(queue')] = HeadPages'
    BY <1>2, <1>9, <1>13 DEF Follows
  <2>2. ASSUME NEW i \in 1..Len(queue)
        PROVE /\ num[i] = (IF queue[i].bos THEN num[i - 1] + 1 ELSE num[i - 1])
              /\ num[i] <= HeadPages
              /\ queue[i].bos => queue[i].segs[1][1].n = now[num[i]]
              /\ queue[i].eos => Over(num[i])' /\ queue[i].granule = Plays(num[i])' + now[num[i]]
    <3>0. i \in 0..Len(queue)
      BY <1>6, LenProperties
    <3>1. num[i] \in Nat /\ num[i] <= HeadPages
      BY <1>13, <2>2, <3>0 DEF Follows
    <3>2. now[num[i]] = skip[num[i]]
      BY <1>9, <1>14, <3>1
    <3>3. Plays(num[i])' = Plays(num[i]) /\ (Over(num[i]) => Over(num[i])')
      BY <1>15
    <3> QED
      BY <1>13, <3>2, <3>3 DEF Follows
  <2>3. reader.heads \in Nat /\ reader.heads <= HeadPages
    <3>1. 0 \in 0..Len(queue)
      BY <1>6, LenProperties DEF PlayInv, PackerInv
    <3> QED
      BY <1>13, <3>1 DEF Follows
  <2>4. now[reader.heads] = skip[reader.heads]
    BY <1>9, <1>14, <2>3
  <2>5. Plays(reader.heads)' = Plays(reader.heads) /\ (Over(reader.heads) => Over(reader.heads)')
    BY <1>2, <1>15
  <2>6. /\ reader'.heads <= HeadPages' /\ reader'.skip = now[reader'.heads]
        /\ given'.eos => /\ Over(reader.heads)'
                         /\ given'.granule = Plays(reader.heads)' + now[reader'.heads]
    BY <1>2, <1>9, <1>13, <2>3, <2>4, <2>5 DEF Follows
  <2>7. Headed' => now[Gone' + 1] = enc'.preskip
    BY <1>3, <1>9, <1>14
  <2>8. \A i \in 1..Len(queue') :
          /\ num[i] = (IF queue'[i].bos THEN num[i - 1] + 1 ELSE num[i - 1])
          /\ num[i] <= HeadPages'
          /\ queue'[i].bos => queue'[i].segs[1][1].n = now[num[i]]
          /\ queue'[i].eos => Over(num[i])' /\ queue'[i].granule = Plays(num[i])' + now[num[i]]
    BY <1>2, <1>9, <2>2
  <2> QED
    BY <1>14, <2>1, <2>6, <2>7, <2>8 DEF Follows
<1> QED
  BY <1>10, <1>11, <1>12, <1>16

-----------------------------------------------------------------------------
(* The packer: packets in, pages made, pages handed out *)

\* A packet on its way is one of a stream whose header has been begun.
LEMMA OutputIsHeaded ==
  ASSUME IInv, StartsInv, pc \in {"commit", "page", "output"}
  PROVE  Headed /\ Begun = Gone + 1
<1> USE DEF IInv
<1>1. call.then \in {"tags", "inited", "sent", "packet"}
  BY DEF TypeInv, CallStates, ControlInv
<1>2. CASE Heading
  <2>1. streams # <<>>
    BY <1>2 DEF StreamInv
  <2> QED
    BY <1>2, <2>1 DEF Headed, Begun
<1>3. CASE ~Heading
  <2>1. InFrame
    BY <1>1, <1>3 DEF InFrame, Sending, Heading
  <2>2. streams # <<>> /\ call.op # "none"
    BY <2>1 DEF StreamInv, ControlInv
  <2> QED
    BY <1>3, <2>2 DEF StartsInv, Headed, Begun
<1> QED
  BY <1>2, <1>3

LEMMA CommitPlays ==
  ASSUME IInv, PlayInv, Commit
  PROVE  PlayInv'
<1> USE DEF IInv
<1>1. /\ call.data \in Data /\ call.granule \in Int /\ call.eos \in BOOLEAN
      /\ call.then \in {"tags", "inited", "sent", "packet"}
  BY DEF TypeInv, CallStates, ControlInv, Commit
<1>2. /\ pc = "commit" /\ pc' = "page"
      /\ UNCHANGED <<queue, given, pageno, reader, streams, starts, call, enc>>
      /\ Packer!Add(call.data, call.granule, call.eos)
  BY DEF Commit, bounds, Packer!Add
<1>3. PackerInv /\ Len(call.data) = 1 /\ pend.segs \in Seq(Data)
  BY <1>2 DEF PlayInv, PackerInv
<1>4. Packer!Segments(call.data) = <<call.data>> /\ <<call.data>> \in Seq(Data)
      /\ Len(<<call.data>>) = 1
  BY <1>1, <1>3, PacketIsSegment
<1>5. /\ pend' = [segs |-> pend.segs \o <<call.data>>, granule |-> call.granule,
                  eos |-> call.eos, cont |-> FALSE]
      /\ pend.segs # <<>> => Len(pend.segs) + 1 <= PagePackets
  BY <1>2, <1>4 DEF Packer!Add
<1>6. /\ pend'.segs = pend.segs \o <<call.data>> /\ pend'.eos = call.eos
      /\ pend'.granule = call.granule
  BY <1>5
<1>7. /\ pend'.segs \in Seq(Data) /\ Len(pend'.segs) = Len(pend.segs) + 1
      /\ \A i \in 1..(Len(pend.segs) + 1) :
           pend'.segs[i] = IF i <= Len(pend.segs) THEN pend.segs[i] ELSE call.data
      /\ Len(pend.segs) \in Nat
  <2>1. Len(pend.segs) \in Nat
    BY <1>3, LenProperties
  <2>2. /\ pend.segs \o <<call.data>> \in Seq(Data)
        /\ Len(pend.segs \o <<call.data>>) = Len(pend.segs) + 1
        /\ \A i \in 1..(Len(pend.segs) + Len(<<call.data>>)) :
             (pend.segs \o <<call.data>>)[i] =
                IF i <= Len(pend.segs) THEN pend.segs[i] ELSE <<call.data>>[i - Len(pend.segs)]
    BY <1>3, <1>4, ConcatProperties
  <2> QED
    BY <1>4, <1>6, <2>1, <2>2
<1>8. PackerInv'
  <2>1. \A i \in DOMAIN pend'.segs : Len(pend'.segs[i]) = 1
    <3>1. DOMAIN pend'.segs = 1..(Len(pend.segs) + 1) /\ DOMAIN pend.segs = 1..Len(pend.segs)
      BY <1>3, <1>7, LenProperties
    <3> QED
      BY <1>3, <1>7, <3>1 DEF PackerInv
  <2>2. Len(pend'.segs) <= PagePackets
    BY <1>3, <1>5, <1>7, PageAssumption, EmptySeq
  <2>3. pend' \in [segs : Seq(Data), granule : Int, eos : BOOLEAN, cont : BOOLEAN]
    BY <1>1, <1>5, <1>6, <1>7
  <2> QED
    BY <1>2, <1>3, <2>1, <2>2, <2>3 DEF PackerInv
<1>9. SUFFICES ASSUME Sound, StartsInv, LastPacketInv, HeadInv,
                      \E skip, num : Follows(skip, num)
               PROVE  StartsInv' /\ LastPacketInv' /\ HeadInv'
                      /\ (\E skip, num : Follows(skip, num))'
  BY <1>2, <1>8 DEF PlayInv, Sound
<1>10. Heading' <=> Heading
  BY <1>2 DEF Heading
<1>11. SameEnds /\ SameSkip /\ Working' /\ (Headed' <=> Headed) /\ ~LastSent
  BY <1>2, <1>9, <1>10 DEF SameEnds, SameSkip, Working, StartsInv, Headed, LastSent
<1>12. /\ StartsInv' /\ Gone' = Gone /\ Begun' = Begun
       /\ \A n : Plays(n)' = Plays(n)
  BY <1>9, <1>11, SameEndsKeep
<1>13. \A n : Over(n) => Over(n)'
  BY <1>11, <1>12 DEF Over
<1>14. HeadPages' = HeadPages
  BY <1>2, <1>12 DEF HeadPages
<1>15. LastPacketInv'
  BY <1>2, <1>6, <1>9, <1>12 DEF LastPacketInv
<1>16. HeadInv'
  <2>1. Begun > 0
    <3>1. Begun = Gone + 1 /\ Gone \in Nat
      BY <1>2, <1>9, OutputIsHeaded, PlayNumbers
    <3> QED
      BY <3>1
  <2>2. SUFFICES ASSUME pageno = 0
                 PROVE  call.then = "tags" /\ pend'.segs # <<>> /\ pend'.segs[1][1].n = enc.preskip
    BY <1>2 DEF HeadInv
  <2>3. call.then = "tags" /\ pend.segs = <<>> /\ call.data[1].n = enc.preskip
    BY <1>2, <1>9, <2>1, <2>2 DEF HeadInv
  <2>4. Len(pend.segs) = 0
    BY <2>3
  <2>5. pend'.segs[1] = call.data /\ Len(pend'.segs) = 1
    BY <1>7, <2>4
  <2> QED
    BY <2>3, <2>5, EmptySeq
<1>17. PICK skip, num : Follows(skip, num)
  BY <1>9
<1>18. Follows(skip, num)'
  BY <1>2, <1>11, <1>12, <1>13, <1>14, <1>17, FollowsStays DEF SameSkip
<1> QED
  BY <1>12, <1>15, <1>16, <1>18

\* No page is made: then the packet was not the last of its stream, nor a header.
LEMMA NoPagePlays ==
  ASSUME IInv, PlayInv, NoPage
  PROVE  PlayInv'
<1> USE DEF IInv
<1>1. /\ pc = "page" /\ pc' \in {"output", call.then} /\ ~call.flush
      /\ UNCHANGED <<pend, queue, given, pageno, reader, streams, starts, call, enc>>
      /\ call.then \in {"tags", "inited", "sent", "packet"}
  BY DEF NoPage, AfterPage, bounds, packer, TypeInv, CallStates, ControlInv
<1>2. PackerInv /\ ~call.eos /\ call.then \notin {"tags", "inited"}
  BY <1>1, Fields DEF PlayInv, PackerInv
<1>3. PackerInv'
  BY <1>1, <1>2 DEF PackerInv
<1>4. SUFFICES ASSUME Sound, StartsInv, LastPacketInv, HeadInv,
                      \E skip, num : Follows(skip, num)
               PROVE  StartsInv' /\ LastPacketInv' /\ HeadInv'
                      /\ (\E skip, num : Follows(skip, num))'
  BY <1>1, <1>3 DEF PlayInv, Sound
<1>5. ~Heading /\ ~Heading' /\ pc' \in {"output", "sent", "packet"}
  BY <1>1, <1>2 DEF Heading
<1>6. SameEnds /\ SameSkip /\ Working' /\ (Headed' <=> Headed) /\ ~LastSent /\ ~LastSent'
  BY <1>1, <1>2, <1>4, <1>5 DEF SameEnds, SameSkip, Working, StartsInv, Headed, LastSent
<1>7. /\ StartsInv' /\ Gone' = Gone /\ Begun' = Begun
      /\ \A n : Plays(n)' = Plays(n) /\ (Over(n) => Over(n)')
  BY <1>4, <1>6, SameEndsKeep
<1>8. HeadPages' = HeadPages
  BY <1>1, <1>7 DEF HeadPages
<1>9. LastPacketInv'
  BY <1>1, <1>2, <1>4, <1>5 DEF LastPacketInv
<1>10. HeadInv'
  BY <1>1, <1>2, <1>4, <1>7 DEF HeadInv
<1>11. PICK skip, num : Follows(skip, num)
  BY <1>4
<1>12. Follows(skip, num)'
  BY <1>1, <1>6, <1>7, <1>8, <1>11, FollowsStays DEF SameSkip
<1> QED
  BY <1>7, <1>9, <1>10, <1>12

\* What is pending becomes a page: the header of a stream its first page, and the last
\* packet of a stream, as soon as it is there, its last page.
LEMMA CutPlays ==
  ASSUME IInv, PlayInv, Packer!Cut,
         UNCHANGED <<given, reader, streams, starts, call, enc>>,
         pc' = "commit" => pc = "commit", pc' # "page",
         Heading' <=> Heading, pc # "init", pc' # "init", LastSent => LastSent'
  PROVE  PlayInv'
<1> USE DEF IInv
<1> DEFINE page == [segs |-> pend.segs, granule |-> pend.granule, cont |-> pend.cont,
                    bos |-> (pageno = 0), eos |-> pend.eos, pageno |-> pageno]
           L == Len(queue)
<1>1. PackerInv /\ pend.segs # <<>>
  BY DEF PlayInv, Packer!Cut
<1>2. /\ queue' = Append(queue, page) /\ pend' = Packer!NothingPending
      /\ pageno' = pageno + 1 /\ page \in PageSet
  BY <1>1, PendingIsPage DEF Packer!Cut
<1>3. /\ queue \in Seq(PageSet) /\ pageno \in Nat /\ L \in Nat
      /\ page.bos = (pageno = 0) /\ page.eos = pend.eos /\ page.segs = pend.segs
      /\ page.granule = pend.granule
  BY <1>1, LenProperties DEF PackerInv
<1> HIDE DEF page
<1>4. /\ queue' \in Seq(PageSet) /\ Len(queue') = L + 1
      /\ \A i \in 1..L : queue'[i] = queue[i]
      /\ queue'[L + 1] = page
  BY <1>2, <1>3, AppendProperties
<1>5. /\ pend'.segs = <<>> /\ pend'.eos = FALSE /\ pend'.granule = 0 /\ pend'.cont = FALSE
      /\ pend' \in [segs : Seq(Data), granule : Int, eos : BOOLEAN, cont : BOOLEAN]
  BY <1>2 DEF Packer!NothingPending
<1>6. PackerInv'
  <2>1. Len(pend'.segs) = 0 /\ DOMAIN pend'.segs = {}
    BY <1>5
  <2>2. Len(pend'.segs) <= PagePackets
    BY <2>1, PageAssumption
  <2> QED
    BY <1>1, <1>2, <1>3, <1>4, <1>5, <2>1, <2>2 DEF PackerInv
<1>7. SUFFICES ASSUME Sound, StartsInv, LastPacketInv, HeadInv,
                      \E skip, num : Follows(skip, num)
               PROVE  StartsInv' /\ LastPacketInv' /\ HeadInv'
                      /\ (\E skip, num : Follows(skip, num))'
  BY <1>6 DEF PlayInv, Sound
<1>8. SameEnds /\ SameSkip /\ Working' /\ (Headed' <=> Headed)
  BY <1>7 DEF SameEnds, SameSkip, Working, StartsInv, Headed
<1>9. /\ StartsInv' /\ Gone' = Gone /\ Begun' = Begun
      /\ \A n : Plays(n)' = Plays(n)
  BY <1>7, <1>8, SameEndsKeep
<1>10. \A n : Over(n) => Over(n)'
  BY <1>9 DEF Over
<1>11. LastPacketInv'
  BY <1>5, <1>7, <1>9 DEF LastPacketInv
<1>12. HeadInv'
  BY <1>2, <1>3 DEF HeadInv
<1>13. Begun \in Nat /\ Gone \in Nat /\ HeadPages' = Begun
  <2>1. Begun \in Nat /\ Gone \in Nat
    BY <1>7, PlayNumbers
  <2> QED
    BY <1>2, <1>3, <1>9, <2>1 DEF HeadPages
<1>14. \/ /\ page.bos /\ HeadPages = Begun - 1 /\ Begun = Gone + 1 /\ Headed
          /\ page.segs[1][1].n = enc.preskip /\ ~page.eos
       \/ ~page.bos /\ HeadPages = Begun
  <2>1. CASE pageno = 0
    <3>1. pc = "page" /\ call.then = "tags" /\ pend.segs[1][1].n = enc.preskip
      BY <1>1, <1>7, <2>1 DEF HeadInv
    <3>2. Headed /\ Begun = Gone + 1
      BY <1>7, <3>1, OutputIsHeaded
    <3>3. ~pend.eos
      BY <1>7, <3>1 DEF LastPacketInv
    <3>4. page.bos /\ ~page.eos /\ page.segs[1][1].n = enc.preskip
      BY <1>3, <2>1, <3>1, <3>3
    <3>5. HeadPages = Begun - 1
      BY <1>13, <2>1, <3>2 DEF HeadPages
    <3> QED
      BY <3>2, <3>4, <3>5
  <2>2. CASE pageno # 0
    BY <1>3, <2>2 DEF HeadPages
  <2> QED
    BY <2>1, <2>2
<1>15. ASSUME page.eos
       PROVE  /\ Headed /\ Begun = Gone + 1
              /\ \A n : n = Gone + 1 => Over(n)' /\ page.granule = Plays(n)' + enc.preskip
  <2>1. /\ pc = "page" /\ call.then = "sent" /\ call.eos
        /\ pend.granule = Plays(Gone + 1) + enc.preskip
    BY <1>3, <1>7, <1>15 DEF LastPacketInv
  <2>2. Headed /\ Begun = Gone + 1 /\ streams # <<>> /\ LastSent
    BY <1>7, <2>1, OutputIsHeaded DEF Headed, LastSent
  <2>3. Over(Gone + 1)
    BY <2>2 DEF Over
  <2>4. ASSUME NEW n, n = Gone + 1
        PROVE  Over(n)' /\ page.granule = Plays(n)' + enc.preskip
    <3>1. Over(n) /\ page.granule = Plays(n) + enc.preskip
      BY <1>3, <2>1, <2>3, <2>4
    <3> QED
      BY <1>9, <1>10, <3>1
  <2> QED
    BY <2>2, <2>4
<1>16. PICK skip, num : Follows(skip, num)
  BY <1>7
<1>17. /\ skip \in [Nat -> Int] /\ num \in [0..L -> Nat]
       /\ num[0] = reader.heads /\ num[L] = HeadPages
  BY <1>16 DEF Follows
<1>18. PICK now : /\ now \in [0..(L + 1) -> Nat] /\ now[L + 1] = Begun
                  /\ \A i \in 0..L : now[i] = num[i]
  <2> DEFINE f == [i \in 0..(L + 1) |-> IF i <= L THEN num[i] ELSE Begun]
  <2>1. f \in [0..(L + 1) -> Nat] /\ f[L + 1] = Begun /\ \A i \in 0..L : f[i] = num[i]
    BY <1>3, <1>13, <1>17
  <2> HIDE DEF f
  <2> QED
    BY <2>1
<1>19. now[0] = reader'.heads /\ now[Len(queue')] = HeadPages'
  BY <1>3, <1>4, <1>13, <1>17, <1>18
<1>20. HeadPages <= HeadPages' /\ HeadPages \in Nat
  BY <1>7, <1>13, PlayNumbers
<1>21. ASSUME NEW i \in 1..(L + 1)
       PROVE  /\ now[i] = (IF queue'[i].bos THEN now[i - 1] + 1 ELSE now[i - 1])
              /\ now[i] <= HeadPages'
              /\ queue'[i].bos => queue'[i].segs[1][1].n = skip[now[i]]
              /\ queue'[i].eos => Over(now[i])' /\ queue'[i].granule = Plays(now[i])' + skip[now[i]]
  <2>1. CASE i <= L
    <3>1. i \in 1..L /\ i \in 0..L /\ i - 1 \in 0..L
      BY <1>3, <2>1
    <3>2. now[i] = num[i] /\ now[i - 1] = num[i - 1] /\ queue'[i] = queue[i] /\ num[i] \in Nat
      BY <1>4, <1>17, <1>18, <3>1
    <3>3. /\ num[i] = (IF queue[i].bos THEN num[i - 1] + 1 ELSE num[i - 1])
          /\ num[i] <= HeadPages
          /\ queue[i].bos => queue[i].segs[1][1].n = skip[num[i]]
          /\ queue[i].eos => Over(num[i]) /\ queue[i].granule = Plays(num[i]) + skip[num[i]]
      BY <1>16, <3>1 DEF Follows
    <3>4. Plays(num[i])' = Plays(num[i]) /\ (Over(num[i]) => Over(num[i])')
      BY <1>9, <1>10
    <3>5. now[i] <= HeadPages'
      BY <1>13, <1>20, <3>2, <3>3
    <3> QED
      BY <3>2, <3>3, <3>4, <3>5
  <2>2. CASE i = L + 1
    <3>1. /\ queue'[i] = page /\ now[i] = Begun /\ now[i - 1] = HeadPages
          /\ now[i] <= HeadPages'
      <4>1. i - 1 = L /\ L \in 0..L
        BY <1>3, <2>2
      <4> QED
        BY <1>4, <1>13, <1>17, <1>18, <2>2, <4>1
    <3>2. Headed => skip[Gone + 1] = enc.preskip
      BY <1>16 DEF Follows
    <3>3. now[i] = (IF page.bos THEN now[i - 1] + 1 ELSE now[i - 1])
      BY <1>13, <1>14, <3>1
    <3>4. page.bos => page.segs[1][1].n = skip[now[i]]
      BY <1>14, <3>1, <3>2
    <3>5. page.eos => Over(now[i])' /\ page.granule = Plays(now[i])' + skip[now[i]]
      <4>1. SUFFICES ASSUME page.eos
                     PROVE  Over(now[i])' /\ page.granule = Plays(now[i])' + skip[now[i]]
        OBVIOUS
      <4>2. now[i] = Gone + 1 /\ skip[now[i]] = enc.preskip
        BY <1>15, <3>1, <3>2, <4>1
      <4> QED
        BY <1>15, <4>1, <4>2
    <3> QED
      BY <3>1, <3>3, <3>4, <3>5
  <2> QED
    BY <1>3, <2>1, <2>2
<1>22. reader.heads \in Nat /\ reader.heads <= HeadPages'
  <2>1. 0 \in 0..L
    BY <1>3
  <2>2. reader.heads \in Nat /\ reader.heads <= HeadPages
    BY <1>16, <1>17, <2>1 DEF Follows
  <2> QED
    BY <1>13, <1>20, <2>2
<1>23. /\ reader'.heads <= HeadPages' /\ reader'.skip = skip[reader'.heads]
       /\ given'.eos => /\ Over(reader.heads)'
                        /\ given'.granule = Plays(reader.heads)' + skip[reader'.heads]
       /\ Headed' => skip[Gone' + 1] = enc'.preskip
  <2>1. Plays(reader.heads)' = Plays(reader.heads) /\ (Over(reader.heads) => Over(reader.heads)')
    BY <1>9, <1>10
  <2> QED
    BY <1>8, <1>9, <1>16, <1>22, <2>1 DEF Follows
<1>24. Follows(skip, now)'
  BY <1>4, <1>17, <1>18, <1>19, <1>21, <1>23 DEF Follows
<1> QED
  BY <1>9, <1>11, <1>12, <1>24

\* The reader takes the first page of the queue: it counts the streams as num does.
LEMMA GivePlays ==
  ASSUME IInv, PlayInv, Packer!Give, NEW user, reader' = Reads(user, given'),
         UNCHANGED <<streams, starts, call, enc>>,
         pc \in {"output", "pull", "idle"}, pc' \in {"output", "idle"},
         Heading' <=> Heading, LastSent' <=> LastSent
  PROVE  PlayInv'
<1> USE DEF IInv
<1> DEFINE L == Len(queue)
<1>1. /\ PackerInv /\ queue # <<>> /\ given' = Head(queue) /\ queue' = Tail(queue)
      /\ pend' = pend /\ pageno' = pageno
  BY DEF PlayInv, Packer!Give
<1>2. /\ queue \in Seq(PageSet) /\ L \in Nat /\ L > 0
      /\ queue' \in Seq(PageSet) /\ Len(queue') = L - 1
      /\ \A i \in 1..(L - 1) : queue'[i] = queue[i + 1]
      /\ given' = queue[1]
  <2>1. queue \in Seq(PageSet) /\ L \in Nat /\ L > 0
    BY <1>1, LenProperties, EmptySeq DEF PackerInv
  <2>2. /\ queue' \in Seq(PageSet) /\ Len(queue') = L - 1
        /\ \A i \in 1..Len(queue') : queue'[i] = queue[i + 1]
    BY <1>1, <2>1, HeadTailProperties
  <2>3. given' = queue[1]
    BY <1>1, <2>1
  <2> QED
    BY <2>1, <2>2, <2>3
<1>3. /\ reader'.heads = IF given'.bos THEN reader.heads + 1 ELSE reader.heads
      /\ reader'.skip = IF given'.bos THEN given'.segs[1][1].n ELSE reader.skip
      /\ reader' = [heads |-> reader'.heads, user |-> reader'.user, pages |-> reader'.pages,
                    skip |-> reader'.skip, time |-> reader'.time, uneven |-> reader'.uneven]
  <2> DEFINE h == reader.heads
             u == reader.user
             p == reader.pages
             k == reader.skip
             t == reader.time
             v == reader.uneven
             d == Duration(given')
             n == given'.segs[1][1].n
  <2>1. reader = [heads |-> h, user |-> u, pages |-> p, skip |-> k, time |-> t, uneven |-> v]
    BY <1>1 DEF PackerInv
  <2>2. reader' = IF given'.bos
                  THEN [reader EXCEPT !.heads = h + 1, !.user = user, !.pages = 1,
                                      !.skip = n, !.time = 0]
                  ELSE [reader EXCEPT !.pages = p + 1, !.time = t + d]
    BY DEF Reads
  <2> HIDE DEF h, u, p, k, t, v, d, n
  <2>3. reader' = IF given'.bos
                  THEN [heads |-> h + 1, user |-> user, pages |-> 1, skip |-> n, time |-> 0,
                        uneven |-> v]
                  ELSE [heads |-> h, user |-> u, pages |-> p + 1, skip |-> k, time |-> t + d,
                        uneven |-> v]
    BY <2>1, <2>2
  <2> QED
    BY <2>3 DEF h, k, n
<1>4. PackerInv'
  BY <1>1, <1>2, <1>3 DEF PackerInv
<1>5. SUFFICES ASSUME Sound, StartsInv, LastPacketInv, HeadInv,
                      \E skip, num : Follows(skip, num)
               PROVE  StartsInv' /\ LastPacketInv' /\ HeadInv'
                      /\ (\E skip, num : Follows(skip, num))'
  BY <1>4 DEF PlayInv, Sound
<1>6. SameEnds /\ SameSkip /\ Working' /\ (Headed' <=> Headed)
  BY <1>5 DEF SameEnds, SameSkip, Working, StartsInv, Headed, Heading
<1>7. /\ StartsInv' /\ Gone' = Gone /\ Begun' = Begun
      /\ \A n : Plays(n)' = Plays(n) /\ (Over(n) => Over(n)')
  BY <1>5, <1>6, SameEndsKeep
<1>8. LastPacketInv'
  BY <1>1, <1>5 DEF LastPacketInv
<1>9. HeadInv'
  BY <1>1, <1>5, <1>7 DEF HeadInv
<1>10. HeadPages' = HeadPages
  BY <1>1, <1>7 DEF HeadPages
<1>11. PICK skip, num : Follows(skip, num)
  BY <1>5
<1>12. /\ skip \in [Nat -> Int] /\ num \in [0..L -> Nat]
       /\ num[0] = reader.heads /\ num[L] = HeadPages
  BY <1>11 DEF Follows
<1>13. \A i \in 1..L :
         /\ num[i] = (IF queue[i].bos THEN num[i - 1] + 1 ELSE num[i - 1])
         /\ num[i] <= HeadPages
         /\ queue[i].bos => queue[i].segs[1][1].n = skip[num[i]]
         /\ queue[i].eos => Over(num[i])' /\ queue[i].granule = Plays(num[i])' + skip[num[i]]
  <2>1. ASSUME NEW i \in 1..L, queue[i].eos
        PROVE  Over(num[i])' /\ queue[i].granule = Plays(num[i])' + skip[num[i]]
    <3>1. Plays(num[i])' = Plays(num[i]) /\ (Over(num[i]) => Over(num[i])')
      BY <1>7
    <3> QED
      BY <1>11, <2>1, <3>1 DEF Follows
  <2> QED
    BY <1>11, <2>1 DEF Follows
<1>14. PICK now : /\ now \in [0..(L - 1) -> Nat]
                  /\ \A i \in 0..(L - 1) : now[i] = num[i + 1]
  <2> DEFINE f == [i \in 0..(L - 1) |-> num[i + 1]]
  <2>1. f \in [0..(L - 1) -> Nat] /\ \A i \in 0..(L - 1) : f[i] = num[i + 1]
    <3>1. \A i \in 0..(L - 1) : i + 1 \in 0..L
      BY <1>2
    <3>2. \A i \in 0..(L - 1) : num[i + 1] \in Nat
      BY <1>12, <3>1
    <3> QED
      BY <3>2
  <2> HIDE DEF f
  <2> QED
    BY <2>1
<1>15. num[1] = reader'.heads /\ reader'.skip = skip[num[1]] /\ num[1] <= HeadPages
  <2>1. /\ num[1] = (IF queue[1].bos THEN num[0] + 1 ELSE num[0])
        /\ num[1] <= HeadPages
        /\ queue[1].bos => queue[1].segs[1][1].n = skip[num[1]]
    <3>1. 1 \in 1..L /\ 1 - 1 = 0
      BY <1>2
    <3> QED
      BY <1>13, <3>1
  <2>2. reader.skip = skip[reader.heads]
    BY <1>11 DEF Follows
  <2> QED
    BY <1>2, <1>3, <1>12, <2>1, <2>2
<1>16. now[0] = reader'.heads /\ now[Len(queue')] = HeadPages'
  <2>1. 0 \in 0..(L - 1) /\ L - 1 \in 0..(L - 1) /\ 0 + 1 = 1 /\ (L - 1) + 1 = L
    BY <1>2
  <2> QED
    BY <1>2, <1>10, <1>12, <1>14, <1>15, <2>1
<1>17. ASSUME NEW i \in 1..(L - 1)
       PROVE  /\ now[i] = (IF queue'[i].bos THEN now[i - 1] + 1 ELSE now[i - 1])
              /\ now[i] <= HeadPages'
              /\ queue'[i].bos => queue'[i].segs[1][1].n = skip[now[i]]
              /\ queue'[i].eos => Over(now[i])' /\ queue'[i].granule = Plays(now[i])' + skip[now[i]]
  <2>1. i \in 0..(L - 1) /\ i - 1 \in 0..(L - 1) /\ (i - 1) + 1 = i /\ i + 1 \in 1..L
        /\ (i + 1) - 1 = i
    BY <1>2
  <2>2. now[i] = num[i + 1] /\ now[i - 1] = num[i] /\ queue'[i] = queue[i + 1]
    BY <1>2, <1>14, <2>1
  <2>3. /\ num[i + 1] = (IF queue[i + 1].bos THEN num[i] + 1 ELSE num[i])
        /\ num[i + 1] <= HeadPages
        /\ queue[i + 1].bos => queue[i + 1].segs[1][1].n = skip[num[i + 1]]
    BY <1>13, <2>1
  <2>4. queue[i + 1].eos => /\ Over(now[i])'
                            /\ queue[i + 1].granule = Plays(now[i])' + skip[now[i]]
    <3>1. \A j \in 1..L : \A n : n = num[j] /\ queue[j].eos =>
             Over(n)' /\ queue[j].granule = Plays(n)' + skip[n]
      BY <1>13
    <3> QED
      BY <2>1, <2>2, <3>1
  <2> QED
    BY <1>10, <2>2, <2>3, <2>4
<1>18. given'.eos => /\ Over(reader.heads)'
                     /\ given'.granule = Plays(reader.heads)' + skip[reader'.heads]
  <2>1. \A n : n = num[1] /\ queue[1].eos => Over(n)' /\ queue[1].granule = Plays(n)' + skip[n]
    BY <1>2, <1>13
  <2> QED
    BY <1>2, <1>15, <2>1
<1>19. Headed' => skip[Gone' + 1] = enc'.preskip
  BY <1>6, <1>7, <1>11 DEF Follows
<1>20. Follows(skip, now)'
  BY <1>2, <1>10, <1>12, <1>14, <1>15, <1>16, <1>17, <1>18, <1>19 DEF Follows
<1> QED
  BY <1>7, <1>8, <1>9, <1>20

\* The steps of the packer.
LEMMA OutputsPlay ==
  ASSUME IInv, PlayInv,
         \/ FlushBefore \/ Commit \/ Page \/ NoPage \/ WritePage \/ PullPage
         \/ \E flush \in BOOLEAN : GetPage(flush)
  PROVE  PlayInv'
<1>1. /\ call.then \in {"idle", "tags", "inited", "sent", "packet"}
      /\ pc = "page" => call.then # "idle"
  BY DEF IInv, TypeInv, CallStates, ControlInv
<1>2. CASE FlushBefore
  <2>1. /\ Packer!Cut /\ UNCHANGED <<given, reader, streams, starts, call, enc>>
        /\ pc = "commit" /\ pc' = "commit"
    BY <1>2 DEF FlushBefore, bounds, Packer!Cut
  <2> QED
    BY <2>1, CutPlays DEF Heading, LastSent
<1>3. CASE Page
  <2>1. /\ Packer!Cut /\ UNCHANGED <<given, reader, streams, starts, call, enc>>
        /\ pc = "page" /\ pc' \in {"output", call.then}
    BY <1>3 DEF Page, AfterPage, bounds, Packer!Cut
  <2>2. Heading' <=> Heading
    BY <1>1, <2>1 DEF Heading
  <2>3. LastSent => LastSent'
    BY <1>1, <2>1 DEF LastSent
  <2> QED
    BY <1>1, <2>1, <2>2, <2>3, CutPlays
<1>4. CASE WritePage
  <2>1. /\ Packer!Give /\ reader' = Reads(streams[1].user, given')
        /\ UNCHANGED <<streams, starts, call, enc>> /\ pc = "output" /\ pc' = "output"
    BY <1>4 DEF WritePage, bounds
  <2> QED
    BY <2>1, GivePlays DEF Heading, LastSent
<1>5. CASE PullPage
  <2>1. /\ Packer!Give /\ reader' = Reads(1, given')
        /\ UNCHANGED <<streams, starts, call, enc>> /\ pc = "pull" /\ pc' = "idle"
    BY <1>5 DEF PullPage, bounds
  <2> QED
    BY <2>1, GivePlays DEF Heading, LastSent
<1>6. CASE GetPage(FALSE)
  <2>1. /\ Packer!Give /\ reader' = Reads(1, given')
        /\ UNCHANGED <<streams, starts, call, enc>> /\ pc = "idle" /\ pc' = "idle"
    BY <1>6 DEF GetPage, bounds
  <2> QED
    BY <2>1, GivePlays DEF Heading, LastSent
<1>7. CASE GetPage(TRUE)
  <2>1. /\ Packer!Cut /\ UNCHANGED <<given, reader, streams, starts, call, enc>>
        /\ pc = "idle" /\ pc' = "pull"
    BY <1>7 DEF GetPage, bounds, Packer!Cut
  <2> QED
    BY <2>1, CutPlays DEF Heading, LastSent
<1> QED
  BY <1>2, <1>3, <1>4, <1>5, <1>6, <1>7, CommitPlays, NoPagePlays

-----------------------------------------------------------------------------
(* Streams made, lengthened and ended *)

\* The packer does not move; what is over stays over and plays what it played.
LEMMA StreamsMove ==
  ASSUME PlayInv,
         UNCHANGED <<pend, queue, given, pageno>>,
         reader' = reader \/ \E u : reader' = [reader EXCEPT !.uneven = u],
         pc \notin {"commit", "page"}, pc' \notin {"commit", "page"},
         Sound' => /\ Sound /\ StartsInv' /\ Begun' = Begun
                   /\ \A n : Over(n) => Over(n)' /\ Plays(n)' = Plays(n)
                   /\ Headed' => Headed /\ Gone' = Gone /\ enc'.preskip = enc.preskip
  PROVE  PlayInv'
<1>1. /\ reader'.heads = reader.heads /\ reader'.skip = reader.skip
      /\ reader' = [heads |-> reader'.heads, user |-> reader'.user, pages |-> reader'.pages,
                    skip |-> reader'.skip, time |-> reader'.time, uneven |-> reader'.uneven]
  <2> DEFINE h == reader.heads
             u == reader.user
             p == reader.pages
             k == reader.skip
             t == reader.time
             v == reader.uneven
  <2>1. reader = [heads |-> h, user |-> u, pages |-> p, skip |-> k, time |-> t, uneven |-> v]
    BY DEF PlayInv, PackerInv
  <2> HIDE DEF h, u, p, k, t, v
  <2>2. \E w : reader' = [heads |-> h, user |-> u, pages |-> p, skip |-> k, time |-> t,
                          uneven |-> w]
    BY <2>1
  <2>3. reader'.heads = h /\ reader'.skip = k
    BY <2>2
  <2> QED
    BY <2>2, <2>3 DEF h, k
<1>2. PackerInv'
  BY <1>1 DEF PlayInv, PackerInv
<1>3. SUFFICES ASSUME Sound'
               PROVE  StartsInv' /\ LastPacketInv' /\ HeadInv'
                      /\ (\E skip, num : Follows(skip, num))'
  BY <1>2 DEF PlayInv
<1>4. /\ Sound /\ StartsInv' /\ Begun' = Begun
      /\ \A n : Over(n) => Over(n)' /\ Plays(n)' = Plays(n)
      /\ Headed' => Headed /\ Gone' = Gone /\ enc'.preskip = enc.preskip
      /\ LastPacketInv /\ HeadInv /\ \E skip, num : Follows(skip, num)
  BY <1>3 DEF PlayInv
<1>5. HeadPages' = HeadPages
  BY <1>4 DEF HeadPages
<1>6. LastPacketInv'
  BY <1>4 DEF LastPacketInv
<1>7. HeadInv'
  BY <1>4 DEF HeadInv
<1>8. PICK skip, num : Follows(skip, num)
  BY <1>4
<1>9. Follows(skip, num)'
  BY <1>1, <1>4, <1>5, <1>8, FollowsStays
<1> QED
  BY <1>4, <1>6, <1>7, <1>9

\* More is written: the last stream is not over, the others end where they did.
LEMMA BeginPlays ==
  ASSUME IInv, PlayInv, Begin
  PROVE  PlayInv'
<1> USE DEF IInv
<1> DEFINE w == enc.write_granule + call.left
           n == Len(streams)
           s == [streams[n] EXCEPT !.end_granule = w]
<1>1. /\ pc = "begin" /\ pc' = "fill" /\ enc' = [enc EXCEPT !.write_granule = w]
      /\ streams' = [streams EXCEPT ![n] = s]
      /\ UNCHANGED <<pend, queue, given, pageno, reader, starts>>
  <2>1. enc' = [enc EXCEPT !.write_granule = w] /\ enc \in Encoders
    BY DEF Begin, TypeInv
  <2>2. enc'.write_granule = w
    BY <2>1 DEF Encoders
  <2> QED
    BY <2>1, <2>2 DEF Begin, bounds, packer
<1>2. ~Heading /\ ~Heading' /\ streams # <<>> /\ call.op = "write"
  BY <1>1 DEF Heading, ControlInv, StreamInv
<1>3. /\ n \in Nat /\ n > 0 /\ 1 \in 1..n /\ n \in 1..n /\ DOMAIN streams = 1..n
      /\ streams \in Seq(EncStreams) /\ streams[n] \in EncStreams /\ w \in Nat
  <2>1. n \in Nat /\ n > 0 /\ DOMAIN streams = 1..n
    BY <1>2, Fields
  <2>2. 1 \in 1..n /\ n \in 1..n
    BY <2>1
  <2>3. streams \in Seq(EncStreams) /\ streams[n] \in EncStreams
    BY <2>1, <2>2, Fields DEF TypeInv
  <2>4. enc.write_granule \in Nat /\ call.left \in Nat
    BY Numbers
  <2>5. w \in Nat
    BY <2>4
  <2> HIDE DEF w
  <2> QED
    BY <2>1, <2>2, <2>3, <2>5
<1> HIDE DEF w
<1>4. /\ s \in EncStreams /\ s.end_granule = w
      /\ s.granule_offset = streams[n].granule_offset
      /\ s.stream_is_init = streams[n].stream_is_init
  BY <1>3 DEF EncStreams
<1> HIDE DEF s, n
<1>5. /\ Len(streams') = n /\ streams'[n] = s
      /\ \A i \in 1..n : i # n => streams'[i] = streams[i]
      /\ DOMAIN streams' = 1..n /\ streams' # <<>>
  <2>1. n = Len(streams)
    BY DEF n
  <2> QED
    BY <1>1, <1>3, <1>4, <2>1, ExceptSeq, LenProperties, EmptySeq
<1>6. /\ enc'.write_granule = w /\ enc'.preskip = enc.preskip
      /\ enc'.global_granule_offset = enc.global_granule_offset
      /\ enc'.unrecoverable = enc.unrecoverable
  <2>1. enc \in Encoders
    BY DEF TypeInv
  <2> QED
    BY <1>1, <1>3, <2>1 DEF Encoders
<1>7. /\ streams'[1].granule_offset = streams[1].granule_offset
      /\ streams'[1].stream_is_init = streams[1].stream_is_init
  BY <1>3, <1>4, <1>5
<1>8. SUFFICES ASSUME Sound, StartsInv
               PROVE  /\ StartsInv' /\ Begun' = Begun
                      /\ \A k : Over(k) => Over(k)' /\ Plays(k)' = Plays(k)
                      /\ Gone' = Gone /\ (Headed' <=> Headed)
  <2>1. Sound' => Sound /\ StartsInv
    BY <1>6 DEF Sound, PlayInv
  <2> QED
    BY <1>1, <1>6, <1>8, <2>1, StreamsMove
<1>9. /\ Gone' = Gone /\ Gone \in Nat /\ Gone + n = Len(starts) /\ Len(starts) \in Nat
      /\ (Headed' <=> Headed) /\ ~LastSent /\ ~LastSent'
  <2>1. Gone' = Gone
    BY <1>1, <1>5 DEF Gone, n
  <2> QED
    BY <1>1, <1>2, <1>5, <1>7, <1>8, <2>1, PlayNumbers DEF n, Headed, LastSent
<1>10. Begun' = Begun
  BY <1>9 DEF Begun
<1>11. \A k \in Nat : k < Len(starts) => End(k)' = End(k) /\ Plays(k)' = Plays(k)
  BY <1>1 DEF End, Plays
<1>12. \A k : Over(k) => Over(k)' /\ Plays(k)' = Plays(k)
  <2>1. SUFFICES ASSUME NEW k, Over(k)
                 PROVE  Over(k)' /\ Plays(k)' = Plays(k)
    OBVIOUS
  <2>2. k \in 1..Gone
    BY <1>9, <2>1 DEF Over
  <2>3. k \in Nat /\ k < Len(starts)
    BY <1>3, <1>9, <2>2
  <2>4. Over(k)'
    BY <1>9, <2>2 DEF Over
  <2> QED
    BY <1>11, <2>3, <2>4
<1>13. \A j \in DOMAIN streams' : streams'[j].end_granule = End(Gone + j)'
  <2>1. SUFFICES ASSUME NEW j \in 1..n PROVE streams'[j].end_granule = End(Gone + j)'
    BY <1>5, <1>9
  <2>2. CASE j = n
    <3>1. Gone + j = Len(starts)
      BY <1>9, <2>2
    <3>2. \A k : k = Gone + j => End(k)' = w
      BY <1>1, <1>6, <1>9, <3>1 DEF End
    <3> QED
      BY <1>4, <1>5, <1>9, <2>2, <3>2
  <2>3. CASE j # n
    <3>1. Gone + j < Len(starts) /\ Gone + j \in Nat
      BY <1>3, <1>9, <2>1, <2>3
    <3>2. \A k : k = Gone + j => End(k)' = End(k)
      BY <1>11, <3>1
    <3> QED
      BY <1>3, <1>5, <1>8, <1>9, <2>1, <2>3, <3>2 DEF StartsInv
  <2> QED
    BY <2>2, <2>3
<1>14. StartsInv'
  BY <1>1, <1>2, <1>5, <1>6, <1>7, <1>8, <1>9, <1>13 DEF StartsInv
<1> QED
  BY <1>9, <1>10, <1>12, <1>14

\* A new stream: the one before it ends, for good, where writing has come to.
LEMMA NewStreamPlays ==
  ASSUME IInv, PlayInv, pc = "idle", streams # <<>>, NEW s, AsLong(s), NEW u \in Nat \ {0},
         streams' = Append(s, Stream(u, enc.write_granule)),
         starts' = Append(starts, enc.write_granule),
         UNCHANGED <<enc, pc, call, reader, pend, queue, given, pageno>>
  PROVE  PlayInv'
<1> USE DEF IInv
<1> DEFINE n == Len(streams)
           m == Len(starts)
           new == Stream(u, enc.write_granule)
<1>1. /\ n \in Nat /\ n > 0 /\ DOMAIN streams = 1..n /\ 1 \in 1..n
      /\ s \in Seq(EncStreams) /\ Len(s) = n
      /\ starts \in Seq(Nat) /\ m \in Nat /\ enc.write_granule \in Nat
      /\ \A i \in 1..n : /\ s[i].end_granule = streams[i].end_granule
                         /\ s[i].granule_offset = streams[i].granule_offset
                         /\ s[i].stream_is_init = streams[i].stream_is_init
  <2>1. n \in Nat /\ n > 0 /\ DOMAIN streams = 1..n /\ enc.write_granule \in Nat
    BY Fields
  <2>2. starts \in Seq(Nat) /\ m \in Nat
    BY LenProperties DEF TypeInv
  <2>3. s \in Seq(EncStreams) /\ Len(s) = n
    BY DEF AsLong
  <2>4. \A i \in DOMAIN streams : /\ s[i].end_granule = streams[i].end_granule
                                  /\ s[i].granule_offset = streams[i].granule_offset
                                  /\ s[i].stream_is_init = streams[i].stream_is_init
    BY DEF AsLong
  <2> HIDE DEF m, n
  <2>5. 1 \in 1..n
    BY <2>1
  <2> QED
    BY <2>1, <2>2, <2>3, <2>4, <2>5
<1>2. new \in EncStreams /\ new.end_granule = enc.write_granule
  BY <1>1 DEF Stream, EncStreams
<1> HIDE DEF new
<1>3. /\ Len(streams') = n + 1 /\ streams' # <<>> /\ streams' \in Seq(EncStreams)
      /\ \A i \in 1..n : streams'[i] = s[i]
      /\ streams'[n + 1] = new
  <2>1. streams' = Append(s, new)
    BY DEF new
  <2> HIDE DEF n
  <2> QED
    BY <1>1, <1>2, <2>1, OneMore
<1>4. /\ Len(starts') = m + 1 /\ starts' # <<>>
      /\ \A i \in 1..m : starts'[i] = starts[i]
      /\ starts'[m + 1] = enc.write_granule
  <2> DEFINE w == enc.write_granule
  <2>1. starts' = Append(starts, w) /\ w \in Nat /\ starts \in Seq(Nat)
    BY <1>1
  <2> HIDE DEF w
  <2>2. /\ Append(starts, w) # <<>>
        /\ Len(Append(starts, w)) = Len(starts) + 1
        /\ \A i \in 1..Len(starts) : Append(starts, w)[i] = starts[i]
        /\ Append(starts, w)[Len(starts) + 1] = w
    BY <2>1, OneMore
  <2> QED
    BY <2>1, <2>2 DEF w
<1>5. DOMAIN streams' = 1..(n + 1)
  BY <1>3, LenProperties
<1>6. ~Heading /\ ~Heading' /\ call.op = "none" /\ ~LastSent /\ ~LastSent'
  BY DEF Heading, ControlInv, LastSent
<1>7. SUFFICES ASSUME Sound, StartsInv
               PROVE  /\ StartsInv' /\ Begun' = Begun
                      /\ \A k : Over(k) => Over(k)' /\ Plays(k)' = Plays(k)
                      /\ Gone' = Gone /\ (Headed' <=> Headed)
  <2>1. Sound' => Sound /\ StartsInv
    BY DEF Sound, PlayInv
  <2> QED
    BY <1>7, <2>1, StreamsMove
<1>8. /\ Gone' = Gone /\ Gone \in Nat /\ Gone + n = m /\ (Headed' <=> Headed) /\ m > 0
  <2>1. Gone \in Nat /\ Gone + n = m /\ m > 0
    BY <1>7, PlayNumbers
  <2>2. Gone' = Gone
    BY <1>1, <1>3, <1>4 DEF Gone
  <2> QED
    BY <1>1, <1>3, <1>6, <2>1, <2>2 DEF Headed
<1> HIDE DEF n, m
<1>9. \A k \in 1..m : End(k)' = End(k) /\ Plays(k)' = Plays(k)
  <2>1. SUFFICES ASSUME NEW k \in 1..m PROVE End(k)' = End(k) /\ Plays(k)' = Plays(k)
    OBVIOUS
  <2>2. End(k)' = starts'[k + 1]
    <3>1. k < Len(starts')
      BY <1>1, <1>4, <2>1
    <3> QED
      BY <3>1 DEF End
  <2>3. CASE k < m
    <3>1. k + 1 \in 1..m
      BY <1>1, <2>1, <2>3
    <3>2. End(k) = starts[k + 1]
      BY <2>3 DEF End, m
    <3> QED
      BY <1>4, <2>1, <2>2, <3>1, <3>2 DEF Plays
  <2>4. CASE k = m
    <3>1. End(k) = enc.write_granule
      BY <1>1, <2>4 DEF End, m
    <3> QED
      BY <1>4, <2>1, <2>2, <2>4, <3>1 DEF Plays
  <2> QED
    BY <1>1, <2>1, <2>3, <2>4
<1>10. \A k : Over(k) => Over(k)' /\ Plays(k)' = Plays(k)
  <2>1. \A k : Over(k) => k \in 1..m
    BY <1>7, PlayNumbers DEF m
  <2>2. \A k : Over(k) => Over(k)'
    BY <1>6, <1>8 DEF Over
  <2> QED
    BY <1>9, <2>1, <2>2
<1>11. \A j \in DOMAIN streams' : streams'[j].end_granule = End(Gone + j)'
  <2>1. SUFFICES ASSUME NEW j \in 1..(n + 1) PROVE streams'[j].end_granule = End(Gone + j)'
    BY <1>5, <1>8
  <2>2. CASE j = n + 1
    <3>1. Gone + j = m + 1
      BY <1>1, <1>8, <2>2
    <3>2. \A k : k = Gone + j => End(k)' = enc.write_granule
      BY <1>1, <1>4, <3>1 DEF End
    <3> QED
      BY <1>2, <1>3, <1>8, <2>2, <3>2
  <2>3. CASE j # n + 1
    <3>1. j \in 1..n /\ Gone + j \in 1..m
      BY <1>1, <1>8, <2>1, <2>3
    <3>2. \A k : k = Gone + j => End(k)' = End(k)
      BY <1>9, <3>1
    <3>3. streams[j].end_granule = End(Gone + j)
      BY <1>1, <1>7, <3>1 DEF StartsInv
    <3> QED
      BY <1>1, <1>3, <1>8, <3>1, <3>2, <3>3
  <2> QED
    BY <2>2, <2>3
<1>12. StartsInv'
  <2>1. starts'[1] = 0 /\ 1 \in 1..m
    BY <1>1, <1>4, <1>7, <1>8 DEF StartsInv
  <2>2. Gone + 1 \in 1..m
    BY <1>1, <1>8
  <2>3. IF enc.global_granule_offset = -1
        THEN Gone = 0 /\ streams'[1].granule_offset = 0
        ELSE enc.preskip + streams'[1].granule_offset = starts'[Gone + 1] + Lookahead
    BY <1>1, <1>3, <1>4, <1>7, <2>2 DEF StartsInv
  <2> QED
    BY <1>4, <1>6, <1>8, <1>11, <2>1, <2>3 DEF StartsInv
<1>13. Begun' = Begun
  BY <1>8 DEF Begun
<1> QED
  BY <1>8, <1>10, <1>12, <1>13

LEMMA NewStreamsPlay ==
  ASSUME IInv, PlayInv, ContinueNew \/ ChainCurrent \/ ChainFails
  PROVE  PlayInv'
<1> USE DEF IInv
<1>1. /\ pc = "idle" /\ streams # <<>>
      /\ UNCHANGED <<enc, pc, call, reader, pend, queue, given, pageno>>
  BY DEF ContinueNew, ChainCurrent, ChainFails, packer
<1>2. streams \in Seq(EncStreams) /\ closed \in Seq(Nat) /\ Len(closed) \in Nat
  BY LenProperties DEF TypeInv
<1>3. CASE ContinueNew
  <2>1. /\ closed' = Append(closed, 0)
        /\ streams' = Append(streams, Stream(Len(closed'), enc.write_granule))
        /\ starts' = Append(starts, enc.write_granule)
    BY <1>3 DEF ContinueNew
  <2>2. Len(closed') \in Nat \ {0}
    BY <1>2, <2>1, AppendProperties
  <2>3. AsLong(streams)
    BY <1>2 DEF AsLong
  <2> QED
    BY <1>1, <2>1, <2>2, <2>3, NewStreamPlays
<1>4. CASE ChainCurrent \/ ChainFails
  <2> DEFINE n == Len(streams)
             last == [streams[n] EXCEPT !.close_at_end = FALSE]
             s == [streams EXCEPT ![n] = last]
  <2>1. \/ streams' = s /\ starts' = starts
        \/ /\ streams' = Append(s, Stream(streams[n].user, enc.write_granule))
           /\ starts' = Append(starts, enc.write_granule)
    BY <1>4 DEF ChainCurrent, ChainFails, KeptOpen, Last, bounds
  <2>2. n \in DOMAIN streams /\ streams[n] \in EncStreams
    <3>1. n \in Nat /\ n # 0 /\ DOMAIN streams = 1..n
      BY <1>1, <1>2, LenProperties, EmptySeq
    <3>2. n \in DOMAIN streams
      BY <3>1
    <3> QED
      BY <1>2, <3>2, ElementOfSeq
  <2>3. /\ last \in EncStreams /\ last.user = streams[n].user
        /\ last.end_granule = streams[n].end_granule
        /\ last.granule_offset = streams[n].granule_offset
        /\ last.stream_is_init = streams[n].stream_is_init
    BY <2>2 DEF EncStreams
  <2> HIDE DEF last
  <2>4. /\ s \in Seq(EncStreams) /\ Len(s) = n /\ s[n] = last
        /\ \A i \in DOMAIN streams : i # n => s[i] = streams[i]
    BY <1>2, <2>2, <2>3, ExceptSeq
  <2> HIDE DEF s
  <2>5. AsLong(s)
    BY <2>2, <2>3, <2>4 DEF AsLong
  <2>6. streams[n].user \in Nat \ {0}
    BY <2>2 DEF EncStreams
  <2>7. CASE streams' = s /\ starts' = starts
    <3>1. SameEnds
      <4>1. DOMAIN s = DOMAIN streams /\ s # <<>>
        BY <1>1, <1>2, <2>4, LenProperties, EmptySeq
      <4> QED
        BY <1>1, <2>4, <2>5, <2>7, <4>1 DEF SameEnds, AsLong
    <3>2. 1 \in DOMAIN streams
      BY <1>1, Fields
    <3>3. streams'[1].stream_is_init = streams[1].stream_is_init
      BY <2>5, <2>7, <3>2 DEF AsLong
    <3>4. /\ (Headed' <=> Headed) /\ (LastSent' <=> LastSent) /\ Working' /\ SameSkip
          /\ (Sound' => Sound)
      <4>1. call'.op = "none"
        BY <1>1 DEF ControlInv
      <4> QED
        BY <1>1, <3>1, <3>3, <4>1 DEF Headed, Heading, LastSent, Working, SameSkip, Sound,
                                      SameEnds
    <3> QED
      BY <1>1, <3>1, <3>4, QuietPlayKeeps DEF QuietPlay
  <2> QED
    BY <1>1, <2>1, <2>5, <2>6, <2>7, NewStreamPlays
<1> QED
  BY <1>3, <1>4

\* The first stream ends: it was over when its last packet had been sent.
LEMMA SentIsOver ==
  ASSUME IInv, StartsInv, pc = "sent", call.eos, streams # <<>>
  PROVE  /\ Headed /\ Begun = Gone + 1
         /\ \A k : Over(k) => k \in 1..(Gone + 1)
<1>1. InFrame /\ ~Heading
  BY DEF InFrame, Heading
<1>2. call.op # "none"
  BY <1>1 DEF IInv, ControlInv
<1>3. Headed
  BY <1>1, <1>2 DEF StartsInv, Headed
<1>4. Gone \in Nat
  BY DEF StartsInv
<1>5. \A k : Over(k) => k \in 1..(Gone + 1)
  BY <1>4 DEF Over
<1> QED
  BY <1>3, <1>5 DEF Begun

LEMMA LastStreamEndsPlays ==
  ASSUME IInv, PlayInv, LastStreamEnds
  PROVE  PlayInv'
<1> USE DEF IInv
<1>1. /\ pc = "sent" /\ call.eos /\ Len(streams) = 1 /\ pc' = "encoded" /\ streams' = <<>>
      /\ UNCHANGED <<enc, call, starts, reader, pend, queue, given, pageno>>
  BY DEF LastStreamEnds, bounds, packer
<1>2. streams # <<>>
  BY <1>1, Fields
<1>3. SUFFICES ASSUME Sound, StartsInv
               PROVE  /\ StartsInv' /\ Begun' = Begun /\ ~Headed'
                      /\ \A k : Over(k) => Over(k)' /\ Plays(k)' = Plays(k)
  <2>1. Sound' => Sound /\ StartsInv
    BY <1>1 DEF Sound, PlayInv
  <2> QED
    BY <1>1, <1>3, <2>1, StreamsMove
<1>4. Gone \in Nat /\ Gone + 1 = Len(starts) /\ Gone' = Gone + 1
  <2>1. Gone \in Nat /\ Gone + 1 = Len(starts) /\ Len(starts) \in Nat
    BY <1>1, <1>3, PlayNumbers
  <2>2. Gone' = Len(starts)
    BY <1>1, <2>1 DEF Gone
  <2> QED
    BY <2>1, <2>2
<1>5. Begun = Gone + 1 /\ \A k : Over(k) => k \in 1..(Gone + 1)
  BY <1>1, <1>2, <1>3, SentIsOver
<1>6. ~Headed' /\ Begun' = Begun
  BY <1>1, <1>4, <1>5 DEF Headed, Begun
<1>7. \A k : Over(k) => Over(k)' /\ Plays(k)' = Plays(k)
  BY <1>1, <1>4, <1>5 DEF Over, Plays, End
<1>8. StartsInv'
  BY <1>1, <1>3, <1>4 DEF StartsInv
<1> QED
  BY <1>6, <1>7, <1>8

\* The next stream: its preskip and its offset put its end where writing had come to
\* when the one after it was made.
LEMMA NextStreamPlays ==
  ASSUME IInv, PlayInv, NextStreamBegins
  PROVE  PlayInv'
<1> USE DEF IInv
<1> DEFINE again == IF enc.chaining_keyframe # 0 THEN frame_size ELSE 0
           p == end_granule48k + frame_size - enc.curr_granule + again
           o == enc.curr_granule - frame_size - again
           t == Tail(streams)
           s == [t[1] EXCEPT !.granule_offset = o]
           uneven == reader.uneven \/ enc.chaining_keyframe \notin {0, frame_size}
<1>1. /\ pc = "sent" /\ call.eos /\ Len(streams) > 1
      /\ enc' = [enc EXCEPT !.preskip = p]
      /\ streams' = [t EXCEPT ![1] = s]
      /\ pc' = "init" /\ reader' = [reader EXCEPT !.uneven = uneven]
      /\ UNCHANGED <<starts, pend, queue, given, pageno>>
  BY DEF NextStreamBegins, bounds, packer, StartInit
<1>2. /\ InFrame /\ streams # <<>> /\ 1 \in DOMAIN streams /\ 2 \in DOMAIN streams
      /\ enc.global_granule_offset = Lookahead /\ Lookahead \in Nat
      /\ streams[1].end_granule \in Nat
      /\ enc.curr_granule \in Nat /\ frame_size \in Nat /\ again \in Nat
      /\ Len(streams) \in Nat
  <2>1. InFrame
    BY <1>1 DEF InFrame
  <2>2. streams # <<>> /\ 1 \in DOMAIN streams /\ 2 \in DOMAIN streams /\ Len(streams) \in Nat
    BY <1>1, Fields
  <2>3. enc.curr_granule \in Nat /\ frame_size \in Nat /\ again \in Nat /\ Lookahead \in Nat
    BY Numbers
  <2> QED
    BY <2>1, <2>2, <2>3, Fields DEF StreamInv
<1>3. p \in Int /\ o \in Int /\ p + o = streams[1].end_granule + Lookahead
  <2>1. end_granule48k = streams[1].end_granule + Lookahead
    BY <1>2 DEF end_granule48k
  <2>2. \A e, f, c, a \in Int : /\ e + f - c + a \in Int /\ c - f - a \in Int
                                /\ (e + f - c + a) + (c - f - a) = e
    OBVIOUS
  <2>3. end_granule48k \in Int /\ frame_size \in Int /\ enc.curr_granule \in Int /\ again \in Int
    BY <1>2, <2>1
  <2> HIDE DEF again
  <2> QED
    BY <2>1, <2>2, <2>3
<1>4. /\ t \in Seq(EncStreams) /\ Len(t) = Len(streams) - 1
      /\ \A j \in 1..Len(t) : t[j] = streams[j + 1]
  BY <1>2, HeadTailProperties DEF TypeInv
<1>5. t[1] = streams[2] /\ streams[2] \in EncStreams
  BY <1>1, <1>2, <1>4, Fields
<1> HIDE DEF again, p, o, t, uneven
<1>6. /\ s \in EncStreams /\ s.end_granule = streams[2].end_granule
      /\ s.granule_offset = o /\ s.stream_is_init = streams[2].stream_is_init
  BY <1>3, <1>5 DEF EncStreams
<1> HIDE DEF s
<1>7. /\ streams' \in Seq(EncStreams) /\ Len(streams') = Len(streams) - 1
      /\ DOMAIN streams' = 1..(Len(streams) - 1) /\ streams' # <<>>
      /\ streams'[1] = s
      /\ \A j \in DOMAIN streams' : j # 1 => streams'[j] = streams[j + 1]
  <2>1. 1 \in 1..Len(t) /\ Len(t) \in Nat
    BY <1>1, <1>2, <1>4
  <2> QED
    BY <1>1, <1>4, <1>6, <2>1, ExceptSeq, LenProperties, EmptySeq
<1>8. \A j \in DOMAIN streams' : j + 1 \in DOMAIN streams
                                 /\ streams'[j].end_granule = streams[j + 1].end_granule
  <2>1. SUFFICES ASSUME NEW j \in DOMAIN streams'
                 PROVE  /\ j + 1 \in DOMAIN streams
                        /\ streams'[j].end_granule = streams[j + 1].end_granule
    OBVIOUS
  <2>2. j + 1 \in DOMAIN streams
    <3>1. j \in 1..(Len(streams) - 1) /\ Len(streams) \in Nat /\ DOMAIN streams = 1..Len(streams)
      BY <1>7, <2>1, Fields
    <3> QED
      BY <3>1
  <2>3. CASE j = 1
    BY <1>6, <1>7, <2>2, <2>3
  <2>4. CASE j # 1
    BY <1>7, <2>1, <2>2, <2>4
  <2> QED
    BY <2>3, <2>4
<1>9. /\ enc'.preskip = p /\ enc'.write_granule = enc.write_granule
      /\ enc'.global_granule_offset = Lookahead /\ enc'.unrecoverable = enc.unrecoverable
  <2>1. enc \in Encoders
    BY DEF TypeInv
  <2> QED
    BY <1>1, <1>2, <1>3, <2>1 DEF Encoders
<1>10. SUFFICES ASSUME Sound, StartsInv
                PROVE  /\ StartsInv' /\ Begun' = Begun /\ ~Headed'
                       /\ \A k : Over(k) => Over(k)' /\ Plays(k)' = Plays(k)
  <2>1. Sound' => Sound /\ StartsInv
    BY <1>9 DEF Sound, PlayInv
  <2> QED
    BY <1>1, <1>10, <2>1, StreamsMove
<1>11. Gone \in Nat /\ Gone' = Gone + 1 /\ Gone + Len(streams) = Len(starts)
       /\ Len(starts) \in Nat
  <2>1. Gone \in Nat /\ Gone + Len(streams) = Len(starts) /\ Len(starts) \in Nat
    BY <1>10, PlayNumbers
  <2>2. Gone' = Len(starts) - (Len(streams) - 1)
    BY <1>1, <1>7 DEF Gone
  <2> QED
    BY <1>2, <2>1, <2>2
<1>12. Begun = Gone + 1 /\ \A k : Over(k) => k \in 1..(Gone + 1)
  BY <1>1, <1>2, <1>10, SentIsOver
<1>13. ~Headed' /\ Begun' = Begun
  <2>1. ~streams[2].stream_is_init
    BY <1>2 DEF StreamInv
  <2>2. ~Headed'
    BY <1>1, <1>6, <1>7, <2>1 DEF Headed
  <2> QED
    BY <1>11, <1>12, <2>2 DEF Begun
<1>14. \A k : End(k)' = End(k) /\ Plays(k)' = Plays(k)
  BY <1>1, <1>9 DEF Plays, End
<1>15. \A k : Over(k) => Over(k)'
  BY <1>11, <1>12 DEF Over
<1>16. \A j \in DOMAIN streams' : streams'[j].end_granule = End(Gone + j)'
  <2>1. SUFFICES ASSUME NEW j \in DOMAIN streams'
                 PROVE  streams'[j].end_granule = End(Gone + j)'
    OBVIOUS
  <2>2. streams'[j].end_granule = End(Gone + (j + 1))
    BY <1>8, <1>10, <2>1 DEF StartsInv
  <2>3. Gone + (j + 1) = Gone' + j
    BY <1>7, <1>11, <2>1
  <2>4. \A k : k = Gone' + j => End(k)' = End(k)
    BY <1>14
  <2> QED
    BY <2>2, <2>3, <2>4
<1>17. enc'.preskip + streams'[1].granule_offset = starts'[Gone' + 1] + Lookahead
  <2>1. streams[1].end_granule = starts[Gone + 2]
    <3>1. Gone + 1 < Len(starts) /\ (Gone + 1) + 1 = Gone + 2
      BY <1>1, <1>2, <1>11
    <3>2. End(Gone + 1) = starts[Gone + 2]
      BY <3>1 DEF End
    <3> QED
      BY <1>2, <1>10, <3>2 DEF StartsInv
  <2>2. Gone' + 1 = Gone + 2
    BY <1>11
  <2> QED
    BY <1>1, <1>3, <1>6, <1>7, <1>9, <2>1, <2>2
<1>18. StartsInv'
  <2>1. Heading'
    BY <1>1 DEF Heading
  <2>2. Lookahead # -1
    BY <1>2
  <2> QED
    BY <1>1, <1>9, <1>10, <1>11, <1>16, <1>17, <2>1, <2>2 DEF StartsInv
<1> QED
  BY <1>13, <1>14, <1>15, <1>18

-----------------------------------------------------------------------------
(* Failures, and all steps *)

LEMMA FailuresPlay ==
  ASSUME IInv, PlayInv,
         WriteFails \/ NoPacker \/ EncodeFails \/ CopyFails \/ CloseFails
  PROVE  PlayInv'
<1> USE DEF IInv
<1>1. enc \in Encoders /\ call.ret \in {"idle", "begin", "pad", "chained"}
  BY DEF TypeInv, CallStates
<1>2. ~Sound'
  <2>1. PICK code \in Codes \ {"OK", "TOO_LATE"} : Fault(code)
    BY DEF WriteFails, NoPacker, EncodeFails, CopyFails, CloseFails, Codes
  <2>2. enc'.unrecoverable = code
    BY <1>1, <2>1 DEF Fault, Encoders
  <2> QED
    BY <2>1, <2>2 DEF Sound
<1>3. /\ pc \notin {"commit", "page"} /\ pc' \notin {"commit", "page"}
      /\ reader' = reader /\ pend' = pend /\ pageno' = pageno
  BY <1>1 DEF WriteFails, NoPacker, EncodeFails, CopyFails, CloseFails, packer, Packer!Give
<1>4. PackerInv'
  <2>1. queue' \in Seq(PageSet)
    <3>1. queue \in Seq(PageSet)
      BY DEF PlayInv, PackerInv
    <3>2. CASE WriteFails
      <4>1. queue # <<>> /\ queue' = Tail(queue)
        BY <3>2 DEF WriteFails, Packer!Give
      <4> QED
        BY <3>1, <4>1, HeadTailProperties
    <3>3. CASE NoPacker \/ EncodeFails \/ CopyFails \/ CloseFails
      BY <3>1, <3>3 DEF NoPacker, EncodeFails, CopyFails, CloseFails, packer
    <3> QED
      BY <3>2, <3>3
  <2> QED
    BY <1>3, <2>1 DEF PlayInv, PackerInv
<1> QED
  BY <1>2, <1>4 DEF PlayInv

LEMMA InitPlayInv == Init => PlayInv
<1> SUFFICES ASSUME Init PROVE PlayInv
  OBVIOUS
<1>1. /\ streams = <<Stream(1, 0)>> /\ pc = "idle" /\ call = NoCall /\ starts = <<0>>
      /\ reader = [heads |-> 0, user |-> 0, pages |-> 0, skip |-> 0, time |-> 0,
                   uneven |-> FALSE]
      /\ \E pull, deferred \in BOOLEAN : enc = NewEnc(pull, deferred)
      /\ Packer!PagesInit
  BY DEF Init
<1>2. /\ enc.global_granule_offset = -1 /\ enc.write_granule = 0 /\ enc.preskip = 0
  BY <1>1 DEF NewEnc
<1>3. /\ pend = [segs |-> <<>>, granule |-> pend.granule, eos |-> FALSE, cont |-> FALSE]
      /\ pend.granule \in Int /\ queue = <<>> /\ ~given.eos /\ pageno = 0
  BY <1>1 DEF Packer!PagesInit, Packer!NothingPending, Packer!NoPage
<1>4. PackerInv
  <2>1. pend \in [segs : Seq(Data), granule : Int, eos : BOOLEAN, cont : BOOLEAN]
    <3>1. pend.granule \in Int /\ <<>> \in Seq(Data)
      BY <1>3
    <3> DEFINE g == pend.granule
    <3>2. pend = [segs |-> <<>>, granule |-> g, eos |-> FALSE, cont |-> FALSE] /\ g \in Int
      BY <1>3
    <3> HIDE DEF g
    <3> QED
      BY <3>1, <3>2
  <2>2. pend.segs = <<>> /\ Len(pend.segs) <= PagePackets /\ DOMAIN pend.segs = {}
    BY <1>3, PageAssumption
  <2>3. queue \in Seq(PageSet) /\ pageno \in Nat
    BY <1>3
  <2>4. reader = [heads |-> reader.heads, user |-> reader.user, pages |-> reader.pages,
                  skip |-> reader.skip, time |-> reader.time, uneven |-> reader.uneven]
    BY <1>1
  <2> QED
    BY <1>1, <2>1, <2>2, <2>3, <2>4 DEF PackerInv
<1>5. /\ Gone = 0 /\ Len(starts) = 1 /\ starts[1] = 0 /\ starts # <<>>
      /\ streams # <<>> /\ DOMAIN streams = {1} /\ ~streams[1].stream_is_init
      /\ streams[1].end_granule = 0 /\ streams[1].granule_offset = 0
  BY <1>1 DEF Gone, Stream
<1>6. ~Heading /\ ~Headed /\ Begun = 0 /\ HeadPages = 0 /\ call.op = "none"
  BY <1>1, <1>5 DEF Heading, Headed, Begun, HeadPages, NoCall
<1>7. StartsInv
  <2>1. End(Gone + 1) = 0
    BY <1>2, <1>5 DEF End
  <2> QED
    BY <1>2, <1>5, <1>6, <2>1 DEF StartsInv
<1>8. LastPacketInv /\ HeadInv
  BY <1>1, <1>3, <1>6 DEF LastPacketInv, HeadInv
<1>9. Follows([n \in Nat |-> 0], [i \in 0..0 |-> 0])
  BY <1>1, <1>3, <1>6 DEF Follows
<1> QED
  BY <1>4, <1>7, <1>8, <1>9 DEF PlayInv

LEMMA NextPlayInv == IInv /\ PlayInv /\ [Next]_vars => PlayInv'
<1> SUFFICES ASSUME IInv, PlayInv, [Next]_vars PROVE PlayInv'
  OBVIOUS
<1>1. CASE UNCHANGED vars
  <2>1. /\ UNCHANGED <<enc, streams, pc, call, reader, starts>>
        /\ UNCHANGED <<pend, queue, given, pageno>>
    BY <1>1 DEF vars
  <2>2. /\ (Sound' <=> Sound) /\ Gone' = Gone /\ (Heading' <=> Heading) /\ (LastSent' <=> LastSent)
        /\ \A n : End(n)' = End(n) /\ Plays(n)' = Plays(n)
    BY <2>1 DEF Sound, Gone, Heading, LastSent, End, Plays
  <2>3. (Headed' <=> Headed) /\ Begun' = Begun /\ HeadPages' = HeadPages
    BY <2>1, <2>2 DEF Headed, Begun, HeadPages
  <2>4. \A n : Over(n) => Over(n)'
    BY <2>1, <2>2 DEF Over
  <2>5. PackerInv'
    BY <2>1 DEF PlayInv, PackerInv
  <2>6. SUFFICES ASSUME Sound, StartsInv, LastPacketInv, HeadInv,
                        \E skip, num : Follows(skip, num)
                 PROVE  StartsInv' /\ LastPacketInv' /\ HeadInv'
                        /\ (\E skip, num : Follows(skip, num))'
    BY <2>2, <2>5 DEF PlayInv
  <2>7. StartsInv'
    BY <2>1, <2>2, <2>6 DEF StartsInv
  <2>8. LastPacketInv' /\ HeadInv'
    BY <2>1, <2>2, <2>3, <2>6 DEF LastPacketInv, HeadInv
  <2>9. PICK skip, num : Follows(skip, num)
    BY <2>6
  <2>10. Follows(skip, num)'
    BY <2>1, <2>2, <2>3, <2>4, <2>9, FollowsStays
  <2> QED
    BY <2>7, <2>8, <2>10
<1>2. CASE Calls
  BY <1>2, QuietSteps, NewStreamsPlay, OutputsPlay DEF Calls
<1>3. CASE Goes
  BY <1>3, QuietSteps, OutputsPlay, PacketsKeep, InitStreamPlays, BeginPlays,
     LastStreamEndsPlays, NextStreamPlays, FailuresPlay
     DEF Goes, Encodes, InitsStream, Outputs
<1>4. CASE Misuse
  BY <1>4, QuietSteps
<1> QED
  BY <1>1, <1>2, <1>3, <1>4 DEF Next

LEMMA PlayInvImplies == IInv /\ PlayInv => StreamPlaysItsSamples
<1> SUFFICES ASSUME IInv, PlayInv, ~Failed, given.eos
             PROVE  given.granule - reader.skip =
                      (IF reader.heads < Len(starts) THEN starts[reader.heads + 1]
                       ELSE enc.write_granule) - starts[reader.heads]
  BY DEF StreamPlaysItsSamples
<1>1. Sound
  BY DEF Failed, Sound
<1>2. StartsInv /\ TypeInv
  BY <1>1 DEF PlayInv, IInv
<1>3. PICK skip, num : Follows(skip, num)
  BY <1>1 DEF PlayInv
<1>4. /\ Over(reader.heads) /\ reader.skip = skip[reader.heads]
      /\ given.granule = Plays(reader.heads) + skip[reader.heads]
  BY <1>3 DEF Follows
<1>5. reader.heads \in 1..Len(starts) /\ Len(starts) \in Nat
  BY <1>2, <1>4, PlayNumbers
<1>6. Plays(reader.heads) \in Int
  BY <1>2, <1>5, PlayNumbers
<1>7. skip[reader.heads] \in Int
  BY <1>3, <1>5 DEF Follows
<1>8. given.granule - reader.skip = Plays(reader.heads)
  BY <1>4, <1>6, <1>7
<1> QED
  BY <1>8 DEF Plays, End

\* Whatever is written, however the frames are set and however many streams are chained:
\* the end that the last page of a stream gives, less what its header says to skip, is
\* the number of samples written while the stream was the last one (587-715, 725, 769, 909).
THEOREM StreamsPlayTheirSamples == Spec => []StreamPlaysItsSamples
<1>1. Init => PlayInv
  BY InitPlayInv
<1>2. IInv /\ PlayInv /\ [Next]_vars => PlayInv'
  BY NextPlayInv
<1>3. IInv /\ PlayInv => StreamPlaysItsSamples
  BY PlayInvImplies
<1> QED
  BY <1>1, <1>2, <1>3, SpecIInv, PTL DEF Spec

-----------------------------------------------------------------------------
(* How long the packets of a page play *)

Lasts(segs) == [i \in 1..Len(segs) |-> segs[i][1].n]
OnePackets(segs) == segs \in Seq(Data) /\ \A i \in DOMAIN segs : Len(segs[i]) = 1

LEMMA LastsAre ==
  ASSUME NEW segs, OnePackets(segs)
  PROVE  /\ Len(segs) \in Nat /\ DOMAIN segs = 1..Len(segs)
         /\ \A i \in 1..Len(segs) : /\ segs[i][1] \in [kind : {"head", "tags", "audio"}, n : Nat]
                                    /\ Lasts(segs)[i] \in Nat /\ Lasts(segs)[i] = segs[i][1].n
<1>1. segs \in Seq(Data) /\ Len(segs) \in Nat /\ DOMAIN segs = 1..Len(segs)
  BY LenProperties DEF OnePackets
<1>2. ASSUME NEW i \in 1..Len(segs)
      PROVE  segs[i][1] \in [kind : {"head", "tags", "audio"}, n : Nat]
  <2>1. segs[i] \in Data /\ Len(segs[i]) = 1
    BY <1>1, <1>2, ElementOfSeq DEF OnePackets
  <2> DEFINE P == [kind : {"head", "tags", "audio"}, n : Nat]
  <2>2. segs[i] \in Seq(P) /\ 1 \in 1..Len(segs[i])
    BY <2>1 DEF Data
  <2> HIDE DEF P
  <2>3. segs[i][1] \in P
    BY <2>2, ElementOfSeq
  <2> QED
    BY <2>3 DEF P
<1>3. \A i \in 1..Len(segs) : Lasts(segs)[i] = segs[i][1].n /\ segs[i][1].n \in Nat
  BY <1>2 DEF Lasts
<1> QED
  BY <1>1, <1>2, <1>3

LEMMA DurationIsSum ==
  ASSUME NEW page, OnePackets(page.segs)
  PROVE  \E f : /\ RunningSums(f, Lasts(page.segs), Len(page.segs))
                /\ Duration(page) = f[Len(page.segs)]
<1> DEFINE s == page.segs
           n == Len(s)
           a == Lasts(s)
           e == CHOOSE f : f = [k \in 0..n |-> IF k = 0 THEN 0 ELSE f[k - 1] + s[k][1].n]
<1>1. n \in Nat /\ \A i \in 1..n : a[i] \in Nat /\ a[i] = s[i][1].n
  BY LastsAre
<1>2. Duration(page) = e[n]
  BY DEF Duration
<1> HIDE DEF s, n, a
<1>3. PICK g : RunningSums(g, a, n)
  BY <1>1, SumsExist
<1>4. g = [k \in 0..n |-> IF k = 0 THEN 0 ELSE g[k - 1] + s[k][1].n]
  <2>1. g = [k \in 0..n |-> g[k]]
    BY <1>3 DEF RunningSums
  <2>2. ASSUME NEW k \in 0..n PROVE g[k] = IF k = 0 THEN 0 ELSE g[k - 1] + s[k][1].n
    <3>1. k = 0 \/ k \in 1..n
      BY <1>1
    <3>2. CASE k = 0
      BY <1>3, <3>2 DEF RunningSums
    <3>3. CASE k \in 1..n
      <4>1. g[k] = g[k - 1] + a[k] /\ k # 0
        BY <1>3, <3>3 DEF RunningSums
      <4> QED
        BY <1>1, <3>3, <4>1
    <3> QED
      BY <3>1, <3>2, <3>3
  <2> QED
    BY <2>1, <2>2
<1>5. e = [k \in 0..n |-> IF k = 0 THEN 0 ELSE e[k - 1] + s[k][1].n]
  BY <1>4
<1> HIDE DEF e
<1>6. RunningSums(e, a, n)
  <2> DEFINE T == {i \in Nat : i <= n => e[i] = g[i]}
  <2>1. 0 \in T
    BY <1>1, <1>3, <1>5 DEF RunningSums
  <2>2. ASSUME NEW i \in Nat, i \in T, i + 1 <= n PROVE e[i + 1] = g[i + 1]
    <3>1. /\ i <= n /\ i + 1 \in 1..n /\ i + 1 \in 0..n /\ i + 1 # 0 /\ (i + 1) - 1 = i
      BY <1>1, <2>2
    <3>2. e[i + 1] = e[i] + s[i + 1][1].n
      BY <1>5, <3>1
    <3>3. g[i + 1] = g[i] + a[i + 1] /\ a[i + 1] = s[i + 1][1].n
      BY <1>1, <1>3, <3>1 DEF RunningSums
    <3> QED
      BY <2>2, <3>1, <3>2, <3>3
  <2>3. \A i \in Nat : i \in T => i + 1 \in T
    BY <2>2
  <2> HIDE DEF T
  <2>4. \A i \in Nat : i \in T
    BY <2>1, <2>3, AllNaturals
  <2>5. \A i \in 0..n : e[i] = g[i]
    BY <2>4 DEF T
  <2>6. e = g
    BY <1>3, <1>5, <2>5 DEF RunningSums
  <2> QED
    BY <1>3, <2>6
<1> QED
  BY <1>2, <1>6 DEF s, n, a

\* Pages with the same packets play as long; one packet more plays that much longer.
LEMMA DurationOfSame ==
  ASSUME NEW p, NEW q, p.segs = q.segs
  PROVE  Duration(p) = Duration(q)
BY DEF Duration

LEMMA DurationOfNone ==
  ASSUME NEW p, p.segs = <<>>
  PROVE  Duration(p) = 0
<1>1. OnePackets(p.segs) /\ Len(p.segs) = 0
  BY DEF OnePackets
<1>2. PICK f : RunningSums(f, Lasts(p.segs), Len(p.segs)) /\ Duration(p) = f[Len(p.segs)]
  BY <1>1, DurationIsSum
<1> QED
  BY <1>1, <1>2 DEF RunningSums

LEMMA DurationIsNat ==
  ASSUME NEW p, OnePackets(p.segs)
  PROVE  Duration(p) \in Nat
<1>1. PICK f : RunningSums(f, Lasts(p.segs), Len(p.segs)) /\ Duration(p) = f[Len(p.segs)]
  BY DurationIsSum
<1>2. Len(p.segs) \in 0..Len(p.segs)
  BY LastsAre
<1> QED
  BY <1>1, <1>2 DEF RunningSums

LEMMA DurationGrows ==
  ASSUME NEW p, NEW q, NEW data, OnePackets(p.segs), OnePackets(q.segs),
         Len(q.segs) = Len(p.segs) + 1, q.segs[Len(p.segs) + 1] = data,
         \A i \in 1..Len(p.segs) : q.segs[i] = p.segs[i]
  PROVE  Duration(q) = Duration(p) + data[1].n
<1> DEFINE s == p.segs
           t == q.segs
           n == Len(s)
           a == Lasts(t)
           b == Lasts(s)
<1>1. /\ n \in Nat /\ Len(t) = n + 1 /\ t[n + 1] = data
      /\ \A i \in 1..n : t[i] = s[i]
      /\ \A i \in 1..(n + 1) : a[i] = t[i][1].n /\ a[i] \in Nat
      /\ \A i \in 1..n : b[i] = s[i][1].n
  BY LastsAre
<1>2. PICK f : RunningSums(f, b, n) /\ Duration(p) = f[n]
  BY DurationIsSum
<1>3. PICK g : RunningSums(g, a, n + 1) /\ Duration(q) = g[n + 1]
  BY <1>1, DurationIsSum
<1> HIDE DEF s, t, n, a, b
<1>4. /\ 0 \in Nat /\ 0 + n <= n + 1 /\ n + 1 \in Nat /\ n + 1 \in 1..(n + 1) /\ n \in 0..n
      /\ 0 + n = n /\ (n + 1) - 1 = n /\ 1..n \subseteq 1..(n + 1) /\ \A i \in 1..n : 0 + i = i
  BY <1>1
<1>5. \A i \in 1..n : b[i] = a[0 + i]
  BY <1>1, <1>4
<1>6. \A i \in 0..n : g[0 + i] = g[0] + f[i]
  BY <1>1, <1>2, <1>3, <1>4, <1>5, SumsOfRun
<1>7. g[n] = f[n]
  <2>1. g[n] = g[0] + f[n]
    BY <1>4, <1>6
  <2>2. g[0] = 0 /\ f[n] \in Nat
    BY <1>2, <1>3, <1>4 DEF RunningSums
  <2> QED
    BY <2>1, <2>2
<1>8. g[n + 1] = g[n] + a[n + 1]
  BY <1>3, <1>4 DEF RunningSums
<1>9. a[n + 1] = data[1].n
  BY <1>1, <1>4
<1> QED
  BY <1>2, <1>3, <1>7, <1>8, <1>9

-----------------------------------------------------------------------------
(* What pages make a stream: the invariant *)

KindOf(no) == CASE no = 0 -> "head" [] no = 1 -> "tags" [] OTHER -> "audio"
Kinds(segs) == {segs[i][1].kind : i \in DOMAIN segs}

\* Page q comes after page p; its granule position is right, if the frames are even:
\* no keyframe was of another length than the frame after it.
PageFollows(p, q, even) ==
  /\ q.bos = (q.pageno = 0) /\ ~q.cont /\ Kinds(q.segs) = {KindOf(q.pageno)}
  /\ q.pageno = 0 => q.granule = 0 /\ ~q.eos
  /\ q.pageno # 0 => p.pageno = q.pageno - 1 /\ ~p.eos
  /\ q.pageno # 0 /\ even =>
       IF q.eos THEN /\ q.granule <= p.granule + Duration(q)
                     /\ q.granule > (p.granule + Duration(q)) - Last(q.segs)[1].n
       ELSE q.granule = p.granule + Duration(q)

\* The pages from the one handed out last to the one made last, and the one that what
\* is pending would make.
At(i) == IF i = 0 THEN given ELSE queue[i]
Tip == At(Len(queue))
NextPage == [segs |-> pend.segs, granule |-> pend.granule, cont |-> pend.cont,
             bos |-> (pageno = 0), eos |-> pend.eos, pageno |-> pageno]

LineInv ==
  /\ \A i \in 1..Len(queue) : PageFollows(At(i - 1), At(i), ~reader.uneven)
  /\ pend.segs # <<>> => PageFollows(Tip, NextPage, ~reader.uneven)
  /\ pageno # 0 => Tip \in PageSet /\ Tip.pageno = pageno - 1
  /\ pageno = 1 => Tip.granule = 0

\* After the last page of a stream nothing comes, until the next one begins.
Ended == streams = <<>> \/ pc = "init" \/ (LastSent /\ pc # "page")
EndedInv == pageno # 0 /\ Tip.eos => pend.segs = <<>> /\ Ended

ReadInv ==
  /\ reader.pages = given.pageno + 1
  /\ ~given.eos /\ ~reader.uneven => reader.time = given.granule

\* The headers of a stream are its first two pages, alone on them.
Opening == pc = "tags" \/ (pc = "output" /\ call.then = "tags")
PartInv ==
  Headed =>
    /\ pageno = 0 <=> pc \in {"commit", "page"} /\ call.then = "tags"
    /\ pageno = 1 <=> Opening \/ (pc \in {"commit", "page"} /\ call.then = "inited")
    /\ Heading /\ pc # "page" => pend.segs = <<>>
    /\ pc = "commit" => call.data[1].kind = KindOf(pageno)
    /\ pc = "commit" /\ pageno = 0 => call.granule = 0 /\ ~call.eos

\* Where the packets of the stream end, the one on its way to the packer included;
\* what is encoded and has still to come, a copy of the keyframe perhaps.
Reached ==
  IF pageno = 0 THEN 0
  ELSE Tip.granule + Duration(pend) + (IF pc = "commit" THEN call.data[1].n ELSE 0)
Chaining == pc = "chained" \/ (Heading /\ call.ret = "chained")
Left ==
  IF Chaining THEN frame_size + (IF enc.chaining_keyframe # 0 THEN frame_size ELSE 0)
  ELSE IF pc = "packet" \/ (Sending /\ call.then = "packet") THEN frame_size ELSE 0

\* The stream ends after the frame before the one under way.
BehindInv == streams # <<>> => enc.curr_granule - Ahead < streams[1].end_granule + Lookahead

ClockInv ==
  streams # <<>> /\ ~reader.uneven =>
    /\ ~LastSent => enc.curr_granule - streams[1].granule_offset - Left =
                      IF Headed THEN Reached ELSE 0
    /\ Chaining => enc.chaining_keyframe \in {0, frame_size}
    /\ pc = "commit" /\ pageno # 0 =>
         IF call.eos THEN call.granule <= Reached /\ call.granule > Reached - call.data[1].n
         ELSE call.granule = Reached

\* The inductive invariant, while no call has failed.
FormInv ==
  Sound => LineInv /\ EndedInv /\ ReadInv /\ PartInv /\ BehindInv /\ ClockInv

-----------------------------------------------------------------------------
(* Steps that leave the last page made, and what is pending, where they are *)

\* The first stream stays where it is.
SameFirst ==
  /\ (streams' = <<>> <=> streams = <<>>)
  /\ streams # <<>> => /\ streams'[1].granule_offset = streams[1].granule_offset
                       /\ streams'[1].stream_is_init = streams[1].stream_is_init
                       /\ streams[1].end_granule <= streams'[1].end_granule

\* No packet comes or goes: the clock of the encoder may move, but by what it still has
\* to hand over.
ClockStep ==
  /\ Tip' = Tip /\ pend' = pend /\ pageno' = pageno /\ reader'.uneven = reader.uneven
  /\ pc \notin {"commit", "page", "init"} /\ pc' \notin {"commit", "page"}
  /\ (streams' = <<>> <=> streams = <<>>)
  /\ streams # <<>> =>
       /\ streams'[1].granule_offset = streams[1].granule_offset
       /\ streams[1].end_granule <= streams'[1].end_granule
       /\ enc'.curr_granule - Left' = enc.curr_granule - Left
       /\ \/ enc'.curr_granule - Ahead' = enc.curr_granule - Ahead
          \/ enc'.curr_granule - Ahead' < streams'[1].end_granule + Lookahead
  /\ (Headed' <=> Headed) /\ (LastSent' <=> LastSent)
  /\ Headed => (Heading' => Heading) /\ (Opening' <=> Opening)
  /\ Chaining' => Chaining /\ enc'.chaining_keyframe = enc.chaining_keyframe
                  /\ frame_size' = frame_size

\* The first stream, as the proofs use it.
LEMMA FirstStream ==
  ASSUME TypeInv
  PROVE  /\ streams # <<>> => /\ 1 \in DOMAIN streams
                              /\ streams[1].end_granule \in Nat
                              /\ streams[1].granule_offset \in Int
         /\ frame_size \in Nat /\ frame_size > 0 /\ enc.curr_granule \in Nat
         /\ Left \in Nat /\ Ahead \in Nat /\ Lookahead \in Nat
<1>1. streams # <<>> => 1 \in DOMAIN streams
  BY Fields
<1>2. frame_size \in Nat /\ frame_size > 0 /\ enc.curr_granule \in Nat /\ Lookahead \in Nat
  BY Numbers
<1>3. Left \in Nat /\ Ahead \in Nat
  BY <1>2 DEF Left, Ahead
<1> QED
  BY <1>1, <1>2, <1>3, Fields

LEMMA FirstStreamNext ==
  ASSUME TypeInv'
  PROVE  /\ streams' # <<>> => /\ 1 \in DOMAIN streams'
                               /\ streams'[1].end_granule \in Nat
                               /\ streams'[1].granule_offset \in Int
         /\ frame_size' \in Nat /\ frame_size' > 0 /\ enc'.curr_granule \in Nat
         /\ Left' \in Nat /\ Ahead' \in Nat
<1>1. enc' \in Encoders /\ streams' \in Seq(EncStreams)
  BY DEF TypeInv
<1>2. frame_size' = (enc'.request - 3) * 8 /\ enc'.request \in 4..9 /\ enc'.curr_granule \in Nat
  BY <1>1, FrameSamples DEF frame_size, Encoders
<1>3. frame_size' \in Nat /\ frame_size' > 0
  BY <1>2
<1>4. Left' \in Nat /\ Ahead' \in Nat
  <2> DEFINE f == frame_size'
  <2>1. Left' \in {f + f, f + 0, f, 0} /\ Ahead' \in {f, 0}
    BY DEF Left, Ahead
  <2> HIDE DEF f
  <2>2. f \in Nat
    BY <1>3 DEF f
  <2> QED
    BY <2>1, <2>2
<1>5. streams' # <<>> => 1 \in DOMAIN streams' /\ streams'[1] \in EncStreams
  BY <1>1, LenProperties, EmptySeq, ElementOfSeq
<1>6. streams' # <<>> => streams'[1].end_granule \in Nat /\ streams'[1].granule_offset \in Int
  BY <1>5 DEF EncStreams
<1> QED
  BY <1>2, <1>3, <1>4, <1>5, <1>6

\* Then what the encoder has and what the packer has still agree.
LEMMA ClockStepKeeps ==
  ASSUME TypeInv, TypeInv', EndedInv, PartInv, BehindInv, ClockInv, ClockStep
  PROVE  EndedInv' /\ PartInv' /\ BehindInv' /\ ClockInv'
<1>1. /\ Tip' = Tip /\ pend' = pend /\ pageno' = pageno /\ reader'.uneven = reader.uneven
      /\ pc \notin {"commit", "page", "init"} /\ pc' \notin {"commit", "page"}
      /\ (streams' = <<>> <=> streams = <<>>)
      /\ (Headed' <=> Headed) /\ (LastSent' <=> LastSent)
      /\ Headed => (Heading' => Heading) /\ (Opening' <=> Opening)
      /\ Chaining' => Chaining /\ enc'.chaining_keyframe = enc.chaining_keyframe
                      /\ frame_size' = frame_size
  BY DEF ClockStep
<1>2. EndedInv'
  BY <1>1 DEF EndedInv, Ended
<1>3. PartInv'
  BY <1>1 DEF PartInv
<1>4. Reached' = Reached
  BY <1>1 DEF Reached
<1>5. BehindInv' /\ ClockInv'
  <2>1. SUFFICES ASSUME streams # <<>>
                 PROVE  BehindInv' /\ ClockInv'
    BY <1>1 DEF BehindInv, ClockInv
  <2> DEFINE o == streams[1].granule_offset
             e == streams[1].end_granule
             c == enc.curr_granule
             l == Left
             a == Ahead
             x == streams'[1].end_granule
             d == enc'.curr_granule
             m == Left'
             b == Ahead'
  <2>2. /\ o \in Int /\ e \in Nat /\ c \in Nat /\ l \in Nat /\ a \in Nat
        /\ x \in Nat /\ d \in Nat /\ m \in Nat /\ b \in Nat /\ Lookahead \in Nat
    BY <1>1, <2>1, FirstStream, FirstStreamNext
  <2>3. /\ streams'[1].granule_offset = o /\ e <= x /\ d - m = c - l
        /\ (d - b = c - a \/ d - b < x + Lookahead)
    BY <2>1 DEF ClockStep
  <2>4. c - a < e + Lookahead
    BY <2>1 DEF BehindInv
  <2> HIDE DEF o, e, c, l, a, x, d, m, b
  <2>5. d - b < x + Lookahead /\ d - o - m = c - o - l
    BY <2>2, <2>3, <2>4
  <2>6. BehindInv'
    BY <2>5 DEF BehindInv, d, b, x
  <2>7. ~reader.uneven =>
          /\ ~LastSent => c - o - l = IF Headed THEN Reached ELSE 0
          /\ Chaining => enc.chaining_keyframe \in {0, frame_size}
    BY <2>1 DEF ClockInv, c, o, l
  <2>8. ClockInv'
    BY <1>1, <1>4, <2>3, <2>5, <2>7 DEF ClockInv, d, m
  <2> QED
    BY <2>6, <2>8
<1> QED
  BY <1>2, <1>3, <1>5

\* Pages that are still the same.
LEMMA LineStays ==
  ASSUME LineInv, ReadInv, UNCHANGED <<pend, queue, given, pageno, reader>>
  PROVE  LineInv' /\ ReadInv' /\ Tip' = Tip
<1>1. Tip' = Tip /\ NextPage' = NextPage /\ \A i : At(i)' = At(i)
  BY DEF Tip, NextPage, At
<1> QED
  BY <1>1 DEF LineInv, ReadInv

-----------------------------------------------------------------------------
(* Between two packets *)

\* No packet is under way.
Calm ==
  \/ pc \in {"idle", "begin", "fill", "loop", "pad", "encoded", "destroy", "gone", "pull",
            "twice", "nopacker", "nostream"}
  \/ pc = "init" /\ call.ret # "chained"

NothingComes ==
  /\ ~InFrame /\ ~Chaining /\ ~LastSent /\ ~Opening /\ pc \notin {"commit", "page"}
  /\ Left = 0 /\ Ahead = 0
  /\ (Heading <=> pc = "init")

LEMMA CalmIsQuiet ==
  /\ Calm => NothingComes
  /\ Calm' => NothingComes'
<1>1. Calm => NothingComes
  BY DEF Calm, NothingComes, InFrame, Sending, Heading, Chaining, LastSent, Opening, Left, Ahead
<1>2. Calm' => NothingComes'
  BY DEF Calm, NothingComes, InFrame, Sending, Heading, Chaining, LastSent, Opening, Left, Ahead
<1> QED
  BY <1>1, <1>2

LEMMA CalmSteps ==
  ASSUME Calm, pc # "init", Calm', UNCHANGED <<pend, queue, given, pageno, reader>>,
         SameFirst, enc'.curr_granule = enc.curr_granule,
         pc' = "init" /\ streams # <<>> => ~streams[1].stream_is_init
  PROVE  ClockStep
<1>1. NothingComes /\ NothingComes'
  BY CalmIsQuiet
<1>2. Tip' = Tip
  BY DEF Tip, At
<1>3. (Headed' <=> Headed) /\ (Headed => ~Heading')
  BY <1>1 DEF Headed, NothingComes, SameFirst
<1> QED
  BY <1>1, <1>2, <1>3 DEF ClockStep, NothingComes, SameFirst

LEMMA QuietForm ==
  ASSUME IInv, TypeInv', Sound, Sound',
         \/ DeferredInit \/ FinishTooLate \/ Return \/ WriteGoesOn \/ Destroy
         \/ LoopStops \/ PagesWritten \/ Misuse
         \/ EncodeFrame \/ FrameDone \/ Fill \/ LoopEnds \/ Pad
         \/ (\E request \in Requests : SetFrameDuration(request))
         \/ (\E value \in DecisionDelays : SetDecisionDelay(value))
  PROVE  ClockStep /\ UNCHANGED <<pend, queue, given, pageno, reader>>
<1> USE DEF IInv
<1>1. /\ enc \in Encoders /\ pc' \in Steps
      /\ call.then \in {"idle", "tags", "inited", "sent", "packet"}
      /\ pc \in {"commit", "page", "output"} => call.then # "idle"
      /\ call.eos \in BOOLEAN
  BY DEF TypeInv, CallStates, ControlInv
\* The streams stay as they are, and nothing was or is on its way.
<1>2. ASSUME UNCHANGED <<pend, queue, given, pageno, reader, streams>>,
             Calm, Calm', pc # "init", pc' # "init", enc'.curr_granule = enc.curr_granule
      PROVE  ClockStep
  <2>1. SameFirst
    <3>1. streams # <<>> => streams[1].end_granule \in Nat
      BY FirstStream
    <3> QED
      BY <1>2, <3>1 DEF SameFirst
  <2> QED
    BY <1>2, <2>1, CalmSteps
<1>3. CASE FinishTooLate \/ Return \/ WriteGoesOn \/ Destroy \/ LoopStops
  <2>1. UNCHANGED <<pend, queue, given, pageno, reader, streams, enc>>
    BY <1>3 DEF FinishTooLate, Return, WriteGoesOn, Destroy, LoopStops, packer, bounds
  <2>2. Calm /\ Calm' /\ pc # "init" /\ pc' # "init"
    BY <1>1, <1>3 DEF FinishTooLate, Return, WriteGoesOn, Destroy, LoopStops, Calm, Steps
  <2> QED
    BY <1>2, <2>1, <2>2
<1>11. CASE Misuse
  <2>1. UNCHANGED <<pend, queue, given, pageno, reader, streams, enc>>
    BY <1>11 DEF Misuse, FlushHeaderTwice, GetPageTooSoon, CallAfterDrain, packer, bounds
  <2>2. Calm /\ Calm' /\ pc # "init" /\ pc' # "init"
    BY <1>11 DEF Misuse, FlushHeaderTwice, CanFlushHeader, GetPageTooSoon, CallAfterDrain, Calm
  <2> QED
    BY <1>2, <2>1, <2>2
<1>4. CASE \/ DeferredInit
           \/ \E request \in Requests : SetFrameDuration(request)
           \/ \E value \in DecisionDelays : SetDecisionDelay(value)
  <2>1. enc'.curr_granule = enc.curr_granule
    BY <1>1, <1>4 DEF DeferredInit, SetFrameDuration, SetDecisionDelay, Ctl, Encoders
  <2>2. /\ UNCHANGED <<pend, queue, given, pageno, reader, streams>>
        /\ pc = "idle" /\ pc' = "idle"
    BY <1>4 DEF DeferredInit, SetFrameDuration, SetDecisionDelay, Ctl, packer, bounds
  <2> QED
    BY <1>2, <2>1, <2>2 DEF Calm
<1>5. CASE Fill
  <2>1. enc'.curr_granule = enc.curr_granule
    BY <1>1, <1>5 DEF Fill, Encoders
  <2>2. /\ UNCHANGED <<pend, queue, given, pageno, reader, streams>>
        /\ pc = "fill" /\ pc' = "loop"
    BY <1>5 DEF Fill, packer, bounds
  <2> QED
    BY <1>2, <2>1, <2>2 DEF Calm
<1>6. CASE LoopEnds \/ Pad
  <2> DEFINE e == shift_buffer(enc)
  <2>1. e \in Encoders /\ e.curr_granule = enc.curr_granule
    BY <1>1, ShiftFields DEF FrameInv
  <2> HIDE DEF e
  <2>2. \/ enc' \in {e, enc}
        \/ \E b : enc' = [e EXCEPT !.buffer_end = b, !.decision_delay = 0, !.draining = TRUE]
    BY <1>6 DEF LoopEnds, Pad, e
  <2>3. enc'.curr_granule = enc.curr_granule
    BY <1>1, <2>1, <2>2 DEF Encoders
  <2>4. /\ UNCHANGED <<pend, queue, given, pageno, reader, streams>>
        /\ pc \in {"loop", "pad"} /\ pc' \in {"encoded", "loop"}
    BY <1>1, <1>6 DEF LoopEnds, Pad, packer, bounds, Steps
  <2> QED
    BY <1>2, <2>3, <2>4 DEF Calm
<1>7. ASSUME UNCHANGED <<pend, queue, given, pageno, reader, streams>>,
             pc \notin {"commit", "page", "init"}, pc' \notin {"commit", "page"},
             enc'.curr_granule - Left' = enc.curr_granule - Left,
             streams # <<>> => \/ enc'.curr_granule - Ahead' = enc.curr_granule - Ahead
                               \/ enc'.curr_granule - Ahead' < streams[1].end_granule + Lookahead,
             Headed' <=> Headed, LastSent' <=> LastSent, Opening' <=> Opening,
             Heading' => Heading,
             Chaining' => Chaining /\ enc'.chaining_keyframe = enc.chaining_keyframe
                          /\ frame_size' = frame_size
      PROVE  ClockStep
  <2>1. Tip' = Tip
    BY <1>7 DEF Tip, At
  <2>2. streams # <<>> => streams[1].end_granule <= streams[1].end_granule
    <3>1. streams # <<>> => streams[1].end_granule \in Nat
      BY FirstStream
    <3> QED
      BY <3>1
  <2> QED
    BY <1>7, <2>1, <2>2 DEF ClockStep
<1>8. CASE EncodeFrame
  <2>1. /\ UNCHANGED <<pend, queue, given, pageno, reader, streams>>
        /\ pc = "loop" /\ pc' = "packet"
    BY <1>1, <1>8 DEF EncodeFrame, packer, bounds, Steps
  <2>2. PICK request : /\ enc' = [enc EXCEPT !.request = request, !.curr_granule =
                                    enc.curr_granule + compute_frame_samples(request)]
    BY <1>8 DEF EncodeFrame
  <2>3. frame_size' = compute_frame_samples(request)
        /\ enc'.curr_granule = enc.curr_granule + compute_frame_samples(request)
    BY <1>1, <2>2 DEF frame_size, Encoders
  <2>4. NothingComes
    BY <2>1, CalmIsQuiet DEF Calm
  <2>5. /\ Left' = frame_size' /\ Ahead' = frame_size' /\ ~Chaining' /\ ~Heading' /\ ~Opening'
        /\ ~LastSent'
    BY <2>1 DEF Left, Ahead, Chaining, Heading, Opening, LastSent, InFrame
  <2>6. enc'.curr_granule - frame_size' = enc.curr_granule
    <3>1. frame_size' \in Nat /\ enc.curr_granule \in Nat
      BY FirstStream, FirstStreamNext
    <3> QED
      BY <2>3, <3>1
  <2>7. enc.curr_granule - 0 = enc.curr_granule
    BY FirstStream
  <2>8. Headed' <=> Headed
    BY <2>1, <2>4, <2>5 DEF Headed, NothingComes
  <2> QED
    BY <1>7, <2>1, <2>4, <2>5, <2>6, <2>7, <2>8 DEF NothingComes
<1>9. CASE FrameDone
  <2>1. /\ UNCHANGED <<pend, queue, given, pageno, reader, streams>>
        /\ pc = "sent" /\ pc' = "loop" /\ ~call.eos
    BY <1>9 DEF FrameDone, packer, bounds
  <2>2. enc'.curr_granule = enc.curr_granule
    BY <1>1, <1>9 DEF FrameDone, Encoders
  <2>3. NothingComes'
    BY <2>1, CalmIsQuiet DEF Calm
  <2>4. ~Chaining /\ ~LastSent /\ ~Opening /\ ~Heading /\ Left = 0 /\ InFrame
    BY <2>1 DEF Chaining, LastSent, Opening, Heading, Left, Sending, InFrame
  <2>5. streams # <<>> => enc.curr_granule - 0 < streams[1].end_granule + Lookahead
    <3>1. ~(enc.curr_granule >= streams[1].end_granule + Lookahead)
      BY <2>1 DEF FrameInv
    <3> QED
      BY <3>1, FirstStream
  <2>6. Headed' <=> Headed
    BY <2>1, <2>3, <2>4 DEF Headed, NothingComes
  <2> QED
    BY <1>7, <2>1, <2>2, <2>3, <2>4, <2>5, <2>6 DEF NothingComes
<1>10. CASE PagesWritten
  <2>1. /\ UNCHANGED <<pend, queue, given, pageno, reader, streams, enc, call>>
        /\ pc = "output" /\ pc' = call.then /\ call.then # "idle"
    BY <1>1, <1>10 DEF PagesWritten, packer, bounds
  <2>2. /\ (Heading' <=> Heading) /\ (Chaining' <=> Chaining) /\ (Opening' <=> Opening)
        /\ (LastSent' <=> LastSent) /\ (InFrame' <=> InFrame) /\ frame_size' = frame_size
    BY <1>1, <2>1 DEF Heading, Chaining, Opening, LastSent, InFrame, Sending, frame_size
  <2>3. Left' = Left /\ Ahead' = Ahead
    BY <1>1, <2>1, <2>2 DEF Left, Ahead, Sending
  <2>4. Headed' <=> Headed
    BY <1>1, <2>1, <2>2 DEF Headed
  <2> QED
    BY <1>1, <1>7, <2>1, <2>2, <2>3, <2>4
<1> QED
  BY <1>3, <1>4, <1>5, <1>6, <1>8, <1>9, <1>10, <1>11,
     <1>1 DEF FinishTooLate, Return, WriteGoesOn, Destroy, LoopStops, DeferredInit,
     SetFrameDuration, SetDecisionDelay, Ctl, Fill, LoopEnds, Pad, EncodeFrame, FrameDone,
     PagesWritten, packer, bounds

\* A stream is set, made longer or added to the list.
LEMMA StreamsForm ==
  ASSUME IInv, TypeInv', Sound, Sound',
         \/ (\E op \in {"drain", "finish"} : Drain(op)) \/ FlushHeader
         \/ (\E samples \in Lengths : Write(samples)) \/ Begin
         \/ ContinueNew \/ ChainCurrent \/ ChainFails \/ StreamInited
  PROVE  ClockStep /\ UNCHANGED <<pend, queue, given, pageno, reader>>
<1> USE DEF IInv
<1>1. /\ enc \in Encoders /\ streams \in Seq(EncStreams) /\ Len(streams) \in Nat
      /\ (streams # <<>> => 1 \in DOMAIN streams /\ Len(streams) \in DOMAIN streams)
      /\ \A j \in DOMAIN streams : streams[j] \in EncStreams
      /\ call.ret \in {"idle", "begin", "pad", "chained"}
  <2>1. \A j \in DOMAIN streams : streams[j] \in EncStreams
    BY Fields
  <2> QED
    BY <2>1, Users DEF TypeInv, CallStates
<1>2. UNCHANGED <<pend, queue, given, pageno, reader>>
  BY DEF Drain, FlushHeader, Write, Begin, ContinueNew, ChainCurrent, ChainFails,
         StreamInited, StartInit, packer, bounds
\* One stream of the list is set.
<1>3. ASSUME NEW k \in DOMAIN streams, NEW s \in EncStreams,
             streams' = [streams EXCEPT ![k] = s],
             s.granule_offset = streams[k].granule_offset,
             s.stream_is_init = streams[k].stream_is_init,
             streams[k].end_granule <= s.end_granule
      PROVE  SameFirst
  <2>1. /\ streams' # <<>> /\ streams # <<>>
        /\ streams'[k] = s /\ \A j \in DOMAIN streams : j # k => streams'[j] = streams[j]
    BY <1>1, <1>3, SetStream
  <2>2. streams[1].end_granule \in Nat /\ 1 \in DOMAIN streams
    BY <2>1, FirstStream
  <2>3. CASE k = 1
    BY <1>3, <2>1, <2>3 DEF SameFirst
  <2>4. CASE k # 1
    BY <2>1, <2>2, <2>4 DEF SameFirst
  <2> QED
    BY <2>3, <2>4
<1>4. CASE streams' = streams /\ ((\E op \in {"drain", "finish"} : Drain(op)) \/ FlushHeader)
  <2>1. SameFirst
    <3>1. streams # <<>> => streams[1].end_granule \in Nat
      BY FirstStream
    <3> QED
      BY <1>4, <3>1 DEF SameFirst
  <2>2. /\ pc = "idle" /\ enc' = enc
        /\ pc' = "pad" \/ (pc' = "init" /\ ~streams[1].stream_is_init /\ call'.ret # "chained")
    <3>1. CASE FlushHeader
      <4>1. /\ ~streams[1].stream_is_init /\ pc = "idle" /\ enc' = enc
            /\ pc' = "init" /\ call' = [NoCall EXCEPT !.ret = "idle"]
        BY <3>1 DEF FlushHeader, CanFlushHeader, StartInit
      <4> QED
        BY <4>1 DEF NoCall
    <3>2. CASE \E op \in {"drain", "finish"} : Drain(op)
      <4>1. PICK op : Drain(op)
        BY <3>2
      <4>2. CASE streams[1].stream_is_init
        BY <4>1, <4>2 DEF Drain
      <4>3. CASE ~streams[1].stream_is_init
        <5>1. /\ pc = "idle" /\ enc' = enc /\ pc' = "init"
              /\ call' = [[NoCall EXCEPT !.op = op] EXCEPT !.ret = "pad"]
          BY <4>1, <4>3 DEF Drain, StartInit
        <5> QED
          BY <4>3, <5>1 DEF NoCall
      <4> QED
        BY <4>2, <4>3
    <3> QED
      BY <1>4, <3>1, <3>2
  <2> QED
    BY <1>2, <2>1, <2>2, CalmSteps DEF Calm
<1>5. CASE \E samples \in Lengths : Write(samples)
  <2>1. PICK samples \in Lengths : Write(samples)
    BY <1>5
  <2> DEFINE k == Len(streams)
             s == [streams[k] EXCEPT !.header_is_frozen = TRUE]
  <2>2. /\ pc = "idle" /\ enc' = enc /\ streams # <<>>
        /\ streams' = [streams EXCEPT ![k] = s]
    BY <2>1 DEF Write
  <2>3. SameFirst
    <3>1. k \in DOMAIN streams /\ streams[k] \in EncStreams
      BY <1>1, <2>2
    <3>2. /\ s \in EncStreams /\ s.end_granule = streams[k].end_granule
          /\ s.granule_offset = streams[k].granule_offset
          /\ s.stream_is_init = streams[k].stream_is_init
          /\ s.end_granule \in Nat
      BY <3>1 DEF EncStreams
    <3>3. streams[k].end_granule <= s.end_granule
      BY <3>2
    <3> HIDE DEF k, s
    <3> QED
      BY <1>3, <2>2, <3>1, <3>2, <3>3
  <2>4. pc' = "begin" \/ (pc' = "init" /\ ~streams[1].stream_is_init /\ call'.ret # "chained")
    <3>1. CASE streams[1].stream_is_init
      BY <2>1, <3>1 DEF Write
    <3>2. CASE ~streams[1].stream_is_init
      <4>1. /\ pc' = "init"
            /\ call' = [[NoCall EXCEPT !.op = "write", !.left = samples] EXCEPT !.ret = "begin"]
        BY <2>1, <3>2 DEF Write, StartInit
      <4> QED
        BY <3>2, <4>1 DEF NoCall
    <3> QED
      BY <3>1, <3>2
  <2> QED
    BY <1>2, <2>2, <2>3, <2>4, CalmSteps DEF Calm
<1>6. CASE Begin
  <2> DEFINE k == Len(streams)
             w == enc.write_granule + call.left
             s == [streams[k] EXCEPT !.end_granule = w]
  <2>1. /\ pc = "begin" /\ pc' = "fill" /\ enc' = [enc EXCEPT !.write_granule = w]
        /\ streams' = [streams EXCEPT ![k] = [streams[k] EXCEPT !.end_granule = enc'.write_granule]]
    BY <1>6 DEF Begin
  <2>2. enc'.write_granule = w /\ enc'.curr_granule = enc.curr_granule
    BY <1>1, <2>1 DEF Encoders
  <2>3. streams # <<>> /\ Last(streams).end_granule = enc.write_granule
    BY <2>1 DEF StreamInv
  <2>4. k \in DOMAIN streams /\ streams[k] \in EncStreams
    BY <1>1, <2>3
  <2>5. streams[k].end_granule <= w /\ w \in Nat
    <3>1. enc.write_granule \in Nat /\ call.left \in Nat
      BY Numbers
    <3> QED
      BY <2>3, <3>1 DEF Last
  <2> HIDE DEF w
  <2>6. /\ s \in EncStreams /\ s.end_granule = w
        /\ s.granule_offset = streams[k].granule_offset
        /\ s.stream_is_init = streams[k].stream_is_init
    BY <2>4, <2>5 DEF EncStreams
  <2>7. streams' = [streams EXCEPT ![k] = s]
    BY <2>1, <2>2
  <2> HIDE DEF k, s
  <2>8. SameFirst
    BY <1>3, <2>4, <2>5, <2>6, <2>7
  <2> QED
    BY <1>2, <2>1, <2>2, <2>8, CalmSteps DEF Calm
<1>7. CASE ContinueNew \/ ChainCurrent \/ ChainFails
  <2>1. /\ pc = "idle" /\ pc' = "idle" /\ enc' = enc /\ streams # <<>>
    BY <1>7 DEF ContinueNew, ChainCurrent, ChainFails
  <2> DEFINE n == Len(streams)
             closing == [streams EXCEPT ![n] = [streams[n] EXCEPT !.close_at_end = FALSE]]
  <2>2. \E s \in {streams, closing} :
          streams' = s \/ \E u : streams' = Append(s, Stream(u, enc.write_granule))
    BY <1>7 DEF ContinueNew, ChainCurrent, ChainFails, KeptOpen
  <2>3. /\ closing \in Seq(EncStreams) /\ Len(closing) = n /\ closing # <<>>
        /\ closing[1].granule_offset = streams[1].granule_offset
        /\ closing[1].stream_is_init = streams[1].stream_is_init
        /\ closing[1].end_granule = streams[1].end_granule
    <3> DEFINE s == [streams[n] EXCEPT !.close_at_end = FALSE]
    <3>1. n \in DOMAIN streams /\ streams[n] \in EncStreams /\ 1 \in DOMAIN streams
      BY <1>1, <2>1
    <3>2. /\ s \in EncStreams /\ s.end_granule = streams[n].end_granule
          /\ s.granule_offset = streams[n].granule_offset
          /\ s.stream_is_init = streams[n].stream_is_init
      BY <3>1 DEF EncStreams
    <3> HIDE DEF s
    <3>3. closing = [streams EXCEPT ![n] = s]
      BY DEF s
    <3> HIDE DEF closing
    <3>4. /\ closing \in Seq(EncStreams) /\ Len(closing) = n /\ closing # <<>>
          /\ closing[n] = s /\ \A j \in DOMAIN streams : j # n => closing[j] = streams[j]
      BY <1>1, <3>1, <3>2, <3>3, SetStream
    <3> HIDE DEF n
    <3>5. CASE n = 1
      BY <3>2, <3>4, <3>5
    <3>6. CASE n # 1
      BY <3>1, <3>4, <3>6
    <3> QED
      BY <3>4, <3>5, <3>6
  <2> HIDE DEF closing
  <2>4. PICK s \in {streams, closing} :
          streams' = s \/ \E u : streams' = Append(s, Stream(u, enc.write_granule))
    BY <2>2
  <2>5. /\ s \in Seq(EncStreams) /\ Len(s) = n /\ s # <<>>
        /\ s[1].granule_offset = streams[1].granule_offset
        /\ s[1].stream_is_init = streams[1].stream_is_init
        /\ s[1].end_granule = streams[1].end_granule
    BY <1>1, <2>1, <2>3
  <2>6. streams' # <<>> /\ streams'[1] = s[1]
    <3>1. CASE streams' = s
      BY <2>5, <3>1
    <3>2. CASE \E u : streams' = Append(s, Stream(u, enc.write_granule))
      <4>1. PICK u : streams' = Append(s, Stream(u, enc.write_granule))
        BY <3>2
      <4>2. n \in Nat /\ n > 0
        BY <1>1, <2>1, Fields
      <4> QED
        BY <2>5, <4>1, <4>2
    <3> QED
      BY <2>4, <3>1, <3>2
  <2>7. SameFirst
    <3>1. streams[1].end_granule \in Nat
      BY <2>1, FirstStream
    <3> QED
      BY <2>1, <2>5, <2>6, <3>1 DEF SameFirst
  <2> QED
    BY <1>2, <2>1, <2>7, CalmSteps DEF Calm
<1>8. CASE StreamInited
  <2>1. /\ pc = "inited" /\ pc' = call.ret /\ enc' = enc /\ call' = call /\ streams # <<>>
        /\ streams' = [streams EXCEPT ![1] = [streams[1] EXCEPT !.stream_is_init = TRUE]]
    BY <1>8 DEF StreamInited, StreamInv, Heading
  <2> DEFINE s == [streams[1] EXCEPT !.stream_is_init = TRUE]
  <2>2. /\ s \in EncStreams /\ s.end_granule = streams[1].end_granule
        /\ s.granule_offset = streams[1].granule_offset /\ s.stream_is_init
    BY <1>1, <2>1 DEF EncStreams
  <2> HIDE DEF s
  <2>3. streams' # <<>> /\ streams'[1] = s
    BY <1>1, <2>1, <2>2, SetStream DEF s
  <2>4. /\ ~Opening /\ ~Opening' /\ ~LastSent /\ ~LastSent' /\ ~Sending /\ ~Sending'
        /\ (Chaining' <=> Chaining) /\ (InFrame' <=> InFrame) /\ frame_size' = frame_size
        /\ Heading /\ ~Heading' /\ Headed /\ Headed'
    BY <1>1, <2>1, <2>2, <2>3 DEF Opening, LastSent, Sending, Chaining, InFrame, Heading, Headed,
         frame_size
  <2>5. Left' = Left /\ Ahead' = Ahead
    BY <1>1, <2>1, <2>4 DEF Left, Ahead
  <2>6. Tip' = Tip /\ streams[1].end_granule \in Nat
    BY <1>2, <2>1, FirstStream DEF Tip, At
  <2>7. streams[1].end_granule <= streams[1].end_granule
    BY <2>6
  <2> QED
    BY <1>1, <1>2, <2>1, <2>2, <2>3, <2>4, <2>5, <2>6, <2>7 DEF ClockStep
<1>9. ((\E op \in {"drain", "finish"} : Drain(op)) \/ FlushHeader) => streams' = streams
  BY DEF Drain, FlushHeader
<1> QED
  BY <1>2, <1>4, <1>5, <1>6, <1>7, <1>8, <1>9

-----------------------------------------------------------------------------
(* A stream ends, another one begins *)

\* The last packet is made; the next stream begins where the frame under way does, or a
\* keyframe earlier.
LEMMA StreamEndsForm ==
  ASSUME IInv, TypeInv', PlayInv, Sound,
         LineInv, EndedInv, ReadInv, PartInv, BehindInv, ClockInv,
         LastStreamEnds \/ NextStreamBegins
  PROVE  LineInv' /\ EndedInv' /\ ReadInv' /\ PartInv' /\ BehindInv' /\ ClockInv'
<1> USE DEF IInv
<1>1. CASE LastStreamEnds
  <2>1. streams' = <<>> /\ UNCHANGED <<pend, queue, given, pageno, reader>>
    BY <1>1 DEF LastStreamEnds, packer, bounds
  <2>2. LineInv' /\ ReadInv' /\ Tip' = Tip
    BY <2>1, LineStays
  <2> QED
    BY <2>1, <2>2 DEF EndedInv, Ended, PartInv, Headed, BehindInv, ClockInv
<1>2. CASE NextStreamBegins
  <2> DEFINE f == frame_size
             again == IF enc.chaining_keyframe # 0 THEN f ELSE 0
             p == end_granule48k + f - enc.curr_granule + again
             o == enc.curr_granule - f - again
             t == Tail(streams)
             s == [t[1] EXCEPT !.granule_offset = o]
             uneven == reader.uneven \/ enc.chaining_keyframe \notin {0, f}
  <2>1. /\ pc = "sent" /\ call.eos /\ Len(streams) > 1
        /\ enc' = [enc EXCEPT !.preskip = p]
        /\ streams' = [t EXCEPT ![1] = s]
        /\ pc' = "init" /\ call' = [call EXCEPT !.ret = "chained"]
        /\ reader' = [reader EXCEPT !.uneven = uneven]
        /\ UNCHANGED <<starts, pend, queue, given, pageno>>
    BY <1>2 DEF NextStreamBegins, bounds, packer, StartInit
  <2>2. /\ InFrame /\ streams # <<>> /\ 1 \in DOMAIN streams /\ 2 \in DOMAIN streams
        /\ Len(streams) \in Nat
        /\ f \in Nat /\ enc.curr_granule \in Nat /\ again \in Nat /\ Lookahead \in Nat
        /\ streams[1].end_granule \in Nat /\ streams[2].end_granule \in Nat
    <3>1. InFrame
      BY <2>1 DEF InFrame
    <3>2. f \in Nat /\ enc.curr_granule \in Nat /\ Lookahead \in Nat
      BY Numbers
    <3>3. again \in Nat
      <4> HIDE DEF f
      <4> QED
        BY <3>2
    <3>4. DOMAIN streams = 1..Len(streams) /\ Len(streams) \in Nat
      BY Fields
    <3>5. 1 \in DOMAIN streams /\ 2 \in DOMAIN streams /\ streams # <<>>
      BY <2>1, <3>4
    <3> HIDE DEF again, f
    <3>6. streams[1].end_granule \in Nat /\ streams[2].end_granule \in Nat
      BY <3>5, Fields
    <3> QED
      BY <3>1, <3>2, <3>3, <3>4, <3>5, <3>6
  <2>3. o \in Int /\ enc.curr_granule - o - (f + again) = 0
    <3>1. \A c, a, b \in Nat : c - a - b \in Int /\ c - (c - a - b) - (a + b) = 0
      OBVIOUS
    <3> HIDE DEF f, again
    <3> QED
      BY <2>2, <3>1
  <2>4. /\ t \in Seq(EncStreams) /\ Len(t) = Len(streams) - 1 /\ t[1] = streams[2]
        /\ streams[2] \in EncStreams /\ 1 \in DOMAIN t
    <3>1. t \in Seq(EncStreams) /\ Len(t) = Len(streams) - 1
          /\ \A j \in 1..Len(t) : t[j] = streams[j + 1]
      BY <2>2, HeadTailProperties DEF TypeInv
    <3>2. 1 \in 1..Len(t) /\ 1 + 1 = 2
      BY <2>1, <2>2, <3>1
    <3> QED
      BY <2>2, <3>1, <3>2, Fields, LenProperties
  <2> HIDE DEF again, p, o, t, uneven
  <2>5. /\ s \in EncStreams /\ s.end_granule = streams[2].end_granule /\ s.granule_offset = o
    BY <2>3, <2>4 DEF EncStreams
  <2> HIDE DEF s
  <2>6. streams'[1] = s /\ ~streams[2].stream_is_init
    BY <2>1, <2>2, <2>4 DEF StreamInv
  <2>7. /\ enc'.curr_granule = enc.curr_granule /\ frame_size' = f
        /\ enc'.chaining_keyframe = enc.chaining_keyframe
    <3>1. enc \in Encoders
      BY DEF TypeInv
    <3> QED
      BY <2>1, <3>1 DEF Encoders, frame_size
  <2>8. /\ reader'.pages = reader.pages /\ reader'.time = reader.time
        /\ (~reader'.uneven => ~reader.uneven /\ enc.chaining_keyframe \in {0, f})
    <3>1. reader'.uneven = uneven /\ reader'.pages = reader.pages /\ reader'.time = reader.time
      BY <2>1 DEF PlayInv, PackerInv
    <3> QED
      BY <3>1 DEF uneven
  <2>9. LineInv' /\ ReadInv' /\ EndedInv'
    <3>1. Tip' = Tip /\ NextPage' = NextPage /\ \A i : At(i)' = At(i)
      BY <2>1 DEF Tip, NextPage, At
    <3>2. \A a, b : PageFollows(a, b, ~reader.uneven) => PageFollows(a, b, ~reader'.uneven)
      BY <2>8 DEF PageFollows
    <3>3. LineInv'
      BY <2>1, <3>1, <3>2 DEF LineInv
    <3> QED
      BY <2>1, <2>8, <3>1, <3>3 DEF ReadInv, EndedInv, Ended
  <2>10. /\ Heading' /\ Chaining' /\ ~LastSent' /\ InFrame' /\ ~Headed'
         /\ Left' = f + again /\ Ahead' = f /\ Ahead = f
    <3>1. call'.ret = "chained"
      BY <2>1 DEF TypeInv, CallStates
    <3>2. Heading' /\ Chaining' /\ ~LastSent' /\ InFrame'
      BY <2>1, <3>1 DEF Heading, Chaining, LastSent, InFrame
    <3>3. ~streams'[1].stream_is_init
      BY <2>1, <2>4, <2>5, <2>6 DEF s, EncStreams
    <3> QED
      BY <2>1, <2>2, <2>7, <3>2, <3>3 DEF Headed, Left, Ahead, again
  <2>11. PartInv'
    BY <2>10 DEF PartInv
  <2>12. BehindInv'
    <3>1. enc.curr_granule - f < streams[1].end_granule + Lookahead
      BY <2>2, <2>10 DEF BehindInv
    <3>2. streams[1].end_granule <= streams[2].end_granule
      BY <2>2 DEF StreamInv
    <3>3. enc.curr_granule - f < streams[2].end_granule + Lookahead
      BY <2>2, <3>1, <3>2
    <3> QED
      BY <2>5, <2>6, <2>7, <2>10, <3>3 DEF BehindInv
  <2>13. ClockInv'
    BY <2>1, <2>3, <2>5, <2>6, <2>7, <2>8, <2>10 DEF ClockInv
  <2> QED
    BY <2>9, <2>11, <2>12, <2>13
<1> QED
  BY <1>1, <1>2

\* The header of a stream: nothing of the stream has reached the packer.
LEMMA InitStreamForm ==
  ASSUME IInv, PlayInv, Sound,
         LineInv, ReadInv, BehindInv, ClockInv, InitStream
  PROVE  LineInv' /\ EndedInv' /\ ReadInv' /\ PartInv' /\ BehindInv' /\ ClockInv'
<1> USE DEF IInv
<1>1. PICK preskip, offset :
        /\ pc = "init" /\ pend.segs = <<>> /\ pageno' = 0
        /\ UNCHANGED <<pend, queue, given, reader, streams>>
        /\ Commits(Packet("head", preskip), 0, FALSE, TRUE, TRUE, "tags", call)
        /\ enc' = [enc EXCEPT !.oggp = TRUE, !.preskip = preskip,
                              !.global_granule_offset = offset]
  BY DEF InitStream, Packer!NewStream, bounds
<1>2. /\ enc'.curr_granule = enc.curr_granule /\ frame_size' = frame_size
      /\ enc'.chaining_keyframe = enc.chaining_keyframe
  <2>1. enc \in Encoders
    BY DEF TypeInv
  <2> QED
    BY <1>1, <2>1 DEF Encoders, frame_size
<1>3. /\ pc' = "commit" /\ call'.data = Packet("head", preskip) /\ call'.granule = 0
      /\ call'.eos = FALSE /\ call'.then = "tags" /\ call'.ret = call.ret
  <2>1. call \in CallStates
    BY DEF TypeInv
  <2>2. call'.ret = call.ret
    BY <1>1, <2>1 DEF Commits, CallStates
  <2> QED
    BY <1>1, <2>1, <2>2, CommitsFields
<1>4. call'.data[1].kind = "head"
  BY <1>3 DEF Packet
<1>5. /\ Heading /\ Heading' /\ ~LastSent /\ ~LastSent' /\ ~Sending' /\ ~Opening'
      /\ (Chaining' <=> Chaining) /\ (InFrame' <=> InFrame) /\ ~Headed
  BY <1>1, <1>3 DEF Heading, LastSent, Sending, Opening, Chaining, InFrame, Headed, StreamInv
<1>6. Left' = Left /\ Ahead' = Ahead
  BY <1>1, <1>2, <1>3, <1>5 DEF Left, Ahead, Sending
<1>7. LineInv' /\ ReadInv' /\ EndedInv'
  <2>1. Tip' = Tip /\ \A i : At(i)' = At(i)
    BY <1>1 DEF Tip, At
  <2> QED
    BY <1>1, <2>1 DEF LineInv, ReadInv, EndedInv
<1>8. PartInv'
  BY <1>1, <1>3, <1>4, <1>5 DEF PartInv, KindOf
<1>9. Reached' = 0
  BY <1>1 DEF Reached
<1> QED
  BY <1>1, <1>2, <1>3, <1>5, <1>6, <1>7, <1>8, <1>9 DEF BehindInv, ClockInv

-----------------------------------------------------------------------------
(* Where packets come from: a header, a frame, the keyframe once more *)

\* A packet comes, of the kind and for the position of the next one.
LEMMA PacketForm ==
  ASSUME TypeInv, LineInv, EndedInv, ReadInv, BehindInv,
         UNCHANGED <<pend, queue, given, pageno, reader, streams, enc>>,
         streams # <<>>, pc \notin {"init", "commit"}, ~LastSent, pc' = "commit", pageno # 0,
         PartInv', Ahead' = Ahead,
         ~reader.uneven =>
           /\ enc.curr_granule - streams[1].granule_offset - Left' = Reached'
           /\ Headed'
           /\ Chaining' => enc.chaining_keyframe \in {0, frame_size}
           /\ IF call'.eos
              THEN call'.granule <= Reached' /\ call'.granule > Reached' - call'.data[1].n
              ELSE call'.granule = Reached'
  PROVE  LineInv' /\ EndedInv' /\ ReadInv' /\ PartInv' /\ BehindInv' /\ ClockInv'
<1>1. LineInv' /\ ReadInv' /\ Tip' = Tip
  BY LineStays
<1>2. ~Tip.eos
  BY DEF EndedInv, Ended
<1>3. EndedInv'
  BY <1>1, <1>2 DEF EndedInv
<1>4. BehindInv'
  BY DEF BehindInv
<1>5. frame_size' = frame_size
  BY DEF frame_size
<1>6. ClockInv'
  BY <1>5 DEF ClockInv
<1> QED
  BY <1>1, <1>3, <1>4, <1>6

\* Of a frame, when no header is on its way.
LEMMA AudioIsHeaded ==
  ASSUME IInv, StartsInv, pc \in {"packet", "chained"}
  PROVE  Headed /\ InFrame /\ ~Heading /\ streams # <<>> /\ ~LastSent /\ ~Opening
<1>1. InFrame /\ ~Heading /\ ~LastSent /\ ~Opening
  BY DEF InFrame, Heading, LastSent, Opening
<1>2. streams # <<>> /\ call.op # "none"
  BY <1>1 DEF IInv, StreamInv, ControlInv
<1> QED
  BY <1>1, <1>2 DEF StartsInv, Headed

\* The second header: the first one is page 0 already, alone.
LEMMA TagsForm ==
  ASSUME IInv, PlayInv, Sound,
         LineInv, EndedInv, ReadInv, PartInv, BehindInv, ClockInv, Tags
  PROVE  LineInv' /\ EndedInv' /\ ReadInv' /\ PartInv' /\ BehindInv' /\ ClockInv'
<1> USE DEF IInv
<1>1. /\ pc = "tags" /\ UNCHANGED <<pend, queue, given, pageno, reader, streams, enc>>
      /\ Commits(Packet("tags", 0), 0, FALSE, TRUE, TRUE, "inited", call)
  BY DEF Tags, packer, bounds
<1>2. /\ pc' = "commit" /\ call'.data = Packet("tags", 0) /\ call'.granule = 0
      /\ call'.eos = FALSE /\ call'.then = "inited" /\ call'.ret = call.ret
  <2>1. call \in CallStates
    BY DEF TypeInv
  <2>2. call'.ret = call.ret
    BY <1>1, <2>1 DEF Commits, CallStates
  <2> QED
    BY <1>1, <2>1, <2>2, CommitsFields
<1>3. call'.data[1].kind = "tags" /\ call'.data[1].n = 0
  BY <1>2 DEF Packet
<1>4. /\ Heading /\ Heading' /\ ~LastSent /\ ~Sending /\ ~Sending' /\ Opening /\ ~Opening'
      /\ (Chaining' <=> Chaining) /\ (InFrame' <=> InFrame) /\ frame_size' = frame_size
  BY <1>1, <1>2 DEF Heading, LastSent, Sending, Opening, Chaining, InFrame, frame_size
<1>5. streams # <<>> /\ Headed /\ Headed'
  <2>1. streams # <<>>
    BY <1>4 DEF StreamInv
  <2> QED
    BY <1>1, <1>2, <1>4, <2>1 DEF Headed
<1>6. Left' = Left /\ Ahead' = Ahead
  BY <1>1, <1>2, <1>4 DEF Left, Ahead
<1>7. pageno = 1 /\ pend.segs = <<>> /\ Tip.granule = 0
  BY <1>1, <1>4, <1>5 DEF PartInv, LineInv
<1>8. PartInv'
  BY <1>1, <1>2, <1>3, <1>4, <1>7 DEF PartInv, KindOf
<1>9. Duration(pend) = 0 /\ Tip' = Tip /\ pend' = pend
  BY <1>1, <1>7, DurationOfNone DEF Tip, At
<1>10. Reached = 0 /\ Reached' = 0
  BY <1>1, <1>2, <1>3, <1>7, <1>9 DEF Reached
<1>11. ~reader.uneven =>
         /\ enc.curr_granule - streams[1].granule_offset - Left = 0
         /\ Chaining => enc.chaining_keyframe \in {0, frame_size}
  BY <1>4, <1>5, <1>10 DEF ClockInv
<1> QED
  BY <1>1, <1>2, <1>4, <1>5, <1>6, <1>7, <1>8, <1>10, <1>11, PacketForm

\* A frame: its packet ends where the clock is, or where the stream does, inside it.
LEMMA CommitPacketForm ==
  ASSUME IInv, PlayInv, Sound,
         LineInv, EndedInv, ReadInv, PartInv, BehindInv, ClockInv, CommitPacket
  PROVE  LineInv' /\ EndedInv' /\ ReadInv' /\ PartInv' /\ BehindInv' /\ ClockInv'
<1> USE DEF IInv
<1> DEFINE e_o_s == enc.curr_granule >= end_granule48k
           granule == IF e_o_s THEN end_granule48k ELSE enc.curr_granule
           copied == e_o_s \/ call.key \/ call.copied
           c == [call EXCEPT !.copied = copied]
<1>1. /\ pc = "packet" /\ UNCHANGED <<pend, queue, given, pageno, reader, streams, enc>>
      /\ Commits(Packet("audio", call.nb), granule - streams[1].granule_offset,
                 e_o_s, e_o_s, TRUE, "sent", c)
  BY DEF CommitPacket, packer, bounds
<1>2. c \in CallStates
  BY DEF TypeInv, CallStates
<1> HIDE DEF c, e_o_s, granule
<1>3. /\ pc' = "commit" /\ call'.data = Packet("audio", call.nb) /\ call'.eos = e_o_s
      /\ call'.granule = granule - streams[1].granule_offset /\ call'.then = "sent"
  BY <1>1, <1>2, CommitsFields
<1>4. call'.data[1].kind = "audio" /\ call'.data[1].n = call.nb
  BY <1>3 DEF Packet
<1>5. Headed /\ InFrame /\ ~Heading /\ streams # <<>> /\ ~LastSent /\ ~Opening
  BY <1>1, AudioIsHeaded DEF PlayInv
<1>6. /\ ~Heading' /\ InFrame' /\ ~Chaining /\ ~Chaining' /\ ~Opening' /\ Headed'
      /\ frame_size' = frame_size
  BY <1>1, <1>3, <1>5 DEF Heading, InFrame, Sending, Chaining, Opening, Headed, frame_size
<1>7. Left = frame_size /\ Left' = 0 /\ Ahead = frame_size /\ Ahead' = frame_size
  BY <1>1, <1>3, <1>5, <1>6 DEF Left, Ahead, Sending
<1>8. pageno # 0 /\ pageno # 1
  BY <1>1, <1>5 DEF PartInv
<1>9. PartInv'
  BY <1>1, <1>3, <1>4, <1>6, <1>8 DEF PartInv, KindOf
<1>10. call.nb = frame_size /\ enc.global_granule_offset = Lookahead
  BY <1>5 DEF FrameInv, StreamInv
<1> DEFINE g == enc.curr_granule
           o == streams[1].granule_offset
           f == frame_size
           x == streams[1].end_granule + Lookahead
           d == Tip.granule + Duration(pend)
<1>11. g \in Nat /\ o \in Int /\ f \in Nat /\ x \in Nat
  BY <1>5, FirstStream
<1>12. d \in Int
  <2>1. Tip \in PageSet /\ OnePackets(pend.segs)
    BY <1>8 DEF LineInv, PlayInv, PackerInv, OnePackets
  <2>2. Tip.granule \in Int /\ Duration(pend) \in Nat
    BY <2>1, DurationIsNat DEF PageSet
  <2> QED
    BY <2>2
<1>13. Reached = d + 0 /\ Reached' = d + f
  <2>1. Tip' = Tip /\ pend' = pend
    BY <1>1 DEF Tip, At
  <2> QED
    BY <1>1, <1>3, <1>4, <1>8, <1>10, <2>1 DEF Reached
<1>14. x = end_granule48k /\ g - f < x
  BY <1>5, <1>7, <1>10 DEF BehindInv, end_granule48k
<1>15. ~reader.uneven => g - o - f = d + 0
  BY <1>5, <1>7, <1>13 DEF ClockInv
<1>16. e_o_s = (g >= x) /\ granule = (IF e_o_s THEN x ELSE g) /\ e_o_s \in BOOLEAN
  BY <1>14 DEF e_o_s, granule
<1> HIDE DEF g, o, f, x, d
<1>17. ~reader.uneven =>
         /\ g - o - 0 = d + f
         /\ IF e_o_s THEN granule - o <= d + f /\ granule - o > d + f - f
            ELSE granule - o = d + f
  <2>1. SUFFICES ASSUME ~reader.uneven
        PROVE  /\ g - o - 0 = d + f
               /\ IF e_o_s THEN granule - o <= d + f /\ granule - o > d + f - f
                  ELSE granule - o = d + f
    OBVIOUS
  <2>2. g - o - 0 = d + f
    BY <1>11, <1>12, <1>15, <2>1
  <2>3. CASE e_o_s
    <3>1. granule = x /\ x <= g
      BY <1>11, <1>16, <2>3
    <3>2. granule - o <= d + f
      BY <1>11, <1>12, <2>2, <3>1
    <3>3. granule - o > d + f - f
      BY <1>11, <1>12, <1>14, <2>2, <3>1
    <3> QED
      BY <2>2, <2>3, <3>2, <3>3
  <2>4. CASE ~e_o_s
    BY <1>11, <1>12, <1>15, <1>16, <2>1, <2>2, <2>4
  <2> QED
    BY <2>2, <2>3, <2>4
<1>18. ~reader.uneven =>
         /\ enc.curr_granule - streams[1].granule_offset - Left' = Reached'
         /\ IF call'.eos
            THEN call'.granule <= Reached' /\ call'.granule > Reached' - call'.data[1].n
            ELSE call'.granule = Reached'
  <2>1. /\ call'.eos = e_o_s /\ call'.granule = granule - o /\ call'.data[1].n = f
        /\ Reached' = d + f /\ Left' = 0
    BY <1>3, <1>4, <1>7, <1>10, <1>13 DEF o, f
  <2> DEFINE e1 == call'.eos
             g1 == call'.granule
             n1 == call'.data[1].n
             r1 == Reached'
             l1 == Left'
  <2>2. e1 = e_o_s /\ g1 = granule - o /\ n1 = f /\ r1 = d + f /\ l1 = 0
    BY <2>1
  <2> HIDE DEF e1, g1, n1, r1, l1
  <2>3. ~reader.uneven =>
          /\ g - o - l1 = r1
          /\ IF e1 THEN g1 <= r1 /\ g1 > r1 - n1 ELSE g1 = r1
    <3>1. SUFFICES ASSUME ~reader.uneven
          PROVE  g - o - l1 = r1 /\ (IF e1 THEN g1 <= r1 /\ g1 > r1 - n1 ELSE g1 = r1)
      OBVIOUS
    <3>2. g - o - 0 = d + f
      BY <1>17, <3>1
    <3>3. e_o_s => granule - o <= d + f /\ granule - o > d + f - f
      BY <1>17, <3>1
    <3>4. ~e_o_s => granule - o = d + f
      BY <1>17, <3>1
    <3>5. e_o_s => g1 <= r1 /\ g1 > r1 - n1
      BY <1>11, <1>12, <2>2, <3>3
    <3>6. ~e_o_s => g1 = r1
      BY <2>2, <3>4
    <3>7. g - o - l1 = r1
      BY <2>2, <3>2
    <3> QED
      BY <2>2, <3>5, <3>6, <3>7
  <2> QED
    BY <2>3 DEF e1, g1, n1, r1, l1, g, o
<1> QED
  BY <1>1, <1>3, <1>5, <1>6, <1>7, <1>8, <1>9, <1>18, PacketForm

\* The keyframe once more; it ends where the frame begins.
LEMMA ChainedForm ==
  ASSUME IInv, TypeInv', PlayInv, Sound,
         LineInv, EndedInv, ReadInv, PartInv, BehindInv, ClockInv, Chained
  PROVE  LineInv' /\ EndedInv' /\ ReadInv' /\ PartInv' /\ BehindInv' /\ ClockInv'
<1> USE DEF IInv
<1>1. pc = "chained" /\ UNCHANGED <<pend, queue, given, pageno, reader, streams, enc>>
  BY DEF Chained, packer, bounds
<1>2. Headed /\ InFrame /\ ~Heading /\ streams # <<>> /\ ~LastSent /\ ~Opening
  BY <1>1, AudioIsHeaded DEF PlayInv
<1>3. Chaining /\ Ahead = frame_size /\ frame_size' = frame_size
      /\ frame_size \in Nat /\ frame_size > 0
  BY <1>1, <1>2, Numbers DEF Chaining, Ahead, frame_size
<1>4. CASE enc.chaining_keyframe # 0
  <2> DEFINE g == enc.curr_granule
             o == streams[1].granule_offset
             f == frame_size
             d == Tip.granule + Duration(pend)
             k == enc.chaining_keyframe
  <2>1. Commits(Packet("audio", k), g - o - f, FALSE, FALSE, FALSE, "packet", call)
    BY <1>4 DEF Chained
  <2>2. call \in CallStates
    BY DEF TypeInv
  <2>3. /\ pc' = "commit" /\ call'.data = Packet("audio", k) /\ call'.eos = FALSE
        /\ call'.granule = g - o - f /\ call'.then = "packet"
    <3> HIDE DEF g, o, f, k
    <3> QED
      BY <2>1, <2>2, CommitsFields
  <2>4. call'.data[1].kind = "audio" /\ call'.data[1].n = k
    BY <2>3 DEF Packet
  <2>5. ~Heading' /\ InFrame' /\ ~Chaining' /\ ~Opening' /\ Headed'
    BY <1>1, <1>2, <2>3 DEF Heading, InFrame, Sending, Chaining, Opening, Headed
  <2>6. Left = f + f /\ Left' = f /\ Ahead' = f
    BY <1>1, <1>3, <1>4, <2>3, <2>5 DEF Left, Ahead, Sending
  <2>7. pageno # 0 /\ pageno # 1
    BY <1>1, <1>2 DEF PartInv
  <2>8. PartInv'
    BY <1>1, <2>3, <2>4, <2>5, <2>7 DEF PartInv, KindOf
  <2>9. g \in Nat /\ o \in Int /\ f \in Nat
    BY <1>2, FirstStream
  <2>10. d \in Int
    <3>1. Tip \in PageSet /\ OnePackets(pend.segs)
      BY <2>7 DEF LineInv, PlayInv, PackerInv, OnePackets
    <3>2. Tip.granule \in Int /\ Duration(pend) \in Nat
      BY <3>1, DurationIsNat DEF PageSet
    <3> QED
      BY <3>2
  <2>11. Reached = d + 0 /\ Reached' = d + k
    <3>1. Tip' = Tip /\ pend' = pend
      BY <1>1 DEF Tip, At
    <3> QED
      BY <1>1, <2>3, <2>4, <2>7, <3>1 DEF Reached
  <2>12. ~reader.uneven => g - o - (f + f) = d + 0 /\ k = f
    BY <1>2, <1>3, <1>4, <2>6, <2>11 DEF ClockInv
  <2> HIDE DEF g, o, f, d, k
  <2>13. ~reader.uneven => g - o - f = d + k
    BY <2>9, <2>10, <2>12
  <2>14. ~reader.uneven =>
           /\ enc.curr_granule - streams[1].granule_offset - Left' = Reached'
           /\ call'.granule = Reached'
    BY <2>3, <2>6, <2>11, <2>13 DEF g, o, f
  <2> QED
    BY <1>1, <1>2, <1>3, <2>3, <2>5, <2>6, <2>7, <2>8, <2>14, PacketForm DEF f
<1>5. CASE enc.chaining_keyframe = 0
  <2>1. pc' = "packet" /\ call' = call
    BY <1>5 DEF Chained
  <2>2. ~Heading' /\ InFrame' /\ ~Chaining' /\ ~Opening' /\ Headed' /\ ~LastSent'
    BY <1>1, <1>2, <2>1 DEF Heading, InFrame, Chaining, Opening, Headed, LastSent
  <2>3. Left = frame_size + 0 /\ Left' = frame_size /\ Ahead' = frame_size
    BY <1>3, <1>5, <2>1, <2>2 DEF Left, Ahead
  <2>4. Left' = Left
    BY <1>3, <2>3
  <2>5. LineInv' /\ ReadInv' /\ Tip' = Tip
    BY <1>1, LineStays
  <2>6. streams[1].end_granule <= streams[1].end_granule
    <3>1. streams[1].end_granule \in Nat
      BY <1>2, FirstStream
    <3> QED
      BY <3>1
  <2>7. ClockStep
    BY <1>1, <1>2, <1>3, <2>1, <2>2, <2>3, <2>4, <2>5, <2>6 DEF ClockStep
  <2> QED
    BY <2>5, <2>7, ClockStepKeeps
<1> QED
  BY <1>4, <1>5

-----------------------------------------------------------------------------
(* A packet joins what is pending *)

\* Packets of one kind stay so.
LEMMA KindsGrow ==
  ASSUME NEW s \in Seq(Data), NEW t \in Seq(Data), NEW data, NEW kind,
         Len(t) = Len(s) + 1, t[Len(s) + 1] = data,
         \A i \in 1..Len(s) : t[i] = s[i],
         data[1].kind = kind, s # <<>> => Kinds(s) = {kind}
  PROVE  Kinds(t) = {kind}
<1>1. /\ DOMAIN s = 1..Len(s) /\ DOMAIN t = 1..(Len(s) + 1) /\ Len(s) \in Nat
      /\ (s # <<>> <=> Len(s) > 0)
  BY LenProperties, EmptySeq
<1>2. ASSUME NEW i \in 1..Len(s) PROVE s[i][1].kind = kind
  <2>1. s # <<>> /\ i \in DOMAIN s
    BY <1>1
  <2>2. s[i][1].kind \in Kinds(s)
    BY <2>1 DEF Kinds
  <2> QED
    BY <2>1, <2>2
<1>3. \A i \in 1..(Len(s) + 1) : i \in 1..Len(s) \/ i = Len(s) + 1
  BY <1>1
<1>4. \A i \in DOMAIN t : t[i][1].kind = kind
  BY <1>1, <1>2, <1>3
<1>5. Len(s) + 1 \in DOMAIN t
  BY <1>1
<1> QED
  BY <1>4, <1>5 DEF Kinds

\* The packet is of the kind and for the position that the page it joins goes on with.
LEMMA CommitForm ==
  ASSUME IInv, PlayInv, Sound,
         LineInv, EndedInv, ReadInv, PartInv, BehindInv, ClockInv, Commit
  PROVE  LineInv' /\ EndedInv' /\ ReadInv' /\ PartInv' /\ BehindInv' /\ ClockInv'
<1> USE DEF IInv
<1>1. /\ call.data \in Data /\ call.granule \in Int /\ call.eos \in BOOLEAN
      /\ call.then \in {"tags", "inited", "sent", "packet"}
  BY DEF TypeInv, CallStates, ControlInv, Commit
<1>2. /\ pc = "commit" /\ pc' = "page"
      /\ UNCHANGED <<queue, given, pageno, reader, streams, starts, call, enc>>
      /\ Packer!Add(call.data, call.granule, call.eos)
  BY DEF Commit, bounds, Packer!Add
<1>3. PackerInv /\ Len(call.data) = 1 /\ pend.segs \in Seq(Data)
  BY <1>2 DEF PlayInv, PackerInv
<1>4. Packer!Segments(call.data) = <<call.data>> /\ <<call.data>> \in Seq(Data)
      /\ Len(<<call.data>>) = 1
  BY <1>1, <1>3, PacketIsSegment
<1>5. pend' = [segs |-> pend.segs \o <<call.data>>, granule |-> call.granule,
               eos |-> call.eos, cont |-> FALSE]
  BY <1>2, <1>4 DEF Packer!Add
<1>6. /\ pend'.segs = pend.segs \o <<call.data>> /\ pend'.eos = call.eos
      /\ pend'.granule = call.granule /\ pend'.cont = FALSE
  BY <1>5
<1>7. /\ pend'.segs \in Seq(Data) /\ Len(pend'.segs) = Len(pend.segs) + 1
      /\ \A i \in 1..Len(pend.segs) : pend'.segs[i] = pend.segs[i]
      /\ pend'.segs[Len(pend.segs) + 1] = call.data
      /\ Len(pend.segs) \in Nat
  <2>1. Len(pend.segs) \in Nat
    BY <1>3, LenProperties
  <2>2. /\ pend.segs \o <<call.data>> \in Seq(Data)
        /\ Len(pend.segs \o <<call.data>>) = Len(pend.segs) + 1
        /\ \A i \in 1..(Len(pend.segs) + Len(<<call.data>>)) :
             (pend.segs \o <<call.data>>)[i] =
                IF i <= Len(pend.segs) THEN pend.segs[i] ELSE <<call.data>>[i - Len(pend.segs)]
    BY <1>3, <1>4, ConcatProperties
  <2> QED
    BY <1>4, <1>6, <2>1, <2>2
<1>8. Headed /\ streams # <<>>
  BY <1>2, OutputIsHeaded DEF PlayInv, Headed
<1>9. /\ (Heading' <=> Heading) /\ (Sending' <=> Sending) /\ (Chaining' <=> Chaining)
      /\ (InFrame' <=> InFrame) /\ ~LastSent /\ Headed' /\ ~Opening /\ ~Opening'
      /\ frame_size' = frame_size
  BY <1>2, <1>8 DEF Heading, Sending, Chaining, InFrame, LastSent, Headed, Opening, frame_size
<1>10. Left' = Left /\ Ahead' = Ahead
  BY <1>2, <1>9 DEF Left, Ahead
<1>11. Tip' = Tip /\ \A i : At(i)' = At(i)
  BY <1>2 DEF Tip, At
<1>12. pageno # 0 => ~Tip.eos
  BY <1>2, <1>8, <1>9 DEF EndedInv, Ended
<1>13. EndedInv'
  BY <1>2, <1>11, <1>12 DEF EndedInv
<1>14. PartInv' /\ call.data[1].kind = KindOf(pageno)
       /\ (pageno = 0 => call.granule = 0 /\ ~call.eos)
  BY <1>2, <1>8, <1>9 DEF PartInv
<1> DEFINE n == call.data[1].n
           d == Tip.granule + Duration(pend)
<1>15. n \in Nat
  <2> DEFINE P == [kind : {"head", "tags", "audio"}, n : Nat]
  <2>1. call.data \in Seq(P) /\ 1 \in 1..Len(call.data)
    BY <1>1, <1>3 DEF Data
  <2> HIDE DEF P
  <2>2. call.data[1] \in P
    BY <2>1, ElementOfSeq
  <2> QED
    BY <2>2 DEF P
<1>16. OnePackets(pend.segs) /\ OnePackets(pend'.segs)
  <2>1. OnePackets(pend.segs)
    BY <1>3 DEF PackerInv, OnePackets
  <2>2. /\ DOMAIN pend'.segs = 1..(Len(pend.segs) + 1) /\ DOMAIN pend.segs = 1..Len(pend.segs)
        /\ \A i \in 1..(Len(pend.segs) + 1) : i \in 1..Len(pend.segs) \/ i = Len(pend.segs) + 1
    BY <1>3, <1>7, LenProperties
  <2> QED
    BY <1>3, <1>7, <2>1, <2>2 DEF OnePackets
<1>17. Duration(pend') = Duration(pend) + n
  BY <1>7, <1>16, DurationGrows
<1>18. pageno # 0 => /\ Tip \in PageSet /\ Tip.granule \in Int /\ d \in Int
                     /\ Reached = d + n /\ Reached' = d + n
                     /\ Tip.granule + Duration(pend') = d + n
  <2>1. SUFFICES ASSUME pageno # 0
        PROVE  /\ Tip \in PageSet /\ Tip.granule \in Int /\ d \in Int
               /\ Reached = d + n /\ Reached' = d + n /\ Tip.granule + Duration(pend') = d + n
    OBVIOUS
  <2>2. Tip \in PageSet
    BY <2>1 DEF LineInv
  <2>3. Tip.granule \in Int /\ Duration(pend) \in Nat
    BY <1>16, <2>2, DurationIsNat DEF PageSet
  <2>4. Reached = d + n
    BY <1>2, <2>1 DEF Reached
  <2>5. Reached' = Tip.granule + (Duration(pend) + n) + 0
    BY <1>2, <1>11, <1>17, <2>1 DEF Reached
  <2> HIDE DEF n
  <2>6. /\ d \in Int /\ Tip.granule + (Duration(pend) + n) = d + n
        /\ Tip.granule + (Duration(pend) + n) + 0 = d + n
    <3> DEFINE t == Tip.granule
               e == Duration(pend)
    <3>1. t \in Int /\ e \in Nat /\ n \in Nat
      BY <1>15, <2>3
    <3> HIDE DEF t, e
    <3>2. t + e \in Int /\ t + (e + n) = (t + e) + n /\ t + (e + n) + 0 = (t + e) + n
      BY <3>1
    <3> QED
      BY <3>2 DEF t, e
  <2> QED
    BY <1>17, <2>2, <2>3, <2>4, <2>5, <2>6
<1>19. LineInv'
  <2> DEFINE q == NextPage'
  <2>1. /\ q.segs = pend'.segs /\ q.granule = call.granule /\ q.cont = FALSE
        /\ q.bos = (pageno = 0) /\ q.eos = call.eos /\ q.pageno = pageno
    BY <1>2, <1>6 DEF NextPage
  <2> HIDE DEF q
  <2>2. Kinds(q.segs) = {KindOf(pageno)}
    <3>1. pend.segs # <<>> => Kinds(pend.segs) = {KindOf(pageno)}
      BY DEF LineInv, PageFollows, NextPage
    <3>2. Kinds(pend'.segs) = {KindOf(pageno)}
      <4> DEFINE s == pend.segs
                 t == pend'.segs
                 data == call.data
                 kind == KindOf(pageno)
      <4>1. /\ s \in Seq(Data) /\ t \in Seq(Data)
            /\ Len(t) = Len(s) + 1 /\ t[Len(s) + 1] = data
            /\ \A i \in 1..Len(s) : t[i] = s[i]
            /\ data[1].kind = kind /\ (s # <<>> => Kinds(s) = {kind})
        BY <1>3, <1>7, <1>14, <3>1
      <4> HIDE DEF s, t, data, kind
      <4>2. Kinds(t) = {kind}
        BY <4>1, KindsGrow
      <4> QED
        BY <4>2 DEF t, kind
    <3> QED
      BY <2>1, <3>2
  <2>3. Last(q.segs)[1].n = n /\ Duration(q) = Duration(pend')
    BY <1>7, <2>1, DurationOfSame DEF Last
  <2>4. pageno # 0 => Tip.pageno = pageno - 1 /\ ~Tip.eos
    BY <1>12 DEF LineInv
  <2>5. ASSUME pageno # 0, ~reader.uneven
        PROVE  IF q.eos THEN /\ q.granule <= Tip.granule + Duration(q)
                             /\ q.granule > (Tip.granule + Duration(q)) - Last(q.segs)[1].n
               ELSE q.granule = Tip.granule + Duration(q)
    <3>1. IF call.eos THEN call.granule <= Reached /\ call.granule > Reached - n
          ELSE call.granule = Reached
      BY <1>2, <1>8, <2>5 DEF ClockInv
    <3>2. Tip.granule + Duration(q) = Reached
      BY <1>18, <2>3, <2>5
    <3> DEFINE e == q.eos
               g == q.granule
               p == Tip.granule + Duration(q)
               m == Last(q.segs)[1].n
    <3>3. Reached \in Int /\ p \in Int /\ p = Reached /\ m = n /\ g = call.granule
          /\ e = call.eos
      BY <1>15, <1>18, <2>1, <2>3, <2>5, <3>2
    <3> HIDE DEF e, g, p, m, n
    <3>4. (e => g <= p) /\ (e => g > p - m) /\ (~e => g = p)
      BY <1>1, <3>1, <3>3
    <3> QED
      BY <3>4 DEF e, g, p, m
  <2>6. PageFollows(Tip, q, ~reader.uneven)
    BY <1>14, <2>1, <2>2, <2>4, <2>5 DEF PageFollows
  <2>7. pend'.segs # <<>> => PageFollows(Tip, NextPage, ~reader.uneven)'
    BY <1>2, <1>11, <2>6 DEF q
  <2> QED
    BY <1>2, <1>11, <2>7 DEF LineInv
<1>20. ReadInv'
  BY <1>2 DEF ReadInv
<1>21. BehindInv'
  BY <1>2, <1>10 DEF BehindInv
<1>22. pageno = 0 => Reached = 0 /\ Reached' = 0
  BY <1>2 DEF Reached
<1>23. Reached' = Reached
  BY <1>18, <1>22
<1>24. ClockInv'
  BY <1>2, <1>8, <1>9, <1>10, <1>23 DEF ClockInv
<1> QED
  BY <1>13, <1>14, <1>19, <1>20, <1>21, <1>24

-----------------------------------------------------------------------------
(* What is pending becomes a page *)

\* The page made is the one that what was pending would make.
LEMMA CutForm ==
  ASSUME PlayInv, Sound, TypeInv,
         LineInv, EndedInv, ReadInv, BehindInv, ClockInv, Packer!Cut,
         UNCHANGED <<given, reader, streams, call, enc>>,
         pc' = "commit" => pc = "commit" /\ pageno # 0, pc = "commit" => pc' = "commit",
         pc' # "page", pc \notin {"init"}, pc' \notin {"init"},
         Heading' <=> Heading, Headed' <=> Headed, LastSent => LastSent',
         Chaining' => Chaining, Left' = Left, Ahead' = Ahead, PartInv'
  PROVE  LineInv' /\ EndedInv' /\ ReadInv' /\ PartInv' /\ BehindInv' /\ ClockInv'
<1> DEFINE L == Len(queue)
<1>1. PackerInv /\ pend.segs # <<>> /\ LastPacketInv
  BY DEF PlayInv, Packer!Cut
<1>2. /\ queue' = Append(queue, NextPage) /\ pend' = Packer!NothingPending
      /\ pageno' = pageno + 1 /\ NextPage \in PageSet /\ UNCHANGED given
  BY <1>1, PendingIsPage DEF Packer!Cut, NextPage
<1>3. /\ queue \in Seq(PageSet) /\ pageno \in Nat /\ L \in Nat
      /\ NextPage.eos = pend.eos /\ NextPage.segs = pend.segs /\ NextPage.pageno = pageno
      /\ NextPage.granule \in Int
  BY <1>1, <1>2, LenProperties DEF PackerInv, NextPage, PageSet
<1>4. /\ Len(queue') = L + 1 /\ \A i \in 1..L : queue'[i] = queue[i]
      /\ queue'[L + 1] = NextPage
  BY <1>2, <1>3, AppendProperties
<1>5. pend'.segs = <<>>
  BY <1>2 DEF Packer!NothingPending
<1>6. /\ \A i \in 0..L : At(i)' = At(i)
      /\ \A i : i = L + 1 => At(i)' = NextPage
      /\ Tip' = NextPage
  <2>1. L + 1 # 0 /\ \A i \in 0..L : i = 0 \/ i \in 1..L
    BY <1>3
  <2>2. \A i \in 0..L : At(i)' = At(i)
    BY <1>2, <1>4, <2>1 DEF At
  <2>3. \A i : i = L + 1 => At(i)' = NextPage
    BY <1>4, <2>1 DEF At
  <2>4. Tip' = NextPage
    BY <1>4, <2>1 DEF At, Tip
  <2> QED
    BY <2>2, <2>3, <2>4
<1>7. PageFollows(Tip, NextPage, ~reader.uneven)
  BY <1>1 DEF LineInv
<1>8. LineInv'
  <2>1. ASSUME NEW i \in 1..(L + 1)
        PROVE  PageFollows(At(i - 1)', At(i)', ~reader.uneven)
    <3>1. CASE i \in 1..L
      <4>1. i \in 0..L /\ i - 1 \in 0..L
        BY <1>3, <3>1
      <4> QED
        BY <1>6, <3>1, <4>1 DEF LineInv
    <3>2. CASE i = L + 1
      <4>1. i - 1 = L /\ L \in 0..L
        BY <1>3, <3>2
      <4>2. At(i - 1) = Tip
        BY <4>1 DEF Tip
      <4>3. At(i - 1)' = At(i - 1) /\ At(i)' = NextPage
        BY <1>6, <3>2, <4>1
      <4> QED
        BY <1>7, <4>2, <4>3
    <3> QED
      BY <1>3, <3>1, <3>2
  <2>2. pageno' # 0 => Tip' \in PageSet /\ Tip'.pageno = pageno' - 1
    BY <1>2, <1>3, <1>6
  <2>3. pageno' = 1 => Tip'.granule = 0
    <3>1. pageno = 0 => NextPage.granule = 0
      BY <1>3, <1>7 DEF PageFollows
    <3> QED
      BY <1>2, <1>3, <1>6, <3>1
  <2>4. \A i \in 1..Len(queue') : PageFollows(At(i - 1)', At(i)', ~reader'.uneven)
    BY <1>4, <2>1
  <2> QED
    BY <1>5, <2>2, <2>3, <2>4 DEF LineInv
<1>9. pend.eos => LastSent
  BY <1>1 DEF LastPacketInv, LastSent
<1>10. EndedInv'
  BY <1>3, <1>5, <1>6, <1>9 DEF EndedInv, Ended
<1>11. ReadInv'
  BY <1>2 DEF ReadInv
<1>12. BehindInv'
  BY DEF BehindInv
<1>13. Duration(pend') = 0 /\ Duration(NextPage) = Duration(pend)
  BY <1>3, <1>5, DurationOfNone, DurationOfSame
<1> DEFINE n == IF pc = "commit" THEN call.data[1].n ELSE 0
           x == NextPage.granule
           y == Tip.granule + Duration(pend)
<1>14. pageno = 0 => Reached = 0 /\ x = 0 /\ n = 0
  BY <1>3, <1>7 DEF Reached, PageFollows
<1>15. pageno # 0 /\ ~reader.uneven /\ ~pend.eos => Reached = x + n
  <2>1. SUFFICES ASSUME pageno # 0, ~reader.uneven, ~pend.eos PROVE Reached = x + n
    OBVIOUS
  <2>2. x = y
    BY <1>3, <1>7, <1>13, <2>1 DEF PageFollows
  <2>3. Reached = y + n
    BY <2>1 DEF Reached
  <2> QED
    BY <2>2, <2>3
<1>16. Reached' = x + 0 + n
  <2>1. pageno' # 0
    BY <1>2, <1>3
  <2>2. Reached' = Tip'.granule + Duration(pend') + n
    BY <2>1 DEF Reached
  <2> QED
    BY <1>6, <1>13, <2>2
<1>17. ~reader.uneven /\ ~pend.eos => Reached' = Reached
  <2> HIDE DEF n, x
  <2>1. x \in Int
    BY <1>3 DEF x
  <2>2. x + 0 = x
    BY <2>1
  <2>3. 0 + 0 = 0
    OBVIOUS
  <2> QED
    BY <1>14, <1>15, <1>16, <2>2, <2>3
<1>18. ClockInv'
  <2>1. pc = "commit" => ~LastSent /\ ~pend.eos
    BY <1>9 DEF LastSent
  <2>2. frame_size' = frame_size
    BY DEF frame_size
  <2>3. SUFFICES ASSUME streams # <<>>, ~reader.uneven
        PROVE  /\ ~LastSent' => enc.curr_granule - streams[1].granule_offset - Left' =
                                  IF Headed' THEN Reached' ELSE 0
               /\ Chaining' => enc.chaining_keyframe \in {0, frame_size'}
               /\ pc' = "commit" /\ pageno' # 0 =>
                    IF call.eos
                    THEN call.granule <= Reached' /\ call.granule > Reached' - call.data[1].n
                    ELSE call.granule = Reached'
    BY DEF ClockInv
  <2>4. ~LastSent' => enc.curr_granule - streams[1].granule_offset - Left' =
                        IF Headed' THEN Reached' ELSE 0
    BY <1>9, <1>17, <2>3 DEF ClockInv
  <2>5. Chaining' => enc.chaining_keyframe \in {0, frame_size'}
    BY <2>2, <2>3 DEF ClockInv
  <2>6. pc' = "commit" => IF call.eos
                          THEN call.granule <= Reached' /\ call.granule > Reached' - call.data[1].n
                          ELSE call.granule = Reached'
    BY <1>17, <2>1, <2>3 DEF ClockInv
  <2> QED
    BY <2>4, <2>5, <2>6
<1> QED
  BY <1>8, <1>10, <1>11, <1>12, <1>18

\* Pages are made while a packet is on its way, or when they are asked for.
LEMMA CutsForm ==
  ASSUME IInv, PlayInv, Sound,
         LineInv, EndedInv, ReadInv, PartInv, BehindInv, ClockInv,
         FlushBefore \/ Page \/ GetPage(TRUE)
  PROVE  LineInv' /\ EndedInv' /\ ReadInv' /\ PartInv' /\ BehindInv' /\ ClockInv'
<1> USE DEF IInv
<1>1. /\ Packer!Cut /\ UNCHANGED <<given, reader, streams, call, enc>>
      /\ pend.segs # <<>> /\ pend'.segs = <<>> /\ pageno' = pageno + 1 /\ pageno \in Nat
  <2>1. Packer!Cut /\ UNCHANGED <<given, reader, streams, call, enc>>
    BY DEF FlushBefore, Page, GetPage, bounds, Packer!Cut
  <2>2. pend.segs # <<>> /\ pend' = Packer!RestOf(pend) /\ pageno' = pageno + 1
    BY <2>1 DEF Packer!Cut
  <2>3. pend'.segs = <<>> /\ pageno \in Nat
    BY <2>2, PendingIsPage DEF PlayInv, PackerInv, Packer!NothingPending
  <2> QED
    BY <2>1, <2>2, <2>3
<1>2. /\ call.then \in {"idle", "tags", "inited", "sent", "packet"}
      /\ pc \in {"commit", "page"} => call.then # "idle"
  BY DEF TypeInv, CallStates, ControlInv
<1>3. frame_size' = frame_size /\ pageno' # 0 /\ (pageno' = 1 <=> pageno = 0)
  BY <1>1 DEF frame_size
<1>4. CASE FlushBefore
  <2>1. pc = "commit" /\ pc' = "commit"
    BY <1>4 DEF FlushBefore
  <2>2. Headed
    BY <2>1, OutputIsHeaded DEF PlayInv
  <2>3. ~Heading
    BY <1>1, <2>1, <2>2 DEF PartInv
  <2>4. /\ (Heading' <=> Heading) /\ (Headed' <=> Headed) /\ (LastSent' <=> LastSent)
        /\ (Chaining' <=> Chaining) /\ (Sending' <=> Sending) /\ (InFrame' <=> InFrame)
    BY <1>1, <2>1 DEF Heading, Headed, LastSent, Chaining, Sending, InFrame
  <2>5. Left' = Left /\ Ahead' = Ahead
    BY <1>1, <1>3, <2>1, <2>4 DEF Left, Ahead
  <2>6. pageno # 0 /\ pageno # 1 /\ KindOf(pageno) = "audio"
    BY <2>1, <2>2, <2>3 DEF PartInv, Heading, Opening, KindOf
  <2>7. PartInv'
    <3>1. call.then \notin {"tags", "inited"}
      BY <2>1, <2>3 DEF Heading
    <3>2. pageno' # 1 /\ KindOf(pageno') = "audio" /\ call.data[1].kind = "audio"
      BY <1>3, <2>1, <2>2, <2>6 DEF PartInv, KindOf
    <3> QED
      BY <1>1, <1>3, <2>1, <3>1, <3>2 DEF PartInv, Opening
  <2> QED
    BY <1>1, <2>1, <2>4, <2>5, <2>6, <2>7, CutForm
<1>5. CASE Page
  <2>1. pc = "page" /\ pc' \in {"output", call.then}
    BY <1>5 DEF Page, AfterPage
  <2>2. Headed
    BY <2>1, OutputIsHeaded DEF PlayInv
  <2>3. /\ (Heading' <=> Heading) /\ (LastSent => LastSent')
        /\ (Sending => InFrame /\ InFrame') /\ (InFrame' <=> InFrame)
        /\ (Chaining' <=> Chaining)
    BY <1>1, <1>2, <2>1 DEF Heading, LastSent, Chaining, Sending, InFrame
  <2>4. Headed' <=> Headed
    BY <1>1, <1>2, <2>1, <2>3 DEF Headed
  <2>5. pc' = "packet" \/ (Sending /\ call.then = "packet")' <=> Sending /\ call.then = "packet"
    BY <1>1, <1>2, <2>1 DEF Sending
  <2>6. Left' = Left /\ Ahead' = Ahead
    BY <1>1, <1>3, <2>1, <2>3, <2>5 DEF Left, Ahead
  <2>7. PartInv'
    <3>1. /\ (pageno = 0 <=> call.then = "tags") /\ (pageno = 1 <=> call.then = "inited")
      BY <2>1, <2>2 DEF PartInv, Opening
    <3>2. Opening' <=> call.then = "tags"
      BY <1>1, <1>2, <2>1 DEF Opening
    <3> QED
      BY <1>1, <1>2, <1>3, <2>1, <3>1, <3>2 DEF PartInv
  <2> QED
    BY <1>1, <1>2, <2>1, <2>3, <2>4, <2>6, <2>7, CutForm
<1>6. CASE GetPage(TRUE)
  <2>1. pc = "idle" /\ pc' = "pull"
    BY <1>6 DEF GetPage
  <2>2. /\ (Heading' <=> Heading) /\ (Headed' <=> Headed) /\ (LastSent' <=> LastSent)
        /\ (Chaining' <=> Chaining) /\ (Sending' <=> Sending) /\ (InFrame' <=> InFrame)
        /\ ~Heading /\ ~Opening /\ ~Opening'
    BY <1>1, <2>1 DEF Heading, Headed, LastSent, Chaining, Sending, InFrame, Opening
  <2>3. Left' = Left /\ Ahead' = Ahead
    BY <1>1, <1>3, <2>1, <2>2 DEF Left, Ahead
  <2>4. PartInv'
    BY <1>1, <1>3, <2>1, <2>2 DEF PartInv
  <2> QED
    BY <1>1, <2>1, <2>2, <2>3, <2>4, CutForm
<1> QED
  BY <1>4, <1>5, <1>6

-----------------------------------------------------------------------------
(* No page is made, or the reader takes one *)

LEMMA NoPageForm ==
  ASSUME IInv, PlayInv, Sound,
         LineInv, EndedInv, ReadInv, PartInv, BehindInv, ClockInv, NoPage
  PROVE  LineInv' /\ EndedInv' /\ ReadInv' /\ PartInv' /\ BehindInv' /\ ClockInv'
<1> USE DEF IInv
<1>1. /\ pc = "page" /\ pc' \in {"output", call.then} /\ ~call.flush
      /\ UNCHANGED <<pend, queue, given, pageno, reader, streams, call, enc>>
      /\ call.then \in {"tags", "inited", "sent", "packet"}
  BY DEF NoPage, AfterPage, bounds, packer, TypeInv, CallStates, ControlInv
<1>2. ~call.eos /\ call.then \notin {"tags", "inited"}
  BY <1>1, Fields DEF PlayInv, PackerInv
<1>3. /\ ~Heading /\ ~Heading' /\ pc' \in {"output", "sent", "packet"}
      /\ ~LastSent /\ ~LastSent' /\ ~Opening' /\ ~Chaining /\ ~Chaining' /\ InFrame /\ InFrame'
      /\ frame_size' = frame_size
  BY <1>1, <1>2 DEF Heading, LastSent, Opening, Chaining, InFrame, Sending, frame_size
<1>4. Headed /\ Headed' /\ streams # <<>>
  <2>1. Headed
    BY <1>1, OutputIsHeaded DEF PlayInv
  <2> QED
    BY <1>1, <1>3, <2>1 DEF Headed
<1>5. Left' = Left /\ Ahead' = Ahead
  <2>1. pc' = "packet" \/ (Sending /\ call.then = "packet")' <=> Sending /\ call.then = "packet"
    BY <1>1, <1>3 DEF Sending
  <2> QED
    BY <1>1, <1>3, <2>1 DEF Left, Ahead
<1>6. LineInv' /\ ReadInv' /\ Tip' = Tip
  BY <1>1, LineStays
<1>7. EndedInv'
  <2>1. pageno # 0 => ~Tip.eos
    BY <1>1, <1>3, <1>4 DEF EndedInv, Ended
  <2> QED
    BY <1>1, <1>6, <2>1 DEF EndedInv
<1>8. PartInv'
  BY <1>1, <1>2, <1>3, <1>4 DEF PartInv, Opening
<1>9. Reached' = Reached
  BY <1>1, <1>3, <1>6 DEF Reached
<1>10. BehindInv' /\ ClockInv'
  BY <1>1, <1>3, <1>4, <1>5, <1>9 DEF BehindInv, ClockInv
<1> QED
  BY <1>6, <1>7, <1>8, <1>10

\* The page handed out is the first of the queue, and the queue moves up.
LEMMA QueueMoves ==
  ASSUME PackerInv, Packer!Give
  PROVE  /\ given' \in PageSet /\ given' = At(1)
         /\ Len(queue) \in Nat /\ Len(queue) > 0 /\ Len(queue') = Len(queue) - 1
         /\ \A i \in 0..(Len(queue) - 1) : At(i)' = At(i + 1)
         /\ Tip' = Tip
         /\ UNCHANGED <<pend, pageno>>
<1> DEFINE L == Len(queue)
<1>1. /\ queue # <<>> /\ given' = Head(queue) /\ queue' = Tail(queue)
      /\ pend' = pend /\ pageno' = pageno
  BY DEF Packer!Give
<1>2. queue \in Seq(PageSet) /\ L \in Nat /\ L > 0
  BY <1>1, LenProperties, EmptySeq DEF PackerInv
<1>3. /\ Len(queue') = L - 1 /\ \A i \in 1..(L - 1) : queue'[i] = queue[i + 1]
      /\ given' = queue[1]
  <2>1. Len(queue') = L - 1 /\ \A i \in 1..Len(queue') : queue'[i] = queue[i + 1]
    BY <1>1, <1>2, HeadTailProperties
  <2>2. given' = queue[1]
    BY <1>1, <1>2
  <2> QED
    BY <2>1, <2>2
<1>4. queue[1] \in PageSet
  <2>1. 1 \in 1..L
    BY <1>2
  <2> HIDE DEF PageSet
  <2> QED
    BY <1>2, <2>1, ElementOfSeq
<1>5. ASSUME NEW i \in 0..(L - 1) PROVE At(i)' = At(i + 1)
  <2>1. i + 1 # 0
    BY <1>2
  <2>2. CASE i = 0
    <3>1. At(i)' = given'
      BY <2>2 DEF At
    <3>2. i + 1 = 1
      BY <2>2
    <3> QED
      BY <1>3, <2>1, <3>1, <3>2 DEF At
  <2>3. CASE i # 0
    <3>1. i \in 1..(L - 1)
      BY <1>2, <2>3
    <3> QED
      BY <1>3, <2>1, <2>3, <3>1 DEF At
  <2> QED
    BY <2>2, <2>3
<1>6. Tip' = Tip
  <2>1. L # 0 /\ L - 1 \in 0..(L - 1) /\ (L - 1) + 1 = L
    BY <1>2
  <2>2. \A i : i = L - 1 => At(i)' = At(L)
    BY <1>5, <2>1
  <2>3. Tip' = At(Len(queue))'
    BY DEF Tip
  <2>4. \A i : i = Len(queue') => At(i)' = Tip'
    BY DEF Tip, At
  <2> QED
    BY <1>3, <2>2, <2>4 DEF Tip
<1>7. At(1) = queue[1]
  BY DEF At
<1> QED
  BY <1>1, <1>2, <1>3, <1>4, <1>5, <1>6, <1>7

\* The reader counts the page.
LEMMA ReaderMoves ==
  ASSUME PackerInv, NEW user, reader' = Reads(user, given')
  PROVE  /\ reader'.uneven = reader.uneven
         /\ given'.bos => reader'.pages = 1 /\ reader'.time = 0
         /\ ~given'.bos => /\ reader'.pages = reader.pages + 1
                           /\ reader'.time = reader.time + Duration(given')
                           /\ reader'.user = reader.user
<1> DEFINE h == reader.heads
           u == reader.user
           p == reader.pages
           k == reader.skip
           t == reader.time
           v == reader.uneven
           d == Duration(given')
           n == given'.segs[1][1].n
<1>1. reader = [heads |-> h, user |-> u, pages |-> p, skip |-> k, time |-> t, uneven |-> v]
  BY DEF PackerInv
<1>2. reader' = IF given'.bos
                THEN [reader EXCEPT !.heads = h + 1, !.user = user, !.pages = 1,
                                    !.skip = n, !.time = 0]
                ELSE [reader EXCEPT !.pages = p + 1, !.time = t + d]
  BY DEF Reads
<1> HIDE DEF h, u, p, k, t, v, d, n
<1>3. reader' = IF given'.bos
                THEN [heads |-> h + 1, user |-> user, pages |-> 1, skip |-> n, time |-> 0,
                      uneven |-> v]
                ELSE [heads |-> h, user |-> u, pages |-> p + 1, skip |-> k, time |-> t + d,
                      uneven |-> v]
  BY <1>1, <1>2
<1> QED
  BY <1>3 DEF u, p, t, v, d

\* What StreamIsWellFormed says of a page read (518-570, 587-715).
WellRead ==
  LET k == reader'.pages
      kinds == {given'.segs[i][1].kind : i \in DOMAIN given'.segs}
  IN /\ given'.pageno = k - 1 /\ given'.bos = (k = 1) /\ ~given'.cont
     /\ k > 1 => reader'.user = reader.user /\ ~given.eos
     /\ kinds = {CASE k = 1 -> "head" [] k = 2 -> "tags" [] OTHER -> "audio"}
     /\ ~reader.uneven =>
          IF given'.eos
          THEN /\ given'.granule <= reader'.time
               /\ given'.granule > reader'.time - Last(given'.segs)[1].n
          ELSE given'.granule = reader'.time

\* The page read comes after the one read before it.
LEMMA GiveForm ==
  ASSUME PackerInv, TypeInv, TypeInv', NEW user,
         LineInv, EndedInv, ReadInv, PartInv, BehindInv, ClockInv,
         Packer!Give, reader' = Reads(user, given'),
         UNCHANGED <<streams, call, enc>>,
         pc \in {"output", "pull", "idle"}, pc' \in {"output", "idle"},
         pc = "output" <=> pc' = "output"
  PROVE  /\ LineInv' /\ EndedInv' /\ ReadInv' /\ PartInv' /\ BehindInv' /\ ClockInv'
         /\ WellRead
<1> DEFINE L == Len(queue)
           q == given'
           s == given.granule + Duration(q)
<1>1. /\ q \in PageSet /\ q = At(1)
      /\ L \in Nat /\ L > 0 /\ Len(queue') = L - 1
      /\ \A i \in 0..(L - 1) : At(i)' = At(i + 1)
      /\ Tip' = Tip /\ UNCHANGED <<pend, pageno>>
  BY QueueMoves
<1>2. PageFollows(given, q, ~reader.uneven)
  <2>1. 1 \in 1..L /\ 1 - 1 = 0
    BY <1>1
  <2>2. PageFollows(At(0), At(1), ~reader.uneven)
    BY <2>1 DEF LineInv
  <2>3. At(0) = given
    BY DEF At
  <2> QED
    BY <1>1, <2>2, <2>3
<1>3. /\ reader'.uneven = reader.uneven
      /\ q.bos => reader'.pages = 1 /\ reader'.time = 0
      /\ ~q.bos => /\ reader'.pages = reader.pages + 1
                   /\ reader'.time = reader.time + Duration(q)
                   /\ reader'.user = reader.user
  BY ReaderMoves
<1>4. q.pageno \in Nat /\ q.granule \in Int /\ q.bos \in BOOLEAN /\ q.eos \in BOOLEAN
  BY <1>1 DEF PageSet
<1> HIDE DEF q
<1>5. /\ q.bos = (q.pageno = 0) /\ ~q.cont /\ Kinds(q.segs) = {KindOf(q.pageno)}
      /\ q.pageno = 0 => q.granule = 0 /\ ~q.eos
      /\ q.pageno # 0 => given.pageno = q.pageno - 1 /\ ~given.eos
      /\ q.pageno # 0 /\ ~reader.uneven =>
           IF q.eos THEN q.granule <= s /\ q.granule > s - Last(q.segs)[1].n
           ELSE q.granule = s
  BY <1>2 DEF PageFollows
<1>6. reader'.pages = q.pageno + 1
  <2>1. CASE q.pageno = 0
    <3>1. q.bos
      BY <1>5, <2>1
    <3>2. reader'.pages = 1 /\ q.pageno + 1 = 1
      BY <1>3, <2>1, <3>1
    <3> QED
      BY <3>2
  <2>2. CASE q.pageno # 0
    <3>1. reader.pages = (q.pageno - 1) + 1 /\ reader'.pages = reader.pages + 1
      BY <1>3, <1>5, <2>2 DEF ReadInv
    <3> QED
      BY <1>4, <3>1
  <2> QED
    BY <2>1, <2>2
<1>7. q.pageno # 0 /\ ~reader.uneven => reader'.time = s
  BY <1>3, <1>5 DEF ReadInv
<1> HIDE DEF s
<1>8. ReadInv'
  <2>1. ~q.eos /\ ~reader.uneven => reader'.time = q.granule
    BY <1>3, <1>5, <1>7
  <2> QED
    BY <1>3, <1>6, <2>1 DEF ReadInv, q
<1>9. WellRead
  <2> DEFINE k == reader'.pages
  <2>1. q.pageno = k - 1 /\ q.bos = (k = 1) /\ (k > 1 <=> q.pageno # 0)
        /\ (k = 2 <=> q.pageno = 1)
    BY <1>4, <1>5, <1>6
  <2>2. k > 1 => reader'.user = reader.user /\ ~given.eos
    BY <1>3, <1>5, <2>1
  <2>3. Kinds(q.segs) = {CASE k = 1 -> "head" [] k = 2 -> "tags" [] OTHER -> "audio"}
    BY <1>5, <2>1 DEF KindOf
  <2>4. ~reader.uneven =>
          IF q.eos THEN /\ q.granule <= reader'.time
                        /\ q.granule > reader'.time - Last(q.segs)[1].n
          ELSE q.granule = reader'.time
    <3>1. CASE q.pageno = 0
      BY <1>3, <1>5, <3>1
    <3>2. CASE q.pageno # 0
      <4> DEFINE t == reader'.time
      <4>1. ~reader.uneven => t = s
        BY <1>7, <3>2
      <4>2. ~reader.uneven =>
              IF q.eos THEN q.granule <= s /\ q.granule > s - Last(q.segs)[1].n
              ELSE q.granule = s
        BY <1>5, <3>2
      <4> HIDE DEF t
      <4>3. ~reader.uneven =>
              IF q.eos THEN q.granule <= t /\ q.granule > t - Last(q.segs)[1].n
              ELSE q.granule = t
        BY <4>1, <4>2
      <4> QED
        BY <4>3 DEF t
    <3> QED
      BY <3>1, <3>2
  <2> HIDE DEF k
  <2> QED
    BY <1>5, <2>1, <2>2, <2>3, <2>4 DEF WellRead, Kinds, q, k
<1>10. LineInv'
  <2>1. ASSUME NEW i \in 1..(L - 1)
        PROVE  PageFollows(At(i - 1)', At(i)', ~reader.uneven)
    <3>1. i \in 0..(L - 1) /\ i - 1 \in 0..(L - 1) /\ (i - 1) + 1 = i
          /\ i + 1 \in 1..L /\ (i + 1) - 1 = i
      BY <1>1
    <3>2. At(i - 1)' = At(i) /\ At(i)' = At(i + 1)
      BY <1>1, <3>1
    <3>3. \A j \in 1..L : PageFollows(At(j - 1), At(j), ~reader.uneven)
      BY DEF LineInv
    <3>4. PageFollows(At(i), At(i + 1), ~reader.uneven)
      BY <3>1, <3>3
    <3> QED
      BY <3>2, <3>4
  <2>2. NextPage' = NextPage
    BY <1>1 DEF NextPage
  <2> QED
    BY <1>1, <1>3, <2>1, <2>2 DEF LineInv
<1>11. /\ (Heading' <=> Heading) /\ (Headed' <=> Headed) /\ (LastSent' <=> LastSent)
       /\ (Opening' <=> Opening) /\ (Chaining' <=> Chaining) /\ (InFrame' <=> InFrame)
       /\ frame_size' = frame_size
  BY DEF Heading, Headed, LastSent, Opening, Chaining, InFrame, Sending, frame_size
<1>12. Left' = Left /\ Ahead' = Ahead
  <2>1. (Sending /\ call.then = "packet")' <=> Sending /\ call.then = "packet"
    BY DEF Sending
  <2> QED
    BY <1>11, <2>1 DEF Left, Ahead
<1>13. ClockStep
  <2>1. streams # <<>> => streams[1].end_granule <= streams[1].end_granule
    <3>1. streams # <<>> => streams[1].end_granule \in Nat
      BY FirstStream
    <3> QED
      BY <3>1
  <2> QED
    BY <1>1, <1>3, <1>11, <1>12, <2>1 DEF ClockStep
<1>14. EndedInv' /\ PartInv' /\ BehindInv' /\ ClockInv'
  BY <1>13, ClockStepKeeps
<1> QED
  BY <1>8, <1>9, <1>10, <1>14

-----------------------------------------------------------------------------
(* All steps *)

\* A call that has failed stays failed.
LEMMA SoundBefore ==
  ASSUME IInv, Next, Sound'
  PROVE  Sound
<1> USE DEF IInv
<1>1. enc \in Encoders /\ enc.buffer_start <= enc.buffer_end
  BY DEF TypeInv, FrameInv
<1>2. enc'.unrecoverable = enc.unrecoverable => Sound
  BY DEF Sound
<1>3. CASE \/ FlushBefore \/ Commit \/ Page \/ NoPage \/ WritePage \/ PagesWritten
           \/ Tags \/ StreamInited \/ LoopStops \/ CommitPacket \/ LastStreamEnds \/ Chained
           \/ WriteGoesOn \/ Return \/ Destroy \/ PullPage \/ FinishTooLate \/ FlushHeader
           \/ (\E samples \in Lengths : Write(samples))
           \/ (\E op \in {"drain", "finish"} : Drain(op))
           \/ ContinueNew \/ ChainCurrent \/ ChainFails \/ Misuse
           \/ (\E flush \in BOOLEAN : GetPage(flush))
  <2>1. enc' = enc
    BY <1>3 DEF FlushBefore, Commit, Page, NoPage, WritePage, PagesWritten, Tags,
                StreamInited, LoopStops, CommitPacket, LastStreamEnds, Chained, WriteGoesOn,
                Return, Destroy, PullPage, FinishTooLate, FlushHeader, Write, Drain,
                ContinueNew, ChainCurrent, ChainFails, GetPage, Misuse, FlushHeaderTwice,
                GetPageTooSoon, CallAfterDrain
  <2> QED
    BY <1>2, <2>1
<1>4. CASE \/ InitStream \/ EncodeFrame \/ FrameDone \/ NextStreamBegins \/ Begin \/ Fill
           \/ (\E request \in Requests : SetFrameDuration(request))
           \/ (\E value \in DecisionDelays : SetDecisionDelay(value))
  <2>1. enc'.unrecoverable = enc.unrecoverable
    BY <1>1, <1>4 DEF InitStream, EncodeFrame, FrameDone, NextStreamBegins, Begin, Fill,
                      SetFrameDuration, SetDecisionDelay, Ctl, Encoders
  <2> QED
    BY <1>2, <2>1
<1>5. CASE DeferredInit
  BY <1>5 DEF DeferredInit, Sound
<1>6. CASE LoopEnds \/ Pad
  <2> DEFINE e == shift_buffer(enc)
  <2>1. e \in Encoders /\ e.unrecoverable = enc.unrecoverable
    BY <1>1, ShiftFields
  <2> HIDE DEF e
  <2>2. enc'.unrecoverable = enc.unrecoverable
    <3>1. CASE LoopEnds
      <4>1. enc' \in {e, enc}
        BY <3>1 DEF LoopEnds, e
      <4> QED
        BY <2>1, <4>1
    <3>2. CASE Pad
      <4>1. PICK b : enc' = [e EXCEPT !.buffer_end = b, !.decision_delay = 0, !.draining = TRUE]
        BY <3>2 DEF Pad, e
      <4> QED
        BY <2>1, <4>1 DEF Encoders
    <3> QED
      BY <1>6, <3>1, <3>2
  <2> QED
    BY <1>2, <2>2
<1>7. CASE WriteFails \/ NoPacker \/ EncodeFails \/ CopyFails \/ CloseFails
  <2>1. PICK code \in Codes \ {"OK", "TOO_LATE"} : Fault(code)
    BY <1>7 DEF WriteFails, NoPacker, EncodeFails, CopyFails, CloseFails, Codes
  <2>2. enc'.unrecoverable = code
    BY <1>1, <2>1 DEF Fault, Encoders
  <2> QED
    BY <2>1, <2>2 DEF Sound
<1> QED
  BY <1>3, <1>4, <1>5, <1>6, <1>7 DEF Next, Calls, Goes, Encodes, InitsStream, Outputs

LEMMA InitFormInv == Lookahead > 0 /\ Init => FormInv
<1> SUFFICES ASSUME Lookahead > 0, Init PROVE FormInv
  OBVIOUS
<1>1. /\ streams = <<Stream(1, 0)>> /\ pc = "idle" /\ call = NoCall
      /\ reader.pages = 0 /\ reader.time = 0 /\ ~reader.uneven
      /\ \E pull, deferred \in BOOLEAN : enc = NewEnc(pull, deferred)
      /\ Packer!PagesInit
  BY DEF Init
<1>2. enc.curr_granule = 0 /\ enc.request = 4
  BY <1>1 DEF NewEnc
<1>3. /\ pend.segs = <<>> /\ queue = <<>> /\ pageno = 0
      /\ given.pageno = -1 /\ ~given.eos /\ given.granule = 0
  BY <1>1 DEF Packer!PagesInit, Packer!NothingPending, Packer!NoPage
<1>4. /\ streams # <<>> /\ ~streams[1].stream_is_init
      /\ streams[1].end_granule = 0 /\ streams[1].granule_offset = 0
  BY <1>1 DEF Stream
<1>5. ~Heading /\ ~Headed /\ ~InFrame /\ ~Chaining /\ Left = 0 /\ Ahead = 0
  BY <1>1, <1>4 DEF Heading, Headed, InFrame, Sending, Chaining, Left, Ahead
<1>6. LineInv
  BY <1>3 DEF LineInv
<1>7. EndedInv /\ PartInv
  BY <1>3, <1>5 DEF EndedInv, PartInv
<1>8. ReadInv
  BY <1>1, <1>3 DEF ReadInv
<1>9. BehindInv
  <2>1. 0 - 0 < 0 + Lookahead
    BY NumbersAssumption
  <2> QED
    BY <1>2, <1>4, <1>5, <2>1 DEF BehindInv
<1>10. ClockInv
  BY <1>1, <1>2, <1>4, <1>5 DEF ClockInv
<1> QED
  BY <1>6, <1>7, <1>8, <1>9, <1>10 DEF FormInv

LEMMA NextFormInv ==
  ASSUME IInv, TypeInv', PlayInv, FormInv, Next
  PROVE  /\ FormInv'
         /\ reader'.pages # reader.pages /\ Sound' => WellRead
<1> SUFFICES ASSUME Sound'
             PROVE  /\ LineInv' /\ EndedInv' /\ ReadInv' /\ PartInv' /\ BehindInv' /\ ClockInv'
                    /\ reader'.pages # reader.pages => WellRead
  BY DEF FormInv
<1>1. Sound
  BY SoundBefore
<1>2. LineInv /\ EndedInv /\ ReadInv /\ PartInv /\ BehindInv /\ ClockInv /\ TypeInv /\ PackerInv
  BY <1>1 DEF FormInv, IInv, PlayInv
<1>3. ASSUME ClockStep, UNCHANGED <<pend, queue, given, pageno, reader>>
      PROVE  LineInv' /\ EndedInv' /\ ReadInv' /\ PartInv' /\ BehindInv' /\ ClockInv'
  BY <1>2, <1>3, LineStays, ClockStepKeeps
<1>4. CASE \/ DeferredInit \/ FinishTooLate \/ Return \/ WriteGoesOn \/ Destroy
           \/ LoopStops \/ PagesWritten \/ Misuse
           \/ EncodeFrame \/ FrameDone \/ Fill \/ LoopEnds \/ Pad
           \/ (\E request \in Requests : SetFrameDuration(request))
           \/ (\E value \in DecisionDelays : SetDecisionDelay(value))
  BY <1>1, <1>3, <1>4, QuietForm
<1>5. CASE \/ (\E op \in {"drain", "finish"} : Drain(op)) \/ FlushHeader
           \/ (\E samples \in Lengths : Write(samples)) \/ Begin
           \/ ContinueNew \/ ChainCurrent \/ ChainFails \/ StreamInited
  BY <1>1, <1>3, <1>5, StreamsForm
<1>6. CASE \/ FlushBefore \/ Commit \/ Page \/ NoPage \/ GetPage(TRUE)
           \/ InitStream \/ Tags \/ CommitPacket \/ Chained
           \/ LastStreamEnds \/ NextStreamBegins
  <2>1. LineInv' /\ EndedInv' /\ ReadInv' /\ PartInv' /\ BehindInv' /\ ClockInv'
    BY <1>1, <1>2, <1>6, CutsForm, CommitForm, NoPageForm, InitStreamForm, TagsForm,
       CommitPacketForm, ChainedForm, StreamEndsForm
  <2>2. reader'.pages = reader.pages
    <3>1. CASE NextStreamBegins
      BY <1>2, <3>1 DEF NextStreamBegins, PackerInv
    <3>2. CASE ~NextStreamBegins
      BY <1>6, <3>2 DEF FlushBefore, Commit, Page, NoPage, GetPage, InitStream, Tags,
                        CommitPacket, Chained, LastStreamEnds
    <3> QED
      BY <3>1, <3>2
  <2> QED
    BY <2>1, <2>2
<1>7. CASE WritePage \/ PullPage \/ GetPage(FALSE)
  <2>1. PICK user : reader' = Reads(user, given')
    BY <1>7 DEF WritePage, PullPage, GetPage
  <2>2. /\ Packer!Give /\ UNCHANGED <<streams, call, enc>>
        /\ pc \in {"output", "pull", "idle"} /\ pc' \in {"output", "idle"}
        /\ pc = "output" <=> pc' = "output"
    BY <1>7 DEF WritePage, PullPage, GetPage, bounds
  <2> QED
    BY <1>2, <2>1, <2>2, GiveForm
<1>8. CASE WriteFails \/ NoPacker \/ EncodeFails \/ CopyFails \/ CloseFails
  <2>1. PICK code \in Codes \ {"OK", "TOO_LATE"} : Fault(code)
    BY <1>8 DEF WriteFails, NoPacker, EncodeFails, CopyFails, CloseFails, Codes
  <2>2. enc'.unrecoverable = code
    BY <1>2, <2>1 DEF Fault, TypeInv, Encoders
  <2> QED
    BY <2>1, <2>2 DEF Sound
<1>9. (\E flush \in BOOLEAN : GetPage(flush)) => GetPage(TRUE) \/ GetPage(FALSE)
  OBVIOUS
<1> QED
  BY <1>4, <1>5, <1>6, <1>7, <1>8, <1>9
     DEF Next, Calls, Goes, Encodes, InitsStream, Outputs

LEMMA StutterForm ==
  ASSUME FormInv, UNCHANGED vars
  PROVE  FormInv'
<1>1. UNCHANGED <<enc, streams, pc, call, reader, pend, queue, given, pageno>>
  BY DEF vars
<1>2. /\ (Heading' <=> Heading) /\ (Sending' <=> Sending) /\ (LastSent' <=> LastSent)
      /\ (Opening' <=> Opening) /\ (Sound' <=> Sound) /\ frame_size' = frame_size
  BY <1>1 DEF Heading, Sending, LastSent, Opening, Sound, frame_size
<1>3. (Headed' <=> Headed) /\ (Chaining' <=> Chaining) /\ (InFrame' <=> InFrame)
  BY <1>1, <1>2 DEF Headed, Chaining, InFrame
<1>4. Left' = Left /\ Ahead' = Ahead
  BY <1>1, <1>2, <1>3 DEF Left, Ahead
<1>5. SUFFICES ASSUME LineInv, EndedInv, ReadInv, PartInv, BehindInv, ClockInv
               PROVE  LineInv' /\ EndedInv' /\ ReadInv' /\ PartInv' /\ BehindInv' /\ ClockInv'
  BY <1>2 DEF FormInv
<1>6. LineInv' /\ ReadInv' /\ Tip' = Tip
  BY <1>1, <1>5, LineStays
<1>7. EndedInv' /\ PartInv' /\ BehindInv'
  BY <1>1, <1>2, <1>3, <1>4, <1>5, <1>6 DEF EndedInv, Ended, PartInv, BehindInv
<1>8. Reached' = Reached
  BY <1>1, <1>6 DEF Reached
<1>9. ClockInv'
  BY <1>1, <1>2, <1>3, <1>4, <1>5, <1>8 DEF ClockInv
<1> QED
  BY <1>6, <1>7, <1>9

\* Whatever is written, set and chained, a stream is a header page, a page of tags, then
\* pages of audio, numbered from 0, in one file; a page ends where its packets end, and
\* the last one inside its last packet, however the frames of the streams overlap
\* (518-570, 587-715).  The encoder has a lookahead, of 2.5 ms at least: without one, a
\* stream ended before any sample came would end where its only frame begins.
THEOREM StreamsAreWellFormed ==
  ASSUME Lookahead > 0
  PROVE  Spec => StreamIsWellFormed
<1>1. Init => IInv /\ PlayInv /\ FormInv
  BY InitIInv, InitPlayInv, InitFormInv
<1>2. IInv /\ PlayInv /\ FormInv /\ [Next]_vars => (IInv /\ PlayInv /\ FormInv)'
  <2> SUFFICES ASSUME IInv, PlayInv, FormInv, [Next]_vars
               PROVE  IInv' /\ PlayInv' /\ FormInv'
    OBVIOUS
  <2>1. IInv' /\ PlayInv'
    BY NextIInv, NextPlayInv
  <2>2. TypeInv'
    BY <2>1 DEF IInv
  <2>3. FormInv'
    BY <2>2, NextFormInv, StutterForm
  <2> QED
    BY <2>1, <2>3
<1>3. IInv /\ PlayInv /\ FormInv /\ IInv' /\ [Next]_vars =>
        [reader'.pages # reader.pages /\ ~Failed' => WellRead]_vars
  <2> SUFFICES ASSUME IInv, PlayInv, FormInv, IInv', Next, reader'.pages # reader.pages, ~Failed'
               PROVE  WellRead
    OBVIOUS
  <2>1. TypeInv' /\ Sound'
    BY DEF IInv, Failed, Sound
  <2> QED
    BY <2>1, NextFormInv
<1>4. StreamIsWellFormed <=> [][reader'.pages # reader.pages /\ ~Failed' => WellRead]_vars
  BY DEF StreamIsWellFormed, WellRead
<1> QED
  BY <1>1, <1>2, <1>3, <1>4, PTL DEF Spec
=============================================================================
