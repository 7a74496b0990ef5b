------------------- MODULE MessageOutputStreamHeaderProofs -------------------
(***************************************************************************)
(* Proof that payload chunks are written only after a message header was   *)
(* written completely and flushed (PayloadOnlyAfterHeader), for every      *)
(* value of the constants.                                                 *)
(*                                                                         *)
(* The argument follows the ready queue.  flush() creates a chunk only     *)
(* from perform(), which it reaches either because _ready is set or        *)
(* because its poll took an element of _readyQueue; both are produced only *)
(* by ready(), which the header callbacks call after the header flush      *)
(* succeeded or after recording a timeout, an error or an abort, and       *)
(* perform() re-checks those flags first.  The header write and flush      *)
(* callbacks each fire once, so a header that went out stays out.          *)
(***************************************************************************)
EXTENDS MessageOutputStreamProofs

HdrCalls == {"hdrWrite", "hdrFlush"}

\* A flush that is creating, writing or flushing a chunk started after the
\* message header went out.
HeaderWritten ==
    fl \in {"create", "write", "flush"} => header = "message" /\ hdrOk

\* _ready and the elements of _readyQueue come only from ready(), after the
\* header succeeded or a failure or abort was recorded.
ReadyJustified ==
    (ready \/ readyQueue > 0) => hdrOk \/ timedout \/ errored \/ aborted

\* Once the header went out, no header callback is outstanding.
HeaderDone == hdrOk => sink \cap HdrCalls = {}

\* The header flush is issued only after the header write called back.
FlushAfterWrite == "hdrFlush" \in sink => "hdrWrite" \notin sink

HeaderInv ==
    /\ PayloadOnlyAfterHeader
    /\ HeaderWritten
    /\ ReadyJustified
    /\ HeaderDone
    /\ FlushAfterWrite

\* What a flush continuation does: it leaves the header calls alone and
\* enters a chunk step only after the header went out.
HeaderKept == sink' \cap HdrCalls = sink \cap HdrCalls
EntersChunk == fl' \in {"create", "write", "flush"} => header = "message" /\ hdrOk

-----------------------------------------------------------------------------
LEMMA FinishHeader ==
    ASSUME NEW c, NEW out, NEW cp, NEW sk, Finish(c, out, cp, sk)
    PROVE  fl' = "idle" /\ sink' \cap HdrCalls = sk \cap HdrCalls
BY DEF Finish, DestinationClose, HdrCalls

\* perform() creates a chunk only when no abort, timeout or error is
\* recorded, which, coming from ready(), means the header went out.
LEMMA PerformHeader ==
    ASSUME NEW c, NEW cl, Perform(c, cl),
           ~aborted /\ ~timedout /\ ~errored => hdrOk
    PROVE  EntersChunk /\ HeaderKept
<1>1. CASE aborted \/ timedout \/ errored \/ NoData(cl) \/ header # "message"
  <2>1. PICK out \in Outcomes : Finish(c, out, currentPayload, sink)
    BY <1>1 DEF Perform, Outcomes
  <2>2. QED
    BY <2>1, FinishHeader DEF EntersChunk, HeaderKept
<1>2. CASE ~(aborted \/ timedout \/ errored \/ NoData(cl) \/ header # "message")
  BY <1>2 DEF Perform, EntersChunk, HeaderKept
<1>3. QED
  BY <1>1, <1>2

LEMMA StartFlushHeader ==
    ASSUME NEW c, NEW cl, StartFlush(c, cl), ReadyJustified
    PROVE  EntersChunk /\ HeaderKept
<1>1. CASE ready
  BY <1>1, PerformHeader DEF StartFlush, ReadyJustified
<1>2. CASE ~ready
  BY <1>2 DEF StartFlush, EntersChunk, HeaderKept
<1>3. QED
  BY <1>1, <1>2

\* A step that raises no ready signal, records no header success, clears no
\* failure flag and sends no chunk keeps HeaderInv if it behaves like a
\* flush continuation.
LEMMA HeaderFrame ==
    ASSUME HeaderInv,
           UNCHANGED <<header, hdrOk, ready, timedout, errored, sent>>,
           aborted => aborted',
           readyQueue' > 0 => readyQueue > 0,
           EntersChunk, HeaderKept
    PROVE  HeaderInv'
BY DEF HeaderInv, PayloadOnlyAfterHeader, HeaderWritten, ReadyJustified,
       HeaderDone, FlushAfterWrite, EntersChunk, HeaderKept, HdrCalls

\* The header callbacks and chunk creation are the steps HeaderFrame does
\* not cover.
LEMMA HeaderWriteStep ==
    ASSUME HeaderInv, NEW o \in WriteAnswers, HeaderWriteDone(o)
    PROVE  HeaderInv'
<1>1. ~hdrOk
  BY DEF HeaderWriteDone, HeaderInv, HeaderDone, HdrCalls
<1>2. UNCHANGED <<header, hdrOk, fl, sent>>
  BY DEF HeaderWriteDone
<1>3. "hdrWrite" \notin sink'
  BY DEF HeaderWriteDone
<1>4. ReadyJustified'
  BY DEF HeaderWriteDone, HeaderInv, ReadyJustified, MarkReady
<1>5. QED
  BY <1>1, <1>2, <1>3, <1>4
     DEF HeaderInv, PayloadOnlyAfterHeader, HeaderWritten, HeaderDone,
         FlushAfterWrite

LEMMA HeaderFlushStep ==
    ASSUME HeaderInv, NEW o \in FlushAnswers, HeaderFlushDone(o)
    PROVE  HeaderInv'
<1>1. ~hdrOk /\ "hdrWrite" \notin sink
  BY DEF HeaderFlushDone, HeaderInv, HeaderDone, FlushAfterWrite, HdrCalls
<1>2. sink' \cap HdrCalls = {}
  BY <1>1 DEF HeaderFlushDone, HdrCalls
<1>3. UNCHANGED <<header, fl, sent>>
  BY DEF HeaderFlushDone
<1>4. fl \notin {"create", "write", "flush"} /\ ~(Len(sent) > 0)
  BY <1>1 DEF HeaderInv, HeaderWritten, PayloadOnlyAfterHeader
<1>5. ReadyJustified'
  BY DEF HeaderFlushDone, ReadyJustified, MarkReady
<1>6. QED
  BY <1>2, <1>3, <1>4, <1>5
     DEF HeaderInv, PayloadOnlyAfterHeader, HeaderWritten, HeaderDone,
         FlushAfterWrite, HdrCalls

LEMMA ChunkCreatedStep ==
    ASSUME HeaderInv, ChunkCreated
    PROVE  HeaderInv'
<1>1. header = "message" /\ hdrOk
  BY DEF ChunkCreated, HeaderInv, HeaderWritten
<1>2. UNCHANGED <<header, hdrOk, ready, readyQueue, timedout, errored,
                  aborted>>
  BY DEF ChunkCreated
<1>3. sink' \cap HdrCalls = sink \cap HdrCalls
  BY DEF ChunkCreated, HdrCalls
<1>4. QED
  BY <1>1, <1>2, <1>3
     DEF HeaderInv, HdrCalls, PayloadOnlyAfterHeader, HeaderWritten, ReadyJustified,
         HeaderDone, FlushAfterWrite

\* Every step keeps HeaderInv: one step per action.
LEMMA HeaderStep ==
    ASSUME TypeOK, HeaderInv, [Next]_vars
    PROVE  HeaderInv'
<1> DEFINE Frame == UNCHANGED <<header, hdrOk, ready, timedout, errored, sent>>
                    /\ (aborted => aborted')
                    /\ (readyQueue' > 0 => readyQueue > 0)
<1>1. CASE \/ \E len \in {0, 1}, valid \in BOOLEAN : Write(len, valid)
           \/ StopCaching
           \/ \E b \in BOOLEAN : SetCloseDestination(b)
           \/ UNCHANGED vars
  <2>1. Frame /\ UNCHANGED <<fl, sink>>
    BY <1>1 DEF Write, StopCaching, SetCloseDestination, strm, hist, vars
  <2>2. QED
    BY <2>1, HeaderFrame DEF EntersChunk, HeaderKept, HeaderInv, HeaderWritten
<1>2. ASSUME NEW o \in {"true"} \cup ({"timeout", "error"} \cap Faults),
             DestinationCloseDone(o)
      PROVE  HeaderInv'
  <2>1. Frame /\ UNCHANGED fl /\ HeaderKept
    BY <1>2 DEF DestinationCloseDone, strm, HeaderKept, HdrCalls
  <2>2. QED
    BY <2>1, HeaderFrame DEF EntersChunk, HeaderInv, HeaderWritten
<1>3. CASE Flush
  <2>1. Frame /\ StartFlush(NewCall("flush", NoAlgo), closed)
    BY <1>3 DEF Flush
  <2>2. QED
    BY <2>1, StartFlushHeader, HeaderFrame DEF HeaderInv
<1>4. CASE Close
  <2>1. Frame
    BY <1>4 DEF Close
  <2>2. CASE ~(aborted \/ timedout \/ errored \/ closed)
    <3>1. StartFlush(NewCall("close", NoAlgo), TRUE)
      BY <1>4, <2>2 DEF Close
    <3>2. QED
      BY <2>1, <3>1, StartFlushHeader, HeaderFrame DEF HeaderInv
  <2>3. CASE aborted \/ timedout \/ errored \/ closed
    <3>1. UNCHANGED <<fl, sink>>
      BY <1>4, <2>3 DEF Close
    <3>2. QED
      BY <2>1, <3>1, HeaderFrame
         DEF EntersChunk, HeaderKept, HeaderInv, HeaderWritten
  <2>4. QED
    BY <2>2, <2>3
<1>5. ASSUME NEW a \in AlgoOrNone, SetCompressionAlgorithm(a)
      PROVE  HeaderInv'
  <2>1. Frame
    BY <1>5 DEF SetCompressionAlgorithm
  <2>2. CASE header # "error" /\ compressionAlgo # a
             /\ ~(a # NoAlgo /\ capabilities = NoCaps)
             /\ ~(a # NoAlgo /\ a \notin capabilities)
    <3>1. StartFlush(NewCall("setAlgo", a), closed)
      BY <1>5, <2>2 DEF SetCompressionAlgorithm
    <3>2. QED
      BY <2>1, <3>1, StartFlushHeader, HeaderFrame DEF HeaderInv
  <2>3. CASE ~(header # "error" /\ compressionAlgo # a
               /\ ~(a # NoAlgo /\ capabilities = NoCaps)
               /\ ~(a # NoAlgo /\ a \notin capabilities))
    <3>1. UNCHANGED <<fl, sink>>
      BY <1>5, <2>3 DEF SetCompressionAlgorithm
    <3>2. QED
      BY <2>1, <3>1, HeaderFrame
         DEF EntersChunk, HeaderKept, HeaderInv, HeaderWritten
  <2>4. QED
    BY <2>2, <2>3
<1>6. CASE Abort
  <2>1. Frame
    BY <1>6 DEF Abort, hist
  <2>2. CASE fl = "poll"
    <3>1. Finish(call, "false", currentPayload, sink)
      BY <1>6, <2>2 DEF Abort
    <3>2. EntersChunk /\ HeaderKept
      BY <3>1, FinishHeader DEF EntersChunk, HeaderKept
    <3>3. QED
      BY <2>1, <3>2, HeaderFrame
  <2>3. CASE fl # "poll"
    <3>1. UNCHANGED <<fl, sink>>
      BY <1>6, <2>3 DEF Abort
    <3>2. QED
      BY <2>1, <3>1, HeaderFrame
         DEF EntersChunk, HeaderKept, HeaderInv, HeaderWritten
  <2>4. QED
    BY <2>2, <2>3
<1>7. CASE PollReady
  <2>1. readyQueue > 0 /\ Perform(call, closed)
    BY <1>7 DEF PollReady
  <2>2. UNCHANGED <<header, hdrOk, ready, timedout, errored, sent, aborted>>
    BY <1>7 DEF PollReady, hist
  <2>3. readyQueue' > 0 => readyQueue > 0
    BY <2>1
  <2>4. ~aborted /\ ~timedout /\ ~errored => hdrOk
    BY <2>1 DEF HeaderInv, ReadyJustified
  <2>5. QED
    BY <2>1, <2>2, <2>3, <2>4, PerformHeader, HeaderFrame
<1>8. CASE PollTimeout \/ ChunkCreateFailed
  <2>1. Frame
    BY <1>8 DEF PollTimeout, ChunkCreateFailed, hist
  <2>2. PICK out : Finish(call, out, currentPayload, sink)
    BY <1>8 DEF PollTimeout, ChunkCreateFailed
  <2>3. EntersChunk /\ HeaderKept
    BY <2>2, FinishHeader DEF EntersChunk, HeaderKept
  <2>4. QED
    BY <2>1, <2>3, HeaderFrame
<1>9. ASSUME NEW o \in WriteAnswers, PayloadWriteDone(o)
      PROVE  HeaderInv'
  <2>1. Frame /\ fl = "write"
    BY <1>9 DEF PayloadWriteDone
  <2>2. CASE \E out : Finish(call, out, currentPayload, sink \ {"write"})
    <3>1. PICK out : Finish(call, out, currentPayload, sink \ {"write"})
      BY <2>2
    <3>2. EntersChunk /\ HeaderKept
      BY <3>1, FinishHeader DEF EntersChunk, HeaderKept, HdrCalls
    <3>3. QED
      BY <2>1, <3>2, HeaderFrame
  <2>3. CASE ~\E out : Finish(call, out, currentPayload, sink \ {"write"})
    <3>1. sink' = (sink \ {"write"}) \cup {"flush"}
      BY <1>9, <2>3 DEF PayloadWriteDone
    <3>2. header = "message" /\ hdrOk
      BY <2>1 DEF HeaderInv, HeaderWritten
    <3>3. EntersChunk /\ HeaderKept
      BY <3>1, <3>2 DEF EntersChunk, HeaderKept, HdrCalls
    <3>4. QED
      BY <2>1, <3>3, HeaderFrame
  <2>4. QED
    BY <2>2, <2>3
<1>10. ASSUME NEW o \in FlushAnswers, PayloadFlushDone(o)
       PROVE  HeaderInv'
  <2>1. Frame
    BY <1>10 DEF PayloadFlushDone
  <2>2. PICK out, cp : Finish(call, out, cp, sink \ {"flush"})
    BY <1>10 DEF PayloadFlushDone
  <2>3. EntersChunk /\ HeaderKept
    BY <2>2, FinishHeader DEF EntersChunk, HeaderKept, HdrCalls
  <2>4. QED
    BY <2>1, <2>3, HeaderFrame
<1>11. QED
  BY <1>1, <1>2, <1>3, <1>4, <1>5, <1>6, <1>7, <1>8, <1>9, <1>10,
     HeaderWriteStep, HeaderFlushStep, ChunkCreatedStep
     DEF Next, Caller, Environment

-----------------------------------------------------------------------------
(* The header is written and flushed before any payload chunk: flush()     *)
(* waits on the ready queue and perform() re-checks the header's failure   *)
(* flags (lines 469-491).  For every value of the constants.               *)
THEOREM PayloadOnlyAfterHeaderCorrect == Spec => []PayloadOnlyAfterHeader
<1>1. Init => HeaderInv
  BY DEF Init, HeaderInv, PayloadOnlyAfterHeader, HeaderWritten,
         ReadyJustified, HeaderDone, FlushAfterWrite
<1>2. TypeOK /\ HeaderInv /\ [Next]_vars => HeaderInv'
  BY HeaderStep
<1>3. HeaderInv => PayloadOnlyAfterHeader
  BY DEF HeaderInv
<1>4. QED
  BY <1>1, <1>2, <1>3, TypeCorrect, PTL DEF Spec

====
