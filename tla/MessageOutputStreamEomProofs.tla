-------------------- MODULE MessageOutputStreamEomProofs --------------------
(***************************************************************************)
(* Proof that only the last chunk counted as sent carries the              *)
(* end-of-message flag, and that nothing is written after it               *)
(* (EndOfMessageLast), for every value of the constants.                   *)
(*                                                                         *)
(* perform() makes a chunk with the end flag only for close() or once      *)
(* _closed is set, and _closed is never cleared.  When the flush of such a *)
(* chunk succeeds, the buffer is reset to null (line 557) because the      *)
(* stream is closed; write() then rejects, and perform() finds nothing to  *)
(* send, so no further chunk is ever made.  The chunk whose flush succeeds *)
(* is the one that was written last.                                       *)
(***************************************************************************)
EXTENDS MessageOutputStreamProofs

\* A chunk with the end flag is made only once the stream is closed.
ChunkFromClosed == chunk.eom => closed

\* The chunk being written or flushed is the last one put on the wire.
SentIsChunk == fl \in {"write", "flush"} => Len(sent) > 0 /\ sent[Len(sent)] = chunk

\* Once the end chunk is counted as sent, the buffer is null.
EndedIsNull == Ended => currentPayload = Null

EomInv ==
    /\ EndOfMessageLast
    /\ ChunkFromClosed
    /\ SentIsChunk
    /\ EndedIsNull

\* What a flush continuation leaves behind: no chunk written or flushed, a
\* chunk with the end flag only on a closed stream, and, after the end
\* chunk, a null buffer and no chunk at all.
EomKept ==
    /\ ChunkFromClosed'
    /\ fl' \in {"idle", "poll", "create"}
    /\ Ended => currentPayload' = Null /\ fl' \in {"idle", "poll"}

-----------------------------------------------------------------------------
\* The callback of a flush drops the chunk; the buffer it leaves is the one
\* it is given, or null.
LEMMA FinishEom ==
    ASSUME NEW c, NEW out, NEW cp, NEW sk, Finish(c, out, cp, sk),
           Ended => cp = Null
    PROVE  EomKept
<1>1. chunk' = NoChunk /\ fl' = "idle"
  BY DEF Finish
<1>2. currentPayload' \in {cp, Null}
  BY DEF Finish, ClosedPayload
<1>3. QED
  BY <1>1, <1>2 DEF EomKept, ChunkFromClosed, NoChunk

\* perform(): a chunk is made only from a non-null buffer, so never after
\* the end chunk, and it carries the end flag cl only on a closed stream.
LEMMA PerformEom ==
    ASSUME EomInv, NEW c, NEW cl, cl => closed', Perform(c, cl)
    PROVE  EomKept
<1>1. CASE aborted \/ timedout \/ errored \/ NoData(cl) \/ header # "message"
  <2>1. PICK out \in Outcomes : Finish(c, out, currentPayload, sink)
    BY <1>1 DEF Perform, Outcomes
  <2>2. QED
    BY <2>1, FinishEom DEF EomInv, EndedIsNull
<1>2. CASE ~(aborted \/ timedout \/ errored \/ NoData(cl) \/ header # "message")
  <2>1. fl' = "create" /\ chunk' = NewChunk(cl)
    BY <1>2 DEF Perform
  <2>2. ~Ended
    BY <1>2 DEF NoData, EomInv, EndedIsNull
  <2>3. QED
    BY <2>1, <2>2 DEF EomKept, ChunkFromClosed, NewChunk
<1>3. QED
  BY <1>1, <1>2

LEMMA StartFlushEom ==
    ASSUME EomInv, NEW c, NEW cl, cl => closed', closed => closed',
           StartFlush(c, cl)
    PROVE  EomKept
<1>1. CASE ready
  BY <1>1, PerformEom DEF StartFlush
<1>2. CASE ~ready
  <2>1. fl' = "poll" /\ UNCHANGED <<chunk, currentPayload>>
    BY <1>2 DEF StartFlush
  <2>2. QED
    BY <2>1 DEF EomKept, EomInv, ChunkFromClosed, EndedIsNull
<1>3. QED
  BY <1>1, <1>2

\* A step that counts and sends no chunk, and clears no _closed, keeps
\* EomInv if it behaves like a flush continuation.
LEMMA EomFrame ==
    ASSUME EomInv, UNCHANGED <<acked, sent>>, closed => closed', EomKept
    PROVE  EomInv'
BY DEF EomInv, EomKept, EndOfMessageLast, ChunkFromClosed, SentIsChunk,
       EndedIsNull, Ended

\* A step that touches neither the chunks, the flush nor the buffer.
LEMMA EomUnchanged ==
    ASSUME EomInv, UNCHANGED <<acked, sent, fl, chunk, currentPayload, closed>>
    PROVE  EomInv'
BY DEF EomInv, EndOfMessageLast, ChunkFromClosed, SentIsChunk, EndedIsNull,
       Ended

\* Every step keeps EomInv: one step per action.
LEMMA EomStep ==
    ASSUME TypeOK, ClosedInv, EomInv, [Next]_vars
    PROVE  EomInv'
<1>1. ASSUME NEW len \in {0, 1}, NEW valid \in BOOLEAN, Write(len, valid)
      PROVE  EomInv'
  <2>1. UNCHANGED <<acked, sent, fl, chunk, closed>>
    BY <1>1 DEF Write
  <2>2. CASE aborted \/ timedout \/ errored \/ closed \/ ~valid
             \/ header # "message"
    <3>1. currentPayload' = currentPayload
      BY <1>1, <2>2 DEF Write
    <3>2. QED
      BY <2>1, <3>1, EomUnchanged
  \* write() accepts only on an open stream, whose buffer is not null, so
  \* never after the end chunk.
  <2>3. CASE ~(aborted \/ timedout \/ errored \/ closed \/ ~valid
               \/ header # "message")
    <3>1. ~Ended
      BY <2>3 DEF ClosedInv, EomInv, EndedIsNull
    <3>2. QED
      BY <2>1, <3>1
         DEF EomInv, EndOfMessageLast, ChunkFromClosed, SentIsChunk,
             EndedIsNull, Ended
  <2>4. QED
    BY <2>2, <2>3
<1>2. CASE \/ StopCaching
           \/ \E b \in BOOLEAN : SetCloseDestination(b)
           \/ \E o \in WriteAnswers : HeaderWriteDone(o)
           \/ \E o \in FlushAnswers : HeaderFlushDone(o)
           \/ \E o \in {"true"} \cup ({"timeout", "error"} \cap Faults) :
                 DestinationCloseDone(o)
           \/ UNCHANGED vars
  <2>1. UNCHANGED <<acked, sent, fl, chunk, currentPayload, closed>>
    BY <1>2 DEF StopCaching, SetCloseDestination, HeaderWriteDone,
                HeaderFlushDone, DestinationCloseDone, strm, hist, vars
  <2>2. QED
    BY <2>1, EomUnchanged
<1>3. CASE Flush
  <2>1. UNCHANGED <<acked, sent, closed>>
        /\ StartFlush(NewCall("flush", NoAlgo), closed)
    BY <1>3 DEF Flush
  <2>2. QED
    BY <2>1, StartFlushEom, EomFrame
<1>4. CASE Close
  <2>1. UNCHANGED <<acked, sent>>
    BY <1>4 DEF Close
  <2>2. CASE ~(aborted \/ timedout \/ errored \/ closed)
    <3>1. closed' = TRUE /\ StartFlush(NewCall("close", NoAlgo), TRUE)
      BY <1>4, <2>2 DEF Close
    <3>2. QED
      BY <2>1, <3>1, StartFlushEom, EomFrame
  <2>3. CASE aborted \/ timedout \/ errored \/ closed
    <3>1. UNCHANGED <<fl, chunk, currentPayload, closed>>
      BY <1>4, <2>3 DEF Close
    <3>2. QED
      BY <2>1, <3>1, EomUnchanged
  <2>4. QED
    BY <2>2, <2>3
<1>5. ASSUME NEW a \in AlgoOrNone, SetCompressionAlgorithm(a)
      PROVE  EomInv'
  <2>1. UNCHANGED <<acked, sent, closed>>
    BY <1>5 DEF SetCompressionAlgorithm
  <2>2. CASE header # "error" /\ compressionAlgo # a
             /\ ~(a # NoAlgo /\ capabilities = NoCaps)
             /\ ~(a # NoAlgo /\ a \notin capabilities)
    <3>1. StartFlush(NewCall("setAlgo", a), closed)
      BY <1>5, <2>2 DEF SetCompressionAlgorithm
    <3>2. QED
      BY <2>1, <3>1, StartFlushEom, EomFrame
  <2>3. CASE ~(header # "error" /\ compressionAlgo # a
               /\ ~(a # NoAlgo /\ capabilities = NoCaps)
               /\ ~(a # NoAlgo /\ a \notin capabilities))
    <3>1. UNCHANGED <<fl, chunk, currentPayload>>
      BY <1>5, <2>3 DEF SetCompressionAlgorithm
    <3>2. QED
      BY <2>1, <3>1, EomUnchanged
  <2>4. QED
    BY <2>2, <2>3
<1>6. CASE Abort
  <2>1. UNCHANGED <<acked, sent, closed>>
    BY <1>6 DEF Abort, hist
  <2>2. CASE fl = "poll"
    <3>1. Finish(call, "false", currentPayload, sink)
      BY <1>6, <2>2 DEF Abort
    <3>2. QED
      BY <2>1, <3>1, FinishEom, EomFrame DEF EomInv, EndedIsNull
  <2>3. CASE fl # "poll"
    <3>1. UNCHANGED <<fl, chunk, currentPayload>>
      BY <1>6, <2>3 DEF Abort
    <3>2. QED
      BY <2>1, <3>1, EomUnchanged
  <2>4. QED
    BY <2>2, <2>3
<1>7. CASE PollReady
  <2>1. UNCHANGED <<acked, sent, closed>> /\ Perform(call, closed)
    BY <1>7 DEF PollReady, hist
  <2>2. QED
    BY <2>1, PerformEom, EomFrame
<1>8. CASE PollTimeout \/ ChunkCreateFailed
  <2>1. UNCHANGED <<acked, sent, closed>>
    BY <1>8 DEF PollTimeout, ChunkCreateFailed, hist
  <2>2. PICK out \in {"timeout", "error"} :
              Finish(call, out, currentPayload, sink)
    BY <1>8 DEF PollTimeout, ChunkCreateFailed
  <2>3. QED
    BY <2>1, <2>2, FinishEom, EomFrame DEF EomInv, EndedIsNull
\* The chunk is put on the wire: it becomes the last one sent.  A chunk is
\* being made, so the end chunk has not been counted.
<1>9. CASE ChunkCreated
  <2>1. /\ fl = "create"
        /\ sent' = Append(sent, chunk)
        /\ fl' = "write"
        /\ UNCHANGED <<acked, chunk, currentPayload, closed>>
    BY <1>9 DEF ChunkCreated
  <2>2. ~Ended
    BY <2>1 DEF EomInv, EndOfMessageLast, Ended
  <2>3. Len(sent') > 0 /\ sent'[Len(sent')] = chunk
    BY <2>1 DEF TypeOK
  <2>4. QED
    BY <2>1, <2>2, <2>3
       DEF EomInv, EndOfMessageLast, ChunkFromClosed, SentIsChunk,
           EndedIsNull, Ended
<1>10. ASSUME NEW o \in WriteAnswers, PayloadWriteDone(o)
       PROVE  EomInv'
  <2>1. UNCHANGED <<acked, sent, closed>> /\ fl = "write"
    BY <1>10 DEF PayloadWriteDone
  <2>2. CASE \E out \in {"false", "timeout", "error"} :
                 Finish(call, out, currentPayload, sink \ {"write"})
    <3>1. PICK out \in {"false", "timeout", "error"} :
                 Finish(call, out, currentPayload, sink \ {"write"})
      BY <2>2
    <3>2. QED
      BY <2>1, <3>1, FinishEom, EomFrame DEF EomInv, EndedIsNull
  <2>3. CASE ~\E out \in {"false", "timeout", "error"} :
                 Finish(call, out, currentPayload, sink \ {"write"})
    <3>1. fl' = "flush" /\ UNCHANGED <<chunk, currentPayload>>
      BY <1>10, <2>3 DEF PayloadWriteDone
    <3>2. QED
      BY <2>1, <3>1
         DEF EomInv, EndOfMessageLast, ChunkFromClosed, SentIsChunk,
             EndedIsNull, Ended
  <2>4. QED
    BY <2>2, <2>3
<1>11. ASSUME NEW o \in FlushAnswers, PayloadFlushDone(o)
       PROVE  EomInv'
  <2>1. UNCHANGED <<sent, closed>> /\ fl = "flush"
    BY <1>11 DEF PayloadFlushDone
  <2>2. CASE o = "true" /\ ~aborted
    <3>1. /\ acked' = Append(acked, chunk)
          /\ Finish(call, "true", ResetPayload, sink \ {"flush"})
      BY <1>11, <2>2 DEF PayloadFlushDone
    <3>2. fl' = "idle" /\ chunk' = NoChunk
      BY <3>1 DEF Finish
    \* The chunk being flushed is not after the end chunk.
    <3>3. ~Ended
      BY <2>1 DEF EomInv, EndOfMessageLast, Ended
    <3>4. \A i \in 1..Len(acked') - 1 : ~acked'[i].eom
      BY <3>1, <3>3 DEF TypeOK, EomInv, EndOfMessageLast, Ended
    <3>5. Len(acked') > 0 /\ acked'[Len(acked')] = chunk
      BY <3>1 DEF TypeOK
    \* The counted chunk is the one written last.
    <3>6. Len(sent) > 0 /\ sent[Len(sent)] = chunk
      BY <2>1 DEF EomInv, SentIsChunk
    \* An end chunk comes from a closed stream, whose buffer the flush
    \* callback resets to null.
    <3>7. chunk.eom => currentPayload' = Null
      <4>1. chunk.eom => ResetPayload = Null
        BY DEF EomInv, ChunkFromClosed, ResetPayload
      <4>2. currentPayload' \in {ResetPayload, Null}
        BY <3>1 DEF Finish, ClosedPayload
      <4>3. QED
        BY <4>1, <4>2
    <3>8. QED
      BY <2>1, <3>2, <3>4, <3>5, <3>6, <3>7
         DEF EomInv, EndOfMessageLast, ChunkFromClosed, SentIsChunk,
             EndedIsNull, Ended, NoChunk
  <2>3. CASE ~(o = "true" /\ ~aborted)
    <3>1. acked' = acked
      BY <1>11, <2>3 DEF PayloadFlushDone
    <3>2. PICK out \in {"false", "timeout", "error"} :
                 Finish(call, out, currentPayload, sink \ {"flush"})
      BY <1>11, <2>3 DEF PayloadFlushDone
    <3>3. QED
      BY <2>1, <3>1, <3>2, FinishEom, EomFrame DEF EomInv, EndedIsNull
  <2>4. QED
    BY <2>2, <2>3
<1>12. QED
  BY <1>1, <1>2, <1>3, <1>4, <1>5, <1>6, <1>7, <1>8, <1>9, <1>10, <1>11
     DEF Next, Caller, Environment

-----------------------------------------------------------------------------
(* Only the last chunk flush() counts as sent carries the end-of-message   *)
(* flag, and once it is counted no chunk is put on the wire and none is in *)
(* flight: close() sends the end chunk and, when its flush succeeds, the   *)
(* buffer becomes null (lines 555-558), so later flushes send nothing.     *)
(* For every value of the constants.                                       *)
THEOREM EndOfMessageLastCorrect == Spec => []EndOfMessageLast
<1>1. Init => IInv /\ EomInv
  <2>1. Init => IInv
    BY InitType
  <2>2. Init => EomInv
    BY DEF Init, EomInv, EndOfMessageLast, ChunkFromClosed, SentIsChunk,
           EndedIsNull, Ended, NoChunk
  <2>3. QED
    BY <2>1, <2>2
<1>2. IInv /\ EomInv /\ [Next]_vars => IInv' /\ EomInv'
  BY TypeStep, ClosedStep, EomStep DEF IInv
<1>3. IInv /\ EomInv => EndOfMessageLast
  BY DEF EomInv
<1>4. QED
  BY <1>1, <1>2, <1>3, PTL DEF Spec

====
