-------------------- MODULE MessageOutputStreamAlgoProofs --------------------
(***************************************************************************)
(* Proof that every chunk written to the destination is compressed with    *)
(* the algorithm its data was written under (ChunkAlgoAgreement), for      *)
(* every value of the constants.                                           *)
(*                                                                         *)
(* write() stamps each buffered token with _compressionAlgo; a chunk is    *)
(* made from the whole buffer under _compressionAlgo; and                  *)
(* setCompressionAlgorithm() switches only when its flush reports true,    *)
(* which perform() and the chunk flush do only once the buffer is empty    *)
(* or null.  While a chunk is in flight the caller starts nothing else, so *)
(* neither the buffer nor the algorithm changes under it.                  *)
(***************************************************************************)
EXTENDS MessageOutputStreamProofs

\* Every token of s was written under algorithm a.
TokensUnder(s, a) == \A j \in 1..Len(s) : s[j].algo = a

\* The buffered data was written under the current algorithm.
BufferUnder ==
    currentPayload # Null => TokensUnder(currentPayload, compressionAlgo)

\* The chunk in flight is compressed with the current algorithm, which its
\* data was written under.
ChunkUnder ==
    fl \in {"create", "write", "flush"} =>
        /\ chunk.algo = compressionAlgo
        /\ TokensUnder(chunk.data, compressionAlgo)

\* Handshake and error messages never buffer data.
NoDataWithoutMessage == header # "message" => currentPayload \in {<<>>, Null}

AlgoInv ==
    /\ ChunkAlgoAgreement
    /\ BufferUnder
    /\ ChunkUnder
    /\ NoDataWithoutMessage

\* What a flush continuation leaves behind, for a step that keeps header.
AlgoKept ==
    /\ BufferUnder'
    /\ ChunkUnder'
    /\ header # "message" => currentPayload' \in {<<>>, Null}

-----------------------------------------------------------------------------
LEMMA EmptyTokens ==
    ASSUME NEW a
    PROVE  TokensUnder(<<>>, a)
BY DEF TokensUnder

\* The callback of a flush: the algorithm is switched only with a true
\* outcome, which comes with an empty or null buffer.
LEMMA FinishAlgo ==
    ASSUME NEW c, NEW out, NEW cp, NEW sk, Finish(c, out, cp, sk),
           cp # Null => TokensUnder(cp, compressionAlgo),
           out = "true" => cp \in {<<>>, Null},
           header # "message" => cp \in {<<>>, Null}
    PROVE  AlgoKept /\ fl' = "idle"
<1>1. currentPayload' \in {cp, Null} /\ fl' = "idle"
  BY DEF Finish, ClosedPayload
<1>2. compressionAlgo' = compressionAlgo \/ out = "true"
  BY DEF Finish, SwitchedAlgo
<1>3. BufferUnder'
  <2>1. CASE compressionAlgo' = compressionAlgo
    BY <1>1, <2>1 DEF BufferUnder
  <2>2. CASE out = "true"
    BY <1>1, <2>2, EmptyTokens DEF BufferUnder
  <2>3. QED
    BY <1>2, <2>1, <2>2
<1>4. QED
  BY <1>1, <1>3 DEF AlgoKept, ChunkUnder

\* perform(): a chunk is made from the whole, non-null buffer under the
\* current algorithm; the true outcomes come with nothing buffered.
LEMMA PerformAlgo ==
    ASSUME AlgoInv, NEW c, NEW cl, Perform(c, cl)
    PROVE  AlgoKept
\* perform()'s checks are a CASE: when several of its guards hold, any of
\* their arms may be the one taken, so the true outcomes are split off
\* first.
<1>1. CASE NoData(cl) \/ header # "message"
  <2>1. PICK out \in Outcomes : Finish(c, out, currentPayload, sink)
    BY <1>1 DEF Perform, Outcomes
  <2>2. currentPayload \in {<<>>, Null}
    BY <1>1 DEF NoData, AlgoInv, NoDataWithoutMessage
  <2>3. QED
    BY <2>1, <2>2, FinishAlgo DEF AlgoInv, BufferUnder, NoDataWithoutMessage
<1>2. CASE ~(NoData(cl) \/ header # "message") /\ (aborted \/ timedout \/ errored)
  <2>1. PICK out \in {"false", "timeout", "error"} :
              Finish(c, out, currentPayload, sink)
    BY <1>2 DEF Perform
  <2>2. QED
    BY <2>1, FinishAlgo DEF AlgoInv, BufferUnder, NoDataWithoutMessage
<1>3. CASE ~(aborted \/ timedout \/ errored \/ NoData(cl) \/ header # "message")
  <2>1. /\ fl' = "create"
        /\ chunk' = NewChunk(cl)
        /\ UNCHANGED <<currentPayload, compressionAlgo>>
    BY <1>3 DEF Perform
  <2>2. currentPayload # Null /\ header = "message"
    BY <1>3 DEF NoData
  <2>3. QED
    BY <2>1, <2>2
       DEF NewChunk, AlgoKept, AlgoInv, BufferUnder, ChunkUnder, TokensUnder
<1>4. QED
  BY <1>1, <1>2, <1>3

LEMMA StartFlushAlgo ==
    ASSUME AlgoInv, NEW c, NEW cl, StartFlush(c, cl)
    PROVE  AlgoKept
<1>1. CASE ready
  BY <1>1, PerformAlgo DEF StartFlush
<1>2. CASE ~ready
  BY <1>2 DEF StartFlush, AlgoKept, AlgoInv, BufferUnder, ChunkUnder,
              NoDataWithoutMessage
<1>3. QED
  BY <1>1, <1>2

\* A step that sends no chunk and keeps the header keeps AlgoInv if it
\* behaves like a flush continuation.
LEMMA AlgoFrame ==
    ASSUME AlgoInv, UNCHANGED <<header, sent>>, AlgoKept
    PROVE  AlgoInv'
BY DEF AlgoInv, AlgoKept, ChunkAlgoAgreement, NoDataWithoutMessage

\* A step that touches none of the data, the algorithm or the flush.
LEMMA AlgoUnchanged ==
    ASSUME AlgoInv,
           UNCHANGED <<header, sent, currentPayload, compressionAlgo, fl, chunk>>
    PROVE  AlgoInv'
BY DEF AlgoInv, ChunkAlgoAgreement, BufferUnder, ChunkUnder,
       NoDataWithoutMessage, TokensUnder

\* Every step keeps AlgoInv: one step per action.
LEMMA AlgoStep ==
    ASSUME TypeOK, ClosedInv, AlgoInv, [Next]_vars
    PROVE  AlgoInv'
<1>1. ASSUME NEW len \in {0, 1}, NEW valid \in BOOLEAN, Write(len, valid)
      PROVE  AlgoInv'
  <2> DEFINE tok == [id |-> nops + 1, len |-> len, algo |-> compressionAlgo]
  <2>1. UNCHANGED <<header, sent, compressionAlgo, fl, chunk>>
    BY <1>1 DEF Write
  <2>2. CASE aborted \/ timedout \/ errored \/ closed \/ ~valid
             \/ header # "message"
    <3>1. currentPayload' = currentPayload
      BY <1>1, <2>2 DEF Write
    <3>2. QED
      BY <2>1, <3>1, AlgoUnchanged
  <2>3. CASE ~(aborted \/ timedout \/ errored \/ closed \/ ~valid
               \/ header # "message")
    <3>1. currentPayload' = Append(currentPayload, tok)
      BY <1>1, <2>3 DEF Write
    <3>2. currentPayload \in Seq(Token)
      BY <2>3 DEF ClosedInv, TypeOK
    <3>3. TokensUnder(currentPayload, compressionAlgo)
      BY <2>3 DEF ClosedInv, AlgoInv, BufferUnder
    <3>4. TokensUnder(currentPayload', compressionAlgo')
      BY <2>1, <3>1, <3>2, <3>3 DEF TokensUnder
    <3>5. QED
      BY <2>1, <2>3, <3>4
         DEF AlgoInv, ChunkAlgoAgreement, BufferUnder, ChunkUnder,
             NoDataWithoutMessage
  <2>4. QED
    BY <2>2, <2>3
<1>2. CASE \/ StopCaching
           \/ \E b \in BOOLEAN : SetCloseDestination(b)
           \/ \E o \in WriteAnswers : HeaderWriteDone(o)
           \/ \E o \in FlushAnswers : HeaderFlushDone(o)
           \/ \E o \in {"true"} \cup ({"timeout", "error"} \cap Faults) :
                 DestinationCloseDone(o)
           \/ UNCHANGED vars
  <2>1. UNCHANGED <<header, sent, currentPayload, compressionAlgo, fl, chunk>>
    BY <1>2 DEF StopCaching, SetCloseDestination, HeaderWriteDone,
                HeaderFlushDone, DestinationCloseDone, strm, hist, vars
  <2>2. QED
    BY <2>1, AlgoUnchanged
<1>3. CASE Flush
  <2>1. UNCHANGED <<header, sent>> /\ StartFlush(NewCall("flush", NoAlgo), closed)
    BY <1>3 DEF Flush
  <2>2. QED
    BY <2>1, StartFlushAlgo, AlgoFrame
<1>4. CASE Close
  <2>1. UNCHANGED <<header, sent>>
    BY <1>4 DEF Close
  <2>2. CASE ~(aborted \/ timedout \/ errored \/ closed)
    <3>1. StartFlush(NewCall("close", NoAlgo), TRUE)
      BY <1>4, <2>2 DEF Close
    <3>2. QED
      BY <2>1, <3>1, StartFlushAlgo, AlgoFrame
  <2>3. CASE aborted \/ timedout \/ errored \/ closed
    <3>1. UNCHANGED <<currentPayload, compressionAlgo, fl, chunk>>
      BY <1>4, <2>3 DEF Close
    <3>2. QED
      BY <2>1, <3>1, AlgoUnchanged
  <2>4. QED
    BY <2>2, <2>3
<1>5. ASSUME NEW a \in AlgoOrNone, SetCompressionAlgorithm(a)
      PROVE  AlgoInv'
  <2>1. UNCHANGED <<header, sent>>
    BY <1>5 DEF SetCompressionAlgorithm
  <2>2. CASE header # "error" /\ compressionAlgo # a
             /\ ~(a # NoAlgo /\ capabilities = NoCaps)
             /\ ~(a # NoAlgo /\ a \notin capabilities)
    <3>1. StartFlush(NewCall("setAlgo", a), closed)
      BY <1>5, <2>2 DEF SetCompressionAlgorithm
    <3>2. QED
      BY <2>1, <3>1, StartFlushAlgo, AlgoFrame
  <2>3. CASE ~(header # "error" /\ compressionAlgo # a
               /\ ~(a # NoAlgo /\ capabilities = NoCaps)
               /\ ~(a # NoAlgo /\ a \notin capabilities))
    <3>1. UNCHANGED <<currentPayload, compressionAlgo, fl, chunk>>
      BY <1>5, <2>3 DEF SetCompressionAlgorithm
    <3>2. QED
      BY <2>1, <3>1, AlgoUnchanged
  <2>4. QED
    BY <2>2, <2>3
<1>6. CASE Abort
  <2>1. UNCHANGED <<header, sent>>
    BY <1>6 DEF Abort, hist
  <2>2. CASE fl = "poll"
    <3>1. Finish(call, "false", currentPayload, sink)
      BY <1>6, <2>2 DEF Abort
    <3>2. QED
      BY <2>1, <3>1, FinishAlgo, AlgoFrame
         DEF AlgoInv, BufferUnder, NoDataWithoutMessage
  <2>3. CASE fl # "poll"
    <3>1. UNCHANGED <<currentPayload, compressionAlgo, fl, chunk>>
      BY <1>6, <2>3 DEF Abort
    <3>2. QED
      BY <2>1, <3>1, AlgoUnchanged
  <2>4. QED
    BY <2>2, <2>3
<1>7. CASE PollReady
  <2>1. UNCHANGED <<header, sent>> /\ Perform(call, closed)
    BY <1>7 DEF PollReady, hist
  <2>2. QED
    BY <2>1, PerformAlgo, AlgoFrame
<1>8. CASE PollTimeout \/ ChunkCreateFailed
  <2>1. UNCHANGED <<header, sent>>
    BY <1>8 DEF PollTimeout, ChunkCreateFailed, hist
  <2>2. PICK out \in {"timeout", "error"} :
              Finish(call, out, currentPayload, sink)
    BY <1>8 DEF PollTimeout, ChunkCreateFailed
  <2>3. QED
    BY <2>1, <2>2, FinishAlgo, AlgoFrame
       DEF AlgoInv, BufferUnder, NoDataWithoutMessage
<1>9. CASE ChunkCreated
  <2>1. /\ fl = "create"
        /\ sent' = Append(sent, chunk)
        /\ fl' = "write"
        /\ UNCHANGED <<header, currentPayload, compressionAlgo, chunk>>
    BY <1>9 DEF ChunkCreated
  <2>2. chunk.algo = compressionAlgo /\ TokensUnder(chunk.data, compressionAlgo)
    BY <2>1 DEF AlgoInv, ChunkUnder
  <2>3. sent \in Seq(Chunk) /\ chunk \in Chunk
    BY DEF TypeOK
  <2>4. ChunkAlgoAgreement'
    BY <2>1, <2>2, <2>3 DEF AlgoInv, ChunkAlgoAgreement, TokensUnder
  <2>5. QED
    BY <2>1, <2>4
       DEF AlgoInv, BufferUnder, ChunkUnder, NoDataWithoutMessage, TokensUnder
<1>10. ASSUME NEW o \in WriteAnswers, PayloadWriteDone(o)
       PROVE  AlgoInv'
  <2>1. UNCHANGED <<header, sent>> /\ fl = "write"
    BY <1>10 DEF PayloadWriteDone
  <2>2. CASE \E out \in {"false", "timeout", "error"} :
                 Finish(call, out, currentPayload, sink \ {"write"})
    <3>1. PICK out \in {"false", "timeout", "error"} :
                 Finish(call, out, currentPayload, sink \ {"write"})
      BY <2>2
    <3>2. QED
      BY <2>1, <3>1, FinishAlgo, AlgoFrame
         DEF AlgoInv, BufferUnder, NoDataWithoutMessage
  <2>3. CASE ~\E out \in {"false", "timeout", "error"} :
                 Finish(call, out, currentPayload, sink \ {"write"})
    <3>1. fl' = "flush" /\ UNCHANGED <<currentPayload, compressionAlgo, chunk>>
      BY <1>10, <2>3 DEF PayloadWriteDone
    <3>2. QED
      BY <2>1, <3>1
         DEF AlgoInv, ChunkAlgoAgreement, BufferUnder, ChunkUnder,
             NoDataWithoutMessage, TokensUnder
  <2>4. QED
    BY <2>2, <2>3
<1>11. ASSUME NEW o \in FlushAnswers, PayloadFlushDone(o)
       PROVE  AlgoInv'
  <2>1. UNCHANGED <<header, sent>>
    BY <1>11 DEF PayloadFlushDone
  <2>2. CASE o = "true" /\ ~aborted
    <3>1. Finish(call, "true", ResetPayload, sink \ {"flush"})
      BY <1>11, <2>2 DEF PayloadFlushDone
    <3>2. ResetPayload \in {<<>>, Null}
      BY DEF ResetPayload
    <3>3. ResetPayload # Null => TokensUnder(ResetPayload, compressionAlgo)
      BY <3>2, EmptyTokens
    <3>4. QED
      BY <2>1, <3>1, <3>2, <3>3, FinishAlgo, AlgoFrame
  <2>3. CASE ~(o = "true" /\ ~aborted)
    <3>1. PICK out \in {"false", "timeout", "error"} :
                 Finish(call, out, currentPayload, sink \ {"flush"})
      BY <1>11, <2>3 DEF PayloadFlushDone
    <3>2. QED
      BY <2>1, <3>1, FinishAlgo, AlgoFrame
         DEF AlgoInv, BufferUnder, NoDataWithoutMessage
  <2>4. QED
    BY <2>2, <2>3
<1>12. QED
  BY <1>1, <1>2, <1>3, <1>4, <1>5, <1>6, <1>7, <1>8, <1>9, <1>10, <1>11
     DEF Next, Caller, Environment

-----------------------------------------------------------------------------
(* Every chunk put on the wire is compressed with the algorithm its data   *)
(* was written under: setCompressionAlgorithm() switches only after the   *)
(* old data was flushed (lines 336-350).  For every value of the          *)
(* constants.                                                              *)
THEOREM ChunkAlgoAgreementCorrect == Spec => []ChunkAlgoAgreement
<1>1. Init => IInv /\ AlgoInv
  <2>1. Init => IInv
    BY InitType
  <2>2. Init => AlgoInv
    BY EmptyTokens DEF Init, AlgoInv, ChunkAlgoAgreement, BufferUnder,
                       ChunkUnder, NoDataWithoutMessage
  <2>3. QED
    BY <2>1, <2>2
<1>2. IInv /\ AlgoInv /\ [Next]_vars => IInv' /\ AlgoInv'
  BY TypeStep, ClosedStep, AlgoStep DEF IInv
<1>3. IInv /\ AlgoInv => ChunkAlgoAgreement
  BY DEF AlgoInv
<1>4. QED
  BY <1>1, <1>2, <1>3, PTL DEF Spec

====
