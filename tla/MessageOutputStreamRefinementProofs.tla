----------------- MODULE MessageOutputStreamRefinementProofs -----------------
(***************************************************************************)
(* Proof that the stream implements its abstract specification            *)
(* MessageStream under the mapping written <- accepted, out <- acked,      *)
(* algo <- compressionAlgo (ImplementsMessageStream), for every value of   *)
(* the constants.                                                          *)
(*                                                                         *)
(* A successful write() is Accept.  The success of a chunk's flush is      *)
(* Emit: the chunk is numbered with the counter (SeqInv), compressed with  *)
(* the current algorithm (AlgoInv), carries exactly the pending data       *)
(* (DataInv), is empty only if it is the end chunk (NonEmptyChunk), and    *)
(* comes before any end chunk (EomInv).  A setCompressionAlgorithm() that  *)
(* switches without a chunk is Switch, for nothing is buffered then.       *)
(* Every other step leaves accepted, acked and the algorithm alone.        *)
(***************************************************************************)
EXTENDS MessageOutputStreamDataProofs, MessageOutputStreamEomProofs

\* perform() makes a chunk without the end flag only from a non-empty
\* buffer (NoData, line 497).
NonEmptyChunk ==
    fl \in {"create", "write", "flush"} /\ ~chunk.eom => chunk.data # <<>>

RefInv ==
    /\ IInv
    /\ AlgoInv
    /\ DataInv
    /\ SeqInv
    /\ EomInv
    /\ NonEmptyChunk

\* The abstract specification's concatenation is Concat.
LEMMA FlattenIsConcat ==
    ASSUME NEW s
    PROVE  Stream!Flatten(s) = Concat(s)
BY DEF Stream!Flatten, Concat

-----------------------------------------------------------------------------
\* The continuations of flush() leave no chunk in flight without data
\* unless it is the end chunk.
LEMMA FinishNonEmpty ==
    ASSUME NEW c, NEW out, NEW cp, NEW sk, Finish(c, out, cp, sk)
    PROVE  NonEmptyChunk'
BY DEF Finish, NonEmptyChunk

LEMMA PerformNonEmpty ==
    ASSUME NEW c, NEW cl, Perform(c, cl)
    PROVE  NonEmptyChunk'
<1>1. CASE aborted \/ timedout \/ errored \/ NoData(cl) \/ header # "message"
  <2>1. PICK out \in Outcomes : Finish(c, out, currentPayload, sink)
    BY <1>1 DEF Perform, Outcomes
  <2>2. QED
    BY <2>1, FinishNonEmpty
<1>2. CASE ~(aborted \/ timedout \/ errored \/ NoData(cl) \/ header # "message")
  BY <1>2 DEF Perform, NoData, NewChunk, NonEmptyChunk
<1>3. QED
  BY <1>1, <1>2

LEMMA StartFlushNonEmpty ==
    ASSUME NEW c, NEW cl, StartFlush(c, cl)
    PROVE  NonEmptyChunk'
BY PerformNonEmpty DEF StartFlush, NonEmptyChunk

\* A step that keeps the chunk and moves it along, or drops it, keeps
\* NonEmptyChunk.
LEMMA NonEmptyFrame ==
    ASSUME NonEmptyChunk, chunk' = chunk,
           fl' \in {"create", "write", "flush"} => fl \in {"create", "write", "flush"}
    PROVE  NonEmptyChunk'
BY DEF NonEmptyChunk

LEMMA NonEmptyStep ==
    ASSUME NonEmptyChunk, [Next]_vars
    PROVE  NonEmptyChunk'
<1>1. CASE \/ \E len \in {0, 1}, valid \in BOOLEAN : Write(len, valid)
           \/ StopCaching
           \/ \E b \in BOOLEAN : SetCloseDestination(b)
           \/ \E o \in WriteAnswers : HeaderWriteDone(o)
           \/ \E o \in FlushAnswers : HeaderFlushDone(o)
           \/ \E o \in {"true"} \cup ({"timeout", "error"} \cap Faults) :
                 DestinationCloseDone(o)
           \/ ChunkCreated
           \/ UNCHANGED vars
  <2>1. chunk' = chunk /\ (fl' = fl \/ fl' = "write")
    BY <1>1 DEF Write, StopCaching, SetCloseDestination, HeaderWriteDone,
                HeaderFlushDone, DestinationCloseDone, ChunkCreated, vars
  <2>2. fl' = "write" => fl' = fl \/ fl = "create"
    BY <1>1 DEF Write, StopCaching, SetCloseDestination, HeaderWriteDone,
                HeaderFlushDone, DestinationCloseDone, ChunkCreated, vars
  <2>3. QED
    BY <2>1, <2>2, NonEmptyFrame
<1>2. CASE Flush
  BY <1>2, StartFlushNonEmpty DEF Flush
<1>3. CASE Close
  <2>1. CASE ~(aborted \/ timedout \/ errored \/ closed)
    BY <1>3, <2>1, StartFlushNonEmpty DEF Close
  <2>2. CASE aborted \/ timedout \/ errored \/ closed
    BY <1>3, <2>2, NonEmptyFrame DEF Close
  <2>3. QED
    BY <2>1, <2>2
<1>4. ASSUME NEW a \in AlgoOrNone, SetCompressionAlgorithm(a)
      PROVE  NonEmptyChunk'
  <2>1. CASE header # "error" /\ compressionAlgo # a
             /\ ~(a # NoAlgo /\ capabilities = NoCaps)
             /\ ~(a # NoAlgo /\ a \notin capabilities)
    BY <1>4, <2>1, StartFlushNonEmpty DEF SetCompressionAlgorithm
  <2>2. CASE ~(header # "error" /\ compressionAlgo # a
               /\ ~(a # NoAlgo /\ capabilities = NoCaps)
               /\ ~(a # NoAlgo /\ a \notin capabilities))
    BY <1>4, <2>2, NonEmptyFrame DEF SetCompressionAlgorithm
  <2>3. QED
    BY <2>1, <2>2
<1>5. CASE Abort
  <2>1. CASE fl = "poll"
    BY <1>5, <2>1, FinishNonEmpty DEF Abort
  <2>2. CASE fl # "poll"
    BY <1>5, <2>2, NonEmptyFrame DEF Abort
  <2>3. QED
    BY <2>1, <2>2
<1>6. CASE PollReady
  BY <1>6, PerformNonEmpty DEF PollReady
<1>7. CASE PollTimeout \/ ChunkCreateFailed
  BY <1>7, FinishNonEmpty DEF PollTimeout, ChunkCreateFailed
<1>8. ASSUME NEW o \in WriteAnswers, PayloadWriteDone(o)
      PROVE  NonEmptyChunk'
  <2>1. CASE \E out \in {"false", "timeout", "error"} :
                 Finish(call, out, currentPayload, sink \ {"write"})
    BY <2>1, FinishNonEmpty
  <2>2. CASE ~\E out \in {"false", "timeout", "error"} :
                 Finish(call, out, currentPayload, sink \ {"write"})
    <3>1. fl = "write" /\ fl' = "flush" /\ chunk' = chunk
      BY <1>8, <2>2 DEF PayloadWriteDone
    <3>2. QED
      BY <3>1, NonEmptyFrame
  <2>3. QED
    BY <2>1, <2>2
<1>9. ASSUME NEW o \in FlushAnswers, PayloadFlushDone(o)
      PROVE  NonEmptyChunk'
  <2>1. \E out, cp, sk : Finish(call, out, cp, sk)
    BY <1>9 DEF PayloadFlushDone
  <2>2. QED
    BY <2>1, FinishNonEmpty
<1>10. QED
  BY <1>1, <1>2, <1>3, <1>4, <1>5, <1>6, <1>7, <1>8, <1>9
     DEF Next, Caller, Environment

-----------------------------------------------------------------------------
(* The steps of the abstract specification.                                *)

\* A flush callback switches the algorithm only with a true outcome.
LEMMA FinishSwitch ==
    ASSUME NEW c, NEW out, NEW cp, NEW sk, Finish(c, out, cp, sk)
    PROVE  compressionAlgo' # compressionAlgo => out = "true"
BY DEF Finish, SwitchedAlgo

\* perform() switches the algorithm only when nothing is buffered.
LEMMA PerformSwitch ==
    ASSUME NEW c, NEW cl, Perform(c, cl), NoDataWithoutMessage
    PROVE  compressionAlgo' # compressionAlgo => currentPayload \in {<<>>, Null}
<1>1. CASE NoData(cl) \/ header # "message"
  BY <1>1 DEF NoData, NoDataWithoutMessage
<1>2. CASE ~(NoData(cl) \/ header # "message") /\ (aborted \/ timedout \/ errored)
  <2>1. PICK out \in {"false", "timeout", "error"} :
              Finish(c, out, currentPayload, sink)
    BY <1>2 DEF Perform
  <2>2. QED
    BY <2>1, FinishSwitch
<1>3. CASE ~(aborted \/ timedout \/ errored \/ NoData(cl) \/ header # "message")
  BY <1>3 DEF Perform
<1>4. QED
  BY <1>1, <1>2, <1>3

LEMMA StartFlushSwitch ==
    ASSUME NEW c, NEW cl, StartFlush(c, cl), NoDataWithoutMessage
    PROVE  compressionAlgo' # compressionAlgo => currentPayload \in {<<>>, Null}
BY PerformSwitch DEF StartFlush

\* A step that accepts and counts nothing, and switches the algorithm only
\* with nothing buffered, is a Switch or a stutter.
LEMMA SwitchOrStutter ==
    ASSUME TypeOK, TypeOK', DataInv, UNCHANGED <<accepted, acked>>,
           compressionAlgo' # compressionAlgo => currentPayload \in {<<>>, Null}
    PROVE  [Stream!Next]_Stream!vars
<1>1. CASE compressionAlgo' = compressionAlgo
  BY <1>1 DEF Stream!vars
<1>2. CASE compressionAlgo' # compressionAlgo
  <2>1. Concat(acked) \in Seq(Token)
    BY ConcatType DEF TypeOK
  <2>2. accepted = Concat(acked)
    BY <1>2, <2>1 DEF DataInv, AckedDataIntact
  <2>3. Stream!Pending = <<>>
    BY <2>1, <2>2, FlattenIsConcat DEF Stream!Pending
  <2>4. Stream!Switch(compressionAlgo') /\ compressionAlgo' \in AlgoOrNone
    BY <2>3 DEF Stream!Switch, TypeOK
  <2>5. QED
    BY <2>4 DEF Stream!Next
<1>3. QED
  BY <1>1, <1>2

\* No end chunk has been counted as sent while something is buffered.
LEMMA NotEnded ==
    ASSUME TypeOK, EomInv, currentPayload # Null
    PROVE  ~Stream!Ended
<1>1. ~Ended
  BY DEF EomInv, EndedIsNull
<1> SUFFICES ASSUME NEW i \in 1..Len(acked), acked[i].eom PROVE FALSE
  BY DEF Stream!Ended
<1>2. CASE i = Len(acked)
  BY <1>1, <1>2 DEF Ended
<1>3. CASE i # Len(acked)
  <2>1. i \in 1..Len(acked) - 1
    BY <1>3 DEF TypeOK
  <2>2. QED
    BY <2>1 DEF EomInv, EndOfMessageLast
<1>4. QED
  BY <1>2, <1>3

\* The destination's flush of the chunk succeeds: the chunk goes out with
\* the next number, the pending data and the algorithm in force, and the
\* callback may switch the algorithm, the buffer being empty by then.
LEMMA FlushDoneEmit ==
    ASSUME RefInv, TypeOK', NEW o \in FlushAnswers, PayloadFlushDone(o),
           o = "true", ~aborted
    PROVE  Stream!Emit(chunk.eom, compressionAlgo')
<1>1. /\ fl = "flush"
      /\ acked' = Append(acked, chunk)
      /\ UNCHANGED accepted
  BY DEF PayloadFlushDone
<1>2. /\ TypeOK /\ DataInv /\ AlgoInv /\ SeqInv /\ EomInv /\ NonEmptyChunk
  BY DEF RefInv, IInv
<1>3. /\ chunk \in Chunk /\ acked \in Seq(Chunk)
      /\ chunk.data = currentPayload
  BY <1>1, <1>2 DEF TypeOK, DataInv, ChunkHoldsBuffer
<1>4. currentPayload \in Seq(Token) /\ currentPayload # Null
  BY <1>3, NullAssumption DEF Chunk
<1>5. Concat(acked) \in Seq(Token)
  BY <1>3, ConcatType
<1>6. accepted = Concat(acked) \o currentPayload
  BY <1>2, <1>4 DEF DataInv, AckedDataIntact
<1>7. Stream!Pending = currentPayload
  <2>1. Stream!Pending
          = SubSeq(Concat(acked) \o currentPayload, Len(Concat(acked)) + 1,
                   Len(Concat(acked) \o currentPayload))
    BY <1>6, FlattenIsConcat DEF Stream!Pending
  <2>2. QED
    BY <2>1, <1>4, <1>5
<1>8. ~Stream!Ended
  BY <1>2, <1>4, NotEnded
<1>9. Stream!Pending # <<>> \/ chunk.eom
  BY <1>1, <1>2, <1>3, <1>7 DEF NonEmptyChunk
<1>10. chunk = [seq |-> Len(acked) + 1, eom |-> chunk.eom,
                algo |-> compressionAlgo, data |-> Stream!Pending]
  <2>1. chunk.seq = Len(acked) + 1
    BY <1>1, <1>2 DEF SeqInv, ChunkNumbered, AckedSequenceNumbers
  <2>2. chunk.algo = compressionAlgo
    BY <1>1, <1>2 DEF AlgoInv, ChunkUnder
  <2>3. QED
    BY <1>3, <1>7, <2>1, <2>2 DEF Chunk
<1>11. QED
  BY <1>1, <1>8, <1>9, <1>10 DEF Stream!Emit

\* Every step of the stream is a step of MessageStream or a stutter.
LEMMA RefStep ==
    ASSUME RefInv, TypeOK', [Next]_vars
    PROVE  [Stream!Next]_Stream!vars
<1>0. /\ TypeOK /\ ClosedInv /\ DataInv /\ EomInv
      /\ NoDataWithoutMessage
  BY DEF RefInv, IInv, AlgoInv
<1>1. ASSUME NEW len \in {0, 1}, NEW valid \in BOOLEAN, Write(len, valid)
      PROVE  [Stream!Next]_Stream!vars
  <2> DEFINE tok == [id |-> nops + 1, len |-> len, algo |-> compressionAlgo]
  <2>1. UNCHANGED <<acked, compressionAlgo>>
    BY <1>1 DEF Write
  <2>2. CASE aborted \/ timedout \/ errored \/ closed \/ ~valid
             \/ header # "message"
    <3>1. UNCHANGED accepted
      BY <1>1, <2>2 DEF Write
    <3>2. QED
      BY <2>1, <3>1 DEF Stream!vars
  <2>3. CASE ~(aborted \/ timedout \/ errored \/ closed \/ ~valid
               \/ header # "message")
    <3>1. accepted' = Append(accepted, tok)
      BY <1>1, <2>3 DEF Write
    <3>2. nops < MaxOps
      BY <1>1 DEF Write, CanInvoke
    <3>3. tok \in Token
      BY <3>2, <1>0, ConstAssumption DEF TypeOK, Token
    <3>4. currentPayload # Null
      BY <2>3, <1>0 DEF ClosedInv
    <3>5. ~Stream!Ended
      BY <1>0, <3>4, NotEnded
    <3>6. Stream!Accept(tok)
      BY <2>1, <3>1, <3>5 DEF Stream!Accept
    <3>7. QED
      BY <3>3, <3>6 DEF Stream!Next
  <2>4. QED
    BY <2>2, <2>3
<1>2. CASE \/ StopCaching
           \/ \E b \in BOOLEAN : SetCloseDestination(b)
           \/ \E o \in WriteAnswers : HeaderWriteDone(o)
           \/ \E o \in FlushAnswers : HeaderFlushDone(o)
           \/ \E o \in {"true"} \cup ({"timeout", "error"} \cap Faults) :
                 DestinationCloseDone(o)
           \/ ChunkCreated
           \/ UNCHANGED vars
  <2>1. UNCHANGED <<accepted, acked, compressionAlgo>>
    BY <1>2 DEF StopCaching, SetCloseDestination, HeaderWriteDone,
                HeaderFlushDone, DestinationCloseDone, ChunkCreated,
                strm, hist, vars
  <2>2. QED
    BY <2>1 DEF Stream!vars
<1>3. CASE Flush
  <2>1. UNCHANGED <<accepted, acked>> /\ StartFlush(NewCall("flush", NoAlgo), closed)
    BY <1>3 DEF Flush
  <2>2. QED
    BY <1>0, <2>1, StartFlushSwitch, SwitchOrStutter
<1>4. CASE Close
  <2>1. UNCHANGED <<accepted, acked>>
    BY <1>4 DEF Close
  <2>2. CASE ~(aborted \/ timedout \/ errored \/ closed)
    BY <1>0, <1>4, <2>1, <2>2, StartFlushSwitch, SwitchOrStutter DEF Close
  <2>3. CASE aborted \/ timedout \/ errored \/ closed
    BY <1>4, <2>1, <2>3 DEF Close, Stream!vars
  <2>4. QED
    BY <2>2, <2>3
<1>5. ASSUME NEW a \in AlgoOrNone, SetCompressionAlgorithm(a)
      PROVE  [Stream!Next]_Stream!vars
  <2>1. UNCHANGED <<accepted, acked>>
    BY <1>5 DEF SetCompressionAlgorithm
  <2>2. CASE header # "error" /\ compressionAlgo # a
             /\ ~(a # NoAlgo /\ capabilities = NoCaps)
             /\ ~(a # NoAlgo /\ a \notin capabilities)
    <3>1. StartFlush(NewCall("setAlgo", a), closed)
      BY <1>5, <2>2 DEF SetCompressionAlgorithm
    <3>2. QED
      BY <1>0, <2>1, <3>1, StartFlushSwitch, SwitchOrStutter
  <2>3. CASE ~(header # "error" /\ compressionAlgo # a
               /\ ~(a # NoAlgo /\ capabilities = NoCaps)
               /\ ~(a # NoAlgo /\ a \notin capabilities))
    BY <1>5, <2>1, <2>3 DEF SetCompressionAlgorithm, Stream!vars
  <2>4. QED
    BY <2>2, <2>3
<1>6. CASE Abort
  <2>1. UNCHANGED <<accepted, acked>>
    BY <1>6 DEF Abort, hist
  <2>2. CASE fl = "poll"
    <3>1. Finish(call, "false", currentPayload, sink)
      BY <1>6, <2>2 DEF Abort
    <3>2. QED
      BY <1>0, <2>1, <3>1, FinishSwitch, SwitchOrStutter
  <2>3. CASE fl # "poll"
    BY <1>6, <2>1, <2>3 DEF Abort, Stream!vars
  <2>4. QED
    BY <2>2, <2>3
<1>7. CASE PollReady
  <2>1. UNCHANGED <<accepted, acked>> /\ Perform(call, closed)
    BY <1>7 DEF PollReady, hist
  <2>2. QED
    BY <1>0, <2>1, PerformSwitch, SwitchOrStutter
<1>8. CASE PollTimeout \/ ChunkCreateFailed
  <2>1. UNCHANGED <<accepted, acked>>
    BY <1>8 DEF PollTimeout, ChunkCreateFailed, hist
  <2>2. PICK out \in {"timeout", "error"} :
              Finish(call, out, currentPayload, sink)
    BY <1>8 DEF PollTimeout, ChunkCreateFailed
  <2>3. QED
    BY <1>0, <2>1, <2>2, FinishSwitch, SwitchOrStutter
<1>9. ASSUME NEW o \in WriteAnswers, PayloadWriteDone(o)
      PROVE  [Stream!Next]_Stream!vars
  <2>1. UNCHANGED <<accepted, acked>>
    BY <1>9 DEF PayloadWriteDone
  <2>2. CASE \E out \in {"false", "timeout", "error"} :
                 Finish(call, out, currentPayload, sink \ {"write"})
    BY <1>0, <2>1, <2>2, FinishSwitch, SwitchOrStutter
  <2>3. CASE ~\E out \in {"false", "timeout", "error"} :
                 Finish(call, out, currentPayload, sink \ {"write"})
    BY <1>9, <2>1, <2>3 DEF PayloadWriteDone, Stream!vars
  <2>4. QED
    BY <2>2, <2>3
<1>10. ASSUME NEW o \in FlushAnswers, PayloadFlushDone(o)
       PROVE  [Stream!Next]_Stream!vars
  <2>1. CASE o = "true" /\ ~aborted
    <3>1. Stream!Emit(chunk.eom, compressionAlgo')
      BY <1>10, <2>1, FlushDoneEmit
    <3>2. chunk.eom \in BOOLEAN /\ compressionAlgo' \in AlgoOrNone
      BY <1>0 DEF TypeOK, Chunk
    <3>3. QED
      BY <3>1, <3>2 DEF Stream!Next
  <2>2. CASE ~(o = "true" /\ ~aborted)
    <3>1. /\ UNCHANGED <<accepted, acked>>
          /\ \E out \in {"false", "timeout", "error"} :
                 Finish(call, out, currentPayload, sink \ {"flush"})
      BY <1>10, <2>2 DEF PayloadFlushDone
    <3>2. QED
      BY <1>0, <3>1, FinishSwitch, SwitchOrStutter
  <2>3. QED
    BY <2>1, <2>2
<1>11. QED
  BY <1>1, <1>2, <1>3, <1>4, <1>5, <1>6, <1>7, <1>8, <1>9, <1>10
     DEF Next, Caller, Environment

-----------------------------------------------------------------------------
LEMMA RefInit == Init => RefInv
<1> SUFFICES ASSUME Init PROVE RefInv
  OBVIOUS
<1>1. IInv
  BY InitType
<1>2. AlgoInv
  BY EmptyTokens DEF Init, AlgoInv, ChunkAlgoAgreement, BufferUnder,
                     ChunkUnder, NoDataWithoutMessage
<1>3. DataInv
  BY InitData
<1>4. SeqInv /\ EomInv /\ NonEmptyChunk
  BY DEF Init, SeqInv, AckedSequenceNumbers, ChunkNumbered, EomInv,
         EndOfMessageLast, ChunkFromClosed, SentIsChunk, EndedIsNull, Ended,
         NoChunk, NonEmptyChunk
<1>5. QED
  BY <1>1, <1>2, <1>3, <1>4 DEF RefInv

LEMMA RefInvStep ==
    ASSUME RefInv, [Next]_vars
    PROVE  RefInv'
<1>1. IInv' /\ AlgoInv' /\ DataInv'
  BY TypeStep, ClosedStep, AlgoStep, DataStep DEF RefInv, IInv
<1>2. SeqInv' /\ EomInv' /\ NonEmptyChunk'
  BY SeqStep, EomStep, NonEmptyStep DEF RefInv, IInv
<1>3. QED
  BY <1>1, <1>2 DEF RefInv

(* The stream implements MessageStream: through every retry, abort,        *)
(* failure, timeout and algorithm change, what the destination has         *)
(* acknowledged is a sequence of chunks numbered 1, 2, 3, ..., each with   *)
(* exactly the data written since the one before, under the algorithm in  *)
(* force, only the last an end chunk; write() accepts nothing after it;    *)
(* setCompressionAlgorithm() switches only with nothing pending.  For      *)
(* every value of the constants.                                           *)
THEOREM ImplementsMessageStreamCorrect == Spec => ImplementsMessageStream
<1>1. Init => Stream!Init
  <2> SUFFICES ASSUME Init PROVE Stream!Init
    OBVIOUS
  <2>1. TypeOK
    BY InitType DEF IInv
  <2>2. QED
    BY <2>1 DEF Init, TypeOK, Stream!Init
<1>2. RefInv /\ [Next]_vars => [Stream!Next]_Stream!vars
  BY RefInvStep, RefStep DEF RefInv, IInv
<1>3. Init => RefInv
  BY RefInit
<1>4. RefInv /\ [Next]_vars => RefInv'
  BY RefInvStep
<1>5. QED
  BY <1>1, <1>2, <1>3, <1>4, PTL DEF Spec, Stream!Spec, ImplementsMessageStream

====
