---------------------- MODULE MessageOutputStreamProofs ----------------------
(***************************************************************************)
(* Proofs about the message output stream, for every value of the          *)
(* constants that satisfies ConstAssumption.                               *)
(***************************************************************************)
EXTENDS MessageOutputStream, WellFoundedInduction, TLAPS

-----------------------------------------------------------------------------
(* getPreferredAlgorithm returns one of the algorithms it was given, or    *)
(* null: the most preferred one exists because ranks are natural numbers. *)
LEMMA PreferredAlgorithmType ==
    ASSUME NEW S \in SUBSET Algos
    PROVE  PreferredAlgorithm(S) \in S \cup {NoAlgo}
<1>1. CASE S = {}
  BY <1>1 DEF PreferredAlgorithm
<1>2. CASE S # {}
  <2>1. \A a \in S : Rank(a) \in DOMAIN Preference /\ Preference[Rank(a)] = a
    BY ConstAssumption DEF Rank
  <2>2. DOMAIN Preference \subseteq Nat
    BY ConstAssumption
  <2> DEFINE T == {Rank(a) : a \in S}
  <2>3. T \subseteq Nat /\ T # {}
    BY <1>2, <2>1, <2>2
  <2>4. PICK x \in T : \A y \in T : ~(<<y, x>> \in OpToRel(<, Nat))
    BY <2>3, NatLessThanWellFounded, WFMin
  <2>5. \A y \in T : x <= y
    <3> TAKE y \in T
    <3>1. y \in Nat /\ x \in Nat
      BY <2>3
    <3>2. y < x => <<y, x>> \in OpToRel(<, Nat)
      BY <3>1 DEF OpToRel
    <3>3. ~(y < x)
      BY <2>4, <3>2
    <3>4. QED
      BY <3>1, <3>3
  <2>6. PICK a \in S : Rank(a) = x
    BY <2>4
  <2>7. \A b \in S : Rank(a) <= Rank(b)
    BY <2>5, <2>6
  <2>8. QED
    BY <1>2, <2>7 DEF PreferredAlgorithm
<1>3. QED
  BY <1>1, <1>2

-----------------------------------------------------------------------------
(* Type correctness.  The flush continuations Finish, Perform and          *)
(* StartFlush set the same seven variables; each is shown to keep them     *)
(* well typed once, and the actions cite that.                             *)

FlushVarsTyped ==
    /\ call' \in Call
    /\ fl' \in {"idle", "poll", "create", "write", "flush"}
    /\ chunk' \in Chunk
    /\ currentPayload' \in Seq(Token) \cup {Null}
    /\ compressionAlgo' \in AlgoOrNone
    /\ sink' \subseteq SinkCalls
    /\ ret' \in Ret

LEMMA FinishType ==
    ASSUME TypeOK, NEW c \in Call, NEW out \in Outcomes,
           NEW cp \in Seq(Token) \cup {Null}, NEW sk \in SUBSET SinkCalls,
           Finish(c, out, cp, sk)
    PROVE  FlushVarsTyped
<1>1. /\ fl' \in {"idle", "poll", "create", "write", "flush"}
      /\ chunk' \in Chunk
  BY DEF Finish, NoChunk, Chunk, AlgoOrNone
<1>2. ASSUME NEW o \in Outcomes, Complete(c, o)
      PROVE  call' \in Call /\ ret' \in Ret
  BY <1>2, ConstAssumption DEF Complete, NoCall, Call, Ret, CallNames, AlgoOrNone
<1>3. CASE c.name = "flush"
  <2>1. Complete(c, out) /\ currentPayload' = cp
        /\ compressionAlgo' = compressionAlgo /\ sink' = sk
    BY <1>3 DEF Finish
  <2>2. QED
    BY <1>1, <2>1, <1>2 DEF FlushVarsTyped, TypeOK
<1>4. CASE c.name = "close" /\ out \in {"true", "false"}
  <2>1. /\ currentPayload' = ClosedPayload(out, cp)
        /\ compressionAlgo' = compressionAlgo
        /\ \/ sink' = DestinationClose(sk) /\ call' = c /\ ret' = ret
           \/ sink' = sk /\ Complete(c, out)
    BY <1>4 DEF Finish
  <2>2. ClosedPayload(out, cp) \in Seq(Token) \cup {Null}
    BY DEF ClosedPayload
  <2>3. DestinationClose(sk) \subseteq SinkCalls
    BY DEF DestinationClose, SinkCalls
  <2>4. QED
    BY <1>1, <2>1, <2>2, <2>3, <1>2 DEF FlushVarsTyped, TypeOK
<1>5. CASE c.name = "close" /\ out \notin {"true", "false"}
  <2>1. Complete(c, out) /\ currentPayload' = cp
        /\ compressionAlgo' = compressionAlgo /\ sink' = sk
    BY <1>5 DEF Finish
  <2>2. QED
    BY <1>1, <2>1, <1>2 DEF FlushVarsTyped, TypeOK
<1>6. CASE c.name = "setAlgo"
  <2>1. /\ currentPayload' = cp
        /\ sink' = sk
        /\ compressionAlgo' = SwitchedAlgo(c, out)
        /\ Complete(c, IF out = "false" THEN "error" ELSE out)
    BY <1>6 DEF Finish
  <2>2. SwitchedAlgo(c, out) \in AlgoOrNone
    BY DEF SwitchedAlgo, Call, TypeOK
  <2>3. (IF out = "false" THEN "error" ELSE out) \in Outcomes
    BY DEF Outcomes
  <2>4. QED
    BY <1>1, <2>1, <2>2, <2>3, <1>2 DEF FlushVarsTyped
<1>7. CASE c.name \notin {"flush", "close", "setAlgo"}
  BY <1>7 DEF Finish
<1>8. QED
  BY <1>3, <1>4, <1>5, <1>6, <1>7

LEMMA PerformType ==
    ASSUME TypeOK, NEW c \in Call, NEW cl \in BOOLEAN, Perform(c, cl)
    PROVE  FlushVarsTyped
<1>1. CASE aborted \/ timedout \/ errored \/ currentPayload = Null
           \/ (~cl /\ currentPayload = <<>>) \/ header # "message"
  <2>1. \E out \in Outcomes : Finish(c, out, currentPayload, sink)
    BY <1>1 DEF Perform, NoData, Outcomes
  <2>2. QED
    BY <2>1, FinishType DEF TypeOK
<1>2. CASE ~(aborted \/ timedout \/ errored \/ currentPayload = Null
             \/ (~cl /\ currentPayload = <<>>) \/ header # "message")
  <2>1. /\ fl' = "create"
        /\ chunk' = NewChunk(cl)
        /\ call' = c
        /\ UNCHANGED <<currentPayload, compressionAlgo, sink, ret>>
    BY <1>2 DEF Perform, NoData
  <2>2. NewChunk(cl) \in Chunk
    BY <1>2 DEF NewChunk, Chunk, TypeOK
  <2>3. QED
    BY <2>1, <2>2 DEF FlushVarsTyped, TypeOK
<1>3. QED
  BY <1>1, <1>2

LEMMA StartFlushType ==
    ASSUME TypeOK, NEW c \in Call, NEW cl \in BOOLEAN, StartFlush(c, cl)
    PROVE  FlushVarsTyped
<1>1. CASE ready
  BY <1>1, PerformType DEF StartFlush
<1>2. CASE ~ready
  BY <1>2 DEF StartFlush, FlushVarsTyped, TypeOK
<1>3. QED
  BY <1>1, <1>2

LEMMA NewCallType ==
    ASSUME TypeOK, CanInvoke, NEW name \in CallNames, NEW t \in AlgoOrNone
    PROVE  NewCall(name, t) \in Call
BY ConstAssumption DEF NewCall, Call, CanInvoke, TypeOK

(* The callback of an operation leaves call and ret well typed.            *)
LEMMA CompleteType ==
    ASSUME NEW c \in Call, NEW out \in Outcomes, Complete(c, out)
    PROVE  call' \in Call /\ ret' \in Ret
BY ConstAssumption DEF Complete, NoCall, Call, Ret, CallNames, AlgoOrNone

-----------------------------------------------------------------------------
(* TypeOK alone is not inductive: write() appends to _currentPayload, which *)
(* is a buffer only because it becomes null just when close() has set      *)
(* _closed, and flush() can hand close()'s callback the null only when the *)
(* pending operation is a close().                                         *)
ClosedInv ==
    /\ currentPayload = Null => closed
    /\ call.name = "close" => closed

IInv == TypeOK /\ ClosedInv

(* The constructor's state is well typed and has a buffer.                 *)
LEMMA InitType == Init => IInv
<1> SUFFICES ASSUME Init PROVE IInv
  OBVIOUS
<1>1. capabilities \in (SUBSET Algos) \cup {NoCaps}
  BY ConstAssumption DEF Init, Intersection
<1>2. compressionAlgo \in AlgoOrNone
  BY <1>1, PreferredAlgorithmType DEF Init, AlgoOrNone
<1>3. NoCall \in Call /\ NoChunk \in Chunk
  BY ConstAssumption DEF NoCall, Call, CallNames, AlgoOrNone, NoChunk, Chunk
<1>4. ret \in Ret
  BY ConstAssumption DEF Init, Ret, CallNames, Outcomes
<1>5. header \in {"message", "handshake", "error"}
  BY ConstAssumption DEF Init
<1>6. /\ payloadSequenceNumber \in Nat \ {0}
      /\ currentPayload \in Seq(Token)
      /\ payloads \in Seq(Chunk) /\ accepted \in Seq(Token)
      /\ sent \in Seq(Chunk) /\ acked \in Seq(Chunk)
  BY DEF Init
<1>7. /\ closed \in BOOLEAN /\ closeDestination \in BOOLEAN
      /\ caching \in BOOLEAN /\ ready \in BOOLEAN /\ readyQueue \in Nat
      /\ aborted \in BOOLEAN /\ timedout \in BOOLEAN /\ errored \in BOOLEAN
      /\ hdrOk \in BOOLEAN /\ failed \in BOOLEAN /\ wrote \in {"full", "short"}
      /\ fl \in {"idle", "poll", "create", "write", "flush"}
  BY DEF Init
<1>8. nops \in 0..MaxOps
  BY ConstAssumption DEF Init
<1>9. sink \subseteq SinkCalls
  BY DEF Init, SinkCalls
<1>10. call = NoCall /\ chunk = NoChunk
  BY DEF Init
<1>11. TypeOK
  BY <1>1, <1>2, <1>3, <1>4, <1>5, <1>6, <1>7, <1>10, <1>8, <1>9 DEF TypeOK
<1>12. ClosedInv
  BY <1>6, <1>10, NullAssumption DEF ClosedInv, NoCall
<1>13. QED
  BY <1>11, <1>12 DEF IInv

-----------------------------------------------------------------------------
(* The flush continuations keep the buffer, and the pending call other     *)
(* than close(), unless cl holds, when what they are given satisfies this. *)
LEMMA FinishClosed ==
    ASSUME NEW c, NEW out, NEW cp, NEW sk, NEW cl,
           cp = Null => cl, c.name = "close" => cl,
           Finish(c, out, cp, sk)
    PROVE  /\ currentPayload' = Null => cl
           /\ call'.name = "close" => cl
<1>1. CASE c.name = "close"
  BY <1>1
<1>2. CASE c.name # "close"
  BY <1>2 DEF Finish, Complete, NoCall
<1>3. QED
  BY <1>1, <1>2

LEMMA PerformClosed ==
    ASSUME NEW c, NEW cl, currentPayload = Null => cl, c.name = "close" => cl,
           Perform(c, cl)
    PROVE  /\ currentPayload' = Null => cl
           /\ call'.name = "close" => cl
<1>1. CASE aborted \/ timedout \/ errored \/ currentPayload = Null
           \/ (~cl /\ currentPayload = <<>>) \/ header # "message"
  <2>1. PICK out \in Outcomes : Finish(c, out, currentPayload, sink)
    BY <1>1 DEF Perform, NoData, Outcomes
  <2>2. QED
    BY <2>1, FinishClosed
<1>2. CASE ~(aborted \/ timedout \/ errored \/ currentPayload = Null
             \/ (~cl /\ currentPayload = <<>>) \/ header # "message")
  BY <1>2 DEF Perform, NoData
<1>3. QED
  BY <1>1, <1>2

LEMMA StartFlushClosed ==
    ASSUME NEW c, NEW cl, currentPayload = Null => cl, c.name = "close" => cl,
           StartFlush(c, cl)
    PROVE  /\ currentPayload' = Null => cl
           /\ call'.name = "close" => cl
<1>1. CASE ready
  BY <1>1, PerformClosed DEF StartFlush
<1>2. CASE ~ready
  BY <1>2 DEF StartFlush
<1>3. QED
  BY <1>1, <1>2

-----------------------------------------------------------------------------
(* Every step keeps the state well typed.  Each case establishes the type  *)
(* of what its action changes and names what it leaves alone.              *)
LEMMA TypeStep ==
    ASSUME TypeOK, ClosedInv, [Next]_vars
    PROVE  TypeOK'
<1>1. ASSUME NEW len \in {0, 1}, NEW valid \in BOOLEAN, Write(len, valid)
      PROVE  TypeOK'
  <2> DEFINE c == NewCall("write", NoAlgo)
             tok == [id |-> nops + 1, len |-> len, algo |-> compressionAlgo]
  <2>1. c \in Call
    BY <1>1, NewCallType DEF Write, CallNames, AlgoOrNone
  <2>2. tok \in Token
    BY <1>1, ConstAssumption DEF Write, CanInvoke, Token, TypeOK
  <2>3. UNCHANGED <<header, capabilities, compressionAlgo, payloadSequenceNumber,
                    closed, closeDestination, caching, payloads, ready, readyQueue,
                    aborted, timedout, errored, fl, chunk, sink,
                    sent, acked, hdrOk, wrote, failed>>
    BY <1>1 DEF Write
  <2>4. nops' \in 0..MaxOps
    BY <1>1, ConstAssumption DEF Write, CanInvoke, TypeOK
  <2>5. CASE aborted \/ timedout \/ errored \/ closed \/ ~valid
             \/ header # "message"
    <3>1. PICK out \in Outcomes :
              Complete(c, out) /\ UNCHANGED <<currentPayload, accepted>>
      BY <1>1, <2>5 DEF Write, Outcomes
    <3>2. call' \in Call /\ ret' \in Ret
      BY <2>1, <3>1, CompleteType
    <3>3. QED
      BY <2>3, <2>4, <3>1, <3>2, SMTT(60) DEF TypeOK
  <2>6. CASE ~(aborted \/ timedout \/ errored \/ closed \/ ~valid
               \/ header # "message")
    <3>1. /\ currentPayload' = Append(currentPayload, tok)
          /\ accepted' = Append(accepted, tok)
          /\ Complete(c, "num")
      BY <1>1, <2>6 DEF Write
    <3>2. currentPayload \in Seq(Token)
      BY <2>6 DEF ClosedInv, TypeOK
    <3>3. currentPayload' \in Seq(Token) /\ accepted' \in Seq(Token)
      BY <2>2, <3>1, <3>2 DEF TypeOK
    <3>4. call' \in Call /\ ret' \in Ret
      BY <2>1, <3>1, CompleteType DEF Outcomes
    <3>5. QED
      BY <2>3, <2>4, <3>3, <3>4, SMTT(60) DEF TypeOK
  <2>7. QED
    BY <2>5, <2>6
<1>2. CASE Flush
  <2>1. NewCall("flush", NoAlgo) \in Call
    BY <1>2, NewCallType DEF Flush, CallNames, AlgoOrNone
  <2>2. FlushVarsTyped
    BY <1>2, <2>1, StartFlushType DEF Flush, TypeOK
  <2>3. QED
    BY <1>2, <2>2, ConstAssumption DEF Flush, CanInvoke, FlushVarsTyped, TypeOK
<1>3. CASE Close
  <2> DEFINE c == NewCall("close", NoAlgo)
  <2>1. c \in Call
    BY <1>3, NewCallType DEF Close, CallNames, AlgoOrNone
  <2>2. CASE ~(aborted \/ timedout \/ errored \/ closed)
    <3>1. closed' = TRUE /\ StartFlush(c, TRUE)
      BY <1>3, <2>2 DEF Close
    <3>2. FlushVarsTyped
      BY <3>1, <2>1, StartFlushType
    <3>3. QED
      BY <1>3, <3>1, <3>2, ConstAssumption DEF Close, CanInvoke, FlushVarsTyped, TypeOK
  <2>3. CASE aborted \/ timedout \/ errored \/ closed
    <3>1. PICK out \in Outcomes :
              /\ Complete(c, out)
              /\ UNCHANGED <<closed, fl, chunk, currentPayload, compressionAlgo, sink>>
      BY <1>3, <2>3 DEF Close, Outcomes
    <3>2. call' \in Call /\ ret' \in Ret
      BY <2>1, <3>1, CompleteType
    <3>3. UNCHANGED <<header, capabilities, payloadSequenceNumber,
                      closeDestination, caching, payloads, ready, readyQueue,
                      aborted, timedout, errored,
                      accepted, sent, acked, hdrOk, wrote, failed>>
      BY <1>3 DEF Close
    <3>4. nops' \in 0..MaxOps
      BY <1>3, ConstAssumption DEF Close, CanInvoke, TypeOK
    <3>5. QED
      BY <3>1, <3>2, <3>3, <3>4, SMTT(60) DEF TypeOK
  <2>4. QED
    BY <2>2, <2>3
<1>4. ASSUME NEW a \in AlgoOrNone, SetCompressionAlgorithm(a)
      PROVE  TypeOK'
  <2>1. NewCall("setAlgo", a) \in Call
    BY <1>4, NewCallType DEF SetCompressionAlgorithm, CallNames
  <2>2. CASE header # "error" /\ compressionAlgo # a
             /\ ~(a # NoAlgo /\ capabilities = NoCaps)
             /\ ~(a # NoAlgo /\ a \notin capabilities)
    <3>1. StartFlush(NewCall("setAlgo", a), closed)
      BY <1>4, <2>2 DEF SetCompressionAlgorithm
    <3>2. FlushVarsTyped
      BY <3>1, <2>1, StartFlushType DEF TypeOK
    <3>3. QED
      BY <1>4, <3>2, ConstAssumption
         DEF SetCompressionAlgorithm, CanInvoke, FlushVarsTyped, TypeOK
  <2>3. CASE ~(header # "error" /\ compressionAlgo # a
               /\ ~(a # NoAlgo /\ capabilities = NoCaps)
               /\ ~(a # NoAlgo /\ a \notin capabilities))
    BY <1>4, <2>1, <2>3, ConstAssumption
       DEF SetCompressionAlgorithm, Complete, CanInvoke, TypeOK, Call, Ret, Outcomes
  <2>4. QED
    BY <2>2, <2>3
<1>5. CASE StopCaching
  <2>1. UNCHANGED <<accepted, sent, acked, hdrOk, wrote, failed, nops>>
    BY <1>5 DEF StopCaching, hist
  <2>2. UNCHANGED <<header, capabilities, compressionAlgo, payloadSequenceNumber,
                    currentPayload, closed, closeDestination, ready, readyQueue,
                    aborted, timedout, errored, call, fl, chunk, sink, ret>>
    BY <1>5 DEF StopCaching
  <2>3. caching' = FALSE /\ payloads' = <<>>
    BY <1>5 DEF StopCaching
  <2>4. <<>> \in Seq(Chunk)
    OBVIOUS
  <2>5. caching' \in BOOLEAN /\ payloads' \in Seq(Chunk)
    BY <2>3, <2>4
  <2>6. QED
    BY <2>1, <2>2, <2>5, SMTT(60) DEF TypeOK
<1>6. ASSUME NEW b \in BOOLEAN, SetCloseDestination(b)
      PROVE  TypeOK'
  BY <1>6 DEF SetCloseDestination, TypeOK, hist
<1>7. CASE Abort
  <2>1. CASE fl = "poll"
    <3>1. Finish(call, "false", currentPayload, sink)
      BY <1>7, <2>1 DEF Abort
    <3>2. FlushVarsTyped
      BY <3>1, FinishType DEF TypeOK, Outcomes
    <3>3. QED
      BY <1>7, <3>2 DEF Abort, FlushVarsTyped, TypeOK, hist
  <2>2. CASE fl # "poll"
    BY <1>7, <2>2 DEF Abort, TypeOK, hist
  <2>3. QED
    BY <2>1, <2>2
<1>8. ASSUME NEW o \in WriteAnswers, HeaderWriteDone(o)
      PROVE  TypeOK'
  <2>1. UNCHANGED <<header, capabilities, compressionAlgo, payloadSequenceNumber,
                    currentPayload, closed, closeDestination, caching, payloads,
                    aborted, call, fl, chunk,
                    accepted, sent, acked, hdrOk, wrote, ret, nops>>
    BY <1>8 DEF HeaderWriteDone
  <2>2. sink' \subseteq SinkCalls
    BY <1>8 DEF HeaderWriteDone, TypeOK, SinkCalls
  <2>3. \/ MarkReady
        \/ UNCHANGED <<ready, readyQueue>>
    BY <1>8 DEF HeaderWriteDone
  <2>4. ready' \in BOOLEAN /\ readyQueue' \in Nat
    <3>1. CASE MarkReady
      BY <3>1 DEF MarkReady, TypeOK
    <3>2. CASE UNCHANGED <<ready, readyQueue>>
      BY <3>2 DEF TypeOK
    <3>3. QED
      BY <2>3, <3>1, <3>2
  <2>5. timedout' \in BOOLEAN /\ errored' \in BOOLEAN /\ failed' \in BOOLEAN
    BY <1>8 DEF HeaderWriteDone, TypeOK
  <2>6. QED
    BY <2>1, <2>2, <2>4, <2>5, SMTT(60) DEF TypeOK
<1>9. ASSUME NEW o \in FlushAnswers, HeaderFlushDone(o)
      PROVE  TypeOK'
  <2>1. UNCHANGED <<header, capabilities, compressionAlgo, payloadSequenceNumber,
                    currentPayload, closed, closeDestination, caching, payloads,
                    aborted, call, fl, chunk,
                    accepted, sent, acked, wrote, ret, nops>>
    BY <1>9 DEF HeaderFlushDone
  <2>2. sink' \subseteq SinkCalls /\ ready' \in BOOLEAN /\ readyQueue' \in Nat
    BY <1>9 DEF HeaderFlushDone, MarkReady, TypeOK
  <2>3. timedout' \in BOOLEAN /\ errored' \in BOOLEAN /\ failed' \in BOOLEAN
        /\ hdrOk' \in BOOLEAN
    BY <1>9 DEF HeaderFlushDone, TypeOK
  <2>4. QED
    BY <2>1, <2>2, <2>3, SMTT(60) DEF TypeOK
<1>10. CASE PollReady
  <2>1. Perform(call, closed)
    BY <1>10 DEF PollReady
  <2>2. FlushVarsTyped
    BY <2>1, PerformType DEF TypeOK
  <2>3. QED
    BY <1>10, <2>2 DEF PollReady, FlushVarsTyped, TypeOK, hist
<1>11. CASE PollTimeout
  <2>1. FlushVarsTyped
    BY <1>11, FinishType DEF PollTimeout, TypeOK, Outcomes
  <2>2. QED
    BY <1>11, <2>1 DEF PollTimeout, FlushVarsTyped, TypeOK, hist
<1>12. CASE ChunkCreated
  BY <1>12 DEF ChunkCreated, TypeOK, SinkCalls
<1>13. CASE ChunkCreateFailed
  <2>1. FlushVarsTyped
    BY <1>13, FinishType DEF ChunkCreateFailed, TypeOK, Outcomes
  <2>2. QED
    BY <1>13, <2>1 DEF ChunkCreateFailed, FlushVarsTyped, TypeOK, hist
<1>14. ASSUME NEW o \in WriteAnswers, PayloadWriteDone(o)
       PROVE  TypeOK'
  <2>1. UNCHANGED <<header, capabilities, payloadSequenceNumber, closed,
                    closeDestination, caching, payloads, ready, readyQueue,
                    aborted, timedout, errored, accepted, sent, acked, hdrOk, nops>>
    BY <1>14 DEF PayloadWriteDone
  <2>2. sink \ {"write"} \in SUBSET SinkCalls
    BY DEF TypeOK
  <2>3. CASE o \in {"full", "short"} /\ aborted
    <3>1. Finish(call, "false", currentPayload, sink \ {"write"})
          /\ wrote' = o /\ failed' = failed
      BY <1>14, <2>3 DEF PayloadWriteDone
    <3>2. FlushVarsTyped
      BY <2>2, <3>1, FinishType DEF TypeOK, Outcomes
    <3>3. QED
      BY <2>1, <2>3, <3>1, <3>2, SMTT(60) DEF FlushVarsTyped, TypeOK
  <2>4. CASE o \in {"full", "short"} /\ ~aborted
    <3>1. /\ sink' = (sink \ {"write"}) \cup {"flush"}
          /\ fl' = "flush"
          /\ UNCHANGED <<call, chunk, currentPayload, compressionAlgo, ret, failed>>
          /\ wrote' = o
      BY <1>14, <2>4 DEF PayloadWriteDone
    <3>2. sink' \subseteq SinkCalls
      BY <2>2, <3>1 DEF SinkCalls
    <3>3. QED
      BY <2>1, <2>4, <3>1, <3>2, SMTT(60) DEF TypeOK
  <2>5. CASE o \in {"timeout", "error"}
    <3>1. Finish(call, o, currentPayload, sink \ {"write"})
          /\ failed' = TRUE /\ wrote' = wrote
      BY <1>14, <2>5 DEF PayloadWriteDone
    <3>2. FlushVarsTyped
      BY <2>2, <2>5, <3>1, FinishType DEF TypeOK, Outcomes
    <3>3. QED
      BY <2>1, <3>1, <3>2, SMTT(60) DEF FlushVarsTyped, TypeOK
  <2>6. QED
    BY <2>3, <2>4, <2>5 DEF WriteAnswers
<1>15. ASSUME NEW o \in FlushAnswers, PayloadFlushDone(o)
       PROVE  TypeOK'
  <2>1. UNCHANGED <<header, capabilities, closed, closeDestination, caching,
                    payloads, ready, readyQueue, aborted, timedout, errored,
                    accepted, sent, hdrOk, wrote, nops>>
    BY <1>15 DEF PayloadFlushDone
  <2>2. sink \ {"flush"} \in SUBSET SinkCalls
    BY DEF TypeOK
  <2>3. ASSUME NEW out \in Outcomes, NEW cp \in Seq(Token) \cup {Null},
               Finish(call, out, cp, sink \ {"flush"}),
               payloadSequenceNumber' \in Nat \ {0},
               acked' \in Seq(Chunk),
               failed' \in BOOLEAN
        PROVE  TypeOK'
    <3>1. FlushVarsTyped
      BY <2>2, <2>3, FinishType DEF TypeOK
    <3>2. QED
      BY <2>1, <2>3, <3>1, SMTT(60) DEF FlushVarsTyped, TypeOK
  <2>4. CASE o = "true" /\ ~aborted
    <3>1. /\ payloadSequenceNumber' = payloadSequenceNumber + 1
          /\ acked' = Append(acked, chunk)
          /\ Finish(call, "true", ResetPayload, sink \ {"flush"})
          /\ failed' = failed
      BY <1>15, <2>4 DEF PayloadFlushDone
    <3>2. ResetPayload \in Seq(Token) \cup {Null}
      BY DEF ResetPayload
    <3>3. payloadSequenceNumber' \in Nat \ {0} /\ acked' \in Seq(Chunk)
      BY <3>1 DEF TypeOK
    <3>4. QED
      BY <2>3, <3>1, <3>2, <3>3 DEF TypeOK, Outcomes
  <2>5. CASE ~(o = "true" /\ ~aborted)
    <3>1. PICK out \in Outcomes : Finish(call, out, currentPayload, sink \ {"flush"})
      BY <1>15, <2>5 DEF PayloadFlushDone, Outcomes
    <3>2. UNCHANGED <<payloadSequenceNumber, acked>> /\ failed' \in BOOLEAN
      BY <1>15, <2>5 DEF PayloadFlushDone, TypeOK
    <3>3. QED
      BY <2>3, <3>1, <3>2 DEF TypeOK
  <2>6. QED
    BY <2>4, <2>5
<1>16. ASSUME NEW o \in {"true"} \cup ({"timeout", "error"} \cap Faults),
              DestinationCloseDone(o)
       PROVE  TypeOK'
  <2>1. UNCHANGED <<header, capabilities, compressionAlgo, payloadSequenceNumber,
                    currentPayload, closed, closeDestination, caching, payloads,
                    ready, readyQueue, aborted, timedout, errored, fl, chunk,
                    accepted, sent, acked, hdrOk, wrote, nops>>
    BY <1>16 DEF DestinationCloseDone, strm
  <2>2. sink' \subseteq SinkCalls /\ failed' \in BOOLEAN
    BY <1>16 DEF DestinationCloseDone, TypeOK
  <2>3. call' \in Call /\ ret' \in Ret
    BY <1>16, CompleteType DEF DestinationCloseDone, TypeOK, Outcomes
  <2>4. QED
    BY <2>1, <2>2, <2>3, SMTT(60) DEF TypeOK
<1>17. CASE UNCHANGED vars
  BY <1>17 DEF vars, TypeOK
<1>18. QED
  BY <1>1, <1>2, <1>3, <1>4, <1>5, <1>6, <1>7, <1>8, <1>9, <1>10, <1>11,
     <1>12, <1>13, <1>14, <1>15, <1>16, <1>17 DEF Next, Caller, Environment

-----------------------------------------------------------------------------
(* Every step keeps ClosedInv: _closed is never reset, the buffer becomes  *)
(* null only through close()'s or a closed stream's flush, and only        *)
(* close() itself makes a close() the pending operation.                   *)
LEMMA ClosedStep ==
    ASSUME TypeOK, ClosedInv, [Next]_vars
    PROVE  ClosedInv'
<1>1. ASSUME NEW len \in {0, 1}, NEW valid \in BOOLEAN, Write(len, valid)
      PROVE  ClosedInv'
  <2> DEFINE tok == [id |-> nops + 1, len |-> len, algo |-> compressionAlgo]
  <2>1. closed' = closed /\ call' = NoCall
    BY <1>1 DEF Write, Complete
  <2>2. CASE aborted \/ timedout \/ errored \/ closed \/ ~valid
             \/ header # "message"
    <3>1. currentPayload' = currentPayload
      BY <1>1, <2>2 DEF Write
    <3>2. QED
      BY <2>1, <3>1 DEF ClosedInv, NoCall
  <2>3. CASE ~(aborted \/ timedout \/ errored \/ closed \/ ~valid
               \/ header # "message")
    <3>1. currentPayload' = Append(currentPayload, tok)
      BY <1>1, <2>3 DEF Write
    <3>2. currentPayload \in Seq(Token)
      BY <2>3 DEF ClosedInv, TypeOK
    <3>3. tok \in Token
      BY <1>1, ConstAssumption DEF Write, CanInvoke, Token, TypeOK
    <3>4. currentPayload' # Null
      BY <3>1, <3>2, <3>3, NullAssumption
    <3>5. QED
      BY <2>1, <3>4 DEF ClosedInv, NoCall
  <2>4. QED
    BY <2>2, <2>3
<1>2. CASE Flush
  <2>1. StartFlush(NewCall("flush", NoAlgo), closed) /\ closed' = closed
    BY <1>2 DEF Flush
  <2>2. NewCall("flush", NoAlgo).name = "flush"
    BY DEF NewCall
  <2>3. QED
    BY <2>1, <2>2, StartFlushClosed DEF ClosedInv
<1>3. CASE Close
  <2>1. CASE ~(aborted \/ timedout \/ errored \/ closed)
    BY <1>3, <2>1 DEF Close, ClosedInv
  <2>2. CASE aborted \/ timedout \/ errored \/ closed
    <3>1. closed' = closed /\ currentPayload' = currentPayload /\ call' = NoCall
      BY <1>3, <2>2 DEF Close, Complete
    <3>2. QED
      BY <3>1 DEF ClosedInv, NoCall
  <2>3. QED
    BY <2>1, <2>2
<1>4. ASSUME NEW a \in AlgoOrNone, SetCompressionAlgorithm(a)
      PROVE  ClosedInv'
  <2>1. closed' = closed
    BY <1>4 DEF SetCompressionAlgorithm
  <2>2. CASE header # "error" /\ compressionAlgo # a
             /\ ~(a # NoAlgo /\ capabilities = NoCaps)
             /\ ~(a # NoAlgo /\ a \notin capabilities)
    <3>1. StartFlush(NewCall("setAlgo", a), closed)
      BY <1>4, <2>2 DEF SetCompressionAlgorithm
    <3>2. NewCall("setAlgo", a).name = "setAlgo"
      BY DEF NewCall
    <3>3. QED
      BY <2>1, <3>1, <3>2, StartFlushClosed DEF ClosedInv
  <2>3. CASE ~(header # "error" /\ compressionAlgo # a
               /\ ~(a # NoAlgo /\ capabilities = NoCaps)
               /\ ~(a # NoAlgo /\ a \notin capabilities))
    <3>1. currentPayload' = currentPayload /\ call' = NoCall
      BY <1>4, <2>3 DEF SetCompressionAlgorithm, Complete
    <3>2. QED
      BY <2>1, <3>1 DEF ClosedInv, NoCall
  <2>4. QED
    BY <2>2, <2>3
<1>5. CASE StopCaching \/ (\E b \in BOOLEAN : SetCloseDestination(b))
           \/ (\E o \in WriteAnswers : HeaderWriteDone(o))
           \/ (\E o \in FlushAnswers : HeaderFlushDone(o))
           \/ ChunkCreated \/ UNCHANGED vars
  <2>1. UNCHANGED <<currentPayload, closed, call>>
    BY <1>5 DEF StopCaching, SetCloseDestination, HeaderWriteDone,
                HeaderFlushDone, ChunkCreated, vars
  <2>2. QED
    BY <2>1 DEF ClosedInv
<1>6. CASE Abort
  <2>1. closed' = closed
    BY <1>6 DEF Abort
  <2>2. CASE fl = "poll"
    <3>1. Finish(call, "false", currentPayload, sink)
      BY <1>6, <2>2 DEF Abort
    <3>2. QED
      BY <2>1, <3>1, FinishClosed DEF ClosedInv
  <2>3. CASE fl # "poll"
    BY <1>6, <2>3 DEF Abort, ClosedInv
  <2>4. QED
    BY <2>2, <2>3
<1>7. CASE PollReady
  <2>1. Perform(call, closed) /\ closed' = closed
    BY <1>7 DEF PollReady
  <2>2. QED
    BY <2>1, PerformClosed DEF ClosedInv
<1>8. CASE PollTimeout \/ ChunkCreateFailed
  <2>1. PICK out : Finish(call, out, currentPayload, sink) /\ closed' = closed
    BY <1>8 DEF PollTimeout, ChunkCreateFailed
  <2>2. QED
    BY <2>1, FinishClosed DEF ClosedInv
<1>9. ASSUME NEW o \in WriteAnswers, PayloadWriteDone(o)
      PROVE  ClosedInv'
  <2>1. closed' = closed
    BY <1>9 DEF PayloadWriteDone
  <2>2. CASE \E out : Finish(call, out, currentPayload, sink \ {"write"})
    <3>1. PICK out : Finish(call, out, currentPayload, sink \ {"write"})
      BY <2>2
    <3>2. QED
      BY <2>1, <3>1, FinishClosed DEF ClosedInv
  <2>3. CASE ~\E out : Finish(call, out, currentPayload, sink \ {"write"})
    <3>1. UNCHANGED <<call, currentPayload>>
      BY <1>9, <2>3 DEF PayloadWriteDone
    <3>2. QED
      BY <2>1, <3>1 DEF ClosedInv
  <2>4. QED
    BY <2>2, <2>3
<1>10. ASSUME NEW o \in FlushAnswers, PayloadFlushDone(o)
       PROVE  ClosedInv'
  <2>1. closed' = closed
    BY <1>10 DEF PayloadFlushDone
  <2>2. CASE o = "true" /\ ~aborted
    <3>1. Finish(call, "true", ResetPayload, sink \ {"flush"})
      BY <1>10, <2>2 DEF PayloadFlushDone
    <3>2. CASE closed
      BY <2>1, <3>2 DEF ClosedInv
    <3>3. CASE ~closed
      <4>1. Finish(call, "true", <<>>, sink \ {"flush"})
        BY <3>1, <3>3 DEF ResetPayload
      <4>4. <<>> \in Seq(Token)
        OBVIOUS
      <4>2. <<>> # Null
        BY <4>4, NullAssumption
      <4>3. QED
        BY <2>1, <4>1, <4>2, FinishClosed DEF ClosedInv
    <3>4. QED
      BY <3>2, <3>3
  <2>3. CASE ~(o = "true" /\ ~aborted)
    <3>1. PICK out : Finish(call, out, currentPayload, sink \ {"flush"})
      BY <1>10, <2>3 DEF PayloadFlushDone
    <3>2. QED
      BY <2>1, <3>1, FinishClosed DEF ClosedInv
  <2>4. QED
    BY <2>2, <2>3
<1>11. ASSUME NEW o \in {"true"} \cup ({"timeout", "error"} \cap Faults),
              DestinationCloseDone(o)
       PROVE  ClosedInv'
  BY <1>11 DEF DestinationCloseDone, Complete, strm, NoCall, ClosedInv
<1>12. QED
  BY <1>1, <1>2, <1>3, <1>4, <1>5, <1>6, <1>7, <1>8, <1>9, <1>10, <1>11
     DEF Next, Caller, Environment

-----------------------------------------------------------------------------
(* The type invariant holds in every reachable state: it is inductive      *)
(* together with ClosedInv.                                                *)
THEOREM TypeCorrect == Spec => []TypeOK
<1>1. Init => IInv
  BY InitType
<1>2. IInv /\ [Next]_vars => IInv'
  BY TypeStep, ClosedStep DEF IInv
<1>3. IInv => TypeOK
  BY DEF IInv
<1>4. QED
  BY <1>1, <1>2, <1>3, PTL DEF Spec

-----------------------------------------------------------------------------
(* Chunk numbering.  A chunk that flush() has asked for and not finished    *)
(* with carries the current _payloadSequenceNumber: perform() numbers it    *)
(* with the counter, and only the success of its own flush, which ends the  *)
(* operation, increments the counter.                                       *)
ChunkNumbered ==
    fl \in {"create", "write", "flush"} => chunk.seq = payloadSequenceNumber

SeqInv == AckedSequenceNumbers /\ ChunkNumbered

\* The continuation of flush() leaves a chunk in flight only if it numbered
\* it with the counter.
InFlightNumbered ==
    fl' \in {"create", "write", "flush"} => chunk'.seq = payloadSequenceNumber

LEMMA FinishNumbered ==
    ASSUME NEW c, NEW out, NEW cp, NEW sk, Finish(c, out, cp, sk)
    PROVE  InFlightNumbered
BY DEF Finish, InFlightNumbered

LEMMA PerformNumbered ==
    ASSUME NEW c, NEW cl, Perform(c, cl)
    PROVE  InFlightNumbered
<1>1. CASE aborted \/ timedout \/ errored \/ currentPayload = Null
           \/ (~cl /\ currentPayload = <<>>) \/ header # "message"
  <2>1. PICK out \in Outcomes : Finish(c, out, currentPayload, sink)
    BY <1>1 DEF Perform, NoData, Outcomes
  <2>2. QED
    BY <2>1, FinishNumbered
<1>2. CASE ~(aborted \/ timedout \/ errored \/ currentPayload = Null
             \/ (~cl /\ currentPayload = <<>>) \/ header # "message")
  BY <1>2 DEF Perform, NoData, NewChunk, InFlightNumbered
<1>3. QED
  BY <1>1, <1>2

LEMMA StartFlushNumbered ==
    ASSUME NEW c, NEW cl, StartFlush(c, cl)
    PROVE  InFlightNumbered
<1>1. CASE ready
  BY <1>1, PerformNumbered DEF StartFlush
<1>2. CASE ~ready
  BY <1>2 DEF StartFlush, InFlightNumbered
<1>3. QED
  BY <1>1, <1>2

(* A step that leaves the counter and the sent chunks alone keeps SeqInv   *)
(* if it leaves a chunk in flight only when numbered with the counter.     *)
LEMMA SeqFrame ==
    ASSUME SeqInv, UNCHANGED <<payloadSequenceNumber, acked>>, InFlightNumbered
    PROVE  SeqInv'
BY DEF SeqInv, AckedSequenceNumbers, ChunkNumbered, InFlightNumbered

(* Every step keeps the numbering of the sent chunks and of the chunk in   *)
(* flight.                                                                 *)
LEMMA SeqStep ==
    ASSUME TypeOK, SeqInv, [Next]_vars
    PROVE  SeqInv'
<1>1. CASE \/ \E len \in {0, 1}, valid \in BOOLEAN : Write(len, valid)
           \/ StopCaching
           \/ \E b \in BOOLEAN : SetCloseDestination(b)
           \/ \E o \in WriteAnswers : HeaderWriteDone(o)
           \/ \E o \in FlushAnswers : HeaderFlushDone(o)
           \/ \E o \in {"true"} \cup ({"timeout", "error"} \cap Faults) :
                 DestinationCloseDone(o)
           \/ UNCHANGED vars
  <2>1. UNCHANGED <<payloadSequenceNumber, acked, fl, chunk>>
    BY <1>1 DEF Write, StopCaching, SetCloseDestination, HeaderWriteDone,
                HeaderFlushDone, DestinationCloseDone, strm, hist, vars
  <2>2. InFlightNumbered
    BY <2>1 DEF SeqInv, ChunkNumbered, InFlightNumbered
  <2>3. QED
    BY <2>1, <2>2, SeqFrame
<1>2. CASE Flush
  <2>1. StartFlush(NewCall("flush", NoAlgo), closed)
        /\ UNCHANGED <<payloadSequenceNumber, acked>>
    BY <1>2 DEF Flush
  <2>2. QED
    BY <2>1, StartFlushNumbered, SeqFrame
<1>3. CASE Close
  <2>1. UNCHANGED <<payloadSequenceNumber, acked>>
    BY <1>3 DEF Close
  <2>2. CASE ~(aborted \/ timedout \/ errored \/ closed)
    <3>1. StartFlush(NewCall("close", NoAlgo), TRUE)
      BY <1>3, <2>2 DEF Close
    <3>2. QED
      BY <2>1, <3>1, StartFlushNumbered, SeqFrame
  <2>3. CASE aborted \/ timedout \/ errored \/ closed
    <3>1. UNCHANGED <<fl, chunk>>
      BY <1>3, <2>3 DEF Close
    <3>2. InFlightNumbered
      BY <2>1, <3>1 DEF SeqInv, ChunkNumbered, InFlightNumbered
    <3>3. QED
      BY <2>1, <3>2, SeqFrame
  <2>4. QED
    BY <2>2, <2>3
<1>4. ASSUME NEW a \in AlgoOrNone, SetCompressionAlgorithm(a)
      PROVE  SeqInv'
  <2>1. UNCHANGED <<payloadSequenceNumber, acked>>
    BY <1>4 DEF SetCompressionAlgorithm
  <2>2. CASE header # "error" /\ compressionAlgo # a
             /\ ~(a # NoAlgo /\ capabilities = NoCaps)
             /\ ~(a # NoAlgo /\ a \notin capabilities)
    <3>1. StartFlush(NewCall("setAlgo", a), closed)
      BY <1>4, <2>2 DEF SetCompressionAlgorithm
    <3>2. QED
      BY <2>1, <3>1, StartFlushNumbered, SeqFrame
  <2>3. CASE ~(header # "error" /\ compressionAlgo # a
               /\ ~(a # NoAlgo /\ capabilities = NoCaps)
               /\ ~(a # NoAlgo /\ a \notin capabilities))
    <3>1. UNCHANGED <<fl, chunk>>
      BY <1>4, <2>3 DEF SetCompressionAlgorithm
    <3>2. InFlightNumbered
      BY <2>1, <3>1 DEF SeqInv, ChunkNumbered, InFlightNumbered
    <3>3. QED
      BY <2>1, <3>2, SeqFrame
  <2>4. QED
    BY <2>2, <2>3
<1>5. CASE Abort
  <2>1. UNCHANGED <<payloadSequenceNumber, acked>>
    BY <1>5 DEF Abort, hist
  <2>2. InFlightNumbered
    <3>1. CASE fl = "poll"
      BY <1>5, <3>1, FinishNumbered DEF Abort
    <3>2. CASE fl # "poll"
      BY <1>5, <3>2 DEF Abort, SeqInv, ChunkNumbered, InFlightNumbered
    <3>3. QED
      BY <3>1, <3>2
  <2>3. QED
    BY <2>1, <2>2, SeqFrame
<1>6. CASE PollReady
  <2>1. Perform(call, closed) /\ UNCHANGED <<payloadSequenceNumber, acked>>
    BY <1>6 DEF PollReady, hist
  <2>2. QED
    BY <2>1, PerformNumbered, SeqFrame
<1>7. CASE PollTimeout \/ ChunkCreateFailed
  <2>1. PICK out : Finish(call, out, currentPayload, sink)
                   /\ UNCHANGED <<payloadSequenceNumber, acked>>
    BY <1>7 DEF PollTimeout, ChunkCreateFailed, hist
  <2>2. QED
    BY <2>1, FinishNumbered, SeqFrame
<1>8. CASE ChunkCreated
  <2>1. fl = "create" /\ fl' = "write"
        /\ UNCHANGED <<payloadSequenceNumber, acked, chunk>>
    BY <1>8 DEF ChunkCreated
  <2>2. QED
    BY <2>1, SeqFrame DEF SeqInv, ChunkNumbered, InFlightNumbered
<1>9. ASSUME NEW o \in WriteAnswers, PayloadWriteDone(o)
      PROVE  SeqInv'
  <2>1. fl = "write" /\ UNCHANGED <<payloadSequenceNumber, acked>>
    BY <1>9 DEF PayloadWriteDone
  <2>2. CASE \E out, sk : Finish(call, out, currentPayload, sk)
    BY <2>1, <2>2, FinishNumbered, SeqFrame
  <2>3. CASE ~\E out, sk : Finish(call, out, currentPayload, sk)
    <3>1. UNCHANGED chunk
      BY <1>9, <2>3 DEF PayloadWriteDone
    <3>2. QED
      BY <2>1, <3>1, SeqFrame DEF SeqInv, ChunkNumbered, InFlightNumbered
  <2>4. QED
    BY <2>2, <2>3
<1>10. ASSUME NEW o \in FlushAnswers, PayloadFlushDone(o)
       PROVE  SeqInv'
  <2>1. fl = "flush"
    BY <1>10 DEF PayloadFlushDone
  <2>2. CASE o = "true" /\ ~aborted
    <3>1. /\ payloadSequenceNumber' = payloadSequenceNumber + 1
          /\ acked' = Append(acked, chunk)
          /\ Finish(call, "true", ResetPayload, sink \ {"flush"})
      BY <1>10, <2>2 DEF PayloadFlushDone
    <3>2. fl' = "idle"
      BY <3>1 DEF Finish
    <3>3. chunk.seq = Len(acked) + 1
      BY <2>1 DEF SeqInv, ChunkNumbered, AckedSequenceNumbers
    <3>4. acked \in Seq(Chunk)
      BY DEF TypeOK
    <3>5. AckedSequenceNumbers'
      BY <3>1, <3>3, <3>4 DEF SeqInv, AckedSequenceNumbers
    <3>6. QED
      BY <3>2, <3>5 DEF SeqInv, ChunkNumbered
  <2>3. CASE ~(o = "true" /\ ~aborted)
    <3>1. PICK out : Finish(call, out, currentPayload, sink \ {"flush"})
      BY <1>10, <2>3 DEF PayloadFlushDone
    <3>2. UNCHANGED <<payloadSequenceNumber, acked>>
      BY <1>10, <2>3 DEF PayloadFlushDone
    <3>3. QED
      BY <3>1, <3>2, FinishNumbered, SeqFrame
  <2>4. QED
    BY <2>2, <2>3
<1>11. QED
  BY <1>1, <1>2, <1>3, <1>4, <1>5, <1>6, <1>7, <1>8, <1>9, <1>10
     DEF Next, Caller, Environment

(* The chunks flush() counts as sent are numbered 1, 2, 3, ... without a    *)
(* gap or repeat, and the counter is the next number, in every reachable    *)
(* state, whatever timeouts, retries and aborts came between them.          *)
THEOREM AckedSequenceNumbersCorrect == Spec => []AckedSequenceNumbers
<1>1. Init => SeqInv
  BY DEF Init, SeqInv, AckedSequenceNumbers, ChunkNumbered
<1>2. TypeOK /\ SeqInv /\ [Next]_vars => SeqInv'
  BY SeqStep
<1>3. SeqInv => AckedSequenceNumbers
  BY DEF SeqInv
<1>4. QED
  BY <1>1, <1>2, <1>3, TypeCorrect, PTL DEF Spec

=============================================================================
