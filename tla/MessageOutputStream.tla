------------------------- MODULE MessageOutputStream -------------------------
(***************************************************************************)
(* The MSL message output stream (MessageOutputStream.js, concatenated     *)
(* into src/src/main/javascript/entityauth/X509AuthenticationData.js).    *)
(*                                                                         *)
(* The constructor hands the stream to its caller at once and writes the   *)
(* header to the destination in the background; write, flush, close and    *)
(* setCompressionAlgorithm run against it, and abort may be called at any  *)
(* moment.  Every destination call (write, flush, close) is asynchronous   *)
(* and answers through one of result / timeout / error; the model keeps    *)
(* the outstanding destination calls in the set `sink` and lets the        *)
(* environment answer them in any order with any answer the `Faults`      *)
(* allow.  Application bytes are abstracted to write tokens; a chunk's     *)
(* data is the sequence of tokens it carries.                              *)
(***************************************************************************)
EXTENDS Naturals, Sequences, FiniteSets

CONSTANTS
    Algos,        \* compression algorithms (model values)
    Preference,   \* the algorithms in order of preference, most preferred first
    LocalCaps,    \* compression algorithms of ctx.getMessageCapabilities()
    RemoteCaps,   \* possible header.messageCapabilities (sets of algorithms, or NoCaps)
    HeaderKinds,  \* which headers the stream may be built with
    Faults,       \* the failures the destination and the crypto context may produce
    MaxOps,       \* bound on the caller's invocations of write/flush/close/setCompressionAlgorithm
    NoAlgo,       \* null compression algorithm
    NoCaps,       \* null message capabilities
    Null          \* the null current payload of a closed stream

AllFaults == {"short", "false", "timeout", "error", "crypto"}

ASSUME ConstAssumption ==
    /\ Preference \in Seq(Algos)
    /\ \A a \in Algos : \E i \in DOMAIN Preference : Preference[i] = a
    /\ LocalCaps \subseteq Algos
    /\ RemoteCaps \subseteq (SUBSET Algos) \cup {NoCaps}
    /\ RemoteCaps # {}
    /\ HeaderKinds \subseteq {"message", "handshake", "error"}
    /\ HeaderKinds # {}
    /\ Faults \subseteq AllFaults
    /\ MaxOps \in Nat
    /\ NoAlgo \notin Algos
    /\ \A S \in SUBSET Algos : NoCaps # S

VARIABLES
    header,                 \* "message", "handshake" or "error": the kind of _header
    capabilities,           \* _capabilities: negotiated algorithms, or NoCaps
    compressionAlgo,        \* _compressionAlgo
    payloadSequenceNumber,  \* _payloadSequenceNumber
    currentPayload,         \* _currentPayload: buffered tokens, or Null once closed
    closed,                 \* _closed
    closeDestination,       \* _closeDestination
    caching,                \* _caching
    payloads,               \* _payloads: the cached chunks
    ready,                  \* _ready
    readyQueue,             \* number of elements in _readyQueue
    aborted,                \* _aborted
    timedout,               \* _timedout
    errored,                \* _errored # null
    call,                   \* the caller's operation in progress, or NoCall
    fl,                     \* where the flush pipeline is: idle, poll, create, write, flush
    chunk,                  \* the chunk being created or sent by the flush
    sink,                   \* the destination calls whose callbacks are outstanding
    \* History variables, written by the steps above and read only by properties.
    accepted,               \* the tokens write() accepted, in order
    sent,                   \* every chunk handed to destination.write, in order
    acked,                  \* the chunks whose write and flush both reported success
    hdrOk,                  \* the header write was complete and its flush succeeded
    wrote,                  \* "full" or "short": what the destination did with the last chunk write
    failed,                 \* some destination call has reported a timeout or an error
    ret,                    \* the outcome of the last operation that completed
    nops                    \* number of invocations so far

strm == <<compressionAlgo, payloadSequenceNumber, currentPayload, closed,
          closeDestination, caching, payloads, ready, readyQueue,
          aborted, timedout, errored>>
\* The history variables other than ret.
hist == <<accepted, sent, acked, hdrOk, wrote, failed, nops>>
vars == <<header, capabilities, compressionAlgo, payloadSequenceNumber,
          currentPayload, closed, closeDestination, caching, payloads, ready,
          readyQueue, aborted, timedout, errored, call, fl, chunk, sink,
          accepted, sent, acked, hdrOk, wrote, failed, ret, nops>>

-----------------------------------------------------------------------------
AlgoOrNone == Algos \cup {NoAlgo}

\* A buffered write: its number, whether it had zero or some bytes, and the
\* compression algorithm in force when it was written.
Token == [id : 1..MaxOps, len : {0, 1}, algo : AlgoOrNone]

Chunk == [seq : Nat \ {0}, eom : BOOLEAN, algo : AlgoOrNone, data : Seq(Token)]

\* null, the value _currentPayload takes once close() has sent the end of
\* the message, is not a buffer.
ASSUME NullAssumption == Null \notin Seq(Token)

NoChunk == [seq |-> 1, eom |-> FALSE, algo |-> NoAlgo, data |-> <<>>]

CallNames == {"none", "write", "flush", "close", "setAlgo"}

Call == [name : CallNames, target : AlgoOrNone, afterAbort : BOOLEAN,
         afterFail : BOOLEAN, n : 0..MaxOps]

NoCall == [name |-> "none", target |-> NoAlgo, afterAbort |-> FALSE,
           afterFail |-> FALSE, n |-> 0]

Outcomes == {"none", "num", "true", "false", "timeout", "error"}

\* What the last completed operation returned, and what held when it began.
Ret == [name : CallNames, out : Outcomes, afterAbort : BOOLEAN,
        afterFail : BOOLEAN, n : 0..MaxOps]

SinkCalls == {"hdrWrite", "hdrFlush", "write", "flush", "close"}

\* MessageCapabilities$intersection: null when either side is null.
Intersection(local, remote) ==
    IF remote = NoCaps THEN NoCaps ELSE local \cap remote

\* MslConstants$CompressionAlgorithm$getPreferredAlgorithm.
Rank(a) == CHOOSE i \in DOMAIN Preference : Preference[i] = a
PreferredAlgorithm(S) ==
    IF S = {} THEN NoAlgo ELSE CHOOSE a \in S : \A b \in S : Rank(a) <= Rank(b)

\* The data of a sequence of chunks, concatenated.
Concat(s) ==
    LET f[i \in 0..Len(s)] == IF i = 0 THEN <<>> ELSE f[i - 1] \o s[i].data
    IN  f[Len(s)]

-----------------------------------------------------------------------------
(* The constructor: negotiate compression and start writing the header.    *)
Init ==
    /\ header \in HeaderKinds
    \* An error header carries no message capabilities.
    /\ \E remote \in IF header = "error" THEN {NoCaps} ELSE RemoteCaps :
          capabilities = Intersection(LocalCaps, remote)
    /\ compressionAlgo = IF capabilities = NoCaps THEN NoAlgo
                         ELSE PreferredAlgorithm(capabilities)
    /\ payloadSequenceNumber = 1
    /\ currentPayload = <<>>
    /\ closed = FALSE
    /\ closeDestination = FALSE
    /\ caching = TRUE
    /\ payloads = <<>>
    /\ ready = FALSE
    /\ readyQueue = 0
    /\ aborted = FALSE
    /\ timedout = FALSE
    /\ errored = FALSE
    /\ call = NoCall
    /\ fl = "idle"
    /\ chunk = NoChunk
    /\ sink = {"hdrWrite"}
    /\ accepted = <<>>
    /\ sent = <<>>
    /\ acked = <<>>
    /\ hdrOk = FALSE
    /\ wrote = "full"
    /\ failed = FALSE
    /\ ret = [name |-> "none", out |-> "none", afterAbort |-> FALSE,
              afterFail |-> FALSE, n |-> 0]
    /\ nops = 0

-----------------------------------------------------------------------------
(* Completion of an operation c with outcome out: its callback fires.      *)
Complete(c, out) ==
    /\ call' = NoCall
    /\ ret' = [name |-> c.name, out |-> out, afterAbort |-> c.afterAbort,
               afterFail |-> c.afterFail, n |-> c.n]

\* A new invocation by the caller.
NewCall(name, target) ==
    [name |-> name, target |-> target, afterAbort |-> aborted,
     afterFail |-> failed, n |-> nops + 1]

\* close()'s flush callback: the current payload is dropped iff the final
\* flush succeeded.
\* Mutant: the payload dropped without the success check.
ClosedPayloadUnchecked(out, cp) == Null
ClosedPayload(out, cp) == IF out = "true" THEN Null ELSE cp

\* setCompressionAlgorithm()'s flush callback: the new algorithm is taken
\* iff the flush succeeded.
\* Mutant: the algorithm switched even when the flush failed.
SwitchedAlgoUnchecked(c, out) == c.target
SwitchedAlgo(c, out) == IF out = "true" THEN c.target ELSE compressionAlgo

\* close()'s flush callback calls this._destination.close(timeout, callback).
\* Mutant: destination.close() called without passing close()'s callback on.
DestinationCloseNoCallback(sk) == sk
DestinationClose(sk) == sk \cup {"close"}

(* The callback that flush() was given fires with out.  cp is the current  *)
(* payload as the flush left it and sk the outstanding destination calls.  *)
(* For close() and setCompressionAlgorithm() this is their continuation.   *)
(* Sets call, fl, chunk, currentPayload, compressionAlgo, sink and ret.    *)
Finish(c, out, cp, sk) ==
    /\ fl' = "idle"
    /\ chunk' = NoChunk
    /\ \/ /\ c.name = "flush"
          /\ Complete(c, out)
          /\ currentPayload' = cp
          /\ UNCHANGED compressionAlgo
          /\ sink' = sk
       \/ /\ c.name = "close"
          /\ out \in {"true", "false"}
          /\ currentPayload' = ClosedPayload(out, cp)
          /\ UNCHANGED compressionAlgo
          /\ IF closeDestination
                THEN /\ sink' = DestinationClose(sk)
                     /\ call' = c
                     /\ UNCHANGED ret
                ELSE /\ sink' = sk
                     /\ Complete(c, out)
       \/ /\ c.name = "close"
          /\ out \in {"timeout", "error"}
          /\ Complete(c, out)
          /\ currentPayload' = cp
          /\ UNCHANGED compressionAlgo
          /\ sink' = sk
       \/ /\ c.name = "setAlgo"
          /\ currentPayload' = cp
          /\ sink' = sk
          /\ compressionAlgo' = SwitchedAlgo(c, out)
          \* flush() returned false: MslIoException("flush() aborted").
          /\ Complete(c, IF out = "false" THEN "error" ELSE out)

\* The chunk PayloadChunk$create is asked for.
\* Mutant: the sequence number pre-incremented (++n instead of n).
NewChunkPreIncrement(cl) ==
    [seq |-> payloadSequenceNumber + 1, eom |-> cl, algo |-> compressionAlgo,
     data |-> currentPayload]
NewChunk(cl) ==
    [seq |-> payloadSequenceNumber, eom |-> cl, algo |-> compressionAlgo,
     data |-> currentPayload]

\* perform() has nothing to send: the stream is already closed (payload
\* null), or it is open and nothing is buffered.
\* Mutant: only the closed case is checked, so an empty buffer is sent.
NoDataNullOnly(cl) == currentPayload = Null
NoData(cl) ==
    \/ currentPayload = Null
    \/ ~cl /\ currentPayload = <<>>

\* Mutant: perform() without the check of a header timeout.
PerformNoTimeoutCheck(c, cl) ==
    CASE aborted  -> Finish(c, "false", currentPayload, sink)
      [] errored  -> Finish(c, "error", currentPayload, sink)
      [] NoData(cl) -> Finish(c, "true", currentPayload, sink)
      [] header # "message" -> Finish(c, "true", currentPayload, sink)
      [] OTHER -> /\ fl' = "create"
                  /\ chunk' = NewChunk(cl)
                  /\ call' = c
                  /\ UNCHANGED <<currentPayload, compressionAlgo, sink, ret>>

(* flush()'s perform(): the checks, then PayloadChunk$create.  cl is       *)
(* _closed as perform reads it.                                            *)
Perform(c, cl) ==
    CASE aborted  -> Finish(c, "false", currentPayload, sink)
      [] timedout -> Finish(c, "timeout", currentPayload, sink)
      [] errored  -> Finish(c, "error", currentPayload, sink)
      [] NoData(cl) -> Finish(c, "true", currentPayload, sink)
      [] header # "message" -> Finish(c, "true", currentPayload, sink)
      [] OTHER -> /\ fl' = "create"
                  /\ chunk' = NewChunk(cl)
                  /\ call' = c
                  /\ UNCHANGED <<currentPayload, compressionAlgo, sink, ret>>

\* flush(): wait on the ready queue unless the header has been handled.
StartFlush(c, cl) ==
    IF ready
       THEN Perform(c, cl)
       ELSE /\ call' = c
            /\ fl' = "poll"
            /\ UNCHANGED <<chunk, currentPayload, compressionAlgo, sink, ret>>

\* The header callbacks' ready(): set _ready and put an element in the queue.
MarkReady ==
    /\ ready' = TRUE
    /\ readyQueue' = readyQueue + 1

-----------------------------------------------------------------------------
(* The caller's operations.                                                *)

CanInvoke == call = NoCall /\ nops < MaxOps

\* write(data, off, len): valid says whether off/len lie within data.
Write(len, valid) ==
    LET c   == NewCall("write", NoAlgo)
        tok == [id |-> nops + 1, len |-> len, algo |-> compressionAlgo]
        Reject(out) == Complete(c, out) /\ UNCHANGED <<currentPayload, accepted>>
    IN
    /\ CanInvoke
    /\ nops' = nops + 1
    /\ CASE aborted  -> Reject("false")
         [] timedout -> Reject("timeout")
         [] errored  -> Reject("error")
         [] closed   -> Reject("error")
         [] ~valid   -> Reject("error")
         [] header # "message" -> Reject("error")
         [] OTHER ->
              /\ currentPayload' = Append(currentPayload, tok)
              /\ accepted' = Append(accepted, tok)
              /\ Complete(c, "num")
    /\ UNCHANGED <<header, capabilities, compressionAlgo, payloadSequenceNumber,
                   closed, closeDestination, caching, payloads, ready, readyQueue,
                   aborted, timedout, errored, fl, chunk, sink,
                   sent, acked, hdrOk, wrote, failed>>

Flush ==
    /\ CanInvoke
    /\ nops' = nops + 1
    /\ StartFlush(NewCall("flush", NoAlgo), closed)
    /\ UNCHANGED <<header, capabilities, payloadSequenceNumber, closed,
                   closeDestination, caching, payloads, ready, readyQueue,
                   aborted, timedout, errored,
                   accepted, sent, acked, hdrOk, wrote, failed>>

Close ==
    LET c == NewCall("close", NoAlgo)
        Reply(out) == /\ Complete(c, out)
                      /\ UNCHANGED <<closed, fl, chunk, currentPayload,
                                     compressionAlgo, sink>>
    IN
    /\ CanInvoke
    /\ nops' = nops + 1
    /\ CASE aborted  -> Reply("false")
         [] timedout -> Reply("timeout")
         [] errored  -> Reply("error")
         [] closed   -> Reply("true")
         [] OTHER    -> closed' = TRUE /\ StartFlush(c, TRUE)
    /\ UNCHANGED <<header, capabilities, payloadSequenceNumber,
                   closeDestination, caching, payloads, ready, readyQueue,
                   aborted, timedout, errored,
                   accepted, sent, acked, hdrOk, wrote, failed>>

SetCompressionAlgorithm(a) ==
    LET c == NewCall("setAlgo", a)
        Reply(out) == /\ Complete(c, out)
                      /\ UNCHANGED <<fl, chunk, currentPayload, compressionAlgo, sink>>
    IN
    /\ CanInvoke
    /\ nops' = nops + 1
    /\ CASE header = "error" -> Reply("error")
         [] compressionAlgo = a -> Reply("true")
         [] a # NoAlgo /\ capabilities = NoCaps -> Reply("false")
         [] a # NoAlgo /\ a \notin capabilities -> Reply("false")
         [] OTHER -> StartFlush(c, closed)
    /\ UNCHANGED <<header, capabilities, payloadSequenceNumber, closed,
                   closeDestination, caching, payloads, ready, readyQueue,
                   aborted, timedout, errored,
                   accepted, sent, acked, hdrOk, wrote, failed>>

StopCaching ==
    /\ caching' = FALSE
    /\ payloads' = <<>>
    /\ UNCHANGED <<header, capabilities, compressionAlgo, payloadSequenceNumber,
                   currentPayload, closed, closeDestination, ready, readyQueue,
                   aborted, timedout, errored, call, fl, chunk, sink, ret, hist>>

SetCloseDestination(b) ==
    /\ closeDestination' = b
    /\ UNCHANGED <<header, capabilities, compressionAlgo, payloadSequenceNumber,
                   currentPayload, closed, caching, payloads, ready, readyQueue,
                   aborted, timedout, errored, call, fl, chunk, sink, ret, hist>>

\* abort(): the flag, destination.abort(), and cancelAll() on the ready
\* queue, which answers a waiting poll with undefined.
Abort ==
    /\ aborted' = TRUE
    /\ IF fl = "poll"
          THEN Finish(call, "false", currentPayload, sink)
          ELSE UNCHANGED <<call, fl, chunk, currentPayload, compressionAlgo, sink, ret>>
    /\ UNCHANGED <<header, capabilities, payloadSequenceNumber, closed,
                   closeDestination, caching, payloads, ready, readyQueue,
                   timedout, errored, hist>>

-----------------------------------------------------------------------------
(* The environment: the destination's and the crypto context's callbacks,  *)
(* and the ready queue.                                                    *)

\* Answers the destination may give to a write / a flush.
WriteAnswers == {"full"} \cup ({"short", "timeout", "error"} \cap Faults)
FlushAnswers == {"true"} \cup ({"false", "timeout", "error"} \cap Faults)

\* Callbacks of the header write.
HeaderWriteDone(o) ==
    /\ "hdrWrite" \in sink
    /\ \/ /\ o \in {"full", "short"}
          /\ aborted
          /\ sink' = sink \ {"hdrWrite"}
          /\ MarkReady
          /\ UNCHANGED <<timedout, errored, failed>>
       \/ /\ o = "short"
          /\ ~aborted
          /\ sink' = sink \ {"hdrWrite"}
          /\ timedout' = TRUE
          /\ MarkReady
          /\ failed' = TRUE
          /\ UNCHANGED errored
       \/ /\ o = "full"
          /\ ~aborted
          /\ sink' = (sink \ {"hdrWrite"}) \cup {"hdrFlush"}
          /\ UNCHANGED <<ready, readyQueue, timedout, errored, failed>>
       \/ /\ o = "timeout"
          /\ sink' = sink \ {"hdrWrite"}
          /\ timedout' = TRUE
          /\ MarkReady
          /\ failed' = TRUE
          /\ UNCHANGED errored
       \/ /\ o = "error"
          /\ sink' = sink \ {"hdrWrite"}
          /\ errored' = TRUE
          /\ MarkReady
          /\ failed' = TRUE
          /\ UNCHANGED timedout
    /\ UNCHANGED <<header, capabilities, compressionAlgo, payloadSequenceNumber,
                   currentPayload, closed, closeDestination, caching, payloads,
                   aborted, call, fl, chunk,
                   accepted, sent, acked, hdrOk, wrote, ret, nops>>

\* Callbacks of the header flush.
HeaderFlushDone(o) ==
    /\ "hdrFlush" \in sink
    /\ sink' = sink \ {"hdrFlush"}
    /\ MarkReady
    /\ \/ /\ o \in {"true", "false"}
          /\ hdrOk' = (o = "true")
          /\ IF aborted THEN UNCHANGED timedout ELSE timedout' = (o = "false")
          /\ failed' = (failed \/ (~aborted /\ o = "false"))
          /\ UNCHANGED errored
       \/ /\ o = "timeout"
          /\ timedout' = TRUE
          /\ failed' = TRUE
          /\ UNCHANGED <<errored, hdrOk>>
       \/ /\ o = "error"
          /\ errored' = TRUE
          /\ failed' = TRUE
          /\ UNCHANGED <<timedout, hdrOk>>
    /\ UNCHANGED <<header, capabilities, compressionAlgo, payloadSequenceNumber,
                   currentPayload, closed, closeDestination, caching, payloads,
                   aborted, call, fl, chunk,
                   accepted, sent, acked, wrote, ret, nops>>

\* Mutant: the poll proceeds without an element in the queue.
PollReadyNoElement ==
    /\ fl = "poll"
    /\ readyQueue' = readyQueue - 1
    /\ Perform(call, closed)
    /\ UNCHANGED <<header, capabilities, payloadSequenceNumber, closed,
                   closeDestination, caching, payloads, ready,
                   aborted, timedout, errored, hist>>

\* The ready queue hands its element to the waiting poll: perform().
PollReady ==
    /\ fl = "poll"
    /\ readyQueue > 0
    /\ readyQueue' = readyQueue - 1
    /\ Perform(call, closed)
    /\ UNCHANGED <<header, capabilities, payloadSequenceNumber, closed,
                   closeDestination, caching, payloads, ready,
                   aborted, timedout, errored, hist>>

\* The poll's timeout fires before the header has been handled.
PollTimeout ==
    /\ fl = "poll"
    /\ readyQueue = 0
    /\ Finish(call, "timeout", currentPayload, sink)
    /\ UNCHANGED <<header, capabilities, payloadSequenceNumber, closed,
                   closeDestination, caching, payloads, ready, readyQueue,
                   aborted, timedout, errored, hist>>

\* PayloadChunk$create answers: cache the chunk and write it, or an error.
ChunkCreated ==
    /\ fl = "create"
    /\ payloads' = IF caching THEN Append(payloads, chunk) ELSE payloads
    /\ sent' = Append(sent, chunk)
    /\ sink' = sink \cup {"write"}
    /\ fl' = "write"
    /\ UNCHANGED <<header, capabilities, compressionAlgo, payloadSequenceNumber,
                   currentPayload, closed, closeDestination, caching, ready,
                   readyQueue, aborted, timedout, errored, call, chunk,
                   accepted, acked, hdrOk, wrote, failed, ret, nops>>

ChunkCreateFailed ==
    /\ fl = "create"
    /\ "crypto" \in Faults
    /\ Finish(call, "error", currentPayload, sink)
    /\ UNCHANGED <<header, capabilities, payloadSequenceNumber, closed,
                   closeDestination, caching, payloads, ready, readyQueue,
                   aborted, timedout, errored, hist>>

\* Callbacks of the chunk write.
PayloadWriteDone(o) ==
    /\ "write" \in sink
    /\ fl = "write"
    /\ \/ /\ o \in {"full", "short"}
          /\ wrote' = o
          /\ \/ /\ aborted
                /\ Finish(call, "false", currentPayload, sink \ {"write"})
             \* The short-write check compares numWritten with chunk.length;
             \* a PayloadChunk has no length property, so a short write is
             \* taken for a complete one and the flush follows.
             \/ /\ ~aborted
                /\ sink' = (sink \ {"write"}) \cup {"flush"}
                /\ fl' = "flush"
                /\ UNCHANGED <<call, chunk, currentPayload, compressionAlgo, ret>>
          /\ UNCHANGED failed
       \/ /\ o \in {"timeout", "error"}
          /\ Finish(call, o, currentPayload, sink \ {"write"})
          /\ failed' = TRUE
          /\ UNCHANGED wrote
    /\ UNCHANGED <<header, capabilities, payloadSequenceNumber, closed,
                   closeDestination, caching, payloads, ready, readyQueue,
                   aborted, timedout, errored, accepted, sent, acked, hdrOk, nops>>

\* After a chunk is sent the buffer is emptied for reuse, or set to null
\* once closed so that nothing more can be sent.
\* Mutant: the buffer emptied for reuse even when closed.
ResetPayloadAlwaysEmpty == <<>>
ResetPayload == IF closed THEN Null ELSE <<>>

\* Mutant: the flush's result callback without its check of _aborted.
PayloadFlushDoneUnaborted(o) ==
    /\ "flush" \in sink
    /\ fl = "flush"
    /\ \/ /\ o \in {"true", "false"}
          /\ aborted
          /\ Finish(call, "false", currentPayload, sink \ {"flush"})
          /\ UNCHANGED <<payloadSequenceNumber, acked, failed>>
       \/ /\ o = "true"
          /\ payloadSequenceNumber' = payloadSequenceNumber + 1
          /\ acked' = Append(acked, chunk)
          /\ Finish(call, "true", ResetPayload, sink \ {"flush"})
          /\ UNCHANGED failed
       \/ /\ o = "false"
          /\ Finish(call, "timeout", currentPayload, sink \ {"flush"})
          /\ failed' = TRUE
          /\ UNCHANGED <<payloadSequenceNumber, acked>>
       \/ /\ o \in {"timeout", "error"}
          /\ Finish(call, o, currentPayload, sink \ {"flush"})
          /\ failed' = TRUE
          /\ UNCHANGED <<payloadSequenceNumber, acked>>
    /\ UNCHANGED <<header, capabilities, closed, closeDestination, caching,
                   payloads, ready, readyQueue, aborted, timedout, errored,
                   accepted, sent, hdrOk, wrote, nops>>

\* Callbacks of the flush that follows the chunk write.
PayloadFlushDone(o) ==
    /\ "flush" \in sink
    /\ fl = "flush"
    /\ \/ /\ o \in {"true", "false"}
          /\ aborted
          /\ Finish(call, "false", currentPayload, sink \ {"flush"})
          /\ UNCHANGED <<payloadSequenceNumber, acked, failed>>
       \/ /\ o = "true"
          /\ ~aborted
          /\ payloadSequenceNumber' = payloadSequenceNumber + 1
          /\ acked' = Append(acked, chunk)
          /\ Finish(call, "true", ResetPayload, sink \ {"flush"})
          /\ UNCHANGED failed
       \/ /\ o = "false"
          /\ ~aborted
          /\ Finish(call, "timeout", currentPayload, sink \ {"flush"})
          /\ failed' = TRUE
          /\ UNCHANGED <<payloadSequenceNumber, acked>>
       \/ /\ o \in {"timeout", "error"}
          /\ Finish(call, o, currentPayload, sink \ {"flush"})
          /\ failed' = TRUE
          /\ UNCHANGED <<payloadSequenceNumber, acked>>
    /\ UNCHANGED <<header, capabilities, closed, closeDestination, caching,
                   payloads, ready, readyQueue, aborted, timedout, errored,
                   accepted, sent, hdrOk, wrote, nops>>

\* Callbacks of destination.close(): they go straight to close()'s caller.
DestinationCloseDone(o) ==
    /\ "close" \in sink
    /\ call.name = "close"
    /\ sink' = sink \ {"close"}
    /\ Complete(call, o)
    /\ UNCHANGED <<header, capabilities, strm, fl, chunk,
                   accepted, sent, acked, hdrOk, wrote, nops>>
    /\ failed' = (failed \/ o # "true")

-----------------------------------------------------------------------------
Caller ==
    \/ \E len \in {0, 1}, valid \in BOOLEAN : Write(len, valid)
    \/ Flush
    \/ Close
    \/ \E a \in AlgoOrNone : SetCompressionAlgorithm(a)
    \/ StopCaching
    \/ \E b \in BOOLEAN : SetCloseDestination(b)
    \/ Abort

Environment ==
    \/ \E o \in WriteAnswers : HeaderWriteDone(o)
    \/ \E o \in FlushAnswers : HeaderFlushDone(o)
    \/ PollReady
    \/ PollTimeout
    \/ ChunkCreated
    \/ ChunkCreateFailed
    \/ \E o \in WriteAnswers : PayloadWriteDone(o)
    \/ \E o \in FlushAnswers : PayloadFlushDone(o)
    \/ \E o \in {"true"} \cup ({"timeout", "error"} \cap Faults) :
          DestinationCloseDone(o)

Next == Caller \/ Environment

Spec == Init /\ [][Next]_vars

\* Every destination call is eventually answered, a waiting poll eventually
\* gets its element or its timeout, and PayloadChunk$create eventually answers.
Fairness ==
    /\ WF_vars(\E o \in WriteAnswers : HeaderWriteDone(o))
    /\ WF_vars(\E o \in FlushAnswers : HeaderFlushDone(o))
    /\ WF_vars(PollReady \/ PollTimeout)
    /\ WF_vars(ChunkCreated \/ ChunkCreateFailed)
    /\ WF_vars(\E o \in WriteAnswers : PayloadWriteDone(o))
    /\ WF_vars(\E o \in FlushAnswers : PayloadFlushDone(o))
    /\ WF_vars(\E o \in {"true"} \cup ({"timeout", "error"} \cap Faults) :
                  DestinationCloseDone(o))

FairSpec == Spec /\ Fairness

-----------------------------------------------------------------------------
(* Properties.                                                             *)

TypeOK ==
    /\ header \in {"message", "handshake", "error"}
    /\ capabilities \in (SUBSET Algos) \cup {NoCaps}
    /\ compressionAlgo \in AlgoOrNone
    /\ payloadSequenceNumber \in Nat \ {0}
    /\ currentPayload \in Seq(Token) \cup {Null}
    /\ closed \in BOOLEAN
    /\ closeDestination \in BOOLEAN
    /\ caching \in BOOLEAN
    /\ payloads \in Seq(Chunk)
    /\ ready \in BOOLEAN
    /\ readyQueue \in Nat
    /\ aborted \in BOOLEAN
    /\ timedout \in BOOLEAN
    /\ errored \in BOOLEAN
    /\ call \in Call
    /\ fl \in {"idle", "poll", "create", "write", "flush"}
    /\ chunk \in Chunk
    /\ sink \subseteq SinkCalls
    /\ accepted \in Seq(Token)
    /\ sent \in Seq(Chunk)
    /\ acked \in Seq(Chunk)
    /\ hdrOk \in BOOLEAN
    /\ wrote \in {"full", "short"}
    /\ failed \in BOOLEAN
    /\ ret \in Ret
    /\ nops \in 0..MaxOps

\* The chunks flush() counts as sent (write and flush both succeeded, line
\* 553) are numbered 1, 2, 3, ... with no gap and no repeat, whatever
\* timeouts, retries, aborts and compression changes came between them, and
\* the next chunk gets the next number.
AckedSequenceNumbers ==
    /\ \A i \in 1..Len(acked) : acked[i].seq = i
    /\ payloadSequenceNumber = Len(acked) + 1

\* No accepted byte is lost or duplicated: the data of the chunks counted
\* as sent, followed by what is still buffered, is exactly what write()
\* accepted, in order (flush resets the buffer only after success, close
\* drops it only once the end chunk went out).
AckedDataIntact ==
    Concat(acked) \o (IF currentPayload = Null THEN <<>> ELSE currentPayload)
        = accepted

\* Only the last chunk counted as sent may carry the end-of-message flag,
\* and once it is counted no chunk at all is written after it.
EndOfMessageLast ==
    /\ \A i \in 1..Len(acked) - 1 : ~acked[i].eom
    /\ (Len(acked) > 0 /\ acked[Len(acked)].eom)
          => /\ sent[Len(sent)] = acked[Len(acked)]
             /\ fl \in {"idle", "poll"}

\* The last chunk counted as sent carries the end-of-message flag.
Ended == Len(acked) > 0 /\ acked[Len(acked)].eom

\* abort() interrupts a flush at whatever stage it has reached (the poll,
\* PayloadChunk$create, the chunk's write or its flush): the continuation
\* that ends it reports no success and has none of a success's effects:
\* no chunk is counted as sent, the algorithm is not switched and close()
\* does not drop the buffer (lines 469-476, 487, 532, 540-545).
AbortedFlushHasNoEffect ==
    [][aborted' /\ fl # "idle" /\ fl' = "idle" =>
         /\ UNCHANGED <<acked, compressionAlgo, currentPayload>>
         /\ call' = NoCall => ret'.out # "true"]_vars

\* Every chunk put on the wire is compressed with the algorithm that was in
\* force when each of its bytes was written: setCompressionAlgorithm flushes
\* the old data before it switches, and keeps the old algorithm if that
\* flush does not succeed.
ChunkAlgoAgreement ==
    \A i \in 1..Len(sent) :
        \A j \in 1..Len(sent[i].data) : sent[i].data[j].algo = sent[i].algo

\* A payload chunk reaches the destination only for a data-bearing message
\* header, and only after that header was written completely and flushed:
\* flush() waits for the header and re-checks the header's failure flags.
PayloadOnlyAfterHeader ==
    Len(sent) > 0 => header = "message" /\ hdrOk

\* Spec section 7: a timeout or error of the destination is recorded and
\* replayed to every later write, flush and close (unless aborted).
FailureReplayed ==
    (ret.afterFail /\ ~ret.afterAbort /\ ret.name \in {"write", "flush", "close"})
        => ret.out \in {"timeout", "error"}

\* Spec sections 4.4 and 5: a write, flush or close invoked after abort()
\* reports the benign not-completed result, never a timeout or an error.
AbortIsBenign ==
    (ret.afterAbort /\ ret.name \in {"write", "flush", "close"})
        => ret.out \notin {"timeout", "error"}

\* Spec section 8: when close() reports success on a data-bearing message,
\* the end-of-message chunk has been sent.
CloseMeansEndOfMessage ==
    (ret.name = "close" /\ ret.out = "true" /\ header = "message")
        => \E i \in 1..Len(acked) : acked[i].eom

\* A chunk that flush() counts as sent was written completely to the
\* destination (the header's write gets this check at line 242).
AckedChunksComplete ==
    [][Len(acked') > Len(acked) => wrote' = "full"]_vars

\* Class comment, lines 139-140: the end of the message is indicated by a
\* payload with no data, so every chunk without the end flag carries data.
EmptyChunkOnlyAtEnd ==
    \A i \in 1..Len(sent) :
        ~sent[i].eom => \E j \in 1..Len(sent[i].data) : sent[i].data[j].len > 0

\* getPayloads() returns "an ordered list of the payloads sent so far"
\* (line 375), kept for automatic re-sending (class comment, 149-151), and
\* spec section 3 numbers a stream's chunks 1, 2, 3, ...: what the cache
\* would re-send is that numbered sequence, one chunk per number.
CachedPayloadsNumbered ==
    \A i \in 1..Len(payloads) : payloads[i].seq = i

\* The stream implements its abstract specification MessageStream: the
\* tokens write() accepted are the data written, the chunks whose write and
\* flush succeeded are the chunks that went out, and _compressionAlgo is the
\* algorithm in force.  Every other step is a stutter.
Stream == INSTANCE MessageStream
              WITH Items <- Token, Algorithms <- AlgoOrNone,
                   written <- accepted, out <- acked, algo <- compressionAlgo

\* Through every retry, abort, failure and algorithm change, the chunks
\* counted as sent are numbered 1, 2, 3, ..., each carries exactly the data
\* written since the one before under the algorithm it names, only the
\* last is an end chunk and nothing is written after it.
ImplementsMessageStream == Stream!Spec

\* Every operation the caller starts eventually completes.
OperationsComplete ==
    [](call.name # "none" => <>(call.name = "none"))

=============================================================================
