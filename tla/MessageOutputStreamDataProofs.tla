-------------------- MODULE MessageOutputStreamDataProofs --------------------
(***************************************************************************)
(* Proof that no accepted byte is lost or duplicated (AckedDataIntact),    *)
(* for every value of the constants.                                       *)
(*                                                                         *)
(* Concat is a recursive function over the indices of a chunk sequence.   *)
(* Its defining equation is shown to have a solution, and any two         *)
(* solutions for sequences with a common prefix to agree on that prefix;   *)
(* both by taking the least index where the claim fails, which exists      *)
(* because < is well founded on Nat.  From these, Concat(<<>>) = <<>> and  *)
(* Concat(Append(s, c)) = Concat(s) \o c.data.                             *)
(*                                                                         *)
(* The inductive invariant DataInv adds that the chunk in flight holds the *)
(* whole buffer, that a flush in progress keeps its operation pending (so  *)
(* write() cannot append under it), and that destination.close() is       *)
(* outstanding only after close()'s flush finished.                        *)
(***************************************************************************)
EXTENDS MessageOutputStreamAlgoProofs

\* f solves the recursive definition of Concat for the chunks s, stated
\* point by point.
IsConcatFcn(f, s) ==
    /\ DOMAIN f = 0..Len(s)
    /\ \A i \in 0..Len(s) :
          f[i] = IF i = 0 THEN <<>> ELSE f[i - 1] \o s[i].data

\* The function Concat's LET defines.
ConcatFcn(s) ==
    CHOOSE f : f = [i \in 0..Len(s) |-> IF i = 0 THEN <<>> ELSE f[i - 1] \o s[i].data]

\* What is buffered, as data: a null buffer holds none.
Buffered(p) == IF p = Null THEN <<>> ELSE p

\* The chunk being made, written or flushed holds exactly the buffer.
ChunkHoldsBuffer ==
    fl \in {"create", "write", "flush"} => chunk.data = currentPayload

\* While flush() is under way, the operation that started it is pending,
\* so the caller can start nothing else (in particular no write()).
FlushHasCall == fl # "idle" => call.name # "none"

\* close()'s destination.close() is outstanding only after its flush
\* finished, with close() pending.
DestinationCloseLast == "close" \in sink => fl = "idle" /\ call.name = "close"

DataInv ==
    /\ AckedDataIntact
    /\ ChunkHoldsBuffer
    /\ FlushHasCall
    /\ DestinationCloseLast

-----------------------------------------------------------------------------
\* A non-empty set of natural numbers has a least element.
LEMMA LeastNat ==
    ASSUME NEW T \in SUBSET Nat, T # {}
    PROVE  \E m \in T : \A y \in T : m <= y
<1>1. PICK m \in T : \A y \in T : ~(<<y, m>> \in OpToRel(<, Nat))
  BY NatLessThanWellFounded, WFMin
<1>2. \A y \in T : m <= y
  <2> TAKE y \in T
  <2>1. y \in Nat /\ m \in Nat
    OBVIOUS
  <2>2. y < m => <<y, m>> \in OpToRel(<, Nat)
    BY <2>1 DEF OpToRel
  <2>3. ~(y < m)
    BY <1>1, <2>2
  <2>4. QED
    BY <2>1, <2>3
<1>3. QED
  BY <1>2

\* The function that Concat's LET defines is a solution if one exists.
LEMMA ConcatFcnChoose ==
    ASSUME NEW s, NEW g, g \in [0..Len(s) -> Seq(Token)], IsConcatFcn(g, s)
    PROVE  IsConcatFcn(ConcatFcn(s), s)
<1>1. g = [i \in 0..Len(s) |-> IF i = 0 THEN <<>> ELSE g[i - 1] \o s[i].data]
  BY DEF IsConcatFcn
<1>2. ConcatFcn(s) = [i \in 0..Len(s) |-> IF i = 0 THEN <<>>
                                          ELSE ConcatFcn(s)[i - 1] \o s[i].data]
  BY <1>1 DEF ConcatFcn
<1>3. QED
  BY <1>2 DEF IsConcatFcn

LEMMA ConcatFcnIs ==
    ASSUME NEW s
    PROVE  Concat(s) = ConcatFcn(s)[Len(s)]
BY DEF Concat, ConcatFcn

\* Two solutions agree on the chunks of s, when t begins with them.
LEMMA ConcatFcnAgree ==
    ASSUME NEW s \in Seq(Chunk), NEW t \in Seq(Chunk), Len(s) <= Len(t),
           \A i \in 1..Len(s) : s[i] = t[i],
           NEW f, NEW g, IsConcatFcn(f, s), IsConcatFcn(g, t)
    PROVE  \A i \in 0..Len(s) : f[i] = g[i]
<1> DEFINE n == Len(s)
<1> DEFINE T == {i \in 0..n : f[i] # g[i]}
<1> SUFFICES ASSUME T # {} PROVE FALSE
  OBVIOUS
<1>0. T \in SUBSET Nat
  OBVIOUS
<1>1. PICK m \in T : \A y \in T : m <= y
  BY <1>0, LeastNat
<1>2. m # 0
  <2>1. 0 \in 0..Len(s) /\ 0 \in 0..Len(t)
    OBVIOUS
  <2>2. f[0] = <<>> /\ g[0] = <<>>
    BY <2>1, Zenon DEF IsConcatFcn
  <2>3. QED
    BY <1>1, <2>2
<1>3. m - 1 \in 0..n /\ m - 1 \notin T
  BY <1>1, <1>2
<1>4. m \in 0..Len(s) /\ m \in 0..Len(t) /\ m # 0 /\ s[m] = t[m]
  BY <1>1, <1>2
<1>5. f[m] = f[m - 1] \o s[m].data /\ g[m] = g[m - 1] \o t[m].data
  BY <1>4, Zenon DEF IsConcatFcn
<1>6. QED
  BY <1>1, <1>3, <1>4, <1>5

\* The defining equation has a solution, whose values are token sequences.
LEMMA ConcatFcnExists ==
    ASSUME NEW s \in Seq(Chunk)
    PROVE  \E f : IsConcatFcn(f, s) /\ f \in [0..Len(s) -> Seq(Token)]
<1> DEFINE Sol(g, n) == /\ g \in [0..n -> Seq(Token)]
                        /\ \A i \in 0..n :
                              g[i] = IF i = 0 THEN <<>> ELSE g[i - 1] \o s[i].data
           HasSol(n) == \E g : Sol(g, n)
           T == {n \in 0..Len(s) : ~HasSol(n)}
<1>1. \A n \in 0..Len(s) : HasSol(n)
  <2> SUFFICES ASSUME T # {} PROVE FALSE
    OBVIOUS
  <2>0. T \in SUBSET Nat
    OBVIOUS
  <2>1. PICK m \in T : \A y \in T : m <= y
    BY <2>0, LeastNat
  <2>2. m \in 0..Len(s) /\ ~HasSol(m)
    BY <2>1
  <2>3. CASE m = 0
    <3> DEFINE h == [i \in 0..0 |-> <<>>]
    <3>1. Sol(h, 0)
      OBVIOUS
    <3>2. QED
      BY <2>2, <2>3, <3>1
  <2>4. CASE m # 0
    <3>1. m - 1 \in 0..Len(s) /\ ~(m <= m - 1)
      BY <2>2, <2>4
    <3>2. HasSol(m - 1)
      BY <2>1, <3>1
    <3>3. PICK g : Sol(g, m - 1)
      BY <3>2
    <3> DEFINE h == [i \in 0..m |-> IF i = m THEN g[m - 1] \o s[m].data ELSE g[i]]
    <3>4. m \in 1..Len(s) /\ m - 1 \in 0..m - 1
      BY <2>2, <2>4
    <3>5. s[m].data \in Seq(Token) /\ g[m - 1] \in Seq(Token)
      <4>1. s[m] \in Chunk
        BY <3>4
      <4>2. g[m - 1] \in Seq(Token)
        BY <3>3, <3>4
      <4>3. QED
        BY <4>1, <4>2 DEF Chunk
    <3>6. h \in [0..m -> Seq(Token)]
      BY <3>3, <3>5
    <3>7. \A i \in 0..m : h[i] = IF i = 0 THEN <<>> ELSE h[i - 1] \o s[i].data
      <4> TAKE i \in 0..m
      <4>1. CASE i = m
        <5>1. i # 0 /\ i - 1 = m - 1 /\ m - 1 # m /\ m - 1 \in 0..m
          BY <2>4, <3>4, <4>1
        <5>2. h[i] = g[m - 1] \o s[m].data /\ h[m - 1] = g[m - 1]
          BY <4>1, <5>1
        <5>3. QED
          BY <4>1, <5>1, <5>2
      <4>2. CASE i # m
        <5>1. i \in 0..m - 1 /\ (i # 0 => i - 1 \in 0..m - 1)
          BY <4>2
        <5>2. h[i] = g[i] /\ (i # 0 => h[i - 1] = g[i - 1])
          BY <5>1
        <5>3. g[i] = IF i = 0 THEN <<>> ELSE g[i - 1] \o s[i].data
          BY <3>3, <5>1
        <5>4. QED
          BY <5>2, <5>3
      <4>3. QED
        BY <4>1, <4>2
    <3>8. HasSol(m)
      BY <3>6, <3>7
    <3>9. QED
      BY <2>2, <3>8
  <2>5. QED
    BY <2>3, <2>4
<1>2. PICK g : Sol(g, Len(s))
  <2>1. Len(s) \in 0..Len(s)
    OBVIOUS
  <2>2. HasSol(Len(s))
    BY <1>1, <2>1
  <2>3. QED
    BY <2>2
<1>3. IsConcatFcn(g, s) /\ g \in [0..Len(s) -> Seq(Token)]
  BY <1>2 DEF IsConcatFcn
<1>4. QED
  BY <1>3

\* What Concat's recursive function is, and that its values are tokens.
LEMMA ConcatFcnDef ==
    ASSUME NEW s \in Seq(Chunk)
    PROVE  /\ IsConcatFcn(ConcatFcn(s), s)
           /\ \A i \in 0..Len(s) : ConcatFcn(s)[i] \in Seq(Token)
<1>1. PICK g : IsConcatFcn(g, s) /\ g \in [0..Len(s) -> Seq(Token)]
  BY ConcatFcnExists
<1>2. IsConcatFcn(ConcatFcn(s), s)
  BY <1>1, ConcatFcnChoose
<1>3. \A i \in 0..Len(s) : ConcatFcn(s)[i] = g[i]
  BY <1>1, <1>2, ConcatFcnAgree
<1>4. QED
  BY <1>1, <1>2, <1>3

LEMMA ConcatEmpty == Concat(<<>>) = <<>>
<1>1. <<>> \in Seq(Chunk)
  OBVIOUS
<1>2. IsConcatFcn(ConcatFcn(<<>>), <<>>)
  BY <1>1, ConcatFcnDef
<1>3. QED
  BY <1>2, ConcatFcnIs DEF IsConcatFcn

LEMMA ConcatType ==
    ASSUME NEW s \in Seq(Chunk)
    PROVE  Concat(s) \in Seq(Token)
BY ConcatFcnDef, ConcatFcnIs

\* Counting one more chunk as sent appends its data.
LEMMA ConcatAppend ==
    ASSUME NEW s \in Seq(Chunk), NEW c \in Chunk
    PROVE  Concat(Append(s, c)) = Concat(s) \o c.data
<1> DEFINE t == Append(s, c)
<1>1. t \in Seq(Chunk) /\ Len(t) = Len(s) + 1 /\ t[Len(t)] = c
      /\ \A i \in 1..Len(s) : t[i] = s[i]
  OBVIOUS
<1>2. IsConcatFcn(ConcatFcn(s), s) /\ IsConcatFcn(ConcatFcn(t), t)
  BY <1>1, ConcatFcnDef
<1>3. ConcatFcn(t)[Len(s)] = ConcatFcn(s)[Len(s)]
  <2>1. Len(s) <= Len(t) /\ Len(s) \in 0..Len(s)
    BY <1>1
  <2>2. \A i \in 0..Len(s) : ConcatFcn(s)[i] = ConcatFcn(t)[i]
    <3>1. t \in Seq(Chunk) /\ Len(s) <= Len(t)
      BY <1>1
    <3>2. \A i \in 1..Len(s) : s[i] = t[i]
      BY <1>1
    <3>3. IsConcatFcn(ConcatFcn(s), s)
      BY <1>2
    <3>4. IsConcatFcn(ConcatFcn(t), t)
      BY <1>2
    <3> HIDE DEF t
    <3>5. QED
      BY <3>1, <3>2, <3>3, <3>4, ConcatFcnAgree
  <2>3. QED
    BY <2>1, <2>2
<1>4. ConcatFcn(t)[Len(t)] = ConcatFcn(t)[Len(s)] \o c.data
  BY <1>1, <1>2 DEF IsConcatFcn
<1>5. QED
  BY <1>3, <1>4, ConcatFcnIs

\* Appending to the second of two concatenated sequences.
LEMMA ConcatAppendRight ==
    ASSUME NEW a \in Seq(Token), NEW b \in Seq(Token), NEW x
    PROVE  a \o Append(b, x) = Append(a \o b, x)
OBVIOUS

-----------------------------------------------------------------------------
\* What a flush continuation leaves behind: the same data buffered, a chunk
\* in flight holding the buffer, the operation pending while the flush runs,
\* and destination.close() outstanding only for a pending close().
DataKept ==
    /\ Buffered(currentPayload') = Buffered(currentPayload)
    /\ fl' \in {"create", "write", "flush"} => chunk'.data = currentPayload'
    /\ fl' # "idle" => call'.name # "none"
    /\ "close" \in sink' => fl' = "idle" /\ call'.name = "close"

\* The callback of a flush: a true outcome comes with nothing buffered, so
\* close() dropping the buffer then loses nothing; destination.close() is
\* called only by close()'s callback, which leaves close() pending.
LEMMA FinishData ==
    ASSUME NEW c, NEW out, NEW cp, NEW sk, Finish(c, out, cp, sk),
           out = "true" => cp \in {<<>>, Null},
           "close" \notin sk
    PROVE  /\ Buffered(currentPayload') = Buffered(cp)
           /\ fl' = "idle"
           /\ "close" \in sink' => call'.name = "close"
<1>1. Buffered(currentPayload') = Buffered(cp)
  BY DEF Finish, ClosedPayload, Buffered
<1>2. "close" \in sink' => call'.name = "close"
  BY DEF Finish, DestinationClose, Complete
<1>3. QED
  BY <1>1, <1>2 DEF Finish

\* perform(): a chunk is made from the whole buffer, for a pending
\* operation; the true outcomes come with nothing buffered.
LEMMA PerformData ==
    ASSUME NEW c, NEW cl, Perform(c, cl), c.name # "none", "close" \notin sink,
           NoDataWithoutMessage
    PROVE  DataKept
<1>1. CASE NoData(cl) \/ header # "message"
  <2>1. PICK out \in Outcomes : Finish(c, out, currentPayload, sink)
    BY <1>1 DEF Perform, Outcomes
  <2>2. currentPayload \in {<<>>, Null}
    BY <1>1 DEF NoData, NoDataWithoutMessage
  <2>3. QED
    BY <2>1, <2>2, FinishData DEF DataKept
<1>2. CASE ~(NoData(cl) \/ header # "message") /\ (aborted \/ timedout \/ errored)
  <2>1. PICK out \in {"false", "timeout", "error"} :
              Finish(c, out, currentPayload, sink)
    BY <1>2 DEF Perform
  <2>2. QED
    BY <2>1, FinishData DEF DataKept
<1>3. CASE ~(aborted \/ timedout \/ errored \/ NoData(cl) \/ header # "message")
  <2>1. /\ fl' = "create"
        /\ chunk' = NewChunk(cl)
        /\ call' = c
        /\ UNCHANGED <<currentPayload, sink>>
    BY <1>3 DEF Perform
  <2>2. QED
    BY <2>1 DEF DataKept, NewChunk
<1>4. QED
  BY <1>1, <1>2, <1>3

LEMMA StartFlushData ==
    ASSUME NEW c, NEW cl, StartFlush(c, cl), c.name # "none", "close" \notin sink,
           NoDataWithoutMessage
    PROVE  DataKept
<1>1. CASE ready
  BY <1>1, PerformData DEF StartFlush
<1>2. CASE ~ready
  BY <1>2 DEF StartFlush, DataKept
<1>3. QED
  BY <1>1, <1>2

\* A step that accepts and counts nothing keeps DataInv if it behaves like
\* a flush continuation.
LEMMA DataFrame ==
    ASSUME DataInv, UNCHANGED <<accepted, acked>>, DataKept
    PROVE  DataInv'
BY DEF DataInv, DataKept, AckedDataIntact, Buffered, ChunkHoldsBuffer,
       FlushHasCall, DestinationCloseLast

\* A step that touches neither the data, the flush nor the pending call,
\* and neither calls nor answers destination.close().
LEMMA DataUnchanged ==
    ASSUME DataInv, UNCHANGED <<accepted, acked, currentPayload, fl, chunk, call>>,
           ("close" \in sink') = ("close" \in sink)
    PROVE  DataInv'
BY DEF DataInv, AckedDataIntact, ChunkHoldsBuffer, FlushHasCall,
       DestinationCloseLast

\* No step loses, duplicates or reorders a byte between write() and the
\* destination: the induction step of DataInv.
LEMMA DataStep ==
    ASSUME TypeOK, ClosedInv, AlgoInv, DataInv, [Next]_vars
    PROVE  DataInv'
<1>0. /\ call = NoCall => fl = "idle" /\ "close" \notin sink
      /\ fl # "idle" => "close" \notin sink
  BY DEF DataInv, FlushHasCall, DestinationCloseLast, NoCall
<1>a. NoDataWithoutMessage
  BY DEF AlgoInv
<1>1. ASSUME NEW len \in {0, 1}, NEW valid \in BOOLEAN, Write(len, valid)
      PROVE  DataInv'
  <2> DEFINE tok == [id |-> nops + 1, len |-> len, algo |-> compressionAlgo]
  <2>1. /\ call = NoCall /\ call' = NoCall
        /\ UNCHANGED <<acked, fl, chunk, sink>>
    BY <1>1 DEF Write, CanInvoke, Complete
  <2>2. fl = "idle" /\ "close" \notin sink
    BY <2>1, <1>0
  <2>3. CASE aborted \/ timedout \/ errored \/ closed \/ ~valid
             \/ header # "message"
    <3>1. UNCHANGED <<currentPayload, accepted>>
      BY <1>1, <2>3 DEF Write
    <3>2. QED
      BY <2>1, <3>1, DataUnchanged
  <2>4. CASE ~(aborted \/ timedout \/ errored \/ closed \/ ~valid
               \/ header # "message")
    <3>1. /\ currentPayload' = Append(currentPayload, tok)
          /\ accepted' = Append(accepted, tok)
      BY <1>1, <2>4 DEF Write
    <3>2. currentPayload \in Seq(Token) /\ Concat(acked) \in Seq(Token)
      BY <2>4, ConcatType DEF ClosedInv, TypeOK
    <3>3. Concat(acked) \o currentPayload = accepted
      BY <2>4, <3>2, NullAssumption DEF DataInv, AckedDataIntact
    <3>a. nops < MaxOps
      BY <1>1 DEF Write, CanInvoke
    <3>b. tok \in Token
      BY <3>a, ConstAssumption DEF TypeOK, Token
    <3>c. Append(currentPayload, tok) \in Seq(Token)
      BY <3>2, <3>b
    <3>4. currentPayload' # Null
      BY <3>1, <3>c, NullAssumption
    <3>5. Concat(acked') \o currentPayload' = accepted'
      BY <2>1, <3>1, <3>2, <3>3, ConcatAppendRight
    <3>6. QED
      BY <2>1, <2>2, <3>4, <3>5
         DEF DataInv, AckedDataIntact, ChunkHoldsBuffer, FlushHasCall,
             DestinationCloseLast
  <2>5. QED
    BY <2>3, <2>4
<1>2. CASE \/ StopCaching
           \/ \E b \in BOOLEAN : SetCloseDestination(b)
           \/ \E o \in WriteAnswers : HeaderWriteDone(o)
           \/ \E o \in FlushAnswers : HeaderFlushDone(o)
           \/ UNCHANGED vars
  <2>1. UNCHANGED <<accepted, acked, currentPayload, fl, chunk, call>>
    BY <1>2 DEF StopCaching, SetCloseDestination, HeaderWriteDone,
                HeaderFlushDone, strm, hist, vars
  <2>2. ("close" \in sink') = ("close" \in sink)
    BY <1>2 DEF StopCaching, SetCloseDestination, HeaderWriteDone,
                HeaderFlushDone, vars
  <2>3. QED
    BY <2>1, <2>2, DataUnchanged
<1>3. ASSUME NEW o \in {"true"} \cup ({"timeout", "error"} \cap Faults),
             DestinationCloseDone(o)
      PROVE  DataInv'
  <2>1. fl = "idle"
    BY <1>3 DEF DestinationCloseDone, DataInv, DestinationCloseLast
  <2>2. /\ UNCHANGED <<accepted, acked, currentPayload, fl>>
        /\ "close" \notin sink'
    BY <1>3 DEF DestinationCloseDone, strm
  <2>3. QED
    BY <2>1, <2>2
       DEF DataInv, AckedDataIntact, ChunkHoldsBuffer, FlushHasCall,
           DestinationCloseLast
<1>4. CASE Flush
  <2>1. /\ UNCHANGED <<accepted, acked>>
        /\ StartFlush(NewCall("flush", NoAlgo), closed)
        /\ "close" \notin sink
    BY <1>4, <1>0 DEF Flush, CanInvoke
  <2>2. NewCall("flush", NoAlgo).name # "none"
    BY DEF NewCall
  <2>3. QED
    BY <2>1, <2>2, <1>a, StartFlushData, DataFrame
<1>5. CASE Close
  <2>1. /\ UNCHANGED <<accepted, acked>>
        /\ call = NoCall
    BY <1>5 DEF Close, CanInvoke
  <2>2. CASE ~(aborted \/ timedout \/ errored \/ closed)
    <3>1. StartFlush(NewCall("close", NoAlgo), TRUE)
      BY <1>5, <2>2 DEF Close
    <3>2. NewCall("close", NoAlgo).name # "none"
      BY DEF NewCall
    <3>3. QED
      BY <1>0, <1>a, <2>1, <3>1, <3>2, StartFlushData, DataFrame
  <2>3. CASE aborted \/ timedout \/ errored \/ closed
    <3>1. UNCHANGED <<fl, chunk, currentPayload, sink>> /\ call' = NoCall
      BY <1>5, <2>3 DEF Close, Complete
    <3>2. QED
      BY <1>0, <2>1, <3>1
         DEF DataInv, AckedDataIntact, ChunkHoldsBuffer, FlushHasCall,
             DestinationCloseLast
  <2>4. QED
    BY <2>2, <2>3
<1>6. ASSUME NEW a \in AlgoOrNone, SetCompressionAlgorithm(a)
      PROVE  DataInv'
  <2>1. /\ UNCHANGED <<accepted, acked>>
        /\ call = NoCall
    BY <1>6 DEF SetCompressionAlgorithm, CanInvoke
  <2>2. CASE header # "error" /\ compressionAlgo # a
             /\ ~(a # NoAlgo /\ capabilities = NoCaps)
             /\ ~(a # NoAlgo /\ a \notin capabilities)
    <3>1. StartFlush(NewCall("setAlgo", a), closed)
      BY <1>6, <2>2 DEF SetCompressionAlgorithm
    <3>2. NewCall("setAlgo", a).name # "none"
      BY DEF NewCall
    <3>3. QED
      BY <1>0, <1>a, <2>1, <3>1, <3>2, StartFlushData, DataFrame
  <2>3. CASE ~(header # "error" /\ compressionAlgo # a
               /\ ~(a # NoAlgo /\ capabilities = NoCaps)
               /\ ~(a # NoAlgo /\ a \notin capabilities))
    <3>1. UNCHANGED <<fl, chunk, currentPayload, sink>> /\ call' = NoCall
      BY <1>6, <2>3 DEF SetCompressionAlgorithm, Complete
    <3>2. QED
      BY <1>0, <2>1, <3>1
         DEF DataInv, AckedDataIntact, ChunkHoldsBuffer, FlushHasCall,
             DestinationCloseLast
  <2>4. QED
    BY <2>2, <2>3
<1>7. CASE Abort
  <2>1. UNCHANGED <<accepted, acked>>
    BY <1>7 DEF Abort, hist
  <2>2. CASE fl = "poll"
    <3>1. Finish(call, "false", currentPayload, sink)
      BY <1>7, <2>2 DEF Abort
    <3>2. "close" \notin sink
      BY <1>0, <2>2
    <3>3. QED
      BY <2>1, <3>1, <3>2, FinishData, DataFrame DEF DataKept
  <2>3. CASE fl # "poll"
    <3>1. UNCHANGED <<currentPayload, fl, chunk, call, sink>>
      BY <1>7, <2>3 DEF Abort
    <3>2. QED
      BY <2>1, <3>1, DataUnchanged
  <2>4. QED
    BY <2>2, <2>3
<1>8. CASE PollReady
  <2>1. /\ UNCHANGED <<accepted, acked>> /\ Perform(call, closed)
        /\ call.name # "none" /\ "close" \notin sink
    BY <1>8, <1>0 DEF PollReady, hist, DataInv, FlushHasCall
  <2>2. QED
    BY <2>1, <1>a, PerformData, DataFrame
<1>9. CASE PollTimeout \/ ChunkCreateFailed
  <2>1. /\ UNCHANGED <<accepted, acked>>
        /\ "close" \notin sink
    BY <1>9, <1>0 DEF PollTimeout, ChunkCreateFailed, hist
  <2>2. PICK out \in {"timeout", "error"} :
              Finish(call, out, currentPayload, sink)
    BY <1>9 DEF PollTimeout, ChunkCreateFailed
  <2>3. QED
    BY <2>1, <2>2, FinishData, DataFrame DEF DataKept
<1>10. CASE ChunkCreated
  <2>1. /\ fl = "create" /\ fl' = "write"
        /\ sink' = sink \cup {"write"}
        /\ UNCHANGED <<accepted, acked, currentPayload, chunk, call>>
    BY <1>10 DEF ChunkCreated
  <2>2. QED
    BY <1>0, <2>1, DataFrame
       DEF DataKept, DataInv, ChunkHoldsBuffer, FlushHasCall
<1>11. ASSUME NEW o \in WriteAnswers, PayloadWriteDone(o)
       PROVE  DataInv'
  <2>1. /\ UNCHANGED <<accepted, acked>> /\ fl = "write"
        /\ "close" \notin sink \ {"write"}
    BY <1>11, <1>0 DEF PayloadWriteDone
  <2>2. CASE \E out \in {"false", "timeout", "error"} :
                 Finish(call, out, currentPayload, sink \ {"write"})
    <3>1. PICK out \in {"false", "timeout", "error"} :
                 Finish(call, out, currentPayload, sink \ {"write"})
      BY <2>2
    <3>2. QED
      BY <2>1, <3>1, FinishData, DataFrame DEF DataKept
  <2>3. CASE ~\E out \in {"false", "timeout", "error"} :
                 Finish(call, out, currentPayload, sink \ {"write"})
    <3>1. /\ fl' = "flush" /\ UNCHANGED <<currentPayload, chunk, call>>
          /\ sink' = (sink \ {"write"}) \cup {"flush"}
      BY <1>11, <2>3 DEF PayloadWriteDone
    <3>2. QED
      BY <2>1, <3>1, DataFrame
         DEF DataKept, DataInv, ChunkHoldsBuffer, FlushHasCall
  <2>4. QED
    BY <2>2, <2>3
<1>12. ASSUME NEW o \in FlushAnswers, PayloadFlushDone(o)
       PROVE  DataInv'
  <2>1. /\ UNCHANGED accepted /\ fl = "flush"
        /\ "close" \notin sink \ {"flush"}
    BY <1>12, <1>0 DEF PayloadFlushDone
  <2>2. CASE o = "true" /\ ~aborted
    <3>1. /\ acked' = Append(acked, chunk)
          /\ Finish(call, "true", ResetPayload, sink \ {"flush"})
      BY <1>12, <2>2 DEF PayloadFlushDone
    <3>2. ResetPayload \in {<<>>, Null}
      BY DEF ResetPayload
    <3>3. /\ Buffered(currentPayload') = <<>>
          /\ fl' = "idle"
          /\ "close" \in sink' => call'.name = "close"
      BY <2>1, <3>1, <3>2, FinishData DEF Buffered
    <3>4. /\ chunk.data = currentPayload
          /\ acked \in Seq(Chunk) /\ chunk \in Chunk
      BY <2>1 DEF DataInv, ChunkHoldsBuffer, TypeOK
    <3>5. currentPayload \in Seq(Token) /\ currentPayload # Null
      BY <3>4, NullAssumption DEF Chunk
    <3>6. Concat(acked') = Concat(acked) \o currentPayload
      BY <3>1, <3>4, ConcatAppend
    <3>7. Concat(acked) \o currentPayload = accepted
      BY <3>5 DEF DataInv, AckedDataIntact
    <3>8. Concat(acked') \o Buffered(currentPayload') = accepted'
      BY <2>1, <3>3, <3>6, <3>7, <3>5, ConcatType
    <3>9. QED
      BY <3>3, <3>8 DEF DataInv, AckedDataIntact, Buffered, ChunkHoldsBuffer,
                        FlushHasCall, DestinationCloseLast
  <2>3. CASE ~(o = "true" /\ ~aborted)
    <3>1. /\ UNCHANGED acked
          /\ \E out \in {"false", "timeout", "error"} :
                 Finish(call, out, currentPayload, sink \ {"flush"})
      BY <1>12, <2>3 DEF PayloadFlushDone
    <3>2. QED
      BY <2>1, <3>1, FinishData, DataFrame DEF DataKept
  <2>4. QED
    BY <2>2, <2>3
<1>13. QED
  BY <1>1, <1>2, <1>3, <1>4, <1>5, <1>6, <1>7, <1>8, <1>9, <1>10, <1>11, <1>12
     DEF Next, Caller, Environment

\* The constructor starts with nothing written, sent or buffered.
LEMMA InitData ==
    Init => DataInv
<1> SUFFICES ASSUME Init PROVE DataInv
  OBVIOUS
<1>1. <<>> # Null
  <2>1. <<>> \in Seq(Token)
    OBVIOUS
  <2>2. QED
    BY <2>1, NullAssumption
<1>2. AckedDataIntact
  BY <1>1, ConcatEmpty DEF Init, AckedDataIntact
<1>3. QED
  BY <1>2 DEF Init, DataInv, ChunkHoldsBuffer, FlushHasCall,
              DestinationCloseLast

-----------------------------------------------------------------------------
(* What the destination has acknowledged, followed by what is still        *)
(* buffered, is exactly what write() accepted, in order: a chunk is made   *)
(* from the whole buffer (line 497's null check, then PayloadChunk$create) *)
(* and the buffer is reset only after the destination's flush succeeded    *)
(* (lines 555-558).  For every value of the constants.                     *)
THEOREM AckedDataIntactCorrect == Spec => []AckedDataIntact
<1>1. Init => IInv /\ AlgoInv /\ DataInv
  <2>1. Init => IInv /\ AlgoInv
    BY InitType, EmptyTokens DEF Init, AlgoInv, ChunkAlgoAgreement,
       BufferUnder, ChunkUnder, NoDataWithoutMessage
  <2>2. QED
    BY <2>1, InitData
<1>2. IInv /\ AlgoInv /\ DataInv /\ [Next]_vars => IInv' /\ AlgoInv' /\ DataInv'
  BY TypeStep, ClosedStep, AlgoStep, DataStep DEF IInv
<1>3. DataInv => AckedDataIntact
  BY DEF DataInv
<1>4. QED
  BY <1>1, <1>2, <1>3, PTL DEF Spec

====
