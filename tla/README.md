# Formal models of the MSL JavaScript message output stream and X.509 entity authentication

This directory holds TLA+ models of the repository's `MessageOutputStream` and
of both versions of `X509AuthenticationData`, the TLC configurations that check
them, and TLAPS proofs about the stream.

## The system

`MessageOutputStream` is the object that writes one MSL message to a
destination `OutputStream`. It lives in
`src/src/main/javascript/entityauth/X509AuthenticationData.js`, lines 136-658;
the file name is misleading. A message is one header followed by payload
chunks, and the last chunk carries the end-of-message flag.

All I/O is asynchronous. Every operation takes a `{result, timeout, error}`
callback and runs inside `InterruptibleExecutor`. Which callbacks the stream
waits on depends on the step:

* **Constructor (180-287).** It computes the compression capabilities as the
  intersection of local and remote, and picks the preferred algorithm. It then
  starts `destination.write(header)`. The write's callbacks call
  `destination.flush`, and the last callback calls `ready()`, which sets
  `_ready` and puts an element in the `_readyQueue` (a `BlockingQueue` used as a
  semaphore). Header failures are recorded in `_timedout` and `_errored`.
* **`write` (595-633).** Checks `_aborted`, `_timedout`, `_errored`, `_closed`,
  the arguments and the header kind, then appends to `_currentPayload`.
* **`flush` (464-590).** If `!_ready` it polls the ready queue, which answers
  with an element, a timeout, or `undefined` after `abort()`. Then `perform()`
  re-checks the flags and the buffer and asks `PayloadChunk$create` for a chunk.
  It caches the chunk, writes it to the destination, flushes the destination
  and, on success only, increments `_payloadSequenceNumber` and resets the
  buffer, to `null` once closed.
* **`close` (409-448).** Sets `_closed` and flushes the final chunk. On success
  it drops the buffer and, if `closeDestination(true)` was called, hands its
  callback to `destination.close`.
* **`setCompressionAlgorithm` (306-351).** Flushes under the old algorithm and
  switches only when that flush reports success.
* **`stopCaching`, `closeDestination` and `abort` (384-406).** Synchronous
  setters. `abort` also calls `cancelAll` on the ready queue.

The other sources are:
* `X509AuthenticationData`, in two versions: immutable value objects with JSON
  encoding (`getAuthData`), decoding (`parse`) and `equals`. The entityauth
  version (lines 36-119 of the same file) holds one certificate. The core
  version (`src/core/...`) holds a certificate, a chain and an identity.
* The `MslError` and `PresharedAuthenticationData` unit tests.
* `MockMslContext`, which is test wiring.

See "Assumptions and not modelled".

## Modules

| module | models |
|---|---|
| `MessageOutputStream` | the stream: its state, every operation and every callback |
| `MC_MessageOutputStream` | TLC instance: two compression algorithms as model values |
| `MessageStream` | the abstract specification: what the stream promises about the chunks that go out |
| `MessageOutputStreamProofs` | TLAPS proofs: type correctness and chunk numbering, with their inductive strengthenings |
| `MessageOutputStreamHeaderProofs` | TLAPS proof that payload goes out only after the header |
| `MessageOutputStreamAlgoProofs` | TLAPS proof that each chunk's data was written under its algorithm |
| `MessageOutputStreamEomProofs` | TLAPS proofs that only the last completed chunk is an end chunk and nothing follows it |
| `MessageOutputStreamDataProofs` | TLAPS lemmas on `Concat` and the proof that no accepted data is lost or duplicated |
| `MessageOutputStreamRefinementProofs` | TLAPS proof that the stream implements `MessageStream` |
| `X509AuthDataProofs` | TLAPS proofs of the entityauth round trip and parse outcomes |
| `X509AuthDataCoreProofs` | TLAPS proof of the core round trip's wire form |
| `X509AuthData`, `MC_X509AuthData` | the entityauth `X509AuthenticationData` and its TLC instance |
| `X509AuthDataCore`, `MC_X509AuthDataCore` | the core `X509AuthenticationData` and its TLC instance |

### State

| variable | code |
|---|---|
| `header` (`"message"`, `"handshake"` or `"error"`) | `_header` and its class, `isHandshake()` |
| `capabilities`, `compressionAlgo` | `_capabilities`, `_compressionAlgo` |
| `payloadSequenceNumber`, `currentPayload` (a sequence of tokens or `Null`) | same names |
| `closed`, `closeDestination`, `caching`, `payloads` | same names |
| `ready`, `readyQueue` (number of elements) | `_ready`, `_readyQueue` |
| `aborted`, `timedout`, `errored` | same names (`_errored` as a flag) |
| `call`, `fl`, `chunk` | the operation in progress, and where its flush is: `poll`, `create`, `write` or `flush` |
| `sink` | the destination calls that await a callback |

The history variables `accepted`, `sent`, `acked`, `hdrOk`, `wrote`, `failed`,
`ret` and `nops` exist only so that properties can be stated.

Data is abstracted: a write is a *token*. A token records the write number,
whether it had zero or some bytes, and the algorithm in force when it was
written. A chunk is a record of sequence number, end-of-message flag,
algorithm and tokens.

### Actions

The caller's operations are one action each:
* `Write`, `Flush`, `Close` and `SetCompressionAlgorithm` start an operation.
  The caller starts one at a time, as the `OutputStream` contract requires.
* `StopCaching`, `SetCloseDestination` and `Abort` may be called at any time.

The environment's callbacks are actions too:
* `HeaderWriteDone` and `HeaderFlushDone` take the answers `full`, `short`,
  `true`, `false`, `timeout` and `error`.
* `PollReady` and `PollTimeout` answer the ready-queue poll.
* `ChunkCreated` and `ChunkCreateFailed` answer `PayloadChunk$create`.
* `PayloadWriteDone`, `PayloadFlushDone` and `DestinationCloseDone` answer the
  destination.

`Finish` is the callback that `flush()` was given. For `close()` and
`setCompressionAlgorithm()` it is their continuation. `Perform` is
`perform()` (484-523), with its checks in the code's order.

`PROJECT.json` maps every definition to the lines it models.

## Runs

The instance in `MC_MessageOutputStream.cfg` uses:
* two algorithms, GZIP preferred to LZW;
* a remote side that supports LZW, or has no capabilities;
* all three header kinds and all five fault classes;
* `MaxOps = 4` caller operations.

Four operations are enough for every scenario the properties are about. For
example, write, flush, then close after a failure; or abort then flush then
close. With all faults they cover each callback answer at every step.

| run | cfg | result | shows |
|---|---|---|---|
| main | `MC_MessageOutputStream.cfg` | pass (454,724 states) | see the properties below |
| liveness | `MC_Liveness.cfg` | pass | `OperationsComplete`, under `FairSpec`, `MaxOps = 3` |
| failure_replayed | `MC_FailureReplayed.cfg` | violation | payload timeouts are not recorded |
| abort_benign | `MC_AbortIsBenign.cfg` | violation | flush after abort reports a timeout |
| close_end_of_message | `MC_CloseMeansEndOfMessage.cfg` | violation | second close succeeds without the end chunk |
| empty_chunk | `MC_EmptyChunkOnlyAtEnd.cfg` | violation | zero-length write sends an empty non-final chunk |
| short_write | `MC_AckedChunksComplete.cfg` | violation | a short chunk write is counted as sent |
| cached_payloads | `MC_CachedPayloadsNumbered.cfg` | violation | a retried flush caches a second chunk under the same number |
| x509 | `MC_X509AuthData.cfg` | pass | round trip and parse outcomes of the entityauth version |
| x509_core | `MC_X509AuthDataCore.cfg` | pass (1.6M states) | the core version's wire form survives the round trip |
| x509_core_round_trip | `MC_X509RoundTripEqual.cfg` | violation | the core round trip does not give an `equals` object |
| x509_core_parse | `MC_X509ParseOutcome.cfg` | violation | the core `parse` misclassifies malformed input |

The main run checks these properties:
* **`AckedSequenceNumbers`.** Chunks that completed are numbered 1, 2, 3, …,
  and the counter is the next number. This holds across retries after
  timeouts, aborts and algorithm changes.
* **`AckedDataIntact`.** The completed chunks' data followed by the buffer is
  exactly what `write()` accepted.
* **`EndOfMessageLast`.** Only the last completed chunk carries the
  end-of-message flag, and nothing is written after it.
* **`AbortedFlushHasNoEffect`** (an action property). When `abort()`
  interrupts a flush, the step that ends that flush has none of a
  success's effects. This holds whatever stage the flush has reached: the
  poll, `PayloadChunk$create`, the chunk's write or its flush. The step
  counts no chunk, switches no algorithm, keeps the buffer and reports no
  success. It holds because `perform()` checks `_aborted` first (487), and
  the write and flush callbacks check it before counting (532, 540). The
  timeout and error callbacks never report success. A chunk created after
  `abort()` still reaches the destination, but it is never counted.
* **`ChunkAlgoAgreement`.** Each chunk's data was written under the algorithm
  the chunk is compressed with.
* **`PayloadOnlyAfterHeader`.** Chunks go out only after a message header was
  written and flushed.

Every property of a passing run has a mutant in `PROJECT.json`, a plausible
bug that TLC finds. The mutants are:
* a poll without an element;
* a pre-incremented sequence number;
* close dropping the buffer after a failed flush;
* resetting the buffer to empty even once closed (breaks
  `EndOfMessageLast`: a later flush sends a second, empty end chunk);
* the chunk flush's result callback without its `_aborted` check (breaks
  `AbortedFlushHasNoEffect`);
* switching the algorithm even when the flush failed;
* `perform()` without its timeout check;
* close not handing its callback to `destination.close`;
* `perform()` sending an empty open buffer (kills the refinement);
* X509: `equals` comparing certificate objects, `parse` without its `typeof`
  check, and the core `getAuthData` writing the chain beside a certificate.

### Refinement

`MessageStream` says what the stream promises, with no callbacks, failures or
header. Its variables are:
* `written`: the items accepted;
* `out`: the chunks that went out;
* `algo`: the algorithm in force.

It has three actions:
* `Accept` appends an item written under the current algorithm.
* `Emit` sends everything pending as the next numbered chunk. It may also
  switch the algorithm, because `setCompressionAlgorithm`'s successful flush
  and the switch happen in one callback.
* `Switch` changes the algorithm when nothing is pending.

Nothing is accepted or emitted after the end chunk.

`MessageOutputStream` defines `Stream == INSTANCE MessageStream WITH` the
following mapping:
* `written` is `accepted`;
* `out` is `acked`, the chunks whose write and flush succeeded;
* `algo` is `compressionAlgo`.

The main run also checks `ImplementsMessageStream == Stream!Spec`. Every
other step of the stream (polls, failures, retries, aborts, header callbacks)
maps to a stutter.

### Findings

Each violation run reproduce a disagreement between the code and
the spec or its comments. `PROJECT.json` gives the line numbers and traces.

1. **Payload failures are not recorded (536, 548, 564, 573).** After the final
   chunk of `close()` times out, a second `close()` returns true and `write()`
   accepts data. Spec §7 says a timeout is reported by every later operation.
2. **`flush()` after `abort()` reports a timeout (469).** It polls the
   already-cancelled queue. Spec §4.4 and §5 say operations after abort
   complete with false.
3. **`close()` returns true at 423 after a failed close.** No end-of-message
   chunk was ever sent.
4. **`write(d, 0, 0)` then `flush()` sends an empty chunk with no end flag
   (501).** The class comment says an empty chunk marks the end of the message.
5. **The short-write check at 535 uses the nonexistent `chunk.length`.** A
   partial chunk write is therefore counted as sent.
6. **Chunks are cached before they are sent (526).** After a failed chunk
   write, the retried flush caches another chunk with the same sequence
   number. `getPayloads()` then holds two chunks numbered 1.
7. **The core `equals` compares `x509cert` with `===` (109).** `parse` always
   builds a new `X509` object, so `parse(getAuthData())` of an object with a
   certificate is never equal to the original. Spec §3 and §8 say it should be.
8. **The core `parse` tests the certificate only for truthiness (127).**
   * A non-string value is reported as `X509CERT_PARSE_ERROR`, not as an
     encoding error.
   * A chain without an identity is accepted (137-138).

   Spec §4.2 says the X509 wire form is a certificate, or a chain with an
   identity.

## X509AuthenticationData

These objects never change after construction. What can go wrong lies between
objects, and the models therefore keep:
* a heap of `X509` objects;
* a heap of authentication-data objects (references are indices);
* the history of `getAuthData` results (`issued`) and `parse` outcomes
  (`parsed`).

Data is abstracted as follows:
* A certificate's bytes are a model value, and base64 is the tagged value
  `<<"base64", c>>`, which `readCertPEM` decodes.
* `Garbage` is a string that is not a certificate, `NotString` is a JSON value
  that is not a string, and `Absent` is a missing key.

The instances have three certificates, two of them with the same subject, so
that objects with different bytes and the same identity exist. `MaxOps` (5 for
entityauth, 4 for core) bounds the calls. This allows an object to be built,
serialized, parsed and serialized again, and leaves room for one more call.

These runs set `CHECK_DEADLOCK FALSE`. Every action needs `ops < MaxOps`, so
the state where the bound is reached has no successor. The objects themselves
never block.

* **Entityauth version.** `RoundTrip` and `ParseOutcome` hold. `equals`
  compares identities, as spec §3 says.
* **Core version.**
  * `RoundTripStable` holds: the wire form is reproduced.
  * `RoundTripEqual` is violated (finding 7).
  * `ParseOutcome` is violated (finding 8).

## Fairness

`FairSpec` puts weak fairness on each environment action group. The code
justifies this:
* every destination call and every ready-queue poll is given the `timeout`
  argument, so one of its callbacks eventually fires;
* `PayloadChunk$create` eventually answers.

No fairness is put on the caller, because `OperationsComplete` only needs the
operations already started to finish.

## Proofs

`MessageOutputStreamProofs` proves `THEOREM TypeCorrect == Spec => []TypeOK`
for every value of the constants that satisfies `ConstAssumption` and
`NullAssumption`. `NullAssumption` states that `null` is not a buffer.

`TypeOK` is not inductive by itself. `write()` appends to `_currentPayload`,
which is a buffer only because:
* it becomes `null` just when the stream is closed;
* the pending operation is a `close()` only on a closed stream.

These two facts are `ClosedInv`; TLC checks them on the main instance. The
proof shows `IInv == TypeOK /\ ClosedInv` is inductive:
* `InitType` proves `Init => IInv`.
* `TypeStep` and `ClosedStep` each have one step per action.
* The flush continuations get lemmas of their own, stated once and cited by
  every action that uses them: `FinishType`, `PerformType`, `StartFlushType`,
  `FinishClosed`, `PerformClosed` and `StartFlushClosed`.
* `PreferredAlgorithmType` shows the preferred algorithm exists. It uses
  well-founded minimisation over the ranks in the preference order.

`THEOREM AckedSequenceNumbersCorrect == Spec => []AckedSequenceNumbers` proves
the main numbering property for every instance. Its strengthening is
`ChunkNumbered`: a chunk that `flush()` has asked for, and not yet finished
with, carries the current `_payloadSequenceNumber`. This holds because
`perform()` numbers the chunk with the counter, and only the success of that
chunk's own flush increments the counter, which also ends the operation.

* `SeqStep` shows that `TypeOK /\ SeqInv /\ [Next]_vars => SeqInv'`.
* `SeqFrame` covers the steps that leave the counter alone.
* The continuation lemmas `FinishNumbered`, `PerformNumbered` and
  `StartFlushNumbered` show that any chunk left in flight is numbered with the
  counter.
* The theorem combines `SeqStep` with `TypeCorrect` by temporal reasoning.

`THEOREM PayloadOnlyAfterHeaderCorrect == Spec => []PayloadOnlyAfterHeader`
is in `MessageOutputStreamHeaderProofs`. Its strengthening `HeaderInv` says:
* a flush that is creating, writing or flushing a chunk started after a
  message header went out (`HeaderWritten`);
* `_ready` and ready-queue elements exist only after the header succeeded, or
  a timeout, error or abort was recorded (`ReadyJustified`). This is why a
  flush that gets past the poll has a header behind it;
* once the header went out, no header callback is outstanding (`HeaderDone`);
* the header flush is issued only after the header write called back
  (`FlushAfterWrite`).

The lemmas `FinishHeader`, `PerformHeader` and `StartFlushHeader` cover the
continuations. `HeaderStep` has one step per action.

`THEOREM ChunkAlgoAgreementCorrect == Spec => []ChunkAlgoAgreement` is in
`MessageOutputStreamAlgoProofs`. Its strengthening `AlgoInv` says that the
buffer, and any chunk in flight, hold only tokens of `_compressionAlgo`.
It also says that a non-message header leaves the buffer empty or null. This
is needed because `setCompressionAlgorithm` may switch the algorithm when
`perform()` returns true without sending.

`THEOREM EndOfMessageLastCorrect == Spec => []EndOfMessageLast` is in
`MessageOutputStreamEomProofs`. Its strengthening `EomInv` adds three facts
to `EndOfMessageLast`:
* a chunk with the end flag exists only on a closed stream
  (`ChunkFromClosed`). `perform()` gives the chunk `_closed` as its flag, or
  true for `close()`, which sets `_closed` first; nothing clears `_closed`;
* the chunk being written or flushed is the last one sent (`SentIsChunk`),
  so the chunk whose flush succeeds is the one written last;
* after the end chunk completes, the buffer is `null` (`EndedIsNull`). The
  flush callback resets it to `null` because the stream is closed (line 557).
  `write()` then rejects, and `perform()` finds nothing to send (line 497).

`EomStep` has one step per action, and `FinishEom`, `PerformEom` and
`StartFlushEom` cover the continuations.

`X509AuthDataProofs` proves `RoundTripCorrect` (`Spec => []RoundTrip`) and
`ParseOutcomeCorrect` (`Spec => []ParseOutcome`) for the entityauth version.
The strengthening `X509Inv` adds:
* `IssuedCurrent`: every issued wire object is still what `getAuthData()`
  returns for its object, since the objects are immutable;
* `IdentityIsSubject`: every object's identity is its certificate's subject;
* `ParsedHoldsDecoded`: every object `parse()` returned holds a new `X509`
  object with the decoded bytes.

Equal wire objects then have certificates with equal bytes, and so equal
subjects. `X509AuthDataCoreProofs` proves `RoundTripStableCorrect`
(`Spec => []RoundTripStable`) for the core version. Its `CoreInv` says what
each returned object holds in each of its two forms: a decoded certificate
and no chain, or a chain with the identity that came with it.

Both X509 modules assume `SentinelAssumption`: the garbage string, a
non-string and a missing key are not base64 of a certificate, and (core) a
missing key is neither an object reference nor a chain. This is what
`typeof`, `readCertPEM` and `!json.x509certificate` distinguish in the code.

One remark on these proofs. A TLA+ `CASE` with overlapping guards picks an
arm by `CHOOSE`. `perform()`'s checks are written as such a `CASE`, so the
proofs split off the later arms first.

`THEOREM AckedDataIntactCorrect == Spec => []AckedDataIntact` is in
`MessageOutputStreamDataProofs`. It first proves facts about `Concat`, which
is defined by a recursive function over the chunk indices. tlapm reads such
a definition as `CHOOSE f : f = [i \in 0..Len(s) |-> ...]`. Two facts make
this `CHOOSE` usable:
* a function satisfying the equation exists (`ConcatFcnExists`);
* two solutions for sequences with a common prefix agree on that prefix
  (`ConcatFcnAgree`).

Both are proved by taking the least index at which the claim fails
(`LeastNat`, from `WFMin` and the well-foundedness of `<` on `Nat`). So no
induction theorem with an operator parameter is needed. They give
`ConcatEmpty`, `ConcatType` and
`ConcatAppend` (`Concat(Append(s, c)) = Concat(s) \o c.data`).

The strengthening `DataInv` adds three facts to `AckedDataIntact`:
* the chunk being made, written or flushed holds exactly the buffer
  (`ChunkHoldsBuffer`). `perform()` builds it from `_currentPayload`, and
  nothing changes the buffer while it is in flight;
* while a flush runs, its operation is pending (`FlushHasCall`), so the
  caller cannot `write()` under it;
* `destination.close()` is outstanding only after `close()`'s flush, with
  `close()` pending (`DestinationCloseLast`).

When the chunk's flush succeeds, `acked` grows by the chunk and the buffer
is reset to empty or `null` (lines 555-558). `ConcatAppend` then keeps the
equation. `DataStep` needs `AlgoInv`'s `NoDataWithoutMessage`: a `true`
outcome from `perform()` without a chunk comes with an empty or `null`
buffer.

`THEOREM ImplementsMessageStreamCorrect == Spec => ImplementsMessageStream`
is in `MessageOutputStreamRefinementProofs`. It proves the refinement step
by step under the mapping `written <- accepted`, `out <- acked`,
`algo <- compressionAlgo`:
* `Init` maps to `Stream!Init`.
* An accepting `write()` is `Accept`. The stream is open, so the buffer is
  not `null` and no end chunk was counted (`NotEnded`).
* A successful chunk flush is `Emit(chunk.eom, compressionAlgo')`
  (`FlushDoneEmit`):
  * `SeqInv` gives the chunk's number;
  * `AlgoInv` gives its algorithm;
  * `DataInv` and `Stream!Flatten = Concat` (`FlattenIsConcat`) give its
    data as the pending items;
  * `EomInv` shows no end chunk precedes it;
  * the new invariant `NonEmptyChunk` shows it is empty only if it is the
    end chunk.
* A `setCompressionAlgorithm()` that switches without a chunk is `Switch`.
  `FinishSwitch` and `PerformSwitch` show the switch happens only on a
  `true` outcome, which comes with nothing buffered.
* Every other step is a stutter.

The invariant used is `RefInv`, the conjunction of `IInv`, `AlgoInv`,
`DataInv`, `SeqInv`, `EomInv` and `NonEmptyChunk`. TLC checked it as an
invariant of the main instance before it was proved.

Two properties of the passing runs are model-checked and not proved:
* the liveness property `OperationsComplete`: TLAPS does not reason about
  fairness or `ENABLED`;
* the action property `AbortedFlushHasNoEffect`: `Perform` is a `CASE`
  whose guards overlap. TLC takes the first true arm, in the code's order.
  In TLA+'s semantics, an aborted stream with an empty buffer may take the
  "nothing to send" arm, so the property is not a theorem of the model as
  written.

Every other invariant of the passing runs, and the refinement, has a theorem
above for every value of the constants. The properties of the violation
runs are false of the code, so they are findings, not theorems.

## Assumptions and not modelled

* `InterruptibleExecutor`, `BlockingQueue`, `PayloadChunk` and the destination
  are not in the repository. They are modelled by the answers their callbacks
  may give.
* `InterruptibleExecutor` is taken to call `result` only for a value other
  than `undefined`, so a bare `return;` delivers nothing.
* Bytes, JSON encoding, character sets, compression and encryption are
  abstracted to tokens and chunk records.
* Exceptions thrown inside the executor are the `error` outcome.
* Concurrent caller operations, such as `write` during an in-flight `flush`,
  are outside the model (see the hazards in `PROJECT.json`).
* The following are outside the repository and modelled by their contracts:
  * `EntityAuthenticationData`'s base `equals`, modelled as comparing the
    scheme, which is X509 for every object here;
  * `X509.readCertPEM` and `getSubjectString`, modelled as decoding and the
    `Subject` constant.
* The `MslError` and `PresharedAuthenticationData` tests and `MockMslContext`
  are test code.
