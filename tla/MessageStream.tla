---------------------------- MODULE MessageStream ----------------------------
(***************************************************************************)
(* What a message output stream promises about the payload it puts on the *)
(* wire (spec sections 2 and 3): the data the caller wrote goes out as a   *)
(* sequence of chunks numbered 1, 2, 3, ...; each chunk carries exactly    *)
(* the data written since the previous one, compressed with the algorithm  *)
(* in force when it was written; only the last chunk carries the          *)
(* end-of-message flag, and nothing is written or sent after it.  The      *)
(* algorithm changes only when no written data is waiting to go out.       *)
(*                                                                         *)
(* Failures, retries, callbacks and the header are invisible here: they    *)
(* are stuttering steps of this specification.                             *)
(***************************************************************************)
EXTENDS Naturals, Sequences

CONSTANTS
    Items,        \* what one write() contributes: records whose algo field
                  \* is one of the Algorithms
    Algorithms    \* the compression algorithms, including none

VARIABLES
    written,      \* the items accepted so far, in order
    out,          \* the chunks that went out, in order
    algo          \* the compression algorithm in force

vars == <<written, out, algo>>

\* The data of a sequence of chunks, concatenated.
Flatten(s) ==
    LET f[i \in 0..Len(s)] == IF i = 0 THEN <<>> ELSE f[i - 1] \o s[i].data
    IN  f[Len(s)]

\* The written items that no chunk has carried yet.
Pending == SubSeq(written, Len(Flatten(out)) + 1, Len(written))

\* The end-of-message chunk went out.
Ended == \E i \in 1..Len(out) : out[i].eom

Init ==
    /\ written = <<>>
    /\ out = <<>>
    /\ algo \in Algorithms

\* The caller writes d, recorded under the current algorithm.
Accept(d) ==
    /\ ~Ended
    /\ d.algo = algo
    /\ written' = Append(written, d)
    /\ UNCHANGED <<out, algo>>

\* The next chunk goes out with everything pending; only the end chunk may
\* be empty.  Nothing is pending after it, so the algorithm may be switched
\* in the same step (to a = algo it stays).
Emit(eom, a) ==
    /\ ~Ended
    /\ Pending # <<>> \/ eom
    /\ out' = Append(out, [seq |-> Len(out) + 1, eom |-> eom, algo |-> algo,
                           data |-> Pending])
    /\ algo' = a
    /\ UNCHANGED written

\* The algorithm is switched once everything written has gone out.
Switch(a) ==
    /\ Pending = <<>>
    /\ algo' = a
    /\ UNCHANGED <<written, out>>

Next ==
    \/ \E d \in Items : Accept(d)
    \/ \E eom \in BOOLEAN, a \in Algorithms : Emit(eom, a)
    \/ \E a \in Algorithms : Switch(a)

Spec == Init /\ [][Next]_vars

=============================================================================
