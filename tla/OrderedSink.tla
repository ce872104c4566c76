---------------------------- MODULE OrderedSink ----------------------------
(***************************************************************************)
(* What a writable stream promises its user: every accepted write is       *)
(* handed to the implementation at most once and, as long as no write has  *)
(* failed, in the order of the calls of write().  Writable implements it.  *)
(***************************************************************************)
EXTENDS Naturals, Sequences

VARIABLES
  accepted,  \* number of writes accepted so far: they are numbered from 1
  sunk,      \* the writes handed to _write or _writev, in the order of handing
  failed     \* has a write failed?

vars == <<accepted, sunk, failed>>

Init == accepted = 0 /\ sunk = <<>> /\ failed = FALSE

\* write() takes one more chunk.
Accept == accepted' = accepted + 1

\* Accepted writes that were not handed over before are, each once; in the
\* order they were accepted unless a write has failed.
Sink ==
  /\ Len(sunk') >= Len(sunk)
  /\ \A i \in 1 .. Len(sunk) : sunk'[i] = sunk[i]
  /\ \A i \in 1 .. Len(sunk') : sunk'[i] \in 1 .. accepted'
  /\ \A i, j \in 1 .. Len(sunk') : i # j => sunk'[i] # sunk'[j]
  /\ ~failed => \A i \in 1 .. Len(sunk') : sunk'[i] = i

\* One step of the stream accepts a write, hands writes over or both (a chunk
\* that reaches an idle stream is passed on at once), or reports a failure.
Next ==
  /\ \/ Accept
     \/ UNCHANGED accepted
  /\ \/ Sink
     \/ UNCHANGED sunk
  /\ failed => failed'

Spec == Init /\ [][Next]_vars
=============================================================================
