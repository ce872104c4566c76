----------------------------- MODULE MCWritable -----------------------------
(* A writable stream with chunks of length 0 to 2, checked by TLC. *)
EXTENDS Writable

\* Chunks of one byte on a stream that may fail, also empty ones on one that does not.
MCUses == {[sizes |-> {1}, fails |-> TRUE], [sizes |-> {0, 1}, fails |-> FALSE]}
=============================================================================
