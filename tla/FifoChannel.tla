---------------------------- MODULE FifoChannel ----------------------------
(***************************************************************************)
(* What process.send() promises: two one-way queues.  A message accepted   *)
(* at one end reaches the other at most once, in the order of the calls,   *)
(* and nothing is accepted any more once the end has been disconnected.    *)
(* IpcChannel implements it.                                               *)
(***************************************************************************)
EXTENDS Naturals, Sequences

CONSTANTS Ends

VARIABLES
  sent,      \* number of messages an end has accepted
  got,       \* the messages of the other end it has delivered: they are numbered from 1
  connected  \* does it still accept messages?

vars == <<sent, got, connected>>

Init ==
  /\ sent = [e \in Ends |-> 0]
  /\ got = [e \in Ends |-> <<>>]
  /\ connected = [e \in Ends |-> TRUE]

Accept(e) ==
  /\ connected[e]
  /\ sent' = [sent EXCEPT ![e] = @ + 1]
  /\ UNCHANGED <<got, connected>>

Deliver(e) ==
  /\ \E o \in Ends \ {e} : Len(got[e]) < sent[o]
  /\ got' = [got EXCEPT ![e] = Append(@, Len(@) + 1)]
  /\ UNCHANGED <<sent, connected>>

Disconnect(e) ==
  /\ connected' = [connected EXCEPT ![e] = FALSE]
  /\ UNCHANGED <<sent, got>>

Next == \E e \in Ends : Accept(e) \/ Deliver(e) \/ Disconnect(e)

Spec == Init /\ [][Next]_vars
=============================================================================
