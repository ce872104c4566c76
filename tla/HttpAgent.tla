----------------------------- MODULE HttpAgent -----------------------------
(***************************************************************************)
(* The client side of HTTP over a pool of sockets: node/_http_agent.js for *)
(* one host name, and what a ClientRequest (node/_http_client.js) does     *)
(* with the socket it gets.  A socket (node/net.js) is seen through its    *)
(* `destroyed` flag and the 'close' event that follows destroy() in a      *)
(* later turn.                                                             *)
(*                                                                         *)
(* Sockets are numbered in the order of their creation.                    *)
(***************************************************************************)
EXTENDS Integers, Sequences, FiniteSets, SequencesExt

CONSTANTS
  Requests,        \* the requests the user makes
  MaxSockets,      \* agent.maxSockets
  MaxFreeSockets,  \* agent.maxFreeSockets
  KeepAlive,       \* agent.options.keepAlive
  NoRequest        \* no request

ASSUME AgentAssumption ==
  /\ IsFiniteSet(Requests) /\ NoRequest \notin Requests
  /\ MaxSockets \in Nat \ {0} /\ MaxFreeSockets \in Nat \ {0}
  /\ KeepAlive \in BOOLEAN

\* A socket is made for a request only, so these suffice (TypeOK).
Sockets == 1 .. Cardinality(Requests)

VARIABLES
  requests, sockets, freeSockets,  \* the agent's pools, for the one name
  created,                         \* number of sockets made so far
  destroyed, closing, ending,      \* sockets destroyed; 'close' due; destroySoon()ed
  listening,                       \* sockets whose events reach the agent
  message,                         \* socket._httpMessage
  phase, socketOf, shouldKeepAlive, aborted,  \* of each request
  ticks                            \* process.nextTick: onSocket calls and 'free' events

pools == <<requests, sockets, freeSockets, created>>
life  == <<destroyed, closing, ending>>
reqs  == <<phase, socketOf, shouldKeepAlive, aborted>>
vars  == <<pools, life, listening, message, reqs, ticks>>

\* waiting: queued or a socket is on its way; active: the request is on a
\* socket; responding: the response has begun.
Phases == {"new", "waiting", "active", "responding", "ended", "failed"}

OnSocket(r, s) == [r |-> r, s |-> s]
FreeEvent(s) == [r |-> NoRequest, s |-> s]

-----------------------------------------------------------------------------
(* Agent *)

\* (mutant: the handle is closed and the flag is not set)
DestroyUnmarked(s) ==
  /\ closing' = closing \cup {s}
  /\ UNCHANGED destroyed

\* socket.destroy(): 'close' follows, once.
Destroy(s) ==
  /\ destroyed' = destroyed \cup {s}
  /\ closing' = IF s \in destroyed THEN closing ELSE closing \cup {s}

\* (mutant: a destroyed socket stays in the free pool)
FreeWithoutDestroyed(s) == freeSockets

FreeWithout(s) == IF s \in destroyed THEN RemoveFirst(freeSockets, s) ELSE freeSockets

\* (mutant: the request that gets the new socket stays in the queue)
RemoveSocketPeek(s, due) ==
  /\ freeSockets' = FreeWithout(s)
  /\ created' = created + (IF requests = <<>> THEN 0 ELSE 1)
  /\ sockets' = RemoveFirst(sockets, s) \o (IF requests = <<>> THEN <<>> ELSE <<created'>>)
  /\ ticks' = due \o (IF requests = <<>> THEN <<>> ELSE <<OnSocket(Head(requests), created')>>)
  /\ UNCHANGED requests

\* (mutant: a closed socket does not make room for a queued request)
RemoveSocketOnly(s, due) ==
  /\ freeSockets' = FreeWithout(s)
  /\ sockets' = RemoveFirst(sockets, s)
  /\ ticks' = due
  /\ UNCHANGED <<requests, created>>

\* removeSocket: a new socket is made for the first queued request, and its
\* 'free' event gives it to that request.
RemoveSocket(s, due) ==
  /\ freeSockets' = FreeWithout(s)
  /\ \/ /\ requests = <<>>
        /\ sockets' = RemoveFirst(sockets, s)
        /\ ticks' = due
        /\ UNCHANGED <<requests, created>>
     \/ /\ requests # <<>>
        /\ created' = created + 1
        /\ sockets' = Append(RemoveFirst(sockets, s), created')
        /\ ticks' = Append(due, OnSocket(Head(requests), created'))
        /\ requests' = Tail(requests)

\* May the socket be kept for a later request?
Reusable(s) ==
  /\ message[s] # NoRequest /\ shouldKeepAlive[message[s]]
  /\ s \notin destroyed /\ KeepAlive

\* The test of the pool limits; s itself is still counted.
PoolFull ==
  \/ Len(freeSockets) + Len(sockets) >= MaxSockets
  \/ Len(freeSockets) >= MaxFreeSockets

Pool(s) ==
  /\ freeSockets' = Append(freeSockets, s)
  /\ sockets' = RemoveFirst(sockets, s)

\* The agent's handler of 'free', for a socket it listens to; `due` are the
\* ticks that remain.
OnFree(s, due) ==
  \/ /\ s \notin destroyed /\ requests # <<>>
     /\ requests' = Tail(requests)
     /\ ticks' = Append(due, OnSocket(Head(requests), s))
     /\ UNCHANGED <<sockets, freeSockets, created, destroyed, closing, message>>
  \/ /\ requests = <<>> /\ Reusable(s) /\ ~PoolFull
     /\ Pool(s)
     /\ message' = [message EXCEPT ![s] = NoRequest]
     /\ ticks' = due
     /\ UNCHANGED <<requests, created, destroyed, closing>>
  \/ /\ s \in destroyed \/ requests = <<>>
     /\ Reusable(s) => PoolFull
     /\ RemoveSocket(s, due)
     /\ Destroy(s)
     /\ UNCHANGED message

\* The event of the 'free' tick, or of an aborted request's onSocket.
EmitFree(s, due) ==
  \/ /\ s \in listening
     /\ OnFree(s, due)
  \/ /\ s \notin listening
     /\ ticks' = due
     /\ UNCHANGED <<pools, destroyed, closing, message>>

\* new ClientRequest -> agent.addRequest
AddRequest(r) ==
  /\ phase[r] = "new"
  /\ phase' = [phase EXCEPT ![r] = "waiting"]
  /\ \/ /\ freeSockets # <<>>
        /\ freeSockets' = Tail(freeSockets)
        /\ sockets' = Append(sockets, Head(freeSockets))
        /\ ticks' = Append(ticks, OnSocket(r, Head(freeSockets)))
        /\ UNCHANGED <<requests, created, listening>>
     \/ /\ freeSockets = <<>> /\ Len(sockets) < MaxSockets
        /\ created' = created + 1
        /\ sockets' = Append(sockets, created')
        /\ ticks' = Append(ticks, OnSocket(r, created'))
        /\ UNCHANGED <<requests, freeSockets, listening>>
     \/ /\ freeSockets = <<>> /\ Len(sockets) >= MaxSockets
        /\ requests' = Append(requests, r)
        /\ UNCHANGED <<sockets, freeSockets, created, listening, ticks>>
  /\ UNCHANGED <<life, message, socketOf, shouldKeepAlive, aborted>>

\* agent.destroy(): every pooled socket is destroyed.
DestroyAgent ==
  /\ LET pooled == ToSet(sockets) \cup ToSet(freeSockets)
     IN /\ destroyed' = destroyed \cup pooled
        /\ closing' = closing \cup (pooled \ destroyed)
        /\ pooled \ destroyed # {}
  /\ UNCHANGED <<pools, ending, listening, message, reqs, ticks>>

-----------------------------------------------------------------------------
(* ClientRequest *)

\* The tick of onSocket, or of responseOnEnd.
RunTick ==
  /\ ticks # <<>>
  /\ LET r == Head(ticks).r
         s == Head(ticks).s
     IN \/ /\ r = NoRequest
           /\ EmitFree(s, Tail(ticks))
           /\ UNCHANGED reqs
        \/ /\ r # NoRequest /\ r \in aborted
           /\ EmitFree(s, Tail(ticks))
           /\ phase' = [phase EXCEPT ![r] = "ended"]
           /\ UNCHANGED <<socketOf, shouldKeepAlive, aborted>>
        \/ /\ r # NoRequest /\ r \notin aborted
           /\ socketOf' = [socketOf EXCEPT ![r] = s]
           /\ message' = [message EXCEPT ![s] = r]
           /\ phase' = [phase EXCEPT ![r] = "active"]
           /\ ticks' = Tail(ticks)
           /\ UNCHANGED <<pools, destroyed, closing, shouldKeepAlive, aborted>>
  /\ UNCHANGED <<ending, listening>>

\* The head of the response arrives (parserOnIncomingClient).
Respond(r) ==
  /\ ticks = <<>> /\ phase[r] = "active" /\ socketOf[r] \notin destroyed
  /\ phase' = [phase EXCEPT ![r] = "responding"]
  /\ \E keep \in BOOLEAN :
       shouldKeepAlive' = [shouldKeepAlive EXCEPT ![r] = @ /\ keep]
  /\ UNCHANGED <<pools, life, listening, message, socketOf, aborted, ticks>>

\* The response has been read to its end (responseOnEnd): it was complete, or
\* the socket closed before.
ResponseEnd(r) ==
  /\ ticks = <<>> /\ phase[r] = "responding"
  /\ phase' = [phase EXCEPT ![r] = "ended"]
  /\ \/ /\ shouldKeepAlive[r]
        /\ ticks' = Append(ticks, FreeEvent(socketOf[r]))
        /\ UNCHANGED ending
     \/ /\ ~shouldKeepAlive[r]
        /\ ending' = ending \cup ({socketOf[r]} \ destroyed)
        /\ UNCHANGED ticks
  /\ UNCHANGED <<pools, destroyed, closing, listening, message, socketOf,
                 shouldKeepAlive, aborted>>

\* 101 Switching Protocols with a listener: the agent lets the socket go.
Upgrade(r) ==
  /\ ticks = <<>> /\ phase[r] = "active" /\ socketOf[r] \notin destroyed
  /\ phase' = [phase EXCEPT ![r] = "ended"]
  /\ RemoveSocket(socketOf[r], ticks)
  /\ listening' = listening \ {socketOf[r]}
  /\ UNCHANGED <<life, message, socketOf, shouldKeepAlive, aborted>>

\* req.abort(): a request keeps its socket after the response.
Abort(r) ==
  /\ phase[r] # "new" /\ r \notin aborted
  /\ aborted' = aborted \cup {r}
  /\ \/ socketOf[r] = 0 /\ UNCHANGED <<destroyed, closing>>
     \/ socketOf[r] # 0 /\ Destroy(socketOf[r])
  /\ UNCHANGED <<pools, ending, listening, message, phase, socketOf,
                 shouldKeepAlive, ticks>>

-----------------------------------------------------------------------------
(* Sockets *)

\* A connection fails or is closed by the peer, in use or idle; or
\* destroySoon() has finished.
SocketFails(s) ==
  /\ ticks = <<>> /\ s \in 1 .. created \ destroyed
  /\ Destroy(s)
  /\ UNCHANGED <<pools, ending, listening, message, reqs, ticks>>

\* 'close': the agent's listener, then the request's socketCloseListener.
Close(s) ==
  /\ ticks = <<>> /\ s \in closing
  /\ closing' = closing \ {s}
  /\ \/ s \in listening /\ RemoveSocket(s, ticks)
     \/ s \notin listening /\ UNCHANGED <<pools, ticks>>
  /\ phase' = [r \in Requests |->
                 IF phase[r] = "active" /\ socketOf[r] = s THEN "failed" ELSE phase[r]]
  /\ UNCHANGED <<destroyed, ending, listening, message, socketOf, shouldKeepAlive,
                 aborted>>

-----------------------------------------------------------------------------

Init ==
  /\ requests = <<>> /\ sockets = <<>> /\ freeSockets = <<>> /\ created = 0
  /\ destroyed = {} /\ closing = {} /\ ending = {}
  /\ listening = Sockets
  /\ message = [s \in Sockets |-> NoRequest]
  /\ phase = [r \in Requests |-> "new"]
  /\ socketOf = [r \in Requests |-> 0]
  /\ shouldKeepAlive = [r \in Requests |-> TRUE]
  /\ aborted = {}
  /\ ticks = <<>>

Next ==
  \/ \E r \in Requests :
       AddRequest(r) \/ Respond(r) \/ ResponseEnd(r) \/ Upgrade(r) \/ Abort(r)
  \/ \E s \in Sockets : SocketFails(s) \/ Close(s)
  \/ RunTick \/ DestroyAgent

Spec == Init /\ [][Next]_vars

\* Ticks run, destroyed sockets close, destroySoon() ends, and a server answers
\* every request that reaches it and its answer is read.
FairSpec ==
  /\ Spec
  /\ WF_vars(RunTick)
  /\ \A r \in Requests : WF_vars(Respond(r)) /\ WF_vars(ResponseEnd(r))
  /\ \A s \in Sockets : /\ WF_vars(Close(s))
                        /\ WF_vars(s \in ending /\ SocketFails(s))

-----------------------------------------------------------------------------
(* Properties *)

TypeOK ==
  /\ requests \in Seq(Requests)
  /\ sockets \in Seq(Sockets) /\ freeSockets \in Seq(Sockets)
  /\ created \in 0 .. Cardinality(Requests)
  /\ destroyed \subseteq Sockets /\ closing \subseteq destroyed /\ ending \subseteq Sockets
  /\ listening \subseteq Sockets
  /\ message \in [Sockets -> Requests \cup {NoRequest}]
  /\ phase \in [Requests -> Phases]
  /\ socketOf \in [Requests -> Sockets \cup {0}]
  /\ shouldKeepAlive \in [Requests -> BOOLEAN]
  /\ aborted \subseteq Requests
  /\ ticks \in Seq([r : Requests \cup {NoRequest}, s : Sockets])

\* The sockets a request is on, or is about to be put on.
Using(r) ==
  {s \in Sockets : \/ phase[r] \in {"active", "responding"} /\ socketOf[r] = s
                   \/ \E i \in DOMAIN ticks : ticks[i] = OnSocket(r, s)}

\* No socket serves two requests, no request has two sockets, a waiting
\* request is either queued (once) or on its way to one socket, and a socket in
\* the free pool serves nobody; and a socket is in one place of the pools at
\* most.  All this whatever aborts, failures and late 'free' and 'close' events
\* come between.
Exclusive ==
  /\ IsInjective(sockets \o freeSockets)
  /\ \A r \in Requests :
       /\ Cardinality(Using(r)) <= 1
       /\ Cardinality({i \in DOMAIN requests : requests[i] = r})
            + Cardinality({i \in DOMAIN ticks : ticks[i].r = r})
          = IF phase[r] = "waiting" THEN 1 ELSE 0
       /\ \A q \in Requests \ {r} : Using(r) \cap Using(q) = {}
       /\ Using(r) \cap ToSet(freeSockets) = {}

\* A queued request always has a socket in the pool that is busy, being
\* destroyed or about to become free, so something will happen that serves the
\* queue: no wakeup is lost.
NoLostWakeup ==
  requests # <<>> =>
    \E i \in DOMAIN sockets :
      LET s == sockets[i]
      IN /\ s \in listening
         /\ \/ \E r \in Requests : s \in Using(r)
            \/ \E j \in DOMAIN ticks : ticks[j].s = s
            \/ s \in closing \cup (ending \ destroyed)

\* Every request is eventually answered, fails, or is dropped because it was
\* aborted.
Served ==
  \A r \in Requests : (phase[r] = "waiting") ~> (phase[r] \in {"ended", "failed"})

\* What the comments at lines 165 and 169 say: a new socket is made "If we are
\* under maxSockets", and "We are over limit so we'll add it to the queue".
WithinLimit == Len(sockets) + Len(freeSockets) <= MaxSockets
=============================================================================
