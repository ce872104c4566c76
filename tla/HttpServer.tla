----------------------------- MODULE HttpServer -----------------------------
(***************************************************************************)
(* One connection of an http server: connectionListener of                 *)
(* node/_http_server.js with the responses of node/_http_outgoing.js, the  *)
(* requests of node/_http_incoming.js and the parser's callbacks of        *)
(* node/_http_common.js.                                                   *)
(*                                                                         *)
(* Requests are numbered as they come; response n answers request n.  What *)
(* a response sends are pieces: its head, pieces of body, the last chunk.  *)
(* The functions of the source are functions from a state of the           *)
(* connection to a state of it, one record; `todo` in it is the call stack *)
(* of this turn, top first, `ticks` the requests that are read in a tick.  *)
(* The parser and the socket's handle are outside: the parser calls back   *)
(* from parser.execute as the library expects, the handle writes, and      *)
(* closes.                                                                 *)
(***************************************************************************)
EXTENDS Integers, Sequences, FiniteSets, SequencesExt

CONSTANTS
  MaxInput,      \* bound on the requests and the pieces of their bodies, together
  MaxCalls,      \* bound on the user's calls
  Mark,          \* pieces the socket holds before write() returns false
  HalfOpens,     \* values of server.httpAllowHalfOpen
  Expecting,     \* the requests that, if they have a body, expect 100-continue
  Careless       \* see Sends, Write and Ends

ASSUME HttpServerAssumption ==
  /\ MaxInput \in Nat /\ MaxCalls \in Nat /\ Mark \in Nat \ {0}
  /\ HalfOpens \subseteq BOOLEAN /\ Expecting \subseteq Nat /\ Careless \in BOOLEAN

VARIABLES
  conn,    \* the connection
  body,    \* pieces of request bodies so far
  calls    \* calls of the user so far

vars == <<conn, body, calls>>

Requests == 1 .. MaxInput
Known == 1 .. conn.count
More == conn.count + body < MaxInput

-----------------------------------------------------------------------------
(* The call stack. *)

Item(k, n) == [k |-> k, n |-> n]
User == Item("user", 0)    \* a handler of the user
Run(m, items) == [m EXCEPT !.todo = items \o @]
Running(k) == conn.todo # <<>> /\ Head(conn.todo).k = k
Top == Head(conn.todo).n
Popped == [conn EXCEPT !.todo = Tail(@)]
Within(k) == \E i \in DOMAIN conn.todo : conn.todo[i].k = k

\* No turn is under way: the host may deliver an event.
AtRest == conn.todo = <<>> /\ conn.ticks = <<>>

-----------------------------------------------------------------------------
(* The socket: net.js over _stream_writable.js and _stream_readable.js. *)

\* destroy(): 'close' follows when the handle has closed.
Destroy(m) == [m EXCEPT !.destroyed = TRUE, !.readable = FALSE, !.writable = FALSE]

\* 'finish' of the socket: it is destroyed, or waits for the client to end.
Finished(m) ==
  LET done == [m EXCEPT !.finished = TRUE]
  IN IF m.soon \/ ~m.readable \/ m.eof THEN Destroy(done) ELSE done

\* socket.end()
SocketEnd(m) ==
  LET ending == [m EXCEPT !.writable = FALSE, !.ending = TRUE]
  IN IF m.held = 0 THEN Finished(ending) ELSE ending

DestroySoon(m) ==
  LET ended == IF m.writable THEN SocketEnd(m) ELSE m
  IN IF ended.finished THEN Destroy(ended) ELSE [ended EXCEPT !.soon = TRUE]

\* socket.write(); full: write() returns false, and a 'drain' follows.
SocketWrite(m, pieces) ==
  [m EXCEPT !.wire = @ \o pieces, !.held = @ + Len(pieces),
            !.needDrain = @ \/ m.held + Len(pieces) >= Mark]
Full(m) == m.held >= Mark

\* readStart and readStop of _http_incoming.js
ReadStart(m) == IF ~m.paused /\ m.readable THEN [m EXCEPT !.flowing = TRUE] ELSE m
ReadStop(m) == [m EXCEPT !.flowing = FALSE]

-----------------------------------------------------------------------------
(* Responses: OutgoingMessage and ServerResponse. *)

Piece(n, part) == [of |-> n, part |-> part]

\* (mutant: what is pending in output is not written first)
PendingNot(n, m) == <<>>

Pending(n, m) == m.res[n].output

\* _writeRaw: to the socket if the response has it, else to the response's output.
\* waits: the user was told false, and waits for 'drain'.
WriteRaw(n, pieces, m) ==
  CASE m.httpMessage = n /\ m.writable ->
         LET out == SocketWrite([m EXCEPT !.res[n].output = <<>>], Pending(n, m) \o pieces)
         IN [out EXCEPT !.res[n].waits = Full(out)]
    [] m.httpMessage = n /\ ~m.writable /\ m.destroyed -> m
    [] OTHER -> [m EXCEPT !.res[n].output = @ \o pieces, !.res[n].waits = TRUE]

\* _send: the head goes before the first data, in one string with them or, if the
\* data are a buffer, at the front of output.
Send(n, pieces, asBuffer, m) ==
  LET head   == <<Piece(n, "head")>>
      headed == [m EXCEPT !.res[n].headerSent = TRUE]
      given  == [headed EXCEPT !.res[n].given = @ \o head \o pieces]
  IN CASE ~m.res[n].headerSent /\ asBuffer ->
            WriteRaw(n, pieces, [given EXCEPT !.res[n].output = head \o @])
       [] ~m.res[n].headerSent /\ ~asBuffer -> WriteRaw(n, head \o pieces, given)
       [] m.res[n].headerSent /\ pieces = <<>> -> m
       [] OTHER -> WriteRaw(n, pieces, [m EXCEPT !.res[n].given = @ \o pieces])

\* _storeHeader, when there is no header yet: chunked or of known length, and
\* perhaps the last response, as the headers and the request have it.
Headed(n, framing, close, m) ==
  [m EXCEPT !.res[n].header = framing, !.res[n].last = @ \/ close]

WithHeader(n, m) ==
  IF m.res[n].header # "none" THEN {m}
  ELSE {Headed(n, framing, close, m) : framing \in {"chunked", "length"}, close \in BOOLEAN}

\* end() after the data: the last chunk, or the head if that is all there is.
SendEnd(n, m) ==
  LET sent == Send(n, IF m.res[n].header = "chunked" THEN <<Piece(n, "end")>> ELSE <<>>, FALSE, m)
      done == [sent EXCEPT !.res[n].finished = TRUE]
  IN IF done.res[n].output = <<>> /\ done.httpMessage = n
     THEN Run(done, <<Item("prefinish", n)>>) ELSE done

\* _flush, when the response has got the socket.
Flush(n, m) ==
  IF ~m.writable THEN m
  ELSE LET out == SocketWrite([m EXCEPT !.res[n].output = <<>>], m.res[n].output)
       IN CASE out.res[n].finished -> Run(out, <<Item("prefinish", n)>>)
            [] ~out.res[n].finished /\ m.res[n].output # <<>> /\ ~Full(out) ->
                 Run([out EXCEPT !.res[n].waits = FALSE], <<User>>)
            [] OTHER -> out

-----------------------------------------------------------------------------
(* The server's handlers. *)

\* assignSocket; a response that was destroyed meanwhile destroys the socket.
Assign ==
  /\ Running("assign") /\ conn.httpMessage = 0
  /\ LET given == [Popped EXCEPT !.httpMessage = Top]
     IN conn' = Flush(Top, IF conn.res[Top].destroys THEN Destroy(given) ELSE given)
  /\ UNCHANGED <<body, calls>>

\* (mutant: a request that nobody reads is not dumped)
DumpNot(n, m) == m

\* The rest of a request that nobody reads is thrown away.
Dump(n, m) ==
  IF m.req[n].consuming \/ m.req[n].dumped THEN m
  ELSE [m EXCEPT !.req[n].dumped = TRUE, !.ticks = Append(@, n)]

\* The next response in the queue gets the socket.  (mutant: after the last one, too)
NextOnly(n, m) ==
  IF m.outgoing # <<>>
  THEN Run([m EXCEPT !.outgoing = Tail(@)], <<Item("assign", Head(m.outgoing))>>) ELSE m

\* (mutant: the next response stays in the queue)
NextPeeked(n, m) ==
  CASE m.res[n].last -> DestroySoon(m)
    [] ~m.res[n].last /\ m.outgoing # <<>> -> Run(m, <<Item("assign", Head(m.outgoing))>>)
    [] OTHER -> m

\* After response n: the connection ends, or the next response gets the socket.
Following(n, m) ==
  IF m.res[n].last THEN DestroySoon(m) ELSE NextOnly(n, m)

\* What resOnFinish asserts.
IncomingIsFirst(n) == conn.incoming # <<>> => Head(conn.incoming) = n

\* resOnFinish
Prefinish ==
  /\ Running("prefinish") /\ IncomingIsFirst(Top) /\ conn.httpMessage = Top
  /\ LET shifted  == [Popped EXCEPT !.incoming = IF @ = <<>> THEN @ ELSE Tail(@)]
         detached == [Dump(Top, shifted) EXCEPT !.httpMessage = 0, !.res[Top].answered = TRUE]
     IN conn' = Following(Top, detached)
  /\ UNCHANGED <<body, calls>>

\* (mutant: the requests are not taken off the list)
TakenNot(m) == m

Taken(m) == [m EXCEPT !.incoming = Tail(@)]

\* abortIncoming takes the requests one by one; their handlers run in between.
AbortIncoming ==
  /\ Running("abort")
  /\ LET n == Head(conn.incoming)
     IN conn' = IF conn.incoming = <<>> THEN Popped
                ELSE Run([Taken(conn) EXCEPT !.req[n].aborted = @ + 1], <<User>>)
  /\ UNCHANGED <<body, calls>>

\* socketOnEnd once the requests are aborted, and the end of the socket's own
\* handler: a socket that is ended on both sides and has written all is destroyed.
EndSocket ==
  /\ Running("endSocket")
  /\ LET ended == IF conn.writable THEN SocketEnd(Popped) ELSE Popped
     IN conn' = IF ~ended.writable /\ ended.held = 0
                THEN Destroy(ended) ELSE [ended EXCEPT !.readable = FALSE]
  /\ UNCHANGED <<body, calls>>

\* socketOnEnd, with httpAllowHalfOpen: the last response in line ends the connection.
LastInLine(m) ==
  IF m.outgoing # <<>> THEN [m EXCEPT !.res[Last(m.outgoing)].last = TRUE]
  ELSE [m EXCEPT !.res[m.httpMessage].last = TRUE]

\* The client ends its side; in the middle of a request the parser may call it an
\* error, unless it is paused.
ClientEnds ==
  /\ AtRest /\ ~conn.eof /\ ~conn.destroyed
  /\ LET m == [conn EXCEPT !.eof = TRUE]
     IN \/ m.reading /\ ~m.parserPaused /\ conn' = Destroy(m)
        \/ /\ ~m.halfOpen
           /\ conn' = Run(m, <<Item("abort", 0), Item("endSocket", 0)>>)
        \/ /\ m.halfOpen /\ (m.outgoing # <<>> \/ m.httpMessage # 0)
           /\ conn' = [LastInLine(m) EXCEPT !.readable = FALSE]
        \/ /\ m.halfOpen /\ m.outgoing = <<>> /\ m.httpMessage = 0
           /\ conn' = Run(m, <<Item("endSocket", 0)>>)
  /\ UNCHANGED <<body, calls>>

\* Unless it is careless, a client sends nothing more when the connection was to
\* end with a response and others were waiting behind it.
Sends == Careless \/ conn.httpMessage # 0 \/ conn.outgoing = <<>>

\* parserOnIncoming; a request without a body is complete at once.
ParserOnIncoming ==
  /\ Running("execute") /\ ~conn.reading /\ More /\ Sends
  /\ \E hasBody \in {FALSE, conn.count + body + 1 < MaxInput} :
       LET n      == conn.count + 1
           expect == hasBody /\ n \in Expecting
           pauses == conn.needDrain /\ ~conn.paused
           m      == [conn EXCEPT !.count = n, !.reading = TRUE, !.incoming = Append(@, n),
                                  !.paused = @ \/ pauses, !.flowing = @ /\ ~pauses]
           queued == [m EXCEPT !.outgoing = IF m.httpMessage = 0 THEN @ ELSE Append(@, n)]
       IN conn' = Run(queued, (IF m.httpMessage = 0 THEN <<Item("assign", n)>> ELSE <<>>)
                              \o (IF expect THEN <<Item("continue", n)>> ELSE <<>>)
                              \o <<User>>
                              \o (IF hasBody THEN <<>> ELSE <<Item("complete", n)>>))
  /\ UNCHANGED <<body, calls>>

\* writeContinue
WriteContinue ==
  /\ Running("continue")
  /\ LET piece == <<Piece(Top, "continue")>>
     IN conn' = WriteRaw(Top, piece, [Popped EXCEPT !.res[Top].given = @ \o piece])
  /\ UNCHANGED <<body, calls>>

\* parserOnBody: what nobody reads yet is kept and, at the high water mark, stops
\* the socket.
ParserOnBody ==
  /\ Running("execute") /\ conn.reading /\ More
  /\ body' = body + 1
  /\ LET req == conn.req[conn.count]
     IN \/ /\ req.dumped \/ (req.consuming /\ req.kept = "none")
           /\ conn' = conn
        \/ /\ ~req.dumped /\ ~(req.consuming /\ req.kept = "none")
           /\ \E kept \in {"some", "full"} \ (IF req.kept = "full" THEN {"some"} ELSE {}) :
                LET m == [conn EXCEPT !.req[conn.count].kept = kept]
                IN conn' = IF kept = "full" THEN ReadStop(m) ELSE m
  /\ UNCHANGED calls

\* parserOnMessageComplete, in execute or right after the head.
ParserOnMessageComplete ==
  /\ \/ Running("execute") /\ conn.reading
     \/ Running("complete")
  /\ conn' = ReadStart([(IF Running("complete") THEN Popped ELSE conn) EXCEPT !.reading = FALSE])
  /\ UNCHANGED <<body, calls>>

\* How far the parser is: heads, pieces and ends of requests.
Parsed == 2 * conn.count + body - (IF conn.reading THEN 1 ELSE 0)

\* parser.execute has parsed something and returns; a socket that was paused meanwhile pauses the parser.
ExecuteReturns ==
  /\ Running("execute") /\ Parsed > Top
  /\ conn' = [Popped EXCEPT !.parserPaused = @ \/ conn.paused]
  /\ UNCHANGED <<body, calls>>

\* socketOnData
SocketOnData ==
  /\ AtRest /\ conn.flowing /\ conn.readable /\ ~conn.eof
  /\ conn.reading \/ (More /\ Sends)
  /\ conn' = Run(conn, <<Item("execute", Parsed)>>)
  /\ UNCHANGED <<body, calls>>

\* The tick of req.resume(): the request is read and, unless it is complete, so is
\* the socket.
ResumeReq ==
  /\ conn.todo = <<>> /\ conn.ticks # <<>>
  /\ LET n == Head(conn.ticks)
         m == [conn EXCEPT !.ticks = Tail(@), !.req[n].kept = "none"]
     IN conn' = IF conn.reading /\ n = conn.count THEN ReadStart(m) ELSE m
  /\ UNCHANGED <<body, calls>>

\* socketOnDrain, if it had paused.
Drained(m) == [m EXCEPT !.paused = FALSE, !.parserPaused = FALSE, !.flowing = TRUE]

SocketOnDrain ==
  /\ Running("drained")
  /\ conn' = IF conn.paused THEN Drained(Popped) ELSE Popped
  /\ UNCHANGED <<body, calls>>

\* The socket has written what it held: 'drain', first for the response, or 'finish'.
SocketWrites ==
  /\ AtRest /\ conn.held > 0 /\ ~conn.destroyed
  /\ LET m == [conn EXCEPT !.held = 0, !.needDrain = FALSE]
         n == conn.httpMessage
     IN conn' = CASE conn.ending -> Finished([conn EXCEPT !.held = 0])
                  [] ~conn.ending /\ conn.needDrain ->
                       IF n = 0 THEN Run(m, <<Item("drained", 0)>>)
                       ELSE Run([m EXCEPT !.res[n].waits = FALSE],
                                <<User, Item("drained", 0)>>)
                  [] OTHER -> m
  /\ UNCHANGED <<body, calls>>

\* A timeout, or an error of the socket.
SocketFails ==
  /\ AtRest /\ ~conn.destroyed
  /\ conn' = Destroy(conn)
  /\ UNCHANGED <<body, calls>>

\* 'close': requests are aborted, then the response that has the socket is told.
SocketCloses ==
  /\ AtRest /\ conn.destroyed /\ ~conn.closed
  /\ conn' = Run([conn EXCEPT !.closed = TRUE],
                 <<Item("abort", 0)>> \o (IF conn.httpMessage = 0 THEN <<>>
                                          ELSE <<User>>))
  /\ UNCHANGED <<body, calls>>

UserReturns ==
  /\ Running("user")
  /\ conn' = Popped
  /\ UNCHANGED <<body, calls>>

-----------------------------------------------------------------------------
(* The user: handlers of requests and responses, and turns of its own. *)

Call ==
  /\ AtRest \/ Running("user")
  /\ calls < MaxCalls /\ calls' = calls + 1
  /\ UNCHANGED body

\* write(): buffers when the response has a length, else strings.  Unless it is
\* careless, a user writes no buffer while a "100 Continue" waits in output, which
\* the head would overtake.
Write(n) ==
  /\ Call /\ ~conn.res[n].finished
  /\ \E m \in WithHeader(n, conn) :
       LET asBuffer == m.res[n].header = "length" /\ (Careless \/ m.res[n].output = <<>>)
       IN conn' = Send(n, <<Piece(n, "body")>>, asBuffer, m)

\* Unless it is careless, a user does not end a response in the handler of an
\* aborted request while others are still to be aborted.
Ends == Careless \/ ~Within("abort") \/ conn.incoming = <<>>

\* end(); data that it is given are written first, as by write().
End(n) ==
  /\ Call /\ ~conn.res[n].finished /\ Ends
  /\ \E m \in WithHeader(n, conn) : conn' = SendEnd(n, m)

\* res.destroy()
DestroyResponse(n) ==
  /\ Call /\ ~conn.res[n].answered
  /\ conn' = IF conn.httpMessage = n THEN Destroy(conn)
             ELSE [conn EXCEPT !.res[n].destroys = TRUE]

\* req.resume(), which changes nothing when the request is read already.
Consume(n) ==
  /\ Call /\ ~conn.req[n].consuming /\ ~conn.req[n].dumped
  /\ conn' = [conn EXCEPT !.req[n].consuming = TRUE, !.ticks = Append(@, n)]

-----------------------------------------------------------------------------

Response == [header |-> "none", headerSent |-> FALSE, last |-> FALSE, finished |-> FALSE,
             output |-> <<>>, waits |-> FALSE, destroys |-> FALSE, answered |-> FALSE,
             given |-> <<>>]
Request == [consuming |-> FALSE, dumped |-> FALSE, kept |-> "none", aborted |-> 0]

Init ==
  /\ \E halfOpen \in HalfOpens :
       conn = [halfOpen |-> halfOpen, incoming |-> <<>>, outgoing |-> <<>>, httpMessage |-> 0,
               count |-> 0, reading |-> FALSE, parserPaused |-> FALSE, paused |-> FALSE,
               res |-> [n \in Requests |-> Response], req |-> [n \in Requests |-> Request],
               wire |-> <<>>, held |-> 0, needDrain |-> FALSE, flowing |-> TRUE,
               readable |-> TRUE, writable |-> TRUE, ending |-> FALSE, finished |-> FALSE,
               soon |-> FALSE, eof |-> FALSE, destroyed |-> FALSE, closed |-> FALSE,
               todo |-> <<>>, ticks |-> <<>>]
  /\ body = 0 /\ calls = 0

UserCall == \E n \in Known : Write(n) \/ End(n) \/ DestroyResponse(n) \/ Consume(n)

\* The code of this turn.
Step ==
  \/ ParserOnIncoming \/ ParserOnBody \/ ParserOnMessageComplete \/ ExecuteReturns
  \/ Assign \/ Prefinish \/ AbortIncoming \/ EndSocket \/ WriteContinue \/ SocketOnDrain
  \/ ResumeReq \/ UserReturns

Client == SocketOnData \/ ClientEnds \/ SocketFails

Next == UserCall \/ Step \/ Client \/ SocketWrites \/ SocketCloses

Spec == Init /\ [][Next]_vars

-----------------------------------------------------------------------------
(* Properties *)

TypeOK ==
  /\ conn.count \in 0 .. MaxInput /\ conn.httpMessage \in 0 .. conn.count
  /\ ToSet(conn.incoming) \cup ToSet(conn.outgoing) \subseteq Known
  /\ conn.held \in Nat /\ (conn.destroyed => ~conn.writable /\ ~conn.readable)
  /\ \A n \in Requests : conn.req[n].aborted \in {0, 1}
  /\ \A n \in Requests : conn.res[n].header \in {"none", "chunked", "length"}

\* The asserts of the handlers: a response that finishes has the socket and
\* answers the first request, the next one finds the socket free, and no data
\* come to a server that has paused.
AssertsHold ==
  /\ Running("prefinish") => IncomingIsFirst(Top) /\ conn.httpMessage = Top
  /\ Running("assign") => conn.httpMessage = 0
  /\ AtRest /\ conn.flowing => ~conn.paused /\ ~conn.parserPaused

\* What goes over the wire are the responses in the order of their requests, each
\* whole and as its user wrote it, before the next begins.
InOrder ==
  conn.wire # <<>> =>
    LET k == Last(conn.wire).of
    IN /\ IsPrefix(conn.wire, FlattenSeq([i \in 1 .. k |-> conn.res[i].given]))
       /\ \A i \in 1 .. k - 1 : conn.res[i].finished
       /\ Len(FlattenSeq([i \in 1 .. k - 1 |-> conn.res[i].given])) < Len(conn.wire)

\* The asserts hold.  A request is listed in incoming until it is answered or aborted, in order; its
\* response has the socket, is queued, is about to get the socket or has had it.
Accounted ==
  /\ AssertsHold
  /\ ToSet(conn.incoming) = {n \in Known : ~conn.res[n].answered /\ conn.req[n].aborted = 0}
  /\ \A i, j \in DOMAIN conn.incoming : i < j => conn.incoming[i] < conn.incoming[j]
  /\ \A n \in Known :
       Cardinality({p \in {"has", "queued", "next", "had"} :
         CASE p = "has" -> conn.httpMessage = n
           [] p = "queued" -> Contains(conn.outgoing, n)
           [] p = "next" -> \E i \in DOMAIN conn.todo : conn.todo[i] = Item("assign", n)
           [] p = "had" -> conn.res[n].answered}) = 1
  /\ AtRest /\ conn.closed => conn.incoming = <<>>

\* When nothing runs on an open connection: the server reads, unless a drain will
\* come or the user has yet to read the body of a request it has not answered; a user who was told to wait for
\* 'drain' will get it, or waits for earlier responses; and a response that was
\* finished, with all before it, has been sent.
NoStall ==
  AtRest =>
    /\ conn.readable /\ ~conn.flowing =>
         \/ conn.paused /\ conn.needDrain
         \/ conn.reading /\ conn.req[conn.count].kept = "full"
            /\ ~conn.req[conn.count].consuming /\ ~conn.res[conn.count].answered
    /\ conn.writable => \A n \in Known :
         /\ conn.res[n].waits /\ ~conn.res[n].finished =>
              Contains(conn.outgoing, n) \/ (conn.httpMessage = n /\ conn.needDrain)
         /\ (\A i \in 1 .. n : conn.res[i].finished) => conn.res[n].answered

\* No connection leaks: when a response that was to be the last is finished, and
\* when the client has ended and every response is finished, the socket is destroyed,
\* or ended and destroyed once it has written what it holds.
Closes ==
  AtRest /\ (\/ \E n \in Known : conn.res[n].last /\ conn.res[n].answered
             \/ conn.eof /\ \A n \in Known : conn.res[n].finished)
    => \/ conn.destroyed
       \/ conn.ending /\ conn.held > 0 /\ (conn.soon \/ conn.eof)

\* What the assert and the comment in resOnFinish say: "Usually the first incoming
\* element should be our request. it may be that in the case abortIncoming() was
\* called that the incoming array will be empty."
IncomingHead == Running("prefinish") => IncomingIsFirst(Top)
=============================================================================
