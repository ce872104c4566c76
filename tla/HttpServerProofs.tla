--------------------------- MODULE HttpServerProofs ---------------------------
(***************************************************************************)
(* Proofs about HttpServer: TypeOK, InOrder (responses go over the wire    *)
(* whole and in the order of their requests) and Accounted (each request   *)
(* and each response is in one place, and the handlers' asserts hold).     *)
(*                                                                         *)
(* The invariant of a connection, Good, says that its queues are           *)
(* intervals.  The requests up to Done are answered; incoming holds those  *)
(* after Heard; outgoing holds the responses after Out; at most one        *)
(* response, number Out, has the socket or is about to get it.  Wires says *)
(* that the wire, followed by what the response that has the socket has    *)
(* yet to write, is what the responses so far were given.                  *)
(*                                                                         *)
(* Then NoStall and Closes, of a connection at rest, from a second         *)
(* invariant, Live, which says what will let each thing that waits go on.  *)
(*                                                                         *)
(* The functions of the source take a connection to a connection, and so   *)
(* do most lemmas here: ...IsGood for a function, ...Keeps for an action.  *)
(***************************************************************************)
EXTENDS HttpServer, SequenceLemmas, FiniteSetTheorems, TLAPS

-----------------------------------------------------------------------------
(* The types. *)

Parts == {"continue", "head", "body", "end"}
Pieces == [of : Requests, part : Parts]
Responses == [header : {"none", "chunked", "length"}, headerSent : BOOLEAN, last : BOOLEAN,
              finished : BOOLEAN, output : Seq(Pieces), waits : BOOLEAN, destroys : BOOLEAN,
              answered : BOOLEAN, given : Seq(Pieces)]
RequestStates == [consuming : BOOLEAN, dumped : BOOLEAN, kept : {"none", "some", "full"},
                  aborted : {0, 1}]
Kinds == {"user", "assign", "continue", "complete", "execute", "prefinish", "abort",
          "endSocket", "drained"}
Items == {item \in [k : Kinds, n : Nat] :
            item.k \in {"assign", "prefinish", "continue"} => item.n \in Requests}

Connections ==
  [halfOpen : BOOLEAN, incoming : Seq(Requests), outgoing : Seq(Requests),
   httpMessage : {0} \cup Requests, count : {0} \cup Requests,
   reading : BOOLEAN, parserPaused : BOOLEAN, paused : BOOLEAN,
   res : [Requests -> Responses], req : [Requests -> RequestStates],
   wire : Seq(Pieces), held : Nat, needDrain : BOOLEAN, flowing : BOOLEAN,
   readable : BOOLEAN, writable : BOOLEAN, ending : BOOLEAN, finished : BOOLEAN,
   soon : BOOLEAN, eof : BOOLEAN, destroyed : BOOLEAN, closed : BOOLEAN,
   todo : Seq(Items), ticks : Seq(Requests)]

-----------------------------------------------------------------------------
(* The invariant. *)

\* The call stack of a connection holds an item of this kind; it is the top one.
Has(m, k) == \E i \in 1 .. Len(m.todo) : m.todo[i].k = k
IsTop(m, k) == m.todo # <<>> /\ m.todo[1].k = k

\* The response that has the socket or is about to get it; 0 if there is none.
Current(m) == IF IsTop(m, "assign") THEN m.todo[1].n ELSE m.httpMessage
\* The last response that is not queued, the last that is answered, and the last
\* request that is not in incoming.
Out(m) == m.count - Len(m.outgoing)
Done(m) == IF Current(m) = 0 THEN Out(m) ELSE Out(m) - 1
Heard(m) == m.count - Len(m.incoming)

\* The queues hold what is left of the requests, in order.
Queues(m) ==
  /\ Len(m.outgoing) <= m.count /\ Len(m.incoming) <= m.count
  /\ \A i \in 1 .. Len(m.outgoing) : m.outgoing[i] = Out(m) + i
  /\ \A i \in 1 .. Len(m.incoming) : m.incoming[i] = Heard(m) + i
  /\ Current(m) \in {0, Out(m)}
  /\ IsTop(m, "assign") => m.httpMessage = 0 /\ Current(m) # 0
  /\ Done(m) <= Heard(m)
  /\ \A n \in Requests :
       /\ m.res[n].answered <=> n <= Done(m)
       /\ n > Heard(m) => m.req[n].aborted = 0
       /\ n > Done(m) /\ n <= Heard(m) => m.req[n].aborted = 1

\* abortIncoming has begun.
SomeAborted(m) == \E n \in Requests : m.req[n].aborted = 1

\* A response gets the socket, or gives it up, on top of the stack only, and not in
\* the middle of abortIncoming; while the parser runs nothing has ended.
Stack(m) ==
  /\ \A i \in 2 .. Len(m.todo) : m.todo[i].k \notin {"assign", "prefinish"}
  /\ IsTop(m, "prefinish") => m.todo[1].n = m.httpMessage /\ m.httpMessage # 0
  /\ SomeAborted(m) /\ m.incoming # <<>> =>
       Has(m, "abort") /\ ~IsTop(m, "assign") /\ ~IsTop(m, "prefinish")
  /\ SomeAborted(m) \/ Has(m, "abort") => m.eof \/ m.closed
  /\ Has(m, "execute") => ~m.eof /\ ~m.closed /\ ~Has(m, "abort")
  /\ m.closed /\ ~Has(m, "abort") => m.incoming = <<>>

\* The socket's flags.
Flags(m) ==
  /\ m.destroyed => ~m.readable /\ ~m.writable
  /\ m.closed => m.destroyed
  /\ m.flowing => ~m.paused
  /\ m.parserPaused => m.paused

\* writeContinue comes before the first call of the user for its response.
Continues(m) ==
  \A i \in 1 .. Len(m.todo) : m.todo[i].k = "continue" =>
    /\ i # 1 => i = 2 /\ m.todo[1] = Item("assign", m.todo[2].n)
    /\ m.todo[i].n = m.count /\ m.count # 0
    /\ ~m.res[m.count].finished /\ m.res[m.count].output = <<>> /\ m.res[m.count].given = <<>>

\* What the responses up to k were given.
Given(m, k) == FlattenSeq([i \in 1 .. k |-> m.res[i].given])

\* The pieces that a response was given are its own.
Tagged(m) == \A n \in Requests : \A i \in 1 .. Len(m.res[n].given) : m.res[n].given[i].of = n

\* The last response that has had the socket, and what it has yet to write.
Latest(m) == IF m.httpMessage = 0 THEN Done(m) ELSE m.httpMessage
Unwritten(m) == IF m.httpMessage = 0 THEN <<>> ELSE m.res[m.httpMessage].output

\* InOrder, of any connection.
Ordered(m) ==
  m.wire # <<>> =>
    LET k == Last(m.wire).of
    IN /\ IsPrefix(m.wire, Given(m, k))
       /\ \A i \in 1 .. k - 1 : m.res[i].finished
       /\ Len(Given(m, k - 1)) < Len(m.wire)

\* What is written and what is to be written.
Wires(m) ==
  /\ Tagged(m) /\ Ordered(m)
  /\ m.writable => m.wire \o Unwritten(m) = Given(m, Latest(m))
  /\ \A n \in Requests :
       /\ n > Done(m) /\ n # m.httpMessage => m.res[n].output = m.res[n].given
       /\ n > m.count => m.res[n] = Response
       /\ m.res[n].answered => m.res[n].finished
  /\ IsTop(m, "prefinish") => m.res[m.httpMessage].finished /\ m.res[m.httpMessage].output = <<>>

\* The invariant of a connection, and that of the specification.
Good(m) ==
  /\ m \in Connections /\ (m.reading => m.count # 0)
  /\ Queues(m) /\ Stack(m) /\ Flags(m) /\ Continues(m) /\ Wires(m)

Inv == Good(conn) /\ body \in Nat /\ conn.count + body <= MaxInput

-----------------------------------------------------------------------------
(* The socket's functions. *)

\* A change of the socket's flags only, none of which is set again.
Down(m, k) ==
  /\ k.incoming = m.incoming /\ k.outgoing = m.outgoing /\ k.httpMessage = m.httpMessage
  /\ k.count = m.count /\ k.reading = m.reading
  /\ k.parserPaused = m.parserPaused /\ k.paused = m.paused /\ k.flowing = m.flowing
  /\ k.res = m.res /\ k.req = m.req /\ k.wire = m.wire /\ k.todo = m.todo
  /\ k.eof = m.eof /\ k.closed = m.closed
  /\ (k.writable => m.writable) /\ (k.readable => m.readable)
  /\ (m.destroyed => k.destroyed)
  /\ (m.destroyed => ~m.readable /\ ~m.writable) => (k.destroyed => ~k.readable /\ ~k.writable)

\* destroy() only puts flags down.
LEMMA DestroyIsDown ==
  ASSUME NEW m \in Connections
  PROVE  Destroy(m) \in Connections /\ Down(m, Destroy(m))
<1> QED
  BY DEF Connections, Destroy, Down

\* So do two such changes.
LEMMA DownTwice ==
  ASSUME NEW m, NEW k, NEW l, Down(m, k), Down(k, l)
  PROVE  Down(m, l)
<1> QED
  BY DEF Down

\* So does 'finish' of the socket.
LEMMA FinishedIsDown ==
  ASSUME NEW m \in Connections
  PROVE  Finished(m) \in Connections /\ Down(m, Finished(m))
<1> DEFINE done == [m EXCEPT !.finished = TRUE]
<1>1. done \in Connections /\ Down(m, done)
  BY DEF Connections, Down
<1>2. Finished(m) = done \/ Finished(m) = Destroy(done)
  BY DEF Finished
<1> HIDE DEF done
<1> QED
  BY <1>1, <1>2, DestroyIsDown, DownTwice

\* So does end() of the socket, which is not writable then.
LEMMA SocketEndIsDown ==
  ASSUME NEW m \in Connections
  PROVE  SocketEnd(m) \in Connections /\ Down(m, SocketEnd(m)) /\ ~SocketEnd(m).writable
<1> DEFINE ending == [m EXCEPT !.writable = FALSE, !.ending = TRUE]
<1>1. ending \in Connections /\ Down(m, ending) /\ ~ending.writable
  BY DEF Connections, Down
<1>2. SocketEnd(m) = ending \/ SocketEnd(m) = Finished(ending)
  BY DEF SocketEnd
<1> HIDE DEF ending
<1>3. Finished(ending) \in Connections /\ Down(ending, Finished(ending))
  BY <1>1, FinishedIsDown
<1>4. Down(m, Finished(ending)) /\ ~Finished(ending).writable
  <2>1. Down(m, Finished(ending))
    BY <1>1, <1>3, DownTwice
  <2>2. Finished(ending).writable \in BOOLEAN
    BY <1>3 DEF Connections
  <2> QED
    BY <1>1, <1>3, <2>1, <2>2 DEF Down
<1> QED
  BY <1>1, <1>2, <1>3, <1>4

\* So does destroySoon().
LEMMA DestroySoonIsDown ==
  ASSUME NEW m \in Connections
  PROVE  DestroySoon(m) \in Connections /\ Down(m, DestroySoon(m))
<1> DEFINE ended == IF m.writable THEN SocketEnd(m) ELSE m
           soon == [ended EXCEPT !.soon = TRUE]
<1>1. ended \in Connections /\ Down(m, ended)
  <2>1. Down(m, m)
    BY DEF Down
  <2> QED
    BY <2>1, SocketEndIsDown
<1>2. DestroySoon(m) = Destroy(ended) \/ DestroySoon(m) = soon
  BY DEF DestroySoon
<1> HIDE DEF ended
<1>3. soon \in Connections /\ Down(ended, soon)
  BY <1>1 DEF Connections, Down
<1> HIDE DEF soon
<1> QED
  BY <1>1, <1>2, <1>3, DestroyIsDown, DownTwice

-----------------------------------------------------------------------------
(* Responses write. *)

\* The queues and the flags are the same: a change of what responses and requests
\* hold, of what is written, and of the stack.
Alike(m, k) ==
  /\ k.incoming = m.incoming /\ k.outgoing = m.outgoing /\ k.httpMessage = m.httpMessage
  /\ k.count = m.count /\ k.reading = m.reading
  /\ k.parserPaused = m.parserPaused /\ k.paused = m.paused /\ k.flowing = m.flowing
  /\ k.readable = m.readable /\ k.writable = m.writable
  /\ k.eof = m.eof /\ k.destroyed = m.destroyed /\ k.closed = m.closed
  /\ \A n \in Requests : k.res[n].answered = m.res[n].answered
                         /\ k.req[n].aborted = m.req[n].aborted

\* The socket does not end, nothing is read, and no drain and no last response is
\* forgotten.
Beside(m, k) ==
  /\ k.ending = m.ending /\ k.finished = m.finished /\ k.soon = m.soon
  /\ k.req = m.req /\ k.ticks = m.ticks /\ m.held <= k.held
  /\ (m.needDrain => k.needDrain)
  /\ \A n \in Requests : m.res[n].last => k.res[n].last

\* Two changes of this kind are one.
LEMMA BesideTwice ==
  ASSUME NEW m \in Connections, NEW k \in Connections, NEW l \in Connections,
         Beside(m, k), Beside(k, l)
  PROVE  Beside(m, l)
<1>1. m.held \in Nat /\ k.held \in Nat /\ l.held \in Nat
  BY DEF Connections
<1>2. m.held <= l.held
  BY <1>1 DEF Beside
<1> QED
  BY <1>2 DEF Beside

\* What response n has been written to the socket, if it has it, and its user waits
\* for a 'drain' that will come.
Told(n, k) ==
  k.httpMessage = n /\ k.writable =>
    k.res[n].output = <<>> /\ (k.res[n].waits => k.needDrain)

\* What write() of the socket changes.
LEMMA SocketWriteAlike ==
  ASSUME NEW m \in Connections, NEW pieces \in Seq(Pieces)
  PROVE  LET k == SocketWrite(m, pieces)
         IN /\ k \in Connections /\ Alike(m, k) /\ k.todo = m.todo /\ k.res = m.res
            /\ k.wire = m.wire \o pieces /\ Beside(m, k) /\ (Full(k) => k.needDrain)
<1> DEFINE wire == m.wire \o pieces
           held == m.held + Len(pieces)
<1>1. wire \in Seq(Pieces) /\ held \in Nat /\ m.held <= held
  BY DEF Connections
<1>2. SocketWrite(m, pieces) =
        [m EXCEPT !.wire = wire, !.held = held, !.needDrain = @ \/ held >= Mark]
  BY DEF SocketWrite
<1>3. (held >= Mark) \in BOOLEAN
  OBVIOUS
<1> HIDE DEF wire, held
<1>4. /\ SocketWrite(m, pieces) \in Connections
      /\ Alike(m, SocketWrite(m, pieces))
      /\ SocketWrite(m, pieces).todo = m.todo /\ SocketWrite(m, pieces).res = m.res
      /\ SocketWrite(m, pieces).wire = wire
  BY <1>1, <1>2, <1>3, ZenonT(60) DEF Connections, Alike
<1>5. /\ Beside(m, SocketWrite(m, pieces))
      /\ Full(SocketWrite(m, pieces)) => SocketWrite(m, pieces).needDrain
  BY <1>1, <1>2, <1>3 DEF Connections, Beside, Full
<1> QED
  BY <1>4, <1>5 DEF wire

\* No response but n is changed, and that is not given anything.
OnlyOutput(n, m, k) ==
  /\ \A i \in Requests : i # n => k.res[i] = m.res[i]
  /\ k.res[n].finished = m.res[n].finished /\ k.res[n].answered = m.res[n].answered
  /\ k.res[n].given = m.res[n].given

FinishedAlike(n, m, k) == k.res[n].finished = m.res[n].finished

\* A response is replaced by one that is as much answered.
LEMMA SetResponse ==
  ASSUME NEW m \in Connections, NEW n \in Requests, NEW r \in Responses,
         r.answered = m.res[n].answered
  PROVE  LET k == [m EXCEPT !.res[n] = r]
         IN /\ k \in Connections /\ Alike(m, k) /\ k.todo = m.todo /\ k.wire = m.wire
            /\ k.res[n] = r /\ \A i \in Requests : i # n => k.res[i] = m.res[i]
            /\ (m.res[n].last => r.last) => Beside(m, k)
            /\ k.needDrain = m.needDrain
<1> DEFINE k == [m EXCEPT !.res[n] = r]
<1>1. m.res \in [Requests -> Responses]
  BY DEF Connections
<1>2. k = [m EXCEPT !.res = [m.res EXCEPT ![n] = r]]
  OBVIOUS
<1> HIDE DEF k
<1>3. /\ k \in Connections /\ k.res = [m.res EXCEPT ![n] = r]
      /\ k.todo = m.todo /\ k.wire = m.wire
  BY <1>1, <1>2 DEF Connections
<1>4. k.res[n] = r /\ \A i \in Requests : i # n => k.res[i] = m.res[i]
  BY <1>1, <1>3
<1>5. Alike(m, k)
  BY <1>1, <1>2, <1>4 DEF Connections, Alike
<1>6. (m.res[n].last => r.last) => Beside(m, k)
  BY <1>1, <1>2, <1>4 DEF Connections, Beside
<1>7. k.needDrain = m.needDrain
  BY <1>2 DEF Connections
<1> QED
  BY <1>3, <1>4, <1>5, <1>6, <1>7 DEF k

\* The output of a response is set.
LEMMA SetOutput ==
  ASSUME NEW m \in Connections, NEW n \in Requests, NEW out \in Seq(Pieces)
  PROVE  LET k == [m EXCEPT !.res[n].output = out]
         IN /\ k \in Connections /\ Alike(m, k) /\ OnlyOutput(n, m, k)
            /\ k.todo = m.todo /\ k.wire = m.wire /\ k.res[n].output = out
            /\ Beside(m, k) /\ k.res[n].waits = m.res[n].waits
<1> DEFINE k == [m EXCEPT !.res[n].output = out]
           r == [m.res[n] EXCEPT !.output = out]
<1>1. m.res[n] \in Responses
  BY DEF Connections
<1>2. /\ r \in Responses /\ r.output = out /\ r.finished = m.res[n].finished
      /\ r.answered = m.res[n].answered /\ r.given = m.res[n].given
      /\ r.last = m.res[n].last /\ r.waits = m.res[n].waits
  BY <1>1 DEF Responses
<1>3. k = [m EXCEPT !.res[n] = r]
  OBVIOUS
<1> HIDE DEF r, k
<1>4. /\ k \in Connections /\ Alike(m, k) /\ k.todo = m.todo /\ k.wire = m.wire
      /\ k.res[n] = r /\ \A i \in Requests : i # n => k.res[i] = m.res[i]
      /\ Beside(m, k)
  BY <1>2, <1>3, SetResponse
<1> QED
  BY <1>2, <1>4 DEF OnlyOutput, k

\* The user of a response waits for 'drain', or no longer.
LEMMA SetWaits ==
  ASSUME NEW m \in Connections, NEW n \in Requests, NEW waits \in BOOLEAN
  PROVE  LET k == [m EXCEPT !.res[n].waits = waits]
         IN /\ k \in Connections /\ Alike(m, k) /\ OnlyOutput(n, m, k)
            /\ k.todo = m.todo /\ k.wire = m.wire /\ k.res[n].output = m.res[n].output
            /\ Beside(m, k) /\ k.res[n].waits = waits /\ k.needDrain = m.needDrain
<1> DEFINE k == [m EXCEPT !.res[n].waits = waits]
           r == [m.res[n] EXCEPT !.waits = waits]
<1>1. m.res[n] \in Responses
  BY DEF Connections
<1>2. /\ r \in Responses /\ r.output = m.res[n].output /\ r.finished = m.res[n].finished
      /\ r.answered = m.res[n].answered /\ r.given = m.res[n].given
      /\ r.last = m.res[n].last /\ r.waits = waits
  BY <1>1 DEF Responses
<1>3. k = [m EXCEPT !.res[n] = r]
  OBVIOUS
<1> HIDE DEF r, k
<1>4. /\ k \in Connections /\ Alike(m, k) /\ k.todo = m.todo /\ k.wire = m.wire
      /\ k.res[n] = r /\ \A i \in Requests : i # n => k.res[i] = m.res[i]
      /\ Beside(m, k) /\ k.needDrain = m.needDrain
  BY <1>2, <1>3, SetResponse
<1> QED
  BY <1>2, <1>4 DEF OnlyOutput, k

\* Two changes of this kind are one.
LEMMA AlikeTwice ==
  ASSUME NEW m, NEW k, NEW l, Alike(m, k), Alike(k, l)
  PROVE  Alike(m, l)
<1> QED
  BY DEF Alike

\* Two changes of one response are one.
LEMMA OnlyOutputTwice ==
  ASSUME NEW m, NEW k, NEW l, NEW n, OnlyOutput(n, m, k), OnlyOutput(n, k, l)
  PROVE  OnlyOutput(n, m, l)
<1> QED
  BY DEF OnlyOutput

\* What _writeRaw changes, and where the pieces go.
LEMMA WriteRawAlike ==
  ASSUME NEW m \in Connections, NEW n \in Requests, NEW pieces \in Seq(Pieces)
  PROVE  LET k == WriteRaw(n, pieces, m)
         IN /\ k \in Connections /\ Alike(m, k) /\ OnlyOutput(n, m, k) /\ k.todo = m.todo
            /\ m.httpMessage = n /\ m.writable =>
                 k.wire = m.wire \o (m.res[n].output \o pieces) /\ k.res[n].output = <<>>
            /\ ~(m.httpMessage = n /\ m.writable) => k.wire = m.wire
            /\ m.httpMessage # n => k.res[n].output = m.res[n].output \o pieces
            /\ Beside(m, k) /\ Told(n, k)
<1> DEFINE k == WriteRaw(n, pieces, m)
<1>1. m.res[n] \in Responses /\ m.res[n].output \in Seq(Pieces)
  BY DEF Connections, Responses
<1>2. CASE m.httpMessage = n /\ m.writable
  <2> DEFINE data == m.res[n].output \o pieces
             emptied == [m EXCEPT !.res[n].output = <<>>]
             out == SocketWrite(emptied, data)
             full == Full(out)
  <2>1. data \in Seq(Pieces) /\ <<>> \in Seq(Pieces)
    BY <1>1
  <2>2. /\ emptied \in Connections /\ Alike(m, emptied) /\ OnlyOutput(n, m, emptied)
        /\ emptied.todo = m.todo /\ emptied.wire = m.wire /\ emptied.res[n].output = <<>>
        /\ Beside(m, emptied)
    BY <2>1, SetOutput
  <2>3. k = [out EXCEPT !.res[n].waits = full]
    BY <1>2 DEF WriteRaw, Pending
  <2>4. full \in BOOLEAN
    BY DEF Full
  <2> HIDE DEF emptied, data, full
  <2>5. /\ out \in Connections /\ Alike(emptied, out) /\ out.todo = emptied.todo
        /\ out.res = emptied.res /\ out.wire = emptied.wire \o data
        /\ Beside(emptied, out) /\ (full => out.needDrain)
    BY <2>1, <2>2, SocketWriteAlike DEF full
  <2> HIDE DEF out, k
  <2>6. OnlyOutput(n, emptied, out)
    BY <2>5 DEF OnlyOutput
  <2>7. /\ k \in Connections /\ Alike(out, k) /\ OnlyOutput(n, out, k)
        /\ k.todo = out.todo /\ k.wire = out.wire /\ k.res[n].output = out.res[n].output
        /\ Beside(out, k) /\ k.res[n].waits = full /\ k.needDrain = out.needDrain
    <3> DEFINE l == [out EXCEPT !.res[n].waits = full]
    <3>1. out \in Connections
      BY <2>5
    <3>2. /\ l \in Connections /\ Alike(out, l) /\ OnlyOutput(n, out, l)
          /\ l.todo = out.todo /\ l.wire = out.wire /\ l.res[n].output = out.res[n].output
          /\ Beside(out, l) /\ l.res[n].waits = full /\ l.needDrain = out.needDrain
      BY <2>4, <3>1, SetWaits
    <3>3. k = l
      BY <2>3
    <3> HIDE DEF l
    <3> QED
      BY <3>2, <3>3
  <2>8. Alike(m, k) /\ OnlyOutput(n, m, k)
    BY <2>2, <2>5, <2>6, <2>7, AlikeTwice, OnlyOutputTwice
  <2>9. k.todo = m.todo /\ k.wire = m.wire \o data /\ k.res[n].output = <<>>
    BY <2>2, <2>5, <2>7
  <2>10. Beside(m, emptied) /\ Beside(emptied, out) /\ Beside(out, k)
    BY <2>2, <2>5, <2>7
  <2>11. Beside(m, k)
    BY <2>2, <2>5, <2>7, <2>10, BesideTwice
  <2>12. Told(n, k)
    BY <2>5, <2>7, <2>9 DEF Told
  <2> QED
    BY <1>2, <2>7, <2>8, <2>9, <2>11, <2>12 DEF k, data
<1>3. CASE ~(m.httpMessage = n /\ m.writable) /\ m.httpMessage = n /\ m.destroyed
  <2>1. k = m
    BY <1>3 DEF WriteRaw
  <2>2. ~m.writable \/ ~(m.httpMessage = n)
    BY <1>3
  <2>3. m.held \in Nat
    BY DEF Connections
  <2>4. Beside(m, m)
    BY <2>3 DEF Beside
  <2> QED
    BY <1>3, <2>1, <2>2, <2>4 DEF Alike, OnlyOutput, Told
<1>4. CASE ~(m.httpMessage = n /\ m.writable) /\ ~(m.httpMessage = n /\ m.destroyed)
  <2> DEFINE data == m.res[n].output \o pieces
             more == [m EXCEPT !.res[n].output = data]
  <2>1. data \in Seq(Pieces)
    BY <1>1
  <2>2. k = [more EXCEPT !.res[n].waits = TRUE]
    BY <1>4 DEF WriteRaw
  <2> HIDE DEF data
  <2>3. /\ more \in Connections /\ Alike(m, more) /\ OnlyOutput(n, m, more)
        /\ more.todo = m.todo /\ more.wire = m.wire /\ more.res[n].output = data
        /\ Beside(m, more)
    BY <2>1, SetOutput
  <2> HIDE DEF more, k
  <2>4. /\ k \in Connections /\ Alike(more, k) /\ OnlyOutput(n, more, k)
        /\ k.todo = more.todo /\ k.wire = more.wire /\ k.res[n].output = more.res[n].output
        /\ Beside(more, k)
    BY <2>2, <2>3, SetWaits
  <2>5. Alike(m, k) /\ OnlyOutput(n, m, k)
    BY <2>3, <2>4, AlikeTwice, OnlyOutputTwice
  <2>6. Beside(m, k)
    BY <2>3, <2>4, BesideTwice
  <2>7. Told(n, k)
    BY <1>4, <2>5 DEF Told, Alike
  <2> QED
    BY <1>4, <2>3, <2>4, <2>5, <2>6, <2>7 DEF k, data
<1> QED
  BY <1>2, <1>3, <1>4

\* What a call gives to response n goes to the end of its output, or over the wire.
Gave(n, data, m, k) ==
  /\ \A i \in Requests : i # n => k.res[i] = m.res[i]
  /\ k.res[n].given = m.res[n].given \o data
  /\ m.httpMessage = n /\ m.writable =>
       k.wire \o k.res[n].output = (m.wire \o m.res[n].output) \o data
  /\ ~(m.httpMessage = n /\ m.writable) => k.wire = m.wire
  /\ m.httpMessage # n => k.res[n].output = m.res[n].output \o data

\* Pieces, and others, and others.
LEMMA Concatenate ==
  ASSUME NEW a \in Seq(Pieces), NEW b \in Seq(Pieces)
  PROVE  /\ a \o b \in Seq(Pieces)
         /\ a \o <<>> = a /\ <<>> \o a = a /\ <<>> \in Seq(Pieces)
<1>1. a \o b \in Seq(Pieces) /\ <<>> \in Seq(Pieces)
  OBVIOUS
<1>2. a \o <<>> = a /\ <<>> \o a = a
  BY ConcatEmptySeq
<1> QED
  BY <1>1, <1>2

\* Sequences of pieces may be joined in any order.
LEMMA Associate ==
  ASSUME NEW a \in Seq(Pieces), NEW b \in Seq(Pieces), NEW c \in Seq(Pieces)
  PROVE  (a \o b) \o c = a \o (b \o c)
<1> QED
  BY ConcatAssociative

\* A response that is set again.
LEMMA SetAgain ==
  ASSUME NEW m \in Connections, NEW n \in Requests, NEW q \in Responses, NEW r
  PROVE  /\ [m EXCEPT !.res[n] = q].res[n] = q
         /\ [[m EXCEPT !.res[n] = q] EXCEPT !.res[n] = r] = [m EXCEPT !.res[n] = r]
<1> DEFINE k == [m EXCEPT !.res[n] = q]
<1>1. m.res \in [Requests -> Responses]
  BY DEF Connections
<1>2. k = [m EXCEPT !.res = [m.res EXCEPT ![n] = q]]
  OBVIOUS
<1>3. k.res = [m.res EXCEPT ![n] = q]
  BY <1>2 DEF Connections
<1>4. [k EXCEPT !.res[n] = r] = [k EXCEPT !.res = [k.res EXCEPT ![n] = r]]
  OBVIOUS
<1> HIDE DEF k
<1>5. k.res[n] = q
  BY <1>1, <1>3
<1>6. [k.res EXCEPT ![n] = r] = [m.res EXCEPT ![n] = r]
  BY <1>1, <1>3
<1>7. [k EXCEPT !.res[n] = r] = [m EXCEPT !.res = [m.res EXCEPT ![n] = r]]
  BY <1>2, <1>4, <1>6 DEF Connections
<1> QED
  BY <1>5, <1>7 DEF k

\* What may change in response n before it is written, r in its place.
Noted(m, n, data, out, r) ==
  /\ r \in Responses /\ r.given = m.res[n].given \o data /\ r.output = out
  /\ r.finished = m.res[n].finished /\ r.answered = m.res[n].answered
  /\ r.last = m.res[n].last

\* _writeRaw, when the response has noted what it is given: what was put in front of
\* its output and the pieces are, together, its output and the data.
LEMMA WriteRawGives ==
  ASSUME NEW m \in Connections, NEW n \in Requests, NEW data \in Seq(Pieces),
         NEW out \in Seq(Pieces), NEW pieces \in Seq(Pieces), NEW r,
         out \o pieces = m.res[n].output \o data, Noted(m, n, data, out, r)
  PROVE  LET k == WriteRaw(n, pieces, [m EXCEPT !.res[n] = r])
         IN /\ k \in Connections /\ Alike(m, k) /\ k.todo = m.todo /\ Gave(n, data, m, k)
            /\ FinishedAlike(n, m, k) /\ Beside(m, k) /\ Told(n, k)
<1> DEFINE b == [m EXCEPT !.res[n] = r]
           k == WriteRaw(n, pieces, b)
           output == m.res[n].output
           wire == m.wire
<1>1. output \in Seq(Pieces) /\ wire \in Seq(Pieces)
  BY DEF Connections, Responses
<1>2. r \in Responses /\ r.answered = m.res[n].answered /\ r.last = m.res[n].last
  BY DEF Noted
<1>3. /\ b \in Connections /\ Alike(m, b) /\ b.todo = m.todo /\ b.wire = m.wire
      /\ b.res[n] = r /\ \A i \in Requests : i # n => b.res[i] = m.res[i]
      /\ Beside(m, b)
  BY <1>2, SetResponse, ZenonT(60)
<1> HIDE DEF b
<1>4. /\ k \in Connections /\ Alike(b, k) /\ OnlyOutput(n, b, k) /\ k.todo = b.todo
      /\ b.httpMessage = n /\ b.writable =>
           k.wire = b.wire \o (b.res[n].output \o pieces) /\ k.res[n].output = <<>>
      /\ ~(b.httpMessage = n /\ b.writable) => k.wire = b.wire
      /\ b.httpMessage # n => k.res[n].output = b.res[n].output \o pieces
      /\ Beside(b, k) /\ Told(n, k)
  BY <1>3, WriteRawAlike
<1> HIDE DEF k
<1>5. Alike(m, k) /\ k.todo = m.todo
  BY <1>3, <1>4, AlikeTwice
<1>6. b.httpMessage = m.httpMessage /\ b.writable = m.writable
  BY <1>3 DEF Alike
<1>7. m.httpMessage = n /\ m.writable =>
        k.wire \o k.res[n].output = (wire \o output) \o data
  <2> SUFFICES ASSUME m.httpMessage = n, m.writable
               PROVE  k.wire \o k.res[n].output = (wire \o output) \o data
    OBVIOUS
  <2>1. k.wire = wire \o (output \o data) /\ k.res[n].output = <<>>
    BY <1>3, <1>4, <1>6 DEF Noted
  <2>2. k.wire \in Seq(Pieces)
    BY <1>4 DEF Connections
  <2> HIDE DEF wire, output
  <2>3. wire \o (output \o data) = (wire \o output) \o data
    BY <1>1, Associate
  <2>4. k.wire \o <<>> = k.wire
    BY <2>2, Concatenate
  <2> QED
    BY <2>1, <2>3, <2>4
<1>8. Gave(n, data, m, k) /\ FinishedAlike(n, m, k)
  BY <1>3, <1>4, <1>6, <1>7 DEF Gave, OnlyOutput, Noted, FinishedAlike
<1>9. Beside(m, k)
  BY <1>3, <1>4, BesideTwice
<1> QED
  BY <1>4, <1>5, <1>8, <1>9 DEF k, b

\* What _send gives to the response: the head goes first, once.
SentData(n, pieces, m) ==
  IF m.res[n].headerSent THEN pieces ELSE <<Piece(n, "head")>> \o pieces

\* _send gives the response the data, and its head if it is the first.
LEMMA SendGives ==
  ASSUME NEW m \in Connections, NEW n \in Requests, NEW pieces \in Seq(Pieces),
         NEW asBuffer \in BOOLEAN, asBuffer => m.res[n].output = <<>>
  PROVE  LET k == Send(n, pieces, asBuffer, m)
         IN /\ k \in Connections /\ Alike(m, k) /\ k.todo = m.todo
            /\ Gave(n, SentData(n, pieces, m), m, k) /\ FinishedAlike(n, m, k)
            /\ Beside(m, k) /\ (Told(n, k) \/ (k = m /\ pieces = <<>>))
<1> DEFINE k == Send(n, pieces, asBuffer, m)
           head == <<Piece(n, "head")>>
           resp == m.res[n]
           output == resp.output
           given == resp.given
           data == head \o pieces
           set(r) == [m EXCEPT !.res[n] = r]
           r1 == [resp EXCEPT !.headerSent = TRUE]
           r2 == [r1 EXCEPT !.given = given \o head \o pieces]
           r3 == [r2 EXCEPT !.output = head \o output]
           r4 == [resp EXCEPT !.given = given \o pieces]
<1>1. /\ resp \in Responses /\ output \in Seq(Pieces) /\ given \in Seq(Pieces)
      /\ resp.headerSent \in BOOLEAN
  BY DEF Connections, Responses
<1>2. head \in Seq(Pieces)
  BY DEF Pieces, Parts, Piece
<1>3. /\ (given \o head) \o pieces = given \o data /\ data \in Seq(Pieces)
      /\ given \o data \in Seq(Pieces) /\ head \o output \in Seq(Pieces)
      /\ given \o pieces \in Seq(Pieces) /\ <<>> \o data = data
      /\ head \o <<>> = head /\ given \o <<>> = given /\ output \o <<>> = output
  <2> HIDE DEF given, head, output
  <2> QED
    BY <1>1, <1>2, Concatenate, Associate
<1>4. r1 \in Responses /\ r2 \in Responses /\ Noted(m, n, data, output, r2)
  <2> HIDE DEF head, data
  <2> QED
    BY <1>1, <1>3 DEF Responses, Noted
<1>5. r3 \in Responses /\ Noted(m, n, data, head \o output, r3)
  <2> DEFINE out == head \o output
  <2>1. out \in Seq(Pieces) /\ given \o head \o pieces = given \o data
    BY <1>3
  <2> HIDE DEF out, head, data
  <2>2. r2 \in Responses /\ Noted(m, n, data, output, r2)
    BY <1>4
  <2> HIDE DEF r2
  <2>3. [r2 EXCEPT !.output = out] \in Responses
        /\ Noted(m, n, data, out, [r2 EXCEPT !.output = out])
    BY <2>1, <2>2 DEF Responses, Noted
  <2> QED
    BY <2>3 DEF out
<1>6. r4 \in Responses /\ Noted(m, n, pieces, output, r4)
  BY <1>1, <1>3 DEF Responses, Noted
<1>s. \A q \in Responses : \A r :
        set(q).res[n] = q /\ [set(q) EXCEPT !.res[n] = r] = set(r)
  BY SetAgain
<1>w. ASSUME NEW d \in Seq(Pieces), NEW out \in Seq(Pieces), NEW p \in Seq(Pieces), NEW r,
             out \o p = output \o d, Noted(m, n, d, out, r), k = WriteRaw(n, p, set(r))
      PROVE  /\ k \in Connections /\ Alike(m, k) /\ k.todo = m.todo /\ Gave(n, d, m, k)
             /\ FinishedAlike(n, m, k) /\ Beside(m, k) /\ Told(n, k)
  <2> DEFINE l == WriteRaw(n, p, set(r))
  <2>1. /\ l \in Connections /\ Alike(m, l) /\ l.todo = m.todo /\ Gave(n, d, m, l)
        /\ FinishedAlike(n, m, l) /\ Beside(m, l) /\ Told(n, l)
    BY <1>w, WriteRawGives
  <2> HIDE DEF l, k
  <2>2. k = l
    BY <1>w DEF l
  <2> QED
    BY <2>1, <2>2
<1> DEFINE headed == [m EXCEPT !.res[n].headerSent = TRUE]
           to == [headed EXCEPT !.res[n].given = @ \o head \o pieces]
<1>7. to = set(r2)
  <2>1. headed = set(r1)
    OBVIOUS
  <2>2. headed.res[n] = r1 /\ [headed EXCEPT !.res[n] = r2] = set(r2)
    <3> HIDE DEF headed, r1, r2, set
    <3> QED
      BY <1>4, <1>s, <2>1
  <2>3. r1.given = given
    BY <1>1 DEF Responses
  <2> HIDE DEF headed, head
  <2>4. to = [headed EXCEPT !.res[n] = [headed.res[n] EXCEPT !.given = headed.res[n].given \o head \o pieces]]
    OBVIOUS
  <2> QED
    BY <2>2, <2>3, <2>4
<1>8. CASE ~resp.headerSent /\ asBuffer
  <2> DEFINE third == [to EXCEPT !.res[n].output = head \o @]
  <2>1. third = set(r3)
    <3>1. to.res[n] = r2 /\ [to EXCEPT !.res[n] = r3] = set(r3)
      <4> HIDE DEF to, r2, r3, set
      <4> QED
        BY <1>4, <1>7, <1>s
    <3>2. r2.output = output
      BY <1>4 DEF Noted
    <3> HIDE DEF to, head
    <3>3. third = [to EXCEPT !.res[n] = [to.res[n] EXCEPT !.output = head \o to.res[n].output]]
      OBVIOUS
    <3> QED
      BY <3>1, <3>2, <3>3
  <2>2. k = WriteRaw(n, pieces, third)
    BY <1>8 DEF Send
  <2>3. head \o output \in Seq(Pieces) /\ (head \o output) \o pieces = output \o data
    BY <1>3, <1>8
  <2>4. k = WriteRaw(n, pieces, set(r3))
    BY <2>1, <2>2
  <2>5. SentData(n, pieces, m) = data
    BY <1>8 DEF SentData
  <2> HIDE DEF third, to, r3, data, k, head, set
  <2> QED
    BY <1>3, <1>5, <1>w, <2>3, <2>4, <2>5 DEF k
<1>9. CASE ~resp.headerSent /\ ~asBuffer
  <2>1. k = WriteRaw(n, data, set(r2))
    BY <1>7, <1>9 DEF Send
  <2>2. SentData(n, pieces, m) = data
    BY <1>9 DEF SentData
  <2>3. <<>> \o data = data
    BY <1>3
  <2> HIDE DEF to, r2, data, k, head, set
  <2> QED
    BY <1>1, <1>3, <1>4, <1>w, <2>1, <2>2 DEF k
<1>10. CASE resp.headerSent /\ pieces = <<>>
  <2>1. k = m /\ SentData(n, pieces, m) = <<>>
    BY <1>10 DEF Send, SentData
  <2>2. m.wire \o output \in Seq(Pieces)
    BY <1>1 DEF Connections
  <2>3. (m.wire \o output) \o <<>> = m.wire \o output
    BY <2>2, Concatenate
  <2>4. m.held \in Nat
    BY DEF Connections
  <2>5. Beside(m, m)
    BY <2>4 DEF Beside
  <2> QED
    BY <1>3, <1>10, <2>1, <2>3, <2>5 DEF Alike, Gave, FinishedAlike
<1>11. CASE resp.headerSent /\ pieces # <<>>
  <2>1. k = WriteRaw(n, pieces, [m EXCEPT !.res[n].given = @ \o pieces])
    BY <1>11 DEF Send
  <2>2. [m EXCEPT !.res[n].given = @ \o pieces] = set(r4)
    OBVIOUS
  <2>3. SentData(n, pieces, m) = pieces /\ k = WriteRaw(n, pieces, set(r4))
    BY <1>11, <2>1, <2>2 DEF SentData
  <2> HIDE DEF r4, k, set
  <2> QED
    BY <1>1, <1>6, <1>w, <2>3 DEF k
<1> QED
  BY <1>1, <1>8, <1>9, <1>10, <1>11

\* Items go on the stack.
LEMMA RunAlike ==
  ASSUME NEW m \in Connections, NEW items \in Seq(Items)
  PROVE  LET k == Run(m, items)
         IN /\ k \in Connections /\ Alike(m, k) /\ k.res = m.res /\ k.wire = m.wire
            /\ k.todo = items \o m.todo /\ Beside(m, k)
<1> DEFINE todo == items \o m.todo
<1>1. todo \in Seq(Items)
  BY DEF Connections
<1>2. Run(m, items) = [m EXCEPT !.todo = todo]
  BY DEF Run
<1> HIDE DEF todo
<1>3. /\ Run(m, items) \in Connections /\ Alike(m, Run(m, items))
      /\ Run(m, items).res = m.res /\ Run(m, items).wire = m.wire /\ Run(m, items).todo = todo
  BY <1>1, <1>2 DEF Connections, Alike
<1>4. Beside(m, Run(m, items))
  BY <1>1, <1>2 DEF Connections, Beside
<1> QED
  BY <1>3, <1>4 DEF todo

\* A response is changed, but nothing that is written.
LEMMA OtherFields ==
  ASSUME NEW m \in Connections, NEW n \in Requests, NEW r \in Responses,
         r.finished = m.res[n].finished, r.answered = m.res[n].answered,
         r.given = m.res[n].given, r.output = m.res[n].output
  PROVE  LET k == [m EXCEPT !.res[n] = r]
         IN /\ k \in Connections /\ Alike(m, k) /\ OnlyOutput(n, m, k) /\ k.todo = m.todo
            /\ k.wire = m.wire /\ k.res[n].output = m.res[n].output /\ k.res[n] = r
            /\ (m.res[n].last => r.last) => Beside(m, k)
<1> DEFINE k == [m EXCEPT !.res[n] = r]
<1>1. /\ k \in Connections /\ Alike(m, k) /\ k.todo = m.todo /\ k.wire = m.wire
      /\ k.res[n] = r /\ \A i \in Requests : i # n => k.res[i] = m.res[i]
      /\ (m.res[n].last => r.last) => Beside(m, k)
  BY SetResponse
<1> HIDE DEF k
<1> QED
  BY <1>1 DEF OnlyOutput, k

\* _storeHeader
LEMMA WithHeaderAlike ==
  ASSUME NEW m \in Connections, NEW n \in Requests, NEW k \in WithHeader(n, m)
  PROVE  /\ k \in Connections /\ Alike(m, k) /\ OnlyOutput(n, m, k) /\ k.todo = m.todo
         /\ k.wire = m.wire /\ k.res[n].output = m.res[n].output /\ Beside(m, k)
<1>1. CASE m.res[n].header # "none"
  <2>1. k = m
    BY <1>1 DEF WithHeader
  <2>2. m.held \in Nat
    BY DEF Connections
  <2> QED
    BY <2>1, <2>2 DEF Alike, OnlyOutput, Beside
<1>2. CASE m.res[n].header = "none"
  <2>1. PICK framing \in {"chunked", "length"}, close \in BOOLEAN :
          k = Headed(n, framing, close, m)
    BY <1>2 DEF WithHeader
  <2> DEFINE r1 == [m.res[n] EXCEPT !.header = framing]
             last == m.res[n].last \/ close
             r2 == [r1 EXCEPT !.last = last]
             k1 == [m EXCEPT !.res[n] = r1]
  <2>2. m.res[n] \in Responses /\ m.res[n].last \in BOOLEAN
    BY DEF Connections, Responses
  <2>3. last \in BOOLEAN
    OBVIOUS
  <2> HIDE DEF last
  <2>4. /\ r1 \in Responses /\ r2 \in Responses /\ r1.last = m.res[n].last
        /\ r2.finished = m.res[n].finished /\ r2.answered = m.res[n].answered
        /\ r2.given = m.res[n].given /\ r2.output = m.res[n].output /\ r2.last = last
    BY <2>2, <2>3 DEF Responses
  <2>5. /\ k1.res[n] = r1 /\ [k1 EXCEPT !.res[n] = r2] = [m EXCEPT !.res[n] = r2]
    <3> DEFINE set(r) == [m EXCEPT !.res[n] = r]
    <3>1. \A q \in Responses : \A r :
            set(q).res[n] = q /\ [set(q) EXCEPT !.res[n] = r] = set(r)
      BY SetAgain
    <3>2. k1 = set(r1)
      OBVIOUS
    <3> HIDE DEF r1, r2, k1, set
    <3>3. k1.res[n] = r1 /\ [k1 EXCEPT !.res[n] = r2] = set(r2)
      BY <2>4, <3>1, <3>2
    <3> QED
      BY <3>3 DEF set
  <2>6. k = [k1 EXCEPT !.res[n] = r2]
    <3>1. k = [k1 EXCEPT !.res[n].last = @ \/ close]
      BY <2>1 DEF Headed
    <3> HIDE DEF k1, r1
    <3>2. k = [k1 EXCEPT !.res[n] = [k1.res[n] EXCEPT !.last = k1.res[n].last \/ close]]
      BY <3>1
    <3> QED
      BY <2>4, <2>5, <3>2 DEF last
  <2>7. k = [m EXCEPT !.res[n] = r2]
    BY <2>5, <2>6
  <2>8. m.res[n].last => r2.last
    BY <2>4 DEF last
  <2> HIDE DEF r2
  <2> QED
    BY <2>4, <2>7, <2>8, OtherFields
<1> QED
  BY <1>1, <1>2

\* A change of other fields, before a response is given data.
LEMMA GaveAfter ==
  ASSUME NEW m, NEW l, NEW k, NEW n, NEW data, OnlyOutput(n, m, l), Alike(m, l), l.wire = m.wire,
         l.res[n].output = m.res[n].output, Gave(n, data, l, k)
  PROVE  Gave(n, data, m, k)
<1> QED
  BY DEF OnlyOutput, Alike, Gave

\* Items of the stack.
LEMMA ItemType ==
  ASSUME NEW k \in Kinds, NEW n \in Nat,
         k \in {"assign", "prefinish", "continue"} => n \in Requests
  PROVE  Item(k, n) \in Items /\ Item(k, n).k = k /\ Item(k, n).n = n
<1> QED
  BY DEF Items, Item

\* One piece.
LEMMA OnePiece ==
  ASSUME NEW n \in Requests, NEW part \in Parts
  PROVE  <<Piece(n, part)>> \in Seq(Pieces)
<1> QED
  BY DEF Pieces, Piece

\* What a response is given by _send is its own.
LEMMA OwnData ==
  ASSUME NEW m \in Connections, NEW n \in Requests, NEW pieces \in Seq(Pieces),
         \A i \in 1 .. Len(pieces) : pieces[i].of = n
  PROVE  LET data == SentData(n, pieces, m)
         IN data \in Seq(Pieces) /\ \A i \in 1 .. Len(data) : data[i].of = n
<1> DEFINE data == SentData(n, pieces, m)
<1> DEFINE head == <<Piece(n, "head")>>
<1>1. head \in Seq(Pieces) /\ Len(head) = 1 /\ head[1].of = n
  BY OnePiece DEF Parts, Piece
<1>2. data = pieces \/ data = head \o pieces
  BY DEF SentData
<1> HIDE DEF head, data
<1>3. /\ head \o pieces \in Seq(Pieces) /\ Len(head \o pieces) = 1 + Len(pieces)
      /\ \A i \in 1 .. 1 + Len(pieces) : (head \o pieces)[i] = IF i = 1 THEN head[1] ELSE pieces[i - 1]
  <2>1. Len(pieces) \in Nat
    OBVIOUS
  <2>2. /\ head \o pieces \in Seq(Pieces) /\ Len(head \o pieces) = Len(head) + Len(pieces)
        /\ \A i \in 1 .. Len(head) + Len(pieces) :
             (head \o pieces)[i] = IF i <= Len(head) THEN head[i] ELSE pieces[i - Len(head)]
    BY <1>1, ConcatProperties
  <2> DEFINE both == head \o pieces
  <2> HIDE DEF both
  <2>3. both \in Seq(Pieces) /\ Len(both) = 1 + Len(pieces)
    BY <1>1, <2>2 DEF both
  <2>4. \A i \in 1 .. 1 + Len(pieces) : both[i] = IF i <= 1 THEN head[i] ELSE pieces[i - 1]
    BY <1>1, <2>2 DEF both
  <2>5. \A i \in 1 .. 1 + Len(pieces) : both[i] = IF i = 1 THEN head[1] ELSE pieces[i - 1]
    BY <2>1, <2>4
  <2> QED
    BY <2>3, <2>5 DEF both
<1>4. \A i \in 1 .. Len(head \o pieces) : (head \o pieces)[i].of = n
  <2> TAKE i \in 1 .. Len(head \o pieces)
  <2>1. i # 1 => i - 1 \in 1 .. Len(pieces)
    BY <1>1, <1>3
  <2> QED
    BY <1>1, <1>3, <2>1
<1>5. data \in Seq(Pieces) /\ \A i \in 1 .. Len(data) : data[i].of = n
  BY <1>1, <1>2, <1>3, <1>4
<1> QED
  BY <1>5 DEF data

\* end() gives the last chunk, and the response finishes if all is written.
LEMMA SendEndGives ==
  ASSUME NEW m \in Connections, NEW n \in Requests
  PROVE  LET k == SendEnd(n, m)
         IN /\ k \in Connections /\ Alike(m, k) /\ k.res[n].finished /\ Beside(m, k)
            /\ \E data \in Seq(Pieces) :
                 Gave(n, data, m, k) /\ \A i \in 1 .. Len(data) : data[i].of = n
            /\ \/ k.todo = m.todo
               \/ /\ m.httpMessage = n /\ k.res[n].output = <<>>
                  /\ k.todo = <<Item("prefinish", n)>> \o m.todo
            /\ m.httpMessage = n /\ m.writable /\ m.res[n].output = <<>> =>
                 k.res[n].output = <<>> /\ k.todo = <<Item("prefinish", n)>> \o m.todo
<1> DEFINE k == SendEnd(n, m)
           pieces == IF m.res[n].header = "chunked" THEN <<Piece(n, "end")>> ELSE <<>>
           sent == Send(n, pieces, FALSE, m)
           r == [sent.res[n] EXCEPT !.finished = TRUE]
           done == [sent EXCEPT !.res[n].finished = TRUE]
           data == SentData(n, pieces, m)
<1>1. pieces \in Seq(Pieces) /\ \A i \in 1 .. Len(pieces) : pieces[i].of = n
  <2>1. <<Piece(n, "end")>> \in Seq(Pieces)
    BY OnePiece DEF Parts
  <2> QED
    BY <2>1 DEF Piece
<1>2. k = IF done.res[n].output = <<>> /\ done.httpMessage = n
          THEN Run(done, <<Item("prefinish", n)>>) ELSE done
  BY DEF SendEnd
<1> HIDE DEF pieces, k
<1>3. data \in Seq(Pieces) /\ \A i \in 1 .. Len(data) : data[i].of = n
  BY <1>1, OwnData
<1>4. /\ sent \in Connections /\ Alike(m, sent) /\ sent.todo = m.todo /\ Gave(n, data, m, sent)
      /\ Beside(m, sent) /\ (Told(n, sent) \/ sent = m)
  BY <1>1, SendGives
<1> HIDE DEF sent, data
<1>5. /\ r \in Responses /\ r.answered = sent.res[n].answered /\ r.output = sent.res[n].output
      /\ r.given = sent.res[n].given /\ r.finished = TRUE /\ r.last = sent.res[n].last
  <2>1. sent.res[n] \in Responses
    BY <1>4 DEF Connections
  <2> QED
    BY <2>1 DEF Responses
<1>6. done = [sent EXCEPT !.res[n] = r]
  OBVIOUS
<1> HIDE DEF r, done
<1>7. /\ done \in Connections /\ Alike(sent, done) /\ done.todo = sent.todo /\ done.wire = sent.wire
      /\ done.res[n] = r /\ \A i \in Requests : i # n => done.res[i] = sent.res[i]
      /\ Beside(sent, done)
  BY <1>4, <1>5, <1>6, SetResponse
<1>8. Alike(m, done) /\ Gave(n, data, m, done) /\ done.res[n].finished
  BY <1>4, <1>5, <1>7, AlikeTwice DEF Gave
<1>11. Beside(m, done)
  BY <1>4, <1>7, BesideTwice
<1>12. m.httpMessage = n /\ m.writable /\ m.res[n].output = <<>> =>
         done.res[n].output = <<>> /\ done.httpMessage = n
  BY <1>4, <1>5, <1>7, <1>8 DEF Told, Alike
<1>9. CASE done.res[n].output = <<>> /\ done.httpMessage = n
  <2> DEFINE items == <<Item("prefinish", n)>>
  <2>1. items \in Seq(Items)
    <3>1. n \in Nat
      BY HttpServerAssumption DEF Requests
    <3>2. Item("prefinish", n) \in Items
      BY <3>1, ItemType DEF Kinds
    <3> QED
      BY <3>2
  <2>2. k = Run(done, items)
    BY <1>2, <1>9
  <2> HIDE DEF items
  <2>3. /\ k \in Connections /\ Alike(done, k) /\ k.res = done.res /\ k.wire = done.wire
        /\ k.todo = items \o done.todo /\ Beside(done, k)
    BY <1>7, <2>1, <2>2, RunAlike
  <2>4. Alike(m, k) /\ Gave(n, data, m, k) /\ k.res[n].finished
    BY <1>8, <2>3, AlikeTwice DEF Gave
  <2>5. m.httpMessage = n /\ k.res[n].output = <<>>
    BY <1>8, <1>9, <2>3 DEF Alike
  <2>6. k.todo = items \o m.todo
    BY <1>4, <1>7, <2>3
  <2>7. Beside(m, k)
    BY <1>7, <1>11, <2>3, BesideTwice
  <2> QED
    BY <1>3, <2>3, <2>4, <2>5, <2>6, <2>7 DEF k, items
<1>10. CASE ~(done.res[n].output = <<>> /\ done.httpMessage = n)
  <2>1. k = done
    BY <1>2, <1>10
  <2> QED
    BY <1>3, <1>4, <1>7, <1>8, <1>10, <1>11, <1>12, <2>1 DEF k
<1> QED
  BY <1>9, <1>10

\* The numbers of requests are natural numbers.
LEMMA NumbersAreNat == Requests \subseteq Nat
<1> QED
  BY HttpServerAssumption DEF Requests

\* Counts and numbers are natural numbers.
LEMMA CountIsNat ==
  ASSUME NEW m \in Connections
  PROVE  /\ m.count \in Nat /\ m.count <= MaxInput /\ MaxInput \in Nat
         /\ m.httpMessage \in Nat /\ Requests = 1 .. MaxInput
         /\ \A n \in Requests : n \in Nat /\ n >= 1 /\ n <= MaxInput
<1>1. m.count \in {0} \cup Requests /\ m.httpMessage \in {0} \cup Requests
  BY DEF Connections
<1> QED
  BY <1>1, HttpServerAssumption DEF Requests

\* _flush writes the output of the response that has the socket.
LEMMA FlushGives ==
  ASSUME NEW m \in Connections, NEW n \in Requests, m.httpMessage = n
  PROVE  LET k == Flush(n, m)
         IN /\ k \in Connections /\ Alike(m, k) /\ Gave(n, <<>>, m, k)
            /\ FinishedAlike(n, m, k)
            /\ m.res[n].output = <<>> /\ ~m.res[n].finished =>
                 k.todo = m.todo /\ k.res[n].output = <<>>
            /\ \/ k.todo = m.todo \/ k.todo = <<User>> \o m.todo
               \/ /\ k.res[n].output = <<>> /\ k.res[n].finished
                  /\ k.todo = <<Item("prefinish", n)>> \o m.todo
            /\ Beside(m, k)
            /\ m.writable =>
                 /\ k.res[n].output = <<>>
                 /\ k.res[n].finished => k.todo = <<Item("prefinish", n)>> \o m.todo
                 /\ k.res[n].waits /\ ~k.res[n].finished =>
                      k.needDrain \/ (m.res[n].output = <<>> /\ m.res[n].waits)
<1> DEFINE k == Flush(n, m)
           output == m.res[n].output
           emptied == [m EXCEPT !.res[n].output = <<>>]
           out == SocketWrite(emptied, output)
           told == [out EXCEPT !.res[n].waits = FALSE]
           last == <<Item("prefinish", n)>>
           user == <<User>>
<1>1. output \in Seq(Pieces) /\ m.wire \in Seq(Pieces) /\ <<>> \in Seq(Pieces)
  BY DEF Connections, Responses
<1>2. last \in Seq(Items) /\ user \in Seq(Items)
  <2>1. Item("prefinish", n) \in Items /\ Item("user", 0) \in Items
    BY ItemType, NumbersAreNat DEF Kinds
  <2> QED
    BY <2>1 DEF User
<1>3. ~m.writable => k = m
  BY DEF Flush
<1>4. m.writable => \/ k = Run(out, last) /\ out.res[n].finished
                    \/ k = Run(told, user) /\ output # <<>> /\ ~out.res[n].finished
                    \/ k = out /\ ~out.res[n].finished /\ (output = <<>> \/ Full(out))
  BY DEF Flush
<1>5. /\ emptied \in Connections /\ Alike(m, emptied) /\ OnlyOutput(n, m, emptied)
      /\ emptied.todo = m.todo /\ emptied.wire = m.wire /\ emptied.res[n].output = <<>>
      /\ Beside(m, emptied) /\ emptied.res[n].waits = m.res[n].waits
  BY <1>1, SetOutput, ZenonT(60)
<1>6. (m.wire \o output) \o <<>> = m.wire \o output
  BY <1>1, Concatenate
<1> HIDE DEF emptied, k, last, user, output
<1>7. /\ out \in Connections /\ Alike(emptied, out) /\ out.todo = emptied.todo
      /\ out.res = emptied.res /\ out.wire = emptied.wire \o output
      /\ Beside(emptied, out) /\ (Full(out) => out.needDrain)
  BY <1>1, <1>5, SocketWriteAlike
<1> HIDE DEF out
<1>8. /\ Alike(m, out) /\ out.todo = m.todo /\ out.wire = m.wire \o output
      /\ out.res[n].output = <<>> /\ out.res[n].given = m.res[n].given
      /\ out.res[n].finished = m.res[n].finished
      /\ \A i \in Requests : i # n => out.res[i] = m.res[i]
      /\ out.res[n].waits = m.res[n].waits
  BY <1>5, <1>7, AlikeTwice DEF OnlyOutput
<1>16. Beside(m, out)
  BY <1>5, <1>7, BesideTwice
<1>9. /\ told \in Connections /\ Alike(out, told) /\ OnlyOutput(n, out, told)
      /\ told.todo = out.todo /\ told.wire = out.wire /\ told.res[n].output = out.res[n].output
      /\ Beside(out, told) /\ ~told.res[n].waits
  <2> DEFINE waits == FALSE
             k2 == [out EXCEPT !.res[n].waits = waits]
  <2>1. waits \in BOOLEAN
    OBVIOUS
  <2> HIDE DEF waits
  <2>2. /\ k2 \in Connections /\ Alike(out, k2) /\ OnlyOutput(n, out, k2)
        /\ k2.todo = out.todo /\ k2.wire = out.wire /\ k2.res[n].output = out.res[n].output
        /\ Beside(out, k2) /\ k2.res[n].waits = waits
    BY <1>7, <2>1, SetWaits
  <2>3. told = k2
    BY DEF waits
  <2> HIDE DEF told, k2
  <2> QED
    BY <2>2, <2>3 DEF waits
<1> HIDE DEF told
<1>10. m.res[n].given \o <<>> = m.res[n].given /\ output \o <<>> = output
  <2>1. m.res[n].given \in Seq(Pieces)
    BY DEF Connections, Responses
  <2> QED
    BY <1>1, <2>1, Concatenate
<1>11. ASSUME NEW l, Alike(out, l), l.wire = out.wire, OnlyOutput(n, out, l),
              l.res[n].output = out.res[n].output, m.writable
       PROVE  Alike(m, l) /\ Gave(n, <<>>, m, l) /\ FinishedAlike(n, m, l)
  <2>1. Alike(m, l)
    BY <1>8, <1>11, AlikeTwice
  <2>2. l.wire \o l.res[n].output = (m.wire \o output) \o <<>>
    BY <1>8, <1>11
  <2>3. FinishedAlike(n, m, l)
    BY <1>8, <1>11 DEF OnlyOutput, FinishedAlike
  <2>4. Gave(n, <<>>, m, l)
    BY <1>8, <1>10, <1>11, <2>2 DEF OnlyOutput, Gave, output
  <2> QED
    BY <2>1, <2>3, <2>4
<1>12. CASE ~m.writable
  <2>1. k = m
    BY <1>3, <1>12
  <2>2. m.held \in Nat
    BY DEF Connections
  <2>3. Beside(m, m)
    BY <2>2 DEF Beside
  <2> QED
    BY <1>10, <1>12, <2>1, <2>3 DEF Alike, Gave, FinishedAlike, k, output
<1>13. CASE m.writable /\ k = Run(out, last) /\ out.res[n].finished
  <2>1. /\ k \in Connections /\ Alike(out, k) /\ k.res = out.res /\ k.wire = out.wire
        /\ k.todo = last \o out.todo /\ Beside(out, k)
    BY <1>2, <1>7, <1>13, RunAlike
  <2>2. OnlyOutput(n, out, k)
    BY <2>1 DEF OnlyOutput
  <2>3. Alike(m, k) /\ Gave(n, <<>>, m, k) /\ FinishedAlike(n, m, k)
    BY <1>11, <1>13, <2>1, <2>2
  <2>4. k.todo = last \o m.todo /\ k.res[n].output = <<>> /\ k.res[n].finished
    BY <1>8, <1>13, <2>1
  <2>5. Beside(m, k)
    BY <1>7, <1>16, <2>1, BesideTwice
  <2> QED
    BY <1>8, <1>13, <2>1, <2>3, <2>4, <2>5 DEF k, last
<1>14. CASE m.writable /\ k = Run(told, user) /\ output # <<>> /\ ~out.res[n].finished
  <2>1. /\ k \in Connections /\ Alike(told, k) /\ k.res = told.res /\ k.wire = told.wire
        /\ k.todo = user \o told.todo /\ Beside(told, k)
    BY <1>2, <1>9, <1>14, RunAlike
  <2>2. Alike(out, k) /\ OnlyOutput(n, out, k) /\ k.wire = out.wire
        /\ k.res[n].output = out.res[n].output
    BY <1>9, <2>1, AlikeTwice DEF OnlyOutput
  <2>3. Alike(m, k) /\ Gave(n, <<>>, m, k) /\ FinishedAlike(n, m, k)
    BY <1>11, <1>14, <2>2
  <2>4. k.todo = user \o m.todo
    BY <1>8, <1>9, <2>1
  <2>5. Beside(m, k)
    BY <1>7, <1>9, <1>16, <2>1, BesideTwice
  <2>6. k.res[n].output = <<>> /\ ~k.res[n].finished /\ ~k.res[n].waits
    BY <1>8, <1>9, <1>14, <2>1 DEF OnlyOutput
  <2> QED
    BY <1>14, <2>1, <2>3, <2>4, <2>5, <2>6 DEF k, user, output
<1>15. CASE /\ m.writable /\ k = out
            /\ ~out.res[n].finished /\ (output = <<>> \/ Full(out))
  <2>1. Alike(out, k) /\ OnlyOutput(n, out, k) /\ k.wire = out.wire
        /\ k.res[n].output = out.res[n].output
    BY <1>15 DEF Alike, OnlyOutput
  <2>2. Alike(m, k) /\ Gave(n, <<>>, m, k) /\ FinishedAlike(n, m, k)
    BY <1>11, <1>15, <2>1
  <2> QED
    BY <1>7, <1>8, <1>15, <1>16, <2>2 DEF k, output
<1> QED
  BY <1>4, <1>12, <1>13, <1>14, <1>15

\* _dump, and what reads the socket.
LEMMA DumpAlike ==
  ASSUME NEW m \in Connections, NEW n \in Requests
  PROVE  LET k == Dump(n, m)
         IN /\ k \in Connections /\ Alike(m, k) /\ k.res = m.res /\ k.wire = m.wire
            /\ k.todo = m.todo
<1> DEFINE k == Dump(n, m)
           q == [m.req[n] EXCEPT !.dumped = TRUE]
           ticks == Append(m.ticks, n)
<1>1. m.req \in [Requests -> RequestStates] /\ m.req[n] \in RequestStates /\ ticks \in Seq(Requests)
  BY DEF Connections
<1>2. q \in RequestStates /\ q.aborted = m.req[n].aborted
  BY <1>1 DEF RequestStates
<1>3. k = m \/ k = [m EXCEPT !.req = [m.req EXCEPT ![n] = q], !.ticks = ticks]
  BY DEF Dump
<1> HIDE DEF q, ticks
<1> DEFINE l == [m EXCEPT !.req = [m.req EXCEPT ![n] = q], !.ticks = ticks]
<1>4. /\ l \in Connections /\ l.req = [m.req EXCEPT ![n] = q]
      /\ l.res = m.res /\ l.wire = m.wire /\ l.todo = m.todo
  BY <1>1, <1>2 DEF Connections
<1>5. \A i \in Requests : l.req[i].aborted = m.req[i].aborted
  BY <1>1, <1>2, <1>4
<1>6. Alike(m, l)
  <2>1. /\ l.incoming = m.incoming /\ l.outgoing = m.outgoing /\ l.httpMessage = m.httpMessage
        /\ l.count = m.count /\ l.reading = m.reading
        /\ l.parserPaused = m.parserPaused /\ l.paused = m.paused /\ l.flowing = m.flowing
        /\ l.readable = m.readable /\ l.writable = m.writable
        /\ l.eof = m.eof /\ l.destroyed = m.destroyed /\ l.closed = m.closed
    BY <1>1 DEF Connections
  <2> QED
    BY <1>4, <1>5, <2>1 DEF Alike
<1> HIDE DEF l, k
<1>7. k = m \/ k = l
  BY <1>3 DEF l
<1>8. Alike(m, m)
  BY DEF Alike
<1> QED
  BY <1>4, <1>6, <1>7, <1>8 DEF k

-----------------------------------------------------------------------------
(* What the responses were given. *)

\* No response, no pieces.
LEMMA GivenNone ==
  ASSUME NEW m
  PROVE  Given(m, 0) = <<>>
<1> DEFINE s == [i \in 1 .. 0 |-> m.res[i].given]
<1>1. s = <<>>
  OBVIOUS
<1>2. Given(m, 0) = FlattenSeq(s)
  BY DEF Given
<1> HIDE DEF s
<1> QED
  BY <1>1, <1>2 DEF FlattenSeq

\* One response more.
LEMMA GivenNext ==
  ASSUME NEW m \in Connections, NEW k \in Nat, k + 1 \in Requests
  PROVE  /\ Given(m, k) \in Seq(Pieces) /\ m.res[k + 1].given \in Seq(Pieces)
         /\ Given(m, k + 1) = Given(m, k) \o m.res[k + 1].given
<1> DEFINE s == [i \in 1 .. k |-> m.res[i].given]
           t == [i \in 1 .. k + 1 |-> m.res[i].given]
           x == m.res[k + 1].given
<1>1. \A i \in Requests : m.res[i].given \in Seq(Pieces)
  BY DEF Connections, Responses
<1>2. 1 .. k + 1 \subseteq Requests
  BY HttpServerAssumption DEF Requests
<1>3. s \in Seq(Seq(Pieces)) /\ x \in Seq(Pieces)
  <2>1. \A i \in 1 .. k : m.res[i].given \in Seq(Pieces)
    BY <1>1, <1>2
  <2> QED
    BY <1>1, <2>1
<1>4. t = Append(s, x)
  <2> DEFINE given == [i \in Requests |-> m.res[i].given]
  <2>1. s = [i \in 1 .. k |-> given[i]] /\ t = [i \in 1 .. k + 1 |-> given[i]] /\ x = given[k + 1]
    BY <1>2
  <2> HIDE DEF given, s, t, x
  <2> QED
    BY <2>1
<1>5. Given(m, k) = FlattenSeq(s) /\ Given(m, k + 1) = FlattenSeq(t)
  BY DEF Given
<1> HIDE DEF s, t, x
<1>6. Given(m, k) \in Seq(Pieces) /\ x \in Seq(Pieces) /\ Given(m, k + 1) = Given(m, k) \o x
  BY <1>3, <1>4, <1>5, FlattenAppend
<1> QED
  BY <1>6 DEF x

\* What the responses were given is a sequence of pieces.
LEMMA GivenSequence ==
  ASSUME NEW m \in Connections, NEW k \in {0} \cup Requests
  PROVE  Given(m, k) \in Seq(Pieces)
<1>1. CASE k = 0
  <2>1. <<>> \in Seq(Pieces)
    OBVIOUS
  <2> QED
    BY <1>1, <2>1, GivenNone
<1>2. CASE k # 0
  <2>1. k - 1 \in Nat /\ (k - 1) + 1 = k /\ k \in Requests
    BY <1>2, HttpServerAssumption DEF Requests
  <2>2. Given(m, k - 1) \in Seq(Pieces) /\ m.res[k].given \in Seq(Pieces)
        /\ Given(m, k) = Given(m, k - 1) \o m.res[k].given
    BY <2>1, GivenNext
  <2> QED
    BY <2>2, Concatenate
<1> QED
  BY <1>1, <1>2

\* The same if the same was given.
LEMMA GivenSame ==
  ASSUME NEW m, NEW l, NEW k, \A i \in 1 .. k : l.res[i].given = m.res[i].given
  PROVE  Given(l, k) = Given(m, k)
<1>1. [i \in 1 .. k |-> l.res[i].given] = [i \in 1 .. k |-> m.res[i].given]
  OBVIOUS
<1> QED
  BY <1>1 DEF Given

\* Piece p of what responses up to k were given is one of the response it is of.
Placed(m, k, p) ==
  LET j == Given(m, k)[p].of
  IN /\ j \in 1 .. k
     /\ Len(Given(m, j - 1)) < p /\ p <= Len(Given(m, j)) /\ Len(Given(m, j)) <= Len(Given(m, k))
     /\ \A q \in 1 .. Len(Given(m, j)) : Given(m, j)[q] = Given(m, k)[q]

\* Each place in what the responses up to k were given is in one of them.
LEMMA GivenPlaces ==
  ASSUME NEW m \in Connections, Tagged(m), NEW k \in {0} \cup Requests,
         NEW p \in 1 .. Len(Given(m, k))
  PROVE  Placed(m, k, p)
<1> DEFINE I == {i \in {0} \cup Requests : ~ \A q \in 1 .. Len(Given(m, i)) : Placed(m, i, q)}
<1> SUFFICES ASSUME I # {} PROVE FALSE
  OBVIOUS
<1>1. I \in SUBSET Nat
  <2>1. {0} \cup Requests \subseteq Nat
    BY NumbersAreNat
  <2>2. I \subseteq {0} \cup Requests
    OBVIOUS
  <2> HIDE DEF I
  <2> QED
    BY <2>1, <2>2
<1>2. PICK i \in I : \A y \in I : i =< y
  BY <1>1, LeastNumber
<1>3. i \in {0} \cup Requests
  OBVIOUS
<1>4. PICK q \in 1 .. Len(Given(m, i)) : ~Placed(m, i, q)
  OBVIOUS
<1>5. i # 0
  BY <1>4, GivenNone
<1>6. i - 1 \in {0} \cup Requests /\ i - 1 \in Nat /\ (i - 1) + 1 = i /\ ~(i =< i - 1)
      /\ i \in Requests
  BY <1>3, <1>5, HttpServerAssumption DEF Requests
<1>7. \A r \in 1 .. Len(Given(m, i - 1)) : Placed(m, i - 1, r)
  <2>1. i - 1 \notin I
    <3> HIDE DEF I
    <3> QED
      BY <1>2, <1>6
  <2> QED
    BY <1>6, <2>1
<1> HIDE DEF I
<1> DEFINE a == Given(m, i - 1)
           g == m.res[i].given
           b == Given(m, i)
<1>8. a \in Seq(Pieces) /\ g \in Seq(Pieces) /\ b = a \o g
  BY <1>6, GivenNext
<1>9. \A r \in 1 .. Len(g) : g[r].of = i
  BY <1>6 DEF Tagged
<1>10. q \in 1 .. Len(b) /\ \A r \in 1 .. Len(a) : Placed(m, i - 1, r)
  BY <1>4, <1>7
<1> DEFINE j == b[q].of
<1>11. Placed(m, i, q) <=>
         /\ j \in 1 .. i
         /\ Len(Given(m, j - 1)) < q /\ q <= Len(Given(m, j)) /\ Len(Given(m, j)) <= Len(b)
         /\ \A r \in 1 .. Len(Given(m, j)) : Given(m, j)[r] = b[r]
  BY DEF Placed
<1>12. /\ b \in Seq(Pieces) /\ Len(b) = Len(a) + Len(g) /\ Len(a) \in Nat /\ Len(g) \in Nat
       /\ \A r \in 1 .. Len(a) : b[r] = a[r]
       /\ \A r \in 1 .. Len(b) : r > Len(a) => r - Len(a) \in 1 .. Len(g) /\ b[r] = g[r - Len(a)]
  <2> HIDE DEF a, b, g
  <2>1. Len(a) \in Nat /\ Len(g) \in Nat
    BY <1>8
  <2>2. /\ b \in Seq(Pieces) /\ Len(b) = Len(a) + Len(g)
        /\ \A r \in 1 .. Len(a) + Len(g) : b[r] = IF r <= Len(a) THEN a[r] ELSE g[r - Len(a)]
    BY <1>8, ConcatProperties
  <2> QED
    BY <2>1, <2>2
<1>13. CASE q <= Len(a)
  <2>1. q \in 1 .. Len(a) /\ b[q] = a[q]
    <3> HIDE DEF a, b, g
    <3> QED
      BY <1>10, <1>12, <1>13
  <2>2. /\ j \in 1 .. i - 1
        /\ Len(Given(m, j - 1)) < q /\ q <= Len(Given(m, j)) /\ Len(Given(m, j)) <= Len(a)
        /\ \A r \in 1 .. Len(Given(m, j)) : Given(m, j)[r] = a[r]
    <3>1. Placed(m, i - 1, q)
      BY <1>10, <2>1
    <3>2. Placed(m, i - 1, q) <=>
            /\ a[q].of \in 1 .. i - 1
            /\ Len(Given(m, a[q].of - 1)) < q /\ q <= Len(Given(m, a[q].of))
            /\ Len(Given(m, a[q].of)) <= Len(a)
            /\ \A r \in 1 .. Len(Given(m, a[q].of)) : Given(m, a[q].of)[r] = a[r]
      BY DEF Placed
    <3> HIDE DEF a, b
    <3> QED
      BY <2>1, <3>1, <3>2
  <2>3. Given(m, j) \in Seq(Pieces)
    <3>1. j \in Requests
      BY <1>6, <2>2, HttpServerAssumption DEF Requests
    <3> QED
      BY <3>1, GivenSequence
  <2> HIDE DEF a, b, g, j
  <2>4. j \in 1 .. i /\ Len(Given(m, j)) <= Len(b)
    BY <1>6, <1>12, <2>2, <2>3
  <2>5. \A r \in 1 .. Len(Given(m, j)) : r \in 1 .. Len(a)
    BY <1>12, <2>2, <2>3
  <2>6. \A r \in 1 .. Len(Given(m, j)) : Given(m, j)[r] = b[r]
    BY <1>12, <2>2, <2>5
  <2> QED
    BY <1>4, <1>11, <2>2, <2>4, <2>6
<1>14. CASE ~(q <= Len(a))
  <2>1. q - Len(a) \in 1 .. Len(g) /\ b[q] = g[q - Len(a)]
    <3> HIDE DEF a, b, g
    <3> QED
      BY <1>10, <1>12, <1>14
  <2>2. j = i
    BY <1>9, <2>1
  <2>3. Len(a) < q /\ q <= Len(b)
    <3> HIDE DEF a, b, g
    <3> QED
      BY <1>10, <1>12, <1>14
  <2> QED
    BY <1>4, <1>6, <1>11, <2>2, <2>3
<1> QED
  BY <1>13, <1>14

-----------------------------------------------------------------------------
(* The queues, the stack and the flags when little changes. *)

\* The flags are the same.
LEMMA FlagsKept ==
  ASSUME NEW m, NEW k, Flags(m), Alike(m, k)
  PROVE  Flags(k)
<1> QED
  BY DEF Flags, Alike

\* The requests and the responses stand where they stood, and the client is where it was.
Lined(m, k) ==
  /\ k.incoming = m.incoming /\ k.outgoing = m.outgoing /\ k.httpMessage = m.httpMessage
  /\ k.count = m.count /\ k.eof = m.eof /\ k.closed = m.closed
  /\ \A n \in Requests : k.res[n].answered = m.res[n].answered
                         /\ k.req[n].aborted = m.req[n].aborted

\* Both kinds of changes above are of this kind.
LEMMA LinedChanges ==
  ASSUME NEW m, NEW k, Alike(m, k) \/ Down(m, k)
  PROVE  Lined(m, k)
<1> QED
  BY DEF Lined, Alike, Down

\* The queues stay as they are, and so does the response that is next.
LEMMA QueuesKept ==
  ASSUME NEW m, NEW k, Queues(m), Lined(m, k), Current(k) = Current(m),
         IsTop(k, "assign") => k.httpMessage = 0 /\ Current(k) # 0
  PROVE  Queues(k) /\ Done(k) = Done(m)
<1>1. Out(k) = Out(m) /\ Heard(k) = Heard(m)
  BY DEF Lined, Out, Heard
<1>2. Done(k) = Done(m)
  BY <1>1 DEF Done
<1> QED
  BY <1>1, <1>2 DEF Lined, Queues

\* The stack changes and what it is about stays.
LEMMA StackKept ==
  ASSUME NEW m, NEW k, Stack(m), Lined(m, k),
         \A i \in 2 .. Len(k.todo) : k.todo[i].k \notin {"assign", "prefinish"},
         Has(k, "abort") <=> Has(m, "abort"), Has(k, "execute") => Has(m, "execute"),
         IsTop(k, "prefinish") => k.todo[1].n = m.httpMessage /\ m.httpMessage # 0,
         IsTop(k, "assign") \/ IsTop(k, "prefinish") => ~(SomeAborted(m) /\ m.incoming # <<>>)
  PROVE  Stack(k)
<1>1. SomeAborted(k) <=> SomeAborted(m)
  BY DEF Lined, SomeAborted
<1>2. /\ k.incoming = m.incoming /\ k.httpMessage = m.httpMessage
      /\ k.eof = m.eof /\ k.closed = m.closed
  BY DEF Lined
<1> QED
  BY <1>1, <1>2 DEF Stack

\* The stack stays.
LEMMA StackStays ==
  ASSUME NEW m, NEW k, Queues(m), Stack(m), Lined(m, k), k.todo = m.todo
  PROVE  Queues(k) /\ Stack(k) /\ Done(k) = Done(m)
<1>1. /\ \A x : Has(k, x) <=> Has(m, x)
      /\ \A x : IsTop(k, x) <=> IsTop(m, x)
  BY DEF Has, IsTop
<1>2. Current(k) = Current(m)
  BY <1>1 DEF Current, Lined
<1>3. k.httpMessage = m.httpMessage
  BY DEF Lined
<1>4. Queues(k) /\ Done(k) = Done(m)
  BY <1>1, <1>2, <1>3, QueuesKept DEF Queues
<1>5. Stack(k)
  BY <1>1, StackKept DEF Stack
<1> QED
  BY <1>4, <1>5

\* Items below the top one are no assign and no prefinish.
LEMMA Pops ==
  ASSUME NEW m \in Connections, NEW k \in Connections, Stack(m), m.todo # <<>>,
         k.todo = Tail(m.todo)
  PROVE  /\ \A x : Has(m, x) <=> m.todo[1].k = x \/ Has(k, x)
         /\ ~Has(k, "assign") /\ ~Has(k, "prefinish")
         /\ ~IsTop(k, "assign") /\ ~IsTop(k, "prefinish")
         /\ \A i \in 2 .. Len(k.todo) : k.todo[i].k \notin {"assign", "prefinish"}
<1>1. m.todo \in Seq(Items) /\ k.todo \in Seq(Items)
  BY DEF Connections
<1>2. /\ Len(m.todo) \in Nat /\ Len(m.todo) >= 1 /\ Len(k.todo) = Len(m.todo) - 1
      /\ \A i \in 1 .. Len(k.todo) : i + 1 \in 2 .. Len(m.todo) /\ k.todo[i] = m.todo[i + 1]
  BY <1>1
<1>3. \A i \in 1 .. Len(m.todo) : i # 1 => i - 1 \in 1 .. Len(k.todo) /\ m.todo[i] = k.todo[i - 1]
  BY <1>2
<1>4. \A i \in 1 .. Len(k.todo) : k.todo[i].k \notin {"assign", "prefinish"}
  BY <1>2 DEF Stack
<1>5. \A x : Has(m, x) <=> m.todo[1].k = x \/ Has(k, x)
  <2> TAKE x
  <2>1. ASSUME Has(m, x) PROVE m.todo[1].k = x \/ Has(k, x)
    BY <1>3, <2>1 DEF Has
  <2>2. ASSUME m.todo[1].k = x PROVE Has(m, x)
    BY <1>2, <2>2 DEF Has
  <2>3. ASSUME Has(k, x) PROVE Has(m, x)
    <3>1. PICK i \in 1 .. Len(k.todo) : k.todo[i].k = x
      BY <2>3 DEF Has
    <3>2. i + 1 \in 1 .. Len(m.todo) /\ m.todo[i + 1].k = x
      BY <1>2, <3>1
    <3> QED
      BY <3>2 DEF Has
  <2> QED
    BY <2>1, <2>2, <2>3
<1>6. \A i \in 2 .. Len(k.todo) : i \in 1 .. Len(k.todo)
  BY <1>2
<1>7. k.todo # <<>> => 1 \in 1 .. Len(k.todo)
  BY <1>1
<1>8. ~Has(k, "assign") /\ ~Has(k, "prefinish") /\ ~IsTop(k, "assign") /\ ~IsTop(k, "prefinish")
  BY <1>4, <1>7 DEF Has, IsTop
<1> QED
  BY <1>4, <1>5, <1>6, <1>8

\* An item that is neither of these, nor an abort, is popped.
LEMMA PlainPop ==
  ASSUME NEW m \in Connections, NEW k \in Connections, Queues(m), Stack(m), Lined(m, k),
         m.todo # <<>>, m.todo[1].k \notin {"assign", "prefinish", "abort"},
         k.todo = Tail(m.todo)
  PROVE  /\ Queues(k) /\ Stack(k) /\ Done(k) = Done(m) /\ ~IsTop(k, "prefinish")
<1>1. /\ \A x : Has(m, x) <=> m.todo[1].k = x \/ Has(k, x)
      /\ ~IsTop(k, "assign") /\ ~IsTop(k, "prefinish")
      /\ \A i \in 2 .. Len(k.todo) : k.todo[i].k \notin {"assign", "prefinish"}
  BY Pops
<1>2. ~IsTop(m, "assign")
  BY DEF IsTop
<1>3. Current(k) = Current(m)
  BY <1>1, <1>2 DEF Current, Lined
<1>4. Queues(k) /\ Done(k) = Done(m)
  BY <1>1, <1>3, QueuesKept
<1>5. (Has(k, "abort") <=> Has(m, "abort")) /\ (Has(k, "execute") => Has(m, "execute"))
  BY <1>1
<1>6. Stack(k)
  BY <1>1, <1>5, StackKept
<1> QED
  BY <1>1, <1>4, <1>6

\* Items go on top.
LEMMA Pushes ==
  ASSUME NEW m \in Connections, NEW k \in Connections, NEW items \in Seq(Items),
         k.todo = items \o m.todo
  PROVE  /\ \A x : Has(k, x) <=> (\E i \in 1 .. Len(items) : items[i].k = x) \/ Has(m, x)
         /\ \A i \in 1 .. Len(k.todo) :
              \/ i \in 1 .. Len(items) /\ k.todo[i] = items[i]
              \/ i - Len(items) \in 1 .. Len(m.todo) /\ k.todo[i] = m.todo[i - Len(items)]
         /\ items # <<>> => k.todo # <<>> /\ k.todo[1] = items[1]
         /\ items = <<>> => k.todo = m.todo
<1> DEFINE s == m.todo
           t == k.todo
<1>1. s \in Seq(Items) /\ t \in Seq(Items) /\ t = items \o s
  BY DEF Connections
<1>2. \A x : Has(k, x) <=> \E i \in 1 .. Len(t) : t[i].k = x
  BY DEF Has
<1>3. \A x : Has(m, x) <=> \E i \in 1 .. Len(s) : s[i].k = x
  BY DEF Has
<1> HIDE DEF s, t
<1>4. /\ Len(t) = Len(items) + Len(s) /\ Len(items) \in Nat /\ Len(s) \in Nat
      /\ \A i \in 1 .. Len(items) + Len(s) : t[i] = IF i <= Len(items) THEN items[i] ELSE s[i - Len(items)]
  BY <1>1, ConcatProperties
<1>5. \A i \in 1 .. Len(t) :
        \/ i \in 1 .. Len(items) /\ t[i] = items[i]
        \/ i - Len(items) \in 1 .. Len(s) /\ t[i] = s[i - Len(items)]
  BY <1>4
<1>6. \A i \in 1 .. Len(items) : i \in 1 .. Len(t) /\ t[i] = items[i]
  BY <1>4
<1>7. \A i \in 1 .. Len(s) : Len(items) + i \in 1 .. Len(t) /\ t[Len(items) + i] = s[i]
  <2> TAKE i \in 1 .. Len(s)
  <2>1. /\ Len(items) + i \in 1 .. Len(items) + Len(s) /\ ~(Len(items) + i <= Len(items))
        /\ (Len(items) + i) - Len(items) = i
    BY <1>4
  <2> QED
    BY <1>4, <2>1
<1>8. \A x : Has(k, x) <=> (\E i \in 1 .. Len(items) : items[i].k = x) \/ Has(m, x)
  <2> TAKE x
  <2>1. ASSUME NEW i \in 1 .. Len(t), t[i].k = x
        PROVE  (\E l \in 1 .. Len(items) : items[l].k = x) \/ \E l \in 1 .. Len(s) : s[l].k = x
    BY <1>5, <2>1
  <2>2. ASSUME NEW i \in 1 .. Len(items), items[i].k = x PROVE \E l \in 1 .. Len(t) : t[l].k = x
    BY <1>6, <2>2
  <2>3. ASSUME NEW i \in 1 .. Len(s), s[i].k = x PROVE \E l \in 1 .. Len(t) : t[l].k = x
    BY <1>7, <2>3
  <2> QED
    BY <1>2, <1>3, <2>1, <2>2, <2>3
<1>9. items # <<>> => t # <<>> /\ t[1] = items[1]
  <2>1. items # <<>> => 1 \in 1 .. Len(items)
    OBVIOUS
  <2> QED
    BY <1>1, <1>4, <1>6, <2>1
<1>10. items = <<>> => t = s
  BY <1>1, ConcatEmptySeq
<1> QED
  BY <1>5, <1>8, <1>9, <1>10 DEF s, t

\* Items of the user, of the parser and of the socket are pushed.
LEMMA PlainPush ==
  ASSUME NEW m \in Connections, NEW k \in Connections, NEW items \in Seq(Items),
         Queues(m), Stack(m), Lined(m, k), k.todo = items \o m.todo,
         ~IsTop(m, "assign"), ~IsTop(m, "prefinish"),
         \A i \in 1 .. Len(items) :
           items[i].k \in {"user", "complete", "endSocket", "drained"}
  PROVE  /\ Queues(k) /\ Stack(k) /\ Done(k) = Done(m)
         /\ ~IsTop(k, "assign") /\ ~IsTop(k, "prefinish")
         /\ \A x \in Kinds \ {"user", "complete", "endSocket", "drained"} : Has(k, x) <=> Has(m, x)
<1>1. /\ \A x : Has(k, x) <=> (\E i \in 1 .. Len(items) : items[i].k = x) \/ Has(m, x)
      /\ \A i \in 1 .. Len(k.todo) :
           \/ i \in 1 .. Len(items) /\ k.todo[i] = items[i]
           \/ i - Len(items) \in 1 .. Len(m.todo) /\ k.todo[i] = m.todo[i - Len(items)]
      /\ items # <<>> => k.todo # <<>> /\ k.todo[1] = items[1]
      /\ items = <<>> => k.todo = m.todo
  BY Pushes
<1>2. m.todo \in Seq(Items) /\ k.todo \in Seq(Items)
  BY DEF Connections
<1>3. \A i \in 1 .. Len(m.todo) : m.todo[i].k \notin {"assign", "prefinish"}
  <2> TAKE i \in 1 .. Len(m.todo)
  <2>1. CASE i = 1
    <3>1. m.todo # <<>>
      BY <1>2
    <3> QED
      BY <2>1, <3>1 DEF IsTop
  <2>2. CASE i # 1
    <3>1. i \in 2 .. Len(m.todo)
      BY <1>2, <2>2
    <3> QED
      BY <3>1 DEF Stack
  <2> QED
    BY <2>1, <2>2
<1>4. \A i \in 1 .. Len(k.todo) : k.todo[i].k \notin {"assign", "prefinish"}
  BY <1>1, <1>3
<1>5. k.todo # <<>> => 1 \in 1 .. Len(k.todo)
  BY <1>2
<1>6. ~IsTop(k, "assign") /\ ~IsTop(k, "prefinish")
  BY <1>4, <1>5 DEF IsTop
<1>7. \A i \in 2 .. Len(k.todo) : k.todo[i].k \notin {"assign", "prefinish"}
  <2>1. \A i \in 2 .. Len(k.todo) : i \in 1 .. Len(k.todo)
    BY <1>2
  <2> QED
    BY <1>4, <2>1
<1>8. \A x \in Kinds \ {"user", "complete", "endSocket", "drained"} : Has(k, x) <=> Has(m, x)
  BY <1>1
<1>9. Current(k) = Current(m)
  BY <1>6 DEF Current, Lined
<1>10. Queues(k) /\ Done(k) = Done(m)
  BY <1>6, <1>9, QueuesKept
<1>11. (Has(k, "abort") <=> Has(m, "abort")) /\ (Has(k, "execute") <=> Has(m, "execute"))
  BY <1>8 DEF Kinds
<1>12. Stack(k)
  BY <1>6, <1>7, <1>11, StackKept
<1> QED
  BY <1>6, <1>8, <1>10, <1>12

-----------------------------------------------------------------------------
(* What is on the wire. *)

\* The responses before the latest are answered; others that are not come after it.
LEMMA LatestNumber ==
  ASSUME NEW m \in Connections, Queues(m)
  PROVE  /\ Latest(m) \in {0} \cup Requests
         /\ \A i \in Requests : i < Latest(m) => m.res[i].answered
         /\ \A i \in Requests : ~m.res[i].answered /\ i # m.httpMessage => i > Latest(m)
<1>1. /\ m.count \in {0} \cup Requests /\ m.httpMessage \in {0} \cup Requests
      /\ m.outgoing \in Seq(Requests)
  BY DEF Connections
<1>2. /\ m.count \in Nat /\ m.httpMessage \in Nat /\ Len(m.outgoing) \in Nat
      /\ m.count <= MaxInput /\ Requests = 1 .. MaxInput /\ MaxInput \in Nat
  BY <1>1, HttpServerAssumption DEF Requests
<1>3. Len(m.outgoing) <= m.count /\ Current(m) \in {0, Out(m)}
      /\ (IsTop(m, "assign") => m.httpMessage = 0 /\ Current(m) # 0)
      /\ (~IsTop(m, "assign") => Current(m) = m.httpMessage)
  BY DEF Queues, Current
<1>4. \A n \in Requests : m.res[n].answered <=> n <= Done(m)
  BY DEF Queues
<1>5. Out(m) \in 0 .. MaxInput /\ Done(m) \in 0 .. MaxInput
  BY <1>2, <1>3 DEF Out, Done
<1>6. m.httpMessage # 0 => m.httpMessage = Out(m) /\ Done(m) = Out(m) - 1
  BY <1>3 DEF Done
<1>7. Latest(m) \in 0 .. MaxInput /\ Done(m) <= Latest(m) /\ Latest(m) <= Done(m) + 1
      /\ (Latest(m) = Done(m) \/ Latest(m) = m.httpMessage)
  BY <1>2, <1>5, <1>6 DEF Latest
<1> QED
  BY <1>2, <1>4, <1>5, <1>7

\* A socket that may write has written all but the output of the response that has it.
LEMMA OrderedOpen ==
  ASSUME NEW m \in Connections, Queues(m), Tagged(m),
         \A n \in Requests : m.res[n].answered => m.res[n].finished,
         m.wire \o Unwritten(m) = Given(m, Latest(m))
  PROVE  Ordered(m)
<1> SUFFICES ASSUME m.wire # <<>> PROVE Ordered(m)
  BY DEF Ordered
<1> DEFINE w == m.wire
           h == Latest(m)
           g == Given(m, h)
           p == Len(w)
           j == Last(w).of
           u == Unwritten(m)
<1>1. h \in {0} \cup Requests /\ \A i \in Requests : i < h => m.res[i].finished
  BY LatestNumber
<1>2. w \in Seq(Pieces) /\ u \in Seq(Pieces) /\ g \in Seq(Pieces)
  <2>1. w \in Seq(Pieces) /\ <<>> \in Seq(Pieces)
    BY DEF Connections
  <2>2. m.httpMessage # 0 => m.httpMessage \in Requests /\ m.res[m.httpMessage] \in Responses
    BY DEF Connections
  <2>3. u \in Seq(Pieces)
    BY <2>1, <2>2 DEF Unwritten, Responses
  <2> QED
    BY <1>1, <2>1, <2>3, GivenSequence
<1>3. w \o u = g
  OBVIOUS
<1>4. p \in Nat /\ p >= 1 /\ Last(w) = w[p]
  BY <1>2 DEF Last
<1> HIDE DEF w, g, u, h
<1>5. /\ Len(g) = p + Len(u) /\ Len(u) \in Nat
      /\ \A i \in 1 .. p : i \in 1 .. Len(g) /\ g[i] = w[i]
  <2>1. /\ Len(g) = p + Len(u) /\ Len(u) \in Nat /\ Len(w) \in Nat
        /\ \A i \in 1 .. p + Len(u) : g[i] = IF i <= p THEN w[i] ELSE u[i - p]
    BY <1>2, <1>3, ConcatProperties
  <2> QED
    BY <1>4, <2>1
<1>6. p \in 1 .. Len(g) /\ g[p].of = j
  BY <1>4, <1>5
<1>7. Placed(m, h, p)
  BY <1>1, <1>6, GivenPlaces DEF g
<1>8. /\ j \in 1 .. h
      /\ Len(Given(m, j - 1)) < p /\ p <= Len(Given(m, j)) /\ Len(Given(m, j)) <= Len(g)
      /\ \A q \in 1 .. Len(Given(m, j)) : Given(m, j)[q] = g[q]
  BY <1>6, <1>7 DEF Placed, g
<1>9. j \in Requests /\ \A i \in 1 .. j - 1 : i \in Requests /\ i < h
  BY <1>1, <1>8, HttpServerAssumption DEF Requests
<1>10. Given(m, j) \in Seq(Pieces)
  BY <1>9, GivenSequence
<1> DEFINE b == Given(m, j)
<1>11. IsPrefix(w, b)
  <2>1. b \in Seq(Pieces) /\ p <= Len(b) /\ Len(b) \in Nat /\ \A q \in 1 .. Len(b) : b[q] = g[q]
    BY <1>8, <1>10
  <2> HIDE DEF b, j
  <2>2. \A i \in 1 .. p : i \in 1 .. Len(b) /\ w[i] = b[i]
    BY <1>4, <1>5, <2>1
  <2> QED
    BY <1>2, <2>1, <2>2, PrefixPlaces
<1>12. \A i \in 1 .. j - 1 : m.res[i].finished
  BY <1>1, <1>9
<1> QED
  BY <1>8, <1>11, <1>12 DEF Ordered, w

\* What is on the wire stays in order while responses that are not finished are given more.
LEMMA OrderedStays ==
  ASSUME NEW m \in Connections, NEW k \in Connections, Ordered(m), k.wire = m.wire,
         NEW n \in Requests, NEW data \in Seq(Pieces),
         ~m.res[n].finished \/ data = <<>>,
         k.res[n].given = m.res[n].given \o data,
         \A i \in Requests : /\ i # n => k.res[i].given = m.res[i].given
                             /\ m.res[i].finished => k.res[i].finished,
         m.wire # <<>> => Last(m.wire).of \in Requests
  PROVE  Ordered(k)
<1> SUFFICES ASSUME m.wire # <<>> PROVE Ordered(k)
  BY DEF Ordered
<1> DEFINE w == m.wire
           j == Last(w).of
           d == IF j = n THEN data ELSE <<>>
           a == Given(m, j - 1)
           b == m.res[j].given
<1>1. /\ j \in Requests /\ IsPrefix(w, Given(m, j)) /\ w \in Seq(Pieces)
      /\ \A i \in 1 .. j - 1 : m.res[i].finished
      /\ Len(a) < Len(w)
  BY DEF Ordered, Connections
<1>2. j - 1 \in Nat /\ (j - 1) + 1 = j /\ \A i \in 1 .. j - 1 : i \in Requests
  BY <1>1, HttpServerAssumption DEF Requests
<1>3. a \in Seq(Pieces) /\ b \in Seq(Pieces) /\ Given(m, j) = a \o b
  BY <1>1, <1>2, GivenNext
<1>4. m.res[n].given \o <<>> = m.res[n].given /\ b \o <<>> = b
  <2>1. m.res[n].given \in Seq(Pieces)
    BY DEF Connections, Responses
  <2> QED
    BY <1>3, <2>1, Concatenate
<1>5. \A i \in 1 .. j - 1 : k.res[i].given = m.res[i].given
  <2> TAKE i \in 1 .. j - 1
  <2>1. i \in Requests /\ m.res[i].finished
    BY <1>1, <1>2
  <2>2. CASE i = n
    BY <1>4, <2>1, <2>2
  <2>3. CASE i # n
    BY <2>1, <2>3
  <2> QED
    BY <2>2, <2>3
<1>6. Given(k, j - 1) = a
  BY <1>5, GivenSame
<1>7. k.res[j].given = b \o d /\ d \in Seq(Pieces)
  <2>1. CASE j = n
    BY <2>1
  <2>2. CASE j # n
    <3>1. <<>> \in Seq(Pieces)
      OBVIOUS
    <3> QED
      BY <1>1, <1>4, <2>2, <3>1
  <2> QED
    BY <2>1, <2>2
<1>8. Given(k, j) = a \o (b \o d)
  <2>1. Given(k, j) = Given(k, j - 1) \o k.res[j].given
    BY <1>1, <1>2, GivenNext
  <2> QED
    BY <1>6, <1>7, <2>1
<1>9. IsPrefix(w, Given(k, j))
  <2> DEFINE c == a \o b
             e == c \o d
  <2>1. c \in Seq(Pieces) /\ e \in Seq(Pieces) /\ e = Given(k, j) /\ c = Given(m, j)
    <3> HIDE DEF a, b, d
    <3> QED
      BY <1>3, <1>7, <1>8, Concatenate, Associate
  <2>2. IsPrefix(w, c) /\ IsPrefix(c, e)
    BY <1>1, <1>7, <2>1, PrefixConcat
  <2> HIDE DEF c, e, w
  <2>3. /\ Len(w) <= Len(c) /\ \A i \in 1 .. Len(w) : w[i] = c[i]
        /\ Len(c) <= Len(e) /\ \A i \in 1 .. Len(c) : c[i] = e[i]
    BY <1>1, <2>1, <2>2, PrefixPlaces
  <2>4. Len(w) <= Len(e) /\ \A i \in 1 .. Len(w) : i \in 1 .. Len(c) /\ w[i] = e[i]
    BY <1>1, <2>1, <2>3
  <2>5. IsPrefix(w, e)
    BY <1>1, <2>1, <2>4, PrefixPlaces
  <2> QED
    BY <2>1, <2>5
<1>10. \A i \in 1 .. j - 1 : k.res[i].finished
  BY <1>1, <1>2
<1> QED
  BY <1>1, <1>6, <1>9, <1>10 DEF Ordered

\* What the responses hold stays, and what is written.
LEMMA WiresSame ==
  ASSUME NEW m, NEW k, Wires(m), k.res = m.res, k.wire = m.wire, k.writable => m.writable,
         \A n \in Requests : n > k.count => n > m.count,
         k.httpMessage = m.httpMessage, Done(k) = Done(m),
         IsTop(k, "prefinish") => m.res[m.httpMessage].finished /\ m.res[m.httpMessage].output = <<>>
  PROVE  Wires(k)
<1>1. \A i : Given(k, i) = Given(m, i)
  BY DEF Given
<1>2. Latest(k) = Latest(m) /\ Unwritten(k) = Unwritten(m)
  BY DEF Latest, Unwritten
<1>3. Ordered(k)
  BY <1>1 DEF Wires, Ordered
<1>4. Tagged(k)
  BY DEF Wires, Tagged
<1> QED
  BY <1>1, <1>2, <1>3, <1>4 DEF Wires

\* The last piece on the wire is of a request.
LEMMA LastPiece ==
  ASSUME NEW m \in Connections, m.wire # <<>>
  PROVE  Last(m.wire).of \in Requests
<1> DEFINE w == m.wire
<1>1. w \in Seq(Pieces) /\ w # <<>>
  BY DEF Connections
<1> HIDE DEF w
<1>2. w[Len(w)] \in Pieces
  BY <1>1
<1>3. Last(w).of \in Requests
  BY <1>2 DEF Pieces, Last
<1> QED
  BY <1>3 DEF w

\* A response that is not finished, or that has the socket, is given more.
LEMMA WiresGave ==
  ASSUME NEW m \in Connections, NEW k \in Connections, Queues(m), Queues(k), Wires(m),
         NEW n \in Requests, NEW data \in Seq(Pieces), Gave(n, data, m, k), Alike(m, k),
         \A i \in 1 .. Len(data) : data[i].of = n,
         n <= m.count, Done(k) = Done(m),
         ~m.res[n].finished \/ (m.httpMessage = n /\ data = <<>>),
         m.res[n].finished => k.res[n].finished,
         IsTop(k, "prefinish") => k.res[m.httpMessage].finished /\ k.res[m.httpMessage].output = <<>>
  PROVE  Wires(k)
<1> DEFINE h == m.httpMessage
           l == Latest(m)
<1>1. /\ k.httpMessage = h /\ k.count = m.count /\ k.writable = m.writable
      /\ Latest(k) = l /\ h \in {0} \cup Requests
      /\ \A i \in Requests : k.res[i].answered = m.res[i].answered
  BY DEF Alike, Latest, Connections
<1>2. /\ l \in {0} \cup Requests
      /\ \A i \in Requests : i < l => m.res[i].answered
      /\ \A i \in Requests : ~m.res[i].answered /\ i # h => i > l
  BY LatestNumber
<1>3. \A i \in Requests : m.res[i].answered => m.res[i].finished
  BY DEF Wires
<1>4. \A i \in Requests : i # n => k.res[i] = m.res[i]
  BY DEF Gave
<1>5. \A i \in Requests : m.res[i].finished => k.res[i].finished
  BY <1>4
<1>6. m.writable => k.wire \o Unwritten(k) = Given(k, l)
  <2> SUFFICES ASSUME m.writable PROVE k.wire \o Unwritten(k) = Given(k, l)
    OBVIOUS
  <2>1. m.wire \o Unwritten(m) = Given(m, l)
    BY DEF Wires
  <2>2. CASE h = n
    <3>1. n # 0 /\ l = n
      BY <2>2, HttpServerAssumption DEF Latest, Requests
    <3>2. /\ k.wire \o k.res[n].output = (m.wire \o m.res[n].output) \o data
          /\ k.res[n].given = m.res[n].given \o data
      BY <2>2 DEF Gave
    <3>3. Unwritten(k) = k.res[n].output /\ Unwritten(m) = m.res[n].output
      BY <1>1, <2>2, <3>1 DEF Unwritten
    <3>4. n - 1 \in Nat /\ (n - 1) + 1 = n /\ \A i \in 1 .. n - 1 : i \in Requests /\ i # n
      BY HttpServerAssumption DEF Requests
    <3>5. Given(k, n - 1) = Given(m, n - 1)
      BY <1>4, <3>4, GivenSame
    <3> DEFINE a == Given(m, n - 1)
               b == m.res[n].given
    <3>6. a \in Seq(Pieces) /\ b \in Seq(Pieces) /\ Given(m, n) = a \o b
      BY <3>4, GivenNext
    <3>7. Given(k, n) = a \o (b \o data)
      <4>1. Given(k, n) = Given(k, n - 1) \o k.res[n].given
        BY <3>4, GivenNext
      <4> QED
        BY <3>2, <3>5, <4>1
    <3>8. a \o (b \o data) = (a \o b) \o data
      <4> HIDE DEF a, b
      <4> QED
        BY <3>6, Associate
    <3> HIDE DEF a, b
    <3> QED
      BY <2>1, <3>1, <3>2, <3>3, <3>6, <3>7, <3>8
  <2>3. CASE h # n
    <3>1. ~m.res[n].finished /\ ~m.res[n].answered /\ n > l
      BY <1>2, <1>3, <2>3
    <3>2. k.wire = m.wire
      BY <2>3 DEF Gave
    <3>3. Unwritten(k) = Unwritten(m)
      BY <1>1, <1>4, <2>3 DEF Unwritten
    <3>4. \A i \in 1 .. l : i \in Requests /\ i # n
      BY <1>2, <3>1, HttpServerAssumption DEF Requests
    <3>5. Given(k, l) = Given(m, l)
      BY <1>4, <3>4, GivenSame
    <3> QED
      BY <2>1, <3>2, <3>3, <3>5
  <2> QED
    BY <2>2, <2>3
<1>7. Tagged(k)
  <2> SUFFICES ASSUME NEW i \in Requests, NEW p \in 1 .. Len(k.res[i].given)
               PROVE  k.res[i].given[p].of = i
    BY DEF Tagged
  <2>1. CASE i # n
    BY <1>4, <2>1 DEF Wires, Tagged
  <2>2. CASE i = n
    <3> DEFINE b == m.res[n].given
               c == k.res[n].given
    <3>1. b \in Seq(Pieces) /\ c = b \o data /\ \A q \in 1 .. Len(b) : b[q].of = n
      BY DEF Connections, Responses, Gave, Wires, Tagged
    <3>2. p \in 1 .. Len(c)
      BY <2>2
    <3> HIDE DEF b, c
    <3>3. Len(c) = Len(b) + Len(data) /\ Len(b) \in Nat /\ Len(data) \in Nat
          /\ \A q \in 1 .. Len(b) + Len(data) : c[q] = IF q <= Len(b) THEN b[q] ELSE data[q - Len(b)]
      BY <3>1, ConcatProperties
    <3>4. ~(p <= Len(b)) => p - Len(b) \in 1 .. Len(data)
      BY <3>2, <3>3
    <3>5. c[p].of = n
      BY <3>1, <3>2, <3>3, <3>4
    <3> QED
      BY <2>2, <3>5 DEF c
  <2> QED
    BY <2>1, <2>2
<1>8. Ordered(k)
  <2>1. CASE m.writable
    <3>1. k.wire \o Unwritten(k) = Given(k, Latest(k))
      BY <1>1, <1>6, <2>1
    <3>2. \A i \in Requests : k.res[i].answered => k.res[i].finished
      BY <1>1, <1>3, <1>5
    <3> QED
      BY <1>7, <3>1, <3>2, OrderedOpen
  <2>2. CASE ~m.writable
    <3>1. k.wire = m.wire /\ k.res[n].given = m.res[n].given \o data
      BY <2>2 DEF Gave
    <3>2. m.wire # <<>> => Last(m.wire).of \in Requests
      BY LastPiece
    <3>3. \A i \in Requests : /\ i # n => k.res[i].given = m.res[i].given
                              /\ m.res[i].finished => k.res[i].finished
      BY <1>4, <1>5
    <3>4. Ordered(m) /\ (~m.res[n].finished \/ data = <<>>)
      BY DEF Wires
    <3> QED
      BY <3>1, <3>2, <3>3, <3>4, OrderedStays
  <2> QED
    BY <2>1, <2>2
<1>9. ASSUME NEW i \in Requests
      PROVE  /\ i > Done(k) /\ i # k.httpMessage => k.res[i].output = k.res[i].given
             /\ i > k.count => k.res[i] = Response
             /\ k.res[i].answered => k.res[i].finished
  <2>1. i > Done(k) /\ i # k.httpMessage => k.res[i].output = k.res[i].given
    <3>1. i > Done(m) /\ i # h => m.res[i].output = m.res[i].given
      BY DEF Wires
    <3>2. CASE i = n
      <4>1. i # h => k.res[n].output = m.res[n].output \o data
        BY <3>2 DEF Gave
      <4>2. k.res[n].given = m.res[n].given \o data
        BY DEF Gave
      <4> QED
        BY <1>1, <3>1, <3>2, <4>1, <4>2
    <3>3. CASE i # n
      BY <1>1, <1>4, <3>1, <3>3
    <3> QED
      BY <3>2, <3>3
  <2>2. i > k.count => k.res[i] = Response
    <3>1. i > m.count => i # n
      <4>1. m.count \in Nat /\ i \in Nat /\ n \in Nat
        BY CountIsNat
      <4> QED
        BY <4>1
    <3> QED
      BY <1>1, <1>4, <3>1 DEF Wires
  <2> QED
    BY <1>1, <1>3, <1>5, <2>1, <2>2
<1>10. IsTop(k, "prefinish") => k.res[k.httpMessage].finished /\ k.res[k.httpMessage].output = <<>>
  BY <1>1
<1>11. k.writable => k.wire \o Unwritten(k) = Given(k, Latest(k))
  BY <1>1, <1>6
<1> QED
  BY <1>7, <1>8, <1>9, <1>10, <1>11 DEF Wires

-----------------------------------------------------------------------------
(* The invariant of a connection. *)

\* No item is a continue if the top one is neither that nor an assign.
LEMMA NoContinue ==
  ASSUME NEW m \in Connections, Continues(m), ~IsTop(m, "assign"), ~IsTop(m, "continue")
  PROVE  ~Has(m, "continue")
<1> SUFFICES ASSUME NEW i \in 1 .. Len(m.todo), m.todo[i].k = "continue" PROVE FALSE
  BY DEF Has
<1>1. m.todo \in Seq(Items) /\ m.todo # <<>>
  BY DEF Connections
<1>2. i # 1
  BY <1>1 DEF IsTop
<1>3. m.todo[1] = Item("assign", m.todo[2].n)
  BY <1>2 DEF Continues
<1> QED
  BY <1>1, <1>3 DEF IsTop, Item

\* There is nothing to say when there is none.
LEMMA ContinuesNone ==
  ASSUME NEW m, ~Has(m, "continue")
  PROVE  Continues(m)
<1> QED
  BY DEF Has, Continues

\* The stack and what the responses hold stay.
LEMMA GoodStays ==
  ASSUME NEW m, NEW k \in Connections, Good(m), Lined(m, k), k.todo = m.todo,
         k.reading => m.reading, Flags(k), k.res = m.res, k.wire = m.wire,
         k.writable => m.writable
  PROVE  Good(k)
<1>1. /\ Queues(m) /\ Stack(m) /\ Continues(m) /\ Wires(m) /\ (m.reading => m.count # 0)
  BY DEF Good
<1>2. Queues(k) /\ Stack(k) /\ Done(k) = Done(m)
  BY <1>1, StackStays
<1>3. Continues(k)
  BY <1>1 DEF Continues, Lined
<1>4. k.count = m.count /\ k.httpMessage = m.httpMessage /\ (IsTop(k, "prefinish") <=> IsTop(m, "prefinish"))
  BY DEF Lined, IsTop
<1>5. Wires(k)
  BY <1>1, <1>2, <1>4, WiresSame DEF Wires
<1> QED
  BY <1>1, <1>2, <1>3, <1>4, <1>5 DEF Good

\* The top item is done with, and what the responses hold stays.
LEMMA GoodPops ==
  ASSUME NEW m, NEW k \in Connections, Good(m), Lined(m, k),
         m.todo # <<>>, m.todo[1].k \notin {"assign", "prefinish", "abort", "continue"},
         k.todo = Tail(m.todo), k.reading => m.reading, Flags(k), k.res = m.res,
         k.wire = m.wire, k.writable => m.writable
  PROVE  Good(k)
<1>1. /\ m \in Connections /\ Queues(m) /\ Stack(m) /\ Continues(m) /\ Wires(m)
      /\ (m.reading => m.count # 0)
  BY DEF Good
<1>2. Queues(k) /\ Stack(k) /\ Done(k) = Done(m) /\ ~IsTop(k, "prefinish")
  BY <1>1, PlainPop
<1>3. ~Has(m, "continue")
  BY <1>1, NoContinue DEF IsTop
<1>4. ~Has(k, "continue")
  BY <1>1, <1>3, Pops
<1>5. Continues(k)
  BY <1>4, ContinuesNone
<1>6. k.count = m.count /\ k.httpMessage = m.httpMessage
  BY DEF Lined
<1>7. Wires(k)
  BY <1>1, <1>2, <1>6, WiresSame
<1> QED
  BY <1>1, <1>2, <1>5, <1>6, <1>7 DEF Good

\* Items that matter to no other go on top.
LEMMA GoodPushes ==
  ASSUME NEW m, NEW k \in Connections, NEW items \in Seq(Items), Good(m), Lined(m, k),
         ~IsTop(m, "assign"), ~IsTop(m, "prefinish"), ~IsTop(m, "continue"),
         \A i \in 1 .. Len(items) :
           items[i].k \in {"user", "complete", "endSocket", "drained"},
         k.todo = items \o m.todo, k.reading => m.reading, Flags(k), k.res = m.res,
         k.wire = m.wire, k.writable => m.writable
  PROVE  Good(k)
<1>1. /\ m \in Connections /\ Queues(m) /\ Stack(m) /\ Continues(m) /\ Wires(m)
      /\ (m.reading => m.count # 0)
  BY DEF Good
<1>2. /\ Queues(k) /\ Stack(k) /\ Done(k) = Done(m) /\ ~IsTop(k, "prefinish")
      /\ (Has(k, "continue") <=> Has(m, "continue"))
  BY <1>1, PlainPush DEF Kinds
<1>3. ~Has(m, "continue")
  BY <1>1, NoContinue
<1>4. Continues(k)
  BY <1>2, <1>3, ContinuesNone
<1>5. k.count = m.count /\ k.httpMessage = m.httpMessage
  BY DEF Lined
<1>6. Wires(k)
  BY <1>1, <1>2, <1>5, WiresSame
<1> QED
  BY <1>1, <1>2, <1>4, <1>5, <1>6 DEF Good

\* A response that is not finished is given more.
LEMMA GoodGives ==
  ASSUME NEW m, NEW k \in Connections, Good(m), Alike(m, k), k.todo = m.todo,
         ~IsTop(m, "assign"), ~IsTop(m, "prefinish"), ~IsTop(m, "continue"),
         NEW n \in Requests, n <= m.count, ~m.res[n].finished,
         NEW data \in Seq(Pieces), Gave(n, data, m, k), \A i \in 1 .. Len(data) : data[i].of = n
  PROVE  Good(k)
<1>1. /\ m \in Connections /\ Queues(m) /\ Stack(m) /\ Flags(m) /\ Continues(m) /\ Wires(m)
      /\ (m.reading => m.count # 0)
  BY DEF Good
<1>2. Queues(k) /\ Stack(k) /\ Done(k) = Done(m)
  BY <1>1, StackStays, LinedChanges
<1>3. ~Has(m, "continue") /\ ~IsTop(k, "prefinish")
  BY <1>1, NoContinue DEF IsTop
<1>4. Continues(k)
  BY <1>3, ContinuesNone DEF Has
<1>5. Flags(k)
  BY <1>1, FlagsKept
<1>6. Wires(k)
  BY <1>1, <1>2, <1>3, WiresGave
<1> QED
  BY <1>1, <1>2, <1>4, <1>5, <1>6 DEF Good, Alike

-----------------------------------------------------------------------------
(* Changes of responses that nothing on the wire depends on. *)

SameText(m, k) ==
  \A i \in Requests :
    /\ k.res[i].output = m.res[i].output /\ k.res[i].given = m.res[i].given
    /\ k.res[i].finished = m.res[i].finished /\ k.res[i].answered = m.res[i].answered
    /\ i > m.count => k.res[i] = m.res[i]

\* Of one response, which answers a request.
LEMMA OneChanged ==
  ASSUME NEW m \in Connections, NEW k \in Connections, NEW n \in Requests, n <= m.count,
         OnlyOutput(n, m, k), k.res[n].output = m.res[n].output
  PROVE  SameText(m, k)
<1>1. \A i \in Requests : i > m.count => i # n
  BY CountIsNat
<1> QED
  BY <1>1 DEF OnlyOutput, SameText

\* Nothing is given, finished or written; other fields of responses may change.
LEMMA WiresOther ==
  ASSUME NEW m \in Connections, NEW k \in Connections, Wires(m), SameText(m, k),
         k.wire = m.wire, k.writable => m.writable, Queues(m),
         k.count = m.count, k.httpMessage = m.httpMessage, Done(k) = Done(m),
         IsTop(k, "prefinish") => IsTop(m, "prefinish") /\ m.httpMessage # 0
  PROVE  Wires(k)
<1>1. ASSUME NEW i \in {0} \cup Requests
      PROVE  Given(k, i) = Given(m, i)
  <2>1. i \in Nat /\ \A l \in 1 .. i : l \in Requests
    BY <1>1, CountIsNat
  <2>2. \A l \in 1 .. i : k.res[l].given = m.res[l].given
    BY <2>1 DEF SameText
  <2> QED
    BY <2>2, GivenSame
<1>2. Latest(k) = Latest(m) /\ Latest(m) \in {0} \cup Requests
  BY LatestNumber DEF Latest
<1>3. Unwritten(k) = Unwritten(m)
  <2>1. m.httpMessage \in {0} \cup Requests
    BY DEF Connections
  <2> QED
    BY <2>1 DEF Unwritten, SameText
<1>4. Tagged(k)
  BY DEF Wires, Tagged, SameText
<1>5. Ordered(k)
  <2> SUFFICES ASSUME m.wire # <<>> PROVE Ordered(k)
    BY DEF Ordered
  <2> DEFINE j == Last(m.wire).of
  <2>1. j \in Requests
    BY LastPiece
  <2>2. /\ IsPrefix(m.wire, Given(m, j)) /\ \A i \in 1 .. j - 1 : m.res[i].finished
        /\ Len(Given(m, j - 1)) < Len(m.wire)
    BY DEF Wires, Ordered
  <2>3. j - 1 \in {0} \cup Requests /\ \A i \in 1 .. j - 1 : i \in Requests
    BY <2>1, CountIsNat
  <2>4. Given(k, j) = Given(m, j) /\ Given(k, j - 1) = Given(m, j - 1)
    BY <1>1, <2>1, <2>3
  <2>5. \A i \in 1 .. j - 1 : k.res[i].finished
    BY <2>2, <2>3 DEF SameText
  <2> QED
    BY <2>2, <2>4, <2>5 DEF Ordered
<1>6. k.writable => k.wire \o Unwritten(k) = Given(k, Latest(k))
  BY <1>1, <1>2, <1>3 DEF Wires
<1>7. ASSUME NEW n \in Requests
      PROVE  /\ n > Done(k) /\ n # k.httpMessage => k.res[n].output = k.res[n].given
             /\ n > k.count => k.res[n] = Response
             /\ k.res[n].answered => k.res[n].finished
  BY DEF Wires, SameText
<1>8. IsTop(k, "prefinish") => k.res[k.httpMessage].finished /\ k.res[k.httpMessage].output = <<>>
  <2> SUFFICES ASSUME IsTop(k, "prefinish")
               PROVE  k.res[k.httpMessage].finished /\ k.res[k.httpMessage].output = <<>>
    OBVIOUS
  <2>1. m.httpMessage \in Requests
    BY DEF Connections
  <2> QED
    BY <2>1 DEF Wires, SameText
<1> QED
  BY <1>4, <1>5, <1>6, <1>7, <1>8 DEF Wires

-----------------------------------------------------------------------------
(* The user's calls. *)

\* The user runs: no handler that matters is on top.
AtUser(m) == m.todo = <<>> \/ IsTop(m, "user")

\* None of these is on top when the user may call.
LEMMA NotOnTop ==
  ASSUME NEW m, AtUser(m)
  PROVE  ~IsTop(m, "assign") /\ ~IsTop(m, "prefinish") /\ ~IsTop(m, "continue")
<1> QED
  BY DEF AtUser, IsTop

\* write() of a response.
LEMMA WriteIsGood ==
  ASSUME NEW m, Good(m), AtUser(m), NEW n \in Requests, n <= m.count, ~m.res[n].finished,
         NEW h \in WithHeader(n, m), NEW asBuffer \in BOOLEAN,
         asBuffer => h.res[n].output = <<>>
  PROVE  LET k == Send(n, <<Piece(n, "body")>>, asBuffer, h)
         IN Good(k) /\ k.count = m.count
<1> DEFINE pieces == <<Piece(n, "body")>>
           k == Send(n, pieces, asBuffer, h)
           data == SentData(n, pieces, h)
<1>1. m \in Connections
  BY DEF Good
<1>2. /\ h \in Connections /\ Alike(m, h) /\ OnlyOutput(n, m, h) /\ h.todo = m.todo
      /\ h.wire = m.wire /\ h.res[n].output = m.res[n].output
  BY <1>1, WithHeaderAlike
<1>3. pieces \in Seq(Pieces) /\ \A i \in 1 .. Len(pieces) : pieces[i].of = n
  <2>1. pieces \in Seq(Pieces)
    BY OnePiece DEF Parts
  <2> QED
    BY <2>1 DEF Piece
<1> HIDE DEF pieces
<1>4. data \in Seq(Pieces) /\ \A i \in 1 .. Len(data) : data[i].of = n
  BY <1>2, <1>3, OwnData
<1>5. /\ k \in Connections /\ Alike(h, k) /\ k.todo = h.todo /\ Gave(n, data, h, k)
  BY <1>2, <1>3, SendGives
<1> HIDE DEF k, data
<1>6. Alike(m, k) /\ k.todo = m.todo /\ Gave(n, data, m, k)
  BY <1>2, <1>5, AlikeTwice, GaveAfter
<1>7. Good(k)
  BY <1>4, <1>5, <1>6, NotOnTop, GoodGives
<1>8. k.count = m.count
  BY <1>6 DEF Alike
<1> QED
  BY <1>7, <1>8 DEF k, pieces

\* A response finishes.
LEMMA PushPrefinish ==
  ASSUME NEW m \in Connections, NEW k \in Connections, NEW n \in Requests,
         Queues(m), Stack(m), Continues(m), Alike(m, k),
         k.todo = <<Item("prefinish", n)>> \o m.todo, m.httpMessage = n,
         ~IsTop(m, "assign"), ~IsTop(m, "prefinish"), ~IsTop(m, "continue"),
         ~(SomeAborted(m) /\ m.incoming # <<>>)
  PROVE  /\ Queues(k) /\ Stack(k) /\ Done(k) = Done(m) /\ Continues(k)
<1> DEFINE items == <<Item("prefinish", n)>>
<1>1. /\ items \in Seq(Items) /\ Len(items) = 1 /\ items[1] = Item("prefinish", n)
      /\ items # <<>>
  <2>1. Item("prefinish", n) \in Items
    BY CountIsNat, ItemType DEF Kinds
  <2> QED
    BY <2>1
<1>2. Item("prefinish", n).k = "prefinish" /\ Item("prefinish", n).n = n
  BY DEF Item
<1> HIDE DEF items
<1>3. /\ \A x : Has(k, x) <=> (\E i \in 1 .. Len(items) : items[i].k = x) \/ Has(m, x)
      /\ \A i \in 1 .. Len(k.todo) :
           \/ i \in 1 .. Len(items) /\ k.todo[i] = items[i]
           \/ i - Len(items) \in 1 .. Len(m.todo) /\ k.todo[i] = m.todo[i - Len(items)]
      /\ k.todo # <<>> /\ k.todo[1] = items[1]
  <2>1. k.todo = items \o m.todo
    BY DEF items
  <2> QED
    BY <1>1, <2>1, Pushes
<1>4. m.todo \in Seq(Items) /\ k.todo \in Seq(Items)
  BY DEF Connections
<1>5. \A i \in 1 .. Len(m.todo) : m.todo[i].k \notin {"assign", "prefinish"}
  <2> TAKE i \in 1 .. Len(m.todo)
  <2>1. CASE i = 1
    BY <1>4, <2>1 DEF IsTop
  <2>2. CASE i # 1
    <3>1. i \in 2 .. Len(m.todo)
      BY <1>4, <2>2
    <3> QED
      BY <3>1 DEF Stack
  <2> QED
    BY <2>1, <2>2
<1>6. \A i \in 2 .. Len(k.todo) : k.todo[i].k \notin {"assign", "prefinish"}
  <2> TAKE i \in 2 .. Len(k.todo)
  <2>1. i \in 1 .. Len(k.todo) /\ i \notin 1 .. 1
    BY <1>4
  <2> QED
    BY <1>1, <1>3, <1>5, <2>1
<1>7. \A x : x # "prefinish" => (Has(k, x) <=> Has(m, x))
  BY <1>1, <1>2, <1>3
<1>8. IsTop(k, "prefinish") /\ k.todo[1].n = n /\ ~IsTop(k, "assign")
  BY <1>1, <1>2, <1>3 DEF IsTop
<1>9. k.httpMessage = m.httpMessage /\ Current(k) = Current(m)
  BY <1>8 DEF Current, Alike
<1>10. Queues(k) /\ Done(k) = Done(m)
  BY <1>8, <1>9, QueuesKept, LinedChanges
<1>11. Stack(k)
  <2>1. n # 0
    BY CountIsNat
  <2>2. (Has(k, "abort") <=> Has(m, "abort")) /\ (Has(k, "execute") <=> Has(m, "execute"))
    BY <1>7
  <2> QED
    BY <1>6, <1>8, <2>1, <2>2, StackKept, LinedChanges
<1>12. Continues(k)
  <2>1. ~Has(m, "continue")
    BY NoContinue
  <2>2. ~Has(k, "continue")
    BY <1>7, <2>1
  <2> QED
    BY <2>2, ContinuesNone
<1> QED
  BY <1>10, <1>11, <1>12

\* end() of a response.
LEMMA EndIsGood ==
  ASSUME NEW m, Good(m), AtUser(m), NEW n \in Requests, n <= m.count, ~m.res[n].finished,
         NEW h \in WithHeader(n, m), Has(m, "abort") => m.incoming = <<>>
  PROVE  LET k == SendEnd(n, h)
         IN Good(k) /\ k.count = m.count
<1> DEFINE k == SendEnd(n, h)
<1>1. m \in Connections /\ Queues(m) /\ Stack(m) /\ Flags(m) /\ Continues(m) /\ Wires(m)
      /\ (m.reading => m.count # 0)
  BY DEF Good
<1>2. /\ h \in Connections /\ Alike(m, h) /\ OnlyOutput(n, m, h) /\ h.todo = m.todo
      /\ h.wire = m.wire /\ h.res[n].output = m.res[n].output
  BY <1>1, WithHeaderAlike
<1>3. /\ k \in Connections /\ Alike(h, k) /\ k.res[n].finished
      /\ \E data \in Seq(Pieces) :
           Gave(n, data, h, k) /\ \A i \in 1 .. Len(data) : data[i].of = n
      /\ \/ k.todo = h.todo
         \/ /\ h.httpMessage = n /\ k.res[n].output = <<>>
            /\ k.todo = <<Item("prefinish", n)>> \o h.todo
  BY <1>2, SendEndGives
<1> HIDE DEF k
<1>4. PICK data \in Seq(Pieces) :
        Gave(n, data, h, k) /\ \A i \in 1 .. Len(data) : data[i].of = n
  BY <1>3
<1>5. Alike(m, k) /\ Gave(n, data, m, k) /\ h.httpMessage = m.httpMessage
  BY <1>2, <1>3, <1>4, AlikeTwice, GaveAfter DEF Alike
<1>6. CASE k.todo = h.todo
  <2>1. k.todo = m.todo
    BY <1>2, <1>6
  <2> QED
    BY <1>3, <1>4, <1>5, <2>1, NotOnTop, GoodGives DEF Alike, k
<1>7. CASE /\ h.httpMessage = n /\ k.res[n].output = <<>>
           /\ k.todo = <<Item("prefinish", n)>> \o h.todo
  <2>1. m.httpMessage = n /\ k.todo = <<Item("prefinish", n)>> \o m.todo
    BY <1>2, <1>5, <1>7
  <2>2. ~(SomeAborted(m) /\ m.incoming # <<>>)
    BY <1>1 DEF Stack
  <2>3. Queues(k) /\ Stack(k) /\ Done(k) = Done(m) /\ Continues(k)
    BY <1>1, <1>3, <1>5, <2>1, <2>2, NotOnTop, PushPrefinish
  <2>4. Flags(k)
    BY <1>1, <1>5, FlagsKept
  <2>5. Wires(k)
    BY <1>1, <1>3, <1>4, <1>5, <1>7, <2>1, <2>3, WiresGave
  <2> QED
    BY <1>1, <1>3, <1>5, <2>3, <2>4, <2>5 DEF Good, Alike, k
<1> QED
  BY <1>3, <1>6, <1>7

\* A change of a response that nothing on the wire depends on.
LEMMA ResponseIsGood ==
  ASSUME NEW m, Good(m), NEW n \in Requests, n <= m.count, AtUser(m), NEW r \in Responses,
         r.finished = m.res[n].finished, r.answered = m.res[n].answered,
         r.given = m.res[n].given, r.output = m.res[n].output
  PROVE  LET k == [m EXCEPT !.res[n] = r]
         IN Good(k) /\ k.count = m.count /\ k.todo = m.todo
<1> DEFINE k == [m EXCEPT !.res[n] = r]
<1>1. m \in Connections /\ Queues(m) /\ Stack(m) /\ Flags(m) /\ Continues(m) /\ Wires(m)
      /\ (m.reading => m.count # 0)
  BY DEF Good
<1>2. /\ k \in Connections /\ Alike(m, k) /\ OnlyOutput(n, m, k) /\ k.todo = m.todo
      /\ k.wire = m.wire /\ k.res[n].output = m.res[n].output
  BY <1>1, OtherFields
<1> HIDE DEF k
<1>3. Queues(k) /\ Stack(k) /\ Done(k) = Done(m)
  BY <1>1, <1>2, StackStays, LinedChanges
<1>4. Flags(k)
  BY <1>1, <1>2, FlagsKept
<1>5. Continues(k)
  <2>1. ~Has(m, "continue")
    BY <1>1, NotOnTop, NoContinue
  <2> QED
    BY <1>2, <2>1, ContinuesNone DEF Has
<1>6. Wires(k)
  <2>1. SameText(m, k)
    BY <1>1, <1>2, OneChanged
  <2>2. ~IsTop(k, "prefinish")
    BY <1>2, NotOnTop DEF IsTop
  <2>3. k.writable = m.writable /\ k.count = m.count /\ k.httpMessage = m.httpMessage
    BY <1>2 DEF Alike
  <2> QED
    BY <1>1, <1>2, <1>3, <2>1, <2>2, <2>3, WiresOther
<1>7. Good(k) /\ k.count = m.count
  BY <1>1, <1>2, <1>3, <1>4, <1>5, <1>6 DEF Good, Alike
<1> QED
  BY <1>2, <1>7 DEF k

\* Such changes: destroys, last and waits.
LEMMA MarksAreGood ==
  ASSUME NEW m, Good(m), NEW n \in Requests, n <= m.count, AtUser(m)
  PROVE  /\ LET k == [m EXCEPT !.res[n].destroys = TRUE]
            IN Good(k) /\ k.count = m.count /\ k.todo = m.todo
         /\ LET k == [m EXCEPT !.res[n].last = TRUE]
            IN Good(k) /\ k.count = m.count /\ k.todo = m.todo
         /\ LET k == [m EXCEPT !.res[n].waits = FALSE]
            IN Good(k) /\ k.count = m.count /\ k.todo = m.todo
<1> DEFINE destroys == [m.res[n] EXCEPT !.destroys = TRUE]
           last == [m.res[n] EXCEPT !.last = TRUE]
           waits == [m.res[n] EXCEPT !.waits = FALSE]
           set(r) == [m EXCEPT !.res[n] = r]
<1>1. m.res[n] \in Responses
  BY DEF Good, Connections
<1>2. \A r \in {destroys, last, waits} :
        /\ r \in Responses
        /\ r.finished = m.res[n].finished /\ r.answered = m.res[n].answered
        /\ r.given = m.res[n].given /\ r.output = m.res[n].output
  <2>1. /\ destroys \in Responses
        /\ destroys.finished = m.res[n].finished /\ destroys.answered = m.res[n].answered
        /\ destroys.given = m.res[n].given /\ destroys.output = m.res[n].output
    BY <1>1 DEF Responses
  <2>2. /\ last \in Responses
        /\ last.finished = m.res[n].finished /\ last.answered = m.res[n].answered
        /\ last.given = m.res[n].given /\ last.output = m.res[n].output
    BY <1>1 DEF Responses
  <2>3. /\ waits \in Responses
        /\ waits.finished = m.res[n].finished /\ waits.answered = m.res[n].answered
        /\ waits.given = m.res[n].given /\ waits.output = m.res[n].output
    BY <1>1 DEF Responses
  <2> HIDE DEF destroys, last, waits
  <2> QED
    BY <2>1, <2>2, <2>3
<1>3. \A r \in {destroys, last, waits} :
        Good(set(r)) /\ set(r).count = m.count /\ set(r).todo = m.todo
  <2> HIDE DEF destroys, last, waits
  <2> QED
    BY <1>2, ResponseIsGood
<1>4. /\ [m EXCEPT !.res[n].destroys = TRUE] = set(destroys)
      /\ [m EXCEPT !.res[n].last = TRUE] = set(last)
      /\ [m EXCEPT !.res[n].waits = FALSE] = set(waits)
  OBVIOUS
<1> HIDE DEF set, destroys, last, waits
<1> QED
  BY <1>3, <1>4

\* req.resume(), when the request changes otherwise, and what waits for a tick.
LEMMA RequestIsGood ==
  ASSUME NEW m, Good(m), NEW req \in [Requests -> RequestStates],
         \A i \in Requests : req[i].aborted = m.req[i].aborted, NEW ticks \in Seq(Requests)
  PROVE  LET k == [m EXCEPT !.req = req, !.ticks = ticks]
         IN Good(k) /\ k.count = m.count /\ k.todo = m.todo
<1> DEFINE k == [m EXCEPT !.req = req, !.ticks = ticks]
<1>1. m \in Connections /\ Flags(m)
  BY DEF Good
<1>4. k \in Connections /\ k.req = req
  BY <1>1 DEF Connections
<1>5. /\ k.incoming = m.incoming /\ k.outgoing = m.outgoing /\ k.httpMessage = m.httpMessage
      /\ k.count = m.count /\ k.reading = m.reading
      /\ k.parserPaused = m.parserPaused /\ k.paused = m.paused /\ k.flowing = m.flowing
      /\ k.readable = m.readable /\ k.writable = m.writable
      /\ k.eof = m.eof /\ k.destroyed = m.destroyed /\ k.closed = m.closed
      /\ k.res = m.res /\ k.wire = m.wire /\ k.todo = m.todo
  BY <1>1 DEF Connections
<1> HIDE DEF k
<1>6. Alike(m, k)
  BY <1>4, <1>5 DEF Alike
<1>7. Flags(k)
  BY <1>1, <1>6, FlagsKept
<1>8. Good(k)
  BY <1>4, <1>5, <1>6, <1>7, GoodStays, LinedChanges
<1> QED
  BY <1>5, <1>8 DEF k

\* A call of the user counts.
LEMMA CallIsGood ==
  ASSUME Inv, Call, Good(conn'), conn.count = conn'.count
  PROVE  Inv'
<1> QED
  BY DEF Inv, Call, Good

\* The words of the specification and those of the proof.
LEMMA StackWords ==
  ASSUME conn \in Connections
  PROVE  /\ conn.todo \in Seq(Items)
         /\ \A x : Running(x) <=> IsTop(conn, x)
         /\ \A x : Within(x) <=> Has(conn, x)
         /\ conn.todo # <<>> => Top = conn.todo[1].n /\ conn.todo[1] \in Items
<1>1. conn.todo \in Seq(Items)
  BY DEF Connections
<1>2. conn.todo # <<>> => Head(conn.todo) = conn.todo[1] /\ conn.todo[1] \in Items
  BY <1>1
<1>3. DOMAIN conn.todo = 1 .. Len(conn.todo)
  BY <1>1
<1> QED
  BY <1>1, <1>2, <1>3 DEF Running, IsTop, Within, Has, Top

\* The user calls at rest or in a handler.
LEMMA CallIsAtUser ==
  ASSUME Inv, Call
  PROVE  AtUser(conn) /\ conn \in Connections
<1>1. conn \in Connections
  BY DEF Inv, Good
<1> QED
  BY <1>1, StackWords DEF Call, AtRest, AtUser

\* The requests so far are among those there may be.
LEMMA KnownIsRequest ==
  ASSUME Inv, NEW n \in Known
  PROVE  n \in Requests /\ n <= conn.count
<1>1. conn \in Connections
  BY DEF Inv, Good
<1> QED
  BY <1>1, CountIsNat DEF Known

\* Write keeps the invariant, if the user is not careless.
LEMMA WriteKeeps ==
  ASSUME Careless = FALSE, Inv, NEW n \in Known, Write(n)
  PROVE  Inv'
<1>1. Call /\ ~conn.res[n].finished
  BY DEF Write
<1>2. PICK h \in WithHeader(n, conn) :
        LET asBuffer == h.res[n].header = "length" /\ h.res[n].output = <<>>
        IN conn' = Send(n, <<Piece(n, "body")>>, asBuffer, h)
  BY DEF Write
<1> DEFINE asBuffer == h.res[n].header = "length" /\ h.res[n].output = <<>>
           k == Send(n, <<Piece(n, "body")>>, asBuffer, h)
<1>3. asBuffer \in BOOLEAN /\ (asBuffer => h.res[n].output = <<>>) /\ conn' = k
  BY <1>2
<1>4. Good(conn) /\ AtUser(conn) /\ n \in Requests /\ n <= conn.count
  BY <1>1, CallIsAtUser, KnownIsRequest DEF Inv
<1> HIDE DEF asBuffer
<1>5. Good(k) /\ k.count = conn.count
  BY <1>1, <1>3, <1>4, WriteIsGood
<1> HIDE DEF k
<1>6. Good(conn') /\ conn.count = conn'.count
  BY <1>3, <1>5
<1> QED
  BY <1>1, <1>6, CallIsGood

\* End keeps the invariant, if the user is not careless.
LEMMA EndKeeps ==
  ASSUME Careless = FALSE, Inv, NEW n \in Known, End(n)
  PROVE  Inv'
<1>1. Call /\ ~conn.res[n].finished /\ Ends
  BY DEF End
<1>2. PICK h \in WithHeader(n, conn) : conn' = SendEnd(n, h)
  BY DEF End
<1>3. Good(conn) /\ AtUser(conn) /\ n \in Requests /\ n <= conn.count /\ conn \in Connections
  BY <1>1, CallIsAtUser, KnownIsRequest DEF Inv
<1>4. Has(conn, "abort") => conn.incoming = <<>>
  BY <1>1, <1>3, StackWords DEF Ends
<1>5. Good(SendEnd(n, h)) /\ SendEnd(n, h).count = conn.count
  BY <1>1, <1>3, <1>4, EndIsGood
<1>6. Good(conn') /\ conn.count = conn'.count
  BY <1>2, <1>5
<1> QED
  BY <1>1, <1>6, CallIsGood

\* Flags of the socket that are taken down.
LEMMA DownIsGood ==
  ASSUME NEW m, NEW k \in Connections, Good(m), Down(m, k)
  PROVE  Good(k) /\ k.count = m.count /\ k.eof = m.eof
<1>1. Flags(k)
  BY DEF Good, Flags, Down
<1>2. Good(k)
  BY <1>1, GoodStays, LinedChanges DEF Down
<1> QED
  BY <1>2 DEF Down

\* destroy() of the socket.
LEMMA DestroyIsGood ==
  ASSUME NEW m, Good(m)
  PROVE  Good(Destroy(m)) /\ Destroy(m).count = m.count /\ Destroy(m).eof = m.eof
<1> QED
  BY DownIsGood, DestroyIsDown DEF Good

\* DestroyResponse keeps the invariant.
LEMMA DestroyResponseKeeps ==
  ASSUME Inv, NEW n \in Known, DestroyResponse(n)
  PROVE  Inv'
<1>1. Call
  BY DEF DestroyResponse
<1>2. Good(conn) /\ AtUser(conn) /\ n \in Requests /\ n <= conn.count
  BY <1>1, CallIsAtUser, KnownIsRequest DEF Inv
<1>3. \/ conn' = Destroy(conn)
      \/ conn' = [conn EXCEPT !.res[n].destroys = TRUE]
  BY DEF DestroyResponse
<1> DEFINE k == [conn EXCEPT !.res[n].destroys = TRUE]
<1>4. Good(k) /\ k.count = conn.count
  BY <1>2, MarksAreGood
<1> HIDE DEF k
<1>5. conn' = Destroy(conn) \/ conn' = k
  BY <1>3 DEF k
<1>6. Good(conn') /\ conn.count = conn'.count
  BY <1>2, <1>4, <1>5, DestroyIsGood
<1> QED
  BY <1>1, <1>6, CallIsGood

\* Consume keeps the invariant.
LEMMA ConsumeKeeps ==
  ASSUME Inv, NEW n \in Known, Consume(n)
  PROVE  Inv'
<1>1. Call
  BY DEF Consume
<1>2. Good(conn) /\ n \in Requests /\ conn \in Connections
  BY <1>1, CallIsAtUser, KnownIsRequest DEF Inv
<1> DEFINE q == [conn.req[n] EXCEPT !.consuming = TRUE]
           req == [conn.req EXCEPT ![n] = q]
           ticks == Append(conn.ticks, n)
           k == [conn EXCEPT !.req = req, !.ticks = ticks]
<1>3. conn.req \in [Requests -> RequestStates] /\ ticks \in Seq(Requests)
  BY <1>2 DEF Connections
<1>4. req \in [Requests -> RequestStates] /\ \A i \in Requests : req[i].aborted = conn.req[i].aborted
  <2>1. conn.req[n] \in RequestStates
    BY <1>2, <1>3
  <2>2. q \in RequestStates /\ q.aborted = conn.req[n].aborted
    BY <2>1 DEF RequestStates
  <2> HIDE DEF q
  <2> QED
    BY <1>3, <2>2
<1>5. conn' = k
  BY DEF Consume
<1> HIDE DEF req, ticks
<1>6. Good(k) /\ k.count = conn.count
  BY <1>2, <1>3, <1>4, RequestIsGood
<1> HIDE DEF k
<1>7. Good(conn') /\ conn.count = conn'.count
  BY <1>5, <1>6
<1> QED
  BY <1>1, <1>7, CallIsGood

-----------------------------------------------------------------------------
(* The parser and the stream. *)

\* A step that leaves the counters and the number of requests.
LEMMA StepIsGood ==
  ASSUME Inv, Good(conn'), conn'.count = conn.count, UNCHANGED <<body, calls>>
  PROVE  Inv'
<1> QED
  BY DEF Inv, Good

\* readStart and readStop.
LEMMA ReadIsGood ==
  ASSUME NEW m, Good(m)
  PROVE  /\ Good(ReadStart(m)) /\ ReadStart(m).count = m.count
         /\ Good(ReadStop(m)) /\ ReadStop(m).count = m.count
<1>1. m \in Connections /\ Flags(m)
  BY DEF Good
<1>2. ASSUME NEW flowing \in BOOLEAN, flowing => ~m.paused
      PROVE  Good([m EXCEPT !.flowing = flowing]) /\ [m EXCEPT !.flowing = flowing].count = m.count
  <2> DEFINE k == [m EXCEPT !.flowing = flowing]
  <2>1. k \in Connections /\ Lined(m, k) /\ k.todo = m.todo /\ k.res = m.res /\ k.wire = m.wire
        /\ k.writable = m.writable /\ k.reading = m.reading /\ Flags(k) /\ k.count = m.count
    BY <1>1, <1>2 DEF Connections, Lined, Flags
  <2> HIDE DEF k
  <2>2. Good(k) /\ k.count = m.count
    BY <2>1, GoodStays
  <2> QED
    BY <2>2 DEF k
<1> QED
  BY <1>2 DEF ReadStart, ReadStop

\* What a request keeps of its body changes nothing else.
LEMMA KeptIsGood ==
  ASSUME NEW m, Good(m), NEW n \in Requests, NEW kept \in {"none", "some", "full"}
  PROVE  LET k == [m EXCEPT !.req[n].kept = kept]
         IN Good(k) /\ k.count = m.count
<1> DEFINE q == [m.req[n] EXCEPT !.kept = kept]
           req == [m.req EXCEPT ![n] = q]
           k == [m EXCEPT !.req = req]
           ticks == m.ticks
<1>1. m \in Connections /\ m.req \in [Requests -> RequestStates] /\ ticks \in Seq(Requests)
  BY DEF Good, Connections
<1>2. req \in [Requests -> RequestStates] /\ \A i \in Requests : req[i].aborted = m.req[i].aborted
  <2>1. m.req[n] \in RequestStates
    BY <1>1
  <2>2. q \in RequestStates /\ q.aborted = m.req[n].aborted
    BY <2>1 DEF RequestStates
  <2> HIDE DEF q
  <2> QED
    BY <1>1, <2>2
<1>3. [m EXCEPT !.req[n].kept = kept] = k
  OBVIOUS
<1> HIDE DEF req
<1>4. k = [m EXCEPT !.req = req, !.ticks = ticks]
  BY <1>1 DEF Connections
<1> HIDE DEF ticks, k
<1>5. Good(k) /\ k.count = m.count
  BY <1>1, <1>2, <1>4, RequestIsGood
<1> QED
  BY <1>3, <1>5

\* ParserOnBody keeps the invariant.
LEMMA ParserOnBodyKeeps ==
  ASSUME Inv, ParserOnBody
  PROVE  Inv'
<1> DEFINE n == conn.count
<1>1. conn.reading /\ More /\ body' = body + 1
  BY DEF ParserOnBody
<1>2. Good(conn) /\ conn \in Connections /\ n \in Requests
  <2>1. Good(conn) /\ conn \in Connections /\ n # 0
    BY <1>1 DEF Inv, Good
  <2> QED
    BY <2>1 DEF Connections
<1>3. \/ conn' = conn
      \/ \E kept \in {"some", "full"} :
           LET m == [conn EXCEPT !.req[n].kept = kept]
           IN conn' = m \/ conn' = ReadStop(m)
  BY DEF ParserOnBody
<1>4. ASSUME NEW kept \in {"some", "full"}
      PROVE  LET m == [conn EXCEPT !.req[n].kept = kept]
             IN Good(m) /\ m.count = n
  BY <1>2, KeptIsGood
<1>5. Good(conn') /\ conn'.count = n
  <2>1. CASE conn' = conn
    BY <1>2, <2>1
  <2>2. CASE conn' # conn
    <3>1. PICK kept \in {"some", "full"} :
            LET m == [conn EXCEPT !.req[n].kept = kept]
            IN conn' = m \/ conn' = ReadStop(m)
      BY <1>3, <2>2
    <3> DEFINE m == [conn EXCEPT !.req[n].kept = kept]
    <3>2. Good(m) /\ m.count = n /\ (conn' = m \/ conn' = ReadStop(m))
      BY <1>4, <3>1
    <3> HIDE DEF m
    <3> QED
      BY <3>2, ReadIsGood
  <2> QED
    BY <2>1, <2>2
<1>6. body' \in Nat /\ n + body' <= MaxInput
  <2>1. body \in Nat /\ n \in Nat /\ MaxInput \in Nat
    BY <1>2, CountIsNat DEF Inv
  <2> QED
    BY <1>1, <2>1 DEF More
<1> QED
  BY <1>5, <1>6 DEF Inv, Good

\* ParserOnMessageComplete keeps the invariant.
LEMMA ParserOnMessageCompleteKeeps ==
  ASSUME Inv, ParserOnMessageComplete
  PROVE  Inv'
<1> DEFINE k == [(IF Running("complete") THEN Popped ELSE conn) EXCEPT !.reading = FALSE]
<1>1. Good(conn) /\ conn \in Connections /\ Flags(conn)
  BY DEF Inv, Good
<1>2. conn' = ReadStart(k) /\ UNCHANGED <<body, calls>>
  BY DEF ParserOnMessageComplete
<1>3. conn.todo \in Seq(Items) /\ (Running("complete") <=> IsTop(conn, "complete"))
  BY <1>1, StackWords
<1>4. CASE Running("complete")
  <2> DEFINE todo == Tail(conn.todo)
             l == [conn EXCEPT !.todo = todo, !.reading = FALSE]
  <2>1. conn.todo # <<>> /\ conn.todo[1].k = "complete" /\ todo \in Seq(Items)
    BY <1>3, <1>4 DEF IsTop
  <2>2. k = l
    BY <1>4 DEF Popped
  <2> HIDE DEF todo, k
  <2>3. l \in Connections /\ Lined(conn, l) /\ l.todo = todo /\ l.res = conn.res /\ l.wire = conn.wire
        /\ l.writable = conn.writable /\ l.reading = FALSE /\ Flags(l) /\ l.count = conn.count
    BY <1>1, <2>1 DEF Connections, Lined, Flags
  <2> HIDE DEF l
  <2>4. Good(l)
    BY <1>1, <2>1, <2>3, GoodPops DEF todo
  <2>5. Good(k) /\ k.count = conn.count
    BY <2>2, <2>3, <2>4
  <2>6. Good(conn') /\ conn'.count = conn.count
    BY <1>2, <2>5, ReadIsGood
  <2> QED
    BY <1>2, <2>6, StepIsGood
<1>5. CASE ~Running("complete")
  <2> DEFINE l == [conn EXCEPT !.reading = FALSE]
  <2>1. k = l
    BY <1>5
  <2> HIDE DEF k
  <2>2. l \in Connections /\ Lined(conn, l) /\ l.todo = conn.todo /\ l.res = conn.res
        /\ l.wire = conn.wire /\ l.writable = conn.writable /\ l.reading = FALSE /\ Flags(l)
        /\ l.count = conn.count
    BY <1>1 DEF Connections, Lined, Flags
  <2> HIDE DEF l
  <2>3. Good(l)
    BY <1>1, <2>2, GoodStays
  <2>4. Good(k) /\ k.count = conn.count
    BY <2>1, <2>2, <2>3
  <2>5. Good(conn') /\ conn'.count = conn.count
    BY <1>2, <2>4, ReadIsGood
  <2> QED
    BY <1>2, <2>5, StepIsGood
<1> QED
  BY <1>4, <1>5

\* ExecuteReturns keeps the invariant.
LEMMA ExecuteReturnsKeeps ==
  ASSUME Inv, ExecuteReturns
  PROVE  Inv'
<1> DEFINE todo == Tail(conn.todo)
           pauses == conn.parserPaused \/ conn.paused
           l == [conn EXCEPT !.todo = todo, !.parserPaused = pauses]
<1>1. Good(conn) /\ conn \in Connections /\ Flags(conn)
  BY DEF Inv, Good
<1>2. conn.todo \in Seq(Items) /\ IsTop(conn, "execute") /\ conn' = l /\ UNCHANGED <<body, calls>>
  BY <1>1, StackWords DEF ExecuteReturns, Popped
<1>3. conn.todo # <<>> /\ conn.todo[1].k = "execute" /\ todo \in Seq(Items)
  BY <1>2 DEF IsTop
<1>4. pauses \in BOOLEAN /\ (pauses => conn.paused)
  BY <1>1 DEF Flags
<1> HIDE DEF todo, pauses
<1>5. l \in Connections /\ Lined(conn, l) /\ l.todo = todo /\ l.res = conn.res /\ l.wire = conn.wire
      /\ l.writable = conn.writable /\ l.reading = conn.reading /\ Flags(l) /\ l.count = conn.count
  BY <1>1, <1>3, <1>4 DEF Connections, Lined, Flags
<1> HIDE DEF l
<1>6. Good(l)
  BY <1>1, <1>3, <1>5, GoodPops DEF todo
<1>7. Good(conn') /\ conn'.count = conn.count
  BY <1>2, <1>5, <1>6
<1> QED
  BY <1>2, <1>7, StepIsGood

\* A handler returns.
LEMMA PoppedIsGood ==
  ASSUME NEW m, Good(m), m.todo # <<>>,
         m.todo[1].k \notin {"assign", "prefinish", "abort", "continue"}
  PROVE  LET k == [m EXCEPT !.todo = Tail(@)]
         IN /\ Good(k) /\ k.todo = Tail(m.todo) /\ k.count = m.count
            /\ Has(m, "execute") \/ ~Has(k, "execute")
<1> DEFINE todo == Tail(m.todo)
           k == [m EXCEPT !.todo = todo]
<1>1. m \in Connections /\ Flags(m) /\ Stack(m) /\ todo \in Seq(Items)
  BY DEF Good, Connections
<1> HIDE DEF todo
<1>2. k \in Connections /\ Lined(m, k) /\ k.todo = todo /\ k.res = m.res /\ k.wire = m.wire
      /\ k.writable = m.writable /\ k.reading = m.reading /\ Flags(k) /\ k.count = m.count
  BY <1>1 DEF Connections, Lined, Flags
<1>3. [m EXCEPT !.todo = Tail(@)] = k
  BY DEF todo
<1> HIDE DEF k
<1>4. Good(k) /\ (Has(m, "execute") \/ ~Has(k, "execute"))
  <2>1. k.todo = Tail(m.todo)
    BY <1>2 DEF todo
  <2>2. Good(k)
    BY <1>1, <1>2, <2>1, GoodPops
  <2>3. Has(m, "execute") \/ ~Has(k, "execute")
    BY <1>1, <1>2, <2>1, Pops
  <2> QED
    BY <2>2, <2>3
<1> QED
  BY <1>2, <1>3, <1>4 DEF todo

\* UserReturns keeps the invariant.
LEMMA UserReturnsKeeps ==
  ASSUME Inv, UserReturns
  PROVE  Inv'
<1>1. Good(conn) /\ conn \in Connections
  BY DEF Inv, Good
<1>2. conn.todo # <<>> /\ conn.todo[1].k = "user" /\ conn' = Popped /\ UNCHANGED <<body, calls>>
  BY <1>1, StackWords DEF UserReturns, IsTop
<1>3. Good(Popped) /\ Popped.count = conn.count
  BY <1>1, <1>2, PoppedIsGood DEF Popped
<1>4. Good(conn') /\ conn'.count = conn.count
  BY <1>2, <1>3
<1> QED
  BY <1>2, <1>4, StepIsGood

\* SocketOnDrain keeps the invariant.
LEMMA SocketOnDrainKeeps ==
  ASSUME Inv, SocketOnDrain
  PROVE  Inv'
<1> DEFINE p == Popped
<1>1. Good(conn) /\ conn \in Connections
  BY DEF Inv, Good
<1>2. /\ conn.todo # <<>> /\ conn.todo[1].k = "drained" /\ (conn' = Drained(p) \/ conn' = p)
      /\ UNCHANGED <<body, calls>>
  BY <1>1, StackWords DEF SocketOnDrain, IsTop
<1>3. Good(p) /\ p.count = conn.count
  BY <1>1, <1>2, PoppedIsGood DEF Popped
<1> HIDE DEF p
<1>4. Good(Drained(p)) /\ Drained(p).count = p.count
  <2> DEFINE k == Drained(p)
  <2>1. p \in Connections /\ Flags(p)
    BY <1>3 DEF Good
  <2>2. k \in Connections /\ Lined(p, k) /\ k.todo = p.todo /\ k.res = p.res /\ k.wire = p.wire
        /\ k.writable = p.writable /\ k.reading = p.reading /\ Flags(k) /\ k.count = p.count
    BY <2>1 DEF Connections, Lined, Flags, Drained
  <2> HIDE DEF k
  <2>3. Good(k) /\ k.count = p.count
    BY <1>3, <2>2, GoodStays
  <2> QED
    BY <2>3 DEF k
<1>5. Good(conn') /\ conn'.count = conn.count
  BY <1>2, <1>3, <1>4
<1> QED
  BY <1>2, <1>5, StepIsGood

\* ResumeReq keeps the invariant.
LEMMA ResumeReqKeeps ==
  ASSUME Inv, ResumeReq
  PROVE  Inv'
<1> DEFINE n == Head(conn.ticks)
           q == [conn.req[n] EXCEPT !.kept = "none"]
           req == [conn.req EXCEPT ![n] = q]
           ticks == Tail(conn.ticks)
           k == [conn EXCEPT !.req = req, !.ticks = ticks]
           m == [conn EXCEPT !.ticks = ticks, !.req[n].kept = "none"]
<1>1. Good(conn) /\ conn \in Connections /\ UNCHANGED <<body, calls>> /\ conn.ticks # <<>>
  BY DEF Inv, Good, ResumeReq
<1>2. conn.req \in [Requests -> RequestStates] /\ ticks \in Seq(Requests) /\ n \in Requests
  <2>1. conn.ticks \in Seq(Requests) /\ conn.req \in [Requests -> RequestStates]
    BY <1>1 DEF Connections
  <2> QED
    BY <1>1, <2>1
<1>3. conn' = m \/ conn' = ReadStart(m)
  BY DEF ResumeReq
<1> HIDE DEF n, ticks
<1>4. req \in [Requests -> RequestStates] /\ \A i \in Requests : req[i].aborted = conn.req[i].aborted
  <2>1. conn.req[n] \in RequestStates
    BY <1>2
  <2>2. q \in RequestStates /\ q.aborted = conn.req[n].aborted
    BY <2>1 DEF RequestStates
  <2> HIDE DEF q
  <2> QED
    BY <1>2, <2>2
<1>5. m = k
  <2>1. m = [conn EXCEPT !.ticks = ticks, !.req = req]
    BY <1>1 DEF Connections
  <2> HIDE DEF req, m
  <2> QED
    BY <1>1, <2>1 DEF Connections
<1> HIDE DEF req, m
<1>6. Good(k) /\ k.count = conn.count
  BY <1>1, <1>2, <1>4, RequestIsGood
<1> HIDE DEF k
<1>7. Good(conn') /\ conn'.count = conn.count
  BY <1>3, <1>5, <1>6, ReadIsGood
<1> QED
  BY <1>1, <1>7, StepIsGood

\* Pieces go to the end of what a response was given.
LEMMA AppendGives ==
  ASSUME NEW m \in Connections, NEW n \in Requests, NEW pieces \in Seq(Pieces)
  PROVE  LET k == WriteRaw(n, pieces, [m EXCEPT !.res[n].given = @ \o pieces])
         IN /\ k \in Connections /\ Alike(m, k) /\ k.todo = m.todo /\ Gave(n, pieces, m, k)
            /\ FinishedAlike(n, m, k) /\ Beside(m, k) /\ Told(n, k)
<1> DEFINE resp == m.res[n]
           given == resp.given \o pieces
           r == [resp EXCEPT !.given = given]
           set(x) == [m EXCEPT !.res[n] = x]
           k == WriteRaw(n, pieces, set(r))
<1>1. resp \in Responses /\ resp.output \in Seq(Pieces) /\ given \in Seq(Pieces)
  <2>1. resp \in Responses
    BY DEF Connections
  <2>2. resp.output \in Seq(Pieces) /\ resp.given \in Seq(Pieces)
    BY <2>1 DEF Responses
  <2> QED
    BY <2>1, <2>2, Concatenate
<1>2. Noted(m, n, pieces, resp.output, r)
  BY <1>1 DEF Responses, Noted
<1>3. [m EXCEPT !.res[n].given = @ \o pieces] = set(r)
  OBVIOUS
<1>4. ASSUME NEW d \in Seq(Pieces), NEW out \in Seq(Pieces), NEW p \in Seq(Pieces), NEW q,
             out \o p = m.res[n].output \o d, Noted(m, n, d, out, q)
      PROVE  LET l == WriteRaw(n, p, set(q))
             IN /\ l \in Connections /\ Alike(m, l) /\ l.todo = m.todo /\ Gave(n, d, m, l)
                /\ FinishedAlike(n, m, l) /\ Beside(m, l) /\ Told(n, l)
  BY <1>4, WriteRawGives
<1> DEFINE output == resp.output
<1>5. output \in Seq(Pieces) /\ output \o pieces = m.res[n].output \o pieces
      /\ Noted(m, n, pieces, output, r)
  BY <1>1, <1>2
<1> HIDE DEF r, set, output
<1>6. /\ k \in Connections /\ Alike(m, k) /\ k.todo = m.todo /\ Gave(n, pieces, m, k)
      /\ FinishedAlike(n, m, k) /\ Beside(m, k) /\ Told(n, k)
  BY <1>4, <1>5
<1> QED
  BY <1>3, <1>6

\* writeContinue
LEMMA ContinueIsGood ==
  ASSUME NEW m, Good(m), IsTop(m, "continue"), NEW n, n = m.todo[1].n
  PROVE  LET p == [m EXCEPT !.todo = Tail(@)]
             piece == <<Piece(n, "continue")>>
             k == WriteRaw(n, piece, [p EXCEPT !.res[n].given = @ \o piece])
         IN Good(k) /\ k.count = m.count
<1> DEFINE p == [m EXCEPT !.todo = Tail(@)]
           piece == <<Piece(n, "continue")>>
           k == WriteRaw(n, piece, [p EXCEPT !.res[n].given = @ \o piece])
<1>1. /\ m \in Connections /\ Queues(m) /\ Stack(m) /\ Flags(m) /\ Continues(m) /\ Wires(m)
      /\ (m.reading => m.count # 0)
  BY DEF Good
<1>2. m.todo # <<>> /\ m.todo \in Seq(Items) /\ m.todo[1].k = "continue" /\ m.todo[1] \in Items
  BY <1>1 DEF IsTop, Connections
<1>3. n = m.count /\ n \in Requests /\ ~m.res[n].finished
  <2>1. 1 \in 1 .. Len(m.todo)
    BY <1>2
  <2>2. n = m.count /\ m.count # 0 /\ ~m.res[m.count].finished
    BY <1>1, <1>2, <2>1 DEF Continues
  <2> QED
    BY <1>1, <2>2 DEF Connections
<1>4. ~Has(p, "continue") /\ p.todo = Tail(m.todo)
  <2> DEFINE s == m.todo
             t == Tail(s)
  <2>1. p.todo = t
    BY <1>1 DEF Connections
  <2>2. \A i \in 1 .. Len(s) : i # 1 => s[i].k # "continue"
    BY <1>1, <1>2 DEF Continues, Item
  <2>3. s \in Seq(Items) /\ s # <<>>
    BY <1>2
  <2> HIDE DEF s, p
  <2>4. \A i \in 1 .. Len(t) : i + 1 \in 1 .. Len(s) /\ i + 1 # 1 /\ t[i] = s[i + 1]
    BY <2>3
  <2> HIDE DEF t
  <2>5. ~Has(p, "continue")
    BY <2>1, <2>2, <2>4 DEF Has
  <2> QED
    BY <2>1, <2>5 DEF t, s
<1>5. p \in Connections /\ Lined(m, p) /\ p.res = m.res /\ p.wire = m.wire /\ Flags(p)
      /\ p.writable = m.writable /\ p.count = m.count /\ p.httpMessage = m.httpMessage
      /\ p.reading = m.reading
  <2> DEFINE todo == Tail(m.todo)
  <2>1. todo \in Seq(Items)
    BY <1>2
  <2> HIDE DEF todo
  <2>2. p = [m EXCEPT !.todo = todo]
    BY DEF todo
  <2> HIDE DEF p
  <2> QED
    BY <1>1, <2>1, <2>2 DEF Connections, Lined, Flags
<1>6. Queues(p) /\ Stack(p) /\ Done(p) = Done(m) /\ ~IsTop(p, "prefinish")
  <2> HIDE DEF p
  <2> QED
    BY <1>1, <1>2, <1>4, <1>5, PlainPop
<1>7. Wires(p)
  <2> HIDE DEF p
  <2> QED
    BY <1>1, <1>5, <1>6, WiresSame
<1>8. piece \in Seq(Pieces) /\ \A i \in 1 .. Len(piece) : piece[i].of = n
  <2>1. piece \in Seq(Pieces)
    BY <1>3, OnePiece DEF Parts
  <2> QED
    BY <2>1 DEF Piece
<1>9. ~p.res[n].finished
  BY <1>3, <1>5
<1> HIDE DEF p, piece
<1>10. k \in Connections /\ Alike(p, k) /\ k.todo = p.todo /\ Gave(n, piece, p, k)
  BY <1>3, <1>5, <1>8, AppendGives
<1> HIDE DEF k
<1>11. Queues(k) /\ Stack(k) /\ Done(k) = Done(p)
  BY <1>5, <1>6, <1>10, StackStays, LinedChanges
<1>12. Flags(k)
  BY <1>5, <1>10, FlagsKept
<1>13. Continues(k)
  <2>1. ~Has(k, "continue")
    BY <1>4, <1>10 DEF Has
  <2> QED
    BY <2>1, ContinuesNone
<1>14. Wires(k)
  <2>1. ~IsTop(k, "prefinish")
    BY <1>6, <1>10 DEF IsTop
  <2>2. n <= p.count
    BY <1>1, <1>3, <1>5, CountIsNat
  <2> QED
    BY <1>3, <1>5, <1>6, <1>7, <1>8, <1>9, <1>10, <1>11, <2>1, <2>2, WiresGave
<1>15. k.count = m.count /\ k.reading = m.reading
  BY <1>5, <1>10 DEF Alike
<1>16. Good(k) /\ k.count = m.count
  BY <1>1, <1>10, <1>11, <1>12, <1>13, <1>14, <1>15 DEF Good
<1> QED
  BY <1>16 DEF k, p, piece

\* WriteContinue keeps the invariant.
LEMMA WriteContinueKeeps ==
  ASSUME Inv, WriteContinue
  PROVE  Inv'
<1> DEFINE n == conn.todo[1].n
           piece == <<Piece(n, "continue")>>
           k == WriteRaw(n, piece, [[conn EXCEPT !.todo = Tail(@)] EXCEPT !.res[n].given = @ \o piece])
<1>1. Good(conn) /\ conn \in Connections
  BY DEF Inv, Good
<1>2. IsTop(conn, "continue") /\ Top = n /\ UNCHANGED <<body, calls>>
  BY <1>1, StackWords DEF WriteContinue, IsTop
<1>3. conn' = k
  BY <1>2 DEF WriteContinue, Popped
<1>4. Good(k) /\ k.count = conn.count
  BY <1>1, <1>2, ContinueIsGood
<1> HIDE DEF k
<1>5. Good(conn') /\ conn'.count = conn.count
  BY <1>3, <1>4
<1> QED
  BY <1>2, <1>5, StepIsGood

-----------------------------------------------------------------------------
(* The ends of the socket. *)

\* EndSocket keeps the invariant.
LEMMA EndSocketKeeps ==
  ASSUME Inv, EndSocket
  PROVE  Inv'
<1> DEFINE p == Popped
           ended == IF conn.writable THEN SocketEnd(p) ELSE p
           k == [ended EXCEPT !.readable = FALSE]
<1>1. Good(conn) /\ conn \in Connections
  BY DEF Inv, Good
<1>2. conn.todo # <<>> /\ conn.todo[1].k = "endSocket" /\ UNCHANGED <<body, calls>>
  BY <1>1, StackWords DEF EndSocket, IsTop
<1>3. conn' = Destroy(ended) \/ conn' = k
  BY DEF EndSocket
<1>4. Good(p) /\ p.count = conn.count
  BY <1>1, <1>2, PoppedIsGood DEF Popped
<1> HIDE DEF p
<1>5. Good(ended) /\ ended.count = conn.count
  <2>1. p \in Connections
    BY <1>4 DEF Good
  <2>2. Good(SocketEnd(p)) /\ SocketEnd(p).count = p.count
    BY <1>4, <2>1, SocketEndIsDown, DownIsGood
  <2> QED
    BY <1>4, <2>2
<1> HIDE DEF ended
<1>6. Good(k) /\ k.count = ended.count
  <2>1. ended \in Connections
    BY <1>5 DEF Good
  <2>2. k \in Connections /\ Down(ended, k)
    BY <2>1 DEF Connections, Down
  <2> HIDE DEF k
  <2> QED
    BY <1>5, <2>2, DownIsGood
<1> HIDE DEF k
<1>7. Good(conn') /\ conn'.count = conn.count
  BY <1>3, <1>5, <1>6, DestroyIsGood
<1> QED
  BY <1>2, <1>7, StepIsGood

\* abortIncoming has taken all.
LEMMA AllAborted ==
  ASSUME NEW m, Good(m), IsTop(m, "abort"), m.incoming = <<>>
  PROVE  LET k == [m EXCEPT !.todo = Tail(@)]
         IN Good(k) /\ k.count = m.count
<1> DEFINE todo == Tail(m.todo)
           k == [m EXCEPT !.todo = todo]
<1>1. /\ m \in Connections /\ Queues(m) /\ Stack(m) /\ Flags(m) /\ Continues(m) /\ Wires(m)
      /\ (m.reading => m.count # 0)
  BY DEF Good
<1>2. m.todo # <<>> /\ m.todo[1].k = "abort" /\ m.todo \in Seq(Items) /\ todo \in Seq(Items)
  BY <1>1 DEF IsTop, Connections
<1> HIDE DEF todo
<1>3. k \in Connections /\ Lined(m, k) /\ k.todo = todo /\ k.res = m.res /\ k.wire = m.wire
      /\ k.writable = m.writable /\ k.reading = m.reading /\ Flags(k) /\ k.count = m.count
      /\ k.httpMessage = m.httpMessage /\ k.incoming = m.incoming
      /\ k.eof = m.eof /\ k.closed = m.closed /\ k.req = m.req
  BY <1>1, <1>2 DEF Connections, Lined, Flags
<1>4. [m EXCEPT !.todo = Tail(@)] = k
  BY DEF todo
<1> HIDE DEF k
<1>5. /\ \A x : Has(m, x) <=> m.todo[1].k = x \/ Has(k, x)
      /\ ~IsTop(k, "assign") /\ ~IsTop(k, "prefinish")
      /\ \A i \in 2 .. Len(k.todo) : k.todo[i].k \notin {"assign", "prefinish"}
  BY <1>1, <1>2, <1>3, Pops DEF todo
<1>6. Queues(k) /\ Done(k) = Done(m)
  <2>1. Current(k) = Current(m)
    BY <1>2, <1>3, <1>5 DEF Current, IsTop
  <2> QED
    BY <1>1, <1>3, <1>5, <2>1, QueuesKept
<1>7. Stack(k)
  <2>1. Has(m, "abort") /\ (Has(k, "execute") => Has(m, "execute"))
    BY <1>2, <1>5
  <2>2. (m.eof \/ m.closed) /\ ~Has(k, "execute")
    BY <1>1, <2>1 DEF Stack
  <2> QED
    BY <1>3, <1>5, <2>2 DEF Stack
<1>8. Continues(k)
  <2>1. ~Has(m, "continue")
    BY <1>1, <1>2, NoContinue DEF IsTop
  <2> QED
    BY <1>5, <2>1, ContinuesNone
<1>9. Wires(k)
  BY <1>1, <1>3, <1>5, <1>6, WiresSame
<1>10. Good(k)
  BY <1>1, <1>3, <1>6, <1>7, <1>8, <1>9 DEF Good
<1> QED
  BY <1>3, <1>4, <1>10

\* abortIncoming takes a request.
LEMMA OneAborted ==
  ASSUME NEW m, Good(m), IsTop(m, "abort"), m.incoming # <<>>
  PROVE  LET n == Head(m.incoming)
             k == Run([Taken(m) EXCEPT !.req[n].aborted = @ + 1], <<User>>)
         IN Good(k) /\ k.count = m.count
<1> DEFINE n == Head(m.incoming)
           q == [m.req[n] EXCEPT !.aborted = m.req[n].aborted + 1]
           req == [m.req EXCEPT ![n] = q]
           incoming == Tail(m.incoming)
           items == <<User>>
           todo == items \o m.todo
           k == [m EXCEPT !.incoming = incoming, !.req = req, !.todo = todo]
<1>1. /\ m \in Connections /\ Queues(m) /\ Stack(m) /\ Flags(m) /\ Continues(m) /\ Wires(m)
      /\ (m.reading => m.count # 0)
  BY DEF Good
<1>2. m.todo # <<>> /\ m.todo[1].k = "abort" /\ m.todo \in Seq(Items)
      /\ m.incoming \in Seq(Requests) /\ m.req \in [Requests -> RequestStates]
  BY <1>1 DEF IsTop, Connections
<1>3. n = m.incoming[1] /\ incoming \in Seq(Requests) /\ Len(m.incoming) >= 1
      /\ Len(m.incoming) \in Nat /\ Len(incoming) = Len(m.incoming) - 1
      /\ (\A i \in 1 .. Len(incoming) : i + 1 \in 1 .. Len(m.incoming) /\ incoming[i] = m.incoming[i + 1])
      /\ 1 \in 1 .. Len(m.incoming) /\ n \in Requests
  BY <1>2
<1>4. n = Heard(m) + 1
  BY <1>1, <1>3 DEF Queues
<1>5. m.count \in Nat /\ Heard(m) \in Nat /\ n \in Nat
  <2>1. Len(m.incoming) <= m.count
    BY <1>1 DEF Queues
  <2> QED
    BY <1>1, <1>3, <2>1, CountIsNat DEF Heard
<1>6. q \in RequestStates /\ q.aborted = 1
  <2>1. n > Heard(m)
    BY <1>4, <1>5
  <2>2. m.req[n].aborted = 0
    BY <1>1, <1>3, <2>1 DEF Queues
  <2>3. m.req[n] \in RequestStates
    BY <1>2, <1>3
  <2> QED
    BY <2>2, <2>3 DEF RequestStates
<1>7. items \in Seq(Items) /\ todo \in Seq(Items) /\ items # <<>>
      /\ (\A i \in 1 .. Len(items) : items[i].k = "user")
  <2>1. User \in Items /\ User.k = "user"
    BY ItemType DEF User, Kinds
  <2> QED
    BY <1>2, <2>1
<1>8. Run([Taken(m) EXCEPT !.req[n].aborted = @ + 1], <<User>>) = k
  <2>1. [Taken(m) EXCEPT !.req[n].aborted = @ + 1] = [m EXCEPT !.incoming = incoming, !.req = req]
    BY <1>1 DEF Taken, Connections
  <2> HIDE DEF req, incoming
  <2> QED
    BY <1>1, <2>1 DEF Run, Connections
<1>9. req \in [Requests -> RequestStates] /\ req[n].aborted = 1
      /\ \A i \in Requests : i # n => req[i].aborted = m.req[i].aborted
  <2> HIDE DEF q
  <2> QED
    BY <1>2, <1>3, <1>6
<1> HIDE DEF n, req, incoming, items
<1>10. /\ k \in Connections /\ k.incoming = incoming /\ k.req = req /\ k.todo = todo
       /\ k.outgoing = m.outgoing /\ k.httpMessage = m.httpMessage /\ k.count = m.count
       /\ k.res = m.res /\ k.wire = m.wire /\ k.writable = m.writable /\ k.reading = m.reading
       /\ k.eof = m.eof /\ k.closed = m.closed /\ Flags(k)
  <2> HIDE DEF todo
  <2> QED
    BY <1>1, <1>3, <1>7, <1>9 DEF Connections, Flags
<1> HIDE DEF k
<1>11. /\ \A x : Has(k, x) <=> (\E i \in 1 .. Len(items) : items[i].k = x) \/ Has(m, x)
       /\ \A i \in 1 .. Len(k.todo) :
            \/ i \in 1 .. Len(items) /\ k.todo[i] = items[i]
            \/ i - Len(items) \in 1 .. Len(m.todo) /\ k.todo[i] = m.todo[i - Len(items)]
       /\ k.todo # <<>> /\ k.todo[1] = items[1]
  BY <1>1, <1>7, <1>10, Pushes
<1>12. IsTop(k, "user") /\ \A x : x # "user" => (Has(k, x) <=> Has(m, x))
  <2>1. 1 \in 1 .. Len(items)
    BY <1>7
  <2> QED
    BY <1>7, <1>11, <2>1 DEF IsTop
<1>13. ~IsTop(k, "assign") /\ ~IsTop(k, "prefinish") /\ ~IsTop(m, "assign") /\ ~IsTop(m, "prefinish")
  BY <1>2, <1>12 DEF IsTop
<1>14. Current(k) = Current(m) /\ Out(k) = Out(m) /\ Done(k) = Done(m)
  BY <1>10, <1>13 DEF Current, Out, Done
<1>15. Heard(k) = n
  BY <1>3, <1>4, <1>5, <1>10 DEF Heard
<1>16. Queues(k)
  <2>1. Len(k.outgoing) <= k.count /\ Len(k.incoming) <= k.count
    BY <1>1, <1>3, <1>5, <1>10 DEF Queues
  <2>2. \A i \in 1 .. Len(k.outgoing) : k.outgoing[i] = Out(k) + i
    BY <1>1, <1>10, <1>14 DEF Queues
  <2>3. \A i \in 1 .. Len(k.incoming) : k.incoming[i] = Heard(k) + i
    <3> TAKE i \in 1 .. Len(k.incoming)
    <3>1. i + 1 \in 1 .. Len(m.incoming) /\ k.incoming[i] = m.incoming[i + 1]
      BY <1>3, <1>10
    <3>2. m.incoming[i + 1] = Heard(m) + (i + 1)
      BY <1>1, <3>1 DEF Queues
    <3> QED
      BY <1>4, <1>5, <1>15, <3>1, <3>2
  <2>4. Current(k) \in {0, Out(k)}
    BY <1>1, <1>14 DEF Queues
  <2>5. Done(m) <= Heard(m) /\ Done(m) \in Nat
    <3>1. Current(m) \in {0, Out(m)} /\ Len(m.outgoing) <= m.count /\ Done(m) <= Heard(m)
      BY <1>1 DEF Queues
    <3>2. m.outgoing \in Seq(Requests) /\ Current(m) \in Nat
      <4>1. m.httpMessage \in Nat /\ m.outgoing \in Seq(Requests)
        BY <1>1, CountIsNat DEF Connections
      <4> QED
        BY <1>13, <4>1 DEF Current
    <3> QED
      BY <1>5, <3>1, <3>2 DEF Done, Out
  <2>6. Done(k) <= Heard(k)
    BY <1>4, <1>5, <1>14, <1>15, <2>5
  <2>7. \A i \in Requests :
          /\ k.res[i].answered <=> i <= Done(k)
          /\ i > Heard(k) => k.req[i].aborted = 0
          /\ i > Done(k) /\ i <= Heard(k) => k.req[i].aborted = 1
    <3> TAKE i \in Requests
    <3>1. /\ m.res[i].answered <=> i <= Done(m)
          /\ i > Heard(m) => m.req[i].aborted = 0
          /\ i > Done(m) /\ i <= Heard(m) => m.req[i].aborted = 1
      BY <1>1 DEF Queues
    <3>2. i \in Nat
      BY <1>1, CountIsNat
    <3>3. CASE i = n
      BY <1>4, <1>5, <1>9, <1>10, <1>14, <1>15, <3>1, <3>3
    <3>4. CASE i # n
      <4>1. k.req[i].aborted = m.req[i].aborted
        BY <1>9, <1>10, <3>4
      <4>2. (i > n <=> i > Heard(m)) /\ (i <= n <=> i <= Heard(m))
        BY <1>4, <1>5, <3>2, <3>4
      <4> QED
        BY <1>10, <1>14, <1>15, <3>1, <4>1, <4>2
    <3> QED
      BY <3>3, <3>4
  <2> QED
    BY <1>13, <2>1, <2>2, <2>3, <2>4, <2>6, <2>7 DEF Queues
<1>17. Stack(k)
  <2>1. Has(m, "abort")
    <3>1. 1 \in 1 .. Len(m.todo)
      BY <1>2
    <3> QED
      BY <1>2, <3>1 DEF Has
  <2>2. Has(k, "abort") /\ (m.eof \/ m.closed) /\ ~Has(k, "execute")
    <3>1. Has(k, "abort") /\ (Has(k, "execute") => Has(m, "execute"))
      BY <1>12, <2>1
    <3> QED
      BY <1>1, <2>1, <3>1 DEF Stack
  <2>3. \A i \in 2 .. Len(k.todo) : k.todo[i].k \notin {"assign", "prefinish"}
    <3> TAKE i \in 2 .. Len(k.todo)
    <3>1. i \in 1 .. Len(k.todo)
      BY <1>10, <1>7
    <3>2. CASE i \in 1 .. Len(items) /\ k.todo[i] = items[i]
      BY <1>7, <3>2
    <3>3. CASE i - Len(items) \in 1 .. Len(m.todo) /\ k.todo[i] = m.todo[i - Len(items)]
      <4> DEFINE j == i - Len(items)
      <4>1. j \in 1 .. Len(m.todo) /\ k.todo[i] = m.todo[j]
        BY <3>3
      <4> HIDE DEF j
      <4>2. CASE j = 1
        BY <1>2, <4>1, <4>2
      <4>3. CASE j # 1
        <5>1. j \in 2 .. Len(m.todo)
          BY <1>2, <4>1, <4>3
        <5> QED
          BY <1>1, <4>1, <5>1 DEF Stack
      <4> QED
        BY <4>2, <4>3
    <3> QED
      BY <1>11, <3>1, <3>2, <3>3
  <2> QED
    BY <1>10, <1>13, <2>2, <2>3 DEF Stack
<1>18. Continues(k)
  <2>1. ~Has(m, "continue")
    BY <1>1, <1>2, NoContinue DEF IsTop
  <2> QED
    BY <1>12, <2>1, ContinuesNone
<1>19. Wires(k)
  BY <1>1, <1>10, <1>13, <1>14, WiresSame
<1>20. Good(k)
  BY <1>1, <1>10, <1>16, <1>17, <1>18, <1>19 DEF Good
<1> QED
  BY <1>8, <1>10, <1>20 DEF n

\* AbortIncoming keeps the invariant.
LEMMA AbortIncomingKeeps ==
  ASSUME Inv, AbortIncoming
  PROVE  Inv'
<1> DEFINE n == Head(conn.incoming)
           p == [conn EXCEPT !.todo = Tail(@)]
           k == Run([Taken(conn) EXCEPT !.req[n].aborted = @ + 1], <<User>>)
<1>1. Good(conn) /\ conn \in Connections
  BY DEF Inv, Good
<1>2. IsTop(conn, "abort") /\ UNCHANGED <<body, calls>>
  BY <1>1, StackWords DEF AbortIncoming
<1>3. conn' = IF conn.incoming = <<>> THEN p ELSE k
  BY DEF AbortIncoming, Popped
<1>4. conn.incoming = <<>> => Good(p) /\ p.count = conn.count
  BY <1>1, <1>2, AllAborted
<1>5. conn.incoming # <<>> => Good(k) /\ k.count = conn.count
  BY <1>1, <1>2, OneAborted
<1> HIDE DEF p, k
<1>6. Good(conn') /\ conn'.count = conn.count
  BY <1>3, <1>4, <1>5
<1> QED
  BY <1>2, <1>6, StepIsGood

-----------------------------------------------------------------------------
(* Events of the host, when nothing runs. *)

\* Nothing but the stack, and whether the client has ended or the socket is closed.
Turns(m, k) ==
  /\ k.incoming = m.incoming /\ k.outgoing = m.outgoing /\ k.httpMessage = m.httpMessage
  /\ k.count = m.count /\ k.reading = m.reading /\ k.res = m.res /\ k.req = m.req
  /\ k.wire = m.wire /\ k.writable = m.writable
  /\ (m.eof => k.eof) /\ (m.closed => k.closed)

\* A turn begins.
LEMMA TurnIsGood ==
  ASSUME NEW m, NEW k \in Connections, Good(m), m.todo = <<>>, Turns(m, k), Flags(k),
         \A i \in 1 .. Len(k.todo) :
           k.todo[i].k \in {"user", "abort", "endSocket", "drained", "execute"},
         Has(k, "execute") => ~k.eof /\ ~k.closed /\ ~Has(k, "abort"),
         Has(k, "abort") => k.eof \/ k.closed,
         k.closed => m.closed \/ Has(k, "abort")
  PROVE  Good(k) /\ k.count = m.count
<1>1. /\ m \in Connections /\ Queues(m) /\ Stack(m) /\ Continues(m) /\ Wires(m)
      /\ (m.reading => m.count # 0)
  BY DEF Good
<1>2. m.todo \in Seq(Items) /\ k.todo \in Seq(Items)
  BY <1>1 DEF Connections
<1>3. (\A x : ~Has(m, x)) /\ (\A x : ~IsTop(m, x))
  BY <1>2 DEF Has, IsTop
<1>4. k.todo # <<>> => 1 \in 1 .. Len(k.todo)
  BY <1>2
<1>5. ~IsTop(k, "assign") /\ ~IsTop(k, "prefinish") /\ ~Has(k, "continue")
  BY <1>4 DEF IsTop, Has
<1>6. \A i \in 2 .. Len(k.todo) : k.todo[i].k \notin {"assign", "prefinish"}
  <2>1. \A i \in 2 .. Len(k.todo) : i \in 1 .. Len(k.todo)
    BY <1>2
  <2> QED
    BY <2>1
<1>7. Current(k) = Current(m) /\ Out(k) = Out(m) /\ Heard(k) = Heard(m) /\ Done(k) = Done(m)
  BY <1>3, <1>5 DEF Current, Out, Heard, Done, Turns
<1>8. Queues(k)
  BY <1>1, <1>3, <1>5, <1>7 DEF Queues, Turns
<1>9. Stack(k)
  <2>1. SomeAborted(k) <=> SomeAborted(m)
    BY DEF SomeAborted, Turns
  <2>2. ~(SomeAborted(m) /\ m.incoming # <<>>) /\ (SomeAborted(m) => m.eof \/ m.closed)
        /\ (m.closed => m.incoming = <<>>)
    BY <1>1, <1>3 DEF Stack
  <2> QED
    BY <1>5, <1>6, <2>1, <2>2 DEF Stack, Turns
<1>10. Continues(k)
  BY <1>5, ContinuesNone
<1>11. Wires(k)
  BY <1>1, <1>5, <1>7, WiresSame DEF Turns
<1> QED
  BY <1>1, <1>8, <1>9, <1>10, <1>11 DEF Good, Turns

\* What goes on an empty stack.
LEMMA OnEmpty ==
  ASSUME NEW s \in Seq(Items)
  PROVE  s \o <<>> = s
<1> QED
  BY ConcatEmptySeq

\* How far the parser is, is a number.
LEMMA ParsedIsNat ==
  ASSUME Inv
  PROVE  Parsed \in Nat
<1>1. conn \in Connections /\ (conn.reading => conn.count # 0) /\ body \in Nat
  BY DEF Inv, Good
<1>2. conn.count \in Nat
  BY <1>1, CountIsNat
<1> QED
  BY <1>1, <1>2 DEF Parsed

\* SocketOnData keeps the invariant.
LEMMA SocketOnDataKeeps ==
  ASSUME Inv, SocketOnData
  PROVE  Inv'
<1> DEFINE item == Item("execute", Parsed)
           todo == <<item>>
           k == [conn EXCEPT !.todo = todo]
<1>1. Good(conn) /\ conn \in Connections /\ Flags(conn)
  BY DEF Inv, Good
<1>2. conn.todo = <<>> /\ conn.readable /\ ~conn.eof /\ UNCHANGED <<body, calls>>
  BY DEF SocketOnData, AtRest
<1>3. item \in Items /\ item.k = "execute"
  BY ParsedIsNat, ItemType DEF Kinds
<1> HIDE DEF item
<1>4. todo \in Seq(Items) /\ Len(todo) = 1 /\ todo[1] = item
  BY <1>3
<1>5. conn' = k
  <2>1. conn' = [conn EXCEPT !.todo = todo \o conn.todo]
    BY DEF SocketOnData, Run, item
  <2>2. todo \o conn.todo = todo
    BY <1>2, <1>4, OnEmpty
  <2> QED
    BY <2>1, <2>2
<1>6. ~conn.closed
  BY <1>1, <1>2 DEF Flags
<1> HIDE DEF todo
<1>7. k \in Connections /\ k.todo = todo /\ Flags(k) /\ Turns(conn, k)
      /\ k.eof = conn.eof /\ k.closed = conn.closed
  BY <1>1, <1>4 DEF Connections, Flags, Turns
<1> HIDE DEF k
<1>8. \A i \in 1 .. Len(k.todo) : k.todo[i].k = "execute"
  <2>1. \A i \in 1 .. Len(todo) : i = 1
    BY <1>4
  <2>2. \A i \in 1 .. Len(todo) : todo[i].k = "execute"
    BY <1>3, <1>4, <2>1
  <2> QED
    BY <1>7, <2>2
<1>9. ~Has(k, "abort")
  BY <1>8 DEF Has
<1>10. Good(k) /\ k.count = conn.count
  BY <1>1, <1>2, <1>6, <1>7, <1>8, <1>9, TurnIsGood
<1>11. Good(conn') /\ conn'.count = conn.count
  BY <1>5, <1>10
<1> QED
  BY <1>2, <1>11, StepIsGood

\* SocketFails keeps the invariant.
LEMMA SocketFailsKeeps ==
  ASSUME Inv, SocketFails
  PROVE  Inv'
<1>1. Good(conn) /\ conn' = Destroy(conn) /\ UNCHANGED <<body, calls>>
  BY DEF Inv, SocketFails
<1>2. Good(conn') /\ conn'.count = conn.count
  BY <1>1, DestroyIsGood
<1> QED
  BY <1>1, <1>2, StepIsGood

\* The client ends, or the socket closes, and items go on the empty stack.
LEMMA LastTurnIsGood ==
  ASSUME NEW m, Good(m), m.todo = <<>>, NEW todo \in Seq(Items),
         \A i \in 1 .. Len(todo) : todo[i].k \in {"user", "abort", "endSocket"},
         NEW eof \in BOOLEAN, NEW closed \in BOOLEAN, m.eof => eof, m.closed => closed,
         eof \/ closed, closed => m.destroyed /\ (m.closed \/ \E i \in 1 .. Len(todo) : todo[i].k = "abort")
  PROVE  LET k == [m EXCEPT !.eof = eof, !.closed = closed, !.todo = todo]
         IN Good(k) /\ k.count = m.count
<1> DEFINE k == [m EXCEPT !.eof = eof, !.closed = closed, !.todo = todo]
<1>1. m \in Connections /\ Flags(m)
  BY DEF Good
<1>2. k \in Connections /\ k.todo = todo /\ Flags(k) /\ Turns(m, k)
      /\ k.eof = eof /\ k.closed = closed
  BY <1>1, ZenonT(60) DEF Connections, Flags, Turns
<1> HIDE DEF k
<1>3. ~Has(k, "execute") /\ (Has(k, "abort") <=> \E i \in 1 .. Len(todo) : todo[i].k = "abort")
  BY <1>2 DEF Has
<1>4. Good(k) /\ k.count = m.count
  BY <1>2, <1>3, TurnIsGood
<1> QED
  BY <1>4 DEF k

\* The last response in line ends the connection.
LEMMA LastInLineIsGood ==
  ASSUME NEW m, Good(m), m.todo = <<>>, m.outgoing # <<>> \/ m.httpMessage # 0
  PROVE  LET k == [LastInLine(m) EXCEPT !.readable = FALSE]
         IN Good(k) /\ k.count = m.count
<1> DEFINE n == IF m.outgoing # <<>> THEN Last(m.outgoing) ELSE m.httpMessage
           l == [m EXCEPT !.res[n].last = TRUE]
           k == [l EXCEPT !.readable = FALSE]
<1>1. m \in Connections /\ Queues(m) /\ AtUser(m)
  BY DEF Good, AtUser
<1>2. n \in Requests /\ n <= m.count
  <2>1. m.outgoing \in Seq(Requests) /\ m.httpMessage \in {0} \cup Requests
    BY <1>1 DEF Connections
  <2>2. Len(m.outgoing) \in Nat /\ Len(m.outgoing) <= m.count /\ m.count \in Nat
    BY <1>1, <2>1, CountIsNat DEF Queues
  <2>3. CASE m.outgoing # <<>>
    <3> DEFINE i == Len(m.outgoing)
    <3>1. i \in 1 .. Len(m.outgoing) /\ n = m.outgoing[i] /\ m.outgoing[i] \in Requests
      BY <2>1, <2>3 DEF Last
    <3>2. m.outgoing[i] = Out(m) + i
      BY <1>1, <3>1 DEF Queues
    <3>3. n = m.count
      BY <2>2, <3>1, <3>2 DEF Out
    <3> QED
      BY <2>2, <3>1, <3>3
  <2>4. CASE m.outgoing = <<>>
    <3>1. n = m.httpMessage /\ n # 0
      BY <2>4
    <3>2. n \in {0, Out(m)}
      <4>1. ~IsTop(m, "assign")
        BY DEF IsTop
      <4> QED
        BY <1>1, <3>1, <4>1 DEF Queues, Current
    <3>3. Out(m) <= m.count
      BY <2>2 DEF Out
    <3> HIDE DEF n
    <3> QED
      BY <2>1, <3>1, <3>2, <3>3
  <2> QED
    BY <2>3, <2>4
<1>3. LastInLine(m) = l
  BY DEF LastInLine
<1> HIDE DEF n
<1>4. Good(l) /\ l.count = m.count
  BY <1>1, <1>2, MarksAreGood
<1> HIDE DEF l
<1>5. Good(k) /\ k.count = l.count
  <2>1. l \in Connections
    BY <1>4 DEF Good
  <2>2. k \in Connections /\ Down(l, k)
    BY <2>1 DEF Connections, Down
  <2> HIDE DEF k
  <2> QED
    BY <1>4, <2>2, DownIsGood
<1> HIDE DEF k
<1> QED
  BY <1>3, <1>4, <1>5 DEF k

\* A turn begins with these items.
LEMMA RunIsGood ==
  ASSUME NEW m, Good(m), m.todo = <<>>, NEW items \in Seq(Items),
         \A i \in 1 .. Len(items) :
           items[i].k \in {"user", "complete", "endSocket", "drained"}
  PROVE  Good(Run(m, items)) /\ Run(m, items).count = m.count
<1> DEFINE k == Run(m, items)
<1>1. m \in Connections /\ Flags(m)
  BY DEF Good
<1>2. /\ k \in Connections /\ Alike(m, k) /\ k.res = m.res /\ k.wire = m.wire
      /\ k.todo = items \o m.todo
  BY <1>1, RunAlike
<1> HIDE DEF k
<1>3. Flags(k) /\ k.count = m.count /\ k.writable = m.writable /\ k.reading = m.reading
  BY <1>1, <1>2, FlagsKept DEF Alike
<1>4. ~IsTop(m, "assign") /\ ~IsTop(m, "prefinish") /\ ~IsTop(m, "continue")
  BY DEF IsTop
<1>5. Good(k)
  BY <1>2, <1>3, <1>4, GoodPushes, LinedChanges
<1> QED
  BY <1>3, <1>5 DEF k

\* ClientEnds keeps the invariant.
LEMMA ClientEndsKeeps ==
  ASSUME Inv, ClientEnds
  PROVE  Inv'
<1> DEFINE m == [conn EXCEPT !.eof = TRUE]
           aborts == <<Item("abort", 0), Item("endSocket", 0)>>
           ends == <<Item("endSocket", 0)>>
           at(todo) == [conn EXCEPT !.eof = TRUE, !.closed = conn.closed, !.todo = todo]
<1>1. Good(conn) /\ conn \in Connections /\ Flags(conn)
  BY DEF Inv, Good
<1>2. conn.todo = <<>> /\ UNCHANGED <<body, calls>>
  BY DEF ClientEnds, AtRest
<1>3. /\ aborts \in Seq(Items) /\ ends \in Seq(Items) /\ <<>> \in Seq(Items)
      /\ \A todo \in {aborts, ends, <<>>} : \A i \in 1 .. Len(todo) :
           todo[i].k \in {"user", "abort", "endSocket"}
  <2>1. Item("abort", 0) \in Items /\ Item("endSocket", 0) \in Items
    BY ItemType DEF Kinds
  <2>2. aborts \in Seq(Items) /\ ends \in Seq(Items) /\ <<>> \in Seq(Items)
    BY <2>1
  <2>3. Item("abort", 0).k = "abort" /\ Item("endSocket", 0).k = "endSocket"
    BY DEF Item
  <2> QED
    BY <2>2, <2>3
<1> HIDE DEF aborts, ends
<1>4. \A todo \in {aborts, ends, <<>>} : Good(at(todo)) /\ at(todo).count = conn.count
  <2> TAKE todo \in {aborts, ends, <<>>}
  <2> DEFINE closed == conn.closed
  <2>1. closed \in BOOLEAN /\ (closed => conn.destroyed /\ conn.closed)
    BY <1>1 DEF Connections, Flags
  <2>2. todo \in Seq(Items) /\ \A i \in 1 .. Len(todo) : todo[i].k \in {"user", "abort", "endSocket"}
    BY <1>3
  <2>3. conn.closed => closed
    OBVIOUS
  <2> HIDE DEF closed
  <2>4. LET k == [conn EXCEPT !.eof = TRUE, !.closed = closed, !.todo = todo]
        IN Good(k) /\ k.count = conn.count
    BY <1>1, <1>2, <2>1, <2>2, <2>3, LastTurnIsGood, ZenonT(60)
  <2> QED
    BY <2>4 DEF closed
<1>5. m = at(<<>>) /\ m.todo = <<>> /\ Run(m, aborts) = at(aborts) /\ Run(m, ends) = at(ends)
  <2>1. aborts \o <<>> = aborts /\ ends \o <<>> = ends
    BY <1>3, OnEmpty
  <2>2. m.todo = <<>>
    BY <1>1, <1>2 DEF Connections
  <2>3. \A items : Run(m, items) = [m EXCEPT !.todo = items \o m.todo]
    BY DEF Run
  <2>4. Run(m, aborts) = [m EXCEPT !.todo = aborts] /\ Run(m, ends) = [m EXCEPT !.todo = ends]
    BY <2>1, <2>2, <2>3
  <2>5. m = at(<<>>)
    BY <1>1, <1>2 DEF Connections
  <2>6. \A todo : [m EXCEPT !.todo = todo] = at(todo)
    BY <1>1 DEF Connections
  <2> HIDE DEF m, at
  <2> QED
    BY <2>2, <2>4, <2>5, <2>6
<1>6. \/ conn' = Destroy(m) \/ conn' = Run(m, aborts) \/ conn' = Run(m, ends)
      \/ /\ m.outgoing # <<>> \/ m.httpMessage # 0
         /\ conn' = [LastInLine(m) EXCEPT !.readable = FALSE]
  BY DEF ClientEnds, aborts, ends
<1> HIDE DEF at, m
<1>7. Good(m) /\ m.count = conn.count
  BY <1>4, <1>5
<1>8. Good(conn') /\ conn'.count = conn.count
  <2>1. CASE conn' = Destroy(m)
    BY <1>7, <2>1, DestroyIsGood
  <2>2. CASE conn' = Run(m, aborts) \/ conn' = Run(m, ends)
    BY <1>4, <1>5, <2>2
  <2>3. CASE /\ m.outgoing # <<>> \/ m.httpMessage # 0
             /\ conn' = [LastInLine(m) EXCEPT !.readable = FALSE]
    <3> DEFINE k == [LastInLine(m) EXCEPT !.readable = FALSE]
    <3>1. Good(k) /\ k.count = m.count
      BY <1>5, <1>7, <2>3, LastInLineIsGood
    <3> HIDE DEF k
    <3>2. conn' = k
      BY <2>3 DEF k
    <3> QED
      BY <1>7, <3>1, <3>2
  <2> QED
    BY <1>6, <2>1, <2>2, <2>3
<1> QED
  BY <1>2, <1>8, StepIsGood

\* One item and another.
LEMMA TwoItems ==
  ASSUME NEW a \in Items, NEW b \in Items
  PROVE  <<a>> \in Seq(Items) /\ <<a>> \o <<b>> = <<a, b>>
<1> DEFINE s == <<a>>
           t == <<b>>
           two == <<a, b>>
<1>1. /\ s \in Seq(Items) /\ t \in Seq(Items) /\ two \in Seq(Items)
      /\ Len(s) = 1 /\ Len(t) = 1 /\ Len(two) = 2
      /\ s[1] = a /\ t[1] = b /\ two[1] = a /\ two[2] = b
  OBVIOUS
<1> HIDE DEF s, t, two
<1>2. /\ s \o t \in Seq(Items) /\ Len(s \o t) = 2
      /\ \A i \in 1 .. 2 : (s \o t)[i] = IF i <= 1 THEN s[i] ELSE t[i - 1]
  BY <1>1, ConcatProperties
<1>3. \A i \in 1 .. Len(two) : (s \o t)[i] = two[i]
  BY <1>1, <1>2
<1>4. s \o t = two
  BY <1>1, <1>2, <1>3, SeqEqual
<1> QED
  BY <1>1, <1>4 DEF s, t, two

\* SocketCloses keeps the invariant.
LEMMA SocketClosesKeeps ==
  ASSUME Inv, SocketCloses
  PROVE  Inv'
<1> DEFINE todo == <<Item("abort", 0)>> \o (IF conn.httpMessage = 0 THEN <<>> ELSE <<User>>)
           eof == conn.eof
           k == [conn EXCEPT !.eof = eof, !.closed = TRUE, !.todo = todo]
<1>1. Good(conn) /\ conn \in Connections
  BY DEF Inv, Good
<1>2. conn.todo = <<>> /\ conn.destroyed /\ UNCHANGED <<body, calls>>
  BY DEF SocketCloses, AtRest
<1>3. /\ todo \in Seq(Items) /\ (\A i \in 1 .. Len(todo) : todo[i].k \in {"user", "abort", "endSocket"})
      /\ \E i \in 1 .. Len(todo) : todo[i].k = "abort"
  <2>1. Item("abort", 0) \in Items /\ User \in Items
    BY ItemType DEF Kinds, User
  <2>2. Item("abort", 0).k = "abort" /\ User.k = "user"
    BY DEF Item, User
  <2> DEFINE a == Item("abort", 0)
             one == <<a>>
             two == <<a, User>>
  <2>3. todo = one \/ todo = two
    <3>1. todo = one \o <<>> \/ todo = one \o <<User>>
      OBVIOUS
    <3>2. a \in Items
      BY <2>1
    <3> HIDE DEF a, todo
    <3>3. one \in Seq(Items) /\ one \o <<User>> = two
      BY <2>1, <3>2, TwoItems
    <3>4. one \o <<>> = one
      BY <3>3, OnEmpty
    <3> QED
      BY <3>1, <3>3, <3>4
  <2> HIDE DEF todo, a
  <2>4. /\ one \in Seq(Items) /\ (\A i \in 1 .. Len(one) : one[i].k \in {"user", "abort", "endSocket"})
        /\ 1 \in 1 .. Len(one) /\ one[1].k = "abort"
    BY <2>1, <2>2 DEF a
  <2>5. /\ two \in Seq(Items) /\ (\A i \in 1 .. Len(two) : two[i].k \in {"user", "abort", "endSocket"})
        /\ 1 \in 1 .. Len(two) /\ two[1].k = "abort"
    BY <2>1, <2>2 DEF a
  <2> HIDE DEF one, two
  <2> QED
    BY <2>3, <2>4, <2>5
<1>4. eof \in BOOLEAN /\ (conn.eof => eof)
  BY <1>1 DEF Connections
<1>5. conn' = k
  <2>1. todo \o conn.todo = todo
    BY <1>2, <1>3, OnEmpty
  <2>2. conn' = [[conn EXCEPT !.closed = TRUE] EXCEPT !.todo = todo \o conn.todo]
    <3>1. [conn EXCEPT !.closed = TRUE].todo = conn.todo
      BY <1>1 DEF Connections
    <3>2. conn' = Run([conn EXCEPT !.closed = TRUE], todo)
      BY DEF SocketCloses
    <3> HIDE DEF todo
    <3> QED
      BY <3>1, <3>2 DEF Run
  <2> HIDE DEF todo
  <2> QED
    BY <1>1, <2>1, <2>2 DEF Connections
<1> HIDE DEF todo, eof
<1>6. Good(k) /\ k.count = conn.count
  BY <1>1, <1>2, <1>3, <1>4, LastTurnIsGood
<1> HIDE DEF k
<1>7. Good(conn') /\ conn'.count = conn.count
  BY <1>5, <1>6
<1> QED
  BY <1>2, <1>7, StepIsGood

\* SocketWrites keeps the invariant.
LEMMA SocketWritesKeeps ==
  ASSUME Inv, SocketWrites
  PROVE  Inv'
<1> DEFINE none == [conn EXCEPT !.held = 0]
           m == [conn EXCEPT !.held = 0, !.needDrain = FALSE]
           n == conn.httpMessage
           told == [m EXCEPT !.res[n].waits = FALSE]
           drained == <<Item("drained", 0)>>
           both == <<User, Item("drained", 0)>>
<1>1. Good(conn) /\ conn \in Connections /\ Flags(conn)
  BY DEF Inv, Good
<1>2. conn.todo = <<>> /\ UNCHANGED <<body, calls>>
  BY DEF SocketWrites, AtRest
<1>3. \/ conn' = Finished(none) \/ conn' = m \/ conn' = Run(m, drained)
      \/ n # 0 /\ conn' = Run(told, both)
  BY DEF SocketWrites
<1>4. /\ Good(none) /\ none.count = conn.count
      /\ Good(m) /\ m.count = conn.count /\ m.todo = <<>>
  <2>1. /\ none \in Connections /\ Lined(conn, none) /\ none.todo = conn.todo /\ none.res = conn.res
        /\ none.wire = conn.wire /\ none.writable = conn.writable /\ none.reading = conn.reading
        /\ Flags(none) /\ none.count = conn.count
    BY <1>1 DEF Connections, Lined, Flags
  <2>2. /\ m \in Connections /\ Lined(conn, m) /\ m.todo = conn.todo /\ m.res = conn.res
        /\ m.wire = conn.wire /\ m.writable = conn.writable /\ m.reading = conn.reading
        /\ Flags(m) /\ m.count = conn.count
    BY <1>1 DEF Connections, Lined, Flags
  <2> HIDE DEF none, m
  <2> QED
    BY <1>1, <1>2, <2>1, <2>2, GoodStays
<1>5. n # 0 => n \in Requests /\ n <= m.count
  <2>1. n \in {0} \cup Requests /\ Queues(conn) /\ m.count = conn.count
        /\ conn.outgoing \in Seq(Requests) /\ conn.count \in Nat
    BY <1>1, <1>4, CountIsNat DEF Connections, Good
  <2>2. n \in {0, Out(conn)}
    <3>1. ~IsTop(conn, "assign")
      BY <1>2 DEF IsTop
    <3> QED
      BY <2>1, <3>1 DEF Queues, Current
  <2>3. Out(conn) <= conn.count
    BY <2>1 DEF Out
  <2> HIDE DEF n, m
  <2> QED
    BY <2>1, <2>2, <2>3
<1>6. /\ drained \in Seq(Items) /\ both \in Seq(Items)
      /\ \A i \in 1 .. Len(drained) : drained[i].k \in {"user", "complete", "endSocket", "drained"}
      /\ \A i \in 1 .. Len(both) : both[i].k \in {"user", "complete", "endSocket", "drained"}
  <2>1. Item("drained", 0) \in Items /\ User \in Items
    BY ItemType DEF Kinds, User
  <2>2. Item("drained", 0).k = "drained" /\ User.k = "user"
    BY DEF Item, User
  <2> QED
    BY <2>1, <2>2
<1> HIDE DEF none, m, n, drained, both
<1>7. Good(Finished(none)) /\ Finished(none).count = conn.count
  <2>1. none \in Connections
    BY <1>4 DEF Good
  <2> QED
    BY <1>4, <2>1, FinishedIsDown, DownIsGood
<1>8. Good(Run(m, drained)) /\ Run(m, drained).count = conn.count
  BY <1>4, <1>6, RunIsGood
<1>9. n # 0 => Good(told) /\ told.count = conn.count /\ told.todo = <<>>
  <2> SUFFICES ASSUME n # 0 PROVE Good(told) /\ told.count = conn.count /\ told.todo = <<>>
    OBVIOUS
  <2>1. AtUser(m) /\ n \in Requests /\ n <= m.count
    BY <1>4, <1>5 DEF AtUser
  <2> QED
    BY <1>4, <2>1, MarksAreGood
<1> HIDE DEF told
<1>10. n # 0 => Good(Run(told, both)) /\ Run(told, both).count = conn.count
  BY <1>6, <1>9, RunIsGood
<1>11. Good(conn') /\ conn'.count = conn.count
  BY <1>3, <1>4, <1>7, <1>8, <1>10
<1> QED
  BY <1>2, <1>11, StepIsGood

-----------------------------------------------------------------------------
(* Responses get the socket, and finish. *)

\* _flush of the response that has got the socket.
LEMMA FlushIsGood ==
  ASSUME NEW m, Good(m), NEW n \in Requests, m.httpMessage = n,
         ~IsTop(m, "assign"), ~IsTop(m, "prefinish"),
         IsTop(m, "continue") => n = m.count,
         ~(SomeAborted(m) /\ m.incoming # <<>>)
  PROVE  LET k == Flush(n, m)
         IN Good(k) /\ k.count = m.count
<1> DEFINE k == Flush(n, m)
<1>1. /\ m \in Connections /\ Queues(m) /\ Stack(m) /\ Flags(m) /\ Continues(m) /\ Wires(m)
      /\ (m.reading => m.count # 0)
  BY DEF Good
<1>2. /\ k \in Connections /\ Alike(m, k) /\ Gave(n, <<>>, m, k) /\ FinishedAlike(n, m, k)
      /\ m.res[n].output = <<>> /\ ~m.res[n].finished =>
           k.todo = m.todo /\ k.res[n].output = <<>>
      /\ \/ k.todo = m.todo \/ k.todo = <<User>> \o m.todo
         \/ /\ k.res[n].output = <<>> /\ k.res[n].finished
            /\ k.todo = <<Item("prefinish", n)>> \o m.todo
  BY <1>1, FlushGives
<1> HIDE DEF k
<1>3. Flags(k) /\ Lined(m, k)
  BY <1>1, <1>2, FlagsKept, LinedChanges
<1>4. n <= m.count
  <2>1. n \in {0, Out(m)}
    BY <1>1 DEF Queues, Current
  <2>2. n # 0 /\ m.count \in Nat
    BY <1>1, CountIsNat
  <2>3. m.outgoing \in Seq(Requests)
    BY <1>1 DEF Connections
  <2> QED
    BY <2>1, <2>2, <2>3 DEF Out
<1>5. ASSUME Queues(k), Done(k) = Done(m),
             IsTop(k, "prefinish") => k.res[n].finished /\ k.res[n].output = <<>>
      PROVE  Wires(k)
  <2>1. <<>> \in Seq(Pieces) /\ \A i \in 1 .. Len(<<>>) : <<>>[i].of = n
    OBVIOUS
  <2>2. m.res[n].finished => k.res[n].finished
    BY <1>2 DEF FinishedAlike
  <2> QED
    BY <1>1, <1>2, <1>4, <1>5, <2>1, <2>2, WiresGave
<1>6. ASSUME Queues(k), Stack(k), Done(k) = Done(m), Continues(k), Wires(k)
      PROVE  Good(k) /\ k.count = m.count
  BY <1>1, <1>2, <1>3, <1>6 DEF Good, Alike
<1>7. CASE k.todo = m.todo
  <2>1. Queues(k) /\ Stack(k) /\ Done(k) = Done(m)
    BY <1>1, <1>3, <1>7, StackStays
  <2>2. ~IsTop(k, "prefinish")
    BY <1>7 DEF IsTop
  <2>3. Wires(k)
    BY <1>5, <2>1, <2>2
  <2>4. Continues(k)
    <3> SUFFICES ASSUME NEW i \in 1 .. Len(m.todo), m.todo[i].k = "continue"
                 PROVE  /\ i = 1 /\ m.todo[i].n = m.count /\ m.count # 0
                        /\ ~k.res[m.count].finished /\ k.res[m.count].output = <<>>
                        /\ k.res[m.count].given = <<>>
      BY <1>2, <1>7 DEF Continues, Alike
    <3>1. /\ i # 1 => i = 2 /\ m.todo[1] = Item("assign", m.todo[2].n)
          /\ m.todo[i].n = m.count /\ m.count # 0
          /\ ~m.res[m.count].finished /\ m.res[m.count].output = <<>>
          /\ m.res[m.count].given = <<>>
      BY <1>1 DEF Continues
    <3>2. m.todo \in Seq(Items) /\ m.todo # <<>>
      BY <1>1 DEF Connections
    <3>3. i = 1
      BY <3>1, <3>2 DEF IsTop, Item
    <3>4. n = m.count
      BY <3>2, <3>3 DEF IsTop
    <3>5. k.res[n].given = m.res[n].given \o <<>>
      BY <1>2 DEF Gave
    <3>6. m.res[n].given \o <<>> = <<>>
      BY <3>1, <3>4
    <3> QED
      BY <1>2, <3>1, <3>3, <3>4, <3>5, <3>6 DEF FinishedAlike
  <2> QED
    BY <1>6, <2>1, <2>3, <2>4 DEF k
<1>8. CASE k.todo # m.todo
  <2>1. ~IsTop(m, "continue")
    <3> SUFFICES ASSUME IsTop(m, "continue") PROVE FALSE
      OBVIOUS
    <3>1. m.todo \in Seq(Items) /\ m.todo # <<>> /\ m.todo[1].k = "continue"
      BY <1>1 DEF IsTop, Connections
    <3>2. 1 \in 1 .. Len(m.todo)
      BY <3>1
    <3>3. ~m.res[n].finished /\ m.res[n].output = <<>>
      BY <1>1, <3>1, <3>2 DEF Continues
    <3> QED
      BY <1>2, <1>8, <3>3
  <2>2. CASE k.todo = <<User>> \o m.todo
    <3> DEFINE items == <<User>>
    <3>1. items \in Seq(Items) /\ \A i \in 1 .. Len(items) :
            items[i].k \in {"user", "complete", "endSocket", "drained"}
      <4>1. User \in Items /\ User.k = "user"
        BY ItemType DEF User, Kinds
      <4> QED
        BY <4>1
    <3>2. k.todo = items \o m.todo
      BY <2>2
    <3> HIDE DEF items
    <3>3. /\ Queues(k) /\ Stack(k) /\ Done(k) = Done(m) /\ ~IsTop(k, "prefinish")
          /\ (Has(k, "continue") <=> Has(m, "continue"))
      BY <1>1, <1>2, <1>3, <3>1, <3>2, PlainPush DEF Kinds
    <3>4. Continues(k)
      BY <1>1, <2>1, <3>3, NoContinue, ContinuesNone
    <3> QED
      BY <1>5, <1>6, <3>3, <3>4 DEF k
  <2>3. CASE /\ k.res[n].output = <<>> /\ k.res[n].finished
             /\ k.todo = <<Item("prefinish", n)>> \o m.todo
    <3>1. Queues(k) /\ Stack(k) /\ Done(k) = Done(m) /\ Continues(k)
      BY <1>1, <1>2, <2>1, <2>3, PushPrefinish
    <3> QED
      BY <1>5, <1>6, <2>3, <3>1 DEF k
  <2> QED
    BY <1>2, <1>8, <2>2, <2>3
<1> QED
  BY <1>7, <1>8

\* The response on top of the stack gets the socket.
LEMMA GivenSocket ==
  ASSUME NEW m, Good(m), IsTop(m, "assign"), NEW n, n = m.todo[1].n
  PROVE  LET k == [[m EXCEPT !.todo = Tail(@)] EXCEPT !.httpMessage = n]
         IN /\ Good(k) /\ k.count = m.count /\ k.httpMessage = n /\ n \in Requests
            /\ k.incoming = m.incoming /\ k.req = m.req
            /\ ~IsTop(k, "assign") /\ ~IsTop(k, "prefinish")
            /\ IsTop(k, "continue") => n = m.count
            /\ ~(SomeAborted(m) /\ m.incoming # <<>>)
<1> DEFINE todo == Tail(m.todo)
           k == [m EXCEPT !.todo = todo, !.httpMessage = n]
<1>1. /\ m \in Connections /\ Queues(m) /\ Stack(m) /\ Flags(m) /\ Continues(m) /\ Wires(m)
      /\ (m.reading => m.count # 0)
  BY DEF Good
<1>2. m.todo # <<>> /\ m.todo[1].k = "assign" /\ m.todo \in Seq(Items) /\ todo \in Seq(Items)
      /\ m.todo[1] \in Items
  BY <1>1 DEF IsTop, Connections
<1>3. n \in Requests
  BY <1>2 DEF Items
<1>4. Current(m) = n /\ n = Out(m) /\ m.httpMessage = 0 /\ n # 0
  BY <1>1 DEF Queues, Current
<1>5. n \in Nat /\ Done(m) = n - 1 /\ m.count \in Nat
  BY <1>1, <1>3, <1>4, CountIsNat DEF Done
<1> HIDE DEF todo
<1>6. [[m EXCEPT !.todo = Tail(@)] EXCEPT !.httpMessage = n] = k
  BY DEF todo
<1>7. /\ k \in Connections /\ k.incoming = m.incoming /\ k.outgoing = m.outgoing
      /\ k.httpMessage = n /\ k.count = m.count /\ k.res = m.res /\ k.req = m.req
      /\ k.wire = m.wire /\ k.writable = m.writable /\ k.reading = m.reading
      /\ k.eof = m.eof /\ k.closed = m.closed /\ k.todo = todo /\ Flags(k)
  BY <1>1, <1>2, <1>3 DEF Connections, Flags
<1> HIDE DEF k
<1>8. /\ \A x : Has(m, x) <=> m.todo[1].k = x \/ Has(k, x)
      /\ ~IsTop(k, "assign") /\ ~IsTop(k, "prefinish")
      /\ \A i \in 2 .. Len(k.todo) : k.todo[i].k \notin {"assign", "prefinish"}
  BY <1>1, <1>2, <1>7, Pops DEF todo
<1>9. Current(k) = n /\ Out(k) = n /\ Heard(k) = Heard(m) /\ Done(k) = n - 1
  BY <1>4, <1>7, <1>8 DEF Current, Out, Heard, Done
<1>10. Queues(k)
  <2>1. Out(m) = n /\ Done(m) = n - 1
    BY <1>4, <1>5
  <2> QED
    BY <1>1, <1>7, <1>8, <1>9, <2>1 DEF Queues
<1>11. ~(SomeAborted(m) /\ m.incoming # <<>>)
  BY <1>1 DEF Stack
<1>12. Stack(k)
  <2>1. SomeAborted(k) <=> SomeAborted(m)
    BY <1>7 DEF SomeAborted
  <2>2. (Has(k, "abort") <=> Has(m, "abort")) /\ (Has(k, "execute") <=> Has(m, "execute"))
    BY <1>2, <1>8
  <2> QED
    BY <1>1, <1>7, <1>8, <1>11, <2>1, <2>2 DEF Stack
<1>13. ASSUME NEW i \in 1 .. Len(k.todo), k.todo[i].k = "continue"
       PROVE  /\ i = 1 /\ k.todo[1].n = m.count /\ m.count # 0 /\ n = m.count
              /\ ~m.res[m.count].finished /\ m.res[m.count].output = <<>>
              /\ m.res[m.count].given = <<>>
  <2>1. i + 1 \in 1 .. Len(m.todo) /\ k.todo[i] = m.todo[i + 1] /\ i + 1 # 1 /\ (i + 1 = 2 => i = 1)
        /\ i \in Nat
    BY <1>2, <1>7 DEF todo
  <2> DEFINE j == i + 1
  <2>2. j \in 1 .. Len(m.todo) /\ m.todo[j].k = "continue" /\ j # 1
    BY <1>13, <2>1
  <2> HIDE DEF j
  <2>3. /\ j = 2 /\ m.todo[1] = Item("assign", m.todo[2].n)
        /\ m.todo[j].n = m.count /\ m.count # 0
        /\ ~m.res[m.count].finished /\ m.res[m.count].output = <<>>
        /\ m.res[m.count].given = <<>>
    BY <1>1, <2>2 DEF Continues
  <2>4. n = m.todo[2].n /\ i = 1 /\ k.todo[1] = m.todo[2]
    BY <2>1, <2>3 DEF Item, j
  <2> QED
    BY <2>3, <2>4
<1>14. Continues(k)
  BY <1>7, <1>13 DEF Continues
<1>15. IsTop(k, "continue") => n = m.count
  <2>1. k.todo # <<>> => 1 \in 1 .. Len(k.todo)
    BY <1>2, <1>7
  <2> QED
    BY <1>13, <2>1 DEF IsTop
<1>16. Wires(k)
  <2>1. \A i : Given(k, i) = Given(m, i)
    BY <1>7 DEF Given
  <2>2. Tagged(k)
    BY <1>1, <1>7 DEF Wires, Tagged
  <2>3. Ordered(k)
    BY <1>1, <1>7, <2>1 DEF Wires, Ordered
  <2>4. Latest(k) = n /\ Unwritten(k) = m.res[n].output
    BY <1>4, <1>7 DEF Latest, Unwritten
  <2>5. Latest(m) = n - 1 /\ Unwritten(m) = <<>>
    BY <1>4, <1>5 DEF Latest, Unwritten
  <2>6. m.res[n].output = m.res[n].given
    <3>1. n > Done(m) /\ n # m.httpMessage
      BY <1>4, <1>5
    <3> QED
      BY <1>1, <1>3, <3>1 DEF Wires
  <2>7. m.writable => m.wire \o m.res[n].output = Given(m, n)
    <3> SUFFICES ASSUME m.writable PROVE m.wire \o m.res[n].output = Given(m, n)
      OBVIOUS
    <3>1. m.wire \o <<>> = Given(m, n - 1)
      BY <1>1, <2>5 DEF Wires
    <3>2. m.wire \o <<>> = m.wire
      <4>1. m.wire \in Seq(Pieces)
        BY <1>1 DEF Connections
      <4> QED
        BY <4>1, Concatenate
    <3>3. n - 1 \in Nat /\ (n - 1) + 1 = n
      BY <1>3, HttpServerAssumption DEF Requests
    <3>4. Given(m, n) = Given(m, n - 1) \o m.res[n].given
      BY <1>1, <1>3, <3>3, GivenNext
    <3> QED
      BY <2>6, <3>1, <3>2, <3>4
  <2>8. k.writable => k.wire \o Unwritten(k) = Given(k, Latest(k))
    BY <1>7, <2>1, <2>4, <2>7
  <2>9. ASSUME NEW i \in Requests
        PROVE  /\ i > Done(k) /\ i # k.httpMessage => k.res[i].output = k.res[i].given
               /\ i > k.count => k.res[i] = Response
               /\ k.res[i].answered => k.res[i].finished
    <3>1. i # 0 /\ (i > Done(k) => i > Done(m))
      BY <1>1, <1>5, <1>9, CountIsNat
    <3> QED
      BY <1>1, <1>4, <1>7, <3>1 DEF Wires
  <2> QED
    BY <1>8, <2>2, <2>3, <2>8, <2>9 DEF Wires
<1>17. Good(k)
  BY <1>1, <1>7, <1>10, <1>12, <1>14, <1>16 DEF Good
<1> QED
  BY <1>3, <1>6, <1>7, <1>8, <1>11, <1>15, <1>17

\* Assign keeps the invariant.
LEMMA AssignKeeps ==
  ASSUME Inv, Assign
  PROVE  Inv'
<1> DEFINE n == conn.todo[1].n
           given == [[conn EXCEPT !.todo = Tail(@)] EXCEPT !.httpMessage = n]
           base == IF conn.res[n].destroys THEN Destroy(given) ELSE given
<1>1. Good(conn) /\ conn \in Connections
  BY DEF Inv, Good
<1>2. IsTop(conn, "assign") /\ Top = n /\ UNCHANGED <<body, calls>>
  BY <1>1, StackWords DEF Assign, IsTop
<1>3. conn' = Flush(n, base)
  BY <1>2 DEF Assign, Popped
<1>4. /\ Good(given) /\ given.count = conn.count /\ given.httpMessage = n /\ n \in Requests
      /\ given.incoming = conn.incoming /\ given.req = conn.req
      /\ ~IsTop(given, "assign") /\ ~IsTop(given, "prefinish")
      /\ IsTop(given, "continue") => n = conn.count
      /\ ~(SomeAborted(conn) /\ conn.incoming # <<>>)
  BY <1>1, <1>2, GivenSocket
<1> HIDE DEF given, n
<1>5. /\ Good(base) /\ base.count = conn.count /\ base.httpMessage = n
      /\ base.incoming = conn.incoming /\ base.req = conn.req
      /\ ~IsTop(base, "assign") /\ ~IsTop(base, "prefinish")
      /\ IsTop(base, "continue") => n = conn.count
  <2>1. CASE base = given
    BY <1>4, <2>1
  <2>2. CASE base = Destroy(given)
    <3> DEFINE k == Destroy(given)
    <3>1. given \in Connections
      BY <1>4 DEF Good
    <3>2. Good(k) /\ Down(given, k)
      BY <1>4, <3>1, DestroyIsGood, DestroyIsDown
    <3> HIDE DEF k
    <3>3. /\ k.count = conn.count /\ k.httpMessage = n /\ k.todo = given.todo
          /\ k.incoming = conn.incoming /\ k.req = conn.req
      BY <1>4, <3>2 DEF Down
    <3>4. \A x : IsTop(k, x) <=> IsTop(given, x)
      BY <3>3 DEF IsTop
    <3>5. base = k
      BY <2>2 DEF k
    <3> QED
      BY <1>4, <3>2, <3>3, <3>4, <3>5
  <2> QED
    BY <2>1, <2>2
<1> HIDE DEF base
<1>6. ~(SomeAborted(base) /\ base.incoming # <<>>)
  BY <1>4, <1>5 DEF SomeAborted
<1>7. Good(Flush(n, base)) /\ Flush(n, base).count = base.count
  BY <1>4, <1>5, <1>6, FlushIsGood
<1>8. Good(conn') /\ conn'.count = conn.count
  BY <1>3, <1>5, <1>7
<1> QED
  BY <1>2, <1>8, StepIsGood

\* The response that has the socket gives it up, as in Prefinish.
Detached(n, m) ==
  LET shifted == [[m EXCEPT !.todo = Tail(@)]
                    EXCEPT !.incoming = IF @ = <<>> THEN @ ELSE Tail(@)]
  IN [Dump(n, shifted) EXCEPT !.httpMessage = 0, !.res[n].answered = TRUE]

\* The response that has the socket is done with.
LEMMA DetachedIsGood ==
  ASSUME NEW m, Good(m), IsTop(m, "prefinish"), NEW n, n = m.todo[1].n,
         m.incoming # <<>> => Head(m.incoming) = n
  PROVE  LET k == Detached(n, m)
         IN /\ Good(k) /\ k.count = m.count /\ k.httpMessage = 0
            /\ ~IsTop(k, "assign") /\ ~IsTop(k, "prefinish") /\ ~IsTop(k, "continue")
            /\ ~(SomeAborted(k) /\ k.incoming # <<>>)
<1> DEFINE todo == Tail(m.todo)
           incoming == IF m.incoming = <<>> THEN m.incoming ELSE Tail(m.incoming)
           shifted == [m EXCEPT !.todo = todo, !.incoming = incoming]
           dumped == Dump(n, shifted)
           r == [m.res[n] EXCEPT !.answered = TRUE]
           res == [m.res EXCEPT ![n] = r]
           k == [dumped EXCEPT !.httpMessage = 0, !.res = res]
<1>1. /\ m \in Connections /\ Queues(m) /\ Stack(m) /\ Flags(m) /\ Continues(m) /\ Wires(m)
      /\ (m.reading => m.count # 0)
  BY DEF Good
<1>2. /\ m.todo # <<>> /\ m.todo[1].k = "prefinish" /\ m.todo \in Seq(Items) /\ todo \in Seq(Items)
      /\ m.todo[1] \in Items /\ m.incoming \in Seq(Requests) /\ m.res \in [Requests -> Responses]
  BY <1>1 DEF IsTop, Connections
<1>3. n \in Requests /\ n = m.httpMessage /\ n # 0
  BY <1>1, <1>2 DEF Items, Stack
<1>4. Current(m) = n /\ n = Out(m)
  BY <1>1, <1>2, <1>3 DEF Queues, Current, IsTop
<1>5. n \in Nat /\ Done(m) = n - 1 /\ m.count \in Nat
  BY <1>1, <1>3, <1>4, CountIsNat DEF Done
<1>6. incoming \in Seq(Requests)
  BY <1>2
<1>7. m.incoming = <<>> => incoming = <<>> /\ Len(incoming) = 0 /\ Len(m.incoming) = 0
  BY <1>2
<1>8. m.incoming # <<>> =>
        /\ m.incoming[1] = n /\ 1 \in 1 .. Len(m.incoming) /\ Len(m.incoming) \in Nat
        /\ Len(incoming) = Len(m.incoming) - 1
        /\ \A i \in 1 .. Len(incoming) : i + 1 \in 1 .. Len(m.incoming) /\ incoming[i] = m.incoming[i + 1]
  BY <1>2
<1> HIDE DEF todo, incoming
<1>9. /\ shifted \in Connections /\ shifted.todo = todo /\ shifted.incoming = incoming
      /\ shifted.outgoing = m.outgoing /\ shifted.httpMessage = m.httpMessage
      /\ shifted.count = m.count /\ shifted.res = m.res /\ shifted.req = m.req
      /\ shifted.wire = m.wire /\ shifted.writable = m.writable /\ shifted.reading = m.reading
      /\ shifted.eof = m.eof /\ shifted.closed = m.closed /\ Flags(shifted)
  BY <1>1, <1>2, <1>6 DEF Connections, Flags
<1>10. [[m EXCEPT !.todo = Tail(@)] EXCEPT !.incoming = IF @ = <<>> THEN @ ELSE Tail(@)] = shifted
  <2>1. [m EXCEPT !.todo = Tail(@)] = [m EXCEPT !.todo = todo]
    BY DEF todo
  <2>2. [m EXCEPT !.todo = todo].incoming = m.incoming
    BY <1>1 DEF Connections
  <2> QED
    BY <2>1, <2>2 DEF incoming
<1> HIDE DEF shifted
<1>11. /\ dumped \in Connections /\ Alike(shifted, dumped) /\ dumped.res = m.res
       /\ dumped.wire = m.wire /\ dumped.todo = todo
  BY <1>3, <1>9, DumpAlike
<1>12. /\ dumped.incoming = incoming /\ dumped.outgoing = m.outgoing /\ dumped.count = m.count
       /\ dumped.writable = m.writable /\ dumped.reading = m.reading
       /\ dumped.eof = m.eof /\ dumped.closed = m.closed /\ Flags(dumped)
       /\ \A i \in Requests : dumped.req[i].aborted = m.req[i].aborted
  BY <1>9, <1>11, FlagsKept DEF Alike
<1>13. [dumped EXCEPT !.httpMessage = 0, !.res[n].answered = TRUE] = k
  <2> HIDE DEF dumped
  <2> QED
    BY <1>11 DEF Connections
<1>14. r \in Responses /\ r.answered = TRUE /\ r.finished = m.res[n].finished
       /\ r.output = m.res[n].output /\ r.given = m.res[n].given
  <2>1. m.res[n] \in Responses
    BY <1>2, <1>3
  <2> QED
    BY <2>1 DEF Responses
<1> HIDE DEF dumped, r
<1>15. /\ res \in [Requests -> Responses] /\ res[n] = r
       /\ \A i \in Requests : i # n => res[i] = m.res[i]
  BY <1>2, <1>3, <1>14
<1> HIDE DEF res
<1>16. /\ k \in Connections /\ k.incoming = incoming /\ k.outgoing = m.outgoing
       /\ k.httpMessage = 0 /\ k.count = m.count /\ k.res = res /\ k.req = dumped.req
       /\ k.wire = m.wire /\ k.writable = m.writable /\ k.reading = m.reading
       /\ k.eof = m.eof /\ k.closed = m.closed /\ k.todo = todo /\ Flags(k)
  BY <1>11, <1>12, <1>15 DEF Connections, Flags
<1> HIDE DEF k
<1>17. \A i \in Requests : k.req[i].aborted = m.req[i].aborted
  BY <1>12, <1>16
<1>18. /\ \A x : Has(m, x) <=> m.todo[1].k = x \/ Has(k, x)
       /\ ~IsTop(k, "assign") /\ ~IsTop(k, "prefinish")
       /\ \A i \in 2 .. Len(k.todo) : k.todo[i].k \notin {"assign", "prefinish"}
  BY <1>1, <1>2, <1>16, Pops DEF todo
<1>19. Current(k) = 0 /\ Out(k) = n /\ Done(k) = n
  BY <1>4, <1>16, <1>18 DEF Current, Out, Done
<1>20. n <= m.count /\ Len(m.outgoing) \in Nat
  <2>1. m.outgoing \in Seq(Requests)
    BY <1>1 DEF Connections
  <2> QED
    BY <1>4, <1>5, <2>1 DEF Out
<1>21. /\ n <= Heard(k) /\ Heard(k) \in Nat
       /\ \A i \in Requests : (i > Heard(k) => i > Heard(m))
                              /\ (i > n /\ i <= Heard(k) => i > Done(m) /\ i <= Heard(m))
       /\ \A i \in 1 .. Len(k.incoming) : k.incoming[i] = Heard(k) + i
       /\ Len(k.incoming) <= k.count
  <2>1. CASE m.incoming = <<>>
    <3>1. Len(k.incoming) = 0 /\ Heard(k) = m.count /\ Heard(m) = m.count
      BY <1>5, <1>7, <1>16, <2>1 DEF Heard
    <3>2. n <= Heard(k) /\ Heard(k) \in Nat
      BY <1>5, <1>20, <3>1
    <3>3. \A i \in Requests : (i > Heard(k) => i > Heard(m))
                             /\ (i > n /\ i <= Heard(k) => i > Done(m) /\ i <= Heard(m))
      <4> TAKE i \in Requests
      <4>1. i \in Nat
        BY <1>1, CountIsNat
      <4> QED
        BY <1>5, <3>1, <4>1
    <3>4. \A i \in 1 .. Len(k.incoming) : k.incoming[i] = Heard(k) + i
      BY <3>1
    <3>5. Len(k.incoming) <= k.count
      BY <1>5, <1>16, <3>1
    <3> QED
      BY <3>2, <3>3, <3>4, <3>5
  <2>2. CASE m.incoming # <<>>
    <3>1. n = Heard(m) + 1 /\ Len(m.incoming) <= m.count
      BY <1>1, <1>8, <2>2 DEF Queues
    <3>2. Len(incoming) = Len(m.incoming) - 1 /\ Len(m.incoming) \in Nat /\ Len(m.incoming) >= 1
      BY <1>8, <2>2
    <3>3. Heard(m) \in Nat /\ Heard(k) = n
      BY <1>5, <1>16, <3>1, <3>2 DEF Heard
    <3>4. \A i \in 1 .. Len(k.incoming) : k.incoming[i] = Heard(k) + i
      <4> TAKE i \in 1 .. Len(k.incoming)
      <4>1. i + 1 \in 1 .. Len(m.incoming) /\ k.incoming[i] = m.incoming[i + 1] /\ i \in Nat
        BY <1>8, <1>16, <2>2
      <4>2. m.incoming[i + 1] = Heard(m) + (i + 1)
        BY <1>1, <4>1 DEF Queues
      <4> QED
        BY <3>1, <3>3, <4>1, <4>2
    <3>5. \A i \in Requests : (i > Heard(k) => i > Heard(m))
                             /\ (i > n /\ i <= Heard(k) => i > Done(m) /\ i <= Heard(m))
      <4> TAKE i \in Requests
      <4>1. i \in Nat
        BY <1>1, CountIsNat
      <4> QED
        BY <1>5, <3>1, <3>3, <4>1
    <3>6. Len(k.incoming) <= k.count
      BY <1>5, <1>16, <3>1, <3>2
    <3>7. n <= Heard(k) /\ Heard(k) \in Nat
      BY <1>5, <3>3
    <3> QED
      BY <3>4, <3>5, <3>6, <3>7
  <2> QED
    BY <2>1, <2>2
<1>22. Queues(k)
  <2>1. ASSUME NEW i \in Requests
        PROVE  /\ k.res[i].answered <=> i <= Done(k)
               /\ i > Heard(k) => k.req[i].aborted = 0
               /\ i > Done(k) /\ i <= Heard(k) => k.req[i].aborted = 1
    <3>1. /\ m.res[i].answered <=> i <= Done(m)
          /\ i > Heard(m) => m.req[i].aborted = 0
          /\ i > Done(m) /\ i <= Heard(m) => m.req[i].aborted = 1
      BY <1>1 DEF Queues
    <3>2. k.res[i].answered <=> i <= n
      <4>1. CASE i = n
        BY <1>5, <1>14, <1>15, <1>16, <4>1
      <4>2. CASE i # n
        <5>1. (i <= n <=> i <= Done(m)) /\ k.res[i] = m.res[i]
          BY <1>1, <1>5, <1>15, <1>16, <4>2, CountIsNat
        <5> QED
          BY <3>1, <5>1
      <4> QED
        BY <4>1, <4>2
    <3> QED
      BY <1>17, <1>19, <1>21, <3>1, <3>2
  <2>2. \A i \in 1 .. Len(k.outgoing) : k.outgoing[i] = Out(k) + i
    BY <1>1, <1>4, <1>16, <1>19 DEF Queues
  <2>3. Len(k.outgoing) <= k.count
    BY <1>1, <1>16 DEF Queues
  <2> QED
    BY <1>18, <1>19, <1>21, <2>1, <2>2, <2>3 DEF Queues
<1>23. ~(SomeAborted(k) /\ k.incoming # <<>>) /\ (SomeAborted(k) <=> SomeAborted(m))
       /\ (m.incoming = <<>> => k.incoming = <<>>)
  <2>1. SomeAborted(k) <=> SomeAborted(m)
    BY <1>17 DEF SomeAborted
  <2>2. m.incoming = <<>> => k.incoming = <<>>
    BY <1>7, <1>16
  <2>3. ~(SomeAborted(m) /\ m.incoming # <<>>)
    BY <1>1 DEF Stack
  <2> QED
    BY <2>1, <2>2, <2>3
<1>24. Stack(k)
  <2>1. (Has(k, "abort") <=> Has(m, "abort")) /\ (Has(k, "execute") <=> Has(m, "execute"))
    BY <1>2, <1>18
  <2> QED
    BY <1>1, <1>16, <1>18, <1>23, <2>1 DEF Stack
<1>25. ~Has(k, "continue") /\ ~IsTop(k, "continue")
  <2>1. ~Has(m, "continue")
    BY <1>1, <1>2, NoContinue DEF IsTop
  <2>2. ~Has(k, "continue")
    BY <1>18, <2>1
  <2>3. k.todo # <<>> => 1 \in 1 .. Len(k.todo)
    BY <1>2, <1>16
  <2> QED
    BY <2>2, <2>3 DEF IsTop, Has
<1>26. Wires(k)
  <2>1. \A i \in Requests : /\ k.res[i].given = m.res[i].given /\ k.res[i].output = m.res[i].output
                            /\ (m.res[i].finished => k.res[i].finished)
    BY <1>14, <1>15, <1>16
  <2>2. Tagged(k)
    BY <1>1, <2>1 DEF Wires, Tagged
  <2>3. Given(k, n) = Given(m, n)
    <3>1. \A i \in 1 .. n : i \in Requests
      BY <1>3, HttpServerAssumption DEF Requests
    <3> QED
      BY <2>1, <3>1, GivenSame
  <2>4. Ordered(k)
    <3>1. <<>> \in Seq(Pieces) /\ k.res[n].given = m.res[n].given \o <<>>
      <4>1. m.res[n].given \in Seq(Pieces)
        BY <1>2, <1>3 DEF Responses
      <4> QED
        BY <1>3, <2>1, <4>1, Concatenate
    <3>2. Ordered(m) /\ (m.wire # <<>> => Last(m.wire).of \in Requests)
      BY <1>1, LastPiece DEF Wires
    <3> QED
      BY <1>1, <1>3, <1>16, <2>1, <3>1, <3>2, OrderedStays, ZenonT(60)
  <2>5. m.res[n].finished /\ m.res[n].output = <<>>
    BY <1>1, <1>3 DEF Wires
  <2>6. k.writable => k.wire \o Unwritten(k) = Given(k, Latest(k))
    <3>1. Latest(k) = n /\ Unwritten(k) = <<>>
      BY <1>16, <1>19 DEF Latest, Unwritten
    <3>2. Latest(m) = n /\ Unwritten(m) = <<>>
      BY <1>3, <2>5 DEF Latest, Unwritten
    <3> QED
      BY <1>1, <1>16, <2>3, <3>1, <3>2 DEF Wires
  <2>7. ASSUME NEW i \in Requests
        PROVE  /\ i > Done(k) /\ i # k.httpMessage => k.res[i].output = k.res[i].given
               /\ i > k.count => k.res[i] = Response
               /\ k.res[i].answered => k.res[i].finished
    <3>1. /\ i > Done(m) /\ i # n => m.res[i].output = m.res[i].given
          /\ i > m.count => m.res[i] = Response
          /\ m.res[i].answered => m.res[i].finished
      BY <1>1, <1>3 DEF Wires
    <3>2. (i > n => i > Done(m) /\ i # n) /\ (i > m.count => i # n)
      BY <1>1, <1>5, <1>20, CountIsNat
    <3>3. CASE i = n
      BY <1>16, <1>19, <2>1, <2>5, <3>1, <3>2, <3>3
    <3>4. CASE i # n
      BY <1>15, <1>16, <1>19, <3>1, <3>2, <3>4
    <3> QED
      BY <3>3, <3>4
  <2> QED
    BY <1>18, <2>2, <2>4, <2>6, <2>7 DEF Wires
<1>27. Continues(k)
  BY <1>25, ContinuesNone
<1>28. Good(k)
  BY <1>1, <1>16, <1>22, <1>24, <1>26, <1>27 DEF Good
<1>29. Detached(n, m) = k
  <2>1. Detached(n, m) = [Dump(n, shifted) EXCEPT !.httpMessage = 0, !.res[n].answered = TRUE]
    BY <1>10 DEF Detached
  <2> QED
    BY <1>13, <2>1 DEF dumped
<1> QED
  BY <1>16, <1>18, <1>23, <1>25, <1>28, <1>29

\* The next response in line is about to get the socket.
LEMMA NextIsGood ==
  ASSUME NEW m, Good(m), m.httpMessage = 0, m.outgoing # <<>>,
         ~IsTop(m, "assign"), ~IsTop(m, "prefinish"),
         IsTop(m, "continue") => Head(m.outgoing) = m.count,
         ~(SomeAborted(m) /\ m.incoming # <<>>)
  PROVE  LET k == Run([m EXCEPT !.outgoing = Tail(@)], <<Item("assign", Head(m.outgoing))>>)
         IN Good(k) /\ k.count = m.count
<1> DEFINE h == Head(m.outgoing)
           outgoing == Tail(m.outgoing)
           items == <<Item("assign", h)>>
           todo == items \o m.todo
           k == [m EXCEPT !.outgoing = outgoing, !.todo = todo]
<1>1. /\ m \in Connections /\ Queues(m) /\ Stack(m) /\ Flags(m) /\ Continues(m) /\ Wires(m)
      /\ (m.reading => m.count # 0)
  BY DEF Good
<1>2. m.todo \in Seq(Items) /\ m.outgoing \in Seq(Requests)
  BY <1>1 DEF Connections
<1>3. h = m.outgoing[1] /\ outgoing \in Seq(Requests) /\ Len(m.outgoing) >= 1
      /\ Len(m.outgoing) \in Nat /\ Len(outgoing) = Len(m.outgoing) - 1
      /\ (\A i \in 1 .. Len(outgoing) : i + 1 \in 1 .. Len(m.outgoing) /\ outgoing[i] = m.outgoing[i + 1])
      /\ 1 \in 1 .. Len(m.outgoing) /\ h \in Requests
  BY <1>2
<1>4. h = Out(m) + 1
  BY <1>1, <1>3 DEF Queues
<1>5. m.count \in Nat /\ Out(m) \in Nat /\ h \in Nat /\ h # 0
  <2>1. Len(m.outgoing) <= m.count
    BY <1>1 DEF Queues
  <2> QED
    BY <1>1, <1>3, <1>4, <2>1, CountIsNat DEF Out
<1>6. /\ items \in Seq(Items) /\ todo \in Seq(Items) /\ items # <<>> /\ Len(items) = 1
      /\ items[1] = Item("assign", h) /\ Item("assign", h).k = "assign" /\ Item("assign", h).n = h
  <2>1. Item("assign", h) \in Items
    BY <1>3, <1>5, ItemType DEF Kinds
  <2>2. Item("assign", h).k = "assign" /\ Item("assign", h).n = h
    BY DEF Item
  <2> HIDE DEF h
  <2> QED
    BY <1>2, <2>1, <2>2
<1>7. Run([m EXCEPT !.outgoing = Tail(@)], <<Item("assign", Head(m.outgoing))>>) = k
  <2>1. [m EXCEPT !.outgoing = Tail(@)] = [m EXCEPT !.outgoing = outgoing]
    OBVIOUS
  <2> HIDE DEF outgoing
  <2> QED
    BY <1>1, <2>1 DEF Run, Connections
<1> HIDE DEF h, outgoing, items
<1>8. /\ k \in Connections /\ k.outgoing = outgoing /\ k.todo = todo
      /\ k.incoming = m.incoming /\ k.httpMessage = m.httpMessage /\ k.count = m.count
      /\ k.res = m.res /\ k.req = m.req /\ k.wire = m.wire /\ k.writable = m.writable
      /\ k.reading = m.reading /\ k.eof = m.eof /\ k.closed = m.closed /\ Flags(k)
  <2> HIDE DEF todo
  <2> QED
    BY <1>1, <1>3, <1>6 DEF Connections, Flags
<1> HIDE DEF k
<1>9. /\ \A x : Has(k, x) <=> (\E i \in 1 .. Len(items) : items[i].k = x) \/ Has(m, x)
      /\ \A i \in 1 .. Len(k.todo) :
           \/ i \in 1 .. Len(items) /\ k.todo[i] = items[i]
           \/ i - Len(items) \in 1 .. Len(m.todo) /\ k.todo[i] = m.todo[i - Len(items)]
      /\ k.todo # <<>> /\ k.todo[1] = items[1]
  BY <1>1, <1>6, <1>8, Pushes
<1>10. /\ IsTop(k, "assign") /\ k.todo[1].n = h /\ ~IsTop(k, "prefinish")
       /\ \A x : x # "assign" => (Has(k, x) <=> Has(m, x))
  BY <1>6, <1>9 DEF IsTop
<1>11. \A i \in 2 .. Len(k.todo) :
         \E j \in 1 .. Len(m.todo) : i = j + 1 /\ k.todo[i] = m.todo[j]
  <2> TAKE i \in 2 .. Len(k.todo)
  <2>1. i \in 1 .. Len(k.todo) /\ i \notin 1 .. 1
    BY <1>6, <1>8
  <2>2. i - 1 \in 1 .. Len(m.todo) /\ k.todo[i] = m.todo[i - 1] /\ i = (i - 1) + 1
    BY <1>6, <1>9, <2>1
  <2> QED
    BY <2>2
<1>12. Current(m) = 0 /\ Current(k) = h /\ Out(k) = h /\ Done(m) = Out(m) /\ Done(k) = Out(m)
  <2>1. Current(m) = 0 /\ Current(k) = h
    BY <1>10 DEF Current
  <2>2. Out(k) = h
    BY <1>3, <1>4, <1>5, <1>8 DEF Out
  <2> QED
    BY <1>4, <1>5, <2>1, <2>2 DEF Done
<1>13. Queues(k)
  <2>1. Len(k.outgoing) <= k.count /\ Len(k.incoming) <= k.count
    BY <1>1, <1>3, <1>5, <1>8 DEF Queues
  <2>2. \A i \in 1 .. Len(k.outgoing) : k.outgoing[i] = Out(k) + i
    <3> TAKE i \in 1 .. Len(k.outgoing)
    <3>1. i + 1 \in 1 .. Len(m.outgoing) /\ k.outgoing[i] = m.outgoing[i + 1]
      BY <1>3, <1>8
    <3>2. m.outgoing[i + 1] = Out(m) + (i + 1)
      BY <1>1, <3>1 DEF Queues
    <3> QED
      BY <1>4, <1>5, <1>12, <3>1, <3>2
  <2>3. Heard(k) = Heard(m)
    BY <1>8 DEF Heard
  <2>4. \A i \in 1 .. Len(k.incoming) : k.incoming[i] = Heard(k) + i
    BY <1>1, <1>8, <2>3 DEF Queues
  <2>5. Done(k) <= Heard(k)
    BY <1>1, <1>12, <2>3 DEF Queues
  <2>6. \A i \in Requests :
          /\ k.res[i].answered <=> i <= Done(k)
          /\ i > Heard(k) => k.req[i].aborted = 0
          /\ i > Done(k) /\ i <= Heard(k) => k.req[i].aborted = 1
    BY <1>1, <1>8, <1>12, <2>3 DEF Queues
  <2>7. Current(k) \in {0, Out(k)} /\ (IsTop(k, "assign") => k.httpMessage = 0 /\ Current(k) # 0)
    BY <1>5, <1>8, <1>12
  <2> QED
    BY <2>1, <2>2, <2>4, <2>5, <2>6, <2>7 DEF Queues
<1>14. Stack(k)
  <2>1. \A i \in 2 .. Len(k.todo) : k.todo[i].k \notin {"assign", "prefinish"}
    <3> TAKE i \in 2 .. Len(k.todo)
    <3>1. PICK j \in 1 .. Len(m.todo) : i = j + 1 /\ k.todo[i] = m.todo[j]
      BY <1>11
    <3>2. CASE j = 1
      BY <1>2, <3>1, <3>2 DEF IsTop
    <3>3. CASE j # 1
      <4>1. j \in 2 .. Len(m.todo)
        BY <1>2, <3>3
      <4> QED
        BY <1>1, <3>1, <4>1 DEF Stack
    <3> QED
      BY <3>2, <3>3
  <2>2. ~(SomeAborted(k) /\ k.incoming # <<>>) /\ (SomeAborted(k) <=> SomeAborted(m))
    BY <1>8 DEF SomeAborted
  <2>3. (Has(k, "abort") <=> Has(m, "abort")) /\ (Has(k, "execute") <=> Has(m, "execute"))
    BY <1>10
  <2> QED
    BY <1>1, <1>8, <1>10, <2>1, <2>2, <2>3 DEF Stack
<1>15. Continues(k)
  <2>1. ASSUME NEW i \in 1 .. Len(k.todo), k.todo[i].k = "continue"
        PROVE  /\ i # 1 => i = 2 /\ k.todo[1] = Item("assign", k.todo[2].n)
               /\ k.todo[i].n = k.count /\ k.count # 0
               /\ ~k.res[k.count].finished /\ k.res[k.count].output = <<>>
               /\ k.res[k.count].given = <<>>
    <3>1. i # 1
      BY <1>6, <1>9, <2>1
    <3>2. i \in 2 .. Len(k.todo)
      BY <1>8, <3>1
    <3>3. PICK j \in 1 .. Len(m.todo) : i = j + 1 /\ k.todo[i] = m.todo[j]
      BY <1>11, <3>2
    <3>4. /\ j # 1 => j = 2 /\ m.todo[1] = Item("assign", m.todo[2].n)
          /\ m.todo[j].n = m.count /\ m.count # 0
          /\ ~m.res[m.count].finished /\ m.res[m.count].output = <<>>
          /\ m.res[m.count].given = <<>>
      BY <1>1, <2>1, <3>3 DEF Continues
    <3>5. j = 1 /\ m.todo # <<>>
      <4>1. m.todo # <<>>
        BY <3>3
      <4>2. ASSUME j # 1 PROVE FALSE
        <5>1. m.todo[1].k = "assign"
          BY <3>4, <4>2 DEF Item
        <5> QED
          BY <4>1, <5>1 DEF IsTop
      <4> QED
        BY <4>1, <4>2
    <3>6. IsTop(m, "continue")
      BY <2>1, <3>3, <3>5 DEF IsTop
    <3>7. h = m.count
      BY <3>6 DEF h
    <3>8. i = 2 /\ k.todo[2].n = m.count
      BY <3>3, <3>4, <3>5
    <3> QED
      BY <1>6, <1>8, <1>9, <3>3, <3>4, <3>7, <3>8
  <2> QED
    BY <2>1 DEF Continues
<1>16. Wires(k)
  BY <1>1, <1>8, <1>10, <1>12, WiresSame
<1>17. Good(k)
  BY <1>1, <1>8, <1>13, <1>14, <1>15, <1>16 DEF Good
<1> QED
  BY <1>7, <1>8, <1>17

\* Prefinish keeps the invariant.
LEMMA PrefinishKeeps ==
  ASSUME Inv, Prefinish
  PROVE  Inv'
<1>0. PICK n : n = conn.todo[1].n
  OBVIOUS
<1> DEFINE detached == Detached(n, conn)
<1>1. Good(conn) /\ conn \in Connections
  BY DEF Inv, Good
<1>2. IsTop(conn, "prefinish") /\ Top = n /\ UNCHANGED <<body, calls>>
  BY <1>0, <1>1, StackWords DEF Prefinish, IsTop
<1>3. conn.incoming # <<>> => Head(conn.incoming) = n
  BY <1>2 DEF Prefinish, IncomingIsFirst
<1>4. /\ Good(detached) /\ detached.count = conn.count /\ detached.httpMessage = 0
      /\ ~IsTop(detached, "assign") /\ ~IsTop(detached, "prefinish")
      /\ ~IsTop(detached, "continue")
      /\ ~(SomeAborted(detached) /\ detached.incoming # <<>>)
  BY <1>0, <1>1, <1>2, <1>3, DetachedIsGood
<1>5. conn' = Following(n, detached)
  BY <1>2 DEF Prefinish, Popped, Detached
<1> HIDE DEF detached
<1>6. Good(conn') /\ conn'.count = conn.count
  <2>1. CASE conn' = DestroySoon(detached)
    <3> DEFINE k == DestroySoon(detached)
    <3>1. detached \in Connections
      BY <1>4 DEF Good
    <3>2. k \in Connections /\ Down(detached, k)
      BY <3>1, DestroySoonIsDown
    <3> HIDE DEF k
    <3>3. Good(k) /\ k.count = conn.count
      BY <1>4, <3>2, DownIsGood DEF Down
    <3> QED
      BY <2>1, <3>3 DEF k
  <2>2. CASE conn' = Run([detached EXCEPT !.outgoing = Tail(@)],
                         <<Item("assign", Head(detached.outgoing))>>)
             /\ detached.outgoing # <<>>
    BY <1>4, <2>2, NextIsGood
  <2>3. CASE conn' = detached
    BY <1>4, <2>3
  <2> QED
    BY <1>5, <2>1, <2>2, <2>3 DEF Following, NextOnly
<1> QED
  BY <1>2, <1>6, StepIsGood

\* A request that the parser calls back with is listed, and its response queued.
LEMMA JoinIsGood ==
  ASSUME NEW m, Good(m), IsTop(m, "execute"), NEW k \in Connections, NEW n \in Requests,
         n = m.count + 1, k.count = n, k.incoming = Append(m.incoming, n),
         k.outgoing = Append(m.outgoing, n), k.httpMessage = m.httpMessage,
         k.eof = m.eof, k.closed = m.closed, k.todo = m.todo, k.res = m.res, k.req = m.req,
         k.wire = m.wire, k.writable = m.writable, Flags(k)
  PROVE  Good(k)
<1>1. /\ m \in Connections /\ Queues(m) /\ Stack(m) /\ Continues(m) /\ Wires(m)
  BY DEF Good
<1>2. m.todo \in Seq(Items) /\ m.outgoing \in Seq(Requests) /\ m.incoming \in Seq(Requests)
  BY <1>1 DEF Connections
<1>3. /\ \A x : Has(k, x) <=> Has(m, x)
      /\ \A x : IsTop(k, x) <=> IsTop(m, x)
  BY DEF Has, IsTop
<1>4. ~IsTop(m, "assign") /\ ~IsTop(m, "prefinish") /\ ~IsTop(m, "continue")
  BY DEF IsTop
<1>5. m.count \in Nat /\ n \in Nat /\ Len(m.outgoing) \in Nat /\ Len(m.incoming) \in Nat
      /\ Len(m.outgoing) <= m.count /\ Len(m.incoming) <= m.count
  BY <1>1, <1>2, CountIsNat DEF Queues
<1>6. /\ Len(k.outgoing) = Len(m.outgoing) + 1 /\ k.outgoing[Len(m.outgoing) + 1] = n
      /\ \A i \in 1 .. Len(m.outgoing) : k.outgoing[i] = m.outgoing[i]
  BY <1>2, AppendProperties
<1>7. /\ Len(k.incoming) = Len(m.incoming) + 1 /\ k.incoming[Len(m.incoming) + 1] = n
      /\ \A i \in 1 .. Len(m.incoming) : k.incoming[i] = m.incoming[i]
  BY <1>2, AppendProperties
<1>8. Current(k) = Current(m) /\ Out(k) = Out(m) /\ Heard(k) = Heard(m) /\ Done(k) = Done(m)
  <2>1. Out(k) = Out(m)
    BY <1>5, <1>6 DEF Out
  <2>2. Heard(k) = Heard(m)
    BY <1>5, <1>7, SMTT(60) DEF Heard
  <2>3. Current(k) = Current(m)
    BY <1>3 DEF Current
  <2> QED
    BY <2>1, <2>2, <2>3 DEF Done
<1>9. Queues(k)
  <2>1. Len(k.outgoing) <= k.count /\ Len(k.incoming) <= k.count
    BY <1>5, <1>6, <1>7
  <2>2. \A i \in 1 .. Len(k.outgoing) : k.outgoing[i] = Out(k) + i
    <3> TAKE i \in 1 .. Len(k.outgoing)
    <3>1. i \in 1 .. Len(m.outgoing) \/ i = Len(m.outgoing) + 1
      BY <1>5, <1>6
    <3>2. CASE i \in 1 .. Len(m.outgoing)
      BY <1>1, <1>6, <1>8, <3>2 DEF Queues
    <3>3. CASE i = Len(m.outgoing) + 1
      BY <1>5, <1>6, <1>8, <3>3 DEF Out
    <3> QED
      BY <3>1, <3>2, <3>3
  <2>3. \A i \in 1 .. Len(k.incoming) : k.incoming[i] = Heard(k) + i
    <3> TAKE i \in 1 .. Len(k.incoming)
    <3>1. i \in 1 .. Len(m.incoming) \/ i = Len(m.incoming) + 1
      BY <1>5, <1>7
    <3>2. CASE i \in 1 .. Len(m.incoming)
      BY <1>1, <1>7, <1>8, <3>2 DEF Queues
    <3>3. CASE i = Len(m.incoming) + 1
      BY <1>5, <1>7, <1>8, <3>3 DEF Heard
    <3> QED
      BY <3>1, <3>2, <3>3
  <2> QED
    BY <1>1, <1>3, <1>4, <1>8, <2>1, <2>2, <2>3 DEF Queues
<1>10. Stack(k)
  <2>1. Has(m, "execute")
    <3>1. m.todo # <<>> /\ m.todo[1].k = "execute" /\ 1 \in 1 .. Len(m.todo)
      BY <1>2 DEF IsTop
    <3> QED
      BY <3>1 DEF Has
  <2>2. ~m.eof /\ ~m.closed /\ ~Has(m, "abort") /\ ~SomeAborted(m)
    BY <1>1, <2>1 DEF Stack
  <2>3. ~SomeAborted(k)
    BY <2>2 DEF SomeAborted
  <2> QED
    BY <1>1, <1>3, <1>4, <2>2, <2>3 DEF Stack
<1>11. Continues(k)
  <2>1. ~Has(m, "continue")
    BY <1>1, <1>4, NoContinue
  <2> QED
    BY <1>3, <2>1, ContinuesNone
<1>12. Wires(k)
  <2>1. \A i \in Requests : i > k.count => i > m.count
    BY <1>1, <1>5, CountIsNat
  <2> QED
    BY <1>1, <1>3, <1>4, <1>8, <2>1, WiresSame
<1>13. k.count # 0
  BY <1>5
<1> QED
  BY <1>9, <1>10, <1>11, <1>12, <1>13 DEF Good

\* The response to a request that expects it is about to send "100 Continue".
LEMMA PushContinue ==
  ASSUME NEW m, Good(m), ~IsTop(m, "assign"), ~IsTop(m, "prefinish"), ~IsTop(m, "continue"),
         NEW n \in Requests, n = m.count, ~m.res[n].finished, m.res[n].output = <<>>,
         m.res[n].given = <<>>
  PROVE  LET k == [m EXCEPT !.todo = <<Item("continue", n)>> \o m.todo]
         IN Good(k) /\ IsTop(k, "continue")
<1> DEFINE items == <<Item("continue", n)>>
           todo == items \o m.todo
           k == [m EXCEPT !.todo = todo]
<1>1. /\ m \in Connections /\ Queues(m) /\ Stack(m) /\ Flags(m) /\ Continues(m) /\ Wires(m)
      /\ (m.reading => m.count # 0)
  BY DEF Good
<1>2. m.todo \in Seq(Items)
  BY <1>1 DEF Connections
<1>3. /\ items \in Seq(Items) /\ todo \in Seq(Items) /\ items # <<>> /\ Len(items) = 1
      /\ items[1] = Item("continue", n)
      /\ Item("continue", n).k = "continue" /\ Item("continue", n).n = n
  <2>1. Item("continue", n) \in Items
    BY <1>1, CountIsNat, ItemType DEF Kinds
  <2>2. Item("continue", n).k = "continue" /\ Item("continue", n).n = n
    BY DEF Item
  <2> QED
    BY <1>2, <2>1, <2>2
<1> HIDE DEF items, todo
<1>4. /\ k \in Connections /\ k.todo = todo /\ Lined(m, k) /\ Flags(k) /\ k.res = m.res
      /\ k.req = m.req /\ k.incoming = m.incoming /\ k.outgoing = m.outgoing
      /\ k.wire = m.wire /\ k.writable = m.writable /\ k.reading = m.reading
      /\ k.httpMessage = m.httpMessage /\ k.count = m.count
  BY <1>1, <1>3 DEF Connections, Flags, Lined
<1> HIDE DEF k
<1>5. /\ \A x : Has(k, x) <=> (\E i \in 1 .. Len(items) : items[i].k = x) \/ Has(m, x)
      /\ \A i \in 1 .. Len(k.todo) :
           \/ i \in 1 .. Len(items) /\ k.todo[i] = items[i]
           \/ i - Len(items) \in 1 .. Len(m.todo) /\ k.todo[i] = m.todo[i - Len(items)]
      /\ k.todo # <<>> /\ k.todo[1] = items[1]
  <2>1. k.todo = items \o m.todo
    BY <1>4 DEF todo
  <2> QED
    BY <1>1, <1>3, <1>4, <2>1, Pushes
<1>6. /\ IsTop(k, "continue") /\ k.todo[1].n = n /\ ~IsTop(k, "prefinish") /\ ~IsTop(k, "assign")
      /\ \A x : x # "continue" => (Has(k, x) <=> Has(m, x))
  BY <1>3, <1>5 DEF IsTop
<1>7. \A i \in 2 .. Len(k.todo) :
        \E j \in 1 .. Len(m.todo) : i = j + 1 /\ k.todo[i] = m.todo[j]
  <2> TAKE i \in 2 .. Len(k.todo)
  <2>1. i \in 1 .. Len(k.todo) /\ i \notin 1 .. 1
    BY <1>3, <1>4
  <2>2. i - 1 \in 1 .. Len(m.todo) /\ k.todo[i] = m.todo[i - 1] /\ i = (i - 1) + 1
    BY <1>3, <1>5, <2>1
  <2> QED
    BY <2>2
<1>8. Queues(k) /\ Done(k) = Done(m)
  <2>1. Current(k) = Current(m)
    BY <1>4, <1>6 DEF Current
  <2> QED
    BY <1>1, <1>4, <1>6, <2>1, QueuesKept
<1>9. Stack(k)
  <2>1. \A i \in 2 .. Len(k.todo) : k.todo[i].k \notin {"assign", "prefinish"}
    <3> TAKE i \in 2 .. Len(k.todo)
    <3>1. PICK j \in 1 .. Len(m.todo) : i = j + 1 /\ k.todo[i] = m.todo[j]
      BY <1>7
    <3>2. CASE j = 1
      BY <1>2, <3>1, <3>2 DEF IsTop
    <3>3. CASE j # 1
      <4>1. j \in 2 .. Len(m.todo)
        BY <1>2, <3>3
      <4> QED
        BY <1>1, <3>1, <4>1 DEF Stack
    <3> QED
      BY <3>2, <3>3
  <2>2. (Has(k, "abort") <=> Has(m, "abort")) /\ (Has(k, "execute") <=> Has(m, "execute"))
    BY <1>6
  <2> QED
    BY <1>1, <1>4, <1>6, <2>1, <2>2, StackKept
<1>10. Continues(k)
  <2>1. ~Has(m, "continue")
    BY <1>1, NoContinue
  <2>2. ASSUME NEW i \in 1 .. Len(k.todo), k.todo[i].k = "continue"
        PROVE  i = 1
    <3>1. CASE i # 1
      <4>1. i \in 2 .. Len(k.todo)
        BY <1>4, <3>1
      <4>2. PICK j \in 1 .. Len(m.todo) : i = j + 1 /\ k.todo[i] = m.todo[j]
        BY <1>7, <4>1
      <4> QED
        BY <2>1, <2>2, <4>2 DEF Has
    <3> QED
      BY <3>1
  <2>3. k.todo[1].n = k.count /\ k.count # 0 /\ ~k.res[k.count].finished
        /\ k.res[k.count].output = <<>> /\ k.res[k.count].given = <<>>
    BY <1>1, <1>4, <1>6, CountIsNat
  <2> QED
    BY <2>2, <2>3 DEF Continues
<1>11. Wires(k)
  BY <1>1, <1>4, <1>6, <1>8, WiresSame
<1>12. Good(k)
  BY <1>1, <1>4, <1>8, <1>9, <1>10, <1>11 DEF Good
<1> QED
  BY <1>6, <1>12 DEF k, todo, items

\* Sequences of items may be joined in any order.
LEMMA AssociateItems ==
  ASSUME NEW a \in Seq(Items), NEW b \in Seq(Items), NEW c \in Seq(Items)
  PROVE  (a \o b) \o c = a \o (b \o c)
<1> QED
  BY ConcatAssociative

\* The head of a request has been parsed.
LEMMA ParserOnIncomingKeeps ==
  ASSUME Inv, ParserOnIncoming, Careless = FALSE
  PROVE  Inv'
<1>1. Good(conn) /\ conn \in Connections /\ body \in Nat /\ conn.count + body <= MaxInput
  BY DEF Inv, Good
<1>2. /\ IsTop(conn, "execute") /\ ~conn.reading /\ conn.count + body < MaxInput
      /\ conn.httpMessage # 0 \/ conn.outgoing = <<>>
      /\ UNCHANGED <<body, calls>>
  BY <1>1, StackWords DEF ParserOnIncoming, More, Sends
<1>3. PICK hasBody \in BOOLEAN :
        LET n      == conn.count + 1
            expect == hasBody /\ n \in Expecting
            pauses == conn.needDrain /\ ~conn.paused
            m      == [conn EXCEPT !.count = n, !.reading = TRUE, !.incoming = Append(@, n),
                                   !.paused = @ \/ pauses, !.flowing = @ /\ ~pauses]
            queued == [m EXCEPT !.outgoing = IF m.httpMessage = 0 THEN @ ELSE Append(@, n)]
        IN conn' = Run(queued, (IF m.httpMessage = 0 THEN <<Item("assign", n)>> ELSE <<>>)
                               \o (IF expect THEN <<Item("continue", n)>> ELSE <<>>)
                               \o <<User>>
                               \o (IF hasBody THEN <<>> ELSE <<Item("complete", n)>>))
  BY DEF ParserOnIncoming
<1> DEFINE n == conn.count + 1
           expect == hasBody /\ n \in Expecting
           pauses == conn.needDrain /\ ~conn.paused
           paused == conn.paused \/ pauses
           flowing == conn.flowing /\ ~pauses
           incoming == Append(conn.incoming, n)
           outgoing == Append(conn.outgoing, n)
           left == IF conn.httpMessage = 0 THEN conn.outgoing ELSE outgoing
           assign == IF conn.httpMessage = 0 THEN <<Item("assign", n)>> ELSE <<>>
           continue == IF expect THEN <<Item("continue", n)>> ELSE <<>>
           user == <<User>>
           complete == IF hasBody THEN <<>> ELSE <<Item("complete", n)>>
           joined == [conn EXCEPT !.count = n, !.reading = TRUE, !.incoming = incoming,
                                  !.outgoing = outgoing, !.paused = paused, !.flowing = flowing]
           calling == (user \o complete) \o conn.todo
           called == [joined EXCEPT !.todo = calling]
           continuing == continue \o calling
           continued == [joined EXCEPT !.todo = continuing]
           assigning == assign \o continuing
<1>4. n \in Requests /\ n \in Nat /\ n # 0 /\ n > conn.count /\ conn.count \in Nat
  BY <1>1, <1>2, CountIsNat
<1>5. conn' = [conn EXCEPT !.count = n, !.reading = TRUE, !.incoming = incoming,
                           !.outgoing = left, !.paused = paused, !.flowing = flowing,
                           !.todo = assigning]
  <2>1. assign \in Seq(Items) /\ continue \in Seq(Items) /\ user \in Seq(Items)
        /\ complete \in Seq(Items) /\ conn.todo \in Seq(Items)
    <3>1. Item("assign", n) \in Items /\ Item("continue", n) \in Items
          /\ Item("complete", n) \in Items /\ User \in Items
      BY <1>4, ItemType DEF Kinds, User
    <3>2. conn.todo \in Seq(Items)
      BY <1>1 DEF Connections
    <3> HIDE DEF n
    <3> QED
      BY <3>1, <3>2
  <2> DEFINE items == ((assign \o continue) \o user) \o complete
  <2>2. items \o conn.todo = assigning
    <3> HIDE DEF assign, continue, user, complete
    <3>1. PICK a, c, u, p, s : a = assign /\ c = continue /\ u = user /\ p = complete
                              /\ s = conn.todo
      OBVIOUS
    <3>2. PICK ac, up : ac = a \o c /\ up = u \o p
      OBVIOUS
    <3>3. PICK ups : ups = up \o s
      OBVIOUS
    <3>4. a \in Seq(Items) /\ c \in Seq(Items)
      BY <2>1, <3>1
    <3>5. u \in Seq(Items) /\ p \in Seq(Items)
      BY <2>1, <3>1
    <3>6. s \in Seq(Items)
      BY <2>1, <3>1
    <3>7. ac \in Seq(Items)
      BY <3>2, <3>4, ConcatProperties
    <3>8. up \in Seq(Items)
      BY <3>2, <3>5, ConcatProperties
    <3>9. ups \in Seq(Items)
      BY <3>3, <3>6, <3>8, ConcatProperties
    <3>10. (ac \o u) \o p = ac \o (u \o p)
      BY <3>5, <3>7, AssociateItems
    <3>11. (ac \o up) \o s = ac \o (up \o s)
      BY <3>6, <3>7, <3>8, AssociateItems
    <3>12. (a \o c) \o ups = a \o (c \o ups)
      BY <3>4, <3>9, AssociateItems
    <3>13. (((a \o c) \o u) \o p) \o s = a \o (c \o ((u \o p) \o s))
      BY <3>2, <3>3, <3>10, <3>11, <3>12
    <3> QED
      BY <3>1, <3>13
  <2> DEFINE m == [conn EXCEPT !.count = n, !.reading = TRUE, !.incoming = incoming,
                               !.paused = paused, !.flowing = flowing]
             queued == [m EXCEPT !.outgoing = left]
  <2>3. /\ m.httpMessage = conn.httpMessage /\ m.outgoing = conn.outgoing /\ m.todo = conn.todo
        /\ queued.todo = conn.todo
    <3> HIDE DEF n, incoming, paused, flowing, left
    <3> QED
      BY <1>1 DEF Connections
  <2>4. conn' = [queued EXCEPT !.todo = items \o conn.todo]
    <3>1. conn' = Run([m EXCEPT !.outgoing = IF m.httpMessage = 0 THEN m.outgoing
                                                                ELSE Append(m.outgoing, n)],
                      (((IF m.httpMessage = 0 THEN <<Item("assign", n)>> ELSE <<>>)
                      \o continue) \o user) \o complete)
      BY <1>3
    <3> HIDE DEF m, n, continue, user, complete, incoming, paused, flowing
    <3>2. conn' = Run(queued, items)
      BY <2>3, <3>1
    <3> HIDE DEF queued, items
    <3> QED
      BY <2>3, <3>2 DEF Run
  <2> HIDE DEF n, incoming, paused, flowing, left, items, assigning
  <2> QED
    BY <1>1, <2>2, <2>4 DEF Connections
<1>6. /\ paused \in BOOLEAN /\ flowing \in BOOLEAN /\ (flowing => ~paused)
      /\ (conn.paused => paused)
  <2>1. Flags(conn) /\ conn.paused \in BOOLEAN /\ conn.flowing \in BOOLEAN
    BY <1>1 DEF Good, Connections
  <2> QED
    BY <2>1 DEF Flags
<1>7. /\ incoming \in Seq(Requests) /\ outgoing \in Seq(Requests)
  BY <1>1, <1>4, AppendProperties DEF Connections
<1> HIDE DEF paused, flowing, incoming, outgoing
<1>8. /\ joined \in Connections /\ joined.count = n /\ joined.incoming = incoming
      /\ joined.outgoing = outgoing /\ joined.httpMessage = conn.httpMessage
      /\ joined.eof = conn.eof /\ joined.closed = conn.closed /\ joined.todo = conn.todo
      /\ joined.res = conn.res /\ joined.req = conn.req /\ joined.wire = conn.wire
      /\ joined.writable = conn.writable /\ Flags(joined)
  <2>1. Flags(conn)
    BY <1>1 DEF Good
  <2> HIDE DEF n
  <2> QED
    BY <1>1, <1>4, <1>6, <1>7, <2>1, ZenonT(60) DEF Connections, Flags
<1>9. joined = [conn EXCEPT !.count = n, !.reading = TRUE, !.incoming = incoming,
                            !.outgoing = outgoing, !.paused = paused, !.flowing = flowing]
  OBVIOUS
<1> HIDE DEF joined
<1>10. Good(joined)
  <2>1. joined.incoming = Append(conn.incoming, n) /\ joined.outgoing = Append(conn.outgoing, n)
    BY <1>8 DEF incoming, outgoing
  <2>2. n = conn.count + 1
    OBVIOUS
  <2> HIDE DEF n
  <2> QED
    BY <1>1, <1>2, <1>4, <1>8, <2>1, <2>2, JoinIsGood
<1>11. conn.res[n] = Response /\ ~(SomeAborted(conn) /\ conn.incoming # <<>>)
       /\ ~SomeAborted(joined)
  <2>1. Wires(conn) /\ Stack(conn) /\ conn.todo # <<>> /\ conn.todo \in Seq(Items)
    BY <1>1, <1>2 DEF Good, IsTop, Connections
  <2>2. Has(conn, "execute")
    <3>1. 1 \in 1 .. Len(conn.todo)
      BY <2>1
    <3> QED
      BY <1>2, <3>1 DEF IsTop, Has
  <2>3. ~SomeAborted(conn)
    BY <2>1, <2>2 DEF Stack
  <2> QED
    BY <1>4, <1>8, <2>1, <2>3 DEF Wires, SomeAborted
<1>12. /\ Good(called) /\ called.count = n /\ called.outgoing = outgoing
       /\ called.httpMessage = conn.httpMessage /\ called.res = conn.res
       /\ called.req = conn.req /\ called.todo = calling
       /\ IsTop(called, "user") /\ calling \in Seq(Items)
  <2> DEFINE items == user \o complete
  <2>1. /\ items \in Seq(Items) /\ Len(items) \in Nat /\ items # <<>> /\ items[1] = User
        /\ \A i \in 1 .. Len(items) : items[i].k \in {"user", "complete", "endSocket", "drained"}
    <3> DEFINE c == Item("complete", n)
               two == <<User, c>>
    <3>1. c \in Items /\ User \in Items /\ c.k = "complete" /\ User.k = "user"
      BY <1>4, ItemType DEF Kinds, User, Item
    <3>2. items = user \/ items = two
      <4>1. items = user \o <<>> \/ items = user \o <<c>>
        OBVIOUS
      <4> HIDE DEF c, items
      <4>2. user \in Seq(Items) /\ user \o <<c>> = two
        BY <3>1, TwoItems
      <4>3. user \o <<>> = user
        BY <4>2, OnEmpty
      <4> QED
        BY <4>1, <4>2, <4>3
    <3> HIDE DEF c, items
    <3>3. /\ user \in Seq(Items) /\ user # <<>> /\ Len(user) = 1 /\ user[1] = User
          /\ \A i \in 1 .. Len(user) : user[i].k \in {"user", "complete", "endSocket", "drained"}
      BY <3>1
    <3>4. /\ two \in Seq(Items) /\ two # <<>> /\ Len(two) = 2 /\ two[1] = User
          /\ \A i \in 1 .. Len(two) : two[i].k \in {"user", "complete", "endSocket", "drained"}
      BY <3>1
    <3> HIDE DEF two, user
    <3> QED
      BY <3>2, <3>3, <3>4
  <2>2. conn.todo \in Seq(Items)
    BY <1>1 DEF Connections
  <2>3. /\ calling = items \o conn.todo /\ calling \in Seq(Items) /\ calling # <<>>
        /\ calling[1] = User
    <3>1. calling = items \o conn.todo
      OBVIOUS
    <3> HIDE DEF items, calling
    <3> QED
      BY <2>1, <2>2, <3>1, ConcatProperties
  <2> HIDE DEF items, calling, n
  <2>4. /\ called \in Connections /\ Lined(joined, called) /\ called.todo = calling
        /\ Flags(called) /\ called.res = joined.res /\ called.wire = joined.wire
        /\ called.writable = joined.writable /\ called.reading = joined.reading
        /\ called.count = joined.count /\ called.outgoing = joined.outgoing
        /\ called.httpMessage = joined.httpMessage /\ called.req = joined.req
    BY <1>8, <2>3 DEF Connections, Flags, Lined
  <2> HIDE DEF called
  <2>5. ~IsTop(joined, "assign") /\ ~IsTop(joined, "prefinish") /\ ~IsTop(joined, "continue")
    BY <1>2, <1>8 DEF IsTop
  <2>6. called.todo = items \o joined.todo
    BY <1>8, <2>3, <2>4
  <2>7. Good(called)
    BY <1>10, <2>1, <2>4, <2>5, <2>6, GoodPushes
  <2>8. IsTop(called, "user")
    BY <2>3, <2>4 DEF IsTop, User, Item
  <2> QED
    BY <1>8, <2>3, <2>4, <2>7, <2>8
<1> HIDE DEF calling
<1>13. /\ Good(continued) /\ continued.count = n /\ continued.outgoing = outgoing
       /\ continued.httpMessage = conn.httpMessage /\ continued.todo = continuing
       /\ continued.req = conn.req
       /\ ~IsTop(continued, "assign") /\ ~IsTop(continued, "prefinish")
  <2>1. ~IsTop(called, "assign") /\ ~IsTop(called, "prefinish") /\ ~IsTop(called, "continue")
    BY <1>12 DEF IsTop
  <2>2. CASE expect
    <3> DEFINE todo == <<Item("continue", n)>> \o called.todo
               k == [called EXCEPT !.todo = todo]
    <3>1. /\ n = called.count /\ ~called.res[n].finished /\ called.res[n].output = <<>>
          /\ called.res[n].given = <<>>
      BY <1>11, <1>12 DEF Response
    <3>2. Good(k) /\ IsTop(k, "continue")
      <4> HIDE DEF n, called
      <4> QED
        BY <1>4, <1>12, <2>1, <3>1, PushContinue
    <3>3. continuing = todo
      BY <1>12, <2>2
    <3>4. continued = k
      <4>1. k = [joined EXCEPT !.todo = todo]
        <5> HIDE DEF todo
        <5> QED
          BY <1>8 DEF Connections
      <4> QED
        BY <3>3, <4>1
    <3> HIDE DEF todo
    <3>5. /\ k.count = called.count /\ k.outgoing = called.outgoing /\ k.todo = todo
          /\ k.httpMessage = called.httpMessage /\ k.req = called.req
      <4>1. called \in Connections
        BY <1>12 DEF Good
      <4> HIDE DEF called
      <4> QED
        BY <4>1 DEF Connections
    <3> HIDE DEF k, called, continuing, continued, n
    <3>6. ~IsTop(k, "assign") /\ ~IsTop(k, "prefinish")
      BY <3>2 DEF IsTop
    <3> QED
      BY <1>12, <3>2, <3>3, <3>4, <3>5, <3>6
  <2>3. CASE ~expect
    <3>1. continuing = calling
      <4>1. continuing = <<>> \o calling
        BY <2>3
      <4> HIDE DEF continuing
      <4> QED
        BY <1>12, <4>1, ConcatEmptySeq
    <3>2. continued = called
      BY <3>1
    <3> HIDE DEF continuing, continued, called, n
    <3> QED
      BY <1>12, <2>1, <3>1, <3>2
  <2> QED
    BY <2>2, <2>3
<1> HIDE DEF continuing
<1>14. Good(conn') /\ conn'.count = n
  <2>1. CASE conn.httpMessage = 0
    <3> DEFINE k == Run([continued EXCEPT !.outgoing = Tail(@)],
                        <<Item("assign", Head(continued.outgoing))>>)
    <3>1. conn.outgoing = <<>> /\ outgoing = <<n>> /\ outgoing # <<>> /\ Head(outgoing) = n
          /\ Tail(outgoing) = <<>>
      <4>1. conn.outgoing = <<>>
        BY <1>2, <2>1
      <4>2. outgoing = <<n>>
        BY <4>1 DEF outgoing
      <4> HIDE DEF n
      <4> QED
        BY <4>1, <4>2
    <3>2. ~SomeAborted(continued)
      BY <1>8, <1>11, <1>13 DEF SomeAborted
    <3>3. Good(k) /\ k.count = continued.count
      <4> HIDE DEF continued, n
      <4> QED
        BY <1>13, <2>1, <3>1, <3>2, NextIsGood
    <3>4. conn' = k
      <4>1. assigning = <<Item("assign", n)>> \o continuing /\ left = Tail(outgoing)
        BY <2>1, <3>1
      <4> DEFINE items == <<Item("assign", n)>>
      <4>2. k = Run([continued EXCEPT !.outgoing = Tail(outgoing)], items)
        <5> HIDE DEF continued
        <5> QED
          BY <1>13, <3>1
      <4>3. k = [continued EXCEPT !.outgoing = left, !.todo = assigning]
        <5>1. [continued EXCEPT !.outgoing = left].todo = continuing
          <6>1. continued \in Connections
            BY <1>13 DEF Good
          <6> HIDE DEF continued, left
          <6> QED
            BY <1>13, <6>1 DEF Connections
        <5>2. assigning = items \o continuing
          BY <4>1
        <5>3. k = Run([continued EXCEPT !.outgoing = left], items)
          BY <4>1, <4>2
        <5>4. [[continued EXCEPT !.outgoing = left] EXCEPT !.todo = assigning]
                = [continued EXCEPT !.outgoing = left, !.todo = assigning]
          <6>1. continued \in Connections
            BY <1>13 DEF Good
          <6> HIDE DEF continued, left, assigning
          <6> QED
            BY <6>1 DEF Connections
        <5> HIDE DEF items, k, continued, left, assigning
        <5> QED
          BY <5>1, <5>2, <5>3, <5>4 DEF Run
      <4> HIDE DEF n, k, left, assigning
      <4> QED
        BY <1>1, <1>5, <1>9, <4>3 DEF Connections
    <3> HIDE DEF k, continued, n
    <3> QED
      BY <1>13, <3>3, <3>4
  <2>2. CASE conn.httpMessage # 0
    <3>1. assigning = continuing /\ left = outgoing
      <4>1. assigning = <<>> \o continuing /\ left = outgoing
        BY <2>2
      <4>2. continuing \in Seq(Items)
        BY <1>13 DEF Good, Connections
      <4> HIDE DEF assigning
      <4> QED
        BY <4>1, <4>2, ConcatEmptySeq
    <3>2. conn' = continued
      <4>1. continued = [joined EXCEPT !.todo = continuing]
        OBVIOUS
      <4> HIDE DEF n, continued, assigning, left
      <4> QED
        BY <1>1, <1>5, <1>9, <3>1, <4>1 DEF Connections
    <3> HIDE DEF continued, n
    <3> QED
      BY <1>13, <3>2
  <2> QED
    BY <2>1, <2>2
<1>15. body' = body /\ n + body <= MaxInput
  BY <1>1, <1>2, CountIsNat
<1> HIDE DEF n
<1>16. body' \in Nat /\ conn'.count + body' <= MaxInput
  BY <1>1, <1>14, <1>15
<1> QED
  BY <1>14, <1>16 DEF Inv, Good

-----------------------------------------------------------------------------
(* The theorems. *)

\* A connection starts with nothing on its lists and nothing on the wire.
LEMMA InitKeeps == Init => Inv
<1> SUFFICES ASSUME Init PROVE Inv
  OBVIOUS
<1>1. PICK halfOpen \in BOOLEAN :
       conn = [halfOpen |-> halfOpen, incoming |-> <<>>, outgoing |-> <<>>, httpMessage |-> 0,
               count |-> 0, reading |-> FALSE, parserPaused |-> FALSE, paused |-> FALSE,
               res |-> [n \in Requests |-> Response], req |-> [n \in Requests |-> Request],
               wire |-> <<>>, held |-> 0, needDrain |-> FALSE, flowing |-> TRUE,
               readable |-> TRUE, writable |-> TRUE, ending |-> FALSE, finished |-> FALSE,
               soon |-> FALSE, eof |-> FALSE, destroyed |-> FALSE, closed |-> FALSE,
               todo |-> <<>>, ticks |-> <<>>]
  <2>1. HalfOpens \subseteq BOOLEAN
    BY HttpServerAssumption
  <2> QED
    BY <2>1 DEF Init
<1>2. Response \in Responses /\ Request \in RequestStates
  <2>1. <<>> \in Seq(Pieces)
    OBVIOUS
  <2> QED
    BY <2>1 DEF Response, Responses, Request, RequestStates
<1>3. /\ Response.answered = FALSE /\ Response.output = <<>> /\ Response.given = <<>>
      /\ Request.aborted = 0
  BY DEF Response, Request
<1> DEFINE res == [n \in Requests |-> Response]
           req == [n \in Requests |-> Request]
<1>4. /\ res \in [Requests -> Responses] /\ req \in [Requests -> RequestStates]
      /\ \A n \in Requests : res[n] = Response /\ req[n] = Request
  BY <1>2
<1>5. conn = [halfOpen |-> halfOpen, incoming |-> <<>>, outgoing |-> <<>>, httpMessage |-> 0,
               count |-> 0, reading |-> FALSE, parserPaused |-> FALSE, paused |-> FALSE,
               res |-> res, req |-> req,
               wire |-> <<>>, held |-> 0, needDrain |-> FALSE, flowing |-> TRUE,
               readable |-> TRUE, writable |-> TRUE, ending |-> FALSE, finished |-> FALSE,
               soon |-> FALSE, eof |-> FALSE, destroyed |-> FALSE, closed |-> FALSE,
               todo |-> <<>>, ticks |-> <<>>]
  BY <1>1
<1> HIDE DEF res, req
<1>6. conn \in Connections
  BY <1>4, <1>5 DEF Connections
<1>7. /\ conn.incoming = <<>> /\ conn.outgoing = <<>> /\ conn.httpMessage = 0 /\ conn.count = 0
      /\ conn.res = res /\ conn.req = req /\ conn.wire = <<>> /\ conn.todo = <<>>
      /\ ~conn.reading /\ ~conn.parserPaused /\ ~conn.paused /\ ~conn.eof /\ ~conn.closed
      /\ ~conn.destroyed
  BY <1>5
<1>8. (\A x : ~Has(conn, x)) /\ (\A x : ~IsTop(conn, x))
  BY <1>7 DEF Has, IsTop
<1>9. Current(conn) = 0 /\ Out(conn) = 0 /\ Done(conn) = 0 /\ Heard(conn) = 0
  <2>1. Current(conn) = 0
    BY <1>7, <1>8 DEF Current
  <2>2. conn.count = 0 /\ Len(conn.incoming) = 0 /\ Len(conn.outgoing) = 0
    BY <1>7
  <2>3. Out(conn) = 0 /\ Heard(conn) = 0
    BY <2>2 DEF Out, Heard
  <2> QED
    BY <2>1, <2>3 DEF Done
<1>10. \A n \in Requests : n \in Nat /\ n >= 1
  BY <1>6, CountIsNat
<1>11. Queues(conn)
  <2>1. \A n \in Requests :
          /\ conn.res[n].answered <=> n <= Done(conn)
          /\ n > Heard(conn) => conn.req[n].aborted = 0
          /\ n > Done(conn) /\ n <= Heard(conn) => conn.req[n].aborted = 1
    BY <1>3, <1>4, <1>7, <1>9, <1>10
  <2> QED
    BY <1>7, <1>8, <1>9, <2>1 DEF Queues
<1>12. Stack(conn) /\ Flags(conn) /\ Continues(conn)
  <2>1. ~SomeAborted(conn)
    BY <1>3, <1>4, <1>7 DEF SomeAborted
  <2> QED
    BY <1>7, <1>8, <2>1, ContinuesNone DEF Stack, Flags
<1>13. Wires(conn)
  <2>1. Tagged(conn)
    BY <1>3, <1>4, <1>7 DEF Tagged
  <2>2. conn.wire \o Unwritten(conn) = Given(conn, Latest(conn))
    <3>1. Latest(conn) = 0 /\ Unwritten(conn) = <<>>
      BY <1>7, <1>9 DEF Latest, Unwritten
    <3> QED
      BY <1>7, <3>1, GivenNone
  <2>3. \A n \in Requests :
          /\ conn.res[n].output = conn.res[n].given /\ conn.res[n] = Response
          /\ conn.res[n].answered => conn.res[n].finished
    BY <1>3, <1>4, <1>7
  <2> QED
    BY <1>7, <1>8, <2>1, <2>2, <2>3 DEF Wires, Ordered
<1>14. body = 0 /\ MaxInput \in Nat
  BY HttpServerAssumption DEF Init
<1> QED
  BY <1>6, <1>7, <1>11, <1>12, <1>13, <1>14 DEF Inv, Good

\* Every step keeps the invariant, with a client and a user that are not careless.
LEMMA NextKeeps ==
  ASSUME Inv, [Next]_vars, Careless = FALSE
  PROVE  Inv'
<1>1. CASE UNCHANGED vars
  BY <1>1 DEF vars, Inv
<1>2. ASSUME NEW n \in Known, Write(n) \/ End(n) \/ DestroyResponse(n) \/ Consume(n)
      PROVE  Inv'
  <2>1. CASE Write(n)
    BY <1>2, <2>1, WriteKeeps
  <2>2. CASE End(n)
    BY <1>2, <2>2, EndKeeps
  <2>3. CASE DestroyResponse(n)
    BY <1>2, <2>3, DestroyResponseKeeps
  <2>4. CASE Consume(n)
    BY <1>2, <2>4, ConsumeKeeps
  <2> QED
    BY <1>2, <2>1, <2>2, <2>3, <2>4
<1>3. CASE ParserOnIncoming
  BY <1>3, ParserOnIncomingKeeps
<1>4. CASE ParserOnBody \/ ParserOnMessageComplete \/ ExecuteReturns
  BY <1>4, ParserOnBodyKeeps, ParserOnMessageCompleteKeeps, ExecuteReturnsKeeps
<1>5. CASE Assign \/ Prefinish \/ WriteContinue
  BY <1>5, AssignKeeps, PrefinishKeeps, WriteContinueKeeps
<1>6. CASE AbortIncoming \/ EndSocket
  BY <1>6, AbortIncomingKeeps, EndSocketKeeps
<1>7. CASE SocketOnDrain \/ ResumeReq \/ UserReturns
  BY <1>7, SocketOnDrainKeeps, ResumeReqKeeps, UserReturnsKeeps
<1>8. CASE SocketOnData \/ ClientEnds \/ SocketFails
  BY <1>8, SocketOnDataKeeps, ClientEndsKeeps, SocketFailsKeeps
<1>9. CASE SocketWrites \/ SocketCloses
  BY <1>9, SocketWritesKeeps, SocketClosesKeeps
<1> QED
  BY <1>1, <1>2, <1>3, <1>4, <1>5, <1>6, <1>7, <1>8, <1>9 DEF Next, UserCall, Step, Client

\* The numbers that the queues stand for.
LEMMA Numbers ==
  ASSUME NEW m, Good(m)
  PROVE  /\ m \in Connections /\ m.count \in Nat /\ m.count <= MaxInput /\ MaxInput \in Nat
         /\ Out(m) \in Nat /\ Out(m) <= m.count /\ Done(m) \in Nat /\ Done(m) <= Out(m)
         /\ Heard(m) \in Nat /\ Heard(m) <= m.count /\ Done(m) <= Heard(m)
         /\ Len(m.outgoing) \in Nat /\ Len(m.incoming) \in Nat
         /\ Len(m.outgoing) = m.count - Out(m) /\ Len(m.incoming) = m.count - Heard(m)
         /\ Current(m) # 0 => Current(m) = Out(m) /\ Done(m) = Out(m) - 1
         /\ Current(m) = 0 => Done(m) = Out(m)
         /\ m.httpMessage # 0 => Current(m) = m.httpMessage /\ ~IsTop(m, "assign")
<1>1. m \in Connections /\ Queues(m)
  BY DEF Good
<1>2. m.outgoing \in Seq(Requests) /\ m.incoming \in Seq(Requests)
  BY <1>1 DEF Connections
<1>3. /\ m.count \in Nat /\ m.count <= MaxInput /\ MaxInput \in Nat
      /\ Len(m.outgoing) \in Nat /\ Len(m.incoming) \in Nat
      /\ Len(m.outgoing) <= m.count /\ Len(m.incoming) <= m.count
  BY <1>1, <1>2, CountIsNat DEF Queues
<1>4. Out(m) \in Nat /\ Heard(m) \in Nat /\ Out(m) <= m.count /\ Heard(m) <= m.count
      /\ Len(m.outgoing) = m.count - Out(m) /\ Len(m.incoming) = m.count - Heard(m)
  BY <1>3 DEF Out, Heard
<1>5. Current(m) \in {0, Out(m)} /\ Done(m) <= Heard(m)
  BY <1>1 DEF Queues
<1>6. Done(m) \in Nat /\ Done(m) <= Out(m)
  BY <1>4, <1>5 DEF Done
<1>7. /\ Current(m) # 0 => Current(m) = Out(m) /\ Done(m) = Out(m) - 1
      /\ Current(m) = 0 => Done(m) = Out(m)
  BY <1>5 DEF Done
<1>8. m.httpMessage # 0 => Current(m) = m.httpMessage /\ ~IsTop(m, "assign")
  BY <1>1 DEF Queues, Current
<1> QED
  BY <1>1, <1>3, <1>4, <1>5, <1>6, <1>7, <1>8

\* The asserts of the handlers follow from the invariant.
LEMMA AssertsFollow ==
  ASSUME Inv
  PROVE  AssertsHold
<1>1. Good(conn) /\ conn \in Connections /\ Queues(conn) /\ Stack(conn) /\ Flags(conn)
  BY DEF Inv, Good
<1>2. ASSUME Running("prefinish") PROVE IncomingIsFirst(Top) /\ conn.httpMessage = Top
  <2>1. IsTop(conn, "prefinish") /\ Top = conn.todo[1].n
    BY <1>1, <1>2, StackWords DEF IsTop
  <2>2. Top = conn.httpMessage /\ conn.httpMessage # 0
    BY <1>1, <2>1 DEF Stack
  <2>3. Top = Out(conn) /\ Done(conn) = Top - 1 /\ Top \in Nat
    BY <1>1, <2>2, Numbers
  <2>4. ASSUME conn.incoming # <<>> PROVE Head(conn.incoming) = Top
    <3>1. ~SomeAborted(conn)
      BY <1>1, <2>1, <2>4 DEF Stack
    <3>2. Top \in Requests
      BY <1>1, <2>2 DEF Connections
    <3>3. ~(Top > Done(conn) /\ Top <= Heard(conn))
      BY <1>1, <3>1, <3>2 DEF Queues, SomeAborted
    <3>4. Heard(conn) = Top - 1
      BY <1>1, <2>3, <3>3, Numbers
    <3>5. conn.incoming \in Seq(Requests)
      BY <1>1 DEF Connections
    <3>6. 1 \in 1 .. Len(conn.incoming) /\ Head(conn.incoming) = conn.incoming[1]
      BY <2>4, <3>5
    <3>7. conn.incoming[1] = Heard(conn) + 1
      BY <1>1, <3>6 DEF Queues
    <3> QED
      BY <2>3, <3>4, <3>6, <3>7
  <2> QED
    BY <2>2, <2>4 DEF IncomingIsFirst
<1>3. Running("assign") => conn.httpMessage = 0
  BY <1>1, StackWords DEF Queues
<1>4. conn.flowing => ~conn.paused /\ ~conn.parserPaused
  BY <1>1 DEF Flags
<1> QED
  BY <1>2, <1>3, <1>4 DEF AssertsHold

\* What is in incoming.
LEMMA IncomingFollows ==
  ASSUME Inv
  PROVE  /\ ToSet(conn.incoming) = {n \in Known : ~conn.res[n].answered /\ conn.req[n].aborted = 0}
         /\ \A i, j \in DOMAIN conn.incoming : i < j => conn.incoming[i] < conn.incoming[j]
         /\ AtRest /\ conn.closed => conn.incoming = <<>>
<1>1. Good(conn) /\ conn \in Connections /\ Queues(conn) /\ Stack(conn)
  BY DEF Inv, Good
<1>2. conn.incoming \in Seq(Requests) /\ DOMAIN conn.incoming = 1 .. Len(conn.incoming)
  BY <1>1 DEF Connections
<1>3. /\ Heard(conn) \in Nat /\ conn.count \in Nat /\ Done(conn) \in Nat /\ Len(conn.incoming) \in Nat
      /\ Heard(conn) <= conn.count /\ Done(conn) <= Heard(conn)
      /\ Len(conn.incoming) = conn.count - Heard(conn)
  BY <1>1, Numbers
<1>4. \A i \in 1 .. Len(conn.incoming) : conn.incoming[i] = Heard(conn) + i
  BY <1>1 DEF Queues
<1>5. ASSUME NEW n \in Known
      PROVE  ~conn.res[n].answered /\ conn.req[n].aborted = 0 <=> n > Heard(conn)
  <2>1. n \in Requests /\ n \in Nat
    BY <1>3, <1>5, KnownIsRequest DEF Known
  <2>2. /\ conn.res[n].answered <=> n <= Done(conn)
        /\ n > Heard(conn) => conn.req[n].aborted = 0
        /\ n > Done(conn) /\ n <= Heard(conn) => conn.req[n].aborted = 1
    BY <1>1, <2>1 DEF Queues
  <2>3. CASE n > Heard(conn)
    BY <1>3, <2>1, <2>2, <2>3
  <2>4. CASE n <= Heard(conn)
    <3>1. ~(n > Heard(conn))
      BY <1>3, <2>1, <2>4
    <3>2. n <= Done(conn) \/ n > Done(conn)
      BY <1>3, <2>1
    <3> QED
      BY <2>2, <2>4, <3>1, <3>2
  <2> QED
    BY <1>3, <2>1, <2>3, <2>4
<1>6. ASSUME NEW n PROVE n \in ToSet(conn.incoming) <=> n \in Known /\ n > Heard(conn)
  <2>1. ToSet(conn.incoming) = {conn.incoming[i] : i \in 1 .. Len(conn.incoming)}
    BY <1>2 DEF ToSet
  <2>2. ASSUME n \in ToSet(conn.incoming) PROVE n \in Known /\ n > Heard(conn)
    <3>1. PICK i \in 1 .. Len(conn.incoming) : n = conn.incoming[i]
      BY <2>1, <2>2
    <3>2. n = Heard(conn) + i
      BY <1>4, <3>1
    <3> QED
      BY <1>3, <3>2 DEF Known
  <2>3. ASSUME n \in Known, n > Heard(conn) PROVE n \in ToSet(conn.incoming)
    <3>1. n - Heard(conn) \in 1 .. Len(conn.incoming)
      BY <1>3, <2>3 DEF Known
    <3>2. conn.incoming[n - Heard(conn)] = n
      BY <1>3, <1>4, <2>3, <3>1 DEF Known
    <3> QED
      BY <2>1, <3>1, <3>2
  <2> QED
    BY <2>2, <2>3
<1>7. ToSet(conn.incoming) = {n \in Known : ~conn.res[n].answered /\ conn.req[n].aborted = 0}
  BY <1>5, <1>6
<1>8. \A i, j \in DOMAIN conn.incoming : i < j => conn.incoming[i] < conn.incoming[j]
  BY <1>2, <1>3, <1>4
<1>9. AtRest /\ conn.closed => conn.incoming = <<>>
  <2>1. conn.todo = <<>> => ~Has(conn, "abort")
    BY DEF Has
  <2> QED
    BY <1>1, <2>1 DEF AtRest, Stack
<1> QED
  BY <1>7, <1>8, <1>9

\* The responses after Out are queued.
LEMMA QueuedAfterOut ==
  ASSUME Inv, NEW n \in Known
  PROVE  Contains(conn.outgoing, n) <=> n > Out(conn)
<1>1. Good(conn) /\ conn \in Connections /\ Queues(conn)
  BY DEF Inv, Good
<1>2. /\ Out(conn) \in Nat /\ Out(conn) <= conn.count /\ conn.count \in Nat
      /\ Len(conn.outgoing) \in Nat /\ Len(conn.outgoing) = conn.count - Out(conn)
  BY <1>1, Numbers
<1>3. n \in Nat /\ n <= conn.count
  BY <1>2, KnownIsRequest DEF Known
<1>4. Contains(conn.outgoing, n) <=> \E i \in 1 .. Len(conn.outgoing) : conn.outgoing[i] = n
  BY DEF Contains
<1>5. \A i \in 1 .. Len(conn.outgoing) : conn.outgoing[i] = Out(conn) + i
  BY <1>1 DEF Queues
<1>6. ASSUME NEW i \in 1 .. Len(conn.outgoing), conn.outgoing[i] = n PROVE n > Out(conn)
  <2>1. n = Out(conn) + i
    BY <1>5, <1>6
  <2> QED
    BY <1>2, <2>1
<1>7. ASSUME n > Out(conn) PROVE \E i \in 1 .. Len(conn.outgoing) : conn.outgoing[i] = n
  <2> DEFINE j == n - Out(conn)
  <2>1. j \in 1 .. Len(conn.outgoing) /\ Out(conn) + j = n
    BY <1>2, <1>3, <1>7
  <2> HIDE DEF j
  <2>2. conn.outgoing[j] = n
    BY <1>5, <2>1
  <2> QED
    BY <2>1, <2>2
<1> QED
  BY <1>4, <1>6, <1>7

\* Where a response is.
LEMMA PlaceFollows ==
  ASSUME Inv, NEW n \in Known
  PROVE  Cardinality({p \in {"has", "queued", "next", "had"} :
           CASE p = "has" -> conn.httpMessage = n
             [] p = "queued" -> Contains(conn.outgoing, n)
             [] p = "next" -> \E i \in DOMAIN conn.todo : conn.todo[i] = Item("assign", n)
             [] p = "had" -> conn.res[n].answered}) = 1
<1>1. Good(conn) /\ conn \in Connections /\ Queues(conn) /\ Stack(conn)
  BY DEF Inv, Good
<1>2. /\ Out(conn) \in Nat /\ Out(conn) <= conn.count /\ Done(conn) \in Nat /\ conn.count \in Nat
      /\ Done(conn) <= Out(conn) /\ Len(conn.outgoing) \in Nat
      /\ Len(conn.outgoing) = conn.count - Out(conn)
      /\ Current(conn) # 0 => Current(conn) = Out(conn) /\ Done(conn) = Out(conn) - 1
      /\ Current(conn) = 0 => Done(conn) = Out(conn)
      /\ conn.httpMessage # 0 => Current(conn) = conn.httpMessage /\ ~IsTop(conn, "assign")
  BY <1>1, Numbers
<1>3. n \in Requests /\ n \in Nat /\ n # 0 /\ n <= conn.count
  BY <1>2, KnownIsRequest DEF Known
<1>4. conn.outgoing \in Seq(Requests) /\ conn.todo \in Seq(Items)
      /\ DOMAIN conn.todo = 1 .. Len(conn.todo)
  BY <1>1 DEF Connections
<1>5. Contains(conn.outgoing, n) <=> n > Out(conn)
  BY QueuedAfterOut
<1>6. (\E i \in DOMAIN conn.todo : conn.todo[i] = Item("assign", n))
        <=> IsTop(conn, "assign") /\ Current(conn) = n
  <2>1. Item("assign", n).k = "assign" /\ Item("assign", n).n = n
    BY DEF Item
  <2>2. ASSUME NEW i \in 1 .. Len(conn.todo), conn.todo[i] = Item("assign", n)
        PROVE  IsTop(conn, "assign") /\ Current(conn) = n
    <3>1. i = 1
      <4>1. i \notin 2 .. Len(conn.todo)
        BY <1>1, <2>1, <2>2 DEF Stack
      <4> QED
        BY <1>4, <4>1
    <3>2. conn.todo # <<>>
      BY <1>4, <2>2
    <3> QED
      BY <2>1, <2>2, <3>1, <3>2 DEF IsTop, Current
  <2>3. ASSUME IsTop(conn, "assign"), Current(conn) = n
        PROVE  \E i \in 1 .. Len(conn.todo) : conn.todo[i] = Item("assign", n)
    <3>1. conn.todo[1].k = "assign" /\ conn.todo[1].n = n /\ 1 \in 1 .. Len(conn.todo)
      BY <1>4, <2>3 DEF IsTop, Current
    <3>2. conn.todo[1] \in [k : Kinds, n : Nat]
      BY <1>4, <3>1 DEF Items
    <3>3. conn.todo[1] = Item("assign", n)
      BY <3>1, <3>2 DEF Item
    <3> QED
      BY <3>1, <3>3
  <2> QED
    BY <1>4, <2>2, <2>3
<1>7. conn.res[n].answered <=> n <= Done(conn)
  BY <1>1, <1>3 DEF Queues
<1> DEFINE has == conn.httpMessage = n
           queued == Contains(conn.outgoing, n)
           next == \E i \in DOMAIN conn.todo : conn.todo[i] = Item("assign", n)
           had == conn.res[n].answered
           places == {p \in {"has", "queued", "next", "had"} :
                        CASE p = "has" -> has
                          [] p = "queued" -> queued
                          [] p = "next" -> next
                          [] p = "had" -> had}
<1>8. \/ has /\ ~queued /\ ~next /\ ~had
      \/ ~has /\ queued /\ ~next /\ ~had
      \/ ~has /\ ~queued /\ next /\ ~had
      \/ ~has /\ ~queued /\ ~next /\ had
  <2>1. CASE n > Out(conn)
    <3>1. queued /\ ~had
      BY <1>2, <1>3, <1>5, <1>7, <2>1
    <3>2. Current(conn) # n
      BY <1>2, <1>3, <2>1
    <3>3. ~next /\ ~has
      BY <1>2, <1>3, <1>6, <3>2
    <3> QED
      BY <3>1, <3>3
  <2>2. CASE n <= Done(conn)
    <3>1. ~queued /\ had
      BY <1>2, <1>3, <1>5, <1>7, <2>2
    <3>2. Current(conn) # n
      BY <1>2, <1>3, <2>2
    <3>3. ~next /\ ~has
      BY <1>2, <1>3, <1>6, <3>2
    <3> QED
      BY <3>1, <3>3
  <2>3. CASE n > Done(conn) /\ n <= Out(conn)
    <3>1. ~queued /\ ~had
      BY <1>2, <1>3, <1>5, <1>7, <2>3
    <3>2. Current(conn) = n
      BY <1>2, <1>3, <2>3
    <3>3. CASE IsTop(conn, "assign")
      <4>1. conn.httpMessage = 0
        BY <1>2, <3>3
      <4> QED
        BY <1>3, <1>6, <3>1, <3>2, <3>3, <4>1
    <3>4. CASE ~IsTop(conn, "assign")
      <4>1. has
        BY <3>2, <3>4 DEF Current
      <4> QED
        BY <1>6, <3>1, <3>4, <4>1
    <3> QED
      BY <3>3, <3>4
  <2> QED
    BY <1>2, <1>3, <2>1, <2>2, <2>3
<1> HIDE DEF has, queued, next, had
<1>9. \E p : places = {p}
  <2>1. CASE has /\ ~queued /\ ~next /\ ~had
    <3>1. places = {"has"}
      BY <2>1
    <3> QED
      BY <3>1
  <2>2. CASE ~has /\ queued /\ ~next /\ ~had
    <3>1. places = {"queued"}
      BY <2>2
    <3> QED
      BY <3>1
  <2>3. CASE ~has /\ ~queued /\ next /\ ~had
    <3>1. places = {"next"}
      BY <2>3
    <3> QED
      BY <3>1
  <2>4. CASE ~has /\ ~queued /\ ~next /\ had
    <3>1. places = {"had"}
      BY <2>4
    <3> QED
      BY <3>1
  <2> QED
    BY <1>8, <2>1, <2>2, <2>3, <2>4
<1>10. Cardinality(places) = 1
  <2> HIDE DEF places
  <2>1. PICK p : places = {p}
    BY <1>9
  <2> QED
    BY <2>1, FS_Singleton
<1> QED
  BY <1>10 DEF has, queued, next, had

\* The numbers and the queues have their types.
LEMMA TypeFollows ==
  ASSUME Inv
  PROVE  TypeOK
<1>1. Good(conn) /\ conn \in Connections /\ Queues(conn) /\ Flags(conn)
  BY DEF Inv, Good
<1>2. /\ Out(conn) \in Nat /\ Out(conn) <= conn.count /\ Heard(conn) \in Nat /\ conn.count \in Nat
      /\ conn.count <= MaxInput /\ MaxInput \in Nat
      /\ Len(conn.outgoing) \in Nat /\ Len(conn.incoming) \in Nat
      /\ Len(conn.outgoing) = conn.count - Out(conn) /\ Len(conn.incoming) = conn.count - Heard(conn)
      /\ Current(conn) # 0 => Current(conn) = Out(conn)
      /\ conn.httpMessage # 0 => Current(conn) = conn.httpMessage
  BY <1>1, Numbers
<1>3. conn.count \in 0 .. MaxInput /\ conn.httpMessage \in 0 .. conn.count
  BY <1>2
<1>4. ToSet(conn.incoming) \subseteq Known
  BY IncomingFollows
<1>5. ToSet(conn.outgoing) \subseteq Known
  <2>1. conn.outgoing \in Seq(Requests)
    BY <1>1 DEF Connections
  <2>2. ToSet(conn.outgoing) = {conn.outgoing[i] : i \in 1 .. Len(conn.outgoing)}
    BY <2>1 DEF ToSet
  <2>3. ASSUME NEW i \in 1 .. Len(conn.outgoing) PROVE conn.outgoing[i] \in Known
    <3>1. conn.outgoing[i] = Out(conn) + i
      BY <1>1 DEF Queues
    <3> QED
      BY <1>2, <3>1 DEF Known
  <2> QED
    BY <2>2, <2>3
<1>6. conn.held \in Nat /\ (conn.destroyed => ~conn.writable /\ ~conn.readable)
  BY <1>1 DEF Connections, Flags
<1>7. \A n \in Requests : conn.req[n].aborted \in {0, 1}
  <2>1. \A n \in Requests : conn.req[n] \in RequestStates
    BY <1>1 DEF Connections
  <2> QED
    BY <2>1 DEF RequestStates
<1>8. \A n \in Requests : conn.res[n].header \in {"none", "chunked", "length"}
  <2>1. \A n \in Requests : conn.res[n] \in Responses
    BY <1>1 DEF Connections
  <2> QED
    BY <2>1 DEF Responses
<1> QED
  BY <1>3, <1>4, <1>5, <1>6, <1>7, <1>8 DEF TypeOK

\* The invariant holds of every behaviour with a client and a user that are not
\* careless.
THEOREM InvHolds ==
  ASSUME Careless = FALSE
  PROVE  Spec => []Inv
<1>1. Init => Inv
  BY InitKeeps
<1>2. Inv /\ [Next]_vars => Inv'
  BY NextKeeps
<1> QED
  BY <1>1, <1>2, PTL DEF Spec

\* The numbers, the queues and the flags of a connection have their types.
THEOREM TypeCorrect ==
  ASSUME Careless = FALSE
  PROVE  Spec => []TypeOK
<1>1. Inv => TypeOK
  BY TypeFollows
<1> QED
  BY <1>1, InvHolds, PTL

\* Responses go over the wire whole, in the order of their requests, and as their
\* users wrote them.
THEOREM OrderKept ==
  ASSUME Careless = FALSE
  PROVE  Spec => []InOrder
<1>1. Inv => InOrder
  BY DEF Inv, Good, Wires, Ordered, InOrder, Given
<1> QED
  BY <1>1, InvHolds, PTL

\* The handlers' asserts hold, every request is listed until it is answered or
\* aborted, and every response is in exactly one place.
THEOREM AccountedHolds ==
  ASSUME Careless = FALSE
  PROVE  Spec => []Accounted
<1>1. Inv => Accounted
  BY AssertsFollow, IncomingFollows, PlaceFollows DEF Accounted
<1> QED
  BY <1>1, InvHolds, PTL

-----------------------------------------------------------------------------
(* That the connection goes on, and ends. *)

\* A socket that is not writable is destroyed, or ends and will be when it has written
\* what it holds; a last response that is answered ends it, and so does the last
\* response in line when the client has ended.
Ended(m) ==
  /\ m.writable \/ m.destroyed \/ m.ending
  /\ m.ending /\ ~m.destroyed => ~m.writable /\ m.held > 0 /\ (m.soon \/ m.eof)
  /\ m.finished => m.destroyed
  /\ Has(m, "endSocket") => m.eof
  /\ \A n \in Requests : m.res[n].last /\ m.res[n].answered => ~m.writable
  /\ m.eof /\ m.writable => Has(m, "endSocket") \/ (m.count # 0 /\ m.res[m.count].last)

\* The socket is given to the first response in line, which has nothing left to write
\* and, when it is finished, gives the socket up.
Sent(m) ==
  m.writable =>
    /\ m.outgoing # <<>> => m.httpMessage # 0 \/ IsTop(m, "assign")
    /\ m.httpMessage # 0 =>
         /\ m.res[m.httpMessage].output = <<>>
         /\ m.res[m.httpMessage].finished => IsTop(m, "prefinish")

\* A user who waits for 'drain' gets it when the socket drains or when the response,
\* which has something to write, gets the socket.
WaitsRightly(n, m) ==
  m.res[n].waits /\ ~m.res[n].finished =>
    IF n = m.httpMessage THEN m.needDrain ELSE m.res[n].output # <<>>
Waiting(m) == m.writable => \A n \in Requests : WaitsRightly(n, m)

\* A request that is read or thrown away keeps nothing of its body after the next tick;
\* one that is answered is read or thrown away.
Ticking(n, m) == \E i \in 1 .. Len(m.ticks) : m.ticks[i] = n
Taking(n, m) == m.req[n].consuming \/ m.req[n].dumped
Emptied(m) ==
  \A n \in Requests :
    /\ Taking(n, m) /\ m.req[n].kept # "none" => Ticking(n, m)
    /\ m.res[n].answered => Taking(n, m)

\* What stops the socket: a drain to come, or a request that keeps too much.
Fed(m) ==
  /\ m.readable => m.flowing \/ m.paused \/ (m.reading /\ m.req[m.count].kept = "full")
  /\ m.readable /\ m.paused => m.needDrain \/ Has(m, "drained")
  /\ Emptied(m)

Live(m) == Ended(m) /\ Sent(m) /\ Waiting(m) /\ Fed(m)

\* Nothing of this changes but the stack.
Unmoved(m, k) ==
  /\ k.outgoing = m.outgoing /\ k.httpMessage = m.httpMessage /\ k.count = m.count
  /\ k.reading = m.reading /\ k.paused = m.paused /\ k.flowing = m.flowing
  /\ k.readable = m.readable /\ k.writable = m.writable /\ k.ending = m.ending
  /\ k.finished = m.finished /\ k.soon = m.soon /\ k.eof = m.eof
  /\ k.destroyed = m.destroyed /\ k.held = m.held /\ k.needDrain = m.needDrain
  /\ k.ticks = m.ticks
  /\ \A n \in Requests :
       /\ k.res[n].last = m.res[n].last /\ k.res[n].answered = m.res[n].answered
       /\ k.res[n].finished = m.res[n].finished /\ k.res[n].output = m.res[n].output
       /\ k.res[n].waits = m.res[n].waits
       /\ k.req[n].consuming = m.req[n].consuming /\ k.req[n].dumped = m.req[n].dumped
       /\ k.req[n].kept = m.req[n].kept

\* A change of the stack that no invariant here is about.
LEMMA UnmovedLives ==
  ASSUME NEW m \in Connections, NEW k, Live(m), Unmoved(m, k),
         m.reading => m.count # 0,
         Has(k, "endSocket") <=> Has(m, "endSocket"), Has(m, "drained") => Has(k, "drained"),
         IsTop(m, "assign") => IsTop(k, "assign"),
         IsTop(m, "prefinish") => IsTop(k, "prefinish")
  PROVE  Live(k)
<1>1. m.httpMessage \in {0} \cup Requests /\ m.count \in {0} \cup Requests
  BY DEF Connections
<1>2. Ended(k)
  BY <1>1 DEF Live, Ended, Unmoved
<1>3. Sent(k)
  BY <1>1 DEF Live, Sent, Unmoved
<1>4. Waiting(k)
  BY DEF Live, Waiting, WaitsRightly, Unmoved
<1>5. Emptied(k)
  BY DEF Live, Fed, Emptied, Taking, Ticking, Unmoved
<1>6. Fed(k)
  BY <1>1, <1>5 DEF Live, Fed, Unmoved
<1> QED
  BY <1>2, <1>3, <1>4, <1>6 DEF Live

\* An item that no invariant here is about is popped.
LEMMA PopsLives ==
  ASSUME NEW m \in Connections, NEW k \in Connections, Live(m), Stack(m), Unmoved(m, k),
         m.reading => m.count # 0, m.todo # <<>>, k.todo = Tail(m.todo),
         m.todo[1].k \notin {"assign", "prefinish", "endSocket", "drained"}
  PROVE  Live(k)
<1>1. \A x : Has(m, x) <=> m.todo[1].k = x \/ Has(k, x)
  BY Pops
<1>2. ~IsTop(m, "assign") /\ ~IsTop(m, "prefinish")
  BY DEF IsTop
<1>3. (Has(k, "endSocket") <=> Has(m, "endSocket")) /\ (Has(m, "drained") => Has(k, "drained"))
  BY <1>1
<1> QED
  BY <1>2, <1>3, UnmovedLives

\* Items are pushed that no invariant here is about.
LEMMA PushesLives ==
  ASSUME NEW m \in Connections, NEW k \in Connections, Live(m), Unmoved(m, k),
         m.reading => m.count # 0, NEW items \in Seq(Items), k.todo = items \o m.todo,
         ~IsTop(m, "assign"), ~IsTop(m, "prefinish"),
         \A i \in 1 .. Len(items) : items[i].k # "endSocket"
  PROVE  Live(k)
<1>1. \A x : Has(k, x) <=> (\E i \in 1 .. Len(items) : items[i].k = x) \/ Has(m, x)
  BY Pushes
<1>2. (Has(k, "endSocket") <=> Has(m, "endSocket")) /\ (Has(m, "drained") => Has(k, "drained"))
  BY <1>1
<1> QED
  BY <1>2, UnmovedLives

\* A socket that is not writable any more.
LEMMA OverLives ==
  ASSUME NEW k, ~k.writable, k.destroyed \/ (k.ending /\ k.held > 0 /\ (k.soon \/ k.eof)),
         k.finished => k.destroyed, Has(k, "endSocket") => k.eof, Fed(k)
  PROVE  Live(k)
<1> QED
  BY DEF Live, Ended, Sent, Waiting

\* A socket that is destroyed.
LEMMA DestroyLives ==
  ASSUME NEW m \in Connections, Has(m, "endSocket") => m.eof, Emptied(m)
  PROVE  Live(Destroy(m))
<1> DEFINE k == Destroy(m)
<1>1. /\ k.destroyed /\ ~k.writable /\ ~k.readable /\ k.todo = m.todo /\ k.eof = m.eof
      /\ k.req = m.req /\ k.res = m.res /\ k.ticks = m.ticks
  BY DEF Connections, Destroy
<1> HIDE DEF k
<1>2. Has(k, "endSocket") => k.eof
  BY <1>1 DEF Has
<1>3. Emptied(k)
  BY <1>1 DEF Emptied, Taking, Ticking
<1>4. Fed(k)
  BY <1>1, <1>3 DEF Fed
<1>5. Live(k)
  BY <1>1, <1>2, <1>4, OverLives
<1> QED
  BY <1>5 DEF k

\* Responses write.
LEMMA WroteStays ==
  ASSUME NEW m \in Connections, NEW k \in Connections, Ended(m), Fed(m), Alike(m, k),
         Beside(m, k), NEW n \in Requests, ~m.res[n].answered,
         \A i \in Requests : i # n => k.res[i] = m.res[i],
         m.reading => m.count # 0,
         Has(k, "endSocket") <=> Has(m, "endSocket"), Has(m, "drained") => Has(k, "drained")
  PROVE  Ended(k) /\ Fed(k)
<1>1. m.count \in {0} \cup Requests /\ m.held \in Nat /\ k.held \in Nat
  BY DEF Connections
<1>2. \A i \in Requests : k.res[i].last /\ k.res[i].answered => m.res[i].last /\ m.res[i].answered
  BY DEF Alike
<1>3. Ended(k)
  BY <1>1, <1>2 DEF Ended, Alike, Beside
<1>4. Emptied(k)
  BY DEF Fed, Emptied, Taking, Ticking, Alike, Beside
<1>5. Fed(k)
  BY <1>4 DEF Fed, Alike, Beside
<1> QED
  BY <1>3, <1>5

-----------------------------------------------------------------------------
(* The user's calls. *)

\* Pieces after others.
LEMMA SomePieces ==
  ASSUME NEW a \in Seq(Pieces), NEW b \in Seq(Pieces), a # <<>> \/ b # <<>>
  PROVE  a \o b # <<>>
<1>1. Len(a) \in Nat /\ Len(b) \in Nat /\ (Len(a) # 0 \/ Len(b) # 0)
  OBVIOUS
<1>2. a \o b \in Seq(Pieces) /\ Len(a \o b) = Len(a) + Len(b)
  BY ConcatProperties
<1> DEFINE s == a \o b
<1> HIDE DEF s
<1>3. s \in Seq(Pieces) /\ Len(s) # 0
  BY <1>1, <1>2 DEF s
<1>4. s # <<>>
  BY <1>3
<1> QED
  BY <1>4 DEF s

\* A response that is not finished writes, or will.
LEMMA WrittenLives ==
  ASSUME NEW m \in Connections, NEW k \in Connections, Live(m), Alike(m, k), Beside(m, k),
         NEW n \in Requests, ~m.res[n].answered, ~m.res[n].finished, FinishedAlike(n, m, k),
         \A i \in Requests : i # n => k.res[i] = m.res[i],
         m.reading => m.count # 0, k.todo = m.todo,
         Told(n, k), m.httpMessage # n => k.res[n].output # <<>>
  PROVE  Live(k)
<1>1. /\ \A x : Has(k, x) <=> Has(m, x)
      /\ \A x : IsTop(k, x) <=> IsTop(m, x)
  BY DEF Has, IsTop
<1>2. Ended(k) /\ Fed(k)
  BY <1>1, WroteStays DEF Live
<1>3. m.httpMessage \in {0} \cup Requests
  BY DEF Connections
<1>4. Sent(k)
  BY <1>1, <1>3 DEF Live, Sent, Alike, Told, FinishedAlike
<1>5. Waiting(k)
  BY DEF Live, Waiting, WaitsRightly, Alike, Beside, Told
<1> QED
  BY <1>2, <1>4, <1>5 DEF Live

\* What a response is given by _send.
LEMMA SendsSome ==
  ASSUME NEW n \in Requests, NEW pieces \in Seq(Pieces), NEW m, pieces # <<>>
  PROVE  SentData(n, pieces, m) \in Seq(Pieces) /\ SentData(n, pieces, m) # <<>>
<1> DEFINE head == <<Piece(n, "head")>>
<1>1. head \in Seq(Pieces)
  BY OnePiece DEF Parts
<1>2. SentData(n, pieces, m) = pieces \/ SentData(n, pieces, m) = head \o pieces
  BY DEF SentData
<1> HIDE DEF head
<1>3. head \o pieces \in Seq(Pieces) /\ head \o pieces # <<>>
  BY <1>1, SomePieces
<1> QED
  BY <1>2, <1>3

\* A response that is not finished is not answered.
LEMMA OpenIsUnanswered ==
  ASSUME NEW m, Good(m), NEW n \in Requests, ~m.res[n].finished
  PROVE  ~m.res[n].answered
<1> QED
  BY DEF Good, Wires

\* write(), if the user is not careless.
LEMMA WriteLives ==
  ASSUME Careless = FALSE, Inv, Live(conn), NEW n \in Known, Write(n)
  PROVE  Live(conn')
<1>1. Call /\ ~conn.res[n].finished
  BY DEF Write
<1>2. PICK h \in WithHeader(n, conn) :
        LET asBuffer == h.res[n].header = "length" /\ h.res[n].output = <<>>
        IN conn' = Send(n, <<Piece(n, "body")>>, asBuffer, h)
  BY DEF Write
<1> DEFINE m == conn
           asBuffer == h.res[n].header = "length" /\ h.res[n].output = <<>>
           pieces == <<Piece(n, "body")>>
           k == Send(n, pieces, asBuffer, h)
           data == SentData(n, pieces, h)
<1>3. asBuffer \in BOOLEAN /\ (asBuffer => h.res[n].output = <<>>) /\ conn' = k
  BY <1>2
<1>4. Good(m) /\ n \in Requests /\ m \in Connections /\ (m.reading => m.count # 0)
  BY <1>1, CallIsAtUser, KnownIsRequest DEF Inv, Good
<1>5. ~m.res[n].answered /\ ~m.res[n].finished /\ Live(m)
  BY <1>1, <1>4, OpenIsUnanswered
<1> HIDE DEF m, asBuffer
<1>6. h \in WithHeader(n, m)
  BY DEF m
<1>7. /\ h \in Connections /\ Alike(m, h) /\ OnlyOutput(n, m, h) /\ h.todo = m.todo /\ Beside(m, h)
      /\ h.res[n].output = m.res[n].output
  BY <1>4, <1>6, WithHeaderAlike
<1>8. pieces \in Seq(Pieces) /\ pieces # <<>>
  BY <1>4, OnePiece DEF Parts
<1> HIDE DEF pieces
<1>9. /\ k \in Connections /\ Alike(h, k) /\ k.todo = h.todo /\ Gave(n, data, h, k)
      /\ FinishedAlike(n, h, k) /\ Beside(h, k) /\ Told(n, k)
  BY <1>3, <1>4, <1>7, <1>8, SendGives
<1>10. data \in Seq(Pieces) /\ data # <<>> /\ h.res[n].output \in Seq(Pieces)
  BY <1>4, <1>7, <1>8, SendsSome DEF Connections, Responses
<1> HIDE DEF data, k
<1>11. Alike(m, k) /\ Beside(m, k) /\ FinishedAlike(n, m, k) /\ k.todo = m.todo
  BY <1>4, <1>7, <1>9, AlikeTwice, BesideTwice DEF OnlyOutput, FinishedAlike
<1>12. \A i \in Requests : i # n => k.res[i] = m.res[i]
  BY <1>7, <1>9 DEF OnlyOutput, Gave
<1>13. m.httpMessage # n => k.res[n].output # <<>>
  BY <1>7, <1>9, <1>10, SomePieces DEF Gave, Alike
<1>14. Live(k)
  BY <1>4, <1>5, <1>9, <1>11, <1>12, <1>13, WrittenLives
<1> QED
  BY <1>3, <1>14

\* end()
LEMMA EndLives ==
  ASSUME Inv, Live(conn), NEW n \in Known, End(n)
  PROVE  Live(conn')
<1>1. Call /\ ~conn.res[n].finished
  BY DEF End
<1>2. PICK h \in WithHeader(n, conn) : conn' = SendEnd(n, h)
  BY DEF End
<1> DEFINE m == conn
           k == SendEnd(n, h)
           items == <<Item("prefinish", n)>>
<1>4. Good(m) /\ AtUser(m) /\ n \in Requests /\ m \in Connections /\ (m.reading => m.count # 0)
  BY <1>1, CallIsAtUser, KnownIsRequest DEF Inv, Good
<1>5. ~m.res[n].answered /\ ~m.res[n].finished /\ Live(m) /\ h \in WithHeader(n, m) /\ conn' = k
  BY <1>1, <1>2, <1>4, OpenIsUnanswered
<1> HIDE DEF m
<1>7. /\ h \in Connections /\ Alike(m, h) /\ OnlyOutput(n, m, h) /\ h.todo = m.todo /\ Beside(m, h)
      /\ h.res[n].output = m.res[n].output
  BY <1>4, <1>5, WithHeaderAlike
<1>8. /\ k \in Connections /\ Alike(h, k) /\ k.res[n].finished /\ Beside(h, k)
      /\ \E data \in Seq(Pieces) :
           Gave(n, data, h, k) /\ \A i \in 1 .. Len(data) : data[i].of = n
      /\ k.todo = h.todo \/ k.todo = items \o h.todo
      /\ h.httpMessage = n /\ h.writable /\ h.res[n].output = <<>> =>
           k.res[n].output = <<>> /\ k.todo = items \o h.todo
  BY <1>4, <1>7, SendEndGives
<1>9. items \in Seq(Items) /\ Len(items) = 1 /\ items[1].k = "prefinish" /\ items # <<>>
  <2>1. Item("prefinish", n) \in Items /\ Item("prefinish", n).k = "prefinish"
    BY <1>4, ItemType, CountIsNat DEF Kinds
  <2> QED
    BY <2>1
<1> HIDE DEF k, items
<1>10. Alike(m, k) /\ Beside(m, k)
  BY <1>4, <1>7, <1>8, AlikeTwice, BesideTwice
<1>11. \A i \in Requests : i # n => k.res[i] = m.res[i]
  BY <1>7, <1>8 DEF OnlyOutput, Gave
<1>12. k.todo = m.todo \/ k.todo = items \o m.todo
  BY <1>7, <1>8
<1>13. /\ \A x : x # "prefinish" => (Has(k, x) <=> Has(m, x))
       /\ ~IsTop(m, "assign") /\ ~IsTop(m, "prefinish")
  <2>1. ASSUME k.todo = m.todo, NEW x PROVE Has(k, x) <=> Has(m, x)
    BY <2>1 DEF Has
  <2>2. ASSUME k.todo = items \o m.todo, NEW x, x # "prefinish" PROVE Has(k, x) <=> Has(m, x)
    <3>1. \A y : Has(k, y) <=> (\E i \in 1 .. Len(items) : items[i].k = y) \/ Has(m, y)
      BY <1>4, <1>8, <1>9, <2>2, Pushes
    <3>2. \A i \in 1 .. Len(items) : items[i].k # x
      BY <1>9, <2>2
    <3> QED
      BY <3>1, <3>2
  <2> QED
    BY <1>4, <1>12, <2>1, <2>2, NotOnTop
<1>14. Ended(k) /\ Fed(k)
  BY <1>4, <1>5, <1>8, <1>10, <1>11, <1>13, WroteStays DEF Live
<1>15. k.httpMessage = n /\ k.writable => k.res[n].output = <<>> /\ IsTop(k, "prefinish")
  <2> SUFFICES ASSUME k.httpMessage = n, k.writable
               PROVE  k.res[n].output = <<>> /\ IsTop(k, "prefinish")
    OBVIOUS
  <2>1. m.httpMessage = n /\ m.writable /\ h.httpMessage = n /\ h.writable
    BY <1>7, <1>8, <1>10 DEF Alike
  <2>2. n # 0
    BY <1>4, CountIsNat
  <2>3. m.res[n].output = <<>>
    BY <1>5, <2>1, <2>2 DEF Live, Sent
  <2>4. k.res[n].output = <<>> /\ k.todo = items \o m.todo
    BY <1>7, <1>8, <2>1, <2>3
  <2>6. k.todo # <<>> /\ k.todo[1] = items[1]
    BY <1>4, <1>8, <1>9, <2>4, Pushes
  <2> QED
    BY <1>9, <2>4, <2>6 DEF IsTop
<1>16. Sent(k)
  <2>1. m.httpMessage \in {0} \cup Requests
    BY <1>4 DEF Connections
  <2> QED
    BY <1>5, <1>10, <1>11, <1>13, <1>15, <2>1 DEF Live, Sent, Alike
<1>17. Waiting(k)
  BY <1>5, <1>8, <1>10, <1>11 DEF Live, Waiting, WaitsRightly, Alike, Beside
<1> QED
  BY <1>5, <1>14, <1>16, <1>17 DEF Live

\* destroy() of a response.
LEMMA DestroyResponseLives ==
  ASSUME Inv, Live(conn), NEW n \in Known, DestroyResponse(n)
  PROVE  Live(conn')
<1> DEFINE m == conn
           r == [m.res[n] EXCEPT !.destroys = TRUE]
           k == [m EXCEPT !.res[n] = r]
<1>1. Call
  BY DEF DestroyResponse
<1>2. n \in Requests /\ m \in Connections /\ (m.reading => m.count # 0) /\ Live(m)
  BY <1>1, CallIsAtUser, KnownIsRequest DEF Inv, Good
<1>3. conn' = Destroy(m) \/ conn' = k
  BY DEF DestroyResponse
<1>4. /\ r.last = m.res[n].last /\ r.answered = m.res[n].answered
      /\ r.finished = m.res[n].finished /\ r.output = m.res[n].output
      /\ r.waits = m.res[n].waits /\ r.given = m.res[n].given /\ r \in Responses
  <2>1. m.res[n] \in Responses
    BY <1>2 DEF Connections
  <2> QED
    BY <2>1 DEF Responses
<1> HIDE DEF m, r
<1>5. /\ k \in Connections /\ Alike(m, k) /\ k.todo = m.todo
      /\ k.res[n] = r /\ \A i \in Requests : i # n => k.res[i] = m.res[i]
  BY <1>2, <1>4, SetResponse
<1>6. /\ k.ending = m.ending /\ k.finished = m.finished /\ k.soon = m.soon /\ k.held = m.held
      /\ k.needDrain = m.needDrain /\ k.ticks = m.ticks /\ k.req = m.req
  BY <1>2 DEF Connections
<1> HIDE DEF k
<1>7. Unmoved(m, k)
  BY <1>4, <1>5, <1>6 DEF Unmoved, Alike
<1>8. Live(k)
  <2>1. /\ \A x : Has(k, x) <=> Has(m, x)
        /\ \A x : IsTop(k, x) <=> IsTop(m, x)
    BY <1>5 DEF Has, IsTop
  <2> QED
    BY <1>2, <1>7, <2>1, UnmovedLives
<1>9. Live(Destroy(m))
  BY <1>2, DestroyLives DEF Live, Ended, Fed
<1> QED
  BY <1>3, <1>8, <1>9

\* resume() of a request.
LEMMA ConsumeLives ==
  ASSUME Inv, Live(conn), NEW n \in Known, Consume(n)
  PROVE  Live(conn')
<1> DEFINE m == conn
           q == [m.req[n] EXCEPT !.consuming = TRUE]
           ticks == Append(m.ticks, n)
           k == [m EXCEPT !.req = [m.req EXCEPT ![n] = q], !.ticks = ticks]
<1>1. Call
  BY DEF Consume
<1>2. n \in Requests /\ m \in Connections /\ (m.reading => m.count # 0) /\ Live(m)
  BY <1>1, CallIsAtUser, KnownIsRequest DEF Inv, Good
<1>3. conn' = k
  BY DEF Consume
<1>4. m.req \in [Requests -> RequestStates] /\ m.req[n] \in RequestStates
      /\ m.ticks \in Seq(Requests)
  BY <1>2 DEF Connections
<1>5. q.kept = m.req[n].kept /\ q.consuming
  BY <1>4 DEF RequestStates
<1> HIDE DEF m
<1>6. \A i \in Requests : Ticking(i, m) \/ i = n => Ticking(i, k)
  <2>1. k.ticks = ticks
    BY <1>2 DEF Connections
  <2>2. /\ Len(ticks) = Len(m.ticks) + 1 /\ Len(m.ticks) \in Nat
        /\ \A i \in 1 .. Len(m.ticks) : ticks[i] = m.ticks[i]
        /\ ticks[Len(m.ticks) + 1] = n
    BY <1>2, <1>4
  <2> HIDE DEF ticks, k
  <2>3. \A i \in 1 .. Len(m.ticks) : i \in 1 .. Len(ticks)
    BY <2>2
  <2>4. Len(m.ticks) + 1 \in 1 .. Len(ticks)
    BY <2>2
  <2> QED
    BY <2>1, <2>2, <2>3, <2>4 DEF Ticking
<1> HIDE DEF ticks, q
<1>7. /\ k.req = [m.req EXCEPT ![n] = q]
      /\ k.outgoing = m.outgoing /\ k.httpMessage = m.httpMessage /\ k.count = m.count
      /\ k.reading = m.reading /\ k.paused = m.paused /\ k.flowing = m.flowing
      /\ k.readable = m.readable /\ k.writable = m.writable /\ k.ending = m.ending
      /\ k.finished = m.finished /\ k.soon = m.soon /\ k.eof = m.eof
      /\ k.destroyed = m.destroyed /\ k.held = m.held /\ k.needDrain = m.needDrain
      /\ k.res = m.res /\ k.todo = m.todo
  BY <1>2 DEF Connections
<1> HIDE DEF k
<1>8. k.req[n] = q /\ \A i \in Requests : i # n => k.req[i] = m.req[i]
  BY <1>2, <1>4, <1>7
<1>9. /\ \A x : Has(k, x) <=> Has(m, x)
      /\ \A x : IsTop(k, x) <=> IsTop(m, x)
  BY <1>7 DEF Has, IsTop
<1>10. Emptied(k)
  BY <1>2, <1>5, <1>6, <1>7, <1>8 DEF Live, Fed, Emptied, Taking
<1>11. Fed(k)
  <2>1. m.count \in {0} \cup Requests
    BY <1>2 DEF Connections
  <2>2. \A i \in Requests : k.req[i].kept = m.req[i].kept
    BY <1>5, <1>8
  <2> QED
    BY <1>2, <1>7, <1>9, <1>10, <2>1, <2>2 DEF Live, Fed
<1>12. Ended(k) /\ Sent(k) /\ Waiting(k)
  BY <1>2, <1>7, <1>9 DEF Live, Ended, Sent, Waiting, WaitsRightly
<1> QED
  BY <1>3, <1>11, <1>12 DEF Live

-----------------------------------------------------------------------------
(* The parser and the stream. *)

\* Only what the reading of the socket is about changes.
Reads(m, k) ==
  /\ k.outgoing = m.outgoing /\ k.httpMessage = m.httpMessage /\ k.count = m.count
  /\ k.writable = m.writable /\ k.ending = m.ending /\ k.finished = m.finished
  /\ k.soon = m.soon /\ k.eof = m.eof /\ k.destroyed = m.destroyed /\ k.held = m.held
  /\ k.needDrain = m.needDrain /\ k.res = m.res

\* The socket still lives, if it is fed.
LEMMA ReadsLives ==
  ASSUME NEW m, NEW k, Live(m), Reads(m, k), Fed(k),
         Has(k, "endSocket") <=> Has(m, "endSocket"),
         IsTop(m, "assign") => IsTop(k, "assign"),
         IsTop(m, "prefinish") => IsTop(k, "prefinish")
  PROVE  Live(k)
<1>1. Ended(k) /\ Sent(k)
  BY DEF Live, Ended, Sent, Reads
<1>2. Waiting(k)
  BY DEF Live, Waiting, WaitsRightly, Reads
<1> QED
  BY <1>1, <1>2 DEF Live

\* parserOnBody
LEMMA ParserOnBodyLives ==
  ASSUME Inv, Live(conn), ParserOnBody
  PROVE  Live(conn')
<1> DEFINE m == conn
           n == m.count
           stop(kept) == LET l == [m EXCEPT !.req[n].kept = kept]
                         IN IF kept = "full" THEN ReadStop(l) ELSE l
<1>1. m \in Connections /\ m.reading /\ n \in Requests /\ Live(m)
  <2>1. m \in Connections /\ m.reading /\ n # 0
    BY DEF Inv, Good, ParserOnBody
  <2> QED
    BY <2>1 DEF Connections
<1>2. CASE conn' = conn
  BY <1>1, <1>2
<1>3. CASE conn' # conn
  <2>1. /\ ~m.req[n].dumped /\ ~(m.req[n].consuming /\ m.req[n].kept = "none")
        /\ \E kept \in {"some", "full"} :
             (m.req[n].kept = "full" => kept = "full") /\ conn' = stop(kept)
    BY <1>3 DEF ParserOnBody
  <2>2. PICK kept \in {"some", "full"} :
          (m.req[n].kept = "full" => kept = "full") /\ conn' = stop(kept)
    BY <2>1
  <2> DEFINE q == [m.req[n] EXCEPT !.kept = kept]
             req == [m.req EXCEPT ![n] = q]
             flowing == m.flowing /\ kept # "full"
             k == [m EXCEPT !.req = req, !.flowing = flowing]
  <2>3. m.req \in [Requests -> RequestStates] /\ m.req[n] \in RequestStates /\ m.flowing \in BOOLEAN
    BY <1>1 DEF Connections
  <2>4. q.kept = kept /\ q.consuming = m.req[n].consuming /\ q.dumped = m.req[n].dumped
    BY <2>3 DEF RequestStates
  <2>5. req[n] = q /\ \A i \in Requests : i # n => req[i] = m.req[i]
    BY <1>1, <2>3
  <2>6. conn' = k
    <3>1. stop(kept) = IF kept = "full" THEN [[m EXCEPT !.req = req] EXCEPT !.flowing = FALSE]
                       ELSE [m EXCEPT !.req = req]
      BY DEF ReadStop
    <3> HIDE DEF m, req, stop
    <3>2. kept = "full" => stop(kept) = [m EXCEPT !.req = req, !.flowing = FALSE]
      BY <1>1, <3>1 DEF Connections
    <3>3. kept # "full" => stop(kept) = [m EXCEPT !.req = req, !.flowing = m.flowing]
      BY <1>1, <3>1 DEF Connections
    <3> QED
      BY <2>2, <2>3, <3>2, <3>3
  <2> HIDE DEF m, req, flowing, q
  <2>7. /\ k.req = req /\ k.flowing = flowing /\ Reads(m, k) /\ k.readable = m.readable
        /\ k.paused = m.paused /\ k.reading = m.reading /\ k.ticks = m.ticks /\ k.todo = m.todo
    BY <1>1 DEF Connections, Reads
  <2> HIDE DEF k
  <2>8. /\ \A x : Has(k, x) <=> Has(m, x)
        /\ \A x : IsTop(k, x) <=> IsTop(m, x)
    BY <2>7 DEF Has, IsTop
  <2>9. Emptied(k)
    BY <1>1, <2>1, <2>4, <2>5, <2>7 DEF Live, Fed, Emptied, Taking, Ticking, Reads
  <2>10. k.readable => k.flowing \/ k.paused \/ (k.reading /\ k.req[k.count].kept = "full")
    BY <1>1, <2>2, <2>4, <2>5, <2>7 DEF Live, Fed, Reads, flowing
  <2>11. Fed(k)
    BY <1>1, <2>7, <2>8, <2>9, <2>10 DEF Live, Fed, Reads
  <2> QED
    BY <1>1, <2>6, <2>7, <2>8, <2>11, ReadsLives
<1> QED
  BY <1>2, <1>3

\* parserOnMessageComplete
LEMMA ParserOnMessageCompleteLives ==
  ASSUME Inv, Live(conn), ParserOnMessageComplete
  PROVE  Live(conn')
<1> DEFINE m == conn
           todo == IF Running("complete") THEN Tail(m.todo) ELSE m.todo
           flowing == m.flowing \/ (~m.paused /\ m.readable)
           k == [m EXCEPT !.reading = FALSE, !.todo = todo, !.flowing = flowing]
<1>1. m \in Connections /\ Stack(m) /\ Live(m)
  BY DEF Inv, Good
<1>2. /\ m.todo \in Seq(Items) /\ m.flowing \in BOOLEAN /\ m.paused \in BOOLEAN
      /\ m.readable \in BOOLEAN /\ (Running("complete") <=> IsTop(m, "complete"))
      /\ Running("execute") \/ Running("complete")
  BY <1>1, StackWords DEF Connections, ParserOnMessageComplete
<1>3. conn' = k
  <2>1. conn' = ReadStart([(IF Running("complete") THEN [m EXCEPT !.todo = Tail(m.todo)] ELSE m)
                             EXCEPT !.reading = FALSE])
    BY DEF ParserOnMessageComplete, Popped
  <2>2. m = [m EXCEPT !.todo = m.todo]
    BY <1>1 DEF Connections
  <2>3. conn' = ReadStart([[m EXCEPT !.todo = todo] EXCEPT !.reading = FALSE])
    BY <2>1, <2>2
  <2> HIDE DEF m, todo
  <2>4. ASSUME m.paused \/ ~m.readable
        PROVE  conn' = [m EXCEPT !.reading = FALSE, !.todo = todo, !.flowing = m.flowing]
    BY <1>1, <2>3, <2>4 DEF ReadStart, Connections
  <2>5. ASSUME ~m.paused, m.readable
        PROVE  conn' = [m EXCEPT !.reading = FALSE, !.todo = todo, !.flowing = TRUE]
    BY <1>1, <2>3, <2>5 DEF ReadStart, Connections
  <2>6. /\ m.paused \/ ~m.readable => flowing = m.flowing
        /\ ~m.paused /\ m.readable => flowing = TRUE
    BY <1>2
  <2> HIDE DEF flowing
  <2> QED
    BY <1>2, <2>4, <2>5, <2>6
<1>4. todo = m.todo \/ (todo = Tail(m.todo) /\ m.todo # <<>> /\ m.todo[1].k = "complete")
  BY <1>2 DEF IsTop
<1> HIDE DEF m, todo
<1>5. todo \in Seq(Items)
  BY <1>2, <1>4
<1>6. flowing \in BOOLEAN /\ (m.readable => flowing \/ m.paused) 
  BY <1>2
<1> HIDE DEF flowing
<1>7. /\ k \in Connections /\ k.todo = todo /\ k.flowing = flowing /\ Reads(m, k)
      /\ k.readable = m.readable /\ k.paused = m.paused /\ k.ticks = m.ticks /\ k.req = m.req
  BY <1>1, <1>5, <1>6 DEF Connections, Reads
<1> HIDE DEF k
<1>8. /\ \A x : x # "complete" => (Has(k, x) <=> Has(m, x))
      /\ IsTop(m, "assign") => IsTop(k, "assign")
      /\ IsTop(m, "prefinish") => IsTop(k, "prefinish")
  <2>1. CASE todo = m.todo
    BY <1>7, <2>1 DEF Has, IsTop
  <2>2. CASE todo = Tail(m.todo) /\ m.todo # <<>> /\ m.todo[1].k = "complete"
    <3>1. \A x : Has(m, x) <=> m.todo[1].k = x \/ Has(k, x)
      BY <1>1, <1>7, <2>2, Pops
    <3> QED
      BY <2>2, <3>1 DEF IsTop
  <2> QED
    BY <1>4, <2>1, <2>2
<1>9. Emptied(k)
  BY <1>1, <1>7 DEF Live, Fed, Emptied, Taking, Ticking, Reads
<1>10. Fed(k)
  BY <1>1, <1>6, <1>7, <1>8, <1>9 DEF Live, Fed, Reads
<1> QED
  BY <1>1, <1>3, <1>7, <1>8, <1>10, ReadsLives

\* parser.execute returns.
LEMMA ExecuteReturnsLives ==
  ASSUME Inv, Live(conn), ExecuteReturns
  PROVE  Live(conn')
<1> DEFINE m == conn
           todo == Tail(m.todo)
           pauses == m.parserPaused \/ m.paused
           k == [m EXCEPT !.todo = todo, !.parserPaused = pauses]
<1>1. m \in Connections /\ Stack(m) /\ (m.reading => m.count # 0) /\ Live(m)
  BY DEF Inv, Good
<1>2. conn' = k /\ m.todo # <<>> /\ m.todo[1].k = "execute" /\ m.todo \in Seq(Items)
  BY <1>1, StackWords DEF ExecuteReturns, Popped, IsTop
<1> HIDE DEF m
<1>3. todo \in Seq(Items) /\ pauses \in BOOLEAN
  BY <1>2
<1> HIDE DEF pauses, todo
<1>4. k \in Connections /\ Unmoved(m, k) /\ k.todo = todo
  BY <1>1, <1>3 DEF Connections, Unmoved
<1> HIDE DEF k
<1>5. Live(k)
  BY <1>1, <1>2, <1>4, PopsLives DEF todo
<1> QED
  BY <1>2, <1>5

\* A handler returns.
LEMMA UserReturnsLives ==
  ASSUME Inv, Live(conn), UserReturns
  PROVE  Live(conn')
<1> DEFINE m == conn
           todo == Tail(m.todo)
           k == [m EXCEPT !.todo = todo]
<1>1. m \in Connections /\ Stack(m) /\ (m.reading => m.count # 0) /\ Live(m)
  BY DEF Inv, Good
<1>2. conn' = k /\ m.todo # <<>> /\ m.todo[1].k = "user" /\ m.todo \in Seq(Items)
  BY <1>1, StackWords DEF UserReturns, Popped, IsTop
<1> HIDE DEF m
<1>3. todo \in Seq(Items)
  BY <1>2
<1> HIDE DEF todo
<1>4. k \in Connections /\ Unmoved(m, k) /\ k.todo = todo
  BY <1>1, <1>3 DEF Connections, Unmoved
<1> HIDE DEF k
<1>5. Live(k)
  BY <1>1, <1>2, <1>4, PopsLives DEF todo
<1> QED
  BY <1>2, <1>5

\* socketOnDrain
LEMMA SocketOnDrainLives ==
  ASSUME Inv, Live(conn), SocketOnDrain
  PROVE  Live(conn')
<1> DEFINE m == conn
           todo == Tail(m.todo)
           parserPaused == m.parserPaused /\ ~m.paused
           flowing == m.flowing \/ m.paused
           k == [m EXCEPT !.todo = todo, !.paused = FALSE, !.parserPaused = parserPaused,
                          !.flowing = flowing]
<1>1. m \in Connections /\ Stack(m) /\ Live(m)
  BY DEF Inv, Good
<1>2. m.todo # <<>> /\ m.todo[1].k = "drained" /\ m.todo \in Seq(Items)
  BY <1>1, StackWords DEF SocketOnDrain, IsTop
<1>3. conn' = k
  <2>1. conn' = IF m.paused THEN Drained([m EXCEPT !.todo = todo]) ELSE [m EXCEPT !.todo = todo]
    BY DEF SocketOnDrain, Popped
  <2> HIDE DEF m, todo
  <2>2. m.paused \in BOOLEAN /\ m.flowing \in BOOLEAN /\ m.parserPaused \in BOOLEAN
    BY <1>1 DEF Connections
  <2>3. ASSUME m.paused
        PROVE  conn' = [m EXCEPT !.todo = todo, !.paused = FALSE, !.parserPaused = FALSE,
                                 !.flowing = TRUE]
    BY <1>1, <2>1, <2>3 DEF Drained, Connections
  <2>4. ASSUME ~m.paused
        PROVE  conn' = [m EXCEPT !.todo = todo, !.paused = m.paused,
                                 !.parserPaused = m.parserPaused, !.flowing = m.flowing]
    BY <1>1, <2>1, <2>4 DEF Connections
  <2>5. /\ m.paused => parserPaused = FALSE /\ flowing = TRUE
        /\ ~m.paused => parserPaused = m.parserPaused /\ flowing = m.flowing /\ m.paused = FALSE
    BY <2>2
  <2> HIDE DEF parserPaused, flowing
  <2> QED
    BY <2>2, <2>3, <2>4, <2>5
<1> HIDE DEF m
<1>4. todo \in Seq(Items) /\ parserPaused \in BOOLEAN /\ flowing \in BOOLEAN
      /\ (m.flowing \/ m.paused => flowing)
  BY <1>2
<1> HIDE DEF todo, parserPaused, flowing
<1>5. /\ k \in Connections /\ k.todo = todo /\ k.flowing = flowing /\ Reads(m, k)
      /\ k.readable = m.readable /\ ~k.paused /\ k.ticks = m.ticks /\ k.req = m.req
      /\ k.reading = m.reading
  BY <1>1, <1>4, ZenonT(60) DEF Connections, Reads
<1> HIDE DEF k
<1>6. \A x : Has(m, x) <=> m.todo[1].k = x \/ Has(k, x)
  BY <1>1, <1>2, <1>5, Pops DEF todo
<1>7. /\ Has(k, "endSocket") <=> Has(m, "endSocket")
      /\ ~IsTop(m, "assign") /\ ~IsTop(m, "prefinish")
  BY <1>2, <1>6 DEF IsTop
<1>8. Emptied(k)
  BY <1>1, <1>5 DEF Live, Fed, Emptied, Taking, Ticking, Reads
<1>9. Fed(k)
  BY <1>1, <1>4, <1>5, <1>8 DEF Live, Fed, Reads
<1> QED
  BY <1>1, <1>3, <1>5, <1>7, <1>9, ReadsLives

\* The tick of a request that is read.
LEMMA ResumeReqLives ==
  ASSUME Inv, Live(conn), ResumeReq
  PROVE  Live(conn')
<1> DEFINE m == conn
           n == Head(m.ticks)
           q == [m.req[n] EXCEPT !.kept = "none"]
           req == [m.req EXCEPT ![n] = q]
           ticks == Tail(m.ticks)
           starts == m.reading /\ n = m.count /\ ~m.paused /\ m.readable
           flowing == m.flowing \/ starts
           k == [m EXCEPT !.req = req, !.ticks = ticks, !.flowing = flowing]
<1>1. m \in Connections /\ Live(m) /\ m.ticks # <<>> /\ m.ticks \in Seq(Requests)
      /\ m.req \in [Requests -> RequestStates] /\ m.flowing \in BOOLEAN
      /\ (m.reading => m.count # 0)
  <2>1. m \in Connections /\ Live(m) /\ m.ticks # <<>> /\ (m.reading => m.count # 0)
    BY DEF Inv, Good, ResumeReq
  <2> QED
    BY <2>1 DEF Connections
<1>2. ticks \in Seq(Requests) /\ n \in Requests /\ m.req[n] \in RequestStates
  BY <1>1
<1>3. q.kept = "none" /\ q.consuming = m.req[n].consuming /\ q.dumped = m.req[n].dumped
      /\ q \in RequestStates
  BY <1>2 DEF RequestStates
<1>4. conn' = k
  <2> DEFINE l == [m EXCEPT !.req = req, !.ticks = ticks]
  <2>1. conn' = IF m.reading /\ n = m.count THEN ReadStart([m EXCEPT !.ticks = ticks, !.req = req])
                ELSE [m EXCEPT !.ticks = ticks, !.req = req]
    BY DEF ResumeReq
  <2> HIDE DEF m, n, req, ticks
  <2>2. [m EXCEPT !.ticks = ticks, !.req = req] = l
    BY <1>1 DEF Connections
  <2>3. l.paused = m.paused /\ l.readable = m.readable
    BY <1>1 DEF Connections
  <2>4. [l EXCEPT !.flowing = TRUE] = [m EXCEPT !.req = req, !.ticks = ticks, !.flowing = TRUE]
        /\ l = [m EXCEPT !.req = req, !.ticks = ticks, !.flowing = m.flowing]
    BY <1>1 DEF Connections
  <2> HIDE DEF l
  <2>5. conn' = IF starts THEN [l EXCEPT !.flowing = TRUE] ELSE l
    BY <2>1, <2>2, <2>3 DEF ReadStart
  <2>6. (starts => flowing = TRUE) /\ (~starts => flowing = m.flowing)
    BY <1>1
  <2> HIDE DEF starts, flowing
  <2> QED
    BY <2>4, <2>5, <2>6
<1> HIDE DEF m, n
<1>5. req \in [Requests -> RequestStates] /\ req[n] = q
      /\ \A i \in Requests : i # n => req[i] = m.req[i]
  <2> HIDE DEF q
  <2> QED
    BY <1>1, <1>2, <1>3
<1>6. \A i \in Requests : Ticking(i, m) => i = n \/ \E j \in 1 .. Len(ticks) : ticks[j] = i
  <2> SUFFICES ASSUME NEW i \in Requests, Ticking(i, m), i # n
               PROVE  \E j \in 1 .. Len(ticks) : ticks[j] = i
    OBVIOUS
  <2>1. PICK j \in 1 .. Len(m.ticks) : m.ticks[j] = i
    BY DEF Ticking
  <2>2. j # 1
    BY <1>1, <2>1 DEF n
  <2>3. j - 1 \in 1 .. Len(ticks) /\ ticks[j - 1] = i
    BY <1>1, <2>1, <2>2
  <2> QED
    BY <2>3
<1>7. flowing \in BOOLEAN /\ (m.flowing => flowing)
      /\ (m.reading /\ n = m.count /\ ~m.paused /\ m.readable => flowing)
  BY <1>1
<1> HIDE DEF req, ticks, flowing, q
<1>8. /\ k \in Connections /\ k.todo = m.todo /\ k.flowing = flowing /\ Reads(m, k)
      /\ k.readable = m.readable /\ k.paused = m.paused /\ k.ticks = ticks /\ k.req = req
      /\ k.reading = m.reading
  BY <1>1, <1>2, <1>5, <1>7 DEF Connections, Reads
<1> HIDE DEF k
<1>9. /\ \A x : Has(k, x) <=> Has(m, x)
      /\ \A x : IsTop(k, x) <=> IsTop(m, x)
  BY <1>8 DEF Has, IsTop
<1>10. Emptied(k)
  <2>1. ASSUME NEW i \in Requests PROVE Taking(i, k) <=> Taking(i, m)
    BY <1>2, <1>3, <1>5, <1>8, <2>1 DEF Taking
  <2>2. ASSUME NEW i \in Requests, Taking(i, k), k.req[i].kept # "none" PROVE Ticking(i, k)
    <3>1. i # n /\ k.req[i] = m.req[i]
      BY <1>3, <1>5, <1>8, <2>2
    <3>2. Ticking(i, m)
      BY <1>1, <2>1, <2>2, <3>1 DEF Live, Fed, Emptied
    <3> QED
      BY <1>6, <1>8, <3>1, <3>2 DEF Ticking
  <2> QED
    BY <1>1, <1>8, <2>1, <2>2 DEF Live, Fed, Emptied, Reads
<1>11. k.readable => k.flowing \/ k.paused \/ (k.reading /\ k.req[k.count].kept = "full")
  <2>1. m.count \in {0} \cup Requests
    BY <1>1 DEF Connections
  <2>2. m.reading /\ m.count # n => req[m.count] = m.req[m.count]
    BY <1>1, <1>5, <2>1
  <2> QED
    BY <1>1, <1>7, <1>8, <2>2 DEF Live, Fed, Reads
<1>12. Fed(k)
  BY <1>1, <1>8, <1>9, <1>10, <1>11 DEF Live, Fed, Reads
<1> QED
  BY <1>1, <1>4, <1>8, <1>9, <1>12, ReadsLives

\* writeContinue
LEMMA WriteContinueLives ==
  ASSUME Inv, Live(conn), WriteContinue
  PROVE  Live(conn')
<1> DEFINE m == conn
           n == m.todo[1].n
           todo == Tail(m.todo)
           p == [m EXCEPT !.todo = todo]
           piece == <<Piece(n, "continue")>>
           k == WriteRaw(n, piece, [p EXCEPT !.res[n].given = @ \o piece])
<1>1. Good(m) /\ m \in Connections /\ Stack(m) /\ (m.reading => m.count # 0) /\ Live(m)
      /\ Continues(m)
  BY DEF Inv, Good
<1>2. m.todo # <<>> /\ m.todo[1].k = "continue" /\ Top = n /\ m.todo \in Seq(Items)
      /\ m.todo[1] \in Items
  BY <1>1, StackWords DEF WriteContinue, IsTop
<1>3. conn' = k
  BY <1>2 DEF WriteContinue, Popped
<1>4. n \in Requests /\ ~m.res[n].finished /\ ~m.res[n].answered
  <2>1. 1 \in 1 .. Len(m.todo)
    BY <1>2
  <2>2. n = m.count /\ ~m.res[m.count].finished /\ n \in Requests
    BY <1>1, <1>2, <2>1 DEF Continues, Items
  <2> HIDE DEF n
  <2> QED
    BY <1>1, <2>2, OpenIsUnanswered
<1> HIDE DEF m, n
<1>5. todo \in Seq(Items)
  BY <1>2
<1> HIDE DEF todo
<1>6. p \in Connections /\ Unmoved(m, p) /\ p.todo = todo /\ p.res = m.res /\ p.count = m.count
      /\ p.reading = m.reading
  BY <1>1, <1>5 DEF Connections, Unmoved
<1> HIDE DEF p
<1>7. Live(p)
  BY <1>1, <1>2, <1>6, PopsLives DEF todo
<1>8. piece \in Seq(Pieces) /\ piece # <<>>
  BY <1>4, OnePiece DEF Parts
<1> HIDE DEF piece
<1>9. /\ k \in Connections /\ Alike(p, k) /\ k.todo = p.todo /\ Gave(n, piece, p, k)
      /\ FinishedAlike(n, p, k) /\ Beside(p, k) /\ Told(n, k)
  BY <1>4, <1>6, <1>8, AppendGives
<1> HIDE DEF k
<1>10. p.httpMessage # n => k.res[n].output # <<>>
  <2>1. p.res[n].output \in Seq(Pieces)
    BY <1>4, <1>6 DEF Connections, Responses
  <2> QED
    BY <1>8, <1>9, <2>1, SomePieces DEF Gave
<1>11. \A i \in Requests : i # n => k.res[i] = p.res[i]
  BY <1>9 DEF Gave
<1>12. Live(k)
  BY <1>1, <1>4, <1>6, <1>7, <1>9, <1>10, <1>11, WrittenLives
<1> QED
  BY <1>3, <1>12

-----------------------------------------------------------------------------
(* What ends. *)

\* Items go on the stack that no invariant here is about.
LEMMA RunLives ==
  ASSUME NEW m \in Connections, Live(m), m.reading => m.count # 0,
         NEW items \in Seq(Items), ~IsTop(m, "assign"), ~IsTop(m, "prefinish"),
         \A i \in 1 .. Len(items) : items[i].k # "endSocket"
  PROVE  Live(Run(m, items))
<1> DEFINE todo == items \o m.todo
           k == [m EXCEPT !.todo = todo]
<1>1. todo \in Seq(Items)
  BY DEF Connections
<1>2. Run(m, items) = k
  BY DEF Run
<1> HIDE DEF todo
<1>3. k \in Connections /\ Unmoved(m, k) /\ k.todo = todo
  BY <1>1 DEF Connections, Unmoved
<1> HIDE DEF k
<1>4. Live(k)
  BY <1>3, PushesLives DEF todo
<1> QED
  BY <1>2, <1>4

\* abortIncoming
LEMMA AbortIncomingLives ==
  ASSUME Inv, Live(conn), AbortIncoming
  PROVE  Live(conn')
<1> DEFINE m == conn
           n == Head(m.incoming)
           q == [m.req[n] EXCEPT !.aborted = @ + 1]
           req == [m.req EXCEPT ![n] = q]
           incoming == Tail(m.incoming)
           items == <<User>>
           p == [m EXCEPT !.todo = Tail(m.todo)]
           l == [m EXCEPT !.incoming = incoming, !.req = req]
<1>1. Good(m) /\ m \in Connections /\ Stack(m) /\ Live(m) /\ (m.reading => m.count # 0)
  BY DEF Inv, Good
<1>2. IsTop(m, "abort") /\ m.todo # <<>> /\ m.todo[1].k = "abort" /\ m.todo \in Seq(Items)
  BY <1>1, StackWords DEF AbortIncoming, IsTop
<1>3. conn' = IF m.incoming = <<>> THEN p
              ELSE Run([Taken(m) EXCEPT !.req[n].aborted = @ + 1], items)
  BY DEF AbortIncoming, Popped
<1>4. [Taken(m) EXCEPT !.req[n].aborted = @ + 1] = l
  BY <1>1 DEF Taken, Connections
<1> HIDE DEF m
<1>5. Live(p)
  <2> DEFINE todo == Tail(m.todo)
  <2>1. todo \in Seq(Items)
    BY <1>2
  <2> HIDE DEF todo
  <2>2. p \in Connections /\ Unmoved(m, p) /\ p.todo = todo
    BY <1>1, <2>1 DEF Connections, Unmoved, todo
  <2> HIDE DEF p
  <2> QED
    BY <1>1, <1>2, <2>2, PopsLives DEF todo
<1>6. ASSUME m.incoming # <<>> PROVE Live(Run(l, items))
  <2>1. m.incoming \in Seq(Requests) /\ m.req \in [Requests -> RequestStates] /\ Queues(m)
    BY <1>1 DEF Connections, Good
  <2>2. n \in Requests /\ incoming \in Seq(Requests)
    BY <1>6, <2>1
  <2>3. q \in RequestStates /\ q.consuming = m.req[n].consuming /\ q.dumped = m.req[n].dumped
        /\ q.kept = m.req[n].kept
    <3>1. n = Heard(m) + 1 /\ n > Heard(m)
      <4>1. 1 \in 1 .. Len(m.incoming) /\ n = m.incoming[1] /\ Len(m.incoming) \in Nat
        BY <1>6, <2>1
      <4>2. m.count \in Nat
        BY <1>1, CountIsNat
      <4>3. n = Heard(m) + 1
        BY <2>1, <4>1 DEF Queues
      <4> HIDE DEF n
      <4> QED
        BY <4>1, <4>2, <4>3 DEF Heard
    <3>2. m.req[n].aborted = 0 /\ m.req[n] \in RequestStates
      BY <2>1, <2>2, <3>1 DEF Queues
    <3> QED
      BY <3>2 DEF RequestStates
  <2> HIDE DEF n, q, incoming
  <2>4. req \in [Requests -> RequestStates]
        /\ \A i \in Requests : /\ req[i].consuming = m.req[i].consuming
                               /\ req[i].dumped = m.req[i].dumped /\ req[i].kept = m.req[i].kept
    BY <2>1, <2>2, <2>3
  <2> HIDE DEF req
  <2>5. l \in Connections /\ Unmoved(m, l) /\ l.todo = m.todo /\ l.reading = m.reading
        /\ l.count = m.count
    BY <1>1, <2>2, <2>4 DEF Connections, Unmoved
  <2> HIDE DEF l
  <2>6. (\A x : Has(l, x) <=> Has(m, x)) /\ (\A x : IsTop(l, x) <=> IsTop(m, x))
    BY <2>5 DEF Has, IsTop
  <2>7. Live(l)
    BY <1>1, <2>5, <2>6, UnmovedLives
  <2>8. items \in Seq(Items) /\ \A i \in 1 .. Len(items) : items[i].k # "endSocket"
    <3>1. User \in Items /\ User.k = "user"
      BY ItemType DEF User, Kinds
    <3> QED
      BY <3>1
  <2>9. ~IsTop(l, "assign") /\ ~IsTop(l, "prefinish")
    BY <1>2, <2>6 DEF IsTop
  <2> HIDE DEF items
  <2> QED
    BY <1>1, <2>5, <2>7, <2>8, <2>9, RunLives
<1> HIDE DEF p, l, items
<1> QED
  BY <1>3, <1>4, <1>5, <1>6

\* socketOnData
LEMMA SocketOnDataLives ==
  ASSUME Inv, Live(conn), SocketOnData
  PROVE  Live(conn')
<1> DEFINE item == Item("execute", Parsed)
           items == <<item>>
<1>1. conn \in Connections /\ Live(conn) /\ (conn.reading => conn.count # 0)
  BY DEF Inv, Good
<1>2. conn.todo = <<>> /\ conn' = Run(conn, items)
  BY DEF SocketOnData, AtRest
<1>3. item \in Items /\ item.k = "execute"
  BY ParsedIsNat, ItemType DEF Kinds
<1> HIDE DEF item
<1>4. items \in Seq(Items) /\ \A i \in 1 .. Len(items) : items[i].k # "endSocket"
  BY <1>3
<1> HIDE DEF items
<1> QED
  BY <1>1, <1>2, <1>4, RunLives DEF IsTop

\* The socket fails.
LEMMA SocketFailsLives ==
  ASSUME Inv, Live(conn), SocketFails
  PROVE  Live(conn')
<1>1. conn \in Connections /\ conn' = Destroy(conn)
  BY DEF Inv, Good, SocketFails
<1> QED
  BY <1>1, DestroyLives DEF Live, Ended, Fed

\* 'close'
LEMMA SocketClosesLives ==
  ASSUME Inv, Live(conn), SocketCloses
  PROVE  Live(conn')
<1> DEFINE m == conn
           items == <<Item("abort", 0)>> \o (IF m.httpMessage = 0 THEN <<>> ELSE <<User>>)
           l == [m EXCEPT !.closed = TRUE]
<1>1. m \in Connections /\ Live(m) /\ (m.reading => m.count # 0) /\ m.todo = <<>>
      /\ conn' = Run(l, items)
  BY DEF Inv, Good, SocketCloses, AtRest
<1> HIDE DEF m
<1>2. items \in Seq(Items) /\ \A i \in 1 .. Len(items) : items[i].k # "endSocket"
  <2> DEFINE a == Item("abort", 0)
             one == <<a>>
             two == <<a, User>>
  <2>1. a \in Items /\ User \in Items /\ a.k = "abort" /\ User.k = "user"
    BY ItemType DEF Kinds, User, Item
  <2>2. items = one \o <<>> \/ items = one \o <<User>>
    OBVIOUS
  <2> HIDE DEF a, items
  <2>3. one \in Seq(Items) /\ one \o <<>> = one /\ one \o <<User>> = two
    BY <2>1, TwoItems, OnEmpty
  <2>4. /\ one \in Seq(Items) /\ \A i \in 1 .. Len(one) : one[i].k # "endSocket"
        /\ two \in Seq(Items) /\ \A i \in 1 .. Len(two) : two[i].k # "endSocket"
    BY <2>1
  <2> HIDE DEF one, two
  <2> QED
    BY <2>2, <2>3, <2>4
<1> HIDE DEF items
<1>3. l \in Connections /\ Unmoved(m, l) /\ l.todo = m.todo /\ l.reading = m.reading
      /\ l.count = m.count
  BY <1>1 DEF Connections, Unmoved
<1> HIDE DEF l
<1>4. (\A x : Has(l, x) <=> Has(m, x)) /\ (\A x : IsTop(l, x) <=> IsTop(m, x))
  BY <1>3 DEF Has, IsTop
<1>5. Live(l)
  BY <1>1, <1>3, <1>4, UnmovedLives
<1>6. ~IsTop(l, "assign") /\ ~IsTop(l, "prefinish")
  BY <1>1, <1>3 DEF IsTop
<1> QED
  BY <1>1, <1>2, <1>3, <1>5, <1>6, RunLives

\* Nothing is on an empty stack.
LEMMA NothingOn ==
  ASSUME NEW m, m.todo = <<>>
  PROVE  (\A x : ~Has(m, x)) /\ (\A x : ~IsTop(m, x))
<1>1. \A i : i \notin 1 .. Len(m.todo)
  OBVIOUS
<1> QED
  BY <1>1 DEF Has, IsTop

\* The client has ended, and the end of the socket is about to be handled.
LEMMA EndedLives ==
  ASSUME NEW m \in Connections, Live(m), m.todo = <<>>, m.reading => m.count # 0,
         NEW todo \in Seq(Items), \E i \in 1 .. Len(todo) : todo[i].k = "endSocket"
  PROVE  Live([m EXCEPT !.eof = TRUE, !.todo = todo])
<1> DEFINE k == [m EXCEPT !.eof = TRUE, !.todo = todo]
<1>1. /\ k.outgoing = m.outgoing /\ k.httpMessage = m.httpMessage /\ k.count = m.count
      /\ k.reading = m.reading /\ k.paused = m.paused /\ k.flowing = m.flowing
      /\ k.readable = m.readable /\ k.writable = m.writable /\ k.ending = m.ending
      /\ k.finished = m.finished /\ k.soon = m.soon /\ k.eof
      /\ k.destroyed = m.destroyed /\ k.held = m.held /\ k.needDrain = m.needDrain
      /\ k.ticks = m.ticks /\ k.res = m.res /\ k.req = m.req /\ k.todo = todo
  BY DEF Connections
<1> HIDE DEF k
<1>2. (\A x : ~Has(m, x)) /\ (\A x : ~IsTop(m, x))
  BY NothingOn
<1>3. Has(k, "endSocket")
  BY <1>1 DEF Has
<1>4. Ended(k)
  BY <1>1, <1>3 DEF Live, Ended
<1>5. Sent(k) /\ Waiting(k)
  BY <1>1, <1>2 DEF Live, Sent, Waiting, WaitsRightly
<1>6. Emptied(k)
  BY <1>1 DEF Live, Fed, Emptied, Taking, Ticking
<1>7. Fed(k)
  BY <1>1, <1>2, <1>6 DEF Live, Fed
<1>8. Live(k)
  BY <1>4, <1>5, <1>7 DEF Live
<1> QED
  BY <1>8 DEF k

\* The last response in line is that to the last request.
LEMMA LastIsCount ==
  ASSUME NEW m, Good(m), m.todo = <<>>, m.outgoing # <<>> \/ m.httpMessage # 0
  PROVE  LET n == IF m.outgoing # <<>> THEN Last(m.outgoing) ELSE m.httpMessage
         IN n = m.count /\ n \in Requests /\ ~m.res[n].answered
<1> DEFINE n == IF m.outgoing # <<>> THEN Last(m.outgoing) ELSE m.httpMessage
<1>1. m \in Connections /\ Queues(m)
  BY DEF Good
<1>2. m.outgoing \in Seq(Requests) /\ m.httpMessage \in {0} \cup Requests
  BY <1>1 DEF Connections
<1>3. Len(m.outgoing) \in Nat /\ Len(m.outgoing) <= m.count /\ m.count \in Nat
  BY <1>1, <1>2, CountIsNat DEF Queues
<1>4. ~IsTop(m, "assign") /\ Current(m) = m.httpMessage
  BY DEF IsTop, Current
<1>5. m.httpMessage \in {0, Out(m)}
  BY <1>1, <1>4 DEF Queues
<1>6. Done(m) = IF m.httpMessage = 0 THEN Out(m) ELSE Out(m) - 1
  BY <1>4 DEF Done
<1>7. Out(m) = m.count - Len(m.outgoing)
  BY DEF Out
<1>8. ASSUME m.outgoing # <<>> PROVE n = m.count /\ n \in Requests /\ n > Done(m)
  <2> DEFINE i == Len(m.outgoing)
  <2>1. i \in 1 .. Len(m.outgoing) /\ n = m.outgoing[i] /\ m.outgoing[i] \in Requests /\ i > 0
    BY <1>2, <1>8 DEF Last
  <2>2. m.outgoing[i] = Out(m) + i
    BY <1>1, <2>1 DEF Queues
  <2>3. n = m.count /\ n \in Requests
    BY <1>3, <1>7, <2>1, <2>2
  <2> HIDE DEF n
  <2> QED
    BY <1>3, <1>6, <1>7, <2>1, <2>3
<1>9. ASSUME m.outgoing = <<>> PROVE n = m.count /\ n \in Requests /\ n > Done(m)
  <2>1. n = m.httpMessage /\ n # 0
    BY <1>9
  <2>2. Len(m.outgoing) = 0
    BY <1>9
  <2> HIDE DEF n
  <2> QED
    BY <1>2, <1>3, <1>5, <1>6, <1>7, <2>1, <2>2
<1> HIDE DEF n
<1>10. n = m.count /\ n \in Requests /\ n > Done(m)
  BY <1>8, <1>9
<1>11. ~m.res[n].answered
  <2>1. m.res[n].answered => n <= Done(m)
    BY <1>1, <1>10 DEF Queues
  <2>2. Done(m) \in Int
    BY <1>3, <1>6, <1>7
  <2> QED
    BY <1>3, <1>10, <2>1, <2>2
<1> QED
  BY <1>10, <1>11 DEF n

\* The client ends, and the last response in line is to end the connection.
LEMMA LastInLineLives ==
  ASSUME NEW m, Good(m), Live(m), m.todo = <<>>, m.outgoing # <<>> \/ m.httpMessage # 0,
         NEW l, l = [m EXCEPT !.eof = TRUE]
  PROVE  Live([LastInLine(l) EXCEPT !.readable = FALSE])
<1> DEFINE n == IF m.outgoing # <<>> THEN Last(m.outgoing) ELSE m.httpMessage
           r == [m.res[n] EXCEPT !.last = TRUE]
           res == [m.res EXCEPT ![n] = r]
           k == [m EXCEPT !.eof = TRUE, !.res = res, !.readable = FALSE]
<1>1. m \in Connections
  BY DEF Good
<1>2. n = m.count /\ n \in Requests /\ ~m.res[n].answered
  BY LastIsCount
<1>3. l.outgoing = m.outgoing /\ l.httpMessage = m.httpMessage
  BY <1>1 DEF Connections
<1>4. LastInLine(l) = [l EXCEPT !.res[n].last = TRUE]
  BY <1>3, ZenonT(60) DEF LastInLine
<1> HIDE DEF n
<1>5. [LastInLine(l) EXCEPT !.readable = FALSE] = k
  <2>1. [l EXCEPT !.res[n].last = TRUE] = [m EXCEPT !.eof = TRUE, !.res = res]
    BY <1>1 DEF Connections
  <2> HIDE DEF res
  <2> QED
    BY <1>1, <1>4, <2>1 DEF Connections
<1>6. m.res \in [Requests -> Responses] /\ m.res[n] \in Responses
  BY <1>1, <1>2 DEF Connections
<1>7. /\ r \in Responses /\ r.last /\ r.answered = m.res[n].answered /\ r.output = m.res[n].output
      /\ r.finished = m.res[n].finished /\ r.waits = m.res[n].waits
  BY <1>6 DEF Responses
<1> HIDE DEF r
<1>8. res[n] = r /\ \A i \in Requests : i # n => res[i] = m.res[i]
  BY <1>2, <1>6, <1>7
<1> HIDE DEF res
<1>9. /\ k.outgoing = m.outgoing /\ k.httpMessage = m.httpMessage /\ k.count = m.count
      /\ ~k.readable /\ k.writable = m.writable /\ k.ending = m.ending
      /\ k.finished = m.finished /\ k.soon = m.soon /\ k.eof
      /\ k.destroyed = m.destroyed /\ k.held = m.held /\ k.needDrain = m.needDrain
      /\ k.ticks = m.ticks /\ k.res = res /\ k.req = m.req /\ k.todo = m.todo
  BY <1>1 DEF Connections
<1> HIDE DEF k
<1>10. /\ (\A x : ~Has(m, x)) /\ (\A x : ~IsTop(m, x))
       /\ (\A x : ~Has(k, x)) /\ (\A x : ~IsTop(k, x))
  BY <1>9, NothingOn
<1>11. m.count # 0 /\ m.httpMessage \in {0} \cup Requests
  BY <1>1, <1>2, CountIsNat DEF Connections
<1>12. \A i \in Requests : k.res[i].answered = m.res[i].answered
         /\ k.res[i].output = m.res[i].output /\ k.res[i].finished = m.res[i].finished
         /\ k.res[i].waits = m.res[i].waits /\ (k.res[i].last => i = n \/ m.res[i].last)
  BY <1>7, <1>8, <1>9
<1>13. Ended(k)
  <2>1. k.res[k.count].last
    BY <1>2, <1>7, <1>8, <1>9
  <2>2. \A i \in Requests : k.res[i].last /\ k.res[i].answered => ~k.writable
    BY <1>2, <1>9, <1>12 DEF Live, Ended
  <2> QED
    BY <1>9, <1>10, <1>11, <2>1, <2>2 DEF Live, Ended
<1>14. Sent(k)
  BY <1>9, <1>10, <1>11, <1>12 DEF Live, Sent
<1>15. Waiting(k)
  BY <1>9, <1>12 DEF Live, Waiting, WaitsRightly
<1>16. Emptied(k)
  BY <1>9, <1>12 DEF Live, Fed, Emptied, Taking, Ticking
<1>17. Live(k)
  BY <1>9, <1>13, <1>14, <1>15, <1>16 DEF Live, Fed
<1> QED
  BY <1>5, <1>17

\* The client ends.
LEMMA ClientEndsLives ==
  ASSUME Inv, Live(conn), ClientEnds
  PROVE  Live(conn')
<1> DEFINE c == conn
           m == [c EXCEPT !.eof = TRUE]
           aborts == <<Item("abort", 0), Item("endSocket", 0)>>
           ends == <<Item("endSocket", 0)>>
           at(todo) == [c EXCEPT !.eof = TRUE, !.todo = todo]
<1>1. Good(c) /\ c \in Connections /\ Live(c) /\ c.todo = <<>> /\ (c.reading => c.count # 0)
  BY DEF Inv, Good, ClientEnds, AtRest
<1>2. \/ conn' = Destroy(m) \/ conn' = Run(m, aborts) \/ conn' = Run(m, ends)
      \/ /\ m.outgoing # <<>> \/ m.httpMessage # 0
         /\ conn' = [LastInLine(m) EXCEPT !.readable = FALSE]
  BY DEF ClientEnds
<1> HIDE DEF c
<1>3. /\ aborts \in Seq(Items) /\ ends \in Seq(Items)
      /\ \A todo \in {aborts, ends} : \E i \in 1 .. Len(todo) : todo[i].k = "endSocket"
  <2>1. Item("abort", 0) \in Items /\ Item("endSocket", 0) \in Items
    BY ItemType DEF Kinds
  <2>2. Item("endSocket", 0).k = "endSocket"
    BY DEF Item
  <2>3. aborts \in Seq(Items) /\ ends \in Seq(Items)
    BY <2>1
  <2>4. 2 \in 1 .. Len(aborts) /\ aborts[2].k = "endSocket"
        /\ 1 \in 1 .. Len(ends) /\ ends[1].k = "endSocket"
    BY <2>1, <2>2
  <2> HIDE DEF aborts, ends
  <2> QED
    BY <2>3, <2>4
<1> HIDE DEF aborts, ends
<1>4. Live(at(aborts)) /\ Live(at(ends))
  BY <1>1, <1>3, EndedLives
<1>5. /\ m \in Connections /\ m.todo = <<>> /\ m.eof /\ m.outgoing = c.outgoing
      /\ m.httpMessage = c.httpMessage /\ m.req = c.req /\ m.res = c.res /\ m.ticks = c.ticks
  BY <1>1 DEF Connections
<1>6. Run(m, aborts) = at(aborts) /\ Run(m, ends) = at(ends)
  <2>1. aborts \o <<>> = aborts /\ ends \o <<>> = ends
    BY <1>3, OnEmpty
  <2>2. /\ Run(m, aborts) = [m EXCEPT !.todo = aborts \o m.todo]
        /\ Run(m, ends) = [m EXCEPT !.todo = ends \o m.todo]
    BY DEF Run
  <2>3. Run(m, aborts) = [m EXCEPT !.todo = aborts] /\ Run(m, ends) = [m EXCEPT !.todo = ends]
    BY <1>5, <2>1, <2>2
  <2>4. \A todo : [m EXCEPT !.todo = todo] = at(todo)
    BY <1>1 DEF Connections
  <2> HIDE DEF m, at
  <2> QED
    BY <2>3, <2>4
<1>7. ASSUME m.outgoing # <<>> \/ m.httpMessage # 0
      PROVE  Live([LastInLine(m) EXCEPT !.readable = FALSE])
  BY <1>1, <1>5, <1>7, LastInLineLives
<1> HIDE DEF m, at
<1>8. Live(Destroy(m))
  <2>1. Emptied(m)
    BY <1>1, <1>5 DEF Live, Fed, Emptied, Taking, Ticking
  <2> QED
    BY <1>5, <2>1, DestroyLives
<1> QED
  BY <1>2, <1>4, <1>6, <1>7, <1>8

\* What end() of the socket leaves alone, and when it has finished.
LEMMA SocketEndGives ==
  ASSUME NEW m \in Connections
  PROVE  LET k == SocketEnd(m)
         IN /\ k.ticks = m.ticks /\ k.held = m.held /\ k.needDrain = m.needDrain /\ k.ending
            /\ m.held = 0 => k.finished
            /\ m.held # 0 => k.finished = m.finished /\ k.destroyed = m.destroyed
<1> DEFINE e == [m EXCEPT !.writable = FALSE, !.ending = TRUE]
           f == [e EXCEPT !.finished = TRUE]
           d == Destroy(f)
<1>1. /\ e.ticks = m.ticks /\ e.held = m.held /\ e.needDrain = m.needDrain /\ e.ending /\ e.finished = m.finished
      /\ e.destroyed = m.destroyed
  BY DEF Connections
<1>2. f.ticks = m.ticks /\ f.held = m.held /\ f.needDrain = m.needDrain /\ f.ending /\ f.finished
  BY DEF Connections
<1>3. d.ticks = m.ticks /\ d.held = m.held /\ d.needDrain = m.needDrain /\ d.ending /\ d.finished
  BY DEF Connections, Destroy
<1>4. SocketEnd(m) = IF m.held = 0 THEN Finished(e) ELSE e
  BY DEF SocketEnd
<1>5. Finished(e) = d \/ Finished(e) = f
  BY DEF Finished
<1> HIDE DEF e, f, d
<1> QED
  BY <1>1, <1>2, <1>3, <1>4, <1>5

\* A socket that is to be destroyed soon.
LEMMA DestroySoonLives ==
  ASSUME NEW m \in Connections, Fed(m), Has(m, "endSocket") => m.eof,
         m.finished => m.destroyed, m.writable \/ m.destroyed \/ (m.ending /\ m.held > 0)
  PROVE  Live(DestroySoon(m))
<1> DEFINE e == IF m.writable THEN SocketEnd(m) ELSE m
           k == [e EXCEPT !.soon = TRUE]
<1>1. /\ e \in Connections /\ Down(m, e) /\ ~e.writable /\ e.ticks = m.ticks
      /\ e.needDrain = m.needDrain
      /\ ~e.finished => e.destroyed \/ (e.ending /\ e.held > 0)
  <2>1. CASE m.writable
    <3>1. e = SocketEnd(m)
      BY <2>1
    <3>2. m.held \in Nat
      BY DEF Connections
    <3> HIDE DEF e
    <3> QED
      BY <3>1, <3>2, SocketEndIsDown, SocketEndGives
  <2>2. CASE ~m.writable
    BY <2>2 DEF Down
  <2> QED
    BY <2>1, <2>2
<1>2. Fed(e) /\ Emptied(e) /\ (Has(e, "endSocket") => e.eof)
  <2> HIDE DEF e
  <2>1. Emptied(e) /\ (\A x : Has(e, x) <=> Has(m, x))
    BY <1>1 DEF Down, Fed, Emptied, Taking, Ticking, Has
  <2> QED
    BY <1>1, <2>1 DEF Down, Fed
<1>3. DestroySoon(m) = IF e.finished THEN Destroy(e) ELSE k
  BY DEF DestroySoon
<1>4. e.finished \in BOOLEAN
  BY <1>1 DEF Connections
<1> HIDE DEF e
<1>5. Live(Destroy(e))
  BY <1>1, <1>2, DestroyLives
<1>6. ASSUME ~e.finished PROVE Live(k)
  <2>1. /\ k.writable = e.writable /\ k.destroyed = e.destroyed /\ k.ending = e.ending
        /\ k.held = e.held /\ k.soon /\ k.eof = e.eof /\ k.finished = e.finished
        /\ k.todo = e.todo /\ k.req = e.req /\ k.res = e.res /\ k.ticks = e.ticks
        /\ k.readable = e.readable /\ k.reading = e.reading /\ k.count = e.count
        /\ k.flowing = e.flowing /\ k.paused = e.paused /\ k.needDrain = e.needDrain
    BY <1>1 DEF Connections
  <2> HIDE DEF k
  <2>2. Emptied(k) /\ (\A x : Has(k, x) <=> Has(e, x))
    BY <1>2, <2>1 DEF Emptied, Taking, Ticking, Has
  <2>3. Fed(k) /\ (Has(k, "endSocket") => k.eof)
    BY <1>2, <2>1, <2>2 DEF Fed
  <2> QED
    BY <1>1, <1>6, <2>1, <2>3, OverLives
<1> QED
  BY <1>3, <1>4, <1>5, <1>6

\* The end of the socket.
LEMMA EndSocketLives ==
  ASSUME Inv, Live(conn), EndSocket
  PROVE  Live(conn')
<1> DEFINE m == conn
           p == [m EXCEPT !.todo = Tail(@)]
           e == IF m.writable THEN SocketEnd(p) ELSE p
           k == [e EXCEPT !.readable = FALSE]
<1>1. Good(m) /\ m \in Connections /\ Stack(m) /\ Live(m)
  BY DEF Inv, Good
<1>2. IsTop(m, "endSocket") /\ m.todo # <<>> /\ m.todo[1].k = "endSocket" /\ m.todo \in Seq(Items)
  BY <1>1, StackWords DEF EndSocket, IsTop
<1>3. conn' = IF ~e.writable /\ e.held = 0 THEN Destroy(e) ELSE k
  BY DEF EndSocket, Popped
<1> HIDE DEF m
<1>4. m.eof
  <2>1. 1 \in 1 .. Len(m.todo)
    BY <1>2
  <2> QED
    BY <1>1, <1>2, <2>1 DEF Live, Ended, Has
<1>5. /\ p \in Connections /\ p.eof /\ p.held = m.held /\ p.writable = m.writable
      /\ p.ending = m.ending /\ p.destroyed = m.destroyed /\ p.finished = m.finished
      /\ p.req = m.req /\ p.res = m.res /\ p.ticks = m.ticks
  <2> DEFINE todo == Tail(m.todo)
  <2>1. todo \in Seq(Items)
    BY <1>2
  <2> HIDE DEF todo
  <2>2. p = [m EXCEPT !.todo = todo]
    BY DEF todo
  <2> HIDE DEF p
  <2> QED
    BY <1>1, <1>4, <2>1, <2>2 DEF Connections
<1> HIDE DEF p
<1>6. /\ e \in Connections /\ e.eof /\ ~e.writable /\ e.held = m.held
      /\ e.req = m.req /\ e.res = m.res /\ e.ticks = m.ticks
      /\ m.held # 0 => /\ e.destroyed \/ e.ending
                       /\ e.finished => e.destroyed
  <2>1. CASE m.writable
    <3>1. e = SocketEnd(p)
      BY <2>1
    <3> HIDE DEF e
    <3>2. e \in Connections /\ Down(p, e) /\ ~e.writable
      BY <1>5, <3>1, SocketEndIsDown
    <3>3. /\ e.ticks = p.ticks /\ e.held = p.held /\ e.ending
          /\ p.held # 0 => e.finished = p.finished /\ e.destroyed = p.destroyed
      BY <1>5, <3>1, SocketEndGives
    <3> QED
      BY <1>1, <1>5, <3>2, <3>3 DEF Down, Live, Ended
  <2>2. CASE ~m.writable
    BY <1>1, <1>5, <2>2 DEF Live, Ended
  <2> QED
    BY <2>1, <2>2
<1> HIDE DEF e
<1>7. Emptied(e) /\ m.held \in Nat
  BY <1>1, <1>6 DEF Live, Fed, Emptied, Taking, Ticking, Connections
<1>8. Live(Destroy(e))
  BY <1>6, <1>7, DestroyLives
<1>9. ASSUME e.held # 0 PROVE Live(k)
  <2>1. /\ k.writable = e.writable /\ k.destroyed = e.destroyed /\ k.ending = e.ending
        /\ k.held = e.held /\ k.eof = e.eof /\ k.finished = e.finished
        /\ k.todo = e.todo /\ k.req = e.req /\ k.res = e.res /\ k.ticks = e.ticks /\ ~k.readable
    BY <1>6 DEF Connections
  <2> HIDE DEF k
  <2>2. Emptied(k)
    BY <1>7, <2>1 DEF Emptied, Taking, Ticking
  <2>3. Fed(k)
    BY <2>1, <2>2 DEF Fed
  <2>4. e.destroyed \/ (e.ending /\ e.held > 0)
    BY <1>6, <1>7, <1>9
  <2> QED
    BY <1>6, <1>9, <2>1, <2>3, <2>4, OverLives
<1> QED
  BY <1>3, <1>6, <1>8, <1>9

\* The socket has written what it held, and goes on.
LEMMA DrainedLives ==
  ASSUME NEW m \in Connections, NEW k \in Connections, Live(m), m.todo = <<>>, ~m.ending,
         m.reading => m.count # 0,
         k.outgoing = m.outgoing, k.httpMessage = m.httpMessage, k.count = m.count,
         k.reading = m.reading, k.paused = m.paused, k.flowing = m.flowing,
         k.readable = m.readable, k.writable = m.writable, k.ending = m.ending,
         k.finished = m.finished, k.eof = m.eof, k.destroyed = m.destroyed,
         k.ticks = m.ticks, k.req = m.req,
         \A n \in Requests :
           /\ k.res[n].last = m.res[n].last /\ k.res[n].answered = m.res[n].answered
           /\ k.res[n].finished = m.res[n].finished /\ k.res[n].output = m.res[n].output
           /\ k.res[n].waits => m.res[n].waits,
         m.httpMessage # 0 /\ k.res[m.httpMessage].waits => ~m.needDrain,
         ~Has(k, "endSocket"), m.needDrain => Has(k, "drained"), ~k.needDrain
  PROVE  Live(k)
<1>1. (\A x : ~Has(m, x)) /\ (\A x : ~IsTop(m, x))
  BY NothingOn
<1>2. m.httpMessage \in {0} \cup Requests /\ m.count \in {0} \cup Requests
  BY DEF Connections
<1>3. Ended(k)
  BY <1>1, <1>2 DEF Live, Ended
<1>4. Sent(k)
  BY <1>1, <1>2 DEF Live, Sent
<1>5. Waiting(k)
  <2>1. 0 \notin Requests
    BY CountIsNat
  <2> QED
    BY <1>2, <2>1 DEF Live, Waiting, WaitsRightly
<1>6. Emptied(k)
  BY DEF Live, Fed, Emptied, Taking, Ticking
<1>7. Fed(k)
  BY <1>1, <1>6 DEF Live, Fed
<1> QED
  BY <1>3, <1>4, <1>5, <1>7 DEF Live

\* The socket has written what it held.
LEMMA SocketWritesLives ==
  ASSUME Inv, Live(conn), SocketWrites
  PROVE  Live(conn')
<1> DEFINE c == conn
           none == [c EXCEPT !.held = 0]
           m == [c EXCEPT !.held = 0, !.needDrain = FALSE]
           n == c.httpMessage
           told == [m EXCEPT !.res[n].waits = FALSE]
           drained == <<Item("drained", 0)>>
           both == <<User, Item("drained", 0)>>
<1>1. c \in Connections /\ Live(c) /\ (c.reading => c.count # 0) /\ c.todo = <<>> /\ ~c.destroyed
      /\ c.needDrain \in BOOLEAN /\ c.ending \in BOOLEAN
  <2>1. c \in Connections /\ Live(c) /\ (c.reading => c.count # 0) /\ c.todo = <<>> /\ ~c.destroyed
    BY DEF Inv, Good, SocketWrites, AtRest
  <2> QED
    BY <2>1 DEF Connections
<1>2. conn' = CASE c.ending -> Finished(none)
                [] ~c.ending /\ c.needDrain -> IF n = 0 THEN Run(m, drained) ELSE Run(told, both)
                [] OTHER -> m
  BY DEF SocketWrites
<1>3. /\ drained \in Seq(Items) /\ both \in Seq(Items)
      /\ \A s \in {drained, both} :
           /\ \A i \in 1 .. Len(s) : s[i].k # "endSocket"
           /\ \E i \in 1 .. Len(s) : s[i].k = "drained"
  <2>1. Item("drained", 0) \in Items /\ User \in Items
    BY ItemType DEF Kinds, User
  <2>2. Item("drained", 0).k = "drained" /\ User.k = "user"
    BY DEF Item, User
  <2>3. drained \in Seq(Items) /\ both \in Seq(Items)
    BY <2>1
  <2>4. /\ \A i \in 1 .. Len(drained) : drained[i].k # "endSocket"
        /\ \A i \in 1 .. Len(both) : both[i].k # "endSocket"
        /\ 1 \in 1 .. Len(drained) /\ drained[1].k = "drained"
        /\ 2 \in 1 .. Len(both) /\ both[2].k = "drained"
    BY <2>1, <2>2
  <2> HIDE DEF drained, both
  <2> QED
    BY <2>3, <2>4
<1> HIDE DEF c, drained, both
<1>4. ASSUME c.ending PROVE Live(Finished(none))
  <2>1. /\ none \in Connections /\ none.soon = c.soon /\ none.eof = c.eof /\ none.todo = c.todo
        /\ none.req = c.req /\ none.res = c.res /\ none.ticks = c.ticks
    BY <1>1 DEF Connections
  <2> HIDE DEF none
  <2> DEFINE done == [none EXCEPT !.finished = TRUE]
  <2>2. Finished(none) = Destroy(done)
    BY <1>1, <1>4, <2>1 DEF Finished, Live, Ended
  <2>3. /\ done \in Connections /\ done.todo = c.todo /\ done.req = c.req /\ done.res = c.res
        /\ done.ticks = c.ticks /\ done.eof = c.eof
    BY <2>1 DEF Connections
  <2> HIDE DEF done
  <2>4. Emptied(done) /\ (Has(done, "endSocket") => done.eof)
    BY <1>1, <2>3 DEF Live, Ended, Fed, Emptied, Taking, Ticking, Has
  <2>5. Live(Destroy(done))
    BY <2>3, <2>4, DestroyLives
  <2> QED
    BY <2>2, <2>5
<1>5. /\ m \in Connections /\ m.outgoing = c.outgoing /\ m.httpMessage = c.httpMessage
      /\ m.count = c.count /\ m.reading = c.reading /\ m.paused = c.paused
      /\ m.flowing = c.flowing /\ m.readable = c.readable /\ m.writable = c.writable
      /\ m.ending = c.ending /\ m.finished = c.finished /\ m.eof = c.eof
      /\ m.destroyed = c.destroyed /\ m.ticks = c.ticks /\ m.req = c.req /\ m.res = c.res
      /\ ~m.needDrain /\ m.todo = c.todo
  BY <1>1 DEF Connections
<1> HIDE DEF m
<1>6. (\A x : ~Has(m, x))
  BY <1>1, <1>5, NothingOn
<1>7. ASSUME ~c.ending, ~c.needDrain PROVE Live(m)
  BY <1>1, <1>5, <1>6, <1>7, DrainedLives
<1>8. ASSUME ~c.ending, c.needDrain, n = 0 PROVE Live(Run(m, drained))
  <2> DEFINE todo == drained \o m.todo
             k == [m EXCEPT !.todo = todo]
  <2>1. todo = drained
    BY <1>1, <1>3, <1>5, OnEmpty
  <2>2. Run(m, drained) = k
    BY DEF Run
  <2> HIDE DEF todo
  <2>3. /\ k \in Connections /\ k.outgoing = m.outgoing /\ k.httpMessage = m.httpMessage
        /\ k.count = m.count /\ k.reading = m.reading /\ k.paused = m.paused
        /\ k.flowing = m.flowing /\ k.readable = m.readable /\ k.writable = m.writable
        /\ k.ending = m.ending /\ k.finished = m.finished /\ k.eof = m.eof
        /\ k.destroyed = m.destroyed /\ k.ticks = m.ticks /\ k.req = m.req /\ k.res = m.res
        /\ k.needDrain = m.needDrain /\ k.todo = drained
    BY <1>3, <1>5, <2>1 DEF Connections
  <2> HIDE DEF k
  <2>4. ~Has(k, "endSocket") /\ Has(k, "drained")
    BY <1>3, <2>3 DEF Has
  <2>5. Live(k)
    BY <1>1, <1>5, <1>8, <2>3, <2>4, DrainedLives
  <2> QED
    BY <2>2, <2>5
<1>9. ASSUME ~c.ending, c.needDrain, n # 0 PROVE Live(Run(told, both))
  <2> DEFINE r == [c.res[n] EXCEPT !.waits = FALSE]
             res == [c.res EXCEPT ![n] = r]
             k == [m EXCEPT !.res = res, !.todo = both]
  <2>1. n \in Requests /\ c.res \in [Requests -> Responses] /\ c.res[n] \in Responses
    BY <1>1, <1>9 DEF Connections
  <2>2. /\ r \in Responses /\ ~r.waits /\ r.last = c.res[n].last
        /\ r.answered = c.res[n].answered /\ r.finished = c.res[n].finished
        /\ r.output = c.res[n].output
    BY <2>1 DEF Responses
  <2>3. told = [m EXCEPT !.res = res]
    BY <1>5 DEF Connections
  <2> HIDE DEF r
  <2>4. /\ res \in [Requests -> Responses] /\ res[n] = r
        /\ \A i \in Requests : i # n => res[i] = c.res[i]
    BY <2>1, <2>2
  <2> HIDE DEF res, n, told
  <2>5. Run(told, both) = k
    <3>1. told.todo = m.todo
      BY <1>5, <2>3 DEF Connections
    <3>2. both \o told.todo = both
      BY <1>1, <1>3, <1>5, <3>1, OnEmpty
    <3>3. Run(told, both) = [told EXCEPT !.todo = both \o told.todo]
      BY DEF Run
    <3>4. Run(told, both) = [told EXCEPT !.todo = both]
      BY <3>2, <3>3
    <3> QED
      BY <1>5, <2>3, <3>4 DEF Connections
  <2>6. /\ k \in Connections /\ k.outgoing = m.outgoing /\ k.httpMessage = m.httpMessage
        /\ k.count = m.count /\ k.reading = m.reading /\ k.paused = m.paused
        /\ k.flowing = m.flowing /\ k.readable = m.readable /\ k.writable = m.writable
        /\ k.ending = m.ending /\ k.finished = m.finished /\ k.eof = m.eof
        /\ k.destroyed = m.destroyed /\ k.ticks = m.ticks /\ k.req = m.req /\ k.res = res
        /\ k.needDrain = m.needDrain /\ k.todo = both
    BY <1>3, <1>5, <2>4 DEF Connections
  <2> HIDE DEF k
  <2>7. ~Has(k, "endSocket") /\ Has(k, "drained")
    BY <1>3, <2>6 DEF Has
  <2>8. \A i \in Requests :
           /\ k.res[i].last = c.res[i].last /\ k.res[i].answered = c.res[i].answered
           /\ k.res[i].finished = c.res[i].finished /\ k.res[i].output = c.res[i].output
           /\ k.res[i].waits => c.res[i].waits
    BY <2>2, <2>4, <2>6
  <2>9. ~k.res[c.httpMessage].waits
    BY <2>1, <2>2, <2>4, <2>6 DEF n
  <2>10. Live(k)
    BY <1>1, <1>5, <1>9, <2>6, <2>7, <2>8, <2>9, DrainedLives
  <2> QED
    BY <2>5, <2>10
<1> HIDE DEF told, none, n
<1> QED
  BY <1>1, <1>2, <1>4, <1>7, <1>8, <1>9

-----------------------------------------------------------------------------
(* Responses get the socket, and give it up. *)

\* A response gets the socket.
LEMMA AssignLives ==
  ASSUME Inv, Live(conn), Assign
  PROVE  Live(conn')
<1> DEFINE m == conn
           n == m.todo[1].n
           given == [[m EXCEPT !.todo = Tail(@)] EXCEPT !.httpMessage = n]
           base == IF m.res[n].destroys THEN Destroy(given) ELSE given
           k == Flush(n, given)
           last == <<Item("prefinish", n)>>
           user == <<User>>
<1>1. Good(m) /\ m \in Connections /\ Stack(m) /\ Queues(m) /\ Live(m)
  BY DEF Inv, Good
<1>2. IsTop(m, "assign") /\ Top = n
  BY <1>1, StackWords DEF Assign, IsTop
<1>3. conn' = Flush(n, base)
  BY <1>2 DEF Assign, Popped
<1>4. /\ Good(given) /\ given \in Connections /\ given.httpMessage = n /\ n \in Requests
      /\ given.reading => given.count # 0
  BY <1>1, <1>2, GivenSocket, ZenonT(60) DEF Good
<1>5. m.todo # <<>> /\ m.todo[1].k = "assign" /\ m.todo \in Seq(Items) /\ m.httpMessage = 0
  BY <1>1, <1>2 DEF IsTop, Queues, Connections
<1> HIDE DEF m
<1>6. /\ given.outgoing = m.outgoing /\ given.count = m.count
      /\ given.reading = m.reading /\ given.paused = m.paused /\ given.flowing = m.flowing
      /\ given.readable = m.readable /\ given.writable = m.writable /\ given.ending = m.ending
      /\ given.finished = m.finished /\ given.soon = m.soon /\ given.eof = m.eof
      /\ given.destroyed = m.destroyed /\ given.held = m.held
      /\ given.needDrain = m.needDrain /\ given.ticks = m.ticks
      /\ given.res = m.res /\ given.req = m.req /\ given.todo = Tail(m.todo)
  <2> DEFINE todo == Tail(m.todo)
  <2>1. [m EXCEPT !.todo = Tail(@)] = [m EXCEPT !.todo = todo]
    OBVIOUS
  <2> HIDE DEF todo, n
  <2>2. given.todo = todo
    BY <1>1, <2>1 DEF Connections
  <2> QED
    BY <1>1, <2>1, <2>2 DEF Connections, todo
<1> HIDE DEF given, n
<1>7. /\ \A x : Has(m, x) <=> m.todo[1].k = x \/ Has(given, x)
      /\ ~IsTop(given, "assign") /\ ~IsTop(given, "prefinish")
  BY <1>1, <1>4, <1>5, <1>6, Pops
<1>8. (Has(given, "endSocket") <=> Has(m, "endSocket")) /\ (Has(m, "drained") => Has(given, "drained"))
  BY <1>5, <1>7
<1>9. Ended(given)
  BY <1>1, <1>6, <1>8 DEF Live, Ended
<1>10. Emptied(given)
  BY <1>1, <1>6 DEF Live, Fed, Emptied, Taking, Ticking
<1>11. Fed(given)
  BY <1>1, <1>6, <1>8, <1>10 DEF Live, Fed
<1>12. CASE m.res[n].destroys
  <2>1. Live(Destroy(given))
    BY <1>4, <1>9, <1>10, DestroyLives DEF Ended
  <2>2. ~Destroy(given).writable
    BY <1>4 DEF Destroy, Connections
  <2>3. base = Destroy(given)
    BY <1>12
  <2>4. Flush(n, base) = base
    BY <2>2, <2>3 DEF Flush
  <2> QED
    BY <1>3, <2>1, <2>3, <2>4
<1>13. CASE ~m.res[n].destroys /\ ~m.writable
  <2>1. base = given /\ ~given.writable
    BY <1>6, <1>13
  <2>2. Flush(n, base) = given
    BY <2>1 DEF Flush
  <2>3. Sent(given) /\ Waiting(given)
    BY <2>1 DEF Sent, Waiting
  <2> QED
    BY <1>3, <1>9, <1>11, <2>2, <2>3 DEF Live
<1>14. CASE ~m.res[n].destroys /\ m.writable
  <2>1. conn' = k /\ given.writable
    BY <1>3, <1>6, <1>14
  <2>2. /\ k \in Connections /\ Alike(given, k) /\ Gave(n, <<>>, given, k)
        /\ FinishedAlike(n, given, k) /\ Beside(given, k)
        /\ \/ k.todo = given.todo \/ k.todo = user \o given.todo
           \/ k.res[n].finished /\ k.todo = last \o given.todo
        /\ k.res[n].output = <<>>
        /\ k.res[n].finished => k.todo = last \o given.todo
        /\ k.res[n].waits /\ ~k.res[n].finished =>
             k.needDrain \/ (given.res[n].output = <<>> /\ given.res[n].waits)
    BY <1>4, <2>1, FlushGives
  <2>3. /\ last \in Seq(Items) /\ last # <<>> /\ last[1].k = "prefinish"
        /\ \A i \in 1 .. Len(last) : last[i].k \notin {"endSocket", "drained"}
        /\ user \in Seq(Items) /\ \A i \in 1 .. Len(user) : user[i].k \notin {"endSocket", "drained"}
    <3>1. Item("prefinish", n) \in Items /\ User \in Items
      BY <1>4, ItemType, CountIsNat DEF Kinds, User
    <3>2. Item("prefinish", n).k = "prefinish" /\ User.k = "user"
      BY DEF Item, User
    <3> QED
      BY <3>1, <3>2
  <2> HIDE DEF k, last, user
  <2>4. (Has(k, "endSocket") <=> Has(given, "endSocket"))
        /\ (Has(given, "drained") => Has(k, "drained"))
    <3>1. CASE k.todo = given.todo
      BY <3>1 DEF Has
    <3>2. CASE k.todo = user \o given.todo
      <4>1. \A x : Has(k, x) <=> (\E i \in 1 .. Len(user) : user[i].k = x) \/ Has(given, x)
        BY <1>4, <2>2, <2>3, <3>2, Pushes
      <4> QED
        BY <2>3, <4>1
    <3>3. CASE k.todo = last \o given.todo
      <4>1. \A x : Has(k, x) <=> (\E i \in 1 .. Len(last) : last[i].k = x) \/ Has(given, x)
        BY <1>4, <2>2, <2>3, <3>3, Pushes
      <4> QED
        BY <2>3, <4>1
    <3> QED
      BY <2>2, <3>1, <3>2, <3>3
  <2>5. k.res[n].finished => IsTop(k, "prefinish")
    <3> SUFFICES ASSUME k.res[n].finished PROVE IsTop(k, "prefinish")
      OBVIOUS
    <3>1. k.todo = last \o given.todo
      BY <2>2
    <3>2. k.todo # <<>> /\ k.todo[1] = last[1]
      BY <1>4, <2>2, <2>3, <3>1, Pushes
    <3> QED
      BY <2>3, <3>2 DEF IsTop
  <2>6. ~given.res[n].answered /\ n # 0
    <3>1. /\ Done(m) \in Nat /\ Current(m) # 0 /\ Current(m) = n /\ Out(m) = n
      BY <1>1, <1>2, Numbers DEF Current, Queues, n
    <3>2. Done(m) = n - 1
      BY <3>1 DEF Done
    <3>3. n \in Nat
      BY <3>1, <1>1, Numbers
    <3>4. m.res[n].answered => n <= Done(m)
      BY <1>1, <1>4 DEF Queues
    <3> QED
      BY <1>6, <3>1, <3>2, <3>3, <3>4
  <2>7. \A i \in Requests : i # n => k.res[i] = given.res[i]
    BY <2>2 DEF Gave
  <2>8. Ended(k) /\ Fed(k)
    BY <1>4, <1>9, <1>11, <2>2, <2>4, <2>6, <2>7, WroteStays
  <2>9. Sent(k)
    BY <1>4, <2>2, <2>5, <2>6 DEF Sent, Alike
  <2>10. Waiting(k)
    <3> SUFFICES ASSUME NEW i \in Requests, k.res[i].waits, ~k.res[i].finished
                 PROVE  IF i = k.httpMessage THEN k.needDrain ELSE k.res[i].output # <<>>
      BY DEF Waiting, WaitsRightly
    <3>1. k.httpMessage = n
      BY <1>4, <2>2 DEF Alike
    <3>2. m.res[i].waits /\ ~m.res[i].finished => m.res[i].output # <<>>
      <4>1. i # m.httpMessage
        BY <1>5, <1>1, CountIsNat
      <4> QED
        BY <1>1, <1>14, <4>1 DEF Live, Waiting, WaitsRightly
    <3>3. CASE i = n
      BY <1>6, <2>2, <3>1, <3>2, <3>3 DEF FinishedAlike
    <3>4. CASE i # n
      BY <1>6, <2>7, <3>1, <3>2, <3>4
    <3> QED
      BY <3>3, <3>4
  <2> QED
    BY <2>1, <2>8, <2>9, <2>10 DEF Live
<1> QED
  BY <1>12, <1>13, <1>14

\* _dump: what is thrown away is not kept.
LEMMA DumpGives ==
  ASSUME NEW m \in Connections, NEW n \in Requests
  PROVE  LET k == Dump(n, m)
         IN /\ k.ending = m.ending /\ k.finished = m.finished /\ k.soon = m.soon
            /\ k.held = m.held /\ k.needDrain = m.needDrain
            /\ Taking(n, k) /\ (~Taking(n, m) => Ticking(n, k))
            /\ \A i \in Requests :
                 /\ k.req[i].kept = m.req[i].kept
                 /\ i # n => (Taking(i, k) <=> Taking(i, m))
                 /\ Ticking(i, m) => Ticking(i, k)
<1> DEFINE q == [m.req[n] EXCEPT !.dumped = TRUE]
           req == [m.req EXCEPT ![n] = q]
           ticks == Append(m.ticks, n)
           k == [m EXCEPT !.req = req, !.ticks = ticks]
<1>1. m.req \in [Requests -> RequestStates] /\ m.req[n] \in RequestStates
      /\ m.ticks \in Seq(Requests)
  BY DEF Connections
<1>2. q.kept = m.req[n].kept /\ q.dumped
  BY <1>1 DEF RequestStates
<1>3. Dump(n, m) = IF Taking(n, m) THEN m ELSE k
  BY DEF Dump, Taking
<1>4. /\ Len(ticks) = Len(m.ticks) + 1 /\ Len(m.ticks) \in Nat
      /\ \A i \in 1 .. Len(m.ticks) : ticks[i] = m.ticks[i]
      /\ ticks[Len(m.ticks) + 1] = n
  BY <1>1
<1> HIDE DEF q, ticks
<1>5. req[n] = q /\ \A i \in Requests : i # n => req[i] = m.req[i]
  BY <1>1
<1> HIDE DEF req
<1>6. /\ k.ending = m.ending /\ k.finished = m.finished /\ k.soon = m.soon
      /\ k.held = m.held /\ k.needDrain = m.needDrain /\ k.req = req /\ k.ticks = ticks
  BY DEF Connections
<1> HIDE DEF k
<1>7. \A i \in Requests : Ticking(i, m) \/ i = n => Ticking(i, k)
  <2>1. \A i \in 1 .. Len(m.ticks) : i \in 1 .. Len(ticks)
    BY <1>4
  <2>2. Len(m.ticks) + 1 \in 1 .. Len(ticks)
    BY <1>4
  <2> QED
    BY <1>4, <1>6, <2>1, <2>2 DEF Ticking
<1>8. Taking(n, k) /\ \A i \in Requests : k.req[i].kept = m.req[i].kept
                        /\ (i # n => (Taking(i, k) <=> Taking(i, m)))
  BY <1>2, <1>5, <1>6 DEF Taking
<1> QED
  BY <1>3, <1>6, <1>7, <1>8

\* What a response leaves that has given up the socket.
LEMMA DetachedGives ==
  ASSUME NEW m, Good(m), Live(m), IsTop(m, "prefinish"), NEW n, n = m.todo[1].n,
         Detached(n, m) \in Connections
  PROVE  LET k == Detached(n, m)
         IN /\ n \in Requests /\ n = m.httpMessage /\ Fed(k) /\ k.httpMessage = 0
            /\ k.outgoing = m.outgoing /\ k.count = m.count /\ k.writable = m.writable
            /\ k.destroyed = m.destroyed /\ k.ending = m.ending /\ k.held = m.held
            /\ k.soon = m.soon /\ k.eof = m.eof /\ k.finished = m.finished
            /\ k.res[n].finished /\ k.res[n].last = m.res[n].last
            /\ \A i \in Requests : i # n => k.res[i] = m.res[i]
            /\ Has(k, "endSocket") <=> Has(m, "endSocket")
<1> DEFINE todo == Tail(m.todo)
           incoming == IF m.incoming = <<>> THEN m.incoming ELSE Tail(m.incoming)
           shifted == [m EXCEPT !.todo = todo, !.incoming = incoming]
           dumped == Dump(n, shifted)
           r == [m.res[n] EXCEPT !.answered = TRUE]
           res == [m.res EXCEPT ![n] = r]
           k == [dumped EXCEPT !.httpMessage = 0, !.res = res]
<1>1. m \in Connections /\ Stack(m) /\ Wires(m) /\ (m.reading => m.count # 0)
  BY DEF Good
<1>2. /\ m.todo # <<>> /\ m.todo[1].k = "prefinish" /\ m.todo \in Seq(Items)
      /\ todo \in Seq(Items) /\ m.todo[1] \in Items /\ m.incoming \in Seq(Requests)
      /\ m.res \in [Requests -> Responses]
  BY <1>1 DEF IsTop, Connections
<1>3. n \in Requests /\ n = m.httpMessage /\ m.res[n].finished
  BY <1>1, <1>2 DEF Items, Stack, Wires
<1>4. incoming \in Seq(Requests)
  BY <1>2
<1> HIDE DEF todo, incoming
<1>5. /\ shifted \in Connections /\ shifted.todo = todo
      /\ shifted.outgoing = m.outgoing /\ shifted.count = m.count
      /\ shifted.reading = m.reading /\ shifted.paused = m.paused /\ shifted.flowing = m.flowing
      /\ shifted.readable = m.readable /\ shifted.writable = m.writable
      /\ shifted.ending = m.ending /\ shifted.finished = m.finished /\ shifted.soon = m.soon
      /\ shifted.eof = m.eof /\ shifted.destroyed = m.destroyed /\ shifted.held = m.held
      /\ shifted.needDrain = m.needDrain /\ shifted.ticks = m.ticks
      /\ shifted.res = m.res /\ shifted.req = m.req
  BY <1>1, <1>2, <1>4 DEF Connections
<1>6. [[m EXCEPT !.todo = Tail(@)] EXCEPT !.incoming = IF @ = <<>> THEN @ ELSE Tail(@)] = shifted
  <2>1. [m EXCEPT !.todo = Tail(@)] = [m EXCEPT !.todo = todo]
    BY DEF todo
  <2>2. [m EXCEPT !.todo = todo].incoming = m.incoming
    BY <1>1 DEF Connections
  <2> QED
    BY <2>1, <2>2 DEF incoming
<1> HIDE DEF shifted
<1>7. /\ dumped \in Connections /\ Alike(shifted, dumped) /\ dumped.res = m.res
      /\ dumped.todo = todo
      /\ dumped.ending = m.ending /\ dumped.finished = m.finished /\ dumped.soon = m.soon
      /\ dumped.held = m.held /\ dumped.needDrain = m.needDrain
      /\ Taking(n, dumped) /\ (~Taking(n, shifted) => Ticking(n, dumped))
      /\ \A i \in Requests :
           /\ dumped.req[i].kept = m.req[i].kept
           /\ i # n => (Taking(i, dumped) <=> Taking(i, shifted))
           /\ Ticking(i, shifted) => Ticking(i, dumped)
  BY <1>3, <1>5, DumpAlike, DumpGives
<1>8. \A i \in Requests : (Taking(i, shifted) <=> Taking(i, m)) /\ (Ticking(i, shifted) <=> Ticking(i, m))
  BY <1>5 DEF Taking, Ticking
<1>9. Detached(n, m) = k
  <2>1. Detached(n, m) = [dumped EXCEPT !.httpMessage = 0, !.res[n].answered = TRUE]
    BY <1>6 DEF Detached
  <2> HIDE DEF dumped
  <2> QED
    BY <1>7, <2>1 DEF Connections
<1>10. /\ r.answered /\ r.finished /\ r.last = m.res[n].last
  <2>1. m.res[n] \in Responses
    BY <1>2, <1>3
  <2> QED
    BY <1>3, <2>1 DEF Responses
<1> HIDE DEF dumped, r
<1>11. res[n] = r /\ \A i \in Requests : i # n => res[i] = m.res[i]
  BY <1>2, <1>3
<1> HIDE DEF res
<1>12. /\ k.outgoing = m.outgoing /\ k.httpMessage = 0 /\ k.count = m.count
       /\ k.reading = m.reading /\ k.paused = m.paused /\ k.flowing = m.flowing
       /\ k.readable = m.readable /\ k.writable = m.writable
       /\ k.ending = m.ending /\ k.finished = m.finished /\ k.soon = m.soon
       /\ k.eof = m.eof /\ k.destroyed = m.destroyed /\ k.held = m.held
       /\ k.needDrain = m.needDrain /\ k.res = res /\ k.todo = todo
       /\ k.req = dumped.req /\ k.ticks = dumped.ticks
  <2>1. /\ k.outgoing = dumped.outgoing /\ k.httpMessage = 0 /\ k.count = dumped.count
        /\ k.reading = dumped.reading /\ k.paused = dumped.paused /\ k.flowing = dumped.flowing
        /\ k.readable = dumped.readable /\ k.writable = dumped.writable
        /\ k.ending = dumped.ending /\ k.finished = dumped.finished /\ k.soon = dumped.soon
        /\ k.eof = dumped.eof /\ k.destroyed = dumped.destroyed /\ k.held = dumped.held
        /\ k.needDrain = dumped.needDrain /\ k.res = res /\ k.todo = dumped.todo
        /\ k.req = dumped.req /\ k.ticks = dumped.ticks
    BY <1>7 DEF Connections
  <2> HIDE DEF k
  <2> QED
    BY <1>5, <1>7, <2>1 DEF Alike
<1>13. k \in Connections
  BY <1>9
<1> HIDE DEF k
<1>14. \A x : Has(m, x) <=> m.todo[1].k = x \/ Has(k, x)
  BY <1>1, <1>2, <1>12, <1>13, Pops DEF todo
<1>15. Emptied(k)
  <2>1. ASSUME NEW i \in Requests PROVE (Taking(i, k) <=> Taking(i, dumped)) /\ (Ticking(i, k) <=> Ticking(i, dumped))
    BY <1>12 DEF Taking, Ticking
  <2>2. ASSUME NEW i \in Requests, Taking(i, k), k.req[i].kept # "none" PROVE Ticking(i, k)
    <3>1. m.req[i].kept # "none"
      BY <1>7, <1>12, <2>2
    <3>2. Taking(i, m) => Ticking(i, m)
      BY <1>1, <3>1 DEF Live, Fed, Emptied
    <3>3. Ticking(i, m) => Ticking(i, k)
      BY <1>7, <1>8, <2>1
    <3>4. CASE i = n
      BY <1>7, <1>8, <2>1, <3>2, <3>3, <3>4
    <3>5. CASE i # n
      BY <1>7, <1>8, <2>1, <2>2, <3>2, <3>3, <3>5
    <3> QED
      BY <3>4, <3>5
  <2>3. ASSUME NEW i \in Requests, k.res[i].answered PROVE Taking(i, k)
    <3>1. CASE i = n
      BY <1>7, <2>1, <3>1
    <3>2. CASE i # n
      <4>1. m.res[i].answered
        BY <1>11, <1>12, <2>3, <3>2
      <4>2. Taking(i, m)
        BY <4>1 DEF Live, Fed, Emptied
      <4> QED
        BY <1>7, <1>8, <2>1, <3>2, <4>2
    <3> QED
      BY <3>1, <3>2
  <2> QED
    BY <2>2, <2>3 DEF Emptied
<1>16. Fed(k)
  <2>1. m.count \in {0} \cup Requests
    BY <1>1 DEF Connections
  <2>2. k.reading => k.req[k.count].kept = m.req[m.count].kept
    BY <1>1, <1>7, <1>12, <2>1
  <2>3. Has(m, "drained") => Has(k, "drained")
    BY <1>2, <1>14
  <2> QED
    BY <1>12, <1>15, <2>2, <2>3 DEF Live, Fed
<1>17. Has(k, "endSocket") <=> Has(m, "endSocket")
  BY <1>2, <1>14
<1>18. k.res[n].finished /\ k.res[n].last = m.res[n].last
       /\ \A i \in Requests : i # n => k.res[i] = m.res[i]
  BY <1>10, <1>11, <1>12
<1> QED
  BY <1>3, <1>9, <1>12, <1>16, <1>17, <1>18

\* resOnFinish
LEMMA PrefinishLives ==
  ASSUME Inv, Live(conn), Prefinish
  PROVE  Live(conn')
<1>0. PICK n : n = conn.todo[1].n
  OBVIOUS
<1> DEFINE c == conn
           m == Detached(n, c)
           items == <<Item("assign", Head(m.outgoing))>>
           k == Run([m EXCEPT !.outgoing = Tail(@)], items)
<1>1. Good(c) /\ c \in Connections /\ Live(c)
  BY DEF Inv, Good
<1>2. IsTop(c, "prefinish") /\ Top = n
  BY <1>0, <1>1, StackWords DEF Prefinish, IsTop
<1>3. c.incoming # <<>> => Head(c.incoming) = n
  BY <1>2 DEF Prefinish, IncomingIsFirst
<1>4. conn' = Following(n, m)
  BY <1>2 DEF Prefinish, Popped, Detached
<1>5. n = c.todo[1].n
  BY <1>0
<1> HIDE DEF c
<1>6. m \in Connections
  BY <1>1, <1>2, <1>3, <1>5, DetachedIsGood DEF Good
<1>7. /\ n \in Requests /\ n = c.httpMessage /\ Fed(m) /\ m.httpMessage = 0
      /\ m.outgoing = c.outgoing /\ m.count = c.count /\ m.writable = c.writable
      /\ m.destroyed = c.destroyed /\ m.ending = c.ending /\ m.held = c.held
      /\ m.soon = c.soon /\ m.eof = c.eof /\ m.finished = c.finished
      /\ m.res[n].finished /\ m.res[n].last = c.res[n].last
      /\ \A i \in Requests : i # n => m.res[i] = c.res[i]
      /\ Has(m, "endSocket") <=> Has(c, "endSocket")
  BY <1>1, <1>2, <1>5, <1>6, DetachedGives
<1> HIDE DEF m
<1>8. conn' = IF m.res[n].last THEN DestroySoon(m)
              ELSE IF m.outgoing # <<>> THEN k ELSE m
  BY <1>4 DEF Following, NextOnly
<1>9. \A i \in Requests : m.res[i].waits /\ ~m.res[i].finished /\ c.writable => m.res[i].output # <<>>
  <2> SUFFICES ASSUME NEW i \in Requests, m.res[i].waits, ~m.res[i].finished, c.writable
               PROVE  m.res[i].output # <<>>
    OBVIOUS
  <2>1. i # n /\ i # c.httpMessage /\ m.res[i] = c.res[i]
    BY <1>7
  <2> QED
    BY <1>1, <2>1 DEF Live, Waiting, WaitsRightly
<1>10. ASSUME m.res[n].last PROVE Live(DestroySoon(m))
  <2>1. /\ Has(m, "endSocket") => m.eof
        /\ m.finished => m.destroyed
        /\ m.writable \/ m.destroyed \/ (m.ending /\ m.held > 0)
    BY <1>1, <1>7 DEF Live, Ended
  <2> QED
    BY <1>6, <1>7, <2>1, DestroySoonLives
<1>11. ASSUME ~m.res[n].last PROVE Ended(m)
  <2>1. \A i \in Requests : m.res[i].last /\ m.res[i].answered => ~m.writable
    <3> TAKE i \in Requests
    <3> QED
      BY <1>1, <1>7, <1>11 DEF Live, Ended
  <2>2. m.eof /\ m.writable => Has(m, "endSocket") \/ (m.count # 0 /\ m.res[m.count].last)
    <3>1. c.count \in {0} \cup Requests
      BY <1>1 DEF Connections
    <3> QED
      BY <1>1, <1>7, <3>1 DEF Live, Ended
  <2> QED
    BY <1>1, <1>7, <2>1, <2>2 DEF Live, Ended
<1>12. ASSUME ~m.res[n].last, m.outgoing = <<>> PROVE Live(m)
  <2>1. \A i \in Requests : i # m.httpMessage
    BY <1>6, <1>7, CountIsNat
  <2>2. Sent(m)
    BY <1>7, <1>12 DEF Sent
  <2>3. Waiting(m)
    BY <1>7, <1>9, <2>1 DEF Waiting, WaitsRightly
  <2> QED
    BY <1>7, <1>11, <1>12, <2>2, <2>3 DEF Live
<1>13. ASSUME ~m.res[n].last, m.outgoing # <<>> PROVE Live(k)
  <2> DEFINE outgoing == Tail(m.outgoing)
             todo == items \o m.todo
             l == [m EXCEPT !.outgoing = outgoing, !.todo = todo]
  <2>1. m.outgoing \in Seq(Requests) /\ m.todo \in Seq(Items)
    BY <1>6 DEF Connections
  <2>2. Head(m.outgoing) \in Requests /\ outgoing \in Seq(Requests)
    BY <1>13, <2>1
  <2>3. /\ items \in Seq(Items) /\ Len(items) = 1 /\ items # <<>> /\ items[1].k = "assign"
        /\ \A i \in 1 .. Len(items) : items[i].k \notin {"endSocket", "drained"}
    <3> DEFINE h == Head(m.outgoing)
               item == Item("assign", h)
    <3>0. h \in Requests /\ h \in Nat
      BY <1>6, <2>2, CountIsNat
    <3> HIDE DEF h
    <3>1. item \in Items /\ item.k = "assign"
      BY <3>0, ItemType DEF Kinds
    <3> HIDE DEF item
    <3>2. items = <<item>>
      BY DEF item, items, h
    <3> HIDE DEF items
    <3> QED
      BY <3>1, <3>2
  <2> HIDE DEF items
  <2>4. todo \in Seq(Items)
    BY <2>1, <2>3, ConcatProperties
  <2>5. k = l
    <3>1. [m EXCEPT !.outgoing = Tail(@)] = [m EXCEPT !.outgoing = outgoing]
      OBVIOUS
    <3>2. [m EXCEPT !.outgoing = outgoing].todo = m.todo
      BY <1>6 DEF Connections
    <3> HIDE DEF outgoing
    <3>3. k = [[m EXCEPT !.outgoing = outgoing] EXCEPT !.todo = todo]
      BY <3>1, <3>2 DEF Run
    <3> HIDE DEF k, todo
    <3> QED
      BY <1>6, <3>3 DEF Connections
  <2> HIDE DEF outgoing, todo
  <2>6. /\ l \in Connections /\ l.todo = todo /\ l.outgoing = outgoing
        /\ l.httpMessage = m.httpMessage /\ l.count = m.count
        /\ l.reading = m.reading /\ l.paused = m.paused /\ l.flowing = m.flowing
        /\ l.readable = m.readable /\ l.writable = m.writable /\ l.ending = m.ending
        /\ l.finished = m.finished /\ l.soon = m.soon /\ l.eof = m.eof
        /\ l.destroyed = m.destroyed /\ l.held = m.held
        /\ l.needDrain = m.needDrain /\ l.ticks = m.ticks /\ l.res = m.res /\ l.req = m.req
    BY <1>6, <2>2, <2>4 DEF Connections
  <2> HIDE DEF l, k
  <2>7. /\ \A x : Has(l, x) <=> (\E i \in 1 .. Len(items) : items[i].k = x) \/ Has(m, x)
        /\ l.todo # <<>> /\ l.todo[1] = items[1]
    BY <1>6, <2>3, <2>6, Pushes DEF todo
  <2>8. /\ Has(l, "endSocket") <=> Has(m, "endSocket")
        /\ Has(m, "drained") => Has(l, "drained")
        /\ IsTop(l, "assign")
    BY <2>3, <2>7 DEF IsTop
  <2>9. Ended(l)
    BY <1>11, <1>13, <2>6, <2>8 DEF Ended
  <2>10. Sent(l) /\ Waiting(l)
    BY <1>7, <1>9, <2>6, <2>8, CountIsNat DEF Sent, Waiting, WaitsRightly
  <2>11. Emptied(l)
    BY <1>7, <2>6 DEF Fed, Emptied, Taking, Ticking
  <2>12. Fed(l)
    BY <1>7, <2>6, <2>8, <2>11 DEF Fed
  <2>13. Live(l)
    BY <2>9, <2>10, <2>12 DEF Live
  <2> QED
    BY <2>5, <2>13
<1> HIDE DEF k
<1> QED
  BY <1>8, <1>10, <1>12, <1>13

-----------------------------------------------------------------------------
(* A request comes. *)

\* Items after others, none of them the end of the socket.
LEMMA MoreItems ==
  ASSUME NEW a \in Seq(Items), NEW b \in Seq(Items),
         \A i \in 1 .. Len(a) : a[i].k # "endSocket",
         \A i \in 1 .. Len(b) : b[i].k # "endSocket"
  PROVE  /\ a \o b \in Seq(Items)
         /\ \A i \in 1 .. Len(a \o b) : (a \o b)[i].k # "endSocket"
         /\ a # <<>> => a \o b # <<>> /\ (a \o b)[1] = a[1]
<1> DEFINE s == a \o b
<1>1. /\ Len(s) = Len(a) + Len(b) /\ Len(a) \in Nat /\ Len(b) \in Nat /\ s \in Seq(Items)
      /\ \A i \in 1 .. Len(a) + Len(b) : s[i] = IF i <= Len(a) THEN a[i] ELSE b[i - Len(a)]
  BY ConcatProperties
<1> HIDE DEF s
<1>2. \A i \in 1 .. Len(s) : s[i].k # "endSocket"
  <2> TAKE i \in 1 .. Len(s)
  <2>1. CASE i <= Len(a)
    BY <1>1, <2>1
  <2>2. CASE ~(i <= Len(a))
    <3>1. i - Len(a) \in 1 .. Len(b) /\ s[i] = b[i - Len(a)]
      BY <1>1, <2>2
    <3> QED
      BY <3>1
  <2> QED
    BY <2>1, <2>2
<1>3. a # <<>> => s # <<>> /\ s[1] = a[1]
  <2> SUFFICES ASSUME a # <<>> PROVE s # <<>> /\ s[1] = a[1]
    OBVIOUS
  <2>1. Len(a) >= 1
    OBVIOUS
  <2>2. 1 \in 1 .. Len(a) + Len(b) /\ Len(s) # 0
    BY <1>1, <2>1
  <2> QED
    BY <1>1, <2>1, <2>2
<1> QED
  BY <1>1, <1>2, <1>3 DEF s

\* parserOnIncoming
LEMMA ParserOnIncomingLives ==
  ASSUME Inv, Live(conn), ParserOnIncoming, Careless = FALSE
  PROVE  Live(conn')
<1> DEFINE m == conn
           n == m.count + 1
           pauses == m.needDrain /\ ~m.paused
           paused == m.paused \/ pauses
           flowing == m.flowing /\ ~pauses
           incoming == Append(m.incoming, n)
           outgoing == IF m.httpMessage = 0 THEN m.outgoing ELSE Append(m.outgoing, n)
           assign == IF m.httpMessage = 0 THEN <<Item("assign", n)>> ELSE <<>>
           user == <<User>>
           l == [m EXCEPT !.count = n, !.reading = TRUE, !.incoming = incoming,
                          !.paused = paused, !.flowing = flowing]
           queued == [m EXCEPT !.count = n, !.reading = TRUE, !.incoming = incoming,
                               !.outgoing = outgoing, !.paused = paused, !.flowing = flowing]
<1>1. /\ m \in Connections /\ Stack(m) /\ Live(m) /\ body \in Nat /\ m.count + body <= MaxInput
  BY DEF Inv, Good
<1>2. /\ IsTop(m, "execute") /\ ~m.reading /\ m.count + body < MaxInput
      /\ m.httpMessage # 0 \/ m.outgoing = <<>>
  BY <1>1, StackWords DEF ParserOnIncoming, More, Sends
<1>3. PICK hasBody \in BOOLEAN :
        LET expect == hasBody /\ n \in Expecting
            q      == [l EXCEPT !.outgoing = IF l.httpMessage = 0 THEN @ ELSE Append(@, n)]
        IN conn' = Run(q, (IF l.httpMessage = 0 THEN <<Item("assign", n)>> ELSE <<>>)
                          \o (IF expect THEN <<Item("continue", n)>> ELSE <<>>)
                          \o user
                          \o (IF hasBody THEN <<>> ELSE <<Item("complete", n)>>))
  BY DEF ParserOnIncoming
<1> DEFINE continue == IF hasBody /\ n \in Expecting THEN <<Item("continue", n)>> ELSE <<>>
           complete == IF hasBody THEN <<>> ELSE <<Item("complete", n)>>
           items == ((assign \o continue) \o user) \o complete
           todo == items \o m.todo
           k == [queued EXCEPT !.todo = todo]
<1> HIDE DEF m
<1>4. n \in Requests /\ n \in Nat /\ n # 0 /\ m.todo \in Seq(Items)
      /\ m.needDrain \in BOOLEAN /\ m.paused \in BOOLEAN /\ m.flowing \in BOOLEAN
      /\ m.incoming \in Seq(Requests) /\ m.outgoing \in Seq(Requests)
  <2>1. n \in Requests /\ n \in Nat /\ n # 0
    BY <1>1, <1>2, CountIsNat
  <2> QED
    BY <1>1, <2>1 DEF Connections
<1> HIDE DEF n
<1>5. /\ \A s \in {assign, continue, user, complete} :
           s \in Seq(Items) /\ \A i \in 1 .. Len(s) : s[i].k # "endSocket"
      /\ m.httpMessage = 0 => assign # <<>> /\ assign[1].k = "assign"
  <2>1. /\ Item("assign", n) \in Items /\ Item("continue", n) \in Items
        /\ Item("complete", n) \in Items /\ User \in Items
    BY <1>4, ItemType DEF Kinds, User
  <2>2. /\ Item("assign", n).k = "assign" /\ Item("continue", n).k = "continue"
        /\ Item("complete", n).k = "complete" /\ User.k = "user"
    BY DEF Item, User
  <2> DEFINE nothing == <<>>
             a == <<Item("assign", n)>>
             c == <<Item("continue", n)>>
             p == <<Item("complete", n)>>
  <2>3. \A s \in {nothing, a, c, user, p} :
          s \in Seq(Items) /\ \A i \in 1 .. Len(s) : s[i].k # "endSocket"
    <3>1. nothing \in Seq(Items) /\ \A i \in 1 .. Len(nothing) : nothing[i].k # "endSocket"
      OBVIOUS
    <3>2. a \in Seq(Items) /\ \A i \in 1 .. Len(a) : a[i].k # "endSocket"
      BY <2>1, <2>2
    <3>3. c \in Seq(Items) /\ \A i \in 1 .. Len(c) : c[i].k # "endSocket"
      BY <2>1, <2>2
    <3>4. user \in Seq(Items) /\ \A i \in 1 .. Len(user) : user[i].k # "endSocket"
      BY <2>1, <2>2
    <3>5. p \in Seq(Items) /\ \A i \in 1 .. Len(p) : p[i].k # "endSocket"
      BY <2>1, <2>2
    <3> HIDE DEF nothing, a, c, user, p
    <3> QED
      BY <3>1, <3>2, <3>3, <3>4, <3>5
  <2>4. /\ assign \in {a, nothing} /\ continue \in {c, nothing} /\ complete \in {p, nothing}
        /\ m.httpMessage = 0 => assign = a
    OBVIOUS
  <2>5. a # <<>> /\ a[1].k = "assign"
    BY <2>2
  <2> HIDE DEF nothing, a, c, user, p, assign, continue, complete
  <2> QED
    BY <2>3, <2>4, <2>5
<1>6. conn' = k
  <2>1. l.httpMessage = m.httpMessage /\ l.outgoing = m.outgoing
    <3> HIDE DEF paused, flowing, incoming
    <3> QED
      BY <1>1 DEF Connections
  <2>2. conn' = Run([l EXCEPT !.outgoing = outgoing], items)
    <3> HIDE DEF l, user
    <3> QED
      BY <1>3, <2>1
  <2> HIDE DEF paused, flowing, incoming, outgoing, items
  <2>3. [l EXCEPT !.outgoing = outgoing] = queued /\ queued.todo = m.todo
    BY <1>1 DEF Connections
  <2> HIDE DEF l, queued
  <2> QED
    BY <2>2, <2>3 DEF Run
<1>7. /\ items \in Seq(Items) /\ \A i \in 1 .. Len(items) : items[i].k # "endSocket"
      /\ m.httpMessage = 0 => items # <<>> /\ items[1].k = "assign"
  <2> HIDE DEF assign, continue, user, complete
  <2> DEFINE ac == assign \o continue
             acu == ac \o user
  <2>1. /\ ac \in Seq(Items) /\ \A i \in 1 .. Len(ac) : ac[i].k # "endSocket"
        /\ assign # <<>> => ac # <<>> /\ ac[1] = assign[1]
    BY <1>5, MoreItems
  <2> HIDE DEF ac
  <2>2. /\ acu \in Seq(Items) /\ \A i \in 1 .. Len(acu) : acu[i].k # "endSocket"
        /\ ac # <<>> => acu # <<>> /\ acu[1] = ac[1]
    BY <1>5, <2>1, MoreItems
  <2> HIDE DEF acu
  <2>3. items = acu \o complete
    BY DEF ac, acu
  <2> HIDE DEF items
  <2>4. /\ acu \o complete \in Seq(Items)
        /\ \A i \in 1 .. Len(acu \o complete) : (acu \o complete)[i].k # "endSocket"
        /\ acu # <<>> => acu \o complete # <<>> /\ (acu \o complete)[1] = acu[1]
    BY <1>5, <2>2, MoreItems
  <2> QED
    BY <1>5, <2>1, <2>2, <2>3, <2>4
<1>8. /\ paused \in BOOLEAN /\ flowing \in BOOLEAN /\ incoming \in Seq(Requests)
      /\ outgoing \in Seq(Requests)
      /\ (m.flowing => flowing \/ paused) /\ (m.paused => paused)
      /\ (paused => m.paused \/ m.needDrain)
  BY <1>4, AppendProperties
<1>9. m.httpMessage = 0 => outgoing = <<>>
  BY <1>2
<1> HIDE DEF paused, flowing, incoming, outgoing, items
<1>10. todo \in Seq(Items)
  BY <1>4, <1>7, ConcatProperties
<1> HIDE DEF todo
<1>11. /\ k \in Connections /\ k.todo = todo /\ k.outgoing = outgoing
       /\ k.httpMessage = m.httpMessage /\ k.paused = paused /\ k.flowing = flowing
       /\ k.readable = m.readable /\ k.writable = m.writable /\ k.ending = m.ending
       /\ k.finished = m.finished /\ k.soon = m.soon /\ k.eof = m.eof
       /\ k.destroyed = m.destroyed /\ k.held = m.held
       /\ k.needDrain = m.needDrain /\ k.ticks = m.ticks /\ k.res = m.res /\ k.req = m.req
  BY <1>1, <1>4, <1>8, <1>10, ZenonT(60) DEF Connections
<1> HIDE DEF k
<1>12. /\ \A x : Has(k, x) <=> (\E i \in 1 .. Len(items) : items[i].k = x) \/ Has(m, x)
       /\ items # <<>> => k.todo # <<>> /\ k.todo[1] = items[1]
  BY <1>1, <1>7, <1>11, Pushes DEF todo
<1>13. /\ Has(k, "endSocket") <=> Has(m, "endSocket")
       /\ Has(m, "drained") => Has(k, "drained")
       /\ m.httpMessage = 0 => IsTop(k, "assign")
  BY <1>7, <1>12 DEF IsTop
<1>14. ~m.eof /\ ~IsTop(m, "prefinish")
  <2>1. m.todo # <<>> /\ m.todo[1].k = "execute" /\ 1 \in 1 .. Len(m.todo)
    BY <1>2, <1>4 DEF IsTop
  <2>2. Has(m, "execute")
    BY <2>1 DEF Has
  <2> QED
    BY <1>1, <2>1, <2>2 DEF Stack, IsTop
<1>15. Ended(k)
  BY <1>1, <1>11, <1>13, <1>14 DEF Live, Ended
<1>16. Sent(k)
  BY <1>1, <1>9, <1>11, <1>13, <1>14 DEF Live, Sent
<1>17. Waiting(k)
  BY <1>1, <1>11 DEF Live, Waiting, WaitsRightly
<1>18. Emptied(k)
  BY <1>1, <1>11 DEF Live, Fed, Emptied, Taking, Ticking
<1>19. Fed(k)
  BY <1>1, <1>2, <1>8, <1>11, <1>13, <1>18 DEF Live, Fed
<1> QED
  BY <1>6, <1>15, <1>16, <1>17, <1>19 DEF Live

-----------------------------------------------------------------------------
(* Nothing stalls, and no connection leaks. *)

\* A connection starts live.
LEMMA InitLives == Init => Live(conn)
<1> SUFFICES ASSUME Init PROVE Live(conn)
  OBVIOUS
<1>1. /\ conn.outgoing = <<>> /\ conn.httpMessage = 0 /\ conn.todo = <<>>
      /\ ~conn.paused /\ conn.flowing /\ conn.writable /\ ~conn.ending /\ ~conn.finished
      /\ ~conn.eof /\ ~conn.destroyed
      /\ \A n \in Requests : conn.res[n] = Response /\ conn.req[n] = Request
  BY DEF Init
<1>2. ~Response.last /\ ~Response.waits /\ ~Response.answered
      /\ ~Request.consuming /\ ~Request.dumped
  BY DEF Response, Request
<1>3. (\A x : ~Has(conn, x)) /\ (\A x : ~IsTop(conn, x))
  BY <1>1, NothingOn
<1>4. Ended(conn) /\ Sent(conn)
  BY <1>1, <1>2, <1>3 DEF Ended, Sent
<1>5. Waiting(conn)
  BY <1>1, <1>2 DEF Waiting, WaitsRightly
<1>6. Emptied(conn)
  BY <1>1, <1>2 DEF Emptied, Taking
<1> QED
  BY <1>1, <1>4, <1>5, <1>6 DEF Live, Fed

\* Every step keeps it live.
LEMMA NextLives ==
  ASSUME Inv, Live(conn), [Next]_vars, Careless = FALSE
  PROVE  Live(conn')
<1>1. CASE UNCHANGED vars
  <2>1. conn' = conn
    BY <1>1 DEF vars
  <2> QED
    BY <2>1
<1>2. ASSUME NEW n \in Known, Write(n) \/ End(n) \/ DestroyResponse(n) \/ Consume(n)
      PROVE  Live(conn')
  <2>1. CASE Write(n)
    BY <1>2, <2>1, WriteLives
  <2>2. CASE End(n)
    BY <1>2, <2>2, EndLives
  <2>3. CASE DestroyResponse(n)
    BY <1>2, <2>3, DestroyResponseLives
  <2>4. CASE Consume(n)
    BY <1>2, <2>4, ConsumeLives
  <2> QED
    BY <1>2, <2>1, <2>2, <2>3, <2>4
<1>3. CASE ParserOnIncoming
  BY <1>3, ParserOnIncomingLives
<1>4. CASE ParserOnBody \/ ParserOnMessageComplete \/ ExecuteReturns
  BY <1>4, ParserOnBodyLives, ParserOnMessageCompleteLives, ExecuteReturnsLives
<1>5. CASE Assign \/ Prefinish \/ WriteContinue
  BY <1>5, AssignLives, PrefinishLives, WriteContinueLives
<1>6. CASE AbortIncoming \/ EndSocket
  BY <1>6, AbortIncomingLives, EndSocketLives
<1>7. CASE SocketOnDrain \/ ResumeReq \/ UserReturns
  BY <1>7, SocketOnDrainLives, ResumeReqLives, UserReturnsLives
<1>8. CASE SocketOnData \/ ClientEnds \/ SocketFails
  BY <1>8, SocketOnDataLives, ClientEndsLives, SocketFailsLives
<1>9. CASE SocketWrites \/ SocketCloses
  BY <1>9, SocketWritesLives, SocketClosesLives
<1> QED
  BY <1>1, <1>2, <1>3, <1>4, <1>5, <1>6, <1>7, <1>8, <1>9 DEF Next, UserCall, Step, Client

\* At rest, a response that is finished with all before it is answered.
LEMMA FinishedIsAnswered ==
  ASSUME Inv, Live(conn), AtRest, conn.writable, NEW n \in Known,
         \A i \in 1 .. n : conn.res[i].finished
  PROVE  conn.res[n].answered
<1>1. Good(conn) /\ conn \in Connections /\ Queues(conn) /\ conn.todo = <<>>
  BY DEF Inv, Good, AtRest
<1>2. (\A x : ~Has(conn, x)) /\ (\A x : ~IsTop(conn, x))
  BY <1>1, NothingOn
<1>3. /\ conn.count \in Nat /\ Out(conn) \in Nat /\ Done(conn) \in Nat
      /\ Len(conn.outgoing) = conn.count - Out(conn)
      /\ Current(conn) # 0 => Current(conn) = Out(conn) /\ Done(conn) = Out(conn) - 1
      /\ Current(conn) = 0 => Done(conn) = Out(conn)
  BY <1>1, Numbers
<1>4. Current(conn) = conn.httpMessage
  BY <1>2 DEF Current
<1>5. n \in Requests /\ n \in Nat /\ n <= conn.count
  BY <1>3, KnownIsRequest DEF Known
<1>6. SUFFICES ASSUME n > Done(conn) PROVE FALSE
  BY <1>1, <1>3, <1>5 DEF Queues
<1>7. CASE conn.httpMessage = 0
  <2>1. conn.outgoing = <<>>
    BY <1>2, <1>7 DEF Live, Sent
  <2>2. Len(conn.outgoing) = 0
    BY <2>1
  <2> QED
    BY <1>3, <1>4, <1>5, <1>6, <1>7, <2>2
<1>8. CASE conn.httpMessage # 0
  <2>1. conn.httpMessage \in 1 .. n
    BY <1>3, <1>4, <1>5, <1>6, <1>8
  <2> QED
    BY <1>2, <1>8, <2>1 DEF Live, Sent
<1> QED
  BY <1>7, <1>8

\* At rest nothing stalls.
LEMMA StallFollows ==
  ASSUME Inv, Live(conn)
  PROVE  NoStall
<1> SUFFICES ASSUME AtRest
             PROVE  /\ conn.readable /\ ~conn.flowing =>
                         \/ conn.paused /\ conn.needDrain
                         \/ conn.reading /\ conn.req[conn.count].kept = "full"
                            /\ ~conn.req[conn.count].consuming /\ ~conn.res[conn.count].answered
                    /\ conn.writable => \A n \in Known :
                         /\ conn.res[n].waits /\ ~conn.res[n].finished =>
                              Contains(conn.outgoing, n) \/ (conn.httpMessage = n /\ conn.needDrain)
                         /\ (\A i \in 1 .. n : conn.res[i].finished) => conn.res[n].answered
  BY DEF NoStall
<1>1. Good(conn) /\ conn \in Connections /\ Queues(conn) /\ conn.todo = <<>> /\ conn.ticks = <<>>
      /\ (conn.reading => conn.count # 0)
  BY DEF Inv, Good, AtRest
<1>2. (\A x : ~Has(conn, x)) /\ (\A x : ~IsTop(conn, x))
  BY <1>1, NothingOn
<1>3. \A n \in Requests : conn.req[n].kept # "none" => ~Taking(n, conn) /\ ~conn.res[n].answered
  <2>1. \A n : ~Ticking(n, conn)
    BY <1>1 DEF Ticking
  <2> QED
    BY <2>1 DEF Live, Fed, Emptied
<1>4. ASSUME conn.readable, ~conn.flowing
      PROVE  \/ conn.paused /\ conn.needDrain
             \/ conn.reading /\ conn.req[conn.count].kept = "full"
                /\ ~conn.req[conn.count].consuming /\ ~conn.res[conn.count].answered
  <2>1. conn.count \in {0} \cup Requests
    BY <1>1 DEF Connections
  <2>2. CASE conn.paused
    BY <1>2, <1>4, <2>2 DEF Live, Fed
  <2>3. CASE ~conn.paused
    <3>1. conn.reading /\ conn.req[conn.count].kept = "full"
      BY <1>4, <2>3 DEF Live, Fed
    <3> QED
      BY <1>1, <1>3, <2>1, <3>1 DEF Taking
  <2> QED
    BY <2>2, <2>3
<1>5. ASSUME conn.writable, NEW n \in Known, conn.res[n].waits, ~conn.res[n].finished
      PROVE  Contains(conn.outgoing, n) \/ (conn.httpMessage = n /\ conn.needDrain)
  <2>1. n \in Requests /\ ~conn.res[n].answered
    BY <1>1, <1>5, KnownIsRequest, OpenIsUnanswered
  <2>2. CASE n = conn.httpMessage
    BY <1>5, <2>1, <2>2 DEF Live, Waiting, WaitsRightly
  <2>3. CASE n # conn.httpMessage
    <3>1. /\ Out(conn) \in Nat /\ Done(conn) \in Nat
          /\ Current(conn) # 0 => Current(conn) = Out(conn) /\ Done(conn) = Out(conn) - 1
          /\ Current(conn) = 0 => Done(conn) = Out(conn)
          /\ Current(conn) = conn.httpMessage
      BY <1>1, <1>2, Numbers DEF Current
    <3>2. n \in Nat /\ n > Done(conn)
      BY <1>1, <2>1, <3>1, CountIsNat DEF Queues
    <3>3. n > Out(conn)
      BY <2>3, <3>1, <3>2
    <3> QED
      BY <3>3, QueuedAfterOut
  <2> QED
    BY <2>2, <2>3
<1> QED
  BY <1>4, <1>5, FinishedIsAnswered

\* At rest a connection that is to end does.
LEMMA ClosesFollows ==
  ASSUME Inv, Live(conn)
  PROVE  Closes
<1> SUFFICES ASSUME AtRest,
                    \/ \E n \in Known : conn.res[n].last /\ conn.res[n].answered
                    \/ conn.eof /\ \A n \in Known : conn.res[n].finished
             PROVE  ~conn.writable
  BY DEF Closes, Live, Ended
<1>1. conn \in Connections /\ conn.todo = <<>>
  BY DEF Inv, Good, AtRest
<1>2. ASSUME NEW n \in Known, conn.res[n].last, conn.res[n].answered PROVE ~conn.writable
  BY <1>2, KnownIsRequest DEF Live, Ended
<1>3. ASSUME conn.eof, \A n \in Known : conn.res[n].finished, conn.writable PROVE FALSE
  <2>1. ~Has(conn, "endSocket")
    BY <1>1, NothingOn
  <2>2. conn.count # 0 /\ conn.res[conn.count].last /\ conn.count \in Nat
    BY <1>1, <1>3, <2>1, CountIsNat DEF Live, Ended
  <2>3. conn.count \in Known /\ \A i \in 1 .. conn.count : conn.res[i].finished
    BY <1>3, <2>2 DEF Known
  <2>4. conn.res[conn.count].answered
    BY <1>3, <2>3, FinishedIsAnswered
  <2> QED
    BY <1>2, <1>3, <2>2, <2>3, <2>4
<1> QED
  BY <1>2, <1>3

\* A connection always lives.
LEMMA LiveHolds ==
  ASSUME Careless = FALSE
  PROVE  Spec => [](Inv /\ Live(conn))
<1>1. Init => Inv /\ Live(conn)
  BY InitKeeps, InitLives
<1>2. Inv /\ Live(conn) /\ [Next]_vars => (Inv /\ Live(conn))'
  BY NextKeeps, NextLives
<1> QED
  BY <1>1, <1>2, PTL DEF Spec

\* When nothing runs on an open connection, the server reads or will be made to, a
\* user who waits for 'drain' gets it or waits for earlier responses, and a response
\* that is finished with all before it has been sent.
THEOREM NoStallHolds ==
  ASSUME Careless = FALSE
  PROVE  Spec => []NoStall
<1>1. Inv /\ Live(conn) => NoStall
  BY StallFollows
<1> QED
  BY <1>1, LiveHolds, PTL

\* A connection is destroyed, or ends and will be, when its last response has been
\* sent and when the client has ended and every response is finished.
THEOREM ClosesHolds ==
  ASSUME Careless = FALSE
  PROVE  Spec => []Closes
<1>1. Inv /\ Live(conn) => Closes
  BY ClosesFollows
<1> QED
  BY <1>1, LiveHolds, PTL

=============================================================================
