# Verification of the node library in NodeAppKitWinJS

The repository carries the JavaScript library of node.js 0.11 (`src/nodeKitWin/node`), a
bootstrap (`src/nodeKitWin/js/node.js`), bindings that connect the library to WinRT
(`src/nodeKitWin/js/bindings`), and an application shell. Its README calls it an early port
that is not functional yet; most bindings throw on their first call. The behaviour that is hard
to get right is in the library: callbacks that re-enter the code that called them, ticks that run
between turns, exceptions that leave a loop half done, handles that fire late. This directory
models that part in TLA+, checks it with TLC and proves part of it with TLAPS. Where the library
calls the host (libuv handles, `MakeCallback`), the host is modelled from how the library uses it
and marked external in `PROJECT.json`.

## Inventory

| component | state | operations | talks to | what is hard | what makes it correct |
|---|---|---|---|---|---|
| `_stream_writable.js` | counters `length`, `pendingcb`, `corked`; the write in progress; `buffer`; flags from `ending` to `finished` | `write`, `cork`, `uncork`, `end`, the completion `onwrite`, `clearBuffer`, `finishMaybe` | the implementation (`_write`, `_writev`), the user's callbacks, `process.nextTick` | user code runs in the middle of `clearBuffer`, of `onwrite` and of `finishMaybe`; completions come inside `_write` or later | writes are handed over once, in order; callbacks run once each; `drain` and `finish` come, once, and not early |
| `_http_agent.js` with the socket handling of `_http_client.js` | pools `requests`, `sockets`, `freeSockets`; a socket's `destroyed`, its listeners and `_httpMessage`; a request's `socket`, `shouldKeepAlive` | `addRequest`, `createSocket`, `removeSocket`, `free` and `close` handlers; `onSocket`, `responseOnEnd`, `abort`, errors, upgrade | `net.Socket`, `process.nextTick` | `close` comes turns after `destroy()`; `free` comes a tick after the response; both may meet a socket that went elsewhere | one request per socket; no queued request is forgotten; the limits hold |
| `js/node.js` tick queue, `timers.js` immediates | `nextTickQueue`, `tickInfo`; `immediateQueue`, `_needImmediateCallback` | `nextTick`, `_tickCallback`, `tickDone`, `_fatalException`; `setImmediate`, `clearImmediate`, `processImmediate` | the host | nested runs of the queues, exceptions in the middle of a batch, trimming | each callback runs once, ticks in order, none is forgotten |
| `timers.js` timers, `_linklist.js` | a list per duration, its handle, a timer's `_idleStart`, `_idleTimeout`, `_handle` | `setTimeout`, `setInterval`, `clear*`, `unref`, `enroll`/`unenroll`/`active`, `listOnTimeout`; `_unrefActive`, `unrefTimeout` | host handles, the clock, `process.nextTick` | callbacks close, replace and clear the list being run, and throw; the clock moves meanwhile | never early, never after clear, never forgotten, once |
| `_stream_readable.js` | buffer, flags `reading`, `sync`, `needReadable`, `flowing`, pipes and `awaitDrain` | `push`, `read`, `pipe`, `unpipe`, `resume`, `pause` | `_read`, Writable destinations | `_read` answers inside or after `read()`; several destinations fill and drain | every chunk to every destination, in order; `end` once, at the end; a full destination pauses, a drained one resumes |
| `_stream_transform.js`, `zlib.js`, the zlib binding | `transforming`, `needTransform`, `writechunk`; `_flushFlag`, `_offset`, the output buffer; `write_in_progress` | `_write`, `_read`, `afterTransform`, `done`; `flush`, `_transform`, `_processChunk`, the binding's `write` | both sides of a stream, pako, `process.nextTick` | each side waits for the other; the engine runs a tick later and may have to be asked again; user code runs in between | one call of the engine at a time; everything comes out, in order; flushes deliver; the stream ends |
| `net.js` | `_connecting`, `destroyed`, `_pendingData`, the handle; a server's `_connections`, `_slaves` | connect, write, `destroy`, `destroySoon`, `onread`; server `close`, `_emitCloseIfDrained` | TCP handles, streams, the socket lists of `child_process.js` | half-open connections; destroy with requests under way; a server whose connections live in other processes | one `close`, after the handle is closed; a server's `close` after its last connection, wherever it is |
| `child_process.js`: the channel and the socket lists | `connected`, `_channel`, `_handleQueue`; `channel.buffering`; a list of sockets per server and child | `send`, `_send`, `disconnect`, `_disconnect`, `onread`, acknowledgements; `SocketListSend`, `SocketListReceive` | the other process, `net.Server`, `cluster` | handles are acknowledged one by one while messages queue; either side disconnects or dies in between; a chunk of the pipe holds several messages or a piece of one | a queue in each direction; what was accepted arrives; `disconnect` comes once |
| `cluster.js` | `cluster.workers`, `handles`; a handle's `all`, `free`, `handles`; a worker's servers | `fork`, `queryServer`, `add`, `remove`, `distribute`, `handoff`, `close`, `disconnect`, `exit`; `_getServer`, `onconnection` | the channels, `net.Server` | connections and the news that a worker listens, closes or leaves cross each other | each connection is served once or closed; no worker is idle while one waits; `cluster.disconnect()` calls back |
| `_http_server.js`, `_http_outgoing.js`, `_http_incoming.js` | `incoming`, `outgoing` queues of a connection | parser callbacks, `assignSocket`, `detachSocket`, `resOnFinish`, `abortIncoming` | `net.Socket`, the parser | pipelined requests answered out of order; three parties that stop and start one socket; user code in the middle of an abort | responses leave whole and in the order of the requests; the socket is read again; no connection is left open |
| `http-parser.js` delegate | parser state, body bytes left | `execute`, `reinitialize`, `finish` | http library | input cut anywhere | the same result for every cut |
| `domain.js`, `events.js` | the stack of domains; listeners | `enter`, `exit`, `emit` | fatal exceptions | an exception leaves a domain on the stack | the stack matches the call stack |
| `module.js`, `NativeModule` | the cache | `require` | files | cycles, modules that throw | a module's code runs once |
| `fs.js` and the WinRT bindings | none of interest in the library | | | the bindings are stubs that fail on first use | |
| `path`, `url`, `querystring`, `string_decoder`, `util`, `punycode` | none (one partial character) | pure functions | | | agree with a reference definition |
| application shell, `nodeAppKitWinLib`, vendored libraries | user interface; third party | | | | not modelled |

`PROJECT.json` lists every component with its status and every hazard with its line.

## Plan

1. `Writable` (with `OrderedSink`, what it promises) — the heart of every stream. Done.
2. `HttpAgent` — the pool with the most racing events. Done.
3. `EventLoop` — ticks, immediates and exceptions. Done.
4. `Timers` — lists, handles, exceptions, drift. Done, but for `_unrefActive`.
5. `Readable` — the readable side with its pipes to several destinations. Done.
6. `Zlib` — Transform and zlib, both sides of one stream with the binding. Done, but for
   `params`, `reset` and closing by the user.
7. `HttpServer` — one connection, with pipelined requests. Done, but for upgrades and responses
   without a body.
8. `IpcChannel`, and over it `Cluster` and `SharedServer`. Done.
9. Left: `_unrefActive` and `unrefTimeout`, the list behind socket timeouts; the `http-parser`
   delegate; connecting and reading of `net.Socket`; domains and module loading.

Proofs: `EventLoop`, `Timers`, `Writable`, `Readable`, `HttpAgent`, `IpcChannel` and `HttpServer` are
done (see Proofs, which also says what is left to TLC).

## Modules

JavaScript has one thread. What makes the state space large is that the library calls user code
in the middle of its functions. Every module therefore keeps, explicitly, what is still to run in
the current turn (a call stack or the one loop that can be interrupted) and what runs in later
turns (ticks, immediates, `close` events). A step of the specification is a piece of code between
two points where somebody else's code can run.

**`Writable`** (`_stream_writable.js`). `todo` is the call stack, one item per continuation point:
`body` is the implementation's `_write`, `clear`/`loop`/`emptied` are the points of `clearBuffer`,
`defer`/`after`/`ack`/`acks` those of `onwrite` and `afterWrite`, `finishMaybe`/`finish`,
`endUncork`/`endWritable`/`endTail` those of `end`; `user` is any handler or callback, which may
call `write`, `cork`, `uncork`, `end`. `ticks` is the tick queue. A chunk is its number and its
length; `size`, `sunk`, `acked`, `finishes`, `failed` are history. Whether a method is `_write` or
`_writev` is configuration. User code is assumed to run inside `_write` (as in a Transform) but not
inside `_writev` (the implementations that have one only call a binding). An implementation that calls
back before `_write` returns is assumed to do so last: no user code runs in the rest of that call
(`unsync`). A handler of `prefinish`
or `finish` that writes is a switch, `LateWrites`, since the code is wrong there (see Divergences).

**`OrderedSink`** is what `Writable` promises: accepted writes are handed over at most once and, as
long as no write failed, in order. `Sink == INSTANCE OrderedSink` maps by name: `accepted` is
`Len(size)`.

**`HttpAgent`**. The agent's three pools for one host name are sequences of requests or sockets; a
socket is its number. `destroyed`, `closing` (the `close` event is due) and `ending`
(`destroySoon`) are what the agent can see of `net.Socket`; `listening` says whether the agent's
listeners are still there (`agentRemove` takes them off); `ticks` holds the deferred `onSocket` and
`free`. A response arrives, ends with or without keep-alive, upgrades; a request aborts; a
connection fails or is closed by the peer at any time, in use or idle.

**`EventLoop`**. `nextTickQueue`, `kIndex`, `kLength` and the immediates as in the code; `stack` is
the call stack with its frames of `_tickCallback` (`ticks`, and `tock` for the call it makes), of
`processImmediate` (`imm`, with what remains of its batch) and of the host (`host`, which runs the
ticks when its callback returns). `Throw` puts an exception in flight; the frames it crosses run
their `finally` blocks (`TockThrows`, `ImmThrows`); `FatalException` catches it or ends the process.

**`Timers`**. A list is a duration and a number, so that a new list of a duration can exist while
the old one is still being run; `lists[d]` is the one the library knows. `due` is when a handle
fires, `running`, `started` and `calling` are the state of `listOnTimeout` while a callback runs.
`now` is `Timer.now()`; `Drift` lets it move while JavaScript runs.

**`Readable`** (`_stream_readable.js`). The functions of the source are functions from a record, the
fields of `_readableState`, to such a record; `todo` and `ticks` in it are the call stack and the
tick queue, as in `Writable`. `wanted` says that `_read` was called and not yet answered; an
implementation answers inside `_read`, in a tick or in a later turn, once per `_read`; an `eager` one, as
`net.Socket`, whose `_read` only starts its handle, answers in turns of its own until `push()`
returns false. Bytes are numbered as pushed: `taken` are those that left through `read()`
or `'data'`, `got[d]` those a destination was given. A destination is a writable stream seen from
outside (`write` returns false when it holds `DestMark`, `'drain'` follows when it holds nothing;
this is what `Quiescent` and `Settled` say of `Writable`); it may also finish or break. What is
assumed of the user (unless `Barge`): data are made to flow only while no destination is full; a
`'data'` handler that was added before a destination neither reads nor unpipes; bytes are given
back only if no destination has them. Without the first, `awaitDrain` is wrong (see
Divergences); without the second, later listeners see chunks in the order of the nested calls.

Destinations write all they hold at once.

**`HttpServer`** (`_http_server.js` with `_http_outgoing.js`, `_http_incoming.js`, `_http_common.js`
and what they use of `net.js`). One connection is a record, `conn`, and the functions of the source
are functions from records to records; `todo` is the call stack, cut where user code runs: inside
`parser.execute` after each request head, between the requests of `abortIncoming`, in `drain` and
`close`. `res[n]` and `req[n]` are response and request n. `wire` is what the socket was given,
`held` what it has not written; `given` is what the user gave a response to send, in order, and
`aborted` counts `'aborted'` events: history. The parser is the one the library expects: it may find
any number of heads and pieces of body in what it is given, and has `pause` and `resume`, which the
port's binding lacks. The socket's writes complete later, all at once. A response that is sent in
pieces of known length is written with buffers, others with strings: this decides whether the head
goes to `output` first. Three things are assumed unless `Careless`: `Ends`, that no response is ended
in the handler of an aborted request while others are still to be aborted (see Divergences); `Sends`,
that the client sends nothing more once a response that ends the connection has left while others
were queued behind it: such a request would get the socket ahead of the queue; and, in `Write`, that
no buffer is written while a "100 Continue" waits in `output`, since its head would overtake it (see
Divergences).

**`Zlib`** (`zlib.js`, `_stream_transform.js`, the binding). `s` is the whole stream, as a record:
the fields of the writable, transform and readable states, of the `Zlib`, and of the binding. The
functions of the source (`TRead`, `TWrite`, `OnWrite`, `FlushChunk`, `HandleWrite`, `Push`, ...)
are functions from such a record to such a record; the writable and readable parts are those that
`Writable` and `Readable` model in full, cut down to what a transform calls. `job` is the call the
binding runs in the next tick. User code runs where the code calls it: in `'readable'`, inside
`push()`, between the parts of `RunEngine`, and in the callback of a write, before
`afterTransform` goes on. Of the engine, pako, `Runs` says how much of what it holds it
may give, `BufError` when it answers `Z_BUF_ERROR`, which the binding takes for an error. A check
that the program makes and that fails (`write already in progress`, `already finalized`, the two of
`done`) sets `clash`.

**`OrderedPipe`** is what a transform promises to its reader; `Pipe == INSTANCE OrderedPipe` maps
`closed` to `ending` and `ended` to `endEmitted`.

**`IpcChannel`** (`setupChannel` of `child_process.js`). `end[e]` is the target at one end,
`wire[e]` what it has written and the other has not read. `Read` takes a chunk off the wire: some
messages, perhaps a piece of the next; `OnMessage`, `OnHandle`, `OnAck` are the passes of the loop
in `onread`, between which handlers of the user may send and disconnect. `Send` and `Flushed` hold
the rules of `_handleQueue`; `HungUp`, `Cut`, `Finish` the three states of a target; `Crash` ends
a process, `Eof` is seen by the other. An end that closes its pipe or dies loses what is still in
its handle (`Out`): the other end gets the first of its frames, and perhaps a piece of the next.
A message with a handle is taken to come in one piece, at the end of a chunk; the code relies on
one such message in a chunk. **`FifoChannel`** is what it promises, two queues;
`Fifo == INSTANCE FifoChannel` maps `sent` to the number of messages accepted.

**`Cluster`** (`cluster.js`). The functions of `RoundRobinHandle` are functions from the state of
the master to such a state. Messages between master and worker are kept in two queues, `out` and
`inbox`. This is sound because `IpcChannel` implements `FifoChannel`; of what a queue does
not have, that the end of a channel with a handle unacknowledged is not reported by `'disconnect'`
(`Told` of `IpcChannel`) is in `ChannelEnds`, and that a send to a worker that has gone may fail in
`Sends`: the message and its connection are lost, and the `'error'` of the worker is either heard or
ends the master. Two cases are left to `IpcChannel`: an end that closes is taken to have written out
all it sent, and to wait for no message that has come already. `gen` numbers the handles of the
address, since a reply may come after the handle it belongs to is closed. Switches: `Overlap`, a worker listens
again before the master has finished with its last server; `ExitFirst`, a process is reported dead
before its channel has ended.

**`SharedServer`** (`net.js`, `child_process.js`). The server's `_connections` and `_slaves`, its end
of the channel to each slave with `_handleQueue`, and each slave's `SocketListReceive`. `place` says
where each connection is. A socket is counted out when `handleConversion` lets go of it, which for
a queued one is when the queue is sent (`Resend`). As in `Cluster`, messages are queues, and a slave
that goes with a socket unacknowledged gives no `'disconnect'`. The channel ends when the slave
dies (`Die`), when it disconnects and lives on with its sockets (`SlaveDisconnect`), and when the
server's process disconnects it, once its queue is sent (`Disconnect`, `Finish`); each end learns of
it by the end of the pipe (`OnDisconnect`, `SlaveEof`). `close()` may fail to write to a slave that
has gone: the `'error'` is heard, or thrown out of the loop, which leaves the rest unasked
(`thrown`). `LateSends`: sockets are sent after `close()`.

**`MCWritable`** names the lengths of chunks and the failures that TLC tries. The other modules are
checked as they are. Definitions marked `(mutant: ...)` are faulty variants of the definition that
follows them, at least one for each property, which the property must detect.

## Runs

| run | bounds | what it shows |
|---|---|---|
| `Writable` | 4 calls by the user, chunks of length 0 and 1, high-water mark 2, implementations with and without `_writev`, synchronous or not, failing or not | the counters are exact at every point of every interleaving (`Accounting`); the stream implements `OrderedSink` (`OrderedDelivery`); an idle stream owes nothing (`Quiescent`); `finish` comes once, after all callbacks, accepted writes are called back, `drain` follows a full buffer, `finish` follows `end` (`Settled`) |
| `HttpAgent` | 3 requests, 2 sockets, 1 free socket, keep-alive | a socket is in one place and serves one request (`Exclusive`); a request that waits has a socket to wait for (`NoLostWakeup`) and is served (`Served`) |
| `EventLoop` | 3 ticks, 3 immediates, 2 exceptions, trimming beyond 1 | `TickOrder`, `Kept`, `AllRun` |
| `Timers` | a timeout and an interval, delays 1 and 2, time to 5, 1 of drift, 1 exception | what is on a list has a handle that will fire (`Armed`); timers fire once, never early, never after a clear (`OnceInTime`), and do fire (`Fires`) |
| `Readable` | 2 destinations of mark 2, high-water mark 2, 2 chunks of 1 or 2 bytes, reads of 1, 3 bytes or all, 3 calls by the user | nothing is lost, repeated or reordered, to the reader or to a destination (`InOrder`); a stream at rest waits only for what will come (`NoStall`); `end` is last, and pipes deliver everything and end (`Complete`) |
| `HttpServer` | 3 requests or pieces of body together, 3 calls by the user, a socket that is full with 2 pieces, with and without `httpAllowHalfOpen`, request 2 may expect 100-continue | the wire carries each response whole, in order (`InOrder`); the asserts of the handlers hold, requests and responses are each in one place (`Accounted`); at rest the server reads, or waits for a drain or a reader, and a finished response has been sent (`NoStall`); connections that ought to close do (`Closes`) |
| `IpcChannel` | 4 messages in both directions together, chunks that hold several or end inside one, processes that lose the last of what they wrote, or die | acknowledgements come to who waits for one (`OneHandleAtATime`); the ends are two queues (`IsFifo`); what is accepted is delivered, and `disconnect()` is followed by `'disconnect'`, also when it has to wait for the rest of a message (`Settles`); the cases in which the code does not are named there |
| `Cluster` | 2 workers, 2 connections, 3 calls of `listen` | a connection is served once or in one place, a worker that listens is ready or has one connection (`Dispatching`); connections that wait are taken, and `cluster.disconnect()` calls back once the workers it asks have gone (`Dispatched`) |
| `ClusterLeak` | 2 workers, 1 connection, `ExitFirst` | violation: finding 1 |
| `Zlib` | deflate; 4 units in chunks of 1 or 3, marks of 2, an output buffer of 2, 2 flushes of either kind | the engine is called once at a time (the clash of `TypeOK`); a flush that has called back has delivered (`Flushed`); the stream implements `OrderedPipe` (`IsPipe`); it ends and flushes call back (`Ends`) |
| `ZlibInflate` | inflate, no flush | violation: finding 2 |
| `SharedServer` | 3 connections, 2 slaves | counts are exact, `'close'` comes once and not before the connections of the slaves that are still connected have gone (`Drained`); it comes (`Closes`) |

Why the bounds are enough. A write goes wrong by what happens between two completions: four
calls suffice for a chunk in progress, one in the buffer, one written while the buffer is being
cleared, and the call (uncork, end) that starts the clearing. Two sockets and three requests give
a queue, a pooled socket and a socket in use at once. Two exceptions let an exception meet what
another left behind, and a limit of 1 in place of 1e4 makes the queue be trimmed in nearly every
run. Two durations let a timer move between lists, five units of time let a list fire, be resumed
after an exception, and fire again; three lists of a duration are never in use at once. In
`Readable` one chunk fills a destination or the buffer, or half of it, two chunks let the second
find the first buffered, under way or gone, and a read of 3 raises the mark; two pipes and one more
call let a destination be full, leave or break while the other goes on. In `HttpServer` three
requests make a queue behind a response under way, or one of them has a body that nobody reads;
three calls answer them in any order, or fill the socket before a request comes. In `IpcChannel`
four messages let a handle be queued behind a handle with a message between, and the other end
send meanwhile; a chunk that ends inside a message needs one message behind it. In `Cluster` three
calls of `listen` let both workers listen and one of them come back with a second handle, two
connections let one wait while one is refused. `Zlib`: a chunk of 3 overruns the output buffer, a
chunk of 1 leaves room in it, both fill the marks; two flushes let one wait for `'drain'` and one be
transformed, or follow each other with nothing between. `SharedServer` needs two slaves for the
order of their answers, and a connection to be sent, one to be queued behind it, and one to go to the
other slave, stay or close.

Runs do not check deadlock: a program that has nothing left to do stops.

### Fairness

`Writable`: code that has started runs to its end and ticks run (`WF(Step)`), and an
implementation that holds a callback calls it (`WF(CompleteLater)`); both are what the docs of
`_write` ask of an implementation and the host of a program. The user is never forced to act:
`Progress` is stated for users who eventually leave the stream uncorked. `HttpAgent`: ticks run, a
destroyed socket closes, a server answers or the connection fails. `EventLoop`: code runs to its
end, and the host looks at `_needImmediateCallback` in each iteration, which is strong fairness,
since other events may come between and an immediate may be cleared and set again. `Timers`: time
passes and what is due happens. `Readable`: code runs to its end, an implementation that was
asked by `_read` pushes in some later turn (the contract of `_read`), and a destination writes what
it holds and finishes after `end()`, unless it breaks. `HttpServer` assumes no fairness: `Closes` says of a connection at rest that it is destroyed or will
be by the writes it still holds. `IpcChannel`, `Cluster`, `SharedServer`: each process that lives
reads its pipe and runs its ticks; nobody is made to send, disconnect or die. `Zlib`: ticks run, and
who was told `'readable'` reads until there is nothing to read, which is what its docs ask of a
reader.

### Findings

1. `ClusterLeak`. The assert of the master says 'Resource leak detected.' of handles that are left
   when the last worker disconnects. `'exit'` deletes a worker from `cluster.workers` before its
   `'disconnect'` has removed it from the handles. The run: a worker listens and dies, its exit is
   noticed before the end of its channel, and another worker, now the only one in
   `cluster.workers`, disconnects; its `'disconnect'` finds no worker and a handle, the assert
   fails and the master throws, though nothing has leaked.
2. `ZlibInflate`. Of an exhausted output buffer zlib.js says "Not actually done.  Need to
   reprocess." The binding takes `Z_BUF_ERROR` for an error, and pako answers it when it is told to
   finish and the output buffer is exhausted before the end (the last chunk still waited when
   `end()` was called), or when the call before has filled the buffer exactly and nothing is left
   to do. The stream emits `'error'` and the rest of the data is lost.

### Divergences the model can show

The passing runs leave out some uses of the code for which a comment promises what the code does
not do. For each, the constants to change in the run's configuration and the
property that TLC then finds violated.

- `Writable`, `LateWrites = TRUE`, `NoCallbackPendingAtFinish`: the comment on `pendingcb`
  (`_stream_writable.js:114`) says that it must be 0 before `finish` can be emitted. `finishMaybe`
  tests it before `prefinish`, not after: a `prefinish` handler that runs inside `end()` may still
  write.
- `HttpAgent`, `KeepAlive = FALSE` and `MaxSockets = 1`, `WithinLimit`: `addRequest` (`_http_agent.js:165`) makes sockets under the limit only.
  `removeSocket` makes one for the first waiting request each time it is called, by `free` for a
  socket that cannot be kept and again by the `close` of that socket.
- `Timers`, `UnrefdLeavesTheList`: the wrapper of an interval (`timers.js:290`) means to take an
  unref'd timer off its list. When the timer's own handle fires, `this` is the handle, and the timer
  goes back on a list.
- `Readable`, `Barge = TRUE`, `WritersAwaited`: `awaitDrain` (`_stream_readable.js:82`) is said to be
  the number of writers that await a drain. It counts writes that returned false; a destination
  that is written to past its mark counts twice, its one `drain` does not bring the counter to 0,
  and the source stays paused. Of users who do not, the comment is true (`WritersAwaitedHolds`).
- `HttpServer`, `Careless = TRUE`, `IncomingHead`: the comment before the assert in `resOnFinish`
  (`_http_server.js:453`) allows for the array that `abortIncoming` has emptied; a handler that ends
  the response of an aborted request while later ones are still listed reaches the assert with
  another request at the head.
- `SharedServer`, `LateSends = TRUE`, `Drained`: a socket sent to a child after `close()` is counted
  out, and the server emits `close` while the socket lives in the child. `Drained` also says why it
  asks nothing of connections that stay here when slaves exist: `onSlaveClose` sets the count to 0,
  so `close` does not wait for them, and their own end takes the count below 0. And it speaks of
  connected slaves only: one that was disconnected, from either side, counts as closed
  (`child_process.js:213`), and goes on with the connections it has.
- `HttpServer`, `Careless = TRUE`, `InOrder`: `_send` (`_http_outgoing.js:131`) puts the head of a
  response that begins with a buffer in front of the "100 Continue" that waits in `output`.
- `Cluster`, `Overlap = TRUE`, `Dispatching`: a worker that closes and listens again while a reply of
  it is on its way stands twice in the list of ready workers.
- `Zlib`: two calls of `flush()` of the same kind with nothing written between make the engine
  answer `Z_BUF_ERROR` to the second, and the stream fails (`Flushed` checks that nothing is lost by
  then); a `flush()` that waits for `'drain'` loses its kind, and never calls back when `end()` is
  called first (`Ends` names the case).

## Proofs

A component's theorems are in a module of their own (`EventLoopProofs` and so on), which extends the
component's module; `SequenceLemmas` has what they share about sequences. Each theorem holds for
every value of the constants that the module's named assumption allows, which says of bounds that
they are natural numbers and of sets of names that they do not overlap. In each module the argument
is an inductive invariant, with a lemma for each action of the specification; the invariants were
first checked by TLC on the component's run.

| module | theorem | states |
|---|---|---|
| `EventLoopProofs` | `TypeCorrect`, `TicksInOrder`, `ImmediatesKept` | `TypeOK`, `TickOrder`, `Kept` |
| `TimersProofs` | `TypeCorrect`, `ArmedHolds`, `OnceInTimeHolds` | `TypeOK`, `Armed`, the action property `OnceInTime` |
| `WritableProofs` | `TypeCorrect`, `Implements`, `AccountingHolds`, `QuiescentHolds`, `FinishSettledHolds` | `TypeOK`, the refinement `OrderedDelivery`, `Accounting`, `Quiescent`, the action property `FinishSettled` (the safety part of `Settled`): all of handlers of `prefinish` and `finish` that do not write, `LateWrites = FALSE` |
| `ReadableProofs` | `TypeCorrect`, `BytesKeptHolds`, `OrderKept`, `EndLastHolds`, `WritersAwaitedHolds`, `DrainAwaitedHolds` | `TypeOK`, the part of `InOrder` about the stream, `InOrder` when `Barge = FALSE`, the action property `EndLast`; when `Barge = FALSE`, `WritersAwaited` and the part of `NoStall` about pipes |
| `HttpAgentProofs` | `TypeCorrect`, `ExclusiveHolds`, `NoLostWakeupHolds` | `TypeOK`, `Exclusive`, `NoLostWakeup` |
| `IpcChannelProofs` | `TypeCorrect`, `OneHandle`, `Implements` | `TypeOK`, `OneHandleAtATime`, the refinement `IsFifo` |
| `HttpServerProofs` | `TypeCorrect`, `OrderKept`, `AccountedHolds`, `NoStallHolds`, `ClosesHolds` | `TypeOK`, `InOrder`, `Accounted`, `NoStall`, `Closes`, when `Careless = FALSE` |

**`EventLoopProofs`.** `TypeOK` and `TickOrder` are inductive together: that the entry called next is
the right one follows from its position, that trimming (`tickDone`) keeps positions right needs the
count, and counting needs the types. For the immediates the invariant is `Places`. `Stored`: each
immediate that waits is in `immediateQueue` or in the local queue of a `processImmediate` on the
call stack, in one place only. `Known`: the host comes back for what is queued, except while an
exception unwinds the stack. The exception is needed: `clearImmediate` stops the host when it
empties `immediateQueue`, though a local queue may hold more; only an exception puts that rest back,
and what handles an exception sets an immediate of its own.

**`TimersProofs`.** The invariant has two parts. `Looked` is about the lists: each list that holds a
timer, and each list a new timer would join, is being run, waits for its tick or is armed
(`Watched`); lists are sorted and disjoint; and no list is armed for later than its timers allow,
up to the drift. `Timer` is about one timer at a time: a timer in a list has noted when it joined, has
no armed handle, is not being called, and has not fired; one with a handle is due after its delay;
one that was cleared is called by neither. That a repeated interval does not join a list while its
own handle is armed rests on the last conjunct of `Called`: a callback that runs outside
`listOnTimeout` was started by the handle of its timer.

**`WritableProofs`.** Each step of `Writable` is a step of `OrderedSink` or a stutter. `Delivery` says
where the accepted writes are: handed over, or in the part of the buffer that `clearBuffer` has not
reached; until a write fails, in this order. A write that finds the stream idle is handed over at
once, so the order rests on the buffer being empty then. `Clearing` says so in terms of the call
stack: one `clearBuffer` runs at a time, user code finds it only inside the body of a write under
way, and buffered writes that nobody is in charge of have a `clearBuffer` on top of the stack.
`Closing` says that until `end()` returns only the handlers of `prefinish` and `finish` run. They do
not write, which is the hypothesis: with `LateWrites = TRUE`, TLC finds that a handler of `finish`
which corks, writes, uncorks and writes again before `end()` has returned has the second write
delivered first. The hypothesis is that of the run.

`Books` is the invariant of the counters. `LedgerOf`: a write that was handed over is in progress, is
named by exactly one item of the stack or of the tick queue, which is to run its callback, or has
been called back; `pendingcb` counts those that are not called back, and once more each batch whose
own callback is to come. `SumsOf`: `length` is what is in progress and what is buffered and not
written; after a `_writev` that failed, whose chunks stay counted, it is at least that, which is why
`writelen` cannot be too large. `Starting`: a `clearBuffer` that has handed over nothing yet finds no
write in progress, or the write it starts would replace one that was not called back. The sum
`Total` is a recursive function; that it exists, and what it is of a sequence with one more element,
is proved like `FlattenSeq` (see `SequenceLemmas`).

`Wakeful` is the invariant of what is still to come. `Awake`: while a `'drain'` is owed, a write is in
progress or buffered, or the `afterWrite` of one is on its way (`Busy`); while a `'finish'` is owed, one of
these, or a `finishMaybe`, or `'finish'` itself; and callbacks on the stack have a `finishMaybe` below
them. `afterWrite` decides by `length = 0` whether to emit `'drain'`, and `finishMaybe` by `length` and
`pendingcb` whether the stream is finished, so that neither gives up too early rests on `Books`: with
no write in progress, none buffered and no callback to run, both counters are zero (`NothingOwed`).
`FinOk`: an `afterWrite` that remembers the stream as finished, and so emits no `'drain'`, belongs to an
ended stream. `Finishing`: from the decision in `finishMaybe` to `'finish'` only the handler of
`'prefinish'` and its calls run (`Nested`); they cannot write, which is the hypothesis again, so all is
still settled when `'finish'` is emitted, and it is emitted once. That every accepted write was then
called back is a matter of counting: no callback runs twice, and each is of a write handed over.

**`ReadableProofs`.** The functions of the source take a stream to a stream, so the lemmas do too:
`...Goes` says what a function may do to a stream (`Aside`: flags and ticks; `Over`: plain items on the
stack; `Leads`: a `read()` up to the call of `_read`), `...Keeps` what an action does to the invariant.
`Bytes` is the order of the bytes. A `read()` that has called `_read` takes, when it goes on, what it
counted before, so `Reads` says that it is still there: only a `push()` runs above it, the body of
`_read` is `sync`, and a sync stream neither emits a chunk at once nor runs `'readable'`. `Told` is
about the destinations: a chunk that one of them has yet to get is the end of what was taken, and
its `'data'` is on top of the stack or below one handler of the user's; a destination that was piped
to all along has the rest. This is where `Barge = FALSE` is used, through `AllTold`: a handler that
reads or unpipes while later listeners wait for the chunk would put other bytes in front of it. The
types, `Bytes` and `EndLast` hold whatever the user does. `EndLone` says that the tick of `'end'` runs
with nothing below it: no chunk is on its way when `endEmitted` is set, and none is emitted after it.

`DrainInv` is the invariant of sources that wait for a `'drain'` (`...Drains` are its lemmas), for a
user who does not barge. `Awaits`: `awaitDrain` is no more than the listening destinations that are
full, except those that a chunk is still on its way to, who would be counted for it again. `Stops`: a
stream whose `flowing` is not `false` awaits nobody, and a source that pipes and is not flowing,
though the user has not paused it, awaits someone; a `read()` under way can return bytes only while
none is awaited, so that no chunk is sent to a destination that is full already. `Connected`: each
destination that listens is in `pipes` or in the list of one `cleanup` on the stack, and not in both,
so a destination that is awaited is one that is piped to, and its `'drain'` or its `cleanup` will
count it. It follows that what line 82 says of `awaitDrain` is true of such users, and that a source
the library has paused waits for the `'drain'` of one of its destinations, for any number of them
and any marks and sizes. TLC checked `DrainInv` on one configuration exhaustively (1.34 million
states) and on 110 million states of simulated behaviours before it was proved.

**`HttpAgentProofs`.** `Consistent`: a socket is idle when no tick names it and no request is on it;
only idle sockets are pooled or given away, and the tick that hands a socket over, or announces it
free, is the only one that names it. Each step of the agent is a composition of a few changes of
the pools and ticks, each of which keeps it. `NoLostWakeup` rests on `Watchful`: the agent
listens to every pooled socket, and one that is out of the free pool is in use, named by a tick,
about to close, or being ended.

**`IpcChannelProofs`.** For each direction, `Flow`: what the receiver still has to handle of the
sender's frames carries consecutive numbers that begin after the last message delivered, and goes on
in the sender's queue. A send that bypasses a queue would break it; none does, since an end with a
queue waits for an acknowledgement (`OneHandleAtATime`), and an acknowledgement empties the queue up
to the next handle. `ChunkRead` says what a chunk in the middle of being handled leaves. An end that
closes or dies cuts its frames to a beginning of them and sends nothing after, so the numbers stay
consecutive (`FlowSenderCloses`); that it writes only while its pipe is open is part of `ThreeStates`.

**`HttpServerProofs`.** The queues of a connection are intervals (`Queues`): requests up to `Done` are
answered, `incoming` holds those after `Heard`, `outgoing` the responses after `Out`, and at most one
response, number `Out`, has the socket or is about to get it. `Wires`: while the socket is writable,
the wire followed by what that response has yet to write is what all responses so far were given;
afterwards the wire stays, and what it holds remains a beginning of it, since a response that is
finished is given nothing more. `Stack` says who may change the queues: a response gets or gives up
the socket only on top of the call stack, and not while `abortIncoming` is under way, which is where
the hypothesis `Careless = FALSE` is used; so the assert of `resOnFinish` holds. `Continues` keeps
`writeContinue` ahead of the first write. The other use of the hypothesis is in `parserOnIncoming`:
a request that arrives when responses are queued and none has the socket would overtake them.
The hypothesis is that of the run; without it TLC finds the divergence named above.

`NoStall` and `Closes` speak of a connection at rest, and need a second invariant, `Live`, which says
at every step what will let each thing that waits go on. `Ended`: a socket that is not writable is
destroyed, or ends with data it still holds and is destroyed when they are written; a last response
that is answered has ended it; when the client has ended, the socket is about to be ended or the
newest response is the last. `Sent`: if responses are queued, one has the socket or is about to get
it; the one that has it has nothing left to write, and once finished it is about to give it up.
`Waiting`: a user who was told to wait has data in the response's own buffer, or has the socket and a
drain to come. `Fed`: a socket that does not flow was paused, with a drain to come, or its newest
request keeps all the body it can; a request that is read or thrown away is emptied in a tick, and
an answered one is one of these. `Live` is inductive only together with the first invariant, `Inv`:
that a finished response with all before it finished has been answered follows from `Queues` and
`Sent` together. TLC checked `Inv` and `Live` on the constants of `HttpServer.cfg` (4,203,190 states)
before they were proved.

**`SequenceLemmas`.** What `ToSet`, `IsInjective`, `Append`, `Tail`, `\o` and `RemoveFirst` do to the
elements of a sequence and to their order, when a sequence is a beginning of another (`IsPrefix`), and
that `FlattenSeq` of a concatenation is the concatenation of both.
`RemoveFirst` is defined with CHOOSE, so its lemma needs that a set of numbers has a least element
(from the well-foundedness of `<` on the naturals). So does `FlattenSeq`, a recursive function: that
there is a function with its defining equation, and one only, is proved from that fact, not by the
library's induction theorems.

Only model-checked:

- liveness: `Served`, `AllRun`, `Fires`, `Ends`, `Dispatched`, `Settles`, `Closes` of
  `SharedServer`, and the liveness in `Settled` and `Complete`. It is out of the prover's reach.
- `Cluster`, `SharedServer`, `Zlib`: their properties count (sums over the handles of an
  address, the sizes of sets, folds over queues).
- `NoStall` of `Readable`, except its last part, about pipes (`DrainAwaited`). The others, about who
  waits for `'readable'` or flows, depend on the sizes that are read, not only on the order of the
  calls, so their inductive invariant has to follow the buffer, the mark and the pending reads through
  each nested call; it was not attempted. `Readable.cfg` checks it with reads of 1 and 3 bytes; it also
  held in 280 million states of simulated behaviours with 5 chunks, 8 to 10 calls and marks of 0 to 3.
  A read of no bytes is left out of the run because with it an eager implementation does stall: a
  user who in one `'readable'` handler of a `net.Socket` calls `read(0)`, `read(1)` and `read(0)`
  clears `needReadable` while `reading` is set; the next `push()` returns false, so the socket stops,
  and `reading` stays set, so nothing starts it again.

## Not modelled

The bindings of the port are stubs (undeclared variables, "Not Implemented"), but for the zlib
binding, so a model of them would be a model of code that stops at its first line; the library is
modelled against the handles it expects. Most lines of the repository are third-party or generated:
the bundles of `builtin-replacements`, with the benchmarks of the buffer package, pako, and the
crypto, DNS and VM shims. They, and the application shell, have no logic of the program. `fs.js` is
a thin layer over a binding that fails on its first call. `params()` of a zlib stream always
throws in the binding ("deflateParams Not supported"). `getConnections` of a server and the polling
behind it change no state. The rest of the library is either planned (above) or has no state that its unit tests do not show.
