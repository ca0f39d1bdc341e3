# A TLA+ verification of yprocmon

yprocmon monitors Windows processes. `yprocmon.exe` launches a program with
`yhook.dll` in it; the DLL detours 23 API functions and reports every call over
a named pipe; the monitor collects the reports and pushes them to a web front
end. This directory holds TLA+ models of its own code (`src/src`), TLC runs on
small instances, and TLAPS proofs for all instances.

Paths below are relative to the root of the repository's tree, where the
program's code is `src/` (`src/yipcsrv.h`, listed as `src/src/yipcsrv.h` in
`PROJECT.json`) and the front end is `yprocmon-front/`.

## The system

```
 monitored process                yprocmon.exe                         browser
 +-----------------+   pipe   +------------------------------+
 | program         |  x 4     | IPC thread   (yipcsrv.h)     |
 |  hooked calls   |--------->|   push_message (yprocmon.cc) |
 | yhook.dll       |          |     state.messages           |
 +-----------------+          |     m_actions                |
        ^                     | processing thread            |  WebSocket
        | launches, waits     |   (ywebsock.h)  --------------------------> App.js
        |                     | asio thread: on_open/on_close|
 waiter thread per process <--| HTTP workers (yhttp.h)  <----------------- api.js
   (_detour_program)          |     state.instances          |   HTTP
                              +------------------------------+
```

### Components

| component | code | state | operations | correct when |
|---|---|---|---|---|
| IPC server | `src/yipcsrv.h` | `Pipe[4]` (dwState, fPendingIO, chRequest), `hEvents[4]` | start, wake on an event, read, file, reply, disconnect and reconnect | each message is filed once, in order, under the right pid; no instance is forgotten; the loop never ends |
| Shared state | `src/yprocmon.cc:26-31`, `src/yprocmon.h` | `state.messages`, `state.instances`, `state_mutex` | push_message | entries reach the queue in the order of the vector |
| Broadcast server | `src/ywebsock.h` | `m_actions`, `m_connections`, two locks, a condition variable | on_open, on_close, push_message_entry, process_messages | every subscriber gets an unbroken stretch of the messages; no lost wake-up; no circular wait |
| Process launching | `src/yprocmon.cc:60-131`, `src/yhttp.h:118-154` | `state.instances` with a `std::thread` each | /api/run, the waiter | exits are attributed to the right process; no thread object is misused |
| Hooks | `src/yhook.cc`, `src/yhookmap.h` | `entered`, `pipe` | attach, 23 hooked functions, detach | a report is not reported; the guard always comes down |
| Wire format | `src/yipc.h` | none | compose/parse of hook and spawn messages | parse inverts compose |
| HTTP server, files | `src/yhttp.h`, `src/yprocmon.cc:33-58` | `samples/` | list, upload; constants otherwise | a file that can be started is what its last upload wrote of it; a list misses no program |
| Start-up | `src/yprocmon.cc:133-160` | three threads | start, join | |
| Front end | `yprocmon-front/src/App.js`, `pages/Monitor.js`, `api.js` | reducer state | append, clear, update lists | batches keep their order; lists show the latest answer |
| Conversions, samples, mock client, generator | `src/ystr.h`, `src/ytime.h`, `samples/`, `src/ymockipc.cpp`, `src/yhookmap.py` | none | | |
| WebSocket connection | `include/websocketpp/impl/connection_impl.hpp`, `transport/asio` | `m_state`, `m_send_queue`, `m_write_flag`, timers | handshake, send, frames, close, terminate | writes do not overlap, no frame is forgotten, it ends as Broadcast assumes |
| HTTP pool | `include/httplib.h` | `jobs_`, the threads, the keep-alive count | accept, enqueue, take a job, keep alive, close | no connection is lost or kept, no job waits beside an idle thread, the last answer says that it is the last |
| Other vendored code | Detours, asio, rapidjson, the rest of websocketpp and httplib | | | third-party |

How they interact: processes and the IPC thread through the pipe (messages,
no acknowledgement that anybody reads); the IPC thread and the processing
thread through `m_actions`; the asio thread's callbacks and the processing
thread through the same queue; HTTP workers, waiters and the IPC thread through
`state_mutex`, which the IPC thread holds while it takes `m_action_lock`.

Where it is hard: overlapped I/O whose calls end at once, later or not at all,
with events shared by connect, read and write of an instance; clients that come
and go between any two system calls; a queue drained by one thread while
connections die under it; waiters and handlers that meet in a map by pid; a
recursion guard shared by all threads of the monitored process. The list with
lines is under "hazards" in `PROJECT.json`, each with the properties that would
catch it, or the reason why none does.

## Modules

| module | what it is |
|---|---|
| `IpcServer` | the IPC thread, the pipe instances and their clients |
| `ProcessLog` | abstract: the log of numbered messages the IPC server promises |
| `Wire` | one message: composed, read into `chRequest`, parsed |
| `Broadcast` | push_message, the queue, the asio and the processing thread, the connections |
| `Feed` | abstract: what a subscriber of the WebSocket is promised |
| `WsConnection` | one server-side connection of websocketpp, two threads at it |
| `Connection` | abstract: what `Broadcast` assumes of a connection |
| `Instances` | /api/run, waiter threads, the map of instances, reuse of pids |
| `Hooks` | the DLL in one monitored process, thread by thread |
| `HttpServer` | the listener and the thread pool of httplib |
| `SampleFiles` | /api/upload, /api/files and the start of a program, on `samples/` |
| `MessageView` | the page's list of messages: WebSocket, decoding, reducer |
| `MonitorPage` | the page's lists of files and instances: requests, upload flag |
| `*Proofs` | theorems about the module of that name; `HttpServerProofs` also about `SampleFiles`, `MessageViewProofs` also about `MonitorPage`, `BroadcastProofs` also about `ProcessLog` and `Feed` put together |
| `MC*` | model values, constants and symmetry for TLC |

How they fit together. `IpcServer` promises `ProcessLog`, whose entries
`Broadcast` passes on and promises `Feed`; `MessageView` starts from batches in
the order of `Feed`. `Broadcast` takes the steps of a connection from
`Connection`, which `WsConnection` implements. `IpcServer` knows of a message
its length only; `Wire` says what the parser makes of one that overruns the
buffer. `HttpServer` hands requests to the handlers of `Instances` and
`SampleFiles`, and `MonitorPage` sees the answers of both.

Definitions called "Mutant" in comments are altered versions of a definition
of the code. Nothing uses them: they are there to confirm that each property
notices the kind of bug it is meant for.

### IpcServer

One action is one system call of the server thread with the code up to the
next, so clients interleave between any two calls. `pc` names the next call and
`cur` is `i`. `dwState`, `fPendingIO`, `request` are the fields of `Pipe[i]`;
`event` is `hEvents[i]`, manual reset; `io` the status of the overlapped
operation in `oOverlap`; `pipe`, `peer`, `inq` are the pipe instance in the
kernel; `messages` is `state.messages`.

* Start: `CreatePipe`, `CreateFails`, `ListenFirst` are the turns of the first
  loop. Main loop: `Wake` is WaitForMultipleObjects (lowest index first) and the
  handling of a finished operation; `ReadNow`, `ReadPends`, `ReadFails` the
  three results of ReadFile; `GetAnswerToRequest` files the entry, or
  `ParseCrashes`; `WriteNow`, `WritePends`, `WriteFails` are the empty reply;
  `DisconnectNamedPipe`, `Reconnect` the two calls of DisconnectAndReconnect.
* Environment: `OpenPipe`, `OpenRefused`, `WriteToReader`, `WriteToBuffer`,
  `ClosePipe` are what yhook.dll does; `CompleteWrite` finishes a pending reply.

Assumed of Windows: starting an overlapped operation clears its event;
ConnectNamedPipe on an instance whose client has connected gives
ERROR_PIPE_CONNECTED, and another error if that client has closed already; an
instance that was disconnected cannot be opened until ConnectNamedPipe is called
again; disconnecting discards unread data; a write to a client that closed
fails; a message longer than the read fails it with ERROR_MORE_DATA.

Abstracted: lengths are counted in blocks of 4096 bytes (1 fits `chRequest`,
2 overruns it within the read, 3 exceeds the read). Of a message only its
author, number and length matter. The buffer of an instance is bounded by
`Quota` messages, not bytes. Calls that cannot fail with valid handles (SetEvent,
DisconnectNamedPipe, GetNamedPipeClientProcessId) do not. A write on a handle
the server has disconnected changes nothing and is no step. What a crash does to
the rest of the system is not followed: `MayRun` ends the clients' steps.

### Wire

A run is one message. `text` is the composer's string, then what the read
leaves of it; `p` is the parser's pointer, `count` the argument count it read,
`t` what it has put together; `pc` tells composer, read and parser apart.
`ComposeArg` and `ParseArg` are one turn of the loops of compose_hook_message
and parse_hook_message; `ParseName` is the head of the latter or all of
parse_spawn_message. Bytes range over a small base and a `size_t` is two of
them, so lengths reach into the next byte within the bounds. `ReadInto` is where
`PIPEINST` matters: behind `chRequest` lies `cbRead`, which the read's result
overwrites, and behind that `chReply`, where the rest of an overlong message
survives until it is parsed. `astray` is a read past the string's end, which is
undefined and not followed. Timestamps and the console are left out; the
capacity of the composer's string has no bound in the code.

### Broadcast

Threads: `ipc` in push_message, `asio` in its handlers, `proc` in
process_messages, `api` a request of /api/instances. A lock is not a variable:
`StateLocked` and `ActionLocked` say from the places of the threads when it is
held, and an action that takes it has the negation as its guard. An action ends
where a lock is released, at a wait, or at an event loop; each pop and each send
is its own action because connections change meanwhile. `m_connection_lock` is
left out: only the processing thread takes it. An action of the queue carries
the position of its entry in `state.messages`.

Assumed of websocketpp: one asio thread runs all handlers, so they do not
overlap; a connection goes open, closing, closed, and its close handler runs
after it is closed, when its socket has been shut down; `send(hdl, ...)` queues
the data on an open connection and throws on any other. These are the steps of
`Connection`, which `WsConnection` is checked to implement. `listen` may throw.
The catch around `m_server.run()` is left out: `feed` is what was handed to the
connection.

### WsConnection

One connection from its acceptance to its close handler. `m_state`,
`m_internal_state`, `m_send_queue`, `m_write_flag`, `m_current_msgs` and
`was_clean` are the fields of those names; `tstat` says whether terminate() ended
an opened connection or a failed handshake; `reading` and `writing` are the
asynchronous operations under way, `dispatched` the posted calls of
write_frame(), `timers` the timers that run, `expired` an expiry that is queued
and can no longer be cancelled; `shutdown` is the asynchronous shutdown of the
socket. All handlers run on the asio thread one after the other, so a handler is
one action; the sender's `send()` is three (`SendChecks`, `SendPushes`,
`SendDispatches`), since it reads the state under one lock, pushes under another
and dispatches under none. terminate() is split from its completion, as the
sender can see the closed state before on_close is called.

The browser and the network are external: they send frames of any kind
(`Kinds`), break off or stop reading at any time. yprocmon sets no message, ping
or fail handler, never calls close() itself and has no pong timeout, so those
branches are not there. Fragments, masks, extensions and payloads are left out;
a frame the processor refuses is a `violation`.

### Instances

Each request has its own copy of PROCESS_INFORMATION and of the waiter's place.
`instances` is the map, an entry with its pid, the request it was made for,
its status and whether its `std::thread` can be joined. Sections under
`state_mutex` do not block and are one action each. Assumed: the system does not
reuse the pid of a process that runs or of which a handle is open (`InUse`).
`closed` is there to make that condition explicit: the program never closes a
process handle.

### Hooks

All hooked functions have the same body (generated by `src/yhookmap.py`), so a
call is a frame: why it was made and the place it has reached; a thread is a
stack of frames. Every access to `entered` is a step of its own: the flag is a
plain bool, and a race on it has the outcomes of any interleaving of its reads
and writes. `MaxReports` cuts recursion off: deeper calls are made as if the
flag was set; without it the run that finds a recursion would not be finite.
`ExitProcess` ends other threads wherever they are. One hooked call inside a
report stands for all of them (memcpy, HeapFree). `Hook` may fail, after which
DllMain goes on without detours. `overlapped` remembers that a thread was inside
a hooked function while another one reported: until then the flag does what it
is for, and the properties say what that is.

### HttpServer

`listener` is the thread in listen_internal, `jobs` the pool's list, `place` and
`sock` where a worker is and the connection it holds, `count` the countdown of
process_and_close_socket. The mutex of the pool is held within single actions
only (`TakeJob`, `Wait`, `Break`, and enqueue in `Accept`), so it is no variable.
`KeepAlive` and `GiveUp` are the two results of keep_alive(), which waits for
data with a timeout; `ReadRequest`, `HandleRequest`, `WriteFails` are
process_request(). Routing, headers and bodies are left out; a request is its
kind:

| kind | request | answer says close | connection closed after it |
|---|---|---|---|
| keep | any other, refused ones included | if it is the last of the count | if it is the last of the count |
| close | `Connection: close` | yes | yes |
| old | HTTP/1.0 without Keep-Alive | if it is the last of the count | yes |
| torn | headers break off after `Connection: close` | yes | if it is the last of the count |
| cut | the first line never ends | no answer | yes |

What an answer says (`SaysClose`) and what the loop does (`ConnectionClosed`) are
two things in the code: the first looks at the headers that were read
(httplib.h:4754), the second is set only when all of them were (:5358-5371).
`WriteFails` is a client that has gone or that takes nothing until the write times
out. Connections are numbered in the order they are made, and `First` is the one
accept() returns. yprocmon never calls stop(): the only way out of the accept
loop is a failing accept().

### SampleFiles

A name is a number, in the order the directory is walked; the content of a file
is the sequence of blocks with the upload that wrote each. `Open` truncates,
`Write` puts one block at the upload's own position, so two uploads of one name
mix. Nothing is checked in yhttp.h:104-112: an `OpenFails` ("refused") and a
`CannotWrite`, which leaves the file as short as it is ("bad", and "short" once
closed), are answered as an upload that was `saved`. `FindFirstFile`,
`FindsNothing`, `FindNextFile` and `AnswerList` are get_files: `Matching` are the
names `*.exe` matches, of files and of directories (`folders`, which nobody
changes), and `Lists` leaves the directories out. `Run` may start a file unless it is open for writing, and the
file of a running process cannot be opened for writing: assumed of Windows, with
the sharing modes std::ofstream and CreateProcess use. Assumed of FindNextFile: it
goes through the names in order and reports those that are there when it comes to
them. A short file can be started: whether Windows would load it is not modelled.

### MessageView and MonitorPage

JavaScript runs one callback at a time; every `await` ends an action.

`MessageView`: `Send`, `SocketCloses`, `Reconnect` are the server and the <Ws>
component; `OnMessage` starts the decoding of a batch (`text()` is awaited),
`MessagesAppend` is its end, in any order, with the reducer's action;
`MessagesClear` is the button. A batch is its number. `alive` turns FALSE when
the reducer throws, which unmounts the page.

`MonitorPage`: a task is one call of an asynchronous function: a fetch of a list,
a launch, an upload. Its stages are its awaits.

* `DropFiles` is the drop: the handler that will be called is the one of the
  render on screen, so `props.uploading` is tested here. react-dropzone awaits
  the files (stage `drop`) and only then calls it; `OnUpload` is that call, which
  sets the flag. Two drops may be read at one time, and then both are accepted;
  `crossed` remembers it. The flag is tested as of the drop, not of a render
  before it: the time between setting state and the next render is left out.
* `Posted` is one answer of `Promise.all` or of /api/run. `Upload` is answered
  alike whether or not the file was stored; `stored` are those that were. `Ask` is
  the following fetch, `AnswerGet` the moment the server reads its state for it,
  `Dispatch` the arrival.
* `GetFails` and `RunFails` end a task. `UploadFails` is a rejected POST: the rest of
  onUpload does not run, while the other POSTs go on (stage `rejected`); `lost`
  remembers it. Any of them may fail before or after the server has done its part.

Leaving the page does not end its tasks, but the `uploading` flag they would reset
is gone (`mine`). `Slots` bounds the tasks under way at one time, not their number.

## Runs

| run | bounds | shows |
|---|---|---|
| `ipc` | 2 instances, 2 processes (one may come during start-up), 2 messages each of length 2 or 3, buffer of 1 | `LedgerInv` (types, `PrefixDelivery`, `Conservation`), `Attribution`, `NotForgotten`, `NeverStopsServing`, `Delivered`, `LateSlotReclaimed`, and that the server implements `ProcessLog` |
| `ipc_early` | 1 instance, one early process | `SlotReclaimed` fails: finding 1 |
| `wire` | up to 2 arguments, base 5, buffer of 10 bytes, reads of 18 | `RoundTrip`, `LossContained`, `WireInv` (types, `InBounds`, `NoMoreThanSent`) |
| `broadcast` | 2 connections, 2 messages | `SubscribersInv` (types, `Registered`, `CaughtUp`), `NoLostWakeup`, `Fed`, `GhostsLeave`, `ApiAnswered`, and that the server implements `Feed` |
| `ws` | 2 batches, 3 frames of the browser | `WriteInv` (types, `OneWrite`, `NotForgotten`), `SentInOrder`, `HandshakeEnds`, `Flushed`, and that a connection implements `Connection` |
| `instances` | 3 requests, 3 pids | `NeverTerminates`, `RightVerdict`, `Found`, `Settles` |
| `hooks` | 2 threads, 3 calls each, 2 nested reports | `GuardInv` (types, `GuardHeld`), `RecursionNeedsOverlap`, `EveryCallReported` |
| `hooks_recursion` | 2 threads, 2 calls each | `PreventRecursion` fails: finding 2 |
| `http` | 2 workers, 3 connections, 2 requests of any kind, keep-alive count 2 | `PoolInv` (types, `OneServer`, `DrainedAtEnd`), `NoJobWaits`, `AnnouncedClose`, `Released` |
| `files` | 3 uploads (one of 2 blocks) to 4 names, of which 3 match and one may be a directory, 2 walks, 2 launches | `FilesInv` (types, `LastUploadWins`), `ListComplete` |
| `message_view` | 4 batches, the last malformed | `ViewInv` (types, `ShownOnce`), `OrderedUnlessOverlapped`, `ReceivedShown` |
| `page` | 2 files, 2 processes, 2 tasks at one time | `PageInv` (types, `UploadFlag`), `RefreshNotOlder`, `ResultShown` |

Why the bounds are enough to be interesting.

* `ipc`: two instances and two processes give hand-overs of an instance, a
  neighbour that is served first and, while one instance reconnects, a refusal;
  two messages per process are the least where order and gaps exist; with a
  buffer of 1 both ways a write can meet the server (a pending read, the buffer)
  and a full buffer occur. A message of length 1 behaves as one of length 2 that
  happens to be parsed.
* `wire`: with 10 bytes a message of one short argument fits, one of two overruns
  `chRequest` by more than `cbRead` covers, and the longest exceeds the read.
* `broadcast`: two messages and two connections allow a batch before, during and
  after any join or leave.
* `ws`: two batches are the least that can be written together, apart, or on both
  sides of a close; three frames allow an upgrade and a close that crosses a
  violation or a ping.
* `instances`: any pid may come back while the other two are in use.
* `hooks`: a second thread is enough to take the guard down under the first.
* `http`: the third connection waits behind two workers that are both taken, by
  clients that are idle, silent or slow, until one of them runs out of time
  (179,578 states). With two connections for two workers a job can still arrive
  while one worker is busy and the other is about to wait, or woke for nothing.
  Two requests use up the count of one connection, or follow an answer to `torn` or
  `old` on it.
* `files`: three uploads to any of four names may meet, mix, come short one after
  the other or appear under a walk, with a directory among the names or without (2,819,410
  states).
* `message_view`: four batches allow two pairs that cross and a clear between.
* `page`: any two tasks at one time, over any number of visits: two drops read at
  one time, an upload left behind by a visit beside one of the next, an upload or
  a launch beside a refresh (545,524 states up to symmetry). A third task adds
  nothing but another overtaking list; the properties are proved for any number.

For the properties with a theorem the bounds do not matter.

CHECK_DEADLOCK is off except in `page`: processes, browsers, requests and program
may all be finished, or the program crashed, and then the system has stopped
rightly. That nobody waits for ever otherwise is what the liveness properties
say. The page always has something left to do.

### Fairness

* `IpcServer`: weak fairness of the server thread as a whole and of the
  completion of a pending reply. The thread runs in a loop the scheduler does
  not starve; the kernel completes I/O on a connected pipe. Clients owe
  nothing: they may stop, never write, never close.
* `Broadcast`: weak fairness of each thread that can go on (the IPC thread out of
  push_message, the worker that waits for `state_mutex`, the handlers, the
  processing thread). Every lock in the model is released after finitely many
  steps of its holder. No fairness for messages, connections, requests, nor for
  wake-ups without a reason.
* `WsConnection`: weak fairness of each kind of handler that is ready (asio runs
  all of them in turn), of timers running out, of the shutdown, and of the sender
  out of send(). The browser owes nothing: it need not read, answer or leave.
* `HttpServer`: weak fairness of the listener and of each worker. Handlers
  return, and every wait of a worker for its client, to read or to write, has a
  timeout. Clients owe nothing: they may connect and stay silent, break off in the
  middle of a request, or not read the answer.
* `Instances`: weak fairness of the handlers and waiters; a process may run for
  ever.
* `MessageView`: weak fairness of the browser's event loop, that is, of
  `OnMessage` and of each decode. Nothing makes the server send, the socket
  close or come back, or the user press Clear.
* `Hooks`, `Wire`, `SampleFiles`, `MonitorPage`: none; their properties are of
  safety.

### Findings

1. **An instance can be lost during start-up** (`ipc_early`;
   `src/yipcsrv.h:313`). A client that opens and closes the pipe between
   CreateNamedPipe and ConnectNamedPipe makes the latter fail with an error
   that is neither pending nor "already connected". The code prints it and
   treats the slot as connected, with its event cleared: nothing ever wakes the
   thread for it again. The comments at :256-259 and :282-283 say that such a
   client is disconnected from, and that FALSE means a completed connection.
   Of every other client the property holds (`LateSlotReclaimed` in `ipc`),
   since an instance under reconnection is not open to clients before
   ConnectNamedPipe.
2. **The recursion guard does not work with two threads** (`hooks_recursion`;
   `src/yhookmap.h:6`). Both threads pass the test, the first to finish resets
   the shared flag, and the report of the second is itself reported. The
   generator asks for "prevent_recursion" (`src/yhookmap.py:83,86,93`). What the
   flag does achieve is `RecursionNeedsOverlap`.

Behaviour the models contain and no document contradicts, so that no run is
about it: the last messages of a process are lost when the empty reply meets a
client that has closed (`WriteFails`, then `DisconnectNamedPipe` drops `inq`);
messages of 4097 to 8192 bytes overrun `chRequest`, are filed garbled
(`intact = FALSE`; `Wire` shows in which way) or crash the parser; longer ones
end the monitoring of their process; a send to a dying WebSocket ends the
program (`SendThrows`); so does a busy port (`ListenFails`); a batch accepted
just before a connection starts to close is lost (`SentInOrder` says no more
than that the others keep their order); a connection reset in the backlog ends
the HTTP server (`AcceptFails`); two uploads of one name mix; one that
cannot be opened or only written in part is answered as a success (`OpenFails`,
`CannotWrite`), a truncated program can be started (`LastUploadWins` says that it
has nothing of another file), and the page, which is told nothing, ends the upload
without the file on screen (`ResultShown` speaks of those that were stored); an
answer to headers that broke off announces a close that does not follow, and a
connection of HTTP/1.0 is closed after an answer that did not announce it
(`AnnouncedClose`); files dropped while those of an earlier drop are still being
read start a second upload, and the end of the first takes the flag down under it
(`UploadFlag` says so: `crossed`); a failed upload leaves the page refusing further
ones until it is left (also `UploadFlag`); batches decoded
together may change places; a process that ends before /api/run files it is
shown as "spawned" for ever; a report that throws silences the process.

## Refinement

`ProcessLog` is an append-only log: a process gets the pipe or does not, writes
numbered messages, and each entry is the next one of its process. `IpcServer`
implements it with `log` as the authors and numbers of `messages`
(`ImplementsProcessLog`). It states order, no duplicates and no gaps in one
formula and hides instances, events and overlapped I/O. The theorem is
`ServerImplementsProcessLog`.

`Feed` says of a subscriber: after it joins it is handed intervals of the
published entries, in order, without a gap, starting no later than the first
one published after it joined. `Broadcast` implements it with `published` as the
entries that reached the queue and `joined` as the connections whose on_open has
queued its SUBSCRIBE (`ImplementsFeed`). The start is not exact because a
SUBSCRIBE that shares a batch with earlier entries receives those too. The
theorem is `ServerImplementsFeed`.

Put together over one `state.messages` (`Monitor` in `BroadcastProofs`), the two
give the promise of the whole path, from the processes to the browsers
(`NoGapInAnyProcess`): of each process a browser is handed messages in order, each
once, and the one before a message it is handed came before it, unless that
was published before the browser joined. Any server that implements
`ProcessLog` will do; that this one does is the theorem above.

`Connection` opens at most once, accepts batches only while open, ends once it
starts to close, and calls on_close exactly once, for a connection that had
opened. `WsConnection` implements it, fairness included (`ImplementsConnection`),
with `con` read off `m_state`, `tstat` and the handlers called. `Broadcast` has
the same steps for its `con[c]`. That every step of `WsConnection` is one of
`Connection` or a stutter is also proved (`StepsOfConnection`).

## Theorems

All for every value of the constants that satisfies the ASSUMEs of the module.
Each module has an inductive invariant `IInv`; the theorems follow from
`Init => IInv`, `IInv /\ [Next]_vars => IInv'` and `IInv => Property`. Where a
second group of properties needs more, a larger invariant is built on the first
(`LInv`, `SInv`, `OrderInv`) or, for the module a proof module also treats, beside
it (`FilesIInv`, `PageIInv`). `SampleFiles` and `MonitorPage` name their
specifications `SamplesSpec` and `PageSpec` so that one proof module can extend
both of its subjects.

**IpcServerProofs**: `TypeCorrect`, `AttributionHolds`, `NotForgottenHolds`,
`NoStaleEventHolds`, `NeverStops`. The inductive invariant adds to the
properties:

* `CreatedInOrder`: during start-up no instance above `cur` exists yet, and only
  early processes have opened one;
* `TurnOK`: what the place of the thread implies for the slot it works on
  (`dwState` fits `pc`; an instance is disconnected only between the two calls
  of `Reconnect`), and that an instance has a peer exactly while it is connected
  or closing;
* `UnopenedOK`: an instance without a client has nothing to read; one that
  listens is CONNECTING with its connect pending and its event cleared; one that
  is CONNECTING outside its turn waits for, or has finished, that connect;
* `OwnershipOK`: unread messages and a request in hand are by the present peer.

`Attribution` is not inductive alone: it needs `OwnershipOK`, which survives
`DisconnectNamedPipe` because that empties `inq` and is called only in a turn
that ends without a request in hand, and survives `OpenPipe` because an
instance that can be opened has nothing of its former client (`UnopenedOK`).
`NeverStopsServing` follows since a connect that pended ends well and a slot is
READING or WRITING whenever its operation is not a connect.

`LedgerInvHolds` and `ServerImplementsProcessLog` follow the messages rather than
the slots, from the invariant `LInv`, which adds:

* `PendingOK`: a call that is pending was the last of its slot's turn, and a
  read that pended had found the pipe empty, so that nothing is read twice or
  out of turn;
* `OpenedOnce`: a process has at most one instance, and has written nothing until
  it has opened one;
* `Numbered`, `PrefixDelivery`: what is filed of a process are its messages 1, 2,
  ... in order;
* `Balanced(s)`: what an instance holds of its process (in hand, then unread)
  follows on what is filed of it and reaches up to the last it wrote, whether it
  has closed its end or not. `Conservation` is a consequence.

Of the twenty-odd actions only a few kinds of step matter to this account: a
message goes into the pipe (`Adds`), from there into `chRequest` (`Takes`), into
the log (`Files`), or is lost with its instance (`Drops`); a process gets an
instance (`Joins`); or nothing moves (`Quiet`). `StepEffect` classes every action,
and each clause is then shown to survive each kind. That a step files only the
next message of a process is `File` of `ProcessLog`.

**InstancesProofs**: `TypeCorrect`, `NeverTerminatesHolds`, `RightVerdictHolds`,
`FoundHolds`. Its `IInv` rests on `NeverClosed`: handles are never closed, hence
pids are never reused, hence an entry found under a pid is the finder's own
(`OwnEntry`), hence a handler finds no entry in its way (`InsertIsFresh`) and a
waiter finds its thread still attached (`UpdateIsFirst`).

**BroadcastProofs**: `TypeCorrect`, `NoLostWakeupHolds`, `SubscribersInvHolds`,
`ServerImplementsFeed`, `NoGapInAnyProcessHolds`. `IInv` adds to `NoLostWakeup` that
the IPC thread about to queue a message has one to queue and a handler has a
connection. `SInv` adds

* `QueuedOnce`, `Membership(c)`: a connection queues one SUBSCRIBE, then one
  UNSUBSCRIBE, and is a subscriber from when the one is popped until the other is;
* `QueueInv`: the queue holds the entries that follow on those drained, and each
  SUBSCRIBE at the place where its connection joined;
* `BatchInv`: what is being collected or sent are the last of those drained;
* `Served(c)`: a subscriber has all that was drained before this batch, and the
  batch once it was sent to it; one without a feed joined before the batch's end.

Again every step is classed by its effect (a publication, a join or leave, a pop
of either kind, a send, the begin and end of a batch) and each clause shown to
survive each. `Registered` and `CaughtUp` follow from `SInv` (`FollowsQueue`). For
`Feed`, a send is a delivery because a batch is an interval (`BatchIsInterval`)
that goes on where the subscriber's feed ends (`BatchFollows`).

`NoGapInAnyProcessHolds` uses only the abstract specifications: from `ProcessLog`
that the log holds a prefix of each process's messages (`Prefixes`), hence the
`Predecessor` of an entry lies before it; from `Feed` that a browser has an
interval of the log which starts no later than the first entry after it joined
(`Intervals`). A predecessor that lies before the interval was published before
the join.

**WsConnectionProofs**: `TypeCorrect`, `WriteInvHolds`, `BuffersStayHolds`,
`SentInOrderHolds` and `StepsOfConnection`. Its `IInv` adds that a connection passes its phases in order
(`Phases`: nothing is queued, dispatched or written before it has opened, and the
response is written only when the request has been read), that frames being
written hold the flag (`FlagHeld`), and that the handlers called follow from the
state (`HandlersCalled`: on_close is still to come exactly while the shutdown
goes on). `NotForgotten` is inductive with these because the flag comes down only
in handle_write_frame(), which dispatches a write if the queue is not empty, and
the sender that found it down dispatches one itself; `BuffersStay` because no
write starts while the flag is up. `SentInOrder` needs `OrderInv`: the batches
delivered are numbered without a gap and nothing follows a terminal frame; while
the connection is `Writable`, the batches delivered, in `m_current_msgs` and in
`m_send_queue`, put one behind the other, are numbered on up to the last one
pushed (`PushedSoFar`). After a terminal frame or a write that failed the flag
stays up, so that nothing is written any more.

**WireProofs**: `WireInvHolds`, `RoundTripHolds`, `LossContainedHolds`. The
invariant says where each byte of the message lies (`Layout`), except for those
the read's own result has overwritten; where the parser stands in it (`ParserInv`:
in place as long as the bytes lost lie within one value, and astray only if they
do not), and that no more comes out than was sent (`NoMoreThanSent`). The composer
appends and the parser consumes one argument per step, so the texts before and
after a step differ by one known piece, and no induction over a text is needed.

**HttpServerProofs**: `PoolInvHolds`, `NoJobWaitsHolds`, `AnnouncedCloseHolds`, and
of `SampleFiles` `FilesInvHolds`, `ListCompleteHolds`. Its `IInv` adds that a worker
has a connection exactly while it serves (`Serving`), that a worker leaves only when
no job is left and none can come (`LeavesNothing`), and that a worker's countdown and
the answers its connection has had make up `MaxCount`, and while turns are left all
of these were answers the loop goes on after (`CountsDown`). `NoJobWaits`
compares the length of the list with the number of workers that are awake: accepting
adds one to both unless no worker waits. `AnnouncedClose` needs of `CountsDown` that
only the answer given with one turn left is the `MaxCount`-th, so that it says
close, and that an earlier one says so only to a request that asks.

`SampleFiles` has `FilesIInv`. `LastUploadWins` needs to know of a file that no two
uploads wrote at one time that it holds exactly the blocks the one that opened it
last has written, also after a write has failed (`Alone(f)`), and that an upload is
`saved` only with all of its blocks; `ListComplete` that a walk has listed, in order, all
the programs that were there when it began up to the name it is at (`WalkInv`).

**MessageViewProofs**: `ViewInvHolds`, `OrderedUnlessOverlappedHolds`, and of
`MonitorPage` `PageInvHolds`, `RefreshNotOlderHolds`, `ResultShownHolds`. Its `IInv`
says that what is on the wire is newer than all the page has (`OnWireNewer`), in
order (`InOrder`), and that a batch still being decoded was decoded together with
every newer one that is being decoded or shown (`Overtaken`).

`MonitorPage` has `PageIInv`. Of every task (`TaskInOrder`): what it has seen, and
the answer under way to it, are never newer than the server's state; what was
stored for it is on disk, and an answer to a request made after that shows it.
Of the flag (`FlagInv`): while it is up, an upload of this visit has begun
(`Begun`) and not succeeded, or one has failed; and unless drops were read at one
time, the visit has one upload at most, counting a drop that is still being read,
during which the flag is down, and one that failed, after which it stays up.
`RefreshNotOlder` and `ResultShown` are about single steps: only a dispatch changes
what is shown (`ShownByDispatch`), and it shows the answer of its own task
(`DispatchShows`).

**HooksProofs**: `GuardInvHolds`, `RecursionNeedsOverlapHolds`,
`EveryCallReportedHolds`. Its `IInv` says how a stack is built (`Stacks`: the
call of the program or of DllMain at the bottom, above it calls of reports, each
made by the frame below at the place it has left), where DllMain has got to
(`Attaching`), that as long as no call has met another thread's report a report
is under the guard and alone on its thread (`Guarded`), and that a call of the
program is reported or due to be, once (`AtMostOnce`, `AllReported`). The step
that matters is `Test`: if it finds the flag up and its thread reports nothing,
then, by `GuardHeld`, another thread reports, and the two have met.

### Only model-checked

Every invariant and every action property a passing run checks is proved. What is
left to TLC is temporal and under fairness, which is beyond the prover:
`Delivered`, `LateSlotReclaimed`, `Fed`, `GhostsLeave`, `ApiAnswered`, `Settles`,
`HandshakeEnds`, `Flushed`, `Released`, `ReceivedShown`, and the fairness part of
`ImplementsConnection` (its initial state and steps are `StepsOfConnection`). For
these the bounds of the runs matter.

Still to be proved: that the chain goes on behind `Feed`. `SentInOrder` says what
becomes of the batches a connection accepts, `OrderedUnlessOverlapped` what the
page makes of those that arrive; neither is composed with `Monitor` yet.

## Not modelled

* Most of the tree is third-party: asio, websocketpp, rapidjson, httplib and
  Detours are vendored whole and are more than nine tenths of its lines. Of them
  the two parts whose concurrency the program's correctness rests on are modelled
  (`WsConnection`, `HttpServer`); asio and Detours appear as external actions (a
  handler runs, a transaction commits or fails), rapidjson not at all: it formats
  what the models keep as records. The client halves of websocketpp and httplib,
  TLS and extensions are not used by the program; routing, headers and multipart
  bodies change nothing the properties tell apart.
* Start-up (`main` starts three threads and joins them): its effect, that
  processes may come before the pipe exists, is `Early` in `IpcServer`, and a busy
  port is `ListenFails` in `Broadcast`.
* String and time conversions: stateless, and what matters of them (a null string
  throws) is in `Hooks`.
* The generator `yhookmap.py` runs at build time; what it generates is `Hooks`.
* Mock client and samples are test programs.
* Of the hazards some are tolerated rather than excluded, because the code does
  go wrong there: the properties next to them in `PROJECT.json` then say what holds
  on this side of the case, and the note says what the case is.
* React components other than the monitor page and the file list only render the
  reducer's state; `updateOperations` and `useInterval` are never called.
* JSON serialisation and console output are formatting.
* The path of a message from end to end is not one module: a composition of
  `IpcServer`, `Broadcast` and `MessageView` is beyond TLC at any size where
  something happens. The interfaces `ProcessLog`, `Feed` and `Connection` carry
  what one part promises to the next, and `NoGapInAnyProcessHolds` composes the
  first two.
