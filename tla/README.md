# A verification of ws-test-server

The program (`src/src/main.cpp`) plays thousands of devices against a WebSocket
server: it reads an ids file, deals the ids to manager threads, and every
manager keeps its devices connected, sends their packets and answers the
requests the server makes. Everything that can wait is run in a detached
thread under `run_with_timeout`. This directory holds TLA+ models of it, the
TLC configurations that check them, and TLAPS proofs.

    tlc -config MCSession.cfg MCSession      # any of the runs below
    tlapm SessionProofs.tla                  # any of the *Proofs modules

## 1. Inventory

| part | state | operations | talks to |
|---|---|---|---|
| `run_with_timeout` (util.cpp) | `done`, on the caller's stack; one detached thread per call | start, poll, time out, return; the worker's last write | all calls below |
| manager (`ws_manage_ws`, `ws_manage_thread`, `is_time`) | `connected`, `last_run_time`, its place in the pass, the device it is at | send the pending reply, reset it, connect, ask for the time, send event and main packet, go to the next device | workers, through `done`; the stream; the pending reply, without its mutex |
| workers (the lambdas given to `run_with_timeout`) | their place in the lambda | lock and write the reply; write a packet; handshake | stream, pending reply, mutex |
| readers (`ws_async_read`) | their place in an endless loop | read, store the answer, clear the buffer | stream, buffer, pending reply, mutex |
| stream and socket (Boost, external) | `is_open()`, the TCP connection | connect, handshake, read, write, fail | the peer |
| payload selection (device_payloads.cpp) | a counter shared by all threads | message text to payloads; every second main packet is a bad one | workers, readers |
| launcher (`main`, `generate_random_ids`) | ids file, batch, started threads | parse, resolve, count lines, deal, generate | starts the managers |
| logger (utl_log.hpp) | of each sink: header flag, stream, time of the last flush, mutex; a header mutex per instantiation of `format`; a buffer per thread | filter, header, columns, write, flush | everybody |
| HTTP server (server.h) | of the listener: its socket; of a session: the operation under way, the timer, the buffer, the request | construct, accept, read, answer, close | clients; files under the root. Not in the build |
| coroutine read (coro_read.hpp) | a coroutine handle and a result | suspend, resume | unused |
| `ws_client`, `ws_init` | three fields; request headers | none that matters here | unused; the stream |

What is hard here: the workers outlive their calls; the pending reply is tested
and reset without the mutex; several readers share a stream after a reconnect;
exceptions end in a wrapper that reports success; one slow device delays all
others of its thread; the number of threads is not bounded by the program; the
time is asked twice in a pass and stamped by the question; a counter and a
parameter are shared without synchronisation; the logger takes two mutexes for a
message, one of which is not what it looks like; and an HTTP session is a chain
of callbacks under one timer.
`PROJECT.json` lists these hazards one by one, at their lines, with the
properties that watch them.

What makes each part correct:

- `run_with_timeout` returns; true means that f has ended; no signal is lost.
- a session: the reply being sent is not changed under the sender; a request is
  answered at most once; an open stream has a reader; an open stream is not
  torn; a broken connection is replaced; a pass ends.
- the launcher: every device has one manager; no more threads than asked for;
  every thread has the quotient of the division, the last one at most its
  remainder on top.
- pacing: turns of a device are never closer than the interval; a device gets a
  turn or a new connection again and again, and turns if its connection holds.
- payloads: good and bad packets alternate again once calls stop overlapping.
- the logger: a line is the message of one call, whole and once, in the order of
  its thread; one header; little is left unflushed; calls return.
- the HTTP server: one operation at a time, answers in the order of requests,
  nothing after the last request, files under the root only, clients are served
  or told that they are not, sessions end.

## 2. Modules

| module | models | kind |
|---|---|---|
| `TimedCall` | `run_with_timeout` | abstract protocol, used by `Session` |
| `TimedCallProofs` | | its invariants for all constants |
| `Session` | one device: manager, workers, readers, network; EXTENDS `TimedCall` | component composition |
| `Connection` | what a device promises its peer about its connection | abstract specification |
| `SessionProofs` | | types, refinement of `TimedCall`, `HolderSends`, `ReplyStable` |
| `ConnectionProofs` | | `OpenIsRead`, `OpenNotTorn`, refinement of `Connection`, `AnsweredOnce` |
| `Launcher` | `main` and the id generator | algorithm as a state machine |
| `LauncherProofs` | | dealing, for all files and thread counts |
| `Payloads` | the counter of `ws_get_payload` | component, used by `Pacing` |
| `Pacing` | a manager thread with several devices, in seconds; EXTENDS `Payloads` | component composition |
| `PacingProofs` | | alternation, spacing of turns |
| `LineLog` | what a sink promises | abstract specification |
| `Logger` | `push_message`, the sinks, `format`; implements `LineLog` once per sink | detailed specification |
| `LoggerProofs` | | the refinement, the mutexes of the header, one header, little unflushed |
| `Dialogue` | what a session of the server promises its client | abstract specification |
| `HttpServer` | listener, sessions, `handle_request`; implements `Dialogue` once per connection | detailed specification |
| `HttpServerProofs` | | one operation, order of answers, last request, files under the root, the refinement |
| `MC...` | | instances for TLC |

### TimedCall

`caller`, `mine`, `cell`, `done` are the running call: where the caller is, the
thread it started, the stack address of its `done` and what it holds. `addr`
gives each running worker the address it was handed. `Call` is lines 4-17 of
util.cpp, `Expire` the loop that sees the deadline, `Return` the loop that sees
`done` or the `return` after the deadline, `Signal` the last line of the
wrapper. The point of the model is `Cells`: the frame of a call that gave up is
gone, but the next call from the same depth of the stack has its `done` at the
same address, so that `Signal` of an abandoned worker sets the flag of another
call. `abandoned` is a history variable: the addresses where that can happen.
What a stray write does to memory that is not a `done` is undefined and not
modelled. `done` is a plain bool read and written by two threads; the call of
`steady_clock::now()` between the reads keeps a compiler from hoisting them, so
a read is modelled as seeing the last write.

### Session

`pc` is the manager's place in `ws_manage_ws`: "check" (line 203), "extra",
"reset" (216), "conn" (219), "tcp" (142), "handshake", "due" (232), "event",
"main". The four names in `Ops` are calls of `run_with_timeout`: with `caller`
idle the call is about to start, otherwise it is running. `at` is each worker's
place in its lambda, `rpc` each reader's in its loop. A step of a call is an
action of `TimedCall` conjoined with what it means here, so that the refinement
is stated and proved rather than mapped variable by variable.

Abstractions:

- `is_time` is a choice. Nothing here counts seconds; `Pacing` does.
- The manager serves one device. The others of its thread are time between two
  passes, and their calls have the same frames; what they add is delay and more
  abandoned workers at the same addresses, which `Frame` and `abandoned` allow.
- A message is the request it contains; several messages in the buffer are one
  text, in which `ws_get_payload` looks for the names in a fixed order.
- The stream (external) is `open`, what `is_open()` says, and the connection is
  `link`. A read or a write may fail at any time and makes the stream fail, also
  when it was entered on an earlier connection. A write on a broken connection
  may succeed (the kernel buffers it). A message counts when it is read.
  A handshake first takes the stream out of the open state. Concurrent
  operations on a stream that Boost forbids are allowed to happen; their effect
  is that of the two in some order, or a failure. Memory damage they may cause is
  not modelled, nor is that of an abandoned worker that iterates over a reply
  that was reset.
- `Workers` and `Readers` are the threads the system has left. When they are used
  up `std::thread` throws; for a call this ends the pass (lines 145-179 or 306).

### Connection

Three variables: `phase` ("closed", "shaking" while `pc` is "handshake", "open"), the
readers that were started, and `spoiled`. A handshake is tried on a closed stream
only; one that succeeds starts exactly one more reader; an open stream ends by
failing, never by being replaced. `spoiled` is what the code does not prevent: once a
call was given up at the address where the handshake has its `done` (its worker may
still open the stream, or another call's signal is taken for the handshake's), or no
thread is left for a reader, the stream may open without a reader and be torn down by
the next pass (`Stray`). Until then `Stray` is disabled and the specification is strict.
`Device` in `Session` is the mapping.

### Launcher

`file` is the ids file: how many lines `getline` finds and whether the last one
ends with a newline. `Parse`, `Resolve`, `OpenFile` are the start of `main` with
its exits, `ReadLine` one round of lines 418-442, `LastThread` lines 444-456.
`Generate` is the other mode of the program, with a count of -1 for the negative
ones, which become a huge `size_t`: the program writes until it is killed, and
leaves any file. `NoThread` is the exit of `main` when `std::thread` throws, which
nothing there catches. `Restart` is the user.

### Payloads and Pacing

`which` is the parity of `which_main_payload`, which is all its users see, also
when the `size_t` overflows. A call is three steps, `Enter`, `Pick` (the test of
line 49) and `Count` (the increment). Calls of different threads overlap without
synchronisation; then the increment is a data race and leaves any parity.
`alone` and `previous` are history variables for the one claim that survives this;
with the flag a call was given they are forgotten when it has returned.

`Pacing` is `ws_manage_thread` with its devices. `pc` is the place in the pass of
the device it is at: "conn" (line 219), "connect" (222), "due" (232), "send" and
"wait" (the main packet), "sleep" (after the pass). `age` is the age of
`last_run_time`; `epoch` says that it was never set. `is_time` is the function of
lines 184-196 with its side effect. Abstractions:

- Ages stop counting at what they are compared with, `Interval`, and 0 stands for
  the current second. `steady_clock` starts with the machine, so that the epoch is
  of any age at first.
- The other calls of a pass (pending reply, event packet) take time and change
  nothing here; they are in `Session`. Time may pass at every step.
- A worker reads the flag for bad packets in its caller's frame when it starts,
  which is taken to happen before its caller's five seconds are over.
- A stream is `connected` (the field, set when a reader was started) and `open`
  (`is_open()`); `Up` is both, what line 219 asks for. `Connect` has the outcomes of
  `ws_connect`: it fails before the handshake; the handshake succeeds, throws or is
  taken for done by a stray signal, and a reader is started; no thread is left for
  the reader; the handshake is given up. A handshake given up may open the stream
  after all (`Late`), for the devices in `Slow`, a bound. `Break` is every way a
  stream stops being open.
- The readers of a device are one caller of `ws_get_payload`, since they call it
  under the device's mutex (`Readers`, for the devices whose peer asks for main
  packets). `Read` is lines 113-115: the stream is found open, and a request is read
  from it. `Answer` is the call of line 117 later, when the stream may have failed.
- A reader reads the flag in the frame of `ws_async_read`, which has returned:
  it is any value, at each call.

### LineLog and Logger

`LineLog` says that a call adds its message to the log as one line, or nothing if
the sink does not accept it, before it returns. `Logger` has the steps of `format`
for each thread: "format" (the filter of line 699, the time, the buffer), "header"
(the test of `print_header` under `header_mutex`), "reset" (the header is formatted
into the buffer and the flag is reset), "write" (the buffer is written and flushed
under the mutex of the sink). `header_mutex` is indexed by `Kinds`, since a static
of a function template is one object per instantiation, and it is shared by all
sinks. `Log(s)` is the refinement mapping for sink `s`: the thread is busy with its
message as long as it has not passed that sink.

Abstractions: the columns of a line are the message they describe (no width, no
padding); verbosity, interval and header of the sinks are set before threads log,
as the setters are not synchronised; output to the stream under the sink's mutex is
one step. The thread identifier, the mapping of levels to colours and the string
helpers of the header are text.

### HttpServer

`listener` is the step of its constructor, then what it does: "ready" or "failed"
before `run`, "accepting" (or "broken", accepting on a socket that is not open),
"stopped". `stage` is where a connection is. `ops` is the set of asynchronous
operations of a session that have been started and have not completed: `Dispatch`
(posted to the strand by `run`), `Reading`, `Writing(response)`. It is a set so
that "one at a time" is something the model could get wrong. `late` says that the
30 seconds set by the last `do_read` are over: the write has no timer of its own.
A session disappears when nothing holds it, which is when `ops` is empty.

Abstractions: a target is whether it begins with "/", its names, and whether it
ends with "/"; `Dotted` is the set of names with ".." in them. `FilePath` appends
the target to the root as text, so that a target without the first "/" continues
the last name of the root (`Beside`), or is a path by itself when the root is
empty. `Resolve` is the file system's reading of "..", name by name; it knows no
symbolic links. A response is its status, the kind of its body, and `keep`; headers
and mime types are left out. A client may send before it has an answer, shut down its
sending side, reset the connection, or not take its response. When the listener
stops, its socket is closed and the system resets the connections still queued.

`Dialogue` is a session as its client sees it: requests taken, answers given, and
whether it is open. `Serving(c)` maps a connection to it: it is open as long as an
operation is under way, so that "over" is more than silence: a session that broke off
or gave its last answer holds nothing and takes and answers nothing any more.

## 3. Runs

| run | bounds | shows |
|---|---|---|
| `timed_call` | 3 workers, 2 addresses | the protocol: one call at each address, one abandoned worker at each, and a third that is disturbed; `CallReturns` under weak fairness of the caller alone |
| `session` | 2 workers, 2 readers, 2 requests and any number of other messages, events on | an abandoned worker beside the one waited for, a reader of an earlier connection beside the current one, handshakes and replies that throw with a mutex held; the device implements `Connection`; 2.8 million states |
| `session_live` | 2 workers, 1 reader, 1 request | every pass ends |
| `session_reconnect` | the same, and all calls at one address | the device is connected again and again after the last break |
| `session_handshake_error` | the same | expected violation, see below |
| `pacing` | 2 devices, 1 worker, the readers of one device, late handshakes of the same, an interval of 2 seconds | turns of a device are spaced and keep coming, beside a device that reconnects; the counter under an abandoned worker and a reader; 0.8 million states |
| `pacing_reconnect` | the same, a reconnect time of 1 second | expected violation, see below |
| `pacing_bad` | the same | expected violation, see below |
| `logger` | 2 threads with 2 and 1 messages, 2 instantiations, 2 levels, 2 sinks that differ in level, flushing and header, a clock up to 2 | messages that overtake each other at every step, both mutexes contended, messages one sink accepts and the other does not, late flushes; a header mutex belongs to the thread that prints |
| `logger_header` | 2 threads, 1 instantiation, the default sink | expected violation, see below |
| `http_server` | a client that sends two of eight requests or what the parser refuses, another that only connects | every answer `handle_request` gives, pipelining, both ends of a connection, time-outs in read and write, a listener that fails at each step; each session implements `Dialogue` |
| `launcher` | up to 8 lines, up to 5 threads, both kinds of last line, negative counts for the generator | more threads than lines, remainders of every size, an empty file |

Two workers are enough for what the session's properties tell apart: the worker
waited for and one abandoned; further abandoned workers act as that one. When both
are abandoned, the next call finds no thread, which `NoThread` covers. Two requests
let a second one arrive while the first is being answered. `SYMMETRY` is used in
`session` only, which checks no liveness.

`HandshakeErrorReported` is violated: `ws_connect` has a catch clause for a failed
handshake, but the wrapper of `run_with_timeout` catches the exception first and
sets `done`. A refused handshake starts a reader and marks the device connected.
The device recovers, because the next pass finds the stream closed, but each
refusal costs a reader thread that never ends.

`ReconnectsSpaced` is violated: `time_reconnect`, an argument of the program, is
never read. Reconnects follow `time_between_packets`, and until `last_run_time` is
set for the first time they follow each other as fast as they fail.

`BadOnlyIfAsked` is violated: the lambda of a detached reader captures a parameter
of `ws_async_read` by reference and reads it after that function has returned. In
the run a device connects, and its reader finds the stream open, reads two requests
for a main packet and picks the bad packet for the second.

`HeaderFirst` is violated: the comment in `format` relies on other threads waiting
while the header is printed, but under its mutex it is only formatted, and written
later. The header can come after another thread's message.

`OpenIsRead` and `OpenNotTorn` name their exceptions: a handshake that was given
up and then succeeds opens the stream by itself, and a handshake for which no
reader thread was left does not count as a connection. In these cases the next
pass tears down a healthy stream. `AnsweredOnce` excludes frames where a
call was abandoned, since a late worker sends whatever reply is pending by then,
and more than one reader, since two share one buffer.

Some hazards are what the code does, and their properties say how far they go and not
that they do not happen. A true answer of `run_with_timeout` may be false at an
address where a call was abandoned (`TrueMeansFinished`, `FrameAlive`); there, too, a
reply may be reset under a late worker or be lost, and packets may be in the stream
together (`ReplyStable`, `AnsweredOnce`). Calls at the same time may pick the same
packet (`Alternate` is about undisturbed ones). A sink may print one header for each
instantiation (`HeaderOncePerKind`). That a closed stream is reconnected, rather than
written to whenever its time comes between the two questions of a pass, is assumed
(`NetworkSpec`). Since `session_reconnect` has one reader thread, the later reconnects
there find no thread for theirs. `CallsReturn` is about the mutex of the header; a call
holds it or that of a sink, never both, and the latter is taken and released in one
step.

In `pacing` two devices are enough for one to delay the other, and an interval of
two for a turn to be asked for before, at and after its time. `Reconnect` is 0
there, since only `ReconnectsSpaced` looks at it. In `logger` a clock of 2 lets an
interval of 1 be kept, met and exceeded. In `http_server` connections share only
the listener, so that requests on one suffice; a session that answers a third
request does what it did for the second.

### Fairness

- `Pacing`, `FairSpec`: time passes, and every call of the manager returns (that is
  `PassesEnd` and `CallReturns`). Nothing of workers and readers.
- `Logger`, `FairSpec`: threads inside `format` are scheduled; a thread that finds
  the header mutex free again and again gets it (strong fairness of `TestHeader`).
  Nothing makes a thread log.
- `HttpServer`, `FairSpec`: the io_context runs handlers that are ready, time
  passes, a constructor goes on. No client has to send or to take anything.

- `CallFairSpec`: the caller spins and the clock goes on. f may never return.
- `ManagerSpec`: the manager is a running thread; net::connect is ended by the
  system at some time (it has no timeout of its own).
- `NetworkSpec`, for `Reconnects` only: workers are not blocked for ever, packets
  fall due, TCP connections and handshakes that are tried again and again succeed
  at some time, a handshake's thread is not always too late for its connection,
  and a write on a broken connection fails at some time. The property itself
  assumes that connections stop breaking and threads stop running out. These are
  assumptions on network, server and system; none is about the program, and
  readers are not assumed to notice anything.

## 4. Proofs

All theorems hold for every value of the constants, under the assumptions named
in the modules (`SentinelAssumption`, `SessionAssumption`, `HttpAssumption`, ...): the
sentinels are no members, bounds are natural numbers, and the options, requests and
addresses have their types.

- `TimedCallProofs`: `CallInv` is inductive as the conjunction of the types, the
  three safety properties and `Frames`, which says that a call is running exactly
  when it has a worker and a frame. `TrueMeansFinished` needs `FrameAlive`: at an
  address that was never abandoned there is no other worker to set the flag.
- `SessionProofs`: each step of a session is a step of `TimedCall` or leaves it
  alone (`StepIsCallStep`), hence `SessionImplementsCalls`, and `CallInv` comes
  for free. `SessionInv` adds the types, `HolderSends` (the mutex is held exactly
  by a worker inside the loop over the reply: no exception leaves it locked) and
  `InCall` (a call runs only at a place that makes one). `ReplyIsStable` follows: a reader that stores needs the
  mutex free, and the reset is at a place where no call is running.
- `ConnectionProofs`: `Places` says at which address the workers of a handshake and
  of a reply signal. With `FrameAlive`, at an address that was never abandoned they
  are the workers of the running call, so that a late handshake cannot open the
  stream and a late worker cannot begin a reply. `Closed` (the stream is closed from
  the decision to connect to the handshake) with `OpenIsRead` is then inductive, and
  `OpenNotTorn` follows. `Counted` gives each request read one place at most: begun,
  pending and not taken by the running call, or in the buffer; no step makes one
  into two.
  `SessionImplementsConnection` reads the steps against `Connection`: most leave
  `phase` and the readers alone or let an open stream fail (`QuietStep`); the return
  of the handshake is `Succeed`, `Fruitless` or `GiveUp` (`ShakenRefines`); and a
  stream can be open at "tcp" or be opened outside "handshake" only when spoiled,
  which is `Closed` and `Places` again. Nothing is assumed of the addresses: with all
  calls at one address any abandoned call spoils the connection.
- `LauncherProofs`: `Dealt` says that each device read so far is in one place, a
  started thread or the batch, and once in it. Two lemmas on sequences move it
  over a push and over handing the batch to a thread. `Even` adds that what was
  read is the quotient times the threads started plus the batch, from which the
  last batch is at most the quotient and the remainder (`SharesAreEven`).
- `PacingProofs`: `AgesInv` compares the age of `last_run_time` with that of the last
  turn: since reconnects stamp the time, too, the first is never the greater.
  `ParityInv` ties the parity to what the last undisturbed call picked.
- `LoggerProofs`: `Calling` ties a thread's buffer and place to its message, `HoldersPrint`
  the header mutex of an instantiation to the thread that formats its header
  (`MutexesReleased`). The refinement of `LineLog` is proved step by
  step for every sink (`SinksCorrect`). `HeadersOf` says that a header of an
  instantiation, in a buffer or written, bars the way to another one of it
  (`OneHeaderPerKind`).
- `HttpServerProofs`: `SessionOf` says of each session that it is between requests,
  with as many answers as requests, or answering the last one; the properties are
  read off it. `SessionsImplementDialogue` needs of each step which of the two it
  leaves: a handler that reads is `Take`, one that has written is `Give`, and an
  operation that ends without a successor is `BreakOff`; the step of one connection is
  a stutter of the others. `OpensUnderRoot` is about paths of any length: `Resolve` is
  a recursive function over the prefixes of a path, `ResolveWalks` gives its
  equations, and what `Resolve` of the root followed by legal names is follows by
  induction. The library's induction rules take an operator, which the provers
  cannot instantiate; `UpTo` states induction for a *set* of numbers instead, from the
  least number missing in it (`WFMin`). Of the root only `HttpAssumption` is used: it
  may itself contain "..", or be empty.

Every safety property of a passing run is stated by a theorem. Only model-checked are
the liveness properties (`CallReturns`, `PassesEnd`, `Reconnects`, `Serves`,
`CallsReturn`, `NobodyWaits`, `SessionsEnd`), which are out of reach of the prover, and
the expected violations, which are counterexamples.

## 5. Not modelled

- `CoroRead` (coro_read.hpp): nothing uses it, so there is no caller to take its
  states from. Its handler refers to a parameter that is gone when it runs.
- `ws_client`: a struct nothing uses. `ws_init`: headers of the handshake request.
- The bytes of payloads, random ids, mime types and bodies of HTTP answers, the text
  of log lines (columns, widths, numbers) and the string helpers and `print` of
  utl_log.hpp: data no property here is about.
- Undefined behaviour beyond the values it produces: memory damaged by a stray write
  to `done`, by an iteration over a reply that is reset, or by concurrent operations
  on one stream.
- A worker of `Pacing` that does not get to its first statement within five seconds.

## 6. Plan

1. `Session` with several devices in one thread, which would show the delay one
   causes another in calls instead of in seconds, and that an abandoned call of one
   spoils the connection of another.
2. An abstract launcher that deals all devices in one step, and the refinement by
   `Launcher`.
3. What `Connection` implies by itself, proved of the abstract specification.
