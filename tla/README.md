# Verification of the UDS HTTP server

TLA+ specifications of the HTTP/1.1 server over a Unix domain socket in this
repository, TLC configurations that model-check them, and proofs that TLAPS
checks. Paths below are relative to the repository; `HttpConnection` and the
like are modules of this directory.

## The system

One process, one thread, one event loop. `main.c` listens on `/tmp/http.sock`
and accepts; `http_server.c` serves each client from callbacks of the loop and
of the parser; a timer of `flow_control.c` refills the token bucket.

| component | state | operations |
|---|---|---|
| connection (`http_server.c`, `client_t`) | `write_buf`/`write_len`/`write_pos`, `keep_alive`, the parser, the request being read | accept, `on_read_ready`, `on_write_ready`, `send_response`, `enqueue_write`, `free_client` |
| request handling (`http_server.c`, `auth.c`) | url, body, header flags, the header name being read | the callbacks of llhttp; rate limit, authorisation, routing, reply |
| flow control (`flow_control.c`) | `tokens` | `on_timer`, `flow_control_consume_token` |
| event loop, files (`ae.c`, `ae_epoll.c`, `ae_kqueue.c`, `ae_select.c`) | `events[]`, `fired[]`, `maxfd`, the kernel's interest set | create, delete, poll, dispatch |
| event loop, time (`ae.c`, `monotonic.h`) | the list of timers, `timeEventNextId` | create, delete (lazily), `processTimeEvents`, `usUntilEarliestTimer` |
| accepting (`main.c`, `metrics.c`) | the listening socket, `active_connections` | `on_accept`, the limit of 1000 |
| parser (`http.c`, `api.c`, generated `llhttp.c`) | state, flags, sticky error | `llhttp_execute` |
| reply makers (`json_handler.c`, `compression.c`) | none | pure functions |
| logging, shims, vendored `yyjson`, `lz4` | none of interest | |

How they interact: `aeMain` repeats `aeProcessEvents`, which polls (for as long
as the earliest timer allows), runs the read and then the write handler of each
ready descriptor, and then the timers that are due. A read handler reads until
`EAGAIN`, feeding llhttp, which calls back into `http_server.c`; at the end of a
message the callback takes a token, answers and **writes at once**. What the
socket does not take stays in `write_buf`, and a writable watch is registered
for it. A reply that ends the connection frees the client from whichever of the
two writers writes its last byte.

What is hard about it:

* two writers (the inline write and the writable handler) share one buffer, and
  each may find the socket full, short or gone;
* replies are produced while earlier ones still wait, and `keep_alive` is
  overwritten by each;
* clients are freed from inside callbacks whose callers go on;
* a poll's result may be stale by the time a handler is called for it;
* the peer splits, pipelines, half-closes and vanishes at any point;
* the timer is late, misses periods, and reads a clock that can be set.

* a closed descriptor's number is given to the next client, perhaps while
  `fired[]` still has an entry of that number;
* connections are counted apart from the clients that they are, and a client
  freed twice is counted down twice.

`PROJECT.json` lists these hazards at their lines with the properties that
cover each, or the reason why none does.

## Plan

| order | module | what it is |
|---|---|---|
| 1, done | `ReplyStream` | abstract: what a connection promises its peer |
| 2, done | `HttpConnection` | one client: handlers, buffer, parser outcomes, loop, socket, peer; implements `ReplyStream` |
| 3, done | `FlowControl` | the bucket, its timer and the clock |
| 4, done | `RequestHandling` | the callbacks of llhttp under every fragmentation of a request, authorisation, routing, fallback of the compression; checked against a reference definition of the answer to a whole request |
| 5, done | `AeFileEvents` | the table of descriptors, `maxfd`, `fired[]`, barriers, reuse of a descriptor within an iteration, over epoll, kqueue and select |
| 6, done | `AeTimeEvents` | the list of timers with lazy deletion, finalizers, timers that create and delete timers and walks inside walks; `usUntilEarliestTimer` |
| 7, done | `HttpServer` | several clients, accepting, the limit, `active_connections` and the descriptors of the process, on top of `AeFileEvents`, which it implements |
| 8, done | `ClientEvents` | abstract: what the loop and its clients owe each other; `HttpConnection` (one client, with its requests) and `HttpServer` (all of them, on the loop) both implement it |

Each component has its theorems in a module named `..._proofs`; the two about
`ClientEvents` are in the module itself, so that what instantiates it can cite
them. There are twelve runs, one to three for each component.

## `HttpConnection`

One accepted connection. The state is that of `client_t`, of the loop for this
descriptor, of the kernel's two socket queues and of the peer.

| model | code |
|---|---|
| `client`, `frees` | the allocation; calls of `free_client` |
| `mask`, `fired` | `events[fd].mask`; the entry of `fired[]` |
| `writeBuf`, `writePos` | `write_buf[0 .. write_len)`, `write_pos` |
| `keepAlive` | `keep_alive` |
| `parser` | llhttp between messages (`start`), inside one, `closed` after the last, `paused` behind a CONNECT or Upgrade, or with a sticky error |
| `buf` | what `llhttp_execute` has yet to see of the 8192 bytes read |
| `pc` | polling, dispatching, in `on_read_ready`, in `llhttp_execute` |
| `inq`, `wire`, `drained` | the socket's queues; `wire` keeps everything written |
| `proc` | the process: `SIGPIPE` may end it |

`Poll`, `DispatchRead`, `DispatchDone` are `aeProcessEvents`; `ReadData`,
`ReadWouldBlock`, `ReadEnded`, `ParseFailed`, `ParseReturns` are the loop of
`on_read_ready`; `ParsePart`, `ParseMessage`, `ParseBad` are what llhttp makes
of one piece of input, `ParseMessage` with all of `on_message_complete`,
`send_response` and `enqueue_write`; `WriteReady` and its three variants are
`on_write_ready`. The peer sends, reads, shuts down and closes between any two
of these. `ParserAfterFree` is undefined behaviour of the C code (the client
was freed while llhttp runs on it): the model chooses between a crash and going
on until a second `free_client`.

Abstractions: a request is a sequence of pieces named by what they do to the
parser; a response is `ReplyLen` units, each telling its response and place, so
that any loss, repetition or reordering shows; a read takes any non-empty part
of what has arrived, a write any part that fits. Each response has the same
length. `malloc` does not fail. `is_closing` is left out: nothing ever sets it.

The abstract `ReplyStream` has three ideas: responses are promised in order,
what is delivered is a growing prefix of them, and after the end nothing moves.
`ImplementsReplyStream` is the refinement; `Implements` is this one and the one of
`ClientEvents` (below) together.

`Backlog`, half of `WriteBufRight`, says what the write buffer costs: never more
than the replies to what the peer has sent, and at least what was answered, less
what the peer has read and what the socket holds. The second half is why
`write_buf` of a peer that pipelines and does not read grows without a limit of
the code's own.

## `FlowControl`

`tokens` and the timer, with time measured as the distance to the timer's due
time (`due`), so that the clock itself need not be kept; `ClockAdvances` and
`ClockSetBack` move it, `NewWindow` starts an observation at any moment.
`WakeByRequest` and `WakeByTimer` end the poll, `Consume` is
`flow_control_consume_token`, `RunTimers` is `processTimeEvents` with `on_timer`.
A spurious or early wake-up is a `WakeByRequest` without a `Consume`.

## `RequestHandling`

One connection again, seen from the request's side: `client_t`'s `url`, `body`,
`current_header_field` (`field`) and four header flags, and the place llhttp has
reached in the message (`req`, `at`, `seen`).

A request is a sequence of spans (URL, header name, header value, body), each
with a text. llhttp calls back once for each part of a span that one `read()`
brought (`Fragment`); where the read ended just behind a header, an empty last
part follows. `OnMessageBegin`, `OnUrl`, `OnHeaderField`, `OnHeaderValue`,
`OnBody` and `OnMessageComplete` are the callbacks of those names; `SetFlags` is
what `on_header_value` makes of what it is given, `Respond` the order of rate
limit, authorisation, routing and compression. `JsonReply` is
`json_handler_process`, `CompressPayload` what comes out of `compress_payload`; a
reply has what its bytes are coded as (`payload`) and what its header calls them
(`encoding`), which `Process` chooses apart, as the code does.
Whether the token bucket grants and whether the compression libraries work is
left open.

The reference (`RightAnswer`) reads a request as a whole: the last
`Authorization` header counts, any `Accept-Encoding` header may ask, lz4 goes
before deflate, what goes out is coded as it is labelled, and the whole body
decides whether it is echoed. `AnswerIsRight`
compares the two.

Abstractions: a text is a sequence of symbols, each a run of bytes; names are in
lower case (`tolower`); a chunked body is one span, trailers are headers behind
it; which bodies are JSON, and which of these are objects, is given by two
sets of texts (`Objects`, `OtherValues`).

## `AeTimeEvents`

The timers of `ae.c`, for any program that uses them; with `Stays`, one whose
first timer is the server's: re-armed for ever and never deleted.

| model | code |
|---|---|
| `head`, `nextId`, `next`, `prev` | `timeEventHead`, `timeEventNextId`, the links of each `aeTimeEvent` |
| `deleted`, `freed`, `ref` | `id == AE_DELETED_EVENT_ID`; given to `zfree`; `refcount` |
| `wait` | `when`, as the time left |
| `stack` | the calls of `processTimeEvents` inside each other: `te`, `maxId`, the saved `next` (`after`), and whether it walks, runs a proc, or a finalizer |
| `phase`, `timeout` | where `aeProcessEvents` is, and what is left of the sleep |
| `te`, `earliest` | the locals of `usUntilEarliestTimer` |

`CreateTimeEvent` and `DeleteTimeEvent` may come from any callback, as often as
it likes. `Poll` begins `usUntilEarliestTimer`, `SearchOn` is one turn of its loop
and `SearchDone` its end, with which `aeApiPoll` begins; `WakeByFile` and
`WakeByTimeout` are the return of the poll, `FilesDone` the end of the file events. Then
`SkipReferenced`, `Finalize`, `PassBy`, `CallProc` and `Leave` are the branches
of the loop of `processTimeEvents`, `FinalizerReturns` and `ProcReturns` what
follows a callback. `Reenter` is a proc that calls `aeProcessEvents` without
waiting, the case for which `refcount` exists (`ae.c:334`).

The links are the code's own, and `Listed` is what a walk along them reaches; that this is
exactly what is neither freed nor being finalized is proved (`ListedIsLive`),
not assumed.

Abstractions: a timer's id also stands for its address (a freed address is not
used again, so that going on from one shows); time passes in callbacks and in
the poll only, since a walk reads the clock when it starts and after each
callback, and the search compares times that are fixed; the epoll timeout's rounding and clocks that jump are in `FlowControl`.
Finalizers do not run the loop again: `ae.c:333` saves the successor before it calls
one, and nothing in the repository passes a finalizer at all. `zmalloc` does not fail.

## `AeFileEvents`

The file events of `ae.c`, for any program that keeps two rules: it closes a
descriptor only when nothing is registered for it, and a handler closes only its
own descriptor or one opened since the poll, and opens none after its own is
closed. That this server keeps them is `HttpServer!ImplementsLoop`, half of
`ServerImplements`.

| model | code |
|---|---|
| `mask` | `events[fd].mask` |
| `watch` | the kernel's interest: epoll's, kqueue's filters, or `rfds`/`wfds` |
| `maxfd`, `fired` | `maxfd`; the entries `fired[j ..]` still to come |
| `cur` | the entry in hand: `fd`, `mask` (`got`), `invert`, what was called (`fired` in the code), and which of the three calls is next |
| `open` | the descriptors of the process |
| `api` | the poller compiled in |

`CreateFileEvent` and `DeleteFileEvent` are the functions of those names with the
poller's part (`ApiAddEvent`, `ApiDelEvent`): epoll is told the whole mask, as
it was before a registration and as it is after a deletion; kqueue and select
are told the difference. `Poll` gives `fired[]` (`Entries`), one entry for a
descriptor: kqueue merges its two events (`ae_kqueue.c:147`), select makes an
entry for every registered descriptor, also with nothing ready. `TakeEntry`,
`CallProc`, `PassOver` and `ProcReturns` are the three guarded calls of
`aeProcessEvents`, each with the mask read again; between a call and its return
the program may do anything the rules allow. `Open` gives the lowest free
number, so that numbers are used again at once.

Four histories serve the properties: what was opened since the poll, what is
owed a call, what was called, and where a barrier stood.

Abstractions: the entries of epoll and kqueue come in any order; the time events
are a moment at which the program may act (`AeTimeEvents` has them); a second
registration leaves the proc as it was (`OneProc` tells which descriptors have
one proc for both events); a handler does not run the loop again, which would
overwrite `fired[]` (nothing in the repository does). select's `fd_set` holds any
descriptor: `FD_SETSIZE` is not modelled.

## `HttpServer`

Extends `AeFileEvents` with what its handlers are here: `on_accept` for the
listening socket, `on_read_ready` and `on_write_ready` for clients.

| model | code |
|---|---|
| `clients` | the descriptors of the `client_t` in memory |
| `active` | `g_metrics.active_connections` |
| `cfd`, `doing` | `on_accept`'s local; how far the handler is |
| `waiting`, `input` | the backlog; which clients have something to read (data, end or error) |
| `deaf`, `twice` | histories: registrations the poller refused; a client was freed twice |

`Listen` is the end of `main`'s set-up; `Accept`, `AcceptFails`, `Refuse` and
`Admit` are `on_accept` with `http_server_accept_connection`. `ReadInput` is one
`read()` and all that llhttp makes of it, `ReadFrees`, `WrittenOut` and
`WriteFrees` are what the handlers may come to; `FreeBegins` and `FreeEnds` are
`free_client` up to `close()` and from there. `UseAfterFree` is what follows a
client freed under llhttp (`use_after_free` shows that this happens): a crash, or
a second `free_client` that counts down again. `ServerPoll` is `Poll`,
level-triggered, and `Turns`, `StartHandler`, `EndHandler` are the loop's other
steps. `PeerConnects` and `PeerSends` happen at any time.

What a client says and is answered is in `HttpConnection`, so that here any
input may free the client or leave a reply to the writable watch. The token
bucket changes which answer a request gets, not what happens to its connection,
and is not in this module. A failed
`fcntl` and a failed `calloc` are left out.

## `ClientEvents`

`HttpConnection` follows one client with a loop of its own, made for that client;
`HttpServer` runs all clients on the loop of `AeFileEvents`, and leaves open what
each does. `ClientEvents` is what makes them two views of the same clients: a
set `Id` of them, those in memory (`alive`), what the loop has registered for each
(`mask`), what it has reported and not yet come to (`due`), and whose handler runs
(`turn`). The loop reports, calls a read handler, then a write handler, and passes
over what is no longer registered; a client registers and withdraws for itself
only, in its own handler.

| `ClientEvents` | in `HttpConnection` | in `HttpServer` |
|---|---|---|
| `Id` | the one client | the descriptors that are not reserved |
| `alive` | `client = "live"` | `clients` |
| `mask` | `mask` | `mask` of those descriptors |
| `due` | `fired` | what the entry in hand still has to be called for, and the entries that follow |
| `turn` | `pc` in `on_read_ready` or under it | the descriptor and stage of the handler that runs |
| `WriteAtOnce` | `on_write_ready`, one step there | not taken: a call, what it does, and a return |

That both implement it (`ImplementsClientEvents`) says that `HttpConnection` asks
nothing of its loop that the loop of `HttpServer` does not give, and does nothing
that `HttpServer` does not allow a client to do.

## Runs

| run | question | bounds | result |
|---|---|---|---|
| `connection` | order and completeness of replies, registration, closing, one free as long as no response announced the end, the size of the buffer, both refinements; is every request served, does every last reply end the connection | 4 pieces of all five kinds, 2-unit replies, a socket that holds 3, `SIGPIPE` killing or ignored | holds |
| `use_after_free` | does the client outlive llhttp's callbacks | 2 pieces, one may be the last | violated |
| `half_close` | does a close wait for the pending write | 1 request, then `shutdown` | violated |
| `connect_reply` | does the reply to a CONNECT get out | 1 piece, a socket that holds half a reply | violated |
| `flow_control` | is the bucket within bounds, is the limit kept over every window, is an empty bucket filled again | capacity 3, period 2, clock steps of 1 or 2 forward and back, two periods late, windows of 7 | holds |
| `flow_control_pace` | is the documented rate reached | a timer late by at most 1 | violated |
| `request_handling` | are URL and body put together, is nothing granted without the token, is every answer right | 2 pipelined requests out of 39, cut anywhere | holds |
| `split_header` | is a request authorised or not whatever reads its bytes came in | 1 authorised request, cut anywhere | violated |
| `time_events` | do list, walks, sleep and reference counts survive creation and deletion from callbacks and nested walks; does every walk end, every due timer run, every deleted one get freed | 3 timers, delays up to 2, walks nested 3 deep, the first timer as the server's | holds |
| `timers_all_deleted` | does the poll do without a timer when all are deleted | 2 timers, delays up to 1, no nesting | violated |
| `file_events` | do table, kernel and `maxfd` agree; is every reported event handled once, in order, for the descriptor it was reported of, or withdrawn | 3 descriptors, one above `setsize`, one with a single proc; three pollers | holds |
| `http_server` | are descriptors, count and registrations right however clients come and go; is every client read, does the backlog move; are the loop's rules kept, is each client one of `ClientEvents` | 2 clients at most, 4 descriptors, a backlog of 1, epoll | holds |

The bounds: four pieces give a request split in two with another pipelined
behind it and something illegal after that; a socket of three units and replies
of two make every write full, short or refused, with up to three replies in the
buffer. The connection has no counter that matters beyond these. The windows of
the bucket span three periods. The 39 requests combine no, one, two and
contradictory `Authorization` headers, values that are empty, too long or only
the token's tail, a name that ends in `authorization`, both encodings, a body that is an object, a
number (so is its beginning), no JSON or none, and trailers; two in a row show what one leaves to the next. Deadlock is not checked for the connection,
which ends, and whose peer may fall silent, nor for `HttpServer`, whose process
may crash (`UseAfterFree`); it is checked for the bucket, the timers and the
file events, whose loop never stops, except in `timers_all_deleted`, which ends
in a crash. Three timers are the least in which one is unlinked between two others;
three walks the least in which two are waiting outside the one that moves.
Delays up to 2 let timers be due now, next, or later than another one.

Two usable descriptors are the least of which one can be closed and opened again
by the handler of the other while an entry of it is to come; the third is the
one `aeCreateFileEvent` refuses. `http_server` has `SetSize` as small as
`ServerAssumption` allows, one descriptor more than that for the client that is
refused, and a peer in the backlog whenever it likes: every path of `on_accept`
is taken, with no descriptor left, too, after a double free has let one client
more in. Only epoll is used there, as the theorems of `AeFileEvents` hold for
the three pollers and carry over by the refinement.

What the violations show:

* `use_after_free`: a reply with `Connection: close` that the first `write()`
  takes whole makes `enqueue_write` free the client (`http_server.c:86`) inside
  `llhttp_execute`, whose caller then reads the freed parser and the closed
  descriptor. This is the ordinary path for every small reply that is not kept
  alive. The path through `on_write_ready`, and connections that are kept alive,
  are free of it: `FreedOnce`.
* `half_close`: a client that sends its requests and shuts its writing side
  down, as HTTP allows, loses what the socket had not yet taken. The field
  documented to prevent it (`http_server.h:31`) is never set.
* `connect_reply`: behind a CONNECT or an Upgrade that it has answered, llhttp
  pauses; `on_read_ready` takes the pause for a parse error (`http_server.c:309`)
  and frees the client, with what the socket has not yet taken of a reply that may
  say `Connection: keep-alive`.
* `flow_control_pace`: every tick credits 10 ms and the next is 10 ms after it
  *ended*; lateness adds up, and the real limit is below the documented 50 per
  millisecond.
* `split_header`: `on_header_value` judges each fragment alone and the last one
  wins (`http_server.c:175`), and `on_header_field` keeps only the last fragment
  of a name. A good request whose `Authorization` header crosses the end of a
  read, or ends exactly there, is refused. In the other direction nothing is
  granted to a request that does not end some header with the token:
  `GrantNeedsToken`.
* `timers_all_deleted`: a deleted timer, also one whose proc returned
  `AE_NOMORE`, stays in the list until the next walk. If it was the last one,
  the poll in between finds no earliest timer and follows NULL (`ae.c:316`),
  where the comment (`ae.c:297`) promises -1. This server is safe only because
  its one timer is never deleted: `NeverCrashes`.
Two more disagreements are in the models without a run of their own, their
behaviour being plain to see there. `walkthrough.md:9` says that the accept loop
pauses at the limit: `on_accept` accepts and closes (`main.c:28`, `Refuse`), so a
client beyond the limit does not wait but is dropped. And `ae.h:45` promises of a
barrier more than `aeProcessEvents` keeps, which decides on the order of its two
calls before the first (`ae.c:477`, `TakeEntry`): behind a readable proc that sets
the barrier itself, the writable one may still be called. This server sets no
barriers, and one that stands when the entry is taken holds: `CalledOnceInOrder`.

## Fairness

`HttpConnection!FairSpec`: weak fairness of the server's steps together (one
thread that never blocks except in the poll) and of a peer that reads what it is
sent. Without the second no server could finish a reply. Nothing is assumed of
which event comes first. `FlowControl!FairSpec`: time passes, nobody sets the
clock back for ever, the loop turns, and each batch of file events ends. The last of these is an assumption on the peers, since
`on_read_ready` reads until `EAGAIN`; it is listed as a hazard.
`AeTimeEvents!FairSpec`: the loop's own steps are taken, procs and finalizers
return, and time passes while the poll sleeps. Nothing is assumed of what
callbacks create or delete, nor of the delays they ask for.
`HttpServer!FairSpec`: weak fairness of the loop's steps and of what handlers do,
and strong fairness of a handler's end. The second says that no peer sends for
ever without a pause in which `on_read_ready` meets `EAGAIN`: the code has no
other end to that loop (`http_server.c:293`), and without it one busy client
would starve all the others, and the backlog.

## Proofs

`HttpConnection_proofs` proves, for every response length, socket capacity, set
of pieces, number of pieces and disposition of `SIGPIPE`, all properties of
`connection` but the two liveness properties. The assumptions are those on the
constants.

None of the properties is inductive. `ConnectionInvariant` adds what they lack:
a freed client is registered for nothing (or a handler would run on it); a
closed parser belongs to a connection whose last reply waits in a non-empty
buffer (hence `NoLingering`); a paused or failed parser exists only inside
`llhttp_execute`, whose caller frees the client next; after a response that
announced the end the parser is closed, paused or failed (hence
`NoReplyAfterLast`).
The central argument is about `wire \o Pending = replies`: `UnitsMove` shows that
a write of any length moves a piece from one side to the other, `WriteSome` that
both writers then either keep the rest or end the connection, `EnqueueWriteEffect`
and `WriteReadyEffect` lift that to the two handlers. The step of the refinement
and that of `CloseIsJustified` use the same effects. `BufferKept` keeps the books of a
connection (`BooksBalance`): one reply for each piece at most, nothing on the wire
that the socket does not hold or the peer has not read, and never more written
of a buffer than is on the wire. `ConnectionIsAClient` maps each step to one of
`ClientEvents`; its invariant is that a living client is always registered for
reading and that the loop has forgotten its last report when it polls
(`ClientServed`). Two theorems say what is enough for a connection to fare well:
requests to be kept alive, and then its peer ends it and nobody else
(`KeptAliveEndsWithPeer`, by `OnlyRequests`); and with SIGPIPE ignored, which the
code does not see to, no peer ends the process (`SurvivesVanishedPeers`).

`FlowControl_proofs` proves the bounds of the bucket and `WindowBound` for every
capacity, rate, period and behaviour of the clock, and, for a clock that is not set
back, how slow the bucket can get (`SlowestPace`: of the documented rate at least
`Period / (Period + MaxLate)`, but for one period). `BucketInvariant` is an account
of tokens (what was granted and what is left never exceed a full bucket and what
was credited) and of time (what was credited fits into the time up to the next
due time).

`RequestHandling_proofs` proves the four properties of `request_handling` for
every set of requests that llhttp can report (`WellFormed`), every alphabet and
every way of cutting. `RequestInvariant` says what each variable holds in the
middle of a message: URL and body are what has been delivered of their spans,
the name in hand ends the name sent, the flags speak for the headers before the
current position if none was cut, and a granted token is either backed by a
header that is over or about to be judged again. `FragmentEffect` is the one
fact about cutting on which every callback's step rests.

`AeTimeEvents_proofs` proves the six invariants of `time_events` and
`DeletionIsFinal` for any number of timers, any delays and any depth of nesting.
`TimersInvariant` adds where each walk stands: every walk but the innermost is
in a proc, on a timer still in the list; the innermost stands on a listed timer,
or has one unlinked and its successor in hand; and `ref` counts the procs that
run, so that what has no reference is stood on by no other walk (this is what
makes `Finalize` safe); and how far the search for the first timer is: what it has
passed holds nothing earlier than what it has found (`SearchRight`, hence
`WakesInTime`). `UnlinkEffect` and `LinkEffect` are the two surgeries on
the list. `NeverCrashes` needs that a walk from the head reaches every live timer:
`ListedIsLive`, by the greatest timer that would be missed. `EveryWalkDescends` is the
safety half of `WalksEnd`: each turn of the loop lowers a measure of its walk, which
begins at `3 * maxId + 2` at most, and touches no walk outside it, so that a walk can go
on for ever only if a callback does. It rests on the order of the list and on
`FinalDescends`: what a finalizer saved as its successor is in front of what it frees.

`AeFileEvents_proofs` proves the six properties of `file_events` for every table
size, every set of descriptors and each poller. `EventsInvariant` adds that
whatever still has an entry in `fired[]` was open at the poll and has not been
closed since (`EntriesRight`: the two rules for programs keep it so, and it is
what makes a stale entry harmless); what has been called of the entry in hand and
in which order (`TurnRight`); and that every event owed is still registered and
its call still to come (`OwedRight`).

`HttpServer_proofs` proves the safety properties of `http_server` for every limit
of connections, every set of descriptors open from the start and every limit of
the process. `ServerStepMaps` maps each step to one of `AeFileEvents` or to none,
so that the loop's invariant holds by its own theorem, and `ServerInvariant` adds
where the handler is and which descriptors it has in hand (`HandlerRight`).
`EveryClientHeard` is a matter of counting: a new descriptor is the lowest free
one, so at most as large as the number of those in use, and those are the
reserved ones and fewer than MAX_CONCURRENCY clients (`AdmittedFits`, from
`LowestFree`). The same count shows that a process with one descriptor to spare
always finds one to accept with (`AcceptFindsDescriptor`): the loop spins on the
listening socket only if RLIMIT_NOFILE is lower than the limit, or after a double
free. `NoStaleEventForClients` is the loop's guarantee, carried over to the
server by the refinement. `ClientsAreClients` maps the same steps to `ClientEvents`; it
needs that nothing is registered behind a barrier, so that reading comes first,
and that whoever is read from is registered for it (`ReadersRight`).

`ClientEvents` has two theorems of its own: only what is in memory is registered,
hence the loop starts no handler for a client that is gone. `NoHandlerForTheFreed`
and `NoHandlerForTheGone` carry the second over to the connection and to the
server by their refinements; the latter also holds after a double free has
made the server miscount.

Each of the six runs that find a violation has a theorem beside it, which says how
much does hold, or under what condition all of it does:

| violated | what is proved |
|---|---|
| `ClientOutlivesCallbacks` | `KeptAliveOutlives`: it holds if no request ends the connection; `KeptAliveFreedOnce`: no double free before a response announced the end |
| `CloseWaitsForWrite` | `JustifiedClose`: the three reasons for which a connection is closed, of which the peer's end of file is one |
| `PausedReplySent` | `KeptAliveEndsWithPeer`: with requests to be kept alive only, no reply is cut off by the server |
| `PaceKept` | `PunctualPace`: it holds if the timer is never late and the clock never set back; `SlowestPace`: how much is lost otherwise |
| `AuthorisationIsRight` | `UncutAuthorisation`: it holds if no read ends inside or just behind a header; `GrantsNeedToken`: what holds wherever reads end |
| `NoTimersNoTimeout` | `ServerNeverCrashes`: the poll finds a timer as long as one is never deleted |

The conditions are hypotheses of the theorems, not assumptions of the modules: the
code does not ensure them, and the violations show it.

`WalksDescend`, `LateCredit`, `CallsTheLiving`, `PeerEndsIt` and `ServerSurvives` are
proved and are no property of a run. Only model-checked: `RequestsServed`, `LastReplyEnds`, `RefillArrives`,
`WalksEnd`, `DueTimersRun`, `DeletedAreFreed`, `ClientsRead` and `BacklogMoves`,
since liveness is outside the prover's reach; and the six violations.

## Not modelled

* The vendored libraries: `yyjson`, `lz4`, zlib and two copies of the generated
  `llhttp.c`, which are nine tenths of the lines in this repository. They are
  third-party, pure functions of a buffer (llhttp: of a buffer and its state),
  without concurrency or failure of their own. What the server sees of them is
  modelled where it matters: llhttp's callbacks and how it cuts them
  (`RequestHandling`), its end states, pause and sticky error (`HttpConnection`), and
  whether a compression succeeds. The states by which llhttp recognises a message
  are not.
* The bytes of replies: what yyjson, lz4 and zlib write; `/metrics` and `/config`
  are named, not spelled out. The counters of `metrics.c` other than
  `active_connections`, which are only reported; logging.
* The system calls of `main` before `aeMain`: made once, in order, with an exit on
  failure.
* Parts of `ae.c` nothing in the repository calls: `aeResizeSetSize`, `aeWait`, `aeStop`,
  `custompoll` and the sleep hooks; and `ae_evport.c`, which `config.h` never
  selects.
* `malloc` that fails, and `write_buf` without bound: the code checks neither.
