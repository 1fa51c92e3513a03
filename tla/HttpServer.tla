----------------------------- MODULE HttpServer -----------------------------
(***************************************************************************)
(* The whole server as far as descriptors and their number go: main.c,     *)
(* which accepts and refuses, and the clients of http_server.c, which come *)
(* and go, run by the event loop of AeFileEvents.  What a client says, and *)
(* what it is answered, is in HttpConnection and RequestHandling.          *)
(*                                                                         *)
(* A step of the server is a step of the loop, or one that the loop does   *)
(* not see; that the server keeps the loop's rules for programs is         *)
(* ImplementsLoop.                                                         *)
(*                                                                         *)
(* Definitions named Fault_... are mistakes this code could have had; no   *)
(* specification uses them.  Put in the place of the definition after      *)
(* them, each breaks the property it names.                                *)
(***************************************************************************)
EXTENDS AeFileEvents

CONSTANTS
    MaxConcurrency, \* MAX_CONCURRENCY
    ServerFd,       \* server_fd
    MaxBacklog      \* BOUND: connections waiting to be accepted

\* aeCreateEventLoop(MAX_CONCURRENCY + 128): room for what is open besides.
\* on_read_ready and on_write_ready are two procs.
ASSUME ServerAssumption ==
    /\ MaxConcurrency \in Nat \ {0} /\ MaxBacklog \in Nat
    /\ ServerFd \in Reserved /\ ServerFd < SetSize
    /\ Cardinality(Reserved) + MaxConcurrency <= SetSize
    /\ OneProc = {}

VARIABLES
    waiting,    \* connections the kernel holds to be accepted
    input,      \* clients with something to read: data, end or error
    clients,    \* descriptors of the client_t in memory
    active,     \* g_metrics.active_connections
    cfd,        \* the descriptor on_accept has been given
    doing,      \* how far the handler is; see Doing
    deaf,       \* HISTORY: clients whose registration the poller refused
    twice       \* HISTORY: a client_t has been freed twice

serverVars == <<clients, active, cfd, doing, deaf, twice>>
peerVars   == <<waiting, input>>
allVars    == <<vars, serverVars, peerVars>>

\* Not in a handler (before aeMain: "setup"); at its start or in its loop;
\* on_accept, with a connection in hand; free_client, before close(), called from
\* the handler itself or from within llhttp; in llhttp, the client freed; done.
Doing == {"setup", "idle", "start", "accepted", "closing", "closingInside",
          "inside", "done", "crashed"}

ServerTypeOK ==
    /\ waiting \in 0 .. MaxBacklog /\ input \subseteq clients
    /\ clients \subseteq Fd \ Reserved /\ deaf \subseteq clients
    /\ active \in Nat /\ cfd \in Fd /\ doing \in Doing /\ twice \in BOOLEAN

ServerInit ==
    /\ Init
    /\ waiting = 0 /\ input = {} /\ clients = {} /\ active = 0
    /\ cfd = ServerFd /\ doing = "setup" /\ deaf = {} /\ twice = FALSE

-----------------------------------------------------------------------------
(* main, and its handler on_accept *)

\* main goes on to aeMain only if the listening socket is registered.
Listen ==
    /\ doing = "setup" /\ CreateFileEvent(ServerFd, {"R"})
    /\ doing' = "idle"
    /\ UNCHANGED <<clients, active, cfd, deaf, twice, peerVars>>

Accepting == pc = "handler" /\ cur.fd = ServerFd

Accept ==
    /\ Accepting /\ doing = "start" /\ waiting > 0
    /\ \E fd \in Fd : Open(fd) /\ cfd' = fd
    /\ waiting' = waiting - 1
    /\ doing' = "accepted"
    /\ UNCHANGED <<clients, active, deaf, twice, input>>

\* accept returns -1: no descriptor is left, or nobody waits.
AcceptFails ==
    /\ Accepting /\ doing = "start" /\ (open = Fd \/ waiting = 0)
    /\ doing' = "done"
    /\ UNCHANGED <<vars, clients, active, cfd, deaf, twice, peerVars>>

Fault_OneTooMany == active > MaxConcurrency     \* CountIsRight, EveryClientHeard

LimitReached == active >= MaxConcurrency

Fault_RefusedLeftOpen(fd) == UNCHANGED vars     \* NoFdLeak, BacklogMoves

CloseRefused(fd) == Close(fd)

Refuse ==
    /\ Accepting /\ doing = "accepted" /\ LimitReached
    /\ CloseRefused(cfd)
    /\ doing' = "done" /\ cfd' = ServerFd
    /\ UNCHANGED <<clients, active, deaf, twice, peerVars>>

\* http_server_accept_connection; nobody looks at what aeCreateFileEvent returns.
Admit ==
    /\ Accepting /\ doing = "accepted" /\ ~LimitReached
    /\ clients' = clients \cup {cfd}
    /\ active' = active + 1
    /\ \/ CreateFileEvent(cfd, {"R"}) /\ UNCHANGED deaf
       \/ /\ UNCHANGED vars
          /\ deaf' = IF cfd < SetSize /\ Accepted(cfd) THEN deaf \cup {cfd} ELSE deaf
    /\ doing' = "done" /\ cfd' = ServerFd
    /\ UNCHANGED <<twice, peerVars>>

-----------------------------------------------------------------------------
(* free_client *)

Serving == pc = "handler" /\ cur.fd # ServerFd

Fault_NotWithdrawn == UNCHANGED vars            \* ServerImplements

WithdrawClient == DeleteFileEvent(cur.fd, {"R", "W"})

FreeBegins(then) ==
    /\ WithdrawClient
    /\ doing' = then
    /\ UNCHANGED <<clients, active, cfd, deaf, twice, peerVars>>

Fault_BelowZero == active - 1                   \* ServerTypeOK

CountDown == IF active > 0 THEN active - 1 ELSE active

FreeEnds ==
    /\ Serving /\ doing \in {"closing", "closingInside"}
    /\ Close(cur.fd)
    /\ clients' = clients \ {cur.fd} /\ deaf' = deaf \ {cur.fd}
    /\ input' = input \ {cur.fd}
    /\ active' = CountDown
    /\ doing' = IF doing = "closing" THEN "done" ELSE "inside"
    /\ UNCHANGED <<cfd, twice, waiting>>

\* UNDEFINED BEHAVIOUR: llhttp goes on with the freed client.  The process
\* crashes; or read() fails on the closed descriptor, and the second free_client
\* finds nothing to withdraw and nothing to close, but counts.
UseAfterFree ==
    /\ Serving /\ doing = "inside"
    /\ \/ doing' = "crashed" /\ UNCHANGED <<active, twice>>
       \/ doing' = "done" /\ active' = CountDown /\ twice' = TRUE
    /\ UNCHANGED <<vars, clients, cfd, deaf, peerVars>>

-----------------------------------------------------------------------------
(* on_read_ready and on_write_ready *)

Reading == Serving /\ cur.stage = "read" /\ doing = "start"
Writing == Serving /\ cur.stage = "write" /\ doing = "start"

\* One read() and all that llhttp makes of it.  Replies may be left to the
\* writable watch.
ReadInput ==
    /\ Reading /\ cur.fd \in input
    /\ input' = input \ {cur.fd}
    /\ UNCHANGED vars \/ CreateFileEvent(cur.fd, {"W"})
    /\ UNCHANGED <<serverVars, waiting>>

\* The end, an error, or what llhttp rejects; or a last reply all written.
ReadFrees == Reading /\ cur.fd \in input /\ \E then \in {"closing", "closingInside"} : FreeBegins(then)

Fault_RemovesBoth == DeleteFileEvent(cur.fd, {"R", "W"})    \* ClientsRead

RemoveWriteWatch == DeleteFileEvent(cur.fd, {"W"})

\* All is written: the watch is removed, and with the last reply the client.
WrittenOut ==
    /\ Writing /\ RemoveWriteWatch
    /\ UNCHANGED <<serverVars, peerVars>>

\* write() fails, or the reply just written out was the last one.
WriteFrees == Writing /\ FreeBegins("closing")

-----------------------------------------------------------------------------
(* The loop, around the handlers *)

Readable(fd) == IF fd = ServerFd THEN waiting > 0 ELSE fd \in input

\* Level-triggered: what is watched for reading is reported while it is readable.
ServerPoll ==
    /\ doing = "idle" /\ pc = "poll"
    /\ \E ready \in [Watched -> SUBSET Ready] :
          /\ \A fd \in Watched : "R" \in ready[fd] <=> Readable(fd)
          /\ PollGives(ready)
    /\ UNCHANGED <<serverVars, peerVars>>

Turns ==
    /\ doing = "idle"
    /\ TakeEntry \/ PassOver \/ EventsDone \/ TimersDone
    /\ UNCHANGED <<serverVars, peerVars>>

StartHandler ==
    /\ doing = "idle" /\ CallProc /\ doing' = "start"
    /\ UNCHANGED <<clients, active, cfd, deaf, twice, peerVars>>

\* on_read_ready reads until there is nothing left.
EndHandler ==
    /\ doing = "done" \/ (Reading /\ cur.fd \notin input) \/ Writing
    /\ ProcReturns /\ doing' = "idle"
    /\ UNCHANGED <<clients, active, cfd, deaf, twice, peerVars>>

-----------------------------------------------------------------------------
(* The peers *)

PeerConnects ==
    /\ waiting < MaxBacklog /\ doing # "crashed" /\ waiting' = waiting + 1
    /\ UNCHANGED <<vars, serverVars, input>>

PeerSends ==
    /\ doing # "crashed" /\ \E fd \in clients : input' = input \cup {fd}
    /\ UNCHANGED <<vars, serverVars, waiting>>

-----------------------------------------------------------------------------
Handlers ==
    \/ Accept \/ AcceptFails \/ Refuse \/ Admit
    \/ ReadInput \/ ReadFrees \/ WrittenOut \/ WriteFrees \/ FreeEnds \/ UseAfterFree

Server == Listen \/ Handlers \/ ServerPoll \/ Turns \/ StartHandler \/ EndHandler

ServerNext == Server \/ PeerConnects \/ PeerSends
ServerSpec == ServerInit /\ [][ServerNext]_allVars

\* The loop never stops.  Handlers end, since no peer sends for ever without a
\* pause in which on_read_ready finds nothing.
FairSpec ==
    /\ ServerSpec
    /\ WF_allVars(Turns \/ StartHandler \/ Handlers \/ ServerPoll \/ Listen)
    /\ SF_allVars(EndHandler)

-----------------------------------------------------------------------------
(* Correctness *)

Freeing == Serving /\ doing \in {"closing", "closingInside"}

\* main.c and http_server.c keep the rules AeFileEvents asks of a program, so
\* that what it guarantees holds for them: no event of a client that is gone
\* reaches the one that was accepted next and has its descriptor.
ImplementsLoop == Spec

\* What each client sees of the loop is what ClientEvents says, and what
\* HttpConnection, which follows one of them through its requests, relies on: one
\* handler runs at a time, only for what was reported and is still registered, and
\* no client touches the registration of another.  What the loop has reported and
\* not yet come to is in the entry in hand and in those that follow.
ClientFd == Fd \ Reserved

InHand(fd) ==
    {ev \in cur.got :
        /\ fd = cur.fd
        /\ \/ pc = "dispatch" /\ cur.stage = "read"
           \/ pc = "handler" /\ cur.stage = "read" /\ ev = "W"
           \/ pc = "dispatch" /\ cur.stage = "write" /\ ev = "W"}

Listed(fd) == {ev \in Ready : \E e \in fired : e.fd = fd /\ ev \in e.got}

DueTo(fd) == InHand(fd) \cup Listed(fd)

Masks == [fd \in ClientFd |-> mask[fd]]
Dues  == [fd \in ClientFd |-> DueTo(fd)]
TurnOf ==
    IF pc = "handler" /\ cur.fd \in ClientFd
    THEN <<cur.fd, IF cur.stage = "write" THEN "write" ELSE "read">> ELSE <<>>

Events == INSTANCE ClientEvents WITH
    Id <- ClientFd, alive <- clients, mask <- Masks, due <- Dues, turn <- TurnOf
ImplementsClientEvents == Events!Spec

\* The server between the two: a program that keeps the rules of the loop, made of
\* clients that each keep to themselves.
ServerImplements == ImplementsLoop /\ ImplementsClientEvents

\* Every client is counted up once and down once, and the count stays within
\* MAX_CONCURRENCY.  A client freed twice leaves the count too low, never too
\* high: nobody is refused without need, but more than the limit may get in.
CountIsRight ==
    /\ active <= MaxConcurrency /\ active <= Cardinality(clients)
    /\ ~twice => active = Cardinality(clients)

\* Every descriptor belongs to a client, or on_accept has it in hand: none is
\* lost when a client is refused, fails, ends or is freed twice.
NoFdLeak ==
    open = Reserved \cup clients \cup (IF doing = "accepted" THEN {cfd} ELSE {})

\* The 128 entries beyond MAX_CONCURRENCY are enough: every client is listened
\* to, unless the poller refused.
EveryClientHeard ==
    \A fd \in clients \ deaf : twice \/ "R" \in mask[fd] \/ (Freeing /\ fd = cur.fd)

\* No client is forgotten: what it sends is read, whatever the others do.
ClientsRead ==
    \A fd \in Fd \ Reserved :
        fd \in input ~> (fd \notin input \/ fd \in deaf \/ twice \/ doing = "crashed")

\* However many connect, those that wait are accepted, to be served or refused,
\* where the process has a descriptor left to accept with.
BacklogMoves ==
    waiting = MaxBacklog ~> (waiting < MaxBacklog \/ twice \/ doing = "crashed")

\* What makes these inductive: where the handler is, and whose descriptors the
\* table, on_accept and free_client hold.
HandlerRight ==
    /\ doing \in {"setup", "idle"} <=> pc # "handler"
    /\ \A fd \in Fd : mask[fd] # {} => fd \in clients \cup {ServerFd}
    /\ doing = "start" => cur.fd \in clients \cup {ServerFd}
    /\ doing \in {"closing", "closingInside"} => cur.fd \in clients /\ mask[cur.fd] = {}
    /\ doing = "accepted" =>
          /\ cur.fd = ServerFd /\ cfd \notin clients \cup Reserved /\ cfd \in fresh
          /\ \A d \in 0 .. cfd - 1 : d \in open

\* The server registers nothing behind a barrier, and a client that is read from
\* is registered for it.
ReadersRight ==
    /\ \A fd \in Fd : "B" \notin mask[fd]
    /\ pc \in {"dispatch", "handler"} => ~cur.invert
    /\ Serving /\ cur.stage = "read" /\ doing = "start" => "R" \in mask[cur.fd]

ServerInvariant ==
    /\ EventsInvariant /\ ServerTypeOK
    /\ CountIsRight /\ NoFdLeak /\ EveryClientHeard /\ HandlerRight
=============================================================================
