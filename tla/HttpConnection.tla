--------------------------- MODULE HttpConnection ---------------------------
(***************************************************************************)
(* One accepted connection of the UDS HTTP server, from the moment         *)
(* http_server_accept_connection has registered it: the client_t of        *)
(* http_server.h, the callbacks of http_server.c, the event loop of ae.c   *)
(* as far as one descriptor sees it, and the peer at the other end of the  *)
(* socket.                                                                 *)
(*                                                                         *)
(* A request is a sequence of pieces: each piece is what one or several    *)
(* read() calls deliver and what llhttp makes of it.                       *)
(*   "part"     bytes that leave a message incomplete                      *)
(*   "request"  the end of a message that keeps the connection alive       *)
(*   "last"     the end of a message that does not (Connection: close,     *)
(*              HTTP/1.0)                                                  *)
(*   "connect"  the end of a CONNECT or Upgrade message                    *)
(*   "bad"      bytes llhttp rejects                                       *)
(* A response is ReplyLen units; a write() accepts some number of them.    *)
(*                                                                         *)
(* Definitions named Fault_... are mistakes this code could have had; no   *)
(* specification uses them.  Put in the place of the definition after      *)
(* them, each breaks the property it names.                                *)
(***************************************************************************)
EXTENDS Integers, FiniteSets, SequencesExt

CONSTANTS
    Pieces,     \* the kinds of piece this peer sends
    ReplyLen,   \* units in one response
    SndCap,     \* units the socket holds between write() and the peer's read
    MaxSend,    \* BOUND: pieces the peer sends in all
    SigPipe     \* the dispositions of SIGPIPE the server may inherit: main.c sets none

PieceKind == {"part", "request", "last", "connect", "bad"}

ASSUME PiecesAssumption == Pieces \subseteq PieceKind
ASSUME SizesAssumption ==
    /\ ReplyLen \in Nat \ {0}
    /\ SndCap \in Nat \ {0}
    /\ MaxSend \in Nat
ASSUME SigPipeAssumption == SigPipe \subseteq {"kill", "ignore"}

VARIABLES
    client,     \* the client_t: "live" or "freed"
    frees,      \* calls of free_client on it
    mask,       \* events the loop has registered for its descriptor
    writeBuf,   \* write_buf[0 .. write_len), <<>> when NULL
    writePos,   \* write_pos
    keepAlive,  \* keep_alive
    parser,     \* llhttp: between messages, inside one, closed, paused or failed
    buf,        \* the part of on_read_ready's buf that llhttp has not seen
    answered,   \* responses given to send_response
    replies,    \* HISTORY: all units given to send_response
    proc,       \* the server process
    pc,         \* what the event loop is doing for this descriptor
    fired,      \* the events the last poll returned and not yet dispatched
    inq,        \* pieces in the kernel, not yet read by the server
    wire,       \* HISTORY: all units write() has accepted
    drained,    \* how many units of wire the peer has read
    peer,       \* the peer's end: open, shut down for writing, closed
    sent        \* pieces the peer has sent

clientVars == <<client, frees, mask, writeBuf, writePos>>
parseVars  == <<parser, buf, keepAlive, answered, replies>>
loopVars   == <<proc, pc, fired>>
peerVars   == <<inq, drained, peer, sent>>
vars == <<clientVars, parseVars, loopVars, peerVars, wire>>

Event == {"R", "W"}             \* AE_READABLE, AE_WRITABLE
Unit  == Nat \X Nat             \* <<number of the response, place in it>>

\* llhttp_execute returns: HPE_PAUSED_UPGRADE, or what is wrong with the bytes.
Stopped == {"paused", "error"}

TypeOK ==
    /\ client \in {"live", "freed"}
    /\ frees \in Nat
    /\ mask \subseteq Event
    /\ writeBuf \in Seq(Unit)
    /\ writePos \in 0 .. Len(writeBuf)
    /\ keepAlive \in BOOLEAN
    /\ parser \in {"start", "message", "closed"} \cup Stopped
    /\ buf \in Seq(PieceKind)
    /\ answered \in Nat
    /\ replies \in Seq(Unit)
    /\ proc \in {"up", "dead"}
    /\ pc \in {"poll", "events", "read", "parse"}
    /\ fired \subseteq Event
    /\ inq \in Seq(PieceKind)
    /\ wire \in Seq(Unit)
    /\ drained \in Nat
    /\ peer \in {"open", "half", "closed"}
    /\ sent \in Nat

\* http_server_accept_connection: calloc, llhttp_init, AE_READABLE registered.
Init ==
    /\ client = "live" /\ frees = 0 /\ mask = {"R"}
    /\ writeBuf = <<>> /\ writePos = 0
    /\ parser = "start" /\ buf = <<>> /\ keepAlive = FALSE
    /\ answered = 0 /\ replies = <<>>
    /\ proc = "up" /\ pc = "poll" /\ fired = {}
    /\ inq = <<>> /\ wire = <<>> /\ drained = 0 /\ peer = "open" /\ sent = 0

-----------------------------------------------------------------------------
(* Helpers *)

Rest(s, n) == SubSeq(s, n + 1, Len(s))      \* s without its first n elements
Pending    == Rest(writeBuf, writePos)
Reply(k)   == [i \in 1 .. ReplyLen |-> <<k, i>>]
Room       == SndCap - (Len(wire) - drained)

\* write() on the non-blocking socket, given m > 0 units: it accepts some of
\* them, or none (EAGAIN), or the peer is gone: SIGPIPE, or EPIPE if ignored.
Accepts(m)   == {n \in 1 .. m : peer # "closed" /\ n <= Room}
WriteBlocks  == peer # "closed" /\ Room <= 0
WriteFails   == peer = "closed" /\ "ignore" \in SigPipe
WriteSignals == peer = "closed" /\ "kill" \in SigPipe

SetWriteBuf(b, p) == writeBuf' = b /\ writePos' = p

FreeClient ==
    /\ client' = "freed"
    /\ frees' = frees + 1
    /\ mask' = {}
    /\ SetWriteBuf(<<>>, 0)

Fault_KeepsPos(keep, newMask) ==    \* TypeOK: write_pos not reset
    IF keep THEN /\ SetWriteBuf(<<>>, writePos)
                 /\ mask' = newMask
                 /\ UNCHANGED <<client, frees>>
            ELSE FreeClient

Fault_NeverCloses(keep, newMask) == \* NoLingering, LastReplyEnds
    /\ SetWriteBuf(<<>>, 0) /\ mask' = newMask /\ UNCHANGED <<client, frees>>

\* The buffer is written out: released, and with it a connection not kept alive.
WrittenOut(keep, newMask) ==
    IF keep THEN /\ SetWriteBuf(<<>>, 0)
                 /\ mask' = newMask
                 /\ UNCHANGED <<client, frees>>
            ELSE FreeClient

\* write() accepted n of the units after write_pos: the same code in
\* enqueue_write and in on_write_ready, which register differently.
Fault_WritesFromStart(b, n, keep, doneMask, partMask) ==  \* RepliesInOrder
    /\ wire' = wire \o SubSeq(b, 1, n)
    /\ IF writePos + n = Len(b)
          THEN WrittenOut(keep, doneMask)
          ELSE /\ SetWriteBuf(b, writePos + n) /\ mask' = partMask
               /\ UNCHANGED <<client, frees>>

Fault_KeepsOldPos(b, n, keep, doneMask, partMask) ==      \* Implements
    /\ wire' = wire \o SubSeq(b, writePos + 1, writePos + n)
    /\ IF writePos + n = Len(b)
          THEN WrittenOut(keep, doneMask)
          ELSE /\ SetWriteBuf(b, writePos) /\ mask' = partMask
               /\ UNCHANGED <<client, frees>>

Fault_ClosesEarly(b, n, keep, doneMask, partMask) ==      \* CloseIsJustified
    /\ wire' = wire \o SubSeq(b, writePos + 1, writePos + n)
    /\ IF writePos + n = Len(b) \/ ~keep
          THEN WrittenOut(keep, doneMask)
          ELSE /\ SetWriteBuf(b, writePos + n) /\ mask' = partMask
               /\ UNCHANGED <<client, frees>>

Advance(b, n, keep, doneMask, partMask) ==
    /\ wire' = wire \o SubSeq(b, writePos + 1, writePos + n)
    /\ IF writePos + n = Len(b)
          THEN WrittenOut(keep, doneMask)
          ELSE /\ SetWriteBuf(b, writePos + n) /\ mask' = partMask
               /\ UNCHANGED <<client, frees>>

\* enqueue_write goes on after any refused write: on_write_ready will see to it.
Fault_NoWatch(b) ==                                       \* WriteBufRight
    SetWriteBuf(b, writePos) /\ UNCHANGED <<client, frees, mask, wire>>

LeaveToWatch(b) ==
    /\ SetWriteBuf(b, writePos) /\ mask' = mask \cup {"W"}
    /\ UNCHANGED <<client, frees, wire>>

\* enqueue_write, the data already appended: one write at once.
EnqueueWrite(b, keep) ==
    \/ \E n \in Accepts(Len(b) - writePos) :
          Advance(b, n, keep, mask, mask \cup {"W"})
    \/ (WriteBlocks \/ WriteFails) /\ LeaveToWatch(b)

\* on_message_complete sends exactly one response whatever the outcome.
SendResponse(keep) ==
    LET data == Reply(answered + 1) IN
    /\ answered' = answered + 1
    /\ replies' = replies \o data
    /\ keepAlive' = keep
    /\ EnqueueWrite(writeBuf \o data, keep)

-----------------------------------------------------------------------------
(* The event loop, as this descriptor sees it *)

Ready == (IF inq # <<>> \/ peer # "open" THEN {"R"} ELSE {})
            \cup (IF Room > 0 THEN {"W"} ELSE {})

\* epoll_wait: what is registered and ready; EPOLLHUP is both, asked for or not.
Poll ==
    /\ proc = "up" /\ pc = "poll" /\ client = "live"
    /\ fired' = IF peer = "closed" THEN Event ELSE Ready \cap mask
    /\ fired' # {}
    /\ pc' = "events"
    /\ UNCHANGED <<clientVars, parseVars, proc, peerVars, wire>>

\* aeProcessEvents tests fe->mask & mask again before each handler.
DispatchRead ==
    /\ proc = "up" /\ pc = "events" /\ "R" \in fired \cap mask
    /\ fired' = fired \ {"R"}
    /\ pc' = "read"
    /\ UNCHANGED <<clientVars, parseVars, proc, peerVars, wire>>

DispatchDone ==
    /\ proc = "up" /\ pc = "events" /\ fired \cap mask = {}
    /\ fired' = {}
    /\ pc' = "poll"
    /\ UNCHANGED <<clientVars, parseVars, proc, peerVars, wire>>

-----------------------------------------------------------------------------
(* on_read_ready *)

ReadData ==
    /\ proc = "up" /\ pc = "read"
    /\ \E n \in 1 .. Len(inq) :
          /\ buf' = SubSeq(inq, 1, n)
          /\ inq' = Rest(inq, n)
    /\ pc' = "parse"
    /\ UNCHANGED <<clientVars, parser, keepAlive, answered, replies,
                   proc, fired, drained, peer, sent, wire>>

ReadWouldBlock ==
    /\ proc = "up" /\ pc = "read" /\ inq = <<>> /\ peer = "open"
    /\ pc' = "events"
    /\ UNCHANGED <<clientVars, parseVars, proc, fired, peerVars, wire>>

Fault_NoReturn ==                   \* FreedOnce: the loop goes on after EOF
    /\ proc = "up" /\ pc = "read" /\ inq = <<>> /\ peer # "open"
    /\ FreeClient
    /\ UNCHANGED <<parseVars, loopVars, peerVars, wire>>

\* read() returns 0, or ECONNRESET.
ReadEnded ==
    /\ proc = "up" /\ pc = "read" /\ inq = <<>> /\ peer # "open"
    /\ FreeClient
    /\ pc' = "events"
    /\ UNCHANGED <<parseVars, proc, fired, peerVars, wire>>

-----------------------------------------------------------------------------
(* llhttp_execute and the callbacks it makes *)

Parsing == proc = "up" /\ pc = "parse" /\ client = "live"

Expects(kinds) ==
    /\ buf # <<>>
    /\ Head(buf) \in kinds
    /\ parser \in {"start", "message"}

ParsePart ==
    /\ Parsing /\ Expects({"part"})
    /\ parser' = "message"
    /\ buf' = Tail(buf)
    /\ UNCHANGED <<clientVars, keepAlive, answered, replies, loopVars,
                   peerVars, wire>>

KeepsAlive(kind) ==    \* llhttp_should_keep_alive of a message so ended
    CASE kind = "request" -> {TRUE} [] kind = "last" -> {FALSE}
      [] kind = "connect" -> BOOLEAN

Fault_NeverClosed(kind) ==  \* NoReplyAfterLast
    IF kind = "connect" THEN "paused" ELSE "start"

AfterMessage(kind) ==  \* where the callback leaves llhttp
    CASE kind = "request" -> "start" [] kind = "last" -> "closed"
      [] kind = "connect" -> "paused"

\* The end of a message: its response, then llhttp's next state. A CONNECT
\* pauses the parser after the callback; a message that is not kept alive leaves
\* it closed.
ParseMessage ==
    /\ Parsing /\ Expects({"request", "last", "connect"})
    /\ \E keep \in KeepsAlive(Head(buf)) : SendResponse(keep)
    /\ parser' = AfterMessage(Head(buf))
    /\ buf' = Tail(buf)
    /\ UNCHANGED <<loopVars, peerVars>>

\* The write of enqueue_write raises SIGPIPE and nobody handles it.
ParseMessageKilled ==
    /\ Parsing /\ Expects({"request", "last", "connect"})
    /\ WriteSignals
    /\ proc' = "dead"
    /\ UNCHANGED <<clientVars, parseVars, pc, fired, peerVars, wire>>

\* Malformed bytes, or any bytes of a further message on a closed parser.
ParseBad ==
    /\ Parsing /\ buf # <<>>
    /\ parser \notin Stopped
    /\ parser = "closed" \/ Head(buf) = "bad"
    /\ parser' = "error"
    /\ buf' = Tail(buf)
    /\ UNCHANGED <<clientVars, keepAlive, answered, replies, loopVars,
                   peerVars, wire>>

\* llhttp_execute returned anything but HPE_OK, a pause as well as an error: the
\* rest of buf is not looked at.
ParseFailed ==
    /\ Parsing /\ parser \in Stopped
    /\ FreeClient
    /\ pc' = "events"
    /\ UNCHANGED <<parseVars, proc, fired, peerVars, wire>>

ParseReturns ==
    /\ Parsing /\ parser \notin Stopped /\ buf = <<>>
    /\ pc' = "read"
    /\ UNCHANGED <<clientVars, parseVars, proc, fired, peerVars, wire>>

\* UNDEFINED BEHAVIOUR: enqueue_write has freed the client that llhttp is still
\* parsing for. The process crashes; or the freed memory still reads as it was,
\* llhttp_execute returns, and read() on the closed descriptor (or the error)
\* leads to a second free_client.
ParserAfterFree ==
    /\ proc = "up" /\ pc = "parse" /\ client = "freed"
    /\ \/ /\ proc' = "dead"
          /\ UNCHANGED <<frees, pc>>
       \/ /\ frees' = frees + 1
          /\ pc' = "events"
          /\ UNCHANGED proc
    /\ UNCHANGED <<client, mask, writeBuf, writePos, parseVars, fired,
                   peerVars, wire>>

-----------------------------------------------------------------------------
(* on_write_ready: whole handler, called last in a dispatch *)

DispatchWrite ==
    /\ proc = "up" /\ pc = "events"
    /\ "R" \notin fired \cap mask /\ "W" \in fired \cap mask

\* What a write may accept; nothing may be pending at all, since enqueue_write
\* drains the buffer without removing the watch.
Writable == IF Pending = <<>> THEN {0} ELSE Accepts(Len(Pending))

Fault_WatchOnce ==                                        \* RequestsServed
    /\ DispatchWrite
    /\ \E n \in Writable :
          Advance(writeBuf, n, keepAlive, mask \ {"W"}, mask \ {"W"})
    /\ fired' = {} /\ pc' = "poll"
    /\ UNCHANGED <<parseVars, proc, peerVars>>

\* One write; the watch is removed when the buffer is written out.
WriteReady ==
    /\ DispatchWrite
    /\ \E n \in Writable : Advance(writeBuf, n, keepAlive, mask \ {"W"}, mask)
    /\ fired' = {} /\ pc' = "poll"
    /\ UNCHANGED <<parseVars, proc, peerVars>>

WriteReadyBlocked ==
    /\ DispatchWrite /\ Pending # <<>> /\ WriteBlocks
    /\ fired' = {} /\ pc' = "poll"
    /\ UNCHANGED <<clientVars, parseVars, proc, peerVars, wire>>

WriteReadyFails ==
    /\ DispatchWrite /\ Pending # <<>> /\ WriteFails
    /\ FreeClient
    /\ fired' = {} /\ pc' = "poll"
    /\ UNCHANGED <<parseVars, proc, peerVars, wire>>

WriteReadyKilled ==
    /\ DispatchWrite /\ Pending # <<>> /\ WriteSignals
    /\ proc' = "dead"
    /\ UNCHANGED <<clientVars, parseVars, pc, fired, peerVars, wire>>

-----------------------------------------------------------------------------
(* The peer *)

PeerSend ==
    /\ client = "live" /\ proc = "up" /\ peer = "open" /\ sent < MaxSend
    /\ \E p \in Pieces : inq' = Append(inq, p)
    /\ sent' = sent + 1
    /\ UNCHANGED <<clientVars, parseVars, loopVars, drained, peer, wire>>

PeerDrain ==
    /\ client = "live" /\ proc = "up" /\ peer # "closed"
    /\ \E n \in drained + 1 .. Len(wire) : drained' = n
    /\ UNCHANGED <<clientVars, parseVars, loopVars, inq, peer, sent, wire>>

\* shutdown(SHUT_WR): the peer has sent everything and still reads.
PeerShutdown ==
    /\ client = "live" /\ proc = "up" /\ peer = "open"
    /\ peer' = "half"
    /\ UNCHANGED <<clientVars, parseVars, loopVars, inq, drained, sent, wire>>

PeerClose ==
    /\ client = "live" /\ proc = "up" /\ peer # "closed"
    /\ peer' = "closed"
    /\ UNCHANGED <<clientVars, parseVars, loopVars, inq, drained, sent, wire>>

-----------------------------------------------------------------------------
Server ==
    \/ Poll \/ DispatchRead \/ DispatchDone
    \/ ReadData \/ ReadWouldBlock \/ ReadEnded
    \/ ParsePart \/ ParseMessage \/ ParseMessageKilled \/ ParseBad
    \/ ParseFailed \/ ParseReturns \/ ParserAfterFree
    \/ WriteReady \/ WriteReadyBlocked \/ WriteReadyFails \/ WriteReadyKilled

Peer == PeerSend \/ PeerDrain \/ PeerShutdown \/ PeerClose

Next == Server \/ Peer

Spec == Init /\ [][Next]_vars

\* The loop never stops (aeMain), and this peer keeps reading what it is sent.
FairSpec == Spec /\ WF_vars(Server) /\ WF_vars(PeerDrain)

-----------------------------------------------------------------------------
(* Correctness *)

\* No reply is lost, repeated, torn or reordered by the buffering: as long as
\* the connection lives, what write() accepted and what the buffer still holds
\* are together exactly what on_message_complete answered, in order; after its
\* end the peer has been given a prefix of it (enqueue_write, on_write_ready).
RepliesInOrder ==
    IF client = "live" THEN wire \o Pending = replies
                       ELSE IsPrefix(wire, replies)

\* A write buffer that exists has unsent data and a writable watch that will
\* come back to it: neither half of enqueue_write forgets the other, and no
\* drained buffer is kept for the next realloc to append to.
UnsentIsWatched ==
    client = "live" /\ writeBuf # <<>> =>
        writePos < Len(writeBuf) /\ "W" \in mask

\* What write_buf costs: never more than the replies to what the peer has sent,
\* written or not; and at least what was answered, except for what the peer has
\* read and what fits in the socket.  A peer that pipelines and does not read
\* makes the server hold all the rest: no limit of the code's own stands between.
Backlog ==
    client = "live" =>
        /\ Len(writeBuf) <= ReplyLen * sent
        /\ Len(Pending) >= ReplyLen * answered - drained - SndCap

\* The write buffer, all that is asked of it: nobody forgets it, and it holds what
\* it must, no more and no less.
WriteBufRight == UnsentIsWatched /\ Backlog

\* A connection that expects no further request does not linger: back in
\* epoll_wait it is still open only because its last reply is not out yet.
NoLingering ==
    client = "live" /\ pc = "poll" /\ parser \in {"closed"} \cup Stopped =>
        Pending # <<>>

\* The server ends a connection only when the peer has ended it, when llhttp
\* refused its bytes or paused behind a CONNECT, or when the reply that
\* announced Connection: close has been written to its end. In particular the
\* writable watch that an inline write leaves behind never closes anything.
CloseIsJustified ==
    [][client = "live" /\ client' = "freed" =>
          \/ peer # "open"
          \/ parser \in Stopped
          \/ ~keepAlive' /\ wire' = replies']_vars

\* After the response that said Connection: close no response is produced,
\* whatever the peer had already pipelined behind that request.
NoReplyAfterLast ==
    [][answered > 0 /\ ~keepAlive => answered' = answered]_vars

\* What makes the four invariants inductive: a freed client is registered for
\* nothing, so no handler runs on it; a closed parser belongs to a connection
\* whose last reply waits in the buffer; a stopped one is noticed before
\* llhttp_execute's caller reads on; and no message follows the last one.
ConnectionInvariant ==
    /\ TypeOK /\ RepliesInOrder /\ UnsentIsWatched
    /\ client = "freed" => mask = {}
    /\ client = "live" /\ parser = "closed" => ~keepAlive /\ writeBuf # <<>>
    /\ client = "live" /\ parser \in Stopped => pc = "parse"
    /\ answered > 0 /\ ~keepAlive => parser \in {"closed"} \cup Stopped

\* The books of one connection: one reply for each piece at most; what is on the
\* wire and not read fits in the socket, and includes what was written from the
\* buffer as it is.
BooksBalance ==
    /\ Len(replies) = ReplyLen * answered
    /\ answered + Len(buf) + Len(inq) <= sent /\ sent <= MaxSend
    /\ drained <= Len(wire) /\ Len(wire) - drained <= SndCap
    /\ client = "live" => writePos <= Len(wire)

\* A peer that never ends a connection with a request is answered, each time, that
\* the connection stays.
NeverLast ==
    /\ buf \in Seq(PieceKind \ {"last", "connect"})
    /\ inq \in Seq(PieceKind \ {"last", "connect"})
    /\ answered > 0 => keepAlive

\* What a peer leaves behind that sends nothing but requests to be kept alive:
\* no end of the connection, and no writable watch before there is a reply.
OnlyRequests ==
    /\ buf \in Seq({"part", "request"})
    /\ inq \in Seq({"part", "request"})
    /\ parser \in {"start", "message"}
    /\ IF answered = 0 THEN "W" \notin mask ELSE keepAlive

\* Between the loop and the client: the loop forgets what it has reported before
\* it polls again, and a client in memory is always registered for reading.
ClientServed ==
    /\ pc = "poll" => fired = {}
    /\ pc = "read" => client = "live"
    /\ client = "live" => "R" \in mask

\* The whole machinery implements the plain promise of ReplyStream: the peer
\* sees an ever longer beginning of the replies, in the order of the requests,
\* and nothing at all once the connection has ended.
Stream == INSTANCE ReplyStream WITH
    Replies <- Reply, count <- answered, promised <- replies,
    delivered <- wire, open <- (client = "live")
ImplementsReplyStream == Stream!Spec

\* And it is a client as ClientEvents describes them: what the loop calls it for,
\* and what it registers and withdraws, is what HttpServer lets any client do.
Events == INSTANCE ClientEvents WITH
    Id <- {"client"}, alive <- IF client = "live" THEN {"client"} ELSE {},
    mask <- [c \in {"client"} |-> mask], due <- [c \in {"client"} |-> fired],
    turn <- IF pc \in {"read", "parse"} THEN <<"client", "read">> ELSE <<>>
ImplementsClientEvents == Events!Spec

\* What one connection promises to its two neighbours, the peer and the loop: the
\* peer an honest stream of replies, the loop a well-behaved client.
Implements == ImplementsReplyStream /\ ImplementsClientEvents

\* Messages this peer has completed: answered, or still to be read or parsed.
Completed(s) == Cardinality({i \in 1 .. Len(s) : s[i] = "request"})
Owed == answered + Completed(buf) + Completed(inq)

\* Every completed request is answered and its whole reply reaches the socket,
\* however the peer's bytes are split, however slowly it drains, and whether
\* the reply went out inline, in part or by the writable event; unless the
\* connection ends first.
RequestsServed ==
    \A k \in 1 .. MaxSend :
        client = "live" /\ Owed >= k ~>
            \/ Len(wire) >= k * ReplyLen
            \/ client = "freed" \/ proc = "dead"

\* A connection whose last reply was announced ends: its descriptor and memory
\* are given back.
LastReplyEnds == parser = "closed" ~> client = "freed" \/ proc = "dead"

\* The client_t that llhttp is parsing for exists for as long as it parses.
ClientOutlivesCallbacks == pc = "parse" => client = "live"

\* As long as no response has announced the end, free_client runs once for a
\* client_t that is gone and not at all for one that is not, and never under the
\* feet of on_read_ready or of llhttp: whoever calls it returns at once.
FreedOnce ==
    keepAlive \/ answered = 0 =>
        /\ frees = IF client = "freed" THEN 1 ELSE 0
        /\ client = "freed" => pc \in {"events", "poll"}

\* The reply to a CONNECT or Upgrade request reaches the socket like any other:
\* "`HPE_PAUSED_UPGRADE` is returned after fully parsing the request/response"
\* (llhttp.h), a pause that does not end the connection with the reply unsent.
PausedReplySent ==
    [][client = "live" /\ client' = "freed" /\ peer = "open" /\ parser = "paused" =>
          wire' = replies']_vars

\* No connection is ended before the peer has ended it: what a kept-alive
\* connection is, with its replies inline, late or still unsent.
PeerEndsIt ==
    [][client = "live" /\ client' = "freed" => peer # "open"]_vars

\* One peer cannot end the process, that is, the server for all the others.
ServerSurvives == proc = "up"

\* A close that is asked for while a reply waits to be written happens after
\* the write, as is_closing is documented to arrange (http_server.h).
CloseWaitsForWrite ==
    [][client = "live" /\ client' = "freed" /\ peer # "closed" =>
          wire' = replies']_vars
=============================================================================
