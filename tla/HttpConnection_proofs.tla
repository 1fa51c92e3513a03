------------------------ MODULE HttpConnection_proofs ------------------------
(* Theorems about HttpConnection, for all values of its constants. *)
EXTENDS HttpConnection, SequenceTheorems, TLAPS

(* Sequences: what is left of a buffer after n of its units. *)

\* What is left of a buffer after i of its units, as write_len - write_pos counts it.
LEMMA RestType ==
    ASSUME NEW S, NEW s \in Seq(S), NEW i \in 0 .. Len(s)
    PROVE  /\ Rest(s, i) \in Seq(S)
           /\ Len(Rest(s, i)) = Len(s) - i
           /\ Rest(s, i) = <<>> <=> i = Len(s)
  BY DEF Rest

\* A write that moves write_pos from i to j takes exactly the units in between.
LEMMA RestAdvances ==
    ASSUME NEW S, NEW s \in Seq(S), NEW i \in 0 .. Len(s), NEW j \in i .. Len(s)
    PROVE  /\ SubSeq(s, i + 1, j) \in Seq(S)
           /\ Len(SubSeq(s, i + 1, j)) = j - i
           /\ SubSeq(s, i + 1, j) \o Rest(s, j) = Rest(s, i)
  <1>1. SubSeq(s, i + 1, j) \in Seq(S) /\ Len(SubSeq(s, i + 1, j)) = j - i
    OBVIOUS
  <1>2. SubSeq(s, i + 1, j) \o SubSeq(s, j + 1, Len(s)) = SubSeq(s, i + 1, Len(s))
    BY ConcatAdjacentSubSeq, i + 1 \in 1 .. Len(s) + 1,
       j \in (i + 1) - 1 .. Len(s), Len(s) \in j .. Len(s)
  <1> QED BY <1>1, <1>2 DEF Rest

\* Appending to the buffer appends to its unsent part: enqueue_write's realloc.
LEMMA RestOfConcat ==
    ASSUME NEW S, NEW s \in Seq(S), NEW t \in Seq(S), NEW i \in 0 .. Len(s)
    PROVE  Rest(s \o t, i) = Rest(s, i) \o t
  <1>1. /\ s \o t \in Seq(S) /\ Len(s \o t) = Len(s) + Len(t)
        /\ Len(s) \in Nat /\ Len(t) \in Nat
    OBVIOUS
  <1>2. /\ Rest(s \o t, i) \in Seq(S) /\ Len(Rest(s \o t, i)) = Len(s) + Len(t) - i
    BY <1>1 DEF Rest
  <1>3. /\ Rest(s, i) \o t \in Seq(S) /\ Len(Rest(s, i) \o t) = Len(s) - i + Len(t)
    BY DEF Rest
  <1>4. ASSUME NEW k \in 1 .. Len(s) + Len(t) - i
        PROVE  Rest(s \o t, i)[k] = (Rest(s, i) \o t)[k]
    <2>1. Rest(s \o t, i)[k] = (s \o t)[i + k]
      BY <1>1 DEF Rest
    <2>2. CASE k <= Len(s) - i
      BY <2>1, <2>2 DEF Rest
    <2>3. CASE k > Len(s) - i
      BY <2>1, <2>3 DEF Rest
    <2>4. k \in Int /\ i \in Int /\ Len(s) - i \in Int
      BY <1>1
    <2>5. k <= Len(s) - i \/ k > Len(s) - i
      BY <2>4
    <2> QED BY <2>2, <2>3, <2>5
  <1>5. Len(Rest(s \o t, i)) = Len(Rest(s, i) \o t)
    BY <1>1, <1>2, <1>3
  <1>6. \A k \in 1 .. Len(Rest(s \o t, i)) : Rest(s \o t, i)[k] = (Rest(s, i) \o t)[k]
    BY <1>1, <1>2, <1>4
  <1> HIDE DEF Rest
  <1> QED BY <1>2, <1>3, <1>5, <1>6, SeqEqual

\* A sequence grown at its end has the old one as a prefix.
LEMMA ConcatIsExtension ==
    ASSUME NEW S, NEW s \in Seq(S), NEW t \in Seq(S)
    PROVE  /\ s \o t \in Seq(S)
           /\ IsPrefix(s, s \o t)
           /\ s \o t = s <=> t = <<>>
  <1>1. s \o t \in Seq(S) /\ Len(s \o t) = Len(s) + Len(t)
    OBVIOUS
  <1>2. SubSeq(s \o t, 1, Len(s)) = s
    OBVIOUS
  <1>3. SubSeq(s, 1, Len(s)) = s
    BY SubSeqFull
  <1>4. s \o t = s <=> t = <<>>
    BY ConcatEqualIffEmpty
  <1>5. IsPrefix(s, s \o t)
    <2>1. Len(s) \in Nat /\ Len(t) \in Nat
      OBVIOUS
    <2> QED BY <1>1, <1>2, <1>3, <2>1 DEF IsPrefix
  <1> QED BY <1>1, <1>4, <1>5

\* A sequence is its own prefix.
LEMMA PrefixRefl ==
    ASSUME NEW S, NEW s \in Seq(S)
    PROVE  IsPrefix(s, s)
  BY SubSeqFull DEF IsPrefix

\* A response of send_response is a non-empty sequence of units.
LEMMA ReplyType ==
    ASSUME NEW k \in Nat
    PROVE  Reply(k) \in Seq(Unit) /\ Len(Reply(k)) = ReplyLen
  BY SizesAssumption DEF Reply, Unit

\* Concatenation and cutting by name, so that a proof sees no more of them than
\* the facts it cites.
Cat(s, t)    == s \o t
Cut(s, i, n) == SubSeq(s, i + 1, i + n)

\* Appending a reply that is partly written: sent, still pending, and new units.
LEMMA ThreeParts ==
    ASSUME NEW S, NEW s \in Seq(S), NEW t \in Seq(S), NEW u \in Seq(S)
    PROVE  /\ Cat(s, t) \in Seq(S)
           /\ Cat(Cat(s, t), u) = Cat(s, Cat(t, u))
           /\ IsPrefix(s, Cat(s, t))
           /\ u = <<>> => Cat(s, u) = s
  <1>1. s \o t \in Seq(S) /\ t \o u \in Seq(S) /\ s \o (t \o u) \in Seq(S)
    OBVIOUS
  <1>2. (s \o t) \o u = s \o (t \o u)
    BY ConcatAssociative
  <1>3. IsPrefix(s, s \o t)
    BY <1>1, ConcatIsExtension
  <1>4. u = <<>> => s \o u = s
    BY <1>1, ConcatIsExtension
  <1> QED BY <1>1, <1>2, <1>3, <1>4 DEF Cat

\* What n of the unsent units, moved from the buffer to the wire, leave.
LEMMA UnitsMove ==
    ASSUME NEW S, NEW w \in Seq(S), NEW b \in Seq(S), NEW p \in 0 .. Len(b),
           NEW n \in 0 .. Len(b) - p, NEW r, r = Cat(w, Rest(b, p)),
           NEW v, v = Cat(w, Cut(b, p, n))
    PROVE  /\ v \in Seq(S) /\ r \in Seq(S)
           /\ Cat(v, Rest(b, p + n)) = r
           /\ IsPrefix(w, v) /\ IsPrefix(v, r)
           /\ p + n = Len(b) => v = r
  <1>1. /\ Len(b) \in Nat /\ p + n \in p .. Len(b) /\ p + n \in 0 .. Len(b)
    OBVIOUS
  <1>2. /\ Cut(b, p, n) \in Seq(S)
        /\ Cat(Cut(b, p, n), Rest(b, p + n)) = Rest(b, p)
    BY <1>1, RestAdvances DEF Cut, Cat
  <1>3. /\ Rest(b, p + n) \in Seq(S) /\ Rest(b, p) \in Seq(S)
        /\ p + n = Len(b) => Rest(b, p + n) = <<>>
    BY <1>1, RestType
  <1>4. /\ v \in Seq(S) /\ r \in Seq(S) /\ IsPrefix(w, v)
    BY <1>2, <1>3, ThreeParts
  <1>5. Cat(v, Rest(b, p + n)) = r
    BY <1>2, <1>3, ThreeParts
  <1>6. IsPrefix(v, r) /\ (p + n = Len(b) => v = r)
    BY <1>3, <1>4, <1>5, ThreeParts
  <1> QED BY <1>4, <1>5, <1>6

\* The state a written-out buffer leaves.
LEMMA WrittenOutEffect ==
    ASSUME TypeOK, client = "live", NEW keep \in BOOLEAN,
           NEW newMask \in SUBSET Event, WrittenOut(keep, newMask)
    PROVE  /\ client' \in {"live", "freed"} /\ frees' \in Nat
           /\ mask' \subseteq Event
           /\ writeBuf' = <<>> /\ writePos' = 0
           /\ client' = "live" <=> keep
           /\ client' = "freed" => mask' = {}
  BY DEF TypeOK, WrittenOut, FreeClient, SetWriteBuf

\* What one write to the socket does, by whichever of the two functions: r is
\* all that was on the wire or owed to it, keep whether the connection stays.
WriteEffect(r, keep) ==
    /\ client' \in {"live", "freed"} /\ frees' \in Nat /\ mask' \subseteq Event
    /\ writeBuf' \in Seq(Unit) /\ writePos' \in 0 .. Len(writeBuf')
    /\ wire' \in Seq(Unit) /\ IsPrefix(wire, wire') /\ IsPrefix(wire', r)
    /\ client' = "live" =>
          /\ wire' \o Rest(writeBuf', writePos') = r
          /\ writeBuf' # <<>> => writePos' < Len(writeBuf') /\ "W" \in mask'
          /\ ~keep => writeBuf' # <<>>
    /\ client' = "freed" => ~keep /\ mask' = {} /\ wire' = r

\* The two ways a write that accepted n units goes on.
LEMMA WriteSome ==
    ASSUME TypeOK, client = "live", NEW b \in Seq(Unit), NEW keep \in BOOLEAN,
           NEW newMask \in SUBSET Event, NEW partMask \in SUBSET Event,
           "W" \in partMask, writePos \in 0 .. Len(b),
           NEW r, r = wire \o Rest(b, writePos),
           NEW n \in 0 .. Len(b) - writePos,
           Advance(b, n, keep, newMask, partMask)
    PROVE  WriteEffect(r, keep)
  <1>1. /\ wire \in Seq(Unit) /\ writePos \in Nat /\ Len(b) \in Nat /\ frees \in Nat
    BY DEF TypeOK
  <1>2. /\ wire' \in Seq(Unit) /\ r \in Seq(Unit)
        /\ wire' \o Rest(b, writePos + n) = r
        /\ IsPrefix(wire, wire') /\ IsPrefix(wire', r)
        /\ writePos + n = Len(b) => wire' = r
    <2>1. r = Cat(wire, Rest(b, writePos)) /\ wire' = Cat(wire, Cut(b, writePos, n))
      BY DEF Cat, Cut, Advance
    <2>2. /\ wire' \in Seq(Unit) /\ r \in Seq(Unit)
          /\ Cat(wire', Rest(b, writePos + n)) = r
          /\ IsPrefix(wire, wire') /\ IsPrefix(wire', r)
          /\ writePos + n = Len(b) => wire' = r
      <3>1. \A v, q : /\ v = Cat(wire, Cut(b, writePos, n))
                      /\ q = Cat(wire, Rest(b, writePos))
                      => /\ v \in Seq(Unit) /\ q \in Seq(Unit)
                         /\ Cat(v, Rest(b, writePos + n)) = q
                         /\ IsPrefix(wire, v) /\ IsPrefix(v, q)
                         /\ writePos + n = Len(b) => v = q
        BY <1>1, UnitsMove
      <3> QED BY <2>1, <3>1
    <2> QED BY <2>2 DEF Cat
  <1>3. CASE writePos + n = Len(b)
    <2>1. /\ client' \in {"live", "freed"} /\ frees' \in Nat /\ mask' \subseteq Event
          /\ writeBuf' = <<>> /\ writePos' = 0
          /\ client' = "live" <=> keep
          /\ client' = "freed" => mask' = {}
      BY <1>3, WrittenOutEffect DEF Advance
    <2>2. /\ Rest(<<>>, 0) = <<>> /\ wire' \o <<>> = wire'
          /\ <<>> \in Seq(Unit) /\ 0 \in 0 .. Len(<<>>)
      BY <1>2, ConcatEmptySeq DEF Rest
    <2> QED BY <1>2, <1>3, <2>1, <2>2 DEF WriteEffect
  <1>4. CASE writePos + n # Len(b)
    <2>1. /\ client' = "live" /\ frees' \in Nat /\ mask' = partMask
          /\ writeBuf' = b /\ writePos' = writePos + n
      BY <1>1, <1>4 DEF Advance, SetWriteBuf
    <2>2. writePos + n \in 0 .. Len(b) /\ writePos + n < Len(b) /\ b # <<>>
      BY <1>1, <1>4
    <2> QED BY <1>2, <2>1, <2>2 DEF WriteEffect
  <1> QED BY <1>3, <1>4

\* enqueue_write: whatever its one write does, no unit is lost or reordered.
LEMMA EnqueueWriteEffect ==
    ASSUME TypeOK, client = "live", NEW b \in Seq(Unit), NEW keep \in BOOLEAN,
           writePos < Len(b), NEW r, r = wire \o Rest(b, writePos),
           EnqueueWrite(b, keep)
    PROVE  WriteEffect(r, keep)
  <1>1. /\ wire \in Seq(Unit) /\ writePos \in Nat /\ Len(b) \in Nat
        /\ mask \in SUBSET Event /\ mask \cup {"W"} \in SUBSET Event
        /\ frees \in Nat /\ writePos \in 0 .. Len(b)
    BY DEF TypeOK, Event
  <1>2. ASSUME NEW n \in Accepts(Len(b) - writePos),
               Advance(b, n, keep, mask, mask \cup {"W"})
        PROVE  WriteEffect(r, keep)
    <2>1. n \in 0 .. Len(b) - writePos
      BY DEF Accepts
    <2> QED BY <1>1, <1>2, <2>1, WriteSome
  <1>3. ASSUME LeaveToWatch(b)
        PROVE  WriteEffect(r, keep)
    <2>1. Rest(b, writePos) \in Seq(Unit)
      BY <1>1, RestType
    <2>2. r \in Seq(Unit) /\ IsPrefix(wire, r) /\ IsPrefix(wire, wire)
      BY <1>1, <2>1, ConcatIsExtension, PrefixRefl
    <2> QED BY <1>1, <1>3, <2>2 DEF WriteEffect, LeaveToWatch, SetWriteBuf
  <1> QED BY <1>2, <1>3 DEF EnqueueWrite

\* on_message_complete's one response.
LEMMA SendResponseEffect ==
    ASSUME ConnectionInvariant, client = "live", NEW keep \in BOOLEAN,
           SendResponse(keep)
    PROVE  /\ WriteEffect(replies', keep)
           /\ replies' \in Seq(Unit) /\ IsPrefix(replies, replies')
           /\ answered' = answered + 1 /\ keepAlive' = keep
  <1> DEFINE data == Reply(answered + 1)
  <1>1. /\ TypeOK /\ writeBuf \in Seq(Unit) /\ replies \in Seq(Unit)
        /\ wire \in Seq(Unit) /\ writePos \in 0 .. Len(writeBuf)
        /\ answered + 1 \in Nat /\ Len(writeBuf) \in Nat
        /\ wire \o Rest(writeBuf, writePos) = replies
    BY DEF ConnectionInvariant, TypeOK, RepliesInOrder, Pending
  <1>2. data \in Seq(Unit) /\ Len(data) = ReplyLen /\ ReplyLen > 0 /\ ReplyLen \in Nat
    BY <1>1, ReplyType, SizesAssumption
  <1>3. /\ answered' = answered + 1 /\ replies' = replies \o data /\ keepAlive' = keep
        /\ EnqueueWrite(writeBuf \o data, keep)
    BY DEF SendResponse
  <1> HIDE DEF data
  <1>4. writeBuf \o data \in Seq(Unit) /\ writePos < Len(writeBuf \o data)
    BY <1>1, <1>2
  <1>5. Rest(writeBuf \o data, writePos) = Rest(writeBuf, writePos) \o data
    BY <1>1, <1>2, RestOfConcat
  <1>6. replies' = wire \o Rest(writeBuf \o data, writePos)
    <2>1. Rest(writeBuf, writePos) \in Seq(Unit)
      BY <1>1, RestType
    <2>2. Cat(Cat(wire, Rest(writeBuf, writePos)), data)
            = Cat(wire, Cat(Rest(writeBuf, writePos), data))
      BY <1>1, <1>2, <2>1, ThreeParts
    <2> QED BY <1>1, <1>3, <1>5, <2>2 DEF Cat
  <1>7. WriteEffect(replies', keep)
    <2>1. \A r : r = wire \o Rest(writeBuf \o data, writePos) => WriteEffect(r, keep)
      BY <1>1, <1>3, <1>4, EnqueueWriteEffect
    <2> QED BY <2>1, <1>6
  <1>8. replies' \in Seq(Unit) /\ IsPrefix(replies, replies')
    BY <1>1, <1>2, <1>3, ConcatIsExtension
  <1> QED BY <1>3, <1>7, <1>8

\* on_write_ready, unless its write fails or would block.
LEMMA WriteReadyEffect ==
    ASSUME ConnectionInvariant, WriteReady
    PROVE  client = "live" /\ WriteEffect(replies, keepAlive)
  <1>1. /\ TypeOK /\ writeBuf \in Seq(Unit) /\ writePos \in 0 .. Len(writeBuf)
        /\ mask \in SUBSET Event /\ mask \ {"W"} \in SUBSET Event
        /\ keepAlive \in BOOLEAN /\ Len(writeBuf) \in Nat
    BY DEF ConnectionInvariant, TypeOK
  <1>2. "W" \in mask /\ client = "live"
    BY <1>1 DEF ConnectionInvariant, TypeOK, WriteReady, DispatchWrite
  <1>3. replies = wire \o Rest(writeBuf, writePos)
    BY <1>2 DEF ConnectionInvariant, RepliesInOrder, Pending
  <1>4. PICK n \in Writable : Advance(writeBuf, n, keepAlive, mask \ {"W"}, mask)
    BY DEF WriteReady
  <1>5. n \in 0 .. Len(writeBuf) - writePos
    <2>1. Len(Pending) = Len(writeBuf) - writePos
      BY <1>1, RestType DEF Pending
    <2> QED BY <1>1, <1>4, <2>1 DEF Writable, Accepts
  <1>6. \A r : r = wire \o Rest(writeBuf, writePos) => WriteEffect(r, keepAlive)
    BY <1>1, <1>2, <1>4, <1>5, WriteSome
  <1> QED BY <1>2, <1>3, <1>6

(* Type correctness: one step per action. *)

\* What one read() leaves in the kernel is again a sequence of pieces.
LEMMA RestOfInput ==
    ASSUME NEW S, NEW s \in Seq(S), NEW n \in 1 .. Len(s)
    PROVE  SubSeq(s, 1, n) \in Seq(S) /\ Rest(s, n) \in Seq(S)
  BY DEF Rest

\* free_client leaves the client's fields well typed.
LEMMA FreeClientType ==
    ASSUME TypeOK, FreeClient
    PROVE  /\ client' = "freed" /\ frees' \in Nat /\ mask' = {}
           /\ writeBuf' = <<>> /\ writeBuf' \in Seq(Unit)
           /\ writePos' = 0 /\ writePos' \in 0 .. Len(writeBuf')
  BY DEF TypeOK, FreeClient, SetWriteBuf

\* An accepted connection is well typed.
LEMMA TypeInit == Init => TypeOK
  <1> SUFFICES ASSUME Init PROVE TypeOK
    OBVIOUS
  <1>1. writePos \in 0 .. Len(writeBuf)
    BY DEF Init
  <1>2. /\ writeBuf \in Seq(Unit) /\ replies \in Seq(Unit) /\ wire \in Seq(Unit)
        /\ buf \in Seq(PieceKind) /\ inq \in Seq(PieceKind)
    BY DEF Init
  <1> QED BY <1>1, <1>2 DEF Init, TypeOK, Event

\* Every step of the server and the peer keeps the types.
LEMMA TypeStep == ConnectionInvariant /\ [Next]_vars => TypeOK'
  <1> SUFFICES ASSUME ConnectionInvariant, [Next]_vars PROVE TypeOK'
    OBVIOUS
  <1> USE DEF vars, clientVars, parseVars, loopVars, peerVars
  <1>0. TypeOK
    BY DEF ConnectionInvariant
  <1>1. CASE Poll
    BY <1>0, <1>1 DEF TypeOK, Poll, Ready
  <1>2. CASE DispatchRead
    BY <1>0, <1>2 DEF TypeOK, DispatchRead
  <1>3. CASE DispatchDone
    BY <1>0, <1>3 DEF TypeOK, DispatchDone
  <1>4. CASE ReadData
    <2>1. buf' \in Seq(PieceKind) /\ inq' \in Seq(PieceKind)
      BY <1>0, <1>4, RestOfInput DEF TypeOK, ReadData
    <2> QED BY <1>0, <1>4, <2>1 DEF TypeOK, ReadData
  <1>5. CASE ReadWouldBlock
    BY <1>0, <1>5 DEF TypeOK, ReadWouldBlock
  <1>6. CASE ReadEnded
    BY <1>0, <1>6, FreeClientType DEF TypeOK, ReadEnded
  <1>7. CASE ParsePart
    BY <1>0, <1>7 DEF TypeOK, ParsePart, Expects
  <1>8. CASE ParseMessage
    <2>1. PICK keep \in KeepsAlive(Head(buf)) : SendResponse(keep)
      BY <1>8 DEF ParseMessage
    <2>2. /\ buf # <<>> /\ Head(buf) \in {"request", "last", "connect"}
          /\ client = "live" /\ buf' = Tail(buf)
          /\ parser' = AfterMessage(Head(buf)) /\ UNCHANGED <<loopVars, peerVars>>
      BY <1>8 DEF ParseMessage, Parsing, Expects
    <2>3. keep \in BOOLEAN /\ parser' \in {"start", "closed", "paused"}
      BY <2>1, <2>2 DEF KeepsAlive, AfterMessage
    <2>4. buf' \in Seq(PieceKind)
      BY <1>0, <2>2 DEF TypeOK
    <2>5. /\ WriteEffect(replies', keep) /\ replies' \in Seq(Unit)
          /\ answered' = answered + 1 /\ keepAlive' = keep
      BY <2>1, <2>2, <2>3, SendResponseEffect
    <2> QED BY <1>0, <2>2, <2>3, <2>4, <2>5 DEF TypeOK, WriteEffect, Stopped
  <1>9. CASE ParseMessageKilled
    BY <1>0, <1>9 DEF TypeOK, ParseMessageKilled
  <1>10. CASE ParseBad
    BY <1>0, <1>10 DEF TypeOK, ParseBad, Stopped
  <1>11. CASE ParseFailed
    BY <1>0, <1>11, FreeClientType DEF TypeOK, ParseFailed
  <1>12. CASE ParseReturns
    BY <1>0, <1>12 DEF TypeOK, ParseReturns
  <1>13. CASE ParserAfterFree
    BY <1>0, <1>13 DEF TypeOK, ParserAfterFree
  <1>14. CASE WriteReady
    BY <1>0, <1>14, WriteReadyEffect DEF TypeOK, WriteReady, WriteEffect
  <1>15. CASE WriteReadyBlocked
    BY <1>0, <1>15 DEF TypeOK, WriteReadyBlocked
  <1>16. CASE WriteReadyFails
    BY <1>0, <1>16, FreeClientType DEF TypeOK, WriteReadyFails
  <1>17. CASE WriteReadyKilled
    BY <1>0, <1>17 DEF TypeOK, WriteReadyKilled
  <1>18. CASE PeerSend
    <2>1. inq' \in Seq(PieceKind)
      BY <1>0, <1>18, PiecesAssumption DEF TypeOK, PeerSend
    <2> QED BY <1>0, <1>18, <2>1 DEF TypeOK, PeerSend
  <1>19. CASE PeerDrain
    <2>1. drained' \in Nat
      <3>1. Len(wire) \in Nat /\ drained \in Nat
        BY <1>0 DEF TypeOK
      <3> QED BY <1>19, <3>1 DEF PeerDrain
    <2> QED BY <1>0, <1>19, <2>1 DEF TypeOK, PeerDrain
  <1>20. CASE PeerShutdown
    BY <1>0, <1>20 DEF TypeOK, PeerShutdown
  <1>21. CASE PeerClose
    BY <1>0, <1>21 DEF TypeOK, PeerClose
  <1>22. CASE UNCHANGED vars
    BY <1>0, <1>22 DEF TypeOK
  <1> QED BY <1>1, <1>2, <1>3, <1>4, <1>5, <1>6, <1>7, <1>8, <1>9, <1>10,
            <1>11, <1>12, <1>13, <1>14, <1>15, <1>16, <1>17, <1>18, <1>19,
            <1>20, <1>21, <1>22 DEF Next, Server, Peer

(* The inductive invariant: one step per action. *)

\* A step that touches neither the reply buffers nor the registration.
LEMMA QuietStep ==
    ASSUME ConnectionInvariant, TypeOK',
           UNCHANGED <<clientVars, wire, keepAlive, answered, replies>>,
           client = "live" /\ parser' = "closed" => parser = "closed",
           client = "live" /\ parser' \in Stopped => pc' = "parse",
           parser \in {"closed"} \cup Stopped => parser' \in {"closed"} \cup Stopped
    PROVE  ConnectionInvariant'
  <1>1. RepliesInOrder'
    BY DEF ConnectionInvariant, RepliesInOrder, Pending, clientVars
  <1>2. UnsentIsWatched'
    BY DEF ConnectionInvariant, UnsentIsWatched, clientVars
  <1> QED BY <1>1, <1>2 DEF ConnectionInvariant, clientVars

\* The wire is a prefix of the replies whatever state the connection is in.
LEMMA WireIsPrefix ==
    ASSUME ConnectionInvariant
    PROVE  IsPrefix(wire, replies)
  <1>1. CASE client = "live"
    <2>1. /\ wire \in Seq(Unit) /\ Rest(writeBuf, writePos) \in Seq(Unit)
          /\ replies = wire \o Rest(writeBuf, writePos)
      BY <1>1, RestType DEF ConnectionInvariant, TypeOK, RepliesInOrder, Pending
    <2> QED BY <2>1, ConcatIsExtension
  <1>2. CASE client # "live"
    BY <1>2 DEF ConnectionInvariant, RepliesInOrder
  <1> QED BY <1>1, <1>2

\* A step that ends the connection and leaves the unsent units unsent.
LEMMA FreeStep ==
    ASSUME ConnectionInvariant, TypeOK', FreeClient,
           UNCHANGED <<wire, keepAlive, answered, replies, parser>>
    PROVE  ConnectionInvariant'
  <1>1. client' = "freed" /\ mask' = {}
    BY DEF FreeClient
  <1>2. RepliesInOrder' /\ UnsentIsWatched'
    BY <1>1, WireIsPrefix DEF RepliesInOrder, UnsentIsWatched
  <1> QED BY <1>1, <1>2 DEF ConnectionInvariant

\* A step that writes.
LEMMA WriteStep ==
    ASSUME TypeOK', WriteEffect(replies', keepAlive'),
           answered' > 0 /\ ~keepAlive' => parser' \in {"closed"} \cup Stopped,
           client' = "live" /\ parser' = "closed" => ~keepAlive',
           client' = "live" /\ parser' \in Stopped => pc' = "parse"
    PROVE  ConnectionInvariant'
  <1>1. RepliesInOrder'
    <2>1. CASE client' = "live"
      BY <2>1 DEF WriteEffect, RepliesInOrder, Pending
    <2>2. CASE client' # "live"
      BY <2>2 DEF WriteEffect, RepliesInOrder
    <2> QED BY <2>1, <2>2
  <1>2. UnsentIsWatched'
    BY DEF WriteEffect, UnsentIsWatched
  <1> QED BY <1>1, <1>2 DEF ConnectionInvariant, WriteEffect

\* The invariant holds of a connection that was just accepted.
LEMMA InvariantInit == Init => ConnectionInvariant
  <1> SUFFICES ASSUME Init PROVE ConnectionInvariant
    OBVIOUS
  <1>1. RepliesInOrder
    <2>1. Rest(<<>>, 0) = <<>> /\ <<>> \o <<>> = <<>>
      BY DEF Rest
    <2> QED BY <2>1 DEF Init, RepliesInOrder, Pending
  <1> QED BY <1>1, TypeInit DEF Init, ConnectionInvariant, UnsentIsWatched, Stopped

\* Every step of the server and the peer preserves the invariant.
LEMMA InvariantStep == ConnectionInvariant /\ [Next]_vars => ConnectionInvariant'
  <1> SUFFICES ASSUME ConnectionInvariant, [Next]_vars PROVE ConnectionInvariant'
    OBVIOUS
  <1> USE DEF vars, parseVars, loopVars, peerVars
  <1>0. TypeOK /\ TypeOK'
    BY TypeStep DEF ConnectionInvariant
  <1>1. CASE Poll
    BY <1>0, <1>1, QuietStep DEF ConnectionInvariant, Poll
  <1>2. CASE DispatchRead
    BY <1>0, <1>2, QuietStep DEF ConnectionInvariant, DispatchRead
  <1>3. CASE DispatchDone
    BY <1>0, <1>3, QuietStep DEF ConnectionInvariant, DispatchDone
  <1>4. CASE ReadData
    BY <1>0, <1>4, QuietStep DEF ConnectionInvariant, ReadData
  <1>5. CASE ReadWouldBlock
    BY <1>0, <1>5, QuietStep DEF ConnectionInvariant, ReadWouldBlock
  <1>6. CASE ReadEnded
    BY <1>0, <1>6, FreeStep DEF ReadEnded
  <1>7. CASE ParsePart
    BY <1>0, <1>7, QuietStep DEF ConnectionInvariant, ParsePart, Expects, Stopped
  <1>8. CASE ParseMessage
    <2>1. PICK keep \in KeepsAlive(Head(buf)) : SendResponse(keep)
      BY <1>8 DEF ParseMessage
    <2>2. /\ Head(buf) \in {"request", "last", "connect"}
          /\ client = "live" /\ pc' = "parse"
          /\ parser' = AfterMessage(Head(buf))
      BY <1>8 DEF ParseMessage, Parsing, Expects
    <2>3. /\ keep \in BOOLEAN
          /\ parser' \in {"closed"} \cup Stopped \/ keep
          /\ parser' = "closed" => ~keep
      BY <2>1, <2>2 DEF KeepsAlive, AfterMessage, Stopped
    <2>4. WriteEffect(replies', keepAlive') /\ keepAlive' = keep
      BY <2>1, <2>2, <2>3, SendResponseEffect
    <2> QED BY <1>0, <2>2, <2>3, <2>4, WriteStep
  <1>9. CASE ParseMessageKilled
    BY <1>0, <1>9, QuietStep DEF ConnectionInvariant, ParseMessageKilled
  <1>10. CASE ParseBad
    BY <1>0, <1>10, QuietStep DEF ConnectionInvariant, ParseBad, Parsing, Stopped
  <1>11. CASE ParseFailed
    BY <1>0, <1>11, FreeStep DEF ParseFailed
  <1>12. CASE ParseReturns
    BY <1>0, <1>12, QuietStep DEF ConnectionInvariant, ParseReturns
  <1>13. CASE ParserAfterFree
    <2>1. client = "freed" /\ UNCHANGED <<client, mask, writeBuf, writePos, parseVars, wire>>
      BY <1>13 DEF ParserAfterFree
    <2>2. RepliesInOrder' /\ UnsentIsWatched'
      BY <2>1 DEF ConnectionInvariant, RepliesInOrder, UnsentIsWatched, Pending
    <2> QED BY <1>0, <2>1, <2>2 DEF ConnectionInvariant
  <1>14. CASE WriteReady
    <2>1. /\ client = "live" /\ WriteEffect(replies', keepAlive')
          /\ UNCHANGED <<parser, keepAlive, answered>> /\ pc = "events"
      BY <1>14, WriteReadyEffect DEF WriteReady, DispatchWrite
    <2> QED BY <1>0, <2>1, WriteStep DEF ConnectionInvariant
  <1>15. CASE WriteReadyBlocked
    BY <1>0, <1>15, QuietStep DEF ConnectionInvariant, WriteReadyBlocked, DispatchWrite
  <1>16. CASE WriteReadyFails
    BY <1>0, <1>16, FreeStep DEF WriteReadyFails
  <1>17. CASE WriteReadyKilled
    BY <1>0, <1>17, QuietStep DEF ConnectionInvariant, WriteReadyKilled
  <1>18. CASE PeerSend
    BY <1>0, <1>18, QuietStep DEF ConnectionInvariant, PeerSend
  <1>19. CASE PeerDrain
    BY <1>0, <1>19, QuietStep DEF ConnectionInvariant, PeerDrain
  <1>20. CASE PeerShutdown
    BY <1>0, <1>20, QuietStep DEF ConnectionInvariant, PeerShutdown
  <1>21. CASE PeerClose
    BY <1>0, <1>21, QuietStep DEF ConnectionInvariant, PeerClose
  <1>22. CASE UNCHANGED vars
    BY <1>0, <1>22, QuietStep DEF ConnectionInvariant
  <1> QED BY <1>1, <1>2, <1>3, <1>4, <1>5, <1>6, <1>7, <1>8, <1>9, <1>10,
            <1>11, <1>12, <1>13, <1>14, <1>15, <1>16, <1>17, <1>18, <1>19,
            <1>20, <1>21, <1>22 DEF Next, Server, Peer

-----------------------------------------------------------------------------
(* Theorems *)

\* The inductive invariant holds for every reply length, socket capacity, mix
\* of pieces and disposition of SIGPIPE.
THEOREM Invariant == Spec => []ConnectionInvariant
  BY InvariantInit, InvariantStep, PTL DEF Spec

\* The variables keep their types: in particular write_pos stays inside the
\* write buffer that enqueue_write grows and on_write_ready consumes.
THEOREM TypeCorrect == Spec => []TypeOK
  <1>1. ConnectionInvariant => TypeOK
    BY DEF ConnectionInvariant
  <1> QED BY Invariant, <1>1, PTL

\* No reply is lost, repeated, torn or reordered between send_response and the
\* socket, for any pattern of partial and refused writes.
THEOREM Fifo == Spec => []RepliesInOrder
  <1>1. ConnectionInvariant => RepliesInOrder
    BY DEF ConnectionInvariant
  <1> QED BY Invariant, <1>1, PTL

\* Unsent data always has a writable watch that comes back to it.
THEOREM Watched == Spec => []UnsentIsWatched
  <1>1. ConnectionInvariant => UnsentIsWatched
    BY DEF ConnectionInvariant
  <1> QED BY Invariant, <1>1, PTL

\* No connection waits in the event loop for requests it would refuse.
THEOREM Prompt == Spec => []NoLingering
  <1>1. ConnectionInvariant => NoLingering
    <2> SUFFICES ASSUME ConnectionInvariant, client = "live", pc = "poll",
                        parser \in {"closed"} \cup Stopped
                 PROVE  Pending # <<>>
      BY DEF NoLingering
    <2>1. /\ writeBuf \in Seq(Unit) /\ writePos \in 0 .. Len(writeBuf)
          /\ writePos < Len(writeBuf)
      BY DEF ConnectionInvariant, TypeOK, UnsentIsWatched
    <2> QED BY <2>1, RestType DEF Pending
  <1> QED BY Invariant, <1>1, PTL

\* No response follows the one that announced Connection: close.
THEOREM LastIsLast == Spec => NoReplyAfterLast
  <1>1. ConnectionInvariant /\ [Next]_vars =>
            [answered > 0 /\ ~keepAlive => answered' = answered]_vars
    <2> SUFFICES ASSUME ConnectionInvariant, Next, answered > 0, ~keepAlive
                 PROVE  answered' = answered
      OBVIOUS
    <2>1. ~ParseMessage
      BY DEF ConnectionInvariant, ParseMessage, Expects, Stopped
    <2> QED
      BY <2>1 DEF Next, Server, Peer, Poll, DispatchRead, DispatchDone, ReadData,
         ReadWouldBlock, ReadEnded, ParsePart, ParseMessageKilled, ParseBad,
         ParseFailed, ParseReturns, ParserAfterFree, WriteReady,
         WriteReadyBlocked, WriteReadyFails, WriteReadyKilled, PeerSend,
         PeerDrain, PeerShutdown, PeerClose, parseVars
  <1> QED BY Invariant, <1>1, PTL DEF Spec, NoReplyAfterLast

\* The steps that neither write, answer nor free.
Idle ==
    \/ Poll \/ DispatchRead \/ DispatchDone \/ ReadData \/ ReadWouldBlock
    \/ ParsePart \/ ParseMessageKilled \/ ParseBad \/ ParseReturns
    \/ ParserAfterFree \/ WriteReadyBlocked \/ WriteReadyKilled \/ Peer
    \/ UNCHANGED vars

\* The steps that neither answer, write nor close are stutters of ReplyStream.
LEMMA IdleStep == Idle => UNCHANGED <<client, answered, replies, wire>>
  BY DEF Idle, Poll, DispatchRead, DispatchDone, ReadData, ReadWouldBlock,
     ParsePart, ParseMessageKilled, ParseBad, ParseReturns, ParserAfterFree,
     WriteReadyBlocked, WriteReadyKilled, Peer, PeerSend, PeerDrain,
     PeerShutdown, PeerClose, vars, clientVars, parseVars

\* Every step is idle, a written reply, an answer or an end of the connection.
LEMMA StepKinds ==
    [Next]_vars => \/ Idle \/ ParseMessage \/ WriteReady
                   \/ ReadEnded \/ ParseFailed \/ WriteReadyFails
  BY DEF Next, Server, Idle

\* A step that answers and writes, and what it means for the stream.
LEMMA ParseMessageEffect ==
    ASSUME ConnectionInvariant, ParseMessage
    PROVE  /\ client = "live" /\ WriteEffect(replies', keepAlive')
           /\ answered' = answered + 1
           /\ replies' = replies \o Reply(answered + 1)
  <1>1. PICK keep \in KeepsAlive(Head(buf)) : SendResponse(keep)
    BY DEF ParseMessage
  <1>2. client = "live" /\ keep \in BOOLEAN
    BY <1>1 DEF ParseMessage, Parsing, Expects, KeepsAlive
  <1>3. WriteEffect(replies', keep) /\ keepAlive' = keep
    BY <1>1, <1>2, SendResponseEffect
  <1> QED BY <1>1, <1>2, <1>3 DEF SendResponse

\* The server closes a connection only for the three reasons it may have.
THEOREM JustifiedClose == Spec => CloseIsJustified
  <1> DEFINE Justified ==
        client = "live" /\ client' = "freed" =>
            \/ peer # "open"
            \/ parser \in Stopped
            \/ ~keepAlive' /\ wire' = replies'
  <1>1. ConnectionInvariant /\ [Next]_vars => [Justified]_vars
    <2> SUFFICES ASSUME ConnectionInvariant, [Next]_vars PROVE Justified
      OBVIOUS
    <2>1. CASE Idle
      BY <2>1, IdleStep
    <2>2. CASE ParseMessage
      BY <2>2, ParseMessageEffect DEF WriteEffect
    <2>3. CASE WriteReady
      BY <2>3, WriteReadyEffect DEF WriteReady, WriteEffect, parseVars
    <2>4. CASE ReadEnded
      BY <2>4 DEF ReadEnded
    <2>5. CASE ParseFailed
      BY <2>5 DEF ParseFailed, Parsing
    <2>6. CASE WriteReadyFails
      BY <2>6 DEF WriteReadyFails, WriteFails
    <2> QED BY <2>1, <2>2, <2>3, <2>4, <2>5, <2>6, StepKinds
  <1> QED BY Invariant, <1>1, PTL DEF Spec, CloseIsJustified

\* A connection with all its buffers, events and partial writes implements the
\* plain reply stream: every step is a step of ReplyStream or a stutter.
THEOREM Refinement == Spec => ImplementsReplyStream
  <1>1. Init => Stream!Init
    BY DEF Init, Stream!Init
  <1>2. ConnectionInvariant /\ [Next]_vars => [Stream!Serve]_(Stream!vars)
    <2> SUFFICES ASSUME ConnectionInvariant, [Next]_vars
                 PROVE  [Stream!Serve]_(Stream!vars)
      OBVIOUS
    <2>1. TypeOK /\ wire \in Seq(Unit) /\ IsPrefix(wire, wire)
      BY PrefixRefl DEF ConnectionInvariant, TypeOK
    <2> Stream!IsPrefix(wire, wire') <=> IsPrefix(wire, wire')
      BY DEF Stream!IsPrefix, IsPrefix
    <2> Stream!IsPrefix(wire', replies') <=> IsPrefix(wire', replies')
      BY DEF Stream!IsPrefix, IsPrefix
    <2>2. CASE Idle
      BY <2>2, IdleStep DEF Stream!vars
    <2>3. CASE ParseMessage
      BY <2>3, ParseMessageEffect DEF Stream!Serve, Stream!Promise, WriteEffect
    <2>4. CASE WriteReady
      BY <2>4, WriteReadyEffect DEF WriteReady, WriteEffect, Stream!Serve, parseVars
    <2>5. ASSUME FreeClient, UNCHANGED <<parseVars, wire>>
          PROVE  [Stream!Serve]_(Stream!vars)
      BY <2>1, <2>5, WireIsPrefix
         DEF FreeClient, parseVars, Stream!Serve, Stream!vars, TypeOK
    <2>6. CASE ReadEnded \/ ParseFailed \/ WriteReadyFails
      BY <2>5, <2>6 DEF ReadEnded, ParseFailed, WriteReadyFails
    <2> QED BY <2>2, <2>3, <2>4, <2>6, StepKinds
  <1> QED BY Invariant, <1>1, <1>2, PTL DEF Spec, Stream!Spec, ImplementsReplyStream

\* Unless a response announced the end, enqueue_write never frees the client
\* under llhttp: free_client runs once, from a handler that returns at once.
THEOREM KeptAliveFreedOnce == Spec => []FreedOnce
  <1>1. Init => FreedOnce
    BY DEF Init, FreedOnce
  <1>2. ConnectionInvariant /\ FreedOnce /\ [Next]_vars => FreedOnce'
    <2> SUFFICES ASSUME ConnectionInvariant, FreedOnce, [Next]_vars
                 PROVE  FreedOnce'
      OBVIOUS
    <2>1. client \in {"live", "freed"} /\ (client = "freed" => mask = {})
      BY DEF ConnectionInvariant, TypeOK
    <2>2. CASE ParseMessage
      <3>1. keepAlive \/ answered = 0
        BY <2>2 DEF ParseMessage, Expects, ConnectionInvariant, TypeOK, Stopped
      <3>2. PICK keep \in KeepsAlive(Head(buf)) : SendResponse(keep)
        BY <2>2 DEF ParseMessage
      <3>3. /\ client = "live" /\ pc' = pc /\ keepAlive' = keep
            /\ answered' = answered + 1 /\ answered \in Nat
        BY <2>2, <3>2
           DEF ParseMessage, SendResponse, Parsing, loopVars, ConnectionInvariant, TypeOK
      <3>4. CASE keep
        <4>1. client' = client /\ frees' = frees
          BY <3>2, <3>4 DEF SendResponse, EnqueueWrite, Advance, LeaveToWatch, WrittenOut
        <4> QED BY <3>1, <3>3, <4>1 DEF FreedOnce
      <3>5. CASE ~keep
        BY <3>3, <3>5 DEF FreedOnce
      <3> QED BY <3>4, <3>5
    <2>3. CASE WriteReady
      BY <2>1, <2>3 DEF FreedOnce, WriteReady, DispatchWrite, Advance, WrittenOut,
         FreeClient, parseVars
    <2>4. CASE ReadEnded \/ ParseFailed \/ WriteReadyFails
      BY <2>1, <2>4 DEF FreedOnce, ReadEnded, ParseFailed, Parsing,
         WriteReadyFails, DispatchWrite, FreeClient, parseVars
    <2>5. CASE \/ Poll \/ DispatchRead \/ DispatchDone \/ ReadData
               \/ ReadWouldBlock
      BY <2>1, <2>5 DEF FreedOnce, Poll, DispatchRead, DispatchDone, ReadData,
         ReadWouldBlock, clientVars, parseVars
    <2>6. CASE ParsePart \/ ParseMessageKilled \/ ParseBad \/ ParseReturns
      BY <2>1, <2>6 DEF FreedOnce, ParsePart, ParseMessageKilled, ParseBad,
         ParseReturns, Parsing, clientVars, loopVars, parseVars
    <2>7. CASE ParserAfterFree
      BY <2>1, <2>7 DEF FreedOnce, ParserAfterFree, parseVars
    <2>8. CASE WriteReadyBlocked \/ WriteReadyKilled \/ Peer \/ UNCHANGED vars
      BY <2>1, <2>8 DEF FreedOnce, WriteReadyBlocked, WriteReadyKilled, Peer,
         PeerSend, PeerDrain, PeerShutdown, PeerClose, vars, clientVars, loopVars,
         parseVars
    <2> QED BY <2>2, <2>3, <2>4, <2>5, <2>6, <2>7, <2>8 DEF Next, Server
  <1> QED BY Invariant, <1>1, <1>2, PTL DEF Spec

(* What the write buffer costs *)

\* Products, which the provers treat as uninterpreted unless told.
LEMMA Products ==
    ASSUME NEW a \in Nat, NEW m \in Nat, NEW n \in Nat
    PROVE  /\ a * m \in Nat /\ a * (m + 1) = a * m + a
           /\ m <= n => a * m <= a * n
  OBVIOUS

\* The units of two sequences, counted together.
LEMMA ConcatLen ==
    ASSUME NEW S, NEW s \in Seq(S), NEW t \in Seq(S), NEW r, r = s \o t
    PROVE  Len(r) = Len(s) + Len(t)
  OBVIOUS

\* A write puts n more units on the wire, as many as there is room for, and moves
\* write_pos by n, or back to 0.
Writes(n) ==
    /\ Len(wire') = Len(wire) + n /\ (n > 0 => n <= Room)
    /\ client' = "live" => writePos' <= writePos + n

\* The one write of either function, given the buffer it writes from.
LEMMA AdvanceWrites ==
    ASSUME TypeOK, NEW b \in Seq(Unit), writePos <= Len(b),
           NEW n \in 0 .. Len(b) - writePos, n > 0 => n <= Room,
           NEW keep, NEW doneMask, NEW partMask,
           Advance(b, n, keep, doneMask, partMask)
    PROVE  Writes(n)
  <1>1. wire \in Seq(Unit) /\ writePos \in Nat /\ Len(b) \in Nat
    BY DEF TypeOK
  <1>2. wire' = wire \o SubSeq(b, writePos + 1, writePos + n)
    BY DEF Advance
  <1>3. /\ SubSeq(b, writePos + 1, writePos + n) \in Seq(Unit)
        /\ Len(SubSeq(b, writePos + 1, writePos + n)) = n
    <2>1. writePos \in 0 .. Len(b) /\ writePos + n \in writePos .. Len(b)
      BY <1>1
    <2>2. (writePos + n) - writePos = n
      BY <1>1
    <2> QED BY <1>1, <2>1, <2>2, RestAdvances
  <1>4. Len(wire') = Len(wire) + n
    BY <1>1, <1>2, <1>3
  <1>5. writePos' \in {0, writePos + n}
    BY DEF Advance, WrittenOut, FreeClient, SetWriteBuf
  <1> QED BY <1>1, <1>4, <1>5 DEF Writes

\* on_message_complete's reply: written as far as there is room, or left.
LEMMA AnswerWrites ==
    ASSUME ConnectionInvariant, ParseMessage
    PROVE  /\ client = "live" /\ \E n \in Nat : Writes(n)
           /\ Len(replies') = Len(replies) + ReplyLen /\ answered' = answered + 1
           /\ Len(buf') = Len(buf) - 1 /\ UNCHANGED <<inq, sent, drained>>
  <1>1. PICK keep : SendResponse(keep)
    BY DEF ParseMessage
  <1> DEFINE data == Reply(answered + 1)
             b == writeBuf \o data
  <1>2. /\ TypeOK /\ writeBuf \in Seq(Unit) /\ replies \in Seq(Unit) /\ wire \in Seq(Unit)
        /\ writePos \in 0 .. Len(writeBuf) /\ Len(writeBuf) \in Nat /\ answered + 1 \in Nat
        /\ buf \in Seq(PieceKind)
    BY DEF ConnectionInvariant, TypeOK
  <1>3. data \in Seq(Unit) /\ Len(data) = ReplyLen /\ ReplyLen \in Nat
    BY <1>2, ReplyType, SizesAssumption
  <1>4. /\ answered' = answered + 1 /\ replies' = replies \o data /\ EnqueueWrite(b, keep)
    BY <1>1 DEF SendResponse
  <1> HIDE DEF data
  <1>5. b \in Seq(Unit) /\ Len(b) \in Nat /\ writePos <= Len(b)
    BY <1>2, <1>3
  <1>6. \E n \in Nat : Writes(n)
    <2>1. ASSUME NEW n \in Accepts(Len(b) - writePos),
                 Advance(b, n, keep, mask, mask \cup {"W"})
          PROVE  Writes(n) /\ n \in Nat
      <3>1. n \in 0 .. Len(b) - writePos /\ n <= Room
        BY DEF Accepts
      <3> HIDE DEF b
      <3> QED BY <1>2, <1>5, <2>1, <3>1, AdvanceWrites
    <2>2. ASSUME LeaveToWatch(b) PROVE Writes(0)
      BY <1>2, <2>2 DEF LeaveToWatch, SetWriteBuf, Writes
    <2> HIDE DEF b
    <2> QED BY <1>4, <2>1, <2>2 DEF EnqueueWrite
  <1>7. /\ client = "live" /\ buf # <<>> /\ buf' = Tail(buf)
        /\ UNCHANGED <<inq, sent, drained>>
    BY DEF ParseMessage, Parsing, Expects, peerVars
  <1>8. Len(replies') = Len(replies) + ReplyLen
    <2>1. \A r : r = replies \o data => Len(r) = Len(replies) + Len(data)
      BY <1>2, <1>3, ConcatLen
    <2> QED BY <1>3, <1>4, <2>1
  <1>9. Len(buf') = Len(buf) - 1
    BY <1>2, <1>7
  <1> QED BY <1>4, <1>6, <1>7, <1>8, <1>9

\* on_write_ready's write.
LEMMA ReadyWrites ==
    ASSUME ConnectionInvariant, WriteReady
    PROVE  client = "live" /\ \E n \in Nat : Writes(n)
  <1>1. /\ TypeOK /\ writeBuf \in Seq(Unit) /\ writePos \in 0 .. Len(writeBuf)
        /\ Len(writeBuf) \in Nat /\ writePos <= Len(writeBuf)
    BY DEF ConnectionInvariant, TypeOK
  <1>2. PICK n \in Writable : Advance(writeBuf, n, keepAlive, mask \ {"W"}, mask)
    BY DEF WriteReady
  <1>3. n \in 0 .. Len(writeBuf) - writePos /\ (n > 0 => n <= Room)
    <2>1. Len(Pending) = Len(writeBuf) - writePos
      BY <1>1, RestType DEF Pending
    <2> QED BY <1>1, <1>2, <2>1 DEF Writable, Accepts
  <1> QED BY <1>1, <1>2, <1>3, AdvanceWrites, WriteReadyEffect

\* Steps that write nothing keep the buffer, or release it; a piece that is read,
\* parsed or dropped is not counted twice.
LEMMA QuietBooks ==
    ASSUME ConnectionInvariant, Idle \/ ReadEnded \/ ParseFailed \/ WriteReadyFails
    PROVE  /\ UNCHANGED <<answered, replies, wire>>
           /\ client' = "live" => writePos' = writePos /\ client = "live"
           /\ drained' = drained \/ (drained' >= drained /\ drained' <= Len(wire))
           /\ Len(buf') + Len(inq') - sent' <= Len(buf) + Len(inq) - sent
           /\ sent' = sent \/ (sent < MaxSend /\ sent' = sent + 1)
  <1>1. /\ buf \in Seq(PieceKind) /\ inq \in Seq(PieceKind) /\ sent \in Nat /\ drained \in Nat
        /\ Len(buf) \in Nat /\ Len(inq) \in Nat /\ Len(wire) \in Nat
    BY DEF ConnectionInvariant, TypeOK
  <1>2. UNCHANGED <<answered, replies, wire>>
    BY IdleStep DEF ReadEnded, ParseFailed, WriteReadyFails, parseVars
  <1>3. client' = "live" => writePos' = writePos /\ client = "live"
    BY DEF Idle, Poll, DispatchRead, DispatchDone, ReadData, ReadWouldBlock, ParsePart,
       ParseMessageKilled, ParseBad, ParseReturns, ParserAfterFree, WriteReadyBlocked,
       WriteReadyKilled, Peer, PeerSend, PeerDrain, PeerShutdown, PeerClose, vars,
       clientVars, ReadEnded, ParseFailed, WriteReadyFails, FreeClient
  <1>4. CASE PeerDrain
    <2>1. /\ UNCHANGED <<buf, inq, sent>> /\ \E n \in drained + 1 .. Len(wire) : drained' = n
      BY <1>4 DEF PeerDrain, parseVars
    <2> QED BY <1>1, <1>2, <1>3, <2>1
  <1>5. CASE PeerSend
    <2>1. PICK p \in Pieces : inq' = Append(inq, p)
      BY <1>5 DEF PeerSend
    <2>2. Len(inq') = Len(inq) + 1
      BY <1>1, <2>1, PiecesAssumption
    <2>3. sent < MaxSend /\ sent' = sent + 1 /\ UNCHANGED <<buf, drained>>
      BY <1>5 DEF PeerSend, parseVars
    <2> QED BY <1>1, <1>2, <1>3, <2>2, <2>3
  <1>6. CASE ReadData
    <2>1. PICK n \in 1 .. Len(inq) : buf' = SubSeq(inq, 1, n) /\ inq' = Rest(inq, n)
      BY <1>6 DEF ReadData
    <2>2. Len(buf') = n /\ Len(inq') = Len(inq) - n
      BY <1>1, <2>1 DEF Rest
    <2>3. UNCHANGED <<sent, drained>>
      BY <1>6 DEF ReadData
    <2> QED BY <1>1, <1>2, <1>3, <2>1, <2>2, <2>3
  <1>7. CASE ParsePart \/ ParseBad
    <2>1. buf # <<>> /\ buf' = Tail(buf) /\ UNCHANGED <<inq, sent, drained>>
      BY <1>7 DEF ParsePart, ParseBad, Expects, peerVars
    <2>2. Len(buf') = Len(buf) - 1
      BY <1>1, <2>1
    <2> QED BY <1>1, <1>2, <1>3, <2>1, <2>2
  <1>8. CASE ~(PeerDrain \/ PeerSend \/ ReadData \/ ParsePart \/ ParseBad)
    <2>1. UNCHANGED <<buf, inq, sent, drained>>
      BY <1>8 DEF Idle, Poll, DispatchRead, DispatchDone, ReadWouldBlock,
         ParseMessageKilled, ParseReturns, ParserAfterFree, WriteReadyBlocked,
         WriteReadyKilled, Peer, PeerShutdown, PeerClose, vars,
         parseVars, peerVars, ReadEnded, ParseFailed, WriteReadyFails
    <2> QED BY <1>1, <1>2, <1>3, <2>1
  <1> QED BY <1>4, <1>5, <1>6, <1>7, <1>8

\* Every step keeps the books.
LEMMA BooksStep == ConnectionInvariant /\ BooksBalance /\ [Next]_vars => BooksBalance'
  <1> SUFFICES ASSUME ConnectionInvariant, BooksBalance, [Next]_vars PROVE BooksBalance'
    OBVIOUS
  <1>1. /\ answered \in Nat /\ drained \in Nat /\ sent \in Nat /\ writePos \in Nat
        /\ Len(wire) \in Nat /\ Len(buf) \in Nat /\ Len(inq) \in Nat /\ Len(replies) \in Nat
        /\ MaxSend \in Nat /\ SndCap \in Nat /\ ReplyLen \in Nat
    BY SizesAssumption DEF ConnectionInvariant, TypeOK
  <1>2. /\ Len(replies) = ReplyLen * answered
        /\ answered + Len(buf) + Len(inq) <= sent /\ sent <= MaxSend
        /\ drained <= Len(wire) /\ Len(wire) - drained <= SndCap
        /\ client = "live" => writePos <= Len(wire)
    BY DEF BooksBalance
  <1>3. ConnectionInvariant' /\ writePos' \in Nat /\ Len(buf') \in Nat /\ Len(inq') \in Nat
    <2>1. ConnectionInvariant'
      BY InvariantStep
    <2> QED BY <2>1 DEF ConnectionInvariant, TypeOK
  <1>4. ASSUME NEW n \in Nat, Writes(n), client = "live", drained' = drained
        PROVE  /\ drained' <= Len(wire') /\ Len(wire') - drained' <= SndCap
               /\ client' = "live" => writePos' <= Len(wire')
    BY <1>1, <1>2, <1>3, <1>4 DEF Writes, Room
  <1>5. CASE ParseMessage
    <2>1. ReplyLen * (answered + 1) = ReplyLen * answered + ReplyLen
      BY <1>1, Products
    <2>2. /\ Len(replies') = Len(replies) + ReplyLen /\ answered' = answered + 1
          /\ Len(buf') = Len(buf) - 1 /\ UNCHANGED <<inq, sent, drained>>
          /\ client = "live" /\ \E n \in Nat : Writes(n)
      BY <1>5, AnswerWrites
    <2>3. /\ drained' <= Len(wire') /\ Len(wire') - drained' <= SndCap
          /\ client' = "live" => writePos' <= Len(wire')
      BY <1>4, <2>2
    <2>4. Len(replies') = ReplyLen * answered'
      BY <1>2, <2>1, <2>2
    <2>5. answered' + Len(buf') + Len(inq') <= sent' /\ sent' <= MaxSend
      BY <1>1, <1>2, <2>2
    <2> QED BY <2>3, <2>4, <2>5 DEF BooksBalance
  <1>6. CASE WriteReady
    <2>1. client = "live" /\ \E n \in Nat : Writes(n)
      BY <1>6, ReadyWrites
    <2>2. UNCHANGED <<parseVars, peerVars>>
      BY <1>6 DEF WriteReady
    <2>3. UNCHANGED <<answered, replies, buf, inq, sent, drained>>
      BY <2>2 DEF parseVars, peerVars
    <2> QED BY <1>2, <1>4, <2>1, <2>3 DEF BooksBalance
  <1>7. CASE Idle \/ ReadEnded \/ ParseFailed \/ WriteReadyFails
    <2>1. /\ UNCHANGED <<answered, replies, wire>>
          /\ client' = "live" => writePos' = writePos /\ client = "live"
          /\ drained' = drained \/ (drained' >= drained /\ drained' <= Len(wire))
          /\ Len(buf') + Len(inq') - sent' <= Len(buf) + Len(inq) - sent
          /\ sent' = sent \/ (sent < MaxSend /\ sent' = sent + 1)
      BY <1>7, QuietBooks
    <2>2. ConnectionInvariant' /\ drained' \in Nat
      BY <1>3 DEF ConnectionInvariant, TypeOK
    <2>3. answered' + Len(buf') + Len(inq') <= sent' /\ sent' <= MaxSend
      BY <1>1, <1>2, <1>3, <2>1
    <2>4. /\ drained' <= Len(wire') /\ Len(wire') - drained' <= SndCap
          /\ client' = "live" => writePos' <= Len(wire')
      BY <1>1, <1>2, <2>1, <2>2
    <2> QED BY <1>2, <2>1, <2>3, <2>4 DEF BooksBalance
  <1> QED BY <1>5, <1>6, <1>7, StepKinds

\* The memory one client costs (enqueue_write's realloc): bounded by what its peer
\* has sent, and otherwise by nothing but what the peer reads.
THEOREM BufferKept == Spec => []WriteBufRight
  <1>1. Init => BooksBalance
    <2> SUFFICES ASSUME Init PROVE BooksBalance
      OBVIOUS
    <2>1. ReplyLen * 0 = 0 /\ Len(<<>>) = 0
      BY SizesAssumption
    <2> QED BY <2>1, SizesAssumption DEF Init, BooksBalance
  <1>2. ConnectionInvariant /\ BooksBalance => WriteBufRight
    <2> SUFFICES ASSUME ConnectionInvariant, BooksBalance, client = "live"
                 PROVE  Backlog
      BY DEF WriteBufRight, Backlog, ConnectionInvariant
    <2>1. /\ answered \in Nat /\ drained \in Nat /\ sent \in Nat
          /\ writeBuf \in Seq(Unit) /\ writePos \in 0 .. Len(writeBuf) /\ wire \in Seq(Unit)
          /\ Len(writeBuf) \in Nat /\ Len(wire) \in Nat
          /\ ReplyLen \in Nat /\ SndCap \in Nat /\ Len(buf) \in Nat /\ Len(inq) \in Nat
      BY SizesAssumption DEF ConnectionInvariant, TypeOK
    <2>2. Pending \in Seq(Unit) /\ Len(Pending) = Len(writeBuf) - writePos
      BY <2>1, RestType DEF Pending
    <2>3. Len(wire) + Len(Pending) = Len(replies)
      <3>1. wire \o Pending = replies
        BY DEF ConnectionInvariant, RepliesInOrder
      <3>2. \A r : r = wire \o Pending => Len(r) = Len(wire) + Len(Pending)
        BY <2>1, <2>2, ConcatLen
      <3> QED BY <3>1, <3>2
    <2>4. ReplyLen * answered \in Nat /\ ReplyLen * answered <= ReplyLen * sent
          /\ ReplyLen * sent \in Nat
      <3>1. answered <= sent
        BY <2>1 DEF BooksBalance
      <3> QED BY <2>1, <3>1, Products
    <2>5. /\ Len(replies) = ReplyLen * answered /\ Len(wire) - drained <= SndCap
          /\ writePos <= Len(wire)
      BY DEF BooksBalance
    <2> DEFINE due == ReplyLen * answered
               all == ReplyLen * sent
    <2>6. due \in Nat /\ all \in Nat /\ due <= all /\ Len(wire) + Len(Pending) = due
      BY <2>3, <2>4, <2>5
    <2>7. writePos \in Nat /\ Len(Pending) \in Nat
      BY <2>1, <2>2
    <2> HIDE DEF due, all
    <2>8. Len(writeBuf) <= all
      BY <2>1, <2>2, <2>5, <2>6, <2>7
    <2>9. Len(Pending) >= due - drained - SndCap
      BY <2>1, <2>5, <2>6, <2>7
    <2> QED BY <2>8, <2>9 DEF Backlog, due, all
  <1> QED BY <1>1, <1>2, BooksStep, Invariant, PTL DEF Spec

(* Peers that never end a connection *)

\* What such a peer sends, every read and every callback keep.
LEMMA NeverLastStep ==
    ASSUME Pieces \subseteq PieceKind \ {"last", "connect"},
           ConnectionInvariant, NeverLast, [Next]_vars
    PROVE  NeverLast'
  <1> DEFINE K == PieceKind \ {"last", "connect"}
  <1>1. buf \in Seq(K) /\ inq \in Seq(K) /\ (answered > 0 => keepAlive) /\ answered \in Nat
    BY DEF NeverLast, ConnectionInvariant, TypeOK
  <1>2. CASE PeerSend
    <2>1. PICK p \in Pieces : inq' = Append(inq, p)
      BY <1>2 DEF PeerSend
    <2>2. UNCHANGED <<buf, answered, keepAlive>> /\ p \in K
      BY <1>2, <2>1 DEF PeerSend, parseVars
    <2> HIDE DEF K
    <2>3. inq' \in Seq(K)
      BY <1>1, <2>1, <2>2
    <2> QED BY <1>1, <2>2, <2>3 DEF NeverLast, K
  <1>3. CASE ReadData
    <2>1. PICK n \in 1 .. Len(inq) : buf' = SubSeq(inq, 1, n) /\ inq' = Rest(inq, n)
      BY <1>3 DEF ReadData
    <2>2. UNCHANGED <<answered, keepAlive>>
      BY <1>3 DEF ReadData
    <2> HIDE DEF K
    <2>3. buf' \in Seq(K) /\ inq' \in Seq(K)
      BY <1>1, <2>1, RestOfInput
    <2> QED BY <1>1, <2>2, <2>3 DEF NeverLast, K
  <1>4. CASE ParsePart \/ ParseBad
    <2>1. buf # <<>> /\ buf' = Tail(buf) /\ UNCHANGED <<inq, answered, keepAlive>>
      BY <1>4 DEF ParsePart, ParseBad, Expects, peerVars
    <2> HIDE DEF K
    <2>2. buf' \in Seq(K)
      BY <1>1, <2>1
    <2> QED BY <1>1, <2>1, <2>2 DEF NeverLast, K
  <1>5. CASE ParseMessage
    <2>1. PICK keep \in KeepsAlive(Head(buf)) : SendResponse(keep)
      BY <1>5 DEF ParseMessage
    <2>2. /\ buf # <<>> /\ Head(buf) \in {"request", "last", "connect"}
          /\ buf' = Tail(buf) /\ inq' = inq
      BY <1>5 DEF ParseMessage, Expects, peerVars
    <2>3. Head(buf) \in K /\ Tail(buf) \in Seq(K)
      <3> HIDE DEF K
      <3> QED BY <1>1, <2>2
    <2>4. keep = TRUE
      BY <2>1, <2>2, <2>3 DEF KeepsAlive
    <2>5. keepAlive' = TRUE
      BY <2>1, <2>4 DEF SendResponse
    <2> QED BY <1>1, <2>2, <2>3, <2>5 DEF NeverLast
  <1>6. CASE ~(PeerSend \/ ReadData \/ ParsePart \/ ParseBad \/ ParseMessage)
    <2>1. UNCHANGED <<buf, inq, answered, keepAlive>>
      BY <1>6 DEF Next, Server, Peer, Poll, DispatchRead, DispatchDone, ReadWouldBlock,
         ReadEnded, ParseMessageKilled, ParseFailed, ParseReturns, ParserAfterFree,
         WriteReady, WriteReadyBlocked, WriteReadyFails, WriteReadyKilled, PeerDrain,
         PeerShutdown, PeerClose, vars, parseVars, peerVars
    <2> QED BY <1>1, <2>1 DEF NeverLast
  <1> QED BY <1>2, <1>3, <1>4, <1>5, <1>6

\* The client outlives llhttp's callbacks with every peer that keeps its connection
\* alive and never asks for an upgrade: what frees it too early is the inline write
\* of a last reply, and nothing else.
THEOREM KeptAliveOutlives ==
    ASSUME Pieces \subseteq PieceKind \ {"last", "connect"}
    PROVE  Spec => []ClientOutlivesCallbacks
  <1>1. Init => NeverLast
    BY DEF Init, NeverLast
  <1>2. ConnectionInvariant /\ NeverLast /\ FreedOnce => ClientOutlivesCallbacks
    BY DEF ConnectionInvariant, TypeOK, NeverLast, FreedOnce, ClientOutlivesCallbacks
  <1> QED BY <1>1, <1>2, NeverLastStep, Invariant, KeptAliveFreedOnce, PTL DEF Spec

\* What kills the server is a write to a peer that has vanished, if SIGPIPE does
\* what it does by default, or the use after free: with kept-alive connections and
\* SIGPIPE ignored, no peer ends the process, wherever it vanishes.
THEOREM SurvivesVanishedPeers ==
    ASSUME Pieces \subseteq PieceKind \ {"last", "connect"}, "kill" \notin SigPipe
    PROVE  Spec => []ServerSurvives
  <1>1. Init => ServerSurvives
    BY DEF Init, ServerSurvives
  <1>2. ClientOutlivesCallbacks /\ ServerSurvives /\ [Next]_vars => ServerSurvives'
    <2> SUFFICES ASSUME ClientOutlivesCallbacks, ServerSurvives, [Next]_vars
                 PROVE  proc' = proc
      BY DEF ServerSurvives
    <2>1. ~ParserAfterFree
      BY DEF ClientOutlivesCallbacks, ParserAfterFree
    <2>2. ~ParseMessageKilled /\ ~WriteReadyKilled
      BY DEF ParseMessageKilled, WriteReadyKilled, WriteSignals
    <2> QED
      BY <2>1, <2>2 DEF Next, Server, Peer, Poll, DispatchRead, DispatchDone, ReadData,
         ReadWouldBlock, ReadEnded, ParsePart, ParseMessage, ParseBad, ParseFailed,
         ParseReturns, WriteReady, WriteReadyBlocked, WriteReadyFails, PeerSend,
         PeerDrain, PeerShutdown, PeerClose, vars, loopVars
  <1> QED BY <1>1, <1>2, KeptAliveOutlives, PTL DEF Spec

(* What a write leaves registered *)

\* A write leaves the masks it was given, or frees the client.
LEMMA AdvanceMask ==
    ASSUME client = "live", NEW b, NEW n, NEW keep, NEW doneMask, NEW partMask,
           Advance(b, n, keep, doneMask, partMask)
    PROVE  \/ client' = "live" /\ mask' \in {doneMask, partMask}
           \/ client' = "freed" /\ mask' = {}
  BY DEF Advance, WrittenOut, FreeClient

\* A response leaves the mask, adds the writable watch to it, or frees the client.
LEMMA ParseMessageMask ==
    ASSUME ParseMessage
    PROVE  /\ client = "live" /\ pc = "parse" /\ pc' = pc /\ fired' = fired
           /\ \/ client' = "live" /\ mask' \in {mask, mask \cup {"W"}}
              \/ client' = "freed" /\ mask' = {}
  <1>1. client = "live" /\ pc = "parse" /\ pc' = pc /\ fired' = fired
    BY DEF ParseMessage, Parsing, loopVars
  <1>2. PICK b, keep : EnqueueWrite(b, keep)
    BY DEF ParseMessage, SendResponse
  <1>3. CASE LeaveToWatch(b)
    BY <1>1, <1>3 DEF LeaveToWatch
  <1>4. CASE \E n \in Accepts(Len(b) - writePos) :
                Advance(b, n, keep, mask, mask \cup {"W"})
    BY <1>1, <1>4, AdvanceMask
  <1> QED BY <1>1, <1>2, <1>3, <1>4 DEF EnqueueWrite

\* on_write_ready leaves the mask, takes the writable watch from it, or frees the
\* client.
LEMMA WriteReadyMask ==
    ASSUME ConnectionInvariant, WriteReady
    PROVE  /\ client = "live" /\ DispatchWrite /\ pc' = "poll" /\ fired' = {}
           /\ \/ client' = "live" /\ mask' \in {mask, mask \ {"W"}}
              \/ client' = "freed" /\ mask' = {}
  <1>1. client = "live" /\ DispatchWrite /\ pc' = "poll" /\ fired' = {}
    BY WriteReadyEffect DEF WriteReady
  <1>2. PICK n : Advance(writeBuf, n, keepAlive, mask \ {"W"}, mask)
    BY DEF WriteReady
  <1> QED BY <1>1, <1>2, AdvanceMask

(* Peers that send nothing but requests to be kept alive *)

\* What a peer that only sends such requests leaves behind, every step keeps.
LEMMA OnlyRequestsStep ==
    ASSUME Pieces \subseteq {"part", "request"},
           ConnectionInvariant, OnlyRequests, [Next]_vars
    PROVE  OnlyRequests'
  <1> DEFINE K == {"part", "request"}
  <1>1. /\ buf \in Seq(K) /\ inq \in Seq(K) /\ parser \in {"start", "message"}
        /\ answered = 0 => "W" \notin mask
        /\ answered # 0 => keepAlive
        /\ answered \in Nat
    BY DEF OnlyRequests, ConnectionInvariant, TypeOK
  <1> USE DEF OnlyRequests
  <1>2. CASE PeerSend
    <2>1. PICK p \in Pieces : inq' = Append(inq, p)
      BY <1>2 DEF PeerSend
    <2>2. UNCHANGED <<buf, answered, keepAlive, parser, mask>> /\ p \in K
      BY <1>2, <2>1 DEF PeerSend, parseVars, clientVars
    <2> HIDE DEF K
    <2>3. inq' \in Seq(K)
      BY <1>1, <2>1, <2>2
    <2> QED BY <1>1, <2>2, <2>3 DEF K
  <1>3. CASE ReadData
    <2>1. PICK n \in 1 .. Len(inq) : buf' = SubSeq(inq, 1, n) /\ inq' = Rest(inq, n)
      BY <1>3 DEF ReadData
    <2>2. UNCHANGED <<answered, keepAlive, parser, mask>>
      BY <1>3 DEF ReadData, clientVars
    <2> HIDE DEF K
    <2>3. buf' \in Seq(K) /\ inq' \in Seq(K)
      BY <1>1, <2>1, RestOfInput
    <2> QED BY <1>1, <2>2, <2>3 DEF K
  <1>4. CASE ParsePart
    <2>1. /\ buf # <<>> /\ buf' = Tail(buf) /\ parser' = "message"
          /\ UNCHANGED <<inq, answered, keepAlive, mask>>
      BY <1>4 DEF ParsePart, Expects, peerVars, clientVars
    <2> HIDE DEF K
    <2>2. buf' \in Seq(K)
      BY <1>1, <2>1
    <2> QED BY <1>1, <2>1, <2>2 DEF K
  <1>5. ~ParseBad
    <2>1. buf # <<>> => Head(buf) \in K
      <3> HIDE DEF K
      <3> QED BY <1>1
    <2> QED BY <1>1, <2>1 DEF ParseBad
  <1>6. CASE ParseMessage
    <2>1. PICK keep \in KeepsAlive(Head(buf)) : SendResponse(keep)
      BY <1>6 DEF ParseMessage
    <2>2. /\ buf # <<>> /\ Head(buf) \in {"request", "last", "connect"}
          /\ buf' = Tail(buf) /\ inq' = inq /\ parser' = AfterMessage(Head(buf))
      BY <1>6 DEF ParseMessage, Expects, peerVars
    <2>3. Head(buf) \in K /\ Tail(buf) \in Seq(K)
      <3> HIDE DEF K
      <3> QED BY <1>1, <2>2
    <2>4. keep = TRUE /\ parser' = "start"
      BY <2>1, <2>2, <2>3 DEF KeepsAlive, AfterMessage
    <2>5. keepAlive' = TRUE /\ answered' = answered + 1
      BY <2>1, <2>4 DEF SendResponse
    <2> QED BY <1>1, <2>2, <2>3, <2>4, <2>5
  <1>7. CASE WriteReady
    <2>1. mask' \subseteq mask
      BY <1>7, WriteReadyMask
    <2> QED BY <1>1, <1>7, <2>1 DEF WriteReady, parseVars, peerVars
  <1>8. CASE ReadEnded \/ ParseFailed \/ WriteReadyFails
    BY <1>1, <1>8 DEF ReadEnded, ParseFailed, WriteReadyFails, FreeClient, parseVars,
       peerVars
  <1>9. CASE ParserAfterFree
    BY <1>1, <1>9 DEF ParserAfterFree, parseVars, peerVars
  <1>10. CASE \/ Poll \/ DispatchRead \/ DispatchDone \/ ReadWouldBlock
              \/ ParseMessageKilled \/ ParseReturns \/ WriteReadyBlocked
              \/ WriteReadyKilled \/ PeerDrain \/ PeerShutdown \/ PeerClose
              \/ UNCHANGED vars
    <2>1. UNCHANGED <<buf, inq, parser, answered, keepAlive, mask>>
      BY <1>10 DEF Poll, DispatchRead, DispatchDone, ReadWouldBlock, ParseMessageKilled,
         ParseReturns, WriteReadyBlocked, WriteReadyKilled, PeerDrain, PeerShutdown,
         PeerClose, vars, clientVars, parseVars, peerVars
    <2> QED BY <1>1, <2>1
  <1> QED BY <1>2, <1>3, <1>4, <1>5, <1>6, <1>7, <1>8, <1>9, <1>10
          DEF Next, Server, Peer

\* A connection on which only requests to be kept alive arrive is ended by its peer
\* and by nobody else: what cuts a reply off before that is a CONNECT or Upgrade
\* behind it (PausedReplySent), malformed bytes, or a request that ends it.
THEOREM KeptAliveEndsWithPeer ==
    ASSUME Pieces \subseteq {"part", "request"}
    PROVE  Spec => PeerEndsIt
  <1>1. Init => OnlyRequests
    <2>1. <<>> \in Seq({"part", "request"})
      OBVIOUS
    <2> QED BY <2>1 DEF Init, OnlyRequests
  <1>2. ConnectionInvariant /\ OnlyRequests /\ [Next]_vars =>
            [client = "live" /\ client' = "freed" => peer # "open"]_vars
    <2> SUFFICES ASSUME ConnectionInvariant, OnlyRequests, [Next]_vars,
                        client = "live", client' = "freed"
                 PROVE  peer # "open"
      OBVIOUS
    <2>1. ~Idle
      BY IdleStep
    <2>2. OnlyRequests'
      BY OnlyRequestsStep
    <2>3. CASE ParseMessage
      <3>1. WriteEffect(replies', keepAlive') /\ answered' = answered + 1
        BY <2>3, ParseMessageEffect
      <3>2. answered' # 0
        BY <3>1 DEF ConnectionInvariant, TypeOK
      <3> QED BY <2>2, <3>1, <3>2 DEF WriteEffect, OnlyRequests
    <2>4. CASE WriteReady
      <3>1. WriteEffect(replies, keepAlive) /\ "W" \in mask
        BY <2>4, WriteReadyEffect DEF WriteReady, DispatchWrite
      <3> QED BY <3>1 DEF WriteEffect, OnlyRequests
    <2>5. CASE ReadEnded
      BY <2>5 DEF ReadEnded
    <2>6. ~ParseFailed
      BY DEF ParseFailed, OnlyRequests, Stopped
    <2>7. CASE WriteReadyFails
      BY <2>7 DEF WriteReadyFails, WriteFails
    <2> QED BY <2>1, <2>3, <2>4, <2>5, <2>6, <2>7, StepKinds
  <1> QED BY <1>1, <1>2, OnlyRequestsStep, Invariant, PTL DEF Spec, PeerEndsIt

(* The connection and the event loop: ClientEvents *)

\* What the loop and the client rely on of each other holds in every step.
LEMMA ServedStep ==
    ConnectionInvariant /\ ClientServed /\ [Next]_vars => ClientServed'
  <1> SUFFICES ASSUME ConnectionInvariant, ClientServed, [Next]_vars
               PROVE  ClientServed'
    OBVIOUS
  <1> USE DEF ClientServed
  <1>1. client = "freed" => mask = {}
    BY DEF ConnectionInvariant
  <1>2. CASE Poll \/ DispatchRead \/ DispatchDone \/ ReadData \/ ReadWouldBlock
    BY <1>1, <1>2 DEF Poll, DispatchRead, DispatchDone, ReadData, ReadWouldBlock,
       clientVars, ConnectionInvariant, TypeOK
  <1>3. CASE ReadEnded \/ ParseFailed \/ WriteReadyFails
    BY <1>3 DEF ReadEnded, ParseFailed, WriteReadyFails, FreeClient
  <1>4. CASE ParsePart \/ ParseMessageKilled \/ ParseBad \/ ParseReturns
    BY <1>4 DEF ParsePart, ParseMessageKilled, ParseBad, ParseReturns, Parsing,
       clientVars, loopVars
  <1>5. CASE ParseMessage
    BY <1>5, ParseMessageMask
  <1>6. CASE WriteReady
    BY <1>6, WriteReadyMask
  <1>7. CASE ParserAfterFree
    BY <1>7 DEF ParserAfterFree
  <1>8. CASE WriteReadyBlocked \/ WriteReadyKilled \/ Peer \/ UNCHANGED vars
    BY <1>8 DEF WriteReadyBlocked, WriteReadyKilled, DispatchWrite, Peer, PeerSend,
       PeerDrain, PeerShutdown, PeerClose, vars, clientVars, loopVars
  <1> QED BY <1>2, <1>3, <1>4, <1>5, <1>6, <1>7, <1>8 DEF Next, Server

\* A function on one client is told by its value.
LEMMA OneClient ==
    /\ \A f, g : [c \in {"client"} |-> f]["client"] = f
    /\ \A f, g : [[c \in {"client"} |-> f] EXCEPT !["client"] = g] = [c \in {"client"} |-> g]
    /\ \A f : [c \in {"client"} |-> f] = [c \in {"client"} |-> {}] <=> f = {}
  <1>1. \A f : [c \in {"client"} |-> f] = [c \in {"client"} |-> {}] => f = {}
    <2> SUFFICES ASSUME NEW f, [c \in {"client"} |-> f] = [c \in {"client"} |-> {}]
                 PROVE  f = {}
      OBVIOUS
    <2>1. [c \in {"client"} |-> f]["client"] = f
      OBVIOUS
    <2>2. [c \in {"client"} |-> {}]["client"] = {}
      OBVIOUS
    <2> QED BY <2>1, <2>2
  <1>2. \A f, g : [[c \in {"client"} |-> f] EXCEPT !["client"] = g] = [c \in {"client"} |-> g]
    OBVIOUS
  <1> QED BY <1>1, <1>2

\* A client that is not in memory is registered for nothing.
LEMMA LiveOrUnwatched ==
    ASSUME ConnectionInvariant
    PROVE  client = "live" \/ (client = "freed" /\ mask = {})
  <1>1. client \in {"live", "freed"}
    BY DEF ConnectionInvariant, TypeOK
  <1>2. client = "freed" => mask = {}
    BY DEF ConnectionInvariant
  <1> QED BY <1>1, <1>2

\* Every step of the loop is one of ClientEvents, or one it does not see.
LEMMA LoopStepSeen ==
    ASSUME ConnectionInvariant, ClientServed,
           \/ Poll \/ DispatchRead \/ DispatchDone \/ ReadWouldBlock
           \/ WriteReadyBlocked
    PROVE  [Events!Next]_(Events!vars)
  <1>1. client = "live" \/ (client = "freed" /\ mask = {})
    BY LiveOrUnwatched
  <1> USE OneClient DEF Events!vars, Events!Next
  <1>2. CASE Poll
    <2>1. /\ pc = "poll" /\ pc' = "events" /\ client' = client /\ mask' = mask
          /\ fired = {} /\ fired' \in SUBSET Events!Event /\ "R" \in mask
      BY <1>2 DEF Poll, Ready, Event, Events!Event, clientVars, ClientServed
    <2>2. [c \in {"client"} |-> fired'] \in [{"client"} -> SUBSET Events!Event]
      BY <2>1
    <2>3. Events!Report
      BY <2>1, <2>2 DEF Events!Report, Events!Nothing
    <2> QED BY <2>3
  <1>3. CASE DispatchRead
    <2>1. /\ pc = "events" /\ pc' = "read" /\ client' = client /\ mask' = mask
          /\ fired' = fired \ {"R"} /\ "R" \in fired \cap mask
      BY <1>3 DEF DispatchRead, clientVars
    <2>2. Events!CallRead("client")
      BY <2>1 DEF Events!CallRead, Events!Wanted
    <2> QED BY <2>2
  <1>4. CASE DispatchDone
    <2>1. /\ pc = "events" /\ pc' = "poll" /\ client' = client /\ mask' = mask
          /\ fired' = {} /\ fired \ fired = {} /\ fired \in SUBSET (fired \ mask)
      BY <1>4 DEF DispatchDone, clientVars
    <2>2. Events!PassOver("client")
      BY <2>1 DEF Events!PassOver
    <2> QED BY <2>2
  <1>5. CASE ReadWouldBlock
    <2>1. /\ pc = "read" /\ pc' = "events" /\ client' = client /\ mask' = mask
          /\ fired' = fired
      BY <1>5 DEF ReadWouldBlock, clientVars
    <2>2. Events!Return
      BY <2>1 DEF Events!Return
    <2> QED BY <2>2
  <1>6. CASE WriteReadyBlocked
    <2>1. /\ pc = "events" /\ pc' = "poll" /\ client' = client /\ mask' = mask
          /\ fired' = {} /\ "W" \in fired \cap mask /\ "R" \notin fired \cap mask
          /\ client = "live" /\ mask \ {} = mask
      BY <1>1, <1>6 DEF WriteReadyBlocked, DispatchWrite, clientVars
    <2>2. Events!WriteAtOnce("client")
      BY <2>1 DEF Events!WriteAtOnce, Events!MayWrite, Events!Wanted
    <2> QED BY <2>2
  <1> QED BY <1>2, <1>3, <1>4, <1>5, <1>6

\* Every step of a handler is one of ClientEvents, or one it does not see.
LEMMA HandlerStepSeen ==
    ASSUME ConnectionInvariant, ClientServed,
           \/ ReadEnded \/ ParseFailed \/ ParseMessage \/ ParserAfterFree
           \/ WriteReady \/ WriteReadyFails
    PROVE  [Events!Next]_(Events!vars)
  <1>1. client = "live" \/ (client = "freed" /\ mask = {})
    BY LiveOrUnwatched
  <1> USE OneClient DEF Events!vars, Events!Next
  <1>2. CASE ReadEnded \/ ParseFailed
    <2>1. /\ pc \in {"read", "parse"} /\ pc' = "events" /\ client = "live"
          /\ client' = "freed" /\ mask' = {} /\ fired' = fired
      BY <1>2 DEF ReadEnded, ParseFailed, Parsing, FreeClient, ClientServed
    <2>2. Events!Free("client")
      BY <2>1 DEF Events!Free, Events!InHandler, Events!Handler, Events!Gone
    <2> QED BY <2>2
  <1>3. CASE ParseMessage
    <2>1. /\ client = "live" /\ pc = "parse" /\ pc' = pc /\ fired' = fired
          /\ "R" \in mask
          /\ \/ client' = "live" /\ mask' \in {mask, mask \cup {"W"}}
             \/ client' = "freed" /\ mask' = {}
      BY <1>3, ParseMessageMask DEF ClientServed
    <2>2. CASE client' = "live" /\ mask' = mask
      BY <2>1, <2>2
    <2>3. CASE client' = "live" /\ mask' = mask \cup {"W"}
      <3>1. Events!Watch("client")
        BY <2>1, <2>3 DEF Events!Watch, Events!InHandler
      <3> QED BY <3>1
    <2>4. CASE client' = "freed" /\ mask' = {}
      <3>1. Events!Free("client")
        BY <2>1, <2>4 DEF Events!Free, Events!InHandler, Events!Handler, Events!Gone
      <3> QED BY <3>1
    <2> QED BY <2>1, <2>2, <2>3, <2>4
  <1>4. CASE ParserAfterFree
    <2>1. /\ pc = "parse" /\ client' = client /\ mask' = mask /\ fired' = fired
          /\ pc' = pc \/ pc' = "events"
      BY <1>4 DEF ParserAfterFree
    <2>2. CASE pc' = "events"
      <3>1. Events!Return
        BY <2>1, <2>2 DEF Events!Return
      <3> QED BY <3>1
    <2> QED BY <2>1, <2>2
  <1>5. ASSUME client = "live", DispatchWrite, pc' = "poll", fired' = {},
               \/ client' = "live" /\ mask' \in {mask, mask \ {"W"}}
               \/ client' = "freed" /\ mask' = {}
        PROVE  Events!WriteAtOnce("client")
    <2>1. pc = "events" /\ "W" \in fired \cap mask /\ "R" \notin fired \cap mask
      BY <1>5 DEF DispatchWrite
    <2>2. Events!MayWrite("client") /\ pc' \notin {"read", "parse"}
      BY <1>5, <2>1 DEF Events!MayWrite, Events!Wanted
    <2>3. CASE client' = "live" /\ mask' \in {mask, mask \ {"W"}}
      <3>1. \E evs \in SUBSET {"W"} : mask' = mask \ evs
        BY <2>3
      <3> QED BY <1>5, <2>1, <2>2, <2>3, <3>1 DEF Events!WriteAtOnce
    <2>4. CASE client' = "freed" /\ mask' = {}
      BY <1>5, <2>1, <2>2, <2>4 DEF Events!WriteAtOnce, Events!Gone
    <2> QED BY <1>5, <2>3, <2>4
  <1>6. CASE WriteReady
    BY <1>5, <1>6, WriteReadyMask
  <1>7. CASE WriteReadyFails
    BY <1>1, <1>5, <1>7 DEF WriteReadyFails, DispatchWrite, FreeClient
  <1> QED BY <1>2, <1>3, <1>4, <1>6, <1>7

\* A connection is a client as ClientEvents describes them: its handlers are
\* called one at a time, for what was reported and is registered, and what they
\* register and withdraw is what HttpServer lets a client do.
THEOREM ConnectionIsAClient == Spec => ImplementsClientEvents
  <1>1. Init => ClientServed
    BY DEF Init, ClientServed
  <1>2. Spec => []ClientServed
    BY <1>1, ServedStep, Invariant, PTL DEF Spec
  <1>3. Init => Events!Init
    BY OneClient DEF Init, Events!Init, Events!Nothing
  <1>4. ConnectionInvariant /\ ClientServed /\ [Next]_vars => [Events!Next]_(Events!vars)
    <2> SUFFICES ASSUME ConnectionInvariant, ClientServed, [Next]_vars
                 PROVE  [Events!Next]_(Events!vars)
      OBVIOUS
    <2>1. CASE \/ ReadData \/ ParsePart \/ ParseMessageKilled \/ ParseBad \/ ParseReturns
               \/ WriteReadyKilled \/ Peer \/ UNCHANGED vars
      <3>1. /\ client' = client /\ mask' = mask /\ fired' = fired
            /\ pc' = pc \/ (pc \in {"read", "parse"} /\ pc' \in {"read", "parse"})
        BY <2>1 DEF ReadData, ParsePart, ParseMessageKilled, ParseBad, ParseReturns,
           Parsing, WriteReadyKilled, Peer, PeerSend, PeerDrain, PeerShutdown, PeerClose,
           vars, clientVars, loopVars
      <3> QED BY <3>1 DEF Events!vars
    <2> QED BY <2>1, LoopStepSeen, HandlerStepSeen DEF Next, Server
  <1> QED BY Invariant, <1>2, <1>3, <1>4, PTL DEF Spec, Events!Spec, ImplementsClientEvents

\* Both at once: what the connection owes the peer (enqueue_write,
\* on_write_ready) and what it owes the loop (its registrations in ae.c).
THEOREM ConnectionImplements == Spec => Implements
  BY Refinement, ConnectionIsAClient DEF Implements

\* aeProcessEvents starts no handler for the client once free_client has run,
\* however often the dead one is still used by the callers of free_client.
THEOREM NoHandlerForTheFreed == Spec => Events!CallsTheLiving
  BY ConnectionIsAClient, Events!NoCallForTheDead, PTL DEF ImplementsClientEvents
=============================================================================
