----------------------------- MODULE ReplyStream -----------------------------
(***************************************************************************)
(* What a connection promises its peer, without sockets, buffers, events   *)
(* or a parser: the server promises replies one after the other and the    *)
(* peer is given an ever longer beginning of what was promised, until the  *)
(* stream ends.  A reply may be promised, delivered in part and the stream *)
(* ended in a single step.  HttpConnection implements it.                  *)
(***************************************************************************)
EXTENDS Integers, SequencesExt

CONSTANT Replies(_)     \* the k-th reply, a non-empty sequence of units

VARIABLES
    count,      \* replies promised
    promised,   \* their units, in order
    delivered,  \* the units the peer has been given
    open        \* the stream has not ended

vars == <<count, promised, delivered, open>>

Init == count = 0 /\ promised = <<>> /\ delivered = <<>> /\ open = TRUE

Promise ==
    /\ count' = count + 1
    /\ promised' = promised \o Replies(count + 1)

Serve ==
    /\ open
    /\ Promise \/ UNCHANGED <<count, promised>>
    /\ IsPrefix(delivered, delivered') /\ IsPrefix(delivered', promised')
    /\ open' \in BOOLEAN

Spec == Init /\ [][Serve]_vars
=============================================================================
