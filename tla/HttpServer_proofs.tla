------------------------- MODULE HttpServer_proofs -------------------------
(* Theorems about HttpServer, for all values of its constants. *)
EXTENDS HttpServer, AeFileEvents_proofs, FiniteSetTheorems

(* Descriptors and their number *)

\* Descriptors are finitely many, and so is every set of them.
LEMMA FdFinite ==
    /\ IsFiniteSet(Fd) /\ Cardinality(Fd) = LastFd + 1
    /\ \A S \in SUBSET Fd : IsFiniteSet(S) /\ Cardinality(S) \in Nat
  <1>1. LastFd \in Nat
    BY DescriptorsAssumption
  <1>2. IsFiniteSet(0 .. LastFd) /\ Cardinality(0 .. LastFd) = LastFd + 1
    BY <1>1, FS_Interval
  <1>3. \A S \in SUBSET Fd : IsFiniteSet(S)
    BY <1>2, FS_Subset DEF Fd
  <1> QED BY <1>2, <1>3, FS_CardinalityType DEF Fd

\* One descriptor more counts one more.
LEMMA CountAdd ==
    ASSUME NEW S \in SUBSET Fd, NEW x \in Fd, x \notin S
    PROVE  Cardinality(S \cup {x}) = Cardinality(S) + 1
  BY FdFinite, FS_AddElement

\* One descriptor less counts one less.
LEMMA CountRemove ==
    ASSUME NEW S \in SUBSET Fd, NEW x \in S
    PROVE  Cardinality(S \ {x}) = Cardinality(S) - 1
  BY FdFinite, FS_RemoveElement

\* What is open besides: never more descriptors than the two sets have.
LEMMA OpenCount ==
    ASSUME NEW S \in SUBSET Fd
    PROVE  /\ Reserved \cup S \in SUBSET Fd
           /\ Cardinality(Reserved \cup S) <= Cardinality(Reserved) + Cardinality(S)
           /\ Cardinality(Reserved) \in Nat /\ Cardinality(S) \in Nat
  <1>1. Reserved \in SUBSET Fd /\ Reserved \cap S \in SUBSET Fd
    BY DescriptorsAssumption
  <1>2. /\ IsFiniteSet(Reserved) /\ IsFiniteSet(S)
        /\ Cardinality(Reserved) \in Nat /\ Cardinality(S) \in Nat
        /\ Cardinality(Reserved \cap S) \in Nat
    BY <1>1, FdFinite
  <1>3. Cardinality(Reserved \cup S) =
            Cardinality(Reserved) + Cardinality(S) - Cardinality(Reserved \cap S)
    BY <1>2, FS_Union
  <1> QED BY <1>1, <1>2, <1>3

\* The lowest free number is at most the number of those in use.
LEMMA LowestFree ==
    ASSUME NEW S \in SUBSET Fd, NEW fd \in Fd, \A d \in 0 .. fd - 1 : d \in S
    PROVE  fd <= Cardinality(S)
  <1>1. fd \in Nat
    BY DescriptorsAssumption DEF Fd
  <1>2. 0 .. fd - 1 \in SUBSET S /\ IsFiniteSet(S) /\ Cardinality(S) \in Nat
    BY FdFinite
  <1>3. Cardinality(0 .. fd - 1) <= Cardinality(S)
    BY <1>2, FS_Subset
  <1>4. Cardinality(0 .. fd - 1) = fd
    BY <1>1, FS_Interval
  <1> QED BY <1>3, <1>4

\* The server starts with the invariant.
LEMMA ServerInitEstablishes == ServerInit => ServerInvariant
  <1> SUFFICES ASSUME ServerInit PROVE ServerInvariant
    OBVIOUS
  <1>1. EventsInvariant
    BY InitEstablishes DEF ServerInit
  <1>2. ServerTypeOK
    <2>1. ServerFd \in Fd /\ MaxBacklog \in Nat
      BY ServerAssumption, DescriptorsAssumption
    <2>2. twice \in BOOLEAN
      BY DEF ServerInit
    <2> QED BY <2>1, <2>2 DEF ServerInit, ServerTypeOK, Doing
  <1>5. NoFdLeak
    BY DEF ServerInit, Init, NoFdLeak
  <1>3. CountIsRight
    <2>1. Cardinality({}) = 0
      BY FS_EmptySet
    <2> QED BY <2>1, ServerAssumption DEF ServerInit, CountIsRight
  <1>4. EveryClientHeard /\ HandlerRight
    BY DEF ServerInit, Init, EveryClientHeard, HandlerRight
  <1> QED BY <1>1, <1>2, <1>3, <1>4, <1>5 DEF ServerInvariant

(* Every step of the server is one that AeFileEvents allows, or one it does not
   see. *)

\* Where descriptors come from: the typing facts every proof below needs.
LEMMA Types ==
    ASSUME ServerInvariant
    PROVE  /\ ServerFd \in Reserved /\ Reserved \subseteq Fd /\ ServerFd \in Fd
           /\ cur \in Turn /\ cur.fd \in Fd /\ cfd \in Fd /\ open \subseteq Fd
           /\ clients \subseteq Fd \ Reserved /\ Reserved \subseteq open /\ clients \subseteq open
           /\ mask \in [Fd -> SUBSET Mask]
  BY ServerAssumption, DescriptorsAssumption
  DEF ServerInvariant, EventsInvariant, TypeOK, ServerTypeOK, NoFdLeak, Turn

\* accept() gives the lowest free number: for the loop, a program opens it.
LEMMA AcceptOpens ==
    ASSUME ServerInvariant, Accept
    PROVE  Next
  <1>1. PICK fd \in Fd : Open(fd)
    BY DEF Accept
  <1>2. pc = "handler" /\ cur.fd \in open
    BY Types DEF Accept, Accepting
  <1> QED BY <1>1, <1>2 DEF OpenFd, InProgram, Next, Program

\* What on_accept refuses it closes, never having registered it.
LEMMA RefuseCloses ==
    ASSUME ServerInvariant, Refuse
    PROVE  Next
  <1>1. /\ Close(cfd) /\ pc = "handler" /\ doing = "accepted"
        /\ cfd \in Fd /\ cfd \notin clients \cup Reserved /\ cfd \in fresh
    BY Types DEF Refuse, CloseRefused, Accepting, ServerInvariant, HandlerRight
  <1>2. cfd \in open
    BY <1>1 DEF ServerInvariant, NoFdLeak
  <1>3. mask[cfd] = {}
    BY <1>1, Types DEF ServerInvariant, HandlerRight
  <1> QED BY <1>1, <1>2, <1>3 DEF CloseFd, MayClose, InProgram, Next, Program

\* free_client closes what it has withdrawn first.
LEMMA FreeCloses ==
    ASSUME ServerInvariant, FreeEnds
    PROVE  Next
  <1>1. /\ Close(cur.fd) /\ pc = "handler" /\ cur.fd \in Fd /\ cur.fd \in open
        /\ mask[cur.fd] = {}
    BY Types DEF FreeEnds, Serving, ServerInvariant, HandlerRight
  <1> QED BY <1>1 DEF CloseFd, MayClose, InProgram, Next, Program

\* Every step of the server is one the loop allows a program, or none at all.
LEMMA ServerStepMaps ==
    ASSUME ServerInvariant, [ServerNext]_allVars
    PROVE  [Next]_vars
  <1> USE Types
  <1>1. CASE Listen
    BY <1>1 DEF Listen, Next, Program
  <1>2. CASE Accept
    BY <1>2, AcceptOpens
  <1>3. CASE Refuse
    BY <1>3, RefuseCloses
  <1>4. CASE Admit
    BY <1>4 DEF Admit, Next, Program
  <1>5. CASE FreeEnds
    BY <1>5, FreeCloses
  <1>6. CASE AcceptFails \/ UseAfterFree \/ PeerConnects \/ PeerSends
    BY <1>6 DEF AcceptFails, UseAfterFree, PeerConnects, PeerSends
  <1>7. CASE ReadInput
    BY <1>7 DEF ReadInput, Next, Program
  <1>8. CASE ReadFrees \/ WriteFrees
    <2>1. DeleteFileEvent(cur.fd, {"R", "W"}) /\ {"R", "W"} \in SUBSET Mask
      BY <1>8 DEF ReadFrees, WriteFrees, FreeBegins, WithdrawClient, Mask, Ready
    <2> QED BY <2>1 DEF Next, Program
  <1>9. CASE WrittenOut
    <2>1. DeleteFileEvent(cur.fd, {"W"}) /\ {"W"} \in SUBSET Mask
      BY <1>9 DEF WrittenOut, RemoveWriteWatch, Mask, Ready
    <2> QED BY <2>1 DEF Next, Program
  <1>10. CASE ServerPoll
    BY <1>10 DEF ServerPoll, Poll, Next, Loop
  <1>11. CASE Turns \/ StartHandler \/ EndHandler
    BY <1>11 DEF Turns, StartHandler, EndHandler, Next, Loop
  <1>12. CASE UNCHANGED allVars
    BY <1>12 DEF allVars
  <1> QED BY <1>1, <1>2, <1>3, <1>4, <1>5, <1>6, <1>7, <1>8, <1>9, <1>10, <1>11, <1>12
          DEF ServerNext, Server, Handlers

\* So the loop's own invariant is kept by all of them.
LEMMA EventsStep ==
    ASSUME ServerInvariant, [ServerNext]_allVars
    PROVE  EventsInvariant'
  BY ServerStepMaps, StepKeeps DEF ServerInvariant

(* What each kind of step does to the clients and the handler *)

\* Steps of the loop around the handlers.
LEMMA LoopKeeps ==
    ASSUME ServerInvariant, ServerPoll \/ Turns \/ StartHandler \/ EndHandler
    PROVE  (ServerTypeOK /\ CountIsRight /\ NoFdLeak /\ EveryClientHeard /\ HandlerRight)'
  <1> USE Types
  <1>1. /\ UNCHANGED <<open, mask, clients, active, cfd, deaf, twice, peerVars>>
        /\ doing' \in {"idle", "start"} /\ doing \notin {"setup", "crashed"}
        /\ doing # "accepted" /\ ~Freeing
    BY DEF ServerPoll, Turns, StartHandler, EndHandler, PollGives, TakeEntry, PassOver,
           EventsDone, TimersDone, CallProc, ProcReturns, tableVars, serverVars, Freeing,
           Reading, Writing
  <1>2. /\ ServerTypeOK /\ CountIsRight /\ NoFdLeak /\ EveryClientHeard /\ HandlerRight
    BY DEF ServerInvariant
  <1>3. ServerTypeOK' /\ CountIsRight' /\ NoFdLeak'
    BY <1>1, <1>2 DEF ServerTypeOK, CountIsRight, NoFdLeak, peerVars, Doing
  <1>4. EveryClientHeard'
    BY <1>1, <1>2 DEF EveryClientHeard
  <1>5. CASE StartHandler
    <2>1. pc' = "handler" /\ doing' = "start" /\ cur'.fd = cur.fd /\ Valid(CalledFor)
      BY <1>5 DEF StartHandler, CallProc, Due, CalledFor, Turn
    <2>2. mask[cur.fd] # {}
      BY <2>1 DEF Valid
    <2>3. HandlerRight'
      BY <1>1, <1>2, <2>1, <2>2 DEF HandlerRight
    <2> QED BY <1>3, <1>4, <2>3
  <1>6. CASE ~StartHandler
    <2>1. doing' = "idle" /\ pc' # "handler"
      BY <1>6 DEF ServerPoll, Turns, EndHandler, PollGives, TakeEntry, PassOver,
           EventsDone, TimersDone, ProcReturns, NextStage, serverVars
    <2>2. HandlerRight'
      BY <1>1, <1>2, <2>1 DEF HandlerRight
    <2> QED BY <1>3, <1>4, <2>2
  <1> QED BY <1>5, <1>6

\* main registers the listening socket before there is any client.
LEMMA ListenKeeps ==
    ASSUME ServerInvariant, Listen
    PROVE  (ServerTypeOK /\ CountIsRight /\ NoFdLeak /\ EveryClientHeard /\ HandlerRight)'
  <1> USE Types
  <1>1. /\ doing = "setup" /\ doing' = "idle" /\ pc # "handler"
        /\ open' = open /\ pc' = pc /\ mask' = [mask EXCEPT ![ServerFd] = @ \cup {"R"}]
        /\ UNCHANGED <<clients, active, cfd, deaf, twice, peerVars>>
    BY DEF Listen, CreateFileEvent, loopVars, ServerInvariant, HandlerRight
  <1>2. /\ ServerTypeOK /\ CountIsRight /\ NoFdLeak /\ EveryClientHeard /\ HandlerRight
    BY DEF ServerInvariant
  <1>3. ServerTypeOK' /\ CountIsRight' /\ NoFdLeak'
    BY <1>1, <1>2 DEF ServerTypeOK, CountIsRight, NoFdLeak, peerVars, Doing
  <1>4. EveryClientHeard' /\ HandlerRight'
    BY <1>1, <1>2 DEF EveryClientHeard, HandlerRight, Freeing, Serving
  <1> QED BY <1>3, <1>4

\* Steps that change neither the table nor the clients.
LEMMA OutsideKeeps ==
    ASSUME ServerInvariant,
           AcceptFails \/ UseAfterFree \/ PeerConnects \/ PeerSends \/ UNCHANGED allVars
    PROVE  (ServerTypeOK /\ CountIsRight /\ NoFdLeak /\ EveryClientHeard /\ HandlerRight)'
  <1> USE Types
  <1>1. /\ ServerTypeOK /\ CountIsRight /\ NoFdLeak /\ EveryClientHeard /\ HandlerRight
        /\ Cardinality(clients) \in Nat /\ active \in Nat
    BY FdFinite DEF ServerInvariant, ServerTypeOK
  <1>2. /\ UNCHANGED <<vars, clients, cfd, deaf>>
        /\ waiting' \in 0 .. MaxBacklog /\ input' \subseteq clients
        /\ doing' \in Doing
        /\ \/ doing' = doing
           \/ doing' \in {"done", "crashed"} /\ pc = "handler" /\ doing \in {"start", "inside"}
    <2>1. CASE AcceptFails
      BY <1>1, <2>1 DEF AcceptFails, Accepting, ServerTypeOK, Doing, peerVars
    <2>2. CASE UseAfterFree
      BY <1>1, <2>2 DEF UseAfterFree, Serving, ServerTypeOK, Doing, peerVars
    <2>3. CASE PeerConnects \/ PeerSends \/ UNCHANGED allVars
      BY <1>1, <2>3, ServerAssumption
      DEF PeerConnects, PeerSends, allVars, serverVars, peerVars, ServerTypeOK
    <2> QED BY <2>1, <2>2, <2>3
  <1>3. /\ twice' \in BOOLEAN /\ (twice => twice')
        /\ active' = active \/ (active' = CountDown /\ twice')
    <2>1. CASE AcceptFails \/ PeerConnects \/ PeerSends \/ UNCHANGED allVars
      <3>1. twice' = twice /\ active' = active
        BY <2>1 DEF AcceptFails, PeerConnects, PeerSends, allVars, serverVars
      <3> QED BY <1>1, <3>1, Zenon DEF ServerTypeOK
    <2>2. CASE UseAfterFree
      <3>1. \/ twice' = twice /\ active' = active
            \/ twice' = TRUE /\ active' = CountDown
        BY <2>2 DEF UseAfterFree
      <3> QED BY <1>1, <3>1, Zenon DEF ServerTypeOK
    <2> QED BY <2>1, <2>2
  <1>4. active' \in Nat /\ active' <= active
    BY <1>1, <1>3 DEF CountDown
  <1>5. ServerTypeOK' /\ NoFdLeak'
    BY <1>1, <1>2, <1>3, <1>4 DEF ServerTypeOK, NoFdLeak, vars, tableVars, Doing
  <1>6. CountIsRight'
    <2>1. MaxConcurrency \in Nat
      BY ServerAssumption
    <2> QED BY <1>1, <1>2, <1>3, <1>4, <2>1 DEF CountIsRight
  <1>7. EveryClientHeard' /\ HandlerRight'
    BY <1>1, <1>2, <1>3 DEF EveryClientHeard, HandlerRight, Freeing, Serving,
       vars, tableVars, loopVars, histVars
  <1> QED BY <1>5, <1>6, <1>7

\* on_accept takes a number no client has.
LEMMA AcceptKeeps ==
    ASSUME ServerInvariant, Accept
    PROVE  (ServerTypeOK /\ CountIsRight /\ NoFdLeak /\ EveryClientHeard /\ HandlerRight)'
  <1> USE Types
  <1>1. /\ ServerTypeOK /\ CountIsRight /\ NoFdLeak /\ EveryClientHeard /\ HandlerRight
    BY DEF ServerInvariant
  <1>2. PICK fd \in Fd : /\ fd \notin open /\ cfd' = fd /\ \A d \in 0 .. fd - 1 : d \in open
                         /\ open' = open \cup {fd} /\ fresh' = fresh \cup {fd}
                         /\ UNCHANGED <<mask, pc, cur>>
    BY DEF Accept, Open, Accepting, loopVars
  <1>3. /\ pc = "handler" /\ cur.fd = ServerFd /\ doing = "start" /\ doing' = "accepted"
        /\ waiting > 0 /\ waiting' = waiting - 1
        /\ UNCHANGED <<clients, active, deaf, twice, input>>
    BY DEF Accept, Accepting
  <1>4. ServerTypeOK' /\ CountIsRight'
    BY <1>1, <1>2, <1>3, ServerAssumption DEF ServerTypeOK, CountIsRight, Doing
  <1>5. NoFdLeak' /\ EveryClientHeard'
    BY <1>1, <1>2, <1>3 DEF NoFdLeak, EveryClientHeard, Freeing, Serving
  <1>6. HandlerRight'
    BY <1>1, <1>2, <1>3 DEF HandlerRight
  <1> QED BY <1>4, <1>5, <1>6

\* At the limit the number is given back, and nothing was counted.
LEMMA RefuseKeeps ==
    ASSUME ServerInvariant, Refuse
    PROVE  (ServerTypeOK /\ CountIsRight /\ NoFdLeak /\ EveryClientHeard /\ HandlerRight)'
  <1> USE Types
  <1>1. /\ ServerTypeOK /\ CountIsRight /\ NoFdLeak /\ EveryClientHeard /\ HandlerRight
    BY DEF ServerInvariant
  <1>2. /\ pc = "handler" /\ doing = "accepted" /\ doing' = "done" /\ cfd' = ServerFd
        /\ open' = open \ {cfd} /\ UNCHANGED <<mask, pc, cur>>
        /\ UNCHANGED <<clients, active, deaf, twice, peerVars>>
        /\ cfd \notin clients \cup Reserved
    BY <1>1 DEF Refuse, CloseRefused, Close, Accepting, loopVars, HandlerRight
  <1>3. ServerTypeOK' /\ CountIsRight' /\ NoFdLeak'
    BY <1>1, <1>2 DEF ServerTypeOK, CountIsRight, NoFdLeak, peerVars, Doing
  <1>4. EveryClientHeard' /\ HandlerRight'
    BY <1>1, <1>2 DEF EveryClientHeard, HandlerRight, Freeing, Serving
  <1> QED BY <1>3, <1>4

\* While the count is right, an accepted descriptor fits into the table.
LEMMA AdmittedFits ==
    ASSUME ServerInvariant, doing = "accepted", ~LimitReached, ~twice
    PROVE  cfd < SetSize
  <1>1. /\ CountIsRight /\ NoFdLeak /\ HandlerRight
        /\ clients \in SUBSET Fd /\ cfd \in Fd /\ active \in Nat
    BY Types DEF ServerInvariant, ServerTypeOK
  <1>2. /\ Cardinality(clients) < MaxConcurrency /\ MaxConcurrency \in Nat
        /\ Cardinality(Reserved) + MaxConcurrency <= SetSize /\ SetSize \in Nat
    BY <1>1, ServerAssumption, DescriptorsAssumption DEF CountIsRight, LimitReached
  <1>3. /\ Reserved \cup clients \in SUBSET Fd
        /\ Cardinality(Reserved \cup clients) <= Cardinality(Reserved) + Cardinality(clients)
        /\ Cardinality(Reserved) \in Nat /\ Cardinality(clients) \in Nat
    BY <1>1, OpenCount
  <1>4. cfd \in Nat /\ \A d \in 0 .. cfd - 1 : d # cfd
    BY <1>1, DescriptorsAssumption DEF Fd
  <1>5. \A d \in 0 .. cfd - 1 : d \in Reserved \cup clients
    BY <1>1, <1>4 DEF HandlerRight, NoFdLeak
  <1>6. cfd <= Cardinality(Reserved \cup clients)
    BY <1>1, <1>3, <1>5, LowestFree
  <1>7. Cardinality(Reserved \cup clients) \in Nat
    BY <1>3, FdFinite
  <1> QED BY <1>2, <1>3, <1>4, <1>6, <1>7

\* http_server_accept_connection counts the client it adds, registered or not.
LEMMA AdmitKeeps ==
    ASSUME ServerInvariant, Admit
    PROVE  (ServerTypeOK /\ CountIsRight /\ NoFdLeak /\ EveryClientHeard /\ HandlerRight)'
  <1> USE Types
  <1>1. /\ ServerTypeOK /\ CountIsRight /\ NoFdLeak /\ EveryClientHeard /\ HandlerRight
        /\ KernelAgrees /\ clients \in SUBSET Fd /\ Cardinality(clients) \in Nat
    BY FdFinite DEF ServerInvariant, EventsInvariant
  <1>2. /\ pc = "handler" /\ doing = "accepted" /\ doing' = "done" /\ cfd' = ServerFd
        /\ clients' = clients \cup {cfd} /\ active' = active + 1 /\ ~LimitReached
        /\ UNCHANGED <<open, pc, cur, twice, peerVars>>
        /\ cfd \notin clients \cup Reserved
    BY <1>1 DEF Admit, Accepting, CreateFileEvent, HandlerRight, vars, tableVars, loopVars
  <1>3. \/ mask' = [mask EXCEPT ![cfd] = @ \cup {"R"}] /\ deaf' = deaf
        \/ mask' = mask /\ deaf' = IF cfd < SetSize THEN deaf \cup {cfd} ELSE deaf
    BY <1>1 DEF Admit, CreateFileEvent, KernelAgrees, vars, tableVars
  <1>4. Cardinality(clients') = Cardinality(clients) + 1
    BY <1>1, <1>2, CountAdd
  <1>5. ServerTypeOK'
    BY <1>1, <1>2, <1>3 DEF ServerTypeOK, peerVars, Doing
  <1>6. CountIsRight'
    <2>1. active < MaxConcurrency /\ MaxConcurrency \in Nat /\ active \in Nat
      BY <1>1, <1>2, ServerAssumption DEF LimitReached, ServerTypeOK
    <2> QED BY <1>1, <1>2, <1>4, <2>1 DEF CountIsRight
  <1>7. NoFdLeak'
    BY <1>1, <1>2 DEF NoFdLeak
  <1>8. EveryClientHeard'
    <2>1. ~twice => cfd < SetSize
      BY <1>2, AdmittedFits
    <2>2. ASSUME NEW fd \in clients' \ deaf', ~twice PROVE "R" \in mask'[fd]
      <3>1. CASE fd = cfd
        BY <1>2, <1>3, <2>1, <2>2, <3>1
      <3>2. CASE fd # cfd
        BY <1>1, <1>2, <1>3, <2>2, <3>2 DEF EveryClientHeard, Freeing, ServerTypeOK
      <3> QED BY <3>1, <3>2
    <2> QED BY <1>2, <2>2 DEF EveryClientHeard
  <1>9. HandlerRight'
    BY <1>1, <1>2, <1>3 DEF HandlerRight
  <1> QED BY <1>5, <1>6, <1>7, <1>8, <1>9

\* What the handlers of a client do to it.
LEMMA ServeKeeps ==
    ASSUME ServerInvariant, ReadInput \/ WrittenOut
    PROVE  (ServerTypeOK /\ CountIsRight /\ NoFdLeak /\ EveryClientHeard /\ HandlerRight)'
  <1> USE Types
  <1>1. /\ ServerTypeOK /\ CountIsRight /\ NoFdLeak /\ EveryClientHeard /\ HandlerRight
    BY DEF ServerInvariant
  <1>2. /\ pc = "handler" /\ cur.fd # ServerFd /\ doing = "start" /\ cur.fd \in clients
        /\ UNCHANGED <<open, pc, cur, serverVars, waiting>> /\ input' \subseteq input
        /\ \/ mask' = mask
           \/ mask' = [mask EXCEPT ![cur.fd] = @ \cup {"W"}]
           \/ \E gone \in {{"W"}, {"W", "B"}} : mask' = [mask EXCEPT ![cur.fd] = @ \ gone]
    <2>1. CASE ReadInput
      BY <1>1, <2>1 DEF ReadInput, Reading, Serving, CreateFileEvent, HandlerRight,
         vars, tableVars, loopVars
    <2>2. CASE WrittenOut
      <3>1. DeleteFileEvent(cur.fd, {"W"})
        BY <2>2 DEF WrittenOut, RemoveWriteWatch
      <3>2. mask' = [mask EXCEPT ![cur.fd] = @ \ (({"W"} \cup {"B"}) \cap mask[cur.fd])]
        BY <3>1 DEF DeleteFileEvent, Withdrawn
      <3>3. mask' = [mask EXCEPT ![cur.fd] = @ \ {"W", "B"}]
        BY <3>2
      <3> QED BY <1>1, <2>2, <3>1, <3>3
              DEF WrittenOut, Writing, Serving, DeleteFileEvent, HandlerRight, loopVars, peerVars
    <2> QED BY <2>1, <2>2
  <1>3. \A fd \in Fd : /\ "R" \in mask[fd] => "R" \in mask'[fd]
                       /\ mask'[fd] # {} => fd = cur.fd \/ mask[fd] # {}
    BY <1>2
  <1>4. ServerTypeOK' /\ CountIsRight' /\ NoFdLeak'
    BY <1>1, <1>2 DEF ServerTypeOK, CountIsRight, NoFdLeak, serverVars
  <1>5. EveryClientHeard' /\ HandlerRight'
    BY <1>1, <1>2, <1>3 DEF EveryClientHeard, HandlerRight, Freeing, serverVars
  <1> QED BY <1>4, <1>5

\* free_client withdraws the client, of which it alone knows until it closes it.
LEMMA FreeBeginsKeeps ==
    ASSUME ServerInvariant, ReadFrees \/ WriteFrees
    PROVE  (ServerTypeOK /\ CountIsRight /\ NoFdLeak /\ EveryClientHeard /\ HandlerRight)'
  <1> USE Types
  <1>1. /\ ServerTypeOK /\ CountIsRight /\ NoFdLeak /\ EveryClientHeard /\ HandlerRight
    BY DEF ServerInvariant
  <1>2. /\ Serving /\ doing = "start" /\ cur.fd \in clients
        /\ doing' \in {"closing", "closingInside"} /\ WithdrawClient
        /\ UNCHANGED <<clients, active, cfd, deaf, twice, peerVars>>
    BY <1>1 DEF ReadFrees, WriteFrees, FreeBegins, Reading, Writing, Serving, HandlerRight
  <1>3. /\ UNCHANGED <<open, pc, cur>>
        /\ mask' = [mask EXCEPT ![cur.fd] = @ \ (({"R", "W"} \cup {"B"}) \cap mask[cur.fd])]
    BY <1>2 DEF WithdrawClient, DeleteFileEvent, Withdrawn, loopVars
  <1>4. mask[cur.fd] \subseteq {"R", "W", "B"}
    BY DEF Mask, Ready
  <1>5. mask' = [mask EXCEPT ![cur.fd] = {}]
    BY <1>3, <1>4
  <1>6. ServerTypeOK' /\ CountIsRight' /\ NoFdLeak'
    BY <1>1, <1>2, <1>3 DEF ServerTypeOK, CountIsRight, NoFdLeak, peerVars, Doing
  <1>7. EveryClientHeard'
    BY <1>1, <1>2, <1>3, <1>5 DEF EveryClientHeard, Freeing, Serving
  <1>8. HandlerRight'
    BY <1>1, <1>2, <1>3, <1>5 DEF HandlerRight, Serving
  <1> QED BY <1>6, <1>7, <1>8

\* free_client closes, forgets and counts down one and the same client.
LEMMA FreeEndsKeeps ==
    ASSUME ServerInvariant, FreeEnds
    PROVE  (ServerTypeOK /\ CountIsRight /\ NoFdLeak /\ EveryClientHeard /\ HandlerRight)'
  <1> USE Types
  <1>1. /\ ServerTypeOK /\ CountIsRight /\ NoFdLeak /\ EveryClientHeard /\ HandlerRight
        /\ clients \in SUBSET Fd /\ Cardinality(clients) \in Nat
    BY FdFinite DEF ServerInvariant
  <1>2. /\ pc = "handler" /\ doing \in {"closing", "closingInside"} /\ cur.fd \in clients
        /\ doing' \in {"done", "inside"} /\ mask[cur.fd] = {}
        /\ clients' = clients \ {cur.fd} /\ deaf' = deaf \ {cur.fd}
        /\ input' = input \ {cur.fd} /\ active' = CountDown
        /\ open' = open \ {cur.fd} /\ UNCHANGED <<mask, pc, cur, cfd, twice, waiting>>
    BY <1>1 DEF FreeEnds, Close, Serving, HandlerRight, loopVars
  <1>3. Cardinality(clients') = Cardinality(clients) - 1 /\ Cardinality(clients') \in Nat
    BY <1>1, <1>2, CountRemove, FdFinite
  <1>4. ServerTypeOK'
    BY <1>1, <1>2 DEF ServerTypeOK, CountDown, Doing
  <1>5. CountIsRight'
    <2>1. active \in Nat /\ MaxConcurrency \in Nat
      BY <1>1, ServerAssumption DEF ServerTypeOK
    <2> QED BY <1>1, <1>2, <1>3, <2>1 DEF CountIsRight, CountDown
  <1>6. NoFdLeak'
    BY <1>1, <1>2 DEF NoFdLeak
  <1>7. EveryClientHeard'
    BY <1>1, <1>2 DEF EveryClientHeard, Freeing
  <1>8. HandlerRight'
    BY <1>1, <1>2 DEF HandlerRight
  <1> QED BY <1>4, <1>5, <1>6, <1>7, <1>8

\* The server's invariant is inductive.
LEMMA ServerStepKeeps == ServerInvariant /\ [ServerNext]_allVars => ServerInvariant'
  <1> SUFFICES ASSUME ServerInvariant, [ServerNext]_allVars PROVE ServerInvariant'
    OBVIOUS
  <1>1. EventsInvariant'
    BY EventsStep
  <1>2. (ServerTypeOK /\ CountIsRight /\ NoFdLeak /\ EveryClientHeard /\ HandlerRight)'
    BY LoopKeeps, ListenKeeps, OutsideKeeps, AcceptKeeps, RefuseKeeps, AdmitKeeps,
       ServeKeeps, FreeBeginsKeeps, FreeEndsKeeps DEF ServerNext, Server, Handlers
  <1> QED BY <1>1, <1>2 DEF ServerInvariant

\* The inductive invariant of the server, for any limit, any descriptors open
\* from the start and any limit of the process.
THEOREM ServerInvariance == ServerSpec => []ServerInvariant
  BY ServerInitEstablishes, ServerStepKeeps, PTL DEF ServerSpec

\* The server keeps its types; the count does not go below zero.
THEOREM ServerTypeCorrect == ServerSpec => []ServerTypeOK
  <1>1. ServerInvariant => ServerTypeOK
    BY DEF ServerInvariant
  <1> QED BY <1>1, ServerInvariance, PTL

\* active_connections counts the clients, and never too many.
THEOREM CountStaysRight == ServerSpec => []CountIsRight
  <1>1. ServerInvariant => CountIsRight
    BY DEF ServerInvariant
  <1> QED BY <1>1, ServerInvariance, PTL

\* No descriptor is lost.
THEOREM NoDescriptorLeaks == ServerSpec => []NoFdLeak
  <1>1. ServerInvariant => NoFdLeak
    BY DEF ServerInvariant
  <1> QED BY <1>1, ServerInvariance, PTL

\* Every client is listened to, unless the poller refused it: its descriptor fits
\* into the table.
THEOREM ClientsAreHeard == ServerSpec => []EveryClientHeard
  <1>1. ServerInvariant => EveryClientHeard
    BY DEF ServerInvariant
  <1> QED BY <1>1, ServerInvariance, PTL

\* While no client is freed twice and the process may have one descriptor more
\* than it keeps, on_accept finds one: the loop does not spin.
THEOREM AcceptFindsDescriptor ==
    ASSUME Cardinality(Reserved) + MaxConcurrency <= LastFd
    PROVE  ServerSpec => [](Accepting /\ doing = "start" /\ ~twice => open # Fd)
  <1>1. ASSUME ServerInvariant, doing = "start", ~twice PROVE open # Fd
    <2>1. CountIsRight /\ NoFdLeak /\ clients \in SUBSET Fd /\ active \in Nat
      BY <1>1, Types DEF ServerInvariant, ServerTypeOK
    <2>2. open = Reserved \cup clients /\ Cardinality(clients) <= MaxConcurrency
      BY <1>1, <2>1 DEF NoFdLeak, CountIsRight
    <2>3. /\ Cardinality(open) <= Cardinality(Reserved) + Cardinality(clients)
          /\ Cardinality(Reserved) \in Nat /\ Cardinality(clients) \in Nat
          /\ Cardinality(open) \in Nat
      BY <2>1, <2>2, OpenCount, FdFinite
    <2>4. Cardinality(Fd) = LastFd + 1 /\ LastFd \in Nat /\ MaxConcurrency \in Nat
      BY FdFinite, DescriptorsAssumption, ServerAssumption
    <2>5. Cardinality(open) # Cardinality(Fd)
      BY <2>2, <2>3, <2>4
    <2> QED BY <2>5
  <1>2. ServerInvariant => (Accepting /\ doing = "start" /\ ~twice => open # Fd)
    BY <1>1
  <1> QED BY <1>2, ServerInvariance, PTL

\* The server keeps the rules of the loop: it implements AeFileEvents.
THEOREM ServerImplementsLoop == ServerSpec => ImplementsLoop
  <1>1. ServerInit => Init
    BY DEF ServerInit
  <1>2. ServerInvariant /\ [ServerNext]_allVars => [Next]_vars
    BY ServerStepMaps
  <1>3. ServerSpec => Spec
    BY <1>1, <1>2, ServerInvariance, PTL DEF ServerSpec, Spec
  <1> QED BY <1>3 DEF ImplementsLoop

\* No event of a client that is gone reaches the next one with its descriptor.
THEOREM NoStaleEventForClients == ServerSpec => NoStaleEvent
  BY ServerImplementsLoop, NoStaleEvents DEF ImplementsLoop

(* Every client of the server is one of ClientEvents. *)

\* Nothing is registered behind a barrier, and whoever is read from is
\* registered for it, whatever the server does.
LEMMA ReadersStep ==
    ServerInvariant /\ ReadersRight /\ [ServerNext]_allVars => ReadersRight'
  <1> SUFFICES ASSUME ServerInvariant, ReadersRight, [ServerNext]_allVars
               PROVE  ReadersRight'
    OBVIOUS
  <1> USE Types DEF ReadersRight
  <1>1. ASSUME NEW fd \in Fd, CreateFileEvent(fd, {"R"}) \/ CreateFileEvent(fd, {"W"})
        PROVE  /\ UNCHANGED <<pc, cur>>
               /\ \A d \in Fd : "B" \notin mask'[d] /\ ("R" \in mask[d] => "R" \in mask'[d])
    BY <1>1 DEF CreateFileEvent, loopVars
  <1>2. ASSUME NEW evs, DeleteFileEvent(cur.fd, evs)
        PROVE  UNCHANGED <<pc, cur>> /\ \A d \in Fd : "B" \notin mask'[d]
    BY <1>2 DEF DeleteFileEvent, loopVars
  <1>3. CASE Listen
    BY <1>1, <1>3 DEF Listen, Serving, ServerInvariant, HandlerRight
  <1>4. CASE Accept \/ AcceptFails \/ Refuse \/ FreeEnds \/ UseAfterFree
    BY <1>4 DEF Accept, AcceptFails, Refuse, CloseRefused, FreeEnds, UseAfterFree, Open, Close,
       Serving, vars, tableVars, loopVars
  <1>5. CASE Admit
    BY <1>1, <1>5 DEF Admit, Serving, vars, tableVars, loopVars
  <1>6. CASE ReadInput
    BY <1>1, <1>6 DEF ReadInput, Serving, serverVars, vars, tableVars, loopVars
  <1>7. CASE ReadFrees \/ WriteFrees
    BY <1>2, <1>7 DEF ReadFrees, WriteFrees, FreeBegins, WithdrawClient
  <1>8. CASE WrittenOut
    BY <1>2, <1>8 DEF WrittenOut, RemoveWriteWatch, Writing
  <1>9. CASE ServerPoll \/ PeerConnects \/ PeerSends \/ UNCHANGED allVars
    BY <1>9 DEF ServerPoll, PollGives, PeerConnects, PeerSends, Serving, allVars,
       serverVars, vars, tableVars, loopVars
  <1>10. CASE Turns
    <2>1. mask' = mask /\ doing' # "start"
      BY <1>10 DEF Turns, TakeEntry, PassOver, EventsDone, TimersDone, serverVars, tableVars
    <2>2. CASE TakeEntry
      <3>1. PICK e \in fired : cur' = [fd |-> e.fd, got |-> e.got, invert |-> "B" \in mask[e.fd],
                                      called |-> {}, stage |-> "read"]
        BY <2>2 DEF TakeEntry
      <3>2. e.fd \in Fd
        BY DEF ServerInvariant, EventsInvariant, TypeOK, Entry
      <3> QED BY <2>1, <3>1, <3>2
    <2>3. CASE PassOver
      BY <2>1, <2>3 DEF PassOver, NextStage, Turn
    <2>4. CASE EventsDone \/ TimersDone
      BY <2>1, <2>4 DEF EventsDone, TimersDone
    <2> QED BY <1>10, <2>2, <2>3, <2>4 DEF Turns
  <1>11. CASE StartHandler
    <2>1. /\ pc = "dispatch" /\ Due /\ mask' = mask
          /\ cur' = [cur EXCEPT !.called = @ \cup {CalledFor}]
      BY <1>11 DEF StartHandler, CallProc, tableVars
    <2>2. cur.stage = "read" => "R" \in mask[cur.fd]
      BY <2>1 DEF Due, Valid
    <2> QED BY <2>1, <2>2 DEF Turn
  <1>12. CASE EndHandler
    BY <1>12 DEF EndHandler, ProcReturns, NextStage, Serving, tableVars, Turn, NoTurn
  <1> QED BY <1>3, <1>4, <1>5, <1>6, <1>7, <1>8, <1>9, <1>10, <1>11, <1>12
          DEF ServerNext, Server, Handlers

\* The views change where the state does.
LEMMA ViewsAt ==
    ASSUME NEW c \in ClientFd
    PROVE  /\ \A X : (\A fd \in ClientFd : mask'[fd] = IF fd = c THEN X ELSE mask[fd])
                        => Masks' = [Masks EXCEPT ![c] = X]
           /\ \A X : (\A fd \in ClientFd : DueTo(fd)' = IF fd = c THEN X ELSE DueTo(fd))
                        => Dues' = [Dues EXCEPT ![c] = X]
           /\ Masks[c] = mask[c] /\ Dues[c] = DueTo(c)
  BY DEF Masks, Dues

\* Seen from the clients: what does not change for any of them does not change.
LEMMA ViewsStay ==
    /\ (\A fd \in ClientFd : mask'[fd] = mask[fd]) => Masks' = Masks
    /\ (\A fd \in ClientFd : DueTo(fd)' = DueTo(fd)) => Dues' = Dues
  BY DEF Masks, Dues

\* What is reported and whose turn it is depends on the loop alone.
LEMMA LoopViewsStay ==
    ASSUME UNCHANGED <<pc, cur, fired>>
    PROVE  Dues' = Dues /\ TurnOf' = TurnOf
  BY DEF Dues, DueTo, InHand, Listed, TurnOf

\* No entry in fired[] has the descriptor of the entry in hand.
LEMMA HandAlone ==
    ASSUME ServerInvariant, pc \in {"dispatch", "handler"}
    PROVE  Listed(cur.fd) = {} /\ cur.got \subseteq Ready
  BY DEF ServerInvariant, EventsInvariant, TypeOK, Turn, TurnRight, Listed

\* The steps before, between and around the clients' handlers.
LEMMA AcceptSeen ==
    ASSUME ServerInvariant, ReadersRight,
           Listen \/ Accept \/ AcceptFails \/ Refuse \/ Admit \/ PeerConnects \/ PeerSends
    PROVE  [Events!Next]_(Events!vars)
  <1> USE Types DEF Events!vars, Events!Next
  <1>1. CASE Listen
    <2>1. UNCHANGED <<pc, cur, fired, clients>> /\ mask' = [mask EXCEPT ![ServerFd] = @ \cup {"R"}]
      BY <1>1 DEF Listen, CreateFileEvent, loopVars
    <2>2. \A fd \in ClientFd : mask'[fd] = mask[fd]
      BY <2>1 DEF ClientFd
    <2> QED BY <2>1, <2>2, ViewsStay, LoopViewsStay
  <1>2. CASE Accept \/ AcceptFails \/ Refuse \/ PeerConnects \/ PeerSends
    <2>1. UNCHANGED <<pc, cur, fired, clients, mask>>
      BY <1>2 DEF Accept, AcceptFails, Refuse, CloseRefused, PeerConnects, PeerSends, Open, Close,
         serverVars, vars, tableVars, loopVars
    <2> QED BY <2>1, ViewsStay, LoopViewsStay
  <1>3. CASE Admit
    <2>1. /\ pc = "handler" /\ cur.fd = ServerFd /\ doing = "accepted"
          /\ clients' = clients \cup {cfd} /\ UNCHANGED <<pc, cur, fired>>
          /\ mask' = mask \/ mask' = [mask EXCEPT ![cfd] = @ \cup {"R"}]
      BY <1>3 DEF Admit, Accepting, CreateFileEvent, vars, tableVars, loopVars
    <2>2. /\ cfd \notin clients \cup Reserved /\ cfd \in fresh /\ mask[cfd] = {}
      BY <2>1 DEF ServerInvariant, HandlerRight
    <2>3. cfd \in ClientFd /\ TurnOf = <<>>
      BY <2>1, <2>2 DEF ClientFd, TurnOf
    <2>4. DueTo(cfd) = {}
      BY <2>1, <2>2 DEF DueTo, InHand, Listed, ServerInvariant, EventsInvariant, EntriesRight
    <2>5. Dues[cfd] = {} /\ Dues' = Dues /\ TurnOf' = TurnOf
      BY <2>1, <2>3, <2>4, ViewsAt, LoopViewsStay
    <2>6. Masks' = [Masks EXCEPT ![cfd] = {}] \/ Masks' = [Masks EXCEPT ![cfd] = {"R"}]
      <3>1. CASE mask' = mask
        BY <2>2, <2>3, <3>1, ViewsAt
      <3>2. CASE mask' = [mask EXCEPT ![cfd] = @ \cup {"R"}]
        <4>1. \A fd \in ClientFd : mask'[fd] = IF fd = cfd THEN {"R"} ELSE mask[fd]
          BY <2>2, <3>2 DEF ClientFd
        <4> QED BY <2>3, <4>1, ViewsAt
      <3> QED BY <2>1, <3>1, <3>2
    <2>7. Events!Accept(cfd)
      BY <2>1, <2>2, <2>3, <2>5, <2>6 DEF Events!Accept
    <2> QED BY <2>3, <2>7
  <1> QED BY <1>1, <1>2, <1>3

\* The steps of a client's handlers.
LEMMA HandlersSeen ==
    ASSUME ServerInvariant, ReadersRight,
           ReadInput \/ ReadFrees \/ WrittenOut \/ WriteFrees \/ FreeEnds \/ UseAfterFree
    PROVE  [Events!Next]_(Events!vars)
  <1> USE Types DEF Events!vars, Events!Next
  <1>1. CASE UseAfterFree
    <2>1. UNCHANGED <<pc, cur, fired, clients, mask>>
      BY <1>1 DEF UseAfterFree, vars, tableVars, loopVars
    <2> QED BY <2>1, ViewsStay, LoopViewsStay
  <1>2. ASSUME Serving, cur.fd \in clients
        PROVE  /\ cur.fd \in ClientFd /\ Masks[cur.fd] = mask[cur.fd]
               /\ cur.stage = "write" => TurnOf = <<cur.fd, "write">>
               /\ cur.stage # "write" => TurnOf = <<cur.fd, "read">>
               /\ \E h \in Events!Handler : TurnOf = <<cur.fd, h>>
    <2>1. cur.fd \in ClientFd /\ pc = "handler"
      BY <1>2 DEF Serving, ClientFd
    <2>2. Masks[cur.fd] = mask[cur.fd]
      BY <2>1, ViewsAt
    <2> QED BY <2>1, <2>2 DEF TurnOf, Events!Handler
  <1>3. CASE ReadInput
    <2>1. /\ Serving /\ cur.stage = "read" /\ doing = "start" /\ clients' = clients
          /\ UNCHANGED <<pc, cur, fired>>
          /\ mask' = mask \/ mask' = [mask EXCEPT ![cur.fd] = @ \cup {"W"}]
      BY <1>3 DEF ReadInput, Reading, CreateFileEvent, serverVars, vars, tableVars, loopVars
    <2>2. cur.fd \in clients /\ "R" \in mask[cur.fd]
      BY <2>1 DEF Serving, ServerInvariant, HandlerRight, ReadersRight
    <2>3. Dues' = Dues /\ TurnOf' = TurnOf
      BY <2>1, LoopViewsStay
    <2>4. CASE mask' = mask
      BY <2>1, <2>3, <2>4, ViewsStay
    <2>5. CASE mask' = [mask EXCEPT ![cur.fd] = @ \cup {"W"}]
      <3>1. \A fd \in ClientFd : mask'[fd] = IF fd = cur.fd THEN mask[cur.fd] \cup {"W"} ELSE mask[fd]
        BY <2>5 DEF ClientFd
      <3>2. cur.fd \in ClientFd /\ Masks' = [Masks EXCEPT ![cur.fd] = mask[cur.fd] \cup {"W"}]
        BY <1>2, <2>1, <2>2, <3>1, ViewsAt
      <3>3. Events!Watch(cur.fd)
        BY <1>2, <2>1, <2>2, <2>3, <3>2 DEF Events!Watch, Events!InHandler
      <3> QED BY <3>2, <3>3
    <2> QED BY <2>1, <2>4, <2>5
  <1>4. CASE ReadFrees \/ WriteFrees
    <2>1. /\ Serving /\ doing = "start" /\ clients' = clients
          /\ DeleteFileEvent(cur.fd, {"R", "W"})
      BY <1>4 DEF ReadFrees, WriteFrees, Reading, Writing, FreeBegins, WithdrawClient
    <2>2. cur.fd \in clients
      BY <2>1 DEF Serving, ServerInvariant, HandlerRight
    <2>3. /\ UNCHANGED <<pc, cur, fired>>
          /\ mask' = [mask EXCEPT ![cur.fd] = @ \ (({"R", "W"} \cup {"B"}) \cap mask[cur.fd])]
      BY <2>1 DEF DeleteFileEvent, Withdrawn, loopVars
    <2>4. mask[cur.fd] \subseteq {"R", "W", "B"}
      BY DEF Mask, Ready
    <2>5. \A fd \in ClientFd : mask'[fd] = IF fd = cur.fd THEN {} ELSE mask[fd]
      BY <2>3, <2>4 DEF ClientFd
    <2>6. Masks' = [Masks EXCEPT ![cur.fd] = {}] /\ Dues' = Dues /\ TurnOf' = TurnOf
      BY <1>2, <2>1, <2>2, <2>3, <2>5, ViewsAt, LoopViewsStay
    <2>7. Events!Withdraw(cur.fd)
      BY <1>2, <2>1, <2>2, <2>6 DEF Events!Withdraw, Events!InHandler
    <2> QED BY <1>2, <2>1, <2>2, <2>7
  <1>5. CASE WrittenOut
    <2>1. /\ Serving /\ cur.stage = "write" /\ doing = "start" /\ clients' = clients
          /\ DeleteFileEvent(cur.fd, {"W"})
      BY <1>5 DEF WrittenOut, RemoveWriteWatch, Writing, serverVars
    <2>2. cur.fd \in clients
      BY <2>1 DEF Serving, ServerInvariant, HandlerRight
    <2>3. /\ UNCHANGED <<pc, cur, fired>>
          /\ mask' = [mask EXCEPT ![cur.fd] = @ \ (({"W"} \cup {"B"}) \cap mask[cur.fd])]
      BY <2>1 DEF DeleteFileEvent, Withdrawn, loopVars
    <2>4. "B" \notin mask[cur.fd]
      BY DEF ReadersRight
    <2>5. \A fd \in ClientFd : mask'[fd] = IF fd = cur.fd THEN mask[cur.fd] \ {"W"} ELSE mask[fd]
      BY <2>3, <2>4 DEF ClientFd
    <2>6. /\ Masks' = [Masks EXCEPT ![cur.fd] = mask[cur.fd] \ {"W"}]
          /\ Dues' = Dues /\ TurnOf' = TurnOf
      BY <1>2, <2>1, <2>2, <2>3, <2>5, ViewsAt, LoopViewsStay
    <2>7. Events!Unwatch(cur.fd)
      BY <1>2, <2>1, <2>2, <2>6 DEF Events!Unwatch, Events!InHandler
    <2> QED BY <1>2, <2>1, <2>2, <2>7
  <1>6. CASE FreeEnds
    <2>1. /\ Serving /\ cur.fd \in clients /\ mask[cur.fd] = {}
          /\ clients' = clients \ {cur.fd} /\ UNCHANGED <<pc, cur, fired, mask>>
      BY <1>6 DEF FreeEnds, Close, Serving, ServerInvariant, HandlerRight, loopVars
    <2>2. \A fd \in ClientFd : mask'[fd] = IF fd = cur.fd THEN {} ELSE mask[fd]
      BY <2>1
    <2>3. Masks' = [Masks EXCEPT ![cur.fd] = {}] /\ Dues' = Dues /\ TurnOf' = TurnOf
      BY <1>2, <2>1, <2>2, ViewsAt, LoopViewsStay
    <2>4. Events!Free(cur.fd)
      BY <1>2, <2>1, <2>3 DEF Events!Free, Events!Gone, Events!InHandler
    <2> QED BY <1>2, <2>1, <2>4
  <1> QED BY <1>1, <1>3, <1>4, <1>5, <1>6

\* The steps of the loop.
LEMMA PollSeen ==
    ASSUME ServerInvariant, ServerPoll
    PROVE  [Events!Next]_(Events!vars)
  <1> USE Types DEF Events!vars, Events!Next
  <1>1. PICK ready \in [Watched -> SUBSET Ready] : PollGives(ready)
    BY DEF ServerPoll
  <1>2. /\ pc = "poll" /\ pc' = "events" /\ fired = {} /\ fired' = Entries(ready)
        /\ UNCHANGED <<clients, mask>>
    BY <1>1 DEF ServerPoll, PollGives, serverVars, tableVars, ServerInvariant,
       EventsInvariant, EntriesRight
  <1>3. \A fd \in ClientFd : DueTo(fd) = {}
    BY <1>2 DEF DueTo, InHand, Listed
  <1>4. Dues = Events!Nothing
    BY <1>3 DEF Dues, Events!Nothing
  <1>5. \A fd \in ClientFd : DueTo(fd)' \in SUBSET Events!Event
    BY <1>2 DEF DueTo, InHand, Listed, Ready, Events!Event
  <1>6. Dues' \in [ClientFd -> SUBSET Events!Event]
    BY <1>5 DEF Dues
  <1>7. ASSUME NEW fd \in ClientFd, Dues'[fd] # {} PROVE Masks[fd] # {}
    <2>1. DueTo(fd)' # {}
      BY <1>7 DEF Dues
    <2>2. PICK e \in Entries(ready) : e.fd = fd
      BY <1>2, <2>1 DEF DueTo, InHand, Listed
    <2>3. mask[fd] # {}
      <3>1. \A d \in Watched : mask[d] # {}
        BY DEF Watched, ServerInvariant, EventsInvariant, KernelAgrees
      <3> QED BY <2>2, <3>1 DEF Entries
    <2> QED BY <2>3 DEF Masks
  <1>8. TurnOf = <<>> /\ TurnOf' = <<>> /\ Masks' = Masks
    BY <1>2, ViewsStay DEF TurnOf
  <1>9. Events!Report
    BY <1>2, <1>4, <1>6, <1>7, <1>8 DEF Events!Report
  <1> QED BY <1>9

\* Taking the next entry of fired[] in hand reports nothing new and loses nothing.
LEMMA TakeEntrySeen ==
    ASSUME ServerInvariant, TakeEntry
    PROVE  Dues' = Dues /\ TurnOf' = TurnOf
  <1>1. PICK e \in fired :
           /\ pc = "events" /\ pc' = "dispatch" /\ fired' = fired \ {e}
           /\ cur' = [fd |-> e.fd, got |-> e.got, invert |-> "B" \in mask[e.fd],
                      called |-> {}, stage |-> "read"]
    BY DEF TakeEntry
  <1>2. /\ e.got \subseteq Ready /\ \A f \in fired : e.fd = f.fd => e = f
    BY DEF ServerInvariant, EventsInvariant, TypeOK, Entry, EntriesRight
  <1>3. ASSUME NEW fd \in ClientFd PROVE DueTo(fd)' = DueTo(fd)
    <2>1. InHand(fd) = {} /\ InHand(fd)' = IF fd = e.fd THEN e.got ELSE {}
      BY <1>1 DEF InHand
    <2>2. CASE fd = e.fd
      <3>1. Listed(fd) = e.got /\ Listed(fd)' = {}
        BY <1>1, <1>2, <2>2 DEF Listed
      <3> QED BY <2>1, <2>2, <3>1 DEF DueTo
    <2>3. CASE fd # e.fd
      <3>1. Listed(fd)' = Listed(fd)
        BY <1>1, <2>3 DEF Listed
      <3> QED BY <2>1, <2>3, <3>1 DEF DueTo
    <2> QED BY <2>2, <2>3
  <1> QED BY <1>1, <1>3, ViewsStay DEF TurnOf

\* An entry's event that is not called for is passed over.
LEMMA PassOverSeen ==
    ASSUME ServerInvariant, ReadersRight, PassOver, UNCHANGED clients
    PROVE  [Events!Next]_(Events!vars)
  <1> SUFFICES ASSUME NEW d \in Fd, d = cur.fd PROVE [Events!Next]_(Events!vars)
    BY Types
  <1> USE DEF Events!vars, Events!Next
  <1>1. /\ pc = "dispatch" /\ ~Due /\ UNCHANGED <<mask, fired>>
        /\ pc' # "handler" /\ ~cur.invert
    BY DEF PassOver, NextStage, tableVars, ReadersRight
  <1>2. TurnOf = <<>> /\ TurnOf' = <<>> /\ Masks' = Masks
    BY <1>1, ViewsStay DEF TurnOf
  <1>3. Listed(d) = {} /\ cur.got \subseteq Ready /\ \A fd : Listed(fd)' = Listed(fd)
    BY <1>1, HandAlone DEF Listed
  <1>4. \A fd : fd # d => InHand(fd) = {} /\ InHand(fd)' = {}
    BY <1>1, Types DEF PassOver, NextStage, InHand, Turn, NoTurn
  <1>5. \A fd : fd # d => DueTo(fd)' = DueTo(fd)
    BY <1>3, <1>4 DEF DueTo
  <1>6. \E evs \in SUBSET (DueTo(d) \ mask[d]) : DueTo(d)' = DueTo(d) \ evs
    <2>1. DueTo(d) = InHand(d) /\ DueTo(d)' = InHand(d)'
      BY <1>3 DEF DueTo
    <2>2. CASE cur.stage = "read"
      <3>1. pc' = "dispatch" /\ cur'.fd = d /\ cur'.got = cur.got /\ cur'.stage = "write"
        BY <2>2, Types DEF PassOver, NextStage, Turn
      <3>2. /\ InHand(d) = cur.got
            /\ InHand(d)' = {ev \in cur.got : ev = "W"}
        BY <1>1, <2>2, <3>1 DEF InHand
      <3>3. "R" \notin mask[d] \cap cur.got
        BY <1>1, <2>2 DEF Due, Valid
      <3>4. {ev \in cur.got : ev = "W"} = cur.got \ ({"R"} \cap cur.got)
        BY <1>3 DEF Ready
      <3> QED BY <2>1, <3>2, <3>3, <3>4
    <2>3. CASE cur.stage = "write"
      <3>1. pc' = "dispatch" /\ cur'.fd = d /\ cur'.stage = "readLast"
        BY <2>3, Types DEF PassOver, NextStage, Turn
      <3>2. /\ InHand(d) = {ev \in cur.got : ev = "W"}
            /\ InHand(d)' = {}
        BY <1>1, <2>3, <3>1 DEF InHand
      <3>3. "W" \notin mask[d] \cap cur.got
        BY <1>1, <2>3, ServerAssumption DEF Due, Valid, AnotherProc
      <3> QED BY <2>1, <3>2, <3>3
    <2>4. CASE cur.stage = "readLast"
      <3>1. pc' = "events"
        BY <2>4 DEF PassOver, NextStage
      <3>2. InHand(d) = {} /\ InHand(d)' = {}
        BY <1>1, <2>4, <3>1 DEF InHand
      <3> QED BY <2>1, <3>2
    <2> QED BY <2>2, <2>3, <2>4, Types DEF Turn
  <1>7. CASE d \in ClientFd
    <2>1. PICK evs \in SUBSET (DueTo(d) \ mask[d]) :
              DueTo(d)' = DueTo(d) \ evs
      BY <1>6
    <2>2. \A fd \in ClientFd :
              DueTo(fd)' = IF fd = d THEN DueTo(d) \ evs ELSE DueTo(fd)
      BY <1>5, <2>1
    <2>3. /\ Dues' = [Dues EXCEPT ![d] = DueTo(d) \ evs]
          /\ Dues[d] = DueTo(d) /\ Masks[d] = mask[d]
      BY <1>7, <2>2, ViewsAt
    <2>4. Events!PassOver(d)
      BY <1>2, <2>1, <2>3 DEF Events!PassOver
    <2> QED BY <1>7, <2>4
  <1>8. CASE d \notin ClientFd
    <2>1. Dues' = Dues
      BY <1>5, <1>8, ViewsStay
    <2> QED BY <1>2, <2>1
  <1> QED BY <1>7, <1>8

\* A handler is called only for what was reported and is registered.
LEMMA StartHandlerSeen ==
    ASSUME ServerInvariant, ReadersRight, StartHandler
    PROVE  [Events!Next]_(Events!vars)
  <1> SUFFICES ASSUME NEW d \in Fd, d = cur.fd PROVE [Events!Next]_(Events!vars)
    BY Types
  <1> USE DEF Events!vars, Events!Next
  <1>1. /\ pc = "dispatch" /\ pc' = "handler" /\ Due /\ UNCHANGED <<mask, fired, clients>>
        /\ cur'.fd = d /\ cur'.got = cur.got /\ cur'.stage = cur.stage
        /\ ~cur.invert
    BY Types DEF StartHandler, CallProc, tableVars, ReadersRight, Turn
  <1>2. TurnOf = <<>> /\ Masks' = Masks
    BY <1>1, ViewsStay DEF TurnOf
  <1>3. Listed(d) = {} /\ cur.got \subseteq Ready /\ \A fd : Listed(fd)' = Listed(fd)
    BY <1>1, HandAlone DEF Listed
  <1>4. \A fd : fd # d => DueTo(fd)' = DueTo(fd)
    <2>1. \A fd : fd # d => InHand(fd) = {} /\ InHand(fd)' = {}
      BY <1>1 DEF InHand
    <2> QED BY <1>3, <2>1 DEF DueTo
  <1>5. DueTo(d) = InHand(d) /\ DueTo(d)' = InHand(d)'
    BY <1>3 DEF DueTo
  <1>6. CASE d \notin ClientFd
    <2>1. Dues' = Dues /\ TurnOf' = <<>>
      BY <1>1, <1>4, <1>6, ViewsStay DEF TurnOf
    <2> QED BY <1>1, <1>2, <2>1
  <1>7. CASE d \in ClientFd /\ cur.stage = "read"
    <2>1. "R" \in mask[d] \cap cur.got
      BY <1>1, <1>7 DEF Due, Valid
    <2>2. DueTo(d) = cur.got /\ DueTo(d)' = cur.got \ {"R"}
      BY <1>1, <1>3, <1>5, <1>7 DEF InHand, Ready
    <2>3. \A fd \in ClientFd :
              DueTo(fd)' = IF fd = d THEN DueTo(d) \ {"R"} ELSE DueTo(fd)
      BY <1>4, <2>2
    <2>4. /\ Dues' = [Dues EXCEPT ![d] = DueTo(d) \ {"R"}]
          /\ Dues[d] = DueTo(d) /\ Masks[d] = mask[d]
      BY <1>7, <2>3, ViewsAt
    <2>5. TurnOf' = <<d, "read">>
      BY <1>1, <1>7 DEF TurnOf
    <2>6. Events!CallRead(d)
      BY <1>1, <1>2, <2>1, <2>2, <2>4, <2>5 DEF Events!CallRead, Events!Wanted
    <2> QED BY <1>7, <2>6
  <1>8. CASE d \in ClientFd /\ cur.stage = "write"
    <2>1. "W" \in mask[d] \cap cur.got
      BY <1>1, <1>8 DEF Due, Valid
    <2>2. DueTo(d) = {ev \in cur.got : ev = "W"} /\ DueTo(d)' = {}
      BY <1>1, <1>3, <1>5, <1>8 DEF InHand
    <2>3. \A fd \in ClientFd : DueTo(fd)' = IF fd = d THEN {} ELSE DueTo(fd)
      BY <1>4, <2>2
    <2>4. /\ Dues' = [Dues EXCEPT ![d] = {}]
          /\ Dues[d] = DueTo(d) /\ Masks[d] = mask[d]
      BY <1>8, <2>3, ViewsAt
    <2>5. TurnOf' = <<d, "write">>
      BY <1>1, <1>8 DEF TurnOf
    <2>6. Events!CallWrite(d)
      BY <1>1, <1>2, <2>1, <2>2, <2>4, <2>5
         DEF Events!CallWrite, Events!MayWrite, Events!Wanted
    <2> QED BY <1>8, <2>6
  <1>9. cur.stage \in {"read", "write"}
    BY <1>1, Types DEF Due, Turn
  <1> QED BY <1>6, <1>7, <1>8, <1>9

\* A handler that returns leaves to the loop what it found.
LEMMA EndHandlerSeen ==
    ASSUME ServerInvariant, ReadersRight, EndHandler
    PROVE  [Events!Next]_(Events!vars)
  <1> SUFFICES ASSUME NEW d \in Fd, d = cur.fd PROVE [Events!Next]_(Events!vars)
    BY Types
  <1> USE DEF Events!vars, Events!Next
  <1>1. /\ pc = "handler" /\ pc' # "handler" /\ NextStage
        /\ UNCHANGED <<mask, fired, clients>> /\ ~cur.invert
    BY DEF EndHandler, ProcReturns, NextStage, tableVars, ReadersRight
  <1>2. TurnOf' = <<>> /\ Masks' = Masks
    BY <1>1, ViewsStay DEF TurnOf
  <1>3. \A fd : Listed(fd)' = Listed(fd)
    BY <1>1 DEF Listed
  <1>4. \A fd : InHand(fd)' = InHand(fd)
    <2>1. CASE cur.stage = "readLast"
      BY <1>1, <2>1 DEF InHand, NextStage, NoTurn
    <2>2. CASE cur.stage = "write"
      BY <1>1, <2>2, Types DEF InHand, NextStage, Turn
    <2>3. CASE cur.stage = "read"
      BY <1>1, <2>3, Types DEF InHand, NextStage, Turn
    <2> QED BY <2>1, <2>2, <2>3, Types DEF Turn
  <1>5. Dues' = Dues
    BY <1>3, <1>4, ViewsStay DEF DueTo
  <1>6. CASE TurnOf = <<>>
    BY <1>1, <1>2, <1>5, <1>6
  <1>7. CASE TurnOf # <<>>
    <2>1. Events!Return
      BY <1>1, <1>2, <1>5, <1>7 DEF Events!Return
    <2> QED BY <2>1
  <1> QED BY <1>6, <1>7

\* Every turn of the loop is one ClientEvents allows, or nothing the clients see.
LEMMA LoopSeen ==
    ASSUME ServerInvariant, ReadersRight, ServerPoll \/ Turns \/ StartHandler \/ EndHandler
    PROVE  [Events!Next]_(Events!vars)
  <1>1. CASE Turns
    <2>1. UNCHANGED <<clients, mask>>
      BY <1>1 DEF Turns, TakeEntry, PassOver, EventsDone, TimersDone, serverVars, tableVars
    <2>2. CASE TakeEntry
      BY <2>1, <2>2, TakeEntrySeen, ViewsStay DEF Events!vars
    <2>3. CASE EventsDone \/ TimersDone
      <3>1. UNCHANGED <<cur, fired>> /\ pc \in {"events", "outside"} /\ pc' \in {"poll", "outside"}
        BY <2>3 DEF EventsDone, TimersDone
      <3>2. TurnOf' = TurnOf /\ \A fd \in ClientFd : DueTo(fd)' = DueTo(fd)
        BY <3>1 DEF TurnOf, DueTo, InHand, Listed
      <3> QED BY <2>1, <3>2, ViewsStay DEF Events!vars
    <2> QED BY <1>1, <2>1, <2>2, <2>3, PassOverSeen DEF Turns
  <1> QED BY <1>1, PollSeen, StartHandlerSeen, EndHandlerSeen

\* Every client of the server is one of ClientEvents: one handler runs at a time,
\* only for what was reported and is still registered, no client touches the
\* registration of another, and one that gets the number of a client that is gone
\* gets none of its events.
THEOREM ClientsAreClients == ServerSpec => ImplementsClientEvents
  <1>1. ServerInit => ReadersRight
    BY DEF ServerInit, Init, ReadersRight, Serving
  <1>2. ServerSpec => []ReadersRight
    BY <1>1, ReadersStep, ServerInvariance, PTL DEF ServerSpec
  <1>3. ServerInit => Events!Init
    <2> SUFFICES ASSUME ServerInit PROVE Events!Init
      OBVIOUS
    <2>1. \A fd \in ClientFd : mask[fd] = {} /\ DueTo(fd) = {}
      BY DEF ServerInit, Init, ClientFd, DueTo, InHand, Listed
    <2>2. TurnOf = <<>> /\ clients = {}
      BY DEF ServerInit, Init, TurnOf
    <2> QED BY <2>1, <2>2 DEF Events!Init, Events!Nothing, Masks, Dues
  <1>4. ServerInvariant /\ ReadersRight /\ [ServerNext]_allVars => [Events!Next]_(Events!vars)
    <2> SUFFICES ASSUME ServerInvariant, ReadersRight, [ServerNext]_allVars
                 PROVE  [Events!Next]_(Events!vars)
      OBVIOUS
    <2>1. CASE UNCHANGED allVars
      <3>1. UNCHANGED <<pc, cur, fired, clients, mask>>
        BY <2>1 DEF allVars, serverVars, vars, tableVars, loopVars
      <3> QED BY <3>1, ViewsStay, LoopViewsStay DEF Events!vars
    <2> QED BY <2>1, AcceptSeen, HandlersSeen, LoopSeen DEF ServerNext, Server, Handlers
  <1> QED BY <1>2, <1>3, <1>4, ServerInvariance, PTL
          DEF ServerSpec, Events!Spec, ImplementsClientEvents

\* Both at once: main.c and http_server.c keep the rules of the loop of ae.c, and
\* none of their clients can tell that there are others.
THEOREM ServerIsBetween == ServerSpec => ServerImplements
  BY ServerImplementsLoop, ClientsAreClients DEF ServerImplements

\* aeProcessEvents starts on_read_ready and on_write_ready only for clients in
\* memory, whatever number the descriptor had before and whoever was freed twice.
THEOREM NoHandlerForTheGone == ServerSpec => Events!CallsTheLiving
  BY ClientsAreClients, Events!NoCallForTheDead, PTL DEF ImplementsClientEvents
=============================================================================
