---------------------------- MODULE ClientEvents ----------------------------
(***************************************************************************)
(* What the event loop and the clients of http_server.c owe each other,    *)
(* for any number of clients: the loop calls one handler at a time, only   *)
(* for what it has reported and is still registered, and a client changes  *)
(* no registration but its own, in its own handler.  HttpConnection, which *)
(* follows one client, and HttpServer, which runs them all on the loop of  *)
(* ae.c, both implement it: they describe the same clients.                *)
(***************************************************************************)
EXTENDS TLAPS

CONSTANT Id     \* what a client goes by: its descriptor

VARIABLES
    alive,  \* those whose client_t is in memory
    mask,   \* the events the loop has registered for each
    due,    \* the events the last poll reported and the loop has yet to come to
    turn    \* the client and the handler that is running, <<>> if none is

vars == <<alive, mask, due, turn>>

Event   == {"R", "W"}           \* AE_READABLE, AE_WRITABLE
Handler == {"read", "write"}    \* on_read_ready, on_write_ready
Nothing == [c \in Id |-> {}]

Init ==
    /\ alive \in SUBSET Id
    /\ mask = [c \in Id |-> IF c \in alive THEN {"R"} ELSE {}]
    /\ due = Nothing /\ turn = <<>>

-----------------------------------------------------------------------------
(* The loop *)

\* What is reported is of those that are registered; nothing is left from the
\* poll before.
Report ==
    /\ turn = <<>> /\ due = Nothing
    /\ due' \in [Id -> SUBSET Event]
    /\ \A c \in Id : due'[c] # {} => mask[c] # {}
    /\ UNCHANGED <<alive, mask, turn>>

Wanted(c) == due[c] \cap mask[c]

CallRead(c) ==
    /\ turn = <<>> /\ "R" \in Wanted(c)
    /\ turn' = <<c, "read">>
    /\ due' = [due EXCEPT ![c] = @ \ {"R"}]
    /\ UNCHANGED <<alive, mask>>

\* on_write_ready comes last.
MayWrite(c) == turn = <<>> /\ "W" \in Wanted(c) /\ "R" \notin Wanted(c)

CallWrite(c) ==
    /\ MayWrite(c)
    /\ turn' = <<c, "write">>
    /\ due' = [due EXCEPT ![c] = {}]
    /\ UNCHANGED <<alive, mask>>

\* What is no longer registered is passed over.
PassOver(c) ==
    /\ turn = <<>>
    /\ \E evs \in SUBSET (due[c] \ mask[c]) : due' = [due EXCEPT ![c] = @ \ evs]
    /\ UNCHANGED <<alive, mask, turn>>

Return == turn # <<>> /\ turn' = <<>> /\ UNCHANGED <<alive, mask, due>>

-----------------------------------------------------------------------------
(* The clients *)

\* A number that is used again comes with nothing reported under it.
Accept(c) ==
    /\ turn = <<>> /\ c \notin alive /\ due[c] = {}
    /\ alive' = alive \cup {c}
    /\ \E evs \in {{}, {"R"}} : mask' = [mask EXCEPT ![c] = evs]
    /\ UNCHANGED <<due, turn>>

InHandler(c, h) == turn = <<c, h>> /\ c \in alive

\* enqueue_write, from on_read_ready, before the client is withdrawn.
Watch(c) ==
    /\ InHandler(c, "read") /\ mask[c] # {}
    /\ mask' = [mask EXCEPT ![c] = @ \cup {"W"}]
    /\ UNCHANGED <<alive, due, turn>>

Unwatch(c) ==
    /\ InHandler(c, "write")
    /\ mask' = [mask EXCEPT ![c] = @ \ {"W"}]
    /\ UNCHANGED <<alive, due, turn>>

\* free_client, at once or in two steps; its caller may return at once.
Withdraw(c) ==
    /\ \E h \in Handler : InHandler(c, h)
    /\ mask' = [mask EXCEPT ![c] = {}]
    /\ UNCHANGED <<alive, due, turn>>

Gone(c) == alive' = alive \ {c} /\ mask' = [mask EXCEPT ![c] = {}]

Free(c) ==
    /\ \E h \in Handler : InHandler(c, h)
    /\ Gone(c)
    /\ turn' \in {turn, <<>>} /\ UNCHANGED due

\* on_write_ready, seen as one step.
WriteAtOnce(c) ==
    /\ MayWrite(c) /\ c \in alive
    /\ due' = [due EXCEPT ![c] = {}]
    /\ \/ Gone(c)
       \/ /\ \E evs \in SUBSET {"W"} : mask' = [mask EXCEPT ![c] = @ \ evs]
          /\ UNCHANGED alive
    /\ UNCHANGED turn

-----------------------------------------------------------------------------
Next ==
    \/ Report \/ Return
    \/ \E c \in Id :
          \/ CallRead(c) \/ CallWrite(c) \/ PassOver(c)
          \/ Accept(c) \/ Watch(c) \/ Unwatch(c) \/ Withdraw(c) \/ Free(c)
          \/ WriteAtOnce(c)

Spec == Init /\ [][Next]_vars

-----------------------------------------------------------------------------
(* What follows, for every client on every such loop *)

\* No handler is started for a client that is gone, whatever the poll reported
\* before it went and whatever came to its number since.
CallsTheLiving == [][turn' \notin {turn, <<>>} => turn'[1] \in alive]_vars

\* Because only what is in memory is registered.
Registered ==
    /\ mask \in [Id -> SUBSET Event] /\ due \in [Id -> SUBSET Event]
    /\ \A c \in Id : mask[c] # {} => c \in alive

\* Whatever the loop and the handlers do, only a client in memory is registered.
LEMMA RegisteredStep == Registered /\ [Next]_vars => Registered'
  <1> SUFFICES ASSUME Registered, [Next]_vars PROVE Registered'
    OBVIOUS
  <1> USE DEF Registered
  <1>1. CASE Report
    BY <1>1 DEF Report
  <1>2. CASE Return \/ UNCHANGED vars
    BY <1>2 DEF Return, vars
  <1>3. ASSUME NEW c \in Id, mask' = mask, alive' = alive, NEW evs, due' = [due EXCEPT ![c] = @ \ evs]
        PROVE  Registered'
    BY <1>3
  <1>4. ASSUME NEW c \in Id, NEW evs \in SUBSET Event, mask' = [mask EXCEPT ![c] = evs],
               alive \subseteq alive', due' \in [Id -> SUBSET Event], evs # {} => c \in alive'
        PROVE  Registered'
    BY <1>4
  <1>5. ASSUME NEW c \in Id, CallRead(c) \/ PassOver(c) PROVE Registered'
    BY <1>3, <1>5 DEF CallRead, PassOver
  <1>6. ASSUME NEW c \in Id, CallWrite(c) PROVE Registered'
    BY <1>6 DEF CallWrite
  <1>7. ASSUME NEW c \in Id, Accept(c) PROVE Registered'
    BY <1>4, <1>7 DEF Accept, Event
  <1>8. ASSUME NEW c \in Id, Watch(c) PROVE Registered'
    <2>1. mask' = [mask EXCEPT ![c] = mask[c] \cup {"W"}] /\ mask[c] \cup {"W"} \in SUBSET Event
      BY <1>8 DEF Watch, Event
    <2> QED BY <1>4, <1>8, <2>1 DEF Watch, InHandler
  <1>9. ASSUME NEW c \in Id, Unwatch(c) \/ Withdraw(c) PROVE Registered'
    BY <1>9 DEF Unwatch, Withdraw, InHandler
  <1>10. ASSUME NEW c \in Id, Gone(c), due' \in [Id -> SUBSET Event] PROVE Registered'
    BY <1>10 DEF Gone
  <1>11. ASSUME NEW c \in Id, Free(c) PROVE Registered'
    BY <1>10, <1>11 DEF Free
  <1>12. ASSUME NEW c \in Id, WriteAtOnce(c) PROVE Registered'
    <2>1. due' \in [Id -> SUBSET Event]
      BY <1>12 DEF WriteAtOnce
    <2>2. CASE Gone(c)
      BY <1>10, <2>1, <2>2
    <2>3. CASE ~Gone(c)
      BY <1>12, <2>1, <2>3 DEF WriteAtOnce
    <2> QED BY <2>2, <2>3
  <1> QED BY <1>1, <1>2, <1>5, <1>6, <1>7, <1>8, <1>9, <1>11, <1>12 DEF Next

\* Only what is in memory is registered, whatever was accepted and freed before.
THEOREM OnlyTheLiving == Spec => []Registered
  <1>1. Init => Registered
    BY DEF Init, Registered, Nothing, Event
  <1> QED BY <1>1, RegisteredStep, PTL DEF Spec

\* No handler is started for a client that is gone: free_client withdraws what
\* aeProcessEvents asks for again before each call.
THEOREM NoCallForTheDead == Spec => CallsTheLiving
  <1>1. Registered /\ [Next]_vars
           => [turn' \notin {turn, <<>>} => turn'[1] \in alive]_vars
    <2> SUFFICES ASSUME Registered, [Next]_vars, turn' \notin {turn, <<>>}
                 PROVE  turn'[1] \in alive
      BY DEF vars
    <2>1. PICK c \in Id : CallRead(c) \/ CallWrite(c)
      BY DEF Next, vars, Report, Return, PassOver, Accept, Watch, Unwatch, Withdraw, Free,
             WriteAtOnce
    <2>2. turn'[1] = c /\ mask[c] # {}
      BY <2>1 DEF CallRead, CallWrite, MayWrite, Wanted
    <2> QED BY <2>2 DEF Registered
  <1> QED BY <1>1, OnlyTheLiving, PTL DEF Spec, CallsTheLiving
=============================================================================
