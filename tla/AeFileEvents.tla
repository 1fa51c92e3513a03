---------------------------- MODULE AeFileEvents ----------------------------
(***************************************************************************)
(* The file events of ae.c over its three pollers: the table of            *)
(* descriptors, maxfd, the interest the kernel keeps, and one iteration of *)
(* aeProcessEvents, whose handlers register, withdraw, open and close      *)
(* descriptors while entries of fired[] are still to come.                 *)
(*                                                                         *)
(* The program is any one that keeps two rules, as http_server.c and       *)
(* main.c do: a descriptor is closed only when nothing is registered for   *)
(* it, and a handler closes only its own descriptor or one opened since    *)
(* the poll, and opens none after it has closed its own.                   *)
(*                                                                         *)
(* Definitions named Fault_... are mistakes this code could have had; no   *)
(* specification uses them.  Put in the place of the definition after      *)
(* them, each breaks the property it names.                                *)
(***************************************************************************)
EXTENDS Integers, FiniteSets

CONSTANTS
    SetSize,    \* setsize of aeCreateEventLoop
    LastFd,     \* the last descriptor the process may open (RLIMIT_NOFILE)
    Reserved,   \* descriptors open from the start
    Pollers,    \* of "epoll", "kqueue" and "select", those this build may have
    OneProc     \* descriptors registered with one proc for both events

Fd == 0 .. LastFd

ASSUME DescriptorsAssumption ==
    /\ SetSize \in Nat /\ LastFd \in Nat
    /\ Reserved \subseteq Fd /\ OneProc \subseteq Fd
ASSUME PollersAssumption == Pollers \subseteq {"epoll", "kqueue", "select"}

Ready == {"R", "W"}             \* AE_READABLE, AE_WRITABLE
Mask  == Ready \cup {"B"}       \* AE_BARRIER

\* aeProcessEvents at one entry of fired[]: its fd and mask (got), invert, the
\* events it has called a proc for, and the call it has come to.
Entry == [fd : Fd, got : SUBSET Ready]
Turn  == [fd : Fd, got : SUBSET Ready, invert : BOOLEAN, called : SUBSET Ready,
          stage : {"read", "write", "readLast"}]

NoTurn == [fd |-> 0, got |-> {}, invert |-> FALSE, called |-> {}, stage |-> "read"]

VARIABLES
    api,        \* the poller of this build
    open,       \* descriptors the process has open
    mask,       \* events[fd].mask
    watch,      \* what the kernel watches each descriptor for
    maxfd,
    fired,      \* entries of fired[] not yet taken
    cur,        \* the entry taken last
    pc,         \* "poll", "events", "dispatch", in a "handler", or "outside":
                \* set-up before aeMain, and time events
    fresh,      \* HISTORY: opened since the poll
    owed,       \* HISTORY: reported and wanted, neither called nor withdrawn yet
    calls,      \* HISTORY: calls of procs since the poll
    barred      \* HISTORY: with a barrier when its entry was taken, and ever since

tableVars == <<api, open, mask, watch, maxfd>>
loopVars  == <<fired, cur, pc>>
histVars  == <<fresh, owed, calls, barred>>
vars      == <<tableVars, loopVars, histVars>>

TypeOK ==
    /\ api \in Pollers /\ open \subseteq Fd
    /\ mask \in [Fd -> SUBSET Mask] /\ watch \in [Fd -> SUBSET Ready]
    /\ \A fd \in Fd : /\ mask[fd] # {} => fd \in open /\ fd < SetSize
                      /\ "B" \in mask[fd] => "W" \in mask[fd]
    /\ maxfd \in Fd \cup {-1}
    /\ fired \subseteq Entry /\ cur \in Turn
    /\ pc \in {"poll", "events", "dispatch", "handler", "outside"}
    /\ fresh \subseteq Fd /\ barred \subseteq Fd
    /\ owed \subseteq Fd \X Ready /\ calls \subseteq Fd \X Ready

\* aeCreateEventLoop
Init ==
    /\ api \in Pollers /\ open = Reserved
    /\ mask = [fd \in Fd |-> {}] /\ watch = [fd \in Fd |-> {}]
    /\ maxfd = -1 /\ fired = {}
    /\ cur = NoTurn
    /\ pc = "outside"
    /\ fresh = {} /\ owed = {} /\ calls = {} /\ barred = {}

-----------------------------------------------------------------------------
(* The pollers *)

\* epoll_ctl refuses to add what is there and to modify what is not.
Accepted(fd) == api = "epoll" => (mask[fd] = {} <=> watch[fd] = {})

Fault_AddReplaces(fd, evs) ==   \* KernelAgrees: old events not merged
    watch' = [watch EXCEPT ![fd] = IF api = "epoll" THEN evs \ {"B"}
                                   ELSE @ \cup (evs \ {"B"})]

\* epoll is given the whole mask, kqueue and select what is new.
ApiAddEvent(fd, evs) ==
    watch' = [watch EXCEPT ![fd] = IF api = "epoll" THEN (mask[fd] \cup evs) \ {"B"}
                                   ELSE @ \cup (evs \ {"B"})]

Fault_DelBeforeMask(fd, gone) == \* KernelAgrees: the mask not yet updated
    watch' = [watch EXCEPT ![fd] = IF api = "epoll" THEN mask[fd] \ {"B"}
                                   ELSE @ \ gone]

\* epoll is given what is left of the mask, kqueue and select what has gone.
ApiDelEvent(fd, gone) ==
    watch' = [watch EXCEPT ![fd] = IF api = "epoll" THEN mask'[fd] \ {"B"}
                                   ELSE @ \ gone]

\* What epoll_wait, kevent or select may report of the descriptors they watch.
\* epoll adds errors and hang-ups, which stand for both events; select looks no
\* further than maxfd.
Watched == {fd \in Fd : watch[fd] # {}}

Reports(ready) ==
    \A fd \in Watched :
        /\ ready[fd] \subseteq watch[fd] \/ (api = "epoll" /\ ready[fd] = Ready)
        /\ api = "select" /\ fd > maxfd => ready[fd] = {}

Reported(ready) == {x \in Watched \X Ready : x[2] \in ready[x[1]]}

Fault_Unmerged(ready) ==        \* CalledOnceInOrder: two events, two entries
    {[fd |-> x[1], got |-> {x[2]}] : x \in Reported(ready)}

\* fired[], one entry for a descriptor.  kevent reports read and write apart, and
\* aeApiPoll puts them together; select has an entry for all that is registered.
Entries(ready) ==
    IF api = "select"
    THEN {[fd |-> d, got |-> {ev \in mask[d] : <<d, ev>> \in Reported(ready)}] :
             d \in {x \in Fd : x <= maxfd /\ mask[x] # {} /\ Reported(ready) # {}}}
    ELSE {[fd |-> d, got |-> ready[d]] : d \in {x \in Watched : ready[x] # {}}}

-----------------------------------------------------------------------------
(* What handlers, time events and set-up do *)

InProgram == pc \in {"handler", "outside"}

\* The lowest number that is free, as for every descriptor of a process.
Open(fd) ==
    /\ fd \notin open /\ \A d \in 0 .. fd - 1 : d \in open
    /\ open' = open \cup {fd}
    /\ fresh' = IF pc = "handler" THEN fresh \cup {fd} ELSE fresh
    /\ UNCHANGED <<api, mask, watch, maxfd, loopVars, owed, calls, barred>>

OpenFd(fd) == InProgram /\ (pc = "handler" => cur.fd \in open) /\ Open(fd)

\* A descriptor at or above SetSize, and one that the poller refuses, is left as
\* it was: the caller is told.
CreateFileEvent(fd, evs) ==
    /\ InProgram /\ fd \in open /\ fd < SetSize /\ Accepted(fd)
    /\ ApiAddEvent(fd, evs)
    /\ mask' = [mask EXCEPT ![fd] = @ \cup evs]
    /\ maxfd' = IF fd > maxfd THEN fd ELSE maxfd
    /\ UNCHANGED <<api, open, loopVars, histVars>>

Fault_LowerByOne(fd) ==         \* MaxFdRight: the next below need not be registered
    maxfd' = IF fd = maxfd /\ mask'[fd] = {} THEN maxfd - 1 ELSE maxfd

\* The search downwards from maxfd - 1.
LowerMaxfd(fd) ==
    IF fd = maxfd /\ mask'[fd] = {}
    THEN maxfd' \in {j \in -1 .. maxfd - 1 :
                        /\ \A k \in j + 1 .. maxfd - 1 : mask[k] = {}
                        /\ j # -1 => mask[j] # {}}
    ELSE UNCHANGED maxfd

Fault_BarrierStays(evs) == evs  \* TypeOK: a barrier without AE_WRITABLE

\* The barrier goes with AE_WRITABLE.
Withdrawn(evs) == IF "W" \in evs THEN evs \cup {"B"} ELSE evs

DeleteFileEvent(fd, evs) ==
    LET gone == Withdrawn(evs) \cap mask[fd]
    IN  /\ InProgram /\ gone # {}
        /\ mask' = [mask EXCEPT ![fd] = @ \ gone]
        /\ LowerMaxfd(fd)
        /\ IF gone \cap Ready # {} THEN ApiDelEvent(fd, gone) ELSE UNCHANGED watch
        /\ owed' = owed \ ({fd} \X gone)
        /\ barred' = IF "B" \in gone THEN barred \ {fd} ELSE barred
        /\ UNCHANGED <<api, open, loopVars, fresh, calls>>

Fault_ClosesOthers(fd) == TRUE  \* NoStaleEvent: another one's entry is to come

MayClose(fd) == pc = "outside" \/ fd = cur.fd \/ fd \in fresh

\* The kernel forgets a closed descriptor; an fd_set does not.
Close(fd) ==
    /\ open' = open \ {fd} /\ fresh' = fresh \ {fd}
    /\ watch' = IF api = "select" THEN watch ELSE [watch EXCEPT ![fd] = {}]
    /\ UNCHANGED <<api, mask, maxfd, loopVars, owed, calls, barred>>

CloseFd(fd) == InProgram /\ fd \in open /\ MayClose(fd) /\ mask[fd] = {} /\ Close(fd)

Program ==
    \E fd \in Fd :
        \/ OpenFd(fd)
        \/ \E evs \in {{"R"}, {"W"}, {"W", "B"}} : CreateFileEvent(fd, evs)
        \/ \E evs \in SUBSET Mask : DeleteFileEvent(fd, evs)
        \/ CloseFd(fd)

-----------------------------------------------------------------------------
(* aeProcessEvents *)

PollGives(ready) ==
    /\ Reports(ready)
    /\ pc' = "events"
    /\ fired' = Entries(ready)
    /\ owed' = {x \in Reported(ready) : x[2] \in mask[x[1]]}
    /\ UNCHANGED <<tableVars, cur, fresh, calls, barred>>

Poll == pc = "poll" /\ \E ready \in [Watched -> SUBSET Ready] : PollGives(ready)

\* select has its entries in the order of the descriptors.
TakeEntry ==
    /\ pc = "events" /\ pc' = "dispatch"
    /\ \E e \in fired :
          /\ api = "select" => \A f \in fired : e.fd <= f.fd
          /\ fired' = fired \ {e}
          /\ cur' = [fd |-> e.fd, got |-> e.got, invert |-> "B" \in mask[e.fd],
                     called |-> {}, stage |-> "read"]
          /\ barred' = IF "B" \in mask[e.fd] THEN barred \cup {e.fd} ELSE barred
    /\ UNCHANGED <<tableVars, fresh, owed, calls>>

Fault_MaskAsPolled(ev) == ev \in cur.got    \* NoStaleEvent: events[fd].mask not read again

Valid(ev) == ev \in mask[cur.fd] \cap cur.got

Fault_TwiceIfBoth == TRUE       \* CalledOnceInOrder: one proc called for each event

Fault_OneCallAnEntry == cur.called = {}     \* NothingLost: the procs not compared

AnotherProc == cur.called = {} \/ cur.fd \notin OneProc

Fault_NeverInverted ==          \* CalledOnceInOrder
    CASE cur.stage = "read"     -> Valid("R")
      [] cur.stage = "write"    -> Valid("W") /\ AnotherProc
      [] cur.stage = "readLast" -> FALSE

Due ==
    CASE cur.stage = "read"     -> Valid("R") /\ ~cur.invert
      [] cur.stage = "write"    -> Valid("W") /\ AnotherProc
      [] cur.stage = "readLast" -> Valid("R") /\ AnotherProc /\ cur.invert

CalledFor == IF cur.stage = "write" THEN "W" ELSE "R"

\* The proc is given the whole mask of the entry; if it is one for both events,
\* that is all it is called for.
CallProc ==
    /\ pc = "dispatch" /\ Due /\ pc' = "handler"
    /\ cur' = [cur EXCEPT !.called = @ \cup {CalledFor}]
    /\ owed' = owed \ ({cur.fd} \X (IF cur.fd \in OneProc THEN cur.got ELSE {CalledFor}))
    /\ calls' = calls \cup {<<cur.fd, CalledFor>>}
    /\ UNCHANGED <<tableVars, fired, fresh, barred>>

NextStage ==
    IF cur.stage = "readLast" THEN pc' = "events" /\ cur' = NoTurn
    ELSE /\ pc' = "dispatch"
         /\ cur' = [cur EXCEPT !.stage = IF @ = "read" THEN "write" ELSE "readLast"]

PassOver ==
    /\ pc = "dispatch" /\ ~Due /\ NextStage
    /\ UNCHANGED <<tableVars, fired, histVars>>

ProcReturns ==
    /\ pc = "handler" /\ NextStage
    /\ UNCHANGED <<tableVars, fired, histVars>>

EventsDone ==
    /\ pc = "events" /\ fired = {} /\ pc' = "outside"
    /\ fresh' = {} /\ calls' = {} /\ barred' = {}
    /\ UNCHANGED <<tableVars, fired, cur, owed>>

TimersDone ==
    /\ pc = "outside" /\ pc' = "poll"
    /\ UNCHANGED <<tableVars, fired, cur, histVars>>

Loop == Poll \/ TakeEntry \/ CallProc \/ PassOver \/ ProcReturns \/ EventsDone \/ TimersDone

Next == Program \/ Loop
Spec == Init /\ [][Next]_vars

-----------------------------------------------------------------------------
(* Correctness *)

\* Whatever is registered, withdrawn, opened and closed, and in whatever order:
\* each poller watches for exactly the events of the table, and so epoll_ctl
\* is never asked to add what is there or to modify what is not.
KernelAgrees ==
    \A fd \in Fd : watch[fd] = mask[fd] \ {"B"} /\ Accepted(fd)

\* maxfd is the largest registered descriptor; select looks no further.
MaxFdRight ==
    /\ maxfd # -1 => mask[maxfd] # {}
    /\ \A fd \in Fd : mask[fd] # {} => fd <= maxfd

\* A proc is called only for an event that is registered now, and for the
\* descriptor that was polled: never for a later one of the same number, whose
\* number is still in fired[] ("maybe an already processed event removed an
\* element that fired", aeProcessEvents).
NoStaleEvent ==
    [][pc = "dispatch" /\ pc' = "handler" =>
         /\ cur.fd \in open \ fresh
         /\ cur'.called \ cur.called \subseteq mask[cur.fd]]_vars

\* In one iteration no proc is called twice for one event, nor for the second
\* event if it is the one proc of both; and "With WRITABLE, never fire the event
\* if the READABLE event already fired in the same event loop iteration" (ae.h),
\* where a barrier was set before the poll, or since by a proc of another
\* descriptor, and stayed until the entry was taken.  (One that the readable proc
\* itself sets comes too late for this iteration: invert has been read.)
CalledOnceInOrder ==
    [][pc = "dispatch" /\ pc' = "handler" =>
         /\ <<cur.fd, CalledFor>> \notin calls
         /\ cur.fd \in OneProc => \A ev \in Ready : <<cur.fd, ev>> \notin calls
         /\ CalledFor = "W" /\ cur.fd \in barred => <<cur.fd, "R">> \notin calls]_vars

\* Every event that was polled and wanted has been handled at the end of the
\* iteration, unless it was withdrawn meanwhile.
NothingLost == pc \in {"outside", "poll"} => owed = {}

\* What makes these inductive.  What is still in fired[], or in hand, belongs to
\* descriptors that were open at the poll and have not been closed since.
EntriesRight ==
    /\ pc \in {"poll", "outside"} =>
          fired = {} /\ fresh = {} /\ calls = {} /\ owed = {}
    /\ \A e \in fired :
          /\ e.fd \in open \ fresh
          /\ \A f \in fired : e.fd = f.fd => e = f
          /\ \A ev \in Ready : <<e.fd, ev>> \notin calls

\* How far the entry in hand is.
TurnRight ==
    pc \in {"dispatch", "handler"} =>
        /\ cur.fd \notin fresh
        /\ \A e \in fired : e.fd # cur.fd
        /\ \A ev \in Ready : <<cur.fd, ev>> \in calls => ev \in cur.called
        /\ cur.fd \in barred => cur.invert
        /\ cur.stage = "read"  => cur.called \subseteq (IF pc = "handler" THEN {"R"} ELSE {})
        /\ cur.stage = "read" /\ pc = "handler" => ~cur.invert
        /\ cur.stage = "write" /\ pc = "dispatch" => "W" \notin cur.called
        /\ cur.invert /\ (cur.stage = "readLast" => pc = "dispatch") => "R" \notin cur.called

\* What is owed is registered, and its call is still to come.
ToCome(ev) ==
    /\ pc \in {"dispatch", "handler"} /\ ev \in cur.got
    /\ cur.fd \in OneProc => cur.called = {}
    /\ \/ cur.stage = "read" /\ (pc = "dispatch" \/ ev = "W")
       \/ cur.stage = "write" /\ ev = "W" /\ pc = "dispatch"
       \/ cur.stage = "write" /\ ev = "R" /\ cur.invert
       \/ cur.stage = "readLast" /\ ev = "R" /\ cur.invert /\ pc = "dispatch"

OwedRight ==
    /\ \A x \in owed :
          /\ x[2] \in mask[x[1]]
          /\ \/ \E e \in fired : e.fd = x[1] /\ x[2] \in e.got
             \/ x[1] = cur.fd /\ ToCome(x[2])
    /\ \A fd \in barred : "B" \in mask[fd]

EventsInvariant ==
    TypeOK /\ KernelAgrees /\ MaxFdRight /\ EntriesRight /\ TurnRight /\ OwedRight
=============================================================================
