---------------------------- MODULE AeTimeEvents ----------------------------
(***************************************************************************)
(* The timers of ae.c: the doubly linked list, lazy deletion, the walk of  *)
(* processTimeEvents with callbacks that create and delete timers and may  *)
(* run the loop again, and the time the poll may sleep.                    *)
(*                                                                         *)
(* A timer is named by the id it was created with, which also stands for   *)
(* its address.  Time is what is left until a timer is due; it passes in   *)
(* callbacks and in the poll, so that the clock read at the start of a     *)
(* walk and after each callback is the time at which the walk goes on.     *)
(* FlowControl has the clock that is set back and forth.                   *)
(*                                                                         *)
(* Definitions named Fault_... are mistakes this code could have had; no   *)
(* specification uses them.  Put in the place of the definition after      *)
(* them, each breaks the property it names.                                *)
(***************************************************************************)
EXTENDS Integers, FiniteSets, SequencesExt

CONSTANTS
    MaxTimers,  \* BOUND: timers ever created
    MaxDelay,   \* BOUND: the longest delay
    MaxDepth,   \* BOUND: calls of processTimeEvents inside each other
    Stays       \* whether the first timer is as the server's: re-armed for ever

ASSUME MaxTimersAssumption == MaxTimers \in Nat \ {0}
ASSUME MaxDelayAssumption == MaxDelay \in Nat
ASSUME MaxDepthAssumption == MaxDepth \in Nat \ {0}
ASSUME StaysAssumption == Stays \in BOOLEAN

Timer   == 1 .. MaxTimers
None    == 0                \* NULL
Pointer == Timer \cup {None}
Delay   == 0 .. MaxDelay
NoMore  == -1               \* AE_NOMORE
Forever == -1               \* no timeout

\* One call of processTimeEvents: te and maxId, what it is doing, and, while a
\* finalizer runs, next.
Frame == [te : Pointer, maxId : Pointer, after : Pointer,
          at : {"walk", "proc", "nested", "final"}]

VARIABLES
    head, nextId,   \* timeEventHead, timeEventNextId
    next, prev,     \* the links of each timer
    deleted,        \* timers whose id is AE_DELETED_EVENT_ID
    freed,          \* timers given to zfree
    wait,           \* time left until when; 0 if it is due
    ref,            \* refcount
    stack,          \* the calls of processTimeEvents, the innermost last
    phase,          \* where aeProcessEvents is; "crashed" if it followed NULL
    timeout,        \* time left to sleep
    te, earliest    \* where the search for the first timer is, and what it found

listVars   == <<head, nextId, next, prev>>
searchVars == <<te, earliest>>
loopVars   == <<phase, timeout, searchVars>>
vars       == <<listVars, deleted, freed, wait, ref, stack, loopVars>>

TypeOK ==
    /\ head \in Pointer /\ nextId \in 2 .. MaxTimers + 1
    /\ next \in [Timer -> Pointer] /\ prev \in [Timer -> Pointer]
    /\ deleted \subseteq Timer /\ freed \subseteq Timer
    /\ wait \in [Timer -> Delay] /\ ref \in [Timer -> Nat]
    /\ stack \in Seq(Frame) /\ Len(stack) <= MaxDepth
    /\ phase \in {"poll", "search", "sleep", "files", "timers", "crashed"}
    /\ phase = "timers" <=> stack # <<>>
    /\ timeout \in Delay \cup {Forever}
    /\ te \in Pointer /\ earliest \in Pointer

\* aeCreateEventLoop, then flow_control_init.
Init ==
    /\ head = 1 /\ nextId = 2
    /\ next = [k \in Timer |-> None] /\ prev = [k \in Timer |-> None]
    /\ deleted = {} /\ freed = {}
    /\ wait = [k \in Timer |-> IF k = 1 THEN MaxDelay ELSE 0]
    /\ ref = [k \in Timer |-> 0]
    /\ stack = <<>> /\ phase = "poll" /\ timeout = Forever
    /\ te = None /\ earliest = None

-----------------------------------------------------------------------------
(* Helpers *)

Top == Last(stack)
WithTop(f) == [stack EXCEPT ![Len(stack)] = f]

InHandler == phase = "files" \/ (phase = "timers" /\ Top.at # "walk")
Walking   == phase = "timers" /\ Top.at = "walk" /\ Top.te # None
MayDelete(k) == ~(Stays /\ k = 1)

\* What a walk from head reaches: it lies in every set closed under next.
Listed == {k \in Timer :
             \A S \in SUBSET Pointer :
                head \in S /\ (\A j \in S \ {None} : next[j] \in S) => k \in S}
Armed  == Listed \ deleted

Fault_LinkLast(k) ==            \* CheckIsUseless: new timers at the end
    /\ next' = [j \in Timer |-> IF j \in Listed /\ next[j] = None THEN k
                                ELSE IF j = k THEN None ELSE next[j]]
    /\ prev' = [prev EXCEPT ![k] = IF \E j \in Listed : next[j] = None
                                   THEN CHOOSE j \in Listed : next[j] = None ELSE None]
    /\ head' = IF head = None THEN k ELSE head

LinkFirst(k) ==
    /\ next' = [next EXCEPT ![k] = head]
    /\ prev' = [j \in Timer |-> CASE j = k -> None [] j # k /\ j = head -> k
                                  [] j # k /\ j # head -> prev[j]]
    /\ head' = k

Fault_UnlinkForward(k) ==       \* ListIntact: prev of the next is kept
    /\ head' = IF prev[k] = None THEN next[k] ELSE head
    /\ next' = [j \in Timer |-> IF j = prev[k] THEN next[k] ELSE next[j]]
    /\ UNCHANGED prev

Unlink(k) ==
    /\ head' = IF prev[k] = None THEN next[k] ELSE head
    /\ next' = [j \in Timer |-> IF j = prev[k] THEN next[k] ELSE next[j]]
    /\ prev' = [j \in Timer |-> IF j = next[k] THEN prev[k] ELSE prev[j]]

-----------------------------------------------------------------------------
(* What callbacks do: file handlers, timer procs and finalizers *)

CreateTimeEvent ==
    /\ InHandler /\ nextId <= MaxTimers
    /\ LinkFirst(nextId)
    /\ \E d \in Delay : wait' = [wait EXCEPT ![nextId] = d]
    /\ nextId' = nextId + 1
    /\ UNCHANGED <<deleted, freed, ref, stack, loopVars>>

\* An id that is not found, or was deleted before, changes nothing.
DeleteTimeEvent ==
    /\ InHandler
    /\ \E k \in Armed : MayDelete(k) /\ deleted' = deleted \cup {k}
    /\ UNCHANGED <<listVars, freed, wait, ref, stack, loopVars>>

TimePasses ==
    /\ InHandler \/ phase = "sleep"
    /\ wait' = [k \in Timer |-> IF wait[k] > 0 THEN wait[k] - 1 ELSE 0]
    /\ timeout' = IF timeout > 0 THEN timeout - 1 ELSE timeout
    /\ UNCHANGED <<listVars, deleted, freed, ref, stack, phase, searchVars>>

-----------------------------------------------------------------------------
(* aeProcessEvents *)

\* usUntilEarliestTimer begins; without a timer in the list there is no timeout.
Poll ==
    /\ phase = "poll"
    /\ IF head = None THEN phase' = "sleep" /\ timeout' = Forever
       ELSE phase' = "search" /\ UNCHANGED timeout
    /\ te' = head /\ earliest' = None
    /\ UNCHANGED <<listVars, deleted, freed, wait, ref, stack>>

Fault_DeletedToo(k) ==          \* WakesInTime: deleted timers wake the poll
    earliest = None \/ wait[k] < wait[earliest]

Earlier(k) == (earliest = None \/ wait[k] < wait[earliest]) /\ k \notin deleted

SearchOn ==
    /\ phase = "search" /\ te # None
    /\ earliest' = IF Earlier(te) THEN te ELSE earliest
    /\ te' = next[te]
    /\ UNCHANGED <<listVars, deleted, freed, wait, ref, stack, phase, timeout>>

\* With nothing but deleted timers in the list, earliest is NULL and followed.
SearchDone ==
    /\ phase = "search" /\ te = None
    /\ IF earliest = None THEN phase' = "crashed" /\ UNCHANGED timeout
       ELSE phase' = "sleep" /\ timeout' = wait[earliest]
    /\ earliest' = None
    /\ UNCHANGED <<listVars, deleted, freed, wait, ref, stack, te>>

WakeByFile ==
    /\ phase = "sleep" /\ phase' = "files" /\ timeout' = Forever
    /\ UNCHANGED <<listVars, deleted, freed, wait, ref, stack, searchVars>>

WakeByTimeout ==
    /\ phase = "sleep" /\ timeout = 0
    /\ phase' = "files" /\ timeout' = Forever
    /\ UNCHANGED <<listVars, deleted, freed, wait, ref, stack, searchVars>>

NewFrame == [te |-> head, maxId |-> nextId - 1, after |-> None, at |-> "walk"]

FilesDone ==
    /\ phase = "files"
    /\ phase' = "timers" /\ stack' = <<NewFrame>>
    /\ UNCHANGED <<listVars, deleted, freed, wait, ref, timeout, searchVars>>

-----------------------------------------------------------------------------
(* processTimeEvents, one turn of its loop at a time *)

Fault_Unreferenced(k) == TRUE   \* NothingDangles: freed while its proc runs

Unreferenced(k) == ref[k] = 0

SkipReferenced ==
    /\ Walking /\ Top.te \in deleted /\ ~Unreferenced(Top.te)
    /\ stack' = WithTop([Top EXCEPT !.te = next[Top.te]])
    /\ UNCHANGED <<listVars, deleted, freed, wait, ref, loopVars>>

\* Unlinked; the finalizer, if any, is running.
Finalize ==
    /\ Walking /\ Top.te \in deleted /\ Unreferenced(Top.te)
    /\ Unlink(Top.te)
    /\ stack' = WithTop([Top EXCEPT !.at = "final", !.after = next[Top.te]])
    /\ UNCHANGED <<nextId, deleted, freed, wait, ref, loopVars>>

FinalizerReturns ==
    /\ phase = "timers" /\ Top.at = "final"
    /\ freed' = freed \cup {Top.te}
    /\ stack' = WithTop([Top EXCEPT !.at = "walk", !.te = Top.after, !.after = None])
    /\ UNCHANGED <<listVars, deleted, wait, ref, loopVars>>

Fault_DueBeforeLast(k) ==       \* DueTimersRun: off by one
    k < Top.maxId /\ wait[k] = 0

Due(k) == k <= Top.maxId /\ wait[k] = 0

PassBy ==
    /\ Walking /\ Top.te \notin deleted /\ ~Due(Top.te)
    /\ stack' = WithTop([Top EXCEPT !.te = next[Top.te]])
    /\ UNCHANGED <<listVars, deleted, freed, wait, ref, loopVars>>

CallProc ==
    /\ Walking /\ Top.te \notin deleted /\ Due(Top.te)
    /\ ref' = [ref EXCEPT ![Top.te] = @ + 1]
    /\ stack' = WithTop([Top EXCEPT !.at = "proc"])
    /\ UNCHANGED <<listVars, deleted, freed, wait, loopVars>>

\* A proc runs the loop again, without waiting in it.
\* BOUND: once in a call of a proc.
Reenter ==
    /\ phase = "timers" /\ Top.at = "proc" /\ Len(stack) < MaxDepth
    /\ stack' = Append(WithTop([Top EXCEPT !.at = "nested"]), NewFrame)
    /\ UNCHANGED <<listVars, deleted, freed, wait, ref, loopVars>>

Fault_Revives(k, retval) ==     \* DeletionIsFinal: the id is written back
    IF retval = NoMore THEN deleted' = deleted \cup {k} /\ UNCHANGED wait
    ELSE wait' = [wait EXCEPT ![k] = retval] /\ deleted' = deleted \ {k}

Fault_ZeroEnds(k, retval) ==    \* NeverCrashes: no delay taken for AE_NOMORE
    IF retval <= 0 THEN deleted' = deleted \cup {k} /\ UNCHANGED wait
    ELSE wait' = [wait EXCEPT ![k] = retval] /\ UNCHANGED deleted

Rearm(k, retval) ==
    IF retval = NoMore THEN deleted' = deleted \cup {k} /\ UNCHANGED wait
    ELSE wait' = [wait EXCEPT ![k] = retval] /\ UNCHANGED deleted

Fault_KeepsRef(k) ==            \* DeletedAreFreed: lost when deleted meanwhile
    ref' = IF k \in deleted THEN ref ELSE [ref EXCEPT ![k] = @ - 1]

Release(k) == ref' = [ref EXCEPT ![k] = @ - 1]

Fault_StartsOver(k) == head     \* WalksEnd: as the loop of old versions did

AfterProc(k) == next[k]

ProcReturns ==
    /\ phase = "timers" /\ Top.at \in {"proc", "nested"}
    /\ Release(Top.te)
    /\ \E retval \in Delay \cup {NoMore} :
          /\ retval = NoMore => MayDelete(Top.te)
          /\ Rearm(Top.te, retval)
    /\ stack' = WithTop([Top EXCEPT !.at = "walk", !.te = AfterProc(Top.te)])
    /\ UNCHANGED <<listVars, freed, loopVars>>

Fault_StaysIn ==                \* TypeOK: a nested walk ends the outer one
    stack' = Front(stack) /\ phase' = "poll"

WalkDone == stack' = Front(stack) /\ phase' = IF Len(stack) = 1 THEN "poll" ELSE "timers"

Leave ==
    /\ phase = "timers" /\ Top.at = "walk" /\ Top.te = None
    /\ WalkDone
    /\ UNCHANGED <<listVars, deleted, freed, wait, ref, timeout, searchVars>>

-----------------------------------------------------------------------------
Walk == SkipReferenced \/ Finalize \/ PassBy \/ CallProc \/ Leave

Next ==
    \/ CreateTimeEvent \/ DeleteTimeEvent \/ TimePasses
    \/ Poll \/ SearchOn \/ SearchDone \/ WakeByFile \/ WakeByTimeout \/ FilesDone
    \/ Walk \/ FinalizerReturns \/ Reenter \/ ProcReturns

Spec == Init /\ [][Next]_vars

\* One thread, whose callbacks all return; time passes while it sleeps.
FairSpec ==
    /\ Spec
    /\ WF_vars(TimePasses) /\ WF_vars(Poll) /\ WF_vars(SearchOn \/ SearchDone)
    /\ WF_vars(WakeByTimeout)
    /\ WF_vars(FilesDone) /\ WF_vars(Walk)
    /\ WF_vars(FinalizerReturns) /\ WF_vars(ProcReturns)

-----------------------------------------------------------------------------
(* Correctness *)

Finalizing == {stack[i].te : i \in {j \in 1 .. Len(stack) : stack[j].at = "final"}}
Live == (1 .. nextId - 1) \ (freed \cup Finalizing)

\* Through all creations, deletions and nested walks, the list is what is
\* neither freed nor being finalized, newest first, linked both ways.
ListIntact ==
    /\ head \in Live \cup {None}
    /\ \A k \in Live :
          /\ k <= head /\ (prev[k] = None <=> k = head)
          /\ next[k] \in Live \cup {None} /\ next[k] < k
          /\ \A j \in Live : j < k => j <= next[k]
          /\ next[k] # None => prev[next[k]] = k
          /\ prev[k] # None => prev[k] \in Live /\ next[prev[k]] = k

\* No walk, at any depth, goes on from a timer that another one freed.
NothingDangles ==
    \A i \in 1 .. Len(stack) :
        /\ stack[i].te \notin freed
        /\ stack[i].after \notin freed
        /\ stack[i].at \in {"proc", "nested"} => stack[i].te \in Live

\* Once deleted, a timer stays so and its proc is not called again, not even by
\* a walk that is nested in the call of it, and whatever that call returns.
DeletionIsFinal ==
    [][\A k \in deleted : k \in deleted' /\ ref'[k] <= ref[k]]_vars

\* "Note that this check is currently useless" (processTimeEvents): no walk
\* meets a timer that was created since it began.
CheckIsUseless == \A i \in 1 .. Len(stack) : stack[i].te <= stack[i].maxId

\* The poll sleeps until the first timer that is not deleted is due, neither
\* longer nor less, wherever in the list that timer is and whatever deleted ones
\* the search of usUntilEarliestTimer meets before it.
WakesInTime ==
    phase = "sleep" =>
        IF Armed = {} THEN timeout = Forever
        ELSE /\ \E k \in Armed : timeout = wait[k]
             /\ \A k \in Armed : timeout <= wait[k]

\* The refill timer of the server keeps the poll from following NULL, whatever
\* other timers come and go.
NeverCrashes == Stays => phase # "crashed"

\* Every walk ends, though its procs ask for no delay and create timers.
WalksEnd == phase = "timers" ~> phase = "poll"

\* Why they do: each turn of processTimeEvents takes the innermost walk down the
\* list, from older to older timers, and moves no other; what callbacks create is
\* behind it.  A walk turns at most 3 * maxId + 2 times, whatever they do.
ToDo(at) == IF at = "walk" THEN 2 ELSE IF at = "proc" THEN 1 ELSE 0
Left(f)  == 3 * f.te + ToDo(f.at)

WalksDescend ==
    [][phase = "timers" /\ stack' # stack =>
          \/ stack' = Front(stack)
          \/ /\ Len(stack) <= Len(stack')
             /\ 0 <= Left(stack'[Len(stack)]) /\ Left(stack'[Len(stack)]) < Left(Top)
             /\ \A i \in 1 .. Len(stack) - 1 : stack'[i] = stack[i]]_vars

\* Every timer that is due is called or deleted.
DueTimersRun ==
    \A k \in Timer : (k \in Armed /\ wait[k] = 0) ~> (ref[k] > 0 \/ k \in deleted)

\* Every deleted timer is freed, in the end.
DeletedAreFreed == \A k \in Timer : k \in deleted ~> k \in freed

\* What makes these inductive.  Each timer counts the calls of its proc, and only
\* the innermost walk moves.
Calls(k) == {i \in 1 .. Len(stack) : stack[i].at \in {"proc", "nested"} /\ stack[i].te = k}

FrameRight(i) ==
    /\ i < Len(stack) => stack[i].at = "nested"
    /\ stack[i].te <= stack[i].maxId /\ stack[i].maxId < nextId
    /\ stack[i].at = "walk" => stack[i].te \in Live \cup {None}
    /\ stack[i].at \in {"proc", "nested"} => stack[i].te \in Live
    /\ stack[i].at = "final" => /\ stack[i].te \in deleted \ freed
                               /\ stack[i].after \in Live \cup {None}
                               /\ stack[i].after <= stack[i].maxId
    /\ stack[i].at # "final" => stack[i].after = None

\* A walk goes on behind what it finalizes.
FinalDescends ==
    \A i \in 1 .. Len(stack) : stack[i].at = "final" => stack[i].after < stack[i].te

\* What is behind the search is no earlier than what it has found.
SearchRight ==
    phase = "search" =>
        /\ te \in Live \cup {None}
        /\ earliest = None => \A k \in Live \ deleted : k <= te
        /\ earliest # None => /\ earliest \in Live \ deleted
                              /\ \A k \in Live \ deleted : te < k => wait[earliest] <= wait[k]

TimersInvariant ==
    /\ TypeOK /\ ListIntact /\ WakesInTime /\ SearchRight
    /\ deleted \subseteq 1 .. nextId - 1 /\ freed \subseteq deleted
    /\ \A i \in 1 .. Len(stack) : FrameRight(i)
    /\ \A k \in Timer : ref[k] = Cardinality(Calls(k))
    /\ Stays => 1 \notin deleted /\ phase # "crashed"

\* usUntilEarliestTimer: "If there are no timers, -1 is returned."
NoTimersNoTimeout ==
    [][(phase \in {"poll", "search"} /\ phase' \notin {"poll", "search"} /\ Armed = {})
          => timeout' = Forever /\ phase' = "sleep"]_vars
=============================================================================
