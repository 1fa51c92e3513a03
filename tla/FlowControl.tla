---------------------------- MODULE FlowControl ----------------------------
(***************************************************************************)
(* The token bucket of flow_control.c and the one timer that refills it,   *)
(* run by the event loop of ae.c: file events first, then time events, and *)
(* a poll that sleeps until the timer is due.                              *)
(*                                                                         *)
(* Time is the clock the code reads, gettimeofday in milliseconds: it      *)
(* passes while handlers run, may be set forward (one long advance) and    *)
(* may be set back.  Only its distance to the timer's due time and to the  *)
(* start of an observation window matter, so only these are kept.          *)
(*                                                                         *)
(* Definitions named Fault_... are mistakes this code could have had; no   *)
(* specification uses them.  Put in the place of the definition after      *)
(* them, each breaks the property it names.                                *)
(***************************************************************************)
EXTENDS Integers

CONSTANTS
    Capacity,       \* BUCKET_CAPACITY
    TokensPerMs,    \* TOKENS_PER_MS
    Period,         \* the 10 of on_timer and flow_control_init
    MaxAdvance,     \* BOUND: milliseconds the clock advances in one step
    MaxBack,        \* BOUND: how far it is ever set back
    MaxLate,        \* BOUND: how late the timer ever is
    MaxElapsed      \* BOUND: length of an observation window

ASSUME BucketAssumption ==
    /\ Capacity \in Nat \ {0} /\ TokensPerMs \in Nat \ {0} /\ Period \in Nat \ {0}
ASSUME ClockAssumption ==
    /\ MaxAdvance \in Nat \ {0}
    /\ MaxBack \in Nat /\ MaxLate \in Nat /\ MaxElapsed \in Nat

VARIABLES
    tokens,     \* the bucket
    due,        \* te->when minus the clock: negative when the timer is late
    phase,      \* of aeProcessEvents: "poll", "files" or "timers"
    granted,    \* HISTORY: tokens consumed since the window began
    dropped,    \* HISTORY: whether the last request found the bucket empty
    earned,     \* HISTORY: milliseconds credited by on_timer in the window
    elapsed     \* HISTORY: milliseconds the clock advanced in the window

history == <<granted, dropped, earned, elapsed>>
vars == <<tokens, due, phase, history>>

TypeOK ==
    /\ tokens \in 0 .. Capacity
    /\ due \in Int
    /\ phase \in {"poll", "files", "timers"}
    /\ granted \in Nat /\ dropped \in BOOLEAN
    /\ earned \in Nat /\ elapsed \in Nat

\* The bucket starts full; flow_control_init creates the timer, and aeMain polls.
Init ==
    /\ tokens = Capacity /\ due = Period /\ phase = "poll"
    /\ granted = 0 /\ dropped = FALSE /\ earned = 0 /\ elapsed = 0

-----------------------------------------------------------------------------
(* The clock and the observer *)

ClockAdvances ==
    \E d \in 1 .. MaxAdvance :
        /\ elapsed + d <= MaxElapsed /\ due - d >= -MaxLate
        /\ elapsed' = elapsed + d
        /\ due' = due - d
        /\ UNCHANGED <<tokens, phase, granted, dropped, earned>>

ClockSetBack ==
    \E d \in 1 .. MaxBack :
        /\ due + d <= Period + MaxBack
        /\ due' = due + d
        /\ UNCHANGED <<tokens, phase, history>>

\* An observation window may begin at any moment.
NewWindow ==
    /\ granted' = 0 /\ earned' = 0 /\ elapsed' = 0
    /\ UNCHANGED <<tokens, due, phase, dropped>>

-----------------------------------------------------------------------------
(* The event loop *)

\* aeApiPoll returns because a descriptor is ready, or at its timeout, which is
\* the time left to the earliest timer.
WakeByRequest ==
    /\ phase = "poll" /\ phase' = "files"
    /\ UNCHANGED <<tokens, due, history>>

Fault_SleepsForever ==  \* RefillArrives: no timeout given to the poll
    FALSE /\ UNCHANGED vars

WakeByTimer ==
    /\ phase = "poll" /\ due <= 0 /\ phase' = "files"
    /\ UNCHANGED <<tokens, due, history>>

\* flow_control_consume_token, once for each message completed.
Consume ==
    /\ phase = "files"
    /\ IF tokens > 0
          THEN tokens' = tokens - 1 /\ granted' = granted + 1 /\ dropped' = FALSE
          ELSE dropped' = TRUE /\ UNCHANGED <<tokens, granted>>
    /\ UNCHANGED <<due, phase, earned, elapsed>>

FilesDone ==
    /\ phase = "files" /\ phase' = "timers"
    /\ UNCHANGED <<tokens, due, history>>

Fault_Refill(t) == t + TokensPerMs * Period     \* TypeOK: no cap

\* on_timer: tokens for one period, however long it really took.
Refill(t) ==
    IF t + TokensPerMs * Period > Capacity THEN Capacity
                                           ELSE t + TokensPerMs * Period

Fault_NextDue == due + Period   \* WindowBound: catches up on missed periods

\* processTimeEvents: te->when = now + retval, with now read after on_timer.
NextDue == Period

RunTimers ==
    /\ phase = "timers" /\ phase' = "poll"
    /\ IF due <= 0
          THEN /\ tokens' = Refill(tokens)
               /\ due' = NextDue
               /\ earned' = earned + Period
          ELSE UNCHANGED <<tokens, due, earned>>
    /\ UNCHANGED <<granted, dropped, elapsed>>

-----------------------------------------------------------------------------
Loop == WakeByTimer \/ FilesDone \/ RunTimers

Next ==
    \/ ClockAdvances \/ ClockSetBack \/ NewWindow
    \/ WakeByRequest \/ Consume \/ Loop

Spec == Init /\ [][Next]_vars

\* The loop keeps turning, time passes, and nobody sets the clock back for ever.
\* WF of FilesDone is an assumption on the peers: on_read_ready reads until
\* EAGAIN, so none may send for ever.
FairSpec ==
    /\ Spec
    /\ WF_vars(ClockAdvances) /\ <>[][~ClockSetBack]_vars
    /\ WF_vars(WakeByTimer) /\ WF_vars(FilesDone) /\ WF_vars(RunTimers)

-----------------------------------------------------------------------------
(* Correctness *)

\* The limit holds over every stretch of time, not only on average: the
\* requests let through in any window are at most a full bucket, what the
\* window's length earns, and one refill that was due when it began; late
\* timers are not made up for, and setting the clock back gives nothing.
WindowBound == granted <= Capacity + TokensPerMs * (elapsed + Period)

\* What makes it inductive: the bucket and the grants together never exceed
\* what was in it and came in, and the periods credited fit into the time that
\* passed up to the next due time.
BucketInvariant ==
    /\ TypeOK
    /\ granted + tokens <= Capacity + TokensPerMs * earned
    /\ earned <= elapsed + Period
    /\ earned = 0 \/ earned <= elapsed + due

\* An empty bucket is filled again (unless the bounded time has run out).
RefillArrives == tokens = 0 ~> tokens > 0 \/ elapsed = MaxElapsed

\* The rate flow_control.c documents (50 tokens in each millisecond) and /config
\* reports: whenever no refill is overdue, the time credited is the time that
\* passed, but for the period that has just begun.
PaceKept == due > 0 => earned >= elapsed - Period

\* What the rate really is, on a clock that is never set back: on_timer is due
\* Period after it last ran, so each refill may come MaxLate after the one it
\* should follow at once, and the time credited is at least Period/(Period+MaxLate)
\* of the time up to the next due time, but for one period.
LateCredit ==
    /\ -MaxLate <= due /\ due <= Period
    /\ Period * (elapsed + due) <= (Period + MaxLate) * earned + Period * Period
=============================================================================
