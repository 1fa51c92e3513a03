------------------------- MODULE FlowControl_proofs -------------------------
(* Theorems about FlowControl, for all values of its constants. *)
EXTENDS FlowControl, TLAPS

\* Multiplication, which the provers treat as uninterpreted unless told.
LEMMA TimesMonotone ==
    ASSUME NEW a \in Nat, NEW m \in Nat, NEW n \in Nat, m <= n
    PROVE  a * m \in Nat /\ a * m <= a * n
  OBVIOUS

\* The tokens of one more period.
LEMMA TimesPlus ==
    ASSUME NEW a \in Nat, NEW m \in Nat, NEW n \in Nat
    PROVE  a * (m + n) = a * m + a * n
  OBVIOUS

\* The bucket starts full, and no window has credited anything.
LEMMA BucketInit == Init => BucketInvariant
  <1> SUFFICES ASSUME Init PROVE BucketInvariant
    OBVIOUS
  <1>1. TypeOK
    <2>1. dropped \in BOOLEAN
      BY DEF Init
    <2> QED BY <2>1, BucketAssumption DEF Init, TypeOK
  <1>2. TokensPerMs * 0 = 0
    BY BucketAssumption
  <1> QED BY <1>1, <1>2, BucketAssumption DEF Init, TypeOK, BucketInvariant

\* Every step keeps the account of tokens and time balanced.
LEMMA BucketStep == BucketInvariant /\ [Next]_vars => BucketInvariant'
  <1> SUFFICES ASSUME BucketInvariant, [Next]_vars PROVE BucketInvariant'
    OBVIOUS
  <1> USE BucketAssumption, ClockAssumption
  <1>1. CASE ClockAdvances
    BY <1>1 DEF ClockAdvances, BucketInvariant, TypeOK
  <1>2. CASE ClockSetBack
    BY <1>2 DEF ClockSetBack, history, BucketInvariant, TypeOK
  <1>3. CASE NewWindow
    <2>1. TokensPerMs * 0 = 0
      OBVIOUS
    <2> QED BY <1>3, <2>1 DEF NewWindow, BucketInvariant, TypeOK
  <1>4. CASE WakeByRequest \/ WakeByTimer \/ FilesDone
    BY <1>4 DEF WakeByRequest, WakeByTimer, FilesDone, history, BucketInvariant, TypeOK
  <1>5. CASE Consume
    <2>1. TokensPerMs * earned \in Nat
      BY TimesMonotone DEF BucketInvariant, TypeOK
    <2>2. dropped' \in BOOLEAN
      BY <1>5 DEF Consume, BucketInvariant, TypeOK
    <2>3. /\ tokens' \in 0 .. Capacity /\ granted' \in Nat
          /\ granted' + tokens' = granted + tokens
      BY <1>5 DEF Consume, BucketInvariant, TypeOK
    <2>4. UNCHANGED <<due, phase, earned, elapsed>>
      BY <1>5 DEF Consume
    <2> QED BY <2>1, <2>2, <2>3, <2>4 DEF BucketInvariant, TypeOK
  <1>6. CASE RunTimers
    <2>1. CASE due > 0
      <3>1. UNCHANGED <<tokens, due, earned, granted, dropped, elapsed>>
        BY <1>6, <2>1 DEF RunTimers, BucketInvariant, TypeOK
      <3>2. phase' = "poll"
        BY <1>6 DEF RunTimers
      <3> QED BY <3>1, <3>2 DEF BucketInvariant, TypeOK
    <2>2. CASE due <= 0
      <3> DEFINE refill == TokensPerMs * Period
      <3>1. refill \in Nat /\ TokensPerMs * earned \in Nat
        BY TimesMonotone DEF BucketInvariant, TypeOK
      <3>2. TokensPerMs * earned' = TokensPerMs * earned + refill
        BY <1>6, <2>2, TimesPlus DEF RunTimers, BucketInvariant, TypeOK
      <3>3. /\ tokens' = IF tokens + refill > Capacity THEN Capacity ELSE tokens + refill
            /\ earned' = earned + Period /\ due' = Period
            /\ UNCHANGED <<granted, dropped, elapsed>> /\ phase' = "poll"
        BY <1>6, <2>2 DEF RunTimers, Refill, NextDue
      <3> HIDE DEF refill
      <3>4. /\ tokens' \in 0 .. Capacity
            /\ granted' + tokens' <= Capacity + TokensPerMs * earned'
        BY <3>1, <3>2, <3>3 DEF BucketInvariant, TypeOK
      <3>5. /\ earned' \in Nat /\ earned' <= elapsed' + Period
            /\ earned' <= elapsed' + due'
        BY <2>2, <3>3 DEF BucketInvariant, TypeOK
      <3> QED BY <3>3, <3>4, <3>5 DEF BucketInvariant, TypeOK
    <2> QED BY <2>1, <2>2 DEF BucketInvariant, TypeOK
  <1>7. CASE UNCHANGED vars
    BY <1>7 DEF vars, history, BucketInvariant, TypeOK
  <1> QED BY <1>1, <1>2, <1>3, <1>4, <1>5, <1>6, <1>7 DEF Next, Loop

\* The account of flow_control.c: what was granted and what is in the bucket
\* never exceed what on_timer credited, and what it credited fits in the time.
THEOREM Account == Spec => []BucketInvariant
  BY BucketInit, BucketStep, PTL DEF Spec

\* The bucket stays between empty and full through on_timer and
\* flow_control_consume_token, for any capacity, rate and period.
THEOREM BucketTypeCorrect == Spec => []TypeOK
  <1>1. BucketInvariant => TypeOK
    BY DEF BucketInvariant
  <1> QED BY Account, <1>1, PTL

\* The limiter of flow_control.c limits: no window of time, wherever it begins,
\* lets through more than a full bucket, its own length's worth and one period.
THEOREM Limited == Spec => []WindowBound
  <1>1. BucketInvariant => WindowBound
    <2> SUFFICES ASSUME BucketInvariant PROVE WindowBound
      OBVIOUS
    <2> USE BucketAssumption
    <2>1. TokensPerMs * earned <= TokensPerMs * (elapsed + Period)
      BY TimesMonotone DEF BucketInvariant, TypeOK
    <2>2. TokensPerMs * earned \in Nat /\ TokensPerMs * (elapsed + Period) \in Nat
      BY TimesMonotone DEF BucketInvariant, TypeOK
    <2> QED BY <2>1, <2>2 DEF BucketInvariant, WindowBound, TypeOK
  <1> QED BY Account, <1>1, PTL

(* How slow the refill may be *)

\* Multiplication by a natural number keeps the order, also below zero.
LEMMA TimesOrder ==
    ASSUME NEW a \in Nat, NEW m \in Int, NEW n \in Int, m <= n
    PROVE  a * m <= a * n
  OBVIOUS

\* The factor a is taken out of a sum.
LEMMA TimesSum ==
    ASSUME NEW a \in Int, NEW m \in Int, NEW n \in Int
    PROVE  a * (m + n) = a * m + a * n /\ a * m \in Int
  OBVIOUS

\* A lateness is paid for once, by the refill that comes late.
LEMMA LateStep ==
    ASSUME MaxBack = 0, BucketInvariant, LateCredit, [Next]_vars
    PROVE  LateCredit'
  <1> USE BucketAssumption, ClockAssumption
  <1> DEFINE late == Period + MaxLate
  <1>1. /\ earned \in Nat /\ elapsed \in Nat /\ due \in Int /\ late \in Nat
        /\ -MaxLate <= due /\ due <= Period
        /\ Period * (elapsed + due) <= late * earned + Period * Period
    BY DEF BucketInvariant, TypeOK, LateCredit
  <1>2. CASE UNCHANGED <<due, elapsed, earned>>
    BY <1>1, <1>2 DEF LateCredit
  <1>3. CASE ClockAdvances
    <2>1. PICK d \in 1 .. MaxAdvance :
             due - d >= -MaxLate /\ elapsed' = elapsed + d /\ due' = due - d /\ earned' = earned
      BY <1>3 DEF ClockAdvances
    <2>2. elapsed' + due' = elapsed + due /\ -MaxLate <= due' /\ due' <= Period
      BY <1>1, <2>1
    <2> QED BY <1>1, <2>1, <2>2 DEF LateCredit
  <1>4. CASE NewWindow
    <2>1. earned' = 0 /\ elapsed' = 0 /\ due' = due
      BY <1>4 DEF NewWindow
    <2>2. Period * due <= Period * Period /\ late * 0 = 0
      BY <1>1, TimesOrder
    <2>3. Period * (0 + due) = Period * due
      BY <1>1
    <2> QED BY <1>1, <2>1, <2>2, <2>3 DEF LateCredit
  <1>5. CASE RunTimers /\ due <= 0
    <2>1. earned' = earned + Period /\ elapsed' = elapsed /\ due' = Period
      BY <1>5 DEF RunTimers, NextDue
    <2>2. Period * (elapsed + Period) = Period * (elapsed + due) + Period * (Period - due)
      <3>1. elapsed + Period = (elapsed + due) + (Period - due)
        BY <1>1
      <3> QED BY <1>1, <3>1, TimesSum
    <2>3. Period * (Period - due) <= Period * late
      BY <1>1, TimesOrder
    <2>4. late * (earned + Period) = late * earned + Period * late
      BY <1>1, TimesSum
    <2>5. Period * (elapsed + Period) <= late * (earned + Period) + Period * Period
      <3>1. /\ Period * (elapsed + due) \in Int /\ Period * (Period - due) \in Int
            /\ Period * late \in Int /\ late * earned \in Int /\ Period * Period \in Int
        BY <1>1, TimesSum
      <3> QED BY <1>1, <2>2, <2>3, <2>4, <3>1
    <2> QED BY <1>1, <2>1, <2>5 DEF LateCredit
  <1>6. CASE RunTimers /\ due > 0
    BY <1>2, <1>6, <1>1 DEF RunTimers
  <1>7. ~ClockSetBack
    BY DEF ClockSetBack
  <1> QED BY <1>1, <1>2, <1>3, <1>4, <1>5, <1>6, <1>7
          DEF Next, Loop, WakeByRequest, WakeByTimer, FilesDone, Consume, vars, history

\* The limiter of flow_control.c does not starve: on a clock that is not set back
\* the tokens of Period milliseconds come at least every Period + MaxLate.
THEOREM SlowestPace == ASSUME MaxBack = 0 PROVE Spec => []LateCredit
  <1>1. Init => LateCredit
    <2> SUFFICES ASSUME Init PROVE LateCredit
      OBVIOUS
    <2>1. (Period + MaxLate) * 0 = 0 /\ Period * (0 + Period) = Period * Period
      BY BucketAssumption, ClockAssumption
    <2> QED BY <2>1, BucketAssumption, ClockAssumption DEF Init, LateCredit
  <1> QED BY <1>1, LateStep, Account, PTL DEF Spec

\* The rate flow_control.c documents is kept if the timer is never late and the
\* clock is never set back: lateness is all that keeps it from its promise.
THEOREM PunctualPace == ASSUME MaxBack = 0, MaxLate = 0 PROVE Spec => []PaceKept
  <1>1. BucketInvariant /\ LateCredit => PaceKept
    <2> SUFFICES ASSUME BucketInvariant, LateCredit, due > 0, earned < elapsed - Period
                 PROVE  FALSE
      BY BucketAssumption DEF PaceKept, BucketInvariant, TypeOK
    <2> USE BucketAssumption
    <2>1. earned \in Nat /\ elapsed \in Nat /\ due \in Int
      BY DEF BucketInvariant, TypeOK
    <2>2. Period * (elapsed + due) <= Period * earned + Period * Period
      BY <2>1 DEF LateCredit
    <2>3. Period * (earned + Period) = Period * earned + Period * Period
      BY <2>1, TimesSum
    <2>4. elapsed + due >= (earned + Period) + 1
      BY <2>1
    <2>5. Period * ((earned + Period) + 1) <= Period * (elapsed + due)
      BY <2>1, <2>4, TimesOrder
    <2>6. Period * ((earned + Period) + 1) = Period * (earned + Period) + Period
      BY <2>1, TimesSum
    <2>7. Period * (earned + Period) \in Int /\ Period * (elapsed + due) \in Int
      BY <2>1, TimesSum
    <2> QED BY <2>1, <2>2, <2>3, <2>5, <2>6, <2>7
  <1> QED BY <1>1, SlowestPace, Account, PTL
=============================================================================
