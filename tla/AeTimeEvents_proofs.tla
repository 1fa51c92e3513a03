------------------------ MODULE AeTimeEvents_proofs ------------------------
(* Theorems about AeTimeEvents, for all values of its constants. *)
EXTENDS AeTimeEvents, FiniteSetTheorems, SequenceTheorems, WellFoundedInduction, TLAPS

(* The stack of walks *)

\* The innermost walk, and what replacing it does to the stack.
LEMMA StackTop ==
    ASSUME TypeOK, phase = "timers"
    PROVE  /\ Len(stack) \in Nat \ {0} /\ Top = stack[Len(stack)] /\ Top \in Frame
           /\ \A i \in 1 .. Len(stack) : stack[i] \in Frame
           /\ \A f \in Frame :
                 /\ WithTop(f) \in Seq(Frame) /\ Len(WithTop(f)) = Len(stack)
                 /\ \A i \in 1 .. Len(stack) :
                       WithTop(f)[i] = IF i = Len(stack) THEN f ELSE stack[i]
  <1>1. stack \in Seq(Frame) /\ stack # <<>>
    BY DEF TypeOK
  <1>2. Len(stack) \in Nat \ {0} /\ \A i \in 1 .. Len(stack) : stack[i] \in Frame
    BY <1>1
  <1>3. Top = stack[Len(stack)]
    BY DEF Top, Last
  <1>4. ASSUME NEW f \in Frame
        PROVE  /\ WithTop(f) \in Seq(Frame) /\ Len(WithTop(f)) = Len(stack)
               /\ \A i \in 1 .. Len(stack) :
                     WithTop(f)[i] = IF i = Len(stack) THEN f ELSE stack[i]
    BY <1>1, <1>2 DEF WithTop
  <1> QED BY <1>2, <1>3, <1>4

\* The timers being finalized, where only the innermost walk can be at it.
LEMMA FinalizingIs ==
    ASSUME NEW s \in Seq(Frame), \A i \in 1 .. Len(s) : i < Len(s) => s[i].at = "nested"
    PROVE  {s[i].te : i \in {j \in 1 .. Len(s) : s[j].at = "final"}}
           = IF s # <<>> /\ s[Len(s)].at = "final" THEN {s[Len(s)].te} ELSE {}
  <1>1. Len(s) \in Nat /\ (s # <<>> <=> Len(s) > 0)
    OBVIOUS
  <1>2. \A i \in 1 .. Len(s) : s[i].at = "final" => i = Len(s)
    BY <1>1
  <1> QED BY <1>1, <1>2

\* What is in the list.
LEMMA LiveIs ==
    ASSUME TimersInvariant
    PROVE  /\ phase # "timers" \/ Top.at # "final" =>
                 Finalizing = {} /\ Live = (1 .. nextId - 1) \ freed
           /\ phase = "timers" /\ Top.at = "final" =>
                 Finalizing = {Top.te} /\ Live = (1 .. nextId - 1) \ (freed \cup {Top.te})
  <1>1. stack \in Seq(Frame) /\ (phase = "timers" <=> stack # <<>>) /\ TypeOK
    BY DEF TimersInvariant, TypeOK
  <1>2. Finalizing = IF stack # <<>> /\ stack[Len(stack)].at = "final"
                     THEN {stack[Len(stack)].te} ELSE {}
    BY <1>1, FinalizingIs DEF Finalizing, TimersInvariant, FrameRight
  <1>3. CASE phase # "timers"
    BY <1>1, <1>2, <1>3 DEF Live
  <1>4. CASE phase = "timers"
    <2>1. Top = stack[Len(stack)]
      BY <1>1, <1>4, StackTop
    <2> QED BY <1>1, <1>2, <1>4, <2>1 DEF Live
  <1> QED BY <1>3, <1>4

\* A step of the innermost walk that finalizes nothing leaves the list alone.
LEMMA LiveKept ==
    ASSUME TimersInvariant, phase = "timers", Top.at # "final",
           NEW f \in Frame, f.at # "final", stack' = WithTop(f),
           nextId' = nextId, freed' = freed
    PROVE  Live' = Live
  <1>1. /\ Len(stack) \in Nat \ {0} /\ stack' \in Seq(Frame) /\ Len(stack') = Len(stack)
        /\ \A i \in 1 .. Len(stack) : stack'[i] = IF i = Len(stack) THEN f ELSE stack[i]
    BY StackTop DEF TimersInvariant
  <1>2. \A i \in 1 .. Len(stack') : i < Len(stack') => stack'[i].at = "nested"
    BY <1>1 DEF TimersInvariant, FrameRight
  <1>3. Finalizing' = {}
    BY <1>1, <1>2, FinalizingIs DEF Finalizing
  <1> QED BY <1>3, LiveIs DEF Live

\* Whose proc runs where, when the innermost walk is replaced.
LEMMA CallsMove ==
    ASSUME TimersInvariant, phase = "timers", NEW f \in Frame, stack' = WithTop(f), NEW k
    PROVE  /\ IsFiniteSet(Calls(k)) /\ Cardinality(Calls(k)) \in Nat
           /\ Len(stack) \in Calls(k) <=> Top.at \in {"proc", "nested"} /\ Top.te = k
           /\ Calls(k)' = IF f.at \in {"proc", "nested"} /\ f.te = k
                          THEN Calls(k) \cup {Len(stack)} ELSE Calls(k) \ {Len(stack)}
  <1>1. /\ Len(stack) \in Nat \ {0} /\ Len(stack') = Len(stack) /\ Top = stack[Len(stack)]
        /\ \A i \in 1 .. Len(stack) : stack'[i] = IF i = Len(stack) THEN f ELSE stack[i]
    BY StackTop DEF TimersInvariant
  <1>2. IsFiniteSet(Calls(k)) /\ Cardinality(Calls(k)) \in Nat
    <2>1. IsFiniteSet(1 .. Len(stack)) /\ Calls(k) \in SUBSET (1 .. Len(stack))
      BY <1>1, FS_Interval DEF Calls
    <2>2. IsFiniteSet(Calls(k))
      BY <2>1, FS_Subset
    <2> QED BY <2>2, FS_CardinalityType
  <1>3. \A i : i \in Calls(k) <=> i \in 1 .. Len(stack) /\ stack[i].at \in {"proc", "nested"}
                                  /\ stack[i].te = k
    BY DEF Calls
  <1>4. \A i : i \in Calls(k)' <=> i \in 1 .. Len(stack') /\ stack'[i].at \in {"proc", "nested"}
                                   /\ stack'[i].te = k
    BY DEF Calls
  <1>5. Len(stack) \in 1 .. Len(stack)
    BY <1>1
  <1>6. Len(stack) \in Calls(k) <=> Top.at \in {"proc", "nested"} /\ Top.te = k
    BY <1>1, <1>3, <1>5
  <1>7. \A i : i \in Calls(k)' <=> \/ i \in Calls(k) /\ i # Len(stack)
                                   \/ i = Len(stack) /\ f.at \in {"proc", "nested"} /\ f.te = k
    BY <1>1, <1>3, <1>4, <1>5
  <1>8. Calls(k)' = IF f.at \in {"proc", "nested"} /\ f.te = k
                    THEN Calls(k) \cup {Len(stack)} ELSE Calls(k) \ {Len(stack)}
    BY <1>7
  <1> QED BY <1>2, <1>6, <1>8

\* The outer walks keep their places, as long as no timer leaves the list.
LEMMA OuterFrames ==
    ASSUME TimersInvariant, phase = "timers", NEW f \in Frame, stack' = WithTop(f),
           nextId' = nextId, Live \subseteq Live'
    PROVE  \A i \in 1 .. Len(stack') : i < Len(stack') => FrameRight(i)'
  <1>1. /\ Len(stack) \in Nat \ {0} /\ Len(stack') = Len(stack)
        /\ \A i \in 1 .. Len(stack) : stack'[i] = IF i = Len(stack) THEN f ELSE stack[i]
    BY StackTop DEF TimersInvariant
  <1> SUFFICES ASSUME NEW i \in 1 .. Len(stack), i < Len(stack) PROVE FrameRight(i)'
    BY <1>1
  <1>2. stack'[i] = stack[i] /\ FrameRight(i) /\ stack[i].at = "nested"
    BY <1>1 DEF TimersInvariant, FrameRight
  <1> QED BY <1>1, <1>2 DEF FrameRight

\* The links of the list, in the words of ListIntact.
LEMMA ListKept ==
    ASSUME ListIntact, Live' = Live, UNCHANGED <<head, next, prev>>
    PROVE  ListIntact'
  BY DEF ListIntact

\* The innermost walk moves on within the list, or starts or ends a call.
LEMMA MoveKeeps ==
    ASSUME TimersInvariant, phase = "timers", Top.at # "final",
           NEW f \in Frame, f.at # "final", f.maxId = Top.maxId, f.after = None,
           f.te \in Live \cup {None}, f.te <= f.maxId, f.te = None => f.at = "walk",
           stack' = WithTop(f), UNCHANGED <<listVars, freed>>
    PROVE  /\ ListIntact' /\ \A i \in 1 .. Len(stack') : FrameRight(i)'
           /\ stack' \in Seq(Frame) /\ stack' # <<>> /\ Len(stack') <= MaxDepth
           /\ Live' = Live
  <1>1. UNCHANGED <<head, nextId, next, prev, freed>>
    BY DEF listVars
  <1>2. Live' = Live
    BY <1>1, LiveKept
  <1>3. /\ Len(stack) \in Nat \ {0} /\ Len(stack') = Len(stack) /\ stack' \in Seq(Frame)
        /\ stack'[Len(stack)] = f /\ Top = stack[Len(stack)]
        /\ Len(stack) \in 1 .. Len(stack)
    BY StackTop DEF TimersInvariant
  <1>4. ListIntact'
    BY <1>1, <1>2, ListKept DEF TimersInvariant
  <1>5. \A i \in 1 .. Len(stack') : i < Len(stack') => FrameRight(i)'
    BY <1>1, <1>2, OuterFrames
  <1>6. ASSUME NEW n, n = Len(stack) PROVE FrameRight(n)'
    <2>1. Top.maxId < nextId
      BY <1>3 DEF TimersInvariant, FrameRight
    <2>2. f.at \in {"proc", "nested"} => f.te \in Live
      BY <1>2
    <2> QED BY <1>1, <1>2, <1>3, <1>6, <2>1, <2>2 DEF FrameRight
  <1>7. \A i \in 1 .. Len(stack') : FrameRight(i)'
    <2> SUFFICES ASSUME NEW i \in 1 .. Len(stack') PROVE FrameRight(i)'
      OBVIOUS
    <2>1. CASE i < Len(stack')
      BY <1>5, <2>1
    <2>2. CASE ~(i < Len(stack'))
      <3>1. i = Len(stack)
        BY <1>3, <2>2
      <3> QED BY <1>6, <3>1
    <2> QED BY <2>1, <2>2
  <1>8. stack' # <<>> /\ Len(stack') <= MaxDepth
    BY <1>3 DEF TimersInvariant, TypeOK
  <1> QED BY <1>2, <1>3, <1>4, <1>7, <1>8

\* Where the innermost walk stands.
LEMMA WalkAt ==
    ASSUME TimersInvariant, phase = "timers"
    PROVE  /\ Top \in Frame /\ FrameRight(Len(stack)) /\ Top = stack[Len(stack)]
           /\ Top.te <= Top.maxId /\ Top.maxId < nextId
           /\ Top.at = "walk" => Top.te \in Live \cup {None}
           /\ Top.at \in {"proc", "nested"} => Top.te \in Live
           /\ Top.at # "final" => Top.after = None
           /\ Top.te \in Live => /\ Top.te \in Timer /\ Top.te < nextId
                                 /\ next[Top.te] \in Live \cup {None}
                                 /\ next[Top.te] \in Pointer /\ next[Top.te] < Top.te
                                 /\ next[Top.te] <= Top.maxId
  <1>1. Top \in Frame /\ Top = stack[Len(stack)] /\ Len(stack) \in 1 .. Len(stack)
    BY StackTop DEF TimersInvariant
  <1>2. FrameRight(Len(stack))
    BY <1>1 DEF TimersInvariant
  <1>3. ASSUME Top.te \in Live
        PROVE  /\ Top.te \in Timer /\ Top.te < nextId
               /\ next[Top.te] \in Live \cup {None}
               /\ next[Top.te] \in Pointer /\ next[Top.te] < Top.te
               /\ next[Top.te] <= Top.maxId
    <2>1. Top.te \in 1 .. nextId - 1 /\ nextId \in 2 .. MaxTimers + 1
      BY <1>3 DEF Live, TimersInvariant, TypeOK
    <2>2. Top.te \in Timer /\ Top.te < nextId
      BY <2>1, MaxTimersAssumption DEF Timer
    <2>3. next[Top.te] \in Live \cup {None} /\ next[Top.te] < Top.te
      BY <1>3 DEF TimersInvariant, ListIntact
    <2>4. next[Top.te] \in Pointer
      BY <2>2 DEF TimersInvariant, TypeOK
    <2>5. Top.te <= Top.maxId /\ Top.maxId \in Nat
      BY <1>1, <1>2 DEF FrameRight, Frame, Pointer, Timer, None
    <2> QED BY <2>1, <2>2, <2>3, <2>4, <2>5, MaxTimersAssumption DEF Pointer, Timer, None
  <1> QED BY <1>1, <1>2, <1>3 DEF FrameRight

(* The steps of processTimeEvents *)

\* A walk passes by a timer.
LEMMA PassStep ==
    ASSUME TimersInvariant, Walking,
           stack' = WithTop([Top EXCEPT !.te = next[Top.te]]),
           UNCHANGED <<listVars, deleted, freed, wait, ref, loopVars>>
    PROVE  TimersInvariant'
  <1> DEFINE f == [Top EXCEPT !.te = next[Top.te]]
  <1>1. /\ phase = "timers" /\ Top.at = "walk" /\ Top.te \in Live
        /\ UNCHANGED <<head, nextId, next, prev, deleted, freed, wait, ref, phase, timeout,
                       te, earliest>>
    BY WalkAt DEF Walking, listVars, loopVars, searchVars
  <1>2. /\ f \in Frame /\ f.te = next[Top.te] /\ f.at = "walk"
        /\ f.maxId = Top.maxId /\ f.after = None
        /\ f.te \in Live \cup {None} /\ f.te <= f.maxId
    BY <1>1, WalkAt DEF Frame
  <1>3. /\ ListIntact' /\ \A i \in 1 .. Len(stack') : FrameRight(i)'
        /\ stack' \in Seq(Frame) /\ stack' # <<>> /\ Len(stack') <= MaxDepth
    BY <1>1, <1>2, MoveKeeps
  <1>4. ASSUME NEW k PROVE Calls(k)' = Calls(k)
    <2>1. Len(stack) \notin Calls(k) /\ Calls(k)' = Calls(k) \ {Len(stack)}
      BY <1>1, <1>2, CallsMove
    <2> QED BY <2>1
  <1>5. TypeOK'
    BY <1>1, <1>3 DEF TimersInvariant, TypeOK
  <1>6. \A k \in Timer : ref'[k] = Cardinality(Calls(k))'
    BY <1>1, <1>4 DEF TimersInvariant
  <1> QED BY <1>1, <1>3, <1>5, <1>6 DEF TimersInvariant, WakesInTime, SearchRight

\* A proc is called.
LEMMA CallStep == TimersInvariant /\ CallProc => TimersInvariant'
  <1> SUFFICES ASSUME TimersInvariant, CallProc PROVE TimersInvariant'
    OBVIOUS
  <1> DEFINE f == [Top EXCEPT !.at = "proc"]
  <1>1. /\ phase = "timers" /\ Top.at = "walk" /\ Top.te \in Live /\ Top.te # None
        /\ stack' = WithTop(f) /\ ref' = [ref EXCEPT ![Top.te] = @ + 1]
        /\ UNCHANGED <<head, nextId, next, prev, deleted, freed, wait, phase, timeout,
                       te, earliest>>
    BY WalkAt DEF CallProc, Walking, listVars, loopVars, searchVars
  <1>2. /\ f \in Frame /\ f.te = Top.te /\ f.at = "proc"
        /\ f.maxId = Top.maxId /\ f.after = None
        /\ f.te \in Live \cup {None} /\ f.te <= f.maxId
    BY <1>1, WalkAt DEF Frame
  <1>3. /\ ListIntact' /\ \A i \in 1 .. Len(stack') : FrameRight(i)'
        /\ stack' \in Seq(Frame) /\ stack' # <<>> /\ Len(stack') <= MaxDepth
    BY <1>1, <1>2, MoveKeeps DEF listVars
  <1>4. Top.te \in Timer /\ ref \in [Timer -> Nat]
    BY <1>1, WalkAt DEF TimersInvariant, TypeOK
  <1>5. ref' \in [Timer -> Nat]
    BY <1>1, <1>4
  <1>6. TypeOK'
    BY <1>1, <1>3, <1>5 DEF TimersInvariant, TypeOK
  <1>7. ASSUME NEW k \in Timer PROVE ref'[k] = Cardinality(Calls(k))'
    <2>1. /\ IsFiniteSet(Calls(k)) /\ Len(stack) \notin Calls(k)
          /\ Calls(k)' = IF Top.te = k THEN Calls(k) \cup {Len(stack)}
                         ELSE Calls(k) \ {Len(stack)}
      BY <1>1, <1>2, CallsMove
    <2>2. ref[k] = Cardinality(Calls(k)) /\ ref[k] \in Nat
      BY <1>4 DEF TimersInvariant
    <2>3. CASE Top.te = k
      <3>1. Cardinality(Calls(k) \cup {Len(stack)}) = Cardinality(Calls(k)) + 1
        BY <2>1, FS_AddElement
      <3> QED BY <1>1, <1>4, <2>1, <2>2, <2>3, <3>1
    <2>4. CASE Top.te # k
      <3>1. Calls(k)' = Calls(k)
        BY <2>1, <2>4
      <3> QED BY <1>1, <1>4, <2>2, <2>4, <3>1
    <2> QED BY <2>3, <2>4
  <1> QED BY <1>1, <1>3, <1>6, <1>7 DEF TimersInvariant, WakesInTime, SearchRight

\* A proc returns.
LEMMA ReturnStep == TimersInvariant /\ ProcReturns => TimersInvariant'
  <1> SUFFICES ASSUME TimersInvariant, ProcReturns PROVE TimersInvariant'
    OBVIOUS
  <1> DEFINE f == [Top EXCEPT !.at = "walk", !.te = next[Top.te]]
  <1>1. /\ phase = "timers" /\ Top.at \in {"proc", "nested"} /\ Top.te \in Live
        /\ stack' = WithTop(f) /\ ref' = [ref EXCEPT ![Top.te] = @ - 1]
        /\ UNCHANGED <<head, nextId, next, prev, freed, phase, timeout,
                       te, earliest>>
    BY WalkAt DEF ProcReturns, Release, AfterProc, listVars, loopVars, searchVars
  <1>2. /\ f \in Frame /\ f.te = next[Top.te] /\ f.at = "walk"
        /\ f.maxId = Top.maxId /\ f.after = None
        /\ f.te \in Live \cup {None} /\ f.te <= f.maxId
    BY <1>1, WalkAt DEF Frame
  <1>3. /\ ListIntact' /\ \A i \in 1 .. Len(stack') : FrameRight(i)'
        /\ stack' \in Seq(Frame) /\ stack' # <<>> /\ Len(stack') <= MaxDepth
    BY <1>1, <1>2, MoveKeeps DEF listVars
  <1>4. Top.te \in Timer /\ Top.te \in 1 .. nextId - 1 /\ ref \in [Timer -> Nat]
    BY <1>1, WalkAt DEF TimersInvariant, TypeOK, Live
  <1>5. ASSUME NEW k \in Timer PROVE ref'[k] = Cardinality(Calls(k))' /\ ref'[k] \in Nat
    <2>1. /\ IsFiniteSet(Calls(k)) /\ (Len(stack) \in Calls(k) <=> Top.te = k)
          /\ Calls(k)' = Calls(k) \ {Len(stack)}
      BY <1>1, <1>2, CallsMove
    <2>2. ref[k] = Cardinality(Calls(k)) /\ ref[k] \in Nat
      BY <1>4 DEF TimersInvariant
    <2>3. /\ IsFiniteSet(Calls(k) \ {Len(stack)})
          /\ Cardinality(Calls(k) \ {Len(stack)})
             = IF Len(stack) \in Calls(k) THEN Cardinality(Calls(k)) - 1 ELSE Cardinality(Calls(k))
      BY <2>1, FS_RemoveElement
    <2>4. Cardinality(Calls(k) \ {Len(stack)}) \in Nat
      BY <2>3, FS_CardinalityType
    <2>5. ref'[k] = IF Top.te = k THEN ref[k] - 1 ELSE ref[k]
      BY <1>1, <1>4
    <2> QED BY <2>1, <2>2, <2>3, <2>4, <2>5
  <1>6. ref' \in [Timer -> Nat]
    BY <1>1, <1>4, <1>5
  <1>7. /\ deleted' \subseteq 1 .. nextId - 1 /\ deleted \subseteq deleted'
        /\ deleted' \subseteq Timer /\ wait' \in [Timer -> Delay]
        /\ Stays => 1 \notin deleted'
    <2>1. PICK retval \in Delay \cup {NoMore} :
             (retval = NoMore => MayDelete(Top.te)) /\ Rearm(Top.te, retval)
      BY DEF ProcReturns
    <2>2. CASE retval = NoMore
      BY <1>4, <2>1, <2>2 DEF Rearm, MayDelete, TimersInvariant, TypeOK
    <2>3. CASE retval # NoMore
      BY <1>4, <2>1, <2>3 DEF Rearm, TimersInvariant, TypeOK
    <2> QED BY <2>2, <2>3
  <1>8. TypeOK'
    BY <1>1, <1>3, <1>6, <1>7 DEF TimersInvariant, TypeOK
  <1> QED BY <1>1, <1>3, <1>5, <1>7, <1>8 DEF TimersInvariant, WakesInTime, SearchRight

\* A timer is taken out of the list.
LEMMA UnlinkEffect ==
    ASSUME TypeOK, ListIntact, NEW k \in Live, k \in Timer, Unlink(k), Live' = Live \ {k}
    PROVE  /\ ListIntact'
           /\ head' \in Pointer /\ next' \in [Timer -> Pointer] /\ prev' \in [Timer -> Pointer]
  <1> DEFINE nx == next[k]
             pv == prev[k]
  <1>1. /\ head \in Pointer /\ next \in [Timer -> Pointer] /\ prev \in [Timer -> Pointer]
        /\ nx \in Pointer /\ pv \in Pointer /\ Live \subseteq Timer
        /\ Timer \subseteq Nat \ {0} /\ None = 0 /\ Pointer = Timer \cup {None}
    <2>1. Live \subseteq Timer
      BY MaxTimersAssumption DEF Live, TypeOK, Timer
    <2> QED BY <2>1 DEF TypeOK, Timer, Pointer, None
  <1>2. /\ head' = (IF pv = None THEN nx ELSE head)
        /\ next' = [j \in Timer |-> IF j = pv THEN nx ELSE next[j]]
        /\ prev' = [j \in Timer |-> IF j = nx THEN pv ELSE prev[j]]
    BY DEF Unlink
  <1>3. head' \in Pointer /\ next' \in [Timer -> Pointer] /\ prev' \in [Timer -> Pointer]
    BY <1>1, <1>2
  <1>4. /\ nx \in Live \cup {None} /\ nx < k
        /\ \A j \in Live : j < k => j <= nx
        /\ nx # None => prev[nx] = k
        /\ pv # None => pv \in Live /\ next[pv] = k
        /\ k <= head /\ (pv = None <=> k = head)
    BY DEF ListIntact
  <1>5. head' \in Live' \cup {None}
    BY <1>1, <1>2, <1>4 DEF ListIntact
  <1>6. ASSUME NEW i \in Live'
        PROVE  i <= head' /\ (prev'[i] = None <=> i = head')
    <2>1. i \in Live /\ i # k /\ i <= head /\ (prev[i] = None <=> i = head) /\ i \in Timer
      BY <1>1, <1>6 DEF ListIntact
    <2>2. CASE pv = None
      <3>1. i < k /\ i <= nx
        BY <1>1, <1>4, <2>1, <2>2
      <3> QED BY <1>1, <1>2, <1>4, <2>1, <2>2, <3>1
    <2>3. CASE pv # None
      <3>1. head' = head /\ nx # head
        BY <1>1, <1>2, <1>4, <2>3
      <3> QED BY <1>1, <1>2, <2>1, <2>3, <3>1
    <2> QED BY <2>2, <2>3
  <1>7. ASSUME NEW i \in Live'
        PROVE  /\ next'[i] \in Live' \cup {None} /\ next'[i] < i
               /\ \A j \in Live' : j < i => j <= next'[i]
               /\ next'[i] # None => prev'[next'[i]] = i
    <2>1. /\ i \in Live /\ i # k /\ i \in Timer
          /\ next[i] \in Live \cup {None} /\ next[i] < i
          /\ \A j \in Live : j < i => j <= next[i]
          /\ next[i] # None => prev[next[i]] = i
      BY <1>1, <1>7 DEF ListIntact
    <2>2. CASE i = pv
      <3>1. next'[i] = nx /\ next[i] = k
        BY <1>1, <1>2, <1>4, <2>1, <2>2
      <3>2. \A j \in Live' : j < i => j <= nx
        BY <1>1, <1>4, <2>1, <3>1
      <3>3. nx < i /\ nx # k
        <4>1. k < i /\ nx < k
          BY <1>4, <2>1, <3>1
        <4>2. k \in Nat /\ i \in Nat
          BY <1>1, <2>1
        <4>3. nx \in Nat
          <5>1. nx \in Timer \/ nx = 0
            BY <1>1
          <5>2. \A j \in Timer : j \in Nat
            BY <1>1
          <5> QED BY <5>1, <5>2
        <4> HIDE DEF nx
        <4> QED BY <4>1, <4>2, <4>3
      <3>4. nx \in Live' \cup {None}
        BY <1>4, <3>3
      <3>5. nx # None => prev'[nx] = i
        BY <1>1, <1>2, <2>2
      <3> QED BY <3>1, <3>2, <3>3, <3>4, <3>5
    <2>3. CASE i # pv
      <3>1. next'[i] = next[i] /\ next[i] # k /\ (next[i] # None => next[i] # nx)
        BY <1>1, <1>2, <1>4, <2>1, <2>3
      <3> QED BY <1>1, <1>2, <2>1, <3>1
    <2> QED BY <2>2, <2>3
  <1>8. ASSUME NEW i \in Live', prev'[i] # None
        PROVE  prev'[i] \in Live' /\ next'[prev'[i]] = i
    <2>1. /\ i \in Live /\ i # k /\ i \in Timer
          /\ prev[i] # None => prev[i] \in Live /\ next[prev[i]] = i
      BY <1>1, <1>8 DEF ListIntact
    <2>2. CASE i = nx
      <3>1. prev'[i] = pv /\ pv \in Live /\ pv # k
        BY <1>1, <1>2, <1>4, <1>8, <2>1, <2>2
      <3> QED BY <1>1, <1>2, <2>1, <2>2, <3>1
    <2>3. CASE i # nx
      <3>1. prev'[i] = prev[i] /\ prev[i] \in Live /\ next[prev[i]] = i
        BY <1>1, <1>2, <1>8, <2>1, <2>3
      <3>2. prev[i] # k /\ prev[i] # pv
        BY <1>1, <1>4, <2>1, <2>3, <3>1
      <3> QED BY <1>1, <1>2, <3>1, <3>2
    <2> QED BY <2>2, <2>3
  <1> QED BY <1>3, <1>5, <1>6, <1>7, <1>8 DEF ListIntact

\* A deleted timer leaves the list; no other walk stands at it.
LEMMA FinalizeStep == TimersInvariant /\ Finalize => TimersInvariant'
  <1> SUFFICES ASSUME TimersInvariant, Finalize PROVE TimersInvariant'
    OBVIOUS
  <1> DEFINE f == [Top EXCEPT !.at = "final", !.after = next[Top.te]]
  <1>1. /\ phase = "timers" /\ Top.at = "walk" /\ Top.te \in Live /\ Top.te \in deleted
        /\ ref[Top.te] = 0 /\ Unlink(Top.te) /\ stack' = WithTop(f)
        /\ UNCHANGED <<nextId, deleted, freed, wait, ref, phase, timeout,
                       te, earliest>>
    BY WalkAt DEF Finalize, Walking, Unreferenced, loopVars, searchVars
  <1>2. /\ Top.te \in Timer /\ Top \in Frame /\ Top.te <= Top.maxId /\ Top.maxId < nextId
        /\ next[Top.te] \in Live \cup {None} /\ next[Top.te] \in Pointer
        /\ next[Top.te] < Top.te /\ next[Top.te] <= Top.maxId
    BY <1>1, WalkAt
  <1>3. /\ f \in Frame /\ f.te = Top.te /\ f.at = "final" /\ f.maxId = Top.maxId
        /\ f.after = next[Top.te]
    BY <1>1, <1>2 DEF Frame
  <1> HIDE DEF f
  <1>4. /\ Len(stack) \in Nat \ {0} /\ stack' \in Seq(Frame) /\ Len(stack') = Len(stack)
        /\ \A i \in 1 .. Len(stack) : stack'[i] = IF i = Len(stack) THEN f ELSE stack[i]
        /\ stack' # <<>>
    BY <1>1, <1>3, StackTop DEF TimersInvariant
  <1>5. \A i \in 1 .. Len(stack') : i < Len(stack') => stack'[i].at = "nested"
    BY <1>4 DEF TimersInvariant, FrameRight
  <1>6. Live' = Live \ {Top.te}
    <2>1. stack'[Len(stack')].at = "final" /\ stack'[Len(stack')].te = Top.te
      BY <1>3, <1>4
    <2>2. Finalizing' = {Top.te}
      BY <1>4, <1>5, <2>1, FinalizingIs DEF Finalizing
    <2> QED BY <1>1, <2>2, LiveIs DEF Live
  <1>7. /\ ListIntact'
        /\ head' \in Pointer /\ next' \in [Timer -> Pointer] /\ prev' \in [Timer -> Pointer]
    BY <1>1, <1>2, <1>6, UnlinkEffect DEF TimersInvariant
  <1>8. TypeOK'
    BY <1>1, <1>4, <1>7 DEF TimersInvariant, TypeOK
  <1>9. Calls(Top.te) = {}
    <2>1. Cardinality(Calls(Top.te)) = 0 /\ IsFiniteSet(Calls(Top.te))
      BY <1>1, <1>2, <1>3, CallsMove DEF TimersInvariant
    <2> QED BY <2>1, FS_EmptySet
  <1>10. ASSUME NEW i \in 1 .. Len(stack') PROVE FrameRight(i)'
    <2>1. CASE i < Len(stack')
      <3>1. stack'[i] = stack[i] /\ stack[i].at = "nested" /\ FrameRight(i) /\ i \in 1 .. Len(stack)
        BY <1>4, <2>1 DEF TimersInvariant, FrameRight
      <3>2. stack[i].te # Top.te
        BY <1>9, <3>1 DEF Calls
      <3> QED BY <1>1, <1>6, <3>1, <3>2, <2>1 DEF FrameRight
    <2>2. CASE ~(i < Len(stack'))
      <3>1. /\ ~(i < Len(stack'))
            /\ stack'[i].at = "final" /\ stack'[i].te = Top.te
            /\ stack'[i].maxId = Top.maxId /\ stack'[i].after = next[Top.te]
        BY <1>3, <1>4, <2>2
      <3>2. Top.te \notin freed /\ next[Top.te] \in Live' \cup {None}
        BY <1>1, <1>2, <1>6, WalkAt DEF Live
      <3> QED BY <1>1, <1>2, <3>1, <3>2 DEF FrameRight
    <2> QED BY <2>1, <2>2
  <1>11. ASSUME NEW k \in Timer PROVE ref'[k] = Cardinality(Calls(k))'
    <2>1. Len(stack) \notin Calls(k) /\ Calls(k)' = Calls(k) \ {Len(stack)}
      BY <1>1, <1>3, CallsMove
    <2>2. Calls(k)' = Calls(k)
      BY <2>1
    <2> QED BY <1>1, <2>2 DEF TimersInvariant
  <1> QED BY <1>1, <1>7, <1>8, <1>10, <1>11 DEF TimersInvariant, WakesInTime, SearchRight

\* The finalizer returns, the timer is freed and the walk goes on behind it.
LEMMA FinalizedStep == TimersInvariant /\ FinalizerReturns => TimersInvariant'
  <1> SUFFICES ASSUME TimersInvariant, FinalizerReturns PROVE TimersInvariant'
    OBVIOUS
  <1> DEFINE f == [Top EXCEPT !.at = "walk", !.te = Top.after, !.after = None]
  <1>1. /\ phase = "timers" /\ Top.at = "final" /\ freed' = freed \cup {Top.te}
        /\ stack' = WithTop(f)
        /\ UNCHANGED <<head, nextId, next, prev, deleted, wait, ref, phase, timeout,
                       te, earliest>>
    BY DEF FinalizerReturns, listVars, loopVars, searchVars
  <1>2. /\ Top \in Frame /\ Top.te \in deleted \ freed /\ Top.after \in Live \cup {None}
        /\ Top.after <= Top.maxId /\ Top.maxId < nextId
    BY <1>1, WalkAt DEF FrameRight
  <1>3. /\ f \in Frame /\ f.te = Top.after /\ f.at = "walk" /\ f.maxId = Top.maxId
        /\ f.after = None
    BY <1>1, <1>2 DEF Frame, Pointer
  <1> HIDE DEF f
  <1>4. /\ Len(stack) \in Nat \ {0} /\ stack' \in Seq(Frame) /\ Len(stack') = Len(stack)
        /\ \A i \in 1 .. Len(stack) : stack'[i] = IF i = Len(stack) THEN f ELSE stack[i]
        /\ stack' # <<>>
    BY <1>1, <1>3, StackTop DEF TimersInvariant
  <1>5. \A i \in 1 .. Len(stack') : i < Len(stack') => stack'[i].at = "nested"
    BY <1>4 DEF TimersInvariant, FrameRight
  <1>6. Live' = Live
    <2>1. stack'[Len(stack')].at = "walk"
      BY <1>3, <1>4
    <2>2. Finalizing' = {}
      BY <1>4, <1>5, <2>1, FinalizingIs DEF Finalizing
    <2> QED BY <1>1, <2>2, LiveIs DEF Live
  <1>7. ListIntact'
    BY <1>1, <1>6, ListKept DEF TimersInvariant
  <1>8. TypeOK'
    BY <1>1, <1>2, <1>4 DEF TimersInvariant, TypeOK
  <1>9. ASSUME NEW i \in 1 .. Len(stack') PROVE FrameRight(i)'
    <2>1. CASE i < Len(stack')
      BY <1>1, <1>3, <1>6, <2>1, OuterFrames
    <2>2. CASE ~(i < Len(stack'))
      <3>1. /\ ~(i < Len(stack'))
            /\ stack'[i].at = "walk" /\ stack'[i].te = Top.after
            /\ stack'[i].maxId = Top.maxId /\ stack'[i].after = None
        BY <1>3, <1>4, <2>2
      <3> QED BY <1>1, <1>2, <1>6, <3>1 DEF FrameRight
    <2> QED BY <2>1, <2>2
  <1>10. ASSUME NEW k \in Timer PROVE ref'[k] = Cardinality(Calls(k))'
    <2>1. Len(stack) \notin Calls(k) /\ Calls(k)' = Calls(k) \ {Len(stack)}
      BY <1>1, <1>3, CallsMove
    <2>2. Calls(k)' = Calls(k)
      BY <2>1
    <2> QED BY <1>1, <2>2 DEF TimersInvariant
  <1>11. freed' \subseteq deleted'
    BY <1>1, <1>2 DEF TimersInvariant
  <1> QED BY <1>1, <1>7, <1>8, <1>9, <1>10, <1>11 DEF TimersInvariant, WakesInTime, SearchRight

(* The steps of callbacks *)

\* What leaves the stack alone, takes nothing out of the list and undoes no
\* deletion keeps every walk in its place.
LEMMA StackSame ==
    ASSUME TimersInvariant, stack' = stack, freed' = freed, deleted \subseteq deleted',
           nextId' \in Nat, nextId <= nextId', Live \subseteq Live'
    PROVE  /\ \A i \in 1 .. Len(stack') : FrameRight(i)'
           /\ \A k : Calls(k)' = Calls(k)
  <1>1. ASSUME NEW i \in 1 .. Len(stack) PROVE FrameRight(i)'
    <2>1. FrameRight(i) /\ stack'[i] = stack[i] /\ Len(stack') = Len(stack)
      BY DEF TimersInvariant
    <2>2. stack[i] \in Frame /\ nextId \in Nat
      BY DEF TimersInvariant, TypeOK
    <2>3. stack[i].maxId < nextId'
      BY <2>1, <2>2, MaxTimersAssumption DEF FrameRight, Frame, Pointer, Timer, None
    <2> QED BY <2>1, <2>3 DEF FrameRight
  <1>2. ASSUME NEW k PROVE Calls(k)' = Calls(k)
    BY DEF Calls
  <1> QED BY <1>1, <1>2

\* Live is a set of ids given out.
LEMMA LiveType ==
    ASSUME TypeOK
    PROVE  /\ Live \subseteq Timer /\ Live \subseteq 1 .. nextId - 1 /\ nextId \in Nat
           /\ Timer \subseteq Nat \ {0} /\ None = 0 /\ Pointer = Timer \cup {None}
  BY MaxTimersAssumption DEF Live, TypeOK, Timer, Pointer, None

\* A timer is put in front of the list.
LEMMA LinkEffect ==
    ASSUME TypeOK, ListIntact, NEW k \in Timer, k = nextId, LinkFirst(k), Live' = Live \cup {k}
    PROVE  /\ ListIntact'
           /\ head' \in Pointer /\ next' \in [Timer -> Pointer] /\ prev' \in [Timer -> Pointer]
  <1>1. /\ head \in Pointer /\ next \in [Timer -> Pointer] /\ prev \in [Timer -> Pointer]
        /\ Live \subseteq Timer /\ Live \subseteq 1 .. k - 1 /\ k \in Nat \ {0}
        /\ Timer \subseteq Nat \ {0} /\ None = 0 /\ Pointer = Timer \cup {None}
    BY LiveType DEF TypeOK
  <1>2. /\ head' = k
        /\ next' = [j \in Timer |-> IF j = k THEN head ELSE next[j]]
        /\ prev' = [j \in Timer |-> IF j = k THEN None ELSE IF j = head THEN k ELSE prev[j]]
    BY <1>1 DEF LinkFirst
  <1>3. head' \in Pointer /\ next' \in [Timer -> Pointer] /\ prev' \in [Timer -> Pointer]
    BY <1>1, <1>2
  <1>4. /\ head \in Live \cup {None} /\ head < k /\ head # k
        /\ \A j \in Live : j <= head /\ j < k /\ j # k
    <2>1. head \in Live \cup {None} /\ \A j \in Live : j <= head
      BY DEF ListIntact
    <2> QED BY <1>1, <2>1
  <1>5. /\ k <= head' /\ prev'[k] = None /\ next'[k] = head
        /\ \A j \in Live' : j < k => j <= next'[k]
        /\ next'[k] # None => prev'[next'[k]] = k
    BY <1>1, <1>2, <1>4
  <1>6. ASSUME NEW i \in Live
        PROVE  /\ i <= head' /\ prev'[i] # None /\ i # head'
               /\ next'[i] \in Live' \cup {None} /\ next'[i] < i
               /\ \A j \in Live' : j < i => j <= next'[i]
               /\ next'[i] # None => prev'[next'[i]] = i
               /\ prev'[i] \in Live' /\ next'[prev'[i]] = i
    <2>1. /\ i \in Timer /\ i < k /\ i # k /\ i <= head /\ (prev[i] = None <=> i = head)
          /\ next[i] \in Live \cup {None} /\ next[i] < i
          /\ \A j \in Live : j < i => j <= next[i]
          /\ next[i] # None => prev[next[i]] = i
          /\ prev[i] # None => prev[i] \in Live /\ next[prev[i]] = i
      BY <1>1, <1>4 DEF ListIntact
    <2>2. next'[i] = next[i]
      BY <1>2, <2>1
    <2>3. \A j \in Live' : j < i => j <= next'[i]
      BY <1>1, <2>1, <2>2
    <2>4. next[i] # None => prev'[next[i]] = i
      <3>1. next[i] # None => next[i] \in Timer /\ next[i] # k /\ next[i] # head
        BY <1>1, <1>4, <2>1
      <3> QED BY <1>2, <2>1, <3>1
    <2>5. prev'[i] # None /\ prev'[i] \in Live' /\ next'[prev'[i]] = i
      <3>1. CASE i = head
        BY <1>1, <1>2, <2>1, <3>1
      <3>2. CASE i # head
        BY <1>1, <1>2, <1>4, <2>1, <3>2
      <3> QED BY <3>1, <3>2
    <2> QED BY <1>1, <1>2, <2>1, <2>2, <2>3, <2>4, <2>5
  <1>7. ASSUME NEW i \in Live'
        PROVE  /\ i <= head' /\ (prev'[i] = None <=> i = head')
               /\ next'[i] \in Live' \cup {None} /\ next'[i] < i
               /\ \A j \in Live' : j < i => j <= next'[i]
               /\ next'[i] # None => prev'[next'[i]] = i
               /\ prev'[i] # None => prev'[i] \in Live' /\ next'[prev'[i]] = i
    <2>1. CASE i = k
      BY <1>2, <1>4, <1>5, <2>1
    <2>2. CASE i # k
      <3>1. i \in Live
        BY <2>2
      <3> QED BY <1>6, <3>1
    <2> QED BY <2>1, <2>2
  <1>8. head' \in Live' \cup {None}
    BY <1>2
  <1> QED BY <1>3, <1>7, <1>8 DEF ListIntact

\* A callback creates a timer.
LEMMA CreateStep == TimersInvariant /\ CreateTimeEvent => TimersInvariant'
  <1> SUFFICES ASSUME TimersInvariant, CreateTimeEvent PROVE TimersInvariant'
    OBVIOUS
  <1>1. /\ LinkFirst(nextId) /\ nextId' = nextId + 1 /\ phase \notin {"search", "sleep", "crashed"}
        /\ nextId <= MaxTimers
        /\ UNCHANGED <<deleted, freed, ref, stack, phase, timeout,
                       te, earliest>>
    BY DEF CreateTimeEvent, InHandler, loopVars, searchVars
  <1>2. nextId \in Nat \ {0} /\ nextId \in Timer /\ nextId' \in 2 .. MaxTimers + 1
    BY <1>1, MaxTimersAssumption DEF TimersInvariant, TypeOK, Timer
  <1>3. wait' \in [Timer -> Delay]
    BY <1>2 DEF CreateTimeEvent, TimersInvariant, TypeOK
  <1>4. Live' = Live \cup {nextId}
    <2>1. Finalizing' = Finalizing
      BY <1>1 DEF Finalizing
    <2>2. Finalizing \subseteq deleted
      BY DEF Finalizing, TimersInvariant, FrameRight
    <2>3. nextId \notin freed \cup Finalizing
      BY <1>2, <2>2 DEF TimersInvariant
    <2>4. 1 .. nextId' - 1 = (1 .. nextId - 1) \cup {nextId}
      BY <1>1, <1>2
    <2> QED BY <1>1, <2>1, <2>3, <2>4 DEF Live
  <1>5. /\ ListIntact'
        /\ head' \in Pointer /\ next' \in [Timer -> Pointer] /\ prev' \in [Timer -> Pointer]
    BY <1>1, <1>2, <1>4, LinkEffect DEF TimersInvariant
  <1>6. /\ \A i \in 1 .. Len(stack') : FrameRight(i)'
        /\ \A k : Calls(k)' = Calls(k)
    BY <1>1, <1>2, <1>4, StackSame
  <1>7. TypeOK'
    BY <1>1, <1>2, <1>3, <1>5 DEF TimersInvariant, TypeOK
  <1>8. deleted' \subseteq 1 .. nextId' - 1
    BY <1>1, <1>2 DEF TimersInvariant
  <1> QED BY <1>1, <1>5, <1>6, <1>7, <1>8 DEF TimersInvariant, WakesInTime, SearchRight

\* What is walked from head is what is neither freed nor being finalized.
LEMMA ListedIsLive ==
    ASSUME TypeOK, ListIntact
    PROVE  Listed = Live
  <1>1. /\ Live \subseteq Timer /\ Timer \subseteq Nat \ {0} /\ None = 0
        /\ Pointer = Timer \cup {None} /\ MaxTimers \in Nat
        /\ \A k \in Timer : MaxTimers - k \in Nat
    BY LiveType, MaxTimersAssumption DEF Timer
  <1>2. ASSUME NEW k \in Listed PROVE k \in Live
    <2>1. Live \cup {None} \in SUBSET Pointer
      BY <1>1
    <2>2. head \in Live \cup {None}
          /\ \A j \in (Live \cup {None}) \ {None} : next[j] \in Live \cup {None}
      BY DEF ListIntact
    <2>3. k \in Timer /\ k \in Live \cup {None}
      BY <2>1, <2>2 DEF Listed
    <2> QED BY <1>1, <2>3
  <1>3. ASSUME NEW S \in SUBSET Pointer, head \in S, \A j \in S \ {None} : next[j] \in S
        PROVE  Live \subseteq S
    <2> SUFFICES ASSUME Live \ S # {} PROVE FALSE
      OBVIOUS
    <2> DEFINE T == {n \in Nat : \E k \in Live \ S : n = MaxTimers - k}
    <2>1. T \subseteq Nat /\ T # {}
      BY <1>1
    <2>2. PICK n \in T : \A m \in T : ~(<<m, n>> \in OpToRel(<, Nat))
      BY <2>1, NatLessThanWellFounded, WFMin
    <2>3. PICK k \in Live \ S : n = MaxTimers - k
      BY <2>2
    <2>4. \A j \in Live \ S : j <= k
      <3> SUFFICES ASSUME NEW j \in Live \ S, j > k PROVE FALSE
        BY <1>1
      <3>1. MaxTimers - j \in T /\ MaxTimers - j < n /\ n \in Nat
        BY <1>1, <2>3
      <3> QED BY <2>2, <3>1 DEF OpToRel
    <2>5. k # head /\ prev[k] # None /\ prev[k] \in Live /\ next[prev[k]] = k
      BY <1>3 DEF ListIntact
    <2>6. k < prev[k]
      BY <2>5 DEF ListIntact
    <2>7. prev[k] \in S
      <3>1. k \in Nat /\ prev[k] \in Nat
        BY <1>1, <2>3, <2>5
      <3>2. ~(prev[k] <= k)
        BY <2>6, <3>1
      <3> QED BY <2>4, <2>5, <3>2
    <2> QED BY <1>3, <2>3, <2>5, <2>7
  <1>4. Live \subseteq Listed
    BY <1>1, <1>3 DEF Listed
  <1> QED BY <1>2, <1>4

\* A callback deletes a timer.
LEMMA DeleteStep == TimersInvariant /\ DeleteTimeEvent => TimersInvariant'
  <1> SUFFICES ASSUME TimersInvariant, DeleteTimeEvent PROVE TimersInvariant'
    OBVIOUS
  <1>1. /\ phase \notin {"search", "sleep", "crashed"}
        /\ UNCHANGED <<head, nextId, next, prev, freed, wait, ref, stack, phase, timeout,
                       te, earliest>>
    BY DEF DeleteTimeEvent, InHandler, listVars, loopVars, searchVars
  <1>2. PICK k \in Armed : MayDelete(k) /\ deleted' = deleted \cup {k}
    BY DEF DeleteTimeEvent
  <1>3. k \in Timer /\ k \in 1 .. nextId - 1 /\ nextId \in Nat
    BY ListedIsLive, LiveType DEF Armed, TimersInvariant
  <1>4. Live' = Live
    BY <1>1 DEF Live, Finalizing
  <1>5. ListIntact'
    BY <1>1, <1>4, ListKept DEF TimersInvariant
  <1>6. /\ \A i \in 1 .. Len(stack') : FrameRight(i)'
        /\ \A j : Calls(j)' = Calls(j)
    BY <1>1, <1>2, <1>3, <1>4, StackSame
  <1>7. TypeOK'
    BY <1>1, <1>2, <1>3 DEF TimersInvariant, TypeOK
  <1>8. Stays => 1 \notin deleted'
    BY <1>2 DEF MayDelete, TimersInvariant
  <1>9. \A j \in Timer : ref'[j] = Cardinality(Calls(j))'
    BY <1>1, <1>6 DEF TimersInvariant
  <1>10. deleted' \subseteq 1 .. nextId' - 1 /\ freed' \subseteq deleted'
    BY <1>1, <1>2, <1>3 DEF TimersInvariant
  <1> QED BY <1>1, <1>5, <1>6, <1>7, <1>8, <1>9, <1>10 DEF TimersInvariant, WakesInTime, SearchRight

(* The steps of aeProcessEvents *)

\* What changes neither the list, nor the walks, nor what is deleted.
LEMMA ListSame ==
    ASSUME TimersInvariant, UNCHANGED <<listVars, deleted, freed, ref, stack>>
    PROVE  /\ ListIntact' /\ Armed' = Armed /\ Live' = Live
           /\ \A i \in 1 .. Len(stack') : FrameRight(i)'
           /\ \A k \in Timer : ref'[k] = Cardinality(Calls(k))'
           /\ deleted' \subseteq 1 .. nextId' - 1 /\ freed' \subseteq deleted'
  <1>1. UNCHANGED <<head, nextId, next, prev>>
    BY DEF listVars
  <1>2. Live' = Live
    BY <1>1 DEF Live, Finalizing
  <1>3. ListIntact'
    BY <1>1, <1>2, ListKept DEF TimersInvariant
  <1>4. Armed' = Armed
    BY <1>1 DEF Armed, Listed
  <1>5. nextId \in Nat
    BY LiveType DEF TimersInvariant
  <1>6. /\ \A i \in 1 .. Len(stack') : FrameRight(i)'
        /\ \A k : Calls(k)' = Calls(k)
    BY <1>1, <1>2, <1>5, StackSame
  <1>7. \A k \in Timer : ref'[k] = Cardinality(Calls(k))'
    BY <1>6 DEF TimersInvariant
  <1> QED BY <1>1, <1>2, <1>3, <1>4, <1>6, <1>7 DEF TimersInvariant

\* Time passes for the timers and for the poll alike.
LEMMA TimeStep == TimersInvariant /\ TimePasses => TimersInvariant'
  <1> SUFFICES ASSUME TimersInvariant, TimePasses PROVE TimersInvariant'
    OBVIOUS
  <1>1. /\ UNCHANGED <<listVars, deleted, freed, ref, stack, phase>>
        /\ UNCHANGED <<head, nextId, next, prev, te, earliest>> /\ phase # "search"
        /\ wait' = [k \in Timer |-> IF wait[k] > 0 THEN wait[k] - 1 ELSE 0]
        /\ timeout' = IF timeout > 0 THEN timeout - 1 ELSE timeout
    BY DEF TimePasses, InHandler, listVars, searchVars
  <1>2. TypeOK
    BY DEF TimersInvariant
  <1>3. /\ wait \in [Timer -> Delay] /\ timeout \in Delay \cup {Forever}
        /\ Delay \subseteq Nat /\ Forever = -1 /\ \A d \in Delay : d > 0 => d - 1 \in Delay
        /\ 0 \in Delay
    BY <1>2, MaxDelayAssumption DEF TypeOK, Delay, Forever
  <1>4. wait' \in [Timer -> Delay]
    BY <1>1, <1>3
  <1>5. timeout' \in Delay \cup {Forever}
    BY <1>1, <1>3
  <1>6. TypeOK'
    BY <1>1, <1>2, <1>4, <1>5 DEF TypeOK
  <1>7. Armed' = Armed /\ Armed \subseteq Timer
    BY <1>1, ListSame DEF Armed, Listed
  <1>8. WakesInTime'
    <2> SUFFICES ASSUME phase = "sleep" PROVE WakesInTime'
      BY <1>1 DEF WakesInTime
    <2>1. CASE Armed = {}
      <3>1. timeout = -1
        BY <1>3, <2>1 DEF WakesInTime, TimersInvariant
      <3> QED BY <1>1, <1>3, <1>7, <2>1, <3>1 DEF WakesInTime
    <2>2. CASE Armed # {}
      <3>1. PICK k \in Armed : timeout = wait[k] /\ \A j \in Armed : timeout <= wait[j]
        BY <2>2 DEF WakesInTime, TimersInvariant
      <3>2. \A j \in Armed : wait[j] \in Nat
        BY <1>3, <1>7
      <3>3. timeout' = wait'[k] /\ \A j \in Armed : timeout' <= wait'[j]
        BY <1>1, <1>7, <3>1, <3>2
      <3> QED BY <1>7, <2>2, <3>3 DEF WakesInTime
    <2> QED BY <2>1, <2>2
  <1> QED BY <1>1, <1>6, <1>8, ListSame DEF TimersInvariant, SearchRight

\* The search begins at the newest timer, with nothing found and nothing behind it.
LEMMA PollStep == TimersInvariant /\ Poll => TimersInvariant'
  <1> SUFFICES ASSUME TimersInvariant, Poll PROVE TimersInvariant'
    OBVIOUS
  <1>1. /\ phase = "poll" /\ UNCHANGED <<listVars, deleted, freed, wait, ref, stack>>
        /\ UNCHANGED <<head, nextId, next, prev>>
        /\ te' = head /\ earliest' = None
        /\ phase' = IF head = None THEN "sleep" ELSE "search"
        /\ timeout' = IF head = None THEN Forever ELSE timeout
        /\ TypeOK /\ ListIntact
    BY DEF Poll, listVars, TimersInvariant
  <1>2. TypeOK'
    BY <1>1 DEF TypeOK, Pointer
  <1>3. Live' = Live /\ Armed' = Armed /\ Armed = Live \ deleted
    BY <1>1, ListSame, ListedIsLive DEF Armed
  <1>4. head \in Live \cup {None} /\ \A k \in Live : k <= head /\ k # None
    BY <1>1, LiveType DEF ListIntact
  <1>5. WakesInTime'
    <2>1. CASE head = None
      <3>1. Live = {}
        BY <1>1, <1>4, <2>1, LiveType
      <3> QED BY <1>1, <1>3, <2>1, <3>1 DEF WakesInTime
    <2>2. CASE head # None
      BY <1>1, <2>2 DEF WakesInTime
    <2> QED BY <2>1, <2>2
  <1>6. SearchRight'
    BY <1>1, <1>3, <1>4 DEF SearchRight
  <1> QED BY <1>1, <1>2, <1>5, <1>6, ListSame DEF TimersInvariant

\* One timer more has been looked at.
LEMMA SearchStep == TimersInvariant /\ SearchOn => TimersInvariant'
  <1> SUFFICES ASSUME TimersInvariant, SearchOn PROVE TimersInvariant'
    OBVIOUS
  <1>1. /\ phase = "search" /\ te # None
        /\ earliest' = (IF Earlier(te) THEN te ELSE earliest) /\ te' = next[te]
        /\ UNCHANGED <<listVars, deleted, freed, ref, stack>> /\ UNCHANGED <<wait, phase, timeout>>
        /\ UNCHANGED <<head, nextId, next, prev>>
        /\ TypeOK /\ ListIntact
    BY DEF SearchOn, listVars, TimersInvariant
  <1>2. /\ te \in Live /\ te \in Timer
        /\ Live \subseteq Timer /\ Timer \subseteq Nat \ {0} /\ None = 0
        /\ wait \in [Timer -> Delay] /\ Delay \subseteq Nat
        /\ earliest = None => \A k \in Live \ deleted : k <= te
        /\ earliest # None => /\ earliest \in Live \ deleted
                              /\ \A k \in Live \ deleted : te < k => wait[earliest] <= wait[k]
    BY <1>1, LiveType, MaxDelayAssumption DEF TimersInvariant, SearchRight, TypeOK, Delay
  <1>3. /\ next[te] \in Live \cup {None} /\ next[te] \in Nat
        /\ \A k \in Live : k # te => (k <= next[te] \/ te < k)
    <2>1. /\ next[te] \in Live \cup {None}
          /\ \A k \in Live : k < te => k <= next[te]
      BY <1>1, <1>2 DEF ListIntact
    <2>2. next[te] \in Nat
      <3>1. \A k \in Live : k \in Nat
        BY <1>2
      <3>2. next[te] \in Live \/ next[te] = 0
        BY <1>2, <2>1
      <3> QED BY <3>1, <3>2
    <2> QED BY <1>2, <2>1, <2>2
  <1>4. TypeOK'
    BY <1>1, <1>2 DEF TypeOK, Pointer
  <1>5. Live' = Live /\ deleted' = deleted /\ wait' = wait
    BY <1>1, ListSame
  <1>6. CASE Earlier(te)
    <2>1. te \notin deleted /\ (earliest = None \/ wait[te] < wait[earliest]) /\ earliest' = te
      BY <1>1, <1>6 DEF Earlier
    <2>2. ASSUME NEW k \in Live \ deleted, next[te] < k PROVE wait[te] <= wait[k]
      <3>1. k = te \/ te < k
        BY <1>2, <1>3, <2>2
      <3>2. wait[k] \in Nat /\ wait[te] \in Nat
        BY <1>2
      <3>3. CASE earliest = None
        BY <1>2, <3>1, <3>2, <3>3
      <3>4. CASE earliest # None
        <4>1. wait[earliest] \in Nat /\ wait[te] < wait[earliest]
          BY <1>2, <2>1, <3>4
        <4> QED BY <1>2, <3>1, <3>2, <3>4, <4>1
      <3> QED BY <3>3, <3>4
    <2>3. SearchRight'
      BY <1>1, <1>2, <1>3, <1>5, <2>1, <2>2 DEF SearchRight
    <2> QED BY <1>1, <1>4, <2>3, ListSame DEF TimersInvariant, WakesInTime
  <1>7. CASE ~Earlier(te)
    <2>1. earliest' = earliest
          /\ (te \in deleted \/ (earliest # None /\ ~(wait[te] < wait[earliest])))
      BY <1>1, <1>7 DEF Earlier
    <2>2. ASSUME earliest = None, NEW k \in Live \ deleted PROVE k <= next[te]
      BY <1>2, <1>3, <2>1, <2>2
    <2>3. ASSUME earliest # None, NEW k \in Live \ deleted, next[te] < k
          PROVE  wait[earliest] <= wait[k]
      <3>1. k = te \/ te < k
        BY <1>2, <1>3, <2>3
      <3>2. wait[k] \in Nat /\ wait[earliest] \in Nat
        BY <1>2, <2>3
      <3> QED BY <1>2, <2>1, <2>3, <3>1, <3>2
    <2>4. SearchRight'
      BY <1>1, <1>2, <1>3, <1>5, <2>1, <2>2, <2>3 DEF SearchRight
    <2> QED BY <1>1, <1>4, <2>4, ListSame DEF TimersInvariant, WakesInTime
  <1> QED BY <1>6, <1>7

\* At the end of the list the search has found the first timer.  With the timer
\* of the server in the list, it has found one.
LEMMA SearchedStep == TimersInvariant /\ SearchDone => TimersInvariant'
  <1> SUFFICES ASSUME TimersInvariant, SearchDone PROVE TimersInvariant'
    OBVIOUS
  <1>1. /\ phase = "search" /\ te = None /\ te' = te /\ earliest' = None
        /\ phase' = IF earliest = None THEN "crashed" ELSE "sleep"
        /\ timeout' = IF earliest = None THEN timeout ELSE wait[earliest]
        /\ UNCHANGED <<listVars, deleted, freed, ref, stack>> /\ wait' = wait
        /\ UNCHANGED <<head, nextId, next, prev>>
        /\ TypeOK /\ ListIntact
    BY DEF SearchDone, listVars, TimersInvariant
  <1>2. /\ Live \subseteq Timer /\ Timer \subseteq Nat \ {0} /\ None = 0
        /\ earliest = None => \A k \in Live \ deleted : k <= te
        /\ earliest # None => /\ earliest \in Live \ deleted
                              /\ \A k \in Live \ deleted : te < k => wait[earliest] <= wait[k]
    BY <1>1, LiveType DEF TimersInvariant, SearchRight
  <1>3. Live' = Live /\ Armed' = Armed /\ Armed = Live \ deleted
    BY <1>1, ListSame, ListedIsLive DEF Armed
  <1>4. earliest # None => wait[earliest] \in Delay
    BY <1>1, <1>2 DEF TypeOK
  <1>5. TypeOK'
    BY <1>1, <1>4 DEF TypeOK, Pointer
  <1>6. ASSUME Stays PROVE earliest # None
    <2>1. Live = (1 .. nextId - 1) \ freed /\ 1 \notin deleted /\ freed \subseteq deleted
      BY <1>1, <1>6, LiveIs DEF TimersInvariant
    <2>2. 1 \in Live \ deleted
      BY <1>1, <2>1 DEF TypeOK
    <2>3. ~(1 <= te)
      BY <1>1, <1>2
    <2> QED BY <1>2, <2>2, <2>3
  <1>7. WakesInTime'
    <2>1. CASE earliest = None
      BY <1>1, <2>1 DEF WakesInTime
    <2>2. CASE earliest # None
      <3>1. earliest \in Armed /\ \A k \in Armed : wait[earliest] <= wait[k]
        BY <1>1, <1>2, <1>3, <2>2
      <3> QED BY <1>1, <1>3, <2>2, <3>1 DEF WakesInTime
    <2> QED BY <2>1, <2>2
  <1>8. SearchRight' /\ (Stays => 1 \notin deleted' /\ phase' # "crashed")
    BY <1>1, <1>6 DEF SearchRight, TimersInvariant
  <1> QED BY <1>1, <1>5, <1>7, <1>8, ListSame DEF TimersInvariant

\* The poll returns.
LEMMA WakeStep == TimersInvariant /\ (WakeByFile \/ WakeByTimeout) => TimersInvariant'
  <1> SUFFICES ASSUME TimersInvariant, WakeByFile \/ WakeByTimeout PROVE TimersInvariant'
    OBVIOUS
  <1>1. /\ phase = "sleep" /\ phase' = "files" /\ timeout' = Forever
        /\ UNCHANGED <<listVars, deleted, freed, wait, ref, stack>>
        /\ UNCHANGED <<head, nextId, next, prev, te, earliest>>
        /\ TypeOK
    BY DEF WakeByFile, WakeByTimeout, listVars, searchVars, TimersInvariant
  <1>2. TypeOK'
    BY <1>1 DEF TypeOK
  <1> QED BY <1>1, <1>2, ListSame DEF TimersInvariant, WakesInTime, SearchRight

\* Where a walk begins.
LEMMA BeginsRight ==
    ASSUME TimersInvariant
    PROVE  /\ NewFrame \in Frame /\ NewFrame.te = head /\ NewFrame.at = "walk"
           /\ NewFrame.after = None /\ NewFrame.maxId = nextId - 1
           /\ head \in Live \cup {None} /\ head <= nextId - 1 /\ nextId - 1 < nextId
  <1>1. head \in Pointer /\ nextId \in 2 .. MaxTimers + 1 /\ head \in Live \cup {None}
    BY DEF TimersInvariant, TypeOK, ListIntact
  <1>2. head <= nextId - 1 /\ nextId - 1 \in Pointer /\ nextId - 1 < nextId
    BY <1>1, MaxTimersAssumption, LiveType DEF TimersInvariant, Pointer, Timer, None
  <1> QED BY <1>1, <1>2 DEF NewFrame, Frame, Pointer

\* What another call of processTimeEvents, or the end of one, must keep.
LEMMA NestingKeeps ==
    ASSUME TimersInvariant, UNCHANGED <<listVars, deleted, freed, wait, ref, timeout, searchVars>>,
           stack' \in Seq(Frame), Len(stack') <= MaxDepth,
           phase' \in {"poll", "timers"}, phase' = "timers" <=> stack' # <<>>,
           phase = "timers" => Top.at # "final",
           \A i \in 1 .. Len(stack') : i < Len(stack') => stack'[i].at = "nested",
           \A i \in 1 .. Len(stack') : stack'[i].at # "final",
           Live' = Live => \A i \in 1 .. Len(stack') : FrameRight(i)',
           \A k : Calls(k)' = Calls(k)
    PROVE  TimersInvariant'
  <1>1. UNCHANGED <<head, nextId, next, prev>> /\ UNCHANGED <<te, earliest>>
    BY DEF listVars, searchVars
  <1>2. Live' = Live
    <2>1. Finalizing' = {}
      BY DEF Finalizing
    <2> QED BY <1>1, <2>1, LiveIs DEF Live
  <1>3. ListIntact'
    BY <1>1, <1>2, ListKept DEF TimersInvariant
  <1>4. TypeOK'
    BY <1>1 DEF TimersInvariant, TypeOK
  <1>5. \A k \in Timer : ref'[k] = Cardinality(Calls(k))'
    BY DEF TimersInvariant
  <1> QED BY <1>1, <1>2, <1>3, <1>4, <1>5 DEF TimersInvariant, WakesInTime, SearchRight

\* The file events are done: the outermost walk begins.
LEMMA FilesStep == TimersInvariant /\ FilesDone => TimersInvariant'
  <1> SUFFICES ASSUME TimersInvariant, FilesDone PROVE TimersInvariant'
    OBVIOUS
  <1> DEFINE f == NewFrame
  <1>1. /\ phase = "files" /\ phase' = "timers" /\ stack' = <<f>>
        /\ UNCHANGED <<listVars, deleted, freed, wait, ref, timeout, searchVars>>
        /\ UNCHANGED <<head, nextId>>
    BY DEF FilesDone, listVars
  <1>2. /\ f \in Frame /\ f.te = head /\ f.at = "walk" /\ f.after = None /\ f.maxId = nextId - 1
        /\ head \in Live \cup {None} /\ head <= nextId - 1 /\ nextId - 1 < nextId
    BY BeginsRight
  <1> HIDE DEF f
  <1>3. /\ stack' \in Seq(Frame) /\ Len(stack') = 1 /\ stack'[1] = f /\ stack' # <<>>
        /\ 1 .. Len(stack') = {1} /\ stack = <<>>
    BY <1>1, <1>2 DEF TimersInvariant, TypeOK
  <1>4. \A k : Calls(k) = {} /\ Calls(k)' = {}
    BY <1>2, <1>3 DEF Calls
  <1>5. ASSUME Live' = Live, NEW i \in 1 .. Len(stack') PROVE FrameRight(i)'
    <2>1. ~(i < Len(stack')) /\ stack'[i] = f
      BY <1>3
    <2> QED BY <1>1, <1>2, <1>5, <2>1 DEF FrameRight
  <1>6. Len(stack') <= MaxDepth
    BY <1>3, MaxDepthAssumption
  <1>7. \A i \in 1 .. Len(stack') : ~(i < Len(stack')) /\ stack'[i].at # "final"
    BY <1>2, <1>3
  <1> QED BY <1>1, <1>3, <1>4, <1>5, <1>6, <1>7, NestingKeeps

\* A proc runs the loop again.
LEMMA ReenterStep == TimersInvariant /\ Reenter => TimersInvariant'
  <1> SUFFICES ASSUME TimersInvariant, Reenter PROVE TimersInvariant'
    OBVIOUS
  <1> DEFINE f == NewFrame
             g == [Top EXCEPT !.at = "nested"]
             n == Len(stack)
  <1>1. /\ phase = "timers" /\ phase' = "timers" /\ Top.at = "proc" /\ Len(stack) < MaxDepth
        /\ stack' = Append(WithTop(g), f)
        /\ UNCHANGED <<listVars, deleted, freed, wait, ref, timeout, searchVars>>
        /\ UNCHANGED <<head, nextId>>
    BY DEF Reenter, listVars, loopVars
  <1>2. /\ f \in Frame /\ f.te = head /\ f.at = "walk" /\ f.after = None /\ f.maxId = nextId - 1
        /\ head \in Live \cup {None} /\ head <= nextId - 1 /\ nextId - 1 < nextId
    BY BeginsRight
  <1>3. /\ g \in Frame /\ g.te = Top.te /\ g.at = "nested" /\ g.after = Top.after
        /\ g.maxId = Top.maxId
    BY <1>1, WalkAt DEF Frame
  <1> HIDE DEF f, g
  <1>4. /\ n \in Nat \ {0} /\ WithTop(g) \in Seq(Frame) /\ Len(WithTop(g)) = n
        /\ Top = stack[n]
        /\ \A i \in 1 .. n : WithTop(g)[i] = IF i = n THEN g ELSE stack[i]
    BY <1>1, <1>3, StackTop DEF TimersInvariant
  <1>5. /\ stack' \in Seq(Frame) /\ Len(stack') = n + 1 /\ stack' # <<>>
        /\ \A i \in 1 .. n : stack'[i] = IF i = n THEN g ELSE stack[i]
        /\ stack'[n + 1] = f
    BY <1>1, <1>2, <1>4
  <1>6. \A i \in 1 .. n : i < n => stack[i].at = "nested"
    BY DEF TimersInvariant, FrameRight
  <1>7. ASSUME NEW i \in 1 .. Len(stack')
        PROVE  /\ i < Len(stack') => stack'[i].at = "nested"
               /\ stack'[i].at # "final"
    <2>1. CASE i = n + 1
      BY <1>2, <1>4, <1>5, <2>1
    <2>2. CASE i # n + 1
      <3>1. i \in 1 .. n
        BY <1>4, <1>5, <2>2
      <3> QED BY <1>3, <1>4, <1>5, <1>6, <3>1
    <2> QED BY <2>1, <2>2
  <1>8. ASSUME Live' = Live, NEW i \in 1 .. Len(stack') PROVE FrameRight(i)'
    <2>1. CASE i = n + 1
      <3>1. ~(i < Len(stack')) /\ stack'[i] = f
        BY <1>4, <1>5, <2>1
      <3> QED BY <1>1, <1>2, <1>8, <3>1 DEF FrameRight
    <2>2. CASE i # n + 1
      <3>1. i \in 1 .. n
        BY <1>4, <1>5, <2>2
      <3>2. /\ stack'[i].te = stack[i].te /\ stack'[i].maxId = stack[i].maxId
            /\ stack'[i].after = stack[i].after
            /\ stack'[i].at = "nested" /\ stack[i].at \in {"proc", "nested"}
        BY <1>1, <1>3, <1>4, <1>5, <1>6, <3>1
      <3>3. FrameRight(i)
        BY <3>1 DEF TimersInvariant
      <3> QED BY <1>1, <1>8, <3>2, <3>3 DEF FrameRight
    <2> QED BY <2>1, <2>2
  <1>9. ASSUME NEW k PROVE Calls(k)' = Calls(k)
    <2>1. \A i \in 1 .. n : (i \in Calls(k)' <=> i \in Calls(k))
      BY <1>1, <1>3, <1>4, <1>5 DEF Calls
    <2>2. n + 1 \notin Calls(k)' /\ Calls(k)' \subseteq 1 .. n + 1 /\ Calls(k) \subseteq 1 .. n
      BY <1>2, <1>5 DEF Calls
    <2>3. \A i \in 1 .. n + 1 : i \in 1 .. n \/ i = n + 1
      BY <1>4
    <2> QED BY <2>1, <2>2, <2>3
  <1>10. Len(stack') <= MaxDepth
    BY <1>1, <1>4, <1>5, MaxDepthAssumption
  <1> QED BY <1>1, <1>5, <1>7, <1>8, <1>9, <1>10, NestingKeeps

\* A walk ends; the one outside it, if any, is still in its proc.
LEMMA LeaveStep == TimersInvariant /\ Leave => TimersInvariant'
  <1> SUFFICES ASSUME TimersInvariant, Leave PROVE TimersInvariant'
    OBVIOUS
  <1> DEFINE n == Len(stack)
  <1>1. /\ phase = "timers" /\ Top.at = "walk" /\ stack' = Front(stack)
        /\ phase' = IF n = 1 THEN "poll" ELSE "timers"
        /\ UNCHANGED <<listVars, deleted, freed, wait, ref, timeout, searchVars>>
        /\ UNCHANGED <<head, nextId>>
    BY DEF Leave, WalkDone, listVars
  <1>2. /\ n \in Nat \ {0} /\ stack \in Seq(Frame) /\ Top = stack[n] /\ n <= MaxDepth
    BY <1>1, StackTop DEF TimersInvariant, TypeOK
  <1>3. /\ stack' \in Seq(Frame) /\ Len(stack') = n - 1
        /\ \A i \in 1 .. n - 1 : stack'[i] = stack[i]
    <2>1. stack' = SubSeq(stack, 1, n - 1) /\ \A i \in 1 .. n - 1 : stack[i] \in Frame
      BY <1>1, <1>2 DEF Front
    <2> HIDE DEF n
    <2> QED BY <1>2, <2>1, SubSeqProperties
  <1>4. \A i \in 1 .. n - 1 : i < n /\ i \in 1 .. n /\ stack[i].at = "nested" /\ FrameRight(i)
    BY <1>2 DEF TimersInvariant, FrameRight
  <1>5. ASSUME Live' = Live, NEW i \in 1 .. Len(stack') PROVE FrameRight(i)'
    <2>1. stack'[i] = stack[i] /\ stack[i].at = "nested" /\ FrameRight(i)
      BY <1>3, <1>4
    <2> QED BY <1>1, <1>5, <2>1 DEF FrameRight
  <1>6. ASSUME NEW k PROVE Calls(k)' = Calls(k)
    <2>1. n \notin Calls(k) /\ Calls(k)' \subseteq 1 .. n - 1 /\ Calls(k) \subseteq 1 .. n
      BY <1>1, <1>2, <1>3 DEF Calls
    <2>2. \A i \in 1 .. n - 1 : (i \in Calls(k)' <=> i \in Calls(k))
      BY <1>3, <1>4 DEF Calls
    <2>3. \A i \in 1 .. n : i \in 1 .. n - 1 \/ i = n
      BY <1>2
    <2> QED BY <2>1, <2>2, <2>3
  <1>7. phase' = "timers" <=> stack' # <<>>
    BY <1>1, <1>2, <1>3
  <1>8. Len(stack') <= MaxDepth
    BY <1>2, <1>3, MaxDepthAssumption
  <1>9. \A i \in 1 .. Len(stack') : stack'[i].at = "nested"
    BY <1>3, <1>4
  <1> QED BY <1>1, <1>3, <1>5, <1>6, <1>7, <1>8, <1>9, NestingKeeps

(* The theorems *)

\* Before the first timer there is nothing to be wrong about.
LEMMA InitRight == Init => TimersInvariant
  <1> SUFFICES ASSUME Init PROVE TimersInvariant
    OBVIOUS
  <1>1. 1 \in Timer /\ 1 \in Pointer /\ 0 \in Pointer /\ MaxDelay \in Delay /\ 0 \in Delay
        /\ None = 0 /\ 2 \in 2 .. MaxTimers + 1 /\ Timer \subseteq Nat \ {0}
    BY MaxTimersAssumption, MaxDelayAssumption DEF Timer, Pointer, None, Delay
  <1>2. stack \in Seq(Frame) /\ Len(stack) = 0 /\ Len(stack) <= MaxDepth /\ 1 .. Len(stack) = {}
    BY MaxDepthAssumption DEF Init
  <1>3. TypeOK
    BY <1>1, <1>2 DEF Init, TypeOK, Forever
  <1>4. Live = {1}
    BY <1>2 DEF Live, Finalizing, Init
  <1>5. ListIntact
    BY <1>1, <1>4 DEF ListIntact, Init
  <1>6. \A k \in Timer : ref[k] = Cardinality(Calls(k))
    <2>1. \A k : Calls(k) = {}
      BY <1>2 DEF Calls
    <2> QED BY <2>1, FS_EmptySet DEF Init
  <1> QED BY <1>2, <1>3, <1>5, <1>6 DEF TimersInvariant, WakesInTime, SearchRight, Init

\* The inductive invariant.
THEOREM TimersInvariance == Spec => []TimersInvariant
  <1>1. Init => TimersInvariant
    BY InitRight
  <1>2. TimersInvariant /\ [Next]_vars => TimersInvariant'
    <2> SUFFICES ASSUME TimersInvariant, [Next]_vars PROVE TimersInvariant'
      OBVIOUS
    <2>1. CASE CreateTimeEvent
      BY <2>1, CreateStep
    <2>2. CASE DeleteTimeEvent
      BY <2>2, DeleteStep
    <2>3. CASE TimePasses
      BY <2>3, TimeStep
    <2>4. CASE Poll
      BY <2>4, PollStep
    <2>5. CASE SearchOn
      BY <2>5, SearchStep
    <2>6. CASE SearchDone
      BY <2>6, SearchedStep
    <2>7. CASE WakeByFile \/ WakeByTimeout
      BY <2>7, WakeStep
    <2>8. CASE FilesDone
      BY <2>8, FilesStep
    <2>9. CASE SkipReferenced
      BY <2>9, PassStep DEF SkipReferenced
    <2>10. CASE Finalize
      BY <2>10, FinalizeStep
    <2>11. CASE PassBy
      BY <2>11, PassStep DEF PassBy
    <2>12. CASE CallProc
      BY <2>12, CallStep
    <2>13. CASE Leave
      BY <2>13, LeaveStep
    <2>14. CASE FinalizerReturns
      BY <2>14, FinalizedStep
    <2>15. CASE Reenter
      BY <2>15, ReenterStep
    <2>16. CASE ProcReturns
      BY <2>16, ReturnStep
    <2>17. CASE UNCHANGED vars
      <3>1. /\ UNCHANGED <<listVars, deleted, freed, ref, stack>>
            /\ UNCHANGED <<wait, phase, timeout, te, earliest>>
        BY <2>17 DEF vars, loopVars, searchVars
      <3>2. UNCHANGED <<head, nextId, next, prev>>
        BY <3>1 DEF listVars
      <3>3. TypeOK'
        BY <3>1, <3>2 DEF TimersInvariant, TypeOK
      <3>4. WakesInTime' /\ SearchRight'
        BY <3>1, ListSame DEF TimersInvariant, WakesInTime, SearchRight
      <3> QED BY <3>1, <3>3, <3>4, ListSame DEF TimersInvariant
    <2> QED BY <2>1, <2>2, <2>3, <2>4, <2>5, <2>6, <2>7, <2>8, <2>9, <2>10, <2>11, <2>12,
               <2>13, <2>14, <2>15, <2>16, <2>17 DEF Next, Walk
  <1> QED BY <1>1, <1>2, PTL DEF Spec

\* The variables keep their types.
THEOREM TypeCorrect == Spec => []TypeOK
  <1>1. TimersInvariant => TypeOK
    BY DEF TimersInvariant
  <1> QED BY <1>1, TimersInvariance, PTL

\* The list is what is neither freed nor being finalized, newest first, however
\* callbacks create and delete timers and run the loop inside each other.
THEOREM ListStaysIntact == Spec => []ListIntact
  <1>1. TimersInvariant => ListIntact
    BY DEF TimersInvariant
  <1> QED BY <1>1, TimersInvariance, PTL

\* No walk, at any depth, goes on from a timer that was freed.
THEOREM NothingIsLeftDangling == Spec => []NothingDangles
  <1>1. ASSUME TimersInvariant PROVE NothingDangles
    <2> SUFFICES ASSUME NEW i \in 1 .. Len(stack)
                 PROVE  /\ stack[i].te \notin freed /\ stack[i].after \notin freed
                        /\ stack[i].at \in {"proc", "nested"} => stack[i].te \in Live
      BY DEF NothingDangles
    <2>1. FrameRight(i) /\ stack[i] \in Frame
      BY <1>1 DEF TimersInvariant, TypeOK
    <2>2. Live \cap freed = {} /\ None \notin freed
      BY <1>1 DEF Live, TimersInvariant, TypeOK, Timer, None
    <2> QED BY <2>1, <2>2 DEF FrameRight, Frame
  <1> QED BY <1>1, TimersInvariance, PTL

\* A walk meets no timer created since it began.
THEOREM TheCheckIsUseless == Spec => []CheckIsUseless
  <1>1. TimersInvariant => CheckIsUseless
    BY DEF TimersInvariant, FrameRight, CheckIsUseless
  <1> QED BY <1>1, TimersInvariance, PTL

\* The poll sleeps until the first timer that is not deleted is due: the search
\* finds it wherever it is in the list, behind whatever deleted timers.
THEOREM PollWakesInTime == Spec => []WakesInTime
  <1>1. TimersInvariant => WakesInTime
    BY DEF TimersInvariant
  <1> QED BY <1>1, TimersInvariance, PTL

\* With a timer that is never deleted, the poll does not follow NULL.
THEOREM ServerNeverCrashes == Spec => []NeverCrashes
  <1>1. TimersInvariant => NeverCrashes
    BY DEF TimersInvariant, NeverCrashes
  <1> QED BY <1>1, TimersInvariance, PTL

\* A deleted timer stays deleted and its proc is not called again.
THEOREM DeletedForGood == Spec => DeletionIsFinal
  <1> DEFINE Final == \A k \in deleted : k \in deleted' /\ ref'[k] <= ref[k]
  <1>1. ASSUME TimersInvariant, [Next]_vars PROVE [Final]_vars
    <2> USE DEF Final
    <2>1. deleted \subseteq Timer /\ ref \in [Timer -> Nat] /\ \A k \in deleted : ref[k] \in Nat
      BY <1>1 DEF TimersInvariant, TypeOK
    <2>2. CASE ref' = ref /\ deleted \subseteq deleted'
      BY <2>1, <2>2
    <2>3. CASE CallProc
      <3>1. /\ Top.te \notin deleted /\ deleted' = deleted
            /\ ref' = [ref EXCEPT ![Top.te] = @ + 1]
        BY <2>3 DEF CallProc
      <3> QED BY <2>1, <3>1
    <2>4. CASE ProcReturns
      <3>1. ref' = [ref EXCEPT ![Top.te] = @ - 1]
        BY <2>4 DEF ProcReturns, Release
      <3>2. deleted \subseteq deleted'
        BY <2>4 DEF ProcReturns, Rearm
      <3>3. ASSUME NEW k \in deleted PROVE ref'[k] <= ref[k]
        <4>1. ref'[k] = ref[k] \/ ref'[k] = ref[k] - 1
          BY <2>1, <3>1
        <4> QED BY <2>1, <4>1
      <3> QED BY <3>2, <3>3
    <2>5. CASE CreateTimeEvent \/ DeleteTimeEvent \/ TimePasses
      <3>1. ref' = ref /\ deleted \subseteq deleted'
        BY <2>5 DEF CreateTimeEvent, DeleteTimeEvent, TimePasses
      <3> QED BY <2>2, <3>1
    <2>6. CASE Poll \/ SearchOn \/ SearchDone \/ WakeByFile \/ WakeByTimeout \/ FilesDone \/ Reenter
      <3>1. ref' = ref /\ deleted' = deleted
        BY <2>6 DEF Poll, SearchOn, SearchDone, WakeByFile, WakeByTimeout, FilesDone, Reenter
      <3> QED BY <2>2, <3>1
    <2>7. CASE SkipReferenced \/ Finalize \/ PassBy \/ Leave \/ FinalizerReturns
      <3>1. ref' = ref /\ deleted' = deleted
        BY <2>7 DEF SkipReferenced, Finalize, PassBy, Leave, FinalizerReturns
      <3> QED BY <2>2, <3>1
    <2> HIDE DEF Final
    <2> QED BY <1>1, <2>3, <2>4, <2>5, <2>6, <2>7 DEF Next, Walk
  <1>2. Spec => [][Final]_vars
    BY <1>1, TimersInvariance, PTL DEF Spec
  <1> QED BY <1>2 DEF DeletionIsFinal

(* Every walk ends: the measure that goes down *)

\* The measure is a number, and what it is.
LEMMA LeftIs ==
    ASSUME NEW f \in Frame
    PROVE  /\ f.te \in Nat /\ Left(f) \in Nat
           /\ f.at = "walk" => Left(f) = 3 * f.te + 2
           /\ f.at = "proc" => Left(f) = 3 * f.te + 1
           /\ f.at \in {"nested", "final"} => Left(f) = 3 * f.te
  <1>1. f.te \in Nat
    BY MaxTimersAssumption DEF Frame, Pointer, Timer, None
  <1>2. /\ ToDo(f.at) \in {0, 1, 2}
        /\ f.at = "walk" => ToDo(f.at) = 2
        /\ f.at = "proc" => ToDo(f.at) = 1
        /\ f.at \in {"nested", "final"} => ToDo(f.at) = 0
    BY DEF ToDo
  <1>3. Left(f) = 3 * f.te + ToDo(f.at)
    BY DEF Left
  <1> QED BY <1>1, <1>2, <1>3

\* The innermost walk replaced by one that has less left, and nothing else.
LEMMA TopDescends ==
    ASSUME TimersInvariant, phase = "timers", NEW f \in Frame, stack' = WithTop(f),
           Left(f) < Left(Top)
    PROVE  /\ Len(stack) <= Len(stack')
           /\ 0 <= Left(stack'[Len(stack)]) /\ Left(stack'[Len(stack)]) < Left(Top)
           /\ \A i \in 1 .. Len(stack) - 1 : stack'[i] = stack[i]
  <1>1. /\ Len(stack) \in Nat \ {0} /\ Len(stack') = Len(stack)
        /\ \A i \in 1 .. Len(stack) : stack'[i] = IF i = Len(stack) THEN f ELSE stack[i]
    BY StackTop DEF TimersInvariant
  <1>2. stack'[Len(stack)] = f
    BY <1>1
  <1>3. \A i \in 1 .. Len(stack) - 1 : stack'[i] = stack[i]
    BY <1>1
  <1>4. Left(f) \in Nat
    BY LeftIs
  <1> HIDE DEF Left
  <1> QED BY <1>1, <1>2, <1>3, <1>4

\* Where a frame stands when the steps of processTimeEvents have moved it.
LEMMA FrameMoves ==
    ASSUME NEW t \in Frame, NEW p \in Pointer
    PROVE  /\ [t EXCEPT !.te = p] \in Frame
           /\ [t EXCEPT !.at = "walk", !.te = p] \in Frame
           /\ [t EXCEPT !.at = "walk", !.te = p, !.after = None] \in Frame
           /\ [t EXCEPT !.at = "final", !.after = p] \in Frame
           /\ [t EXCEPT !.at = "proc"] \in Frame /\ [t EXCEPT !.at = "nested"] \in Frame
  BY DEF Frame, Pointer

\* What is finalized now was in front of what the walk goes on to.
LEMMA FinalStep == TimersInvariant /\ FinalDescends /\ [Next]_vars => FinalDescends'
  <1> SUFFICES ASSUME TimersInvariant, FinalDescends, [Next]_vars PROVE FinalDescends'
    OBVIOUS
  <1> DEFINE n == Len(stack)
  <1>1. CASE stack' = stack
    BY <1>1 DEF FinalDescends
  <1>2. ASSUME phase = "timers", NEW f \in Frame, stack' = WithTop(f),
               f.at = "final" => f.after < f.te
        PROVE  FinalDescends'
    <2>1. /\ n \in Nat \ {0} /\ Len(stack') = n
          /\ \A i \in 1 .. n : stack'[i] = IF i = n THEN f ELSE stack[i]
      BY <1>2, StackTop DEF TimersInvariant
    <2> QED BY <1>2, <2>1 DEF FinalDescends
  <1>3. CASE SkipReferenced \/ PassBy \/ CallProc \/ ProcReturns \/ FinalizerReturns
    <2>1. phase = "timers" /\ Top \in Frame /\ Top.after \in Pointer
      BY <1>3, WalkAt DEF SkipReferenced, PassBy, CallProc, ProcReturns, FinalizerReturns,
                          Walking, Frame
    <2>2. CASE FinalizerReturns
      <3>1. [Top EXCEPT !.at = "walk", !.te = Top.after, !.after = None].at = "walk"
        BY <2>1 DEF Frame
      <3> QED BY <1>2, <2>1, <2>2, <3>1, FrameMoves DEF FinalizerReturns
    <2>3. CASE CallProc
      <3>1. [Top EXCEPT !.at = "proc"].at = "proc"
        BY <2>1 DEF Frame
      <3> QED BY <1>2, <2>1, <2>3, <3>1, FrameMoves DEF CallProc
    <2>4. CASE SkipReferenced \/ PassBy \/ ProcReturns
      <3>1. Top.at # "final" /\ Top.te \in Live /\ next[Top.te] \in Pointer
        BY <2>4, <2>1, WalkAt DEF SkipReferenced, PassBy, ProcReturns, Walking
      <3>2. /\ [Top EXCEPT !.te = next[Top.te]].at # "final"
            /\ [Top EXCEPT !.at = "walk", !.te = next[Top.te]].at # "final"
        BY <2>1, <3>1 DEF Frame
      <3> QED BY <1>2, <2>1, <2>4, <3>1, <3>2, FrameMoves
              DEF SkipReferenced, PassBy, ProcReturns, AfterProc
    <2> QED BY <1>3, <2>2, <2>3, <2>4
  <1>4. CASE Finalize
    <2>1. phase = "timers" /\ Top \in Frame /\ Top.te \in Live
      BY <1>4, WalkAt DEF Finalize, Walking
    <2>2. next[Top.te] < Top.te /\ next[Top.te] \in Pointer
      BY <2>1, WalkAt
    <2> DEFINE f == [Top EXCEPT !.at = "final", !.after = next[Top.te]]
    <2>3. f \in Frame /\ f.after < f.te
      BY <2>1, <2>2, FrameMoves DEF Frame
    <2>4. stack' = WithTop(f)
      BY <1>4 DEF Finalize
    <2> HIDE DEF f
    <2> QED BY <1>2, <2>1, <2>3, <2>4
  <1>5. CASE FilesDone
    <2>1. stack' = <<NewFrame>> /\ NewFrame.at = "walk"
      BY <1>5, BeginsRight DEF FilesDone
    <2> QED BY <2>1 DEF FinalDescends
  <1>6. CASE Reenter
    <2> DEFINE g == [Top EXCEPT !.at = "nested"]
    <2>1. phase = "timers" /\ Top \in Frame /\ stack' = Append(WithTop(g), NewFrame)
      BY <1>6, WalkAt DEF Reenter
    <2>2. g \in Frame /\ g.at = "nested" /\ NewFrame \in Frame /\ NewFrame.at = "walk"
      BY <2>1, FrameMoves, BeginsRight DEF Frame
    <2> HIDE DEF g
    <2>3. /\ n \in Nat \ {0} /\ WithTop(g) \in Seq(Frame) /\ Len(WithTop(g)) = n
          /\ \A i \in 1 .. n : WithTop(g)[i] = IF i = n THEN g ELSE stack[i]
      BY <2>1, <2>2, StackTop DEF TimersInvariant
    <2>4. /\ Len(stack') = n + 1 /\ stack'[n + 1] = NewFrame
          /\ \A i \in 1 .. n : stack'[i] = IF i = n THEN g ELSE stack[i]
      BY <2>1, <2>2, <2>3
    <2>5. ASSUME NEW i \in 1 .. Len(stack'), stack'[i].at = "final"
          PROVE  stack'[i].after < stack'[i].te
      <3>1. i \in 1 .. n /\ i # n
        BY <2>2, <2>3, <2>4, <2>5
      <3> QED BY <2>4, <2>5, <3>1 DEF FinalDescends
    <2> QED BY <2>5 DEF FinalDescends
  <1>7. CASE Leave
    <2>1. /\ n \in Nat \ {0} /\ stack' = SubSeq(stack, 1, n - 1)
          /\ \A i \in 1 .. n - 1 : stack[i] \in Frame
      BY <1>7, StackTop DEF Leave, WalkDone, Front, TimersInvariant, TypeOK
    <2> HIDE DEF n
    <2>2. Len(stack') = n - 1 /\ \A i \in 1 .. n - 1 : stack'[i] = stack[i]
      BY <2>1, SubSeqProperties
    <2> USE DEF n
    <2> QED BY <2>1, <2>2 DEF FinalDescends
  <1>8. CASE CreateTimeEvent \/ DeleteTimeEvent \/ TimePasses \/ Poll \/ SearchOn \/ SearchDone
              \/ WakeByFile \/ WakeByTimeout \/ UNCHANGED vars
    BY <1>1, <1>8 DEF CreateTimeEvent, DeleteTimeEvent, TimePasses, Poll, SearchOn, SearchDone,
                      WakeByFile, WakeByTimeout, vars
  <1> QED BY <1>3, <1>4, <1>5, <1>6, <1>7, <1>8 DEF Next, Walk

\* Each turn of processTimeEvents brings its walk nearer to its end, and moves no
\* other: that is what WalksEnd needs besides fairness.
THEOREM EveryWalkDescends == Spec => WalksDescend
  <1> DEFINE n == Len(stack)
             Descends == /\ n <= Len(stack')
                         /\ 0 <= Left(stack'[n]) /\ Left(stack'[n]) < Left(Top)
                         /\ \A i \in 1 .. n - 1 : stack'[i] = stack[i]
             Turned == phase = "timers" /\ stack' # stack => stack' = Front(stack) \/ Descends
  <1>1. ASSUME TimersInvariant, FinalDescends, [Next]_vars PROVE Turned
    <2> SUFFICES ASSUME phase = "timers", stack' # stack, stack' # Front(stack) PROVE Descends
      OBVIOUS
    <2>1. /\ Top \in Frame /\ Top = stack[n] /\ n \in Nat \ {0} /\ n \in 1 .. n
          /\ Top.te \in Nat /\ Left(Top) \in Nat
      BY <1>1, WalkAt, StackTop, LeftIs DEF TimersInvariant
    <2>2. Top.te \in Live => next[Top.te] < Top.te /\ next[Top.te] \in Pointer
      BY <1>1, WalkAt
    <2>3. CASE SkipReferenced \/ PassBy
      <3> DEFINE f == [Top EXCEPT !.te = next[Top.te]]
      <3>1. Top.te \in Live /\ Top.at = "walk" /\ stack' = WithTop(f)
        BY <1>1, <2>3, WalkAt DEF SkipReferenced, PassBy, Walking
      <3>2. f \in Frame /\ f.te = next[Top.te] /\ f.at = "walk"
        BY <2>1, <2>2, <3>1, FrameMoves DEF Frame
      <3> HIDE DEF f
      <3>3. Left(f) < Left(Top)
        BY <2>1, <2>2, <3>1, <3>2, LeftIs
      <3> QED BY <1>1, <3>1, <3>2, <3>3, TopDescends
    <2>4. CASE Finalize
      <3> DEFINE f == [Top EXCEPT !.at = "final", !.after = next[Top.te]]
      <3>1. Top.te \in Live /\ Top.at = "walk" /\ stack' = WithTop(f)
        BY <1>1, <2>4, WalkAt DEF Finalize, Walking
      <3>2. f \in Frame /\ f.te = Top.te /\ f.at = "final"
        BY <2>1, <2>2, <3>1, FrameMoves DEF Frame
      <3> HIDE DEF f
      <3>3. Left(f) < Left(Top)
        BY <2>1, <3>1, <3>2, LeftIs
      <3> QED BY <1>1, <3>1, <3>2, <3>3, TopDescends
    <2>5. CASE CallProc
      <3> DEFINE f == [Top EXCEPT !.at = "proc"]
      <3>1. Top.at = "walk" /\ stack' = WithTop(f)
        BY <2>5 DEF CallProc, Walking
      <3>2. f \in Frame /\ f.te = Top.te /\ f.at = "proc"
        BY <2>1, FrameMoves DEF Frame
      <3> HIDE DEF f
      <3>3. Left(f) < Left(Top)
        BY <2>1, <3>1, <3>2, LeftIs
      <3> QED BY <1>1, <3>1, <3>2, <3>3, TopDescends
    <2>6. CASE FinalizerReturns
      <3> DEFINE f == [Top EXCEPT !.at = "walk", !.te = Top.after, !.after = None]
      <3>1. Top.at = "final" /\ stack' = WithTop(f) /\ Top.after \in Pointer
        BY <2>1, <2>6 DEF FinalizerReturns, Frame
      <3>2. f \in Frame /\ f.te = Top.after /\ f.at = "walk"
        BY <2>1, <3>1, FrameMoves DEF Frame
      <3>3. Top.after < Top.te
        BY <1>1, <2>1, <3>1 DEF FinalDescends
      <3> HIDE DEF f
      <3>4. Left(f) < Left(Top)
        BY <2>1, <3>1, <3>2, <3>3, LeftIs
      <3> QED BY <1>1, <3>1, <3>2, <3>4, TopDescends
    <2>7. CASE ProcReturns
      <3> DEFINE f == [Top EXCEPT !.at = "walk", !.te = next[Top.te]]
      <3>1. Top.te \in Live /\ Top.at \in {"proc", "nested"} /\ stack' = WithTop(f)
        BY <1>1, <2>7, WalkAt DEF ProcReturns, AfterProc
      <3>2. f \in Frame /\ f.te = next[Top.te] /\ f.at = "walk"
        BY <2>1, <2>2, <3>1, FrameMoves DEF Frame
      <3> HIDE DEF f
      <3>3. Left(f) < Left(Top)
        BY <2>1, <2>2, <3>1, <3>2, LeftIs
      <3> QED BY <1>1, <3>1, <3>2, <3>3, TopDescends
    <2>8. CASE Reenter
      <3> DEFINE g == [Top EXCEPT !.at = "nested"]
      <3>1. Top.at = "proc" /\ stack' = Append(WithTop(g), NewFrame)
        BY <2>8 DEF Reenter
      <3>2. g \in Frame /\ g.te = Top.te /\ g.at = "nested" /\ NewFrame \in Frame
        BY <1>1, <2>1, FrameMoves, BeginsRight DEF Frame
      <3> HIDE DEF g
      <3>3. /\ WithTop(g) \in Seq(Frame) /\ Len(WithTop(g)) = n
            /\ \A i \in 1 .. n : WithTop(g)[i] = IF i = n THEN g ELSE stack[i]
        BY <1>1, <3>2, StackTop DEF TimersInvariant
      <3>4. /\ Len(stack') = n + 1
            /\ \A i \in 1 .. n : stack'[i] = IF i = n THEN g ELSE stack[i]
        BY <2>1, <3>1, <3>2, <3>3
      <3>5. Left(g) < Left(Top) /\ Left(g) \in Nat
        <4>1. Left(g) \in Nat /\ Left(g) = 3 * g.te
          BY <3>2, LeftIs
        <4>2. Left(Top) = 3 * Top.te + 1
          BY <2>1, <3>1, LeftIs
        <4> QED BY <2>1, <3>2, <4>1, <4>2
      <3>6. stack'[n] = g /\ n <= Len(stack') /\ \A i \in 1 .. n - 1 : stack'[i] = stack[i]
        BY <2>1, <3>4
      <3> QED BY <3>5, <3>6
    <2>9. ~(Leave \/ FilesDone)
      BY DEF Leave, WalkDone, FilesDone
    <2>10. ~(CreateTimeEvent \/ DeleteTimeEvent \/ TimePasses \/ Poll \/ SearchOn \/ SearchDone
             \/ WakeByFile \/ WakeByTimeout \/ UNCHANGED vars)
      BY DEF CreateTimeEvent, DeleteTimeEvent, TimePasses, Poll, SearchOn, SearchDone,
             WakeByFile, WakeByTimeout, vars
    <2> HIDE DEF Descends
    <2> QED BY <1>1, <2>3, <2>4, <2>5, <2>6, <2>7, <2>8, <2>9, <2>10 DEF Next, Walk
  <1>2. Init => FinalDescends
    BY DEF Init, FinalDescends
  <1>3. Spec => [][Turned]_vars
    <2> HIDE DEF Turned
    <2> QED BY <1>1, <1>2, FinalStep, TimersInvariance, PTL DEF Spec
  <1> QED BY <1>3, PTL DEF WalksDescend
=============================================================================
