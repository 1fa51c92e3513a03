------------------------ MODULE AeFileEvents_proofs ------------------------
(* Theorems about AeFileEvents, for all values of its constants. *)
EXTENDS AeFileEvents, TLAPS

\* Steps that leave the table alone keep what speaks of the table only.
LEMMA TableKept ==
    ASSUME EventsInvariant, UNCHANGED <<api, mask, watch, maxfd>>
    PROVE  KernelAgrees' /\ MaxFdRight'
  BY DEF EventsInvariant, KernelAgrees, Accepted, MaxFdRight

\* An empty table, no entries: the loop starts with the invariant.
LEMMA InitEstablishes == Init => EventsInvariant
  <1> SUFFICES ASSUME Init PROVE EventsInvariant
    OBVIOUS
  <1>1. Reserved \subseteq Fd /\ LastFd \in Nat /\ 0 \in Fd
    BY DescriptorsAssumption DEF Fd
  <1>2. TypeOK
    BY <1>1 DEF Init, TypeOK, NoTurn, Turn, Ready, Mask, Entry
  <1>3. KernelAgrees /\ MaxFdRight
    BY DEF Init, KernelAgrees, Accepted, MaxFdRight
  <1>4. EntriesRight /\ TurnRight /\ OwedRight
    BY DEF Init, EntriesRight, TurnRight, OwedRight
  <1> QED BY <1>2, <1>3, <1>4 DEF EventsInvariant

(* What the program does *)

\* A number that is opened is registered nowhere, and nothing is owed under it.
LEMMA OpenKeeps ==
    ASSUME EventsInvariant, NEW fd \in Fd, OpenFd(fd)
    PROVE  EventsInvariant'
  <1>1. /\ fd \notin open /\ open' = open \cup {fd} /\ InProgram
        /\ fresh' = IF pc = "handler" THEN fresh \cup {fd} ELSE fresh
        /\ UNCHANGED <<api, mask, watch, maxfd, loopVars, owed, calls, barred>>
        /\ pc = "handler" => cur.fd \in open
    BY DEF OpenFd, Open
  <1>2. TypeOK'
    BY <1>1 DEF EventsInvariant, TypeOK, loopVars
  <1>3. KernelAgrees' /\ MaxFdRight'
    BY <1>1, TableKept
  <1>4. EntriesRight'
    BY <1>1 DEF EventsInvariant, EntriesRight, loopVars, InProgram
  <1>5. TurnRight'
    BY <1>1 DEF EventsInvariant, TurnRight, loopVars, InProgram
  <1>6. OwedRight'
    BY <1>1 DEF EventsInvariant, OwedRight, ToCome, loopVars
  <1> QED BY <1>2, <1>3, <1>4, <1>5, <1>6 DEF EventsInvariant

\* aeCreateFileEvent keeps table, kernel and maxfd together.
LEMMA CreateKeeps ==
    ASSUME EventsInvariant, NEW fd \in Fd, NEW evs \in {{"R"}, {"W"}, {"W", "B"}},
           CreateFileEvent(fd, evs)
    PROVE  EventsInvariant'
  <1>1. /\ fd \in open /\ fd < SetSize
        /\ mask' = [mask EXCEPT ![fd] = @ \cup evs]
        /\ maxfd' = IF fd > maxfd THEN fd ELSE maxfd
        /\ UNCHANGED <<api, open, loopVars, histVars>>
        /\ watch' = [watch EXCEPT ![fd] = IF api = "epoll" THEN (mask[fd] \cup evs) \ {"B"}
                                          ELSE @ \cup (evs \ {"B"})]
    BY DEF CreateFileEvent, ApiAddEvent
  <1>2. /\ mask \in [Fd -> SUBSET Mask] /\ watch \in [Fd -> SUBSET Ready]
        /\ \A d \in Fd : watch[d] = mask[d] \ {"B"}
        /\ \A d \in Fd : "B" \in mask[d] => "W" \in mask[d]
    BY DEF EventsInvariant, TypeOK, KernelAgrees
  <1>3. /\ mask' \in [Fd -> SUBSET Mask] /\ watch' \in [Fd -> SUBSET Ready]
        /\ \A d \in Fd : watch'[d] = mask'[d] \ {"B"}
        /\ \A d \in Fd : "B" \in mask'[d] => "W" \in mask'[d]
        /\ \A d \in Fd : mask'[d] = IF d = fd THEN mask[d] \cup evs ELSE mask[d]
    BY <1>1, <1>2 DEF Mask, Ready
  <1>4. maxfd \in Fd \cup {-1} /\ Fd \subseteq Int
    BY DEF EventsInvariant, TypeOK, Fd
  <1>5. TypeOK'
    BY <1>1, <1>3, <1>4 DEF EventsInvariant, TypeOK, loopVars, histVars
  <1>6. KernelAgrees'
    BY <1>3 DEF KernelAgrees, Accepted
  <1>7. MaxFdRight'
    BY <1>1, <1>3, <1>4 DEF EventsInvariant, MaxFdRight
  <1>8. EntriesRight' /\ TurnRight'
    BY <1>1 DEF EventsInvariant, EntriesRight, TurnRight, loopVars, histVars
  <1>9. OwedRight'
    <2>1. owed \subseteq Fd \X Ready /\ barred \subseteq Fd
      BY DEF EventsInvariant, TypeOK
    <2> QED BY <1>1, <1>3, <2>1 DEF EventsInvariant, OwedRight, ToCome, loopVars, histVars
  <1> QED BY <1>5, <1>6, <1>7, <1>8, <1>9 DEF EventsInvariant

\* What lies strictly between two numbers is in the interval they leave.
LEMMA Between ==
    \A a, b, c \in Int : a < c /\ c < b => c \in a + 1 .. b - 1
  OBVIOUS

\* aeDeleteFileEvent does, and finds the maxfd that is left.
LEMMA DeleteKeeps ==
    ASSUME EventsInvariant, NEW fd \in Fd, NEW evs \in SUBSET Mask, DeleteFileEvent(fd, evs)
    PROVE  EventsInvariant'
  <1> DEFINE gone == Withdrawn(evs) \cap mask[fd]
  <1>1. /\ mask' = [mask EXCEPT ![fd] = @ \ gone]
        /\ LowerMaxfd(fd)
        /\ IF gone \cap Ready # {} THEN ApiDelEvent(fd, gone) ELSE UNCHANGED watch
        /\ owed' = owed \ ({fd} \X gone)
        /\ barred' = IF "B" \in gone THEN barred \ {fd} ELSE barred
        /\ UNCHANGED <<api, open, loopVars, fresh, calls>>
    BY DEF DeleteFileEvent
  <1>2. /\ mask \in [Fd -> SUBSET Mask] /\ watch \in [Fd -> SUBSET Ready]
        /\ \A d \in Fd : watch[d] = mask[d] \ {"B"}
        /\ \A d \in Fd : "B" \in mask[d] => "W" \in mask[d]
    BY DEF EventsInvariant, TypeOK, KernelAgrees
  <1>3. gone \subseteq mask[fd] /\ ("W" \in gone /\ "B" \in mask[fd] => "B" \in gone)
    BY DEF Withdrawn
  <1> HIDE DEF gone
  <1>4. /\ mask' \in [Fd -> SUBSET Mask]
        /\ \A d \in Fd : mask'[d] = IF d = fd THEN mask[d] \ gone ELSE mask[d]
        /\ \A d \in Fd : "B" \in mask'[d] => "W" \in mask'[d]
    BY <1>1, <1>2, <1>3
  <1>5. watch' \in [Fd -> SUBSET Ready] /\ \A d \in Fd : watch'[d] = mask'[d] \ {"B"}
    <2>1. CASE gone \cap Ready # {}
      <3>1. watch' = [watch EXCEPT ![fd] = IF api = "epoll" THEN mask'[fd] \ {"B"}
                                           ELSE @ \ gone]
        BY <1>1, <2>1 DEF ApiDelEvent
      <3>2. mask'[fd] \ {"B"} \subseteq Ready /\ watch[fd] \ gone = mask'[fd] \ {"B"}
        BY <1>2, <1>4 DEF Mask
      <3> QED BY <1>2, <1>4, <3>1, <3>2
    <2>2. CASE gone \cap Ready = {}
      <3>1. gone \subseteq {"B"}
        BY <1>2, <1>3, <2>2 DEF Mask
      <3> QED BY <1>1, <1>2, <1>4, <2>2, <3>1
    <2> QED BY <2>1, <2>2
  <1>6. /\ maxfd \in Fd \cup {-1} /\ LastFd \in Nat
        /\ maxfd # -1 => mask[maxfd] # {}
        /\ \A d \in Fd : mask[d] # {} => d <= maxfd
    BY DescriptorsAssumption DEF EventsInvariant, TypeOK, MaxFdRight
  <1>7. maxfd' \in Fd \cup {-1} /\ MaxFdRight'
    <2>1. CASE fd = maxfd /\ mask'[fd] = {}
      <3>1. maxfd' \in {j \in -1 .. maxfd - 1 :
                          /\ \A k \in j + 1 .. maxfd - 1 : mask[k] = {}
                          /\ j # -1 => mask[j] # {}}
        BY <1>1, <2>1 DEF LowerMaxfd
      <3>2. /\ maxfd' \in -1 .. maxfd - 1 /\ maxfd \in 0 .. LastFd
            /\ \A k \in maxfd' + 1 .. maxfd - 1 : mask[k] = {}
            /\ maxfd' # -1 => mask[maxfd'] # {}
        BY <3>1, <2>1 DEF Fd
      <3>5. maxfd' \in Fd \cup {-1} /\ maxfd' < maxfd
        BY <1>6, <3>2 DEF Fd
      <3>3. maxfd' # -1 => mask'[maxfd'] # {}
        BY <1>4, <3>2, <3>5, <2>1 DEF Fd
      <3>4. ASSUME NEW d \in Fd, mask'[d] # {} PROVE d <= maxfd'
        <4>1. d # fd /\ mask[d] # {}
          BY <1>4, <2>1, <3>4
        <4>2. d <= maxfd /\ d # maxfd
          BY <1>6, <2>1, <4>1
        <4>3. d \in Int /\ maxfd \in Int /\ maxfd' \in Int /\ d < maxfd
          BY <1>6, <3>2, <4>2 DEF Fd
        <4>4. ~(d > maxfd')
          <5> SUFFICES ASSUME d > maxfd' PROVE FALSE
            OBVIOUS
          <5>1. d \in maxfd' + 1 .. maxfd - 1
            BY <4>3, Between
          <5> QED BY <3>2, <4>1, <5>1
        <4> QED BY <4>3, <4>4
      <3> QED BY <3>3, <3>4, <3>5 DEF MaxFdRight
    <2>2. CASE ~(fd = maxfd /\ mask'[fd] = {})
      <3>1. maxfd' = maxfd
        BY <1>1, <2>2 DEF LowerMaxfd
      <3> QED BY <1>4, <1>6, <2>2, <3>1 DEF MaxFdRight
    <2> QED BY <2>1, <2>2
  <1>8. TypeOK'
    BY <1>1, <1>4, <1>5, <1>7 DEF EventsInvariant, TypeOK, loopVars
  <1>9. KernelAgrees'
    BY <1>4, <1>5 DEF KernelAgrees, Accepted
  <1>10. EntriesRight' /\ TurnRight'
    BY <1>1 DEF EventsInvariant, EntriesRight, TurnRight, loopVars
  <1>11. OwedRight'
    <2>1. owed \subseteq Fd \X Ready /\ barred \subseteq Fd
      BY DEF EventsInvariant, TypeOK
    <2>2. ASSUME NEW x \in owed' PROVE x[2] \in mask'[x[1]]
      <3>1. x \in owed /\ x \notin {fd} \X gone /\ x = <<x[1], x[2]>> /\ x[1] \in Fd
        BY <1>1, <2>1, <2>2
      <3>2. x[2] \in mask[x[1]]
        BY <3>1 DEF EventsInvariant, OwedRight
      <3> QED BY <1>4, <3>1, <3>2
    <2>3. ASSUME NEW d \in barred' PROVE "B" \in mask'[d]
      <3>1. d \in barred /\ d \in Fd /\ (d = fd => "B" \notin gone)
        BY <1>1, <2>1, <2>3
      <3>2. "B" \in mask[d]
        BY <3>1 DEF EventsInvariant, OwedRight
      <3> QED BY <1>4, <3>1, <3>2
    <2>4. \A x \in owed' : (\E e \in fired' : e.fd = x[1] /\ x[2] \in e.got)
                             \/ (x[1] = cur'.fd /\ ToCome(x[2])')
      BY <1>1 DEF EventsInvariant, OwedRight, ToCome, loopVars
    <2> QED BY <2>2, <2>3, <2>4 DEF OwedRight
  <1> QED BY <1>7, <1>8, <1>9, <1>10, <1>11 DEF EventsInvariant

\* A number is closed only when nothing is registered under it any more.
LEMMA CloseKeeps ==
    ASSUME EventsInvariant, NEW fd \in Fd, CloseFd(fd)
    PROVE  EventsInvariant'
  <1>1. /\ InProgram /\ fd \in open /\ mask[fd] = {}
        /\ pc = "outside" \/ fd = cur.fd \/ fd \in fresh
        /\ open' = open \ {fd} /\ fresh' = fresh \ {fd}
        /\ watch' = IF api = "select" THEN watch ELSE [watch EXCEPT ![fd] = {}]
        /\ UNCHANGED <<api, mask, maxfd, loopVars, owed, calls, barred>>
    BY DEF CloseFd, Close, MayClose
  <1>2. watch' = watch
    BY <1>1 DEF EventsInvariant, TypeOK, KernelAgrees
  <1>3. TypeOK'
    BY <1>1, <1>2 DEF EventsInvariant, TypeOK, loopVars
  <1>4. KernelAgrees' /\ MaxFdRight'
    BY <1>1, <1>2, TableKept
  <1>5. EntriesRight'
    BY <1>1 DEF EventsInvariant, EntriesRight, TurnRight, loopVars, InProgram
  <1>6. TurnRight'
    BY <1>1 DEF EventsInvariant, TurnRight, loopVars
  <1>7. OwedRight'
    BY <1>1 DEF EventsInvariant, OwedRight, ToCome, loopVars
  <1> QED BY <1>3, <1>4, <1>5, <1>6, <1>7 DEF EventsInvariant

(* The loop *)

\* A poll reports only descriptors that are open and registered, each once, and
\* has an entry for everything it reports.
LEMMA EntriesAre ==
    ASSUME TypeOK, KernelAgrees, MaxFdRight,
           NEW ready \in [Watched -> SUBSET Ready], Reports(ready)
    PROVE  /\ Entries(ready) \subseteq Entry
           /\ \A e \in Entries(ready) : e.fd \in open
           /\ \A e, f \in Entries(ready) : e.fd = f.fd => e = f
           /\ Reported(ready) \subseteq Fd \X Ready
           /\ \A x \in Reported(ready) : x[2] \in mask[x[1]] =>
                 \E e \in Entries(ready) : e.fd = x[1] /\ x[2] \in e.got
  <1>1. /\ Watched \subseteq Fd /\ Reported(ready) \subseteq Watched \X Ready
        /\ \A d \in Fd : mask[d] # {} => d \in open
        /\ \A d \in Watched : mask[d] # {} /\ d <= maxfd /\ d \in open
        /\ mask \in [Fd -> SUBSET Mask]
    BY DEF Watched, Reported, TypeOK, KernelAgrees, MaxFdRight
  <1>2. Reported(ready) \subseteq Fd \X Ready
    BY <1>1
  <1>3. CASE api = "select"
    <2> DEFINE Of(d) == [fd |-> d, got |-> {ev \in mask[d] : <<d, ev>> \in Reported(ready)}]
               Some  == {x \in Fd : x <= maxfd /\ mask[x] # {} /\ Reported(ready) # {}}
    <2>1. Entries(ready) = {Of(d) : d \in Some}
      BY <1>3 DEF Entries
    <2>2. ASSUME NEW d \in Fd PROVE Of(d) \in Entry /\ Of(d).fd = d
      BY <1>1 DEF Entry
    <2>3. Some \subseteq Fd /\ \A d \in Some : d \in open
      BY <1>1
    <2>4. ASSUME NEW x \in Reported(ready), x[2] \in mask[x[1]]
          PROVE  x[1] \in Some /\ x[2] \in Of(x[1]).got
      BY <1>1, <2>4
    <2> HIDE DEF Of, Some
    <2> QED BY <1>2, <2>1, <2>2, <2>3, <2>4
  <1>4. CASE api # "select"
    <2> DEFINE Of(d) == [fd |-> d, got |-> ready[d]]
               Some  == {x \in Watched : ready[x] # {}}
    <2>1. Entries(ready) = {Of(d) : d \in Some}
      BY <1>4 DEF Entries
    <2>2. ASSUME NEW d \in Watched PROVE Of(d) \in Entry /\ Of(d).fd = d
      BY <1>1 DEF Entry
    <2>3. Some \subseteq Watched /\ \A d \in Some : d \in open
      BY <1>1
    <2>4. ASSUME NEW x \in Reported(ready)
          PROVE  x[1] \in Some /\ x[2] \in Of(x[1]).got
      BY <1>1 DEF Reported
    <2> HIDE DEF Of, Some
    <2> QED BY <1>1, <1>2, <2>1, <2>2, <2>3, <2>4
  <1> QED BY <1>3, <1>4

\* aeApiPoll reports, once each, what is registered and ready.
LEMMA PollKeeps ==
    ASSUME EventsInvariant, Poll
    PROVE  EventsInvariant'
  <1>1. PICK ready \in [Watched -> SUBSET Ready] : PollGives(ready)
    BY DEF Poll
  <1>2. /\ pc = "poll" /\ pc' = "events" /\ Reports(ready)
        /\ fired' = Entries(ready)
        /\ owed' = {x \in Reported(ready) : x[2] \in mask[x[1]]}
        /\ UNCHANGED <<tableVars, cur, fresh, calls, barred>>
    BY <1>1 DEF Poll, PollGives
  <1>3. /\ Entries(ready) \subseteq Entry
        /\ \A e \in Entries(ready) : e.fd \in open
        /\ \A e, f \in Entries(ready) : e.fd = f.fd => e = f
        /\ Reported(ready) \subseteq Fd \X Ready
        /\ \A x \in Reported(ready) : x[2] \in mask[x[1]] =>
              \E e \in Entries(ready) : e.fd = x[1] /\ x[2] \in e.got
    BY <1>2, EntriesAre DEF EventsInvariant
  <1>4. fresh = {} /\ calls = {}
    BY <1>2 DEF EventsInvariant, EntriesRight
  <1>5. TypeOK'
    BY <1>2, <1>3 DEF EventsInvariant, TypeOK, tableVars
  <1>6. KernelAgrees' /\ MaxFdRight'
    BY <1>2, TableKept DEF tableVars
  <1>7. EntriesRight' /\ TurnRight'
    BY <1>2, <1>3, <1>4 DEF EntriesRight, TurnRight, tableVars
  <1>8. OwedRight'
    BY <1>2, <1>3 DEF EventsInvariant, OwedRight, tableVars
  <1> QED BY <1>5, <1>6, <1>7, <1>8 DEF EventsInvariant

\* The entry taken in hand still has its number to itself.
LEMMA TakeKeeps ==
    ASSUME EventsInvariant, TakeEntry
    PROVE  EventsInvariant'
  <1>1. PICK e \in fired :
           /\ fired' = fired \ {e}
           /\ cur' = [fd |-> e.fd, got |-> e.got, invert |-> "B" \in mask[e.fd],
                      called |-> {}, stage |-> "read"]
           /\ barred' = IF "B" \in mask[e.fd] THEN barred \cup {e.fd} ELSE barred
    BY DEF TakeEntry
  <1>2. pc = "events" /\ pc' = "dispatch" /\ UNCHANGED <<tableVars, fresh, owed, calls>>
    BY DEF TakeEntry
  <1>3. e.fd \in Fd /\ e.got \in SUBSET Ready
    BY DEF EventsInvariant, TypeOK, Entry
  <1>4. /\ cur' \in Turn /\ cur'.fd = e.fd /\ cur'.got = e.got /\ cur'.called = {}
        /\ cur'.stage = "read" /\ cur'.invert = ("B" \in mask[e.fd])
    BY <1>1, <1>3 DEF Turn
  <1>5. TypeOK'
    BY <1>1, <1>2, <1>3, <1>4 DEF EventsInvariant, TypeOK, tableVars
  <1>6. KernelAgrees' /\ MaxFdRight'
    BY <1>2, TableKept DEF tableVars
  <1>7. EntriesRight'
    BY <1>1, <1>2 DEF EventsInvariant, EntriesRight, tableVars
  <1>8. TurnRight'
    BY <1>1, <1>2, <1>4 DEF EventsInvariant, EntriesRight, OwedRight, TurnRight, tableVars
  <1>9. OwedRight'
    <2>1. ASSUME NEW x \in owed
          PROVE  \/ \E f \in fired' : f.fd = x[1] /\ x[2] \in f.got
                 \/ x[1] = cur'.fd /\ ToCome(x[2])'
      <3>1. PICK f \in fired : f.fd = x[1] /\ x[2] \in f.got
        BY <1>2, <2>1 DEF EventsInvariant, OwedRight, ToCome
      <3>2. CASE f = e
        BY <1>2, <1>4, <3>1, <3>2 DEF ToCome
      <3>3. CASE f # e
        BY <1>1, <3>1, <3>3
      <3> QED BY <3>2, <3>3
    <2>2. \A fd \in barred' : "B" \in mask'[fd]
      BY <1>1, <1>2 DEF EventsInvariant, OwedRight, tableVars
    <2> QED BY <1>2, <2>1, <2>2 DEF EventsInvariant, OwedRight, tableVars
  <1> QED BY <1>5, <1>6, <1>7, <1>8, <1>9 DEF EventsInvariant

\* A handler that is called takes what was owed to it.
LEMMA CallKeeps ==
    ASSUME EventsInvariant, CallProc
    PROVE  EventsInvariant'
  <1> DEFINE ev == CalledFor
  <1>1. /\ pc = "dispatch" /\ pc' = "handler" /\ Due
        /\ cur' = [cur EXCEPT !.called = @ \cup {ev}]
        /\ owed' = owed \ ({cur.fd} \X (IF cur.fd \in OneProc THEN cur.got ELSE {ev}))
        /\ calls' = calls \cup {<<cur.fd, ev>>}
        /\ UNCHANGED <<tableVars, fired, fresh, barred>>
    BY DEF CallProc
  <1>2. cur \in Turn /\ ev \in {"R", "W"} /\ ev \in Ready /\ (ev = "W" <=> cur.stage = "write")
    BY DEF EventsInvariant, TypeOK, CalledFor, Ready
  <1>3. /\ cur.stage = "read" => ~cur.invert
        /\ cur.stage = "readLast" => cur.invert
        /\ cur.stage \in {"read", "write", "readLast"}
        /\ cur.fd \in Fd /\ cur.got \subseteq Ready
    BY <1>1, <1>2 DEF Due, Turn
  <1> HIDE DEF ev
  <1>4. /\ cur' \in Turn /\ cur'.called = cur.called \cup {ev} /\ cur'.fd = cur.fd
        /\ cur'.got = cur.got /\ cur'.stage = cur.stage /\ cur'.invert = cur.invert
    BY <1>1, <1>2 DEF Turn
  <1>5. TypeOK'
    BY <1>1, <1>2, <1>3, <1>4 DEF EventsInvariant, TypeOK, tableVars
  <1>6. KernelAgrees' /\ MaxFdRight'
    BY <1>1, TableKept DEF tableVars
  <1>7. EntriesRight'
    BY <1>1 DEF EventsInvariant, EntriesRight, TurnRight, tableVars
  <1>8. TurnRight'
    BY <1>1, <1>2, <1>3, <1>4 DEF EventsInvariant, TurnRight, tableVars
  <1>9. OwedRight'
    <2>1. owed \subseteq Fd \X Ready
      BY DEF EventsInvariant, TypeOK
    <2>2. ASSUME NEW x \in owed'
          PROVE  \/ \E e \in fired : e.fd = x[1] /\ x[2] \in e.got
                 \/ x[1] = cur'.fd /\ ToCome(x[2])'
      <3>1. x \in owed /\ x = <<x[1], x[2]>> /\ x[1] \in Fd /\ x[2] \in {"R", "W"}
        BY <1>1, <2>1, <2>2 DEF Ready
      <3>2. x[1] = cur.fd => x[2] \notin (IF cur.fd \in OneProc THEN cur.got ELSE {ev})
        BY <1>1, <2>2, <3>1
      <3>3. CASE x[1] = cur.fd /\ ToCome(x[2])
        <4>1. x[2] \in cur.got /\ x[2] # ev /\ cur.fd \notin OneProc
          BY <3>2, <3>3 DEF ToCome
        <4> QED BY <1>1, <1>2, <1>3, <1>4, <3>1, <3>3, <4>1 DEF ToCome
      <3> QED BY <3>1, <3>3 DEF EventsInvariant, OwedRight
    <2> QED BY <1>1, <2>2 DEF EventsInvariant, OwedRight, tableVars
  <1> QED BY <1>5, <1>6, <1>7, <1>8, <1>9 DEF EventsInvariant

\* From a call that is over, or not due, to the next of the three.
LEMMA StageKeeps ==
    ASSUME EventsInvariant, NextStage, UNCHANGED <<tableVars, fired, histVars>>,
           pc = "handler" \/ (pc = "dispatch" /\ ~Due)
    PROVE  EventsInvariant'
  <1>1. cur \in Turn /\ NoTurn \in Turn
    BY DescriptorsAssumption DEF EventsInvariant, TypeOK, NoTurn, Turn, Fd
  <1>2. cur.stage \in {"read", "write", "readLast"}
    BY <1>1 DEF Turn
  <1>3. ASSUME NEW x \in owed
        PROVE  /\ x[2] \in {"R", "W"} /\ x[2] \in mask[x[1]]
               /\ \/ \E e \in fired : e.fd = x[1] /\ x[2] \in e.got
                  \/ /\ x[1] = cur.fd /\ ToCome(x[2])
                     /\ x[2] = "R" => cur.invert /\ cur.stage # "readLast"
                     /\ x[2] = "W" => cur.stage = "read"
    <2>1. /\ x[2] \in {"R", "W"} /\ x[2] \in mask[x[1]]
          /\ (\E e \in fired : e.fd = x[1] /\ x[2] \in e.got) \/ (x[1] = cur.fd /\ ToCome(x[2]))
      BY <1>3 DEF EventsInvariant, TypeOK, OwedRight, Ready
    <2>2. CASE x[1] = cur.fd /\ ToCome(x[2])
      <3>1. Valid(x[2]) /\ AnotherProc
        BY <2>1, <2>2 DEF ToCome, Valid, AnotherProc
      <3> QED BY <1>2, <2>1, <2>2, <3>1 DEF ToCome, Due
    <2> QED BY <2>1, <2>2
  <1>4. KernelAgrees' /\ MaxFdRight'
    BY TableKept DEF tableVars
  <1>5. CASE cur.stage = "readLast"
    <2>1. pc' = "events" /\ cur' = NoTurn
      BY <1>5 DEF NextStage
    <2>2. TypeOK'
      BY <1>1, <2>1 DEF EventsInvariant, TypeOK, tableVars, histVars
    <2>3. EntriesRight' /\ TurnRight'
      BY <2>1 DEF EventsInvariant, EntriesRight, TurnRight, tableVars, histVars
    <2>4. ASSUME NEW x \in owed PROVE \E e \in fired : e.fd = x[1] /\ x[2] \in e.got
      BY <1>3, <1>5
    <2>5. OwedRight'
      BY <2>4 DEF EventsInvariant, OwedRight, tableVars, histVars
    <2> QED BY <1>4, <2>2, <2>3, <2>5 DEF EventsInvariant
  <1>6. CASE cur.stage # "readLast"
    <2>1. /\ pc' = "dispatch"
          /\ cur' = [cur EXCEPT !.stage = IF @ = "read" THEN "write" ELSE "readLast"]
      BY <1>6 DEF NextStage
    <2>2. /\ cur' \in Turn /\ cur'.called = cur.called /\ cur'.fd = cur.fd
          /\ cur'.got = cur.got /\ cur'.invert = cur.invert
          /\ cur'.stage = IF cur.stage = "read" THEN "write" ELSE "readLast"
      BY <1>1, <2>1 DEF Turn
    <2>3. TypeOK'
      BY <2>1, <2>2 DEF EventsInvariant, TypeOK, tableVars, histVars
    <2>4. EntriesRight'
      BY <2>1 DEF EventsInvariant, EntriesRight, tableVars, histVars
    <2>5. TurnRight'
      BY <1>2, <1>6, <2>1, <2>2 DEF EventsInvariant, TurnRight, tableVars, histVars
    <2>6. ASSUME NEW x \in owed
          PROVE  \/ \E e \in fired : e.fd = x[1] /\ x[2] \in e.got
                 \/ x[1] = cur'.fd /\ ToCome(x[2])'
      BY <1>2, <1>3, <1>6, <2>1, <2>2 DEF ToCome
    <2>7. OwedRight'
      BY <2>6 DEF EventsInvariant, OwedRight, tableVars, histVars
    <2> QED BY <1>4, <2>3, <2>4, <2>5, <2>7 DEF EventsInvariant
  <1> QED BY <1>5, <1>6

\* An iteration that is over owes nothing.
LEMMA DoneKeeps ==
    ASSUME EventsInvariant, EventsDone \/ TimersDone
    PROVE  EventsInvariant'
  <1>1. /\ pc' \in {"outside", "poll"} /\ fired = {} /\ fired' = {} /\ owed' = owed
        /\ UNCHANGED <<tableVars, cur>> /\ owed = {}
        /\ fresh' = {} /\ calls' = {} /\ barred' \in {{}, barred}
    BY DEF EventsDone, TimersDone, EventsInvariant, EntriesRight, OwedRight, ToCome, histVars
  <1>2. TypeOK'
    BY <1>1 DEF EventsInvariant, TypeOK, tableVars
  <1>3. KernelAgrees' /\ MaxFdRight'
    BY <1>1, TableKept DEF tableVars
  <1>4. EntriesRight' /\ TurnRight' /\ OwedRight'
    BY <1>1 DEF EventsInvariant, EntriesRight, TurnRight, OwedRight, tableVars
  <1> QED BY <1>2, <1>3, <1>4 DEF EventsInvariant

\* What changes nothing breaks nothing.
LEMMA StutterKeeps ==
    ASSUME EventsInvariant, UNCHANGED vars
    PROVE  EventsInvariant'
  <1>1. TypeOK' /\ KernelAgrees' /\ MaxFdRight'
    BY TableKept DEF EventsInvariant, TypeOK, vars, tableVars, loopVars, histVars
  <1>2. EntriesRight' /\ TurnRight' /\ OwedRight'
    BY DEF EventsInvariant, EntriesRight, TurnRight, OwedRight, ToCome,
           vars, tableVars, loopVars, histVars
  <1> QED BY <1>1, <1>2 DEF EventsInvariant

\* The loop's invariant is inductive.
LEMMA StepKeeps == EventsInvariant /\ [Next]_vars => EventsInvariant'
  <1> SUFFICES ASSUME EventsInvariant, [Next]_vars PROVE EventsInvariant'
    OBVIOUS
  <1>1. CASE UNCHANGED vars
    BY <1>1, StutterKeeps
  <1>2. CASE Program
    BY <1>2, OpenKeeps, CreateKeeps, DeleteKeeps, CloseKeeps DEF Program
  <1>3. CASE Poll
    BY <1>3, PollKeeps
  <1>4. CASE TakeEntry
    BY <1>4, TakeKeeps
  <1>5. CASE CallProc
    BY <1>5, CallKeeps
  <1>6. CASE PassOver
    BY <1>6, StageKeeps DEF PassOver
  <1>7. CASE ProcReturns
    BY <1>7, StageKeeps DEF ProcReturns
  <1>8. CASE EventsDone \/ TimersDone
    BY <1>8, DoneKeeps
  <1> QED BY <1>1, <1>2, <1>3, <1>4, <1>5, <1>6, <1>7, <1>8 DEF Next, Loop

\* The inductive invariant: the table, the kernel and the entries still to come
\* agree, whatever any program that keeps the two rules does.
THEOREM EventsInvariance == Spec => []EventsInvariant
  BY InitEstablishes, StepKeeps, PTL DEF Spec

\* The table, the entries and the poller's interest keep their types.
THEOREM EventsTypeCorrect == Spec => []TypeOK
  <1>1. EventsInvariant => TypeOK
    BY DEF EventsInvariant
  <1> QED BY <1>1, EventsInvariance, PTL

\* Each poller watches for exactly what is registered.
THEOREM PollersAgree == Spec => []KernelAgrees
  <1>1. EventsInvariant => KernelAgrees
    BY DEF EventsInvariant
  <1> QED BY <1>1, EventsInvariance, PTL

\* maxfd is the largest registered descriptor after any order of deletions.
THEOREM MaxFdIsRight == Spec => []MaxFdRight
  <1>1. EventsInvariant => MaxFdRight
    BY DEF EventsInvariant
  <1> QED BY <1>1, EventsInvariance, PTL

\* Every event reported has been handled, or withdrawn, when an iteration ends.
THEOREM NothingIsLost == Spec => []NothingLost
  <1>1. EventsInvariant => NothingLost
    BY DEF EventsInvariant, EntriesRight, NothingLost
  <1> QED BY <1>1, EventsInvariance, PTL

\* A step into a handler is a call.
LEMMA IntoHandler ==
    ASSUME EventsInvariant, Next, pc = "dispatch", pc' = "handler"
    PROVE  CallProc
  <1>1. ~Program
    BY DEF Program, OpenFd, CreateFileEvent, DeleteFileEvent, CloseFd, InProgram
  <1>2. ~(Poll \/ TakeEntry \/ ProcReturns \/ EventsDone \/ TimersDone \/ PassOver)
    BY DEF Poll, TakeEntry, ProcReturns, EventsDone, TimersDone, PassOver, NextStage
  <1> QED BY <1>1, <1>2 DEF Next, Loop

\* No proc is called for an event that is no longer registered, or for a
\* descriptor opened since the poll.
THEOREM NoStaleEvents == Spec => NoStaleEvent
  <1> DEFINE Current == pc = "dispatch" /\ pc' = "handler" =>
                          /\ cur.fd \in open \ fresh
                          /\ cur'.called \ cur.called \subseteq mask[cur.fd]
  <1>1. ASSUME EventsInvariant, [Next]_vars PROVE [Current]_vars
    <2> SUFFICES ASSUME Next, pc = "dispatch", pc' = "handler"
                 PROVE  /\ cur.fd \in open \ fresh
                        /\ cur'.called \ cur.called \subseteq mask[cur.fd]
      BY <1>1
    <2>1. CallProc
      BY <1>1, IntoHandler
    <2>2. cur \in Turn /\ Valid(CalledFor)
      BY <1>1, <2>1 DEF CallProc, Due, CalledFor, EventsInvariant, TypeOK, Turn
    <2>3. cur'.called = cur.called \cup {CalledFor}
      BY <2>1, <2>2 DEF CallProc, Turn
    <2>4. cur.fd \in open /\ cur.fd \notin fresh
      BY <1>1, <2>1, <2>2 DEF CallProc, Valid, EventsInvariant, TypeOK, TurnRight, Turn
    <2> QED BY <2>2, <2>3, <2>4 DEF Valid
  <1>2. Spec => [][Current]_vars
    BY <1>1, EventsInvariance, PTL DEF Spec
  <1> QED BY <1>2 DEF NoStaleEvent

\* Each event once in an iteration, and none for writing after one for reading
\* where there is a barrier.
THEOREM EachEventOnceInOrder == Spec => CalledOnceInOrder
  <1> DEFINE Once == pc = "dispatch" /\ pc' = "handler" =>
                       /\ <<cur.fd, CalledFor>> \notin calls
                       /\ cur.fd \in OneProc => \A ev \in Ready : <<cur.fd, ev>> \notin calls
                       /\ CalledFor = "W" /\ cur.fd \in barred => <<cur.fd, "R">> \notin calls
  <1>1. ASSUME EventsInvariant, [Next]_vars PROVE [Once]_vars
    <2> SUFFICES ASSUME Next, pc = "dispatch", pc' = "handler" PROVE Once
      BY <1>1
    <2>1. CallProc
      BY <1>1, IntoHandler
    <2>2. cur \in Turn /\ Due
      BY <1>1, <2>1 DEF CallProc, EventsInvariant, TypeOK
    <2>3. /\ \A ev \in Ready : <<cur.fd, ev>> \in calls => ev \in cur.called
          /\ cur.fd \in barred => cur.invert
          /\ cur.stage = "read" => cur.called = {}
          /\ cur.stage = "write" => "W" \notin cur.called
          /\ cur.invert => "R" \notin cur.called
      BY <1>1, <2>1 DEF CallProc, EventsInvariant, TurnRight
    <2>4. CalledFor \in Ready /\ "R" \in Ready /\ cur.stage \in {"read", "write", "readLast"}
      BY <2>2 DEF CalledFor, Ready, Turn
    <2>5. CalledFor \notin cur.called /\ (cur.fd \in OneProc => cur.called = {})
      BY <2>2, <2>3, <2>4 DEF CalledFor, Due, AnotherProc
    <2>6. CalledFor = "W" /\ cur.fd \in barred => <<cur.fd, "R">> \notin calls
      BY <2>3, <2>4
    <2> QED BY <2>3, <2>4, <2>5, <2>6
  <1>2. Spec => [][Once]_vars
    BY <1>1, EventsInvariance, PTL DEF Spec
  <1> QED BY <1>2 DEF CalledOnceInOrder
=============================================================================
