----------------------------- MODULE TimerProofs -----------------------------
(***************************************************************************)
(* Proofs about Timer: for every number of slots, every width of the clock *)
(* and every delay.                                                        *)
(***************************************************************************)
EXTENDS Timer, TLAPS

\* Every variable of the timer keeps its type.
THEOREM TimerTypeCorrect == Spec => []TypeOK
<1>0. Wrap \in Nat /\ Wrap > 1 /\ MaxTasks \in Nat /\ Delays \subseteq Times /\ 0 \in Times
  BY TimerAssumption DEF Times
<1>1. Init => TypeOK
  BY <1>0 DEF Init, TypeOK, Free
<1>2. TypeOK /\ [Next]_vars => TypeOK'
  <2> SUFFICES ASSUME TypeOK, [Next]_vars PROVE TypeOK'
    OBVIOUS
  <2>1. ASSUME NEW e \in Times, NEW r \in BOOLEAN, AddTask(e, r) PROVE TypeOK'
    BY <1>0, <2>1 DEF TypeOK, AddTask
  <2>2. ASSUME NEW d \in Delays, In(d) \/ At(d) \/ Every(d) PROVE TypeOK'
    <3>1. d \in Times /\ Minus(d, now) \in Times
      BY <1>0 DEF TypeOK, Minus, Times
    <3>2. (d /= 0) \in BOOLEAN
      OBVIOUS
    <3> QED
      BY <2>1, <2>2, <3>1, <3>2 DEF In, At, Every
  <2>3. ASSUME NEW s \in Slots, Cancel(s) PROVE TypeOK'
    BY <1>0, <2>3 DEF TypeOK, Cancel, Free
  <2>4. CASE CancelAll
    BY <1>0, <2>4 DEF TypeOK, CancelAll, Free
  <2>5. CASE TickBegin
    BY <1>0, <2>5 DEF TypeOK, TickBegin
  <2>6. CASE Fire
    <3>0. visit \in Slots /\ Onward /\ now' = now
      BY <2>6 DEF Fire
    <3>1. visit' \in 0..MaxTasks
      BY <1>0, <3>0 DEF Onward, Slots
    <3>2. tasks' \in [Slots -> [used : BOOLEAN, start : Times, expires : Times, repeat : BOOLEAN]]
      <4>1. CASE tasks' = [tasks EXCEPT ![visit].start = now]
        BY <4>1 DEF TypeOK
      <4>2. CASE tasks' = [tasks EXCEPT ![visit] = Free]
        BY <1>0, <4>2 DEF TypeOK, Free
      <4> QED
        BY <2>6, <4>1, <4>2 DEF Fire
    <3>3. age' \in [Slots -> Nat]
      BY <2>6 DEF TypeOK, Fire
    <3> QED
      BY <3>0, <3>1, <3>2, <3>3 DEF TypeOK
  <2>7. CASE Pass
    BY <1>0, <2>7 DEF TypeOK, Pass, Onward, Slots
  <2>8. CASE TimePasses
    BY <1>0, <2>8 DEF TypeOK, TimePasses, Times
  <2>9. CASE UNCHANGED vars
    BY <2>9 DEF TypeOK, vars
  <2> QED
    BY <2>2, <2>3, <2>4, <2>5, <2>6, <2>7, <2>8, <2>9 DEF Next
<1> QED
  BY <1>1, <1>2, PTL DEF Spec

\* What AddTask does to the slot it takes and to the others.
LEMMA AddFacts ==
    ASSUME TypeOK, NEW e, NEW r, AddTask(e, r)
    PROVE  \E s \in Slots :
               /\ ~tasks[s].used
               /\ tasks'[s] = [used |-> TRUE, start |-> now, expires |-> e, repeat |-> r]
               /\ age'[s] = 0
               /\ owed' = owed \ {s}
               /\ \A q \in Slots \ {s} : tasks'[q] = tasks[q] /\ age'[q] = age[q]
               /\ now' = now /\ visit' = 0 /\ visit = 0
  BY DEF TypeOK, AddTask, Used

\* What Fire does: the task visited starts again now, or is gone.
LEMMA FireFacts ==
    ASSUME TypeOK, Fire
    PROVE  /\ visit \in Slots /\ Onward /\ now' = now /\ owed' = owed \ {visit}
           /\ \/ ~tasks'[visit].used
              \/ tasks'[visit].start = now /\ age'[visit] = 0
           /\ \A q \in Slots \ {visit} : tasks'[q] = tasks[q] /\ age'[q] = age[q]
<1>1. visit \in Slots /\ Onward /\ now' = now /\ owed' = owed \ {visit}
  BY DEF Fire
<1>2. CASE tasks' = [tasks EXCEPT ![visit].start = now] /\ age' = [age EXCEPT ![visit] = 0]
  BY <1>1, <1>2 DEF TypeOK
<1>3. CASE tasks' = [tasks EXCEPT ![visit] = Free] /\ UNCHANGED age
  BY <1>1, <1>3 DEF TypeOK, Free
<1> QED
  BY <1>1, <1>2, <1>3 DEF Fire

\* The clock tells the age of a task up to one revolution.
THEOREM ClockIsRight == Spec => []ClockTellsAge
<1>0. Wrap \in Nat /\ Wrap > 1
  BY TimerAssumption
<1>1. Init => ClockTellsAge
  BY DEF Init, ClockTellsAge, Free
<1>2. TypeOK /\ TypeOK' /\ ClockTellsAge /\ [Next]_vars => ClockTellsAge'
  <2> SUFFICES ASSUME TypeOK, TypeOK', ClockTellsAge, [Next]_vars,
                      NEW s \in Slots, tasks'[s].used
               PROVE  /\ Duration(s)' <= age'[s]
                      /\ age'[s] < Wrap => Duration(s)' = age'[s]
    BY DEF ClockTellsAge
  <2>1. ASSUME tasks'[s] = tasks[s], age'[s] = age[s], now' = now
        PROVE  /\ Duration(s)' <= age'[s]
               /\ age'[s] < Wrap => Duration(s)' = age'[s]
    BY <2>1 DEF ClockTellsAge, Duration
  <2>2. ASSUME tasks'[s].start = now, age'[s] = 0, now' = now
        PROVE  /\ Duration(s)' <= age'[s]
               /\ age'[s] < Wrap => Duration(s)' = age'[s]
    BY <1>0, <2>2 DEF Duration, Minus, TypeOK, Times
  <2>3. ASSUME NEW e, NEW r, AddTask(e, r)
        PROVE  /\ Duration(s)' <= age'[s]
               /\ age'[s] < Wrap => Duration(s)' = age'[s]
    <3>1. PICK q \in Slots :
              /\ tasks'[q] = [used |-> TRUE, start |-> now, expires |-> e, repeat |-> r]
              /\ age'[q] = 0 /\ now' = now
              /\ \A t \in Slots \ {q} : tasks'[t] = tasks[t] /\ age'[t] = age[t]
      BY <2>3, AddFacts
    <3>2. CASE s = q
      BY <2>2, <3>1, <3>2
    <3>3. CASE s /= q
      BY <2>1, <3>1, <3>3
    <3> QED
      BY <3>2, <3>3
  <2>4. ASSUME NEW d \in Delays, In(d) \/ At(d) \/ Every(d)
        PROVE  /\ Duration(s)' <= age'[s]
               /\ age'[s] < Wrap => Duration(s)' = age'[s]
    BY <2>3, <2>4 DEF In, At, Every
  <2>5. ASSUME NEW q \in Slots, Cancel(q)
        PROVE  tasks'[s] = tasks[s] /\ age'[s] = age[s] /\ now' = now
    BY <2>5 DEF Cancel, TypeOK, Free
  <2>6. ~CancelAll
    BY DEF CancelAll, Free
  <2>7. CASE TickBegin \/ Pass \/ UNCHANGED vars
    BY <2>1, <2>7 DEF TickBegin, Pass, vars
  <2>8. CASE Fire
    <3>1. CASE s = visit
      BY <2>2, <2>8, <3>1, FireFacts
    <3>2. CASE s /= visit
      BY <2>1, <2>8, <3>2, FireFacts
    <3> QED
      BY <3>1, <3>2
  <2>9. CASE TimePasses
    <3>1. /\ tasks' = tasks /\ tasks[s].used /\ age'[s] = age[s] + 1
          /\ now' = IF now = Wrap - 1 THEN 0 ELSE now + 1
      BY <2>9 DEF TimePasses, Used, TypeOK
    <3>2. /\ now \in Times /\ now' \in Times /\ tasks[s].start \in Times /\ age[s] \in Nat
      BY DEF TypeOK
    <3>3. /\ Duration(s) \in Times
          /\ Duration(s)' <= Duration(s) + 1
          /\ Duration(s) < Wrap - 1 => Duration(s)' = Duration(s) + 1
      <4>1. Duration(s) = Minus(now, tasks[s].start) /\ Duration(s)' = Minus(now', tasks[s].start)
        BY <3>1 DEF Duration
      <4>2. /\ Minus(now, tasks[s].start) \in Times
            /\ Minus(now', tasks[s].start) <= Minus(now, tasks[s].start) + 1
            /\ Minus(now, tasks[s].start) < Wrap - 1
                 => Minus(now', tasks[s].start) = Minus(now, tasks[s].start) + 1
        BY <1>0, <3>1, <3>2 DEF Minus, Times
      <4> QED
        BY <4>1, <4>2
    <3>4. Duration(s) <= age[s] /\ (age[s] < Wrap => Duration(s) = age[s])
      BY <3>1 DEF ClockTellsAge
    <3>5. Duration(s)' \in Int
      BY <1>0, <3>1, <3>2 DEF Duration, Minus, Times
    <3> QED
      BY <1>0, <3>1, <3>2, <3>3, <3>4, <3>5 DEF Times
  <2> QED
    BY <2>1, <2>4, <2>5, <2>6, <2>7, <2>8, <2>9 DEF Next
<1> QED
  BY <1>1, <1>2, TimerTypeCorrect, PTL DEF Spec

\* No task fires early, and none is missed within one revolution of the clock.
THEOREM TimerIsPunctual == Spec => [](NeverEarly /\ NeverMissed)
<1>1. TypeOK /\ ClockTellsAge => NeverEarly /\ NeverMissed
  <2> SUFFICES ASSUME TypeOK, ClockTellsAge, NEW s \in Slots
               PROVE  /\ Due(s) => age[s] >= tasks[s].expires
                      /\ tasks[s].used /\ age[s] < Wrap /\ age[s] >= tasks[s].expires => Due(s)
    BY DEF NeverEarly, NeverMissed
  <2>1. /\ age[s] \in Nat /\ tasks[s].expires \in Nat
        /\ Duration(s) \in Int
    BY TimerAssumption DEF TypeOK, Duration, Minus, Times
  <2> QED
    BY <2>1 DEF ClockTellsAge, Due
<1> QED
  BY <1>1, TimerTypeCorrect, ClockIsRight, PTL

\* One call of tick() runs every task that was due when it was called. A task owed
\* that tick() passes over is not due although its time has come: by NeverMissed
\* the clock has come round.
THEOREM TickIsComplete == Spec => [](OwedAhead /\ TickRunsAllDue)
<1>0. MaxTasks \in Nat /\ Wrap \in Nat
  BY TimerAssumption
<1>1. Init => OwedAhead
  BY DEF Init, OwedAhead
<1>2. TypeOK /\ NeverEarly /\ NeverMissed /\ OwedAhead /\ [Next]_vars => OwedAhead'
  <2> SUFFICES ASSUME TypeOK, NeverEarly, NeverMissed, OwedAhead, [Next]_vars,
                      NEW s \in owed'
               PROVE  /\ s \in Slots /\ tasks'[s].used /\ age'[s] >= tasks'[s].expires
                      /\ visit' = 0 \/ s < visit' => age'[s] >= Wrap
    BY DEF OwedAhead
  <2> DEFINE Good == /\ s \in Slots /\ tasks'[s].used /\ age'[s] >= tasks'[s].expires
                     /\ visit' = 0 \/ s < visit' => age'[s] >= Wrap
  <2>1. ASSUME s \in owed, tasks'[s] = tasks[s], age'[s] = age[s], visit' = visit
        PROVE  Good
    BY <2>1 DEF OwedAhead
  <2>2. ASSUME NEW e, NEW r, AddTask(e, r)
        PROVE  Good
    <3>1. PICK q \in Slots :
              /\ owed' = owed \ {q} /\ visit' = visit
              /\ \A t \in Slots \ {q} : tasks'[t] = tasks[t] /\ age'[t] = age[t]
      BY <2>2, AddFacts
    <3>2. s \in owed /\ s \in Slots \ {q}
      BY <3>1 DEF OwedAhead
    <3> QED
      BY <2>1, <3>1, <3>2
  <2>3. ASSUME NEW d \in Delays, In(d) \/ At(d) \/ Every(d)
        PROVE  Good
    BY <2>2, <2>3 DEF In, At, Every
  <2>4. ASSUME NEW q \in Slots, Cancel(q)
        PROVE  Good
    <3>1. s \in owed /\ s /= q /\ s \in Slots /\ age' = age /\ visit' = visit
      BY <2>4 DEF Cancel, OwedAhead
    <3>2. tasks'[s] = tasks[s]
      BY <2>4, <3>1 DEF Cancel, TypeOK
    <3> QED
      BY <2>1, <3>1, <3>2
  <2>5. ~CancelAll
    BY DEF CancelAll
  <2>6. CASE TickBegin
    <3>1. /\ s \in Slots /\ Due(s) /\ visit' = 1 /\ tasks' = tasks /\ age' = age
      BY <2>6 DEF TickBegin
    <3>2. ~(s < 1)
      BY <3>1 DEF Slots
    <3> QED
      BY <3>1, <3>2 DEF NeverEarly, Due
  <2>7. CASE Fire
    <3>1. /\ visit \in Slots /\ Onward /\ s \in owed /\ s /= visit /\ s \in Slots
          /\ tasks'[s] = tasks[s] /\ age'[s] = age[s]
      BY <2>7, FireFacts DEF OwedAhead
    <3>2. visit' = 0 \/ s < visit' => visit = MaxTasks \/ s < visit
      BY <1>0, <3>1 DEF Onward, Slots
    <3>3. visit = MaxTasks => s < visit
      BY <1>0, <3>1 DEF Slots
    <3> QED
      BY <3>1, <3>2, <3>3 DEF OwedAhead
  <2>8. CASE Pass
    <3>1. /\ visit \in Slots /\ ~Due(visit) /\ Onward /\ s \in owed /\ s \in Slots
          /\ tasks' = tasks /\ age' = age
      BY <2>8 DEF Pass, OwedAhead
    <3>2. visit' = 0 \/ s < visit' => s <= visit
      BY <1>0, <3>1 DEF Onward, Slots
    <3>3. s < visit => age[s] >= Wrap
      BY <3>1 DEF OwedAhead
    <3>4. s = visit => age[s] >= Wrap
      <4>1. age[s] \in Nat /\ tasks[s].used /\ age[s] >= tasks[s].expires
        BY <3>1 DEF OwedAhead, TypeOK
      <4> QED
        BY <1>0, <3>1, <4>1 DEF NeverMissed
    <3>5. s <= visit => s < visit \/ s = visit
      BY <3>1 DEF Slots
    <3> QED
      BY <3>1, <3>2, <3>3, <3>4, <3>5 DEF OwedAhead
  <2>9. CASE TimePasses
    <3>1. /\ s \in owed /\ s \in Slots /\ tasks' = tasks /\ visit' = visit
          /\ tasks[s].used /\ age'[s] = age[s] + 1
          /\ age[s] \in Nat /\ tasks[s].expires \in Int
      BY <2>9, TimerAssumption DEF TimePasses, OwedAhead, Used, TypeOK, Times
    <3> QED
      BY <1>0, <3>1 DEF OwedAhead
  <2>10. CASE UNCHANGED vars
    BY <2>1, <2>10 DEF vars
  <2> QED
    BY <2>3, <2>4, <2>5, <2>6, <2>7, <2>8, <2>9, <2>10 DEF Next
<1>3. OwedAhead => TickRunsAllDue
  BY DEF OwedAhead, TickRunsAllDue
<1> QED
  BY <1>1, <1>2, <1>3, TimerTypeCorrect, TimerIsPunctual, PTL DEF Spec

\* A task that is not due keeps its deadline whatever happens beside it.
THEOREM DeadlinesAreKept == Spec => DeadlinesKept
<1>1. ASSUME TypeOK, [Next]_vars, NEW s \in Slots, tasks[s].used, ~Due(s), tasks'[s].used
      PROVE  tasks'[s] = tasks[s]
  <2>1. ASSUME NEW e, NEW r, AddTask(e, r)
        PROVE  tasks'[s] = tasks[s]
    BY <1>1, <2>1, AddFacts
  <2>2. ASSUME NEW d \in Delays, In(d) \/ At(d) \/ Every(d)
        PROVE  tasks'[s] = tasks[s]
    BY <2>1, <2>2 DEF In, At, Every
  <2>3. ASSUME NEW q \in Slots, Cancel(q)
        PROVE  tasks'[s] = tasks[s]
    BY <1>1, <2>3 DEF Cancel, TypeOK, Free
  <2>4. ~CancelAll
    BY <1>1 DEF CancelAll, Free
  <2>5. CASE Fire
    <3>1. s \in Slots \ {visit}
      BY <1>1, <2>5 DEF Fire
    <3> QED
      BY <1>1, <2>5, <3>1, FireFacts
  <2>6. CASE TickBegin \/ Pass \/ TimePasses \/ UNCHANGED vars
    BY <2>6 DEF TickBegin, Pass, TimePasses, vars
  <2> QED
    BY <1>1, <2>2, <2>3, <2>4, <2>5, <2>6 DEF Next
<1>2. TypeOK /\ [Next]_vars
      => [\A s \in Slots :
             tasks[s].used /\ ~Due(s) /\ tasks'[s].used => tasks'[s] = tasks[s]]_vars
  BY <1>1
<1> QED
  BY <1>2, TimerTypeCorrect, PTL DEF Spec, DeadlinesKept

\* Within one revolution of the clock a task whose time has come is due.
THEOREM TimerMissesNone == Spec => []NeverMissed
BY TimerIsPunctual, PTL

(***************************************************************************)
(* Tasks are alarms.                                                       *)
(***************************************************************************)
alarmsBar == [s \in Slots |-> Alarm(s)]

\* Which of the tasks wait as alarms.
LEMMA WaitingAreUsed ==
    \A s \in Slots : s \in Promise!Waiting <=> tasks[s].used
BY DEF Promise!Waiting, Alarm

LEMMA WaitedAnew ==
    ASSUME NEW x, NEW y, NEW d, NEW r,
           NEW a, a = [set |-> TRUE, waited |-> x, delay |-> d, repeat |-> r]
    PROVE  /\ [a EXCEPT !.waited = y] = [set |-> TRUE, waited |-> y, delay |-> d, repeat |-> r]
           /\ a.waited = x /\ a.delay = d /\ a.repeat = r
<1>1. a.waited = x /\ a.delay = d /\ a.repeat = r /\ a.set = TRUE
  OBVIOUS
<1>2. PICK b : b = [a EXCEPT !.waited = y]
  OBVIOUS
<1>3. /\ a \in [set : {TRUE}, waited : {x, y}, delay : {d}, repeat : {r}]
      /\ b \in [set : {TRUE}, waited : {x, y}, delay : {d}, repeat : {r}]
  BY <1>2
<1>4. b.set = TRUE /\ b.waited = y /\ b.delay = d /\ b.repeat = r
  BY <1>1, <1>2, <1>3
<1>5. b = [set |-> b.set, waited |-> b.waited, delay |-> b.delay, repeat |-> b.repeat]
  BY <1>3
<1> QED BY <1>1, <1>2, <1>4, <1>5

\* A step that changes one task is one of its alarm's.
LEMMA OneAlarmChanges ==
    ASSUME NEW q \in Slots, NEW a, \A s \in Slots \ {q} : Alarm(s)' = Alarm(s),
           Alarm(q)' = a
    PROVE  alarmsBar' = [alarmsBar EXCEPT ![q] = a]
BY DEF alarmsBar

\* The alarm of a task that is neither touched nor grows older.
LEMMA AlarmStays ==
    ASSUME NEW s \in Slots, tasks'[s] = tasks[s], age'[s] = age[s]
    PROVE  Alarm(s)' = Alarm(s)
BY DEF Alarm

LEMMA AddSets ==
    ASSUME TypeOK, NEW e \in Times, NEW r \in BOOLEAN, AddTask(e, r)
    PROVE  \E s \in Slots : Promise!Set(s)
<1>1. PICK q \in Slots :
          /\ ~tasks[q].used
          /\ tasks'[q] = [used |-> TRUE, start |-> now, expires |-> e, repeat |-> r]
          /\ age'[q] = 0
          /\ \A s \in Slots \ {q} : tasks'[s] = tasks[s] /\ age'[s] = age[s]
  BY AddFacts
<1>2. Alarm(q)' = [set |-> TRUE, waited |-> 0, delay |-> e, repeat |-> r]
  BY <1>1 DEF Alarm
<1>3. \A s \in Slots \ {q} : Alarm(s)' = Alarm(s)
  BY <1>1, AlarmStays
<1>4. alarmsBar' = [alarmsBar EXCEPT ![q] = [set |-> TRUE, waited |-> 0, delay |-> e,
                                             repeat |-> r]]
  BY <1>2, <1>3, OneAlarmChanges
<1>5. q \notin Promise!Waiting
  BY <1>1, WaitingAreUsed
<1> QED BY <1>4, <1>5 DEF Promise!Set, alarmsBar

LEMMA CancelStops ==
    ASSUME TypeOK, NEW S \in SUBSET Used,
           \A s \in Slots : tasks'[s] = (IF s \in S THEN Free ELSE tasks[s]),
           UNCHANGED age
    PROVE  Promise!Stop
<1>1. S \in SUBSET Promise!Waiting
  BY WaitingAreUsed DEF Used, Promise!Waiting
<1>2. ASSUME NEW s \in Slots
      PROVE  Alarm(s)' = IF s \in S THEN Promise!Off ELSE alarmsBar[s]
  <2>1. CASE s \in S
    BY <2>1 DEF Alarm, Free, Promise!Off
  <2>2. CASE s \notin S
    <3>1. Alarm(s)' = Alarm(s)
      BY <2>2, AlarmStays
    <3> QED BY <2>2, <3>1 DEF alarmsBar
  <2> QED BY <2>1, <2>2
<1>3. alarmsBar' = [s \in Slots |-> IF s \in S THEN Promise!Off ELSE alarmsBar[s]]
  BY <1>2 DEF alarmsBar
<1> QED BY <1>1, <1>3 DEF Promise!Stop, alarmsBar

LEMMA FireRings ==
    ASSUME TypeOK, NeverEarly, Fire
    PROVE  \E s \in Slots : Promise!Ring(s)
<1>1. /\ visit \in Slots /\ Due(visit) /\ tasks[visit].used
      /\ age[visit] >= tasks[visit].expires
  BY DEF Fire, Due, NeverEarly
<1>2. PICK q \in Slots : q = visit
  BY <1>1
<1>3. \A s \in Slots \ {q} : Alarm(s)' = Alarm(s)
  BY <1>2, FireFacts, AlarmStays
<1>4. q \in Promise!Waiting
  BY <1>1, <1>2, WaitingAreUsed
<1>5. alarmsBar[q] = [set |-> TRUE, waited |-> age[q], delay |-> tasks[q].expires,
                      repeat |-> tasks[q].repeat]
  BY <1>1, <1>2 DEF Alarm, alarmsBar
<1>6. CASE tasks[q].repeat /\ tasks' = [tasks EXCEPT ![q].start = now]
           /\ age' = [age EXCEPT ![q] = 0]
  <2>1. Alarm(q)' = [alarmsBar[q] EXCEPT !.waited = 0]
    <3>1. /\ tasks'[q].used /\ tasks'[q].expires = tasks[q].expires
          /\ tasks'[q].repeat = tasks[q].repeat /\ age'[q] = 0
      BY <1>1, <1>2, <1>6 DEF TypeOK
    <3>2. Alarm(q)' = [set |-> TRUE, waited |-> 0, delay |-> tasks[q].expires,
                       repeat |-> tasks[q].repeat]
      BY <3>1 DEF Alarm
    <3>3. [alarmsBar[q] EXCEPT !.waited = 0]
              = [set |-> TRUE, waited |-> 0, delay |-> tasks[q].expires,
                 repeat |-> tasks[q].repeat]
      BY <1>5, WaitedAnew
    <3> QED BY <3>2, <3>3
  <2>2. alarmsBar' = [alarmsBar EXCEPT ![q] = [alarmsBar[q] EXCEPT !.waited = 0]]
    BY <1>3, <2>1, OneAlarmChanges
  <2>3. /\ alarmsBar[q].waited >= alarmsBar[q].delay /\ alarmsBar[q].repeat
        /\ alarmsBar' = [alarmsBar EXCEPT ![q] = [alarmsBar[q] EXCEPT !.waited = 0]]
    <3>1. /\ alarmsBar[q].waited = age[q] /\ alarmsBar[q].delay = tasks[q].expires
          /\ alarmsBar[q].repeat = tasks[q].repeat
      BY <1>5, WaitedAnew
    <3> QED BY <1>1, <1>2, <1>6, <2>2, <3>1
  <2> QED BY <1>4, <2>3 DEF Promise!Ring, alarmsBar
<1>7. CASE tasks' = [tasks EXCEPT ![q] = Free]
  <2>1. Alarm(q)' = Promise!Off
    BY <1>7 DEF TypeOK, Free, Alarm, Promise!Off
  <2>2. alarmsBar' = [alarmsBar EXCEPT ![q] = Promise!Off]
    BY <1>3, <2>1, OneAlarmChanges
  <2>3. /\ alarmsBar[q].waited >= alarmsBar[q].delay
        /\ alarmsBar' = [alarmsBar EXCEPT ![q] = Promise!Off]
    BY <1>1, <1>2, <1>5, <2>2, WaitedAnew
  <2> QED BY <1>4, <2>3 DEF Promise!Ring, alarmsBar
<1> QED BY <1>2, <1>6, <1>7 DEF Fire

LEMMA AllGrowOlder ==
    ASSUME TypeOK, TimePasses
    PROVE  Promise!TimePasses
<1>1. ASSUME NEW s \in Slots
      PROVE  Alarm(s)' = IF s \in Promise!Waiting
                         THEN [alarmsBar[s] EXCEPT !.waited = @ + 1] ELSE Promise!Off
  <2>1. tasks' = tasks
    BY DEF TimePasses
  <2>2. CASE tasks[s].used
    <3>1. age'[s] = age[s] + 1
      BY <2>2 DEF TimePasses, TypeOK, Used
    <3>2. Alarm(s)' = [set |-> TRUE, waited |-> age[s] + 1, delay |-> tasks[s].expires,
                       repeat |-> tasks[s].repeat]
      BY <2>1, <2>2, <3>1 DEF Alarm
    <3>3. alarmsBar[s] = [set |-> TRUE, waited |-> age[s], delay |-> tasks[s].expires,
                          repeat |-> tasks[s].repeat]
      BY <2>2 DEF Alarm, alarmsBar
    <3>4. [alarmsBar[s] EXCEPT !.waited = @ + 1]
              = [set |-> TRUE, waited |-> age[s] + 1, delay |-> tasks[s].expires,
                 repeat |-> tasks[s].repeat]
      <4>1. [alarmsBar[s] EXCEPT !.waited = age[s] + 1]
              = [set |-> TRUE, waited |-> age[s] + 1, delay |-> tasks[s].expires,
                 repeat |-> tasks[s].repeat]
        BY <3>3, WaitedAnew
      <4>2. alarmsBar[s].waited = age[s]
        BY <3>3
      <4> QED BY <4>1, <4>2
    <3> QED BY <2>2, <3>2, <3>4, WaitingAreUsed
  <2>3. CASE ~tasks[s].used
    BY <2>1, <2>3, WaitingAreUsed DEF Alarm, Promise!Off
  <2> QED BY <2>2, <2>3
<1>2. alarmsBar' = [s \in Slots |-> IF s \in Promise!Waiting
                                    THEN [alarmsBar[s] EXCEPT !.waited = @ + 1]
                                    ELSE Promise!Off]
  BY <1>1 DEF alarmsBar
<1> QED BY <1>2 DEF Promise!TimePasses, alarmsBar

\* The timer, whatever the width of its clock, the number of its slots and the moment
\* tick() is called, keeps the promise of Alarms (add_task, remove and tick of
\* src/libraries/arduino-timer/src/arduino-timer.h).
THEOREM TimerKeepsPromise == Spec => ImplementsAlarms
<1>0. /\ Wrap \in Nat /\ Wrap > 1 /\ Delays \subseteq Times
  BY TimerAssumption DEF Times
<1>1. Init => Promise!Init
  BY DEF Init, Promise!Init, Alarm, Free, Promise!Off
<1>2. TypeOK /\ NeverEarly /\ [Next]_vars => [Promise!Next]_alarmsBar
  <2> SUFFICES ASSUME TypeOK, NeverEarly, [Next]_vars
               PROVE  Promise!Next \/ UNCHANGED alarmsBar
    OBVIOUS
  <2>1. ASSUME NEW d \in Delays, In(d) \/ At(d) \/ Every(d)
        PROVE  Promise!Next
    <3>1. d \in Times /\ Minus(d, now) \in Times /\ (d /= 0) \in BOOLEAN
      BY <1>0 DEF TypeOK, Minus, Times
    <3>2. \E e \in Times, r \in BOOLEAN : AddTask(e, r)
      BY <2>1, <3>1 DEF In, At, Every
    <3> QED BY <3>2, AddSets DEF Promise!Next
  <2>2. ASSUME NEW q \in Slots, Cancel(q)
        PROVE  Promise!Next
    <3>1. /\ {q} \in SUBSET Used /\ UNCHANGED age
          /\ \A s \in Slots : tasks'[s] = (IF s \in {q} THEN Free ELSE tasks[s])
      BY <2>2 DEF Cancel, TypeOK
    <3> QED BY <3>1, CancelStops DEF Promise!Next
  <2>3. CASE CancelAll
    <3>1. /\ Used \in SUBSET Used /\ UNCHANGED age
          /\ \A s \in Slots : tasks'[s] = Free
      BY <2>3 DEF CancelAll
    <3>2. ASSUME NEW s \in Slots PROVE Alarm(s)' = Promise!Off
      BY <3>1 DEF Alarm, Free, Promise!Off
    <3>3. alarmsBar' = [s \in Slots |-> IF s \in Promise!Waiting THEN Promise!Off
                                        ELSE alarmsBar[s]]
      BY <3>2, WaitingAreUsed DEF alarmsBar, Alarm, Promise!Off
    <3> QED BY <3>3 DEF Promise!Next, Promise!Stop, alarmsBar
  <2>4. CASE Fire
    BY <2>4, FireRings DEF Promise!Next
  <2>5. CASE TimePasses
    BY <2>5, AllGrowOlder DEF Promise!Next
  <2>6. CASE TickBegin \/ Pass \/ UNCHANGED vars
    <3>1. tasks' = tasks /\ age' = age
      BY <2>6 DEF TickBegin, Pass, vars
    <3> QED BY <3>1 DEF alarmsBar, Alarm
  <2> QED BY <2>1, <2>2, <2>3, <2>4, <2>5, <2>6 DEF Next
<1>3. [Promise!Next]_alarmsBar = [Promise!Next]_[s \in Slots |-> Alarm(s)]
  BY DEF alarmsBar
<1> QED
  BY <1>1, <1>2, <1>3, TimerTypeCorrect, TimerIsPunctual, PTL
  DEF Spec, ImplementsAlarms, Promise!Spec, alarmsBar
=============================================================================
