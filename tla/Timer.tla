-------------------------------- MODULE Timer --------------------------------
(***************************************************************************)
(* The timer the receiver streams its samples with, class Timer of         *)
(* src/libraries/arduino-timer/src/arduino-timer.h, on a clock that starts *)
(* again from 0 after Wrap - 1. tick() visits the slots one after another  *)
(* and reads the clock anew at each, so that time passes inside it.        *)
(*                                                                         *)
(* A definition marked "Slip" is not part of the model: it is the one      *)
(* below it with a plausible mistake, which some property must notice.     *)
(***************************************************************************)
EXTENDS Integers

CONSTANTS
    MaxTasks,  \* max_tasks
    Wrap,      \* number of values of unsigned long
    Delays,    \* the delays and intervals the timer is used with
    MaxAge     \* bound on the time that passes over one task

ASSUME TimerAssumption ==
    /\ MaxTasks \in Nat
    /\ Wrap \in Nat \ {0, 1}
    /\ Delays \subseteq 0..(Wrap - 1)
    /\ MaxAge \in Nat

Slots == 1..MaxTasks
Times == 0..(Wrap - 1)

VARIABLES
    now,    \* time_func()
    tasks,  \* the slots; one without a handler is not used
    visit,  \* the slot tick() has come to, 0 outside tick()
    age,    \* history: the time since each task was started, which does not wrap
    owed    \* history: tasks due when tick() was called and not run by it yet

vars == <<now, tasks, visit, age, owed>>

Free == [used |-> FALSE, start |-> 0, expires |-> 0, repeat |-> FALSE]

\* Subtraction of two unsigned numbers.
Minus(a, b) == IF a >= b THEN a - b ELSE a - b + Wrap

Duration(s) == Minus(now, tasks[s].start)

\* Slip: a task is due one unit late.
DueLate(s) == tasks[s].used /\ Duration(s) > tasks[s].expires

Due(s) == tasks[s].used /\ Duration(s) >= tasks[s].expires

Used == {s \in Slots : tasks[s].used}

-----------------------------------------------------------------------------
\* Slip: the first slot is taken, free or not.
AddTaskAnywhere(expires, repeat) ==
    /\ visit = 0
    /\ \E s \in Slots :
           /\ \A r \in Slots : s <= r
           /\ tasks' = [tasks EXCEPT ![s] = [used |-> TRUE, start |-> now,
                                             expires |-> expires, repeat |-> repeat]]
           /\ age' = [age EXCEPT ![s] = 0] /\ owed' = owed \ {s}
    /\ UNCHANGED <<now, visit>>

\* add_task: the first slot that is free; without one, nothing.
AddTask(expires, repeat) ==
    /\ visit = 0
    /\ \E s \in Slots \ Used :
           /\ \A r \in Slots \ Used : s <= r
           /\ tasks' = [tasks EXCEPT ![s] = [used |-> TRUE, start |-> now,
                                             expires |-> expires, repeat |-> repeat]]
           /\ age' = [age EXCEPT ![s] = 0] /\ owed' = owed \ {s}
    /\ UNCHANGED <<now, visit>>

In(delay) == AddTask(delay, FALSE)

At(time) == AddTask(Minus(time, now), FALSE)

\* The interval is its own flag: one of 0 does not repeat.
Every(interval) == AddTask(interval, interval /= 0)

Cancel(s) ==
    /\ visit = 0 /\ s \in Used
    /\ tasks' = [tasks EXCEPT ![s] = Free] /\ owed' = owed \ {s}
    /\ UNCHANGED <<now, visit, age>>

CancelAll ==
    /\ visit = 0 /\ Used /= {}
    /\ tasks' = [s \in Slots |-> Free] /\ owed' = {}
    /\ UNCHANGED <<now, visit, age>>

TickBegin ==
    /\ visit = 0 /\ MaxTasks > 0
    /\ visit' = 1 /\ owed' = {s \in Slots : Due(s)}
    /\ UNCHANGED <<now, tasks, age>>

\* Slip: the loop stops before the last slot.
OnwardShort == visit' = IF visit < MaxTasks - 1 THEN visit + 1 ELSE 0

Onward == visit' = IF visit < MaxTasks THEN visit + 1 ELSE 0

\* Slip: the start moves on by the interval, to make up for a late call.
FireCatchesUp ==
    /\ visit \in Slots /\ Due(visit)
    /\ \/ /\ tasks[visit].repeat
          /\ tasks' = [tasks EXCEPT ![visit].start = (@ + tasks[visit].expires) % Wrap]
          /\ age' = [age EXCEPT ![visit] = 0]
       \/ tasks' = [tasks EXCEPT ![visit] = Free] /\ UNCHANGED age
    /\ owed' = owed \ {visit}
    /\ Onward /\ UNCHANGED now

\* Slip: the flag is not looked at, and a task that does not repeat does.
FireAlwaysRepeats ==
    /\ visit \in Slots /\ Due(visit)
    /\ \/ /\ tasks' = [tasks EXCEPT ![visit].start = now]
          /\ age' = [age EXCEPT ![visit] = 0]
       \/ tasks' = [tasks EXCEPT ![visit] = Free] /\ UNCHANGED age
    /\ owed' = owed \ {visit}
    /\ Onward /\ UNCHANGED now

\* The handler of a task that is due is called. A repeating task starts again if
\* the handler says so; any other is removed.
Fire ==
    /\ visit \in Slots /\ Due(visit)
    /\ \/ /\ tasks[visit].repeat
          /\ tasks' = [tasks EXCEPT ![visit].start = now]
          /\ age' = [age EXCEPT ![visit] = 0]
       \/ tasks' = [tasks EXCEPT ![visit] = Free] /\ UNCHANGED age
    /\ owed' = owed \ {visit}
    /\ Onward /\ UNCHANGED now

Pass ==
    /\ visit \in Slots /\ ~Due(visit)
    /\ Onward /\ UNCHANGED <<now, tasks, age, owed>>

TimePasses ==
    /\ \A s \in Used : age[s] < MaxAge
    /\ now' = IF now = Wrap - 1 THEN 0 ELSE now + 1
    /\ age' = [s \in Slots |-> IF s \in Used THEN age[s] + 1 ELSE age[s]]
    /\ UNCHANGED <<tasks, visit, owed>>

-----------------------------------------------------------------------------
Init ==
    /\ now \in Times
    /\ tasks = [s \in Slots |-> Free]
    /\ visit = 0
    /\ age = [s \in Slots |-> 0]
    /\ owed = {}

Next ==
    \/ \E d \in Delays : In(d) \/ At(d) \/ Every(d)
    \/ \E s \in Slots : Cancel(s)
    \/ CancelAll \/ TickBegin \/ Fire \/ Pass \/ TimePasses

Spec == Init /\ [][Next]_vars

-----------------------------------------------------------------------------
(***************************************************************************)
(* Properties.                                                             *)
(***************************************************************************)
TypeOK ==
    /\ now \in Times
    /\ tasks \in [Slots -> [used : BOOLEAN, start : Times, expires : Times,
                            repeat : BOOLEAN]]
    /\ visit \in 0..MaxTasks
    /\ age \in [Slots -> Nat]

\* No task fires before its time, wherever the clock starts again, and however
\* long tick() has not been called (lines 125 to 128).
NeverEarly == \A s \in Slots : Due(s) => age[s] >= tasks[s].expires

\* A task whose time has come is due, unless the clock has gone all the way round
\* since it was started: then it is taken for younger than it is.
NeverMissed ==
    \A s \in Slots :
        tasks[s].used /\ age[s] < Wrap /\ age[s] >= tasks[s].expires => Due(s)

\* The inductive form: the clock shows the age of a task up to one revolution,
\* and never more.
ClockTellsAge ==
    \A s \in Slots :
        tasks[s].used => /\ Duration(s) <= age[s]
                         /\ age[s] < Wrap => Duration(s) = age[s]

\* A task that is not due keeps its deadline, whatever is added, run or cancelled
\* beside it, until it is cancelled itself.
DeadlinesKept ==
    [][\A s \in Slots :
           tasks[s].used /\ ~Due(s) /\ tasks'[s].used => tasks'[s] = tasks[s]]_vars

\* A call of tick() has, when it returns, run every task that was due when it was
\* called, unless the clock came round to hide one from it (lines 120 to 136).
TickRunsAllDue == visit = 0 => \A s \in owed : age[s] >= Wrap

\* A task, as the alarm it stands for: its true age in the place of a start.
Alarm(s) ==
    IF tasks[s].used
    THEN [set |-> TRUE, waited |-> age[s], delay |-> tasks[s].expires,
          repeat |-> tasks[s].repeat]
    ELSE [set |-> FALSE]

Promise == INSTANCE Alarms WITH Places <- Slots, Periods <- Times,
                                alarms <- [s \in Slots |-> Alarm(s)]

\* With a clock that wraps, slots that are used again and a tick() that time passes
\* in, tasks do what alarms do: each waits its delay, rings, and again only if it
\* repeats; none touches another (lines 92 to 136).
ImplementsAlarms == Promise!Spec

\* The inductive form: what is owed behind the slot visited was hidden.
OwedAhead ==
    \A s \in owed :
        /\ s \in Slots /\ tasks[s].used /\ age[s] >= tasks[s].expires
        /\ visit = 0 \/ s < visit => age[s] >= Wrap
=============================================================================
