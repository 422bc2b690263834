---------------------------- MODULE MCExperiment ----------------------------
(***************************************************************************)
(* Instances of Experiment for TLC: two objects, a third board with a lamp *)
(* and a sensor that is no object, and boards 0 and 4 without a sensor.    *)
(***************************************************************************)
EXTENDS Experiment

Packet(cmd, id, data) == [cmd |-> cmd, id |-> id, data |-> data]

Plain(cmd, values) == {Packet(cmd, 0, v) : v \in values}

\* One trial or two, a timeout below and one above LightMs, one rate.
CarefulCommands ==
    Plain(NTRIALS, {1, 2}) \cup [cmd : {TRIAL}, id : {1, 2}, data : {1, 2}]
    \cup Plain(TIMEOUT, {5, 5000}) \cup Plain(SAMPLERATE, {100})
    \cup Plain(STREAM, {0, 1})

(***************************************************************************)
(* Anything at any time: what is refused, what is out of range (object 3   *)
(* has a lamp and is no object, object 5 is no board), a rate of which the *)
(* interval is 0, and starts without a timeout, a rate or a sequence.      *)
(***************************************************************************)
FreeCommands ==
    Plain(PING, {0}) \cup Plain(TESTLED, {0}) \cup Plain(12, {0})
    \cup Plain(NTRIALS, {0, 1, 2}) \cup [cmd : {TRIAL}, id : {2, 3, 5}, data : {1, 2}]
    \cup Plain(SEPARATION, {0, 1000}) \cup Plain(TIMEOUT, {0, 5})
    \cup Plain(SAMPLERATE, {0, 100, 2000}) \cup Plain(STREAM, {0, 1, 2})

\* The careful host with a timeout that no light outlasts.
PatientCommands == {c \in CarefulCommands : c.cmd = TIMEOUT => c.data = 5000}
=============================================================================
