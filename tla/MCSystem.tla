------------------------------ MODULE MCSystem ------------------------------
(***************************************************************************)
(* One trial of object 1, of a careful host, with a sensor board for each  *)
(* of two objects. The clock need not run: a trial may wait for ever.      *)
(***************************************************************************)
EXTENDS System

Packet(cmd, id, data) == [cmd |-> cmd, id |-> id, data |-> data]

OneTrial ==
    {Packet(NTRIALS, 0, 1), Packet(TRIAL, 1, 1), Packet(TIMEOUT, 0, 5000),
     Packet(SAMPLERATE, 0, 100), Packet(STREAM, 0, 1)}

MCIdOf == [s \in {1, 2} |-> s]
=============================================================================
