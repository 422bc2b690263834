-------------------------------- MODULE Alarms --------------------------------
(***************************************************************************)
(* What arduino-timer promises, without its clock, its slots in order and  *)
(* its tick(): alarms that wait for a delay and ring when it is over, not  *)
(* before. One that repeats starts to wait again when it has rung, if its  *)
(* handler wants it to; any other rings once. Nothing but cancelling it    *)
(* stops an alarm or changes its delay. Timer is shown to implement it.    *)
(***************************************************************************)
EXTENDS Naturals

CONSTANTS
    Places,  \* where an alarm can be kept
    Periods  \* the delays an alarm can be given

VARIABLE alarms

Off == [set |-> FALSE]

Waiting == {p \in Places : alarms[p].set}

Init == alarms = [p \in Places |-> Off]

Set(p) ==
    /\ p \notin Waiting
    /\ \E delay \in Periods, repeat \in BOOLEAN :
           alarms' = [alarms EXCEPT ![p] = [set |-> TRUE, waited |-> 0,
                                            delay |-> delay, repeat |-> repeat]]

Stop == \E S \in SUBSET Waiting :
            alarms' = [p \in Places |-> IF p \in S THEN Off ELSE alarms[p]]

Ring(p) ==
    /\ p \in Waiting /\ alarms[p].waited >= alarms[p].delay
    /\ \/ alarms[p].repeat /\ alarms' = [alarms EXCEPT ![p] = [@ EXCEPT !.waited = 0]]
       \/ alarms' = [alarms EXCEPT ![p] = Off]

TimePasses ==
    alarms' = [p \in Places |->
                  IF p \in Waiting THEN [alarms[p] EXCEPT !.waited = @ + 1] ELSE Off]

Next == (\E p \in Places : Set(p) \/ Ring(p)) \/ Stop \/ TimePasses

Spec == Init /\ [][Next]_alarms
=============================================================================
