--------------------------- MODULE MotionLinkProofs ---------------------------
(***************************************************************************)
(* Proofs about MotionLink: for any number of senders, any assignment of   *)
(* ids and any length of the queues, the receiver is in agreement with     *)
(* every sender of which no change is lost or on its way.                  *)
(***************************************************************************)
EXTENDS MotionLink, SequenceTheorems, TLAPS

\* The queue of a sender after a frame was added.
LEMMA AddedFacts ==
    ASSUME NEW q \in Seq({0, 1}), NEW m \in {0, 1}
    PROVE  /\ Append(q, m) \in Seq({0, 1})
           /\ Append(q, m) /= <<>>
           /\ Append(q, m)[Len(Append(q, m))] = m
<1>1. Len(q) \in Nat
  BY LenProperties
<1>2. Append(q, m) \in Seq({0, 1}) /\ Len(Append(q, m)) = Len(q) + 1
  OBVIOUS
<1>3. Append(q, m)[Len(q) + 1] = m
  BY <1>1
<1>4. Append(q, m) /= <<>>
  BY <1>1, <1>2, EmptySeq
<1> QED
  BY <1>2, <1>3, <1>4

\* The queue of a sender after its head was taken.
LEMMA TakenFacts ==
    ASSUME NEW q \in Seq({0, 1}), q /= <<>>
    PROVE  /\ Tail(q) \in Seq({0, 1})
           /\ Head(q) \in {0, 1}
           /\ Tail(q) = <<>> => Len(q) = 1 /\ Head(q) = q[Len(q)]
           /\ Len(q) = 1 => Tail(q) = <<>>
           /\ Tail(q) /= <<>> => Tail(q)[Len(Tail(q))] = q[Len(q)]
<1>1. Len(q) \in Nat /\ Len(q) > 0
  BY EmptySeq, LenProperties
<1>2. /\ Head(q) \in {0, 1}
      /\ Tail(q) \in Seq({0, 1})
      /\ \A i \in 1..Len(Tail(q)) : Tail(q)[i] = q[i + 1]
  BY HeadTailProperties
<1>3. Len(Tail(q)) = Len(q) - 1
  BY HeadTailProperties
<1>4. Head(q) = q[1]
  BY <1>1
<1>5. ASSUME Tail(q) = <<>> PROVE Len(q) = 1
  <2>1. Len(Tail(q)) = 0
    BY <1>5, EmptySeq
  <2>2. Len(q) - 1 = 0
    BY <1>3, <2>1, Zenon
  <2> QED
    BY <1>1, <2>2
<1>6. ASSUME Len(q) = 1 PROVE Tail(q) = <<>>
  <2>1. Len(Tail(q)) = 0
    BY <1>6, <1>3
  <2>2. Tail(q) /= <<>> => Len(Tail(q)) \in Nat \ {0}
    BY <1>2, EmptySeq, Zenon
  <2> QED
    BY <2>1, <2>2, Zenon
<1>7. ASSUME Tail(q) /= <<>> PROVE Tail(q)[Len(Tail(q))] = q[Len(q)]
  <2>1. Len(Tail(q)) \in Nat /\ Len(Tail(q)) > 0
    BY <1>2, <1>7, EmptySeq
  <2>2. Len(Tail(q)) \in 1..Len(Tail(q))
    BY <2>1
  <2>3. Len(Tail(q)) + 1 = Len(q)
    BY <1>1, <1>3
  <2> QED
    BY <1>2, <2>2, <2>3
<1> QED
  BY <1>2, <1>4, <1>5, <1>6, <1>7

\* Every variable of the link keeps its type.
THEOREM LinkTypeCorrect == Spec => []TypeOK
<1>1. Init => TypeOK
  <2>1. <<>> \in Seq({0, 1})
    BY EmptySeq
  <2> QED
    BY <2>1 DEF Init, TypeOK
<1>2. TypeOK /\ [Next]_vars => TypeOK'
  <2> SUFFICES ASSUME TypeOK, [Next]_vars PROVE TypeOK'
    OBVIOUS
  <2>1. ASSUME NEW s \in Senders, InitRadio(s)
        PROVE  TypeOK'
    BY <2>1 DEF TypeOK, InitRadio, receiver
  <2>2. ASSUME NEW s \in Senders, BeginSensor(s) \/ Calibrated(s)
        PROVE  TypeOK'
    BY <2>2 DEF TypeOK, BeginSensor, Calibrated, receiver
  <2>3. ASSUME NEW s \in Senders, SenderRestart(s)
        PROVE  TypeOK'
    <3>1. <<>> \in Seq({0, 1})
      BY EmptySeq
    <3> QED
      BY <2>3, <3>1 DEF TypeOK, SenderRestart, receiver
  <2>4. ASSUME NEW s \in Senders, NEW moving \in {0, 1}, Loop(s, moving)
        PROVE  TypeOK'
    <3>1. air[s] \in Seq({0, 1})
      BY DEF TypeOK
    <3>2. Append(air[s], moving) \in Seq({0, 1})
      BY <3>1, AddedFacts
    <3>3. /\ air' \in [Senders -> Seq({0, 1})]
          /\ newest' \in [Senders -> {"none", "sent", "lost"}]
      BY <2>4, <3>2 DEF TypeOK, Loop, Send
    <3>4. prev' \in [Senders -> {NOVALUE, 0, 1}]
      BY <2>4 DEF TypeOK, Loop
    <3>5. UNCHANGED <<at, linked, receiver>>
      BY <2>4 DEF Loop
    <3> QED
      BY <3>3, <3>4, <3>5 DEF TypeOK, receiver
  <2>5. ASSUME NEW s \in Senders, GiveUp(s) \/ OnDataRecv(s)
        PROVE  TypeOK'
    <3>1. air[s] /= <<>> /\ air[s] \in Seq({0, 1})
      BY <2>5 DEF TypeOK, GiveUp, OnDataRecv
    <3>2. Tail(air[s]) \in Seq({0, 1})
      BY <3>1, TakenFacts
    <3>3. CASE GiveUp(s)
      BY <3>2, <3>3 DEF TypeOK, GiveUp, sender, receiver
    <3>4. CASE OnDataRecv(s)
      BY <3>2, <3>4 DEF TypeOK, OnDataRecv, sender
    <3> QED
      BY <2>5, <3>3, <3>4
  <2>6. CASE ReceiverStart
    BY <2>6 DEF TypeOK, ReceiverStart, sender
  <2>7. CASE ReceiverRestart
    BY <2>7 DEF TypeOK, ReceiverRestart, sender
  <2>8. CASE UNCHANGED vars
    BY <2>8 DEF TypeOK, vars, sender, receiver
  <2> QED
    BY <2>1, <2>2, <2>3, <2>4, <2>5, <2>6, <2>7, <2>8 DEF Next
<1> QED
  BY <1>1, <1>2, PTL DEF Spec

\* What a step does to one sender, in the terms the agreement is about.
LEMMA LoopFacts ==
    ASSUME TypeOK, NEW s \in Senders, NEW moving \in {0, 1}, Loop(s, moving)
    PROVE  /\ \A r \in Senders \ {s} :
                  air'[r] = air[r] /\ newest'[r] = newest[r] /\ prev'[r] = prev[r]
           /\ prev'[s] = moving
           /\ newest'[s] = "sent" => air'[s] = Append(air[s], moving)
           /\ boards' = boards
  BY DEF TypeOK, Loop, Send, receiver

\* The two invariants hold together: a frame that arrives as the last on its way
\* carries, by Pending, the state that Agreement needs.
THEOREM ReceiverAgrees == Spec => [](Pending /\ Agreement)
<1>1. Init => Pending /\ Agreement
  BY DEF Init, Pending, Agreement
<1>2. TypeOK /\ Pending /\ Agreement /\ [Next]_vars => Pending' /\ Agreement'
  <2> SUFFICES ASSUME TypeOK, Pending, Agreement, [Next]_vars
               PROVE  Pending' /\ Agreement'
    OBVIOUS
  <2>1. ASSUME NEW s \in Senders, InitRadio(s) \/ BeginSensor(s) \/ Calibrated(s)
        PROVE  Pending' /\ Agreement'
    <3>1. UNCHANGED <<prev, air, newest, boards>>
      BY <2>1 DEF InitRadio, BeginSensor, Calibrated, receiver
    <3> QED
      BY <3>1 DEF Pending, Agreement, Knows, Alone
  <2>2. ASSUME NEW s \in Senders, SenderRestart(s)
        PROVE  Pending' /\ Agreement'
    <3>1. /\ newest'[s] = "none"
          /\ \A r \in Senders \ {s} :
                 air'[r] = air[r] /\ newest'[r] = newest[r] /\ prev'[r] = prev[r]
          /\ boards' = boards
      BY <2>2 DEF SenderRestart, TypeOK, receiver
    <3>2. Pending'
      BY <3>1 DEF Pending
    <3>3. Agreement'
      BY <3>1 DEF Agreement, Knows, Alone
    <3> QED
      BY <3>2, <3>3
  <2>3. ASSUME NEW s \in Senders, NEW moving \in {0, 1}, Loop(s, moving)
        PROVE  Pending' /\ Agreement'
    <3>1. air[s] \in Seq({0, 1})
      BY DEF TypeOK
    <3>2. /\ Append(air[s], moving) /= <<>>
          /\ Append(air[s], moving)[Len(Append(air[s], moving))] = moving
      BY <3>1, AddedFacts
    <3>3. newest'[s] = "sent" => air'[s] /= <<>> /\ air'[s][Len(air'[s])] = prev'[s]
      BY <2>3, <3>2, LoopFacts
    <3>4. ASSUME NEW r \in Senders \ {s}
          PROVE  air'[r] = air[r] /\ newest'[r] = newest[r] /\ prev'[r] = prev[r]
      BY <2>3, LoopFacts
    <3>5. boards' = boards
      BY <2>3, LoopFacts
    <3>6. Pending'
      BY <3>3, <3>4 DEF Pending
    <3>7. Agreement'
      BY <3>3, <3>4, <3>5 DEF Agreement, Knows, Alone
    <3> QED
      BY <3>6, <3>7
  <2>4. ASSUME NEW s \in Senders, GiveUp(s)
        PROVE  Pending' /\ Agreement'
    <3>1. air[s] \in Seq({0, 1}) /\ air[s] /= <<>>
      BY <2>4 DEF TypeOK, GiveUp
    <3>2. /\ air'[s] = Tail(air[s])
          /\ newest'[s] = IF Len(air[s]) = 1 THEN "lost" ELSE newest[s]
          /\ \A r \in Senders \ {s} : air'[r] = air[r] /\ newest'[r] = newest[r]
          /\ prev' = prev /\ boards' = boards
      BY <2>4 DEF GiveUp, TypeOK, sender, receiver
    <3>3. newest'[s] = "sent" =>
              newest[s] = "sent" /\ air'[s] /= <<>> /\ air'[s][Len(air'[s])] = air[s][Len(air[s])]
      BY <3>1, <3>2, TakenFacts
    <3>4. Pending'
      BY <3>1, <3>2, <3>3 DEF Pending
    <3>5. Agreement'
      BY <3>2, <3>3 DEF Agreement, Knows, Alone
    <3> QED
      BY <3>4, <3>5
  <2>5. ASSUME NEW s \in Senders, OnDataRecv(s)
        PROVE  Pending' /\ Agreement'
    <3>1. air[s] \in Seq({0, 1}) /\ air[s] /= <<>>
      BY <2>5 DEF TypeOK, OnDataRecv
    <3>2. /\ air'[s] = Tail(air[s])
          /\ \A r \in Senders \ {s} : air'[r] = air[r]
          /\ prev' = prev /\ newest' = newest
          /\ boards' = [boards EXCEPT ![IdOf[s]] = (Head(air[s]) = 1)]
      BY <2>5 DEF OnDataRecv, TypeOK, sender
    <3>3. air'[s] /= <<>> => air'[s][Len(air'[s])] = air[s][Len(air[s])]
      BY <3>1, <3>2, TakenFacts
    <3>4. air'[s] = <<>> => Head(air[s]) = air[s][Len(air[s])]
      BY <3>1, <3>2, TakenFacts
    <3>5. Pending'
      BY <3>1, <3>2, <3>3 DEF Pending
    <3>6. ASSUME NEW r \in Senders, Alone(r), newest'[r] = "sent", air'[r] = <<>>
          PROVE  Knows(r)'
      <4>1. CASE r = s
        <5>1. Head(air[s]) = prev[s]
          BY <3>1, <3>2, <3>4, <3>6, <4>1 DEF Pending
        <5>2. boards'[IdOf[s]] = (Head(air[s]) = 1)
          BY <3>2, LinkAssumption DEF TypeOK
        <5> QED
          BY <3>2, <4>1, <5>1, <5>2 DEF Knows
      <4>2. CASE r /= s
        <5>1. IdOf[r] /= IdOf[s]
          BY <3>6, <4>2 DEF Alone
        <5>2. boards'[IdOf[r]] = boards[IdOf[r]]
          BY <3>2, <5>1, LinkAssumption DEF TypeOK
        <5> QED
          BY <3>2, <3>6, <4>2, <5>2 DEF Knows, Agreement
      <4> QED
        BY <4>1, <4>2
    <3>7. Agreement'
      BY <3>6 DEF Agreement, Alone
    <3> QED
      BY <3>5, <3>7
  <2>6. CASE ReceiverStart
    <3>1. UNCHANGED <<prev, air, newest, boards>>
      BY <2>6 DEF ReceiverStart, sender
    <3> QED
      BY <3>1 DEF Pending, Agreement, Knows, Alone
  <2>7. CASE ReceiverRestart
    <3>1. UNCHANGED <<prev, air>>
      BY <2>7 DEF ReceiverRestart, sender
    <3>2. \A s \in Senders : newest'[s] = "sent" => newest[s] = "sent" /\ air[s] /= <<>>
      BY <2>7 DEF ReceiverRestart
    <3> QED
      BY <3>1, <3>2 DEF Pending, Agreement
  <2>8. CASE UNCHANGED vars
    BY <2>8 DEF Pending, Agreement, Knows, Alone, vars, sender, receiver
  <2> QED
    BY <2>1, <2>2, <2>3, <2>4, <2>5, <2>6, <2>7, <2>8 DEF Next
<1> QED
  BY <1>1, <1>2, LinkTypeCorrect, PTL DEF Spec
=============================================================================
