------------------------ MODULE ChannelDeliveryProofs ------------------------
(***************************************************************************)
(* Theorems about ChannelDelivery, for any list of recipients and any      *)
(* number of workers and passes.                                           *)
(***************************************************************************)
EXTENDS ChannelDelivery, FiniteSetTheorems, TLAPS

\* What a pass has done by the step it has reached.
PassServes(w) ==
    /\ pass[w].left \subseteq Targets
    /\ pass[w].pc = "sent" => Served
    /\ pass[w].pc = "sending" =>
          /\ channel \in {"EMAIL", "IN_APP"} => pass[w].left = Targets
          /\ channel = "SMS" => \A i \in Targets \ pass[w].left : accepted[i] > 0
          /\ channel = "TOPICS" /\ pass[w].succeeded => Served

DeliveryInv ==
    /\ TypeOK
    /\ CompletedMeansServed
    /\ \A w \in Workers : PassServes(w)

\* No step takes back what a recipient has accepted.
LEMMA ServedStays ==
    ASSUME TypeOK, NEW S \in SUBSET Places, AcceptedBy(S), channel' = channel
    PROVE  /\ accepted' \in [Places -> Nat]
           /\ \A i \in Places : accepted'[i] >= accepted[i]
           /\ \A i \in S : accepted'[i] > 0
           /\ Targets' = Targets
           /\ Served => Served'
<1>1. Targets' = Targets /\ Targets \subseteq Places
  BY DEF Targets, NonBlank, FirstPlaces, TypeOK, Channels
<1>2. /\ accepted' \in [Places -> Nat]
      /\ \A i \in Places : accepted'[i] >= accepted[i]
      /\ \A i \in S : accepted'[i] > 0
  BY DEF TypeOK, AcceptedBy
<1>3. \A i \in Targets : accepted[i] > 0 => accepted'[i] > 0
  BY <1>1, <1>2 DEF TypeOK
<1>4. QED
  BY <1>1, <1>2, <1>3 DEF Served

\* The passes of other workers keep what they have done.
LEMMA PassStays ==
    ASSUME TypeOK, NEW S \in SUBSET Places, AcceptedBy(S), channel' = channel,
           NEW v \in Workers, PassServes(v), pass'[v] = pass[v]
    PROVE  PassServes(v)'
<1>1. /\ Targets' = Targets /\ Targets \subseteq Places
      /\ \A i \in Places : accepted'[i] >= accepted[i]
      /\ accepted' \in [Places -> Nat]
      /\ Served => Served'
  BY ServedStays DEF Targets, NonBlank, FirstPlaces, TypeOK, Channels
<1>2. \A i \in Targets : accepted[i] > 0 => accepted'[i] > 0
  BY <1>1 DEF TypeOK
<1>3. QED
  BY <1>1, <1>2 DEF PassServes

\* A step in which one worker calls a provider, or none.
LEMMA DeliveryStep ==
    ASSUME DeliveryInv, NEW w \in Workers, NEW S \in SUBSET Places,
           NEW p \in Passes, AcceptedBy(S), pass' = [pass EXCEPT ![w] = p],
           PassServes(w)', channel' = channel, passes' \in 0 .. MaxPasses,
           completed' \in BOOLEAN, completed' => Served
    PROVE  DeliveryInv'
<1>1. TypeOK'
  BY ServedStays DEF DeliveryInv, TypeOK
<1>2. CompletedMeansServed'
  BY ServedStays DEF DeliveryInv, CompletedMeansServed
<1>3. ASSUME NEW v \in Workers PROVE PassServes(v)'
  BY PassStays DEF DeliveryInv, TypeOK
<1>4. QED
  BY <1>1, <1>2, <1>3 DEF DeliveryInv

LEMMA NothingAccepted == TypeOK /\ accepted' = accepted => AcceptedBy({})
BY DEF TypeOK, AcceptedBy

LEMMA TargetsArePlaces == TypeOK => Targets \subseteq Places
BY DEF Targets, NonBlank, FirstPlaces, TypeOK, Channels

LEMMA DeliveryInvStep == DeliveryInv /\ [Next]_vars => DeliveryInv'
<1> SUFFICES ASSUME DeliveryInv, [Next]_vars PROVE DeliveryInv'
  OBVIOUS
<1> USE DEF DeliveryInv, TypeOK, Passes, NoPass
<1>t. Targets \subseteq Places
  BY TargetsArePlaces
<1>1. ASSUME NEW w \in Workers, Begin(w) PROVE DeliveryInv'
  <2>1. AcceptedBy({}) /\ Targets' = Targets
    BY <1>1, NothingAccepted, ServedStays DEF Begin
  <2>2. PICK p \in Passes :
           /\ pass' = [pass EXCEPT ![w] = p]
           /\ \/ p = [NoPass EXCEPT !.pc = "sending", !.left = Targets]
              \/ p = [NoPass EXCEPT !.pc = "failed"]
    BY <1>1, <1>t DEF Begin, Goto
  <2>3. PassServes(w)'
    BY <1>1, <2>1, <2>2 DEF Begin, PassServes
  <2>4. passes' \in 0 .. MaxPasses
    BY <1>1, PassesAssumption DEF Begin
  <2>5. QED
    BY <1>1, <2>1, <2>2, <2>3, <2>4, DeliveryStep DEF Begin, CompletedMeansServed
<1>2. ASSUME NEW w \in Workers, SendWhole(w) PROVE DeliveryInv'
  <2>1. PICK S \in SUBSET Places, pc \in {"sent", "failed"} :
           /\ AcceptedBy(S)
           /\ Goto(w, pc)
           /\ pc = "sent" => S = pass[w].left
    BY <1>2 DEF SendWhole
  <2>2. [pass[w] EXCEPT !.pc = pc] \in Passes
    OBVIOUS
  <2>3. Targets' = Targets /\ \A i \in S : accepted'[i] > 0
    BY <1>2, <2>1, ServedStays DEF SendWhole
  <2>4. pass[w].left = Targets
    BY <1>2 DEF SendWhole, PassServes
  <2>5. PassServes(w)'
    BY <1>2, <2>1, <2>3, <2>4 DEF SendWhole, Goto, PassServes, Served
  <2>6. QED
    BY <1>2, <2>1, <2>2, <2>5, DeliveryStep DEF SendWhole, Goto, CompletedMeansServed
<1>3. ASSUME NEW w \in Workers, SendSMS(w) PROVE DeliveryInv'
  <2>1. PICK i \in Front(w) :
           \/ /\ AcceptedBy({i})
              /\ pass' = [pass EXCEPT ![w] =
                    [pc |-> IF pass[w].left = {i} THEN "sent" ELSE "sending",
                     left |-> pass[w].left \ {i}, succeeded |-> FALSE]]
           \/ (AcceptedBy({i}) \/ AcceptedBy({})) /\ Goto(w, "failed")
    BY <1>3 DEF SendSMS
  <2>2. i \in pass[w].left /\ i \in Places /\ channel = "SMS"
    BY <1>3, <2>1 DEF Front, SendSMS
  <2>3. \A j \in Targets \ pass[w].left : accepted[j] > 0
    BY <1>3, <2>2 DEF SendSMS, PassServes
  <2> DEFINE p == [pc |-> IF pass[w].left = {i} THEN "sent" ELSE "sending",
                   left |-> pass[w].left \ {i}, succeeded |-> FALSE]
  <2>4. CASE AcceptedBy({i}) /\ pass' = [pass EXCEPT ![w] = p]
    <3>1. /\ Targets' = Targets
          /\ \A j \in Places : accepted'[j] >= accepted[j]
          /\ accepted'[i] > 0
          /\ accepted' \in [Places -> Nat]
      BY <1>3, <2>2, <2>4, ServedStays DEF SendSMS
    <3>2. \A j \in Targets \ (pass[w].left \ {i}) : accepted'[j] > 0
      BY <1>t, <2>3, <3>1
    <3>3. p \in Passes
      OBVIOUS
    <3>4. PassServes(w)'
      BY <1>3, <2>2, <2>4, <3>1, <3>2 DEF SendSMS, PassServes, Served
    <3>5. QED
      BY <1>3, <2>2, <2>4, <3>3, <3>4, DeliveryStep DEF SendSMS, CompletedMeansServed
  <2>5. CASE (AcceptedBy({i}) \/ AcceptedBy({})) /\ Goto(w, "failed")
    <3>1. PICK S \in SUBSET Places : AcceptedBy(S)
      BY <2>2, <2>5
    <3>2. [pass[w] EXCEPT !.pc = "failed"] \in Passes
      OBVIOUS
    <3>3. PassServes(w)'
      BY <1>3, <2>5, <3>1, ServedStays DEF SendSMS, Goto, PassServes
    <3>4. QED
      BY <1>3, <2>5, <3>1, <3>2, <3>3, DeliveryStep
         DEF SendSMS, Goto, CompletedMeansServed
  <2>6. QED
    BY <2>1, <2>4, <2>5
<1>4. ASSUME NEW w \in Workers, SendToTokens(w) PROVE DeliveryInv'
  <2>1. PICK S \in SUBSET pass[w].left, pc \in {"sent", "failed"} :
           AcceptedBy(S) /\ Goto(w, pc) /\ (pc = "sent" => S # {})
    BY <1>4 DEF SendToTokens
  <2>2. S \subseteq Places /\ [pass[w] EXCEPT !.pc = pc] \in Passes
    OBVIOUS
  <2>3. Targets' = Targets /\ \A i \in S : accepted'[i] > 0
    BY <1>4, <2>1, <2>2, ServedStays DEF SendToTokens
  <2>4. PassServes(w)'
    BY <1>4, <2>1, <2>3 DEF SendToTokens, Goto, PassServes, Served
  <2>5. QED
    BY <1>4, <2>1, <2>2, <2>4, DeliveryStep DEF SendToTokens, Goto, CompletedMeansServed
<1>5. ASSUME NEW w \in Workers, SendToTopic(w) PROVE DeliveryInv'
  <2>1. PICK i \in Front(w), ok \in BOOLEAN, S \in SUBSET Places :
           /\ AcceptedBy(S)
           /\ ok => i \in S
           /\ pass' = [pass EXCEPT ![w] =
                [pc |-> IF pass[w].left # {i} THEN "sending"
                        ELSE IF pass[w].succeeded \/ ok THEN "sent" ELSE "failed",
                 left |-> pass[w].left \ {i}, succeeded |-> pass[w].succeeded \/ ok]]
    <3>1. PICK i \in Front(w), ok \in BOOLEAN :
             /\ AcceptedBy({i}) \/ (~ok /\ AcceptedBy({}))
             /\ pass' = [pass EXCEPT ![w] =
                  [pc |-> IF pass[w].left # {i} THEN "sending"
                          ELSE IF pass[w].succeeded \/ ok THEN "sent" ELSE "failed",
                   left |-> pass[w].left \ {i},
                   succeeded |-> pass[w].succeeded \/ ok]]
      BY <1>5 DEF SendToTopic
    <3>2. i \in Places
      BY DEF Front
    <3>3. CASE AcceptedBy({i})
      BY <3>1, <3>2, <3>3
    <3>4. CASE ~ok /\ AcceptedBy({})
      BY <3>1, <3>4
    <3>5. QED
      BY <3>1, <3>3, <3>4
  <2>2. i \in Targets /\ channel = "TOPICS" /\ pass[w].pc = "sending"
    BY <1>5, <2>1 DEF Front, SendToTopic, PassServes
  <2>3. Targets' = Targets /\ (ok => accepted'[i] > 0) /\ (Served => Served')
    BY <1>5, <2>1, ServedStays DEF SendToTopic
  <2>4. pass[w].succeeded \/ ok => Served'
    BY <1>5, <2>2, <2>3 DEF SendToTopic, PassServes, Served
  <2> DEFINE p == [pc |-> IF pass[w].left # {i} THEN "sending"
                          ELSE IF pass[w].succeeded \/ ok THEN "sent" ELSE "failed",
                   left |-> pass[w].left \ {i}, succeeded |-> pass[w].succeeded \/ ok]
  <2>5. p \in Passes
    OBVIOUS
  <2>6. PassServes(w)'
    BY <1>5, <2>1, <2>2, <2>3, <2>4 DEF SendToTopic, PassServes
  <2>7. QED
    BY <1>5, <2>1, <2>5, <2>6, DeliveryStep DEF SendToTopic, CompletedMeansServed
<1>6. ASSUME NEW w \in Workers, Record(w) \/ Crash(w) PROVE DeliveryInv'
  <2>1. AcceptedBy({}) /\ Targets' = Targets
    BY <1>6, NothingAccepted, ServedStays DEF Record, Crash
  <2>2. PassServes(w)'
    BY <1>6, <2>1 DEF Record, Crash, PassServes
  <2>3. completed' \in BOOLEAN /\ (completed' => Served)
    <3>1. CASE Crash(w)
      BY <3>1 DEF Crash, CompletedMeansServed
    <3>2. CASE Record(w)
      <4>1. PassServes(w) /\ (completed => Served)
        BY DEF CompletedMeansServed
      <4>2. CASE completed' = completed
        BY <4>1, <4>2
      <4>3. CASE completed' = (completed \/ pass[w].pc = "sent")
        BY <4>1, <4>3, Zenon DEF PassServes
      <4>4. QED
        BY <3>2, <4>2, <4>3 DEF Record
    <3>3. QED
      BY <1>6, <3>1, <3>2
  <2>4. QED
    BY <1>6, <2>1, <2>2, <2>3, DeliveryStep DEF Record, Crash
<1>7. CASE UNCHANGED vars
  <2>1. Targets' = Targets /\ (Served => Served')
    BY <1>7 DEF vars, Targets, NonBlank, FirstPlaces, Served
  <2>2. QED
    BY <1>7, <2>1 DEF vars, CompletedMeansServed, PassServes
<1>8. QED
  BY <1>1, <1>2, <1>3, <1>4, <1>5, <1>6, <1>7 DEF Next

LEMMA InitDelivery == Init => DeliveryInv
<1> SUFFICES ASSUME Init PROVE DeliveryInv
  OBVIOUS
<1>1. TypeOK
  <2>1. NoPass \in Passes
    BY DEF NoPass, Passes
  <2>2. 0 \in 0 .. MaxPasses
    BY PassesAssumption
  <2>3. QED
    BY <2>1, <2>2 DEF Init, TypeOK
<1>2. CompletedMeansServed
  BY DEF Init, CompletedMeansServed
<1>3. \A w \in Workers : PassServes(w)
  BY DEF Init, PassServes, NoPass
<1>4. QED
  BY <1>1, <1>2, <1>3 DEF DeliveryInv

(* A notification is recorded as delivered only if e-mail, SMS or in-app     *)
(* delivery has reached all its recipients, or push one of them              *)
(* (SendNotification and the clients it calls).                              *)
THEOREM CompletedServes == Spec => []CompletedMeansServed
<1>1. DeliveryInv => CompletedMeansServed
  BY DEF DeliveryInv
<1>2. QED
  BY InitDelivery, <1>1, DeliveryInvStep, PTL DEF Spec

-----------------------------------------------------------------------------
(* How often recipients are served. *)

\* The passes that have still to serve i; those past h that have not served i.
Owing(i) == {w \in Workers : pass[w].pc = "sending" /\ i \in pass[w].left}
Between(h, i) ==
    {w \in Workers : /\ pass[w].pc = "sending"
                     /\ h \notin pass[w].left /\ i \in pass[w].left}

\* A recipient has been served at most by each pass that does not owe it to him.
OncePerPass ==
    \A i \in Places : /\ IsFiniteSet(Owing(i))
                      /\ accepted[i] + Cardinality(Owing(i)) <= passes

\* A recipient is behind an earlier one by the passes that are between them.
OrderInv ==
    channel = "SMS" =>
        /\ \A w \in Workers : pass[w].pc = "sending" =>
              \A h, i \in Places : h < i /\ h \in pass[w].left => i \in pass[w].left
        /\ \A h, i \in Places : h < i =>
              /\ IsFiniteSet(Between(h, i))
              /\ accepted[i] + Cardinality(Between(h, i)) <= accepted[h]

FirstPlacesOnly ==
    channel = "IN_APP" => \A i \in Places : accepted[i] > 0 => i \in FirstPlaces

RepeatInv == OncePerPass /\ OrderInv /\ FirstPlacesOnly

\* Sets that differ at most in w.
LEMMA CountOfOne ==
    ASSUME NEW S, IsFiniteSet(S), NEW w, NEW T, T \ {w} = S \ {w}
    PROVE  /\ IsFiniteSet(T) /\ Cardinality(T) \in Nat /\ Cardinality(S) \in Nat
           /\ (w \in T <=> w \in S) => Cardinality(T) = Cardinality(S)
           /\ w \in T /\ w \notin S => Cardinality(T) = Cardinality(S) + 1
           /\ w \notin T /\ w \in S => Cardinality(T) = Cardinality(S) - 1
<1>1. CASE w \in T /\ w \notin S
  <2>1. T = S \union {w}
    BY <1>1
  <2>2. QED
    BY <1>1, <2>1, FS_AddElement, FS_CardinalityType
<1>2. CASE w \notin T /\ w \in S
  <2>1. T = S \ {w}
    BY <1>2
  <2>2. QED
    BY <1>2, <2>1, FS_RemoveElement, FS_CardinalityType
<1>3. CASE w \in T <=> w \in S
  <2>1. T = S
    BY <1>3
  <2>2. QED
    BY <1>3, <2>1, FS_CardinalityType
<1>4. QED
  BY <1>1, <1>2, <1>3

LEMMA AcceptedGrows ==
    ASSUME TypeOK, NEW S \in SUBSET Places, AcceptedBy(S), NEW i \in Places
    PROVE  /\ accepted[i] \in Nat
           /\ i \in S => accepted'[i] = accepted[i] + 1
           /\ i \notin S => accepted'[i] = accepted[i]
BY DEF TypeOK, AcceptedBy

\* What a call of a provider does to the pass that makes it.
LEMMA SendShape ==
    ASSUME DeliveryInv, NEW w \in Workers,
           SendWhole(w) \/ SendSMS(w) \/ SendToTokens(w) \/ SendToTopic(w)
    PROVE  \E S \in SUBSET pass[w].left, p \in Passes :
              /\ AcceptedBy(S) /\ pass' = [pass EXCEPT ![w] = p]
              /\ p.pc = "sending" => p.left \subseteq pass[w].left \ S
              /\ channel = "SMS" => \E f \in Front(w) :
                    /\ S \subseteq {f}
                    /\ p.pc = "sending" => S = {f} /\ p.left = pass[w].left \ {f}
<1> USE DEF DeliveryInv, TypeOK, Passes
<1>1. CASE SendWhole(w) \/ SendToTokens(w)
  <2>1. PICK S \in SUBSET pass[w].left, pc \in {"sent", "failed"} :
           AcceptedBy(S) /\ Goto(w, pc)
    BY <1>1 DEF SendWhole, SendToTokens
  <2>2. [pass[w] EXCEPT !.pc = pc] \in Passes
    OBVIOUS
  <2>3. QED
    BY <1>1, <2>1, <2>2 DEF Goto, SendWhole, SendToTokens
<1>2. CASE SendSMS(w)
  <2>1. PICK f \in Front(w) :
           \/ /\ AcceptedBy({f})
              /\ pass' = [pass EXCEPT ![w] =
                    [pc |-> IF pass[w].left = {f} THEN "sent" ELSE "sending",
                     left |-> pass[w].left \ {f}, succeeded |-> FALSE]]
           \/ (AcceptedBy({f}) \/ AcceptedBy({})) /\ Goto(w, "failed")
    BY <1>2 DEF SendSMS
  <2>2. f \in pass[w].left
    BY DEF Front
  <2>3. CASE /\ AcceptedBy({f})
             /\ pass' = [pass EXCEPT ![w] =
                   [pc |-> IF pass[w].left = {f} THEN "sent" ELSE "sending",
                    left |-> pass[w].left \ {f}, succeeded |-> FALSE]]
    <3> DEFINE p == [pc |-> IF pass[w].left = {f} THEN "sent" ELSE "sending",
                     left |-> pass[w].left \ {f}, succeeded |-> FALSE]
    <3>1. p \in Passes
      OBVIOUS
    <3>2. p.left = pass[w].left \ {f} /\ {f} \in SUBSET pass[w].left
      BY <2>2
    <3>3. pass' = [pass EXCEPT ![w] = p] /\ AcceptedBy({f})
      BY <2>3
    <3> HIDE DEF p
    <3>4. QED
      BY <3>1, <3>2, <3>3
  <2>4. CASE (AcceptedBy({f}) \/ AcceptedBy({})) /\ Goto(w, "failed")
    <3>1. PICK S \in SUBSET {f} : AcceptedBy(S)
      BY <2>4
    <3> DEFINE p == [pass[w] EXCEPT !.pc = "failed"]
    <3>2. p \in Passes /\ p.pc = "failed"
      OBVIOUS
    <3>3. pass' = [pass EXCEPT ![w] = p]
      BY <2>4 DEF Goto
    <3>4. S \in SUBSET pass[w].left
      BY <2>2
    <3> HIDE DEF p
    <3>5. QED
      BY <3>1, <3>2, <3>3, <3>4
  <2>5. QED
    BY <2>1, <2>3, <2>4
<1>3. CASE SendToTopic(w)
  <2>1. PICK f \in Front(w), ok \in BOOLEAN :
           /\ AcceptedBy({f}) \/ (~ok /\ AcceptedBy({}))
           /\ pass' = [pass EXCEPT ![w] =
                [pc |-> IF pass[w].left # {f} THEN "sending"
                        ELSE IF pass[w].succeeded \/ ok THEN "sent" ELSE "failed",
                 left |-> pass[w].left \ {f}, succeeded |-> pass[w].succeeded \/ ok]]
    BY <1>3 DEF SendToTopic
  <2>2. f \in pass[w].left
    BY DEF Front
  <2> DEFINE p == [pc |-> IF pass[w].left # {f} THEN "sending"
                          ELSE IF pass[w].succeeded \/ ok THEN "sent" ELSE "failed",
                   left |-> pass[w].left \ {f}, succeeded |-> pass[w].succeeded \/ ok]
  <2>3. p \in Passes /\ p.left = pass[w].left \ {f}
    <3>1. (pass[w].succeeded \/ ok) \in BOOLEAN
      BY Zenon
    <3>2. pass[w].left \ {f} \in SUBSET Places
      OBVIOUS
    <3>3. (IF pass[w].left # {f} THEN "sending"
           ELSE IF pass[w].succeeded \/ ok THEN "sent" ELSE "failed")
             \in {"idle", "sending", "sent", "failed"}
      BY Zenon
    <3>4. p.left = pass[w].left \ {f}
      BY Zenon
    <3>5. p \in Passes
      <4>1. \A a, b, c : /\ a \in {"idle", "sending", "sent", "failed"}
                          /\ b \in SUBSET Places
                          /\ c \in BOOLEAN
                          => [pc |-> a, left |-> b, succeeded |-> c] \in Passes
        BY DEF Passes
      <4>2. QED
        BY <3>1, <3>2, <3>3, <4>1, Zenon
    <3>6. QED
      BY <3>4, <3>5
  <2>4. PICK S \in SUBSET {f} : AcceptedBy(S)
    BY <2>1
  <2>5. pass' = [pass EXCEPT ![w] = p]
    BY <2>1
  <2>6. channel # "SMS"
    BY <1>3 DEF SendToTopic
  <2> HIDE DEF p
  <2>7. S \in SUBSET pass[w].left /\ p.left \subseteq pass[w].left \ S
    BY <2>2, <2>3
  <2>8. QED
    BY <2>3, <2>4, <2>5, <2>6, <2>7
<1>4. QED
  BY <1>1, <1>2, <1>3

LEMMA SendRepeats ==
    ASSUME DeliveryInv, RepeatInv, NEW w \in Workers,
           SendWhole(w) \/ SendSMS(w) \/ SendToTokens(w) \/ SendToTopic(w)
    PROVE  RepeatInv'
<1>0. /\ channel' = channel /\ passes' = passes /\ pass[w].pc = "sending"
      /\ pass \in [Workers -> Passes] /\ pass[w].left \subseteq Targets
      /\ pass[w].left \subseteq Places /\ passes \in Nat
  BY PassesAssumption
     DEF DeliveryInv, PassServes, TypeOK, Passes, SendWhole, SendSMS, SendToTokens, SendToTopic
<1>1. PICK S \in SUBSET pass[w].left, p \in Passes :
         /\ AcceptedBy(S) /\ pass' = [pass EXCEPT ![w] = p]
         /\ p.pc = "sending" => p.left \subseteq pass[w].left \ S
         /\ channel = "SMS" => \E f \in Front(w) :
               /\ S \subseteq {f}
               /\ p.pc = "sending" => S = {f} /\ p.left = pass[w].left \ {f}
  BY SendShape
<1>2. S \in SUBSET Places /\ pass'[w] = p /\ \A v \in Workers : v # w => pass'[v] = pass[v]
  BY <1>0, <1>1
<1>3. OncePerPass'
  <2> SUFFICES ASSUME NEW i \in Places
               PROVE  /\ IsFiniteSet(Owing(i)')
                      /\ accepted'[i] + Cardinality(Owing(i)') <= passes
    BY <1>0 DEF OncePerPass
  <2>1. Owing(i)' \ {w} = Owing(i) \ {w}
    BY <1>2 DEF Owing
  <2>2. (w \in Owing(i)' => w \in Owing(i) /\ i \notin S) /\ (i \in S => w \in Owing(i))
    BY <1>0, <1>1, <1>2 DEF Owing
  <2>3. IsFiniteSet(Owing(i)) /\ accepted[i] + Cardinality(Owing(i)) <= passes
    BY DEF RepeatInv, OncePerPass
  <2>4. QED
    BY <1>0, <1>1, <1>2, <2>1, <2>2, <2>3, CountOfOne, AcceptedGrows DEF DeliveryInv
<1>4. OrderInv'
  <2> SUFFICES ASSUME channel = "SMS" PROVE OrderInv'
    BY <1>0 DEF OrderInv
  <2>1. PICK f \in Front(w) :
           /\ S \subseteq {f}
           /\ p.pc = "sending" => S = {f} /\ p.left = pass[w].left \ {f}
    BY <1>1
  <2>2. f \in pass[w].left /\ f \in Places /\ \A j \in pass[w].left : f <= j
    BY <1>0 DEF Front
  <2>3. Places \subseteq Nat
    BY RecipientsAssumption DEF Places
  <2>4. ASSUME NEW v \in Workers, pass'[v].pc = "sending",
               NEW h \in Places, NEW i \in Places, h < i, h \in pass'[v].left
        PROVE  i \in pass'[v].left
    <3>1. CASE v # w
      BY <1>2, <2>4, <3>1 DEF RepeatInv, OrderInv
    <3>2. CASE v = w
      <4>1. h \in pass[w].left /\ i \in pass[w].left
        BY <1>0, <1>2, <2>1, <2>4, <3>2 DEF RepeatInv, OrderInv
      <4>2. i # f
        BY <2>2, <2>3, <2>4, <4>1
      <4>3. QED
        BY <1>2, <2>1, <2>4, <3>2, <4>1, <4>2
    <3>3. QED
      BY <3>1, <3>2
  <2>5. ASSUME NEW h \in Places, NEW i \in Places, h < i
        PROVE  /\ IsFiniteSet(Between(h, i)')
               /\ accepted'[i] + Cardinality(Between(h, i)') <= accepted'[h]
    <3>1. Between(h, i)' \ {w} = Between(h, i) \ {w}
      BY <1>2 DEF Between
    <3>2. /\ IsFiniteSet(Between(h, i))
          /\ accepted[i] + Cardinality(Between(h, i)) <= accepted[h]
      BY <2>5 DEF RepeatInv, OrderInv
    <3>3. h # i /\ ~(i < h)
      BY <2>3, <2>5
    <3>4. CASE w \in Between(h, i)'
      <4>1. p.pc = "sending" /\ h \notin p.left /\ i \in p.left
        BY <1>2, <3>4 DEF Between
      <4>2. S = {f} /\ i \in pass[w].left /\ i # f
        BY <2>1, <4>1
      <4>3. CASE h = f
        <5>1. w \notin Between(h, i)
          BY <2>2, <4>3 DEF Between
        <5>2. accepted'[h] = accepted[h] + 1 /\ accepted'[i] = accepted[i]
          BY <1>1, <1>2, <4>2, <4>3, AcceptedGrows DEF DeliveryInv
        <5>3. QED
          BY <3>1, <3>2, <3>4, <5>1, <5>2, CountOfOne, AcceptedGrows, <1>1, <1>2 DEF DeliveryInv
      <4>4. CASE h # f
        <5>1. w \in Between(h, i)
          BY <1>0, <2>1, <4>1, <4>2, <4>4 DEF Between
        <5>2. accepted'[h] = accepted[h] /\ accepted'[i] = accepted[i]
          BY <1>1, <1>2, <4>2, <4>4, AcceptedGrows DEF DeliveryInv
        <5>3. QED
          BY <3>1, <3>2, <3>4, <5>1, <5>2, CountOfOne
      <4>5. QED
        BY <4>3, <4>4
    <3>5. CASE w \notin Between(h, i)' /\ w \in Between(h, i)
      <4>1. /\ accepted[i] \in Nat /\ accepted[h] \in Nat
            /\ accepted'[i] \in {accepted[i], accepted[i] + 1}
            /\ accepted'[h] \in {accepted[h], accepted[h] + 1}
        BY <1>1, <1>2, AcceptedGrows DEF DeliveryInv
      <4>2. /\ IsFiniteSet(Between(h, i)') /\ Cardinality(Between(h, i)) \in Nat
            /\ Cardinality(Between(h, i)') = Cardinality(Between(h, i)) - 1
        BY <3>1, <3>2, <3>5, CountOfOne
      <4>3. QED
        BY <3>2, <4>1, <4>2
    <3>6. CASE w \notin Between(h, i)' /\ w \notin Between(h, i)
      <4>1. i \notin S
        <5>1. CASE i = f
          <6>1. h \notin pass[w].left
            BY <2>2, <2>3, <2>5, <5>1
          <6>2. QED
            BY <1>0, <2>2, <3>6, <5>1, <6>1 DEF Between
        <5>2. QED
          BY <2>1, <5>1
      <4>2. accepted'[i] = accepted[i] /\ accepted'[h] \in {accepted[h], accepted[h] + 1}
        BY <1>1, <1>2, <4>1, AcceptedGrows DEF DeliveryInv
      <4>3. accepted[i] \in Nat /\ accepted[h] \in Nat
        BY DEF DeliveryInv, TypeOK
      <4>4. /\ IsFiniteSet(Between(h, i)') /\ Cardinality(Between(h, i)) \in Nat
            /\ Cardinality(Between(h, i)') = Cardinality(Between(h, i))
        BY <3>1, <3>2, <3>6, CountOfOne
      <4>5. QED
        BY <3>2, <4>2, <4>3, <4>4
    <3>7. QED
      BY <3>4, <3>5, <3>6
  <2>6. QED
    BY <2>4, <2>5 DEF OrderInv
<1>5. FirstPlacesOnly'
  <2>1. SUFFICES ASSUME channel = "IN_APP", NEW i \in Places, accepted'[i] > 0
                 PROVE  i \in FirstPlaces
    BY <1>0 DEF FirstPlacesOnly, FirstPlaces, NonBlank
  <2>2. CASE i \in S
    BY <1>0, <2>1, <2>2 DEF Targets
  <2>3. CASE i \notin S
    BY <1>1, <1>2, <2>1, <2>3, AcceptedGrows DEF DeliveryInv, RepeatInv, FirstPlacesOnly
  <2>4. QED
    BY <2>2, <2>3
<1>6. QED
  BY <1>3, <1>4, <1>5 DEF RepeatInv

\* A pass that begins, ends or dies.
LEMMA PassRepeats ==
    ASSUME DeliveryInv, RepeatInv, NEW w \in Workers, Begin(w) \/ Record(w) \/ Crash(w)
    PROVE  RepeatInv'
<1>0. /\ channel' = channel /\ accepted' = accepted /\ pass \in [Workers -> Passes]
      /\ passes \in Nat /\ accepted \in [Places -> Nat]
  BY PassesAssumption DEF DeliveryInv, TypeOK, Begin, Record, Crash
<1>1. /\ passes' \in Nat /\ passes <= passes'
      /\ Begin(w) => pass[w].pc = "idle" /\ passes' = passes + 1
  BY <1>0 DEF Begin, Record, Crash, NoPass
<1>2. \A v \in Workers : v # w => pass'[v] = pass[v]
  BY <1>0 DEF Begin, Record, Crash, Goto
<1>3. pass'[w].pc = "sending" => Begin(w) /\ pass'[w].left = Targets
  <2>1. CASE Record(w) \/ Crash(w)
    BY <1>0, <2>1 DEF Record, Crash, NoPass
  <2>2. CASE Begin(w)
    <3>1. \/ pass' = [pass EXCEPT ![w] = [NoPass EXCEPT !.pc = "sending",
                                                     !.left = Targets]]
          \/ pass' = [pass EXCEPT ![w].pc = "failed"]
      BY <2>2 DEF Begin, Goto
    <3>2. CASE pass' = [pass EXCEPT ![w] = [NoPass EXCEPT !.pc = "sending",
                                                        !.left = Targets]]
      <4>1. pass'[w] = [NoPass EXCEPT !.pc = "sending", !.left = Targets]
        BY <1>0, <3>2
      <4>2. pass'[w].left = Targets
        BY <4>1 DEF NoPass
      <4>3. QED
        BY <2>2, <4>2
    <3>3. CASE pass' = [pass EXCEPT ![w].pc = "failed"]
      <4>1. pass'[w].pc = "failed"
        BY <1>0, <3>3 DEF Passes
      <4>2. QED
        BY <4>1
    <3>4. QED
      BY <3>1, <3>2, <3>3
  <2>3. QED
    BY <2>1, <2>2
<1>4. OncePerPass'
  <2> SUFFICES ASSUME NEW i \in Places
               PROVE  /\ IsFiniteSet(Owing(i)')
                      /\ accepted[i] + Cardinality(Owing(i)') <= passes'
    BY <1>0 DEF OncePerPass
  <2>1. Owing(i)' \ {w} = Owing(i) \ {w}
    BY <1>2 DEF Owing
  <2>2. w \in Owing(i)' => passes' = passes + 1
    BY <1>1, <1>3 DEF Owing
  <2>3. IsFiniteSet(Owing(i)) /\ accepted[i] + Cardinality(Owing(i)) <= passes
    BY DEF RepeatInv, OncePerPass
  <2>4. /\ IsFiniteSet(Owing(i)') /\ Cardinality(Owing(i)') \in Nat
        /\ Cardinality(Owing(i)) \in Nat
        /\ Cardinality(Owing(i)') <= Cardinality(Owing(i)) + 1
        /\ w \notin Owing(i)' => Cardinality(Owing(i)') <= Cardinality(Owing(i))
    BY <2>1, <2>3, CountOfOne
  <2>5. accepted[i] \in Nat
    BY <1>0
  <2>6. QED
    BY <1>0, <1>1, <2>2, <2>3, <2>4, <2>5
<1>5. OrderInv'
  <2> SUFFICES ASSUME channel = "SMS" PROVE OrderInv'
    BY <1>0 DEF OrderInv
  <2>0. Targets = Places
    BY DEF Targets
  <2>1. ASSUME NEW v \in Workers, pass'[v].pc = "sending",
               NEW h \in Places, NEW i \in Places, h < i, h \in pass'[v].left
        PROVE  i \in pass'[v].left
    BY <1>2, <1>3, <2>0, <2>1 DEF RepeatInv, OrderInv
  <2>2. ASSUME NEW h \in Places, NEW i \in Places, h < i
        PROVE  /\ IsFiniteSet(Between(h, i)')
               /\ accepted[i] + Cardinality(Between(h, i)') <= accepted[h]
    <3>1. Between(h, i)' \ {w} = Between(h, i) \ {w}
      BY <1>2 DEF Between
    <3>2. w \notin Between(h, i)'
      BY <1>3, <2>0 DEF Between
    <3>3. /\ IsFiniteSet(Between(h, i))
          /\ accepted[i] + Cardinality(Between(h, i)) <= accepted[h]
      BY <2>2 DEF RepeatInv, OrderInv
    <3>4. /\ IsFiniteSet(Between(h, i)') /\ Cardinality(Between(h, i)') \in Nat
          /\ Cardinality(Between(h, i)) \in Nat
          /\ Cardinality(Between(h, i)') <= Cardinality(Between(h, i))
      BY <3>1, <3>2, <3>3, CountOfOne
    <3>5. accepted[i] \in Nat /\ accepted[h] \in Nat
      BY <1>0
    <3>6. QED
      BY <3>3, <3>4, <3>5
  <2>3. QED
    BY <1>0, <2>1, <2>2 DEF OrderInv
<1>6. FirstPlacesOnly'
  BY <1>0 DEF RepeatInv, FirstPlacesOnly, FirstPlaces, NonBlank
<1>7. QED
  BY <1>4, <1>5, <1>6 DEF RepeatInv

LEMMA RepeatInvStep == DeliveryInv /\ RepeatInv /\ [Next]_vars => RepeatInv'
<1> SUFFICES ASSUME DeliveryInv, RepeatInv, [Next]_vars PROVE RepeatInv'
  OBVIOUS
<1>1. CASE UNCHANGED vars
  BY <1>1 DEF vars, RepeatInv, OncePerPass, OrderInv, FirstPlacesOnly, Owing, Between,
              FirstPlaces, NonBlank
<1>2. QED
  BY <1>1, SendRepeats, PassRepeats DEF Next

LEMMA InitRepeats == Init => RepeatInv
<1> SUFFICES ASSUME Init PROVE RepeatInv
  OBVIOUS
<1>1. \A i, h \in Places : Owing(i) = {} /\ Between(h, i) = {} /\ accepted[i] = 0
  BY DEF Init, NoPass, Owing, Between
<1>2. QED
  BY <1>1, FS_EmptySet DEF Init, NoPass, RepeatInv, OncePerPass, OrderInv, FirstPlacesOnly

(* The variables of a delivery keep their types (SendNotification).          *)
THEOREM DeliveryTypeCorrect == Spec => []TypeOK
<1>1. DeliveryInv => TypeOK
  BY DEF DeliveryInv
<1>2. QED
  BY InitDelivery, <1>1, DeliveryInvStep, PTL DEF Spec

(* Text messages go down the list (TwilioClient.SendSMS): whatever passes    *)
(* overlap, fail or die, nobody has had more of them than one before him.    *)
THEOREM EarlierFirst == Spec => []EarlierRecipientsFirst
<1>1. DeliveryInv /\ RepeatInv => EarlierRecipientsFirst
  <2> SUFFICES ASSUME DeliveryInv, RepeatInv, channel = "SMS",
                      NEW h \in Places, NEW i \in Places, h < i
               PROVE  accepted[i] <= accepted[h]
    BY DEF EarlierRecipientsFirst
  <2>1. /\ IsFiniteSet(Between(h, i))
        /\ accepted[i] + Cardinality(Between(h, i)) <= accepted[h]
    BY DEF RepeatInv, OrderInv
  <2>2. Cardinality(Between(h, i)) \in Nat
    BY <2>1, FS_CardinalityType
  <2>3. accepted[i] \in Nat /\ accepted[h] \in Nat
    BY DEF DeliveryInv, TypeOK
  <2>4. QED
    BY <2>1, <2>2, <2>3
<1>2. QED
  BY InitDelivery, InitRepeats, <1>1, DeliveryInvStep, RepeatInvStep, PTL DEF Spec

(* A pass serves a recipient once, and in-app rows go to one place of each   *)
(* user, however passes overlap (SendNotification, sendInApp).               *)
THEOREM OncePerPassOnly == Spec => []OnceInEachPass
<1>1. DeliveryInv /\ RepeatInv => OnceInEachPass
  <2> SUFFICES ASSUME DeliveryInv, RepeatInv PROVE OnceInEachPass
    OBVIOUS
  <2>1. ASSUME NEW i \in Places PROVE accepted[i] <= passes
    <3>1. IsFiniteSet(Owing(i)) /\ accepted[i] + Cardinality(Owing(i)) <= passes
      BY DEF RepeatInv, OncePerPass
    <3>2. Cardinality(Owing(i)) \in Nat
      BY <3>1, FS_CardinalityType
    <3>3. accepted[i] \in Nat /\ passes \in Nat
      BY PassesAssumption DEF DeliveryInv, TypeOK
    <3>4. QED
      BY <3>1, <3>2, <3>3
  <2>2. ASSUME channel = "IN_APP", NEW i \in Places, NEW j \in Places, i # j,
               Recipients[i] = Recipients[j]
        PROVE  accepted[i] = 0 \/ accepted[j] = 0
    <3>1. i \in Nat /\ j \in Nat /\ accepted[i] \in Nat /\ accepted[j] \in Nat
      BY RecipientsAssumption DEF Places, DeliveryInv, TypeOK
    <3>2. ~(i \in FirstPlaces /\ j \in FirstPlaces)
      BY <2>2, <3>1 DEF FirstPlaces
    <3>3. QED
      BY <2>2, <3>1, <3>2 DEF RepeatInv, FirstPlacesOnly
  <2>3. QED
    BY <2>1, <2>2 DEF OnceInEachPass
<1>2. QED
  BY InitDelivery, InitRepeats, <1>1, DeliveryInvStep, RepeatInvStep, PTL DEF Spec

=============================================================================
