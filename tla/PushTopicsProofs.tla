-------------------------- MODULE PushTopicsProofs --------------------------
(***************************************************************************)
(* Theorems about PushTopics, for any topics, names and concurrent calls.  *)
(***************************************************************************)
EXTENDS PushTopics, TLAPS

-----------------------------------------------------------------------------
(* The inductive invariant. *)

\* A call has an id once it has a topic; an update that has loaded its topic
\* finds it there for good.
CallShape(c) ==
    LET k == call[c] IN
    /\ k.op = "create" => /\ k.ask.name \in Names /\ k.ask.about # None
                          /\ k.pc # "load"
                          /\ k.pc # "ok" => k.id = None
    /\ k.op = "update" => /\ k.id \in Ids
                          /\ k.pc \in {"lookup", "write"} => topic[k.id] # NoTopic
    /\ k.pc = "ok" => k.id \in Ids
    /\ k.pc = "lookup" => k.ask.name \in Names
    /\ k.pc = "write" => k.ask.name # Blank

\* What a call that nothing has disturbed relies on, and answers.
CallRight(c) ==
    LET k == call[c] IN
    /\ k.pc = "write" /\ k.ask.name # None => ~Taken(k.ask.name, k.id)
    /\ k.pc = "ok" => topic[k.id] # NoTopic /\ Holds(topic[k.id], k)
    /\ k.pc = "conflict" => Taken(k.ask.name, k.id)
    /\ k.pc = "notfound" => topic[k.id] = NoTopic
    /\ k.pc = "failed" =>
          \/ k.ask.name = Blank
          \/ k.ask = [name |-> None, about |-> None, active |-> None]

CallOK(c) ==
    call[c] # NoCall => CallShape(c) /\ (c \notin disturbed => CallRight(c))

UniqueNames ==
    \A i, j \in Ids : i # j /\ topic[i] # NoTopic /\ topic[j] # NoTopic
                        => topic[i].name # topic[j].name

TopicsInv == TypeOK /\ UniqueNames /\ \A c \in Calls : CallOK(c)

-----------------------------------------------------------------------------
(* The shape of the steps. *)

LEMMA ServingPc == ASSUME NEW k \in Serving PROVE k # NoCall /\ k.pc # "idle"
BY DEF Serving, NoCall

LEMMA NoTopicIsNone == NoTopic \notin Topics
BY NoneAssumption DEF NoTopic, Topics

LEMMA GotoShape ==
    ASSUME TypeOK, NEW c \in Calls, call[c] # NoCall,
           NEW pc \in {"load", "lookup", "write", "ok", "conflict", "notfound", "failed"},
           Goto(c, pc)
    PROVE  /\ call' \in [Calls -> {NoCall} \union Serving]
           /\ call'[c] # NoCall /\ call'[c].pc = pc /\ call'[c].op = call[c].op
           /\ call'[c].id = call[c].id /\ call'[c].ask = call[c].ask
           /\ \A d \in Calls : d # c => call'[d] = call[d]
<1>1. call[c] \in Serving
  BY DEF TypeOK
<1> DEFINE k == [call[c] EXCEPT !.pc = pc]
<1>2. /\ k \in Serving /\ k.pc = pc /\ k.op = call[c].op /\ k.id = call[c].id
      /\ k.ask = call[c].ask
  BY <1>1 DEF Serving
<1>3. call' = [call EXCEPT ![c] = k]
  BY DEF Goto
<1> HIDE DEF k
<1>4. call'[c] = k /\ \A d \in Calls : d # c => call'[d] = call[d]
  BY <1>3 DEF TypeOK
<1>5. call' \in [Calls -> {NoCall} \union Serving]
  BY <1>2, <1>3 DEF TypeOK
<1>6. QED
  BY <1>2, <1>4, <1>5, ServingPc

\* A step that changes call c and no topic.
LEMMA OwnStep ==
    ASSUME TopicsInv, NEW c \in Calls, TypeOK', topic' = topic,
           \A d \in Calls : d # c => /\ call'[d] = call[d]
                                     /\ d \in disturbed => d \in disturbed',
           CallOK(c)'
    PROVE  TopicsInv'
<1>1. ASSUME NEW d \in Calls PROVE CallOK(d)'
  <2>1. CASE d = c
    BY <2>1
  <2>2. CASE d # c
    BY <2>2 DEF TopicsInv, CallOK, CallShape, CallRight, Taken, Holds
  <2>3. QED
    BY <2>1, <2>2
<1>2. QED
  BY <1>1 DEF TopicsInv, UniqueNames

LEMMA TopicsInit == Init => TopicsInv
<1> SUFFICES ASSUME Init PROVE TopicsInv
  OBVIOUS
<1>1. TypeOK
  BY DEF Init, TypeOK
<1>2. \A c \in Calls : call[c] = NoCall
  BY DEF Init
<1>3. UniqueNames
  BY DEF Init, UniqueNames
<1>4. QED
  BY <1>1, <1>2, <1>3 DEF TopicsInv, CallOK

-----------------------------------------------------------------------------
(* One lemma for each kind of step. *)

LEMMA BeginKeeps ==
    ASSUME TopicsInv, NEW c \in Calls, NEW ask \in Asks,
           \/ Create(c, ask)
           \/ \E i \in Ids : Update(c, i, ask)
    PROVE  TopicsInv'
<1>1. PICK pc \in {"load", "lookup"}, op \in {"create", "update"},
           i \in Ids \union {None} :
         /\ Begin(c, pc, op, i, ask)
         /\ pc = "lookup" => op = "create" /\ ask.name \in Names
         /\ op = "create" => /\ ask.name \in Names /\ ask.about # None
                             /\ pc = "lookup" /\ i = None
         /\ op = "update" => i \in Ids /\ pc = "load"
  BY DEF Create, Update
<1> DEFINE k == [pc |-> pc, op |-> op, id |-> i, ask |-> ask]
<1>2. k \in Serving
  BY DEF Serving
<1>3. /\ call' = [call EXCEPT ![c] = k] /\ topic' = topic
      /\ disturbed' = disturbed \ {c}
  BY <1>1 DEF Begin
<1>4. k.pc = pc /\ k.op = op /\ k.id = i /\ k.ask = ask
  OBVIOUS
<1> HIDE DEF k
<1>5. TypeOK' /\ call'[c] = k /\ \A d \in Calls : d # c => call'[d] = call[d]
  BY <1>2, <1>3 DEF TopicsInv, TypeOK
<1>6. CallShape(c)'
  BY <1>1, <1>4, <1>5 DEF CallShape
<1>7. CallRight(c)'
  BY <1>1, <1>4, <1>5 DEF CallRight
<1>8. CallOK(c)'
  BY <1>6, <1>7 DEF CallOK
<1>9. QED
  BY <1>3, <1>5, <1>8, OwnStep

LEMMA LoadKeeps ==
    ASSUME TopicsInv, NEW c \in Calls, FindOneById(c)
    PROVE  TopicsInv'
<1> DEFINE k == call[c]
<1>1. TypeOK /\ CallOK(c) /\ k.pc = "load" /\ k # NoCall /\ topic' = topic
  BY DEF TopicsInv, FindOneById, NoCall
<1>2. k \in Serving /\ CallShape(c) /\ k.op = "update" /\ k.id \in Ids
  BY <1>1 DEF TypeOK, CallOK, CallShape, Serving
<1>3. k.ask = [name |-> k.ask.name, about |-> k.ask.about, active |-> k.ask.active]
  BY <1>2 DEF Serving, Asks
<1>4. PICK pc \in {"notfound", "lookup", "write", "failed"} :
         /\ Goto(c, pc)
         /\ disturbed' = disturbed \/ disturbed' = disturbed \union {c}
         /\ pc = "notfound" => topic[k.id] = NoTopic \/ c \in disturbed'
         /\ pc \in {"lookup", "write"} => topic[k.id] # NoTopic
         /\ pc = "lookup" => k.ask.name \in Names
         /\ pc = "write" => k.ask.name = None
         /\ pc = "failed" =>
               \/ k.ask.name = Blank
               \/ k.ask.name = None /\ k.ask.about = None /\ k.ask.active = None
  <2>1. CASE topic[k.id] = NoTopic /\ Goto(c, "notfound") /\ UNCHANGED disturbed
    BY <2>1
  <2>2. CASE /\ topic[k.id] # NoTopic /\ UNCHANGED disturbed
             /\ Goto(c, IF k.ask.name = Blank THEN "failed"
                        ELSE IF k.ask.name # None THEN "lookup"
                        ELSE IF k.ask.about # None \/ k.ask.active # None THEN "write"
                        ELSE "failed")
    <3>1. k.ask.name \in Names \union {None, Blank}
      BY <1>2 DEF Serving, Asks
    <3>2. QED
      BY <2>2, <3>1
  <2>3. CASE Goto(c, "notfound") /\ disturbed' = disturbed \union {c}
    BY <2>3
  <2>4. QED
    BY <2>1, <2>2, <2>3 DEF FindOneById
<1>5. /\ call' \in [Calls -> {NoCall} \union Serving]
      /\ call'[c] # NoCall /\ call'[c].pc = pc /\ call'[c].op = k.op
      /\ call'[c].id = k.id /\ call'[c].ask = k.ask
      /\ \A d \in Calls : d # c => call'[d] = call[d]
  BY <1>1, <1>4, GotoShape
<1>6. TypeOK'
  BY <1>1, <1>4, <1>5 DEF TypeOK
<1> HIDE DEF k
<1>7. CallShape(c)'
  BY <1>1, <1>2, <1>4, <1>5, NoneAssumption DEF CallShape
<1>8. c \notin disturbed' => CallRight(c)'
  BY <1>1, <1>3, <1>4, <1>5 DEF CallRight
<1>9. CallOK(c)'
  BY <1>7, <1>8 DEF CallOK
<1>10. QED
  BY <1>1, <1>4, <1>5, <1>6, <1>9, OwnStep

LEMMA LookupKeeps ==
    ASSUME TopicsInv, NEW c \in Calls, FindByName(c)
    PROVE  TopicsInv'
<1> DEFINE k == call[c]
<1>1. TypeOK /\ CallOK(c) /\ k.pc = "lookup" /\ k # NoCall /\ topic' = topic
  BY DEF TopicsInv, FindByName, NoCall
<1>2. k \in Serving /\ CallShape(c) /\ k.ask.name \in Names
  BY <1>1 DEF TypeOK, CallOK, CallShape
<1>3. PICK pc \in {"conflict", "write"} :
         /\ Goto(c, pc)
         /\ disturbed' = disturbed \/ disturbed' = disturbed \union {c}
         /\ pc = "conflict" => Taken(k.ask.name, k.id)
         /\ pc = "write" => ~Taken(k.ask.name, k.id) \/ c \in disturbed'
  BY DEF FindByName
<1>4. /\ call' \in [Calls -> {NoCall} \union Serving]
      /\ call'[c] # NoCall /\ call'[c].pc = pc /\ call'[c].op = k.op
      /\ call'[c].id = k.id /\ call'[c].ask = k.ask
      /\ \A d \in Calls : d # c => call'[d] = call[d]
  BY <1>1, <1>3, GotoShape
<1>5. TypeOK'
  BY <1>1, <1>3, <1>4 DEF TypeOK
<1> HIDE DEF k
<1>6. CallShape(c)'
  BY <1>1, <1>2, <1>3, <1>4, BlankAssumption DEF CallShape, k
<1>7. Taken(k.ask.name, k.id)' <=> Taken(k.ask.name, k.id)
  BY <1>1, <1>4 DEF Taken, k
<1>8. c \notin disturbed' => CallRight(c)'
  BY <1>1, <1>3, <1>4 DEF CallRight, Taken
<1>9. CallOK(c)'
  BY <1>6, <1>8 DEF CallOK
<1>10. QED
  BY <1>1, <1>3, <1>4, <1>5, <1>9, OwnStep

\* The end of a call by an answer, a crash or a client that leaves.
LEMMA EndKeeps ==
    ASSUME TopicsInv, NEW c \in Calls, Reply(c) \/ Abandon(c)
    PROVE  TopicsInv'
<1>1. TypeOK /\ CallOK(c) /\ topic' = topic
  BY DEF TopicsInv, Reply, Abandon
<1>2. CASE Reply(c)
  <2>1. /\ TypeOK' /\ call'[c] = NoCall /\ disturbed' = disturbed
        /\ \A d \in Calls : d # c => call'[d] = call[d]
    BY <1>1, <1>2 DEF Reply, TypeOK
  <2>2. QED
    BY <1>1, <2>1, OwnStep DEF CallOK
<1>3. CASE Abandon(c)
  <2>1. call[c] # NoCall /\ Goto(c, "failed") /\ disturbed' = disturbed \union {c}
    BY <1>3 DEF Abandon, NoCall
  <2>2. /\ call' \in [Calls -> {NoCall} \union Serving]
        /\ call'[c].pc = "failed" /\ call'[c].op = call[c].op
        /\ call'[c].id = call[c].id /\ call'[c].ask = call[c].ask
        /\ \A d \in Calls : d # c => call'[d] = call[d]
    BY <1>1, <2>1, GotoShape
  <2>3. call[c].pc # "ok"
    BY <1>3 DEF Abandon
  <2>4. CallOK(c)' /\ TypeOK'
    BY <1>1, <2>1, <2>2, <2>3 DEF CallOK, CallShape, TypeOK
  <2>5. QED
    BY <1>1, <2>1, <2>2, <2>4, OwnStep
<1>4. QED
  BY <1>2, <1>3

-----------------------------------------------------------------------------
(* The write. *)

LEMMA Answered ==
    ASSUME NEW k \in Serving, NEW i
    PROVE  [[k EXCEPT !.pc = "ok"] EXCEPT !.id = i] =
                [pc |-> "ok", op |-> k.op, id |-> i, ask |-> k.ask]
<1>1. PICK pc, op, id, ask : k = [pc |-> pc, op |-> op, id |-> id, ask |-> ask]
  <2>1. k = [pc |-> k.pc, op |-> k.op, id |-> k.id, ask |-> k.ask]
    BY DEF Serving
  <2>2. QED
    BY <2>1
<1>2. [k EXCEPT !.pc = "ok"] = [pc |-> "ok", op |-> op, id |-> id, ask |-> ask]
  BY <1>1
<1>3. [[pc |-> "ok", op |-> op, id |-> id, ask |-> ask] EXCEPT !.id = i] =
          [pc |-> "ok", op |-> op, id |-> i, ask |-> ask]
  OBVIOUS
<1>4. k.op = op /\ k.ask = ask
  BY <1>1
<1>5. QED
  BY <1>2, <1>3, <1>4

\* A write of a row that suits its call, at an id that suits it.
LEMMA WriteKeeps ==
    ASSUME TopicsInv, NEW c \in Calls, call[c].pc = "write", NEW i \in Ids,
           NEW t \in Topics, Write(c, i, t),
           Holds(t, call[c]),
           call[c].op = "update" => call[c].id = i,
           c \notin disturbed => ~Taken(t.name, i)
    PROVE  TopicsInv'
<1> DEFINE k == call[c]
<1>1. TypeOK /\ CallOK(c) /\ k # NoCall /\ k \in Serving
  BY DEF TopicsInv, NoCall, TypeOK
<1>2. CallShape(c)
  BY <1>1 DEF CallOK
<1>3. CASE Goto(c, "failed") /\ topic' = topic
           /\ disturbed \subseteq disturbed' /\ disturbed' \subseteq Calls
           /\ c \in disturbed'
  <2>1. /\ call' \in [Calls -> {NoCall} \union Serving]
        /\ call'[c].pc = "failed" /\ call'[c].op = call[c].op
        /\ call'[c].id = call[c].id /\ call'[c].ask = call[c].ask
        /\ \A d \in Calls : d # c => call'[d] = call[d]
    BY <1>1, <1>3, GotoShape
  <2>2. CallOK(c)' /\ TypeOK'
    BY <1>1, <1>2, <1>3, <2>1 DEF CallOK, CallShape, TypeOK
  <2>3. QED
    BY <1>3, <2>1, <2>2, OwnStep
<1>4. CASE /\ ~Taken(t.name, i) /\ topic' = [topic EXCEPT ![i] = t]
           /\ \/ /\ call' = [call EXCEPT ![c].pc = "ok", ![c].id = i]
                 /\ disturbed' = disturbed \union Others(c)
              \/ Goto(c, "failed") /\ disturbed' = disturbed \union Others(c) \union {c}
  <2>1. PICK pc \in {"ok", "failed"} :
           /\ call' \in [Calls -> {NoCall} \union Serving]
           /\ call'[c] # NoCall /\ call'[c].pc = pc /\ call'[c].op = k.op
           /\ call'[c].ask = k.ask
           /\ pc = "ok" => call'[c].id = i
           /\ pc = "failed" => call'[c].id = k.id /\ c \in disturbed'
           /\ \A d \in Calls : d # c => call'[d] = call[d]
    <3>1. CASE /\ call' = [call EXCEPT ![c].pc = "ok", ![c].id = i]
      <4> DEFINE r == [pc |-> "ok", op |-> k.op, id |-> i, ask |-> k.ask]
      <4>1. r \in Serving
        BY <1>1 DEF Serving
      <4>2. [[k EXCEPT !.pc = "ok"] EXCEPT !.id = i] = r
        BY <1>1, Answered
      <4>3. call' = [call EXCEPT ![c] = r]
        BY <1>1, <3>1, <4>2 DEF TypeOK
      <4>4. r.pc = "ok" /\ r.op = k.op /\ r.id = i /\ r.ask = k.ask
        OBVIOUS
      <4> HIDE DEF r, k
      <4>5. /\ call'[c] = r /\ \A d \in Calls : d # c => call'[d] = call[d]
            /\ call' \in [Calls -> {NoCall} \union Serving]
        BY <1>1, <4>1, <4>3 DEF TypeOK
      <4>6. QED
        BY <4>1, <4>4, <4>5, ServingPc
    <3>2. CASE Goto(c, "failed") /\ disturbed' = disturbed \union Others(c) \union {c}
      BY <1>1, <3>2, GotoShape
    <3>3. QED
      BY <1>4, <3>1, <3>2
  <2>2. /\ disturbed \subseteq disturbed' /\ disturbed' \subseteq Calls
        /\ \A d \in Calls : d # c /\ call[d] # NoCall => d \in disturbed'
    BY <1>1, <1>4 DEF Others, TypeOK
  <2>3. topic'[i] = t /\ \A j \in Ids : j # i => topic'[j] = topic[j]
    BY <1>1, <1>4 DEF TypeOK
  <2>4. TypeOK'
    BY <1>1, <1>4, <2>1, <2>2 DEF TypeOK
  <2>5. UniqueNames'
    <3>1. \A j \in Ids : j # i /\ topic[j] # NoTopic => topic[j].name # t.name
      BY <1>4 DEF Taken
    <3>2. QED
      BY <2>3, <3>1 DEF TopicsInv, UniqueNames
  <2>6. \A j \in Ids : topic[j] # NoTopic => topic'[j] # NoTopic
    BY <2>3, NoTopicIsNone
  <2>7. ASSUME NEW d \in Calls, d # c PROVE CallOK(d)'
    <3>1. call'[d] = call[d] /\ (call[d] # NoCall => d \in disturbed')
      BY <2>1, <2>2, <2>7
    <3>2. call[d] # NoCall => CallShape(d)
      BY DEF TopicsInv, CallOK
    <3>3. call[d] # NoCall => CallShape(d)'
      BY <2>6, <3>1, <3>2 DEF CallShape
    <3>4. QED
      BY <3>1, <3>3 DEF CallOK
  <2>8. CallOK(c)'
    <3>1. CallShape(c)'
      BY <1>2, <2>1 DEF CallShape
    <3>2. c \notin disturbed' => CallRight(c)'
      <4> SUFFICES ASSUME c \notin disturbed' PROVE CallRight(c)'
        OBVIOUS
      <4>1. call'[c].pc = "ok" /\ call'[c].id = i
        BY <2>1
      <4>2. topic'[i] # NoTopic /\ Holds(t, call[c])
        BY <2>3, NoTopicIsNone
      <4>3. Holds(topic[call[c].id], call[c])'
        BY <2>1, <2>3, <4>1, <4>2 DEF Holds
      <4>4. QED
        BY <4>1, <4>2, <4>3 DEF CallRight
    <3>3. QED
      BY <3>1, <3>2 DEF CallOK
  <2>9. QED
    BY <2>4, <2>5, <2>7, <2>8 DEF TopicsInv
<1>5. QED
  <2>1. CASE Taken(t.name, i) /\ Goto(c, "failed") /\ UNCHANGED <<topic, disturbed>>
    <3>1. c \in disturbed
      BY <2>1
    <3>2. QED
      BY <1>1, <1>3, <2>1, <3>1 DEF TypeOK
  <2>2. CASE Goto(c, "failed") /\ disturbed' = disturbed \union {c} /\ UNCHANGED topic
    BY <1>1, <1>3, <2>2 DEF TypeOK
  <2>3. QED
    BY <1>4, <2>1, <2>2 DEF Write

LEMMA CreateKeeps ==
    ASSUME TopicsInv, NEW c \in Calls, WriteCreated(c)
    PROVE  TopicsInv'
<1> DEFINE k == call[c]
<1>1. TypeOK /\ CallOK(c) /\ k.pc = "write" /\ k.op = "create" /\ k # NoCall
  BY DEF TopicsInv, WriteCreated, NoCall
<1>2. k \in Serving /\ CallShape(c)
  BY <1>1 DEF TypeOK, CallOK
<1>3. k.ask.name \in Names /\ k.ask.about \in Abouts /\ k.id = None
  BY <1>1, <1>2 DEF CallShape, Serving, Asks
<1>4. PICK i \in Ids : topic[i] = NoTopic /\ Write(c, i, Created(k.ask))
  BY DEF WriteCreated
<1>5. /\ Created(k.ask) \in Topics /\ Created(k.ask).name = k.ask.name
      /\ Holds(Created(k.ask), k)
  BY <1>1, <1>3 DEF Created, Topics, Holds
<1>6. c \notin disturbed => ~Taken(Created(k.ask).name, i)
  <2> SUFFICES ASSUME c \notin disturbed PROVE ~Taken(k.ask.name, i)
    BY <1>5
  <2>1. ~Taken(k.ask.name, None) /\ None \notin Ids
    BY <1>1, <1>3, NoneAssumption DEF CallOK, CallRight
  <2>2. QED
    BY <2>1 DEF Taken
<1>7. QED
  BY <1>1, <1>4, <1>5, <1>6, WriteKeeps

LEMMA UpdatedFields ==
    ASSUME NEW t \in Topics, NEW ask \in Asks, ask.name # Blank
    PROVE  /\ Updated(t, ask) \in Topics
           /\ Updated(t, ask).name = Or(ask.name, t.name)
           /\ Updated(t, ask).about = Or(ask.about, t.about)
           /\ Updated(t, ask).active = Or(ask.active, t.active)
BY DEF Updated, Topics, Asks, Or

LEMMA UpdateKeeps ==
    ASSUME TopicsInv, NEW c \in Calls, WriteUpdated(c)
    PROVE  TopicsInv'
<1> DEFINE k == call[c]
           t == topic[k.id]
<1>1. TypeOK /\ CallOK(c) /\ k.pc = "write" /\ k.op = "update" /\ k # NoCall
  BY DEF TopicsInv, WriteUpdated, NoCall
<1>2. k \in Serving /\ CallShape(c)
  BY <1>1 DEF TypeOK, CallOK
<1>3. k.id \in Ids /\ t # NoTopic /\ k.ask \in Asks /\ k.ask.name # Blank
  BY <1>1, <1>2 DEF CallShape, Serving
<1>4. t \in Topics
  BY <1>1, <1>3 DEF TypeOK
<1>5. Write(c, k.id, Updated(t, k.ask))
  BY DEF WriteUpdated
<1>6. Holds(Updated(t, k.ask), k)
  BY <1>3, <1>4, UpdatedFields DEF Holds, Or
<1>7. c \notin disturbed => ~Taken(Updated(t, k.ask).name, k.id)
  <2> SUFFICES ASSUME c \notin disturbed PROVE ~Taken(Updated(t, k.ask).name, k.id)
    OBVIOUS
  <2>1. CASE k.ask.name # None
    <3>1. Updated(t, k.ask).name = k.ask.name
      BY <1>3, <1>4, <2>1, UpdatedFields DEF Or
    <3>2. ~Taken(k.ask.name, k.id)
      BY <1>1, <2>1 DEF CallOK, CallRight
    <3>3. QED
      BY <3>1, <3>2
  <2>2. CASE k.ask.name = None
    <3>1. Updated(t, k.ask).name = t.name
      BY <1>3, <1>4, <2>2, UpdatedFields DEF Or
    <3>2. \A j \in Ids \ {k.id} : topic[j] # NoTopic => topic[j].name # t.name
      BY <1>3 DEF TopicsInv, UniqueNames
    <3>3. QED
      BY <3>1, <3>2 DEF Taken
  <2>3. QED
    BY <2>1, <2>2
<1>8. QED
  BY <1>1, <1>3, <1>4, <1>5, <1>6, <1>7, UpdatedFields, WriteKeeps

LEMMA TopicsStep == TopicsInv /\ [Next]_vars => TopicsInv'
<1> SUFFICES ASSUME TopicsInv, [Next]_vars PROVE TopicsInv'
  OBVIOUS
<1>1. CASE UNCHANGED vars
  BY <1>1 DEF vars, TopicsInv, TypeOK, UniqueNames, CallOK, CallShape, CallRight,
              Taken, Holds
<1>2. CASE Next
  BY <1>2, BeginKeeps, LoadKeeps, LookupKeeps, CreateKeeps, UpdateKeeps, EndKeeps DEF Next
<1>3. QED
  BY <1>1, <1>2

LEMMA TopicsHold == Spec => []TopicsInv
BY TopicsInit, TopicsStep, PTL DEF Spec

-----------------------------------------------------------------------------

\* The rows of push_topics and the calls in progress always have their types.
THEOREM TypeCorrect == Spec => []TypeOK
<1>1. TopicsInv => TypeOK
  BY DEF TopicsInv
<1>2. QED
  BY <1>1, TopicsHold, PTL

\* Create and Update answer rightly, although they look and then write in no
\* transaction, as long as no error and no other call comes between.
THEOREM AnswersAreRight == Spec => []UndisturbedAnswerIsRight
<1>1. TopicsInv => UndisturbedAnswerIsRight
  <2> SUFFICES ASSUME TopicsInv, NEW c \in Calls \ disturbed
               PROVE  LET k == call[c] IN
                      /\ k.pc = "ok" => topic[k.id] # NoTopic /\ Holds(topic[k.id], k)
                      /\ k.pc = "conflict" => Taken(k.ask.name, k.id)
                      /\ k.pc = "notfound" => topic[k.id] = NoTopic
                      /\ k.pc = "failed" =>
                            \/ k.ask.name = Blank
                            \/ k.ask = [name |-> None, about |-> None, active |-> None]
    BY DEF UndisturbedAnswerIsRight
  <2>1. CASE call[c] = NoCall
    BY <2>1 DEF NoCall
  <2>2. CASE call[c] # NoCall
    BY <2>2 DEF TopicsInv, CallOK, CallRight
  <2>3. QED
    BY <2>1, <2>2
<1>2. QED
  BY <1>1, TopicsHold, PTL

-----------------------------------------------------------------------------

\* What a step may do to a topic that exists.
GivenFieldsOnly ==
    \A i \in Ids : topic[i] # NoTopic /\ topic'[i] # topic[i] =>
        \E c \in Calls :
            /\ call[c].pc = "write" /\ call[c].id = i
            /\ topic'[i] \in Topics
            /\ topic'[i].name # topic[i].name => call[c].ask.name = topic'[i].name
            /\ topic'[i].about # topic[i].about => call[c].ask.about = topic'[i].about
            /\ topic'[i].active # topic[i].active
                  => call[c].ask.active = topic'[i].active

LEMMA GivenStep == TopicsInv /\ [Next]_vars => [GivenFieldsOnly]_vars
<1> SUFFICES ASSUME TopicsInv, [Next]_vars,
                    NEW i \in Ids, topic[i] # NoTopic, topic'[i] # topic[i]
             PROVE  \E c \in Calls :
                       /\ call[c].pc = "write" /\ call[c].id = i
                       /\ topic'[i] \in Topics
                       /\ topic'[i].name # topic[i].name
                             => call[c].ask.name = topic'[i].name
                       /\ topic'[i].about # topic[i].about
                             => call[c].ask.about = topic'[i].about
                       /\ topic'[i].active # topic[i].active
                             => call[c].ask.active = topic'[i].active
  BY DEF GivenFieldsOnly
<1>1. TypeOK
  BY DEF TopicsInv
<1>2. PICK c \in Calls : WriteCreated(c) \/ WriteUpdated(c)
  BY DEF Next, vars, Create, Update, Begin, FindOneById, FindByName, Reply, Abandon
<1>3. CASE WriteCreated(c)
  <2>1. PICK j \in Ids : topic[j] = NoTopic /\ Write(c, j, Created(call[c].ask))
    BY <1>3 DEF WriteCreated
  <2>2. topic'[i] = topic[i]
    BY <1>1, <2>1 DEF Write, TypeOK
  <2>3. QED
    BY <2>2
<1>4. CASE WriteUpdated(c)
  <2>1. Write(c, call[c].id, Updated(topic[call[c].id], call[c].ask))
        /\ call[c].pc = "write"
    BY <1>4 DEF WriteUpdated
  <2>2. call[c].id = i /\ topic'[i] = Updated(topic[i], call[c].ask)
    BY <1>1, <2>1 DEF Write, TypeOK
  <2>3. call[c].ask \in Asks /\ call[c].ask.name # Blank
    BY <1>1, <2>1 DEF TopicsInv, CallOK, CallShape, TypeOK, NoCall, Serving
  <2>4. topic[i] \in Topics
    BY <1>1 DEF TypeOK
  <2>5. QED
    BY <2>1, <2>2, <2>3, <2>4, UpdatedFields DEF Or
<1>5. QED
  BY <1>2, <1>3, <1>4

\* Two updates of one topic do not undo each other: whatever a step changes in
\* a topic, a call in progress has given.
THEOREM UpdatesDoNotUndo == Spec => OnlyGivenFieldsChange
<1>1. Spec => [][GivenFieldsOnly]_vars
  BY TopicsHold, GivenStep, PTL DEF Spec
<1>2. QED
  BY <1>1 DEF OnlyGivenFieldsChange, GivenFieldsOnly

=============================================================================
