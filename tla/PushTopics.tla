----------------------------- MODULE PushTopics -----------------------------
(***************************************************************************)
(* The registry of push topics: Create and Update of PushTopicSvc and the  *)
(* statements they issue on push_topics.  Both look whether a name is      *)
(* taken, then write, in no transaction; the unique index on the name has  *)
(* the last word.  Nothing deletes a topic.                                *)
(***************************************************************************)
CONSTANTS Ids, Names, Abouts, Calls,
    None,         \* a field that is not given, an id that is not known
    Blank         \* a name of nothing but spaces

ASSUME NoneAssumption ==
    None \notin Ids \union Names \union Abouts \union {"on", "off", Blank}
ASSUME BlankAssumption == Blank \notin Names

VARIABLES
    topic,        \* topic[i]: the row with id i, or NoTopic
    call,         \* call[c]: a call of Create or Update, at some pod
    disturbed     \* calls hit by an error, or overtaken by another's write

vars == <<topic, call, disturbed>>

Topics == [name : Names, about : Abouts, active : {"on", "off"}]
NoTopic == [name |-> None]

\* What a call asks for; None for a field that is not given.
Asks == [name : Names \union {None, Blank}, about : Abouts \union {None},
         active : {"on", "off", None}]

NoCall == [pc |-> "idle"]
Serving == [pc : {"load", "lookup", "write", "ok", "conflict", "notfound", "failed"},
            op : {"create", "update"}, id : Ids \union {None}, ask : Asks]

TypeOK ==
    /\ topic \in [Ids -> {NoTopic} \union Topics]
    /\ call \in [Calls -> {NoCall} \union Serving]
    /\ disturbed \subseteq Calls

Init ==
    /\ topic = [i \in Ids |-> NoTopic]
    /\ call = [c \in Calls |-> NoCall]
    /\ disturbed = {}

-----------------------------------------------------------------------------

Goto(c, pc) == call' = [call EXCEPT ![c].pc = pc]

Begin(c, pc, op, i, ask) ==
    /\ call[c] = NoCall
    /\ call' = [call EXCEPT ![c] = [pc |-> pc, op |-> op, id |-> i, ask |-> ask]]
    /\ disturbed' = disturbed \ {c}
    /\ UNCHANGED topic

Create(c, ask) == ask.name \in Names /\ ask.about # None
                  /\ Begin(c, "lookup", "create", None, ask)

\* A request without any field, or with a blank name, is refused once its topic
\* has been loaded.
Update(c, i, ask) == Begin(c, "load", "update", i, ask)

\* A row other than id holds the name.
Taken(name, id) == \E i \in Ids \ {id} : topic[i] # NoTopic /\ topic[i].name = name

\* FindOneById returns nil for an error as well as for a missing row.
FindOneById(c) ==
    /\ call[c].pc = "load"
    /\ LET k == call[c] IN
        \/ topic[k.id] = NoTopic /\ Goto(c, "notfound") /\ UNCHANGED disturbed
        \/ /\ topic[k.id] # NoTopic /\ UNCHANGED disturbed
           /\ Goto(c, IF k.ask.name = Blank THEN "failed"
                      ELSE IF k.ask.name # None THEN "lookup"
                      ELSE IF k.ask.about # None \/ k.ask.active # None THEN "write"
                      ELSE "failed")
        \/ Goto(c, "notfound") /\ disturbed' = disturbed \union {c}
    /\ UNCHANGED topic

\* Variant with a bug: a topic cannot keep its own name.
FindByNameOwnToo(c) ==
    /\ call[c].pc = "lookup"
    /\ Goto(c, IF Taken(call[c].ask.name, None) THEN "conflict" ELSE "write")
    /\ UNCHANGED <<topic, disturbed>>

\* So does FindByName: after an error the write is tried.
FindByName(c) ==
    /\ call[c].pc = "lookup"
    /\ LET taken == Taken(call[c].ask.name, call[c].id) IN
        \/ taken /\ Goto(c, "conflict") /\ UNCHANGED disturbed
        \/ ~taken /\ Goto(c, "write") /\ UNCHANGED disturbed
        \/ Goto(c, "write") /\ disturbed' = disturbed \union {c}
    /\ UNCHANGED topic

\* Variant with a bug: IsActive is stored as given, or as nothing.
CreatedAsGiven(ask) == ask

\* The row a call writes.  On creation IsActive has a default of true in the
\* model, and the ORM writes the default for a field that is zero.
Created(ask) == [name |-> ask.name, about |-> ask.about, active |-> "on"]

Or(new, old) == IF new # None THEN new ELSE old

\* Variant with a bug: IsActive is written when it is not given, as its default.
UpdatedAll(t, ask) == [name |-> Or(ask.name, t.name),
                       about |-> Or(ask.about, t.about),
                       active |-> Or(ask.active, "on")]

Updated(t, ask) == [name |-> Or(ask.name, t.name),
                    about |-> Or(ask.about, t.about),
                    active |-> Or(ask.active, t.active)]

Others(c) == {d \in Calls \ {c} : call[d] # NoCall}

\* The statement that writes: refused by the index, executed, or failed with
\* an error that leaves open whether it wrote.
Write(c, i, row) ==
    \/ /\ Taken(row.name, i)
       /\ Goto(c, "failed") /\ UNCHANGED <<topic, disturbed>>
    \/ /\ ~Taken(row.name, i)
       /\ topic' = [topic EXCEPT ![i] = row]
       /\ \/ /\ call' = [call EXCEPT ![c].pc = "ok", ![c].id = i]
             /\ disturbed' = disturbed \union Others(c)
          \/ Goto(c, "failed") /\ disturbed' = disturbed \union Others(c) \union {c}
    \/ Goto(c, "failed") /\ disturbed' = disturbed \union {c} /\ UNCHANGED topic

WriteCreated(c) ==
    /\ call[c].pc = "write" /\ call[c].op = "create"
    /\ \E i \in Ids : topic[i] = NoTopic /\ Write(c, i, Created(call[c].ask))

WriteUpdated(c) ==
    /\ call[c].pc = "write" /\ call[c].op = "update"
    /\ LET i == call[c].id IN Write(c, i, Updated(topic[i], call[c].ask))

Reply(c) ==
    /\ call[c].pc \in {"ok", "conflict", "notfound", "failed"}
    /\ call' = [call EXCEPT ![c] = NoCall]
    /\ UNCHANGED <<topic, disturbed>>

\* The pod dies, or the client leaves, in the middle of a call.
Abandon(c) ==
    /\ call[c].pc \in {"load", "lookup", "write"}
    /\ Goto(c, "failed")
    /\ disturbed' = disturbed \union {c}
    /\ UNCHANGED topic

Next ==
    \/ \E c \in Calls, ask \in Asks : Create(c, ask) \/ \E i \in Ids : Update(c, i, ask)
    \/ \E c \in Calls :
          \/ FindOneById(c) \/ FindByName(c) \/ WriteCreated(c) \/ WriteUpdated(c)
          \/ Reply(c) \/ Abandon(c)

Spec == Init /\ [][Next]_vars

-----------------------------------------------------------------------------

\* Every field that the call gives, other than IsActive on creation, is in the
\* row.
Holds(t, k) ==
    /\ k.ask.name \in {None, t.name}
    /\ k.ask.about \in {None, t.about}
    /\ k.op = "update" => k.ask.active \in {None, t.active}

\* A call that no error hits and no other call overtakes is answered rightly:
\* "ok" with every given field in the row, a conflict when the name is that of
\* another topic, not found when there is none, and an error only for a request
\* without fields or with a blank name.
UndisturbedAnswerIsRight ==
    \A c \in Calls \ disturbed :
        LET k == call[c] IN
        /\ k.pc = "ok" => topic[k.id] # NoTopic /\ Holds(topic[k.id], k)
        /\ k.pc = "conflict" => Taken(k.ask.name, k.id)
        /\ k.pc = "notfound" => topic[k.id] = NoTopic
        /\ k.pc = "failed" =>
              \/ k.ask.name = Blank
              \/ k.ask = [name |-> None, about |-> None, active |-> None]

\* A topic is created with the active flag its creator gives.
CreatedFlagIsGiven ==
    \A c \in Calls \ disturbed :
        LET k == call[c] IN
        k.pc = "ok" /\ k.op = "create" => k.ask.active \in {None, topic[k.id].active}

\* Two updates of one topic do not undo each other: a step changes a field of
\* a topic only if a call in progress gives that field.
OnlyGivenFieldsChange ==
    [][\A i \in Ids : topic[i] # NoTopic /\ topic'[i] # topic[i] =>
          \E c \in Calls :
              /\ call[c].pc = "write" /\ call[c].id = i
              /\ topic'[i] \in Topics
              /\ topic'[i].name # topic[i].name => call[c].ask.name = topic'[i].name
              /\ topic'[i].about # topic[i].about => call[c].ask.about = topic'[i].about
              /\ topic'[i].active # topic[i].active
                    => call[c].ask.active = topic'[i].active]_vars

=============================================================================
