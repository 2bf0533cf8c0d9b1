---------------------------- MODULE TokenRegistry ----------------------------
(***************************************************************************)
(* The registry of FCM tokens: Register, DeleteForUser of UserFCMTokenSvc  *)
(* and the statements they issue on user_fcm_tokens, which all pods share. *)
(* Register finds, then inserts or updates and reads back, in no           *)
(* transaction.                                                            *)
(*                                                                         *)
(* A row is never removed: Delete sets deleted_at, every other statement   *)
(* overlooks such rows, and the unique index on the token does not.  There *)
(* is thus one row for a token at most, and its token stands for its id.   *)
(***************************************************************************)
CONSTANTS Tokens, Users, Calls, NoOne

ASSUME NoOneAssumption == NoOne \notin Users

VARIABLES
    row,          \* row[t]: the row of token t
    call,         \* call[c]: a call of Register, at some pod
    disturbed     \* calls hit by an error, or whose token others have written

vars == <<row, call, disturbed>>

Rows == [state : {"absent", "live", "deleted"}, owner : Users \union {NoOne}]

\* affected: whether the UPDATE found the row (the code does not ask).
\* answer: the userId of the reply.
NoCall == [pc |-> "idle"]
Call(pc, t, u, affected, answer) ==
    [pc |-> pc, token |-> t, user |-> u, affected |-> affected, answer |-> answer]
Registering ==
    [pc : {"find", "insert", "update", "readback", "ok", "failed"},
     token : Tokens, user : Users, affected : BOOLEAN,
     answer : Users \union {NoOne}]

TypeOK ==
    /\ row \in [Tokens -> Rows]
    /\ call \in [Calls -> {NoCall} \union Registering]
    /\ disturbed \subseteq Calls

Init ==
    /\ row = [t \in Tokens |-> [state |-> "absent", owner |-> NoOne]]
    /\ call = [c \in Calls |-> NoCall]
    /\ disturbed = {}

-----------------------------------------------------------------------------

\* The statements that ask for a live row see it.
Live(t) == row[t].state = "live"

Goto(c, pc) == call' = [call EXCEPT ![c].pc = pc]

\* The calls on t.
On(t) == {c \in Calls : call[c] # NoCall /\ call[c].token = t}

\* c writes its user into the row of its token.
WriteOwner(c) ==
    /\ row' = [row EXCEPT ![call[c].token] =
                  [state |-> "live", owner |-> call[c].user]]
    /\ disturbed' = disturbed \union (On(call[c].token) \ {c})

\* A statement of c returns an error; whether it wrote is open.
WriteFails(c) ==
    /\ Goto(c, "failed")
    /\ \/ row' = row /\ disturbed' = disturbed \union {c}
       \/ /\ row' = [row EXCEPT ![call[c].token] =
                        [state |-> "live", owner |-> call[c].user]]
          /\ disturbed' = disturbed \union On(call[c].token)

Register(c, t, u) ==
    /\ call[c] = NoCall
    /\ call' = [call EXCEPT ![c] = Call("find", t, u, FALSE, NoOne)]
    /\ disturbed' = disturbed \ {c}
    /\ UNCHANGED row

\* Variant with a bug: the row is looked for among the user's own.
FindByTokenOfUser(c) ==
    /\ call[c].pc = "find"
    /\ IF Live(call[c].token) /\ row[call[c].token].owner = call[c].user
       THEN Goto(c, "update") ELSE Goto(c, "insert")
    /\ UNCHANGED <<row, disturbed>>

\* FindByToken returns nil for an error as well as for a missing row.
FindByToken(c) ==
    /\ call[c].pc = "find"
    /\ \/ Live(call[c].token) /\ Goto(c, "update") /\ UNCHANGED disturbed
       \/ ~Live(call[c].token) /\ Goto(c, "insert") /\ UNCHANGED disturbed
       \/ Goto(c, "insert") /\ disturbed' = disturbed \union {c}
    /\ UNCHANGED row

Create(c) ==
    /\ call[c].pc = "insert"
    /\ \/ /\ row[call[c].token].state = "absent"
          /\ WriteOwner(c)
          /\ call' = [call EXCEPT ![c].pc = "ok", ![c].answer = call[c].user]
       \/ /\ row[call[c].token].state # "absent"
          /\ Goto(c, "failed") /\ UNCHANGED <<row, disturbed>>
       \/ row[call[c].token].state = "absent" /\ WriteFails(c)

\* An UPDATE that finds no row is no error.
Update(c) ==
    /\ call[c].pc = "update"
    /\ \/ /\ Live(call[c].token)
          /\ WriteOwner(c)
          /\ call' = [call EXCEPT ![c].pc = "readback", ![c].affected = TRUE]
       \/ ~Live(call[c].token) /\ Goto(c, "readback") /\ UNCHANGED <<row, disturbed>>
       \/ Live(call[c].token) /\ WriteFails(c)

\* FindOneById after the update: the reply is made from the row as it is now.
FindOneById(c) ==
    /\ call[c].pc = "readback"
    /\ \/ /\ Live(call[c].token)
          /\ call' = [call EXCEPT ![c].pc = "ok",
                                  ![c].answer = row[call[c].token].owner]
          /\ UNCHANGED disturbed
       \/ ~Live(call[c].token) /\ Goto(c, "failed") /\ UNCHANGED disturbed
       \/ Goto(c, "failed") /\ disturbed' = disturbed \union {c}
    /\ UNCHANGED row

Reply(c) ==
    /\ call[c].pc \in {"ok", "failed"}
    /\ call' = [call EXCEPT ![c] = NoCall]
    /\ UNCHANGED <<row, disturbed>>

\* The pod dies, or the client leaves, in the middle of a call.
Abandon(c) ==
    /\ call[c].pc \in {"find", "insert", "update", "readback"}
    /\ Goto(c, "failed")
    /\ disturbed' = disturbed \union {c}
    /\ UNCHANGED row

\* Variants with a bug: the row is removed; a status nobody knows is written.
DeleteHard(t, u) ==
    /\ Live(t) /\ row[t].owner = u
    /\ row' = [row EXCEPT ![t] = [state |-> "absent", owner |-> NoOne]]
    /\ disturbed' = disturbed \union On(t)
    /\ UNCHANGED call

DeleteUnknown(t, u) ==
    /\ Live(t) /\ row[t].owner = u
    /\ row' = [row EXCEPT ![t].state = "gone"]
    /\ disturbed' = disturbed \union On(t)
    /\ UNCHANGED call

\* DeleteForUser is one statement; for a row that is not there or not the
\* user's it answers not found and changes nothing.
DeleteForUser(t, u) ==
    /\ Live(t) /\ row[t].owner = u
    /\ row' = [row EXCEPT ![t].state = "deleted"]
    /\ disturbed' = disturbed \union On(t)
    /\ UNCHANGED call

Next ==
    \/ \E c \in Calls, t \in Tokens, u \in Users : Register(c, t, u)
    \/ \E c \in Calls :
          \/ FindByToken(c) \/ Create(c) \/ Update(c)
          \/ FindOneById(c) \/ Reply(c) \/ Abandon(c)
    \/ \E t \in Tokens, u \in Users : DeleteForUser(t, u)

Spec == Init /\ [][Next]_vars

-----------------------------------------------------------------------------

\* A call that updates has taken the token once its UPDATE has found the row.
AskerOf(k) ==
    IF k = NoCall THEN NoCall
    ELSE [pc |-> CASE k.pc \in {"ok", "failed"} -> k.pc
                   [] k.pc = "readback" /\ k.affected -> "ok"
                   [] OTHER -> "asked",
          token |-> k.token, user |-> k.user]

Directory == INSTANCE TokenDirectory WITH
    owner <- [t \in Tokens |-> IF Live(t) THEN row[t].owner ELSE NoOne],
    asker <- [c \in Calls |-> AskerOf(call[c])]

\* Whatever calls interleave and whatever fails, Register and DeleteForUser
\* act on a token at one instant each, and a call of Register that is answered
\* without an error has made its user the owner.
ImplementsDirectory == Directory!Spec

\* The reply to a registration that no error hits and no other call disturbs
\* names the user who registered; it is an error only if the token has been
\* deleted before.
UndisturbedReplyIsRight ==
    \A c \in Calls \ disturbed :
        /\ call[c].pc = "ok" => call[c].answer = call[c].user
        /\ call[c].pc = "failed" => row[call[c].token].state = "deleted"

\* A registration that no error hits and no other call disturbs succeeds.
UndisturbedSucceeds == \A c \in Calls \ disturbed : call[c].pc # "failed"

=============================================================================
